------------------------------ MODULE TravelRun ------------------------------
(***************************************************************************)
(* TravelRun (travel_capture.py) as a value: one listening session's       *)
(* measurement of a cover by its own remote's presses.  The first copy of  *)
(* a direction press opens a run, the first STOP after it closes it, and   *)
(* the copies of one press by several bridges must count once.             *)
(*                                                                         *)
(* A copy is a record: the press it is a copy of (known to the model only, *)
(* the protocol numbers nothing), its button, the bridge that heard it     *)
(* with its boot counter and its wrapping clock, and when it arrived.      *)
(***************************************************************************)
EXTENDS Integers, Sequences, SequencesExt

CONSTANTS Modulus,     \* of a bridge's millisecond counter, 2^32
          PerSecond,   \* clock units in a second
          BurstWindow, \* TRAVEL_BURST_WINDOW_SECONDS
          MinMeasured, \* MIN_MEASURED_SECONDS
          MaxTravel,   \* MAX_TRAVEL_SECONDS, in seconds
          HeardCap     \* _HEARD_CAP

ASSUME TravelAssumption ==
  /\ {Modulus, PerSecond, MaxTravel, HeardCap} \subseteq Nat \ {0}
  /\ {BurstWindow, MinMeasured} \subseteq Nat

Directions == {"UP", "DOWN"}
Buttons == Directions \cup {"STOP"}

NoCopy == [press |-> 0]
Never == -1
NoTime == -1
Untimed == [dir |-> "none"]

NewRun(wanted) ==
  [wanted |-> wanted, started |-> NoCopy, anchored |-> {}, heard |-> <<>>,
   overflowed |-> FALSE, recent |-> [b \in Buttons |-> Never]]

\* interval_seconds, in clock units
Interval(start, stop) ==
  IF start.bridge # stop.bridge THEN stop.arrived - start.arrived
  ELSE LET delta == (stop.t - start.t) % Modulus
       IN IF start.boot # stop.boot \/ delta >= Modulus \div 2 THEN NoTime ELSE delta

\* stored_value: whole seconds, rounded up
Stored(units) ==
  LET value == (units + PerSecond - 1) \div PerSecond
  IN IF units < MinMeasured \/ value > MaxTravel THEN NoTime ELSE value

\* Faulty variant: a list without a bound.
RecordEvery(run, signature) ==
  IF Contains(run.heard, signature) THEN run
  ELSE [run EXCEPT !.heard = Append(@, signature)]

\* _record_mismatch
RecordMismatch(run, signature) ==
  IF Contains(run.heard, signature) THEN run
  ELSE IF Len(run.heard) >= HeardCap THEN [run EXCEPT !.overflowed = TRUE]
  ELSE [run EXCEPT !.heard = Append(@, signature)]

\* _is_repeat, and the stamp it leaves
Repeats(run, copy) ==
  /\ run.recent[copy.button] # Never
  /\ copy.arrived - run.recent[copy.button] <= BurstWindow

Stamped(run, copy) == [run EXCEPT !.recent[copy.button] = copy.arrived]

\* Faulty variant: only the current anchor is remembered.
AbsorbsCurrent(run, button) ==
  \/ button \notin run.wanted
  \/ run.started # NoCopy /\ run.started.button = button

\* _open: the presses that may not start the run
Absorbs(run, button) == button \notin run.wanted \/ button \in run.anchored

Opened(run, copy) ==
  IF Absorbs(run, copy.button) THEN run
  ELSE [run EXCEPT !.started = copy, !.anchored = @ \cup {copy.button}]

\* _close: the run it leaves, and what it measured
Closed(run) == [run EXCEPT !.started = NoCopy, !.anchored = {}]

Measured(run, copy) ==
  LET units == Interval(run.started, copy)
  IN IF units = NoTime \/ Stored(units) = NoTime THEN Untimed
     ELSE [dir |-> run.started.button, stored |-> Stored(units),
           from |-> run.started, to |-> copy]

\* offer_payload, for a press of the cover's own remote and channels
OfferDirection(run, copy) == Opened(Stamped(run, copy), copy)

Closes(run, copy) == ~Repeats(run, copy) /\ run.started # NoCopy

OfferStop(run, copy) ==
  IF Closes(run, copy) THEN Closed(Stamped(run, copy)) ELSE Stamped(run, copy)
=============================================================================
