---------------------------- MODULE SniffAttempt ----------------------------
(***************************************************************************)
(* _SniffAttempt (learn_session.py) and what _handle_sniff_message         *)
(* (config_flow.py) makes of it: the wizard asks for one button, and the   *)
(* first acceptable frame is the answer.  A bridge reports no signal       *)
(* strength, so a capture made while somebody else pressed another remote  *)
(* cannot be told from a wrong one; the presses within one settle window   *)
(* of a candidate are its rivals.                                          *)
(*                                                                         *)
(* A press is a record: remote, sel (its channels), button, and tabled,    *)
(* whether the opcode table knows it.  An OEM trailer is a button of its   *)
(* own that no table knows.                                                *)
(***************************************************************************)
EXTENDS Integers, FiniteSets, Sequences, SequencesExt, QueueOps

CONSTANTS Settle,      \* _LEARN_SETTLE_SECONDS
          CandidateCap \* _LEARN_CANDIDATE_CAP

\* The cap must leave the winner, its two other buttons and one rival room.
ASSUME AttemptAssumption == Settle \in Nat /\ CandidateCap \in Nat /\ CandidateCap >= 4

LearnActions == <<"UP", "DOWN", "STOP">>

\* What a capture would be adopted as: which blind is this.
Who(press) == <<press.remote, press.sel>>

\* infer_action_button
Untabled == "?"
Inferred(press) == IF press.tabled THEN press.button ELSE Untabled

\* press_signature, as the handler keys a capture
Signature(attempt, press) ==
  <<Who(press), IF press.tabled THEN press.button ELSE attempt.action>>

NoCapture == [remote |-> "none"]
NoWindow == [anchor |-> -1]

\* captures: those of the actions measured before.  The first of a wizard has
\* no identity to be held against.
NewAttempt(action, captures) ==
  [action |-> action, measured |-> captures, recent |-> <<>>, anchor |-> -1,
   held |-> NoCapture, heldWindow |-> NoWindow, won |-> NoCapture, window |-> NoWindow]

\* _capture_belongs_to_this_action
Belongs(attempt, press) ==
  \A m \in attempt.measured : m.remote = press.remote /\ m.button # press.button

\* _name_rival
Named(window, who) ==
  IF Cardinality(window.rivals) < CandidateCap
  THEN [window EXCEPT !.rivals = @ \cup {who}] ELSE window

\* The windows that are open count the press, whoever is adopted in the end.
Judged(window, who, at) ==
  IF window # NoWindow /\ who # window.who /\ at - window.anchor <= Settle
  THEN Named(window, who) ELSE window

\* _record_press.  recent is in the order of the last copies; the oldest entry
\* gives way when there is no room.
Recent(attempt, sig, at) ==
  LET others == Only(attempt.recent,
                     {r \in ToSet(attempt.recent) : r.sig # sig /\ at - r.at <= Settle})
      all == Append(others, [sig |-> sig, at |-> at])
  IN IF Len(all) > CandidateCap THEN Tail(all) ELSE all

Recorded(attempt, sig, at) ==
  [attempt EXCEPT !.recent = Recent(attempt, sig, at),
                  !.heldWindow = Judged(@, sig[1], at),
                  !.window = Judged(@, sig[1], at)]

\* Faulty variant: a window that only looks forward.
OpenForward(attempt, who, at) == [anchor |-> at, who |-> who, rivals |-> {}]

\* _open_contest_window: what was on the air just before
OpenWindow(attempt, who, at) ==
  [anchor |-> at, who |-> who,
   rivals |-> {r.sig[1] : r \in {r \in ToSet(attempt.recent) :
                                   r.sig[1] # who /\ at - r.at <= Settle}}]

\* _handle_sniff_message: the frame asked for wins at once; one the table does
\* not know is held in case nothing better comes; a press after the winner
\* only competes.
Heard(attempt, press, at, decided) ==
  LET sig == Signature(attempt, press)
      recorded == Recorded(attempt, sig, at)
      window == OpenWindow(recorded, Who(press), at)
  IN CASE ~decided /\ Inferred(press) = attempt.action ->
            [recorded EXCEPT !.anchor = at, !.won = press, !.window = window]
       [] ~decided /\ Inferred(press) = Untabled /\ attempt.held = NoCapture ->
            [recorded EXCEPT !.anchor = at, !.held = press, !.heldWindow = window]
       [] OTHER -> recorded

OfferFrame(attempt, press, at, decided) ==
  IF Belongs(attempt, press) THEN Heard(attempt, press, at, decided) ELSE attempt

\* _async_settle_first_capture reads the verdict of the capture's own window.
Contested(window) == window = NoWindow \/ window.rivals # {}
=============================================================================
