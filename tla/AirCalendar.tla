---------------------------- MODULE AirCalendar ----------------------------
(***************************************************************************)
(* AirArbiter (air.py): the process-local calendar of the shared 433 MHz   *)
(* channel.  Time is an integer number of ticks.  Every operation of the   *)
(* class first prunes what has expired, then edits one of three tables:    *)
(*                                                                         *)
(*   pending       plans published but not yet proven to have started      *)
(*   drains        until when each bridge is known to keep transmitting    *)
(*   reservations  windows of the fail-safe STOPs that are still to come   *)
(*                                                                         *)
(* "sleepers" is the event object: the commands asleep on the CURRENT      *)
(* wake generation.  Rotating the generation empties it.                   *)
(***************************************************************************)
EXTENDS Integers, FiniteSets

CONSTANTS Bridge,        \* bridge identifiers
          Command,       \* command identifiers
          Guard,         \* GUARD_MS
          StateCap,      \* AIR_STATE_CAP
          MinBridges     \* MIN_BRIDGES_FOR_ARBITRATION

ASSUME CalendarAssumption ==
  /\ IsFiniteSet(Bridge)
  /\ Guard \in Nat
  /\ StateCap \in Nat \ {0}
  /\ MinBridges \in Nat

VARIABLES now, online, boot, pending, drains, reservations, closed, sleepers

calendar == <<pending, drains, reservations, sleepers>>
calendarVars == <<now, online, boot, pending, drains, reservations, closed, sleepers>>

\* A boot counter the retained /info document has not shown yet (None).
NoBoot == 0

\* AirPlan.  offset = 0 is "no fail-safe STOP armed" (None): the validated
\* range of stop_after_ms starts at 1.
Plan == [action: Nat, offset: Nat, stop: Nat]

PendingPlan == [bridge: Bridge, cmd: Command, boot: Nat, plan: Plan, expires: Nat]

Reservation == [bridge: Bridge, cmd: Command, boot: Nat, lo: Int, hi: Int, stop: Nat]

----------------------------------------------------------------------------
(* Intervals, half open. *)

Later(s, t) == IF s >= t THEN s ELSE t

Intersects(i, j) == i.lo < j.hi /\ j.lo < i.hi

\* The STOP is a window of its own only when it falls after the action train;
\* otherwise it is merged into the immediate interval.
HasFuture(p) == p.offset > p.action

Immediate(p, s) ==
  [lo |-> s,
   hi |-> IF p.offset = 0 \/ HasFuture(p)
            THEN s + p.action + Guard
            ELSE Later(s + p.action, s + p.offset + p.stop) + Guard]

Future(p, s) == [lo |-> s + p.offset - Guard, hi |-> s + p.offset + p.stop + Guard]

----------------------------------------------------------------------------
(* _prune: what is left of each table at this instant. *)

LivePending == {q \in pending : q.expires > now}
Expired == {q.cmd : q \in pending \ LivePending}
LiveReservations == {r \in reservations : r.hi > now}
LiveDrains == [b \in Bridge |-> IF drains[b] > now THEN drains[b] ELSE 0]

----------------------------------------------------------------------------
(* decide: the feasibility of one plan on one bridge. *)

OthersPending(b) == {q \in LivePending : q.bridge # b}
OthersReserved(b) == {r \in LiveReservations : r.bridge # b}

\* Faulty variant: only the start instant is compared with the window.
ImmediateClashStartOnly(p, s, r) == r.lo <= s /\ s < r.hi

ImmediateClash(p, s, r) == Intersects(Immediate(p, s), r)
FutureClash(p, s, r) == HasFuture(p) /\ Intersects(Future(p, s), r)

\* One pass of the loop settles at s exactly when nothing pushes past s.
Feasible(b, p, s) ==
  /\ \A o \in Bridge \ {b} : LiveDrains[o] <= s
  /\ \A r \in OthersReserved(b) : ~ImmediateClash(p, s, r) /\ ~FutureClash(p, s, r)

Latest(S) == CHOOSE m \in S : \A t \in S : t <= m
Soonest(S) == CHOOSE m \in S : \A t \in S : m <= t

FirstTry(b) == Latest({now} \cup {LiveDrains[o] : o \in Bridge \ {b}})

\* Faulty variant: the start is pushed to the window's end for the future STOP
\* too, instead of just far enough for the STOP to clear it.
RequiredTooFar(b, p, s) ==
  Latest({s} \cup {r.hi : r \in {x \in OthersReserved(b) :
                                   ImmediateClash(p, s, x) \/ FutureClash(p, s, x)}})

\* "required": the furthest point any clashing window pushes the start to.
Required(b, p, s) ==
  Latest({s}
         \cup {r.hi : r \in {x \in OthersReserved(b) : ImmediateClash(p, s, x)}}
         \cup {r.hi - (p.offset - Guard)
                 : r \in {x \in OthersReserved(b) : FutureClash(p, s, x)}})

MaxPasses == 2 * StateCap + 1     \* MAX_FEASIBILITY_PASSES

Tries(b, p) ==
  LET start[k \in 1..MaxPasses] ==
        IF k = 1 THEN FirstTry(b) ELSE Required(b, p, start[k - 1])
  IN  start

\* The decision of one normal command: "off", "go", "wait" or "fail_open",
\* and the earliest instant it computed.
Decision(b, p) ==
  LET tries == Tries(b, p)
      settled == {k \in 1..MaxPasses : Feasible(b, p, tries[k])}
  IN  IF closed \/ Cardinality(online) < MinBridges
        THEN [kind |-> "off", earliest |-> now]
      ELSE IF OthersPending(b) # {}
        THEN [kind |-> "wait", earliest |-> Soonest({q.expires : q \in OthersPending(b)})]
      ELSE IF Feasible(b, p, now)
        THEN [kind |-> "go", earliest |-> now]
      ELSE IF settled # {}
        THEN [kind |-> "wait", earliest |-> tries[Soonest(settled)]]
      ELSE [kind |-> "fail_open", earliest |-> now]

----------------------------------------------------------------------------
(* The operations.  Each leaves now, online, boot and closed alone unless   *)
(* it says otherwise, and rotates the wake generation where the code does.  *)

Wake == sleepers' = {}

\* A prune that dropped an expired plan also wakes the waiters.
WakeIfExpired == sleepers' = IF Expired = {} THEN sleepers ELSE {}

PruneOnly ==
  /\ pending' = LivePending
  /\ drains' = LiveDrains
  /\ reservations' = LiveReservations
  /\ WakeIfExpired

\* decide() of a command that has to wait: it takes the event that is current
\* AFTER the prune and goes to sleep on it.
DecideAndSleep(c) ==
  /\ pending' = LivePending
  /\ drains' = LiveDrains
  /\ reservations' = LiveReservations
  /\ sleepers' = (IF Expired = {} THEN sleepers ELSE {}) \cup {c}

\* Faulty variant: the key is only the bridge.
WithoutBridge(S, b, c) == {x \in S : x.bridge # b}

WithoutKey(S, b, c) == {x \in S : ~(x.bridge = b /\ x.cmd = c)}

\* Whether provision() finds room for a new key.
HasRoom == Cardinality(LivePending) < StateCap

\* provision(): commit a final plan before its publisher is scheduled; with
\* the table full and a new key, publish without correlation state.
Provision(b, c, p, ttl) ==
  /\ pending' = IF HasRoom \/ \E q \in LivePending : q.bridge = b /\ q.cmd = c
                  THEN WithoutKey(LivePending, b, c) \cup
                         {[bridge |-> b, cmd |-> c, boot |-> boot[b],
                           plan |-> p, expires |-> now + ttl]}
                  ELSE LivePending
  /\ drains' = LiveDrains
  /\ reservations' = LiveReservations
  /\ Wake

\* _insert_reservation(): the nearest StateCap windows survive.
Nearer(r, s) ==
  \/ r.lo < s.lo
  \/ r.lo = s.lo /\ r.hi < s.hi

Inserted(R, r) ==
  LET all == WithoutKey(R, r.bridge, r.cmd) \cup {r}
  IN  IF Cardinality(all) <= StateCap
        THEN {all}
        ELSE {all \ {f} : f \in {x \in all : \A y \in all \ {x} : ~Nearer(x, y)}}

\* Faulty variants: the drain table is replaced instead of updated; a bridge
\* that already drains keeps its old, earlier horizon.
ReplaceDrains(b, t) == [x \in {b} |-> Later(t, LiveDrains[b])]
KeepDrain(b, t) == [LiveDrains EXCEPT ![b] = IF @ = 0 THEN now ELSE @]

\* A drain horizon only ever moves outwards.
RaiseDrain(b, t) == [LiveDrains EXCEPT ![b] = Later(t, @)]

\* started(): replace a provisional plan by what really happened.  "at" is
\* the start the status reports.
Started(b, c, at, reportedBoot) ==
  LET mine == {q \in LivePending : q.bridge = b /\ q.cmd = c}
  IN  IF mine = {}
        THEN PruneOnly
        ELSE \E q \in mine :
               LET imm == Immediate(q.plan, at)
                   fut == Future(q.plan, at)
                   owed == HasFuture(q.plan) /\ fut.hi > now
                   window == [bridge |-> b, cmd |-> c,
                              boot |-> IF reportedBoot = NoBoot THEN q.boot ELSE reportedBoot,
                              lo |-> fut.lo, hi |-> fut.hi, stop |-> q.plan.stop]
               IN  /\ pending' = LivePending \ {q}
                   /\ drains' = IF imm.hi > now THEN RaiseDrain(b, imm.hi) ELSE LiveDrains
                   /\ IF owed
                        THEN reservations' \in Inserted(LiveReservations, window)
                        ELSE reservations' = LiveReservations
                   /\ Wake

\* release_pending(): forget one unstarted command.  It does not prune.
ReleasePending(b, c) ==
  /\ pending' = WithoutKey(pending, b, c)
  /\ sleepers' = IF WithoutKey(pending, b, c) = pending THEN sleepers ELSE {}
  /\ UNCHANGED <<drains, reservations>>

\* displaced(): the victim's owed STOP is being flushed right now.
Displaced(b, c) ==
  LET owed == LiveReservations \ WithoutKey(LiveReservations, b, c)
      touched == owed # {} \/ LivePending # WithoutKey(LivePending, b, c)
  IN  /\ pending' = WithoutKey(LivePending, b, c)
      /\ reservations' = WithoutKey(LiveReservations, b, c)
      /\ IF owed = {}
           THEN drains' = LiveDrains
           ELSE \E r \in owed : drains' = RaiseDrain(b, now + r.stop + Guard)
      /\ IF touched THEN Wake ELSE WakeIfExpired

\* Faulty variant: the waiters are not told that the air got freer.
DisarmedSilently(b, c) ==
  /\ pending' = WithoutKey(LivePending, b, c)
  /\ reservations' = WithoutKey(LiveReservations, b, c)
  /\ drains' = LiveDrains
  /\ WakeIfExpired

\* disarmed(): drop the pending plan and the future STOP, keep the drain.
Disarmed(b, c) ==
  LET touched == \/ LivePending # WithoutKey(LivePending, b, c)
                 \/ LiveReservations # WithoutKey(LiveReservations, b, c)
  IN  /\ pending' = WithoutKey(LivePending, b, c)
      /\ reservations' = WithoutKey(LiveReservations, b, c)
      /\ drains' = LiveDrains
      /\ IF touched THEN Wake ELSE WakeIfExpired

\* A record survives a snapshot unless both boots are known and differ.
SameBoot(x, boots) == x.boot = NoBoot \/ boots[x.bridge] = NoBoot \/ boots[x.bridge] = x.boot

\* update_bridges(): availability and boot snapshot; always wakes.
UpdateBridges(up, boots) ==
  /\ online' = up
  /\ boot' = boots
  /\ pending' = {q \in LivePending : SameBoot(q, boots)}
  /\ reservations' = {r \in LiveReservations : SameBoot(r, boots)}
  /\ drains' = LiveDrains
  /\ Wake

\* close(): clear every table and wake everyone.
CloseCalendar ==
  /\ closed' = TRUE
  /\ pending' = {}
  /\ reservations' = {}
  /\ drains' = [b \in Bridge |-> 0]
  /\ Wake

CalendarInit ==
  /\ now = 0
  /\ pending = {}
  /\ drains = [b \in Bridge |-> 0]
  /\ reservations = {}
  /\ closed = FALSE
  /\ sleepers = {}

CalendarTypeOK ==
  /\ now \in Nat
  /\ online \in SUBSET Bridge
  /\ boot \in [Bridge -> Nat]
  /\ pending \in SUBSET PendingPlan
  /\ drains \in [Bridge -> Nat]
  /\ reservations \in SUBSET Reservation
  /\ closed \in BOOLEAN
  /\ sleepers \in SUBSET Command
=============================================================================
