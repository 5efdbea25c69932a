-------------------------- MODULE AirTrafficProofs --------------------------
(***************************************************************************)
(* What is proved of AirTraffic for every finite set of bridges, every set *)
(* of commands, every plan, guard, cap and timeout: the types; that two    *)
(* bridges never transmit over each other unless the later of the two was  *)
(* let through without a verdict or the earlier was no longer tracked;     *)
(* that whatever a tracked command owes is on the calendar; that a hold is *)
(* bounded; that the loop of decide finds the least feasible instant       *)
(* within its passes; that the guard keeps a slightly late train out of    *)
(* the windows of owed STOPs; and that no wake-up is lost.                 *)
(***************************************************************************)
EXTENDS AirTraffic, QueueOpsProofs, TLAPS

USE CalendarAssumption, TrafficAssumption

----------------------------------------------------------------------------
(* Types. *)

\* The intervals of a plan are intervals.
LEMMA IntervalTypes ==
  ASSUME NEW p \in Plan, NEW s \in Int
  PROVE  /\ Immediate(p, s).lo \in Int /\ Immediate(p, s).hi \in Int
         /\ Future(p, s).lo \in Int /\ Future(p, s).hi \in Int
  BY DEF Immediate, Future, HasFuture, Later, Plan

\* Pruning keeps every table well typed.
LEMMA PruneTypes ==
  ASSUME TypeOK
  PROVE  /\ LivePending \in SUBSET PendingPlan
         /\ LiveDrains \in [Bridge -> Nat]
         /\ LiveReservations \in SUBSET Reservation
         /\ Expired \in SUBSET Command
         /\ Published \in SUBSET Command
  BY DEF TypeOK, CalendarTypeOK, LivePending, LiveDrains, LiveReservations, Expired,
         PendingPlan, Published

\* Raising a drain keeps the table typed.
LEMMA RaiseTypes ==
  ASSUME TypeOK, NEW b \in Bridge, NEW t \in Nat
  PROVE  RaiseDrain(b, t) \in [Bridge -> Nat]
  BY PruneTypes DEF RaiseDrain, Later

\* Dropping a key makes no record.
LEMMA WithoutKeyTypes ==
  ASSUME NEW S, NEW T, S \in SUBSET T, NEW b, NEW c
  PROVE  WithoutKey(S, b, c) \in SUBSET T
  BY DEF WithoutKey

\* Inserting a window makes no other.
LEMMA InsertedTypes ==
  ASSUME NEW R \in SUBSET Reservation, NEW r \in Reservation, NEW S \in Inserted(R, r)
  PROVE  S \in SUBSET Reservation
  BY DEF Inserted, WithoutKey

\* started() keeps the tables well typed whenever the start it is told of is
\* an instant.
LEMMA StartedTypes ==
  ASSUME TypeOK, NEW b \in Bridge, NEW c \in Command, NEW at \in Int, NEW k \in Nat,
         Started(b, c, at, k)
  PROVE  /\ pending' \in SUBSET PendingPlan
         /\ drains' \in [Bridge -> Nat]
         /\ reservations' \in SUBSET Reservation
         /\ sleepers' \in SUBSET Command
<1> DEFINE mine == {q \in LivePending : q.bridge = b /\ q.cmd = c}
<1>0. now \in Nat /\ sleepers \in SUBSET Command
  BY DEF TypeOK, CalendarTypeOK
<1>1. CASE mine = {}
  BY <1>0, <1>1, PruneTypes DEF Started, PruneOnly, WakeIfExpired
<1>2. CASE mine # {}
  <2>1. PICK q \in mine :
          LET imm == Immediate(q.plan, at)
              fut == Future(q.plan, at)
              owed == HasFuture(q.plan) /\ fut.hi > now
              window == [bridge |-> b, cmd |-> c,
                         boot |-> IF k = NoBoot THEN q.boot ELSE k,
                         lo |-> fut.lo, hi |-> fut.hi, stop |-> q.plan.stop]
          IN  /\ pending' = LivePending \ {q}
              /\ drains' = IF imm.hi > now THEN RaiseDrain(b, imm.hi) ELSE LiveDrains
              /\ IF owed
                   THEN reservations' \in Inserted(LiveReservations, window)
                   ELSE reservations' = LiveReservations
              /\ Wake
    BY <1>2 DEF Started
  <2> DEFINE imm == Immediate(q.plan, at)
             fut == Future(q.plan, at)
             window == [bridge |-> b, cmd |-> c,
                        boot |-> IF k = NoBoot THEN q.boot ELSE k,
                        lo |-> fut.lo, hi |-> fut.hi, stop |-> q.plan.stop]
  <2>2. q \in PendingPlan /\ q.plan \in Plan /\ q.boot \in Nat /\ q.plan.stop \in Nat
    BY PruneTypes DEF PendingPlan, Plan
  <2>3. imm.hi \in Int /\ fut.lo \in Int /\ fut.hi \in Int
    BY <2>2, IntervalTypes
  <2>4. window \in Reservation
    BY <2>2, <2>3 DEF Reservation
  <2>5. drains' \in [Bridge -> Nat]
    <3>1. CASE imm.hi > now
      <4>1. imm.hi \in Nat
        BY <3>1, <2>3, <1>0
      <4>2. QED BY <4>1, <3>1, <2>1, RaiseTypes
    <3>2. CASE ~(imm.hi > now)
      BY <3>2, <2>1, PruneTypes
    <3>3. QED BY <3>1, <3>2
  <2>6. reservations' \in SUBSET Reservation
    BY <2>1, <2>4, PruneTypes, InsertedTypes
  <2>7. QED BY <2>1, <2>5, <2>6, PruneTypes DEF Wake
<1>3. QED BY <1>1, <1>2

\* Every other operation of the calendar keeps its tables well typed.
LEMMA CalendarTypes ==
  ASSUME TypeOK, NEW b \in Bridge, NEW c \in Command, NEW p \in Plan, NEW ttl \in Nat,
         \/ PruneOnly \/ DecideAndSleep(c) \/ Provision(b, c, p, ttl)
         \/ ReleasePending(b, c) \/ Displaced(b, c) \/ Disarmed(b, c)
         \/ Wake /\ UNCHANGED <<pending, drains, reservations>>
         \/ Wake /\ pending' = LivePending /\ drains' = LiveDrains
                 /\ reservations' = LiveReservations
  PROVE  /\ pending' \in SUBSET PendingPlan
         /\ drains' \in [Bridge -> Nat]
         /\ reservations' \in SUBSET Reservation
         /\ sleepers' \in SUBSET Command
<1>0. /\ now \in Nat /\ sleepers \in SUBSET Command /\ boot \in [Bridge -> Nat]
      /\ pending \in SUBSET PendingPlan /\ drains \in [Bridge -> Nat]
      /\ reservations \in SUBSET Reservation
  BY DEF TypeOK, CalendarTypeOK
<1>1. CASE PruneOnly
  BY <1>0, <1>1, PruneTypes DEF PruneOnly, WakeIfExpired
<1>2. CASE DecideAndSleep(c)
  BY <1>0, <1>2, PruneTypes DEF DecideAndSleep
<1>3. CASE Provision(b, c, p, ttl)
  <2>1. [bridge |-> b, cmd |-> c, boot |-> boot[b], plan |-> p, expires |-> now + ttl]
          \in PendingPlan
    BY <1>0 DEF PendingPlan
  <2>2. QED BY <2>1, <1>3, <1>0, PruneTypes, WithoutKeyTypes DEF Provision, Wake
<1>4. CASE ReleasePending(b, c)
  BY <1>4, <1>0, WithoutKeyTypes DEF ReleasePending
<1>5. CASE Displaced(b, c)
  <2>1. drains' \in [Bridge -> Nat]
    <3>1. CASE LiveReservations \ WithoutKey(LiveReservations, b, c) = {}
      BY <3>1, <1>5, PruneTypes DEF Displaced
    <3>2. CASE LiveReservations \ WithoutKey(LiveReservations, b, c) # {}
      <4>1. PICK r \in LiveReservations : drains' = RaiseDrain(b, now + r.stop + Guard)
        BY <3>2, <1>5 DEF Displaced
      <4>2. now + r.stop + Guard \in Nat
        BY <1>0, PruneTypes DEF Reservation
      <4>3. QED BY <4>1, <4>2, RaiseTypes
    <3>3. QED BY <3>1, <3>2
  <2>2. sleepers' \in SUBSET Command
    BY <1>5, <1>0 DEF Displaced, Wake, WakeIfExpired
  <2>3. QED BY <2>1, <2>2, <1>5, PruneTypes, WithoutKeyTypes DEF Displaced
<1>6. CASE Disarmed(b, c)
  <2>1. sleepers' \in SUBSET Command
    BY <1>6, <1>0 DEF Disarmed, Wake, WakeIfExpired
  <2>2. QED BY <2>1, <1>6, PruneTypes, WithoutKeyTypes DEF Disarmed
<1>7. CASE Wake /\ UNCHANGED <<pending, drains, reservations>>
  BY <1>7, <1>0 DEF Wake
<1>8. CASE Wake /\ pending' = LivePending /\ drains' = LiveDrains
                /\ reservations' = LiveReservations
  BY <1>8, PruneTypes DEF Wake
<1>9. QED BY <1>1, <1>2, <1>3, <1>4, <1>5, <1>6, <1>7, <1>8

\* What the calendar, the hub and the history each hold.
Tables ==
  /\ pending \in SUBSET PendingPlan
  /\ drains \in [Bridge -> Nat]
  /\ reservations \in SUBSET Reservation
  /\ sleepers \in SUBSET Command

HubTypes ==
  /\ stage \in [Command -> Stages]
  /\ on \in [Command -> Bridge]
  /\ heldSince \in [Command -> Nat \cup {Never}]
  /\ until \in [Command -> Int]
  /\ upsets \in Nat

HistoryTypes ==
  /\ admitAt \in [Command -> Nat \cup {Never}]
  /\ rfAt \in [Command -> Nat \cup {Never}]
  /\ flushAt \in [Command -> Nat \cup {Never}]
  /\ seen \in [Command -> SUBSET Command]
  /\ bypass \in SUBSET Command
  /\ lost \in SUBSET Command
  /\ evicted \in SUBSET Command

Snapshot == now \in Nat /\ online \in SUBSET Bridge /\ boot \in [Bridge -> Nat] /\ closed \in BOOLEAN

\* TypeOK by parts: a step disturbs one or two of them.
LEMMA TypeParts == TypeOK <=> Tables /\ HubTypes /\ HistoryTypes /\ Snapshot
<1>1. TypeOK => Tables /\ HubTypes /\ HistoryTypes /\ Snapshot
  BY Zenon DEF TypeOK, CalendarTypeOK, Tables, HubTypes, HistoryTypes, Snapshot
<1>2. Tables /\ HubTypes /\ HistoryTypes /\ Snapshot => TypeOK
  BY Zenon DEF TypeOK, CalendarTypeOK, Tables, HubTypes, HistoryTypes, Snapshot
<1> QED BY <1>1, <1>2

\* The same of the next state.
LEMMA TypePartsNext == Tables' /\ HubTypes' /\ HistoryTypes' /\ Snapshot' => TypeOK'
<1>1. Tables /\ HubTypes /\ HistoryTypes /\ Snapshot => TypeOK
  BY TypeParts
<1> QED BY <1>1, PTL

\* Initially everything is empty, idle or zero.
LEMMA TypeInit == Init => TypeOK
<1> SUFFICES ASSUME Init PROVE Tables /\ HubTypes /\ HistoryTypes /\ Snapshot
  BY TypeParts
<1>1. Tables
  BY DEF Init, CalendarInit, Tables
<1>2. Snapshot
  BY DEF Init, CalendarInit, Snapshot
<1>3. HubTypes
  BY DEF Init, HubTypes, Stages, Never
<1>4. HistoryTypes
  BY DEF Init, HistoryTypes, Never
<1> QED BY <1>1, <1>2, <1>3, <1>4

\* What a step does to the hub when it moves one command, if any, to another stage.
LEMMA MovedTypes ==
  ASSUME HubTypes, NEW c \in Command, NEW s \in Stages, stage' = stage \/ Goto(c, s),
         on' = on, (heldSince' = heldSince /\ until' = until) \/ ClearHold(c),
         upsets' = upsets \/ Upset
  PROVE  HubTypes'
<1>1. stage' \in [Command -> Stages]
  BY DEF HubTypes, Goto
<1>2. heldSince' \in [Command -> Nat \cup {Never}] /\ until' \in [Command -> Int]
  BY DEF HubTypes, ClearHold
<1>3. upsets' \in Nat
  BY DEF HubTypes, Upset
<1> QED BY <1>1, <1>2, <1>3 DEF HubTypes

\* A publication, or the refusal of one.
LEMMA PublishTypes ==
  ASSUME TypeOK, NEW c \in Command, NEW free \in BOOLEAN, NEW planned \in BOOLEAN,
         Publish(c, free, planned), upsets' = upsets \/ Upset,
         UNCHANGED <<now, online, boot, closed, on, rfAt, flushAt, evicted>>
  PROVE  TypeOK'
<1>0. HubTypes /\ HistoryTypes /\ Snapshot /\ Tables
  BY TypeParts
<1>1. Snapshot'
  BY <1>0 DEF Snapshot
<1>2. CASE Refuse(c)
  <2>1. Tables'
    BY <1>2, PruneTypes DEF Refuse, Wake, Tables
  <2>2. HubTypes'
    BY <1>0, <1>2, MovedTypes DEF Refuse, Stages
  <2>3. HistoryTypes'
    BY <1>0, <1>2, PruneTypes DEF Refuse, LoseExpired, HistoryTypes
  <2> QED BY <1>1, <2>1, <2>2, <2>3, TypePartsNext
<1>3. CASE Transmit(c, free, planned)
  <2>1. Tables'
    <3>1. on[c] \in Bridge /\ PlanOf[c] \in Plan /\ StartTTL \in Nat
      BY <1>0 DEF HubTypes
    <3>2. PruneOnly \/ Provision(on[c], c, PlanOf[c], StartTTL)
      BY <1>3 DEF Transmit
    <3> QED BY <3>1, <3>2, CalendarTypes DEF Tables
  <2>2. HubTypes'
    BY <1>0, <1>3, MovedTypes DEF Transmit, Stages
  <2>3. HistoryTypes'
    <3>1. now \in Nat
      BY <1>0 DEF Snapshot
    <3>2. admitAt' \in [Command -> Nat \cup {Never}] /\ seen' \in [Command -> SUBSET Command]
      BY <1>0, <1>3, <3>1, PruneTypes DEF Transmit, HistoryTypes
    <3>3. bypass' \in SUBSET Command /\ lost' \in SUBSET Command
      BY <1>0, <1>3, PruneTypes DEF Transmit, HistoryTypes
    <3> QED BY <1>0, <3>2, <3>3 DEF HistoryTypes
  <2> QED BY <1>1, <2>1, <2>2, <2>3, TypePartsNext
<1> QED BY <1>2, <1>3 DEF Publish

\* Every action keeps every part.
LEMMA TypeStep == TypeOK /\ [Next]_vars => TypeOK'
<1> SUFFICES ASSUME TypeOK, [Next]_vars PROVE TypeOK'
  OBVIOUS
<1>0. Tables /\ HubTypes /\ HistoryTypes /\ Snapshot
  BY TypeParts
<1>a. \A c \in Command : on[c] \in Bridge /\ PlanOf[c] \in Plan
  BY <1>0 DEF HubTypes
\* One command moves on, the history is kept but for its dates and the lost.
<1>b. ASSUME NEW c \in Command, NEW s \in Stages, stage' = stage \/ Goto(c, s), on' = on,
             (heldSince' = heldSince /\ until' = until) \/ ClearHold(c), upsets' = upsets \/ Upset,
             Tables', UNCHANGED <<now, online, boot, closed>>,
             UNCHANGED <<admitAt, seen, bypass>>,
             rfAt' = rfAt \/ rfAt' = [rfAt EXCEPT ![c] = now],
             flushAt' = flushAt \/ flushAt' = [flushAt EXCEPT ![c] = now],
             lost' \in SUBSET Command, evicted' \in SUBSET Command
      PROVE  TypeOK'
  <2>1. HubTypes'
    BY <1>0, <1>b, MovedTypes
  <2>2. HistoryTypes'
    BY <1>0, <1>b DEF HistoryTypes, Snapshot
  <2>3. Snapshot'
    BY <1>0, <1>b DEF Snapshot
  <2> QED BY <1>b, <2>1, <2>2, <2>3, TypePartsNext
<1>c. /\ {"idle", "asking", "held", "published", "on_air", "started", "adrift", "gone"} \subseteq Stages
      /\ lost \in SUBSET Command /\ evicted \in SUBSET Command
      /\ lost \cup Expired \in SUBSET Command
  BY <1>0, PruneTypes DEF Stages, HistoryTypes
<1>1. ASSUME NEW c \in Command, Request(c) PROVE TypeOK'
  <2>1. Tables'
    BY <1>0, <1>1 DEF Request, calendarVars, Tables
  <2> QED BY <1>1, <1>b, <1>c, <2>1 DEF Request, calendarVars, history
<1>2. ASSUME NEW c \in Command, Attempt(c) PROVE TypeOK'
  <2> DEFINE d == Decision(on[c], PlanOf[c])
  <2>1. /\ UNCHANGED <<now, online, boot, closed, on, upsets, rfAt, flushAt, evicted>>
        /\ \/ \E free \in BOOLEAN : Publish(c, free, TRUE)
           \/ Hold(c, d.earliest)
    BY <1>2 DEF Attempt
  <2>2. CASE Hold(c, d.earliest)
    <3>1. Tables'
      <4>1. DecideAndSleep(c)
        BY <2>2 DEF Hold
      <4> QED BY <4>1, <1>a, 0 \in Nat, CalendarTypes DEF Tables
    <3>2. HubTypes'
      <4>1. until' \in [Command -> Int] /\ heldSince' \in [Command -> Nat \cup {Never}]
        BY <1>0, <2>2 DEF Hold, Ceiling, Since, HubTypes, Snapshot, Never
      <4>2. stage' \in [Command -> Stages]
        BY <1>0, <1>c, <2>2 DEF Hold, Goto, HubTypes
      <4> QED BY <1>0, <2>1, <4>1, <4>2 DEF HubTypes
    <3>3. HistoryTypes'
      BY <1>0, <2>1, <2>2, PruneTypes DEF Hold, LoseExpired, HistoryTypes
    <3>4. Snapshot'
      BY <1>0, <2>1 DEF Snapshot
    <3> QED BY <3>1, <3>2, <3>3, <3>4, TypePartsNext
  <2> QED BY <2>1, <2>2, PublishTypes
<1>3. ASSUME NEW c \in Command, AttemptUnasked(c) PROVE TypeOK'
  <2>1. PICK planned \in BOOLEAN : Publish(c, FALSE, planned)
    BY <1>3 DEF AttemptUnasked
  <2>2. Upset /\ UNCHANGED <<now, online, boot, closed, on, rfAt, flushAt, evicted>>
    BY <1>3 DEF AttemptUnasked
  <2> QED BY <2>1, <2>2, PublishTypes
<1>4. ASSUME NEW c \in Command, Retire(c) PROVE TypeOK'
  <2>1. Tables'
    BY <1>0, <1>4 DEF Retire, Wake, Tables
  <2> QED BY <1>4, <1>b, <1>c, <2>1 DEF Retire, history
<1>5. ASSUME NEW c \in Command, GiveUp(c) PROVE TypeOK'
  <2>1. Tables'
    BY <1>5, <1>a, 0 \in Nat, CalendarTypes DEF GiveUp, Tables
  <2>2. PICK s \in {"adrift", "started"} : Goto(c, s)
    BY <1>5 DEF GiveUp
  <2> QED BY <1>5, <1>b, <1>c, <2>1, <2>2 DEF GiveUp
<1>6. ASSUME NEW c \in Command, StartRf(c) PROVE TypeOK'
  <2>1. Tables'
    BY <1>0, <1>6 DEF StartRf, calendarVars, Tables
  <2>2. PICK s \in {"on_air", "started"} : Goto(c, s)
    BY <1>6 DEF StartRf
  <2> QED BY <1>6, <1>b, <1>c, <2>1, <2>2 DEF StartRf, calendarVars
<1>7. ASSUME NEW c \in Command, StartedStatus(c) PROVE TypeOK'
  <2>1. PICK k \in {NoBoot, boot[on[c]]} : Started(on[c], c, rfAt[c], k)
    BY <1>7 DEF StartedStatus
  <2>2. k \in Nat /\ rfAt[c] \in Int
    BY <1>0, <1>a, <2>1 DEF NoBoot, Snapshot, HistoryTypes, Never
  <2>3. Tables'
    BY <1>a, <2>1, <2>2, StartedTypes DEF Tables
  <2>4. evicted' \in SUBSET Command
    BY <1>c, <1>7, PruneTypes DEF StartedStatus, Evicted, Reservation
  <2> QED BY <1>7, <1>b, <1>c, <2>3, <2>4 DEF StartedStatus, LoseExpired
<1>8. ASSUME NEW c \in Command, Rejected(c) PROVE TypeOK'
  <2>1. Tables'
    BY <1>8, <1>a, 0 \in Nat, CalendarTypes DEF Rejected, Tables
  <2> QED BY <1>8, <1>b, <1>c, <2>1 DEF Rejected, history
<1>9. ASSUME NEW c \in Command, DisplacedStatus(c) PROVE TypeOK'
  <2>1. Tables'
    BY <1>9, <1>a, 0 \in Nat, CalendarTypes DEF DisplacedStatus, Tables
  <2>2. stage' = stage \/ Goto(c, "gone")
    BY <1>9 DEF DisplacedStatus
  <2>3. flushAt' = flushAt \/ flushAt' = [flushAt EXCEPT ![c] = now]
    BY <1>9 DEF DisplacedStatus
  <2> QED BY <1>9, <1>b, <1>c, <2>1, <2>2, <2>3 DEF DisplacedStatus, LoseExpired
<1>10. ASSUME NEW c \in Command, DisarmedStatus(c) PROVE TypeOK'
  <2>1. Tables'
    BY <1>10, <1>a, 0 \in Nat, CalendarTypes DEF DisarmedStatus, Tables
  <2> QED BY <1>10, <1>b, <1>c, <2>1 DEF DisarmedStatus, LoseExpired
<1>11. ASSUME NEW b \in Bridge, BridgeChange(b) PROVE TypeOK'
  <2>1. PICK up \in SUBSET Bridge, boots \in [Bridge -> Nat] : UpdateBridges(up, boots)
    <3>1. boot[b] \in Nat /\ [boot EXCEPT ![b] = @ + 1] \in [Bridge -> Nat] /\ boot \in [Bridge -> Nat]
      BY <1>0 DEF Snapshot
    <3>2. (IF b \in online THEN online \ {b} ELSE online \cup {b}) \in SUBSET Bridge /\ online \in SUBSET Bridge
      BY <1>0 DEF Snapshot
    <3>3. \/ UpdateBridges(IF b \in online THEN online \ {b} ELSE online \cup {b}, boot)
          \/ UpdateBridges(online, [boot EXCEPT ![b] = @ + 1])
      BY <1>11 DEF BridgeChange
    <3> QED BY <3>1, <3>2, <3>3
  <2>2. Tables'
    BY <2>1, PruneTypes DEF UpdateBridges, Wake, Tables
  <2>3. Snapshot'
    BY <1>0, <1>11, <2>1 DEF BridgeChange, UpdateBridges, Snapshot
  <2>4. stage' \in [Command -> Stages] /\ upsets' \in Nat
    BY <1>0, <1>c, <1>11 DEF BridgeChange, Upset, HubTypes
  <2>5. HubTypes'
    BY <1>0, <1>11, <2>4 DEF BridgeChange, HubTypes
  <2>6. lost' \in SUBSET Command
    BY <1>0, <1>11 DEF BridgeChange, Tables, HistoryTypes, PendingPlan
  <2>7. HistoryTypes'
    BY <1>0, <1>11, <2>6 DEF BridgeChange, HistoryTypes
  <2> QED BY <2>2, <2>3, <2>5, <2>7, TypePartsNext
<1>12. CASE Close
  <2>1. Tables'
    BY <1>12 DEF Close, CloseCalendar, Wake, Tables
  <2>2. Snapshot'
    BY <1>0, <1>12 DEF Close, CloseCalendar, Snapshot
  <2>3. HubTypes'
    BY <1>0, <1>c, <1>12 DEF Close, Upset, HubTypes
  <2>4. HistoryTypes'
    BY <1>0, <1>12, PruneTypes DEF Close, HistoryTypes
  <2> QED BY <2>1, <2>2, <2>3, <2>4, TypePartsNext
<1>13. CASE Tick
  <2>1. Tables' /\ Snapshot'
    BY <1>0, <1>13 DEF Tick, calendar, Tables, Snapshot
  <2>2. HubTypes' /\ HistoryTypes'
    BY <1>0, <1>13 DEF Tick, hub, history, HubTypes, HistoryTypes
  <2> QED BY <2>1, <2>2, TypePartsNext
<1>14. CASE UNCHANGED vars
  <2>1. Tables' /\ Snapshot'
    BY <1>0, <1>14 DEF vars, calendarVars, Tables, Snapshot
  <2>2. HubTypes' /\ HistoryTypes'
    BY <1>0, <1>14 DEF vars, hub, history, HubTypes, HistoryTypes
  <2> QED BY <2>1, <2>2, TypePartsNext
<1> QED
  BY <1>1, <1>2, <1>3, <1>4, <1>5, <1>6, <1>7, <1>8, <1>9, <1>10, <1>11, <1>12, <1>13, <1>14 DEF Next

\* The initial states and every step are well typed.
LEMMA TypeInductive == (Init => TypeOK) /\ (TypeOK /\ [Next]_vars => TypeOK')
  BY TypeInit, TypeStep

\* Every table of the calendar and of the hub keeps its type (air.py and the
\* loop of _ordered_publish).
THEOREM TypeCorrect == Spec => []TypeOK
<1>1. QED BY TypeInductive, PTL DEF Spec

----------------------------------------------------------------------------
(* No collision.  The invariant ties the history to the tables: the plan of *)
(* every tracked command is pending until its start is known, its drain is  *)
(* on the calendar while it transmits, and whoever was cleared was cleared  *)
(* against exactly those two tables.                                        *)

\* A pending record belongs to the command it names.
Routed == \A q \in pending : q.plan = PlanOf[q.cmd] /\ q.bridge = on[q.cmd]

\* c was published.
Admitted(c) == admitAt[c] # Never

\* The history of one command agrees with its stage.
Dated(c) ==
  /\ stage[c] \in {"idle", "asking", "held"} => ~Admitted(c)
  /\ stage[c] \in {"published", "on_air", "started", "adrift"} => Admitted(c)
  /\ rfAt[c] # Never => Admitted(c) /\ admitAt[c] <= rfAt[c]
  /\ admitAt[c] <= now
  /\ stage[c] \in {"published", "adrift"} => rfAt[c] = Never
  /\ stage[c] \in {"on_air", "started"} => rfAt[c] # Never
  /\ stage[c] = "adrift" => c \in lost
  /\ \A t \in seen[c] : Admitted(t)

\* A command that is not lost is on the calendar.
Tracked(t) ==
  t \notin lost =>
    /\ stage[t] \in {"published", "on_air"} => \E q \in pending : q.cmd = t
    /\ rfAt[t] # Never /\ TrainEnd(t) > now =>
         stage[t] = "on_air" \/ drains[on[t]] >= TrainEnd(t)

\* Whoever t was cleared against had started, and ended before the clearance.
Cleared(t, u) ==
  t \in seen[u] \ lost /\ u \notin bypass /\ on[t] # on[u] =>
    /\ stage[t] # "published"
    /\ rfAt[t] # Never => TrainEnd(t) <= admitAt[u]

\* The inductive invariant under the collisions and the records.
AirInv ==
  /\ TypeOK
  /\ Routed
  /\ \A c \in Command : Dated(c)
  /\ \A t \in Command : Tracked(t)
  /\ \A t, u \in Command : Cleared(t, u)

\* "go" means: nothing of another bridge is pending, no drain of another
\* bridge reaches past now.
LEMMA GoIsClear ==
  ASSUME NEW b \in Bridge, NEW p \in Plan, Decision(b, p).kind = "go"
  PROVE  OthersPending(b) = {} /\ \A o \in Bridge \ {b} : LiveDrains[o] <= now
<1>1. OthersPending(b) = {} /\ Feasible(b, p, now)
  BY DEF Decision
<1>2. QED BY <1>1 DEF Feasible

\* The part of the calendar that belongs to other commands survives a step:
\* plans stay pending or are lost, live drains are never shortened.
KeepsOthers(S) ==
  /\ \A q \in pending : q.cmd \notin S \cup lost' => q \in pending'
  /\ \A b \in Bridge : drains[b] > now => drains'[b] >= drains[b]

\* The operations that work for one command c keep the others' part.
LEMMA OperationKeepsOthers ==
  ASSUME TypeOK, NEW b \in Bridge, NEW c \in Command, NEW p \in Plan, NEW ttl \in Nat,
         Expired \subseteq lost',
         \/ PruneOnly \/ DecideAndSleep(c) \/ Provision(b, c, p, ttl)
         \/ Displaced(b, c) \/ Disarmed(b, c)
         \/ pending' = LivePending /\ drains' = LiveDrains
  PROVE  KeepsOthers({c})
<1>0. now \in Nat /\ drains \in [Bridge -> Nat] /\ LiveDrains \in [Bridge -> Nat]
  BY PruneTypes DEF TypeOK, CalendarTypeOK
<1>1. \A q \in pending : q.cmd \notin lost' => q \in LivePending
  BY DEF Expired
<1>2. \A o \in Bridge : drains[o] > now => LiveDrains[o] = drains[o]
  BY DEF LiveDrains
<1>3. \A q \in LivePending : q.cmd # c => q \in WithoutKey(LivePending, b, c)
  BY DEF WithoutKey
<1>4. CASE pending' = LivePending /\ drains' = LiveDrains
  BY <1>0, <1>1, <1>2, <1>4 DEF KeepsOthers
<1>5. CASE PruneOnly \/ DecideAndSleep(c)
  BY <1>4, <1>5 DEF PruneOnly, DecideAndSleep
<1>6. CASE Provision(b, c, p, ttl)
  BY <1>0, <1>1, <1>2, <1>3, <1>6 DEF Provision, KeepsOthers
<1>7. CASE Disarmed(b, c)
  BY <1>0, <1>1, <1>2, <1>3, <1>7 DEF Disarmed, KeepsOthers
<1>8. CASE Displaced(b, c)
  <2>1. pending' = WithoutKey(LivePending, b, c)
    BY <1>8 DEF Displaced
  <2>2. \A o \in Bridge : drains'[o] >= LiveDrains[o]
    <3>1. CASE LiveReservations \ WithoutKey(LiveReservations, b, c) = {}
      BY <3>1, <1>0, <1>8 DEF Displaced
    <3>2. CASE LiveReservations \ WithoutKey(LiveReservations, b, c) # {}
      <4>1. PICK r \in LiveReservations : drains' = RaiseDrain(b, now + r.stop + Guard)
        BY <3>2, <1>8 DEF Displaced
      <4>2. now + r.stop + Guard \in Nat
        BY <1>0, PruneTypes DEF Reservation
      <4>3. QED BY <4>1, <4>2, <1>0 DEF RaiseDrain, Later
    <3>3. QED BY <3>1, <3>2
  <2>3. QED BY <2>1, <2>2, <1>0, <1>1, <1>2, <1>3 DEF KeepsOthers
<1>9. QED BY <1>4, <1>5, <1>6, <1>7, <1>8

\* started() keeps the others' part too, and turns the plan of its own
\* command into a drain that reaches the end of the train.
LEMMA StartedTracks ==
  ASSUME TypeOK, Routed, NEW c \in Command, NEW at \in Nat, NEW k \in Nat,
         Started(on[c], c, at, k), Expired \subseteq lost'
  PROVE  /\ KeepsOthers({c})
         /\ (\E q \in pending : q.cmd = c) /\ c \notin lost' /\ Immediate(PlanOf[c], at).hi > now
              => drains'[on[c]] >= Immediate(PlanOf[c], at).hi
<1> DEFINE mine == {q \in LivePending : q.bridge = on[c] /\ q.cmd = c}
<1>0. /\ now \in Nat /\ drains \in [Bridge -> Nat] /\ LiveDrains \in [Bridge -> Nat]
      /\ on[c] \in Bridge /\ LivePending \in SUBSET PendingPlan
  BY PruneTypes DEF TypeOK, CalendarTypeOK
<1>1. \A q \in pending : q.cmd \notin lost' => q \in LivePending
  BY DEF Expired
<1>2. \A o \in Bridge : drains[o] > now => LiveDrains[o] = drains[o]
  BY DEF LiveDrains
<1>3. CASE mine = {}
  <2>1. PruneOnly
    BY <1>3 DEF Started
  <2>2. KeepsOthers({c})
    BY <2>1, <1>0, <1>1, <1>2 DEF PruneOnly, KeepsOthers
  <2>3. QED BY <2>2, <1>1, <1>3 DEF Routed
<1>4. CASE mine # {}
  <2> DEFINE imm(q) == Immediate(q.plan, at)
  <2>1. PICK q \in mine :
          /\ pending' = LivePending \ {q}
          /\ drains' = IF imm(q).hi > now THEN RaiseDrain(on[c], imm(q).hi) ELSE LiveDrains
    BY <1>4 DEF Started
  <2>2. q \in pending /\ q.plan = PlanOf[c] /\ PlanOf[c] \in Plan
    BY DEF Routed, LivePending
  <2>3. Immediate(PlanOf[c], at).hi \in Int
    BY <2>2, IntervalTypes
  <2>4. \A o \in Bridge : drains'[o] >= LiveDrains[o]
    BY <2>1, <2>2, <2>3, <1>0 DEF RaiseDrain, Later
  <2>5. Immediate(PlanOf[c], at).hi > now => drains'[on[c]] >= Immediate(PlanOf[c], at).hi
    BY <2>1, <2>2, <2>3, <1>0 DEF RaiseDrain, Later
  <2>6. KeepsOthers({c})
    BY <2>1, <2>4, <1>0, <1>1, <1>2 DEF KeepsOthers
  <2>7. QED BY <2>5, <2>6
<1>5. QED BY <1>3, <1>4

\* What a step does not do for other commands than those of S leaves them
\* tracked.
LEMMA TrackedKept ==
  ASSUME TypeOK, \A t \in Command : Tracked(t), NEW S \in SUBSET Command,
         KeepsOthers(S), now' \in Nat, now' >= now, on' = on, lost \subseteq lost',
         drains' \in [Bridge -> Nat],
         \A d \in Command \ S : /\ rfAt'[d] = rfAt[d]
                                /\ \/ stage'[d] = stage[d]
                                   \/ stage[d] # "on_air" /\ stage'[d] = "gone"
  PROVE  \A t \in Command \ S : Tracked(t)'
<1> SUFFICES ASSUME NEW t \in Command \ S, t \notin lost' PROVE Tracked(t)'
  BY DEF Tracked
<1>0. /\ t \notin lost /\ Tracked(t) /\ on[t] \in Bridge /\ now \in Nat
      /\ drains \in [Bridge -> Nat] /\ PlanOf[t] \in Plan
      /\ rfAt[t] \in Nat \cup {Never}
  BY DEF TypeOK, CalendarTypeOK
<1>1. stage'[t] \in {"published", "on_air"} => \E q \in pending' : q.cmd = t
  BY <1>0 DEF Tracked, KeepsOthers
<1>2. TrainEnd(t)' = TrainEnd(t) /\ TrainEnd(t) \in Int
  <2>1. rfAt[t] \in Int
    BY <1>0 DEF Never
  <2>2. Immediate(PlanOf[t], rfAt[t]).hi \in Int
    BY <2>1, <1>0, IntervalTypes
  <2>3. QED BY <2>2 DEF TrainEnd
<1>3. rfAt'[t] # Never /\ TrainEnd(t) > now' =>
        stage'[t] = "on_air" \/ drains'[on[t]] >= TrainEnd(t)
  <2> SUFFICES ASSUME rfAt'[t] # Never, TrainEnd(t) > now', stage'[t] # "on_air"
               PROVE  drains'[on[t]] >= TrainEnd(t)
    OBVIOUS
  <2>1. TrainEnd(t) > now /\ stage[t] # "on_air" /\ rfAt[t] # Never
    BY <1>0, <1>2
  <2>2. drains[on[t]] >= TrainEnd(t)
    BY <2>1, <1>0 DEF Tracked
  <2>3. drains'[on[t]] >= drains[on[t]]
    BY <2>1, <2>2, <1>0, <1>2 DEF KeepsOthers
  <2>4. QED BY <2>2, <2>3, <1>0, <1>2
<1>4. QED BY <1>1, <1>2, <1>3 DEF Tracked

\* A drain that is kept goes on standing for a train whose start was reported.
LEMMA StartedKept ==
  ASSUME AirInv, NEW S \in SUBSET Command, KeepsOthers(S), NEW c \in Command,
         stage[c] \in {"published", "started"}, stage'[c] \in {"started", "gone"},
         stage'[c] = "started" => stage[c] = "started",
         UNCHANGED <<now, on, rfAt>>, lost \subseteq lost', drains' \in [Bridge -> Nat]
  PROVE  Tracked(c)'
<1>0. /\ Tracked(c) /\ Dated(c) /\ on[c] \in Bridge /\ now \in Nat
      /\ drains \in [Bridge -> Nat] /\ PlanOf[c] \in Plan
      /\ rfAt[c] \in Nat \cup {Never}
  BY DEF AirInv, TypeOK, CalendarTypeOK
<1> SUFFICES ASSUME c \notin lost', rfAt[c] # Never, TrainEnd(c) > now
             PROVE  drains'[on[c]] >= TrainEnd(c)
  BY DEF Tracked, TrainEnd
<1>1. TrainEnd(c) \in Int
  BY <1>0, IntervalTypes DEF TrainEnd
<1>2. drains[on[c]] >= TrainEnd(c)
  BY <1>0 DEF Tracked, Dated
<1>3. drains'[on[c]] >= drains[on[c]]
  BY <1>0, <1>1, <1>2 DEF KeepsOthers
<1>4. QED BY <1>0, <1>1, <1>2, <1>3

\* Only an admission and the start of a train can undo a clearance.
LEMMA ClearedKept ==
  ASSUME TypeOK, \A t, u \in Command : Cleared(t, u), on' = on, lost \subseteq lost',
         UNCHANGED <<admitAt, rfAt, seen, bypass>>,
         \A d \in Command : stage'[d] = "published" => stage[d] = "published"
  PROVE  \A t, u \in Command : Cleared(t, u)'
<1> SUFFICES ASSUME NEW t \in Command, NEW u \in Command PROVE Cleared(t, u)'
  OBVIOUS
<1>1. TrainEnd(t)' = TrainEnd(t)
  BY DEF TrainEnd
<1>2. Cleared(t, u)
  OBVIOUS
<1>3. QED BY <1>1, <1>2 DEF Cleared

\* An admission, with or without a verdict.
LEMMA TransmitKeeps ==
  ASSUME AirInv, TypeOK', NEW c \in Command, NEW free \in BOOLEAN, NEW planned \in BOOLEAN,
         Transmit(c, free, planned), stage[c] \in {"asking", "held"},
         free => Decision(on[c], PlanOf[c]).kind = "go",
         UNCHANGED <<now, on, rfAt>>
  PROVE  AirInv'
<1>0. /\ TypeOK /\ Routed /\ PlanOf[c] \in Plan /\ on[c] \in Bridge /\ now \in Nat
      /\ StartTTL \in Nat /\ stage \in [Command -> Stages]
      /\ admitAt \in [Command -> Nat \cup {Never}] /\ seen \in [Command -> SUBSET Command]
  BY DEF AirInv, TypeOK, CalendarTypeOK
<1>1. ~Admitted(c) /\ rfAt[c] = Never /\ \A u \in Command : c \notin seen[u]
  BY <1>0 DEF AirInv, Dated
<1>2. /\ stage' = [stage EXCEPT ![c] = "published"]
      /\ admitAt' = [admitAt EXCEPT ![c] = now]
      /\ seen' = [seen EXCEPT ![c] = Published]
      /\ lost \subseteq lost' /\ Expired \subseteq lost'
      /\ c \notin lost' => planned /\ HasRoom
      /\ bypass' = IF free THEN bypass ELSE bypass \cup {c}
      /\ IF planned THEN Provision(on[c], c, PlanOf[c], StartTTL) ELSE PruneOnly
  BY DEF Transmit, Goto
<1>3. Routed'
  BY <1>0, <1>2 DEF Routed, Provision, PruneOnly, WithoutKey, LivePending
<1>4. \A d \in Command : Dated(d)'
  <2> SUFFICES ASSUME NEW d \in Command PROVE Dated(d)'
    OBVIOUS
  <2>0. Dated(d)
    BY DEF AirInv
  <2>1. \A e \in Command : Admitted(e) => Admitted(e)'
    BY <1>0, <1>2 DEF Admitted, Never
  <2>2. CASE d = c
    <3>1. \A e \in Published : Admitted(e)'
      BY <2>1 DEF Published, Admitted
    <3>2. \A e \in seen'[d] : Admitted(e)'
      BY <2>2, <3>1, <1>0, <1>2
    <3>3. Admitted(d)' /\ admitAt'[d] = now /\ stage'[d] = "published" /\ rfAt'[d] = Never
      BY <2>2, <1>0, <1>1, <1>2 DEF Admitted, Never
    <3>4. QED BY <3>2, <3>3, <1>0 DEF Dated
  <2>3. CASE d # c
    BY <2>0, <2>1, <2>3, <1>0, <1>2 DEF Dated, Admitted
  <2>4. QED BY <2>2, <2>3
<1>5. \A t \in Command : Tracked(t)'
  <2>1. KeepsOthers({c})
    BY <1>0, <1>2, OperationKeepsOthers
  <2>2. drains' \in [Bridge -> Nat]
    BY DEF TypeOK, CalendarTypeOK
  <2>3. \A t \in Command \ {c} : Tracked(t)'
    BY <1>0, <1>2, <2>1, <2>2, TrackedKept DEF AirInv
  <2>4. Tracked(c)'
    <3>1. c \notin lost' => \E q \in pending' : q.cmd = c
      <4> SUFFICES ASSUME c \notin lost' PROVE \E q \in pending' : q.cmd = c
        OBVIOUS
      <4> DEFINE new == [bridge |-> on[c], cmd |-> c, boot |-> boot[on[c]],
                         plan |-> PlanOf[c], expires |-> now + StartTTL]
      <4>1. pending' = WithoutKey(LivePending, on[c], c) \cup {new}
        BY <1>2 DEF Provision
      <4>2. new \in pending' /\ new.cmd = c
        BY <4>1
      <4>3. QED BY <4>2
    <3>2. QED BY <1>1, <3>1 DEF Tracked
  <2>5. QED BY <2>3, <2>4
<1>6. \A t, u \in Command : Cleared(t, u)'
  <2> SUFFICES ASSUME NEW t \in Command, NEW u \in Command,
                      t \in seen'[u], t \notin lost', u \notin bypass', on[t] # on[u]
               PROVE  /\ stage'[t] # "published"
                      /\ rfAt[t] # Never => TrainEnd(t)' <= admitAt'[u]
    BY DEF Cleared
  <2>0. TrainEnd(t)' = TrainEnd(t)
    BY DEF TrainEnd
  <2>1. CASE u # c
    <3>1. t \in seen[u] /\ t # c /\ t \notin lost /\ u \notin bypass
      BY <2>1, <1>0, <1>1, <1>2
    <3>2. Cleared(t, u)
      BY DEF AirInv
    <3>3. QED BY <2>0, <2>1, <3>1, <3>2, <1>0, <1>2 DEF Cleared
  <2>2. CASE u = c
    <3>1. /\ OthersPending(on[c]) = {}
          /\ \A o \in Bridge \ {on[c]} : LiveDrains[o] <= now
      BY <2>2, <1>0, <1>2, GoIsClear
    <3>2. t \in Published /\ t # c /\ t \notin lost /\ Tracked(t) /\ on[t] \in Bridge
      BY <2>2, <1>0, <1>1, <1>2 DEF Published, Admitted, AirInv, TypeOK
    <3>3. stage[t] \notin {"published", "on_air"}
      <4> SUFFICES ASSUME stage[t] \in {"published", "on_air"} PROVE FALSE
        OBVIOUS
      <4>1. PICK q \in pending : q.cmd = t
        BY <3>2 DEF Tracked
      <4>2. q \in LivePending /\ q.bridge = on[t]
        BY <4>1, <1>0, <1>2 DEF Expired, Routed
      <4>3. QED BY <4>2, <3>1, <2>2 DEF OthersPending
    <3>4. rfAt[t] # Never => TrainEnd(t) <= now
      <4> SUFFICES ASSUME rfAt[t] # Never, ~(TrainEnd(t) <= now) PROVE FALSE
        OBVIOUS
      <4>1. TrainEnd(t) \in Int
        <5>1. rfAt[t] \in Int /\ PlanOf[t] \in Plan
          BY DEF AirInv, TypeOK, Never
        <5>2. QED BY <5>1, IntervalTypes DEF TrainEnd
      <4>2. drains[on[t]] >= TrainEnd(t)
        BY <4>1, <3>2, <3>3, <1>0 DEF Tracked
      <4>3. drains[on[t]] > now /\ drains[on[t]] \in Nat
        BY <4>1, <4>2, <3>2, <1>0 DEF TypeOK, CalendarTypeOK
      <4>4. LiveDrains[on[t]] = drains[on[t]]
        BY <4>3, <3>2 DEF LiveDrains
      <4>5. QED BY <4>3, <4>4, <3>1, <3>2, <2>2, <1>0
    <3>5. QED BY <2>0, <2>2, <3>2, <3>3, <3>4, <1>0, <1>2
  <2>3. QED BY <2>1, <2>2
<1>7. QED BY <1>3, <1>4, <1>5, <1>6 DEF AirInv

\* A step that admits nobody and starts no train: what is left to show is
\* that its own commands S stay dated and tracked.
LEMMA QuietStep ==
  ASSUME AirInv, TypeOK', NEW S \in SUBSET Command, KeepsOthers(S),
         pending' \subseteq pending, UNCHANGED <<on, admitAt, rfAt, seen, bypass>>,
         now' >= now, lost \subseteq lost',
         \A d \in Command :
           \/ stage'[d] = stage[d]
           \/ stage[d] = "idle" /\ stage'[d] = "asking"
           \/ stage[d] \in {"asking", "held"} /\ stage'[d] = "held"
           \/ stage[d] # "on_air" /\ stage'[d] = "gone"
           \/ d \in S /\ stage[d] = "published" /\ stage'[d] = "adrift" /\ d \in lost'
           \/ d \in S /\ stage[d] = "on_air" /\ stage'[d] = "started",
         \A d \in Command \ S : \/ stage'[d] = stage[d]
                                \/ stage[d] # "on_air" /\ stage'[d] = "gone",
         \A d \in S : Tracked(d)'
  PROVE  AirInv'
<1>0. TypeOK /\ now \in Nat /\ now' \in Nat /\ drains' \in [Bridge -> Nat]
  BY DEF AirInv, TypeOK, CalendarTypeOK
<1>1. Routed'
  BY DEF AirInv, Routed
<1>2. \A d \in Command : Dated(d)'
  <2> SUFFICES ASSUME NEW d \in Command PROVE Dated(d)'
    OBVIOUS
  <2>1. Dated(d) /\ admitAt[d] \in Nat \cup {Never}
    BY DEF AirInv, TypeOK
  <2>2. admitAt'[d] <= now'
    BY <2>1, <1>0 DEF Dated, Never
  <2>3. /\ stage'[d] \in {"idle", "asking", "held"} => ~Admitted(d)'
        /\ stage'[d] \in {"published", "on_air", "started", "adrift"} => Admitted(d)'
        /\ stage'[d] \in {"published", "adrift"} => rfAt'[d] = Never
        /\ stage'[d] \in {"on_air", "started"} => rfAt'[d] # Never
        /\ stage'[d] = "adrift" => d \in lost'
    BY <2>1 DEF Dated, Admitted
  <2>4. QED BY <2>1, <2>2, <2>3 DEF Dated, Admitted
<1>3. \A t \in Command : Tracked(t)'
  <2>1. \A t \in Command \ S : Tracked(t)'
    BY <1>0, TrackedKept DEF AirInv
  <2>2. QED BY <2>1
<1>4. \A t, u \in Command : Cleared(t, u)'
  BY <1>0, ClearedKept DEF AirInv
<1>5. QED BY <1>1, <1>2, <1>3, <1>4 DEF AirInv

\* Nothing has been published yet.
LEMMA AirInvInit == Init => AirInv
<1> SUFFICES ASSUME Init PROVE AirInv
  OBVIOUS
<1>1. TypeOK
  BY TypeInductive
<1>2. Routed
  BY DEF Init, CalendarInit, Routed
<1>3. \A c \in Command : Dated(c)
  BY DEF Init, CalendarInit, Dated, Admitted, Never
<1>4. \A t \in Command : Tracked(t)
  BY DEF Init, Tracked
<1>5. \A t, u \in Command : Cleared(t, u)
  BY DEF Init, Cleared
<1>6. QED BY <1>1, <1>2, <1>3, <1>4, <1>5 DEF AirInv

\* By action: those that touch the calendar, then those that do not.
LEMMA AirInvStep == AirInv /\ [Next]_vars => AirInv'
<1> SUFFICES ASSUME AirInv, [Next]_vars PROVE AirInv'
  OBVIOUS
<1>0. /\ TypeOK /\ TypeOK' /\ Routed /\ now \in Nat /\ StartTTL \in Nat
      /\ \A c \in Command : /\ Dated(c) /\ Tracked(c) /\ PlanOf[c] \in Plan
                            /\ on[c] \in Bridge /\ rfAt[c] \in Nat \cup {Never}
      /\ drains \in [Bridge -> Nat] /\ stage \in [Command -> Stages]
  BY TypeInductive DEF AirInv, TypeOK, CalendarTypeOK
<1>1. ASSUME NEW c \in Command, Request(c) PROVE AirInv'
  <2>1. KeepsOthers({c}) /\ pending' = pending
    BY <1>0, <1>1 DEF Request, calendarVars, KeepsOthers
  <2>2. rfAt'[c] = Never /\ stage' = [stage EXCEPT ![c] = "asking"] /\ stage[c] = "idle"
    BY <1>0, <1>1 DEF Request, history, Goto, Dated, Admitted
  <2>3. Tracked(c)'
    BY <2>2, <1>0 DEF Tracked
  <2>4. QED BY <2>1, <2>2, <2>3, <1>0, <1>1, QuietStep DEF Request, history, calendarVars
\* A refused command leaves the calendar as a prune does.
<1>2. ASSUME NEW c \in Command, Refuse(c), stage[c] \in {"asking", "held"},
             UNCHANGED <<now, on, rfAt>>
      PROVE  AirInv'
  <2>1. KeepsOthers({c}) /\ pending' \subseteq pending
    BY <1>0, <1>2, OperationKeepsOthers DEF Refuse, LoseExpired, LivePending
  <2>2. rfAt'[c] = Never /\ stage' = [stage EXCEPT ![c] = "gone"]
    BY <1>0, <1>2 DEF Refuse, Goto, Dated, Admitted
  <2>3. Tracked(c)'
    BY <2>2, <1>0 DEF Tracked
  <2>4. QED BY <2>1, <2>2, <2>3, <1>0, <1>2, QuietStep DEF Refuse, LoseExpired
<1>3. ASSUME NEW c \in Command, Hold(c, Decision(on[c], PlanOf[c]).earliest),
             stage[c] \in {"asking", "held"}, UNCHANGED <<now, on, rfAt>>
      PROVE  AirInv'
  <2>1. KeepsOthers({c}) /\ pending' \subseteq pending
    BY <1>0, <1>3, OperationKeepsOthers DEF Hold, LoseExpired, DecideAndSleep, LivePending
  <2>2. rfAt'[c] = Never /\ stage' = [stage EXCEPT ![c] = "held"]
    BY <1>0, <1>3 DEF Hold, Goto, Dated, Admitted
  <2>3. Tracked(c)'
    BY <2>2, <1>0 DEF Tracked
  <2>4. QED BY <2>1, <2>2, <2>3, <1>0, <1>3, QuietStep DEF Hold, LoseExpired
<1>4. ASSUME NEW c \in Command, Attempt(c) PROVE AirInv'
  <2> DEFINE d == Decision(on[c], PlanOf[c])
  <2>1. stage[c] \in {"asking", "held"} /\ UNCHANGED <<now, on, rfAt>>
    BY <1>4 DEF Attempt, Runnable
  <2>2. \/ Publish(c, FALSE, TRUE)
        \/ d.kind = "go" /\ Publish(c, TRUE, TRUE)
        \/ Hold(c, d.earliest)
    BY <1>4 DEF Attempt
  <2>3. CASE Hold(c, d.earliest)
    BY <2>1, <2>3, <1>3
  <2>4. CASE Refuse(c)
    BY <2>1, <2>4, <1>2
  <2>5. CASE Transmit(c, FALSE, TRUE)
    BY <2>1, <2>5, <1>0, TransmitKeeps
  <2>6. CASE d.kind = "go" /\ Transmit(c, TRUE, TRUE)
    BY <2>1, <2>6, <1>0, TransmitKeeps
  <2>7. QED BY <2>2, <2>3, <2>4, <2>5, <2>6 DEF Publish
<1>5. ASSUME NEW c \in Command, AttemptUnasked(c) PROVE AirInv'
  <2>1. stage[c] \in {"asking", "held"} /\ UNCHANGED <<now, on, rfAt>>
    BY <1>5 DEF AttemptUnasked, Runnable
  <2>2. PICK planned \in BOOLEAN : Refuse(c) \/ Transmit(c, FALSE, planned)
    BY <1>5 DEF AttemptUnasked, Publish
  <2>3. CASE Refuse(c)
    BY <2>1, <2>3, <1>2
  <2>4. CASE Transmit(c, FALSE, planned)
    BY <2>1, <2>4, <1>0, TransmitKeeps
  <2>5. QED BY <2>2, <2>3, <2>4
<1>6. ASSUME NEW c \in Command, Retire(c) PROVE AirInv'
  <2>1. KeepsOthers({}) /\ pending' = pending
    BY <1>0, <1>6 DEF Retire, KeepsOthers
  <2>2. QED BY <2>1, <1>0, <1>6, QuietStep DEF Retire, Goto, history
\* What GiveUp and Rejected do to the calendar.
<1>7. ASSUME NEW c \in Command, ReleasePending(on[c], c)
      PROVE  KeepsOthers({c}) /\ pending' \subseteq pending
  BY <1>0, <1>7 DEF ReleasePending, WithoutKey, KeepsOthers
<1>8. ASSUME NEW c \in Command, GiveUp(c) PROVE AirInv'
  <2>1. KeepsOthers({c}) /\ pending' \subseteq pending
    BY <1>7, <1>8 DEF GiveUp
  <2>2. /\ c \in lost' /\ lost \subseteq lost'
        /\ stage' = [stage EXCEPT ![c] = IF stage[c] = "published" THEN "adrift" ELSE "started"]
        /\ stage[c] \in {"published", "on_air"}
    BY <1>8 DEF GiveUp, Goto
  <2>3. Tracked(c)'
    BY <2>2 DEF Tracked
  <2>4. QED BY <2>1, <2>2, <2>3, <1>0, <1>8, QuietStep DEF GiveUp
<1>9. ASSUME NEW c \in Command, StartRf(c) PROVE AirInv'
  <2>1. /\ UNCHANGED <<calendarVars, on, admitAt, seen, bypass, lost>>
        /\ rfAt' = [rfAt EXCEPT ![c] = now] /\ rfAt \in [Command -> Nat \cup {Never}]
        /\ stage' = [stage EXCEPT ![c] = IF stage[c] = "published" THEN "on_air" ELSE "started"]
        /\ stage[c] \in {"published", "adrift"}
    BY <1>0, <1>9 DEF StartRf, Goto, TypeOK
  <2>2. Routed'
    BY <2>1, <1>0 DEF Routed, calendarVars
  <2>3. \A e \in Command : Dated(e)'
    <3> SUFFICES ASSUME NEW e \in Command PROVE Dated(e)'
      OBVIOUS
    <3>1. Dated(e)
      BY <1>0
    <3>2. QED BY <3>1, <2>1, <1>0 DEF Dated, Admitted, calendarVars, Never
  <2>4. \A e \in Command : Tracked(e)'
    <3>1. KeepsOthers({c}) /\ drains' \in [Bridge -> Nat]
      BY <2>1, <1>0 DEF KeepsOthers, calendarVars
    <3>2. \A e \in Command \ {c} : Tracked(e)'
      BY <3>1, <2>1, <1>0, TrackedKept DEF calendarVars
    <3>3. Tracked(c)'
      BY <2>1, <1>0 DEF Tracked, Dated, calendarVars
    <3>4. QED BY <3>2, <3>3
  <2>5. \A t, u \in Command : Cleared(t, u)'
    <3> SUFFICES ASSUME NEW t \in Command, NEW u \in Command PROVE Cleared(t, u)'
      OBVIOUS
    <3>1. Cleared(t, u) /\ Dated(t)
      BY <1>0 DEF AirInv
    <3>2. CASE t = c
      BY <3>1, <3>2, <2>1 DEF Cleared, Dated
    <3>3. CASE t # c
      <4>1. TrainEnd(t)' = TrainEnd(t)
        BY <3>3, <2>1 DEF TrainEnd
      <4>2. QED BY <4>1, <3>1, <3>3, <2>1, <1>0 DEF Cleared
    <3>4. QED BY <3>2, <3>3
  <2>6. QED BY <2>2, <2>3, <2>4, <2>5, <1>0 DEF AirInv
<1>10. ASSUME NEW c \in Command, StartedStatus(c) PROVE AirInv'
  <2>1. PICK k \in {NoBoot, boot[on[c]]} : Started(on[c], c, rfAt[c], k)
    BY <1>10 DEF StartedStatus
  <2>2. /\ stage[c] = "on_air" /\ stage' = [stage EXCEPT ![c] = "started"]
        /\ lost' = lost \cup Expired
        /\ UNCHANGED <<now, on, admitAt, rfAt, seen, bypass>>
    BY <1>10 DEF StartedStatus, Goto, LoseExpired
  <2>3. k \in Nat /\ rfAt[c] \in Nat
    BY <2>2, <1>0 DEF NoBoot, TypeOK, CalendarTypeOK, Dated
  <2>4. /\ KeepsOthers({c})
        /\ (\E q \in pending : q.cmd = c) /\ c \notin lost'
              /\ Immediate(PlanOf[c], rfAt[c]).hi > now
            => drains'[on[c]] >= Immediate(PlanOf[c], rfAt[c]).hi
    BY <2>1, <2>2, <2>3, <1>0, StartedTracks
  <2>5. pending' \subseteq pending
    BY <2>1 DEF Started, PruneOnly, LivePending
  <2>6. Tracked(c)'
    <3>1. Immediate(PlanOf[c], rfAt[c]).hi \in Int
      BY <2>3, <1>0, IntervalTypes
    <3>2. drains' \in [Bridge -> Nat] /\ on[c] \in Bridge
      BY <1>0 DEF TypeOK, CalendarTypeOK
    <3>3. c \notin lost' => \E q \in pending : q.cmd = c
      BY <2>2, <1>0 DEF Tracked
    <3>4. QED BY <3>1, <3>2, <3>3, <2>4, <2>2, <1>0 DEF Tracked, TrainEnd
  <2>7. QED BY <2>2, <2>4, <2>5, <2>6, <1>0, QuietStep
<1>11. ASSUME NEW c \in Command, Rejected(c) PROVE AirInv'
  <2>1. KeepsOthers({c}) /\ pending' \subseteq pending
    BY <1>7, <1>11 DEF Rejected
  <2>2. rfAt'[c] = Never /\ stage' = [stage EXCEPT ![c] = "gone"] /\ stage[c] = "published"
    BY <1>0, <1>11 DEF Rejected, Goto, Dated, history
  <2>3. Tracked(c)'
    BY <2>2, <1>0 DEF Tracked
  <2>4. QED BY <2>1, <2>2, <2>3, <1>0, <1>11, QuietStep DEF Rejected, history
<1>12. ASSUME NEW c \in Command, DisplacedStatus(c) PROVE AirInv'
  <2>1. KeepsOthers({c}) /\ pending' \subseteq pending
    BY <1>0, <1>12, OperationKeepsOthers
    DEF DisplacedStatus, Displaced, LoseExpired, LivePending, WithoutKey
  <2>2. CASE stage[c] = "published"
    <3>1. rfAt'[c] = Never /\ stage' = [stage EXCEPT ![c] = "gone"]
      BY <2>2, <1>0, <1>12 DEF DisplacedStatus, Goto, Dated
    <3>2. Tracked(c)'
      BY <3>1, <1>0 DEF Tracked
    <3>3. QED
      BY <2>1, <2>2, <3>1, <3>2, <1>0, <1>12, QuietStep DEF DisplacedStatus, LoseExpired
  <2>3. CASE stage[c] # "published"
    \* The train, if it is still going, stays behind its drain.
    <3>1. stage' = stage /\ UNCHANGED <<now, on, rfAt>> /\ lost \subseteq lost'
          /\ Expired \subseteq lost' /\ Displaced(on[c], c) /\ stage[c] = "started"
      BY <2>3, <1>12 DEF DisplacedStatus, Unfinished, Owes, LoseExpired
    <3>2. Tracked(c)'
      <4>1. drains' \in [Bridge -> Nat]
        BY <1>0 DEF TypeOK, CalendarTypeOK
      <4>2. QED BY <2>1, <3>1, <4>1, <1>0, StartedKept
    <3>3. QED BY <2>1, <3>1, <3>2, <1>0, <1>12, QuietStep DEF DisplacedStatus, LoseExpired
  <2>4. QED BY <2>2, <2>3
<1>13. ASSUME NEW c \in Command, DisarmedStatus(c) PROVE AirInv'
  <2>1. KeepsOthers({c}) /\ pending' \subseteq pending
    BY <1>0, <1>13, OperationKeepsOthers
    DEF DisarmedStatus, Disarmed, LoseExpired, LivePending, WithoutKey
  <2>2. /\ stage' = [stage EXCEPT ![c] = "gone"] /\ stage[c] \in {"published", "started"}
        /\ UNCHANGED <<now, on, admitAt, rfAt, seen, bypass>> /\ lost \subseteq lost'
    BY <1>13 DEF DisarmedStatus, Goto, Unfinished, Owes, LoseExpired
  <2>3. Tracked(c)'
    <3>1. drains' \in [Bridge -> Nat]
      BY <1>0 DEF TypeOK, CalendarTypeOK
    <3>2. QED BY <2>1, <2>2, <3>1, <1>0, StartedKept
  <2>4. QED BY <2>1, <2>2, <2>3, <1>0, QuietStep
<1>14. ASSUME NEW b \in Bridge, BridgeChange(b) PROVE AirInv'
  <2>1. /\ pending' \subseteq LivePending /\ drains' = LiveDrains
        /\ lost' = lost \cup {q.cmd : q \in pending \ pending'}
        /\ UNCHANGED <<now, on, admitAt, rfAt, seen, bypass>>
    BY <1>14 DEF BridgeChange, UpdateBridges
  <2>2. \A d \in Command : \/ stage'[d] = stage[d]
                           \/ stage[d] # "on_air" /\ stage'[d] = "gone"
    BY <1>0, <1>14 DEF BridgeChange, CutOff, Owes
  <2>3. KeepsOthers({}) /\ pending' \subseteq pending
    <3>1. \A q \in pending : q.cmd \notin lost' => q \in pending'
      BY <2>1
    <3>2. \A o \in Bridge : drains[o] > now => drains'[o] >= drains[o]
      BY <2>1, <1>0 DEF LiveDrains
    <3>3. QED BY <3>1, <3>2, <2>1 DEF KeepsOthers, LivePending
  <2>4. QED BY <2>1, <2>2, <2>3, <1>0, QuietStep
<1>15. CASE Close
  <2>1. /\ pending' = {} /\ lost' = lost \cup Published
        /\ UNCHANGED <<now, on, admitAt, rfAt, seen, bypass>>
        /\ stage' = [c \in Command |-> IF stage[c] \in {"asking", "held"}
                                          THEN "gone" ELSE stage[c]]
    BY <1>15 DEF Close, CloseCalendar
  <2>2. \A t \in Command : Tracked(t)'
    <3> SUFFICES ASSUME NEW t \in Command, t \notin Published PROVE Tracked(t)'
      BY <2>1 DEF Tracked
    <3>1. stage[t] \notin {"published", "on_air", "started", "adrift"} /\ Dated(t)
      BY <1>0 DEF Published, Dated, Admitted
    <3>2. stage[t] \in {"idle", "asking", "held"} \/ ~Admitted(t)
      BY <1>0 DEF Published, Admitted
    <3>3. rfAt[t] = Never
      BY <3>1, <3>2 DEF Dated
    <3>4. QED BY <3>1, <3>3, <2>1 DEF Tracked
  <2>3. \A c \in Command : Dated(c)'
    <3> SUFFICES ASSUME NEW c \in Command PROVE Dated(c)'
      OBVIOUS
    <3>1. Dated(c)
      BY <1>0
    <3>2. QED BY <3>1, <2>1 DEF Dated, Admitted
  <2>4. \A t, u \in Command : Cleared(t, u)'
    BY <2>1, <1>0, ClearedKept DEF AirInv
  <2>5. QED BY <2>1, <2>2, <2>3, <2>4, <1>0 DEF AirInv, Routed
<1>16. CASE Tick
  <2>1. KeepsOthers({}) /\ pending' = pending
    BY <1>0, <1>16 DEF Tick, calendar, KeepsOthers
  <2>2. QED BY <2>1, <1>0, <1>16, QuietStep DEF Tick, calendar, hub, history
<1>17. CASE UNCHANGED vars
  <2>1. KeepsOthers({}) /\ pending' = pending
    BY <1>0, <1>17 DEF vars, calendarVars, KeepsOthers
  <2>2. QED BY <2>1, <1>0, <1>17, QuietStep DEF vars, calendarVars, hub, history
<1>18. QED
  BY <1>1, <1>4, <1>5, <1>6, <1>8, <1>9, <1>10, <1>11, <1>12, <1>13, <1>14,
     <1>15, <1>16, <1>17 DEF Next

\* Two bridges never transmit over each other: a command admitted with a
\* verdict starts only after the end of every train of another bridge that
\* was admitted before it and is still tracked.
THEOREM CollisionFree == Spec => []NoCollision
<1>1. AirInv => NoCollision
  <2> SUFFICES ASSUME AirInv, NEW u \in Command \ bypass, NEW t \in seen[u] \ lost,
                      on[t] # on[u], rfAt[t] # Never, rfAt[u] # Never
               PROVE  TrainEnd(t) <= rfAt[u]
    BY DEF NoCollision
  <2>1. /\ t \in Command /\ Cleared(t, u) /\ Dated(u)
        /\ rfAt[t] \in Nat /\ rfAt[u] \in Nat
        /\ admitAt[u] \in Int /\ PlanOf[t] \in Plan
    BY DEF AirInv, TypeOK, Never
  <2>2. TrainEnd(t) \in Int
    BY <2>1, IntervalTypes DEF TrainEnd
  <2>3. TrainEnd(t) <= admitAt[u]
    BY <2>1 DEF Cleared
  <2>4. admitAt[u] <= rfAt[u]
    BY <2>1 DEF Dated
  <2>5. QED BY <2>1, <2>2, <2>3, <2>4
<1>2. QED BY <1>1, AirInvInit, AirInvStep, PTL DEF Spec

\* What a tracked command owes is on the calendar: its plan until its start is
\* known, its drain for as long as its train lasts.
THEOREM OwedStaysTracked == Spec => []OwedIsTracked
<1>1. AirInv => OwedIsTracked
  <2> SUFFICES ASSUME AirInv, NEW t \in Published \ lost
               PROVE  /\ stage[t] \in {"published", "on_air"} => \E q \in pending : q.cmd = t
                      /\ stage[t] = "started" /\ TrainEnd(t) > now
                           => drains[on[t]] >= TrainEnd(t)
    BY DEF OwedIsTracked
  <2>1. Tracked(t) /\ Dated(t)
    BY DEF AirInv, Published
  <2>2. QED BY <2>1 DEF Tracked, Dated
<1>2. QED BY <1>1, AirInvInit, AirInvStep, PTL DEF Spec

----------------------------------------------------------------------------
(* The hold. *)

\* A held command has a first wait, and never sleeps past its ceiling.
HoldInv ==
  \A c \in Command : stage[c] = "held" =>
    /\ heldSince[c] # Never
    /\ until[c] <= heldSince[c] + MaxHold
    /\ now <= heldSince[c] + MaxHold

\* A step that holds nobody and lets no time pass keeps it.
LEMMA HoldKept ==
  ASSUME TypeOK, HoldInv, now' = now,
         \A c \in Command : stage'[c] = "held" =>
           stage[c] = "held" /\ heldSince'[c] = heldSince[c] /\ until'[c] = until[c]
  PROVE  HoldInv'
  BY DEF HoldInv

\* An ordinary command waits for the air at most MAX_AIR_HOLD_MS, counted
\* from its first wait, however often it is woken.
THEOREM HoldIsBounded == Spec => []HoldBounded
<1>1. Init => HoldInv
  BY DEF Init, HoldInv
<1>2. TypeOK /\ HoldInv /\ [Next]_vars => HoldInv'
  <2> SUFFICES ASSUME TypeOK, HoldInv, [Next]_vars PROVE HoldInv'
    OBVIOUS
  <2>0. /\ now \in Nat /\ MaxHold \in Nat /\ heldSince \in [Command -> Nat \cup {Never}]
        /\ until \in [Command -> Int] /\ stage \in [Command -> Stages]
    BY DEF TypeOK, CalendarTypeOK
  <2>1. ASSUME NEW c \in Command, NEW free \in BOOLEAN, NEW planned \in BOOLEAN,
               Publish(c, free, planned), now' = now
        PROVE  HoldInv'
    <3>1. /\ \E s \in {"gone", "published"} : stage' = [stage EXCEPT ![c] = s]
          /\ heldSince' = [heldSince EXCEPT ![c] = Never]
          /\ until' = [until EXCEPT ![c] = 0]
      BY <2>1 DEF Publish, Refuse, Transmit, Goto, ClearHold
    <3>2. QED BY <2>0, <2>1, <3>1, HoldKept
  <2>2. ASSUME NEW c \in Command, NEW e, Hold(c, e), now' = now PROVE HoldInv'
    <3>1. /\ now < Since(c) + MaxHold /\ Since(c) \in Nat
          /\ stage' = [stage EXCEPT ![c] = "held"]
          /\ heldSince' = [heldSince EXCEPT ![c] = Since(c)]
          /\ until'[c] <= Since(c) + MaxHold
          /\ \A d \in Command \ {c} : until'[d] = until[d]
      BY <2>0, <2>2 DEF Hold, CeilingHit, Ceiling, Since, Goto
    <3>2. QED BY <2>0, <2>2, <3>1 DEF HoldInv, Never
  <2>3. ASSUME NEW c \in Command, Attempt(c) PROVE HoldInv'
    <3> DEFINE d == Decision(on[c], PlanOf[c])
    <3>1. /\ now' = now
          /\ \/ Publish(c, FALSE, TRUE) \/ Publish(c, TRUE, TRUE)
             \/ Hold(c, d.earliest)
      BY <2>3 DEF Attempt
    <3>2. QED BY <3>1, <2>1, <2>2
  <2>4. ASSUME NEW c \in Command, AttemptUnasked(c) PROVE HoldInv'
    BY <2>1, <2>4 DEF AttemptUnasked
  <2>5. ASSUME NEW c \in Command,
               \/ Request(c) \/ GiveUp(c) \/ StartRf(c) \/ StartedStatus(c)
               \/ Rejected(c) \/ DisplacedStatus(c) \/ DisarmedStatus(c)
        PROVE  HoldInv'
    <3>1. /\ UNCHANGED <<now, heldSince, until>>
          /\ \/ stage' = stage
             \/ \E s \in Stages \ {"held"} : stage' = [stage EXCEPT ![c] = s]
      <4>1. CASE Request(c) \/ GiveUp(c) \/ StartRf(c) \/ StartedStatus(c)
        BY <2>0, <4>1 DEF Request, GiveUp, StartRf, StartedStatus, Goto, calendarVars, Stages
      <4>2. CASE Rejected(c) \/ DisplacedStatus(c) \/ DisarmedStatus(c)
        BY <2>0, <4>2 DEF Rejected, DisplacedStatus, DisarmedStatus, Goto, Stages
      <4>3. QED BY <2>5, <4>1, <4>2
    <3>2. QED BY <2>0, <3>1, HoldKept
  <2>6. ASSUME NEW c \in Command, Retire(c) PROVE HoldInv'
    BY <2>0, <2>6, HoldKept DEF Retire, ClearHold, Goto
  <2>7. ASSUME NEW b \in Bridge, BridgeChange(b) PROVE HoldInv'
    BY <2>0, <2>7, HoldKept DEF BridgeChange
  <2>8. CASE Close
    BY <2>0, <2>8, HoldKept DEF Close
  \* Time passes only while every held command still sleeps.
  <2>9. CASE Tick
    <3> SUFFICES ASSUME NEW c \in Command, stage[c] = "held"
                 PROVE  now + 1 <= heldSince[c] + MaxHold
      BY <2>9 DEF Tick, hub, HoldInv
    <3>1. now < until[c]
      BY <2>0, <2>9 DEF Tick, Runnable
    <3>2. QED BY <2>0, <3>1 DEF HoldInv, Never
  <2>10. CASE UNCHANGED vars
    BY <2>0, <2>10, HoldKept DEF vars, hub, calendarVars
  <2>11. QED
    BY <2>3, <2>4, <2>5, <2>7, <2>6, <2>8, <2>9, <2>10 DEF Next
<1>3. HoldInv => HoldBounded
  BY DEF HoldInv, HoldBounded
<1>4. QED BY <1>1, <1>2, <1>3, TypeInductive, PTL DEF Spec

----------------------------------------------------------------------------
(* The decision. *)

\* _insert_reservation keeps at most AIR_STATE_CAP windows.
Capped == IsFiniteSet(reservations) /\ Cardinality(reservations) <= StateCap

\* A finite nonempty set of integers has a greatest element.
LEMMA FiniteMax ==
  ASSUME NEW S \in SUBSET Int, IsFiniteSet(S), S # {}
  PROVE  \E m \in S : \A t \in S : t <= m
<1>1. PICK n \in Nat : ExistsSurjection(1..n, S)
  BY FS_NatSurjection
<1>2. PICK f \in Surjection(1..n, S) : TRUE
  BY <1>1 DEF ExistsSurjection
<1>3. f \in [1..n -> S] /\ \A t \in S : \E i \in 1..n : f[i] = t
  BY <1>2 DEF Surjection
<1>4. n # 0
  <2>1. PICK t \in S : TRUE
    OBVIOUS
  <2>2. PICK i \in 1..n : f[i] = t
    BY <1>3, <2>1
  <2> QED BY <2>2
<1> DEFINE T == {k \in 0..n : k = 0 \/ \E i \in 1..k : \A j \in 1..k : f[j] <= f[i]}
<1>5. 0 \in T
  OBVIOUS
<1>6. ASSUME NEW k \in 1..n, k - 1 \in T PROVE k \in T
  <2>1. f[k] \in Int /\ \A j \in 1..n : f[j] \in Int
    BY <1>3
  <2>2. CASE k = 1
    BY <2>1, <2>2
  <2>3. CASE k # 1
    <3>1. PICK i \in 1..(k - 1) : \A j \in 1..(k - 1) : f[j] <= f[i]
      BY <1>6, <2>3
    <3>2. CASE f[k] <= f[i]
      <4>1. \A j \in 1..k : f[j] <= f[i]
        BY <3>1, <3>2
      <4> QED BY <4>1
    <3>3. CASE ~(f[k] <= f[i])
      <4>1. \A j \in 1..k : f[j] <= f[k]
        BY <3>1, <3>3, <2>1
      <4> QED BY <4>1
    <3> QED BY <3>2, <3>3
  <2> QED BY <2>2, <2>3
<1>7. n \in T
  <2> HIDE DEF T
  <2>1. \A k \in 0..n : k \in T
    BY <1>5, <1>6, Induction
  <2> QED BY <2>1
<1>8. PICK i \in 1..n : \A j \in 1..n : f[j] <= f[i]
  BY <1>4, <1>7
<1>9. f[i] \in S /\ \A t \in S : t <= f[i]
  BY <1>3, <1>8
<1> QED BY <1>9

\* The image of a finite set is finite.
LEMMA FiniteImage ==
  ASSUME NEW X, IsFiniteSet(X), NEW f
  PROVE  IsFiniteSet({f[x] : x \in X})
<1> DEFINE g == [x \in X |-> f[x]]
           I == {f[x] : x \in X}
<1>1. g \in Surjection(X, I)
  BY DEF Surjection
<1> QED BY <1>1, FS_Surjection

\* max() of a finite set of instants.
LEMMA LatestIsGreatest ==
  ASSUME NEW S \in SUBSET Int, IsFiniteSet(S), S # {}
  PROVE  Latest(S) \in S /\ \A t \in S : t <= Latest(S)
  BY FiniteMax DEF Latest

\* min() of a set of instants.
LEMMA SoonestIsLeast ==
  ASSUME NEW S \in SUBSET Nat, S # {}
  PROVE  Soonest(S) \in S /\ \A t \in S : Soonest(S) <= t
  BY LeastNat DEF Soonest

\* What another bridge's windows are to a decision.
LEMMA OthersAreFew ==
  ASSUME TypeOK, Capped, NEW b \in Bridge
  PROVE  /\ IsFiniteSet(OthersReserved(b)) /\ Cardinality(OthersReserved(b)) <= StateCap
         /\ \A r \in OthersReserved(b) : r.lo \in Int /\ r.hi \in Int
<1>1. OthersReserved(b) \in SUBSET reservations
  BY DEF OthersReserved, LiveReservations
<1>2. \A r \in reservations : r.lo \in Int /\ r.hi \in Int
  BY DEF TypeOK, CalendarTypeOK, Reservation
<1>3. Cardinality(OthersReserved(b)) \in Nat /\ Cardinality(reservations) \in Nat
  BY <1>1, FS_Subset, FS_CardinalityType DEF Capped
<1>4. IsFiniteSet(OthersReserved(b)) /\ Cardinality(OthersReserved(b)) <= Cardinality(reservations)
  BY <1>1, FS_Subset DEF Capped
<1> QED BY <1>1, <1>2, <1>3, <1>4 DEF Capped

\* The first try is the end of the last drain of another bridge, if any lasts.
LEMMA FirstTryIs ==
  ASSUME TypeOK, NEW b \in Bridge
  PROVE  /\ FirstTry(b) \in Nat /\ now <= FirstTry(b)
         /\ \A o \in Bridge \ {b} : LiveDrains[o] <= FirstTry(b)
         /\ FirstTry(b) = now \/ \E o \in Bridge \ {b} : FirstTry(b) = LiveDrains[o]
<1> DEFINE D == {LiveDrains[o] : o \in Bridge \ {b}}
           S == D \cup {now}
<1>1. now \in Nat /\ LiveDrains \in [Bridge -> Nat]
  BY PruneTypes DEF TypeOK, CalendarTypeOK
<1>2. IsFiniteSet(D)
  <2>1. IsFiniteSet(Bridge \ {b})
    BY FS_RemoveElement
  <2> QED BY <2>1, FiniteImage
<1>3. IsFiniteSet(S) /\ S \in SUBSET Int /\ now \in S
  BY <1>1, <1>2, FS_AddElement
<1>4. Latest(S) \in S /\ \A t \in S : t <= Latest(S)
  <2> HIDE DEF S
  <2> QED BY <1>3, LatestIsGreatest
<1>5. FirstTry(b) = Latest(S)
  <2>1. {now} \cup D = S
    OBVIOUS
  <2> QED BY <2>1 DEF FirstTry
<1> QED BY <1>1, <1>4, <1>5

\* The way the loop of decide pushes a start: never back, past every window
\* that clashes, and no further than the end of one of them.
LEMMA RequiredPushes ==
  ASSUME TypeOK, Capped, NEW b \in Bridge, NEW p \in Plan, NEW s \in Int
  PROVE  /\ Required(b, p, s) \in Int /\ s <= Required(b, p, s)
         /\ \A r \in OthersReserved(b) :
              /\ ImmediateClash(p, s, r) => r.hi <= Required(b, p, s)
              /\ FutureClash(p, s, r) => r.hi - (p.offset - Guard) <= Required(b, p, s)
         /\ \/ Required(b, p, s) = s
            \/ \E r \in OthersReserved(b) :
                 \/ ImmediateClash(p, s, r) /\ Required(b, p, s) = r.hi
                 \/ FutureClash(p, s, r) /\ Required(b, p, s) = r.hi - (p.offset - Guard)
<1> DEFINE A == {x \in OthersReserved(b) : ImmediateClash(p, s, x)}
           B == {x \in OthersReserved(b) : FutureClash(p, s, x)}
           H == {r.hi : r \in A}
           F == {r.hi - (p.offset - Guard) : r \in B}
           S == {s} \cup H \cup F
<1>1. /\ IsFiniteSet(OthersReserved(b))
      /\ \A r \in OthersReserved(b) : r.lo \in Int /\ r.hi \in Int
  BY OthersAreFew
<1>2. p.offset \in Int /\ Guard \in Int
  BY DEF Plan
<1>3. IsFiniteSet(A) /\ IsFiniteSet(B)
  BY <1>1, FS_Subset
<1>4. IsFiniteSet(H)
  <2> DEFINE f == [r \in A |-> r.hi]
  <2>1. H = {f[r] : r \in A}
    OBVIOUS
  <2> HIDE DEF f, A, H
  <2> QED BY <1>3, <2>1, FiniteImage
<1>5. IsFiniteSet(F)
  <2> DEFINE f == [r \in B |-> r.hi - (p.offset - Guard)]
  <2>1. F = {f[r] : r \in B}
    OBVIOUS
  <2> HIDE DEF f, B, F
  <2> QED BY <1>3, <2>1, FiniteImage
<1>6. IsFiniteSet(S) /\ S # {} /\ S \in SUBSET Int
  <2>1. H \in SUBSET Int /\ F \in SUBSET Int
    BY <1>1, <1>2
  <2> HIDE DEF H, F
  <2>2. IsFiniteSet({s} \cup H)
    BY <1>4, FS_Singleton, FS_Union
  <2>3. IsFiniteSet(({s} \cup H) \cup F)
    BY <1>5, <2>2, FS_Union
  <2> QED BY <2>1, <2>3
<1>7. Latest(S) \in S /\ \A t \in S : t <= Latest(S)
  <2> HIDE DEF S
  <2> QED BY <1>6, LatestIsGreatest
<1>8. Required(b, p, s) = Latest(S)
  BY Zenon DEF Required
<1>9. PICK m : m = Latest(S)
  OBVIOUS
<1>10. m \in S /\ m \in Int /\ \A t \in S : t <= m
  <2> HIDE DEF S
  <2> QED BY <1>6, <1>7, <1>9
<1>11. s <= m /\ (\A r \in A : r.hi <= m) /\ \A r \in B : r.hi - (p.offset - Guard) <= m
  BY <1>10
<1>12. m = s \/ (\E r \in A : m = r.hi) \/ \E r \in B : m = r.hi - (p.offset - Guard)
  BY <1>10
<1>13. m = Required(b, p, s)
  BY <1>8, <1>9
<1> HIDE DEF S, H, F
<1> QED BY <1>10, <1>11, <1>12, <1>13

\* A window that clashes goes on clashing until the start has passed it.
LEMMA ClashLasts ==
  ASSUME NEW p \in Plan, NEW s \in Int, NEW x \in Int, s <= x,
         NEW r, r.lo \in Int, r.hi \in Int
  PROVE  /\ ImmediateClash(p, s, r) /\ x < r.hi => ImmediateClash(p, x, r)
         /\ FutureClash(p, s, r) /\ x < r.hi - (p.offset - Guard) => FutureClash(p, x, r)
<1>1. p.action \in Nat /\ p.offset \in Nat /\ p.stop \in Nat /\ Guard \in Nat
  BY DEF Plan
<1>2. ImmediateClash(p, s, r) /\ x < r.hi => ImmediateClash(p, x, r)
  BY <1>1 DEF ImmediateClash, Immediate, Intersects, HasFuture, Later
<1>3. FutureClash(p, s, r) /\ x < r.hi - (p.offset - Guard) => FutureClash(p, x, r)
  BY <1>1 DEF FutureClash, Future, Intersects, HasFuture
<1> QED BY <1>2, <1>3

\* A clash is with a window that ends after the start, or after the STOP's.
LEMMA ClashIsAhead ==
  ASSUME NEW p \in Plan, NEW s \in Int, NEW r, r.lo \in Int, r.hi \in Int
  PROVE  /\ ImmediateClash(p, s, r) => s < r.hi
         /\ FutureClash(p, s, r) => s < r.hi - (p.offset - Guard)
<1>1. p.action \in Nat /\ p.offset \in Nat /\ p.stop \in Nat /\ Guard \in Nat
  BY DEF Plan
<1> QED BY <1>1 DEF ImmediateClash, FutureClash, Immediate, Future, Intersects

\* Nothing between the start and the point it is pushed to is feasible.
LEMMA NothingSkipped ==
  ASSUME TypeOK, Capped, NEW b \in Bridge, NEW p \in Plan, NEW s \in Int,
         NEW x \in Int, s <= x, x < Required(b, p, s)
  PROVE  ~Feasible(b, p, x)
<1>1. PICK q \in Int : q = Required(b, p, s)
  BY RequiredPushes
<1>2. PICK r \in OthersReserved(b) : \/ (ImmediateClash(p, s, r) /\ q = r.hi)
                                    \/ (FutureClash(p, s, r) /\ q = r.hi - (p.offset - Guard))
  <2>1. q # s
    BY <1>1
  <2>2. \/ Required(b, p, s) = s
        \/ \E r \in OthersReserved(b) :
             \/ ImmediateClash(p, s, r) /\ Required(b, p, s) = r.hi
             \/ FutureClash(p, s, r) /\ Required(b, p, s) = r.hi - (p.offset - Guard)
    BY RequiredPushes
  <2> QED BY <1>1, <2>1, <2>2, Zenon
<1>3. r.lo \in Int /\ r.hi \in Int
  BY OthersAreFew
<1>4. ImmediateClash(p, x, r) \/ FutureClash(p, x, r)
  BY <1>1, <1>2, <1>3, ClashLasts
<1> QED BY <1>4 DEF Feasible

\* From the first try on, an infeasible start is pushed.
LEMMA InfeasibleIsPushed ==
  ASSUME TypeOK, Capped, NEW b \in Bridge, NEW p \in Plan, NEW s \in Int,
         FirstTry(b) <= s, ~Feasible(b, p, s)
  PROVE  s < Required(b, p, s)
<1>1. PICK q \in Int : q = Required(b, p, s)
  BY RequiredPushes
<1>2. \A o \in Bridge \ {b} : LiveDrains[o] <= s
  <2>1. LiveDrains \in [Bridge -> Nat] /\ FirstTry(b) \in Nat
    BY PruneTypes, FirstTryIs
  <2>2. \A o \in Bridge \ {b} : LiveDrains[o] <= FirstTry(b)
    BY FirstTryIs
  <2> QED BY <2>1, <2>2
<1>3. PICK r \in OthersReserved(b) : ImmediateClash(p, s, r) \/ FutureClash(p, s, r)
  BY <1>2 DEF Feasible
<1>4. r.lo \in Int /\ r.hi \in Int /\ p.offset \in Int /\ Guard \in Int
  BY OthersAreFew DEF Plan
<1>5. \/ s < r.hi /\ r.hi <= q
      \/ s < r.hi - (p.offset - Guard) /\ r.hi - (p.offset - Guard) <= q
  BY <1>1, <1>3, <1>4, ClashIsAhead, RequiredPushes
<1> QED BY <1>1, <1>4, <1>5

\* f is the function of the first n tries.
TriesRec(b, p, f, n) ==
  f = [k \in 1..n |-> IF k = 1 THEN FirstTry(b) ELSE Required(b, p, f[k - 1])]

\* Tries satisfies its recursion.
LEMMA TriesUnfold ==
  ASSUME NEW b, NEW p
  PROVE  TriesRec(b, p, Tries(b, p), MaxPasses)
<1> DEFINE T == {n \in Nat : \E f : TriesRec(b, p, f, n)}
<1>0. MaxPasses \in Nat
  BY DEF MaxPasses
<1>1. 0 \in T
  <2>1. TriesRec(b, p, [k \in 1..0 |-> 0], 0)
    BY DEF TriesRec
  <2> QED BY <2>1
<1>2. ASSUME NEW n \in 1..MaxPasses, n - 1 \in T PROVE n \in T
  <2>1. n \in Nat /\ n - 1 \in Nat
    BY <1>0
  <2>2. PICK f : TriesRec(b, p, f, n - 1)
    BY <1>2
  <2> DEFINE step(h, k) == IF k = 1 THEN FirstTry(b) ELSE Required(b, p, h[k - 1])
             g == [k \in 1..n |-> IF k = n THEN step(f, n) ELSE f[k]]
  <2>3. \A k \in 1..(n - 1) : f[k] = step(f, k)
    BY <2>2 DEF TriesRec
  <2>4. ASSUME NEW k \in 1..n PROVE g[k] = step(g, k)
    <3>1. k # 1 => g[k - 1] = f[k - 1]
      BY <2>1
    <3>2. step(g, k) = step(f, k)
      BY <3>1
    <3> QED BY <2>1, <2>3, <3>2
  <2>5. TriesRec(b, p, g, n)
    <3>1. g = [k \in 1..n |-> g[k]]
      OBVIOUS
    <3> HIDE DEF g
    <3> QED BY <2>4, <3>1 DEF TriesRec
  <2> QED BY <2>1, <2>5
<1>3. \E f : TriesRec(b, p, f, MaxPasses)
  <2> HIDE DEF T
  <2>1. \A n \in 0..MaxPasses : n \in T
    BY <1>0, <1>1, <1>2, Induction
  <2>2. MaxPasses \in T
    BY <1>0, <2>1
  <2> QED BY <2>2 DEF T
<1>4. Tries(b, p) = CHOOSE f : TriesRec(b, p, f, MaxPasses)
  BY DEF Tries, TriesRec
<1> QED BY <1>3, <1>4

\* The ends of windows that a start at s has passed: of a window of the air,
\* and, as seen from the STOP of p, of the window the STOP has to clear.
Passed(b, p, s) ==
  {e \in OthersReserved(b) \X {0, p.offset - Guard} : e[1].hi - e[2] <= s}

\* There are at most two ends for each of the AIR_STATE_CAP windows.
LEMMA PassedIsBounded ==
  ASSUME TypeOK, Capped, NEW b \in Bridge, NEW p \in Plan, NEW s
  PROVE  IsFiniteSet(Passed(b, p, s)) /\ Cardinality(Passed(b, p, s)) <= 2 * StateCap
<1> DEFINE R == OthersReserved(b)
           D == {0, p.offset - Guard}
<1>1. IsFiniteSet(R) /\ Cardinality(R) \in Nat /\ Cardinality(R) <= StateCap
  BY OthersAreFew, FS_CardinalityType
<1>2. IsFiniteSet(D) /\ Cardinality(D) \in Nat /\ Cardinality(D) <= 2
  <2>1. IsFiniteSet({0}) /\ Cardinality({0}) = 1
    BY FS_Singleton
  <2>2. /\ IsFiniteSet({0} \cup {p.offset - Guard})
        /\ Cardinality({0} \cup {p.offset - Guard})
             = IF p.offset - Guard \in {0} THEN Cardinality({0}) ELSE Cardinality({0}) + 1
    BY <2>1, FS_AddElement
  <2>3. D = {0} \cup {p.offset - Guard}
    OBVIOUS
  <2>4. Cardinality(D) = Cardinality({0}) \/ Cardinality(D) = Cardinality({0}) + 1
    BY <2>2, <2>3
  <2>5. IsFiniteSet(D)
    BY <2>2, <2>3
  <2> HIDE DEF D
  <2> QED BY <2>1, <2>4, <2>5
<1>3. IsFiniteSet(R \X D) /\ Cardinality(R \X D) = Cardinality(R) * Cardinality(D)
  <2> HIDE DEF R, D
  <2> QED BY <1>1, <1>2, FS_Product
<1>4. Cardinality(R) * Cardinality(D) <= 2 * StateCap
  <2>1. Cardinality(D) = 0 \/ Cardinality(D) = 1 \/ Cardinality(D) = 2
    BY <1>2
  <2> HIDE DEF R, D
  <2> QED BY <1>1, <1>2, <2>1
<1>5. Passed(b, p, s) \in SUBSET (R \X D)
  BY DEF Passed
<1>6. IsFiniteSet(Passed(b, p, s)) /\ Cardinality(Passed(b, p, s)) <= Cardinality(R \X D)
  <2> HIDE DEF R, D
  <2> QED BY <1>3, <1>5, FS_Subset
<1>7. Cardinality(Passed(b, p, s)) \in Nat
  BY <1>6, FS_CardinalityType
<1> HIDE DEF R, D
<1> QED BY <1>1, <1>2, <1>3, <1>4, <1>6, <1>7

\* A push passes one more end.
LEMMA PushPasses ==
  ASSUME TypeOK, Capped, NEW b \in Bridge, NEW p \in Plan, NEW s \in Int,
         s < Required(b, p, s)
  PROVE  Cardinality(Passed(b, p, s)) + 1 <= Cardinality(Passed(b, p, Required(b, p, s)))
<1>1. PICK q \in Int : q = Required(b, p, s)
  BY RequiredPushes
<1> DEFINE P == Passed(b, p, s)
           Q == Passed(b, p, q)
<1>2. \A r \in OthersReserved(b) : r.lo \in Int /\ r.hi \in Int
  BY OthersAreFew
<1>3. p.offset - Guard \in Int
  BY DEF Plan
<1>4. PICK r \in OthersReserved(b), d \in {0, p.offset - Guard} : q = r.hi - d
  <2>1. \/ q = s
        \/ \E r \in OthersReserved(b) : q = r.hi \/ q = r.hi - (p.offset - Guard)
    BY <1>1, RequiredPushes
  <2>2. PICK r \in OthersReserved(b) : q = r.hi \/ q = r.hi - (p.offset - Guard)
    BY <1>1, <2>1
  <2>3. q = r.hi - 0 \/ q = r.hi - (p.offset - Guard)
    BY <1>2, <2>2
  <2> QED BY <2>2, <2>3
<1>5. <<r, d>> \in Q /\ <<r, d>> \notin P
  BY <1>1, <1>2, <1>3, <1>4 DEF Passed
<1>6. P \subseteq Q
  BY <1>1, <1>2, <1>3 DEF Passed
<1>7. IsFiniteSet(P) /\ IsFiniteSet(Q)
  BY PassedIsBounded
<1> HIDE DEF P, Q
<1>8. Cardinality(P \cup {<<r, d>>}) = Cardinality(P) + 1
  BY <1>5, <1>7, FS_AddElement
<1>9. P \cup {<<r, d>>} \in SUBSET Q
  BY <1>5, <1>6
<1>10. Cardinality(P \cup {<<r, d>>}) <= Cardinality(Q)
  BY <1>7, <1>9, FS_Subset
<1>11. Cardinality(P) + 1 <= Cardinality(Q)
  BY <1>8, <1>10
<1> QED BY <1>1, <1>11 DEF P, Q

\* What is known of try k.
Searched(b, p, k) ==
  LET t == Tries(b, p)[k]
  IN  /\ t \in Int /\ FirstTry(b) <= t
      /\ \A x \in now..(t - 1) : ~Feasible(b, p, x)
      /\ \/ \E j \in 1..MaxPasses : Feasible(b, p, Tries(b, p)[j])
         \/ k - 1 <= Cardinality(Passed(b, p, t))

\* Every try is past everything infeasible, and past one more end each.
LEMMA TriesSearch ==
  ASSUME TypeOK, Capped, NEW b \in Bridge, NEW p \in Plan
  PROVE  \A k \in 1..MaxPasses : Searched(b, p, k)
<1> DEFINE T == {k \in Nat : k = 0 \/ Searched(b, p, k)}
<1>0. MaxPasses \in Nat /\ now \in Nat
  BY DEF MaxPasses, TypeOK, CalendarTypeOK
<1>1. PICK f : f = Tries(b, p)
  OBVIOUS
<1>2. \A k \in 1..MaxPasses : f[k] = IF k = 1 THEN FirstTry(b) ELSE Required(b, p, f[k - 1])
  <2>1. TriesRec(b, p, f, MaxPasses)
    BY <1>1, TriesUnfold
  <2> QED BY <2>1 DEF TriesRec
<1>3. 0 \in T
  OBVIOUS
<1>4. ASSUME NEW k \in 1..MaxPasses, k - 1 \in T PROVE k \in T
  <2>1. k \in Nat
    BY <1>0
  <2>2. CASE k = 1
    <3>1. f[k] = FirstTry(b)
      BY <1>2, <2>2
    <3>2. FirstTry(b) \in Nat
      BY FirstTryIs
    <3>3. ASSUME NEW x \in now..(FirstTry(b) - 1) PROVE ~Feasible(b, p, x)
      <4>1. x < FirstTry(b) /\ now <= x /\ x \in Int
        BY <1>0, <3>2
      <4>2. PICK o \in Bridge \ {b} : FirstTry(b) = LiveDrains[o]
        BY <1>0, <3>2, <4>1, FirstTryIs
      <4>3. ~(LiveDrains[o] <= x)
        BY <3>2, <4>1, <4>2
      <4> QED BY <4>2, <4>3 DEF Feasible
    <3>4. 0 <= Cardinality(Passed(b, p, f[k]))
      BY PassedIsBounded, FS_CardinalityType
    <3>5. Searched(b, p, k)
      BY <1>1, <2>2, <3>1, <3>2, <3>3, <3>4 DEF Searched
    <3> QED BY <2>1, <3>5
  <2>3. CASE k # 1
    <3>1. k - 1 \in 1..MaxPasses /\ Searched(b, p, k - 1)
      BY <1>0, <1>4, <2>3
    <3>2. PICK s : s = f[k - 1]
      OBVIOUS
    <3>3. /\ s \in Int /\ FirstTry(b) <= s
          /\ \A x \in now..(s - 1) : ~Feasible(b, p, x)
          /\ \/ \E j \in 1..MaxPasses : Feasible(b, p, f[j])
             \/ (k - 1) - 1 <= Cardinality(Passed(b, p, s))
      BY <1>1, <3>1, <3>2 DEF Searched
    <3>4. f[k] = Required(b, p, s)
      BY <1>2, <2>3, <3>2
    <3>5. PICK t \in Int : t = Required(b, p, s) /\ s <= t
      BY <3>3, RequiredPushes
    <3>6. FirstTry(b) \in Nat
      BY FirstTryIs
    <3>7. ASSUME NEW x \in now..(t - 1) PROVE ~Feasible(b, p, x)
      <4>1. x \in Int /\ now <= x /\ x < t
        BY <1>0, <3>5
      <4>2. CASE x < s
        BY <1>0, <3>3, <4>1, <4>2
      <4>3. CASE s <= x
        BY <3>3, <3>5, <4>1, <4>3, NothingSkipped
      <4> QED BY <3>3, <4>1, <4>2, <4>3
    <3>8. \/ \E j \in 1..MaxPasses : Feasible(b, p, f[j])
          \/ k - 1 <= Cardinality(Passed(b, p, t))
      <4>1. SUFFICES ASSUME ~Feasible(b, p, s), (k - 1) - 1 <= Cardinality(Passed(b, p, s))
                     PROVE  k - 1 <= Cardinality(Passed(b, p, t))
        BY <3>1, <3>2, <3>3
      <4>2. Cardinality(Passed(b, p, s)) + 1 <= Cardinality(Passed(b, p, t))
        BY <3>3, <3>5, <4>1, InfeasibleIsPushed, PushPasses
      <4>3. Cardinality(Passed(b, p, s)) \in Nat /\ Cardinality(Passed(b, p, t)) \in Nat
        BY PassedIsBounded, FS_CardinalityType
      <4> QED BY <2>1, <4>1, <4>2, <4>3
    <3>9. FirstTry(b) <= t
      BY <3>3, <3>5, <3>6
    <3>10. Searched(b, p, k)
      BY <1>1, <3>4, <3>5, <3>7, <3>8, <3>9 DEF Searched
    <3> QED BY <2>1, <3>10
  <2> QED BY <2>2, <2>3
<1>5. \A k \in 0..MaxPasses : k \in T
  <2> HIDE DEF T
  <2> QED BY <1>0, <1>3, <1>4, Induction
<1> QED BY <1>0, <1>5

\* The bound on the passes is never what ends the loop.
LEMMA TriesSettle ==
  ASSUME TypeOK, Capped, NEW b \in Bridge, NEW p \in Plan
  PROVE  \E k \in 1..MaxPasses : Feasible(b, p, Tries(b, p)[k])
<1>1. SUFFICES ASSUME ~\E k \in 1..MaxPasses : Feasible(b, p, Tries(b, p)[k]) PROVE FALSE
  OBVIOUS
<1>2. MaxPasses \in 1..MaxPasses /\ MaxPasses = 2 * StateCap + 1 /\ StateCap \in Nat
  BY DEF MaxPasses
<1>3. PICK t : t = Tries(b, p)[MaxPasses]
  OBVIOUS
<1>4. Searched(b, p, MaxPasses)
  BY <1>2, TriesSearch
<1>5. t \in Int /\ FirstTry(b) <= t /\ MaxPasses - 1 <= Cardinality(Passed(b, p, t))
  BY <1>1, <1>3, <1>4 DEF Searched
<1>6. ~Feasible(b, p, t)
  BY <1>1, <1>2, <1>3
<1>7. Cardinality(Passed(b, p, t)) + 1 <= Cardinality(Passed(b, p, Required(b, p, t)))
  BY <1>5, <1>6, InfeasibleIsPushed, PushPasses
<1>8. /\ Cardinality(Passed(b, p, Required(b, p, t))) \in Nat
      /\ Cardinality(Passed(b, p, Required(b, p, t))) <= 2 * StateCap
      /\ Cardinality(Passed(b, p, t)) \in Nat
  BY PassedIsBounded, FS_CardinalityType
<1> QED BY <1>2, <1>5, <1>7, <1>8

\* The decision of one command, given a calendar within its cap.
LEMMA DecisionIsLeast ==
  ASSUME TypeOK, Capped, NEW b \in Bridge, NEW p \in Plan
  PROVE  LET d == Decision(b, p)
         IN  /\ d.kind # "fail_open"
             /\ d.earliest \in Int /\ now <= d.earliest
             /\ d.kind = "wait" /\ OthersPending(b) = {} =>
                  /\ Feasible(b, p, d.earliest)
                  /\ \A s \in now..(d.earliest - 1) : ~Feasible(b, p, s)
             /\ d.kind = "wait" /\ OthersPending(b) # {} =>
                  \E q \in OthersPending(b) : d.earliest = q.expires
<1> DEFINE t == Tries(b, p)
           settled == {k \in 1..MaxPasses : Feasible(b, p, t[k])}
           d == Decision(b, p)
<1>0. now \in Nat /\ MaxPasses \in Nat
  BY DEF TypeOK, CalendarTypeOK, MaxPasses
<1>1. settled # {} /\ settled \in SUBSET Nat
  BY <1>0, TriesSettle
<1>2. PICK m : m = Soonest(settled)
  OBVIOUS
<1>3. m \in settled
  <2> HIDE DEF settled
  <2> QED BY <1>1, <1>2, SoonestIsLeast
<1>4. m \in 1..MaxPasses /\ Feasible(b, p, t[m]) /\ Searched(b, p, m)
  BY <1>3, TriesSearch
<1>5. FirstTry(b) \in Nat /\ now <= FirstTry(b)
  BY FirstTryIs
<1>6. /\ t[m] \in Int /\ now <= t[m]
      /\ \A x \in now..(t[m] - 1) : ~Feasible(b, p, x)
  <2>1. PICK u : u = t[m]
    OBVIOUS
  <2>2. u \in Int /\ FirstTry(b) <= u /\ \A x \in now..(u - 1) : ~Feasible(b, p, x)
    BY <1>4, <2>1 DEF Searched
  <2> HIDE DEF t
  <2>3. now <= u
    BY <1>0, <1>5, <2>2
  <2> QED BY <2>1, <2>2, <2>3
<1>7. CASE closed \/ Cardinality(online) < MinBridges
  <2>1. d = [kind |-> "off", earliest |-> now]
    BY <1>7 DEF Decision
  <2> QED BY <1>0, <2>1
<1>8. CASE ~(closed \/ Cardinality(online) < MinBridges) /\ OthersPending(b) # {}
  <2> DEFINE X == {q.expires : q \in OthersPending(b)}
  <2>1. d = [kind |-> "wait", earliest |-> Soonest(X)]
    BY <1>8 DEF Decision
  <2>2. \A q \in OthersPending(b) : q.expires \in Nat /\ now <= q.expires
    <3>1. LivePending \in SUBSET PendingPlan
      BY PruneTypes
    <3>2. \A q \in LivePending : q.expires \in Nat /\ now < q.expires
      BY <3>1 DEF LivePending, PendingPlan
    <3> QED BY <1>0, <3>2 DEF OthersPending
  <2>3. X \in SUBSET Nat /\ X # {}
    BY <1>8, <2>2
  <2>4. PICK e : e = Soonest(X)
    OBVIOUS
  <2>5. e \in X
    <3> HIDE DEF X
    <3> QED BY <2>3, <2>4, SoonestIsLeast
  <2>6. PICK q \in OthersPending(b) : e = q.expires
    BY <2>5
  <2>7. d = [kind |-> "wait", earliest |-> e]
    BY <2>1, <2>4
  <2> QED BY <1>8, <2>2, <2>6, <2>7
<1>9. CASE /\ ~(closed \/ Cardinality(online) < MinBridges) /\ OthersPending(b) = {}
           /\ Feasible(b, p, now)
  <2>1. d = [kind |-> "go", earliest |-> now]
    BY <1>9 DEF Decision
  <2> QED BY <1>0, <2>1
<1>10. CASE /\ ~(closed \/ Cardinality(online) < MinBridges) /\ OthersPending(b) = {}
            /\ ~Feasible(b, p, now)
  <2>1. d = [kind |-> "wait", earliest |-> t[m]]
    BY <1>1, <1>2, <1>10 DEF Decision
  <2>2. PICK u : u = t[m]
    OBVIOUS
  <2> HIDE DEF t, d
  <2> QED BY <1>4, <1>6, <1>10, <2>1, <2>2 DEF t, d
<1> QED BY <1>7, <1>8, <1>9, <1>10

----------------------------------------------------------------------------
(* The windows. *)

\* Records carry the boot the bridge still shows.
BootsAgree ==
  /\ \A q \in pending : q.boot = boot[q.bridge] /\ q.boot # NoBoot
  /\ \A r \in reservations : r.boot = boot[r.bridge] /\ r.boot # NoBoot

\* A window belongs to the bridge of its command, which has no other.
Keyed ==
  /\ \A r \in reservations : r.bridge = on[r.cmd]
  /\ \A r, q \in reservations : r.cmd = q.cmd => r = q

\* The window of an owed STOP, padded by the guard on both sides.
Padded(t) == [lo |-> StopTrain(t).lo - Guard, hi |-> StopTrain(t).hi + Guard]

\* The STOP that t owes is on the calendar until it has been sent.
Reserved(t) ==
  Owes(t) /\ t \notin lost \cup evicted /\ now < StopTrain(t).hi =>
    \E r \in reservations :
      r.cmd = t /\ r.bridge = on[t] /\ r.lo = Padded(t).lo /\ r.hi = Padded(t).hi

\* An admission of u at instant a keeps clear of the STOP of t.
Apart(t, u, a) ==
  \/ StopTrain(t).hi <= a
  \/ /\ ~Intersects(Immediate(PlanOf[u], a), Padded(t))
     /\ HasFuture(PlanOf[u]) => ~Intersects(Future(PlanOf[u], a), Padded(t))

\* Whoever was cleared with t before it was cleared against the STOP t owes.
Spared(t, u) ==
  t \in seen[u] \ (lost \cup evicted) /\ u \notin bypass /\ on[t] # on[u] =>
    /\ stage[t] \notin {"published", "on_air", "adrift"}
    /\ Owes(t) => Apart(t, u, admitAt[u])

\* The inductive invariant under the STOP windows and the decision.
WindowInv ==
  /\ AirInv
  /\ Capped
  /\ BootsAgree
  /\ Keyed
  /\ \A t \in Command : Reserved(t)
  /\ \A t, u \in Command : Spared(t, u)

\* What every step does to a command: once its train has gone it stays on the
\* record as it was, and only a start that was reported or lost track of is new.
Flow ==
  /\ on' = on /\ now' >= now /\ lost \subseteq lost' /\ evicted \subseteq evicted'
  /\ \A t \in Command :
       /\ stage[t] \in {"started", "gone"} =>
            /\ stage'[t] \in {stage[t], "gone"} /\ rfAt'[t] = rfAt[t]
            /\ flushAt[t] # Never => flushAt'[t] # Never
       /\ stage'[t] = "started" /\ stage[t] # "started" /\ t \notin lost' => StartedStatus(t)

\* By action: only a start, its report and a give-up change more than a stage.
LEMMA FlowStep ==
  ASSUME AirInv, [Next]_vars
  PROVE  Flow
<1>0. /\ stage \in [Command -> Stages] /\ now \in Nat
      /\ rfAt \in [Command -> Nat \cup {Never}] /\ flushAt \in [Command -> Nat \cup {Never}]
      /\ \A t \in Command : stage[t] = "adrift" => t \in lost
  <2>1. TypeOK /\ \A t \in Command : Dated(t)
    BY DEF AirInv
  <2>2. \A t \in Command : stage[t] = "adrift" => t \in lost
    BY <2>1 DEF Dated
  <2> QED BY <2>1, <2>2 DEF TypeOK, CalendarTypeOK
\* A step that leaves the dates alone and starts nothing unreported.
<1>a. ASSUME on' = on, now' = now, lost \subseteq lost', evicted' = evicted,
             rfAt' = rfAt, flushAt' = flushAt,
             \A t \in Command : \/ stage'[t] = stage[t]
                                \/ stage[t] \notin {"started", "gone"} /\ stage'[t] # "started"
                                \/ stage'[t] = "gone"
      PROVE  Flow
  BY <1>0, <1>a DEF Flow
<1>1. ASSUME NEW c \in Command, Request(c) PROVE Flow
  BY <1>0, <1>1, <1>a DEF Request, calendarVars, history, Goto
<1>2. ASSUME NEW c \in Command, Attempt(c) \/ AttemptUnasked(c) PROVE Flow
  <2>1. /\ stage[c] \in {"asking", "held"}
        /\ UNCHANGED <<now, on, rfAt, flushAt, evicted>>
    BY <1>2 DEF Attempt, AttemptUnasked, Runnable
  <2>2. (\E free, planned \in BOOLEAN : Publish(c, free, planned)) \/ \E e : Hold(c, e)
    BY <1>2 DEF Attempt, AttemptUnasked
  <2>3. /\ \E s \in {"gone", "published", "held"} : stage' = [stage EXCEPT ![c] = s]
        /\ lost \subseteq lost'
    BY <2>2 DEF Publish, Refuse, Transmit, Hold, Goto, LoseExpired
  <2> QED BY <1>0, <1>a, <2>1, <2>3
<1>3. ASSUME NEW c \in Command, Retire(c) \/ Rejected(c) PROVE Flow
  BY <1>0, <1>3, <1>a DEF Retire, Rejected, history, Goto
<1>4. ASSUME NEW c \in Command, GiveUp(c) PROVE Flow
  <2>1. /\ stage[c] \in {"published", "on_air"} /\ c \in lost' /\ lost \subseteq lost'
        /\ \E s \in {"adrift", "started"} : stage' = [stage EXCEPT ![c] = s]
        /\ UNCHANGED <<now, on, rfAt, flushAt, evicted>>
    BY <1>4 DEF GiveUp, Goto
  <2> QED BY <1>0, <2>1 DEF Flow
<1>5. ASSUME NEW c \in Command, StartRf(c) PROVE Flow
  <2>1. /\ stage[c] \in {"published", "adrift"} /\ rfAt' = [rfAt EXCEPT ![c] = now]
        /\ stage' = [stage EXCEPT ![c] = IF stage[c] = "published" THEN "on_air" ELSE "started"]
        /\ UNCHANGED <<now, on, lost, flushAt, evicted>>
    BY <1>5 DEF StartRf, Goto, calendarVars
  <2> QED BY <1>0, <2>1 DEF Flow
<1>6. ASSUME NEW c \in Command, StartedStatus(c) PROVE Flow
  <2>1. /\ stage[c] = "on_air" /\ stage' = [stage EXCEPT ![c] = "started"]
        /\ lost \subseteq lost' /\ evicted \subseteq evicted'
        /\ UNCHANGED <<now, on, rfAt, flushAt>>
    BY <1>6 DEF StartedStatus, Goto, LoseExpired
  <2>2. \A t \in Command : stage'[t] = "started" /\ stage[t] # "started" => StartedStatus(t)
    BY <1>0, <1>6, <2>1
  <2> QED BY <1>0, <2>1, <2>2 DEF Flow
<1>7. ASSUME NEW c \in Command, DisplacedStatus(c) PROVE Flow
  <2>1. /\ UNCHANGED <<now, on, rfAt, evicted>> /\ lost \subseteq lost'
        /\ \/ stage' = [stage EXCEPT ![c] = "gone"] /\ flushAt' = flushAt
           \/ stage' = stage /\ flushAt' = [flushAt EXCEPT ![c] = now]
    BY <1>7 DEF DisplacedStatus, Goto, LoseExpired
  <2>2. \A t \in Command : flushAt[t] # Never => flushAt'[t] # Never
    BY <1>0, <2>1 DEF Never
  <2> QED BY <1>0, <2>1, <2>2 DEF Flow
<1>8. ASSUME NEW c \in Command, DisarmedStatus(c) PROVE Flow
  BY <1>0, <1>8, <1>a DEF DisarmedStatus, Goto, LoseExpired
<1>9. ASSUME NEW b \in Bridge, BridgeChange(b) PROVE Flow
  BY <1>0, <1>9, <1>a DEF BridgeChange
<1>10. CASE Close
  BY <1>0, <1>10, <1>a DEF Close
<1>11. CASE Tick
  BY <1>0, <1>11 DEF Tick, hub, history, Flow
<1>12. CASE UNCHANGED vars
  BY <1>0, <1>12 DEF vars, calendarVars, hub, history, Flow
<1> QED
  BY <1>1, <1>2, <1>3, <1>4, <1>5, <1>6, <1>7, <1>8, <1>9, <1>10, <1>11, <1>12 DEF Next

\* What a step may do to the windows, but for the one that inserts one: drop
\* some, never that of a STOP that is still owed and whose bridge has not rebooted.
Retains ==
  /\ reservations' \subseteq reservations
  /\ \A t \in Command :
       Owes(t) /\ Owes(t)' /\ t \notin lost' /\ now < StopTrain(t).hi =>
         \A r \in reservations :
           /\ r.cmd = t /\ r.bridge = on[t] /\ r.hi > now
           /\ r.boot = boot[r.bridge] /\ r.boot # NoBoot
           => r \in reservations'

\* By action: a prune, a disarm, a displacement and a bridge change may drop a
\* window, and only a reported start inserts one.
LEMMA WindowFlow ==
  ASSUME AirInv, [Next]_vars
  PROVE  Retains \/ \E c \in Command : StartedStatus(c)
<1>0. /\ stage \in [Command -> Stages] /\ now \in Nat /\ boot \in [Bridge -> Nat]
      /\ on \in [Command -> Bridge]
      /\ rfAt \in [Command -> Nat \cup {Never}] /\ flushAt \in [Command -> Nat \cup {Never}]
      /\ \A t \in Command : Owes(t) => t \in Published
      /\ reservations \in SUBSET Reservation
  <2>1. TypeOK /\ \A t \in Command : Dated(t)
    BY DEF AirInv
  <2>2. \A t \in Command : Owes(t) => t \in Published
    BY <2>1 DEF Dated, Owes, Published, Admitted
  <2> QED BY <2>1, <2>2 DEF TypeOK, CalendarTypeOK
\* Nothing is removed but what has ended.
<1>a. ASSUME reservations' = reservations \/ reservations' = LiveReservations
      PROVE  Retains
  BY <1>a DEF Retains, LiveReservations
\* The windows of one command are removed, which owes nothing any more.
<1>b. ASSUME NEW c \in Command, reservations' = WithoutKey(LiveReservations, on[c], c), ~Owes(c)'
      PROVE  Retains
  <2>1. \A r \in reservations : r.cmd # c /\ r.hi > now => r \in reservations'
    BY <1>b DEF WithoutKey, LiveReservations
  <2>2. reservations' \subseteq reservations
    BY <1>b DEF WithoutKey, LiveReservations
  <2> QED BY <1>b, <2>1, <2>2 DEF Retains
<1>1. ASSUME NEW c \in Command, Request(c) PROVE Retains
  BY <1>1, <1>a DEF Request, calendarVars
<1>2. ASSUME NEW c \in Command, Attempt(c) \/ AttemptUnasked(c) PROVE Retains
  <2>1. (\E free, planned \in BOOLEAN : Publish(c, free, planned)) \/ \E e : Hold(c, e)
    BY <1>2 DEF Attempt, AttemptUnasked
  <2>2. reservations' = LiveReservations
    BY <2>1 DEF Publish, Refuse, Transmit, Hold, DecideAndSleep, PruneOnly, Provision
  <2> QED BY <2>2, <1>a
<1>3. ASSUME NEW c \in Command, Retire(c) \/ Rejected(c) \/ GiveUp(c) PROVE Retains
  BY <1>3, <1>a DEF Retire, Rejected, GiveUp, ReleasePending
<1>4. ASSUME NEW c \in Command, StartRf(c) PROVE Retains
  BY <1>4, <1>a DEF StartRf, calendarVars
<1>5. ASSUME NEW c \in Command, DisplacedStatus(c) PROVE Retains
  <2>1. reservations' = WithoutKey(LiveReservations, on[c], c)
    BY <1>5 DEF DisplacedStatus, Displaced
  <2>2. stage'[c] = "gone" \/ flushAt'[c] = now
    BY <1>0, <1>5 DEF DisplacedStatus, Goto
  <2>3. ~Owes(c)'
    BY <1>0, <2>2 DEF Owes, Never
  <2> QED BY <1>b, <2>1, <2>3
<1>6. ASSUME NEW c \in Command, DisarmedStatus(c) PROVE Retains
  <2>1. reservations' = WithoutKey(LiveReservations, on[c], c)
    BY <1>6 DEF DisarmedStatus, Disarmed
  <2>2. ~Owes(c)'
    BY <1>0, <1>6 DEF DisarmedStatus, Goto, Owes
  <2> QED BY <1>b, <2>1, <2>2
<1>7. ASSUME NEW b \in Bridge, BridgeChange(b) PROVE Retains
  <2>1. CASE /\ UpdateBridges(IF b \in online THEN online \ {b} ELSE online \cup {b}, boot)
    BY <2>1 DEF UpdateBridges, SameBoot, Retains, LiveReservations
  <2>2. CASE /\ UpdateBridges(online, [boot EXCEPT ![b] = @ + 1])
             /\ stage' = [c \in Command |-> IF CutOff(c, b) THEN "gone" ELSE stage[c]]
    <3>1. /\ reservations' = {r \in LiveReservations : SameBoot(r, [boot EXCEPT ![b] = @ + 1])}
      BY <2>2 DEF UpdateBridges
    <3>2. ASSUME NEW t \in Command, Owes(t), Owes(t)', now < StopTrain(t).hi,
                 NEW r \in reservations, r.cmd = t, r.bridge = on[t], r.hi > now,
                 r.boot = boot[r.bridge], r.boot # NoBoot
          PROVE  r \in reservations'
      <4>1. ~CutOff(t, b)
        BY <2>2, <3>2 DEF Owes
      <4>2. on[t] # b
        BY <3>2, <4>1 DEF CutOff
      <4>3. SameBoot(r, [boot EXCEPT ![b] = @ + 1])
        BY <1>0, <3>2, <4>2 DEF SameBoot
      <4> QED BY <3>1, <3>2, <4>3 DEF LiveReservations
    <3>3. reservations' \subseteq reservations
      BY <3>1 DEF LiveReservations
    <3> QED BY <3>2, <3>3 DEF Retains
  <2> QED BY <1>7, <2>1, <2>2 DEF BridgeChange
<1>8. CASE Close
  BY <1>0, <1>8 DEF Close, CloseCalendar, Retains
<1>9. CASE Tick \/ UNCHANGED vars
  BY <1>9, <1>a DEF Tick, calendar, vars, calendarVars
<1> QED
  BY <1>1, <1>2, <1>3, <1>4, <1>5, <1>6, <1>7, <1>8, <1>9 DEF Next

\* What _insert_reservation keeps.
LEMMA InsertedKeeps ==
  ASSUME NEW R, IsFiniteSet(R), Cardinality(R) <= StateCap, NEW w, NEW S \in Inserted(R, w)
  PROVE  /\ IsFiniteSet(S) /\ Cardinality(S) <= StateCap
         /\ S \subseteq WithoutKey(R, w.bridge, w.cmd) \cup {w}
         /\ Cardinality(R) < StateCap => S = WithoutKey(R, w.bridge, w.cmd) \cup {w}
<1> DEFINE W == WithoutKey(R, w.bridge, w.cmd)
           all == W \cup {w}
<1>1. W \in SUBSET R
  BY DEF WithoutKey
<1>2. IsFiniteSet(W) /\ Cardinality(W) <= Cardinality(R)
  BY <1>1, FS_Subset
<1>3. Cardinality(W) \in Nat /\ Cardinality(R) \in Nat /\ StateCap \in Nat
  BY <1>2, FS_CardinalityType
<1>4. IsFiniteSet(all) /\ Cardinality(all) \in Nat /\ Cardinality(all) <= Cardinality(W) + 1
  <2> HIDE DEF W
  <2>1. IsFiniteSet(all) /\ Cardinality(all) = IF w \in W THEN Cardinality(W) ELSE Cardinality(W) + 1
    BY <1>2, FS_AddElement
  <2>2. Cardinality(all) = Cardinality(W) \/ Cardinality(all) = Cardinality(W) + 1
    BY <2>1
  <2> HIDE DEF all
  <2> QED BY <1>3, <2>1, <2>2
<1>5. S \in IF Cardinality(all) <= StateCap
              THEN {all}
              ELSE {all \ {f} : f \in {x \in all : \A y \in all \ {x} : ~Nearer(x, y)}}
  BY DEF Inserted
<1> HIDE DEF W, all
<1>6. CASE Cardinality(all) <= StateCap
  <2>1. S = all
    BY <1>5, <1>6
  <2> QED BY <1>4, <1>6, <2>1 DEF W, all
<1>7. CASE ~(Cardinality(all) <= StateCap)
  <2>1. PICK f \in all : S = all \ {f}
    BY <1>5, <1>7
  <2>2. IsFiniteSet(S) /\ Cardinality(S) = Cardinality(all) - 1
    BY <1>4, <2>1, FS_RemoveElement
  <2>3. Cardinality(S) <= StateCap /\ ~(Cardinality(R) < StateCap)
    BY <1>2, <1>3, <1>4, <1>7, <2>2
  <2> QED BY <2>1, <2>2, <2>3 DEF W, all
<1> QED BY <1>6, <1>7

\* w is the window of the STOP of c.
WindowOf(w, c) ==
  /\ w \in Reservation /\ w.cmd = c /\ w.bridge = on[c]
  /\ w.lo = Padded(c).lo /\ w.hi = Padded(c).hi
  /\ w.boot = boot[on[c]] /\ w.boot # NoBoot

\* A reported start: nothing is inserted, or the window of the STOP it owes.
LEMMA StartedWindow ==
  ASSUME AirInv, BootsAgree, NEW c \in Command, StartedStatus(c)
  PROVE  \/ /\ reservations' = LiveReservations
            /\ ~(HasFuture(PlanOf[c]) /\ c \notin lost' /\ now < StopTrain(c).hi)
         \/ \E w : WindowOf(w, c) /\ reservations' \in Inserted(LiveReservations, w)
<1>0. /\ now \in Nat /\ on[c] \in Bridge /\ LivePending \in SUBSET PendingPlan
      /\ rfAt[c] \in Nat /\ PlanOf[c] \in Plan /\ Guard \in Nat /\ Routed
      /\ c \notin lost => \E q \in pending : q.cmd = c
      /\ Expired \subseteq lost' /\ lost \subseteq lost' /\ boot[on[c]] \in Nat
  <2>1. TypeOK /\ Dated(c) /\ Tracked(c) /\ Routed /\ stage[c] = "on_air"
    BY DEF AirInv, StartedStatus
  <2>2. rfAt[c] # Never /\ (c \notin lost => \E q \in pending : q.cmd = c)
    BY <2>1 DEF Dated, Tracked
  <2>3. Expired \subseteq lost' /\ lost \subseteq lost'
    BY DEF StartedStatus, LoseExpired
  <2> QED BY <2>1, <2>2, <2>3, PruneTypes DEF TypeOK, CalendarTypeOK
<1> DEFINE mine == {q \in LivePending : q.bridge = on[c] /\ q.cmd = c}
           imm == Immediate(PlanOf[c], rfAt[c])
           fut == Future(PlanOf[c], rfAt[c])
<1>1. PICK k \in {NoBoot, boot[on[c]]} : Started(on[c], c, rfAt[c], k)
  BY DEF StartedStatus
<1>2. /\ fut.lo = Padded(c).lo /\ fut.hi = Padded(c).hi
      /\ fut.lo \in Int /\ fut.hi \in Int /\ fut.hi = StopTrain(c).hi + Guard
      /\ StopTrain(c).hi \in Int
  BY <1>0 DEF Future, Padded, StopTrain, Plan
<1>3. CASE mine = {}
  <2>1. reservations' = LiveReservations
    BY <1>1, <1>3 DEF Started, PruneOnly
  <2>2. c \in lost'
    <3>1. SUFFICES ASSUME c \notin lost' PROVE FALSE
      OBVIOUS
    <3>2. PICK q \in pending : q.cmd = c
      BY <1>0, <3>1
    <3>3. q \in LivePending /\ q.bridge = on[c]
      BY <1>0, <3>1, <3>2 DEF Expired, Routed
    <3> QED BY <1>3, <3>2, <3>3
  <2> QED BY <2>1, <2>2
<1>4. CASE mine # {}
  <2>1. PICK q \in mine :
          LET window == [bridge |-> on[c], cmd |-> c,
                         boot |-> IF k = NoBoot THEN q.boot ELSE k,
                         lo |-> Future(q.plan, rfAt[c]).lo, hi |-> Future(q.plan, rfAt[c]).hi,
                         stop |-> q.plan.stop]
          IN  IF HasFuture(q.plan) /\ Future(q.plan, rfAt[c]).hi > now
                THEN reservations' \in Inserted(LiveReservations, window)
                ELSE reservations' = LiveReservations
    BY <1>1, <1>4 DEF Started
  <2>2. q.plan = PlanOf[c] /\ q.boot = boot[on[c]] /\ q.boot # NoBoot
    BY <1>0 DEF Routed, BootsAgree, LivePending
  <2> DEFINE w == [bridge |-> on[c], cmd |-> c,
                   boot |-> IF k = NoBoot THEN q.boot ELSE k,
                   lo |-> fut.lo, hi |-> fut.hi, stop |-> PlanOf[c].stop]
  <2>3. IF HasFuture(PlanOf[c]) /\ fut.hi > now
          THEN reservations' \in Inserted(LiveReservations, w)
          ELSE reservations' = LiveReservations
    BY <2>1, <2>2
  <2>4. w.boot = boot[on[c]] /\ w.boot # NoBoot
    BY <1>1, <2>2
  <2>5. WindowOf(w, c)
    BY <1>0, <1>2, <2>4 DEF WindowOf, Reservation, Plan
  <2> HIDE DEF w, fut
  <2>6. CASE HasFuture(PlanOf[c]) /\ fut.hi > now
    BY <2>3, <2>5, <2>6
  <2>7. CASE ~(HasFuture(PlanOf[c]) /\ fut.hi > now)
    <3>1. now < StopTrain(c).hi => fut.hi > now
      BY <1>0, <1>2
    <3> QED BY <2>3, <2>7, <3>1
  <2> QED BY <2>6, <2>7
<1> QED BY <1>3, <1>4

\* The calendar never holds more windows than AIR_STATE_CAP.
LEMMA CappedStep ==
  ASSUME AirInv, BootsAgree, Capped, [Next]_vars
  PROVE  Capped'
<1>1. Cardinality(reservations) \in Nat /\ StateCap \in Nat
  BY FS_CardinalityType DEF Capped
<1>2. ASSUME NEW S \in SUBSET reservations PROVE IsFiniteSet(S) /\ Cardinality(S) <= StateCap
  <2>1. IsFiniteSet(S) /\ Cardinality(S) <= Cardinality(reservations)
    BY FS_Subset DEF Capped
  <2> QED BY <1>1, <2>1, FS_CardinalityType DEF Capped
<1>3. CASE Retains
  BY <1>2, <1>3 DEF Retains, Capped
<1>4. ASSUME NEW c \in Command, StartedStatus(c) PROVE Capped'
  <2>1. IsFiniteSet(LiveReservations) /\ Cardinality(LiveReservations) <= StateCap
    BY <1>2 DEF LiveReservations
  <2>2. \/ reservations' = LiveReservations
        \/ \E w : reservations' \in Inserted(LiveReservations, w)
    BY <1>4, StartedWindow
  <2> QED BY <2>1, <2>2, InsertedKeeps DEF Capped
<1> QED BY <1>3, <1>4, WindowFlow

\* A window inserted for c replaces the one c had.
LEMMA KeyedStep ==
  ASSUME AirInv, BootsAgree, Capped, Keyed, [Next]_vars
  PROVE  Keyed'
<1>0. on' = on
  BY FlowStep DEF Flow
<1>1. CASE reservations' \subseteq reservations
  BY <1>0, <1>1 DEF Keyed
<1>2. ASSUME NEW c \in Command, NEW w, WindowOf(w, c),
             reservations' \in Inserted(LiveReservations, w)
      PROVE  Keyed'
  <2>1. LiveReservations \in SUBSET reservations
    BY DEF LiveReservations
  <2>2. IsFiniteSet(LiveReservations) /\ Cardinality(LiveReservations) <= StateCap
    <3>1. IsFiniteSet(LiveReservations) /\ Cardinality(LiveReservations) <= Cardinality(reservations)
      BY <2>1, FS_Subset DEF Capped
    <3> QED BY <3>1, FS_CardinalityType DEF Capped
  <2>3. reservations' \subseteq WithoutKey(LiveReservations, w.bridge, w.cmd) \cup {w}
    BY <1>2, <2>2, InsertedKeeps
  <2>4. w.cmd = c /\ w.bridge = on[c]
    BY <1>2 DEF WindowOf
  <2>5. \A r \in reservations' : r = w \/ (r \in reservations /\ r.cmd # c)
    BY <2>1, <2>3, <2>4 DEF WithoutKey, Keyed
  <2> QED BY <1>0, <2>4, <2>5 DEF Keyed
<1>3. ASSUME NEW c \in Command, StartedStatus(c) PROVE Keyed'
  <2>1. \/ reservations' = LiveReservations
        \/ \E w : WindowOf(w, c) /\ reservations' \in Inserted(LiveReservations, w)
    BY <1>3, StartedWindow
  <2>2. LiveReservations \subseteq reservations
    BY DEF LiveReservations
  <2> QED BY <1>1, <1>2, <2>1, <2>2
<1> QED BY <1>1, <1>3, WindowFlow DEF Retains

\* A record made now carries the boot the bridge shows; a reboot drops the others.
LEMMA BootsAgreeStep ==
  ASSUME AirInv, BootsAgree, Capped, [Next]_vars
  PROVE  BootsAgree'
<1>0. boot \in [Bridge -> Nat] /\ \A c \in Command : on[c] \in Bridge
  BY DEF AirInv, TypeOK, CalendarTypeOK
<1>a. ASSUME boot' = boot, pending' \subseteq pending, reservations' \subseteq reservations
      PROVE  BootsAgree'
  BY <1>a DEF BootsAgree
<1>b. LivePending \subseteq pending /\ LiveReservations \subseteq reservations
  BY DEF LivePending, LiveReservations
<1>1. ASSUME NEW c \in Command, Request(c) \/ Retire(c) \/ StartRf(c) PROVE BootsAgree'
  BY <1>1, <1>a DEF Request, Retire, StartRf, calendarVars
<1>2. ASSUME NEW c \in Command, Attempt(c) \/ AttemptUnasked(c) PROVE BootsAgree'
  <2>0. boot' = boot
    BY <1>2 DEF Attempt, AttemptUnasked
  <2>1. (\E free, planned \in BOOLEAN : Publish(c, free, planned)) \/ \E e : Hold(c, e)
    BY <1>2 DEF Attempt, AttemptUnasked
  <2>2. CASE Refuse(c) \/ \E e : Hold(c, e)
    BY <2>0, <2>2, <1>a, <1>b DEF Refuse, Hold, DecideAndSleep
  <2>3. ASSUME NEW free \in BOOLEAN, NEW planned \in BOOLEAN, Transmit(c, free, planned)
        PROVE  BootsAgree'
    <3>1. boot[on[c]] # NoBoot /\ (PruneOnly \/ Provision(on[c], c, PlanOf[c], StartTTL))
      BY <2>3 DEF Transmit
    <3>2. CASE PruneOnly
      BY <2>0, <3>2, <1>a, <1>b DEF PruneOnly
    <3>3. CASE Provision(on[c], c, PlanOf[c], StartTTL)
      <4>1. reservations' \subseteq reservations
        BY <3>3, <1>b DEF Provision
      <4>2. \A q \in pending' : q \in pending \/ (q.bridge = on[c] /\ q.boot = boot[on[c]])
        <5> DEFINE new == [bridge |-> on[c], cmd |-> c, boot |-> boot[on[c]],
                           plan |-> PlanOf[c], expires |-> now + StartTTL]
        <5>1. \A q \in pending' : q \in LivePending \/ q = new
          BY <3>3 DEF Provision, WithoutKey
        <5>2. new.bridge = on[c] /\ new.boot = boot[on[c]]
          OBVIOUS
        <5> HIDE DEF new
        <5> QED BY <1>b, <5>1, <5>2
      <4> QED BY <2>0, <3>1, <4>1, <4>2 DEF BootsAgree
    <3> QED BY <3>1, <3>2, <3>3
  <2> QED BY <2>1, <2>2, <2>3 DEF Publish
<1>3. ASSUME NEW c \in Command, GiveUp(c) \/ Rejected(c) PROVE BootsAgree'
  BY <1>3, <1>a DEF GiveUp, Rejected, ReleasePending, WithoutKey
<1>4. ASSUME NEW c \in Command, StartedStatus(c) PROVE BootsAgree'
  <2>1. boot' = boot /\ pending' \subseteq pending
    BY <1>4, <1>b DEF StartedStatus, Started, PruneOnly
  <2>2. CASE reservations' = LiveReservations
    BY <2>1, <2>2, <1>a, <1>b
  <2>3. ASSUME NEW w, WindowOf(w, c), reservations' \in Inserted(LiveReservations, w)
        PROVE  BootsAgree'
    <3>1. IsFiniteSet(LiveReservations) /\ Cardinality(LiveReservations) <= StateCap
      <4>1. IsFiniteSet(LiveReservations) /\ Cardinality(LiveReservations) <= Cardinality(reservations)
        BY <1>b, FS_Subset DEF Capped
      <4> QED BY <4>1, FS_CardinalityType DEF Capped
    <3>2. \A r \in reservations' : r \in reservations \/ r = w
      BY <1>b, <2>3, <3>1, InsertedKeeps DEF WithoutKey
    <3> QED BY <2>1, <2>3, <3>2 DEF BootsAgree, WindowOf
  <2> QED BY <1>4, <2>2, <2>3, StartedWindow
<1>5. ASSUME NEW c \in Command, DisplacedStatus(c) \/ DisarmedStatus(c) PROVE BootsAgree'
  <2>1. boot' = boot /\ pending' \subseteq pending /\ reservations' \subseteq reservations
    BY <1>5, <1>b DEF DisplacedStatus, DisarmedStatus, Displaced, Disarmed, WithoutKey
  <2> QED BY <2>1, <1>a
<1>6. ASSUME NEW b \in Bridge, BridgeChange(b) PROVE BootsAgree'
  <2>1. PICK boots \in [Bridge -> Nat] :
          /\ \A o \in Bridge : boots[o] # boot[o] => boots[o] # NoBoot
          /\ boot' = boots /\ pending' = {q \in LivePending : SameBoot(q, boots)}
          /\ reservations' = {r \in LiveReservations : SameBoot(r, boots)}
    <3>1. CASE UpdateBridges(IF b \in online THEN online \ {b} ELSE online \cup {b}, boot)
      BY <1>0, <3>1 DEF UpdateBridges
    <3>2. CASE UpdateBridges(online, [boot EXCEPT ![b] = @ + 1])
      <4>1. PICK boots : boots = [boot EXCEPT ![b] = @ + 1]
        OBVIOUS
      <4>2. boots \in [Bridge -> Nat] /\ \A o \in Bridge : boots[o] # boot[o] => boots[o] # NoBoot
        BY <1>0, <4>1 DEF NoBoot
      <4> QED BY <3>2, <4>1, <4>2 DEF UpdateBridges
    <3> QED BY <1>6, <3>1, <3>2 DEF BridgeChange
  <2>2. boot' = boots /\ pending' = {q \in LivePending : SameBoot(q, boots)}
        /\ reservations' = {r \in LiveReservations : SameBoot(r, boots)}
    BY <2>1
  <2>3. \A q \in pending : q.bridge \in Bridge
    BY DEF AirInv, TypeOK, CalendarTypeOK, PendingPlan
  <2>4. \A r \in reservations : r.bridge \in Bridge
    BY DEF AirInv, TypeOK, CalendarTypeOK, Reservation
  <2>5. \A q \in pending' : q.boot = boots[q.bridge] /\ q.boot # NoBoot
    BY <1>b, <2>1, <2>2, <2>3 DEF SameBoot, BootsAgree
  <2>6. \A r \in reservations' : r.boot = boots[r.bridge] /\ r.boot # NoBoot
    BY <1>b, <2>1, <2>2, <2>4 DEF SameBoot, BootsAgree
  <2> QED BY <2>2, <2>5, <2>6 DEF BootsAgree
<1>7. CASE Close
  BY <1>7 DEF Close, CloseCalendar, BootsAgree
<1>8. CASE Tick \/ UNCHANGED vars
  BY <1>8, <1>a DEF Tick, calendar, vars, calendarVars
<1> QED
  BY <1>1, <1>2, <1>3, <1>4, <1>5, <1>6, <1>7, <1>8 DEF Next

\* An owed STOP stays on the calendar: what goes is over, cancelled, of a bridge
\* that rebooted, or counted as evicted.
LEMMA ReservedStep ==
  ASSUME WindowInv, [Next]_vars, NEW t \in Command
  PROVE  Reserved(t)'
<1>0. /\ AirInv /\ AirInv' /\ Capped /\ BootsAgree /\ Keyed /\ Reserved(t) /\ Flow
      /\ now \in Nat /\ Guard \in Nat /\ rfAt[t] \in Nat \cup {Never} /\ now' \in Nat
      /\ PlanOf[t] \in Plan
  BY AirInvStep, FlowStep DEF WindowInv, AirInv, TypeOK, CalendarTypeOK
<1>1. SUFFICES ASSUME Owes(t)', t \notin lost', t \notin evicted', (now < StopTrain(t).hi)'
               PROVE  \E r \in reservations' :
                        r.cmd = t /\ r.bridge = on'[t] /\ r.lo = Padded(t)'.lo /\ r.hi = Padded(t)'.hi
  BY DEF Reserved
<1>2. on' = on /\ t \notin lost /\ t \notin evicted /\ now <= now'
  BY <1>0, <1>1 DEF Flow
\* The STOP was owed before.
<1>3. ASSUME Owes(t), ~StartedStatus(t)
      PROVE  \E r \in reservations' :
               r.cmd = t /\ r.bridge = on'[t] /\ r.lo = Padded(t)'.lo /\ r.hi = Padded(t)'.hi
  <2>1. rfAt'[t] = rfAt[t] /\ rfAt[t] \in Nat
    <3>1. Dated(t) /\ stage[t] = "started"
      BY <1>0, <1>3 DEF AirInv, Owes
    <3> QED BY <1>0, <3>1 DEF Dated, Flow
  <2>2. StopTrain(t)' = StopTrain(t) /\ Padded(t)' = Padded(t)
    BY <2>1 DEF StopTrain, Padded
  <2>3. StopTrain(t).hi \in Int /\ Padded(t).hi = StopTrain(t).hi + Guard
    BY <1>0, <2>1 DEF StopTrain, Padded, Plan
  <2>4. now < StopTrain(t).hi
    BY <1>0, <1>1, <1>2, <2>2, <2>3
  <2>5. PICK r \in reservations :
          r.cmd = t /\ r.bridge = on[t] /\ r.lo = Padded(t).lo /\ r.hi = Padded(t).hi
    BY <1>0, <1>2, <1>3, <2>4 DEF Reserved
  <2>6. r.hi > now /\ r.boot = boot[r.bridge] /\ r.boot # NoBoot
    BY <1>0, <2>3, <2>4, <2>5 DEF BootsAgree
  <2>7. CASE Retains
    BY <1>1, <1>2, <1>3, <2>2, <2>4, <2>5, <2>6, <2>7 DEF Retains
  <2>8. ASSUME NEW c \in Command, StartedStatus(c) PROVE r \in reservations'
    <3>1. r \in LiveReservations /\ c # t
      BY <1>3, <2>5, <2>6, <2>8 DEF LiveReservations
    <3>2. LiveReservations \subseteq reservations
      BY DEF LiveReservations
    <3>3. CASE reservations' = LiveReservations
      BY <3>1, <3>3
    <3>4. ASSUME NEW w, WindowOf(w, c), reservations' \in Inserted(LiveReservations, w)
          PROVE  r \in reservations'
      <4>1. /\ IsFiniteSet(LiveReservations) /\ Cardinality(LiveReservations) <= StateCap
            /\ Cardinality(LiveReservations) \in Nat
        <5>1. IsFiniteSet(LiveReservations) /\ Cardinality(LiveReservations) <= Cardinality(reservations)
          BY <3>2, FS_Subset DEF Capped, WindowInv
        <5> QED BY <1>0, <5>1, FS_CardinalityType DEF Capped
      <4>2. r \in WithoutKey(LiveReservations, w.bridge, w.cmd)
        BY <2>5, <3>1, <3>4 DEF WithoutKey, WindowOf
      <4>3. CASE Cardinality(LiveReservations) < StateCap
        BY <3>4, <4>1, <4>2, <4>3, InsertedKeeps
      <4>4. CASE ~(Cardinality(LiveReservations) < StateCap)
        <5>1. t \notin Evicted(c)
          BY <1>1, <2>8 DEF StartedStatus
        <5>2. \E q \in reservations' : q.cmd = t
          BY <2>5, <3>1, <4>4, <5>1 DEF Evicted
        <5>3. PICK q \in reservations' : q.cmd = t
          BY <5>2
        <5>4. q \in WithoutKey(LiveReservations, w.bridge, w.cmd) \cup {w}
          BY <3>4, <4>1, InsertedKeeps
        <5>5. q \in reservations
          BY <3>1, <3>2, <3>4, <5>3, <5>4 DEF WindowOf, WithoutKey
        <5> QED BY <1>0, <2>5, <5>3, <5>5 DEF Keyed
      <4> QED BY <4>3, <4>4
    <3> QED BY <1>0, <2>8, <3>3, <3>4, StartedWindow
  <2>9. r \in reservations'
    BY <1>0, <2>5, <2>6, <2>7, <2>8, <1>1, <1>2, <1>3, <2>4, WindowFlow DEF Retains
  <2> QED BY <1>2, <2>2, <2>5, <2>9
\* It is owed since its start was reported in this step.
<1>4. ASSUME StartedStatus(t)
      PROVE  \E r \in reservations' :
               r.cmd = t /\ r.bridge = on'[t] /\ r.lo = Padded(t)'.lo /\ r.hi = Padded(t)'.hi
  <2>1. /\ UNCHANGED <<now, rfAt>> /\ HasFuture(PlanOf[t]) /\ t \notin Evicted(t)
    BY <1>1, <1>4 DEF StartedStatus, Owes
  <2>2. StopTrain(t)' = StopTrain(t) /\ Padded(t)' = Padded(t)
    BY <2>1 DEF StopTrain, Padded
  <2>3. PICK w : WindowOf(w, t) /\ reservations' \in Inserted(LiveReservations, w)
    BY <1>0, <1>1, <1>4, <2>1, <2>2, StartedWindow
  <2>4. /\ IsFiniteSet(LiveReservations) /\ Cardinality(LiveReservations) <= StateCap
        /\ Cardinality(LiveReservations) \in Nat
    <3>1. LiveReservations \in SUBSET reservations
      BY DEF LiveReservations
    <3>2. IsFiniteSet(LiveReservations) /\ Cardinality(LiveReservations) <= Cardinality(reservations)
      BY <1>0, <3>1, FS_Subset DEF Capped
    <3> QED BY <1>0, <3>2, FS_CardinalityType DEF Capped
  <2>5. w \in reservations'
    <3>1. CASE Cardinality(LiveReservations) < StateCap
      BY <2>3, <2>4, <3>1, InsertedKeeps
    <3>2. CASE ~(Cardinality(LiveReservations) < StateCap)
      <4>1. PICK q \in reservations' : q.cmd = t
        BY <2>1, <3>2 DEF Evicted
      <4>2. q \in WithoutKey(LiveReservations, w.bridge, w.cmd) \cup {w}
        BY <2>3, <2>4, InsertedKeeps
      <4>3. q \notin WithoutKey(LiveReservations, w.bridge, w.cmd)
        BY <1>0, <2>3, <4>1 DEF WithoutKey, WindowOf, Keyed, LiveReservations
      <4> QED BY <4>1, <4>2, <4>3
    <3> QED BY <3>1, <3>2
  <2> QED BY <1>2, <2>2, <2>3, <2>5 DEF WindowOf
<1>5. stage[t] = "started" => Owes(t)
  BY <1>0, <1>1 DEF Flow, Owes
<1>6. stage[t] # "started" => StartedStatus(t)
  BY <1>0, <1>1 DEF Flow, Owes
<1> QED BY <1>3, <1>4, <1>5, <1>6

\* Only a publication changes who was admitted, when and after whom.
Admits ==
  \E c \in Command, free \in BOOLEAN, planned \in BOOLEAN :
    /\ Transmit(c, free, planned) /\ stage[c] \in {"asking", "held"}
    /\ free => Decision(on[c], PlanOf[c]).kind = "go"
    /\ UNCHANGED <<now, on, rfAt, flushAt, evicted>>

\* The other actions leave the admissions alone.
LEMMA AdmissionFlow ==
  ASSUME [Next]_vars
  PROVE  UNCHANGED <<admitAt, seen, bypass>> \/ Admits
<1>1. ASSUME NEW c \in Command, Attempt(c) PROVE UNCHANGED <<admitAt, seen, bypass>> \/ Admits
  <2> DEFINE d == Decision(on[c], PlanOf[c])
  <2>1. stage[c] \in {"asking", "held"} /\ UNCHANGED <<now, on, rfAt, flushAt, evicted>>
    BY <1>1 DEF Attempt, Runnable
  <2>2. \/ Publish(c, FALSE, TRUE)
        \/ (d.kind = "go" /\ Publish(c, TRUE, TRUE))
        \/ Hold(c, d.earliest)
    BY <1>1 DEF Attempt
  <2>3. CASE Refuse(c) \/ Hold(c, d.earliest)
    BY <2>3 DEF Refuse, Hold
  <2> QED BY <2>1, <2>2, <2>3 DEF Publish, Admits
<1>2. ASSUME NEW c \in Command, AttemptUnasked(c) PROVE UNCHANGED <<admitAt, seen, bypass>> \/ Admits
  <2>1. stage[c] \in {"asking", "held"} /\ UNCHANGED <<now, on, rfAt, flushAt, evicted>>
    BY <1>2 DEF AttemptUnasked, Runnable
  <2>2. PICK planned \in BOOLEAN : Refuse(c) \/ Transmit(c, FALSE, planned)
    BY <1>2 DEF AttemptUnasked, Publish
  <2>3. CASE Refuse(c)
    BY <2>3 DEF Refuse
  <2> QED BY <2>1, <2>2, <2>3 DEF Admits
<1>3. ASSUME NEW c \in Command,
             \/ Request(c) \/ Retire(c) \/ GiveUp(c) \/ StartRf(c) \/ StartedStatus(c)
             \/ Rejected(c) \/ DisplacedStatus(c) \/ DisarmedStatus(c)
      PROVE  UNCHANGED <<admitAt, seen, bypass>>
  BY <1>3 DEF Request, Retire, GiveUp, StartRf, StartedStatus, Rejected, DisplacedStatus,
              DisarmedStatus, history
<1>4. ASSUME (\E b \in Bridge : BridgeChange(b)) \/ Close \/ Tick \/ UNCHANGED vars
      PROVE  UNCHANGED <<admitAt, seen, bypass>>
  BY <1>4 DEF BridgeChange, Close, Tick, vars, history
<1> QED BY <1>1, <1>2, <1>3, <1>4 DEF Next

\* A clearance is against what the calendar shows, and that is every STOP owed.
LEMMA SparedStep ==
  ASSUME WindowInv, [Next]_vars, NEW t \in Command, NEW u \in Command
  PROVE  Spared(t, u)'
<1>0. /\ AirInv /\ TypeOK /\ Spared(t, u) /\ Reserved(t) /\ Flow /\ Routed
      /\ Dated(t) /\ Dated(u) /\ Tracked(t)
      /\ now \in Nat /\ Guard \in Nat /\ rfAt[t] \in Nat \cup {Never}
      /\ stage \in [Command -> Stages] /\ PlanOf[t] \in Plan /\ on \in [Command -> Bridge]
      /\ admitAt \in [Command -> Nat \cup {Never}] /\ seen \in [Command -> SUBSET Command]
  BY FlowStep DEF WindowInv, AirInv, TypeOK, CalendarTypeOK
<1> DEFINE Goal == /\ stage'[t] \notin {"published", "on_air", "adrift"}
                   /\ Owes(t)' => Apart(t, u, admitAt[u])'
<1>1. SUFFICES ASSUME t \in seen'[u], t \notin lost', t \notin evicted', u \notin bypass',
                      on[t] # on[u]
               PROVE  Goal
  BY <1>0 DEF Spared, Flow
<1>2. t \notin lost /\ t \notin evicted
  BY <1>0, <1>1 DEF Flow
\* Whoever has started stays as it was.
<1>3. ASSUME stage[t] \in {"started", "gone"}
      PROVE  /\ stage'[t] \notin {"published", "on_air", "adrift"}
             /\ Owes(t)' => Owes(t) /\ StopTrain(t)' = StopTrain(t) /\ Padded(t)' = Padded(t)
  <2>1. rfAt'[t] = rfAt[t] /\ stage'[t] \in {stage[t], "gone"}
    BY <1>0, <1>3 DEF Flow
  <2>2. StopTrain(t)' = StopTrain(t)
    BY <2>1 DEF StopTrain
  <2>3. Padded(t)' = Padded(t)
    BY <2>2 DEF Padded
  <2>4. Owes(t)' => Owes(t)
    BY <1>0, <1>3, <2>1 DEF Flow, Owes
  <2> QED BY <1>3, <2>1, <2>2, <2>3, <2>4
\* u is not the one admitted.
<1>4. ASSUME t \in seen[u], u \notin bypass, admitAt'[u] = admitAt[u] PROVE Goal
  <2>1. stage[t] \in {"started", "gone"}
    BY <1>0, <1>1, <1>2, <1>4 DEF Spared, Dated, Stages
  <2>2. Owes(t) => Apart(t, u, admitAt[u])
    BY <1>0, <1>1, <1>2, <1>4 DEF Spared
  <2> QED BY <1>3, <1>4, <2>1, <2>2 DEF Apart
<1>5. ASSUME NEW c \in Command, NEW free \in BOOLEAN, NEW planned \in BOOLEAN,
             Transmit(c, free, planned), stage[c] \in {"asking", "held"},
             free => Decision(on[c], PlanOf[c]).kind = "go",
             UNCHANGED <<now, on, rfAt, flushAt, evicted>>
      PROVE  Goal
  <2>1. /\ seen' = [seen EXCEPT ![c] = Published] /\ admitAt' = [admitAt EXCEPT ![c] = now]
        /\ bypass' = IF free THEN bypass ELSE bypass \cup {c}
        /\ Expired \subseteq lost'
    BY <1>5 DEF Transmit
  <2>2. CASE u # c
    BY <1>0, <1>1, <1>4, <2>1, <2>2
  <2>3. CASE u = c
    <3>1. free /\ t \in Published /\ admitAt'[u] = now
      BY <1>0, <1>1, <2>1, <2>3
    <3>2. /\ OthersPending(on[u]) = {}
          /\ Feasible(on[u], PlanOf[u], now)
      BY <1>5, <2>3, <3>1 DEF Decision
    <3>3. stage[t] \in {"started", "gone"}
      <4>1. stage[t] \notin {"published", "on_air"}
        <5>1. SUFFICES ASSUME stage[t] \in {"published", "on_air"} PROVE FALSE
          OBVIOUS
        <5>2. PICK q \in pending : q.cmd = t
          BY <1>0, <1>2, <5>1 DEF Tracked
        <5>3. q \in LivePending /\ q.bridge = on[t]
          BY <1>0, <1>1, <2>1, <5>2 DEF Expired, Routed
        <5> QED BY <1>1, <3>2, <5>3 DEF OthersPending
      <4>2. stage[t] \notin {"idle", "asking", "held", "adrift"}
        BY <1>0, <1>2, <3>1 DEF Published, Dated
      <4> QED BY <1>0, <4>1, <4>2 DEF Stages
    <3>4. Owes(t) => Apart(t, u, now)
      <4>1. SUFFICES ASSUME Owes(t), ~(StopTrain(t).hi <= now) PROVE Apart(t, u, now)
        BY DEF Apart
      <4>2. rfAt[t] \in Nat
        BY <1>0, <4>1 DEF Owes, Dated
      <4>3. StopTrain(t).hi \in Int /\ Padded(t).hi = StopTrain(t).hi + Guard
        BY <1>0, <4>2 DEF StopTrain, Padded, Plan
      <4>4. PICK r \in reservations :
              r.cmd = t /\ r.bridge = on[t] /\ r.lo = Padded(t).lo /\ r.hi = Padded(t).hi
        BY <1>0, <1>2, <4>1, <4>3 DEF Reserved
      <4>5. r \in OthersReserved(on[u])
        BY <1>0, <1>1, <4>1, <4>3, <4>4 DEF OthersReserved, LiveReservations
      <4>6. ~ImmediateClash(PlanOf[u], now, r) /\ ~FutureClash(PlanOf[u], now, r)
        BY <3>2, <4>5 DEF Feasible
      <4> QED BY <4>4, <4>6 DEF Apart, ImmediateClash, FutureClash, Intersects
    <3> QED BY <1>3, <3>1, <3>3, <3>4 DEF Apart
  <2> QED BY <2>2, <2>3
<1> QED BY <1>1, <1>4, <1>5, AdmissionFlow DEF Admits

\* There are no windows, and nobody was admitted.
LEMMA WindowInvInit == Init => WindowInv
<1> SUFFICES ASSUME Init PROVE WindowInv
  OBVIOUS
<1>1. AirInv
  BY AirInvInit
<1>2. Capped
  BY FS_EmptySet DEF Init, CalendarInit, Capped
<1>3. BootsAgree /\ Keyed
  BY DEF Init, CalendarInit, BootsAgree, Keyed
<1>4. \A t \in Command : Reserved(t)
  BY DEF Init, Owes, Reserved
<1>5. \A t, u \in Command : Spared(t, u)
  BY DEF Init, Spared
<1> QED BY <1>1, <1>2, <1>3, <1>4, <1>5 DEF WindowInv

\* By part.
LEMMA WindowInvStep == WindowInv /\ [Next]_vars => WindowInv'
<1> SUFFICES ASSUME WindowInv, [Next]_vars PROVE WindowInv'
  OBVIOUS
<1>1. AirInv /\ Capped /\ BootsAgree /\ Keyed
  BY DEF WindowInv
<1>2. AirInv' /\ Capped' /\ BootsAgree' /\ Keyed'
  BY <1>1, AirInvStep, CappedStep, BootsAgreeStep, KeyedStep
<1>3. \A t \in Command : Reserved(t)'
  BY ReservedStep
<1>4. \A t, u \in Command : Spared(t, u)'
  BY SparedStep
<1> QED BY <1>2, <1>3, <1>4 DEF WindowInv

\* The guard on both sides of a window is enough for a start that is late by
\* at most as much.
THEOREM StopWindowsAreKept == Spec => []StopWindowsKept
<1>1. WindowInv => StopWindowsKept
  <2>1. SUFFICES ASSUME WindowInv, NEW u \in Command \ bypass, NEW t \in seen[u] \ (lost \cup evicted),
                        on[t] # on[u], Owes(t), rfAt[u] # Never, rfAt[u] <= admitAt[u] + Guard
                 PROVE  /\ ~Intersects([lo |-> rfAt[u], hi |-> TrainEnd(u)], StopTrain(t))
                        /\ HasFuture(PlanOf[u]) => ~Intersects(StopTrain(u), StopTrain(t))
    BY DEF StopWindowsKept
  <2>2. /\ t \in Command /\ u \in Command /\ Spared(t, u) /\ Dated(u) /\ Dated(t)
        /\ rfAt[t] \in Nat \cup {Never} /\ rfAt[u] \in Nat
        /\ admitAt[u] \in Nat \cup {Never} /\ PlanOf[t] \in Plan /\ PlanOf[u] \in Plan
    BY <2>1 DEF WindowInv, AirInv, TypeOK, Never
  <2>3. Apart(t, u, admitAt[u])
    BY <2>1, <2>2 DEF Spared
  <2>4. rfAt[t] \in Nat /\ admitAt[u] \in Nat /\ admitAt[u] <= rfAt[u]
    BY <2>1, <2>2 DEF Dated, Owes, Admitted
  <2>5. /\ Guard \in Nat
        /\ PlanOf[t].offset \in Nat /\ PlanOf[t].stop \in Nat
        /\ PlanOf[u].action \in Nat /\ PlanOf[u].offset \in Nat /\ PlanOf[u].stop \in Nat
    BY <2>2 DEF Plan
  <2>6. PICK L \in Int : \A s \in Int : Immediate(PlanOf[u], s).hi = s + L + Guard
    <3> DEFINE p == PlanOf[u]
               m == IF p.offset = 0 \/ HasFuture(p) THEN p.action ELSE Later(p.action, p.offset + p.stop)
    <3>1. m \in Int
      BY <2>5 DEF Later
    <3>2. \A s \in Int : Immediate(p, s).hi = s + m + Guard
      BY <2>5 DEF Immediate, Later
    <3> HIDE DEF m
    <3> QED BY <3>1, <3>2
  <2>7. TrainEnd(u) = rfAt[u] + L
    BY <2>2, <2>5, <2>6 DEF TrainEnd
  <2>8. ~Intersects([lo |-> rfAt[u], hi |-> TrainEnd(u)], StopTrain(t))
    <3>1. CASE StopTrain(t).hi <= admitAt[u]
      BY <2>2, <2>4, <2>5, <3>1 DEF Intersects, StopTrain
    <3>2. CASE ~Intersects(Immediate(PlanOf[u], admitAt[u]), Padded(t))
      <4>1. Immediate(PlanOf[u], admitAt[u]).lo = admitAt[u]
        BY DEF Immediate
      <4>2. Immediate(PlanOf[u], admitAt[u]).hi = admitAt[u] + L + Guard
        BY <2>4, <2>6
      <4> QED BY <2>1, <2>2, <2>4, <2>5, <2>7, <3>2, <4>1, <4>2 DEF Intersects, StopTrain, Padded
    <3> QED BY <2>3, <3>1, <3>2 DEF Apart
  <2>9. ASSUME HasFuture(PlanOf[u]) PROVE ~Intersects(StopTrain(u), StopTrain(t))
    <3>1. CASE StopTrain(t).hi <= admitAt[u]
      BY <2>2, <2>4, <2>5, <3>1 DEF Intersects, StopTrain
    <3>2. CASE ~Intersects(Future(PlanOf[u], admitAt[u]), Padded(t))
      BY <2>1, <2>2, <2>4, <2>5, <3>2 DEF Intersects, StopTrain, Padded, Future
    <3> QED BY <2>3, <2>9, <3>1, <3>2 DEF Apart
  <2> QED BY <2>8, <2>9
<1> QED BY <1>1, WindowInvInit, WindowInvStep, PTL DEF Spec

\* The loop of decide returns the least feasible instant and its pass bound
\* never fires, in every reachable calendar.
THEOREM EarliestIsTheLeast == Spec => []EarliestIsLeast
<1>1. WindowInv => EarliestIsLeast
  <2>1. SUFFICES ASSUME WindowInv, NEW b \in Bridge, NEW c \in Command
                 PROVE  LET d == Decision(b, PlanOf[c])
                        IN  /\ d.kind # "fail_open"
                            /\ d.kind = "wait" /\ OthersPending(b) = {} =>
                                 /\ Feasible(b, PlanOf[c], d.earliest)
                                 /\ \A s \in now..(d.earliest - 1) : ~Feasible(b, PlanOf[c], s)
    BY DEF EarliestIsLeast
  <2>2. TypeOK /\ Capped /\ PlanOf[c] \in Plan
    BY <2>1 DEF WindowInv, AirInv
  <2> QED BY <2>2, DecisionIsLeast
<1> QED BY <1>1, WindowInvInit, WindowInvStep, PTL DEF Spec

----------------------------------------------------------------------------
(* The wake-ups. *)

\* Something that will still be on the calendar at s keeps c from starting then.
Blocks(c, s) ==
  \/ \E o \in Bridge \ {on[c]} : drains[o] > s
  \/ \E r \in reservations :
       /\ r.bridge # on[c] /\ r.hi > s
       /\ ImmediateClash(PlanOf[c], s, r) \/ FutureClash(PlanOf[c], s, r)

\* A sleeper of the current generation sleeps for a reason that lasts until
\* its wait times out.
Asleep(c) ==
  stage[c] = "held" /\ c \in sleepers =>
    /\ ~closed /\ Cardinality(online) >= MinBridges
    /\ \/ \E q \in pending : q.bridge # on[c] /\ q.expires >= until[c]
       \/ \A s \in now..(until[c] - 1) : Blocks(c, s)

\* The inductive invariant under the wake-ups.
WakeInv == WindowInv /\ \A c \in Command : Asleep(c)

\* A step that takes nothing live off the calendar.
Calm ==
  /\ LivePending \subseteq pending'
  /\ \A o \in Bridge : LiveDrains[o] <= drains'[o]
  /\ LiveReservations \subseteq reservations'
  /\ UNCHANGED <<online, closed, on>> /\ now <= now'

\* An instant that is not feasible now is one that something blocks.
LEMMA InfeasibleIsBlocked ==
  ASSUME TypeOK, NEW c \in Command, NEW s \in Int, now <= s
  PROVE  ~Feasible(on[c], PlanOf[c], s) => Blocks(c, s)
<1>1. SUFFICES ASSUME ~Feasible(on[c], PlanOf[c], s) PROVE Blocks(c, s)
  OBVIOUS
<1>2. now \in Nat /\ drains \in [Bridge -> Nat]
  BY DEF TypeOK, CalendarTypeOK
<1>3. CASE \E o \in Bridge \ {on[c]} : ~(LiveDrains[o] <= s)
  <2>1. PICK o \in Bridge \ {on[c]} : ~(LiveDrains[o] <= s)
    BY <1>3
  <2>2. drains[o] > s
    BY <1>2, <2>1 DEF LiveDrains
  <2> QED BY <2>2 DEF Blocks
<1>4. ASSUME NEW r \in OthersReserved(on[c]),
             ImmediateClash(PlanOf[c], s, r) \/ FutureClash(PlanOf[c], s, r)
      PROVE  Blocks(c, s)
  <2>1. r \in reservations /\ r.bridge # on[c]
    BY DEF OthersReserved, LiveReservations
  <2>2. r.lo \in Int /\ r.hi \in Int
    BY <2>1 DEF TypeOK, CalendarTypeOK, Reservation
  <2>3. PlanOf[c] \in Plan /\ PlanOf[c].offset \in Nat /\ Guard \in Nat
    BY DEF Plan
  <2>4. CASE ImmediateClash(PlanOf[c], s, r)
    BY <2>1, <2>2, <2>3, <2>4, ClashIsAhead DEF Blocks
  <2>5. CASE FutureClash(PlanOf[c], s, r)
    <3>1. PlanOf[c].offset >= Guard
      BY <2>5, StopsAreLate DEF FutureClash
    <3>2. s < r.hi - (PlanOf[c].offset - Guard)
      BY <2>2, <2>3, <2>5, ClashIsAhead
    <3>3. r.hi > s
      BY <2>2, <2>3, <3>1, <3>2
    <3> QED BY <2>1, <2>5, <3>3 DEF Blocks
  <2> QED BY <1>4, <2>4, <2>5
<1> QED BY <1>1, <1>3, <1>4 DEF Feasible

\* What blocks an instant goes on blocking it through a calm step.
LEMMA BlocksKept ==
  ASSUME TypeOK, TypeOK', Calm, NEW c \in Command, NEW s \in Int, now <= s, Blocks(c, s)
  PROVE  Blocks(c, s)'
<1>1. now \in Nat /\ drains \in [Bridge -> Nat] /\ drains' \in [Bridge -> Nat]
  BY DEF TypeOK, CalendarTypeOK
<1>2. CASE \E o \in Bridge \ {on[c]} : drains[o] > s
  <2>1. PICK o \in Bridge \ {on[c]} : drains[o] > s
    BY <1>2
  <2>2. LiveDrains[o] = drains[o]
    BY <1>1, <2>1 DEF LiveDrains
  <2>3. drains'[o] > s
    BY <1>1, <2>1, <2>2 DEF Calm
  <2> QED BY <2>3 DEF Blocks, Calm
<1>3. ASSUME NEW r \in reservations, r.bridge # on[c], r.hi > s,
             ImmediateClash(PlanOf[c], s, r) \/ FutureClash(PlanOf[c], s, r)
      PROVE  Blocks(c, s)'
  <2>1. r.hi \in Int
    BY DEF TypeOK, CalendarTypeOK, Reservation
  <2>2. r \in reservations'
    BY <1>1, <1>3, <2>1 DEF Calm, LiveReservations
  <2>3. r.bridge # on'[c]
    BY <1>3 DEF Calm
  <2> QED BY <1>3, <2>2, <2>3 DEF Blocks
<1> QED BY <1>2, <1>3 DEF Blocks

\* So does what keeps a sleeper asleep.
LEMMA AsleepKept ==
  ASSUME TypeOK, TypeOK', Calm, NEW c \in Command, Asleep(c),
         stage[c] = "held", c \in sleepers, until'[c] = until[c]
  PROVE  Asleep(c)'
<1>1. now \in Nat /\ now' \in Nat /\ until[c] \in Int /\ now <= now'
  BY DEF TypeOK, CalendarTypeOK, Calm
<1>2. ~closed' /\ Cardinality(online') >= MinBridges
  BY DEF Asleep, Calm
<1>3. ASSUME NEW q \in pending, q.bridge # on[c], q.expires >= until[c]
      PROVE  Asleep(c)'
  <2>1. CASE q.expires > now
    <3>1. q \in pending' /\ q.bridge # on'[c]
      BY <1>3, <2>1 DEF Calm, LivePending
    <3> QED BY <1>2, <1>3, <3>1 DEF Asleep
  <2>2. CASE ~(q.expires > now)
    <3>1. q.expires \in Nat
      BY DEF TypeOK, CalendarTypeOK, PendingPlan
    <3>2. until[c] - 1 < now'
      BY <1>1, <1>3, <2>2, <3>1
    <3>3. \A s \in now'..(until'[c] - 1) : FALSE
      BY <1>1, <3>2
    <3> QED BY <1>2, <3>3 DEF Asleep
  <2> QED BY <2>1, <2>2
<1>4. CASE \A s \in now..(until[c] - 1) : Blocks(c, s)
  <2>1. ASSUME NEW s \in now'..(until'[c] - 1) PROVE Blocks(c, s)'
    <3>1. s \in now..(until[c] - 1) /\ s \in Int /\ now <= s
      BY <1>1
    <3> QED BY <1>4, <3>1, BlocksKept
  <2> QED BY <1>2, <2>1 DEF Asleep
<1> QED BY <1>3, <1>4 DEF Asleep

\* A step wakes everyone, or is calm and puts nobody to sleep but the one
\* command whose wait it starts.
WakesOrCalm ==
  \/ sleepers' = {}
  \/ /\ Calm
     /\ \A c \in Command :
          stage'[c] = "held" /\ c \in sleepers' =>
            \/ stage[c] = "held" /\ c \in sleepers /\ until'[c] = until[c]
            \/ /\ Hold(c, Decision(on[c], PlanOf[c]).earliest)
               /\ Decision(on[c], PlanOf[c]).kind = "wait" /\ now' = now

\* By action: whatever takes something live off the calendar wakes everyone.
LEMMA WakeFlow ==
  ASSUME TypeOK, [Next]_vars
  PROVE  WakesOrCalm
<1>0. /\ now \in Nat /\ stage \in [Command -> Stages] /\ drains \in [Bridge -> Nat]
      /\ until \in [Command -> Int] /\ LiveDrains \in [Bridge -> Nat]
      /\ reservations \in SUBSET Reservation /\ pending \in SUBSET PendingPlan
  BY PruneTypes DEF TypeOK, CalendarTypeOK
\* Pruned or untouched tables.
<1>a. ASSUME UNCHANGED <<online, closed, on>>, now <= now',
             \/ /\ pending' = LivePending /\ drains' = LiveDrains
                /\ reservations' = LiveReservations
             \/ UNCHANGED <<pending, drains, reservations>>
      PROVE  Calm
  <2>1. \A o \in Bridge : LiveDrains[o] <= LiveDrains[o] /\ LiveDrains[o] <= drains[o]
    BY <1>0 DEF LiveDrains
  <2>2. LivePending \subseteq pending /\ LiveReservations \subseteq reservations
    BY DEF LivePending, LiveReservations
  <2> QED BY <1>a, <2>1, <2>2 DEF Calm
\* A calm step that moves one command to a stage other than held, if any.
<1>b. ASSUME Calm, sleepers' \subseteq sleepers, NEW c \in Command, NEW s, s # "held",
             stage' = stage \/ Goto(c, s), (until' = until) \/ ClearHold(c),
             until'[c] = until[c] \/ Goto(c, s)
      PROVE  WakesOrCalm
  <2>1. \A d \in Command : stage'[d] = "held" => stage[d] = "held" /\ until'[d] = until[d]
    BY <1>0, <1>b DEF Goto, ClearHold
  <2> QED BY <1>b, <2>1 DEF WakesOrCalm
<1>c. PruneOnly => /\ pending' = LivePending /\ drains' = LiveDrains
                   /\ reservations' = LiveReservations
                   /\ sleepers' = {} \/ sleepers' = sleepers
  BY DEF PruneOnly, WakeIfExpired
<1>1. ASSUME NEW c \in Command, Request(c) PROVE WakesOrCalm
  <2>1. Calm
    BY <1>0, <1>1, <1>a DEF Request, calendarVars
  <2> QED BY <1>1, <1>b, <2>1 DEF Request, calendarVars
<1>2. ASSUME NEW c \in Command, NEW free \in BOOLEAN, NEW planned \in BOOLEAN,
             Publish(c, free, planned), UNCHANGED <<now, online, closed, on>>
      PROVE  WakesOrCalm
  <2>1. CASE Refuse(c)
    BY <2>1 DEF Refuse, Wake, WakesOrCalm
  <2>2. CASE Transmit(c, free, planned)
    <3>1. (Provision(on[c], c, PlanOf[c], StartTTL) \/ PruneOnly) /\ Goto(c, "published") /\ ClearHold(c)
      BY <2>2 DEF Transmit
    <3>2. CASE Provision(on[c], c, PlanOf[c], StartTTL)
      BY <3>2 DEF Provision, Wake, WakesOrCalm
    <3>3. CASE PruneOnly
      <4>1. Calm
        BY <1>0, <1>2, <1>a, <1>c, <3>3
      <4>2. CASE sleepers' = {}
        BY <4>2 DEF WakesOrCalm
      <4>3. CASE sleepers' = sleepers
        BY <1>b, <3>1, <4>1, <4>3
      <4> QED BY <1>c, <3>3, <4>2, <4>3
    <3> QED BY <3>1, <3>2, <3>3
  <2> QED BY <1>2, <2>1, <2>2 DEF Publish
<1>3. ASSUME NEW c \in Command, Attempt(c) PROVE WakesOrCalm
  <2> DEFINE d == Decision(on[c], PlanOf[c])
  <2>1. UNCHANGED <<now, online, closed, on>>
    BY <1>3 DEF Attempt
  <2>2. \/ Publish(c, FALSE, TRUE) \/ Publish(c, TRUE, TRUE)
        \/ (d.kind = "wait" /\ Hold(c, d.earliest))
    BY <1>3 DEF Attempt
  <2>3. CASE d.kind = "wait" /\ Hold(c, d.earliest)
    <3>1. /\ pending' = LivePending /\ drains' = LiveDrains /\ reservations' = LiveReservations
          /\ sleepers' = (IF Expired = {} THEN sleepers ELSE {}) \cup {c}
          /\ stage' = [stage EXCEPT ![c] = "held"]
          /\ \E e : until' = [until EXCEPT ![c] = e]
      BY <2>3 DEF Hold, DecideAndSleep, Goto
    <3>2. Calm
      BY <1>0, <2>1, <3>1, <1>a
    <3>3. \A o \in Command \ {c} :
            stage'[o] = "held" /\ o \in sleepers' =>
              stage[o] = "held" /\ o \in sleepers /\ until'[o] = until[o]
      BY <1>0, <3>1
    <3> QED BY <2>1, <2>3, <3>2, <3>3 DEF WakesOrCalm
  <2> QED BY <1>2, <2>1, <2>2, <2>3
<1>4. ASSUME NEW c \in Command, AttemptUnasked(c) PROVE WakesOrCalm
  BY <1>2, <1>4 DEF AttemptUnasked
<1>5. ASSUME NEW c \in Command, Retire(c) PROVE WakesOrCalm
  BY <1>5 DEF Retire, Wake, WakesOrCalm
<1>6. ASSUME NEW c \in Command, GiveUp(c) \/ Rejected(c) PROVE WakesOrCalm
  <2>1. CASE WithoutKey(pending, on[c], c) = pending
    <3>1. /\ UNCHANGED <<pending, drains, reservations, sleepers, now, online, closed, on, until>>
      BY <1>6, <2>1 DEF GiveUp, Rejected, ReleasePending
    <3>2. PICK s \in {"adrift", "started", "gone"} : Goto(c, s)
      BY <1>6 DEF GiveUp, Rejected
    <3>3. Calm
      BY <1>0, <3>1, <1>a
    <3> QED BY <1>b, <3>1, <3>2, <3>3
  <2>2. CASE WithoutKey(pending, on[c], c) # pending
    BY <1>6, <2>2 DEF GiveUp, Rejected, ReleasePending, WakesOrCalm
  <2> QED BY <2>1, <2>2
<1>7. ASSUME NEW c \in Command, StartRf(c) PROVE WakesOrCalm
  <2>1. Calm
    BY <1>0, <1>7, <1>a DEF StartRf, calendarVars
  <2>2. PICK s \in {"on_air", "started"} : Goto(c, s)
    BY <1>7 DEF StartRf
  <2> QED BY <1>7, <1>b, <2>1, <2>2 DEF StartRf, calendarVars
<1>8. ASSUME NEW c \in Command, StartedStatus(c) PROVE WakesOrCalm
  <2>1. UNCHANGED <<now, online, closed, on, until>> /\ Goto(c, "started")
    BY <1>8 DEF StartedStatus
  <2>2. sleepers' = {} \/ (PruneOnly /\ sleepers' = sleepers)
    BY <1>8 DEF StartedStatus, Started, Wake, PruneOnly, WakeIfExpired
  <2>3. CASE PruneOnly /\ sleepers' = sleepers
    <3>1. Calm
      BY <1>0, <1>a, <1>c, <2>1, <2>3
    <3> QED BY <1>b, <2>1, <2>3, <3>1
  <2> QED BY <2>2, <2>3 DEF WakesOrCalm
<1>9. ASSUME NEW c \in Command, DisplacedStatus(c) \/ DisarmedStatus(c) PROVE WakesOrCalm
  <2>1. UNCHANGED <<now, online, closed, on, until>> /\ (stage' = stage \/ Goto(c, "gone"))
    BY <1>9 DEF DisplacedStatus, DisarmedStatus
  <2>2. Displaced(on[c], c) \/ Disarmed(on[c], c)
    BY <1>9 DEF DisplacedStatus, DisarmedStatus
  <2>3. \/ sleepers' = {}
        \/ /\ pending' = LivePending /\ drains' = LiveDrains /\ reservations' = LiveReservations
           /\ sleepers' = sleepers
    <3>1. CASE Displaced(on[c], c)
      <4>1. WithoutKey(LiveReservations, on[c], c) \subseteq LiveReservations
        BY DEF WithoutKey
      <4>2. LiveReservations \ WithoutKey(LiveReservations, on[c], c) = {}
              => WithoutKey(LiveReservations, on[c], c) = LiveReservations
        BY <4>1
      <4> QED BY <3>1, <4>2 DEF Displaced, Wake, WakeIfExpired
    <3>2. CASE Disarmed(on[c], c)
      BY <3>2 DEF Disarmed, Wake, WakeIfExpired
    <3> QED BY <2>2, <3>1, <3>2
  <2>4. CASE /\ pending' = LivePending /\ drains' = LiveDrains /\ reservations' = LiveReservations
             /\ sleepers' = sleepers
    <3>1. Calm
      BY <1>0, <1>a, <2>1, <2>4
    <3> QED BY <1>b, <2>1, <2>4, <3>1
  <2> QED BY <2>3, <2>4 DEF WakesOrCalm
<1>10. ASSUME NEW b \in Bridge, BridgeChange(b) PROVE WakesOrCalm
  BY <1>10 DEF BridgeChange, UpdateBridges, Wake, WakesOrCalm
<1>11. CASE Close
  BY <1>11 DEF Close, CloseCalendar, Wake, WakesOrCalm
<1>12. CASE Tick \/ UNCHANGED vars
  <2>1. UNCHANGED <<calendar, online, closed, on, stage, until>> /\ now <= now'
    BY <1>0, <1>12 DEF Tick, hub, vars, calendarVars, calendar
  <2>2. Calm
    BY <1>0, <1>a, <2>1 DEF calendar
  <2> QED BY <2>1, <2>2 DEF WakesOrCalm, calendar
<1> QED
  BY <1>1, <1>3, <1>4, <1>5, <1>6, <1>7, <1>8, <1>9, <1>10, <1>11, <1>12 DEF Next

\* A command that goes to sleep has a reason to.
LEMMA AsleepAtFirst ==
  ASSUME TypeOK, TypeOK', Capped, Calm, NEW c \in Command, now' = now,
         Hold(c, Decision(on[c], PlanOf[c]).earliest), Decision(on[c], PlanOf[c]).kind = "wait"
  PROVE  Asleep(c)'
<1> DEFINE d == Decision(on[c], PlanOf[c])
<1>0. /\ now \in Nat /\ heldSince[c] \in Nat \cup {Never} /\ until \in [Command -> Int]
      /\ on[c] \in Bridge /\ PlanOf[c] \in Plan /\ MaxHold \in Nat
  BY DEF TypeOK, CalendarTypeOK
<1>1. PICK e : e = d.earliest
  OBVIOUS
<1>2. /\ e \in Int /\ now <= e
      /\ OthersPending(on[c]) = {} => \A s \in now..(e - 1) : ~Feasible(on[c], PlanOf[c], s)
      /\ OthersPending(on[c]) # {} => \E q \in OthersPending(on[c]) : e = q.expires
  BY <1>0, <1>1, DecisionIsLeast
<1>3. Ceiling(c) \in Int /\ now < Ceiling(c)
  <2>1. Ceiling(c) \in Int
    BY <1>0 DEF Ceiling, Since, Never
  <2> QED BY <1>0, <2>1 DEF Hold, CeilingHit
<1>4. until'[c] \in Int /\ until'[c] <= e
  <2>1. until' = [until EXCEPT ![c] = IF e \in now..Ceiling(c) THEN e ELSE Ceiling(c)]
    BY <1>1, Zenon DEF Hold
  <2>2. PICK k : k = Ceiling(c)
    OBVIOUS
  <2>3. k \in Int /\ now < k /\ until' = [until EXCEPT ![c] = IF e \in now..k THEN e ELSE k]
    BY <1>3, <2>1, <2>2
  <2>4. until'[c] = IF e \in now..k THEN e ELSE k
    BY <1>0, <2>3
  <2> QED BY <1>0, <1>2, <2>3, <2>4
<1>5. ~closed' /\ Cardinality(online') >= MinBridges
  <2>1. ~closed /\ ~(Cardinality(online) < MinBridges)
    BY DEF Decision
  <2>2. Cardinality(online) \in Nat
    <3>1. online \in SUBSET Bridge
      BY DEF TypeOK, CalendarTypeOK
    <3> QED BY <3>1, FS_Subset, FS_CardinalityType
  <2> QED BY <2>1, <2>2 DEF Calm
<1>6. CASE OthersPending(on[c]) # {}
  <2>1. PICK q \in OthersPending(on[c]) : e = q.expires
    BY <1>2, <1>6
  <2>2. q \in pending' /\ q.bridge # on'[c]
    BY <2>1 DEF OthersPending, Calm
  <2>3. q.expires >= until'[c]
    BY <1>2, <1>4, <2>1
  <2> QED BY <1>5, <2>2, <2>3 DEF Asleep
<1>7. CASE OthersPending(on[c]) = {}
  <2>1. ASSUME NEW s \in now'..(until'[c] - 1) PROVE Blocks(c, s)'
    <3>1. s \in Int /\ now <= s /\ s \in now..(e - 1)
      BY <1>0, <1>2, <1>4
    <3>2. Blocks(c, s)
      BY <1>2, <1>7, <3>1, InfeasibleIsBlocked
    <3> QED BY <3>1, <3>2, BlocksKept
  <2> QED BY <1>5, <2>1 DEF Asleep
<1> QED BY <1>6, <1>7

\* A sleeper stays asleep for the reason it had, or goes to sleep with one.
LEMMA WakeInvStep == WakeInv /\ [Next]_vars => WakeInv'
<1> SUFFICES ASSUME WakeInv, [Next]_vars PROVE WakeInv'
  OBVIOUS
<1>1. WindowInv /\ WindowInv' /\ TypeOK /\ TypeOK' /\ Capped
  BY WindowInvStep, TypeInductive DEF WakeInv, WindowInv, AirInv
<1>2. ASSUME NEW c \in Command PROVE Asleep(c)'
  <2>1. SUFFICES ASSUME stage'[c] = "held", c \in sleepers' PROVE Asleep(c)'
    BY DEF Asleep
  <2>2. Asleep(c) /\ WakesOrCalm
    BY <1>1, WakeFlow DEF WakeInv
  <2>3. Calm
    BY <2>1, <2>2 DEF WakesOrCalm
  <2>4. CASE stage[c] = "held" /\ c \in sleepers /\ until'[c] = until[c]
    BY <1>1, <2>2, <2>3, <2>4, AsleepKept
  <2>5. CASE /\ Hold(c, Decision(on[c], PlanOf[c]).earliest)
             /\ Decision(on[c], PlanOf[c]).kind = "wait" /\ now' = now
    BY <1>1, <2>3, <2>5, AsleepAtFirst
  <2> QED BY <2>1, <2>2, <2>4, <2>5 DEF WakesOrCalm
<1> QED BY <1>1, <1>2 DEF WakeInv

\* A held command whose air is free is never left asleep.
THEOREM NoWakeupIsLost == Spec => []NoLostWakeup
<1>1. Init => WakeInv
  BY WindowInvInit DEF WakeInv, Init, CalendarInit, Asleep
<1>2. WakeInv => NoLostWakeup
  <2>1. SUFFICES ASSUME WakeInv, NEW c \in Command, stage[c] = "held", ~Runnable(c)
                 PROVE  Decision(on[c], PlanOf[c]).kind = "wait"
    BY DEF NoLostWakeup
  <2>2. /\ TypeOK /\ Capped /\ now \in Nat /\ until[c] \in Int /\ on[c] \in Bridge
        /\ PlanOf[c] \in Plan /\ drains \in [Bridge -> Nat]
    BY <2>1 DEF WakeInv, WindowInv, AirInv, TypeOK, CalendarTypeOK
  <2>3. c \in sleepers /\ now < until[c]
    BY <2>1, <2>2 DEF Runnable
  <2>4. /\ ~closed /\ ~(Cardinality(online) < MinBridges)
        /\ \/ \E q \in pending : q.bridge # on[c] /\ q.expires >= until[c]
           \/ \A s \in now..(until[c] - 1) : Blocks(c, s)
    <3>1. online \in SUBSET Bridge
      BY <2>2 DEF TypeOK, CalendarTypeOK
    <3>2. Cardinality(online) \in Nat
      BY <3>1, FS_Subset, FS_CardinalityType
    <3> QED BY <2>1, <2>3, <3>2 DEF WakeInv, Asleep
  <2>5. CASE OthersPending(on[c]) # {}
    BY <2>4, <2>5 DEF Decision
  <2>6. CASE OthersPending(on[c]) = {}
    <3>1. ~\E q \in pending : q.bridge # on[c] /\ q.expires >= until[c]
      <4>1. \A q \in pending : q.expires \in Nat
        BY <2>2 DEF TypeOK, CalendarTypeOK, PendingPlan
      <4> QED BY <2>2, <2>3, <2>6, <4>1 DEF OthersPending, LivePending
    <3>2. Blocks(c, now)
      <4>1. now \in now..(until[c] - 1)
        BY <2>2, <2>3
      <4> QED BY <2>4, <3>1, <4>1
    <3>3. ~Feasible(on[c], PlanOf[c], now)
      BY <2>2, <3>2 DEF Blocks, Feasible, LiveDrains, OthersReserved, LiveReservations
    <3>4. \E k \in 1..MaxPasses : Feasible(on[c], PlanOf[c], Tries(on[c], PlanOf[c])[k])
      BY <2>2, TriesSettle
    <3> QED BY <2>4, <2>6, <3>3, <3>4 DEF Decision
  <2> QED BY <2>5, <2>6
<1> QED BY <1>1, <1>2, WakeInvStep, PTL DEF Spec
=============================================================================
