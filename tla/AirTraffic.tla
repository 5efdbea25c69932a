----------------------------- MODULE AirTraffic -----------------------------
(***************************************************************************)
(* The calendar of AirCalendar, driven by the hub (transport.py) and by    *)
(* the radios.  The hub runs at most one ordinary command at a time and    *)
(* any number of STOPs; the loop of _ordered_publish asks the calendar,    *)
(* sleeps, and asks again.  A bridge (firmware, external) starts what it   *)
(* was given some time later, paces its own airtime, and reports.          *)
(*                                                                         *)
(* rfAt, flushAt, seen, bypass, lost and evicted are history: what was     *)
(* really on the air, what had been admitted before, who was allowed to    *)
(* ignore the calendar, whose record the calendar gave up, and whose STOP  *)
(* window it had no room for.                                              *)
(***************************************************************************)
EXTENDS AirCalendar

CONSTANTS PlanOf,        \* the plan of each command
          StopCommand,   \* the commands that are explicit STOPs
          MaxHold,       \* MAX_AIR_HOLD_MS
          StartTTL,      \* ack timeout + started timeout
          StartOnline,   \* the bridge snapshots a run may start from:
          StartBoot,     \*   who is online, and which boots /info has shown
          MaxTime,       \* bound: last instant of a run
          MaxUpsets      \* bound: adverse events (see Upset) during a run

ASSUME TrafficAssumption ==
  /\ PlanOf \in [Command -> Plan]
  /\ \A c \in Command : PlanOf[c].action > 0
  /\ StopCommand \subseteq Command
  /\ MaxHold \in Nat /\ StartTTL \in Nat \ {0}
  /\ StartOnline \subseteq SUBSET Bridge
  /\ StartBoot \subseteq [Bridge -> Nat]
  /\ MaxTime \in Nat /\ MaxUpsets \in Nat

\* A STOP with a window of its own fires after the action train, and a body
\* that carries one is a movement, whose every copy holds the air for several
\* times GUARD_MS.
ASSUME StopsAreLate ==
  \A c \in Command : HasFuture(PlanOf[c]) => PlanOf[c].offset >= Guard

VARIABLES
  stage,       \* where each command is
  on,          \* the bridge each command was routed to
  heldSince,   \* hold_started of a held command
  until,       \* when its wait times out
  upsets,      \* adverse events so far
  admitAt,     \* when it was published
  rfAt,        \* when its train really started
  flushAt,     \* when its owed STOP was flushed early
  seen,        \* the commands published before it
  bypass,      \* published without a calendar verdict
  lost,        \* no longer tracked although it may still transmit
  evicted      \* its STOP window fell out of a full calendar

hub == <<stage, on, heldSince, until, upsets>>
history == <<admitAt, rfAt, flushAt, seen, bypass, lost, evicted>>
vars == <<calendarVars, hub, history>>

Never == -1

\* "adrift": the hub gave up on it, but the bridge may still start it.
Stages == {"idle", "asking", "held", "published", "on_air", "started", "adrift", "gone"}

\* The stages in which a command occupies the hub's worker.
Running == {"asking", "held", "published", "on_air"}

Published == {c \in Command : stage[c] \notin {"idle", "asking", "held"} /\ admitAt[c] # Never}

TrainEnd(c) == Immediate(PlanOf[c], rfAt[c]).hi - Guard

\* The fail-safe STOP the bridge still owes, at the instant it will fire.
Owes(c) == stage[c] = "started" /\ HasFuture(PlanOf[c]) /\ flushAt[c] = Never
StopTrain(c) == [lo |-> rfAt[c] + PlanOf[c].offset,
                 hi |-> rfAt[c] + PlanOf[c].offset + PlanOf[c].stop]

Runnable(c) ==
  \/ stage[c] = "asking"
  \/ stage[c] = "held" /\ (c \notin sleepers \/ now >= until[c])

TypeOK ==
  /\ CalendarTypeOK
  /\ stage \in [Command -> Stages]
  /\ on \in [Command -> Bridge]
  /\ heldSince \in [Command -> Nat \cup {Never}]
  /\ until \in [Command -> Int]
  /\ upsets \in Nat
  /\ admitAt \in [Command -> Nat \cup {Never}]
  /\ rfAt \in [Command -> Nat \cup {Never}]
  /\ flushAt \in [Command -> Nat \cup {Never}]
  /\ seen \in [Command -> SUBSET Command]
  /\ bypass \in SUBSET Command
  /\ lost \in SUBSET Command
  /\ evicted \in SUBSET Command

Init ==
  /\ CalendarInit
  /\ online \in StartOnline
  /\ boot \in StartBoot
  /\ upsets = 0
  /\ stage = [c \in Command |-> "idle"]
  /\ on \in [Command -> Bridge]
  /\ heldSince = [c \in Command |-> Never]
  /\ until = [c \in Command |-> 0]
  /\ admitAt = [c \in Command |-> Never]
  /\ rfAt = [c \in Command |-> Never]
  /\ flushAt = [c \in Command |-> Never]
  /\ seen = [c \in Command |-> {}]
  /\ bypass = {}
  /\ lost = {}
  /\ evicted = {}

----------------------------------------------------------------------------
(* The hub. *)

\* Everything that is not the undisturbed life of a command: a cancellation,
\* a timeout, a refusal, a displacement, a fault, a bridge change, the close.
Upset ==
  /\ upsets < MaxUpsets
  /\ upsets' = upsets + 1

Goto(c, s) == stage' = [stage EXCEPT ![c] = s]

\* The calendar dropped the plans that expired: nobody tracks them any more.
LoseExpired == lost' = lost \cup Expired

ClearHold(c) ==
  /\ heldSince' = [heldSince EXCEPT ![c] = Never]
  /\ until' = [until EXCEPT ![c] = 0]

\* The worker pops an ordinary command when it has finished the previous one;
\* a STOP takes the fast lane at any time.
Request(c) ==
  /\ stage[c] = "idle" /\ ~closed
  /\ c \in StopCommand \/ \A d \in Command \ StopCommand : stage[d] \notin Running
  /\ Goto(c, "asking")
  /\ UNCHANGED <<calendarVars, on, heldSince, until, upsets, history>>

\* hold_started: the first turn of the loop that had to wait.
Since(c) == IF heldSince[c] = Never THEN now ELSE heldSince[c]
Ceiling(c) == Since(c) + MaxHold
CeilingHit(c) == now >= Ceiling(c)

\* Faulty variant: the wait ignores the ceiling.
HoldUnbounded(c, earliest) ==
  /\ heldSince' = [heldSince EXCEPT ![c] = Since(c)]
  /\ until' = [until EXCEPT ![c] = earliest]
  /\ Goto(c, "held")
  /\ DecideAndSleep(c)
  /\ LoseExpired
  /\ UNCHANGED <<admitAt, seen, bypass>>

Hold(c, earliest) ==
  /\ ~CeilingHit(c)
  /\ heldSince' = [heldSince EXCEPT ![c] = Since(c)]
  /\ until' = [until EXCEPT ![c] = IF earliest \in now..Ceiling(c) THEN earliest ELSE Ceiling(c)]
  /\ Goto(c, "held")
  /\ DecideAndSleep(c)
  /\ LoseExpired
  /\ UNCHANGED <<admitAt, seen, bypass>>

\* _finalize_and_publish without boot evidence: the provisional plan is
\* released again and the command is refused.
Refuse(c) ==
  /\ boot[on[c]] = NoBoot
  /\ pending' = LivePending
  /\ drains' = LiveDrains
  /\ reservations' = LiveReservations
  /\ Wake
  /\ Goto(c, "gone")
  /\ ClearHold(c)
  /\ LoseExpired
  /\ UNCHANGED <<admitAt, seen, bypass>>

\* _commit_and_enqueue, then _finalize_and_publish: provision and publish.
\* "free": the calendar cleared the air; "planned": the body has a plan.
Transmit(c, free, planned) ==
  /\ boot[on[c]] # NoBoot
  /\ IF planned THEN Provision(on[c], c, PlanOf[c], StartTTL) ELSE PruneOnly
  /\ Goto(c, "published")
  /\ ClearHold(c)
  /\ admitAt' = [admitAt EXCEPT ![c] = now]
  /\ seen' = [seen EXCEPT ![c] = Published]
  /\ bypass' = IF free THEN bypass ELSE bypass \cup {c}
  /\ lost' = lost \cup Expired \cup (IF planned /\ HasRoom THEN {} ELSE {c})

Publish(c, free, planned) == Refuse(c) \/ Transmit(c, free, planned)

\* One turn of the loop of _ordered_publish under the publish lock.  A STOP
\* only probes the calendar.
Attempt(c) ==
  /\ Runnable(c)
  /\ LET d == Decision(on[c], PlanOf[c])
     IN  \/ c \in StopCommand /\ Publish(c, FALSE, TRUE)
         \/ c \notin StopCommand /\ d.kind = "go" /\ Publish(c, TRUE, TRUE)
         \/ c \notin StopCommand /\ d.kind \in {"off", "fail_open"} /\ Publish(c, FALSE, TRUE)
         \/ c \notin StopCommand /\ d.kind = "wait" /\ Hold(c, d.earliest)
         \/ c \notin StopCommand /\ d.kind = "wait" /\ CeilingHit(c) /\ Publish(c, FALSE, TRUE)
  /\ UNCHANGED <<now, online, boot, closed, on, upsets, rfAt, flushAt, evicted>>

\* A body the planner declines, a calendar fault, and a raw frame forced open
\* for a following STOP all publish without asking.
AttemptUnasked(c) ==
  /\ Runnable(c) /\ c \notin StopCommand
  /\ Upset
  /\ \E planned \in BOOLEAN : Publish(c, FALSE, planned)
  /\ UNCHANGED <<now, online, boot, closed, on, rfAt, flushAt, evicted>>

\* A held command is retired before it was published: its caller cancelled, a
\* press displaced it, a STOP preempted it.  All of them wake the calendar.
Retire(c) ==
  /\ stage[c] = "held"
  /\ Upset
  /\ Goto(c, "gone")
  /\ ClearHold(c)
  /\ Wake
  /\ UNCHANGED <<now, online, boot, pending, drains, reservations, closed, on, history>>

\* The admission or the started wait times out, or the caller's task is
\* cancelled after the publish: release_pending with a fail-open reason.
GiveUp(c) ==
  /\ stage[c] \in {"published", "on_air"}
  /\ Upset
  /\ Goto(c, IF stage[c] = "published" THEN "adrift" ELSE "started")
  /\ ReleasePending(on[c], c)
  /\ lost' = lost \cup {c}
  /\ UNCHANGED <<now, online, boot, closed, on, heldSince, until,
                 admitAt, rfAt, flushAt, seen, bypass, evicted>>

----------------------------------------------------------------------------
(* The bridges (external) and what the hub does with their statuses. *)

\* The firmware paces its own trains.
BridgeIdle(b) ==
  \A d \in Command : on[d] = b /\ rfAt[d] # Never => TrainEnd(d) <= now

StartRf(c) ==
  /\ stage[c] \in {"published", "adrift"} /\ BridgeIdle(on[c])
  /\ Goto(c, IF stage[c] = "published" THEN "on_air" ELSE "started")
  /\ rfAt' = [rfAt EXCEPT ![c] = now]
  /\ UNCHANGED <<calendarVars, on, heldSince, until, upsets,
                 admitAt, flushAt, seen, bypass, lost, evicted>>

\* _insert_reservation drops the furthest window of a full calendar.
Evicted(c) ==
  IF Cardinality(LiveReservations) < StateCap THEN {}
  ELSE ({c} \cup {r.cmd : r \in LiveReservations}) \ {r.cmd : r \in reservations'}

\* _handle_started_status: the age in the status dates the start exactly.
StartedStatus(c) ==
  /\ stage[c] = "on_air"
  /\ \E reported \in {NoBoot, boot[on[c]]} : Started(on[c], c, rfAt[c], reported)
  /\ Goto(c, "started")
  /\ LoseExpired
  /\ evicted' = evicted \cup Evicted(c)
  /\ UNCHANGED <<now, online, boot, closed, on, heldSince, until, upsets,
                 admitAt, rfAt, flushAt, seen, bypass>>

\* The bridge refuses the command.
Rejected(c) ==
  /\ stage[c] = "published"
  /\ Upset
  /\ Goto(c, "gone")
  /\ ReleasePending(on[c], c)
  /\ UNCHANGED <<now, online, boot, closed, on, heldSince, until, history>>

\* A command that never started, or whose STOP is still to come.
Unfinished(c) == stage[c] = "published" \/ (Owes(c) /\ now < StopTrain(c).lo)

\* A newer overlapping command replaced this one on its bridge: before its
\* start it never transmits, after it the owed STOP is flushed at once.
DisplacedStatus(c) ==
  /\ Unfinished(c)
  /\ Upset
  /\ Displaced(on[c], c)
  /\ IF stage[c] = "published"
       THEN Goto(c, "gone") /\ UNCHANGED flushAt
       ELSE flushAt' = [flushAt EXCEPT ![c] = now] /\ UNCHANGED stage
  /\ LoseExpired
  /\ UNCHANGED <<now, online, boot, closed, on, heldSince, until, admitAt, rfAt, seen, bypass,
                 evicted>>

\* A disarm was acknowledged: the command is aborted, or its STOP is cancelled.
DisarmedStatus(c) ==
  /\ Unfinished(c)
  /\ Upset
  /\ Disarmed(on[c], c)
  /\ Goto(c, "gone")
  /\ LoseExpired
  /\ UNCHANGED <<now, online, boot, closed, on, heldSince, until,
                 admitAt, rfAt, flushAt, seen, bypass, evicted>>

\* notify_bridge_change.  A reboot empties the bridge's RAM: what it had not
\* started never starts, and the STOPs it owed or was sending are cut off.
CutOff(c, b) ==
  /\ on[c] = b /\ boot[b] # NoBoot
  /\ stage[c] \in {"published", "adrift"} \/ (Owes(c) /\ now < StopTrain(c).hi)

BridgeChange(b) ==
  /\ ~closed
  /\ Upset
  /\ \/ /\ UpdateBridges(IF b \in online THEN online \ {b} ELSE online \cup {b}, boot)
        /\ UNCHANGED stage
     \/ /\ UpdateBridges(online, [boot EXCEPT ![b] = @ + 1])
        /\ stage' = [c \in Command |-> IF CutOff(c, b) THEN "gone" ELSE stage[c]]
  /\ lost' = lost \cup {q.cmd : q \in pending \ pending'}
  /\ UNCHANGED <<now, closed, on, heldSince, until, admitAt, rfAt, flushAt, seen, bypass,
                 evicted>>

Close ==
  /\ ~closed
  /\ Upset
  /\ CloseCalendar
  /\ stage' = [c \in Command |-> IF stage[c] \in {"asking", "held"} THEN "gone" ELSE stage[c]]
  /\ heldSince' = [c \in Command |-> Never]
  /\ until' = [c \in Command |-> 0]
  /\ lost' = lost \cup Published
  /\ UNCHANGED <<now, online, boot, on, admitAt, rfAt, flushAt, seen, bypass, evicted>>

\* The event loop runs what is ready before time is read again.
Tick ==
  /\ now < MaxTime
  /\ \A c \in Command : ~Runnable(c)
  /\ now' = now + 1
  /\ UNCHANGED <<online, boot, closed, calendar, hub, history>>

Next ==
  \/ \E c \in Command :
       \/ Request(c) \/ Attempt(c) \/ AttemptUnasked(c) \/ Retire(c) \/ GiveUp(c)
       \/ StartRf(c) \/ StartedStatus(c) \/ Rejected(c)
       \/ DisplacedStatus(c) \/ DisarmedStatus(c)
  \/ \E b \in Bridge : BridgeChange(b)
  \/ Close
  \/ Tick

Spec == Init /\ [][Next]_vars

----------------------------------------------------------------------------
(* Properties. *)

\* Two bridges never transmit over each other, unless the later admitted of
\* the two was let through without a verdict (a STOP, arbitration off, a
\* failure path) or the calendar had already given up the earlier one's
\* record.  This is what decide/provision/started exist for.
NoCollision ==
  \A u \in Command \ bypass : \A t \in seen[u] \ lost :
    on[t] # on[u] /\ rfAt[t] # Never /\ rfAt[u] # Never => TrainEnd(t) <= rfAt[u]

\* A start delay of at most Guard cannot bring a cleared train into a
\* fail-safe STOP another bridge still owed when it was cleared, nor the two
\* STOPs into each other (the guard on both sides of a reservation), unless
\* the calendar was too full to keep the owed STOP's window.
StopWindowsKept ==
  \A u \in Command \ bypass : \A t \in seen[u] \ (lost \cup evicted) :
    on[t] # on[u] /\ Owes(t) /\ rfAt[u] # Never /\ rfAt[u] <= admitAt[u] + Guard =>
      /\ ~Intersects([lo |-> rfAt[u], hi |-> TrainEnd(u)], StopTrain(t))
      /\ HasFuture(PlanOf[u]) => ~Intersects(StopTrain(u), StopTrain(t))

\* No lost wake-up: a held command whose air is free (or whose arbitration
\* went off) is never left asleep on a stale generation (_wake in every
\* operation that can only make the air freer).
NoLostWakeup ==
  \A c \in Command :
    stage[c] = "held" /\ Decision(on[c], PlanOf[c]).kind # "wait" => Runnable(c)

\* A hold is bounded by the ceiling whatever the other bridges do.
HoldBounded ==
  \A c \in Command : stage[c] = "held" => now <= heldSince[c] + MaxHold

\* The push-forward loop of decide returns the LEAST feasible instant, and its
\* pass bound never fires, for every reachable calendar, bridge and plan.
EarliestIsLeast ==
  \A b \in Bridge, c \in Command :
    LET d == Decision(b, PlanOf[c])
    IN  /\ d.kind # "fail_open"
        /\ d.kind = "wait" /\ OthersPending(b) = {} =>
             /\ Feasible(b, PlanOf[c], d.earliest)
             /\ \A s \in now..(d.earliest - 1) : ~Feasible(b, PlanOf[c], s)

\* What a tracked command still owes the air is on the calendar: its pending
\* plan until its start is known, its drain while it transmits.  (Its STOP
\* window: StopWindowsKept.)
OwedIsTracked ==
  ~closed =>
    \A t \in Published \ lost :
      /\ stage[t] \in {"published", "on_air"} => \E q \in pending : q.cmd = t
      /\ stage[t] = "started" /\ TrainEnd(t) > now => drains[on[t]] >= TrainEnd(t)
=============================================================================
