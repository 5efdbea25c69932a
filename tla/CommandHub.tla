----------------------------- MODULE CommandHub -----------------------------
(***************************************************************************)
(* ZemismartHub (transport.py): how one request becomes at most one        *)
(* publication.  Every caller holds a future; the hub keeps a queue with a *)
(* single worker, a fast lane for STOPs, publish barriers that turn the    *)
(* order of requests into the order of publications, and one publish lock. *)
(* Between two awaits a coroutine is atomic: an action is what runs from   *)
(* one suspension point to the next, and everything else (a caller giving  *)
(* up, a button on the physical remote, a status, an unload, the close)    *)
(* may come in between.                                                    *)
(*                                                                         *)
(* All commands address one remote; commands of different remotes never    *)
(* overlap and only share the worker and the lock.  Time is abstract: a    *)
(* timeout, the end of a coalescing window or of an air wait may come at   *)
(* any moment.  The calendar itself is AirTraffic.                         *)
(***************************************************************************)
EXTENDS Integers, FiniteSetsExt, SequencesExt, QueueOps

CONSTANTS Command,       \* one per request
          Channel,
          Chan,          \* the channels a request addresses
          Kind,          \* "move", "raw" or "stop"
          Key,           \* coalesce_key of the moves that may coalesce, else NoKey
          Measured,      \* the multi-frame moves, which carry an overlap token
          Owner,         \* the config entry that issues a request
          Casts          \* the instances to explore, one of them per behaviour

Nobody == "nobody"
NoKey == "none"

ASSUME HubAssumption ==
  /\ Nobody \notin Command
  /\ Chan \in [Command -> (SUBSET Channel) \ {{}}] /\ \A c \in Command : IsFiniteSet(Chan[c])
  /\ Kind \in [Command -> {"move", "raw", "stop"}]
  /\ \A c \in Command : Key[c] # NoKey => Kind[c] = "move" /\ Cardinality(Chan[c]) = 1
  /\ Measured \subseteq {c \in Command : Kind[c] = "move" /\ Key[c] = NoKey}
  /\ Casts \subseteq [commands: SUBSET Command,    \* who makes a request
                      departing: SUBSET {Owner[c] : c \in Command},  \* entries that may unload
                      reported: SUBSET Command,    \* bound: whose bridge statuses arrive
                      cap: Nat,                    \* _MAX_OUTSTANDING_COMMANDS
                      holds: Nat,                  \* bound: air waits of one command
                      upsets: Nat]                 \* bound: adverse events (see Upset)

VARIABLES
  cast,        \* the instance of this behaviour
  answer,      \* each caller's future
  pc,          \* where the request's coroutine is suspended
  queue, inflight, fast, lock,
  members,     \* the requests an entry stands for, in merge order
  chans,       \* the channels of its frame
  barriers,    \* the entries it must publish after
  published,   \* the entries whose publish event is set
  preempted,   \* air_preempted
  bypass,      \* air_bypass_requested
  holds,       \* air waits so far
  pressSeq, pubSeq,
  pressSeen, pubSeen,     \* the generations a request captured
  admission, started,     \* the two correlated futures of its command id
  ledger,      \* its entry in the command ledger
  closed, upsets,
  requested,   \* history: the requests in order
  log,         \* history: the frames handed to the broker, in order
  since        \* history: how long the log was at its request (measurement)

lanes == <<queue, inflight, fast, lock>>
entries == <<members, chans, barriers, published, preempted, bypass, holds>>
tokens == <<pressSeq, pubSeq, pressSeen, pubSeen>>
lifecycle == <<admission, started, ledger>>
history == <<requested, log, since>>
vars == <<cast, answer, pc, lanes, entries, tokens, lifecycle, closed, upsets, history>>

Pcs == {"idle", "measured", "queued", "merged", "barrier", "lock", "yield", "airwait",
        "handoff", "admission", "started", "done"}

Running == fast \cup ({inflight} \ {Nobody})

Answers == {"none", "open", "acked", "superseded", "failed", "cancelled"}

Typed ==
  /\ cast \in Casts
  /\ answer \in [Command -> Answers]
  /\ pc \in [Command -> Pcs]
  /\ queue \in Seq(Command)
  /\ inflight \in Command \cup {Nobody}
  /\ fast \in SUBSET Command
  /\ lock \in Command \cup {Nobody}
  /\ members \in [Command -> Seq(Command)]
  /\ chans \in [Command -> SUBSET Channel]
  /\ barriers \in [Command -> SUBSET Command]
  /\ published \in SUBSET Command /\ preempted \in SUBSET Command /\ bypass \in SUBSET Command
  /\ holds \in [Command -> Nat]
  /\ pressSeq \in [Channel -> Nat] /\ pubSeq \in [Channel -> Nat]
  /\ pressSeen \in [Command -> [Channel -> Nat]] /\ pubSeen \in [Command -> [Channel -> Nat]]
  /\ admission \in [Command -> {"open", "accepted", "rejected", "displaced"}]
  /\ started \in [Command -> {"open", "started", "displaced"}]
  /\ ledger \in [Command -> {"none", "pending", "confirmed", "drained", "released", "gone"}]
  /\ closed \in BOOLEAN /\ upsets \in Nat
  /\ requested \in Seq(Command)
  /\ log \in Seq([cmd: Command, live: SUBSET Command, chans: SUBSET Channel])
  /\ since \in [Command -> Nat]

TypeOK ==
  /\ Typed
  /\ \A c \in Command :
       /\ pc[c] \in {"yield", "handoff"} <=> lock = c
       /\ pc[c] = "queued" <=> c \in Range(queue)
       /\ c \in Running => pc[c] \notin {"idle", "measured", "queued", "merged", "done"}

Init ==
  /\ cast \in Casts
  /\ answer = [c \in Command |-> "none"]
  /\ pc = [c \in Command |-> "idle"]
  /\ queue = <<>> /\ inflight = Nobody /\ fast = {} /\ lock = Nobody
  /\ members = [c \in Command |-> <<c>>]
  /\ chans = Chan
  /\ barriers = [c \in Command |-> {}]
  /\ published = {} /\ preempted = {} /\ bypass = {}
  /\ holds = [c \in Command |-> 0]
  /\ pressSeq = [n \in Channel |-> 0] /\ pubSeq = pressSeq
  /\ pressSeen = [c \in Command |-> pressSeq] /\ pubSeen = pressSeen
  /\ admission = [c \in Command |-> "open"]
  /\ started = [c \in Command |-> "open"]
  /\ ledger = [c \in Command |-> "none"]
  /\ closed = FALSE /\ upsets = 0
  /\ requested = <<>> /\ log = <<>>
  /\ since = [c \in Command |-> 0]

----------------------------------------------------------------------------
(* What the code asks about one entry. *)

Goto(c, p) == pc' = [pc EXCEPT ![c] = p]

Overlaps(d, c) == chans[d] \cap chans[c] # {}

\* The callers of an entry that still wait.
Live(c) == {m \in Range(members[c]) : answer[m] = "open"}

\* _rebuild_from_live_contributors: only a batch has contributors.
Rebuilt(c) ==
  IF Key[c] = NoKey \/ Live(c) = {} THEN chans[c] ELSE UNION {Chan[m] : m \in Live(c)}

\* The press token of a batch is rebuilt too: per channel, the generation its
\* LAST live contributor captured.
LastMember(c, n) == Last(Only(members[c], {m \in Command : n \in Chan[m]}))  \* faulty

LastLive(c, n) == Last(Only(members[c], {m \in Live(c) : n \in Chan[m]}))

PressToken(c) ==
  IF Key[c] = NoKey \/ Live(c) = {} THEN SumFunctionOnSet(pressSeen[c], chans[c])
  ELSE SumFunctionOnSet([n \in Rebuilt(c) |-> pressSeen[LastLive(c, n)][n]], Rebuilt(c))

PressStale(c) == PressToken(c) # SumFunctionOnSet(pressSeq, Rebuilt(c))

\* Faulty variant: the token counts presses only.
OverlapByPress(c) == c \in Measured /\ PressStale(c)

OverlapStale(c) == c \in Measured /\ SumFunctionOnSet(pubSeen[c], chans[c]) # SumFunctionOnSet(pubSeq, chans[c])

\* Faulty variant: a STOP has not marked it.
NotPreempted(c) == Live(c) = {} \/ OverlapStale(c) \/ PressStale(c)

\* _revalidated_body refuses: nobody waits any more, a STOP preempted it, or
\* a publication or a press overtook it.
Refused(c) == Live(c) = {} \/ c \in preempted \/ OverlapStale(c) \/ PressStale(c)

AnyPublished(S) == S    \* faulty

Unpublished(S) == S \ published

\* The hub's outstanding ordinary commands, resolved or not.
Outstanding == {c \in Range(queue) \cup Running : Kind[c] # "stop"}

----------------------------------------------------------------------------
(* Callers. *)

\* Everything a run need not contain: a caller that gives up, a press on the
\* physical remote, a fault, an unexpected status, an unload, the close.
Upset ==
  /\ upsets < cast.upsets
  /\ upsets' = upsets + 1

\* overlap_token: what a multi-frame operation captures between its frames.
Measure(c) ==
  /\ c \in Measured \cap cast.commands /\ pc[c] = "idle"
  /\ Goto(c, "measured")
  /\ pubSeen' = [pubSeen EXCEPT ![c] = pubSeq]
  /\ since' = [since EXCEPT ![c] = Len(log)]
  /\ UNCHANGED <<answer, lanes, entries, pressSeq, pubSeq, pressSeen, lifecycle,
                 closed, upsets, requested, log>>

\* _overlap_publish_barriers
Barriers(c, events) == {d \in Running \ events : Overlaps(d, c)}

\* Faulty variant: the close is not looked at again under the queue's lock.
QueueUnclosed(c) ==
  /\ Kind[c] # "stop" /\ Cardinality(Outstanding) < cast.cap
  /\ Goto(c, "queued")
  /\ answer' = [answer EXCEPT ![c] = "open"]
  /\ queue' = Append(queue, c)
  /\ barriers' = [barriers EXCEPT ![c] = Barriers(c, published)]
  /\ UNCHANGED <<inflight, fast, lock, members, chans, published, preempted, bypass, holds>>

\* Faulty variant: only the entries somebody still waits for are counted.
QueueCountingLive(c) ==
  /\ Kind[c] # "stop" /\ ~closed /\ Cardinality({d \in Outstanding : Live(d) # {}}) < cast.cap
  /\ Goto(c, "queued")
  /\ answer' = [answer EXCEPT ![c] = "open"]
  /\ queue' = Append(queue, c)
  /\ barriers' = [barriers EXCEPT ![c] = Barriers(c, published)]
  /\ UNCHANGED <<inflight, fast, lock, members, chans, published, preempted, bypass, holds>>

\* An ordinary command joins the end of the queue.
QueueOrdinary(c) ==
  /\ Kind[c] # "stop" /\ ~closed /\ Cardinality(Outstanding) < cast.cap
  /\ Goto(c, "queued")
  /\ answer' = [answer EXCEPT ![c] = "open"]
  /\ queue' = Append(queue, c)
  /\ barriers' = [barriers EXCEPT ![c] = Barriers(c, published)]
  /\ UNCHANGED <<inflight, fast, lock, members, chans, published, preempted, bypass, holds>>

\* A request the hub does not take: it is closed, or full.
Refuse(c) ==
  /\ \/ closed /\ answer' = [answer EXCEPT ![c] = "superseded"]
     \/ /\ ~closed /\ Kind[c] # "stop" /\ Cardinality(Outstanding) >= cast.cap
        /\ answer' = [answer EXCEPT ![c] = "failed"]
  /\ Goto(c, "done")
  /\ UNCHANGED <<lanes, entries>>

\* A STOP retires the queued moves it overlaps, preempts an unpublished one
\* that the worker already holds, and takes the fast lane unless a frame it
\* overlaps is still queued: then it goes directly behind that one.
AdmitStop(c) ==
  LET retired == {d \in Range(queue) : Kind[d] = "move" /\ Overlaps(d, c)}
      kept == Only(queue, Command \ retired)
      racing == {d \in Unpublished({inflight} \ {Nobody}) : Overlaps(d, c)}
      cut == {d \in racing : Kind[d] = "move" /\ pc[d] = "airwait"}
      ahead == {i \in DOMAIN kept : Overlaps(kept[i], c) /\ Live(kept[i]) # {}}
  IN  /\ Kind[c] = "stop" /\ ~closed
      /\ answer' = [m \in Command |->
                      IF m = c THEN "open"
                      ELSE IF \E d \in cut \cup retired : m \in Live(d) THEN "superseded"
                      ELSE answer[m]]
      /\ published' = published \cup cut
      /\ preempted' = preempted \cup {d \in racing : Kind[d] = "move"}
      /\ barriers' = [barriers EXCEPT ![c] = Barriers(c, published \cup cut)]
      /\ bypass' = bypass \cup {d \in racing : Kind[d] # "move"}
                          \cup (IF ahead = {} THEN {} ELSE {kept[Max(ahead)]})
      /\ IF ahead = {}
            THEN queue' = kept /\ fast' = fast \cup {c}
            ELSE queue' = InsertAt(kept, Max(ahead) + 1, c) /\ UNCHANGED fast
      /\ pc' = [d \in Command |->
                  IF d = c THEN (IF ahead = {} THEN "barrier" ELSE "queued")
                  ELSE IF d \in retired THEN "done" ELSE pc[d]]
      /\ UNCHANGED <<inflight, lock, members, chans, holds>>

\* async_transmit, async_send_raw and _async_enqueue.
Request(c) ==
  /\ c \in cast.commands
  /\ pc[c] = IF c \in Measured THEN "measured" ELSE "idle"
  /\ QueueOrdinary(c) \/ AdmitStop(c) \/ Refuse(c)
  /\ pressSeen' = [pressSeen EXCEPT ![c] = pressSeq]
  /\ requested' = Append(requested, c)
  /\ since' = IF c \in Measured THEN since ELSE [since EXCEPT ![c] = Len(log)]
  /\ UNCHANGED <<pressSeq, pubSeq, pubSeen, lifecycle, closed, upsets, log>>

\* A caller's task is cancelled: its future is, the worker is not.
Cancel(c) ==
  /\ answer[c] = "open"
  /\ Upset
  /\ answer' = [answer EXCEPT ![c] = "cancelled"]
  /\ UNCHANGED <<pc, lanes, entries, tokens, lifecycle, closed, history>>

----------------------------------------------------------------------------
(* The worker. *)

\* _async_pop looks for the first entry somebody still waits for.
Heads == {i \in DOMAIN queue : Live(queue[i]) # {}}
After(k) == SubSeq(queue, k + 1, Len(queue))

\* Faulty variant: a sibling may overtake what is queued before it.
AbsorbAll(h, rest, cut) ==
  {i \in 1..cut : Key[rest[i]] = Key[h] /\ Live(rest[i]) # {}}

\* _coalesce_queued_movements: the siblings that arrived before the window
\* closed, except behind a retained command that overlaps them.
Absorbed(h, rest, cut) ==
  LET taken[i \in 0..Len(rest)] ==
        IF i = 0 THEN {}
        ELSE IF /\ i <= cut /\ Key[rest[i]] = Key[h] /\ Live(rest[i]) # {}
                /\ \A j \in 1..(i - 1) :
                     Live(rest[j]) # {} /\ j \notin taken[i - 1] => ~Overlaps(rest[j], rest[i])
          THEN taken[i - 1] \cup {i}
          ELSE taken[i - 1]
  IN  taken[Len(rest)]

\* The worker drops resolved heads and keeps waiting for the window.
Discard ==
  /\ inflight = Nobody /\ queue # <<>> /\ Live(Head(queue)) = {}
  /\ queue' = IF Heads = {} THEN <<>> ELSE SubSeq(queue, Min(Heads), Len(queue))
  /\ pc' = [c \in Command |->
              IF \E i \in DOMAIN queue : queue[i] = c /\ \A k \in Heads : i < k
                THEN "done" ELSE pc[c]]
  /\ UNCHANGED <<answer, inflight, fast, lock, entries, tokens, lifecycle, closed, upsets, history>>

PopOne(h, rest) ==
  /\ Key[h] = NoKey
  /\ queue' = rest
  /\ pc' = [c \in Command |->
              IF c = h THEN "barrier"
              ELSE IF c \in Range(queue) \ Range(rest) THEN "done" ELSE pc[c]]
  /\ UNCHANGED <<members, chans, barriers>>

\* The batch: the union of the channels and of the unmet barriers.
PopBatch(h, rest, cut) ==
  LET batch == Absorbed(h, rest, cut)
      siblings == {rest[i] : i \in batch}
      retained == Only(rest, {d \in Command \ siblings : Live(d) # {}})
  IN  /\ Key[h] # NoKey
      /\ queue' = retained
      /\ members' = [members EXCEPT ![h] = @ \o Only(rest, siblings)]
      /\ chans' = [chans EXCEPT ![h] = @ \cup UNION {Chan[d] : d \in siblings}]
      /\ barriers' = [barriers EXCEPT ![h] =
                        @ \cup UNION {barriers[d] \ published : d \in siblings}]
      /\ pc' = [c \in Command |->
                  IF c = h THEN "barrier"
                  ELSE IF c \in siblings THEN "merged"
                  ELSE IF c \in Range(queue) \ Range(retained) THEN "done" ELSE pc[c]]

\* One entry, once its coalescing window has expired.
Pop ==
  /\ inflight = Nobody /\ Heads # {}
  /\ LET k == Min(Heads)
         h == queue[k]
     IN  /\ inflight' = h
         /\ \/ PopOne(h, After(k))
            \/ \E cut \in 0..Len(After(k)) : PopBatch(h, After(k), cut)
  /\ UNCHANGED <<answer, fast, lock, published, preempted, bypass, holds, tokens, lifecycle,
                 closed, upsets, history>>

----------------------------------------------------------------------------
(* One entry, on either lane. *)

\* Faulty variant: the publish event is set by a publication only.
FinishUnreleased(c, result) ==
  /\ answer' = [m \in Command |-> IF m \in Live(c) THEN result ELSE answer[m]]
  /\ Goto(c, "done")
  /\ inflight' = IF inflight = c THEN Nobody ELSE inflight
  /\ fast' = fast \ {c}
  /\ lock' = IF lock = c THEN Nobody ELSE lock
  /\ UNCHANGED <<queue, members, barriers, published, preempted, bypass, holds>>

\* _async_run_direct ends: whoever still waits is answered, the publish event
\* is set, the lane and the lock are free, an unconfirmed ledger entry is
\* retired (the finally of _async_execute).
Finish(c, result) ==
  /\ answer' = [m \in Command |-> IF m \in Live(c) THEN result ELSE answer[m]]
  /\ published' = published \cup {c}
  /\ Goto(c, "done")
  /\ inflight' = IF inflight = c THEN Nobody ELSE inflight
  /\ fast' = fast \ {c}
  /\ lock' = IF lock = c THEN Nobody ELSE lock
  /\ UNCHANGED <<queue, members, barriers, preempted, bypass, holds>>

Retired(c) == ledger' = [ledger EXCEPT ![c] = IF @ = "pending" THEN "gone" ELSE @]

\* Behind the last barrier: the early checks, the choice of a bridge and the
\* registration of the command id, up to the publish lock.
Execute(c) ==
  /\ pc[c] = "barrier" /\ barriers[c] \subseteq published
  /\ \/ Live(c) = {} /\ Finish(c, "superseded") /\ UNCHANGED <<chans, upsets>>
     \/ /\ Live(c) # {}
        /\ chans' = [chans EXCEPT ![c] = Rebuilt(c)]
        /\ \/ (OverlapStale(c) \/ PressStale(c)) /\ Finish(c, "superseded") /\ UNCHANGED upsets
           \/ ~OverlapStale(c) /\ ~PressStale(c) /\ Upset /\ Finish(c, "failed")
           \/ /\ ~OverlapStale(c) /\ ~PressStale(c)
              /\ Goto(c, "lock")
              /\ UNCHANGED <<answer, lanes, members, barriers, published, preempted, bypass,
                             holds, upsets>>
  /\ UNCHANGED <<tokens, lifecycle, closed, history>>

\* Faulty variant: the publish lock is not taken.
AcquireNothing(c) ==
  /\ pc[c] = "lock"
  /\ Goto(c, "yield")
  /\ UNCHANGED <<answer, lanes, entries, tokens, lifecycle, closed, upsets, history>>

\* The publish lock, the first check under it, and sleep(0).
Acquire(c) ==
  /\ pc[c] = "lock" /\ lock = Nobody
  /\ IF Live(c) = {}
       THEN Finish(c, "superseded")
       ELSE /\ lock' = c
            /\ Goto(c, "yield")
            /\ UNCHANGED <<answer, queue, inflight, fast, members, barriers, published,
                           preempted, bypass, holds>>
  /\ UNCHANGED <<chans, tokens, lifecycle, closed, upsets, history>>

\* The calendar makes it wait: the lock is released meanwhile.
Hold(c) ==
  /\ Kind[c] # "stop" /\ c \notin bypass /\ holds[c] < cast.holds
  /\ Goto(c, "airwait")
  /\ lock' = Nobody
  /\ holds' = [holds EXCEPT ![c] = @ + 1]

\* The authoritative checks; then the calendar; then the publisher task is
\* created, still under the lock.
Decide(c) ==
  /\ pc[c] = "yield"
  /\ \/ Refused(c) /\ Finish(c, "superseded") /\ UNCHANGED chans
     \/ /\ ~Refused(c)
        /\ chans' = [chans EXCEPT ![c] = Rebuilt(c)]
        /\ \/ Hold(c)
           \/ Goto(c, "handoff") /\ UNCHANGED <<lock, holds>>
        /\ UNCHANGED <<answer, queue, inflight, fast, members, barriers, published,
                       preempted, bypass>>
  /\ UNCHANGED <<tokens, lifecycle, closed, upsets, history>>

\* The event, the timeout or the ceiling ends the wait.
AirWake(c) ==
  /\ pc[c] = "airwait"
  /\ Goto(c, "lock")
  /\ UNCHANGED <<answer, lanes, entries, tokens, lifecycle, closed, upsets, history>>

Frame(c) == [cmd |-> c, live |-> Live(c), chans |-> Rebuilt(c)]

\* _record_publish and the release of the lock and of the barrier: the
\* coroutine resumes directly behind its publisher task, nothing in between.
Published(c, S) ==
  /\ log' = Append(log, Frame(c))
  /\ ledger' = [ledger EXCEPT ![c] = "pending"]
  /\ Goto(c, "admission")
  /\ lock' = IF lock = c THEN Nobody ELSE lock
  /\ pubSeq' = [n \in Channel |-> IF n \in S THEN pubSeq[n] + 1 ELSE pubSeq[n]]
  /\ published' = published \cup {c}
  /\ UNCHANGED <<answer, queue, inflight, fast, members, barriers, preempted, bypass, holds,
                 pressSeq, pressSeen, pubSeen>>

\* Faulty variant: the publisher task trusts the checks made before the turn
\* of the loop that started it.
HandOffUnchecked(c) ==
  /\ pc[c] = "handoff"
  /\ Published(c, chans[c])
  /\ UNCHANGED <<chans, admission, started, closed, upsets, requested, since>>

\* _finalize_and_publish: the publisher task checks once more, and puts the
\* frame of the live members into the broker's queue.  No boot evidence or a
\* broker that is down makes it fail.
HandOff(c) ==
  /\ pc[c] = "handoff"
  /\ \/ Refused(c) /\ Finish(c, "superseded") /\ UNCHANGED <<chans, tokens, log, ledger, upsets>>
     \/ /\ ~Refused(c) /\ Upset /\ Finish(c, "failed")
        /\ Retired(c) /\ UNCHANGED <<chans, tokens, log>>
     \/ /\ ~Refused(c)
        /\ chans' = [chans EXCEPT ![c] = Rebuilt(c)]
        /\ Published(c, Rebuilt(c))
        /\ UNCHANGED upsets
  /\ UNCHANGED <<admission, started, closed, requested, since>>

----------------------------------------------------------------------------
(* After the publication: two futures resolved by the bridge's statuses. *)

\* _await_status
TakeAdmission(c) ==
  /\ pc[c] = "admission" /\ admission[c] # "open"
  /\ IF admission[c] = "accepted"
       THEN /\ Goto(c, "started")
            /\ UNCHANGED <<answer, lanes, entries, ledger>>
       ELSE /\ Finish(c, IF admission[c] = "rejected" THEN "failed" ELSE "superseded")
            /\ Retired(c) /\ UNCHANGED chans
  /\ UNCHANGED <<tokens, admission, started, closed, upsets, history>>

\* _await_started, and the confirmation of the ledger entry.
TakeStarted(c) ==
  /\ pc[c] = "started" /\ started[c] # "open"
  /\ IF started[c] = "started"
       THEN /\ Finish(c, "acked")
            /\ ledger' = [ledger EXCEPT ![c] = IF @ = "pending" THEN "confirmed" ELSE @]
       ELSE Finish(c, "superseded") /\ Retired(c)
  /\ UNCHANGED <<chans, tokens, admission, started, closed, upsets, history>>

\* Neither wait is unbounded.
Timeout(c) ==
  /\ \/ pc[c] = "admission" /\ admission[c] = "open"
     \/ pc[c] = "started" /\ started[c] = "open"
  /\ Finish(c, "failed") /\ Retired(c)
  /\ UNCHANGED <<chans, tokens, admission, started, closed, upsets, history>>

\* A correlated status needs a frame on its way and a waiter that is left.
Pending(c) == pc[c] \in {"admission", "started"}

Aired(c) == \E i \in DOMAIN log : log[i].cmd = c

Accepted(c) ==
  /\ c \in cast.reported /\ Pending(c) /\ admission[c] = "open"
  /\ admission' = [admission EXCEPT ![c] = "accepted"]
  /\ UNCHANGED <<answer, pc, lanes, entries, tokens, started, ledger, closed, upsets, history>>

Rejected(c) ==
  /\ c \in cast.reported /\ Pending(c) /\ admission[c] = "open"
  /\ Upset
  /\ admission' = [admission EXCEPT ![c] = "rejected"]
  /\ UNCHANGED <<answer, pc, lanes, entries, tokens, started, ledger, closed, history>>

\* The start is reported, possibly before the admission.
StartedStatus(c) ==
  /\ c \in cast.reported /\ Pending(c) /\ started[c] = "open"
  /\ started' = [started EXCEPT ![c] = "started"]
  /\ UNCHANGED <<answer, pc, lanes, entries, tokens, admission, ledger, closed, upsets, history>>

\* Exactly the future the coroutine awaits is failed.
FailAwaited(c) ==
  IF ~Pending(c) THEN UNCHANGED <<admission, started>>
  ELSE IF admission[c] = "open"
    THEN admission' = [admission EXCEPT ![c] = "displaced"] /\ UNCHANGED started
  ELSE IF started[c] = "open"
    THEN started' = [started EXCEPT ![c] = "displaced"] /\ UNCHANGED admission
  ELSE UNCHANGED <<admission, started>>

\* Faulty variant: the start that was reported but not yet resumed is ignored.
DisplacedUnconfirmed(c) ==
  /\ c \in cast.reported /\ Aired(c)
  /\ Upset
  /\ FailAwaited(c)
  /\ ledger' = [ledger EXCEPT ![c] = CASE @ = "pending" -> "gone"
                                       [] @ = "confirmed" -> "drained"
                                       [] OTHER -> @]
  /\ UNCHANGED <<answer, pc, lanes, entries, tokens, closed, history>>

\* A newer overlapping command replaced it on the bridge.  A start that was
\* reported but not yet resumed is confirmed first, so that the flushed STOP
\* gets its window.
DisplacedStatus(c) ==
  LET resumable == Pending(c) /\ admission[c] # "open" /\ started[c] = "started"
  IN  /\ c \in cast.reported /\ Aired(c)
      /\ Upset
      /\ FailAwaited(c)
      /\ ledger' = [ledger EXCEPT ![c] =
                      CASE @ = "pending" /\ resumable -> "drained"
                        [] @ = "pending" /\ ~resumable -> "gone"
                        [] @ = "confirmed" -> "drained"
                        [] OTHER -> @]
      /\ UNCHANGED <<answer, pc, lanes, entries, tokens, closed, history>>

\* A disarm was acknowledged in time.
DisarmedStatus(c) ==
  /\ c \in cast.reported /\ Aired(c)
  /\ Upset
  /\ FailAwaited(c)
  /\ ledger' = [ledger EXCEPT ![c] = IF @ = "drained" THEN @ ELSE "released"]
  /\ UNCHANGED <<answer, pc, lanes, entries, tokens, closed, history>>

----------------------------------------------------------------------------
(* The physical remote, unload and close. *)

\* _supersede_channels: both generations of every pressed channel advance.
Press(S) ==
  /\ Upset
  /\ pressSeq' = [n \in Channel |-> IF n \in S THEN pressSeq[n] + 1 ELSE pressSeq[n]]
  /\ pubSeq' = [n \in Channel |-> IF n \in S THEN pubSeq[n] + 1 ELSE pubSeq[n]]
  /\ UNCHANGED <<answer, pc, lanes, entries, pressSeen, pubSeen, lifecycle, closed, history>>

\* drain_owner: its queue entries, its STOPs that have not published, and its
\* move that waits for the air.
DrainOwner(o) ==
  LET queued == {d \in Range(queue) : Owner[d] = o}
      stops == {d \in Unpublished(fast) : Owner[d] = o}
      waiting == {d \in Unpublished({inflight} \ {Nobody}) : Owner[d] = o /\ pc[d] = "airwait"}
      drained == queued \cup stops \cup waiting
  IN  /\ o \in cast.departing /\ ~closed
      /\ Upset
      /\ queue' = Only(queue, Command \ queued)
      /\ pc' = [d \in Command |-> IF d \in queued THEN "done" ELSE pc[d]]
      /\ answer' = [m \in Command |->
                      IF \E d \in drained : m \in Live(d) THEN "superseded" ELSE answer[m]]
      /\ published' = published \cup queued \cup waiting
      /\ UNCHANGED <<inflight, fast, lock, members, chans, barriers, preempted, bypass, holds,
                     tokens, lifecycle, closed, requested, log, since>>

\* close: every task and every waiter is cancelled; a publisher task that has
\* not run yet never runs.
Close ==
  /\ ~closed
  /\ Upset
  /\ closed' = TRUE
  /\ answer' = [m \in Command |-> IF answer[m] = "open" THEN "cancelled" ELSE answer[m]]
  /\ pc' = [c \in Command |-> IF pc[c] \in {"idle", "measured"} THEN pc[c] ELSE "done"]
  /\ queue' = <<>> /\ inflight' = Nobody /\ fast' = {} /\ lock' = Nobody
  /\ published' = published \cup Running
  /\ pressSeq' = [n \in Channel |-> 0]
  /\ ledger' = [c \in Command |-> IF ledger[c] = "pending" THEN "gone" ELSE ledger[c]]
  /\ UNCHANGED <<members, chans, barriers, preempted, bypass, holds, pubSeq, pressSeen, pubSeen,
                 admission, started, history>>

----------------------------------------------------------------------------
HubStep(c) ==
  \/ Execute(c) \/ Acquire(c) \/ Decide(c) \/ AirWake(c) \/ HandOff(c)
  \/ TakeAdmission(c) \/ TakeStarted(c) \/ Timeout(c)

Next ==
  /\ \/ Pop \/ Discard
     \/ \E c \in cast.commands :
          \/ HubStep(c) \/ Measure(c) \/ Request(c) \/ Cancel(c)
          \/ Accepted(c) \/ Rejected(c) \/ StartedStatus(c)
          \/ DisplacedStatus(c) \/ DisarmedStatus(c)
     \/ \E S \in (SUBSET Channel) \ {{}} : Press(S)
     \/ \E o \in cast.departing : DrainOwner(o)
     \/ Close
  /\ UNCHANGED cast

Spec == Init /\ [][Next]_vars

\* The event loop runs whatever is ready; nothing is assumed of the bridge,
\* the callers or the remote.
Fairness ==
  /\ WF_vars(Pop /\ UNCHANGED cast)
  /\ \A c \in Command : WF_vars(HubStep(c) /\ UNCHANGED cast)

FairSpec == Spec /\ Fairness

----------------------------------------------------------------------------
(* Properties. *)

Before(a, b) == Ahead(requested, a, b)

InFrame(m, i) == m \in log[i].live

\* Request order is publication order for any two requests that address a
\* common channel, on either lane, merged or not (publish_barriers, the place
\* of a STOP behind a queued raw frame, the blocks of the coalescing pass).
RequestOrder ==
  \A k, l \in DOMAIN requested : k < l =>
    \A i, j \in DOMAIN log : j < i =>
      ~ /\ InFrame(requested[l], j) /\ InFrame(requested[k], i)
        /\ Chan[requested[k]] \cap Chan[requested[l]] # {}

\* A move that had not reached the broker when an overlapping STOP was
\* requested never does.
StopRetiresMoves ==
  \A i \in DOMAIN log : \A m \in log[i].live : Kind[m] = "move" =>
    \A s \in Command :
      Kind[s] = "stop" /\ Before(m, s) /\ Chan[m] \cap Chan[s] # {} => i <= since[s]

\* Every channel of a frame has a caller that still waits and that asked
\* after the latest press of that channel.
FramesAreFresh ==
  [][log' # log =>
       LET f == log'[Len(log')]
       IN  \A n \in f.chans :
             \E m \in f.live : n \in Chan[m] /\ pressSeen[m][n] = pressSeq[n]]_vars

\* A measured move is published only if no frame reached one of its channels
\* since it was measured.
MeasuredIsFresh ==
  \A i, j \in DOMAIN log :
    log[i].cmd \in Measured /\ since[log[i].cmd] < j /\ j < i =>
      log[j].chans \cap log[i].chans = {}

\* What a caller is told is what happened: "acked" only if a frame carried
\* its request, "superseded" after a frame did only if the bridge said so.
AnswersAreTrue ==
  \A m \in Command :
    /\ answer[m] = "acked" => \E i \in DOMAIN log : InFrame(m, i)
    /\ answer[m] = "superseded" => \A i \in DOMAIN log : InFrame(m, i) =>
         "displaced" \in {admission[log[i].cmd], started[log[i].cmd]}

\* No ledger entry stays pending without a coroutine that will settle it, and
\* none is retired although its train was admitted and its start reported.
LedgerSettled ==
  \A c \in Command :
    /\ ledger[c] = "pending" => Pending(c)
    /\ admission[c] = "accepted" /\ started[c] = "started"
         /\ (Pending(c) \/ \E m \in Range(members[c]) : answer[m] = "acked")
       => ledger[c] # "gone"

\* The ordinary commands that have begun and not ended, resolved or not,
\* stay within the cap.
OutstandingCapped ==
  Cardinality({c \in Command : Kind[c] # "stop" /\
                 pc[c] \notin {"idle", "measured", "merged", "done"}}) <= cast.cap

\* After the close nothing reaches the broker.
NothingAfterClose == [][closed => log' = log]_vars

\* Every caller is answered: no barrier, lane, lock or wait is for ever.
EveryCallerAnswered == \A c \in Command : answer[c] = "open" ~> answer[c] # "open"
=============================================================================
