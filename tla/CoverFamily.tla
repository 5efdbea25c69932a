----------------------------- MODULE CoverFamily -----------------------------
(***************************************************************************)
(* The covers of one remote while commands, presses of the physical        *)
(* remote, bridge statuses and reloads cross each other: the leaves with   *)
(* their position models (cover.py), the aggregates that send one frame    *)
(* for all or fan out (cover_aggregate.py), the coordinator's position     *)
(* invalidations (coordinator.py), and of the hub (transport.py) what      *)
(* decides how a press takes over a command: the disarm requests and their *)
(* truth table.                                                            *)
(*                                                                         *)
(* One bridge transmits.  How the hub orders publications is CommandHub;   *)
(* here it is a queue.  Motors report nothing, so the model carries        *)
(* them along as history: which events drove a leaf's motors, and which of *)
(* these its position model has not accounted for.                         *)
(***************************************************************************)
EXTENDS Topology, LeafModel, QueueOps, FiniteSets, SequencesExt

CONSTANTS Op,     \* service calls, one each
          Kind,   \* "up", "down", "stop", or "part" (set_cover_position)
          On,     \* the cover a call is made on
          Casts   \* the instances to explore, one of them per behaviour

ASSUME FamilyAssumption ==
  /\ IsFiniteSet(Op) /\ IsFiniteSet(Cover)
  /\ On \in [Op -> Cover]
  /\ Kind \in [Op -> {"up", "down", "stop", "part"}]
  /\ Casts \subseteq [ops: SUBSET Op,
                      presses: SUBSET ({"UP", "DOWN", "STOP"} \X SUBSET Channel),
                      most: Nat,               \* bound: presses
                      upsets: Nat,             \* bound: adverse events (see Upset)
                      reloads: SUBSET {"kept", "fresh"},
                      start: Position]

\* A call on a cover, and each member's part in a fanned-out one.
Task == {<<o, On[o]>> : o \in Op}
          \cup {t \in Op \X Leaf : Kind[t[1]] = "part" /\ t[2] \in Members(On[t[1]])}

Command == {<<t[1], t[2], phase>> : t \in Task, phase \in {"stop", "move"}}

TaskOf(c) == <<c[1], c[2]>>
Halt(t) == <<t[1], t[2], "stop">>
Move(t) == <<t[1], t[2], "move">>
Timed(c) == c[3] = "move" /\ Kind[c[1]] = "part"
OverlapCmd(c, d) == Chan[c[2]] \cap Chan[d[2]] # {}
Delegates(t) == IF t[2] \in Aggregate /\ Kind[t[1]] = "part"
                THEN {<<t[1], l>> : l \in Members(t[2])} ELSE {t}

VARIABLES
  cast,       \* the instance of this behaviour
  stage,      \* of each cover's entity
  leaf,       \* the live position model of each leaf
  snap,       \* what the state machine kept of it
  overtaken,  \* the restoring leaves whose restore guard no longer holds
  mark,       \* the leaves with a position invalidation
  glast,      \* an aggregate's last command
  gstopped,   \* the aggregates whose _stopped_by_heard is set
  pc,         \* where a task is suspended
  seen,       \* the registered leaves when it took its intent generations
  newer,      \* those that heard a press since
  old,        \* the tasks of entities that are gone
  button,     \* of a command that was issued
  queue,      \* the hub's commands that are not published
  entry,      \* the ledger's view of a published one
  acks,       \* started futures whose coroutine has not resumed
  displaced,  \* was_displaced
  req,        \* the disarm requests
  registry,   \* what the registry says of the bridge
  up, rf,     \* the bridge, and its schedule per command
  inbox,      \* the statuses on their way
  world,      \* history: what drove each leaf's motors
  forgiven,   \* history: the events a leaf is meant, or known, to overlook
  orphaned,   \* history: what commands do behind a leaf that a reload removed
  presses, upsets

entities == <<stage, leaf, snap, overtaken, mark>>
groups == <<glast, gstopped>>
tasks == <<pc, seen, newer, old, button>>
hub == <<queue, entry, acks, displaced, req, registry>>
bridge == <<up, rf, inbox>>
history == <<world, forgiven, orphaned>>
bounds == <<presses, upsets>>
vars == <<cast, entities, groups, tasks, hub, bridge, history, bounds>>

NoRequest == [open |-> FALSE, owned |-> FALSE, chans |-> {}, pressed |-> {}]

Event == {NoEvent} \cup ({"air", "stop", "lost"} \X Command) \cup ({"press"} \X (1..presses))

TypeOK ==
  /\ cast \in Casts
  /\ stage \in [Cover -> {"coming", "adding", "added", "failed"}]
  /\ \A l \in Leaf : \A f \in {leaf[l], snap[l]} :
       /\ f.pos \in Position
       /\ f.motion.by \in Event /\ f.anchor \in Event
       /\ Moving(f) => f.motion.dir \in {"up", "down"} /\ f.motion.target \in Position \ {Unknown}
       /\ f.pos = Unknown => ~f.anchored
  /\ overtaken \in SUBSET Leaf /\ mark \in SUBSET Leaf
  /\ glast \in [Aggregate -> Event] /\ gstopped \in SUBSET Aggregate
  /\ pc \in [Task -> {"idle", "lock", "stop", "move", "done"}]
  /\ seen \in [Task -> SUBSET Leaf] /\ newer \in [Task -> SUBSET Leaf] /\ old \in SUBSET Task
  /\ button \in [Command -> {"none", "UP", "DOWN", "STOP"}]
  /\ Range(queue) \cup Range(acks) \cup displaced \subseteq Command
  /\ entry \in [Command -> {"none", "pending", "started", "confirmed", "displaced", "lapsed",
                            "gone"}]
  /\ req \in [Command -> [open: BOOLEAN, owned: BOOLEAN, chans: SUBSET Channel,
                          pressed: SUBSET Channel]]
  /\ registry \in {"unseen", "online", "offline"} /\ up \in BOOLEAN
  /\ rf \in [Command -> {"none", "waiting", "armed", "mute", "free", "over"}]
  /\ \A l \in Leaf : /\ world[l].last \in Event /\ world[l].moving \in BOOLEAN
                     /\ world[l].due \cup world[l].origin \cup world[l].base \subseteq Event
  /\ forgiven \cup orphaned \subseteq Event \X Leaf
  /\ presses \in Nat /\ upsets \in Nat

Init ==
  /\ cast \in Casts
  /\ stage = [x \in Cover |-> "added"]
  /\ leaf = [l \in Leaf |-> [Blank EXCEPT !.pos = cast.start]]
  /\ snap = leaf
  /\ overtaken = {} /\ mark = {}
  /\ glast = [g \in Aggregate |-> NoEvent] /\ gstopped = {}
  /\ pc = [t \in Task |-> "idle"]
  /\ seen = [t \in Task |-> {}] /\ newer = seen /\ old = {}
  /\ button = [c \in Command |-> "none"]
  /\ queue = <<>> /\ acks = <<>> /\ displaced = {}
  /\ entry = [c \in Command |-> "none"]
  /\ req = [c \in Command |-> NoRequest]
  /\ registry = "online" /\ up = TRUE
  /\ rf = [c \in Command |-> "none"] /\ inbox = <<>>
  /\ world = [l \in Leaf |-> [last |-> NoEvent, moving |-> FALSE, due |-> {}, origin |-> {},
                          base |-> {}]]
  /\ forgiven = {} /\ orphaned = {}
  /\ presses = 0 /\ upsets = 0

----------------------------------------------------------------------------
(* The motors, and what the models know of them. *)

\* An event reaches the motors of some leaves and sets them going or stops them;
\* due is what the live model has not accounted for, base what the stored one
\* has not.  A STOP does nothing to motors at rest.
Happened(w, e, ls, moving) ==
  [l \in Leaf |->
     LET new == IF moving \/ w[l].moving THEN {e} ELSE {}
     IN  IF l \in ls THEN [w[l] EXCEPT !.last = e, !.moving = moving, !.due = @ \cup new,
                                      !.base = @ \cup new]
         ELSE w[l]]

\* A model that is built on these events is wrong about a later one.  A full
\* travel settles at its limit what it had wrong at its origin.
Accounted(w, es, ls, absolute) ==
  [l \in Leaf |->
     LET later == {w[l].last} \ (es \cup {NoEvent})
         before == (w[l].due \cup w[l].origin) \ (es \cup later)
     IN  IF l \notin ls THEN w[l]
         ELSE [w[l] EXCEPT !.origin = IF absolute THEN before ELSE {},
                           !.due = IF absolute THEN later ELSE before \cup later]]

\* What a command does to the covers of its channels.
Deeds(c, kinds) == (kinds \X {c}) \X (Addressed(Chan[c[2]]) \cap Leaf)

AllDeeds(cs) == UNION {Deeds(c, {"air", "stop", "lost"}) : c \in cs}

\* The callers of these tasks give up: what the armed STOPs of published
\* commands, or the lack of them, do later, nobody will relate to their frames.
Waiting(c) == pc[TaskOf(c)] = c[3]
Pending(t) == pc[t] \in {"lock", "stop", "move"}
Published(ts) == {c \in Command : TaskOf(c) \in ts /\ Waiting(c) /\ rf[c] # "none"}
LoseSight(ts) ==
  forgiven' = forgiven \cup UNION {Deeds(c, {"stop", "lost"}) : c \in Published(ts)}

\* A flushed STOP whose report is on its way is moments old: an estimate frozen
\* now is as good as one frozen then.
JustFlushed == {<<"stop", d>> : d \in {d \in Command : <<"displaced", d>> \in Range(inbox)}}

Registered(x) == stage[x] \in {"adding", "added"}
Live == {l \in Leaf : Registered(l)}
Adding == {l \in Leaf : stage[l] = "adding"}

\* Every choice of one value out of each leaf's set.
Outcomes(values) == {f \in [Leaf -> UNION {values[l] : l \in Leaf}] : \A l \in Leaf : f[l] \in values[l]}

\* _invalidate_for_takeover of leaves
Invalid(models, ls) == [l \in Leaf |-> IF l \in ls THEN MarkUnknown(models[l]) ELSE models[l]]

\* invalidate_for_cancelled_command, and the write that retires the marker
Disowned(ls) ==
  /\ leaf' = Invalid(leaf, ls)
  /\ overtaken' = overtaken \cup (ls \cap Adding)
  /\ mark' = mark \ {l \in ls : stage[l] = "added"}

\* record_position_invalidations of a failed frame to these channels: a marker
\* for every configured leaf, and whoever is registered now is invalidated.
Recorded(S) ==
  LET ls == Addressed(S) \cap Leaf
  IN  /\ leaf' = Invalid(leaf, ls \cap Live)
      /\ overtaken' = overtaken \cup (ls \cap Adding)
      /\ mark' = mark \cup {l \in ls : stage[l] # "added"}

\* Faulty variant: a group's frame is no leaf's business.
LostByItself(t) ==
  IF t[2] \in Aggregate \/ t \in old THEN UNCHANGED <<leaf, overtaken, mark>> ELSE Disowned({t[2]})

\* A command of this task has failed without a known outcome.
Lost(t) ==
  IF t[2] \in Aggregate THEN Recorded(Chan[t[2]])
  ELSE IF t \in old THEN UNCHANGED <<leaf, overtaken, mark>>
  ELSE Disowned({t[2]})

Upset == upsets < cast.upsets /\ upsets' = upsets + 1

----------------------------------------------------------------------------
(* Service calls. *)

\* The hub takes a request; a STOP retires the queued moves it overlaps.
\* The caller remembers the intent generations.
Issue(t, phase, b, at) ==
  LET c == <<t[1], t[2], phase>>
      retired == {d \in Range(queue) : b = "STOP" /\ d[3] = "move" /\ OverlapCmd(c, d)}
  IN  /\ queue' = Append(Only(queue, Command \ retired), c)
      /\ button' = [button EXCEPT ![c] = b]
      /\ seen' = [seen EXCEPT ![t] = Live]
      /\ newer' = [newer EXCEPT ![t] = {}]
      /\ pc' = [u \in Task |-> IF u = t THEN phase
                               ELSE IF \E d \in retired : TaskOf(d) = u THEN "done" ELSE at[u]]

Finished(t) ==
  /\ pc' = [pc EXCEPT ![t] = "done"]
  /\ UNCHANGED <<seen, newer, button, queue>>

\* The measured move of _async_set_position_locked, from the settled estimate.
Positioning(t, p) ==
  \/ p \in {Unknown, "part"} /\ Finished(t)
  \/ p \in {"closed", "part"} /\ Issue(t, "move", "UP", pc)
  \/ p \in {"open", "part"} /\ Issue(t, "move", "DOWN", pc)

\* What a cancelled task leaves behind: a queued frame goes, a published one
\* does not.
Dropped(ts) ==
  /\ queue' = Only(queue, {d \in Command : TaskOf(d) \notin ts})
  /\ Disowned({t[2] : t \in {u \in ts : pc[u] \in {"stop", "move"} /\ u \notin old}})

\* The preflight of async_set_cover_position: all members are there, can be
\* reached and know where they are.
Preflight(g) ==
  /\ registry = "online"
  /\ \A l \in Members(g) : Registered(l) /\ leaf[l].pos # Unknown

\* A call on a leaf waits for its lock.  One on an aggregate cancels the
\* fan-out first; a fan-out starts one task per member, without the lock.
Call(o) ==
  LET x == On[o]
      t == <<o, x>>
      fan == {u \in Task : u # t /\ x \in Aggregate /\ u \notin old
                           /\ On[u[1]] = x /\ u[2] # x /\ pc[u] # "idle"}
  IN  /\ o \in cast.ops /\ pc[t] = "idle" /\ Registered(x)
      /\ IF x \in Aggregate /\ Kind[o] = "part"
           THEN /\ pc' = [u \in Task |->
                            IF u = t \/ (u \in Delegates(t) /\ ~Preflight(x)) THEN "done"
                            ELSE IF u \in Delegates(t) THEN "lock" ELSE pc[u]]
                /\ UNCHANGED <<leaf, overtaken, mark, queue>>
           ELSE /\ pc' = [u \in Task |-> IF u = t THEN "lock"
                                         ELSE IF u \in fan THEN "done" ELSE pc[u]]
                /\ Dropped(fan)
      /\ LoseSight(fan)
      /\ UNCHANGED <<cast, stage, snap, groups, seen, newer, old, button, entry, acks, displaced,
                     req, registry, bridge, world, orphaned, bounds>>

Holder(x) == {t \in Task \ old : t[2] = x /\ pc[t] \in {"stop", "move"}}

\* The lock of the entity is free: the first frame of the call.
Begin(t) ==
  /\ pc[t] = "lock" /\ Holder(t[2]) = {}
  /\ CASE Kind[t[1]] = "up" -> Issue(t, "move", "UP", pc)
       [] Kind[t[1]] = "down" -> Issue(t, "move", "DOWN", pc)
       [] Kind[t[1]] = "stop" -> Issue(t, "stop", "STOP", pc)
       [] OTHER -> IF Moving(leaf[t[2]]) THEN Issue(t, "stop", "STOP", pc)
                   ELSE Positioning(t, leaf[t[2]].pos)
  /\ UNCHANGED <<cast, entities, groups, old, entry, acks, displaced, req, registry, bridge,
                 history, bounds>>

\* The model of a started frame replaces each of these leaves' motions.
Commit(c, ls) ==
  LET by == <<"air", c>>
      motion == IF Timed(c) THEN PartTravel(button[c], by) ELSE FullTravel(button[c], by)
      of(l) == IF button[c] = "STOP" THEN Stopped(leaf[l], "commanded", registry)
               ELSE Committed(leaf[l], motion, registry, c \in displaced)
      flushed == IF Timed(c) /\ c \in displaced THEN {<<"stop", c>>} ELSE {}
  IN  /\ leaf' \in Outcomes([l \in Leaf |-> IF l \in ls THEN of(l) ELSE {leaf[l]}])
      /\ overtaken' = overtaken \cup (ls \cap Adding)
      /\ world' = Accounted(world, {by} \cup flushed \cup JustFlushed, ls, button[c] # "STOP" /\ ~Timed(c))

\* Faulty variant: what was heard meanwhile does not matter.
CurrentAlways(t) ==
  IF t \in old THEN {}
  ELSE {l \in Live : l = t[2] \/ (t[2] \in Aggregate /\ l \in Members(t[2]))}

\* The leaves a started frame still speaks for: a press heard since the frame
\* was issued is newer.  An aggregate asks its members of now.
Current(t) ==
  IF t \in old THEN {}
  ELSE {l \in Live : l = t[2] \/ (t[2] \in Aggregate /\ l \in Members(t[2]))} \ newer[t]

\* The leaves a group's started frame says nothing to: those that are not there,
\* or all when the group is gone.
Unserved(t) == IF t[2] \in Leaf THEN {} ELSE IF t \in old THEN Members(t[2]) ELSE Members(t[2]) \ Live

\* A leaf that registered since a group's frame was issued has no generation to
\* compare: the press it heard last is taken for older.
Latecomers(t) ==
  IF t[2] \in Leaf THEN {} ELSE {l \in (Members(t[2]) \cap Live) \ seen[t] : world[l].last[1] = "press"}
Outdated(t) == {<<world[l].last, l>> : l \in Latecomers(t)}

\* A started future's coroutine confirms the ledger and resumes the caller.
Resume ==
  LET c == Head(acks)
      t == TaskOf(c)
      chained == /\ Kind[t[1]] = "part" /\ c[3] = "stop" /\ c \notin displaced
                 /\ t[2] \notin newer[t]
  IN  /\ acks # <<>>
      /\ acks' = Tail(acks)
      /\ entry' = [entry EXCEPT ![c] = IF @ = "started" THEN "confirmed" ELSE @]
      /\ IF Waiting(c)
           THEN /\ Commit(c, Current(t))
                /\ IF ~chained THEN Finished(t)
                   ELSE IF t \in old THEN \E p \in Position : Positioning(t, p)
                   ELSE Positioning(t, leaf'[t[2]].pos)
                /\ glast' = IF t[2] \in Aggregate /\ t \notin old
                            THEN [glast EXCEPT ![t[2]] = <<"air", c>>] ELSE glast
                /\ gstopped' = IF t \in old THEN gstopped ELSE gstopped \ {t[2]}
                /\ forgiven' = forgiven \cup Outdated(t)
                /\ orphaned' = orphaned \cup (AllDeeds({c}) \cap (Event \X Unserved(t)))
           ELSE UNCHANGED <<leaf, overtaken, history, pc, seen, newer, button, queue, groups>>
      /\ UNCHANGED <<cast, stage, snap, mark, old, displaced, req, registry, bridge, bounds>>

\* The service call is cancelled.
Cancel(t) ==
  /\ Upset
  /\ \E u \in Delegates(t) : pc[u] \in {"lock", "stop", "move"}
  /\ pc' = [u \in Task |-> IF u \in Delegates(t) /\ pc[u] # "idle" THEN "done" ELSE pc[u]]
  /\ IF t[2] \in Aggregate /\ pc[t] \in {"stop", "move"}
       THEN Lost(t) /\ queue' = Only(queue, {d \in Command : TaskOf(d) # t})
       ELSE Dropped(Delegates(t))
  /\ LoseSight(Delegates(t))
  /\ UNCHANGED <<cast, stage, snap, groups, seen, newer, old, button, entry, acks, displaced, req,
                 registry, bridge, world, orphaned, presses>>

\* No start in time: the frame may be on the air nevertheless, but a train
\* that has not begun by now never does.  A frame that went on the air before
\* this one was published has run out of time before it.
Timeout(c) ==
  /\ entry[c] = "pending"
  /\ \A d \in Command \ {c} :
       entry[d] = "pending" /\ OverlapCmd(c, d) /\ <<"started", d>> \in Range(inbox) =>
         \E kind \in {"started", "displaced"} : Ahead(inbox, <<kind, c>>, <<"started", d>>)
  /\ Upset
  /\ entry' = [entry EXCEPT ![c] = "gone"]
  /\ rf' = [rf EXCEPT ![c] = IF @ = "waiting" THEN "over" ELSE @]
  /\ IF Waiting(c) THEN Lost(TaskOf(c)) /\ pc' = [pc EXCEPT ![TaskOf(c)] = "done"]
     ELSE UNCHANGED <<leaf, overtaken, mark, pc>>
  /\ forgiven' = forgiven \cup Deeds(c, {"stop", "lost"})
  /\ UNCHANGED <<cast, stage, snap, groups, seen, newer, old, button, queue, acks, displaced, req,
                 registry, up, inbox, world, orphaned, presses>>

\* The aggregate's command is old enough to be forgotten by _takeover_state.
Expire(g) ==
  /\ glast[g] # NoEvent
  /\ rf[glast[g][2]] = "over"
  /\ glast' = [glast EXCEPT ![g] = NoEvent]
  /\ UNCHANGED <<cast, entities, gstopped, tasks, hub, bridge, history, bounds>>

----------------------------------------------------------------------------
(* The bridge (external).  The newest command of a channel wins. *)

\* Each of these STOPs stops its leaf; a leaf has one at most.
Flushed(w, stops) ==
  [l \in Leaf |->
     IF \E d \in stops : d[2] = l
       THEN Happened(w, <<"stop", CHOOSE d \in stops : d[2] = l>>, {l}, FALSE)[l]
       ELSE w[l]]

\* One publication.  Refused without a bridge; it supersedes what was measured
\* before it, and the bridge displaces what it overlaps there, letting go of an
\* armed STOP at once.
Send(i) ==
  LET c == queue[i]
      stale == {d \in Range(queue) : d # c /\ Timed(d) /\ OverlapCmd(c, d)}
      over == {d \in Command \ {c} : OverlapCmd(c, d) /\ rf[d] \in {"waiting", "armed", "free"}}
      flushed == {d \in over : rf[d] = "armed" /\ world[d[2]].moving}
      gone == {c} \cup (IF registry = "online" THEN stale ELSE {})
      reached == registry = "online" /\ up
  IN  /\ i \in DOMAIN queue
      /\ \A j \in 1..(i - 1) : ~OverlapCmd(queue[j], c)
      /\ queue' = Only(queue, Command \ gone)
      /\ pc' = [t \in Task |->
                  IF \E d \in gone : TaskOf(d) = t /\ Waiting(d) /\ (d # c \/ registry # "online")
                    THEN "done" ELSE pc[t]]
      /\ entry' = [entry EXCEPT ![c] = IF registry = "online" THEN "pending" ELSE @]
      /\ rf' = [d \in Command |->
                  IF d = c /\ registry = "online" THEN IF up THEN "waiting" ELSE "over"
                  ELSE IF reached /\ d \in over THEN "over" ELSE rf[d]]
      /\ IF reached
           THEN /\ inbox' = inbox \o SetToSeq({<<"displaced", d>> : d \in over})
                /\ world' = Flushed(world, flushed)
           ELSE UNCHANGED <<inbox, world>>
      /\ UNCHANGED <<cast, entities, groups, seen, newer, old, button, acks, displaced, req,
                     registry, up, forgiven, orphaned, bounds>>

\* Its train goes on the air.
Air(c) ==
  /\ rf[c] = "waiting"
  /\ rf' = [rf EXCEPT ![c] = IF Timed(c) THEN "armed" ELSE "free"]
  /\ inbox' = Append(inbox, <<"started", c>>)
  /\ world' = Happened(world, <<"air", c>>, Addressed(Chan[c[2]]) \cap Leaf, button[c] # "STOP")
  /\ UNCHANGED <<cast, entities, groups, tasks, hub, up, forgiven, orphaned, bounds>>

\* The armed STOP fires.  It ends the move it was armed for, or it stops
\* whatever else moves these motors by now.
Fire(c) ==
  LET l == c[2]
  IN  /\ rf[c] = "armed"
      /\ rf' = [rf EXCEPT ![c] = "over"]
      /\ world' = IF world[l].last # <<"air", c>> /\ world[l].moving
                  THEN Happened(world, <<"stop", c>>, {l}, FALSE)
                  ELSE [world EXCEPT ![l].moving = FALSE]
      /\ UNCHANGED <<cast, entities, groups, tasks, hub, up, inbox, forgiven, orphaned, bounds>>

TrainEnds(c) ==
  /\ rf[c] = "free"
  /\ rf' = [rf EXCEPT ![c] = "over"]
  /\ UNCHANGED <<cast, entities, groups, tasks, hub, up, inbox, history, bounds>>

\* The time of a STOP that its bridge has forgotten: what still moves runs on.
Overrun(c) ==
  /\ rf[c] = "mute" /\ <<"offline">> \notin Range(inbox)
  /\ rf' = [rf EXCEPT ![c] = "over"]
  /\ world' = IF world[c[2]].last = <<"air", c>>
              THEN Happened(world, <<"lost", c>>, {c[2]}, TRUE) ELSE world
  /\ UNCHANGED <<cast, entities, groups, tasks, hub, up, inbox, forgiven, orphaned, bounds>>

\* A disarm arrives: the command is buried, whatever is left of it, and
\* acknowledged.
Bury(c) ==
  /\ up /\ req[c].open
  /\ {<<"late", c>>, <<"disarmed", c>>} \cap Range(inbox) = {}
  /\ rf' = [rf EXCEPT ![c] = IF @ \in {"armed", "mute"} THEN "mute" ELSE "over"]
  /\ inbox' = Append(inbox, <<IF rf[c] = "over" THEN "late" ELSE "disarmed", c>>)
  /\ UNCHANGED <<cast, entities, groups, tasks, hub, up, history, bounds>>

\* The bridge loses power: its schedule is in RAM.  Its last will follows its
\* statuses.
Drop ==
  /\ up /\ Upset
  /\ up' = FALSE
  /\ rf' = [c \in Command |-> CASE rf[c] \in {"armed", "mute"} -> "mute"
                               [] rf[c] = "none" -> "none"
                               [] OTHER -> "over"]
  /\ inbox' = Append(inbox, <<"offline">>)
  /\ UNCHANGED <<cast, entities, groups, tasks, hub, history, presses>>

\* A restart takes longer than a status and the loop turn that acts on it, and
\* longer than a reload.
Return ==
  /\ ~up /\ acks = <<>> /\ \A s \in Range(inbox) : s[1] # "started"
  /\ \A x \in Cover : stage[x] \in {"added", "failed"}
  /\ up' = TRUE
  /\ inbox' = Append(inbox, <<"online">>)
  /\ UNCHANGED <<cast, entities, groups, tasks, hub, rf, history, bounds>>

\* The window of a ledger entry closes behind its train.
Lapse(c) ==
  /\ entry[c] \in {"confirmed", "displaced"} /\ rf[c] = "over"
  /\ <<"displaced", c>> \notin Range(inbox)
  /\ entry' = [entry EXCEPT ![c] = "lapsed"]
  /\ UNCHANGED <<cast, entities, groups, tasks, queue, acks, displaced, req, registry, bridge,
                 history, bounds>>

----------------------------------------------------------------------------
(* Takeover: a press meets commands that can still act. *)

\* _takeover_state: whose command a cover is modelling.
Claim(x) == IF x \in Leaf THEN IF ByCommand(leaf[x].motion) THEN leaf[x].motion.by ELSE NoEvent
            ELSE glast[x]

StoppedByHeard(x) == IF x \in Leaf THEN leaf[x].stopped ELSE x \in gstopped

\* Faulty variant: no answer is a good answer.
TakenUnless(c, request, outcome, flushed) ==
  {x \in Cover :
     LET pressed == Chan[x] \cap request.pressed # {}
     IN  /\ Registered(x) /\ Chan[x] \cap request.chans # {}
         /\ ~StoppedByHeard(x) /\ Claim(x) \in {NoEvent, <<"air", c>>}
         /\ IF pressed THEN outcome = "displaced" /\ flushed ELSE button[c] # "STOP"}

\* _evaluate_takeover_resolution: the covers of the request that are to be
\* invalidated, for the outcome (or none yet).
Taken(c, request, outcome, flushed) ==
  {x \in Cover :
     LET pressed == Chan[x] \cap request.pressed # {}
     IN  /\ Registered(x) /\ Chan[x] \cap request.chans # {}
         /\ ~StoppedByHeard(x) /\ Claim(x) \in {NoEvent, <<"air", c>>}
         /\ IF pressed THEN outcome = "timed_out" \/ (outcome = "displaced" /\ flushed)
            ELSE button[c] # "STOP"}

\* _invalidate_for_takeover
TakenOver(xs) ==
  /\ overtaken' = overtaken \cup (xs \cap Adding)
  /\ glast' = [g \in Aggregate |-> IF g \in xs THEN NoEvent ELSE glast[g]]

\* live_overlapping
LedgerLive(S) ==
  {c \in Command : entry[c] \in {"pending", "started", "confirmed"} /\ Chan[c[2]] \cap S # {}}

\* command_live_for_takeover
TakeoverLive(c) == entry[c] \notin {"displaced", "lapsed"}

Owners(c) == {x \in Cover : Registered(x) /\ Claim(x) = <<"air", c>>}

\* _takeover_targets
Targets(b, S) ==
  IF b = "STOP" THEN {c \in LedgerLive(S) : entry[c] # "confirmed"}
  ELSE {c \in LedgerLive(S) \cup {d \in Command : Owners(d) \cap Addressed(S) # {}} :
          TakeoverLive(c)}

\* _merge_cover_owned_target, _merge_takeover_context
Merged(c, b, S) ==
  LET owners == IF b = "STOP" THEN {} ELSE Owners(c)
      chans == (UNION {Chan[x] : x \in owners})
                 \cup (IF c \in LedgerLive(S) THEN Chan[c[2]] ELSE {})
      request == IF req[c].open THEN req[c] ELSE NoRequest
  IN  [open |-> TRUE, owned |-> request.owned \/ owners # {},
       chans |-> request.chans \cup chans, pressed |-> request.pressed \cup (S \cap chans)]

\* Published commands that no cover models yet: a press outranks them, in
\* whichever order they are on the air.
Outranked == {c \in Command : \/ rf[c] = "waiting"
                              \/ rf[c] # "none" /\ (Waiting(c) \/ entry[c] \in {"pending", "started"})}

\* _dispatch_heard: a press drives its motors at once and is heard at once.
\* It supersedes what is queued, opens or widens the requests, and then each
\* leaf mirrors it.
Press(b, S) ==
  LET e == <<"press", presses + 1>>
      moved == Addressed(S) \cap Leaf
      listeners == {x \in Addressed(S) : Registered(x)}
      heard == (UNION {Chan[x] : x \in listeners}) \cap S
      beaten == {d \in Range(queue) : Chan[d[2]] \cap heard # {}}
      targets == IF listeners = {} THEN {} ELSE Targets(b, S)
      taken == UNION {Taken(c, Merged(c, b, S), "none", FALSE) : c \in targets}
      models == Invalid(leaf, taken \cap Leaf)
      mine == listeners \cap Leaf
      unowned == {c \in targets : ~Merged(c, b, S).owned}
  IN  /\ <<b, S>> \in cast.presses /\ presses < cast.most
      /\ \A x \in Addressed(S) : Registered(x)
      /\ presses' = presses + 1
      /\ queue' = Only(queue, Command \ beaten)
      /\ pc' = [t \in Task |-> IF \E d \in beaten : TaskOf(d) = t THEN "done" ELSE pc[t]]
      /\ req' = [c \in Command |-> IF c \in targets THEN Merged(c, b, S) ELSE req[c]]
      /\ leaf' \in Outcomes([l \in Leaf |->
                     IF l \in mine THEN Heard(models[l], b, Chan[l] \subseteq S, e, registry)
                     ELSE {models[l]}])
      /\ overtaken' = overtaken \cup ((taken \cup mine) \cap Adding)
      /\ newer' = [t \in Task |-> newer[t] \cup (mine \cap seen[t])]
      /\ glast' = [g \in Aggregate |-> IF g \in taken THEN NoEvent ELSE glast[g]]
      /\ gstopped' = gstopped \cup {g \in listeners \cap Aggregate : b = "STOP" /\ Chan[g] \subseteq S}
      /\ world' = Accounted(Happened(world, e, moved, b # "STOP"), {e} \cup JustFlushed,
                            {l \in mine : Chan[l] \subseteq S}, b # "STOP")
      /\ forgiven' = forgiven \cup AllDeeds(Outranked) \cup UNION {Deeds(c, {"stop"}) : c \in unowned}
      /\ UNCHANGED <<cast, stage, snap, mark, seen, old, button, entry, acks, displaced,
                     registry, bridge, orphaned, upsets>>

\* The request for a command ends; an exempt cover keeps its position, whatever
\* the command does to it, and one that is not there is not told.
Closed(c, taken) ==
  LET exempt == {l \in Live \ taken :
                   /\ req[c].open /\ Chan[l] \cap req[c].chans # {}
                   /\ StoppedByHeard(l) \/ Claim(l) \notin {NoEvent, <<"air", c>>}}
      absent == {l \in Leaf \ Live : req[c].open /\ Chan[l] \cap req[c].chans # {}}
  IN  /\ req' = [req EXCEPT ![c] = NoRequest]
      /\ forgiven' = forgiven \cup (AllDeeds({c}) \cap (Event \X exempt))
      /\ orphaned' = orphaned \cup (AllDeeds({c}) \cap (Event \X absent))

\* The caller of a command that will not run is told "superseded".
Superseded(c) ==
  pc' = IF entry[c] = "pending" /\ Waiting(c) THEN [pc EXCEPT ![TaskOf(c)] = "done"] ELSE pc

\* _handle_started_status
StartedStatus(c) ==
  /\ entry' = [entry EXCEPT ![c] = IF @ = "pending" THEN "started" ELSE @]
  /\ acks' = IF entry[c] = "pending" THEN Append(acks, c) ELSE acks
  /\ UNCHANGED <<leaf, overtaken, history, glast, pc, displaced, req, registry>>

\* _handle_displaced_status
DisplacedStatus(c) ==
  LET flushed == entry[c] \in {"started", "confirmed"} /\ Timed(c)
      taken == IF req[c].open THEN Taken(c, req[c], "displaced", flushed) ELSE {}
      models == Invalid(leaf, taken \cap Leaf)
      mine == {l \in Live : models[l].motion.by = <<"air", c>> /\ models[l].motion.timed}
  IN  /\ entry' = [entry EXCEPT ![c] = CASE @ = "pending" -> "gone"
                                         [] @ \in {"started", "confirmed"} -> "displaced"
                                         [] OTHER -> @]
      /\ Superseded(c)
      /\ TakenOver(taken)
      /\ Closed(c, taken)
      /\ displaced' = displaced \cup {c}
      /\ leaf' \in Outcomes([l \in Leaf |-> IF l \in mine THEN Frozen(models[l], c) ELSE {models[l]}])
      /\ world' = Accounted(world, {<<"stop", c>>}, mine, FALSE)
      /\ UNCHANGED <<acks, registry>>

\* on_disarmed, of an acknowledgement before or behind the deadline
DisarmedStatus(c, late) ==
  IF ~req[c].open \/ (late /\ req[c].owned /\ Timed(c))
    THEN UNCHANGED <<leaf, overtaken, history, glast, pc, entry, acks, displaced, req, registry>>
    ELSE LET taken == Taken(c, req[c], "disarmed", FALSE)
         IN  /\ entry' = [entry EXCEPT ![c] = IF @ \in {"none", "displaced"} THEN @ ELSE "gone"]
             /\ Superseded(c)
             /\ TakenOver(taken)
             /\ Closed(c, taken)
             /\ leaf' = Invalid(leaf, taken \cap Leaf)
             /\ UNCHANGED <<world, acks, displaced, registry>>

\* The registry learns the availability; every leaf looks at its motion again.
Announced(status) ==
  /\ registry' = status
  /\ leaf' = [l \in Leaf |-> IF l \in Live THEN BridgeChanged(leaf[l], status) ELSE leaf[l]]
  /\ UNCHANGED <<overtaken, history, glast, pc, entry, acks, displaced, req>>

\* handle_status
Deliver ==
  LET s == Head(inbox)
  IN  /\ inbox # <<>>
      /\ inbox' = Tail(inbox)
      /\ CASE s[1] = "started" -> StartedStatus(s[2])
           [] s[1] = "displaced" -> DisplacedStatus(s[2])
           [] s[1] = "disarmed" -> DisarmedStatus(s[2], FALSE)
           [] s[1] = "late" -> DisarmedStatus(s[2], TRUE)
           [] OTHER -> Announced(s[1])
      /\ UNCHANGED <<cast, stage, snap, mark, gstopped, seen, newer, old, button, queue, up, rf,
                     bounds>>

\* _disarm gives up at its deadline: for a cover's own timed move the end of
\* that move, which the armed STOP precedes.
TimedOut(c) ==
  LET taken == Taken(c, req[c], "timed_out", FALSE)
  IN  /\ req[c].open
      /\ req[c].owned /\ Timed(c) => rf[c] \notin {"armed", "mute"}
      /\ Closed(c, taken)
      /\ leaf' = Invalid(leaf, taken \cap Leaf)
      /\ TakenOver(taken)
      /\ UNCHANGED <<cast, stage, snap, mark, gstopped, tasks, queue, entry, acks, displaced,
                     registry, bridge, world, bounds>>

----------------------------------------------------------------------------
(* Motions end. *)

\* _async_track_motion reaches its deadline.  By then a full travel has ended at
\* the motor's limit, a timed move's STOP has fired or is known to be lost; and
\* no restore takes as long as a travel.
Complete(l) ==
  LET m == leaf[l].motion
  IN  /\ stage[l] = "added" /\ Moving(leaf[l])
      /\ m.timed => rf[m.by[2]] \notin {"armed", "mute"} /\ Range(inbox) \cap {<<"offline">>, <<"displaced", m.by[2]>>} = {}
      /\ leaf' = [leaf EXCEPT ![l] = Completed(@, registry)]
      /\ mark' = IF leaf'[l].anchored THEN mark \ {l} ELSE mark
      /\ world' = [world EXCEPT ![l].moving = @ /\ world[l].last # m.by,
                                ![l].origin = IF m.absolute THEN {} ELSE @]
      /\ UNCHANGED <<cast, stage, snap, overtaken, groups, tasks, hub, bridge, forgiven, orphaned, bounds>>

----------------------------------------------------------------------------
(* The entry is reloaded. *)

\* Unload and the start of the next setup.  All entities go in one turn of the
\* event loop, so that whoever is cancelled with them has no leaf left to
\* invalidate.  An aggregate cancels its fan-out as it goes.  The hub is kept
\* when another entry still uses it, and then only drained of this entry's
\* queue: a call whose frame is published goes on, for an entity that is gone.
\* Otherwise the hub is closed, all it knew is gone, and every call is
\* cancelled; an aggregate's then leaves markers.
Reload(how) ==
  LET calls == {t \in Task : pc[t] \in {"stop", "move"}}
      fan == {t \in calls : t[2] # On[t[1]]}
      left == {c \in Command : c[2] \in Leaf /\ TaskOf(c) \in calls /\ c[3] \in {pc[TaskOf(c)], "move"}}
      drained == {t \in Task : \E c \in Range(queue) : TaskOf(c) = t}
  IN  /\ how \in cast.reloads
      /\ Upset
      /\ \A x \in Cover : stage[x] # "adding"
      /\ \A t \in Task : pc[t] # "lock"
      /\ <<"offline">> \notin Range(inbox)
      /\ snap' = [l \in Leaf |-> IF stage[l] = "added" THEN Persisted(leaf[l]) ELSE snap[l]]
      /\ leaf' = [l \in Leaf |-> Blank]
      /\ world' = [l \in Leaf |->
                     IF stage[l] = "added" THEN [world[l] EXCEPT !.base = world[l].due \cup world[l].origin]
                     ELSE world[l]]
      /\ stage' = [x \in Cover |-> "coming"]
      /\ overtaken' = {}
      /\ glast' = [g \in Aggregate |-> NoEvent] /\ gstopped' = {}
      /\ queue' = <<>>
      /\ old' = old \cup calls
      /\ IF how = "kept"
           THEN /\ pc' = [t \in Task |-> IF t \in fan \cup drained THEN "done" ELSE pc[t]]
                /\ orphaned' = orphaned \cup AllDeeds(left)
                /\ UNCHANGED <<mark, entry, acks, displaced, req, registry, inbox>>
           ELSE /\ \A c \in Command : ~req[c].open
                /\ pc' = [t \in Task |-> IF pc[t] = "idle" THEN "idle" ELSE "done"]
                /\ mark' = mark \cup {l \in Leaf : \E t \in calls :
                                        t[2] \in Aggregate /\ Chan[l] \cap Chan[t[2]] # {}}
                /\ orphaned' = orphaned \cup AllDeeds(left) \cup
                     UNION {Deeds(c, {"stop"}) : c \in {d \in Command : rf[d] = "armed"}}
                /\ entry' = [c \in Command |-> "none"] /\ acks' = <<>> /\ displaced' = {}
                /\ registry' = "unseen"
                /\ inbox' = <<IF up THEN <<"online">> ELSE <<"offline">>>>
                /\ UNCHANGED req
      /\ UNCHANGED <<cast, seen, newer, button, up, rf, forgiven, presses>>

\* async_added_to_hass, up to the wait for the stored state.  A marker makes
\* it superfluous: the leaf is unknown, and the marker goes when that is written.
Register(x) ==
  /\ stage[x] = "coming"
  /\ stage' = [stage EXCEPT ![x] = IF x \in Leaf \ mark THEN "adding" ELSE "added"]
  /\ mark' = mark \ {x}
  /\ UNCHANGED <<cast, leaf, snap, overtaken, groups, tasks, hub, bridge, history, bounds>>

\* Faulty variant: a marker set since the restore began is not looked at.
RestoreAnyway(l) ==
  /\ stage[l] = "adding"
  /\ stage' = [stage EXCEPT ![l] = "added"]
  /\ \E elapsed \in BOOLEAN : \E f \in
       Restored(snap[l], registry, \E c \in displaced : snap[l].motion.by = <<"air", c>>, elapsed) :
       leaf' = [leaf EXCEPT ![l] = f]
  /\ world' = [world EXCEPT ![l].due = world[l].base, ![l].origin = {}]
  /\ mark' = mark \ {l}
  /\ overtaken' = overtaken \ {l}
  /\ UNCHANGED <<cast, snap, groups, tasks, hub, bridge, forgiven, orphaned, bounds>>

\* The time of a measured move that has overrun is over.
MayRun(l) == \A c \in Command : snap[l].motion.by = <<"air", c>> => <<"lost", c>> \notin world[l].base

\* The stored state arrives: a marker set meanwhile outranks it, and so does
\* whatever has happened to the live model.
Restore(l) ==
  /\ stage[l] = "adding"
  /\ stage' = [stage EXCEPT ![l] = "added"]
  /\ IF l \in mark THEN leaf' = [leaf EXCEPT ![l] = MarkUnknown(@)] /\ UNCHANGED world
     ELSE IF l \in overtaken THEN UNCHANGED <<leaf, world>>
     ELSE /\ \E elapsed \in {e \in BOOLEAN : e \/ MayRun(l)} : \E f \in
               Restored(snap[l], registry, \E c \in displaced : snap[l].motion.by = <<"air", c>>,
                        elapsed) :
               leaf' = [leaf EXCEPT ![l] = f]
          /\ world' = [world EXCEPT ![l].due = world[l].base, ![l].origin = {}]
  /\ mark' = mark \ {l}
  /\ overtaken' = overtaken \ {l}
  /\ UNCHANGED <<cast, snap, groups, tasks, hub, bridge, forgiven, orphaned, bounds>>

\* The restore raises: every registration goes again, and with them what a leaf
\* without a marker has lived through since, or will by its own calls.
AddFails(l) ==
  /\ stage[l] = "adding"
  /\ Upset
  /\ stage' = [stage EXCEPT ![l] = "failed"]
  /\ leaf' = [leaf EXCEPT ![l] = Blank]
  /\ overtaken' = overtaken \ {l}
  /\ forgiven' = forgiven \cup IF l \in mark THEN {}
                               ELSE (world[l].base \cup {world[l].last}) \X {l}
  /\ orphaned' = orphaned \cup IF l \in mark THEN {}
                               ELSE AllDeeds({c \in Command : c[2] = l /\ Pending(TaskOf(c))})
  /\ UNCHANGED <<cast, snap, mark, groups, tasks, hub, bridge, world, presses>>

----------------------------------------------------------------------------
Next ==
  \/ \E o \in Op : Call(o)
  \/ \E t \in Task : Begin(t)
  \/ \E o \in Op : Cancel(<<o, On[o]>>)
  \/ Resume
  \/ \E i \in DOMAIN queue : Send(i)
  \/ \E c \in Command : Timeout(c) \/ Air(c) \/ Fire(c) \/ TrainEnds(c) \/ Overrun(c) \/ Bury(c) \/ Lapse(c)
                        \/ TimedOut(c)
  \/ \E g \in Aggregate : Expire(g)
  \/ Drop \/ Return \/ Deliver
  \/ \E p \in cast.presses : Press(p[1], p[2])
  \/ \E how \in cast.reloads : Reload(how)
  \/ \E x \in Cover : Register(x)
  \/ \E l \in Leaf : Complete(l) \/ Restore(l) \/ AddFails(l)

Spec == Init /\ [][Next]_vars

----------------------------------------------------------------------------
(* What a group shows: it has no model of its own. *)

\* Faulty variant: who is not there is not asked.
SomeMembers(g) == Members(g) \cap Live # {}

\* _members_cover_every_modelled_channel: every configured leaf is there.
MembersComplete(g) == Members(g) # {} /\ Members(g) \subseteq Live

\* position_confidence of an aggregate; it is Unknown whenever
\* current_cover_position is None.
GroupConfidence(g) ==
  LET grades == {Confidence(leaf[l]) : l \in Members(g) \cap Live}
  IN  CASE ~MembersComplete(g) \/ Unknown \in grades -> Unknown
        [] MembersComplete(g) /\ Unknown \notin grades /\ "suspect" \in grades -> "suspect"
        [] MembersComplete(g) /\ grades \cap {Unknown, "suspect"} = {} /\ "assumed" \in grades
             -> "assumed"
        [] OTHER -> "anchored"

----------------------------------------------------------------------------
(* Properties. *)

\* Nothing is on its way between the bridge, the hub and the covers.
Quiet == inbox = <<>> /\ acks = <<>> /\ \A c \in Command : ~req[c].open

\* The leaf shows a position without reservation.
Asserted(l) == /\ stage[l] = "added" /\ leaf[l].anchor = NoEvent
               /\ Confidence(leaf[l]) \in {"assumed", "anchored"}

\* Events that drove the leaf's motors and that its model knows nothing of.
Overlooked(l) == {e \in world[l].due \cup world[l].origin : <<e, l>> \notin forgiven}

\* What became of a frame whose entity, or whose caller's, a reload removed.
Orphans(l) == {e \in Event : <<e, l>> \in orphaned}

Accounts(kind) ==
  Quiet => \A l \in Leaf : Asserted(l) => \A e \in Overlooked(l) \ Orphans(l) : e[1] # kind

\* Nobody moves a blind with the remote behind its position: a press stays in
\* the estimate whatever older command is acknowledged, resolved or restored
\* after it.
PressesAreKept == Accounts("press")

\* A frame that went on the air is modelled, or the positions of everything it
\* addressed are disowned, though its caller timed out or was cancelled: unless
\* a reload left nobody to tell (ReloadsAreAccounted).
FramesAreAccounted == Accounts("air")

\* The STOP a bridge owes a measured move never cuts another motion short
\* unnoticed: the press or command that took over knows it by the end of the
\* takeover.
StopsAreNoticed == Accounts("stop")

\* A measured move that lost its STOP with its bridge does not end at its
\* target, neither live nor across a reload.
LossIsNoticed == Accounts("lost")

\* A group vouches for a position only with every configured member there and
\* none of them ignorant of what moved it.
GroupIsHonest ==
  Quiet => \A g \in Aggregate :
    Registered(g) /\ GroupConfidence(g) \in {"assumed", "anchored"} =>
      \A l \in Members(g) : Registered(l) /\ (Asserted(l) => Overlooked(l) \subseteq Orphans(l))

\* A frame that went on the air is modelled or disowned across a reload too:
\* "Affected covers now go unknown" when their caller goes with its entity.
ReloadsAreAccounted ==
  Quiet => \A l \in Leaf : Asserted(l) => \A e \in Overlooked(l) : e[1] = "press"

\* What the leaves show of their confidence is earned as PositionTrust promises,
\* across commands, takeovers, lost bridges and reloads.
Trust == INSTANCE PositionTrust WITH
  shown <- [l \in Leaf |-> IF stage[l] = "added" THEN Confidence(leaf[l]) ELSE "absent"],
  memory <- [l \in Leaf |-> IF stage[l] = "added" THEN Confidence(Persisted(leaf[l]))
                            ELSE Confidence(snap[l])]

TrustIsEarned == Trust!Spec

\* The marker of an invalidated position outlives reloads and failed restores:
\* it goes when the entity has shown that it knows nothing, or knows better.
MarkerIsShown ==
  [][\A l \in mark \ mark' :
       stage'[l] = "added" /\ (leaf'[l].pos = Unknown \/ leaf'[l].anchored)]_vars
=============================================================================
