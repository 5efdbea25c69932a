# A verification project for zemismart-blinds

Home Assistant integration for AOK/Zemismart 433 MHz roller blinds. The blinds
are one-way: the program sends frames through one or several RF bridges and
never hears from a motor. What it knows is what its bridges report (a command
was admitted, its first frame started, a newer one displaced it, a disarm was
done) and what the bridges overhear on the air. The models here are about what
follows from that: who may transmit when, which request becomes which
publication, what a caller is told, and what the program remembers of what is
still owed.

All paths are under `src/custom_components/zemismart_blinds/`. `PROJECT.json`
maps every definition to the lines it models, and lists the runs, their
mutants, the hazards and the theorems.

## 1. The system

| Component | State | Operations | Hard behaviour | What makes it correct |
|---|---|---|---|---|
| Command hub, `transport.py` | queue, worker's command, fast STOPs, publish events, publish lock, per-channel press and publish generations, correlated futures, disarm requests | `async_transmit`, `async_send_raw`, `handle_status`, `handle_rx`, `drain_owner`, `async_disarm_remote`, `close` | one worker and any number of STOP tasks interleave at every await; callers cancel; statuses come late, in batches, or never | request order is publication order; a STOP retires what it overtakes; a frame is fresh when it leaves; answers are true; every caller is answered |
| Air calendar, `air.py` | pending plans, drain horizons, STOP reservations, one wake event | `decide`, `provision`, `started`, `displaced`, `disarmed`, `release_pending`, `update_bridges`, `close` | records expire, are evicted, are raised in any order; a held command sleeps on a generation | cleared trains never overlap; no sleeper misses freed air; bounded hold; least feasible instant |
| Command ledger, `command_ledger.py` | predicted echo windows per command | `register_pending`, `confirm`, `displace`, `retire`, `release`, `match`, `gc` | windows stretch with concurrency, are moved by a displacement, expire | an own echo is never a press; a press is not an own echo |
| State-sync consumer, `state_sync.py` | exact-duplicate memory, held captures, debounce and commanded-start stamps | `handle_rx`, `resume_holds`, `maintain`, `record_commanded_start` | duplicates from several bridges, out of order, before their command is confirmed | each press is dispatched once, in order, and never over a later command |
| Takeover, `transport.py` | disarm requests with retry tasks | press dispatch, `on_disarmed`, `_disarm` | the acknowledgement races the end of the STOP window; shared commands | what a press took over is invalidated exactly where it must be |
| Leaf cover, `cover.py` | position, motion, anchors, restore epoch, tombstone generation | commands, heard presses, displacement, restore | a motion is committed after an await, a restore resumes late | a specific position is only shown when it is justified |
| Aggregate cover, `cover_aggregate.py` | members | group commands, fan-out | one member fails or is cancelled | every member addressed is modelled or invalidated |
| Coordinator, `coordinator.py` | registered entities, invalidation tombstones | register, record, clear, attach | reload while an invalidation arrives | an invalidation survives the reload it raced |
| Bridge registry, `bridge_registry.py` | retained availability and info | updates, `resolve` | documents in any order, cap | routing only to a bridge that is online |
| Bridge clock, `bridge_clock.py` | unwrapped uint32 time, EMA offset, outlier | `observe`, `to_monotonic_time` | wrap, reordering, reboot | projections never after receipt, never through half a range |
| Travel capture, `travel_capture.py` | one open run, anchored signatures | `offer_payload` | copies seconds late | a run is never shortened by a copy |
| Domain lifecycle, `__init__.py` | the shared runtime, its users | setup, unload, deferred cleanup | setups and unloads overlap; disarms outlive their entry | one runtime, torn down once, never under a user |
| Config flow, `config_flow.py`, `learn_session.py` | wizard, sniff channels | learn, measure, edit | contested captures, abandoned sessions | a capture belongs to the action that asked for it |
| Codec and configuration models | none | pure functions | arithmetic edges | encode and decode agree |

How they interact: a cover calls the hub and awaits one future. The hub asks
the calendar before each ordinary publication and provisions it when it
publishes; the bridge's statuses come back through `handle_status`, which
updates the calendar, the futures, the ledger and the listeners, in that order.
Overheard frames go through the consumer, which asks the ledger whether they
are echoes; presses advance the hub's generations, start disarms and are handed
to the covers. The domain lifecycle owns the one hub all config entries share.

Everything runs on one asyncio loop. The hazards are therefore not data races
but what may happen at an `await`; the models have one action per stretch of
code between two suspension points.

## 2. Modules

| Module | Models | Notes |
|---|---|---|
| `AirCalendar` | `air.py`: tables, feasibility, every operation | pure state machine operators, no `Next` of its own |
| `AirTraffic` | the publish loop of the hub over the calendar, and bridges that start trains late | composes `AirCalendar` |
| `AirTrafficProofs` | theorems about `AirTraffic` | |
| `QueueOps` | what a loop over a queue, a ledger or a list of holds keeps of it | two operators; the library's `SelectSeq` folds and could not be reasoned about |
| `QueueOpsProofs` | lemmas about queues, sums and least elements | cited by the proofs of the hub, the calendar, the covers and the consumer |
| `CommandHub` | `transport.py`: requests, lanes, barriers, lock, tokens, futures, drain, close | the calendar appears as a wait that may end at any time |
| `CommandHubProofs`, `CommandHubOrderProofs` | theorems about `CommandHub`: its shape and cap, then its order and its answers | the second rests on the first |
| `DomainLifecycle` | `__init__.py`: set-up and unload of entries, the shared runtime, its deferred clean-up | the disarm requests of the hub appear as a count |
| `DomainLifecycleProofs` | theorems about `DomainLifecycle` | |
| `CommandLedger` | `command_ledger.py`: windows, matching, every operation on an entry | operators over the sequence of entries |
| `StateSync` | `state_sync.py`: classification, holds, debounce, commanded starts | operators over one record that holds the ledger too |
| `EchoTraffic` | the hub's callbacks and the stretches of `_async_execute` over `StateSync`, with bridges, people and late reports around them | composes the two |
| `EchoTrafficProofs` | theorems about `EchoTraffic`, over lemmas about lists, the ledger and the consumer | |
| `Topology` | `config_models.py`, `coordinator.py`: nested channel sets, leaves, aggregates, members | constants and an assumption |
| `LeafModel` | `cover.py`: the position model of a leaf as a value, one operator per method | operators; a set where the progress of a motion is left open |
| `CoverFamily` | `cover.py`, `cover_aggregate.py`, `coordinator.py`, the takeover part of `transport.py`: the covers of one remote, their calls, presses, disarm requests, the bridge, reloads | composes `Topology` and `LeafModel` |
| `PositionTrust` | what a leaf promises with the confidence it shows | abstract; `CoverFamily` implements it |
| `CoverFamilyProofs` | theorems about `Topology`, `LeafModel` and `CoverFamily` | |
| `TravelRun` | `travel_capture.py`: the measurement of one listening session | operators over one record |
| `SniffAttempt` | `learn_session.py`: one attempt of the learn wizard and its rivals | operators over one record |
| `ListeningWizards` | `config_flow.py`: the windows that listen, their sessions, tasks and claims on bridges | composes `TravelRun` and `SniffAttempt` |
| `ListeningWizardsProofs` | theorems about `ListeningWizards` | |
| `MCAirTraffic`, `MCCommandHub`, `MCEchoTraffic`, `MCCoverFamily`, `MCListeningWizards` | instances | `DomainLifecycle` needs none: its constants are sets and numbers |

### AirCalendar and AirTraffic

Time is a natural number of ticks. `pending`, `drains` and `reservations` are
the three tables of `AirArbiter`; `sleepers` is the set of commands asleep on
the current wake event, so rotating the event is `sleepers' = {}`. Each
operation starts from what `_prune` leaves (`LivePending`, `LiveDrains`,
`LiveReservations`), as the class does. The loop of `decide` is the function
`Tries` over its passes; `Decision` is its verdict. The enforcing mode is
modelled; the shadow mode delays nothing.

`AirTraffic` follows one command at a time through the worker, and STOPs at any
time: `Attempt` is one turn of the loop of `_ordered_publish` (ask, hold or
publish), `AttemptUnasked` the paths on which it fails open, `GiveUp` the
timeouts, `Retire` the ends of a held command. `StartRf`, `BridgeIdle`,
`CutOff` and the train intervals are the firmware, external: all that is assumed
of it is that it starts trains one at a time and forgets its schedule when it
reboots. History variables record when trains really were on the air
(`rfAt`, `flushAt`), what had been published before (`seen`), who was allowed to
ignore the calendar (`bypass`), whose record the calendar gave up (`lost`) and
whose STOP window it had no room for (`evicted`).

Three assumptions on the constants: the set of bridges is finite; every train
lasts; and a STOP that has a window of its own begins at least `GUARD_MS` after
its start (`StopsAreLate`). The last holds because such a STOP comes after the
action train, and a body that carries one is a movement, each copy of which holds
the air for half a second (`estimate_b0_slot_ms`). Without it a held command
would sleep for up to the difference after the window it waits for has gone: TLC
finds that behaviour as soon as a plan violates it.

### CommandHub

One entry of `Command` is one request. `pc` is where its coroutine is
suspended: `queued` (or `merged` into a batch), `barrier`, `lock`, `yield` (the
`sleep(0)` under the publish lock), `airwait`, `handoff` (the turn before the
publisher task runs), `admission`, `started`, `done`. `members`, `chans` and
`barriers` are the entry's contributors, frame channels and publish barriers;
`published` holds the entries whose event is set. `answer` is the caller's
future, apart from the coroutine: a caller may be gone while the worker goes on.

An uncontended lock or an event that is already set does not suspend a
coroutine; the model lets other actions in there, which only adds behaviours.
The publisher task and the coroutine that awaits it are adjacent in the ready
queue, so the hand-over and the bookkeeping behind it are one action
(`HandOff`, `Published`).

### DomainLifecycle

A `DomainRuntime` is a number; each of its fields is a function of it, and
`closed`, `disarms` and `armed` are the parts of its hub that matter here.
`current` is `hass.data[DOMAIN]`. `pc` says where the one call Home Assistant
runs for an entry is suspended (on the lock, in a subscription, in the
platform), `runtime` is the local variable of that call; whatever ends a call
early, an exception or a cancellation, is `SetupFails`, `SubscribeFails` or
`UnloadFails`. `Release` is `_release_domain_runtime`, `EndDisarm` the end of a
disarm task with the callback `_finish` it may run. An entry whose unload failed
is `stuck`: Home Assistant does not touch it before a restart. Setting up an
entry that is already loaded is left out for the same reason.

### CommandLedger, StateSync and EchoTraffic

A tick is one repeat of a frame, the unit the ledger charges
(`_LEDGER_REPEAT_AIRTIME_MS`). A ledger is the sequence of its entries in
insertion order; an entry's windows are computed from its hand-over and its
displacement when they are asked for (`Windows`), as both fix them. `Match` has
the three strengths of the code: an honest fit, one that spends the anchor lag,
a STOP flushed early. Held captures are classified again by `ClassifyAll`, the
loop of `resume_holds` and of `_maintain`: each one finds what the ones before it
left.

The handlers of the consumer run without an await, so each is an operator from
the record `rx` to the record `rx`: tables as sequences in insertion order, and
`settled`, `dispatched` and `proven` for what went out. `deaf` remembers a press
lost to a start that was later than its receipt. One remote is modelled, since
every comparison of the code asks for the same remote first.

In `EchoTraffic` a command is registered and published (`Publish`), reaches its
bridge (`Admit`), goes on the air with `Tick`, and the hub hears of it in its own
time (`StartedStatus`, `DisplacedStatus`, `Disarmed`); `Confirm` and `Fail` are
the two ends of `_async_execute`. What peers and people put on the air is in
`air` with the instant it was heard; `Deliver` may take any of it, again or
never. The consumer never sees that instant: `HeardInstants` is what
`BridgeClock.to_monotonic_time` may make of it, up to `Skew` ticks off and never
after the receipt, which is also what it falls back to without an estimate. Two
copies of one frame, or two reports by one bridge, may so be put in the wrong
order. The radio is external and does what the comments of the ledger say of
it: trains take turns, a due STOP goes first, an admission drains the armed STOP
of what it displaces in front of its own first frame.

### Topology, LeafModel, CoverFamily and PositionTrust

`LeafModel` is what `ZemismartCover` knows, as a record: `pos` (unknown, an end
or somewhere in part), `motion` with what set it going, `anchored`, `suspect`,
`anchor` (`_unverified_anchor_command_id`) and `stopped` (`_stopped_by_heard`).
Each method is an operator from a record to a record, or to the set of records
it may reach, because the progress of a motion is left open: an estimate made on
the way is the start, the target, or something between (`Estimates`).

`CoverFamily` composes them. `stage` says where an entity is between its
construction and its removal, `snap` is what the state machine stored of a leaf,
`mark` the coordinator's invalidations, `overtaken` the leaves whose restore no
longer has a pristine model to write to. A task is a service call on a cover, or
a member's part in a fanned-out one; `pc` says which of its frames it waits for.
`seen` and `newer` are the intent generations a call took and what was heard
since. Of the hub there is what a takeover looks at: `queue`, `entry` (the
ledger's view of a command), `acks` (a started future whose coroutine has not
resumed), `displaced`, the disarm requests `req` with their owned and pressed
channels. `Taken` is the truth table of `_evaluate_takeover_resolution`,
`Targets` and `Merged` are what `_dispatch_heard` opens and widens, `Deliver` is
`handle_status`. `rf`, `up` and `inbox` are the bridge, external: the newest
command of a channel wins, a displaced command gives up its armed STOP at once,
a disarm buries the command, a loss of power forgets the schedule.

Motors report nothing, so what really happened is history. `world[l]` keeps the
last event that drove the motors of leaf `l`, the events its live model has not
accounted for (`due`, and `origin` below a motion that was built on them) and
those the stored model has not (`base`). The properties say that a leaf which
shows a position without reservation has accounted for all of them.
`forgiven` names the exceptions the code means, or documents, each where it
arises:

- a frame published before a press and not yet modelled: a press outranks it,
  in whichever order they are on the air (documented in the repository's
  `README.md`, lines 268 to 277, and its takeover design notes);
- a command nobody owned whose disarm is acknowledged after its STOP has fired;
- the armed STOP, or its loss, of a command whose caller was cancelled or timed
  out;
- a cover exempt from a takeover because a STOP press or a newer command has
  claimed it. The exemption for a STOP press also covers a STOP heard after the
  frame aired and before its `started` arrived; the truth table of the design
  notes argues that a known position needs no repair, which holds for a motor
  that was at rest;
- a press that a leaf heard between its registration and the start of a group
  frame issued before it registered: the group has no intent generation of it to
  compare, and its frame replaces the press;
- what an entity without a marker lived through before its restore failed.

A reload is not among them. What it leaves without anyone to tell is kept apart
in `orphaned`, and no document excuses it:

- the frames of a leaf's call that are on their way when its entity is removed
  (with the hub kept, the call goes on for the old entity; with the hub closed, it
  is cancelled when the state is stored already), and with a closed hub the STOP
  of a measured move that nobody tracks any more;
- a started group frame whose group is gone, or whose member is not registered at
  that moment: the acknowledgement commits into the members there are;
- a takeover's request that ends while a leaf it concerns is not registered;
- what the calls of an entity do whose restore failed.

`FramesAreAccounted`, `StopsAreNoticed` and `LossIsNoticed` leave the orphans out,
and hold for everything else a reload meets: the failed or cancelled group frame,
which leaves markers, a cancelled fan-out, a displaced or disarmed command whose
leaf is back in time, a measured move restored with its bridge there or away.
`ReloadsAreAccounted` leaves nothing out (but presses, which `PressesAreKept` has
in full), and `cover_reloaded` shows it violated, a finding (section 6).

Assumed of the outside: one train is one emission; presses are heard at once
and while every cover they address is registered; statuses of one bridge arrive
in order and none is lost; a restart of a bridge takes longer than a status and
the loop turn that acts on it, and longer than a reload; no reload while a call
waits for a lock or an offline is on its way; the entities of an entry are removed
in one turn of the loop, so that a member cancelled with its group finds no leaf to
invalidate before its state is stored; no restore takes as long as a
travel; the bridge's STOP comes before the
leaf's own timer; a train that has not begun when its caller times out never
does, and one that began before a later frame was published is timed out before
that frame; a restore does not resume a measured move whose time is over. Left out are the emission proof of a restarted cover, the pruning of
markers, and the disarm of a whole remote before it is learned again.

`PositionTrust` is the promise, with two variables per leaf: the grade it shows
and the grade that is kept of it. Trust is lost at any time and earned only by a
watched full travel; an entity that comes back knows at most what was kept. The
mapping is `Trust` in `CoverFamily`: `shown` is the confidence of an added leaf,
`memory` that of what would be, or was, stored of it.

### TravelRun, SniffAttempt and ListeningWizards

`TravelRun` and `SniffAttempt` are records with an operator per method. A copy
carries the press it is a copy of, which only the properties read; a bridge's
clock is a boot counter and a time modulo `Modulus`.

In `ListeningWizards` a session claims its bridges (`owner` is
`_CAPTURE_OWNERS`), subscribes them one after another, listens, and tears down
bridge by bridge. `phase` is where its tasks are suspended; `gap` is the time
between the two tasks of a measurement, when nobody runs and only
`_sniff_session_id` still knows of the claim. A window (`flow`) may be left at
any moment. Presses reach every subscribed bridge or some, and are delivered in
the order of each bridge but as late as it likes; every deadline is a step that
may come at any time, together with the answer it races.

A calm cast pins down what its property is about: the wizard is armed first,
every bridge subscribes, deadlines wait for the presses, the user stays, one
bridge delivers at once (`Prompt`) and the next press comes after the last was
delivered by somebody. The last point matters: if the first copy to arrive of a
later press is overtaken by the first of an earlier one, the run is anchored on
the wrong press, and nothing in a frame could tell. STOP copies arrive within
one burst window: a longer lag is the residual risk the fleet-wide capture design
accepts. The first uptime of a restarted bridge is lower than the last before
it. Own emissions are filtered elsewhere (`StateSync`).

## 3. Runs

Every property of a passing run has a mutant: a faulty variant of one mapped
definition, kept beside the original, under which the run finds a violation.

| Run | Instance | Asks |
|---|---|---|
| `air` | 2 bridges, one of them booted, 3 commands (a move whose STOP falls inside its train, a timed move, a STOP), cap 1, hold 2, TTL 2, 5 ticks, 1 adverse event | do trains overlap; do cleared trains keep away from owed STOPs; is the answer of `decide` least; is a wake-up lost; is a hold bounded; is what is owed tracked |
| `hub` | six casts: a batch head, its sibling, a raw frame and a STOP, undisturbed; a move, a raw frame and a STOP with an unload or another adverse event; two moves that merge with 2, and with a measured one and 1; statuses, an unload and a cap of one, twice with 1; fair | request order is publication order; overtaken moves stay unpublished; a frame carries what is still wanted; answers, ledger entries, the cap, the close; every caller is answered |
| `domain_lifecycle` | 3 entries, 3 runtimes, 2 topics, 2 disarms, fair | one open hub for all users, subscribed once, closed when nobody needs it and not before; every call returns |
| `sync` | three small casts (a move displaced by another, two neighbours, a move between two presses), 2 bridges, 6 ticks, caps 2, hold cap 1, clocks one tick off | is an echo the hub can know ever a press; are presses handed on in the order of the clocks and none twice in a row; is a report lost or held for ever |
| `sync_stale` | three presses | expected violation, see section 6 |
| `sync_held` | a move, a STOP of the hub, a STOP press | expected violation, see section 6 |
| `sync_late` | a move and the one that displaces it, starts as late as the hub waits | expected violation, see section 6 |
| `cover` | a blind on two motors, one on a third, a group over four channels; ten casts of one or two calls, up to 2 presses, 3 adverse events and reloads of both kinds | is what drove the motors in the models, or disowned; do groups vouch for no more than their members; is trust earned; do markers last |
| `cover_older` | UP on a blind, a STOP on its group, 1 adverse event | expected violation, see section 6 |
| `cover_reloaded` | UP on a blind, or DOWN on the group, and a reload | expected violation, see section 6 |
| `listen` | 2 bridges, 2 windows, 3 sessions; eleven casts of up to 5 presses, late copies, a wrap and a restart, rivals, full lists, contested bridges, fair | is what is stored a run the shade made; is what is adopted unrivalled; does every claim end |
| `listen_anchor` | DOWN, STOP, UP, a lagging bridge | expected violation, see section 6 |

Bounds. `MaxTime` ends the air run: the plans are chosen so that a train, its
STOP and the guard fit into it and a held command meets each of them. The run
is small because all seven of its properties are theorems; what it adds is that
each can fail, and that every action happens. One bridge of
the two has no boot evidence, which is the pair whose records a snapshot must tell
apart. The casts of `hub` are small for the same reason, all of its safety
properties being theorems, and so that liveness can be checked on them. `MaxUpsets` counts adverse events
(what the definition `Upset` says): the interesting interleavings need one or
two, and each is combined with every order of the ordinary steps. A cast is
drawn by `Init` and fixes, per behaviour, who takes part and the bounds that go
with it; casts keep runs about one model together. In the hub's, `upsets` is the
number of adverse events, `holds` how often one command waits for the air (a
second wait repeats the first), `reported` the commands whose statuses arrive
(the others are not about statuses), `departing` the entries that may unload. Two
channels are enough for a frame that overlaps two disjoint ones. In the cover's,
four channels are the fewest with a leaf of two motors, of which a press may
reach one, a second leaf, and a channel nobody models; `most` bounds the presses
and `upsets` the cancellations, time-outs, power losses, failed restores and
reloads. One call and two presses, or two calls and one, reach every row of the
takeover truth table. No cast has a call on a leaf in flight beside a group frame
whose caller is lost: `FramesAreAccounted` does not hold there, which
`cover_older` shows. In the wizards', `until` bounds the time for presses,
`reboots` the restarts, `MaxSessions` the attempts; windows of a second and a
travel of three put the limits of `TravelRun` within reach, a modulus of 16 the
wrap of a clock. The delays and lives of the `sync`
runs are the program's, scaled to ticks with their order kept: a status or a
report is covered by the lag and the tables' lives; the hold is shorter than the
start wait, so that holds do age; and the start wait (4; 32 s in the program) is
longer than the life of a pending entry (3; 30 s). So a start may come when the
entry is gone and the echo is a press: `sync_late` shows it, and
`EchoNeverAPress` speaks of commands whose start is known in time (`InTime`).
`Skew` is 1 in `sync`, which is the whole way of a report there, so that a report
may be dated by its receipt or before its frame; it is 0 in the violations, which
need no help from a clock. `BrokerDelay` is 2 in `sync_late`: a start has to take
longer than an entry lives. `SyncAssumption` says how large the memory of exact events
(`_EXACT_EVENT_CAP`) must be: while a report is under way, the reports of the
ticks within `ReportDelay` before and after it, one per bridge that hears and
bridge that sends, must not push its event out. Otherwise a late copy of an event
that was forgotten is classified again. With the program's 1024 events, kept for
60 s, and one frame per bridge and tick, two bridges may report as late as the
whole 60 s, three 56 s, four 31 s; real repeats are shorter than the tick the
ledger charges, and shorten this in proportion. The runs have caps of 12 and 28
accordingly, so there the memory loses its events to age and not to the cap. `Entry` says when a command or press may begin, one publication per
tick. `EchoNeverAPress` speaks of commands the hub can tell (`Owned`): the
comments of the ledger leave a displacer that is still pending to the safe side,
a disarmed command has no entry any more, and one that started late has none
either. It also leaves out a STOP
displaced in the middle of its own train (hazard at `displace`). Frames take
the full tick the ledger charges; the real ones are shorter, so a timed
neighbour whose STOP goes in front, which the model's tight ticks would not
absorb, is not among the casts. Three entries are one that
releases, one that waits and one that fails; a third runtime is needed to see
the second one replaced. Deadlock checking is off because each request is made once
and the run then really stops.

Symmetry is used for the bridges of the air runs only (they are
interchangeable, and no liveness is checked there).

Fairness (`hub`): weak fairness of the worker and of each entry's next
step. The event loop runs every ready callback, and `_await_status`,
`_await_started` and the air wait have time-outs, so the steps that end them
need no help from a bridge. Nothing is assumed of bridges, callers or remotes.
`domain_lifecycle` assumes that a waiter gets the lock in the end (strong
fairness: `asyncio.Lock` serves its waiters in order) and that a subscription, a
platform call and a disarm task end: Home Assistant bounds the first two, the
STOP window of the command the third. `listen` assumes that the event loop runs
what is ready and fires its timers, that time passes, and that the broker
completes a publication or fails it; a person, a press or a restart is never
forced.

Refinement: `cover` checks `TrustIsEarned`, that `CoverFamily` implements
`PositionTrust` under the mapping `Trust`.

## 4. Proofs

`AirTrafficProofs` proves seven theorems for all bridges, commands, plans, caps
and bounds, from the named assumptions on the constants.

- `TypeCorrect`: `Spec => []TypeOK`. Also that an operation of the calendar
  keeps its tables well typed, operation by operation.
- `CollisionFree`: `Spec => []NoCollision`. `NoCollision` is not inductive: it
  speaks of past starts, the calendar of future ones. `AirInv` adds that
  commands are routed and dated (`Routed`, `Dated`), that each tracked command
  that may still transmit, or still does, has its pending plan or is covered by
  its bridge's drain (`Tracked`), and that whoever was cleared found every
  earlier tracked train of another bridge finished (`Cleared`). The central step
  is that `decide` says "go" only with no foreign pending plan and no foreign
  drain beyond now, and that drains are only raised.
- `OwedStaysTracked`: `Spec => []OwedIsTracked`, from the same invariant.
- `HoldIsBounded`: `Spec => []HoldBounded`; the invariant `HoldInv` adds that the
  time-out of a held command never lies beyond its ceiling, and uses that time
  does not advance past a command that can run.

- `EarliestIsTheLeast`: `Spec => []EarliestIsLeast`. The push-forward loop is a
  recursive function of its passes, so the core is a lemma about every one of
  them, by induction (`TriesSearch`). A push never passes a feasible instant,
  because a window that clashes goes on clashing until the start has left it or
  its STOP has cleared it (`ClashLasts`, `NothingSkipped`). A start that is not
  feasible is pushed past the end of one more window, of which there are two to
  a window, one for the train and one for the STOP (`Passed`, `PushPasses`): so
  `2 * AIR_STATE_CAP + 1` passes suffice for any number of windows the calendar
  can hold, and "fail open" is never its answer. It needs that the calendar keeps
  its cap (`Capped`).
- `StopWindowsAreKept`: `Spec => []StopWindowsKept`. `WindowInv` adds to `AirInv`
  that every STOP still owed by a tracked command has its window, padded by the
  guard, on the calendar (`Reserved`), under the one bridge of the command
  (`Keyed`) and its current boot (`BootsAgree`: else a snapshot would drop it);
  and that whoever was cleared was cleared against it (`Spared`). `Flow`,
  `Retains` and `Admits` say once what each action does to the dates, the windows
  and the admissions.
- `NoWakeupIsLost`: `Spec => []NoLostWakeup`. That nobody sleeps through free air
  is not inductive; that a sleeper of the current generation has a reason that
  lasts until its wait times out is (`Asleep`): a foreign plan that expires no
  earlier, or a drain or window that blocks every instant until then. A step
  either wakes everyone or takes nothing live off the calendar (`WakeFlow`), and
  going to sleep has such a reason because the answer of `decide` was the least
  feasible instant. This is where `StopsAreLate` is used.

`AirInv`, `WindowInv` and `Asleep` were checked with TLC on the air run's
commands before they were proved.

`DomainLifecycleProofs` proves `TypeCorrect`, `UsersHaveALiveHub`,
`OneSubscription`, `NothingLeftBehind` and the action property
`DisarmsSurvive` for any finite set of entries and any bounds. The four
invariants are inductive together with three more parts: `Counted` (the number
`setup_users` is the number of calls between the adoption and the `finally`:
without it "zero" would say nothing about who is still there), `Phases` (a call
past the initialisation finds it done, a call that unloads is still loaded) and
`Quiet` (requests only on an initialised runtime, the callback only with
requests). `CleanupKeeps` is the case all releases share. A consequence: the
branch of `async_setup_entry` that starts over because the runtime was replaced
is never taken, since a call counts itself before it waits for the lock.

`CoverFamilyProofs` proves, for any topology `TopologyAssumption` admits and any
calls and casts, with `FamilyAssumption` as the only other premise:

- `TrustRefined`: `Spec => TrustIsEarned`, the refinement of `PositionTrust`.
  What it comes to: a position that is unknown or doubted is trusted again only
  once a travel has been followed to its end, and nothing but that makes a
  reloaded one more than it was. It needs the inductive invariant `Known`
  (`ModelsAreSound`): every live and stored model is `Sound`, that is, only a
  leaf at rest is anchored, and a motion that began from an unknown position
  goes to an end. Without it the estimate an interrupted motion leaves could be
  one nobody knows. The first part of the module shows it of each operator of
  `LeafModel`; the second assigns to every action, leaf by leaf, one way to
  proceed (`Proceeds`: kept, travelled, unloaded, started anew, restored,
  failed), and `StepImplements` maps each of these to a step of the abstract
  module or a stutter.
- `MarkersOutlast`: `Spec => MarkerIsShown`. The extra conjunct `Marked` keeps
  the markers to leaves; each action either leaves a leaf's marker alone or is
  one that shows its doubt.
- `PressesKept`: `Spec => []PressesAreKept`. The property looks at a leaf when
  nothing is on its way any more; its invariant has to say what may still arrive.
  `Heedful` speaks of a leaf: a model that is shown without reservation knows of
  every press (`Keen`); a full travel under way will settle all but what followed
  it (`Watched`); a measured move that the leaf is followed through was not
  preceded by an unknown press (`OwnMeasured`); and the stored model is as good
  for as long as a restore would believe it, that is, until a marker or an event
  overtakes it (`Wary`). Nearly every action leaves a leaf `Calm`: the model is no
  more confident than before and no press moved anything. The exceptions are the
  press itself, the restore, a finished travel, and the resumption of a caller
  whose frame was acknowledged (`Resume`), which replaces the model on the
  strength of an older frame. That the last is right is the hard part and takes
  `Sighted`: if the start of a command is still to be acted upon by its caller,
  then every leaf whose intent generation the caller took, and which has heard
  nothing newer, was not last moved by a press. `Sighted` in turn rests on where
  commands can be: a command is queued once and published once (`Orderly`), a
  fan-out does not run ahead of its call (`Unbegun`), and an entity whose
  generation was taken is still the same entity (`Vouched`). Without `Orderly` a
  second start of a command could be read after a press that the first one
  preceded. The parts were checked with TLC on the casts of `cover`; it found
  the two assumptions on time that the model had not stated (`Timeout`, `MayRun`)
  and the exemption of a failed restore (`AddFails`).
- `TypeCorrect`: `Spec => []TypeOK`. `Valued` gives every variable its values
  beside what the parts above say of them; what drives a model or an estimate
  rests on, what an aggregate remembers, and what the history holds are events of
  the cast's commands and of the presses so far, a set that only grows. The
  operators of `LeafModel` keep to it one by one (`Rated`), the motors' history
  action by action (`Dated`).
- `LeavesAreDisjoint`: from `Laminar` and `derive_role`.

`CommandHubProofs` proves, for any commands, channels, owners and casts,

- `TypeCorrect`: `Spec => []TypeOK`. The inductive invariant is `Lanes`: no
  duplicate in the queue, whoever is past it holds a lane, a STOP's lane holds
  only STOPs, and a closed hub has nobody left who waits;
- `ClosedIsSilent`: `Spec => NothingAfterClose`, from the last part of `Lanes`;
- `CapHolds`: `Spec => []OutstandingCapped`, by counting: a request adds one to
  the finite set of those outstanding, everything else adds none.

`Shapes` is what these and the next module work with: what a step does to the
queue, the lanes, the futures and the log, in eleven forms for the many actions
and their branches (`StepShapes`).

`CommandHubOrderProofs` goes on from there.

- `AnswersHold` and `LedgerHolds` (`AnswersAreTrue`, `LedgerSettled`): `Entries`
  says that no request is carried by two entries that could publish it
  (`Carriers`), that a set publish event belongs to an entry which waits for
  statuses or is empty, and that a frame has its sender behind the hand-off
  (`Publications`); `Statuses`, what the futures and the ledger entry say of where
  the coroutine is. `Told` is the two with `AnswersAreTrue`.
- `OrderHolds` and `StopHolds` (`RequestOrder`, `StopRetiresMoves`): `InOrder`.
  While a request waits to be published, every later one that overlaps it is
  behind it, in the queue or at a barrier, and in no frame (`Ordered`, `Behind`);
  the merge of siblings, the pop and the fast lane each keep that in their own
  way. A live move with an overlapping STOP behind it is preempted or in a frame
  already (`Stopped`).
- `MeasuredHolds` and `FramesHold` (`MeasuredIsFresh`, `FramesAreFresh`): `Fresh`.
  The code compares sums of counters over the channels of a command; a captured
  counter is never ahead of the present one (`Generations`), so sums that are
  equal mean that no channel moved on (`EqualSums` in `QueueOpsProofs`). It needs
  finite channel sets, which `HubAssumption` states.

`QueueOpsProofs` holds what these, `CoverFamilyProofs` and `EchoTrafficProofs`
need of sequences and sums. `Only` and the sum of the library are recursive; each is shown to satisfy its recursion, and facts
about it are proved with the library's induction over a set of naturals, the set
of lengths (or sizes) the fact holds for.

`ListeningWizardsProofs` proves, for any bridges, windows, casts and caps,

- `ClaimsAgree`: `Spec => []Claims`. `Claims` (a conjunct of `TypeOK`) says that
  whoever subscribes holds the claim, that a claim belongs to a session that is
  open or owes a sniff stop, and that a window hears only for its own open
  session: no press reaches two sessions, and no session that is over keeps a
  bridge. It is inductive with `Numbered` (the numbers of the sessions that have
  begun are an initial segment, so that the next one is unused and nobody's claim
  is inherited) and `Seated` (what a window waits for has begun). That a claim
  does end is liveness, `ClaimsEnd`.
- `TypeCorrect` and `AdoptionsUnrivalled`: `Spec => []TypeOK`,
  `Spec => []AdoptedIsUnrivalled`. Both rest on `WizardInv`, which has two parts
  besides the claims.
  A learn session (`Learns`) recalls every press of the last settle window, or
  its list of candidates has been full since (`Recalls`); and an open window of
  rivals judges every press heard (`Judges`). The list forgets its oldest entry
  when it is full, so the interesting case is a forgotten rival: a full list of
  different signatures, four or more, cannot belong to one remote, which has
  three buttons (`Crowd`), so the window that opens names somebody all the same
  and the capture is refused. This is where `CandidateCap >= 4` is used; with
  three the winner's own buttons could push its rival out.
  A measurement (`Hearing`) names every press of another remote in its list,
  unless the list has overflowed, as long as the window still shows it
  (`Current`); a window that reports `no_press` shows the list of its latest
  session, which is over (`WindowOK`), so `cover_measure_use_heard` reads the
  list of the session it names as the reason.
  What the steps of sessions do to both is said once (`SessionMoves`,
  `WindowMoves`, `SessionOpens`), and each action is one of these.

`WizardInv` was checked with TLC on the casts of `listen` before it was proved.
A remote is adopted on what one session heard: the presses of the window's
earlier sessions are kept apart from its own (`before`), which takes a cast of
three sessions to tell.

`EchoTrafficProofs` proves, for any commands, presses, bridges, delays and casts,

- `TypeCorrect`, `AccountedFor` and `HoldsAreEnded`: `Spec => []TypeOK`,
  `Spec => []Accounted`, `Spec => []HoldsEnd`. Its first parts say what the
  operators of `CommandLedger` and `StateSync` make of a tidy record (`Tidy`:
  tables within their caps, entries of distinct commands, holds of distinct
  reports, none of them settled). `WithinCapsHold` is about the caps of the
  ledger, `MatchWaits` says that a capture waits for an open entry only, and
  `HandleHandles`, `ResumeResumes` and `MaintainMaintains` are about the three
  handlers; a loop over the holds neither loses nor doubles one
  (`ClassifyAllClassifies`).

The inductive invariant `IInv` adds three parts, over the whole of
`EchoTraffic`:

- `Grounded`: holds and open entries wait for commands whose coroutine has not
  ended. Every exit of `_async_execute` closes the entry before it resumes the
  holds, so one that is resumed finds nothing to wait for there. The age of a
  hold is counted from the last sweep, which an idle consumer owes to the timer;
  hence the period in `HoldsEnd`.
- `Dated`: an event is dated no later than now, and few events have one date,
  since a bridge sends one frame per tick.
- `Remembering`: the memory of exact events is in the order of receipt, holds no
  event twice, and holds every event taken in that may still be reported. An event
  taken in was received within `ReportDelay` of its date, so those received
  after it and before its last copy are dated within `2 * ReportDelay + 1` ticks
  (`WindowSmall`, `InstantSmall`), and by `SyncAssumption` they are too few for
  the cap to push it out (`MemoCount`, `MemoryLasts`). Without this part a late
  copy of a settled report could be held, and `Accounted` would fail.

Only model-checked:

- of `EchoTraffic`, `EchoNeverAPress` and `DispatchOrder`. Neither is a theorem.
  An echo is known as long as three constants of the code are large against the
  traffic: with `BridgeCap` 1 the next command evicts the entry of a move whose
  frames are still reported, with `MaxTargets` 1 a train stretched by a neighbour
  outlasts its window, and with `Slack` 0 an instant that a clock puts too late or
  too early falls out of it. In each case TLC finds the echo handed on as a press,
  under the casts of `sync` and nothing else changed. So the slack of the windows
  has to cover the error of the clocks; a bridge without an estimate, whose reports
  are dated by a receipt later than that, is outside of what `sync` shows.
  `DispatchOrder` is about the order the clocks give: with an error, a late copy
  may be put behind a newer press, and the consumer hands it on again. The property
  allows that only if a press on common channels came in between whose instant
  is truly within twice the error of the copy's. A debounce stamp that was forgotten lets
  an older press through (`sync_stale`). Both hold with the values and on the casts
  of `sync`;
- of the properties of `CoverFamily` that compare a model with the history of its
  motors, `FramesAreAccounted`, `StopsAreNoticed`, `LossIsNoticed` and
  `GroupIsHonest`. None of the first three is a theorem, and the fourth needs
  them all. `FramesAreAccounted` fails beside a lost group frame
  (`cover_older`), and without the exemption of what a reload orphans
  (`cover_reloaded`). `StopsAreNoticed` fails when a restart of the program drops the
  status that says a STOP was flushed: the restored model runs on as the log says.
  `LossIsNoticed` fails when a reload meets a bridge that is away, the restore is
  announced and not made, the bridge comes back without its STOP, and a second
  reload then restores the measured move. TLC finds both on wider casts (two
  operations that overlap and two upsets; one operation and four upsets), and all
  four hold under the casts of `cover`;
- what a measurement stores (`MeasuresARun`): it holds under the calm cast only
  (a bridge that subscribes late may miss the press that closed a run), and needs
  the arrival order of copies and runs shorter than the wrap of a bridge's clock,
  which the constants do not state;
- liveness (`EveryCallerAnswered`, `ClaimsEnd` and the others under fairness: out
  of the prover's reach).

## 5. Plan

In this order; each with its run(s) and, where stated, theorems.

1. `AirCalendar`, `AirTraffic`: done, with proofs.
2. `CommandHub`: done, with all of its safety properties proved.
3. `DomainLifecycle`: done, with proofs.
4. Takeover and disarm requests, leaf covers, restore, markers over a reload,
   aggregates: done in `CoverFamily`, with the refinement of `PositionTrust` and
   the life of the markers proved. Presses are proved too. To come: an account of
   the STOPs and losses that a reload hides (the end of section 4), the emission
   proof of a
   restarted cover (over `proven` of `StateSync`), the disarm of a whole remote
   before it is learned again.
5. `CommandLedger`, `StateSync`, `EchoTraffic`: done, with the caps, the accounting
   and the end of the holds proved. To come: `EchoNeverAPress` from bounds on
   the traffic that its constants must meet, the close of the consumer, a restart
   of the program between two copies.
6. `TravelRun`, `SniffAttempt`, `ListeningWizards`: done, with the claims and the
   adoptions proved. To come: an anchored run under late copies as a theorem.
7. `BridgeRegistry`: the info documents, routing by area and the cap, with
   documents in any order.

## 6. Findings

- The ordering guard and disjoint channels (`sync_stale`). A dispatched press
  deletes the debounce stamps of every signature it overlaps, and the comment
  says that stale late copies stay dropped by the ordering guard. They do as long
  as the newest stamp covers the channels of the deleted ones. After presses on
  {1}, {1,2} and {2} it does not: a late copy of the first press meets only the
  stamp on {2} and is handed on again, behind presses made after it.
- The second hold (`sync_held`). A start outranks a press only if the press was
  still undelivered when the start went on the air. `resume_holds` passes the
  instant of the hold as that receipt, and a capture that is held again gets a
  new one. If the second command then fails, a start between the two holds
  makes the press stale and it is dropped without a trace.

- A start after the entry's life (`sync_late`). The hub waits 2 s for the admission
  of a command and 30 s more for its start; the ledger drops a pending entry 30 s
  after a collection first saw it. A start in the last moments of the wait is
  taken, `confirm` finds no entry, and the frame that a peer then reports is nobody's:
  it is dispatched as a press. The consumer's plan has all frames of a command
  registered so that none is misread as a press, and its test says that an own
  transmission must never surface as one. It takes a bridge so busy that a train
  waits for half a minute.

- An older command after an invalidation (`cover_older`). UP of a blind is on the
  air and its `started` on the way; a group STOP goes on the air behind it and
  stops the blind; the caller of the STOP is cancelled, or times out. The group
  frame may have stopped anything, so its members are made unknown: the docstring
  of `invalidate_for_cancelled_command` calls that the only honest answer, for
  want of a path by which the entity could learn what the frame did. But only the
  restore epoch is advanced. `_async_move_full`, resumed by the start of UP,
  compares the intent generation, finds it unchanged, and installs a full travel
  from the time UP started; when it is over the blind is `open` and anchored,
  wherever the STOP left it. The window is the flight of one status, and needs a
  caller that goes away within it.
- A reload over a published frame (`cover_reloaded`). The handlers of a cancelled
  and of a timed-out command make the position unknown, and their comment counts a
  reload in mid-move among the ways to get there; the changelog says that the
  covers affected by a reload during a group move go `unknown`. They do when the
  group's call is cancelled, because a group leaves a marker with the coordinator.
  Otherwise they do not. If another entry keeps the hub open, the drain retires
  what is not published and the call of a published frame goes on: its `started`
  installs a motion in an entity that is gone, or, for a group, in no member at all.
  If the hub is closed, the call of a single leaf is cancelled, and invalidates the
  removed entity after its state was stored. In all three the new entity restores
  the position from before the move and shows it without reservation.
- The anchors of a discarded run (`listen_anchor`). After DOWN, a STOP too soon to
  count, and UP, a bridge that lags may deliver its copy of DOWN. The comment in
  `offer_payload` promises that a duplicate never re-anchors an open run, which
  `_open` enforces on the signatures it has anchored; but `_close` forgot them
  with the short run. The copy makes the open run one of DOWN, and the next STOP
  stores the time of a shade that went up as its DOWN time. The same sequence
  given to the class does so.

Noted, without a run: `cover_measure_use_heard`
refuses when the list of foreign presses holds the device's own remote, but a
press of the own remote that was accepted for the measurement is not in that
list. First copies of two presses may cross between lagging bridges (see the
calm cast). A STOP heard between a frame and its report exempts a cover from
the takeover (see `forgiven`). A STOP of one channel that preempts an in-flight
batch retires the whole batch, other channels included. `drain_owner` resolves
the worker's command only while it waits for the air: one that waits on the barrier
of a STOP of the same entry is published after the drain has retired that STOP,
although the docstring has nothing published after an unload. It takes a drain
within the few turns of the loop a STOP needs to publish. The late check of the
overlap token repeats the early one: between the two only STOPs can publish,
and a STOP that overlaps preempts.

## 7. Not modelled

- `bridge_clock.py`: a moving average over real-valued offsets whose result is
  clamped to a fixed distance from the time of receipt. Over small integers only
  the clamp could be checked, and the code states it. What rests on it is modelled
  with its error: `Deliver` of `EchoTraffic` converts every report to an instant up to
  `Skew` off (`HeardInstants`); `TravelRun` has the wrap of the counter.
- `codec.py`: pure functions on pulse strings, without state; its table tests
  enumerate what a model would. Decoding is left out wherever a frame is heard: a
  copy says which button it is.
- Of `bridge_registry.py`: info documents, routing by area, the cap. `CoverFamily`
  has the availability of the bridge that transmits.
- Of `cover.py` and `coordinator.py`: the emission proof, which lifts the doubt
  about a restored target; the pruning of markers when a configuration changes;
  the batching of state writes.
- Of `transport.py`: the disarm of a whole remote before it is learned again, the
  caps of the generation maps, bridge affinity.
- Of `config_flow.py`: forms, the editing of covers, the discovery of bridges.
- Migration and registry repair (straight-line data rewriting), diagnostics
  (read-only), schemas and translations (presentation), telemetry counters of
  the calendar.

Bridge firmware, broker and Home Assistant core are external: only what the code
relies on appears, named as such.
