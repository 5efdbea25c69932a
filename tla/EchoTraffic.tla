----------------------------- MODULE EchoTraffic -----------------------------
(***************************************************************************)
(* The state-sync consumer at work: commands of the hub, the bridges that  *)
(* put them on the air, people at their remotes, and peers whose reports   *)
(* of what they heard come late, twice or not at all.                      *)
(*                                                                         *)
(* The hub's steps are the callbacks of transport.py and the stretches of  *)
(* _async_execute between two awaits.  Radio, people and delivery are      *)
(* external: they do what the code says it expects of them.                *)
(***************************************************************************)
EXTENDS StateSync

CONSTANTS
    Bridge,
    Press,          \* button presses of people
    Pressed,        \* [Press -> [chans, button]]
    Casts,          \* sets of commands and presses: a behaviour plays one
    StatusDelay,    \* the longest way of a status to the hub
    ReportDelay,    \* the longest way of a report
    Skew,           \* bound: how far the estimate of a bridge's clock may be off
    StartWait,      \* longest wait of _async_execute for "started"
    Interval,       \* MAINTENANCE_INTERVAL
    BrokerDelay,    \* the longest way of a command to its bridge
    Entry,          \* bound: the instants at which a command or a press may begin
    MaxTime         \* bound of the clock

VARIABLES
    now,
    cast,           \* the commands and presses of this behaviour
    rx,             \* the consumer and its ledger
    phase,          \* of a command in _async_execute
    sent,           \* when a command was registered and published
    anchor,         \* started_at_monotonic of a command
    start,          \* when a command's first frame went on the air
    radio,          \* per bridge the frames still to send, next first
    queued,         \* commands whose radio jobs were queued: admitted
    fate,           \* what the bridge did to a command before its end
    ended,          \* when it did
    spoken,         \* when a person pressed
    air,            \* captures on their way to the hub
    swept           \* when the hub last ran maintain

vars == <<now, cast, rx, phase, sent, anchor, start, radio, queued, fate, ended,
          spoken, air, swept>>
hub == <<phase, sent, anchor>>
world == <<start, radio, queued, fate, ended, spoken, air>>

Phases == {"new", "published", "known", "confirmed", "displaced", "failed"}
\* flushed and aborted become displaced and disarmed when the hub is told.
Fates == {"whole", "flushed", "displaced", "aborted", "disarmed"}

Buttons == {"UP", "DOWN", "STOP"}

ASSUME SyncAssumption ==
    /\ IsFiniteSet(Command) /\ IsFiniteSet(Bridge)
    /\ \A c \in Command : /\ Sent[c].bridge \in Bridge /\ Sent[c].button \in Buttons
                          /\ {Sent[c].repeats, Sent[c].stopAfter} \subseteq Nat
    /\ \A p \in Press : Pressed[p].button \in Buttons
    /\ {Slack, Lag, Drain, EntryTtl, PendingTtl, HoldTtl, CacheTtl, DebounceWindow,
        StatusDelay, BrokerDelay, Skew, MaxTime} \subseteq Nat
    /\ {ReportDelay, StartWait, Interval, HoldCap, CacheCap, BridgeCap, GlobalCap} \subseteq Nat \ {0}
    \* What the code relies on: a late anchor and a late report are covered.
    /\ StatusDelay <= Lag /\ ReportDelay <= EntryTtl /\ ReportDelay <= CacheTtl
    \* The reports that can be under way while one is do not fill the memory.
    /\ Cardinality(Bridge) * Cardinality(Bridge) * (2 * ReportDelay + 1) <= CacheCap

Init ==
    /\ now = 0
    /\ cast \in Casts
    /\ rx = Fresh
    /\ phase = [c \in Command |-> "new"]
    /\ sent = [c \in Command |-> Never]
    /\ anchor = [c \in Command |-> Never]
    /\ start = [c \in Command |-> Never]
    /\ radio = [b \in Bridge |-> <<>>]
    /\ queued = {}
    /\ fate = [c \in Command |-> "whole"]
    /\ ended = [c \in Command |-> Never]
    /\ spoken = [p \in Press |-> Never]
    /\ air = {}
    /\ swept = 0

-----------------------------------------------------------------------------
(* The hub *)

\* register_pending, and the frame is enqueued at the broker, under one lock.
Publish(c) ==
    /\ c \in cast /\ phase[c] = "new" /\ now \in Entry[c]
    /\ \A d \in Command : sent[d] # now
    /\ phase' = [phase EXCEPT ![c] = "published"]
    /\ sent' = [sent EXCEPT ![c] = now]
    /\ rx' = [rx EXCEPT !.ledger = Registered(@, c)]
    /\ UNCHANGED <<now, cast, anchor, swept, world>>

\* _handle_started_status: the anchor is the start or later, by what of the
\* status's way its age and the bridge's clock do not tell.
StartedStatus(c) ==
    /\ phase[c] = "published" /\ start[c] # Never
    /\ now - start[c] <= StatusDelay
    /\ \E at \in start[c]..now :
        /\ anchor' = [anchor EXCEPT ![c] = at]
        /\ rx' = RecordCommandedStart(rx, c, at, now)
    /\ phase' = [phase EXCEPT ![c] = "known"]
    /\ UNCHANGED <<now, cast, sent, swept, world>>

\* _async_execute resumes with the start: confirm, resume_holds.
Confirm(c) ==
    /\ phase[c] = "known"
    /\ phase' = [phase EXCEPT ![c] = "confirmed"]
    /\ rx' = ResumeHolds([rx EXCEPT !.ledger = Confirmed(@, c, anchor[c])], c, now)
    /\ UNCHANGED <<now, cast, sent, anchor, swept, world>>

\* _async_execute leaves without the start (rejected, timed out, displaced,
\* cancelled): retire, resume_holds.
Fail(c) ==
    /\ phase[c] \in {"published", "known", "displaced"}
    /\ phase' = [phase EXCEPT ![c] = "failed"]
    /\ rx' = ResumeHolds([rx EXCEPT !.ledger = Without(@, c)], c, now)
    /\ UNCHANGED <<now, cast, sent, anchor, swept, world>>

\* An awaited future of c got CommandDisplacedError.
FutureDisplaced(c) ==
    phase' = [phase EXCEPT ![c] = IF @ = "published" THEN "displaced" ELSE @]

\* _handle_displaced_status: a start that is known but not yet confirmed is
\* confirmed first, so that the flushed STOP is windowed again.
DisplacedStatus(c) ==
    /\ fate[c] = "flushed" /\ now - ended[c] <= StatusDelay
    /\ fate' = [fate EXCEPT ![c] = "displaced"]
    /\ FutureDisplaced(c)
    /\ LET ledger == IF phase[c] = "known" THEN Confirmed(rx.ledger, c, anchor[c])
                     ELSE rx.ledger
       IN  rx' = ResumeHolds([rx EXCEPT !.ledger = Displace(ledger, c, now)], c, now)
    /\ UNCHANGED <<now, cast, sent, anchor, swept, start, radio, queued, ended, spoken, air>>

\* on_disarmed, for a request still waited for: release, resume_holds.
Disarmed(c) ==
    /\ fate[c] = "aborted"
    /\ fate' = [fate EXCEPT ![c] = "disarmed"]
    /\ FutureDisplaced(c)
    /\ LET kept == \E e \in ToSet(rx.ledger) : e.cmd = c /\ Displaced(e)
           ledger == IF kept THEN rx.ledger ELSE Without(rx.ledger, c)
       IN  rx' = ResumeHolds([rx EXCEPT !.ledger = ledger], c, now)
    /\ UNCHANGED <<now, cast, sent, anchor, swept, start, radio, queued, ended, spoken, air>>

\* HA's timer drives maintain.
Sweep ==
    /\ now - swept = Interval
    /\ swept' = now
    /\ rx' = Maintain(rx, now)
    /\ UNCHANGED <<now, cast, hub, world>>

\* to_monotonic_time: where the hub's clock puts the instant of a report.  The
\* estimate is off, and is the receipt itself while it has no sample to rest on;
\* it is never after the receipt.
HeardInstants(m) == {t \in (m.at - Skew)..now : t <= m.at + Skew}

\* A report reaches the hub: at any time on its way, again, or never.
Deliver(m) ==
    /\ m \in air
    /\ \E t \in HeardInstants(m) :
        rx' = HandleRx(rx, [m EXCEPT !.heard = t, !.received = now], now)
    /\ UNCHANGED <<now, cast, hub, swept, world>>

-----------------------------------------------------------------------------
(* The air *)

\* The bridge holds the STOP of a timed command until its deadline.
Deadline(c) == start[c] + Sent[c].stopAfter
Armed(c) == Timed(c) /\ start[c] # Never /\ now <= Deadline(c)
Job(c, button, left) == [cmd |-> c, button |-> button, left |-> left]
JobsOf(b, cs) == Only(radio[b], {j \in ToSet(radio[b]) : j.cmd \in cs})
Reports(src, sig, listeners) ==
    {[src |-> src, sig |-> sig, at |-> now, by |-> b, heard |-> Never, received |-> Never] :
        b \in listeners}

\* The bridge takes c in: what it holds of older overlapping commands goes,
\* but a STOP still owed is drained in front of the new frames.
\* One topic of the broker keeps its order.
Admit(c) ==
    LET b == Sent[c].bridge
        older == {d \in queued : /\ Sent[d].bridge = b /\ fate[d] = "whole"
                                 /\ Overlap(Sent[d].chans, Sent[c].chans)
                                 /\ \/ JobsOf(b, {d}) # <<>>
                                    \/ Armed(d)}
        owed == {d \in older : Armed(d)}
        begun == {j \in ToSet(radio[b]) : j.cmd \in older /\ j.button = "STOP" /\ Timed(j.cmd)}
        stops == Only(radio[b], begun) \o SetToSeq({Job(d, "STOP", Sent[d].repeats) : d \in owed})
        others == JobsOf(b, Command \ older)
    IN  /\ phase[c] # "new" /\ c \notin queued /\ now - sent[c] <= BrokerDelay
        /\ \A d \in queued : Sent[d].bridge = b => sent[d] < sent[c]
        /\ queued' = queued \cup {c}
        /\ fate' = [d \in Command |-> IF d \in older THEN "flushed" ELSE fate[d]]
        /\ ended' = [d \in Command |-> IF d \in older THEN now ELSE ended[d]]
        /\ radio' = [radio EXCEPT ![b] =
                        stops \o Append(others, Job(c, Sent[c].button, Sent[c].repeats))]
        /\ UNCHANGED <<now, cast, rx, hub, swept, start, spoken, air>>

\* A takeover's disarm reaches the bridge: it sends nothing more of c.
Abort(c) ==
    /\ c \in queued /\ fate[c] = "whole"
    /\ \E i \in DOMAIN rx.dispatched : Overlap(rx.dispatched[i].sig.chans, Sent[c].chans)
    /\ HasEntry(rx.ledger, c)
    /\ fate' = [fate EXCEPT ![c] = "aborted"]
    /\ radio' = [radio EXCEPT ![Sent[c].bridge] = JobsOf(Sent[c].bridge, Command \ {c})]
    /\ UNCHANGED <<now, cast, rx, hub, swept, start, queued, ended, spoken, air>>

\* A person presses a button, and some bridges hear it.  Two frames at
\* one instant spoil each other: no two presses, and no echo with a press.
PressButton(p) ==
    /\ p \in cast /\ spoken[p] = Never /\ now \in Entry[p]
    /\ \A q \in Press : spoken[q] # now
    /\ spoken' = [spoken EXCEPT ![p] = now]
    /\ \E listeners \in (SUBSET Bridge) \ {{}} :
        air' = air \cup Reports(p, Signature(Pressed[p].chans, Pressed[p].button), listeners)
    /\ UNCHANGED <<now, cast, rx, hub, swept, start, radio, queued, fate, ended>>

\* At its deadline a command's STOP goes before all other work.
Due(b) == {c \in queued : /\ Sent[c].bridge = b /\ fate[c] = "whole"
                          /\ Armed(c) /\ now = Deadline(c)}
Work(b) == LET late == Due(b)
           IN  SetToSeq({Job(c, "STOP", Sent[c].repeats) : c \in late})
               \o JobsOf(b, Command \ late)

\* STOPs are sent out whole; other trains take turns.
Rest(work) ==
    LET j == Head(work)
        more == IF j.left = 1 THEN <<>> ELSE <<[j EXCEPT !.left = @ - 1]>>
    IN  IF j.button = "STOP" THEN more \o Tail(work) ELSE Tail(work) \o more

\* One tick: each bridge sends one frame of its work, peers may hear it.  No
\* timer of the hub is late, and a resolved future resumes within the tick.
Tick ==
    LET work == [b \in Bridge |-> Work(b)]
        busy == {b \in Bridge : work[b] # <<>>}
        echo(b) == Reports(Head(work[b]).cmd,
                           Signature(Sent[Head(work[b]).cmd].chans, Head(work[b]).button),
                           Bridge \ {b})
    IN  /\ now < MaxTime
        /\ now - swept < Interval
        /\ \A c \in Command : /\ phase[c] \notin {"known", "displaced"}
                              /\ phase[c] = "published" => now - sent[c] < StartWait
        /\ now' = now + 1
        /\ radio' = [b \in Bridge |-> IF b \in busy THEN Rest(work[b]) ELSE <<>>]
        /\ start' = [c \in Command |->
                        IF start[c] = Never /\ \E b \in busy : Head(work[b]).cmd = c
                        THEN now ELSE start[c]]
        /\ \E heard \in SUBSET {b \in busy : \A p \in Press : spoken[p] # now} :
            air' = {m \in air : now' - m.at <= ReportDelay}
                   \cup UNION {echo(b) : b \in heard}
        /\ UNCHANGED <<cast, rx, hub, swept, queued, fate, ended, spoken>>

Next ==
    \/ \E c \in Command : \/ Publish(c) \/ StartedStatus(c) \/ Confirm(c) \/ Fail(c)
                          \/ DisplacedStatus(c) \/ Disarmed(c)
                          \/ Admit(c) \/ Abort(c)
    \/ \E p \in Press : PressButton(p)
    \/ \E m \in air : Deliver(m)
    \/ Sweep
    \/ Tick

Spec == Init /\ [][Next]_vars

-----------------------------------------------------------------------------
(* Properties *)

Caps == {Exact(h.cap) : h \in ToSet(rx.holds)}

\* The state is well typed, and every bounded table within its bound.
TypeOK ==
    /\ now \in 0..MaxTime /\ cast \in Casts
    /\ phase \in [Command -> Phases] /\ fate \in [Command -> Fates]
    /\ queued \subseteq cast \cap Command
    /\ \A c \in Command : /\ {sent[c], start[c], anchor[c]} \subseteq {Never} \cup 0..now
                          /\ anchor[c] # Never => start[c] # Never /\ start[c] <= anchor[c]
    /\ \A e \in ToSet(rx.ledger) : e.cmd \in cast /\ e.phase \in {"pending", "confirmed"}
    /\ Len(rx.ledger) <= GlobalCap /\ Len(rx.holds) <= HoldCap
    /\ \A seq \in {rx.exact, rx.debounce, rx.starts} : Len(seq) <= CacheCap
    /\ \A m \in air : m.sig.button \in Buttons /\ m.at <= now

\* The hub can tell the frames of c if its knowledge is in time: it knows when
\* c and all other commands that its bridge has or may get went on the air,
\* nobody disarmed c, and c was not displaced in the middle of its STOP train.
Known(c) ==
    /\ phase[c] = "confirmed" /\ fate[c] \notin {"aborted", "disarmed"}
    /\ Timed(c) => ended[c] <= Deadline(c)
    /\ \A d \in Command : Sent[d].bridge = Sent[c].bridge =>
          \/ phase[d] \in {"new", "confirmed"}
          \/ phase[d] = "failed" /\ d \notin queued

\* The status of the start was due while the entry of c still waited for it.
InTime(c) == start[c] + StatusDelay <= sent[c] + PendingTtl
Owned(c) ==
    /\ Known(c)
    /\ \A d \in Command :
          Sent[d].bridge = Sent[c].bridge /\ phase[d] = "confirmed" => InTime(d)

HandedOn(c) == \E i \in DOMAIN rx'.dispatched \ DOMAIN rx.dispatched :
                    rx'.dispatched[i].src = c

\* What another bridge hears of a command the hub can tell is never handed
\* on as a press of a person: not the train, stretched by its neighbours,
\* not the STOP at its deadline, not a STOP flushed before it.
EchoNeverAPress == [][\A c \in Command : Owned(c)' => ~HandedOn(c)]_vars

\* The same of a command that began however late in its wait: refuted, for an
\* entry that waits is dropped before the wait is over.
LateEchoNeverAPress == [][\A c \in Command : Known(c)' => ~HandedOn(c)]_vars

\* A press is handed on once, however many bridges report it however often.
OncePerPress ==
    \A i, j \in DOMAIN rx.dispatched :
        /\ rx.dispatched[i].src \in Press
        /\ rx.dispatched[i].src = rx.dispatched[j].src
        => i = j

\* On common channels presses are handed on in the order in which the clocks
\* of the bridges put them, and none twice, unless in between another one was
\* that may, by the error of the clocks, be older than the late copy.
DispatchOrder ==
    \A i, j \in DOMAIN rx.dispatched :
        LET first == rx.dispatched[i]
            later == rx.dispatched[j]
        IN  i < j /\ Overlap(first.sig.chans, later.sig.chans) =>
                /\ first.heard <= later.heard
                /\ first.src \in Press /\ first.src = later.src =>
                    \E k \in (i + 1)..(j - 1) :
                        /\ Overlap(rx.dispatched[k].sig.chans, first.sig.chans)
                        /\ Distance(rx.dispatched[k].at, first.at) <= 2 * Skew

\* A report the hub took in is settled or held, never both and never lost.
Accounted ==
    /\ \A x \in ToSet(rx.exact) : x.event \in rx.settled \cup Caps
    /\ Caps \cap rx.settled = {}

\* A report is held only for a command that is still waited for, and not
\* beyond its age and one period of the timer.
HoldsEnd ==
    \A h \in ToSet(rx.holds) :
        /\ phase[h.cmd] \in {"published", "known", "displaced"}
        /\ now - h.seen <= HoldTtl + Interval

\* No press is lost to a command that started only after the hub had it.
NoPressSwallowed == ~rx.deaf
=============================================================================
