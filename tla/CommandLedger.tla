---------------------------- MODULE CommandLedger ----------------------------
(***************************************************************************)
(* The echo ledger (command_ledger.py): which frames the integration sent  *)
(* itself, and when they may be heard on the air.                          *)
(*                                                                         *)
(* A ledger is a sequence of entries, oldest first: the insertion order of *)
(* CommandLedger._entries.  Time is in ticks, one repeat of a frame each   *)
(* (_LEDGER_REPEAT_AIRTIME_MS).  What a command fixes when it is           *)
(* registered (bridge, channels, frames) is the constant Sent.             *)
(***************************************************************************)
EXTENDS QueueOps, FiniteSets, FiniteSetsExt, SequencesExt

CONSTANTS
    Command,        \* command ids
    Sent,           \* [Command -> [bridge, chans, button, repeats, stopAfter]]
    Slack,          \* _LEDGER_WINDOW_SLACK_SECONDS
    Lag,            \* _LEDGER_ANCHOR_LAG_SECONDS
    Drain,          \* _DISPLACED_STOP_DRAIN_SECONDS
    EntryTtl,       \* _LEDGER_ENTRY_TTL_SECONDS
    PendingTtl,     \* _LEDGER_PENDING_TTL_SECONDS
    BridgeCap,      \* _LEDGER_PER_BRIDGE_CAP
    GlobalCap,      \* _LEDGER_GLOBAL_CAP
    MaxTargets      \* _LEDGER_MAX_CONCURRENT_TARGETS

\* stopAfter = 0: the command has no armed STOP.
Timed(c) == Sent[c].stopAfter > 0

\* FrameSignature of one remote: channels and button.
Signature(chans, button) == [chans |-> chans, button |-> button]
StopSignature(c) == Signature(Sent[c].chans, "STOP")

\* _ledger_registration: the action train, cut by the deadline of a timed
\* command, and its STOP train.
Frames(c) ==
    LET s == Sent[c]
        cut == IF Timed(c) THEN Min({s.repeats, s.stopAfter + 1}) ELSE s.repeats
    IN  {[sig |-> Signature(s.chans, s.button), off |-> 0, air |-> cut]} \cup
        (IF Timed(c)
         THEN {[sig |-> StopSignature(c), off |-> s.stopAfter, air |-> s.repeats]}
         ELSE {})

Never == -1
NoMatch == [phase |-> "none"]

Pending(c) ==
    [cmd |-> c, phase |-> "pending", since |-> Never, handoff |-> Never,
     displacedAt |-> Never]

Displaced(e) == e.displacedAt # Never
HasEntry(L, c) == \E i \in DOMAIN L : L[i].cmd = c
Updated(L, c, Op(_)) == [i \in DOMAIN L |-> IF L[i].cmd = c THEN Op(L[i]) ELSE L[i]]

-----------------------------------------------------------------------------
(* Windows *)

\* _window, and the drain window that displace puts in place of a STOP's.
\* nominal is the honest lower edge, lo the one that spends the anchor lag.
Window(e, f) ==
    IF Displaced(e) /\ f.sig.button = "STOP"
    THEN [sig |-> f.sig, train |-> f.air, nominal |-> e.displacedAt - Slack,
          lo |-> e.displacedAt - Slack - Lag, hi |-> e.displacedAt + Drain + Slack]
    ELSE LET at == e.handoff + f.off IN
         [sig |-> f.sig, train |-> f.air, nominal |-> at - Slack,
          lo |-> at - Slack - Lag, hi |-> at + f.air + Slack]

Windows(e) ==
    IF e.phase = "confirmed" THEN {Window(e, f) : f \in Frames(e.cmd)} ELSE {}

\* _nominal_span of a confirmed entry: the air it takes when alone.
SpanEnd(e) == e.handoff + Max({f.off + f.air : f \in Frames(e.cmd)})
Train(e) == Max({f.air : f \in Frames(e.cmd)})

\* _round_robin_stretch_seconds: every repeat but the first waits for the
\* other targets of the bridge.
Stretch(train, targets) ==
    IF targets <= 1 THEN 0 ELSE (train - 1) * (targets - 1)

\* _round_robin_concurrency: peers of the same bridge whose spans meet the
\* entry's own, stretched by the count of the pass before.
Concurrency(L, e) ==
    LET peers == {o \in ToSet(L) : /\ o.cmd # e.cmd /\ ~Displaced(o)
                                   /\ o.handoff # Never
                                   /\ Sent[o.cmd].bridge = Sent[e.cmd].bridge}
        meets(o, reach) == /\ o.handoff <= SpanEnd(e) + reach
                           /\ e.handoff <= SpanEnd(o) + reach
        pass[n \in 0..MaxTargets] ==
            IF n = 0 THEN 1
            ELSE LET reach == Stretch(Train(e), pass[n - 1]) IN
                 Min({1 + Cardinality({o \in peers : meets(o, reach)}), MaxTargets})
    IN  pass[MaxTargets]

\* _effective_ends_at: stretched, but an action ends with its own deadline.
EffectiveEnd(L, e, w) ==
    LET end == w.hi + Stretch(w.train, Concurrency(L, e))
        deadlines == IF w.sig.button = "STOP" \/ ~Timed(e.cmd) THEN {}
                     ELSE {e.handoff + Sent[e.cmd].stopAfter + 1 + Slack}
    IN  IF Displaced(e) THEN w.hi ELSE Min({end} \cup deadlines)

-----------------------------------------------------------------------------
(* Matching a capture *)

\* One pass over one entry; spend: the anchor lag may be used.
Fits(L, e, sig, at, spend) ==
    \/ e.phase = "pending" /\ \E f \in Frames(e.cmd) : f.sig = sig
    \/ \E w \in Windows(e) :
        /\ w.sig = sig
        /\ (IF spend THEN w.lo ELSE w.nominal) <= at
        /\ at <= EffectiveEnd(L, e, w)

Hit(e) == [phase |-> e.phase, cmd |-> e.cmd]

\* _flushed_at_a_newer_admission: the bridge drained the armed STOP in front
\* of a newer overlapping command's first frame.
FlushedBy(L, i, at, train) ==
    \E j \in DOMAIN L :
        /\ j > i
        /\ L[j].handoff # Never /\ ~Displaced(L[j])
        /\ Sent[L[j].cmd].bridge = Sent[L[i].cmd].bridge
        /\ Sent[L[j].cmd].chans \cap Sent[L[i].cmd].chans # {}
        /\ L[j].handoff - train - Slack - Lag <= at
        /\ at <= L[j].handoff + Slack

\* _early_flushed_stop, before the "displaced" status has arrived.
FlushedEarly(L, i, sig, at) ==
    /\ sig.button = "STOP"
    /\ L[i].phase = "confirmed" /\ ~Displaced(L[i])
    /\ \A w \in Windows(L[i]) : \E v \in Windows(L[i]) : v.lo <= w.lo /\ at >= v.lo
    /\ \E w \in Windows(L[i]) :
        w.sig = sig /\ at < w.lo /\ FlushedBy(L, i, at, w.train)

\* The newest entry of the first kind of fit that any entry has.
Choice(L, fits) ==
    LET kinds == {k \in 1..3 : fits[k] # {}}
    IN  IF kinds = {} THEN NoMatch ELSE Hit(L[Max(fits[Min(kinds)])])

\* match: an honest fit, newest first; then one that spends the lag; then a
\* STOP flushed early.
Match(L, sig, at) ==
    LET fitting(spend) == {i \in DOMAIN L : Fits(L, L[i], sig, at, spend)}
        flushed == {i \in DOMAIN L : FlushedEarly(L, i, sig, at)}
    IN  Choice(L, <<fitting(FALSE), fitting(TRUE), flushed>>)

-----------------------------------------------------------------------------
(* Operations *)

\* _enforce_caps: the newest BridgeCap entries of each bridge, and of those
\* the newest GlobalCap.
WithinCaps(L) ==
    LET newer(i) == {j \in DOMAIN L : /\ j > i
                        /\ Sent[L[j].cmd].bridge = Sent[L[i].cmd].bridge}
        kept == {i \in DOMAIN L : Cardinality(newer(i)) < BridgeCap}
        last == {i \in kept : Cardinality({j \in kept : j > i}) < GlobalCap}
    IN  Only(L, {L[i] : i \in last})

Without(L, c) == Only(L, {e \in ToSet(L) : e.cmd # c})

Registered(L, c) == WithinCaps(Append(Without(L, c), Pending(c)))

\* confirm leaves a displaced entry alone.
Confirmed(L, c, handoff) ==
    Updated(L, c, LAMBDA e :
        IF Displaced(e) THEN e
        ELSE [e EXCEPT !.phase = "confirmed", !.handoff = handoff])

\* A mutant: the STOP of a displaced command keeps its old window.
DisplaceWithoutDrain(L, c, now) == Without(L, c)

\* displace: a pending entry is dropped, a confirmed one keeps its STOP drain.
Displace(L, c, now) ==
    IF \E e \in ToSet(L) : e.cmd = c /\ e.phase = "pending"
    THEN Without(L, c)
    ELSE Updated(L, c, LAMBDA e : [e EXCEPT !.displacedAt = now])

\* _is_expired; a displaced entry and a confirmed one alike live for EntryTtl
\* after their last window, the latter stretched.
Expired(L, e, now) ==
    IF e.phase = "confirmed"
    THEN now > Max({EffectiveEnd(L, e, w) : w \in Windows(e)}
                   \cup {w.hi : w \in Windows(e)}) + EntryTtl
    ELSE e.since # Never /\ now - e.since > PendingTtl

\* gc: a pending entry ages from the first collection that sees it.
Collected(L, now) ==
    LET seen == [i \in DOMAIN L |->
                    IF L[i].phase = "pending" /\ L[i].since = Never
                    THEN [L[i] EXCEPT !.since = now] ELSE L[i]]
    IN  WithinCaps(Only(seen, {e \in ToSet(seen) : ~Expired(seen, e, now)}))
=============================================================================
