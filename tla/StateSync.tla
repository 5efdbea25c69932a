------------------------------ MODULE StateSync ------------------------------
(***************************************************************************)
(* The state-sync consumer (state_sync.py, StateSyncConsumer) as operators *)
(* over one record, its ledger included: every handler maps the state it   *)
(* finds to the state it leaves, and all of them run without an await.     *)
(*                                                                         *)
(* One remote is modelled: every lookup of the code compares the remote's  *)
(* key first, so remotes do not meet.  A capture is the record             *)
(*   [src, sig, at, by, heard, received]                                   *)
(* whose src is the command or the press that put the frame on the air at  *)
(* instant at; by is the bridge that heard it, heard what its clock says   *)
(* of at, and received when the hub took it in.                            *)
(***************************************************************************)
EXTENDS CommandLedger

CONSTANTS
    HoldTtl,        \* _HOLD_TTL_SECONDS
    HoldCap,        \* _HOLD_CAP
    DebounceWindow, \* _DEBOUNCE_WINDOW_SECONDS
    CacheTtl,       \* _EXACT_EVENT_TTL_, _DEBOUNCE_TTL_, _COMMANDED_START_TTL_SECONDS
    CacheCap        \* _EXACT_EVENT_CAP, _DEBOUNCE_CAP, _COMMANDED_START_CAP

\* settled: captures classified for good; dispatched: the presses handed to
\* the hub; proven: commands a second bridge heard; deaf: some press lost to
\* a start that went on the air only after the hub had the press.
Fresh ==
    [ledger |-> <<>>, holds |-> <<>>, debounce |-> <<>>, starts |-> <<>>,
     exact |-> <<>>, settled |-> {}, dispatched |-> <<>>, proven |-> {},
     deaf |-> FALSE]

Newest(seq, cap) ==
    IF Len(seq) <= cap THEN seq ELSE SubSeq(seq, Len(seq) - cap + 1, Len(seq))
Young(seq, now) == Only(seq, {x \in ToSet(seq) : now - x.seen <= CacheTtl})
Overlap(a, b) == a \cap b # {}
Distance(a, b) == IF a < b THEN b - a ELSE a - b

\* What makes two reports of a bridge the same event.
Exact(cap) == [by |-> cap.by, at |-> cap.at, sig |-> cap.sig]

-----------------------------------------------------------------------------
(* Presses: _dispatch_press *)

\* A mutant: no ordering guard.
NoOrderingGuard(rx, cap) == FALSE

\* The heard_at ordering guard.
OlderThanAPress(rx, cap) ==
    \E d \in ToSet(rx.debounce) :
        Overlap(d.sig.chans, cap.sig.chans) /\ d.heard > cap.heard

\* _superseding_commanded_start.
Superseding(rx, cap, received) ==
    {s \in ToSet(rx.starts) :
        /\ Overlap(s.chans, cap.sig.chans)
        /\ cap.heard < s.at /\ s.at <= received}

Debounced(rx, cap) ==
    \E d \in ToSet(rx.debounce) :
        d.sig = cap.sig /\ Distance(d.heard, cap.heard) <= DebounceWindow

\* A dispatched press ends the trains of every overlapping signature.
Stamped(rx, cap, now) ==
    Newest(Append(Only(rx.debounce, {d \in ToSet(rx.debounce) :
                                        ~Overlap(d.sig.chans, cap.sig.chans)}),
                  [sig |-> cap.sig, heard |-> cap.heard, seen |-> now]), CacheCap)

DispatchPress(rx, cap, received, now) ==
    LET done == [rx EXCEPT !.settled = @ \cup {Exact(cap)}]
        outranked == Superseding(rx, cap, received)
    IN  CASE OlderThanAPress(rx, cap) -> done
          [] ~OlderThanAPress(rx, cap) /\ outranked # {} ->
                [done EXCEPT !.deaf = @ \/ \A s \in outranked : cap.received < s.at]
          [] ~OlderThanAPress(rx, cap) /\ outranked = {} /\ Debounced(rx, cap) -> done
          [] OTHER -> [done EXCEPT !.debounce = Stamped(rx, cap, now),
                                   !.dispatched = Append(@, cap)]

-----------------------------------------------------------------------------
(* Classification: _classify and _hold *)

\* A confirmed match: ours, and proof of emission when another bridge heard it.
Echo(rx, cap, c) ==
    [rx EXCEPT !.settled = @ \cup {Exact(cap)},
               !.proven = IF cap.by = Sent[c].bridge THEN @ ELSE @ \cup {c}]

\* _classify without holding: a pending match does not stop a press.
SettleAs(rx, cap, match, received, now) ==
    IF match.phase = "confirmed" THEN Echo(rx, cap, match.cmd)
    ELSE DispatchPress(rx, cap, received, now)
Settle(rx, cap, received, now) ==
    SettleAs(rx, cap, Match(rx.ledger, cap.sig, cap.heard), received, now)

\* A mutant: the queue has no cap.
HoldUncapped(rx, cap, c, now) ==
    [rx EXCEPT !.holds = Append(@, [cap |-> cap, cmd |-> c, seen |-> now])]

\* A mutant: at the cap the oldest hold is thrown away.
HoldDropping(rx, cap, c, now) ==
    [rx EXCEPT !.holds = Newest(Append(@, [cap |-> cap, cmd |-> c, seen |-> now]), HoldCap)]

\* _hold: at the cap the oldest hold is settled as its age would settle it.
Hold(rx, cap, c, now) ==
    LET all == Append(rx.holds, [cap |-> cap, cmd |-> c, seen |-> now])
    IN  IF Len(all) <= HoldCap THEN [rx EXCEPT !.holds = all]
        ELSE Settle([rx EXCEPT !.holds = Tail(all)], Head(all).cap, Head(all).seen, now)

\* hold: a pending match may hold the capture (hold_pending).
ClassifyAs(rx, cap, match, received, hold, now) ==
    IF hold /\ match.phase = "pending" THEN Hold(rx, cap, match.cmd, now)
    ELSE SettleAs(rx, cap, match, received, now)
Classify(rx, cap, received, hold, now) ==
    ClassifyAs(rx, cap, Match(rx.ledger, cap.sig, cap.heard), received, hold, now)

\* The held captures in their order, each on what the ones before it left.
ClassifyAll(rx, held, hold, now) ==
    FoldLeft(LAMBDA r, h : Classify(r, h.cap, h.seen, hold, now), rx, held)

-----------------------------------------------------------------------------
(* Handlers *)

HeldTooLong(h, now) == now - h.seen > HoldTtl

\* _maintain: collect what is stale, and settle the holds that waited too long.
Maintain(rx, now) ==
    LET old == {h \in ToSet(rx.holds) : HeldTooLong(h, now)}
        swept == [rx EXCEPT !.ledger = Collected(@, now),
                            !.exact = Young(@, now),
                            !.debounce = Young(@, now),
                            !.starts = Young(@, now),
                            !.holds = Only(@, ToSet(@) \ old)]
    IN  ClassifyAll(swept, Only(rx.holds, old), FALSE, now)

\* _remember_exact, and what it lets through.
Remember(rx, cap, now) ==
    LET key == [event |-> Exact(cap), seen |-> now]
    IN  IF \E x \in ToSet(rx.exact) : x.event = Exact(cap) THEN rx
        ELSE Classify([rx EXCEPT !.exact = Newest(Append(@, key), CacheCap)],
                      cap, now, TRUE, now)

\* handle_rx.
HandleRx(rx, cap, now) == Remember(Maintain(rx, now), cap, now)

\* A mutant: a settled command leaves its holds to their age.
ResumeNothing(rx, c, now) == Maintain(rx, now)

\* resume_holds: what waited for command c is classified again, and may be
\* held again, from now, for another one.
ResumeHolds(rx, c, now) ==
    LET waited == {h \in ToSet(rx.holds) : h.cmd = c}
        rest == [rx EXCEPT !.holds = Only(@, ToSet(@) \ waited)]
    IN  Maintain(ClassifyAll(rest, Only(rx.holds, waited), TRUE, now), now)

\* record_commanded_start: per channel set, the latest start.
RecordCommandedStart(rx, c, at, now) ==
    LET chans == Sent[c].chans
        young == Young(rx.starts, now)
        former == {s.at : s \in {x \in ToSet(young) : x.chans = chans}}
    IN  [rx EXCEPT !.starts =
            Newest(Append(Only(young, {s \in ToSet(young) : s.chans # chans}),
                          [chans |-> chans, at |-> Max({at} \cup former), seen |-> now]),
                   CacheCap)]
=============================================================================
