-------------------------- MODULE ListeningWizards --------------------------
(***************************************************************************)
(* The setup wizards that listen on the air (config_flow.py): learning a   *)
(* remote button by button, and measuring a cover's travel time from its   *)
(* remote's presses.  Each attempt is a session that claims every bridge   *)
(* it is to listen through, subscribes them, hears the presses as the      *)
(* bridges deliver them, and in the end publishes a sniff stop to each     *)
(* bridge and gives it up.  A measurement's session spans two tasks, with  *)
(* a gap between them in which nobody runs.                                *)
(*                                                                         *)
(* A user may leave a wizard at any moment.  A bridge hears some presses   *)
(* and not others, delivers late, and may restart.  Every deadline is a    *)
(* step the session may take at any time.                                  *)
(***************************************************************************)
EXTENDS TravelRun, SniffAttempt

CONSTANTS Bridge,
          Flow,        \* the open setup windows
          MaxSessions, \* bound on the attempts of a behaviour
          Prompt,      \* the bridges that deliver at once
          Uptime,      \* a bridge's clock at the beginning
          Casts        \* who does what in a behaviour, see CastOK

Session == 1..MaxSessions

\* The windows' wizards and the bridges they listen through, the frames that
\* may be pressed one after another, by when, and how many bridges may restart.
\* In a calm behaviour the wizard is armed before anything else happens, every
\* bridge subscribes, nothing is pressed when nobody listens, no deadline passes
\* until the presses are over, and the user stays.  The opcode table knows the
\* three buttons only.
FrameOK(frame) ==
  frame.tabled \in BOOLEAN /\ (frame.tabled => frame.button \in Buttons)

CastOK(c) ==
  /\ c.wizard \in [Flow -> [kind : {"learn", "measure", "closed"},
                            bridges : (SUBSET Bridge) \ {{}}]]
  /\ c.sessions \in 0..MaxSessions
  /\ c.until \in Nat /\ c.reboots \in Nat
  /\ c.calm \in BOOLEAN
  /\ \A frame \in UNION Range(c.presses) : FrameOK(frame)

ASSUME WizardAssumption ==
  /\ Uptime \in [Bridge -> 0..(Modulus - 1)]
  /\ MaxSessions \in Nat /\ Prompt \subseteq Bridge
  /\ \A c \in Casts : CastOK(c)

VARIABLES cast,  \* fixed by Init
          now,
          made,  \* the presses made so far
          wire,  \* per bridge, the copies it has yet to deliver
          boot,  \* per bridge, [count, since]
          owner, \* _CAPTURE_OWNERS: per bridge, the session that holds it, or 0
          flow,  \* the setup windows
          sess   \* the sessions

vars == <<cast, now, made, wire, boot, owner, flow, sess>>

----------------------------------------------------------------------------
(* Windows and sessions *)

\* The remote of the cover being measured, and its channels.
Own == "own"
OwnSel == 1

\* sid is _sniff_session_id, task the session whose progress task is running
\* or unread, rows the directions measured or the buttons captured, in order.
NewFlow ==
  [sid |-> 0, task |-> 0, gone |-> FALSE, outcome |-> "none", rows |-> <<>>,
   heard |-> <<>>, overflowed |-> FALSE, remote |-> Own, adopted |-> <<>>]

\* choice: the capture a learn session is about to adopt, the winner or the one
\* held.  ears, old and before only serve the properties: the presses heard since
\* a STOP last closed a run, before that, and by the window's earlier sessions.
NoSession ==
  [flow |-> CHOOSE f \in Flow : TRUE, phase |-> "idle", waiting |-> {}, subs |-> {},
   live |-> {}, run |-> NewRun({}), armed |-> FALSE, future |-> "open",
   attempt |-> NewAttempt("none", {}), choice |-> "none",
   outcome |-> "none", result |-> Untimed, ears |-> {}, old |-> {},
   before |-> {}]

Kind(f) == cast.wizard[f].kind
Measures(n) == Kind(sess[n].flow) = "measure"

\* The bridges that have yet to deliver a press.
Copies(i) == {b \in Bridge : \E k \in DOMAIN wire[b] : wire[b][k].press = i}

\* Not torn down yet
Open(n) == sess[n].phase \in {"arming", "hearing", "gap", "running", "settling"}

MeasuredDirs(rows) == {r.dir : r \in ToSet(rows)}
Wanted(rows) == Directions \ MeasuredDirs(rows)

Remaining(rows) ==
  Only(LearnActions, ToSet(LearnActions) \ {r.action : r \in ToSet(rows)})

More(f, rows) ==
  IF Kind(f) = "measure" THEN Wanted(rows) # {} ELSE Remaining(rows) # <<>>

\* When a deadline may pass; when the air may stir.
Late == cast.calm => now >= cast.until /\ \A b \in Bridge : wire[b] = <<>>
Stirring ==
  /\ \E n \in Session : sess[n].phase # "idle"
  /\ cast.calm => \E n \in Session :
                    sess[n].phase \in {"hearing", "gap", "running", "settling"}
                    /\ sess[n].result = Untimed

\* A learn session is the first of its wizard, and has nothing to be held
\* against, when nothing was measured before.
First(n) == sess[n].attempt.measured = {}

\* The presses earlier measurements of the window heard.
HeardBefore(f) ==
  IF Kind(f) = "measure"
  THEN UNION {sess[n].ears \cup sess[n].old : n \in {n \in Session : sess[n].flow = f}}
  ELSE {}

Opening(f, rows) ==
  LET new == [NoSession EXCEPT !.flow = f, !.phase = "arming",
                               !.waiting = cast.wizard[f].bridges,
                               !.before = HeardBefore(f)]
  IN IF Kind(f) = "measure" THEN [new EXCEPT !.run = NewRun(Wanted(rows))]
     ELSE [new EXCEPT !.attempt =
             NewAttempt(Head(Remaining(rows)),
                        {[remote |-> r.remote, button |-> r.button] : r \in ToSet(rows)})]

----------------------------------------------------------------------------
(* Arming: _claim_sniff_channels, _async_arm_sniff_channels *)

\* A session claims all of its bridges or none; one that finds a bridge taken
\* says so and is over at once.
Busy(f) == {b \in cast.wizard[f].bridges : owner[b] # 0}

Begin(f, rows, remote, adopted) ==
  LET n == Cardinality({m \in Session : sess[m].phase # "idle"}) + 1
      next == [flow[f] EXCEPT !.rows = rows, !.remote = remote, !.adopted = adopted,
                              !.heard = <<>>, !.overflowed = FALSE]
  IN /\ ~flow[f].gone /\ flow[f].task = 0 /\ Kind(f) # "closed"
     /\ n <= cast.sessions /\ More(f, rows)
     /\ IF Busy(f) # {}
        THEN /\ flow' = [flow EXCEPT ![f] = [next EXCEPT !.outcome = "bridge_busy"]]
             /\ UNCHANGED <<owner, sess>>
        ELSE /\ owner' = [b \in Bridge |-> IF b \in cast.wizard[f].bridges THEN n ELSE owner[b]]
             /\ flow' = [flow EXCEPT ![f] = [next EXCEPT !.sid = n, !.task = n]]
             /\ sess' = [sess EXCEPT ![n] = Opening(f, rows)]
     /\ UNCHANGED <<cast, now, made, wire, boot>>

\* Start, retry, or go on with the next direction or button.
Start(f) == Begin(f, flow[f].rows, flow[f].remote, flow[f].adopted)

\* cover_measure_redo, learn_recapture: the last one once more.  With both
\* directions measured the times are corrected by hand.
Redo(f) ==
  /\ flow[f].outcome \in {"measured", "captured"} /\ flow[f].rows # <<>>
  /\ Kind(f) = "measure" => More(f, flow[f].rows)
  /\ Begin(f, Front(flow[f].rows), flow[f].remote, flow[f].adopted)

\* The remotes a measurement heard that were not the cover's own.
\* cover_measure_use_heard adopts one only if the list is complete and names no
\* other, the cover's own remote on other channels included.
Adoptable(f) ==
  LET heard == ToSet(flow[f].heard)
  IN {r \in {h[1][1] : h \in heard} :
        /\ ~flow[f].overflowed
        /\ \A h \in heard : h[1][1] = r
        /\ r # flow[f].remote
        /\ \E h \in heard : h[2] # Untabled}

LastOf(f) == Max({n \in Session : sess[n].flow = f /\ sess[n].phase # "idle"})

UseHeard(f) ==
  /\ flow[f].outcome = "no_press"
  /\ \E r \in Adoptable(f) :
       Begin(f, flow[f].rows, r,
             Append(flow[f].adopted,
                    [remote |-> r, stored |-> flow[f].remote, by |-> LastOf(f)]))

Update(n, s) == sess' = [sess EXCEPT ![n] = s]
OnlySession(n, s) == Update(n, s) /\ UNCHANGED <<cast, now, made, wire, boot, owner, flow>>

\* One bridge's subscription is acknowledged; a learn session then opens the
\* bridge's sniff window, which may fail and leaves the subscription.
Subscribed(n, b) ==
  /\ b \in sess[n].waiting
  /\ \E ready \in IF Measures(n) \/ cast.calm THEN {TRUE} ELSE BOOLEAN :
       OnlySession(n, [sess[n] EXCEPT !.waiting = @ \ {b}, !.subs = @ \cup {b},
                                      !.live = IF ready THEN @ \cup {b} ELSE @])

\* It fails, or misses the deadline all bridges share.
SubscribeFails(n, b) ==
  /\ b \in sess[n].waiting /\ ~cast.calm
  /\ OnlySession(n, [sess[n] EXCEPT !.waiting = @ \ {b}])

----------------------------------------------------------------------------
(* The end of a session *)

\* Nothing is heard any more, whoever comes to the end first; the bridges are
\* given up only when their stops have been published.
Ended(n, outcome) ==
  [sess[n] EXCEPT !.phase = "stopping", !.outcome = outcome, !.waiting = {}, !.subs = {},
                  !.future = IF @ = "open" THEN "cancelled" ELSE @]

Deaf(f, n) == [flow[f] EXCEPT !.sid = IF @ = n THEN 0 ELSE @]

End(n, outcome, window) ==
  /\ Update(n, Ended(n, outcome))
  /\ flow' = [flow EXCEPT ![sess[n].flow] = window]
  /\ UNCHANGED <<cast, now, made, wire, boot, owner>>

Fails(n, outcome) == End(n, outcome, Deaf(sess[n].flow, n))

\* The armed bridges are listened through; with none there is nothing to wait
\* for.  From one session to the next it takes longer than a burst window.
Listen(n) ==
  /\ sess[n].phase = "arming" /\ sess[n].waiting = {}
  /\ \A i \in DOMAIN made : made[i].button = "STOP" => Copies(i) = {}
  /\ IF sess[n].live = {} THEN Fails(n, IF Measures(n) THEN "failed" ELSE "timeout")
     ELSE OnlySession(n, [sess[n] EXCEPT !.phase = "hearing"])

\* _async_stop_sniff_channels: the stops are published, fail, or are given up
\* at their deadline; a task of its own releases what is still this session's.
StopsEnd(n) ==
  /\ sess[n].phase = "stopping"
  /\ Update(n, [sess[n] EXCEPT !.phase = "over"])
  /\ owner' = [b \in Bridge |-> IF owner[b] = n THEN 0 ELSE owner[b]]
  /\ UNCHANGED <<cast, now, made, wire, boot, flow>>

\* The step is re-entered with the finished task.
Report(f) ==
  LET n == flow[f].task
  IN /\ n # 0 /\ ~flow[f].gone /\ sess[n].phase = "over"
     /\ flow' = [flow EXCEPT ![f].task = 0, ![f].outcome = sess[n].outcome,
                             ![f].rows = IF sess[n].outcome = "measured"
                                         THEN Append(@, sess[n].result) ELSE @]
     /\ UNCHANGED <<cast, now, made, wire, boot, owner, sess>>

\* Faulty variant: only a running task is there to clean up after itself.
LeaveTasksOnly(f) ==
  LET n == flow[f].task
      left == [flow[f] EXCEPT !.gone = TRUE, !.sid = 0]
  IN /\ ~flow[f].gone /\ Kind(f) # "closed" /\ ~cast.calm
     /\ IF n # 0 /\ Open(n) /\ sess[n].phase # "gap" THEN End(n, "removed", left)
        ELSE /\ flow' = [flow EXCEPT ![f] = left]
             /\ UNCHANGED <<cast, now, made, wire, boot, owner, sess>>

\* async_remove: the user closes the window; a running task is cancelled and
\* comes to its finally, an open session between two tasks is closed by a task
\* of its own.
Leave(f) ==
  LET n == flow[f].task
      left == [flow[f] EXCEPT !.gone = TRUE, !.sid = 0]
  IN /\ ~flow[f].gone /\ Kind(f) # "closed" /\ ~cast.calm
     /\ IF n # 0 /\ Open(n) THEN End(n, "removed", left)
        ELSE /\ flow' = [flow EXCEPT ![f] = left]
             /\ UNCHANGED <<cast, now, made, wire, boot, owner, sess>>

----------------------------------------------------------------------------
(* Measuring: _async_measure_arm, _async_measure_finish *)

\* A direction press was heard: the first task is done and leaves the session
\* open.
ArmHeard(n) ==
  /\ Measures(n) /\ sess[n].phase = "hearing" /\ sess[n].armed
  /\ OnlySession(n, [sess[n] EXCEPT !.phase = "gap"])

\* The timeout screen is to name what was heard instead.
ArmTimeout(n) ==
  /\ Measures(n) /\ sess[n].phase = "hearing" /\ Late
  /\ End(n, "no_press", [Deaf(sess[n].flow, n) EXCEPT !.heard = sess[n].run.heard,
                                                      !.overflowed = sess[n].run.overflowed])

\* The next screen starts the second task.
AwaitStop(n) ==
  /\ sess[n].phase = "gap" /\ ~flow[sess[n].flow].gone
  /\ OnlySession(n, [sess[n] EXCEPT !.phase = "running"])

Finish(n) ==
  /\ sess[n].phase = "running" /\ sess[n].future = "set"
  /\ Fails(n, "measured")

FinishTimeout(n) == sess[n].phase = "running" /\ Late /\ Fails(n, "no_stop")

\* _handle_travel_message, for one copy
Heeded(n, copy) ==
  LET s == sess[n]
      press == made[copy.press]
      own == Who(press) = <<flow[s.flow].remote, OwnSel>>
      ears == s.ears \cup {copy.press}
  IN CASE s.future # "open" \/ (own /\ press.button \notin Buttons) -> s
       [] s.future = "open" /\ ~own ->
            [s EXCEPT !.run = RecordMismatch(@, <<Who(press), Inferred(press)>>),
                      !.ears = ears]
       [] s.future = "open" /\ own /\ press.button \in Directions ->
            [s EXCEPT !.run = OfferDirection(@, copy), !.ears = ears,
                      !.armed = @ \/ OfferDirection(s.run, copy).started # NoCopy]
       [] OTHER ->
            LET closes == Closes(s.run, copy)
                result == IF closes THEN Measured(s.run, copy) ELSE Untimed
                kept == [s EXCEPT !.run = OfferStop(@, copy)]
            IN IF ~closes THEN [kept EXCEPT !.ears = ears]
               ELSE IF result = Untimed
               THEN [kept EXCEPT !.ears = {}, !.old = @ \cup ears]
               ELSE [kept EXCEPT !.ears = ears, !.result = result, !.future = "set"]

----------------------------------------------------------------------------
(* Learning: _async_capture, _async_settle_first_capture *)

\* _store_capture, then the end.
Adopt(n, press) ==
  End(n, "captured",
      [Deaf(sess[n].flow, n) EXCEPT
         !.rows = Append(@, [action |-> sess[n].attempt.action, remote |-> press.remote,
                             button |-> press.button])])

\* The first capture of a wizard listens on for its rivals, which each candidate
\* collects in its own window.
Chosen(n, choice) == IF choice = "won" THEN sess[n].attempt.won ELSE sess[n].attempt.held

Verdict(n, choice) ==
  IF choice = "won" THEN sess[n].attempt.window ELSE sess[n].attempt.heldWindow

Choose(n, choice) ==
  IF First(n)
  THEN OnlySession(n, [sess[n] EXCEPT !.phase = "settling", !.choice = choice,
                                      !.future = IF @ = "open" THEN "cancelled" ELSE @])
  ELSE Adopt(n, Chosen(n, choice))

Won(n) ==
  /\ ~Measures(n) /\ sess[n].phase = "hearing" /\ sess[n].future = "set"
  /\ Choose(n, "won")

\* Whatever was held is adopted under the same rule.
CaptureTimeout(n) ==
  /\ ~Measures(n) /\ sess[n].phase = "hearing" /\ Late
  /\ IF sess[n].attempt.held = NoCapture THEN Fails(n, "timeout") ELSE Choose(n, "held")

Settling(n) == sess[n].phase = "settling" /\ now < sess[n].attempt.anchor + Settle

Settled(n) ==
  /\ sess[n].phase = "settling" /\ ~Settling(n)
  /\ IF Contested(Verdict(n, sess[n].choice)) THEN Fails(n, "ambiguous")
     ELSE Adopt(n, Chosen(n, sess[n].choice))

Learned(n, copy) ==
  LET s == sess[n]
      press == made[copy.press]
      attempt == OfferFrame(s.attempt, press, now, s.future # "open")
  IN [s EXCEPT !.attempt = attempt,
               !.future = IF @ = "open" /\ attempt.won # NoCapture THEN "set" ELSE @,
               !.ears = IF First(n) THEN @ \cup {<<Who(press), now>>} ELSE @]

----------------------------------------------------------------------------
(* The air and the bridges *)

\* The bridges some window listens through.
Reach == UNION {cast.wizard[f].bridges : f \in {f \in Flow : Kind(f) # "closed"}}

Clock(b) ==
  (IF boot[b].count = 0 THEN Uptime[b] + now ELSE now - boot[b].since) % Modulus

\* A button is pressed while somebody listens or has listened.  The next press
\* is made when the one before has been delivered by some bridge.
Press(frame) ==
  /\ Len(made) < Len(cast.presses) /\ frame \in cast.presses[Len(made) + 1]
  /\ now <= cast.until /\ Stirring
  /\ \A i \in DOMAIN made : made[i].copies > Cardinality(Copies(i))
  /\ \E hearing \in (SUBSET Reach) \ {{}} :
       /\ made' = Append(made, [remote |-> frame.remote, sel |-> frame.sel,
                                button |-> frame.button, tabled |-> frame.tabled,
                                at |-> now, copies |-> Cardinality(hearing)])
       /\ wire' = [b \in Bridge |->
                     IF b \in hearing
                     THEN Append(wire[b], [press |-> Len(made) + 1, button |-> frame.button,
                                           bridge |-> b, boot |-> boot[b].count,
                                           t |-> Clock(b)])
                     ELSE wire[b]]
  /\ UNCHANGED <<cast, now, boot, owner, flow, sess>>

Arriving(copy) ==
  [press |-> copy.press, button |-> copy.button, bridge |-> copy.bridge, boot |-> copy.boot,
   t |-> copy.t, arrived |-> now]

\* A bridge delivers its next copy, to the session that listens through it.
Deliver(b) ==
  /\ wire[b] # <<>>
  /\ wire' = [wire EXCEPT ![b] = Tail(@)]
  /\ LET copy == Arriving(Head(wire[b]))
     IN sess' = [n \in Session |->
                   IF b \notin sess[n].subs \/ flow[sess[n].flow].sid # n THEN sess[n]
                   ELSE IF Measures(n) THEN Heeded(n, copy) ELSE Learned(n, copy)]
  /\ UNCHANGED <<cast, now, made, boot, owner, flow>>

Reboot(b) ==
  /\ \A other \in Bridge : boot[other].count < cast.reboots
  /\ now <= cast.until /\ Stirring
  /\ boot' = [boot EXCEPT ![b] = [count |-> @.count + 1, since |-> now]]
  /\ UNCHANGED <<cast, now, made, wire, owner, flow, sess>>

\* A STOP has reached Home Assistant by every bridge that heard it within one
\* burst window.
Tick ==
  /\ (now < cast.until /\ Stirring) \/ \E n \in Session : Settling(n)
  /\ \A i \in DOMAIN made :
       made[i].button = "STOP" /\ Copies(i) # {} => now < made[i].at + BurstWindow
  /\ \A b \in Prompt : wire[b] = <<>>
  /\ now' = now + 1
  /\ UNCHANGED <<cast, made, wire, boot, owner, flow, sess>>

----------------------------------------------------------------------------
Init ==
  /\ cast \in Casts
  /\ now = 0 /\ made = <<>>
  /\ wire = [b \in Bridge |-> <<>>]
  /\ boot = [b \in Bridge |-> [count |-> 0, since |-> 0]]
  /\ owner = [b \in Bridge |-> 0]
  /\ flow = [f \in Flow |-> NewFlow]
  /\ sess = [n \in Session |-> NoSession]

\* What the loop and the broker get round to.
Goes(n) ==
  \/ \E b \in Bridge : Subscribed(n, b) \/ SubscribeFails(n, b)
  \/ Listen(n) \/ StopsEnd(n)
  \/ ArmHeard(n) \/ ArmTimeout(n) \/ AwaitStop(n) \/ Finish(n) \/ FinishTimeout(n)
  \/ Won(n) \/ CaptureTimeout(n) \/ Settled(n)

Next ==
  \/ \E f \in Flow : Start(f) \/ Redo(f) \/ UseHeard(f) \/ Report(f) \/ Leave(f)
  \/ \E n \in Session : Goes(n)
  \/ \E frame \in UNION Range(cast.presses) : Press(frame)
  \/ \E b \in Bridge : Deliver(b) \/ Reboot(b)
  \/ Tick

Spec ==
  /\ Init /\ [][Next]_vars
  /\ \A n \in Session : WF_vars(Goes(n))
  /\ \A b \in Bridge : WF_vars(Deliver(b))
  /\ WF_vars(Tick)

----------------------------------------------------------------------------
(* Properties *)

\* A bridge is held by one session at most, as long as that session may still
\* hear through it or owes it a sniff stop; whoever subscribes or is subscribed
\* holds the claim, so no press reaches two sessions; and the session a window
\* hears for is its own, open and not read yet (_CAPTURE_OWNERS,
\* _sniff_session_id).
Claims ==
  /\ \A b \in Bridge : owner[b] # 0 =>
       owner[b] \in Session /\ (Open(owner[b]) \/ sess[owner[b]].phase = "stopping")
  /\ \A f \in Flow :
       /\ flow[f].sid # 0 => flow[f].task = flow[f].sid /\ Open(flow[f].sid)
       /\ flow[f].task # 0 => flow[f].task \in Session /\ sess[flow[f].task].flow = f
  /\ \A n \in Session :
       /\ ~Open(n) => sess[n].subs = {} /\ sess[n].waiting = {}
       /\ \A b \in sess[n].subs \cup sess[n].waiting : owner[b] = n

\* Lists stay within their caps, and claims are kept.
TypeOK ==
  /\ cast \in Casts /\ now \in Nat
  /\ Claims
  /\ \A f \in Flow : Len(flow[f].heard) <= HeardCap
  /\ \A n \in Session :
       /\ Len(sess[n].run.heard) <= HeardCap
       /\ Len(sess[n].attempt.recent) <= CandidateCap
       /\ sess[n].live \subseteq Bridge
       /\ sess[n].future \in {"open", "set", "cancelled"}

\* What a measurement stores is a run the shade made: from a press of the
\* direction it is stored under to a STOP pressed after it, with no press of a
\* direction that was asked for between the two -- except one whose button had
\* anchored this run before, which cannot be told from a late copy and is
\* absorbed (_open, travel_capture.py:443).  Timed by one bridge it is never
\* short, and long by less than the rounding (stored_value, line 144).  A press
\* heard before the run that was closed last, or before the session, is left to
\* NoCopyReanchors.
MeasuresARun ==
  \A n \in Session : sess[n].result # Untimed =>
    LET r == sess[n].result
        from == made[r.from.press]
        to == made[r.to.press]
        between == {i \in sess[n].ears : r.from.press < i /\ i < r.to.press
                                         /\ Who(made[i]) = Who(from)
                                         /\ made[i].button \in sess[n].run.wanted}
    IN /\ from.button = r.dir /\ to.button = "STOP" /\ r.from.press < r.to.press
       /\ r.from.press \notin sess[n].old \cup sess[n].before =>
            \A i \in between : \E j \in sess[n].ears :
              j <= r.from.press /\ made[j].button = made[i].button
       /\ r.from.bridge = r.to.bridge =>
            /\ r.stored * PerSecond >= to.at - from.at
            /\ r.stored * PerSecond < to.at - from.at + PerSecond

\* "What a duplicate must never do is re-anchor an OPEN run, which _open
\* enforces on the signature itself rather than on a window."
\* (travel_capture.py:373)
NoCopyReanchors ==
  [][\A n \in Session :
       LET was == sess[n].run.started
           is == sess'[n].run.started
       IN was # NoCopy /\ is # NoCopy /\ was # is =>
            is.press \notin sess[n].ears \cup sess[n].old \cup sess[n].before]_vars

\* A remote is adopted only when it is the only one it can have been: no press
\* that answers "which blind is this" differently was heard within one settle
\* window of the first capture learned, on whichever path it was adopted
\* (_async_settle_first_capture, config_flow.py:2572), and the measurement a
\* remote is taken over from rejected the presses of no other one, whatever the
\* list had room for (cover_measure_use_heard, line 2262).
AdoptedIsUnrivalled ==
  /\ \A n \in Session :
       ~Measures(n) /\ First(n) /\ sess[n].outcome = "captured" =>
         LET window == Verdict(n, sess[n].choice)
         IN \A e \in sess[n].ears :
              e[1] # Who(Chosen(n, sess[n].choice)) =>
                e[2] - window.anchor > Settle \/ window.anchor - e[2] > Settle
  /\ \A f \in Flow : \A a \in ToSet(flow[f].adopted) :
       \A i \in sess[a.by].ears \cup sess[a.by].old :
         Who(made[i]) = <<a.stored, OwnSel>> \/ made[i].remote = a.remote

\* Every claim on a bridge ends, however the session or the window that took it
\* ends: a bridge that stays claimed needs a restart of Home Assistant before
\* any wizard can listen through it (_async_stop_sniff_channels, async_remove,
\* config_flow.py:798 and 2930).
ClaimsEnd ==
  \A b \in Bridge : owner[b] # 0 ~> owner[b] = 0
=============================================================================
