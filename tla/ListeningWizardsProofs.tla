----------------------- MODULE ListeningWizardsProofs -----------------------
(***************************************************************************)
(* Theorems about the listening wizards, for any bridges, windows, casts   *)
(* and caps.  Their claims agree with their sessions and windows: whoever  *)
(* subscribes holds the claim, and no press reaches two sessions           *)
(* (ClaimsAgree).  Their lists stay within their caps (TypeCorrect), and   *)
(* what they forget for it costs nothing: a remote is adopted only when it *)
(* was the only one (AdoptionsUnrivalled).                                 *)
(***************************************************************************)
EXTENDS ListeningWizards, QueueOpsProofs, FiniteSetTheorems, TLAPS

\* The fields of a session and of a window; their values do not matter here.
WellSet(s) ==
  s = [flow |-> s.flow, phase |-> s.phase, waiting |-> s.waiting, subs |-> s.subs,
       live |-> s.live, run |-> s.run, armed |-> s.armed, future |-> s.future,
       attempt |-> s.attempt, choice |-> s.choice, outcome |-> s.outcome,
       result |-> s.result, ears |-> s.ears, old |-> s.old,
       before |-> s.before]

WellKept(w) ==
  w = [sid |-> w.sid, task |-> w.task, gone |-> w.gone, outcome |-> w.outcome,
       rows |-> w.rows, heard |-> w.heard, overflowed |-> w.overflowed,
       remote |-> w.remote, adopted |-> w.adopted]

Formed ==
  /\ DOMAIN owner = Bridge /\ DOMAIN flow = Flow /\ DOMAIN sess = Session
  /\ \A f \in Flow : WellKept(flow[f])
  /\ \A n \in Session : WellSet(sess[n])

\* Sessions are numbered as they begin: the next number is unused.
Numbered ==
  \E k \in 0..MaxSessions : \A n \in Session : sess[n].phase # "idle" <=> n <= k

\* A session that has begun has a window; what a window waits for has begun.
Seated ==
  /\ \A n \in Session : sess[n].phase # "idle" => sess[n].flow \in Flow
  /\ \A n \in Session : sess[n].subs \cup sess[n].waiting \subseteq Bridge
  /\ \A f \in Flow : flow[f].task # 0 => sess[flow[f].task].phase # "idle"

ClaimInv == cast \in Casts /\ Formed /\ Numbered /\ Seated /\ Claims

----------------------------------------------------------------------------
(* What the steps have in common. *)

\* A session goes on, hears, or hears through one bridge less.
Continues(n) ==
  /\ WellSet(sess'[n]) /\ sess'[n].flow = sess[n].flow
  /\ sess'[n].phase = sess[n].phase \/ (Open(n) /\ Open(n)')
  /\ sess'[n].subs \cup sess'[n].waiting \subseteq sess[n].subs \cup sess[n].waiting

Quiet ==
  /\ cast' = cast /\ owner' = owner /\ flow' = flow
  /\ DOMAIN sess' = Session
  /\ \A n \in Session : Continues(n)

LEMMA InitClaims == Init => ClaimInv
<1> SUFFICES ASSUME Init PROVE ClaimInv
  OBVIOUS
<1>1. /\ cast \in Casts
      /\ owner = [b \in Bridge |-> 0] /\ flow = [f \in Flow |-> NewFlow]
      /\ sess = [n \in Session |-> NoSession]
  BY DEF Init
<1>2. WellSet(NoSession) /\ NoSession.phase = "idle" /\ NoSession.subs = {}
      /\ NoSession.waiting = {}
  BY DEF WellSet, NoSession
<1>3. WellKept(NewFlow) /\ NewFlow.sid = 0 /\ NewFlow.task = 0
  BY DEF WellKept, NewFlow
<1>4. Numbered
  <2>1. 0 \in 0..MaxSessions
    BY WizardAssumption
  <2>2. \A n \in Session : sess[n].phase # "idle" <=> n <= 0
    BY <1>1, <1>2, WizardAssumption DEF Session
  <2> QED
    BY <2>1, <2>2 DEF Numbered
<1>5. Formed
  BY <1>1, <1>2, <1>3 DEF Formed
<1>6. Seated /\ Claims
  BY <1>1, <1>2, <1>3 DEF Seated, Claims
<1> QED
  BY <1>1, <1>4, <1>5, <1>6 DEF ClaimInv

LEMMA QuietKeeps ==
  ASSUME ClaimInv, Quiet
  PROVE  ClaimInv'
<1>1. \A n \in Session : /\ Open(n) <=> Open(n)'
                         /\ sess[n].phase = "idle" <=> sess'[n].phase = "idle"
                         /\ sess[n].phase = "stopping" <=> sess'[n].phase = "stopping"
  BY DEF Quiet, Continues, Open
<1>2. Formed'
  BY DEF ClaimInv, Quiet, Formed, Continues
<1>3. Numbered'
  BY <1>1 DEF ClaimInv, Numbered
<1>4. Seated'
  BY <1>1 DEF ClaimInv, Seated, Claims, Quiet, Continues
<1>5. Claims'
  <2>1. \A b \in Bridge : owner'[b] # 0 =>
          owner'[b] \in Session /\ (Open(owner[b])' \/ sess'[owner[b]].phase = "stopping")
    BY <1>1 DEF ClaimInv, Claims, Quiet
  <2>2. \A f \in Flow :
          /\ flow'[f].sid # 0 => flow'[f].task = flow'[f].sid /\ Open(flow[f].sid)'
          /\ flow'[f].task # 0 =>
               flow'[f].task \in Session /\ sess'[flow'[f].task].flow = f
    BY <1>1 DEF ClaimInv, Claims, Quiet, Continues
  <2>3. \A n \in Session :
          /\ ~Open(n)' => sess'[n].subs = {} /\ sess'[n].waiting = {}
          /\ \A b \in sess'[n].subs \cup sess'[n].waiting : owner'[b] = n
    BY <1>1 DEF ClaimInv, Claims, Quiet, Continues
  <2>4. owner' = owner /\ flow' = flow
    BY DEF Quiet
  <2> QED
    BY <2>1, <2>2, <2>3, <2>4 DEF Claims
<1> QED
  BY <1>2, <1>3, <1>4, <1>5 DEF ClaimInv, Quiet

\* A session comes to its end: it is deaf at once, and keeps its claims until
\* its stops are done.
Closing(n, window) ==
  LET f == sess[n].flow
  IN /\ cast' = cast /\ owner' = owner
     /\ sess' = [sess EXCEPT ![n] = sess'[n]] /\ WellSet(sess'[n])
     /\ sess'[n].phase = "stopping" /\ sess'[n].flow = f
     /\ sess'[n].subs = {} /\ sess'[n].waiting = {}
     /\ flow' = [flow EXCEPT ![f] = window] /\ WellKept(window)
     /\ window.sid \in {0, flow[f].sid} \ {n} /\ window.task = flow[f].task

LEMMA ClosingKeeps ==
  ASSUME ClaimInv, NEW n \in Session, Open(n), NEW window, Closing(n, window)
  PROVE  ClaimInv'
<1> DEFINE f == sess[n].flow
<1>1. f \in Flow
  BY DEF ClaimInv, Seated, Open
<1>2. /\ \A m \in Session : m # n => sess'[m] = sess[m]
      /\ \A g \in Flow : g # f => flow'[g] = flow[g]
      /\ flow'[f] = window
      /\ DOMAIN sess' = Session /\ DOMAIN flow' = Flow
  BY <1>1 DEF ClaimInv, Formed, Closing
<1>3. ~Open(n)' /\ \A m \in Session : m # n => (Open(m)' <=> Open(m))
  BY <1>2 DEF Open, Closing
<1>4. Formed'
  BY <1>2 DEF ClaimInv, Formed, Closing
<1>5. Numbered'
  <2>1. \A m \in Session : sess[m].phase = "idle" <=> sess'[m].phase = "idle"
    BY <1>2 DEF Closing, Open
  <2> QED
    BY <2>1 DEF ClaimInv, Numbered
<1>6. Seated'
  BY <1>1, <1>2 DEF ClaimInv, Seated, Claims, Closing
<1>7. \A g \in Flow : flow[g].sid = n => g = f
  BY DEF ClaimInv, Claims, WizardAssumption, Session
<1>8. Claims'
  <2>1. \A b \in Bridge : owner'[b] # 0 =>
          owner'[b] \in Session /\ (Open(owner[b])' \/ sess'[owner[b]].phase = "stopping")
    BY <1>2, <1>3 DEF ClaimInv, Claims, Closing
  <2>2. ASSUME NEW g \in Flow
        PROVE  /\ flow'[g].sid # 0 => flow'[g].task = flow'[g].sid /\ Open(flow[g].sid)'
               /\ flow'[g].task # 0 =>
                    flow'[g].task \in Session /\ sess'[flow'[g].task].flow = g
    <3>1. flow'[g].sid \in {0, flow[g].sid} \ {n} /\ flow'[g].task = flow[g].task
      BY <1>2, <1>7 DEF Closing, Session
    <3>2. flow[g].task # 0 => flow[g].task \in Session /\ sess[flow[g].task].flow = g
      BY DEF ClaimInv, Claims
    <3>3. flow[g].sid # 0 => flow[g].task = flow[g].sid /\ Open(flow[g].sid)
      BY DEF ClaimInv, Claims
    <3>4. sess'[flow[g].task].flow = sess[flow[g].task].flow \/ flow[g].task \notin Session
      BY <1>2 DEF Closing
    <3> QED
      BY <1>3, <3>1, <3>2, <3>3, <3>4
  <2>3. ASSUME NEW m \in Session
        PROVE  /\ ~Open(m)' => sess'[m].subs = {} /\ sess'[m].waiting = {}
               /\ \A b \in sess'[m].subs \cup sess'[m].waiting : owner'[b] = m
    BY <1>2, <1>3 DEF ClaimInv, Claims, Closing
  <2>4. owner' = owner
    BY DEF Closing
  <2> QED
    BY <2>1, <2>2, <2>3, <2>4 DEF Claims
<1> QED
  BY <1>4, <1>5, <1>6, <1>8 DEF ClaimInv, Closing

\* The stops are done: what is still this session's is given up.
LEMMA StopsEndKeeps ==
  ASSUME ClaimInv, NEW n \in Session, StopsEnd(n)
  PROVE  ClaimInv'
<1>1. /\ sess[n].phase = "stopping" /\ cast' = cast /\ flow' = flow
      /\ sess' = [sess EXCEPT ![n] = [sess[n] EXCEPT !.phase = "over"]]
      /\ owner' = [b \in Bridge |-> IF owner[b] = n THEN 0 ELSE owner[b]]
  BY DEF StopsEnd, Update
<1>2. PICK s : s = [sess[n] EXCEPT !.phase = "over"]
  OBVIOUS
<1>3. WellSet(s) /\ s.phase = "over" /\ s.flow = sess[n].flow /\ s.subs = {} /\ s.waiting = {}
  <2>1. WellSet(sess[n]) /\ sess[n].subs = {} /\ sess[n].waiting = {}
    BY <1>1 DEF ClaimInv, Formed, Claims, Open
  <2> QED
    BY <1>2, <2>1 DEF WellSet
<1>4. sess'[n] = s /\ DOMAIN sess' = Session /\ \A m \in Session : m # n => sess'[m] = sess[m]
  BY <1>1, <1>2 DEF ClaimInv, Formed
<1>5. \A m \in Session : /\ Open(m)' <=> Open(m)
                         /\ sess'[m].flow = sess[m].flow
                         /\ sess'[m].phase = "idle" <=> sess[m].phase = "idle"
                         /\ sess'[m].subs = sess[m].subs /\ sess'[m].waiting = sess[m].waiting
  BY <1>1, <1>3, <1>4 DEF Open, ClaimInv, Claims
<1>6. Formed'
  BY <1>1, <1>3, <1>4 DEF ClaimInv, Formed
<1>7. Numbered'
  BY <1>5 DEF ClaimInv, Numbered
<1>8. Seated'
  BY <1>1, <1>5 DEF ClaimInv, Seated, Claims
<1>9. Claims'
  <2>1. \A b \in Bridge : owner'[b] # 0 =>
          owner'[b] \in Session /\ (Open(owner'[b]) \/ sess[owner'[b]].phase = "stopping")
          /\ owner'[b] # n
    BY <1>1, WizardAssumption DEF ClaimInv, Claims, Session
  <2>2. \A b \in Bridge : owner'[b] # 0 =>
          owner'[b] \in Session
          /\ (sess'[owner'[b]].phase \in {"arming", "hearing", "gap", "running", "settling"}
              \/ sess'[owner'[b]].phase = "stopping")
    BY <1>4, <2>1 DEF Open
  <2>3. \A f \in Flow :
          /\ flow[f].sid # 0 => flow[f].task = flow[f].sid /\ Open(flow[f].sid)'
          /\ flow[f].task # 0 => flow[f].task \in Session /\ sess'[flow[f].task].flow = f
    <3>1. \A f \in Flow : flow[f].task # 0 =>
            flow[f].task \in Session /\ sess'[flow[f].task].flow = f
      BY <1>5 DEF ClaimInv, Claims
    <3>2. \A f \in Flow : flow[f].sid # 0 =>
            flow[f].sid \in Session /\ flow[f].task = flow[f].sid /\ Open(flow[f].sid)
      BY DEF ClaimInv, Claims
    <3>3. \A f \in Flow : flow[f].sid # 0 => Open(flow[f].sid)'
      BY <1>1, <1>5, <3>2
    <3> QED
      BY <3>1, <3>2, <3>3
  <2>4. \A m \in Session :
          /\ ~Open(m)' => sess'[m].subs = {} /\ sess'[m].waiting = {}
          /\ \A b \in sess'[m].subs \cup sess'[m].waiting : owner[b] = m /\ m # n
    BY <1>3, <1>4, <1>5 DEF ClaimInv, Claims
  <2>5. \A m \in Session : \A b \in sess'[m].subs \cup sess'[m].waiting : owner'[b] = m
    <3>1. \A m \in Session : sess'[m].subs \cup sess'[m].waiting \subseteq Bridge
      BY <1>5 DEF ClaimInv, Seated
    <3> QED
      BY <1>1, <2>4, <3>1
  <2> QED
    BY <1>1, <2>2, <2>3, <2>4, <2>5 DEF Claims, Open
<1> QED
  BY <1>1, <1>6, <1>7, <1>8, <1>9 DEF ClaimInv

\* A window alone changes: it has read what its task found, or is left when no
\* session of its own is open.
LEMMA WindowKeeps ==
  ASSUME ClaimInv, NEW f \in Flow, NEW window, WellKept(window),
         cast' = cast, owner' = owner, sess' = sess,
         flow' = [flow EXCEPT ![f] = window],
         window.sid = 0, window.task \in {0, flow[f].task}
  PROVE  ClaimInv'
<1>1. /\ flow'[f] = window /\ DOMAIN flow' = Flow
      /\ \A g \in Flow : g # f => flow'[g] = flow[g]
  BY DEF ClaimInv, Formed
<1>2. Formed' /\ Numbered'
  BY <1>1 DEF ClaimInv, Formed, Numbered
<1>3. Seated'
  BY <1>1 DEF ClaimInv, Seated
<1>4. Claims'
  BY <1>1 DEF ClaimInv, Claims, Open
<1> QED
  BY <1>2, <1>3, <1>4 DEF ClaimInv

\* The number a beginning session takes is unused, and the next one after it.
LEMMA NextNumber ==
  ASSUME ClaimInv, NEW n, n = Cardinality({m \in Session : sess[m].phase # "idle"}) + 1,
         n <= cast.sessions
  PROVE  /\ n \in Session /\ sess[n].phase = "idle"
         /\ \A m \in Session : sess[m].phase # "idle" <=> m <= n - 1
<1>1. PICK k \in 0..MaxSessions : \A m \in Session : sess[m].phase # "idle" <=> m <= k
  BY DEF ClaimInv, Numbered
<1>2. MaxSessions \in Nat /\ cast.sessions \in 0..MaxSessions
  BY WizardAssumption DEF ClaimInv, CastOK
<1>3. {m \in Session : sess[m].phase # "idle"} = 1..k
  BY <1>1, <1>2 DEF Session
<1>4. k \in Nat /\ k <= MaxSessions
  BY <1>1, <1>2
<1>5. Cardinality(1..k) = k
  BY <1>4, FS_Interval
<1>6. n = k + 1
  BY <1>3, <1>5
<1>7. n \in Session
  BY <1>2, <1>4, <1>6 DEF Session
<1>8. \A m \in Session : m <= k <=> m <= n - 1
  BY <1>4, <1>6, <1>2 DEF Session
<1>9. ~(n <= k)
  BY <1>4, <1>6
<1> QED
  BY <1>1, <1>7, <1>8, <1>9

\* A session begins only with all of its bridges free.
LEMMA BeginKeeps ==
  ASSUME ClaimInv, NEW f \in Flow, NEW rows, NEW remote, NEW adopted,
         Begin(f, rows, remote, adopted)
  PROVE  ClaimInv'
<1>a. PICK n : n = Cardinality({m \in Session : sess[m].phase # "idle"}) + 1
  OBVIOUS
<1>b. PICK bridges : bridges = cast.wizard[f].bridges
  OBVIOUS
<1>1. PICK next : next = [flow[f] EXCEPT !.rows = rows, !.remote = remote, !.adopted = adopted,
                                         !.heard = <<>>, !.overflowed = FALSE]
  OBVIOUS
<1>2. WellKept(next) /\ next.sid = flow[f].sid /\ next.task = flow[f].task
  <2>1. PICK v : v = flow[f]
    OBVIOUS
  <2>2. WellKept(v)
    BY <2>1 DEF ClaimInv, Formed
  <2> QED
    BY <1>1, <2>1, <2>2 DEF WellKept
<1>3. flow[f].task = 0 /\ flow[f].sid = 0 /\ cast' = cast /\ n <= cast.sessions
  BY <1>a DEF Begin, ClaimInv, Claims
<1>4. CASE Busy(f) # {}
  <2>1. PICK w : w = [next EXCEPT !.outcome = "bridge_busy"]
    OBVIOUS
  <2>2. WellKept(w) /\ w.sid = 0 /\ w.task = 0
    BY <1>2, <1>3, <2>1 DEF WellKept
  <2>3. flow' = [flow EXCEPT ![f] = w] /\ owner' = owner /\ sess' = sess
    BY <1>1, <1>4, <2>1 DEF Begin
  <2> QED
    BY <1>3, <2>2, <2>3, WindowKeeps
<1>5. CASE Busy(f) = {}
  <2>1. PICK w : w = [next EXCEPT !.sid = n, !.task = n]
    OBVIOUS
  <2>2. PICK s : s = Opening(f, rows)
    OBVIOUS
  <2>3. WellKept(w) /\ w.sid = n /\ w.task = n
    BY <1>2, <2>1 DEF WellKept
  <2>4. /\ WellSet(s) /\ s.phase = "arming" /\ s.flow = f
        /\ s.waiting = bridges /\ s.subs = {}
    <3>1. PICK new : new = [NoSession EXCEPT !.flow = f, !.phase = "arming",
                               !.waiting = cast.wizard[f].bridges,
                               !.before = HeardBefore(f)]
      OBVIOUS
    <3>2. /\ WellSet(new) /\ new.phase = "arming" /\ new.flow = f
          /\ new.waiting = bridges /\ new.subs = {}
      BY <1>b, <3>1 DEF WellSet, NoSession
    <3>3. (\E run : s = [new EXCEPT !.run = run]) \/ (\E a : s = [new EXCEPT !.attempt = a])
      BY <2>2, <3>1 DEF Opening
    <3> QED
      BY <3>2, <3>3 DEF WellSet
  <2>5. /\ flow' = [flow EXCEPT ![f] = w] /\ sess' = [sess EXCEPT ![n] = s]
        /\ owner' = [b \in Bridge |-> IF b \in bridges THEN n ELSE owner[b]]
    BY <1>a, <1>b, <1>1, <1>5, <2>1, <2>2 DEF Begin
  <2>6. /\ n \in Session /\ sess[n].phase = "idle"
        /\ \A m \in Session : sess[m].phase # "idle" <=> m <= n - 1
    BY <1>a, <1>3, NextNumber
  <2>7. bridges \subseteq Bridge /\ \A b \in bridges : owner[b] = 0
    BY <1>b, <1>5, WizardAssumption DEF ClaimInv, CastOK, Busy
  <2>8. /\ DOMAIN flow' = Flow /\ flow'[f] = w /\ \A g \in Flow : g # f => flow'[g] = flow[g]
        /\ DOMAIN sess' = Session /\ sess'[n] = s
        /\ \A m \in Session : m # n => sess'[m] = sess[m]
    BY <2>5, <2>6 DEF ClaimInv, Formed
  <2>9. n # 0 /\ \A g \in Flow : flow[g].sid # n /\ flow[g].task # n
    BY <2>6 DEF ClaimInv, Seated, Claims, Session
  <2>10. Formed'
    BY <2>3, <2>4, <2>5, <2>8 DEF ClaimInv, Formed
  <2>11. Numbered'
    <3>1. n \in 0..MaxSessions
      BY <2>6, WizardAssumption DEF Session
    <3>2. \A m \in Session : sess'[m].phase # "idle" <=> m <= n
      BY <2>4, <2>6, <2>8, WizardAssumption DEF Session
    <3> QED
      BY <3>1, <3>2 DEF Numbered
  <2>12. Seated'
    <3>1. \A m \in Session : sess'[m].phase # "idle" => sess'[m].flow \in Flow
      BY <2>4, <2>8 DEF ClaimInv, Seated
    <3>2. \A m \in Session : sess'[m].subs \cup sess'[m].waiting \subseteq Bridge
      BY <2>4, <2>7, <2>8 DEF ClaimInv, Seated
    <3>3. \A g \in Flow : flow'[g].task # 0 => sess'[flow'[g].task].phase # "idle"
      BY <2>3, <2>4, <2>8, <2>9 DEF ClaimInv, Seated, Claims
    <3> QED
      BY <3>1, <3>2, <3>3 DEF Seated
  <2>13. Open(n)' /\ \A m \in Session : m # n => (Open(m)' <=> Open(m))
    BY <2>4, <2>8 DEF Open
  <2>14. Claims'
    <3>1. ASSUME NEW b \in Bridge, owner'[b] # 0
          PROVE  owner'[b] \in Session /\ (Open(owner[b])' \/ sess'[owner'[b]].phase = "stopping")
      <4>1. CASE b \in bridges
        BY <2>5, <2>6, <2>13, <4>1
      <4>2. CASE b \notin bridges
        <5>1. owner'[b] = owner[b] /\ owner[b] # 0
          BY <2>5, <3>1, <4>2
        <5>2. owner[b] \in Session /\ (Open(owner[b]) \/ sess[owner[b]].phase = "stopping")
          BY <5>1 DEF ClaimInv, Claims
        <5>3. owner[b] # n
          BY <2>6, <5>2 DEF Open
        <5>4. sess'[owner[b]] = sess[owner[b]]
          BY <2>8, <5>2, <5>3
        <5> QED
          BY <5>1, <5>2, <5>4 DEF Open
      <4> QED
        BY <4>1, <4>2
    <3>2. ASSUME NEW g \in Flow
          PROVE  /\ flow'[g].sid # 0 => flow'[g].task = flow'[g].sid /\ Open(flow[g].sid)'
                 /\ flow'[g].task # 0 =>
                      flow'[g].task \in Session /\ sess'[flow'[g].task].flow = g
      <4>1. CASE g = f
        BY <2>3, <2>4, <2>6, <2>8, <2>13, <4>1
      <4>2. CASE g # f
        BY <2>8, <2>9, <2>13, <4>2 DEF ClaimInv, Claims
      <4> QED
        BY <4>1, <4>2
    <3>3. ASSUME NEW m \in Session
          PROVE  /\ ~Open(m)' => sess'[m].subs = {} /\ sess'[m].waiting = {}
                 /\ \A b \in sess'[m].subs \cup sess'[m].waiting : owner'[b] = m
      <4>1. CASE m = n
        BY <2>4, <2>5, <2>7, <2>8, <2>13, <4>1
      <4>2. CASE m # n
        <5>1. \A b \in sess[m].subs \cup sess[m].waiting : b \in Bridge \ bridges /\ owner[b] = m
          BY <2>7 DEF ClaimInv, Claims, Seated, Session
        <5> QED
          BY <2>5, <2>8, <2>13, <4>2, <5>1 DEF ClaimInv, Claims
      <4> QED
        BY <4>1, <4>2
    <3> QED
      BY <3>1, <3>2, <3>3 DEF Claims
  <2> QED
    BY <1>3, <2>10, <2>11, <2>12, <2>14 DEF ClaimInv
<1> QED
  BY <1>4, <1>5

----------------------------------------------------------------------------
(* The actions. *)

LEMMA GoesOn ==
  ASSUME ClaimInv, NEW n \in Session, NEW s, OnlySession(n, s), WellSet(s),
         s.flow = sess[n].flow,
         \/ s.phase = sess[n].phase
         \/ Open(n) /\ s.phase \in {"arming", "hearing", "gap", "running", "settling"},
         s.subs \cup s.waiting \subseteq sess[n].subs \cup sess[n].waiting
  PROVE  ClaimInv'
<1>1. /\ sess' = [sess EXCEPT ![n] = s]
      /\ cast' = cast /\ owner' = owner /\ flow' = flow
  BY DEF OnlySession, Update
<1>2. DOMAIN sess' = Session /\ sess'[n] = s /\ \A m \in Session : m # n => sess'[m] = sess[m]
  BY <1>1 DEF ClaimInv, Formed
<1>3. \A m \in Session : WellSet(sess[m])
  BY DEF ClaimInv, Formed
<1>4. ASSUME NEW m \in Session PROVE Continues(m)
  BY <1>2, <1>3 DEF Continues, Open
<1> QED
  BY <1>1, <1>2, <1>4, QuietKeeps DEF Quiet

LEMMA ComesToItsEnd ==
  ASSUME ClaimInv, NEW n \in Session, Open(n), NEW outcome, NEW window,
         End(n, outcome, window), WellKept(window),
         window.sid \in {0, flow[sess[n].flow].sid} \ {n},
         window.task = flow[sess[n].flow].task
  PROVE  ClaimInv'
<1>1. PICK s : s = Ended(n, outcome)
  OBVIOUS
<1>2. PICK v : v = sess[n]
  OBVIOUS
<1>3. WellSet(v)
  BY <1>2 DEF ClaimInv, Formed
<1>4. WellSet(s) /\ s.phase = "stopping" /\ s.flow = sess[n].flow /\ s.subs = {} /\ s.waiting = {}
  BY <1>1, <1>2, <1>3 DEF Ended, WellSet
<1>5. sess' = [sess EXCEPT ![n] = s] /\ sess'[n] = s
  BY <1>1 DEF End, Update, ClaimInv, Formed
<1>6. Closing(n, window)
  BY <1>4, <1>5 DEF End, Closing
<1> QED
  BY <1>6, ClosingKeeps

\* A window that no longer hears for session n.
LEMMA DeafWindow ==
  ASSUME ClaimInv, NEW n \in Session, NEW f \in Flow
  PROVE  /\ WellKept(Deaf(f, n)) /\ Deaf(f, n).task = flow[f].task
         /\ Deaf(f, n).sid \in {0, flow[f].sid} \ {n}
<1>1. PICK v : v = flow[f]
  OBVIOUS
<1>2. WellKept(v)
  BY <1>1 DEF ClaimInv, Formed
<1>3. n # 0
  BY WizardAssumption DEF Session
<1> QED
  BY <1>1, <1>2, <1>3 DEF Deaf, WellKept

LEMMA FailsKeeps ==
  ASSUME ClaimInv, NEW n \in Session, Open(n), NEW outcome, Fails(n, outcome)
  PROVE  ClaimInv'
<1>1. sess[n].flow \in Flow
  BY DEF ClaimInv, Seated, Open
<1> QED
  BY <1>1, DeafWindow, ComesToItsEnd DEF Fails

LEMMA AdoptKeeps ==
  ASSUME ClaimInv, NEW n \in Session, Open(n), NEW press, Adopt(n, press)
  PROVE  ClaimInv'
<1>1. sess[n].flow \in Flow
  BY DEF ClaimInv, Seated, Open
<1>2. PICK d : d = Deaf(sess[n].flow, n)
  OBVIOUS
<1>3. PICK w : w = [d EXCEPT !.rows = Append(@, [action |-> sess[n].attempt.action,
                                                 remote |-> press.remote,
                                                 button |-> press.button])]
  OBVIOUS
<1>4. WellKept(d) /\ d.task = flow[sess[n].flow].task
      /\ d.sid \in {0, flow[sess[n].flow].sid} \ {n}
  BY <1>1, <1>2, DeafWindow
<1>5. WellKept(w) /\ w.task = d.task /\ w.sid = d.sid
  BY <1>3, <1>4 DEF WellKept
<1>6. End(n, "captured", w)
  BY <1>2, <1>3 DEF Adopt
<1> QED
  BY <1>4, <1>5, <1>6, ComesToItsEnd

\* What changes a session without changing where it stands.
LEMMA PhaseMoves ==
  ASSUME ClaimInv, NEW n \in Session, Open(n), NEW phase,
         phase \in {"arming", "hearing", "gap", "running", "settling"},
         OnlySession(n, [sess[n] EXCEPT !.phase = phase])
  PROVE  ClaimInv'
<1>1. PICK v : v = sess[n]
  OBVIOUS
<1>2. PICK s : s = [v EXCEPT !.phase = phase]
  OBVIOUS
<1>3. WellSet(v)
  BY <1>1 DEF ClaimInv, Formed
<1>4. WellSet(s) /\ s.flow = v.flow /\ s.phase = phase /\ s.subs = v.subs
      /\ s.waiting = v.waiting
  BY <1>2, <1>3 DEF WellSet
<1> QED
  BY <1>1, <1>2, <1>4, GoesOn

LEMMA ArmingKeeps ==
  ASSUME ClaimInv, NEW n \in Session,
         (\E b \in Bridge : Subscribed(n, b) \/ SubscribeFails(n, b)) \/ Listen(n)
  PROVE  ClaimInv'
<1>1. PICK v : v = sess[n]
  OBVIOUS
<1>2. WellSet(v)
  BY <1>1 DEF ClaimInv, Formed
<1>3. ASSUME NEW b \in Bridge, Subscribed(n, b) PROVE ClaimInv'
  <2>1. PICK ready : OnlySession(n, [v EXCEPT !.waiting = @ \ {b}, !.subs = @ \cup {b},
                                       !.live = IF ready THEN @ \cup {b} ELSE @])
    BY <1>1, <1>3 DEF Subscribed
  <2>2. PICK s : s = [v EXCEPT !.waiting = @ \ {b}, !.subs = @ \cup {b},
                               !.live = IF ready THEN @ \cup {b} ELSE @]
    OBVIOUS
  <2>3. WellSet(s) /\ s.flow = v.flow /\ s.phase = v.phase
        /\ s.subs = v.subs \cup {b} /\ s.waiting = v.waiting \ {b}
    BY <1>2, <2>2 DEF WellSet
  <2>4. b \in v.waiting
    BY <1>1, <1>3 DEF Subscribed
  <2>5. s.subs \cup s.waiting \subseteq v.subs \cup v.waiting
    BY <2>3, <2>4
  <2> QED
    BY <1>1, <2>1, <2>2, <2>3, <2>5, GoesOn
<1>4. ASSUME NEW b \in Bridge, SubscribeFails(n, b) PROVE ClaimInv'
  <2>1. PICK s : s = [v EXCEPT !.waiting = @ \ {b}]
    OBVIOUS
  <2>2. WellSet(s) /\ s.flow = v.flow /\ s.phase = v.phase
        /\ s.subs = v.subs /\ s.waiting = v.waiting \ {b}
    BY <1>2, <2>1 DEF WellSet
  <2>3. OnlySession(n, s)
    BY <1>1, <1>4, <2>1 DEF SubscribeFails
  <2> QED
    BY <1>1, <2>2, <2>3, GoesOn
<1>5. ASSUME Listen(n) PROVE ClaimInv'
  BY <1>5, FailsKeeps, PhaseMoves DEF Listen, Open
<1> QED
  BY <1>3, <1>4, <1>5

LEMMA MeasuringKeeps ==
  ASSUME ClaimInv, NEW n \in Session,
         ArmHeard(n) \/ ArmTimeout(n) \/ AwaitStop(n) \/ Finish(n) \/ FinishTimeout(n)
  PROVE  ClaimInv'
<1>1. CASE ArmHeard(n) \/ AwaitStop(n)
  BY <1>1, PhaseMoves DEF ArmHeard, AwaitStop, Open
<1>2. CASE Finish(n) \/ FinishTimeout(n)
  BY <1>2, FailsKeeps DEF Finish, FinishTimeout, Open
<1>3. CASE ArmTimeout(n)
  <2>1. Open(n) /\ sess[n].flow \in Flow
    BY <1>3 DEF ArmTimeout, Open, ClaimInv, Seated
  <2>2. PICK d : d = Deaf(sess[n].flow, n)
    OBVIOUS
  <2>3. PICK w : w = [d EXCEPT !.heard = sess[n].run.heard, !.overflowed = sess[n].run.overflowed]
    OBVIOUS
  <2>4. WellKept(d) /\ d.task = flow[sess[n].flow].task
        /\ d.sid \in {0, flow[sess[n].flow].sid} \ {n}
    BY <2>1, <2>2, DeafWindow
  <2>5. WellKept(w) /\ w.task = d.task /\ w.sid = d.sid
    BY <2>3, <2>4 DEF WellKept
  <2>6. End(n, "no_press", w)
    BY <1>3, <2>2, <2>3 DEF ArmTimeout
  <2> QED
    BY <2>1, <2>4, <2>5, <2>6, ComesToItsEnd
<1> QED
  BY <1>1, <1>2, <1>3

LEMMA ChooseKeeps ==
  ASSUME ClaimInv, NEW n \in Session, Open(n), NEW choice, Choose(n, choice)
  PROVE  ClaimInv'
<1>1. CASE First(n)
  <2>1. PICK v : v = sess[n]
    OBVIOUS
  <2>2. WellSet(v)
    BY <2>1 DEF ClaimInv, Formed
  <2>3. PICK s : s = [v EXCEPT !.phase = "settling", !.choice = choice,
                               !.future = IF @ = "open" THEN "cancelled" ELSE @]
    OBVIOUS
  <2>4. WellSet(s) /\ s.flow = v.flow /\ s.phase = "settling" /\ s.subs = v.subs
        /\ s.waiting = v.waiting
    BY <2>2, <2>3 DEF WellSet
  <2>5. OnlySession(n, s)
    BY <1>1, <2>1, <2>3 DEF Choose
  <2> QED
    BY <2>1, <2>4, <2>5, GoesOn
<1>2. CASE ~First(n)
  BY <1>2, AdoptKeeps DEF Choose
<1> QED
  BY <1>1, <1>2

LEMMA LearningKeeps ==
  ASSUME ClaimInv, NEW n \in Session, Won(n) \/ CaptureTimeout(n) \/ Settled(n)
  PROVE  ClaimInv'
<1>1. Open(n)
  BY DEF Won, CaptureTimeout, Settled, Open
<1> QED
  BY <1>1, ChooseKeeps, FailsKeeps, AdoptKeeps DEF Won, CaptureTimeout, Settled

\* Whatever it makes of a copy, a session stays where it is.
Stays(s, t) ==
  /\ WellSet(t) /\ t.flow = s.flow /\ t.phase = s.phase
  /\ t.subs = s.subs /\ t.waiting = s.waiting

LEMMA HeedingStays ==
  ASSUME NEW n, WellSet(sess[n]), NEW copy
  PROVE  Stays(sess[n], Heeded(n, copy))
<1>1. PICK s : s = sess[n]
  OBVIOUS
<1>2. WellSet(s)
  BY <1>1
<1>3. PICK t : t = Heeded(n, copy)
  OBVIOUS
<1> DEFINE press == made[copy.press]
           own == Who(press) = <<flow[s.flow].remote, OwnSel>>
           known == s.ears \cup {copy.press}
<1>4. CASE s.future # "open" \/ (own /\ press.button \notin Buttons)
  <2>1. t = s
    BY <1>1, <1>3, <1>4 DEF Heeded, Buttons
  <2> QED
    BY <1>1, <1>2, <1>3, <2>1 DEF Stays
<1>5. CASE s.future = "open" /\ ~own
  <2>1. PICK run : t = [s EXCEPT !.run = run, !.ears = known]
    BY <1>1, <1>3, <1>5 DEF Heeded
  <2>2. Stays(s, t)
    BY <1>2, <2>1 DEF Stays, WellSet
  <2> QED
    BY <1>1, <1>3, <2>2
<1>6. CASE s.future = "open" /\ own /\ press.button \in Directions
  <2>1. PICK run, armed : t = [s EXCEPT !.run = run, !.ears = known, !.armed = armed]
    BY <1>1, <1>3, <1>6 DEF Heeded, Buttons
  <2>2. Stays(s, t)
    BY <1>2, <2>1 DEF Stays, WellSet
  <2> QED
    BY <1>1, <1>3, <2>2
<1>7. CASE s.future = "open" /\ own /\ press.button \in Buttons \ Directions
  <2>1. PICK kept : kept = [s EXCEPT !.run = OfferStop(@, copy)]
    OBVIOUS
  <2>2. Stays(s, kept)
    BY <1>2, <2>1 DEF Stays, WellSet
  <2>3. \/ \E e : t = [kept EXCEPT !.ears = e]
        \/ \E e, o : t = [kept EXCEPT !.ears = e, !.old = o]
        \/ \E e, r : t = [kept EXCEPT !.ears = e, !.result = r, !.future = "set"]
    BY <1>1, <1>3, <1>7, <2>1 DEF Heeded
  <2>4. WellSet(kept)
    BY <2>2 DEF Stays
  <2>5. ASSUME NEW e, t = [kept EXCEPT !.ears = e] PROVE Stays(kept, t)
    BY <2>4, <2>5 DEF Stays, WellSet
  <2>6. ASSUME NEW e, NEW o, t = [kept EXCEPT !.ears = e, !.old = o] PROVE Stays(kept, t)
    BY <2>4, <2>6 DEF Stays, WellSet
  <2>7. ASSUME NEW e, NEW r, t = [kept EXCEPT !.ears = e, !.result = r, !.future = "set"]
        PROVE  Stays(kept, t)
    BY <2>4, <2>7 DEF Stays, WellSet
  <2>8. Stays(kept, t)
    BY <2>3, <2>5, <2>6, <2>7
  <2> QED
    BY <1>1, <1>3, <2>2, <2>8 DEF Stays
<1> QED
  BY <1>4, <1>5, <1>6, <1>7

LEMMA LearningStays ==
  ASSUME NEW n, WellSet(sess[n]), NEW copy
  PROVE  Stays(sess[n], Learned(n, copy))
<1>1. PICK s : s = sess[n]
  OBVIOUS
<1>2. WellSet(s)
  BY <1>1
<1>3. PICK t : t = Learned(n, copy)
  OBVIOUS
<1>4. \E attempt, future, ears :
        t = [s EXCEPT !.attempt = attempt, !.future = future, !.ears = ears]
  BY <1>1, <1>3 DEF Learned
<1>5. Stays(s, t)
  BY <1>2, <1>4 DEF Stays, WellSet
<1> QED
  BY <1>1, <1>3, <1>5

LEMMA AirKeeps ==
  ASSUME ClaimInv,
         \/ \E frame : Press(frame)
         \/ \E b \in Bridge : Deliver(b) \/ Reboot(b)
         \/ Tick
         \/ UNCHANGED vars
  PROVE  ClaimInv'
<1>1. \A n \in Session : WellSet(sess[n])
  BY DEF ClaimInv, Formed
<1>2. CASE UNCHANGED <<cast, owner, flow, sess>>
  BY <1>1, <1>2, QuietKeeps DEF Quiet, Continues, ClaimInv, Formed
<1>3. ASSUME NEW b \in Bridge, Deliver(b) PROVE ClaimInv'
  <2>1. /\ cast' = cast /\ owner' = owner /\ flow' = flow /\ DOMAIN sess' = Session
        /\ \A n \in Session : \/ sess'[n] = sess[n]
                              \/ \E copy : sess'[n] = Heeded(n, copy)
                              \/ \E copy : sess'[n] = Learned(n, copy)
    BY <1>3 DEF Deliver
  <2>2. \A n \in Session : Stays(sess[n], sess'[n])
    BY <1>1, <2>1, HeedingStays, LearningStays DEF Stays
  <2>3. \A n \in Session : Continues(n)
    BY <2>2 DEF Stays, Continues
  <2> QED
    BY <2>1, <2>3, QuietKeeps DEF Quiet
<1>4. CASE (\E frame : Press(frame)) \/ (\E b \in Bridge : Reboot(b)) \/ Tick \/ UNCHANGED vars
  BY <1>2, <1>4 DEF Press, Reboot, Tick, vars
<1> QED
  BY <1>3, <1>4

LEMMA WindowStepKeeps ==
  ASSUME ClaimInv, NEW f \in Flow, Report(f) \/ Leave(f)
  PROVE  ClaimInv'
<1>1. PICK v : v = flow[f]
  OBVIOUS
<1>2. WellKept(v)
  BY <1>1 DEF ClaimInv, Formed
<1>3. CASE Report(f)
  <2>1. PICK w : w = [v EXCEPT !.task = 0, !.outcome = sess[v.task].outcome,
                               !.rows = IF sess[v.task].outcome = "measured"
                                        THEN Append(@, sess[v.task].result) ELSE @]
    OBVIOUS
  <2>2. WellKept(w) /\ w.task = 0 /\ w.sid = v.sid
    BY <1>2, <2>1 DEF WellKept
  <2>3. v.sid = 0
    BY <1>1, <1>3 DEF Report, ClaimInv, Claims, Open
  <2>4. flow' = [flow EXCEPT ![f] = w] /\ cast' = cast /\ owner' = owner /\ sess' = sess
    BY <1>1, <1>3, <2>1 DEF Report
  <2> QED
    BY <2>2, <2>3, <2>4, WindowKeeps
<1>4. CASE Leave(f)
  <2>1. PICK w : w = [v EXCEPT !.gone = TRUE, !.sid = 0]
    OBVIOUS
  <2>2. WellKept(w) /\ w.task = v.task /\ w.sid = 0
    BY <1>2, <2>1 DEF WellKept
  <2>3. CASE v.task # 0 /\ Open(v.task)
    <3>1. End(v.task, "removed", w)
      BY <1>1, <1>4, <2>1, <2>3 DEF Leave
    <3>2. v.task \in Session /\ sess[v.task].flow = f
      BY <1>1, <2>3 DEF ClaimInv, Claims
    <3> QED
      BY <1>1, <2>2, <2>3, <3>1, <3>2, ComesToItsEnd
  <2>4. CASE ~(v.task # 0 /\ Open(v.task))
    <3>1. flow' = [flow EXCEPT ![f] = w] /\ cast' = cast /\ owner' = owner /\ sess' = sess
      BY <1>1, <1>4, <2>1, <2>4 DEF Leave
    <3> QED
      BY <1>1, <2>2, <3>1, WindowKeeps
  <2> QED
    BY <2>3, <2>4
<1> QED
  BY <1>3, <1>4

LEMMA ClaimStep ==
  ASSUME ClaimInv, [Next]_vars
  PROVE  ClaimInv'
<1>1. ASSUME NEW f \in Flow, Start(f) \/ Redo(f) \/ UseHeard(f) PROVE ClaimInv'
  BY <1>1, BeginKeeps DEF Start, Redo, UseHeard
<1>2. ASSUME NEW f \in Flow, Report(f) \/ Leave(f) PROVE ClaimInv'
  BY <1>2, WindowStepKeeps
<1>3. ASSUME NEW n \in Session, Goes(n) PROVE ClaimInv'
  BY <1>3, ArmingKeeps, StopsEndKeeps, MeasuringKeeps, LearningKeeps DEF Goes
<1> QED
  BY <1>1, <1>2, <1>3, AirKeeps DEF Next

\* Claims, sessions and windows agree in every reachable state: no bridge is
\* heard through without being claimed, none by two sessions at a time, and
\* none stays claimed by a session that is over, wherever in its two tasks or in
\* the gap between them a measurement is left (_claim_sniff_channels,
\* _async_stop_sniff_channels, async_remove).
THEOREM ClaimsAgree == Spec => []Claims
<1>1. Init => ClaimInv
  BY InitClaims
<1>2. ClaimInv /\ [Next]_vars => ClaimInv'
  BY ClaimStep
<1>3. ClaimInv => Claims
  BY DEF ClaimInv
<1> QED
  BY <1>1, <1>2, <1>3, PTL DEF Spec
----------------------------------------------------------------------------
(* Lists. *)

IsList(s) == s \in Seq(Range(s))

LEMMA ListAppend ==
  ASSUME NEW s, IsList(s), NEW x
  PROVE  /\ IsList(Append(s, x)) /\ Len(Append(s, x)) = Len(s) + 1
         /\ Range(Append(s, x)) = Range(s) \cup {x}
         /\ \A i \in 1..Len(s) : Append(s, x)[i] = s[i]
         /\ Append(s, x)[Len(s) + 1] = x
<1> DEFINE X == Range(s) \cup {x}
<1>1. s \in Seq(X) /\ x \in X
  BY DEF IsList
<1> HIDE DEF X
<1>2. Append(s, x) \in Seq(X) /\ Range(Append(s, x)) = Range(s) \cup {x}
  BY <1>1, AppendKeeps
<1>3. IsList(Append(s, x))
  BY <1>2 DEF IsList, X
<1> QED
  BY <1>1, <1>2, <1>3

LEMMA ListTail ==
  ASSUME NEW s, IsList(s), Len(s) > 0
  PROVE  /\ IsList(Tail(s)) /\ Len(Tail(s)) = Len(s) - 1
         /\ Range(Tail(s)) \subseteq Range(s)
         /\ \A i \in 1..(Len(s) - 1) : Tail(s)[i] = s[i + 1]
         /\ Head(s) = s[1] /\ Head(s) \in Range(s)
<1>a. PICK X : X = Range(s)
  OBVIOUS
<1>b. PICK t : t = Tail(s)
  OBVIOUS
<1>1. s \in Seq(X)
  BY <1>a DEF IsList
<1>2. t \in Seq(X) /\ Len(t) = Len(s) - 1 /\ \A i \in 1..(Len(s) - 1) : t[i] = s[i + 1]
  BY <1>1, <1>b
<1>3. Range(t) \subseteq Range(s)
  BY <1>1, <1>2 DEF Range
<1>4. \A i \in 1..Len(t) : t[i] \in Range(t)
  BY <1>2 DEF Range
<1>5. IsList(t)
  BY <1>2, <1>4 DEF IsList
<1>6. Head(s) = s[1] /\ Head(s) \in Range(s)
  BY <1>1 DEF Range
<1> QED
  BY <1>b, <1>2, <1>3, <1>5, <1>6

\* What Only keeps stands in the order it stood in, and is no longer.
LEMMA ListOnly ==
  ASSUME NEW s, IsList(s), NEW S, NEW t, t = Only(s, S)
  PROVE  /\ IsList(t) /\ Len(t) <= Len(s) /\ Len(t) \in Nat /\ Range(t) = Range(s) \cap S
         /\ \E e : /\ e \in [1..Len(t) -> 1..Len(s)]
                   /\ \A p \in 1..Len(t) : t[p] = s[e[p]]
                   /\ \A p, q \in 1..Len(t) : p < q => e[p] < e[q]
<1>a. PICK X : X = Range(s)
  OBVIOUS
<1>1. s \in Seq(X)
  BY <1>a DEF IsList
<1>2. PICK e : Sifts(s, S, Len(s), t, e)
  BY <1>1, OnlySifts
<1>3. t \in Seq(X) /\ Range(t) = Range(s) \cap S
  BY <1>1, OnlyKeeps
<1>4. Len(s) \in Nat /\ Len(t) \in Nat
  BY <1>1, <1>3
<1>c. /\ e \in [1..Len(t) -> 1..Len(s)]
      /\ \A p \in 1..Len(t) : t[p] = s[e[p]]
      /\ \A p, q \in 1..Len(t) : p < q => e[p] < e[q]
  BY <1>2 DEF Sifts
<1>5. \A p \in 1..Len(t) : t[p] \in Range(t)
  BY <1>3 DEF Range
<1>6. IsList(t)
  BY <1>3, <1>5 DEF IsList
<1>7. Len(t) <= Len(s)
  <2> DEFINE T == {k \in 0..Len(t) : k = 0 \/ e[k] >= k}
  <2>1. 0 \in T
    BY <1>4
  <2>2. ASSUME NEW k \in 1..Len(t), k - 1 \in T PROVE k \in T
    <3>1. e[k] \in 1..Len(s)
      BY <1>c
    <3>2. k = 1 \/ (k - 1 \in 1..Len(t) /\ e[k - 1] \in 1..Len(s) /\ e[k - 1] < e[k])
      BY <1>c, <1>4
    <3> QED
      BY <1>4, <2>2, <3>1, <3>2
  <2>3. \A k \in 0..Len(t) : k \in T
    <3> HIDE DEF T
    <3> QED
      BY <1>4, <2>1, <2>2, Induction
  <2>4. Len(t) \in T
    BY <1>4, <2>3
  <2>5. Len(t) = 0 \/ e[Len(t)] \in 1..Len(s)
    BY <1>c, <1>4
  <2> QED
    BY <1>4, <2>4, <2>5
<1> QED
  BY <1>c, <1>3, <1>4, <1>6, <1>7

----------------------------------------------------------------------------
(* What an attempt remembers, and what a window of rivals is worth. *)

AttemptFields(a) ==
  a = [action |-> a.action, measured |-> a.measured, recent |-> a.recent,
       anchor |-> a.anchor, held |-> a.held, heldWindow |-> a.heldWindow,
       won |-> a.won, window |-> a.window]

\* The presses remembered are of different signatures, in the order they were
\* last heard; no remote has more signatures than there are buttons.
Remembered(recent, t) ==
  /\ IsList(recent) /\ Len(recent) <= CandidateCap
  /\ \A i \in 1..Len(recent) :
       /\ recent[i].sig = <<recent[i].sig[1], recent[i].sig[2]>>
       /\ recent[i].sig[2] \in Buttons /\ recent[i].at \in Nat /\ recent[i].at <= t
  /\ \A i, j \in 1..Len(recent) : i < j =>
       recent[i].at <= recent[j].at /\ recent[i].sig # recent[j].sig

\* What was heard within one settle window is remembered, or so many presses
\* heard since are that no remote can have made them all.
Recalls(recent, ears, t) ==
  \A e \in ears : t - e[2] <= Settle =>
    \/ \E r \in Range(recent) : r.sig[1] = e[1] /\ e[2] <= r.at
    \/ \A who : \E r \in Range(recent) : r.sig[1] # who /\ e[2] <= r.at

\* What was heard has a time.
Dated(ears, t) == \A e \in ears : e[2] \in Nat /\ e[2] <= t

\* A window names a rival if any press was heard that is one.
Judges(w, who, ears, t) ==
  /\ w = [anchor |-> w.anchor, who |-> who, rivals |-> w.rivals]
  /\ w.anchor \in Nat /\ w.anchor <= t
  /\ w.rivals = {} => \A e \in ears :
       e[1] # who => e[2] - w.anchor > Settle \/ w.anchor - e[2] > Settle

CaptureJudged(capture, w, ears, t) ==
  capture # NoCapture => w # NoWindow /\ Judges(w, Who(capture), ears, t)

AttemptOK(a, ears, t) ==
  /\ AttemptFields(a) /\ a.action \in Buttons
  /\ a.measured = {} =>
       /\ Dated(ears, t) /\ Recalls(a.recent, ears, t)
       /\ CaptureJudged(a.won, a.window, ears, t)
       /\ CaptureJudged(a.held, a.heldWindow, ears, t)

\* A full list does not belong to one remote: it has more entries than a remote
\* has buttons.
LEMMA Crowd ==
  ASSUME NEW recent, NEW t, Remembered(recent, t), Len(recent) = CandidateCap, NEW who
  PROVE  \E r \in Range(recent) : r.sig[1] # who
<1>1. CandidateCap \in Nat /\ CandidateCap >= 4
  BY AttemptAssumption
<1>2. {1, 2, 3, 4} \subseteq 1..Len(recent) /\ \A i \in 1..Len(recent) : recent[i] \in Range(recent)
  BY <1>1 DEF Remembered, IsList, Range
<1>3. SUFFICES ASSUME \A i \in {1, 2, 3, 4} : recent[i].sig[1] = who PROVE FALSE
  BY <1>2
<1>4. \A i \in {1, 2, 3, 4} : recent[i].sig = <<who, recent[i].sig[2]>> /\ recent[i].sig[2] \in Buttons
  BY <1>2, <1>3 DEF Remembered
<1>5. ASSUME NEW i \in {1, 2, 3, 4}, NEW j \in {1, 2, 3, 4}, i < j
      PROVE  recent[i].sig[2] # recent[j].sig[2]
  <2>1. recent[i].sig # recent[j].sig
    BY <1>2, <1>5 DEF Remembered
  <2>2. recent[i].sig = <<who, recent[i].sig[2]>> /\ recent[j].sig = <<who, recent[j].sig[2]>>
    BY <1>4
  <2> QED
    BY <2>1, <2>2
<1>6. PICK b : b = [i \in {1, 2, 3, 4} |-> recent[i].sig[2]]
  OBVIOUS
<1>7. {b[1], b[2], b[3], b[4]} \subseteq {"UP", "DOWN", "STOP"}
  BY <1>4, <1>6 DEF Buttons, Directions
<1>8. b[1] # b[2] /\ b[1] # b[3] /\ b[1] # b[4] /\ b[2] # b[3] /\ b[2] # b[4] /\ b[3] # b[4]
  BY <1>5, <1>6
<1> QED
  BY <1>7, <1>8

\* The oldest press gives way only in a full list.
LEMMA RecentKeeps ==
  ASSUME NEW a, NEW t \in Nat, NEW at \in Nat, t <= at, Remembered(a.recent, t),
         NEW who, NEW b \in Buttons
  PROVE  /\ Remembered(Recent(a, <<who, b>>, at), at)
         /\ \A ears : Dated(ears, t) /\ Recalls(a.recent, ears, t) =>
              Recalls(Recent(a, <<who, b>>, at), ears \cup {<<who, at>>}, at)
<1> DEFINE sig == <<who, b>>
           S == {r \in ToSet(a.recent) : r.sig # sig /\ at - r.at <= Settle}
           new == [sig |-> sig, at |-> at]
<1>a. Settle \in Nat /\ CandidateCap \in Nat /\ CandidateCap >= 4
  BY AttemptAssumption
<1>1. PICK others : others = Only(a.recent, S)
  OBVIOUS
<1>2. PICK all : all = Append(others, new)
  OBVIOUS
<1>3. PICK r2 : r2 = Recent(a, sig, at)
  OBVIOUS
<1>4. r2 = IF Len(all) > CandidateCap THEN Tail(all) ELSE all
  BY <1>1, <1>2, <1>3 DEF Recent
<1>5. IsList(a.recent) /\ Len(a.recent) <= CandidateCap /\ Len(a.recent) \in Nat
  BY DEF Remembered, IsList
<1>6. /\ IsList(others) /\ Len(others) <= CandidateCap /\ Len(others) \in Nat
      /\ Range(others) = Range(a.recent) \cap S
  <2>1. Len(others) <= Len(a.recent) /\ Len(others) \in Nat
    BY <1>1, <1>5, ListOnly
  <2> QED
    BY <1>1, <1>5, <1>a, <2>1, ListOnly
<1> HIDE DEF S
<1>b. \E e : /\ e \in [1..Len(others) -> 1..Len(a.recent)]
             /\ \A p \in 1..Len(others) : others[p] = a.recent[e[p]]
             /\ \A p, q \in 1..Len(others) : p < q => e[p] < e[q]
  BY <1>1, <1>5, ListOnly
<1>7. PICK e : /\ e \in [1..Len(others) -> 1..Len(a.recent)]
               /\ \A p \in 1..Len(others) : others[p] = a.recent[e[p]]
               /\ \A p, q \in 1..Len(others) : p < q => e[p] < e[q]
  BY <1>b
<1>8. \A p \in 1..Len(others) : others[p] \in S
  BY <1>6 DEF Range, IsList
<1>9. /\ \A i \in 1..Len(others) :
          /\ others[i].sig = <<others[i].sig[1], others[i].sig[2]>> /\ others[i].sig # sig
          /\ others[i].sig[2] \in Buttons /\ others[i].at \in Nat /\ others[i].at <= at
      /\ \A i, j \in 1..Len(others) : i < j =>
           others[i].at <= others[j].at /\ others[i].sig # others[j].sig
  <2>1. ASSUME NEW i \in 1..Len(others)
        PROVE  /\ others[i].sig = <<others[i].sig[1], others[i].sig[2]>> /\ others[i].sig # sig
               /\ others[i].sig[2] \in Buttons /\ others[i].at \in Nat /\ others[i].at <= at
    <3>1. e[i] \in 1..Len(a.recent) /\ others[i] = a.recent[e[i]] /\ others[i].sig # sig
      BY <1>7, <1>8 DEF S
    <3> QED
      BY <3>1 DEF Remembered
  <2>2. ASSUME NEW i \in 1..Len(others), NEW j \in 1..Len(others), i < j
        PROVE  others[i].at <= others[j].at /\ others[i].sig # others[j].sig
    <3>1. PICK p, q : p = e[i] /\ q = e[j]
      OBVIOUS
    <3>2. p \in 1..Len(a.recent) /\ q \in 1..Len(a.recent) /\ p < q
      BY <1>7, <2>2, <3>1
    <3>3. others[i] = a.recent[p] /\ others[j] = a.recent[q]
      BY <1>7, <3>1
    <3> QED
      BY <3>2, <3>3 DEF Remembered
  <2> QED
    BY <2>1, <2>2
<1>10. /\ IsList(all) /\ Len(all) = Len(others) + 1 /\ Range(all) = Range(others) \cup {new}
       /\ \A i \in 1..Len(others) : all[i] = others[i]
       /\ all[Len(others) + 1] = new
  BY <1>2, <1>6, ListAppend
<1>11. new.sig = <<who, b>> /\ new.at = at
  OBVIOUS
<1> HIDE DEF new
<1>12. /\ \A i \in 1..Len(all) :
           /\ all[i].sig = <<all[i].sig[1], all[i].sig[2]>>
           /\ all[i].sig[2] \in Buttons /\ all[i].at \in Nat /\ all[i].at <= at
       /\ \A i, j \in 1..Len(all) : i < j =>
            all[i].at <= all[j].at /\ all[i].sig # all[j].sig
  <2>1. \A i \in 1..Len(all) : i \in 1..Len(others) \/ i = Len(others) + 1
    BY <1>6, <1>10
  <2>2. new.sig = <<new.sig[1], new.sig[2]>> /\ new.sig[2] \in Buttons
    BY <1>11
  <2>3. ASSUME NEW i \in 1..Len(all), NEW j \in 1..Len(all), i < j
        PROVE  all[i].at <= all[j].at /\ all[i].sig # all[j].sig
    <3>1. i \in 1..Len(others)
      BY <1>6, <1>10, <2>3
    <3> QED
      BY <1>9, <1>10, <1>11, <2>1, <2>3, <3>1
  <2>4. ASSUME NEW i \in 1..Len(all)
        PROVE  /\ all[i].sig = <<all[i].sig[1], all[i].sig[2]>>
               /\ all[i].sig[2] \in Buttons /\ all[i].at \in Nat /\ all[i].at <= at
    BY <1>9, <1>10, <1>11, <2>1, <2>2
  <2> QED
    BY <2>3, <2>4
<1> DEFINE Kept ==
       /\ Remembered(r2, at) /\ new \in Range(r2)
       /\ \A r \in Range(all) : \/ r \in Range(r2)
                                \/ Len(r2) = CandidateCap /\ \A q \in Range(r2) : r.at <= q.at
<1>13. ASSUME Len(all) > CandidateCap PROVE Kept
  <2>1. r2 = Tail(all) /\ Len(all) = CandidateCap + 1 /\ Len(all) > 0
    BY <1>4, <1>6, <1>10, <1>13, <1>a
  <2>2. /\ IsList(r2) /\ Len(r2) = CandidateCap /\ Range(r2) \subseteq Range(all)
        /\ \A i \in 1..CandidateCap : r2[i] = all[i + 1]
    BY <1>10, <1>a, <2>1, ListTail
  <2>3. Remembered(r2, at)
    <3>1. \A i \in 1..CandidateCap : i + 1 \in 1..Len(all)
      BY <1>a, <2>1
    <3>2. ASSUME NEW i \in 1..Len(r2)
          PROVE  /\ r2[i].sig = <<r2[i].sig[1], r2[i].sig[2]>>
                 /\ r2[i].sig[2] \in Buttons /\ r2[i].at \in Nat /\ r2[i].at <= at
      BY <1>12, <2>2, <3>1
    <3>3. ASSUME NEW i \in 1..Len(r2), NEW j \in 1..Len(r2), i < j
          PROVE  r2[i].at <= r2[j].at /\ r2[i].sig # r2[j].sig
      BY <1>12, <2>2, <3>1, <3>3
    <3> QED
      BY <1>a, <2>2, <3>2, <3>3 DEF Remembered
  <2>4. \A i \in 1..CandidateCap : r2[i] \in Range(r2)
    BY <2>2 DEF Range, IsList
  <2>5. new \in Range(r2)
    BY <1>10, <1>a, <2>1, <2>2, <2>4
  <2>6. \A r \in Range(r2) : \E i \in 1..CandidateCap : r = r2[i]
    BY <2>2 DEF Range, IsList
  <2>7. \A r \in Range(r2) : all[1].at <= r.at
    BY <1>12, <1>a, <2>1, <2>2, <2>6
  <2>8. ASSUME NEW r \in Range(all), r \notin Range(r2)
        PROVE  \A q \in Range(r2) : r.at <= q.at
    <3>1. PICK i \in 1..Len(all) : r = all[i]
      BY <1>10 DEF Range, IsList
    <3>2. i # 1 => i - 1 \in 1..CandidateCap /\ r2[i - 1] = r
      BY <1>a, <2>1, <2>2, <3>1
    <3> QED
      BY <2>4, <2>7, <2>8, <3>1, <3>2
  <2> QED
    BY <2>2, <2>3, <2>5, <2>8
<1>14. ASSUME ~(Len(all) > CandidateCap) PROVE Kept
  <2>1. r2 = all /\ Len(all) <= CandidateCap
    BY <1>4, <1>6, <1>10, <1>14, <1>a
  <2> QED
    BY <1>10, <1>12, <2>1 DEF Remembered
<1>15. Kept
  BY <1>13, <1>14
<1>16. ASSUME NEW ears, Dated(ears, t), Recalls(a.recent, ears, t)
       PROVE  Recalls(r2, ears \cup {<<who, at>>}, at)
  <2>1. ASSUME NEW x \in ears, at - x[2] <= Settle
        PROVE  \/ \E r \in Range(r2) : r.sig[1] = x[1] /\ x[2] <= r.at
               \/ \A w : \E r \in Range(r2) : r.sig[1] # w /\ x[2] <= r.at
    <3>1. x[2] \in Nat /\ x[2] <= t /\ t - x[2] <= Settle
      BY <1>a, <1>16, <2>1 DEF Dated
    <3>2. \A r \in Range(a.recent) : r.at \in Nat /\ r \in ToSet(a.recent)
      BY <1>5 DEF Remembered, Range, ToSet, IsList
    <3>3. \A q \in Range(r2) : q.at \in Nat
      BY <1>15 DEF Remembered, Range, IsList
    <3>4. ASSUME NEW r \in Range(a.recent), x[2] <= r.at
          PROVE  \/ \E q \in Range(r2) : q.sig = r.sig /\ x[2] <= q.at
                 \/ Len(r2) = CandidateCap /\ \A q \in Range(r2) : x[2] <= q.at
      <4>1. CASE r.sig = sig
        BY <1>11, <1>15, <3>1, <4>1
      <4>2. CASE r.sig # sig
        <5>1. at - r.at <= Settle
          BY <1>a, <2>1, <3>1, <3>2, <3>4
        <5>2. r \in Range(all)
          BY <1>6, <1>10, <3>2, <4>2, <5>1 DEF S
        <5> QED
          BY <1>15, <3>1, <3>2, <3>3, <3>4, <5>2
      <4> QED
        BY <4>1, <4>2
    <3>5. CASE Len(r2) = CandidateCap /\ \A q \in Range(r2) : x[2] <= q.at
      BY <1>15, <3>5, Crowd
    <3>6. CASE ~(Len(r2) = CandidateCap /\ \A q \in Range(r2) : x[2] <= q.at)
      <4>1. \A r \in Range(a.recent) : x[2] <= r.at =>
              \E q \in Range(r2) : q.sig = r.sig /\ x[2] <= q.at
        BY <3>4, <3>6
      <4>2. \/ \E r \in Range(a.recent) : r.sig[1] = x[1] /\ x[2] <= r.at
            \/ \A w : \E r \in Range(a.recent) : r.sig[1] # w /\ x[2] <= r.at
        BY <1>16, <3>1 DEF Recalls
      <4>3. ASSUME NEW r \in Range(a.recent), r.sig[1] = x[1], x[2] <= r.at
            PROVE  \E q \in Range(r2) : q.sig[1] = x[1] /\ x[2] <= q.at
        <5>1. PICK q \in Range(r2) : q.sig = r.sig /\ x[2] <= q.at
          BY <4>1, <4>3
        <5> QED
          BY <4>3, <5>1
      <4>4. ASSUME NEW w, NEW r \in Range(a.recent), r.sig[1] # w, x[2] <= r.at
            PROVE  \E q \in Range(r2) : q.sig[1] # w /\ x[2] <= q.at
        <5>1. PICK q \in Range(r2) : q.sig = r.sig /\ x[2] <= q.at
          BY <4>1, <4>4
        <5> QED
          BY <4>4, <5>1
      <4> QED
        BY <4>2, <4>3, <4>4
    <3> QED
      BY <3>5, <3>6
  <2>2. new \in Range(r2) /\ new.sig[1] = who /\ at <= new.at
    BY <1>11, <1>15
  <2>3. ASSUME NEW x \in ears \cup {<<who, at>>}, at - x[2] <= Settle
        PROVE  \/ \E r \in Range(r2) : r.sig[1] = x[1] /\ x[2] <= r.at
               \/ \A w : \E r \in Range(r2) : r.sig[1] # w /\ x[2] <= r.at
    <3>1. CASE x \in ears
      BY <2>1, <2>3, <3>1
    <3>2. CASE x \notin ears
      <4>1. x[1] = who /\ x[2] = at
        BY <2>3, <3>2
      <4> QED
        BY <2>2, <4>1
    <3> QED
      BY <3>1, <3>2
  <2> QED
    BY <2>3 DEF Recalls
<1> QED
  BY <1>3, <1>15, <1>16

\* A window that opens names whoever was heard just before.
LEMMA OpeningJudges ==
  ASSUME NEW a, NEW at \in Nat, Remembered(a.recent, at), NEW ears, Dated(ears, at),
         Recalls(a.recent, ears, at), NEW who
  PROVE  OpenWindow(a, who, at) # NoWindow /\ Judges(OpenWindow(a, who, at), who, ears, at)
<1> DEFINE near == {r \in ToSet(a.recent) : r.sig[1] # who /\ at - r.at <= Settle}
<1>1. PICK w : w = OpenWindow(a, who, at)
  OBVIOUS
<1>2. /\ w = [anchor |-> at, who |-> who, rivals |-> {r.sig[1] : r \in near}]
      /\ w.anchor = at /\ w.rivals = {r.sig[1] : r \in near}
  BY <1>1 DEF OpenWindow
<1>3. w # NoWindow
  BY <1>2 DEF NoWindow
<1>4. ASSUME NEW e \in ears, e[1] # who, at - e[2] <= Settle PROVE w.rivals # {}
  <2>1. e[2] \in Nat
    BY DEF Dated
  <2>2. PICK r \in Range(a.recent) : r.sig[1] # who /\ e[2] <= r.at
    BY <1>4 DEF Recalls
  <2>3. r \in ToSet(a.recent) /\ r.at \in Nat
    BY DEF Remembered, Range, ToSet, IsList
  <2>4. r \in near
    BY <1>4, <2>1, <2>2, <2>3, AttemptAssumption
  <2> QED
    BY <1>2, <2>4
<1>5. \A e \in ears : e[2] \in Nat
  BY DEF Dated
<1> HIDE DEF near
<1>6. Judges(w, who, ears, at)
  BY <1>2, <1>4, <1>5, AttemptAssumption DEF Judges
<1> QED
  BY <1>1, <1>3, <1>6

\* An open window names who is heard after it opened, unless it is full of names.
LEMMA JudgingKeeps ==
  ASSUME NEW w, NEW who, NEW ears, NEW t \in Nat, NEW at \in Nat, t <= at,
         w # NoWindow, Judges(w, who, ears, t), NEW x
  PROVE  /\ Judged(w, x, at) # NoWindow
         /\ Judges(Judged(w, x, at), who, ears \cup {<<x, at>>}, at)
<1>a. CandidateCap \in Nat /\ CandidateCap >= 4 /\ Settle \in Nat
  BY AttemptAssumption
<1>b. w = [anchor |-> w.anchor, who |-> who, rivals |-> w.rivals] /\ w.anchor \in Nat /\ w.anchor <= at
  BY DEF Judges
<1>1. PICK v : v = Judged(w, x, at)
  OBVIOUS
<1>2. CASE x # who /\ at - w.anchor <= Settle
  <2>1. v = Named(w, x)
    BY <1>b, <1>1, <1>2 DEF Judged
  <2>2. v = w \/ v = [w EXCEPT !.rivals = @ \cup {x}]
    BY <2>1 DEF Named
  <2>3. v = [anchor |-> w.anchor, who |-> who, rivals |-> v.rivals] /\ v.rivals # {}
    <3>1. CASE Cardinality(w.rivals) < CandidateCap
      BY <1>b, <2>1, <3>1 DEF Named
    <3>2. CASE ~(Cardinality(w.rivals) < CandidateCap)
      <4>1. v = w
        BY <2>1, <3>2 DEF Named
      <4>2. Cardinality({}) = 0
        BY FS_EmptySet
      <4> QED
        BY <1>a, <1>b, <3>2, <4>1, <4>2
    <3> QED
      BY <3>1, <3>2
  <2> QED
    BY <1>b, <1>1, <2>3 DEF Judges, NoWindow
<1>3. CASE ~(x # who /\ at - w.anchor <= Settle)
  <2>1. v = w
    BY <1>b, <1>1, <1>3 DEF Judged
  <2>2. x # who => at - w.anchor > Settle
    BY <1>a, <1>b, <1>3
  <2>3. Judges(w, who, ears \cup {<<x, at>>}, at)
    BY <1>b, <2>2 DEF Judges
  <2> QED
    BY <1>1, <2>1, <2>3
<1> QED
  BY <1>2, <1>3

\* Time alone changes nothing.
LEMMA TimeKeeps ==
  ASSUME NEW t \in Nat, NEW at \in Nat, t <= at
  PROVE  /\ \A recent : Remembered(recent, t) => Remembered(recent, at)
         /\ \A a, ears : AttemptOK(a, ears, t) => AttemptOK(a, ears, at)
<1>1. ASSUME NEW recent, Remembered(recent, t) PROVE Remembered(recent, at)
  BY <1>1 DEF Remembered
<1>2. ASSUME NEW w, NEW who, NEW ears, Judges(w, who, ears, t) PROVE Judges(w, who, ears, at)
  BY <1>2 DEF Judges
<1>3. ASSUME NEW a, NEW ears, AttemptOK(a, ears, t) PROVE AttemptOK(a, ears, at)
  <2>1. AttemptFields(a) /\ a.action \in Buttons
    BY <1>3 DEF AttemptOK
  <2>2. ASSUME a.measured = {}
        PROVE  /\ Dated(ears, at) /\ Recalls(a.recent, ears, at)
               /\ CaptureJudged(a.won, a.window, ears, at)
               /\ CaptureJudged(a.held, a.heldWindow, ears, at)
    <3>1. /\ Dated(ears, t) /\ Recalls(a.recent, ears, t)
          /\ CaptureJudged(a.won, a.window, ears, t) /\ CaptureJudged(a.held, a.heldWindow, ears, t)
      BY <1>3, <2>2 DEF AttemptOK
    <3>2. Dated(ears, at)
      BY <3>1 DEF Dated
    <3>3. Recalls(a.recent, ears, at)
      BY <3>1, AttemptAssumption DEF Recalls, Dated
    <3> QED
      BY <1>2, <3>1, <3>2, <3>3 DEF CaptureJudged
  <2> QED
    BY <2>1, <2>2 DEF AttemptOK
<1> QED
  BY <1>1, <1>3

\* What a frame makes of an attempt.
LEMMA FrameKeeps ==
  ASSUME NEW a, NEW ears, NEW t \in Nat, NEW press, NEW decided,
         AttemptFields(a), Remembered(a.recent, t), AttemptOK(a, ears, t),
         press.tabled \in BOOLEAN, press.tabled => press.button \in Buttons,
         NEW b, b = OfferFrame(a, press, t, decided), NEW heard,
         heard = IF a.measured = {} THEN ears \cup {<<Who(press), t>>} ELSE ears
  PROVE  /\ Remembered(b.recent, t) /\ AttemptOK(b, heard, t)
         /\ b.measured = a.measured
         /\ decided => b.won = a.won /\ b.held = a.held
<1>1. b = OfferFrame(a, press, t, decided)
  OBVIOUS
<1>2. heard = IF a.measured = {} THEN ears \cup {<<Who(press), t>>} ELSE ears
  OBVIOUS
<1>3. CASE ~Belongs(a, press)
  <2>1. b = a /\ a.measured # {}
    BY <1>1, <1>3 DEF OfferFrame, Belongs
  <2> QED
    BY <1>1, <1>2, <2>1
<1>4. CASE Belongs(a, press)
  <2>1. PICK sig : sig = Signature(a, press)
    OBVIOUS
  <2>2. PICK btn : sig = <<Who(press), btn>> /\ btn \in Buttons
    BY <2>1 DEF Signature, AttemptOK
  <2>3. PICK rec : rec = Recorded(a, sig, t)
    OBVIOUS
  <2>4. PICK recent : recent = Recent(a, sig, t)
    OBVIOUS
  <2>5. PICK hw : hw = Judged(a.heldWindow, Who(press), t)
    OBVIOUS
  <2>6. PICK ww : ww = Judged(a.window, Who(press), t)
    OBVIOUS
  <2>7. sig[1] = Who(press)
    BY <2>2
  <2>8. rec = [a EXCEPT !.recent = recent, !.heldWindow = hw, !.window = ww]
    BY <2>3, <2>4, <2>5, <2>6, <2>7 DEF Recorded
  <2>9. /\ AttemptFields(rec) /\ rec.action = a.action /\ rec.measured = a.measured
        /\ rec.recent = recent /\ rec.heldWindow = hw /\ rec.window = ww
        /\ rec.won = a.won /\ rec.held = a.held
    BY <2>8 DEF AttemptFields
  <2>10. PICK win : win = OpenWindow(rec, Who(press), t)
    OBVIOUS
  <2>11. b = Heard(a, press, t, decided)
    BY <1>1, <1>4 DEF OfferFrame
  <2>12. \/ ~decided /\ b = [rec EXCEPT !.anchor = t, !.won = press, !.window = win]
         \/ ~decided /\ b = [rec EXCEPT !.anchor = t, !.held = press, !.heldWindow = win]
         \/ b = rec
    BY <2>1, <2>3, <2>10, <2>11 DEF Heard
  <2>13. Remembered(recent, t)
         /\ (Dated(ears, t) /\ Recalls(a.recent, ears, t) =>
               Recalls(recent, ears \cup {<<Who(press), t>>}, t))
    BY <2>2, <2>4, RecentKeeps
  <2>14. /\ AttemptFields(b) /\ b.action = a.action /\ b.measured = a.measured /\ b.recent = recent
         /\ decided => b.won = a.won /\ b.held = a.held
         /\ \/ b.won = a.won /\ b.window = ww
            \/ b.won = press /\ b.window = win
         /\ \/ b.held = a.held /\ b.heldWindow = hw
            \/ b.held = press /\ b.heldWindow = win
    <3>1. ASSUME ~decided, b = [rec EXCEPT !.anchor = t, !.won = press, !.window = win]
          PROVE  AttemptFields(b) /\ b.action = rec.action /\ b.measured = rec.measured
                 /\ b.recent = rec.recent /\ b.won = press /\ b.window = win
                 /\ b.held = rec.held /\ b.heldWindow = rec.heldWindow
      BY <2>9, <3>1 DEF AttemptFields
    <3>2. ASSUME ~decided, b = [rec EXCEPT !.anchor = t, !.held = press, !.heldWindow = win]
          PROVE  AttemptFields(b) /\ b.action = rec.action /\ b.measured = rec.measured
                 /\ b.recent = rec.recent /\ b.held = press /\ b.heldWindow = win
                 /\ b.won = rec.won /\ b.window = rec.window
      BY <2>9, <3>2 DEF AttemptFields
    <3> QED
      BY <2>9, <2>12, <3>1, <3>2
  <2>15. ASSUME a.measured = {}
         PROVE  /\ Dated(heard, t) /\ Recalls(b.recent, heard, t)
                /\ CaptureJudged(b.won, b.window, heard, t)
                /\ CaptureJudged(b.held, b.heldWindow, heard, t)
    <3>1. heard = ears \cup {<<Who(press), t>>}
      BY <1>2, <2>15
    <3>2. /\ Dated(ears, t) /\ Recalls(a.recent, ears, t)
          /\ CaptureJudged(a.won, a.window, ears, t) /\ CaptureJudged(a.held, a.heldWindow, ears, t)
      BY <2>15 DEF AttemptOK
    <3>3. Dated(heard, t)
      BY <3>1, <3>2 DEF Dated
    <3>4. Recalls(recent, heard, t)
      BY <2>13, <3>1, <3>2
    <3>5. win # NoWindow /\ Judges(win, Who(press), heard, t)
      BY <2>9, <2>10, <2>13, <3>3, <3>4, OpeningJudges
    <3>6. /\ CaptureJudged(a.won, ww, heard, t) /\ CaptureJudged(a.held, hw, heard, t)
      BY <2>5, <2>6, <3>1, <3>2, JudgingKeeps DEF CaptureJudged
    <3> QED
      BY <2>14, <3>3, <3>4, <3>5, <3>6 DEF CaptureJudged
  <2>16. AttemptOK(b, heard, t)
    BY <2>14, <2>15 DEF AttemptOK
  <2> QED
    BY <1>1, <1>2, <2>13, <2>14, <2>16
<1> QED
  BY <1>3, <1>4

----------------------------------------------------------------------------
(* Sessions and windows. *)

RunOK(r) ==
  /\ r = [wanted |-> r.wanted, started |-> r.started, anchored |-> r.anchored,
          heard |-> r.heard, overflowed |-> r.overflowed, recent |-> r.recent]
  /\ IsList(r.heard) /\ Len(r.heard) <= HeardCap

\* Copies are of presses, and presses of frames.
Heralded ==
  /\ now \in Nat /\ IsList(made)
  /\ \A i \in 1..Len(made) :
       made[i].tabled \in BOOLEAN /\ (made[i].tabled => made[i].button \in Buttons)
  /\ DOMAIN wire = Bridge
  /\ \A b \in Bridge : IsList(wire[b]) /\ \A c \in Range(wire[b]) : c.press \in 1..Len(made)

SessionTyped(s, t) ==
  /\ RunOK(s.run) /\ s.live \subseteq Bridge /\ s.future \in {"open", "set", "cancelled"}
  /\ AttemptFields(s.attempt) /\ Remembered(s.attempt.recent, t)

Picked(s) == IF s.choice = "won" THEN s.attempt.won ELSE s.attempt.held
PickedWindow(s) == IF s.choice = "won" THEN s.attempt.window ELSE s.attempt.heldWindow

\* A recognised capture resolves the attempt; the first one adopted was captured,
\* and its own window names nobody.
Learns(s, t) ==
  /\ AttemptOK(s.attempt, s.ears, t)
  /\ s.future = "set" => s.attempt.won # NoCapture
  /\ s.phase = "settling" => s.future # "open"
  /\ s.outcome # "no_press"
  /\ s.phase = "settling" \/ (s.attempt.measured = {} /\ s.outcome = "captured") =>
       s.choice \in {"won", "held"} /\ Picked(s) # NoCapture
  /\ s.attempt.measured = {} /\ s.outcome = "captured" => ~Contested(PickedWindow(s))

Begun(n) == sess[n].phase # "idle"
Latest(n) == \A m \in Session : Begun(m) /\ sess[m].flow = sess[n].flow => m <= n

\* A session that is not over is its window's task, and says nothing yet.
Attended(n) ==
  /\ sess[n].phase \notin {"idle", "over"} => flow[sess[n].flow].task = n
  /\ sess[n].phase \notin {"stopping", "over"} => sess[n].outcome = "none"

\* The session a window is busy with, or reports to have heard no press in time.
Current(n) ==
  LET w == flow[sess[n].flow]
  IN  w.task = n \/ (w.task = 0 /\ w.outcome = "no_press" /\ Latest(n))

\* Presses of another remote than the cover's are named in the list, if it has
\* not overflowed.
Names(n, i) ==
  \/ Who(made[i]) = <<flow[sess[n].flow].remote, OwnSel>>
  \/ sess[n].run.overflowed
  \/ <<Who(made[i]), Inferred(made[i])>> \in Range(sess[n].run.heard)

Hearing(n) ==
  /\ sess[n].ears \cup sess[n].old \subseteq 1..Len(made)
  /\ Current(n) => \A i \in sess[n].ears \cup sess[n].old : Names(n, i)

SessionOK(n) ==
  /\ SessionTyped(sess[n], now) /\ Attended(n)
  /\ Begun(n) /\ Measures(n) => Hearing(n)
  /\ Begun(n) /\ ~Measures(n) => Learns(sess[n], now)

\* What a window shows of its last session.
Shows(w, n) == w.heard = sess[n].run.heard /\ w.overflowed = sess[n].run.overflowed

\* A remote adopted from a measurement is the only one it rejected.
AdoptedOK(a) ==
  /\ a.by \in Session /\ sess[a.by].phase = "over" /\ Measures(a.by)
  /\ \A i \in sess[a.by].ears \cup sess[a.by].old :
       Who(made[i]) = <<a.stored, OwnSel>> \/ made[i].remote = a.remote

WindowOK(f) ==
  LET w == flow[f]
  IN  /\ IsList(w.heard) /\ Len(w.heard) <= HeardCap
      /\ w.task # 0 => Latest(w.task)
      /\ w.task # 0 /\ sess[w.task].outcome = "no_press" => Measures(w.task) /\ Shows(w, w.task)
      /\ w.task = 0 /\ w.outcome = "no_press" =>
           \E n \in Session : /\ sess[n].phase = "over" /\ sess[n].flow = f /\ Latest(n)
                              /\ Measures(n) /\ Shows(w, n)
      /\ IsList(w.adopted) /\ \A a \in Range(w.adopted) : AdoptedOK(a)

WizardInv ==
  /\ ClaimInv /\ Heralded
  /\ \A n \in Session : SessionOK(n)
  /\ \A f \in Flow : WindowOK(f)

----------------------------------------------------------------------------
(* What the heard list keeps. *)

LEMMA MismatchKeeps ==
  ASSUME NEW r, RunOK(r), NEW sig, NEW q, q = RecordMismatch(r, sig)
  PROVE  /\ RunOK(q) /\ Range(r.heard) \subseteq Range(q.heard)
         /\ r.overflowed => q.overflowed
         /\ sig \in Range(q.heard) \/ q.overflowed
<1>1. CASE Contains(r.heard, sig)
  <2>1. q = r /\ sig \in Range(r.heard)
    BY <1>1 DEF RecordMismatch, Contains, RunOK, IsList, Range
  <2> QED
    BY <2>1
<1>2. CASE ~Contains(r.heard, sig) /\ Len(r.heard) >= HeardCap
  <2>1. q = [r EXCEPT !.overflowed = TRUE]
    BY <1>2 DEF RecordMismatch
  <2> QED
    BY <2>1 DEF RunOK
<1>3. CASE ~Contains(r.heard, sig) /\ ~(Len(r.heard) >= HeardCap)
  <2>1. PICK h : h = Append(r.heard, sig)
    OBVIOUS
  <2>2. q = [r EXCEPT !.heard = h]
    BY <1>3, <2>1 DEF RecordMismatch
  <2>3. IsList(h) /\ Len(h) = Len(r.heard) + 1 /\ Range(h) = Range(r.heard) \cup {sig}
    BY <2>1, ListAppend DEF RunOK
  <2>4. Len(h) <= HeardCap
    <3>1. Len(r.heard) \in Nat /\ HeardCap \in Nat
      BY TravelAssumption DEF RunOK, IsList
    <3> QED
      BY <1>3, <2>3, <3>1
  <2>5. /\ q = [wanted |-> q.wanted, started |-> q.started, anchored |-> q.anchored,
                heard |-> q.heard, overflowed |-> q.overflowed, recent |-> q.recent]
        /\ q.heard = h /\ q.overflowed = r.overflowed
    BY <2>2 DEF RunOK
  <2> QED
    BY <2>3, <2>4, <2>5 DEF RunOK
<1> QED
  BY <1>1, <1>2, <1>3

LEMMA RunKeeps ==
  ASSUME NEW r, RunOK(r), NEW copy, NEW q,
         q = OfferDirection(r, copy) \/ q = OfferStop(r, copy)
  PROVE  RunOK(q) /\ q.heard = r.heard /\ q.overflowed = r.overflowed
<1>1. PICK p : p = Stamped(r, copy)
  OBVIOUS
<1>2. RunOK(p) /\ p.heard = r.heard /\ p.overflowed = r.overflowed
  BY <1>1 DEF Stamped, RunOK
<1>3. \/ q = p
      \/ \E x, y : q = [p EXCEPT !.started = x, !.anchored = y]
  <2>1. CASE q = OfferDirection(r, copy)
    BY <1>1, <2>1 DEF OfferDirection, Opened
  <2>2. CASE q = OfferStop(r, copy)
    BY <1>1, <2>2 DEF OfferStop, Closed
  <2> QED
    BY <2>1, <2>2
<1>4. ASSUME NEW x, NEW y, q = [p EXCEPT !.started = x, !.anchored = y]
      PROVE  RunOK(q) /\ q.heard = p.heard /\ q.overflowed = p.overflowed
  BY <1>2, <1>4 DEF RunOK
<1> QED
  BY <1>2, <1>3, <1>4

\* What a measurement makes of a copy: a press of another remote is named, or
\* the list has overflowed.
Heeds(s, t, press, i, remote) ==
  /\ t.live = s.live /\ t.attempt = s.attempt /\ t.outcome = s.outcome
  /\ t.future \in {"open", "set", "cancelled"} /\ RunOK(t.run)
  /\ Range(s.run.heard) \subseteq Range(t.run.heard) /\ (s.run.overflowed => t.run.overflowed)
  /\ t.ears \cup t.old \subseteq s.ears \cup s.old \cup {i}
  /\ i \in t.ears \cup t.old => \/ i \in s.ears \cup s.old
                                \/ Who(press) = <<remote, OwnSel>>
                                \/ <<Who(press), Inferred(press)>> \in Range(t.run.heard)
                                \/ t.run.overflowed

LEMMA HeedingKeeps ==
  ASSUME NEW n, WellSet(sess[n]), RunOK(sess[n].run), NEW copy,
         sess[n].future \in {"open", "set", "cancelled"}
  PROVE  Heeds(sess[n], Heeded(n, copy), made[copy.press], copy.press, flow[sess[n].flow].remote)
<1>1. PICK s : s = sess[n]
  OBVIOUS
<1>2. WellSet(s) /\ RunOK(s.run) /\ s.future \in {"open", "set", "cancelled"}
  BY <1>1
<1>3. PICK t : t = Heeded(n, copy)
  OBVIOUS
<1>4. PICK i : i = copy.press
  OBVIOUS
<1>5. PICK press : press = made[i]
  OBVIOUS
<1>6. PICK remote : remote = flow[s.flow].remote
  OBVIOUS
<1> DEFINE own == Who(press) = <<remote, OwnSel>>
           known == s.ears \cup {i}
<1>7. CASE s.future # "open" \/ (own /\ press.button \notin Buttons)
  <2>1. t = s
    BY <1>1, <1>3, <1>4, <1>5, <1>6, <1>7 DEF Heeded, Buttons
  <2> QED
    BY <1>1, <1>2, <1>3, <1>4, <1>5, <1>6, <2>1 DEF Heeds
<1>8. CASE s.future = "open" /\ ~own
  <2>1. PICK sig : sig = <<Who(press), Inferred(press)>>
    OBVIOUS
  <2>2. PICK run : run = RecordMismatch(s.run, sig)
    OBVIOUS
  <2>3. t = [s EXCEPT !.run = run, !.ears = known]
    BY <1>1, <1>3, <1>4, <1>5, <1>6, <1>8, <2>1, <2>2 DEF Heeded
  <2>4. /\ RunOK(run) /\ Range(s.run.heard) \subseteq Range(run.heard)
        /\ s.run.overflowed => run.overflowed
        /\ sig \in Range(run.heard) \/ run.overflowed
    BY <1>2, <2>2, MismatchKeeps
  <2>5. /\ t.live = s.live /\ t.attempt = s.attempt /\ t.outcome = s.outcome
        /\ t.future = s.future /\ t.run = run /\ t.ears = known /\ t.old = s.old
    BY <1>2, <2>3 DEF WellSet
  <2>6. Heeds(s, t, press, i, remote)
    BY <1>2, <2>1, <2>4, <2>5 DEF Heeds
  <2> QED
    BY <1>1, <1>3, <1>4, <1>5, <1>6, <2>6
<1>9. CASE s.future = "open" /\ own /\ press.button \in Directions
  <2>1. PICK run : run = OfferDirection(s.run, copy)
    OBVIOUS
  <2>2. PICK armed : t = [s EXCEPT !.run = run, !.ears = known, !.armed = armed]
    BY <1>1, <1>3, <1>4, <1>5, <1>6, <1>9, <2>1 DEF Heeded, Buttons
  <2>3. RunOK(run) /\ run.heard = s.run.heard /\ run.overflowed = s.run.overflowed
    BY <1>2, <2>1, RunKeeps
  <2>4. /\ t.live = s.live /\ t.attempt = s.attempt /\ t.outcome = s.outcome
        /\ t.future = s.future /\ t.run = run /\ t.ears = known /\ t.old = s.old
    BY <1>2, <2>2 DEF WellSet
  <2>5. Heeds(s, t, press, i, remote)
    BY <1>2, <1>9, <2>3, <2>4 DEF Heeds
  <2> QED
    BY <1>1, <1>3, <1>4, <1>5, <1>6, <2>5
<1>10. CASE s.future = "open" /\ own /\ press.button \in Buttons \ Directions
  <2>1. PICK run : run = OfferStop(s.run, copy)
    OBVIOUS
  <2>2. PICK kept : kept = [s EXCEPT !.run = run]
    OBVIOUS
  <2>3. RunOK(run) /\ run.heard = s.run.heard /\ run.overflowed = s.run.overflowed
    BY <1>2, <2>1, RunKeeps
  <2>4. /\ WellSet(kept) /\ kept.live = s.live /\ kept.attempt = s.attempt
        /\ kept.outcome = s.outcome /\ kept.future = s.future /\ kept.run = run
        /\ kept.ears = s.ears /\ kept.old = s.old
    BY <1>2, <2>2 DEF WellSet
  <2>5. \/ t = [kept EXCEPT !.ears = known]
        \/ t = [kept EXCEPT !.ears = {}, !.old = @ \cup known]
        \/ \E r : t = [kept EXCEPT !.ears = known, !.result = r, !.future = "set"]
    BY <1>1, <1>3, <1>4, <1>5, <1>6, <1>10, <2>1, <2>2 DEF Heeded
  <2>6. /\ t.live = s.live /\ t.attempt = s.attempt /\ t.outcome = s.outcome
        /\ t.future \in {s.future, "set"} /\ t.run = run
        /\ t.ears \cup t.old \subseteq s.ears \cup s.old \cup {i}
    <3>1. ASSUME t = [kept EXCEPT !.ears = known]
          PROVE  /\ t.live = s.live /\ t.attempt = s.attempt /\ t.outcome = s.outcome
                 /\ t.future = s.future /\ t.run = run /\ t.ears = known /\ t.old = s.old
      BY <2>4, <3>1 DEF WellSet
    <3>2. ASSUME t = [kept EXCEPT !.ears = {}, !.old = @ \cup known]
          PROVE  /\ t.live = s.live /\ t.attempt = s.attempt /\ t.outcome = s.outcome
                 /\ t.future = s.future /\ t.run = run /\ t.ears = {} /\ t.old = s.old \cup known
      BY <2>4, <3>2 DEF WellSet
    <3>3. ASSUME NEW r, t = [kept EXCEPT !.ears = known, !.result = r, !.future = "set"]
          PROVE  /\ t.live = s.live /\ t.attempt = s.attempt /\ t.outcome = s.outcome
                 /\ t.future = "set" /\ t.run = run /\ t.ears = known /\ t.old = s.old
      BY <2>4, <3>3 DEF WellSet
    <3> QED
      BY <2>5, <3>1, <3>2, <3>3
  <2>7. Heeds(s, t, press, i, remote)
    BY <1>2, <1>10, <2>3, <2>6 DEF Heeds
  <2> QED
    BY <1>1, <1>3, <1>4, <1>5, <1>6, <2>7
<1> QED
  BY <1>2, <1>7, <1>8, <1>9, <1>10

\* What a learn session makes of a copy.
LEMMA LearningLearns ==
  ASSUME NEW n, WellSet(sess[n]), NEW copy, now \in Nat, SessionTyped(sess[n], now),
         Learns(sess[n], now), sess[n].outcome = "none",
         made[copy.press].tabled \in BOOLEAN,
         made[copy.press].tabled => made[copy.press].button \in Buttons
  PROVE  /\ SessionTyped(Learned(n, copy), now) /\ Learns(Learned(n, copy), now)
         /\ Learned(n, copy).outcome = "none"
<1>1. PICK s : s = sess[n]
  OBVIOUS
<1>2. PICK t : t = Learned(n, copy)
  OBVIOUS
<1>3. PICK press : press = made[copy.press]
  OBVIOUS
<1>4. PICK a : a = OfferFrame(s.attempt, press, now, s.future # "open")
  OBVIOUS
<1>5. PICK heard : heard = IF s.attempt.measured = {} THEN s.ears \cup {<<Who(press), now>>} ELSE s.ears
  OBVIOUS
<1>6. PICK future : future = IF s.future = "open" /\ a.won # NoCapture THEN "set" ELSE s.future
  OBVIOUS
<1>7. t = [s EXCEPT !.attempt = a, !.future = future, !.ears = heard]
  BY <1>1, <1>2, <1>3, <1>4, <1>5, <1>6 DEF Learned, First
<1>8. /\ t.attempt = a /\ t.future = future /\ t.ears = heard /\ t.live = s.live /\ t.run = s.run
      /\ t.phase = s.phase /\ t.outcome = s.outcome /\ t.choice = s.choice
  BY <1>1, <1>7 DEF WellSet
<1>9. /\ RunOK(s.run) /\ s.live \subseteq Bridge /\ s.future \in {"open", "set", "cancelled"}
      /\ AttemptFields(s.attempt) /\ Remembered(s.attempt.recent, now)
      /\ AttemptOK(s.attempt, s.ears, now) /\ s.outcome = "none"
      /\ s.future = "set" => s.attempt.won # NoCapture
      /\ s.phase = "settling" => s.choice \in {"won", "held"} /\ Picked(s) # NoCapture
  BY <1>1 DEF SessionTyped, Learns
<1>10. /\ Remembered(a.recent, now) /\ AttemptOK(a, heard, now)
       /\ s.future # "open" => a.won = s.attempt.won /\ a.held = s.attempt.held
  <2>1. press.tabled \in BOOLEAN /\ (press.tabled => press.button \in Buttons)
    BY <1>3
  <2>2. PICK decided : decided = (s.future # "open")
    OBVIOUS
  <2>3. a = OfferFrame(s.attempt, press, now, decided)
    BY <1>4, <2>2
  <2>4. /\ Remembered(a.recent, now) /\ AttemptOK(a, heard, now)
        /\ decided => a.won = s.attempt.won /\ a.held = s.attempt.held
    BY <1>5, <1>9, <2>1, <2>3, FrameKeeps
  <2> QED
    BY <2>2, <2>4
<1>11. SessionTyped(t, now)
  BY <1>6, <1>8, <1>9, <1>10 DEF SessionTyped, AttemptOK
<1>12. t.phase = "settling" => t.choice \in {"won", "held"} /\ Picked(t) # NoCapture
  <2>1. ASSUME t.phase = "settling" PROVE Picked(t) # NoCapture
    <3>1. s.choice \in {"won", "held"} /\ Picked(s) # NoCapture
      BY <1>8, <1>9, <2>1
    <3>2. s.future # "open"
      BY <1>1, <1>8, <2>1 DEF Learns
    <3> QED
      BY <1>8, <1>10, <3>1, <3>2 DEF Picked
  <2> QED
    BY <1>8, <1>9, <2>1
<1>14. t.phase = "settling" => t.future # "open"
  BY <1>1, <1>6, <1>8 DEF Learns
<1>13. Learns(t, now)
  BY <1>14, <1>6, <1>8, <1>9, <1>10, <1>12 DEF Learns
<1> QED
  BY <1>2, <1>8, <1>9, <1>11, <1>13

----------------------------------------------------------------------------
(* The steps of sessions and windows. *)

\* A session that is not over goes on, or comes to its end.
SessionMoves(n, s, w) ==
  /\ Begun(n) /\ sess[n].phase # "over"
  /\ UNCHANGED <<cast, now, made, wire>>
  /\ sess' = [sess EXCEPT ![n] = s]
  /\ DOMAIN flow' = Flow /\ flow'[sess[n].flow] = w
  /\ \A g \in Flow \ {sess[n].flow} : flow'[g] = flow[g]
  /\ s.flow = sess[n].flow /\ s.phase # "idle" /\ s.run = sess[n].run
  /\ s.attempt = sess[n].attempt /\ s.ears = sess[n].ears /\ s.old = sess[n].old
  /\ s.live \subseteq Bridge /\ s.future \in {"open", "set", "cancelled"}
  /\ s.phase \notin {"stopping", "over"} => s.outcome = "none"
  /\ ~Measures(n) => Learns(s, now)
  /\ w.task = n /\ w.remote = flow[sess[n].flow].remote
  /\ w.adopted = flow[sess[n].flow].adopted
  /\ w.heard \in {flow[sess[n].flow].heard, s.run.heard}
  /\ s.outcome = "no_press" =>
       Measures(n) /\ w.heard = s.run.heard /\ w.overflowed = s.run.overflowed

LEMMA MovesKeep ==
  ASSUME WizardInv, ClaimInv', NEW n \in Session, NEW s, NEW w, SessionMoves(n, s, w)
  PROVE  WizardInv'
<1> DEFINE f == sess[n].flow
<1>1. /\ DOMAIN sess' = Session /\ sess'[n] = s /\ \A m \in Session : m # n => sess'[m] = sess[m]
      /\ f \in Flow /\ DOMAIN flow' = Flow /\ flow'[f] = w
      /\ \A g \in Flow : g # f => flow'[g] = flow[g]
      /\ \A m \in Session : Begun(m) => sess[m].flow \in Flow
  BY DEF SessionMoves, WizardInv, ClaimInv, Formed, Seated, Begun
<1>2. /\ cast' = cast /\ now' = now /\ made' = made /\ wire' = wire
      /\ s.flow = f /\ s.phase # "idle" /\ w.task = n /\ flow[f].task = n
      /\ Begun(n) /\ n # 0
  BY WizardAssumption DEF SessionMoves, WizardInv, SessionOK, Attended, Begun, Session
<1>3. \A m \in Session : /\ Begun(m)' <=> Begun(m)
                         /\ sess'[m].flow = sess[m].flow
                         /\ Latest(m)' <=> Latest(m)
                         /\ Measures(m)' <=> Measures(m)
  <2>1. \A m \in Session : (Begun(m)' <=> Begun(m)) /\ sess'[m].flow = sess[m].flow
    BY <1>1, <1>2 DEF Begun
  <2>2. \A m \in Session : Latest(m)' <=> Latest(m)
    BY <2>1 DEF Latest
  <2>3. \A m \in Session : Measures(m)' <=> Measures(m)
    BY <1>2, <2>1 DEF Measures, Kind
  <2> QED
    BY <2>1, <2>2, <2>3
<1>4. Heralded'
  BY <1>2 DEF WizardInv, Heralded
<1>5. ASSUME NEW m \in Session PROVE SessionOK(m)'
  <2>1. SessionOK(m)
    BY DEF WizardInv
  <2>2. CASE m = n
    <3>1. SessionTyped(sess'[m], now')
      BY <1>1, <1>2, <2>1, <2>2 DEF SessionOK, SessionTyped, SessionMoves
    <3>2. Attended(m)'
      BY <1>1, <1>2, <2>2 DEF Attended, SessionMoves
    <3>3. ASSUME Measures(m) PROVE Hearing(m)'
      <4>1. Current(n)
        BY <1>2 DEF Current
      <4>2. Hearing(n)
        BY <1>2, <2>1, <2>2, <3>3 DEF SessionOK
      <4>3. s.run = sess[n].run /\ s.ears = sess[n].ears /\ s.old = sess[n].old
            /\ w.remote = flow[f].remote
        BY DEF SessionMoves
      <4>4. \A i : Names(n, i) => Names(n, i)'
        BY <1>1, <1>2, <4>3 DEF Names
      <4> QED
        BY <1>1, <1>2, <2>2, <4>1, <4>2, <4>3, <4>4 DEF Hearing
    <3>4. ~Measures(m) => Learns(sess'[m], now')
      BY <1>1, <1>2, <2>2 DEF SessionMoves
    <3> QED
      BY <1>3, <3>1, <3>2, <3>3, <3>4 DEF SessionOK
  <2>3. CASE m # n
    <3>1. sess'[m] = sess[m]
      BY <1>1, <2>3
    <3>2. Begun(m) => flow'[sess[m].flow].task = flow[sess[m].flow].task
                      /\ flow'[sess[m].flow].remote = flow[sess[m].flow].remote
      BY <1>1, <1>2 DEF SessionMoves
    <3>3. Attended(m)'
      BY <2>1, <3>1, <3>2 DEF SessionOK, Attended, Begun
    <3>4. Begun(m) /\ Current(m)' => Current(m)
      BY <1>1, <1>2, <1>3, <2>3, <3>1 DEF Current
    <3>5. ASSUME Begun(m), Hearing(m) PROVE Hearing(m)'
      <4>1. \A i : Names(m, i) => Names(m, i)'
        BY <1>2, <3>1, <3>2, <3>5 DEF Names
      <4> QED
        BY <1>2, <3>1, <3>4, <3>5, <4>1 DEF Hearing
    <3> QED
      BY <1>2, <1>3, <2>1, <3>1, <3>3, <3>5 DEF SessionOK
  <2> QED
    BY <2>2, <2>3
<1>6. ASSUME NEW a, AdoptedOK(a) PROVE AdoptedOK(a)'
  <2>1. a.by \in Session /\ a.by # n
    BY <1>6 DEF AdoptedOK, SessionMoves
  <2> QED
    BY <1>1, <1>2, <1>3, <1>6, <2>1 DEF AdoptedOK
<1>7. ASSUME NEW g \in Flow PROVE WindowOK(g)'
  <2>1. WindowOK(g)
    BY DEF WizardInv
  <2>2. CASE g = f
    <3>1. IsList(w.heard) /\ Len(w.heard) <= HeardCap
      <4>1. IsList(sess[n].run.heard) /\ Len(sess[n].run.heard) <= HeardCap
        BY DEF WizardInv, SessionOK, SessionTyped, RunOK
      <4> QED
        BY <2>1, <2>2, <4>1 DEF WindowOK, SessionMoves
    <3>2. Latest(n)'
      BY <1>2, <1>3, <2>1, <2>2 DEF WindowOK
    <3>3. s.outcome = "no_press" => Measures(n)' /\ Shows(w, n)'
      BY <1>1, <1>3 DEF SessionMoves, Shows
    <3>4. IsList(w.adopted) /\ \A a \in Range(w.adopted) : AdoptedOK(a)'
      BY <1>6, <2>1, <2>2 DEF WindowOK, SessionMoves
    <3>5. flow'[g] = w /\ w.task = n /\ n # 0 /\ sess'[n] = s
      BY <1>1, <1>2, <2>2
    <3> QED
      BY <3>1, <3>2, <3>3, <3>4, <3>5 DEF WindowOK
  <2>3. CASE g # f
    <3>1. flow'[g] = flow[g]
      BY <1>1, <2>3
    <3>2. flow[g].task # 0 => flow[g].task \in Session /\ flow[g].task # n
      BY <1>2, <2>3 DEF WizardInv, ClaimInv, Claims
    <3>3. ASSUME flow[g].task # 0 PROVE sess'[flow[g].task] = sess[flow[g].task]
      BY <1>1, <3>2, <3>3
    <3>4. \A m \in Session : sess[m].flow = g => sess'[m] = sess[m]
      BY <1>1, <2>3
    <3>5. flow[g].task # 0 => Latest(flow[g].task)'
      BY <1>3, <2>1, <3>1, <3>2 DEF WindowOK
    <3>6. flow[g].task # 0 /\ sess'[flow[g].task].outcome = "no_press" =>
            Measures(flow[g].task)' /\ Shows(flow[g], flow[g].task)'
      BY <1>3, <2>1, <3>1, <3>2, <3>3 DEF WindowOK, Shows
    <3>7. flow[g].task = 0 /\ flow[g].outcome = "no_press" =>
           \E m \in Session : /\ sess'[m].phase = "over" /\ sess'[m].flow = g /\ Latest(m)'
                              /\ Measures(m)' /\ Shows(flow[g], m)'
      BY <1>3, <2>1, <3>1, <3>4 DEF WindowOK, Shows
    <3>8. \A a \in Range(flow[g].adopted) : AdoptedOK(a)'
      BY <1>6, <2>1 DEF WindowOK
    <3> QED
      BY <2>1, <3>1, <3>5, <3>6, <3>7, <3>8 DEF WindowOK
  <2> QED
    BY <2>2, <2>3
<1> QED
  BY <1>4, <1>5, <1>7 DEF WizardInv

\* A window alone changes.
WindowMoves(f, w) ==
  /\ UNCHANGED <<cast, now, made, wire, sess>>
  /\ flow' = [flow EXCEPT ![f] = w]
  /\ IsList(w.heard) /\ Len(w.heard) <= HeardCap
  /\ w.task # 0 => w.task = flow[f].task /\ w.heard = flow[f].heard /\ w.overflowed = flow[f].overflowed
                   /\ w.remote = flow[f].remote
  /\ w.task = 0 => \A n \in Session : Begun(n) /\ sess[n].flow = f => sess[n].phase = "over"
  /\ w.task = 0 /\ w.outcome = "no_press" =>
       /\ \E n \in Session : /\ sess[n].phase = "over" /\ sess[n].flow = f /\ Latest(n)
                             /\ Measures(n) /\ Shows(w, n)
       /\ w.remote = flow[f].remote
       /\ \A n \in Session : Begun(n) /\ sess[n].flow = f /\ Latest(n) => Current(n)
  /\ IsList(w.adopted) /\ \A a \in Range(w.adopted) : AdoptedOK(a)

LEMMA WindowMovesKeep ==
  ASSUME WizardInv, ClaimInv', NEW f \in Flow, NEW w, WindowMoves(f, w)
  PROVE  WizardInv'
<1>1. /\ cast' = cast /\ now' = now /\ made' = made /\ wire' = wire /\ sess' = sess
      /\ DOMAIN flow' = Flow /\ flow'[f] = w /\ \A g \in Flow : g # f => flow'[g] = flow[g]
      /\ \A m \in Session : Begun(m) => sess[m].flow \in Flow
  BY DEF WindowMoves, WizardInv, ClaimInv, Formed, Seated, Begun
<1>2. /\ Heralded' /\ \A a : AdoptedOK(a)' <=> AdoptedOK(a)
      /\ \A m : (Begun(m)' <=> Begun(m)) /\ (Latest(m)' <=> Latest(m)) /\ (Measures(m)' <=> Measures(m))
  <2>1. \A m : (Begun(m)' <=> Begun(m)) /\ (Latest(m)' <=> Latest(m)) /\ (Measures(m)' <=> Measures(m))
    BY <1>1 DEF Begun, Latest, Measures, Kind
  <2> QED
    BY <1>1, <2>1 DEF WizardInv, Heralded, AdoptedOK
<1>3. ASSUME NEW m \in Session PROVE SessionOK(m)'
  <2>1. SessionOK(m)
    BY DEF WizardInv
  <2>2. Attended(m)'
    <3>1. CASE sess[m].flow = f /\ Begun(m)
      BY <1>1, <2>1, <3>1 DEF SessionOK, Attended, WindowMoves, Begun
    <3>2. CASE ~(sess[m].flow = f /\ Begun(m))
      BY <1>1, <2>1, <3>2 DEF SessionOK, Attended, Begun
    <3> QED
      BY <3>1, <3>2
  <2>3. ASSUME Begun(m), Hearing(m) PROVE Hearing(m)'
    <3>1. CASE sess[m].flow # f
      BY <1>1, <1>2, <2>3, <3>1 DEF Hearing, Current, Names
    <3>2. CASE sess[m].flow = f
      <4>1. ASSUME Current(m)' PROVE Current(m) /\ w.remote = flow[f].remote
        <5>1. w.task = m \/ (w.task = 0 /\ w.outcome = "no_press" /\ Latest(m))
          BY <1>1, <1>2, <3>2, <4>1 DEF Current
        <5>2. m # 0
          BY WizardAssumption DEF Session
        <5> QED
          BY <2>3, <3>2, <5>1, <5>2 DEF WindowMoves, Current
      <4> QED
        BY <1>1, <2>3, <3>2, <4>1 DEF Hearing, Names
    <3> QED
      BY <3>1, <3>2
  <2> QED
    BY <1>1, <1>2, <2>1, <2>2, <2>3 DEF SessionOK
<1>4. ASSUME NEW g \in Flow PROVE WindowOK(g)'
  <2>1. WindowOK(g)
    BY DEF WizardInv
  <2>2. CASE g # f
    BY <1>1, <1>2, <2>1, <2>2 DEF WindowOK, Shows
  <2>3. CASE g = f
    <3>1. flow'[g] = w
      BY <1>1, <2>3
    <3>2. IsList(w.heard) /\ Len(w.heard) <= HeardCap /\ IsList(w.adopted)
          /\ \A a \in Range(w.adopted) : AdoptedOK(a)'
      BY <1>2 DEF WindowMoves
    <3>3. w.task # 0 => /\ Latest(w.task)'
                        /\ sess'[w.task].outcome = "no_press" =>
                             Measures(w.task)' /\ Shows(w, w.task)'
      BY <1>1, <1>2, <2>1, <2>3 DEF WindowOK, WindowMoves, Shows
    <3>4. w.task = 0 /\ w.outcome = "no_press" =>
           \E n \in Session : /\ sess'[n].phase = "over" /\ sess'[n].flow = g /\ Latest(n)'
                              /\ Measures(n)' /\ Shows(w, n)'
      BY <1>1, <1>2, <2>3 DEF WindowMoves, Shows
    <3> QED
      BY <3>1, <3>2, <3>3, <3>4 DEF WindowOK
  <2> QED
    BY <2>2, <2>3
<1> QED
  BY <1>2, <1>3, <1>4 DEF WizardInv

\* A session begins.
SessionOpens(f, n, s, w) ==
  /\ UNCHANGED <<cast, now, made, wire>>
  /\ ~Begun(n) /\ \A m \in Session : Begun(m) => m < n
  /\ flow[f].task = 0
  /\ sess' = [sess EXCEPT ![n] = s] /\ flow' = [flow EXCEPT ![f] = w]
  /\ s.flow = f /\ s.phase = "arming" /\ s.outcome = "none" /\ SessionTyped(s, now)
  /\ IF Kind(f) = "measure" THEN s.ears = {} /\ s.old = {} ELSE Learns(s, now)
  /\ w.task = n /\ IsList(w.heard) /\ Len(w.heard) <= HeardCap
  /\ IsList(w.adopted) /\ \A a \in Range(w.adopted) : AdoptedOK(a)

LEMMA OpeningKeeps ==
  ASSUME WizardInv, ClaimInv', NEW f \in Flow, NEW n \in Session, NEW s, NEW w,
         SessionOpens(f, n, s, w)
  PROVE  WizardInv'
<1>1. /\ DOMAIN sess' = Session /\ sess'[n] = s /\ \A m \in Session : m # n => sess'[m] = sess[m]
      /\ DOMAIN flow' = Flow /\ flow'[f] = w /\ \A g \in Flow : g # f => flow'[g] = flow[g]
      /\ cast' = cast /\ now' = now /\ made' = made /\ wire' = wire
      /\ s.flow = f /\ s.phase = "arming" /\ s.outcome = "none" /\ w.task = n
      /\ \A m \in Session : Begun(m) => m < n /\ m # n
      /\ n # 0
  BY WizardAssumption DEF SessionOpens, WizardInv, ClaimInv, Formed, Session
<1>2. /\ Heralded'
      /\ \A m \in Session : m # n => (Begun(m)' <=> Begun(m)) /\ (Measures(m)' <=> Measures(m))
      /\ Begun(n)' /\ (Measures(n)' <=> Kind(f) = "measure")
  BY <1>1 DEF WizardInv, Heralded, Begun, Measures, Kind
<1>3. Latest(n)' /\ \A m \in Session : m # n /\ sess[m].flow # f => (Latest(m)' <=> Latest(m))
  <2>1. \A m \in Session : Begun(m)' => m <= n
    BY <1>1, <1>2 DEF Session
  <2>2. ASSUME NEW m \in Session, m # n, sess[m].flow # f PROVE Latest(m)' <=> Latest(m)
    BY <1>1, <1>2, <2>2 DEF Latest, SessionOpens
  <2> QED
    BY <2>1, <2>2 DEF Latest
<1>4. ASSUME NEW m \in Session, m # n PROVE SessionOK(m)'
  <2>1. SessionOK(m) /\ sess'[m] = sess[m]
    BY <1>1, <1>4 DEF WizardInv
  <2>2. CASE sess[m].flow = f /\ Begun(m)
    <3>1. sess[m].phase = "over" /\ m # 0
      BY <2>1, <2>2, WizardAssumption DEF SessionOK, Attended, SessionOpens, Begun, Session
    <3>2. Attended(m)' /\ ~Current(m)'
      BY <1>1, <1>4, <2>2, <2>1, <3>1 DEF Attended, Current
    <3> QED
      BY <1>1, <1>2, <1>4, <2>1, <3>2 DEF SessionOK, Hearing
  <2>3. CASE sess[m].flow # f
    <3>1. Begun(m) => flow'[sess[m].flow] = flow[sess[m].flow]
      BY <1>1, <2>3 DEF WizardInv, ClaimInv, Seated, Begun
    <3>2. Attended(m)'
      BY <2>1, <3>1 DEF SessionOK, Attended, Begun
    <3>3. Begun(m) /\ Hearing(m) => Hearing(m)'
      BY <1>1, <1>3, <1>4, <2>1, <2>3, <3>1 DEF Hearing, Current, Names
    <3> QED
      BY <1>1, <1>2, <1>4, <2>1, <3>2, <3>3 DEF SessionOK
  <2>4. CASE ~Begun(m)
    BY <1>1, <1>2, <1>4, <2>1, <2>4 DEF SessionOK, Attended, Begun
  <2> QED
    BY <2>2, <2>3, <2>4
<1>5. SessionOK(n)'
  <2>1. SessionTyped(sess'[n], now') /\ Attended(n)'
    BY <1>1 DEF SessionOpens, Attended
  <2>2. Measures(n)' => Hearing(n)'
    BY <1>1, <1>2 DEF SessionOpens, Hearing
  <2>3. ~Measures(n)' => Learns(sess'[n], now')
    BY <1>1, <1>2 DEF SessionOpens
  <2> QED
    BY <2>1, <2>2, <2>3 DEF SessionOK
<1>6. ASSUME NEW a, AdoptedOK(a) PROVE AdoptedOK(a)'
  <2>1. a.by \in Session /\ a.by # n
    BY <1>1, <1>6 DEF AdoptedOK, Begun
  <2> QED
    BY <1>1, <1>2, <1>6, <2>1 DEF AdoptedOK
<1>7. ASSUME NEW g \in Flow PROVE WindowOK(g)'
  <2>1. WindowOK(g)
    BY DEF WizardInv
  <2>2. CASE g = f
    <3>1. flow'[g] = w
      BY <1>1, <2>2
    <3>2. \A a \in Range(w.adopted) : AdoptedOK(a)'
      BY <1>6 DEF SessionOpens
    <3>3. sess'[w.task].outcome = "none" /\ Latest(w.task)'
      BY <1>1, <1>3
    <3>4. IsList(w.heard) /\ Len(w.heard) <= HeardCap /\ IsList(w.adopted) /\ w.task # 0
      BY <1>1 DEF SessionOpens
    <3> QED
      BY <3>1, <3>2, <3>3, <3>4 DEF WindowOK
  <2>3. CASE g # f
    <3>1. flow'[g] = flow[g]
      BY <1>1, <2>3
    <3>2. flow[g].task # 0 =>
            flow[g].task \in Session /\ flow[g].task # n /\ sess[flow[g].task].flow = g
      BY <1>1 DEF WizardInv, ClaimInv, Claims, Seated, Begun
    <3>3. flow[g].task # 0 =>
            /\ Latest(flow[g].task)'
            /\ sess'[flow[g].task].outcome = "no_press" =>
                 Measures(flow[g].task)' /\ Shows(flow[g], flow[g].task)'
      BY <1>1, <1>2, <1>3, <2>1, <2>3, <3>1, <3>2 DEF WindowOK, Shows
    <3>4. ASSUME flow[g].task = 0, flow[g].outcome = "no_press"
          PROVE  \E m \in Session : /\ sess'[m].phase = "over" /\ sess'[m].flow = g /\ Latest(m)'
                                    /\ Measures(m)' /\ Shows(flow[g], m)'
      <4>1. PICK m \in Session : /\ sess[m].phase = "over" /\ sess[m].flow = g /\ Latest(m)
                                 /\ Measures(m) /\ Shows(flow[g], m)
        BY <2>1, <3>4 DEF WindowOK
      <4>2. m # n
        BY <1>1, <4>1 DEF Begun
      <4> QED
        BY <1>1, <1>2, <1>3, <2>3, <3>1, <4>1, <4>2 DEF Shows
    <3>5. \A a \in Range(flow[g].adopted) : AdoptedOK(a)'
      BY <1>6, <2>1 DEF WindowOK
    <3> QED
      BY <2>1, <3>1, <3>3, <3>4, <3>5 DEF WindowOK
  <2> QED
    BY <2>2, <2>3
<1> QED
  BY <1>2, <1>4, <1>5, <1>7 DEF WizardInv

\* A copy is delivered to the sessions that listen.
LEMMA DeliverKeeps ==
  ASSUME WizardInv, ClaimInv', NEW b \in Bridge, Deliver(b)
  PROVE  WizardInv'
<1> DEFINE copy == Arriving(Head(wire[b]))
           hears(n) == b \in sess[n].subs /\ flow[sess[n].flow].sid = n
<1>1. /\ wire[b] # <<>> /\ wire' = [wire EXCEPT ![b] = Tail(wire[b])]
      /\ cast' = cast /\ now' = now /\ made' = made /\ flow' = flow
      /\ sess' = [n \in Session |->
                    IF ~hears(n) THEN sess[n]
                    ELSE IF Measures(n) THEN Heeded(n, copy) ELSE Learned(n, copy)]
  BY DEF Deliver
<1>2. copy.press \in 1..Len(made) /\ Heralded'
  <2>1. IsList(wire[b]) /\ Len(wire[b]) > 0 /\ \A c \in Range(wire[b]) : c.press \in 1..Len(made)
    BY <1>1 DEF WizardInv, Heralded, IsList
  <2>2. IsList(Tail(wire[b])) /\ Range(Tail(wire[b])) \subseteq Range(wire[b])
        /\ Head(wire[b]) \in Range(wire[b])
    BY <2>1, ListTail
  <2>3. Head(wire[b]).press \in 1..Len(made)
    BY <2>1, <2>2
  <2>4. copy.press = Head(wire[b]).press
    BY DEF Arriving
  <2>5. DOMAIN wire' = Bridge /\ \A c \in Bridge : wire'[c] = IF c = b THEN Tail(wire[b]) ELSE wire[c]
    BY <1>1 DEF WizardInv, Heralded
  <2> QED
    BY <1>1, <2>1, <2>2, <2>3, <2>4, <2>5 DEF WizardInv, Heralded
<1> HIDE DEF copy
<1>3. PICK i : i = copy.press
  OBVIOUS
<1>4. i \in 1..Len(made) /\ made[i].tabled \in BOOLEAN
      /\ (made[i].tabled => made[i].button \in Buttons) /\ now \in Nat
  BY <1>2, <1>3 DEF WizardInv, Heralded
<1>5. ASSUME NEW n \in Session
      PROVE  /\ SessionOK(n) /\ WellSet(sess[n]) /\ sess[n].subs \subseteq Bridge
             /\ sess[n].future \in {"open", "set", "cancelled"} /\ RunOK(sess[n].run)
             /\ hears(n) => Open(n) /\ Begun(n) /\ sess[n].outcome = "none"
                            /\ sess[n].flow \in Flow /\ Current(n)
  <2>1. SessionOK(n) /\ WellSet(sess[n]) /\ sess[n].subs \subseteq Bridge
    BY DEF WizardInv, ClaimInv, Formed, Seated
  <2>2. ASSUME hears(n) PROVE Open(n)
    BY <2>2 DEF WizardInv, ClaimInv, Claims
  <2>3. Open(n) => Begun(n) /\ sess[n].outcome = "none" /\ sess[n].flow \in Flow /\ Current(n)
    BY <2>1 DEF Open, Begun, SessionOK, Attended, Current, WizardInv, ClaimInv, Seated
  <2> QED
    BY <2>1, <2>2, <2>3 DEF SessionOK, SessionTyped
<1>6. ASSUME NEW n \in Session
      PROVE  /\ sess'[n].flow = sess[n].flow /\ sess'[n].phase = sess[n].phase
             /\ hears(n) /\ Measures(n) =>
                  Heeds(sess[n], sess'[n], made[i], i, flow[sess[n].flow].remote)
             /\ hears(n) /\ ~Measures(n) => sess'[n] = Learned(n, copy)
             /\ ~hears(n) => sess'[n] = sess[n]
  <2>1. Stays(sess[n], Heeded(n, copy)) /\ Stays(sess[n], Learned(n, copy))
    BY <1>5, HeedingStays, LearningStays
  <2>2. Heeds(sess[n], Heeded(n, copy), made[i], i, flow[sess[n].flow].remote)
    BY <1>3, <1>5, HeedingKeeps
  <2>3. sess'[n] = IF ~hears(n) THEN sess[n]
                   ELSE IF Measures(n) THEN Heeded(n, copy) ELSE Learned(n, copy)
    BY <1>1
  <2> HIDE DEF hears
  <2> QED
    BY <2>1, <2>2, <2>3 DEF Stays
<1> HIDE DEF hears
<1>7. \A n \in Session : /\ Begun(n)' <=> Begun(n)
                         /\ Latest(n)' <=> Latest(n)
                         /\ Measures(n)' <=> Measures(n)
                         /\ Current(n)' <=> Current(n)
  <2>1. \A n \in Session : Begun(n)' <=> Begun(n)
    BY <1>6 DEF Begun
  <2>2. \A n \in Session : Latest(n)' <=> Latest(n)
    BY <1>6, <2>1 DEF Latest
  <2>3. \A n \in Session : Measures(n)' <=> Measures(n)
    BY <1>1, <1>6 DEF Measures, Kind
  <2>4. \A n \in Session : Current(n)' <=> Current(n)
    BY <1>1, <1>6, <2>2 DEF Current
  <2> QED
    BY <2>1, <2>2, <2>3, <2>4
<1>8. ASSUME NEW n \in Session PROVE SessionOK(n)' /\ (sess[n].outcome = "none" => sess'[n].outcome = "none")
  <2>1. SessionOK(n)
    BY <1>5
  <2>2. CASE ~hears(n)
    <3>1. sess'[n] = sess[n]
      BY <1>6, <2>2
    <3>2. Attended(n)' /\ (Begun(n) /\ Measures(n) => Hearing(n)')
      BY <1>1, <1>7, <2>1, <3>1 DEF SessionOK, Attended, Hearing, Names
    <3> QED
      BY <1>1, <1>7, <2>1, <3>1, <3>2 DEF SessionOK
  <2>3. CASE hears(n) /\ Measures(n)
    <3>1. Heeds(sess[n], sess'[n], made[i], i, flow[sess[n].flow].remote)
      BY <1>6, <2>3
    <3>2. SessionTyped(sess'[n], now')
      BY <1>1, <2>1, <3>1 DEF Heeds, SessionOK, SessionTyped
    <3>3. sess'[n].outcome = "none"
      BY <1>5, <2>3, <3>1 DEF Heeds
    <3>4. Attended(n)'
      BY <1>1, <1>6, <2>1, <3>3 DEF SessionOK, Attended
    <3>5. Hearing(n)'
      <4>1. Hearing(n) /\ Current(n)
        BY <1>5, <2>1, <2>3 DEF SessionOK
      <4>2. sess'[n].ears \cup sess'[n].old \subseteq 1..Len(made)
        BY <1>4, <3>1, <4>1 DEF Heeds, Hearing
      <4>3. ASSUME NEW j \in sess'[n].ears \cup sess'[n].old PROVE Names(n, j)'
        <5>1. CASE j \in sess[n].ears \cup sess[n].old
          <6>1. Names(n, j)
            BY <4>1, <5>1 DEF Hearing
          <6> QED
            BY <1>1, <1>6, <3>1, <6>1 DEF Names, Heeds
        <5>2. CASE j \notin sess[n].ears \cup sess[n].old
          <6>1. j = i
            BY <3>1, <4>3, <5>2 DEF Heeds
          <6> QED
            BY <1>1, <1>6, <3>1, <4>3, <5>2, <6>1 DEF Names, Heeds
        <5> QED
          BY <5>1, <5>2
      <4> QED
        BY <1>1, <4>2, <4>3 DEF Hearing
    <3> QED
      BY <1>7, <2>3, <3>2, <3>3, <3>4, <3>5 DEF SessionOK
  <2>4. CASE hears(n) /\ ~Measures(n)
    <3>1. sess'[n] = Learned(n, copy) /\ Begun(n) /\ sess[n].outcome = "none"
      BY <1>5, <1>6, <2>4
    <3>2. SessionTyped(sess[n], now) /\ Learns(sess[n], now)
      BY <2>1, <2>4, <3>1 DEF SessionOK
    <3>3. /\ SessionTyped(Learned(n, copy), now) /\ Learns(Learned(n, copy), now)
          /\ Learned(n, copy).outcome = "none"
      BY <1>3, <1>4, <1>5, <3>1, <3>2, LearningLearns
    <3>4. Attended(n)'
      BY <1>1, <1>6, <2>1, <3>1, <3>3 DEF SessionOK, Attended
    <3> QED
      BY <1>1, <1>7, <2>4, <3>1, <3>3, <3>4 DEF SessionOK
  <2> QED
    BY <2>2, <2>3, <2>4
<1>9. ASSUME NEW n \in Session, ~Open(n) PROVE sess'[n] = sess[n]
  BY <1>5, <1>6, <1>9
<1>10. ASSUME NEW a, AdoptedOK(a) PROVE AdoptedOK(a)'
  <2>1. a.by \in Session /\ sess'[a.by] = sess[a.by]
    BY <1>9, <1>10 DEF AdoptedOK, Open
  <2> QED
    BY <1>1, <1>7, <1>10, <2>1 DEF AdoptedOK
<1>11. ASSUME NEW g \in Flow PROVE WindowOK(g)'
  <2>1. WindowOK(g) /\ flow' = flow
    BY <1>1 DEF WizardInv
  <2>2. flow[g].task # 0 => flow[g].task \in Session
    BY DEF WizardInv, ClaimInv, Claims
  <2>3. ASSUME flow[g].task # 0
        PROVE  /\ Latest(flow[g].task)'
               /\ sess'[flow[g].task].outcome = "no_press" =>
                    Measures(flow[g].task)' /\ Shows(flow[g], flow[g].task)'
    <3>1. PICK m \in Session : m = flow[g].task
      BY <2>2, <2>3
    <3>2. Latest(m)'
      BY <1>7, <2>1, <2>3, <3>1 DEF WindowOK
    <3>3. ASSUME sess'[m].outcome = "no_press" PROVE Measures(m)' /\ Shows(flow[g], m)'
      <4>1. sess[m].outcome # "none" /\ ~Open(m)
        BY <1>5, <1>8, <3>3 DEF SessionOK, Attended, Open
      <4>2. sess'[m] = sess[m]
        BY <1>9, <4>1
      <4> QED
        BY <1>1, <1>7, <2>1, <2>3, <3>1, <3>3, <4>2 DEF WindowOK, Shows
    <3> QED
      BY <2>1, <3>1, <3>2, <3>3
  <2>4. ASSUME flow[g].task = 0, flow[g].outcome = "no_press"
        PROVE  \E m \in Session : /\ sess'[m].phase = "over" /\ sess'[m].flow = g /\ Latest(m)'
                                  /\ Measures(m)' /\ Shows(flow[g], m)'
    <3>1. PICK m \in Session : /\ sess[m].phase = "over" /\ sess[m].flow = g /\ Latest(m)
                               /\ Measures(m) /\ Shows(flow[g], m)
      BY <2>1, <2>4 DEF WindowOK
    <3>2. sess'[m] = sess[m]
      BY <1>9, <3>1 DEF Open
    <3> QED
      BY <1>1, <1>7, <3>1, <3>2 DEF Shows
  <2>5. \A a \in Range(flow[g].adopted) : AdoptedOK(a)'
    BY <1>10, <2>1 DEF WindowOK
  <2> QED
    BY <2>1, <2>3, <2>4, <2>5 DEF WindowOK
<1> QED
  BY <1>2, <1>8, <1>11 DEF WizardInv

\* Another press, a later hour: what was heard stays as it was heard.
LEMMA AirStirs ==
  ASSUME WizardInv, ClaimInv', Heralded', UNCHANGED <<cast, flow, sess>>,
         now <= now', Len(made) <= Len(made)', \A i \in 1..Len(made) : made'[i] = made[i]
  PROVE  WizardInv'
<1>1. /\ \A m : (Begun(m)' <=> Begun(m)) /\ (Latest(m)' <=> Latest(m))
      /\ \A m : (Measures(m)' <=> Measures(m)) /\ (Current(m)' <=> Current(m))
  BY DEF Begun, Latest, Measures, Kind, Current
<1>2. now \in Nat /\ now' \in Nat /\ Len(made) \in Nat /\ Len(made)' \in Nat
  BY DEF WizardInv, Heralded, IsList
<1>3. ASSUME NEW m \in Session PROVE SessionOK(m)'
  <2>1. SessionOK(m) /\ sess'[m] = sess[m]
    BY DEF WizardInv
  <2>2. SessionTyped(sess[m], now')
    BY <1>2, <2>1, TimeKeeps DEF SessionOK, SessionTyped
  <2>3. Attended(m)'
    BY <2>1 DEF SessionOK, Attended
  <2>4. ASSUME Hearing(m) PROVE Hearing(m)'
    BY <1>1, <1>2, <2>1, <2>4 DEF Hearing, Names
  <2>5. ASSUME Learns(sess[m], now) PROVE Learns(sess[m], now')
    BY <1>2, <2>5, TimeKeeps DEF Learns
  <2> QED
    BY <1>1, <2>1, <2>2, <2>3, <2>4, <2>5 DEF SessionOK
<1>4. ASSUME NEW a, AdoptedOK(a) PROVE AdoptedOK(a)'
  <2>1. a.by \in Session /\ Begun(a.by) /\ Measures(a.by)
    BY <1>4 DEF AdoptedOK, Begun
  <2>2. sess[a.by].ears \cup sess[a.by].old \subseteq 1..Len(made)
    BY <2>1 DEF WizardInv, SessionOK, Hearing
  <2> QED
    BY <1>1, <1>4, <2>1, <2>2 DEF AdoptedOK
<1>5. ASSUME NEW g \in Flow PROVE WindowOK(g)'
  <2>1. WindowOK(g)
    BY DEF WizardInv
  <2> QED
    BY <1>1, <1>4, <2>1 DEF WindowOK, Shows
<1> QED
  BY <1>3, <1>5 DEF WizardInv

LEMMA AirMovesKeep ==
  ASSUME WizardInv, ClaimInv',
         \/ \E frame \in UNION Range(cast.presses) : Press(frame)
         \/ \E b \in Bridge : Reboot(b)
         \/ Tick
         \/ UNCHANGED vars
  PROVE  WizardInv'
<1>1. CASE UNCHANGED <<cast, now, made, wire, flow, sess>>
  <2>1. Heralded' /\ now <= now'
    BY <1>1 DEF WizardInv, Heralded
  <2> QED
    BY <1>1, <2>1, AirStirs DEF WizardInv, Heralded, IsList
<1>2. CASE Tick
  <2>1. Heralded' /\ now <= now'
    BY <1>2 DEF Tick, WizardInv, Heralded
  <2> QED
    BY <1>2, <2>1, AirStirs DEF Tick, WizardInv, Heralded, IsList
<1>3. ASSUME NEW frame \in UNION Range(cast.presses), Press(frame) PROVE WizardInv'
  <2>1. PICK hearing \in (SUBSET Reach) \ {{}} :
          /\ made' = Append(made, [remote |-> frame.remote, sel |-> frame.sel,
                                   button |-> frame.button, tabled |-> frame.tabled,
                                   at |-> now, copies |-> Cardinality(hearing)])
          /\ wire' = [b \in Bridge |->
                        IF b \in hearing
                        THEN Append(wire[b], [press |-> Len(made) + 1, button |-> frame.button,
                                              bridge |-> b, boot |-> boot[b].count,
                                              t |-> Clock(b)])
                        ELSE wire[b]]
    BY <1>3 DEF Press
  <2>2. FrameOK(frame) /\ UNCHANGED <<cast, now, flow, sess>>
    BY <1>3, WizardAssumption DEF Press, WizardInv, ClaimInv, CastOK
  <2>3. PICK press : press = [remote |-> frame.remote, sel |-> frame.sel,
                              button |-> frame.button, tabled |-> frame.tabled,
                              at |-> now, copies |-> Cardinality(hearing)]
    OBVIOUS
  <2>4. press.tabled \in BOOLEAN /\ (press.tabled => press.button \in Buttons)
    BY <2>2, <2>3 DEF FrameOK
  <2>5. IsList(made) /\ Len(made) \in Nat
    BY DEF WizardInv, Heralded, IsList
  <2>6. /\ IsList(made') /\ Len(made') = Len(made) + 1 /\ made'[Len(made) + 1] = press
        /\ \A i \in 1..Len(made) : made'[i] = made[i]
    BY <2>1, <2>3, <2>5, ListAppend
  <2>7. ASSUME NEW b \in Bridge
        PROVE  IsList(wire'[b]) /\ \A c \in Range(wire'[b]) : c.press \in 1..Len(made')
    <3>1. IsList(wire[b]) /\ \A c \in Range(wire[b]) : c.press \in 1..Len(made')
      BY <2>5, <2>6 DEF WizardInv, Heralded
    <3>2. PICK copy : copy = [press |-> Len(made) + 1, button |-> frame.button,
                              bridge |-> b, boot |-> boot[b].count, t |-> Clock(b)]
      OBVIOUS
    <3>3. copy.press \in 1..Len(made')
      BY <2>5, <2>6, <3>2
    <3>4. wire'[b] = IF b \in hearing THEN Append(wire[b], copy) ELSE wire[b]
      BY <2>1, <3>2
    <3>5. IsList(Append(wire[b], copy)) /\ Range(Append(wire[b], copy)) = Range(wire[b]) \cup {copy}
      BY <3>1, ListAppend
    <3> QED
      BY <3>1, <3>3, <3>4, <3>5
  <2>8. \A i \in 1..Len(made') : i \in 1..Len(made) \/ i = Len(made) + 1
    BY <2>5, <2>6
  <2>9. \A i \in 1..Len(made') :
          made'[i].tabled \in BOOLEAN /\ (made'[i].tabled => made'[i].button \in Buttons)
    BY <2>4, <2>6, <2>8 DEF WizardInv, Heralded
  <2>10. now' \in Nat /\ now <= now' /\ DOMAIN wire' = Bridge
    BY <2>1, <2>2 DEF WizardInv, Heralded
  <2>11. Heralded'
    BY <2>6, <2>7, <2>9, <2>10 DEF Heralded
  <2>12. Len(made) <= Len(made)'
    BY <2>5, <2>6
  <2> QED
    BY <2>2, <2>6, <2>10, <2>11, <2>12, AirStirs
<1>4. CASE (\E b \in Bridge : Reboot(b)) \/ UNCHANGED vars
  BY <1>1, <1>4 DEF Reboot, vars
<1> QED
  BY <1>2, <1>3, <1>4

----------------------------------------------------------------------------
(* The actions of the sessions. *)

\* A session that goes on tells its window nothing.
LEMMA GoesOnKeeps ==
  ASSUME WizardInv, ClaimInv', NEW n \in Session, NEW s, Update(n, s),
         UNCHANGED <<cast, now, made, wire, flow>>, Begun(n), sess[n].phase # "over",
         s.flow = sess[n].flow, s.phase # "idle", s.run = sess[n].run,
         s.attempt = sess[n].attempt, s.ears = sess[n].ears, s.old = sess[n].old,
         s.live \subseteq Bridge, s.future \in {"open", "set", "cancelled"},
         s.phase \notin {"stopping", "over"} => s.outcome = "none",
         s.outcome = "no_press" => s.outcome = sess[n].outcome,
         ~Measures(n) => Learns(s, now)
  PROVE  WizardInv'
<1>1. PICK w : w = flow[sess[n].flow]
  OBVIOUS
<1>2. sess[n].flow \in Flow /\ w.task = n /\ n # 0 /\ WindowOK(sess[n].flow)
  BY <1>1, WizardAssumption DEF WizardInv, ClaimInv, Seated, SessionOK, Attended, Begun, Session
<1>3. DOMAIN flow' = Flow /\ flow' = flow /\ flow'[sess[n].flow] = w
  BY <1>1 DEF WizardInv, ClaimInv, Formed
<1>4. s.outcome = "no_press" =>
        Measures(n) /\ w.heard = s.run.heard /\ w.overflowed = s.run.overflowed
  BY <1>1, <1>2 DEF WindowOK, Shows
<1>5. SessionMoves(n, s, w)
  BY <1>1, <1>2, <1>3, <1>4 DEF SessionMoves, Update
<1> QED
  BY <1>5, MovesKeep

\* A session that ends leaves its window its task, and maybe a list.
LEMMA EndKeeps ==
  ASSUME WizardInv, ClaimInv', NEW n \in Session, Open(n), NEW outcome, NEW w,
         End(n, outcome, w), w.task = flow[sess[n].flow].task,
         w.remote = flow[sess[n].flow].remote, w.adopted = flow[sess[n].flow].adopted,
         w.heard \in {flow[sess[n].flow].heard, sess[n].run.heard},
         outcome = "no_press" =>
           /\ Measures(n) /\ w.heard = sess[n].run.heard
           /\ w.overflowed = sess[n].run.overflowed,
         ~Measures(n) /\ First(n) /\ outcome = "captured" =>
           /\ sess[n].choice \in {"won", "held"} /\ Picked(sess[n]) # NoCapture
           /\ ~Contested(PickedWindow(sess[n]))
  PROVE  WizardInv'
<1>1. PICK s : s = Ended(n, outcome)
  OBVIOUS
<1>2. PICK v : v = sess[n]
  OBVIOUS
<1>3. WellSet(v) /\ SessionOK(n) /\ Begun(n) /\ v.phase # "over" /\ v.flow \in Flow
  BY <1>2 DEF WizardInv, ClaimInv, Formed, Seated, Begun, Open
<1>4. /\ s.flow = v.flow /\ s.phase = "stopping" /\ s.run = v.run /\ s.attempt = v.attempt
      /\ s.ears = v.ears /\ s.old = v.old /\ s.live = v.live /\ s.choice = v.choice
      /\ s.outcome = outcome /\ s.future = IF v.future = "open" THEN "cancelled" ELSE v.future
  BY <1>1, <1>2, <1>3 DEF Ended, WellSet
<1>5. flow[v.flow].task = n
  BY <1>2, <1>3 DEF SessionOK, Attended, Begun
<1>6. ASSUME ~Measures(n) PROVE Learns(s, now)
  <2>1. Learns(v, now)
    BY <1>2, <1>3, <1>6 DEF SessionOK
  <2>2. Picked(s) = Picked(v) /\ PickedWindow(s) = PickedWindow(v)
    BY <1>4 DEF Picked, PickedWindow
  <2>3. v.attempt.measured = {} <=> First(n)
    BY <1>2 DEF First
  <2> QED
    BY <1>2, <1>4, <1>6, <2>1, <2>2, <2>3 DEF Learns
<1>7. s.live \subseteq Bridge /\ s.future \in {"open", "set", "cancelled"}
  BY <1>2, <1>3, <1>4 DEF SessionOK, SessionTyped
<1>8. /\ DOMAIN flow' = Flow /\ flow'[sess[n].flow] = w
      /\ \A g \in Flow \ {sess[n].flow} : flow'[g] = flow[g]
  BY <1>2, <1>3 DEF End, WizardInv, ClaimInv, Formed
<1>9. SessionMoves(n, s, w)
  BY <1>1, <1>2, <1>3, <1>4, <1>5, <1>6, <1>7, <1>8 DEF SessionMoves, End, Update
<1> QED
  BY <1>9, MovesKeep

LEMMA DeafKeeps ==
  ASSUME WizardInv, NEW f \in Flow, NEW n, NEW d, d = Deaf(f, n)
  PROVE  /\ WellKept(d) /\ d.task = flow[f].task /\ d.remote = flow[f].remote /\ d.adopted = flow[f].adopted
         /\ d.heard = flow[f].heard /\ d.overflowed = flow[f].overflowed
<1>1. PICK v : v = flow[f]
  OBVIOUS
<1>2. WellKept(v)
  BY <1>1 DEF WizardInv, ClaimInv, Formed
<1> QED
  BY <1>1, <1>2 DEF Deaf, WellKept

LEMMA FailsEnds ==
  ASSUME WizardInv, ClaimInv', NEW n \in Session, Open(n), NEW outcome, Fails(n, outcome),
         outcome \notin {"no_press", "captured"}
  PROVE  WizardInv'
<1>1. PICK d : d = Deaf(sess[n].flow, n)
  OBVIOUS
<1>2. sess[n].flow \in Flow
  BY DEF WizardInv, ClaimInv, Seated, Open
<1> QED
  BY <1>1, <1>2, DeafKeeps, EndKeeps DEF Fails

LEMMA AdoptEnds ==
  ASSUME WizardInv, ClaimInv', NEW n \in Session, Open(n), NEW press, Adopt(n, press),
         ~Measures(n) /\ First(n) =>
           /\ sess[n].choice \in {"won", "held"} /\ Picked(sess[n]) # NoCapture
           /\ ~Contested(PickedWindow(sess[n]))
  PROVE  WizardInv'
<1>1. PICK d : d = Deaf(sess[n].flow, n)
  OBVIOUS
<1>2. sess[n].flow \in Flow
  BY DEF WizardInv, ClaimInv, Seated, Open
<1>3. PICK w : w = [d EXCEPT !.rows = Append(@, [action |-> sess[n].attempt.action,
                                                 remote |-> press.remote,
                                                 button |-> press.button])]
  OBVIOUS
<1>4. WellKept(d)
  BY <1>1, <1>2, DeafKeeps
<1>5. w.task = d.task /\ w.remote = d.remote /\ w.adopted = d.adopted /\ w.heard = d.heard
  BY <1>3, <1>4 DEF WellKept
<1>6. End(n, "captured", w)
  BY <1>1, <1>3 DEF Adopt
<1> QED
  BY <1>1, <1>2, <1>5, <1>6, DeafKeeps, EndKeeps

----------------------------------------------------------------------------
(* Where sessions begin. *)

LEMMA Fresh ==
  /\ IsList(<<>>) /\ Len(<<>>) = 0 /\ Range(<<>>) = {}
  /\ \A wanted : RunOK(NewRun(wanted))
  /\ \A action, captures, t :
       /\ AttemptFields(NewAttempt(action, captures))
       /\ Remembered(NewAttempt(action, captures).recent, t)
       /\ action \in Buttons => AttemptOK(NewAttempt(action, captures), {}, t)
<1>1. IsList(<<>>) /\ Len(<<>>) = 0 /\ Range(<<>>) = {}
  BY DEF IsList, Range
<1>2. ASSUME NEW wanted PROVE RunOK(NewRun(wanted))
  BY <1>1, TravelAssumption DEF RunOK, NewRun
<1>3. ASSUME NEW action, NEW captures, NEW t
      PROVE  /\ AttemptFields(NewAttempt(action, captures))
             /\ Remembered(NewAttempt(action, captures).recent, t)
             /\ action \in Buttons => AttemptOK(NewAttempt(action, captures), {}, t)
  <2>1. PICK a : a = NewAttempt(action, captures)
    OBVIOUS
  <2>2. /\ AttemptFields(a) /\ a.action = action /\ a.recent = <<>>
        /\ a.won = NoCapture /\ a.held = NoCapture
    BY <2>1 DEF NewAttempt, AttemptFields
  <2>3. Remembered(<<>>, t)
    BY <1>1, AttemptAssumption DEF Remembered
  <2>4. Dated({}, t) /\ Recalls(<<>>, {}, t)
    BY DEF Dated, Recalls
  <2> QED
    BY <2>1, <2>2, <2>3, <2>4 DEF AttemptOK, CaptureJudged
<1> QED
  BY <1>1, <1>2, <1>3

LEMMA InitWizard == Init => WizardInv
<1> SUFFICES ASSUME Init PROVE WizardInv
  OBVIOUS
<1>1. /\ now = 0 /\ made = <<>> /\ wire = [b \in Bridge |-> <<>>]
      /\ flow = [f \in Flow |-> NewFlow] /\ sess = [n \in Session |-> NoSession]
  BY DEF Init
<1>2. /\ NoSession.phase = "idle" /\ NoSession.outcome = "none" /\ NoSession.future = "open"
      /\ NoSession.live = {} /\ NoSession.run = NewRun({})
      /\ NoSession.attempt = NewAttempt("none", {})
  BY DEF NoSession
<1>3. /\ NewFlow.task = 0 /\ NewFlow.outcome = "none" /\ NewFlow.heard = <<>>
      /\ NewFlow.adopted = <<>>
  BY DEF NewFlow
<1>4. Heralded
  BY <1>1, Fresh DEF Heralded
<1>5. SessionTyped(NoSession, now)
  BY <1>2, Fresh DEF SessionTyped
<1>6. \A n \in Session : SessionOK(n)
  BY <1>1, <1>2, <1>5 DEF SessionOK, Attended, Begun
<1>7. \A f \in Flow : WindowOK(f)
  BY <1>1, <1>3, Fresh, TravelAssumption DEF WindowOK
<1> QED
  BY <1>4, <1>6, <1>7, InitClaims DEF WizardInv

LEMMA AsksForAButton ==
  ASSUME NEW rows, Remaining(rows) # <<>>
  PROVE  Head(Remaining(rows)) \in Buttons
<1>1. PICK S : S = ToSet(LearnActions) \ {r.action : r \in ToSet(rows)}
  OBVIOUS
<1>2. LearnActions \in Seq(Buttons)
  BY DEF LearnActions, Buttons, Directions
<1>3. PICK t : t = Only(LearnActions, S)
  OBVIOUS
<1>4. t \in Seq(Buttons)
  BY <1>2, <1>3, OnlyKeeps
<1>5. t # <<>> /\ t = Remaining(rows)
  BY <1>1, <1>3 DEF Remaining
<1> QED
  BY <1>4, <1>5

\* A session that begins has heard nothing.
LEMMA BeginMoves ==
  ASSUME WizardInv, ClaimInv', NEW f \in Flow, NEW rows, NEW remote, NEW adopted,
         Begin(f, rows, remote, adopted),
         IsList(adopted), \A a \in Range(adopted) : AdoptedOK(a)
  PROVE  WizardInv'
<1>a. PICK n : n = Cardinality({m \in Session : sess[m].phase # "idle"}) + 1
  OBVIOUS
<1>1. PICK next : next = [flow[f] EXCEPT !.rows = rows, !.remote = remote, !.adopted = adopted,
                                         !.heard = <<>>, !.overflowed = FALSE]
  OBVIOUS
<1>2. WellKept(next) /\ next.task = flow[f].task /\ next.heard = <<>> /\ next.adopted = adopted
  <2>1. PICK v : v = flow[f]
    OBVIOUS
  <2>2. WellKept(v)
    BY <2>1 DEF WizardInv, ClaimInv, Formed
  <2> QED
    BY <1>1, <2>1, <2>2 DEF WellKept
<1>3. /\ flow[f].task = 0 /\ n <= cast.sessions /\ More(f, rows)
      /\ UNCHANGED <<cast, now, made, wire>>
  BY <1>a DEF Begin
<1>b. 0 <= HeardCap
  BY TravelAssumption
<1>4. CASE Busy(f) # {}
  <2>1. PICK w : w = [next EXCEPT !.outcome = "bridge_busy"]
    OBVIOUS
  <2>2. w.task = 0 /\ w.outcome = "bridge_busy" /\ w.heard = <<>> /\ w.adopted = adopted
    BY <1>2, <1>3, <2>1 DEF WellKept
  <2>3. flow' = [flow EXCEPT ![f] = w] /\ sess' = sess
    BY <1>1, <1>4, <2>1 DEF Begin
  <2>4. ASSUME NEW m \in Session, Begun(m), sess[m].flow = f PROVE sess[m].phase = "over"
    BY <1>3, <2>4, WizardAssumption DEF WizardInv, SessionOK, Attended, Begun, Session
  <2>5. WindowMoves(f, w)
    BY <1>3, <1>b, <2>2, <2>3, <2>4, Fresh DEF WindowMoves
  <2> QED
    BY <2>5, WindowMovesKeep
<1>5. CASE Busy(f) = {}
  <2>1. PICK w : w = [next EXCEPT !.sid = n, !.task = n]
    OBVIOUS
  <2>2. PICK s : s = Opening(f, rows)
    OBVIOUS
  <2>3. w.task = n /\ w.heard = <<>> /\ w.adopted = adopted
    BY <1>2, <2>1 DEF WellKept
  <2>4. flow' = [flow EXCEPT ![f] = w] /\ sess' = [sess EXCEPT ![n] = s]
    BY <1>a, <1>1, <1>5, <2>1, <2>2 DEF Begin
  <2>5. /\ n \in Session /\ sess[n].phase = "idle"
        /\ \A m \in Session : sess[m].phase # "idle" <=> m <= n - 1
    BY <1>a, <1>3, NextNumber DEF WizardInv
  <2>6. ~Begun(n) /\ \A m \in Session : Begun(m) => m < n
    BY <2>5 DEF Begun, Session
  <2>7. PICK new : new = [NoSession EXCEPT !.flow = f, !.phase = "arming",
                             !.waiting = cast.wizard[f].bridges, !.before = HeardBefore(f)]
    OBVIOUS
  <2>8. /\ WellSet(new) /\ new.phase = "arming" /\ new.flow = f /\ new.outcome = "none"
        /\ new.run = NewRun({}) /\ new.live = {} /\ new.future = "open" /\ new.ears = {}
        /\ new.old = {} /\ new.attempt = NewAttempt("none", {})
    BY <2>7 DEF WellSet, NoSession
  <2>9. /\ s.flow = f /\ s.phase = "arming" /\ s.outcome = "none" /\ SessionTyped(s, now)
        /\ IF Kind(f) = "measure" THEN s.ears = {} /\ s.old = {} ELSE Learns(s, now)
    <3>1. CASE Kind(f) = "measure"
      <4>1. s = [new EXCEPT !.run = NewRun(Wanted(rows))]
        BY <2>2, <2>7, <3>1 DEF Opening
      <4>2. /\ s.flow = f /\ s.phase = "arming" /\ s.outcome = "none" /\ s.ears = {} /\ s.old = {}
            /\ s.run = NewRun(Wanted(rows)) /\ s.live = {} /\ s.future = "open"
            /\ s.attempt = NewAttempt("none", {})
        BY <2>8, <4>1 DEF WellSet
      <4>3. SessionTyped(s, now)
        BY <4>2, Fresh DEF SessionTyped
      <4> QED
        BY <3>1, <4>2, <4>3
    <3>2. CASE Kind(f) # "measure"
      <4>1. PICK captures : captures = {[remote |-> r.remote, button |-> r.button] : r \in ToSet(rows)}
        OBVIOUS
      <4>2. PICK a : a = NewAttempt(Head(Remaining(rows)), captures)
        OBVIOUS
      <4>3. s = [new EXCEPT !.attempt = a]
        BY <2>2, <2>7, <3>2, <4>1, <4>2 DEF Opening
      <4>4. /\ s.flow = f /\ s.phase = "arming" /\ s.outcome = "none" /\ s.ears = {}
            /\ s.run = NewRun({}) /\ s.live = {} /\ s.future = "open" /\ s.attempt = a
        BY <2>8, <4>3 DEF WellSet
      <4>5. Head(Remaining(rows)) \in Buttons
        BY <1>3, <3>2, AsksForAButton DEF More
      <4>6. AttemptFields(a) /\ Remembered(a.recent, now) /\ AttemptOK(a, {}, now)
        BY <4>2, <4>5, Fresh
      <4>7. SessionTyped(s, now) /\ Learns(s, now)
        BY <4>4, <4>6, Fresh DEF SessionTyped, Learns
      <4> QED
        BY <3>2, <4>4, <4>7
    <3> QED
      BY <3>1, <3>2
  <2>10. SessionOpens(f, n, s, w)
    BY <1>3, <1>b, <2>3, <2>4, <2>6, <2>9, Fresh DEF SessionOpens
  <2> QED
    BY <2>5, <2>10, OpeningKeeps
<1> QED
  BY <1>4, <1>5

\* The remote that is taken over is the only one the last session rejected.
LEMMA HeardIsAdoptable ==
  ASSUME WizardInv, NEW f \in Flow, flow[f].task = 0, flow[f].outcome = "no_press",
         NEW r \in Adoptable(f), NEW a,
         a = [remote |-> r, stored |-> flow[f].remote, by |-> LastOf(f)]
  PROVE  AdoptedOK(a)
<1>1. PICK n \in Session : /\ sess[n].phase = "over" /\ sess[n].flow = f /\ Latest(n)
                           /\ Measures(n) /\ Shows(flow[f], n)
  BY DEF WizardInv, WindowOK
<1>2. LastOf(f) = n
  <2>1. PICK S : S = {m \in Session : sess[m].flow = f /\ sess[m].phase # "idle"}
    OBVIOUS
  <2>2. n \in S /\ S \subseteq Nat /\ \A m \in S : m <= n
    BY <1>1, <2>1, WizardAssumption DEF Latest, Begun, Session
  <2>3. PICK x : x = Max(S)
    OBVIOUS
  <2>4. x \in S /\ \A m \in S : x >= m
    BY <2>2, <2>3 DEF Max
  <2>5. x = n
    BY <2>2, <2>4
  <2> QED
    BY <2>1, <2>3, <2>5 DEF LastOf
<1>3. /\ ~flow[f].overflowed /\ \A h \in ToSet(flow[f].heard) : h[1][1] = r
  BY DEF Adoptable
<1>4. Hearing(n) /\ Current(n)
  BY <1>1 DEF WizardInv, SessionOK, Begun, Current
<1>5. ASSUME NEW i \in sess[n].ears \cup sess[n].old
      PROVE  Who(made[i]) = <<flow[f].remote, OwnSel>> \/ made[i].remote = r
  <2>1. Names(n, i) /\ ~sess[n].run.overflowed
    BY <1>1, <1>3, <1>4 DEF Hearing, Shows
  <2>2. ASSUME <<Who(made[i]), Inferred(made[i])>> \in Range(sess[n].run.heard)
        PROVE  made[i].remote = r
    <3>1. <<Who(made[i]), Inferred(made[i])>> \in ToSet(flow[f].heard)
      BY <1>1, <2>2 DEF Shows, Range, ToSet
    <3> QED
      BY <1>3, <3>1 DEF Who
  <2> QED
    BY <1>1, <2>1, <2>2 DEF Names
<1>6. a.remote = r /\ a.stored = flow[f].remote /\ a.by = n
  BY <1>2
<1> QED
  BY <1>1, <1>5, <1>6 DEF AdoptedOK

LEMMA FreeWindow ==
  ASSUME NEW f, NEW rows, NEW remote, NEW adopted, Begin(f, rows, remote, adopted)
  PROVE  flow[f].task = 0
BY DEF Begin

LEMMA StartsKeep ==
  ASSUME WizardInv, ClaimInv', NEW f \in Flow, Start(f) \/ Redo(f) \/ UseHeard(f)
  PROVE  WizardInv'
<1>1. IsList(flow[f].adopted) /\ \A a \in Range(flow[f].adopted) : AdoptedOK(a)
  BY DEF WizardInv, WindowOK
<1>2. CASE Start(f) \/ Redo(f)
  BY <1>1, <1>2, BeginMoves DEF Start, Redo
<1>3. CASE UseHeard(f)
  <2>1. PICK r \in Adoptable(f) :
          Begin(f, flow[f].rows, r,
                Append(flow[f].adopted,
                       [remote |-> r, stored |-> flow[f].remote, by |-> LastOf(f)]))
    BY <1>3 DEF UseHeard
  <2>2. PICK a : a = [remote |-> r, stored |-> flow[f].remote, by |-> LastOf(f)]
    OBVIOUS
  <2>a. flow[f].outcome = "no_press"
    BY <1>3 DEF UseHeard
  <2>b. flow[f].task = 0
    BY <2>1, FreeWindow
  <2>3. AdoptedOK(a)
    BY <2>a, <2>b, <2>2, HeardIsAdoptable
  <2>4. IsList(Append(flow[f].adopted, a))
        /\ Range(Append(flow[f].adopted, a)) = Range(flow[f].adopted) \cup {a}
    BY <1>1, ListAppend
  <2> QED
    BY <1>1, <2>1, <2>2, <2>3, <2>4, BeginMoves
<1> QED
  BY <1>2, <1>3

\* A window reads what its task found, or is left.
LEMMA WindowStepMoves ==
  ASSUME WizardInv, ClaimInv', NEW f \in Flow, Report(f) \/ Leave(f)
  PROVE  WizardInv'
<1>1. PICK v : v = flow[f]
  OBVIOUS
<1>2. PICK n : n = v.task
  OBVIOUS
<1>3. WellKept(v) /\ WindowOK(f)
  BY <1>1 DEF WizardInv, ClaimInv, Formed
<1>4. n # 0 => n \in Session /\ sess[n].flow = f /\ Begun(n) /\ Latest(n)
  BY <1>1, <1>2, <1>3 DEF WizardInv, ClaimInv, Claims, Seated, Begun, WindowOK
<1>5. ASSUME NEW m \in Session, Begun(m), sess[m].flow = f, sess[m].phase # "over"
      PROVE  m = n /\ n # 0
  BY <1>1, <1>2, <1>5, WizardAssumption DEF WizardInv, SessionOK, Attended, Begun, Session
<1>6. /\ IsList(v.heard) /\ Len(v.heard) <= HeardCap
      /\ IsList(v.adopted) /\ \A a \in Range(v.adopted) : AdoptedOK(a)
  BY <1>1, <1>3 DEF WindowOK
<1>7. CASE Report(f)
  <2>1. PICK w : w = [v EXCEPT !.task = 0, !.outcome = sess[v.task].outcome,
                               !.rows = IF sess[v.task].outcome = "measured"
                                        THEN Append(@, sess[v.task].result) ELSE @]
    OBVIOUS
  <2>2. flow' = [flow EXCEPT ![f] = w]
    BY <1>1, <1>7, <2>1 DEF Report
  <2>3. /\ w.task = 0 /\ w.outcome = sess[n].outcome /\ w.heard = v.heard
        /\ w.overflowed = v.overflowed /\ w.remote = v.remote /\ w.adopted = v.adopted
    BY <1>2, <1>3, <2>1 DEF WellKept
  <2>4. n # 0 /\ sess[n].phase = "over" /\ UNCHANGED <<cast, now, made, wire, sess>>
    BY <1>1, <1>2, <1>7 DEF Report
  <2>5. n \in Session /\ sess[n].flow = f /\ Begun(n) /\ Latest(n)
    BY <1>4, <2>4
  <2>6. ASSUME sess[n].outcome = "no_press" PROVE Measures(n) /\ Shows(w, n)
    BY <1>1, <1>2, <1>3, <2>3, <2>4, <2>6 DEF WindowOK, Shows
  <2>7. ASSUME NEW m \in Session, Begun(m), sess[m].flow = f, Latest(m) PROVE Current(m)
    <3>1. m <= n /\ n <= m
      BY <2>5, <2>7 DEF Latest
    <3>2. m = n
      BY <2>5, <3>1, WizardAssumption DEF Session
    <3> QED
      BY <1>1, <1>2, <2>5, <3>2 DEF Current
  <2>8. ASSUME NEW m \in Session, Begun(m), sess[m].flow = f PROVE sess[m].phase = "over"
    BY <1>5, <2>4, <2>8
  <2>9. WindowMoves(f, w)
    BY <1>1, <1>6, <2>2, <2>3, <2>4, <2>5, <2>6, <2>7, <2>8 DEF WindowMoves
  <2> QED
    BY <2>9, WindowMovesKeep
<1>8. CASE Leave(f)
  <2>1. PICK w : w = [v EXCEPT !.gone = TRUE, !.sid = 0]
    OBVIOUS
  <2>2. /\ w.task = n /\ w.outcome = v.outcome /\ w.heard = v.heard
        /\ w.overflowed = v.overflowed /\ w.remote = v.remote /\ w.adopted = v.adopted
    BY <1>2, <1>3, <2>1 DEF WellKept
  <2>3. CASE n # 0 /\ Open(n)
    <3>1. End(n, "removed", w)
      BY <1>1, <1>2, <1>8, <2>1, <2>3 DEF Leave
    <3> QED
      BY <1>1, <1>2, <1>4, <2>2, <2>3, <3>1, EndKeeps
  <2>4. CASE ~(n # 0 /\ Open(n))
    <3>1. flow' = [flow EXCEPT ![f] = w] /\ UNCHANGED <<cast, now, made, wire, sess>>
      BY <1>1, <1>2, <1>8, <2>1, <2>4 DEF Leave
    <3>2. ASSUME w.task = 0, NEW m \in Session, Begun(m), sess[m].flow = f
          PROVE  sess[m].phase = "over"
      BY <1>5, <2>2, <3>2
    <3>3. ASSUME w.task = 0, w.outcome = "no_press"
          PROVE  \E m \in Session : /\ sess[m].phase = "over" /\ sess[m].flow = f /\ Latest(m)
                                    /\ Measures(m) /\ Shows(w, m)
      BY <1>1, <1>2, <1>3, <2>2, <3>3 DEF WindowOK, Shows
    <3>4. ASSUME w.task = 0, w.outcome = "no_press", NEW m \in Session, Latest(m), sess[m].flow = f
          PROVE  Current(m)
      BY <1>1, <1>2, <2>2, <3>4 DEF Current
    <3>5. WindowMoves(f, w)
      BY <1>1, <1>2, <1>6, <2>2, <3>1, <3>2, <3>3, <3>4 DEF WindowMoves
    <3> QED
      BY <3>5, WindowMovesKeep
  <2> QED
    BY <2>3, <2>4
<1> QED
  BY <1>7, <1>8

\* What is known of a session that is not torn down yet.
LEMMA OpenSession ==
  ASSUME WizardInv, NEW n \in Session, Open(n)
  PROVE  /\ WellSet(sess[n]) /\ SessionTyped(sess[n], now) /\ Begun(n)
         /\ sess[n].phase \notin {"idle", "stopping", "over"}
         /\ sess[n].outcome = "none" /\ sess[n].flow \in Flow
         /\ flow[sess[n].flow].task = n
         /\ ~Measures(n) => Learns(sess[n], now)
<1>1. WellSet(sess[n]) /\ SessionOK(n) /\ Begun(n) /\ sess[n].flow \in Flow
  BY DEF WizardInv, ClaimInv, Formed, Seated, Open, Begun
<1>2. sess[n].phase \notin {"idle", "stopping", "over"}
  BY DEF Open
<1> QED
  BY <1>1, <1>2 DEF SessionOK, Attended

LEMMA PhaseGoesOn ==
  ASSUME WizardInv, ClaimInv', NEW n \in Session, Open(n),
         NEW phase \in {"hearing", "gap", "running"},
         OnlySession(n, [sess[n] EXCEPT !.phase = phase])
  PROVE  WizardInv'
<1>1. PICK v : v = sess[n]
  OBVIOUS
<1>2. PICK s : s = [v EXCEPT !.phase = phase]
  OBVIOUS
<1>3. WellSet(v) /\ SessionTyped(v, now) /\ v.outcome = "none" /\ Begun(n) /\ v.phase # "over"
      /\ (~Measures(n) => Learns(v, now))
  BY <1>1, OpenSession
<1>4. /\ s.phase = phase /\ s.flow = v.flow /\ s.run = v.run /\ s.attempt = v.attempt
      /\ s.ears = v.ears /\ s.old = v.old /\ s.live = v.live /\ s.future = v.future
      /\ s.outcome = v.outcome /\ s.choice = v.choice
  BY <1>2, <1>3 DEF WellSet
<1>5. ~Measures(n) => Learns(s, now)
  BY <1>3, <1>4 DEF Learns
<1>6. s.live \subseteq Bridge /\ s.future \in {"open", "set", "cancelled"}
  BY <1>3, <1>4 DEF SessionTyped
<1>7. Update(n, s) /\ UNCHANGED <<cast, now, made, wire, flow>>
  BY <1>1, <1>2 DEF OnlySession
<1>8. s.phase # "idle" /\ s.outcome # "no_press"
  BY <1>3, <1>4
<1> QED
  BY <1>1, <1>3, <1>4, <1>5, <1>6, <1>7, <1>8, GoesOnKeeps

LEMMA ArmingMoves ==
  ASSUME WizardInv, ClaimInv', NEW n \in Session,
         (\E b \in Bridge : Subscribed(n, b) \/ SubscribeFails(n, b)) \/ Listen(n)
  PROVE  WizardInv'
<1>1. PICK v : v = sess[n]
  OBVIOUS
<1>2. ASSUME Open(n), NEW s, OnlySession(n, s), s.live \subseteq Bridge,
             s.phase = v.phase, s.flow = v.flow, s.run = v.run, s.attempt = v.attempt,
             s.ears = v.ears, s.old = v.old, s.future = v.future,
             s.outcome = v.outcome, s.choice = v.choice
      PROVE  WizardInv'
  <2>1. WellSet(v) /\ SessionTyped(v, now) /\ v.outcome = "none" /\ Begun(n)
        /\ v.phase \notin {"idle", "over"} /\ (~Measures(n) => Learns(v, now))
    BY <1>1, <1>2, OpenSession
  <2>3. ~Measures(n) => Learns(s, now)
    BY <1>2, <2>1 DEF Learns, Picked, PickedWindow
  <2>4. s.live \subseteq Bridge /\ s.future \in {"open", "set", "cancelled"}
    BY <1>2, <2>1 DEF SessionTyped
  <2>5. Update(n, s) /\ UNCHANGED <<cast, now, made, wire, flow>>
    BY <1>2 DEF OnlySession
  <2>6. s.phase # "idle" /\ s.outcome # "no_press"
    BY <1>2, <2>1
  <2> QED
    BY <1>1, <1>2, <2>1, <2>3, <2>4, <2>5, <2>6, GoesOnKeeps
<1>3. WellSet(v) /\ v.live \subseteq Bridge
  BY <1>1 DEF WizardInv, ClaimInv, Formed, SessionOK, SessionTyped
<1>4. sess[n].waiting # {} => Open(n)
  BY DEF WizardInv, ClaimInv, Claims
<1>5. ASSUME NEW b \in Bridge, Subscribed(n, b) PROVE WizardInv'
  <2>1. PICK ready \in BOOLEAN :
          OnlySession(n, [sess[n] EXCEPT !.waiting = @ \ {b}, !.subs = @ \cup {b},
                                         !.live = IF ready THEN @ \cup {b} ELSE @])
    BY <1>5, Zenon DEF Subscribed
  <2>2. PICK s : s = [v EXCEPT !.waiting = @ \ {b}, !.subs = @ \cup {b},
                               !.live = IF ready THEN @ \cup {b} ELSE @]
    OBVIOUS
  <2>3. OnlySession(n, s)
    BY <1>1, <2>1, <2>2
  <2>4. Open(n)
    <3>1. b \in sess[n].waiting
      BY <1>5, Zenon DEF Subscribed
    <3> QED
      BY <1>4, <3>1
  <2>5. /\ s.phase = v.phase /\ s.flow = v.flow /\ s.run = v.run /\ s.attempt = v.attempt
        /\ s.ears = v.ears /\ s.old = v.old /\ s.future = v.future
        /\ s.outcome = v.outcome /\ s.choice = v.choice
        /\ s.live \in {v.live, v.live \cup {b}}
    BY <1>3, <2>2 DEF WellSet
  <2> QED
    BY <1>2, <1>3, <2>3, <2>4, <2>5
<1>6. ASSUME NEW b \in Bridge, SubscribeFails(n, b) PROVE WizardInv'
  <2>1. PICK s : s = [v EXCEPT !.waiting = @ \ {b}]
    OBVIOUS
  <2>2. OnlySession(n, s) /\ Open(n)
    BY <1>1, <1>4, <1>6, <2>1 DEF SubscribeFails
  <2>3. /\ s.phase = v.phase /\ s.flow = v.flow /\ s.run = v.run /\ s.attempt = v.attempt
        /\ s.ears = v.ears /\ s.old = v.old /\ s.future = v.future
        /\ s.outcome = v.outcome /\ s.choice = v.choice /\ s.live = v.live
    BY <1>3, <2>1 DEF WellSet
  <2> QED
    BY <1>2, <1>3, <2>2, <2>3
<1>7. ASSUME Listen(n) PROVE WizardInv'
  <2>1. Open(n)
    BY <1>7 DEF Listen, Open
  <2>2. CASE sess[n].live = {}
    <3>1. PICK outcome \in {"failed", "timeout"} : Fails(n, outcome)
      BY <1>7, <2>2 DEF Listen
    <3> QED
      BY <2>1, <3>1, FailsEnds
  <2>3. CASE sess[n].live # {}
    BY <1>7, <2>1, <2>3, PhaseGoesOn DEF Listen
  <2> QED
    BY <2>2, <2>3
<1> QED
  BY <1>5, <1>6, <1>7

LEMMA MeasuringMoves ==
  ASSUME WizardInv, ClaimInv', NEW n \in Session,
         ArmHeard(n) \/ ArmTimeout(n) \/ AwaitStop(n) \/ Finish(n) \/ FinishTimeout(n)
  PROVE  WizardInv'
<1>1. CASE ArmHeard(n) \/ AwaitStop(n)
  BY <1>1, PhaseGoesOn DEF ArmHeard, AwaitStop, Open
<1>2. CASE Finish(n) \/ FinishTimeout(n)
  BY <1>2, FailsEnds DEF Finish, FinishTimeout, Open
<1>3. CASE ArmTimeout(n)
  <2>1. Open(n) /\ Measures(n) /\ sess[n].flow \in Flow
    BY <1>3 DEF ArmTimeout, Open, WizardInv, ClaimInv, Seated
  <2>2. PICK d : d = Deaf(sess[n].flow, n)
    OBVIOUS
  <2>3. PICK w : w = [d EXCEPT !.heard = sess[n].run.heard, !.overflowed = sess[n].run.overflowed]
    OBVIOUS
  <2>4. WellKept(d) /\ d.task = flow[sess[n].flow].task /\ d.remote = flow[sess[n].flow].remote
        /\ d.adopted = flow[sess[n].flow].adopted
    BY <2>1, <2>2, DeafKeeps
  <2>5. w.task = d.task /\ w.remote = d.remote /\ w.adopted = d.adopted
        /\ w.heard = sess[n].run.heard /\ w.overflowed = sess[n].run.overflowed
    BY <2>3, <2>4 DEF WellKept
  <2>6. End(n, "no_press", w)
    BY <1>3, <2>2, <2>3 DEF ArmTimeout
  <2> QED
    BY <2>1, <2>4, <2>5, <2>6, EndKeeps
<1> QED
  BY <1>1, <1>2, <1>3

LEMMA ChooseMoves ==
  ASSUME WizardInv, ClaimInv', NEW n \in Session, Open(n), ~Measures(n),
         NEW choice \in {"won", "held"}, Choose(n, choice), Chosen(n, choice) # NoCapture
  PROVE  WizardInv'
<1>1. CASE First(n)
  <2>1. PICK v : v = sess[n]
    OBVIOUS
  <2>2. PICK s : s = [v EXCEPT !.phase = "settling", !.choice = choice,
                               !.future = IF @ = "open" THEN "cancelled" ELSE @]
    OBVIOUS
  <2>3. WellSet(v) /\ SessionTyped(v, now) /\ v.outcome = "none" /\ Begun(n)
        /\ v.phase # "over" /\ Learns(v, now)
    BY <2>1, OpenSession
  <2>4. /\ s.phase = "settling" /\ s.flow = v.flow /\ s.run = v.run /\ s.attempt = v.attempt
        /\ s.ears = v.ears /\ s.old = v.old /\ s.live = v.live
        /\ s.future = IF v.future = "open" THEN "cancelled" ELSE v.future
        /\ s.outcome = v.outcome /\ s.choice = choice
    BY <2>2, <2>3 DEF WellSet
  <2>5. Picked(s) # NoCapture
    BY <2>1, <2>4 DEF Picked, Chosen
  <2>6. Learns(s, now)
    BY <2>3, <2>4, <2>5 DEF Learns
  <2>7. s.live \subseteq Bridge /\ s.future \in {"open", "set", "cancelled"}
    BY <2>3, <2>4 DEF SessionTyped
  <2>8. Update(n, s) /\ UNCHANGED <<cast, now, made, wire, flow>>
    BY <1>1, <2>1, <2>2 DEF Choose, OnlySession
  <2> QED
    BY <2>1, <2>3, <2>4, <2>6, <2>7, <2>8, GoesOnKeeps
<1>2. CASE ~First(n)
  BY <1>2, AdoptEnds DEF Choose
<1> QED
  BY <1>1, <1>2

LEMMA LearningMoves ==
  ASSUME WizardInv, ClaimInv', NEW n \in Session, Won(n) \/ CaptureTimeout(n) \/ Settled(n)
  PROVE  WizardInv'
<1>1. Open(n)
  BY DEF Won, CaptureTimeout, Settled, Open
<1>2. CASE Won(n)
  <2>1. ~Measures(n) /\ Choose(n, "won") /\ sess[n].attempt.won # NoCapture
    BY <1>1, <1>2, OpenSession DEF Won, Learns
  <2> QED
    BY <1>1, <2>1, ChooseMoves DEF Chosen
<1>3. CASE CaptureTimeout(n)
  <2>1. CASE sess[n].attempt.held = NoCapture
    BY <1>1, <1>3, <2>1, FailsEnds DEF CaptureTimeout
  <2>2. CASE sess[n].attempt.held # NoCapture
    <3>1. ~Measures(n) /\ Choose(n, "held") /\ Chosen(n, "held") # NoCapture
      BY <1>3, <2>2 DEF CaptureTimeout, Chosen
    <3> QED
      BY <1>1, <3>1, ChooseMoves
  <2> QED
    BY <2>1, <2>2
<1>4. CASE Settled(n)
  <2>1. CASE Contested(Verdict(n, sess[n].choice))
    BY <1>1, <1>4, <2>1, FailsEnds DEF Settled
  <2>2. CASE ~Contested(Verdict(n, sess[n].choice))
    <3>1. Adopt(n, Chosen(n, sess[n].choice)) /\ sess[n].phase = "settling"
      BY <1>4, <2>2 DEF Settled
    <3>2. ~Measures(n) => /\ sess[n].choice \in {"won", "held"} /\ Picked(sess[n]) # NoCapture
                          /\ ~Contested(PickedWindow(sess[n]))
      BY <1>1, <2>2, <3>1, OpenSession DEF Learns, Verdict, PickedWindow
    <3> QED
      BY <1>1, <3>1, <3>2, AdoptEnds
  <2> QED
    BY <2>1, <2>2
<1> QED
  BY <1>2, <1>3, <1>4

LEMMA StopsMove ==
  ASSUME WizardInv, ClaimInv', NEW n \in Session, StopsEnd(n)
  PROVE  WizardInv'
<1>1. PICK v : v = sess[n]
  OBVIOUS
<1>2. PICK s : s = [v EXCEPT !.phase = "over"]
  OBVIOUS
<1>3. v.phase = "stopping" /\ Begun(n) /\ WellSet(v) /\ SessionOK(n)
  BY <1>1 DEF StopsEnd, Begun, WizardInv, ClaimInv, Formed
<1>4. /\ s.phase = "over" /\ s.flow = v.flow /\ s.run = v.run /\ s.attempt = v.attempt
      /\ s.ears = v.ears /\ s.old = v.old /\ s.live = v.live /\ s.future = v.future
      /\ s.outcome = v.outcome /\ s.choice = v.choice
  BY <1>2, <1>3 DEF WellSet
<1>5. ~Measures(n) => Learns(s, now)
  BY <1>1, <1>3, <1>4 DEF SessionOK, Learns, Picked, PickedWindow
<1>6. s.live \subseteq Bridge /\ s.future \in {"open", "set", "cancelled"}
  BY <1>1, <1>3, <1>4 DEF SessionOK, SessionTyped
<1>7. Update(n, s) /\ UNCHANGED <<cast, now, made, wire, flow>>
  BY <1>1, <1>2 DEF StopsEnd
<1> QED
  BY <1>1, <1>3, <1>4, <1>5, <1>6, <1>7, GoesOnKeeps

----------------------------------------------------------------------------
(* The theorems that rest on WizardInv. *)

LEMMA WizardStep ==
  ASSUME WizardInv, [Next]_vars
  PROVE  WizardInv'
<1>1. ClaimInv'
  BY ClaimStep DEF WizardInv
<1>2. ASSUME NEW f \in Flow, Start(f) \/ Redo(f) \/ UseHeard(f) PROVE WizardInv'
  BY <1>1, <1>2, StartsKeep
<1>3. ASSUME NEW f \in Flow, Report(f) \/ Leave(f) PROVE WizardInv'
  BY <1>1, <1>3, WindowStepMoves
<1>4. ASSUME NEW n \in Session, Goes(n) PROVE WizardInv'
  BY <1>1, <1>4, ArmingMoves, StopsMove, MeasuringMoves, LearningMoves DEF Goes
<1>5. ASSUME NEW b \in Bridge, Deliver(b) PROVE WizardInv'
  BY <1>1, <1>5, DeliverKeeps
<1> QED
  BY <1>1, <1>2, <1>3, <1>4, <1>5, AirMovesKeep DEF Next

\* The lists a wizard keeps of what it hears stay within their caps, whatever is
\* pressed on the air and however often: _heard and _recent are bounded by
\* _HEARD_CAP and _LEARN_CANDIDATE_CAP (travel_capture.py, learn_session.py), a
\* session listens through its own bridges, and its future is set or cancelled
\* once.
THEOREM TypeCorrect == Spec => []TypeOK
<1>1. Init => WizardInv
  BY InitWizard
<1>2. WizardInv /\ [Next]_vars => WizardInv'
  BY WizardStep
<1>3. ASSUME WizardInv PROVE TypeOK
  <2>1. \A f \in Flow : Len(flow[f].heard) <= HeardCap
    BY <1>3 DEF WizardInv, WindowOK
  <2>2. \A n \in Session :
          /\ Len(sess[n].run.heard) <= HeardCap
          /\ Len(sess[n].attempt.recent) <= CandidateCap
          /\ sess[n].live \subseteq Bridge
          /\ sess[n].future \in {"open", "set", "cancelled"}
    BY <1>3 DEF WizardInv, SessionOK, SessionTyped, RunOK, Remembered
  <2> QED
    BY <1>3, <2>1, <2>2 DEF WizardInv, ClaimInv, Heralded, TypeOK
<1> QED
  BY <1>1, <1>2, <1>3, PTL DEF Spec

\* Whichever remotes are pressed around a wizard, in whatever order and however
\* late a bridge delivers them: the first capture learned was alone in its settle
\* window, although the list of candidates forgets presses when it is full, and a
\* remote taken over from a measurement is the only one that measurement rejected,
\* although the list of heard presses is bounded too
\* (_async_settle_first_capture, config_flow.py:2572, cover_measure_use_heard,
\* line 2262).
THEOREM AdoptionsUnrivalled == Spec => []AdoptedIsUnrivalled
<1>1. Init => WizardInv
  BY InitWizard
<1>2. WizardInv /\ [Next]_vars => WizardInv'
  BY WizardStep
<1>3. ASSUME WizardInv PROVE AdoptedIsUnrivalled
  <2>1. ASSUME NEW n \in Session, ~Measures(n), First(n), sess[n].outcome = "captured",
               NEW e \in sess[n].ears, e[1] # Who(Chosen(n, sess[n].choice))
        PROVE  LET window == Verdict(n, sess[n].choice)
               IN  e[2] - window.anchor > Settle \/ window.anchor - e[2] > Settle
    <3>1. PICK s : s = sess[n]
      OBVIOUS
    <3>2. Begun(n)
      BY <1>3, <2>1 DEF WizardInv, SessionOK, Attended, Begun
    <3>3. Learns(s, now) /\ s.attempt.measured = {}
      BY <1>3, <2>1, <3>1, <3>2 DEF WizardInv, SessionOK, First
    <3>4. /\ s.choice \in {"won", "held"} /\ Picked(s) # NoCapture
          /\ ~Contested(PickedWindow(s)) /\ AttemptOK(s.attempt, s.ears, now)
      BY <2>1, <3>1, <3>3 DEF Learns
    <3>5. Judges(PickedWindow(s), Who(Picked(s)), s.ears, now) /\ PickedWindow(s).rivals = {}
      BY <3>3, <3>4 DEF AttemptOK, CaptureJudged, Picked, PickedWindow, Contested
    <3>6. Picked(s) = Chosen(n, s.choice) /\ PickedWindow(s) = Verdict(n, s.choice)
      BY <3>1 DEF Picked, PickedWindow, Chosen, Verdict
    <3> QED
      BY <2>1, <3>1, <3>5, <3>6 DEF Judges
  <2>2. ASSUME NEW f \in Flow, NEW a \in ToSet(flow[f].adopted)
        PROVE  \A i \in sess[a.by].ears \cup sess[a.by].old :
                 Who(made[i]) = <<a.stored, OwnSel>> \/ made[i].remote = a.remote
    <3>1. a \in Range(flow[f].adopted)
      BY DEF ToSet, Range
    <3>2. AdoptedOK(a)
      BY <1>3, <3>1 DEF WizardInv, WindowOK
    <3> QED
      BY <3>2 DEF AdoptedOK
  <2> QED
    BY <2>1, <2>2 DEF AdoptedIsUnrivalled
<1> QED
  BY <1>1, <1>2, <1>3, PTL DEF Spec
=============================================================================
