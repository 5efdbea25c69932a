------------------------- MODULE CoverFamilyProofs -------------------------
(***************************************************************************)
(* That CoverFamily implements PositionTrust, for any covers, calls and    *)
(* casts: whatever commands, presses, statuses and reloads cross each      *)
(* other, a leaf's confidence is earned by a watched full travel only.     *)
(*                                                                         *)
(* And that a heard press stays in the models: what drove the motors last, *)
(* if it was the remote, is never overwritten by what is acknowledged,     *)
(* taken over or restored after it.                                        *)
(*                                                                         *)
(* The first part is about LeafModel alone: what each operator makes of a  *)
(* sound model.  The second part follows the actions and ends with the     *)
(* refinement.  The third part is about presses: who may be waiting for    *)
(* what (Sequenced), and what a leaf heeds meanwhile (Heedful).  The last  *)
(* part is about the values of the variables (Valued).                     *)
(***************************************************************************)
EXTENDS CoverFamily, QueueOpsProofs, TLAPS

\* Two leaves never share a motor, which is why each owns its position: what
\* laminar_conflict admits and derive_role calls a leaf.
THEOREM LeavesAreDisjoint ==
  ASSUME NEW l \in Leaf, NEW m \in Leaf, l # m
  PROVE  Chan[l] \cap Chan[m] = {}
<1>1. SUFFICES ASSUME Chan[l] \cap Chan[m] # {} PROVE FALSE
  OBVIOUS
<1>2. l \in Cover /\ m \in Cover
  BY DEF Leaf
<1>3. Chan[l] # Chan[m] /\ (Chan[l] \subseteq Chan[m] \/ Chan[m] \subseteq Chan[l])
  BY <1>1, <1>2, TopologyAssumption DEF Laminar, Admissible
<1>4. l \in Aggregate \/ m \in Aggregate
  BY <1>2, <1>3 DEF Aggregate, StrictlyInside
<1> QED
  BY <1>4 DEF Leaf

May(grade) == Trust!May(grade)

\* The fields of a model; what set a motion going does not matter here.
WellFormed(f) ==
  /\ f = [pos |-> f.pos, motion |-> f.motion, anchored |-> f.anchored,
          suspect |-> f.suspect, anchor |-> f.anchor,
          anchorOffline |-> f.anchorOffline, stopped |-> f.stopped]
  /\ f.motion = [dir |-> f.motion.dir, target |-> f.motion.target,
                 start |-> f.motion.start, by |-> f.motion.by,
                 timed |-> f.motion.timed, absolute |-> f.motion.absolute,
                 recovered |-> f.motion.recovered]
  /\ f.anchored \in BOOLEAN /\ f.suspect \in BOOLEAN /\ f.motion.recovered \in BOOLEAN

\* Only a leaf at rest is anchored, and a travel that began who knows where
\* goes to an end.
Sound(f) ==
  /\ WellFormed(f)
  /\ f.anchored => f.pos # Unknown /\ ~Moving(f)
  /\ Moving(f) =>
       /\ f.motion.target # Unknown
       /\ f.pos = Unknown <=> f.motion.start = Unknown
       /\ f.motion.start = Unknown => f.motion.target \in Ends

\* g claims no more than f, and doubts what f doubts.
Keeps(f, g) ==
  /\ g.pos # Unknown => f.pos # Unknown /\ (g.suspect <=> f.suspect)
  /\ g.anchored => f.anchored

\* What an operator that knows no position from nothing makes of f.
Evolves(f, g) ==
  /\ Sound(g)
  /\ g.pos # Unknown => f.pos # Unknown
  /\ Confidence(g) \in May(Confidence(f))

----------------------------------------------------------------------------
(* The model of a leaf. *)

LEMMA BlankSound ==
  /\ Sound(Blank) /\ Blank.pos = Unknown /\ ~Moving(Blank)
  /\ \A f : Keeps(f, Blank)
  BY DEF Sound, WellFormed, Blank, Moving, NoMotion, Keeps

LEMMA GradeOfUnknown ==
  ASSUME NEW f, NEW g, g.pos = Unknown
  PROVE  Confidence(g) \in May(Confidence(f))
  BY DEF Confidence, May, Trust!May, Unknown, Trust!Grade

LEMMA KeepsEvolves ==
  ASSUME NEW f, NEW g, WellFormed(f), Sound(g), Keeps(f, g)
  PROVE  Evolves(f, g)
  BY DEF Evolves, Keeps, Confidence, May, Trust!May, Unknown, Trust!Grade, Sound, WellFormed

LEMMA KeepsTransitive ==
  ASSUME NEW f, NEW g, NEW h, Keeps(f, g), Keeps(g, h)
  PROVE  Keeps(f, h)
  BY DEF Keeps

LEMMA ClearedSound ==
  ASSUME NEW f, WellFormed(f), f.anchored => f.pos # Unknown, NEW g, g = Cleared(f)
  PROVE  /\ Sound(g) /\ ~Moving(g)
         /\ g.pos = f.pos /\ g.anchored = f.anchored /\ g.suspect = f.suspect
<1>1. /\ g.motion = NoMotion /\ g.pos = f.pos
      /\ g.anchored = f.anchored /\ g.suspect = f.suspect
  BY DEF WellFormed, Cleared
<1>2. WellFormed(g)
  BY DEF WellFormed, Cleared, NoMotion
<1> QED
  BY <1>1, <1>2 DEF Sound, Moving

LEMMA InterruptedSound ==
  ASSUME NEW f, Sound(f), NEW g \in Interrupted(f)
  PROVE  Sound(g) /\ Keeps(f, g) /\ ~Moving(g) /\ ~g.anchored
<1>1. PICK p \in Estimates(f) : g = [Cleared(f) EXCEPT !.pos = p, !.anchored = FALSE]
  BY DEF Interrupted
<1>2. f.pos = Unknown => p = Unknown
  BY <1>1 DEF Estimates, Sound, Unknown
<1>3. /\ g.pos = p /\ g.motion = NoMotion /\ ~g.anchored /\ g.suspect = f.suspect
      /\ WellFormed(g)
  BY <1>1 DEF Cleared, Sound, WellFormed, NoMotion
<1> QED
  BY <1>2, <1>3 DEF Sound, Keeps, Moving

LEMMA ReconciledSound ==
  ASSUME NEW f, Sound(f), NEW via
  PROVE  /\ Sound(Reconciled(f, via))
         /\ Keeps(f, Reconciled(f, via))
         /\ \/ Reconciled(f, via) = Blank
            \/ /\ Reconciled(f, via).motion = f.motion
               /\ Reconciled(f, via).anchored = f.anchored
               /\ Reconciled(f, via).pos = f.pos
  BY BlankSound DEF Reconciled, MarkUnknown, Sound, WellFormed, Keeps, Moving

\* What the covers commit.
IsTravel(m) == \E key, by : m = FullTravel(key, by) \/ m = PartTravel(key, by)

LEMMA TravelShape ==
  ASSUME NEW m, IsTravel(m)
  PROVE  /\ m = [dir |-> m.dir, target |-> m.target, start |-> m.start, by |-> m.by,
                 timed |-> m.timed, absolute |-> m.absolute, recovered |-> m.recovered]
         /\ m.target # Unknown
         /\ m.absolute => m.target \in Ends
         /\ m.timed => ~m.absolute
         /\ m.recovered \in BOOLEAN
  BY DEF IsTravel, FullTravel, PartTravel, Motion, NoMotion, Unknown, Ends

LEMMA EmbarkedSound ==
  ASSUME NEW f, Sound(f), ~Moving(f), ~f.anchored, NEW m, IsTravel(m),
         NEW via, NEW cutOff, NEW g \in Embarked(f, m, via, cutOff)
  PROVE  Sound(g) /\ Keeps(f, g)
<1> DEFINE r == IF m.absolute THEN f ELSE Reconciled(f, via)
           h == [r EXCEPT !.motion = [m EXCEPT !.start = r.pos]]
<1>1. Sound(r) /\ Keeps(f, r) /\ ~r.anchored
  BY ReconciledSound, BlankSound DEF Keeps, Blank
<1>2. CASE g = MarkUnknown(f)
  BY <1>2, BlankSound DEF MarkUnknown
<1>3. CASE g = r
  BY <1>1, <1>3
<1>4. CASE m.absolute \/ r.pos # Unknown
  <2>1. /\ h.pos = r.pos /\ h.suspect = r.suspect /\ h.anchored = r.anchored
        /\ h.motion.start = r.pos /\ h.motion.target = m.target /\ WellFormed(h)
    BY <1>1, TravelShape DEF Sound, WellFormed
  <2>2. Sound(h)
    BY <2>1, <1>1, <1>4, TravelShape DEF Sound
  <2>3. Keeps(f, h)
    BY <2>1, <1>1 DEF Keeps
  <2>4. CASE g = h
    BY <2>2, <2>3, <2>4
  <2>5. CASE g \in Interrupted(h)
    BY <2>2, <2>3, <2>5, InterruptedSound, KeepsTransitive
  <2> QED
    BY <2>4, <2>5, <1>2, <1>3 DEF Embarked
<1> QED
  BY <1>2, <1>3, <1>4 DEF Embarked

LEMMA CommittedEvolves ==
  ASSUME NEW f, Sound(f), NEW m, IsTravel(m), NEW via, NEW cutOff,
         NEW g \in Committed(f, m, via, cutOff)
  PROVE  Evolves(f, g)
<1>1. PICK h \in Interrupted(f) : g \in Embarked(h, m, via, cutOff)
  BY DEF Committed
<1>2. Sound(h) /\ Keeps(f, h) /\ ~Moving(h) /\ ~h.anchored
  BY <1>1, InterruptedSound
<1>3. Sound(g) /\ Keeps(h, g)
  BY <1>1, <1>2, EmbarkedSound
<1> QED
  BY <1>2, <1>3, KeepsTransitive, KeepsEvolves DEF Sound

\* A heard STOP may add a doubt, to a leaf that moved and so was not anchored.
LEMMA StoppedEvolves ==
  ASSUME NEW f, Sound(f), NEW provenance, NEW via, NEW g \in Stopped(f, provenance, via)
  PROVE  Evolves(f, g)
<1> DEFINE doubtful == /\ provenance = "heard" /\ Moving(f)
                       /\ ~f.motion.timed /\ f.motion.target \in Ends
           doubted(i) == [i EXCEPT !.suspect = @ \/ doubtful]
<1>1. PICK i \in Interrupted(f) :
        g = [Reconciled(doubted(i), via) EXCEPT !.stopped = (provenance = "heard")]
  BY DEF Stopped
<1>2. Sound(i) /\ Keeps(f, i) /\ ~Moving(i) /\ ~i.anchored
  BY <1>1, InterruptedSound
<1> HIDE DEF doubtful
<1>3. /\ doubted(i).pos = i.pos /\ doubted(i).motion = i.motion
      /\ doubted(i).anchored = i.anchored /\ doubted(i).suspect = (i.suspect \/ doubtful)
      /\ WellFormed(doubted(i))
  BY <1>2 DEF Sound, WellFormed
<1>4. Sound(doubted(i)) /\ ~doubted(i).anchored
  BY <1>2, <1>3 DEF Sound, Moving
<1>5. /\ Sound(Reconciled(doubted(i), via))
      /\ Keeps(doubted(i), Reconciled(doubted(i), via))
  BY <1>4, ReconciledSound
<1>6. /\ Sound(g) /\ ~g.anchored
      /\ g.pos # Unknown => i.pos # Unknown /\ (g.suspect <=> (i.suspect \/ doubtful))
  BY <1>1, <1>3, <1>4, <1>5 DEF Sound, WellFormed, Keeps, Moving
<1>7. g.pos # Unknown => f.pos # Unknown /\ (g.suspect <=> (f.suspect \/ doubtful))
  BY <1>2, <1>6 DEF Keeps
<1>8. doubtful => ~f.anchored
  BY DEF Sound, doubtful
<1> QED
  BY <1>6, <1>7, <1>8 DEF Evolves, Confidence, May, Trust!May, Unknown, Trust!Grade, Sound, WellFormed

LEMMA HeardEvolves ==
  ASSUME NEW f, Sound(f), NEW key, NEW covered, NEW by, NEW via,
         NEW g \in Heard(f, key, covered, by, via)
  PROVE  Evolves(f, g)
<1>1. CASE g = MarkUnknown(f)
  BY <1>1, BlankSound, KeepsEvolves DEF MarkUnknown, Sound
<1>2. IsTravel(FullTravel(key, by))
  BY DEF IsTravel
<1> QED
  BY <1>1, <1>2, StoppedEvolves, CommittedEvolves DEF Heard

LEMMA FrozenEvolves ==
  ASSUME NEW f, Sound(f), NEW c, NEW g \in Frozen(f, c)
  PROVE  Evolves(f, g)
<1>1. Keeps(f, f)
  BY DEF Keeps
<1> QED
  BY <1>1, InterruptedSound, KeepsEvolves DEF Frozen, Sound

LEMMA BridgeChangedEvolves ==
  ASSUME NEW f, Sound(f), NEW via
  PROVE  Evolves(f, BridgeChanged(f, via))
  BY ReconciledSound, BlankSound, KeepsEvolves DEF BridgeChanged, MarkUnknown, Sound

\* The end of a watched travel is the one place where trust is earned.
LEMMA CompletedSound ==
  ASSUME NEW f, Sound(f), Moving(f), NEW via
  PROVE  /\ Sound(Completed(f, via))
         /\ Confidence(Completed(f, via)) \in May(Confidence(f))
<1> DEFINE a == Anchored([f EXCEPT !.pos = f.motion.target], ~f.motion.recovered)
           s == [a EXCEPT !.suspect = @ \/ f.motion.recovered]
<1>1. /\ WellFormed(a) /\ a.pos = f.motion.target
      /\ a.anchored <=> (f.motion.target \in Ends /\ ~f.motion.recovered)
      /\ a.suspect <=> (f.suspect /\ ~(f.motion.target \in Ends /\ ~f.motion.recovered))
  BY DEF Sound, WellFormed, Anchored
<1>2. /\ WellFormed(s) /\ s.pos = f.motion.target /\ s.anchored = a.anchored
      /\ s.suspect <=> (f.motion.recovered \/ (f.suspect /\ f.motion.target \notin Ends))
  <2> HIDE DEF a
  <2> QED
    BY <1>1 DEF Sound, WellFormed
<1>3. /\ Sound(Cleared(s)) /\ Cleared(s).pos = f.motion.target
      /\ Cleared(s).anchored = a.anchored /\ Cleared(s).suspect = s.suspect
  <2> HIDE DEF a, s
  <2>1. f.motion.target # Unknown
    BY DEF Sound
  <2> QED
    BY <1>2, <2>1, ClearedSound
<1>4. Completed(f, via) = Reconciled(Cleared(s), via)
  BY DEF Completed
<1> HIDE DEF a, s
<1>5. /\ Sound(Completed(f, via)) /\ Keeps(Cleared(s), Completed(f, via))
      /\ \/ Completed(f, via).pos = Unknown
         \/ Completed(f, via).anchored = Cleared(s).anchored
  BY <1>3, <1>4, ReconciledSound, BlankSound
<1> DEFINE g == Completed(f, via)
<1>6. /\ g.pos # Unknown =>
           /\ g.suspect <=> (f.motion.recovered \/ (f.suspect /\ f.motion.target \notin Ends))
           /\ g.anchored <=> (f.motion.target \in Ends /\ ~f.motion.recovered)
      /\ g.anchored \in BOOLEAN /\ g.suspect \in BOOLEAN
  BY <1>1, <1>2, <1>3, <1>5 DEF Keeps, Sound, WellFormed
<1>7. /\ f.anchored = FALSE /\ f.suspect \in BOOLEAN /\ f.motion.recovered \in BOOLEAN
      /\ f.pos = Unknown => f.motion.target \in Ends
  BY DEF Sound, WellFormed
<1> HIDE DEF g
<1>8. Confidence(g) \in May(Confidence(f))
  BY <1>6, <1>7 DEF Confidence, May, Trust!May, Unknown, Trust!Grade
<1> QED
  BY <1>5, <1>8 DEF g

LEMMA PersistedSound ==
  ASSUME NEW f, Sound(f), NEW p, p = Persisted(f)
  PROVE  /\ Sound(p) /\ ~p.anchored
         /\ Confidence(p) = Trust!Remembered(Confidence(f))
<1>1. /\ p.pos = f.pos /\ p.suspect = f.suspect /\ p.motion = f.motion
      /\ p.anchored = FALSE
  BY DEF Sound, WellFormed, Persisted
<1>2. WellFormed(p)
  BY DEF Sound, WellFormed, Persisted
<1>3. Sound(p)
  BY <1>1, <1>2 DEF Sound, Moving
<1>4. Confidence(p) = Trust!Remembered(Confidence(f))
  BY <1>1 DEF Confidence, Trust!Remembered, Unknown
<1> QED
  BY <1>1, <1>3, <1>4

LEMMA RestoredSound ==
  ASSUME NEW s, Sound(s), ~s.anchored, NEW via, NEW cutOff, NEW elapsed,
         NEW g \in Restored(s, via, cutOff, elapsed)
  PROVE  Sound(g) /\ Confidence(g) \in May(Confidence(s))
<1> DEFINE f == Reconciled(s, via)
<1>1. Sound(f) /\ Keeps(s, f) /\ ~f.anchored
  BY ReconciledSound DEF Keeps
<1>2. CASE g = f
  BY <1>1, <1>2, KeepsEvolves DEF Evolves, Sound
<1>3. CASE g = MarkUnknown(s)
  BY <1>3, BlankSound, GradeOfUnknown DEF MarkUnknown
<1>4. CASE Moving(f) /\ g = Elapsed(f, via)
  <2> DEFINE c == Cleared([f EXCEPT !.pos = f.motion.target])
             e == [c EXCEPT !.anchor = f.motion.by]
  <2>1. /\ Sound(c) /\ ~c.anchored /\ ~Moving(c)
        /\ Sound(e) /\ ~e.anchored /\ ~Moving(e)
    <3>1. WellFormed([f EXCEPT !.pos = f.motion.target]) /\ ~[f EXCEPT !.pos = f.motion.target].anchored
      BY <1>1 DEF Sound, WellFormed
    <3>2. Sound(c) /\ ~c.anchored /\ ~Moving(c)
      BY <3>1, ClearedSound
    <3> HIDE DEF c
    <3>3. /\ WellFormed(e) /\ e.motion = c.motion /\ ~e.anchored
      BY <3>2 DEF Sound, WellFormed
    <3> QED
      BY <3>2, <3>3 DEF Sound, Moving
  <2>2. ASSUME NEW q, Sound(q), ~q.anchored, ~Moving(q)
        PROVE  /\ Sound(Reconciled(q, via)) /\ ~Reconciled(q, via).anchored
               /\ ~Moving(Reconciled(q, via))
    BY <2>2, ReconciledSound, BlankSound DEF Moving, Keeps
  <2>3. PICK h : /\ Sound(h) /\ ~h.anchored /\ ~Moving(h)
                 /\ g = [h EXCEPT !.suspect = (h.pos # Unknown)]
    <3>1. CASE g = [Reconciled(c, via) EXCEPT !.suspect = (Reconciled(c, via).pos # Unknown)]
      <4> HIDE DEF c
      <4> QED
        BY <3>1, <2>1, <2>2
    <3>2. CASE g = [Reconciled(e, via) EXCEPT !.suspect = (Reconciled(e, via).pos # Unknown)]
      <4> HIDE DEF c, e
      <4> QED
        BY <3>2, <2>1, <2>2
    <3> QED
      BY <1>4, <3>1, <3>2 DEF Elapsed
  <2>4. /\ WellFormed(g) /\ g.pos = h.pos /\ g.motion = h.motion /\ ~g.anchored
        /\ g.pos # Unknown => g.suspect
    BY <2>3 DEF Sound, WellFormed
  <2>5. Sound(g)
    BY <2>3, <2>4 DEF Sound, Moving
  <2> QED
    BY <2>4, <2>5, <1>1 DEF Sound, WellFormed, Confidence, May, Trust!May, Unknown, Trust!Grade
<1>5. CASE Moving(f) /\ \E p \in Estimates(f) : g = [f EXCEPT !.pos = p, !.motion.recovered = TRUE]
  <2>1. PICK p \in Estimates(f) : g = [f EXCEPT !.pos = p, !.motion.recovered = TRUE]
    BY <1>5
  <2>2. p = Unknown <=> f.pos = Unknown
    BY <1>1, <1>5 DEF Estimates, Sound, Unknown
  <2>3. /\ WellFormed(g) /\ g.pos = p /\ g.suspect = f.suspect /\ ~g.anchored
        /\ g.motion.target = f.motion.target /\ g.motion.start = f.motion.start
    BY <2>1, <1>1 DEF Sound, WellFormed
  <2>4. Sound(g) /\ Keeps(f, g)
    BY <1>1, <1>5, <2>2, <2>3 DEF Sound, Keeps
  <2> QED
    BY <1>1, <2>4, KeepsTransitive, KeepsEvolves DEF Evolves, Sound
<1> QED
  BY <1>2, <1>3, <1>4, <1>5 DEF Restored

----------------------------------------------------------------------------
(* The inductive invariant, and what a step may do to one leaf. *)

\* TrustIsEarned speaks of entities that are there.  To be inductive it needs
\* that the models are sound, that nothing is known before an entity is set up
\* and no position while its restore is not over, and that what was stored is
\* not anchored.
Known ==
  /\ DOMAIN stage = Cover /\ DOMAIN leaf = Leaf /\ DOMAIN snap = Leaf
  /\ \A l \in Leaf :
       /\ stage[l] \in {"coming", "adding", "added", "failed"}
       /\ Sound(leaf[l]) /\ Sound(snap[l]) /\ ~snap[l].anchored
       /\ stage[l] \in {"coming", "failed"} => leaf[l] = Blank
       /\ stage[l] = "adding" => leaf[l].pos = Unknown

\* What a step makes of the model of a leaf that stays where it is.
Follows(l) ==
  \/ leaf'[l] = leaf[l]
  \/ leaf'[l] = Blank
  \/ Registered(l) /\ Evolves(leaf[l], leaf'[l])

Kept(l) == stage'[l] = stage[l] /\ snap'[l] = snap[l] /\ Follows(l)

Travelled(l) ==
  /\ stage[l] = "added" /\ stage'[l] = "added" /\ snap'[l] = snap[l]
  /\ Sound(leaf'[l]) /\ Confidence(leaf'[l]) \in May(Confidence(leaf[l]))

Unloaded(l) ==
  /\ stage'[l] = "coming" /\ leaf'[l] = Blank
  /\ snap'[l] = IF stage[l] = "added" THEN Persisted(leaf[l]) ELSE snap[l]

Started(l) ==
  /\ stage[l] = "coming" /\ stage'[l] \in {"adding", "added"}
  /\ leaf'[l] = leaf[l] /\ snap'[l] = snap[l]

Back(l) ==
  /\ stage[l] = "adding" /\ stage'[l] = "added" /\ snap'[l] = snap[l]
  /\ Sound(leaf'[l]) /\ Confidence(leaf'[l]) \in May(Confidence(snap[l]))

Failed(l) ==
  /\ stage[l] = "adding" /\ stage'[l] = "failed" /\ snap'[l] = snap[l]
  /\ leaf'[l] = Blank

Proceeds ==
  /\ DOMAIN stage' = Cover /\ DOMAIN leaf' = Leaf /\ DOMAIN snap' = Leaf
  /\ \A l \in Leaf : Kept(l) \/ Travelled(l) \/ Unloaded(l) \/ Started(l) \/ Back(l) \/ Failed(l)

LEMMA ConfidenceIsAGrade ==
  ASSUME NEW f
  PROVE  Confidence(f) \in Trust!Grade /\ Confidence(f) # "absent"
  BY DEF Confidence, Trust!Grade, Unknown

LEMMA KnownStays ==
  ASSUME Known, Proceeds
  PROVE  Known'
<1>1. ASSUME NEW l \in Leaf
      PROVE  /\ stage'[l] \in {"coming", "adding", "added", "failed"}
             /\ Sound(leaf'[l]) /\ Sound(snap'[l]) /\ ~snap'[l].anchored
             /\ stage'[l] \in {"coming", "failed"} => leaf'[l] = Blank
             /\ stage'[l] = "adding" => leaf'[l].pos = Unknown
  <2>1. CASE Kept(l)
    BY <2>1, BlankSound DEF Known, Kept, Follows, Evolves, Registered
  <2>2. CASE Travelled(l)
    BY <2>2 DEF Known, Travelled
  <2>3. CASE Unloaded(l)
    BY <2>3, BlankSound, PersistedSound DEF Known, Unloaded
  <2>4. CASE Started(l)
    BY <2>4, BlankSound DEF Known, Started
  <2>5. CASE Back(l)
    BY <2>5 DEF Known, Back
  <2>6. CASE Failed(l)
    BY <2>6, BlankSound DEF Known, Failed
  <2> QED
    BY <2>1, <2>2, <2>3, <2>4, <2>5, <2>6 DEF Proceeds
<1> QED
  BY <1>1 DEF Known, Proceeds

LEMMA StepImplements ==
  ASSUME Known, Proceeds
  PROVE  Trust!Next
<1> DEFINE shown(l) == IF stage[l] = "added" THEN Confidence(leaf[l]) ELSE "absent"
           memory(l) == IF stage[l] = "added" THEN Confidence(Persisted(leaf[l]))
                        ELSE Confidence(snap[l])
           next(l) == IF stage'[l] = "added" THEN Confidence(leaf'[l]) ELSE "absent"
           kept(l) == IF stage'[l] = "added" THEN Confidence(Persisted(leaf'[l]))
                      ELSE Confidence(snap'[l])
<1>1. ASSUME NEW l \in Leaf
      PROVE  \/ /\ shown(l) # "absent" /\ next(l) \in May(shown(l))
                /\ kept(l) = Trust!Remembered(next(l))
             \/ shown(l) # "absent" /\ next(l) = "absent" /\ kept(l) = memory(l)
             \/ shown(l) = "absent" /\ next(l) = "absent" /\ kept(l) = memory(l)
             \/ /\ shown(l) = "absent" /\ next(l) \in May(memory(l))
                /\ kept(l) = Trust!Remembered(next(l))
  <2>1. /\ Sound(leaf[l]) /\ Sound(leaf'[l])
        /\ stage[l] \in {"coming", "adding", "added", "failed"}
    BY KnownStays DEF Known
  <2>2. next(l) # "absent" => kept(l) = Trust!Remembered(next(l))
    BY <2>1, PersistedSound
  <2>3. CASE stage[l] = "added" /\ stage'[l] = "added"
    <3>1. Confidence(leaf'[l]) \in May(Confidence(leaf[l]))
      <4>1. CASE Kept(l)
        <5>1. Keeps(leaf[l], leaf[l]) /\ Keeps(leaf[l], Blank)
          BY BlankSound DEF Keeps
        <5> QED
          BY <4>1, <5>1, <2>1, BlankSound, KeepsEvolves DEF Kept, Follows, Evolves, Sound
      <4>2. CASE Travelled(l)
        BY <4>2 DEF Travelled
      <4> QED
        BY <2>3, <4>1, <4>2 DEF Proceeds, Unloaded, Started, Back, Failed
    <3> QED
      BY <2>2, <2>3, <3>1, ConfidenceIsAGrade
  <2>4. CASE stage[l] = "added" /\ stage'[l] # "added"
    BY <2>4, ConfidenceIsAGrade DEF Proceeds, Kept, Travelled, Unloaded, Started, Back, Failed
  <2>5. CASE stage[l] # "added" /\ stage'[l] # "added"
    BY <2>5 DEF Proceeds, Kept, Travelled, Unloaded, Started, Back, Failed
  <2>6. CASE stage[l] # "added" /\ stage'[l] = "added"
    <3>1. Confidence(leaf'[l]) \in May(Confidence(snap[l]))
      <4>1. CASE Started(l)
        BY <4>1, BlankSound, GradeOfUnknown DEF Started, Known
      <4>2. CASE Back(l)
        BY <4>2 DEF Back
      <4> QED
        BY <2>6, <4>1, <4>2 DEF Proceeds, Kept, Travelled, Unloaded, Failed
    <3> QED
      BY <2>2, <2>6, <3>1, ConfidenceIsAGrade
  <2> QED
    BY <2>3, <2>4, <2>5, <2>6
<1> QED
  BY <1>1 DEF Trust!Next, Trust!Change, Trust!Leave, Trust!Stay, Trust!ComeBack, May

----------------------------------------------------------------------------
(* The actions. *)

LEMMA FollowingProceeds ==
  ASSUME Known, UNCHANGED <<stage, snap>>, DOMAIN leaf' = Leaf,
         \A l \in Leaf : Follows(l)
  PROVE  Proceeds
  BY DEF Known, Proceeds, Kept

LEMMA UntouchedProceeds ==
  ASSUME Known, UNCHANGED <<stage, leaf, snap>>
  PROVE  Proceeds
  BY FollowingProceeds DEF Known, Follows

LEMMA InvalidLeaves ==
  ASSUME NEW ls
  PROVE  /\ DOMAIN Invalid(leaf, ls) = Leaf
         /\ \A l \in Leaf : Invalid(leaf, ls)[l] \in {leaf[l], Blank}
  BY DEF Invalid, MarkUnknown

LEMMA InvalidProceeds ==
  ASSUME Known, UNCHANGED <<stage, snap>>, NEW ls, leaf' = Invalid(leaf, ls)
  PROVE  Proceeds
  BY InvalidLeaves, FollowingProceeds DEF Follows

LEMMA DisownedProceeds ==
  ASSUME Known, UNCHANGED <<stage, snap>>, NEW ls, Disowned(ls)
  PROVE  Proceeds
  BY InvalidProceeds DEF Disowned

LEMMA LostProceeds ==
  ASSUME Known, UNCHANGED <<stage, snap>>, NEW t, Lost(t)
  PROVE  Proceeds
<1>1. ASSUME NEW S, Recorded(S)
      PROVE  Proceeds
  BY <1>1, InvalidProceeds DEF Recorded
<1> QED
  BY <1>1, DisownedProceeds, UntouchedProceeds DEF Lost

LEMMA OutcomesChosen ==
  ASSUME NEW values, NEW f \in Outcomes(values)
  PROVE  DOMAIN f = Leaf /\ \A l \in Leaf : f[l] \in values[l]
  BY DEF Outcomes

\* A leaf may be invalidated first and then evolve.
LEMMA EvolvesFromInvalid ==
  ASSUME NEW f, Sound(f), NEW m \in {f, Blank}, NEW g, Evolves(m, g)
  PROVE  Evolves(f, g)
<1>1. CASE m = Blank
  BY <1>1, BlankSound, GradeOfUnknown DEF Evolves
<1> QED
  BY <1>1

LEMMA CommitProceeds ==
  ASSUME Known, UNCHANGED <<stage, snap>>, NEW c, NEW ls \in SUBSET Live, Commit(c, ls)
  PROVE  Proceeds
<1> DEFINE by == <<"air", c>>
           motion == IF Timed(c) THEN PartTravel(button[c], by) ELSE FullTravel(button[c], by)
           of(l) == IF button[c] = "STOP" THEN Stopped(leaf[l], "commanded", registry)
                    ELSE Committed(leaf[l], motion, registry, c \in displaced)
           values == [l \in Leaf |-> IF l \in ls THEN of(l) ELSE {leaf[l]}]
<1>1. leaf' \in Outcomes(values)
  BY DEF Commit
<1>2. DOMAIN leaf' = Leaf /\ \A l \in Leaf : leaf'[l] \in values[l]
  BY <1>1, OutcomesChosen
<1>3. ASSUME NEW l \in Leaf
      PROVE  Follows(l)
  <2>1. CASE l \notin ls
    BY <1>2, <2>1 DEF Follows
  <2>2. CASE l \in ls
    <3>1. leaf'[l] \in of(l) /\ Sound(leaf[l]) /\ Registered(l)
      BY <1>2, <2>2 DEF Known, Live
    <3>2. IsTravel(motion)
      BY DEF IsTravel
    <3>3. Evolves(leaf[l], leaf'[l])
      <4> HIDE DEF motion
      <4> QED
        BY <3>1, <3>2, StoppedEvolves, CommittedEvolves
    <3> QED
      BY <3>1, <3>3 DEF Follows
  <2> QED
    BY <2>1, <2>2
<1> HIDE DEF values
<1> QED
  BY <1>2, <1>3, FollowingProceeds

LEMMA ResumeProceeds ==
  ASSUME Known, Resume
  PROVE  Proceeds
<1> DEFINE c == Head(acks)
<1>1. UNCHANGED <<stage, snap>>
  BY DEF Resume
<1>2. UNCHANGED leaf \/ Commit(c, Current(TaskOf(c)))
  BY DEF Resume
<1>3. Current(TaskOf(c)) \subseteq Live
  BY DEF Current
<1> QED
  BY <1>1, <1>2, <1>3, CommitProceeds, UntouchedProceeds

LEMMA PressProceeds ==
  ASSUME Known, NEW b, NEW S, Press(b, S)
  PROVE  Proceeds
<1> DEFINE e == <<"press", presses + 1>>
           listeners == {x \in Addressed(S) : Registered(x)}
           targets == IF listeners = {} THEN {} ELSE Targets(b, S)
           taken == UNION {Taken(c, Merged(c, b, S), "none", FALSE) : c \in targets}
           models == Invalid(leaf, taken \cap Leaf)
           mine == listeners \cap Leaf
           values == [l \in Leaf |->
                        IF l \in mine THEN Heard(models[l], b, Chan[l] \subseteq S, e, registry)
                        ELSE {models[l]}]
<1>1. leaf' \in Outcomes(values) /\ UNCHANGED <<stage, snap>>
  BY DEF Press
<1>2. DOMAIN leaf' = Leaf /\ \A l \in Leaf : leaf'[l] \in values[l]
  BY <1>1, OutcomesChosen
<1>3. \A l \in Leaf : models[l] \in {leaf[l], Blank}
  BY InvalidLeaves
<1> HIDE DEF taken, targets, models, e
<1>4. ASSUME NEW l \in Leaf
      PROVE  Follows(l)
  <2>1. CASE l \notin mine
    BY <1>2, <1>3, <2>1 DEF Follows
  <2>2. CASE l \in mine
    <3>1. /\ leaf'[l] \in Heard(models[l], b, Chan[l] \subseteq S, e, registry)
          /\ Sound(leaf[l]) /\ Sound(models[l]) /\ Registered(l)
      BY <1>2, <1>3, <2>2, BlankSound DEF Known
    <3>2. Evolves(models[l], leaf'[l])
      BY <3>1, HeardEvolves
    <3> QED
      BY <1>3, <3>1, <3>2, EvolvesFromInvalid DEF Follows
  <2> QED
    BY <2>1, <2>2
<1> QED
  BY <1>1, <1>2, <1>4, FollowingProceeds

LEMMA DisplacedProceeds ==
  ASSUME Known, UNCHANGED <<stage, snap>>, NEW c, DisplacedStatus(c)
  PROVE  Proceeds
<1> DEFINE flushed == entry[c] \in {"started", "confirmed"} /\ Timed(c)
           taken == IF req[c].open THEN Taken(c, req[c], "displaced", flushed) ELSE {}
           models == Invalid(leaf, taken \cap Leaf)
           mine == {l \in Live : models[l].motion.by = <<"air", c>> /\ models[l].motion.timed}
           values == [l \in Leaf |-> IF l \in mine THEN Frozen(models[l], c) ELSE {models[l]}]
<1>1. leaf' \in Outcomes(values)
  BY DEF DisplacedStatus
<1>2. DOMAIN leaf' = Leaf /\ \A l \in Leaf : leaf'[l] \in values[l]
  BY <1>1, OutcomesChosen
<1>3. \A l \in Leaf : models[l] \in {leaf[l], Blank}
  BY InvalidLeaves
<1>4. mine \subseteq Live
  OBVIOUS
<1> HIDE DEF taken, models, mine
<1>5. ASSUME NEW l \in Leaf
      PROVE  Follows(l)
  <2>1. CASE l \notin mine
    BY <1>2, <1>3, <2>1 DEF Follows
  <2>2. CASE l \in mine
    <3>1. /\ leaf'[l] \in Frozen(models[l], c)
          /\ Sound(leaf[l]) /\ Sound(models[l]) /\ Registered(l)
      BY <1>2, <1>3, <1>4, <2>2, BlankSound DEF Known, Live
    <3>2. Evolves(models[l], leaf'[l])
      BY <3>1, FrozenEvolves
    <3> QED
      BY <1>3, <3>1, <3>2, EvolvesFromInvalid DEF Follows
  <2> QED
    BY <2>1, <2>2
<1> QED
  BY <1>2, <1>5, FollowingProceeds

LEMMA DisarmedProceeds ==
  ASSUME Known, UNCHANGED <<stage, snap>>, NEW c, NEW late, DisarmedStatus(c, late)
  PROVE  Proceeds
  BY InvalidProceeds, UntouchedProceeds DEF DisarmedStatus

LEMMA AnnouncedProceeds ==
  ASSUME Known, UNCHANGED <<stage, snap>>, NEW status, Announced(status)
  PROVE  Proceeds
<1>1. /\ DOMAIN leaf' = Leaf
      /\ \A l \in Leaf : leaf'[l] = IF l \in Live THEN BridgeChanged(leaf[l], status) ELSE leaf[l]
  BY DEF Announced
<1>2. \A l \in Leaf : Follows(l)
  BY <1>1, BridgeChangedEvolves DEF Follows, Known, Live
<1> QED
  BY <1>1, <1>2, FollowingProceeds

LEMMA DeliverProceeds ==
  ASSUME Known, Deliver
  PROVE  Proceeds
<1>1. UNCHANGED <<stage, snap>>
  BY DEF Deliver
<1>2. \/ UNCHANGED leaf
      \/ \E c : DisplacedStatus(c) \/ \E late : DisarmedStatus(c, late)
      \/ \E status : Announced(status)
  BY DEF Deliver, StartedStatus
<1> QED
  BY <1>1, <1>2, UntouchedProceeds, DisplacedProceeds, DisarmedProceeds, AnnouncedProceeds

LEMMA CompleteProceeds ==
  ASSUME Known, NEW l \in Leaf, Complete(l)
  PROVE  Proceeds
<1>1. /\ UNCHANGED <<stage, snap>> /\ stage[l] = "added" /\ Moving(leaf[l])
      /\ leaf' = [leaf EXCEPT ![l] = Completed(leaf[l], registry)]
  BY DEF Complete
<1>2. Travelled(l)
  BY <1>1, CompletedSound DEF Travelled, Known
<1>3. \A k \in Leaf \ {l} : Kept(k)
  BY <1>1 DEF Kept, Follows, Known
<1> QED
  BY <1>1, <1>2, <1>3 DEF Proceeds, Known

LEMMA ReloadProceeds ==
  ASSUME Known, NEW how, Reload(how)
  PROVE  Proceeds
<1>1. /\ snap' = [l \in Leaf |-> IF stage[l] = "added" THEN Persisted(leaf[l]) ELSE snap[l]]
      /\ leaf' = [l \in Leaf |-> Blank]
      /\ stage' = [x \in Cover |-> "coming"]
  BY DEF Reload
<1>2. \A l \in Leaf : Unloaded(l)
  BY <1>1 DEF Unloaded, Leaf
<1> QED
  BY <1>1, <1>2 DEF Proceeds

LEMMA RegisterProceeds ==
  ASSUME Known, NEW x \in Cover, Register(x)
  PROVE  Proceeds
<1>1. /\ stage[x] = "coming" /\ UNCHANGED <<leaf, snap>>
      /\ stage' = [stage EXCEPT ![x] = IF x \in Leaf \ mark THEN "adding" ELSE "added"]
  BY DEF Register
<1>2. ASSUME NEW l \in Leaf
      PROVE  Kept(l) \/ Started(l)
  BY <1>1 DEF Kept, Follows, Started, Known, Leaf
<1> QED
  BY <1>1, <1>2 DEF Proceeds, Known

LEMMA RestoreProceeds ==
  ASSUME Known, NEW l \in Leaf, Restore(l)
  PROVE  Proceeds
<1>1. /\ stage[l] = "adding" /\ stage' = [stage EXCEPT ![l] = "added"] /\ UNCHANGED snap
      /\ Sound(leaf[l]) /\ Sound(snap[l]) /\ ~snap[l].anchored /\ leaf[l].pos = Unknown
  BY DEF Restore, Known
<1>2. \E f : /\ leaf' = [leaf EXCEPT ![l] = f] \/ (f = leaf[l] /\ leaf' = leaf)
             /\ Sound(f) /\ Confidence(f) \in May(Confidence(snap[l]))
  <2>1. CASE leaf' = [leaf EXCEPT ![l] = MarkUnknown(leaf[l])]
    BY <2>1, BlankSound, GradeOfUnknown DEF MarkUnknown
  <2>2. CASE leaf' = leaf
    BY <2>2, <1>1, GradeOfUnknown
  <2>3. CASE \E displ, elapsed \in BOOLEAN :
               \E f \in Restored(snap[l], registry, displ, elapsed) : leaf' = [leaf EXCEPT ![l] = f]
    BY <2>3, <1>1, RestoredSound
  <2> QED
    BY <2>1, <2>2, <2>3 DEF Restore
<1>3. DOMAIN leaf' = Leaf /\ \A k \in Leaf \ {l} : leaf'[k] = leaf[k]
  BY <1>2 DEF Known
<1>4. Back(l)
  BY <1>1, <1>2 DEF Back, Known, Leaf
<1>5. \A k \in Leaf \ {l} : Kept(k)
  BY <1>1, <1>3 DEF Kept, Follows, Known
<1> QED
  BY <1>1, <1>3, <1>4, <1>5 DEF Proceeds, Known

LEMMA AddFailsProceeds ==
  ASSUME Known, NEW l \in Leaf, AddFails(l)
  PROVE  Proceeds
<1>1. /\ stage[l] = "adding" /\ stage' = [stage EXCEPT ![l] = "failed"] /\ UNCHANGED snap
      /\ leaf' = [leaf EXCEPT ![l] = Blank]
  BY DEF AddFails
<1>2. Failed(l)
  BY <1>1 DEF Failed, Known, Leaf
<1>3. \A k \in Leaf \ {l} : Kept(k)
  BY <1>1 DEF Kept, Follows, Known
<1> QED
  BY <1>1, <1>2, <1>3 DEF Proceeds, Known

LEMMA NextProceeds ==
  ASSUME Known, [Next]_vars
  PROVE  Proceeds
<1>1. CASE UNCHANGED vars
  BY <1>1, UntouchedProceeds DEF vars, entities
<1>2. ASSUME NEW o \in Op, Call(o)
      PROVE  Proceeds
  BY <1>2, DisownedProceeds, UntouchedProceeds DEF Call, Dropped
<1>3. ASSUME NEW t \in Task, Begin(t)
      PROVE  Proceeds
  BY <1>3, UntouchedProceeds DEF Begin, entities
<1>4. ASSUME NEW t, Cancel(t)
      PROVE  Proceeds
  BY <1>4, LostProceeds, DisownedProceeds DEF Cancel, Dropped
<1>5. ASSUME NEW i, Send(i)
      PROVE  Proceeds
  BY <1>5, UntouchedProceeds DEF Send, entities
<1>6. ASSUME NEW c, Timeout(c)
      PROVE  Proceeds
  BY <1>6, LostProceeds, UntouchedProceeds DEF Timeout
<1>7. ASSUME NEW c, Air(c) \/ Fire(c) \/ TrainEnds(c) \/ Overrun(c) \/ Bury(c) \/ Lapse(c)
      PROVE  Proceeds
  BY <1>7, UntouchedProceeds DEF Air, Fire, TrainEnds, Overrun, Bury, Lapse, entities
<1>8. ASSUME NEW c, TimedOut(c)
      PROVE  Proceeds
  BY <1>8, InvalidProceeds DEF TimedOut
<1>9. ASSUME NEW g \in Aggregate, Expire(g)
      PROVE  Proceeds
  BY <1>9, UntouchedProceeds DEF Expire, entities
<1>10. CASE Drop \/ Return
  BY <1>10, UntouchedProceeds DEF Drop, Return, entities
<1> QED
  BY <1>1, <1>2, <1>3, <1>4, <1>5, <1>6, <1>7, <1>8, <1>9, <1>10,
     ResumeProceeds, DeliverProceeds, PressProceeds, ReloadProceeds, RegisterProceeds,
     CompleteProceeds, RestoreProceeds, AddFailsProceeds DEF Next

----------------------------------------------------------------------------
(* The markers. *)

\* A marker belongs to a leaf, and goes with what its entity shows.
Marked == mark \subseteq Leaf

Shows(l) == stage'[l] = "added" /\ (leaf'[l].pos = Unknown \/ leaf'[l].anchored)

Heeded == mark' \subseteq Leaf /\ \A l \in mark \ mark' : Shows(l)

LEMMA DisownedHeeds ==
  ASSUME Known, Marked, UNCHANGED stage, NEW ls, Disowned(ls)
  PROVE  Heeded
<1>1. ASSUME NEW l \in mark \ mark'
      PROVE  Shows(l)
  <2>1. l \in Leaf /\ l \in ls /\ stage[l] = "added"
    BY DEF Disowned, Marked
  <2>2. leaf'[l] = Blank
    BY <2>1 DEF Disowned, Invalid, MarkUnknown
  <2> QED
    BY <2>1, <2>2, BlankSound DEF Shows
<1> QED
  BY <1>1 DEF Heeded, Disowned, Marked

LEMMA LostHeeds ==
  ASSUME Known, Marked, UNCHANGED stage, NEW t, Lost(t)
  PROVE  Heeded
<1>1. ASSUME NEW S, Recorded(S)
      PROVE  Heeded
  BY <1>1 DEF Recorded, Heeded, Marked
<1>2. CASE UNCHANGED mark
  BY <1>2 DEF Heeded, Marked
<1> QED
  BY <1>1, <1>2, DisownedHeeds DEF Lost

LEMMA NextHeeds ==
  ASSUME Known, Marked, [Next]_vars
  PROVE  Heeded
<1>1. CASE UNCHANGED mark
  BY <1>1 DEF Heeded, Marked
<1>2. ASSUME NEW o \in Op, Call(o)
      PROVE  Heeded
  BY <1>1, <1>2, DisownedHeeds DEF Call, Dropped
<1>3. ASSUME NEW t, Cancel(t)
      PROVE  Heeded
  BY <1>3, LostHeeds, DisownedHeeds DEF Cancel, Dropped
<1>4. ASSUME NEW c, Timeout(c)
      PROVE  Heeded
  BY <1>1, <1>4, LostHeeds DEF Timeout
<1>5. ASSUME NEW how, Reload(how)
      PROVE  Heeded
  BY <1>5 DEF Reload, Heeded, Marked
<1>6. ASSUME NEW x \in Cover, Register(x)
      PROVE  Heeded
  <2>1. ASSUME NEW l \in mark \ mark'
        PROVE  Shows(l)
    <3>1. l = x /\ l \in Leaf /\ stage[l] = "coming"
      BY <1>6 DEF Register, Marked
    <3>2. leaf'[l] = Blank /\ stage'[l] = "added"
      BY <1>6, <3>1 DEF Register, Known
    <3> QED
      BY <3>2, BlankSound DEF Shows
  <2> QED
    BY <1>6, <2>1 DEF Register, Heeded, Marked
<1>7. ASSUME NEW l \in Leaf, Complete(l)
      PROVE  Heeded
  BY <1>7 DEF Complete, Heeded, Marked, Shows
<1>8. ASSUME NEW l \in Leaf, Restore(l)
      PROVE  Heeded
  <2>1. ASSUME NEW k \in mark \ mark'
        PROVE  Shows(k)
    <3>1. k = l
      BY <1>8 DEF Restore
    <3>2. leaf' = [leaf EXCEPT ![l] = Blank] /\ stage' = [stage EXCEPT ![l] = "added"]
      BY <1>8, <3>1 DEF Restore, MarkUnknown
    <3>3. leaf'[l] = Blank /\ stage'[l] = "added"
      BY <3>2 DEF Known, Leaf
    <3> QED
      BY <3>1, <3>3, BlankSound DEF Shows
  <2> QED
    BY <1>8, <2>1 DEF Restore, Heeded, Marked
<1>9. ASSUME NEW l \in Leaf, AddFails(l)
      PROVE  Heeded
  BY <1>1, <1>9 DEF AddFails
<1>10. ASSUME NEW t, Begin(t)
       PROVE  UNCHANGED mark
  BY <1>10 DEF Begin, entities
<1>11. ASSUME NEW i, Send(i)
       PROVE  UNCHANGED mark
  BY <1>11 DEF Send, entities
<1>12. ASSUME NEW c, \/ Air(c) \/ Fire(c) \/ TrainEnds(c) \/ Overrun(c) \/ Bury(c) \/ Lapse(c)
                     \/ TimedOut(c) \/ Expire(c)
       PROVE  UNCHANGED mark
  BY <1>12 DEF Air, Fire, TrainEnds, Overrun, Bury, Lapse, TimedOut, Expire, entities
<1>13. CASE Drop \/ Return \/ Deliver \/ Resume
  BY <1>1, <1>13 DEF Drop, Return, Deliver, Resume, entities
<1>14. ASSUME NEW b, NEW S, Press(b, S)
       PROVE  UNCHANGED mark
  BY <1>14 DEF Press
<1>15. CASE UNCHANGED vars
  BY <1>1, <1>15 DEF vars, entities
<1> QED
  BY <1>1, <1>2, <1>3, <1>4, <1>5, <1>6, <1>7, <1>8, <1>9, <1>10, <1>11, <1>12, <1>13,
     <1>14, <1>15 DEF Next

----------------------------------------------------------------------------
(* The theorems. *)

LEMMA InitKnown ==
  ASSUME Init
  PROVE  Known /\ Trust!Init
<1>1. \A l \in Leaf : leaf[l] = [Blank EXCEPT !.pos = cast.start] /\ snap[l] = leaf[l] /\ stage[l] = "added"
  BY DEF Init, Leaf
<1>2. /\ DOMAIN stage = Cover /\ DOMAIN leaf = Leaf /\ DOMAIN snap = Leaf
  BY DEF Init
<1>3. ASSUME NEW l \in Leaf
      PROVE  Sound(leaf[l]) /\ ~leaf[l].anchored
  <2>1. PICK f : f = [Blank EXCEPT !.pos = cast.start]
    OBVIOUS
  <2>2. WellFormed(f) /\ ~f.anchored /\ f.motion = NoMotion
    BY <2>1 DEF WellFormed, Blank, NoMotion
  <2> QED
    BY <1>1, <2>1, <2>2 DEF Sound, Moving
<1>4. Known
  BY <1>1, <1>2, <1>3 DEF Known
<1>5. ASSUME NEW l \in Leaf
      PROVE  /\ Confidence(leaf[l]) \in Trust!Grade
             /\ Confidence(Persisted(leaf[l])) = Trust!Remembered(Confidence(leaf[l]))
  BY <1>3, ConfidenceIsAGrade, PersistedSound
<1> QED
  BY <1>1, <1>4, <1>5 DEF Trust!Init

\* The models of the leaves are sound, whatever crosses each other.
THEOREM ModelsAreSound == Spec => []Known
<1>1. Init => Known
  BY InitKnown
<1>2. Known /\ [Next]_vars => Known'
  BY NextProceeds, KnownStays
<1> QED
  BY <1>1, <1>2, PTL DEF Spec

\* CoverFamily implements PositionTrust: a leaf's confidence falls whenever its
\* estimate is cast in doubt, rises only by a full travel watched to its end, and
\* does not gain by a reload.
THEOREM TrustRefined == Spec => TrustIsEarned
<1>1. Init => Trust!Init
  BY InitKnown
<1>2. Known /\ [Next]_vars => [Trust!Next]_(Trust!vars)
  BY NextProceeds, StepImplements
<1> QED
  BY <1>1, <1>2, ModelsAreSound, PTL DEF Spec, TrustIsEarned, Trust!Spec

\* The marker of an invalidated position goes only when its entity shows that it
\* knows nothing, or has travelled to an end since.
THEOREM MarkersOutlast == Spec => MarkerIsShown
<1>1. Init => Marked
  BY DEF Init, Marked
<1>2. Known /\ Marked /\ [Next]_vars => Marked'
  BY NextHeeds DEF Heeded, Marked
<1>3. Known /\ Marked /\ [Next]_vars =>
        [\A l \in mark \ mark' :
           stage'[l] = "added" /\ (leaf'[l].pos = Unknown \/ leaf'[l].anchored)]_vars
  BY NextHeeds DEF Heeded, Shows
<1> QED
  BY <1>1, <1>2, <1>3, ModelsAreSound, PTL DEF Spec, MarkerIsShown
----------------------------------------------------------------------------
(* What was pressed: the models first. *)

\* The leaf shows a position without reservation, or will with its anchor settled.
Keen(f) == f.pos # Unknown /\ ~f.suspect

\* A full travel that somebody has listened to from its start.
Watched(f) == Moving(f) /\ f.motion.absolute /\ ~f.motion.recovered

OwnMeasured(f) == f.motion.timed /\ ByCommand(f.motion)

\* Only a full travel ends at a limit.
Drawn(f) == Moving(f) /\ ~f.motion.absolute => f.motion.target \notin Ends

\* g vouches for nothing that f did not vouch for, and no motion is new.
Weaker(f, g) ==
  /\ Keen(g) => Keen(f)
  /\ Watched(g) => Watched(f)
  /\ OwnMeasured(g) => OwnMeasured(f)
  /\ Drawn(f) => Drawn(g)

LEMMA AtRest ==
  ASSUME NEW g, ~Moving(g)
  PROVE  ~Watched(g) /\ ~OwnMeasured(g) /\ Drawn(g)
  BY DEF Moving, Watched, OwnMeasured, Drawn, NoMotion

LEMMA KeenKept ==
  ASSUME NEW f, NEW g, Keeps(f, g)
  PROVE  Keen(g) => Keen(f)
  BY DEF Keeps, Keen

LEMMA BlankWeaker ==
  ASSUME NEW f
  PROVE  Weaker(f, Blank)
<1>1. ~Keen(Blank)
  BY BlankSound DEF Keen
<1> QED
  BY <1>1, BlankSound, AtRest DEF Weaker

LEMMA SameMotionWeaker ==
  ASSUME NEW f, NEW g, Keeps(f, g), g.motion = f.motion
  PROVE  Weaker(f, g)
  BY KeenKept DEF Weaker, Watched, OwnMeasured, Drawn, Moving

LEMMA ReconciledWeaker ==
  ASSUME NEW f, Sound(f), NEW via
  PROVE  Weaker(f, Reconciled(f, via))
  BY ReconciledSound, BlankWeaker, SameMotionWeaker

LEMMA InterruptedWeaker ==
  ASSUME NEW f, Sound(f), NEW g \in Interrupted(f)
  PROVE  Weaker(f, g) /\ ~Moving(g)
  BY InterruptedSound, KeenKept, AtRest DEF Weaker

LEMMA StoppedWeaker ==
  ASSUME NEW f, Sound(f), NEW provenance, NEW via, NEW g \in Stopped(f, provenance, via)
  PROVE  Weaker(f, g) /\ ~Moving(g)
<1> DEFINE doubtful == /\ provenance = "heard" /\ Moving(f)
                       /\ ~f.motion.timed /\ f.motion.target \in Ends
           doubted(i) == [i EXCEPT !.suspect = @ \/ doubtful]
<1>1. PICK i \in Interrupted(f) :
        g = [Reconciled(doubted(i), via) EXCEPT !.stopped = (provenance = "heard")]
  BY DEF Stopped
<1>2. Sound(i) /\ Keeps(f, i) /\ ~Moving(i) /\ ~i.anchored
  BY <1>1, InterruptedSound
<1> HIDE DEF doubtful
<1>3. /\ doubted(i).pos = i.pos /\ doubted(i).motion = i.motion
      /\ doubted(i).anchored = i.anchored /\ doubted(i).suspect = (i.suspect \/ doubtful)
      /\ WellFormed(doubted(i))
  BY <1>2 DEF Sound, WellFormed
<1>4. Sound(doubted(i)) /\ ~Moving(doubted(i))
  BY <1>2, <1>3 DEF Sound, Moving
<1>5. PICK r : /\ r = Reconciled(doubted(i), via)
               /\ Sound(r) /\ Keeps(doubted(i), r) /\ ~Moving(r)
  <2>1. PICK d : d = doubted(i)
    OBVIOUS
  <2>2. Sound(d) /\ ~Moving(d)
    BY <1>4, <2>1, Zenon
  <2> HIDE DEF doubted
  <2>3. ~Moving(Reconciled(d, via))
    BY <2>2, ReconciledSound, BlankSound DEF Moving
  <2> QED
    BY <2>1, <2>2, <2>3, ReconciledSound
<1>6. g.pos = r.pos /\ g.suspect = r.suspect /\ g.motion = r.motion
  BY <1>1, <1>5 DEF Sound, WellFormed
<1>7. ~Moving(g)
  BY <1>5, <1>6 DEF Moving
<1>8. Keen(g) => Keen(f)
  BY <1>2, <1>3, <1>5, <1>6 DEF Keen, Keeps
<1> QED
  BY <1>7, <1>8, AtRest DEF Weaker

LEMMA FrozenWeaker ==
  ASSUME NEW f, Sound(f), NEW c, NEW g \in Frozen(f, c)
  PROVE  Weaker(f, g)
  BY InterruptedWeaker DEF Frozen, Weaker

LEMMA BridgeChangedWeaker ==
  ASSUME NEW f, Sound(f), NEW via
  PROVE  Weaker(f, BridgeChanged(f, via))
  BY ReconciledWeaker, BlankWeaker DEF BridgeChanged, MarkUnknown

LEMMA PersistedWeaker ==
  ASSUME NEW f, Sound(f)
  PROVE  Weaker(f, Persisted(f))
<1>1. PICK p : p = Persisted(f)
  OBVIOUS
<1>2. p.pos = f.pos /\ p.suspect = f.suspect /\ p.motion = f.motion /\ p.anchored = FALSE
  BY <1>1 DEF Sound, WellFormed, Persisted
<1> QED
  BY <1>1, <1>2, SameMotionWeaker DEF Keeps

\* The motion of g, if it has one, is m from wherever g was.
Carries(g, m) == ~Moving(g) \/ \E p : g.motion = [m EXCEPT !.start = p]

\* The motion of a committed model is the new one, if it has one.
LEMMA CommittedFrom ==
  ASSUME NEW f, Sound(f), NEW m, IsTravel(m), NEW via, NEW cutOff,
         NEW g \in Committed(f, m, via, cutOff)
  PROVE  (Keen(g) => Keen(f)) /\ Carries(g, m)
<1>1. PICK h \in Interrupted(f) : g \in Embarked(h, m, via, cutOff)
  BY DEF Committed
<1>2. Sound(h) /\ Keeps(f, h) /\ ~Moving(h) /\ ~h.anchored
  BY <1>1, InterruptedSound
<1>3. Sound(g) /\ Keeps(h, g)
  BY <1>1, <1>2, EmbarkedSound
<1>4. Keen(g) => Keen(f)
  BY <1>2, <1>3, KeenKept
<1>5. PICK r : r = IF m.absolute THEN h ELSE Reconciled(h, via)
  OBVIOUS
<1>6. Sound(r) /\ ~Moving(r) /\ ~r.anchored
  BY <1>2, <1>5, ReconciledSound, BlankSound DEF Moving, Keeps
<1>7. PICK n : n = [r EXCEPT !.motion = [m EXCEPT !.start = r.pos]]
  OBVIOUS
<1>8. n.motion = [m EXCEPT !.start = r.pos] /\ n.pos = r.pos /\ n.anchored = r.anchored
  BY <1>6, <1>7 DEF Sound, WellFormed
<1>9. g = MarkUnknown(h) \/ g = r \/ g \in Interrupted(n) \/ g = n
  BY <1>1, <1>5, <1>7 DEF Embarked
<1>10. CASE g \in Interrupted(n)
  <2>1. PICK p : g = [Cleared(n) EXCEPT !.pos = p, !.anchored = FALSE]
    BY <1>10 DEF Interrupted
  <2>2. PICK k : k = Cleared(n) /\ k = [n EXCEPT !.motion = NoMotion, !.stopped = FALSE]
    BY DEF Cleared
  <2>3. k.motion = NoMotion /\ DOMAIN k = DOMAIN r
    BY <2>2, <1>6, <1>7 DEF Sound, WellFormed
  <2>4. g.motion = NoMotion
    BY <2>1, <2>2, <2>3
  <2> QED
    BY <2>4, <1>4 DEF Moving, Carries
<1>11. CASE g = n
  <2>1. \E p : g.motion = [m EXCEPT !.start = p]
    BY <1>8, <1>11
  <2> QED
    BY <2>1, <1>4 DEF Carries
<1> QED
  BY <1>4, <1>6, <1>9, <1>10, <1>11, BlankSound DEF MarkUnknown, Carries

\* What the two travels are like.
LEMMA TravelDrawn ==
  ASSUME NEW key, NEW by, NEW p, NEW g
  PROVE  /\ g.motion = [FullTravel(key, by) EXCEPT !.start = p] =>
              Drawn(g) /\ ~OwnMeasured(g)
         /\ g.motion = [PartTravel(key, by) EXCEPT !.start = p] =>
              Drawn(g) /\ ~Watched(g)
<1>1. ASSUME g.motion = [FullTravel(key, by) EXCEPT !.start = p]
      PROVE  g.motion.absolute /\ ~g.motion.timed
  BY <1>1 DEF FullTravel, Motion, NoMotion
<1>2. ASSUME g.motion = [PartTravel(key, by) EXCEPT !.start = p]
      PROVE  ~g.motion.absolute /\ g.motion.target = "part"
  BY <1>2 DEF PartTravel, Motion, NoMotion
<1> QED
  BY <1>1, <1>2 DEF Drawn, OwnMeasured, Watched, Ends

LEMMA HeardWeaker ==
  ASSUME NEW f, Sound(f), NEW key, NEW covered, NEW by, NEW via,
         NEW g \in Heard(f, key, covered, by, via)
  PROVE  /\ Keen(g) => Keen(f) /\ covered
         /\ Watched(g) => covered /\ key # "STOP"
         /\ ~OwnMeasured(g) /\ Drawn(g)
<1>1. CASE g = MarkUnknown(f)
  BY <1>1, BlankSound, AtRest DEF MarkUnknown, Keen
<1>2. CASE covered /\ key = "STOP"
  BY <1>2, StoppedWeaker, AtRest DEF Heard, Weaker
<1>3. CASE covered /\ key # "STOP"
  <2>1. g \in Committed(f, FullTravel(key, by), via, FALSE)
    BY <1>3 DEF Heard
  <2>2. IsTravel(FullTravel(key, by))
    BY DEF IsTravel
  <2>3. PICK m : m = FullTravel(key, by)
    OBVIOUS
  <2>4. (Keen(g) => Keen(f)) /\ Carries(g, m)
    <3>1. PICK no : IsTravel(m) /\ g \in Committed(f, m, via, no)
      BY <2>1, <2>2, <2>3
    <3> QED
      BY <3>1, CommittedFrom
  <2>5. ASSUME NEW p, g.motion = [m EXCEPT !.start = p]
        PROVE  Drawn(g) /\ ~OwnMeasured(g)
    <3>1. g.motion = [FullTravel(key, by) EXCEPT !.start = p]
      BY <2>3, <2>5
    <3> QED
      BY <3>1, TravelDrawn, Zenon
  <2>6. Drawn(g) /\ ~OwnMeasured(g)
    BY <2>4, <2>5, AtRest, Zenon DEF Carries
  <2> QED
    BY <1>3, <2>4, <2>6
<1> QED
  BY <1>1, <1>2, <1>3 DEF Heard

\* A travel that ends without being watched leaves a doubt, and a measured move
\* does not end one.
LEMMA CompletedFrom ==
  ASSUME NEW f, Sound(f), Moving(f), Drawn(f), NEW via
  PROVE  /\ Keen(Completed(f, via)) => Watched(f) \/ (Keen(f) /\ ~f.motion.absolute)
         /\ ~Moving(Completed(f, via))
<1> DEFINE a == Anchored([f EXCEPT !.pos = f.motion.target], ~f.motion.recovered)
           s == [a EXCEPT !.suspect = @ \/ f.motion.recovered]
<1>1. /\ WellFormed(a) /\ a.pos = f.motion.target
      /\ a.anchored <=> (f.motion.target \in Ends /\ ~f.motion.recovered)
      /\ a.suspect <=> (f.suspect /\ ~(f.motion.target \in Ends /\ ~f.motion.recovered))
  BY DEF Sound, WellFormed, Anchored
<1>2. /\ WellFormed(s) /\ s.pos = f.motion.target /\ s.anchored = a.anchored
      /\ s.suspect <=> (f.motion.recovered \/ (f.suspect /\ f.motion.target \notin Ends))
  <2> HIDE DEF a
  <2> QED
    BY <1>1 DEF Sound, WellFormed
<1>3. PICK k : /\ k = Cleared(s) /\ Sound(k) /\ ~Moving(k) /\ k.suspect = s.suspect
  <2> HIDE DEF a, s
  <2>1. f.motion.target # Unknown
    BY DEF Sound
  <2> QED
    BY <1>2, <2>1, ClearedSound
<1>4. Completed(f, via) = Reconciled(k, via)
  BY <1>3 DEF Completed
<1> HIDE DEF a, s
<1>5. Weaker(k, Completed(f, via)) /\ ~Moving(Completed(f, via))
  BY <1>3, <1>4, ReconciledWeaker, ReconciledSound, BlankSound DEF Moving
<1>6. Keen(Completed(f, via)) => ~s.suspect
  BY <1>3, <1>5 DEF Weaker, Keen
<1>7. /\ f.suspect \in BOOLEAN /\ f.motion.recovered \in BOOLEAN
      /\ f.pos = Unknown => f.motion.target \in Ends
  BY DEF Sound, WellFormed
<1>8. ~s.suspect => Watched(f) \/ (Keen(f) /\ ~f.motion.absolute)
  BY <1>2, <1>7 DEF Watched, Keen, Drawn
<1> QED
  BY <1>5, <1>6, <1>8

LEMMA RestoredWeaker ==
  ASSUME NEW s, Sound(s), ~s.anchored, NEW via, NEW cutOff, NEW elapsed,
         NEW g \in Restored(s, via, cutOff, elapsed)
  PROVE  /\ Keen(g) => Keen(s)
         /\ ~Watched(g)
         /\ OwnMeasured(g) => OwnMeasured(s)
         /\ Drawn(s) => Drawn(g)
<1>1. PICK f : f = Reconciled(s, via) /\ Sound(f) /\ Keeps(s, f) /\ ~f.anchored /\ Weaker(s, f)
  BY ReconciledSound, ReconciledWeaker DEF Keeps
<1>2. CASE ~Moving(f) /\ g = f
  BY <1>1, <1>2, AtRest DEF Weaker
<1>3. CASE g = MarkUnknown(s)
  BY <1>3, BlankSound, AtRest DEF MarkUnknown, Keen
<1>4. CASE Moving(f) /\ g = Elapsed(f, via)
  <2>1. PICK h : g = [h EXCEPT !.suspect = (h.pos # Unknown)] /\ Sound(h) /\ ~Moving(h)
    <3>1. WellFormed([f EXCEPT !.pos = f.motion.target]) /\ ~[f EXCEPT !.pos = f.motion.target].anchored
      BY <1>1 DEF Sound, WellFormed
    <3>2. PICK c : /\ c = Cleared([f EXCEPT !.pos = f.motion.target])
                   /\ Sound(c) /\ ~c.anchored /\ ~Moving(c)
      BY <3>1, ClearedSound
    <3>3. PICK e : e = [c EXCEPT !.anchor = f.motion.by]
      OBVIOUS
    <3>4. WellFormed(e) /\ e.motion = c.motion /\ ~e.anchored
      BY <3>2, <3>3 DEF Sound, WellFormed
    <3>5. Sound(e) /\ ~Moving(e)
      BY <3>2, <3>4 DEF Sound, Moving
    <3>6. ASSUME NEW q, Sound(q), ~Moving(q)
          PROVE  Sound(Reconciled(q, via)) /\ ~Moving(Reconciled(q, via))
      BY <3>6, ReconciledSound, BlankSound DEF Moving
    <3>7. \/ g = [Reconciled(c, via) EXCEPT !.suspect = (Reconciled(c, via).pos # Unknown)]
          \/ g = [Reconciled(e, via) EXCEPT !.suspect = (Reconciled(e, via).pos # Unknown)]
      BY <1>4, <3>2, <3>3 DEF Elapsed
    <3> QED
      BY <3>2, <3>5, <3>6, <3>7
  <2>2. g.pos = h.pos /\ g.motion = h.motion /\ (g.pos # Unknown => g.suspect)
    BY <2>1 DEF Sound, WellFormed
  <2>3. ~Moving(g) /\ ~Keen(g)
    BY <2>1, <2>2 DEF Moving, Keen
  <2> QED
    BY <2>3, AtRest
<1>5. CASE Moving(f) /\ \E p \in Estimates(f) : g = [f EXCEPT !.pos = p, !.motion.recovered = TRUE]
  <2>1. PICK p \in Estimates(f) : g = [f EXCEPT !.pos = p, !.motion.recovered = TRUE]
    BY <1>5
  <2>2. p = Unknown <=> f.pos = Unknown
    BY <1>1, <1>5 DEF Estimates, Sound, Unknown
  <2>3. /\ g.pos = p /\ g.suspect = f.suspect /\ g.motion.recovered
        /\ g.motion.target = f.motion.target /\ g.motion.absolute = f.motion.absolute
        /\ g.motion.timed = f.motion.timed /\ g.motion.by = f.motion.by
    BY <2>1, <1>1 DEF Sound, WellFormed
  <2>4. /\ Keen(g) => Keen(f)
        /\ ~Watched(g) /\ (OwnMeasured(g) => OwnMeasured(f)) /\ (Drawn(f) => Drawn(g))
    BY <1>5, <2>2, <2>3 DEF Keen, Watched, OwnMeasured, Drawn, ByCommand
  <2> QED
    BY <1>1, <2>4 DEF Weaker
<1>6. ~Moving(s) => ~Moving(f)
  BY <1>1, ReconciledSound, BlankSound DEF Moving
<1> QED
  BY <1>1, <1>2, <1>3, <1>4, <1>5, <1>6 DEF Restored
----------------------------------------------------------------------------
(* What was pressed: the leaves. *)

\* A press that the leaf may not overlook.
Unkept(e, l) == e[1] = "press" /\ <<e, l>> \notin forgiven

Clean(S, l) == \A e \in S : ~Unkept(e, l)

\* A leaf that shows a position without reservation knows of every press that
\* moved it; a full travel will settle all it does not know but what followed
\* it; a measured move rests on what moved the leaf last; and what the state
\* machine keeps is as good while a restore will believe it.
Heeds(l) ==
  /\ Drawn(leaf[l]) /\ Drawn(snap[l])
  /\ Keen(leaf[l]) => Clean(world[l].due \cup world[l].origin, l)
  /\ Watched(leaf[l]) => Clean(world[l].due, l)
  /\ OwnMeasured(leaf[l]) => ~Unkept(world[l].last, l)
  /\ stage[l] # "added" /\ l \notin overtaken /\ l \notin mark =>
       /\ Keen(snap[l]) => Clean(world[l].base, l)
       /\ OwnMeasured(snap[l]) => ~Unkept(world[l].last, l)

\* The motors of a leaf do not move, or something else than a press moves them.
Driven(l) ==
  \E e : /\ e[1] # "press"
         /\ world'[l].last \in {world[l].last, e}
         /\ world'[l].due \subseteq world[l].due \cup {e}
         /\ world'[l].origin \subseteq world[l].origin
         /\ world'[l].base \subseteq world[l].base \cup {e}

Forgives == forgiven \subseteq forgiven'

\* The stored state is no more welcome than before.
Wary(l) == stage[l] # "added" /\ l \notin overtaken' /\ l \notin mark' =>
             l \notin overtaken /\ l \notin mark

Calm(l) ==
  /\ UNCHANGED <<stage[l], snap[l]>>
  /\ Weaker(leaf[l], leaf'[l])
  /\ Driven(l)
  /\ Wary(l)

LEMMA CalmHeeds ==
  ASSUME NEW l, Heeds(l), Forgives, Calm(l)
  PROVE  Heeds(l)'
<1>1. PICK e : /\ e[1] # "press"
               /\ world'[l].last \in {world[l].last, e}
               /\ world'[l].due \subseteq world[l].due \cup {e}
               /\ world'[l].origin \subseteq world[l].origin
               /\ world'[l].base \subseteq world[l].base \cup {e}
  BY DEF Calm, Driven
<1>2. \A x : Unkept(x, l)' => Unkept(x, l) /\ x # e
  BY <1>1 DEF Unkept, Forgives
<1>3. /\ Clean(world[l].due \cup world[l].origin, l) => Clean(world[l].due \cup world[l].origin, l)'
      /\ Clean(world[l].due, l) => Clean(world[l].due, l)'
      /\ Clean(world[l].base, l) => Clean(world[l].base, l)'
  BY <1>1, <1>2 DEF Clean
<1>4. Unkept(world[l].last, l)' => Unkept(world[l].last, l)
  BY <1>1, <1>2 DEF Unkept
<1>5. /\ Keen(leaf[l])' => Keen(leaf[l])
      /\ Watched(leaf[l])' => Watched(leaf[l])
      /\ OwnMeasured(leaf[l])' => OwnMeasured(leaf[l])
      /\ Drawn(leaf[l]) => Drawn(leaf[l])'
  BY DEF Calm, Weaker, Keen, Watched, OwnMeasured, Drawn, Moving, ByCommand
<1>6. /\ Keen(snap[l])' => Keen(snap[l])
      /\ OwnMeasured(snap[l])' => OwnMeasured(snap[l])
      /\ Drawn(snap[l]) => Drawn(snap[l])'
  BY DEF Calm, Keen, OwnMeasured, Drawn, Moving, ByCommand
<1>7. (stage[l] # "added")' /\ (l \notin overtaken)' /\ (l \notin mark)' =>
        stage[l] # "added" /\ l \notin overtaken /\ l \notin mark
  BY DEF Calm, Wary
<1> QED
  BY <1>3, <1>4, <1>5, <1>6, <1>7 DEF Heeds

\* The fields of the history, which no property is about.
Shaped ==
  /\ DOMAIN world = Leaf
  /\ \A l \in Leaf :
       world[l] = [last |-> world[l].last, moving |-> world[l].moving, due |-> world[l].due,
                   origin |-> world[l].origin, base |-> world[l].base]

Heedful == \A l \in Leaf : Heeds(l)

Quietly == Forgives /\ \A l \in Leaf : Calm(l)

LEMMA QuietlyHeedful ==
  ASSUME Heedful, Quietly
  PROVE  Heedful'
  BY CalmHeeds DEF Heedful, Quietly

LEMMA SameWeaker ==
  ASSUME NEW f
  PROVE  Weaker(f, f)
  BY DEF Weaker

LEMMA StillDriven ==
  ASSUME NEW l, world'[l] = world[l]
  PROVE  Driven(l)
<1>1. NoEvent[1] # "press"
  BY DEF NoEvent
<1> QED
  BY <1>1 DEF Driven

LEMMA HappenedDriven ==
  ASSUME Shaped, NEW e, e[1] # "press", NEW ls, NEW moving, NEW l \in Leaf,
         world'[l] = Happened(world, e, ls, moving)[l]
  PROVE  Driven(l)
<1>1. PICK new : /\ new \subseteq {e}
                 /\ world'[l] \in {world[l],
                      [world[l] EXCEPT !.last = e, !.moving = moving, !.due = @ \cup new,
                                       !.base = @ \cup new]}
  BY DEF Happened
<1>2. CASE world'[l] = world[l]
  BY <1>2, StillDriven
<1>3. CASE world'[l] = [world[l] EXCEPT !.last = e, !.moving = moving, !.due = @ \cup new,
                                        !.base = @ \cup new]
  <2>1. /\ world'[l].last = e /\ world'[l].due = world[l].due \cup new
        /\ world'[l].origin = world[l].origin /\ world'[l].base = world[l].base \cup new
    BY <1>3 DEF Shaped
  <2> QED
    BY <1>1, <2>1 DEF Driven
<1> QED
  BY <1>1, <1>2, <1>3

LEMMA InvalidWeaker ==
  ASSUME NEW ls, NEW l \in Leaf
  PROVE  Weaker(leaf[l], Invalid(leaf, ls)[l])
  BY InvalidLeaves, SameWeaker, BlankWeaker

LEMMA DisownedCalm ==
  ASSUME Marked, NEW ls, Disowned(ls), NEW l \in Leaf
  PROVE  Weaker(leaf[l], leaf'[l]) /\ Wary(l)
  BY InvalidWeaker DEF Disowned, Wary

LEMMA LostCalm ==
  ASSUME Marked, NEW t, Lost(t), NEW l \in Leaf
  PROVE  Weaker(leaf[l], leaf'[l]) /\ Wary(l)
<1>1. ASSUME NEW S, Recorded(S)
      PROVE  Weaker(leaf[l], leaf'[l]) /\ Wary(l)
  BY <1>1, InvalidWeaker DEF Recorded, Wary
<1> QED
  BY <1>1, DisownedCalm, SameWeaker DEF Lost, Wary

\* Steps that leave the leaves alone.
LEMMA StillQuiet ==
  ASSUME UNCHANGED entities, Forgives, \A l \in Leaf : Driven(l)
  PROVE  Quietly
  BY SameWeaker DEF entities, Quietly, Calm, Wary

LEMMA ShapedAgain ==
  ASSUME Shaped, UNCHANGED world
  PROVE  Shaped'
  BY DEF Shaped

LEMMA CallQuiet ==
  ASSUME Marked, NEW o \in Op, Call(o)
  PROVE  Quietly
<1>1. UNCHANGED <<stage, snap, world>> /\ Forgives
  BY DEF Call, LoseSight, Forgives
<1>2. UNCHANGED <<leaf, overtaken, mark>> \/ \E ls : Disowned(ls)
  BY DEF Call, Dropped
<1>3. ASSUME NEW l \in Leaf
      PROVE  Weaker(leaf[l], leaf'[l]) /\ Wary(l)
  BY <1>2, DisownedCalm, SameWeaker DEF Wary
<1> QED
  BY <1>1, <1>3, StillDriven DEF Quietly, Calm

LEMMA CancelQuiet ==
  ASSUME Marked, NEW t, Cancel(t)
  PROVE  Quietly
<1>1. UNCHANGED <<stage, snap, world>> /\ Forgives
  BY DEF Cancel, LoseSight, Forgives
<1>2. Lost(t) \/ \E ls : Disowned(ls)
  BY DEF Cancel, Dropped
<1>3. ASSUME NEW l \in Leaf
      PROVE  Weaker(leaf[l], leaf'[l]) /\ Wary(l)
  BY <1>2, DisownedCalm, LostCalm
<1> QED
  BY <1>1, <1>3, StillDriven DEF Quietly, Calm

LEMMA TimeoutQuiet ==
  ASSUME Marked, NEW c, Timeout(c)
  PROVE  Quietly
<1>1. UNCHANGED <<stage, snap, world>> /\ Forgives
  BY DEF Timeout, Forgives
<1>2. Lost(TaskOf(c)) \/ UNCHANGED <<leaf, overtaken, mark>>
  BY DEF Timeout
<1>3. ASSUME NEW l \in Leaf
      PROVE  Weaker(leaf[l], leaf'[l]) /\ Wary(l)
  BY <1>2, LostCalm, SameWeaker DEF Wary
<1> QED
  BY <1>1, <1>3, StillDriven DEF Quietly, Calm

\* The takeover of a command whose request ends without a displacement.
LEMMA TakenQuiet ==
  ASSUME UNCHANGED <<stage, snap, mark>>, NEW c, NEW xs,
         leaf' = Invalid(leaf, xs \cap Leaf), TakenOver(xs), Closed(c, xs),
         UNCHANGED world
  PROVE  Quietly
<1>1. Forgives
  BY DEF Closed, Forgives
<1>2. ASSUME NEW l \in Leaf
      PROVE  Weaker(leaf[l], leaf'[l]) /\ Wary(l)
  BY InvalidWeaker DEF TakenOver, Wary
<1> QED
  BY <1>1, <1>2, StillDriven DEF Quietly, Calm

LEMMA TimedOutQuiet ==
  ASSUME NEW c, TimedOut(c)
  PROVE  Quietly
<1>1. UNCHANGED <<stage, snap, mark, world>>
  BY DEF TimedOut
<1>2. \E xs : leaf' = Invalid(leaf, xs \cap Leaf) /\ TakenOver(xs) /\ Closed(c, xs)
  BY DEF TimedOut
<1> QED
  BY <1>1, <1>2, TakenQuiet

LEMMA DisarmedQuiet ==
  ASSUME UNCHANGED <<stage, snap, mark>>, NEW c, NEW late, DisarmedStatus(c, late)
  PROVE  Quietly
<1>1. CASE UNCHANGED <<leaf, overtaken, history>>
  <2>1. Forgives /\ UNCHANGED <<entities, world>>
    BY <1>1 DEF Forgives, history, entities
  <2> QED
    BY <2>1, StillDriven, StillQuiet
<1>2. CASE \E xs : leaf' = Invalid(leaf, xs \cap Leaf) /\ TakenOver(xs) /\ Closed(c, xs) /\ UNCHANGED world
  BY <1>2, TakenQuiet
<1> QED
  BY <1>1, <1>2 DEF DisarmedStatus

LEMMA AnnouncedQuiet ==
  ASSUME Known, UNCHANGED <<stage, snap, mark>>, NEW status, Announced(status)
  PROVE  Quietly
<1>1. UNCHANGED <<overtaken, world, forgiven>>
  BY DEF Announced, history
<1>2. ASSUME NEW l \in Leaf
      PROVE  Weaker(leaf[l], leaf'[l])
  BY BridgeChangedWeaker, SameWeaker DEF Announced, Known
<1> QED
  BY <1>1, <1>2, StillDriven DEF Quietly, Calm, Wary, Forgives

\* The history of a publication: STOPs that a bridge lets go of.
LEMMA FlushedDriven ==
  ASSUME Shaped, NEW stops, NEW l \in Leaf, world'[l] = Flushed(world, stops)[l]
  PROVE  Driven(l)
<1>1. CASE world'[l] = world[l]
  BY <1>1, StillDriven
<1>2. ASSUME NEW d, world'[l] = Happened(world, <<"stop", d>>, {l}, FALSE)[l]
      PROVE  Driven(l)
  <2>1. PICK e : e = <<"stop", d>>
    OBVIOUS
  <2>2. e[1] # "press" /\ world'[l] = Happened(world, e, {l}, FALSE)[l]
    BY <1>2, <2>1
  <2> QED
    BY <2>2, HappenedDriven
<1>3. world'[l] = world[l] \/ \E d : world'[l] = Happened(world, <<"stop", d>>, {l}, FALSE)[l]
  BY DEF Flushed
<1> QED
  BY <1>1, <1>2, <1>3

LEMMA SendQuiet ==
  ASSUME Shaped, NEW i, Send(i)
  PROVE  Quietly
<1>1. UNCHANGED <<entities, forgiven>>
  BY DEF Send
<1>2. world' = world \/ \E stops : world' = Flushed(world, stops)
  BY DEF Send
<1>3. \A l \in Leaf : Driven(l)
  BY <1>2, FlushedDriven, StillDriven
<1> QED
  BY <1>1, <1>3, StillQuiet DEF Forgives

LEMMA AirQuiet ==
  ASSUME Shaped, NEW c, Air(c)
  PROVE  Quietly
<1>1. UNCHANGED <<entities, forgiven>>
  BY DEF Air
<1>2. PICK e, ls, moving : e = <<"air", c>> /\ world' = Happened(world, e, ls, moving)
  BY DEF Air
<1>3. \A l \in Leaf : Driven(l)
  BY <1>2, HappenedDriven
<1> QED
  BY <1>1, <1>3, StillQuiet DEF Forgives

LEMMA FireQuiet ==
  ASSUME Shaped, NEW c, Fire(c)
  PROVE  Quietly
<1>1. UNCHANGED <<entities, forgiven>>
  BY DEF Fire
<1>2. CASE world' = [world EXCEPT ![c[2]].moving = FALSE]
  <2>1. ASSUME NEW l \in Leaf
        PROVE  Driven(l)
    <3>1. /\ world'[l].last = world[l].last /\ world'[l].due = world[l].due
          /\ world'[l].origin = world[l].origin /\ world'[l].base = world[l].base
      BY <1>2 DEF Shaped
    <3>2. NoEvent[1] # "press"
      BY DEF NoEvent
    <3> QED
      BY <3>1, <3>2 DEF Driven
  <2> QED
    BY <1>1, <2>1, StillQuiet DEF Forgives
<1>3. CASE \E e : e = <<"stop", c>> /\ world' = Happened(world, e, {c[2]}, FALSE)
  <2>1. \A l \in Leaf : Driven(l)
    BY <1>3, HappenedDriven
  <2> QED
    BY <1>1, <2>1, StillQuiet DEF Forgives
<1> QED
  BY <1>2, <1>3 DEF Fire

LEMMA OverrunQuiet ==
  ASSUME Shaped, NEW c, Overrun(c)
  PROVE  Quietly
<1>1. UNCHANGED <<entities, forgiven>>
  BY DEF Overrun
<1>2. world' = world \/ \E e : e = <<"lost", c>> /\ world' = Happened(world, e, {c[2]}, TRUE)
  BY DEF Overrun
<1>3. \A l \in Leaf : Driven(l)
  BY <1>2, HappenedDriven, StillDriven
<1> QED
  BY <1>1, <1>3, StillQuiet DEF Forgives

\* The other steps leave the history alone, too.
LEMMA IdleQuiet ==
  ASSUME UNCHANGED <<entities, history>>
  PROVE  Quietly
  BY StillDriven, StillQuiet DEF Forgives, history

\* What accounting leaves of a history.
LEMMA AccountedAt ==
  ASSUME NEW w, NEW l \in Leaf, NEW es, NEW ls, NEW absolute \in BOOLEAN, NEW v,
         w[l] = [last |-> w[l].last, moving |-> w[l].moving, due |-> w[l].due,
                 origin |-> w[l].origin, base |-> w[l].base],
         v = Accounted(w, es, ls, absolute)[l]
  PROVE  /\ l \notin ls => v = w[l]
         /\ v.last = w[l].last /\ v.base = w[l].base
         /\ l \in ls =>
              /\ v.due \cup v.origin \subseteq (w[l].due \cup w[l].origin \cup {w[l].last}) \ es
              /\ absolute => v.due \subseteq {w[l].last} \ es
<1> DEFINE later == {w[l].last} \ (es \cup {NoEvent})
           before == (w[l].due \cup w[l].origin) \ (es \cup later)
<1>1. v = IF l \notin ls THEN w[l]
          ELSE [w[l] EXCEPT !.origin = IF absolute THEN before ELSE {},
                            !.due = IF absolute THEN later ELSE before \cup later]
  BY DEF Accounted
<1>2. l \in ls =>
        /\ v.origin = IF absolute THEN before ELSE {}
        /\ v.due = IF absolute THEN later ELSE before \cup later
        /\ v.last = w[l].last /\ v.base = w[l].base
  <2> HIDE DEF later, before
  <2> QED
    BY <1>1
<1> QED
  BY <1>1, <1>2

\* What a leaf has to show for itself behind a step.
LEMMA HeedsNow ==
  ASSUME NEW l, Drawn(leaf'[l]), Drawn(snap'[l]),
         Keen(leaf'[l]) => \A e \in world'[l].due \cup world'[l].origin :
                             e[1] = "press" => <<e, l>> \in forgiven',
         Watched(leaf'[l]) => \A e \in world'[l].due : e[1] = "press" => <<e, l>> \in forgiven',
         OwnMeasured(leaf'[l]) => (world'[l].last[1] = "press" => <<world'[l].last, l>> \in forgiven'),
         stage'[l] # "added" /\ l \notin overtaken' /\ l \notin mark' =>
           /\ Keen(snap'[l]) => \A e \in world'[l].base : e[1] = "press" => <<e, l>> \in forgiven'
           /\ OwnMeasured(snap'[l]) =>
                (world'[l].last[1] = "press" => <<world'[l].last, l>> \in forgiven')
  PROVE  Heeds(l)'
<1>1. /\ Drawn(leaf[l])' <=> Drawn(leaf'[l])
      /\ Keen(leaf[l])' <=> Keen(leaf'[l])
      /\ Watched(leaf[l])' <=> Watched(leaf'[l])
      /\ OwnMeasured(leaf[l])' <=> OwnMeasured(leaf'[l])
      /\ Drawn(snap[l])' <=> Drawn(snap'[l])
      /\ Keen(snap[l])' <=> Keen(snap'[l])
      /\ OwnMeasured(snap[l])' <=> OwnMeasured(snap'[l])
  BY DEF Drawn, Keen, Watched, OwnMeasured, Moving, ByCommand
<1>2. Keen(leaf[l])' => Clean(world[l].due \cup world[l].origin, l)'
  BY <1>1 DEF Clean, Unkept
<1>3. Watched(leaf[l])' => Clean(world[l].due, l)'
  BY <1>1 DEF Clean, Unkept
<1>4. OwnMeasured(leaf[l])' => ~Unkept(world[l].last, l)'
  BY <1>1 DEF Unkept
<1>5. (stage[l] # "added")' /\ (l \notin overtaken)' /\ (l \notin mark)' =>
        /\ Keen(snap[l])' => Clean(world[l].base, l)'
        /\ OwnMeasured(snap[l])' => ~Unkept(world[l].last, l)'
  BY <1>1 DEF Clean, Unkept
<1> QED
  BY <1>1, <1>2, <1>3, <1>4, <1>5 DEF Heeds

\* What it has to show for what was stored is as good as before.
LEMMA StoredStillGood ==
  ASSUME NEW l, Heeds(l), Forgives, snap'[l] = snap[l],
         world'[l].last = world[l].last, world'[l].base = world[l].base,
         stage'[l] # "added" /\ l \notin overtaken' /\ l \notin mark' =>
           stage[l] # "added" /\ l \notin overtaken /\ l \notin mark
  PROVE  stage'[l] # "added" /\ l \notin overtaken' /\ l \notin mark' =>
           /\ Keen(snap'[l]) => \A e \in world'[l].base : e[1] = "press" => <<e, l>> \in forgiven'
           /\ OwnMeasured(snap'[l]) =>
                (world'[l].last[1] = "press" => <<world'[l].last, l>> \in forgiven')
  BY DEF Heeds, Clean, Unkept, Forgives

LEMMA UntouchedHeeds ==
  ASSUME NEW l \in Leaf, Heedful, Forgives, UNCHANGED <<stage, snap, mark, leaf[l], world[l]>>,
         overtaken \subseteq overtaken'
  PROVE  Heeds(l)'
<1>1. Calm(l)
  BY SameWeaker, StillDriven DEF Calm, Wary
<1> QED
  BY <1>1, CalmHeeds DEF Heedful

LEMMA CommitHeedful ==
  ASSUME Known, Heedful, Shaped, Forgives, UNCHANGED <<stage, snap, mark>>,
         NEW c, NEW ls \in SUBSET Live, Commit(c, ls),
         \A l \in ls : world[l].last[1] = "press" => <<world[l].last, l>> \in forgiven'
  PROVE  Heedful'
<1> DEFINE by == <<"air", c>>
           motion == IF Timed(c) THEN PartTravel(button[c], by) ELSE FullTravel(button[c], by)
           of(l) == IF button[c] = "STOP" THEN Stopped(leaf[l], "commanded", registry)
                    ELSE Committed(leaf[l], motion, registry, c \in displaced)
           values == [l \in Leaf |-> IF l \in ls THEN of(l) ELSE {leaf[l]}]
           full == button[c] # "STOP" /\ ~Timed(c)
<1>1. leaf' \in Outcomes(values) /\ overtaken' = overtaken \cup (ls \cap Adding)
  BY DEF Commit
<1>2. DOMAIN leaf' = Leaf /\ \A l \in Leaf : leaf'[l] \in values[l]
  BY <1>1, OutcomesChosen
<1>3. PICK es : world' = Accounted(world, es, ls, full)
  BY DEF Commit
<1>4. full \in BOOLEAN
  OBVIOUS
<1>5. ASSUME NEW l \in Leaf, l \in ls
      PROVE  /\ Keen(leaf'[l]) => Keen(leaf[l])
             /\ Drawn(leaf'[l])
             /\ Watched(leaf'[l]) => full
  <2>1. leaf'[l] \in of(l) /\ Sound(leaf[l])
    BY <1>2, <1>5 DEF Known
  <2>2. CASE button[c] = "STOP"
    <3>1. leaf'[l] \in Stopped(leaf[l], "commanded", registry)
      BY <2>1, <2>2
    <3>2. Weaker(leaf[l], leaf'[l]) /\ ~Moving(leaf'[l])
      BY <2>1, <3>1, StoppedWeaker
    <3> QED
      BY <3>2, AtRest DEF Weaker
  <2>3. CASE button[c] # "STOP"
    <3>1. PICK m : m = motion
      OBVIOUS
    <3>2. PICK known : leaf'[l] \in Committed(leaf[l], m, registry, known)
      BY <2>1, <2>3, <3>1
    <3>3. IsTravel(m)
      BY <3>1 DEF IsTravel
    <3>4. (Keen(leaf'[l]) => Keen(leaf[l])) /\ Carries(leaf'[l], m)
      BY <2>1, <3>2, <3>3, CommittedFrom
    <3>5. ASSUME NEW p, leaf'[l].motion = [m EXCEPT !.start = p]
          PROVE  Drawn(leaf'[l]) /\ (Timed(c) => ~Watched(leaf'[l]))
      <4>1. PICK g : g = leaf'[l]
        OBVIOUS
      <4>2. CASE Timed(c)
        <5>1. g.motion = [PartTravel(button[c], by) EXCEPT !.start = p]
          BY <3>1, <3>5, <4>1, <4>2
        <5> QED
          BY <4>1, <5>1, TravelDrawn
      <4>3. CASE ~Timed(c)
        <5>1. g.motion = [FullTravel(button[c], by) EXCEPT !.start = p]
          BY <3>1, <3>5, <4>1, <4>3
        <5>2. Drawn(g)
          BY <5>1, TravelDrawn
        <5> QED
          BY <4>1, <4>3, <5>2
      <4> QED
        BY <4>2, <4>3
    <3>6. Drawn(leaf'[l]) /\ (Timed(c) => ~Watched(leaf'[l]))
      BY <3>4, <3>5, AtRest DEF Carries
    <3> QED
      BY <2>3, <3>4, <3>6
  <2> QED
    BY <2>2, <2>3
<1> HIDE DEF values, full, motion, of
<1>6. ASSUME NEW l \in Leaf, l \in ls
      PROVE  Heeds(l)'
  <2>1. /\ world'[l].last = world[l].last
        /\ world'[l].due \cup world'[l].origin \subseteq
             world[l].due \cup world[l].origin \cup {world[l].last}
        /\ full => world'[l].due \subseteq {world[l].last}
    BY <1>3, <1>4, <1>6, AccountedAt DEF Shaped
  <2>2. stage'[l] = "added" \/ l \in overtaken'
    BY <1>1, <1>6 DEF Live, Registered, Adding
  <2>3. Heeds(l)
    BY DEF Heedful
  <2>4. ASSUME NEW e, e = world[l].last, e[1] = "press"
        PROVE  <<e, l>> \in forgiven'
    BY <1>6, <2>4
  <2>5. Keen(leaf'[l]) => \A e \in world'[l].due \cup world'[l].origin :
                            e[1] = "press" => <<e, l>> \in forgiven'
    BY <1>5, <1>6, <2>1, <2>3, <2>4 DEF Heeds, Clean, Unkept, Forgives
  <2>6. Watched(leaf'[l]) => \A e \in world'[l].due : e[1] = "press" => <<e, l>> \in forgiven'
    BY <1>5, <1>6, <2>1, <2>4
  <2> QED
    BY <1>5, <1>6, <2>1, <2>2, <2>3, <2>4, <2>5, <2>6, HeedsNow DEF Heeds
<1>7. ASSUME NEW l \in Leaf, l \notin ls
      PROVE  Heeds(l)'
  <2>1. world'[l] = world[l]
    BY <1>3, <1>4, <1>7, AccountedAt DEF Shaped
  <2>2. leaf'[l] = leaf[l]
    BY <1>2, <1>7 DEF values
  <2> QED
    BY <1>1, <2>1, <2>2, UntouchedHeeds
<1> QED
  BY <1>6, <1>7 DEF Heedful

LEMMA DisplacedHeedful ==
  ASSUME Known, Heedful, Shaped, UNCHANGED <<stage, snap, mark>>, NEW c, DisplacedStatus(c)
  PROVE  Heedful'
<1> DEFINE flushed == entry[c] \in {"started", "confirmed"} /\ Timed(c)
           taken == IF req[c].open THEN Taken(c, req[c], "displaced", flushed) ELSE {}
           models == Invalid(leaf, taken \cap Leaf)
           mine == {l \in Live : models[l].motion.by = <<"air", c>> /\ models[l].motion.timed}
           values == [l \in Leaf |-> IF l \in mine THEN Frozen(models[l], c) ELSE {models[l]}]
<1>1. leaf' \in Outcomes(values)
  BY DEF DisplacedStatus
<1>2. DOMAIN leaf' = Leaf /\ \A l \in Leaf : leaf'[l] \in values[l]
  BY <1>1, OutcomesChosen
<1>3. \A l \in Leaf : models[l] \in {leaf[l], Blank}
  BY InvalidLeaves
<1>4. overtaken \subseteq overtaken' /\ Forgives
  BY DEF DisplacedStatus, TakenOver, Closed, Forgives
<1>5. PICK no \in BOOLEAN : no = FALSE
  OBVIOUS
<1>6. PICK es : world' = Accounted(world, es, mine, no)
  BY <1>5 DEF DisplacedStatus
<1>7. \A l \in mine : models[l].motion.by = <<"air", c>> /\ models[l].motion.timed
  OBVIOUS
<1> HIDE DEF taken, models, mine
<1>8. ASSUME NEW l \in Leaf, l \notin mine
      PROVE  Heeds(l)'
  <2>1. Weaker(leaf[l], leaf'[l])
    BY <1>2, <1>3, <1>8, SameWeaker, BlankWeaker
  <2>2. world'[l] = world[l]
    BY <1>6, <1>8, AccountedAt DEF Shaped
  <2> QED
    BY <1>4, <2>1, <2>2, StillDriven, CalmHeeds DEF Heedful, Calm, Wary
<1>9. ASSUME NEW l \in Leaf, l \in mine
      PROVE  Heeds(l)'
  <2>1. PICK f : f = leaf[l] /\ f = models[l]
    BY <1>3, <1>7, <1>9 DEF Blank, NoMotion
  <2>2. f.motion.by = <<"air", c>> /\ f.motion.timed /\ Sound(f)
    BY <1>7, <1>9, <2>1 DEF Known
  <2>3. leaf'[l] \in Interrupted(f)
    BY <1>2, <1>9, <2>1, <2>2 DEF Frozen
  <2>4. Weaker(f, leaf'[l]) /\ ~Moving(leaf'[l])
    BY <2>2, <2>3, InterruptedWeaker
  <2>5. /\ world'[l].last = world[l].last /\ world'[l].base = world[l].base
        /\ world'[l].due \cup world'[l].origin \subseteq
             world[l].due \cup world[l].origin \cup {world[l].last}
    BY <1>6, <1>9, AccountedAt DEF Shaped
  <2>6. Heeds(l) /\ OwnMeasured(leaf[l])
    BY <2>1, <2>2 DEF Heedful, OwnMeasured, ByCommand
  <2>7. ~Watched(leaf'[l]) /\ ~OwnMeasured(leaf'[l]) /\ Drawn(leaf'[l])
    BY <2>4, AtRest
  <2>8. Keen(leaf'[l]) => Keen(leaf[l])
    BY <2>1, <2>4 DEF Weaker
  <2>9. Keen(leaf'[l]) => \A e \in world'[l].due \cup world'[l].origin :
                            e[1] = "press" => <<e, l>> \in forgiven'
    BY <1>4, <2>5, <2>6, <2>8 DEF Heeds, Clean, Unkept, Forgives
  <2>10. stage'[l] # "added" /\ l \notin overtaken' /\ l \notin mark' =>
           /\ Keen(snap'[l]) => \A e \in world'[l].base : e[1] = "press" => <<e, l>> \in forgiven'
           /\ OwnMeasured(snap'[l]) =>
                (world'[l].last[1] = "press" => <<world'[l].last, l>> \in forgiven')
    BY <1>4, <2>5, <2>6, StoredStillGood
  <2>11. Drawn(snap'[l])
    BY <2>6 DEF Heeds
  <2> QED
    BY <2>7, <2>9, <2>10, <2>11, HeedsNow
<1> QED
  BY <1>8, <1>9 DEF Heedful

LEMMA PressHeedful ==
  ASSUME Known, Heedful, Shaped, NEW b, NEW S, Press(b, S)
  PROVE  Heedful'
<1> DEFINE moved == Addressed(S) \cap Leaf
           listeners == {x \in Addressed(S) : Registered(x)}
           targets == IF listeners = {} THEN {} ELSE Targets(b, S)
           taken == UNION {Taken(c, Merged(c, b, S), "none", FALSE) : c \in targets}
           models == Invalid(leaf, taken \cap Leaf)
           mine == listeners \cap Leaf
           covered == {l \in mine : Chan[l] \subseteq S}
<1>1. PICK e : e = <<"press", presses + 1>>
  OBVIOUS
<1> DEFINE values == [l \in Leaf |->
                        IF l \in mine THEN Heard(models[l], b, Chan[l] \subseteq S, e, registry)
                        ELSE {models[l]}]
<1>2. leaf' \in Outcomes(values) /\ UNCHANGED <<stage, snap, mark>>
  BY <1>1 DEF Press
<1>3. DOMAIN leaf' = Leaf /\ \A l \in Leaf : leaf'[l] \in values[l]
  BY <1>2, OutcomesChosen
<1>4. \A l \in Leaf : models[l] \in {leaf[l], Blank}
  BY InvalidLeaves
<1>5. Forgives
  BY DEF Press, Forgives
<1>6. overtaken' = overtaken \cup ((taken \cup mine) \cap Adding)
  BY DEF Press
<1>7. PICK es : e \in es /\ world' = Accounted(Happened(world, e, moved, b # "STOP"), es, covered, b # "STOP")
  BY <1>1 DEF Press
<1>8. PICK going \in BOOLEAN : going = (b # "STOP")
  OBVIOUS
<1>9. PICK w : w = Happened(world, e, moved, going) /\ world' = Accounted(w, es, covered, going)
  BY <1>7, <1>8
<1>10. \A x \in Addressed(S) : Registered(x)
  BY DEF Press
<1> HIDE DEF taken, targets, models
<1>11. ASSUME NEW l \in Leaf
       PROVE  /\ w[l] = [last |-> w[l].last, moving |-> w[l].moving, due |-> w[l].due,
                         origin |-> w[l].origin, base |-> w[l].base]
              /\ l \notin moved => w[l] = world[l]
              /\ l \in moved =>
                   /\ w[l].last = e /\ w[l].origin = world[l].origin
                   /\ w[l].due \subseteq world[l].due \cup {e}
  <2>1. PICK new : /\ new \subseteq {e}
                   /\ w[l] = IF l \in moved
                             THEN [world[l] EXCEPT !.last = e, !.moving = going, !.due = @ \cup new,
                                                   !.base = @ \cup new]
                             ELSE world[l]
    <3>1. w[l] = LET new == IF going \/ world[l].moving THEN {e} ELSE {}
                 IN  IF l \in moved
                     THEN [world[l] EXCEPT !.last = e, !.moving = going, !.due = @ \cup new,
                                           !.base = @ \cup new]
                     ELSE world[l]
      BY <1>9 DEF Happened
    <3>2. PICK new : new = IF going \/ world[l].moving THEN {e} ELSE {}
      OBVIOUS
    <3> QED
      BY <3>1, <3>2
  <2> HIDE DEF moved
  <2> QED
    BY <2>1 DEF Shaped
<1>12. ASSUME NEW l \in Leaf, l \notin Addressed(S)
       PROVE  Heeds(l)'
  <2>1. l \notin mine /\ l \notin covered /\ l \notin moved
    BY <1>12
  <2> HIDE DEF mine, covered, moved
  <2>2. world'[l] = world[l]
    <3>1. world'[l] = Accounted(w, es, covered, going)[l]
      BY <1>9
    <3>2. world'[l] = w[l]
      <4>1. w[l] = [last |-> w[l].last, moving |-> w[l].moving, due |-> w[l].due,
                    origin |-> w[l].origin, base |-> w[l].base]
        BY <1>11
      <4> QED
        BY <2>1, <3>1, <4>1, AccountedAt
    <3> QED
      BY <1>11, <2>1, <3>2
  <2>3. Weaker(leaf[l], leaf'[l])
    BY <1>3, <1>4, <2>1, SameWeaker, BlankWeaker
  <2> QED
    BY <1>2, <1>5, <1>6, <2>2, <2>3, StillDriven, CalmHeeds DEF Heedful, Calm, Wary
<1>13. ASSUME NEW l \in Leaf, l \in Addressed(S)
       PROVE  Heeds(l)'
  <2>1. l \in mine /\ l \in moved /\ (l \in covered <=> Chan[l] \subseteq S)
    BY <1>10, <1>13
  <2>2. stage'[l] = "added" \/ l \in overtaken'
    BY <1>2, <1>6, <1>10, <1>13 DEF Registered, Adding
  <2> HIDE DEF mine, covered, moved
  <2>3. PICK m : m = models[l] /\ m \in {leaf[l], Blank} /\ Sound(m)
    BY <1>4, BlankSound DEF Known
  <2>4. PICK all \in BOOLEAN : all = (Chan[l] \subseteq S)
    OBVIOUS
  <2>5. leaf'[l] \in Heard(m, b, all, e, registry)
    BY <1>3, <2>1, <2>3, <2>4
  <2>6. PICK g : g = leaf'[l]
    OBVIOUS
  <2>7. /\ Keen(g) => Keen(m) /\ all
        /\ Watched(g) => all /\ b # "STOP"
        /\ ~OwnMeasured(g) /\ Drawn(g)
    BY <2>3, <2>5, <2>6, HeardWeaker
  <2>8. Keen(m) => Keen(leaf[l])
    BY <2>3, BlankSound DEF Keen
  <2>9. all =>
          /\ world'[l].due \cup world'[l].origin \subseteq (w[l].due \cup w[l].origin \cup {w[l].last}) \ es
          /\ going => world'[l].due \subseteq {w[l].last} \ es
    <3>1. world'[l] = Accounted(w, es, covered, going)[l]
      BY <1>9
    <3>2. l \in covered =>
            /\ world'[l].due \cup world'[l].origin \subseteq (w[l].due \cup w[l].origin \cup {w[l].last}) \ es
            /\ going => world'[l].due \subseteq {w[l].last} \ es
      <4>1. w[l] = [last |-> w[l].last, moving |-> w[l].moving, due |-> w[l].due,
                    origin |-> w[l].origin, base |-> w[l].base]
        BY <1>11
      <4> QED
        BY <3>1, <4>1, AccountedAt
    <3> QED
      BY <2>1, <2>4, <3>2
  <2>10. all =>
          /\ world'[l].due \cup world'[l].origin \subseteq world[l].due \cup world[l].origin
          /\ going => world'[l].due = {}
    <3>1. /\ w[l].last = e /\ w[l].origin = world[l].origin
          /\ w[l].due \subseteq world[l].due \cup {e}
      BY <1>11, <2>1
    <3> QED
      BY <1>7, <2>9, <3>1
  <2>11. Heeds(l)
    BY DEF Heedful
  <2>12. Keen(g) => \A x \in world'[l].due \cup world'[l].origin :
                      x[1] = "press" => <<x, l>> \in forgiven'
    BY <1>5, <2>7, <2>8, <2>10, <2>11 DEF Heeds, Clean, Unkept, Forgives
  <2>13. Watched(g) => \A x \in world'[l].due : x[1] = "press" => <<x, l>> \in forgiven'
    BY <1>8, <2>7, <2>10
  <2>14. Drawn(snap'[l])
    BY <1>2, <2>11 DEF Heeds
  <2> QED
    BY <2>2, <2>6, <2>7, <2>12, <2>13, <2>14, HeedsNow
<1> QED
  BY <1>12, <1>13 DEF Heedful

LEMMA CompleteHeedful ==
  ASSUME Known, Heedful, Shaped, NEW l \in Leaf, Complete(l)
  PROVE  Heedful'
<1>1. /\ UNCHANGED <<stage, snap, overtaken, forgiven>> /\ stage[l] = "added" /\ Moving(leaf[l])
      /\ leaf' = [leaf EXCEPT ![l] = Completed(leaf[l], registry)]
      /\ mark' \in {mark, mark \ {l}}
  BY DEF Complete
<1>2. \E still : world' = [world EXCEPT ![l].moving = still,
                             ![l].origin = IF leaf[l].motion.absolute THEN {} ELSE world[l].origin]
  BY DEF Complete
<1>3. /\ world'[l].last = world[l].last /\ world'[l].due = world[l].due
      /\ world'[l].origin = IF leaf[l].motion.absolute THEN {} ELSE world[l].origin
      /\ \A k \in Leaf \ {l} : world'[k] = world[k]
  BY <1>2 DEF Shaped
<1>4. Forgives
  BY <1>1 DEF Forgives
<1>5. Heeds(l)'
  <2>1. Sound(leaf[l]) /\ Heeds(l)
    BY DEF Known, Heedful
  <2>2. PICK g : g = Completed(leaf[l], registry) /\ leaf'[l] = g
    BY <1>1 DEF Known
  <2>3. /\ Keen(g) => Watched(leaf[l]) \/ (Keen(leaf[l]) /\ ~leaf[l].motion.absolute)
        /\ ~Moving(g)
    BY <1>1, <2>1, <2>2, CompletedFrom DEF Heeds
  <2>4. Keen(g) => \A e \in world'[l].due \cup world'[l].origin :
                     e[1] = "press" => <<e, l>> \in forgiven'
    <3>1. Watched(leaf[l]) => world'[l].due \cup world'[l].origin \subseteq world[l].due
      BY <1>3 DEF Watched
    <3>2. world'[l].due \cup world'[l].origin \subseteq world[l].due \cup world[l].origin
      BY <1>3
    <3> QED
      BY <1>1, <2>1, <2>3, <3>1, <3>2 DEF Heeds, Clean, Unkept
  <2>5. Drawn(snap'[l]) /\ stage'[l] = "added"
    BY <1>1, <2>1 DEF Heeds
  <2> QED
    BY <2>2, <2>3, <2>4, <2>5, AtRest, HeedsNow
<1>6. ASSUME NEW k \in Leaf \ {l}
      PROVE  Heeds(k)'
  <2>1. leaf'[k] = leaf[k] /\ (k \in mark' <=> k \in mark)
    BY <1>1 DEF Known
  <2>2. Calm(k)
    BY <1>1, <1>3, <2>1, SameWeaker, StillDriven DEF Calm, Wary
  <2> QED
    BY <1>4, <2>2, CalmHeeds DEF Heedful
<1> QED
  BY <1>5, <1>6 DEF Heedful

LEMMA ReloadHeedful ==
  ASSUME Known, Heedful, Shaped, overtaken \subseteq Adding, NEW how, Reload(how)
  PROVE  Heedful'
<1>1. /\ snap' = [l \in Leaf |-> IF stage[l] = "added" THEN Persisted(leaf[l]) ELSE snap[l]]
      /\ leaf' = [l \in Leaf |-> Blank]
      /\ stage' = [x \in Cover |-> "coming"]
      /\ mark \subseteq mark' /\ Forgives
      /\ \A x \in Cover : stage[x] # "adding"
  BY DEF Reload, Forgives
<1>2. world' = [l \in Leaf |-> IF stage[l] = "added"
                               THEN [world[l] EXCEPT !.base = world[l].due \cup world[l].origin]
                               ELSE world[l]]
  BY DEF Reload
<1>3. overtaken = {}
  BY <1>1 DEF Adding, Leaf
<1>4. ASSUME NEW l \in Leaf
      PROVE  Heeds(l)'
  <2>1. Heeds(l) /\ Sound(leaf[l]) /\ stage'[l] = "coming" /\ leaf'[l] = Blank
    BY <1>1 DEF Heedful, Known, Leaf
  <2>2. ~Keen(leaf'[l]) /\ ~Watched(leaf'[l]) /\ ~OwnMeasured(leaf'[l]) /\ Drawn(leaf'[l])
    BY <2>1, BlankSound, AtRest DEF Keen
  <2>3. CASE stage[l] = "added"
    <3>1. PICK p : p = Persisted(leaf[l]) /\ snap'[l] = p
      BY <1>1, <2>3
    <3>2. Weaker(leaf[l], p)
      BY <2>1, <3>1, PersistedWeaker
    <3>3. world'[l].last = world[l].last /\ world'[l].base = world[l].due \cup world[l].origin
      BY <1>2, <2>3 DEF Shaped
    <3>4. Keen(p) => \A e \in world'[l].base : e[1] = "press" => <<e, l>> \in forgiven'
      BY <1>1, <2>1, <3>2, <3>3 DEF Heeds, Weaker, Clean, Unkept, Forgives
    <3>5. OwnMeasured(p) => (world'[l].last[1] = "press" => <<world'[l].last, l>> \in forgiven')
      BY <1>1, <2>1, <3>2, <3>3 DEF Heeds, Weaker, Unkept, Forgives
    <3>6. Drawn(p)
      BY <2>1, <3>2 DEF Heeds, Weaker
    <3> QED
      BY <2>2, <3>1, <3>4, <3>5, <3>6, HeedsNow
  <2>4. CASE stage[l] # "added"
    <3>1. snap'[l] = snap[l] /\ world'[l] = world[l]
      BY <1>1, <1>2, <2>4
    <3>2. Drawn(snap'[l])
      BY <2>1, <3>1 DEF Heeds
    <3>3. stage'[l] # "added" /\ l \notin overtaken' /\ l \notin mark' =>
           stage[l] # "added" /\ l \notin overtaken /\ l \notin mark
      BY <1>1, <1>3, <2>4
    <3>4. stage'[l] # "added" /\ l \notin overtaken' /\ l \notin mark' =>
           /\ Keen(snap'[l]) => \A e \in world'[l].base : e[1] = "press" => <<e, l>> \in forgiven'
           /\ OwnMeasured(snap'[l]) =>
                (world'[l].last[1] = "press" => <<world'[l].last, l>> \in forgiven')
      BY <1>1, <2>1, <3>1, <3>3, StoredStillGood
    <3> QED
      BY <2>2, <3>2, <3>4, HeedsNow
  <2> QED
    BY <2>3, <2>4
<1> QED
  BY <1>4 DEF Heedful

\* A step that leaves a leaf's model and its history alone.
LEMMA KeptHeeds ==
  ASSUME NEW l, Heeds(l), Forgives, UNCHANGED <<leaf[l], snap[l], world[l]>>,
         stage'[l] # "added" /\ l \notin overtaken' /\ l \notin mark' =>
           stage[l] # "added" /\ l \notin overtaken /\ l \notin mark
  PROVE  Heeds(l)'
<1>1. stage'[l] # "added" /\ l \notin overtaken' /\ l \notin mark' =>
        /\ Keen(snap'[l]) => \A e \in world'[l].base : e[1] = "press" => <<e, l>> \in forgiven'
        /\ OwnMeasured(snap'[l]) =>
             (world'[l].last[1] = "press" => <<world'[l].last, l>> \in forgiven')
  BY StoredStillGood
<1>2. Drawn(leaf'[l]) /\ Drawn(snap'[l])
  BY DEF Heeds
<1>3. Keen(leaf'[l]) => \A e \in world'[l].due \cup world'[l].origin :
                          e[1] = "press" => <<e, l>> \in forgiven'
  BY DEF Heeds, Clean, Unkept, Forgives
<1>4. Watched(leaf'[l]) => \A e \in world'[l].due : e[1] = "press" => <<e, l>> \in forgiven'
  BY DEF Heeds, Clean, Unkept, Forgives
<1>5. OwnMeasured(leaf'[l]) => (world'[l].last[1] = "press" => <<world'[l].last, l>> \in forgiven')
  BY DEF Heeds, Unkept, Forgives
<1> QED
  BY <1>1, <1>2, <1>3, <1>4, <1>5, HeedsNow

LEMMA RegisterHeedful ==
  ASSUME Known, Heedful, NEW x \in Cover, Register(x)
  PROVE  Heedful'
<1>1. /\ stage[x] = "coming" /\ UNCHANGED <<leaf, snap, overtaken, world, forgiven>>
      /\ stage' = [stage EXCEPT ![x] = IF x \in Leaf \ mark THEN "adding" ELSE "added"]
      /\ mark' = mark \ {x}
  BY DEF Register, history
<1>2. ASSUME NEW l \in Leaf
      PROVE  stage'[l] # "added" /\ l \notin overtaken' /\ l \notin mark' =>
               stage[l] # "added" /\ l \notin overtaken /\ l \notin mark
  BY <1>1 DEF Known, Leaf
<1> QED
  BY <1>1, <1>2, KeptHeeds DEF Heedful, Forgives

LEMMA AddFailsHeedful ==
  ASSUME Known, Heedful, NEW l \in Leaf, AddFails(l)
  PROVE  Heedful'
<1>1. /\ stage[l] = "adding" /\ stage' = [stage EXCEPT ![l] = "failed"]
      /\ UNCHANGED <<snap, mark, world>> /\ leaf' = [leaf EXCEPT ![l] = Blank]
      /\ overtaken' = overtaken \ {l}
  BY DEF AddFails
<1>2. Forgives /\ (l \notin mark => (world[l].base \cup {world[l].last}) \X {l} \subseteq forgiven')
  BY DEF AddFails, Forgives
<1>3. Heeds(l)'
  <2>1. leaf'[l] = Blank /\ Drawn(snap'[l])
    BY <1>1 DEF Known, Heedful, Heeds
  <2>2. ~Keen(leaf'[l]) /\ ~Watched(leaf'[l]) /\ ~OwnMeasured(leaf'[l]) /\ Drawn(leaf'[l])
    BY <2>1, BlankSound, AtRest DEF Keen
  <2>3. l \notin mark' =>
          /\ \A e \in world'[l].base : <<e, l>> \in forgiven'
          /\ <<world'[l].last, l>> \in forgiven'
    BY <1>1, <1>2
  <2> QED
    BY <2>1, <2>2, <2>3, HeedsNow
<1>4. ASSUME NEW k \in Leaf \ {l}
      PROVE  Heeds(k)'
  <2>1. /\ leaf'[k] = leaf[k] /\ stage'[k] = stage[k]
        /\ k \in overtaken' <=> k \in overtaken
    BY <1>1 DEF Known, Leaf
  <2> QED
    BY <1>1, <1>2, <2>1, KeptHeeds DEF Heedful
<1> QED
  BY <1>3, <1>4 DEF Heedful

LEMMA RestoreHeedful ==
  ASSUME Known, Heedful, Shaped, NEW l \in Leaf, Restore(l)
  PROVE  Heedful'
<1>1. /\ stage[l] = "adding" /\ stage' = [stage EXCEPT ![l] = "added"]
      /\ UNCHANGED <<snap, forgiven>> /\ mark' = mark \ {l} /\ overtaken' = overtaken \ {l}
  BY DEF Restore
<1>2. /\ stage'[l] = "added" /\ Heeds(l) /\ Drawn(snap'[l]) /\ Sound(snap[l]) /\ ~snap[l].anchored
      /\ DOMAIN leaf = Leaf
  BY <1>1 DEF Known, Heedful, Heeds, Leaf
<1>3. Forgives
  BY <1>1 DEF Forgives
<1>4. ASSUME NEW k \in Leaf \ {l}, leaf'[k] = leaf[k], world'[k] = world[k]
      PROVE  Heeds(k)'
  <2>1. /\ stage'[k] = stage[k] /\ (k \in overtaken' <=> k \in overtaken)
        /\ (k \in mark' <=> k \in mark) /\ snap'[k] = snap[k]
    BY <1>1 DEF Known, Leaf
  <2> QED
    BY <1>3, <1>4, <2>1, KeptHeeds DEF Heedful
<1>5. CASE l \in mark /\ leaf' = [leaf EXCEPT ![l] = MarkUnknown(leaf[l])] /\ UNCHANGED world
  <2>1. leaf'[l] = Blank
    BY <1>2, <1>5 DEF MarkUnknown
  <2>2. ~Keen(leaf'[l]) /\ ~Watched(leaf'[l]) /\ ~OwnMeasured(leaf'[l]) /\ Drawn(leaf'[l])
    BY <2>1, BlankSound, AtRest DEF Keen
  <2>3. Heeds(l)'
    BY <1>2, <2>2, HeedsNow
  <2> QED
    BY <1>2, <1>4, <1>5, <2>3 DEF Heedful
<1>6. CASE UNCHANGED <<leaf, world>>
  <2>1. Heeds(l)'
    BY <1>1, <1>2, <1>3, <1>6, KeptHeeds
  <2> QED
    BY <1>4, <1>6, <2>1 DEF Heedful
<1>7. CASE /\ l \notin mark /\ l \notin overtaken
           /\ world' = [world EXCEPT ![l].due = world[l].base, ![l].origin = {}]
           /\ \E known, elapsed : \E f \in Restored(snap[l], registry, known, elapsed) :
                leaf' = [leaf EXCEPT ![l] = f]
  <2>1. PICK f : /\ leaf' = [leaf EXCEPT ![l] = f] /\ (Keen(f) => Keen(snap[l])) /\ ~Watched(f)
                 /\ OwnMeasured(f) => OwnMeasured(snap[l])
                 /\ Drawn(snap[l]) => Drawn(f)
    BY <1>2, <1>7, RestoredWeaker
  <2>2. leaf'[l] = f
    BY <1>2, <2>1
  <2>3. /\ world'[l].last = world[l].last /\ world'[l].due = world[l].base
        /\ world'[l].origin = {} /\ \A k \in Leaf \ {l} : world'[k] = world[k]
    BY <1>7 DEF Shaped
  <2>4. Keen(f) => \A e \in world'[l].due \cup world'[l].origin :
                     e[1] = "press" => <<e, l>> \in forgiven'
    BY <1>1, <1>2, <1>7, <2>1, <2>3 DEF Heeds, Clean, Unkept
  <2>5. OwnMeasured(f) => (world'[l].last[1] = "press" => <<world'[l].last, l>> \in forgiven')
    BY <1>1, <1>2, <1>7, <2>1, <2>3 DEF Heeds, Unkept
  <2>6. Drawn(f)
    BY <1>2, <2>1 DEF Heeds
  <2>7. Heeds(l)'
    BY <1>2, <2>1, <2>2, <2>4, <2>5, <2>6, HeedsNow
  <2>8. \A k \in Leaf \ {l} : leaf'[k] = leaf[k]
    BY <1>2, <2>1
  <2> QED
    BY <1>4, <2>3, <2>7, <2>8 DEF Heedful
<1>8. \/ l \in mark /\ leaf' = [leaf EXCEPT ![l] = MarkUnknown(leaf[l])] /\ UNCHANGED world
      \/ UNCHANGED <<leaf, world>>
      \/ /\ l \notin mark /\ l \notin overtaken
         /\ world' = [world EXCEPT ![l].due = world[l].base, ![l].origin = {}]
         /\ \E known, elapsed : \E f \in Restored(snap[l], registry, known, elapsed) :
              leaf' = [leaf EXCEPT ![l] = f]
  BY DEF Restore
<1> QED
  BY <1>5, <1>6, <1>7, <1>8

----------------------------------------------------------------------------
(* What was pressed: the commands. *)

LEMMA TaskShape ==
  ASSUME NEW t \in Task
  PROVE  /\ t = <<t[1], t[2]>> /\ t[1] \in Op /\ t[2] \in Cover
         /\ Halt(t) \in Command /\ Move(t) \in Command
         /\ \A phase \in {"stop", "move"} :
              <<t[1], t[2], phase>> \in Command /\ TaskOf(<<t[1], t[2], phase>>) = t
<1>1. t = <<t[1], t[2]>> /\ t[1] \in Op /\ t[2] \in Cover
  BY FamilyAssumption DEF Task, Leaf
<1>2. \A phase \in {"stop", "move"} :
        <<t[1], t[2], phase>> \in Command /\ TaskOf(<<t[1], t[2], phase>>) = t
  BY <1>1 DEF Command, TaskOf
<1> QED
  BY <1>1, <1>2 DEF Halt, Move

LEMMA CommandShape ==
  ASSUME NEW c \in Command
  PROVE  /\ TaskOf(c) \in Task /\ c[3] \in {"stop", "move"}
         /\ c = <<TaskOf(c)[1], TaskOf(c)[2], c[3]>> /\ TaskOf(c)[2] = c[2]
<1>1. PICK t \in Task, phase \in {"stop", "move"} : c = <<t[1], t[2], phase>>
  BY DEF Command
<1>2. TaskOf(c) = t /\ t = <<t[1], t[2]>>
  BY <1>1, TaskShape
<1> QED
  BY <1>1, <1>2

LEMMA CommandsFinite == IsFiniteSet(Command)
<1> DEFINE P == Task \X {"stop", "move"}
           f == [p \in P |-> <<p[1][1], p[1][2], p[2]>>]
<1>1. IsFiniteSet(Task)
  <2>1. Task \subseteq Op \X Cover
    BY FamilyAssumption DEF Task, Leaf
  <2> QED
    BY <2>1, FamilyAssumption, FS_Product, FS_Subset
<1>2. IsFiniteSet({"stop", "move"})
  <2>1. IsFiniteSet({"stop"}) /\ IsFiniteSet({"move"})
    BY FS_Singleton
  <2>2. {"stop", "move"} = {"stop"} \cup {"move"}
    OBVIOUS
  <2> QED
    BY <2>1, <2>2, FS_Union
<1>3. IsFiniteSet(P)
  BY <1>1, <1>2, FS_Product
<1>4. f \in Surjection(P, Command)
  <2>1. ASSUME NEW p \in P
        PROVE  f[p] \in Command
    BY DEF Command
  <2>2. ASSUME NEW c \in Command
        PROVE  \E p \in P : f[p] = c
    <3>1. PICK t \in Task, phase \in {"stop", "move"} : c = <<t[1], t[2], phase>>
      BY DEF Command
    <3>2. <<t, phase>> \in P /\ f[<<t, phase>>] = c
      BY <3>1
    <3> QED
      BY <3>2
  <2> QED
    BY <2>1, <2>2 DEF Surjection
<1> QED
  BY <1>3, <1>4, FS_Surjection

Status == ({"started", "displaced", "disarmed", "late"} \X Command) \cup {<<"online">>, <<"offline">>}

\* The shapes of what the commands leave in the hub and the bridge.
Typed ==
  /\ pc \in [Task -> {"idle", "lock", "stop", "move", "done"}]
  /\ queue \in Seq(Command) /\ acks \in Seq(Command) /\ inbox \in Seq(Status)
  /\ DOMAIN rf = Command /\ DOMAIN seen = Task /\ DOMAIN newer = Task

LEMMA IssueTyped ==
  ASSUME Typed, NEW t \in Task, NEW phase \in {"stop", "move"}, NEW b, NEW at, Issue(t, phase, b, at),
         at = pc
  PROVE  /\ pc' \in [Task -> {"idle", "lock", "stop", "move", "done"}]
         /\ queue' \in Seq(Command) /\ DOMAIN seen' = Task /\ DOMAIN newer' = Task
         /\ Range(queue') \subseteq Range(queue) \cup {<<t[1], t[2], phase>>}
<1>1. PICK c : c = <<t[1], t[2], phase>> /\ c \in Command
  BY TaskShape
<1>2. PICK S : queue' = Append(Only(queue, S), c)
  BY <1>1 DEF Issue
<1>3. PICK q : q = Only(queue, S) /\ q \in Seq(Command) /\ Range(q) = Range(queue) \cap S
  BY OnlyKeeps DEF Typed
<1>4. queue' \in Seq(Command) /\ Range(queue') = Range(q) \cup {c}
  BY <1>1, <1>2, <1>3, AppendKeeps
<1>5. seen' = [seen EXCEPT ![t] = Live] /\ newer' = [newer EXCEPT ![t] = {}]
  BY DEF Issue
<1>6. pc' \in [Task -> {"idle", "lock", "stop", "move", "done"}]
  BY DEF Issue, Typed
<1> QED
  BY <1>1, <1>3, <1>4, <1>5, <1>6 DEF Typed

LEMMA PositioningTyped ==
  ASSUME Typed, NEW t \in Task, NEW p, Positioning(t, p)
  PROVE  /\ pc' \in [Task -> {"idle", "lock", "stop", "move", "done"}]
         /\ queue' \in Seq(Command) /\ DOMAIN seen' = Task /\ DOMAIN newer' = Task
<1>1. CASE Finished(t)
  BY <1>1 DEF Finished, Typed
<1>2. CASE \E b : Issue(t, "move", b, pc)
  BY <1>2, IssueTyped
<1> QED
  BY <1>1, <1>2 DEF Positioning

\* What the steps that drop commands make of the queue.
LEMMA OnlyTyped ==
  ASSUME Typed, NEW S, queue' = Only(queue, S)
  PROVE  queue' \in Seq(Command) /\ Range(queue') \subseteq Range(queue)
<1>1. PICK q : q = Only(queue, S) /\ q \in Seq(Command) /\ Range(q) = Range(queue) \cap S
  BY OnlyKeeps DEF Typed
<1> QED
  BY <1>1

LEMMA InboxTyped ==
  ASSUME Typed, NEW s \in Status, inbox' = Append(inbox, s)
  PROVE  inbox' \in Seq(Status) /\ Range(inbox') = Range(inbox) \cup {s}
  BY AppendKeeps DEF Typed

LEMMA SendTyped ==
  ASSUME Typed, NEW i, Send(i)
  PROVE  /\ Typed'
         /\ Range(queue') \subseteq Range(queue) /\ queue[i] \notin Range(queue')
         /\ \A c \in Command : <<"started", c>> \in Range(inbox') => <<"started", c>> \in Range(inbox)
<1>1. PICK gone : queue' = Only(queue, Command \ gone) /\ queue[i] \in gone
  BY DEF Send
<1>2. PICK q : /\ q = Only(queue, Command \ gone) /\ q \in Seq(Command)
               /\ Range(q) = Range(queue) \cap (Command \ gone)
  BY OnlyKeeps DEF Typed
<1>3. \/ inbox' = inbox
      \/ \E over \in SUBSET Command : inbox' = inbox \o SetToSeq({<<"displaced", d>> : d \in over})
  <2>1. {d \in Command \ {queue[i]} : OverlapCmd(queue[i], d) /\ rf[d] \in {"waiting", "armed", "free"}}
          \subseteq Command
    OBVIOUS
  <2> QED
    BY <2>1 DEF Send
<1>4. /\ inbox' \in Seq(Status)
      /\ \A c \in Command : <<"started", c>> \in Range(inbox') => <<"started", c>> \in Range(inbox)
  <2>1. CASE inbox' = inbox
    BY <2>1 DEF Typed
  <2>2. CASE \E over \in SUBSET Command : inbox' = inbox \o SetToSeq({<<"displaced", d>> : d \in over})
    <3>1. PICK over \in SUBSET Command : inbox' = inbox \o SetToSeq({<<"displaced", d>> : d \in over})
      BY <2>2
    <3>2. PICK new : new = {<<"displaced", d>> : d \in over}
      OBVIOUS
    <3>3. new \subseteq Status
      BY <3>2 DEF Status
    <3>4. IsFiniteSet(new)
      <4>1. IsFiniteSet({"displaced"} \X Command)
        BY CommandsFinite, FS_Singleton, FS_Product
      <4>2. new \subseteq {"displaced"} \X Command
        BY <3>2
      <4> QED
        BY <4>1, <4>2, FS_Subset
    <3>5. PICK s : s = SetToSeq(new) /\ s \in Seq(Status) /\ Range(s) = new
      BY <3>3, <3>4, SetToSeqLists
    <3>6. inbox' \in Seq(Status) /\ Range(inbox') = Range(inbox) \cup new
      <4>1. inbox' = inbox \o s
        BY <3>1, <3>2, <3>5
      <4> QED
        BY <3>5, <4>1, ConcatKeeps DEF Typed
    <3> QED
      BY <3>2, <3>6
  <2> QED
    BY <1>3, <2>1, <2>2
<1>5. /\ UNCHANGED <<acks, seen, newer>> /\ DOMAIN rf' = Command
      /\ pc' \in [Task -> {"idle", "lock", "stop", "move", "done"}]
  BY DEF Send, Typed
<1> QED
  BY <1>1, <1>2, <1>4, <1>5 DEF Typed

LEMMA DeliverTyped ==
  ASSUME Typed, Deliver
  PROVE  /\ Typed'
         /\ \A c \in Command : <<"started", c>> \in Range(inbox') \/ c \in Range(acks') =>
                               <<"started", c>> \in Range(inbox) \/ c \in Range(acks)
<1>1. PICK s : /\ s = Head(inbox) /\ s \in Status /\ s \in Range(inbox)
               /\ inbox' = Tail(inbox) /\ inbox' \in Seq(Status) /\ Range(inbox') \subseteq Range(inbox)
  BY TailKeeps DEF Deliver, Typed
<1>2. UNCHANGED <<seen, newer, queue, rf>>
  BY DEF Deliver
<1>3. \/ UNCHANGED acks
      \/ s[1] = "started" /\ acks' = Append(acks, s[2])
  BY <1>1 DEF Deliver, StartedStatus, DisplacedStatus, DisarmedStatus, Announced
<1>4. /\ acks' \in Seq(Command)
      /\ \A c \in Range(acks') : c \in Range(acks) \/ <<"started", c>> \in Range(inbox)
  <2>1. CASE UNCHANGED acks
    BY <2>1 DEF Typed
  <2>2. CASE s[1] = "started" /\ acks' = Append(acks, s[2])
    <3>1. s[2] \in Command /\ s = <<"started", s[2]>>
      BY <1>1, <2>2 DEF Status
    <3>2. acks' \in Seq(Command) /\ Range(acks') = Range(acks) \cup {s[2]}
      BY <2>2, <3>1, AppendKeeps DEF Typed
    <3> QED
      BY <1>1, <3>1, <3>2
  <2> QED
    BY <1>3, <2>1, <2>2
<1>5. pc' \in [Task -> {"idle", "lock", "stop", "move", "done"}]
  <2>1. pc' = pc \/ \E t : pc' = [pc EXCEPT ![t] = "done"]
    BY DEF Deliver, StartedStatus, DisplacedStatus, DisarmedStatus, Announced, Superseded
  <2> QED
    BY <2>1 DEF Typed
<1> QED
  BY <1>1, <1>2, <1>4, <1>5 DEF Typed

\* A start of this command is on its way to its caller.
Reported(c) == <<"started", c>> \in Range(inbox) \/ c \in Range(acks)

\* The caller has not come to this command.
Untouched(c) == pc[TaskOf(c)] \in {"idle", "lock"} \/ (pc[TaskOf(c)] = "stop" /\ c[3] = "move")

\* A command is taken to the hub once, published once from there, and starts
\* only then.
Orderly ==
  \A c \in Command :
    /\ Untouched(c) => c \notin Range(queue)
    /\ c \in Range(queue) \/ Untouched(c) => rf[c] \in {"none", "over"} /\ ~Reported(c)

\* A fan-out is not ahead of its call.
Unbegun == \A o \in Op : pc[<<o, On[o]>>] = "idle" => \A t \in Task : t[1] = o => pc[t] = "idle"

\* The entity of a call that is under way was there when it took its intent
\* generations, and is there since, unless its restore failed.
Vouched ==
  \A t \in Task : t[2] \in Leaf =>
    /\ pc[t] = "lock" => stage[t[2]] # "coming"
    /\ t \notin old /\ pc[t] \in {"stop", "move"} =>
         stage[t[2]] # "coming" /\ (t[2] \in seen[t] \/ stage[t[2]] = "failed")

\* A start that its caller will act upon: what has moved the leaves whose
\* generations it took is no press, or they know of it.
Sighted ==
  \A c \in Command : Reported(c) /\ Waiting(c) /\ TaskOf(c) \notin old =>
    \A l \in Leaf : Chan[l] \cap Chan[c[2]] # {} /\ l \in seen[TaskOf(c)] \ newer[TaskOf(c)] =>
      world[l].last[1] # "press"

LEMMA OrderlyKept ==
  ASSUME Orderly,
         \A c \in Command : Untouched(c)' => Untouched(c),
         \A c \in Range(queue') : c \in Range(queue) \/ (Untouched(c) /\ ~Untouched(c)'),
         \A c \in Command :
           \/ /\ Reported(c)' => Reported(c)
              /\ rf[c] \in {"none", "over"} => rf'[c] \in {"none", "over"}
           \/ c \notin Range(queue') /\ ~Untouched(c)'
  PROVE  Orderly'
<1>1. ASSUME NEW c \in Command
      PROVE  /\ (Untouched(c) => c \notin Range(queue))'
             /\ (c \in Range(queue) \/ Untouched(c) => rf[c] \in {"none", "over"} /\ ~Reported(c))'
  BY DEF Orderly
<1> QED
  BY <1>1 DEF Orderly

LEMMA UnbegunKept ==
  ASSUME Unbegun, \A t \in Task : pc'[t] = "idle" <=> pc[t] = "idle"
  PROVE  Unbegun'
<1>1. \A o \in Op : <<o, On[o]>> \in Task
  BY DEF Task
<1> QED
  BY <1>1 DEF Unbegun

\* A call comes forward with the generations of now.
LEMMA VouchedKept ==
  ASSUME Known, Vouched, old \subseteq old',
         \A l \in Leaf : /\ stage'[l] = "coming" => stage[l] = "coming"
                         /\ stage[l] = "failed" => stage'[l] = "failed",
         \A t \in Task : t[2] \in Leaf =>
           /\ pc'[t] = "lock" => pc[t] = "lock" \/ stage'[t[2]] # "coming"
           /\ pc'[t] \in {"stop", "move"} =>
                \/ pc[t] \in {"stop", "move"} /\ seen'[t] = seen[t]
                \/ pc[t] \in {"lock", "stop", "move"} /\ seen'[t] = Live /\ UNCHANGED stage
  PROVE  Vouched'
<1>1. ASSUME NEW t \in Task, t[2] \in Leaf, pc'[t] = "lock"
      PROVE  stage'[t[2]] # "coming"
  BY <1>1 DEF Vouched
<1>2. ASSUME NEW t \in Task, t[2] \in Leaf, t \notin old', pc'[t] \in {"stop", "move"}
      PROVE  stage'[t[2]] # "coming" /\ (t[2] \in seen'[t] \/ stage'[t[2]] = "failed")
  <2>1. CASE pc[t] \in {"stop", "move"} /\ seen'[t] = seen[t]
    BY <1>2, <2>1 DEF Vouched
  <2>2. CASE pc[t] \in {"lock", "stop", "move"} /\ seen'[t] = Live /\ UNCHANGED stage
    BY <1>2, <2>2 DEF Vouched, Known, Live, Registered
  <2> QED
    BY <1>2, <2>1, <2>2
<1> QED
  BY <1>1, <1>2 DEF Vouched

LEMMA SightedKept ==
  ASSUME Sighted, old \subseteq old',
         \A l \in Leaf : world'[l].last[1] = "press" => world'[l].last = world[l].last,
         \A c \in Command : Reported(c)' /\ pc'[TaskOf(c)] = c[3] =>
           /\ Reported(c) /\ pc[TaskOf(c)] = c[3]
           /\ seen'[TaskOf(c)] \ newer'[TaskOf(c)] \subseteq seen[TaskOf(c)] \ newer[TaskOf(c)]
  PROVE  Sighted'
<1>1. ASSUME NEW c \in Command, Reported(c)', pc'[TaskOf(c)] = c[3], TaskOf(c) \notin old',
             NEW l \in Leaf, Chan[l] \cap Chan[c[2]] # {},
             l \in seen'[TaskOf(c)] \ newer'[TaskOf(c)]
      PROVE  world'[l].last[1] # "press"
  <2>1. Reported(c) /\ Waiting(c) /\ TaskOf(c) \notin old /\ l \in seen[TaskOf(c)] \ newer[TaskOf(c)]
    BY <1>1 DEF Waiting
  <2>2. world[l].last[1] # "press"
    BY <1>1, <2>1 DEF Sighted
  <2> QED
    BY <2>2
<1> QED
  BY <1>1 DEF Sighted, Waiting

LEMMA DroppedTyped ==
  ASSUME Typed, NEW ts, Dropped(ts)
  PROVE  queue' \in Seq(Command) /\ Range(queue') \subseteq Range(queue)
  BY OnlyTyped DEF Dropped

LEMMA CallTyped ==
  ASSUME Typed, NEW o \in Op, Call(o)
  PROVE  Typed' /\ Range(queue') \subseteq Range(queue)
<1>1. pc' \in [Task -> {"idle", "lock", "stop", "move", "done"}]
  BY DEF Call, Typed
<1>2. UNCHANGED queue \/ \E ts : Dropped(ts)
  BY DEF Call
<1>3. queue' \in Seq(Command) /\ Range(queue') \subseteq Range(queue)
  BY <1>2, DroppedTyped DEF Typed
<1>4. UNCHANGED <<acks, inbox, rf, seen, newer>>
  BY DEF Call, bridge
<1> QED
  BY <1>1, <1>3, <1>4 DEF Typed

LEMMA BeginTyped ==
  ASSUME Typed, NEW t \in Task, Begin(t)
  PROVE  Typed'
<1>1. Kind[t[1]] = "part" \/ Kind[t[1]] # "part"
  OBVIOUS
<1>2. (\E p : Positioning(t, p)) \/ \E phase \in {"stop", "move"} : \E b : Issue(t, phase, b, pc)
  BY DEF Begin
<1>3. /\ pc' \in [Task -> {"idle", "lock", "stop", "move", "done"}]
      /\ queue' \in Seq(Command) /\ DOMAIN seen' = Task /\ DOMAIN newer' = Task
  BY <1>2, PositioningTyped, IssueTyped
<1>4. UNCHANGED <<acks, inbox, rf>>
  BY DEF Begin, bridge
<1> QED
  BY <1>3, <1>4 DEF Typed

LEMMA CancelTyped ==
  ASSUME Typed, NEW t, Cancel(t)
  PROVE  Typed' /\ Range(queue') \subseteq Range(queue)
<1>1. pc' \in [Task -> {"idle", "lock", "stop", "move", "done"}]
  BY DEF Cancel, Typed
<1>2. (\E S : queue' = Only(queue, S)) \/ \E ts : Dropped(ts)
  BY DEF Cancel
<1>3. queue' \in Seq(Command) /\ Range(queue') \subseteq Range(queue)
  BY <1>2, OnlyTyped, DroppedTyped
<1>4. UNCHANGED <<acks, inbox, rf, seen, newer>>
  BY DEF Cancel, bridge
<1> QED
  BY <1>1, <1>3, <1>4 DEF Typed

LEMMA ResumeTyped ==
  ASSUME Typed, Resume
  PROVE  /\ Typed'
         /\ Head(acks) \in Command /\ Head(acks) \in Range(acks) /\ Range(acks') \subseteq Range(acks)
<1>1. PICK c : c = Head(acks)
  OBVIOUS
<1>2. /\ acks' \in Seq(Command) /\ Range(acks') \subseteq Range(acks)
      /\ c \in Command /\ c \in Range(acks)
  BY <1>1, TailKeeps DEF Resume, Typed
<1>3. TaskOf(c) \in Task
  BY <1>2, CommandShape
<1>4. \/ Finished(TaskOf(c)) \/ \E p : Positioning(TaskOf(c), p)
      \/ UNCHANGED <<pc, seen, newer, queue>>
  BY <1>1 DEF Resume
<1>5. /\ pc' \in [Task -> {"idle", "lock", "stop", "move", "done"}]
      /\ queue' \in Seq(Command) /\ DOMAIN seen' = Task /\ DOMAIN newer' = Task
  BY <1>3, <1>4, PositioningTyped DEF Finished, Typed
<1>6. UNCHANGED <<inbox, rf>>
  BY DEF Resume, bridge
<1> QED
  BY <1>1, <1>2, <1>5, <1>6 DEF Typed

LEMMA PressTyped ==
  ASSUME Typed, NEW b, NEW S, Press(b, S)
  PROVE  Typed' /\ Range(queue') \subseteq Range(queue)
<1>1. /\ pc' \in [Task -> {"idle", "lock", "stop", "move", "done"}]
      /\ DOMAIN newer' = Task
  BY DEF Press, Typed
<1>2. \E X : queue' = Only(queue, X)
  BY DEF Press
<1>3. queue' \in Seq(Command) /\ Range(queue') \subseteq Range(queue)
  BY <1>2, OnlyTyped
<1>4. UNCHANGED <<acks, inbox, rf, seen>>
  BY DEF Press, bridge
<1> QED
  BY <1>1, <1>3, <1>4 DEF Typed

LEMMA ReloadTyped ==
  ASSUME Typed, NEW how, Reload(how)
  PROVE  /\ Typed' /\ queue' = <<>>
         /\ \A c \in Command : Reported(c)' => Reported(c)
<1>1. queue' = <<>> /\ UNCHANGED <<seen, newer, rf>>
  BY DEF Reload
<1>2. pc' \in [Task -> {"idle", "lock", "stop", "move", "done"}]
  BY DEF Reload, Typed
<1>3. /\ acks' \in Seq(Command) /\ inbox' \in Seq(Status)
      /\ \A c \in Command : Reported(c)' => Reported(c)
  <2>1. CASE UNCHANGED <<acks, inbox>>
    BY <2>1 DEF Typed, Reported
  <2>2. CASE acks' = <<>> /\ \E s \in {<<"online">>, <<"offline">>} : inbox' = <<s>>
    <3>1. PICK s : s \in {<<"online">>, <<"offline">>} /\ inbox' = <<s>>
      BY <2>2
    <3>2. s \in Status
      BY <3>1 DEF Status
    <3>3. Range(inbox') = {s} /\ Range(acks') = {}
      BY <2>2, <3>1 DEF Range
    <3>4. \A c : s # <<"started", c>>
      BY <3>1
    <3> QED
      BY <2>2, <3>1, <3>2, <3>3, <3>4 DEF Reported
  <2> QED
    BY <2>1, <2>2 DEF Reload
<1> QED
  BY <1>1, <1>2, <1>3 DEF Typed

\* The bridge and its statuses.
LEMMA BridgeTyped ==
  ASSUME Typed, NEW c \in Command,
         Fire(c) \/ TrainEnds(c) \/ Overrun(c) \/ Bury(c) \/ Drop \/ Return
  PROVE  /\ Typed' /\ UNCHANGED <<pc, seen, newer, old, queue, acks, stage>>
         /\ \A d \in Command : Reported(d)' => Reported(d)
<1>1. UNCHANGED <<pc, seen, newer, old, queue, acks, stage>>
  BY DEF Fire, TrainEnds, Overrun, Bury, Drop, Return, tasks, hub, entities
<1>2. DOMAIN rf' = Command
  BY DEF Typed, Fire, TrainEnds, Overrun, Bury, Drop, Return
<1>3. UNCHANGED inbox \/ \E s \in Status : inbox' = Append(inbox, s) /\ s[1] # "started"
  <2>1. CASE Bury(c)
    <3>1. PICK kind \in {"late", "disarmed"} : inbox' = Append(inbox, <<kind, c>>)
      BY <2>1 DEF Bury
    <3>2. PICK s : s = <<kind, c>>
      OBVIOUS
    <3>3. s \in Status /\ s[1] # "started" /\ inbox' = Append(inbox, s)
      BY <3>1, <3>2 DEF Status
    <3> QED
      BY <3>3
  <2>2. CASE Drop \/ Return
    <3>1. PICK s : inbox' = Append(inbox, s) /\ s \in {<<"online">>, <<"offline">>}
      BY <2>2 DEF Drop, Return
    <3> QED
      BY <3>1 DEF Status
  <2>3. CASE Fire(c) \/ TrainEnds(c) \/ Overrun(c)
    BY <2>3 DEF Fire, TrainEnds, Overrun
  <2> QED
    BY <2>1, <2>2, <2>3
<1>4. \A s, d : s[1] # "started" => s # <<"started", d>>
  OBVIOUS
<1>5. inbox' \in Seq(Status) /\ \A d \in Command : Reported(d)' => Reported(d)
  BY <1>1, <1>3, <1>4, InboxTyped DEF Typed, Reported
<1> QED
  BY <1>1, <1>2, <1>5 DEF Typed

LEMMA AirTyped ==
  ASSUME Typed, NEW c \in Command, Air(c)
  PROVE  /\ Typed' /\ UNCHANGED <<pc, seen, newer, old, queue, acks, stage>>
         /\ \A d \in Command : Reported(d)' => Reported(d) \/ d = c
         /\ \A d \in Command \ {c} : rf'[d] = rf[d]
<1>1. UNCHANGED <<pc, seen, newer, old, queue, acks, stage>>
  BY DEF Air, tasks, hub, entities
<1>2. DOMAIN rf' = Command /\ \A d \in Command \ {c} : rf'[d] = rf[d]
  BY DEF Typed, Air
<1>3. PICK s : s = <<"started", c>>
  OBVIOUS
<1>4. s \in Status /\ inbox' = Append(inbox, s)
  BY <1>3 DEF Air, Status
<1>5. \A d : s = <<"started", d>> => d = c
  BY <1>3
<1>6. inbox' \in Seq(Status) /\ \A d \in Command : Reported(d)' => Reported(d) \/ d = c
  BY <1>1, <1>4, <1>5, InboxTyped DEF Typed, Reported
<1> QED
  BY <1>1, <1>2, <1>6 DEF Typed

\* Steps that keep a queue, the callers and the statuses in their order.
Plain ==
  /\ \A t \in Task : pc'[t] = pc[t] \/ (pc[t] # "idle" /\ pc'[t] = "done")
  /\ Range(queue') \subseteq Range(queue)
  /\ \A c \in Command : Reported(c)' => Reported(c)
  /\ \A c \in Command : rf[c] \in {"none", "over"} => rf'[c] \in {"none", "over"}
  /\ UNCHANGED seen /\ old \subseteq old'
  /\ \A t \in Task : newer[t] \subseteq newer'[t]
  /\ \A l \in Leaf : world'[l].last[1] = "press" => world'[l].last = world[l].last
  /\ \A l \in Leaf : /\ stage'[l] = "coming" => stage[l] = "coming"
                     /\ stage[l] = "failed" => stage'[l] = "failed"

Sequenced == Typed /\ Orderly /\ Unbegun /\ Vouched /\ Sighted

LEMMA PlainSequenced ==
  ASSUME Known, Sequenced, Typed', Plain
  PROVE  Sequenced'
<1>1. ASSUME NEW c \in Command
      PROVE  (Untouched(c)' => Untouched(c)) /\ (pc'[TaskOf(c)] = c[3] => pc[TaskOf(c)] = c[3])
  BY CommandShape DEF Plain, Untouched
<1>2. Range(queue) \subseteq Command /\ Range(queue') \subseteq Command
  BY DEF Sequenced, Typed, Range
<1>3. Orderly'
  BY <1>1, <1>2, OrderlyKept DEF Plain, Sequenced
<1>4. Unbegun'
  <2>1. \A t \in Task : pc'[t] = "idle" <=> pc[t] = "idle"
    BY DEF Plain
  <2> QED
    BY <2>1, UnbegunKept DEF Sequenced
<1>5. Vouched'
  <2>1. \A t \in Task : /\ pc'[t] = "lock" => pc[t] = "lock"
                        /\ pc'[t] \in {"stop", "move"} => pc[t] \in {"stop", "move"} /\ seen'[t] = seen[t]
    BY DEF Plain
  <2> QED
    BY <2>1, VouchedKept DEF Plain, Sequenced
<1>6. Sighted'
  <2>1. \A c \in Command : seen'[TaskOf(c)] \ newer'[TaskOf(c)] \subseteq seen[TaskOf(c)] \ newer[TaskOf(c)]
    BY CommandShape DEF Plain
  <2> QED
    BY <1>1, <2>1, SightedKept DEF Plain, Sequenced
<1> QED
  BY <1>3, <1>4, <1>5, <1>6 DEF Sequenced

\* A command in the queue has a caller that waits for it.
LEMMA QueuedCallers ==
  ASSUME Sequenced
  PROVE  \A c \in Range(queue) : c \in Command /\ pc[TaskOf(c)] # "idle"
<1>1. Range(queue) \subseteq Command
  BY DEF Sequenced, Typed, Range
<1> QED
  BY <1>1 DEF Sequenced, Orderly, Untouched

LEMMA DrivenLast ==
  ASSUME NEW l, Driven(l)
  PROVE  world'[l].last[1] = "press" => world'[l].last = world[l].last
  BY DEF Driven

LEMMA CancelSequenced ==
  ASSUME Known, Sequenced, NEW t, Cancel(t)
  PROVE  Sequenced'
<1>1. Typed' /\ Range(queue') \subseteq Range(queue)
  BY CancelTyped DEF Sequenced
<1>2. \A u \in Task : pc'[u] = pc[u] \/ (pc[u] # "idle" /\ pc'[u] = "done")
  BY DEF Cancel
<1>3. UNCHANGED <<rf, seen, newer, old, world, stage, inbox, acks>>
  BY DEF Cancel, bridge
<1> QED
  BY <1>1, <1>2, <1>3, PlainSequenced DEF Plain, Reported

LEMMA TimeoutSequenced ==
  ASSUME Known, Sequenced, NEW c \in Command, Timeout(c)
  PROVE  Sequenced'
<1>1. UNCHANGED <<seen, newer, old, world, stage, inbox, acks, queue>>
  BY DEF Timeout
<1>2. pc' = pc \/ (Waiting(c) /\ pc' = [pc EXCEPT ![TaskOf(c)] = "done"])
  BY DEF Timeout
<1>3. \A u \in Task : pc'[u] = pc[u] \/ (pc[u] # "idle" /\ pc'[u] = "done")
  BY <1>2, CommandShape DEF Waiting, Sequenced, Typed
<1>4. Typed'
  BY <1>1, <1>2 DEF Sequenced, Typed, Timeout
<1>5. \A d \in Command : rf[d] \in {"none", "over"} => rf'[d] \in {"none", "over"}
  BY DEF Timeout, Sequenced, Typed
<1> QED
  BY <1>1, <1>3, <1>4, <1>5, PlainSequenced DEF Plain, Reported

\* The steps of the bridge that send nothing.
LEMMA BridgeSequenced ==
  ASSUME Known, Sequenced, Shaped, NEW c \in Command,
         Fire(c) \/ TrainEnds(c) \/ Overrun(c) \/ Bury(c) \/ Drop \/ Return
  PROVE  Sequenced'
<1>1. /\ Typed' /\ UNCHANGED <<pc, seen, newer, old, queue, acks, stage>>
      /\ \A d \in Command : Reported(d)' => Reported(d)
  BY BridgeTyped DEF Sequenced
<1>2. \A d \in Command : rf[d] \in {"none", "over"} => rf'[d] \in {"none", "over"}
  BY DEF Fire, TrainEnds, Overrun, Bury, Drop, Return, Sequenced, Typed
<1>3. \A l \in Leaf : world'[l].last[1] = "press" => world'[l].last = world[l].last
  <2>1. UNCHANGED world \/ Fire(c) \/ Overrun(c)
    BY DEF TrainEnds, Bury, Drop, Return, history
  <2>2. Fire(c) \/ Overrun(c) => \A l \in Leaf : Driven(l)
    BY FireQuiet, OverrunQuiet DEF Quietly, Calm
  <2> QED
    BY <2>1, <2>2, DrivenLast
<1> QED
  BY <1>1, <1>2, <1>3, PlainSequenced DEF Plain

\* A step of the entities, the requests or the ledger alone.
LEMMA AsideSequenced ==
  ASSUME Known, Sequenced, UNCHANGED <<tasks, queue, acks, rf, inbox>>,
         \A l \in Leaf : world'[l].last = world[l].last,
         \A l \in Leaf : /\ stage'[l] = "coming" => stage[l] = "coming"
                         /\ stage[l] = "failed" => stage'[l] = "failed"
  PROVE  Sequenced'
<1>1. UNCHANGED <<pc, seen, newer, old>>
  BY DEF tasks
<1>2. Typed'
  BY <1>1 DEF Sequenced, Typed
<1> QED
  BY <1>1, <1>2, PlainSequenced DEF Plain, Reported

LEMMA DeliverSequenced ==
  ASSUME Known, Sequenced, Shaped, Deliver
  PROVE  Sequenced'
<1>1. Typed' /\ \A c \in Command : Reported(c)' => Reported(c)
  BY DeliverTyped DEF Sequenced, Reported
<1>2. UNCHANGED <<stage, seen, newer, old, queue, rf>>
  BY DEF Deliver
<1>3. PICK s : s = Head(inbox) /\ s \in Status
  BY TailKeeps DEF Deliver, Sequenced, Typed
<1>4. \A t \in Task : pc'[t] = pc[t] \/ (pc[t] # "idle" /\ pc'[t] = "done")
  <2>1. pc' = pc \/ \E c : s[2] = c /\ s[1] \notin {"online", "offline"} /\ Superseded(c)
    BY <1>3 DEF Deliver, StartedStatus, DisplacedStatus, DisarmedStatus, Announced, Status
  <2>2. s[1] \notin {"online", "offline"} => s[2] \in Command
    BY <1>3 DEF Status
  <2> QED
    BY <2>1, <2>2, CommandShape DEF Superseded, Waiting, Sequenced, Typed
<1>5. \A l \in Leaf : world'[l].last = world[l].last
  <2>1. \/ UNCHANGED world
        \/ \E es, ls : \E no \in BOOLEAN : world' = Accounted(world, es, ls, no)
    <3>1. UNCHANGED world \/ \E c : DisplacedStatus(c)
      BY DEF Deliver, StartedStatus, DisarmedStatus, Announced, history
    <3>2. ASSUME NEW c, DisplacedStatus(c)
          PROVE  \E es, ls : \E no \in BOOLEAN : world' = Accounted(world, es, ls, no)
      <4>1. PICK no \in BOOLEAN : no = FALSE
        OBVIOUS
      <4>2. \E es, ls : world' = Accounted(world, es, ls, no)
        BY <3>2, <4>1 DEF DisplacedStatus
      <4> QED
        BY <4>2
    <3> QED
      BY <3>1, <3>2
  <2> QED
    BY <2>1, AccountedAt DEF Shaped
<1> QED
  BY <1>1, <1>2, <1>4, <1>5, PlainSequenced DEF Plain

LEMMA PressSequenced ==
  ASSUME Known, Sequenced, Shaped, NEW b, NEW S, Press(b, S)
  PROVE  Sequenced'
<1>1. Typed' /\ Range(queue') \subseteq Range(queue)
  BY PressTyped DEF Sequenced
<1>2. UNCHANGED <<stage, seen, old, rf, acks, inbox>>
  BY DEF Press, bridge
<1>3. \A t \in Task : pc'[t] = pc[t] \/ (pc[t] # "idle" /\ pc'[t] = "done")
  <2>1. \E beaten \in SUBSET Range(queue) :
          pc' = [t \in Task |-> IF \E d \in beaten : TaskOf(d) = t THEN "done" ELSE pc[t]]
    BY DEF Press
  <2> QED
    BY <2>1, QueuedCallers DEF Sequenced, Typed
<1>4. \A t \in Task : newer'[t] = newer[t] \cup (Addressed(S) \cap Leaf \cap seen[t])
  BY DEF Press, Addressed
<1>5. \A l \in Leaf : l \in Addressed(S) \/ world'[l].last = world[l].last
  <2>1. PICK e, es, ls : \E going \in BOOLEAN :
          world' = Accounted(Happened(world, e, Addressed(S) \cap Leaf, going), es, ls, going)
    <3>1. PICK going \in BOOLEAN : going = (b # "STOP")
      OBVIOUS
    <3> QED
      BY <3>1 DEF Press
  <2>2. PICK going \in BOOLEAN : \E w :
          w = Happened(world, e, Addressed(S) \cap Leaf, going) /\ world' = Accounted(w, es, ls, going)
    BY <2>1
  <2>3. PICK w :
          w = Happened(world, e, Addressed(S) \cap Leaf, going) /\ world' = Accounted(w, es, ls, going)
    BY <2>2
  <2>4. ASSUME NEW l \in Leaf, l \notin Addressed(S)
        PROVE  world'[l].last = world[l].last
    <3>1. w[l] = world[l]
      BY <2>3, <2>4 DEF Happened
    <3>2. w[l] = [last |-> w[l].last, moving |-> w[l].moving, due |-> w[l].due,
                  origin |-> w[l].origin, base |-> w[l].base]
      BY <3>1 DEF Shaped
    <3>3. world'[l] = Accounted(w, es, ls, going)[l]
      BY <2>3
    <3>4. world'[l].last = w[l].last
      BY <3>2, <3>3, AccountedAt
    <3> QED
      BY <3>1, <3>4
  <2> QED
    BY <2>4
<1>6. ASSUME NEW c \in Command
      PROVE  (Untouched(c)' => Untouched(c)) /\ (pc'[TaskOf(c)] = c[3] => pc[TaskOf(c)] = c[3])
  BY <1>3, CommandShape DEF Untouched
<1>7. Range(queue) \subseteq Command /\ Range(queue') \subseteq Command
  BY <1>1 DEF Sequenced, Typed, Range
<1>8. \A c \in Command : Reported(c)' <=> Reported(c)
  BY <1>2 DEF Reported
<1>9. Orderly'
  BY <1>1, <1>2, <1>6, <1>7, <1>8, OrderlyKept DEF Sequenced
<1>10. Unbegun'
  <2>1. \A t \in Task : pc'[t] = "idle" <=> pc[t] = "idle"
    BY <1>3
  <2> QED
    BY <2>1, UnbegunKept DEF Sequenced
<1>11. Vouched'
  <2>1. \A t \in Task : /\ pc'[t] = "lock" => pc[t] = "lock"
                        /\ pc'[t] \in {"stop", "move"} => pc[t] \in {"stop", "move"} /\ seen'[t] = seen[t]
    BY <1>2, <1>3
  <2> QED
    BY <1>2, <2>1, VouchedKept DEF Sequenced
<1>12. Sighted'
  <2>1. ASSUME NEW c \in Command, Reported(c)', pc'[TaskOf(c)] = c[3], TaskOf(c) \notin old',
               NEW l \in Leaf, Chan[l] \cap Chan[c[2]] # {},
               l \in seen'[TaskOf(c)] \ newer'[TaskOf(c)]
        PROVE  world'[l].last[1] # "press"
    <3>1. TaskOf(c) \in Task
      BY CommandShape
    <3>2. l \notin Addressed(S) /\ l \in seen[TaskOf(c)] \ newer[TaskOf(c)]
      BY <1>2, <1>4, <2>1, <3>1
    <3>3. Reported(c) /\ Waiting(c) /\ TaskOf(c) \notin old
      BY <1>2, <1>6, <1>8, <2>1 DEF Waiting
    <3>4. world[l].last[1] # "press"
      BY <2>1, <3>2, <3>3 DEF Sequenced, Sighted
    <3> QED
      BY <1>5, <3>2, <3>4
  <2> QED
    BY <2>1 DEF Sighted, Waiting
<1> QED
  BY <1>1, <1>9, <1>10, <1>11, <1>12 DEF Sequenced

LEMMA IssueSequenced ==
  ASSUME Known, Sequenced, NEW t \in Task, NEW phase \in {"stop", "move"}, NEW b,
         Issue(t, phase, b, pc), pc[t] = "lock" \/ (pc[t] = "stop" /\ phase = "move"),
         UNCHANGED <<old, stage, rf>>, Typed',
         \A c \in Command : Reported(c)' => Reported(c),
         \A l \in Leaf : world'[l].last = world[l].last
  PROVE  Sequenced'
<1>1. PICK c0 \in Command : c0 = <<t[1], t[2], phase>> /\ TaskOf(c0) = t /\ c0[3] = phase
  BY TaskShape
<1>2. Range(queue') \subseteq Range(queue) \cup {c0}
  BY <1>1, IssueTyped DEF Sequenced
<1>3. /\ pc'[t] = phase
      /\ \A u \in Task \ {t} : pc'[u] = pc[u] \/ (pc[u] # "idle" /\ pc'[u] = "done")
  <2>1. \E retired \in SUBSET Range(queue) :
          pc' = [u \in Task |-> IF u = t THEN phase
                                ELSE IF \E d \in retired : TaskOf(d) = u THEN "done" ELSE pc[u]]
    BY DEF Issue
  <2> QED
    BY <2>1, QueuedCallers
<1>4. /\ seen'[t] = Live /\ newer'[t] = {}
      /\ \A u \in Task \ {t} : seen'[u] = seen[u] /\ newer'[u] = newer[u]
  BY DEF Issue, Sequenced, Typed
<1>5. Untouched(c0) /\ ~Untouched(c0)'
  BY <1>1, <1>3 DEF Untouched
<1>6. \A c \in Command : c = <<TaskOf(c)[1], TaskOf(c)[2], c[3]>> /\ TaskOf(c) \in Task
  BY CommandShape
<1>7. Orderly'
  <2>1. ASSUME NEW c \in Command, Untouched(c)'
        PROVE  Untouched(c)
    <3>1. CASE TaskOf(c) = t
      BY <1>3, <2>1, <3>1 DEF Untouched
    <3>2. CASE TaskOf(c) # t
      BY <1>3, <1>6, <2>1, <3>2 DEF Untouched
    <3> QED
      BY <3>1, <3>2
  <2>2. \A c \in Range(queue') : c \in Range(queue) \/ (Untouched(c) /\ ~Untouched(c)')
    BY <1>2, <1>5
  <2> QED
    BY <2>1, <2>2, OrderlyKept DEF Sequenced
<1>8. Unbegun'
  <2>1. \A u \in Task : pc'[u] = "idle" <=> pc[u] = "idle"
    BY <1>3
  <2> QED
    BY <2>1, UnbegunKept DEF Sequenced
<1>9. Vouched'
  <2>1. \A u \in Task :
          /\ pc'[u] = "lock" => pc[u] = "lock"
          /\ pc'[u] \in {"stop", "move"} =>
               \/ pc[u] \in {"stop", "move"} /\ seen'[u] = seen[u]
               \/ pc[u] \in {"lock", "stop", "move"} /\ seen'[u] = Live
    BY <1>3, <1>4
  <2> QED
    BY <2>1, VouchedKept DEF Sequenced
<1>10. Sighted'
  <2>1. ASSUME NEW c \in Command, Reported(c)', pc'[TaskOf(c)] = c[3]
        PROVE  /\ Reported(c) /\ pc[TaskOf(c)] = c[3]
               /\ seen'[TaskOf(c)] \ newer'[TaskOf(c)] \subseteq seen[TaskOf(c)] \ newer[TaskOf(c)]
    <3>1. Reported(c)
      BY <2>1
    <3>2. CASE TaskOf(c) = t
      <4>1. c = c0
        BY <1>1, <1>3, <1>6, <2>1, <3>2
      <4> QED
        BY <1>5, <3>1, <4>1 DEF Sequenced, Orderly
    <3>3. CASE TaskOf(c) # t
      <4>1. TaskOf(c) \in Task \ {t} /\ c[3] # "done"
        BY <3>3, CommandShape
      <4> QED
        BY <1>3, <1>4, <2>1, <3>1, <4>1
    <3> QED
      BY <3>2, <3>3
  <2> QED
    BY <2>1, SightedKept DEF Sequenced
<1> QED
  BY <1>7, <1>8, <1>9, <1>10 DEF Sequenced

\* A task that ends, or does not move.
LEMMA FinishedSequenced ==
  ASSUME Known, Sequenced, NEW t \in Task, pc[t] # "idle",
         Finished(t) \/ UNCHANGED <<pc, seen, newer, queue>>,
         UNCHANGED <<old, stage, rf>>, Typed',
         \A c \in Command : Reported(c)' => Reported(c),
         \A l \in Leaf : world'[l].last = world[l].last
  PROVE  Sequenced'
<1>1. \A u \in Task : pc'[u] = pc[u] \/ (pc[u] # "idle" /\ pc'[u] = "done")
  BY DEF Finished, Sequenced, Typed
<1>2. UNCHANGED <<seen, newer, queue>>
  BY DEF Finished
<1> QED
  BY <1>1, <1>2, PlainSequenced DEF Plain

LEMMA BeginSequenced ==
  ASSUME Known, Sequenced, NEW t \in Task, Begin(t)
  PROVE  Sequenced'
<1>1. UNCHANGED <<old, stage, rf, world, inbox, acks>> /\ pc[t] = "lock"
  BY DEF Begin, entities, bridge, history
<1>2. Typed'
  BY BeginTyped DEF Sequenced
<1>3. \A c \in Command : Reported(c)' => Reported(c)
  BY <1>1 DEF Reported
<1>4. Finished(t) \/ \E phase \in {"stop", "move"} : \E b : Issue(t, phase, b, pc)
  BY DEF Begin, Positioning
<1> QED
  BY <1>1, <1>2, <1>3, <1>4, IssueSequenced, FinishedSequenced

LEMMA ResumeSequenced ==
  ASSUME Known, Sequenced, Shaped, Resume
  PROVE  Sequenced'
<1>1. PICK c : c = Head(acks) /\ c \in Command /\ c \in Range(acks) /\ Range(acks') \subseteq Range(acks)
  BY ResumeTyped DEF Sequenced
<1>2. Typed' /\ UNCHANGED <<old, stage, rf, inbox>>
  BY ResumeTyped DEF Sequenced, Resume, bridge
<1>3. \A d \in Command : Reported(d)' => Reported(d)
  BY <1>1, <1>2 DEF Reported
<1>4. \A l \in Leaf : world'[l].last = world[l].last
  <2>1. UNCHANGED world \/ \E ls : Commit(c, ls)
    BY <1>1 DEF Resume, history
  <2>2. ASSUME NEW ls, Commit(c, ls)
        PROVE  \A l \in Leaf : world'[l].last = world[l].last
    <3>1. PICK full \in BOOLEAN : full = (button[c] # "STOP" /\ ~Timed(c))
      OBVIOUS
    <3>2. \E es : world' = Accounted(world, es, ls, full)
      BY <2>2, <3>1 DEF Commit
    <3> QED
      BY <3>2, AccountedAt DEF Shaped
  <2> QED
    BY <2>1, <2>2
<1>5. PICK t \in Task : t = TaskOf(c)
  BY <1>1, CommandShape
<1>6. CASE UNCHANGED <<pc, seen, newer, queue>>
  <2>1. \A u \in Task : newer[u] \subseteq newer'[u]
    BY <1>6
  <2> QED
    BY <1>2, <1>3, <1>4, <1>6, PlainSequenced DEF Plain
<1>7. CASE Waiting(c) /\ (Finished(t) \/ \E p : c[3] = "stop" /\ Positioning(t, p))
  <2>1. pc[t] = c[3] /\ c[3] \in {"stop", "move"}
    BY <1>1, <1>5, <1>7, CommandShape DEF Waiting
  <2>2. Finished(t) \/ (c[3] = "stop" /\ \E b : Issue(t, "move", b, pc))
    BY <1>7 DEF Positioning
  <2> QED
    BY <1>2, <1>3, <1>4, <2>1, <2>2, IssueSequenced, FinishedSequenced
<1>8. \/ UNCHANGED <<pc, seen, newer, queue>>
      \/ Waiting(c) /\ (Finished(t) \/ \E p : c[3] = "stop" /\ Positioning(t, p))
  BY <1>1, <1>5 DEF Resume
<1> QED
  BY <1>6, <1>7, <1>8

\* The start of a command finds it published, and moves what it addresses.
LEMMA AirSequenced ==
  ASSUME Known, Sequenced, Shaped, NEW c \in Command, Air(c)
  PROVE  Sequenced'
<1>1. /\ Typed' /\ UNCHANGED <<pc, seen, newer, old, queue, acks, stage>>
      /\ \A d \in Command : Reported(d)' => Reported(d) \/ d = c
      /\ \A d \in Command \ {c} : rf'[d] = rf[d]
  BY AirTyped DEF Sequenced
<1>2. c \notin Range(queue) /\ ~Untouched(c)
  <2>1. rf[c] = "waiting"
    BY DEF Air
  <2> QED
    BY <2>1 DEF Sequenced, Orderly
<1>3. \A l \in Leaf : world'[l].last[1] = "press" => world'[l].last = world[l].last
  BY AirQuiet, DrivenLast DEF Quietly, Calm
<1>4. \A d : Untouched(d)' <=> Untouched(d)
  BY <1>1 DEF Untouched
<1>5. Orderly'
  BY <1>1, <1>2, <1>4, OrderlyKept DEF Sequenced
<1>6. Unbegun'
  BY <1>1, UnbegunKept DEF Sequenced
<1>7. Vouched'
  BY <1>1, VouchedKept DEF Sequenced
<1>8. Sighted'
  <2>1. ASSUME NEW d \in Command, Reported(d)', Waiting(d)', TaskOf(d) \notin old,
               NEW l \in Leaf, Chan[l] \cap Chan[d[2]] # {},
               l \in seen[TaskOf(d)] \ newer[TaskOf(d)]
        PROVE  world'[l].last[1] # "press"
    <3>1. CASE d # c
      <4>1. Reported(d) /\ Waiting(d)
        BY <1>1, <2>1, <3>1 DEF Waiting
      <4>2. world[l].last[1] # "press"
        BY <2>1, <4>1 DEF Sequenced, Sighted
      <4> QED
        BY <1>3, <4>2
    <3>2. CASE d = c
      <4>1. PICK e, ls, moving : /\ e = <<"air", c>> /\ ls = Addressed(Chan[c[2]]) \cap Leaf
                                 /\ world' = Happened(world, e, ls, moving)
        BY DEF Air
      <4>2. l \in ls
        BY <2>1, <3>2, <4>1 DEF Addressed, Leaf
      <4>3. PICK new : world'[l] = [world[l] EXCEPT !.last = e, !.moving = moving, !.due = @ \cup new,
                                                     !.base = @ \cup new]
        BY <4>1, <4>2 DEF Happened
      <4>4. world'[l].last = e
        BY <4>3 DEF Shaped
      <4> QED
        BY <4>1, <4>4
    <3> QED
      BY <3>1, <3>2
  <2> QED
    BY <1>1, <2>1 DEF Sighted
<1> QED
  BY <1>1, <1>5, <1>6, <1>7, <1>8 DEF Sequenced

LEMMA SendSequenced ==
  ASSUME Known, Sequenced, Shaped, NEW i, Send(i)
  PROVE  Sequenced'
<1>1. PICK c : c = queue[i]
  OBVIOUS
<1>2. /\ Typed' /\ Range(queue') \subseteq Range(queue) /\ c \notin Range(queue')
      /\ \A d \in Command : <<"started", d>> \in Range(inbox') => <<"started", d>> \in Range(inbox)
  BY <1>1, SendTyped DEF Sequenced
<1>3. UNCHANGED <<stage, seen, newer, old, acks>>
  BY DEF Send, entities
<1>4. c \in Range(queue) /\ c \in Command
  <2>1. c \in Range(queue)
    BY <1>1 DEF Send, Range
  <2> QED
    BY <2>1, QueuedCallers
<1>5. ~Untouched(c)
  BY <1>4 DEF Sequenced, Orderly
<1>6. \A t \in Task : pc'[t] = pc[t] \/ (pc[t] # "idle" /\ pc'[t] = "done")
  <2>1. \E no : pc' = [t \in Task |-> IF \E d \in no : TaskOf(d) = t /\ Waiting(d) THEN "done" ELSE pc[t]]
               /\ no \subseteq Range(queue)
    <3>1. PICK gone : /\ gone \subseteq Range(queue)
                      /\ pc' = [t \in Task |->
                           IF \E d \in gone : TaskOf(d) = t /\ Waiting(d) /\ (d # c \/ registry # "online")
                             THEN "done" ELSE pc[t]]
      BY <1>1, <1>4 DEF Send
    <3>2. PICK no : no = {d \in gone : d # c \/ registry # "online"}
      OBVIOUS
    <3>3. pc' = [t \in Task |-> IF \E d \in no : TaskOf(d) = t /\ Waiting(d) THEN "done" ELSE pc[t]]
      BY <3>1, <3>2
    <3> QED
      BY <3>1, <3>2, <3>3
  <2> QED
    BY <2>1, QueuedCallers
<1>7. \A d \in Command : Reported(d)' => Reported(d)
  BY <1>2, <1>3 DEF Reported
<1>8. \A l \in Leaf : world'[l].last[1] = "press" => world'[l].last = world[l].last
  BY SendQuiet, DrivenLast DEF Quietly, Calm
<1>9. ASSUME NEW d \in Command
      PROVE  (Untouched(d)' => Untouched(d)) /\ (pc'[TaskOf(d)] = d[3] => pc[TaskOf(d)] = d[3])
  BY <1>6, CommandShape DEF Untouched
<1>10. Orderly'
  <2>1. ASSUME NEW d \in Command
        PROVE  \/ /\ Reported(d)' => Reported(d)
                  /\ rf[d] \in {"none", "over"} => rf'[d] \in {"none", "over"}
               \/ d \notin Range(queue') /\ ~Untouched(d)'
    <3>1. CASE d = c
      BY <1>2, <1>5, <1>9, <3>1
    <3>2. CASE d # c
      <4>1. rf'[d] \in {"over", rf[d]}
        BY <1>1, <3>2 DEF Send
      <4> QED
        BY <1>7, <4>1
    <3> QED
      BY <3>1, <3>2
  <2> QED
    BY <1>2, <1>9, <2>1, OrderlyKept DEF Sequenced
<1>11. Unbegun'
  <2>1. \A t \in Task : pc'[t] = "idle" <=> pc[t] = "idle"
    BY <1>6
  <2> QED
    BY <2>1, UnbegunKept DEF Sequenced
<1>12. Vouched'
  <2>1. \A t \in Task : /\ pc'[t] = "lock" => pc[t] = "lock"
                        /\ pc'[t] \in {"stop", "move"} => pc[t] \in {"stop", "move"} /\ seen'[t] = seen[t]
    BY <1>3, <1>6
  <2> QED
    BY <1>3, <2>1, VouchedKept DEF Sequenced
<1>13. Sighted'
  BY <1>3, <1>7, <1>8, <1>9, SightedKept DEF Sequenced
<1> QED
  BY <1>2, <1>10, <1>11, <1>12, <1>13 DEF Sequenced

LEMMA CallSequenced ==
  ASSUME Known, Sequenced, Shaped, NEW o \in Op, Call(o)
  PROVE  Sequenced'
<1>1. PICK t : t = <<o, On[o]>>
  OBVIOUS
<1>2. /\ Typed' /\ Range(queue') \subseteq Range(queue)
      /\ UNCHANGED <<stage, seen, newer, old, acks, inbox, rf, world>>
  BY CallTyped DEF Sequenced, Call, bridge
<1>3. t \in Task /\ pc[t] = "idle" /\ Registered(On[o])
  BY <1>1 DEF Call, Task
<1>4. \A u \in Task : u[1] = o => pc[u] = "idle"
  BY <1>1, <1>3 DEF Sequenced, Unbegun
<1>5. \A u \in Delegates(t) : u[1] = o
  BY <1>1 DEF Delegates
<1>6. ASSUME NEW u \in Task
      PROVE  \/ pc'[u] = pc[u]
             \/ pc[u] # "idle" /\ pc'[u] = "done"
             \/ u[1] = o /\ pc'[u] \in {"lock", "done"} /\ (pc'[u] = "lock" /\ u[2] \in Leaf => stage[u[2]] # "coming")
  <2>1. CASE /\ On[o] \in Aggregate /\ Kind[o] = "part"
             /\ pc' = [v \in Task |->
                            IF v = t \/ (v \in Delegates(t) /\ ~Preflight(On[o])) THEN "done"
                            ELSE IF v \in Delegates(t) THEN "lock" ELSE pc[v]]
    <3>1. CASE u = t \/ (u \in Delegates(t) /\ ~Preflight(On[o]))
      BY <1>1, <1>5, <2>1, <3>1
    <3>2. CASE u # t /\ u \in Delegates(t) /\ Preflight(On[o])
      <4>1. u[2] \in Members(On[o])
        BY <1>1, <2>1, <3>2 DEF Delegates
      <4>2. Registered(u[2])
        BY <3>2, <4>1 DEF Preflight
      <4> QED
        BY <1>5, <2>1, <3>2, <4>2 DEF Registered
    <3>3. CASE u # t /\ u \notin Delegates(t)
      BY <2>1, <3>3
    <3> QED
      BY <3>1, <3>2, <3>3
  <2>2. CASE \E fan : /\ pc' = [v \in Task |-> IF v = t THEN "lock" ELSE IF v \in fan THEN "done" ELSE pc[v]]
                      /\ \A v \in fan : pc[v] # "idle"
    <3>1. u = t => u[1] = o /\ u[2] = On[o] /\ stage[u[2]] # "coming"
      BY <1>1, <1>3 DEF Registered
    <3> QED
      BY <2>2, <3>1
  <2> QED
    BY <1>1, <2>1, <2>2 DEF Call
<1>7. \A u \in Task : u[1] = o => pc[u] = "idle"
  BY <1>4
<1>8. ASSUME NEW c \in Command
      PROVE  (Untouched(c)' => Untouched(c)) /\ (pc'[TaskOf(c)] = c[3] => pc[TaskOf(c)] = c[3])
  BY <1>6, <1>7, CommandShape DEF Untouched
<1>9. \A c \in Command : Reported(c)' => Reported(c)
  BY <1>2 DEF Reported
<1>10. Orderly'
  BY <1>2, <1>8, <1>9, OrderlyKept DEF Sequenced
<1>11. Unbegun'
  <2>1. ASSUME NEW p \in Op, pc'[<<p, On[p]>>] = "idle", NEW u \in Task, u[1] = p
        PROVE  pc'[u] = "idle"
    <3>1. <<p, On[p]>> \in Task /\ <<p, On[p]>>[1] = p
      BY DEF Task
    <3>2. p # o
      <4>1. pc'[t] # "idle"
        BY <1>1, <1>3 DEF Call
      <4> QED
        BY <1>1, <2>1, <4>1
    <3>3. pc[<<p, On[p]>>] = "idle"
      BY <1>6, <2>1, <3>1, <3>2
    <3>4. pc[u] = "idle"
      BY <2>1, <3>3 DEF Sequenced, Unbegun
    <3> QED
      BY <1>6, <2>1, <3>2, <3>4
  <2> QED
    BY <2>1 DEF Unbegun
<1>12. Vouched'
  <2>1. \A u \in Task : u[2] \in Leaf =>
          /\ pc'[u] = "lock" => pc[u] = "lock" \/ stage'[u[2]] # "coming"
          /\ pc'[u] \in {"stop", "move"} => pc[u] \in {"stop", "move"} /\ seen'[u] = seen[u]
    BY <1>2, <1>6
  <2> QED
    BY <1>2, <2>1, VouchedKept DEF Sequenced
<1>13. Sighted'
  BY <1>2, <1>8, <1>9, SightedKept DEF Sequenced
<1> QED
  BY <1>2, <1>10, <1>11, <1>12, <1>13 DEF Sequenced

LEMMA ReloadSequenced ==
  ASSUME Known, Sequenced, Shaped, NEW how, Reload(how)
  PROVE  Sequenced'
<1>1. /\ Typed' /\ queue' = <<>> /\ \A c \in Command : Reported(c)' => Reported(c)
  BY ReloadTyped DEF Sequenced
<1>2. /\ UNCHANGED <<seen, newer, rf>>
      /\ \A t \in Task : pc[t] # "lock"
      /\ old' = old \cup {t \in Task : pc[t] \in {"stop", "move"}}
  BY DEF Reload
<1>3. Range(queue') = {}
  BY <1>1 DEF Range
<1>4. \A t \in Task : pc'[t] = pc[t] \/ (pc[t] # "idle" /\ pc'[t] = "done")
  <2>1. CASE how = "kept"
    <3>1. PICK ended : /\ pc' = [t \in Task |-> IF t \in ended THEN "done" ELSE pc[t]]
                       /\ \A t \in ended : \/ pc[t] \in {"stop", "move"}
                                            \/ \E c \in Range(queue) : TaskOf(c) = t
      BY <2>1 DEF Reload
    <3> QED
      BY <3>1, QueuedCallers
  <2>2. CASE how # "kept"
    <3>1. pc' = [t \in Task |-> IF pc[t] = "idle" THEN "idle" ELSE "done"]
      BY <2>2 DEF Reload
    <3> QED
      BY <3>1
  <2> QED
    BY <2>1, <2>2
<1>5. \A l \in Leaf : world'[l].last = world[l].last
  <2>1. world' = [l \in Leaf |-> IF stage[l] = "added" THEN [world[l] EXCEPT !.base = world[l].due \cup world[l].origin]
                                 ELSE world[l]]
    BY DEF Reload
  <2> QED
    BY <2>1 DEF Shaped
<1>6. ASSUME NEW c \in Command
      PROVE  (Untouched(c)' => Untouched(c)) /\ (pc'[TaskOf(c)] = c[3] => pc[TaskOf(c)] = c[3])
  BY <1>4, CommandShape DEF Untouched
<1>7. Orderly'
  BY <1>1, <1>2, <1>3, <1>6, OrderlyKept DEF Sequenced
<1>8. Unbegun'
  <2>1. \A t \in Task : pc'[t] = "idle" <=> pc[t] = "idle"
    BY <1>4
  <2> QED
    BY <2>1, UnbegunKept DEF Sequenced
<1>9. Vouched'
  <2>1. ASSUME NEW t \in Task
        PROVE  pc'[t] # "lock" /\ (pc'[t] \in {"stop", "move"} => t \in old')
    BY <1>2, <1>4
  <2> QED
    BY <2>1 DEF Vouched
<1>10. Sighted'
  BY <1>1, <1>2, <1>5, <1>6, SightedKept DEF Sequenced
<1> QED
  BY <1>1, <1>7, <1>8, <1>9, <1>10 DEF Sequenced

LEMMA NextSequenced ==
  ASSUME Known, Sequenced, Shaped, [Next]_vars
  PROVE  Sequenced'
<1>1. CASE UNCHANGED vars
  BY <1>1, AsideSequenced DEF vars, tasks, hub, bridge, entities, history
<1>2. ASSUME NEW l \in Leaf, Complete(l)
      PROVE  Sequenced'
  <2>1. UNCHANGED <<tasks, queue, acks, rf, inbox, stage>>
    BY <1>2 DEF Complete, hub, bridge
  <2>2. \E still, origin : world' = [world EXCEPT ![l].moving = still, ![l].origin = origin]
    BY <1>2 DEF Complete
  <2>3. \A k \in Leaf : world'[k].last = world[k].last
    BY <2>2 DEF Shaped
  <2> QED
    BY <2>1, <2>3, AsideSequenced
<1>3. ASSUME NEW x \in Cover, Register(x)
      PROVE  Sequenced'
  <2>1. UNCHANGED <<tasks, queue, acks, rf, inbox, world>>
    BY <1>3 DEF Register, hub, bridge, history
  <2>2. \A l \in Leaf : /\ stage'[l] = "coming" => stage[l] = "coming"
                        /\ stage[l] = "failed" => stage'[l] = "failed"
    BY <1>3 DEF Register, Known, Leaf
  <2> QED
    BY <2>1, <2>2, AsideSequenced
<1>4. ASSUME NEW l \in Leaf, Restore(l)
      PROVE  Sequenced'
  <2>1. UNCHANGED <<tasks, queue, acks, rf, inbox>>
    BY <1>4 DEF Restore, hub, bridge
  <2>2. UNCHANGED world \/ world' = [world EXCEPT ![l].due = world[l].base, ![l].origin = {}]
    BY <1>4 DEF Restore
  <2>3. \A k \in Leaf : world'[k].last = world[k].last
    BY <2>2 DEF Shaped
  <2>4. \A k \in Leaf : /\ stage'[k] = "coming" => stage[k] = "coming"
                        /\ stage[k] = "failed" => stage'[k] = "failed"
    BY <1>4 DEF Restore, Known, Leaf
  <2> QED
    BY <2>1, <2>3, <2>4, AsideSequenced
<1>5. ASSUME NEW l \in Leaf, AddFails(l)
      PROVE  Sequenced'
  <2>1. UNCHANGED <<tasks, queue, acks, rf, inbox, world>>
    BY <1>5 DEF AddFails, hub, bridge
  <2>2. \A k \in Leaf : /\ stage'[k] = "coming" => stage[k] = "coming"
                        /\ stage[k] = "failed" => stage'[k] = "failed"
    BY <1>5 DEF AddFails, Known, Leaf
  <2> QED
    BY <2>1, <2>2, AsideSequenced
<1>6. ASSUME NEW c, Lapse(c) \/ TimedOut(c) \/ Expire(c)
      PROVE  Sequenced'
  <2>1. UNCHANGED <<tasks, queue, acks, rf, inbox, world, stage>>
    BY <1>6 DEF Lapse, TimedOut, Expire, hub, bridge, history, entities
  <2> QED
    BY <2>1, AsideSequenced
<1>7. ASSUME Drop \/ Return
      PROVE  Sequenced'
  <2>1. CASE Command = {}
    <3>1. UNCHANGED <<tasks, queue, acks, world, stage>>
      BY <1>7 DEF Drop, Return, hub, history, entities
    <3>2. DOMAIN rf' = Command /\ inbox' \in Seq(Status)
      <4>1. \E s \in Status : inbox' = Append(inbox, s)
        BY <1>7 DEF Drop, Return, Status
      <4> QED
        BY <1>7, <4>1, InboxTyped DEF Sequenced, Typed, Drop, Return
    <3>3. Typed' /\ Orderly' /\ Sighted'
      BY <2>1, <3>1, <3>2 DEF Sequenced, Typed, tasks, Orderly, Sighted
    <3>4. Unbegun'
      BY <3>1, UnbegunKept DEF Sequenced, tasks
    <3>5. Vouched'
      BY <3>1, VouchedKept DEF Sequenced, tasks
    <3> QED
      BY <3>3, <3>4, <3>5 DEF Sequenced
  <2>2. CASE Command # {}
    BY <1>7, <2>2, BridgeSequenced
  <2> QED
    BY <2>1, <2>2
<1>8. ASSUME NEW c \in Command, Timeout(c) \/ Air(c) \/ Fire(c) \/ TrainEnds(c) \/ Overrun(c) \/ Bury(c)
      PROVE  Sequenced'
  BY <1>8, TimeoutSequenced, AirSequenced, BridgeSequenced
<1> QED
  BY <1>1, <1>2, <1>3, <1>4, <1>5, <1>6, <1>7, <1>8, CallSequenced, BeginSequenced,
     CancelSequenced, ResumeSequenced, SendSequenced, DeliverSequenced, PressSequenced,
     ReloadSequenced DEF Next

\* The history keeps its shape.
WellKept(w) ==
  /\ DOMAIN w = Leaf
  /\ \A l \in Leaf :
       w[l] = [last |-> w[l].last, moving |-> w[l].moving, due |-> w[l].due,
               origin |-> w[l].origin, base |-> w[l].base]

LEMMA EntryKept ==
  ASSUME NEW r, r = [last |-> r.last, moving |-> r.moving, due |-> r.due,
                     origin |-> r.origin, base |-> r.base],
         NEW s, NEW a, NEW b, NEW c, NEW d, NEW e,
         s = [r EXCEPT !.last = a, !.moving = b, !.due = c, !.origin = d, !.base = e]
  PROVE  s = [last |-> s.last, moving |-> s.moving, due |-> s.due, origin |-> s.origin, base |-> s.base]
  OBVIOUS

LEMMA HappenedKept ==
  ASSUME NEW w, WellKept(w), NEW e, NEW ls, NEW moving, NEW v, v = Happened(w, e, ls, moving)
  PROVE  WellKept(v)
<1>1. ASSUME NEW l \in Leaf
      PROVE  v[l] = [last |-> v[l].last, moving |-> v[l].moving, due |-> v[l].due,
                     origin |-> v[l].origin, base |-> v[l].base]
  <2>1. PICK new : v[l] = IF l \in ls
                          THEN [w[l] EXCEPT !.last = e, !.moving = moving, !.due = @ \cup new, !.base = @ \cup new]
                          ELSE w[l]
    <3>1. PICK new : new = IF moving \/ w[l].moving THEN {e} ELSE {}
      OBVIOUS
    <3> QED
      BY <3>1 DEF Happened
  <2>2. PICK r : r = w[l] /\ r = [last |-> r.last, moving |-> r.moving, due |-> r.due,
                                 origin |-> r.origin, base |-> r.base]
    BY DEF WellKept
  <2>3. PICK s : s = v[l] /\ s = IF l \in ls
                          THEN [r EXCEPT !.last = e, !.moving = moving, !.due = @ \cup new, !.base = @ \cup new]
                          ELSE r
    BY <2>1, <2>2
  <2> QED
    BY <2>2, <2>3
<1>2. DOMAIN v = Leaf
  BY DEF Happened
<1> QED
  BY <1>1, <1>2 DEF WellKept

LEMMA AccountedKept ==
  ASSUME NEW w, WellKept(w), NEW es, NEW ls, NEW absolute, NEW v, v = Accounted(w, es, ls, absolute)
  PROVE  WellKept(v)
<1>1. ASSUME NEW l \in Leaf
      PROVE  v[l] = [last |-> v[l].last, moving |-> v[l].moving, due |-> v[l].due,
                     origin |-> v[l].origin, base |-> v[l].base]
  <2>1. \E due, origin : v[l] = IF l \notin ls THEN w[l] ELSE [w[l] EXCEPT !.origin = origin, !.due = due]
    BY DEF Accounted
  <2>2. PICK due, origin : v[l] = IF l \notin ls THEN w[l] ELSE [w[l] EXCEPT !.origin = origin, !.due = due]
    BY <2>1
  <2>3. PICK r : r = w[l] /\ r = [last |-> r.last, moving |-> r.moving, due |-> r.due,
                                 origin |-> r.origin, base |-> r.base]
    BY DEF WellKept
  <2>4. PICK s : s = v[l] /\ s = IF l \notin ls THEN r ELSE [r EXCEPT !.origin = origin, !.due = due]
    BY <2>2, <2>3
  <2> QED
    BY <2>3, <2>4
<1>2. DOMAIN v = Leaf
  BY DEF Accounted
<1> QED
  BY <1>1, <1>2 DEF WellKept

LEMMA FlushedKept ==
  ASSUME NEW w, WellKept(w), NEW stops, NEW v, v = Flushed(w, stops)
  PROVE  WellKept(v)
<1>1. ASSUME NEW l \in Leaf
      PROVE  v[l] = [last |-> v[l].last, moving |-> v[l].moving, due |-> v[l].due,
                     origin |-> v[l].origin, base |-> v[l].base]
  <2>1. v[l] = w[l] \/ \E e, moving : v[l] = Happened(w, e, {l}, moving)[l]
    BY DEF Flushed
  <2>2. ASSUME NEW e, NEW moving, v[l] = Happened(w, e, {l}, moving)[l]
        PROVE  v[l] = [last |-> v[l].last, moving |-> v[l].moving, due |-> v[l].due,
                       origin |-> v[l].origin, base |-> v[l].base]
    <3>1. PICK h : h = Happened(w, e, {l}, moving) /\ WellKept(h)
      BY HappenedKept
    <3> QED
      BY <2>2, <3>1 DEF WellKept
  <2> QED
    BY <2>1, <2>2 DEF WellKept
<1>2. DOMAIN v = Leaf
  BY DEF Flushed
<1> QED
  BY <1>1, <1>2 DEF WellKept

LEMMA NextShaped ==
  ASSUME Shaped, [Next]_vars
  PROVE  Shaped'
<1>1. SUFFICES WellKept(world')
  BY DEF WellKept, Shaped
<1>2. WellKept(world)
  BY DEF WellKept, Shaped
<1>3. CASE UNCHANGED world
  BY <1>2, <1>3
<1>4. CASE Resume
  <2>1. PICK full \in BOOLEAN : full = (button[Head(acks)] # "STOP" /\ ~Timed(Head(acks)))
    OBVIOUS
  <2>2. UNCHANGED world \/ \E ls : Commit(Head(acks), ls)
    BY <1>4 DEF Resume, history
  <2>3. UNCHANGED world \/ \E es, ls : world' = Accounted(world, es, ls, full)
    BY <2>1, <2>2 DEF Commit
  <2> QED
    BY <1>2, <2>3, AccountedKept
<1>5. CASE Deliver
  <2>1. PICK no \in BOOLEAN : no = FALSE
    OBVIOUS
  <2>2. UNCHANGED world \/ \E c : DisplacedStatus(c)
    BY <1>5 DEF Deliver, StartedStatus, DisarmedStatus, Announced, history
  <2>3. UNCHANGED world \/ \E es, ls : world' = Accounted(world, es, ls, no)
    BY <2>1, <2>2 DEF DisplacedStatus
  <2> QED
    BY <1>2, <2>3, AccountedKept
<1>6. ASSUME NEW b, NEW S, Press(b, S)
      PROVE  WellKept(world')
  <2>1. PICK going \in BOOLEAN : going = (b # "STOP")
    OBVIOUS
  <2>2. PICK e, es, moved, ls : world' = Accounted(Happened(world, e, moved, going), es, ls, going)
    BY <1>6, <2>1 DEF Press
  <2>3. PICK w : w = Happened(world, e, moved, going) /\ WellKept(w)
    BY <1>2, HappenedKept
  <2>4. world' = Accounted(w, es, ls, going)
    BY <2>2, <2>3
  <2> QED
    BY <2>3, <2>4, AccountedKept
<1>7. ASSUME NEW i, Send(i)
      PROVE  WellKept(world')
  <2>1. UNCHANGED world \/ \E stops : world' = Flushed(world, stops)
    BY <1>7 DEF Send
  <2> QED
    BY <1>2, <2>1, FlushedKept
<1>8. ASSUME NEW c, Air(c)
      PROVE  WellKept(world')
  <2>1. \E e, ls, moving : world' = Happened(world, e, ls, moving)
    BY <1>8 DEF Air
  <2> QED
    BY <1>2, <2>1, HappenedKept
<1>9. ASSUME NEW c, Fire(c) \/ Overrun(c)
      PROVE  WellKept(world')
  <2>1. PICK no \in BOOLEAN, yes \in BOOLEAN : no = FALSE /\ yes = TRUE
    OBVIOUS
  <2>2. \/ UNCHANGED world
        \/ \E e, ls : world' = Happened(world, e, ls, no) \/ world' = Happened(world, e, ls, yes)
        \/ world' = [world EXCEPT ![c[2]].moving = no]
    BY <1>9, <2>1 DEF Fire, Overrun
  <2>3. CASE world' = [world EXCEPT ![c[2]].moving = no]
    BY <1>2, <2>3 DEF WellKept
  <2> QED
    BY <1>2, <2>2, <2>3, HappenedKept
<1>10. ASSUME NEW l \in Leaf, Complete(l) \/ Restore(l)
       PROVE  WellKept(world')
  <2>1. \/ UNCHANGED world
        \/ \E still, origin : world' = [world EXCEPT ![l].moving = still, ![l].origin = origin]
        \/ \E due, origin : world' = [world EXCEPT ![l].due = due, ![l].origin = origin]
    <3>1. Restore(l) => UNCHANGED world \/ \E due, origin : world' = [world EXCEPT ![l].due = due, ![l].origin = origin]
      BY DEF Restore
    <3>2. ASSUME Complete(l)
          PROVE  \E still, origin : world' = [world EXCEPT ![l].moving = still, ![l].origin = origin]
      BY <3>2 DEF Complete
    <3> QED
      BY <1>10, <3>1, <3>2
  <2>2. CASE \E still, origin : world' = [world EXCEPT ![l].moving = still, ![l].origin = origin]
    BY <1>2, <2>2 DEF WellKept
  <2>3. CASE \E due, origin : world' = [world EXCEPT ![l].due = due, ![l].origin = origin]
    BY <1>2, <2>3 DEF WellKept
  <2> QED
    BY <1>2, <2>1, <2>2, <2>3
<1>11. ASSUME NEW how, Reload(how)
       PROVE  WellKept(world')
  <2>1. world' = [l \in Leaf |-> IF stage[l] = "added" THEN [world[l] EXCEPT !.base = world[l].due \cup world[l].origin]
                                 ELSE world[l]]
    BY <1>11 DEF Reload
  <2> QED
    BY <1>2, <2>1 DEF WellKept
<1>12. ASSUME NEW x, Call(x) \/ Begin(x) \/ Cancel(x) \/ Timeout(x)
       PROVE  UNCHANGED world
  BY <1>12 DEF Call, Begin, Cancel, Timeout, history
<1>13. ASSUME NEW x, TrainEnds(x) \/ Bury(x) \/ Lapse(x) \/ TimedOut(x) \/ Expire(x) \/ Register(x) \/ AddFails(x)
       PROVE  UNCHANGED world
  BY <1>13 DEF TrainEnds, Bury, Lapse, TimedOut, Expire, Register, AddFails, history
<1>14. CASE Drop \/ Return \/ UNCHANGED vars
  <2>1. UNCHANGED world
    BY <1>14 DEF Drop, Return, vars, history
  <2> QED
    BY <1>3, <2>1
<1> QED
  BY <1>3, <1>4, <1>5, <1>6, <1>7, <1>8, <1>9, <1>10, <1>11, <1>12, <1>13, <1>14 DEF Next

\* Only who waits for its restore can be overtaken.
LEMMA NextOvertakes ==
  ASSUME Known, overtaken \subseteq Adding, [Next]_vars
  PROVE  overtaken' \subseteq Adding'
<1>1. ASSUME UNCHANGED stage, \E ls : overtaken' \subseteq overtaken \cup (ls \cap Adding)
      PROVE  overtaken' \subseteq Adding'
  BY <1>1 DEF Adding
<1>2. CASE UNCHANGED <<stage, overtaken>>
  BY <1>2 DEF Adding
<1>3. ASSUME NEW t, Lost(t)
      PROVE  \E ls : overtaken' \subseteq overtaken \cup (ls \cap Adding)
  BY <1>3 DEF Lost, Recorded, Disowned
<1>4. ASSUME NEW ts, Dropped(ts)
      PROVE  \E ls : overtaken' \subseteq overtaken \cup (ls \cap Adding)
  BY <1>4 DEF Dropped, Disowned
<1>5. ASSUME NEW o, Call(o)
      PROVE  overtaken' \subseteq Adding'
  <2>1. UNCHANGED stage /\ (UNCHANGED overtaken \/ \E ts : Dropped(ts))
    BY <1>5 DEF Call
  <2> QED
    BY <1>1, <1>2, <1>4, <2>1
<1>6. ASSUME NEW t, Cancel(t) \/ Timeout(t)
      PROVE  overtaken' \subseteq Adding'
  <2>1. UNCHANGED stage /\ (UNCHANGED overtaken \/ (\E u : Lost(u)) \/ \E ts : Dropped(ts))
    BY <1>6 DEF Cancel, Timeout
  <2> QED
    BY <1>1, <1>2, <1>3, <1>4, <2>1
<1>7. CASE Resume
  <2>1. UNCHANGED stage /\ (UNCHANGED overtaken \/ \E c, ls : Commit(c, ls))
    BY <1>7 DEF Resume
  <2> QED
    BY <1>1, <1>2, <2>1 DEF Commit
<1>8. CASE Deliver
  <2>1. UNCHANGED stage /\ (UNCHANGED overtaken \/ \E xs : TakenOver(xs))
    BY <1>8 DEF Deliver, StartedStatus, DisplacedStatus, DisarmedStatus, Announced
  <2> QED
    BY <1>1, <1>2, <2>1 DEF TakenOver
<1>9. ASSUME NEW b, NEW S, Press(b, S)
      PROVE  overtaken' \subseteq Adding'
  <2>1. UNCHANGED stage /\ \E ls : overtaken' \subseteq overtaken \cup (ls \cap Adding)
    BY <1>9 DEF Press
  <2> QED
    BY <1>1, <2>1
<1>10. ASSUME NEW c, TimedOut(c)
       PROVE  overtaken' \subseteq Adding'
  <2>1. UNCHANGED stage /\ \E xs : TakenOver(xs)
    BY <1>10 DEF TimedOut
  <2> QED
    BY <1>1, <2>1 DEF TakenOver
<1>11. ASSUME NEW how, Reload(how)
       PROVE  overtaken' \subseteq Adding'
  BY <1>11 DEF Reload
<1>12. ASSUME NEW x \in Cover, Register(x)
       PROVE  overtaken' \subseteq Adding'
  BY <1>12 DEF Register, Known, Adding, Leaf
<1>13. ASSUME NEW l \in Leaf, Restore(l) \/ AddFails(l)
       PROVE  overtaken' \subseteq Adding'
  <2>1. /\ overtaken' = overtaken \ {l}
        /\ \E after : stage' = [stage EXCEPT ![l] = after]
    BY <1>13 DEF Restore, AddFails
  <2> QED
    BY <2>1 DEF Known, Adding, Leaf
<1>14. ASSUME NEW l \in Leaf, Complete(l)
       PROVE  UNCHANGED <<stage, overtaken>>
  BY <1>14 DEF Complete
<1>15. ASSUME NEW x, Begin(x) \/ Send(x) \/ Air(x) \/ Fire(x) \/ TrainEnds(x) \/ Overrun(x) \/ Bury(x)
                     \/ Lapse(x) \/ Expire(x)
       PROVE  UNCHANGED <<stage, overtaken>>
  BY <1>15 DEF Begin, Send, Air, Fire, TrainEnds, Overrun, Bury, Lapse, Expire, entities
<1>16. CASE Drop \/ Return \/ UNCHANGED vars
  <2>1. UNCHANGED <<stage, overtaken>>
    BY <1>16 DEF Drop, Return, vars, entities
  <2> QED
    BY <1>2, <2>1
<1> QED
  BY <1>2, <1>5, <1>6, <1>7, <1>8, <1>9, <1>10, <1>11, <1>12, <1>13, <1>14, <1>15, <1>16 DEF Next

\* The leaves whose models a started frame moves have not been pressed since
\* their generations were taken; a group's members that came later are excused.
LEMMA ResumeHeedful ==
  ASSUME Known, Heedful, Shaped, Sequenced, Resume
  PROVE  Heedful'
<1>1. PICK c : c = Head(acks) /\ c \in Command /\ c \in Range(acks)
  BY ResumeTyped DEF Sequenced
<1>2. PICK t \in Task : t = TaskOf(c) /\ t[2] = c[2] /\ t[2] \in Cover
  BY <1>1, CommandShape, TaskShape
<1>3. Forgives /\ UNCHANGED <<stage, snap, mark>>
  BY DEF Resume, history, Forgives
<1>4. CASE ~Waiting(c)
  <2>1. UNCHANGED <<leaf, overtaken, world>>
    BY <1>1, <1>4 DEF Resume, history
  <2> QED
    BY <1>3, <2>1, UntouchedHeeds DEF Heedful
<1>5. CASE Waiting(c)
  <2>1. Commit(c, Current(t)) /\ forgiven' = forgiven \cup Outdated(t)
    BY <1>1, <1>2, <1>5 DEF Resume
  <2>2. Current(t) \in SUBSET Live
    BY DEF Current
  <2>3. ASSUME NEW l \in Current(t), world[l].last[1] = "press"
        PROVE  <<world[l].last, l>> \in forgiven'
    <3>1. /\ t \notin old /\ l \in Live /\ l \in Leaf /\ l \notin newer[t]
          /\ l = t[2] \/ (t[2] \in Aggregate /\ l \in Members(t[2]))
      BY DEF Current, Live
    <3>2. pc[t] \in {"stop", "move"}
      BY <1>1, <1>2, <1>5, CommandShape DEF Waiting
    <3>3. Chan[l] \cap Chan[c[2]] # {}
      <4>1. l \in Cover /\ Chan[l] # {}
        BY <3>1, TopologyAssumption DEF Leaf
      <4>2. Chan[l] \subseteq Chan[c[2]]
        BY <1>2, <3>1 DEF Members, StrictlyInside
      <4> QED
        BY <4>1, <4>2
    <3>4. l \notin seen[t]
      <4>1. Reported(c) /\ TaskOf(c) \notin old
        BY <1>1, <1>2, <3>1 DEF Reported
      <4> QED
        BY <1>1, <1>2, <1>5, <2>3, <3>1, <3>3, <4>1 DEF Sequenced, Sighted
    <3>5. l # t[2]
      <4>1. SUFFICES ASSUME l = t[2] PROVE FALSE
        OBVIOUS
      <4>2. stage[l] # "failed"
        BY <3>1 DEF Live, Registered
      <4> QED
        BY <3>1, <3>2, <3>4, <4>1, <4>2 DEF Sequenced, Vouched
    <3>6. t[2] \in Aggregate /\ l \in (Members(t[2]) \cap Live) \ seen[t]
      BY <1>2, <3>1, <3>4, <3>5
    <3>7. t[2] \notin Leaf
      BY <3>6 DEF Leaf
    <3>8. l \in Latecomers(t)
      BY <2>3, <3>6, <3>7 DEF Latecomers
    <3>9. <<world[l].last, l>> \in Outdated(t)
      BY <3>8 DEF Outdated
    <3> QED
      BY <2>1, <3>9
  <2> QED
    BY <1>3, <2>1, <2>2, <2>3, CommitHeedful
<1> QED
  BY <1>4, <1>5

LEMMA NextHeedful ==
  ASSUME Known, Marked, Shaped, overtaken \subseteq Adding, Sequenced, Heedful, [Next]_vars
  PROVE  Heedful'
<1>1. CASE UNCHANGED vars
  BY <1>1, IdleQuiet, QuietlyHeedful DEF vars
<1>2. CASE Deliver
  <2>1. UNCHANGED <<stage, snap, mark>>
    BY <1>2 DEF Deliver
  <2>2. \/ \E c : StartedStatus(c) \/ DisplacedStatus(c) \/ \E late : DisarmedStatus(c, late)
        \/ \E status : Announced(status)
    BY <1>2 DEF Deliver
  <2>3. ASSUME NEW c, StartedStatus(c)
        PROVE  Heedful'
    BY <2>1, <2>3, IdleQuiet, QuietlyHeedful DEF StartedStatus, entities
  <2> QED
    BY <2>1, <2>2, <2>3, DisplacedHeedful, DisarmedQuiet, AnnouncedQuiet, QuietlyHeedful
<1>3. ASSUME NEW x, Begin(x) \/ TrainEnds(x) \/ Bury(x) \/ Lapse(x) \/ Expire(x)
      PROVE  Heedful'
  <2>1. UNCHANGED <<entities, history>>
    BY <1>3 DEF Begin, TrainEnds, Bury, Lapse, Expire
  <2> QED
    BY <2>1, IdleQuiet, QuietlyHeedful
<1>4. CASE Drop \/ Return
  <2>1. UNCHANGED <<entities, history>>
    BY <1>4 DEF Drop, Return
  <2> QED
    BY <2>1, IdleQuiet, QuietlyHeedful
<1>5. ASSUME NEW c, Timeout(c) \/ Air(c) \/ Fire(c) \/ Overrun(c) \/ TimedOut(c) \/ Send(c) \/ Cancel(c)
      PROVE  Heedful'
  BY <1>5, TimeoutQuiet, AirQuiet, FireQuiet, OverrunQuiet, TimedOutQuiet, SendQuiet, CancelQuiet,
     QuietlyHeedful
<1>6. ASSUME NEW o \in Op, Call(o)
      PROVE  Heedful'
  BY <1>6, CallQuiet, QuietlyHeedful
<1> QED
  BY <1>1, <1>2, <1>3, <1>4, <1>5, <1>6, ResumeHeedful, PressHeedful, ReloadHeedful, RegisterHeedful,
     CompleteHeedful, RestoreHeedful, AddFailsHeedful DEF Next

\* At the start nobody has pressed or called anything.
LEMMA InitHeedful ==
  ASSUME Init
  PROVE  Marked /\ Shaped /\ overtaken \subseteq Adding /\ Sequenced /\ Heedful
<1>1. Marked /\ overtaken \subseteq Adding
  BY DEF Init, Marked
<1>2. /\ DOMAIN world = Leaf
      /\ \A l \in Leaf : world[l] = [last |-> NoEvent, moving |-> FALSE, due |-> {}, origin |-> {}, base |-> {}]
  BY DEF Init
<1>3. Shaped
  BY <1>2 DEF Shaped
<1>4. Typed /\ \A t \in Task : pc[t] = "idle"
  BY DEF Init, Typed
<1>5. \A c \in Command : rf[c] = "none" /\ c \notin Range(queue) /\ ~Reported(c)
  BY DEF Init, Reported, Range
<1>6. Orderly
  BY <1>5 DEF Orderly
<1>7. Unbegun /\ Vouched
  BY <1>4 DEF Unbegun, Vouched
<1>8. Sighted
  BY <1>5 DEF Sighted
<1>9. ASSUME NEW l \in Leaf
      PROVE  Heeds(l)
  <2>1. leaf[l] = [Blank EXCEPT !.pos = cast.start] /\ snap[l] = leaf[l] /\ stage[l] = "added"
    BY DEF Init, Leaf
  <2>2. PICK f : f = leaf[l] /\ f.motion = NoMotion
    BY <2>1 DEF Blank
  <2>3. ~Watched(f) /\ ~OwnMeasured(f) /\ Drawn(f)
    BY <2>2, AtRest DEF Moving
  <2>4. NoEvent[1] # "press"
    BY DEF NoEvent
  <2> QED
    BY <1>2, <2>1, <2>2, <2>3, <2>4 DEF Heeds, Clean, Unkept
<1> QED
  BY <1>1, <1>3, <1>4, <1>6, <1>7, <1>8, <1>9 DEF Sequenced, Heedful

\* Nobody moves a blind with the remote behind its position: once everything
\* that was on its way has arrived, a leaf that shows a position without
\* reservation knows of every press that moved its motors.
THEOREM PressesKept == Spec => []PressesAreKept
<1> DEFINE IInv == Marked /\ Shaped /\ overtaken \subseteq Adding /\ Sequenced /\ Heedful
<1>1. Init => IInv
  BY InitHeedful
<1>2. Known /\ IInv /\ [Next]_vars => IInv'
  <2>1. SUFFICES ASSUME Known, IInv, [Next]_vars PROVE IInv'
    OBVIOUS
  <2>2. Marked'
    BY <2>1, NextHeeds DEF Heeded, Marked
  <2>3. Shaped' /\ (overtaken \subseteq Adding)' /\ Sequenced' /\ Heedful'
    BY <2>1, NextShaped, NextOvertakes, NextSequenced, NextHeedful
  <2> QED
    BY <2>2, <2>3
<1>3. IInv => PressesAreKept
  <2>1. SUFFICES ASSUME Heedful, NEW l \in Leaf, Asserted(l),
                        NEW e \in Overlooked(l) \ Orphans(l)
                 PROVE  e[1] # "press"
    BY DEF PressesAreKept, Accounts
  <2>2. Keen(leaf[l])
    BY <2>1 DEF Asserted, Confidence, Keen, Unknown
  <2> QED
    BY <2>1, <2>2 DEF Heedful, Heeds, Clean, Unkept, Overlooked
<1> QED
  BY <1>1, <1>2, <1>3, ModelsAreSound, PTL DEF Spec

----------------------------------------------------------------------------
(* The values of the variables. *)

\* The fields of a model, what drives it and what it rests on among E.
Rated(f, E) ==
  /\ f.pos \in Position /\ f.motion.start \in Position /\ f.motion.target \in Position
  /\ f.motion.dir \in {"none", "up", "down"} /\ (Moving(f) => f.motion.dir # "none")
  /\ f.motion.by \in E /\ f.anchor \in E

LEMMA BlankRated ==
  ASSUME NEW E, NoEvent \in E
  PROVE  Rated(Blank, E)
  BY DEF Rated, Blank, NoMotion, Moving, Position, Unknown

LEMMA EstimatesRated ==
  ASSUME NEW E, NEW f, Rated(f, E), NEW p \in Estimates(f)
  PROVE  p \in Position
  BY DEF Rated, Estimates, Position

LEMMA InterruptedRated ==
  ASSUME NEW E, NoEvent \in E, NEW f, Sound(f), Rated(f, E), NEW g \in Interrupted(f)
  PROVE  Rated(g, E)
<1>1. PICK p \in Estimates(f) : g = [Cleared(f) EXCEPT !.pos = p, !.anchored = FALSE]
  BY DEF Interrupted
<1>2. g.pos = p /\ g.motion = NoMotion /\ g.anchor = f.anchor
  BY <1>1 DEF Cleared, Sound, WellFormed, NoMotion
<1>3. p \in Position
  BY <1>1, EstimatesRated
<1> QED
  BY <1>2, <1>3 DEF Rated, NoMotion, Moving, Position, Unknown

LEMMA ReconciledRated ==
  ASSUME NEW E, NoEvent \in E, NEW f, Sound(f), Rated(f, E), NEW via
  PROVE  Rated(Reconciled(f, via), E)
<1>1. PICK g : g = Reconciled(f, via)
  OBVIOUS
<1>2. \/ g = Blank
      \/ /\ g.pos = f.pos /\ g.motion = f.motion /\ g.anchor \in {f.anchor, NoEvent}
  BY <1>1 DEF Reconciled, MarkUnknown, Sound, WellFormed
<1>3. CASE g = Blank
  BY <1>1, <1>3, BlankRated
<1> QED
  BY <1>1, <1>2, <1>3 DEF Rated, Moving

\* What is committed, for a cause among E.
Caused(m, E) == \E key, by : by \in E /\ (m = FullTravel(key, by) \/ m = PartTravel(key, by))

LEMMA CausedTravel ==
  ASSUME NEW E, NEW m, Caused(m, E)
  PROVE  /\ IsTravel(m)
         /\ m.target \in Position /\ m.dir \in {"up", "down"} /\ m.by \in E
  BY DEF Caused, IsTravel, FullTravel, PartTravel, Motion, NoMotion, Position

LEMMA EmbarkedRated ==
  ASSUME NEW E, NoEvent \in E, NEW f, Sound(f), Rated(f, E), ~Moving(f), ~f.anchored,
         NEW m, Caused(m, E), NEW via, NEW cutOff, NEW g \in Embarked(f, m, via, cutOff)
  PROVE  Rated(g, E)
<1>1. PICK r : r = IF m.absolute THEN f ELSE Reconciled(f, via)
  OBVIOUS
<1>2. Sound(r) /\ Rated(r, E) /\ ~r.anchored
  BY <1>1, ReconciledSound, ReconciledRated, BlankSound DEF Keeps
<1>3. PICK h : h = [r EXCEPT !.motion = [m EXCEPT !.start = r.pos]]
  OBVIOUS
<1>4. IsTravel(m) /\ m.target \in Position /\ m.dir \in {"up", "down"} /\ m.by \in E
  BY CausedTravel
<1>5. /\ h.pos = r.pos /\ h.anchor = r.anchor /\ h.anchored = r.anchored /\ WellFormed(h)
      /\ h.motion.start = r.pos /\ h.motion.target = m.target /\ h.motion.dir = m.dir
      /\ h.motion.by = m.by
  BY <1>2, <1>3, <1>4, TravelShape DEF Sound, WellFormed
<1>6. Rated(h, E)
  BY <1>2, <1>4, <1>5 DEF Rated
<1>7. \/ g = MarkUnknown(f) \/ g = r
      \/ (m.absolute \/ r.pos # Unknown) /\ (g = h \/ g \in Interrupted(h))
  BY <1>1, <1>3 DEF Embarked
<1>8. CASE (m.absolute \/ r.pos # Unknown) /\ g \in Interrupted(h)
  <2>1. Sound(h)
    BY <1>8, <1>2, <1>4, <1>5, TravelShape DEF Sound
  <2> QED
    BY <1>6, <1>8, <2>1, InterruptedRated
<1> QED
  BY <1>2, <1>6, <1>7, <1>8, BlankRated DEF MarkUnknown

LEMMA CommittedRated ==
  ASSUME NEW E, NoEvent \in E, NEW f, Sound(f), Rated(f, E), NEW m, Caused(m, E),
         NEW via, NEW cutOff, NEW g \in Committed(f, m, via, cutOff)
  PROVE  Rated(g, E)
<1>1. PICK h \in Interrupted(f) : g \in Embarked(h, m, via, cutOff)
  BY DEF Committed
<1>2. Sound(h) /\ ~Moving(h) /\ ~h.anchored /\ Rated(h, E)
  BY <1>1, InterruptedSound, InterruptedRated
<1> QED
  BY <1>1, <1>2, EmbarkedRated

LEMMA StoppedRated ==
  ASSUME NEW E, NoEvent \in E, NEW f, Sound(f), Rated(f, E), NEW provenance, NEW via,
         NEW g \in Stopped(f, provenance, via)
  PROVE  Rated(g, E)
<1> DEFINE doubtful == /\ provenance = "heard" /\ Moving(f)
                       /\ ~f.motion.timed /\ f.motion.target \in Ends
           doubted(i) == [i EXCEPT !.suspect = @ \/ doubtful]
<1>1. PICK i \in Interrupted(f) :
        g = [Reconciled(doubted(i), via) EXCEPT !.stopped = (provenance = "heard")]
  BY DEF Stopped
<1>2. Sound(i) /\ ~Moving(i) /\ ~i.anchored /\ Rated(i, E)
  BY <1>1, InterruptedSound, InterruptedRated
<1> HIDE DEF doubtful
<1>3. PICK d : d = doubted(i)
  OBVIOUS
<1>4. /\ d.pos = i.pos /\ d.motion = i.motion /\ d.anchored = i.anchored /\ d.anchor = i.anchor
      /\ WellFormed(d)
  BY <1>2, <1>3 DEF Sound, WellFormed
<1>5. Sound(d) /\ Rated(d, E)
  BY <1>2, <1>4 DEF Sound, Moving, Rated
<1>6. PICK r : r = Reconciled(d, via) /\ Sound(r) /\ Rated(r, E)
  BY <1>5, ReconciledSound, ReconciledRated
<1>7. g.pos = r.pos /\ g.motion = r.motion /\ g.anchor = r.anchor
  BY <1>1, <1>3, <1>6 DEF Sound, WellFormed
<1> QED
  BY <1>6, <1>7 DEF Rated, Moving

LEMMA HeardRated ==
  ASSUME NEW E, NoEvent \in E, NEW f, Sound(f), Rated(f, E), NEW key, NEW covered, NEW by \in E,
         NEW via, NEW g \in Heard(f, key, covered, by, via)
  PROVE  Rated(g, E)
<1>1. Caused(FullTravel(key, by), E)
  BY DEF Caused
<1> QED
  BY <1>1, BlankRated, StoppedRated, CommittedRated DEF Heard, MarkUnknown

LEMMA BridgeChangedRated ==
  ASSUME NEW E, NoEvent \in E, NEW f, Sound(f), Rated(f, E), NEW via
  PROVE  Rated(BridgeChanged(f, via), E)
  BY ReconciledRated, BlankRated DEF BridgeChanged, MarkUnknown

LEMMA PersistedRated ==
  ASSUME NEW E, NEW f, Sound(f), Rated(f, E)
  PROVE  Rated(Persisted(f), E)
<1>1. PICK g : g = Persisted(f)
  OBVIOUS
<1>2. g.pos = f.pos /\ g.motion = f.motion /\ g.anchor = f.anchor
  BY <1>1 DEF Persisted, Sound, WellFormed
<1> QED
  BY <1>1, <1>2 DEF Rated, Moving

\* A motion that is over, and a model it has left at its target.
LEMMA ArrivedRated ==
  ASSUME NEW E, NoEvent \in E, NEW f, Sound(f), Rated(f, E), Moving(f), NEW by \in E,
         NEW g, WellFormed(g), g.anchored => g.pos # Unknown,
         g.pos = f.motion.target, g.anchor \in {f.anchor, NoEvent, by},
         NEW via
  PROVE  Sound(Reconciled(Cleared(g), via)) /\ Rated(Reconciled(Cleared(g), via), E)
<1>1. PICK c : c = Cleared(g) /\ Sound(c) /\ ~Moving(c) /\ c.pos = g.pos
  BY ClearedSound
<1>2. c.anchor = g.anchor /\ c.motion = NoMotion
  BY <1>1 DEF Cleared, WellFormed
<1>3. Rated(c, E)
  BY <1>1, <1>2 DEF Rated, NoMotion, Moving, Position, Unknown
<1> QED
  BY <1>1, <1>3, ReconciledSound, ReconciledRated

LEMMA CompletedRated ==
  ASSUME NEW E, NoEvent \in E, NEW f, Sound(f), Rated(f, E), Moving(f), NEW via
  PROVE  Rated(Completed(f, via), E)
<1>1. PICK h : h = [f EXCEPT !.pos = f.motion.target]
  OBVIOUS
<1>2. /\ WellFormed(h) /\ h.pos = f.motion.target /\ ~h.anchored /\ h.anchor = f.anchor
      /\ h.motion = f.motion
  BY <1>1 DEF Sound, WellFormed
<1>3. PICK a : a = Anchored(h, ~f.motion.recovered)
  OBVIOUS
<1>4. /\ WellFormed(a) /\ a.pos = h.pos /\ a.anchor \in {h.anchor, NoEvent}
      /\ a.anchored => a.pos # Unknown
  BY <1>2, <1>3 DEF Anchored, WellFormed, Ends, Unknown
<1>5. PICK doubt \in BOOLEAN : doubt = (a.suspect \/ f.motion.recovered)
  OBVIOUS
<1>6. PICK g : g = [a EXCEPT !.suspect = doubt]
  OBVIOUS
<1>7. /\ WellFormed(g) /\ g.pos = a.pos /\ g.anchor = a.anchor /\ g.anchored = a.anchored
  BY <1>4, <1>6 DEF WellFormed
<1>8. Completed(f, via) = Reconciled(Cleared(g), via)
  BY <1>1, <1>3, <1>5, <1>6 DEF Completed
<1> QED
  BY <1>2, <1>4, <1>7, <1>8, ArrivedRated

LEMMA RestoredRated ==
  ASSUME NEW E, NoEvent \in E, NEW s, Sound(s), ~s.anchored, Rated(s, E), NEW via, NEW cutOff,
         NEW elapsed, NEW g \in Restored(s, via, cutOff, elapsed)
  PROVE  Rated(g, E)
<1>1. PICK f : f = Reconciled(s, via) /\ Sound(f) /\ Rated(f, E) /\ ~f.anchored
  BY ReconciledSound, ReconciledRated DEF Keeps
<1>2. CASE Moving(f) /\ g = Elapsed(f, via)
  <2>1. PICK k : k = [f EXCEPT !.pos = f.motion.target]
    OBVIOUS
  <2>2. /\ WellFormed(k) /\ k.pos = f.motion.target /\ ~k.anchored /\ k.anchor = f.anchor
    BY <1>1, <2>1 DEF Sound, WellFormed
  <2>3. PICK a \in E : a = f.motion.by
    BY <1>1 DEF Rated
  <2>4. PICK e : e = [k EXCEPT !.anchor = a]
    OBVIOUS
  <2>5. /\ WellFormed(e) /\ e.pos = k.pos /\ ~e.anchored /\ e.anchor = a
    BY <2>2, <2>4 DEF WellFormed
  <2>6. [Cleared(k) EXCEPT !.anchor = a] = Cleared(e)
    BY <2>2, <2>4 DEF Cleared, WellFormed
  <2>7. \E h : /\ h \in {Reconciled(Cleared(k), via), Reconciled(Cleared(e), via)}
              /\ g = [h EXCEPT !.suspect = (h.pos # Unknown)]
    BY <1>2, <2>1, <2>3, <2>6 DEF Elapsed
  <2>8. PICK h : /\ h \in {Reconciled(Cleared(k), via), Reconciled(Cleared(e), via)}
                 /\ g = [h EXCEPT !.suspect = (h.pos # Unknown)]
    BY <2>7
  <2>9. Sound(h) /\ Rated(h, E)
    BY <1>1, <1>2, <2>2, <2>5, <2>8, ArrivedRated
  <2>10. g.pos = h.pos /\ g.motion = h.motion /\ g.anchor = h.anchor
    BY <2>8, <2>9 DEF Sound, WellFormed
  <2> QED
    BY <2>9, <2>10 DEF Rated, Moving
<1>3. CASE Moving(f) /\ \E p \in Estimates(f) : g = [f EXCEPT !.pos = p, !.motion.recovered = TRUE]
  <2>1. PICK p \in Estimates(f) : g = [f EXCEPT !.pos = p, !.motion.recovered = TRUE]
    BY <1>3
  <2>2. p \in Position
    BY <1>1, EstimatesRated
  <2>3. /\ g.pos = p /\ g.anchor = f.anchor /\ g.motion.by = f.motion.by
        /\ g.motion.dir = f.motion.dir /\ g.motion.target = f.motion.target
        /\ g.motion.start = f.motion.start
    BY <2>1, <1>1 DEF Sound, WellFormed
  <2> QED
    BY <1>1, <1>3, <2>2, <2>3 DEF Rated
<1> QED
  BY <1>1, <1>2, <1>3, BlankRated DEF Restored, MarkUnknown

----------------------------------------------------------------------------
(* The values of the variables: what the callers, the hub and the bridge   *)
(* keep.                                                                   *)

\* The cast stays, and so do the events that have been.
Counted == cast \in Casts /\ presses \in Nat /\ upsets \in Nat

LEMMA NextCounted ==
  ASSUME Counted, [Next]_vars
  PROVE  Counted' /\ Event \subseteq Event'
<1>1. UNCHANGED cast
  <2>1. CASE UNCHANGED vars
    BY <2>1 DEF vars
  <2>2. ASSUME NEW x, Call(x) \/ Begin(x) \/ Cancel(x) \/ Send(x) \/ Expire(x) \/ Register(x) \/ Reload(x)
                     \/ Complete(x) \/ Restore(x) \/ AddFails(x) \/ Press(x[1], x[2])
        PROVE  UNCHANGED cast
    BY <2>2 DEF Call, Begin, Cancel, Send, Expire, Register, Reload, Complete, Restore, AddFails, Press
  <2>3. ASSUME NEW c, Timeout(c) \/ Air(c) \/ Fire(c) \/ TrainEnds(c) \/ Overrun(c) \/ Bury(c) \/ Lapse(c)
                     \/ TimedOut(c)
        PROVE  UNCHANGED cast
    BY <2>3 DEF Timeout, Air, Fire, TrainEnds, Overrun, Bury, Lapse, TimedOut
  <2>4. CASE Resume \/ Drop \/ Return \/ Deliver
    BY <2>4 DEF Resume, Drop, Return, Deliver
  <2> QED
    BY <2>1, <2>2, <2>3, <2>4 DEF Next
<1>2. presses' \in {presses, presses + 1} /\ upsets' \in {upsets, upsets + 1}
  <2>1. CASE UNCHANGED vars
    BY <2>1 DEF vars, bounds
  <2>2. ASSUME NEW x, Call(x) \/ Begin(x) \/ Cancel(x) \/ Send(x) \/ Expire(x) \/ Register(x) \/ Reload(x)
                     \/ Complete(x) \/ Restore(x) \/ AddFails(x) \/ Press(x[1], x[2])
        PROVE  presses' \in {presses, presses + 1} /\ upsets' \in {upsets, upsets + 1}
    BY <2>2 DEF Call, Begin, Cancel, Send, Expire, Register, Reload, Complete, Restore, AddFails, Press,
                bounds, Upset
  <2>3. ASSUME NEW c, Timeout(c) \/ Air(c) \/ Fire(c) \/ TrainEnds(c) \/ Overrun(c) \/ Bury(c) \/ Lapse(c)
                     \/ TimedOut(c)
        PROVE  presses' \in {presses, presses + 1} /\ upsets' \in {upsets, upsets + 1}
    BY <2>3 DEF Timeout, Air, Fire, TrainEnds, Overrun, Bury, Lapse, TimedOut, bounds, Upset
  <2>4. CASE Resume \/ Drop \/ Return \/ Deliver
    BY <2>4 DEF Resume, Drop, Return, Deliver, bounds, Upset
  <2> QED
    BY <2>1, <2>2, <2>3, <2>4 DEF Next
<1>3. Counted'
  BY <1>1, <1>2 DEF Counted
<1>4. 1..presses \subseteq 1..(presses')
  BY <1>2 DEF Counted
<1> QED
  BY <1>3, <1>4 DEF Event

LEMMA EventsKnown ==
  /\ NoEvent \in Event
  /\ \A c \in Command : <<"air", c>> \in Event /\ <<"stop", c>> \in Event /\ <<"lost", c>> \in Event
  BY DEF Event

\* What each call remembers.
Remembered ==
  /\ seen \in [Task -> SUBSET Leaf] /\ newer \in [Task -> SUBSET Leaf] /\ old \in SUBSET Task
  /\ button \in [Command -> {"none", "UP", "DOWN", "STOP"}]

LEMMA IssueRemembered ==
  ASSUME Remembered, UNCHANGED old, NEW t \in Task, NEW phase \in {"stop", "move"},
         NEW b \in {"UP", "DOWN", "STOP"}, NEW at, Issue(t, phase, b, at)
  PROVE  Remembered'
<1>1. PICK c : c = <<t[1], t[2], phase>> /\ c \in Command
  BY TaskShape
<1>2. button' = [button EXCEPT ![c] = b] /\ seen' = [seen EXCEPT ![t] = Live] /\ newer' = [newer EXCEPT ![t] = {}]
  BY <1>1 DEF Issue
<1>3. Live \subseteq Leaf
  BY DEF Live
<1> QED
  BY <1>1, <1>2, <1>3 DEF Remembered

LEMMA PositioningRemembered ==
  ASSUME Remembered, UNCHANGED old, NEW t \in Task, NEW p, Positioning(t, p)
  PROVE  Remembered'
<1>1. CASE Finished(t)
  BY <1>1 DEF Finished, Remembered
<1>2. CASE \E b \in {"UP", "DOWN"} : Issue(t, "move", b, pc)
  BY <1>2, IssueRemembered
<1> QED
  BY <1>1, <1>2 DEF Positioning

LEMMA NextRemembered ==
  ASSUME Typed, Remembered, [Next]_vars
  PROVE  Remembered'
<1>1. CASE UNCHANGED <<seen, newer, old, button>>
  BY <1>1 DEF Remembered
<1>2. ASSUME NEW t \in Task, Begin(t)
      PROVE  Remembered'
  <2>1. UNCHANGED old
    BY <1>2 DEF Begin
  <2>2. \/ \E p : Positioning(t, p)
        \/ \E phase \in {"stop", "move"}, b \in {"UP", "DOWN", "STOP"} : Issue(t, phase, b, pc)
    BY <1>2 DEF Begin
  <2> QED
    BY <2>1, <2>2, PositioningRemembered, IssueRemembered
<1>3. CASE Resume
  <2>1. UNCHANGED old
    BY <1>3 DEF Resume
  <2>2. PICK c : c = Head(acks) /\ c \in Command /\ TaskOf(c) \in Task
    BY <1>3, ResumeTyped, CommandShape
  <2>3. \/ Finished(TaskOf(c)) \/ \E p : Positioning(TaskOf(c), p)
        \/ UNCHANGED <<pc, seen, newer, button, queue>>
    BY <1>3, <2>2 DEF Resume
  <2> QED
    BY <1>1, <2>1, <2>2, <2>3, PositioningRemembered DEF Finished
<1>4. ASSUME NEW b, NEW S, Press(b, S)
      PROVE  Remembered'
  <2>1. \E mine \in SUBSET Leaf : newer' = [t \in Task |-> newer[t] \cup (mine \cap seen[t])]
    BY <1>4 DEF Press
  <2>2. UNCHANGED <<seen, old, button>>
    BY <1>4 DEF Press
  <2> QED
    BY <2>1, <2>2 DEF Remembered
<1>5. ASSUME NEW how, Reload(how)
      PROVE  Remembered'
  <2>1. UNCHANGED <<seen, newer, button>> /\ old' \subseteq old \cup Task
    BY <1>5 DEF Reload
  <2> QED
    BY <2>1 DEF Remembered
<1>6. ASSUME NEW x, Call(x) \/ Cancel(x) \/ Send(x) \/ Expire(x) \/ Register(x) \/ Complete(x) \/ Restore(x)
                   \/ AddFails(x)
      PROVE  UNCHANGED <<seen, newer, old, button>>
  BY <1>6 DEF Call, Cancel, Send, Expire, Register, Complete, Restore, AddFails, tasks
<1>7. ASSUME NEW c, Timeout(c) \/ Air(c) \/ Fire(c) \/ TrainEnds(c) \/ Overrun(c) \/ Bury(c) \/ Lapse(c)
                   \/ TimedOut(c)
      PROVE  UNCHANGED <<seen, newer, old, button>>
  BY <1>7 DEF Timeout, Air, Fire, TrainEnds, Overrun, Bury, Lapse, TimedOut, tasks
<1>8. CASE Drop \/ Return \/ Deliver \/ UNCHANGED vars
  <2>1. UNCHANGED <<seen, newer, old, button>>
    BY <1>8 DEF Drop, Return, Deliver, vars, tasks
  <2> QED
    BY <1>1, <2>1
<1> QED
  BY <1>1, <1>2, <1>3, <1>4, <1>5, <1>6, <1>7, <1>8 DEF Next

\* What the hub and its bridge know of each command.
Grounded ==
  /\ entry \in [Command -> {"none", "pending", "started", "confirmed", "displaced", "lapsed", "gone"}]
  /\ req \in [Command -> [open : BOOLEAN, owned : BOOLEAN, chans : SUBSET Channel, pressed : SUBSET Channel]]
  /\ displaced \subseteq Command
  /\ registry \in {"unseen", "online", "offline"} /\ up \in BOOLEAN
  /\ rf \in [Command -> {"none", "waiting", "armed", "mute", "free", "over"}]

LEMMA ChannelsOf ==
  ASSUME NEW x \in Cover
  PROVE  Chan[x] \subseteq Channel
  BY TopologyAssumption

LEMMA MergedGrounded ==
  ASSUME Grounded, NEW c \in Command, NEW b, NEW S
  PROVE  Merged(c, b, S) \in [open : BOOLEAN, owned : BOOLEAN, chans : SUBSET Channel, pressed : SUBSET Channel]
<1>1. PICK owners \in SUBSET Cover : owners = IF b = "STOP" THEN {} ELSE Owners(c)
  BY DEF Owners
<1>2. c[2] \in Cover
  BY CommandShape, TaskShape
<1>3. PICK own : own = UNION {Chan[x] : x \in owners} /\ own \subseteq Channel
  BY ChannelsOf
<1>4. PICK chans : /\ chans = own \cup (IF c \in LedgerLive(S) THEN Chan[c[2]] ELSE {})
                   /\ chans \subseteq Channel
  BY <1>2, <1>3, ChannelsOf
<1>5. PICK r : r = IF req[c].open THEN req[c] ELSE NoRequest
  OBVIOUS
<1>6. r.chans \subseteq Channel /\ r.pressed \subseteq Channel
  BY <1>5 DEF Grounded, NoRequest
<1>7. PICK owned \in BOOLEAN : owned = (r.owned \/ owners # {})
  OBVIOUS
<1>8. Merged(c, b, S) = [open |-> TRUE, owned |-> owned, chans |-> r.chans \cup chans,
                         pressed |-> r.pressed \cup (S \cap chans)]
  BY <1>1, <1>3, <1>4, <1>5, <1>7 DEF Merged
<1> QED
  BY <1>4, <1>6, <1>8

LEMMA NoRequestGrounded ==
  NoRequest \in [open : BOOLEAN, owned : BOOLEAN, chans : SUBSET Channel, pressed : SUBSET Channel]
  BY DEF NoRequest

LEMMA DeliverGrounded ==
  ASSUME Typed, Grounded, Deliver
  PROVE  Grounded'
<1>1. PICK s : s = Head(inbox) /\ s \in Status
  BY TailKeeps DEF Deliver, Typed
<1>2. UNCHANGED <<up, rf>>
  BY DEF Deliver
<1>3. CASE s[1] \in {"started", "displaced", "disarmed", "late"}
  <2>1. PICK c \in Command : c = s[2]
    BY <1>1, <1>3 DEF Status
  <2>2. CASE StartedStatus(c)
    <3>1. UNCHANGED <<displaced, req, registry>> /\ \E e \in {entry[c], "started"} : entry' = [entry EXCEPT ![c] = e]
      BY <2>2 DEF StartedStatus
    <3> QED
      BY <1>2, <3>1 DEF Grounded
  <2>3. CASE DisplacedStatus(c)
    <3>1. /\ UNCHANGED registry /\ displaced' = displaced \cup {c} /\ req' = [req EXCEPT ![c] = NoRequest]
          /\ \E e \in {entry[c], "gone", "displaced"} : entry' = [entry EXCEPT ![c] = e]
      BY <2>3 DEF DisplacedStatus, Closed
    <3> QED
      BY <1>2, <3>1, NoRequestGrounded DEF Grounded
  <2>4. CASE \E late : DisarmedStatus(c, late)
    <3>1. /\ UNCHANGED <<registry, displaced>> /\ (UNCHANGED req \/ req' = [req EXCEPT ![c] = NoRequest])
          /\ UNCHANGED entry \/ \E e \in {entry[c], "gone"} : entry' = [entry EXCEPT ![c] = e]
      BY <2>4 DEF DisarmedStatus, Closed
    <3> QED
      BY <1>2, <3>1, NoRequestGrounded DEF Grounded
  <2> QED
    BY <1>1, <1>3, <2>1, <2>2, <2>3, <2>4 DEF Deliver
<1>4. CASE s \in {<<"online">>, <<"offline">>}
  <2>1. s[1] \in {"online", "offline"}
    BY <1>4
  <2>2. Announced(s[1])
    BY <1>1, <2>1 DEF Deliver
  <2> QED
    BY <1>2, <2>1, <2>2 DEF Announced, Grounded
<1> QED
  BY <1>1, <1>3, <1>4 DEF Status

LEMMA NextGrounded ==
  ASSUME Typed, Grounded, [Next]_vars
  PROVE  Grounded'
<1>1. CASE UNCHANGED <<entry, req, displaced, registry, up, rf>>
  BY <1>1 DEF Grounded
<1>2. CASE Resume
  <2>1. PICK c : c = Head(acks)
    OBVIOUS
  <2>2. \E e \in {entry[c], "confirmed"} : entry' = [entry EXCEPT ![c] = e]
    BY <1>2, <2>1 DEF Resume
  <2>3. UNCHANGED <<req, displaced, registry, up, rf>>
    BY <1>2 DEF Resume, bridge
  <2> QED
    BY <2>2, <2>3 DEF Grounded
<1>3. ASSUME NEW c \in Command, Timeout(c) \/ Lapse(c)
      PROVE  Grounded'
  <2>1. /\ \E e \in {"gone", "lapsed"} : entry' = [entry EXCEPT ![c] = e]
        /\ UNCHANGED rf \/ \E r \in {rf[c], "over"} : rf' = [rf EXCEPT ![c] = r]
        /\ UNCHANGED <<req, displaced, registry, up>>
    BY <1>3 DEF Timeout, Lapse, bridge
  <2> QED
    BY <2>1 DEF Grounded
<1>4. ASSUME NEW i, Send(i)
      PROVE  Grounded'
  <2>1. \E e \in {entry[queue[i]], "pending"} : entry' = [entry EXCEPT ![queue[i]] = e]
    BY <1>4 DEF Send
  <2>2. DOMAIN rf' = Command /\ \A d \in Command : rf'[d] \in {"waiting", "over", rf[d]}
    BY <1>4 DEF Send
  <2>3. rf' = [d \in Command |-> rf'[d]]
    BY <1>4 DEF Send
  <2>4. rf' \in [Command -> {"none", "waiting", "armed", "mute", "free", "over"}]
    BY <2>2, <2>3 DEF Grounded
  <2>5. UNCHANGED <<req, displaced, registry, up>>
    BY <1>4 DEF Send
  <2>6. entry' \in [Command -> {"none", "pending", "started", "confirmed", "displaced", "lapsed", "gone"}]
    BY <2>1 DEF Grounded
  <2> QED
    BY <2>4, <2>5, <2>6 DEF Grounded
<1>5. ASSUME NEW c \in Command, Air(c) \/ Fire(c) \/ TrainEnds(c) \/ Overrun(c) \/ Bury(c)
      PROVE  Grounded'
  <2>1. UNCHANGED <<entry, req, displaced, registry, up>>
    BY <1>5 DEF Air, Fire, TrainEnds, Overrun, Bury, hub
  <2>2. \E r \in {"armed", "free", "over", "mute"} : rf' = [rf EXCEPT ![c] = r]
    BY <1>5 DEF Air, Fire, TrainEnds, Overrun, Bury
  <2> QED
    BY <2>1, <2>2 DEF Grounded
<1>6. ASSUME NEW c, TimedOut(c)
      PROVE  Grounded'
  <2>1. UNCHANGED <<entry, displaced, registry, up, rf>> /\ req' = [req EXCEPT ![c] = NoRequest]
    BY <1>6 DEF TimedOut, Closed, bridge
  <2> QED
    BY <2>1, NoRequestGrounded DEF Grounded
<1>7. CASE Drop \/ Return
  <2>1. UNCHANGED <<entry, req, displaced, registry>> /\ up' \in BOOLEAN
    BY <1>7 DEF Drop, Return, hub
  <2>2. UNCHANGED rf \/ rf' = [c \in Command |-> CASE rf[c] \in {"armed", "mute"} -> "mute"
                                                  [] rf[c] = "none" -> "none"
                                                  [] OTHER -> "over"]
    BY <1>7 DEF Drop, Return
  <2>3. rf' \in [Command -> {"none", "waiting", "armed", "mute", "free", "over"}]
    BY <2>2 DEF Grounded
  <2> QED
    BY <2>1, <2>3 DEF Grounded
<1>8. ASSUME NEW b, NEW S, Press(b, S)
      PROVE  Grounded'
  <2>1. \E targets : req' = [c \in Command |-> IF c \in targets THEN Merged(c, b, S) ELSE req[c]]
    BY <1>8 DEF Press
  <2>2. UNCHANGED <<entry, displaced, registry, up, rf>>
    BY <1>8 DEF Press, bridge
  <2> QED
    BY <2>1, <2>2, MergedGrounded DEF Grounded
<1>9. ASSUME NEW how, Reload(how)
      PROVE  Grounded'
  <2>1. UNCHANGED <<req, up, rf>>
    BY <1>9 DEF Reload
  <2>2. \/ UNCHANGED <<entry, displaced, registry>>
        \/ entry' = [c \in Command |-> "none"] /\ displaced' = {} /\ registry' = "unseen"
    BY <1>9 DEF Reload
  <2> QED
    BY <2>1, <2>2 DEF Grounded
<1>10. ASSUME NEW x, Call(x) \/ Begin(x) \/ Cancel(x) \/ Expire(x) \/ Register(x) \/ Complete(x) \/ Restore(x)
                     \/ AddFails(x)
       PROVE  UNCHANGED <<entry, req, displaced, registry, up, rf>>
  BY <1>10 DEF Call, Begin, Cancel, Expire, Register, Complete, Restore, AddFails, hub, bridge
<1>11. CASE UNCHANGED vars
  BY <1>1, <1>11 DEF vars, hub, bridge
<1> QED
  BY <1>1, <1>2, <1>3, <1>4, <1>5, <1>6, <1>7, <1>8, <1>9, <1>10, <1>11, DeliverGrounded DEF Next

\* What an aggregate keeps.
Grouped == glast \in [Aggregate -> Event] /\ gstopped \subseteq Aggregate

LEMMA NextGrouped ==
  ASSUME Typed, Grouped, Event \subseteq Event', [Next]_vars
  PROVE  Grouped'
<1>1. ASSUME UNCHANGED glast \/ \E xs : glast' = [g \in Aggregate |-> IF g \in xs THEN NoEvent ELSE glast[g]],
             gstopped' \subseteq gstopped \cup Aggregate
      PROVE  Grouped'
  <2>1. glast' \in [Aggregate -> Event]
    BY <1>1, EventsKnown DEF Grouped
  <2> QED
    BY <1>1, <2>1 DEF Grouped
<1>2. ASSUME NEW x \in Aggregate, NEW e \in Event, glast' = [glast EXCEPT ![x] = e], gstopped' \subseteq gstopped
      PROVE  Grouped'
  BY <1>2 DEF Grouped
<1>3. CASE Resume
  <2>1. PICK c : c = Head(acks) /\ c \in Command
    BY <1>3, ResumeTyped
  <2>2. PICK t : t = TaskOf(c)
    OBVIOUS
  <2>3. \/ UNCHANGED glast
        \/ t[2] \in Aggregate /\ glast' = [glast EXCEPT ![t[2]] = <<"air", c>>]
    BY <1>3, <2>1, <2>2 DEF Resume, groups
  <2>4. gstopped' \subseteq gstopped
    BY <1>3, <2>1, <2>2 DEF Resume, groups
  <2> QED
    BY <1>1, <1>2, <2>1, <2>3, <2>4, EventsKnown
<1>4. CASE Deliver
  <2>1. UNCHANGED gstopped
    BY <1>4 DEF Deliver
  <2>2. UNCHANGED glast \/ \E xs : TakenOver(xs)
    BY <1>4 DEF Deliver, StartedStatus, DisplacedStatus, DisarmedStatus, Announced
  <2> QED
    BY <1>1, <2>1, <2>2 DEF TakenOver
<1>5. ASSUME NEW c, TimedOut(c)
      PROVE  Grouped'
  <2>1. UNCHANGED gstopped /\ \E xs : TakenOver(xs)
    BY <1>5 DEF TimedOut
  <2> QED
    BY <1>1, <2>1 DEF TakenOver
<1>6. ASSUME NEW b, NEW S, Press(b, S)
      PROVE  Grouped'
  <2>1. \E xs : glast' = [g \in Aggregate |-> IF g \in xs THEN NoEvent ELSE glast[g]]
    BY <1>6 DEF Press
  <2>2. gstopped' \subseteq gstopped \cup Aggregate
    BY <1>6 DEF Press
  <2> QED
    BY <1>1, <2>1, <2>2
<1>7. ASSUME NEW how, Reload(how)
      PROVE  Grouped'
  BY <1>7, EventsKnown DEF Reload, Grouped
<1>8. ASSUME NEW g \in Aggregate, Expire(g)
      PROVE  Grouped'
  BY <1>2, <1>8, EventsKnown DEF Expire
<1>9. ASSUME NEW x, Call(x) \/ Begin(x) \/ Cancel(x) \/ Send(x) \/ Register(x) \/ Complete(x) \/ Restore(x)
                    \/ AddFails(x)
      PROVE  UNCHANGED groups
  BY <1>9 DEF Call, Begin, Cancel, Send, Register, Complete, Restore, AddFails
<1>10. ASSUME NEW c, Timeout(c) \/ Air(c) \/ Fire(c) \/ TrainEnds(c) \/ Overrun(c) \/ Bury(c) \/ Lapse(c)
       PROVE  UNCHANGED groups
  BY <1>10 DEF Timeout, Air, Fire, TrainEnds, Overrun, Bury, Lapse
<1>11. CASE Drop \/ Return \/ UNCHANGED vars
  <2>1. UNCHANGED groups
    BY <1>11 DEF Drop, Return, vars
  <2> QED
    BY <1>1, <2>1 DEF groups
<1> QED
  BY <1>1, <1>3, <1>4, <1>5, <1>6, <1>7, <1>8, <1>9, <1>10, <1>11 DEF Next, groups

\* Where each entity is.
Staged == stage \in [Cover -> {"coming", "adding", "added", "failed"}]

LEMMA NextStaged ==
  ASSUME Staged, [Next]_vars
  PROVE  Staged'
<1>1. CASE UNCHANGED stage
  BY <1>1 DEF Staged
<1>2. ASSUME NEW x, Register(x) \/ Restore(x) \/ AddFails(x) \/ Reload(x)
      PROVE  Staged'
  BY <1>2 DEF Register, Restore, AddFails, Reload, Staged
<1>3. ASSUME NEW x, Call(x) \/ Begin(x) \/ Cancel(x) \/ Send(x) \/ Expire(x) \/ Complete(x) \/ Press(x[1], x[2])
      PROVE  UNCHANGED stage
  BY <1>3 DEF Call, Begin, Cancel, Send, Expire, Complete, Press, entities
<1>4. ASSUME NEW c, Timeout(c) \/ Air(c) \/ Fire(c) \/ TrainEnds(c) \/ Overrun(c) \/ Bury(c) \/ Lapse(c)
                    \/ TimedOut(c)
      PROVE  UNCHANGED stage
  BY <1>4 DEF Timeout, Air, Fire, TrainEnds, Overrun, Bury, Lapse, TimedOut, entities
<1>5. CASE Resume \/ Drop \/ Return \/ Deliver \/ UNCHANGED vars
  <2>1. UNCHANGED stage
    BY <1>5 DEF Resume, Drop, Return, Deliver, vars, entities
  <2> QED
    BY <1>1, <2>1
<1> QED
  BY <1>1, <1>2, <1>3, <1>4, <1>5 DEF Next

----------------------------------------------------------------------------
(* The values of the variables: the history. *)

\* Only what has been drives a leaf, or is owed to it.
Dated(w, E) ==
  \A l \in Leaf : /\ w[l].last \in E /\ w[l].moving \in BOOLEAN
                  /\ w[l].due \subseteq E /\ w[l].origin \subseteq E /\ w[l].base \subseteq E

LEMMA DatedLater ==
  ASSUME NEW w, NEW E, NEW F, E \subseteq F, Dated(w, E)
  PROVE  Dated(w, F)
  BY DEF Dated

LEMMA HappenedDated ==
  ASSUME NEW w, WellKept(w), NEW E, Dated(w, E), NEW e \in E, NEW ls, NEW moving \in BOOLEAN,
         NEW v, v = Happened(w, e, ls, moving)
  PROVE  Dated(v, E)
<1>1. ASSUME NEW l \in Leaf
      PROVE  /\ v[l].last \in E /\ v[l].moving \in BOOLEAN
             /\ v[l].due \subseteq E /\ v[l].origin \subseteq E /\ v[l].base \subseteq E
  <2>1. PICK new : new = IF moving \/ w[l].moving THEN {e} ELSE {}
    OBVIOUS
  <2>2. new \subseteq E
    BY <2>1
  <2>3. PICK r : r = w[l] /\ r = [last |-> r.last, moving |-> r.moving, due |-> r.due,
                                 origin |-> r.origin, base |-> r.base]
    BY DEF WellKept
  <2>4. PICK s : s = v[l] /\ s = IF l \in ls
                          THEN [r EXCEPT !.last = e, !.moving = moving, !.due = @ \cup new, !.base = @ \cup new]
                          ELSE r
    BY <2>1, <2>3 DEF Happened
  <2>5. s = r \/ (s.last = e /\ s.moving = moving /\ s.due = r.due \cup new /\ s.origin = r.origin
                 /\ s.base = r.base \cup new)
    BY <2>3, <2>4
  <2> QED
    BY <2>2, <2>3, <2>4, <2>5 DEF Dated
<1> QED
  BY <1>1 DEF Dated

LEMMA AccountedDated ==
  ASSUME NEW w, WellKept(w), NEW E, Dated(w, E), NEW es, NEW ls, NEW absolute,
         NEW v, v = Accounted(w, es, ls, absolute)
  PROVE  Dated(v, E)
<1>1. ASSUME NEW l \in Leaf
      PROVE  /\ v[l].last \in E /\ v[l].moving \in BOOLEAN
             /\ v[l].due \subseteq E /\ v[l].origin \subseteq E /\ v[l].base \subseteq E
  <2>1. PICK later : later = {w[l].last} \ (es \cup {NoEvent})
    OBVIOUS
  <2>2. PICK before : before = (w[l].due \cup w[l].origin) \ (es \cup later)
    OBVIOUS
  <2>3. later \subseteq E /\ before \subseteq E
    BY <2>1, <2>2 DEF Dated
  <2>4. PICK origin, due : /\ origin = (IF absolute THEN before ELSE {})
                           /\ due = (IF absolute THEN later ELSE before \cup later)
    OBVIOUS
  <2>5. origin \subseteq E /\ due \subseteq E
    BY <2>3, <2>4
  <2>6. PICK r : r = w[l] /\ r = [last |-> r.last, moving |-> r.moving, due |-> r.due,
                                 origin |-> r.origin, base |-> r.base]
    BY DEF WellKept
  <2>7. PICK s : s = v[l] /\ s = IF l \notin ls THEN r ELSE [r EXCEPT !.origin = origin, !.due = due]
    BY <2>1, <2>2, <2>4, <2>6 DEF Accounted
  <2>8. s = r \/ (s.last = r.last /\ s.moving = r.moving /\ s.due = due /\ s.origin = origin /\ s.base = r.base)
    BY <2>6, <2>7
  <2> QED
    BY <2>5, <2>6, <2>7, <2>8 DEF Dated
<1> QED
  BY <1>1 DEF Dated

LEMMA FlushedDated ==
  ASSUME NEW w, WellKept(w), NEW E, Dated(w, E), NEW stops, \A d \in stops : <<"stop", d>> \in E,
         NEW v, v = Flushed(w, stops)
  PROVE  Dated(v, E)
<1>1. PICK no \in BOOLEAN : no = FALSE
  OBVIOUS
<1>2. ASSUME NEW l \in Leaf
      PROVE  v[l] = w[l] \/ \E d \in stops : v[l] = Happened(w, <<"stop", d>>, {l}, no)[l]
  <2>1. CASE \E d \in stops : d[2] = l
    <3>1. PICK d : d = CHOOSE x \in stops : x[2] = l
      OBVIOUS
    <3>2. d \in stops /\ d[2] = l
      BY <2>1, <3>1
    <3>3. v[l] = Happened(w, <<"stop", d>>, {l}, no)[l]
      BY <1>1, <2>1, <3>1 DEF Flushed
    <3> QED
      BY <3>2, <3>3
  <2> QED
    BY <2>1 DEF Flushed
<1>3. ASSUME NEW l \in Leaf, NEW d \in stops, v[l] = Happened(w, <<"stop", d>>, {l}, no)[l]
      PROVE  /\ v[l].last \in E /\ v[l].moving \in BOOLEAN
             /\ v[l].due \subseteq E /\ v[l].origin \subseteq E /\ v[l].base \subseteq E
  <2>1. PICK h : h = Happened(w, <<"stop", d>>, {l}, no) /\ Dated(h, E)
    BY HappenedDated
  <2> QED
    BY <1>3, <2>1 DEF Dated
<1> QED
  BY <1>2, <1>3 DEF Dated

\* The press that is being heard is one of the events from now on.
LEMMA PressIsEvent ==
  ASSUME Counted, NEW b, NEW S, Press(b, S)
  PROVE  <<"press", presses + 1>> \in Event'
<1>1. presses' = presses + 1 /\ presses + 1 \in 1..(presses')
  BY DEF Press, Counted
<1> QED
  BY <1>1 DEF Event

LEMMA NextDated ==
  ASSUME Shaped, Typed, Counted, Dated(world, Event), Event \subseteq Event', [Next]_vars
  PROVE  Dated(world', Event')
<1>1. WellKept(world) /\ Dated(world, Event')
  BY DatedLater DEF WellKept, Shaped
<1>2. CASE UNCHANGED world
  BY <1>1, <1>2
<1>3. \A c \in Command : <<"air", c>> \in Event' /\ <<"stop", c>> \in Event' /\ <<"lost", c>> \in Event'
  BY EventsKnown
<1>4. CASE Resume
  <2>1. PICK full \in BOOLEAN : full = (button[Head(acks)] # "STOP" /\ ~Timed(Head(acks)))
    OBVIOUS
  <2>2. UNCHANGED world \/ \E ls : Commit(Head(acks), ls)
    BY <1>4 DEF Resume, history
  <2>3. UNCHANGED world \/ \E es, ls : world' = Accounted(world, es, ls, full)
    BY <2>1, <2>2 DEF Commit
  <2> QED
    BY <1>1, <2>3, AccountedDated
<1>5. CASE Deliver
  <2>1. PICK no \in BOOLEAN : no = FALSE
    OBVIOUS
  <2>2. UNCHANGED world \/ \E c : DisplacedStatus(c)
    BY <1>5 DEF Deliver, StartedStatus, DisarmedStatus, Announced, history
  <2>3. UNCHANGED world \/ \E es, ls : world' = Accounted(world, es, ls, no)
    BY <2>1, <2>2 DEF DisplacedStatus
  <2> QED
    BY <1>1, <2>3, AccountedDated
<1>6. ASSUME NEW b, NEW S, Press(b, S)
      PROVE  Dated(world', Event')
  <2>1. PICK going \in BOOLEAN : going = (b # "STOP")
    OBVIOUS
  <2>2. PICK e : e = <<"press", presses + 1>> /\ e \in Event'
    BY <1>6, PressIsEvent
  <2>3. PICK es, moved, ls : world' = Accounted(Happened(world, e, moved, going), es, ls, going)
    BY <1>6, <2>1, <2>2 DEF Press
  <2>4. PICK w : w = Happened(world, e, moved, going) /\ WellKept(w) /\ Dated(w, Event')
    BY <1>1, <2>2, HappenedKept, HappenedDated
  <2>5. world' = Accounted(w, es, ls, going)
    BY <2>3, <2>4
  <2> QED
    BY <2>4, <2>5, AccountedDated
<1>7. ASSUME NEW i, Send(i)
      PROVE  Dated(world', Event')
  <2>1. UNCHANGED world \/ \E stops \in SUBSET Command : world' = Flushed(world, stops)
    BY <1>7 DEF Send
  <2> QED
    BY <1>1, <1>3, <2>1, FlushedDated
<1>8. ASSUME NEW c \in Command, Air(c)
      PROVE  Dated(world', Event')
  <2>1. PICK going \in BOOLEAN : going = (button[c] # "STOP")
    OBVIOUS
  <2>2. \E ls : world' = Happened(world, <<"air", c>>, ls, going)
    BY <1>8, <2>1 DEF Air
  <2> QED
    BY <1>1, <1>3, <2>2, HappenedDated
<1>9. ASSUME NEW c \in Command, Fire(c) \/ Overrun(c)
      PROVE  Dated(world', Event')
  <2>1. PICK no \in BOOLEAN, yes \in BOOLEAN : no = FALSE /\ yes = TRUE
    OBVIOUS
  <2>2. \/ UNCHANGED world
        \/ \E e \in {<<"stop", c>>, <<"lost", c>>} :
             \E ls : world' = Happened(world, e, ls, no) \/ world' = Happened(world, e, ls, yes)
        \/ world' = [world EXCEPT ![c[2]].moving = no]
    BY <1>9, <2>1 DEF Fire, Overrun
  <2>3. CASE world' = [world EXCEPT ![c[2]].moving = no]
    <3>1. ASSUME NEW l \in Leaf
          PROVE  /\ world'[l].last = world[l].last /\ world'[l].moving \in {world[l].moving, no}
                 /\ world'[l].due = world[l].due /\ world'[l].origin = world[l].origin
                 /\ world'[l].base = world[l].base
      BY <1>1, <2>3 DEF WellKept
    <3> QED
      BY <1>1, <2>1, <3>1 DEF Dated
  <2>4. ASSUME NEW e \in {<<"stop", c>>, <<"lost", c>>}, NEW ls, NEW moving \in BOOLEAN,
               world' = Happened(world, e, ls, moving)
        PROVE  Dated(world', Event')
    <3>1. e \in Event'
      BY <1>3, <2>4
    <3> QED
      BY <1>1, <2>4, <3>1, HappenedDated
  <2> QED
    BY <1>2, <2>2, <2>3, <2>4
<1>10. ASSUME NEW l \in Leaf, Complete(l)
       PROVE  Dated(world', Event')
  <2>1. PICK still \in BOOLEAN : still = (world[l].moving /\ world[l].last # leaf[l].motion.by)
    OBVIOUS
  <2>2. PICK origin : /\ origin = (IF leaf[l].motion.absolute THEN {} ELSE world[l].origin)
                      /\ origin \subseteq Event'
    BY <1>1 DEF Dated
  <2>3. world' = [world EXCEPT ![l].moving = still, ![l].origin = origin]
    BY <1>10, <2>1, <2>2 DEF Complete
  <2>4. ASSUME NEW k \in Leaf
        PROVE  /\ world'[k].last = world[k].last /\ world'[k].moving \in {world[k].moving, still}
               /\ world'[k].due = world[k].due /\ world'[k].origin \in {world[k].origin, origin}
               /\ world'[k].base = world[k].base
    BY <1>1, <2>3 DEF WellKept
  <2> QED
    BY <1>1, <2>2, <2>4 DEF Dated
<1>11. ASSUME NEW l \in Leaf, Restore(l)
       PROVE  Dated(world', Event')
  <2>1. UNCHANGED world \/ world' = [world EXCEPT ![l].due = world[l].base, ![l].origin = {}]
    BY <1>11 DEF Restore
  <2>2. ASSUME NEW k \in Leaf, world' = [world EXCEPT ![l].due = world[l].base, ![l].origin = {}]
        PROVE  /\ world'[k].last = world[k].last /\ world'[k].moving = world[k].moving
               /\ world'[k].due \in {world[k].due, world[l].base} /\ world'[k].origin \in {world[k].origin, {}}
               /\ world'[k].base = world[k].base
    BY <1>1, <2>2 DEF WellKept
  <2>3. CASE world' = [world EXCEPT ![l].due = world[l].base, ![l].origin = {}]
    BY <1>1, <2>2, <2>3 DEF Dated
  <2> QED
    BY <1>2, <2>1, <2>3
<1>12. ASSUME NEW how, Reload(how)
       PROVE  Dated(world', Event')
  <2>1. world' = [l \in Leaf |-> IF stage[l] = "added" THEN [world[l] EXCEPT !.base = world[l].due \cup world[l].origin]
                                 ELSE world[l]]
    BY <1>12 DEF Reload
  <2>2. ASSUME NEW k \in Leaf
        PROVE  /\ world'[k].last = world[k].last /\ world'[k].moving = world[k].moving
               /\ world'[k].due = world[k].due /\ world'[k].origin = world[k].origin
               /\ world'[k].base \in {world[k].base, world[k].due \cup world[k].origin}
    BY <1>1, <2>1 DEF WellKept
  <2> QED
    BY <1>1, <2>2 DEF Dated
<1>13. ASSUME NEW x, Call(x) \/ Begin(x) \/ Cancel(x) \/ Timeout(x)
       PROVE  UNCHANGED world
  BY <1>13 DEF Call, Begin, Cancel, Timeout, history
<1>14. ASSUME NEW x, TrainEnds(x) \/ Bury(x) \/ Lapse(x) \/ TimedOut(x) \/ Expire(x) \/ Register(x) \/ AddFails(x)
       PROVE  UNCHANGED world
  BY <1>14 DEF TrainEnds, Bury, Lapse, TimedOut, Expire, Register, AddFails, history
<1>15. CASE Drop \/ Return \/ UNCHANGED vars
  <2>1. UNCHANGED world
    BY <1>15 DEF Drop, Return, vars, history
  <2> QED
    BY <1>2, <2>1
<1> QED
  BY <1>2, <1>4, <1>5, <1>6, <1>7, <1>8, <1>9, <1>10, <1>11, <1>12, <1>13, <1>14, <1>15 DEF Next

\* What is forgiven is an event and a leaf.
LEMMA DeedsAre ==
  ASSUME NEW c \in Command, NEW kinds \in SUBSET {"air", "stop", "lost"}
  PROVE  Deeds(c, kinds) \subseteq Event \X Leaf
<1>1. kinds \X {c} \subseteq Event
  BY DEF Event
<1> QED
  BY <1>1 DEF Deeds

LEMMA AllDeedsAre ==
  ASSUME NEW cs \in SUBSET Command
  PROVE  AllDeeds(cs) \subseteq Event \X Leaf
  BY DeedsAre DEF AllDeeds

LEMMA SomeDeedsAre ==
  ASSUME NEW cs \in SUBSET Command, NEW kinds \in SUBSET {"air", "stop", "lost"}
  PROVE  UNION {Deeds(c, kinds) : c \in cs} \subseteq Event \X Leaf
  BY DeedsAre

LEMMA LosingSight ==
  ASSUME forgiven \subseteq Event \X Leaf, NEW ts, LoseSight(ts)
  PROVE  forgiven' \subseteq Event \X Leaf
<1>1. Published(ts) \subseteq Command
  BY DEF Published
<1>2. UNION {Deeds(c, {"stop", "lost"}) : c \in Published(ts)} \subseteq Event \X Leaf
  BY <1>1, SomeDeedsAre
<1> QED
  BY <1>2 DEF LoseSight

LEMMA ClosedForgives ==
  ASSUME forgiven \subseteq Event \X Leaf, NEW c \in Command, NEW taken, Closed(c, taken)
  PROVE  forgiven' \subseteq Event \X Leaf
<1>1. \E S : forgiven' = forgiven \cup (AllDeeds({c}) \cap S)
  BY DEF Closed
<1>2. AllDeeds({c}) \subseteq Event \X Leaf
  BY AllDeedsAre
<1> QED
  BY <1>1, <1>2

LEMMA NextForgives ==
  ASSUME Typed, Dated(world, Event), forgiven \subseteq Event \X Leaf, [Next]_vars
  PROVE  forgiven' \subseteq Event \X Leaf
<1>1. CASE UNCHANGED forgiven
  BY <1>1
<1>2. ASSUME NEW x, Call(x) \/ Cancel(x)
      PROVE  forgiven' \subseteq Event \X Leaf
  <2>1. \E ts : LoseSight(ts)
    BY <1>2 DEF Call, Cancel
  <2> QED
    BY <2>1, LosingSight
<1>3. CASE Resume
  <2>1. PICK c : c = Head(acks) /\ c \in Command
    BY <1>3, ResumeTyped
  <2>2. UNCHANGED forgiven \/ forgiven' = forgiven \cup Outdated(TaskOf(c))
    BY <1>3, <2>1 DEF Resume, history
  <2>3. Outdated(TaskOf(c)) \subseteq Event \X Leaf
    BY DEF Outdated, Latecomers, Members, Dated
  <2> QED
    BY <2>2, <2>3
<1>4. ASSUME NEW c \in Command, Timeout(c)
      PROVE  forgiven' \subseteq Event \X Leaf
  BY <1>4, DeedsAre DEF Timeout
<1>5. ASSUME NEW b, NEW S, Press(b, S)
      PROVE  forgiven' \subseteq Event \X Leaf
  <2>1. Targets(b, S) \subseteq Command /\ Outranked \subseteq Command
    BY DEF Targets, LedgerLive, Outranked
  <2>2. \E unowned \in SUBSET Command :
          forgiven' = forgiven \cup AllDeeds(Outranked) \cup UNION {Deeds(c, {"stop"}) : c \in unowned}
    BY <1>5, <2>1 DEF Press
  <2>3. PICK unowned \in SUBSET Command :
          forgiven' = forgiven \cup AllDeeds(Outranked) \cup UNION {Deeds(c, {"stop"}) : c \in unowned}
    BY <2>2
  <2>4. UNION {Deeds(c, {"stop"}) : c \in unowned} \subseteq Event \X Leaf
    BY SomeDeedsAre
  <2>5. AllDeeds(Outranked) \subseteq Event \X Leaf
    BY <2>1, AllDeedsAre
  <2> QED
    BY <2>3, <2>4, <2>5
<1>6. CASE Deliver
  <2>1. PICK s : s = Head(inbox) /\ s \in Status
    BY <1>6, TailKeeps DEF Deliver, Typed
  <2>2. s[1] \in {"displaced", "disarmed", "late"} => s[2] \in Command
    BY <2>1 DEF Status
  <2>3. \/ UNCHANGED forgiven
        \/ s[2] \in Command /\ \E taken : Closed(s[2], taken)
    BY <1>6, <2>1, <2>2 DEF Deliver, StartedStatus, DisplacedStatus, DisarmedStatus, Announced, history
  <2> QED
    BY <2>3, ClosedForgives
<1>7. ASSUME NEW c \in Command, TimedOut(c)
      PROVE  forgiven' \subseteq Event \X Leaf
  <2>1. \E taken : Closed(c, taken)
    BY <1>7 DEF TimedOut
  <2> QED
    BY <2>1, ClosedForgives
<1>8. ASSUME NEW how, Reload(how)
      PROVE  UNCHANGED forgiven
  BY <1>8 DEF Reload
<1>9. ASSUME NEW l \in Leaf, AddFails(l)
      PROVE  forgiven' \subseteq Event \X Leaf
  <2>1. \/ forgiven' = forgiven
        \/ forgiven' = forgiven \cup ((world[l].base \cup {world[l].last}) \X {l})
    BY <1>9 DEF AddFails
  <2>2. (world[l].base \cup {world[l].last}) \X {l} \subseteq Event \X Leaf
    BY DEF Dated
  <2> QED
    BY <2>1, <2>2
<1>10. ASSUME NEW x, Begin(x) \/ Send(x) \/ Expire(x) \/ Register(x) \/ Complete(x) \/ Restore(x)
       PROVE  UNCHANGED forgiven
  BY <1>10 DEF Begin, Send, Expire, Register, Complete, Restore, history
<1>11. ASSUME NEW c, Air(c) \/ Fire(c) \/ TrainEnds(c) \/ Overrun(c) \/ Bury(c) \/ Lapse(c)
       PROVE  UNCHANGED forgiven
  BY <1>11 DEF Air, Fire, TrainEnds, Overrun, Bury, Lapse, history
<1>12. CASE Drop \/ Return \/ UNCHANGED vars
  <2>1. UNCHANGED forgiven
    BY <1>12 DEF Drop, Return, vars, history
  <2> QED
    BY <1>1, <2>1
<1> QED
  BY <1>1, <1>2, <1>3, <1>4, <1>5, <1>6, <1>7, <1>8, <1>9, <1>10, <1>11, <1>12 DEF Next

\* What is orphaned is an event and a leaf.
LEMMA ClosedOrphans ==
  ASSUME orphaned \subseteq Event \X Leaf, NEW c \in Command, NEW taken, Closed(c, taken)
  PROVE  orphaned' \subseteq Event \X Leaf
<1>1. \E S : orphaned' = orphaned \cup (AllDeeds({c}) \cap S)
  BY DEF Closed
<1>2. AllDeeds({c}) \subseteq Event \X Leaf
  BY AllDeedsAre
<1> QED
  BY <1>1, <1>2

LEMMA NextOrphans ==
  ASSUME Typed, orphaned \subseteq Event \X Leaf, [Next]_vars
  PROVE  orphaned' \subseteq Event \X Leaf
<1>1. CASE UNCHANGED orphaned
  BY <1>1
<1>2. CASE Resume
  <2>1. PICK c : c = Head(acks) /\ c \in Command
    BY <1>2, ResumeTyped
  <2>2. \/ UNCHANGED orphaned
        \/ \E S : orphaned' = orphaned \cup (AllDeeds({c}) \cap S)
    BY <1>2, <2>1 DEF Resume, history
  <2>3. AllDeeds({c}) \subseteq Event \X Leaf
    BY <2>1, AllDeedsAre
  <2> QED
    BY <2>2, <2>3
<1>3. CASE Deliver
  <2>1. PICK s : s = Head(inbox) /\ s \in Status
    BY <1>3, TailKeeps DEF Deliver, Typed
  <2>2. s[1] \in {"displaced", "disarmed", "late"} => s[2] \in Command
    BY <2>1 DEF Status
  <2>3. \/ UNCHANGED orphaned
        \/ s[2] \in Command /\ \E taken : Closed(s[2], taken)
    BY <1>3, <2>1, <2>2 DEF Deliver, StartedStatus, DisplacedStatus, DisarmedStatus, Announced, history
  <2> QED
    BY <2>3, ClosedOrphans
<1>4. ASSUME NEW c \in Command, TimedOut(c)
      PROVE  orphaned' \subseteq Event \X Leaf
  <2>1. \E taken : Closed(c, taken)
    BY <1>4 DEF TimedOut
  <2> QED
    BY <2>1, ClosedOrphans
<1>5. ASSUME NEW how, Reload(how)
      PROVE  orphaned' \subseteq Event \X Leaf
  <2>1. \/ \E cs \in SUBSET Command : orphaned' = orphaned \cup AllDeeds(cs)
        \/ \E cs \in SUBSET Command, ds \in SUBSET Command :
             orphaned' = orphaned \cup AllDeeds(cs) \cup UNION {Deeds(c, {"stop"}) : c \in ds}
    BY <1>5 DEF Reload
  <2>2. \A ds \in SUBSET Command : UNION {Deeds(c, {"stop"}) : c \in ds} \subseteq Event \X Leaf
    BY SomeDeedsAre
  <2>3. \A cs \in SUBSET Command : AllDeeds(cs) \subseteq Event \X Leaf
    BY AllDeedsAre
  <2> QED
    BY <2>1, <2>2, <2>3
<1>6. ASSUME NEW l \in Leaf, AddFails(l)
      PROVE  orphaned' \subseteq Event \X Leaf
  <2>1. PICK cs \in SUBSET Command : cs = {c \in Command : c[2] = l /\ Pending(TaskOf(c))}
    OBVIOUS
  <2>2. orphaned' = orphaned \/ orphaned' = orphaned \cup AllDeeds(cs)
    BY <1>6, <2>1 DEF AddFails
  <2> QED
    BY <2>2, AllDeedsAre
<1>7. ASSUME NEW x, Call(x) \/ Cancel(x) \/ Timeout(x) \/ Begin(x) \/ Send(x) \/ Expire(x)
      PROVE  UNCHANGED orphaned
  BY <1>7 DEF Call, Cancel, Timeout, Begin, Send, Expire, history
<1>8. ASSUME NEW x, Register(x) \/ Complete(x) \/ Restore(x)
      PROVE  UNCHANGED orphaned
  BY <1>8 DEF Register, Complete, Restore, history
<1>9. ASSUME NEW c, Air(c) \/ Fire(c) \/ TrainEnds(c) \/ Overrun(c) \/ Bury(c) \/ Lapse(c)
      PROVE  UNCHANGED orphaned
  BY <1>9 DEF Air, Fire, TrainEnds, Overrun, Bury, Lapse, history
<1>10. ASSUME NEW b, NEW S, Press(b, S)
       PROVE  UNCHANGED orphaned
  BY <1>10 DEF Press
<1>11. CASE Drop \/ Return \/ UNCHANGED vars
  <2>1. UNCHANGED orphaned
    BY <1>11 DEF Drop, Return, vars, history
  <2> QED
    BY <1>1, <2>1
<1> QED
  BY <1>1, <1>2, <1>3, <1>4, <1>5, <1>6, <1>7, <1>8, <1>9, <1>10, <1>11 DEF Next

----------------------------------------------------------------------------
(* The values of the variables: the models. *)

Graded(models, E) == \A l \in Leaf : Rated(models[l], E)

LEMMA InvalidGraded ==
  ASSUME NEW E, NoEvent \in E, Graded(leaf, E), NEW ls
  PROVE  Graded(Invalid(leaf, ls), E)
  BY InvalidLeaves, BlankRated DEF Graded

LEMMA DisownedGraded ==
  ASSUME NEW E, NoEvent \in E, Graded(leaf, E), NEW ls, Disowned(ls)
  PROVE  Graded(leaf', E)
  BY InvalidGraded DEF Disowned

LEMMA LostGraded ==
  ASSUME NEW E, NoEvent \in E, Graded(leaf, E), NEW t, Lost(t)
  PROVE  Graded(leaf', E)
<1>1. UNCHANGED leaf \/ \E ls : leaf' = Invalid(leaf, ls)
  BY DEF Lost, Recorded, Disowned
<1> QED
  BY <1>1, InvalidGraded

LEMMA CommitGraded ==
  ASSUME Known, NEW E, NoEvent \in E, Graded(leaf, E), NEW c, <<"air", c>> \in E, NEW ls, Commit(c, ls)
  PROVE  Graded(leaf', E)
<1> DEFINE by == <<"air", c>>
           motion == IF Timed(c) THEN PartTravel(button[c], by) ELSE FullTravel(button[c], by)
           of(l) == IF button[c] = "STOP" THEN Stopped(leaf[l], "commanded", registry)
                    ELSE Committed(leaf[l], motion, registry, c \in displaced)
           values == [l \in Leaf |-> IF l \in ls THEN of(l) ELSE {leaf[l]}]
<1>1. leaf' \in Outcomes(values)
  BY DEF Commit
<1>2. DOMAIN leaf' = Leaf /\ \A l \in Leaf : leaf'[l] \in values[l]
  BY <1>1, OutcomesChosen
<1>3. Caused(motion, E)
  BY DEF Caused
<1>4. ASSUME NEW l \in Leaf
      PROVE  Rated(leaf'[l], E)
  <2>1. Rated(leaf[l], E) /\ Sound(leaf[l])
    BY DEF Graded, Known
  <2>2. CASE l \notin ls
    BY <1>2, <2>1, <2>2
  <2>3. CASE l \in ls
    <3>1. leaf'[l] \in of(l)
      BY <1>2, <2>3
    <3> HIDE DEF motion
    <3> QED
      BY <1>3, <2>1, <3>1, StoppedRated, CommittedRated
  <2> QED
    BY <2>2, <2>3
<1> QED
  BY <1>4 DEF Graded

LEMMA PressGraded ==
  ASSUME Known, NEW E, NoEvent \in E, Graded(leaf, E), <<"press", presses + 1>> \in E,
         NEW b, NEW S, Press(b, S)
  PROVE  Graded(leaf', E)
<1> DEFINE e == <<"press", presses + 1>>
           listeners == {x \in Addressed(S) : Registered(x)}
           targets == IF listeners = {} THEN {} ELSE Targets(b, S)
           taken == UNION {Taken(c, Merged(c, b, S), "none", FALSE) : c \in targets}
           models == Invalid(leaf, taken \cap Leaf)
           mine == listeners \cap Leaf
           values == [l \in Leaf |->
                        IF l \in mine THEN Heard(models[l], b, Chan[l] \subseteq S, e, registry)
                        ELSE {models[l]}]
<1>1. leaf' \in Outcomes(values)
  BY DEF Press
<1>2. DOMAIN leaf' = Leaf /\ \A l \in Leaf : leaf'[l] \in values[l]
  BY <1>1, OutcomesChosen
<1>3. Graded(models, E) /\ \A l \in Leaf : models[l] \in {leaf[l], Blank}
  BY InvalidLeaves, InvalidGraded
<1> HIDE DEF taken, targets, models, mine
<1>4. ASSUME NEW l \in Leaf
      PROVE  Rated(leaf'[l], E)
  <2>1. Rated(models[l], E) /\ Sound(models[l])
    BY <1>3, BlankSound DEF Graded, Known
  <2>2. CASE l \notin mine
    BY <1>2, <2>1, <2>2
  <2>3. CASE l \in mine
    <3>1. leaf'[l] \in Heard(models[l], b, Chan[l] \subseteq S, e, registry)
      BY <1>2, <2>3
    <3> HIDE DEF e
    <3>2. e \in E
      BY DEF e
    <3> QED
      BY <2>1, <3>1, <3>2, HeardRated
  <2> QED
    BY <2>2, <2>3
<1> QED
  BY <1>4 DEF Graded

LEMMA DisplacedGraded ==
  ASSUME Known, NEW E, NoEvent \in E, Graded(leaf, E), NEW c, DisplacedStatus(c)
  PROVE  Graded(leaf', E)
<1> DEFINE flushed == entry[c] \in {"started", "confirmed"} /\ Timed(c)
           taken == IF req[c].open THEN Taken(c, req[c], "displaced", flushed) ELSE {}
           models == Invalid(leaf, taken \cap Leaf)
           mine == {l \in Live : models[l].motion.by = <<"air", c>> /\ models[l].motion.timed}
           values == [l \in Leaf |-> IF l \in mine THEN Frozen(models[l], c) ELSE {models[l]}]
<1>1. leaf' \in Outcomes(values)
  BY DEF DisplacedStatus
<1>2. DOMAIN leaf' = Leaf /\ \A l \in Leaf : leaf'[l] \in values[l]
  BY <1>1, OutcomesChosen
<1>3. Graded(models, E) /\ \A l \in Leaf : models[l] \in {leaf[l], Blank}
  BY InvalidLeaves, InvalidGraded
<1> HIDE DEF taken, models, mine
<1>4. ASSUME NEW l \in Leaf
      PROVE  Rated(leaf'[l], E)
  <2>1. Rated(models[l], E) /\ Sound(models[l])
    BY <1>3, BlankSound DEF Graded, Known
  <2>2. leaf'[l] = models[l] \/ leaf'[l] \in Interrupted(models[l])
    BY <1>2 DEF Frozen
  <2> QED
    BY <2>1, <2>2, InterruptedRated
<1> QED
  BY <1>4 DEF Graded

LEMMA DeliverGraded ==
  ASSUME Known, NEW E, NoEvent \in E, Graded(leaf, E), Deliver
  PROVE  Graded(leaf', E)
<1>1. \/ UNCHANGED leaf
      \/ \E c : DisplacedStatus(c)
      \/ \E ls : leaf' = Invalid(leaf, ls)
      \/ \E status : Announced(status)
  BY DEF Deliver, StartedStatus, DisarmedStatus
<1>2. ASSUME NEW status, Announced(status)
      PROVE  Graded(leaf', E)
  <2>1. \A l \in Leaf : leaf'[l] = leaf[l] \/ leaf'[l] = BridgeChanged(leaf[l], status)
    BY <1>2 DEF Announced
  <2> QED
    BY <2>1, BridgeChangedRated DEF Graded, Known
<1> QED
  BY <1>1, <1>2, DisplacedGraded, InvalidGraded

LEMMA NextGraded ==
  ASSUME Known, Typed, Counted, Graded(leaf, Event), Graded(snap, Event), Event \subseteq Event', [Next]_vars
  PROVE  Graded(leaf', Event') /\ Graded(snap', Event')
<1>1. /\ Graded(leaf, Event') /\ Graded(snap, Event') /\ NoEvent \in Event'
      /\ \A c \in Command : <<"air", c>> \in Event'
  BY EventsKnown DEF Graded, Rated
<1>2. CASE UNCHANGED <<leaf, snap>>
  BY <1>1, <1>2
<1>3. ASSUME UNCHANGED snap, Graded(leaf', Event')
      PROVE  Graded(leaf', Event') /\ Graded(snap', Event')
  BY <1>1, <1>3
<1>4. ASSUME NEW x, Call(x) \/ Cancel(x) \/ Timeout(x) \/ TimedOut(x)
      PROVE  Graded(leaf', Event') /\ Graded(snap', Event')
  <2>1. UNCHANGED snap
    BY <1>4 DEF Call, Cancel, Timeout, TimedOut
  <2>2. \/ UNCHANGED leaf \/ (\E t : Lost(t)) \/ (\E ls : Disowned(ls))
        \/ \E ls : leaf' = Invalid(leaf, ls)
    BY <1>4 DEF Call, Cancel, Timeout, TimedOut, Dropped
  <2> QED
    BY <1>1, <2>1, <2>2, LostGraded, DisownedGraded, InvalidGraded
<1>5. CASE Resume
  <2>1. UNCHANGED snap
    BY <1>5 DEF Resume
  <2>2. PICK c : c = Head(acks) /\ c \in Command
    BY <1>5, ResumeTyped
  <2>3. UNCHANGED leaf \/ \E ls : Commit(c, ls)
    BY <1>5, <2>2 DEF Resume
  <2> QED
    BY <1>1, <2>1, <2>2, <2>3, CommitGraded
<1>6. CASE Deliver
  <2>1. UNCHANGED snap
    BY <1>6 DEF Deliver
  <2> QED
    BY <1>1, <1>6, <2>1, DeliverGraded
<1>7. ASSUME NEW b, NEW S, Press(b, S)
      PROVE  Graded(leaf', Event') /\ Graded(snap', Event')
  <2>1. UNCHANGED snap
    BY <1>7 DEF Press
  <2> QED
    BY <1>1, <1>7, <2>1, PressGraded, PressIsEvent
<1>8. ASSUME NEW l \in Leaf, Complete(l)
      PROVE  Graded(leaf', Event') /\ Graded(snap', Event')
  <2>1. UNCHANGED snap /\ Moving(leaf[l]) /\ leaf' = [leaf EXCEPT ![l] = Completed(leaf[l], registry)]
    BY <1>8 DEF Complete
  <2>2. Rated(Completed(leaf[l], registry), Event')
    BY <1>1, <2>1, CompletedRated DEF Graded, Known
  <2> QED
    BY <1>1, <2>1, <2>2 DEF Graded, Known
<1>9. ASSUME NEW how, Reload(how)
      PROVE  Graded(leaf', Event') /\ Graded(snap', Event')
  <2>1. /\ snap' = [l \in Leaf |-> IF stage[l] = "added" THEN Persisted(leaf[l]) ELSE snap[l]]
        /\ leaf' = [l \in Leaf |-> Blank]
    BY <1>9 DEF Reload
  <2>2. \A l \in Leaf : Rated(Persisted(leaf[l]), Event')
    BY <1>1, PersistedRated DEF Graded, Known
  <2> QED
    BY <1>1, <2>1, <2>2, BlankRated DEF Graded
<1>10. ASSUME NEW l \in Leaf, Restore(l) \/ AddFails(l)
       PROVE  Graded(leaf', Event') /\ Graded(snap', Event')
  <2>1. UNCHANGED snap
    BY <1>10 DEF Restore, AddFails
  <2>2. \/ UNCHANGED leaf \/ leaf' = [leaf EXCEPT ![l] = Blank]
        \/ \E known, elapsed : \E f \in Restored(snap[l], registry, known, elapsed) :
             leaf' = [leaf EXCEPT ![l] = f]
    BY <1>10 DEF Restore, AddFails, MarkUnknown
  <2>3. ASSUME NEW f, Rated(f, Event'), leaf' = [leaf EXCEPT ![l] = f]
        PROVE  Graded(leaf', Event')
    BY <1>1, <2>3 DEF Graded, Known
  <2>4. \A known, elapsed : \A f \in Restored(snap[l], registry, known, elapsed) : Rated(f, Event')
    BY <1>1, RestoredRated DEF Graded, Known
  <2>5. Rated(Blank, Event')
    BY <1>1, BlankRated
  <2> QED
    BY <1>1, <2>1, <2>2, <2>3, <2>4, <2>5
<1>11. ASSUME NEW x, Begin(x) \/ Send(x) \/ Expire(x) \/ Register(x)
       PROVE  UNCHANGED <<leaf, snap>>
  BY <1>11 DEF Begin, Send, Expire, Register, entities
<1>12. ASSUME NEW c, Air(c) \/ Fire(c) \/ TrainEnds(c) \/ Overrun(c) \/ Bury(c) \/ Lapse(c)
       PROVE  UNCHANGED <<leaf, snap>>
  BY <1>12 DEF Air, Fire, TrainEnds, Overrun, Bury, Lapse, entities
<1>13. CASE Drop \/ Return \/ UNCHANGED vars
  <2>1. UNCHANGED <<leaf, snap>>
    BY <1>13 DEF Drop, Return, vars, entities
  <2> QED
    BY <1>2, <2>1
<1> QED
  BY <1>2, <1>4, <1>5, <1>6, <1>7, <1>8, <1>9, <1>10, <1>11, <1>12, <1>13 DEF Next

----------------------------------------------------------------------------
(* Types. *)

Valued ==
  /\ Counted /\ Remembered /\ Grounded /\ Grouped /\ Staged
  /\ Dated(world, Event)
  /\ forgiven \subseteq Event \X Leaf /\ orphaned \subseteq Event \X Leaf
  /\ Graded(leaf, Event) /\ Graded(snap, Event)

LEMMA NextValued ==
  ASSUME Known, Shaped, Typed, Valued, [Next]_vars
  PROVE  Valued'
<1>1. Counted' /\ Event \subseteq Event'
  BY NextCounted DEF Valued
<1>2. Remembered' /\ Grounded' /\ Staged'
  BY NextRemembered, NextGrounded, NextStaged DEF Valued
<1>3. Grouped'
  BY <1>1, NextGrouped DEF Valued
<1>4. Dated(world', Event')
  BY <1>1, NextDated DEF Valued
<1>5. forgiven' \subseteq Event' \X Leaf /\ orphaned' \subseteq Event' \X Leaf
  BY <1>1, NextForgives, NextOrphans DEF Valued
<1>6. Graded(leaf', Event') /\ Graded(snap', Event')
  BY <1>1, NextGraded DEF Valued
<1> QED
  BY <1>1, <1>2, <1>3, <1>4, <1>5, <1>6 DEF Valued

LEMMA InitValued ==
  ASSUME Init
  PROVE  Valued
<1>1. Counted /\ cast.start \in Position
  BY FamilyAssumption DEF Init, Counted
<1>2. Remembered
  BY DEF Init, Remembered
<1>3. Grounded
  BY NoRequestGrounded DEF Init, Grounded
<1>4. Grouped /\ Staged
  BY EventsKnown DEF Init, Grouped, Staged
<1>5. Dated(world, Event) /\ forgiven = {} /\ orphaned = {}
  BY EventsKnown DEF Init, Dated
<1>6. ASSUME NEW l \in Leaf
      PROVE  Rated(leaf[l], Event) /\ Rated(snap[l], Event)
  <2>1. PICK f : f = [Blank EXCEPT !.pos = cast.start]
    OBVIOUS
  <2>2. f.pos = cast.start /\ f.motion = NoMotion /\ f.anchor = NoEvent
    BY <2>1 DEF Blank
  <2>3. Rated(f, Event)
    BY <1>1, <2>2, EventsKnown DEF Rated, NoMotion, Moving, Position, Unknown
  <2> QED
    BY <2>1, <2>3 DEF Init
<1> QED
  BY <1>1, <1>2, <1>3, <1>4, <1>5, <1>6 DEF Valued, Graded

\* Every variable keeps to its values, for any topology, calls and casts: what
\* drives a model, what it rests on and what the history holds are events of the
\* cast's commands and of the presses so far; an unknown position is not
\* anchored, and whatever moves has an end to go to.
THEOREM TypeCorrect == Spec => []TypeOK
<1> DEFINE IInv == Marked /\ Shaped /\ overtaken \subseteq Adding /\ Sequenced /\ Valued
<1>1. Init => IInv
  BY InitHeedful, InitValued
<1>2. Known /\ IInv /\ [Next]_vars => IInv'
  <2>1. SUFFICES ASSUME Known, IInv, [Next]_vars PROVE IInv'
    OBVIOUS
  <2>2. Marked'
    BY <2>1, NextHeeds DEF Heeded, Marked
  <2>3. Shaped' /\ (overtaken \subseteq Adding)' /\ Sequenced'
    BY <2>1, NextShaped, NextOvertakes, NextSequenced
  <2>4. Valued'
    BY <2>1, NextValued DEF Sequenced
  <2> QED
    BY <2>2, <2>3, <2>4
<1>3. Known /\ IInv => TypeOK
  <2>1. SUFFICES ASSUME Known, IInv PROVE TypeOK
    OBVIOUS
  <2>2. ASSUME NEW l \in Leaf, NEW f \in {leaf[l], snap[l]}
        PROVE  /\ f.pos \in Position
               /\ f.motion.by \in Event /\ f.anchor \in Event
               /\ Moving(f) => f.motion.dir \in {"up", "down"} /\ f.motion.target \in Position \ {Unknown}
               /\ f.pos = Unknown => ~f.anchored
    <3>1. Rated(f, Event) /\ Sound(f)
      BY <2>1, <2>2 DEF Valued, Graded, Known
    <3> QED
      BY <3>1 DEF Rated, Sound
  <2>3. overtaken \in SUBSET Leaf /\ mark \in SUBSET Leaf
    BY <2>1 DEF Marked, Adding
  <2>4. pc \in [Task -> {"idle", "lock", "stop", "move", "done"}] /\ Range(queue) \cup Range(acks) \subseteq Command
    BY <2>1 DEF Sequenced, Typed, Range
  <2> QED
    BY <2>1, <2>2, <2>3, <2>4
       DEF TypeOK, Valued, Counted, Remembered, Grounded, Grouped, Staged, Dated
<1> QED
  BY <1>1, <1>2, <1>3, ModelsAreSound, PTL DEF Spec
=============================================================================
