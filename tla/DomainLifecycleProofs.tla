----------------------- MODULE DomainLifecycleProofs -----------------------
(***************************************************************************)
(* What is proved of DomainLifecycle for any finite set of entries, any    *)
(* number of runtimes, topics and disarm requests: who uses a runtime, that *)
(* it is subscribed once, that none is left behind, and that a disarm       *)
(* request is never cut short by a set-up or an unload.                     *)
(***************************************************************************)
EXTENDS DomainLifecycle, FiniteSetTheorems, TLAPS

USE EntriesAssumption, BoundsAssumption

----------------------------------------------------------------------------
(* The inductive invariant.  The four properties are not inductive on their *)
(* own: setup_users is a number, and what it counts has to be said.         *)

\* The calls that setup_users counts.
Callers(r) == {e \in Entries : pc[e] \in SettingUp /\ runtime[e] = r}

Counted == \A r \in Runtimes : users[r] = Cardinality(Callers(r))

\* What a call may rely on at its place.
Phases ==
    \A e \in Entries :
        /\ pc[e] \in SettingUp \cup Unloading => runtime[e] \in Runtimes
        /\ pc[e] = "subscribing" => ~initialized[runtime[e]]
        /\ pc[e] = "forwarding" => initialized[runtime[e]]
        /\ pc[e] \in Unloading => e \in loaded[runtime[e]]
        /\ pc[e] \in SettingUp => \A r \in Runtimes : e \notin loaded[r]

\* Requests belong to an initialised runtime, the callback to requests, and
\* the runtimes not yet made are untouched.
Quiet ==
    /\ current <= made
    /\ \A r \in Runtimes :
        /\ disarms[r] > 0 => initialized[r]
        /\ armed[r] => disarms[r] > 0
        /\ r > made => ~closed[r]

IInv ==
    /\ TypeOK
    /\ NoDeadRuntime
    /\ SubscribedOnce
    /\ NoOrphan
    /\ Counted
    /\ Phases
    /\ Quiet

----------------------------------------------------------------------------
(* Counting. *)

LEMMA CallersFinite ==
  ASSUME NEW r
  PROVE  IsFiniteSet(Callers(r))
  BY FS_Subset DEF Callers

\* setup_users is zero exactly when no call is setting up.
LEMMA NobodyLeft ==
  ASSUME Counted, NEW r \in Runtimes
  PROVE  /\ users[r] \in Nat
         /\ users[r] = 0 <=> \A e \in Entries : ~(pc[e] \in SettingUp /\ runtime[e] = r)
<1>1. users[r] = Cardinality(Callers(r))
  BY DEF Counted
<1>2. users[r] = 0 <=> Callers(r) = {}
  BY <1>1, CallersFinite, FS_EmptySet
<1>3. users[r] \in Nat
  BY <1>1, CallersFinite, FS_CardinalityType
<1> QED
  BY <1>2, <1>3 DEF Callers

\* The same of the state after a step: nobody counted, nobody there.
LEMMA NoCallers ==
  ASSUME Counted', NEW q \in Runtimes, users'[q] = 0
  PROVE  Callers(q)' = {}
<1>1. IsFiniteSet(Callers(q)')
  BY FS_Subset DEF Callers
<1>2. Cardinality(Callers(q)') = 0
  BY DEF Counted
<1> QED
  BY <1>1, <1>2, FS_EmptySet

\* A step that moves no call into or out of a set-up keeps the count.
LEMMA SameCallers ==
  ASSUME Counted, users' = users,
         \A e \in Entries, r \in Runtimes :
            pc'[e] \in SettingUp /\ runtime'[e] = r <=> pc[e] \in SettingUp /\ runtime[e] = r
  PROVE  Counted'
<1>1. \A r \in Runtimes : Callers(r)' = Callers(r)
  BY DEF Callers
<1> QED
  BY <1>1 DEF Counted

\* One call begins its set-up on r.
LEMMA OneMore ==
  ASSUME Counted, NEW e \in Entries, NEW r \in Runtimes, pc \in [Entries -> Places],
         runtime \in [Entries -> Runtimes \cup {None}], users \in [Runtimes -> Nat],
         pc[e] \notin SettingUp,
         users' = [users EXCEPT ![r] = @ + 1],
         runtime' = [runtime EXCEPT ![e] = r],
         pc' = [pc EXCEPT ![e] = "awaiting_lock"]
  PROVE  Counted'
<1>1. Callers(r)' = Callers(r) \cup {e} /\ e \notin Callers(r)
  BY DEF Callers, SettingUp
<1>2. \A q \in Runtimes \ {r} : Callers(q)' = Callers(q)
  BY DEF Callers, SettingUp
<1>3. Cardinality(Callers(r)') = Cardinality(Callers(r)) + 1
  BY <1>1, CallersFinite, FS_AddElement
<1> QED
  BY <1>1, <1>2, <1>3 DEF Counted

\* One call leaves its set-up of r.
LEMMA OneLess ==
  ASSUME Counted, NEW e \in Entries, NEW r \in Runtimes, pc \in [Entries -> Places],
         users \in [Runtimes -> Nat],
         pc[e] \in SettingUp, runtime[e] = r,
         users' = [users EXCEPT ![r] = @ - 1],
         runtime' = runtime,
         pc' = [pc EXCEPT ![e] = "idle"]
  PROVE  Counted'
<1>1. Callers(r)' = Callers(r) \ {e} /\ e \in Callers(r)
  BY DEF Callers, SettingUp
<1>2. \A q \in Runtimes \ {r} : Callers(q)' = Callers(q)
  BY DEF Callers, SettingUp
<1>3. Cardinality(Callers(r)') = Cardinality(Callers(r)) - 1
  <2>1. PICK C : C = Callers(r)
    OBVIOUS
  <2>2. IsFiniteSet(C) /\ e \in C
    BY <1>1, <2>1, CallersFinite
  <2>3. Cardinality(C \ {e}) = Cardinality(C) - 1
    BY <2>2, FS_RemoveElement
  <2> QED
    BY <1>1, <2>1, <2>3
<1>4. users[r] = Cardinality(Callers(r)) /\ users'[r] = users[r] - 1
  BY DEF Counted
<1>5. \A q \in Runtimes \ {r} : users'[q] = users[q] /\ users[q] = Cardinality(Callers(q))
  BY DEF Counted
<1>6. ASSUME NEW q \in Runtimes PROVE users'[q] = Cardinality(Callers(q)')
  <2>1. CASE q = r
    BY <1>3, <1>4, <2>1
  <2>2. CASE q # r
    BY <1>2, <1>5, <2>2
  <2> QED
    BY <2>1, <2>2
<1> QED
  BY <1>6 DEF Counted

----------------------------------------------------------------------------
(* The invariant holds initially and is kept by each action. *)

LEMMA InitHolds == Init => IInv
<1> SUFFICES ASSUME Init PROVE IInv
  OBVIOUS
<1>1. Counted
  <2>1. \A r \in Runtimes : Callers(r) = {}
    BY DEF Init, Callers, SettingUp
  <2> QED
    BY <2>1, FS_EmptySet DEF Init, Counted
<1>2. TypeOK
  BY DEF Init, TypeOK, Runtimes, None, Places, Holding
<1>3. NoDeadRuntime /\ NoOrphan
  BY DEF Init, NoDeadRuntime, NoOrphan, Runtimes, None, SettingUp, Unloading
<1>4. SubscribedOnce
  BY DEF Init, SubscribedOnce, Runtimes
<1>5. Phases /\ Quiet
  BY DEF Init, Phases, Quiet, Runtimes, None, SettingUp, Unloading
<1> QED
  BY <1>1, <1>2, <1>3, <1>4, <1>5 DEF IInv

LEMMA StartSetupKeeps ==
  ASSUME IInv, NEW e \in Entries, StartSetup(e)
  PROVE  IInv'
<1> USE DEF IInv
<1> DEFINE r == IF current = None THEN made + 1 ELSE current
<1>0. /\ r \in Runtimes /\ pc[e] = "idle"
      /\ \A q \in Runtimes : e \notin loaded[q]
      /\ made' = IF current = None THEN r ELSE made
      /\ current' = r
      /\ users' = [users EXCEPT ![r] = @ + 1]
      /\ runtime' = [runtime EXCEPT ![e] = r]
      /\ pc' = [pc EXCEPT ![e] = "awaiting_lock"]
      /\ UNCHANGED <<loaded, subs, initialized, lock, closed, disarms, armed, started>>
  BY DEF StartSetup, Adopt, TypeOK, Runtimes, None
<1> HIDE DEF r
<1>1. Counted'
  BY <1>0, OneMore DEF TypeOK, SettingUp
<1>2. \A q \in Runtimes : users[q] \in Nat /\ users'[q] \in Nat
  BY <1>0, <1>1, NobodyLeft DEF TypeOK
<1>3. TypeOK'
  <2>1. users' \in [Runtimes -> Nat]
    BY <1>0 DEF TypeOK
  <2>2. made' \in 0..MaxRuntimes
    BY <1>0 DEF TypeOK, Runtimes
  <2>3. pc' \in [Entries -> Places] /\ runtime' \in [Entries -> Runtimes \cup {None}]
    BY <1>0 DEF TypeOK, Places, SettingUp
  <2>4. \A q \in Runtimes, f \in Entries :
          lock'[q] = f <=> pc'[f] \in Holding /\ runtime'[f] = q
    BY <1>0 DEF TypeOK, Holding
  <2> QED
    BY <1>0, <2>1, <2>2, <2>3, <2>4 DEF TypeOK
<1>4. NoDeadRuntime'
  <2>1. current = None => \A q \in Runtimes : loaded[q] = {} /\ users[q] = 0
    BY <1>2 DEF NoDeadRuntime, Runtimes, None
  <2>2. current = None => \A f \in Entries : pc[f] \notin SettingUp \cup Unloading
    BY DEF NoDeadRuntime, Phases, Runtimes, None
  <2>3. ~closed[r]
    BY <1>0 DEF NoDeadRuntime, Quiet, r, TypeOK
  <2>4. \A q \in 1..made' : q # r => closed[q]
    BY <1>0 DEF NoDeadRuntime, r, TypeOK, Runtimes, None
  <2>5. \A f \in Entries : pc'[f] \in SettingUp \cup Unloading => runtime'[f] = r
    BY <1>0, <2>2 DEF NoDeadRuntime, TypeOK, r
  <2>6. \A q \in Runtimes : loaded[q] # {} \/ users'[q] > 0 => q = r
    BY <1>0, <1>2, <2>1 DEF NoDeadRuntime, TypeOK, r
  <2> QED
    BY <1>0, <2>3, <2>4, <2>5, <2>6 DEF NoDeadRuntime
<1>5. SubscribedOnce'
  BY <1>0 DEF SubscribedOnce, TypeOK, r, Runtimes, None
<1>6. NoOrphan'
  BY <1>0, <1>2 DEF NoOrphan, TypeOK
<1>7. Phases'
  BY <1>0 DEF Phases, TypeOK, SettingUp, Unloading
<1>8. Quiet'
  BY <1>0 DEF Quiet, TypeOK, r, Runtimes, None
<1> QED
  BY <1>1, <1>3, <1>4, <1>5, <1>6, <1>7, <1>8

LEMMA EnterSetupKeeps ==
  ASSUME IInv, NEW e \in Entries, EnterSetup(e)
  PROVE  IInv'
<1> USE DEF IInv
<1> DEFINE r == runtime[e]
<1>0. /\ pc[e] = "awaiting_lock" /\ r = current /\ r \in Runtimes /\ lock[r] = Nobody
      /\ lock' = [lock EXCEPT ![r] = e]
      /\ pc' = [pc EXCEPT ![e] = IF initialized[r] THEN "forwarding" ELSE "subscribing"]
      /\ UNCHANGED <<current, made, users, loaded, subs, initialized, closed,
                     disarms, armed, started, runtime>>
  BY DEF EnterSetup, NoDeadRuntime, Phases, SettingUp
<1>1. Counted'
  BY <1>0, SameCallers DEF TypeOK, SettingUp
<1>2. TypeOK'
  BY <1>0 DEF TypeOK, Places, SettingUp, Holding
<1>3. NoDeadRuntime' /\ NoOrphan'
  BY <1>0 DEF NoDeadRuntime, NoOrphan, TypeOK, SettingUp, Unloading
<1>4. SubscribedOnce'
  BY <1>0 DEF SubscribedOnce, TypeOK
<1>5. Phases' /\ Quiet'
  BY <1>0 DEF Phases, Quiet, TypeOK, SettingUp, Unloading
<1> QED
  BY <1>1, <1>2, <1>3, <1>4, <1>5

LEMMA SubscribeKeeps ==
  ASSUME IInv, NEW e \in Entries, Subscribe(e)
  PROVE  IInv'
<1> USE DEF IInv
<1> DEFINE r == runtime[e]
           n == subs[r] + 1
<1>0. /\ pc[e] = "subscribing" /\ r = current /\ r \in Runtimes /\ lock[r] = e
      /\ ~initialized[r] /\ subs[r] # Topics /\ n \in 1..Topics
      /\ subs' = [subs EXCEPT ![r] = n]
      /\ initialized' = [initialized EXCEPT ![r] = n = Topics]
      /\ pc' = [pc EXCEPT ![e] = IF n = Topics THEN "forwarding" ELSE @]
      /\ UNCHANGED <<current, made, users, loaded, lock, closed, disarms, armed,
                     started, runtime>>
  BY DEF Subscribe, NoDeadRuntime, Phases, SettingUp, TypeOK, Holding, SubscribedOnce
<1>1. Counted'
  BY <1>0, SameCallers DEF TypeOK, SettingUp
<1>2. TypeOK'
  BY <1>0 DEF TypeOK, Places, SettingUp, Holding
<1>3. NoDeadRuntime' /\ NoOrphan'
  BY <1>0 DEF NoDeadRuntime, NoOrphan, TypeOK, SettingUp, Unloading
<1>4. SubscribedOnce'
  <2>1. \A q \in Runtimes \ {r} : subs'[q] = subs[q] /\ initialized'[q] = initialized[q]
    BY <1>0 DEF TypeOK
  <2>2. subs'[r] = n /\ (initialized'[r] <=> n = Topics) /\ loaded[r] = {}
    <3>1. subs'[r] = n
      BY <1>0 DEF TypeOK
    <3>2. initialized'[r] <=> n = Topics
      BY <1>0 DEF TypeOK
    <3>3. loaded[r] = {}
      BY <1>0, Zenon DEF SubscribedOnce
    <3> QED
      BY <3>1, <3>2, <3>3
  <2>3. n \in 1..(Topics - 1) => pc'[e] = "subscribing" /\ runtime'[e] = r
    BY <1>0 DEF TypeOK
  <2>4. \A q \in Runtimes \ {r} : subs[q] = 0
    BY <1>0 DEF SubscribedOnce, TypeOK
  <2>5. \A q \in Runtimes : loaded'[q] = loaded[q] /\ current' = current /\ Topics > 0
    BY <1>0
  <2>6. \A q \in Runtimes \ {r} : (initialized[q] <=> 0 = Topics)
                                   /\ (loaded[q] # {} => initialized[q])
    BY <2>4 DEF SubscribedOnce
  <2>7. ASSUME NEW q \in Runtimes
        PROVE  /\ subs'[q] > 0 => current' = q
               /\ initialized'[q] <=> subs'[q] = Topics
               /\ loaded'[q] # {} => initialized'[q]
               /\ subs'[q] \in 1..(Topics - 1) =>
                    \E f \in Entries : pc'[f] = "subscribing" /\ runtime'[f] = q
    <3>1. CASE q = r
      BY <3>1, <1>0, <2>2, <2>3, <2>5
    <3>2. CASE q # r
      BY <3>2, <2>1, <2>4, <2>5, <2>6
    <3> QED
      BY <3>1, <3>2
  <2> QED
    BY <2>7 DEF SubscribedOnce
<1>5. \A f \in Entries \ {e} : pc[f] \notin {"subscribing", "forwarding"} \/ runtime[f] # r
  BY <1>0 DEF TypeOK, Holding
<1>6. Phases' /\ Quiet'
  <2>1. \A q \in Runtimes \ {r} : initialized'[q] = initialized[q]
    BY <1>0 DEF TypeOK
  <2>2. (initialized'[r] <=> n = Topics) /\ disarms[r] = 0
    <3>1. initialized'[r] <=> n = Topics
      BY <1>0 DEF TypeOK
    <3>2. ~(disarms[r] > 0) /\ disarms[r] \in Nat
      BY <1>0 DEF TypeOK, Quiet
    <3> QED
      BY <3>1, <3>2
  <2>3. Quiet'
    BY <1>0, <2>1, <2>2 DEF Quiet, TypeOK
  <2>4. \A f \in Entries \ {e} : pc'[f] = pc[f]
    BY <1>0 DEF TypeOK
  <2>5. pc'[e] = IF n = Topics THEN "forwarding" ELSE "subscribing"
    BY <1>0 DEF TypeOK
  <2>6. ASSUME NEW f \in Entries
        PROVE  /\ pc'[f] \in SettingUp \cup Unloading => runtime[f] \in Runtimes
               /\ pc'[f] = "subscribing" => ~initialized'[runtime[f]]
               /\ pc'[f] = "forwarding" => initialized'[runtime[f]]
               /\ pc'[f] \in Unloading => f \in loaded[runtime[f]]
               /\ pc'[f] \in SettingUp => \A q \in Runtimes : f \notin loaded[q]
    <3>1. CASE f = e
      BY <3>1, <1>0, <2>2, <2>5 DEF Phases, SettingUp, Unloading
    <3>2. CASE f # e
      BY <3>2, <1>5, <2>1, <2>4 DEF Phases, SettingUp, Unloading
    <3> QED
      BY <3>1, <3>2
  <2>7. Phases'
    BY <1>0, <2>6 DEF Phases
  <2> QED
    BY <2>3, <2>7
<1> QED
  BY <1>1, <1>2, <1>3, <1>4, <1>6

----------------------------------------------------------------------------
(* Releasing a runtime. *)

\* Closing the current runtime when its last user is gone.
LEMMA CleanupKeeps ==
  ASSUME IInv, NEW r \in Runtimes, current = r, Cleanup(r), Counted',
         UNCHANGED <<made, started, runtime>>,
         users' \in [Runtimes -> Nat], loaded' \in [Runtimes -> SUBSET Entries],
         lock' \in [Runtimes -> Entries \cup {Nobody}], pc' \in [Entries -> Places],
         \A q \in Runtimes : users'[q] = 0 /\ loaded'[q] = {} /\ lock'[q] = Nobody,
         \A f \in Entries : pc'[f] \notin SettingUp \cup Unloading
  PROVE  IInv'
<1> USE DEF IInv
<1>0. /\ subs' = [subs EXCEPT ![r] = 0]
      /\ initialized' = [initialized EXCEPT ![r] = FALSE]
      /\ closed' = [closed EXCEPT ![r] = TRUE]
      /\ disarms' = [disarms EXCEPT ![r] = 0]
      /\ armed' = [armed EXCEPT ![r] = FALSE]
      /\ current' = None
      /\ r # None
  BY DEF Cleanup, Runtimes, None
<1>1. TypeOK'
  <2>1. \A q \in Runtimes, f \in Entries :
          lock'[q] = f <=> pc'[f] \in Holding /\ runtime'[f] = q
    BY DEF Holding, SettingUp, Unloading
  <2> QED
    BY <1>0, <2>1 DEF TypeOK
<1>2. NoDeadRuntime'
  BY <1>0 DEF NoDeadRuntime, TypeOK, None, Runtimes
<1>3. SubscribedOnce'
  BY <1>0 DEF SubscribedOnce, TypeOK
<1>4. NoOrphan' /\ Phases'
  BY <1>0 DEF NoOrphan, Phases, SettingUp, Unloading
<1>5. Quiet'
  <2>1. r <= made /\ None <= made
    BY DEF Quiet, TypeOK, None, Runtimes
  <2>2. \A q \in Runtimes \ {r} : disarms'[q] = disarms[q] /\ armed'[q] = armed[q]
                        /\ initialized'[q] = initialized[q] /\ closed'[q] = closed[q]
    BY <1>0 DEF TypeOK
  <2>3. disarms'[r] = 0 /\ ~armed'[r]
    BY <1>0 DEF TypeOK
  <2> QED
    BY <1>0, <2>1, <2>2, <2>3 DEF Quiet, TypeOK, Runtimes
<1> QED
  BY <1>1, <1>2, <1>3, <1>4, <1>5

\* What ReleaseIfLast can do: close, or leave the runtime as it is, in use or
\* with the callback armed for its pending requests.
LEMMA ReleaseCases ==
  ASSUME TypeOK, NEW r \in Runtimes, ReleaseIfLast(r)
  PROVE  \/ loaded'[r] = {} /\ users'[r] = 0 /\ Cleanup(r)
         \/ /\ UNCHANGED <<subs, initialized, closed, disarms, current>>
            /\ armed' \in [Runtimes -> BOOLEAN]
            /\ \A q \in Runtimes : armed'[q] => armed[q] \/ disarms[q] > 0
            /\ loaded'[r] # {} \/ users'[r] # 0 \/ (disarms[r] > 0 /\ armed'[r])
<1>1. CASE loaded'[r] = {} /\ users'[r] = 0 /\ disarms[r] = 0
  BY <1>1 DEF ReleaseIfLast, Release
<1>2. CASE loaded'[r] = {} /\ users'[r] = 0 /\ disarms[r] # 0
  <2>1. Release(r)
    BY <1>2 DEF ReleaseIfLast
  <2>2. /\ armed' = [armed EXCEPT ![r] = TRUE]
        /\ UNCHANGED <<subs, initialized, closed, disarms, current>>
    BY <2>1, <1>2 DEF Release
  <2>3. disarms[r] > 0
    BY <1>2 DEF TypeOK
  <2>4. /\ armed' \in [Runtimes -> BOOLEAN] /\ armed'[r]
        /\ \A q \in Runtimes \ {r} : armed'[q] = armed[q]
    BY <2>2 DEF TypeOK
  <2> QED
    BY <2>2, <2>3, <2>4
<1>3. CASE ~(loaded'[r] = {} /\ users'[r] = 0)
  BY <1>3 DEF ReleaseIfLast, Keep, TypeOK
<1> QED
  BY <1>1, <1>2, <1>3

----------------------------------------------------------------------------
(* The calls that end. *)

LEMMA SetupDoneKeeps ==
  ASSUME IInv, NEW e \in Entries, SetupDone(e)
  PROVE  IInv'
<1> USE DEF IInv
<1> DEFINE r == runtime[e]
<1>0. /\ pc[e] = "forwarding" /\ r = current /\ r \in Runtimes /\ lock[r] = e
      /\ initialized[r] /\ r # None
      /\ loaded' = [loaded EXCEPT ![r] = @ \cup {e}]
      /\ users' = [users EXCEPT ![r] = @ - 1]
      /\ lock' = [lock EXCEPT ![r] = Nobody]
      /\ pc' = [pc EXCEPT ![e] = "idle"]
      /\ UNCHANGED <<subs, initialized, closed, disarms, armed, current, made,
                     started, runtime>>
  BY DEF SetupDone, Keep, Unlocked, NoDeadRuntime, Phases, SettingUp, TypeOK, Holding,
         Runtimes, None
<1>1. Counted'
  BY <1>0, OneLess DEF TypeOK, SettingUp
<1>2. users[r] - 1 \in Nat
  <2>1. users[r] # 0 /\ users[r] \in Nat
    BY <1>0, NobodyLeft DEF SettingUp
  <2> QED
    BY <2>1
<1>3. TypeOK'
  <2>1. users' \in [Runtimes -> Nat]
    BY <1>0, <1>2 DEF TypeOK
  <2>2. \A q \in Runtimes, f \in Entries :
          lock'[q] = f <=> pc'[f] \in Holding /\ runtime'[f] = q
    BY <1>0 DEF TypeOK, Holding
  <2> QED
    BY <1>0, <2>1, <2>2 DEF TypeOK, Places
<1>4. NoDeadRuntime' /\ NoOrphan'
  BY <1>0 DEF NoDeadRuntime, NoOrphan, TypeOK, SettingUp, Unloading
<1>5. SubscribedOnce'
  BY <1>0 DEF SubscribedOnce, TypeOK
<1>6. Phases' /\ Quiet'
  BY <1>0 DEF Phases, Quiet, TypeOK, SettingUp, Unloading
<1> QED
  BY <1>1, <1>3, <1>4, <1>5, <1>6

LEMMA SetupFailsKeeps ==
  ASSUME IInv, NEW e \in Entries, SetupFails(e)
  PROVE  IInv'
<1> USE DEF IInv
<1> DEFINE r == runtime[e]
<1>0. /\ pc[e] \in {"awaiting_lock", "forwarding"} /\ r = current /\ r \in Runtimes
      /\ r # None
      /\ users' = [users EXCEPT ![r] = @ - 1]
      /\ lock' = IF lock[r] = e THEN [lock EXCEPT ![r] = Nobody] ELSE lock
      /\ pc' = [pc EXCEPT ![e] = "idle"]
      /\ UNCHANGED <<made, loaded, started, runtime>>
      /\ ReleaseIfLast(r)
  BY DEF SetupFails, Unlocked, NoDeadRuntime, Phases, SettingUp, TypeOK, Runtimes, None
<1>1. Counted'
  BY <1>0, OneLess DEF TypeOK, SettingUp
<1>2. users[r] - 1 \in Nat
  <2>1. users[r] # 0 /\ users[r] \in Nat
    BY <1>0, NobodyLeft DEF SettingUp
  <2> QED
    BY <2>1
<1>3. users' \in [Runtimes -> Nat]
  BY <1>0, <1>2 DEF TypeOK
<1>4. /\ lock' \in [Runtimes -> Entries \cup {Nobody}]
      /\ pc' \in [Entries -> Places]
      /\ \A q \in Runtimes, f \in Entries :
          lock'[q] = f <=> pc'[f] \in Holding /\ runtime'[f] = q
  BY <1>0 DEF TypeOK, Holding, Places
<1>5. CASE loaded'[r] = {} /\ users'[r] = 0 /\ Cleanup(r)
  <2>1. \A q \in Runtimes : users'[q] = 0 /\ loaded'[q] = {}
    BY <1>0, <1>3, <1>5 DEF NoDeadRuntime, TypeOK
  <2>2. \A f \in Entries : pc'[f] \notin SettingUp
    <3>1. \A q \in Runtimes : Callers(q)' = {}
      BY <1>1, <2>1, NoCallers
    <3>2. \A f \in Entries : pc'[f] \in SettingUp => runtime'[f] \in Runtimes
      BY <1>0 DEF Phases, SettingUp, TypeOK
    <3> QED
      BY <3>1, <3>2 DEF Callers
  <2>3. \A f \in Entries : pc'[f] \notin Unloading
    BY <1>0, <2>1 DEF Phases, Unloading, TypeOK
  <2>4. \A q \in Runtimes : lock'[q] = Nobody
    BY <1>4, <2>2, <2>3 DEF Holding, SettingUp, Unloading
  <2> QED
    BY <1>0, <1>1, <1>3, <1>4, <1>5, <2>1, <2>2, <2>3, <2>4, CleanupKeeps DEF TypeOK
<1>6. CASE /\ UNCHANGED <<subs, initialized, closed, disarms, current>>
           /\ armed' \in [Runtimes -> BOOLEAN]
           /\ \A q \in Runtimes : armed'[q] => armed[q] \/ disarms[q] > 0
           /\ loaded'[r] # {} \/ users'[r] # 0 \/ (disarms[r] > 0 /\ armed'[r])
  <2>1. TypeOK'
    BY <1>0, <1>3, <1>4, <1>6 DEF TypeOK
  <2>2. NoDeadRuntime'
    <3>1. \A f \in Entries : pc'[f] \in SettingUp \cup Unloading => runtime'[f] = current'
      BY <1>0, <1>6 DEF NoDeadRuntime, TypeOK, SettingUp, Unloading
    <3>2. \A q \in Runtimes : loaded'[q] # {} \/ users'[q] > 0 => current' = q
      BY <1>0, <1>6 DEF NoDeadRuntime, TypeOK
    <3>3. current' # None /\ ~closed'[current']
      BY <1>0, <1>6 DEF NoDeadRuntime
    <3>4. \A q \in 1..made' : q # current' => closed'[q]
      BY <1>0, <1>6 DEF NoDeadRuntime
    <3> QED
      BY <3>1, <3>2, <3>3, <3>4, <1>0 DEF NoDeadRuntime
  <2>3. NoOrphan'
    <3>1. users'[r] \in Nat /\ current' = r /\ disarms'[r] = disarms[r]
      BY <1>0, <1>3, <1>6
    <3>2. loaded'[r] # {} \/ users'[r] > 0 \/ (disarms'[r] > 0 /\ armed'[r])
      BY <1>6, <3>1
    <3> QED
      BY <3>1, <3>2 DEF NoOrphan
  <2>4. SubscribedOnce'
    BY <1>0, <1>6 DEF SubscribedOnce, TypeOK
  <2>5. Phases' /\ Quiet'
    BY <1>0, <1>6 DEF Phases, Quiet, TypeOK, SettingUp, Unloading
  <2> QED
    BY <1>1, <2>1, <2>2, <2>3, <2>4, <2>5
<1> QED
  BY <1>0, <1>5, <1>6, ReleaseCases

LEMMA SubscribeFailsKeeps ==
  ASSUME IInv, NEW e \in Entries, SubscribeFails(e)
  PROVE  IInv'
<1> USE DEF IInv
<1> DEFINE r == runtime[e]
<1>0. /\ pc[e] = "subscribing" /\ r = current /\ r \in Runtimes /\ lock[r] = e
      /\ r # None /\ ~initialized[r]
      /\ users' = [users EXCEPT ![r] = @ - 1]
      /\ lock' = [lock EXCEPT ![r] = Nobody]
      /\ pc' = [pc EXCEPT ![e] = "idle"]
      /\ UNCHANGED <<made, loaded, started, runtime>>
  BY DEF SubscribeFails, Unlocked, NoDeadRuntime, Phases, SettingUp, TypeOK, Runtimes,
         None, Holding
<1>1. Counted'
  BY <1>0, OneLess DEF TypeOK, SettingUp
<1>2. users[r] - 1 \in Nat
  <2>1. users[r] # 0 /\ users[r] \in Nat
    BY <1>0, NobodyLeft DEF SettingUp
  <2> QED
    BY <2>1
<1>3. users' \in [Runtimes -> Nat]
  BY <1>0, <1>2 DEF TypeOK
<1>4. /\ lock' \in [Runtimes -> Entries \cup {Nobody}]
      /\ pc' \in [Entries -> Places]
      /\ \A q \in Runtimes, f \in Entries :
          lock'[q] = f <=> pc'[f] \in Holding /\ runtime'[f] = q
  BY <1>0 DEF TypeOK, Holding, Places
<1>5. loaded[r] = {}
  BY <1>0 DEF SubscribedOnce
<1>6. CASE users'[r] = 0
  <2>0. Cleanup(r)
    BY <1>5, <1>6 DEF SubscribeFails
  <2>1. \A q \in Runtimes : users'[q] = 0 /\ loaded'[q] = {}
    BY <1>0, <1>3, <1>5, <1>6 DEF NoDeadRuntime, TypeOK
  <2>2. \A f \in Entries : pc'[f] \notin SettingUp
    <3>1. \A q \in Runtimes : Callers(q)' = {}
      BY <1>1, <2>1, NoCallers
    <3>2. \A f \in Entries : pc'[f] \in SettingUp => runtime'[f] \in Runtimes
      BY <1>0 DEF Phases, SettingUp, TypeOK
    <3> QED
      BY <3>1, <3>2 DEF Callers
  <2>3. \A f \in Entries : pc'[f] \notin Unloading
    BY <1>0, <2>1 DEF Phases, Unloading, TypeOK
  <2>4. \A q \in Runtimes : lock'[q] = Nobody
    BY <1>4, <2>2, <2>3 DEF Holding, SettingUp, Unloading
  <2> QED
    BY <1>0, <1>1, <1>3, <1>4, <2>0, <2>1, <2>2, <2>3, <2>4, CleanupKeeps DEF TypeOK
<1>7. CASE users'[r] # 0
  <2>0. /\ subs' = [subs EXCEPT ![r] = 0]
        /\ UNCHANGED <<initialized, closed, disarms, armed, current>>
    BY <1>7 DEF SubscribeFails
  <2>1. TypeOK'
    BY <1>0, <1>3, <1>4, <2>0 DEF TypeOK
  <2>2. NoDeadRuntime'
    <3>1. \A f \in Entries : pc'[f] \in SettingUp \cup Unloading => runtime'[f] = current'
      BY <1>0, <2>0 DEF NoDeadRuntime, TypeOK, SettingUp, Unloading
    <3>2. \A q \in Runtimes : loaded'[q] # {} \/ users'[q] > 0 => current' = q
      BY <1>0, <2>0 DEF NoDeadRuntime, TypeOK
    <3> QED
      BY <3>1, <3>2, <1>0, <2>0 DEF NoDeadRuntime
  <2>3. NoOrphan'
    <3>1. users'[r] \in Nat /\ current' = r
      BY <1>0, <1>3, <2>0
    <3> QED
      BY <3>1, <1>7 DEF NoOrphan
  <2>4. SubscribedOnce'
    <3>1. \A q \in Runtimes \ {r} : subs'[q] = subs[q] /\ subs[q] = 0
      BY <1>0, <2>0 DEF TypeOK, SubscribedOnce
    <3>2. subs'[r] = 0
      BY <1>0, <2>0 DEF TypeOK
    <3> QED
      BY <3>1, <3>2, <1>0, <1>5, <2>0 DEF SubscribedOnce
  <2>5. Phases' /\ Quiet'
    BY <1>0, <2>0 DEF Phases, Quiet, TypeOK, SettingUp, Unloading
  <2> QED
    BY <1>1, <2>1, <2>2, <2>3, <2>4, <2>5
<1> QED
  BY <1>6, <1>7

LEMMA UnloadDoneKeeps ==
  ASSUME IInv, NEW e \in Entries, UnloadDone(e)
  PROVE  IInv'
<1> USE DEF IInv
<1> DEFINE r == runtime[e]
<1>0. /\ pc[e] = "unloading" /\ r = current /\ r \in Runtimes /\ lock[r] = e
      /\ r # None
      /\ loaded' = [loaded EXCEPT ![r] = @ \ {e}]
      /\ lock' = [lock EXCEPT ![r] = Nobody]
      /\ pc' = [pc EXCEPT ![e] = "idle"]
      /\ UNCHANGED <<made, users, started, runtime>>
      /\ ReleaseIfLast(r)
  BY DEF UnloadDone, Unlocked, NoDeadRuntime, Phases, Unloading, TypeOK, Runtimes,
         None, Holding
<1>1. Counted'
  BY <1>0, SameCallers DEF TypeOK, SettingUp
<1>2. users' \in [Runtimes -> Nat] /\ loaded' \in [Runtimes -> SUBSET Entries]
  BY <1>0 DEF TypeOK
<1>3. \A q \in Runtimes : loaded'[q] \subseteq loaded[q] /\ loaded[q] \ {e} \subseteq loaded'[q]
  BY <1>0 DEF TypeOK
<1>4. /\ lock' \in [Runtimes -> Entries \cup {Nobody}]
      /\ pc' \in [Entries -> Places]
      /\ \A q \in Runtimes, f \in Entries :
          lock'[q] = f <=> pc'[f] \in Holding /\ runtime'[f] = q
  BY <1>0 DEF TypeOK, Holding, Places
<1>5. CASE loaded'[r] = {} /\ users'[r] = 0 /\ Cleanup(r)
  <2>1. \A q \in Runtimes : users'[q] = 0 /\ loaded'[q] = {}
    BY <1>0, <1>2, <1>3, <1>5 DEF NoDeadRuntime, TypeOK
  <2>2. \A f \in Entries : pc'[f] \notin SettingUp
    <3>1. \A q \in Runtimes : Callers(q)' = {}
      BY <1>1, <2>1, NoCallers
    <3>2. \A f \in Entries : pc'[f] \in SettingUp => runtime'[f] \in Runtimes
      BY <1>0 DEF Phases, SettingUp, TypeOK
    <3> QED
      BY <3>1, <3>2 DEF Callers
  <2>3. \A f \in Entries : pc'[f] \notin Unloading
    BY <1>0, <1>3, <2>1 DEF Phases, Unloading, TypeOK
  <2>4. \A q \in Runtimes : lock'[q] = Nobody
    BY <1>4, <2>2, <2>3 DEF Holding, SettingUp, Unloading
  <2> QED
    BY <1>0, <1>1, <1>2, <1>4, <1>5, <2>1, <2>2, <2>3, <2>4, CleanupKeeps
<1>6. CASE /\ UNCHANGED <<subs, initialized, closed, disarms, current>>
           /\ armed' \in [Runtimes -> BOOLEAN]
           /\ \A q \in Runtimes : armed'[q] => armed[q] \/ disarms[q] > 0
           /\ loaded'[r] # {} \/ users'[r] # 0 \/ (disarms[r] > 0 /\ armed'[r])
  <2>1. TypeOK'
    BY <1>0, <1>2, <1>4, <1>6 DEF TypeOK
  <2>2. NoDeadRuntime'
    <3>1. \A f \in Entries : pc'[f] \in SettingUp \cup Unloading => runtime'[f] = current'
      BY <1>0, <1>6 DEF NoDeadRuntime, TypeOK, SettingUp, Unloading
    <3>2. \A q \in Runtimes : loaded'[q] # {} \/ users'[q] > 0 => current' = q
      BY <1>0, <1>3, <1>6 DEF NoDeadRuntime, TypeOK
    <3> QED
      BY <3>1, <3>2, <1>0, <1>6 DEF NoDeadRuntime
  <2>3. NoOrphan'
    <3>1. users'[r] \in Nat /\ current' = r /\ disarms'[r] = disarms[r]
      BY <1>0, <1>2, <1>6
    <3>2. loaded'[r] # {} \/ users'[r] > 0 \/ (disarms'[r] > 0 /\ armed'[r])
      BY <1>6, <3>1
    <3> QED
      BY <3>1, <3>2 DEF NoOrphan
  <2>4. SubscribedOnce'
    BY <1>0, <1>3, <1>6 DEF SubscribedOnce, TypeOK
  <2>5. Phases'
    <3>1. \A f \in Entries \ {e} : pc'[f] = pc[f]
      BY <1>0 DEF TypeOK
    <3>2. pc'[e] = "idle"
      BY <1>0 DEF TypeOK
    <3> QED
      BY <3>1, <3>2, <1>0, <1>3, <1>6 DEF Phases, SettingUp, Unloading
  <2>6. Quiet'
    BY <1>0, <1>6 DEF Quiet, TypeOK
  <2> QED
    BY <1>1, <2>1, <2>2, <2>3, <2>4, <2>5, <2>6
<1> QED
  BY <1>0, <1>5, <1>6, ReleaseCases

----------------------------------------------------------------------------
(* The calls that only move, and the disarm requests. *)

LEMMA UnloadMovesKeep ==
  ASSUME IInv, NEW e \in Entries, StartUnload(e) \/ EnterUnload(e) \/ UnloadFails(e)
  PROVE  IInv'
<1> USE DEF IInv
<1> DEFINE r == runtime[e]
<1>1. CASE StartUnload(e)
  <2>0. /\ pc[e] = "idle" /\ current \in Runtimes /\ e \in loaded[current]
        /\ runtime' = [runtime EXCEPT ![e] = current]
        /\ pc' = [pc EXCEPT ![e] = "unload_awaiting_lock"]
        /\ UNCHANGED <<current, made, users, loaded, subs, initialized, lock, closed,
                       disarms, armed, started>>
    BY <1>1 DEF StartUnload, perRuntime, TypeOK
  <2>1. Counted'
    BY <2>0, SameCallers DEF TypeOK, SettingUp
  <2>2. TypeOK'
    BY <2>0 DEF TypeOK, Places, Unloading, Holding
  <2>3. NoDeadRuntime' /\ NoOrphan'
    BY <2>0 DEF NoDeadRuntime, NoOrphan, TypeOK, SettingUp, Unloading
  <2>4. SubscribedOnce'
    BY <2>0 DEF SubscribedOnce, TypeOK
  <2>5. Phases' /\ Quiet'
    BY <2>0 DEF Phases, Quiet, TypeOK, SettingUp, Unloading
  <2> QED
    BY <2>1, <2>2, <2>3, <2>4, <2>5
<1>2. CASE EnterUnload(e)
  <2>0. /\ pc[e] = "unload_awaiting_lock" /\ r \in Runtimes /\ lock[r] = Nobody
        /\ lock' = [lock EXCEPT ![r] = e]
        /\ pc' = [pc EXCEPT ![e] = "unloading"]
        /\ UNCHANGED <<current, made, users, loaded, subs, initialized, closed,
                       disarms, armed, started, runtime>>
    BY <1>2 DEF EnterUnload, Phases, Unloading
  <2>1. Counted'
    BY <2>0, SameCallers DEF TypeOK, SettingUp
  <2>2. TypeOK'
    BY <2>0 DEF TypeOK, Places, Unloading, Holding
  <2>3. NoDeadRuntime' /\ NoOrphan'
    BY <2>0 DEF NoDeadRuntime, NoOrphan, TypeOK, SettingUp, Unloading
  <2>4. SubscribedOnce'
    BY <2>0 DEF SubscribedOnce, TypeOK
  <2>5. Phases' /\ Quiet'
    BY <2>0 DEF Phases, Quiet, TypeOK, SettingUp, Unloading
  <2> QED
    BY <2>1, <2>2, <2>3, <2>4, <2>5
<1>3. CASE UnloadFails(e)
  <2>0. /\ pc[e] \in Unloading /\ r \in Runtimes
        /\ lock' = IF lock[r] = e THEN [lock EXCEPT ![r] = Nobody] ELSE lock
        /\ pc' = [pc EXCEPT ![e] = "stuck"]
        /\ UNCHANGED <<current, made, users, loaded, subs, initialized, closed,
                       disarms, armed, started, runtime>>
    BY <1>3 DEF UnloadFails, Unlocked, Phases
  <2>1. Counted'
    BY <2>0, SameCallers DEF TypeOK, SettingUp, Unloading
  <2>2. TypeOK'
    BY <2>0 DEF TypeOK, Places, Unloading, Holding
  <2>3. NoDeadRuntime' /\ NoOrphan'
    BY <2>0 DEF NoDeadRuntime, NoOrphan, TypeOK, SettingUp, Unloading
  <2>4. SubscribedOnce'
    BY <2>0 DEF SubscribedOnce, TypeOK, Unloading
  <2>5. Phases' /\ Quiet'
    BY <2>0 DEF Phases, Quiet, TypeOK, SettingUp, Unloading
  <2> QED
    BY <2>1, <2>2, <2>3, <2>4, <2>5
<1> QED
  BY <1>1, <1>2, <1>3

LEMMA StartDisarmKeeps ==
  ASSUME IInv, StartDisarm
  PROVE  IInv'
<1> USE DEF IInv
<1>0. /\ current \in Runtimes /\ initialized[current]
      /\ started' = started + 1
      /\ disarms' = [disarms EXCEPT ![current] = @ + 1]
      /\ UNCHANGED <<current, made, users, loaded, subs, initialized, lock, closed,
                     armed, pc, runtime>>
  BY DEF StartDisarm, TypeOK
<1>1. Counted'
  BY <1>0, SameCallers
<1>2. TypeOK'
  <2>1. disarms' \in [Runtimes -> Nat] /\ started' \in Nat
    BY <1>0 DEF TypeOK
  <2> QED
    BY <1>0, <2>1 DEF TypeOK
<1>3. \A q \in Runtimes : disarms'[q] >= disarms[q] /\ (q # current => disarms'[q] = disarms[q])
  BY <1>0 DEF TypeOK
<1>4. NoDeadRuntime' /\ SubscribedOnce' /\ Phases'
  BY <1>0 DEF NoDeadRuntime, SubscribedOnce, Phases
<1>5. NoOrphan'
  BY <1>0, <1>3, <1>2 DEF NoOrphan, TypeOK
<1>6. Quiet'
  BY <1>0, <1>2, <1>3 DEF Quiet, TypeOK
<1> QED
  BY <1>1, <1>2, <1>4, <1>5, <1>6

LEMMA EndDisarmKeeps ==
  ASSUME IInv, NEW r \in Runtimes, EndDisarm(r)
  PROVE  IInv'
<1> USE DEF IInv
<1>0. /\ disarms[r] > 0 /\ current = r /\ r # None
      /\ UNCHANGED <<made, users, loaded, lock, started, pc, runtime>>
  BY DEF EndDisarm, Quiet, SubscribedOnce, TypeOK, Runtimes, None
<1>1. Counted'
  BY <1>0, SameCallers
<1>2. CASE loaded[r] = {} /\ users[r] = 0 /\ Cleanup(r)
  <2>1. \A q \in Runtimes : users'[q] = 0 /\ loaded'[q] = {}
    BY <1>0, <1>2 DEF NoDeadRuntime, TypeOK
  <2>2. \A f \in Entries : pc'[f] \notin SettingUp
    <3>1. \A q \in Runtimes : Callers(q)' = {}
      BY <1>1, <2>1, NoCallers
    <3>2. \A f \in Entries : pc'[f] \in SettingUp => runtime'[f] \in Runtimes
      BY <1>0 DEF Phases, SettingUp, TypeOK
    <3> QED
      BY <3>1, <3>2 DEF Callers
  <2>3. \A f \in Entries : pc'[f] \notin Unloading
    BY <1>0, <2>1 DEF Phases, Unloading, TypeOK
  <2>4. \A q \in Runtimes : lock'[q] = Nobody
    BY <1>0, <2>2, <2>3 DEF Holding, SettingUp, Unloading, TypeOK
  <2> QED
    BY <1>0, <1>1, <1>2, <2>1, <2>2, <2>3, <2>4, CleanupKeeps DEF TypeOK
<1>3. CASE /\ ~(disarms[r] = 1 /\ armed[r] /\ loaded[r] = {} /\ users[r] = 0)
           /\ disarms' = [disarms EXCEPT ![r] = @ - 1]
           /\ armed' = IF disarms[r] = 1 THEN [armed EXCEPT ![r] = FALSE] ELSE armed
           /\ UNCHANGED <<subs, initialized, closed, current>>
  <2>1. /\ disarms' \in [Runtimes -> Nat] /\ armed' \in [Runtimes -> BOOLEAN]
        /\ disarms'[r] = disarms[r] - 1
        /\ \A q \in Runtimes \ {r} : disarms'[q] = disarms[q] /\ armed'[q] = armed[q]
    BY <1>0, <1>3 DEF TypeOK
  <2>2. armed'[r] <=> armed[r] /\ disarms[r] > 1
    BY <1>0, <1>3 DEF TypeOK
  <2>3. TypeOK'
    BY <1>0, <1>3, <2>1 DEF TypeOK
  <2>4. NoDeadRuntime' /\ SubscribedOnce' /\ Phases'
    BY <1>0, <1>3 DEF NoDeadRuntime, SubscribedOnce, Phases
  <2>5. NoOrphan'
    <3>1. CASE loaded[r] = {} /\ users[r] = 0
      <4>1. armed[r] /\ disarms[r] # 1
        BY <3>1, <1>0, <1>3 DEF NoOrphan
      <4>2. disarms[r] > 1
        BY <4>1, <1>0 DEF TypeOK
      <4>3. armed'[r] /\ disarms'[r] > 0
        BY <4>1, <4>2, <2>1, <2>2 DEF TypeOK
      <4> QED
        BY <4>3, <1>0, <1>3 DEF NoOrphan
    <3>2. CASE loaded[r] # {} \/ users[r] # 0
      BY <3>2, <1>0, <1>3 DEF NoOrphan, TypeOK
    <3> QED
      BY <3>1, <3>2
  <2>6. Quiet'
    <3>1. armed'[r] => disarms'[r] > 0
      BY <2>1, <2>2 DEF TypeOK
    <3>2. initialized[r]
      BY <1>0 DEF Quiet
    <3> QED
      BY <1>0, <1>3, <2>1, <3>1, <3>2 DEF Quiet, TypeOK
  <2> QED
    BY <1>1, <2>3, <2>4, <2>5, <2>6
<1> QED
  BY <1>0, <1>2, <1>3 DEF EndDisarm

----------------------------------------------------------------------------
(* The theorems. *)

LEMMA NextKeeps == IInv /\ [Next]_vars => IInv'
<1> SUFFICES ASSUME IInv, [Next]_vars PROVE IInv'
  OBVIOUS
<1>1. ASSUME NEW e \in Entries, Operation(e) PROVE IInv'
  BY <1>1, StartSetupKeeps, EnterSetupKeeps, SubscribeKeeps, SetupDoneKeeps,
     SetupFailsKeeps, SubscribeFailsKeeps, UnloadMovesKeep, UnloadDoneKeeps DEF Operation
<1>2. CASE StartDisarm
  BY <1>2, StartDisarmKeeps
<1>3. ASSUME NEW r \in Runtimes, EndDisarm(r) PROVE IInv'
  BY <1>3, EndDisarmKeeps
<1>4. CASE UNCHANGED vars
  <2>1. Counted'
    BY <1>4, SameCallers DEF vars, perRuntime, IInv
  <2> QED
    BY <1>4, <2>1 DEF vars, perRuntime, IInv, TypeOK, NoDeadRuntime, SubscribedOnce,
       NoOrphan, Phases, Quiet
<1> QED
  BY <1>1, <1>2, <1>3, <1>4 DEF Next

LEMMA Invariant == Spec => []IInv
  BY InitHolds, NextKeeps, PTL DEF Spec

\* The types, and the lock is held exactly by the calls inside it.
THEOREM TypeCorrect == Spec => []TypeOK
<1>1. IInv => TypeOK
  BY DEF IInv
<1> QED
  BY <1>1, Invariant, PTL

\* Nobody ever uses a runtime other than the current one, whose hub is open;
\* so the retry of async_setup_entry is never taken.
THEOREM UsersHaveALiveHub == Spec => []NoDeadRuntime
<1>1. IInv => NoDeadRuntime
  BY DEF IInv
<1> QED
  BY <1>1, Invariant, PTL

\* One set of subscriptions, complete before any entry is loaded.
THEOREM OneSubscription == Spec => []SubscribedOnce
<1>1. IInv => SubscribedOnce
  BY DEF IInv
<1> QED
  BY <1>1, Invariant, PTL

\* A runtime without users waits for its last disarm, callback armed.
THEOREM NothingLeftBehind == Spec => []NoOrphan
<1>1. IInv => NoOrphan
  BY DEF IInv
<1> QED
  BY <1>1, Invariant, PTL

\* No set-up or unload closes a hub that still retries a disarm.
THEOREM DisarmsSurvive == Spec => DisarmsRunToTheirEnd
<1> DEFINE Uncut(r) == closed'[r] /\ ~closed[r] /\ disarms[r] > 0 =>
                         disarms[r] = 1 /\ pc' = pc
<1>1. ASSUME IInv, [Next]_vars, NEW r \in Runtimes PROVE Uncut(r)
  <2>1. ASSUME NEW q \in Runtimes, Cleanup(q), closed'[r], ~closed[r]
        PROVE  r = q
    BY <1>1, <2>1 DEF Cleanup, IInv, TypeOK
  <2>2. ASSUME NEW q \in Runtimes, ReleaseIfLast(q) PROVE Uncut(r)
    BY <2>1, <2>2 DEF ReleaseIfLast, Release, Keep
  <2>3. ASSUME NEW e \in Entries, Operation(e) PROVE Uncut(r)
    <3>1. pc[e] \in SettingUp \cup Unloading => runtime[e] \in Runtimes
      BY <1>1 DEF IInv, Phases
    <3>2. CASE SetupFails(e) \/ UnloadDone(e)
      BY <3>1, <3>2, <2>2 DEF SetupFails, UnloadDone, SettingUp, Unloading
    <3>3. CASE SubscribeFails(e)
      <4>1. disarms[runtime[e]] = 0 /\ runtime[e] \in Runtimes
        BY <1>1, <3>1, <3>3 DEF SubscribeFails, IInv, Phases, Quiet, TypeOK, SettingUp
      <4>2. Cleanup(runtime[e]) \/ closed' = closed
        BY <3>3 DEF SubscribeFails
      <4> QED
        BY <4>1, <4>2, <2>1
    <3>4. CASE \/ StartSetup(e) \/ EnterSetup(e) \/ Subscribe(e) \/ SetupDone(e)
               \/ StartUnload(e) \/ EnterUnload(e) \/ UnloadFails(e)
      BY <3>4 DEF StartSetup, EnterSetup, Adopt, Subscribe, SetupDone, Keep, StartUnload,
                  EnterUnload, UnloadFails, perRuntime
    <3> QED
      BY <2>3, <3>2, <3>3, <3>4 DEF Operation
  <2>4. CASE StartDisarm
    BY <2>4 DEF StartDisarm
  <2>5. ASSUME NEW q \in Runtimes, EndDisarm(q) PROVE Uncut(r)
    BY <2>1, <2>5 DEF EndDisarm
  <2>6. CASE UNCHANGED vars
    BY <2>6 DEF vars, perRuntime
  <2> QED
    BY <1>1, <2>3, <2>4, <2>5, <2>6 DEF Next
<1>2. IInv /\ [Next]_vars =>
        [\A r \in Runtimes : closed'[r] /\ ~closed[r] /\ disarms[r] > 0 =>
            disarms[r] = 1 /\ pc' = pc]_vars
  BY <1>1
<1> QED
  BY <1>2, Invariant, PTL DEF Spec, DisarmsRunToTheirEnd

=============================================================================
