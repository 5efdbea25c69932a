-------------------------- MODULE CommandHubProofs --------------------------
(*******************************************************************************)
(* Type correctness, the silence of a closed hub and the cap on outstanding    *)
(* commands, for any commands, channels, owners and casts.                     *)
(*                                                                             *)
(* Every step of the hub is first given a shape that says what it does to the  *)
(* lanes, the entries and the answers and leaves out how the code gets there   *)
(* (Shapes).  The invariants here and in CommandHubOrderProofs are then proved *)
(* shape by shape.                                                             *)
(*******************************************************************************)
EXTENDS CommandHub, QueueOpsProofs

\* Where a coroutine is suspended that holds a lane.
Busy == {"barrier", "lock", "yield", "airwait", "handoff", "admission", "started"}

\* What the queue, the two lanes and the lock agree on.  A queue without
\* duplicates is what makes a popped entry leave it.
Lanes ==
  /\ TypeOK
  /\ Distinct(queue)
  /\ \A c \in Command : pc[c] \in Busy => c \in Running
  /\ inflight \notin fast
  /\ \A c \in fast : Kind[c] = "stop"
  /\ closed => \A c \in Command : pc[c] \in {"idle", "measured", "done"} /\ answer[c] # "open"

\* A cast is a set of commands of the model.
LEMMA CastsAreOfCommands == ASSUME cast \in Casts PROVE cast.commands \subseteq Command
  BY HubAssumption

----------------------------------------------------------------------------
(* The steps of one entry have three shapes. *)

\* What no step of a coroutine touches.
Calm ==
  /\ queue' = queue /\ members' = members /\ barriers' = barriers
  /\ preempted' = preempted /\ bypass' = bypass
  /\ pressSeq' = pressSeq /\ pressSeen' = pressSeen /\ pubSeen' = pubSeen
  /\ admission' = admission /\ started' = started
  /\ closed' = closed /\ upsets' \in {upsets, upsets + 1} /\ cast' = cast
  /\ requested' = requested /\ since' = since

\* _async_run_direct ends, with an answer r for whoever still waits.
Ends(c, r) ==
  /\ pc[c] \in Busy
  /\ pc' = [pc EXCEPT ![c] = "done"]
  /\ answer' = [m \in Command |-> IF m \in Live(c) THEN r ELSE answer[m]]
  /\ published' = published \cup {c}
  /\ inflight' = (IF inflight = c THEN Nobody ELSE inflight)
  /\ fast' = fast \ {c}
  /\ lock' = (IF lock = c THEN Nobody ELSE lock)
  /\ chans' = chans \/ chans' = [chans EXCEPT ![c] = Rebuilt(c)]
  /\ \E l \in {"gone", "confirmed"} :
       ledger' \in {ledger, [ledger EXCEPT ![c] = IF @ = "pending" THEN l ELSE @]}
  /\ Pending(c) => ledger'[c] # "pending"
  /\ ledger'[c] = "gone" /\ ledger[c] # "gone" /\ Pending(c) =>
       admission[c] # "accepted" \/ started[c] # "started"
  /\ r = "acked" => pc[c] = "started" /\ started[c] = "started"
  /\ r = "superseded" /\ Pending(c) => "displaced" \in {admission[c], started[c]}
  /\ holds' = holds /\ pubSeq' = pubSeq /\ log' = log
  /\ Calm

\* From where to where a coroutine goes on without ending.
Transitions == {<<"barrier", "lock">>, <<"lock", "yield">>, <<"yield", "airwait">>,
                <<"yield", "handoff">>, <<"airwait", "lock">>, <<"admission", "started">>}

\* It goes on to its next suspension point p.
Moves(c, p) ==
  /\ <<pc[c], p>> \in Transitions
  /\ pc[c] = "barrier" => barriers[c] \subseteq published
  /\ p = "yield" => lock = Nobody
  /\ p = "started" => admission[c] = "accepted"
  /\ pc' = [pc EXCEPT ![c] = p]
  /\ lock' = (IF p \in {"yield", "handoff"} THEN c ELSE IF p = "airwait" THEN Nobody ELSE lock)
  /\ chans' = chans \/ chans' = [chans EXCEPT ![c] = Rebuilt(c)]
  /\ holds' = holds \/ holds' = [holds EXCEPT ![c] = @ + 1]
  /\ answer' = answer /\ published' = published /\ inflight' = inflight /\ fast' = fast
  /\ ledger' = ledger /\ pubSeq' = pubSeq /\ log' = log
  /\ Calm

\* Its frame goes to the broker.
Publishes(c) ==
  /\ pc[c] = "handoff" /\ ~Refused(c)
  /\ pc' = [pc EXCEPT ![c] = "admission"]
  /\ log' = Append(log, Frame(c))
  /\ ledger' = [ledger EXCEPT ![c] = "pending"]
  /\ lock' = (IF lock = c THEN Nobody ELSE lock)
  /\ chans' = [chans EXCEPT ![c] = Rebuilt(c)]
  /\ pubSeq' = [n \in Channel |-> IF n \in Rebuilt(c) THEN pubSeq[n] + 1 ELSE pubSeq[n]]
  /\ published' = published \cup {c}
  /\ answer' = answer /\ inflight' = inflight /\ fast' = fast /\ holds' = holds
  /\ Calm

\* Each action of a coroutine has one of the three shapes.
LEMMA HubStepShapes ==
  ASSUME Lanes, NEW c \in Command, HubStep(c), cast' = cast
  PROVE  \/ \E r \in {"superseded", "failed", "acked"} : Ends(c, r)
         \/ \E p \in Busy : Moves(c, p)
         \/ Publishes(c)
<1> USE DEF lanes, entries, tokens, lifecycle, history, Calm, Goto, Busy, Finish, Retired,
            Transitions, Upset, Pending
<1>0. pc \in [Command -> Pcs] /\ (pc[c] \in {"yield", "handoff"} <=> lock = c)
  BY DEF Lanes, TypeOK, Typed
<1>1. CASE Execute(c)
  <2>1. CASE Live(c) = {}
    <3>1. Ends(c, "superseded")
      BY <1>0, <1>1, <2>1 DEF Execute, Ends, Pcs
    <3> QED BY <3>1
  <2>2. CASE Live(c) # {} /\ (OverlapStale(c) \/ PressStale(c))
    <3>1. Ends(c, "superseded")
      BY <1>0, <1>1, <2>2 DEF Execute, Ends, Pcs
    <3> QED BY <3>1
  <2>3. CASE Live(c) # {} /\ ~OverlapStale(c) /\ ~PressStale(c)
    <3>1. /\ pc[c] = "barrier" /\ barriers[c] \subseteq published
          /\ chans' = [chans EXCEPT ![c] = Rebuilt(c)]
          /\ UNCHANGED <<tokens, lifecycle, closed, history>>
          /\ \/ Upset /\ Finish(c, "failed")
             \/ /\ pc' = [pc EXCEPT ![c] = "lock"]
                /\ UNCHANGED <<answer, queue, inflight, fast, lock, members, barriers, published,
                               preempted, bypass, holds, upsets>>
      BY <1>1, <2>3 DEF Execute
    <3>2. CASE Finish(c, "failed") /\ Upset
      <4>1. Ends(c, "failed")
        BY <1>0, <3>1, <3>2 DEF Ends, Pcs
      <4> QED BY <4>1
    <3>3. CASE pc' = [pc EXCEPT ![c] = "lock"] /\
               UNCHANGED <<answer, queue, inflight, fast, lock, members, barriers, published,
                           preempted, bypass, holds, upsets>>
      <4>1. Moves(c, "lock")
        BY <1>0, <3>1, <3>3 DEF Moves, Pcs
      <4> QED BY <4>1
    <3> QED BY <3>1, <3>2, <3>3
  <2> QED BY <2>1, <2>2, <2>3
<1>2. CASE Acquire(c)
  <2>1. CASE Live(c) = {}
    BY <1>0, <1>2, <2>1 DEF Acquire, Ends, Pcs
  <2>2. CASE Live(c) # {}
    BY <1>0, <1>2, <2>2 DEF Acquire, Moves, Pcs
  <2> QED BY <2>1, <2>2
<1>3. CASE Decide(c)
  <2>1. CASE Refused(c)
    BY <1>0, <1>3, <2>1 DEF Decide, Ends, Pcs
  <2>2. CASE ~Refused(c) /\ Hold(c)
    BY <1>0, <1>3, <2>2 DEF Decide, Hold, Moves, Pcs
  <2>3. CASE ~Refused(c) /\ ~Hold(c)
    <3>1. /\ pc[c] = "yield" /\ Goto(c, "handoff") /\ chans' = [chans EXCEPT ![c] = Rebuilt(c)]
          /\ UNCHANGED <<lock, holds, answer, queue, inflight, fast, members, barriers, published,
                         preempted, bypass, tokens, lifecycle, closed, upsets, history>>
      BY <1>3, <2>3 DEF Decide
    <3>2. lock = c
      BY <1>0, <3>1
    <3>3. Moves(c, "handoff")
      BY <1>0, <3>1, <3>2 DEF Moves, Pcs
    <3> QED BY <3>3
  <2> QED BY <2>1, <2>2, <2>3
<1>4. CASE AirWake(c)
  BY <1>0, <1>4 DEF AirWake, Moves, Pcs
<1>5. CASE HandOff(c)
  <2>1. CASE Refused(c)
    BY <1>0, <1>5, <2>1 DEF HandOff, Ends, Pcs
  <2>2. CASE ~Refused(c)
    <3>1. /\ pc[c] = "handoff"
          /\ UNCHANGED <<admission, started, closed, requested, since>>
          /\ \/ Upset /\ Finish(c, "failed") /\ Retired(c) /\ UNCHANGED <<chans, tokens, log>>
             \/ /\ chans' = [chans EXCEPT ![c] = Rebuilt(c)]
                /\ Published(c, Rebuilt(c))
                /\ UNCHANGED upsets
      BY <1>5, <2>2 DEF HandOff
    <3>2. CASE Upset /\ Finish(c, "failed") /\ Retired(c) /\ UNCHANGED <<chans, tokens, log>>
      <4>1. Ends(c, "failed")
        BY <1>0, <3>1, <3>2 DEF Ends, Pcs
      <4> QED BY <4>1
    <3>3. CASE /\ chans' = [chans EXCEPT ![c] = Rebuilt(c)]
               /\ Published(c, Rebuilt(c))
               /\ UNCHANGED upsets
      BY <2>2, <3>1, <3>3 DEF Published, Publishes
    <3> QED BY <3>1, <3>2, <3>3
  <2> QED BY <2>1, <2>2
<1>6. CASE TakeAdmission(c)
  <2>1. CASE admission[c] = "accepted"
    BY <1>0, <1>6, <2>1 DEF TakeAdmission, Moves, Pcs
  <2>2. CASE admission[c] = "rejected"
    <3>1. /\ pc[c] = "admission" /\ Finish(c, "failed") /\ Retired(c)
          /\ UNCHANGED <<chans, tokens, admission, started, closed, upsets, history>>
      BY <1>6, <2>2 DEF TakeAdmission
    <3>2. ledger \in [Command -> {"none", "pending", "confirmed", "drained", "released", "gone"}]
      BY DEF Lanes, TypeOK, Typed
    <3>3. Ends(c, "failed")
      <4>1. ledger' = [ledger EXCEPT ![c] = IF @ = "pending" THEN "gone" ELSE @]
        BY <3>1
      <4>2. ledger'[c] # "pending"
        BY <3>2, <4>1
      <4>3. admission[c] # "accepted"
        BY <2>2
      <4> QED BY <1>0, <3>1, <4>1, <4>2, <4>3 DEF Ends, Pcs
    <3> QED BY <3>3
  <2>3. CASE admission[c] \notin {"accepted", "rejected"}
    BY <1>0, <1>6, <2>3 DEF TakeAdmission, Ends, Pcs, Lanes, TypeOK, Typed
  <2> QED BY <2>1, <2>2, <2>3
<1>7. CASE TakeStarted(c)
  <2>1. CASE started[c] = "started"
    <3>1. Ends(c, "acked")
      <4>1. /\ Finish(c, "acked") /\ pc[c] = "started"
            /\ ledger' = [ledger EXCEPT ![c] = IF @ = "pending" THEN "confirmed" ELSE @]
            /\ UNCHANGED <<chans, tokens, admission, started, closed, upsets, history>>
        BY <1>7, <2>1 DEF TakeStarted
      <4>2. ledger \in [Command -> {"none", "pending", "confirmed", "drained", "released", "gone"}]
        BY DEF Lanes, TypeOK, Typed
      <4>3. ledger'[c] # "pending" /\ (ledger'[c] = "gone" => ledger[c] = "gone")
        BY <4>1, <4>2
      <4> QED BY <1>0, <2>1, <4>1, <4>3 DEF Ends, Pcs
    <3> QED BY <3>1
  <2>2. CASE started[c] # "started"
    BY <1>0, <1>7, <2>2 DEF TakeStarted, Ends, Pcs, Lanes, TypeOK, Typed
  <2> QED BY <2>1, <2>2
<1>8. CASE Timeout(c)
  BY <1>0, <1>8 DEF Timeout, Ends, Pcs, Lanes, TypeOK, Typed
<1> QED BY <1>1, <1>2, <1>3, <1>4, <1>5, <1>6, <1>7, <1>8 DEF HubStep

----------------------------------------------------------------------------
(* The steps that rearrange the queue. *)

\* The queue loses T and entries nobody waits for; the others keep their order.
Sheds(T) ==
  /\ queue' \in Seq(Command) /\ Distinct(queue')
  /\ Range(queue') \subseteq Range(queue) \ T
  /\ \A d \in Range(queue) \ (Range(queue') \cup T) : Live(d) = {}
  /\ \A a, b \in Range(queue') : Ahead(queue, a, b) => Ahead(queue', a, b)

\* A pop: h leaves with the siblings B it absorbs.
Pops(h, B) ==
  /\ inflight = Nobody /\ inflight' = h
  /\ h \in Range(queue) /\ Live(h) # {} /\ B \subseteq Range(queue) \ {h}
  /\ \A d \in B : Key[d] = Key[h] /\ Key[h] # NoKey /\ Live(d) # {}
  /\ Sheds({h} \cup B)
  /\ \A a : Ahead(queue, a, h) => Live(a) = {}
  /\ \A a \in Range(queue) \ (B \cup {h}), b \in B :
       Ahead(queue, a, b) /\ Live(a) # {} => ~Overlaps(a, b)
  /\ pc' = [c \in Command |->
              IF c = h THEN "barrier" ELSE IF c \in B THEN "merged"
              ELSE IF c \in Range(queue) \ Range(queue') THEN "done" ELSE pc[c]]
  /\ members' \in [Command -> Seq(Command)]
  /\ \A c \in Command \ {h} : members'[c] = members[c]
  /\ Range(members'[h]) = Range(members[h]) \cup B
  /\ Key[h] = NoKey => members' = members /\ chans' = chans
  /\ chans' = [chans EXCEPT ![h] = @ \cup UNION {Chan[d] : d \in B}]
  /\ barriers' = [barriers EXCEPT ![h] = @ \cup UNION {barriers[d] \ published : d \in B}]
  /\ UNCHANGED <<answer, fast, lock, published, preempted, bypass, holds, tokens, lifecycle,
                 closed, upsets, history, cast>>

\* The recursion inside Absorbed, spelled out so that it can be named.
TakenStep(h, rest, cut, f, i) ==
  IF i = 0 THEN {}
  ELSE IF /\ i <= cut /\ Key[rest[i]] = Key[h] /\ Live(rest[i]) # {}
          /\ \A j \in 1..(i - 1) :
               Live(rest[j]) # {} /\ j \notin f[i - 1] => ~Overlaps(rest[j], rest[i])
    THEN f[i - 1] \cup {i}
    ELSE f[i - 1]

\* f is that recursion's function up to n.
TakenRec(h, rest, cut, f, n) == f = [i \in 0..n |-> TakenStep(h, rest, cut, f, i)]

\* Absorbed is the last entry of a function that satisfies its recursion.
LEMMA AbsorbedUnfolds ==
  ASSUME NEW h, NEW rest, NEW cut, Len(rest) \in Nat
  PROVE  \E f : TakenRec(h, rest, cut, f, Len(rest)) /\ Absorbed(h, rest, cut) = f[Len(rest)]
<1> DEFINE T == {k \in Nat : \E f : TakenRec(h, rest, cut, f, k)}
<1>1. 0 \in T
  <2>1. TakenRec(h, rest, cut, [i \in 0..0 |-> {}], 0)
    BY DEF TakenRec, TakenStep
  <2> QED BY <2>1
<1>2. ASSUME NEW k \in 1..Len(rest), k - 1 \in T PROVE k \in T
  <2>1. k \in Nat /\ k - 1 \in Nat
    OBVIOUS
  <2>2. PICK f : TakenRec(h, rest, cut, f, k - 1)
    BY <1>2
  <2> DEFINE g == [i \in 0..k |-> IF i = k THEN TakenStep(h, rest, cut, f, k) ELSE f[i]]
  <2>3. \A i \in 0..(k - 1) : f[i] = TakenStep(h, rest, cut, f, i)
    BY <2>2 DEF TakenRec
  <2>4. ASSUME NEW i \in 0..k PROVE g[i] = TakenStep(h, rest, cut, g, i)
    <3>1. i # 0 => g[i - 1] = f[i - 1]
      BY <2>1
    <3>2. TakenStep(h, rest, cut, g, i) = TakenStep(h, rest, cut, f, i)
      BY <3>1 DEF TakenStep
    <3> QED BY <2>1, <2>3, <3>2
  <2>5. g = [i \in 0..k |-> g[i]]
    OBVIOUS
  <2>6. TakenRec(h, rest, cut, g, k)
    <3> HIDE DEF g
    <3> QED BY <2>4, <2>5 DEF TakenRec
  <2> QED BY <2>1, <2>6
<1>3. \E f : TakenRec(h, rest, cut, f, Len(rest))
  <2> HIDE DEF T
  <2>1. \A k \in 0..Len(rest) : k \in T
    BY <1>1, <1>2, Induction
  <2>2. Len(rest) \in T
    BY <2>1
  <2> QED BY <2>2 DEF T
<1>4. Absorbed(h, rest, cut) = (CHOOSE f : TakenRec(h, rest, cut, f, Len(rest)))[Len(rest)]
  BY DEF Absorbed, TakenRec, TakenStep
<1>5. PICK f : f = CHOOSE g : TakenRec(h, rest, cut, g, Len(rest))
  OBVIOUS
<1> QED BY <1>3, <1>4, <1>5

\* A is what may be taken of the first k commands of rest.
TakenSoundly(h, rest, A, k) ==
  /\ A \subseteq 1..k
  /\ \A i \in A :
       /\ Key[rest[i]] = Key[h] /\ Live(rest[i]) # {}
       /\ \A j \in 1..(i - 1) : Live(rest[j]) # {} /\ j \notin A => ~Overlaps(rest[j], rest[i])

\* What _coalesce_queued_movements may take: live siblings, none of them from
\* behind a retained command that overlaps it.
LEMMA AbsorbedSiblings ==
  ASSUME NEW h, NEW rest, NEW cut, Len(rest) \in Nat
  PROVE  TakenSoundly(h, rest, Absorbed(h, rest, cut), Len(rest))
<1>1. PICK f : TakenRec(h, rest, cut, f, Len(rest)) /\ Absorbed(h, rest, cut) = f[Len(rest)]
  BY AbsorbedUnfolds
<1>2. \A i \in 0..Len(rest) : f[i] = TakenStep(h, rest, cut, f, i)
  BY <1>1 DEF TakenRec
<1> DEFINE T == {k \in Nat : TakenSoundly(h, rest, f[k], k)}
<1>3. 0 \in T
  <2>1. f[0] = TakenStep(h, rest, cut, f, 0)
    BY <1>2
  <2>2. f[0] = {}
    BY <2>1, Zenon DEF TakenStep
  <2> QED BY <2>2 DEF TakenSoundly
<1>4. ASSUME NEW k \in 1..Len(rest), k - 1 \in T PROVE k \in T
  <2>1. k \in Nat /\ k # 0 /\ k \in 0..Len(rest) /\ TakenSoundly(h, rest, f[k - 1], k - 1)
    BY <1>4
  <2>2. f[k] = TakenStep(h, rest, cut, f, k)
    BY <1>2, <2>1
  <2>3. CASE f[k] = f[k - 1]
    <3>1. PICK S : S = f[k - 1]
      OBVIOUS
    <3>2. TakenSoundly(h, rest, S, k - 1)
      BY <2>1, <3>1
    <3>0. S \subseteq 1..(k - 1)
      BY <3>2, Zenon DEF TakenSoundly
    <3>a. S \subseteq 1..k
      BY <2>1, <3>0
    <3>3. TakenSoundly(h, rest, S, k)
      BY <3>2, <3>a, Zenon DEF TakenSoundly
    <3> QED BY <2>1, <2>3, <3>1, <3>3
  <2>4. CASE f[k] # f[k - 1]
    <3>1. /\ Key[rest[k]] = Key[h] /\ Live(rest[k]) # {} /\ f[k] = f[k - 1] \cup {k}
          /\ \A j \in 1..(k - 1) :
               Live(rest[j]) # {} /\ j \notin f[k - 1] => ~Overlaps(rest[j], rest[k])
      BY <2>1, <2>2, <2>4 DEF TakenStep
    <3>2. PICK S : S = f[k - 1]
      OBVIOUS
    <3>3. TakenSoundly(h, rest, S, k - 1)
      BY <2>1, <3>2
    <3>4. TakenSoundly(h, rest, S \cup {k}, k)
      <4>0. S \subseteq 1..(k - 1)
        BY <3>3, Zenon DEF TakenSoundly
      <4>1. S \cup {k} \subseteq 1..k
        BY <2>1, <4>0
      <4>2. ASSUME NEW i \in S
            PROVE  /\ Key[rest[i]] = Key[h] /\ Live(rest[i]) # {}
                   /\ \A j \in 1..(i - 1) :
                        Live(rest[j]) # {} /\ j \notin S => ~Overlaps(rest[j], rest[i])
        BY <3>3 DEF TakenSoundly
      <4>3. \A j \in 1..(k - 1) : Live(rest[j]) # {} /\ j \notin S => ~Overlaps(rest[j], rest[k])
        BY <3>1, <3>2
      <4> QED BY <3>1, <4>1, <4>2, <4>3 DEF TakenSoundly
    <3> QED BY <2>1, <3>1, <3>2, <3>4
  <2> QED BY <2>3, <2>4
<1>5. Len(rest) \in T
  <2> HIDE DEF T
  <2>1. \A k \in 0..Len(rest) : k \in T
    BY <1>3, <1>4, Induction
  <2> QED BY <2>1
<1> QED BY <1>1, <1>5

\* Pop has the shape Pops: a head, and the siblings it takes along.
LEMMA PopShape ==
  ASSUME Lanes, Pop, cast' = cast
  PROVE  \E h \in Command, B \in SUBSET Command : Pops(h, B)
<1>b. PICK k : k = Min(Heads)
  OBVIOUS
<1>c. PICK h : h = queue[k]
  OBVIOUS
<1>d. PICK rest : rest = After(k)
  OBVIOUS
<1>a. /\ queue \in Seq(Command) /\ Distinct(queue) /\ Len(queue) \in Nat
      /\ DOMAIN queue = 1..Len(queue) /\ \A i \in 1..Len(queue) : queue[i] \in Command
  BY DEF Lanes, TypeOK, Typed
<1>0. /\ members \in [Command -> Seq(Command)] /\ chans \in [Command -> SUBSET Channel]
      /\ barriers \in [Command -> SUBSET Command] /\ pc \in [Command -> Pcs]
  BY DEF Lanes, TypeOK, Typed
<1>1. k \in 1..Len(queue) /\ Live(h) # {} /\ \A i \in 1..Len(queue) : Live(queue[i]) # {} => k <= i
  <2>1. Heads \in SUBSET Nat /\ Heads # {}
    <3>1. Heads # {}
      BY DEF Pop
    <3>2. Heads \subseteq DOMAIN queue
      BY DEF Heads
    <3> QED BY <1>a, <3>1, <3>2
  <2>2. Min(Heads) \in Heads /\ \A i \in Heads : Min(Heads) <= i
    BY <2>1, MinOf
  <2> QED BY <1>a, <1>b, <1>c, <2>2 DEF Heads
<1>2. h \in Command /\ h \in Range(queue)
  BY <1>a, <1>1, <1>c DEF Range
<1>3. /\ rest \in Seq(Command) /\ Distinct(rest) /\ Len(rest) \in Nat
      /\ Range(rest) = Range(queue) \ {queue[i] : i \in 1..k}
      /\ \A a, b \in Range(rest) : Ahead(queue, a, b) => Ahead(rest, a, b)
      /\ DOMAIN rest = 1..Len(rest)
      /\ \A i \in 1..Len(rest) : rest[i] = queue[i + k]
  <2>1. k + 1 \in 1..(Len(queue) + 1) /\ (k + 1) - 1 = k /\ \A i \in Nat : i + (k + 1) - 1 = i + k
    BY <1>a, <1>1
  <2>a. PICK n \in 1..(Len(queue) + 1) : n = k + 1
    BY <2>1
  <2>2. LET t == SubSeq(queue, n, Len(queue))
        IN  /\ t \in Seq(Command) /\ Distinct(t)
            /\ Range(t) = Range(queue) \ {queue[i] : i \in 1..(n - 1)}
            /\ \A a, b \in Range(t) : Ahead(queue, a, b) => Ahead(t, a, b)
            /\ Len(t) = Len(queue) - n + 1
            /\ \A i \in 1..Len(t) : t[i] = queue[i + n - 1]
    BY <1>a, SuffixKeeps
  <2>3. rest = SubSeq(queue, n, Len(queue)) /\ n - 1 = k /\ \A i \in Nat : i + n - 1 = i + k
    BY <1>1, <1>d, <2>a DEF After
  <2>4. /\ rest \in Seq(Command) /\ Distinct(rest)
        /\ Range(rest) = Range(queue) \ {queue[i] : i \in 1..k}
        /\ \A a, b \in Range(rest) : Ahead(queue, a, b) => Ahead(rest, a, b)
        /\ \A i \in 1..Len(rest) : rest[i] = queue[i + n - 1]
    BY <2>2, <2>3, Zenon
  <2>5. Len(rest) \in Nat /\ DOMAIN rest = 1..Len(rest)
    BY <2>4
  <2>6. \A i \in 1..Len(rest) : i + n - 1 = i + k
    BY <2>3, <2>5
  <2>7. \A i \in 1..Len(rest) : rest[i] = queue[i + k]
    BY <2>4, <2>6, Zenon
  <2>8. Range(rest) = Range(queue) \ {queue[i] : i \in 1..k}
    BY <2>3, <2>4, Zenon
  <2> QED BY <2>4, <2>5, <2>7, <2>8, Zenon
<1>4. h \notin Range(rest)
  BY <1>1, <1>3, <1>c
<1>5. \A a : Ahead(queue, a, h) => Live(a) = {}
  <2>1. SUFFICES ASSUME NEW a, Ahead(queue, a, h) PROVE Live(a) = {}
    OBVIOUS
  <2>2. PICK i \in 1..Len(queue), j \in 1..Len(queue) : i < j /\ queue[i] = a /\ queue[j] = h
    BY <1>a, <2>1 DEF Ahead
  <2>3. j = k
    BY <1>a, <1>1, <1>c, <2>2 DEF Distinct
  <2> QED BY <1>1, <2>2, <2>3
<1>6. \A d \in Range(queue) \ (Range(rest) \cup {h}) : Live(d) = {}
  <2>1. SUFFICES ASSUME NEW i \in 1..k, queue[i] # h PROVE Live(queue[i]) = {}
    BY <1>3
  <2>2. i # k /\ i \in 1..Len(queue) /\ ~(k <= i)
    BY <1>a, <1>1, <1>c, <2>1
  <2> QED BY <1>1, <2>2
<1>7. inflight = Nobody /\ inflight' = h /\ UNCHANGED <<answer, fast, lock, published, preempted,
         bypass, holds, tokens, lifecycle, closed, upsets, history>>
  BY <1>b, <1>c DEF Pop
<1>8. PopOne(h, rest) \/ \E cut \in 0..Len(rest) : PopBatch(h, rest, cut)
  BY <1>b, <1>c, <1>d DEF Pop
<1>9. CASE PopOne(h, rest)
  <2>1. Pops(h, {})
    <3>1. queue' = rest /\ Key[h] = NoKey /\ UNCHANGED <<members, chans, barriers>>
          /\ pc' = [c \in Command |->
                      IF c = h THEN "barrier"
                      ELSE IF c \in Range(queue) \ Range(rest) THEN "done" ELSE pc[c]]
      BY <1>9 DEF PopOne
    <3>2. Sheds({h} \cup {})
      BY <1>3, <1>4, <1>6, <3>1 DEF Sheds
    <3>3. /\ chans = [chans EXCEPT ![h] = @ \cup UNION {Chan[d] : d \in {}}]
          /\ barriers = [barriers EXCEPT ![h] = @ \cup UNION {barriers[d] \ published : d \in {}}]
      BY <1>0, <1>2
    <3> QED BY <1>0, <1>1, <1>2, <1>5, <1>7, <3>1, <3>2, <3>3 DEF Pops
  <2> QED BY <1>2, <2>1
<1>10. ASSUME NEW cut \in 0..Len(rest), PopBatch(h, rest, cut) PROVE \E B \in SUBSET Command : Pops(h, B)
  <2>1. PICK A : A = Absorbed(h, rest, cut)
    OBVIOUS
  <2>2. /\ A \subseteq 1..Len(rest)
        /\ \A i \in A :
             /\ Key[rest[i]] = Key[h] /\ Live(rest[i]) # {}
             /\ \A j \in 1..(i - 1) :
                  Live(rest[j]) # {} /\ j \notin A => ~Overlaps(rest[j], rest[i])
    <3>1. Len(rest) \in Nat
      BY <1>3
    <3>2. TakenSoundly(h, rest, A, Len(rest))
      BY <2>1, <3>1, AbsorbedSiblings
    <3> QED BY <3>2 DEF TakenSoundly
  <2>3. PICK B : B = {rest[i] : i \in A}
    OBVIOUS
  <2>4. B \subseteq Range(rest) /\ B \subseteq Command /\ Range(rest) \subseteq Command
    BY <1>3, <2>2, <2>3 DEF Range
  <2>5. PICK K : K = {d \in Command \ B : Live(d) # {}}
    OBVIOUS
  <2>6. /\ Only(rest, K) \in Seq(Command) /\ Distinct(Only(rest, K))
        /\ Range(Only(rest, K)) = Range(rest) \cap K
        /\ \A a, b \in K : Ahead(rest, a, b) => Ahead(Only(rest, K), a, b)
    BY <1>3, OnlyKeeps
  <2>7. /\ Only(rest, B) \in Seq(Command) /\ Range(Only(rest, B)) = B
    <3>1. /\ Only(rest, B) \in Seq(Command) /\ Range(Only(rest, B)) = Range(rest) \cap B
      BY <1>3, OnlyKeeps
    <3> QED BY <2>4, <3>1
  <2>8. /\ Key[h] # NoKey /\ queue' = Only(rest, K)
        /\ members' = [members EXCEPT ![h] = @ \o Only(rest, B)]
        /\ chans' = [chans EXCEPT ![h] = @ \cup UNION {Chan[d] : d \in B}]
        /\ barriers' = [barriers EXCEPT ![h] = @ \cup UNION {barriers[d] \ published : d \in B}]
        /\ pc' = [c \in Command |->
                    IF c = h THEN "barrier" ELSE IF c \in B THEN "merged"
                    ELSE IF c \in Range(queue) \ Range(Only(rest, K)) THEN "done" ELSE pc[c]]
    BY <1>10, <2>1, <2>3, <2>5 DEF PopBatch
  <2>9. Sheds({h} \cup B)
    <3>1. Range(queue') \subseteq Range(queue) \ ({h} \cup B)
      BY <1>3, <1>4, <2>5, <2>6, <2>8
    <3>2. ASSUME NEW d \in Range(queue) \ (Range(queue') \cup ({h} \cup B)) PROVE Live(d) = {}
      BY <1>3, <1>6, <2>4, <2>5, <2>6, <2>8
    <3>3. ASSUME NEW a \in Range(queue'), NEW b \in Range(queue'), Ahead(queue, a, b)
          PROVE  Ahead(queue', a, b)
      <4>1. a \in K /\ b \in K /\ Ahead(rest, a, b)
        BY <1>3, <2>6, <2>8, <3>3
      <4> QED BY <2>6, <2>8, <4>1
    <3> QED BY <2>6, <2>8, <3>1, <3>2, <3>3 DEF Sheds
  <2>10. /\ members' \in [Command -> Seq(Command)]
         /\ \A c \in Command \ {h} : members'[c] = members[c]
         /\ Range(members'[h]) = Range(members[h]) \cup B
    <3>1. PICK s \in Seq(Command) : s = members[h]
      BY <1>0, <1>2
    <3>2. PICK t \in Seq(Command) : t = Only(rest, B)
      BY <2>7
    <3>3. s \o t \in Seq(Command) /\ Range(s \o t) = Range(s) \cup Range(t)
      BY RangeConcatenation
    <3> QED BY <1>0, <1>2, <2>7, <2>8, <3>1, <3>2, <3>3
  <2>11. ASSUME NEW a \in Range(queue) \ (B \cup {h}), NEW b \in B, Ahead(queue, a, b), Live(a) # {}
         PROVE  ~Overlaps(a, b)
    <3>1. a \in Range(rest) /\ b \in Range(rest)
      BY <1>6, <2>4, <2>11
    <3>2. PICK i \in 1..Len(rest), j \in 1..Len(rest) : i < j /\ rest[i] = a /\ rest[j] = b
      BY <1>3, <2>11, <3>1 DEF Ahead
    <3>3. PICK n \in A : rest[n] = b
      BY <2>3
    <3>4. n = j
      BY <1>3, <2>2, <3>2, <3>3 DEF Distinct
    <3>5. i \notin A /\ i \in 1..(j - 1)
      BY <2>3, <2>11, <3>2
    <3> QED BY <2>2, <2>11, <3>2, <3>3, <3>4, <3>5
  <2>12. \A d \in B : Key[d] = Key[h] /\ Key[h] # NoKey /\ Live(d) # {}
    BY <2>2, <2>3, <2>8
  <2>13. B \subseteq Range(queue) \ {h}
    BY <1>3, <1>4, <2>4
  <2>14. Pops(h, B)
    BY <1>1, <1>2, <1>5, <1>7, <2>8, <2>9, <2>10, <2>11, <2>12, <2>13 DEF Pops
  <2> QED BY <2>4, <2>14
<1> QED BY <1>2, <1>8, <1>9, <1>10

\* Discard drops the resolved heads.
Drops ==
  /\ Sheds({})
  /\ pc' = [c \in Command |-> IF c \in Range(queue) \ Range(queue') THEN "done" ELSE pc[c]]
  /\ UNCHANGED <<answer, inflight, fast, lock, entries, tokens, lifecycle, closed, upsets, history,
                 cast>>

\* Discard has the shape Drops: empty entries leave the queue.
LEMMA DiscardShape ==
  ASSUME Lanes, Discard, cast' = cast
  PROVE  Drops
<1>1. /\ queue \in Seq(Command) /\ Distinct(queue) /\ Len(queue) \in Nat
      /\ DOMAIN queue = 1..Len(queue) /\ \A i \in 1..Len(queue) : queue[i] \in Command
  BY DEF Lanes, TypeOK, Typed
<1>2. Heads \in SUBSET (1..Len(queue)) /\ \A i \in 1..Len(queue) : Live(queue[i]) # {} <=> i \in Heads
  BY <1>1 DEF Heads
<1>3. pc' = [c \in Command |->
               IF \E i \in 1..Len(queue) : queue[i] = c /\ \A k \in Heads : i < k
                 THEN "done" ELSE pc[c]]
  BY <1>1 DEF Discard
<1>4. CASE Heads = {}
  <2>1. queue' = <<>>
    BY <1>4 DEF Discard
  <2>2. Range(queue') = {} /\ queue' \in Seq(Command) /\ Distinct(queue')
    BY <2>1 DEF Range, Distinct
  <2>3. \A d \in Range(queue) : Live(d) = {}
    BY <1>1, <1>2, <1>4 DEF Range
  <2>4. Sheds({})
    BY <2>2, <2>3 DEF Sheds
  <2>5. \A c : c \in Range(queue) \ Range(queue') <=> \E i \in 1..Len(queue) : queue[i] = c
    BY <1>1, <2>2 DEF Range
  <2>6. pc' = [c \in Command |-> IF c \in Range(queue) \ Range(queue') THEN "done" ELSE pc[c]]
    BY <1>3, <1>4, <2>5
  <2> QED BY <2>4, <2>6 DEF Drops, Discard
<1>5. CASE Heads # {}
  <2>1. Min(Heads) \in Heads /\ \A i \in Heads : Min(Heads) <= i
    BY <1>1, <1>2, <1>5, MinOf
  <2>a. Min(Heads) \in 1..Len(queue)
    BY <1>2, <2>1
  <2>2. PICK k \in 1..(Len(queue) + 1) : k = Min(Heads)
    BY <1>1, <2>a
  <2>3. queue' = SubSeq(queue, k, Len(queue))
    BY <1>5, <2>2 DEF Discard
  <2>4. /\ queue' \in Seq(Command) /\ Distinct(queue')
        /\ Range(queue') = Range(queue) \ {queue[i] : i \in 1..(k - 1)}
        /\ \A a, b \in Range(queue') : Ahead(queue, a, b) => Ahead(queue', a, b)
    <3>1. queue \in Seq(Command) /\ Distinct(queue)
      BY <1>1
    <3>2. PICK t : t = SubSeq(queue, k, Len(queue))
      OBVIOUS
    <3>3. /\ t \in Seq(Command) /\ Distinct(t)
          /\ Range(t) = Range(queue) \ {queue[i] : i \in 1..(k - 1)}
          /\ \A a, b \in Range(t) : Ahead(queue, a, b) => Ahead(t, a, b)
      BY <3>1, <3>2, SuffixKeeps
    <3> QED BY <2>3, <3>2, <3>3
  <2>5. \A i \in 1..(k - 1) : i \in 1..Len(queue) /\ Live(queue[i]) = {} /\ \A j \in Heads : i < j
    BY <1>1, <1>2, <2>1, <2>2
  <2>6. Sheds({})
    BY <2>4, <2>5 DEF Sheds
  <2>7. \A i \in 1..Len(queue) : (\A j \in Heads : i < j) => i \in 1..(k - 1)
    BY <1>2, <2>1, <2>2
  <2>8. \A c : c \in Range(queue) \ Range(queue') <=>
                 \E i \in 1..Len(queue) : queue[i] = c /\ \A j \in Heads : i < j
    <3>1. \A i \in 1..Len(queue) : queue[i] \in Range(queue)
      BY <1>1 DEF Range
    <3> QED BY <2>4, <2>5, <2>7, <3>1
  <2>9. pc' = [c \in Command |-> IF c \in Range(queue) \ Range(queue') THEN "done" ELSE pc[c]]
    BY <1>3, <2>8
  <2> QED BY <2>6, <2>9 DEF Drops, Discard
<1> QED BY <1>4, <1>5

\* What the STOP c retires from the queue, races with, and cuts short.
StopRetires(c) == {d \in Range(queue) : Kind[d] = "move" /\ Overlaps(d, c)}

\* The worker's command, if the STOP overtakes it.
StopRaces(c) == {d \in Unpublished({inflight} \ {Nobody}) : Overlaps(d, c)}

\* The move among them that waits for the air.
StopCuts(c) == {d \in StopRaces(c) : Kind[d] = "move" /\ pc[d] = "airwait"}

\* An admitted STOP stands behind every live entry it overlaps, or nobody like
\* that is queued and it takes the fast lane.
Stops(c) ==
  /\ Kind[c] = "stop" /\ pc[c] = "idle" /\ ~closed
  /\ answer' = [m \in Command |->
                  IF m = c THEN "open"
                  ELSE IF \E d \in StopCuts(c) \cup StopRetires(c) : m \in Live(d) THEN "superseded"
                  ELSE answer[m]]
  /\ published' = published \cup StopCuts(c)
  /\ preempted' = preempted \cup {d \in StopRaces(c) : Kind[d] = "move"}
  /\ barriers' = [barriers EXCEPT ![c] = Barriers(c, published \cup StopCuts(c))]
  /\ bypass' \in SUBSET Command
  /\ queue' \in Seq(Command) /\ Distinct(queue')
  /\ \A a, b \in Range(queue) \ StopRetires(c) : Ahead(queue, a, b) => Ahead(queue', a, b)
  /\ \/ /\ Range(queue') = Range(queue) \ StopRetires(c) /\ fast' = fast \cup {c}
        /\ \A d \in Range(queue) \ StopRetires(c) : Live(d) # {} => ~Overlaps(d, c)
        /\ pc' = [d \in Command |->
                    IF d = c THEN "barrier" ELSE IF d \in StopRetires(c) THEN "done" ELSE pc[d]]
     \/ /\ Range(queue') = (Range(queue) \ StopRetires(c)) \cup {c} /\ fast' = fast
        /\ \A d \in Range(queue) \ StopRetires(c) :
             Live(d) # {} /\ Overlaps(d, c) => Ahead(queue', d, c)
        /\ pc' = [d \in Command |->
                    IF d = c THEN "queued" ELSE IF d \in StopRetires(c) THEN "done" ELSE pc[d]]
  /\ UNCHANGED <<inflight, lock, members, chans, holds>>

\* Admitting a STOP has the shape Stops.
LEMMA StopShape ==
  ASSUME Lanes, NEW c \in Command, AdmitStop(c), pc[c] = "idle"
  PROVE  Stops(c)
<1>1. /\ queue \in Seq(Command) /\ Distinct(queue) /\ bypass \in SUBSET Command
      /\ c \notin Range(queue)
  BY DEF Lanes, TypeOK, Typed
<1>2. PICK K : K = Command \ StopRetires(c)
  OBVIOUS
<1>3. PICK kept : kept = Only(queue, K)
  OBVIOUS
<1>4. /\ kept \in Seq(Command) /\ Range(kept) = Range(queue) \cap K
      /\ Distinct(kept) /\ \A a, b \in K : Ahead(queue, a, b) => Ahead(kept, a, b)
  BY <1>1, <1>3, OnlyKeeps
<1>5. Len(kept) \in Nat /\ DOMAIN kept = 1..Len(kept) /\ \A i \in 1..Len(kept) : kept[i] \in Command
  BY <1>4
<1>6. PICK front : front = {i \in DOMAIN kept : Overlaps(kept[i], c) /\ Live(kept[i]) # {}}
  OBVIOUS
<1>7. Range(queue) \subseteq Command
  BY <1>1 DEF Range
<1>8. Range(kept) = Range(queue) \ StopRetires(c)
  BY <1>2, <1>4, <1>7
<1>9. \A a, b \in Range(queue) \ StopRetires(c) : Ahead(queue, a, b) => Ahead(kept, a, b)
  BY <1>2, <1>4, <1>7
<1>10. /\ Kind[c] = "stop" /\ ~closed
       /\ answer' = [m \in Command |->
                       IF m = c THEN "open"
                       ELSE IF \E d \in StopCuts(c) \cup StopRetires(c) : m \in Live(d)
                         THEN "superseded" ELSE answer[m]]
       /\ published' = published \cup StopCuts(c)
       /\ preempted' = preempted \cup {d \in StopRaces(c) : Kind[d] = "move"}
       /\ barriers' = [barriers EXCEPT ![c] = Barriers(c, published \cup StopCuts(c))]
       /\ bypass' = bypass \cup {d \in StopRaces(c) : Kind[d] # "move"}
                           \cup (IF front = {} THEN {} ELSE {kept[Max(front)]})
       /\ IF front = {}
            THEN queue' = kept /\ fast' = fast \cup {c}
            ELSE queue' = InsertAt(kept, Max(front) + 1, c) /\ UNCHANGED fast
       /\ pc' = [d \in Command |->
                   IF d = c THEN (IF front = {} THEN "barrier" ELSE "queued")
                   ELSE IF d \in StopRetires(c) THEN "done" ELSE pc[d]]
       /\ UNCHANGED <<inflight, lock, members, chans, holds>>
  BY <1>2, <1>3, <1>6 DEF AdmitStop, StopRetires, StopRaces, StopCuts
<1>11. StopRaces(c) \subseteq Command
  BY DEF StopRaces, Unpublished, Lanes, TypeOK, Typed
<1>12. CASE front = {}
  <2>1. \A d \in Range(queue) \ StopRetires(c) : Live(d) # {} => ~Overlaps(d, c)
    <3>1. \A i \in DOMAIN kept : Live(kept[i]) # {} => ~Overlaps(kept[i], c)
      BY <1>6, <1>12
    <3> QED BY <1>8, <3>1 DEF Range
  <2>2. bypass' \in SUBSET Command
    BY <1>1, <1>10, <1>11, <1>12
  <2>3. pc' = [d \in Command |->
                 IF d = c THEN "barrier" ELSE IF d \in StopRetires(c) THEN "done" ELSE pc[d]]
    BY <1>10, <1>12
  <2>4. queue' = kept /\ fast' = fast \cup {c}
    BY <1>10, <1>12
  <2> QED BY <1>4, <1>8, <1>9, <1>10, <2>1, <2>2, <2>3, <2>4 DEF Stops
<1>13. CASE front # {}
  <2>1. front \in SUBSET (0..Len(kept))
    BY <1>5, <1>6
  <2>2. Max(front) \in front /\ \A i \in front : i <= Max(front)
    BY <1>5, <1>13, <2>1, MaxOf
  <2>a. PICK top \in 1..Len(kept) : top = Max(front)
    BY <1>5, <1>6, <2>2
  <2>b. top + 1 \in 1..(Len(kept) + 1)
    BY <1>5, <2>a
  <2>3. PICK k \in 1..(Len(kept) + 1) : k = top + 1
    BY <2>b
  <2>4. queue' = InsertAt(kept, k, c) /\ fast' = fast
    BY <1>10, <1>13, <2>a, <2>3
  <2>5. /\ queue' \in Seq(Command)
        /\ Range(queue') = Range(kept) \cup {c}
        /\ Distinct(queue')
        /\ \A a, b : Ahead(kept, a, b) => Ahead(queue', a, b)
        /\ \A i \in 1..(k - 1) : Ahead(queue', kept[i], c)
    BY <1>1, <1>4, <2>4, InsertKeeps
  <2>6. \A d \in Range(queue) \ StopRetires(c) : Live(d) # {} /\ Overlaps(d, c) => Ahead(queue', d, c)
    <3>1. \A i \in DOMAIN kept : Live(kept[i]) # {} /\ Overlaps(kept[i], c) => i \in 1..(k - 1)
      <4>1. \A i \in front : i \in 1..Len(kept) /\ i <= top
        BY <1>5, <1>6, <2>2, <2>a
      <4>2. \A i \in front : i \in 1..(k - 1)
        BY <1>5, <2>3, <4>1
      <4> QED BY <1>6, <4>2
    <3> QED BY <1>8, <2>5, <3>1 DEF Range
  <2>7. bypass' \in SUBSET Command
    <3>1. kept[Max(front)] \in Command
      BY <1>5, <1>6, <2>2
    <3> QED BY <1>1, <1>10, <1>11, <1>13, <3>1
  <2>8. pc' = [d \in Command |->
                 IF d = c THEN "queued" ELSE IF d \in StopRetires(c) THEN "done" ELSE pc[d]]
    BY <1>10, <1>13
  <2>9. Range(queue') = (Range(queue) \ StopRetires(c)) \cup {c}
        /\ \A a, b \in Range(queue) \ StopRetires(c) : Ahead(queue, a, b) => Ahead(queue', a, b)
    BY <1>8, <1>9, <2>5
  <2> QED BY <1>10, <2>4, <2>5, <2>6, <2>7, <2>8, <2>9 DEF Stops
<1> QED BY <1>12, <1>13

\* The drain of owner o.
DrainQueued(o) == {d \in Range(queue) : Owner[d] = o}

\* The worker's command, if it waits for the air.
DrainWaiting(o) == {d \in Unpublished({inflight} \ {Nobody}) : Owner[d] = o /\ pc[d] = "airwait"}

\* The STOPs on the fast lane that are not published.
DrainStops(o) == {d \in Unpublished(fast) : Owner[d] = o}

\* What the drain does to the lanes and the answers.
Drains(o) ==
  /\ ~closed /\ upsets' \in {upsets, upsets + 1}
  /\ Sheds(DrainQueued(o)) /\ Range(queue') = Range(queue) \ DrainQueued(o)
  /\ pc' = [d \in Command |-> IF d \in DrainQueued(o) THEN "done" ELSE pc[d]]
  /\ answer' = [m \in Command |->
                  IF \E d \in DrainQueued(o) \cup DrainStops(o) \cup DrainWaiting(o) : m \in Live(d)
                    THEN "superseded" ELSE answer[m]]
  /\ published' = published \cup DrainQueued(o) \cup DrainWaiting(o)
  /\ UNCHANGED <<inflight, fast, lock, members, chans, barriers, preempted, bypass, holds,
                 tokens, lifecycle, closed, requested, log, since, cast>>

\* DrainOwner has the shape Drains.
LEMMA DrainShape ==
  ASSUME Lanes, NEW o, DrainOwner(o), cast' = cast
  PROVE  Drains(o)
<1>1. queue \in Seq(Command) /\ Distinct(queue) /\ Range(queue) \subseteq Command
  <2>1. queue \in Seq(Command) /\ Distinct(queue)
    BY DEF Lanes, TypeOK, Typed
  <2> QED BY <2>1 DEF Range
<1>2. PICK K : K = Command \ DrainQueued(o)
  OBVIOUS
<1>3. queue' = Only(queue, K)
  BY <1>2 DEF DrainOwner, DrainQueued
<1>4. /\ queue' \in Seq(Command) /\ Range(queue') = Range(queue) \cap K
      /\ Distinct(queue') /\ \A a, b \in K : Ahead(queue, a, b) => Ahead(queue', a, b)
  BY <1>1, <1>3, OnlyKeeps
<1>5. Range(queue') = Range(queue) \ DrainQueued(o)
  BY <1>1, <1>2, <1>4
<1>6. Sheds(DrainQueued(o))
  BY <1>2, <1>4, <1>5 DEF Sheds
<1> QED BY <1>5, <1>6 DEF Drains, DrainOwner, Upset, DrainQueued, DrainWaiting, DrainStops

----------------------------------------------------------------------------
(* A bridge status resolves futures and settles the ledger, nothing else. *)

Marks(c) ==
  /\ Pending(c) \/ Aired(c)
  /\ \/ admission' = admission
     \/ /\ Pending(c) /\ admission[c] = "open"
        /\ \E r \in {"accepted", "rejected", "displaced"} : admission' = [admission EXCEPT ![c] = r]
  /\ \/ started' = started
     \/ /\ Pending(c) /\ started[c] = "open"
        /\ \E r \in {"started", "displaced"} : started' = [started EXCEPT ![c] = r]
  /\ \E l \in {"gone", "drained", "released"} : ledger' \in {ledger, [ledger EXCEPT ![c] = l]}
  /\ ledger'[c] = "gone" /\ ledger[c] # "gone" /\ Pending(c) =>
       admission'[c] \in {"rejected", "displaced"} \/ started'[c] = "displaced"
  /\ ledger'[c] = "gone" /\ ledger[c] # "gone" => ledger[c] = "pending"
  /\ upsets' \in {upsets, upsets + 1}
  /\ UNCHANGED <<answer, pc, lanes, entries, tokens, closed, history, cast>>

\* Each status has the shape Marks.
LEMMA StatusShape ==
  ASSUME Lanes, NEW c \in Command, cast' = cast,
         \/ Accepted(c) \/ Rejected(c) \/ StartedStatus(c)
         \/ DisplacedStatus(c) \/ DisarmedStatus(c)
  PROVE  Marks(c)
<1>1. /\ ledger \in [Command -> {"none", "pending", "confirmed", "drained", "released", "gone"}]
      /\ admission \in [Command -> {"open", "accepted", "rejected", "displaced"}]
      /\ started \in [Command -> {"open", "started", "displaced"}]
  BY DEF Lanes, TypeOK, Typed
<1>2. CASE Accepted(c) \/ Rejected(c) \/ StartedStatus(c)
  BY <1>1, <1>2 DEF Accepted, Rejected, StartedStatus, Marks, Upset
<1>3. CASE DisplacedStatus(c)
  <2>1. /\ Aired(c) /\ Upset /\ FailAwaited(c)
        /\ UNCHANGED <<answer, pc, lanes, entries, tokens, closed, history>>
    BY <1>3 DEF DisplacedStatus
  <2>2. PICK z \in BOOLEAN : z = (Pending(c) /\ admission[c] # "open" /\ started[c] = "started")
    OBVIOUS
  <2>3. ledger' = [ledger EXCEPT ![c] =
                     CASE @ = "pending" /\ z -> "drained"
                       [] @ = "pending" /\ ~z -> "gone"
                       [] @ = "confirmed" -> "drained"
                       [] OTHER -> @]
    BY <1>3, <2>2 DEF DisplacedStatus
  <2>4. PICK x : x = ledger[c]
    OBVIOUS
  <2>5. \/ ledger' = ledger
        \/ ledger' = [ledger EXCEPT ![c] = "drained"]
        \/ ledger' = [ledger EXCEPT ![c] = "gone"] /\ x = "pending" /\ ~z
    BY <1>1, <2>3, <2>4
  <2>6. \/ admission' = admission
        \/ /\ Pending(c) /\ admission[c] = "open"
           /\ admission' = [admission EXCEPT ![c] = "displaced"]
    BY <2>1 DEF FailAwaited
  <2>7. \/ started' = started
        \/ /\ Pending(c) /\ started[c] = "open"
           /\ started' = [started EXCEPT ![c] = "displaced"]
    BY <2>1 DEF FailAwaited
  <2>8. Pending(c) /\ ~z => admission'[c] \in {"rejected", "displaced"} \/ started'[c] = "displaced"
    BY <1>1, <2>1, <2>2 DEF FailAwaited
  <2>9. ledger'[c] = "gone" /\ ledger[c] # "gone" => ledger[c] = "pending" /\ ~z
    BY <1>1, <2>4, <2>5
  <2> QED BY <2>1, <2>5, <2>6, <2>7, <2>8, <2>9 DEF Marks, Upset
<1>4. CASE DisarmedStatus(c)
  <2>1. /\ Aired(c) /\ Upset /\ FailAwaited(c)
        /\ UNCHANGED <<answer, pc, lanes, entries, tokens, closed, history>>
        /\ ledger' = [ledger EXCEPT ![c] = IF @ = "drained" THEN @ ELSE "released"]
    BY <1>4 DEF DisarmedStatus
  <2>2. ledger' = ledger \/ ledger' = [ledger EXCEPT ![c] = "released"]
    BY <1>1, <2>1
  <2>3. \/ admission' = admission
        \/ /\ Pending(c) /\ admission[c] = "open"
           /\ admission' = [admission EXCEPT ![c] = "displaced"]
    BY <2>1 DEF FailAwaited
  <2>4. \/ started' = started
        \/ /\ Pending(c) /\ started[c] = "open"
           /\ started' = [started EXCEPT ![c] = "displaced"]
    BY <2>1 DEF FailAwaited
  <2>5. ledger'[c] # "gone" \/ ledger[c] = "gone"
    BY <1>1, <2>2
  <2> QED BY <2>1, <2>2, <2>3, <2>4, <2>5 DEF Marks, Upset
<1> QED BY <1>2, <1>3, <1>4

----------------------------------------------------------------------------
(* Every step has one of these shapes. *)

\* Whatever becomes of a request, it is recorded.
Asks(c) ==
  /\ pc[c] = (IF c \in Measured THEN "measured" ELSE "idle")
  /\ pressSeen' = [pressSeen EXCEPT ![c] = pressSeq]
  /\ requested' = Append(requested, c)
  /\ since' = (IF c \in Measured THEN since ELSE [since EXCEPT ![c] = Len(log)])
  /\ UNCHANGED <<pressSeq, pubSeq, pubSeen, lifecycle, closed, upsets, log, cast>>

\* A request enters: into the queue, into the fast lane, or it is refused.
Entrance(c) == Asks(c) /\ (QueueOrdinary(c) \/ Stops(c) \/ Refuse(c))

\* The shapes a step can have.
Shapes ==
  \/ \E h \in Command, B \in SUBSET Command : Pops(h, B)
  \/ Drops
  \/ \E c \in Command :
       \/ \E r \in {"superseded", "failed", "acked"} : Ends(c, r)
       \/ \E p \in Busy : Moves(c, p)
       \/ Publishes(c)
       \/ Entrance(c)
       \/ (Measure(c) \/ Cancel(c)) /\ cast' = cast
       \/ Marks(c)
  \/ \E S \in SUBSET Channel : Press(S) /\ cast' = cast
  \/ \E o \in cast.departing : Drains(o)
  \/ Close /\ cast' = cast

\* Every step of Next has one of them.
LEMMA StepShapes ==
  ASSUME Lanes, Next
  PROVE  Shapes
<1>1. cast' = cast
  BY DEF Next
<1>2. cast.commands \subseteq Command
  BY CastsAreOfCommands DEF Lanes, TypeOK, Typed
<1>3. CASE Pop
  BY <1>1, <1>3, PopShape DEF Shapes
<1>4. CASE Discard
  BY <1>1, <1>4, DiscardShape DEF Shapes
<1>5. ASSUME NEW c \in cast.commands, HubStep(c) PROVE Shapes
  BY <1>1, <1>2, <1>5, HubStepShapes DEF Shapes
<1>6. ASSUME NEW c \in cast.commands, Measure(c) \/ Cancel(c) PROVE Shapes
  BY <1>1, <1>2, <1>6 DEF Shapes
<1>7. ASSUME NEW c \in cast.commands, Request(c) PROVE Shapes
  <2>1. c \in Command
    BY <1>2
  <2>2. Asks(c)
    BY <1>1, <1>7 DEF Request, Asks
  <2>3. CASE AdmitStop(c)
    <3>1. c \notin Measured
      BY <2>1, <2>3, HubAssumption DEF AdmitStop
    <3>2. pc[c] = "idle"
      BY <2>2, <3>1 DEF Asks
    <3>3. Stops(c)
      BY <2>1, <2>3, <3>2, StopShape
    <3> QED BY <2>1, <2>2, <3>3 DEF Entrance, Shapes
  <2> QED BY <1>7, <2>1, <2>2, <2>3 DEF Request, Entrance, Shapes
<1>8. ASSUME NEW c \in cast.commands,
             \/ Accepted(c) \/ Rejected(c) \/ StartedStatus(c)
             \/ DisplacedStatus(c) \/ DisarmedStatus(c)
      PROVE  Shapes
  BY <1>1, <1>2, <1>8, StatusShape DEF Shapes
<1>9. ASSUME NEW o \in cast.departing, DrainOwner(o) PROVE Shapes
  BY <1>1, <1>9, DrainShape DEF Shapes
<1> QED BY <1>1, <1>3, <1>4, <1>5, <1>6, <1>7, <1>8, <1>9 DEF Next, Shapes

----------------------------------------------------------------------------
(* Lanes is inductive. *)

LEMMA LiveAndRebuilt ==
  ASSUME Lanes, NEW c \in Command
  PROVE  Live(c) \in SUBSET Command /\ Rebuilt(c) \in SUBSET Channel
<1>1. members[c] \in Seq(Command) /\ chans[c] \in SUBSET Channel
  BY DEF Lanes, TypeOK, Typed
<1>2. Range(members[c]) \subseteq Command
  BY <1>1 DEF Range
<1>3. Live(c) \in SUBSET Command
  BY <1>2 DEF Live
<1> QED BY <1>1, <1>3, HubAssumption DEF Rebuilt

\* What Lanes says of one entry, in one place.
Agree(c) ==
  /\ pc[c] \in {"yield", "handoff"} <=> lock = c
  /\ pc[c] = "queued" <=> c \in Range(queue)
  /\ c \in fast \/ c = inflight <=> pc[c] \in Busy

\* Lanes with its quantifiers gathered by command, the form the steps prove.
LaneParts ==
  /\ Typed
  /\ Distinct(queue)
  /\ \A c \in Command : Agree(c)
  /\ inflight \notin fast
  /\ \A c \in fast : Kind[c] = "stop"
  /\ closed => \A c \in Command : pc[c] \in {"idle", "measured", "done"} /\ answer[c] # "open"

\* The two forms agree.
LEMMA LanesParts == Lanes <=> LaneParts
<1>1. ASSUME Typed
      PROVE  TypeOK /\ (\A c \in Command : pc[c] \in Busy => c \in Running)
               <=> \A c \in Command : Agree(c)
  <2>1. \A c \in Command : pc[c] \in Pcs /\ (c \in Running <=> c \in fast \/ c = inflight)
    BY <1>1, HubAssumption DEF Typed, Running
  <2>2. \A p \in Pcs : p \in Busy <=> p \notin {"idle", "measured", "queued", "merged", "done"}
    BY DEF Pcs, Busy
  <2> QED BY <1>1, <2>1, <2>2, Zenon DEF TypeOK, Agree
<1> QED BY <1>1 DEF Lanes, LaneParts, TypeOK

\* The same, for the unprimed side of a step.
LEMMA LanesSplit == Lanes => LaneParts
BY LanesParts

\* The same, for the primed side of a step.
LEMMA LanesNext == LaneParts' => Lanes'
BY LanesParts, PTL

\* The worker takes a head and its siblings out of the queue.
LEMMA PopKeepsLanes ==
  ASSUME Lanes, NEW h \in Command, NEW B \in SUBSET Command, Pops(h, B)
  PROVE  LaneParts'
<1> USE LanesSplit DEF LaneParts
<1>1. Typed'
  <2>1. \A d \in B : Chan[d] \in SUBSET Channel
    BY HubAssumption
  <2>2. chans' \in [Command -> SUBSET Channel]
    BY <2>1 DEF Pops, Typed
  <2>3. barriers' \in [Command -> SUBSET Command]
    BY DEF Pops, Typed
  <2>4. pc' \in [Command -> Pcs]
    <3>1. pc \in [Command -> Pcs] /\ "barrier" \in Pcs /\ "merged" \in Pcs /\ "done" \in Pcs
      BY DEF Typed, Pcs
    <3> QED BY <3>1 DEF Pops
  <2> QED BY <2>2, <2>3, <2>4 DEF Pops, Sheds, Typed, tokens, lifecycle, history
<1>2. ~closed
  <2>1. pc[h] = "queued"
    BY DEF Pops, Agree
  <2> QED BY <2>1
<1>3. Distinct(queue') /\ inflight' \notin fast' /\ \A c \in fast' : Kind[c] = "stop"
  BY DEF Pops, Sheds, Agree, Busy
<1>4. ASSUME NEW c \in Command PROVE Agree(c)'
  <2>1. Range(queue') \subseteq Range(queue) \ ({h} \cup B)
    BY DEF Pops, Sheds
  <2>2. B \subseteq Range(queue) /\ h \in Range(queue) /\ h \notin B /\ inflight = Nobody
        /\ inflight' = h /\ fast' = fast /\ lock' = lock /\ Nobody # c
    BY HubAssumption DEF Pops
  <2>3. pc'[c] = IF c = h THEN "barrier" ELSE IF c \in B THEN "merged"
                 ELSE IF c \in Range(queue) \ Range(queue') THEN "done" ELSE pc[c]
    BY DEF Pops
  <2>4. Agree(c)
    OBVIOUS
  <2> QED BY <2>1, <2>2, <2>3, <2>4 DEF Agree, Busy
<1> QED BY <1>1, <1>2, <1>3, <1>4 DEF Pops

\* Entries without callers, or of a departing owner, leave the queue.
LEMMA ShedKeepsLanes ==
  ASSUME Lanes, Drops \/ \E o : Drains(o)
  PROVE  LaneParts'
<1> USE LanesSplit DEF LaneParts
<1>1. CASE Drops
  <2>1. Typed'
    <3>1. pc' \in [Command -> Pcs]
      BY <1>1 DEF Drops, Typed, Pcs
    <3> QED BY <1>1, <3>1 DEF Drops, Sheds, Typed, entries, tokens, lifecycle, history
  <2>2. ASSUME NEW c \in Command PROVE Agree(c)'
    <3>1. /\ pc'[c] = IF c \in Range(queue) \ Range(queue') THEN "done" ELSE pc[c]
          /\ Range(queue') \subseteq Range(queue)
          /\ inflight' = inflight /\ fast' = fast /\ lock' = lock
      BY <1>1 DEF Drops, Sheds
    <3>2. Agree(c)
      OBVIOUS
    <3> QED BY <3>1, <3>2 DEF Agree, Busy
  <2> QED BY <1>1, <2>1, <2>2 DEF Drops, Sheds
<1>2. ASSUME NEW o, Drains(o) PROVE LaneParts'
  <2>1. Typed'
    <3>1. pc' \in [Command -> Pcs]
      BY <1>2 DEF Drains, Typed, Pcs
    <3>2. answer' \in [Command -> Answers]
      BY <1>2 DEF Drains, Typed, Answers
    <3>3. published' \in SUBSET Command /\ upsets' \in Nat
      BY <1>2 DEF Drains, DrainQueued, DrainWaiting, Unpublished, Typed, Range
    <3> QED BY <1>2, <3>1, <3>2, <3>3 DEF Drains, Sheds, Typed, entries, tokens, lifecycle
  <2>2. ASSUME NEW c \in Command PROVE Agree(c)'
    <3>1. /\ pc'[c] = IF c \in DrainQueued(o) THEN "done" ELSE pc[c]
          /\ Range(queue') = Range(queue) \ DrainQueued(o) /\ DrainQueued(o) \subseteq Range(queue)
          /\ inflight' = inflight /\ fast' = fast /\ lock' = lock
      BY <1>2 DEF Drains, DrainQueued
    <3>2. Agree(c)
      OBVIOUS
    <3> QED BY <3>1, <3>2 DEF Agree, Busy
  <2> QED BY <1>2, <2>1, <2>2 DEF Drains, Sheds
<1> QED BY <1>1, <1>2

\* A coroutine goes on, publishes or ends.
LEMMA CoroutineKeepsLanes ==
  ASSUME Lanes, NEW c \in Command,
         \/ \E r \in {"superseded", "failed", "acked"} : Ends(c, r)
         \/ \E p \in Busy : Moves(c, p)
         \/ Publishes(c)
  PROVE  LaneParts'
<1> USE LanesSplit DEF LaneParts
<1>1. pc[c] \in Busy /\ ~closed
  <2>1. pc[c] \in Busy
    BY DEF Ends, Moves, Publishes, Busy, Transitions
  <2> QED BY <2>1 DEF Busy
<1>2. ASSUME NEW r \in {"superseded", "failed", "acked"}, Ends(c, r) PROVE LaneParts'
  <2>1. Typed'
    <3>1. answer' \in [Command -> Answers] /\ published' \in SUBSET Command
      BY <1>2 DEF Ends, Typed, Answers
    <3>2. chans' \in [Command -> SUBSET Channel]
      <4>1. chans' = chans \/ chans' = [chans EXCEPT ![c] = Rebuilt(c)]
        BY <1>2, Zenon DEF Ends
      <4>2. chans \in [Command -> SUBSET Channel] /\ Rebuilt(c) \in SUBSET Channel
        BY LiveAndRebuilt DEF Typed
      <4> QED BY <4>1, <4>2
    <3>3. ledger' \in [Command -> {"none", "pending", "confirmed", "drained", "released", "gone"}]
      BY <1>2 DEF Ends, Typed
    <3>4. pc' \in [Command -> Pcs] /\ inflight' \in Command \cup {Nobody}
          /\ fast' \in SUBSET Command /\ lock' \in Command \cup {Nobody}
      BY <1>2 DEF Ends, Typed, Pcs
    <3>5. upsets' \in Nat
      BY <1>2 DEF Ends, Calm, Typed
    <3> QED BY <1>2, <3>1, <3>2, <3>3, <3>4, <3>5 DEF Ends, Calm, Typed
  <2>2. ASSUME NEW d \in Command PROVE Agree(d)'
    <3>1. /\ pc'[d] = IF d = c THEN "done" ELSE pc[d]
          /\ queue' = queue /\ lock' = (IF lock = c THEN Nobody ELSE lock)
          /\ inflight' = (IF inflight = c THEN Nobody ELSE inflight) /\ fast' = fast \ {c}
      BY <1>2 DEF Ends, Calm, Typed
    <3>2. Agree(d) /\ Nobody # d
      BY HubAssumption
    <3> QED BY <1>1, <3>1, <3>2 DEF Agree, Busy
  <2>3. inflight' \notin fast' /\ \A d \in fast' : Kind[d] = "stop"
    <3>1. Nobody \notin fast
      BY HubAssumption DEF Typed
    <3> QED BY <1>2, <3>1 DEF Ends
  <2>4. closed' = closed /\ queue' = queue
    BY <1>2 DEF Ends, Calm
  <2> QED BY <1>1, <2>1, <2>2, <2>3, <2>4
<1>3. ASSUME NEW p \in Busy, Moves(c, p) PROVE LaneParts'
  <2>1. Typed'
    <3>2. chans' \in [Command -> SUBSET Channel]
      <4>1. chans' = chans \/ chans' = [chans EXCEPT ![c] = Rebuilt(c)]
        BY <1>3, Zenon DEF Moves
      <4>2. chans \in [Command -> SUBSET Channel] /\ Rebuilt(c) \in SUBSET Channel
        BY LiveAndRebuilt DEF Typed
      <4> QED BY <4>1, <4>2
    <3>3. holds' \in [Command -> Nat] /\ upsets' \in Nat
      <4>1. holds' = holds \/ holds' = [holds EXCEPT ![c] = @ + 1]
        BY <1>3, Zenon DEF Moves
      <4>2. upsets' \in {upsets, upsets + 1}
        BY <1>3, Zenon DEF Moves, Calm
      <4>3. holds \in [Command -> Nat] /\ upsets \in Nat
        BY Zenon DEF Typed
      <4> QED BY <4>1, <4>2, <4>3
    <3>4. pc' \in [Command -> Pcs] /\ lock' \in Command \cup {Nobody}
      BY <1>3 DEF Moves, Typed, Pcs, Busy
    <3> QED BY <1>3, <3>2, <3>3, <3>4 DEF Moves, Calm, Typed
  <2>2. ASSUME NEW d \in Command PROVE Agree(d)'
    <3>1. /\ pc'[d] = IF d = c THEN p ELSE pc[d]
          /\ <<pc[c], p>> \in Transitions /\ (p = "yield" => lock = Nobody)
          /\ queue' = queue /\ inflight' = inflight /\ fast' = fast
          /\ lock' = (IF p \in {"yield", "handoff"} THEN c ELSE IF p = "airwait" THEN Nobody ELSE lock)
      BY <1>3 DEF Moves, Calm, Typed
    <3>2. Agree(d) /\ Agree(c) /\ Nobody # d
      BY HubAssumption
    <3> QED BY <1>1, <3>1, <3>2 DEF Agree, Busy, Transitions
  <2>3. closed' = closed /\ queue' = queue /\ inflight' = inflight /\ fast' = fast
    BY <1>3 DEF Moves, Calm
  <2> QED BY <1>1, <2>1, <2>2, <2>3
<1>4. ASSUME Publishes(c) PROVE LaneParts'
  <2>1. Typed'
    <3>1. log' \in Seq([cmd: Command, live: SUBSET Command, chans: SUBSET Channel])
      <4>1. Frame(c) \in [cmd: Command, live: SUBSET Command, chans: SUBSET Channel]
        BY LiveAndRebuilt DEF Frame
      <4>2. log \in Seq([cmd: Command, live: SUBSET Command, chans: SUBSET Channel])
        BY DEF Typed
      <4> QED BY <1>4, <4>1, <4>2 DEF Publishes
    <3>2. chans' \in [Command -> SUBSET Channel]
      BY <1>4, LiveAndRebuilt DEF Publishes, Typed
    <3>3. ledger' \in [Command -> {"none", "pending", "confirmed", "drained", "released", "gone"}]
          /\ pubSeq' \in [Channel -> Nat] /\ upsets' \in Nat
      <4>1. /\ ledger \in [Command -> {"none", "pending", "confirmed", "drained", "released", "gone"}]
            /\ pubSeq \in [Channel -> Nat] /\ upsets \in Nat
        BY Zenon DEF Typed
      <4>2. /\ ledger' = [ledger EXCEPT ![c] = "pending"]
            /\ pubSeq' = [n \in Channel |-> IF n \in Rebuilt(c) THEN pubSeq[n] + 1 ELSE pubSeq[n]]
            /\ upsets' \in {upsets, upsets + 1}
        BY <1>4, Zenon DEF Publishes, Calm
      <4> QED BY <4>1, <4>2
    <3>4. pc' \in [Command -> Pcs] /\ published' \in SUBSET Command /\ lock' \in Command \cup {Nobody}
      BY <1>4 DEF Publishes, Typed, Pcs
    <3> QED BY <1>4, <3>1, <3>2, <3>3, <3>4 DEF Publishes, Calm, Typed
  <2>2. ASSUME NEW d \in Command PROVE Agree(d)'
    <3>1. /\ pc'[d] = IF d = c THEN "admission" ELSE pc[d]
          /\ queue' = queue /\ inflight' = inflight /\ fast' = fast
          /\ lock' = (IF lock = c THEN Nobody ELSE lock)
      BY <1>4 DEF Publishes, Calm, Typed
    <3>2. Agree(d) /\ Agree(c) /\ Nobody # d
      BY HubAssumption
    <3> QED BY <1>1, <3>1, <3>2 DEF Agree, Busy
  <2>3. closed' = closed /\ queue' = queue /\ inflight' = inflight /\ fast' = fast
    BY <1>4 DEF Publishes, Calm
  <2> QED BY <1>1, <2>1, <2>2, <2>3
<1> QED BY <1>2, <1>3, <1>4

\* A request enters.
LEMMA EntranceKeepsLanes ==
  ASSUME Lanes, NEW c \in Command, Entrance(c)
  PROVE  LaneParts'
<1> USE LanesSplit DEF LaneParts
<1>1. /\ pc[c] \in {"idle", "measured"} /\ c \notin Range(queue) /\ c # inflight /\ c \notin fast
      /\ Asks(c)
  BY DEF Entrance, Asks, Agree, Busy
<1>2. ASSUME pc' \in [Command -> Pcs], answer' \in [Command -> Answers], queue' \in Seq(Command),
             fast' \in SUBSET Command, barriers' \in [Command -> SUBSET Command],
             published' \in SUBSET Command, preempted' \in SUBSET Command, bypass' \in SUBSET Command,
             UNCHANGED <<inflight, lock, members, chans, holds>>
      PROVE  Typed'
  <2>1. requested' \in Seq(Command)
    <3>1. requested \in Seq(Command)
      BY DEF Typed
    <3> QED BY <1>1, <3>1 DEF Asks
  <2>2. pressSeen' \in [Command -> [Channel -> Nat]]
    BY <1>1 DEF Asks, Typed
  <2>3. since' \in [Command -> Nat]
    <3>1. Len(log) \in Nat
      BY DEF Typed
    <3> QED BY <1>1, <3>1 DEF Asks, Typed
  <2> QED BY <1>1, <1>2, <2>1, <2>2, <2>3 DEF Asks, Typed, lifecycle
<1>3. \A S : Barriers(c, S) \in SUBSET Command
  BY DEF Barriers, Running, Typed
<1>4. CASE QueueOrdinary(c)
  <2>1. /\ queue' \in Seq(Command) /\ Distinct(queue') /\ Range(queue') = Range(queue) \cup {c}
    <3>1. queue \in Seq(Command) /\ Distinct(queue) /\ queue' = Append(queue, c)
      BY <1>4 DEF QueueOrdinary, Typed
    <3> QED BY <1>1, <3>1, AppendKeeps
  <2>2. Typed'
    BY <1>2, <1>3, <1>4, <2>1 DEF QueueOrdinary, Goto, Typed, Pcs, Answers
  <2>3. ASSUME NEW d \in Command PROVE Agree(d)'
    <3>1. /\ pc'[d] = IF d = c THEN "queued" ELSE pc[d]
          /\ inflight' = inflight /\ fast' = fast /\ lock' = lock
      BY <1>4 DEF QueueOrdinary, Goto, Typed
    <3>2. Agree(d)
      OBVIOUS
    <3> QED BY <1>1, <2>1, <3>1, <3>2 DEF Agree, Busy
  <2> QED BY <1>1, <1>4, <2>1, <2>2, <2>3 DEF QueueOrdinary, Asks
<1>5. CASE Stops(c)
  <2>1. StopRaces(c) \subseteq Command /\ StopCuts(c) \subseteq Command
    BY DEF StopRaces, StopCuts, Unpublished, Typed
  <2>2. pc' \in [Command -> Pcs] /\ fast' \in SUBSET Command
    BY <1>5 DEF Stops, Typed, Pcs
  <2>3. answer' \in [Command -> Answers]
    BY <1>5 DEF Stops, Typed, Answers
  <2>4. barriers' \in [Command -> SUBSET Command] /\ published' \in SUBSET Command
        /\ preempted' \in SUBSET Command
    BY <1>3, <1>5, <2>1 DEF Stops, Typed
  <2>5. Typed'
    BY <1>2, <1>5, <2>2, <2>3, <2>4 DEF Stops
  <2>6. ASSUME NEW d \in Command PROVE Agree(d)'
    <3>1. /\ inflight' = inflight /\ lock' = lock
          /\ \/ /\ Range(queue') = Range(queue) \ StopRetires(c) /\ fast' = fast \cup {c}
                /\ pc'[d] = IF d = c THEN "barrier" ELSE IF d \in StopRetires(c) THEN "done" ELSE pc[d]
             \/ /\ Range(queue') = (Range(queue) \ StopRetires(c)) \cup {c} /\ fast' = fast
                /\ pc'[d] = IF d = c THEN "queued" ELSE IF d \in StopRetires(c) THEN "done" ELSE pc[d]
      BY <1>5 DEF Stops
    <3>2. StopRetires(c) \subseteq Range(queue)
      BY DEF StopRetires
    <3>3. Agree(d)
      OBVIOUS
    <3> QED BY <1>1, <3>1, <3>2, <3>3 DEF Agree, Busy
  <2> QED BY <1>1, <1>5, <2>5, <2>6 DEF Stops, Asks
<1>6. CASE Refuse(c)
  <2>1. Typed'
    BY <1>2, <1>6 DEF Refuse, Goto, lanes, entries, Typed, Pcs, Answers
  <2>2. ASSUME NEW d \in Command PROVE Agree(d)'
    <3>1. /\ pc'[d] = IF d = c THEN "done" ELSE pc[d]
          /\ queue' = queue /\ inflight' = inflight /\ fast' = fast /\ lock' = lock
      BY <1>6 DEF Refuse, Goto, lanes, Typed
    <3>2. Agree(d)
      OBVIOUS
    <3> QED BY <1>1, <3>1, <3>2 DEF Agree, Busy
  <2>3. closed' = closed /\ queue' = queue /\ inflight' = inflight /\ fast' = fast
    BY <1>1, <1>6 DEF Refuse, Asks, lanes
  <2>4. closed => \A d \in Command : pc'[d] \in {"idle", "measured", "done"} /\ answer'[d] # "open"
    BY <1>6 DEF Refuse, Goto, Typed
  <2> QED BY <2>1, <2>2, <2>3, <2>4
<1> QED BY <1>4, <1>5, <1>6 DEF Entrance

\* What callers, bridges and remotes do leaves the lanes alone.
LEMMA OutsideKeepsLanes ==
  ASSUME Lanes,
         \/ \E c \in Command : (Measure(c) \/ Cancel(c)) /\ cast' = cast
         \/ \E c \in Command : Marks(c)
         \/ \E S \in SUBSET Channel : Press(S) /\ cast' = cast
  PROVE  LaneParts'
<1> USE LanesSplit DEF LaneParts
<1> USE DEF lanes, entries, history
<1>1. ASSUME NEW c \in Command, Measure(c), cast' = cast PROVE LaneParts'
  <2>1. Typed'
    <3>1. since' \in [Command -> Nat]
      <4>1. Len(log) \in Nat
        BY DEF Typed
      <4> QED BY <1>1, <4>1 DEF Measure, Typed
    <3>2. pc' \in [Command -> Pcs] /\ pubSeen' \in [Command -> [Channel -> Nat]]
      BY <1>1 DEF Measure, Goto, Typed, Pcs
    <3> QED BY <1>1, <3>1, <3>2 DEF Measure, Typed, lifecycle
  <2>2. ASSUME NEW d \in Command PROVE Agree(d)'
    <3>1. /\ pc'[d] = IF d = c THEN "measured" ELSE pc[d]
          /\ pc[c] = "idle"
          /\ queue' = queue /\ inflight' = inflight /\ fast' = fast /\ lock' = lock
      BY <1>1 DEF Measure, Goto, Typed
    <3>2. Agree(d)
      OBVIOUS
    <3> QED BY <3>1, <3>2 DEF Agree, Busy
  <2>3. queue' = queue /\ inflight' = inflight /\ fast' = fast /\ closed' = closed /\ answer' = answer
    BY <1>1, Zenon DEF Measure
  <2>4. \A d \in Command : pc'[d] = IF d = c THEN "measured" ELSE pc[d]
    BY <1>1 DEF Measure, Goto, Typed
  <2> QED BY <2>1, <2>2, <2>3, <2>4
<1>2. ASSUME NEW c \in Command, Cancel(c), cast' = cast PROVE LaneParts'
  <2>1. Typed'
    <3>1. upsets' \in Nat /\ answer' \in [Command -> Answers]
      <4>1. upsets \in Nat /\ answer \in [Command -> Answers]
        BY Zenon DEF Typed
      <4>2. upsets' = upsets + 1 /\ answer' = [answer EXCEPT ![c] = "cancelled"]
        BY <1>2, Zenon DEF Cancel, Upset
      <4> QED BY <4>1, <4>2 DEF Answers
    <3> QED BY <1>2, <3>1 DEF Cancel, Typed, tokens, lifecycle
  <2>2. \A d \in Command : Agree(d)'
    BY <1>2 DEF Cancel, Agree
  <2> QED BY <1>2, <2>1, <2>2 DEF Cancel, Typed
<1>3. ASSUME NEW c \in Command, Marks(c) PROVE LaneParts'
  <2>a. /\ admission \in [Command -> {"open", "accepted", "rejected", "displaced"}]
        /\ started \in [Command -> {"open", "started", "displaced"}]
        /\ ledger \in [Command -> {"none", "pending", "confirmed", "drained", "released", "gone"}]
        /\ upsets \in Nat
    BY Zenon DEF Typed
  <2>b. \/ admission' = admission
        \/ \E r \in {"accepted", "rejected", "displaced"} : admission' = [admission EXCEPT ![c] = r]
    BY <1>3, Zenon DEF Marks
  <2>c. \/ started' = started
        \/ \E r \in {"started", "displaced"} : started' = [started EXCEPT ![c] = r]
    BY <1>3, Zenon DEF Marks
  <2>d. \E l \in {"gone", "drained", "released"} : ledger' \in {ledger, [ledger EXCEPT ![c] = l]}
    BY <1>3, Zenon DEF Marks
  <2>1. admission' \in [Command -> {"open", "accepted", "rejected", "displaced"}]
    BY <2>a, <2>b
  <2>2. started' \in [Command -> {"open", "started", "displaced"}]
    BY <2>a, <2>c
  <2>3. ledger' \in [Command -> {"none", "pending", "confirmed", "drained", "released", "gone"}]
    BY <2>a, <2>d
  <2>4. Typed'
    <3>1. upsets' \in Nat
      <4>1. upsets' \in {upsets, upsets + 1}
        BY <1>3, Zenon DEF Marks
      <4> QED BY <2>a, <4>1
    <3>2. UNCHANGED <<answer, pc, lanes, entries, tokens, closed, history, cast>>
      BY <1>3, Zenon DEF Marks
    <3> QED BY <2>1, <2>2, <2>3, <3>1, <3>2 DEF Typed, tokens
  <2>5. UNCHANGED <<answer, pc, lanes, closed>>
    BY <1>3, Zenon DEF Marks
  <2>6. \A d \in Command : Agree(d)'
    BY <2>5 DEF Agree
  <2> QED BY <2>4, <2>5, <2>6
<1>4. ASSUME NEW S \in SUBSET Channel, Press(S), cast' = cast PROVE LaneParts'
  <2>1. Typed'
    <3>1. upsets' \in Nat /\ pressSeq' \in [Channel -> Nat] /\ pubSeq' \in [Channel -> Nat]
      <4>1. upsets \in Nat /\ pressSeq \in [Channel -> Nat] /\ pubSeq \in [Channel -> Nat]
        BY Zenon DEF Typed
      <4>2. upsets' = upsets + 1
            /\ pressSeq' = [n \in Channel |-> IF n \in S THEN pressSeq[n] + 1 ELSE pressSeq[n]]
            /\ pubSeq' = [n \in Channel |-> IF n \in S THEN pubSeq[n] + 1 ELSE pubSeq[n]]
        BY <1>4, Zenon DEF Press, Upset
      <4> QED BY <4>1, <4>2
    <3> QED BY <1>4, <3>1 DEF Press, Typed, lifecycle
  <2>2. \A d \in Command : Agree(d)'
    BY <1>4 DEF Press, Agree
  <2> QED BY <1>4, <2>1, <2>2 DEF Press
<1> QED BY <1>1, <1>2, <1>3, <1>4

\* The close empties them.
LEMMA CloseKeepsLanes ==
  ASSUME Lanes, Close, cast' = cast
  PROVE  LaneParts'
<1> USE LanesSplit DEF LaneParts
<1>1. Typed'
  <2>1. pc' \in [Command -> Pcs] /\ answer' \in [Command -> Answers]
    BY DEF Close, Typed, Pcs, Answers
  <2>2. ledger' \in [Command -> {"none", "pending", "confirmed", "drained", "released", "gone"}]
        /\ pressSeq' \in [Channel -> Nat] /\ upsets' \in Nat /\ published' \in SUBSET Command
    BY DEF Close, Upset, Typed, Running
  <2> QED BY <2>1, <2>2 DEF Close, Typed, history
<1>2. Range(queue') = {} /\ Distinct(queue')
  BY DEF Close, Range, Distinct
<1>3. \A c \in Command : Agree(c)'
  <2>1. ASSUME NEW c \in Command PROVE Agree(c)'
    <3>1. pc'[c] \in {"idle", "measured", "done"} /\ inflight' = Nobody /\ fast' = {}
          /\ lock' = Nobody /\ Nobody # c
      BY HubAssumption DEF Close
    <3> QED BY <1>2, <3>1 DEF Agree, Busy
  <2> QED BY <2>1
<1>4. \A c \in Command : pc'[c] \in {"idle", "measured", "done"} /\ answer'[c] # "open"
  BY DEF Close
<1> QED BY <1>1, <1>2, <1>3, <1>4 DEF Close

\* Nothing is in a lane at the beginning.
LEMMA InitLanes == Init => Lanes
<1> SUFFICES ASSUME Init PROVE LaneParts
  BY LanesParts
<1> USE DEF LaneParts
<1>1. Typed
  <2>1. members \in [Command -> Seq(Command)]
    BY DEF Init
  <2>2. <<>> \in Seq(Command) /\ <<>> \in Seq([cmd: Command, live: SUBSET Command, chans: SUBSET Channel])
    OBVIOUS
  <2>3. pressSeq \in [Channel -> Nat] /\ pubSeq \in [Channel -> Nat]
        /\ pressSeen \in [Command -> [Channel -> Nat]] /\ pubSeen \in [Command -> [Channel -> Nat]]
    BY DEF Init
  <2>4. chans \in [Command -> SUBSET Channel]
    BY HubAssumption DEF Init
  <2> QED BY <2>1, <2>2, <2>3, <2>4 DEF Init, Typed, Pcs, Answers
<1>2. Range(queue) = {} /\ Distinct(queue)
  BY DEF Init, Range, Distinct
<1>3. \A c \in Command : Agree(c)
  BY <1>2, HubAssumption DEF Init, Agree, Busy
<1> QED BY <1>1, <1>2, <1>3 DEF Init

\* Lanes is kept by every step.
LEMMA StepKeepsLanes ==
  ASSUME Lanes, [Next]_vars
  PROVE  Lanes'
<1>1. CASE Shapes
  BY <1>1, LanesNext, PopKeepsLanes, ShedKeepsLanes, CoroutineKeepsLanes, EntranceKeepsLanes,
     OutsideKeepsLanes, CloseKeepsLanes DEF Shapes
<1>2. CASE UNCHANGED vars
  BY <1>2 DEF vars, lanes, entries, tokens, lifecycle, history, Lanes, TypeOK, Typed, Running
<1> QED BY <1>1, <1>2, StepShapes

\* Lanes holds in every reachable state.
LEMMA LanesAlways == Spec => []Lanes
BY InitLanes, StepKeepsLanes, PTL DEF Spec

\* Every queue entry is suspended in the queue and nowhere else, the lock is
\* held by exactly the coroutine that checks or hands off, and a lane holds
\* nothing but coroutines that run: _queue, _inflight, _fast_lane_commands and
\* the publish lock never contradict each other.
THEOREM TypeCorrect == Spec => []TypeOK
<1>1. Lanes => TypeOK
  BY DEF Lanes
<1> QED BY <1>1, LanesAlways, PTL

----------------------------------------------------------------------------
(* After the close nothing reaches the broker. *)

\* After the close nothing reaches the broker, whatever was queued, waiting on
\* a barrier, on the lock or on the air when close cancelled it, and whoever
\* still asks (close and the second look at _closed in _async_enqueue).
THEOREM ClosedIsSilent == Spec => NothingAfterClose
<1>1. ASSUME Lanes, [Next]_vars PROVE [closed => log' = log]_vars
  <2>1. CASE UNCHANGED vars
    BY <2>1
  <2>2. CASE Shapes
    <3>1. closed => \A c \in Command : pc[c] \notin Busy
      BY <1>1 DEF Lanes, Busy
    <3>2. closed => ~\E c \in Command :
                      (\E p \in Busy : Moves(c, p)) \/ Publishes(c)
      BY <3>1 DEF Moves, Publishes, Busy, Transitions
    <3> QED BY <2>2, <3>2 DEF Shapes, Pops, Drops, Ends, Entrance, Asks, Measure, Cancel, Marks, Press,
                              Drains, Close, history
  <2> QED BY <1>1, <2>1, <2>2, StepShapes
<1> QED BY <1>1, LanesAlways, PTL DEF Spec, NothingAfterClose

----------------------------------------------------------------------------
(* The cap on outstanding commands. *)

\* Capped as the code counts it, and the set it counts is finite.
Capped == IsFiniteSet(Outstanding) /\ Cardinality(Outstanding) <= cast.cap

\* No step but an ordinary request adds to what is outstanding.
LEMMA OutstandingGrows ==
  ASSUME Lanes, Shapes
  PROVE  \/ Outstanding' \subseteq Outstanding
         \/ \E c \in Command : Cardinality(Outstanding) < cast.cap
                               /\ Outstanding' \subseteq Outstanding \cup {c}
<1> DEFINE Grows(q, f, i) == {c \in q \cup (f \cup ({i} \ {Nobody})) : Kind[c] # "stop"}
<1>1. Outstanding = Grows(Range(queue), fast, inflight)
      /\ Outstanding' = Grows(Range(queue'), fast', inflight')
  BY DEF Outstanding, Running
<1> HIDE DEF Grows
<1>2. ASSUME Range(queue') \subseteq Range(queue), fast' \subseteq fast,
             inflight' \in Range(queue) \cup {inflight, Nobody}
      PROVE  Outstanding' \subseteq Outstanding
  BY <1>1, <1>2 DEF Grows
<1>3. ASSUME NEW h \in Command, NEW B, Pops(h, B) PROVE Outstanding' \subseteq Outstanding
  BY <1>2, <1>3 DEF Pops, Sheds
<1>4. CASE Drops \/ \E o : Drains(o)
  BY <1>2, <1>4 DEF Drops, Drains, Sheds
<1>5. ASSUME NEW c, \/ \E r : Ends(c, r)
                    \/ \E p : Moves(c, p)
                    \/ Publishes(c)
      PROVE  Outstanding' \subseteq Outstanding
  <2>1. queue' = queue /\ fast' \subseteq fast /\ inflight' \in {inflight, Nobody}
    BY <1>5 DEF Ends, Moves, Publishes, Calm
  <2> QED BY <1>2, <2>1
<1>6. CASE \/ \E c : Measure(c) \/ Cancel(c) \/ Marks(c)
           \/ \E S : Press(S)
  BY <1>2, <1>6 DEF Measure, Cancel, Marks, Press, lanes
<1>7. CASE Close
  <2>1. Range(queue') = {} /\ fast' = {} /\ inflight' = Nobody
    BY <1>7 DEF Close, Range
  <2> QED BY <1>2, <2>1
<1>8. ASSUME NEW c \in Command, Entrance(c)
      PROVE  \/ Outstanding' \subseteq Outstanding
             \/ Cardinality(Outstanding) < cast.cap /\ Outstanding' \subseteq Outstanding \cup {c}
  <2>1. CASE Refuse(c)
    BY <1>2, <2>1 DEF Refuse, lanes
  <2>2. CASE QueueOrdinary(c)
    <3>1. queue \in Seq(Command)
      BY DEF Lanes, TypeOK, Typed
    <3>2. Range(queue') = Range(queue) \cup {c}
      BY <2>2, <3>1, AppendKeeps DEF QueueOrdinary
    <3>3. fast' = fast /\ inflight' = inflight /\ Cardinality(Outstanding) < cast.cap
      BY <2>2 DEF QueueOrdinary
    <3> QED BY <1>1, <3>2, <3>3 DEF Grows
  <2>3. CASE Stops(c)
    <3>1. Range(queue') \subseteq Range(queue) \cup {c} /\ fast' \subseteq fast \cup {c}
          /\ inflight' = inflight /\ Kind[c] = "stop"
      BY <2>3 DEF Stops
    <3> QED BY <1>1, <3>1 DEF Grows
  <2> QED BY <1>8, <2>1, <2>2, <2>3 DEF Entrance
<1> QED BY <1>3, <1>4, <1>5, <1>6, <1>7, <1>8 DEF Shapes

\* The ordinary commands that have begun and not ended never exceed
\* _MAX_OUTSTANDING_COMMANDS, although the count is taken of the queue and the
\* lanes and not of the callers that still wait: a resolved entry keeps its
\* place until the worker drops it.
THEOREM CapHolds == Spec => []OutstandingCapped
<1>1. Init => Capped
  <2>1. ASSUME Init PROVE Outstanding = {} /\ cast.cap \in Nat
    BY <2>1, HubAssumption DEF Init, Outstanding, Running, Range
  <2> QED BY <2>1, FS_EmptySet DEF Capped
<1>2. Lanes /\ Capped /\ [Next]_vars => Capped'
  <2>1. SUFFICES ASSUME Lanes, Capped, [Next]_vars PROVE Capped'
    OBVIOUS
  <2>2. CASE UNCHANGED vars
    BY <2>1, <2>2 DEF vars, lanes, Capped, Outstanding, Running
  <2>3. CASE Next
    <3>1. cast' = cast /\ cast.cap \in Nat
      BY <2>1, <2>3, HubAssumption DEF Next, Lanes, TypeOK, Typed
    <3>2. Shapes
      BY <2>1, <2>3, StepShapes
    <3>3. CASE Outstanding' \subseteq Outstanding
      <4>1. IsFiniteSet(Outstanding') /\ Cardinality(Outstanding') <= Cardinality(Outstanding)
            /\ Cardinality(Outstanding') \in Nat /\ Cardinality(Outstanding) \in Nat
        BY <2>1, <3>3, FS_Subset, FS_CardinalityType DEF Capped
      <4> QED BY <2>1, <3>1, <4>1 DEF Capped
    <3>4. ASSUME NEW c \in Command, Cardinality(Outstanding) < cast.cap,
                 Outstanding' \subseteq Outstanding \cup {c}
          PROVE  Capped'
      <4>1. PICK O : O = Outstanding
        OBVIOUS
      <4>2. IsFiniteSet(O) /\ Cardinality(O) \in Nat
        BY <2>1, <4>1, FS_CardinalityType DEF Capped
      <4>3. /\ IsFiniteSet(O \cup {c})
            /\ Cardinality(O \cup {c}) = (IF c \in O THEN Cardinality(O) ELSE Cardinality(O) + 1)
        BY <4>2, FS_AddElement
      <4>4. IsFiniteSet(Outstanding') /\ Cardinality(Outstanding') <= Cardinality(O \cup {c})
        BY <3>4, <4>1, <4>3, FS_Subset
      <4>5. Cardinality(Outstanding') \in Nat
        BY <4>4, FS_CardinalityType
      <4> QED BY <3>1, <3>4, <4>1, <4>2, <4>3, <4>4, <4>5 DEF Capped
    <3> QED BY <2>1, <3>2, <3>3, <3>4, OutstandingGrows
  <2> QED BY <2>1, <2>2, <2>3
<1>3. Lanes /\ Capped => OutstandingCapped
  <2>1. SUFFICES ASSUME Lanes, Capped PROVE OutstandingCapped
    OBVIOUS
  <2>2. {c \in Command : Kind[c] # "stop" /\ pc[c] \notin {"idle", "measured", "merged", "done"}}
          = Outstanding
    <3>1. \A c \in Command : Agree(c) /\ pc[c] \in Pcs
      BY <2>1, LanesSplit DEF LaneParts, Typed
    <3>2. \A p \in Pcs : p \notin {"idle", "measured", "merged", "done"} <=> p = "queued" \/ p \in Busy
      BY DEF Pcs, Busy
    <3>3. \A c \in Command : pc[c] \notin {"idle", "measured", "merged", "done"} <=>
                               c \in Range(queue) \/ c \in fast \/ c = inflight
      BY <3>1, <3>2, Zenon DEF Agree
    <3>4. queue \in Seq(Command) /\ fast \subseteq Command /\ inflight \in Command \cup {Nobody}
      BY <2>1 DEF Lanes, TypeOK, Typed
    <3>5. Range(queue) \subseteq Command
      BY <3>4 DEF Range
    <3> QED BY <3>3, <3>4, <3>5, HubAssumption DEF Outstanding, Running
  <2> QED BY <2>1, <2>2 DEF Capped, OutstandingCapped
<1> QED BY <1>1, <1>2, <1>3, LanesAlways, PTL DEF Spec
=============================================================================
