------------------------ MODULE CommandHubOrderProofs ------------------------
(*******************************************************************************)
(* What the callers of the hub are told, the order in which requests become    *)
(* publications, what a STOP retires and how fresh a frame is, for any         *)
(* commands, channels, owners and casts.                                       *)
(*                                                                             *)
(* Carriers and Publications tie the entries to their callers and to the log.  *)
(* The Flows say what any step may do to one entry, to one answer, to one      *)
(* future.  On them rest three inductive invariants: Told (answers and         *)
(* ledger), InOrder (order and STOPs) and Fresh (generations).                 *)
(*******************************************************************************)
EXTENDS CommandHubProofs

\* Where an entry is before the worker or its STOP task runs it.
Unrun == {"idle", "measured", "queued", "merged"}

\* One entry and the requests it stands for.
Carrier(c) ==
  /\ c \in Range(members[c])
  /\ pc[c] \in Unrun \/ Key[c] = NoKey => members[c] = <<c>> /\ chans[c] = Chan[c]
  /\ \A m \in Range(members[c]) \ {c} : Key[m] = Key[c] /\ pc[m] \in {"merged", "done"}
  /\ pc[c] \in {"idle", "measured"} => answer[c] = "none"
  /\ pc[c] = "queued" => answer[c] # "none"
  /\ pc[c] = "done" => Live(c) = {}
  /\ \A m \in Live(c) : Chan[m] \subseteq chans[c]

\* No request is carried by two entries that could publish it.
Apart(c, d) ==
  Range(members[c]) \cap Range(members[d]) # {} => "merged" \in {pc[c], pc[d]} \/ closed

\* Each entry is a carrier and no two of them could publish one request.
Carriers == \A c \in Command : Carrier(c) /\ \A d \in Command \ {c} : Apart(c, d)

\* The rebuilt frame still reaches the channels of every live caller.
LEMMA RebuiltCovers ==
  ASSUME NEW c \in Command, Carrier(c)
  PROVE  /\ \A m \in Live(c) : Chan[m] \subseteq Rebuilt(c)
         /\ Key[c] = NoKey => Rebuilt(c) = chans[c]
BY DEF Carrier, Rebuilt

\* A step that does not merge keeps what it does not contradict.
LEMMA CarrierKept ==
  ASSUME NEW c \in Command, Carrier(c),
         members'[c] = members[c], chans'[c] = chans[c] \/ chans'[c] = Rebuilt(c),
         pc'[c] \in Unrun => pc[c] \in Unrun /\ chans'[c] = chans[c],
         \A m \in Range(members[c]) : pc[m] \in {"merged", "done"} => pc'[m] \in {"merged", "done"},
         pc'[c] \in {"idle", "measured"} => answer'[c] = "none",
         pc'[c] = "queued" => answer'[c] # "none",
         pc'[c] = "done" => Live(c)' = {},
         \A m \in Live(c)' : m \in Live(c) \/ Chan[m] \subseteq chans'[c]
  PROVE  Carrier(c)'
<1>1. /\ \A m \in Live(c) : Chan[m] \subseteq Rebuilt(c) /\ Chan[m] \subseteq chans[c]
      /\ Key[c] = NoKey => Rebuilt(c) = chans[c]
  BY RebuiltCovers DEF Carrier
<1>2. \A m \in Live(c)' : Chan[m] \subseteq chans'[c]
  <2>1. SUFFICES ASSUME NEW m \in Live(c)' PROVE Chan[m] \subseteq chans'[c]
    OBVIOUS
  <2>2. Range(members'[c]) = Range(members[c]) /\ m \in Range(members[c])
    BY DEF Live
  <2> QED BY <1>1
<1>3. pc'[c] \in Unrun \/ Key[c] = NoKey => members'[c] = <<c>> /\ chans'[c] = Chan[c]
  BY <1>1 DEF Carrier
<1> QED BY <1>2, <1>3 DEF Carrier

\* Answers only close, apart from the request that is being made.
Settles == \A m \in Command : answer'[m] = "open" => answer[m] = "open"

\* Without a new request an entry gains no live caller.
LEMMA LiveShrinks ==
  ASSUME NEW c \in Command, Range(members[c]) \subseteq Command, members'[c] = members[c], Settles
  PROVE  Live(c)' \subseteq Live(c)
BY DEF Live, Settles

\* The callers of an entry are commands; the live ones are among them.
LEMMA MembersAreCommands ==
  ASSUME Lanes, NEW c \in Command
  PROVE  Range(members[c]) \subseteq Command /\ Live(c) \subseteq Range(members[c])
<1>1. members[c] \in Seq(Command)
  BY DEF Lanes, TypeOK, Typed
<1> QED BY <1>1 DEF Live, Range

\* What Lanes says of one entry, in the form the steps use.
LEMMA PcTyped ==
  ASSUME Lanes, NEW c \in Command
  PROVE  /\ pc[c] \in Pcs /\ answer[c] \in Answers
         /\ pc[c] = "queued" <=> c \in Range(queue)
         /\ c \in fast \/ c = inflight <=> pc[c] \in Busy
BY LanesSplit DEF LaneParts, Typed, Agree

\* Two entries whose callers stay where they are remain apart.
LEMMA ApartKept ==
  ASSUME NEW c \in Command, NEW d \in Command, Apart(c, d),
         members'[c] = members[c], members'[d] = members[d],
         pc[c] = "merged" => pc'[c] = "merged" \/ closed',
         pc[d] = "merged" => pc'[d] = "merged" \/ closed',
         closed => closed'
  PROVE  Apart(c, d)'
BY DEF Apart

\* A coroutine goes on, publishes or ends.
LEMMA CoroutineKeepsCarriers ==
  ASSUME Lanes, Carriers, NEW c \in Command,
         \/ \E r \in {"superseded", "failed", "acked"} : Ends(c, r)
         \/ \E p \in Busy : Moves(c, p)
         \/ Publishes(c)
  PROVE  Carriers'
<1>1. /\ pc[c] \in Busy /\ members' = members /\ closed' = closed
      /\ \E p \in Busy \cup {"done"} : pc' = [pc EXCEPT ![c] = p]
      /\ chans' = chans \/ chans' = [chans EXCEPT ![c] = Rebuilt(c)]
  BY DEF Ends, Moves, Publishes, Calm, Busy, Transitions
<1>2. /\ pc \in [Command -> Pcs] /\ chans \in [Command -> SUBSET Channel]
      /\ answer \in [Command -> Answers]
  BY DEF Lanes, TypeOK, Typed
<1>3. Settles /\ \A m \in Command : answer[m] = "none" => answer'[m] = "none"
  BY <1>2, MembersAreCommands DEF Settles, Ends, Moves, Publishes, Live
<1>4. \A m \in Command : answer[m] # "none" => answer'[m] # "none"
  BY <1>2 DEF Ends, Moves, Publishes
<1>5. pc'[c] = "done" => Live(c)' = {}
  <2>1. SUFFICES ASSUME pc'[c] = "done" PROVE Live(c)' = {}
    OBVIOUS
  <2>2. \E r \in {"superseded", "failed", "acked"} : Ends(c, r)
    BY <1>2, <2>1 DEF Moves, Publishes, Busy
  <2>3. \A m \in Live(c) : answer'[m] # "open"
    BY <2>2, MembersAreCommands DEF Ends
  <2>4. Live(c)' \subseteq Live(c)
    BY <1>1, <1>3, LiveShrinks, MembersAreCommands
  <2> QED BY <2>3, <2>4 DEF Live
<1>6. ASSUME NEW d \in Command PROVE Carrier(d)'
  <2>1. Carrier(d)
    BY DEF Carriers
  <2>2. /\ members'[d] = members[d]
        /\ chans'[d] = chans[d] \/ chans'[d] = Rebuilt(d)
        /\ d # c => pc'[d] = pc[d] /\ chans'[d] = chans[d]
        /\ d = c => pc'[d] \in Busy \cup {"done"}
    BY <1>1, <1>2
  <2>3. \A m \in Range(members[d]) : pc[m] \in {"merged", "done"} => pc'[m] \in {"merged", "done"}
    BY <1>1, <1>2, MembersAreCommands DEF Busy
  <2>4. \A m \in Live(d)' : m \in Live(d)
    BY <1>1, <1>3, LiveShrinks, MembersAreCommands
  <2>5. pc'[d] = "done" => Live(d)' = {}
    BY <1>5, <2>1, <2>2, <2>4 DEF Carrier
  <2>6. /\ pc'[d] \in Unrun => pc[d] \in Unrun /\ chans'[d] = chans[d]
        /\ pc'[d] \in {"idle", "measured"} => answer'[d] = "none"
        /\ pc'[d] = "queued" => answer'[d] # "none"
    BY <1>3, <1>4, <2>1, <2>2 DEF Carrier, Unrun, Busy
  <2> QED BY <2>1, <2>2, <2>3, <2>4, <2>5, <2>6, CarrierKept
<1>7. ASSUME NEW d \in Command, NEW e \in Command \ {d} PROVE Apart(d, e)'
  <2>1. Apart(d, e)
    BY DEF Carriers
  <2>2. \A x \in Command : pc[x] = "merged" => pc'[x] = "merged"
    BY <1>1, <1>2 DEF Busy
  <2> QED BY <1>1, <2>1, <2>2, ApartKept
<1> QED BY <1>6, <1>7 DEF Carriers

\* A request enters, alone in its entry.
LEMMA EntranceKeepsCarriers ==
  ASSUME Lanes, Carriers, NEW c \in Command, Entrance(c)
  PROVE  Carriers'
<1>1. /\ pc[c] \in {"idle", "measured"} /\ members' = members /\ chans' = chans /\ closed' = closed
  BY DEF Entrance, Asks, QueueOrdinary, Stops, Refuse, entries
<1>2. /\ pc \in [Command -> Pcs] /\ answer \in [Command -> Answers]
      /\ \A d \in Range(queue) : pc[d] = "queued"
  <2>1. queue \in Seq(Command)
    BY DEF Lanes, TypeOK, Typed
  <2>2. Range(queue) \subseteq Command
    BY <2>1 DEF Range
  <2> QED BY <2>2, PcTyped DEF Lanes, TypeOK, Typed
<1>3. answer[c] = "none" /\ members[c] = <<c>> /\ chans[c] = Chan[c] /\ Live(c) = {}
  <2>1. Carrier(c) /\ pc[c] \in Unrun
    BY <1>1 DEF Carriers, Unrun
  <2>2. answer[c] = "none" /\ members[c] = <<c>> /\ chans[c] = Chan[c]
    BY <1>1, <2>1 DEF Carrier
  <2>3. Range(members[c]) = {c}
    BY <2>2 DEF Range
  <2> QED BY <2>2, <2>3 DEF Live
<1>4. \A d \in Command \ {c} : c \notin Range(members[d])
  BY <1>1 DEF Carriers, Carrier
<1>5. \A m \in Command \ {c} : (answer'[m] = "open" => answer[m] = "open")
                                /\ (answer'[m] = "none" <=> answer[m] = "none")
  BY <1>2 DEF Entrance, QueueOrdinary, Stops, Refuse, Live
<1>6. answer'[c] # "none" /\ pc'[c] \in {"queued", "barrier", "done"}
      /\ (pc'[c] = "done" => answer'[c] # "open")
      /\ (pc'[c] = "barrier" => Kind[c] = "stop")
  BY <1>2 DEF Entrance, QueueOrdinary, Stops, Refuse, Goto
<1>7. \A d \in Command \ {c} :
        \/ pc'[d] = pc[d]
        \/ pc[d] = "queued" /\ pc'[d] = "done" /\ \A m \in Live(d) : m # c => answer'[m] = "superseded"
  <2>1. CASE Stops(c)
    <3>1. \A d \in Command \ {c} : pc'[d] = IF d \in StopRetires(c) THEN "done" ELSE pc[d]
      BY <2>1 DEF Stops
    <3>2. \A d \in StopRetires(c) : d \in Range(queue)
      BY DEF StopRetires
    <3>3. \A d \in StopRetires(c), m \in Command :
            m \in Live(d) /\ m # c => answer'[m] = "superseded"
      BY <2>1 DEF Stops
    <3>4. \A d \in Command : Live(d) \subseteq Command
      BY MembersAreCommands
    <3> QED BY <1>2, <3>1, <3>2, <3>3, <3>4
  <2>2. CASE ~Stops(c)
    BY <1>2, <2>2 DEF Entrance, QueueOrdinary, Refuse, Goto
  <2> QED BY <2>1, <2>2
<1>8. \A d \in Command \ {c} : Live(d)' \subseteq Live(d)
  BY <1>1, <1>4, <1>5, MembersAreCommands DEF Live
<1>9. ASSUME NEW d \in Command PROVE Carrier(d)'
  <2>1. Carrier(d)
    BY DEF Carriers
  <2>2. \A m \in Range(members[d]) : pc[m] \in {"merged", "done"} => pc'[m] \in {"merged", "done"}
    <3>1. \A m \in Command : pc[m] \in {"merged", "done"} => m # c
      BY <1>1
    <3> QED BY <1>7, <3>1, MembersAreCommands
  <2>3. CASE d = c
    <3>1. Live(c)' \subseteq {c} /\ (pc'[c] = "done" => Live(c)' = {})
      <4>1. Range(members'[c]) = {c}
        BY <1>1, <1>3 DEF Range
      <4> QED BY <1>6, <4>1 DEF Live
    <3>2. pc'[c] \in Unrun => pc[c] \in Unrun
      BY <1>1 DEF Unrun
    <3> QED BY <1>1, <1>3, <1>6, <2>1, <2>2, <2>3, <3>1, <3>2, CarrierKept
  <2>4. CASE d # c
    <3>1. pc'[d] = "done" => Live(d)' = {}
      <4>1. c \notin Live(d)
        BY <1>4, <2>4, MembersAreCommands
      <4>2. CASE pc'[d] = pc[d]
        BY <1>8, <2>1, <2>4, <4>2 DEF Carrier
      <4>3. CASE pc'[d] # pc[d]
        <5>1. \A m \in Live(d) : answer'[m] = "superseded"
          BY <1>7, <2>4, <4>1, <4>3
        <5> QED BY <1>8, <2>4, <5>1 DEF Live
      <4> QED BY <4>2, <4>3
    <3>2. /\ pc'[d] \in Unrun => pc[d] \in Unrun
          /\ pc'[d] \in {"idle", "measured"} => answer'[d] = "none"
          /\ pc'[d] = "queued" => answer'[d] # "none"
      BY <1>5, <1>7, <2>1, <2>4 DEF Carrier, Unrun
    <3> QED BY <1>1, <1>8, <2>1, <2>2, <2>4, <3>1, <3>2, CarrierKept
  <2> QED BY <2>3, <2>4
<1>10. ASSUME NEW d \in Command, NEW e \in Command \ {d} PROVE Apart(d, e)'
  <2>1. Apart(d, e)
    BY DEF Carriers
  <2>2. \A x \in Command : pc[x] = "merged" => pc'[x] = "merged"
    BY <1>1, <1>7
  <2> QED BY <1>1, <2>1, <2>2, ApartKept
<1> QED BY <1>9, <1>10 DEF Carriers

\* Callers, bridges, remotes, drains and the close merge nothing.
LEMMA OutsideKeepsCarriers ==
  ASSUME Lanes, Carriers,
         \/ \E c \in Command : Measure(c) \/ Cancel(c) \/ Marks(c)
         \/ \E S \in SUBSET Channel : Press(S)
         \/ \E o : Drains(o)
         \/ Drops
         \/ Close
  PROVE  Carriers'
<1>1. members' = members /\ chans' = chans /\ (closed => closed')
  BY DEF Measure, Cancel, Marks, Press, Drains, Drops, Close, entries
<1>2. /\ pc \in [Command -> Pcs] /\ answer \in [Command -> Answers]
      /\ \A d \in Range(queue) : pc[d] = "queued"
  <2>1. queue \in Seq(Command)
    BY DEF Lanes, TypeOK, Typed
  <2>2. Range(queue) \subseteq Command
    BY <2>1 DEF Range
  <2> QED BY <2>2, PcTyped DEF Lanes, TypeOK, Typed
<1>3. Settles
  BY <1>2 DEF Settles, Measure, Cancel, Marks, Press, Drains, Drops, Close
<1>4. \A m \in Command : answer'[m] = "none" <=> answer[m] = "none"
  BY <1>2 DEF Measure, Cancel, Marks, Press, Drains, Drops, Close, Live
<1>5. \A d \in Command : Live(d)' \subseteq Live(d)
  BY <1>1, <1>3, LiveShrinks, MembersAreCommands
<1>6. \A d \in Command :
        \/ pc'[d] = pc[d]
        \/ pc[d] = "idle" /\ pc'[d] = "measured"
        \/ pc[d] = "queued" /\ pc'[d] = "done" /\ Live(d)' = {}
        \/ closed' /\ pc'[d] = "done" /\ pc[d] \notin {"idle", "measured"} /\ Live(d)' = {}
  <2>1. ASSUME NEW o, Drains(o), NEW d \in DrainQueued(o) PROVE Live(d)' = {} /\ pc[d] = "queued"
    <3>1. d \in Command /\ d \in Range(queue)
      BY <1>2, DrainShape DEF DrainQueued, Lanes, TypeOK, Typed, Range
    <3>2. \A m \in Command : m \in Live(d) => answer'[m] = "superseded"
      BY <2>1 DEF Drains
    <3> QED BY <1>2, <1>5, <3>1, <3>2, MembersAreCommands DEF Live
  <2>2. ASSUME Drops, NEW d \in Command, pc'[d] # pc[d]
        PROVE  pc[d] = "queued" /\ pc'[d] = "done" /\ Live(d)' = {}
    <3>1. d \in Range(queue) \ Range(queue') /\ pc'[d] = "done"
      BY <2>2 DEF Drops
    <3>2. Live(d) = {}
      BY <2>2, <3>1 DEF Drops, Sheds
    <3> QED BY <1>2, <1>5, <3>1, <3>2
  <2>3. ASSUME Close, NEW d \in Command PROVE Live(d)' = {}
    BY <1>2, <1>5, <2>3, MembersAreCommands DEF Close, Live
  <2>4. ASSUME NEW o, Drains(o), NEW d \in Command, pc'[d] # pc[d]
        PROVE  d \in DrainQueued(o) /\ pc'[d] = "done"
    BY <2>4 DEF Drains
  <2>5. ASSUME Close, NEW d \in Command, pc'[d] # pc[d]
        PROVE  closed' /\ pc'[d] = "done" /\ pc[d] \notin {"idle", "measured"}
    BY <2>5 DEF Close
  <2>6. ASSUME NEW c \in Command, Measure(c), NEW d \in Command, pc'[d] # pc[d]
        PROVE  pc[d] = "idle" /\ pc'[d] = "measured"
    BY <1>2, <2>6 DEF Measure, Goto
  <2>7. ASSUME \/ \E c : Cancel(c) \/ Marks(c)
               \/ \E S : Press(S)
        PROVE  pc' = pc
    BY <2>7 DEF Cancel, Marks, Press
  <2> QED BY <2>1, <2>2, <2>3, <2>4, <2>5, <2>6, <2>7
<1>7. ASSUME NEW d \in Command PROVE Carrier(d)'
  <2>1. Carrier(d)
    BY DEF Carriers
  <2>2. \A m \in Range(members[d]) : pc[m] \in {"merged", "done"} => pc'[m] \in {"merged", "done"}
    BY <1>6, MembersAreCommands
  <2>3. pc'[d] = "done" => Live(d)' = {}
    BY <1>5, <1>6, <2>1 DEF Carrier
  <2>4. /\ pc'[d] \in Unrun => pc[d] \in Unrun
        /\ pc'[d] \in {"idle", "measured"} => answer'[d] = "none"
        /\ pc'[d] = "queued" => answer'[d] # "none"
    BY <1>4, <1>6, <2>1 DEF Carrier, Unrun
  <2> QED BY <1>1, <1>5, <2>1, <2>2, <2>3, <2>4, CarrierKept
<1>8. ASSUME NEW d \in Command, NEW e \in Command \ {d} PROVE Apart(d, e)'
  <2>1. Apart(d, e)
    BY DEF Carriers
  <2>2. \A x \in Command : pc[x] = "merged" => pc'[x] = "merged" \/ closed'
    BY <1>6
  <2> QED BY <1>1, <2>1, <2>2, ApartKept
<1> QED BY <1>7, <1>8 DEF Carriers

\* The head takes its siblings' callers along, and they become merged.
LEMMA PopKeepsCarriers ==
  ASSUME Lanes, Carriers, NEW h \in Command, NEW B \in SUBSET Command, Pops(h, B)
  PROVE  Carriers'
<1>1. /\ pc \in [Command -> Pcs] /\ chans \in [Command -> SUBSET Channel]
      /\ barriers \in [Command -> SUBSET Command] /\ members \in [Command -> Seq(Command)]
      /\ \A d \in Range(queue) : pc[d] = "queued"
  <2>1. queue \in Seq(Command)
    BY DEF Lanes, TypeOK, Typed
  <2>2. Range(queue) \subseteq Command
    BY <2>1 DEF Range
  <2> QED BY <2>2, PcTyped DEF Lanes, TypeOK, Typed
<1>2. /\ h \in Range(queue) /\ B \subseteq Range(queue) /\ h \notin B
      /\ \A c \in Command : pc'[c] = IF c = h THEN "barrier" ELSE IF c \in B THEN "merged"
                              ELSE IF c \in Range(queue) \ Range(queue') THEN "done" ELSE pc[c]
      /\ answer' = answer /\ closed' = closed
      /\ \A d \in B : Key[d] = Key[h] /\ Key[h] # NoKey
      /\ \A c \in Command \ {h} : members'[c] = members[c]
      /\ Range(members'[h]) = Range(members[h]) \cup B
      /\ Key[h] = NoKey => members' = members /\ chans' = chans
      /\ Range(queue') \subseteq Range(queue) \ (B \cup {h})
      /\ \A d \in Range(queue) \ (Range(queue') \cup ({h} \cup B)) : Live(d) = {}
  BY DEF Pops, Sheds
<1>3. /\ chans'[h] = chans[h] \cup UNION {Chan[d] : d \in B}
      /\ \A c \in Command \ {h} : chans'[c] = chans[c]
  <2>1. chans' = [chans EXCEPT ![h] = @ \cup UNION {Chan[d] : d \in B}]
    BY DEF Pops
  <2> QED BY <1>1, <2>1
<1>4. ASSUME NEW c \in Command \ {h} PROVE Carrier(c)'
  <2>1. Carrier(c)
    BY DEF Carriers
  <2>2. Live(c)' = Live(c)
    BY <1>2 DEF Live
  <2>3. \A m \in Range(members[c]) : pc[m] \in {"merged", "done"} => pc'[m] \in {"merged", "done"}
    BY <1>1, <1>2, MembersAreCommands
  <2>4. pc'[c] = "done" => Live(c)' = {}
    BY <1>2, <2>1, <2>2 DEF Carrier
  <2>5. /\ pc'[c] \in Unrun => pc[c] \in Unrun
        /\ pc'[c] \in {"idle", "measured"} => answer'[c] = "none"
        /\ pc'[c] = "queued" => answer'[c] # "none"
    BY <1>1, <1>2, <2>1 DEF Carrier, Unrun
  <2> QED BY <1>2, <1>3, <2>1, <2>2, <2>3, <2>4, <2>5, CarrierKept
<1>5. members[h] = <<h>> /\ chans[h] = Chan[h] /\ Range(members[h]) = {h}
  <2>1. Carrier(h) /\ pc[h] = "queued"
    BY <1>1, <1>2 DEF Carriers
  <2>2. members[h] = <<h>> /\ chans[h] = Chan[h]
    BY <2>1 DEF Carrier, Unrun
  <2>3. Range(<<h>>) = {h}
    BY DEF Range
  <2> QED BY <2>2, <2>3
<1>6. Carrier(h)'
  <2>1. Range(members'[h]) = {h} \cup B
    BY <1>2, <1>5
  <2>2. \A m \in Live(h)' : Chan[m] \subseteq chans'[h]
    <3>1. \A m \in Live(h)' : m \in {h} \cup B
      BY <2>1 DEF Live
    <3>2. \A m \in B : Chan[m] \subseteq UNION {Chan[d] : d \in B}
      OBVIOUS
    <3> QED BY <1>3, <1>5, <3>1, <3>2
  <2>3. pc'[h] = "barrier" /\ \A m \in B : pc'[m] = "merged"
    BY <1>2
  <2>4. pc'[h] \in Unrun \/ Key[h] = NoKey => members'[h] = <<h>> /\ chans'[h] = Chan[h]
    BY <1>2, <1>5, <2>3 DEF Unrun
  <2> QED BY <1>2, <2>1, <2>2, <2>3, <2>4 DEF Carrier
<1>7. ASSUME NEW c \in Command, NEW d \in Command \ {c} PROVE Apart(c, d)'
  <2>1. \A x \in Command : pc[x] = "merged" => pc'[x] = "merged"
    BY <1>1, <1>2
  <2>2. ASSUME NEW x \in Command \ {h}, Range(members'[h]) \cap Range(members'[x]) # {}
        PROVE  pc'[x] = "merged"
    <3>1. PICK m \in {h} \cup B : m \in Range(members[x])
      BY <1>2, <1>5, <2>2
    <3>2. pc[m] = "queued"
      BY <1>1, <1>2, <3>1
    <3>3. m = x
      BY <3>1, <3>2 DEF Carriers, Carrier
    <3> QED BY <1>2, <3>1, <3>3
  <2>3. CASE c # h /\ d # h
    BY <1>2, <2>1, <2>3, ApartKept DEF Carriers
  <2>4. CASE c = h
    BY <2>2, <2>4 DEF Apart
  <2>5. CASE d = h
    BY <2>2, <2>5 DEF Apart
  <2> QED BY <2>3, <2>4, <2>5
<1> QED BY <1>4, <1>6, <1>7 DEF Carriers

\* At the beginning every entry is its own only caller.
LEMMA InitCarriers == Init => Carriers
<1> SUFFICES ASSUME Init PROVE Carriers
  OBVIOUS
<1>1. \A c \in Command : members[c] = <<c>> /\ chans[c] = Chan[c] /\ answer[c] = "none"
                         /\ pc[c] = "idle"
  BY HubAssumption DEF Init
<1>2. \A c \in Command : Range(members[c]) = {c}
  BY <1>1 DEF Range
<1>3. \A c \in Command : Carrier(c)
  BY <1>1, <1>2 DEF Carrier, Live
<1> QED BY <1>2, <1>3 DEF Carriers, Apart

\* Carriers is kept by every step.
LEMMA StepKeepsCarriers ==
  ASSUME Lanes, Carriers, [Next]_vars
  PROVE  Carriers'
<1>1. CASE Shapes
  BY <1>1, PopKeepsCarriers, CoroutineKeepsCarriers, EntranceKeepsCarriers,
     OutsideKeepsCarriers DEF Shapes
<1>2. CASE UNCHANGED vars
  BY <1>2 DEF vars, entries, Carriers, Carrier, Apart, Live
<1> QED BY <1>1, <1>2, StepShapes

----------------------------------------------------------------------------
(* What any step does to one entry, whichever shape it has. *)

Flow == Transitions \cup {<<"idle", "measured">>, <<"idle", "barrier">>, <<"handoff", "admission">>}
          \cup {"idle", "measured"} \X {"queued", "done"}
          \cup {"queued"} \X {"barrier", "merged", "done"}
          \cup (Busy \cup {"merged"}) \X {"done"}

\* How pc may change, and in which step.
PcFlows(d) ==
  /\ pc'[d] = pc[d] \/ <<pc[d], pc'[d]>> \in Flow
  /\ <<pc[d], pc'[d]>> = <<"handoff", "admission">> => Publishes(d)
  /\ <<pc[d], pc'[d]>> = <<"admission", "started">> => admission[d] = "accepted"
  /\ pc[d] = "merged" => pc'[d] = "merged" \/ closed'
  /\ pc[d] \in Busy /\ pc'[d] = "done" => Close \/ \E r \in {"superseded", "failed", "acked"} : Ends(d, r)

\* The pairs an entry may go through, spelled out for the provers.
LEMMA FlowPairs ==
  ASSUME NEW p, NEW q, <<p, q>> \in Flow
  PROVE  \/ p = "idle" /\ q \in {"measured", "barrier", "queued", "done"}
         \/ p = "measured" /\ q \in {"queued", "done"}
         \/ p = "queued" /\ q \in {"barrier", "merged", "done"}
         \/ p = "merged" /\ q = "done"
         \/ p \in Busy /\ q = "done"
         \/ p = "barrier" /\ q = "lock"
         \/ p = "lock" /\ q = "yield"
         \/ p = "yield" /\ q \in {"airwait", "handoff"}
         \/ p = "airwait" /\ q = "lock"
         \/ p = "handoff" /\ q = "admission"
         \/ p = "admission" /\ q = "started"
BY DEF Flow, Transitions

\* What stands in the queue is a command whose coroutine is queued.
LEMMA QueueIsQueued ==
  ASSUME Lanes
  PROVE  /\ Range(queue) \subseteq Command
         /\ \A d \in Range(queue) : pc[d] = "queued"
<1>1. queue \in Seq(Command)
  BY DEF Lanes, TypeOK, Typed
<1>2. Range(queue) \subseteq Command
  BY <1>1 DEF Range
<1> QED BY <1>2, PcTyped

\* No step moves an entry any other way.
LEMMA PcsFlow ==
  ASSUME Lanes, Shapes, NEW d \in Command
  PROVE  PcFlows(d)
<1>0. pc \in [Command -> Pcs] /\ \A x \in Range(queue) : pc[x] = "queued"
  BY QueueIsQueued DEF Lanes, TypeOK, Typed
<1>1. ASSUME NEW h \in Command, NEW B \in SUBSET Command, Pops(h, B) PROVE PcFlows(d)
  <2>1. /\ pc'[d] = IF d = h THEN "barrier" ELSE IF d \in B THEN "merged"
                    ELSE IF d \in Range(queue) \ Range(queue') THEN "done" ELSE pc[d]
        /\ h \in Range(queue) /\ B \subseteq Range(queue)
    BY <1>1 DEF Pops
  <2> QED BY <1>0, <2>1 DEF PcFlows, Flow, Busy
<1>2. CASE Drops
  BY <1>0, <1>2 DEF Drops, PcFlows, Flow, Busy
<1>3. ASSUME NEW c \in Command, NEW r \in {"superseded", "failed", "acked"}, Ends(c, r)
      PROVE  PcFlows(d)
  <2>1. pc[c] \in Busy /\ pc' = [pc EXCEPT ![c] = "done"]
    BY <1>3 DEF Ends
  <2> QED BY <1>0, <1>3, <2>1 DEF PcFlows, Flow, Busy
<1>4. ASSUME NEW c \in Command, NEW p, Moves(c, p) PROVE PcFlows(d)
  <2>1. <<pc[c], p>> \in Transitions /\ pc' = [pc EXCEPT ![c] = p]
        /\ (p = "started" => admission[c] = "accepted")
    BY <1>4 DEF Moves
  <2> QED BY <1>0, <2>1 DEF PcFlows, Flow, Transitions, Busy
<1>5. ASSUME NEW c \in Command, Publishes(c) PROVE PcFlows(d)
  <2>1. pc[c] = "handoff" /\ pc' = [pc EXCEPT ![c] = "admission"]
    BY <1>5 DEF Publishes
  <2> QED BY <1>0, <1>5, <2>1 DEF PcFlows, Flow, Busy
<1>6. ASSUME NEW c \in Command, Entrance(c) PROVE PcFlows(d)
  <2>1. pc[c] \in {"idle", "measured"}
    BY <1>6 DEF Entrance, Asks
  <2>2. CASE QueueOrdinary(c) \/ Refuse(c)
    BY <1>0, <2>1, <2>2 DEF QueueOrdinary, Refuse, Goto, PcFlows, Flow, Busy
  <2>3. CASE Stops(c)
    <3>1. /\ pc[c] = "idle"
          /\ pc'[d] \in IF d = c THEN {"barrier", "queued"}
                        ELSE IF d \in StopRetires(c) THEN {"done"} ELSE {pc[d]}
          /\ StopRetires(c) \subseteq Range(queue)
      BY <2>3 DEF Stops, StopRetires
    <3> QED BY <1>0, <3>1 DEF PcFlows, Flow, Busy
  <2> QED BY <1>6, <2>2, <2>3 DEF Entrance
<1>7. ASSUME NEW c \in Command, Measure(c) PROVE PcFlows(d)
  BY <1>0, <1>7 DEF Measure, Goto, PcFlows, Flow, Busy
<1>8. CASE pc' = pc
  BY <1>8 DEF PcFlows, Flow, Busy
<1>9. ASSUME NEW o, Drains(o) PROVE PcFlows(d)
  BY <1>0, <1>9 DEF Drains, DrainQueued, PcFlows, Flow, Busy
<1>10. CASE Close
  <2>1. pc'[d] = (IF pc[d] \in {"idle", "measured"} THEN pc[d] ELSE "done") /\ closed'
    BY <1>10 DEF Close
  <2> QED BY <1>0, <1>10, <2>1 DEF PcFlows, Flow, Pcs, Busy
<1>11. ASSUME NEW c \in Command, Cancel(c) \/ Marks(c) PROVE pc' = pc
  BY <1>11 DEF Cancel, Marks
<1>12. ASSUME NEW S, Press(S) PROVE pc' = pc
  BY <1>12 DEF Press
<1> QED BY <1>1, <1>2, <1>3, <1>4, <1>5, <1>6, <1>7, <1>8, <1>9, <1>10, <1>11, <1>12 DEF Shapes

\* Answers close, once and for all, except for the request being made, whose
\* future is new.
AnswerFlows(m) ==
  /\ answer[m] = "none" /\ answer'[m] # "none" => pc[m] \in {"idle", "measured"}
  /\ answer'[m] # answer[m] => answer[m] = "open" \/ pc[m] \in {"idle", "measured"}
  /\ answer'[m] = "acked" /\ answer[m] # "acked" =>
       \E c \in Command : Ends(c, "acked") /\ m \in Live(c)
  /\ answer'[m] = "superseded" /\ answer[m] # "superseded" =>
       \/ pc[m] \in {"idle", "measured"}
       \/ \E c \in Command : Ends(c, "superseded") /\ m \in Live(c)
       \/ \E c \in Command : m \in Live(c) /\ ~closed
            /\ (pc[c] = "queued" \/ (pc[c] \in Busy /\ c \notin published))

\* Every step answers callers that way only.
LEMMA AnswersFlow ==
  ASSUME Lanes, Carriers, Shapes, NEW m \in Command
  PROVE  AnswerFlows(m)
<1>0. /\ answer \in [Command -> Answers] /\ pc \in [Command -> Pcs]
      /\ \A d \in Range(queue) : d \in Command /\ pc[d] = "queued"
      /\ \A d \in Command : d \in fast \/ d = inflight => pc[d] \in Busy
      /\ fast \in SUBSET Command /\ inflight \in Command \cup {Nobody}
  BY QueueIsQueued, PcTyped DEF Lanes, TypeOK, Typed
<1>1. CASE answer' = answer
  BY <1>1 DEF AnswerFlows
<1>2. ASSUME NEW c \in Command, NEW r \in {"superseded", "failed", "acked"}, Ends(c, r)
      PROVE  AnswerFlows(m)
  <2>1. answer'[m] = IF m \in Live(c) THEN r ELSE answer[m]
    BY <1>2 DEF Ends
  <2>2. m \in Live(c) => answer[m] = "open"
    BY DEF Live
  <2> QED BY <1>2, <2>1, <2>2 DEF AnswerFlows
<1>3. ASSUME NEW c \in Command, Entrance(c) PROVE AnswerFlows(m)
  <2>1. pc[c] \in {"idle", "measured"}
    BY <1>3 DEF Entrance, Asks
  <2>2. CASE QueueOrdinary(c) \/ Refuse(c)
    BY <1>0, <2>1, <2>2 DEF QueueOrdinary, Refuse, AnswerFlows
  <2>3. CASE Stops(c)
    <3>1. ~closed /\ answer'[m] = IF m = c THEN "open"
             ELSE IF \E d \in StopCuts(c) \cup StopRetires(c) : m \in Live(d) THEN "superseded"
             ELSE answer[m]
      BY <2>3 DEF Stops
    <3>2. \A d \in StopCuts(c) : d \in Command /\ pc[d] \in Busy /\ d \notin published
      BY <1>0 DEF StopCuts, StopRaces, Unpublished
    <3>3. \A d \in StopRetires(c) : d \in Command /\ pc[d] = "queued"
      BY <1>0 DEF StopRetires
    <3>4. \A d : m \in Live(d) => answer[m] = "open"
      BY DEF Live
    <3>5. CASE m = c
      BY <2>1, <3>1, <3>5 DEF AnswerFlows
    <3>6. CASE m # c /\ \E d \in StopCuts(c) \cup StopRetires(c) : m \in Live(d)
      <4>1. PICK d \in StopCuts(c) \cup StopRetires(c) : m \in Live(d)
        BY <3>6
      <4>2. d \in Command /\ (pc[d] = "queued" \/ (pc[d] \in Busy /\ d \notin published))
        BY <3>2, <3>3, <4>1
      <4>3. answer[m] = "open" /\ answer'[m] = "superseded" /\ ~closed
        BY <3>1, <3>4, <3>6, <4>1
      <4> QED BY <4>1, <4>2, <4>3 DEF AnswerFlows
    <3>7. CASE m # c /\ ~\E d \in StopCuts(c) \cup StopRetires(c) : m \in Live(d)
      BY <3>1, <3>7 DEF AnswerFlows
    <3> QED BY <3>5, <3>6, <3>7
  <2> QED BY <1>3, <2>2, <2>3 DEF Entrance
<1>4. ASSUME NEW c \in Command, Cancel(c) PROVE AnswerFlows(m)
  BY <1>0, <1>4 DEF Cancel, AnswerFlows
<1>5. ASSUME NEW o, Drains(o) PROVE AnswerFlows(m)
  <2>1. ~closed /\ answer'[m] =
          IF \E d \in DrainQueued(o) \cup DrainStops(o) \cup DrainWaiting(o) : m \in Live(d)
            THEN "superseded" ELSE answer[m]
    BY <1>5 DEF Drains
  <2>2. \A d \in DrainQueued(o) : d \in Command /\ pc[d] = "queued"
    BY <1>0 DEF DrainQueued
  <2>3. \A d \in DrainStops(o) \cup DrainWaiting(o) :
          d \in Command /\ pc[d] \in Busy /\ d \notin published
    BY <1>0 DEF DrainStops, DrainWaiting, Unpublished
  <2>4. \A d : m \in Live(d) => answer[m] = "open"
    BY DEF Live
  <2>5. CASE \E d \in DrainQueued(o) \cup DrainStops(o) \cup DrainWaiting(o) : m \in Live(d)
    <3>1. PICK d \in DrainQueued(o) \cup DrainStops(o) \cup DrainWaiting(o) : m \in Live(d)
      BY <2>5
    <3>2. d \in Command /\ (pc[d] = "queued" \/ (pc[d] \in Busy /\ d \notin published))
      BY <2>2, <2>3, <3>1
    <3>3. answer[m] = "open" /\ answer'[m] = "superseded" /\ ~closed
      BY <2>1, <2>4, <2>5, <3>1
    <3> QED BY <3>1, <3>2, <3>3 DEF AnswerFlows
  <2>6. CASE ~\E d \in DrainQueued(o) \cup DrainStops(o) \cup DrainWaiting(o) : m \in Live(d)
    BY <2>1, <2>6 DEF AnswerFlows
  <2> QED BY <2>5, <2>6
<1>6. CASE Close
  BY <1>6 DEF Close, AnswerFlows
<1>7. ASSUME NEW c \in Command,
             \/ \E p \in Busy : Moves(c, p)
             \/ Publishes(c) \/ Measure(c) \/ Marks(c)
      PROVE  answer' = answer
  BY <1>7 DEF Moves, Publishes, Measure, Marks
<1>8. ASSUME \/ \E h \in Command, B \in SUBSET Command : Pops(h, B)
             \/ Drops
             \/ \E S \in SUBSET Channel : Press(S)
      PROVE  answer' = answer
  BY <1>8 DEF Pops, Drops, Press
<1> QED BY <1>1, <1>2, <1>3, <1>4, <1>5, <1>6, <1>7, <1>8 DEF Shapes

\* The requests an entry stands for grow only while it is queued; from then on
\* its callers only leave.
MemberFlows(d) ==
  /\ Range(members[d]) \subseteq Range(members'[d])
  /\ pc[d] # "queued" => members'[d] = members[d]
  /\ pc[d] = "queued" => \A m \in Range(members'[d]) \ {d} : m \in Command /\ pc[m] = "queued"
  /\ pc[d] \notin {"idle", "measured", "queued"} => Live(d)' \subseteq Live(d)

\* Every step changes the callers of an entry that way only.
LEMMA MembersFlow ==
  ASSUME Lanes, Carriers, Shapes, NEW d \in Command
  PROVE  MemberFlows(d)
<1>1. \/ members' = members
      \/ \E h \in Command, B \in SUBSET Command : Pops(h, B)
  <2>1. ASSUME NEW c \in Command,
               \/ \E r \in {"superseded", "failed", "acked"} : Ends(c, r)
               \/ \E p \in Busy : Moves(c, p)
               \/ Publishes(c)
        PROVE  members' = members
    BY <2>1 DEF Ends, Moves, Publishes, Calm
  <2>2. ASSUME NEW c \in Command, Entrance(c) \/ Measure(c) \/ Cancel(c) \/ Marks(c)
        PROVE  members' = members
    BY <2>2 DEF Entrance, QueueOrdinary, Stops, Refuse, Measure, Cancel, Marks, entries
  <2>3. ASSUME \/ Drops
               \/ \E S \in SUBSET Channel : Press(S)
               \/ \E o \in cast.departing : Drains(o)
               \/ Close
        PROVE  members' = members
    BY <2>3 DEF Drops, Press, Drains, Close, entries
  <2> QED BY <2>1, <2>2, <2>3 DEF Shapes
<1>2. /\ Range(members[d]) \subseteq Range(members'[d])
      /\ pc[d] # "queued" => members'[d] = members[d]
      /\ pc[d] = "queued" => \A m \in Range(members'[d]) \ {d} : m \in Command /\ pc[m] = "queued"
  <2>1. pc[d] = "queued" => Range(members[d]) = {d}
    <3>1. pc[d] = "queued" => members[d] = <<d>>
      BY DEF Carriers, Carrier, Unrun
    <3>2. Range(<<d>>) = {d}
      BY DEF Range
    <3> QED BY <3>1, <3>2
  <2>2. ASSUME NEW h \in Command, NEW B \in SUBSET Command, Pops(h, B)
        PROVE  <1>2!1 /\ <1>2!2 /\ <1>2!3
    <3>1. /\ h \in Range(queue) /\ B \subseteq Range(queue)
          /\ \A c \in Command \ {h} : members'[c] = members[c]
          /\ Range(members'[h]) = Range(members[h]) \cup B
      BY <2>2 DEF Pops
    <3> QED BY <2>1, <3>1, QueueIsQueued
  <2> QED BY <1>1, <2>1, <2>2
<1>3. ASSUME pc[d] \notin {"idle", "measured", "queued"} PROVE Live(d)' \subseteq Live(d)
  <2>1. SUFFICES ASSUME NEW m \in Live(d)' PROVE m \in Live(d)
    OBVIOUS
  <2>2. m \in Range(members[d]) /\ answer'[m] = "open"
    BY <1>2, <1>3 DEF Live
  <2>3. pc[m] \notin {"idle", "measured"} /\ m \in Command
    BY <1>3, <2>2, MembersAreCommands DEF Carriers, Carrier
  <2>4. answer[m] = "open"
    BY <2>2, <2>3, AnswersFlow DEF AnswerFlows
  <2> QED BY <2>2, <2>4 DEF Live
<1> QED BY <1>2, <1>3 DEF MemberFlows

\* The publish events are set for good, and for an entry that stays
\* unpublished only with nobody waiting for it any more.
PublishedFlows(d) ==
  /\ d \in published => d \in published'
  /\ d \in published' /\ d \notin published =>
       /\ pc'[d] \in Busy \cup {"done"}
       /\ Live(d)' = {} \/ Pending(d)'

\* Every step sets publish events that way only.
LEMMA PublishedFlow ==
  ASSUME Lanes, Carriers, Carriers', Shapes, NEW d \in Command
  PROVE  PublishedFlows(d)
<1>0. pc \in [Command -> Pcs] /\ \A x \in Range(queue) : pc[x] = "queued"
  BY QueueIsQueued DEF Lanes, TypeOK, Typed
<1>d. pc'[d] = "done" => Live(d)' = {}
  BY DEF Carriers, Carrier
<1>m. MemberFlows(d)
  BY MembersFlow
<1>1. CASE published' = published
  BY <1>1 DEF PublishedFlows
<1>2. ASSUME NEW c \in Command, NEW r, Ends(c, r) PROVE PublishedFlows(d)
  BY <1>0, <1>d, <1>2 DEF Ends, PublishedFlows
<1>3. ASSUME NEW c \in Command, Publishes(c) PROVE PublishedFlows(d)
  BY <1>0, <1>3 DEF Publishes, PublishedFlows, Pending, Busy
<1>4. ASSUME NEW c \in Command, Entrance(c) PROVE PublishedFlows(d)
  <2>1. CASE Stops(c)
    <3>1. ASSUME d \in StopCuts(c) PROVE pc'[d] \in Busy /\ Live(d)' = {}
      <4>1. pc[d] = "airwait" /\ pc[c] = "idle" /\ d # c
        BY <2>1, <3>1 DEF StopCuts, Stops
      <4>2. pc'[d] \in Busy
        BY <1>0, <2>1, <4>1 DEF Stops, StopRetires, Busy
      <4>3. \A m \in Live(d) : answer'[m] # "open"
        <5>1. c \notin Live(d)
          BY <4>1 DEF Carriers, Carrier, Live
        <5> QED BY <2>1, <3>1, <5>1, MembersAreCommands DEF Stops
      <4> QED BY <1>m, <4>1, <4>2, <4>3 DEF MemberFlows, Live
    <3> QED BY <2>1, <3>1 DEF Stops, PublishedFlows
  <2>2. CASE QueueOrdinary(c) \/ Refuse(c)
    BY <1>1, <2>2 DEF QueueOrdinary, Refuse, entries
  <2> QED BY <1>4, <2>1, <2>2 DEF Entrance
<1>5. ASSUME NEW o, Drains(o) PROVE PublishedFlows(d)
  <2>1. ASSUME d \in DrainQueued(o) PROVE pc'[d] = "done"
    BY <1>5, <2>1 DEF Drains
  <2>2. ASSUME d \in DrainWaiting(o) PROVE pc'[d] \in Busy /\ Live(d)' = {}
    <3>1. pc[d] = "airwait"
      BY <2>2 DEF DrainWaiting
    <3>2. pc'[d] = "airwait"
      BY <1>0, <1>5, <3>1 DEF Drains, DrainQueued
    <3>3. \A m \in Live(d) : answer'[m] # "open"
      BY <1>5, <2>2, MembersAreCommands DEF Drains
    <3> QED BY <1>m, <3>1, <3>2, <3>3 DEF MemberFlows, Live, Busy
  <2> QED BY <1>5, <1>d, <2>1, <2>2 DEF Drains, PublishedFlows
<1>6. CASE Close
  <2>1. d \in Running => pc'[d] = "done"
    <3>1. d \in Running => pc[d] \in Busy
      BY PcTyped, HubAssumption DEF Running
    <3> QED BY <1>6, <3>1 DEF Close, Busy
  <2> QED BY <1>d, <1>6, <2>1 DEF Close, PublishedFlows
<1>7. ASSUME NEW c \in Command,
             \/ \E p \in Busy : Moves(c, p)
             \/ Measure(c) \/ Cancel(c) \/ Marks(c)
      PROVE  published' = published
  BY <1>7 DEF Moves, Measure, Cancel, Marks, entries
<1>8. ASSUME \/ \E h \in Command, B \in SUBSET Command : Pops(h, B)
             \/ Drops
             \/ \E S \in SUBSET Channel : Press(S)
      PROVE  published' = published
  BY <1>8 DEF Pops, Drops, Press, entries
<1> QED BY <1>1, <1>2, <1>3, <1>4, <1>5, <1>6, <1>7, <1>8 DEF Shapes

\* One frame at a time, and none without its Publishes; a resolved status
\* stays as it is.
LEMMA LogFlow ==
  ASSUME Lanes, Shapes
  PROVE  /\ log' = log \/ \E c \in Command : Publishes(c)
         /\ \A c \in Command : Publishes(c) => log' = Append(log, Frame(c))
         /\ closed => closed'
<1>1. ASSUME NEW c \in Command,
             \/ \E r \in {"superseded", "failed", "acked"} : Ends(c, r)
             \/ \E p \in Busy : Moves(c, p)
             \/ Entrance(c) \/ Measure(c) \/ Cancel(c) \/ Marks(c)
      PROVE  log' = log /\ closed' = closed
  BY <1>1 DEF Ends, Moves, Calm, Entrance, Asks, Measure, Cancel, Marks, history
<1>2. ASSUME \/ \E h \in Command, B \in SUBSET Command : Pops(h, B)
             \/ Drops
             \/ \E S \in SUBSET Channel : Press(S)
             \/ \E o \in cast.departing : Drains(o)
      PROVE  log' = log /\ closed' = closed
  BY <1>2 DEF Pops, Drops, Press, Drains, history
<1>3. ASSUME Close PROVE log' = log /\ closed'
  BY <1>3 DEF Close, history
<1>4. ASSUME NEW c \in Command, Publishes(c) PROVE log' = Append(log, Frame(c)) /\ closed' = closed
  BY <1>4 DEF Publishes, Calm
<1> QED BY <1>1, <1>2, <1>3, <1>4 DEF Shapes

\* A correlated future is resolved once.
StatusFlows(c) ==
  /\ admission[c] # "open" => admission'[c] = admission[c]
  /\ started[c] # "open" => started'[c] = started[c]

\* No step resolves one again.
LEMMA StatusFlow ==
  ASSUME Lanes, Shapes, NEW d \in Command
  PROVE  StatusFlows(d)
<1>0. /\ admission \in [Command -> {"open", "accepted", "rejected", "displaced"}]
      /\ started \in [Command -> {"open", "started", "displaced"}]
  BY DEF Lanes, TypeOK, Typed
<1>1. ASSUME NEW c \in Command,
             \/ \E r \in {"superseded", "failed", "acked"} : Ends(c, r)
             \/ \E p \in Busy : Moves(c, p)
             \/ Publishes(c) \/ Entrance(c) \/ Measure(c) \/ Cancel(c)
      PROVE  admission' = admission /\ started' = started
  BY <1>1 DEF Ends, Moves, Publishes, Calm, Entrance, Asks, Measure, Cancel, lifecycle
<1>2. ASSUME \/ \E h \in Command, B \in SUBSET Command : Pops(h, B)
             \/ Drops
             \/ \E S \in SUBSET Channel : Press(S)
             \/ \E o \in cast.departing : Drains(o)
             \/ Close
      PROVE  admission' = admission /\ started' = started
  BY <1>2 DEF Pops, Drops, Press, Drains, Close, lifecycle
<1>3. ASSUME NEW c \in Command, Marks(c) PROVE StatusFlows(d)
  BY <1>0, <1>3 DEF Marks, StatusFlows
<1> QED BY <1>1, <1>2, <1>3 DEF Shapes, StatusFlows

----------------------------------------------------------------------------
(* What has been published, by whom. *)

Released(c) == pc[c] \in Busy \cup {"done"} /\ (Live(c) = {} \/ Pending(c))

\* c waits for the statuses of a frame that has its live callers.
AwaitedFrame(c) ==
  c \in published /\ \E i \in DOMAIN log : log[i].cmd = c /\ Live(c) \subseteq log[i].live

\* c is an entry that sent a frame for the callers L.
SentBy(c, L) ==
  /\ pc[c] \in {"admission", "started", "done"}
  /\ L \subseteq Range(members[c])
  /\ c \in published

\* An entry whose publish event is set waits for statuses or is empty, one that
\* waits for statuses has its live callers in a frame, and every frame has the
\* entry that sent it behind its hand-off.
Publications ==
  /\ \A c \in published : Released(c)
  /\ \A c \in Command : Pending(c) => AwaitedFrame(c)
  /\ \A i \in DOMAIN log : SentBy(log[i].cmd, log[i].live)

\* The log is a sequence of frames of commands.
LEMMA LogTyped ==
  ASSUME Lanes
  PROVE  /\ DOMAIN log = 1..Len(log) /\ Len(log) \in Nat
         /\ \A i \in DOMAIN log : log[i].cmd \in Command /\ log[i].live \subseteq Command
                                  /\ log[i].chans \subseteq Channel
<1>1. log \in Seq([cmd: Command, live: SUBSET Command, chans: SUBSET Channel])
  BY DEF Lanes, TypeOK, Typed
<1>2. DOMAIN log = 1..Len(log) /\ Len(log) \in Nat
  BY <1>1
<1>3. \A i \in DOMAIN log : log[i] \in [cmd: Command, live: SUBSET Command, chans: SUBSET Channel]
  <2>1. PICK R : R = [cmd: Command, live: SUBSET Command, chans: SUBSET Channel]
    OBVIOUS
  <2>2. log \in Seq(R)
    BY <1>1, <2>1
  <2>3. \A i \in 1..Len(log) : log[i] \in R
    BY <2>2, ElementOfSeq
  <2> QED BY <1>2, <2>1, <2>3
<1> QED BY <1>2, <1>3

\* A publication appends one frame to the log.
LEMMA LogGrows ==
  ASSUME Lanes, NEW c \in Command, Publishes(c)
  PROVE  /\ DOMAIN log' = DOMAIN log \cup {Len(log) + 1} /\ Len(log) + 1 \notin DOMAIN log
         /\ \A i \in DOMAIN log : log'[i] = log[i] /\ i < Len(log) + 1
         /\ log'[Len(log) + 1] = Frame(c)
         /\ Frame(c).cmd = c /\ Frame(c).live = Live(c) /\ Frame(c).chans = Rebuilt(c)
         /\ Len(log') = Len(log) + 1
<1>1. log \in Seq([cmd: Command, live: SUBSET Command, chans: SUBSET Channel])
  BY DEF Lanes, TypeOK, Typed
<1>2. Frame(c) \in [cmd: Command, live: SUBSET Command, chans: SUBSET Channel]
  BY LiveAndRebuilt DEF Frame
<1>3. log' = Append(log, Frame(c))
  BY DEF Publishes
<1> QED BY <1>1, <1>2, <1>3 DEF Frame

\* Publications is kept by every step.
LEMMA StepKeepsPublications ==
  ASSUME Lanes, Lanes', Carriers, Carriers', Publications, Shapes
  PROVE  Publications'
<1>1. \A d \in Command : PcFlows(d) /\ MemberFlows(d) /\ PublishedFlows(d)
  BY PcsFlow, MembersFlow, PublishedFlow
<1>2. \A d \in Command : pc[d] \in Pcs /\ pc'[d] \in Pcs
  BY DEF Lanes, TypeOK, Typed
<1>3. \A d \in Command : pc[d] \in Busy \cup {"done"} => pc'[d] \in Busy \cup {"done"}
  BY <1>1, FlowPairs DEF PcFlows, Busy
<1>4. \A d \in Command : Pending(d) => Pending(d)' \/ pc'[d] = "done"
  BY <1>1, FlowPairs DEF PcFlows, Pending, Busy
<1>5. \A d \in Command : Pending(d)' => Pending(d) \/ Publishes(d)
  BY <1>1, FlowPairs DEF PcFlows, Pending, Busy
<1>6. published \subseteq Command /\ published' \subseteq Command
  BY DEF Lanes, TypeOK, Typed
<1>7. ASSUME NEW c \in published' PROVE Released(c)'
  <2>0. c \in Command
    BY <1>6
  <2>1. CASE c \in published
    <3>1. Released(c)
      BY <2>1 DEF Publications
    <3>2. Live(c)' \subseteq Live(c)
      BY <1>1, <2>0, <3>1 DEF Released, MemberFlows, Busy
    <3>3. pc'[c] = "done" => Live(c)' = {}
      BY <2>0 DEF Carriers, Carrier
    <3> QED BY <1>3, <1>4, <2>0, <3>1, <3>2, <3>3 DEF Released
  <2>2. CASE c \notin published
    BY <1>1, <2>0, <2>2 DEF PublishedFlows, Released
  <2> QED BY <2>1, <2>2
<1>8. ASSUME NEW c \in Command, Pending(c)' PROVE AwaitedFrame(c)'
  <2>1. CASE Publishes(c)
    <3>1. Live(c)' = Live(c) /\ c \in published'
      BY <2>1 DEF Publishes, Calm, Live
    <3> QED BY <2>1, <3>1, LogGrows DEF AwaitedFrame
  <2>2. CASE Pending(c)
    <3>1. AwaitedFrame(c)
      BY <2>2 DEF Publications
    <3>2. PICK i \in DOMAIN log : log[i].cmd = c /\ Live(c) \subseteq log[i].live
      BY <3>1 DEF AwaitedFrame
    <3>3. Live(c)' \subseteq Live(c) /\ c \in published'
      BY <1>1, <2>2, <3>1 DEF MemberFlows, PublishedFlows, AwaitedFrame, Pending
    <3>4. i \in DOMAIN log' /\ log'[i] = log[i]
      BY <3>2, LogFlow, LogGrows
    <3> QED BY <3>2, <3>3, <3>4 DEF AwaitedFrame
  <2> QED BY <1>5, <1>8, <2>1, <2>2
<1>9. ASSUME NEW c \in Command, NEW L, SentBy(c, L) PROVE SentBy(c, L)'
  <2>1. pc'[c] \in {"admission", "started", "done"}
    BY <1>1, <1>9, FlowPairs DEF SentBy, PcFlows, Busy
  <2> QED BY <1>1, <1>9, <2>1 DEF SentBy, MemberFlows, PublishedFlows
<1>10. ASSUME NEW i \in DOMAIN log', NEW c, NEW L, c = log'[i].cmd, L = log'[i].live
       PROVE  SentBy(c, L)'
  <2>1. CASE i \in DOMAIN log /\ log'[i] = log[i]
    <3>1. c \in Command /\ SentBy(c, L)
      BY <1>10, <2>1, LogTyped DEF Publications
    <3> QED BY <1>9, <3>1
  <2>2. ASSUME NEW d \in Command, Publishes(d), i = Len(log) + 1 PROVE SentBy(c, L)'
    <3>1. c = d /\ L = Live(d)
      BY <1>10, <2>2, LogGrows
    <3>2. pc'[d] = "admission" /\ members' = members /\ d \in published'
      BY <2>2 DEF Publishes, Calm, Lanes, TypeOK, Typed
    <3>3. Live(d) \subseteq Range(members[d])
      BY DEF Live
    <3> QED BY <3>1, <3>2, <3>3 DEF SentBy
  <2>3. \/ i \in DOMAIN log /\ log'[i] = log[i]
        \/ i = Len(log) + 1 /\ \E d \in Command : Publishes(d)
    BY LogFlow, LogGrows
  <2> QED BY <2>1, <2>2, <2>3
<1>11. \A i \in DOMAIN log' : /\ pc'[log'[i].cmd] \in {"admission", "started", "done"}
                              /\ log'[i].live \subseteq Range(members'[log'[i].cmd])
                              /\ log'[i].cmd \in published'
  BY <1>10 DEF SentBy
<1> QED BY <1>7, <1>8, <1>11 DEF Publications, SentBy

\* What holds of the entries, their callers and their frames.
Entries == Lanes /\ Carriers /\ Publications

\* At the beginning nothing is published.
LEMMA InitEntries == Init => Entries
<1> SUFFICES ASSUME Init PROVE Entries
  OBVIOUS
<1>1. DOMAIN log = {} /\ published = {} /\ \A c \in Command : ~Pending(c)
  BY DEF Init, Pending
<1> QED BY <1>1, InitLanes, InitCarriers DEF Entries, Publications

\* Entries is kept by every step.
LEMMA StepKeepsEntries ==
  ASSUME Entries, [Next]_vars
  PROVE  Entries'
<1>1. Lanes' /\ Carriers'
  BY StepKeepsLanes, StepKeepsCarriers DEF Entries
<1>2. CASE Next
  BY <1>1, <1>2, StepShapes, StepKeepsPublications DEF Entries
<1>3. CASE UNCHANGED vars
  <2>1. Publications'
    BY <1>3 DEF vars, entries, history, Entries, Publications, Released, AwaitedFrame, SentBy,
                Live, Pending
  <2> QED BY <1>1, <2>1 DEF Entries
<1> QED BY <1>2, <1>3

\* Entries holds in every reachable state.
LEMMA EntriesAlways == Spec => []Entries
BY InitEntries, StepKeepsEntries, PTL DEF Spec

----------------------------------------------------------------------------
(* What the callers are told, and what becomes of the ledger entries. *)

\* What an entry's futures and its ledger entry say of where it is: a pending
\* ledger entry has a coroutine that waits, and one that is gone was rejected or
\* displaced before anybody was told of a success.
Status(c) ==
  /\ admission[c] # "open" \/ started[c] # "open" \/ ledger[c] # "none" => Pending(c) \/ pc[c] = "done"
  /\ pc[c] = "started" => admission[c] = "accepted"
  /\ ledger[c] = "pending" => Pending(c)
  /\ pc[c] \notin {"merged", "done"} => \A m \in Range(members[c]) : answer[m] # "acked"
  /\ ledger[c] = "gone" /\ (Pending(c) \/ \E m \in Range(members[c]) : answer[m] = "acked") =>
       admission[c] \in {"rejected", "displaced"} \/ started[c] = "displaced"

\* It holds of every entry.
Statuses == \A c \in Command : Status(c)

\* Two entries that are neither merged nor closed share no caller.
LEMMA OneCarrier ==
  ASSUME Carriers, NEW c \in Command, NEW d \in Command, pc[c] # "merged", pc[d] # "merged", ~closed,
         NEW m \in Range(members[c]), m \in Range(members[d])
  PROVE  c = d
BY DEF Carriers, Apart

\* Whoever holds a lane or is queued belongs to an open hub.
LEMMA BusyIsOpen ==
  ASSUME Lanes, NEW c \in Command, pc[c] \in Busy \/ pc[c] = "queued"
  PROVE  ~closed
BY DEF Lanes, Busy

\* Nobody is acknowledged before its entry ends.
LEMMA AckedLast ==
  ASSUME Entries, Statuses, Shapes, NEW d \in Command, pc'[d] \notin {"merged", "done"}
  PROVE  \A m \in Range(members'[d]) : answer'[m] # "acked"
<1> USE DEF Entries
<1>1. SUFFICES ASSUME NEW m \in Range(members'[d]), answer'[m] = "acked" PROVE FALSE
  OBVIOUS
<1>2. PcFlows(d) /\ MemberFlows(d)
  BY PcsFlow, MembersFlow
<1>3. pc[d] \notin {"merged", "done"}
  BY <1>2, FlowPairs DEF PcFlows, Busy
<1>4. m \in Command
  BY <1>2, MembersAreCommands DEF MemberFlows
<1>5. CASE answer[m] = "acked"
  <2>1. m \in Range(members[d]) \/ pc[m] = "queued"
    BY <1>2 DEF MemberFlows
  <2>2. m \in Range(members[m])
    BY <1>4 DEF Carriers, Carrier
  <2> QED BY <1>3, <1>4, <1>5, <2>1, <2>2 DEF Statuses, Status
<1>6. ASSUME NEW c \in Command, Ends(c, "acked"), m \in Live(c) PROVE FALSE
  <2>1. pc[c] \in Busy /\ members' = members /\ ~closed
    BY <1>6, BusyIsOpen DEF Ends, Calm
  <2>2. m \in Range(members[c]) /\ m \in Range(members[d])
    BY <1>6, <2>1 DEF Live
  <2>3. c = d
    BY <1>3, <2>1, <2>2, OneCarrier DEF Busy
  <2> QED BY <1>6, <2>3 DEF Ends, Lanes, TypeOK, Typed
<1> QED BY <1>1, <1>4, <1>5, <1>6, AnswersFlow DEF AnswerFlows

\* A step that resolves no status: what Status says carries over.
LEMMA StatusKept ==
  ASSUME Entries, Statuses, Shapes, NEW d \in Command,
         admission'[d] = admission[d], started'[d] = started[d], ledger'[d] = ledger[d],
         ~Close, ~\E r \in {"superseded", "failed", "acked"} : Ends(d, r),
         ~Publishes(d)
  PROVE  Status(d)'
<1> USE DEF Entries
<1>1. PcFlows(d) /\ MemberFlows(d) /\ Status(d)
  BY PcsFlow, MembersFlow DEF Statuses
<1>2. Pending(d) <=> Pending(d)'
  BY <1>1, FlowPairs DEF PcFlows, Pending, Busy
<1>3. pc[d] = "done" => pc'[d] = "done"
  BY <1>1, FlowPairs DEF PcFlows, Busy
<1>4. pc'[d] = "started" => admission'[d] = "accepted"
  BY <1>1, FlowPairs DEF PcFlows, Busy, Status
<1>5. ASSUME ledger[d] = "gone", NEW m \in Range(members'[d]), answer'[m] = "acked"
      PROVE  Pending(d) \/ \E x \in Range(members[d]) : answer[x] = "acked"
  <2>1. pc[d] \in {"admission", "started", "done"}
    BY <1>1, <1>5 DEF Status, Pending
  <2>2. members'[d] = members[d] /\ m \in Command
    BY <1>1, <2>1, MembersAreCommands DEF MemberFlows
  <2>3. CASE answer[m] = "acked"
    BY <2>2, <2>3
  <2>4. ASSUME NEW c \in Command, Ends(c, "acked"), m \in Live(c) PROVE FALSE
    <3>1. pc[c] \in Busy /\ ~closed /\ m \in Range(members[c])
      BY <2>4, BusyIsOpen DEF Ends, Live
    <3>2. c = d
      BY <2>1, <2>2, <3>1, OneCarrier DEF Busy
    <3> QED BY <2>4, <3>2
  <2> QED BY <1>5, <2>2, <2>3, <2>4, AnswersFlow DEF AnswerFlows
<1>6. pc'[d] \notin {"merged", "done"} => \A m \in Range(members'[d]) : answer'[m] # "acked"
  BY AckedLast
<1> QED BY <1>1, <1>2, <1>3, <1>4, <1>5, <1>6 DEF Status

\* A coroutine that ends has settled its ledger entry.
LEMMA EndKeepsStatus ==
  ASSUME Entries, Statuses, Shapes, NEW c \in Command,
         NEW r \in {"superseded", "failed", "acked"}, Ends(c, r)
  PROVE  Status(c)'
<1> USE DEF Entries
<1>1. Status(c) /\ Carrier(c)
  BY DEF Statuses, Carriers
<1>2. pc'[c] = "done" /\ members' = members /\ admission' = admission /\ started' = started
      /\ pc[c] \in Busy
  BY DEF Ends, Calm, Lanes, TypeOK, Typed
<1>3. \/ ledger'[c] = ledger[c]
      \/ ledger[c] = "pending" /\ ledger'[c] \in {"gone", "confirmed"}
  BY DEF Ends, Lanes, TypeOK, Typed
<1>4. ledger'[c] # "pending"
  BY <1>1, <1>3 DEF Ends, Status
<1>5. ASSUME ledger'[c] = "gone", NEW m \in Range(members[c]), answer'[m] = "acked"
      PROVE  admission[c] \in {"rejected", "displaced"} \/ started[c] = "displaced"
  <2>1. m \in Command /\ pc[c] \notin {"merged", "done"}
    BY <1>2, MembersAreCommands DEF Busy
  <2>2. answer[m] # "acked"
    BY <1>1, <2>1 DEF Status
  <2>3. r = "acked"
    BY <1>5, <2>1, <2>2 DEF Ends
  <2>4. pc[c] = "started" /\ started[c] = "started" /\ Pending(c)
    BY <2>3 DEF Ends, Pending
  <2>5. admission[c] = "accepted"
    BY <1>1, <2>4 DEF Status
  <2>6. ledger[c] = "gone"
    BY <1>5, <2>4, <2>5 DEF Ends
  <2> QED BY <1>1, <2>4, <2>6 DEF Status
<1> QED BY <1>2, <1>4, <1>5 DEF Status, Pending

\* Statuses is kept by every step.
LEMMA StepKeepsStatuses ==
  ASSUME Entries, Statuses, Shapes
  PROVE  Statuses'
<1> USE DEF Entries
<1>0. /\ admission \in [Command -> {"open", "accepted", "rejected", "displaced"}]
      /\ started \in [Command -> {"open", "started", "displaced"}]
      /\ ledger \in [Command -> {"none", "pending", "confirmed", "drained", "released", "gone"}]
      /\ pc \in [Command -> Pcs]
  BY DEF Lanes, TypeOK, Typed
<1>1. SUFFICES ASSUME NEW d \in Command PROVE Status(d)'
  BY DEF Statuses
<1>2. CASE \E r \in {"superseded", "failed", "acked"} : Ends(d, r)
  BY <1>2, EndKeepsStatus
<1>3. CASE Publishes(d)
  <2>1. ledger'[d] = "pending" /\ pc'[d] = "admission"
    BY <1>0, <1>3 DEF Publishes
  <2>2. \A m \in Range(members'[d]) : answer'[m] # "acked"
    BY <2>1, AckedLast
  <2> QED BY <2>1, <2>2 DEF Status, Pending
<1>4. CASE Close
  <2>1. Status(d)
    BY DEF Statuses
  <2>2. /\ admission' = admission /\ started' = started /\ members' = members
        /\ ledger'[d] = IF ledger[d] = "pending" THEN "gone" ELSE ledger[d]
        /\ pc'[d] = IF pc[d] \in {"idle", "measured"} THEN pc[d] ELSE "done"
        /\ \A m \in Command : answer'[m] = "acked" => answer[m] = "acked"
    BY <1>4 DEF Close
  <2>3. pc'[d] \notin {"merged", "done"} => \A m \in Range(members'[d]) : answer'[m] # "acked"
    BY AckedLast
  <2>4. ASSUME ledger'[d] = "gone", NEW m \in Range(members[d]), answer'[m] = "acked"
        PROVE  admission[d] \in {"rejected", "displaced"} \/ started[d] = "displaced"
    <3>1. answer[m] = "acked"
      BY <2>2, <2>4, MembersAreCommands
    <3>2. ledger[d] # "pending"
      BY <2>1, <2>4, <3>1 DEF Status, Pending
    <3> QED BY <2>1, <2>2, <2>4, <3>1, <3>2 DEF Status
  <2> QED BY <2>1, <2>2, <2>3, <2>4 DEF Status, Pending
<1>5. CASE Marks(d) /\ ~Close
  <2>1. Status(d) /\ StatusFlows(d)
    BY StatusFlow DEF Statuses
  <2>2. pc' = pc /\ answer' = answer /\ members' = members
    BY <1>5 DEF Marks, entries
  <2>3. Pending(d) \/ pc[d] = "done"
    BY <1>5 DEF Marks, Aired, Publications, SentBy, Pending
  <2>4. ledger'[d] \in {ledger[d], "gone", "drained", "released"}
    BY <1>0, <1>5 DEF Marks
  <2>5. ledger'[d] = "gone" /\ ledger[d] # "gone" =>
          admission'[d] \in {"rejected", "displaced"} \/ started'[d] = "displaced"
    <3>1. ledger'[d] = "gone" /\ ledger[d] # "gone" => ledger[d] = "pending"
      BY <1>5 DEF Marks
    <3> QED BY <1>5, <2>1, <3>1 DEF Marks, Status
  <2> QED BY <1>0, <2>1, <2>2, <2>3, <2>4, <2>5 DEF Status, StatusFlows, Pending
<1>6. CASE ~Close /\ ~Marks(d) /\ ~Publishes(d)
           /\ ~\E r \in {"superseded", "failed", "acked"} : Ends(d, r)
  <2>1. admission'[d] = admission[d] /\ started'[d] = started[d] /\ ledger'[d] = ledger[d]
    <3>1. ASSUME NEW c \in Command,
                 \/ \E r \in {"superseded", "failed", "acked"} : Ends(c, r)
                 \/ Publishes(c) \/ Marks(c)
          PROVE  <2>1
      <4>1. c # d
        BY <1>6, <3>1
      <4> QED BY <1>0, <3>1, <4>1 DEF Ends, Publishes, Marks, Calm
    <3>2. ASSUME NEW c \in Command,
                 \/ \E p \in Busy : Moves(c, p)
                 \/ Entrance(c) \/ Measure(c) \/ Cancel(c)
          PROVE  <2>1
      BY <3>2 DEF Moves, Calm, Entrance, Asks, Measure, Cancel, lifecycle
    <3>3. ASSUME \/ \E h \in Command, B \in SUBSET Command : Pops(h, B)
                 \/ Drops
                 \/ \E S \in SUBSET Channel : Press(S)
                 \/ \E o \in cast.departing : Drains(o)
          PROVE  <2>1
      BY <3>3 DEF Pops, Drops, Press, Drains, lifecycle
    <3> QED BY <1>6, <3>1, <3>2, <3>3 DEF Shapes
  <2> QED BY <1>6, <2>1, StatusKept
<1> QED BY <1>2, <1>3, <1>4, <1>5, <1>6

\* An answer is given with the frame that makes it true, and frames stay.
LEMMA StepKeepsTruth ==
  ASSUME Entries, Statuses, AnswersAreTrue, Shapes
  PROVE  AnswersAreTrue'
<1> USE DEF Entries
<1>1. ASSUME NEW m \in Command, answer'[m] = "acked"
      PROVE  \E i \in DOMAIN log' : m \in log'[i].live
  <2>1. \E i \in DOMAIN log : m \in log[i].live
    <3>1. CASE answer[m] = "acked"
      BY <3>1 DEF AnswersAreTrue, InFrame
    <3>2. ASSUME NEW c \in Command, Ends(c, "acked"), m \in Live(c)
          PROVE  \E i \in DOMAIN log : m \in log[i].live
      <4>1. Pending(c)
        BY <3>2 DEF Ends, Pending
      <4> QED BY <3>2, <4>1 DEF Publications, AwaitedFrame
    <3> QED BY <1>1, <3>1, <3>2, AnswersFlow DEF AnswerFlows
  <2>2. \A i \in DOMAIN log : i \in DOMAIN log' /\ log'[i] = log[i]
    BY LogFlow, LogGrows
  <2> QED BY <2>1, <2>2
<1>2. ASSUME NEW m \in Command, answer'[m] = "superseded",
             NEW i \in DOMAIN log', m \in log'[i].live, NEW c, c = log'[i].cmd
      PROVE  "displaced" \in {admission'[c], started'[c]}
  <2>1. ASSUME NEW d \in Command, Publishes(d), i = Len(log) + 1 PROVE FALSE
    <3>1. m \in Live(d)
      BY <1>2, <2>1, LogGrows
    <3>2. answer' = answer
      BY <2>1 DEF Publishes
    <3> QED BY <1>2, <3>1, <3>2 DEF Live
  <2>2. i \in DOMAIN log /\ log'[i] = log[i]
    BY <2>1, LogFlow, LogGrows
  <2>3. c \in Command /\ SentBy(c, log[i].live) /\ m \in Range(members[c])
    BY <1>2, <2>2, LogTyped DEF Publications, SentBy
  <2>4. "displaced" \in {admission[c], started[c]}
    <3>1. CASE answer[m] = "superseded"
      BY <1>2, <2>2, <3>1 DEF AnswersAreTrue, InFrame
    <3>2. ASSUME pc[m] \in {"idle", "measured"} PROVE FALSE
      BY <2>3, <3>2 DEF Carriers, Carrier, SentBy
    <3>3. ASSUME NEW d \in Command, Ends(d, "superseded"), m \in Live(d)
          PROVE  "displaced" \in {admission[c], started[c]}
      <4>1. pc[d] \in Busy /\ ~closed /\ m \in Range(members[d])
        BY <3>3, BusyIsOpen DEF Ends, Live
      <4>2. d = c
        BY <2>3, <4>1, OneCarrier DEF SentBy, Busy
      <4>3. Pending(c)
        BY <2>3, <4>1, <4>2 DEF SentBy, Pending, Busy
      <4> QED BY <3>3, <4>2, <4>3 DEF Ends
    <3>4. ASSUME NEW d \in Command, m \in Live(d), ~closed,
                 pc[d] = "queued" \/ (pc[d] \in Busy /\ d \notin published)
          PROVE  FALSE
      <4>1. m \in Range(members[d])
        BY <3>4 DEF Live
      <4>2. d = c
        BY <2>3, <3>4, <4>1, OneCarrier DEF SentBy, Busy
      <4> QED BY <2>3, <3>4, <4>2 DEF SentBy
    <3> QED BY <1>2, <3>1, <3>2, <3>3, <3>4, AnswersFlow DEF AnswerFlows
  <2> QED BY <2>3, <2>4, StatusFlow DEF StatusFlows
<1> QED BY <1>1, <1>2 DEF AnswersAreTrue, InFrame

\* The invariant behind the answers and the ledger.
Told == Entries /\ Statuses /\ AnswersAreTrue

\* It holds in every reachable state.
LEMMA ToldAlways == Spec => []Told
<1>1. Init => Told
  <2>1. SUFFICES ASSUME Init PROVE Told
    OBVIOUS
  <2>2. DOMAIN log = {} /\ \A c \in Command : Status(c) /\ answer[c] = "none"
    <3>1. \A c \in Command : members[c] = <<c>> /\ Range(<<c>>) = {c}
      BY <2>1 DEF Init, Range
    <3> QED BY <2>1, <3>1 DEF Init, Status, Pending
  <2> QED BY <2>1, <2>2, InitEntries DEF Told, Statuses, AnswersAreTrue
<1>2. Told /\ [Next]_vars => Told'
  <2>1. SUFFICES ASSUME Told, [Next]_vars PROVE Told'
    OBVIOUS
  <2>2. Entries'
    BY <2>1, StepKeepsEntries DEF Told
  <2>3. CASE Next
    BY <2>1, <2>2, <2>3, StepShapes, StepKeepsStatuses, StepKeepsTruth DEF Told, Entries
  <2>4. CASE UNCHANGED vars
    <3>1. Statuses' /\ AnswersAreTrue'
      BY <2>1, <2>4 DEF vars, entries, lifecycle, history, Told, Statuses, Status, AnswersAreTrue,
                        InFrame, Pending
    <3> QED BY <2>2, <3>1 DEF Told
  <2> QED BY <2>1, <2>3, <2>4
<1> QED BY <1>1, <1>2, PTL DEF Spec

\* Whoever is told that its request was sent is in a frame that was; whoever is
\* told that it was superseded although a frame carried it owes that to the
\* bridge.  In between lie the coalescing of the queue, the cancellation of
\* members, four places that answer "superseded", and the waits for statuses.
THEOREM AnswersHold == Spec => []AnswersAreTrue
<1>1. Told => AnswersAreTrue
  BY DEF Told
<1> QED BY <1>1, ToldAlways, PTL

\* No ledger entry is pending without the coroutine that will settle it, and
\* none is retired whose train was admitted and reported as started, in
\* whatever order the statuses, the timeouts and the close arrive.
THEOREM LedgerHolds == Spec => []LedgerSettled
<1>1. Told => LedgerSettled
  BY DEF Told, Statuses, Status, LedgerSettled
<1> QED BY <1>1, ToldAlways, PTL

----------------------------------------------------------------------------
(* The order of requests, and what a STOP undoes. *)

\* What is requested has left its beginning; what a STOP preempted and what an
\* entry waits for has been taken by a lane.
Standing ==
  /\ \A s \in Range(requested) : pc[s] \notin {"idle", "measured"}
  /\ \A c \in preempted : pc[c] \in Busy \cup {"done"}
  /\ \A d \in Command : \A x \in barriers[d] : pc[x] \in Busy \cup {"done"}

\* Requests are numbered in the order they enter.
LEMMA RequestsFlow ==
  ASSUME Lanes, Shapes
  PROVE  /\ \/ requested' = requested /\ \A e \in Command : ~Entrance(e)
            \/ \E e \in Command : Entrance(e)
         /\ \A e \in Command : Entrance(e) =>
              /\ Range(requested') = Range(requested) \cup {e}
              /\ \A a, b : Before(a, b)' <=> Before(a, b) \/ (a \in Range(requested) /\ b = e)
<1>1. requested \in Seq(Command)
  BY DEF Lanes, TypeOK, Typed
<1>2. ASSUME NEW e \in Command, Entrance(e)
      PROVE  /\ Range(requested') = Range(requested) \cup {e}
             /\ \A a, b : Before(a, b)' <=> Before(a, b) \/ (a \in Range(requested) /\ b = e)
  <2>1. requested' = Append(requested, e)
    BY <1>2 DEF Entrance, Asks
  <2> QED BY <1>1, <2>1, AppendKeeps DEF Before
<1>3. ASSUME NEW c \in Command,
             \/ \E r \in {"superseded", "failed", "acked"} : Ends(c, r)
             \/ \E p \in Busy : Moves(c, p)
             \/ Publishes(c) \/ Measure(c) \/ Cancel(c) \/ Marks(c)
      PROVE  requested' = requested
  BY <1>3 DEF Ends, Moves, Publishes, Calm, Measure, Cancel, Marks, history
<1>4. ASSUME \/ \E h \in Command, B \in SUBSET Command : Pops(h, B)
             \/ Drops
             \/ \E S \in SUBSET Channel : Press(S)
             \/ \E o \in cast.departing : Drains(o)
             \/ Close
      PROVE  requested' = requested
  BY <1>4 DEF Pops, Drops, Press, Drains, Close, history
<1> QED BY <1>2, <1>3, <1>4 DEF Shapes

\* A barrier is an entry that held a lane when the barrier was set.
LEMMA BarriersFlow ==
  ASSUME Lanes, Shapes, NEW d \in Command, NEW x \in barriers'[d]
  PROVE  x \in Command /\ ((\E y \in Command : x \in barriers[y]) \/ x \in Running)
<1>0. barriers \in [Command -> SUBSET Command] /\ Running \subseteq Command
  BY DEF Lanes, TypeOK, Typed, Running
<1>1. CASE barriers' = barriers
  BY <1>0, <1>1
<1>2. ASSUME NEW h \in Command, NEW B \in SUBSET Command, Pops(h, B)
      PROVE  x \in Command /\ \E y \in Command : x \in barriers[y]
  <2>1. barriers' = [barriers EXCEPT ![h] = @ \cup UNION {barriers[y] \ published : y \in B}]
    BY <1>2 DEF Pops
  <2>2. x \in barriers[d] \/ x \in UNION {barriers[y] \ published : y \in B}
    BY <1>0, <2>1
  <2> QED BY <1>0, <2>2
<1>3. ASSUME NEW e \in Command, Entrance(e) PROVE barriers' = barriers \/ x \in barriers[d] \cup Running
  <2>1. CASE Refuse(e)
    BY <2>1 DEF Refuse, entries
  <2>2. CASE QueueOrdinary(e)
    BY <1>0, <2>2 DEF QueueOrdinary, Barriers
  <2>3. CASE Stops(e)
    <3>1. barriers' = [barriers EXCEPT ![e] = Barriers(e, published \cup StopCuts(e))]
      BY <2>3 DEF Stops
    <3> QED BY <1>0, <3>1 DEF Barriers
  <2> QED BY <1>3, <2>1, <2>2, <2>3 DEF Entrance
<1>4. ASSUME NEW c \in Command,
             \/ \E r \in {"superseded", "failed", "acked"} : Ends(c, r)
             \/ \E p \in Busy : Moves(c, p)
             \/ Publishes(c) \/ Measure(c) \/ Cancel(c) \/ Marks(c)
      PROVE  barriers' = barriers
  BY <1>4 DEF Ends, Moves, Publishes, Calm, Measure, Cancel, Marks, entries
<1>5. ASSUME \/ Drops
             \/ \E S \in SUBSET Channel : Press(S)
             \/ \E o \in cast.departing : Drains(o)
             \/ Close
      PROVE  barriers' = barriers
  BY <1>5 DEF Drops, Press, Drains, Close, entries
<1> QED BY <1>0, <1>1, <1>2, <1>3, <1>4, <1>5 DEF Shapes

\* Only entries that hold a lane are preempted, and for good.
LEMMA PreemptedFlow ==
  ASSUME Lanes, Shapes
  PROVE  preempted \subseteq preempted' /\ \A c \in preempted' \ preempted : c \in Running /\ c \in Command
<1>1. ASSUME NEW e \in Command, Stops(e)
      PROVE  preempted \subseteq preempted' /\ \A c \in preempted' \ preempted : c \in Running
  BY <1>1 DEF Stops, StopRaces, Unpublished, Running
<1>2. ASSUME NEW c \in Command,
             \/ \E r \in {"superseded", "failed", "acked"} : Ends(c, r)
             \/ \E p \in Busy : Moves(c, p)
             \/ Publishes(c) \/ Measure(c) \/ Cancel(c) \/ Marks(c)
             \/ QueueOrdinary(c) \/ Refuse(c)
      PROVE  preempted' = preempted
  BY <1>2 DEF Ends, Moves, Publishes, Calm, Measure, Cancel, Marks, QueueOrdinary, Refuse, entries
<1>3. ASSUME \/ \E h \in Command, B \in SUBSET Command : Pops(h, B)
             \/ Drops
             \/ \E S \in SUBSET Channel : Press(S)
             \/ \E o \in cast.departing : Drains(o)
             \/ Close
      PROVE  preempted' = preempted
  BY <1>3 DEF Pops, Drops, Press, Drains, Close, entries
<1>4. Running \subseteq Command
  BY DEF Lanes, TypeOK, Typed, Running
<1> QED BY <1>1, <1>2, <1>3, <1>4 DEF Shapes, Entrance

\* Standing is kept by every step.
LEMMA StepKeepsStanding ==
  ASSUME Entries, Standing, Shapes
  PROVE  Standing'
<1> USE DEF Entries
<1>1. \A d \in Command : PcFlows(d)
  BY PcsFlow
<1>2. \A d \in Command : pc[d] \in Busy \cup {"done"} => pc'[d] \in Busy \cup {"done"}
  BY <1>1, FlowPairs DEF PcFlows, Busy
<1>3. \A d \in Command : d \in Running => pc[d] \in Busy
  BY PcTyped, HubAssumption DEF Running
<1>4. preempted \subseteq Command /\ requested \in Seq(Command) /\ barriers \in [Command -> SUBSET Command]
  BY DEF Lanes, TypeOK, Typed
<1>5. ASSUME NEW s \in Range(requested') PROVE pc'[s] \notin {"idle", "measured"}
  <2>1. ASSUME s \in Range(requested) PROVE pc'[s] \notin {"idle", "measured"}
    <3>1. s \in Command
      BY <1>4, <2>1 DEF Range
    <3> QED BY <1>1, <2>1, <3>1, FlowPairs DEF Standing, PcFlows, Busy
  <2>2. ASSUME NEW e \in Command, Entrance(e) PROVE pc'[e] \notin {"idle", "measured"}
    BY <2>2 DEF Entrance, QueueOrdinary, Stops, Refuse, Goto, Lanes, TypeOK, Typed
  <2> QED BY <2>1, <2>2, RequestsFlow
<1>6. \A c \in preempted' : pc'[c] \in Busy \cup {"done"}
  BY <1>2, <1>3, <1>4, PreemptedFlow DEF Standing
<1>7. \A d \in Command : \A x \in barriers'[d] : pc'[x] \in Busy \cup {"done"}
  BY <1>2, <1>3, <1>4, BarriersFlow DEF Standing
<1> QED BY <1>5, <1>6, <1>7 DEF Standing

\* A live entry is queued, merged or in a lane.
LEMMA LiveEntry ==
  ASSUME Lanes, Carriers, NEW c \in Command, NEW m \in Live(c)
  PROVE  /\ m \in Command /\ answer[m] = "open" /\ m \in Range(members[c])
         /\ Chan[m] \subseteq chans[c]
         /\ pc[c] \in {"queued", "merged"} \cup Busy /\ pc[m] \notin {"idle", "measured"}
         /\ pc[c] = "queued" => m = c
<1>1. Carrier(c) /\ m \in Command /\ answer[m] = "open" /\ m \in Range(members[c])
  BY MembersAreCommands DEF Carriers, Live
<1>2. pc[m] \notin {"idle", "measured"}
  BY <1>1 DEF Carriers, Carrier
<1>3. pc[c] \in Unrun => Range(members[c]) = {c}
  BY <1>1 DEF Carrier, Range
<1>4. pc[c] \notin {"idle", "measured", "done"}
  BY <1>1, <1>2, <1>3 DEF Carrier, Unrun
<1>5. pc[c] \in Pcs
  BY PcTyped
<1> QED BY <1>1, <1>2, <1>3, <1>4, <1>5 DEF Carrier, Pcs, Busy, Unrun

\* The caller of a move is carried by a move.
LEMMA MovesCarryMoves ==
  ASSUME Lanes, Carriers, NEW c \in Command, NEW m \in Range(members[c])
  PROVE  Kind[m] = "move" <=> Kind[c] = "move"
<1>1. Carrier(c)
  BY DEF Carriers
<1>2. CASE Key[c] = NoKey
  <2>1. Range(members[c]) = {c}
    BY <1>1, <1>2 DEF Carrier, Range
  <2> QED BY <2>1
<1>3. CASE Key[c] # NoKey /\ m # c
  <2>1. Key[m] # NoKey
    BY <1>1, <1>3 DEF Carrier
  <2>2. m \in Command
    BY MembersAreCommands
  <2> QED BY <1>3, <2>1, <2>2, HubAssumption
<1> QED BY <1>2, <1>3

\* An entry with a move that an overlapping STOP was requested behind is
\* preempted, or its frame is with the bridge already.
Stopped ==
  \A c, s \in Command : \A m \in Live(c) :
    /\ pc[c] # "merged" /\ Kind[m] = "move" /\ Kind[s] = "stop"
    /\ Before(m, s) /\ Chan[m] \cap Chan[s] # {}
    => c \in preempted \/ Pending(c)

\* An admitted STOP retires, preempts or finds published every move it overlaps.
LEMMA StopReaches ==
  ASSUME Entries, Entries', Standing, Stopped, Shapes, NEW e \in Command, Entrance(e),
         NEW c \in Command, NEW m \in Live(c)', pc'[c] # "merged", Kind[m] = "move",
         Kind[e] = "stop", m # e, Chan[m] \cap Chan[e] # {}
  PROVE  c \in preempted' \/ Pending(c)'
<1> USE DEF Entries
<1>1. /\ pc[e] \in {"idle", "measured"} /\ members' = members /\ chans' = chans
      /\ answer'[m] = "open" /\ m \in Range(members[c]) /\ m \in Command
  <2>1. members' = members /\ chans' = chans
    BY DEF Entrance, QueueOrdinary, Stops, Refuse, entries
  <2> QED BY <2>1, MembersAreCommands DEF Entrance, Asks, Live
<1>2. c # e /\ e \notin Range(members[c])
  <2>1. members[e] = <<e>>
    BY <1>1 DEF Carriers, Carrier, Unrun
  <2>2. Range(members[e]) = {e}
    BY <2>1 DEF Range
  <2>3. c # e
    BY <1>1, <2>2
  <2> QED BY <1>1, <2>3 DEF Carriers, Carrier
<1>3. CASE Stops(e)
  <2>1. m \in Live(c)
    <3>1. answer[m] = "open"
      BY <1>1, <1>3, <1>2 DEF Stops, Lanes, TypeOK, Typed
    <3> QED BY <1>1, <3>1 DEF Live
  <2>2. pc[c] \in {"queued", "merged"} \cup Busy /\ Chan[m] \subseteq chans[c]
        /\ (pc[c] = "queued" => m = c)
    BY <2>1, LiveEntry
  <2>3. Overlaps(c, e)
    <3>1. chans[e] = Chan[e]
      BY <1>1 DEF Carriers, Carrier, Unrun
    <3> QED BY <2>2, <3>1 DEF Overlaps
  <2>4. Kind[c] = "move"
    BY <1>1, MovesCarryMoves
  <2>5. pc'[c] # "done"
    BY DEF Carriers, Carrier
  <2>6. CASE pc[c] = "queued"
    <3>1. c \in StopRetires(e)
      BY <2>3, <2>4, <2>6, PcTyped DEF StopRetires
    <3> QED BY <1>2, <1>3, <2>5, <3>1 DEF Stops
  <2>7. pc[c] # "merged"
    <3>1. PcFlows(c)
      BY PcsFlow
    <3> QED BY <2>5, <3>1, FlowPairs DEF PcFlows, Busy
  <2>8. CASE pc[c] \in Busy
    <3>1. c \in Running /\ c \notin fast
      BY <2>4, <2>8, PcTyped DEF Lanes
    <3>2. c = inflight /\ c # Nobody
      BY <3>1 DEF Running
    <3>3. CASE c \in published
      <4>1. Pending(c)
        BY <2>1, <3>3 DEF Publications, Released
      <4>2. pc'[c] = pc[c]
        BY <1>2, <1>3, <2>5 DEF Stops, Lanes, TypeOK, Typed
      <4> QED BY <4>1, <4>2 DEF Pending
    <3>4. CASE c \notin published
      <4>1. c \in StopRaces(e)
        BY <2>3, <3>2, <3>4 DEF StopRaces, Unpublished
      <4> QED BY <1>3, <2>4, <4>1 DEF Stops
    <3> QED BY <3>3, <3>4
  <2> QED BY <2>2, <2>6, <2>7, <2>8
<1>4. CASE Refuse(e)
  <2>1. closed
    BY <1>4 DEF Refuse
  <2>2. answer'[m] # "open"
    BY <1>1, <1>4, <2>1 DEF Refuse, Lanes, TypeOK, Typed
  <2> QED BY <1>1, <2>2
<1>5. CASE QueueOrdinary(e)
  BY <1>5 DEF QueueOrdinary
<1> QED BY <1>3, <1>4, <1>5 DEF Entrance

\* Stopped is kept by every step.
LEMMA StepKeepsStopped ==
  ASSUME Entries, Entries', Standing, Stopped, Shapes
  PROVE  Stopped'
<1> USE DEF Entries
<1>1. SUFFICES ASSUME NEW c \in Command, NEW s \in Command, NEW m \in Live(c)',
                      pc'[c] # "merged", Kind[m] = "move", Kind[s] = "stop", Before(m, s)',
                      Chan[m] \cap Chan[s] # {}
               PROVE  c \in preempted' \/ Pending(c)'
  BY Zenon DEF Stopped
<1>2. PcFlows(c) /\ MemberFlows(c)
  BY PcsFlow, MembersFlow
<1>3. pc'[c] # "done"
  BY DEF Carriers, Carrier
<1>4. Pending(c) => Pending(c)'
  BY <1>2, <1>3, FlowPairs DEF PcFlows, Pending, Busy
<1>5. preempted \subseteq preempted'
  BY PreemptedFlow
<1>6. CASE Before(m, s)
  <2>1. CASE m \in Live(c)
    <3>1. pc[c] # "merged"
      BY <1>1, <1>2, <1>3, FlowPairs DEF PcFlows, Busy
    <3> QED BY <1>1, <1>4, <1>5, <1>6, <2>1, <3>1 DEF Stopped
  <2>2. CASE m \notin Live(c)
    <3>1. pc[c] \in {"idle", "measured", "queued"}
      BY <1>2, <2>2 DEF MemberFlows
    <3>2. m \in Range(requested)
      BY <1>6 DEF Before, Ahead, Range
    <3>3. pc[m] \notin {"idle", "measured"} /\ m \in Command
      <4>1. requested \in Seq(Command)
        BY DEF Lanes, TypeOK, Typed
      <4> QED BY <3>2, <4>1 DEF Standing, Range
    <3>4. answer[m] = "open"
      <4>1. answer'[m] = "open"
        BY DEF Live
      <4> QED BY <3>3, <4>1, AnswersFlow DEF AnswerFlows
    <3>5. m \notin Range(members[c])
      BY <2>2, <3>4 DEF Live
    <3>6. m \in Range(members'[c])
      BY DEF Live
    <3>7. pc[c] = "queued" /\ m # c /\ pc[m] = "queued"
      <4>1. c \in Range(members[c])
        BY DEF Carriers, Carrier
      <4> QED BY <1>2, <3>5, <3>6, <4>1 DEF MemberFlows
    <3>8. m \in Live(m)
      BY <3>3, <3>4 DEF Live, Carriers, Carrier
    <3>9. m \in preempted \/ Pending(m)
      BY <1>1, <1>6, <3>3, <3>7, <3>8 DEF Stopped
    <3> QED BY <3>7, <3>9 DEF Standing, Pending, Busy
  <2> QED BY <2>1, <2>2
<1>7. ASSUME ~Before(m, s), NEW e \in Command, Entrance(e) PROVE c \in preempted' \/ Pending(c)'
  <2>1. m \in Range(requested) /\ s = e
    BY <1>1, <1>7, RequestsFlow
  <2>2. m # e
    BY <1>7, <2>1 DEF Standing, Entrance, Asks
  <2> QED BY <1>1, <1>7, <2>1, <2>2, StopReaches
<1>8. CASE requested' = requested
  BY <1>1, <1>6, <1>8 DEF Before
<1> QED BY <1>6, <1>7, <1>8, RequestsFlow

\* A preempted move does not publish, so no frame behind the STOP has one.
LEMMA StepKeepsRetired ==
  ASSUME Entries, Standing, Stopped, StopRetiresMoves, Shapes
  PROVE  StopRetiresMoves'
<1> USE DEF Entries
<1>1. SUFFICES ASSUME NEW i \in DOMAIN log', NEW L, L = log'[i].live, NEW m \in L, Kind[m] = "move",
                      NEW s \in Command, Kind[s] = "stop", Before(m, s)', Chan[m] \cap Chan[s] # {}
               PROVE  i <= since'[s]
  BY DEF StopRetiresMoves
<1>2. since'[s] = since[s] \/ (Entrance(s) /\ since'[s] = Len(log))
  <2>0. since \in [Command -> Nat]
    BY DEF Lanes, TypeOK, Typed
  <2>1. ASSUME NEW c \in Command,
               \/ \E r \in {"superseded", "failed", "acked"} : Ends(c, r)
               \/ \E p \in Busy : Moves(c, p)
               \/ Publishes(c) \/ Cancel(c) \/ Marks(c)
        PROVE  since' = since
    BY <2>1 DEF Ends, Moves, Publishes, Calm, Cancel, Marks, history
  <2>2. ASSUME \/ \E h \in Command, B \in SUBSET Command : Pops(h, B)
               \/ Drops
               \/ \E S \in SUBSET Channel : Press(S)
               \/ \E o \in cast.departing : Drains(o)
               \/ Close
        PROVE  since' = since
    BY <2>2 DEF Pops, Drops, Press, Drains, Close, history
  <2>3. ASSUME NEW c \in Command, Measure(c) PROVE since'[s] = since[s]
    <3>1. c # s
      BY <1>1, <2>3, HubAssumption DEF Measure
    <3> QED BY <2>0, <2>3, <3>1 DEF Measure
  <2>4. ASSUME NEW c \in Command, Entrance(c) PROVE <1>2
    <3>1. s \notin Measured
      BY <1>1, HubAssumption
    <3> QED BY <2>0, <2>4, <3>1 DEF Entrance, Asks
  <2> QED BY <2>1, <2>2, <2>3, <2>4 DEF Shapes
<1>3. since[s] \in Nat /\ Len(log) \in Nat
  BY LogTyped DEF Lanes, TypeOK, Typed
<1>4. CASE i \in DOMAIN log /\ log'[i] = log[i]
  <2>1. CASE Entrance(s)
    <3>1. s \notin Measured
      BY <1>1, HubAssumption
    <3>2. since' = [since EXCEPT ![s] = Len(log)]
      BY <2>1, <3>1 DEF Entrance, Asks
    <3>3. since'[s] = Len(log)
      BY <3>2 DEF Lanes, TypeOK, Typed
    <3> QED BY <1>3, <1>4, <3>3, LogTyped
  <2>2. CASE ~Entrance(s)
    <3>1. Before(m, s)
      BY <1>1, <2>2, RequestsFlow DEF Before
    <3> QED BY <1>1, <1>2, <1>4, <2>2, <3>1 DEF StopRetiresMoves
  <2> QED BY <2>1, <2>2
<1>5. ASSUME NEW c \in Command, Publishes(c), i = Len(log) + 1 PROVE FALSE
  <2>1. m \in Live(c) /\ c \notin preempted /\ ~Pending(c) /\ pc[c] # "merged"
    BY <1>1, <1>5, LogGrows DEF Publishes, Refused, Pending
  <2>2. Before(m, s)
    BY <1>1, <1>5 DEF Publishes, Calm, Before
  <2> QED BY <1>1, <2>1, <2>2 DEF Stopped
<1> QED BY <1>4, <1>5, LogFlow, LogGrows

----------------------------------------------------------------------------
(* Request order is publication order. *)

\* What keeps d from publishing before c does.
Behind(c, d) ==
  \/ pc[d] = "queued" /\ (Ahead(queue, c, d) \/ c = inflight \/ c \in barriers[d])
  \/ pc[d] = "barrier" /\ c \in barriers[d]

\* Two requests that could be published, in order.
Conflict(c, d, a, b) ==
  /\ a \in Live(c) /\ b \in Live(d) /\ Before(a, b) /\ Chan[a] \cap Chan[b] # {}
  /\ c \notin published /\ pc[c] # "merged" /\ pc[d] # "merged"

\* A request that overlaps b and came before it still waits to be published.
Overtaken(c, a, b) ==
  /\ a \in Live(c) /\ Before(a, b) /\ Chan[a] \cap Chan[b] # {}
  /\ c \notin published /\ pc[c] # "merged"

\* While a request waits to be published, what was requested after it and
\* overlaps it is behind it and not in a frame.
Ordered ==
  /\ \A c, d \in Command : \A a, b : c # d /\ Conflict(c, d, a, b) => Behind(c, d)
  /\ \A c \in Command : \A a : \A i \in DOMAIN log : \A b \in log[i].live : ~Overtaken(c, a, b)

\* What an entry's own coroutine does keeps the others behind it.
LEMMA CoroutineKeepsBehind ==
  ASSUME Entries, NEW c \in Command, NEW d \in Command, c # d, Behind(c, d), c \notin published',
         pc'[d] # "done", pc[d] # "merged", NEW e \in Command,
         \/ \E r \in {"superseded", "failed", "acked"} : Ends(e, r)
         \/ \E p \in Busy : Moves(e, p)
         \/ Publishes(e)
  PROVE  Behind(c, d)'
<1> USE DEF Entries
<1>0. pc \in [Command -> Pcs]
  BY DEF Lanes, TypeOK, Typed
<1>1. queue' = queue /\ barriers' = barriers /\ (inflight' = inflight \/ inflight = e)
  BY DEF Ends, Moves, Publishes, Calm
<1>2. c # e \/ inflight' = inflight
  BY DEF Ends, Moves, Publishes
<1>3. d # e
  <2>1. ASSUME d = e PROVE FALSE
    <3>1. pc[d] \in {"queued", "barrier"}
      BY DEF Behind
    <3>2. PICK p \in Busy : Moves(d, p)
      BY <1>0, <2>1, <3>1 DEF Ends, Publishes
    <3>3. pc[d] = "barrier" /\ barriers[d] \subseteq published
      BY <3>1, <3>2 DEF Moves, Transitions
    <3>4. c \in barriers[d] /\ published' = published
      BY <3>2, <3>3 DEF Behind, Moves
    <3> QED BY <3>3, <3>4
  <2> QED BY <2>1
<1>4. pc'[d] = pc[d]
  BY <1>0, <1>3 DEF Ends, Moves, Publishes
<1>5. c = inflight => inflight' = c
  BY <1>1, <1>2
<1> QED BY <1>1, <1>4, <1>5 DEF Behind

\* Drops and drains keep the order of what they leave.
LEMMA ShedKeepsBehind ==
  ASSUME Entries, NEW c \in Command, NEW d \in Command, Behind(c, d),
         Live(c)' # {}, Live(d)' # {}, pc'[c] # "done", pc'[d] # "done", pc'[d] = pc[d],
         NEW T, Sheds(T), T \subseteq Range(queue), \A x \in T : pc'[x] = "done",
         Live(c) # {}, Live(d) # {}, inflight' = inflight, barriers' = barriers
  PROVE  Behind(c, d)'
<1>1. ASSUME Ahead(queue, c, d) PROVE Ahead(queue', c, d)
  <2>1. c \in Range(queue) /\ d \in Range(queue)
    BY <1>1 DEF Ahead, Range
  <2>2. c \in Range(queue') /\ d \in Range(queue')
    BY <2>1 DEF Sheds
  <2> QED BY <1>1, <2>2 DEF Sheds
<1> QED BY <1>1 DEF Behind

\* What the head takes along stood behind nobody that it overlaps.
LEMMA PopKeepsBehind ==
  ASSUME Entries, Standing, Ordered, NEW h \in Command, NEW B \in SUBSET Command, Pops(h, B),
         NEW c \in Command, NEW d \in Command, NEW a, NEW b, c # d, Conflict(c, d, a, b)'
  PROVE  Behind(c, d)'
<1> USE DEF Entries
<1>1. /\ pc'[h] = "barrier" /\ \A x \in B : pc'[x] = "merged"
      /\ \A x \in Command \ ({h} \cup B) : pc'[x] = pc[x] \/ (x \in Range(queue) \ Range(queue') /\ pc'[x] = "done")
      /\ inflight = Nobody /\ inflight' = h /\ answer' = answer /\ published' = published
      /\ \A x \in Command \ {h} : members'[x] = members[x]
      /\ Range(members'[h]) = Range(members[h]) \cup B
      /\ requested' = requested
      /\ barriers' = [barriers EXCEPT ![h] = @ \cup UNION {barriers[x] \ published : x \in B}]
      /\ h \in Range(queue) /\ B \subseteq Range(queue) \ {h}
  BY DEF Pops, history
<1>2. /\ barriers'[h] = barriers[h] \cup UNION {barriers[x] \ published : x \in B}
      /\ \A x \in Command \ {h} : barriers'[x] = barriers[x]
  BY <1>1 DEF Lanes, TypeOK, Typed
<1>3. \A x \in Range(queue) : x \in Command /\ pc[x] = "queued"
  BY QueueIsQueued
<1>4. c \notin B /\ d \notin B
  BY <1>1 DEF Conflict
<1>5. \A x \in Command \ {h} : Live(x)' = Live(x)
  BY <1>1 DEF Live
<1>6. /\ Before(a, b) /\ Chan[a] \cap Chan[b] # {} /\ c \notin published
      /\ answer[a] = "open" /\ answer[b] = "open" /\ a \in Command /\ b \in Command
  BY <1>1, LiveEntry, MembersAreCommands DEF Conflict, Before, Live
<1>7. \A x \in {h} \cup B : x \in Command /\ pc[x] = "queued" /\ x \notin published
                             /\ (answer[x] = "open" => x \in Live(x))
  BY <1>1, <1>3 DEF Carriers, Carrier, Live, Publications, Released, Busy
<1>8. ASSUME NEW x \in Command, x \in {c, d}, x # h
      PROVE  /\ (x = c => a \in Live(c)) /\ (x = d => b \in Live(d)) /\ pc[x] # "merged"
             /\ Live(x) # {} /\ pc'[x] = pc[x]
             /\ x \in Range(queue) => x \in Range(queue')
  <2>1. (x = c => a \in Live(c)) /\ (x = d => b \in Live(d)) /\ Live(x) # {}
    BY <1>5, <1>8 DEF Conflict
  <2>2. x \in Range(queue) => x \in Range(queue')
    BY <1>4, <1>8, <2>1 DEF Pops, Sheds
  <2>3. pc'[x] = pc[x]
    BY <1>1, <1>4, <1>8, <2>2
  <2> QED BY <1>8, <2>1, <2>2, <2>3 DEF Conflict
<1>9. Range(members'[h]) = {h} \cup B
  <2>1. members[h] = <<h>>
    BY <1>7 DEF Carriers, Carrier, Unrun
  <2>2. Range(<<h>>) = {h}
    BY DEF Range
  <2> QED BY <1>1, <2>1, <2>2
<1>10. CASE c = h
  <2>1. d # h /\ a \in {h} \cup B
    BY <1>9, <1>10 DEF Conflict, Live
  <2>2. a # d /\ Conflict(a, d, a, b)
    BY <1>1, <1>4, <1>6, <1>7, <1>8, <2>1 DEF Conflict
  <2>3. Behind(a, d)
    BY <1>6, <2>2 DEF Ordered
  <2>4. a \notin barriers[d]
    BY <1>7, <2>1 DEF Standing, Busy
  <2>5. pc[d] = "queued"
    BY <2>3, <2>4 DEF Behind
  <2> QED BY <1>1, <1>8, <1>10, <2>1, <2>5 DEF Behind
<1>11. CASE d = h
  <2>1. c # h /\ b \in {h} \cup B
    BY <1>9, <1>11 DEF Conflict, Live
  <2>2. c # b /\ Conflict(c, b, a, b)
    BY <1>4, <1>6, <1>7, <1>8, <2>1 DEF Conflict
  <2>3. Behind(c, b) /\ pc[b] = "queued"
    BY <1>6, <1>7, <2>1, <2>2 DEF Ordered
  <2>4. c # inflight
    BY <1>1, HubAssumption
  <2>5. ~Ahead(queue, c, b)
    <3>1. ASSUME Ahead(queue, c, b) PROVE FALSE
      <4>1. Live(c) # {} /\ a \in Live(c) /\ b \in Live(b)
        BY <1>6, <1>7, <1>8, <2>1
      <4>2. b \in B
        BY <2>1, <3>1, <4>1 DEF Pops
      <4>3. c \in Range(queue) \ (B \cup {h})
        BY <1>4, <2>1, <3>1 DEF Ahead, Range
      <4>4. ~Overlaps(c, b)
        BY <3>1, <4>1, <4>2, <4>3 DEF Pops
      <4>5. Chan[a] \subseteq chans[c] /\ Chan[b] \subseteq chans[b]
        BY <1>6, <4>1, LiveEntry
      <4> QED BY <1>6, <4>4, <4>5 DEF Overlaps
    <3> QED BY <3>1
  <2>6. c \in barriers[b]
    BY <2>3, <2>4, <2>5 DEF Behind
  <2>7. c \in barriers'[h]
    BY <1>2, <1>6, <2>1, <2>6
  <2> QED BY <1>1, <1>11, <2>7 DEF Behind
<1>12. CASE c # h /\ d # h
  <2>1. Conflict(c, d, a, b)
    BY <1>6, <1>8, <1>12 DEF Conflict
  <2>2. Behind(c, d)
    BY <2>1 DEF Ordered
  <2>3. c # inflight
    BY <1>1, HubAssumption
  <2>4. ASSUME Ahead(queue, c, d) PROVE Ahead(queue', c, d)
    <3>1. c \in Range(queue) /\ d \in Range(queue)
      BY <2>4 DEF Ahead, Range
    <3>2. c \in Range(queue') /\ d \in Range(queue')
      BY <1>8, <1>12, <3>1
    <3> QED BY <2>4, <3>2 DEF Pops, Sheds
  <2> QED BY <1>2, <1>8, <1>12, <2>2, <2>3, <2>4 DEF Behind
<1> QED BY <1>10, <1>11, <1>12

\* A request that enters is behind what it conflicts with, and moves nothing.
LEMMA EntranceKeepsBehind ==
  ASSUME Entries, Entries', Standing, Ordered, Shapes, NEW e \in Command, Entrance(e),
         NEW c \in Command, NEW d \in Command, NEW a, NEW b, c # d, Conflict(c, d, a, b)'
  PROVE  Behind(c, d)'
<1> USE DEF Entries
<1>0. /\ pc \in [Command -> Pcs] /\ barriers \in [Command -> SUBSET Command]
      /\ answer \in [Command -> Answers] /\ queue \in Seq(Command) /\ requested \in Seq(Command)
  BY DEF Lanes, TypeOK, Typed
<1>1. /\ pc[e] \in {"idle", "measured"} /\ members' = members /\ chans' = chans
      /\ inflight' = inflight /\ published \subseteq published'
  <2>1. /\ members' = members /\ chans' = chans /\ inflight' = inflight
        /\ published \subseteq published'
    BY DEF Entrance, QueueOrdinary, Stops, Refuse, entries, lanes
  <2> QED BY <2>1 DEF Entrance, Asks
<1>2. Range(members[e]) = {e} /\ chans[e] = Chan[e]
  <2>1. members[e] = <<e>> /\ chans[e] = Chan[e]
    BY <1>1 DEF Carriers, Carrier, Unrun
  <2> QED BY <2>1 DEF Range
<1>3. /\ a \in Range(members[c]) /\ b \in Range(members[d]) /\ a \in Command /\ b \in Command
      /\ answer'[a] = "open" /\ answer'[b] = "open"
      /\ Before(a, b)' /\ Chan[a] \cap Chan[b] # {} /\ c \notin published'
      /\ pc'[c] # "merged" /\ pc'[d] # "merged"
  BY <1>1, MembersAreCommands DEF Conflict, Live
<1>4. a \in Range(requested) /\ a # e /\ c # e /\ (Before(a, b) \/ b = e)
  <2>1. Before(a, b) => a \in Range(requested)
    BY DEF Before, Ahead, Range
  <2>2. a \in Range(requested) /\ (Before(a, b) \/ b = e)
    BY <1>3, <2>1, RequestsFlow
  <2>3. a # e
    BY <1>1, <2>2 DEF Standing
  <2> QED BY <1>2, <1>3, <2>2, <2>3
<1>5. ASSUME NEW x \in Command, x # e, answer'[x] = "open" PROVE answer[x] = "open"
  BY <1>0, <1>5 DEF Entrance, QueueOrdinary, Stops, Refuse
<1>6. ASSUME NEW x \in Command, x # e, x \in {c, d} PROVE pc'[x] = pc[x] /\ pc[x] # "merged"
  <2>1. pc'[x] # "done"
    BY <1>6 DEF Carriers, Carrier, Conflict
  <2>2. pc'[x] = pc[x]
    BY <1>0, <1>6, <2>1 DEF Entrance, QueueOrdinary, Stops, Refuse, Goto
  <2> QED BY <1>3, <1>6, <2>2
<1>7. a \in Live(c) /\ c \notin published /\ pc'[c] = pc[c] /\ pc[c] # "merged"
  BY <1>1, <1>3, <1>4, <1>5, <1>6 DEF Live
<1>8. CASE d = e
  <2>1. b = e
    BY <1>2, <1>3, <1>8
  <2>2. Overlaps(c, e) /\ pc[c] \in {"queued"} \cup Busy
    BY <1>2, <1>3, <1>7, <2>1, LiveEntry DEF Overlaps
  <2>3. pc[c] = "queued" => c \in Range(queue)
    BY PcTyped
  <2>4. pc[c] \in Busy => c \in Running
    BY DEF Lanes
  <2>5. CASE QueueOrdinary(e)
    <3>1. /\ pc'[e] = "queued" /\ queue' = Append(queue, e)
          /\ barriers'[e] = Barriers(e, published)
      BY <1>0, <2>5 DEF QueueOrdinary, Goto
    <3>2. pc[c] = "queued" => Ahead(queue', c, e)
      BY <1>0, <2>3, <3>1, AppendKeeps
    <3>3. pc[c] \in Busy => c \in barriers'[e]
      BY <1>7, <2>2, <2>4, <3>1 DEF Barriers
    <3> QED BY <1>8, <2>2, <3>1, <3>2, <3>3 DEF Behind
  <2>6. CASE Stops(e)
    <3>1. barriers'[e] = Barriers(e, published \cup StopCuts(e))
          /\ published' = published \cup StopCuts(e)
      BY <1>0, <2>6 DEF Stops
    <3>2. pc[c] \in Busy => c \in barriers'[e]
      BY <1>3, <2>2, <2>4, <3>1 DEF Barriers
    <3>3. ASSUME pc[c] = "queued" PROVE c \in Range(queue) \ StopRetires(e) /\ Live(c) # {}
      <4>1. c \notin StopRetires(e)
        BY <1>4, <1>7, <2>6, <3>3 DEF Stops
      <4> QED BY <1>7, <2>3, <3>3, <4>1
    <3>4. pc'[e] \in {"barrier", "queued"}
      BY <2>6 DEF Stops
    <3>5. pc[c] = "queued" => pc'[e] = "queued" /\ Ahead(queue', c, e)
      BY <2>2, <2>6, <3>3 DEF Stops
    <3> QED BY <1>8, <2>2, <3>2, <3>4, <3>5 DEF Behind
  <2>7. CASE Refuse(e)
    BY <1>0, <1>3, <2>1, <2>7 DEF Refuse
  <2> QED BY <2>5, <2>6, <2>7 DEF Entrance
<1>9. CASE d # e
  <2>1. b # e
    BY <1>1, <1>3, <1>9 DEF Carriers, Carrier
  <2>2. Before(a, b) /\ b \in Live(d) /\ pc'[d] = pc[d] /\ pc[d] # "merged"
    BY <1>3, <1>4, <1>5, <1>6, <1>9, <2>1 DEF Live
  <2>3. Behind(c, d)
    BY <1>3, <1>7, <2>2 DEF Ordered, Conflict
  <2>4. barriers'[d] = barriers[d]
    BY <1>0, <1>9 DEF Entrance, QueueOrdinary, Stops, Refuse, entries
  <2>5. ASSUME pc[d] = "queued", Ahead(queue, c, d) PROVE Ahead(queue', c, d)
    <3>1. CASE Stops(e)
      <4>1. c \in Range(queue) /\ d \in Range(queue)
        BY <2>5 DEF Ahead, Range
      <4>2. pc[c] = "queued"
        BY <4>1, QueueIsQueued
      <4>3. c \notin StopRetires(e) /\ d \notin StopRetires(e)
        BY <1>4, <1>7, <1>9, <2>2, <2>5, <3>1, <4>2 DEF Stops
      <4> QED BY <2>5, <3>1, <4>1, <4>3 DEF Stops
    <3>2. CASE QueueOrdinary(e)
      BY <1>0, <2>5, <3>2, AppendKeeps DEF QueueOrdinary
    <3>3. CASE Refuse(e)
      BY <2>5, <3>3 DEF Refuse, lanes
    <3> QED BY <3>1, <3>2, <3>3 DEF Entrance
  <2> QED BY <1>1, <2>2, <2>3, <2>4, <2>5 DEF Behind
<1> QED BY <1>8, <1>9

\* Outside a pop and a request nothing joins an entry.
LEMMA QuietSteps ==
  ASSUME Entries, Shapes, ~\E h \in Command, B \in SUBSET Command : Pops(h, B),
         ~\E e \in Command : Entrance(e), NEW x \in Command
  PROVE  requested' = requested /\ Live(x)' \subseteq Live(x)
<1> USE DEF Entries
<1>1. requested' = requested
  BY RequestsFlow
<1>2. members' = members
  <2>1. ASSUME NEW c \in Command,
               \/ \E r \in {"superseded", "failed", "acked"} : Ends(c, r)
               \/ \E p \in Busy : Moves(c, p)
               \/ Publishes(c) \/ Measure(c) \/ Cancel(c) \/ Marks(c)
        PROVE  members' = members
    BY <2>1 DEF Ends, Moves, Publishes, Calm, Measure, Cancel, Marks, entries
  <2>2. ASSUME \/ Drops
               \/ \E S \in SUBSET Channel : Press(S)
               \/ \E o \in cast.departing : Drains(o)
               \/ Close
        PROVE  members' = members
    BY <2>2 DEF Drops, Press, Drains, Close, entries
  <2> QED BY <2>1, <2>2 DEF Shapes
<1>3. ASSUME NEW m \in Live(x)' PROVE m \in Live(x)
  <2>1. m \in Range(members[x]) /\ m \in Command /\ answer'[m] = "open"
    BY <1>2, MembersAreCommands DEF Live
  <2>2. answer \in [Command -> Answers]
    BY DEF Lanes, TypeOK, Typed
  <2>3. ASSUME NEW c \in Command,
               \/ \E r \in {"superseded", "failed", "acked"} : Ends(c, r)
               \/ \E p \in Busy : Moves(c, p)
               \/ Publishes(c) \/ Measure(c) \/ Cancel(c) \/ Marks(c)
        PROVE  answer[m] = "open"
    <3>1. m \in Live(c) => answer[m] = "open"
      BY DEF Live
    <3> QED BY <2>1, <2>2, <2>3, <3>1 DEF Ends, Moves, Publishes, Measure, Cancel, Marks
  <2>4. ASSUME \/ Drops
               \/ \E S \in SUBSET Channel : Press(S)
               \/ \E o \in cast.departing : Drains(o)
               \/ Close
        PROVE  answer[m] = "open"
    BY <2>1, <2>4 DEF Drops, Press, Drains, Close
  <2>5. answer[m] = "open"
    BY <2>3, <2>4 DEF Shapes
  <2> QED BY <2>1, <2>5 DEF Live
<1> QED BY <1>1, <1>3

\* Every step keeps the later of two conflicting entries behind the earlier.
LEMMA StepKeepsBehind ==
  ASSUME Entries, Entries', Standing, Ordered, Shapes,
         NEW c \in Command, NEW d \in Command, NEW a, NEW b, c # d, Conflict(c, d, a, b)'
  PROVE  Behind(c, d)'
<1> USE DEF Entries
<1>1. ASSUME NEW h \in Command, NEW B \in SUBSET Command, Pops(h, B) PROVE Behind(c, d)'
  BY <1>1, PopKeepsBehind
<1>2. ASSUME NEW e \in Command, Entrance(e) PROVE Behind(c, d)'
  BY <1>2, EntranceKeepsBehind
<1>3. CASE /\ ~\E h \in Command, B \in SUBSET Command : Pops(h, B)
           /\ ~\E e \in Command : Entrance(e)
  <2>0. pc \in [Command -> Pcs]
    BY DEF Lanes, TypeOK, Typed
  <2>1. requested' = requested /\ Live(c)' \subseteq Live(c) /\ Live(d)' \subseteq Live(d)
    BY <1>3, QuietSteps
  <2>2. a \in Live(c)' /\ b \in Live(d)' /\ pc'[c] # "done" /\ pc'[d] # "done"
    BY DEF Conflict, Carriers, Carrier
  <2>3. pc[c] # "merged" /\ pc[d] # "merged"
    <3>1. PcFlows(c) /\ PcFlows(d)
      BY PcsFlow
    <3> QED BY <2>2, <3>1, FlowPairs DEF PcFlows, Conflict, Busy
  <2>4. c \notin published
    BY PublishedFlow DEF PublishedFlows, Conflict
  <2>5. Conflict(c, d, a, b)
    BY <2>1, <2>2, <2>3, <2>4 DEF Conflict, Before
  <2>6. Behind(c, d)
    BY <2>5 DEF Ordered
  <2>7. ASSUME NEW e \in Command,
               \/ \E r \in {"superseded", "failed", "acked"} : Ends(e, r)
               \/ \E p \in Busy : Moves(e, p)
               \/ Publishes(e)
        PROVE  Behind(c, d)'
    BY <2>2, <2>3, <2>6, <2>7, CoroutineKeepsBehind DEF Conflict
  <2>8. CASE Drops
    <3>1. Sheds({}) /\ inflight' = inflight /\ barriers' = barriers
          /\ pc' = [x \in Command |-> IF x \in Range(queue) \ Range(queue') THEN "done" ELSE pc[x]]
      BY <2>8 DEF Drops, entries
    <3>2. pc'[d] = pc[d]
      BY <2>2, <3>1
    <3> QED BY <2>1, <2>2, <2>6, <3>1, <3>2, ShedKeepsBehind
  <2>9. ASSUME NEW o, Drains(o) PROVE Behind(c, d)'
    <3>1. /\ Sheds(DrainQueued(o)) /\ inflight' = inflight /\ barriers' = barriers
          /\ pc' = [x \in Command |-> IF x \in DrainQueued(o) THEN "done" ELSE pc[x]]
      BY <2>9 DEF Drains
    <3>2. DrainQueued(o) \subseteq Range(queue) /\ \A x \in DrainQueued(o) : pc'[x] = "done"
      BY <3>1, QueueIsQueued DEF DrainQueued
    <3>3. pc'[d] = pc[d]
      BY <2>2, <3>1
    <3> QED BY <2>1, <2>2, <2>6, <3>1, <3>2, <3>3, ShedKeepsBehind
  <2>10. CASE Close
    <3>1. answer'[a] # "open"
      BY <2>2, <2>10, MembersAreCommands DEF Close, Live
    <3> QED BY <2>2, <3>1 DEF Live
  <2>11. CASE \/ \E e \in Command : Measure(e) \/ Cancel(e) \/ Marks(e)
              \/ \E S \in SUBSET Channel : Press(S)
    <3>1. queue' = queue /\ inflight' = inflight /\ barriers' = barriers
      BY <2>11 DEF Measure, Cancel, Marks, Press, lanes, entries
    <3>2. pc'[d] = pc[d]
      <4>1. pc[d] \in {"queued", "barrier"}
        BY <2>6 DEF Behind
      <4> QED BY <2>0, <2>11, <4>1 DEF Measure, Cancel, Marks, Press, Goto
    <3> QED BY <2>6, <3>1, <3>2 DEF Behind
  <2> QED BY <1>3, <2>7, <2>8, <2>9, <2>10, <2>11 DEF Shapes
<1> QED BY <1>1, <1>2, <1>3

\* What is not requested yet is in no frame.
LEMMA UnrequestedUnsent ==
  ASSUME Entries, NEW e \in Command, pc[e] \in {"idle", "measured"}, NEW i \in DOMAIN log
  PROVE  e \notin log[i].live
<1>1. PICK k : k = log[i].cmd
  OBVIOUS
<1>2. k \in Command /\ pc[k] \in {"admission", "started", "done"} /\ log[i].live \subseteq Range(members[k])
  BY <1>1, LogTyped DEF Entries, Publications, SentBy
<1>3. e # k /\ e \notin Range(members[k])
  BY <1>2 DEF Entries, Carriers, Carrier
<1> QED BY <1>2, <1>3

\* A frame in the log overtook nothing that still waits, and no new one does.
LEMMA StepKeepsUnovertaken ==
  ASSUME Entries, Entries', Standing, Ordered, Shapes,
         NEW c \in Command, NEW a, NEW i \in DOMAIN log', NEW b, b \in log'[i].live, Overtaken(c, a, b)'
  PROVE  FALSE
<1> USE DEF Entries
<1>1. /\ a \in Live(c)' /\ Before(a, b)' /\ Chan[a] \cap Chan[b] # {}
      /\ c \notin published' /\ pc'[c] # "merged" /\ answer'[a] = "open"
  BY DEF Overtaken, Live
<1>2. PcFlows(c) /\ MemberFlows(c) /\ pc'[c] # "done"
  BY <1>1, PcsFlow, MembersFlow DEF Carriers, Carrier
<1>3. pc[c] # "merged" /\ c \notin published
  BY <1>1, <1>2, FlowPairs, PublishedFlow DEF PcFlows, PublishedFlows, Busy
<1>4. /\ requested \in Seq(Command) /\ (Before(a, b) => a \in Range(requested))
  BY DEF Lanes, TypeOK, Typed, Before, Ahead, Range
<1>5. CASE i \in DOMAIN log /\ log'[i] = log[i]
  <2>1. ASSUME ~Before(a, b) PROVE FALSE
    <3>1. PICK e \in Command : Entrance(e) /\ b = e
      BY <1>1, <2>1, RequestsFlow DEF Before
    <3> QED BY <1>5, <3>1, UnrequestedUnsent DEF Entrance, Asks
  <2>2. ASSUME a \in Live(c), Before(a, b) PROVE FALSE
    <3>1. Overtaken(c, a, b)
      BY <1>1, <1>3, <2>2 DEF Overtaken
    <3> QED BY <1>5, <3>1 DEF Ordered
  <2>3. ASSUME a \notin Live(c), Before(a, b) PROVE FALSE
    <3>1. pc[c] \in {"idle", "measured", "queued"} /\ a \in Range(members'[c])
      BY <1>1, <1>2, <2>3 DEF MemberFlows, Live
    <3>2. pc[a] \notin {"idle", "measured"} /\ a \in Command
      BY <1>4, <2>3 DEF Standing, Range
    <3>3. answer[a] = "open"
      BY <1>1, <3>2, AnswersFlow DEF AnswerFlows
    <3>4. a \notin Range(members[c])
      BY <2>3, <3>3 DEF Live
    <3>5. c \in Range(members[c])
      BY DEF Carriers, Carrier
    <3>6. pc[c] = "queued" /\ a # c /\ pc[a] = "queued"
      BY <1>2, <3>1, <3>4, <3>5 DEF MemberFlows
    <3>7. a \in Live(a) /\ a \notin published
      BY <3>2, <3>3, <3>6 DEF Live, Carriers, Carrier, Publications, Released, Busy
    <3>8. Overtaken(a, a, b)
      BY <1>1, <2>3, <3>6, <3>7 DEF Overtaken
    <3> QED BY <1>5, <3>2, <3>8 DEF Ordered
  <2> QED BY <2>1, <2>2, <2>3
<1>6. ASSUME NEW k \in Command, Publishes(k), i = Len(log) + 1 PROVE FALSE
  <2>1. b \in Live(k)
    BY <1>6, LogGrows
  <2>2. /\ pc[k] = "handoff" /\ members' = members /\ answer' = answer
        /\ requested' = requested /\ k \in published'
    BY <1>6 DEF Publishes, Calm
  <2>3. a \in Live(c) /\ Before(a, b) /\ c # k
    BY <1>1, <2>2 DEF Live, Before
  <2>4. Conflict(c, k, a, b)
    BY <1>1, <1>3, <2>1, <2>2, <2>3 DEF Conflict
  <2> QED BY <2>2, <2>3, <2>4 DEF Ordered, Behind
<1> QED BY <1>5, <1>6, LogFlow, LogGrows

\* Ordered is kept by every step.
LEMMA StepKeepsOrdered ==
  ASSUME Entries, Entries', Standing, Ordered, Shapes
  PROVE  Ordered'
<1>1. \A c, d \in Command : \A a, b : c # d /\ Conflict(c, d, a, b)' => Behind(c, d)'
  BY StepKeepsBehind
<1>2. \A c \in Command : \A a : \A i \in DOMAIN log' : \A b \in log'[i].live : ~Overtaken(c, a, b)'
  BY StepKeepsUnovertaken
<1> QED BY <1>1, <1>2 DEF Ordered

\* RequestOrder, stated of the requests instead of their places.
Orderly(a, b) ==
  \A i, j \in DOMAIN log : j < i => ~(b \in log[j].live /\ a \in log[i].live)

\* RequestOrder, request by request.
LEMMA OrderOfRequests ==
  RequestOrder <=> \A a, b : Before(a, b) /\ Chan[a] \cap Chan[b] # {} => Orderly(a, b)
BY DEF RequestOrder, Orderly, Before, Ahead, InFrame

\* A frame has no caller that an earlier frame has overtaken.
LEMMA StepKeepsOrder ==
  ASSUME Entries, Standing, Ordered, RequestOrder, Shapes
  PROVE  \A a, b : Before(a, b)' /\ Chan[a] \cap Chan[b] # {} => Orderly(a, b)'
<1> USE DEF Entries
<1>1. SUFFICES ASSUME NEW a, NEW b, Before(a, b)', Chan[a] \cap Chan[b] # {},
                      NEW i \in DOMAIN log', NEW j \in DOMAIN log', j < i,
                      b \in log'[j].live, a \in log'[i].live
               PROVE  FALSE
  BY DEF Orderly
<1>2. CASE i \in DOMAIN log /\ log'[i] = log[i] /\ j \in DOMAIN log /\ log'[j] = log[j]
  <2>1. CASE Before(a, b)
    <3>1. Orderly(a, b)
      BY <1>1, <2>1, OrderOfRequests
    <3> QED BY <1>1, <1>2, <3>1 DEF Orderly
  <2>2. CASE ~Before(a, b)
    <3>1. PICK e \in Command : Entrance(e) /\ b = e
      BY <1>1, <2>2, RequestsFlow DEF Before
    <3> QED BY <1>1, <1>2, <3>1, UnrequestedUnsent DEF Entrance, Asks
  <2> QED BY <2>1, <2>2
<1>3. ASSUME NEW c \in Command, Publishes(c), i = Len(log) + 1 PROVE FALSE
  <2>1. j \in DOMAIN log /\ log'[j] = log[j]
    BY <1>1, <1>3, LogGrows
  <2>2. a \in Live(c) /\ pc[c] = "handoff" /\ Before(a, b)
    BY <1>1, <1>3, LogGrows DEF Publishes, Calm, Before
  <2>3. c \notin published
    BY <2>2 DEF Publications, Released, Pending
  <2>4. Overtaken(c, a, b)
    BY <1>1, <2>2, <2>3 DEF Overtaken
  <2> QED BY <1>1, <2>1, <2>4 DEF Ordered
<1>4. \/ i \in DOMAIN log /\ log'[i] = log[i] /\ j \in DOMAIN log /\ log'[j] = log[j]
      \/ \E c \in Command : Publishes(c) /\ i = Len(log) + 1
  <2>1. CASE log' = log
    BY <2>1
  <2>2. ASSUME NEW c \in Command, Publishes(c), i # Len(log) + 1 PROVE <1>4!1
    <3>1. DOMAIN log = 1..Len(log) /\ Len(log) \in Nat
      BY LogTyped
    <3> QED BY <1>1, <2>2, <3>1, LogGrows
  <2> QED BY <2>1, <2>2, LogFlow
<1> QED BY <1>2, <1>3, <1>4

----------------------------------------------------------------------------
(* The two orders hold for ever. *)

\* The inductive invariant of the orders.
InOrder == Entries /\ Standing /\ Stopped /\ StopRetiresMoves /\ Ordered /\ RequestOrder

\* It holds at the beginning.
LEMMA InitInOrder == Init => InOrder
<1> SUFFICES ASSUME Init PROVE InOrder
  OBVIOUS
<1>1. Entries
  BY InitEntries
<1>2. /\ requested = <<>> /\ DOMAIN log = {} /\ \A a, b : ~Before(a, b)
      /\ preempted = {} /\ \A d \in Command : barriers[d] = {}
  BY DEF Init, Before, Ahead
<1>3. Range(requested) = {}
  BY <1>2 DEF Range
<1>4. Standing
  BY <1>2, <1>3 DEF Standing
<1>5. Stopped /\ StopRetiresMoves
  BY <1>2 DEF Stopped, StopRetiresMoves
<1>6. Ordered
  BY <1>2 DEF Ordered, Conflict
<1>7. RequestOrder
  BY <1>2 DEF RequestOrder
<1> QED BY <1>1, <1>4, <1>5, <1>6, <1>7 DEF InOrder

\* It is kept by every step.
LEMMA StepKeepsInOrder ==
  ASSUME InOrder, [Next]_vars
  PROVE  InOrder'
<1>1. Entries'
  BY StepKeepsEntries DEF InOrder
<1>2. CASE Next
  <2>1. Shapes
    BY <1>2, StepShapes DEF InOrder, Entries
  <2>2. Standing' /\ Stopped' /\ StopRetiresMoves' /\ Ordered'
    BY <1>1, <2>1, StepKeepsStanding, StepKeepsStopped, StepKeepsRetired, StepKeepsOrdered DEF InOrder
  <2>3. \A a, b : Before(a, b)' /\ Chan[a] \cap Chan[b] # {} => Orderly(a, b)'
    BY <2>1, StepKeepsOrder DEF InOrder
  <2>4. (\A a, b : Before(a, b) /\ Chan[a] \cap Chan[b] # {} => Orderly(a, b))' => RequestOrder'
    BY OrderOfRequests, PTL
  <2> QED BY <1>1, <2>2, <2>3, <2>4 DEF InOrder
<1>3. CASE UNCHANGED vars
  <2>1. UNCHANGED <<queue, inflight, barriers, preempted, published, requested, log, since, pc,
                    answer, members>>
    BY <1>3 DEF vars, lanes, entries, history
  <2>2. \A c \in Command : Live(c)' = Live(c) /\ (Pending(c)' <=> Pending(c))
    BY <2>1 DEF Live, Pending
  <2>3. \A a, b : Before(a, b)' <=> Before(a, b)
    BY <2>1 DEF Before
  <2>4. Standing' /\ Stopped' /\ StopRetiresMoves'
    BY <2>1, <2>2, <2>3 DEF InOrder, Standing, Stopped, StopRetiresMoves
  <2>5. Ordered'
    BY <2>1, <2>2, <2>3 DEF InOrder, Ordered, Conflict, Overtaken, Behind
  <2>6. RequestOrder'
    BY <2>1 DEF InOrder, RequestOrder, InFrame
  <2> QED BY <1>1, <2>4, <2>5, <2>6 DEF InOrder
<1> QED BY <1>2, <1>3

\* It holds in every reachable state.
LEMMA InOrderAlways == Spec => []InOrder
BY InitInOrder, StepKeepsInOrder, PTL DEF Spec

\* Request order is publication order, for any two requests with a common
\* channel: through the queue, the fast lane, the barriers and the coalescing.
THEOREM OrderHolds == Spec => []RequestOrder
<1>1. InOrder => RequestOrder
  BY DEF InOrder
<1> QED BY <1>1, InOrderAlways, PTL

\* A move that an overlapping STOP finds unpublished is never published.
THEOREM StopHolds == Spec => []StopRetiresMoves
<1>1. InOrder => StopRetiresMoves
  BY DEF InOrder
<1> QED BY <1>1, InOrderAlways, PTL

----------------------------------------------------------------------------
(* What the generations say.  The code compares sums over an entry's       *)
(* channels; each term of the captured sum is at most the current one, so  *)
(* equal sums mean that no channel moved on.                               *)

\* A captured generation is never ahead, and a measured move's is behind on
\* every channel that a frame has reached since.
Generations ==
  /\ \A c \in Command, n \in Channel :
       (closed \/ pressSeen[c][n] <= pressSeq[n]) /\ pubSeen[c][n] <= pubSeq[n]
  /\ \A c \in Measured : pc[c] # "idle" =>
       \A i \in DOMAIN log : since[c] < i => \A n \in log[i].chans : pubSeen[c][n] < pubSeq[n]

\* What a step may do to the two counters and to what has been captured.
TokensFlow ==
  /\ \A n \in Channel : (closed' \/ pressSeq[n] <= pressSeq'[n]) /\ pubSeq[n] <= pubSeq'[n]
  /\ \A c \in Command : pressSeen'[c] = pressSeen[c] \/ pressSeen'[c] = pressSeq'
  /\ \A c \in Command : \/ pubSeen'[c] = pubSeen[c]
                        \/ pubSeen'[c] = pubSeq' /\ since'[c] = Len(log') /\ Measure(c)

\* The counters grow, and a capture is of their present values.
LEMMA TokensStep ==
  ASSUME Lanes, Shapes
  PROVE  TokensFlow
<1>0. /\ pressSeq \in [Channel -> Nat] /\ pubSeq \in [Channel -> Nat]
      /\ pressSeen \in [Command -> [Channel -> Nat]] /\ pubSeen \in [Command -> [Channel -> Nat]]
      /\ since \in [Command -> Nat]
  BY DEF Lanes, TypeOK, Typed
<1>1. CASE pressSeq' = pressSeq /\ pubSeq' = pubSeq /\ pressSeen' = pressSeen /\ pubSeen' = pubSeen
  BY <1>0, <1>1 DEF TokensFlow
<1>2. ASSUME NEW c \in Command,
             \/ \E r \in {"superseded", "failed", "acked"} : Ends(c, r)
             \/ \E p \in Busy : Moves(c, p)
             \/ Cancel(c) \/ Marks(c)
      PROVE  pressSeq' = pressSeq /\ pubSeq' = pubSeq /\ pressSeen' = pressSeen /\ pubSeen' = pubSeen
  BY <1>2 DEF Ends, Moves, Calm, Cancel, Marks, tokens
<1>3. ASSUME \/ \E h \in Command, B \in SUBSET Command : Pops(h, B)
             \/ Drops
             \/ \E o \in cast.departing : Drains(o)
      PROVE  pressSeq' = pressSeq /\ pubSeq' = pubSeq /\ pressSeen' = pressSeen /\ pubSeen' = pubSeen
  BY <1>3 DEF Pops, Drops, Drains, tokens
<1>4. ASSUME NEW c \in Command, Publishes(c) PROVE TokensFlow
  <2>1. /\ pressSeq' = pressSeq /\ pressSeen' = pressSeen /\ pubSeen' = pubSeen
        /\ pubSeq' = [n \in Channel |-> IF n \in Rebuilt(c) THEN pubSeq[n] + 1 ELSE pubSeq[n]]
    BY <1>4 DEF Publishes, Calm
  <2> QED BY <1>0, <2>1 DEF TokensFlow
<1>5. ASSUME NEW c \in Command, Entrance(c) PROVE TokensFlow
  <2>1. /\ pressSeq' = pressSeq /\ pubSeq' = pubSeq /\ pubSeen' = pubSeen
        /\ pressSeen' = [pressSeen EXCEPT ![c] = pressSeq]
    BY <1>5 DEF Entrance, Asks
  <2> QED BY <1>0, <2>1 DEF TokensFlow
<1>6. ASSUME NEW c \in Command, Measure(c) PROVE TokensFlow
  <2>1. /\ pressSeq' = pressSeq /\ pubSeq' = pubSeq /\ pressSeen' = pressSeen /\ log' = log
        /\ pubSeen' = [pubSeen EXCEPT ![c] = pubSeq] /\ since' = [since EXCEPT ![c] = Len(log)]
    BY <1>6 DEF Measure
  <2> QED BY <1>0, <1>6, <2>1 DEF TokensFlow
<1>7. ASSUME NEW S, Press(S) PROVE TokensFlow
  <2>1. /\ pressSeq' = [n \in Channel |-> IF n \in S THEN pressSeq[n] + 1 ELSE pressSeq[n]]
        /\ pubSeq' = [n \in Channel |-> IF n \in S THEN pubSeq[n] + 1 ELSE pubSeq[n]]
        /\ pressSeen' = pressSeen /\ pubSeen' = pubSeen
    BY <1>7 DEF Press
  <2> QED BY <1>0, <2>1 DEF TokensFlow
<1>8. CASE Close
  <2>1. closed' /\ pubSeq' = pubSeq /\ pressSeen' = pressSeen /\ pubSeen' = pubSeen
    BY <1>8 DEF Close
  <2> QED BY <1>0, <2>1 DEF TokensFlow
<1> QED BY <1>1, <1>2, <1>3, <1>4, <1>5, <1>6, <1>7, <1>8 DEF Shapes

\* A measured move leaves its beginning by being measured, and what was
\* measured is measured once.
LEMMA MeasuredOnce ==
  ASSUME Lanes, Shapes, NEW c \in Measured
  PROVE  /\ ~Measure(c) => since'[c] = since[c] /\ (pc[c] = "idle" => pc'[c] = "idle")
         /\ Measure(c) => pc[c] = "idle"
<1>0. c \in Command /\ since \in [Command -> Nat] /\ pc \in [Command -> Pcs]
  BY HubAssumption DEF Lanes, TypeOK, Typed
<1>1. Measure(c) => pc[c] = "idle"
  BY DEF Measure
<1>2. ASSUME ~Measure(c) PROVE since'[c] = since[c] /\ (pc[c] = "idle" => pc'[c] = "idle")
  <2>1. ASSUME NEW e \in Command,
               \/ \E r \in {"superseded", "failed", "acked"} : Ends(e, r)
               \/ \E p \in Busy : Moves(e, p)
               \/ Publishes(e) \/ Cancel(e) \/ Marks(e)
        PROVE  since' = since /\ (pc[c] = "idle" => pc'[c] = "idle")
    BY <1>0, <2>1 DEF Ends, Moves, Publishes, Calm, Cancel, Marks, history, Busy, Transitions
  <2>2. ASSUME \/ \E h \in Command, B \in SUBSET Command : Pops(h, B)
               \/ Drops
               \/ \E S \in SUBSET Channel : Press(S)
               \/ \E o \in cast.departing : Drains(o)
               \/ Close
        PROVE  since' = since
    BY <2>2 DEF Pops, Drops, Press, Drains, Close, history
  <2>3. ASSUME pc[c] = "idle",
               \/ \E h \in Command, B \in SUBSET Command : Pops(h, B)
               \/ Drops
               \/ \E o \in cast.departing : Drains(o)
        PROVE  pc'[c] = "idle"
    <3>1. c \notin Range(queue)
      BY <1>0, <2>3, QueueIsQueued
    <3>2. ASSUME NEW h \in Command, NEW B \in SUBSET Command, Pops(h, B) PROVE pc'[c] = "idle"
      BY <1>0, <2>3, <3>1, <3>2 DEF Pops
    <3> QED BY <1>0, <2>3, <3>1, <3>2 DEF Drops, Drains, DrainQueued
  <2>4. ASSUME pc[c] = "idle",
               \/ \E S \in SUBSET Channel : Press(S)
               \/ Close
        PROVE  pc'[c] = "idle"
    BY <1>0, <2>4 DEF Press, Close
  <2>5. ASSUME NEW e \in Command, Entrance(e)
        PROVE  since'[c] = since[c] /\ (pc[c] = "idle" => pc'[c] = "idle")
    <3>1. since'[c] = since[c] /\ (pc[c] = "idle" => c # e)
      BY <1>0, <2>5 DEF Entrance, Asks
    <3>2. pc[c] = "idle" => c \notin Range(queue)
      BY <1>0, QueueIsQueued
    <3> QED BY <1>0, <2>5, <3>1, <3>2 DEF Entrance, QueueOrdinary, Stops, Refuse, StopRetires, Goto
  <2>6. ASSUME NEW e \in Command, Measure(e)
        PROVE  since'[c] = since[c] /\ (pc[c] = "idle" => pc'[c] = "idle")
    <3>1. e # c
      BY <1>2, <2>6
    <3> QED BY <1>0, <2>6, <3>1 DEF Measure, Goto
  <2> QED BY <2>1, <2>2, <2>3, <2>4, <2>5, <2>6 DEF Shapes
<1> QED BY <1>1, <1>2

\* Frames are on channels of the model.
LogOnChannels == \A i \in DOMAIN log : log[i].chans \subseteq Channel

\* The log's type says so.
LEMMA FramesOnChannels == Lanes => LogOnChannels
BY LogTyped DEF LogOnChannels

\* Generations is kept by every step.
LEMMA StepKeepsGenerations ==
  ASSUME Lanes, Lanes', Shapes, Generations
  PROVE  Generations'
<1>0. /\ pressSeq \in [Channel -> Nat] /\ pubSeq \in [Channel -> Nat]
      /\ pressSeen \in [Command -> [Channel -> Nat]] /\ pubSeen \in [Command -> [Channel -> Nat]]
      /\ since \in [Command -> Nat]
  BY DEF Lanes, TypeOK, Typed
<1>1. /\ pressSeq' \in [Channel -> Nat] /\ pubSeq' \in [Channel -> Nat]
  BY DEF Lanes, TypeOK, Typed
<1>2. TokensFlow /\ (closed => closed')
  BY TokensStep, LogFlow
<1>3. ASSUME NEW c \in Command, NEW n \in Channel
      PROVE  (closed' \/ pressSeen'[c][n] <= pressSeq'[n]) /\ pubSeen'[c][n] <= pubSeq'[n]
  <2>1. (closed \/ pressSeen[c][n] <= pressSeq[n]) /\ pubSeen[c][n] <= pubSeq[n]
    BY DEF Generations
  <2>2. /\ closed' \/ pressSeq[n] <= pressSeq'[n]
        /\ pubSeq[n] <= pubSeq'[n]
        /\ pressSeen'[c] = pressSeen[c] \/ pressSeen'[c] = pressSeq'
        /\ pubSeen'[c] = pubSeen[c] \/ pubSeen'[c] = pubSeq'
    BY <1>2 DEF TokensFlow
  <2>3. /\ pressSeen[c][n] \in Nat /\ pressSeq[n] \in Nat /\ pressSeq'[n] \in Nat
        /\ pubSeen[c][n] \in Nat /\ pubSeq[n] \in Nat /\ pubSeq'[n] \in Nat
    BY <1>0, <1>1
  <2>4. closed' \/ pressSeen'[c][n] <= pressSeq'[n]
    BY <1>2, <2>1, <2>2, <2>3
  <2>5. pubSeen'[c][n] <= pubSeq'[n]
    BY <2>1, <2>2, <2>3
  <2> QED BY <2>4, <2>5
<1>4. ASSUME NEW c \in Measured, pc'[c] # "idle", NEW i \in DOMAIN log', since'[c] < i,
             NEW X, X = log'[i].chans, NEW n \in X
      PROVE  pubSeen'[c][n] < pubSeq'[n]
  <2>0. c \in Command
    BY HubAssumption
  <2>t. X \subseteq Channel
    <3>1. Lanes' => LogOnChannels'
      BY FramesOnChannels, PTL
    <3> QED BY <1>4, <3>1 DEF LogOnChannels
  <2>1. n \in Channel /\ pubSeen[c][n] \in Nat /\ pubSeq[n] \in Nat /\ pubSeq'[n] \in Nat
        /\ since[c] \in Nat
    BY <1>0, <1>1, <2>0, <2>t
  <2>2. CASE Measure(c)
    <3>1. log' = log /\ since'[c] = Len(log)
      BY <1>0, <2>0, <2>2 DEF Measure
    <3>2. DOMAIN log = 1..Len(log) /\ Len(log) \in Nat
      BY LogTyped
    <3> QED BY <1>4, <3>1, <3>2
  <2>3. CASE ~Measure(c)
    <3>1. since'[c] = since[c] /\ pc[c] # "idle" /\ pubSeen'[c] = pubSeen[c]
      BY <1>2, <1>4, <2>0, <2>3, MeasuredOnce DEF TokensFlow
    <3>2. pubSeq[n] <= pubSeq'[n]
      BY <1>2, <2>1 DEF TokensFlow
    <3>3. CASE i \in DOMAIN log /\ log'[i] = log[i]
      <4>1. pubSeen[c][n] < pubSeq[n]
        BY <1>4, <3>1, <3>3 DEF Generations
      <4> QED BY <2>1, <3>1, <3>2, <4>1
    <3>4. ASSUME NEW k \in Command, Publishes(k), i = Len(log) + 1 PROVE pubSeen'[c][n] < pubSeq'[n]
      <4>1. n \in Rebuilt(k)
        BY <1>4, <3>4, LogGrows
      <4>2. pubSeq'[n] = pubSeq[n] + 1
        BY <2>1, <3>4, <4>1 DEF Publishes
      <4>3. pubSeen[c][n] <= pubSeq[n]
        BY <2>0, <2>1 DEF Generations
      <4> QED BY <2>1, <3>1, <4>2, <4>3
    <3> QED BY <3>3, <3>4, LogFlow, LogGrows
  <2> QED BY <2>2, <2>3
<1> QED BY <1>3, <1>4 DEF Generations

\* A frame has finitely many channels, which is what its sums need.
LEMMA RebuiltFinite ==
  ASSUME Lanes, NEW c \in Command, Carrier(c), Live(c) # {}
  PROVE  IsFiniteSet(Rebuilt(c))
<1>1. members[c] \in Seq(Command)
  BY DEF Lanes, TypeOK, Typed
<1>2. CASE Key[c] = NoKey
  BY <1>2, HubAssumption DEF Carrier, Rebuilt
<1>3. CASE Key[c] # NoKey
  <2>1. \A m \in Range(members[c]) : IsFiniteSet(Chan[m])
    BY MembersAreCommands, HubAssumption
  <2>2. IsFiniteSet(UNION {Chan[m] : m \in Live(c)})
    BY <1>1, <2>1, MembersAreCommands, MembersFinite
  <2> QED BY <1>3, <2>2 DEF Rebuilt
<1> QED BY <1>2, <1>3

\* What the overlap token's sum stands for.
LEMMA NothingOverlapped ==
  ASSUME Entries, Generations, NEW c \in Measured, ~Refused(c)
  PROVE  \A n \in Rebuilt(c) : pubSeen[c][n] = pubSeq[n]
<1> USE DEF Entries
<1>1. c \in Command /\ Key[c] = NoKey /\ Carrier(c)
  BY HubAssumption DEF Carriers
<1>2. Rebuilt(c) = chans[c] /\ IsFiniteSet(chans[c]) /\ chans[c] \subseteq Channel
  BY <1>1, HubAssumption, RebuiltCovers DEF Carrier
<1>3. SumFunctionOnSet(pubSeen[c], chans[c]) = SumFunctionOnSet(pubSeq, chans[c])
  BY DEF Refused, OverlapStale
<1>4. \A n \in chans[c] :
        pubSeen[c][n] \in Nat /\ pubSeq[n] \in Nat /\ pubSeen[c][n] <= pubSeq[n]
  BY <1>1, <1>2 DEF Generations, Lanes, TypeOK, Typed
<1>5. \A n \in chans[c] : pubSeen[c][n] = pubSeq[n]
  BY <1>2, <1>3, <1>4, EqualSums
<1> QED BY <1>2, <1>5

\* What the press token's sum stands for: for every channel there is a caller
\* that still waits and saw its latest press.
Heard(c, n) == \E m \in Live(c) : n \in Chan[m] /\ pressSeen[m][n] = pressSeq[n]

\* An entry that is not refused has, for each channel of its frame, a caller
\* that asked after the latest press of it.
LEMMA NothingPressed ==
  ASSUME Entries, Generations, ~closed, NEW c \in Command, ~Refused(c)
  PROVE  \A n \in Rebuilt(c) : Heard(c, n)
<1> USE DEF Entries
<1>0. /\ pressSeq \in [Channel -> Nat] /\ pressSeen \in [Command -> [Channel -> Nat]]
      /\ members[c] \in Seq(Command) /\ Chan \in [Command -> SUBSET Channel]
  BY HubAssumption DEF Lanes, TypeOK, Typed
<1>1. Carrier(c) /\ Live(c) # {} /\ IsFiniteSet(Rebuilt(c)) /\ Rebuilt(c) \subseteq Channel
  <2>1. Carrier(c) /\ Live(c) # {}
    BY Zenon DEF Carriers, Refused
  <2> QED BY <2>1, RebuiltFinite, LiveAndRebuilt
<1>2. PressToken(c) = SumFunctionOnSet(pressSeq, Rebuilt(c))
  BY DEF Refused, PressStale
<1>3. \A m \in Command, n \in Channel :
        pressSeen[m][n] \in Nat /\ pressSeq[n] \in Nat /\ pressSeen[m][n] <= pressSeq[n]
  BY <1>0 DEF Generations
<1>4. CASE Key[c] = NoKey
  <2>1. Rebuilt(c) = chans[c] /\ chans[c] = Chan[c] /\ Range(members[c]) = {c}
    BY <1>1, <1>4, RebuiltCovers DEF Carrier, Range
  <2>2. SumFunctionOnSet(pressSeen[c], Rebuilt(c)) = SumFunctionOnSet(pressSeq, Rebuilt(c))
    BY <1>2, <1>4, <2>1 DEF PressToken
  <2>3. \A n \in Rebuilt(c) : pressSeen[c][n] = pressSeq[n]
    BY <1>1, <1>3, <2>2, EqualSums
  <2>4. c \in Live(c)
    BY <1>1, <2>1 DEF Live
  <2> QED BY <2>1, <2>3, <2>4 DEF Heard
<1>5. CASE Key[c] # NoKey
  <2>1. Rebuilt(c) = UNION {Chan[m] : m \in Live(c)}
    BY <1>1, <1>5 DEF Rebuilt
  <2>2. ASSUME NEW n \in Rebuilt(c)
        PROVE  LastLive(c, n) \in Live(c) /\ n \in Chan[LastLive(c, n)]
    <3>1. PICK S : S = {m \in Live(c) : n \in Chan[m]}
      OBVIOUS
    <3>2. S # {} /\ S \subseteq Range(members[c])
      BY <2>1, <3>1, MembersAreCommands
    <3>3. Last(Only(members[c], S)) \in Range(members[c]) \cap S
      BY <1>0, <3>2, LastKept
    <3> QED BY <3>1, <3>3 DEF LastLive
  <2>3. PICK f : f = [n \in Rebuilt(c) |-> pressSeen[LastLive(c, n)][n]]
    OBVIOUS
  <2>4. SumFunctionOnSet(f, Rebuilt(c)) = SumFunctionOnSet(pressSeq, Rebuilt(c))
    BY <1>1, <1>2, <1>5, <2>3 DEF PressToken
  <2>5. \A n \in Rebuilt(c) : f[n] = pressSeen[LastLive(c, n)][n]
    BY <2>3
  <2>6. \A n \in Rebuilt(c) : LastLive(c, n) \in Command /\ n \in Channel
    BY <1>1, <2>2, LiveAndRebuilt
  <2>7. \A n \in Rebuilt(c) : f[n] \in Nat /\ pressSeq[n] \in Nat /\ f[n] <= pressSeq[n]
    BY <1>3, <2>5, <2>6
  <2>8. \A n \in Rebuilt(c) : f[n] = pressSeq[n]
    BY <1>1, <2>4, <2>7, EqualSums
  <2> QED BY <2>2, <2>5, <2>8 DEF Heard
<1> QED BY <1>4, <1>5

\* The sums are as good as the generations they add up.
Fresh == Entries /\ Generations /\ MeasuredIsFresh

\* A measured move publishes on channels nothing has been published on since.
LEMMA StepKeepsFreshness ==
  ASSUME Entries, Entries', Generations, MeasuredIsFresh, Shapes
  PROVE  MeasuredIsFresh'
<1> USE DEF Entries
<1>1. SUFFICES ASSUME NEW i \in DOMAIN log', NEW j \in DOMAIN log', NEW c, c = log'[i].cmd,
                      c \in Measured, since'[c] < j, j < i
               PROVE  log'[j].chans \cap log'[i].chans = {}
  BY DEF MeasuredIsFresh
<1>2. c \in Command
  BY <1>1, HubAssumption
<1>3. CASE i \in DOMAIN log /\ log'[i] = log[i] /\ j \in DOMAIN log /\ log'[j] = log[j]
  <2>1. pc[c] # "idle"
    BY <1>1, <1>3 DEF Publications, SentBy
  <2>2. since'[c] = since[c]
    BY <1>1, <2>1, MeasuredOnce
  <2> QED BY <1>1, <1>3, <2>2 DEF MeasuredIsFresh
<1>4. ASSUME NEW k \in Command, Publishes(k), i = Len(log) + 1
      PROVE  log'[j].chans \cap log'[i].chans = {}
  <2>1. j \in DOMAIN log /\ log'[j] = log[j] /\ c = k /\ log'[i].chans = Rebuilt(k)
    BY <1>1, <1>4, LogGrows
  <2>2. pc[k] = "handoff" /\ ~Refused(k) /\ since' = since
    BY <1>4 DEF Publishes, Calm
  <2>3. \A n \in Rebuilt(k) : pubSeen[k][n] = pubSeq[n]
    BY <1>1, <2>1, <2>2, NothingOverlapped
  <2>4. \A n \in log[j].chans : n \in Channel /\ pubSeen[k][n] < pubSeq[n]
    <3>1. k \in Measured /\ pc[k] # "idle" /\ since[k] < j
      BY <1>1, <2>1, <2>2
    <3>2. \A n \in log[j].chans : n \in Channel
      BY <2>1, LogTyped
    <3>3. \A e \in Measured : pc[e] # "idle" =>
            \A m \in DOMAIN log : since[e] < m => \A n \in log[m].chans : pubSeen[e][n] < pubSeq[n]
      BY SMT DEF Generations
    <3>4. \A m \in DOMAIN log : since[k] < m => \A n \in log[m].chans : pubSeen[k][n] < pubSeq[n]
      BY Zenon, <3>1, <3>3
    <3>5. \A n \in log[j].chans : pubSeen[k][n] < pubSeq[n]
      BY Zenon, <2>1, <3>1, <3>4
    <3> QED BY Zenon, <3>2, <3>5
  <2>5. \A n \in log[j].chans : pubSeen[k][n] # pubSeq[n]
    <3>1. pubSeen \in [Command -> [Channel -> Nat]] /\ pubSeq \in [Channel -> Nat]
      BY Zenon DEF Lanes, TypeOK, Typed
    <3>2. ASSUME NEW n \in log[j].chans PROVE pubSeen[k][n] # pubSeq[n]
      <4>1. n \in Channel /\ pubSeen[k][n] < pubSeq[n]
        BY <2>4
      <4>2. pubSeen[k][n] \in Nat /\ pubSeq[n] \in Nat
        BY <1>4, <3>1, <4>1
      <4> QED BY <4>1, <4>2
    <3> QED BY <3>2
  <2> QED BY <2>1, <2>3, <2>5
<1>5. \/ i \in DOMAIN log /\ log'[i] = log[i] /\ j \in DOMAIN log /\ log'[j] = log[j]
      \/ \E k \in Command : Publishes(k) /\ i = Len(log) + 1
  <2>1. CASE log' = log
    BY <2>1
  <2>2. ASSUME NEW k \in Command, Publishes(k), i # Len(log) + 1 PROVE <1>5!1
    <3>1. DOMAIN log = 1..Len(log) /\ Len(log) \in Nat
      BY LogTyped
    <3> QED BY <1>1, <2>2, <3>1, LogGrows
  <2> QED BY <2>1, <2>2, LogFlow
<1> QED BY <1>3, <1>4, <1>5

\* It holds at the beginning.
LEMMA InitFresh == Init => Fresh
<1> SUFFICES ASSUME Init PROVE Fresh
  OBVIOUS
<1>1. Entries
  BY InitEntries
<1>2. DOMAIN log = {} /\ \A c \in Command, n \in Channel :
        pressSeen[c][n] = 0 /\ pubSeen[c][n] = 0 /\ pressSeq[n] = 0 /\ pubSeq[n] = 0
  BY DEF Init
<1>3. Generations
  BY <1>2 DEF Generations
<1> QED BY <1>1, <1>2, <1>3 DEF Fresh, MeasuredIsFresh

\* It is kept by every step.
LEMMA StepKeepsFresh ==
  ASSUME Fresh, [Next]_vars
  PROVE  Fresh'
<1>1. Entries'
  BY StepKeepsEntries DEF Fresh
<1>2. CASE Next
  <2>1. Shapes
    BY <1>2, StepShapes DEF Fresh, Entries
  <2>2. Generations'
    BY <1>1, <2>1, StepKeepsGenerations DEF Fresh, Entries
  <2>3. MeasuredIsFresh'
    BY <1>1, <2>1, StepKeepsFreshness DEF Fresh
  <2> QED BY <1>1, <2>2, <2>3 DEF Fresh
<1>3. CASE UNCHANGED vars
  <2>1. Generations' /\ MeasuredIsFresh'
    BY <1>3 DEF vars, tokens, history, Fresh, Generations, MeasuredIsFresh
  <2> QED BY <1>1, <2>1 DEF Fresh
<1> QED BY <1>2, <1>3

\* It holds in every reachable state.
LEMMA FreshAlways == Spec => []Fresh
BY InitFresh, StepKeepsFresh, PTL DEF Spec

\* A measured move is published only if no frame has reached any of its
\* channels since it was measured.
THEOREM MeasuredHolds == Spec => []MeasuredIsFresh
<1>1. Fresh => MeasuredIsFresh
  BY DEF Fresh
<1> QED BY <1>1, FreshAlways, PTL

\* Every channel of a frame has a caller that still waits and that asked after
\* the channel's latest press.
THEOREM FramesHold == Spec => FramesAreFresh
<1>1. ASSUME Fresh, [Next]_vars
      PROVE  [log' # log =>
                LET f == log'[Len(log')]
                IN  \A n \in f.chans :
                      \E m \in f.live : n \in Chan[m] /\ pressSeen[m][n] = pressSeq[n]]_vars
  <2>1. CASE log' = log
    BY <2>1
  <2>2. CASE log' # log
    <3>1. Shapes
      <4>1. Next
        BY <1>1, <2>2 DEF vars, history
      <4> QED BY <1>1, <4>1, StepShapes DEF Fresh, Entries
    <3>2. PICK c \in Command : Publishes(c)
      BY <1>1, <2>2, <3>1, LogFlow DEF Fresh, Entries
    <3>3. ~Refused(c) /\ ~closed
      BY <1>1, <3>2 DEF Publishes, Fresh, Entries, Lanes
    <3>4. \A n \in Rebuilt(c) : Heard(c, n)
      BY <1>1, <3>3, NothingPressed DEF Fresh
    <3>5. PICK f : f = log'[Len(log')]
      OBVIOUS
    <3>6. f.chans = Rebuilt(c) /\ f.live = Live(c)
      BY <1>1, <3>2, <3>5, LogGrows DEF Fresh, Entries
    <3>7. \A n \in f.chans : \E m \in f.live : n \in Chan[m] /\ pressSeen[m][n] = pressSeq[n]
      BY <3>4, <3>6 DEF Heard
    <3> QED BY <3>5, <3>7
  <2> QED BY <2>1, <2>2
<1> QED BY <1>1, FreshAlways, PTL DEF Spec, FramesAreFresh
=============================================================================
