------------------------------ MODULE QueueOps ------------------------------
(* What the hub's loops over a queue keep of it. *)
EXTENDS Integers, Sequences

\* `retained`: the elements of s that lie in S, in their order.
Only(s, S) ==
  LET kept[i \in 0..Len(s)] ==
        IF i = 0 THEN <<>>
        ELSE IF s[i] \in S THEN Append(kept[i - 1], s[i]) ELSE kept[i - 1]
  IN  kept[Len(s)]

\* a stands before b in s.
Ahead(s, a, b) == \E i, j \in DOMAIN s : i < j /\ s[i] = a /\ s[j] = b
=============================================================================
