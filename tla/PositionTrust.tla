---------------------------- MODULE PositionTrust ----------------------------
(***************************************************************************)
(* What a leaf promises with the confidence it shows next to its position  *)
(* (position_confidence in cover.py): trust is lost by anything that       *)
(* casts doubt on the estimate and earned only by a full travel that was   *)
(* watched to its end; an entity that comes back after a reload knows at   *)
(* most what the one before it knew.                                       *)
(***************************************************************************)
CONSTANT Leaf

VARIABLES shown,  \* the confidence of each leaf, "absent" without an entity
          memory  \* what is kept of it for the next entity

vars == <<shown, memory>>

Grade == {"unknown", "suspect", "assumed", "anchored"}

\* Nobody watched the motors while there was no entity.
Remembered(grade) == IF grade = "anchored" THEN "assumed" ELSE grade

Init ==
  /\ shown \in [Leaf -> Grade]
  /\ memory = [l \in Leaf |-> Remembered(shown[l])]

\* The grades a grade may give way to in one step.
May(grade) ==
  CASE grade = "unknown" -> {"unknown", "suspect", "anchored"}
    [] grade = "suspect" -> {"unknown", "suspect", "anchored"}
    [] grade = "assumed" -> Grade
    [] grade = "anchored" -> {"unknown", "assumed", "anchored"}

Change(l) ==
  /\ shown[l] # "absent"
  /\ shown'[l] \in May(shown[l])
  /\ memory'[l] = Remembered(shown'[l])

Leave(l) ==
  /\ shown[l] # "absent" /\ shown'[l] = "absent"
  /\ memory'[l] = memory[l]

Stay(l) ==
  /\ shown[l] = "absent" /\ shown'[l] = "absent"
  /\ memory'[l] = memory[l]

ComeBack(l) ==
  /\ shown[l] = "absent"
  /\ shown'[l] \in May(memory[l])
  /\ memory'[l] = Remembered(shown'[l])

\* One frame or one reload concerns many leaves at once.
Next ==
  /\ DOMAIN shown' = Leaf /\ DOMAIN memory' = Leaf
  /\ \A l \in Leaf : Change(l) \/ Leave(l) \/ Stay(l) \/ ComeBack(l)

Spec == Init /\ [][Next]_vars
=============================================================================
