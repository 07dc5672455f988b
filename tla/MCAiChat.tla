------------------------------ MODULE MCAiChat ------------------------------
(***************************************************************************)
(* Instances of AiChat for the model checker, in two scenes: turns, in     *)
(* which two tools may be called and nothing is edited; and edits, in      *)
(* which messages are edited and answers fail half-way, with one call of a *)
(* tool and one run stopped at most (bounds).                              *)
(***************************************************************************)
EXTENDS AiChat, TLC

VARIABLE scene

Editing == INSTANCE AiChat WITH Incidents <- {"words", "edit"}, MaxStopped <- 1

InTurns == scene = "turns" /\ UNCHANGED scene
InEdits == scene = "edits" /\ UNCHANGED scene

OneCall == Cardinality({t \in Tasks : by'[t] # None}) <= 1

SceneInit == Init /\ scene \in {"turns", "edits"}

SceneNext ==
  \/ InTurns /\ Next
  \/ InEdits /\ Editing!Next /\ OneCall

SceneSpec == SceneInit /\ [][SceneNext]_<<vars, scene>>

Symmetry == Permutations(Confirmable)
=============================================================================
