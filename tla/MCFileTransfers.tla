-------------------------- MODULE MCFileTransfers --------------------------
(***************************************************************************)
(* The file transfers of one page for TLC: its uploads, or a transfer      *)
(* between two servers.  They share no variable, so a behaviour shows one  *)
(* of them, the scene, while the other stays as it began.                  *)
(***************************************************************************)
EXTENDS Uploads, DirectTransfers

CONSTANTS f1, f2, d1

VARIABLE scene

Init == UploadInit /\ DirectInit /\ scene \in {"uploads", "direct"}

\* UploadNext and DirectNext.
Next ==
  \/ scene = "uploads" /\ UploadNext /\ UNCHANGED <<directVars, scene>>
  \/ scene = "direct" /\ DirectNext /\ UNCHANGED <<uploadVars, scene>>

\* No step of fairness is enabled in a component as it begins.
FairSpec ==
  Init /\ [][Next]_<<uploadVars, directVars, scene>> /\ UploadFairness /\ DirectFairness
=============================================================================
