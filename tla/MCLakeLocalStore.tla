-------------------------- MODULE MCLakeLocalStore --------------------------
(***************************************************************************)
(* Small instances of LakeLocalStore for TLC.                              *)
(***************************************************************************)
EXTENDS LakeLocalStore, TLC

\* The condition of the catalog's puts: the object is the one that was read.
AsRead(w, before, now) == now = before

WriterSymmetry == Permutations(Writers)

\* The behaviours in which a lock grows old only when its owner is dead, and
\* no store error occurs.
PromptNext ==
  \/ \E w \in Writers : Call(w) \/ Step(w) \/ Crash(w)
  \/ LockAges /\ pc[lock] = "crashed"
PromptSpec == Init /\ [][PromptNext]_vars
=============================================================================
