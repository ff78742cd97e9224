---------------------------- MODULE MCOtaUpdate ----------------------------
(* Instances of OtaUpdate for TLC. *)
EXTENDS OtaUpdate, TLC

\* Uploads are alike.
Symmetry == Permutations(Uploads)
=============================================================================
