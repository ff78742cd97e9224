----------------------------- MODULE MCStation -----------------------------
(* Instances of Station for TLC. *)
EXTENDS Station

\* No network, one of two, or both.
MCLists == {<<>>, <<"n1">>, <<"n2">>, <<"n1", "n2">>}
MCNoList == {<<>>}
=============================================================================
