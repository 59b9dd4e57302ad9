---------------------------- MODULE MCTabStream ----------------------------
(* Two web clients of one tab.                                               *)
EXTENDS TabStream, TLC

CONSTANTS w1, w2

WebSymmetry == Permutations(Webs)
=============================================================================
