--------------------------- MODULE MCTabSessions ---------------------------
(* Two web clients, one or two prompts.                                      *)
EXTENDS TabSessions, TLC

CONSTANTS w1, w2, s1, s2, m1

WebSymmetry == Permutations(Webs) \cup Permutations(Sessions)
=============================================================================
