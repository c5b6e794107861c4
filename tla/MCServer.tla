------------------------------- MODULE MCServer -------------------------------
(* Instances of Server for TLC.  Requests are interchangeable, and so are the *)
(* ids named after them.                                                      *)
EXTENDS ServerProperties, TLC

Symmetry == Permutations(Req)

===============================================================================
