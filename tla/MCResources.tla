----------------------------- MODULE MCResources -----------------------------
(* A small instance of AppResources: one app, one name, one address.        *)
EXTENDS AppResources, TLC

Symmetry == Permutations(Req)

===============================================================================
