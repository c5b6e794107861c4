-------------------------------- MODULE MCWait --------------------------------
(* Instances of Wait for TLC. *)
EXTENDS Wait, TLC

Symmetry == Permutations(Req)

StartedOrDestroyed == {{"started"}, {"destroyed"}}
\* In words of 8 values, 3 is past the ceiling, 4 and 7 wrap around to less
\* than nothing, and 9 to 1.
AnyTimeout == {NoTimeout, NotANumber, -1, 0, 1, 2, 3, 4, 7, 9}
OneSecond == {1}

StoppedOrDestroyed == {{"stopped", "destroyed"}}

===============================================================================
