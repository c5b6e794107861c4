----------------------------- MODULE MCFakeClock -----------------------------
(* An instance of FakeClock for TLC: one goroutine advances, handlers arm.   *)
EXTENDS FakeClock

===============================================================================
