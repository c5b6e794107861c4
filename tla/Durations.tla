------------------------------ MODULE Durations ------------------------------
(***************************************************************************)
(* How the server turns the seconds of a request into a time.Duration, a   *)
(* signed word of ticks that wraps around: the timeout of a wait           *)
(* (clampTimeout) and the TTL of a lease (acquireLease).                   *)
(***************************************************************************)
EXTENDS Integers

CONSTANTS
    Word,         \* how many values a duration has: 2^64 in the code
    Second,       \* ticks per second: 10^9 in the code
    MaxTimeout,   \* the longest timeout: 60 seconds in the code
    NoTimeout,    \* the parameter is missing
    NotANumber    \* the parameter is no integer

ASSUME DurationAssumption ==
    /\ Word \in Nat /\ Word % 2 = 0
    /\ Second \in Nat \ {0}
    /\ MaxTimeout \in Nat
    /\ Second <= MaxTimeout
    /\ 2 * MaxTimeout < Word
    /\ NoTimeout \notin Int
    /\ NotANumber \notin Int \cup {NoTimeout}

Half == Word \div 2

Duration == -Half .. Half - 1

\* What is left of n in a word.
Wrapped(n) == ((n + Half) % Word) - Half

FromSeconds(seconds) == Wrapped(seconds * Second)

MinTimeout == Second

\* Faulty forms first: a timeout has no ceiling; it has no floor.
ClampToFloor(raw) ==
    CASE raw = NoTimeout -> MaxTimeout
      [] raw = NotANumber -> MinTimeout
      [] OTHER -> LET d == FromSeconds(raw) IN
                  IF d < MinTimeout THEN MinTimeout ELSE d
ClampToCeiling(raw) ==
    CASE raw = NoTimeout -> MaxTimeout
      [] raw = NotANumber -> MinTimeout
      [] OTHER -> LET d == FromSeconds(raw) IN
                  IF d > MaxTimeout THEN MaxTimeout ELSE d
ClampTimeout(raw) ==
    CASE raw = NoTimeout -> MaxTimeout
      [] raw = NotANumber -> MinTimeout
      [] OTHER -> LET d == FromSeconds(raw) IN
                  IF d < MinTimeout THEN MinTimeout
                  ELSE IF d > MaxTimeout THEN MaxTimeout ELSE d

\* The TTL an acquire or refresh asks the lease manager for: the server's own
\* when the request names none.
RequestedTtl(seconds, leaseTtl) ==
    IF seconds > 0 THEN FromSeconds(seconds) ELSE leaseTtl

=============================================================================
