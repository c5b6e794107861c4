--------------------------- MODULE MCLeaseManager ---------------------------
(* A small instance of LeaseManager: two machines, four grants, a clock of   *)
(* six ticks at two ticks to the second.                                     *)
EXTENDS LeaseManager, TLC

Durations == INSTANCE Durations WITH
    Word <- 16, MaxTimeout <- 2, NoTimeout <- NoNonce, NotANumber <- NoLease

\* What acquireLease hands on: the server's own TTL, or that of a request in
\* seconds, five of which wrap around in a word of 16 ticks and come out
\* negative.
MCTtl == {Durations!RequestedTtl(asked, leaseTtl) :
             asked \in {0, 1, 5}, leaseTtl \in {0, 1, 3}}

Symmetry == Permutations(Key) \cup Permutations(Nonce)

=============================================================================
