---------------------------- MODULE LeaseManager ----------------------------
(***************************************************************************)
(* internal/lease/lease.go: the table of leases behind the manager's       *)
(* mutex.  Every method takes the mutex for its whole body, so a method is *)
(* one action.  Time is a counter of ticks, Second ticks to the second, so *)
(* that the truncation of ExpiresAt to whole seconds in the envelope a     *)
(* client receives (server.go:843-852) is part of the model.               *)
(*                                                                         *)
(* Nothing runs when a lease's time is up: an expired entry stays in the   *)
(* table until a method that looks at its key deletes it (active).         *)
(***************************************************************************)
EXTENDS Integers

CONSTANTS
    Key,         \* the leased machines ("app/machine" in the code)
    Nonce,       \* what id.Nonce can draw in a run
    NoNonce,     \* the empty nonce header
    NoLease,     \* the table has no entry
    Ttl,         \* the TTLs callers ask for; zero and negative ones included
    DefaultTTL,  \* lease.go:27
    Second,      \* ticks per second
    MaxTime      \* the bound of the clock in a run

ASSUME TtlAssumption ==
    /\ Ttl \subseteq Int
    /\ DefaultTTL \in Nat \ {0}
    /\ Second \in Nat \ {0}
    /\ MaxTime \in Nat

ASSUME SentinelAssumption ==
    /\ NoNonce \notin Nonce
    /\ NoLease \notin [nonce : Nonce, expiresAt : Nat]
    /\ NoLease \notin [key : Key, seconds : Nat]

VARIABLES
    now,      \* the injected clock
    m,        \* Manager.m: the entry of a key, or NoLease
    issued,   \* the nonces drawn so far
    promise   \* what the last envelope with a nonce told its client: the key
              \* and the expiry in seconds; NoLease once released or cleared

vars == <<now, m, issued, promise>>

Lease == [nonce : Nonce, expiresAt : Nat]
Promise == [key : Key, seconds : Nat]

Init ==
    /\ now = 0
    /\ m = [k \in Key |-> NoLease]
    /\ issued = {}
    /\ promise = [n \in Nonce |-> NoLease]

---------------------------------------------------------------------------
\* Faulty: a zero or negative TTL is taken as it is.
EffectiveAsGiven(ttl) == ttl
Effective(ttl) == IF ttl <= 0 THEN DefaultTTL ELSE ttl

\* The entry of k grants its holder exclusive rights now.
InForce(k) == m[k] # NoLease /\ m[k].expiresAt > now

\* Acquire's own test for ErrConflict.  Faulty form first: never a conflict.
NeverConflict(k) == FALSE
Conflict(k) == m[k] # NoLease /\ m[k].expiresAt > now

\* The test of `active`, through which every other method goes.  Faulty form
\* first: an entry counts as long as it is in the table.
EntryPresent(k) == m[k] # NoLease
Active(k) == m[k] # NoLease /\ ~(m[k].expiresAt <= now)

\* The seconds the envelope shows for an expiry at tick t.  Faulty form first:
\* rounded up.
UnixRoundedUp(t) == (t + Second - 1) \div Second
Unix(t) == t \div Second

Promised(n, k, t) == [promise EXCEPT ![n] = [key |-> k, seconds |-> Unix(t)]]

\* The promises that go when the entry of k is deleted.
Withdrawn(k) ==
    IF m[k] = NoLease THEN promise ELSE [promise EXCEPT ![m[k].nonce] = NoLease]

---------------------------------------------------------------------------
\* Acquire, when it does not return ErrConflict: an expired entry is simply
\* overwritten.  Faulty form first: a nonce may be drawn a second time.
AcquireStaleNonce(k, n, ttl) ==
    LET expiry == now + Effective(ttl) IN
    /\ ~Conflict(k)
    /\ m' = [m EXCEPT ![k] = [nonce |-> n, expiresAt |-> expiry]]
    /\ issued' = issued \cup {n}
    /\ promise' = Promised(n, k, expiry)
    /\ UNCHANGED now
Acquire(k, n, ttl) ==
    LET expiry == now + Effective(ttl) IN
    /\ ~Conflict(k)
    /\ n \notin issued
    /\ m' = [m EXCEPT ![k] = [nonce |-> n, expiresAt |-> expiry]]
    /\ issued' = issued \cup {n}
    /\ promise' = Promised(n, k, expiry)
    /\ UNCHANGED now

\* Refresh, when it succeeds.  It reads the clock twice under the mutex, once
\* in active and once for the new expiry; the clock may move in between, to
\* `later`.
Refresh(k, n, ttl, later) ==
    LET expiry == later + Effective(ttl) IN
    /\ Active(k)
    /\ m[k].nonce = n
    /\ later >= now
    /\ now' = later
    /\ m' = [m EXCEPT ![k].expiresAt = expiry]
    /\ promise' = Promised(n, k, expiry)
    /\ UNCHANGED issued

\* Release, when it succeeds.
Release(k, n) ==
    /\ Active(k)
    /\ m[k].nonce = n
    /\ m' = [m EXCEPT ![k] = NoLease]
    /\ promise' = Withdrawn(k)
    /\ UNCHANGED <<now, issued>>

\* Any method that looks the key up through active (Get, Refresh, Release,
\* Check) and finds an expired entry deletes it.
Purge(k) ==
    /\ m[k] # NoLease
    /\ ~Active(k)
    /\ m' = [m EXCEPT ![k] = NoLease]
    /\ UNCHANGED <<now, issued, promise>>

Clear(k) ==
    /\ m' = [m EXCEPT ![k] = NoLease]
    /\ promise' = Withdrawn(k)
    /\ UNCHANGED <<now, issued>>

\* Time passes; nothing in the table moves with it.
Tick ==
    /\ now < MaxTime
    /\ now' = now + 1
    /\ UNCHANGED <<m, issued, promise>>

Next ==
    \/ \E k \in Key, n \in Nonce, ttl \in Ttl :
          \/ Acquire(k, n, ttl)
          \/ \E later \in now .. MaxTime : Refresh(k, n, ttl, later)
    \/ \E k \in Key, n \in Nonce : Release(k, n)
    \/ \E k \in Key : Purge(k) \/ Clear(k)
    \/ Tick

Spec == Init /\ [][Next]_vars

---------------------------------------------------------------------------
\* The nonce that holds k as every method sees it.
Holder == [k \in Key |-> IF InForce(k) THEN m[k].nonce ELSE NoNonce]

Abstract == INSTANCE AbstractLease WITH holder <- Holder, issued <- issued

\* Types, and that only drawn nonces are in the table or in a promise.
TypeOK ==
    /\ now \in Nat
    /\ issued \subseteq Nonce
    /\ m \in [Key -> Lease \cup {NoLease}]
    /\ promise \in [Nonce -> Promise \cup {NoLease}]
    /\ \A k \in Key : m[k] # NoLease => m[k].nonce \in issued

\* A client may rely on the envelope it received last: until the expiry shown
\* there, its nonce holds the machine, whatever other callers acquire, refresh,
\* release or look up, and even though the expiry shown is rounded to seconds
\* (lease.go:49-69, 83-100, 141-153; server.go:843-852).
PromiseKept ==
    \A n \in Nonce :
        (promise[n] # NoLease /\ now < promise[n].seconds * Second)
            => Holder[promise[n].key] = n

\* The table with its lazy deletion implements the promise of AbstractLease:
\* one holder a key, no grant over a hold, no hold regained after its end.
ImplementsAbstractLease == Abstract!LeaseSpec

\* A nonce opens one machine: a client's nonce never passes the lease check of
\* a machine it was not granted for (lease.go:57-68, 117-131).
NonceOpensOneKey == Abstract!NonceHoldsOneKey

\* Checked on the table itself: a lapsed nonce never holds a key again, even
\* while its entry is still there (a refresh must not revive it, lease.go:91).
LapsedStaysLapsed == Abstract!NoRevival

=============================================================================
