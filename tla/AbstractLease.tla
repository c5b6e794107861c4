--------------------------- MODULE AbstractLease ---------------------------
(***************************************************************************)
(* What a lease service promises its callers, without clocks or tables:    *)
(* at most one nonce holds a key at any time, a nonce is granted once, and *)
(* a hold ends by the holder's release, by a clear, or by running out.     *)
(* LeaseManager (internal/lease) is shown to implement this module, and    *)
(* Server is built on it, so that handlers need not know the lease clock.  *)
(***************************************************************************)

CONSTANTS
    Key,      \* what is leased: machines
    Nonce,    \* the secrets a grant can draw
    NoNonce   \* nobody holds the key; a request that presents no nonce.  Not
              \* in Nonce: the modules that instantiate this one assume so

VARIABLES
    holder,   \* holder[k]: the nonce that holds k, or NoNonce
    issued    \* the nonces granted so far; id.Nonce draws afresh every time

leaseVars == <<holder, issued>>

Held == {k \in Key : holder[k] # NoNonce}

LeaseInit ==
    /\ holder = [k \in Key |-> NoNonce]
    /\ issued = {}

\* Whoever holds a key was granted it: no nonce is in force that the service
\* has not drawn (lease.go:61-68).
LeaseTypeOK ==
    /\ holder \in [Key -> issued \cup {NoNonce}]
    /\ issued \subseteq Nonce

---------------------------------------------------------------------------
Grant(k, n) ==
    /\ k \notin Held
    /\ n \notin issued
    /\ holder' = [holder EXCEPT ![k] = n]
    /\ issued' = issued \cup {n}

Release(k, n) ==
    /\ n # NoNonce
    /\ holder[k] = n
    /\ holder' = [holder EXCEPT ![k] = NoNonce]
    /\ UNCHANGED issued

\* Clear succeeds whether or not the key is held, and asks for no nonce.
Clear(k) ==
    /\ holder' = [holder EXCEPT ![k] = NoNonce]
    /\ UNCHANGED issued

\* One tick of the clock can run out several leases.
Expire(S) ==
    /\ S # {} /\ S \subseteq Held
    /\ holder' = [k \in Key |-> IF k \in S THEN NoNonce ELSE holder[k]]
    /\ UNCHANGED issued

LeaseNext ==
    \/ \E k \in Key, n \in Nonce : Grant(k, n) \/ Release(k, n)
    \/ \E k \in Key : Clear(k)
    \/ \E S \in SUBSET Key : Expire(S)

LeaseSpec == LeaseInit /\ [][LeaseNext]_leaseVars

---------------------------------------------------------------------------
\* A nonce opens one machine: no two keys are held by the same nonce, so a
\* client's nonce never passes the lease check of a machine it was not granted
\* for (lease.go:58-67).
NonceHoldsOneKey ==
    \A k1, k2 \in Held : holder[k1] = holder[k2] => k1 = k2

\* A nonce that was granted and no longer holds a key never holds that key
\* again: a client whose lease lapsed cannot get it back by keeping its nonce,
\* it has to acquire anew (lease.go:58-67 draws a fresh nonce, :85-100 and
\* :141-153 refuse to refresh what has expired).
NoRevival ==
    [][\A k \in Key : holder'[k] \in issued => holder[k] = holder'[k]]_leaseVars

=============================================================================
