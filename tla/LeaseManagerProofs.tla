-------------------------- MODULE LeaseManagerProofs --------------------------
(***************************************************************************)
(* LeaseManager keeps its types and its promises, and implements           *)
(* AbstractLease, for all machines, nonces, TTLs and clock resolutions.    *)
(***************************************************************************)
EXTENDS LeaseManager, TLAPS

\* A lease always gets some time (lease.go:52-54, 86-88).
LEMMA EffectivePositive == \A ttl \in Ttl : Effective(ttl) \in Nat \ {0}
  BY TtlAssumption DEF Effective

\* The expiry shown in whole seconds is never later than the real one.
LEMMA UnixTruncates ==
    \A t \in Nat : Unix(t) \in Nat /\ Unix(t) * Second <= t
<1>1. TAKE t \in Nat
<1>2. PICK s \in Nat \ {0} : s = Second
  BY TtlAssumption
<1>3. /\ t \div s \in Nat
      /\ t % s \in Nat
      /\ t = s * (t \div s) + (t % s)
  BY SMTT(30)
<1>4. (t \div s) * s <= t
  BY <1>3
<1> QED
  BY <1>2, <1>3, <1>4 DEF Unix

---------------------------------------------------------------------------
\* Nonces are drawn fresh, so an entry's nonce is in no other entry.
UniqueNonce ==
    \A k, j \in Key : (m[k] # NoLease /\ m[j] # NoLease /\ m[k].nonce = m[j].nonce) => k = j

\* A promise that has not run out is backed by the entry of its key, which
\* lives at least as long.
PromiseBacked ==
    \A n \in Nonce : promise[n] # NoLease =>
        LET k == promise[n].key
            until == promise[n].seconds * Second IN
        /\ n \in issued
        /\ now < until => (m[k] # NoLease /\ m[k].nonce = n /\ m[k].expiresAt >= until)

IInv == TypeOK /\ UniqueNonce /\ PromiseBacked

LEMMA InitInv == Init => IInv
  BY TtlAssumption, SentinelAssumption
  DEF Init, IInv, TypeOK, UniqueNonce, PromiseBacked

LEMMA NextTypeOK == TypeOK /\ [Next]_vars => TypeOK'
<1> SUFFICES ASSUME TypeOK, [Next]_vars PROVE TypeOK'
  OBVIOUS
<1> USE TtlAssumption, SentinelAssumption DEF TypeOK, Lease, Promise
<1>1. ASSUME NEW k \in Key, NEW n \in Nonce, NEW ttl \in Ttl, Acquire(k, n, ttl)
      PROVE TypeOK'
  <2>1. now + Effective(ttl) \in Nat
    BY EffectivePositive
  <2>2. Unix(now + Effective(ttl)) \in Nat
    BY <2>1, UnixTruncates
  <2> QED
    BY <1>1, <2>1, <2>2 DEF Acquire, Promised
<1>2. ASSUME NEW k \in Key, NEW n \in Nonce, NEW ttl \in Ttl, NEW later \in now .. MaxTime,
             Refresh(k, n, ttl, later)
      PROVE TypeOK'
  <2>1. later \in Nat /\ later + Effective(ttl) \in Nat
    BY EffectivePositive
  <2>2. Unix(later + Effective(ttl)) \in Nat
    BY <2>1, UnixTruncates
  <2>3. m[k] \in Lease
    BY <1>2 DEF Refresh, Active
  <2> QED
    BY <1>2, <2>1, <2>2, <2>3 DEF Refresh, Promised
<1>3. ASSUME NEW k \in Key, NEW n \in Nonce, Release(k, n) PROVE TypeOK'
  BY <1>3 DEF Release, Withdrawn
<1>4. ASSUME NEW k \in Key, Purge(k) PROVE TypeOK'
  BY <1>4 DEF Purge
<1>5. ASSUME NEW k \in Key, Clear(k) PROVE TypeOK'
  BY <1>5 DEF Clear, Withdrawn
<1>6. CASE Tick
  BY <1>6 DEF Tick
<1>7. CASE UNCHANGED vars
  BY <1>7 DEF vars
<1> QED
  BY <1>1, <1>2, <1>3, <1>4, <1>5, <1>6, <1>7 DEF Next

LEMMA NextUniqueNonce == IInv /\ [Next]_vars => UniqueNonce'
<1> SUFFICES ASSUME IInv, [Next]_vars PROVE UniqueNonce'
  OBVIOUS
<1> USE TtlAssumption, SentinelAssumption DEF IInv, TypeOK, UniqueNonce, Lease
<1>1. ASSUME NEW k \in Key, NEW n \in Nonce, NEW ttl \in Ttl, Acquire(k, n, ttl)
      PROVE UniqueNonce'
  BY <1>1 DEF Acquire
<1>2. ASSUME NEW k \in Key, NEW n \in Nonce, NEW ttl \in Ttl, NEW later \in now .. MaxTime,
             Refresh(k, n, ttl, later)
      PROVE UniqueNonce'
  <2>1. m[k] \in Lease
    BY <1>2 DEF Refresh, Active
  <2>2. \A j \in Key : (m'[j] # NoLease) => (m[j] # NoLease /\ m'[j].nonce = m[j].nonce)
    BY <1>2, <2>1 DEF Refresh, Active
  <2> QED
    BY <2>2
<1>3. ASSUME NEW k \in Key, NEW n \in Nonce, Release(k, n) PROVE UniqueNonce'
  BY <1>3 DEF Release
<1>4. ASSUME NEW k \in Key, Purge(k) \/ Clear(k) PROVE UniqueNonce'
  BY <1>4 DEF Purge, Clear
<1>5. CASE Tick \/ UNCHANGED vars
  BY <1>5 DEF Tick, vars
<1> QED
  BY <1>1, <1>2, <1>3, <1>4, <1>5 DEF Next

\* A step cannot break the promise made to n about k: it is renewed, withdrawn,
\* or still backed.
LEMMA NextPromiseBacked == IInv /\ [Next]_vars => PromiseBacked'
<1> SUFFICES ASSUME IInv, [Next]_vars PROVE PromiseBacked'
  OBVIOUS
<1> USE TtlAssumption, SentinelAssumption DEF IInv, TypeOK, PromiseBacked, Lease, Promise
<1>1. ASSUME NEW k \in Key, NEW n \in Nonce, NEW ttl \in Ttl, Acquire(k, n, ttl)
      PROVE PromiseBacked'
  <2> DEFINE expiry == now + Effective(ttl)
  <2>1. expiry \in Nat /\ Unix(expiry) \in Nat /\ Unix(expiry) * Second <= expiry
    BY EffectivePositive, UnixTruncates
  <2>2. /\ m' = [m EXCEPT ![k] = [nonce |-> n, expiresAt |-> expiry]]
        /\ promise' = [promise EXCEPT ![n] = [key |-> k, seconds |-> Unix(expiry)]]
        /\ issued' = issued \cup {n} /\ n \notin issued /\ now' = now
        /\ m[k] # NoLease => m[k].expiresAt <= now
    BY <1>1 DEF Acquire, Conflict, Promised
  <2> SUFFICES ASSUME NEW n2 \in Nonce, promise'[n2] # NoLease
               PROVE LET j == promise'[n2].key
                         until == promise'[n2].seconds * Second IN
                     /\ n2 \in issued'
                     /\ now' < until =>
                          (m'[j] # NoLease /\ m'[j].nonce = n2 /\ m'[j].expiresAt >= until)
    BY DEF PromiseBacked
  <2> HIDE DEF expiry
  <2>3. CASE n2 = n
    BY <2>1, <2>2, <2>3
  <2>4. CASE n2 # n
    <3>1. promise'[n2] = promise[n2] /\ promise[n2] \in Promise
      BY <2>2, <2>4
    <3>2. promise[n2].seconds * Second \in Nat /\ promise[n2].key \in Key
      BY <3>1
    <3>3. CASE promise[n2].key = k
      BY <2>2, <3>1, <3>2, <3>3
    <3>4. CASE promise[n2].key # k
      BY <2>2, <3>1, <3>2, <3>4
    <3> QED
      BY <3>3, <3>4
  <2> QED
    BY <2>3, <2>4
<1>2. ASSUME NEW k \in Key, NEW n \in Nonce, NEW ttl \in Ttl, NEW later \in now .. MaxTime,
             Refresh(k, n, ttl, later)
      PROVE PromiseBacked'
  <2> DEFINE expiry == later + Effective(ttl)
  <2>1. expiry \in Nat /\ Unix(expiry) \in Nat /\ Unix(expiry) * Second <= expiry
    BY EffectivePositive, UnixTruncates
  <2>2. /\ m' = [m EXCEPT ![k].expiresAt = expiry]
        /\ promise' = [promise EXCEPT ![n] = [key |-> k, seconds |-> Unix(expiry)]]
        /\ issued' = issued /\ now' >= now /\ now' \in Nat
        /\ m[k] \in Lease /\ m[k].nonce = n /\ n \in issued
    BY <1>2 DEF Refresh, Active, Promised
  <2> HIDE DEF expiry
  <2>3. /\ m'[k] \in Lease /\ m'[k].nonce = n /\ m'[k].expiresAt = expiry
        /\ \A j \in Key : j # k => m'[j] = m[j]
    BY <2>1, <2>2
  <2> SUFFICES ASSUME NEW n2 \in Nonce, promise'[n2] # NoLease
               PROVE LET j == promise'[n2].key
                         until == promise'[n2].seconds * Second IN
                     /\ n2 \in issued'
                     /\ now' < until =>
                          (m'[j] # NoLease /\ m'[j].nonce = n2 /\ m'[j].expiresAt >= until)
    BY DEF PromiseBacked
  <2>4. CASE n2 = n
    BY <2>1, <2>2, <2>3, <2>4
  <2>5. CASE n2 # n
    <3>1. promise'[n2] = promise[n2] /\ promise[n2] \in Promise
      BY <2>2, <2>5
    <3>2. promise[n2].seconds * Second \in Nat /\ promise[n2].key \in Key
      BY <3>1
    <3> QED
      BY <2>2, <2>3, <2>5, <3>1, <3>2
  <2> QED
    BY <2>4, <2>5
<1>3. ASSUME NEW k \in Key, Clear(k) PROVE PromiseBacked'
  <2>1. /\ m' = [m EXCEPT ![k] = NoLease] /\ now' = now /\ issued' = issued
        /\ \A n \in Nonce : promise'[n] # NoLease =>
              promise'[n] = promise[n] /\ (m[k] = NoLease \/ m[k].nonce # n)
    BY <1>3 DEF Clear, Withdrawn
  <2> QED
    BY <2>1
<1>4. ASSUME NEW k \in Key, NEW n \in Nonce, Release(k, n) PROVE PromiseBacked'
  BY <1>3, <1>4 DEF Release, Clear
<1>5. ASSUME NEW k \in Key, Purge(k) PROVE PromiseBacked'
  <2>1. /\ m' = [m EXCEPT ![k] = NoLease] /\ now' = now /\ issued' = issued
        /\ promise' = promise /\ m[k] \in Lease /\ m[k].expiresAt <= now
    BY <1>5 DEF Purge, Active
  <2>2. ASSUME NEW n \in Nonce, promise[n] # NoLease, now < promise[n].seconds * Second
        PROVE promise[n].key # k
    <3>1. promise[n].seconds * Second \in Nat
      BY <2>2
    <3> QED
      BY <2>1, <2>2, <3>1
  <2> QED
    BY <2>1, <2>2
<1>6. CASE Tick
  <2>1. now' \in Nat /\ now' > now /\ UNCHANGED <<m, issued, promise>>
    BY <1>6 DEF Tick
  <2>2. \A n \in Nonce : promise[n] # NoLease => promise[n].seconds * Second \in Nat
    OBVIOUS
  <2> QED
    BY <2>1, <2>2
<1>7. CASE UNCHANGED vars
  BY <1>7 DEF vars
<1> QED
  BY <1>1, <1>2, <1>3, <1>4, <1>5, <1>6, <1>7 DEF Next

LEMMA InvariantHolds == Spec => []IInv
<1>1. IInv /\ [Next]_vars => IInv'
  BY NextTypeOK, NextUniqueNonce, NextPromiseBacked DEF IInv
<1> QED
  BY InitInv, <1>1, PTL DEF Spec

\* The types of the table, for every number of machines, nonces and TTLs.
THEOREM TypesHold == Spec => []TypeOK
<1>1. IInv => TypeOK
  BY DEF IInv
<1> QED
  BY InvariantHolds, <1>1, PTL

\* Until the expiry its envelope shows, a client's nonce holds the machine.
THEOREM PromisesAreKept == Spec => []PromiseKept
<1>1. IInv => PromiseKept
  <2> SUFFICES ASSUME IInv, NEW n \in Nonce, promise[n] # NoLease,
                      now < promise[n].seconds * Second
               PROVE Holder[promise[n].key] = n
    BY DEF PromiseKept
  <2>1. promise[n] \in Promise
    BY DEF IInv, TypeOK
  <2>2. promise[n].key \in Key /\ promise[n].seconds * Second \in Nat
    BY <2>1, TtlAssumption DEF Promise
  <2>3. LET k == promise[n].key IN
        /\ m[k] \in Lease /\ m[k].nonce = n
        /\ m[k].expiresAt >= promise[n].seconds * Second
    BY <2>2 DEF IInv, PromiseBacked, TypeOK
  <2> QED
    BY <2>2, <2>3, SentinelAssumption DEF IInv, TypeOK, Lease, Holder, InForce
<1> QED
  BY InvariantHolds, <1>1, PTL

---------------------------------------------------------------------------
(* The refinement.  Holder, the view every method has of a key, is what    *)
(* AbstractLease calls holder.                                             *)

\* When the table and the set of nonces stay as they are for the keys outside
\* S, and the keys of S lapse, AbstractLease sees an Expire or nothing.
LEMMA LapseRefines ==
    ASSUME IInv, issued' = issued, Holder' \in [Key -> Nonce \cup {NoNonce}],
           \A k \in Key : Holder'[k] \in {Holder[k], NoNonce}
    PROVE  [Abstract!LeaseNext]_(Abstract!leaseVars)
<1> DEFINE S == {k \in Key : Holder'[k] # Holder[k]}
<1>1. Holder \in [Key -> Nonce \cup {NoNonce}]
  BY DEF IInv, TypeOK, Holder, InForce, Lease
<1>2. CASE S = {}
  <2>1. Holder' = Holder
    BY <1>1, <1>2
  <2> QED
    BY <2>1 DEF Abstract!leaseVars
<1>3. CASE S # {}
  <2>1. S \subseteq Abstract!Held
    BY <1>1 DEF Abstract!Held
  <2>2. Holder' = [k \in Key |-> IF k \in S THEN NoNonce ELSE Holder[k]]
    BY <1>1
  <2>3. Abstract!Expire(S)
    BY <1>3, <2>1, <2>2 DEF Abstract!Expire
  <2> QED
    BY <2>3 DEF Abstract!LeaseNext
<1> QED
  BY <1>2, <1>3

\* Every step of the table is a step of AbstractLease or shows nothing there.
LEMMA StepRefines == IInv /\ IInv' /\ [Next]_vars => [Abstract!LeaseNext]_(Abstract!leaseVars)
<1> SUFFICES ASSUME IInv, IInv', [Next]_vars
             PROVE  [Abstract!LeaseNext]_(Abstract!leaseVars)
  OBVIOUS
<1> USE TtlAssumption, SentinelAssumption
<1>h. /\ Holder \in [Key -> Nonce \cup {NoNonce}]
      /\ Holder' \in [Key -> Nonce \cup {NoNonce}]
  BY DEF IInv, TypeOK, Holder, InForce, Lease
<1>1. ASSUME NEW k \in Key, NEW n \in Nonce, NEW ttl \in Ttl, Acquire(k, n, ttl)
      PROVE Abstract!Grant(k, n)
  <2>1. now + Effective(ttl) > now /\ now + Effective(ttl) \in Nat
    BY EffectivePositive DEF IInv, TypeOK
  <2>2. Holder[k] = NoNonce
    BY <1>1 DEF Acquire, Conflict, Holder, InForce, IInv, TypeOK, Lease
  <2>3. m'[k] = [nonce |-> n, expiresAt |-> now + Effective(ttl)] /\ now' = now
        /\ m'[k] # NoLease /\ \A j \in Key : j # k => m'[j] = m[j]
    BY <1>1, <2>1 DEF Acquire, IInv, TypeOK
  <2>4. Holder'[k] = n
    BY <2>1, <2>3 DEF Holder, InForce
  <2>5. \A j \in Key : j # k => Holder'[j] = Holder[j]
    BY <2>3 DEF Holder, InForce
  <2>6. Holder' = [Holder EXCEPT ![k] = n]
    BY <1>h, <2>4, <2>5
  <2> QED
    BY <1>1, <2>2, <2>6 DEF Acquire, Abstract!Grant, Abstract!Held
<1>2. ASSUME NEW k \in Key, NEW n \in Nonce, NEW ttl \in Ttl, NEW later \in now .. MaxTime,
             Refresh(k, n, ttl, later)
      PROVE [Abstract!LeaseNext]_(Abstract!leaseVars)
  <2>1. /\ now \in Nat /\ later \in Nat /\ later >= now
        /\ later + Effective(ttl) \in Nat /\ later + Effective(ttl) > later
    BY EffectivePositive DEF IInv, TypeOK
  <2>2. /\ m[k] \in Lease /\ m[k].nonce = n /\ Holder[k] = n /\ now' = later
        /\ m' = [m EXCEPT ![k].expiresAt = later + Effective(ttl)]
    BY <1>2 DEF Refresh, Active, Holder, InForce, IInv, TypeOK, Lease
  <2>3. Holder'[k] = n
    <3>1. m'[k] # NoLease /\ m'[k].nonce = n /\ m'[k].expiresAt = later + Effective(ttl)
      BY <2>1, <2>2 DEF IInv, TypeOK, Lease
    <3> QED
      BY <2>1, <2>2, <3>1 DEF Holder, InForce
  <2>4. ASSUME NEW j \in Key, j # k PROVE Holder'[j] \in {Holder[j], NoNonce}
    <3>1. m'[j] = m[j]
      BY <2>2, <2>4 DEF IInv, TypeOK
    <3> QED
      BY <2>1, <2>2, <3>1 DEF Holder, InForce, IInv, TypeOK, Lease
  <2>5. issued' = issued
    BY <1>2 DEF Refresh
  <2> QED
    BY <1>h, <2>2, <2>3, <2>4, <2>5, LapseRefines
<1>3. ASSUME NEW k \in Key, NEW n \in Nonce, Release(k, n) PROVE Abstract!Release(k, n)
  <2>1. Holder[k] = n /\ n # NoNonce
    BY <1>3 DEF Release, Active, Holder, InForce, IInv, TypeOK, Lease
  <2>2. Holder' = [Holder EXCEPT ![k] = NoNonce]
    BY <1>3, <1>h DEF Release, Holder, InForce, IInv, TypeOK
  <2> QED
    BY <1>3, <2>1, <2>2 DEF Release, Abstract!Release
<1>4. ASSUME NEW k \in Key, Clear(k) PROVE Abstract!Clear(k)
  <2>1. Holder' = [Holder EXCEPT ![k] = NoNonce]
    BY <1>4, <1>h DEF Clear, Holder, InForce, IInv, TypeOK
  <2> QED
    BY <1>4, <2>1 DEF Clear, Abstract!Clear
<1>5. ASSUME NEW k \in Key, Purge(k) PROVE [Abstract!LeaseNext]_(Abstract!leaseVars)
  <2>1. \A j \in Key : Holder'[j] \in {Holder[j], NoNonce}
    BY <1>5 DEF Purge, Active, Holder, InForce, IInv, TypeOK
  <2> QED
    BY <1>5, <1>h, <2>1, LapseRefines DEF Purge
<1>6. CASE Tick
  <2>1. \A j \in Key : Holder'[j] \in {Holder[j], NoNonce}
    BY <1>6 DEF Tick, Holder, InForce, IInv, TypeOK, Lease
  <2> QED
    BY <1>6, <1>h, <2>1, LapseRefines DEF Tick
<1>7. CASE UNCHANGED vars
  <2>1. Holder' = Holder /\ issued' = issued
    BY <1>7 DEF vars, Holder, InForce
  <2> QED
    BY <2>1 DEF Abstract!leaseVars
<1> QED
  BY <1>1, <1>2, <1>3, <1>4, <1>5, <1>6, <1>7 DEF Next, Abstract!LeaseNext

\* The table with lazy deletion implements AbstractLease.
THEOREM TableImplementsAbstractLease == Spec => ImplementsAbstractLease
<1>1. Init => Abstract!LeaseInit
  BY DEF Init, Abstract!LeaseInit, Holder, InForce
<1> QED
  BY InvariantHolds, <1>1, StepRefines, PTL
  DEF Spec, ImplementsAbstractLease, Abstract!LeaseSpec

\* Hence what AbstractLease promises of nonces holds of the table: a nonce
\* whose lease lapsed is not revived, even while its entry is still there.
AbstractFacts == INSTANCE AbstractLeaseProofs WITH holder <- Holder, issued <- issued

\* The two instances of AbstractLease, here and under its proofs, say the same.
LEMMA FactsApply == Abstract!LeaseSpec => AbstractFacts!LeaseSpec
<1>1. Abstract!LeaseInit => AbstractFacts!LeaseInit
  BY DEF Abstract!LeaseInit, AbstractFacts!LeaseInit
<1>2. [Abstract!LeaseNext]_(Abstract!leaseVars) => [AbstractFacts!LeaseNext]_(AbstractFacts!leaseVars)
  BY DEF Abstract!LeaseNext, AbstractFacts!LeaseNext, Abstract!leaseVars,
         AbstractFacts!leaseVars, Abstract!Grant, AbstractFacts!Grant, Abstract!Held,
         AbstractFacts!Held, Abstract!Release, AbstractFacts!Release, Abstract!Clear,
         AbstractFacts!Clear, Abstract!Expire, AbstractFacts!Expire
<1> QED
  BY <1>1, <1>2, PTL DEF Abstract!LeaseSpec, AbstractFacts!LeaseSpec

\* A nonce whose lease lapsed is not revived.
THEOREM LapsedLeasesStayLapsed == Spec => LapsedStaysLapsed
<1>1. NoNonce \notin Nonce
  BY SentinelAssumption
<1>2. AbstractFacts!LeaseSpec => AbstractFacts!NoRevival
  BY <1>1, AbstractFacts!LapsedNonceStaysLapsed
<1>3. AbstractFacts!NoRevival => Abstract!NoRevival
  BY PTL DEF Abstract!NoRevival, AbstractFacts!NoRevival, Abstract!leaseVars, AbstractFacts!leaseVars
<1> QED
  BY <1>2, <1>3, FactsApply, TableImplementsAbstractLease, PTL DEF LapsedStaysLapsed, ImplementsAbstractLease

\* Likewise, a nonce never passes the check of a machine it was not granted for.
THEOREM NoncesOpenOneKey == Spec => []NonceOpensOneKey
<1>1. NoNonce \notin Nonce
  BY SentinelAssumption
<1>2. AbstractFacts!LeaseSpec => []AbstractFacts!NonceHoldsOneKey
  BY <1>1, AbstractFacts!OneKeyPerNonce
<1>3. AbstractFacts!NonceHoldsOneKey => NonceOpensOneKey
  BY DEF NonceOpensOneKey, Abstract!NonceHoldsOneKey, AbstractFacts!NonceHoldsOneKey,
         Abstract!Held, AbstractFacts!Held
<1> QED
  BY <1>2, <1>3, FactsApply, TableImplementsAbstractLease, PTL DEF ImplementsAbstractLease

===============================================================================
