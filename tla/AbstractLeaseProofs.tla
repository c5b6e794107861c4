------------------------- MODULE AbstractLeaseProofs -------------------------
(***************************************************************************)
(* What follows from AbstractLease for any number of keys and nonces, and  *)
(* hence, by LeaseManagerProofs, of the lease table.                       *)
(***************************************************************************)
EXTENDS AbstractLease, TLAPS

LeaseIInv == LeaseTypeOK /\ NonceHoldsOneKey

LEMMA LeaseStepInv ==
    ASSUME NoNonce \notin Nonce, LeaseIInv, [LeaseNext]_leaseVars
    PROVE  LeaseIInv'
<1> USE DEF LeaseIInv, LeaseTypeOK, NonceHoldsOneKey, Held
<1>1. ASSUME NEW k \in Key, NEW n \in Nonce, Grant(k, n) PROVE LeaseIInv'
  BY <1>1 DEF Grant
<1>2. ASSUME NEW k \in Key, NEW n \in Nonce, Release(k, n) PROVE LeaseIInv'
  BY <1>2 DEF Release
<1>3. ASSUME NEW k \in Key, Clear(k) PROVE LeaseIInv'
  BY <1>3 DEF Clear
<1>4. ASSUME NEW S \in SUBSET Key, Expire(S) PROVE LeaseIInv'
  BY <1>4 DEF Expire
<1>5. CASE UNCHANGED leaseVars
  BY <1>5 DEF leaseVars
<1> QED
  BY <1>1, <1>2, <1>3, <1>4, <1>5 DEF LeaseNext

LEMMA LeaseInvHolds ==
    ASSUME NoNonce \notin Nonce
    PROVE  LeaseSpec => []LeaseIInv
<1>1. LeaseInit => LeaseIInv
  BY DEF LeaseInit, LeaseIInv, LeaseTypeOK, NonceHoldsOneKey, Held
<1>2. LeaseIInv /\ [LeaseNext]_leaseVars => LeaseIInv'
  BY LeaseStepInv
<1> QED
  BY <1>1, <1>2, PTL DEF LeaseSpec

\* A nonce never passes the check of a machine it was not granted for.
THEOREM OneKeyPerNonce ==
    ASSUME NoNonce \notin Nonce
    PROVE  LeaseSpec => []NonceHoldsOneKey
<1>1. LeaseIInv => NonceHoldsOneKey
  BY DEF LeaseIInv
<1> QED
  BY LeaseInvHolds, <1>1, PTL

\* A nonce whose hold has ended never holds again.
THEOREM LapsedNonceStaysLapsed ==
    ASSUME NoNonce \notin Nonce
    PROVE  LeaseSpec => NoRevival
<1>1. ASSUME LeaseIInv, [LeaseNext]_leaseVars
      PROVE [\A k \in Key : holder'[k] \in issued => holder[k] = holder'[k]]_leaseVars
  <2> USE DEF LeaseIInv, LeaseTypeOK
  <2>1. ASSUME NEW j \in Key, NEW n \in Nonce, Grant(j, n)
        PROVE \A k \in Key : holder'[k] \in issued => holder[k] = holder'[k]
    BY <1>1, <2>1 DEF Grant
  <2>2. ASSUME NEW j \in Key, NEW n \in Nonce, Release(j, n) \/ Clear(j)
        PROVE \A k \in Key : holder'[k] \in issued => holder[k] = holder'[k]
    BY <1>1, <2>2 DEF Release, Clear
  <2>3. ASSUME NEW j \in Key, Clear(j)
        PROVE \A k \in Key : holder'[k] \in issued => holder[k] = holder'[k]
    BY <1>1, <2>3 DEF Clear
  <2>4. ASSUME NEW S \in SUBSET Key, Expire(S)
        PROVE \A k \in Key : holder'[k] \in issued => holder[k] = holder'[k]
    BY <1>1, <2>4 DEF Expire
  <2> QED
    BY <1>1, <2>1, <2>2, <2>3, <2>4 DEF LeaseNext
<1> QED
  BY LeaseInvHolds, <1>1, PTL DEF LeaseSpec, NoRevival

===============================================================================
