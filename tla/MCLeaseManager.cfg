SPECIFICATION Spec
CONSTANTS
    Key = {k1, k2}
    Nonce = {n1, n2, n3, n4}
    NoNonce = NoNonce
    NoLease = NoLease
    Ttl <- MCTtl
    DefaultTTL = 2
    Second = 2
    MaxTime = 6
INVARIANTS TypeOK PromiseKept NonceOpensOneKey
PROPERTIES ImplementsAbstractLease LapsedStaysLapsed
SYMMETRY Symmetry
