SPECIFICATION Spec
CONSTANTS
    p1 = p1
    p2 = p2
    k1 = k1
    k2 = k2
    k3 = k3
    n1 = n1
    n2 = n2
    Processes = {p1, p2}
    Keys = {k1, k2, k3}
    NoKey = NoKey
    Disruptions = {"crash", "io"}
    GameServers = {g1}
    g1 = g1
    Refs = {r1}
    r1 = r1
    Nonces = {n1, n2}
    TTL = 1
    MaxTime = 2
    None = None
    Garbage = Garbage
SYMMETRY Symmetry
INVARIANTS
    TypeOK
    PersistedUnlessOverlapped
    KeyFileIsWhole
    UnexpiredIsAccepted
    AcceptedWasSigned
    VerdictsAgree
PROPERTIES
    KeyIsStable
    ImplementsKeyRegister
