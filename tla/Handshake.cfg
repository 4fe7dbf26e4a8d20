\* A pair with its own connection, three more handshakes that read whatever
\* was sent, one changed hello.
SPECIFICATION HandshakeFairSpec
CONSTANTS
    c1 = c1
    s1 = s1
    c2 = c2
    s2 = s2
    s3 = s3
    s4 = s4
    alice = alice
    bob = bob
    k1 = k1
    k2 = k2
    Session <- MCSession
    Identity <- MCIdentity
    Secret <- MCSecret
    Role <- MCRole
    Id <- MCId
    Psk <- MCPsk
    Pin <- MCPin
    Reads <- MCReads
    WrongKeys = {c2}
    MaxChanges = 1
    Absent = Absent
INVARIANTS
    ServerAgrees
    ClientAgrees
    OneSenderPerKey
PROPERTY GoodPairCompletes
