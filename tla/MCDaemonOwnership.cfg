CONSTANTS
    d1 = d1
    d2 = d2
    l1 = l1
    l2 = l2
    s1 = s1
    s2 = s2
    s3 = s3
    Daemon = {d1, d2}
    LockInode = {l1, l2}
    SocketInode = {s1, s2, s3}
    OldSocket = s1
    None = None
SPECIFICATION Spec
INVARIANTS
    TypeOK
    OneOwner
    LeftEndpointReclaimable
PROPERTIES
    LiveEndpointKept

