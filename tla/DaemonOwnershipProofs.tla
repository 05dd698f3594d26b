------------------------ MODULE DaemonOwnershipProofs ------------------------
(***************************************************************************)
(* Proofs about DaemonOwnership, for any number of daemons and inodes.      *)
(*                                                                          *)
(* That one daemon owns the vault is seen from the lock: TypeOK says who    *)
(* holds it, LockInv that without harm every descriptor leads to the one    *)
(* lock file.  That endpoints are safe needs in addition what the marker    *)
(* promises (MarkInv), who is behind a live endpoint (EndpointInv,          *)
(* ClosingInv), that a probe stays true until the removal (ProbeInv), and   *)
(* that the marker is never complete under a daemon without the lock        *)
(* (OldInv).                                                                *)
(***************************************************************************)
EXTENDS DaemonOwnership, FiniteSetTheorems, TLAPS

Marked == {"probe", "compare", "unlink", "store"} \cup StoreOpen

\* Every descriptor leads to the lock file.
LockInv == \A d \in Daemon : fd[d] # None => fd[d] = lockPath

\* A daemon has an endpoint from its bind to its removal.
CreatedInv ==
    \A d \in Daemon : /\ created[d] # None => pc[d] \in {"listen", "serving", "close", "remove"}
                      /\ pc[d] = "listen" => created[d] # None

\* Whoever looks at an endpoint, or has one, marked the lock before.
MarkInv ==
    \A d \in Daemon : /\ pc[d] \in Marked => marker[fd[d]] = "full"
                      /\ pc[d] = "marking" => marker[fd[d]] = "empty"

\* A listener is closed before its path is removed.
ClosingInv ==
    \A d \in Daemon : pc[d] = "remove" /\ created[d] # None => endpoint[created[d]] = "dead"

\* What was probed stays dead until it is removed.
ProbeInv ==
    \A d \in Daemon : pc[d] \in {"compare", "unlink"} => socketPath = None \/ endpoint[socketPath] = "dead"

\* Behind a live endpoint is a daemon.
EndpointInv ==
    \A s \in SocketInode : endpoint[s] \in Live => s = OldSocket \/ \E d \in Daemon : created[d] = s

\* While an old daemon lives, its endpoint is at the path, and no daemon gets as
\* far as to mark the lock.
OldInv ==
    OldDaemonAlive => /\ socketPath = OldSocket
                      /\ lockPath # None => marker[lockPath] # "full"
                      /\ \A d \in Daemon : pc[d] \notin Marked \cup {"marking"}

\* What holds while nobody removed the lock file, and the invariant.
Unharmed == LockInv /\ MarkInv /\ ClosingInv /\ ProbeInv /\ EndpointInv /\ OldInv
IInv == TypeOK /\ CreatedInv /\ LeftEndpointReclaimable /\ (harm \/ Unharmed)

-----------------------------------------------------------------------------
(***************************************************************************)
(* One step, invariant by invariant.                                        *)
(***************************************************************************)

\* Every step keeps the types, and the lock with whom it is held by.
LEMMA NextType ==
    ASSUME TypeOK, [Next]_vars
    PROVE  TypeOK'
    <1>. USE ConstantsAssumption DEF TypeOK, files, locals, Live, Starting, StoreOpen
    <1>1. ASSUME NEW d \in Daemon, Open(d) PROVE TypeOK'
        BY <1>1 DEF Open, Goto
    <1>2. ASSUME NEW d \in Daemon, Flock(d) PROVE TypeOK'
        BY <1>2 DEF Flock, Goto
    <1>3. ASSUME NEW d \in Daemon, CheckLocked(d) PROVE TypeOK'
        BY <1>3 DEF CheckLocked, Goto, Owned
    <1>4. ASSUME NEW d \in Daemon, Prepare(d) PROVE TypeOK'
        BY <1>4 DEF Prepare, Goto, Owned
    <1>5. ASSUME NEW d \in Daemon, Mark(d) PROVE TypeOK'
        BY <1>5 DEF Mark, Goto
    <1>6. ASSUME NEW d \in Daemon, MarkPart(d) PROVE TypeOK'
        BY <1>6 DEF MarkPart, Goto
    <1>7. ASSUME NEW d \in Daemon, Probe(d) PROVE TypeOK'
        BY <1>7 DEF Probe, Goto
    <1>8. ASSUME NEW d \in Daemon, Compare(d) PROVE TypeOK'
        BY <1>8 DEF Compare, Goto, Owned
    <1>9. ASSUME NEW d \in Daemon, Unlink(d) PROVE TypeOK'
        BY <1>9 DEF Unlink, Goto
    <1>10. ASSUME NEW d \in Daemon, OpenStore(d) PROVE TypeOK'
        BY <1>10 DEF OpenStore, Goto
    <1>11. ASSUME NEW d \in Daemon, Bind(d) PROVE TypeOK'
        BY <1>11 DEF Bind, Goto
    <1>12. ASSUME NEW d \in Daemon, Listen(d) PROVE TypeOK'
        BY <1>12 DEF Listen, Goto
    <1>13. ASSUME NEW d \in Daemon, Disowned(d) PROVE TypeOK'
        BY <1>13 DEF Disowned, Goto, Owned
    <1>14. ASSUME NEW d \in Daemon, CloseListener(d) PROVE TypeOK'
        BY <1>14 DEF CloseListener, Goto
    <1>15. ASSUME NEW d \in Daemon, RemoveSocket(d) PROVE TypeOK'
        BY <1>15 DEF RemoveSocket, Goto
    <1>16. ASSUME NEW d \in Daemon, CloseStore(d) PROVE TypeOK'
        BY <1>16 DEF CloseStore, Goto
    <1>17. ASSUME NEW d \in Daemon, Release(d) PROVE TypeOK'
        BY <1>17 DEF Release, Goto, Closed
    <1>18. ASSUME NEW d \in Daemon, StopServing(d) PROVE TypeOK'
        BY <1>18 DEF StopServing, Goto
    <1>19. ASSUME NEW d \in Daemon, Crash(d) PROVE TypeOK'
        BY <1>19 DEF Crash, Goto, Closed
    <1>20. CASE OldDaemonListens
        BY <1>20 DEF OldDaemonListens
    <1>21. CASE OldDaemonStops
        BY <1>21 DEF OldDaemonStops
    <1>22. CASE RemoveOldSocket
        BY <1>22 DEF RemoveOldSocket
    <1>23. CASE RemoveLock
        BY <1>23 DEF RemoveLock
    <1>24. CASE UNCHANGED vars
        BY <1>24 DEF vars
    <1>. QED
        BY <1>1, <1>2, <1>3, <1>4, <1>5, <1>6, <1>7, <1>8, <1>9, <1>10, <1>11, <1>12, <1>13,
           <1>14, <1>15, <1>16, <1>17, <1>18, <1>19, <1>20, <1>21, <1>22, <1>23, <1>24
        DEF Next, DaemonStep

\* An endpoint is gone from a daemon's hands before the daemon lets its store go.
LEMMA NextCreated ==
    ASSUME TypeOK, CreatedInv, [Next]_vars
    PROVE  CreatedInv'
    <1>. USE ConstantsAssumption DEF TypeOK, CreatedInv, files, locals, Live, Starting, StoreOpen
    <1>1. ASSUME NEW d \in Daemon, Open(d) PROVE CreatedInv'
        BY <1>1 DEF Open, Goto
    <1>2. ASSUME NEW d \in Daemon, Flock(d) PROVE CreatedInv'
        BY <1>2 DEF Flock, Goto
    <1>3. ASSUME NEW d \in Daemon, CheckLocked(d) PROVE CreatedInv'
        BY <1>3 DEF CheckLocked, Goto, Owned
    <1>4. ASSUME NEW d \in Daemon, Prepare(d) PROVE CreatedInv'
        BY <1>4 DEF Prepare, Goto, Owned
    <1>5. ASSUME NEW d \in Daemon, Mark(d) PROVE CreatedInv'
        BY <1>5 DEF Mark, Goto
    <1>6. ASSUME NEW d \in Daemon, MarkPart(d) PROVE CreatedInv'
        BY <1>6 DEF MarkPart, Goto
    <1>7. ASSUME NEW d \in Daemon, Probe(d) PROVE CreatedInv'
        BY <1>7 DEF Probe, Goto
    <1>8. ASSUME NEW d \in Daemon, Compare(d) PROVE CreatedInv'
        BY <1>8 DEF Compare, Goto, Owned
    <1>9. ASSUME NEW d \in Daemon, Unlink(d) PROVE CreatedInv'
        BY <1>9 DEF Unlink, Goto
    <1>10. ASSUME NEW d \in Daemon, OpenStore(d) PROVE CreatedInv'
        BY <1>10 DEF OpenStore, Goto
    <1>11. ASSUME NEW d \in Daemon, Bind(d) PROVE CreatedInv'
        BY <1>11 DEF Bind, Goto
    <1>12. ASSUME NEW d \in Daemon, Listen(d) PROVE CreatedInv'
        BY <1>12 DEF Listen, Goto
    <1>13. ASSUME NEW d \in Daemon, Disowned(d) PROVE CreatedInv'
        BY <1>13 DEF Disowned, Goto, Owned
    <1>14. ASSUME NEW d \in Daemon, CloseListener(d) PROVE CreatedInv'
        BY <1>14 DEF CloseListener, Goto
    <1>15. ASSUME NEW d \in Daemon, RemoveSocket(d) PROVE CreatedInv'
        BY <1>15 DEF RemoveSocket, Goto
    <1>16. ASSUME NEW d \in Daemon, CloseStore(d) PROVE CreatedInv'
        BY <1>16 DEF CloseStore, Goto
    <1>17. ASSUME NEW d \in Daemon, Release(d) PROVE CreatedInv'
        BY <1>17 DEF Release, Goto, Closed
    <1>18. ASSUME NEW d \in Daemon, StopServing(d) PROVE CreatedInv'
        BY <1>18 DEF StopServing, Goto
    <1>19. ASSUME NEW d \in Daemon, Crash(d) PROVE CreatedInv'
        BY <1>19 DEF Crash, Goto, Closed
    <1>20. CASE OldDaemonListens
        BY <1>20 DEF OldDaemonListens
    <1>21. CASE OldDaemonStops
        BY <1>21 DEF OldDaemonStops
    <1>22. CASE RemoveOldSocket
        BY <1>22 DEF RemoveOldSocket
    <1>23. CASE RemoveLock
        BY <1>23 DEF RemoveLock
    <1>24. CASE UNCHANGED vars
        BY <1>24 DEF vars
    <1>. QED
        BY <1>1, <1>2, <1>3, <1>4, <1>5, <1>6, <1>7, <1>8, <1>9, <1>10, <1>11, <1>12, <1>13,
           <1>14, <1>15, <1>16, <1>17, <1>18, <1>19, <1>20, <1>21, <1>22, <1>23, <1>24
        DEF Next, DaemonStep

\* Only a missing lock file is created, and without harm it is missing only when
\* nobody has a descriptor.
LEMMA NextLock ==
    ASSUME TypeOK, LockInv, ~harm', [Next]_vars
    PROVE  LockInv'
    <1>. USE ConstantsAssumption DEF TypeOK, LockInv, files, locals, Live, Starting, StoreOpen
    <1>1. ASSUME NEW d \in Daemon, Open(d) PROVE LockInv'
        BY <1>1 DEF Open, Goto
    <1>2. ASSUME NEW d \in Daemon, Flock(d) PROVE LockInv'
        BY <1>2 DEF Flock, Goto
    <1>3. ASSUME NEW d \in Daemon, CheckLocked(d) PROVE LockInv'
        BY <1>3 DEF CheckLocked, Goto, Owned
    <1>4. ASSUME NEW d \in Daemon, Prepare(d) PROVE LockInv'
        BY <1>4 DEF Prepare, Goto, Owned
    <1>5. ASSUME NEW d \in Daemon, Mark(d) PROVE LockInv'
        BY <1>5 DEF Mark, Goto
    <1>6. ASSUME NEW d \in Daemon, MarkPart(d) PROVE LockInv'
        BY <1>6 DEF MarkPart, Goto
    <1>7. ASSUME NEW d \in Daemon, Probe(d) PROVE LockInv'
        BY <1>7 DEF Probe, Goto
    <1>8. ASSUME NEW d \in Daemon, Compare(d) PROVE LockInv'
        BY <1>8 DEF Compare, Goto, Owned
    <1>9. ASSUME NEW d \in Daemon, Unlink(d) PROVE LockInv'
        BY <1>9 DEF Unlink, Goto
    <1>10. ASSUME NEW d \in Daemon, OpenStore(d) PROVE LockInv'
        BY <1>10 DEF OpenStore, Goto
    <1>11. ASSUME NEW d \in Daemon, Bind(d) PROVE LockInv'
        BY <1>11 DEF Bind, Goto
    <1>12. ASSUME NEW d \in Daemon, Listen(d) PROVE LockInv'
        BY <1>12 DEF Listen, Goto
    <1>13. ASSUME NEW d \in Daemon, Disowned(d) PROVE LockInv'
        BY <1>13 DEF Disowned, Goto, Owned
    <1>14. ASSUME NEW d \in Daemon, CloseListener(d) PROVE LockInv'
        BY <1>14 DEF CloseListener, Goto
    <1>15. ASSUME NEW d \in Daemon, RemoveSocket(d) PROVE LockInv'
        BY <1>15 DEF RemoveSocket, Goto
    <1>16. ASSUME NEW d \in Daemon, CloseStore(d) PROVE LockInv'
        BY <1>16 DEF CloseStore, Goto
    <1>17. ASSUME NEW d \in Daemon, Release(d) PROVE LockInv'
        BY <1>17 DEF Release, Goto, Closed
    <1>18. ASSUME NEW d \in Daemon, StopServing(d) PROVE LockInv'
        BY <1>18 DEF StopServing, Goto
    <1>19. ASSUME NEW d \in Daemon, Crash(d) PROVE LockInv'
        BY <1>19 DEF Crash, Goto, Closed
    <1>20. CASE OldDaemonListens
        BY <1>20 DEF OldDaemonListens
    <1>21. CASE OldDaemonStops
        BY <1>21 DEF OldDaemonStops
    <1>22. CASE RemoveOldSocket
        BY <1>22 DEF RemoveOldSocket
    <1>23. CASE RemoveLock
        BY <1>23 DEF RemoveLock
    <1>24. CASE UNCHANGED vars
        BY <1>24 DEF vars
    <1>. QED
        BY <1>1, <1>2, <1>3, <1>4, <1>5, <1>6, <1>7, <1>8, <1>9, <1>10, <1>11, <1>12, <1>13,
           <1>14, <1>15, <1>16, <1>17, <1>18, <1>19, <1>20, <1>21, <1>22, <1>23, <1>24
        DEF Next, DaemonStep

\* Of all daemons one holds the lock.
LEMMA OneHolder ==
    ASSUME TypeOK, LockInv, NEW d \in Daemon, NEW e \in Daemon,
           pc[d] \notin {"off", "open", "release"}, pc[e] \notin {"off", "open", "release"}
    PROVE  d = e /\ fd[d] = lockPath /\ lockPath \in LockInode
    BY ConstantsAssumption DEF TypeOK, LockInv

\* The marker is written by the holder, and not taken back before the lock file is
\* created anew.
LEMMA NextMark ==
    ASSUME TypeOK, LockInv, MarkInv, ~harm', [Next]_vars
    PROVE  MarkInv'
    <1>. USE ConstantsAssumption, OneHolder DEF TypeOK, LockInv, MarkInv, Marked, files, locals, Live, Starting, StoreOpen
    <1>1. ASSUME NEW d \in Daemon, Open(d) PROVE MarkInv'
        BY <1>1 DEF Open, Goto
    <1>2. ASSUME NEW d \in Daemon, Flock(d) PROVE MarkInv'
        BY <1>2 DEF Flock, Goto
    <1>3. ASSUME NEW d \in Daemon, CheckLocked(d) PROVE MarkInv'
        BY <1>3 DEF CheckLocked, Goto, Owned
    <1>4. ASSUME NEW d \in Daemon, Prepare(d) PROVE MarkInv'
        BY <1>4 DEF Prepare, Goto, Owned
    <1>5. ASSUME NEW d \in Daemon, Mark(d) PROVE MarkInv'
        BY <1>5 DEF Mark, Goto
    <1>6. ASSUME NEW d \in Daemon, MarkPart(d) PROVE MarkInv'
        BY <1>6 DEF MarkPart, Goto
    <1>7. ASSUME NEW d \in Daemon, Probe(d) PROVE MarkInv'
        BY <1>7 DEF Probe, Goto
    <1>8. ASSUME NEW d \in Daemon, Compare(d) PROVE MarkInv'
        BY <1>8 DEF Compare, Goto, Owned
    <1>9. ASSUME NEW d \in Daemon, Unlink(d) PROVE MarkInv'
        BY <1>9 DEF Unlink, Goto
    <1>10. ASSUME NEW d \in Daemon, OpenStore(d) PROVE MarkInv'
        BY <1>10 DEF OpenStore, Goto
    <1>11. ASSUME NEW d \in Daemon, Bind(d) PROVE MarkInv'
        BY <1>11 DEF Bind, Goto
    <1>12. ASSUME NEW d \in Daemon, Listen(d) PROVE MarkInv'
        BY <1>12 DEF Listen, Goto
    <1>13. ASSUME NEW d \in Daemon, Disowned(d) PROVE MarkInv'
        BY <1>13 DEF Disowned, Goto, Owned
    <1>14. ASSUME NEW d \in Daemon, CloseListener(d) PROVE MarkInv'
        BY <1>14 DEF CloseListener, Goto
    <1>15. ASSUME NEW d \in Daemon, RemoveSocket(d) PROVE MarkInv'
        BY <1>15 DEF RemoveSocket, Goto
    <1>16. ASSUME NEW d \in Daemon, CloseStore(d) PROVE MarkInv'
        BY <1>16 DEF CloseStore, Goto
    <1>17. ASSUME NEW d \in Daemon, Release(d) PROVE MarkInv'
        BY <1>17 DEF Release, Goto, Closed
    <1>18. ASSUME NEW d \in Daemon, StopServing(d) PROVE MarkInv'
        BY <1>18 DEF StopServing, Goto
    <1>19. ASSUME NEW d \in Daemon, Crash(d) PROVE MarkInv'
        BY <1>19 DEF Crash, Goto, Closed
    <1>20. CASE OldDaemonListens
        BY <1>20 DEF OldDaemonListens
    <1>21. CASE OldDaemonStops
        BY <1>21 DEF OldDaemonStops
    <1>22. CASE RemoveOldSocket
        BY <1>22 DEF RemoveOldSocket
    <1>23. CASE RemoveLock
        BY <1>23 DEF RemoveLock
    <1>24. CASE UNCHANGED vars
        BY <1>24 DEF vars
    <1>. QED
        BY <1>1, <1>2, <1>3, <1>4, <1>5, <1>6, <1>7, <1>8, <1>9, <1>10, <1>11, <1>12, <1>13,
           <1>14, <1>15, <1>16, <1>17, <1>18, <1>19, <1>20, <1>21, <1>22, <1>23, <1>24
        DEF Next, DaemonStep

\* Nobody binds the inode of a closed listener while its daemon holds the lock.
LEMMA NextClosing ==
    ASSUME TypeOK, CreatedInv, LockInv, ClosingInv, ~harm', [Next]_vars
    PROVE  ClosingInv'
    <1>. USE ConstantsAssumption, OneHolder DEF TypeOK, CreatedInv, LockInv, ClosingInv, files, locals, Live, Starting, StoreOpen
    <1>1. ASSUME NEW d \in Daemon, Open(d) PROVE ClosingInv'
        BY <1>1 DEF Open, Goto
    <1>2. ASSUME NEW d \in Daemon, Flock(d) PROVE ClosingInv'
        BY <1>2 DEF Flock, Goto
    <1>3. ASSUME NEW d \in Daemon, CheckLocked(d) PROVE ClosingInv'
        BY <1>3 DEF CheckLocked, Goto, Owned
    <1>4. ASSUME NEW d \in Daemon, Prepare(d) PROVE ClosingInv'
        BY <1>4 DEF Prepare, Goto, Owned
    <1>5. ASSUME NEW d \in Daemon, Mark(d) PROVE ClosingInv'
        BY <1>5 DEF Mark, Goto
    <1>6. ASSUME NEW d \in Daemon, MarkPart(d) PROVE ClosingInv'
        BY <1>6 DEF MarkPart, Goto
    <1>7. ASSUME NEW d \in Daemon, Probe(d) PROVE ClosingInv'
        BY <1>7 DEF Probe, Goto
    <1>8. ASSUME NEW d \in Daemon, Compare(d) PROVE ClosingInv'
        BY <1>8 DEF Compare, Goto, Owned
    <1>9. ASSUME NEW d \in Daemon, Unlink(d) PROVE ClosingInv'
        BY <1>9 DEF Unlink, Goto
    <1>10. ASSUME NEW d \in Daemon, OpenStore(d) PROVE ClosingInv'
        BY <1>10 DEF OpenStore, Goto
    <1>11. ASSUME NEW d \in Daemon, Bind(d) PROVE ClosingInv'
        BY <1>11 DEF Bind, Goto
    <1>12. ASSUME NEW d \in Daemon, Listen(d) PROVE ClosingInv'
        BY <1>12 DEF Listen, Goto
    <1>13. ASSUME NEW d \in Daemon, Disowned(d) PROVE ClosingInv'
        BY <1>13 DEF Disowned, Goto, Owned
    <1>14. ASSUME NEW d \in Daemon, CloseListener(d) PROVE ClosingInv'
        BY <1>14 DEF CloseListener, Goto
    <1>15. ASSUME NEW d \in Daemon, RemoveSocket(d) PROVE ClosingInv'
        BY <1>15 DEF RemoveSocket, Goto
    <1>16. ASSUME NEW d \in Daemon, CloseStore(d) PROVE ClosingInv'
        BY <1>16 DEF CloseStore, Goto
    <1>17. ASSUME NEW d \in Daemon, Release(d) PROVE ClosingInv'
        BY <1>17 DEF Release, Goto, Closed
    <1>18. ASSUME NEW d \in Daemon, StopServing(d) PROVE ClosingInv'
        BY <1>18 DEF StopServing, Goto
    <1>19. ASSUME NEW d \in Daemon, Crash(d) PROVE ClosingInv'
        BY <1>19 DEF Crash, Goto, Closed
    <1>20. CASE OldDaemonListens
        BY <1>20 DEF OldDaemonListens
    <1>21. CASE OldDaemonStops
        BY <1>21 DEF OldDaemonStops
    <1>22. CASE RemoveOldSocket
        BY <1>22 DEF RemoveOldSocket
    <1>23. CASE RemoveLock
        BY <1>23 DEF RemoveLock
    <1>24. CASE UNCHANGED vars
        BY <1>24 DEF vars
    <1>. QED
        BY <1>1, <1>2, <1>3, <1>4, <1>5, <1>6, <1>7, <1>8, <1>9, <1>10, <1>11, <1>12, <1>13,
           <1>14, <1>15, <1>16, <1>17, <1>18, <1>19, <1>20, <1>21, <1>22, <1>23, <1>24
        DEF Next, DaemonStep

\* A daemon leaves a live endpoint neither in closing nor in a crash.
LEMMA NextEndpoint ==
    ASSUME TypeOK, CreatedInv, LockInv, ClosingInv, EndpointInv, ~harm', [Next]_vars
    PROVE  EndpointInv'
    <1>. USE ConstantsAssumption DEF TypeOK, CreatedInv, ClosingInv, EndpointInv, files, locals, Live, Starting, StoreOpen
    <1>1. ASSUME NEW d \in Daemon, Open(d) PROVE EndpointInv'
        BY <1>1 DEF Open, Goto
    <1>2. ASSUME NEW d \in Daemon, Flock(d) PROVE EndpointInv'
        BY <1>2 DEF Flock, Goto
    <1>3. ASSUME NEW d \in Daemon, CheckLocked(d) PROVE EndpointInv'
        BY <1>3 DEF CheckLocked, Goto, Owned
    <1>4. ASSUME NEW d \in Daemon, Prepare(d) PROVE EndpointInv'
        BY <1>4 DEF Prepare, Goto, Owned
    <1>5. ASSUME NEW d \in Daemon, Mark(d) PROVE EndpointInv'
        BY <1>5 DEF Mark, Goto
    <1>6. ASSUME NEW d \in Daemon, MarkPart(d) PROVE EndpointInv'
        BY <1>6 DEF MarkPart, Goto
    <1>7. ASSUME NEW d \in Daemon, Probe(d) PROVE EndpointInv'
        BY <1>7 DEF Probe, Goto
    <1>8. ASSUME NEW d \in Daemon, Compare(d) PROVE EndpointInv'
        BY <1>8 DEF Compare, Goto, Owned
    <1>9. ASSUME NEW d \in Daemon, Unlink(d) PROVE EndpointInv'
        BY <1>9 DEF Unlink, Goto
    <1>10. ASSUME NEW d \in Daemon, OpenStore(d) PROVE EndpointInv'
        BY <1>10 DEF OpenStore, Goto
    <1>11. ASSUME NEW d \in Daemon, Bind(d) PROVE EndpointInv'
        BY <1>11 DEF Bind, Goto
    <1>12. ASSUME NEW d \in Daemon, Listen(d) PROVE EndpointInv'
        BY <1>12 DEF Listen, Goto
    <1>13. ASSUME NEW d \in Daemon, Disowned(d) PROVE EndpointInv'
        BY <1>13 DEF Disowned, Goto, Owned
    <1>14. ASSUME NEW d \in Daemon, CloseListener(d) PROVE EndpointInv'
        BY <1>14 DEF CloseListener, Goto
    <1>15. ASSUME NEW d \in Daemon, RemoveSocket(d) PROVE EndpointInv'
        BY <1>15 DEF RemoveSocket, Goto
    <1>16. ASSUME NEW d \in Daemon, CloseStore(d) PROVE EndpointInv'
        BY <1>16 DEF CloseStore, Goto
    <1>17. ASSUME NEW d \in Daemon, Release(d) PROVE EndpointInv'
        BY <1>17 DEF Release, Goto, Closed
    <1>18. ASSUME NEW d \in Daemon, StopServing(d) PROVE EndpointInv'
        BY <1>18 DEF StopServing, Goto
    <1>19. ASSUME NEW d \in Daemon, Crash(d) PROVE EndpointInv'
        BY <1>19 DEF Crash, Goto, Closed
    <1>20. CASE OldDaemonListens
        BY <1>20 DEF OldDaemonListens
    <1>21. CASE OldDaemonStops
        BY <1>21 DEF OldDaemonStops
    <1>22. CASE RemoveOldSocket
        BY <1>22 DEF RemoveOldSocket
    <1>23. CASE RemoveLock
        BY <1>23 DEF RemoveLock
    <1>24. CASE UNCHANGED vars
        BY <1>24 DEF vars
    <1>. QED
        BY <1>1, <1>2, <1>3, <1>4, <1>5, <1>6, <1>7, <1>8, <1>9, <1>10, <1>11, <1>12, <1>13,
           <1>14, <1>15, <1>16, <1>17, <1>18, <1>19, <1>20, <1>21, <1>22, <1>23, <1>24
        DEF Next, DaemonStep

\* Between probe and removal nobody can bind or listen at the path.
LEMMA NextProbe ==
    ASSUME TypeOK, CreatedInv, LockInv, ProbeInv, EndpointInv, OldInv, ~harm', [Next]_vars
    PROVE  ProbeInv'
    <1>. USE ConstantsAssumption, OneHolder DEF TypeOK, CreatedInv, LockInv, ProbeInv, EndpointInv, OldInv, OldDaemonAlive, Marked, files, locals, Live, Starting, StoreOpen
    <1>1. ASSUME NEW d \in Daemon, Open(d) PROVE ProbeInv'
        BY <1>1 DEF Open, Goto
    <1>2. ASSUME NEW d \in Daemon, Flock(d) PROVE ProbeInv'
        BY <1>2 DEF Flock, Goto
    <1>3. ASSUME NEW d \in Daemon, CheckLocked(d) PROVE ProbeInv'
        BY <1>3 DEF CheckLocked, Goto, Owned
    <1>4. ASSUME NEW d \in Daemon, Prepare(d) PROVE ProbeInv'
        BY <1>4 DEF Prepare, Goto, Owned
    <1>5. ASSUME NEW d \in Daemon, Mark(d) PROVE ProbeInv'
        BY <1>5 DEF Mark, Goto
    <1>6. ASSUME NEW d \in Daemon, MarkPart(d) PROVE ProbeInv'
        BY <1>6 DEF MarkPart, Goto
    <1>7. ASSUME NEW d \in Daemon, Probe(d) PROVE ProbeInv'
        BY <1>7 DEF Probe, Goto
    <1>8. ASSUME NEW d \in Daemon, Compare(d) PROVE ProbeInv'
        BY <1>8 DEF Compare, Goto, Owned
    <1>9. ASSUME NEW d \in Daemon, Unlink(d) PROVE ProbeInv'
        BY <1>9 DEF Unlink, Goto
    <1>10. ASSUME NEW d \in Daemon, OpenStore(d) PROVE ProbeInv'
        BY <1>10 DEF OpenStore, Goto
    <1>11. ASSUME NEW d \in Daemon, Bind(d) PROVE ProbeInv'
        BY <1>11 DEF Bind, Goto
    <1>12. ASSUME NEW d \in Daemon, Listen(d) PROVE ProbeInv'
        BY <1>12 DEF Listen, Goto
    <1>13. ASSUME NEW d \in Daemon, Disowned(d) PROVE ProbeInv'
        BY <1>13 DEF Disowned, Goto, Owned
    <1>14. ASSUME NEW d \in Daemon, CloseListener(d) PROVE ProbeInv'
        BY <1>14 DEF CloseListener, Goto
    <1>15. ASSUME NEW d \in Daemon, RemoveSocket(d) PROVE ProbeInv'
        BY <1>15 DEF RemoveSocket, Goto
    <1>16. ASSUME NEW d \in Daemon, CloseStore(d) PROVE ProbeInv'
        BY <1>16 DEF CloseStore, Goto
    <1>17. ASSUME NEW d \in Daemon, Release(d) PROVE ProbeInv'
        BY <1>17 DEF Release, Goto, Closed
    <1>18. ASSUME NEW d \in Daemon, StopServing(d) PROVE ProbeInv'
        BY <1>18 DEF StopServing, Goto
    <1>19. ASSUME NEW d \in Daemon, Crash(d) PROVE ProbeInv'
        BY <1>19 DEF Crash, Goto, Closed
    <1>20. CASE OldDaemonListens
        BY <1>20 DEF OldDaemonListens
    <1>21. CASE OldDaemonStops
        BY <1>21 DEF OldDaemonStops
    <1>22. CASE RemoveOldSocket
        BY <1>22 DEF RemoveOldSocket
    <1>23. CASE RemoveLock
        BY <1>23 DEF RemoveLock
    <1>24. CASE UNCHANGED vars
        BY <1>24 DEF vars
    <1>. QED
        BY <1>1, <1>2, <1>3, <1>4, <1>5, <1>6, <1>7, <1>8, <1>9, <1>10, <1>11, <1>12, <1>13,
           <1>14, <1>15, <1>16, <1>17, <1>18, <1>19, <1>20, <1>21, <1>22, <1>23, <1>24
        DEF Next, DaemonStep

\* An unmarked lock and a socket at the path keep every start out.
LEMMA NextOld ==
    ASSUME TypeOK, CreatedInv, LockInv, MarkInv, ClosingInv, OldInv, ~harm', [Next]_vars
    PROVE  OldInv'
    <1>. USE ConstantsAssumption DEF TypeOK, CreatedInv, LockInv, MarkInv, ClosingInv, OldInv, OldDaemonAlive, Marked, files, locals, Live, Starting, StoreOpen
    <1>1. ASSUME NEW d \in Daemon, Open(d) PROVE OldInv'
        BY <1>1 DEF Open, Goto
    <1>2. ASSUME NEW d \in Daemon, Flock(d) PROVE OldInv'
        BY <1>2 DEF Flock, Goto
    <1>3. ASSUME NEW d \in Daemon, CheckLocked(d) PROVE OldInv'
        BY <1>3 DEF CheckLocked, Goto, Owned
    <1>4. ASSUME NEW d \in Daemon, Prepare(d) PROVE OldInv'
        BY <1>4 DEF Prepare, Goto, Owned
    <1>5. ASSUME NEW d \in Daemon, Mark(d) PROVE OldInv'
        BY <1>5 DEF Mark, Goto
    <1>6. ASSUME NEW d \in Daemon, MarkPart(d) PROVE OldInv'
        BY <1>6 DEF MarkPart, Goto
    <1>7. ASSUME NEW d \in Daemon, Probe(d) PROVE OldInv'
        BY <1>7 DEF Probe, Goto
    <1>8. ASSUME NEW d \in Daemon, Compare(d) PROVE OldInv'
        BY <1>8 DEF Compare, Goto, Owned
    <1>9. ASSUME NEW d \in Daemon, Unlink(d) PROVE OldInv'
        BY <1>9 DEF Unlink, Goto
    <1>10. ASSUME NEW d \in Daemon, OpenStore(d) PROVE OldInv'
        BY <1>10 DEF OpenStore, Goto
    <1>11. ASSUME NEW d \in Daemon, Bind(d) PROVE OldInv'
        BY <1>11 DEF Bind, Goto
    <1>12. ASSUME NEW d \in Daemon, Listen(d) PROVE OldInv'
        BY <1>12 DEF Listen, Goto
    <1>13. ASSUME NEW d \in Daemon, Disowned(d) PROVE OldInv'
        BY <1>13 DEF Disowned, Goto, Owned
    <1>14. ASSUME NEW d \in Daemon, CloseListener(d) PROVE OldInv'
        BY <1>14 DEF CloseListener, Goto
    <1>15. ASSUME NEW d \in Daemon, RemoveSocket(d) PROVE OldInv'
        BY <1>15 DEF RemoveSocket, Goto
    <1>16. ASSUME NEW d \in Daemon, CloseStore(d) PROVE OldInv'
        BY <1>16 DEF CloseStore, Goto
    <1>17. ASSUME NEW d \in Daemon, Release(d) PROVE OldInv'
        BY <1>17 DEF Release, Goto, Closed
    <1>18. ASSUME NEW d \in Daemon, StopServing(d) PROVE OldInv'
        BY <1>18 DEF StopServing, Goto
    <1>19. ASSUME NEW d \in Daemon, Crash(d) PROVE OldInv'
        BY <1>19 DEF Crash, Goto, Closed
    <1>20. CASE OldDaemonListens
        BY <1>20 DEF OldDaemonListens
    <1>21. CASE OldDaemonStops
        BY <1>21 DEF OldDaemonStops
    <1>22. CASE RemoveOldSocket
        BY <1>22 DEF RemoveOldSocket
    <1>23. CASE RemoveLock
        BY <1>23 DEF RemoveLock
    <1>24. CASE UNCHANGED vars
        BY <1>24 DEF vars
    <1>. QED
        BY <1>1, <1>2, <1>3, <1>4, <1>5, <1>6, <1>7, <1>8, <1>9, <1>10, <1>11, <1>12, <1>13,
           <1>14, <1>15, <1>16, <1>17, <1>18, <1>19, <1>20, <1>21, <1>22, <1>23, <1>24
        DEF Next, DaemonStep

\* Only who marked the lock binds.
LEMMA NextReclaimable ==
    ASSUME TypeOK, CreatedInv, LockInv, MarkInv, LeftEndpointReclaimable, ~harm', [Next]_vars
    PROVE  LeftEndpointReclaimable'
    <1>. USE ConstantsAssumption DEF TypeOK, CreatedInv, LockInv, MarkInv, LeftEndpointReclaimable, Marked, files, locals, Live, Starting, StoreOpen
    <1>1. ASSUME NEW d \in Daemon, Open(d) PROVE LeftEndpointReclaimable'
        BY <1>1 DEF Open, Goto
    <1>2. ASSUME NEW d \in Daemon, Flock(d) PROVE LeftEndpointReclaimable'
        BY <1>2 DEF Flock, Goto
    <1>3. ASSUME NEW d \in Daemon, CheckLocked(d) PROVE LeftEndpointReclaimable'
        BY <1>3 DEF CheckLocked, Goto, Owned
    <1>4. ASSUME NEW d \in Daemon, Prepare(d) PROVE LeftEndpointReclaimable'
        BY <1>4 DEF Prepare, Goto, Owned
    <1>5. ASSUME NEW d \in Daemon, Mark(d) PROVE LeftEndpointReclaimable'
        BY <1>5 DEF Mark, Goto
    <1>6. ASSUME NEW d \in Daemon, MarkPart(d) PROVE LeftEndpointReclaimable'
        BY <1>6 DEF MarkPart, Goto
    <1>7. ASSUME NEW d \in Daemon, Probe(d) PROVE LeftEndpointReclaimable'
        BY <1>7 DEF Probe, Goto
    <1>8. ASSUME NEW d \in Daemon, Compare(d) PROVE LeftEndpointReclaimable'
        BY <1>8 DEF Compare, Goto, Owned
    <1>9. ASSUME NEW d \in Daemon, Unlink(d) PROVE LeftEndpointReclaimable'
        BY <1>9 DEF Unlink, Goto
    <1>10. ASSUME NEW d \in Daemon, OpenStore(d) PROVE LeftEndpointReclaimable'
        BY <1>10 DEF OpenStore, Goto
    <1>11. ASSUME NEW d \in Daemon, Bind(d) PROVE LeftEndpointReclaimable'
        BY <1>11 DEF Bind, Goto
    <1>12. ASSUME NEW d \in Daemon, Listen(d) PROVE LeftEndpointReclaimable'
        BY <1>12 DEF Listen, Goto
    <1>13. ASSUME NEW d \in Daemon, Disowned(d) PROVE LeftEndpointReclaimable'
        BY <1>13 DEF Disowned, Goto, Owned
    <1>14. ASSUME NEW d \in Daemon, CloseListener(d) PROVE LeftEndpointReclaimable'
        BY <1>14 DEF CloseListener, Goto
    <1>15. ASSUME NEW d \in Daemon, RemoveSocket(d) PROVE LeftEndpointReclaimable'
        BY <1>15 DEF RemoveSocket, Goto
    <1>16. ASSUME NEW d \in Daemon, CloseStore(d) PROVE LeftEndpointReclaimable'
        BY <1>16 DEF CloseStore, Goto
    <1>17. ASSUME NEW d \in Daemon, Release(d) PROVE LeftEndpointReclaimable'
        BY <1>17 DEF Release, Goto, Closed
    <1>18. ASSUME NEW d \in Daemon, StopServing(d) PROVE LeftEndpointReclaimable'
        BY <1>18 DEF StopServing, Goto
    <1>19. ASSUME NEW d \in Daemon, Crash(d) PROVE LeftEndpointReclaimable'
        BY <1>19 DEF Crash, Goto, Closed
    <1>20. CASE OldDaemonListens
        BY <1>20 DEF OldDaemonListens
    <1>21. CASE OldDaemonStops
        BY <1>21 DEF OldDaemonStops
    <1>22. CASE RemoveOldSocket
        BY <1>22 DEF RemoveOldSocket
    <1>23. CASE RemoveLock
        BY <1>23 DEF RemoveLock
    <1>24. CASE UNCHANGED vars
        BY <1>24 DEF vars
    <1>. QED
        BY <1>1, <1>2, <1>3, <1>4, <1>5, <1>6, <1>7, <1>8, <1>9, <1>10, <1>11, <1>12, <1>13,
           <1>14, <1>15, <1>16, <1>17, <1>18, <1>19, <1>20, <1>21, <1>22, <1>23, <1>24
        DEF Next, DaemonStep

-----------------------------------------------------------------------------
(***************************************************************************)
(* The invariant, and what follows from it.                                 *)
(***************************************************************************)

\* Harm is not undone.
LEMMA HarmStays == [Next]_vars /\ ~harm' => ~harm
    BY DEF Next, DaemonStep, vars, Open, Flock, CheckLocked, Prepare, Mark, MarkPart, Probe, Compare, Unlink,
           OpenStore, Bind, Listen, Disowned, StopServing, CloseListener, RemoveSocket, CloseStore, Release, Crash,
           OldDaemonListens, OldDaemonStops, RemoveOldSocket, RemoveLock

\* A home as an older version may have left it.
LEMMA InitInvariant == Init => IInv
    <1> SUFFICES ASSUME Init PROVE IInv
        OBVIOUS
    <1>. USE ConstantsAssumption DEF Init
    <1>1. TypeOK
        BY DEF TypeOK, Live, Starting, StoreOpen
    <1>2. CreatedInv /\ LeftEndpointReclaimable
        BY DEF CreatedInv, LeftEndpointReclaimable
    <1>3. LockInv /\ MarkInv /\ ClosingInv /\ ProbeInv
        BY DEF LockInv, MarkInv, ClosingInv, ProbeInv, Marked, StoreOpen
    <1>4. EndpointInv
        BY DEF EndpointInv, Live
    <1>5. OldInv
        BY DEF OldInv, OldDaemonAlive, Marked, StoreOpen, Live
    <1>. QED BY <1>1, <1>2, <1>3, <1>4, <1>5 DEF IInv, Unharmed

LEMMA NextInvariant == IInv /\ [Next]_vars => IInv'
    <1> SUFFICES ASSUME IInv, [Next]_vars PROVE IInv'
        OBVIOUS
    <1>1. TypeOK' /\ CreatedInv'
        BY NextType, NextCreated DEF IInv
    <1>2. CASE harm'
        BY <1>1, <1>2 DEF IInv, LeftEndpointReclaimable
    <1>3. CASE ~harm'
        <2>1. Unharmed
            BY <1>3, HarmStays DEF IInv
        <2>2. LockInv' /\ MarkInv' /\ ClosingInv'
            BY <1>3, <2>1, NextLock, NextMark, NextClosing DEF IInv, Unharmed
        <2>3. EndpointInv' /\ ProbeInv' /\ OldInv'
            BY <1>3, <2>1, NextEndpoint, NextProbe, NextOld DEF IInv, Unharmed
        <2>4. LeftEndpointReclaimable'
            BY <1>3, <2>1, NextReclaimable DEF IInv, Unharmed
        <2>. QED BY <1>1, <2>2, <2>3, <2>4 DEF IInv, Unharmed
    <1>. QED BY <1>2, <1>3

\* The lock, the marker and the endpoints agree in every state.
THEOREM Invariant == Spec => []IInv
    BY InitInvariant, NextInvariant, PTL DEF Spec

\* Types; and whoever is past the lock holds it (DaemonLock.__enter__).
THEOREM TypeCorrect == Spec => []TypeOK
    <1>1. IInv => TypeOK
        BY DEF IInv
    <1>. QED BY <1>1, Invariant, PTL

\* A set whose members are all the same has at most one.
LEMMA AtMostOne ==
    ASSUME NEW S, \A x, y \in S : x = y
    PROVE  Cardinality(S) <= 1
    <1>1. CASE S = {}
        BY <1>1, FS_EmptySet
    <1>2. CASE S # {}
        <2>1. PICK x \in S : TRUE
            BY <1>2
        <2>2. S = {x}
            BY <2>1
        <2>. QED BY <2>2, FS_Singleton
    <1>. QED BY <1>1, <1>2

\* At most one daemon has the store open, and none beside one of an older version;
\* after the lock file was removed, at most one passes the ownership check (serve,
\* DaemonLock).
THEOREM OneOwnerAlways == Spec => []OneOwner
    <1>1. ASSUME IInv PROVE OneOwner
        <2> DEFINE owners == {d \in Daemon : pc[d] \in StoreOpen}
        <2> DEFINE passing == {d \in owners : Owned(d)}
        <2>1. Cardinality(passing) <= 1
            <3>1. \A d, e \in passing : d = e
                BY <1>1, ConstantsAssumption DEF IInv, TypeOK, StoreOpen, Owned
            <3>. QED BY <3>1, AtMostOne
        <2>2. CASE ~harm
            <3>1. Unharmed /\ TypeOK
                BY <1>1, <2>2 DEF IInv
            <3>2. \A d, e \in owners : d = e
                BY <3>1, OneHolder DEF Unharmed, StoreOpen
            <3>3. Cardinality(owners) <= 1
                BY <3>2, AtMostOne
            <3>4. OldDaemonAlive => owners = {}
                BY <3>1 DEF Unharmed, OldInv, Marked
            <3>. QED BY <2>1, <3>3, <3>4 DEF OneOwner
        <2>. QED BY <2>1, <2>2 DEF OneOwner
    <1>. QED BY <1>1, Invariant, PTL

\* The endpoint that a crash leaves is under a marked lock (prepare_socket).
THEOREM LeftEndpointAlwaysReclaimable == Spec => []LeftEndpointReclaimable
    <1>1. IInv => LeftEndpointReclaimable
        BY DEF IInv
    <1>. QED BY <1>1, Invariant, PTL

\* No start and no stop removes a live endpoint (prepare_socket,
\* _remove_owned_socket).
THEOREM EndpointsAreKept == Spec => LiveEndpointKept
    <1> DEFINE Kept == ~harm /\ socketPath # None => (endpoint[socketPath] \in Live => socketPath' = socketPath)
    <1>1. ASSUME IInv, [Next]_vars PROVE Kept
        <2> SUFFICES ASSUME ~harm, socketPath # None, endpoint[socketPath] \in Live PROVE socketPath' = socketPath
            OBVIOUS
        <2>1. Unharmed /\ TypeOK
            BY <1>1 DEF IInv
        <2>2. ASSUME NEW d \in Daemon, Bind(d) PROVE socketPath' = socketPath
            BY <2>2 DEF Bind
        <2>3. ASSUME NEW d \in Daemon, Unlink(d) PROVE socketPath' = socketPath
            BY <2>1, <2>3 DEF Unlink, Unharmed, ProbeInv, Live
        <2>4. ASSUME NEW d \in Daemon, RemoveSocket(d) PROVE socketPath' = socketPath
            BY <2>1, <2>4 DEF RemoveSocket, Unharmed, ClosingInv, Live
        <2>5. CASE RemoveOldSocket
            BY <2>5 DEF RemoveOldSocket, Live
        <2>. QED
            BY <1>1, <2>2, <2>3, <2>4, <2>5
            DEF Next, DaemonStep, vars, files, Open, Flock, CheckLocked, Prepare, Mark, MarkPart, Probe, Compare,
                OpenStore, Listen, Disowned, StopServing, CloseListener, CloseStore, Release, Crash,
                OldDaemonListens, OldDaemonStops, RemoveLock
    <1>. QED BY <1>1, Invariant, PTL DEF Spec, LiveEndpointKept

=============================================================================
