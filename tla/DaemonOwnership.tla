---------------------------- MODULE DaemonOwnership ----------------------------
(***************************************************************************)
(* Who owns a vault on POSIX (daemon_lock.py, serve and MemoryServer's       *)
(* construction and closing in daemon.py): daemons start, crash and stop     *)
(* around one persistent lock file and one socket path.  A path leads to an  *)
(* inode; inodes are told apart only while something keeps them, and are     *)
(* given out again when nothing does.  An endpoint left by a daemon from     *)
(* before the lock, dead or alive, may be there at the beginning.            *)
(***************************************************************************)
EXTENDS Naturals, FiniteSets

CONSTANTS Daemon,
          LockInode, SocketInode,  \* at least as many as there are daemons, and one more socket
          OldSocket,               \* the endpoint of a daemon from before the lock
          None

ASSUME ConstantsAssumption ==
    /\ OldSocket \in SocketInode
    /\ None \notin Daemon \cup LockInode \cup SocketInode

VARIABLES lockPath,    \* inode at memoryd.lock
          holder,      \* holder[l]: the daemon with the flock on inode l
          marker,      \* marker[l]: what inode l contains
          socketPath,  \* inode at memoryd.sock
          endpoint,    \* endpoint[s]: state of the socket with inode s
          pc,          \* pc[d]: progress of daemon d
          fd,          \* fd[d]: inode of d's descriptor of the lock file
          existing,    \* existing[d]: the socket d found and may reclaim
          created,     \* created[d]: the socket d bound
          harm         \* history: the owner removed the lock file

files == <<lockPath, holder, marker, socketPath, endpoint>>
locals == <<fd, existing, created>>
vars == <<files, pc, locals, harm>>

Live == {"bound", "listening"}
Starting == {"open", "locked", "prepare", "marking", "probe", "compare", "unlink", "store"}
StoreOpen == {"bind", "listen", "serving", "close", "remove", "close_store"}

TypeOK ==
    /\ lockPath \in LockInode \cup {None}
    /\ holder \in [LockInode -> Daemon \cup {None}]
    /\ marker \in [LockInode -> {"empty", "part", "full"}]
    /\ socketPath \in SocketInode \cup {None}
    /\ endpoint \in [SocketInode -> Live \cup {"dead"}]
    /\ pc \in [Daemon -> Starting \cup StoreOpen \cup {"off", "release"}]
    /\ fd \in [Daemon -> LockInode \cup {None}]
    /\ existing \in [Daemon -> SocketInode \cup {None}]
    /\ created \in [Daemon -> SocketInode \cup {None}]
    /\ harm \in BOOLEAN
    /\ \A d \in Daemon : /\ (pc[d] = "off") <=> (fd[d] = None)
                         /\ pc[d] \notin {"off", "open", "release"} => holder[fd[d]] = d

\* An upgrade from an older version may have left its endpoint, or still serve on it.
Init ==
    /\ lockPath = None
    /\ holder = [l \in LockInode |-> None]
    /\ marker = [l \in LockInode |-> "empty"]
    /\ socketPath \in {None, OldSocket}
    /\ \E old \in {"dead"} \cup (IF socketPath = None THEN {} ELSE Live) :
         endpoint = [s \in SocketInode |-> IF s = OldSocket THEN old ELSE "dead"]
    /\ pc = [d \in Daemon |-> "off"]
    /\ fd = [d \in Daemon |-> None]
    /\ existing = [d \in Daemon |-> None]
    /\ created = [d \in Daemon |-> None]
    /\ harm = FALSE

Goto(d, label) == pc' = [pc EXCEPT ![d] = label]

-----------------------------------------------------------------------------
(***************************************************************************)
(* DaemonLock                                                               *)
(***************************************************************************)

\* os.open with O_CREAT
Open(d) ==
    /\ pc[d] = "off"
    /\ \/ /\ lockPath # None
          /\ fd' = [fd EXCEPT ![d] = lockPath]
          /\ UNCHANGED <<lockPath, marker>>
       \/ /\ lockPath = None
          /\ \E l \in LockInode :
               /\ \A e \in Daemon : fd[e] # l
               /\ lockPath' = l
               /\ marker' = [marker EXCEPT ![l] = "empty"]
               /\ fd' = [fd EXCEPT ![d] = l]
    /\ Goto(d, "open")
    /\ UNCHANGED <<holder, socketPath, endpoint, existing, created, harm>>

\* flock LOCK_EX | LOCK_NB, or already_running
Flock(d) ==
    /\ pc[d] = "open"
    /\ IF holder[fd[d]] = None
       THEN holder' = [holder EXCEPT ![fd[d]] = d] /\ Goto(d, "locked")
       ELSE holder' = holder /\ Goto(d, "release")
    /\ UNCHANGED <<lockPath, marker, socketPath, endpoint, locals, harm>>

\* check: the path still leads to the inode that is locked.
Owned(d) == fd[d] = lockPath

\* The first thing that is done under the lock is to check it.
CheckLocked(d) ==
    /\ pc[d] = "locked"
    /\ Goto(d, IF Owned(d) THEN "prepare" ELSE "release")
    /\ UNCHANGED <<files, locals, harm>>

(***************************************************************************)
(* prepare_socket                                                           *)
(***************************************************************************)

\* Mutant: an unmarked lock adopts the socket that is there.
PrepareAdopting(d) ==
    /\ pc[d] = "prepare"
    /\ existing' = [existing EXCEPT ![d] = socketPath]
    /\ Goto(d, IF ~Owned(d) \/ marker[fd[d]] = "part" THEN "release"
               ELSE IF marker[fd[d]] = "empty" THEN "marking"
               ELSE IF socketPath = None THEN "store" ELSE "probe")
    /\ UNCHANGED <<files, fd, created, harm>>

\* The marker says whether a socket at the path can be one of a lock owner's.
Prepare(d) ==
    /\ pc[d] = "prepare"
    /\ existing' = [existing EXCEPT ![d] = socketPath]
    /\ Goto(d, IF ~Owned(d) \/ marker[fd[d]] = "part" THEN "release"
               ELSE IF marker[fd[d]] = "empty"
                    THEN IF socketPath = None THEN "marking" ELSE "release"
               ELSE IF socketPath = None THEN "store" ELSE "probe")
    /\ UNCHANGED <<files, fd, created, harm>>

\* Mutant: the marker is written when the daemon is ready to serve, not before.
MarkLater(d) ==
    /\ pc[d] = "marking"
    /\ Goto(d, "store")
    /\ UNCHANGED <<files, locals, harm>>

\* Written and flushed before any socket can be bound.
Mark(d) ==
    /\ pc[d] = "marking"
    /\ marker' = [marker EXCEPT ![fd[d]] = "full"]
    /\ Goto(d, IF existing[d] = None THEN "store" ELSE "probe")
    /\ UNCHANGED <<lockPath, holder, socketPath, endpoint, locals, harm>>

\* The write fails half way, or the daemon stops there.
MarkPart(d) ==
    /\ pc[d] = "marking"
    /\ marker' = [marker EXCEPT ![fd[d]] = "part"]
    /\ Goto(d, "release")
    /\ UNCHANGED <<lockPath, holder, socketPath, endpoint, locals, harm>>

\* Only a refused connection shows that nobody listens.
Probe(d) ==
    /\ pc[d] = "probe"
    /\ Goto(d, IF socketPath # None /\ endpoint[socketPath] # "listening" THEN "compare" ELSE "release")
    /\ UNCHANGED <<files, locals, harm>>

Compare(d) ==
    /\ pc[d] = "compare"
    /\ Goto(d, IF Owned(d) /\ socketPath = existing[d] THEN "unlink" ELSE "release")
    /\ UNCHANGED <<files, locals, harm>>

\* ... then the path is unlinked, whatever it leads to by now.
Unlink(d) ==
    /\ pc[d] = "unlink"
    /\ socketPath' = None
    /\ Goto(d, IF socketPath = None THEN "release" ELSE "store")
    /\ UNCHANGED <<lockPath, holder, marker, endpoint, locals, harm>>

(***************************************************************************)
(* serve, and MemoryServer                                                  *)
(***************************************************************************)

\* Store(data_dir) opens, or refuses.
OpenStore(d) ==
    /\ pc[d] = "store"
    /\ \E next \in {"bind", "release"} : Goto(d, next)
    /\ UNCHANGED <<files, locals, harm>>

\* A new socket inode, unless the path is taken.
Bind(d) ==
    /\ pc[d] = "bind"
    /\ \/ /\ socketPath = None
          /\ \E s \in SocketInode :
               /\ endpoint[s] = "dead"
               /\ endpoint' = [endpoint EXCEPT ![s] = "bound"]
               /\ socketPath' = s
               /\ created' = [created EXCEPT ![d] = s]
          /\ Goto(d, "listen")
       \/ /\ socketPath # None
          /\ Goto(d, "close")
          /\ UNCHANGED <<endpoint, socketPath, created>>
    /\ UNCHANGED <<lockPath, holder, marker, fd, existing, harm>>

Listen(d) ==
    /\ pc[d] = "listen"
    /\ IF socketPath = created[d]
       THEN endpoint' = [endpoint EXCEPT ![created[d]] = "listening"] /\ Goto(d, "serving")
       ELSE endpoint' = endpoint /\ Goto(d, "close")
    /\ UNCHANGED <<lockPath, holder, marker, socketPath, locals, harm>>

\* ownership_check, on every turn of serve_forever
Disowned(d) ==
    /\ pc[d] = "serving"
    /\ ~Owned(d)
    /\ Goto(d, "close")
    /\ UNCHANGED <<files, locals, harm>>

\* A signal, or any error of the loop.
StopServing(d) ==
    /\ pc[d] = "serving"
    /\ Goto(d, "close")
    /\ UNCHANGED <<files, locals, harm>>

\* server_close: the listener first ...
CloseListener(d) ==
    /\ pc[d] = "close"
    /\ endpoint' = IF created[d] = None THEN endpoint ELSE [endpoint EXCEPT ![created[d]] = "dead"]
    /\ Goto(d, "remove")
    /\ UNCHANGED <<lockPath, holder, marker, socketPath, locals, harm>>

\* ... then the socket's path, if it is still this daemon's.  The look and the
\* removal are one step: whoever could bind in between needs the lock first.
RemoveSocket(d) ==
    /\ pc[d] = "remove"
    /\ socketPath' = IF socketPath = created[d] THEN None ELSE socketPath
    /\ created' = [created EXCEPT ![d] = None]
    /\ Goto(d, "close_store")
    /\ UNCHANGED <<lockPath, holder, marker, endpoint, fd, existing, harm>>

\* Mutant: the lock is given up before the store is closed.
CloseStoreLast(d) ==
    /\ pc[d] = "close_store"
    /\ \/ /\ holder[fd[d]] = d
          /\ holder' = [holder EXCEPT ![fd[d]] = None]
          /\ pc' = pc
       \/ /\ holder[fd[d]] # d
          /\ holder' = holder
          /\ Goto(d, "release")
    /\ UNCHANGED <<lockPath, marker, socketPath, endpoint, locals, harm>>

CloseStore(d) ==
    /\ pc[d] = "close_store"
    /\ Goto(d, "release")
    /\ UNCHANGED <<files, locals, harm>>

\* The descriptor is closed, and with it the lock released.
Closed(d) ==
    /\ holder' = [l \in LockInode |-> IF holder[l] = d THEN None ELSE holder[l]]
    /\ fd' = [fd EXCEPT ![d] = None]
    /\ existing' = [existing EXCEPT ![d] = None]
    /\ Goto(d, "off")

Release(d) ==
    /\ pc[d] = "release"
    /\ Closed(d)
    /\ UNCHANGED <<lockPath, marker, socketPath, endpoint, created, harm>>

\* The system closes everything; the paths stay.
Crash(d) ==
    /\ pc[d] # "off"
    /\ Closed(d)
    /\ created' = [created EXCEPT ![d] = None]
    /\ endpoint' = IF created[d] = None THEN endpoint ELSE [endpoint EXCEPT ![created[d]] = "dead"]
    /\ UNCHANGED <<lockPath, marker, socketPath, harm>>

-----------------------------------------------------------------------------
(***************************************************************************)
(* The daemon of the older version, and the owner.                          *)
(***************************************************************************)
OldDaemonListens ==
    /\ endpoint[OldSocket] = "bound"
    /\ \A d \in Daemon : created[d] # OldSocket
    /\ endpoint' = [endpoint EXCEPT ![OldSocket] = "listening"]
    /\ UNCHANGED <<lockPath, holder, marker, socketPath, pc, locals, harm>>

OldDaemonStops ==
    /\ endpoint[OldSocket] \in Live
    /\ \A d \in Daemon : created[d] # OldSocket
    /\ endpoint' = [endpoint EXCEPT ![OldSocket] = "dead"]
    /\ UNCHANGED <<lockPath, holder, marker, socketPath, pc, locals, harm>>

\* The upgrade procedure removes the old endpoint once its daemon has stopped.
RemoveOldSocket ==
    /\ socketPath = OldSocket
    /\ endpoint[OldSocket] = "dead"
    /\ \A d \in Daemon : pc[d] = "off"
    /\ socketPath' = None
    /\ UNCHANGED <<lockPath, holder, marker, endpoint, pc, locals, harm>>

RemoveLock ==
    /\ lockPath # None
    /\ lockPath' = None
    /\ harm' = TRUE
    /\ UNCHANGED <<holder, marker, socketPath, endpoint, pc, locals>>

DaemonStep(d) ==
    \/ Open(d) \/ Flock(d) \/ CheckLocked(d)
    \/ Prepare(d) \/ Mark(d) \/ MarkPart(d) \/ Probe(d) \/ Compare(d) \/ Unlink(d)
    \/ OpenStore(d) \/ Bind(d) \/ Listen(d) \/ Disowned(d)
    \/ CloseListener(d) \/ RemoveSocket(d) \/ CloseStore(d) \/ Release(d)

Next ==
    \/ \E d \in Daemon : DaemonStep(d) \/ StopServing(d) \/ Crash(d)
    \/ OldDaemonListens \/ OldDaemonStops \/ RemoveOldSocket \/ RemoveLock

Spec == Init /\ [][Next]_vars

-----------------------------------------------------------------------------
(***************************************************************************)
(* Properties.                                                              *)
(***************************************************************************)

OldDaemonAlive ==
    endpoint[OldSocket] \in Live /\ \A d \in Daemon : created[d] # OldSocket

\* As long as nobody removes the lock file, at most one daemon has the store
\* open, however starts, crashes and stops overlap, and none does while a
\* daemon of the older version serves; and whatever was removed, at most one
\* passes the ownership check, so that any other stops at its next turn.
OneOwner ==
    LET owners == {d \in Daemon : pc[d] \in StoreOpen}
    IN  /\ Cardinality({d \in owners : Owned(d)}) <= 1
        /\ harm \/ (Cardinality(owners) <= 1 /\ (OldDaemonAlive => owners = {}))

\* A live endpoint stays at its path: no start takes it for a stale one, though
\* the probe, the comparison and the removal are separate steps, and no stop
\* removes the endpoint of its successor.
LiveEndpointKept ==
    [][~harm /\ socketPath # None => (endpoint[socketPath] \in Live => socketPath' = socketPath)]_vars

\* An endpoint never locks the next start out: the one that a lock owner leaves
\* behind, in a crash or not, is under a marked lock, so that it may be reclaimed.
\* (A crash inside the write of the marker is another matter: it leaves no
\* endpoint, and a part of a marker that later starts refuse.)
LeftEndpointReclaimable ==
    \/ harm
    \/ socketPath \in {None, OldSocket}
    \/ lockPath # None /\ marker[lockPath] = "full"

=============================================================================
