-------------------------- MODULE MCDaemonOwnership --------------------------
(* Two daemons contend around the endpoint of an older one.  Whoever creates the *)
(* lock file holds none, so two inodes always leave one to be given out again;   *)
(* three sockets let a new socket be told from both earlier ones, or not.        *)
EXTENDS DaemonOwnership

CONSTANTS d1, d2, l1, l2, s1, s2, s3
=============================================================================
