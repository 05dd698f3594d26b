----------------------------- MODULE AuditStore -----------------------------
(***************************************************************************)
(* The transactional store and its audit chain (storage.py).  Several      *)
(* connections write one SQLite database.  Every mutation appends rows to   *)
(* the HMAC-chained table audit_events; after the SQL commit, and in a      *)
(* second transaction, the head of the chain is published to a file outside *)
(* the database, the anchor.  A row is represented by its mac alone: macs   *)
(* are fresh, so a mac stands for the whole prefix it authenticates.        *)
(***************************************************************************)
EXTENDS Naturals, Sequences, Functions

CONSTANTS Connection,  \* SQLite connections: the daemon, a second Store
          None,        \* no connection holds the write lock
          MaxMac,      \* bound: rows ever appended
          MaxTx        \* bound: rows appended by one transaction

ASSUME ConstantsAssumption ==
    /\ None \notin Connection
    /\ MaxMac \in Nat
    /\ MaxTx \in Nat

VARIABLES chain,       \* table audit_events, in audit_seq order
          intact,      \* every stored link and mac still verifies
          anchorFile,  \* what reading the anchor file gives
          anchor,      \* the anchor's content, when it is readable
          writer,      \* holder of the SQLite write lock
          pc,          \* pc[c]: where connection c stands
          tx,          \* tx[c]: rows appended by c's transaction
          seen,        \* seen[c]: rows c's verify has read
          report,      \* report[c]: what c's last verify returned
          fresh,       \* next unused mac
          acked,       \* history: rows of operations answered as committed
          synced,      \* history: ... as committed with a synced anchor
          denied,      \* history: rows of operations answered as failed
          harm         \* history: what the environment did to the files

store == <<chain, intact, anchorFile, anchor>>
history == <<fresh, acked, synced, denied, harm>>
vars == <<store, writer, pc, tx, seen, report, history>>

Mac == 0 .. MaxMac
Statuses == {"valid", "external_anchor_stale", "invalid_chain", "anchor_unavailable",
             "anchor_malformed", "database_tail_rollback", "anchor_mismatch"}

TypeOK ==
    /\ chain \in Seq(Mac)
    /\ intact \in BOOLEAN
    /\ anchorFile \in {"readable", "unavailable", "malformed"}
    /\ anchor \in [audit_seq: Nat, mac: Mac]
    /\ writer \in Connection \cup {None}
    /\ pc \in [Connection -> {"idle", "open", "committed", "syncing", "replaced", "verifying"}]
    /\ tx \in [Connection -> Seq(Mac)]
    /\ seen \in [Connection -> Seq(Mac)]
    /\ report \in [Connection -> Statuses \cup {"none"}]
    /\ fresh \in 1 .. MaxMac + 1
    /\ acked \subseteq Mac /\ synced \subseteq Mac /\ denied \subseteq Mac
    /\ harm \subseteq {"anchor", "rows", "restore"}
    /\ \A c \in Connection :
         writer = c <=> pc[c] \in {"open", "syncing", "replaced", "verifying"}

(***************************************************************************)
(* Reading the chain against the anchor.                                    *)
(***************************************************************************)

\* _verify_audit_raw over the given rows: the two kinds of a bad row are one.
AuditStatus(rows) ==
    CASE ~intact -> "invalid_chain"
      [] intact /\ anchorFile = "unavailable" -> "anchor_unavailable"
      [] intact /\ anchorFile = "malformed" -> "anchor_malformed"
      [] intact /\ anchorFile = "readable" ->
           IF anchor.audit_seq > Len(rows) THEN "database_tail_rollback"
           ELSE IF anchor.audit_seq > 0 /\ rows[anchor.audit_seq] # anchor.mac
                THEN "anchor_mismatch"
                ELSE IF anchor.audit_seq < Len(rows) THEN "external_anchor_stale"
                     ELSE "valid"

\* _require_reconcilable_audit
Reconcilable(rows) == AuditStatus(rows) \in {"valid", "external_anchor_stale"}

\* The value _sync_audit_head_raw writes: the CURRENT head.
AuditHead(rows) == [audit_seq |-> Len(rows),
                mac |-> IF rows = <<>> THEN 0 ELSE rows[Len(rows)]]

(***************************************************************************)
(* A vault that bootstrap left: one row, anchored.                          *)
(***************************************************************************)
Init ==
    /\ chain = <<0>>
    /\ intact = TRUE
    /\ anchorFile = "readable"
    /\ anchor = [audit_seq |-> 1, mac |-> 0]
    /\ writer = None
    /\ pc = [c \in Connection |-> "idle"]
    /\ tx = [c \in Connection |-> <<>>]
    /\ seen = [c \in Connection |-> <<>>]
    /\ report = [c \in Connection |-> "none"]
    /\ fresh = 1
    /\ acked = {} /\ synced = {} /\ denied = {}
    /\ harm = {}

Goto(c, label) == pc' = [pc EXCEPT ![c] = label]
Acquire(c) == writer = None /\ writer' = c
\* Mutant: a path returns without ending its transaction.
ReleaseForgotten(c) == writer = c /\ writer' = writer
Release(c) == writer = c /\ writer' = None

(***************************************************************************)
(* A mutation: begin, append_audit, commit(sync_audit=True) or rollback.    *)
(***************************************************************************)

\* Store.begin
Begin(c) ==
    /\ pc[c] = "idle"
    /\ Acquire(c)
    /\ Goto(c, "open")
    /\ UNCHANGED <<store, tx, seen, report, history>>

\* Store.append_audit inside the open transaction
AppendAudit(c) ==
    /\ pc[c] = "open"
    /\ Len(tx[c]) < MaxTx
    /\ fresh <= MaxMac
    /\ tx' = [tx EXCEPT ![c] = Append(@, fresh)]
    /\ fresh' = fresh + 1
    /\ UNCHANGED <<store, writer, pc, seen, report, acked, synced, denied, harm>>

\* The handler's except clause: any error before the SQL commit, or the commit's own.
Rollback(c) ==
    /\ pc[c] = "open"
    /\ Release(c)
    /\ Goto(c, "idle")
    /\ denied' = denied \cup Range(tx[c])
    /\ tx' = [tx EXCEPT ![c] = <<>>]
    /\ UNCHANGED <<store, seen, report, fresh, acked, synced, harm>>

\* Mutant: commit does not look at the chain and its anchor first.
CommitUnchecked(c) ==
    /\ pc[c] = "open"
    /\ Release(c)
    /\ chain' = chain \o tx[c]
    /\ Goto(c, "committed")
    /\ UNCHANGED <<intact, anchorFile, anchor, tx, seen, report, history>>

\* commit: the pending chain passes the check, SQLite commits, the lock is free.
SqlCommit(c) ==
    /\ pc[c] = "open"
    /\ Reconcilable(chain \o tx[c])
    /\ Release(c)
    /\ chain' = chain \o tx[c]
    /\ Goto(c, "committed")
    /\ UNCHANGED <<intact, anchorFile, anchor, tx, seen, report, history>>

\* Mutant: the check comes after the SQL commit.
RefusedAfterCommit(c) ==
    /\ pc[c] = "open"
    /\ ~Reconcilable(chain \o tx[c])
    /\ Release(c)
    /\ Goto(c, "idle")
    /\ chain' = chain \o tx[c]
    /\ denied' = denied \cup Range(tx[c])
    /\ tx' = [tx EXCEPT ![c] = <<>>]
    /\ UNCHANGED <<intact, anchorFile, anchor, seen, report, fresh, acked, synced, harm>>

\* commit: audit_recovery_refused, and the handler rolls back.
CommitRefused(c) ==
    /\ pc[c] = "open"
    /\ ~Reconcilable(chain \o tx[c])
    /\ Release(c)
    /\ Goto(c, "idle")
    /\ denied' = denied \cup Range(tx[c])
    /\ tx' = [tx EXCEPT ![c] = <<>>]
    /\ UNCHANGED <<store, seen, report, fresh, acked, synced, harm>>

(***************************************************************************)
(* sync_audit_head, after the SQL commit or for audit_reconcile.            *)
(***************************************************************************)

\* The SQL commit already happened: whatever fails now is CommittedAuditError.
Answer(c, anchored) ==
    /\ acked' = acked \cup Range(tx[c])
    /\ synced' = IF anchored THEN synced \cup Range(tx[c]) ELSE synced
    /\ tx' = [tx EXCEPT ![c] = <<>>]

\* audit_reconcile
ReconcileBegin(c) ==
    /\ pc[c] = "idle"
    /\ Acquire(c)
    /\ Goto(c, "syncing")
    /\ UNCHANGED <<store, tx, seen, report, history>>

\* BEGIN IMMEDIATE of sync_audit_head
SyncBegin(c) ==
    /\ pc[c] = "committed"
    /\ Acquire(c)
    /\ Goto(c, "syncing")
    /\ UNCHANGED <<store, tx, seen, report, history>>

\* Mutant: the wait for the write lock has no timeout.
NoBusyTimeout(c) == c \notin Connection /\ UNCHANGED vars

\* ... which another writer holds past the busy timeout
SyncBusy(c) ==
    /\ pc[c] = "committed"
    /\ writer # None
    /\ Goto(c, "idle")
    /\ Answer(c, FALSE)
    /\ UNCHANGED <<store, writer, seen, report, fresh, denied, harm>>

\* Mutant: any chain may be published.
PublishUnchecked(c) ==
    /\ pc[c] = "syncing"
    /\ anchor' = AuditHead(chain)
    /\ anchorFile' = "readable"
    /\ Goto(c, "replaced")
    /\ UNCHANGED <<chain, intact, writer, tx, seen, report, history>>

\* Mutant: the head captured at the connection's own commit is published.
PublishCapturedHead(c) ==
    /\ pc[c] = "syncing"
    /\ Reconcilable(chain)
    /\ anchor' = AuditHead(IF tx[c] = <<>> THEN chain
                           ELSE SubSeq(chain, 1, CHOOSE i \in DOMAIN chain : chain[i] = tx[c][Len(tx[c])]))
    /\ anchorFile' = "readable"
    /\ Goto(c, "replaced")
    /\ UNCHANGED <<chain, intact, writer, tx, seen, report, history>>

\* The check passes and os.replace publishes the head.
ReplaceAnchor(c) ==
    /\ pc[c] = "syncing"
    /\ Reconcilable(chain)
    /\ anchor' = AuditHead(chain)
    /\ anchorFile' = "readable"
    /\ Goto(c, "replaced")
    /\ UNCHANGED <<chain, intact, writer, tx, seen, report, history>>

\* Mutant: the rows are still uncommitted while the anchor is written.
SyncFailureUndoes(c) ==
    /\ pc[c] \in {"syncing", "replaced"}
    /\ Release(c)
    /\ Goto(c, "idle")
    /\ chain' = SubSeq(chain, 1, Len(chain) - Len(tx[c]))
    /\ Answer(c, FALSE)
    /\ UNCHANGED <<intact, anchorFile, anchor, seen, report, fresh, denied, harm>>

\* The check refuses, or the file operation or the second commit fails,
\* before or after the replacement took effect.
SyncFails(c) ==
    /\ pc[c] \in {"syncing", "replaced"}
    /\ Release(c)
    /\ Goto(c, "idle")
    /\ Answer(c, FALSE)
    /\ UNCHANGED <<store, seen, report, fresh, denied, harm>>

SyncDone(c) ==
    /\ pc[c] = "replaced"
    /\ Release(c)
    /\ Goto(c, "idle")
    /\ Answer(c, TRUE)
    /\ UNCHANGED <<store, seen, report, fresh, denied, harm>>

(***************************************************************************)
(* audit_verify: rows first, then the anchor, under the write lock.         *)
(***************************************************************************)

\* Mutant: verification reads without the write lock.
VerifyUnlocked(c) ==
    /\ pc[c] = "idle"
    /\ Goto(c, "verifying")
    /\ seen' = [seen EXCEPT ![c] = chain]
    /\ UNCHANGED <<store, writer, tx, report, history>>

VerifyRows(c) ==
    /\ pc[c] = "idle"
    /\ Acquire(c)
    /\ Goto(c, "verifying")
    /\ seen' = [seen EXCEPT ![c] = chain]
    /\ UNCHANGED <<store, tx, report, history>>

VerifyAnchor(c) ==
    /\ pc[c] = "verifying"
    /\ writer' = IF writer = c THEN None ELSE writer
    /\ Goto(c, "idle")
    /\ report' = [report EXCEPT ![c] = AuditStatus(seen[c])]
    /\ seen' = [seen EXCEPT ![c] = <<>>]
    /\ UNCHANGED <<store, tx, history>>

(***************************************************************************)
(* Failures.  A crash drops the connection: SQLite discards its open        *)
(* transaction and the system its lock.  Nobody is answered.                *)
(***************************************************************************)
Crash(c) ==
    /\ pc[c] # "idle"
    /\ Goto(c, "idle")
    /\ writer' = IF writer = c THEN None ELSE writer
    /\ tx' = [tx EXCEPT ![c] = <<>>]
    /\ seen' = [seen EXCEPT ![c] = <<>>]
    /\ UNCHANGED <<store, report, history>>

LoseAnchor ==
    /\ anchorFile' \in {"unavailable", "malformed"}
    /\ anchorFile = "readable"
    /\ harm' = harm \cup {"anchor"}
    /\ UNCHANGED <<chain, intact, anchor, writer, pc, tx, seen, report,
                   fresh, acked, synced, denied>>

DamageRows ==
    /\ intact
    /\ intact' = FALSE
    /\ harm' = harm \cup {"rows"}
    /\ UNCHANGED <<chain, anchorFile, anchor, writer, pc, tx, seen, report,
                   fresh, acked, synced, denied>>

\* An older copy of the database replaces the file while nothing has it open.
RestoreDatabase(n) ==
    /\ \A c \in Connection : pc[c] = "idle"
    /\ n < Len(chain)
    /\ chain' = SubSeq(chain, 1, n)
    /\ harm' = harm \cup {"restore"}
    /\ UNCHANGED <<intact, anchorFile, anchor, writer, pc, tx, seen, report,
                   fresh, acked, synced, denied>>

StoreStep(c) ==
    \/ AppendAudit(c) \/ Rollback(c) \/ SqlCommit(c) \/ CommitRefused(c)
    \/ SyncBegin(c) \/ SyncBusy(c) \/ ReplaceAnchor(c) \/ SyncFails(c) \/ SyncDone(c)
    \/ VerifyAnchor(c)

Next ==
    \/ \E c \in Connection : StoreStep(c)
    \/ \E c \in Connection : Begin(c) \/ ReconcileBegin(c) \/ VerifyRows(c) \/ Crash(c)
    \/ LoseAnchor
    \/ DamageRows
    \/ \E n \in 1 .. Len(chain) : RestoreDatabase(n)

Spec == Init /\ [][Next]_vars

\* A thread that is inside a store operation goes on: nothing in it waits
\* except for the write lock, and that wait has a timeout.
FairSpec == Spec /\ \A c \in Connection : WF_vars(StoreStep(c))

-----------------------------------------------------------------------------
(***************************************************************************)
(* Properties.                                                              *)
(***************************************************************************)

\* An operation answered as failed left no row behind, then or later: the
\* error after the SQL commit is never mistaken for one before it.
DeniedNeverCommitted == denied \cap Range(chain) = {}

\* An operation answered as committed, degraded or not, is in the chain
\* unless an older database was put in place of the current one.
AckedIsCommitted == "restore" \notin harm => acked \subseteq Range(chain)

\* A row whose commit was answered with a synced anchor never disappears
\* silently: if the chain lacks it, a verification says so, and goes on saying
\* so whatever is written after the older database came back.
SyncedNeverSilentlyLost == synced \subseteq Range(chain) \/ ~Reconcilable(chain)

\* No verification accuses a vault whose files nobody touched, whichever
\* commits and publications of the other connections it runs between.
NoFalseAlarm ==
    harm = {} => \A c \in Connection :
                    report[c] \in {"none", "valid", "external_anchor_stale"}

\* A publication never moves the anchor back: two connections may commit in
\* one order and publish in the other.
AnchorNeverRegresses == [][anchor'.audit_seq >= anchor.audit_seq]_vars

\* From a chain that cannot be reconciled with its anchor the store never
\* goes on: no row is committed, no anchor is published or made anew, so the
\* evidence stays.
EvidenceKept ==
    [][~Reconcilable(chain) => /\ Len(chain') <= Len(chain)
                               /\ anchor' = anchor
                               /\ anchorFile' = "readable" => anchorFile = "readable"]_vars

\* Every call of the store returns, and so gives up the write lock, however
\* the other connections contend for it and whichever path fails.
EveryCallReturns == \A c \in Connection : (pc[c] # "idle") ~> (pc[c] = "idle")

=============================================================================
