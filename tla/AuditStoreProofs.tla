-------------------------- MODULE AuditStoreProofs --------------------------
(***************************************************************************)
(* Proofs about AuditStore, for any number of connections and rows.         *)
(***************************************************************************)
EXTENDS AuditStore, TLAPS

-----------------------------------------------------------------------------
(***************************************************************************)
(* Sequences of macs.                                                       *)
(***************************************************************************)

\* The elements of a sequence, by their places.
LEMMA RangeOfSequence ==
    ASSUME NEW S, NEW s \in Seq(S)
    PROVE  /\ Range(s) \subseteq S
           /\ \A i \in 1 .. Len(s) : s[i] \in Range(s)
           /\ \A m \in Range(s) : \E i \in 1 .. Len(s) : s[i] = m
    BY DEF Range

\* A transaction that has appended nothing has no rows.
LEMMA RangeOfEmpty == Range(<<>>) = {}
    BY DEF Range

\* What append_audit adds to the rows of a transaction.
LEMMA RangeOfAppend ==
    ASSUME NEW S, NEW s \in Seq(S), NEW m \in S
    PROVE  Append(s, m) \in Seq(S) /\ Range(Append(s, m)) = Range(s) \cup {m}
    <1> DEFINE t == Append(s, m)
    <1>1. /\ t \in Seq(S) /\ Len(t) = Len(s) + 1
          /\ \A i \in 1 .. Len(s) : t[i] = s[i]
          /\ t[Len(s) + 1] = m
        OBVIOUS
    <1>2. DOMAIN s = 1 .. Len(s) /\ DOMAIN t = 1 .. Len(s) + 1 /\ Len(s) \in Nat
        BY <1>1
    <1>3. Range(t) \subseteq Range(s) \cup {m}
        BY <1>1, <1>2 DEF Range
    <1>4. Range(s) \subseteq Range(t)
        BY <1>1, <1>2 DEF Range
    <1>5. m \in Range(t)
        BY <1>1, <1>2 DEF Range
    <1>. QED BY <1>1, <1>3, <1>4, <1>5

\* What a commit makes of the chain: the old rows keep their places.
LEMMA RangeOfConcat ==
    ASSUME NEW S, NEW s \in Seq(S), NEW t \in Seq(S)
    PROVE  /\ s \o t \in Seq(S) /\ Len(s \o t) = Len(s) + Len(t)
           /\ \A i \in 1 .. Len(s) : (s \o t)[i] = s[i]
           /\ \A i \in Len(s) + 1 .. Len(s) + Len(t) : (s \o t)[i] \in Range(t)
           /\ Range(s \o t) = Range(s) \cup Range(t)
    <1> DEFINE u == s \o t
    <1>1. /\ u \in Seq(S) /\ Len(u) = Len(s) + Len(t)
          /\ \A i \in 1 .. Len(s) : u[i] = s[i]
          /\ \A i \in Len(s) + 1 .. Len(s) + Len(t) : u[i] = t[i - Len(s)]
          /\ \A j \in 1 .. Len(t) : u[j + Len(s)] = t[j]
        OBVIOUS
    <1>2. /\ DOMAIN s = 1 .. Len(s) /\ DOMAIN t = 1 .. Len(t) /\ DOMAIN u = 1 .. Len(s) + Len(t)
          /\ Len(s) \in Nat /\ Len(t) \in Nat
        BY <1>1
    <1>3. \A i \in Len(s) + 1 .. Len(s) + Len(t) : u[i] \in Range(t)
        BY <1>1, <1>2 DEF Range
    <1>4. Range(u) \subseteq Range(s) \cup Range(t)
        BY <1>1, <1>2 DEF Range
    <1>5. Range(s) \subseteq Range(u)
        BY <1>1, <1>2 DEF Range
    <1>6. Range(t) \subseteq Range(u)
        <2>1. SUFFICES ASSUME NEW j \in 1 .. Len(t) PROVE t[j] \in Range(u)
            BY <1>2 DEF Range
        <2>2. j + Len(s) \in DOMAIN u /\ u[j + Len(s)] = t[j]
            BY <1>1, <1>2
        <2>. QED BY <2>2 DEF Range
    <1>. QED BY <1>1, <1>3, <1>4, <1>5, <1>6

\* What an older copy of the database has of the chain.
LEMMA RangeOfPrefix ==
    ASSUME NEW S, NEW s \in Seq(S), NEW n \in 1 .. Len(s)
    PROVE  /\ SubSeq(s, 1, n) \in Seq(S) /\ Len(SubSeq(s, 1, n)) = n
           /\ \A i \in 1 .. n : SubSeq(s, 1, n)[i] = s[i]
           /\ Range(SubSeq(s, 1, n)) \subseteq Range(s)
    <1> DEFINE u == SubSeq(s, 1, n)
    <1>1. u \in Seq(S) /\ Len(u) = n /\ \A i \in 1 .. n : u[i] = s[i]
        OBVIOUS
    <1>2. DOMAIN u = 1 .. n /\ DOMAIN s = 1 .. Len(s)
        BY <1>1
    <1>. QED BY <1>1, <1>2 DEF Range

-----------------------------------------------------------------------------
(***************************************************************************)
(* Type correctness and the discipline of the write lock.                   *)
(***************************************************************************)

\* A bootstrapped vault is well formed.
LEMMA InitType == Init => TypeOK
    <1>1. <<0>> \in Seq(Mac) /\ 0 \in Mac
        BY ConstantsAssumption DEF Mac
    <1>. QED BY <1>1, ConstantsAssumption DEF Init, TypeOK

\* Every operation, failure and loss leaves the stored state well formed.
LEMMA NextType == TypeOK /\ [Next]_vars => TypeOK'
    <1>. SUFFICES ASSUME TypeOK, [Next]_vars PROVE TypeOK'
        OBVIOUS
    <1>. USE ConstantsAssumption DEF TypeOK
    <1>rows. \A c \in Connection : Range(tx[c]) \subseteq Mac
        BY RangeOfSequence
    <1>head. AuditHead(chain) \in [audit_seq: Nat, mac: Mac]
        BY DEF AuditHead, Mac
    <1>status. \A c \in Connection : AuditStatus(seen[c]) \in Statuses
        BY DEF AuditStatus, Statuses
    <1>empty. <<>> \in Seq(Mac)
        OBVIOUS
    <1>1. ASSUME NEW c \in Connection, AppendAudit(c) PROVE TypeOK'
        BY <1>1 DEF AppendAudit, store, Mac
    <1>2. ASSUME NEW c \in Connection, Rollback(c) PROVE TypeOK'
        BY <1>2, <1>rows, <1>empty DEF Rollback, store, Release, Goto
    <1>3. ASSUME NEW c \in Connection, SqlCommit(c) PROVE TypeOK'
        BY <1>3 DEF SqlCommit, Release, Goto, history
    <1>4. ASSUME NEW c \in Connection, CommitRefused(c) PROVE TypeOK'
        BY <1>4, <1>rows, <1>empty DEF CommitRefused, store, Release, Goto
    <1>5. ASSUME NEW c \in Connection, SyncBegin(c) PROVE TypeOK'
        BY <1>5 DEF SyncBegin, store, history, Acquire, Goto
    <1>6. ASSUME NEW c \in Connection, SyncBusy(c) PROVE TypeOK'
        BY <1>6, <1>rows, <1>empty DEF SyncBusy, store, Answer, Goto
    <1>7. ASSUME NEW c \in Connection, ReplaceAnchor(c) PROVE TypeOK'
        BY <1>7, <1>head DEF ReplaceAnchor, history, Goto
    <1>8. ASSUME NEW c \in Connection, SyncFails(c) PROVE TypeOK'
        BY <1>8, <1>rows, <1>empty DEF SyncFails, store, Release, Goto, Answer
    <1>9. ASSUME NEW c \in Connection, SyncDone(c) PROVE TypeOK'
        BY <1>9, <1>rows, <1>empty DEF SyncDone, store, Release, Goto, Answer
    <1>10. ASSUME NEW c \in Connection, VerifyAnchor(c) PROVE TypeOK'
        BY <1>10, <1>status, <1>empty DEF VerifyAnchor, store, history, Goto
    <1>11. ASSUME NEW c \in Connection, Begin(c) PROVE TypeOK'
        BY <1>11 DEF Begin, store, history, Acquire, Goto
    <1>12. ASSUME NEW c \in Connection, ReconcileBegin(c) PROVE TypeOK'
        BY <1>12 DEF ReconcileBegin, store, history, Acquire, Goto
    <1>13. ASSUME NEW c \in Connection, VerifyRows(c) PROVE TypeOK'
        BY <1>13 DEF VerifyRows, store, history, Acquire, Goto
    <1>14. ASSUME NEW c \in Connection, Crash(c) PROVE TypeOK'
        BY <1>14 DEF Crash, store, history, Goto
    <1>15. CASE LoseAnchor
        BY <1>15 DEF LoseAnchor
    <1>16. CASE DamageRows
        BY <1>16 DEF DamageRows
    <1>17. ASSUME NEW n \in 1 .. Len(chain), RestoreDatabase(n) PROVE TypeOK'
        BY <1>17, RangeOfPrefix DEF RestoreDatabase
    <1>18. CASE UNCHANGED vars
        BY <1>18 DEF vars, store, history
    <1>. QED
        BY <1>1, <1>2, <1>3, <1>4, <1>5, <1>6, <1>7, <1>8, <1>9, <1>10, <1>11, <1>12, <1>13, <1>14, <1>15, <1>16, <1>17, <1>18 DEF Next, StoreStep

\* The stored state stays well formed, and a connection holds the write lock
\* exactly while it is inside a transaction, for any number of connections.
THEOREM TypeCorrect == Spec => []TypeOK
    BY InitType, NextType, PTL DEF Spec

-----------------------------------------------------------------------------
(***************************************************************************)
(* The inductive invariant.                                                 *)
(***************************************************************************)

\* A mac is used once: what is written anywhere is older than the next one.
FreshInv ==
    /\ \A m \in Range(chain) \cup denied : m < fresh
    /\ \A c \in Connection : \A m \in Range(tx[c]) : m < fresh
    /\ anchor.mac < fresh

\* The rows of an open transaction are nowhere else; those of a transaction that
\* is past its SQL commit are in the chain; there are none without a transaction.
PendingInv ==
    \A c \in Connection :
        /\ pc[c] \in {"idle", "verifying"} => tx[c] = <<>>
        /\ pc[c] = "open" =>
             \A m \in Range(tx[c]) : m \notin Range(chain) /\ m \notin denied /\ m # anchor.mac
        /\ pc[c] \in {"committed", "syncing", "replaced"} => Range(tx[c]) \subseteq Range(chain)

\* The given rows are in the prefix of the chain that the anchor names.
InPrefix(rows) == \A m \in rows : \E i \in 1 .. anchor.audit_seq : chain[i] = m

Anchored ==
    /\ anchor.audit_seq <= Len(chain)
    /\ anchor.audit_seq > 0 => chain[anchor.audit_seq] = anchor.mac
    /\ InPrefix(synced)

\* Either the anchor names a prefix of the chain and everything answered as
\* synced is in it, or the chain is too short for the anchor.
AnchorInv ==
    /\ Anchored \/ Len(chain) < anchor.audit_seq
    /\ \A c \in Connection : pc[c] = "replaced" => Anchored /\ InPrefix(Range(tx[c]))

\* What a verification read is still the chain, and nothing is wrong with files
\* that nobody touched.
QuietInv ==
    /\ \A c \in Connection : pc[c] = "verifying" => seen[c] = chain
    /\ harm = {} => intact /\ anchorFile = "readable" /\ Anchored

IInv ==
    /\ TypeOK
    /\ FreshInv
    /\ PendingInv
    /\ DeniedNeverCommitted
    /\ AckedIsCommitted
    /\ AnchorInv
    /\ QuietInv
    /\ NoFalseAlarm

\* The strengthened invariant holds of a bootstrapped vault ...
LEMMA InitInvariant == Init => IInv
    <1>. SUFFICES ASSUME Init PROVE IInv
        OBVIOUS
    <1>1. Range(chain) = {0} /\ \A c \in Connection : Range(tx[c]) = {}
        BY RangeOfEmpty DEF Init, Range
    <1>. QED
        BY <1>1, InitType DEF Init, IInv, FreshInv, PendingInv, DeniedNeverCommitted, AckedIsCommitted,
                              AnchorInv, Anchored, InPrefix, QuietInv, NoFalseAlarm

\* ... and is inductive: one step per action of storage.py and its environment.
LEMMA NextInvariant == IInv /\ [Next]_vars => IInv'
    <1>. SUFFICES ASSUME IInv, [Next]_vars PROVE IInv'
        OBVIOUS
    <1>. USE ConstantsAssumption
    <1>type. TypeOK'
        BY NextType DEF IInv
    <1>empty. Range(<<>>) = {}
        BY RangeOfEmpty
    <1>1. ASSUME NEW c \in Connection, AppendAudit(c) PROVE IInv'
        <2>a. /\ tx'[c] = Append(tx[c], fresh) /\ \A d \in Connection \ {c} : tx'[d] = tx[d]
              /\ fresh' = fresh + 1 /\ fresh \in Mac
            BY <1>1 DEF AppendAudit, IInv, TypeOK, Mac
        <2>b. Range(tx'[c]) = Range(tx[c]) \cup {fresh}
            BY <2>a, RangeOfAppend DEF IInv, TypeOK
        <2>d. /\ fresh \in Nat /\ anchor.mac \in Nat
              /\ Range(chain) \cup denied \subseteq Nat /\ \A d \in Connection : Range(tx[d]) \subseteq Nat
            <3>1. Range(chain) \subseteq Mac /\ \A d \in Connection : Range(tx[d]) \subseteq Mac
                BY RangeOfSequence DEF IInv, TypeOK
            <3>2. Mac \subseteq Nat
                BY DEF Mac
            <3>3. anchor.mac \in Mac /\ denied \subseteq Mac
                BY DEF IInv, TypeOK
            <3>4. fresh \in Nat
                BY DEF IInv, TypeOK
            <3>5. Range(chain) \cup denied \subseteq Nat
                BY <3>1, <3>2, <3>3
            <3>6. \A d \in Connection : Range(tx[d]) \subseteq Nat
                BY <3>1, <3>2
            <3>. QED BY <3>2, <3>3, <3>4, <3>5, <3>6
        <2>f. fresh \notin Range(chain) /\ fresh \notin denied /\ fresh # anchor.mac
            BY <2>d DEF IInv, FreshInv
        <2>1. FreshInv'
            <3>1. UNCHANGED <<chain, denied, anchor>>
                BY <1>1 DEF AppendAudit, store
            <3>2. \A m \in Nat : m < fresh => m < fresh'
                BY <2>a, <2>d
            <3>3. fresh < fresh'
                BY <2>a, <2>d
            <3>. QED BY <2>a, <2>b, <2>d, <3>1, <3>2, <3>3 DEF IInv, FreshInv
        <2>2. PendingInv'
            BY <1>1, <1>type, <2>a, <2>b, <2>f DEF IInv, TypeOK, FreshInv, PendingInv, AppendAudit, store
        <2>3. DeniedNeverCommitted' /\ AckedIsCommitted' /\ AnchorInv' /\ QuietInv' /\ NoFalseAlarm'
            BY <1>1, <1>type, <1>empty DEF IInv, TypeOK, AppendAudit, store,
                   PendingInv, DeniedNeverCommitted, AckedIsCommitted, AnchorInv, Anchored, InPrefix, QuietInv, NoFalseAlarm
        <2>. QED BY <1>type, <2>1, <2>2, <2>3 DEF IInv
    <1>2. ASSUME NEW c \in Connection, Rollback(c) PROVE IInv'
        BY <1>2, <1>type, <1>empty DEF IInv, TypeOK, Rollback, store, Release, Goto,
               FreshInv, PendingInv, DeniedNeverCommitted, AckedIsCommitted, AnchorInv, Anchored, InPrefix, QuietInv, NoFalseAlarm
    <1>3. ASSUME NEW c \in Connection, SqlCommit(c) PROVE IInv'
        <2>a. /\ pc[c] = "open" /\ chain' = chain \o tx[c] /\ pc'[c] = "committed"
              /\ UNCHANGED <<anchor, tx, fresh, denied, acked>>
              /\ \A d \in Connection \ {c} : pc'[d] = pc[d] /\ pc[d] \in {"idle", "committed"}
            BY <1>3 DEF SqlCommit, Release, Goto, history, IInv, TypeOK
        <2>b. /\ Len(chain') = Len(chain) + Len(tx[c]) /\ Len(chain) \in Nat /\ Len(tx[c]) \in Nat
              /\ \A i \in 1 .. Len(chain) : chain'[i] = chain[i]
              /\ \A i \in Len(chain) + 1 .. Len(chain') : chain'[i] \in Range(tx[c])
              /\ Range(chain') = Range(chain) \cup Range(tx[c])
            BY <2>a, RangeOfConcat DEF IInv, TypeOK
        <2>d. anchor.audit_seq \in Nat /\ anchor.audit_seq <= Len(chain')
              /\ (anchor.audit_seq > 0 => chain'[anchor.audit_seq] = anchor.mac)
            BY <1>3, <2>a DEF SqlCommit, Reconcilable, AuditStatus, IInv, TypeOK
        \* No row of this transaction is the anchored one: the chain was long enough.
        <2>e. anchor.mac \notin Range(tx[c])
            BY <2>a DEF IInv, PendingInv
        <2>f. anchor.audit_seq <= Len(chain)
            BY <2>b, <2>d, <2>e
        <2>1. FreshInv'
            BY <1>3, <1>type, <2>a, <2>b DEF IInv, TypeOK, FreshInv, SqlCommit, Release, Goto, history
        <2>2. PendingInv'
            BY <1>3, <1>type, <2>a, <2>b DEF IInv, TypeOK, FreshInv, PendingInv, SqlCommit, Release, Goto, history
        <2>3. DeniedNeverCommitted'
            BY <1>3, <1>type, <2>a, <2>b DEF IInv, TypeOK, PendingInv, DeniedNeverCommitted, SqlCommit, Release, Goto, history
        <2>4. AckedIsCommitted'
            BY <1>3, <1>type, <2>a, <2>b DEF IInv, TypeOK, PendingInv, AckedIsCommitted, SqlCommit, Release, Goto, history
        <2>5. AnchorInv'
            BY <1>3, <1>type, <2>a, <2>b, <2>d, <2>f DEF IInv, TypeOK, PendingInv, AnchorInv, Anchored, InPrefix, SqlCommit, Release, Goto, history
        <2>6. QuietInv'
            BY <1>3, <1>type, <2>a, <2>b, <2>d, <2>f DEF IInv, TypeOK, QuietInv, AnchorInv, Anchored, InPrefix, SqlCommit, Release, Goto, history
        <2>7. NoFalseAlarm'
            BY <1>3, <1>type, <1>empty DEF IInv, TypeOK, SqlCommit, Release, Goto, history,
                   NoFalseAlarm, QuietInv, Anchored
        <2>. QED BY <1>type, <2>1, <2>2, <2>3, <2>4, <2>5, <2>6, <2>7 DEF IInv
    <1>4. ASSUME NEW c \in Connection, CommitRefused(c) PROVE IInv'
        BY <1>4, <1>type, <1>empty DEF IInv, TypeOK, CommitRefused, store, Release, Goto,
               FreshInv, PendingInv, DeniedNeverCommitted, AckedIsCommitted, AnchorInv, Anchored, InPrefix, QuietInv, NoFalseAlarm
    <1>5. ASSUME NEW c \in Connection, SyncBegin(c) PROVE IInv'
        BY <1>5, <1>type, <1>empty DEF IInv, TypeOK, SyncBegin, store, history, Acquire, Goto,
               FreshInv, PendingInv, DeniedNeverCommitted, AckedIsCommitted, AnchorInv, Anchored, InPrefix, QuietInv, NoFalseAlarm
    <1>6. ASSUME NEW c \in Connection, SyncBusy(c) PROVE IInv'
        BY <1>6, <1>type, <1>empty DEF IInv, TypeOK, SyncBusy, store, Answer, Goto,
               FreshInv, PendingInv, DeniedNeverCommitted, AckedIsCommitted, AnchorInv, Anchored, InPrefix, QuietInv, NoFalseAlarm
    <1>7. ASSUME NEW c \in Connection, ReplaceAnchor(c) PROVE IInv'
        <2>a. /\ Len(chain) \in Nat /\ anchor.audit_seq \in Nat
              /\ pc[c] = "syncing" /\ UNCHANGED <<chain, tx, synced, intact>> /\ anchorFile' = "readable"
              /\ \A d \in Connection \ {c} : pc'[d] = pc[d] /\ pc[d] \in {"idle", "committed"}
            BY <1>7 DEF ReplaceAnchor, history, Goto, IInv, TypeOK
        <2>b. anchor'.audit_seq = Len(chain)
              /\ anchor'.mac = (IF chain = <<>> THEN 0 ELSE chain[Len(chain)])
            BY <1>7 DEF ReplaceAnchor, AuditHead
        <2>d. /\ \A i \in 1 .. Len(chain) : chain[i] \in Range(chain)
              /\ \A m \in Range(chain) : \E j \in 1 .. Len(chain) : chain[j] = m
            BY RangeOfSequence DEF IInv, TypeOK
        <2>f. Anchored
            BY <1>7, <2>a DEF ReplaceAnchor, Reconcilable, AuditStatus, IInv, TypeOK, AnchorInv, Anchored
        <2>g. Anchored'
            BY <2>a, <2>b, <2>f DEF Anchored, InPrefix
        <2>h. Range(tx[c]) \subseteq Range(chain)
            BY <2>a DEF IInv, PendingInv
        <2>i. InPrefix(Range(tx[c]))'
            <3>1. \A m \in Range(tx[c]) : \E i \in 1 .. Len(chain) : chain[i] = m
                BY <2>d, <2>h
            <3>. QED BY <2>a, <2>b, <3>1 DEF InPrefix
        <2>1. FreshInv'
            BY <1>7, <1>type, <2>a, <2>b, <2>d DEF IInv, TypeOK, FreshInv, ReplaceAnchor, history, Goto
        <2>2. AnchorInv'
            BY <1>7, <1>type, <2>a, <2>g, <2>i DEF IInv, TypeOK, PendingInv, AnchorInv, Anchored, InPrefix, ReplaceAnchor, history, Goto
        <2>3. QuietInv'
            BY <1>7, <1>type, <2>a, <2>g DEF IInv, TypeOK, QuietInv, AnchorInv, Anchored, InPrefix, ReplaceAnchor, history, Goto
        <2>4. PendingInv' /\ DeniedNeverCommitted' /\ AckedIsCommitted' /\ NoFalseAlarm'
            BY <1>7, <1>type, <1>empty DEF IInv, TypeOK, ReplaceAnchor, history, Goto,
                   FreshInv, PendingInv, DeniedNeverCommitted, AckedIsCommitted, NoFalseAlarm, QuietInv, Anchored
        <2>. QED BY <1>type, <2>1, <2>2, <2>3, <2>4 DEF IInv
    <1>8. ASSUME NEW c \in Connection, SyncFails(c) PROVE IInv'
        BY <1>8, <1>type, <1>empty DEF IInv, TypeOK, SyncFails, store, Release, Goto, Answer,
               FreshInv, PendingInv, DeniedNeverCommitted, AckedIsCommitted, AnchorInv, Anchored, InPrefix, QuietInv, NoFalseAlarm
    <1>9. ASSUME NEW c \in Connection, SyncDone(c) PROVE IInv'
        BY <1>9, <1>type, <1>empty DEF IInv, TypeOK, SyncDone, store, Release, Goto, Answer,
               FreshInv, PendingInv, DeniedNeverCommitted, AckedIsCommitted, AnchorInv, Anchored, InPrefix, QuietInv, NoFalseAlarm
    <1>10. ASSUME NEW c \in Connection, VerifyAnchor(c) PROVE IInv'
        <2>a. harm = {} => AuditStatus(seen[c]) \in {"valid", "external_anchor_stale"}
            BY <1>10 DEF VerifyAnchor, IInv, TypeOK, QuietInv, Anchored, AuditStatus
        <2>1. NoFalseAlarm'
            BY <1>10, <1>type, <2>a DEF IInv, TypeOK, NoFalseAlarm, QuietInv, Anchored, VerifyAnchor, store, history, Goto
        <2>2. FreshInv' /\ PendingInv' /\ DeniedNeverCommitted' /\ AckedIsCommitted' /\ AnchorInv' /\ QuietInv'
            BY <1>10, <1>type, <1>empty DEF IInv, TypeOK, VerifyAnchor, store, history, Goto,
                   FreshInv, PendingInv, DeniedNeverCommitted, AckedIsCommitted, AnchorInv, Anchored, InPrefix, QuietInv
        <2>. QED BY <1>type, <2>1, <2>2 DEF IInv
    <1>11. ASSUME NEW c \in Connection, Begin(c) PROVE IInv'
        BY <1>11, <1>type, <1>empty DEF IInv, TypeOK, Begin, store, history, Acquire, Goto,
               FreshInv, PendingInv, DeniedNeverCommitted, AckedIsCommitted, AnchorInv, Anchored, InPrefix, QuietInv, NoFalseAlarm
    <1>12. ASSUME NEW c \in Connection, ReconcileBegin(c) PROVE IInv'
        BY <1>12, <1>type, <1>empty DEF IInv, TypeOK, ReconcileBegin, store, history, Acquire, Goto,
               FreshInv, PendingInv, DeniedNeverCommitted, AckedIsCommitted, AnchorInv, Anchored, InPrefix, QuietInv, NoFalseAlarm
    <1>13. ASSUME NEW c \in Connection, VerifyRows(c) PROVE IInv'
        BY <1>13, <1>type, <1>empty DEF IInv, TypeOK, VerifyRows, store, history, Acquire, Goto,
               FreshInv, PendingInv, DeniedNeverCommitted, AckedIsCommitted, AnchorInv, Anchored, InPrefix, QuietInv, NoFalseAlarm
    <1>14. ASSUME NEW c \in Connection, Crash(c) PROVE IInv'
        BY <1>14, <1>type, <1>empty DEF IInv, TypeOK, Crash, store, history, Goto,
               FreshInv, PendingInv, DeniedNeverCommitted, AckedIsCommitted, AnchorInv, Anchored, InPrefix, QuietInv, NoFalseAlarm
    <1>15. CASE LoseAnchor
        BY <1>15, <1>type, <1>empty DEF IInv, TypeOK, LoseAnchor,
               FreshInv, PendingInv, DeniedNeverCommitted, AckedIsCommitted, AnchorInv, Anchored, InPrefix, QuietInv, NoFalseAlarm
    <1>16. CASE DamageRows
        BY <1>16, <1>type, <1>empty DEF IInv, TypeOK, DamageRows,
               FreshInv, PendingInv, DeniedNeverCommitted, AckedIsCommitted, AnchorInv, Anchored, InPrefix, QuietInv, NoFalseAlarm
    <1>17. ASSUME NEW n \in 1 .. Len(chain), RestoreDatabase(n) PROVE IInv'
        <2>a. /\ chain' = SubSeq(chain, 1, n) /\ UNCHANGED <<anchor, tx, pc, fresh, denied, synced>>
              /\ \A d \in Connection : pc[d] = "idle"
            BY <1>17 DEF RestoreDatabase
        <2>b. /\ Len(chain') = n /\ \A i \in 1 .. n : chain'[i] = chain[i]
              /\ Range(chain') \subseteq Range(chain)
            BY <2>a, RangeOfPrefix DEF IInv, TypeOK
        <2>1. FreshInv'
            BY <1>17, <1>type, <2>a, <2>b DEF IInv, TypeOK, FreshInv, RestoreDatabase
        <2>2. PendingInv'
            BY <1>17, <1>type, <2>a, <2>b DEF IInv, TypeOK, FreshInv, PendingInv, RestoreDatabase
        <2>3. DeniedNeverCommitted'
            BY <1>17, <1>type, <2>a, <2>b DEF IInv, TypeOK, PendingInv, DeniedNeverCommitted, RestoreDatabase
        <2>4. AnchorInv'
            BY <1>17, <1>type, <2>a, <2>b DEF IInv, TypeOK, PendingInv, AnchorInv, Anchored, InPrefix, RestoreDatabase
        <2>5. AckedIsCommitted' /\ QuietInv' /\ NoFalseAlarm'
            BY <1>17, <1>type, <1>empty DEF IInv, TypeOK, RestoreDatabase,
                   PendingInv, AckedIsCommitted, QuietInv, AnchorInv, Anchored, InPrefix, NoFalseAlarm
        <2>. QED BY <1>type, <2>1, <2>2, <2>3, <2>4, <2>5 DEF IInv
    <1>18. CASE UNCHANGED vars
        BY <1>18, <1>type DEF vars, store, history, IInv, FreshInv, PendingInv, DeniedNeverCommitted, AckedIsCommitted, AnchorInv, Anchored, InPrefix, QuietInv, NoFalseAlarm
    <1>. QED
        BY <1>1, <1>2, <1>3, <1>4, <1>5, <1>6, <1>7, <1>8, <1>9, <1>10, <1>11, <1>12, <1>13, <1>14, <1>15, <1>16, <1>17, <1>18 DEF Next, StoreStep

\* Rows are fresh, pending rows are private, acknowledged rows stay and the
\* anchor names a row the chain had: the strengthening the safety theorems rest on.
THEOREM Invariant == Spec => []IInv
    BY InitInvariant, NextInvariant, PTL DEF Spec

-----------------------------------------------------------------------------
(***************************************************************************)
(* What the invariant gives.                                                *)
(***************************************************************************)

\* Whatever the connections do, an operation answered as failed has no row in
\* the chain, nor gets one later.
THEOREM FailedLeavesNoRow == Spec => []DeniedNeverCommitted
    BY Invariant, PTL DEF IInv

\* Whatever the connections do, an operation answered as committed has all its
\* rows in the chain, unless an older database was put back.
THEOREM CommittedLeavesItsRows == Spec => []AckedIsCommitted
    BY Invariant, PTL DEF IInv

\* Whatever a verification runs between, it reports nothing wrong with a vault
\* whose files nobody touched.
THEOREM VerifyIsSound == Spec => []NoFalseAlarm
    BY Invariant, PTL DEF IInv

\* A chain shorter than its anchor is not reconcilable, whatever else holds.
LEMMA ShortChain ==
    ASSUME TypeOK, Len(chain) < anchor.audit_seq
    PROVE  ~Reconcilable(chain)
    BY DEF TypeOK, Reconcilable, AuditStatus

\* Rows that were answered as synced are in the chain, or every verification
\* and every commit from then on notices that they are not.
THEOREM LossIsNoticed == Spec => []SyncedNeverSilentlyLost
    <1>1. IInv => SyncedNeverSilentlyLost
        <2>. SUFFICES ASSUME IInv PROVE synced \subseteq Range(chain) \/ ~Reconcilable(chain)
            BY DEF SyncedNeverSilentlyLost
        <2>1. CASE Len(chain) < anchor.audit_seq
            BY <2>1, ShortChain DEF IInv
        <2>2. CASE Anchored
            <3>1. \A i \in 1 .. Len(chain) : chain[i] \in Range(chain)
                BY RangeOfSequence DEF IInv, TypeOK
            <3>2. \A i \in 1 .. anchor.audit_seq : i \in 1 .. Len(chain)
                BY <2>2 DEF Anchored, IInv, TypeOK
            <3>. QED BY <2>2, <3>1, <3>2 DEF Anchored, InPrefix
        <2>. QED BY <2>1, <2>2 DEF IInv, AnchorInv
    <1>. QED BY <1>1, Invariant, PTL

\* The check before a commit looks at the pending chain, but passes only if the
\* chain without the pending rows is reconcilable too: a pending row is never
\* the anchored one.
LEMMA PendingChainCheck ==
    ASSUME IInv, NEW c \in Connection, pc[c] = "open", Reconcilable(chain \o tx[c])
    PROVE  Reconcilable(chain)
    <1>1. /\ Len(chain \o tx[c]) = Len(chain) + Len(tx[c]) /\ Len(chain) \in Nat /\ Len(tx[c]) \in Nat
          /\ \A i \in 1 .. Len(chain) : (chain \o tx[c])[i] = chain[i]
          /\ \A i \in Len(chain) + 1 .. Len(chain) + Len(tx[c]) : (chain \o tx[c])[i] \in Range(tx[c])
        BY RangeOfConcat DEF IInv, TypeOK
    <1>2. /\ intact /\ anchorFile = "readable" /\ anchor.audit_seq \in Nat
          /\ anchor.audit_seq <= Len(chain \o tx[c])
          /\ anchor.audit_seq > 0 => (chain \o tx[c])[anchor.audit_seq] = anchor.mac
        BY DEF Reconcilable, AuditStatus, IInv, TypeOK
    <1>3. anchor.mac \notin Range(tx[c])
        BY DEF IInv, PendingInv
    <1>4. anchor.audit_seq <= Len(chain)
        BY <1>1, <1>2, <1>3
    <1>5. anchor.audit_seq > 0 => chain[anchor.audit_seq] = anchor.mac
        BY <1>1, <1>2, <1>4
    <1>. QED BY <1>1, <1>2, <1>4, <1>5 DEF Reconcilable, AuditStatus

\* From evidence of loss or damage the store never goes on, so it is kept.
THEOREM EvidenceIsKept == Spec => EvidenceKept
    <1>1. IInv /\ [Next]_vars => [~Reconcilable(chain) =>
                /\ Len(chain') <= Len(chain)
                /\ anchor' = anchor
                /\ anchorFile' = "readable" => anchorFile = "readable"]_vars
        <2>. SUFFICES ASSUME IInv, Next, ~Reconcilable(chain)
                      PROVE  /\ Len(chain') <= Len(chain)
                             /\ anchor' = anchor
                             /\ anchorFile' = "readable" => anchorFile = "readable"
            OBVIOUS
        <2>0. Len(chain) \in Nat
            BY DEF IInv, TypeOK
        <2>1. CASE \E c \in Connection : SqlCommit(c)
            BY <2>1, PendingChainCheck DEF SqlCommit
        <2>2. CASE \E c \in Connection : ReplaceAnchor(c)
            BY <2>2 DEF ReplaceAnchor
        <2>3. CASE \E n \in 1 .. Len(chain) : RestoreDatabase(n)
            BY <2>0, <2>3, RangeOfPrefix DEF RestoreDatabase, IInv, TypeOK
        <2>4. CASE LoseAnchor
            BY <2>0, <2>4 DEF LoseAnchor
        <2>5. CASE UNCHANGED <<chain, anchorFile, anchor>>
            BY <2>0, <2>5
        <2>. QED
            BY <2>1, <2>2, <2>3, <2>4, <2>5
            DEF Next, StoreStep, AppendAudit, Rollback, CommitRefused, SyncBegin, SyncBusy, SyncFails, SyncDone,
                VerifyAnchor, Begin, ReconcileBegin, VerifyRows, Crash, DamageRows, store
    <1>. QED BY <1>1, Invariant, PTL DEF Spec, EvidenceKept

\* However commits and publications of several connections are ordered, the
\* anchor only moves forward.
THEOREM AnchorMovesForward == Spec => AnchorNeverRegresses
    <1>1. IInv /\ [Next]_vars => [anchor'.audit_seq >= anchor.audit_seq]_vars
        <2>. SUFFICES ASSUME IInv, Next PROVE anchor'.audit_seq >= anchor.audit_seq
            OBVIOUS
        <2>0. anchor.audit_seq \in Nat
            BY DEF IInv, TypeOK
        <2>1. CASE \E c \in Connection : ReplaceAnchor(c)
            BY <2>0, <2>1, ShortChain DEF ReplaceAnchor, AuditHead, IInv, TypeOK
        <2>2. CASE anchor' = anchor
            BY <2>0, <2>2
        <2>. QED
            BY <2>1, <2>2
            DEF Next, StoreStep, AppendAudit, Rollback, SqlCommit, CommitRefused, SyncBegin, SyncBusy, SyncFails,
                SyncDone, VerifyAnchor, Begin, ReconcileBegin, VerifyRows, Crash, LoseAnchor, DamageRows,
                RestoreDatabase, store
    <1>. QED BY <1>1, Invariant, PTL DEF Spec, AnchorNeverRegresses

=============================================================================
