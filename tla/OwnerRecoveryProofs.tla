------------------------- MODULE OwnerRecoveryProofs -------------------------
(***************************************************************************)
(* Proofs about OwnerRecovery, for any number of commands.                  *)
(***************************************************************************)
EXTENDS OwnerRecovery, TLAPS

-----------------------------------------------------------------------------
(***************************************************************************)
(* The journal comes first, with or without a guarded connection.           *)
(***************************************************************************)

\* Whatever the daemon has of an apply, its command had journaled; a command
\* that has not sent yet has nothing there.
Unsent(c) == c \notin requests /\ serving # c /\ c \notin pending /\ c \notin receipts

JournalInv ==
    \A c \in Cli :
        /\ pc[c] \in {"start", "previewed", "granted", "journaled"} =>
             Unsent(c) /\ inbox[c] = "none" /\ told[c] = "none"
        /\ pc[c] \in {"journaled", "sent", "lookup"} => journal[c] = "complete"
        /\ ~Unsent(c) => journal[c] = "complete"

\* No command has sent anything yet.
LEMMA InitJournal == Init => Types /\ JournalInv
    <1>. SUFFICES ASSUME Init PROVE Types /\ JournalInv
        OBVIOUS
    <1>1. Types
        BY DEF Init, Types, Replies
    <1>2. \A c \in Cli : serving # c /\ pc[c] = "start" /\ inbox[c] = "none" /\ told[c] = "none"
        BY ConstantsAssumption DEF Init
    <1>. QED BY <1>1, <1>2 DEF Init, JournalInv, Unsent

\* Every step of a command and of the daemon keeps the locator ahead of the request.
LEMMA NextJournal == Types /\ JournalInv /\ [GuardedNext]_vars => Types' /\ JournalInv'
    <1>. SUFFICES ASSUME Types, JournalInv, [GuardedNext]_vars PROVE Types' /\ JournalInv'
        OBVIOUS
    <1>. USE ConstantsAssumption DEF Types, JournalInv, Unsent, Replies
    <1>1. ASSUME NEW c \in Cli, Preview(c) PROVE Types' /\ JournalInv'
        BY <1>1 DEF Preview, command, daemon, Goto, Report
    <1>2. ASSUME NEW c \in Cli, Authorize(c) PROVE Types' /\ JournalInv'
        BY <1>2 DEF Authorize, command, daemon, Goto, Report
    <1>3. ASSUME NEW c \in Cli, GiveUp(c) PROVE Types' /\ JournalInv'
        BY <1>3 DEF GiveUp, command, daemon, Goto, Report
    <1>4. ASSUME NEW c \in Cli, Journal(c) PROVE Types' /\ JournalInv'
        BY <1>4 DEF Journal, command, daemon, Goto, Report
    <1>5. ASSUME NEW c \in Cli, JournalFails(c) PROVE Types' /\ JournalInv'
        BY <1>5 DEF JournalFails, command, daemon, Goto, Report
    <1>6. ASSUME NEW c \in Cli, Send(c) PROVE Types' /\ JournalInv'
        BY <1>6 DEF Send, command, daemon, Goto, Report
    <1>7. ASSUME NEW c \in Cli, SendRefused(c) PROVE Types' /\ JournalInv'
        BY <1>7 DEF SendRefused, command, daemon, Goto, Report
    <1>8. ASSUME NEW c \in Cli, Receive(c) PROVE Types' /\ JournalInv'
        BY <1>8 DEF Receive, command, daemon, Goto, Report
    <1>9. ASSUME NEW c \in Cli, Timeout(c) PROVE Types' /\ JournalInv'
        BY <1>9 DEF Timeout, command, daemon, Goto, Report
    <1>10. ASSUME NEW c \in Cli, Lookup(c) PROVE Types' /\ JournalInv'
        BY <1>10 DEF Lookup, command, daemon, Goto, Report, Visible
    <1>11. ASSUME NEW c \in Cli, LookupFails(c) PROVE Types' /\ JournalInv'
        BY <1>11 DEF LookupFails, command, daemon, Goto, Report
    <1>12. ASSUME NEW c \in Cli, CliCrash(c) PROVE Types' /\ JournalInv'
        BY <1>12 DEF CliCrash, command, daemon, Goto, Report
    <1>13. ASSUME NEW c \in Cli, BeginApply(c) PROVE Types' /\ JournalInv'
        BY <1>13 DEF BeginApply, command, daemon, Reply, Take
    <1>14. ASSUME NEW c \in Cli, RefuseApply(c) PROVE Types' /\ JournalInv'
        BY <1>14 DEF RefuseApply, command, daemon, Reply, Take
    <1>15. ASSUME NEW c \in Cli, ApplyOperation(c) PROVE Types' /\ JournalInv'
        BY <1>15 DEF ApplyOperation, command, daemon, Reply, Take
    <1>16. ASSUME NEW c \in Cli, ApplyFails(c) PROVE Types' /\ JournalInv'
        BY <1>16 DEF ApplyFails, command, daemon, Reply, Take
    <1>17. ASSUME NEW c \in Cli, RollbackRefused(c) PROVE Types' /\ JournalInv'
        BY <1>17 DEF RollbackRefused, command, daemon, Reply, Take
    <1>18. ASSUME NEW c \in Cli, CommitApply(c) PROVE Types' /\ JournalInv'
        BY <1>18 DEF CommitApply, command, daemon, Reply, Take
    <1>19. ASSUME NEW c \in Cli, RespondApply(c) PROVE Types' /\ JournalInv'
        BY <1>19 DEF RespondApply, command, daemon, Reply, Take
    <1>20. ASSUME NEW c \in Cli, LoseRequest(c) PROVE Types' /\ JournalInv'
        BY <1>20 DEF LoseRequest, command, daemon
    <1>21. ASSUME NEW c \in Cli, Recover(c) PROVE Types' /\ JournalInv'
        BY <1>21 DEF Recover, command, daemon, Visible
    <1>22. CASE RecoverPage
        BY <1>22 DEF RecoverPage, command, daemon, Visible
    <1>23. CASE DaemonCrash
        BY <1>23 DEF DaemonCrash, command, daemon
    <1>24. CASE DaemonStart
        BY <1>24 DEF DaemonStart, command, daemon
    <1>26. ASSUME NEW c \in Cli, CheckpointRefused(c) PROVE Types' /\ JournalInv'
        BY <1>26 DEF CheckpointRefused, command, daemon, Reply, Take
    <1>25. CASE UNCHANGED vars
        BY <1>25 DEF vars, command, daemon
    <1>. QED
        BY <1>1, <1>2, <1>3, <1>4, <1>5, <1>6, <1>7, <1>8, <1>9, <1>10, <1>11, <1>12, <1>13, <1>14, <1>15, <1>16, <1>17, <1>18, <1>19, <1>20, <1>21, <1>22, <1>23, <1>24, <1>25, <1>26
        DEF GuardedNext, Next, CliStep, DaemonStep

\* Every effect was journaled before, so the owner can ask about it.
THEOREM EffectsAreJournaled == Spec => []JournaledBeforeEffect
    <1>1. Types /\ JournalInv => JournaledBeforeEffect
        BY DEF Types, JournalInv, Unsent, JournaledBeforeEffect
    <1>2. [Next]_vars => [GuardedNext]_vars
        BY DEF GuardedNext
    <1>. QED BY <1>1, <1>2, InitJournal, NextJournal, PTL DEF Spec

\* A guard that refuses what it likes cannot change that.
THEOREM GuardedEffectsAreJournaled == GuardedSpec => []JournaledBeforeEffect
    <1>1. Types /\ JournalInv => JournaledBeforeEffect
        BY DEF Types, JournalInv, Unsent, JournaledBeforeEffect
    <1>. QED BY <1>1, InitJournal, NextJournal, PTL DEF GuardedSpec

-----------------------------------------------------------------------------
(***************************************************************************)
(* The owner is told the truth, when no guard refuses a rollback or a       *)
(* statement that follows the commit.                                       *)
(***************************************************************************)

\* What is still to be decided about an apply, and what its reply says.
OutcomeInv ==
    \A c \in Cli :
        /\ c \in requests => /\ c \notin receipts /\ serving # c /\ inbox[c] = "none"
                             /\ told[c] \in {"none", "unknown"}
        /\ serving = c => /\ inbox[c] = "none" /\ pending \subseteq {c}
                          /\ told[c] \in {"none", "unknown"}
                          /\ open <=> c \notin receipts
        /\ inbox[c] = "result" => c \in receipts
        /\ inbox[c] = "refused" => c \notin receipts /\ c \notin requests /\ serving # c
        /\ told[c] = "failed" => c \notin receipts /\ c \notin requests /\ serving # c
        /\ told[c] = "committed" => c \in receipts
        /\ pc[c] # "done" => told[c] = "none"
        /\ c \in recovered => c \in receipts

OInv == TypeOK /\ JournalInv /\ OutcomeInv

\* No outcome is decided yet.
LEMMA InitOutcome == Init => OInv
    <1>. SUFFICES ASSUME Init PROVE (open => serving # None) /\ OutcomeInv
        BY InitJournal DEF OInv, TypeOK
    <1>1. \A c \in Cli : serving # c /\ inbox[c] = "none" /\ told[c] = "none"
        BY ConstantsAssumption DEF Init
    <1>. QED BY <1>1 DEF Init, OutcomeInv

\* Every step keeps what was reported in agreement with the receipts.
LEMMA NextOutcome == OInv /\ [Next]_vars => OInv'
    <1>. SUFFICES ASSUME OInv, [Next]_vars PROVE (open => serving # None)' /\ OutcomeInv'
        BY NextJournal DEF OInv, TypeOK, GuardedNext
    <1>. USE ConstantsAssumption DEF OInv, TypeOK, Types, JournalInv, Unsent, OutcomeInv
    <1>1. ASSUME NEW c \in Cli, Preview(c) PROVE (open => serving # None)' /\ OutcomeInv'
        BY <1>1 DEF Preview, command, daemon, Goto, Report
    <1>2. ASSUME NEW c \in Cli, Authorize(c) PROVE (open => serving # None)' /\ OutcomeInv'
        BY <1>2 DEF Authorize, command, daemon, Goto, Report
    <1>3. ASSUME NEW c \in Cli, GiveUp(c) PROVE (open => serving # None)' /\ OutcomeInv'
        BY <1>3 DEF GiveUp, command, daemon, Goto, Report
    <1>4. ASSUME NEW c \in Cli, Journal(c) PROVE (open => serving # None)' /\ OutcomeInv'
        BY <1>4 DEF Journal, command, daemon, Goto, Report
    <1>5. ASSUME NEW c \in Cli, JournalFails(c) PROVE (open => serving # None)' /\ OutcomeInv'
        BY <1>5 DEF JournalFails, command, daemon, Goto, Report
    <1>6. ASSUME NEW c \in Cli, Send(c) PROVE (open => serving # None)' /\ OutcomeInv'
        BY <1>6 DEF Send, command, daemon, Goto, Report
    <1>7. ASSUME NEW c \in Cli, SendRefused(c) PROVE (open => serving # None)' /\ OutcomeInv'
        BY <1>7 DEF SendRefused, command, daemon, Goto, Report
    <1>8. ASSUME NEW c \in Cli, Receive(c) PROVE (open => serving # None)' /\ OutcomeInv'
        BY <1>8 DEF Receive, command, daemon, Goto, Report
    <1>9. ASSUME NEW c \in Cli, Timeout(c) PROVE (open => serving # None)' /\ OutcomeInv'
        BY <1>9 DEF Timeout, command, daemon, Goto, Report
    <1>10. ASSUME NEW c \in Cli, Lookup(c) PROVE (open => serving # None)' /\ OutcomeInv'
        BY <1>10 DEF Lookup, command, daemon, Goto, Report, Visible
    <1>11. ASSUME NEW c \in Cli, LookupFails(c) PROVE (open => serving # None)' /\ OutcomeInv'
        BY <1>11 DEF LookupFails, command, daemon, Goto, Report
    <1>12. ASSUME NEW c \in Cli, CliCrash(c) PROVE (open => serving # None)' /\ OutcomeInv'
        BY <1>12 DEF CliCrash, command, daemon, Goto, Report
    <1>13. ASSUME NEW c \in Cli, BeginApply(c) PROVE (open => serving # None)' /\ OutcomeInv'
        BY <1>13 DEF BeginApply, command, daemon, Reply, Take
    <1>14. ASSUME NEW c \in Cli, RefuseApply(c) PROVE (open => serving # None)' /\ OutcomeInv'
        BY <1>14 DEF RefuseApply, command, daemon, Reply, Take
    <1>15. ASSUME NEW c \in Cli, ApplyOperation(c) PROVE (open => serving # None)' /\ OutcomeInv'
        BY <1>15 DEF ApplyOperation, command, daemon, Reply, Take
    <1>16. ASSUME NEW c \in Cli, ApplyFails(c) PROVE (open => serving # None)' /\ OutcomeInv'
        BY <1>16 DEF ApplyFails, command, daemon, Reply, Take
    <1>18. ASSUME NEW c \in Cli, CommitApply(c) PROVE (open => serving # None)' /\ OutcomeInv'
        BY <1>18 DEF CommitApply, command, daemon, Reply, Take
    <1>19. ASSUME NEW c \in Cli, RespondApply(c) PROVE (open => serving # None)' /\ OutcomeInv'
        BY <1>19 DEF RespondApply, command, daemon, Reply, Take
    <1>20. ASSUME NEW c \in Cli, LoseRequest(c) PROVE (open => serving # None)' /\ OutcomeInv'
        BY <1>20 DEF LoseRequest, command, daemon
    <1>21. ASSUME NEW c \in Cli, Recover(c) PROVE (open => serving # None)' /\ OutcomeInv'
        BY <1>21 DEF Recover, command, daemon, Visible
    <1>22. CASE RecoverPage
        BY <1>22 DEF RecoverPage, command, daemon, Visible
    <1>23. CASE DaemonCrash
        BY <1>23 DEF DaemonCrash, command, daemon
    <1>24. CASE DaemonStart
        BY <1>24 DEF DaemonStart, command, daemon
    <1>25. CASE UNCHANGED vars
        BY <1>25 DEF vars, command, daemon
    <1>. QED
        BY <1>1, <1>2, <1>3, <1>4, <1>5, <1>6, <1>7, <1>8, <1>9, <1>10, <1>11, <1>12, <1>13, <1>14, <1>15, <1>16, <1>18, <1>19, <1>20, <1>21, <1>22, <1>23, <1>24, <1>25
        DEF Next, CliStep, DaemonStep

\* Everything keeps its type, and a transaction is open only while an apply is served.
THEOREM TypeCorrect == Spec => []TypeOK
    <1>1. OInv => TypeOK
        BY DEF OInv
    <1>. QED BY <1>1, InitOutcome, NextOutcome, PTL DEF Spec

\* A reported failure is final, for any number of overlapping commands.
THEOREM FailuresAreFinal == Spec => []FailureIsFinal
    <1>1. OInv => FailureIsFinal
        BY DEF OInv, OutcomeInv, FailureIsFinal
    <1>. QED BY <1>1, InitOutcome, NextOutcome, PTL DEF Spec

\* A reported commit is in the database.
THEOREM CommitsAreDurable == Spec => []CommittedIsDurable
    <1>1. OInv => CommittedIsDurable
        BY DEF OInv, TypeOK, Types, OutcomeInv, CommittedIsDurable
    <1>. QED BY <1>1, InitOutcome, NextOutcome, PTL DEF Spec

-----------------------------------------------------------------------------
(***************************************************************************)
(* The refinement.                                                          *)
(***************************************************************************)

\* At first every fate is open.
LEMMA InitRefines == Init => Promise!Init
    BY DEF Init, Promise!Init

\* The fate of an operation, as the refinement maps it.
Fate == [c \in Cli |-> IF c \in receipts THEN "committed"
                       ELSE IF told[c] = "failed" THEN "never" ELSE "open"]
mapped == <<Fate, told, recovered>>

\* A step that leaves the receipts and the reports alone is a stutter.
LEMMA StutterRefines ==
    ASSUME UNCHANGED <<told, receipts, recovered>>
    PROVE  UNCHANGED mapped
    BY DEF mapped, Fate

\* A report of failure about what is not committed makes its fate "never".
LEMMA FailureRefines ==
    ASSUME TypeOK, NEW c \in Cli, c \notin receipts, told[c] = "none",
           told' = [told EXCEPT ![c] = "failed"], UNCHANGED <<receipts, recovered>>
    PROVE  Promise!TellFailed(c)
    <1>1. Fate' = [Fate EXCEPT ![c] = "never"]
        BY DEF Fate, TypeOK, Types
    <1>2. Fate[c] = "open"
        BY DEF Fate
    <1>. QED BY <1>1, <1>2 DEF Promise!TellFailed, Fate

\* Every step of the commands and the daemon is a step of the promise or a stutter.
LEMMA NextRefines ==
    OInv /\ [Next]_vars => [Promise!Next]_mapped
    <1>. SUFFICES ASSUME OInv, [Next]_vars, ~UNCHANGED <<told, receipts, recovered>>
                  PROVE  Promise!Next
        BY StutterRefines
    <1>. USE ConstantsAssumption DEF OInv, TypeOK, Types, OutcomeInv, JournalInv, Unsent
    <1>1. ASSUME NEW c \in Cli, CommitApply(c) PROVE Promise!Commit(c)
        BY <1>1 DEF CommitApply, command, Promise!Commit
    <1>2. ASSUME NEW c \in Cli, Receive(c), inbox[c] = "result" PROVE Promise!TellCommitted(c)
        BY <1>2 DEF Receive, Report, Goto, Promise!TellCommitted
    <1>3. ASSUME NEW c \in Cli, Receive(c), inbox[c] = "refused" PROVE Promise!TellFailed(c)
        BY <1>3, FailureRefines DEF Receive, Report, Goto
    <1>4. ASSUME NEW c \in Cli, Receive(c), inbox[c] = "ambiguous" PROVE UNCHANGED <<told, receipts, recovered>>
        BY <1>4 DEF Receive
    <1>5. ASSUME NEW c \in Cli, Lookup(c) PROVE Promise!TellCommitted(c)
        BY <1>5 DEF Lookup, Visible, Report, Goto, Promise!TellCommitted
    <1>6. ASSUME NEW c \in Cli, GiveUp(c) \/ SendRefused(c) PROVE Promise!TellFailed(c)
        BY <1>6, FailureRefines DEF GiveUp, SendRefused, Report, Goto, command
    <1>7. ASSUME NEW c \in Cli, JournalFails(c) \/ LookupFails(c) PROVE Promise!TellUnknown(c)
        BY <1>7 DEF JournalFails, LookupFails, Report, Goto, Promise!TellUnknown
    <1>8. ASSUME NEW c \in Cli, Recover(c) PROVE Promise!Learn({c})
        BY <1>8 DEF Recover, Visible, command, Promise!Learn
    <1>9. ASSUME RecoverPage PROVE Promise!Learn({c \in Cli : journal[c] = "complete" /\ Visible(c)})
        BY <1>9 DEF RecoverPage, Visible, command, Promise!Learn
    <1>10. ASSUME NEW c \in Cli, CliStep(c) PROVE Promise!Next
        <2>1. CASE Receive(c)
            <3>1. inbox[c] \in {"result", "refused", "ambiguous"}
                BY <2>1 DEF Receive, Replies
            <3>. QED BY <1>2, <1>3, <1>4, <2>1, <3>1 DEF Promise!Next
        <2>2. CASE Lookup(c) \/ GiveUp(c) \/ SendRefused(c) \/ JournalFails(c) \/ LookupFails(c)
            BY <1>5, <1>6, <1>7, <2>2 DEF Promise!Next
        <2>3. CASE Preview(c) \/ Authorize(c) \/ Journal(c) \/ Send(c) \/ Timeout(c) \/ CliCrash(c)
            BY <2>3 DEF Preview, Authorize, Journal, Send, Timeout, CliCrash
        <2>. QED BY <1>10, <2>1, <2>2, <2>3 DEF CliStep
    <1>11. ASSUME NEW c \in Cli, DaemonStep(c) PROVE Promise!Next
        <2>1. CASE CommitApply(c)
            BY <1>1, <2>1 DEF Promise!Next
        <2>2. CASE ~CommitApply(c)
            BY <1>11, <2>2 DEF DaemonStep, command, BeginApply, RefuseApply, ApplyOperation, ApplyFails,
                               RespondApply
        <2>. QED BY <2>1, <2>2
    <1>12. ASSUME NEW c \in Cli, LoseRequest(c) PROVE FALSE
        BY <1>12 DEF LoseRequest, command
    <1>13. ~DaemonCrash /\ ~DaemonStart /\ ~UNCHANGED vars
        BY DEF DaemonCrash, DaemonStart, vars, command
    <1>14. ASSUME NEW c \in Cli, Recover(c) PROVE Promise!Next
        <2>1. {c} \in SUBSET Cli
            OBVIOUS
        <2>. QED BY <1>8, <1>14, <2>1 DEF Promise!Next
    <1>15. CASE RecoverPage
        <2>1. {c \in Cli : journal[c] = "complete" /\ Visible(c)} \in SUBSET Cli
            OBVIOUS
        <2>. QED BY <1>9, <1>15, <2>1 DEF Promise!Next
    <1>. QED BY <1>10, <1>11, <1>12, <1>13, <1>14, <1>15 DEF Next

\* The protocol keeps the owner's promise: the fate of an operation is decided
\* once, and all that is reported of it agrees with that fate.
THEOREM PromiseKept == Spec => KeepsPromise
    BY InitOutcome, NextOutcome, InitRefines, NextRefines, PTL DEF Spec, KeepsPromise, Promise!Spec, mapped, Fate

=============================================================================
