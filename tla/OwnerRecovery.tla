---------------------------- MODULE OwnerRecovery ----------------------------
(***************************************************************************)
(* The life of an approved owner operation across the command that asks for *)
(* it (cli.py), the transport (client.py, daemon.py), the daemon that       *)
(* applies it (kernel.py) and the two records it leaves: the locator in the *)
(* command's journal (recovery_journal.py) and the receipt in the database  *)
(* (results.py).  Each command owns one nonce and sends one apply.  Either  *)
(* process may stop anywhere; a request or a reply may be lost, or arrive   *)
(* after the command has given up.                                          *)
(***************************************************************************)
EXTENDS FiniteSets

CONSTANTS Cli,      \* commands, one nonce each
          Forgets,  \* those whose operation is forget
          None      \* no request is being served

ASSUME ConstantsAssumption ==
    /\ Forgets \subseteq Cli
    /\ None \notin Cli

VARIABLES pc,        \* pc[c]: progress of the command
          told,      \* told[c]: what it reported to the owner
          journal,   \* journal[c]: its locator file
          inbox,     \* inbox[c]: the reply on its way
          requests,  \* applies on their way to the daemon
          up,        \* the daemon runs
          serving,   \* the apply being served
          open,      \* the daemon's connection has an open transaction
          pending,   \* receipts inserted in that transaction
          receipts,  \* table admin_results, as committed
          recovered  \* nonces that the recover command reported as committed

command == <<pc, told, journal>>
daemon == <<up, serving, open, pending>>
vars == <<command, inbox, requests, daemon, receipts, recovered>>

\* Codes that leave the outcome open ("ambiguous") and those that the command
\* re-raises as they are ("refused").
Replies == {"result", "ambiguous", "refused"}

Types ==
    /\ pc \in [Cli -> {"start", "previewed", "granted", "journaled", "sent", "lookup", "done"}]
    /\ told \in [Cli -> {"none", "committed", "failed", "unknown"}]
    /\ journal \in [Cli -> {"absent", "partial", "complete"}]
    /\ inbox \in [Cli -> Replies \cup {"none"}]
    /\ requests \subseteq Cli
    /\ up \in BOOLEAN /\ open \in BOOLEAN
    /\ serving \in Cli \cup {None}
    /\ pending \subseteq Cli /\ receipts \subseteq Cli /\ recovered \subseteq Cli
    /\ ~up => serving = None /\ ~open
    /\ ~open => pending = {}

\* Types; and only the apply that is being served has a transaction open.
TypeOK == Types /\ (open => serving # None)

Init ==
    /\ pc = [c \in Cli |-> "start"]
    /\ told = [c \in Cli |-> "none"]
    /\ journal = [c \in Cli |-> "absent"]
    /\ inbox = [c \in Cli |-> "none"]
    /\ requests = {}
    /\ up = TRUE /\ serving = None /\ open = FALSE /\ pending = {}
    /\ receipts = {} /\ recovered = {}

-----------------------------------------------------------------------------
(***************************************************************************)
(* The command: _admin.                                                     *)
(***************************************************************************)
Goto(c, label) == pc' = [pc EXCEPT ![c] = label]

\* The command ends, with this report.
Report(c, outcome) ==
    /\ Goto(c, "done")
    /\ told' = [told EXCEPT ![c] = outcome]

\* admin_preview answers with a challenge and its locator.
Preview(c) ==
    /\ pc[c] = "start"
    /\ up /\ serving = None /\ ~open
    /\ Goto(c, "previewed")
    /\ UNCHANGED <<told, journal, inbox, requests, daemon, receipts, recovered>>

\* broker.authorize
Authorize(c) ==
    /\ pc[c] = "previewed"
    /\ Goto(c, "granted")
    /\ UNCHANGED <<told, journal, inbox, requests, daemon, receipts, recovered>>

\* No preview, no usable locator or no approval: nothing was ever sent.
GiveUp(c) ==
    /\ pc[c] \in {"start", "previewed"}
    /\ Report(c, "failed")
    /\ UNCHANGED <<journal, inbox, requests, daemon, receipts, recovered>>

\* persist_locator returns: written, flushed and checked.
Journal(c) ==
    /\ pc[c] = "granted"
    /\ journal' = [journal EXCEPT ![c] = "complete"]
    /\ Goto(c, "journaled")
    /\ UNCHANGED <<told, inbox, requests, daemon, receipts, recovered>>

\* Mutant: the command goes on although its locator may not be durable.
JournalBestEffort(c) ==
    /\ pc[c] = "granted"
    /\ \E residue \in {"absent", "partial", "complete"} : journal' = [journal EXCEPT ![c] = residue]
    /\ Goto(c, "journaled")
    /\ UNCHANGED <<told, inbox, requests, daemon, receipts, recovered>>

\* persist_locator fails, with any residue: the apply is never sent.
JournalFails(c) ==
    /\ pc[c] = "granted"
    /\ \E residue \in {"absent", "partial", "complete"} : journal' = [journal EXCEPT ![c] = residue]
    /\ Report(c, "unknown")
    /\ UNCHANGED <<inbox, requests, daemon, receipts, recovered>>

Send(c) ==
    /\ pc[c] = "journaled"
    /\ requests' = requests \cup {c}
    /\ Goto(c, "sent")
    /\ UNCHANGED <<told, journal, inbox, daemon, receipts, recovered>>

\* The frame or the endpoint is refused locally, before any byte goes out.
SendRefused(c) ==
    /\ pc[c] = "journaled"
    /\ Report(c, "failed")
    /\ UNCHANGED <<journal, inbox, requests, daemon, receipts, recovered>>

Receive(c) ==
    /\ pc[c] = "sent"
    /\ inbox[c] # "none"
    /\ inbox' = [inbox EXCEPT ![c] = "none"]
    /\ \/ inbox[c] = "result" /\ Report(c, "committed")
       \/ inbox[c] = "refused" /\ Report(c, "failed")
       \/ inbox[c] = "ambiguous" /\ Goto(c, "lookup") /\ told' = told
    /\ UNCHANGED <<journal, requests, daemon, receipts, recovered>>

\* No (whole) reply within the deadline, or the connection fails at any point:
\* "unavailable".  The request may still be on its way.
Timeout(c) ==
    /\ pc[c] \in {"journaled", "sent"}
    /\ Goto(c, "lookup")
    /\ UNCHANGED <<told, journal, inbox, requests, daemon, receipts, recovered>>

\* admin_recover: what the daemon's own connection sees.  The daemon serves one
\* request at a time.
Visible(c) == up /\ serving = None /\ c \in receipts \cup pending

\* _receipt, once, after an ambiguous outcome
Lookup(c) ==
    /\ pc[c] = "lookup"
    /\ Visible(c)
    /\ Report(c, "committed")
    /\ UNCHANGED <<journal, inbox, requests, daemon, receipts, recovered>>

\* No receipt (yet), or the lookup itself fails.
LookupFails(c) ==
    /\ pc[c] = "lookup"
    /\ Report(c, "unknown")
    /\ UNCHANGED <<journal, inbox, requests, daemon, receipts, recovered>>

\* The command stops; inside persist_locator it may leave any residue.
CliCrash(c) ==
    /\ pc[c] # "done"
    /\ Goto(c, "done")
    /\ IF pc[c] = "granted"
       THEN \E residue \in {"absent", "partial", "complete"} : journal' = [journal EXCEPT ![c] = residue]
       ELSE journal' = journal
    /\ UNCHANGED <<told, inbox, requests, daemon, receipts, recovered>>

-----------------------------------------------------------------------------
(***************************************************************************)
(* The daemon: admin_apply, one request at a time.                          *)
(***************************************************************************)

\* A reply to a command that no longer waits is dropped.
Reply(c, reply) ==
    inbox' = [inbox EXCEPT ![c] = IF pc[c] = "sent" THEN reply ELSE "none"]

Take(c) == up /\ serving = None /\ c \in requests /\ requests' = requests \ {c}

\* store.begin
BeginApply(c) ==
    /\ Take(c)
    /\ ~open
    /\ serving' = c
    /\ open' = TRUE
    /\ UNCHANGED <<command, inbox, up, pending, receipts, recovered>>

\* Authentication, validation or the retention preflight fails; store.begin does
\* when a transaction is still open.
RefuseApply(c) ==
    /\ Take(c)
    /\ \E reply \in {"refused", "ambiguous"} : Reply(c, reply)
    /\ UNCHANGED <<command, daemon, receipts, recovered>>

\* The challenge passes and is consumed, the operation runs, save_result.
ApplyOperation(c) ==
    /\ serving = c /\ open /\ pending = {}
    /\ pending' = {c}
    /\ UNCHANGED <<command, inbox, requests, up, serving, open, receipts, recovered>>

\* Mutant: the except clause does not roll back.
ApplyFailsOpen(c) ==
    /\ serving = c /\ open
    /\ serving' = None
    /\ \E reply \in {"refused", "ambiguous"} : Reply(c, reply)
    /\ UNCHANGED <<command, requests, up, open, pending, receipts, recovered>>

\* Anything up to the SQL commit fails, and the handler rolls back.
ApplyFails(c) ==
    /\ serving = c /\ open
    /\ serving' = None /\ open' = FALSE /\ pending' = {}
    /\ \E reply \in {"refused", "ambiguous"} : Reply(c, reply)
    /\ UNCHANGED <<command, requests, up, receipts, recovered>>

CommitApply(c) ==
    /\ serving = c /\ open /\ pending = {c}
    /\ receipts' = receipts \cup {c}
    /\ open' = FALSE /\ pending' = {}
    /\ UNCHANGED <<command, inbox, requests, up, serving, recovered>>

\* Mutant: a response that does not fit the frame is refused like a bad request.
RespondRefused(c) ==
    /\ serving = c /\ ~open
    /\ serving' = None
    /\ \E reply \in {"result", "refused"} : Reply(c, reply)
    /\ UNCHANGED <<command, requests, up, open, pending, receipts, recovered>>

\* After the commit the result is sent, or an error in its place: the response
\* does not fit the frame, or an unforeseen error (internal_error).
RespondApply(c) ==
    /\ serving = c /\ ~open
    /\ serving' = None
    /\ \E reply \in {"result", "ambiguous"} : Reply(c, reply)
    /\ UNCHANGED <<command, requests, up, open, pending, receipts, recovered>>

\* SQLite discards the open transaction; connections break.
DaemonCrash ==
    /\ up
    /\ up' = FALSE
    /\ serving' = None /\ open' = FALSE /\ pending' = {}
    /\ requests' = {}
    /\ UNCHANGED <<command, inbox, receipts, recovered>>

DaemonStart ==
    /\ ~up
    /\ up' = TRUE
    /\ UNCHANGED <<command, inbox, requests, serving, open, pending, receipts, recovered>>

\* The daemon's read deadline passes, or it has no room for the connection.
LoseRequest(c) ==
    /\ c \in requests
    /\ requests' = requests \ {c}
    /\ UNCHANGED <<command, inbox, daemon, receipts, recovered>>

-----------------------------------------------------------------------------
(***************************************************************************)
(* The recover command: _recover.                                           *)
(***************************************************************************)

\* Mutant: the exact lookup scans the whole journal too.
RecoverByListing(c) ==
    /\ \A d \in Cli : journal[d] # "partial"
    /\ journal[c] = "complete"
    /\ Visible(c)
    /\ recovered' = recovered \cup {c}
    /\ UNCHANGED <<command, inbox, requests, daemon, receipts>>

\* recover --nonce: reads that one locator, whatever the others are.
Recover(c) ==
    /\ journal[c] = "complete"
    /\ Visible(c)
    /\ recovered' = recovered \cup {c}
    /\ UNCHANGED <<command, inbox, requests, daemon, receipts>>

\* A listing fails on the first entry that does not decode.
RecoverPage ==
    /\ \A c \in Cli : journal[c] # "partial"
    /\ recovered' = recovered \cup {c \in Cli : journal[c] = "complete" /\ Visible(c)}
    /\ UNCHANGED <<command, inbox, requests, daemon, receipts>>

CliStep(c) ==
    \/ Preview(c) \/ Authorize(c) \/ GiveUp(c) \/ Journal(c) \/ JournalFails(c)
    \/ Send(c) \/ SendRefused(c) \/ Receive(c) \/ Timeout(c) \/ Lookup(c) \/ LookupFails(c)
    \/ CliCrash(c)

DaemonStep(c) ==
    \/ BeginApply(c) \/ RefuseApply(c) \/ ApplyOperation(c) \/ ApplyFails(c)
    \/ CommitApply(c) \/ RespondApply(c)

Next ==
    \/ \E c \in Cli : CliStep(c) \/ DaemonStep(c) \/ LoseRequest(c) \/ Recover(c)
    \/ RecoverPage
    \/ DaemonCrash
    \/ DaemonStart

Spec == Init /\ [][Next]_vars

\* The daemon is started again when it is down, and finishes what it serves; the
\* owner repeats the query for an operation until it succeeds.
FairSpec ==
    /\ Spec
    /\ WF_vars(DaemonStart)
    /\ \A c \in Cli : WF_vars(DaemonStep(c)) /\ SF_vars(Recover(c))

-----------------------------------------------------------------------------
(***************************************************************************)
(* Guarded SQL dispatch (GuardedConnection, native Windows).                *)
(***************************************************************************)

\* The guard refuses a dispatch, and then the rollback too.
RollbackRefused(c) ==
    /\ serving = c /\ open
    /\ serving' = None
    /\ \E reply \in {"refused", "ambiguous"} : Reply(c, reply)
    /\ UNCHANGED <<command, requests, up, open, pending, receipts, recovered>>

\* The guard refuses the checkpoint that follows the commit of a forget, with an
\* error that `except sqlite3.Error` lets pass.
CheckpointRefused(c) ==
    /\ serving = c /\ ~open /\ c \in Forgets
    /\ serving' = None
    /\ Reply(c, "refused")
    /\ UNCHANGED <<command, requests, up, open, pending, receipts, recovered>>

GuardedNext == Next \/ \E c \in Cli : RollbackRefused(c) \/ CheckpointRefused(c)

GuardedSpec == Init /\ [][GuardedNext]_vars

-----------------------------------------------------------------------------
(***************************************************************************)
(* Properties.                                                              *)
(***************************************************************************)

\* An operation takes effect only after its locator is durable, so that every
\* effect can be asked about after the command is gone.
JournaledBeforeEffect == \A c \in receipts \cup pending : journal[c] = "complete"

\* What the command reported as failed is not committed, then or later: not by
\* a request that was still on its way, nor by the daemon that raised the error.
FailureIsFinal == \A c \in Cli : told[c] = "failed" => c \notin receipts

\* What the owner was told is committed, by the command, its one lookup or a
\* later query, is in the database and survives the daemon.
CommittedIsDurable == {c \in Cli : told[c] = "committed"} \cup recovered \subseteq receipts

\* The detailed protocol keeps the owner's promise.
Promise == INSTANCE OwnerPromise WITH
    fate <- [c \in Cli |-> IF c \in receipts THEN "committed"
                           ELSE IF told[c] = "failed" THEN "never" ELSE "open"],
    learned <- recovered

KeepsPromise == Promise!Spec

\* Every effect becomes known: an owner who was not told of a commit and goes
\* on asking by its nonce learns of it, whatever stopped in between and
\* whatever residue other commands left in the journal.
EffectBecomesKnown == \A c \in Cli : (c \in receipts) ~> (c \in recovered)

=============================================================================
