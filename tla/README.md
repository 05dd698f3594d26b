# Continuum Memory in TLA+

Continuum Memory keeps claims about a project for several agents in one local
vault: agents propose and search, the owner approves every change. These modules
model the parts of `src/continuum_memory/` in which the order of steps decides
whether the vault stays correct. TLC checks them on small instances; TLAPS proves every safety
property of the passing runs for every instance; liveness is model-checked. Paths below are relative to the repository, line numbers to the modelled commit.

## The system and what can go wrong in it

| Component | State | Operations | Hard because | Correct if |
|---|---|---|---|---|
| `Store` and the audit chain (`storage.py`) | tables, `audit_events` (an HMAC chain), `audit.head` (the anchor, a file outside the database) | begin, append, commit, rollback, publish the anchor, verify, reconcile | the anchor is published in a second transaction after the commit; several connections; crash between; files damaged or restored | an answer agrees with the database; a loss of anchored rows is noticed for ever; no false alarm |
| `Kernel` (`kernel.py`, `proposals.py`, `forget.py`, `projection.py`, `results.py`) | threads, versions, proposals, tombstones, challenges, receipts, audience timelines, recalls, feedback | propose, search, feedback, preview, apply (remember, correct, accept, reject, forget, forget proposal), retention preflight | an approval covers a state that has changed by the time it comes; retries; deadlines; a request is several transactions | an approval takes effect once and on the reviewed state; history is immutable and reproducible; no recall, feedback, relation, provenance or index entry names what is forgotten |
| Owner command and recovery (`cli.py`, `client.py`, `recovery_journal.py`, `results.py`) | locator journal, receipts | preview, authorize, journal, apply, look up, recover | lost and late messages, timeouts, crashes of both processes | what the owner is told of an operation is true for ever, and an effect can always be found |
| Initialization and admission (`storage.py`, `bootstrap_state.py`) | claim and completion records, keys, capabilities, database, anchor | initialize, admit | racing initializers, crash after any file, a daemon that looks meanwhile | only a whole home is served, nothing is replaced |
| Daemon ownership (`daemon_lock.py`, `daemon.py`) | lock file with marker, socket path, inodes | lock, recover a stale endpoint, bind, serve, close | check and use by path; inode reuse; crash; an older daemon without the lock | one owner; no live endpoint is removed; an endpoint that is left behind never locks the next start out |
| Windows runtime (`windows_runtime.py`) | pipe handles, worker threads, request objects, bounded queue | accept, put, wait, claim, complete, stop | threads, deadlines, shutdown | every client gets its own answer; nothing is closed in use; stopping ends |
| Guarded SQL (`windows_storage.py`) | pinned handles | validate before every statement, commit, rollback | the guard itself can refuse, also the undo | a refusal leaves a clear outcome |
| POSIX connections (`daemon.py`, `client.py`) | connections with buffers, offsets, deadlines; backlog | accept, read, dispatch, write, close; connect, send, receive | a limit, absolute deadlines on both sides, clients that leave, stops | a request takes effect whole and at most once, an answer comes after it, everything is settled in the end |
| MCP bridge (`stdio.py`, `mcp.py`) | two queues of one place, the frame at hand, its deadline | read, assemble, handle, call the daemon, answer, exit | three threads, a host that stops reading or writing anywhere | answers in order and true; the end of the input ends the bridge |
| Read pages (`kernel.py`, `pagination.py`) and conflicts (`projection.py`) | cursors with snapshot and keyset position, receipts | search, context, show, get | rows change between pages; cursors expire, are evicted or lost; answers are repeated | pages tile the snapshot; receipts resolve; disputes are connected components |
| Migration (`migrations.py`), approval broker and helper (`broker.py`, `approval.py`, `polkit_helper.py`) | schema version; keys | migrate; sign | | not modelled, see below |
| Admission policy, conversions, host boundaries (`admission.py`, `errors.py`, `temporal.py`, `security.py`, `windows_boundary.py`, `macos_acl.py`, `peer.py`) | none | predicates and native calls | | not modelled: text predicates and operating-system checks without a protocol of their own |

How they meet: the command, and the bridge for an agent's host, call the daemon over a socket or a pipe; the daemon runs
one request at a time in the kernel; the kernel writes through the store; the
store publishes the anchor. The command and the daemon share only messages, the receipts
and, before any apply, nothing: the journal is the command's own.

## Modules

### `AuditStore` (`storage.py`)

`chain` is the table `audit_events`, a row being its mac; since macs authenticate
their prefix, equal macs mean equal prefixes. `anchor` and `anchorFile` are what reading
`audit.head` gives. `writer` is SQLite's write lock, `pc[c]` where a connection stands:
`open` (a mutation in progress), `committed` (SQL commit done, anchor not yet),
`syncing` and `replaced` (publishing), `verifying`. `Begin`, `AppendAudit`,
`Rollback`, `SqlCommit`, `CommitRefused`, `SyncBegin`, `SyncBusy`, `ReplaceAnchor`,
`SyncDone`, `SyncFails`, `Answer`, `VerifyRows`, `VerifyAnchor` and `ReconcileBegin` are the
steps of `begin`, `append_audit`, `rollback`, `commit`, `sync_audit_head`, `verify_audit` and
`audit_reconcile`. `Crash`, `LoseAnchor`, `DamageRows` and `RestoreDatabase` are the
environment. The history variables `acked`, `synced`, `denied` remember what callers were answered.

The check of the chain and the SQL commit are one step, as are the check and the
replacement of the file: the write lock is held over both and nothing else can change
what the check read, except the environment's damage, which would be the same damage a step
earlier or later. An older database may be put back, but never together with the older anchor: nothing
could tell, as `docs/COMMIT_RECOVERY.md:119` concedes. Commits without audit synchronisation add no rows and are left out. A loss of
power between the replacement and the flush of the directory is not modelled.

### `Ledger` (`kernel.py`, `proposals.py`, `forget.py`, `projection.py`, `results.py`)

The tables of one project as sets of records; the sequence number of a row's creation stands
for its random id. One daemon runs one request at a time, and a request is up to three
transactions: purge the due proposals, expire the due versions, do the operation. `phase`
tells how far the request is, and between the transactions the clock moves and
the daemon may stop (`EndRequest`). Each operation is an action: `Propose`, `Search`, `Feedback`,
`AdminPreview`, and the applies `ApplyRemember`, `ApplyCorrect`, `ApplyAccept`, `ApplyReject`,
`ApplyForget`, `ApplyForgetProposal`, each with the consumption of its challenge and its receipt.
A scope digest is the scope itself. Evidence is one-to-one with versions and
reviews with accepted proposals, so they have no table of their own; rows that the
database cascades are left out. Receipts, deletion receipts and the audit chain keep identifiers of what was
forgotten by design; `NothingNamesTheForgotten` speaks of the other tables. Whether a recall's receipt is
pinned to its snapshot, as those of pages and of reads as of a sequence are, is left open, so `Feedback` may
use either. `audience` is the per-provider timeline with its local numbers.

### `OwnerPromise`, `OwnerRecovery` (`cli.py`, `client.py`, `recovery_journal.py`, `results.py`)

`OwnerPromise` is the abstract promise: an operation is open, committed or never will be, it is
decided once, and reports agree. `OwnerRecovery` is the protocol: the command's `pc`, its locator
file, messages on their way, the daemon's open transaction and the committed receipts.
`Promise` maps it onto `OwnerPromise`. `Spec` is the protocol with plain SQL connections; `GuardedSpec`
adds what dispatch through `GuardedConnection` (native Windows) can do to it: refuse a rollback or
the checkpoint (`RollbackRefused`, `CheckpointRefused`). Challenges are abstracted: `RefuseApply` may refuse any
apply; that an approval is used once is `Ledger`'s business.

### `Bootstrap` (`storage.py`, `bootstrap_state.py`, `daemon.py`)

A file is its writer's vault and whether it is whole. `After` is the order of
`Store.bootstrap`'s steps; `Create` and `CreatePart` are exclusive creation, whole or
short; `Stop` ends an attempt anywhere, and nothing is cleaned up. A daemon reads the
records and looks for the database four times (`ReadState`, `SeeDatabase`), creates its lock file in
between (`OpenLock`) and compares the database's metadata (`Admit`). The owner may lose
a record or put another home's database in place. The creation of the directory, the
SQL statements before the commit (the database is "not whole") and the Windows
binding file are abstracted.

### `DaemonOwnership` (`daemon_lock.py`, `daemon.py`)

Paths lead to inodes; inodes that nothing refers to are given out again, so a comparison of
inodes is as unreliable as it is on a host. `Open`, `Flock` and `CheckLocked` are
`DaemonLock.__enter__`, `Prepare` to `Unlink` are `prepare_socket` step by step, `OpenStore`, `Bind`
and `Listen` the construction, `CloseListener`, `RemoveSocket`, `CloseStore`, `Release` the way down.
An endpoint of a daemon without the lock, dead, alive or just bound, may be there at the start.
A daemon that stops inside the write of the marker leaves a part of it (`MarkPart`), which the code makes later starts
refuse until the owner removes the lock file; `LeftEndpointReclaimable` is about endpoints, of which there is none then.

### `PipeRuntime` (`windows_runtime.py`)

Worker threads, the queue, the request objects with their lock-protected reply state, and the
owning thread from `PipePool.start` to `PipePool.close`. Objects to which nothing refers are reused,
so a stale reference would be seen. A deadline is an event that can come at any time
(`Expire`), native I/O succeeds or fails. An error that ends a thread takes two steps: inside an
exchange `Fail` disconnects the client, and `End` withdraws the request and stops the runtime, so that a request can still be
run between them though its client is gone.

### `ReadPages` (`kernel.py`, `pagination.py`, `projection.py`)

`versions` is the table of assertion versions with the sequence numbers of creation and
retirement, `cursors` the daemon's `OrderedDict`, `series` one query that is followed: who asked,
what the first page selected (`owed`) and every page that arrived. `First` is a request without
a cursor, `Continue` one with it, also repeated after a lost answer; both go through `Serve`, which
does what `search`, `context` and `show` do: select behind the keyset position, drop what does not
fit, issue a cursor behind the last row shown, derive disputes, pin the receipt. `Remember`,
`Correct`, `ExpireDue` and `Forget` are the ledger's changes as far as reads can tell. A claim is what
selection reads of it; a full-text match is a score, the byte budget any positive number of rows. A
`conflict_id` is a digest of the members' ids and stands for them.

### `Exchange`, `SocketServer`, `StdioBridge`, `AgentPath` (`daemon.py`, `client.py`, `stdio.py`, `mcp.py`)

`Exchange` is what a client may rely on per request: it is applied or dropped, once; an answer comes
after that; a client that gave up does not know; both sides are settled in the end.
`SocketServer` is the POSIX loop and its clients: a request and a response are two pieces that are sent, read
and written one by one, a connection goes from `backlog` over `reading` and `writing` to `closed`, and
a whole request is dispatched in the step that reads its end, as `_read` does. `Effect` and `Knows` map
it onto `Exchange`; a request that ran twice or in part would have the effect "torn", which
`Exchange` does not know. `StdioBridge` is `StdioTransport` with its two threads and queues, and the loop of
`serve_stdio`. What the host wrote but nobody read is not state; a piece exists when the reader reads it.
Deadlines are absolute: `overdue` are the frames whose deadline has passed, and a chunk carries
whether it was read later than that, as the code's `arrival` does. `AgentPath` composes both:
the frame being handled is the client's call, next to a call of another process that competes for the connections.

## Runs

| Run | Shows | Bounds |
|---|---|---|
| `audit_store` | answers, anchor and verification agree under two connections and damage; every call returns | 2 connections, 2 rows beside the first, 2 per transaction: two transactions in either order of commit and publication; with any more rows the safety properties are proved |
| `ledger_proposals` | deliveries, reviews, purges and one-shot approvals | 1 agent, 2 delivery keys, 3 rows, 3 previews, clock to 2: a retry of a key before and after purge and forget, two overlapping approvals and a replay |
| `ledger_memory` | corrections, expiry, forgetting and recalls | 2 agents, 2 audiences, 4 rows, 3 previews, 1 recall: two corrections of one version, a forget prepared before either |
| `read_pages` | pages tile a snapshot, also when a page was lost and is asked for again; receipts resolve; disputes are components | 4 vaults of claims in 2 threads, one private: one of 3 claims with 2 changes, three of 4 claims with 1 change; pages of 1 or 2 rows; 2 cursors, so that the cursor of a lost page in the middle is still there for the retry and a second retry finds it evicted; 3 queries that differ in order, mode and matching |
| `owner_recovery` | the promise to the owner, with plain SQL; effects are journaled before and become known | 2 commands (one a forget) so that one can leave residue for the other |
| `guard_checkpoint`, `guard_rollback` | the first two findings below (violations) | the same, `GuardedSpec` |
| `bootstrap` | only whole homes are served | 2 initializers, 2 daemons, a used or an unused home |
| `daemon_ownership` | one owner, no live endpoint removed, none left that locks the next start out | 2 daemons around a third endpoint, 2 lock inodes (one is always free for reuse), 3 socket inodes |
| `pipe_runtime` | own answers, bounded queue, safe and certain stop | 2 workers, a queue of 1 (shorter than in the code, so that abandoned requests fill it), 2 frames |
| `agent_path` | true answers in order, the exchange, the end of the bridge | 2 frames of the host (calls, local, notes, too large) and a call of another process, 1 connection so that the limit is met, 1 stop of the daemon |
| `frame_in_time` | the third finding below (violation) | the same, with two calls and nothing else from the host |

`CHECK_DEADLOCK FALSE` is set where the system stops: at the bounds on the ledger's changes, when all
attempts on a home have ended, when the Windows daemon or the bridge is gone. Symmetry is used only where no
liveness is checked. Every bound is a constant of its module.

`ledger_memory` has no delivery keys, so its ledger has no drafts that a forget could reach. What
`NothingNamesTheForgotten` and `ForgetsWhatWasReviewed` say of drafts is not exercised there: the theorems of
both properties cover it, for any keys. The theorem of `PagesTile` likewise holds for any limit of cursors.

Some properties are conjunctions that one run checks together: `HomesAreWhole` says that what is
published, admitted or locked is whole, `ReviewedOnce` that a proposal is accepted once and nothing purged
or forgotten comes back, `OwnAnswers` that a client gets the answer to its own request and what
can still be run has a client that waits, or a failing thread that is about to withdraw it.

### Fairness

* `AuditStore`: each store step of a connection is weakly fair. SQLite's busy timeout makes
  `SyncBusy` possible whenever the lock is held, so no fairness about the lock is assumed.
* `OwnerRecovery`: the daemon is restarted and goes on with what it serves; the owner repeats
  `recover --nonce`, which is strongly fair since it needs the daemon up and idle.
* `PipeRuntime`: only the owning thread is fair. It polls, its joins have a deadline, and the
  handler returns. Nothing is assumed about the workers.
* `AgentPath`: the bridge's threads run; the deadlines of clients, connections, frames and answers pass; the
  server's loop accepts while it runs. Nothing is assumed about the host, which may stop
  reading or writing, nor that a stopped daemon is started again.

## Proofs

Every invariant and action property of a passing run is also a theorem, and so are two refinements. A theorem
holds for every value of the constants that satisfies the assumption named in its module, so the bounds
of the runs do not limit it: any number of agents, commands, daemons, workers, connections, frames, rows and pages. Each proof
is one inductive invariant, of which TLC checked the candidates before they were proved, and short
deductions from it. `TypeCorrect` is each module's `TypeOK`.

`AuditStoreProofs` (`IInv`). The safety properties are not inductive: that an answered row is in the chain depends
on what a connection between commit and answer has in the chain, and that a loss is noticed depends on
the anchor having been cut from the chain by a connection that held the lock.
`FreshInv` (macs are used once), `PendingInv` (where the rows of a
transaction are at each `pc`), `AnchorInv` (the anchor names a prefix of the chain with every synced
row in it, or the chain is too short for the anchor) and `QuietInv` (what a verification has read
is still the chain, and untouched files are sound) say what is missing. From it follow
`FailedLeavesNoRow`, `CommittedLeavesItsRows`, `VerifyIsSound`, `LossIsNoticed`, and the action
properties `EvidenceIsKept` and `AnchorMovesForward`.

`LedgerProofs` (`LedgerInv`). The tables name each other, and the invariant says pairwise what is there to be named:
full-text rows, threads and relations (`VersionsNamed`), recalls, feedback and provenance. `CorrectionInv` ties
"superseded" to the relation of the one successor, whose id is the moment of retirement; `ReviewInv` ties "accepted" to the
provenance of a version and keeps purged ids out; `RecallInv` adds to `RecallReproducible` that a recall's watermark was
reached; `PreviewInv` that what was previewed may be admitted, so that the deferred write keeps the types.
Fourteen actions on seventeen variables are too many to take one by one: a step is first reduced to its effects (nothing is
forgotten, `Kept`, or a thread is, `Forgotten`; what happens to the timelines, to the proposals, to the approvals), and each
part of the invariant survives each effect.
`TimelinesAreComplete` needs that expiring several versions together appends their sequence numbers each once and in order (`InOrder`), which is shown by
counting how many are at or below one (`TurnIn`).
The action property `ForgetTakesWhatWasReviewed` needs that only `ApplyForget` removes versions, and only in the state that was previewed.

`OwnerRecoveryProofs`. `EffectsAreJournaled` and, for `GuardedSpec`, `GuardedEffectsAreJournaled` rest on
`JournalInv`: whatever the daemon has of an apply, its command had journaled. It is preserved by
guarded dispatch too. `FailuresAreFinal`, `CommitsAreDurable` and `PromiseKept` are theorems of `Spec`;
of `GuardedSpec` they are false, as the findings show. They add `OutcomeInv`: a definite refusal answers an
apply that is gone, a result one that is committed. `PromiseKept` is the
refinement: every step is a step of `OwnerPromise` or a stutter.

`BootstrapProofs` (`BootInv`). `HomesWhole` and the action property `FilesStay` for any number of racing initializers and
daemons. What one step may do to a path, an initializer and a daemon is said once (`Changes`, `Advances`, `Proceeds`); after that no
action is opened again. The capability directory is made exclusively, so one initializer only comes past it, and whoever
comes past a step finds what it made (`Made`); that is why the anchor, the one file that is written by replacement, is never another's.
`Completed` and `Seen`: a completion record's home was whole, and once a daemon has seen an id in both records everything of that id stays.

`DaemonOwnershipProofs` (`IInv`). `OneOwnerAlways`, `LeftEndpointAlwaysReclaimable` and `EndpointsAreKept`, for any set of daemons.
None of the three is inductive: that two daemons never own the store needs that
every open lock file is the one at the path (`LockInv`), that only a holder of the lock goes past
it (`TypeOK`), and that a lock is marked before its endpoint is bound (`MarkInv`); that a live endpoint is kept
needs that what was probed is still dead when it is unlinked (`ProbeInv`), that a listener is closed
before its path is removed (`ClosingInv`), and that behind a live endpoint is a daemon (`EndpointInv`). `OldInv` keeps the older daemon without a lock
apart from the new ones. These hold until somebody removes the lock file, hence
`harm \/ Unharmed` in `IInv`; `CreatedInv`, when a daemon has an
endpoint, holds in any case.

`PipeRuntimeProofs` (`PipeInv`). `AnswersAreOwn`: a request object belongs to one exchange and carries its frame (`Holding`), although
objects are used again, because there is always one to which nothing refers (`FreshExists`, by counting workers, queue and owning
thread). `Queueing` says where an object can be: what may still be run is neither answered nor given up.
`HandlesAreSafe` is `Lifetimes`: `close` discards and closes only after every thread that began has ended, the pipes last.

`ReadPagesProofs` (`PagesInv`). `Follows` relates the cursor to the pages: of what the first page selected and is still there,
exactly that has been shown which does not come behind the cursor's key; nothing is selected later
that was not selected then, since a snapshot's eligibility of a row does not depend on later writes (`SameRow`). `Packed` shows
the first rows and `After` is the last of them (`FirstRows`, `GoesOnBehind`), a fresh token exists (`FreshIsFree`), a repeated request after a lost answer
issues a second cursor that the reader does not hold. `Tiles` and `ReceiptsHold` follow. `DisputesRight` is about the algorithm: `conflict_groups`, a fold over the
overlapping pairs, gives the connected components for any rows (`FoldGroups`, `GroupsAreComponents`), and corrections, expiry and forgetting of other threads leave a page's components what they were,
since overlap of two rows of the snapshot does not depend on a later retirement (`AssessedStays`).

`AgentPathProofs` (`PathInv`). `RequestsAreExchanges` is the refinement `Exchanges` without its fairness: every
step of bridge, clients and server is a step of `Exchange` or a stutter. It needs
that a request is dispatched by the read that completes it and never again
(`DispatchInv`), that a client has a connection from its start to its end (`ConnectedInv`) and that only
connections that nobody has read wait in the backlog (`QueueInv`). One lemma per kind of step says
which turn of which exchange it is (`ActionTurns`, `ServerTurns`). `TypeCorrect` adds the limits (`PlacesInv`: accepting fills no more than the free
places, again by counting). `AnswersTrue` follows the one answer on its way (`RoomInv`, `WholeInv`), the frames
between two answers, which are notes (`ToldInv`, `PlaceInv`), and what the server's part says of a call that was answered (`AnsweredRan`).

### What the proofs assume, and what they leave

Proving brought some assumptions to light that TLC's model values satisfied silently; the code does too:
`None` is no request object (`PipeRuntime`), no key, token or number (`ReadPages`), and "incomplete", which a daemon remembers of a short
record, is no vault id, ids being hexadecimal (`Bootstrap`). In `ReadPages` a claim that mentions a target has a positive score, because a
match has a span that counts (`kernel.py:1289-1295`); with score 0 it would pass for an exact match, whose rank is 0, and its cursor
would go on in the wrong list. There are more tokens than cursors; ids have 128 bits.

Facts about finite sets are proved without an induction rule over an operator, which the provers cannot instantiate: a counting argument is an
injection or a surjection, an ordered finite set has a first element because inclusion of its subsets is well-founded,
and that the fold's recursive function exists, and what it keeps, is shown by a least subset that would violate it.

Model-checked only: liveness, which is out of reach of the provers (`EveryCallReturns`, `EffectBecomesKnown`, `StopEnds`, `BridgeEnds` and the
settling in `Exchanges`), and of course that the three violations below exist.

## Findings

1. **A committed forget can be reported as failed (native Windows).** After the commit of a forget
   the kernel runs `PRAGMA wal_checkpoint(TRUNCATE)` and expects `sqlite3.Error` alone
   (`kernel.py:791-796`). Through a guarded cursor the statement is preceded by a validation
   that raises `MemoryError` (`windows_storage.py:86-88`), with codes the command does not
   take for ambiguous (`cli.py:94-97`). `docs/COMMIT_RECOVERY.md:18-21` promises `checkpoint: deferred`.
   Run `guard_checkpoint`.
2. **A receipt can be reported that was never committed (native Windows).** `rollback` of a
   guarded connection validates first (`windows_storage.py:72-74`). Refused both at the commit and at the
   rollback, the transaction stays open; `admin_recover` reads it on the same connection
   and answers `committed: true`. `docs/COMMIT_RECOVERY.md:127-128,142` ties a receipt to the commit.
   Run `guard_rollback`.

3. **A frame that was read in time can be refused as incomplete.** `read_frame` compares the clock with the
   frame's deadline before it takes the next chunk from the queue (`stdio.py:86-88`); the comparison with the
   chunk's own arrival (`stdio.py:97-98`) comes too late. When a chunk ends one frame and begins
   another, and the first one's call takes longer than `READ_TIMEOUT` (2 s; `CLIENT_TIMEOUT` is 5 s), the second
   frame is refused and the bridge exits with 2, although its end was read in time and waits in the
   queue. `docs/architecture/001-process-topology.md:51-54` gives the deadline and the exit to unfinished frames. In the trace of run
   `frame_in_time` both frames are calls: the second's first piece comes with the first's last, its own last piece is queued while the
   first call runs into its timeout, and after that call's answer the second frame is refused.

## Not modelled, and the plan

* `feedback` and the recording of a recall check eligibility before they begin their transaction.
  In the model, as in the daemon, requests are serialized, which is what makes it safe.
* `migrations.py` runs in one transaction on the daemon's only connection before it serves, and checks the
  version again under the write lock; its content is SQL.
* The approval broker and the polkit helper are process, terminal and cryptographic boundaries. Key
  provisioning of the helper, which publishes two files, would be worth a module of its own.
* The Windows pipe primitives and the guard's handle pinning below `PipeRuntime` and `OwnerRecovery`, and
  other host boundaries (`security.py`, `windows_boundary.py`, `macos_acl.py`, `peer.py`), are native
  checks that a step passes or fails.
* `explain` and `lookup` read without paging and change nothing.
* Next proofs: what keeps the liveness properties from failing for a safety reason, for example that a
  worker that waits has its request in the queue, with the owning thread or answered (`PipeRuntime`), and that
  a frame that one chunk begins and ends is never refused as incomplete (`StdioBridge`).
* Cryptography, text predicates, wire formats and permission checks stay outside.
