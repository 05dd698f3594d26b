------------------------------- MODULE Ledger -------------------------------
(***************************************************************************)
(* The kernel's ledger of one project (kernel.py, proposals.py, forget.py,  *)
(* projection.py, results.py): proposals of the agents, the owner's         *)
(* approved mutations, retention, recalls and feedback, over the tables of  *)
(* one SQLite database.  The daemon runs one request at a time; a request   *)
(* is up to three transactions (purge what is due, expire what is due, the  *)
(* operation), between which the clock moves and the daemon may stop.       *)
(*                                                                          *)
(* A row is a record; a table is a set of rows; random identifiers are      *)
(* unique, so the sequence number of a row's creation stands for its id.    *)
(***************************************************************************)
EXTENDS Naturals, Sequences, FiniteSets, Functions

CONSTANTS Agent,       \* providers with a capability in the project
          Subject, Body, Key,
          Disclosure,  \* the audiences a claim may be disclosed to
          Retention,   \* deadlines a claim may carry
          Forever,     \* ... and the absence of one
          GrantTTL,    \* lifetime of an approval challenge
          MaxTime,     \* bound: the clock
          MaxSeq,      \* bound: rows created
          MaxNonce,    \* bound: previews issued
          MaxRecall    \* bound: searches recorded

ASSUME ConstantsAssumption ==
    /\ Disclosure \subseteq SUBSET Agent
    /\ Forever \notin Nat
    /\ Retention \subseteq Nat \cup {Forever}
    /\ {GrantTTL, MaxTime, MaxSeq, MaxNonce, MaxRecall} \subseteq Nat

VARIABLES now,         \* the clock
          phase,       \* progress of the request being served
          seq,         \* table sequence
          threads,     \* table claim_threads
          versions,    \* table assertion_versions, with its disclosures
          fts,         \* table assertion_fts: the indexed versions
          relations,   \* table relations
          provenance,  \* table provenance_activities
          proposals,   \* table proposals, with its reviews
          tombstones,  \* table proposal_tombstones
          audience,    \* table audience_sequences: per provider, in local order
          recalls,     \* table recalls
          feedback,    \* table feedback
          challenges,  \* table admin_challenges
          receipts,    \* table admin_results
          nonces,      \* number of nonces issued so far
          applied      \* history: how often an approval took effect

memory == <<threads, versions, fts, relations>>
reading == <<audience, recalls, feedback>>
approval == <<challenges, receipts, nonces, applied>>
vars == <<now, phase, seq, memory, provenance, proposals, tombstones, reading, approval>>

\* A retention deadline that has been reached.
Passed(deadline) == deadline # Forever /\ deadline <= now

-----------------------------------------------------------------------------
(***************************************************************************)
(* Rows and what the operations compute from them.                          *)
(***************************************************************************)
NULL == 0    \* sequence numbers start at 1

Current(v) == v.retired = NULL
VersionsOf(thread) == {v \in versions : v.thread = thread}
Ids(rows) == {row.id : row \in rows}

\* Mutant: a version is eligible only while it is current.
EligibleCurrent(v, agent, recorded) == v.id <= recorded /\ agent \in v.disclosure /\ Current(v)

\* Eligibility, current mode, for an agent at a recorded sequence
Eligible(v, agent, recorded) ==
    /\ v.id <= recorded
    /\ agent \in v.disclosure
    /\ v.retired = NULL \/ v.retired > recorded

VisibleTo(agent, recorded) == {v \in versions : Eligible(v, agent, recorded)}

\* Mutant: only the audience of the version that came in is told.
AudienceOfNew(timeline, recorded, rows) ==
    [a \in Agent |-> IF \E v \in rows : v.id = recorded /\ a \in v.disclosure
                     THEN Append(timeline[a], recorded) ELSE timeline[a]]

\* record_audience_change: one new entry for each audience of the given versions
AudienceChange(timeline, recorded, rows) ==
    [a \in Agent |-> IF \E v \in rows : a \in v.disclosure
                     THEN Append(timeline[a], recorded) ELSE timeline[a]]

\* _eligibility, as_of_recorded of an agent: local to recorded sequence
RecordedOf(agent, local) == IF local = 0 THEN 0 ELSE audience[agent][local]

\* purge_proposals: tombstones of the rows, in the given transaction
Tombstones(rows, sequence) ==
    {[provider |-> p.provider, key |-> p.key, proposal |-> p.id, purged |-> sequence] : p \in rows}
WithoutTargets(ids) == {a \in provenance : a.target \notin ids}

\* Mutant: tombstones are not consulted.
NeverSuppressed(agent, key) == FALSE

\* check_delivery
Suppressed(agent, key) == \E t \in tombstones : t.provider = agent /\ t.key = key

(***************************************************************************)
(* The exact state an approval covers.  The digest of a scope is the scope. *)
(***************************************************************************)

DraftsOf(thread) == {p \in proposals : \E t \in threads : t.id = thread /\ t.subject = p.subject}

\* forget_scope
ForgetScope(thread) ==
    LET ids == Ids(VersionsOf(thread))
        drafts == DraftsOf(thread)
    IN  [threads    |-> {t \in threads : t.id = thread},
         versions   |-> VersionsOf(thread),
         feedback   |-> {f \in feedback : f.assertion \in ids},
         proposals  |-> drafts,
         provenance |-> {a \in provenance : a.target \in ids \cup Ids(drafts)},
         relations  |-> {r \in relations : r.from \in ids \/ r.to \in ids},
         fts        |-> fts \cap ids,
         recalls    |-> {r \in recalls : r.ids \cap ids # {}}]

\* versions a proposal was accepted into
AcceptedFrom(id) ==
    {v \in versions : \E a \in provenance : a.target = v.id /\ a.kind = "proposal_acceptance" /\ id \in a.inputs}

\* proposal_scope
ProposalScope(id) ==
    [proposals  |-> {p \in proposals : p.id = id},
     provenance |-> {a \in provenance : a.target = id},
     accepted   |-> AcceptedFrom(id)]

(***************************************************************************)
(* admin_preview: what the owner may be asked to approve.                   *)
(***************************************************************************)
Content == [body: Body, retention: Retention, disclosure: Disclosure]
Future == {c \in Content : ~Passed(c.retention)}

RememberPreviews == {[op |-> "remember", subject |-> s, content |-> c] : s \in Subject, c \in Future}

ReviewPreviews ==
    {[op |-> o, proposal |-> p.id, subject |-> p.subject, scope |-> ProposalScope(p.id),
      content |-> [body |-> p.body, retention |-> p.retention, disclosure |-> p.disclosure]] :
        o \in {"accept_proposal", "reject_proposal"}, p \in {q \in proposals : q.status = "proposed"}}

CorrectPreviews ==
    {[op |-> "correct", target |-> v.id, content |-> c,
      subject |-> (CHOOSE t \in threads : t.id = v.thread).subject] :
        v \in {w \in versions : Current(w)}, c \in Future}

\* The target is a thread, one of its versions, or a proposal accepted into it.
ForgetPreviews ==
    {[op |-> "forget", thread |-> t.id, scope |-> ForgetScope(t.id)] : t \in threads}
    \cup {[op |-> "forget_proposal", proposal |-> p.id, scope |-> ProposalScope(p.id)] :
            p \in {q \in proposals : q.status # "accepted" /\ AcceptedFrom(q.id) = {}}}

-----------------------------------------------------------------------------
Init ==
    /\ now = 0 /\ phase = "idle" /\ seq = 0
    /\ threads = {} /\ versions = {} /\ fts = {} /\ relations = {}
    /\ provenance = {} /\ proposals = {} /\ tombstones = {}
    /\ audience = [a \in Agent |-> <<>>] /\ recalls = {} /\ feedback = {}
    /\ challenges = {} /\ receipts = {} /\ nonces = 0
    /\ applied = [n \in 1 .. MaxNonce |-> 0]

Tick ==
    /\ now < MaxTime
    /\ now' = now + 1
    /\ UNCHANGED <<phase, seq, memory, provenance, proposals, tombstones, reading, approval>>

(***************************************************************************)
(* _expire_due: both transactions run before the operation's own.           *)
(***************************************************************************)
DueProposals == {p \in proposals : p.status = "rejected" \/ Passed(p.retention)}
DueVersions == {v \in versions : v.lifecycle = "active" /\ Current(v) /\ Passed(v.retention)}

\* Rows are taken in creation order, each with the next sequence number.
TurnOf(row, rows) == seq + Cardinality({r \in rows : r.id <= row.id})

\* _purge_due_proposals, whatever the status of the proposal
PurgeDue ==
    /\ phase = "idle"
    /\ phase' = "purged"
    /\ proposals' = proposals \ DueProposals
    /\ tombstones' = tombstones \cup UNION {Tombstones({p}, TurnOf(p, DueProposals)) : p \in DueProposals}
    /\ provenance' = WithoutTargets(Ids(DueProposals))
    /\ seq' = seq + Cardinality(DueProposals)
    /\ UNCHANGED <<now, memory, reading, approval>>

\* A set of numbers, in increasing order.
InOrder(numbers) ==
    LET turn(n) == Cardinality({m \in numbers : m <= n})
    IN  [i \in 1 .. Cardinality(numbers) |-> CHOOSE n \in numbers : turn(n) = i]

\* The versions that fall due are retired in turn, each with its audiences told.
ExpireDue ==
    /\ phase = "purged"
    /\ phase' = "ready"
    /\ versions' = {IF v \in DueVersions
                    THEN [v EXCEPT !.lifecycle = "expired", !.retired = TurnOf(v, DueVersions)]
                    ELSE v : v \in versions}
    /\ audience' = [a \in Agent |->
         audience[a] \o InOrder({TurnOf(v, DueVersions) : v \in {w \in DueVersions : a \in w.disclosure}})]
    /\ seq' = seq + Cardinality(DueVersions)
    /\ UNCHANGED <<now, threads, fts, relations, provenance, proposals, tombstones,
                   recalls, feedback, approval>>

\* The request ends without (further) effect: a read, a refusal, a replay of a
\* live delivery, or the daemon stopping between two transactions.
EndRequest ==
    /\ phase # "idle"
    /\ phase' = "idle"
    /\ UNCHANGED <<now, seq, memory, provenance, proposals, tombstones, reading, approval>>

\* The operation's own transaction is the last step of its request.
Serve == phase = "ready" /\ phase' = "idle"
NextSequence == seq' = seq + 1
MayCreate == seq < MaxSeq

(***************************************************************************)
(* The agents' operations.                                                  *)
(***************************************************************************)

\* propose, of a delivery that is neither purged nor live
Propose(agent, key, subject, content) ==
    /\ Serve /\ MayCreate
    /\ ~Suppressed(agent, key)
    /\ \A p \in proposals : ~(p.provider = agent /\ p.key = key)
    /\ ~Passed(content.retention)
    /\ NextSequence
    /\ proposals' = proposals \cup
         {[id |-> seq', subject |-> subject, body |-> content.body, retention |-> content.retention,
           disclosure |-> content.disclosure, status |-> "proposed", provider |-> agent, key |-> key]}
    /\ provenance' = provenance \cup {[target |-> seq', kind |-> "agent_proposal", inputs |-> {}]}
    /\ UNCHANGED <<now, memory, tombstones, reading, approval>>

\* search or context at the present: everything eligible, one recall row
Search(agent) ==
    /\ Serve
    /\ Cardinality(recalls) < MaxRecall
    /\ recalls' = recalls \cup
         {[id |-> Cardinality(recalls) + 1, provider |-> agent,
           watermark |-> Len(audience[agent]), ids |-> Ids(VisibleTo(agent, seq))]}
    /\ UNCHANGED <<now, seq, memory, provenance, proposals, tombstones, audience, feedback, approval>>

\* feedback on an item of an earlier recall that is eligible now, or was in the
\* snapshot if the recall is pinned to one (which recalls are is left open)
Feedback(recall, item) ==
    /\ Serve /\ MayCreate
    /\ item \in recall.ids
    /\ \E recorded \in {seq, RecordedOf(recall.provider, recall.watermark)} :
         item \in Ids(VisibleTo(recall.provider, recorded))
    /\ NextSequence
    /\ feedback' = feedback \cup {[id |-> seq', recall |-> recall.id, assertion |-> item]}
    /\ UNCHANGED <<now, memory, provenance, proposals, tombstones, audience, recalls, approval>>

(***************************************************************************)
(* The owner's operations: a preview, and its one approved application.     *)
(***************************************************************************)

\* Mutant: the receipts go with the challenges they came from.
PreviewCascades(preview) ==
    /\ Serve
    /\ nonces < MaxNonce
    /\ nonces' = nonces + 1
    /\ challenges' = {c \in challenges : c.expires >= now /\ ~c.used} \cup
         {[nonce |-> nonces', preview |-> preview, expires |-> now + GrantTTL, used |-> FALSE]}
    /\ receipts' = {r \in receipts : ~ \E c \in challenges \ challenges' : c.nonce = r.nonce}
    /\ UNCHANGED <<now, seq, memory, provenance, proposals, tombstones, reading, applied>>

\* admin_preview: stale and used challenges go, a new one is stored.
AdminPreview(preview) ==
    /\ Serve
    /\ nonces < MaxNonce
    /\ nonces' = nonces + 1
    /\ challenges' = {c \in challenges : c.expires >= now /\ ~c.used} \cup
         {[nonce |-> nonces', preview |-> preview, expires |-> now + GrantTTL, used |-> FALSE]}
    /\ UNCHANGED <<now, seq, memory, provenance, proposals, tombstones, reading, receipts, applied>>

\* admin_apply: the checks, used_at and save_result, in the operation's transaction
Approved(c) == Serve /\ ~c.used /\ c.expires >= now
Consume(c) ==
    /\ \A r \in receipts : r.nonce # c.nonce    \* primary key of admin_results
    /\ challenges' = (challenges \ {c}) \cup {[c EXCEPT !.used = TRUE]}
    /\ receipts' = receipts \cup {[nonce |-> c.nonce, op |-> c.preview.op, recorded |-> seq']}
    /\ applied' = [applied EXCEPT ![c.nonce] = @ + 1]
    /\ nonces' = nonces

\* The thread of a subject, created with this sequence number when there is none.
ThreadFor(subject, sequence) ==
    IF \E t \in threads : t.subject = subject
    THEN CHOOSE t \in threads : t.subject = subject
    ELSE [id |-> sequence, subject |-> subject]

NewVersion(preview, sequence) ==
    [id |-> sequence, thread |-> ThreadFor(preview.subject, sequence).id, body |-> preview.content.body,
     retention |-> preview.content.retention, disclosure |-> preview.content.disclosure,
     lifecycle |-> "active", retired |-> NULL]

\* _accept_preview: a new version, superseding the given current ones (at most one)
Accept(preview, superseded, kind, inputs) ==
    /\ MayCreate
    /\ ~Passed(preview.content.retention)
    /\ NextSequence
    /\ LET new == NewVersion(preview, seq') IN
         /\ threads' = threads \cup {ThreadFor(preview.subject, seq')}
         /\ versions' = {IF v \in superseded
                         THEN [v EXCEPT !.lifecycle = "superseded", !.retired = seq'] ELSE v :
                         v \in versions} \cup {new}
         /\ fts' = fts \cup {new.id}
         /\ relations' = relations \cup {[from |-> new.id, to |-> v.id] : v \in superseded}
         /\ provenance' = provenance \cup {[target |-> new.id, kind |-> kind, inputs |-> inputs]}
         /\ audience' = AudienceChange(audience, seq', superseded \cup {new})

\* Mutant: any version of the subject can be the target of a correction.
AnyOf(subject) == {v \in versions : \E t \in threads : t.id = v.thread /\ t.subject = subject}
ActiveOf(subject) ==
    {v \in versions : Current(v) /\ v.lifecycle = "active"
                      /\ \E t \in threads : t.id = v.thread /\ t.subject = subject}
NotADuplicate(preview) == \A v \in ActiveOf(preview.subject) : v.body # preview.content.body

ApplyRemember(c) ==
    /\ c.preview.op = "remember"
    /\ Approved(c)
    /\ NotADuplicate(c.preview)
    /\ Accept(c.preview, {}, "user_remember", {})
    /\ Consume(c)
    /\ UNCHANGED <<now, proposals, tombstones, recalls, feedback>>

ApplyCorrect(c) ==
    /\ c.preview.op = "correct"
    /\ Approved(c)
    /\ \E v \in ActiveOf(c.preview.subject) :
         /\ v.id = c.preview.target
         /\ Accept(c.preview, {v}, "user_correction", {v.id})
    /\ Consume(c)
    /\ UNCHANGED <<now, proposals, tombstones, recalls, feedback>>

\* check_proposal_scope
ProposalUnchanged(preview) == preview.scope = ProposalScope(preview.proposal)

\* Mutant: the preview is taken for the proposal, which is not read again.
AcceptUnread(c) ==
    /\ c.preview.op = "accept_proposal"
    /\ Approved(c)
    /\ proposals' = {IF p.id = c.preview.proposal THEN [p EXCEPT !.status = "accepted"] ELSE p : p \in proposals}
    /\ NotADuplicate(c.preview)
    /\ Accept(c.preview, {}, "proposal_acceptance", {c.preview.proposal})
    /\ Consume(c)
    /\ UNCHANGED <<now, tombstones, recalls, feedback>>

ApplyAccept(c) ==
    /\ c.preview.op = "accept_proposal"
    /\ Approved(c)
    /\ ProposalUnchanged(c.preview)
    /\ \E p \in proposals :
         /\ p.id = c.preview.proposal
         /\ p.status = "proposed"
         /\ proposals' = (proposals \ {p}) \cup {[p EXCEPT !.status = "accepted"]}
    /\ NotADuplicate(c.preview)
    /\ Accept(c.preview, {}, "proposal_acceptance", {c.preview.proposal})
    /\ Consume(c)
    /\ UNCHANGED <<now, tombstones, recalls, feedback>>

\* Mutant: a rejection only marks the row.
KeepRejected(rows) ==
    /\ proposals' = (proposals \ rows) \cup {[p EXCEPT !.status = "rejected"] : p \in rows}
    /\ tombstones' = tombstones \cup Tombstones(rows, seq')

\* purge_proposals with the operation's sequence number
Purge(rows) ==
    /\ proposals' = proposals \ rows
    /\ tombstones' = tombstones \cup Tombstones(rows, seq')

ApplyReject(c) ==
    /\ c.preview.op = "reject_proposal"
    /\ Approved(c)
    /\ ProposalUnchanged(c.preview)
    /\ NextSequence
    /\ \E p \in proposals :
         /\ p.id = c.preview.proposal
         /\ p.status = "proposed"
         /\ Purge({p})
    /\ provenance' = WithoutTargets({c.preview.proposal})
    /\ Consume(c)
    /\ UNCHANGED <<now, memory, reading>>

\* _forget_proposal_apply
ApplyForgetProposal(c) ==
    /\ c.preview.op = "forget_proposal"
    /\ Approved(c)
    /\ ProposalUnchanged(c.preview)
    /\ c.preview.scope.accepted = {}
    /\ NextSequence
    /\ \E p \in proposals :
         /\ p.id = c.preview.proposal
         /\ p.status # "accepted"
         /\ Purge({p})
    /\ provenance' = WithoutTargets({c.preview.proposal})
    /\ Consume(c)
    /\ UNCHANGED <<now, memory, reading>>

\* Mutant: what changed since the review does not matter.
ScopeIgnored(preview) == preview.op = "forget"

\* check of the forget scope
ScopeUnchanged(preview) == preview.scope = ForgetScope(preview.thread)

\* Mutant: the recorded results of earlier searches are left alone.
RecallsKept(ids) == recalls
RecallsWithout(ids) == {[r EXCEPT !.ids = @ \ ids] : r \in recalls}

\* _forget_apply: the thread, its versions and everything that names them
ApplyForget(c) ==
    /\ c.preview.op = "forget"
    /\ Approved(c)
    /\ ScopeUnchanged(c.preview)
    /\ NextSequence
    /\ LET gone == VersionsOf(c.preview.thread)
           drafts == DraftsOf(c.preview.thread)
       IN  /\ audience' = AudienceChange(audience, seq', gone)
           /\ feedback' = {f \in feedback : f.assertion \notin Ids(gone)}
           /\ recalls' = RecallsWithout(Ids(gone))
           /\ fts' = fts \ Ids(gone)
           /\ provenance' = WithoutTargets(Ids(gone) \cup Ids(drafts))
           /\ Purge(drafts)
           /\ threads' = {t \in threads : t.id # c.preview.thread}
           /\ versions' = versions \ gone
           /\ relations' = {r \in relations : {r.from, r.to} \cap Ids(gone) = {}}
    /\ Consume(c)
    /\ UNCHANGED now

Next ==
    \/ Tick
    \/ PurgeDue
    \/ ExpireDue
    \/ EndRequest
    \/ \E a \in Agent, k \in Key, s \in Subject, c \in Content : Propose(a, k, s, c)
    \/ \E a \in Agent : Search(a)
    \/ \E r \in recalls : \E item \in r.ids : Feedback(r, item)
    \/ \E p \in RememberPreviews \cup ReviewPreviews \cup CorrectPreviews \cup ForgetPreviews : AdminPreview(p)
    \/ \E c \in challenges :
         \/ ApplyRemember(c) \/ ApplyCorrect(c) \/ ApplyAccept(c)
         \/ ApplyReject(c) \/ ApplyForgetProposal(c) \/ ApplyForget(c)

Spec == Init /\ [][Next]_vars

-----------------------------------------------------------------------------
(***************************************************************************)
(* Properties.                                                              *)
(***************************************************************************)
Sequence == 0 .. seq
PreviewOps == {"remember", "correct", "accept_proposal", "reject_proposal", "forget", "forget_proposal"}

TypeOK ==
    /\ now \in 0 .. MaxTime /\ phase \in {"idle", "purged", "ready"} /\ seq \in Nat
    /\ threads \subseteq [id: Sequence, subject: Subject]
    /\ versions \subseteq [id: Sequence, thread: Sequence, body: Body, retention: Retention, disclosure: Disclosure,
                           lifecycle: {"active", "superseded", "expired"}, retired: Sequence]
    /\ fts \subseteq Sequence
    /\ relations \subseteq [from: Sequence, to: Sequence]
    /\ provenance \subseteq [target: Sequence, inputs: SUBSET Sequence,
                             kind: {"agent_proposal", "user_remember", "proposal_acceptance", "user_correction"}]
    /\ proposals \subseteq [id: Sequence, subject: Subject, body: Body, retention: Retention, disclosure: Disclosure,
                            status: {"proposed", "accepted"}, provider: Agent, key: Key]
    /\ tombstones \subseteq [provider: Agent, key: Key, proposal: Sequence, purged: Sequence]
    /\ audience \in [Agent -> Seq(Sequence)]
    /\ recalls \subseteq [id: 1 .. MaxRecall, provider: Agent, watermark: Nat, ids: SUBSET Sequence]
    /\ feedback \subseteq [id: Sequence, recall: 1 .. MaxRecall, assertion: Sequence]
    /\ \A c \in challenges : /\ DOMAIN c = {"nonce", "preview", "expires", "used"}
                             /\ c.nonce \in 1 .. nonces /\ c.expires \in Nat /\ c.used \in BOOLEAN
                             /\ c.preview.op \in PreviewOps
    /\ receipts \subseteq [nonce: 1 .. nonces, op: PreviewOps, recorded: Sequence]
    /\ nonces \in 0 .. MaxNonce
    /\ applied \in [1 .. MaxNonce -> Nat]

\* A delivery key of an agent is live in at most one proposal, and in none
\* once any proposal sent under it has been purged.
OneLiveDelivery ==
    /\ \A p, q \in proposals : p.provider = q.provider /\ p.key = q.key => p = q
    /\ \A p \in proposals, t \in tombstones : ~(t.provider = p.provider /\ t.key = p.key)

\* A proposal that was rejected, forgotten or purged at its deadline does not
\* become memory afterwards, not by an acceptance approved while it was live.
PurgedNeverAdmitted ==
    \A t \in tombstones, a \in provenance :
        a.kind = "proposal_acceptance" /\ t.proposal \in a.inputs => a.target < t.purged

\* One proposal gives at most one version, however many acceptances of it were
\* previewed, and an accepted proposal has its version (its foreign key).
AcceptedOnce ==
    /\ \A p \in proposals : p.status = "accepted" => AcceptedFrom(p.id) # {}
    /\ \A v, w \in versions, a, b \in provenance :
         /\ a.target = v.id /\ b.target = w.id
         /\ a.kind = "proposal_acceptance" /\ b.kind = "proposal_acceptance"
         /\ a.inputs = b.inputs
         => v = w

\* The review of a proposal is decided once: one version, or none for ever.
ReviewedOnce == AcceptedOnce /\ PurgedNeverAdmitted

\* An approval takes effect at most once, and has a receipt exactly if it did:
\* also after its challenge is cleaned up and what it did is forgotten.
OncePerApproval ==
    \A n \in 1 .. MaxNonce :
        /\ applied[n] <= 1
        /\ applied[n] = 1 <=> \E r \in receipts : r.nonce = n

\* Corrections form a chain: a superseded version has one successor, in its
\* own thread, retired at the moment the successor came in.
CorrectionsDoNotFork ==
    \A v \in versions :
        /\ Cardinality({r \in relations : r.to = v.id}) = (IF v.lifecycle = "superseded" THEN 1 ELSE 0)
        /\ \A r \in relations : r.to = v.id =>
             \E w \in versions : w.id = r.from /\ w.thread = v.thread /\ v.retired = w.id

\* No index entry, recall, feedback or relation names a version that forget
\* removed, no provenance a version or proposal that is gone, and no version is
\* without its thread.  (Receipts and the audit chain keep identifiers.)
NothingNamesTheForgotten ==
    /\ fts = Ids(versions)
    /\ \A v \in versions : v.thread \in Ids(threads)
    /\ \A r \in recalls : r.ids \subseteq Ids(versions)
    /\ \A f \in feedback : f.assertion \in Ids(versions)
    /\ \A r \in relations : {r.from, r.to} \subseteq Ids(versions)
    /\ \A a \in provenance : a.target \in Ids(versions) \cup Ids(proposals)

\* Every sequence number an agent can be shown is in its own timeline, and the
\* timeline increases: _visible_sequence never meets an unknown one.
TimelineComplete ==
    \A a \in Agent :
        /\ \A i, j \in DOMAIN audience[a] : i < j => audience[a][i] < audience[a][j]
        /\ \A v \in versions : a \in v.disclosure =>
             {v.id, v.retired} \ {NULL} \subseteq Range(audience[a])

\* A search can be repeated: asking as of the watermark an agent was given
\* finds what it found then, less what has been forgotten since, and nothing
\* else, whatever was corrected, expired or admitted for anyone in between.
RecallReproducible ==
    \A r \in recalls : r.ids = Ids(VisibleTo(r.provider, RecordedOf(r.provider, r.watermark)))

\* A forget deletes what its preview listed and nothing more: versions,
\* proposals and feedback that came after the review are not lost with it.
ForgetsWhatWasReviewed ==
    [][LET gone == {v \in versions : v.id \notin Ids(versions')}
       IN  gone # {} => \E c \in challenges :
             /\ applied'[c.nonce] = applied[c.nonce] + 1
             /\ c.preview.op = "forget"
             /\ gone = c.preview.scope.versions
             /\ proposals \ proposals' = c.preview.scope.proposals
             /\ feedback \ feedback' = c.preview.scope.feedback]_vars

=============================================================================
