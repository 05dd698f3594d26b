---------------------------- MODULE LedgerProofs ----------------------------
(***************************************************************************)
(* Proofs about Ledger, for any agents, subjects, keys, audiences and       *)
(* deadlines and any bound on the clock, the rows, the previews and the     *)
(* recalls.                                                                 *)
(*                                                                          *)
(* The inductive invariant relates the tables pairwise: what each may name  *)
(* in the others.  A step is taken apart by what it does to the tables of   *)
(* memory (nothing is forgotten: Kept, or a thread is: Forgotten), to the   *)
(* timelines (AudienceMove), to the proposals (Purged, Accepted, or one     *)
(* comes in) and to the approvals (Consume), and each part of the invariant *)
(* is shown to survive each effect, before the steps are put together.      *)
(***************************************************************************)
EXTENDS Ledger, FiniteSetTheorems, SequenceTheorems, TLAPS

-----------------------------------------------------------------------------
(***************************************************************************)
(* The invariant.                                                           *)
(***************************************************************************)

\* TypeOK, by table.
Kinds == {"agent_proposal", "user_remember", "proposal_acceptance", "user_correction"}
VersionRows(n) == [id: 0 .. n, thread: 0 .. n, body: Body, retention: Retention, disclosure: Disclosure,
                   lifecycle: {"active", "superseded", "expired"}, retired: 0 .. n]
ProposalRows(n) == [id: 0 .. n, subject: Subject, body: Body, retention: Retention, disclosure: Disclosure,
                    status: {"proposed", "accepted"}, provider: Agent, key: Key]

ClockTypes == now \in 0 .. MaxTime /\ phase \in {"idle", "purged", "ready"} /\ seq \in Nat
MemoryTypes ==
    /\ threads \subseteq [id: 0 .. seq, subject: Subject]
    /\ versions \subseteq VersionRows(seq)
    /\ fts \subseteq 0 .. seq
    /\ relations \subseteq [from: 0 .. seq, to: 0 .. seq]
ReviewTypes ==
    /\ provenance \subseteq [target: 0 .. seq, inputs: SUBSET (0 .. seq), kind: Kinds]
    /\ proposals \subseteq ProposalRows(seq)
    /\ tombstones \subseteq [provider: Agent, key: Key, proposal: 0 .. seq, purged: 0 .. seq]
RecallTypes ==
    /\ recalls \subseteq [id: 1 .. MaxRecall, provider: Agent, watermark: Nat, ids: SUBSET (0 .. seq)]
    /\ feedback \subseteq [id: 0 .. seq, recall: 1 .. MaxRecall, assertion: 0 .. seq]
AudienceTypes == audience \in [Agent -> Seq(0 .. seq)]
ChallengeTypes ==
    \A c \in challenges : /\ DOMAIN c = {"nonce", "preview", "expires", "used"}
                          /\ c.nonce \in 1 .. nonces /\ c.expires \in Nat /\ c.used \in BOOLEAN
                          /\ c.preview.op \in PreviewOps
ApprovalTypes ==
    /\ ChallengeTypes
    /\ receipts \subseteq [nonce: 1 .. nonces, op: PreviewOps, recorded: 0 .. seq]
    /\ nonces \in 0 .. MaxNonce
    /\ applied \in [1 .. MaxNonce -> Nat]

\* Rows are told apart by their ids, also those of different tables, and
\* threads by their subjects.
VersionsApart == /\ \A v, w \in versions : v.id = w.id => v = w
                 /\ NULL \notin Ids(versions)
ProposalsApart == \A p, q \in proposals : p.id = q.id => p = q
TablesApart == \A v \in versions, p \in proposals : v.id # p.id
ThreadsApart == \A t, u \in threads : t.subject = u.subject => t = u

\* What each table names in the others is there.
VersionsNamed == /\ fts = Ids(versions)
                 /\ \A v \in versions : v.thread \in Ids(threads)
                 /\ \A r \in relations : {r.from, r.to} \subseteq Ids(versions)
RecallsNamed == \A r \in recalls : r.ids \subseteq Ids(versions)
FeedbackNamed == \A f \in feedback : f.assertion \in Ids(versions)
ProvenanceNamed == \A a \in provenance : a.target \in Ids(versions) \cup Ids(proposals)

\* A version is superseded exactly by the relation of its one successor.
CorrectionInv ==
    /\ \A v \in versions : v.lifecycle = "superseded" => \E r \in relations : r.to = v.id
    /\ \A r \in relations : \E v, w \in versions :
         /\ v.id = r.to /\ w.id = r.from /\ w.thread = v.thread
         /\ v.lifecycle = "superseded" /\ v.retired = w.id

\* A search can be repeated, from a watermark that its agent's timeline has reached.
RecallInv ==
    /\ RecallReproducible
    /\ \A r \in recalls : r.watermark <= Len(audience[r.provider])

Acceptances == {a \in provenance : a.kind = "proposal_acceptance"}

\* An accepted proposal has a version in the thread of its subject, and a
\* proposal named by an acceptance has been accepted.
AcceptedHasVersion ==
    \A p \in proposals : p.status = "accepted" =>
      \E v \in versions, a \in Acceptances, t \in threads :
         a.target = v.id /\ p.id \in a.inputs /\ t.id = v.thread /\ t.subject = p.subject
NamedIsAccepted == \A p \in proposals, a \in Acceptances : p.id \in a.inputs => p.status = "accepted"
InputsDecide == \A a, b \in Acceptances : a.inputs = b.inputs => a.target = b.target
PurgedIsGone == \A t \in tombstones, p \in proposals : t.proposal # p.id

ReviewInv == AcceptedHasVersion /\ NamedIsAccepted /\ InputsDecide /\ PurgedIsGone /\ PurgedNeverAdmitted

\* What a preview would admit is something an agent or the owner may state.
PreviewInv ==
    \A c \in challenges :
        c.preview.op \in {"remember", "correct", "accept_proposal"} =>
            /\ c.preview.subject \in Subject
            /\ c.preview.content \in Content
            /\ c.preview.op = "accept_proposal" =>
                 \E p \in c.preview.scope.proposals :
                    p.id = c.preview.proposal /\ p.subject = c.preview.subject

MemoryInv == MemoryTypes /\ VersionsApart /\ ThreadsApart /\ CorrectionInv /\ VersionsNamed
TimelineInv == AudienceTypes /\ TimelineComplete
ReviewedInv ==
    /\ ReviewTypes /\ OneLiveDelivery /\ ProposalsApart /\ TablesApart /\ ProvenanceNamed
    /\ ReviewInv
ReadInv == RecallTypes /\ IsFiniteSet(recalls) /\ RecallInv /\ FeedbackNamed
ApprovalInv == ApprovalTypes /\ PreviewInv /\ OncePerApproval

LedgerInv == ClockTypes /\ MemoryInv /\ TimelineInv /\ ReviewedInv /\ ReadInv /\ ApprovalInv

-----------------------------------------------------------------------------
(***************************************************************************)
(* Numbers in increasing order, and the turns of a set of rows.             *)
(***************************************************************************)
\* The place of a number among the numbers of a set.
TurnIn(numbers, n) == Cardinality({m \in numbers : m <= n})

\* A member of a finite set of numbers has one of as many places as there are members.
LEMMA TurnBounds ==
    ASSUME NEW S \in SUBSET Nat, IsFiniteSet(S), NEW n \in S
    PROVE  TurnIn(S, n) \in 1 .. Cardinality(S)
    <1>. DEFINE below == {m \in S : m <= n}
    <1>1. IsFiniteSet(below) /\ Cardinality(below) <= Cardinality(S) /\ Cardinality(S) \in Nat
        BY FS_Subset, FS_CardinalityType
    <1>2. Cardinality(below) \in Nat /\ Cardinality(below) # 0
        <2>1. n \in below
            OBVIOUS
        <2>. QED
            BY <1>1, <2>1, FS_CardinalityType, FS_EmptySet
    <1>. QED
        BY <1>1, <1>2 DEF TurnIn

\* A larger member has a later place.
LEMMA TurnIncreases ==
    ASSUME NEW S \in SUBSET Nat, IsFiniteSet(S), NEW m \in S, NEW n \in S, m < n
    PROVE  TurnIn(S, m) < TurnIn(S, n)
    <1>. DEFINE below(k) == {j \in S : j <= k}
    <1>1. IsFiniteSet(below(n))
        BY FS_Subset
    <1>2. m \in Nat /\ n \in Nat /\ (\A j \in S : j \in Nat)
        OBVIOUS
    <1>5. ASSUME NEW j \in below(m) PROVE j \in below(n)
        <2>1. j \in S /\ j \in Nat /\ j <= m
            BY <1>2
        <2>. QED
            BY <1>2, <2>1
    <1>6. n \in below(n) /\ n \notin below(m)
        BY <1>2
    <1>3. Cardinality(below(m)) <= Cardinality(below(n)) /\ Cardinality(below(m)) # Cardinality(below(n))
        BY <1>1, <1>5, <1>6, FS_Subset
    <1>4. Cardinality(below(m)) \in Nat /\ Cardinality(below(n)) \in Nat
        BY <1>1, <1>5, FS_Subset, FS_CardinalityType
    <1>. QED
        BY <1>3, <1>4 DEF TurnIn

\* Every place is taken: there are as many members as places, no two on the same.
LEMMA TurnExists ==
    ASSUME NEW S \in SUBSET Nat, IsFiniteSet(S), NEW i \in 1 .. Cardinality(S)
    PROVE  \E n \in S : TurnIn(S, n) = i
    <1>. DEFINE f == [n \in S |-> TurnIn(S, n)]
                T == 1 .. Cardinality(S)
    <1>1. Cardinality(S) \in Nat
        BY FS_CardinalityType
    <1>2. IsFiniteSet(T) /\ Cardinality(T) = Cardinality(S)
        BY <1>1, FS_Interval
    <1>3. f \in [S -> T]
        BY TurnBounds
    <1>4. ASSUME NEW m \in S, NEW n \in S, f[m] = f[n] PROVE m = n
        <2>1. TurnIn(S, m) \in Nat /\ TurnIn(S, n) \in Nat /\ TurnIn(S, m) = TurnIn(S, n)
            BY <1>4, <1>1, TurnBounds
        <2>2. m < n => TurnIn(S, m) < TurnIn(S, n)
            BY TurnIncreases
        <2>3. n < m => TurnIn(S, n) < TurnIn(S, m)
            BY TurnIncreases
        <2>. QED
            BY <2>1, <2>2, <2>3
    <1>5. f \in Injection(S, T)
        BY <1>3, <1>4 DEF Injection, IsInjective
    <1>6. f \in Surjection(S, T)
        BY <1>2, <1>5, FS_Injection
    <1>. QED
        BY <1>6 DEF Surjection

\* Who takes the turns 1, 2, ... in order is listed in increasing order.
LEMMA TurnsInOrder ==
    ASSUME NEW S \in SUBSET Nat, IsFiniteSet(S), NEW k \in Nat, k = Cardinality(S),
           NEW s \in [1 .. k -> S], \A i \in 1 .. k : TurnIn(S, s[i]) = i
    PROVE  /\ s \in Seq(S) /\ Len(s) = k
           /\ \A i, j \in 1 .. k : i < j => s[i] < s[j]
           /\ \A n \in S : \E i \in 1 .. k : s[i] = n
    <1>1. s \in Seq(S) /\ Len(s) = k
        OBVIOUS
    <1>2. ASSUME NEW m \in S, NEW n \in S, TurnIn(S, m) < TurnIn(S, n) PROVE m < n
        <2>1. m \in Nat /\ n \in Nat /\ TurnIn(S, m) \in Nat /\ TurnIn(S, n) \in Nat
            BY TurnBounds
        <2>2. n < m => TurnIn(S, n) < TurnIn(S, m)
            BY TurnIncreases
        <2>. QED
            BY <1>2, <2>1, <2>2
    <1>3. ASSUME NEW m \in S, NEW n \in S, TurnIn(S, m) = TurnIn(S, n) PROVE m = n
        <2>1. m \in Nat /\ n \in Nat /\ TurnIn(S, m) \in Nat /\ TurnIn(S, n) \in Nat
            BY TurnBounds
        <2>2. n < m => TurnIn(S, n) < TurnIn(S, m)
            BY TurnIncreases
        <2>3. m < n => TurnIn(S, m) < TurnIn(S, n)
            BY TurnIncreases
        <2>. QED
            BY <1>3, <2>1, <2>2, <2>3
    <1>4. ASSUME NEW i \in 1 .. k, NEW j \in 1 .. k, i < j PROVE s[i] < s[j]
        <2>1. s[i] \in S /\ s[j] \in S /\ TurnIn(S, s[i]) = i /\ TurnIn(S, s[j]) = j
            OBVIOUS
        <2>. QED
            BY <1>2, <1>4, <2>1
    <1>5. ASSUME NEW n \in S PROVE \E i \in 1 .. k : s[i] = n
        <2>1. TurnIn(S, n) \in 1 .. k
            BY TurnBounds
        <2>2. s[TurnIn(S, n)] \in S /\ TurnIn(S, s[TurnIn(S, n)]) = TurnIn(S, n)
            BY <2>1
        <2>3. s[TurnIn(S, n)] = n
            BY <1>3, <2>2
        <2>. QED
            BY <2>1, <2>3
    <1>. QED
        BY <1>1, <1>4, <1>5

\* InOrder lists its set, once each and in increasing order.
LEMMA InOrderIs ==
    ASSUME NEW S \in SUBSET Nat, IsFiniteSet(S)
    PROVE  /\ Cardinality(S) \in Nat
           /\ InOrder(S) \in Seq(S) /\ Len(InOrder(S)) = Cardinality(S)
           /\ \A i, j \in 1 .. Cardinality(S) : i < j => InOrder(S)[i] < InOrder(S)[j]
           /\ \A n \in S : \E i \in 1 .. Cardinality(S) : InOrder(S)[i] = n
    <1>1. Cardinality(S) \in Nat
        BY FS_CardinalityType
    <1>2. InOrder(S) = [i \in 1 .. Cardinality(S) |-> CHOOSE n \in S : TurnIn(S, n) = i]
        BY DEF InOrder, TurnIn
    <1>3. ASSUME NEW i \in 1 .. Cardinality(S)
          PROVE  InOrder(S)[i] \in S /\ TurnIn(S, InOrder(S)[i]) = i
        BY <1>2, TurnExists
    <1>4. InOrder(S) \in [1 .. Cardinality(S) -> S]
        BY <1>2, <1>3
    <1>. QED
        BY <1>1, <1>3, <1>4, TurnsInOrder

\* Rows with ids of their own are finitely many, and each has a turn.
LEMMA RowsAreFinite ==
    ASSUME NEW R, NEW n \in Nat, \A x \in R : x.id \in 0 .. n, \A x, y \in R : x.id = y.id => x = y
    PROVE  IsFiniteSet(R) /\ Cardinality(R) \in Nat
    <1>. DEFINE f == [x \in R |-> x.id]
    <1>1. f \in Injection(R, 0 .. n)
        BY DEF Injection, IsInjective
    <1>2. IsFiniteSet(0 .. n)
        BY FS_Interval
    <1>3. IsFiniteSet(R)
        BY <1>1, <1>2, FS_Injection
    <1>. QED
        BY <1>3, FS_CardinalityType

\* The turn of a row is one of the sequence numbers the step takes.
LEMMA TurnIs ==
    ASSUME seq \in Nat, NEW R, IsFiniteSet(R), NEW x \in R, x.id \in Nat
    PROVE  TurnOf(x, R) \in seq + 1 .. seq + Cardinality(R)
    <1>. DEFINE before == {r \in R : r.id <= x.id}
    <1>1. IsFiniteSet(before) /\ Cardinality(before) <= Cardinality(R)
        BY FS_Subset
    <1>2. Cardinality(R) \in Nat /\ Cardinality(before) \in Nat
        BY <1>1, FS_CardinalityType
    <1>3. x \in before
        OBVIOUS
    <1>4. Cardinality(before) # 0
        BY <1>1, <1>3, FS_EmptySet
    <1>5. TurnOf(x, R) = seq + Cardinality(before)
        BY DEF TurnOf
    <1>. HIDE DEF before
    <1>. QED
        BY <1>1, <1>2, <1>4, <1>5

-----------------------------------------------------------------------------
(***************************************************************************)
(* The sequence only grows, so whatever is typed stays so.                  *)
(***************************************************************************)
\* TypeOK is the types of the tables.
LEMMA TypesAre ==
    TypeOK <=> ClockTypes /\ MemoryTypes /\ ReviewTypes /\ RecallTypes /\ AudienceTypes /\ ApprovalTypes
    BY DEF TypeOK, ClockTypes, MemoryTypes, ReviewTypes, RecallTypes, AudienceTypes, ApprovalTypes, ChallengeTypes,
           Sequence, VersionRows, ProposalRows, Kinds

Grows == seq \in Nat /\ seq' \in Nat /\ seq <= seq'

\* The rows of an earlier moment are rows of a later one.
LEMMA RowsGrow ==
    ASSUME NEW m \in Nat, NEW n \in Nat, m <= n
    PROVE  /\ 0 .. m \subseteq 0 .. n
           /\ VersionRows(m) \subseteq VersionRows(n)
           /\ ProposalRows(m) \subseteq ProposalRows(n)
    <1>1. 0 .. m \subseteq 0 .. n
        OBVIOUS
    <1>2. VersionRows(m) \subseteq VersionRows(n)
        BY <1>1 DEF VersionRows
    <1>3. ProposalRows(m) \subseteq ProposalRows(n)
        BY <1>1 DEF ProposalRows
    <1>. QED
        BY <1>1, <1>2, <1>3

\* The types of a table survive a step that leaves it alone.
LEMMA MemoryTypesKept ==
    ASSUME Grows, MemoryTypes, UNCHANGED memory
    PROVE  MemoryTypes'
    <1>1. 0 .. seq \subseteq 0 .. seq' /\ VersionRows(seq) \subseteq VersionRows(seq')
        BY RowsGrow DEF Grows
    <1>. QED
        BY <1>1 DEF MemoryTypes, memory

\* ... of the review's tables,
LEMMA ReviewTypesKept ==
    ASSUME Grows, ReviewTypes, UNCHANGED <<provenance, proposals, tombstones>>
    PROVE  ReviewTypes'
    <1>1. 0 .. seq \subseteq 0 .. seq' /\ ProposalRows(seq) \subseteq ProposalRows(seq')
        BY RowsGrow DEF Grows
    <1>. QED
        BY <1>1 DEF ReviewTypes

\* ... of the recalls and their feedback,
LEMMA RecallTypesKept ==
    ASSUME Grows, RecallTypes, UNCHANGED <<recalls, feedback>>
    PROVE  RecallTypes'
    <1>1. 0 .. seq \subseteq 0 .. seq'
        BY RowsGrow DEF Grows
    <1>. QED
        BY <1>1 DEF RecallTypes

\* ... of the timelines,
LEMMA AudienceTypesKept ==
    ASSUME Grows, AudienceTypes, UNCHANGED audience
    PROVE  AudienceTypes'
    <1>1. 0 .. seq \subseteq 0 .. seq'
        BY RowsGrow DEF Grows
    <1>2. ASSUME NEW a \in Agent PROVE audience[a] \in Seq(0 .. seq')
        BY <1>1, SeqMonotonic DEF AudienceTypes
    <1>. QED
        BY <1>2 DEF AudienceTypes

\* ... and of the approvals.
LEMMA ApprovalTypesKept ==
    ASSUME Grows, ApprovalTypes, UNCHANGED approval
    PROVE  ApprovalTypes'
    <1>1. 0 .. seq \subseteq 0 .. seq'
        BY RowsGrow DEF Grows
    <1>. QED
        BY <1>1 DEF ApprovalTypes, ChallengeTypes, approval

-----------------------------------------------------------------------------
(***************************************************************************)
(* Timelines only get longer, at their end.                                 *)
(***************************************************************************)
\* A timeline is extended, with numbers above m and up to n.
Extension(s, u, m, n) ==
    /\ u \in Seq(0 .. n)
    /\ Len(s) <= Len(u)
    /\ \A i \in 1 .. Len(s) : u[i] = s[i]
    /\ \A i \in Len(s) + 1 .. Len(u) : m < u[i]
    /\ \A i, j \in Len(s) + 1 .. Len(u) : i < j => u[i] < u[j]

Increasing(s) == \A i, j \in DOMAIN s : i < j => s[i] < s[j]

\* A timeline may stay as it is.
LEMMA SameExtends ==
    ASSUME NEW m \in Nat, NEW n \in Nat, m <= n, NEW s \in Seq(0 .. m)
    PROVE  Extension(s, s, m, n)
    <1>1. s \in Seq(0 .. n)
        BY RowsGrow, SeqMonotonic
    <1>. QED
        BY <1>1, LenProperties DEF Extension

\* The number of the step itself may be appended.
LEMMA AppendExtends ==
    ASSUME NEW m \in Nat, NEW s \in Seq(0 .. m)
    PROVE  Extension(s, Append(s, m + 1), m, m + 1) /\ m + 1 \in Range(Append(s, m + 1))
    <1>1. s \in Seq(0 .. m + 1) /\ Len(s) \in Nat
        <2>1. m + 1 \in Nat /\ m <= m + 1
            OBVIOUS
        <2>. QED
            BY <2>1, RowsGrow, SeqMonotonic
    <1>2. /\ Append(s, m + 1) \in Seq(0 .. m + 1)
          /\ Len(Append(s, m + 1)) = Len(s) + 1
          /\ \A i \in 1 .. Len(s) : Append(s, m + 1)[i] = s[i]
          /\ Append(s, m + 1)[Len(s) + 1] = m + 1
        BY <1>1
    <1>3. Len(s) + 1 \in DOMAIN Append(s, m + 1)
        BY <1>1, <1>2
    <1>4. ASSUME NEW i \in Len(s) + 1 .. Len(s) + 1 PROVE i = Len(s) + 1
        BY <1>1
    <1>. HIDE DEF Range
    <1>5. Extension(s, Append(s, m + 1), m, m + 1)
        BY <1>1, <1>2, <1>4 DEF Extension
    <1>. QED
        BY <1>2, <1>3, <1>5 DEF Range

\* The numbers taken in a step may be appended in order (_expire_due).
LEMMA InOrderExtends ==
    ASSUME NEW m \in Nat, NEW n \in Nat, m <= n, NEW s \in Seq(0 .. m),
           NEW S \in SUBSET (m + 1 .. n)
    PROVE  Extension(s, s \o InOrder(S), m, n) /\ S \subseteq Range(s \o InOrder(S))
    <1>. DEFINE t == InOrder(S)
    <1>1. S \in SUBSET Nat /\ S \subseteq 0 .. n
        OBVIOUS
    <1>2. IsFiniteSet(S)
        <2>1. IsFiniteSet(m + 1 .. n)
            <3>1. m + 1 \in Int /\ n \in Int
                OBVIOUS
            <3>. QED
                BY <3>1, FS_Interval
        <2>. QED
            BY <2>1, FS_Subset
    <1>3. /\ Cardinality(S) \in Nat
          /\ t \in Seq(S) /\ Len(t) = Cardinality(S)
          /\ \A i, j \in 1 .. Len(t) : i < j => t[i] < t[j]
          /\ \A x \in S : \E i \in 1 .. Len(t) : t[i] = x
        BY <1>1, <1>2, InOrderIs
    <1>4. s \in Seq(0 .. n) /\ t \in Seq(0 .. n)
        BY <1>1, <1>3, RowsGrow, SeqMonotonic
    <1>. HIDE DEF t
    <1>5. /\ s \o t \in Seq(0 .. n)
          /\ Len(s \o t) = Len(s) + Len(t) /\ Len(s) \in Nat /\ Len(t) \in Nat
          /\ \A i \in 1 .. Len(s) + Len(t) : (s \o t)[i] = IF i <= Len(s) THEN s[i] ELSE t[i - Len(s)]
        BY <1>4, ConcatProperties, LenProperties
    <1>6. ASSUME NEW i \in Len(s) + 1 .. Len(s \o t)
          PROVE  i - Len(s) \in 1 .. Len(t) /\ (s \o t)[i] = t[i - Len(s)]
        BY <1>5
    <1>7. ASSUME NEW i \in Len(s) + 1 .. Len(s \o t) PROVE m < (s \o t)[i]
        <2>1. t[i - Len(s)] \in S
            BY <1>3, <1>6, ElementOfSeq
        <2>2. \A x \in S : m < x
            OBVIOUS
        <2>. QED
            BY <1>6, <2>1, <2>2
    <1>8. ASSUME NEW i \in Len(s) + 1 .. Len(s \o t), NEW j \in Len(s) + 1 .. Len(s \o t), i < j
          PROVE  (s \o t)[i] < (s \o t)[j]
        <2>1. i - Len(s) < j - Len(s)
            BY <1>5, <1>8
        <2>. QED
            BY <1>3, <1>6, <2>1
    <1>9. Extension(s, s \o t, m, n)
        <2>1. Len(s) <= Len(s \o t)
            BY <1>5
        <2>2. ASSUME NEW i \in 1 .. Len(s) PROVE (s \o t)[i] = s[i]
            BY <1>5
        <2>. QED
            BY <1>5, <1>7, <1>8, <2>1, <2>2 DEF Extension
    <1>10. ASSUME NEW x \in S PROVE x \in Range(s \o t)
        <2>1. PICK i \in 1 .. Len(t) : t[i] = x
            BY <1>3
        <2>2. i + Len(s) \in 1 .. Len(s \o t) /\ (s \o t)[i + Len(s)] = x
            <3>1. i + Len(s) \in Len(s) + 1 .. Len(s \o t) /\ (i + Len(s)) - Len(s) = i
                BY <1>5
            <3>. QED
                BY <1>5, <1>6, <2>1, <3>1
        <2>3. DOMAIN (s \o t) = 1 .. Len(s \o t)
            BY <1>5, LenProperties
        <2>. QED
            BY <2>2, <2>3 DEF Range
    <1>. QED
        BY <1>9, <1>10 DEF t

\* An increasing timeline still increases when extended, and lists what it listed.
LEMMA ExtensionIncreases ==
    ASSUME NEW m \in Nat, NEW n \in Nat, NEW s \in Seq(0 .. m), NEW u, Extension(s, u, m, n), Increasing(s)
    PROVE  Increasing(u) /\ Range(s) \subseteq Range(u)
    <1>1. /\ DOMAIN s = 1 .. Len(s) /\ Len(s) \in Nat /\ \A i \in 1 .. Len(s) : s[i] \in 0 .. m
          /\ DOMAIN u = 1 .. Len(u) /\ Len(u) \in Nat /\ \A i \in 1 .. Len(u) : u[i] \in 0 .. n
        BY LenProperties, ElementOfSeq DEF Extension
    <1>2. ASSUME NEW i \in DOMAIN u, NEW j \in DOMAIN u, i < j PROVE u[i] < u[j]
        <2>1. CASE j <= Len(s)
            <3>1. i \in 1 .. Len(s) /\ j \in 1 .. Len(s)
                BY <1>1, <1>2, <2>1
            <3>2. u[i] = s[i] /\ u[j] = s[j]
                BY <3>1 DEF Extension
            <3>. QED
                BY <1>1, <1>2, <3>1, <3>2 DEF Increasing
        <2>2. CASE i <= Len(s) /\ ~(j <= Len(s))
            <3>1. u[i] = s[i] /\ s[i] \in 0 .. m /\ m < u[j] /\ u[j] \in Nat
                BY <1>1, <2>2 DEF Extension
            <3>. QED
                BY <3>1
        <2>3. CASE ~(i <= Len(s))
            <3>1. i \in Len(s) + 1 .. Len(u) /\ j \in Len(s) + 1 .. Len(u)
                BY <1>1, <1>2, <2>3
            <3>. QED
                BY <1>2, <3>1 DEF Extension
        <2>. QED
            BY <2>1, <2>2, <2>3
    <1>3. ASSUME NEW x \in Range(s) PROVE x \in Range(u)
        <2>1. PICK i \in DOMAIN s : s[i] = x
            BY DEF Range
        <2>2. i \in DOMAIN u /\ u[i] = x
            BY <1>1, <2>1 DEF Extension
        <2>. QED
            BY <2>2 DEF Range
    <1>. QED
        BY <1>2, <1>3 DEF Increasing

-----------------------------------------------------------------------------
(***************************************************************************)
(* Memory, when nothing is forgotten.                                       *)
(***************************************************************************)
\* What becomes of a version, but for a forget: nothing, or it is retired.
Became(v, w) ==
    \/ w = v
    \/ /\ Current(v) /\ v.lifecycle = "active"
       /\ \E l \in {"superseded", "expired"}, n \in seq + 1 .. seq' :
            /\ w = [v EXCEPT !.lifecycle = l, !.retired = n]
            /\ l = "superseded" => [from |-> n, to |-> v.id] \in relations'

\* A version that comes in.
NewRow(n) ==
    /\ n \in VersionRows(seq') /\ n.id = seq + 1 /\ seq' = seq + 1
    /\ n.lifecycle = "active" /\ n.retired = NULL /\ n.thread \in Ids(threads')

\* The tables of memory after a step that forgets nothing: f says what became
\* of each version.
Kept(f, fresh) ==
    /\ Grows
    /\ versions' = {f[v] : v \in versions} \cup fresh
    /\ \A v \in versions : Became(v, f[v])
    /\ \A n \in fresh : NewRow(n) /\ fresh = {n}
    /\ threads \subseteq threads'
    /\ fts' = fts \cup Ids(fresh)
    /\ relations \subseteq relations'
    /\ \A r \in relations' \ relations : \E v \in versions, n \in fresh :
         /\ r = [from |-> n.id, to |-> v.id]
         /\ n.thread = v.thread /\ f[v].lifecycle = "superseded" /\ f[v].retired = n.id

\* What retirement leaves alone, and what it changes.
LEMMA BecameIs ==
    ASSUME Grows, NEW v \in VersionRows(seq), NEW w, Became(v, w)
    PROVE  /\ w \in VersionRows(seq')
           /\ w.id = v.id /\ w.thread = v.thread /\ w.disclosure = v.disclosure /\ w.body = v.body
           /\ w = v \/ (v.retired = NULL /\ w.retired \in seq + 1 .. seq')
           /\ v.lifecycle # "active" => w = v
           /\ w.lifecycle = "superseded" /\ w # v => [from |-> w.retired, to |-> v.id] \in relations'
    <1>1. VersionRows(seq) \subseteq VersionRows(seq')
        BY RowsGrow DEF Grows
    <1>2. CASE w = v
        BY <1>1, <1>2
    <1>3. ASSUME Current(v), v.lifecycle = "active",
                 NEW l \in {"superseded", "expired"}, NEW n \in seq + 1 .. seq',
                 w = [v EXCEPT !.lifecycle = l, !.retired = n],
                 l = "superseded" => [from |-> n, to |-> v.id] \in relations'
          PROVE  /\ w \in VersionRows(seq')
                 /\ w.id = v.id /\ w.thread = v.thread /\ w.disclosure = v.disclosure /\ w.body = v.body
                 /\ v.retired = NULL /\ w.retired \in seq + 1 .. seq'
                 /\ w.lifecycle = "superseded" => [from |-> w.retired, to |-> v.id] \in relations'
        <2>1. v \in VersionRows(seq') /\ n \in 0 .. seq'
            BY <1>1 DEF Grows
        <2>2. /\ w.id = v.id /\ w.thread = v.thread /\ w.disclosure = v.disclosure /\ w.body = v.body
              /\ w.retired = n /\ w.lifecycle = l
            BY <1>3, <2>1 DEF VersionRows
        <2>3. w \in VersionRows(seq')
            BY <1>3, <2>1 DEF VersionRows
        <2>. QED
            BY <1>3, <2>2, <2>3 DEF Current
    <1>4. CASE w # v
        <2>1. PICK l \in {"superseded", "expired"}, n \in seq + 1 .. seq' :
                 /\ Current(v) /\ v.lifecycle = "active"
                 /\ w = [v EXCEPT !.lifecycle = l, !.retired = n]
                 /\ l = "superseded" => [from |-> n, to |-> v.id] \in relations'
            BY <1>4 DEF Became
        <2>2. /\ w \in VersionRows(seq')
              /\ w.id = v.id /\ w.thread = v.thread /\ w.disclosure = v.disclosure /\ w.body = v.body
              /\ v.retired = NULL /\ w.retired \in seq + 1 .. seq'
              /\ w.lifecycle = "superseded" => [from |-> w.retired, to |-> v.id] \in relations'
            BY <1>3, <2>1
        <2>. QED
            BY <2>1, <2>2
    <1>. QED
        BY <1>2, <1>4

\* Every version is still there, and the tables name each other as before.
LEMMA KeptMemory ==
    ASSUME NEW f, NEW fresh, Kept(f, fresh), MemoryTypes, VersionsApart, CorrectionInv, VersionsNamed
    PROVE  /\ versions' \subseteq VersionRows(seq') /\ fts' \subseteq 0 .. seq'
           /\ relations' \subseteq [from: 0 .. seq', to: 0 .. seq']
           /\ Ids(versions') = Ids(versions) \cup Ids(fresh)
           /\ VersionsApart' /\ CorrectionInv' /\ VersionsNamed'
    <1>0. Grows /\ seq \in Nat /\ seq' \in Nat /\ seq + 1 # NULL
        BY DEF Kept, Grows, NULL
    <1>1. ASSUME NEW v \in versions
          PROVE  /\ v \in VersionRows(seq) /\ v.id \in 1 .. seq
                 /\ f[v] \in versions' /\ f[v] \in VersionRows(seq')
                 /\ f[v].id = v.id /\ f[v].thread = v.thread
                 /\ v.lifecycle # "active" => f[v] = v
                 /\ f[v].lifecycle = "superseded" /\ f[v] # v => [from |-> f[v].retired, to |-> v.id] \in relations'
        <2>1. v \in VersionRows(seq)
            BY DEF MemoryTypes
        <2>2. v.id # NULL /\ v.id \in 0 .. seq
            BY <2>1 DEF VersionsApart, Ids, VersionRows
        <2>3. v.id \in 1 .. seq
            BY <1>0, <2>2 DEF NULL
        <2>4. f[v] \in versions' /\ Became(v, f[v])
            BY DEF Kept
        <2>. QED
            BY <1>0, <2>1, <2>3, <2>4, BecameIs
    <1>2. ASSUME NEW n \in fresh
          PROVE  /\ n \in versions' /\ n \in VersionRows(seq') /\ n.id = seq + 1 /\ seq' = seq + 1
                 /\ n.lifecycle = "active" /\ n.thread \in Ids(threads') /\ fresh = {n}
        BY DEF NewRow, Kept
    <1>3. ASSUME NEW w \in versions' PROVE w \in fresh \/ \E v \in versions : w = f[v]
        BY DEF Kept
    <1>4. versions' \subseteq VersionRows(seq')
        <2>1. ASSUME NEW w \in versions' PROVE w \in VersionRows(seq')
            <3>1. CASE w \in fresh
                BY <1>2, <3>1
            <3>2. CASE \E v \in versions : w = f[v]
                BY <1>1, <3>2
            <3>. QED
                BY <1>3, <3>1, <3>2
        <2>. QED
            BY <2>1
    <1>5. Ids(versions') = Ids(versions) \cup Ids(fresh)
        <2>1. ASSUME NEW w \in versions' PROVE w.id \in Ids(versions) \cup Ids(fresh)
            <3>1. CASE w \in fresh
                BY <3>1 DEF Ids
            <3>2. CASE \E v \in versions : w = f[v]
                BY <1>1, <3>2 DEF Ids
            <3>. QED
                BY <1>3, <3>1, <3>2
        <2>2. ASSUME NEW v \in versions PROVE v.id \in Ids(versions')
            BY <1>1 DEF Ids
        <2>3. ASSUME NEW n \in fresh PROVE n.id \in Ids(versions')
            BY <1>2 DEF Ids
        <2>. QED
            BY <2>1, <2>2, <2>3 DEF Ids
    <1>6. VersionsApart'
        <2>1. ASSUME NEW n \in fresh, NEW v \in versions PROVE n.id # f[v].id
            <3>1. n.id = seq + 1 /\ f[v].id = v.id /\ v.id \in 1 .. seq
                BY <1>1, <1>2
            <3>2. seq + 1 \notin 1 .. seq
                BY <1>0
            <3>. QED
                BY <3>1, <3>2
        <2>2. ASSUME NEW v \in versions, NEW w \in versions, f[v].id = f[w].id PROVE f[v] = f[w]
            <3>1. v.id = w.id
                BY <1>1, <2>2
            <3>. QED
                BY <3>1 DEF VersionsApart
        <2>3. ASSUME NEW v \in versions', NEW w \in versions', v.id = w.id PROVE v = w
            <3>1. CASE v \in fresh
                BY <1>2, <1>3, <2>1, <2>3, <3>1
            <3>2. CASE w \in fresh
                BY <1>2, <1>3, <2>1, <2>3, <3>2
            <3>3. CASE v \notin fresh /\ w \notin fresh
                <4>1. PICK x \in versions, y \in versions : v = f[x] /\ w = f[y]
                    BY <1>3, <3>3
                <4>. QED
                    BY <2>2, <2>3, <4>1
            <3>. QED
                BY <3>1, <3>2, <3>3
        <2>4. NULL \notin Ids(fresh)
            BY <1>0, <1>2 DEF Ids
        <2>. QED
            BY <1>5, <2>3, <2>4 DEF VersionsApart
    <1>7. ASSUME NEW r \in relations' \ relations
          PROVE  \E v \in versions, n \in fresh :
                    /\ r = [from |-> n.id, to |-> v.id]
                    /\ n.thread = v.thread /\ f[v].lifecycle = "superseded" /\ f[v].retired = n.id
        BY DEF Kept
    <1>8. ASSUME NEW r \in relations'
          PROVE  \E v, w \in versions' :
                    /\ v.id = r.to /\ w.id = r.from /\ w.thread = v.thread
                    /\ v.lifecycle = "superseded" /\ v.retired = w.id
        <2>1. CASE r \in relations
            <3>1. PICK v \in versions, w \in versions :
                     /\ v.id = r.to /\ w.id = r.from /\ w.thread = v.thread
                     /\ v.lifecycle = "superseded" /\ v.retired = w.id
                BY <2>1 DEF CorrectionInv
            <3>2. f[v] = v /\ f[v] \in versions' /\ f[w] \in versions' /\ f[w].id = w.id /\ f[w].thread = w.thread
                BY <1>1, <3>1
            <3>. QED
                BY <3>1, <3>2
        <2>2. CASE r \notin relations
            <3>1. PICK v \in versions, n \in fresh :
                    /\ r = [from |-> n.id, to |-> v.id]
                    /\ n.thread = v.thread /\ f[v].lifecycle = "superseded" /\ f[v].retired = n.id
                BY <1>7, <2>2
            <3>2. f[v] \in versions' /\ n \in versions' /\ f[v].id = v.id /\ f[v].thread = v.thread
                BY <1>1, <1>2
            <3>. QED
                BY <3>1, <3>2
        <2>. QED
            BY <2>1, <2>2
    <1>9. CorrectionInv'
        <2>1. ASSUME NEW w \in versions', w.lifecycle = "superseded"
              PROVE  \E r \in relations' : r.to = w.id
            <3>1. PICK v \in versions : w = f[v]
                BY <1>2, <1>3, <2>1
            <3>2. CASE f[v] = v
                <4>1. PICK r \in relations : r.to = v.id
                    BY <2>1, <3>1, <3>2 DEF CorrectionInv
                <4>2. r \in relations'
                    BY DEF Kept
                <4>. QED
                    BY <3>1, <3>2, <4>1, <4>2
            <3>3. CASE f[v] # v
                <4>1. [from |-> f[v].retired, to |-> v.id] \in relations' /\ f[v].id = v.id
                    BY <1>1, <2>1, <3>1, <3>3
                <4>. QED
                    BY <3>1, <4>1
            <3>. QED
                BY <3>2, <3>3
        <2>. QED
            BY <1>8, <2>1 DEF CorrectionInv
    <1>10. ASSUME NEW r \in relations'
           PROVE  r \in [from: 0 .. seq', to: 0 .. seq'] /\ {r.from, r.to} \subseteq Ids(versions')
        <2>1. PICK v \in versions', w \in versions' : v.id = r.to /\ w.id = r.from
            BY <1>8
        <2>2. v.id \in 0 .. seq' /\ w.id \in 0 .. seq'
            BY <1>4 DEF VersionRows
        <2>3. r = [from |-> r.from, to |-> r.to]
            <3>1. CASE r \in relations
                BY <3>1 DEF MemoryTypes
            <3>2. CASE r \notin relations
                BY <1>7, <3>2
            <3>. QED
                BY <3>1, <3>2
        <2>. QED
            BY <2>1, <2>2, <2>3 DEF Ids
    <1>11. fts' = Ids(versions') /\ fts' \subseteq 0 .. seq'
        <2>1. fts' = Ids(versions')
            BY <1>5 DEF Kept, VersionsNamed
        <2>2. \A w \in versions' : w.id \in 0 .. seq'
            BY <1>4 DEF VersionRows
        <2>. QED
            BY <2>1, <2>2 DEF Ids
    <1>12. ASSUME NEW w \in versions' PROVE w.thread \in Ids(threads')
        <2>1. CASE w \in fresh
            BY <1>2, <2>1
        <2>2. CASE w \notin fresh
            <3>1. PICK v \in versions : w = f[v]
                BY <1>3, <2>2
            <3>2. w.thread \in Ids(threads)
                BY <1>1, <3>1 DEF VersionsNamed
            <3>. QED
                BY <3>2 DEF Kept, Ids
        <2>. QED
            BY <2>1, <2>2
    <1>13. VersionsNamed'
        BY <1>10, <1>11, <1>12 DEF VersionsNamed
    <1>14. relations' \subseteq [from: 0 .. seq', to: 0 .. seq']
        BY <1>10
    <1>. QED
        BY <1>4, <1>5, <1>6, <1>9, <1>11, <1>13, <1>14

-----------------------------------------------------------------------------
(***************************************************************************)
(* What agents were told and could see stays so.                            *)
(***************************************************************************)
AudienceMove == /\ DOMAIN audience' = Agent /\ audience' = [a \in Agent |-> audience'[a]]
                /\ \A a \in Agent : Extension(audience[a], audience'[a], seq, seq')

\* Whoever could see a version is told that it came in or was retired.
Told(f, fresh) ==
    \A a \in Agent :
        /\ \A n \in fresh : a \in n.disclosure => n.id \in Range(audience'[a])
        /\ \A v \in versions : f[v] # v /\ a \in v.disclosure => f[v].retired \in Range(audience'[a])

TimelinesIncrease == \A a \in Agent : Increasing(audience[a])

\* All timelines are extended at once.
LEMMA AudienceMoves ==
    ASSUME Grows, AudienceTypes, AudienceMove
    PROVE  /\ AudienceTypes'
           /\ TimelinesIncrease => TimelinesIncrease'
           /\ TimelinesIncrease => \A a \in Agent : Range(audience[a]) \subseteq Range(audience'[a])
    <1>1. AudienceTypes'
        BY DEF AudienceTypes, AudienceMove, Extension
    <1>2. ASSUME NEW a \in Agent, Increasing(audience[a])
          PROVE  Increasing(audience'[a]) /\ Range(audience[a]) \subseteq Range(audience'[a])
        <2>1. audience[a] \in Seq(0 .. seq) /\ Extension(audience[a], audience'[a], seq, seq')
            BY DEF AudienceTypes, AudienceMove
        <2>. QED
            BY <1>2, <2>1, ExtensionIncreases DEF Grows
    <1>. QED
        BY <1>1, <1>2 DEF TimelinesIncrease

\* TimelineComplete, in two parts.
LEMMA TimelineIs ==
    TimelineComplete <=> /\ TimelinesIncrease
                         /\ \A a \in Agent, v \in versions : a \in v.disclosure =>
                              {v.id, v.retired} \ {NULL} \subseteq Range(audience[a])
    BY DEF TimelineComplete, TimelinesIncrease, Increasing

\* Timelines stay complete when whoever could see a change is told of it.
LEMMA TimelineKept ==
    ASSUME NEW f, NEW fresh, Kept(f, fresh), MemoryTypes, AudienceTypes, AudienceMove, Told(f, fresh), TimelineComplete
    PROVE  TimelineComplete'
    <1>0. Grows
        BY DEF Kept
    <1>1. /\ TimelinesIncrease'
          /\ \A a \in Agent : Range(audience[a]) \subseteq Range(audience'[a])
        BY <1>0, AudienceMoves, TimelineIs
    <1>2. ASSUME NEW a \in Agent, NEW w \in versions', a \in w.disclosure
          PROVE  {w.id, w.retired} \ {NULL} \subseteq Range(audience'[a])
        <2>1. CASE w \in fresh
            <3>1. w.id \in Range(audience'[a]) /\ w.retired = NULL
                BY <1>2, <2>1 DEF Told, Kept, NewRow
            <3>. QED
                BY <3>1
        <2>2. CASE w \notin fresh
            <3>1. PICK v \in versions : w = f[v] /\ Became(v, w)
                BY <2>2 DEF Kept
            <3>2. /\ w.id = v.id /\ w.disclosure = v.disclosure
                  /\ w = v \/ v.retired = NULL
                BY <1>0, <3>1, BecameIs DEF MemoryTypes
            <3>3. {v.id, v.retired} \ {NULL} \subseteq Range(audience'[a])
                BY <1>1, <1>2, <3>2, TimelineIs
            <3>4. w # v => w.retired \in Range(audience'[a])
                BY <1>2, <3>1, <3>2 DEF Told
            <3>. QED
                BY <3>2, <3>3, <3>4
        <2>. QED
            BY <2>1, <2>2
    <1>. QED
        BY <1>1, <1>2 DEF TimelineComplete, TimelinesIncrease, Increasing

\* What was visible as of an earlier number is visible as of it still.
LEMMA VisibleKept ==
    ASSUME NEW f, NEW fresh, Kept(f, fresh), MemoryTypes, NEW a \in Agent, NEW n \in 0 .. seq
    PROVE  Ids(VisibleTo(a, n)') = Ids(VisibleTo(a, n))
    <1>0. Grows /\ seq \in Nat /\ n \in Nat /\ n <= seq
        BY DEF Kept, Grows
    <1>1. ASSUME NEW v \in versions
          PROVE  f[v] \in versions' /\ f[v].id = v.id /\ (Eligible(v, a, n) <=> Eligible(f[v], a, n))
        <2>1. v \in VersionRows(seq) /\ f[v] \in versions' /\ Became(v, f[v])
            BY DEF Kept, MemoryTypes
        <2>2. /\ f[v].id = v.id /\ f[v].disclosure = v.disclosure
              /\ f[v] = v \/ (v.retired = NULL /\ f[v].retired \in seq + 1 .. seq')
            BY <1>0, <2>1, BecameIs
        <2>3. \A k \in seq + 1 .. seq' : k > n
            BY <1>0
        <2>. QED
            BY <2>1, <2>2, <2>3 DEF Eligible
    <1>2. ASSUME NEW w \in fresh PROVE ~Eligible(w, a, n)
        <2>1. w.id = seq + 1
            BY DEF Kept, NewRow
        <2>2. ~(seq + 1 <= n)
            BY <1>0
        <2>. QED
            BY <2>1, <2>2 DEF Eligible
    <1>3. ASSUME NEW w \in versions', Eligible(w, a, n) PROVE \E v \in versions : Eligible(v, a, n) /\ v.id = w.id
        <2>1. PICK v \in versions : w = f[v]
            BY <1>2, <1>3 DEF Kept
        <2>. QED
            BY <1>1, <1>3, <2>1
    <1>4. VisibleTo(a, n)' = {w \in versions' : Eligible(w, a, n)}
        BY DEF VisibleTo, Eligible
    <1>. QED
        BY <1>1, <1>3, <1>4 DEF Ids, VisibleTo

\* The number a watermark stands for stays what it is.
LEMMA RecordedKept ==
    ASSUME Grows, AudienceTypes, AudienceMove, NEW a \in Agent, NEW k \in Nat, k <= Len(audience[a])
    PROVE  /\ RecordedOf(a, k)' = RecordedOf(a, k) /\ RecordedOf(a, k) \in 0 .. seq
           /\ k <= Len(audience'[a])
    <1>1. audience[a] \in Seq(0 .. seq) /\ Len(audience[a]) \in Nat /\ seq \in Nat
        BY LenProperties DEF AudienceTypes, Grows
    <1>2. /\ audience'[a] \in Seq(0 .. seq') /\ Len(audience[a]) <= Len(audience'[a])
          /\ \A i \in 1 .. Len(audience[a]) : audience'[a][i] = audience[a][i]
        BY DEF AudienceMove, Extension
    <1>3. Len(audience'[a]) \in Nat
        BY <1>2, LenProperties
    <1>4. CASE k = 0
        BY <1>1, <1>2, <1>3, <1>4 DEF RecordedOf
    <1>5. CASE k # 0
        <2>1. k \in 1 .. Len(audience[a])
            BY <1>1, <1>5
        <2>2. audience'[a][k] = audience[a][k] /\ audience[a][k] \in 0 .. seq
            BY <1>1, <1>2, <2>1, ElementOfSeq
        <2>. QED
            BY <1>1, <1>2, <1>3, <1>5, <2>2 DEF RecordedOf
    <1>. QED
        BY <1>4, <1>5

\* A recall recorded before the step can be repeated after it.
LEMMA RecallKept ==
    ASSUME NEW f, NEW fresh, Kept(f, fresh), MemoryTypes, AudienceTypes, AudienceMove,
           RecallTypes, RecallInv, UNCHANGED recalls
    PROVE  RecallInv'
    <1>0. Grows
        BY DEF Kept
    <1>1. ASSUME NEW r \in recalls
          PROVE  /\ r.ids = Ids(VisibleTo(r.provider, RecordedOf(r.provider, r.watermark))')
                 /\ r.watermark <= Len(audience'[r.provider])
        <2>1. r.provider \in Agent /\ r.watermark \in Nat
            BY DEF RecallTypes
        <2>. DEFINE n == RecordedOf(r.provider, r.watermark)
        <2>2. r.watermark <= Len(audience[r.provider]) /\ r.ids = Ids(VisibleTo(r.provider, n))
            BY DEF RecallInv, RecallReproducible
        <2>3. n' = n /\ n \in 0 .. seq /\ r.watermark <= Len(audience'[r.provider])
            BY <1>0, <2>1, <2>2, RecordedKept
        <2>4. \A k \in 0 .. seq : Ids(VisibleTo(r.provider, k)') = Ids(VisibleTo(r.provider, k))
            BY <2>1, VisibleKept
        <2>5. VisibleTo(r.provider, n)' = {w \in versions' : Eligible(w, r.provider, n')}
            BY DEF VisibleTo, Eligible
        <2>6. \A k : VisibleTo(r.provider, k)' = {w \in versions' : Eligible(w, r.provider, k)}
            BY DEF VisibleTo, Eligible
        <2>7. PICK k \in 0 .. seq : n = k
            BY <2>3
        <2>8. VisibleTo(r.provider, n)' = VisibleTo(r.provider, k)'
            BY <2>3, <2>5, <2>6, <2>7
        <2>9. r.ids = Ids(VisibleTo(r.provider, k)')
            BY <2>2, <2>4, <2>7
        <2>. QED
            BY <2>3, <2>8, <2>9
    <1>. QED
        BY <1>1 DEF RecallInv, RecallReproducible

-----------------------------------------------------------------------------
(***************************************************************************)
(* Memory, when a thread is forgotten.                                      *)
(***************************************************************************)
\* The tables of memory after a forget of a thread.
Forgotten(thread) ==
    LET gone == VersionsOf(thread)
    IN  /\ Grows
        /\ threads' = {t \in threads : t.id # thread}
        /\ versions' = versions \ gone
        /\ fts' = fts \ Ids(gone)
        /\ relations' = {r \in relations : {r.from, r.to} \cap Ids(gone) = {}}
        /\ recalls' = RecallsWithout(Ids(gone))

\* The ids of a thread's versions are the ids of no other versions.
LEMMA GoneIs ==
    ASSUME NEW T, VersionsApart, NEW v \in versions
    PROVE  v.id \in Ids(VersionsOf(T)) <=> v.thread = T
    BY DEF Ids, VersionsOf, VersionsApart

\* What a forget leaves names nothing that is gone.
LEMMA ForgottenMemory ==
    ASSUME NEW T, Forgotten(T), MemoryTypes, VersionsApart, CorrectionInv, VersionsNamed
    PROVE  /\ MemoryTypes' /\ VersionsApart' /\ CorrectionInv' /\ VersionsNamed'
           /\ Ids(versions') = Ids(versions) \ Ids(VersionsOf(T))
    <1>. DEFINE G == Ids(VersionsOf(T))
    <1>1. /\ Grows
          /\ threads' = {t \in threads : t.id # T}
          /\ versions' = versions \ VersionsOf(T)
          /\ fts' = fts \ G
          /\ relations' = {r \in relations : {r.from, r.to} \cap G = {}}
        BY DEF Forgotten
    <1>2. ASSUME NEW v \in versions PROVE v \in versions' <=> v.id \notin G
        BY <1>1, GoneIs DEF VersionsOf
    <1>3. versions' \subseteq versions
        BY <1>1
    <1>4. Ids(versions') = Ids(versions) \ G
        BY <1>2, <1>3, VersionsApart DEF Ids, VersionsApart
    <1>5. VersionsApart'
        BY <1>3 DEF VersionsApart, Ids
    <1>6. VersionsNamed'
        <2>1. fts' = Ids(versions')
            BY <1>1, <1>4 DEF VersionsNamed
        <2>2. ASSUME NEW v \in versions' PROVE v.thread \in Ids(threads')
            <3>1. v.thread # T /\ v \in versions
                BY <1>2, <1>3, GoneIs
            <3>2. PICK t \in threads : t.id = v.thread
                BY <3>1 DEF VersionsNamed, Ids
            <3>. QED
                BY <1>1, <3>1, <3>2 DEF Ids
        <2>3. ASSUME NEW r \in relations' PROVE {r.from, r.to} \subseteq Ids(versions')
            BY <1>1, <1>4 DEF VersionsNamed
        <2>. QED
            BY <2>1, <2>2, <2>3 DEF VersionsNamed
    <1>7. CorrectionInv'
        <2>1. ASSUME NEW v \in versions', v.lifecycle = "superseded" PROVE \E r \in relations' : r.to = v.id
            <3>1. v \in versions /\ v.id \notin G /\ v.thread # T
                BY <1>2, <1>3, GoneIs
            <3>2. PICK r \in relations : r.to = v.id
                BY <2>1, <3>1 DEF CorrectionInv
            <3>3. PICK x \in versions, w \in versions : x.id = r.to /\ w.id = r.from /\ w.thread = x.thread
                BY DEF CorrectionInv
            <3>4. x = v
                BY <3>1, <3>2, <3>3 DEF VersionsApart
            <3>5. w.id \notin G
                BY <3>1, <3>3, <3>4, GoneIs
            <3>. QED
                BY <1>1, <3>1, <3>2, <3>3, <3>5
        <2>2. ASSUME NEW r \in relations'
              PROVE  \E v, w \in versions' :
                        /\ v.id = r.to /\ w.id = r.from /\ w.thread = v.thread
                        /\ v.lifecycle = "superseded" /\ v.retired = w.id
            <3>1. r \in relations /\ r.to \notin G /\ r.from \notin G
                BY <1>1
            <3>2. PICK v \in versions, w \in versions :
                        /\ v.id = r.to /\ w.id = r.from /\ w.thread = v.thread
                        /\ v.lifecycle = "superseded" /\ v.retired = w.id
                BY <3>1 DEF CorrectionInv
            <3>. QED
                BY <1>2, <3>1, <3>2
        <2>. QED
            BY <2>1, <2>2 DEF CorrectionInv
    <1>8. MemoryTypes'
        <2>1. 0 .. seq \subseteq 0 .. seq' /\ VersionRows(seq) \subseteq VersionRows(seq')
            BY <1>1, RowsGrow DEF Grows
        <2>. QED
            BY <1>1, <2>1 DEF MemoryTypes
    <1>. QED
        BY <1>4, <1>5, <1>6, <1>7, <1>8

\* Timelines stay complete: fewer versions need to be told of.
LEMMA ForgottenTimeline ==
    ASSUME NEW T, Forgotten(T), AudienceTypes, AudienceMove, TimelineComplete
    PROVE  TimelineComplete'
    <1>1. /\ TimelinesIncrease'
          /\ \A a \in Agent : Range(audience[a]) \subseteq Range(audience'[a])
        BY AudienceMoves, TimelineIs DEF Forgotten
    <1>2. versions' \subseteq versions
        BY DEF Forgotten
    <1>3. ASSUME NEW a \in Agent, NEW v \in versions', a \in v.disclosure
          PROVE  {v.id, v.retired} \ {NULL} \subseteq Range(audience'[a])
        BY <1>1, <1>2, <1>3, TimelineIs
    <1>. QED
        BY <1>1, <1>3 DEF TimelineComplete, TimelinesIncrease, Increasing

\* What was visible as of a number is visible still, less what is gone.
LEMMA VisibleForgotten ==
    ASSUME NEW T, Forgotten(T), VersionsApart, NEW a, NEW n
    PROVE  Ids(VisibleTo(a, n)') = Ids(VisibleTo(a, n)) \ Ids(VersionsOf(T))
    <1>1. ASSUME NEW v \in versions PROVE v \in versions' <=> v.id \notin Ids(VersionsOf(T))
        BY GoneIs DEF VersionsOf, Forgotten
    <1>2. versions' \subseteq versions
        BY DEF Forgotten
    <1>3. VisibleTo(a, n)' = {w \in versions' : Eligible(w, a, n)}
        BY DEF VisibleTo, Eligible
    <1>4. VisibleTo(a, n)' = {w \in VisibleTo(a, n) : w.id \notin Ids(VersionsOf(T))}
        BY <1>1, <1>2, <1>3 DEF VisibleTo
    <1>. QED
        BY <1>4 DEF Ids

\* A recall can be repeated less what is gone.
LEMMA ForgottenRecalls ==
    ASSUME NEW T, Forgotten(T), AudienceTypes, AudienceMove, RecallTypes, VersionsApart, RecallInv
    PROVE  RecallInv'
    <1>1. ASSUME NEW q \in recalls'
          PROVE  /\ q.ids = Ids(VisibleTo(q.provider, RecordedOf(q.provider, q.watermark))')
                 /\ q.watermark <= Len(audience'[q.provider])
        <2>1. PICK r \in recalls : q = [r EXCEPT !.ids = @ \ Ids(VersionsOf(T))]
            BY DEF Forgotten, RecallsWithout
        <2>2. /\ r.provider \in Agent /\ r.watermark \in Nat
              /\ q.provider = r.provider /\ q.watermark = r.watermark /\ q.ids = r.ids \ Ids(VersionsOf(T))
            BY <2>1 DEF RecallTypes
        <2>. DEFINE n == RecordedOf(r.provider, r.watermark)
        <2>3. r.watermark <= Len(audience[r.provider]) /\ r.ids = Ids(VisibleTo(r.provider, n))
            BY DEF RecallInv, RecallReproducible
        <2>4. n' = n /\ r.watermark <= Len(audience'[r.provider])
            BY <2>2, <2>3, RecordedKept DEF Forgotten
        <2>5. VisibleTo(r.provider, n)' = {w \in versions' : Eligible(w, r.provider, n')}
            BY DEF VisibleTo, Eligible
        <2>6. \A k : VisibleTo(r.provider, k)' = {w \in versions' : Eligible(w, r.provider, k)}
            BY DEF VisibleTo, Eligible
        <2>7. PICK k : n = k
            OBVIOUS
        <2>8. VisibleTo(r.provider, n)' = VisibleTo(r.provider, k)'
            BY <2>4, <2>5, <2>6, <2>7
        <2>9. q.ids = Ids(VisibleTo(r.provider, k)')
            BY <2>2, <2>3, <2>7, VisibleForgotten
        <2>. QED
            BY <2>2, <2>4, <2>8, <2>9
    <1>. QED
        BY <1>1 DEF RecallInv, RecallReproducible

-----------------------------------------------------------------------------
(***************************************************************************)
(* The steps that forget nothing: quiet ones, deadlines, what is accepted.  *)
(***************************************************************************)
\* A step that forgets nothing: the tables of memory and what is told of it.
Remembers(fresh) == \E f : Kept(f, fresh) /\ Told(f, fresh)

\* Timelines may stay as they are.
LEMMA SameAudience ==
    ASSUME Grows, AudienceTypes, UNCHANGED audience
    PROVE  AudienceMove
    <1>1. audience = [a \in Agent |-> audience[a]]
        BY DEF AudienceTypes
    <1>2. ASSUME NEW a \in Agent PROVE Extension(audience[a], audience[a], seq, seq')
        BY SameExtends DEF AudienceTypes, Grows
    <1>. QED
        BY <1>1, <1>2 DEF AudienceMove

\* Memory may stay as it is.
LEMMA QuietRemembers ==
    ASSUME Grows, UNCHANGED memory
    PROVE  Remembers({})
    <1>. DEFINE f == [v \in versions |-> v]
    <1>1. Kept(f, {})
        BY DEF Kept, Became, memory, Ids
    <1>2. Told(f, {})
        BY DEF Told
    <1>. QED
        BY <1>1, <1>2 DEF Remembers

\* Versions that fall due are retired, each of its audiences told (_expire_due).
LEMMA ExpireRemembers ==
    ASSUME ClockTypes, MemoryTypes, AudienceTypes, VersionsApart, ExpireDue
    PROVE  Grows /\ AudienceMove /\ Remembers({}) /\ threads' = threads
    <1>. DEFINE Due == DueVersions
                f == [v \in versions |-> IF v \in Due
                                         THEN [v EXCEPT !.lifecycle = "expired", !.retired = TurnOf(v, Due)]
                                         ELSE v]
                mine(a) == {TurnOf(v, Due) : v \in {w \in Due : a \in w.disclosure}}
    <1>0. seq \in Nat
        BY DEF ClockTypes
    <1>1. Due \subseteq versions /\ \A v \in Due : v.lifecycle = "active" /\ Current(v)
        BY DEF DueVersions
    <1>2. \A v \in versions : v \in VersionRows(seq) /\ v.id \in 0 .. seq /\ v.id \in Nat
        BY <1>0 DEF MemoryTypes, VersionRows
    <1>3. IsFiniteSet(Due) /\ Cardinality(Due) \in Nat
        BY <1>0, <1>1, <1>2, RowsAreFinite DEF VersionsApart
    <1>4. /\ versions' = {IF v \in Due
                          THEN [v EXCEPT !.lifecycle = "expired", !.retired = TurnOf(v, Due)]
                          ELSE v : v \in versions}
          /\ audience' = [a \in Agent |-> audience[a] \o InOrder(mine(a))]
          /\ seq' = seq + Cardinality(Due)
          /\ UNCHANGED <<threads, fts, relations>>
        BY DEF ExpireDue
    <1>. HIDE DEF Due
    <1>5. Grows
        <2>1. seq' = seq + Cardinality(Due)
            BY <1>4
        <2>. QED
            BY <1>0, <1>3, <2>1 DEF Grows
    <1>6. ASSUME NEW v \in Due PROVE TurnOf(v, Due) \in seq + 1 .. seq'
        BY <1>0, <1>1, <1>2, <1>3, <1>4, TurnIs
    <1>7. ASSUME NEW a \in Agent
          PROVE  /\ Extension(audience[a], audience'[a], seq, seq')
                 /\ mine(a) \subseteq Range(audience'[a])
        <2>1. mine(a) \in SUBSET (seq + 1 .. seq') /\ audience[a] \in Seq(0 .. seq)
            BY <1>6 DEF AudienceTypes
        <2>2. audience'[a] = audience[a] \o InOrder(mine(a))
            BY <1>4
        <2>. HIDE DEF mine
        <2>. QED
            BY <1>5, <2>1, <2>2, InOrderExtends DEF Grows
    <1>8. AudienceMove
        BY <1>4, <1>7 DEF AudienceMove
    <1>9. ASSUME NEW v \in versions PROVE Became(v, f[v])
        <2>1. CASE v \in Due
            <3>1. f[v] = [v EXCEPT !.lifecycle = "expired", !.retired = TurnOf(v, Due)]
                BY <2>1
            <3>. QED
                BY <1>1, <1>6, <2>1, <3>1 DEF Became
        <2>2. CASE v \notin Due
            BY <2>2 DEF Became
        <2>. QED
            BY <2>1, <2>2
    <1>10. Kept(f, {})
        <2>1. versions' = {f[v] : v \in versions} \cup {}
            BY <1>4
        <2>2. threads \subseteq threads' /\ fts' = fts \cup Ids({}) /\ relations \subseteq relations' /\ relations' \ relations = {}
            BY <1>4 DEF Ids
        <2>. HIDE DEF f
        <2>. QED
            BY <1>5, <1>9, <2>1, <2>2 DEF Kept
    <1>11. Told(f, {})
        <2>1. ASSUME NEW a \in Agent, NEW v \in versions, f[v] # v, a \in v.disclosure
              PROVE  f[v].retired \in Range(audience'[a])
            <3>1. v \in Due /\ f[v] = [v EXCEPT !.lifecycle = "expired", !.retired = TurnOf(v, Due)]
                BY <2>1
            <3>2. f[v].retired = TurnOf(v, Due)
                BY <1>2, <3>1 DEF VersionRows
            <3>3. TurnOf(v, Due) \in mine(a)
                BY <2>1, <3>1
            <3>. QED
                BY <1>7, <3>2, <3>3
        <2>. QED
            BY <2>1 DEF Told
    <1>. QED
        BY <1>4, <1>5, <1>8, <1>10, <1>11 DEF Remembers

\* What a preview names as the content of a version to come.
Admissible(preview) == preview.subject \in Subject /\ preview.content \in Content

\* The thread of a subject is there, or the first of its subject.
LEMMA ThreadIs ==
    ASSUME seq \in Nat, MemoryTypes, NEW s \in Subject
    PROVE  /\ ThreadFor(s, seq + 1) \in [id: 0 .. seq + 1, subject: {s}]
           /\ \/ ThreadFor(s, seq + 1) \in threads
              \/ \A u \in threads : u.subject # s
    <1>1. CASE \E t \in threads : t.subject = s
        <2>1. ThreadFor(s, seq + 1) \in threads /\ ThreadFor(s, seq + 1).subject = s
            BY <1>1 DEF ThreadFor
        <2>. QED
            BY <2>1 DEF MemoryTypes
    <1>2. CASE \A t \in threads : t.subject # s
        <2>1. ThreadFor(s, seq + 1) = [id |-> seq + 1, subject |-> s]
            BY <1>2 DEF ThreadFor
        <2>. QED
            BY <1>2, <2>1
    <1>. QED
        BY <1>1, <1>2

\* What an accepted preview adds: a version, in the thread of its subject.
Admits(new, t, preview, kind, inputs) ==
    /\ Remembers({new}) /\ NewRow(new)
    /\ t.id = new.thread /\ t.subject = preview.subject /\ t \in threads'
    /\ threads' = threads \cup {t} /\ t \in [id: 0 .. seq', subject: Subject]
    /\ t \in threads \/ \A u \in threads : u.subject # t.subject
    /\ Grows /\ seq' = seq + 1 /\ AudienceMove
    /\ provenance' = provenance \cup {[target |-> seq + 1, kind |-> kind, inputs |-> inputs]}

\* A preview becomes one version, current, in the thread of its subject; what it
\* supersedes is one active version of that thread, or none.
LEMMA AcceptRemembers ==
    ASSUME ClockTypes, MemoryTypes, AudienceTypes, ThreadsApart,
           NEW preview, Admissible(preview), NEW old \in SUBSET ActiveOf(preview.subject),
           \A v, w \in old : v = w, NEW kind, NEW inputs, Accept(preview, old, kind, inputs)
    PROVE  \E new, t : Admits(new, t, preview, kind, inputs)
    <1>. DEFINE n == seq + 1
                t == ThreadFor(preview.subject, n)
                new == NewVersion(preview, n)
                f == [v \in versions |-> IF v \in old
                                         THEN [v EXCEPT !.lifecycle = "superseded", !.retired = n] ELSE v]
    <1>0. seq \in Nat /\ seq' = n /\ Grows
        <2>1. seq' = seq + 1
            BY DEF Accept, NextSequence
        <2>2. seq \in Nat
            BY DEF ClockTypes
        <2>. QED
            BY <2>1, <2>2 DEF Grows
    <1>1. /\ threads' = threads \cup {t}
          /\ versions' = {IF v \in old
                          THEN [v EXCEPT !.lifecycle = "superseded", !.retired = n] ELSE v :
                          v \in versions} \cup {new}
          /\ fts' = fts \cup {new.id}
          /\ relations' = relations \cup {[from |-> new.id, to |-> v.id] : v \in old}
          /\ provenance' = provenance \cup {[target |-> new.id, kind |-> kind, inputs |-> inputs]}
          /\ audience' = AudienceChange(audience, n, old \cup {new})
        BY DEF Accept, NextSequence
    <1>2. t \in [id: 0 .. n, subject: {preview.subject}] /\ (t \in threads \/ \A u \in threads : u.subject # preview.subject)
        BY <1>0, ThreadIs DEF Admissible
    <1>3. new = [id |-> n, thread |-> t.id, body |-> preview.content.body,
                 retention |-> preview.content.retention, disclosure |-> preview.content.disclosure,
                 lifecycle |-> "active", retired |-> NULL]
        BY DEF NewVersion
    <1>. HIDE DEF t, new
    <1>4. t \in threads' /\ t.subject = preview.subject /\ t \in [id: 0 .. n, subject: Subject] /\ t.id \in 0 .. n
        BY <1>1, <1>2 DEF Admissible
    <1>5. /\ new.id = n /\ new.thread = t.id /\ new.retired = NULL /\ new.lifecycle = "active"
          /\ new \in VersionRows(n)
        <2>1. NULL \in 0 .. n /\ n \in 0 .. n
            BY <1>0 DEF NULL
        <2>2. /\ preview.content.body \in Body /\ preview.content.retention \in Retention
              /\ preview.content.disclosure \in Disclosure
            BY DEF Admissible, Content
        <2>. QED
            BY <1>3, <1>4, <2>1, <2>2 DEF VersionRows
    <1>6. NewRow(new)
        BY <1>0, <1>4, <1>5 DEF NewRow, Ids
    <1>7. ASSUME NEW v \in old
          PROVE  /\ v \in versions /\ v \in VersionRows(seq) /\ Current(v) /\ v.lifecycle = "active"
                 /\ v.thread = new.thread
        <2>1. PICK u \in threads : u.id = v.thread /\ u.subject = preview.subject
            BY DEF ActiveOf
        <2>2. u = t
            BY <1>2, <1>4, <2>1 DEF ThreadsApart
        <2>. QED
            BY <1>5, <2>1, <2>2 DEF ActiveOf, MemoryTypes
    <1>8. ASSUME NEW v \in old
          PROVE  /\ f[v] = [v EXCEPT !.lifecycle = "superseded", !.retired = n]
                 /\ f[v].lifecycle = "superseded" /\ f[v].retired = n
        <2>1. v \in versions /\ v \in VersionRows(seq)
            BY <1>7
        <2>. QED
            BY <2>1 DEF VersionRows
    <1>9. ASSUME NEW v \in versions \ old PROVE f[v] = v
        OBVIOUS
    <1>10. versions' = {f[v] : v \in versions} \cup {new}
        BY <1>1
    <1>. HIDE DEF f
    <1>11. ASSUME NEW v \in versions PROVE Became(v, f[v])
        <2>1. CASE v \in old
            <3>1. [from |-> n, to |-> v.id] \in relations'
                BY <1>1, <1>5, <2>1
            <3>2. n \in seq + 1 .. seq'
                BY <1>0
            <3>. QED
                BY <1>7, <1>8, <2>1, <3>1, <3>2 DEF Became
        <2>2. CASE v \notin old
            BY <1>9, <2>2 DEF Became
        <2>. QED
            BY <2>1, <2>2
    <1>12. Kept(f, {new})
        <2>1. ASSUME NEW r \in relations' \ relations
              PROVE  \E v \in versions, x \in {new} :
                        /\ r = [from |-> x.id, to |-> v.id]
                        /\ x.thread = v.thread /\ f[v].lifecycle = "superseded" /\ f[v].retired = x.id
            <3>1. PICK v \in old : r = [from |-> new.id, to |-> v.id]
                BY <1>1, <2>1
            <3>. QED
                BY <1>5, <1>7, <1>8, <3>1
        <2>2. threads \subseteq threads' /\ fts' = fts \cup Ids({new}) /\ relations \subseteq relations'
            BY <1>1 DEF Ids
        <2>. QED
            BY <1>0, <1>6, <1>10, <1>11, <2>1, <2>2 DEF Kept
    <1>13. ASSUME NEW a \in Agent
           PROVE  /\ Extension(audience[a], audience'[a], seq, seq')
                  /\ \A v \in old \cup {new} : a \in v.disclosure => n \in Range(audience'[a])
        <2>1. audience[a] \in Seq(0 .. seq)
            BY DEF AudienceTypes
        <2>2. CASE \E v \in old \cup {new} : a \in v.disclosure
            <3>1. audience'[a] = Append(audience[a], n)
                BY <1>1, <2>2 DEF AudienceChange
            <3>. QED
                BY <1>0, <2>1, <3>1, AppendExtends
        <2>3. CASE ~ \E v \in old \cup {new} : a \in v.disclosure
            <3>1. audience'[a] = audience[a]
                BY <1>1, <2>3 DEF AudienceChange
            <3>. QED
                BY <1>0, <2>1, <2>3, <3>1, SameExtends DEF Grows
        <2>. QED
            BY <2>2, <2>3
    <1>14. AudienceMove
        BY <1>1, <1>13 DEF AudienceMove, AudienceChange
    <1>15. Told(f, {new})
        <2>1. ASSUME NEW a \in Agent, NEW v \in versions, f[v] # v, a \in v.disclosure
              PROVE  f[v].retired \in Range(audience'[a])
            <3>1. v \in old
                BY <1>9, <2>1
            <3>. QED
                BY <1>8, <1>13, <2>1, <3>1
        <2>2. ASSUME NEW a \in Agent, a \in new.disclosure PROVE new.id \in Range(audience'[a])
            BY <1>5, <1>13, <2>2
        <2>. QED
            BY <2>1, <2>2 DEF Told
    <1>16. Remembers({new})
        BY <1>12, <1>15 DEF Remembers
    <1>. QED
        BY <1>0, <1>1, <1>2, <1>4, <1>5, <1>6, <1>14, <1>16 DEF Admits

-----------------------------------------------------------------------------
(***************************************************************************)
(* Proposals, tombstones and provenance.                                    *)
(***************************************************************************)
\* Proposals are purged, with whatever traces the given targets.
Purged(rows, ids) ==
    /\ rows \subseteq proposals /\ Ids(rows) \subseteq ids
    /\ proposals' = proposals \ rows
    /\ \A t \in tombstones' :
         \/ t \in tombstones
         \/ \E p \in rows, n \in seq + 1 .. seq' :
              t = [provider |-> p.provider, key |-> p.key, proposal |-> p.id, purged |-> n]
    /\ provenance' = WithoutTargets(ids)

\* What a purge does to proposals and tombstones, whatever becomes of the versions.
LEMMA PurgedReview ==
    ASSUME Grows, NEW rows, NEW ids, Purged(rows, ids), ReviewedInv
    PROVE  /\ ReviewTypes' /\ OneLiveDelivery' /\ ProposalsApart'
           /\ NamedIsAccepted' /\ InputsDecide' /\ PurgedIsGone' /\ PurgedNeverAdmitted'
    <1>0. seq \in Nat /\ seq' \in Nat /\ seq <= seq'
        BY DEF Grows
    <1>1. /\ rows \subseteq proposals /\ proposals' = proposals \ rows
          /\ proposals' \subseteq proposals /\ provenance' \subseteq provenance
        BY DEF Purged, WithoutTargets
    <1>2. Acceptances' \subseteq Acceptances
        BY <1>1 DEF Acceptances
    <1>3. ASSUME NEW t \in tombstones', t \notin tombstones
          PROVE  \E p \in rows, n \in seq + 1 .. seq' :
                   t = [provider |-> p.provider, key |-> p.key, proposal |-> p.id, purged |-> n]
        BY <1>3 DEF Purged
    <1>4. 0 .. seq \subseteq 0 .. seq' /\ ProposalRows(seq) \subseteq ProposalRows(seq')
        BY <1>0, RowsGrow
    <1>5. ReviewTypes'
        <2>1. proposals' \subseteq ProposalRows(seq')
            BY <1>1, <1>4 DEF ReviewedInv, ReviewTypes
        <2>2. provenance' \subseteq [target: 0 .. seq', inputs: SUBSET (0 .. seq'), kind: Kinds]
            BY <1>1, <1>4 DEF ReviewedInv, ReviewTypes
        <2>3. ASSUME NEW t \in tombstones'
              PROVE  t \in [provider: Agent, key: Key, proposal: 0 .. seq', purged: 0 .. seq']
            <3>1. CASE t \in tombstones
                BY <1>4, <3>1 DEF ReviewedInv, ReviewTypes
            <3>2. CASE t \notin tombstones
                <4>1. PICK p \in rows, n \in seq + 1 .. seq' :
                        t = [provider |-> p.provider, key |-> p.key, proposal |-> p.id, purged |-> n]
                    BY <1>3, <3>2
                <4>2. p \in ProposalRows(seq') /\ n \in 0 .. seq'
                    BY <1>0, <1>1, <1>4 DEF ReviewedInv, ReviewTypes
                <4>. QED
                    BY <4>1, <4>2 DEF ProposalRows
            <3>. QED
                BY <3>1, <3>2
        <2>. QED
            BY <2>1, <2>2, <2>3 DEF ReviewTypes
    <1>6. OneLiveDelivery'
        <2>1. ASSUME NEW p \in proposals', NEW t \in tombstones'
              PROVE  ~(t.provider = p.provider /\ t.key = p.key)
            <3>1. CASE t \in tombstones
                BY <1>1, <3>1 DEF ReviewedInv, OneLiveDelivery
            <3>2. CASE t \notin tombstones
                <4>1. PICK q \in rows : t.provider = q.provider /\ t.key = q.key
                    BY <1>3, <3>2
                <4>2. q # p /\ q \in proposals /\ p \in proposals
                    BY <1>1
                <4>. QED
                    BY <4>1, <4>2 DEF ReviewedInv, OneLiveDelivery
            <3>. QED
                BY <3>1, <3>2
        <2>. QED
            BY <1>1, <2>1 DEF ReviewedInv, OneLiveDelivery
    <1>7. ProposalsApart' /\ NamedIsAccepted' /\ InputsDecide'
        BY <1>1, <1>2 DEF ReviewedInv, ReviewInv, ProposalsApart, NamedIsAccepted, InputsDecide
    <1>8. PurgedIsGone'
        <2>1. ASSUME NEW t \in tombstones', NEW p \in proposals' PROVE t.proposal # p.id
            <3>1. CASE t \in tombstones
                BY <1>1, <3>1 DEF ReviewedInv, ReviewInv, PurgedIsGone
            <3>2. CASE t \notin tombstones
                <4>1. PICK q \in rows : t.proposal = q.id
                    BY <1>3, <3>2
                <4>2. q # p /\ q \in proposals /\ p \in proposals
                    BY <1>1
                <4>. QED
                    BY <4>1, <4>2 DEF ReviewedInv, ProposalsApart
            <3>. QED
                BY <3>1, <3>2
        <2>. QED
            BY <2>1 DEF PurgedIsGone
    <1>9. PurgedNeverAdmitted'
        <2>1. ASSUME NEW t \in tombstones', NEW a \in provenance', a.kind = "proposal_acceptance", t.proposal \in a.inputs
              PROVE  a.target < t.purged
            <3>1. CASE t \in tombstones
                BY <1>1, <2>1, <3>1 DEF ReviewedInv, ReviewInv, PurgedNeverAdmitted
            <3>2. CASE t \notin tombstones
                <4>1. PICK p \in rows, n \in seq + 1 .. seq' : t.purged = n
                    BY <1>3, <3>2
                <4>2. a.target \in 0 .. seq
                    BY <1>1 DEF ReviewedInv, ReviewTypes
                <4>. QED
                    BY <1>0, <4>1, <4>2
            <3>. QED
                BY <3>1, <3>2
        <2>. QED
            BY <2>1 DEF PurgedNeverAdmitted
    <1>. QED
        BY <1>5, <1>6, <1>7, <1>8, <1>9

\* Purges leave the versions alone, and so the proposals they came from.
LEMMA PurgedKept ==
    ASSUME NEW f, NEW fresh, Kept(f, fresh), MemoryTypes, VersionsApart, CorrectionInv, VersionsNamed,
           NEW rows, Purged(rows, Ids(rows)), ReviewedInv
    PROVE  ReviewedInv'
    <1>0. Grows /\ seq \in Nat
        BY DEF Kept, Grows
    <1>1. /\ ReviewTypes' /\ OneLiveDelivery' /\ ProposalsApart'
          /\ NamedIsAccepted' /\ InputsDecide' /\ PurgedIsGone' /\ PurgedNeverAdmitted'
        BY <1>0, PurgedReview
    <1>2. /\ rows \subseteq proposals /\ proposals' = proposals \ rows
          /\ provenance' = {a \in provenance : a.target \notin Ids(rows)}
        BY DEF Purged, WithoutTargets
    <1>3. ASSUME NEW v \in versions
          PROVE  f[v] \in versions' /\ f[v].id = v.id /\ f[v].thread = v.thread
        BY <1>0, BecameIs DEF Kept, MemoryTypes
    <1>4. Ids(versions') = Ids(versions) \cup Ids(fresh)
        BY KeptMemory
    <1>5. AcceptedHasVersion'
        <2>1. ASSUME NEW p \in proposals', p.status = "accepted"
              PROVE  \E v \in versions', a \in Acceptances', t \in threads' :
                        a.target = v.id /\ p.id \in a.inputs /\ t.id = v.thread /\ t.subject = p.subject
            <3>1. PICK v \in versions, a \in Acceptances, t \in threads :
                        a.target = v.id /\ p.id \in a.inputs /\ t.id = v.thread /\ t.subject = p.subject
                BY <1>2, <2>1 DEF ReviewedInv, ReviewInv, AcceptedHasVersion
            <3>2. v.id \notin Ids(rows)
                BY <1>2 DEF ReviewedInv, TablesApart, Ids
            <3>3. a \in Acceptances'
                BY <1>2, <3>1, <3>2 DEF Acceptances
            <3>4. t \in threads'
                BY DEF Kept
            <3>. QED
                BY <1>3, <3>1, <3>3, <3>4
        <2>. QED
            BY <2>1 DEF AcceptedHasVersion
    <1>6. TablesApart'
        <2>1. ASSUME NEW w \in versions', NEW p \in proposals' PROVE w.id # p.id
            <3>1. p \in proposals /\ p.id \in 0 .. seq
                BY <1>2 DEF ReviewedInv, ReviewTypes, ProposalRows
            <3>2. CASE w.id \in Ids(versions)
                BY <3>1, <3>2 DEF ReviewedInv, TablesApart, Ids
            <3>3. CASE w.id \in Ids(fresh)
                <4>1. w.id = seq + 1
                    BY <3>3 DEF Kept, NewRow, Ids
                <4>2. seq + 1 \notin 0 .. seq
                    BY <1>0
                <4>. QED
                    BY <3>1, <4>1, <4>2
            <3>4. w.id \in Ids(versions')
                BY DEF Ids
            <3>. QED
                BY <1>4, <3>2, <3>3, <3>4
        <2>. QED
            BY <2>1 DEF TablesApart
    <1>7. ProvenanceNamed'
        <2>1. ASSUME NEW a \in provenance' PROVE a.target \in Ids(versions') \cup Ids(proposals')
            BY <1>2, <1>4 DEF ReviewedInv, ProvenanceNamed, Ids
        <2>. QED
            BY <2>1 DEF ProvenanceNamed
    <1>. QED
        BY <1>1, <1>5, <1>6, <1>7 DEF ReviewedInv, ReviewInv

\* A forget purges the proposals of its subject, so none is left without a version.
LEMMA PurgedForgotten ==
    ASSUME NEW T, Forgotten(T), MemoryTypes, VersionsApart, CorrectionInv, VersionsNamed,
           Purged(DraftsOf(T), Ids(VersionsOf(T)) \cup Ids(DraftsOf(T))), ReviewedInv
    PROVE  ReviewedInv'
    <1>. DEFINE G == Ids(VersionsOf(T))
                D == DraftsOf(T)
    <1>0. Grows
        BY DEF Forgotten
    <1>1. /\ ReviewTypes' /\ OneLiveDelivery' /\ ProposalsApart'
          /\ NamedIsAccepted' /\ InputsDecide' /\ PurgedIsGone' /\ PurgedNeverAdmitted'
        BY <1>0, PurgedReview
    <1>2. /\ D \subseteq proposals /\ proposals' = proposals \ D
          /\ provenance' = {a \in provenance : a.target \notin G \cup Ids(D)}
        BY DEF Purged, WithoutTargets
    <1>3. Ids(versions') = Ids(versions) \ G /\ versions' \subseteq versions
        BY ForgottenMemory DEF Forgotten
    <1>4. ASSUME NEW v \in versions, v.thread # T PROVE v \in versions' /\ v.id \notin G
        BY <1>4, GoneIs DEF Forgotten, VersionsOf
    <1>5. AcceptedHasVersion'
        <2>1. ASSUME NEW p \in proposals', p.status = "accepted"
              PROVE  \E v \in versions', a \in Acceptances', t \in threads' :
                        a.target = v.id /\ p.id \in a.inputs /\ t.id = v.thread /\ t.subject = p.subject
            <3>1. PICK v \in versions, a \in Acceptances, t \in threads :
                        a.target = v.id /\ p.id \in a.inputs /\ t.id = v.thread /\ t.subject = p.subject
                BY <1>2, <2>1 DEF ReviewedInv, ReviewInv, AcceptedHasVersion
            <3>2. p \in proposals /\ p \notin D
                BY <1>2
            <3>3. v.thread # T
                BY <3>1, <3>2 DEF DraftsOf
            <3>4. v \in versions' /\ v.id \notin G /\ t \in threads'
                BY <1>4, <3>1, <3>3 DEF Forgotten
            <3>5. v.id \notin Ids(D)
                BY <1>2 DEF ReviewedInv, TablesApart, Ids
            <3>6. a \in Acceptances'
                BY <1>2, <3>1, <3>4, <3>5 DEF Acceptances
            <3>. QED
                BY <3>1, <3>4, <3>6
        <2>. QED
            BY <2>1 DEF AcceptedHasVersion
    <1>6. TablesApart'
        BY <1>2, <1>3 DEF ReviewedInv, TablesApart
    <1>7. ProvenanceNamed'
        <2>1. ASSUME NEW a \in provenance' PROVE a.target \in Ids(versions') \cup Ids(proposals')
            BY <1>2, <1>3 DEF ReviewedInv, ProvenanceNamed, Ids
        <2>. QED
            BY <2>1 DEF ProvenanceNamed
    <1>. QED
        BY <1>1, <1>5, <1>6, <1>7 DEF ReviewedInv, ReviewInv

\* A proposal comes in under a delivery of its own and a number of its own.
LEMMA ProposedReview ==
    ASSUME ClockTypes, MemoryTypes, ReviewedInv, NEW agent \in Agent, NEW key \in Key, NEW subject \in Subject,
           NEW content \in Content, Propose(agent, key, subject, content)
    PROVE  ReviewedInv' /\ Grows
    <1>. DEFINE n == seq + 1
                new == [id |-> n, subject |-> subject, body |-> content.body, retention |-> content.retention,
                        disclosure |-> content.disclosure, status |-> "proposed", provider |-> agent, key |-> key]
                act == [target |-> n, kind |-> "agent_proposal", inputs |-> {}]
    <1>0. seq' = n /\ seq \in Nat /\ n \in Nat /\ n \notin 0 .. seq /\ n \in 0 .. n
        BY DEF Propose, NextSequence, ClockTypes
    <1>1. Grows
        BY <1>0 DEF Grows
    <1>2. /\ proposals' = proposals \cup {new} /\ provenance' = provenance \cup {act}
          /\ ~Suppressed(agent, key) /\ \A p \in proposals : ~(p.provider = agent /\ p.key = key)
          /\ UNCHANGED <<memory, tombstones>>
        BY DEF Propose, NextSequence
    <1>3. /\ new.id = n /\ new.provider = agent /\ new.key = key /\ new.status = "proposed"
          /\ act.target = n /\ act.kind # "proposal_acceptance"
        OBVIOUS
    <1>4. new \in ProposalRows(n) /\ act \in [target: 0 .. n, inputs: SUBSET (0 .. n), kind: Kinds]
        <2>1. content.body \in Body /\ content.retention \in Retention /\ content.disclosure \in Disclosure
            BY DEF Content
        <2>. QED
            BY <1>0, <2>1 DEF ProposalRows, Kinds
    <1>. HIDE DEF new, act
    <1>5. Acceptances' = Acceptances
        BY <1>2, <1>3 DEF Acceptances
    <1>6. \A p \in proposals : p.id \in 0 .. seq
        BY DEF ReviewedInv, ReviewTypes, ProposalRows
    <1>7. ReviewTypes'
        <2>1. 0 .. seq \subseteq 0 .. n /\ ProposalRows(seq) \subseteq ProposalRows(n)
            BY <1>0, <1>1, RowsGrow DEF Grows
        <2>. QED
            BY <1>0, <1>2, <1>4, <2>1 DEF ReviewedInv, ReviewTypes
    <1>8. OneLiveDelivery'
        BY <1>2, <1>3 DEF ReviewedInv, OneLiveDelivery, Suppressed
    <1>9. ProposalsApart'
        BY <1>0, <1>2, <1>3, <1>6 DEF ReviewedInv, ProposalsApart
    <1>10. TablesApart'
        <2>1. \A v \in versions : v.id \in 0 .. seq
            BY DEF MemoryTypes, VersionRows
        <2>. QED
            BY <1>0, <1>2, <1>3, <2>1 DEF ReviewedInv, TablesApart, memory
    <1>11. ProvenanceNamed'
        BY <1>2, <1>3 DEF ReviewedInv, ProvenanceNamed, Ids, memory
    <1>12. AcceptedHasVersion'
        BY <1>2, <1>3, <1>5 DEF ReviewedInv, ReviewInv, AcceptedHasVersion, memory
    <1>13. NamedIsAccepted'
        <2>1. ASSUME NEW a \in Acceptances PROVE new.id \notin a.inputs
            BY <1>0, <1>3 DEF ReviewedInv, ReviewTypes, Acceptances
        <2>. QED
            BY <1>2, <1>5, <2>1 DEF ReviewedInv, ReviewInv, NamedIsAccepted
    <1>14. InputsDecide'
        BY <1>5 DEF ReviewedInv, ReviewInv, InputsDecide
    <1>15. PurgedIsGone'
        <2>1. ASSUME NEW t \in tombstones PROVE t.proposal # new.id
            BY <1>0, <1>3 DEF ReviewedInv, ReviewTypes
        <2>. QED
            BY <1>2, <2>1 DEF ReviewedInv, ReviewInv, PurgedIsGone
    <1>16. PurgedNeverAdmitted'
        BY <1>2, <1>3 DEF ReviewedInv, ReviewInv, PurgedNeverAdmitted
    <1>. QED
        BY <1>1, <1>7, <1>8, <1>9, <1>10, <1>11, <1>12, <1>13, <1>14, <1>15, <1>16 DEF ReviewedInv, ReviewInv

\* A version comes in, by the owner's word or from a proposal that is accepted with it.
Accepted(new, thread, kind, inputs) ==
    /\ Remembers({new}) /\ NewRow(new)
    /\ thread.id = new.thread /\ thread \in threads'
    /\ provenance' = provenance \cup {[target |-> seq + 1, kind |-> kind, inputs |-> inputs]}
    /\ tombstones' = tombstones
    /\ \/ kind \in Kinds \ {"proposal_acceptance"} /\ inputs \in SUBSET (0 .. seq) /\ proposals' = proposals
       \/ /\ kind = "proposal_acceptance"
          /\ \E p \in proposals :
               /\ p.status = "proposed" /\ inputs = {p.id} /\ p.subject = thread.subject
               /\ proposals' = (proposals \ {p}) \cup {[p EXCEPT !.status = "accepted"]}

\* A proposal is accepted once, with the version it gives; a remember or a correction
\* accepts none.
LEMMA AcceptedReview ==
    ASSUME ClockTypes, MemoryTypes, VersionsApart, CorrectionInv, VersionsNamed, ReviewedInv,
           NEW new, NEW thread, NEW kind, NEW inputs, Accepted(new, thread, kind, inputs)
    PROVE  ReviewedInv'
    <1>. DEFINE act == [target |-> seq + 1, kind |-> kind, inputs |-> inputs]
    <1>0. PICK f : Kept(f, {new})
        BY DEF Accepted, Remembers
    <1>1. /\ Grows /\ seq \in Nat /\ seq' = seq + 1 /\ new.id = seq + 1 /\ new \in versions'
          /\ seq + 1 \in Nat /\ seq + 1 \notin 0 .. seq /\ seq + 1 \in 0 .. seq'
        <2>1. seq \in Nat /\ seq' = seq + 1 /\ new.id = seq + 1 /\ new \in versions' /\ Grows
            BY <1>0 DEF Kept, Grows, Accepted, NewRow
        <2>. QED
            BY <2>1
    <1>2. ASSUME NEW v \in versions PROVE f[v] \in versions' /\ f[v].id = v.id /\ f[v].thread = v.thread
        BY <1>0, <1>1, BecameIs DEF Kept, MemoryTypes
    <1>3. Ids(versions') = Ids(versions) \cup {seq + 1}
        BY <1>0, <1>1, KeptMemory DEF Ids
    <1>4. /\ provenance' = provenance \cup {act} /\ tombstones' = tombstones /\ threads \subseteq threads'
          /\ act.target = seq + 1 /\ act.kind = kind /\ act.inputs = inputs
        BY <1>0 DEF Accepted, Kept
    <1>5. ASSUME NEW p \in proposals
          PROVE  /\ p \in ProposalRows(seq) /\ p.id \in 0 .. seq
                 /\ \A q \in proposals : q.id = p.id => q = p
        BY DEF ReviewedInv, ReviewTypes, ProposalRows, ProposalsApart
    <1>6. ASSUME NEW a \in provenance
          PROVE  a.target \in 0 .. seq /\ a.inputs \subseteq 0 .. seq
        BY DEF ReviewedInv, ReviewTypes
    <1>7. 0 .. seq \subseteq 0 .. seq' /\ ProposalRows(seq) \subseteq ProposalRows(seq')
        BY <1>1, RowsGrow DEF Grows
    <1>8. ASSUME NEW p \in proposals, p.status = "accepted"
          PROVE  \E v \in versions', a \in Acceptances', t \in threads' :
                    a.target = v.id /\ p.id \in a.inputs /\ t.id = v.thread /\ t.subject = p.subject
        <2>1. PICK v \in versions, a \in Acceptances, t \in threads :
                    a.target = v.id /\ p.id \in a.inputs /\ t.id = v.thread /\ t.subject = p.subject
            BY <1>8 DEF ReviewedInv, ReviewInv, AcceptedHasVersion
        <2>2. a \in Acceptances' /\ t \in threads'
            BY <1>4 DEF Acceptances
        <2>. QED
            BY <1>2, <2>1, <2>2
    <1>9. ASSUME NEW w \in versions', NEW n \in 0 .. seq, \A v \in versions : v.id # n PROVE w.id # n
        BY <1>1, <1>3, <1>9 DEF Ids
    <1>10. CASE kind \in Kinds \ {"proposal_acceptance"} /\ inputs \in SUBSET (0 .. seq) /\ proposals' = proposals
        <2>1. Acceptances' = Acceptances
            BY <1>4, <1>10 DEF Acceptances
        <2>2. ReviewTypes'
            <3>1. act \in [target: 0 .. seq', inputs: SUBSET (0 .. seq'), kind: Kinds]
                BY <1>1, <1>4, <1>7, <1>10
            <3>. HIDE DEF act
            <3>. QED
                BY <1>4, <1>7, <1>10, <3>1 DEF ReviewedInv, ReviewTypes
        <2>3. OneLiveDelivery' /\ ProposalsApart' /\ InputsDecide' /\ NamedIsAccepted' /\ PurgedIsGone'
            BY <1>4, <1>10, <2>1 DEF ReviewedInv, ReviewInv, OneLiveDelivery, ProposalsApart, InputsDecide,
                                     NamedIsAccepted, PurgedIsGone
        <2>4. TablesApart'
            BY <1>5, <1>9, <1>10 DEF ReviewedInv, TablesApart
        <2>5. ProvenanceNamed'
            BY <1>3, <1>4, <1>10 DEF ReviewedInv, ProvenanceNamed
        <2>6. PurgedNeverAdmitted'
            BY <1>4, <1>10 DEF ReviewedInv, ReviewInv, PurgedNeverAdmitted
        <2>7. AcceptedHasVersion'
            BY <1>8, <1>10 DEF AcceptedHasVersion
        <2>. QED
            BY <2>2, <2>3, <2>4, <2>5, <2>6, <2>7 DEF ReviewedInv, ReviewInv
    <1>11. ASSUME kind = "proposal_acceptance", NEW p \in proposals,
                  p.status = "proposed", inputs = {p.id}, p.subject = thread.subject,
                  proposals' = (proposals \ {p}) \cup {[p EXCEPT !.status = "accepted"]}
           PROVE  ReviewedInv'
        <2>. DEFINE done == [p EXCEPT !.status = "accepted"]
        <2>0. /\ done \in ProposalRows(seq) /\ done.id = p.id /\ done.status = "accepted" /\ done.subject = p.subject
              /\ done.provider = p.provider /\ done.key = p.key
            BY <1>5 DEF ProposalRows
        <2>. HIDE DEF done
        <2>1. Acceptances' = Acceptances \cup {act}
            BY <1>4, <1>11 DEF Acceptances
        <2>2. ASSUME NEW q \in proposals' PROVE q = done \/ (q \in proposals /\ q # p /\ q.id # p.id)
            BY <1>5, <1>11 DEF done
        <2>3. done \in proposals'
            BY <1>11 DEF done
        <2>4. \A a \in Acceptances : p.id \notin a.inputs
            BY <1>11 DEF ReviewedInv, ReviewInv, NamedIsAccepted
        <2>5. ReviewTypes'
            <3>1. act \in [target: 0 .. seq', inputs: SUBSET (0 .. seq'), kind: Kinds]
                BY <1>1, <1>4, <1>5, <1>7, <1>11 DEF Kinds
            <3>2. proposals' \subseteq ProposalRows(seq')
                BY <1>5, <1>7, <2>0, <2>2
            <3>. HIDE DEF act
            <3>. QED
                BY <1>4, <1>7, <3>1, <3>2 DEF ReviewedInv, ReviewTypes
        <2>6. OneLiveDelivery'
            <3>1. ASSUME NEW q \in proposals', NEW r \in proposals', q.provider = r.provider, q.key = r.key
                  PROVE  q = r
                BY <2>0, <2>2, <3>1 DEF ReviewedInv, OneLiveDelivery
            <3>2. ASSUME NEW q \in proposals', NEW t \in tombstones' PROVE ~(t.provider = q.provider /\ t.key = q.key)
                BY <1>4, <2>0, <2>2 DEF ReviewedInv, OneLiveDelivery
            <3>. QED
                BY <3>1, <3>2 DEF OneLiveDelivery
        <2>7. ProposalsApart'
            <3>1. ASSUME NEW q \in proposals', NEW r \in proposals', q.id = r.id PROVE q = r
                BY <1>5, <2>0, <2>2, <3>1
            <3>. QED
                BY <3>1 DEF ProposalsApart
        <2>8. TablesApart'
            <3>1. ASSUME NEW w \in versions', NEW q \in proposals' PROVE w.id # q.id
                <4>1. PICK r \in proposals : q.id = r.id
                    BY <2>0, <2>2
                <4>2. r.id \in 0 .. seq /\ \A v \in versions : v.id # r.id
                    BY <1>5 DEF ReviewedInv, TablesApart
                <4>. QED
                    BY <1>9, <4>1, <4>2
            <3>. QED
                BY <3>1 DEF TablesApart
        <2>9. ProvenanceNamed'
            <3>1. Ids(proposals) \subseteq Ids(proposals')
                <4>1. ASSUME NEW q \in proposals PROVE q.id \in Ids(proposals')
                    <5>1. q = p \/ q \in proposals'
                        BY <1>11
                    <5>. QED
                        BY <2>0, <2>3, <5>1 DEF Ids
                <4>. QED
                    BY <4>1 DEF Ids
            <3>. QED
                BY <1>3, <1>4, <3>1 DEF ReviewedInv, ProvenanceNamed
        <2>10. InputsDecide'
            <3>1. ASSUME NEW a \in Acceptances PROVE a.inputs # act.inputs
                BY <1>4, <1>11, <2>4
            <3>. QED
                BY <2>1, <3>1 DEF ReviewedInv, ReviewInv, InputsDecide
        <2>11. NamedIsAccepted'
            <3>1. ASSUME NEW q \in proposals', NEW a \in Acceptances', q.id \in a.inputs PROVE q.status = "accepted"
                <4>1. CASE q = done
                    BY <2>0, <4>1
                <4>2. CASE q # done
                    <5>1. q \in proposals /\ q.id # p.id
                        BY <2>2, <4>2
                    <5>2. a \in Acceptances
                        BY <1>4, <1>11, <2>1, <3>1, <5>1
                    <5>. QED
                        BY <3>1, <5>1, <5>2 DEF ReviewedInv, ReviewInv, NamedIsAccepted
                <4>. QED
                    BY <4>1, <4>2
            <3>. QED
                BY <3>1 DEF NamedIsAccepted
        <2>12. PurgedIsGone'
            BY <1>4, <2>0, <2>2 DEF ReviewedInv, ReviewInv, PurgedIsGone
        <2>13. PurgedNeverAdmitted'
            <3>1. ASSUME NEW t \in tombstones PROVE t.proposal \notin act.inputs
                BY <1>4, <1>11 DEF ReviewedInv, ReviewInv, PurgedIsGone
            <3>. QED
                BY <1>4, <3>1 DEF ReviewedInv, ReviewInv, PurgedNeverAdmitted
        <2>14. AcceptedHasVersion'
            <3>1. ASSUME NEW q \in proposals', q.status = "accepted"
                  PROVE  \E v \in versions', a \in Acceptances', t \in threads' :
                            a.target = v.id /\ q.id \in a.inputs /\ t.id = v.thread /\ t.subject = q.subject
                <4>1. CASE q = done
                    <5>1. thread.id = new.thread /\ thread \in threads' /\ thread.subject = q.subject
                        BY <1>11, <2>0, <4>1 DEF Accepted
                    <5>2. act \in Acceptances' /\ act.target = new.id /\ q.id \in act.inputs
                        BY <1>1, <1>4, <1>11, <2>0, <2>1, <4>1
                    <5>. QED
                        BY <1>1, <5>1, <5>2
                <4>2. CASE q # done
                    BY <1>8, <2>2, <3>1, <4>2
                <4>. QED
                    BY <4>1, <4>2
            <3>. QED
                BY <3>1 DEF AcceptedHasVersion
        <2>. QED
            BY <2>5, <2>6, <2>7, <2>8, <2>9, <2>10, <2>11, <2>12, <2>13, <2>14 DEF ReviewedInv, ReviewInv
    <1>. QED
        BY <1>10, <1>11 DEF Accepted

-----------------------------------------------------------------------------
(***************************************************************************)
(* Previews and approvals.                                                  *)
(***************************************************************************)
\* What a challenge's preview may be.
Sound(preview) ==
    /\ preview.op \in PreviewOps
    /\ preview.op \in {"remember", "correct", "accept_proposal"} =>
         /\ Admissible(preview)
         /\ preview.op = "accept_proposal" =>
              \E p \in preview.scope.proposals : p.id = preview.proposal /\ p.subject = preview.subject

\* admin_preview issues sound previews.
LEMMA SoundPreviews ==
    ASSUME MemoryTypes, ReviewTypes, VersionsNamed,
           NEW p \in RememberPreviews \cup ReviewPreviews \cup CorrectPreviews \cup ForgetPreviews
    PROVE  Sound(p)
    <1>1. CASE p \in RememberPreviews
        BY <1>1 DEF RememberPreviews, Future, Sound, Admissible, PreviewOps
    <1>2. CASE p \in ReviewPreviews
        <2>1. PICK o \in {"accept_proposal", "reject_proposal"}, q \in proposals :
                p = [op |-> o, proposal |-> q.id, subject |-> q.subject, scope |-> ProposalScope(q.id),
                     content |-> [body |-> q.body, retention |-> q.retention, disclosure |-> q.disclosure]]
            BY <1>2 DEF ReviewPreviews
        <2>2. q \in ProposalRows(seq)
            BY DEF ReviewTypes
        <2>3. Admissible(p)
            BY <2>1, <2>2 DEF Admissible, Content, ProposalRows
        <2>4. q \in p.scope.proposals /\ q.id = p.proposal /\ q.subject = p.subject
            BY <2>1 DEF ProposalScope
        <2>5. p.op \in PreviewOps
            BY <2>1 DEF PreviewOps
        <2>. QED
            BY <2>3, <2>4, <2>5 DEF Sound
    <1>3. CASE p \in CorrectPreviews
        <2>1. PICK v \in versions, c \in Content :
                p = [op |-> "correct", target |-> v.id, content |-> c,
                     subject |-> (CHOOSE t \in threads : t.id = v.thread).subject]
            BY <1>3 DEF CorrectPreviews, Future
        <2>2. \E t \in threads : t.id = v.thread
            BY DEF VersionsNamed, Ids
        <2>3. (CHOOSE t \in threads : t.id = v.thread) \in threads
            BY <2>2
        <2>4. p.subject \in Subject /\ p.content \in Content
            BY <2>1, <2>3 DEF MemoryTypes
        <2>. QED
            BY <2>1, <2>4 DEF Sound, Admissible, PreviewOps
    <1>4. CASE p \in ForgetPreviews
        BY <1>4 DEF ForgetPreviews, Sound, PreviewOps
    <1>. QED
        BY <1>1, <1>2, <1>3, <1>4

\* Stored previews are sound.
LEMMA PreviewsAreSound == ApprovalInv => \A c \in challenges : Sound(c.preview)
    BY DEF ApprovalInv, ApprovalTypes, ChallengeTypes, PreviewInv, Sound, Admissible

\* Approvals may stay as they are.
LEMMA SameApproval ==
    ASSUME Grows, ApprovalInv, UNCHANGED approval
    PROVE  ApprovalInv'
    <1>1. ApprovalTypes'
        BY ApprovalTypesKept DEF ApprovalInv
    <1>2. PreviewInv' /\ OncePerApproval'
        BY DEF ApprovalInv, approval, PreviewInv, OncePerApproval
    <1>. QED
        BY <1>1, <1>2 DEF ApprovalInv

\* A preview issues a nonce of its own and cleans up stale challenges, not receipts.
LEMMA PreviewApproval ==
    ASSUME ClockTypes, ApprovalInv, NEW p, Sound(p), AdminPreview(p)
    PROVE  ApprovalInv'
    <1>. DEFINE new == [nonce |-> nonces', preview |-> p, expires |-> now + GrantTTL, used |-> FALSE]
    <1>1. /\ nonces < MaxNonce /\ nonces' = nonces + 1 /\ UNCHANGED <<seq, receipts, applied>>
          /\ \A c \in challenges' : c \in challenges \/ c = new
        BY DEF AdminPreview
    <1>2. nonces \in 0 .. MaxNonce /\ MaxNonce \in Nat /\ now + GrantTTL \in Nat
        BY ConstantsAssumption DEF ApprovalInv, ApprovalTypes, ClockTypes
    <1>3. 1 .. nonces \subseteq 1 .. nonces' /\ nonces' \in 1 .. nonces' /\ nonces' \in 0 .. MaxNonce
        BY <1>1, <1>2
    <1>4. /\ DOMAIN new = {"nonce", "preview", "expires", "used"}
          /\ new.nonce = nonces' /\ new.preview = p /\ new.expires = now + GrantTTL /\ new.used = FALSE
        OBVIOUS
    <1>. HIDE DEF new
    <1>5. ASSUME NEW c \in challenges'
          PROVE  /\ DOMAIN c = {"nonce", "preview", "expires", "used"}
                 /\ c.nonce \in 1 .. nonces' /\ c.expires \in Nat /\ c.used \in BOOLEAN
                 /\ c.preview.op \in PreviewOps
        <2>1. CASE c \in challenges
            BY <1>3, <2>1 DEF ApprovalInv, ApprovalTypes, ChallengeTypes
        <2>2. CASE c = new
            BY <1>2, <1>3, <1>4, <2>2 DEF Sound
        <2>. QED
            BY <1>1, <2>1, <2>2
    <1>6. ApprovalTypes'
        BY <1>1, <1>3, <1>5 DEF ApprovalInv, ApprovalTypes, ChallengeTypes
    <1>7. PreviewInv'
        BY <1>1, <1>4 DEF ApprovalInv, PreviewInv, Sound, Admissible
    <1>8. OncePerApproval'
        BY <1>1 DEF ApprovalInv, OncePerApproval
    <1>. QED
        BY <1>6, <1>7, <1>8 DEF ApprovalInv

\* An approval that takes effect had not taken effect before.
LEMMA ConsumedApproval ==
    ASSUME Grows, ApprovalInv, NEW c \in challenges, Consume(c)
    PROVE  ApprovalInv' /\ applied'[c.nonce] = applied[c.nonce] + 1
    <1>. DEFINE spent == [c EXCEPT !.used = TRUE]
                receipt == [nonce |-> c.nonce, op |-> c.preview.op, recorded |-> seq']
    <1>1. /\ \A r \in receipts : r.nonce # c.nonce
          /\ challenges' = (challenges \ {c}) \cup {spent}
          /\ receipts' = receipts \cup {receipt}
          /\ applied' = [applied EXCEPT ![c.nonce] = @ + 1]
          /\ nonces' = nonces
        BY DEF Consume
    <1>2. /\ DOMAIN c = {"nonce", "preview", "expires", "used"}
          /\ c.nonce \in 1 .. nonces /\ c.expires \in Nat /\ c.used \in BOOLEAN
          /\ c.preview.op \in PreviewOps
          /\ nonces \in 0 .. MaxNonce /\ applied \in [1 .. MaxNonce -> Nat]
        BY DEF ApprovalInv, ApprovalTypes, ChallengeTypes
    <1>3. c.nonce \in 1 .. MaxNonce
        BY <1>2, ConstantsAssumption
    <1>4. /\ DOMAIN spent = {"nonce", "preview", "expires", "used"}
          /\ spent.nonce = c.nonce /\ spent.preview = c.preview /\ spent.expires = c.expires /\ spent.used = TRUE
        BY <1>2
    <1>5. receipt \in [nonce: 1 .. nonces, op: PreviewOps, recorded: 0 .. seq'] /\ receipt.nonce = c.nonce
        BY <1>2 DEF Grows
    <1>. HIDE DEF spent, receipt
    <1>6. ApprovalTypes'
        <2>1. ASSUME NEW d \in challenges'
              PROVE  /\ DOMAIN d = {"nonce", "preview", "expires", "used"}
                     /\ d.nonce \in 1 .. nonces /\ d.expires \in Nat /\ d.used \in BOOLEAN
                     /\ d.preview.op \in PreviewOps
            BY <1>1, <1>2, <1>4 DEF ApprovalInv, ApprovalTypes, ChallengeTypes
        <2>2. 0 .. seq \subseteq 0 .. seq'
            BY RowsGrow DEF Grows
        <2>3. receipts' \subseteq [nonce: 1 .. nonces, op: PreviewOps, recorded: 0 .. seq']
            BY <1>1, <1>5, <2>2 DEF ApprovalInv, ApprovalTypes
        <2>4. applied' \in [1 .. MaxNonce -> Nat]
            BY <1>1, <1>2, <1>3
        <2>. QED
            BY <1>1, <1>2, <2>1, <2>3, <2>4 DEF ApprovalTypes, ChallengeTypes
    <1>7. PreviewInv'
        BY <1>1, <1>4 DEF ApprovalInv, PreviewInv
    <1>8. applied'[c.nonce] = applied[c.nonce] + 1 /\ \A n \in 1 .. MaxNonce : n # c.nonce => applied'[n] = applied[n]
        BY <1>1, <1>2, <1>3
    <1>9. applied[c.nonce] = 0
        <2>1. applied[c.nonce] \in Nat /\ applied[c.nonce] <= 1 /\ applied[c.nonce] # 1
            BY <1>1, <1>2, <1>3 DEF ApprovalInv, OncePerApproval
        <2>. QED
            BY <2>1
    <1>10. OncePerApproval'
        <2>1. ASSUME NEW n \in 1 .. MaxNonce
              PROVE  applied'[n] <= 1 /\ (applied'[n] = 1 <=> \E r \in receipts' : r.nonce = n)
            <3>1. CASE n = c.nonce
                BY <1>1, <1>5, <1>8, <1>9, <3>1
            <3>2. CASE n # c.nonce
                BY <1>1, <1>5, <1>8, <3>2 DEF ApprovalInv, OncePerApproval
            <3>. QED
                BY <3>1, <3>2
        <2>. QED
            BY <2>1 DEF OncePerApproval
    <1>. QED
        BY <1>6, <1>7, <1>8, <1>10 DEF ApprovalInv

-----------------------------------------------------------------------------
(***************************************************************************)
(* Recalls and feedback.                                                    *)
(***************************************************************************)
\* What a recall lists is there.
LEMMA RecallsAreNamed == RecallInv => RecallsNamed
    BY DEF RecallInv, RecallReproducible, RecallsNamed, Ids, VisibleTo

\* Recalls and feedback survive a step that forgets nothing and leaves them alone.
LEMMA SameReads ==
    ASSUME NEW f, NEW fresh, Kept(f, fresh), MemoryTypes, VersionsApart, CorrectionInv, VersionsNamed,
           AudienceTypes, AudienceMove, ReadInv, UNCHANGED <<recalls, feedback>>
    PROVE  ReadInv'
    <1>0. Grows
        BY DEF Kept
    <1>1. RecallTypes' /\ IsFiniteSet(recalls')
        BY <1>0, RecallTypesKept DEF ReadInv
    <1>2. RecallInv'
        BY RecallKept DEF ReadInv
    <1>3. Ids(versions) \subseteq Ids(versions')
        BY KeptMemory
    <1>4. FeedbackNamed'
        BY <1>3 DEF ReadInv, FeedbackNamed
    <1>. QED
        BY <1>1, <1>2, <1>4 DEF ReadInv

\* The last number an agent was told stands for the present: nothing it may see
\* came in or was retired after it.
LEMMA PresentIsLast ==
    ASSUME seq \in Nat, MemoryTypes, VersionsApart, AudienceTypes, TimelineComplete, NEW a \in Agent
    PROVE  VisibleTo(a, seq) = VisibleTo(a, RecordedOf(a, Len(audience[a])))
    <1>. DEFINE k == Len(audience[a])
                n == RecordedOf(a, k)
    <1>1. /\ k \in Nat /\ DOMAIN audience[a] = 1 .. k
          /\ \A i \in 1 .. k : audience[a][i] \in 0 .. seq
          /\ \A i, j \in 1 .. k : i < j => audience[a][i] < audience[a][j]
        BY LenProperties, ElementOfSeq DEF AudienceTypes, TimelineComplete
    <1>2. n \in 0 .. seq /\ \A i \in 1 .. k : audience[a][i] <= n
        <2>1. CASE k = 0
            BY <1>1, <2>1 DEF RecordedOf
        <2>2. CASE k # 0
            <3>1. k \in 1 .. k /\ n = audience[a][k]
                BY <1>1, <2>2 DEF RecordedOf
            <3>2. ASSUME NEW i \in 1 .. k PROVE audience[a][i] <= n
                <4>1. i = k \/ i < k
                    BY <1>1
                <4>2. audience[a][i] \in Nat /\ audience[a][k] \in Nat
                    BY <1>1, <3>1
                <4>. QED
                    BY <1>1, <3>1, <4>1, <4>2
            <3>. QED
                BY <1>1, <3>1, <3>2
        <2>. QED
            BY <2>1, <2>2
    <1>. HIDE DEF n, k
    <1>3. ASSUME NEW x \in Range(audience[a]) PROVE x <= n
        BY <1>1, <1>2 DEF Range
    <1>4. ASSUME NEW v \in versions PROVE Eligible(v, a, seq) <=> Eligible(v, a, n)
        <2>1. v.id \in 0 .. seq /\ v.retired \in 0 .. seq /\ v.id # NULL
            BY DEF MemoryTypes, VersionRows, VersionsApart, Ids
        <2>2. CASE a \in v.disclosure
            <3>1. v.id <= n /\ (v.retired # NULL => v.retired <= n)
                BY <1>3, <2>1, <2>2 DEF TimelineComplete
            <3>2. v.id <= seq /\ ~(v.retired > seq)
                BY <2>1
            <3>3. v.retired # NULL => ~(v.retired > n)
                BY <1>2, <2>1, <3>1
            <3>. QED
                BY <3>1, <3>2, <3>3 DEF Eligible
        <2>3. CASE a \notin v.disclosure
            BY <2>3 DEF Eligible
        <2>. QED
            BY <2>2, <2>3
    <1>. QED
        BY <1>4 DEF VisibleTo, n, k

\* A search records what can be found again from its watermark.
LEMMA SearchReads ==
    ASSUME ClockTypes, MemoryTypes, VersionsApart, AudienceTypes, TimelineComplete, ReadInv,
           NEW agent \in Agent, Search(agent)
    PROVE  ReadInv'
    <1>. DEFINE new == [id |-> Cardinality(recalls) + 1, provider |-> agent,
                        watermark |-> Len(audience[agent]), ids |-> Ids(VisibleTo(agent, seq))]
    <1>1. /\ Cardinality(recalls) < MaxRecall /\ recalls' = recalls \cup {new}
          /\ UNCHANGED <<seq, versions, audience, feedback>>
        BY DEF Search, memory
    <1>2. Cardinality(recalls) \in Nat /\ IsFiniteSet(recalls \cup {new})
        BY FS_CardinalityType, FS_AddElement DEF ReadInv
    <1>3. Len(audience[agent]) \in Nat
        BY LenProperties DEF AudienceTypes
    <1>4. Cardinality(recalls) + 1 \in 1 .. MaxRecall
        BY <1>1, <1>2, ConstantsAssumption
    <1>5. Ids(VisibleTo(agent, seq)) \in SUBSET (0 .. seq)
        BY DEF Ids, VisibleTo, MemoryTypes, VersionRows
    <1>6. new \in [id: 1 .. MaxRecall, provider: Agent, watermark: Nat, ids: SUBSET (0 .. seq)]
        BY <1>3, <1>4, <1>5
    <1>7. VisibleTo(agent, seq) = VisibleTo(agent, RecordedOf(agent, Len(audience[agent])))
        BY PresentIsLast DEF ClockTypes
    <1>8. /\ new.provider = agent /\ new.watermark = Len(audience[agent])
          /\ new.ids = Ids(VisibleTo(new.provider, RecordedOf(new.provider, new.watermark)))
        BY <1>7
    <1>. HIDE DEF new
    <1>9. RecallTypes'
        BY <1>1, <1>6 DEF ReadInv, RecallTypes
    <1>10. ASSUME NEW r \in recalls'
           PROVE  /\ r.ids = Ids(VisibleTo(r.provider, RecordedOf(r.provider, r.watermark)))
                  /\ r.watermark <= Len(audience[r.provider])
        <2>1. CASE r \in recalls
            BY <2>1 DEF ReadInv, RecallInv, RecallReproducible
        <2>2. CASE r = new
            BY <1>3, <1>8, <2>2
        <2>. QED
            BY <1>1, <2>1, <2>2
    <1>11. RecallInv'
        BY <1>1, <1>10 DEF RecallInv, RecallReproducible, Ids, VisibleTo, Eligible, RecordedOf
    <1>12. FeedbackNamed'
        BY <1>1 DEF ReadInv, FeedbackNamed
    <1>. QED
        BY <1>1, <1>2, <1>9, <1>11, <1>12 DEF ReadInv

\* Feedback names a version that is there.
LEMMA FeedbackReads ==
    ASSUME Grows, ReadInv, MemoryTypes, NEW r \in recalls, NEW item \in r.ids, Feedback(r, item)
    PROVE  ReadInv'
    <1>. DEFINE new == [id |-> seq', recall |-> r.id, assertion |-> item]
    <1>1. /\ feedback' = feedback \cup {new} /\ UNCHANGED <<memory, audience, recalls>>
          /\ \E recorded \in {seq, RecordedOf(r.provider, r.watermark)} :
               item \in Ids(VisibleTo(r.provider, recorded))
        BY DEF Feedback
    <1>2. 0 .. seq \subseteq 0 .. seq' /\ seq' \in 0 .. seq'
        BY RowsGrow DEF Grows
    <1>3. item \in Ids(versions) /\ item \in 0 .. seq /\ r.id \in 1 .. MaxRecall
        BY <1>1 DEF Ids, VisibleTo, MemoryTypes, VersionRows, ReadInv, RecallTypes
    <1>4. new \in [id: 0 .. seq', recall: 1 .. MaxRecall, assertion: 0 .. seq'] /\ new.assertion = item
        BY <1>2, <1>3
    <1>. HIDE DEF new
    <1>5. RecallTypes'
        BY <1>1, <1>2, <1>4 DEF ReadInv, RecallTypes
    <1>6. RecallInv'
        BY <1>1 DEF ReadInv, RecallInv, RecallReproducible, Ids, VisibleTo, Eligible, RecordedOf, memory
    <1>7. FeedbackNamed'
        BY <1>1, <1>3, <1>4 DEF ReadInv, FeedbackNamed, memory
    <1>. QED
        BY <1>1, <1>5, <1>6, <1>7 DEF ReadInv

\* A forget takes its versions out of recalls and feedback.
LEMMA ForgottenReads ==
    ASSUME NEW T, Forgotten(T), MemoryTypes, AudienceTypes, AudienceMove, VersionsApart, CorrectionInv,
           VersionsNamed, ReadInv, feedback' = {f \in feedback : f.assertion \notin Ids(VersionsOf(T))}
    PROVE  ReadInv'
    <1>. DEFINE G == Ids(VersionsOf(T))
                g == [r \in recalls |-> [r EXCEPT !.ids = @ \ G]]
    <1>1. 0 .. seq \subseteq 0 .. seq'
        BY RowsGrow DEF Forgotten, Grows
    <1>2. recalls' = {[r EXCEPT !.ids = @ \ G] : r \in recalls}
        BY DEF Forgotten, RecallsWithout
    <1>3. g \in Surjection(recalls, recalls')
        BY <1>2 DEF Surjection
    <1>4. IsFiniteSet(recalls')
        BY <1>3, FS_Surjection DEF ReadInv
    <1>5. RecallTypes'
        <2>1. ASSUME NEW q \in recalls'
              PROVE  q \in [id: 1 .. MaxRecall, provider: Agent, watermark: Nat, ids: SUBSET (0 .. seq')]
            <3>1. PICK r \in recalls : q = [r EXCEPT !.ids = @ \ G]
                BY <1>2
            <3>2. r \in [id: 1 .. MaxRecall, provider: Agent, watermark: Nat, ids: SUBSET (0 .. seq')]
                BY <1>1 DEF ReadInv, RecallTypes
            <3>3. r.ids \ G \in SUBSET (0 .. seq')
                BY <3>2
            <3>. HIDE DEF G
            <3>. QED
                BY <3>1, <3>2, <3>3
        <2>2. feedback' \subseteq [id: 0 .. seq', recall: 1 .. MaxRecall, assertion: 0 .. seq']
            BY <1>1 DEF ReadInv, RecallTypes
        <2>. QED
            BY <2>1, <2>2 DEF RecallTypes
    <1>6. RecallInv'
        BY ForgottenRecalls DEF ReadInv
    <1>7. Ids(versions') = Ids(versions) \ G
        BY ForgottenMemory
    <1>8. FeedbackNamed'
        BY <1>7 DEF ReadInv, FeedbackNamed
    <1>. QED
        BY <1>4, <1>5, <1>6, <1>8 DEF ReadInv

-----------------------------------------------------------------------------
(***************************************************************************)
(* The steps.                                                               *)
(***************************************************************************)
\* An empty ledger has the invariant.
LEMMA InvInit == Init => LedgerInv
    <1>. SUFFICES ASSUME Init PROVE LedgerInv
        OBVIOUS
    <1>1. /\ now = 0 /\ phase = "idle" /\ seq = 0
          /\ threads = {} /\ versions = {} /\ fts = {} /\ relations = {}
          /\ provenance = {} /\ proposals = {} /\ tombstones = {}
          /\ audience = [a \in Agent |-> <<>>] /\ recalls = {} /\ feedback = {}
          /\ challenges = {} /\ receipts = {} /\ nonces = 0
          /\ applied = [n \in 1 .. MaxNonce |-> 0]
        BY DEF Init
    <1>2. MaxTime \in Nat /\ MaxNonce \in Nat
        BY ConstantsAssumption
    <1>3. ClockTypes
        BY <1>1, <1>2 DEF ClockTypes
    <1>4. MemoryInv
        BY <1>1 DEF MemoryInv, MemoryTypes, VersionsApart, ThreadsApart, CorrectionInv, VersionsNamed, Ids
    <1>5. TimelineInv
        <2>1. \A a \in Agent : audience[a] = <<>>
            BY <1>1
        <2>. QED
            BY <1>1, <2>1 DEF TimelineInv, AudienceTypes, TimelineComplete
    <1>6. ReviewedInv
        BY <1>1 DEF ReviewedInv, ReviewTypes, OneLiveDelivery, ProposalsApart, TablesApart, ProvenanceNamed, ReviewInv,
                    AcceptedHasVersion, NamedIsAccepted, InputsDecide, PurgedIsGone, PurgedNeverAdmitted, Acceptances
    <1>7. ReadInv
        BY <1>1, FS_EmptySet DEF ReadInv, RecallTypes, RecallInv, RecallReproducible, FeedbackNamed
    <1>8. ApprovalInv
        BY <1>1, <1>2 DEF ApprovalInv, ApprovalTypes, ChallengeTypes, PreviewInv, OncePerApproval
    <1>. QED
        BY <1>3, <1>4, <1>5, <1>6, <1>7, <1>8 DEF LedgerInv

\* Memory and timelines together, when nothing is forgotten.
LEMMA RememberedMemory ==
    ASSUME NEW fresh, Remembers(fresh), AudienceMove, MemoryInv, TimelineInv,
           threads' \subseteq [id: 0 .. seq', subject: Subject], ThreadsApart'
    PROVE  MemoryInv' /\ TimelineInv'
    <1>1. PICK f : Kept(f, fresh) /\ Told(f, fresh)
        BY DEF Remembers
    <1>2. Grows
        BY <1>1 DEF Kept
    <1>3. /\ versions' \subseteq VersionRows(seq') /\ fts' \subseteq 0 .. seq'
          /\ relations' \subseteq [from: 0 .. seq', to: 0 .. seq']
          /\ VersionsApart' /\ CorrectionInv' /\ VersionsNamed'
        BY <1>1, KeptMemory DEF MemoryInv
    <1>4. MemoryInv'
        BY <1>3 DEF MemoryInv, MemoryTypes
    <1>5. AudienceTypes'
        BY <1>2, AudienceMoves DEF TimelineInv
    <1>6. TimelineComplete'
        BY <1>1, TimelineKept DEF MemoryInv, TimelineInv
    <1>. QED
        BY <1>4, <1>5, <1>6 DEF TimelineInv

\* Threads may stay as they are.
LEMMA SameThreads ==
    ASSUME Grows, MemoryInv, UNCHANGED threads
    PROVE  threads' \subseteq [id: 0 .. seq', subject: Subject] /\ ThreadsApart'
    <1>1. 0 .. seq \subseteq 0 .. seq'
        BY RowsGrow DEF Grows
    <1>. QED
        BY <1>1 DEF MemoryInv, MemoryTypes, ThreadsApart

\* Steps that leave memory and the timelines alone.
LEMMA QuietStep ==
    ASSUME Grows, LedgerInv, UNCHANGED <<memory, audience>>
    PROVE  /\ MemoryInv' /\ TimelineInv'
           /\ UNCHANGED <<recalls, feedback>> => ReadInv'
           /\ UNCHANGED approval => ApprovalInv'
           /\ \A rows : Purged(rows, Ids(rows)) => ReviewedInv'
           /\ UNCHANGED <<provenance, proposals, tombstones>> => ReviewedInv'
    <1>. USE DEF LedgerInv
    <1>1. AudienceMove
        BY SameAudience DEF TimelineInv
    <1>2. Remembers({})
        BY QuietRemembers
    <1>3. PICK f : Kept(f, {})
        BY <1>2 DEF Remembers
    <1>4. UNCHANGED threads
        BY DEF memory
    <1>5. MemoryInv' /\ TimelineInv'
        BY <1>1, <1>2, <1>4, RememberedMemory, SameThreads
    <1>6. ASSUME UNCHANGED <<recalls, feedback>> PROVE ReadInv'
        BY <1>1, <1>3, <1>6, SameReads DEF MemoryInv, TimelineInv
    <1>7. ASSUME UNCHANGED approval PROVE ApprovalInv'
        BY <1>7, SameApproval
    <1>8. ASSUME NEW rows, Purged(rows, Ids(rows)) PROVE ReviewedInv'
        BY <1>3, <1>8, PurgedKept DEF MemoryInv
    <1>9. ASSUME UNCHANGED <<provenance, proposals, tombstones>> PROVE ReviewedInv'
        <2>1. Purged({}, Ids({}))
            BY <1>9 DEF Purged, WithoutTargets, Ids
        <2>. QED
            BY <1>8, <2>1
    <1>. QED
        BY <1>5, <1>6, <1>7, <1>8, <1>9

\* No version goes: only a forget takes one away.
NothingLost == Ids(versions) \subseteq Ids(versions')

\* The clock moves.
LEMMA TickStep == LedgerInv /\ Tick => LedgerInv'
    <1>. SUFFICES ASSUME LedgerInv, Tick PROVE LedgerInv'
        OBVIOUS
    <1>1. /\ now < MaxTime /\ now' = now + 1
          /\ UNCHANGED <<phase, seq, memory, provenance, proposals, tombstones, reading, approval>>
        BY DEF Tick
    <1>2. ClockTypes' /\ Grows
        BY <1>1, ConstantsAssumption DEF LedgerInv, ClockTypes, Grows
    <1>. QED
        BY <1>1, <1>2, QuietStep DEF LedgerInv, reading

\* A request ends without effect, or the daemon stops between two transactions.
LEMMA EndRequestStep == LedgerInv /\ EndRequest => LedgerInv'
    <1>. SUFFICES ASSUME LedgerInv, EndRequest PROVE LedgerInv'
        OBVIOUS
    <1>1. /\ phase' = "idle"
          /\ UNCHANGED <<now, seq, memory, provenance, proposals, tombstones, reading, approval>>
        BY DEF EndRequest
    <1>2. ClockTypes' /\ Grows
        BY <1>1 DEF LedgerInv, ClockTypes, Grows
    <1>. QED
        BY <1>1, <1>2, QuietStep DEF LedgerInv, reading

\* Nothing changes.
LEMMA StutterStep == LedgerInv /\ UNCHANGED vars => LedgerInv'
    <1>. SUFFICES ASSUME LedgerInv, UNCHANGED vars PROVE LedgerInv'
        OBVIOUS
    <1>1. UNCHANGED <<now, phase, seq, memory, provenance, proposals, tombstones, reading, approval>>
        BY DEF vars
    <1>2. ClockTypes' /\ Grows
        BY <1>1 DEF LedgerInv, ClockTypes, Grows
    <1>. QED
        BY <1>1, <1>2, QuietStep DEF LedgerInv, reading

\* The proposals that are due are purged, each with a tombstone of its own number.
LEMMA PurgeDueStep == LedgerInv /\ PurgeDue => LedgerInv'
    <1>. SUFFICES ASSUME LedgerInv, PurgeDue PROVE LedgerInv'
        OBVIOUS
    <1>. DEFINE Due == DueProposals
    <1>1. /\ phase' = "purged" /\ proposals' = proposals \ Due
          /\ tombstones' = tombstones \cup UNION {Tombstones({p}, TurnOf(p, Due)) : p \in Due}
          /\ provenance' = WithoutTargets(Ids(Due))
          /\ seq' = seq + Cardinality(Due)
          /\ UNCHANGED <<now, memory, reading, approval>>
        BY DEF PurgeDue
    <1>2. seq \in Nat /\ Due \subseteq proposals /\ proposals \subseteq ProposalRows(seq) /\ ProposalsApart
        BY DEF LedgerInv, ClockTypes, DueProposals, ReviewedInv, ReviewTypes
    <1>. HIDE DEF Due
    <1>3. \A p \in Due : p.id \in 0 .. seq /\ p.id \in Nat
        BY <1>2 DEF ProposalRows
    <1>4. IsFiniteSet(Due) /\ Cardinality(Due) \in Nat
        BY <1>2, <1>3, RowsAreFinite DEF ProposalsApart
    <1>5. Grows
        BY <1>1, <1>2, <1>4 DEF Grows
    <1>6. ASSUME NEW p \in Due PROVE TurnOf(p, Due) \in seq + 1 .. seq'
        BY <1>1, <1>2, <1>3, <1>4, TurnIs
    <1>7. Purged(Due, Ids(Due))
        <2>1. ASSUME NEW t \in tombstones', t \notin tombstones
              PROVE  \E p \in Due, n \in seq + 1 .. seq' :
                       t = [provider |-> p.provider, key |-> p.key, proposal |-> p.id, purged |-> n]
            <3>1. PICK p \in Due : t \in Tombstones({p}, TurnOf(p, Due))
                BY <1>1, <2>1
            <3>2. t = [provider |-> p.provider, key |-> p.key, proposal |-> p.id, purged |-> TurnOf(p, Due)]
                BY <3>1 DEF Tombstones
            <3>. QED
                BY <1>6, <3>2
        <2>. QED
            BY <1>1, <1>2, <2>1 DEF Purged
    <1>8. ClockTypes'
        BY <1>1, <1>5 DEF LedgerInv, ClockTypes, Grows
    <1>. QED
        BY <1>1, <1>5, <1>7, <1>8, QuietStep DEF LedgerInv, reading

\* The versions that are due are retired.
LEMMA ExpireDueStep == LedgerInv /\ ExpireDue => LedgerInv' /\ NothingLost
    <1>. SUFFICES ASSUME LedgerInv, ExpireDue PROVE LedgerInv' /\ NothingLost
        OBVIOUS
    <1>1. Grows /\ AudienceMove /\ Remembers({}) /\ threads' = threads
        BY ExpireRemembers DEF LedgerInv, MemoryInv, TimelineInv
    <1>2. phase' = "ready" /\ UNCHANGED <<now, provenance, proposals, tombstones, recalls, feedback, approval>>
        BY DEF ExpireDue
    <1>3. PICK f : Kept(f, {})
        BY <1>1 DEF Remembers
    <1>4. ClockTypes'
        BY <1>1, <1>2 DEF LedgerInv, ClockTypes, Grows
    <1>5. MemoryInv' /\ TimelineInv'
        BY <1>1, SameThreads, RememberedMemory DEF LedgerInv
    <1>6. ReviewedInv'
        <2>1. Purged({}, Ids({}))
            BY <1>2 DEF Purged, WithoutTargets, Ids
        <2>. QED
            BY <1>3, <2>1, PurgedKept DEF LedgerInv, MemoryInv
    <1>7. ReadInv'
        BY <1>1, <1>2, <1>3, SameReads DEF LedgerInv, MemoryInv, TimelineInv
    <1>8. ApprovalInv'
        BY <1>1, <1>2, SameApproval DEF LedgerInv
    <1>9. NothingLost
        BY <1>3, KeptMemory DEF LedgerInv, MemoryInv, NothingLost
    <1>. QED
        BY <1>4, <1>5, <1>6, <1>7, <1>8, <1>9 DEF LedgerInv

\* An agent proposes.
LEMMA ProposeStep ==
    ASSUME LedgerInv, NEW agent \in Agent, NEW key \in Key, NEW subject \in Subject, NEW content \in Content,
           Propose(agent, key, subject, content)
    PROVE  LedgerInv'
    <1>1. ReviewedInv' /\ Grows
        BY ProposedReview DEF LedgerInv, MemoryInv
    <1>2. phase' = "idle" /\ UNCHANGED <<now, memory, reading, approval>>
        BY DEF Propose, Serve
    <1>3. ClockTypes'
        BY <1>1, <1>2 DEF LedgerInv, ClockTypes, Grows
    <1>. QED
        BY <1>1, <1>2, <1>3, QuietStep DEF LedgerInv, reading

\* An agent searches.
LEMMA SearchStep == ASSUME LedgerInv, NEW agent \in Agent, Search(agent) PROVE LedgerInv'
    <1>1. /\ phase' = "idle"
          /\ UNCHANGED <<now, seq, memory, provenance, proposals, tombstones, audience, feedback, approval>>
        BY DEF Search, Serve
    <1>2. ClockTypes' /\ Grows
        BY <1>1 DEF LedgerInv, ClockTypes, Grows
    <1>3. ReadInv'
        BY SearchReads DEF LedgerInv, MemoryInv, TimelineInv
    <1>. QED
        BY <1>1, <1>2, <1>3, QuietStep DEF LedgerInv

\* An agent gives feedback.
LEMMA FeedbackStep ==
    ASSUME LedgerInv, NEW r \in recalls, NEW item \in r.ids, Feedback(r, item)
    PROVE  LedgerInv'
    <1>1. /\ phase' = "idle" /\ seq' = seq + 1
          /\ UNCHANGED <<now, memory, provenance, proposals, tombstones, audience, recalls, approval>>
        BY DEF Feedback, Serve, NextSequence
    <1>2. ClockTypes' /\ Grows
        BY <1>1 DEF LedgerInv, ClockTypes, Grows
    <1>3. ReadInv'
        BY <1>2, FeedbackReads DEF LedgerInv, MemoryInv
    <1>. QED
        BY <1>1, <1>2, <1>3, QuietStep DEF LedgerInv

\* The owner is asked.
LEMMA PreviewStep ==
    ASSUME LedgerInv, NEW p \in RememberPreviews \cup ReviewPreviews \cup CorrectPreviews \cup ForgetPreviews,
           AdminPreview(p)
    PROVE  LedgerInv'
    <1>1. phase' = "idle" /\ UNCHANGED <<now, seq, memory, provenance, proposals, tombstones, reading>>
        BY DEF AdminPreview, Serve
    <1>2. ClockTypes' /\ Grows
        BY <1>1 DEF LedgerInv, ClockTypes, Grows
    <1>3. ApprovalInv'
        BY SoundPreviews, PreviewApproval DEF LedgerInv, MemoryInv, ReviewedInv
    <1>. QED
        BY <1>1, <1>2, <1>3, QuietStep DEF LedgerInv, reading

\* A version comes in with an approval.
LEMMA AcceptStep ==
    ASSUME LedgerInv, NEW c \in challenges, Serve, Consume(c), UNCHANGED <<now, recalls, feedback>>,
           Admissible(c.preview), NEW old \in SUBSET ActiveOf(c.preview.subject), \A v, w \in old : v = w,
           NEW kind, NEW inputs, Accept(c.preview, old, kind, inputs), tombstones' = tombstones,
           \/ kind \in Kinds \ {"proposal_acceptance"} /\ inputs \in SUBSET (0 .. seq) /\ proposals' = proposals
           \/ /\ kind = "proposal_acceptance"
              /\ \E p \in proposals :
                   /\ p.status = "proposed" /\ inputs = {p.id} /\ p.subject = c.preview.subject
                   /\ proposals' = (proposals \ {p}) \cup {[p EXCEPT !.status = "accepted"]}
    PROVE  LedgerInv' /\ NothingLost
    <1>0. PICK new, t : Admits(new, t, c.preview, kind, inputs)
        <2>1. ClockTypes /\ MemoryTypes /\ AudienceTypes /\ ThreadsApart
            BY DEF LedgerInv, MemoryInv, TimelineInv
        <2>. QED
            BY <2>1, AcceptRemembers
    <1>1. /\ Remembers({new}) /\ NewRow(new)
          /\ t.id = new.thread /\ t.subject = c.preview.subject /\ t \in threads'
          /\ threads' = threads \cup {t} /\ t \in [id: 0 .. seq', subject: Subject]
          /\ t \in threads \/ \A u \in threads : u.subject # t.subject
          /\ Grows /\ seq' = seq + 1 /\ AudienceMove
          /\ provenance' = provenance \cup {[target |-> seq + 1, kind |-> kind, inputs |-> inputs]}
        BY <1>0 DEF Admits
    <1>2. PICK f : Kept(f, {new})
        BY <1>1 DEF Remembers
    <1>3. ClockTypes'
        BY <1>1 DEF LedgerInv, ClockTypes, Grows, Serve
    <1>4. threads' \subseteq [id: 0 .. seq', subject: Subject] /\ ThreadsApart'
        <2>1. 0 .. seq \subseteq 0 .. seq'
            BY <1>1, RowsGrow DEF Grows
        <2>. QED
            BY <1>1, <2>1 DEF LedgerInv, MemoryInv, MemoryTypes, ThreadsApart
    <1>5. MemoryInv' /\ TimelineInv'
        BY <1>1, <1>4, RememberedMemory DEF LedgerInv
    <1>6. Accepted(new, t, kind, inputs)
        BY <1>1 DEF Accepted
    <1>7. ReviewedInv'
        BY <1>6, AcceptedReview DEF LedgerInv, MemoryInv
    <1>8. ReadInv'
        BY <1>1, <1>2, SameReads DEF LedgerInv, MemoryInv, TimelineInv
    <1>9. ApprovalInv'
        BY <1>1, ConsumedApproval DEF LedgerInv
    <1>10. NothingLost
        BY <1>2, KeptMemory DEF LedgerInv, MemoryInv, NothingLost
    <1>. QED
        BY <1>3, <1>5, <1>7, <1>8, <1>9, <1>10 DEF LedgerInv

\* The owner's own statement comes in.
LEMMA ApplyRememberStep == ASSUME LedgerInv, NEW c \in challenges, ApplyRemember(c) PROVE LedgerInv' /\ NothingLost
    <1>1. /\ c.preview.op = "remember" /\ Serve /\ Consume(c) /\ Accept(c.preview, {}, "user_remember", {})
          /\ UNCHANGED <<now, proposals, tombstones, recalls, feedback>>
        BY DEF ApplyRemember, Approved
    <1>2. Admissible(c.preview)
        BY <1>1, PreviewsAreSound DEF LedgerInv, Sound
    <1>. QED
        BY <1>1, <1>2, AcceptStep DEF Kinds

\* A correction supersedes the one version it was previewed for.
LEMMA ApplyCorrectStep == ASSUME LedgerInv, NEW c \in challenges, ApplyCorrect(c) PROVE LedgerInv' /\ NothingLost
    <1>1. PICK v \in ActiveOf(c.preview.subject) :
            /\ c.preview.op = "correct" /\ Serve /\ Consume(c) /\ Accept(c.preview, {v}, "user_correction", {v.id})
            /\ UNCHANGED <<now, proposals, tombstones, recalls, feedback>>
        BY DEF ApplyCorrect, Approved
    <1>2. Admissible(c.preview)
        BY <1>1, PreviewsAreSound DEF LedgerInv, Sound
    <1>3. {v} \in SUBSET ActiveOf(c.preview.subject) /\ {v.id} \in SUBSET (0 .. seq)
        BY DEF ActiveOf, LedgerInv, MemoryInv, MemoryTypes, VersionRows
    <1>4. "user_correction" \in Kinds \ {"proposal_acceptance"} /\ \A x, y \in {v} : x = y
        BY DEF Kinds
    <1>. QED
        BY <1>1, <1>2, <1>3, <1>4, AcceptStep

\* A proposal is accepted as it was previewed.
LEMMA ApplyAcceptStep == ASSUME LedgerInv, NEW c \in challenges, ApplyAccept(c) PROVE LedgerInv' /\ NothingLost
    <1>1. /\ c.preview.op = "accept_proposal" /\ Serve /\ Consume(c) /\ ProposalUnchanged(c.preview)
          /\ Accept(c.preview, {}, "proposal_acceptance", {c.preview.proposal})
          /\ UNCHANGED <<now, tombstones, recalls, feedback>>
        BY DEF ApplyAccept, Approved
    <1>2. Sound(c.preview)
        BY PreviewsAreSound DEF LedgerInv
    <1>3. PICK p \in proposals :
            /\ p.id = c.preview.proposal /\ p.status = "proposed"
            /\ proposals' = (proposals \ {p}) \cup {[p EXCEPT !.status = "accepted"]}
        BY DEF ApplyAccept
    <1>4. PICK q \in c.preview.scope.proposals : q.id = c.preview.proposal /\ q.subject = c.preview.subject
        BY <1>1, <1>2 DEF Sound
    <1>5. q = p
        <2>1. c.preview.scope.proposals = {x \in proposals : x.id = c.preview.proposal}
            BY <1>1 DEF ProposalUnchanged, ProposalScope
        <2>. QED
            BY <1>3, <1>4, <2>1 DEF LedgerInv, ReviewedInv, ProposalsApart
    <1>6. \E x \in proposals :
            /\ x.status = "proposed" /\ {c.preview.proposal} = {x.id} /\ x.subject = c.preview.subject
            /\ proposals' = (proposals \ {x}) \cup {[x EXCEPT !.status = "accepted"]}
        BY <1>3, <1>4, <1>5
    <1>7. Admissible(c.preview) /\ {} \in SUBSET ActiveOf(c.preview.subject)
        BY <1>1, <1>2 DEF Sound
    <1>. QED
        BY <1>1, <1>6, <1>7, AcceptStep

\* A proposal is purged by an approval.
LEMMA PurgeStep ==
    ASSUME LedgerInv, NEW c \in challenges, Serve, Consume(c), NextSequence, UNCHANGED <<now, memory, reading>>,
           NEW p \in proposals, p.id = c.preview.proposal, Purge({p}),
           provenance' = WithoutTargets({c.preview.proposal})
    PROVE  LedgerInv'
    <1>1. seq' = seq + 1 /\ seq \in Nat
        BY DEF NextSequence, LedgerInv, ClockTypes
    <1>2. ClockTypes' /\ Grows
        BY <1>1 DEF LedgerInv, ClockTypes, Grows, Serve
    <1>3. Purged({p}, Ids({p}))
        <2>1. seq' \in seq + 1 .. seq' /\ Ids({p}) = {c.preview.proposal}
            BY <1>1 DEF Ids
        <2>2. ASSUME NEW t \in tombstones', t \notin tombstones
              PROVE  t = [provider |-> p.provider, key |-> p.key, proposal |-> p.id, purged |-> seq']
            BY <2>2 DEF Purge, Tombstones
        <2>. QED
            BY <2>1, <2>2 DEF Purged, Purge
    <1>4. ApprovalInv'
        BY <1>2, ConsumedApproval DEF LedgerInv
    <1>. QED
        BY <1>2, <1>3, <1>4, QuietStep DEF LedgerInv, reading

\* A proposal is rejected.
LEMMA ApplyRejectStep == ASSUME LedgerInv, NEW c \in challenges, ApplyReject(c) PROVE LedgerInv'
    BY PurgeStep DEF ApplyReject, Approved

\* A proposal is forgotten.
LEMMA ApplyForgetProposalStep == ASSUME LedgerInv, NEW c \in challenges, ApplyForgetProposal(c) PROVE LedgerInv'
    BY PurgeStep DEF ApplyForgetProposal, Approved

\* What ApplyForget does, effect by effect.
LEMMA ForgetIs ==
    ASSUME LedgerInv, NEW c \in challenges, ApplyForget(c)
    PROVE  /\ Forgotten(c.preview.thread) /\ Grows /\ seq' = seq + 1 /\ AudienceMove
           /\ Purged(DraftsOf(c.preview.thread),
                     Ids(VersionsOf(c.preview.thread)) \cup Ids(DraftsOf(c.preview.thread)))
           /\ proposals' = proposals \ DraftsOf(c.preview.thread)
           /\ feedback' = {f \in feedback : f.assertion \notin Ids(VersionsOf(c.preview.thread))}
           /\ c.preview.scope = ForgetScope(c.preview.thread) /\ c.preview.op = "forget"
           /\ Serve /\ Consume(c) /\ UNCHANGED now
    <1>. DEFINE T == c.preview.thread
                gone == VersionsOf(T)
                drafts == DraftsOf(T)
    <1>1. /\ audience' = AudienceChange(audience, seq', gone)
          /\ feedback' = {f \in feedback : f.assertion \notin Ids(gone)}
          /\ recalls' = RecallsWithout(Ids(gone))
          /\ fts' = fts \ Ids(gone)
          /\ provenance' = WithoutTargets(Ids(gone) \cup Ids(drafts))
          /\ Purge(drafts)
          /\ threads' = {t \in threads : t.id # T}
          /\ versions' = versions \ gone
          /\ relations' = {r \in relations : {r.from, r.to} \cap Ids(gone) = {}}
        BY DEF ApplyForget
    <1>2. /\ c.preview.scope = ForgetScope(T) /\ c.preview.op = "forget"
          /\ seq' = seq + 1 /\ Serve /\ Consume(c) /\ UNCHANGED now
        BY DEF ApplyForget, ScopeUnchanged, NextSequence, Approved
    <1>3. seq \in Nat /\ Grows /\ seq' \in seq + 1 .. seq'
        <2>1. seq \in Nat
            BY DEF LedgerInv, ClockTypes
        <2>. QED
            BY <1>2, <2>1 DEF Grows
    <1>4. Forgotten(T)
        BY <1>1, <1>3 DEF Forgotten
    <1>5. Purged(drafts, Ids(gone) \cup Ids(drafts)) /\ proposals' = proposals \ drafts
        <2>1. drafts \subseteq proposals
            BY DEF DraftsOf
        <2>2. proposals' = proposals \ drafts /\ tombstones' = tombstones \cup Tombstones(drafts, seq')
            BY <1>1 DEF Purge
        <2>3. ASSUME NEW t \in tombstones', t \notin tombstones
              PROVE  \E p \in drafts :
                        t = [provider |-> p.provider, key |-> p.key, proposal |-> p.id, purged |-> seq']
            BY <2>2, <2>3 DEF Tombstones
        <2>. HIDE DEF gone, drafts
        <2>. QED
            BY <1>1, <1>3, <2>1, <2>2, <2>3 DEF Purged
    <1>6. ASSUME NEW a \in Agent PROVE Extension(audience[a], audience'[a], seq, seq')
        <2>1. audience[a] \in Seq(0 .. seq)
            BY DEF LedgerInv, TimelineInv, AudienceTypes
        <2>2. audience'[a] = Append(audience[a], seq + 1) \/ audience'[a] = audience[a]
            BY <1>1, <1>2 DEF AudienceChange
        <2>3. Extension(audience[a], audience[a], seq, seq')
            BY <1>3, <2>1, SameExtends DEF Grows
        <2>4. Extension(audience[a], Append(audience[a], seq + 1), seq, seq')
            BY <1>2, <1>3, <2>1, AppendExtends
        <2>. QED
            BY <2>2, <2>3, <2>4
    <1>7. AudienceMove
        BY <1>1, <1>6 DEF AudienceMove, AudienceChange
    <1>. QED
        BY <1>1, <1>2, <1>3, <1>4, <1>5, <1>7

\* A thread is forgotten.
LEMMA ApplyForgetStep == ASSUME LedgerInv, NEW c \in challenges, ApplyForget(c) PROVE LedgerInv'
    <1>. DEFINE T == c.preview.thread
    <1>1. /\ Forgotten(T) /\ Grows /\ seq' = seq + 1 /\ AudienceMove
          /\ Purged(DraftsOf(T), Ids(VersionsOf(T)) \cup Ids(DraftsOf(T)))
          /\ feedback' = {f \in feedback : f.assertion \notin Ids(VersionsOf(T))}
          /\ Serve /\ Consume(c) /\ UNCHANGED now
        BY ForgetIs
    <1>. HIDE DEF T
    <1>2. ClockTypes'
        BY <1>1 DEF LedgerInv, ClockTypes, Grows, Serve
    <1>3. MemoryInv'
        <2>1. threads' \subseteq threads
            BY <1>1 DEF Forgotten
        <2>. QED
            BY <1>1, <2>1, ForgottenMemory DEF LedgerInv, MemoryInv, ThreadsApart
    <1>4. TimelineInv'
        BY <1>1, ForgottenTimeline, AudienceMoves DEF LedgerInv, TimelineInv
    <1>5. ReviewedInv'
        BY <1>1, PurgedForgotten DEF LedgerInv, MemoryInv
    <1>6. ReadInv'
        BY <1>1, ForgottenReads DEF LedgerInv, MemoryInv, TimelineInv
    <1>7. ApprovalInv'
        BY <1>1, ConsumedApproval DEF LedgerInv
    <1>. QED
        BY <1>2, <1>3, <1>4, <1>5, <1>6, <1>7 DEF LedgerInv

\* A step is one of those above.
LEMMA InvNext == LedgerInv /\ [Next]_vars => LedgerInv'
    <1>. SUFFICES ASSUME LedgerInv, [Next]_vars PROVE LedgerInv'
        OBVIOUS
    <1>1. CASE Tick \/ PurgeDue \/ ExpireDue \/ EndRequest \/ UNCHANGED vars
        BY <1>1, TickStep, PurgeDueStep, ExpireDueStep, EndRequestStep, StutterStep
    <1>2. CASE \E a \in Agent, k \in Key, s \in Subject, x \in Content : Propose(a, k, s, x)
        BY <1>2, ProposeStep
    <1>3. CASE \E a \in Agent : Search(a)
        BY <1>3, SearchStep
    <1>4. CASE \E r \in recalls : \E item \in r.ids : Feedback(r, item)
        BY <1>4, FeedbackStep
    <1>5. CASE \E p \in RememberPreviews \cup ReviewPreviews \cup CorrectPreviews \cup ForgetPreviews : AdminPreview(p)
        BY <1>5, PreviewStep
    <1>6. CASE \E c \in challenges : ApplyRemember(c) \/ ApplyCorrect(c) \/ ApplyAccept(c)
        BY <1>6, ApplyRememberStep, ApplyCorrectStep, ApplyAcceptStep
    <1>7. CASE \E c \in challenges : ApplyReject(c) \/ ApplyForgetProposal(c) \/ ApplyForget(c)
        BY <1>7, ApplyRejectStep, ApplyForgetProposalStep, ApplyForgetStep
    <1>. QED
        BY <1>1, <1>2, <1>3, <1>4, <1>5, <1>6, <1>7 DEF Next

\* The tables name each other consistently in every reachable state.
THEOREM LedgerInvariant == Spec => []LedgerInv
    BY InvInit, InvNext, PTL DEF Spec

-----------------------------------------------------------------------------
(***************************************************************************)
(* What the invariant says.                                                 *)
(***************************************************************************)
\* Every table holds rows of its type.
THEOREM TypesHold == Spec => []TypeOK
    <1>1. LedgerInv => TypeOK
        BY TypesAre DEF LedgerInv, MemoryInv, ReviewedInv, ReadInv, TimelineInv, ApprovalInv
    <1>. QED
        BY <1>1, LedgerInvariant, PTL

\* propose and check_delivery: an agent's delivery key is live in at most one
\* proposal, and in none after a proposal sent under it was purged.
THEOREM DeliveriesLiveOnce == Spec => []OneLiveDelivery
    <1>1. LedgerInv => OneLiveDelivery
        BY DEF LedgerInv, ReviewedInv
    <1>. QED
        BY <1>1, LedgerInvariant, PTL

\* A proposal's review is decided once, whatever was previewed, purged at its
\* deadline or applied in between (admin_apply, purge_proposals, _accept_preview).
THEOREM ProposalsReviewedOnce == Spec => []ReviewedOnce
    <1>1. LedgerInv => ReviewedOnce
        <2>. SUFFICES ASSUME LedgerInv PROVE ReviewedOnce
            OBVIOUS
        <2>1. ReviewInv /\ VersionsApart
            BY DEF LedgerInv, ReviewedInv, MemoryInv
        <2>2. ASSUME NEW p \in proposals, p.status = "accepted" PROVE AcceptedFrom(p.id) # {}
            BY <2>1, <2>2 DEF ReviewInv, AcceptedHasVersion, AcceptedFrom, Acceptances
        <2>3. ASSUME NEW v \in versions, NEW w \in versions, NEW a \in provenance, NEW b \in provenance,
                     a.target = v.id, b.target = w.id,
                     a.kind = "proposal_acceptance", b.kind = "proposal_acceptance", a.inputs = b.inputs
              PROVE  v = w
            <3>1. v.id = w.id
                BY <2>1, <2>3 DEF ReviewInv, InputsDecide, Acceptances
            <3>. QED
                BY <2>1, <3>1 DEF VersionsApart
        <2>. QED
            BY <2>1, <2>2, <2>3 DEF ReviewedOnce, AcceptedOnce, ReviewInv
    <1>. QED
        BY <1>1, LedgerInvariant, PTL

\* admin_apply: an approval takes effect at most once, and has its receipt exactly if it did.
THEOREM ApprovalsTakeEffectOnce == Spec => []OncePerApproval
    <1>1. LedgerInv => OncePerApproval
        BY DEF LedgerInv, ApprovalInv
    <1>. QED
        BY <1>1, LedgerInvariant, PTL

\* _accept_preview: corrections of a version form a chain, in one thread.
THEOREM CorrectionsChain == Spec => []CorrectionsDoNotFork
    <1>1. LedgerInv => CorrectionsDoNotFork
        <2>. SUFFICES ASSUME LedgerInv, NEW v \in versions
                      PROVE  /\ Cardinality({r \in relations : r.to = v.id}) =
                                  (IF v.lifecycle = "superseded" THEN 1 ELSE 0)
                             /\ \A r \in relations : r.to = v.id =>
                                  \E w \in versions : w.id = r.from /\ w.thread = v.thread /\ v.retired = w.id
            BY DEF CorrectionsDoNotFork
        <2>. DEFINE after == {r \in relations : r.to = v.id}
        <2>1. CorrectionInv /\ VersionsApart /\ MemoryTypes
            BY DEF LedgerInv, MemoryInv
        <2>2. ASSUME NEW r \in after
              PROVE  /\ v.lifecycle = "superseded" /\ r = [from |-> v.retired, to |-> v.id]
                     /\ \E w \in versions : w.id = r.from /\ w.thread = v.thread /\ v.retired = w.id
            <3>1. PICK x \in versions, w \in versions :
                     /\ x.id = r.to /\ w.id = r.from /\ w.thread = x.thread
                     /\ x.lifecycle = "superseded" /\ x.retired = w.id
                BY <2>1 DEF CorrectionInv
            <3>2. x = v
                BY <2>1, <3>1 DEF VersionsApart
            <3>3. r = [from |-> r.from, to |-> r.to]
                BY <2>1 DEF MemoryTypes
            <3>. QED
                BY <3>1, <3>2, <3>3
        <2>3. CASE v.lifecycle = "superseded"
            <3>1. PICK r \in after : TRUE
                BY <2>1, <2>3 DEF CorrectionInv
            <3>2. after = {r}
                BY <2>2, <3>1
            <3>3. Cardinality(after) = 1
                BY <3>2, FS_Singleton
            <3>. QED
                BY <2>2, <2>3, <3>3
        <2>4. CASE v.lifecycle # "superseded"
            <3>1. after = {}
                BY <2>2, <2>4
            <3>2. Cardinality(after) = 0
                BY <3>1, FS_EmptySet
            <3>. QED
                BY <2>2, <2>4, <3>2
        <2>. QED
            BY <2>3, <2>4
    <1>. QED
        BY <1>1, LedgerInvariant, PTL

\* _forget_apply: after it no index entry, recall, feedback, relation or
\* provenance names what was forgotten.
THEOREM ForgottenIsUnnamed == Spec => []NothingNamesTheForgotten
    <1>1. LedgerInv => NothingNamesTheForgotten
        BY RecallsAreNamed DEF LedgerInv, MemoryInv, ReviewedInv, ReadInv, VersionsNamed, RecallsNamed,
                               FeedbackNamed, ProvenanceNamed, NothingNamesTheForgotten
    <1>. QED
        BY <1>1, LedgerInvariant, PTL

\* record_audience_change: what an agent can be shown is in its timeline, in order,
\* however many versions fall due at once.
THEOREM TimelinesAreComplete == Spec => []TimelineComplete
    <1>1. LedgerInv => TimelineComplete
        BY DEF LedgerInv, TimelineInv
    <1>. QED
        BY <1>1, LedgerInvariant, PTL

\* _eligibility: asking again as of the watermark finds what was found, less what
\* was forgotten, whatever was corrected, expired or admitted in between.
THEOREM SearchesAreRepeatable == Spec => []RecallReproducible
    <1>1. LedgerInv => RecallReproducible
        BY DEF LedgerInv, ReadInv, RecallInv
    <1>. QED
        BY <1>1, LedgerInvariant, PTL

\* A step that leaves memory alone takes nothing away.
LEMMA QuietLosesNothing == UNCHANGED memory => NothingLost
    BY DEF memory, NothingLost, Ids

\* Only a forget takes a version away.
LEMMA OnlyForgetLoses == LedgerInv /\ [Next]_vars => NothingLost \/ \E c \in challenges : ApplyForget(c)
    <1>. SUFFICES ASSUME LedgerInv, [Next]_vars, ~ \E c \in challenges : ApplyForget(c) PROVE NothingLost
        OBVIOUS
    <1>1. CASE Tick \/ PurgeDue \/ EndRequest \/ UNCHANGED vars
        BY <1>1, QuietLosesNothing DEF Tick, PurgeDue, EndRequest, vars
    <1>2. CASE ExpireDue
        BY <1>2, ExpireDueStep
    <1>3. CASE \E a \in Agent, k \in Key, s \in Subject, x \in Content : Propose(a, k, s, x)
        BY <1>3, QuietLosesNothing DEF Propose
    <1>4. CASE \/ \E a \in Agent : Search(a)
               \/ \E r \in recalls : \E item \in r.ids : Feedback(r, item)
        BY <1>4, QuietLosesNothing DEF Search, Feedback
    <1>5. CASE \E p \in RememberPreviews \cup ReviewPreviews \cup CorrectPreviews \cup ForgetPreviews : AdminPreview(p)
        BY <1>5, QuietLosesNothing DEF AdminPreview
    <1>6. CASE \E c \in challenges : ApplyRemember(c) \/ ApplyCorrect(c) \/ ApplyAccept(c)
        BY <1>6, ApplyRememberStep, ApplyCorrectStep, ApplyAcceptStep
    <1>7. CASE \E c \in challenges : ApplyReject(c) \/ ApplyForgetProposal(c)
        BY <1>7, QuietLosesNothing DEF ApplyReject, ApplyForgetProposal
    <1>. QED
        BY <1>1, <1>2, <1>3, <1>4, <1>5, <1>6, <1>7 DEF Next

\* What a step takes away is what its preview listed.
TakesWhatWasReviewed ==
    LET gone == {v \in versions : v.id \notin Ids(versions')}
    IN  gone # {} => \E c \in challenges :
          /\ applied'[c.nonce] = applied[c.nonce] + 1
          /\ c.preview.op = "forget"
          /\ gone = c.preview.scope.versions
          /\ proposals \ proposals' = c.preview.scope.proposals
          /\ feedback \ feedback' = c.preview.scope.feedback

\* ... and takes exactly what its preview listed.
LEMMA ForgetTakes == LedgerInv /\ [Next]_vars => TakesWhatWasReviewed
    <1>. SUFFICES ASSUME LedgerInv, [Next]_vars PROVE TakesWhatWasReviewed
        OBVIOUS
    <1>. DEFINE gone == {v \in versions : v.id \notin Ids(versions')}
    <1>1. CASE NothingLost
        <2>1. gone = {}
            BY <1>1 DEF NothingLost, Ids
        <2>. QED
            BY <2>1 DEF TakesWhatWasReviewed
    <1>2. ASSUME NEW c \in challenges, ApplyForget(c) PROVE TakesWhatWasReviewed
        <2>. DEFINE T == c.preview.thread
        <2>1. /\ Forgotten(T) /\ proposals' = proposals \ DraftsOf(T)
              /\ feedback' = {f \in feedback : f.assertion \notin Ids(VersionsOf(T))}
              /\ c.preview.scope = ForgetScope(T) /\ c.preview.op = "forget" /\ Grows /\ Consume(c)
            BY <1>2, ForgetIs
        <2>2. applied'[c.nonce] = applied[c.nonce] + 1
            BY <2>1, ConsumedApproval DEF LedgerInv
        <2>3. /\ c.preview.scope.versions = VersionsOf(T)
              /\ c.preview.scope.proposals = DraftsOf(T)
              /\ c.preview.scope.feedback = {f \in feedback : f.assertion \in Ids(VersionsOf(T))}
            BY <2>1 DEF ForgetScope
        <2>4. gone = VersionsOf(T)
            <3>1. Ids(versions') = Ids(versions) \ Ids(VersionsOf(T))
                BY <2>1, ForgottenMemory DEF LedgerInv, MemoryInv
            <3>2. \A v \in versions : v.id \in Ids(VersionsOf(T)) <=> v.thread = T
                BY GoneIs DEF LedgerInv, MemoryInv
            <3>3. gone = {v \in versions : v.id \in Ids(VersionsOf(T))}
                BY <3>1 DEF Ids
            <3>. QED
                BY <3>2, <3>3 DEF VersionsOf
        <2>5. proposals \ proposals' = DraftsOf(T)
            BY <2>1 DEF DraftsOf
        <2>6. feedback \ feedback' = {f \in feedback : f.assertion \in Ids(VersionsOf(T))}
            BY <2>1
        <2>. HIDE DEF T
        <2>. QED
            BY <2>1, <2>2, <2>3, <2>4, <2>5, <2>6 DEF TakesWhatWasReviewed
    <1>. QED
        BY <1>1, <1>2, OnlyForgetLoses

\* _forget_apply: a forget deletes the versions, proposals and feedback its preview
\* listed, and no other step deletes a version.
THEOREM ForgetTakesWhatWasReviewed == Spec => ForgetsWhatWasReviewed
    <1>1. LedgerInv /\ [Next]_vars => [TakesWhatWasReviewed]_vars
        BY ForgetTakes
    <1>2. [][TakesWhatWasReviewed]_vars => ForgetsWhatWasReviewed
        BY PTL DEF ForgetsWhatWasReviewed, TakesWhatWasReviewed
    <1>. QED
        BY <1>1, <1>2, LedgerInvariant, PTL DEF Spec

=============================================================================
