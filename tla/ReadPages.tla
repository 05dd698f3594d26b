------------------------------ MODULE ReadPages ------------------------------
(***************************************************************************)
(* Paged reads of the kernel (kernel.py search, context and show,           *)
(* pagination.py, projection.py): a query fixes its snapshot with its first *)
(* page and goes on from the daemon's cursors, while the owner's writes,    *)
(* retention and forgetting change the rows, cursors expire, are evicted or *)
(* are lost with the daemon, and answers are lost on their way.             *)
(*                                                                          *)
(* The daemon serves a page as one request.  Packing into bytes decides how *)
(* many of the rows that were found are shown: any positive number.  The    *)
(* deadlines of cursors grow in the order of their issue, so the next to    *)
(* expire is the oldest.                                                    *)
(***************************************************************************)
EXTENDS Naturals, Sequences, FiniteSets, FiniteSetsExt

CONSTANTS Claim,      \* [thread, body, valid, audience, score, mentions]
          Query,      \* [op, target, mode, valid]
          Reader, Owner,
          Text,       \* the target that is matched in the text of the claims
          Unknown,    \* validity that was not declared
          Any,        \* a query without as_of_valid
          None,
          Token,      \* names of cursors; one that nobody holds is fresh
          MaxCursors, \* MAX_CURSORS
          MaxMembers, \* members of a thread that are assessed for disputes
          PageLimit,  \* MAX_RESULTS
          Vaults,     \* bound: sequences of claims admitted before the reader comes
          MaxSeq      \* bound: these, and changes of the ledger since

\* A match in the text has a span that counts (kernel.py 1289-1295), so that
\* rank 0 stands for a target that was found as a name.
ASSUME PagesAssumption ==
    /\ Owner \in Reader
    /\ {MaxMembers, MaxSeq} \subseteq Nat
    /\ \A claims \in Vaults : claims \in Seq(Claim) /\ Len(claims) <= MaxSeq
    /\ \A c \in Claim : c.score \in Nat /\ (c.mentions # {} => c.score > 0)
    /\ {MaxCursors, PageLimit} \subseteq Nat \ {0}
    /\ None \notin Nat \cup Token \cup [rank : Nat, id : Nat]
    /\ IsFiniteSet(Token) /\ Cardinality(Token) > MaxCursors + 1

VARIABLES seq,       \* table sequence
          versions,  \* table assertion_versions
          cursors,   \* Cursors.entries, oldest first
          series     \* one query that is followed: who asked what and got what

vars == <<seq, versions, cursors, series>>

Threads == {c.thread : c \in Claim}
Version == [id : 1 .. MaxSeq, claim : Claim, retired : 0 .. MaxSeq]
NULL == 0
Undisputed == {}
Unassessed == {NULL}    \* of a thread with too many members

-----------------------------------------------------------------------------
(***************************************************************************)
(* What a reader may see, and in which order.                               *)
(***************************************************************************)

\* Eligibility.sql
Eligible(v, reader, recorded, q) ==
    /\ v.id <= recorded
    /\ reader = Owner \/ reader \in v.claim.audience
    /\ q.mode = "current" => v.retired = NULL \/ v.retired > recorded
    /\ q.valid # Any => v.claim.valid # Unknown /\ q.valid \in v.claim.valid

\* The target names a thread in which something is eligible, or the first page
\* found it so; otherwise the target is looked up in the text.
Exact(reader, recorded, q, after) ==
    IF after # None THEN after.rank = 0
    ELSE q.op = "show" \/ \E v \in versions : v.claim.thread = q.target /\ Eligible(v, reader, recorded, q)

Rank(v, exact) == IF exact THEN 0 ELSE v.claim.score
Matches(v, q, exact) ==
    IF exact THEN v.claim.thread = q.target
    ELSE IF q.target = Text THEN v.claim.score > 0
    ELSE q.target \in v.claim.mentions

Key(v, exact) == [rank |-> Rank(v, exact), id |-> v.id]

\* By relevance and from new to old; show goes from old to new.
QueryOrder(x, y) == x.rank > y.rank \/ (x.rank = y.rank /\ x.id > y.id)
ShowOrder(x, y) == x.id < y.id
Precedes(q, x, y) == IF q.op = "show" THEN ShowOrder(x, y) ELSE QueryOrder(x, y)

Candidates(reader, recorded, q, after) ==
    LET exact == Exact(reader, recorded, q, after)
    IN  {v \in versions : /\ Eligible(v, reader, recorded, q) /\ Matches(v, q, exact)
                          /\ after = None \/ Precedes(q, after, Key(v, exact))}

(***************************************************************************)
(* Disputes, derived from the members of a thread that the reader may see.  *)
(***************************************************************************)

\* Different bodies whose recorded and valid lifetimes overlap.
Overlap(left, right) ==
    /\ left.claim.body # right.claim.body
    /\ \A p \in {<<left, right>>, <<right, left>>} : p[1].retired = NULL \/ p[1].retired > p[2].id
    /\ Unknown \in {left.claim.valid, right.claim.valid} \/ left.claim.valid \cap right.claim.valid # {}

\* Mutant: the younger row of a pair leaves the group it was in.
JoinLeaving(pair, groups) ==
    LET younger == {v \in pair : \E w \in pair : w.id < v.id}
    IN  {IF g \cap (pair \ younger) # {} THEN g \cup younger ELSE g \ younger : g \in groups} \ {{}}

\* Two rows that overlap are of one group, with all that was grouped with them.
Join(pair, groups) ==
    LET touched == {g \in groups : g \cap pair # {}}
    IN  (groups \ touched) \cup {UNION touched}

\* conflict_groups
ConflictGroups(rows) ==
    LET pairs == {{p[1], p[2]} : p \in {q \in rows \X rows : Overlap(q[1], q[2])}}
    IN  {g \in FoldSet(Join, {{v} : v \in rows}, pairs) : Cardinality(g) > 1}

\* _conflict_projection of one row: its group is what its conflict_id stands for
Dispute(v, reader, recorded, q) ==
    LET members == {w \in versions : w.claim.thread = v.claim.thread /\ Eligible(w, reader, recorded, q)}
        mine == {g \in ConflictGroups(members) : v \in g}
    IN  IF Cardinality(members) > MaxMembers THEN Unassessed
        ELSE IF mine = {} THEN Undisputed
        ELSE {w.id : w \in UNION mine}

-----------------------------------------------------------------------------
Blank == [status |-> "none", reader |-> Owner, query |-> None, recorded |-> 0, owed |-> {}, pages |-> <<>>, token |-> None]

Init ==
    /\ \E claims \in Vaults :
         /\ seq = Len(claims)
         /\ versions = {[id |-> i, claim |-> claims[i], retired |-> NULL] : i \in DOMAIN claims}
    /\ cursors = <<>>
    /\ series = Blank

(***************************************************************************)
(* The ledger changes between the pages.                                    *)
(***************************************************************************)
Recorded == seq < MaxSeq /\ seq' = seq + 1 /\ UNCHANGED cursors

Remember(claim) ==
    /\ Recorded
    /\ versions' = versions \cup {[id |-> seq', claim |-> claim, retired |-> NULL]}
    /\ UNCHANGED series

Correct(v, claim) ==
    /\ Recorded
    /\ v.retired = NULL /\ claim.thread = v.claim.thread
    /\ versions' = (versions \ {v}) \cup
         {[v EXCEPT !.retired = seq'], [id |-> seq', claim |-> claim, retired |-> NULL]}
    /\ UNCHANGED series

\* The retention preflight of any request, in its own transaction.
ExpireDue(v) ==
    /\ Recorded
    /\ v.retired = NULL
    /\ versions' = (versions \ {v}) \cup {[v EXCEPT !.retired = seq']}
    /\ UNCHANGED series

Forget(thread) ==
    /\ Recorded
    /\ \E v \in versions : v.claim.thread = thread
    /\ versions' = {v \in versions : v.claim.thread # thread}
    /\ UNCHANGED series

(***************************************************************************)
(* Cursors (pagination.py).                                                 *)
(***************************************************************************)
\* random_id: a name that neither the daemon nor the reader holds
Fresh == CHOOSE t \in Token : t # series.token /\ \A c \in Range(cursors) : c.token # t

\* Mutant: what is at the limit already does not count.
IssueUnbounded(cursor) == Append(cursors, cursor)

\* Cursors.issue: at the limit the oldest goes
Issue(cursor) ==
    Append(IF Len(cursors) >= MaxCursors THEN Tail(cursors) ELSE cursors, cursor)

\* Cursors.read: this token, for exactly this query of this reader
Found(token, reader, q) ==
    {c \in Range(cursors) : c.token = token /\ c.reader = reader /\ c.query = q}

\* The oldest cursor reaches its deadline, or another reader's takes its place.
ExpireCursor ==
    /\ cursors # <<>>
    /\ cursors' = Tail(cursors)
    /\ UNCHANGED <<seq, versions, series>>

\* The daemon is restarted.
Restart ==
    /\ cursors # <<>>
    /\ cursors' = <<>>
    /\ UNCHANGED <<seq, versions, series>>

(***************************************************************************)
(* Serving a page: count is how many rows its limit and its bytes allow.    *)
(***************************************************************************)

\* Mutant: the cursor goes on behind the last row that was found.
LastFound(q, found, shown, exact) ==
    LET row == CHOOSE v \in found : \A w \in found : ~Precedes(q, Key(v, exact), Key(w, exact))
    IN  Key(row, exact)

\* Where the next page goes on: behind the last row that was shown.
After(q, found, shown, exact) ==
    LET row == CHOOSE v \in shown : \A w \in shown : ~Precedes(q, Key(v, exact), Key(w, exact))
    IN  Key(row, exact)

\* Mutant: only a continued page pins its receipt.
PinContinued(q, recorded, more, after) ==
    IF q.op # "show" /\ after # None THEN recorded ELSE None

\* _record_recall: the receipt of a page is pinned when the page is not all; the
\* owner's show leaves none.
Pin(q, recorded, more, after) ==
    IF q.op # "show" /\ (more \/ after # None) THEN recorded ELSE None

\* The first rows of what was found, as many as fit.
Packed(q, found, exact, count) ==
    {v \in found : Cardinality({w \in found : Precedes(q, Key(w, exact), Key(v, exact))}) < count}

\* A page calls itself partial if there is more, a context also if a dispute it
\* shows has members that it does not show.
Partial(q, more, ids, dispute) ==
    more \/ (q.op = "context" /\ \E i \in ids : ~(dispute[i] \subseteq ids))

\* show refuses a target of which there is nothing, also when it goes on after
\* the thread was forgotten; other pages may be empty.
Answerable(q, after, found) ==
    q.op = "show" => /\ after = None => found # {}
                     /\ \E v \in versions : v.claim.thread = q.target

\* The daemon answers with a page, and the answer arrives or is lost.
Serve(before, q, recorded, after, count, lost) ==
    LET exact == Exact(before.reader, recorded, q, after)
        found == Candidates(before.reader, recorded, q, after)
        shown == Packed(q, found, exact, count)
        more == shown # found
        ids == {v.id : v \in shown}
        dispute == [i \in ids |-> Dispute(CHOOSE v \in shown : v.id = i, before.reader, recorded, q)]
        page == [ids |-> ids, dispute |-> dispute, asOf |-> Pin(q, recorded, more, after),
                 partial |-> Partial(q, more, ids, dispute)]
    IN  /\ count <= IF found = {} THEN 1 ELSE Cardinality(found)
        /\ Answerable(q, after, found)
        /\ cursors' = IF ~more THEN cursors
                      ELSE Issue([token |-> Fresh, reader |-> before.reader, query |-> q,
                                  recorded |-> recorded, after |-> After(q, found, shown, exact)])
        /\ series' = IF lost THEN series
                     ELSE [before EXCEPT !.status = IF more THEN "open" ELSE "done",
                                         !.pages = Append(@, page),
                                         !.token = IF more THEN Fresh ELSE None]
        /\ UNCHANGED <<seq, versions>>

\* A first page fixes the snapshot.  What it selects is owed to the reader.
First(reader, q, count) ==
    /\ series.status = "none"
    /\ q.op = "show" => reader = Owner
    /\ LET owed == {v.id : v \in Candidates(reader, seq, q, None)}
       IN  Serve([Blank EXCEPT !.reader = reader, !.query = q, !.recorded = seq, !.owed = owed],
                 q, seq, None, count, FALSE)

\* The reader goes on, also again after an answer that was lost, and possibly
\* with another query than the cursor is bound to.
Continue(q, count, lost) ==
    /\ series.status = "open"
    /\ \E c \in Found(series.token, series.reader, q) :
         Serve(series, q, c.recorded, c.after, count, lost)

\* invalid_cursor: the reader has to start again.
Refused ==
    /\ series.status = "open"
    /\ Found(series.token, series.reader, series.query) = {}
    /\ series' = Blank
    /\ UNCHANGED <<seq, versions, cursors>>

Ledger ==
    \/ \E c \in Claim : Remember(c)
    \/ \E v \in versions, c \in Claim : Correct(v, c)
    \/ \E v \in versions : ExpireDue(v)
    \/ \E t \in Threads : Forget(t)

Next ==
    \/ Ledger
    \/ ExpireCursor
    \/ Restart
    \/ \E r \in Reader, q \in Query, n \in 1 .. PageLimit : First(r, q, n)
    \/ \E q \in Query, n \in 1 .. PageLimit, lost \in BOOLEAN : Continue(q, n, lost)
    \/ Refused

Spec == Init /\ [][Next]_vars

-----------------------------------------------------------------------------
(***************************************************************************)
(* Properties.                                                              *)
(***************************************************************************)
Cursor == [token : Token, reader : Reader, query : Query, recorded : 0 .. MaxSeq,
           after : [rank : Nat, id : 1 .. MaxSeq]]

\* Types, the limit of the cursors (MAX_CURSORS) and one cursor per token.
TypeOK ==
    /\ seq \in 0 .. MaxSeq
    /\ versions \subseteq Version
    /\ \A i \in DOMAIN cursors : cursors[i] \in Cursor
    /\ Len(cursors) <= MaxCursors
    /\ \A i, j \in DOMAIN cursors : cursors[i].token = cursors[j].token => i = j
    /\ series.status \in {"none", "open", "done"}
    /\ series.reader \in Reader
    /\ series.query \in Query \cup {None}
    /\ series.token \in Token \cup {None}
    /\ \A i \in DOMAIN series.pages : series.pages[i].ids \subseteq 1 .. MaxSeq

Rows(ids) == {v \in versions : v.id \in ids}
Shown == UNION {series.pages[i].ids : i \in DOMAIN series.pages}

\* The pages of a query tile its snapshot (search, context, show): no row comes
\* twice, none comes that the first page did not select, an unfinished page is
\* not empty, and when the last page says that there is no more, every row that
\* was selected has been shown unless it was forgotten, whatever was written,
\* corrected, expired or forgotten in between and whatever answer was lost.
PagesTile ==
    LET pages == series.pages IN
    /\ \A i, j \in DOMAIN pages : i # j => pages[i].ids \cap pages[j].ids = {}
    /\ Shown \subseteq series.owed
    /\ series.status = "open" => \A i \in DOMAIN pages : pages[i].ids # {}
    /\ series.status = "done" => Rows(series.owed) \subseteq Rows(Shown)

\* get with the receipt of a page: eligibility of then or of now
Fetchable(v, page) ==
    Eligible(v, series.reader, IF page.asOf = None THEN seq ELSE page.asOf, series.query)

\* What a page of several showed can be fetched with that page's receipt (get,
\* feedback) until it is forgotten, though it was corrected or expired since.
ReceiptsResolve ==
    LET pages == series.pages IN
    (Len(pages) > 1 \/ series.status = "open") /\ series.query.op # "show" =>
        \A i \in DOMAIN pages : \A v \in Rows(pages[i].ids) : Fetchable(v, pages[i])

\* A group whose members overlap in chains, and nothing outside with any of them.
IsComponent(group, rows) ==
    /\ \A x \in group, y \in rows \ group : ~Overlap(x, y)
    /\ \A s \in (SUBSET group) \ {{}, group} : \E x \in s, y \in group \ s : Overlap(x, y)

\* The conflict of a card is its connected component among the versions that
\* the reader may see at the snapshot, on whichever page the card came and
\* whatever happened since; a thread too large to assess shows no winner.  A
\* context that calls itself complete shows every dispute whole.
DisputesAreComponents ==
    \A i \in DOMAIN series.pages : \A v \in Rows(series.pages[i].ids) :
        LET page == series.pages[i]
            dispute == page.dispute[v.id]
            members == {w \in versions : /\ w.claim.thread = v.claim.thread
                                         /\ Eligible(w, series.reader, series.recorded, series.query)}
        IN  /\ series.query.op = "context" /\ ~page.partial => dispute \subseteq page.ids
            /\ IF Cardinality(members) > MaxMembers THEN dispute = Unassessed
               ELSE LET group == IF dispute = Undisputed THEN {v} ELSE {w \in members : w.id \in dispute}
                    IN  v \in group /\ IsComponent(group, members)

=============================================================================
