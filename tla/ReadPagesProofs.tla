--------------------------- MODULE ReadPagesProofs ---------------------------
(***************************************************************************)
(* Proofs about ReadPages, for any claims, queries, readers, page sizes and *)
(* limits.  The invariant relates the cursor of the series to its pages: of *)
(* what the first page selected and is still there, exactly that has been   *)
(* shown which does not come behind the cursor.  That a page shows the      *)
(* first rows of what it found, and that there are a last row and a fresh   *)
(* token, is proved with finite sets, without induction; so is what the     *)
(* fold of conflict_groups computes.                                        *)
(***************************************************************************)
EXTENDS ReadPages, FiniteSetTheorems, WellFoundedInduction, TLAPS

-----------------------------------------------------------------------------
(***************************************************************************)
(* The invariant.                                                           *)
(***************************************************************************)
SeriesType ==
    /\ series \in [status : {"none", "open", "done"}, reader : Reader, query : Query \cup {None},
                   recorded : 0 .. seq, owed : SUBSET (1 .. seq), pages : {series.pages}, token : Token \cup {None}]
    /\ series.pages \in Seq(Range(series.pages))

VersionsInv ==
    /\ versions \subseteq Version /\ IsFiniteSet(versions)
    /\ \A v \in versions : v.id <= seq
    /\ \A v, w \in versions : v.id = w.id => v = w

CursorsInv ==
    /\ cursors \in Seq(Cursor) /\ Len(cursors) <= MaxCursors
    /\ \A i, j \in DOMAIN cursors : cursors[i].token = cursors[j].token => i = j

TypesInv == seq \in 0 .. MaxSeq /\ VersionsInv /\ CursorsInv /\ SeriesType

\* What the pages of a series have shown, and what its snapshot selects.
ShownOf(s) == UNION {s.pages[i].ids : i \in DOMAIN s.pages}
Selects(s, exact, v) == Eligible(v, s.reader, s.recorded, s.query) /\ Matches(v, s.query, exact)

\* A cursor continues the series: it is bound to it, and of what is owed just
\* what was not shown comes behind it.
Continues(s, exact, c) ==
    /\ c.reader = s.reader /\ c.query = s.query /\ c.recorded = s.recorded
    /\ (c.after.rank = 0) = exact
    /\ \A v \in versions : v.id \in s.owed => (v.id \in ShownOf(s) <=> ~Precedes(s.query, c.after, Key(v, exact)))

\* What is owed is what the snapshot selects, unless it was forgotten.
Owes(s, exact) ==
    /\ \A i \in s.owed : i <= s.recorded
    /\ \A v \in versions : v.id \in s.owed <=> Selects(s, exact, v)

Disjoint(s) ==
    /\ ShownOf(s) \subseteq s.owed
    /\ \A i, j \in DOMAIN s.pages : i # j => s.pages[i].ids \cap s.pages[j].ids = {}

Pinned(s) == s.query.op # "show" => \A i \in DOMAIN s.pages : s.pages[i].asOf = s.recorded

Follows(s, exact) ==
    /\ Owes(s, exact)
    /\ Disjoint(s)
    /\ s.status = "open" =>
         /\ \A i \in DOMAIN s.pages : s.pages[i].ids # {}
         /\ \A c \in Range(cursors) : c.token = s.token => Continues(s, exact, c)
    /\ s.status = "done" => Rows(s.owed) \subseteq Rows(ShownOf(s))
    /\ Len(s.pages) > 1 \/ s.status = "open" => Pinned(s)

SeriesInv == IF series.status = "none" THEN series = Blank ELSE \E exact \in BOOLEAN : Follows(series, exact)

PagesInv == TypesInv /\ SeriesInv

-----------------------------------------------------------------------------
(***************************************************************************)
(* Finite sets and orders.                                                  *)
(***************************************************************************)
Keys == [rank : Nat, id : Nat]

\* The order of the rows is strict and total.
LEMMA Order ==
    ASSUME NEW q
    PROVE  /\ \A x \in Keys : ~Precedes(q, x, x)
           /\ \A x, y, z \in Keys : Precedes(q, x, y) /\ Precedes(q, y, z) => Precedes(q, x, z)
           /\ \A x, y \in Keys : x.id # y.id => Precedes(q, x, y) \/ Precedes(q, y, x)
    BY DEF Precedes, ShowOrder, QueryOrder, Keys

\* A finite set that is not empty has an element with nothing before it.
LEMMA HasFirst ==
    ASSUME NEW S, IsFiniteSet(S), S # {}, NEW R,
           \A x \in S : <<x, x>> \notin R,
           \A x, y, z \in S : <<x, y>> \in R /\ <<y, z>> \in R => <<x, z>> \in R
    PROVE  \E x \in S : \A y \in S : <<y, x>> \notin R
    <1>. DEFINE before == [x \in S |-> {y \in S : <<y, x>> \in R}]
                T == {before[x] : x \in S}
    <1>1. \A x \in S : before[x] \in FiniteSubsetsOf(S)
        BY FS_Subset DEF FiniteSubsetsOf
    <1>2. T \subseteq FiniteSubsetsOf(S) /\ T # {}
        <2>1. \A b \in T : \E x \in S : b = before[x]
            OBVIOUS
        <2>2. PICK x \in S : TRUE
            OBVIOUS
        <2>3. before[x] \in T
            BY <2>2
        <2>. HIDE DEF T, before
        <2>. QED BY <1>1, <2>1, <2>3
    <1>3. PICK b \in T : \A c \in T : ~(<<c, b>> \in StrictSubsetOrdering(S))
        <2>. HIDE DEF T
        <2>. QED BY <1>2, FS_StrictSubsetOrderingWellFounded, WFMin
    <1>4. PICK x \in S : b = before[x]
        BY <1>3
    <1>5. ASSUME NEW y \in S, <<y, x>> \in R PROVE FALSE
        <2>1. before[y] \subseteq before[x] /\ y \in before[x] /\ y \notin before[y]
            BY <1>5
        <2>2. <<before[y], before[x]>> \in StrictSubsetOrdering(S)
            BY <2>1 DEF StrictSubsetOrdering
        <2>. QED BY <2>2, <1>3, <1>4
    <1>. QED BY <1>5

\* Keys of rows.
LEMMA KeysOfRows ==
    ASSUME versions \subseteq Version, NEW exact \in BOOLEAN
    PROVE  \A v \in versions : Key(v, exact) \in Keys /\ Key(v, exact).id = v.id
    BY PagesAssumption DEF Key, Rank, Keys, Version

-----------------------------------------------------------------------------
(***************************************************************************)
(* A page shows the first rows, and its cursor goes on behind the last.     *)
(***************************************************************************)
LEMMA FirstRows ==
    ASSUME VersionsInv, NEW q, NEW exact \in BOOLEAN, NEW count \in Nat \ {0},
           NEW found \in SUBSET versions
    PROVE  LET shown == Packed(q, found, exact, count)
           IN  /\ shown \subseteq found
               /\ \A v \in shown, w \in found : Precedes(q, Key(w, exact), Key(v, exact)) => w \in shown
               /\ found # {} => shown # {}
    <1>. DEFINE shown == Packed(q, found, exact, count)
                key(v) == Key(v, exact)
                before(v) == {w \in found : Precedes(q, key(w), key(v))}
    <1>1. IsFiniteSet(found)
        BY FS_Subset DEF VersionsInv
    <1>2. \A v \in found : key(v) \in Keys
        BY KeysOfRows DEF VersionsInv
    <1>3. \A v \in found : v \in shown <=> Cardinality(before(v)) < count
        BY DEF Packed
    <1>4. shown \subseteq found
        BY DEF Packed
    <1>5. ASSUME NEW v \in shown, NEW w \in found, Precedes(q, key(w), key(v)) PROVE w \in shown
        <2>1. before(w) \subseteq before(v)
            <3>1. \A u \in found : key(u) \in Keys /\ key(w) \in Keys /\ key(v) \in Keys
                BY <1>2, <1>4
            <3>. HIDE DEF key
            <3>. QED BY <1>5, <3>1, Order
        <2>2. IsFiniteSet(before(v)) /\ IsFiniteSet(before(w))
            BY <1>1, FS_Subset
        <2>3. Cardinality(before(w)) <= Cardinality(before(v))
            <3>. HIDE DEF before
            <3>. QED BY <2>1, <2>2, FS_Subset
        <2>4. Cardinality(before(w)) \in Nat /\ Cardinality(before(v)) \in Nat
            <3>. HIDE DEF before
            <3>. QED BY <2>2, FS_CardinalityType
        <2>5. Cardinality(before(v)) < count
            BY <1>3, <1>4
        <2>6. Cardinality(before(w)) < count
            <3>. HIDE DEF before
            <3>. QED BY <2>3, <2>4, <2>5
        <2>. QED BY <1>3, <2>6
    <1>6. ASSUME found # {} PROVE shown # {}
        <2>. DEFINE R == {p \in found \X found : Precedes(q, key(p[1]), key(p[2]))}
        <2>1. \A x, y \in found : <<x, y>> \in R <=> Precedes(q, key(x), key(y))
            OBVIOUS
        <2>2. \A x \in found : <<x, x>> \notin R
            BY <1>2, <2>1, Order
        <2>3. \A x, y, z \in found : <<x, y>> \in R /\ <<y, z>> \in R => <<x, z>> \in R
            <3>. HIDE DEF R, key
            <3>. QED BY <1>2, <2>1, Order
        <2>4. PICK v \in found : \A w \in found : <<w, v>> \notin R
            <3>. HIDE DEF R
            <3>. QED BY <1>1, <1>6, <2>2, <2>3, HasFirst
        <2>5. before(v) = {}
            BY <2>1, <2>4
        <2>6. Cardinality(before(v)) = 0
            <3>. HIDE DEF before
            <3>. QED BY <2>5, FS_EmptySet
        <2>. QED
            <3>. HIDE DEF before, shown
            <3>. QED BY <1>3, <2>6
    <1>. QED BY <1>4, <1>5, <1>6

LEMMA GoesOnBehind ==
    ASSUME VersionsInv, NEW q, NEW exact \in BOOLEAN,
           NEW found \in SUBSET versions, NEW shown \in SUBSET found, shown # {},
           \A v \in shown, w \in found : Precedes(q, Key(w, exact), Key(v, exact)) => w \in shown
    PROVE  \E row \in shown :
             /\ After(q, found, shown, exact) = Key(row, exact)
             /\ \A w \in found : w \in shown <=> ~Precedes(q, Key(row, exact), Key(w, exact))
    <1>. DEFINE key(v) == Key(v, exact)
                R == {p \in shown \X shown : Precedes(q, key(p[2]), key(p[1]))}
    <1>1. IsFiniteSet(shown)
        BY FS_Subset DEF VersionsInv
    <1>2. \A v \in versions : key(v) \in Keys /\ key(v).id = v.id
        BY KeysOfRows DEF VersionsInv
    <1>3. \A x, y \in shown : <<x, y>> \in R <=> Precedes(q, key(y), key(x))
        OBVIOUS
    <1>4. \A x \in shown : <<x, x>> \notin R
        BY <1>2, <1>3, Order
    <1>5. \A x, y, z \in shown : <<x, y>> \in R /\ <<y, z>> \in R => <<x, z>> \in R
        <2>. HIDE DEF R, key
        <2>. QED BY <1>2, <1>3, Order
    <1>6. \E v \in shown : \A w \in shown : ~Precedes(q, key(v), key(w))
        <2>1. PICK v \in shown : \A w \in shown : <<w, v>> \notin R
            <3>. HIDE DEF R
            <3>. QED BY <1>1, <1>4, <1>5, HasFirst
        <2>. QED BY <1>3, <2>1
    <1>7. PICK row \in shown : /\ After(q, found, shown, exact) = key(row)
                               /\ \A w \in shown : ~Precedes(q, key(row), key(w))
        BY <1>6 DEF After
    <1>8. ASSUME NEW w \in found, ~Precedes(q, key(row), key(w)) PROVE w \in shown
        <2>1. CASE w.id = row.id
            BY <2>1 DEF VersionsInv
        <2>2. CASE w.id # row.id
            <3>1. Precedes(q, key(w), key(row))
                <4>1. key(w) \in Keys /\ key(row) \in Keys /\ key(w).id # key(row).id
                    BY <1>2, <2>2
                <4>. HIDE DEF key
                <4>. QED BY <4>1, <1>8, Order
            <3>. QED BY <3>1
        <2>. QED BY <2>1, <2>2
    <1>. QED BY <1>7, <1>8

-----------------------------------------------------------------------------
(***************************************************************************)
(* Cursors.                                                                 *)
(***************************************************************************)

\* There are more tokens than the cursors and the reader hold.
LEMMA FreshIsFree ==
    ASSUME CursorsInv
    PROVE  Fresh \in Token /\ Fresh # series.token /\ \A c \in Range(cursors) : c.token # Fresh
    <1>. DEFINE held == {cursors[i].token : i \in DOMAIN cursors}
                used == held \cup {series.token}
                f == [i \in 1 .. Len(cursors) |-> cursors[i].token]
    <1>1. Len(cursors) \in Nat /\ Len(cursors) <= MaxCursors /\ DOMAIN cursors = 1 .. Len(cursors) /\ MaxCursors \in Nat
        BY PagesAssumption DEF CursorsInv
    <1>2. f \in Surjection(1 .. Len(cursors), held)
        BY <1>1 DEF Surjection
    <1>3. IsFiniteSet(1 .. Len(cursors)) /\ Cardinality(1 .. Len(cursors)) = Len(cursors)
        <2>1. \A n \in Nat : 1 \in Int /\ n \in Int /\ (IF 1 > n THEN 0 ELSE n - 1 + 1) = n
            OBVIOUS
        <2>2. \A n \in Nat : IsFiniteSet(1 .. n) /\ Cardinality(1 .. n) = n
            BY <2>1, FS_Interval
        <2>. QED BY <1>1, <2>2
    <1>4. IsFiniteSet(held) /\ Cardinality(held) <= Len(cursors)
        <2>. HIDE DEF f, held
        <2>. QED BY <1>2, <1>3, FS_Surjection
    <1>5. IsFiniteSet(used) /\ Cardinality(used) <= MaxCursors + 1
        <2>1. Cardinality(held) \in Nat
            <3>. HIDE DEF held
            <3>. QED BY <1>4, FS_CardinalityType
        <2>2. IsFiniteSet(used) /\ Cardinality(used) <= Cardinality(held) + 1
            <3>1. \A x : /\ IsFiniteSet(held \cup {x})
                         /\ Cardinality(held \cup {x}) = IF x \in held THEN Cardinality(held) ELSE Cardinality(held) + 1
                <4>. HIDE DEF held
                <4>. QED BY <1>4, FS_AddElement
            <3>2. \A n \in Nat : n <= n + 1 /\ n + 1 <= n + 1
                OBVIOUS
            <3>. HIDE DEF held
            <3>3. IsFiniteSet(used) /\ Cardinality(used) \in {Cardinality(held), Cardinality(held) + 1}
                BY <3>1
            <3>. HIDE DEF used
            <3>. QED BY <2>1, <3>2, <3>3
        <2>3. \A k, l, m, n \in Nat : k <= l + 1 /\ l <= m /\ m <= n => k <= n + 1
            OBVIOUS
        <2>4. Cardinality(used) \in Nat
            <3>. HIDE DEF used
            <3>. QED BY <2>2, FS_CardinalityType
        <2>. HIDE DEF held, used
        <2>. QED BY <1>1, <1>4, <2>1, <2>2, <2>3, <2>4
    <1>6. ~(Token \subseteq used)
        <2>1. Cardinality(used) \in Nat /\ Cardinality(Token) \in Nat
            <3>. HIDE DEF used
            <3>. QED BY <1>5, PagesAssumption, FS_CardinalityType
        <2>2. Token \subseteq used => Cardinality(Token) <= Cardinality(used)
            <3>. HIDE DEF used
            <3>. QED BY <1>5, FS_Subset
        <2>. HIDE DEF used
        <2>. QED BY <1>1, <1>5, <2>1, <2>2, PagesAssumption
    <1>7. \E t \in Token : t # series.token /\ \A c \in Range(cursors) : c.token # t
        BY <1>6 DEF Range
    <1>. QED BY <1>7 DEF Fresh

\* A cursor less: what is left keeps its tokens.
LEMMA OldestGoes ==
    ASSUME CursorsInv, cursors # <<>>
    PROVE  LET left == Tail(cursors)
           IN  /\ left \in Seq(Cursor) /\ Len(left) + 1 = Len(cursors)
               /\ \A i, j \in DOMAIN left : left[i].token = left[j].token => i = j
               /\ Range(left) \subseteq Range(cursors)
    <1>. DEFINE left == Tail(cursors)
    <1>1. left \in Seq(Cursor) /\ Len(left) = Len(cursors) - 1 /\ Len(cursors) \in Nat
        BY DEF CursorsInv
    <1>2. \A i \in DOMAIN left : i \in Nat /\ i + 1 \in DOMAIN cursors /\ left[i] = cursors[i + 1]
        BY DEF CursorsInv
    <1>3. \A i, j \in DOMAIN left : left[i].token = left[j].token => i = j
        <2>1. \A i, j \in DOMAIN left : left[i].token = left[j].token => i + 1 = j + 1
            <3>. HIDE DEF left
            <3>. QED BY <1>2 DEF CursorsInv
        <2>2. \A i, j \in Nat : i + 1 = j + 1 => i = j
            OBVIOUS
        <2>. HIDE DEF left
        <2>. QED BY <1>2, <2>1, <2>2
    <1>4. Range(left) \subseteq Range(cursors)
        <2>. HIDE DEF left
        <2>. QED BY <1>2 DEF Range
    <1>5. Len(left) + 1 = Len(cursors)
        BY <1>1
    <1>. QED BY <1>1, <1>3, <1>4, <1>5

LEMMA Added ==
    ASSUME NEW s, s \in Seq(Cursor), Len(s) < MaxCursors, NEW c \in Cursor,
           \A i, j \in DOMAIN s : s[i].token = s[j].token => i = j,
           \A x \in Range(s) : x.token # c.token
    PROVE  LET new == Append(s, c)
           IN  /\ new \in Seq(Cursor) /\ Len(new) <= MaxCursors
               /\ \A i, j \in DOMAIN new : new[i].token = new[j].token => i = j
               /\ Range(new) \subseteq Range(s) \cup {c}
    <1>. DEFINE new == Append(s, c)
    <1>1. new \in Seq(Cursor) /\ Len(new) = Len(s) + 1 /\ Len(s) \in Nat /\ MaxCursors \in Nat
        BY PagesAssumption
    <1>2. Len(new) <= MaxCursors
        <2>. HIDE DEF new
        <2>. QED BY <1>1
    <1>3. \A i \in DOMAIN new : (i \in DOMAIN s /\ new[i] = s[i]) \/ (i = Len(s) + 1 /\ new[i] = c)
        OBVIOUS
    <1>4. \A i \in DOMAIN s : s[i].token # c.token
        BY DEF Range
    <1>5. \A i, j \in DOMAIN new : new[i].token = new[j].token => i = j
        <2>. HIDE DEF new
        <2>. QED BY <1>3, <1>4
    <1>6. Range(new) \subseteq Range(s) \cup {c}
        <2>. HIDE DEF new
        <2>. QED BY <1>3 DEF Range
    <1>. QED BY <1>1, <1>2, <1>5, <1>6

\* A cursor is issued within the limit, under a token that is not in use.
LEMMA Issued ==
    ASSUME CursorsInv, NEW c \in Cursor, \A x \in Range(cursors) : x.token # c.token
    PROVE  LET new == Issue(c)
           IN  /\ new \in Seq(Cursor) /\ Len(new) <= MaxCursors
               /\ \A i, j \in DOMAIN new : new[i].token = new[j].token => i = j
               /\ Range(new) \subseteq Range(cursors) \cup {c}
    <1>1. MaxCursors \in Nat \ {0} /\ Len(cursors) \in Nat /\ Len(cursors) <= MaxCursors /\ cursors \in Seq(Cursor)
        BY PagesAssumption DEF CursorsInv
    <1>2. CASE Len(cursors) >= MaxCursors
        <2>. DEFINE left == Tail(cursors)
        <2>1. cursors # <<>>
            BY <1>1, <1>2
        <2>2. left \in Seq(Cursor) /\ Len(left) + 1 = Len(cursors) /\ Range(left) \subseteq Range(cursors)
            BY <2>1, OldestGoes
        <2>3. \A i, j \in DOMAIN left : left[i].token = left[j].token => i = j
            BY <2>1, OldestGoes
        <2>4. Len(left) < MaxCursors
            <3>1. Len(left) \in Nat
                BY <2>2
            <3>. HIDE DEF left
            <3>. QED BY <1>1, <2>2, <3>1
        <2>5. \A x \in Range(left) : x.token # c.token
            BY <2>2
        <2>6. Issue(c) = Append(left, c)
            BY <1>2 DEF Issue
        <2>7. LET new == Append(left, c)
              IN  /\ new \in Seq(Cursor) /\ Len(new) <= MaxCursors
                  /\ \A i, j \in DOMAIN new : new[i].token = new[j].token => i = j
                  /\ Range(new) \subseteq Range(left) \cup {c}
            <3>. HIDE DEF left
            <3>. QED BY <2>2, <2>3, <2>4, <2>5, Added
        <2>. HIDE DEF left
        <2>. QED BY <2>2, <2>6, <2>7
    <1>3. CASE ~(Len(cursors) >= MaxCursors)
        <2>1. Issue(c) = Append(cursors, c) /\ Len(cursors) < MaxCursors
            BY <1>1, <1>3 DEF Issue
        <2>2. LET new == Append(cursors, c)
              IN  /\ new \in Seq(Cursor) /\ Len(new) <= MaxCursors
                  /\ \A i, j \in DOMAIN new : new[i].token = new[j].token => i = j
                  /\ Range(new) \subseteq Range(cursors) \cup {c}
            BY <1>1, <2>1, Added DEF CursorsInv
        <2>. QED BY <2>1, <2>2
    <1>. QED BY <1>2, <1>3

-----------------------------------------------------------------------------
(***************************************************************************)
(* One page more.                                                           *)
(***************************************************************************)
SeriesRecord(b) ==
    /\ b \in [status : {"none", "open", "done"}, reader : Reader, query : Query, recorded : 0 .. seq,
              owed : SUBSET (1 .. seq), pages : {b.pages}, token : Token \cup {None}]
    /\ b.pages \in Seq(Range(b.pages))

Before(b, v, w, exact) == Precedes(b.query, Key(v, exact), Key(w, exact))

\* A series that waits for the page behind after: that page finds what is owed
\* and was not shown, and nothing that was shown comes behind what it finds.
Awaits(b, exact, after) ==
    /\ SeriesRecord(b) /\ Owes(b, exact) /\ Disjoint(b)
    /\ \A i \in DOMAIN b.pages : b.pages[i].ids # {}
    /\ Exact(b.reader, b.recorded, b.query, after) = exact
    /\ IF after = None THEN b.pages = <<>> ELSE Pinned(b)
    /\ Candidates(b.reader, b.recorded, b.query, after) = {v \in versions : v.id \in b.owed \ ShownOf(b)}
    /\ \A v, w \in versions : v.id \in ShownOf(b) /\ w.id \in b.owed \ ShownOf(b) => Before(b, v, w, exact)

\* The answer: its rows, what it pins, and where the next page goes on.
Answer(b, s, exact, after, shown, more) ==
    /\ s.reader = b.reader /\ s.query = b.query /\ s.recorded = b.recorded /\ s.owed = b.owed
    /\ s.status = IF more THEN "open" ELSE "done"
    /\ s.token = IF more THEN Fresh ELSE None
    /\ DOMAIN s.pages = 1 .. Len(b.pages) + 1 /\ Len(s.pages) = Len(b.pages) + 1
    /\ \A i \in DOMAIN b.pages : s.pages[i] = b.pages[i]
    /\ s.pages[Len(b.pages) + 1].ids = {v.id : v \in shown}
    /\ s.pages[Len(b.pages) + 1].asOf = Pin(b.query, b.recorded, more, after)
    /\ s.pages \in Seq(Range(s.pages))
    /\ s \in [status : {"none", "open", "done"}, reader : Reader, query : Query, recorded : 0 .. seq,
              owed : SUBSET (1 .. seq), pages : {s.pages}, token : Token \cup {None}]

LEMMA AppendsPage ==
    ASSUME NEW p, p \in Seq(Range(p)), NEW page
    PROVE  LET s == Append(p, page)
           IN  /\ DOMAIN s = 1 .. Len(p) + 1 /\ Len(s) = Len(p) + 1 /\ Len(p) \in Nat
               /\ DOMAIN p = 1 .. Len(p)
               /\ \A i \in DOMAIN p : s[i] = p[i]
               /\ s[Len(p) + 1] = page
               /\ s \in Seq(Range(s))
    <1>. DEFINE s == Append(p, page)
                R == Range(p) \cup {page}
    <1>1. p \in Seq(R) /\ page \in R
        OBVIOUS
    <1>2. /\ DOMAIN s = 1 .. Len(p) + 1 /\ Len(s) = Len(p) + 1 /\ Len(p) \in Nat
          /\ DOMAIN p = 1 .. Len(p)
          /\ \A i \in DOMAIN p : s[i] = p[i]
          /\ s[Len(p) + 1] = page
        <2>. HIDE DEF R
        <2>. QED BY <1>1
    <1>3. s \in Seq(Range(s))
        <2>1. \A i \in 1 .. Len(s) : s[i] \in Range(s)
            <3>. HIDE DEF s
            <3>. QED BY <1>2 DEF Range
        <2>2. s = [i \in 1 .. Len(s) |-> s[i]]
            <3>. HIDE DEF R
            <3>1. s \in Seq(R)
                BY <1>1
            <3>. HIDE DEF s
            <3>. QED BY <3>1
        <2>. HIDE DEF s
        <2>3. Len(s) \in Nat
            BY <1>2
        <2>. QED BY <2>1, <2>2, <2>3
    <1>. QED BY <1>2, <1>3

LEMMA ServeAnswers ==
    ASSUME TypesInv, NEW b, NEW exact \in BOOLEAN, NEW after, Awaits(b, exact, after),
           NEW count, NEW lost \in BOOLEAN, Serve(b, b.query, b.recorded, after, count, lost)
    PROVE  LET found == Candidates(b.reader, b.recorded, b.query, after)
               shown == Packed(b.query, found, exact, count)
               more == shown # found
           IN  /\ UNCHANGED <<seq, versions>>
               /\ cursors' = IF ~more THEN cursors
                             ELSE Issue([token |-> Fresh, reader |-> b.reader, query |-> b.query, recorded |-> b.recorded,
                                         after |-> After(b.query, found, shown, exact)])
               /\ IF lost THEN series' = series ELSE Answer(b, series', exact, after, shown, more)
    <1>. DEFINE found == Candidates(b.reader, b.recorded, b.query, after)
                shown == Packed(b.query, found, exact, count)
                more == shown # found
                ids == {v.id : v \in shown}
                dispute == [i \in ids |-> Dispute(CHOOSE v \in shown : v.id = i, b.reader, b.recorded, b.query)]
                page == [ids |-> ids, dispute |-> dispute, asOf |-> Pin(b.query, b.recorded, more, after),
                         partial |-> Partial(b.query, more, ids, dispute)]
    <1>1. Exact(b.reader, b.recorded, b.query, after) = exact
        BY DEF Awaits
    <1>2. /\ UNCHANGED <<seq, versions>>
          /\ cursors' = IF ~more THEN cursors
                        ELSE Issue([token |-> Fresh, reader |-> b.reader, query |-> b.query, recorded |-> b.recorded,
                                    after |-> After(b.query, found, shown, exact)])
          /\ series' = IF lost THEN series
                       ELSE [b EXCEPT !.status = IF more THEN "open" ELSE "done",
                                      !.pages = Append(@, page),
                                      !.token = IF more THEN Fresh ELSE None]
        BY <1>1 DEF Serve
    <1>3. page.ids = ids /\ page.asOf = Pin(b.query, b.recorded, more, after)
        OBVIOUS
    <1>4. ASSUME ~lost PROVE Answer(b, series', exact, after, shown, more)
        <2>. DEFINE s == series'
        <2>1. SeriesRecord(b)
            BY DEF Awaits
        <2>2. Fresh \in Token
            BY FreshIsFree DEF TypesInv
        <2>. HIDE DEF page, shown, found, more, ids
        <2>3. s = [b EXCEPT !.status = IF more THEN "open" ELSE "done",
                            !.pages = Append(@, page), !.token = IF more THEN Fresh ELSE None]
            BY <1>2, <1>4
        <2>4. /\ s.reader = b.reader /\ s.query = b.query /\ s.recorded = b.recorded /\ s.owed = b.owed
              /\ s.status = IF more THEN "open" ELSE "done"
              /\ s.token = IF more THEN Fresh ELSE None
              /\ s.pages = Append(b.pages, page)
            BY <2>1, <2>3 DEF SeriesRecord
        <2>5. s \in [status : {"none", "open", "done"}, reader : Reader, query : Query, recorded : 0 .. seq,
                     owed : SUBSET (1 .. seq), pages : {s.pages}, token : Token \cup {None}]
            BY <2>1, <2>2, <2>3, <2>4 DEF SeriesRecord
        <2>6. /\ DOMAIN s.pages = 1 .. Len(b.pages) + 1 /\ Len(s.pages) = Len(b.pages) + 1
              /\ \A i \in DOMAIN b.pages : s.pages[i] = b.pages[i]
              /\ s.pages[Len(b.pages) + 1] = page
              /\ s.pages \in Seq(Range(s.pages))
            BY <2>1, <2>4, AppendsPage DEF SeriesRecord
        <2>. HIDE DEF s
        <2>7. Answer(b, s, exact, after, shown, more)
            BY <1>3, <2>4, <2>5, <2>6 DEF Answer, ids
        <2>. QED BY <2>7 DEF s
    <1>. QED BY <1>2, <1>4

\* What a step may do to the cursors: lose some, and add one under a token that
\* is not in use and is bound to what it continues.
Keeps(new) ==
    /\ new \in Seq(Cursor) /\ Len(new) <= MaxCursors
    /\ \A i, j \in DOMAIN new : new[i].token = new[j].token => i = j

LEMMA ServeCursors ==
    ASSUME TypesInv, NEW b, NEW exact \in BOOLEAN, NEW after, Awaits(b, exact, after),
           NEW shown \in SUBSET versions, NEW row \in shown,
           NEW c, c = [token |-> Fresh, reader |-> b.reader, query |-> b.query, recorded |-> b.recorded,
                       after |-> Key(row, exact)],
           cursors' = Issue(c)
    PROVE  /\ c \in Cursor
           /\ CursorsInv'
           /\ Range(cursors)' \subseteq Range(cursors) \cup {c}
    <1>1. Key(row, exact) \in [rank : Nat, id : 1 .. MaxSeq]
        <2>1. row \in Version /\ versions \subseteq Version
            BY DEF TypesInv, VersionsInv
        <2>2. Key(row, exact) \in Keys /\ Key(row, exact).id = row.id
            BY <2>1, KeysOfRows
        <2>3. row.id \in 1 .. MaxSeq
            BY <2>1 DEF Version
        <2>. QED BY <2>2, <2>3 DEF Keys
    <1>2. Fresh \in Token /\ \A x \in Range(cursors) : x.token # Fresh
        BY FreshIsFree DEF TypesInv
    <1>3. b.reader \in Reader /\ b.query \in Query /\ b.recorded \in 0 .. MaxSeq
        <2>1. seq \in 0 .. MaxSeq /\ MaxSeq \in Nat
            BY PagesAssumption DEF TypesInv
        <2>. QED BY <2>1 DEF Awaits, SeriesRecord
    <1>4. c \in Cursor /\ c.token = Fresh
        BY <1>1, <1>2, <1>3 DEF Cursor
    <1>5. LET new == Issue(c)
          IN  /\ new \in Seq(Cursor) /\ Len(new) <= MaxCursors
              /\ \A i, j \in DOMAIN new : new[i].token = new[j].token => i = j
              /\ Range(new) \subseteq Range(cursors) \cup {c}
        <2>1. \A x \in Range(cursors) : x.token # c.token
            BY <1>2, <1>4
        <2>2. CursorsInv
            BY DEF TypesInv
        <2>. QED BY <1>4, <2>1, <2>2, Issued
    <1>. QED BY <1>4, <1>5 DEF CursorsInv, Range

\* What the series has after the answer.
LEMMA ShownAfter ==
    ASSUME NEW b, NEW s, NEW exact, NEW after, NEW shown, NEW more, Answer(b, s, exact, after, shown, more),
           b.pages \in Seq(Range(b.pages))
    PROVE  ShownOf(s) = ShownOf(b) \cup {v.id : v \in shown}
    <1>1. DOMAIN b.pages = 1 .. Len(b.pages) /\ Len(b.pages) \in Nat
        OBVIOUS
    <1>2. DOMAIN s.pages = (DOMAIN b.pages) \cup {Len(b.pages) + 1}
        BY <1>1 DEF Answer
    <1>. QED BY <1>2, SMTT(30) DEF Answer, ShownOf

LEMMA AnswerFollows ==
    ASSUME TypesInv, NEW b, NEW exact \in BOOLEAN, NEW after, Awaits(b, exact, after),
           NEW count \in Nat \ {0}, Serve(b, b.query, b.recorded, after, count, FALSE)
    PROVE  /\ series'.status # "none" /\ Follows(series, exact)'
           /\ TypesInv'
    <1>. DEFINE q == b.query
                found == Candidates(b.reader, b.recorded, q, after)
                shown == Packed(q, found, exact, count)
                more == shown # found
                s == series'
                c == [token |-> Fresh, reader |-> b.reader, query |-> q, recorded |-> b.recorded,
                      after |-> After(q, found, shown, exact)]
    <1>1. /\ UNCHANGED <<seq, versions>>
          /\ cursors' = IF ~more THEN cursors ELSE Issue(c)
          /\ Answer(b, s, exact, after, shown, more)
        BY ServeAnswers
    <1>2. found \in SUBSET versions
        BY DEF Candidates
    <1>3. /\ shown \subseteq found
          /\ \A v \in shown, w \in found : Precedes(q, Key(w, exact), Key(v, exact)) => w \in shown
          /\ found # {} => shown # {}
        <2>. HIDE DEF found
        <2>. QED BY <1>2, FirstRows DEF TypesInv
    <1>4. found = {v \in versions : v.id \in b.owed \ ShownOf(b)}
        BY DEF Awaits
    <1>5. SeriesRecord(b) /\ Owes(b, exact) /\ Disjoint(b) /\ \A i \in DOMAIN b.pages : b.pages[i].ids # {}
        BY DEF Awaits
    <1>6. ShownOf(s) = ShownOf(b) \cup {v.id : v \in shown}
        BY <1>1, <1>5, ShownAfter DEF SeriesRecord
    <1>7. \A v, w \in versions : v.id = w.id => v = w
        BY DEF TypesInv, VersionsInv
    <1>8. more => \E row \in shown :
             /\ c.after = Key(row, exact)
             /\ \A w \in found : w \in shown <=> ~Precedes(q, Key(row, exact), Key(w, exact))
        <2>. HIDE DEF found, shown
        <2>1. SUFFICES ASSUME more PROVE \E row \in shown :
             /\ After(q, found, shown, exact) = Key(row, exact)
             /\ \A w \in found : w \in shown <=> ~Precedes(q, Key(row, exact), Key(w, exact))
            OBVIOUS
        <2>. QED BY <1>2, <1>3, <2>1, GoesOnBehind DEF TypesInv
    <1>9. more => CursorsInv' /\ Range(cursors)' \subseteq Range(cursors) \cup {c}
        <2>. HIDE DEF found, shown
        <2>1. SUFFICES ASSUME more PROVE CursorsInv' /\ Range(cursors)' \subseteq Range(cursors) \cup {c}
            OBVIOUS
        <2>2. PICK row \in shown : c.after = Key(row, exact)
            BY <1>8, <2>1
        <2>3. shown \in SUBSET versions /\ c = [token |-> Fresh, reader |-> b.reader, query |-> q, recorded |-> b.recorded,
                      after |-> Key(row, exact)] /\ cursors' = Issue(c)
            BY <1>1, <1>2, <1>3, <2>1, <2>2
        <2>. HIDE DEF c
        <2>. QED BY <2>3, ServeCursors
    <1>10. ~more => CursorsInv' /\ Range(cursors)' = Range(cursors)
        BY <1>1 DEF CursorsInv, Range, TypesInv
    <1>. HIDE DEF found, shown, more, c
    <1>11. TypesInv'
        <2>1. VersionsInv' /\ seq' \in 0 .. MaxSeq
            BY <1>1 DEF TypesInv, VersionsInv
        <2>2. SeriesType'
            <3>1. Query \subseteq Query \cup {None}
                OBVIOUS
            <3>. QED BY <1>1, <3>1 DEF SeriesType, Answer
        <2>. QED BY <1>9, <1>10, <2>1, <2>2 DEF TypesInv
    <1>12. Owes(series, exact)'
        BY <1>1, <1>5 DEF Owes, Answer, Selects, Eligible, Matches
    <1>13. Disjoint(series)'
        <2>. DEFINE n == Len(b.pages)
        <2>1. DOMAIN b.pages = 1 .. n /\ n \in Nat
            BY <1>5 DEF SeriesRecord
        <2>2. \A i \in DOMAIN s.pages : i \in DOMAIN b.pages \/ i = n + 1
            BY <1>1, <2>1 DEF Answer
        <2>3. \A i \in DOMAIN b.pages : b.pages[i].ids \subseteq ShownOf(b)
            BY DEF ShownOf
        <2>4. {v.id : v \in shown} \cap ShownOf(b) = {} /\ {v.id : v \in shown} \subseteq b.owed
            BY <1>3, <1>4
        <2>5. \A i \in DOMAIN b.pages : s.pages[i].ids = b.pages[i].ids
            BY <1>1 DEF Answer
        <2>6. s.pages[n + 1].ids = {v.id : v \in shown} /\ s.owed = b.owed
            BY <1>1 DEF Answer
        <2>7. \A i, j \in DOMAIN s.pages : i # j => s.pages[i].ids \cap s.pages[j].ids = {}
            <3>. HIDE DEF n, s
            <3>. QED BY <1>5, <2>2, <2>3, <2>4, <2>5, <2>6 DEF Disjoint
        <2>8. ShownOf(s) \subseteq s.owed
            BY <1>5, <1>6, <2>4, <2>6 DEF Disjoint
        <2>. QED BY <2>7, <2>8 DEF Disjoint, ShownOf
    <1>14. ASSUME s.status = "open"
           PROVE  \A i \in DOMAIN s.pages : s.pages[i].ids # {}
        <2>1. more
            BY <1>1, <1>14 DEF Answer
        <2>2. shown # {}
            BY <1>8, <2>1
        <2>3. \A i \in DOMAIN s.pages : i \in DOMAIN b.pages \/ i = Len(b.pages) + 1
            BY <1>1, <1>5 DEF Answer, SeriesRecord
        <2>4. \A i \in DOMAIN b.pages : s.pages[i].ids # {}
            BY <1>1, <1>5 DEF Answer
        <2>5. {v.id : v \in shown} # {}
            BY <2>2
        <2>6. s.pages[Len(b.pages) + 1].ids # {}
            BY <1>1, <2>5 DEF Answer
        <2>. HIDE DEF s
        <2>. QED BY <2>3, <2>4, <2>6
    <1>15. ASSUME s.status = "open", NEW d \in Range(cursors)', d.token = s.token
           PROVE  Continues(series, exact, d)'
        <2>1. more /\ s.token = Fresh
            BY <1>1, <1>15 DEF Answer
        <2>2. \A x \in Range(cursors) : x.token # Fresh
            BY FreshIsFree DEF TypesInv
        <2>3. d = c
            BY <1>9, <1>15, <2>1, <2>2
        <2>4. PICK row \in shown : /\ c.after = Key(row, exact)
                                   /\ \A w \in found : w \in shown <=> ~Precedes(q, Key(row, exact), Key(w, exact))
            BY <1>8, <2>1
        <2>5. d.reader = s.reader /\ d.query = s.query /\ d.recorded = s.recorded
            BY <1>1, <2>3 DEF Answer, c
        <2>6. row \in versions /\ row \in found
            BY <1>2, <1>3
        <2>7. (d.after.rank = 0) = exact
            <3>1. Matches(row, q, exact)
                BY <2>6 DEF found, Candidates, Awaits
            <3>2. row.claim \in Claim /\ (~exact => row.claim.score > 0 /\ row.claim.score \in Nat)
                BY <2>6, <3>1, PagesAssumption DEF Matches, TypesInv, VersionsInv, Version
            <3>3. d.after.rank = IF exact THEN 0 ELSE row.claim.score
                BY <2>3, <2>4 DEF Key, Rank
            <3>. QED BY <3>2, <3>3
        <2>8. ASSUME NEW v \in versions, v.id \in b.owed
              PROVE  v.id \in ShownOf(s) <=> ~Precedes(q, Key(row, exact), Key(v, exact))
            <3>1. CASE v.id \in ShownOf(b)
                <4>1. Precedes(q, Key(v, exact), Key(row, exact))
                    BY <1>4, <2>6, <2>8, <3>1 DEF Awaits, Before
                <4>2. Key(v, exact) \in Keys /\ Key(row, exact) \in Keys
                    BY <2>6, KeysOfRows DEF TypesInv, VersionsInv
                <4>3. ~Precedes(q, Key(row, exact), Key(v, exact))
                    BY <4>1, <4>2, Order
                <4>. QED BY <3>1, <4>3, <1>6
            <3>2. CASE v.id \notin ShownOf(b)
                <4>1. v \in found
                    BY <1>4, <2>8, <3>2
                <4>2. v.id \in ShownOf(s) <=> v \in shown
                    BY <1>2, <1>3, <1>6, <1>7, <3>2, <4>1
                <4>. QED BY <2>4, <4>1, <4>2
            <3>. QED BY <3>1, <3>2
        <2>9. s.owed = b.owed /\ s.query = q /\ d.after = Key(row, exact) /\ versions' = versions
            BY <1>1, <2>3, <2>4 DEF Answer
        <2>10. \A v \in versions : v.id \in s.owed => (v.id \in ShownOf(s) <=> ~Precedes(s.query, d.after, Key(v, exact)))
            BY <2>8, <2>9
        <2>. QED BY <2>5, <2>7, <2>9, <2>10 DEF Continues, ShownOf
    <1>16. ASSUME s.status = "done"
           PROVE  (Rows(series.owed) \subseteq Rows(ShownOf(series)))'
        <2>1. shown = found
            BY <1>1, <1>16 DEF Answer, more
        <2>2. \A v \in versions : v.id \in s.owed => v.id \in ShownOf(s)
            BY <1>1, <1>4, <1>6, <2>1 DEF Answer
        <2>. QED BY <1>1, <2>2 DEF Rows, ShownOf
    <1>17. ASSUME Len(s.pages) > 1 \/ s.status = "open"
           PROVE  Pinned(s)
        <2>1. SUFFICES ASSUME q.op # "show" PROVE \A i \in DOMAIN s.pages : s.pages[i].asOf = s.recorded
            BY <1>1 DEF Pinned, Answer
        <2>2. more \/ after # None
            <3>1. Len(s.pages) = Len(b.pages) + 1 /\ Len(b.pages) \in Nat
                BY <1>1, <1>5 DEF Answer, SeriesRecord
            <3>2. after = None => Len(b.pages) = 0
                BY DEF Awaits
            <3>. QED BY <1>1, <1>17, <3>1, <3>2 DEF Answer
        <2>3. s.pages[Len(b.pages) + 1].asOf = b.recorded /\ s.recorded = b.recorded
            BY <1>1, <2>1, <2>2 DEF Answer, Pin
        <2>4. \A i \in DOMAIN b.pages : s.pages[i] = b.pages[i] /\ b.pages[i].asOf = b.recorded
            BY <1>1, <2>1 DEF Answer, Awaits, Pinned
        <2>5. \A i \in DOMAIN s.pages : i \in DOMAIN b.pages \/ i = Len(b.pages) + 1
            BY <1>1, <1>5 DEF Answer, SeriesRecord
        <2>. QED BY <2>3, <2>4, <2>5
    <1>18. s.status # "none"
        BY <1>1 DEF Answer
    <1>. HIDE DEF s, q
    <1>19. Follows(series, exact)'
        BY <1>12, <1>13, <1>14, <1>15, <1>16, <1>17 DEF Follows, s, ShownOf, Pinned
    <1>. QED BY <1>11, <1>18, <1>19 DEF s

\* Whatever becomes of the ledger, what a series follows stays so: rows that its
\* snapshot selects may be retired later or forgotten, and none is added.
SameRow(v, w) ==
    /\ w.id = v.id /\ w.claim = v.claim
    /\ w.retired = v.retired \/ (v.retired = NULL /\ w.retired \in Nat /\ w.retired > seq)

LEMMA LedgerFollows ==
    ASSUME TypesInv, NEW exact \in BOOLEAN, Follows(series, exact),
           UNCHANGED <<cursors, series>>,
           \A w \in versions' : (w.id \in Nat /\ w.id > seq) \/ \E v \in versions : SameRow(v, w)
    PROVE  Follows(series, exact)'
    <1>. DEFINE s == series
    <1>1. s.recorded \in 0 .. seq /\ seq \in Nat /\ versions \subseteq Version
        BY PagesAssumption DEF TypesInv, SeriesType, VersionsInv
    <1>2. \A i \in s.owed : i <= s.recorded /\ i \in Nat /\ i <= seq
        BY <1>1 DEF Follows, Owes, TypesInv, SeriesType
    <1>3. ASSUME NEW w \in versions', NEW v \in versions, SameRow(v, w)
          PROVE  /\ w.id = v.id /\ Key(w, exact) = Key(v, exact)
                 /\ Selects(s, exact, w) <=> Selects(s, exact, v)
        <2>1. v.retired \in Nat /\ v.id \in Nat
            BY <1>1 DEF Version
        <2>2. Eligible(w, s.reader, s.recorded, s.query) <=> Eligible(v, s.reader, s.recorded, s.query)
            <3>1. w.retired = NULL \/ w.retired > s.recorded <=> v.retired = NULL \/ v.retired > s.recorded
                <4>1. \A n, k \in Nat : \A m \in 0 .. k : n > k => n > m /\ n # 0
                    OBVIOUS
                <4>. HIDE DEF s
                <4>. QED BY <1>1, <1>3, <2>1, <4>1 DEF SameRow, NULL
            <3>. QED BY <1>3, <3>1 DEF SameRow, Eligible
        <2>3. Matches(w, s.query, exact) <=> Matches(v, s.query, exact)
            BY <1>3 DEF SameRow, Matches
        <2>. QED BY <1>3, <2>2, <2>3 DEF SameRow, Selects, Key, Rank
    <1>4. ASSUME NEW w \in versions', w.id \in Nat, w.id > seq
          PROVE  w.id \notin s.owed /\ ~Selects(s, exact, w)
        <2>1. ~(w.id <= s.recorded)
            <3>1. \A n, k \in Nat : \A m \in 0 .. k : n > k => ~(n <= m)
                OBVIOUS
            <3>. HIDE DEF s
            <3>. QED BY <1>1, <1>4, <3>1
        <2>2. \A i \in s.owed : i <= s.recorded
            BY <1>2
        <2>. QED BY <2>1, <2>2 DEF Selects, Eligible
    <1>5. Owes(series, exact)'
        <2>1. \A w \in versions' : w.id \in s.owed <=> Selects(s, exact, w)
            <3>. HIDE DEF s
            <3>. QED BY <1>3, <1>4 DEF Follows, Owes, s
        <2>. QED BY <2>1 DEF Follows, Owes, Selects, Eligible, Matches
    <1>6. ASSUME s.status = "open", NEW c \in Range(cursors), c.token = s.token
          PROVE  Continues(series, exact, c)'
        <2>1. Continues(s, exact, c)
            BY <1>6 DEF Follows
        <2>2. \A w \in versions' : w.id \in s.owed => (w.id \in ShownOf(s) <=> ~Precedes(s.query, c.after, Key(w, exact)))
            <3>. HIDE DEF s
            <3>. QED BY <1>3, <1>4, <2>1 DEF Continues
        <2>. QED BY <2>1, <2>2 DEF Continues, ShownOf
    <1>7. s.status = "done" => (Rows(series.owed) \subseteq Rows(ShownOf(series)))'
        <2>1. SUFFICES ASSUME s.status = "done" PROVE \A w \in versions' : w.id \in s.owed => w.id \in ShownOf(s)
            BY DEF Rows, ShownOf
        <2>2. \A v \in versions : v.id \in s.owed => v.id \in ShownOf(s)
            BY <2>1 DEF Follows, Rows
        <2>. HIDE DEF s
        <2>. QED BY <1>3, <1>4, <2>2
    <1>. QED BY <1>5, <1>6, <1>7 DEF Follows, Disjoint, ShownOf, Pinned, Range

\* Every row after the step is a new one or one from before, and every row from
\* before is kept, unless its thread was forgotten.
RowsKept ==
    /\ Recorded /\ UNCHANGED series /\ VersionsInv'
    /\ \A w \in versions' : (w.id \in Nat /\ w.id > seq) \/ \E v \in versions : SameRow(v, w)
    /\ \A v \in versions : \/ \E w \in versions' : SameRow(v, w)
                           \/ \A w \in versions' : w.id <= seq => w.claim.thread # v.claim.thread

LEMMA LedgerKeeps ==
    ASSUME PagesInv, RowsKept
    PROVE  PagesInv'
    <1>. USE DEF RowsKept
    <1>1. seq \in Nat /\ MaxSeq \in Nat /\ seq < MaxSeq /\ seq' = seq + 1
        BY PagesAssumption DEF PagesInv, TypesInv, Recorded
    <1>2. seq' \in 0 .. MaxSeq /\ 0 .. seq \subseteq 0 .. seq' /\ 1 .. seq \subseteq 1 .. seq'
        BY <1>1
    <1>3. CursorsInv'
        BY DEF PagesInv, TypesInv, CursorsInv, Recorded
    <1>4. SeriesType'
        <2>1. SeriesType /\ SUBSET (1 .. seq) \subseteq SUBSET (1 .. seq')
            BY <1>2 DEF PagesInv, TypesInv
        <2>. QED BY <1>2, <2>1 DEF SeriesType
    <1>5. SeriesInv'
        <2>1. CASE series.status = "none"
            BY <2>1 DEF PagesInv, SeriesInv, Blank
        <2>2. ASSUME series.status # "none" PROVE SeriesInv'
            <3>1. PICK exact \in BOOLEAN : Follows(series, exact)
                BY <2>2 DEF PagesInv, SeriesInv
            <3>2. Follows(series, exact)'
                <4>1. TypesInv /\ UNCHANGED <<cursors, series>>
                    BY DEF PagesInv, Recorded
                <4>. QED BY <3>1, <4>1, LedgerFollows
            <3>3. (\E e \in BOOLEAN : Follows(series, e))'
                BY <3>2
            <3>. QED BY <2>2, <3>3 DEF SeriesInv
        <2>. QED BY <2>1, <2>2
    <1>. QED BY <1>2, <1>3, <1>4, <1>5 DEF PagesInv, TypesInv

LEMMA LedgerRows == PagesInv /\ Ledger => RowsKept
    <1>. SUFFICES ASSUME PagesInv, Ledger PROVE RowsKept
        OBVIOUS
    <1>1. VersionsInv /\ seq \in Nat /\ MaxSeq \in Nat
        BY PagesAssumption DEF PagesInv, TypesInv
    <1>2. \A v \in versions : v \in Version /\ v.id \in 1 .. MaxSeq /\ v.claim \in Claim /\ v.retired \in Nat
        BY <1>1 DEF VersionsInv, Version
    <1>3. ASSUME NEW claim \in Claim, Remember(claim) PROVE RowsKept
        <2>. DEFINE new == [id |-> seq', claim |-> claim, retired |-> NULL]
        <2>1. seq' = seq + 1 /\ seq' \in 1 .. MaxSeq /\ seq' > seq
            BY <1>1, <1>3 DEF Remember, Recorded
        <2>2. versions' = versions \cup {new} /\ new \in Version /\ new.id = seq'
            BY <1>1, <1>3, <2>1 DEF Remember, Version, NULL
        <2>3. IsFiniteSet(versions')
            BY <1>1, <2>2, FS_AddElement DEF VersionsInv
        <2>. HIDE DEF new
        <2>4. \A v \in versions : v.id <= seq /\ v.id <= seq' /\ v.id # seq'
            BY <1>1, <1>2, <2>1 DEF VersionsInv
        <2>5. VersionsInv'
            BY <1>1, <2>1, <2>2, <2>3, <2>4 DEF VersionsInv
        <2>6. \A w \in versions' : (w.id \in Nat /\ w.id > seq) \/ \E v \in versions : SameRow(v, w)
            BY <1>1, <2>1, <2>2 DEF SameRow
        <2>7. \A v \in versions : \E w \in versions' : SameRow(v, w)
            BY <2>2 DEF SameRow
        <2>. QED BY <1>3, <2>5, <2>6, <2>7 DEF Remember, RowsKept
    <1>4. ASSUME NEW v \in versions, NEW claim \in Claim, Correct(v, claim) PROVE RowsKept
        <2>. DEFINE new == [id |-> seq', claim |-> claim, retired |-> NULL]
                    old == [v EXCEPT !.retired = seq']
        <2>1. seq' = seq + 1 /\ seq' \in 1 .. MaxSeq /\ seq' > seq /\ seq' \in Nat /\ seq' \in 0 .. MaxSeq
            BY <1>1, <1>4 DEF Correct, Recorded
        <2>2. new \in Version /\ new.id = seq' /\ versions' = (versions \ {v}) \cup {old, new}
            BY <1>1, <1>4, <2>1 DEF Correct, Version, NULL
        <2>3. old \in Version /\ old.id = v.id /\ old.claim = v.claim /\ old.retired = seq' /\ v.retired = NULL
            BY <1>2, <1>4, <2>1 DEF Version, Correct
        <2>4. IsFiniteSet(versions')
            <3>. HIDE DEF old, new
            <3>1. IsFiniteSet(versions \ {v})
                BY <1>1, FS_RemoveElement DEF VersionsInv
            <3>2. IsFiniteSet((versions \ {v}) \cup {old})
                BY <3>1, FS_AddElement
            <3>3. IsFiniteSet(((versions \ {v}) \cup {old}) \cup {new})
                BY <3>2, FS_AddElement
            <3>4. versions' = ((versions \ {v}) \cup {old}) \cup {new}
                BY <2>2
            <3>. QED BY <3>3, <3>4
        <2>. HIDE DEF new, old
        <2>5. \A x \in versions : x.id <= seq /\ x.id <= seq' /\ x.id # seq'
            BY <1>1, <1>2, <2>1 DEF VersionsInv
        <2>6. VersionsInv'
            <3>1. versions' \subseteq Version /\ \A x \in versions' : x.id <= seq'
                BY <1>1, <1>2, <2>1, <2>2, <2>3, <2>5
            <3>2. \A x, y \in versions' : x.id = y.id => x = y
                BY <1>1, <2>2, <2>3, <2>5 DEF VersionsInv
            <3>. QED BY <2>4, <3>1, <3>2 DEF VersionsInv
        <2>7. \A w \in versions' : (w.id \in Nat /\ w.id > seq) \/ \E x \in versions : SameRow(x, w)
            <3>1. SameRow(v, old)
                BY <2>1, <2>3 DEF SameRow
            <3>2. \A x \in versions : SameRow(x, x)
                BY DEF SameRow
            <3>. QED BY <2>1, <2>2, <3>1, <3>2
        <2>8. \A x \in versions : \E w \in versions' : SameRow(x, w)
            <3>1. SameRow(v, old)
                BY <2>1, <2>3 DEF SameRow
            <3>2. \A x \in versions : SameRow(x, x)
                BY DEF SameRow
            <3>. QED BY <2>2, <3>1, <3>2
        <2>. QED BY <1>4, <2>6, <2>7, <2>8 DEF Correct, RowsKept
    <1>5. ASSUME NEW v \in versions, ExpireDue(v) PROVE RowsKept
        <2>. DEFINE old == [v EXCEPT !.retired = seq']
        <2>1. seq' = seq + 1 /\ seq' > seq /\ seq' \in Nat /\ seq' \in 0 .. MaxSeq
            BY <1>1, <1>5 DEF ExpireDue, Recorded
        <2>2. versions' = (versions \ {v}) \cup {old}
            BY <1>5 DEF ExpireDue
        <2>3. old \in Version /\ old.id = v.id /\ old.claim = v.claim /\ old.retired = seq' /\ v.retired = NULL
            BY <1>2, <1>5, <2>1 DEF Version, ExpireDue
        <2>4. IsFiniteSet(versions')
            <3>. HIDE DEF old
            <3>1. IsFiniteSet(versions \ {v})
                BY <1>1, FS_RemoveElement DEF VersionsInv
            <3>. QED BY <2>2, <3>1, FS_AddElement
        <2>. HIDE DEF old
        <2>5. \A x \in versions : x.id <= seq /\ x.id <= seq'
            BY <1>1, <1>2, <2>1 DEF VersionsInv
        <2>6. VersionsInv'
            <3>1. versions' \subseteq Version /\ \A x \in versions' : x.id <= seq'
                BY <1>1, <1>2, <2>1, <2>2, <2>3, <2>5
            <3>2. \A x, y \in versions' : x.id = y.id => x = y
                BY <1>1, <2>2, <2>3 DEF VersionsInv
            <3>. QED BY <2>4, <3>1, <3>2 DEF VersionsInv
        <2>7. \A w \in versions' : (w.id \in Nat /\ w.id > seq) \/ \E x \in versions : SameRow(x, w)
            <3>1. SameRow(v, old)
                BY <2>1, <2>3 DEF SameRow
            <3>2. \A x \in versions : SameRow(x, x)
                BY DEF SameRow
            <3>. QED BY <2>2, <3>1, <3>2
        <2>8. \A x \in versions : \E w \in versions' : SameRow(x, w)
            <3>1. SameRow(v, old)
                BY <2>1, <2>3 DEF SameRow
            <3>2. \A x \in versions : SameRow(x, x)
                BY DEF SameRow
            <3>. QED BY <2>2, <3>1, <3>2
        <2>. QED BY <1>5, <2>6, <2>7, <2>8 DEF ExpireDue, RowsKept
    <1>6. ASSUME NEW thread, Forget(thread) PROVE RowsKept
        <2>1. versions' \subseteq versions /\ seq' = seq + 1
            BY <1>6 DEF Forget, Recorded
        <2>2. IsFiniteSet(versions')
            BY <1>1, <2>1, FS_Subset DEF VersionsInv
        <2>3. \A x \in versions : x.id <= seq'
            BY <1>1, <1>2, <2>1 DEF VersionsInv
        <2>4. VersionsInv'
            BY <1>1, <2>1, <2>2, <2>3 DEF VersionsInv
        <2>5. \A w \in versions' : \E x \in versions : SameRow(x, w)
            BY <2>1 DEF SameRow
        <2>6. ASSUME NEW v \in versions
              PROVE  \/ \E w \in versions' : SameRow(v, w)
                     \/ \A w \in versions' : w.claim.thread # v.claim.thread
            <3>1. SameRow(v, v)
                BY DEF SameRow
            <3>2. CASE v.claim.thread = thread
                BY <1>6, <3>2 DEF Forget
            <3>3. CASE v.claim.thread # thread
                BY <1>6, <3>1, <3>3 DEF Forget
            <3>. QED BY <3>2, <3>3
        <2>. QED BY <1>6, <2>4, <2>5, <2>6 DEF Forget, RowsKept
    <1>. QED BY <1>3, <1>4, <1>5, <1>6 DEF Ledger

LEMMA NoPages == <<>> \in Seq(Range(<<>>))
    <1>1. \A S : << >> \in Seq(S)
        OBVIOUS
    <1>. QED BY <1>1

LEMMA BlankTyped ==
    ASSUME seq \in Nat
    PROVE  /\ Blank \in [status : {"none", "open", "done"}, reader : Reader, query : Query \cup {None},
                         recorded : 0 .. seq, owed : SUBSET (1 .. seq), pages : {Blank.pages}, token : Token \cup {None}]
           /\ Blank.pages \in Seq(Range(Blank.pages))
    <1>1. Blank.pages = << >>
        BY DEF Blank
    <1>2. Blank.pages \in Seq(Range(Blank.pages))
        BY <1>1, NoPages
    <1>. QED BY <1>2, PagesAssumption DEF Blank

\* Cursors that are lost, and one for somebody else, leave the series where it is.
LEMMA CursorsLost ==
    ASSUME PagesInv, UNCHANGED <<seq, versions, series>>, CursorsInv',
           \A c \in Range(cursors)' : c \in Range(cursors) \/ c.token # series.token
    PROVE  PagesInv'
    <1>1. TypesInv'
        BY DEF PagesInv, TypesInv, VersionsInv, SeriesType
    <1>2. \A exact \in BOOLEAN : Follows(series, exact) => Follows(series, exact)'
        BY DEF Follows, Owes, Selects, Eligible, Matches, Disjoint, ShownOf, Pinned, Continues, Rows
    <1>. QED BY <1>1, <1>2 DEF PagesInv, SeriesInv, Blank

\* A new query waits for its first page ...
LEMMA FirstAwaits ==
    ASSUME TypesInv, NEW reader \in Reader, NEW q \in Query
    PROVE  LET exact == Exact(reader, seq, q, None)
               b == [Blank EXCEPT !.reader = reader, !.query = q, !.recorded = seq,
                                  !.owed = {v.id : v \in Candidates(reader, seq, q, None)}]
           IN  exact \in BOOLEAN /\ b.query = q /\ b.recorded = seq /\ Awaits(b, exact, None)
    <1>. DEFINE exact == Exact(reader, seq, q, None)
                found == Candidates(reader, seq, q, None)
                owed == {v.id : v \in found}
                b == [Blank EXCEPT !.reader = reader, !.query = q, !.recorded = seq, !.owed = owed]
    <1>1. /\ b.status = "none" /\ b.reader = reader /\ b.query = q /\ b.recorded = seq /\ b.owed = owed
          /\ b.pages = <<>> /\ b.token = None
        BY DEF Blank
    <1>2. exact \in BOOLEAN
        BY DEF Exact
    <1>3. \A v \in versions : v \in found <=> Eligible(v, reader, seq, q) /\ Matches(v, q, exact)
        BY DEF Candidates
    <1>4. found \subseteq versions
        BY DEF Candidates
    <1>5. owed \subseteq 1 .. seq
        <2>1. \A v \in versions : v.id \in 1 .. MaxSeq /\ v.id <= seq
            BY DEF TypesInv, VersionsInv, Version
        <2>2. seq \in Nat /\ MaxSeq \in Nat
            BY PagesAssumption DEF TypesInv
        <2>3. \A v \in versions : v.id \in 1 .. seq
            BY <2>1, <2>2
        <2>. HIDE DEF found
        <2>. QED BY <1>4, <2>3
    <1>6. \A v \in versions : v.id \in owed <=> v \in found
        <2>. HIDE DEF found
        <2>. QED BY <1>4 DEF TypesInv, VersionsInv
    <1>7. ShownOf(b) = {}
        BY <1>1 DEF ShownOf
    <1>8. SeriesRecord(b)
        <2>1. seq \in 0 .. seq
            BY PagesAssumption DEF TypesInv
        <2>2. b \in [status : {"none", "open", "done"}, reader : Reader, query : Query, recorded : 0 .. seq,
                     owed : SUBSET (1 .. seq), pages : {b.pages}, token : Token \cup {None}]
            <3>. HIDE DEF owed
            <3>. QED BY <1>5, <2>1 DEF Blank
        <2>3. b.pages \in Seq(Range(b.pages))
            <3>. HIDE DEF b
            <3>. QED BY <1>1, NoPages
        <2>. QED BY <2>2, <2>3 DEF SeriesRecord
    <1>. HIDE DEF b, exact, owed
    <1>9. Owes(b, exact)
        <2>1. \A i \in owed : i <= seq
            BY <1>5
        <2>. HIDE DEF found
        <2>. QED BY <1>1, <1>3, <1>6, <2>1 DEF Owes, Selects
    <1>10. Disjoint(b) /\ \A i \in DOMAIN b.pages : b.pages[i].ids # {}
        BY <1>1, <1>7 DEF Disjoint
    <1>11. Candidates(b.reader, b.recorded, b.query, None) = {v \in versions : v.id \in b.owed \ ShownOf(b)}
        BY <1>1, <1>4, <1>6, <1>7 DEF found
    <1>12. Awaits(b, exact, None)
        BY <1>1, <1>7, <1>8, <1>9, <1>10, <1>11 DEF Awaits, exact
    <1>. QED BY <1>1, <1>2, <1>12 DEF b, exact, owed

\* ... and an open one for the page behind its cursor.
LEMMA OpenAwaits ==
    ASSUME TypesInv, NEW exact \in BOOLEAN, Follows(series, exact), series.status = "open",
           NEW c \in Range(cursors), c.token = series.token
    PROVE  /\ c.query = series.query /\ c.recorded = series.recorded
           /\ c.after # None
           /\ Awaits(series, exact, c.after)
    <1>. DEFINE s == series
    <1>1. Continues(s, exact, c)
        BY DEF Follows
    <1>2. c \in Cursor
        BY DEF TypesInv, CursorsInv, Range
    <1>3. c.after \in Keys /\ c.after # None
        <2>1. c.after \in [rank : Nat, id : 1 .. MaxSeq] /\ c.query \in Query
            BY <1>2 DEF Cursor
        <2>2. 1 .. MaxSeq \subseteq Nat
            BY PagesAssumption
        <2>3. c.after \in Keys
            BY <2>1, <2>2 DEF Keys
        <2>. QED BY <2>3, PagesAssumption DEF Keys
    <1>4. c.query = s.query /\ c.recorded = s.recorded /\ s.query \in Query
        BY <1>1, <1>2 DEF Continues, Cursor
    <1>5. Exact(s.reader, s.recorded, s.query, c.after) = exact
        BY <1>1, <1>3 DEF Continues, Exact
    <1>6. SeriesRecord(s)
        BY <1>4 DEF TypesInv, SeriesType, SeriesRecord
    <1>7. Owes(s, exact) /\ Disjoint(s) /\ Pinned(s) /\ \A i \in DOMAIN s.pages : s.pages[i].ids # {}
        BY DEF Follows
    <1>8. \A v \in versions : v.id \in s.owed => (v.id \in ShownOf(s) <=> ~Precedes(s.query, c.after, Key(v, exact)))
        BY <1>1 DEF Continues
    <1>9. Candidates(s.reader, s.recorded, s.query, c.after) = {v \in versions : v.id \in s.owed \ ShownOf(s)}
        BY <1>3, <1>5, <1>7, <1>8 DEF Candidates, Owes, Selects
    <1>10. ASSUME NEW v \in versions, NEW w \in versions, v.id \in ShownOf(s), w.id \in s.owed \ ShownOf(s)
           PROVE  Precedes(s.query, Key(v, exact), Key(w, exact))
        <2>1. Key(v, exact) \in Keys /\ Key(w, exact) \in Keys /\ Key(v, exact).id = v.id /\ Key(w, exact).id = w.id
            BY KeysOfRows DEF TypesInv, VersionsInv
        <2>2. v.id # w.id
            BY <1>10
        <2>3. ~Precedes(s.query, c.after, Key(v, exact)) /\ Precedes(s.query, c.after, Key(w, exact))
            BY <1>7, <1>8, <1>10 DEF Disjoint
        <2>4. Precedes(s.query, Key(v, exact), Key(w, exact)) \/ Precedes(s.query, Key(w, exact), Key(v, exact))
            BY <2>1, <2>2, Order
        <2>5. ~Precedes(s.query, Key(w, exact), Key(v, exact))
            BY <1>3, <2>1, <2>3, Order
        <2>. QED BY <2>4, <2>5
    <1>. QED BY <1>3, <1>4, <1>5, <1>6, <1>7, <1>9, <1>10 DEF Awaits, Before

LEMMA FirstStep ==
    ASSUME PagesInv, NEW reader \in Reader, NEW q \in Query, NEW count \in 1 .. PageLimit, First(reader, q, count)
    PROVE  PagesInv'
    <1>. DEFINE exact == Exact(reader, seq, q, None)
                b == [Blank EXCEPT !.reader = reader, !.query = q, !.recorded = seq,
                                   !.owed = {v.id : v \in Candidates(reader, seq, q, None)}]
    <1>1. exact \in BOOLEAN /\ b.query = q /\ b.recorded = seq /\ Awaits(b, exact, None) /\ TypesInv
        BY FirstAwaits DEF PagesInv
    <1>2. Serve(b, q, seq, None, count, FALSE)
        BY DEF First
    <1>3. count \in Nat \ {0}
        BY PagesAssumption
    <1>. HIDE DEF exact, b
    <1>4. PICK e \in BOOLEAN : e = exact
        BY <1>1
    <1>5. Awaits(b, e, None) /\ Serve(b, b.query, b.recorded, None, count, FALSE)
        BY <1>1, <1>2, <1>4
    <1>6. series'.status # "none" /\ Follows(series, e)' /\ TypesInv'
        BY <1>1, <1>3, <1>5, AnswerFollows
    <1>7. (\E x \in BOOLEAN : Follows(series, x))'
        BY <1>6
    <1>. QED BY <1>6, <1>7 DEF PagesInv, SeriesInv

LEMMA ContinueStep ==
    ASSUME PagesInv, NEW q \in Query, NEW count \in 1 .. PageLimit, NEW lost \in BOOLEAN, Continue(q, count, lost)
    PROVE  PagesInv'
    <1>1. PICK c \in Found(series.token, series.reader, q) : Serve(series, q, c.recorded, c.after, count, lost)
        BY DEF Continue
    <1>2. c \in Range(cursors) /\ c.token = series.token /\ c.query = q /\ series.status = "open"
        BY <1>1 DEF Found, Continue
    <1>3. PICK exact \in BOOLEAN : Follows(series, exact)
        BY <1>2 DEF PagesInv, SeriesInv
    <1>4. TypesInv
        BY DEF PagesInv
    <1>5. c.query = series.query /\ c.recorded = series.recorded /\ Awaits(series, exact, c.after)
        BY <1>2, <1>3, <1>4, OpenAwaits
    <1>6. Serve(series, series.query, series.recorded, c.after, count, lost)
        BY <1>1, <1>2, <1>5
    <1>7. count \in Nat \ {0}
        BY PagesAssumption
    <1>8. CASE lost = FALSE
        <2>1. series'.status # "none" /\ Follows(series, exact)' /\ TypesInv'
            BY <1>4, <1>5, <1>6, <1>7, <1>8, AnswerFollows
        <2>2. (\E e \in BOOLEAN : Follows(series, e))'
            BY <2>1
        <2>. QED BY <2>1, <2>2 DEF PagesInv, SeriesInv
    <1>9. CASE lost = TRUE
        <2>. DEFINE after == c.after
                    found == Candidates(series.reader, series.recorded, series.query, after)
                    shown == Packed(series.query, found, exact, count)
                    new == [token |-> Fresh, reader |-> series.reader, query |-> series.query,
                            recorded |-> series.recorded, after |-> After(series.query, found, shown, exact)]
        <2>1. /\ UNCHANGED <<seq, versions, series>>
              /\ cursors' = IF ~(shown # found) THEN cursors ELSE Issue(new)
            <3>. HIDE DEF after
            <3>1. Awaits(series, exact, after) /\ Serve(series, series.query, series.recorded, after, count, lost)
                BY <1>5, <1>6 DEF after
            <3>2. PICK b : b = series
                OBVIOUS
            <3>3. Awaits(b, exact, after) /\ Serve(b, b.query, b.recorded, after, count, lost)
                BY <3>1, <3>2
            <3>4. /\ UNCHANGED <<seq, versions>>
                  /\ lost => series' = series
                  /\ cursors' = IF ~(shown # found) THEN cursors ELSE Issue(new)
                BY <1>4, <3>2, <3>3, ServeAnswers
            <3>. QED BY <1>9, <3>4
        <2>2. CASE shown = found
            <3>1. cursors' = cursors
                BY <2>1, <2>2
            <3>2. CursorsInv'
                BY <1>4, <3>1 DEF TypesInv, CursorsInv
            <3>. QED BY <2>1, <3>1, <3>2, CursorsLost DEF Range
        <2>3. CASE shown # found
            <3>1. found \in SUBSET versions
                BY DEF Candidates
            <3>2. /\ shown \subseteq found
                  /\ \A v \in shown, w \in found : Precedes(series.query, Key(w, exact), Key(v, exact)) => w \in shown
                  /\ found # {} => shown # {}
                <4>. HIDE DEF found
                <4>. QED BY <1>4, <1>7, <3>1, FirstRows DEF TypesInv
            <3>. HIDE DEF found, shown, after
            <3>3. shown # {} /\ shown \in SUBSET found /\ shown \in SUBSET versions
                BY <2>3, <3>1, <3>2
            <3>4. PICK row \in shown : After(series.query, found, shown, exact) = Key(row, exact)
                BY <1>4, <3>1, <3>2, <3>3, GoesOnBehind DEF TypesInv
            <3>5. new = [token |-> Fresh, reader |-> series.reader, query |-> series.query,
                         recorded |-> series.recorded, after |-> Key(row, exact)] /\ cursors' = Issue(new)
                BY <2>1, <2>3, <3>4
            <3>6. new.token = Fresh
                OBVIOUS
            <3>. HIDE DEF new
            <3>7. CursorsInv' /\ Range(cursors)' \subseteq Range(cursors) \cup {new}
                <4>1. Awaits(series, exact, after)
                    BY <1>5 DEF after
                <4>2. PICK b : b = series
                    OBVIOUS
                <4>3. Awaits(b, exact, after)
                    BY <4>1, <4>2
                <4>4. new = [token |-> Fresh, reader |-> b.reader, query |-> b.query, recorded |-> b.recorded,
                             after |-> Key(row, exact)] /\ cursors' = Issue(new)
                    BY <3>5, <4>2
                <4>. QED BY <1>4, <3>3, <4>3, <4>4, ServeCursors
            <3>8. Fresh # series.token
                BY <1>4, FreshIsFree DEF TypesInv
            <3>. QED BY <2>1, <3>6, <3>7, <3>8, CursorsLost
        <2>. QED BY <2>2, <2>3
    <1>. QED BY <1>8, <1>9

-----------------------------------------------------------------------------
(***************************************************************************)
(* The groups of conflict_groups are folded from its pairs.  A fold is a    *)
(* recursive function on the subsets of a finite set: that there is one,    *)
(* and what it keeps, is shown by its least counterexample.                 *)
(***************************************************************************)
OneOf(s) == CHOOSE x \in s : TRUE
Less(s) == s \ {OneOf(s)}

\* The function that joins the pairs of a set, one after the other.
Folds(f, base, t) == f = [s \in SUBSET t |-> IF s = {} THEN base ELSE Join(OneOf(s), f[Less(s)])]

LEMMA LessIsLess == \A s : s # {} => OneOf(s) \in s /\ Less(s) \subseteq s /\ Less(s) # s
    BY DEF OneOf, Less

\* A set of subsets of a finite set that is not empty has a least one.
LEMMA HasLeast ==
    ASSUME NEW S, IsFiniteSet(S), NEW T \in SUBSET (SUBSET S), T # {}
    PROVE  \E t \in T : \A u \in T : u \subseteq t => u = t
    <1>1. T \subseteq FiniteSubsetsOf(S)
        BY FS_FiniteSubsetsOfFinite
    <1>2. PICK t \in T : \A u \in T : ~(<<u, t>> \in StrictSubsetOrdering(S))
        BY <1>1, FS_StrictSubsetOrderingWellFounded, WFMin
    <1>3. \A u \in T : u \subseteq t /\ u # t => <<u, t>> \in StrictSubsetOrdering(S)
        BY DEF StrictSubsetOrdering
    <1>4. \A u \in T : ~(u \subseteq t /\ u # t)
        BY <1>2, <1>3, Zenon
    <1>. QED BY <1>4, Zenon

LEMMA FoldsAgree ==
    ASSUME NEW S, IsFiniteSet(S), NEW base, NEW t \in SUBSET S, NEW u \in SUBSET S, NEW f, NEW g,
           Folds(f, base, t), Folds(g, base, u)
    PROVE  \A s \in SUBSET (t \cap u) : f[s] = g[s]
    <1>. DEFINE Bad == {s \in SUBSET (t \cap u) : f[s] # g[s]}
    <1>1. SUFFICES ASSUME Bad # {} PROVE FALSE
        OBVIOUS
    <1>2. PICK s \in Bad : \A r \in Bad : r \subseteq s => r = s
        <2>1. Bad \in SUBSET (SUBSET S)
            OBVIOUS
        <2>. HIDE DEF Bad
        <2>. QED BY <1>1, <2>1, HasLeast
    <1>3. /\ f[s] = IF s = {} THEN base ELSE Join(OneOf(s), f[Less(s)])
          /\ g[s] = IF s = {} THEN base ELSE Join(OneOf(s), g[Less(s)])
        BY DEF Folds
    <1>4. s # {}
        BY <1>3
    <1>5. Less(s) \subseteq s /\ Less(s) # s
        BY <1>4, LessIsLess
    <1>6. f[Less(s)] = g[Less(s)]
        BY <1>2, <1>5
    <1>. QED BY <1>3, <1>4, <1>6

LEMMA FoldExists ==
    ASSUME NEW S, IsFiniteSet(S), NEW base
    PROVE  \E f : Folds(f, base, S)
    <1>. DEFINE Bad == {t \in SUBSET S : ~ \E f : Folds(f, base, t)}
    <1>1. SUFFICES ASSUME Bad # {} PROVE FALSE
        OBVIOUS
    <1>2. PICK t \in Bad : \A r \in Bad : r \subseteq t => r = t
        <2>1. Bad \in SUBSET (SUBSET S)
            OBVIOUS
        <2>. HIDE DEF Bad
        <2>. QED BY <1>1, <2>1, HasLeast
    <1>. DEFINE F(u) == CHOOSE f : Folds(f, base, u)
                k == [s \in SUBSET t |-> IF s = {} THEN base ELSE Join(OneOf(s), F(Less(s))[Less(s)])]
    <1>3. ASSUME NEW u \in SUBSET t, u # t PROVE Folds(F(u), base, u)
        <2>1. \E f : Folds(f, base, u)
            BY <1>2, <1>3
        <2>. QED BY <2>1
    <1>4. ASSUME NEW u \in SUBSET t, u # t PROVE k[u] = F(u)[u]
        <2>1. Folds(F(u), base, u)
            BY <1>3, <1>4
        <2>2. F(u)[u] = IF u = {} THEN base ELSE Join(OneOf(u), F(u)[Less(u)])
            <3>. HIDE DEF F
            <3>. QED BY <2>1 DEF Folds
        <2>3. CASE u = {}
            BY <2>2, <2>3
        <2>4. CASE u # {}
            <3>1. Less(u) \subseteq u /\ Less(u) # u
                BY <2>4, LessIsLess
            <3>2. Folds(F(Less(u)), base, Less(u))
                BY <1>3, <1>4, <3>1
            <3>3. F(u)[Less(u)] = F(Less(u))[Less(u)]
                <4>1. Less(u) \in SUBSET S /\ u \in SUBSET S /\ Less(u) \in SUBSET (u \cap Less(u))
                    BY <3>1
                <4>. HIDE DEF F
                <4>. QED BY <2>1, <3>2, <4>1, FoldsAgree
            <3>4. k[u] = Join(OneOf(u), F(Less(u))[Less(u)])
                BY <2>4
            <3>. HIDE DEF k, F
            <3>. QED BY <2>2, <2>4, <3>3, <3>4
        <2>. QED BY <2>3, <2>4
    <1>5. ASSUME NEW s \in SUBSET t PROVE k[s] = IF s = {} THEN base ELSE Join(OneOf(s), k[Less(s)])
        <2>1. CASE s = {}
            BY <2>1
        <2>2. CASE s # {}
            <3>1. Less(s) \in SUBSET t /\ Less(s) # t
                BY <2>2, LessIsLess
            <3>2. k[Less(s)] = F(Less(s))[Less(s)]
                BY <1>4, <3>1
            <3>3. k[s] = Join(OneOf(s), F(Less(s))[Less(s)])
                BY <2>2
            <3>. HIDE DEF k, F
            <3>. QED BY <2>2, <3>2, <3>3
        <2>. QED BY <2>1, <2>2
    <1>6. Folds(k, base, t)
        <2>1. k = [s \in SUBSET t |-> k[s]]
            OBVIOUS
        <2>. HIDE DEF k
        <2>. QED BY <1>5, <2>1 DEF Folds
    <1>. HIDE DEF k
    <1>. QED BY <1>2, <1>6

LEMMA FoldSetFolds ==
    ASSUME NEW S, IsFiniteSet(S), NEW base
    PROVE  \E f : Folds(f, base, S) /\ FoldSet(Join, base, S) = f[S]
    <1>. DEFINE it == CHOOSE f : f = [s \in SUBSET S |-> IF s = {} THEN base
                                      ELSE Join(CHOOSE x \in s : TRUE, f[s \ {CHOOSE x \in s : TRUE}])]
    <1>1. FoldSet(Join, base, S) = it[S]
        BY DEF FoldSet, MapThenFoldSet
    <1>2. \E f : f = [s \in SUBSET S |-> IF s = {} THEN base
                                      ELSE Join(CHOOSE x \in s : TRUE, f[s \ {CHOOSE x \in s : TRUE}])]
        <2>1. PICK f : Folds(f, base, S)
            BY FoldExists
        <2>. QED BY <2>1, Zenon DEF Folds, OneOf, Less
    <1>3. Folds(it, base, S)
        BY <1>2 DEF Folds, OneOf, Less
    <1>. HIDE DEF it
    <1>. QED BY <1>1, <1>3

(***************************************************************************)
(* Joining pairs groups the rows into components.                           *)
(***************************************************************************)

\* Every part of a group is tied to the rest by one of the pairs.
Linked(g, s) ==
    \A a \in SUBSET g : a # {} /\ a # g => \E p \in s : p \cap a # {} /\ p \cap (g \ a) # {}

Grouped(rows, groups, s) ==
    /\ \A g \in groups : g \subseteq rows /\ g # {} /\ Linked(g, s)
    /\ \A v \in rows : \E g \in groups : v \in g
    /\ \A g, h \in groups : g # h => g \cap h = {}
    /\ \A p \in s : \E g \in groups : p \subseteq g

LEMMA LinkedMore ==
    ASSUME NEW g, NEW s, NEW p, Linked(g, s)
    PROVE  Linked(g, s \cup {p})
    BY Zenon DEF Linked

LEMMA LinkedUnion ==
    ASSUME NEW g, NEW h, NEW s, Linked(g, s), Linked(h, s), g = h \/ g \cap h = {},
           NEW x \in g, NEW y \in h
    PROVE  Linked(g \cup h, s \cup {{x, y}})
    <1>. DEFINE new == s \cup {{x, y}}
                all == g \cup h
    <1>1. SUFFICES ASSUME NEW a \in SUBSET all, a # {}, a # all
                   PROVE  \E p \in new : p \cap a # {} /\ p \cap (all \ a) # {}
        BY DEF Linked
    <1>2. CASE a \cap g # {} /\ a \cap g # g
        <2>1. a \cap g \in SUBSET g
            OBVIOUS
        <2>2. PICK p \in s : p \cap (a \cap g) # {} /\ p \cap (g \ (a \cap g)) # {}
            BY <1>2, <2>1 DEF Linked
        <2>3. p \cap a # {} /\ p \cap (all \ a) # {}
            BY <2>2
        <2>. QED BY <2>3
    <1>3. CASE a \cap h # {} /\ a \cap h # h
        <2>1. a \cap h \in SUBSET h
            OBVIOUS
        <2>2. PICK p \in s : p \cap (a \cap h) # {} /\ p \cap (h \ (a \cap h)) # {}
            BY <1>3, <2>1 DEF Linked
        <2>3. p \cap a # {} /\ p \cap (all \ a) # {}
            BY <2>2
        <2>. QED BY <2>3
    <1>4. CASE (a \cap g = {} \/ g \subseteq a) /\ (a \cap h = {} \/ h \subseteq a)
        <2>1. (x \in a /\ y \notin a) \/ (x \notin a /\ y \in a)
            <3>1. a \cap g = {} => h \subseteq a /\ x \notin a
                BY <1>1, <1>4
            <3>2. g \subseteq a => a \cap h = {} /\ x \in a
                BY <1>1, <1>4
            <3>. QED BY <1>4, <3>1, <3>2
        <2>2. {x, y} \cap a # {} /\ {x, y} \cap (all \ a) # {}
            BY <2>1
        <2>. QED BY <2>2
    <1>. QED BY <1>2, <1>3, <1>4

LEMMA JoinGroups ==
    ASSUME NEW rows, NEW groups, NEW s, Grouped(rows, groups, s), NEW x \in rows, NEW y \in rows
    PROVE  Grouped(rows, Join({x, y}, groups), s \cup {{x, y}})
    <1>. DEFINE pair == {x, y}
                touched == {g \in groups : g \cap pair # {}}
                new == Join(pair, groups)
    <1>1. PICK g \in groups : x \in g
        BY DEF Grouped
    <1>2. PICK h \in groups : y \in h
        BY DEF Grouped
    <1>3. g = h \/ g \cap h = {}
        BY DEF Grouped
    <1>4. touched = {g, h}
        BY <1>1, <1>2 DEF Grouped
    <1>5. new = (groups \ {g, h}) \cup {g \cup h}
        <2>1. UNION {g, h} = g \cup h
            OBVIOUS
        <2>2. new = (groups \ touched) \cup {UNION touched}
            BY DEF Join
        <2>. HIDE DEF touched, new
        <2>. QED BY <1>4, <2>1, <2>2
    <1>6. \A k \in groups : k \subseteq rows /\ k # {} /\ Linked(k, s)
        BY DEF Grouped
    <1>. HIDE DEF new
    <1>7. \A k \in new : k \subseteq rows /\ k # {} /\ Linked(k, s \cup {pair})
        <2>1. Linked(g \cup h, s \cup {pair})
            BY <1>1, <1>2, <1>3, <1>6, LinkedUnion
        <2>2. \A k \in groups : Linked(k, s \cup {pair})
            BY <1>6, LinkedMore
        <2>. QED BY <1>1, <1>5, <1>6, <2>1, <2>2
    <1>8. ASSUME NEW k \in groups PROVE \E l \in new : k \subseteq l
        <2>1. CASE k \in {g, h}
            <3>1. k \subseteq g \cup h /\ g \cup h \in new
                BY <1>5, <2>1
            <3>. QED BY <3>1
        <2>2. CASE k \notin {g, h}
            <3>1. k \in new
                BY <1>5, <2>2
            <3>. QED BY <3>1
        <2>. QED BY <2>1, <2>2
    <1>9. \A v \in rows : \E k \in new : v \in k
        <2>1. \A v \in rows : \E k \in groups : v \in k
            BY DEF Grouped
        <2>. QED BY <1>8, <2>1
    <1>10. \A k, l \in new : k # l => k \cap l = {}
        <2>1. \A k, l \in groups : k # l => k \cap l = {}
            BY DEF Grouped
        <2>2. \A k \in groups \ {g, h} : k \cap (g \cup h) = {}
            BY <2>1
        <2>. QED BY <1>5, <2>1, <2>2
    <1>11. \A p \in s \cup {pair} : \E k \in new : p \subseteq k
        <2>1. \A p \in s : \E k \in groups : p \subseteq k
            BY DEF Grouped
        <2>2. pair \subseteq g \cup h /\ g \cup h \in new
            BY <1>1, <1>2, <1>5
        <2>. QED BY <1>8, <2>1, <2>2
    <1>12. Grouped(rows, new, s \cup {pair})
        <2>. HIDE DEF pair
        <2>. QED BY <1>7, <1>9, <1>10, <1>11 DEF Grouped
    <1>. QED BY <1>12 DEF new

LEMMA Singles == \A rows : Grouped(rows, {{v} : v \in rows}, {})
    <1>1. \A v : Linked({v}, {})
        <2>1. \A v : \A a \in SUBSET {v} : a = {} \/ a = {v}
            OBVIOUS
        <2>. QED BY <2>1 DEF Linked
    <1>. QED BY <1>1 DEF Grouped

LEMMA FoldGroups ==
    ASSUME NEW rows, NEW S, IsFiniteSet(S), \A p \in S : \E x, y \in rows : p = {x, y}
    PROVE  Grouped(rows, FoldSet(Join, {{v} : v \in rows}, S), S)
    <1>. DEFINE base == {{v} : v \in rows}
    <1>1. PICK f : Folds(f, base, S) /\ FoldSet(Join, base, S) = f[S]
        BY FoldSetFolds
    <1>. DEFINE Bad == {s \in SUBSET S : ~Grouped(rows, f[s], s)}
    <1>2. SUFFICES ASSUME Bad # {} PROVE FALSE
        BY <1>1
    <1>3. PICK s \in Bad : \A r \in Bad : r \subseteq s => r = s
        <2>1. Bad \in SUBSET (SUBSET S)
            OBVIOUS
        <2>. HIDE DEF Bad
        <2>. QED BY <1>2, <2>1, HasLeast
    <1>. HIDE DEF base
    <1>4. f[s] = IF s = {} THEN base ELSE Join(OneOf(s), f[Less(s)])
        BY <1>1 DEF Folds
    <1>5. s # {}
        <2>1. Grouped(rows, base, {})
            BY Singles DEF base
        <2>. QED BY <1>3, <1>4, <2>1
    <1>6. OneOf(s) \in s /\ Less(s) \subseteq s /\ Less(s) # s
        BY <1>5, LessIsLess
    <1>7. Grouped(rows, f[Less(s)], Less(s))
        BY <1>3, <1>6
    <1>8. PICK x \in rows, y \in rows : OneOf(s) = {x, y}
        BY <1>6
    <1>9. Grouped(rows, Join({x, y}, f[Less(s)]), Less(s) \cup {{x, y}})
        BY <1>7, JoinGroups
    <1>10. Less(s) \cup {OneOf(s)} = s
        BY <1>6 DEF Less
    <1>. QED BY <1>3, <1>4, <1>5, <1>8, <1>9, <1>10

\* conflict_groups gives the connected components of more than one row.
LEMMA GroupsAreComponents ==
    ASSUME NEW rows, IsFiniteSet(rows), NEW v \in rows
    PROVE  LET mine == {g \in ConflictGroups(rows) : v \in g}
               group == IF mine = {} THEN {v} ELSE UNION mine
           IN  v \in group /\ group \subseteq rows /\ IsComponent(group, rows)
    <1>. DEFINE over == {q \in rows \X rows : Overlap(q[1], q[2])}
                pairs == {{p[1], p[2]} : p \in over}
                G == FoldSet(Join, {{w} : w \in rows}, pairs)
                mine == {g \in ConflictGroups(rows) : v \in g}
                group == IF mine = {} THEN {v} ELSE UNION mine
    <1>1. IsFiniteSet(pairs)
        <2>1. IsFiniteSet(over)
            <3>1. IsFiniteSet(rows \X rows)
                BY FS_Product
            <3>. QED BY <3>1, FS_Subset
        <2>. DEFINE f == [p \in over |-> {p[1], p[2]}]
        <2>2. f \in Surjection(over, pairs)
            <3>. HIDE DEF over
            <3>. QED BY DEF Surjection
        <2>. HIDE DEF f, pairs, over
        <2>. QED BY <2>1, <2>2, FS_Surjection
    <1>2. \A p \in pairs : \E x, y \in rows : p = {x, y} /\ Overlap(x, y)
        OBVIOUS
    <1>3. \A x, y \in rows : Overlap(x, y) => {x, y} \in pairs
        <2>1. \A x, y \in rows : Overlap(x, y) => <<x, y>> \in over
            OBVIOUS
        <2>2. \A q \in over : {q[1], q[2]} \in pairs
            <3>. HIDE DEF over
            <3>. QED OBVIOUS
        <2>3. \A x, y : <<x, y>>[1] = x /\ <<x, y>>[2] = y
            OBVIOUS
        <2>. HIDE DEF pairs, over
        <2>. QED BY <2>1, <2>2, <2>3
    <1>. HIDE DEF pairs
    <1>4. Grouped(rows, G, pairs)
        BY <1>1, <1>2, FoldGroups
    <1>5. ConflictGroups(rows) = {g \in G : Cardinality(g) > 1}
        BY DEF ConflictGroups, pairs
    <1>6. PICK g \in G : v \in g
        BY <1>4 DEF Grouped
    <1>. HIDE DEF G
    <1>7. g \subseteq rows /\ IsFiniteSet(g) /\ Cardinality(g) \in Nat
        BY <1>4, FS_Subset, FS_CardinalityType DEF Grouped
    <1>8. \A k \in G : v \in k => k = g
        BY <1>4, <1>6 DEF Grouped
    <1>9. group = g
        <2>1. CASE Cardinality(g) > 1
            <3>1. mine = {g}
                BY <1>5, <1>6, <1>8, <2>1
            <3>. HIDE DEF mine
            <3>. QED BY <3>1
        <2>2. CASE ~(Cardinality(g) > 1)
            <3>1. mine = {}
                BY <1>5, <1>8, <2>2
            <3>2. Cardinality(g) # 0
                BY <1>6, <1>7, FS_EmptySet
            <3>3. Cardinality(g) = 1
                BY <1>7, <2>2, <3>2
            <3>4. g = {v}
                BY <1>6, <1>7, <3>3, FS_Singleton
            <3>. QED BY <3>1, <3>4
        <2>. QED BY <2>1, <2>2
    <1>10. \A x \in g, y \in rows \ g : ~Overlap(x, y)
        <2>1. SUFFICES ASSUME NEW x \in g, NEW y \in rows, y \notin g, Overlap(x, y) PROVE FALSE
            OBVIOUS
        <2>2. PICK k \in G : {x, y} \subseteq k
            BY <1>3, <1>4, <1>7, <2>1 DEF Grouped
        <2>. QED BY <1>4, <1>6, <2>1, <2>2 DEF Grouped
    <1>11. \A s \in (SUBSET g) \ {{}, g} : \E x \in s, y \in g \ s : Overlap(x, y)
        <2>1. SUFFICES ASSUME NEW s \in SUBSET g, s # {}, s # g PROVE \E x \in s, y \in g \ s : Overlap(x, y)
            OBVIOUS
        <2>2. PICK p \in pairs : p \cap s # {} /\ p \cap (g \ s) # {}
            BY <1>4, <1>6, <2>1 DEF Grouped, Linked
        <2>3. PICK x \in rows, y \in rows : p = {x, y} /\ Overlap(x, y)
            BY <1>2
        <2>4. Overlap(y, x)
            BY <2>3 DEF Overlap
        <2>5. (x \in s /\ y \in g \ s) \/ (y \in s /\ x \in g \ s)
            BY <2>2, <2>3
        <2>. QED BY <2>3, <2>4, <2>5
    <1>. HIDE DEF group
    <1>. QED BY <1>6, <1>7, <1>9, <1>10, <1>11 DEF IsComponent, group, mine

(***************************************************************************)
(* The disputes of a page, when it is made and later.                       *)
(***************************************************************************)
MembersOf(s, v) ==
    {w \in versions : /\ w.claim.thread = v.claim.thread
                      /\ Eligible(w, s.reader, s.recorded, s.query)}

\* What a dispute stands for among the members of its thread.
GroupOf(dispute, v, members) == IF dispute = Undisputed THEN {v} ELSE {w \in members : w.id \in dispute}

Settles(dispute, v, members) ==
    IF Cardinality(members) > MaxMembers THEN dispute = Unassessed
    ELSE v \in GroupOf(dispute, v, members) /\ IsComponent(GroupOf(dispute, v, members), members)

Assessed(s, page, v) ==
    /\ s.query.op = "context" /\ ~page.partial => page.dispute[v.id] \subseteq page.ids
    /\ Settles(page.dispute[v.id], v, MembersOf(s, v))

LEMMA DisputesAssessed ==
    DisputesAreComponents <=>
        \A i \in DOMAIN series.pages : \A v \in Rows(series.pages[i].ids) : Assessed(series, series.pages[i], v)
    BY Zenon DEF DisputesAreComponents, Assessed, Settles, GroupOf, MembersOf

LEMMA DisputeSettles ==
    ASSUME VersionsInv, NEW s, NEW v \in versions, Eligible(v, s.reader, s.recorded, s.query)
    PROVE  Settles(Dispute(v, s.reader, s.recorded, s.query), v, MembersOf(s, v))
    <1>. DEFINE members == MembersOf(s, v)
                mine == {g \in ConflictGroups(members) : v \in g}
                group == IF mine = {} THEN {v} ELSE UNION mine
                d == Dispute(v, s.reader, s.recorded, s.query)
    <1>1. members \subseteq versions /\ v \in members
        BY DEF MembersOf
    <1>2. IsFiniteSet(members)
        BY <1>1, FS_Subset DEF VersionsInv
    <1>3. v \in group /\ group \subseteq members /\ IsComponent(group, members)
        <2>. HIDE DEF members
        <2>. QED BY <1>1, <1>2, GroupsAreComponents
    <1>4. d = IF Cardinality(members) > MaxMembers THEN Unassessed
              ELSE IF mine = {} THEN Undisputed ELSE {w.id : w \in UNION mine}
        BY DEF Dispute, MembersOf
    <1>5. ASSUME ~(Cardinality(members) > MaxMembers) PROVE GroupOf(d, v, members) = group
        <2>. HIDE DEF members
        <2>1. CASE mine = {}
            BY <1>4, <1>5, <2>1 DEF GroupOf
        <2>2. CASE mine # {}
            <3>. DEFINE all == UNION mine
            <3>1. group = all /\ v \in all /\ all \subseteq members
                BY <1>3, <2>2
            <3>. HIDE DEF mine
            <3>2. d = {w.id : w \in all}
                BY <1>4, <1>5, <2>2
            <3>. HIDE DEF all, d, group
            <3>3. d # Undisputed
                BY <3>1, <3>2 DEF Undisputed
            <3>4. \A x, y \in members : x.id = y.id => x = y
                BY <1>1 DEF VersionsInv
            <3>5. {w \in members : w.id \in d} = all
                BY <3>1, <3>2, <3>4
            <3>. QED BY <3>1, <3>3, <3>5 DEF GroupOf
        <2>. QED BY <2>1, <2>2
    <1>. HIDE DEF d, group, members
    <1>6. ASSUME Cardinality(members) > MaxMembers PROVE Settles(d, v, members)
        BY <1>4, <1>6 DEF Settles
    <1>7. ASSUME ~(Cardinality(members) > MaxMembers) PROVE Settles(d, v, members)
        BY <1>3, <1>5, <1>7 DEF Settles
    <1>. QED BY <1>6, <1>7 DEF d, members

\* The page of an answer says of every row what _conflict_projection says, and
\* whether it is partial.
LEMMA PageAssessed ==
    ASSUME TypesInv, NEW b, NEW exact \in BOOLEAN, NEW after, Awaits(b, exact, after),
           NEW count, Serve(b, b.query, b.recorded, after, count, FALSE)
    PROVE  LET page == series'.pages[Len(b.pages) + 1]
           IN  \A v \in Rows(page.ids) : Assessed(b, page, v)
    <1>. DEFINE found == Candidates(b.reader, b.recorded, b.query, after)
                shown == Packed(b.query, found, exact, count)
                more == shown # found
                ids == {v.id : v \in shown}
                dispute == [i \in ids |-> Dispute(CHOOSE v \in shown : v.id = i, b.reader, b.recorded, b.query)]
                page == [ids |-> ids, dispute |-> dispute, asOf |-> Pin(b.query, b.recorded, more, after),
                         partial |-> Partial(b.query, more, ids, dispute)]
    <1>1. Exact(b.reader, b.recorded, b.query, after) = exact /\ SeriesRecord(b)
        BY DEF Awaits
    <1>2. series' = [b EXCEPT !.status = IF more THEN "open" ELSE "done",
                              !.pages = Append(@, page),
                              !.token = IF more THEN Fresh ELSE None]
        BY <1>1 DEF Serve
    <1>3. /\ page.ids = ids /\ page.dispute = dispute
          /\ page.partial = Partial(b.query, more, ids, dispute)
        OBVIOUS
    <1>4. shown \subseteq found /\ found \subseteq versions
        BY DEF Packed, Candidates
    <1>5. \A v \in found : Eligible(v, b.reader, b.recorded, b.query)
        BY DEF Candidates
    <1>. HIDE DEF found, shown, more
    <1>6. series'.pages[Len(b.pages) + 1] = page
        <2>. HIDE DEF page
        <2>1. series'.pages = Append(b.pages, page)
            BY <1>1, <1>2 DEF SeriesRecord
        <2>. QED BY <1>1, <2>1, AppendsPage DEF SeriesRecord
    <1>7. ASSUME NEW v \in Rows(ids) PROVE Assessed(b, page, v)
        <2>1. v \in versions /\ v.id \in ids /\ v \in shown
            BY <1>4, <1>7 DEF Rows, TypesInv, VersionsInv
        <2>2. (CHOOSE w \in shown : w.id = v.id) = v
            BY <1>4, <2>1 DEF TypesInv, VersionsInv
        <2>3. page.dispute[v.id] = Dispute(v, b.reader, b.recorded, b.query)
            BY <1>3, <2>1, <2>2
        <2>4. Settles(page.dispute[v.id], v, MembersOf(b, v))
            BY <1>4, <1>5, <2>1, <2>3, DisputeSettles DEF TypesInv
        <2>5. ASSUME b.query.op = "context", ~page.partial PROVE page.dispute[v.id] \subseteq page.ids
            <3>. HIDE DEF page, dispute, ids
            <3>. QED BY <1>3, <2>1, <2>5 DEF Partial
        <2>. HIDE DEF page
        <2>. QED BY <2>4, <2>5 DEF Assessed
    <1>. HIDE DEF page
    <1>. QED BY <1>3, <1>6, <1>7

\* Members and their disputes correspond before and after a change of the ledger.
LEMMA ComponentMoves ==
    ASSUME NEW M, NEW N, NEW g \in SUBSET M, NEW h \in SUBSET N, NEW same,
           \A x \in M : \E y \in N : <<x, y>> \in same,
           \A y \in N : \E x \in M : <<x, y>> \in same,
           \A x \in M, y \in N, z \in N : <<x, y>> \in same /\ <<x, z>> \in same => y = z,
           \A x \in M, y \in N : <<x, y>> \in same => (x \in g <=> y \in h),
           \A x, w \in M, y, z \in N :
               <<x, y>> \in same /\ <<w, z>> \in same => (Overlap(x, w) <=> Overlap(y, z)),
           IsComponent(g, M)
    PROVE  IsComponent(h, N)
    <1>1. \A y \in h, z \in N \ h : ~Overlap(y, z)
        <2>1. SUFFICES ASSUME NEW y \in h, NEW z \in N, z \notin h, Overlap(y, z) PROVE FALSE
            OBVIOUS
        <2>2. PICK x \in M, w \in M : <<x, y>> \in same /\ <<w, z>> \in same
            OBVIOUS
        <2>. QED BY <2>1, <2>2 DEF IsComponent
    <1>2. ASSUME NEW t \in SUBSET h, t # {}, t # h PROVE \E y \in t, z \in h \ t : Overlap(y, z)
        <2>. DEFINE s == {x \in M : \E y \in t : <<x, y>> \in same}
        <2>1. s \subseteq g
            OBVIOUS
        <2>2. s # {}
            BY <1>2
        <2>3. s # g
            <3>1. PICK z \in h : z \notin t
                BY <1>2
            <3>2. PICK x \in M : <<x, z>> \in same
                OBVIOUS
            <3>3. x \in g /\ x \notin s
                BY <3>1, <3>2
            <3>. QED BY <3>3
        <2>4. PICK x \in s, w \in g \ s : Overlap(x, w)
            <3>. HIDE DEF s
            <3>. QED BY <2>1, <2>2, <2>3 DEF IsComponent
        <2>5. PICK y \in t : <<x, y>> \in same
            OBVIOUS
        <2>6. PICK z \in N : <<w, z>> \in same
            OBVIOUS
        <2>7. z \in h /\ z \notin t
            BY <2>6
        <2>8. Overlap(y, z)
            BY <2>1, <2>4, <2>5, <2>6
        <2>. QED BY <2>7, <2>8
    <1>. QED BY <1>1, <1>2 DEF IsComponent

LEMMA SizeStays ==
    ASSUME NEW M, NEW N, IsFiniteSet(M), NEW same,
           \A x \in M : \E y \in N : <<x, y>> \in same,
           \A y \in N : \E x \in M : <<x, y>> \in same,
           \A x \in M, y, z \in N : <<x, y>> \in same /\ <<x, z>> \in same => y = z,
           \A x, w \in M, y \in N : <<x, y>> \in same /\ <<w, y>> \in same => x = w
    PROVE  Cardinality(N) = Cardinality(M)
    <1>. DEFINE f == [x \in M |-> CHOOSE y \in N : <<x, y>> \in same]
    <1>1. \A x \in M : f[x] \in N /\ <<x, f[x]>> \in same
        OBVIOUS
    <1>2. f \in Bijection(M, N)
        <2>1. f \in [M -> N]
            BY <1>1
        <2>. HIDE DEF f
        <2>2. \A x, w \in M : f[x] = f[w] => x = w
            BY <1>1
        <2>3. ASSUME NEW y \in N PROVE \E x \in M : f[x] = y
            <3>1. PICK x \in M : <<x, y>> \in same
                OBVIOUS
            <3>2. f[x] = y
                BY <1>1, <3>1
            <3>. QED BY <3>2
        <2>. QED BY <2>1, <2>2, <2>3 DEF Bijection, Injection, Surjection, IsInjective
    <1>3. ExistsBijection(M, N)
        BY <1>2 DEF ExistsBijection
    <1>. QED BY <1>3, FS_Bijection

\* A change of the ledger leaves what a page says of a row that is still there.
LEMMA AssessedStays ==
    ASSUME TypesInv, RowsKept, NEW v \in versions, NEW w \in versions', SameRow(v, w),
           Eligible(v, series.reader, series.recorded, series.query),
           NEW page, Assessed(series, page, v)
    PROVE  Assessed(series, page, w)'
    <1>. DEFINE s == series
                M == MembersOf(s, v)
                N == {x \in versions' : /\ x.claim.thread = v.claim.thread
                                        /\ Eligible(x, s.reader, s.recorded, s.query)}
                same == {p \in M \X N : SameRow(p[1], p[2])}
    <1>1. /\ seq \in Nat /\ s.recorded \in 0 .. seq
          /\ \A x \in versions : x.id \in Nat /\ x.retired \in Nat /\ x.id <= seq
          /\ \A x, y \in versions : x.id = y.id => x = y
          /\ \A x, y \in versions' : x.id = y.id => x = y
        BY PagesAssumption DEF TypesInv, VersionsInv, SeriesType, RowsKept, Version
    <1>2. s' = s /\ w.claim = v.claim /\ w.id = v.id
        BY DEF RowsKept, SameRow
    <1>3. \A x \in M : x \in versions /\ x.id <= s.recorded /\ x.claim.thread = v.claim.thread
        BY DEF MembersOf, Eligible
    <1>4. \A x \in versions, y \in versions' : SameRow(x, y) =>
             (Eligible(x, s.reader, s.recorded, s.query) <=> Eligible(y, s.reader, s.recorded, s.query))
        <2>1. \A k, n \in Nat : \A m \in 0 .. k : n > k => n > m /\ n # 0
            OBVIOUS
        <2>2. SUFFICES ASSUME NEW x \in versions, NEW y \in versions', SameRow(x, y)
                       PROVE  Eligible(x, s.reader, s.recorded, s.query) <=> Eligible(y, s.reader, s.recorded, s.query)
            OBVIOUS
        <2>3. (y.retired = NULL \/ y.retired > s.recorded) <=> (x.retired = NULL \/ x.retired > s.recorded)
            <3>. HIDE DEF s
            <3>. QED BY <1>1, <2>1, <2>2 DEF SameRow, NULL
        <2>. QED BY <2>2, <2>3 DEF SameRow, Eligible
    <1>5. \A y \in N : y.id <= s.recorded /\ y \in versions' /\ y.claim.thread = v.claim.thread
        BY DEF Eligible
    <1>6. ASSUME NEW y \in N PROVE \E x \in M : SameRow(x, y)
        <2>1. ~(y.id \in Nat /\ y.id > seq)
            <3>1. \A k, n \in Nat : \A m \in 0 .. k : ~(n > k /\ n <= m)
                OBVIOUS
            <3>. HIDE DEF s, N
            <3>. QED BY <1>1, <1>5, <3>1
        <2>2. PICK x \in versions : SameRow(x, y)
            BY <1>5, <2>1 DEF RowsKept
        <2>3. x.claim.thread = v.claim.thread
            BY <1>5, <2>2 DEF SameRow
        <2>. QED BY <1>4, <1>5, <2>2, <2>3 DEF MembersOf
    <1>7. ASSUME NEW x \in M PROVE \E y \in N : SameRow(x, y)
        <2>1. w.id <= seq /\ w.claim.thread = x.claim.thread
            BY <1>1, <1>2, <1>3
        <2>2. PICK y \in versions' : SameRow(x, y)
            BY <1>3, <2>1 DEF RowsKept
        <2>3. y.claim.thread = v.claim.thread
            BY <1>3, <2>2 DEF SameRow
        <2>4. Eligible(x, s.reader, s.recorded, s.query)
            BY DEF MembersOf
        <2>. QED BY <1>3, <1>4, <2>2, <2>3, <2>4
    <1>8. ASSUME NEW x \in M, NEW z \in M, NEW y \in N, NEW u \in N, SameRow(x, y), SameRow(z, u)
          PROVE  Overlap(x, z) <=> Overlap(y, u)
        <2>1. x.claim = y.claim /\ z.claim = u.claim /\ x.id = y.id /\ z.id = u.id
            BY <1>8 DEF SameRow
        <2>2. x.id \in Nat /\ x.id <= seq /\ x.retired \in Nat /\ z.id \in Nat /\ z.id <= seq /\ z.retired \in Nat
            BY <1>1, <1>3
        <2>3. \A k, i, n \in Nat : i <= k /\ n > k => n > i /\ n # 0
            OBVIOUS
        <2>4. (x.retired = NULL \/ x.retired > z.id) <=> (y.retired = NULL \/ y.retired > u.id)
            <3>. HIDE DEF M, N
            <3>. QED BY <1>1, <1>8, <2>1, <2>2, <2>3 DEF SameRow, NULL
        <2>5. (z.retired = NULL \/ z.retired > x.id) <=> (u.retired = NULL \/ u.retired > y.id)
            <3>. HIDE DEF M, N
            <3>. QED BY <1>1, <1>8, <2>1, <2>2, <2>3 DEF SameRow, NULL
        <2>. HIDE DEF M, N
        <2>. QED BY <2>1, <2>4, <2>5 DEF Overlap
    <1>. HIDE DEF M, N
    <1>9. \A x \in M, y \in N : <<x, y>> \in same <=> SameRow(x, y)
        OBVIOUS
    <1>. HIDE DEF same
    <1>10. /\ \A x \in M : \E y \in N : <<x, y>> \in same
           /\ \A y \in N : \E x \in M : <<x, y>> \in same
        BY <1>6, <1>7, <1>9
    <1>11. /\ \A x \in M, y, z \in N : <<x, y>> \in same /\ <<x, z>> \in same => y = z
           /\ \A x, z \in M, y \in N : <<x, y>> \in same /\ <<z, y>> \in same => x = z
        BY <1>1, <1>3, <1>5, <1>9 DEF SameRow
    <1>12. \A x, z \in M, y, u \in N :
              <<x, y>> \in same /\ <<z, u>> \in same => (Overlap(x, z) <=> Overlap(y, u))
        BY <1>8, <1>9
    <1>13. Cardinality(N) = Cardinality(M)
        <2>1. IsFiniteSet(M)
            BY FS_Subset DEF M, MembersOf, TypesInv, VersionsInv
        <2>. QED BY <1>10, <1>11, <2>1, SizeStays
    <1>. DEFINE d == page.dispute[v.id]
                g == GroupOf(d, v, M)
                h == GroupOf(d, w, N)
    <1>14. Settles(d, v, M)
        BY DEF Assessed, M
    <1>15. ASSUME ~(Cardinality(M) > MaxMembers) PROVE w \in h /\ IsComponent(h, N)
        <2>1. v \in g /\ IsComponent(g, M)
            BY <1>14, <1>15 DEF Settles
        <2>2. v \in M
            BY DEF M, MembersOf
        <2>3. w \in N
            BY <1>4, <2>2 DEF N, M, MembersOf, SameRow
        <2>4. \A x \in M, y \in N : <<x, y>> \in same => (x = v <=> y = w) /\ x.id = y.id
            BY <1>1, <1>2, <1>3, <1>5, <1>9, <2>2, <2>3 DEF SameRow
        <2>5. g \in SUBSET M /\ h \in SUBSET N
            BY <2>2, <2>3 DEF GroupOf
        <2>6. \A x \in M, y \in N : <<x, y>> \in same => (x \in g <=> y \in h)
            BY <2>4 DEF GroupOf
        <2>7. w \in h
            BY <1>9, <2>1, <2>2, <2>3, <2>6
        <2>. HIDE DEF g, h
        <2>. QED BY <1>10, <1>11, <1>12, <2>1, <2>5, <2>6, <2>7, ComponentMoves
    <1>16. Settles(d, w, N)
        BY <1>13, <1>14, <1>15 DEF Settles
    <1>17. N = {x \in versions' : x.claim.thread = w.claim.thread /\ Eligible(x, s.reader, s.recorded, s.query)}
        BY <1>2 DEF N
    <1>. QED BY <1>2, <1>16, <1>17 DEF Assessed, MembersOf

\* Every row that a page shows is what the page says of it.
AllAssessed ==
    \A i \in DOMAIN series.pages : \A v \in Rows(series.pages[i].ids) : Assessed(series, series.pages[i], v)

LEMMA LedgerAssessed ==
    ASSUME PagesInv, AllAssessed, RowsKept
    PROVE  AllAssessed'
    <1>1. series' = series
        BY DEF RowsKept
    <1>2. SUFFICES ASSUME NEW i \in DOMAIN series.pages, NEW w \in versions', w.id \in series.pages[i].ids
                   PROVE  Assessed(series, series.pages[i], w)'
        BY <1>1 DEF AllAssessed, Rows
    <1>3. PICK page : page = series.pages[i]
        OBVIOUS
    <1>4. series.status # "none"
        BY <1>2 DEF PagesInv, SeriesInv, Blank
    <1>5. PICK exact \in BOOLEAN : Follows(series, exact)
        BY <1>4 DEF PagesInv, SeriesInv
    <1>6. w.id \in series.owed
        BY <1>2, <1>5 DEF Follows, Disjoint, ShownOf
    <1>7. ~(w.id \in Nat /\ w.id > seq)
        <2>1. w.id <= series.recorded /\ series.recorded \in 0 .. seq /\ seq \in Nat
            BY <1>5, <1>6, PagesAssumption DEF Follows, Owes, PagesInv, TypesInv, SeriesType
        <2>. QED BY <2>1
    <1>8. PICK v \in versions : SameRow(v, w)
        BY <1>7 DEF RowsKept
    <1>9. v.id = w.id
        BY <1>8 DEF SameRow
    <1>10. Eligible(v, series.reader, series.recorded, series.query)
        BY <1>5, <1>6, <1>9 DEF Follows, Owes, Selects
    <1>11. Assessed(series, page, v)
        BY <1>2, <1>3, <1>9 DEF AllAssessed, Rows
    <1>12. Assessed(series, page, w)'
        BY <1>8, <1>10, <1>11, AssessedStays DEF PagesInv
    <1>. QED BY <1>1, <1>3, <1>12 DEF Assessed, MembersOf

LEMMA PageAdded ==
    ASSUME TypesInv, NEW b, NEW exact \in BOOLEAN, NEW after, Awaits(b, exact, after),
           NEW count, Serve(b, b.query, b.recorded, after, count, FALSE),
           \A i \in DOMAIN b.pages : \A v \in Rows(b.pages[i].ids) : Assessed(b, b.pages[i], v)
    PROVE  AllAssessed'
    <1>. DEFINE found == Candidates(b.reader, b.recorded, b.query, after)
                shown == Packed(b.query, found, exact, count)
                n == Len(b.pages) + 1
    <1>1. /\ versions' = versions
          /\ Answer(b, series', exact, after, shown, shown # found)
        BY ServeAnswers
    <1>. HIDE DEF found, shown
    <1>2. /\ series'.reader = b.reader /\ series'.query = b.query /\ series'.recorded = b.recorded
          /\ DOMAIN series'.pages = 1 .. n
          /\ \A i \in DOMAIN b.pages : series'.pages[i] = b.pages[i]
        BY <1>1 DEF Answer
    <1>3. n \in Nat /\ DOMAIN b.pages = 1 .. n - 1 /\ n - 1 \in Nat
        <2>1. SeriesRecord(b)
            BY DEF Awaits
        <2>2. b.pages \in Seq(Range(b.pages))
            BY <2>1 DEF SeriesRecord
        <2>. QED BY <2>2, AppendsPage
    <1>4. \A v \in Rows(series'.pages[n].ids) : Assessed(b, series'.pages[n], v)
        BY PageAssessed
    <1>5. \A page, v : Assessed(b, page, v) => Assessed(series, page, v)'
        BY <1>1, <1>2 DEF Assessed, MembersOf
    <1>6. ASSUME NEW i \in 1 .. n, NEW v \in versions, v.id \in series'.pages[i].ids
          PROVE  Assessed(b, series'.pages[i], v)
        <2>1. CASE i = n
            BY <1>4, <1>6, <2>1 DEF Rows
        <2>2. CASE i \in 1 .. n - 1
            BY <1>2, <1>3, <1>6, <2>2 DEF Rows
        <2>. HIDE DEF n
        <2>. QED BY <1>3, <2>1, <2>2
    <1>7. ASSUME NEW i \in 1 .. n, NEW v \in versions, v.id \in series'.pages[i].ids
          PROVE  Assessed(series, series.pages[i], v)'
        <2>1. PICK page : page = series'.pages[i]
            OBVIOUS
        <2>2. Assessed(series, page, v)'
            BY <1>5, <1>6, <1>7, <2>1
        <2>. QED BY <2>1, <2>2 DEF Assessed, MembersOf
    <1>. QED BY <1>1, <1>2, <1>7 DEF AllAssessed, Rows

LEMMA NextAssessed == PagesInv /\ AllAssessed /\ [Next]_vars => AllAssessed'
    <1>. SUFFICES ASSUME PagesInv, AllAssessed, [Next]_vars PROVE AllAssessed'
        OBVIOUS
    <1>1. TypesInv
        BY DEF PagesInv
    <1>2. ASSUME UNCHANGED <<versions, series>> PROVE AllAssessed'
        BY <1>2 DEF AllAssessed, Assessed, MembersOf, Rows
    <1>3. CASE Ledger
        BY <1>3, LedgerRows, LedgerAssessed
    <1>4. CASE ExpireCursor \/ Restart \/ UNCHANGED vars
        BY <1>2, <1>4 DEF ExpireCursor, Restart, vars
    <1>5. ASSUME NEW reader \in Reader, NEW q \in Query, NEW count \in 1 .. PageLimit, First(reader, q, count)
          PROVE  AllAssessed'
        <2>. DEFINE exact == Exact(reader, seq, q, None)
                    new == [Blank EXCEPT !.reader = reader, !.query = q, !.recorded = seq,
                                         !.owed = {v.id : v \in Candidates(reader, seq, q, None)}]
        <2>1. exact \in BOOLEAN /\ new.query = q /\ new.recorded = seq /\ Awaits(new, exact, None)
            BY <1>1, FirstAwaits
        <2>2. Serve(new, q, seq, None, count, FALSE)
            BY <1>5 DEF First
        <2>3. new.pages = << >>
            BY DEF Blank
        <2>. HIDE DEF exact, new
        <2>4. PICK e \in BOOLEAN : e = exact
            BY <2>1
        <2>5. PICK b : b = new
            OBVIOUS
        <2>6. Awaits(b, e, None) /\ Serve(b, b.query, b.recorded, None, count, FALSE) /\ b.pages = << >>
            BY <2>1, <2>2, <2>3, <2>4, <2>5
        <2>7. \A i \in DOMAIN b.pages : \A v \in Rows(b.pages[i].ids) : Assessed(b, b.pages[i], v)
            BY <2>6
        <2>. QED BY <1>1, <2>6, <2>7, PageAdded
    <1>6. ASSUME NEW q \in Query, NEW count \in 1 .. PageLimit, NEW lost \in BOOLEAN, Continue(q, count, lost)
          PROVE  AllAssessed'
        <2>1. PICK c \in Found(series.token, series.reader, q) : Serve(series, q, c.recorded, c.after, count, lost)
            BY <1>6 DEF Continue
        <2>2. c \in Range(cursors) /\ c.token = series.token /\ c.query = q /\ series.status = "open"
            BY <1>6, <2>1 DEF Found, Continue
        <2>3. CASE lost = TRUE
            BY <1>2, <2>1, <2>3 DEF Serve
        <2>4. CASE lost = FALSE
            <3>1. PICK e \in BOOLEAN : Follows(series, e)
                BY <2>2 DEF PagesInv, SeriesInv
            <3>2. c.query = series.query /\ c.recorded = series.recorded /\ Awaits(series, e, c.after)
                BY <1>1, <2>2, <3>1, OpenAwaits
            <3>3. PICK b : b = series
                OBVIOUS
            <3>4. Awaits(b, e, c.after) /\ Serve(b, b.query, b.recorded, c.after, count, FALSE)
                BY <2>1, <2>2, <2>4, <3>2, <3>3
            <3>5. \A i \in DOMAIN b.pages : \A v \in Rows(b.pages[i].ids) : Assessed(b, b.pages[i], v)
                BY <3>3 DEF AllAssessed
            <3>. QED BY <1>1, <3>4, <3>5, PageAdded
        <2>. QED BY <2>3, <2>4
    <1>7. CASE Refused
        <2>1. series'.pages = << >>
            BY <1>7 DEF Refused, Blank
        <2>. QED BY <2>1 DEF AllAssessed
    <1>. QED BY <1>3, <1>4, <1>5, <1>6, <1>7 DEF Next

-----------------------------------------------------------------------------
(***************************************************************************)
(* The theorems.                                                            *)
(***************************************************************************)
LEMMA InitInv == Init => PagesInv
    <1>. SUFFICES ASSUME Init PROVE PagesInv
        OBVIOUS
    <1>1. PICK claims \in Vaults :
             /\ seq = Len(claims)
             /\ versions = {[id |-> i, claim |-> claims[i], retired |-> NULL] : i \in DOMAIN claims}
        BY DEF Init
    <1>2. claims \in Seq(Claim) /\ Len(claims) <= MaxSeq /\ Len(claims) \in Nat /\ MaxSeq \in Nat
          /\ DOMAIN claims = 1 .. Len(claims)
        BY PagesAssumption
    <1>3. seq \in 0 .. MaxSeq /\ seq \in Nat
        BY <1>1, <1>2
    <1>. DEFINE f == [i \in 1 .. Len(claims) |-> [id |-> i, claim |-> claims[i], retired |-> NULL]]
    <1>4. IsFiniteSet(versions)
        <2>1. f \in Surjection(1 .. Len(claims), versions)
            BY <1>1, <1>2 DEF Surjection
        <2>2. \A n \in Nat : IsFiniteSet(1 .. n)
            BY FS_Interval
        <2>. HIDE DEF f
        <2>. QED BY <1>2, <2>1, <2>2, FS_Surjection
    <1>5. \A i \in 1 .. Len(claims) : i \in 1 .. MaxSeq /\ i <= seq /\ claims[i] \in Claim
        BY <1>1, <1>2
    <1>6. VersionsInv
        <2>1. versions \subseteq Version
            BY <1>1, <1>2, <1>5 DEF Version, NULL
        <2>2. \A v \in versions : v.id <= seq
            BY <1>1, <1>2, <1>5
        <2>3. \A v, w \in versions : v.id = w.id => v = w
            BY <1>1
        <2>. QED BY <1>4, <2>1, <2>2, <2>3 DEF VersionsInv
    <1>7. CursorsInv
        <2>1. cursors = << >>
            BY DEF Init
        <2>. QED BY <2>1, PagesAssumption DEF CursorsInv
    <1>8. series = Blank
        BY DEF Init
    <1>9. SeriesType
        BY <1>8, BlankTyped, <1>3 DEF SeriesType
    <1>. QED BY <1>3, <1>6, <1>7, <1>8, <1>9 DEF PagesInv, TypesInv, SeriesInv, Blank

LEMMA NextInv == PagesInv /\ [Next]_vars => PagesInv'
    <1>. SUFFICES ASSUME PagesInv, [Next]_vars PROVE PagesInv'
        OBVIOUS
    <1>1. CASE Ledger
        BY <1>1, LedgerRows, LedgerKeeps
    <1>2. CASE ExpireCursor
        <2>1. cursors' = Tail(cursors) /\ cursors # <<>> /\ CursorsInv
            BY <1>2 DEF ExpireCursor, PagesInv, TypesInv
        <2>2. LET left == Tail(cursors)
              IN  /\ left \in Seq(Cursor) /\ Len(left) + 1 = Len(cursors)
                  /\ \A i, j \in DOMAIN left : left[i].token = left[j].token => i = j
                  /\ Range(left) \subseteq Range(cursors)
            BY <2>1, OldestGoes
        <2>3. Len(cursors') <= MaxCursors
            <3>1. Len(cursors') \in Nat /\ Len(cursors) \in Nat /\ MaxCursors \in Nat /\ Len(cursors) <= MaxCursors
                  /\ Len(cursors') + 1 = Len(cursors)
                BY <2>1, <2>2, PagesAssumption DEF CursorsInv
            <3>. QED BY <3>1
        <2>4. CursorsInv' /\ Range(cursors)' \subseteq Range(cursors)
            BY <2>1, <2>2, <2>3 DEF CursorsInv, Range
        <2>. QED BY <1>2, <2>4, CursorsLost DEF ExpireCursor
    <1>3. CASE Restart
        <2>1. cursors' = << >>
            BY <1>3 DEF Restart
        <2>2. CursorsInv' /\ Range(cursors)' = {}
            BY <2>1, PagesAssumption DEF CursorsInv, Range
        <2>. QED BY <1>3, <2>2, CursorsLost DEF Restart
    <1>4. CASE \E r \in Reader, q \in Query, n \in 1 .. PageLimit : First(r, q, n)
        BY <1>4, FirstStep
    <1>5. CASE \E q \in Query, n \in 1 .. PageLimit, lost \in BOOLEAN : Continue(q, n, lost)
        BY <1>5, ContinueStep
    <1>6. CASE Refused
        <2>1. series' = Blank /\ UNCHANGED <<seq, versions, cursors>>
            BY <1>6 DEF Refused
        <2>2. SeriesType'
            BY <2>1, BlankTyped, PagesAssumption DEF SeriesType, PagesInv, TypesInv
        <2>3. VersionsInv' /\ CursorsInv' /\ (seq \in 0 .. MaxSeq)'
            BY <2>1 DEF VersionsInv, CursorsInv, PagesInv, TypesInv
        <2>. QED BY <2>1, <2>2, <2>3 DEF PagesInv, TypesInv, SeriesInv, Blank
    <1>7. CASE UNCHANGED vars
        <2>1. CursorsInv' /\ Range(cursors)' = Range(cursors)
            BY <1>7 DEF vars, CursorsInv, Range, PagesInv, TypesInv
        <2>. QED BY <1>7, <2>1, CursorsLost DEF vars
    <1>. QED BY <1>1, <1>2, <1>3, <1>4, <1>5, <1>6, <1>7 DEF Next

\* The inductive invariant: the rows, the cursors and the pages of the series
\* belong together (kernel.py search, context and show; pagination.py).
THEOREM Invariant == Spec => []PagesInv
    BY InitInv, NextInv, PTL DEF Spec

\* The vault, the daemon's cursors and the series keep their types, the cursors
\* stay within MAX_CURSORS and no two have the same token.
THEOREM TypeCorrect == Spec => []TypeOK
    <1>1. PagesInv => TypeOK
        <2>. SUFFICES ASSUME PagesInv PROVE TypeOK
            OBVIOUS
        <2>1. \A i \in DOMAIN cursors : cursors[i] \in Cursor
            BY DEF PagesInv, TypesInv, CursorsInv
        <2>2. \A i \in DOMAIN series.pages : series.pages[i].ids \subseteq 1 .. MaxSeq
            <3>1. CASE series.status = "none"
                BY <3>1 DEF PagesInv, SeriesInv, Blank
            <3>2. CASE series.status # "none"
                <4>1. ShownOf(series) \subseteq series.owed
                    BY <3>2 DEF PagesInv, SeriesInv, Follows, Disjoint
                <4>2. series.owed \subseteq 1 .. seq
                    BY DEF PagesInv, TypesInv, SeriesType
                <4>3. 1 .. seq \subseteq 1 .. MaxSeq
                    BY PagesAssumption DEF PagesInv, TypesInv
                <4>. QED BY <4>1, <4>2, <4>3 DEF ShownOf
            <3>. QED BY <3>1, <3>2
        <2>3. /\ series.status \in {"none", "open", "done"} /\ series.reader \in Reader
              /\ series.query \in Query \cup {None} /\ series.token \in Token \cup {None}
            BY DEF PagesInv, TypesInv, SeriesType
        <2>. QED BY <2>1, <2>2, <2>3 DEF TypeOK, PagesInv, TypesInv, VersionsInv, CursorsInv
    <1>. QED BY Invariant, <1>1, PTL

\* The pages of a query tile its snapshot (kernel.py 1184-1189, 1465-1466 and
\* 1576-1582), for every order of writes, corrections, expiries and forgets
\* between the pages, every page size and every answer that is lost.
THEOREM Tiles == Spec => []PagesTile
    <1>1. PagesInv => PagesTile
        <2>. SUFFICES ASSUME PagesInv PROVE PagesTile
            OBVIOUS
        <2>1. CASE series.status = "none"
            BY <2>1 DEF PagesInv, SeriesInv, Blank, PagesTile, Shown
        <2>2. CASE series.status # "none"
            <3>1. PICK exact \in BOOLEAN : Follows(series, exact)
                BY <2>2 DEF PagesInv, SeriesInv
            <3>2. Shown = ShownOf(series)
                BY DEF Shown, ShownOf
            <3>. QED BY <3>1, <3>2 DEF Follows, Disjoint, PagesTile
        <2>. QED BY <2>1, <2>2
    <1>. QED BY Invariant, <1>1, PTL

\* What a page of several showed can be fetched with the receipt of that page
\* (kernel.py 1191-1200 and 1355-1391) until it is forgotten.
THEOREM ReceiptsHold == Spec => []ReceiptsResolve
    <1>1. PagesInv => ReceiptsResolve
        <2>. SUFFICES ASSUME PagesInv, Len(series.pages) > 1 \/ series.status = "open", series.query.op # "show",
                             NEW i \in DOMAIN series.pages, NEW v \in Rows(series.pages[i].ids)
                      PROVE  Fetchable(v, series.pages[i])
            BY DEF ReceiptsResolve
        <2>1. series.status # "none"
            BY DEF PagesInv, SeriesInv, Blank
        <2>2. PICK exact \in BOOLEAN : Follows(series, exact)
            BY <2>1 DEF PagesInv, SeriesInv
        <2>3. series.pages[i].asOf = series.recorded
            BY <2>2 DEF Follows, Pinned
        <2>4. series.recorded # None
            <3>1. series.recorded \in 0 .. seq /\ seq \in Nat
                BY PagesAssumption DEF PagesInv, TypesInv, SeriesType
            <3>2. series.recorded \in Nat
                BY <3>1
            <3>. QED BY <3>2, PagesAssumption
        <2>5. v \in versions /\ v.id \in ShownOf(series)
            BY DEF Rows, ShownOf
        <2>6. Eligible(v, series.reader, series.recorded, series.query)
            BY <2>2, <2>5 DEF Follows, Disjoint, Owes, Selects
        <2>. QED BY <2>3, <2>4, <2>6 DEF Fetchable
    <1>. QED BY Invariant, <1>1, PTL

\* The conflict of a card is its connected component among the versions that the
\* reader may see at the snapshot (projection.py conflict_groups, kernel.py
\* _conflict_projection), on whichever page the card came and whatever was
\* written, corrected, expired or forgotten since; a thread too large to assess
\* says so, and a context that calls itself complete shows every dispute whole.
THEOREM DisputesRight == Spec => []DisputesAreComponents
    <1>1. Init => AllAssessed
        BY DEF Init, Blank, AllAssessed
    <1>2. AllAssessed => DisputesAreComponents
        BY DisputesAssessed DEF AllAssessed
    <1>. QED BY Invariant, NextAssessed, <1>1, <1>2, PTL DEF Spec

=============================================================================
