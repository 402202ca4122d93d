------------------------------ MODULE Listings ------------------------------
(* Lists that are read page by page while rows are added.  Policies and fraud *)
(* clusters are read by cursor, their first page from a cache; claims,        *)
(* payouts and audit logs by offset.  A row's time is taken before its        *)
(* transaction commits, so a row that appears later can be dated earlier.     *)
(* Rows of these lists are never deleted, and the filters are on columns that *)
(* do not change.                                                             *)
EXTENDS Naturals, FiniteSets

CONSTANTS Readers, \* callers that walk through a list
          Rows,    \* rows that can be added: [at, id], one for every id
          Limit,   \* rows of a page
          NoCursor \* the cursor before the first page and after the last

ASSUME ListingAssumption ==
    /\ \A r \in Rows : r \in [at: Nat, id: Nat]
    /\ \A r, s \in Rows : r.id = s.id => r = s
    /\ Limit \in Nat \ {0}
    /\ NoCursor \notin Rows

VARIABLES rows,      \* the committed rows
          firstPage, \* the cached first page, or NoPage
          unsaved,   \* first pages that were read and are not cached yet
          reader     \* how far every caller has come

listVars == <<rows, firstPage, unsaved, reader>>

Fresh == [by |-> "none", shown |-> {}, cursor |-> NoCursor, pages |-> 0, known |-> {}, done |-> FALSE]
NoPage == [page |-> {}, next |-> NoCursor, known |-> {}]

ListInit == rows = {} /\ firstPage = NoPage /\ unsaved = {} /\ reader = [v \in Readers |-> Fresh]

AtMostOf(n, m) == IF n <= m THEN n ELSE m

\* Newest first, the id deciding between rows of one time.
Newer(r, s) == r.at > s.at \/ (r.at = s.at /\ r.id > s.id)

\* Faulty variant: the cursor holds the time alone.
BeyondByTime(cursor) == {r \in rows : cursor = NoCursor \/ cursor.at > r.at}

Beyond(cursor) == {r \in rows : cursor = NoCursor \/ Newer(cursor, r)}

\* a.page holds the newest rows of S; a.next is its last row if there are more.
Answers(a, S) ==
    /\ a.page \subseteq S
    /\ \A p \in a.page, q \in S \ a.page : Newer(p, q)
    /\ IF Cardinality(S) <= Limit
       THEN a.page = S /\ a.next = NoCursor
       ELSE /\ Cardinality(a.page) = Limit
            /\ a.next \in a.page
            /\ \A p \in a.page : p = a.next \/ Newer(p, a.next)

\* A policy is bought, a cluster found, a claim filed, a payout made.
AddRow ==
    /\ \E r \in Rows \ rows : rows' = rows \cup {r}
    /\ UNCHANGED <<firstPage, unsaved, reader>>

\* The cache expires, or a write to the list drops it.
Forget ==
    /\ firstPage' = NoPage
    /\ UNCHANGED <<rows, unsaved, reader>>

Turn(v, a, known) ==
    reader' = [reader EXCEPT ![v] = [by |-> "cursor", shown |-> @.shown \cup a.page,
                                     cursor |-> a.next, pages |-> @.pages + 1,
                                     known |-> known, done |-> a.next = NoCursor]]

CachedFirstPage(v) ==
    /\ reader[v] = Fresh
    /\ firstPage # NoPage
    /\ Turn(v, firstPage, firstPage.known)
    /\ UNCHANGED <<rows, firstPage, unsaved>>

\* Redis may not answer: the table is then read as if nothing were cached.
FirstPage(v) ==
    /\ reader[v] = Fresh
    /\ \E page \in SUBSET rows, next \in rows \cup {NoCursor} :
           LET a == [page |-> page, next |-> next, known |-> rows] IN
           /\ Answers(a, rows)
           /\ Turn(v, a, rows)
           /\ unsaved' = unsaved \cup {a}
    /\ UNCHANGED <<rows, firstPage>>

\* Whatever was written or forgotten since the page was read.
SavePage ==
    /\ \E a \in unsaved : firstPage' \in {a, firstPage} /\ unsaved' = unsaved \ {a}
    /\ UNCHANGED <<rows, reader>>

NextPage(v) ==
    /\ reader[v].by = "cursor" /\ ~reader[v].done
    /\ \E page \in SUBSET rows, next \in rows \cup {NoCursor} :
           LET a == [page |-> page, next |-> next] IN
           /\ Answers(a, Beyond(reader[v].cursor))
           /\ Turn(v, a, reader[v].known)
    /\ UNCHANGED <<rows, firstPage, unsaved>>

\* OFFSET n LIMIT Limit: n rows, or all there are, come before the page.
Slice(before, page, n) ==
    /\ Cardinality(before) = AtMostOf(n, Cardinality(rows))
    /\ Cardinality(page) = AtMostOf(Limit, Cardinality(rows) - Cardinality(before))

\* What ORDER BY time DESC OFFSET n LIMIT can return: rows of one time come in
\* any order, anew for every page.
Window(page, n) ==
    \E before \in SUBSET (rows \ page) :
        LET after == (rows \ page) \ before IN
        /\ Slice(before, page, n)
        /\ \A r \in before, s \in page \cup after : r.at >= s.at
        /\ \A r \in page, s \in after : r.at >= s.at

\* The caller goes on until a page comes back short.
OffsetPage(v) ==
    /\ reader[v].by # "cursor" /\ ~reader[v].done
    /\ \E page \in SUBSET rows :
           /\ Window(page, reader[v].pages * Limit)
           /\ reader' = [reader EXCEPT ![v] =
                  [by |-> "offset", shown |-> @.shown \cup page, cursor |-> NoCursor,
                   pages |-> @.pages + 1, done |-> Cardinality(page) < Limit,
                   known |-> IF @.pages = 0 THEN rows ELSE @.known]]
    /\ UNCHANGED <<rows, firstPage, unsaved>>

ListNext ==
    \/ AddRow \/ Forget \/ SavePage
    \/ \E v \in Readers : CachedFirstPage(v) \/ FirstPage(v) \/ NextPage(v) \/ OffsetPage(v)

ListSpec == ListInit /\ [][ListNext]_listVars

\* A caller that has come to the end was shown every row that was there when
\* its first page was made, and by cursor no row a second time, whatever was
\* added meanwhile.  An offset can lose a row that shares its time with
\* another: the order by time alone lets two pages arrange them differently.
WalksComplete ==
    \A v \in Readers :
        LET walk == reader[v]
            Tied(r) == \E s \in rows \ {r} : s.at = r.at
        IN  /\ walk.done => \A r \in walk.known \ walk.shown : walk.by = "offset" /\ Tied(r)
            /\ walk.cursor # NoCursor => walk.shown \cap Beyond(walk.cursor) = {}
=============================================================================
