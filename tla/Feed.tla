-------------------------------- MODULE Feed --------------------------------
(***************************************************************************)
(* The transaction feed of one user: postings insert rows, a reader walks  *)
(* them newest first, page by page (ListTransactionsPage and               *)
(* listTransactions of the ledger, passed on by bff's                      *)
(* TransactionsService), each page with the cursor the last one gave it.   *)
(*                                                                         *)
(* A row's created_at is the ledger's clock when it is inserted, which is  *)
(* before its posting commits; its id is drawn at random.  A row stands    *)
(* for its id, in the order of the database.                               *)
(***************************************************************************)
EXTENDS Integers, FiniteSets

CONSTANTS
  Rows,          \* the ids of the user's transactions, a set of numbers
  AskedLimits,   \* the values of ?limit=
  DefaultLimit, MaxLimit,
  LastTime       \* bounds the clock

ASSUME FeedBounds ==
  /\ Rows \subseteq Int /\ IsFiniteSet(Rows)
  /\ AskedLimits \subseteq Int
  /\ DefaultLimit \in Nat \ {0} /\ MaxLimit \in Nat \ {0}
  /\ LastTime \in Nat

VARIABLES
  clock,
  row,       \* each row: not there yet, of an open posting, or committed
  createdAt,
  cursor,    \* the last row the reader was shown, or Start
  walking,   \* is it still reading pages?
  items,     \* the page on display
  times,     \* history: how often the walk has shown each row
  older      \* history: the rows that were committed when the walk began

feedVars == <<clock, row, createdAt, cursor, walking, items, times, older>>

Start0 == [id |-> 0, createdAt |-> 0, set |-> FALSE]
Position(r) == [id |-> r, createdAt |-> createdAt[r], set |-> TRUE]

FeedInit ==
  /\ clock = 0
  /\ row = [r \in Rows |-> "none"]
  /\ createdAt = [r \in Rows |-> 0]
  /\ cursor = Start0 /\ walking = FALSE
  /\ items = {} /\ times = [r \in Rows |-> 0] /\ older = {}

(***************************************************************************)
(* Postings                                                                *)
(***************************************************************************)
\* autoCreateTime.
InsertRow(r) ==
  /\ row[r] = "none"
  /\ row' = [row EXCEPT ![r] = "open"]
  /\ createdAt' = [createdAt EXCEPT ![r] = clock]
  /\ UNCHANGED <<clock, cursor, walking, items, times, older>>

TransactionEnds(r, state) ==
  /\ row[r] = "open"
  /\ row' = [row EXCEPT ![r] = state]
  /\ UNCHANGED <<clock, createdAt, cursor, walking, items, times, older>>

\* A posting that is rolled back may be tried again, under a new id.
CommitRow(r) == TransactionEnds(r, "committed")
RollBack(r) == TransactionEnds(r, "gone")

ClockTicks ==
  /\ clock < LastTime /\ clock' = clock + 1
  /\ UNCHANGED <<row, createdAt, cursor, walking, items, times, older>>

(***************************************************************************)
(* Pages                                                                   *)
(***************************************************************************)
ClampLimit(asked) ==
  IF asked <= 0 THEN DefaultLimit ELSE IF asked > MaxLimit THEN MaxLimit ELSE asked

\* Mutant: the position itself is read again.
BelowOrAt(r, c) ==
  c.set => createdAt[r] < c.createdAt \/ (createdAt[r] = c.createdAt /\ r <= c.id)

\* Mutant: the position is the time alone.
BelowInTime(r, c) == c.set => createdAt[r] < c.createdAt

\* (created_at, id) < (?, ?)
Below(r, c) ==
  c.set => createdAt[r] < c.createdAt \/ (createdAt[r] = c.createdAt /\ r < c.id)

Newer(r, s) == createdAt[r] > createdAt[s] \/ (createdAt[r] = createdAt[s] /\ r > s)

Matching(c) == {r \in Rows : row[r] = "committed" /\ Below(r, c)}

\* ORDER BY created_at DESC, id DESC LIMIT n
IsTop(rows, from, n) ==
  /\ rows \subseteq from
  /\ rows = from \/ Cardinality(rows) = n
  /\ Cardinality(rows) <= n
  /\ \A r \in rows, s \in from \ rows : Newer(r, s)

\* One row more than the page is fetched, to know whether there is a next page.
IsPage(batch, more, c, limit) ==
  \E extra \in SUBSET (Matching(c) \ batch) :
    /\ IsTop(batch \union extra, Matching(c), limit + 1)
    /\ more = (Cardinality(batch \union extra) > limit)
    /\ IF more THEN Cardinality(extra) = 1 /\ (\A r \in batch, s \in extra : Newer(r, s))
       ELSE extra = {}

IsLast(r, batch) == r \in batch /\ \A s \in batch \ {r} : Newer(s, r)

\* The reader is given a page, and shows it in place of the last one (the slice
\* has no other way).
ReadPage(asked) ==
  /\ walking
  /\ \E batch \in SUBSET Matching(cursor), more \in BOOLEAN :
       /\ IsPage(batch, more, cursor, ClampLimit(asked))
       /\ \/ more /\ \E last \in batch : IsLast(last, batch) /\ cursor' = Position(last)
          \/ ~more /\ cursor' = Start0
       /\ walking' = more
       /\ items' = batch
       /\ times' = [r \in Rows |-> IF r \in batch THEN times[r] + 1 ELSE times[r]]
  /\ UNCHANGED <<clock, row, createdAt, older>>

\* A first page, by a mount or a reload, begins a new walk.
BeginWalk ==
  /\ ~walking \/ cursor.set
  /\ walking' = TRUE /\ cursor' = Start0
  /\ times' = [r \in Rows |-> 0]
  /\ older' = {r \in Rows : row[r] = "committed"}
  /\ UNCHANGED <<clock, row, createdAt, items>>

FeedNext ==
  \/ \E r \in Rows : InsertRow(r) \/ CommitRow(r) \/ RollBack(r)
  \/ ClockTicks \/ BeginWalk
  \/ \E asked \in AskedLimits : ReadPage(asked)

FeedSpec == FeedInit /\ [][FeedNext]_feedVars

(***************************************************************************)
(* Properties                                                              *)
(***************************************************************************)
\* Every variable has its type.
FeedTypeOK ==
  /\ clock \in Nat
  /\ row \in [Rows -> {"none", "open", "committed", "gone"}]
  /\ createdAt \in [Rows -> Nat]
  /\ cursor \in [id : Int, createdAt : Nat, set : BOOLEAN]
  /\ walking \in BOOLEAN
  /\ items \subseteq Rows
  /\ times \in [Rows -> Nat]
  /\ older \subseteq Rows

\* Whatever is posted while it reads, no walk is shown a row twice
\* (repository.go:219-222: stable under concurrent inserts).
NoRowTwice == \A r \in Rows : times[r] <= 1

\* A walk that has come to the last page has been shown every row that was
\* committed when it began, whatever was posted meanwhile and whatever the size
\* of its pages; one that is under way has missed none above its cursor.
AllShown ==
  \A r \in older : times[r] = 0 => walking /\ Below(r, cursor)
=============================================================================
