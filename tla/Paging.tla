-------------------------------- MODULE Paging --------------------------------
(***************************************************************************)
(* A client that reads a result page by page through one of the SELECT      *)
(* methods of Session and Tx (pkg/db/query.go, query_read.go,               *)
(* transaction.go) or through the command qc query, while another session   *)
(* appends rows to the table.                                               *)
(*                                                                          *)
(* The statement is a SELECT in a fixed order; what matters of it is its    *)
(* own LIMIT and OFFSET, each a set of at most one number.  The client is   *)
(* not part of the repository: it does what has_more is for, it asks for    *)
(* the next page, past the rows it has, until has_more is false.            *)
(***************************************************************************)
EXTENDS Integers

CONSTANTS Methods,                   \* the methods the client may use
          DefaultLimits, MaxLimits,  \* values of Config.DefaultLimit, MaxLimit
          Limits,                    \* limits the client may ask for
          OwnLimits, OwnOffsets,     \* clauses the statement may have
          CursorDefault,             \* the limit of ApplyCursor's own, 100
          MaxRows                    \* bound: rows the table may come to have

AllMethods == {"Query", "QueryWithLimit", "QueryWithOffset", "QueryWithOptions",
               "QueryRead", "TxQuery", "TxQueryWithOffset", "qc query"}

AtMostOne(C) == C \subseteq SUBSET Nat /\ \A c \in C : \A x, y \in c : x = y

ASSUME PagingAssumption ==
  /\ Methods \subseteq AllMethods
  /\ DefaultLimits \subseteq Int /\ MaxLimits \subseteq Int /\ Limits \subseteq Int
  /\ AtMostOne(OwnLimits) /\ AtMostOne(OwnOffsets)
  /\ CursorDefault \in Nat \ {0} /\ MaxRows \in Nat

VARIABLES
  method, limit,           \* what the client calls, and the limit it asks for
  defaultLimit, maxLimit,  \* the session's configuration
  ownLimit, ownOffset,     \* the statement's clauses
  rows,     \* rows the table has
  initial,  \* rows it had at first
  pc,       \* "paging", then "stopped" or "failed"
  offset,   \* rows the client has received: the offset of the next page
  count,    \* rows of the last page
  hasMore,  \* QueryResult.HasMore of the last page
  seen,     \* the rows received
  twice     \* the rows received more than once

request == <<method, limit, defaultLimit, maxLimit, ownLimit, ownOffset, initial>>
reading == <<pc, offset, count, hasMore, seen, twice>>
vars == <<request, rows, reading>>

Init ==
  /\ method \in Methods /\ limit \in Limits
  /\ defaultLimit \in DefaultLimits /\ maxLimit \in MaxLimits
  /\ ownLimit \in OwnLimits /\ ownOffset \in OwnOffsets
  /\ rows \in 0..MaxRows /\ initial = rows
  /\ pc = "paging" /\ offset = 0 /\ count = 0 /\ hasMore = TRUE
  /\ seen = {} /\ twice = {}

HasLIMIT  == ownLimit # {}
HasOFFSET == ownOffset # {}

-----------------------------------------------------------------------------
\* The methods.

\* runMain: qc query picks a method by the flags it is given.
Called ==
  IF method # "qc query" THEN method
  ELSE IF offset > 0 THEN "QueryWithOffset"
  ELSE IF limit > 0 THEN "QueryWithLimit" ELSE "Query"

\* Methods that take no limit pass 0, or take the default at once.
Asked == IF Called \in {"Query", "QueryRead", "TxQuery"} THEN 0 ELSE limit

\* Faulty: the limit is not capped.
EnforceLimitUncapped == IF Asked <= 0 THEN defaultLimit ELSE Asked

\* appliedLimit, of a statement without a LIMIT.
EnforceLimit ==
  LET wanted == IF Asked <= 0 THEN defaultLimit ELSE Asked
  IN  IF wanted > maxLimit THEN maxLimit ELSE wanted

\* ApplyCursor has a default and a cap of its own.
ApplyCursor(l) ==
  LET wanted == IF l <= 0 THEN CursorDefault ELSE l
  IN  IF maxLimit > 0 /\ wanted > maxLimit THEN maxLimit ELSE wanted

\* The only element of a clause's set.
Value(clause) == CHOOSE x \in clause : TRUE

LimitSent ==
  IF HasLIMIT THEN Value(ownLimit)
  ELSE IF Called = "QueryWithOptions" THEN ApplyCursor(EnforceLimit)
  ELSE EnforceLimit

\* Faulty: OFFSET is appended to a statement that has its own LIMIT only.
OffsetSentWithLimit ==
  IF HasOFFSET THEN Value(ownOffset) ELSE IF HasLIMIT THEN offset ELSE 0

\* The first page has no OFFSET appended: 0.
OffsetSent == IF HasOFFSET THEN Value(ownOffset) ELSE offset

\* ApplyCursor refuses a negative limit, and appends its OFFSET to a statement
\* that has one; no database takes two.
Malformed ==
  /\ Called = "QueryWithOptions" /\ ~HasLIMIT
  /\ EnforceLimit < 0 \/ (HasOFFSET /\ offset > 0)

\* Faulty: has_more does not ask whether a limit was applied.
HasMoreUnguarded(n) ==
  /\ Called # "QueryRead" /\ ~HasLIMIT
  /\ n >= EnforceLimit

\* Faulty: a full page is taken for the last one.
HasMoreBeyond(n) ==
  /\ Called # "QueryRead" /\ ~HasLIMIT
  /\ EnforceLimit > 0 /\ n > EnforceLimit

\* QueryRead leaves HasMore false; so does every method for a statement with a
\* LIMIT of its own, whose appliedLimit is 0.
HasMore(n) ==
  /\ Called # "QueryRead" /\ ~HasLIMIT
  /\ EnforceLimit > 0 /\ n >= EnforceLimit

TakesOffset ==
  method \in {"QueryWithOffset", "QueryWithOptions", "TxQueryWithOffset", "qc query"}

-----------------------------------------------------------------------------
\* The last row of a page; a negative LIMIT is none, where the database takes it.
LastRow == IF LimitSent < 0 \/ OffsetSent + LimitSent > rows
           THEN rows ELSE OffsetSent + LimitSent
Page == (OffsetSent + 1)..LastRow
PageCount == IF LastRow > OffsetSent THEN LastRow - OffsetSent ELSE 0

\* The bound is only met by a statement with its own OFFSET, whose pages are
\* all alike.
FetchPage ==
  /\ pc = "paging" /\ ~Malformed /\ offset <= MaxRows
  /\ seen' = seen \cup Page /\ twice' = twice \cup (seen \cap Page)
  /\ count' = PageCount /\ offset' = offset + PageCount
  /\ hasMore' = HasMore(PageCount)
  /\ pc' = IF hasMore' /\ TakesOffset THEN "paging" ELSE "stopped"
  /\ UNCHANGED <<request, rows>>

FetchFails == \* refused before it is sent, by the database, or by the context
  /\ pc = "paging" /\ pc' = "failed"
  /\ UNCHANGED <<request, rows, offset, count, hasMore, seen, twice>>

AppendRow == \* another session
  /\ rows < MaxRows /\ rows' = rows + 1
  /\ UNCHANGED <<request, reading>>

Next == FetchPage \/ FetchFails \/ AppendRow

Spec == Init /\ [][Next]_vars

\* The client goes on asking, and a page comes or a malformed statement fails.
\* No other failure is promised: an endless repetition of one page is endless.
FairSpec == Spec /\ WF_vars(FetchPage) /\ WF_vars(Malformed /\ FetchFails)

-----------------------------------------------------------------------------
\* Properties.

\* A configuration in which both limits mean something, and a statement that
\* leaves the paging to the library.
Positive == defaultLimit > 0 /\ maxLimit > 0
Plain == Positive /\ ~HasLIMIT /\ ~HasOFFSET

\* product-plan.md, F-05: "has_more flag indicates incomplete results".  When
\* it is false at last, the client has every row that was there at first,
\* whatever limits were asked for, capped and rounded up to defaults on the
\* way, and whichever methods qc query went through.  (QueryRead never sets
\* HasMore, though it cuts a SELECT at DefaultLimit.)
NothingSkipped ==
  pc = "stopped" /\ ~hasMore /\ Plain /\ Called # "QueryRead" => 1..initial \subseteq seen

\* No row comes twice, be it that the table grows between the pages.
NothingTwice == ~HasOFFSET => twice = {}

\* No page has more rows than MaxLimit, nor than the client asked for, unless
\* the statement's own LIMIT says so.
PageFits ==
  Positive /\ ~HasLIMIT =>
    /\ count <= maxLimit
    /\ Asked > 0 => count <= Asked

\* A client that goes on while has_more is true comes to an end, under every
\* configuration, a limit of 0 included.
PagingEnds == (pc = "paging" /\ ~HasOFFSET) ~> (pc # "paging")

-----------------------------------------------------------------------------
\* The inductive invariant the proofs rest on.

TypeOK ==
  /\ method \in Methods /\ limit \in Limits
  /\ defaultLimit \in DefaultLimits /\ maxLimit \in MaxLimits
  /\ ownLimit \in OwnLimits /\ ownOffset \in OwnOffsets
  /\ rows \in 0..MaxRows /\ initial \in 0..rows
  /\ pc \in {"paging", "stopped", "failed"}
  /\ offset \in Nat /\ count \in Nat /\ hasMore \in BOOLEAN
  /\ seen \subseteq 1..rows /\ twice \subseteq seen

\* The client has the rows up to its offset; a client that still pages has had
\* has_more true.
PrefixSeen == ~HasOFFSET =>
  /\ offset <= rows /\ seen = 1..offset /\ twice = {}
  /\ pc = "stopped" /\ ~hasMore /\ Plain /\ Called # "QueryRead" => initial <= offset
  /\ pc = "paging" => hasMore

Inv == TypeOK /\ PrefixSeen /\ PageFits

=============================================================================
