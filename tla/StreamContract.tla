---------------------------- MODULE StreamContract ----------------------------
(***************************************************************************)
(* What a session promises to the consumers of its streams, said without    *)
(* the channel and its buffer, the goroutine and its deferred calls, the    *)
(* contexts and the counter of slots.                                       *)
(*                                                                          *)
(*   - A stream is opened while fewer than the limit are running.           *)
(*   - Next gives the rows of the result, each once; it tells the end when  *)
(*     the query is over, and then either the query has failed or every row *)
(*     has been given.                                                      *)
(*   - At most as many queries as the pool has connections hold one; a      *)
(*     query that is over never takes one again.                            *)
(*   - What has been told at the end does not change.                       *)
(***************************************************************************)
EXTENDS Integers, FiniteSets

CONSTANTS Streams, Results, MaxOpenConns

VARIABLES
  limit,      \* Config.MaxConcurrentQueries
  consumer,   \* consumer[s]: "none", "open", or in a "next"
  query,      \* query[s]: "none", "asked", "answered", "over", "gone"
  conn,       \* conn[s]: the query holds a connection
  length,     \* length[s]: rows of the result
  given,      \* given[s]: rows the consumer has been given
  failed,     \* failed[s]: StreamResult.Err, once the end is told
  end         \* end[s]: "no", "closed" by the consumer, or "told" by Next

vars == <<limit, consumer, query, conn, length, given, failed, end>>

Running == {s \in Streams : query[s] \notin {"none", "gone"}}
ConnsInUse == Cardinality({s \in Streams : conn[s]})

Fresh(x) == [s \in Streams |-> x]

Init ==
  /\ limit \in Int
  /\ consumer = Fresh("none") /\ query = Fresh("none") /\ conn = Fresh(FALSE)
  /\ length = Fresh(0) /\ given = Fresh(0)
  /\ failed = Fresh(FALSE) /\ end = Fresh("no")

QueryIs(s, q) == query' = [query EXCEPT ![s] = q]
Consumes(s, l) == consumer' = [consumer EXCEPT ![s] = l]
Disconnects(s) == conn' = [conn EXCEPT ![s] = FALSE]

-----------------------------------------------------------------------------
\* The query.

Open(s) ==
  /\ consumer[s] = "none"
  /\ limit <= 0 \/ Cardinality(Running) < limit
  /\ Consumes(s, "open") /\ QueryIs(s, "asked")
  /\ UNCHANGED <<limit, conn, length, given, failed, end>>

Connect(s) ==
  /\ query[s] = "asked" /\ ~conn[s] /\ ConnsInUse < MaxOpenConns
  /\ conn' = [conn EXCEPT ![s] = TRUE]
  /\ UNCHANGED <<limit, consumer, query, length, given, failed, end>>

Answer(s) ==
  /\ query[s] = "asked" /\ conn[s]
  /\ \E n \in Results : length' = [length EXCEPT ![s] = n]
  /\ QueryIs(s, "answered")
  /\ UNCHANGED <<limit, consumer, conn, given, failed, end>>

\* By the database, by the context, or by a row that cannot be read.
Fail(s) ==
  /\ query[s] \in {"asked", "answered"}
  /\ failed' = [failed EXCEPT ![s] = TRUE] /\ QueryIs(s, "over")
  /\ Disconnects(s) \/ UNCHANGED conn
  /\ UNCHANGED <<limit, consumer, length, given, end>>

\* Every row is on its way, or the consumer has closed the stream.
Finish(s) ==
  /\ query[s] = "answered" /\ QueryIs(s, "over")
  /\ Disconnects(s) \/ (end[s] = "closed" /\ UNCHANGED conn)
  /\ UNCHANGED <<limit, consumer, length, given, failed, end>>

Disconnect(s) ==
  /\ query[s] = "over" /\ conn[s] /\ Disconnects(s)
  /\ UNCHANGED <<limit, consumer, query, length, given, failed, end>>

\* The slot is free.
Leave(s) ==
  /\ query[s] = "over" /\ ~conn[s] /\ QueryIs(s, "gone")
  /\ UNCHANGED <<limit, consumer, conn, length, given, failed, end>>

-----------------------------------------------------------------------------
\* The consumer.

CallNext(s) ==
  /\ consumer[s] = "open" /\ end[s] = "no" /\ Consumes(s, "next")
  /\ UNCHANGED <<limit, query, conn, length, given, failed, end>>

GiveRow(s) ==
  /\ consumer[s] = "next" /\ given[s] < length[s]
  /\ given' = [given EXCEPT ![s] = @ + 1] /\ Consumes(s, "open")
  /\ UNCHANGED <<limit, query, conn, length, failed, end>>

TellEnd(s) ==
  /\ consumer[s] = "next" /\ query[s] \in {"over", "gone"} /\ ~conn[s]
  /\ failed[s] \/ given[s] = length[s]
  /\ end' = [end EXCEPT ![s] = "told"] /\ Consumes(s, "open")
  /\ UNCHANGED <<limit, query, conn, length, given, failed>>

Close(s) ==
  /\ consumer[s] = "open" /\ end[s] = "no"
  /\ end' = [end EXCEPT ![s] = "closed"]
  /\ UNCHANGED <<limit, consumer, query, conn, length, given, failed>>

\* The identifier stands for a new stream.
Forget(s) ==
  /\ consumer[s] = "open" /\ query[s] = "gone"
  /\ Consumes(s, "none") /\ QueryIs(s, "none")
  /\ length' = [length EXCEPT ![s] = 0] /\ given' = [given EXCEPT ![s] = 0]
  /\ failed' = [failed EXCEPT ![s] = FALSE] /\ end' = [end EXCEPT ![s] = "no"]
  /\ UNCHANGED <<limit, conn>>

Next == \E s \in Streams :
  \/ Open(s) \/ Connect(s) \/ Answer(s) \/ Fail(s) \/ Finish(s)
  \/ Disconnect(s) \/ Leave(s)
  \/ CallNext(s) \/ GiveRow(s) \/ TellEnd(s) \/ Close(s) \/ Forget(s)

Spec == Init /\ [][Next]_vars
===============================================================================
