-------------------------------- MODULE Stream --------------------------------
(***************************************************************************)
(* The streams of one Session: Session.QueryStream of pkg/db/stream.go with *)
(* its producer goroutine, the StreamResult of pkg/result/result.go its     *)
(* consumer reads, the session's concurrency slots and its pool.            *)
(*                                                                          *)
(* A stream has a producer, which runs the query and sends its rows into a  *)
(* buffered channel, and one consumer, which calls Next and Close in        *)
(* any order and may stop calling at any time.  The channel is FIFO, so     *)
(* counting the rows sent and received says what it holds.  When both sides *)
(* are through with a stream its identifier is used again.                  *)
(***************************************************************************)
EXTENDS Integers, FiniteSets

CONSTANTS Streams,          \* identifiers of the streams
          Results,          \* how many rows a result may have
          WithDeadline,     \* streams whose query context has a deadline: from
                            \* QueryTimeout or from the caller's context
          StreamBatchSize,  \* Config.StreamBatchSize
          MaxOpenConns,     \* connections of the pool
          Limits            \* values of Config.MaxConcurrentQueries

ASSUME StreamAssumption ==
  /\ IsFiniteSet(Streams) /\ WithDeadline \subseteq Streams
  /\ Results \subseteq Nat /\ MaxOpenConns \in Nat \ {0}
  /\ StreamBatchSize \in Int /\ Limits \subseteq Int /\ Limits # {}

VARIABLES
  limit,       \* Config.MaxConcurrentQueries
  active,      \* Session.active: slots taken
  consumer,    \* consumer[s]: what the consumer of s is doing
  producer,    \* producer[s]: where the producer goroutine of s is
  ctxDone,     \* the query context is done: its deadline, or the caller's
  conn,        \* the producer's query holds a connection
  total,       \* rows of the result, once the query is answered
  sent, got,   \* rows sent into rowChan, received from it
  closed,      \* StreamResult.closed
  doneClosed,  \* StreamResult.done is closed
  prodDone,    \* StreamResult.prodDone is closed
  chanClosed,  \* rowChan is closed
  err,         \* StreamResult.err
  eof          \* a Next found rowChan closed

pool    == <<limit, active>>
rowVars == <<total, sent, got>>
srVars  == <<closed, doneClosed, prodDone, chanClosed, err>>
vars == <<pool, consumer, producer, ctxDone, conn, rowVars, srVars, eof>>

\* The producer's places: its body, then its deferred calls in their order.
Body     == {"start", "conn", "asking", "scan", "send"}
Deferred == {"rowsClose", "signal", "closeChan", "release"}

\* make(chan result.StreamRow, bufSize)
BufSize == IF StreamBatchSize <= 0 THEN 50 ELSE StreamBatchSize
Buffered(s) == sent[s] - got[s]

Fresh(x) == [s \in Streams |-> x]

Init ==
  /\ limit \in Limits /\ active = 0
  /\ consumer = Fresh("none") /\ producer = Fresh("none")
  /\ ctxDone = Fresh(FALSE) /\ conn = Fresh(FALSE)
  /\ total = Fresh(0) /\ sent = Fresh(0) /\ got = Fresh(0)
  /\ closed = Fresh(FALSE) /\ doneClosed = Fresh(FALSE)
  /\ prodDone = Fresh(FALSE) /\ chanClosed = Fresh(FALSE)
  /\ err = Fresh("nil") /\ eof = Fresh(FALSE)

-----------------------------------------------------------------------------
\* QueryStream, in the caller's goroutine.

\* Faulty: one slot more than the limit.
SlotFreeOffByOne == limit <= 0 \/ active <= limit
SlotFree == limit <= 0 \/ active < limit
AcquireSlot == SlotFree /\ active' = (IF limit <= 0 THEN active ELSE active + 1)
ReleaseSlot == active' = IF limit <= 0 THEN active ELSE active - 1

\* A statement that is no SELECT, or a session without a free slot, gets an
\* error and changes nothing.
QueryStream(s) ==
  /\ consumer[s] = "none"
  /\ AcquireSlot /\ UNCHANGED limit
  /\ consumer' = [consumer EXCEPT ![s] = "open"]
  /\ producer' = [producer EXCEPT ![s] = "start"]
  /\ UNCHANGED <<ctxDone, conn, rowVars, srVars, eof>>

-----------------------------------------------------------------------------
\* The producer goroutine.

Step(s, l) == producer' = [producer EXCEPT ![s] = l]
SetError(s) == err' = [err EXCEPT ![s] = "error"]
FreeConn(s) == conn' = [conn EXCEPT ![s] = FALSE]
ConnsInUse == Cardinality({s \in Streams : conn[s]})

\* Faulty: a cancelled context leaves without the deferred calls.
ProducerStartsLeaks(s) ==
  /\ producer[s] = "start"
  /\ \/ ctxDone[s] /\ SetError(s) /\ Step(s, "exited")
     \/ ~ctxDone[s] /\ Step(s, "conn") /\ UNCHANGED err
  /\ UNCHANGED <<pool, consumer, ctxDone, conn, rowVars, closed, doneClosed, prodDone, chanClosed, eof>>

\* The context is looked at once before the query.
ProducerStarts(s) ==
  /\ producer[s] = "start"
  /\ \/ ctxDone[s] /\ SetError(s) /\ Step(s, "signal")
     \/ ~ctxDone[s] /\ Step(s, "conn") /\ UNCHANGED err
  /\ UNCHANGED <<pool, consumer, ctxDone, conn, rowVars, closed, doneClosed, prodDone, chanClosed, eof>>

\* Faulty: Queryx, without the context, waits for a connection for ever.
GetConnWithoutContext(s) ==
  /\ producer[s] = "conn" /\ ConnsInUse < MaxOpenConns
  /\ conn' = [conn EXCEPT ![s] = TRUE] /\ Step(s, "asking")
  /\ UNCHANGED <<pool, consumer, ctxDone, rowVars, srVars, eof>>

\* QueryxContext waits for a connection of the pool until its context is done;
\* nobody listens to StreamResult.Done() here.
GetConn(s) ==
  /\ producer[s] = "conn"
  /\ \/ /\ ConnsInUse < MaxOpenConns
        /\ conn' = [conn EXCEPT ![s] = TRUE]
        /\ Step(s, "asking") /\ UNCHANGED err
     \/ /\ ctxDone[s]
        /\ SetError(s) /\ Step(s, "signal") /\ UNCHANGED conn
  /\ UNCHANGED <<pool, consumer, ctxDone, rowVars, closed, doneClosed, prodDone, chanClosed, eof>>

\* The database answers the query: a result, its columns, or an error.
QueryAnswers(s) ==
  /\ producer[s] = "asking"
  /\ \/ /\ \E n \in Results : total' = [total EXCEPT ![s] = n]
        /\ Step(s, "scan") /\ UNCHANGED <<conn, err>>
     \/ /\ SetError(s) /\ FreeConn(s)
        /\ Step(s, "signal") /\ UNCHANGED total
     \/ \* rows.Columns fails: rows.Close is deferred already
        /\ SetError(s)
        /\ Step(s, "rowsClose") /\ UNCHANGED <<conn, total>>
  /\ UNCHANGED <<pool, consumer, ctxDone, sent, got, closed, doneClosed, prodDone, chanClosed, eof>>

\* Faulty: rows.Err is not looked at when rows.Next answers false.
NextRowWithoutErr(s) ==
  /\ producer[s] = "scan"
  /\ \/ sent[s] < total[s] /\ Step(s, "send") /\ UNCHANGED conn
     \/ FreeConn(s) /\ Step(s, "rowsClose")
  /\ UNCHANGED <<pool, consumer, ctxDone, rowVars, srVars, eof>>

\* rows.Next, then MapScan or rows.Err.  A Next that answers false, at the end
\* of the result or on an error of the database or the context, gives the
\* connection back; a row that cannot be scanned leaves it to rows.Close.
NextRow(s) ==
  /\ producer[s] = "scan"
  /\ \/ sent[s] < total[s] /\ Step(s, "send") /\ UNCHANGED <<conn, err>>
     \/ /\ sent[s] = total[s]
        /\ FreeConn(s) /\ Step(s, "rowsClose") /\ UNCHANGED err
     \/ /\ SetError(s) /\ Step(s, "rowsClose")
        /\ FreeConn(s) \/ UNCHANGED conn
  /\ UNCHANGED <<pool, consumer, ctxDone, rowVars, closed, doneClosed, prodDone, chanClosed, eof>>

\* select: room in the buffer, the stream closed by its consumer, the context
\* done; any case that is ready may be taken.
SendRow(s) ==
  /\ producer[s] = "send" /\ Buffered(s) < BufSize
  /\ sent' = [sent EXCEPT ![s] = @ + 1] /\ Step(s, "scan")
  /\ UNCHANGED <<pool, consumer, ctxDone, conn, total, got, srVars, eof>>

\* Faulty: the select has no case for a stream its consumer has closed.
GiveUpOnContext(s) ==
  /\ producer[s] = "send" /\ ctxDone[s]
  /\ SetError(s) /\ Step(s, "rowsClose")
  /\ UNCHANGED <<pool, consumer, ctxDone, conn, rowVars, closed, doneClosed, prodDone, chanClosed, eof>>

\* Faulty: rows.Close is not deferred.
GiveUpKeepsRows(s) ==
  /\ producer[s] = "send"
  /\ \/ doneClosed[s] /\ UNCHANGED err
     \/ ctxDone[s] /\ SetError(s)
  /\ Step(s, "signal")
  /\ UNCHANGED <<pool, consumer, ctxDone, conn, rowVars, closed, doneClosed, prodDone, chanClosed, eof>>

GiveUp(s) ==
  /\ producer[s] = "send"
  /\ \/ doneClosed[s] /\ UNCHANGED err
     \/ ctxDone[s] /\ SetError(s)
  /\ Step(s, "rowsClose")
  /\ UNCHANGED <<pool, consumer, ctxDone, conn, rowVars, closed, doneClosed, prodDone, chanClosed, eof>>

\* The deferred calls, last deferred first.
RowsClose(s) ==
  /\ producer[s] = "rowsClose"
  /\ FreeConn(s) /\ Step(s, "signal")
  /\ UNCHANGED <<pool, consumer, ctxDone, rowVars, srVars, eof>>

SetProducerDone(s) ==
  /\ producer[s] = "signal"
  /\ prodDone' = [prodDone EXCEPT ![s] = TRUE] /\ Step(s, "closeChan")
  /\ UNCHANGED <<pool, consumer, ctxDone, conn, rowVars, closed, doneClosed, chanClosed, err, eof>>

\* Faulty: rowChan is not closed.
CloseChanForgotten(s) ==
  /\ producer[s] = "closeChan" /\ Step(s, "release")
  /\ UNCHANGED <<pool, consumer, ctxDone, conn, rowVars, srVars, eof>>

CloseChan(s) ==
  /\ producer[s] = "closeChan"
  /\ chanClosed' = [chanClosed EXCEPT ![s] = TRUE] /\ Step(s, "release")
  /\ UNCHANGED <<pool, consumer, ctxDone, conn, rowVars, closed, doneClosed, prodDone, err, eof>>

ReleaseConcurrencySlot(s) ==
  /\ producer[s] = "release"
  /\ ReleaseSlot /\ Step(s, "exited")
  /\ UNCHANGED <<limit, consumer, ctxDone, conn, rowVars, srVars, eof>>

-----------------------------------------------------------------------------
\* The consumer.

Consume(s, l) == consumer' = [consumer EXCEPT ![s] = l]

\* Next answers false at once when the stream is closed, and receives if not.
CallNext(s) ==
  /\ consumer[s] = "open" /\ ~closed[s]
  /\ Consume(s, "next")
  /\ UNCHANGED <<pool, producer, ctxDone, conn, rowVars, srVars, eof>>

ReceiveRow(s) ==
  /\ consumer[s] = "next" /\ Buffered(s) > 0
  /\ got' = [got EXCEPT ![s] = @ + 1] /\ Consume(s, "open")
  /\ UNCHANGED <<pool, producer, ctxDone, conn, total, sent, srVars, eof>>

ReceiveEnd(s) == \* the buffer is drained before a receive sees the close
  /\ consumer[s] = "next" /\ Buffered(s) = 0 /\ chanClosed[s]
  /\ closed' = [closed EXCEPT ![s] = TRUE]
  /\ eof' = [eof EXCEPT ![s] = TRUE] /\ Consume(s, "open")
  /\ UNCHANGED <<pool, producer, ctxDone, conn, rowVars, doneClosed, prodDone, chanClosed, err>>

Close(s) ==
  /\ consumer[s] = "open" /\ ~closed[s]
  /\ closed' = [closed EXCEPT ![s] = TRUE]
  /\ doneClosed' = [doneClosed EXCEPT ![s] = TRUE]
  /\ UNCHANGED <<pool, consumer, producer, ctxDone, conn, rowVars, prodDone, chanClosed, err, eof>>

\* Wait returns; it changes nothing.
WaitReturns(s) == prodDone[s]

-----------------------------------------------------------------------------
\* The caller's context is cancelled, or the deadline of the query context
\* passes.  Nothing looks at the context after the producer's body.
ContextEnds(s) ==
  /\ producer[s] \in Body /\ ~ctxDone[s]
  /\ ctxDone' = [ctxDone EXCEPT ![s] = TRUE]
  /\ UNCHANGED <<pool, consumer, producer, conn, rowVars, srVars, eof>>

DeadlinePasses(s) == s \in WithDeadline /\ ContextEnds(s)

\* Nobody holds the stream any longer: its identifier stands for a new one.
Forget(s) ==
  /\ consumer[s] = "open" /\ producer[s] = "exited"
  /\ Consume(s, "none") /\ Step(s, "none")
  /\ ctxDone' = [ctxDone EXCEPT ![s] = FALSE]
  /\ total' = [total EXCEPT ![s] = 0]
  /\ sent' = [sent EXCEPT ![s] = 0] /\ got' = [got EXCEPT ![s] = 0]
  /\ closed' = [closed EXCEPT ![s] = FALSE]
  /\ doneClosed' = [doneClosed EXCEPT ![s] = FALSE]
  /\ prodDone' = [prodDone EXCEPT ![s] = FALSE]
  /\ chanClosed' = [chanClosed EXCEPT ![s] = FALSE]
  /\ err' = [err EXCEPT ![s] = "nil"]
  /\ eof' = [eof EXCEPT ![s] = FALSE]
  /\ UNCHANGED <<pool, conn>>

-----------------------------------------------------------------------------
ProducerStep(s) ==
  \/ ProducerStarts(s) \/ GetConn(s) \/ SendRow(s) \/ GiveUp(s)
  \/ RowsClose(s) \/ SetProducerDone(s) \/ CloseChan(s) \/ ReleaseConcurrencySlot(s)

DatabaseStep(s) == QueryAnswers(s) \/ NextRow(s)

NextReturns(s) == ReceiveRow(s) \/ ReceiveEnd(s)

Next == \E s \in Streams :
  \/ QueryStream(s) \/ CallNext(s) \/ Close(s) \/ NextReturns(s)
  \/ ProducerStep(s) \/ DatabaseStep(s) \/ ContextEnds(s) \/ Forget(s)

Spec == Init /\ [][Next]_vars

\* Goroutines that can run do, deadlines pass; consumers promise nothing.
CodeFairness == \A s \in Streams :
  WF_vars(ProducerStep(s)) /\ WF_vars(NextReturns(s)) /\ WF_vars(DeadlinePasses(s))

\* The database answers, and sends the rows.
DatabaseFairness == \A s \in Streams : WF_vars(DatabaseStep(s))

FairSpec == Spec /\ CodeFairness /\ DatabaseFairness

-----------------------------------------------------------------------------
\* Safety.

HasSlot(s) == producer[s] \in Body \cup Deferred
SlotHolders == {s \in Streams : HasSlot(s)}

\* The session's count is exact, by every order of opening, ending, cancelling
\* and abandoning streams: no slot is lost and none is given back twice.
SlotsAreExact == active = IF limit <= 0 THEN 0 ELSE Cardinality(SlotHolders)

\* Config: "MaxConcurrentQueries limits concurrent queries per session", of
\* the queries that stream.
SlotsAreBounded == limit > 0 => active \in 0..limit

\* A consumer whose Next answers false and who finds no error has had every
\* row: neither a cancelled context nor a failing database shortens a result
\* in silence.
NoSilentTruncation ==
  \A s \in Streams : eof[s] /\ err[s] = "nil" => got[s] = total[s]

\* When the consumer learns the end, from Next or from Wait, the connection is
\* back in the pool: a pool of one serves the consumer's next query.
EndFreesConnection ==
  \A s \in Streams : eof[s] \/ WaitReturns(s) => ~conn[s]

-----------------------------------------------------------------------------
\* Refinement: the query and the end as the consumer meets them.

QueryAt(l) ==
  CASE l = "none" -> "none"
    [] l \in {"start", "conn", "asking"} -> "asked"
    [] l \in {"scan", "send"} -> "answered"
    [] l \in Deferred -> "over"
    [] l = "exited" -> "gone"

EndOf(s) == IF eof[s] THEN "told" ELSE IF doneClosed[s] THEN "closed" ELSE "no"

Queries == [s \in Streams |-> QueryAt(producer[s])]
Ends    == [s \in Streams |-> EndOf(s)]
Failed  == [s \in Streams |-> err[s] # "nil"]

Contract == INSTANCE StreamContract
  WITH query <- Queries, length <- total, given <- got, failed <- Failed, end <- Ends

\* Through the buffer, the select and the deferred calls a consumer gets the
\* result's rows, and an end that is true: whole, or failed, and final.
ImplementsContract == Contract!Spec

-----------------------------------------------------------------------------
\* The inductive invariant the proofs rest on.

Places == Body \cup Deferred \cup {"none", "exited"}

TypeOK ==
  /\ limit \in Limits /\ active \in Int
  /\ consumer \in [Streams -> {"none", "open", "next"}]
  /\ producer \in [Streams -> Places]
  /\ ctxDone \in [Streams -> BOOLEAN] /\ conn \in [Streams -> BOOLEAN]
  /\ total \in [Streams -> Nat]
  /\ sent \in [Streams -> Nat] /\ got \in [Streams -> Nat]
  /\ closed \in [Streams -> BOOLEAN] /\ doneClosed \in [Streams -> BOOLEAN]
  /\ prodDone \in [Streams -> BOOLEAN] /\ chanClosed \in [Streams -> BOOLEAN]
  /\ err \in [Streams -> {"nil", "error"}] /\ eof \in [Streams -> BOOLEAN]

\* The producer holds a connection from its query on, at most until rows.Close, and
\* signals and closes the channel after that.
ProducerFits == \A s \in Streams :
  /\ producer[s] = "none" <=> consumer[s] = "none"
  /\ conn[s] => producer[s] \in {"asking", "scan", "send", "rowsClose"}
  /\ producer[s] \in {"asking", "scan", "send"} => conn[s]
  /\ prodDone[s] => producer[s] \in {"closeChan", "release", "exited"}
  /\ chanClosed[s] => producer[s] \in {"release", "exited"}

\* The consumer closes a stream or sees its end, not both.
ConsumerFits == \A s \in Streams :
  /\ doneClosed[s] => closed[s]
  /\ consumer[s] = "next" => ~closed[s]
  /\ eof[s] => closed[s] /\ ~doneClosed[s] /\ chanClosed[s] /\ Buffered(s) = 0

\* A producer that gives up before the last row leaves an error, unless the
\* consumer has closed the stream.
RowsFit == \A s \in Streams :
  /\ got[s] <= sent[s] /\ sent[s] <= total[s]
  /\ producer[s] \in {"none", "start", "conn", "asking"} => sent[s] = 0
  /\ producer[s] = "send" => sent[s] < total[s]
  /\ producer[s] \in Deferred \cup {"exited"} /\ err[s] = "nil" =>
       doneClosed[s] \/ sent[s] = total[s]

Inv == /\ TypeOK /\ ProducerFits /\ ConsumerFits /\ RowsFit
       /\ SlotsAreExact /\ SlotsAreBounded

-----------------------------------------------------------------------------
\* Liveness, while the database answers.

\* Closing a stream whose query has its connection ends the producer, which
\* gives back the connection and the slot, whatever the other streams do.
CloseEnds ==
  \A s \in Streams : doneClosed[s] /\ conn[s] ~> ~HasSlot(s)

\* With a deadline a stream ends even if its consumer abandons it.
DeadlineEnds ==
  \A s \in WithDeadline : HasSlot(s) ~> ~HasSlot(s)

\* Next returns: to a row, to the end, or to the error of the deadline.
NextEnds ==
  \A s \in Streams : consumer[s] = "next" /\ (conn[s] \/ s \in WithDeadline) ~> consumer[s] # "next"

-----------------------------------------------------------------------------
\* What a comment says and the code does not do.

\* result.go: SetProducerDone is "called by the producer goroutine as its final
\* cleanup step", and Wait "blocks until the producer goroutine has fully
\* completed".  The goroutine still closes rowChan and releases its slot.
WaitIsLast == \A s \in Streams : WaitReturns(s) => ~HasSlot(s)
=============================================================================
