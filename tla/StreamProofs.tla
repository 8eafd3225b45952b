----------------------------- MODULE StreamProofs -----------------------------
(***************************************************************************)
(* What holds of Stream for every set of streams, result sizes, buffer,     *)
(* pool and limit.                                                          *)
(*   1. The parts of Inv about single streams are inductive: one lemma per  *)
(*      action, one step per part whose preservation needs another part.    *)
(*   2. The slots: the session's count is the number of streams that hold   *)
(*      one, because QueryStream adds one stream to that set, the last      *)
(*      deferred call of a producer removes one, and nothing else changes   *)
(*      it.                                                                 *)
(*   3. The theorems.                                                       *)
(*   4. The refinement of StreamContract.                                   *)
(***************************************************************************)
EXTENDS Stream, FiniteSetTheorems, TLAPS

USE DEF pool, rowVars, srVars, Body, Deferred

StreamsFit == TypeOK /\ ProducerFits /\ ConsumerFits /\ RowsFit

-----------------------------------------------------------------------------
\* 1. Single streams.

LEMMA InitInv == Init => Inv
<1> SUFFICES ASSUME Init PROVE Inv OBVIOUS
<1>1. StreamsFit
  BY StreamAssumption DEF Init, Fresh, StreamsFit, TypeOK, Places, ProducerFits,
                          ConsumerFits, RowsFit, Buffered
<1>2. SlotHolders = {}
  BY DEF Init, Fresh, SlotHolders, HasSlot
<1>3. SlotsAreExact /\ SlotsAreBounded
  BY <1>2, FS_EmptySet, StreamAssumption
     DEF Init, SlotsAreExact, SlotsAreBounded
<1> QED BY <1>1, <1>3 DEF Inv, StreamsFit

LEMMA QueryStreamKeepsInv ==
  ASSUME Inv, NEW s \in Streams, QueryStream(s)
  PROVE  StreamsFit'
<1>1. ProducerFits'
  BY DEF Inv, QueryStream, TypeOK, ProducerFits, Places, AcquireSlot,
         SlotFree
<1>2. RowsFit'
  BY DEF Inv, QueryStream, ProducerFits, RowsFit, AcquireSlot, SlotFree
<1>3. TypeOK' /\ ConsumerFits'
  BY DEF Inv, QueryStream, TypeOK, ConsumerFits, Places, Buffered,
         AcquireSlot, SlotFree
<1> QED BY <1>1, <1>2, <1>3 DEF StreamsFit

LEMMA ProducerStartsKeepsInv ==
  ASSUME Inv, NEW s \in Streams, ProducerStarts(s)
  PROVE  StreamsFit'
<1>1. ProducerFits'
  BY DEF Inv, ProducerStarts, TypeOK, ProducerFits, Places, Step, SetError
<1>2. RowsFit'
  BY DEF Inv, ProducerStarts, TypeOK, RowsFit, Places, Step, SetError
<1>3. TypeOK' /\ ConsumerFits'
  BY DEF Inv, ProducerStarts, TypeOK, ConsumerFits, Places, Buffered, Step,
         SetError
<1> QED BY <1>1, <1>2, <1>3 DEF StreamsFit

LEMMA GetConnKeepsInv ==
  ASSUME Inv, NEW s \in Streams, GetConn(s)
  PROVE  StreamsFit'
<1>1. TypeOK'
  <2>1. producer' \in [Streams -> Places]
    BY DEF Inv, GetConn, TypeOK, Places, Step, SetError
  <2>2. conn' \in [Streams -> BOOLEAN]
    BY DEF Inv, GetConn, TypeOK, Places, Step, SetError
  <2>3. err' \in [Streams -> {"nil", "error"}]
    BY DEF Inv, GetConn, TypeOK, Places, Step, SetError
  <2> QED
    BY <2>1, <2>2, <2>3 DEF Inv, TypeOK, GetConn
<1>2. ProducerFits'
  BY DEF Inv, GetConn, TypeOK, ProducerFits, Places, Step, SetError
<1>3. RowsFit'
  BY DEF Inv, GetConn, TypeOK, RowsFit, Places, Step, SetError
<1>4. ConsumerFits'
  BY DEF Inv, GetConn, ConsumerFits, Buffered, Step, SetError
<1> QED BY <1>1, <1>2, <1>3, <1>4 DEF StreamsFit

LEMMA QueryAnswersKeepsInv ==
  ASSUME Inv, NEW s \in Streams, QueryAnswers(s)
  PROVE  StreamsFit'
<1>1. TypeOK'
  <2>1. producer' \in [Streams -> Places]
    BY DEF Inv, QueryAnswers, TypeOK, Places, Step, SetError, FreeConn
  <2>2. conn' \in [Streams -> BOOLEAN]
    BY DEF Inv, QueryAnswers, TypeOK, Places, Step, SetError, FreeConn
  <2>3. err' \in [Streams -> {"nil", "error"}]
    BY DEF Inv, QueryAnswers, TypeOK, Places, Step, SetError, FreeConn
  <2>4. total' \in [Streams -> Nat]
    BY StreamAssumption DEF Inv, QueryAnswers, TypeOK, Places, Step, SetError, FreeConn
  <2> QED
    BY <2>1, <2>2, <2>3, <2>4 DEF Inv, TypeOK, QueryAnswers
<1>2. ProducerFits'
  BY DEF Inv, QueryAnswers, TypeOK, ProducerFits, Places, Step, SetError,
         FreeConn
<1>3. RowsFit'
  BY StreamAssumption DEF Inv, QueryAnswers, TypeOK, RowsFit, Places, Step, SetError,
         FreeConn
<1>4. ConsumerFits'
  BY DEF Inv, QueryAnswers, ConsumerFits, Buffered, Step, SetError, FreeConn
<1> QED BY <1>1, <1>2, <1>3, <1>4 DEF StreamsFit

LEMMA NextRowKeepsInv ==
  ASSUME Inv, NEW s \in Streams, NextRow(s)
  PROVE  StreamsFit'
<1>1. TypeOK'
  <2>1. producer' \in [Streams -> Places]
    BY DEF Inv, NextRow, TypeOK, Places, Step, SetError, FreeConn
  <2>2. conn' \in [Streams -> BOOLEAN]
    BY DEF Inv, NextRow, TypeOK, Places, Step, SetError, FreeConn
  <2>3. err' \in [Streams -> {"nil", "error"}]
    BY DEF Inv, NextRow, TypeOK, Places, Step, SetError, FreeConn
  <2> QED
    BY <2>1, <2>2, <2>3 DEF Inv, TypeOK, NextRow
<1>2. ProducerFits'
  BY DEF Inv, NextRow, TypeOK, ProducerFits, Places, Step, SetError,
         FreeConn
<1>3. RowsFit'
  BY DEF Inv, NextRow, TypeOK, RowsFit, Places, Step, SetError, FreeConn
<1>4. ConsumerFits'
  BY DEF Inv, NextRow, ConsumerFits, Buffered, Step, SetError, FreeConn
<1> QED BY <1>1, <1>2, <1>3, <1>4 DEF StreamsFit

LEMMA SendRowKeepsInv ==
  ASSUME Inv, NEW s \in Streams, SendRow(s)
  PROVE  StreamsFit'
<1>1. ConsumerFits'
  BY DEF Inv, SendRow, ProducerFits, ConsumerFits, Buffered, BufSize, Step
<1>2. RowsFit'
  BY DEF Inv, SendRow, TypeOK, RowsFit, Places, Buffered, BufSize, Step
<1>3. TypeOK' /\ ProducerFits'
  BY DEF Inv, SendRow, TypeOK, ProducerFits, Places, Buffered, BufSize, Step
<1> QED BY <1>1, <1>2, <1>3 DEF StreamsFit

LEMMA GiveUpKeepsInv ==
  ASSUME Inv, NEW s \in Streams, GiveUp(s)
  PROVE  StreamsFit'
<1>1. RowsFit'
  BY DEF Inv, GiveUp, TypeOK, RowsFit, Places, Step, SetError
<1>2. TypeOK' /\ ProducerFits' /\ ConsumerFits'
  BY DEF Inv, GiveUp, TypeOK, ProducerFits, ConsumerFits, Places, Buffered,
         Step, SetError
<1> QED BY <1>1, <1>2 DEF StreamsFit

LEMMA RowsCloseKeepsInv ==
  ASSUME Inv, NEW s \in Streams, RowsClose(s)
  PROVE  StreamsFit'
<1>1. ProducerFits'
  BY DEF Inv, RowsClose, TypeOK, ProducerFits, Places, Step, FreeConn
<1>2. TypeOK' /\ ConsumerFits' /\ RowsFit'
  BY DEF Inv, RowsClose, TypeOK, ConsumerFits, RowsFit, Places, Buffered,
         Step, FreeConn
<1> QED BY <1>1, <1>2 DEF StreamsFit

LEMMA SetProducerDoneKeepsInv ==
  ASSUME Inv, NEW s \in Streams, SetProducerDone(s)
  PROVE  StreamsFit'
<1>1. ProducerFits'
  BY DEF Inv, SetProducerDone, TypeOK, ProducerFits, Places, Step
<1>2. TypeOK' /\ ConsumerFits' /\ RowsFit'
  BY DEF Inv, SetProducerDone, TypeOK, ConsumerFits, RowsFit, Places,
         Buffered, Step
<1> QED BY <1>1, <1>2 DEF StreamsFit

LEMMA CloseChanKeepsInv ==
  ASSUME Inv, NEW s \in Streams, CloseChan(s)
  PROVE  StreamsFit'
<1>1. ProducerFits'
  BY DEF Inv, CloseChan, TypeOK, ProducerFits, Places, Step
<1>2. TypeOK' /\ ConsumerFits' /\ RowsFit'
  BY DEF Inv, CloseChan, TypeOK, ConsumerFits, RowsFit, Places, Buffered,
         Step
<1> QED BY <1>1, <1>2 DEF StreamsFit

LEMMA ReleaseConcurrencySlotKeepsInv ==
  ASSUME Inv, NEW s \in Streams, ReleaseConcurrencySlot(s)
  PROVE  StreamsFit'
<1>1. TypeOK' /\ ProducerFits' /\ ConsumerFits' /\ RowsFit'
  BY DEF Inv, ReleaseConcurrencySlot, TypeOK, ProducerFits, ConsumerFits,
         RowsFit, Places, Buffered, Step, ReleaseSlot
<1> QED BY <1>1 DEF StreamsFit

LEMMA CallNextKeepsInv ==
  ASSUME Inv, NEW s \in Streams, CallNext(s)
  PROVE  StreamsFit'
<1>1. TypeOK' /\ ProducerFits' /\ ConsumerFits' /\ RowsFit'
  BY DEF Inv, CallNext, TypeOK, ProducerFits, ConsumerFits, RowsFit, Places,
         Buffered, Consume
<1> QED BY <1>1 DEF StreamsFit

LEMMA ReceiveRowKeepsInv ==
  ASSUME Inv, NEW s \in Streams, ReceiveRow(s)
  PROVE  StreamsFit'
<1>1. RowsFit'
  BY DEF Inv, ReceiveRow, TypeOK, RowsFit, Places, Buffered, Consume
<1>2. TypeOK' /\ ProducerFits' /\ ConsumerFits'
  BY DEF Inv, ReceiveRow, TypeOK, ProducerFits, ConsumerFits, Places,
         Buffered, Consume
<1> QED BY <1>1, <1>2 DEF StreamsFit

LEMMA ReceiveEndKeepsInv ==
  ASSUME Inv, NEW s \in Streams, ReceiveEnd(s)
  PROVE  StreamsFit'
<1>1. ConsumerFits'
  BY DEF Inv, ReceiveEnd, TypeOK, ConsumerFits, Places, Buffered, Consume
<1>2. TypeOK' /\ ProducerFits' /\ RowsFit'
  BY DEF Inv, ReceiveEnd, TypeOK, ProducerFits, RowsFit, Places, Buffered,
         Consume
<1> QED BY <1>1, <1>2 DEF StreamsFit

LEMMA CloseKeepsInv ==
  ASSUME Inv, NEW s \in Streams, Close(s)
  PROVE  StreamsFit'
<1>1. ConsumerFits'
  BY DEF Inv, Close, TypeOK, ConsumerFits, Places, Buffered
<1>2. TypeOK' /\ ProducerFits' /\ RowsFit'
  BY DEF Inv, Close, TypeOK, ProducerFits, RowsFit, Places
<1> QED BY <1>1, <1>2 DEF StreamsFit

LEMMA ContextEndsKeepsInv ==
  ASSUME Inv, NEW s \in Streams, ContextEnds(s)
  PROVE  StreamsFit'
<1>1. TypeOK' /\ ProducerFits' /\ ConsumerFits' /\ RowsFit'
  BY DEF Inv, ContextEnds, TypeOK, ProducerFits, ConsumerFits, RowsFit,
         Places, Buffered
<1> QED BY <1>1 DEF StreamsFit

LEMMA ForgetKeepsInv ==
  ASSUME Inv, NEW s \in Streams, Forget(s)
  PROVE  StreamsFit'
<1>1. ProducerFits'
  BY DEF Inv, Forget, TypeOK, ProducerFits, Places, Step, Consume
<1>2. ConsumerFits'
  BY DEF Inv, Forget, TypeOK, ConsumerFits, Places, Buffered, Step, Consume
<1>3. RowsFit'
  BY DEF Inv, Forget, TypeOK, RowsFit, Places, Step, Consume
<1>4. TypeOK'
  BY DEF Inv, Forget, TypeOK, Places, Step, Consume
<1> QED BY <1>1, <1>2, <1>3, <1>4 DEF StreamsFit

LEMMA NextStreamsFit == ASSUME Inv, NEW s \in Streams,
    \/ QueryStream(s) \/ CallNext(s) \/ Close(s) \/ NextReturns(s)
    \/ ProducerStep(s) \/ DatabaseStep(s) \/ ContextEnds(s) \/ Forget(s)
  PROVE StreamsFit'
<1>1. CASE ProducerStep(s)
  BY <1>1, ProducerStartsKeepsInv, GetConnKeepsInv, SendRowKeepsInv,
     GiveUpKeepsInv, RowsCloseKeepsInv, SetProducerDoneKeepsInv,
     CloseChanKeepsInv, ReleaseConcurrencySlotKeepsInv DEF ProducerStep
<1>2. CASE DatabaseStep(s)
  BY <1>2, QueryAnswersKeepsInv, NextRowKeepsInv DEF DatabaseStep
<1>3. CASE CallNext(s) \/ NextReturns(s) \/ Close(s)
  BY <1>3, CallNextKeepsInv, ReceiveRowKeepsInv, ReceiveEndKeepsInv,
     CloseKeepsInv DEF NextReturns
<1>4. CASE QueryStream(s) \/ ContextEnds(s) \/ Forget(s)
  BY <1>4, QueryStreamKeepsInv, ContextEndsKeepsInv, ForgetKeepsInv
<1> QED BY <1>1, <1>2, <1>3, <1>4

-----------------------------------------------------------------------------
\* 2. The slots.

LEMMA HoldersFinite == IsFiniteSet(SlotHolders) /\ Cardinality(SlotHolders) \in Nat
BY StreamAssumption, FS_Subset, FS_CardinalityType DEF SlotHolders

LEMMA OpeningTakesASlot ==
  ASSUME Inv, NEW s \in Streams, QueryStream(s)
  PROVE  SlotsAreExact' /\ SlotsAreBounded'
<1>1. SlotHolders' = SlotHolders \cup {s} /\ s \notin SlotHolders
  BY DEF Inv, TypeOK, ProducerFits, QueryStream, SlotHolders, HasSlot
<1>2. Cardinality(SlotHolders') = Cardinality(SlotHolders) + 1
  BY <1>1, HoldersFinite, FS_AddElement
<1>3. limit \in Int /\ limit' = limit
  BY StreamAssumption DEF Inv, TypeOK, QueryStream
<1>4. SlotsAreExact'
  BY <1>2, <1>3 DEF Inv, SlotsAreExact, QueryStream, AcquireSlot
<1>5. SlotsAreBounded'
  BY <1>3 DEF Inv, SlotsAreBounded, QueryStream, AcquireSlot, SlotFree
<1> QED BY <1>4, <1>5

LEMMA ReleasingGivesItBack ==
  ASSUME Inv, NEW s \in Streams, ReleaseConcurrencySlot(s)
  PROVE  SlotsAreExact' /\ SlotsAreBounded'
<1>1. SlotHolders' = SlotHolders \ {s} /\ s \in SlotHolders
  BY DEF Inv, TypeOK, ReleaseConcurrencySlot, Step, SlotHolders, HasSlot
<1>2. Cardinality(SlotHolders') = Cardinality(SlotHolders) - 1
  BY <1>1, HoldersFinite, FS_RemoveElement
<1>3. Cardinality(SlotHolders) # 0
  BY <1>1, HoldersFinite, FS_EmptySet
<1>4. limit \in Int /\ limit' = limit
  BY StreamAssumption DEF Inv, TypeOK, ReleaseConcurrencySlot
<1>5. SlotsAreExact'
  BY <1>2, <1>4 DEF Inv, SlotsAreExact, ReleaseConcurrencySlot, ReleaseSlot
<1>6. SlotsAreBounded'
  BY <1>3, <1>4, HoldersFinite
     DEF Inv, SlotsAreExact, SlotsAreBounded, ReleaseConcurrencySlot, ReleaseSlot
<1> QED BY <1>5, <1>6

\* Every other step leaves the count and the holders alone.
LEMMA SlotsUntouched ==
  ASSUME Inv, UNCHANGED <<pool, SlotHolders>>
  PROVE  SlotsAreExact' /\ SlotsAreBounded'
BY DEF Inv, SlotsAreExact, SlotsAreBounded

LEMMA NextSlots == ASSUME Inv, NEW s \in Streams,
    \/ QueryStream(s) \/ CallNext(s) \/ Close(s) \/ NextReturns(s)
    \/ ProducerStep(s) \/ DatabaseStep(s) \/ ContextEnds(s) \/ Forget(s)
  PROVE SlotsAreExact' /\ SlotsAreBounded'
<1>1. CASE QueryStream(s) \/ ReleaseConcurrencySlot(s)
  BY <1>1, OpeningTakesASlot, ReleasingGivesItBack
<1>2. CASE CallNext(s) \/ Close(s) \/ NextReturns(s) \/ ContextEnds(s)
  <2>1. UNCHANGED <<pool, SlotHolders>>
    BY <1>2 DEF CallNext, Close, NextReturns, ReceiveRow, ReceiveEnd, ContextEnds,
                SlotHolders, HasSlot
  <2> QED BY <2>1, SlotsUntouched
<1>3. CASE ProducerStep(s) /\ ~ReleaseConcurrencySlot(s)
  <2>1. UNCHANGED pool /\ \E l \in Body \cup Deferred : Step(s, l)
    BY <1>3 DEF ProducerStep, ProducerStarts, GetConn, SendRow, GiveUp, RowsClose,
                SetProducerDone, CloseChan
  <2>2. HasSlot(s)
    BY <1>3 DEF ProducerStep, ProducerStarts, GetConn, SendRow, GiveUp, RowsClose,
                SetProducerDone, CloseChan, HasSlot
  <2>3. UNCHANGED SlotHolders
    BY <2>1, <2>2 DEF Inv, TypeOK, Step, SlotHolders, HasSlot
  <2> QED BY <2>1, <2>3, SlotsUntouched
<1>4. CASE DatabaseStep(s)
  <2>1. UNCHANGED pool /\ \E l \in Body \cup Deferred : Step(s, l)
    BY <1>4 DEF DatabaseStep, QueryAnswers, NextRow
  <2>2. HasSlot(s)
    BY <1>4 DEF DatabaseStep, QueryAnswers, NextRow, HasSlot
  <2>3. UNCHANGED SlotHolders
    BY <2>1, <2>2 DEF Inv, TypeOK, Step, SlotHolders, HasSlot
  <2> QED BY <2>1, <2>3, SlotsUntouched
<1>5. CASE Forget(s)
  <2>1. UNCHANGED <<pool, SlotHolders>>
    BY <1>5 DEF Inv, TypeOK, Forget, Step, SlotHolders, HasSlot
  <2> QED BY <2>1, SlotsUntouched
<1> QED BY <1>1, <1>2, <1>3, <1>4, <1>5

LEMMA NextInv == Inv /\ [Next]_vars => Inv'
<1>1. ASSUME Inv, Next PROVE Inv'
  BY <1>1, NextStreamsFit, NextSlots DEF Next, Inv, StreamsFit
<1>2. ASSUME Inv, UNCHANGED vars PROVE Inv'
  <2>1. TypeOK' /\ ProducerFits' /\ ConsumerFits' /\ RowsFit'
    BY <1>2 DEF vars, Inv, TypeOK, ProducerFits, ConsumerFits, RowsFit, Buffered
  <2>2. UNCHANGED <<pool, SlotHolders>>
    BY <1>2 DEF vars, SlotHolders, HasSlot
  <2> QED BY <1>2, <2>1, <2>2, SlotsUntouched DEF Inv
<1> QED BY <1>1, <1>2

-----------------------------------------------------------------------------
\* 3. The theorems.

\* The inductive invariant holds of every reachable state.
THEOREM StreamInvHolds == Spec => []Inv
<1>1. Init => Inv BY InitInv
<1>2. Inv /\ [Next]_vars => Inv' BY NextInv
<1> QED BY <1>1, <1>2, PTL DEF Spec

\* Type correctness.
THEOREM StreamTypeCorrect == Spec => []TypeOK
<1>1. Inv => TypeOK BY DEF Inv
<1> QED BY <1>1, StreamInvHolds, PTL

\* The count of slots is the number of streams that hold one, for any number
\* of streams opened, cancelled, abandoned and ended in any order.
THEOREM SlotCountIsExact == Spec => []SlotsAreExact
<1>1. Inv => SlotsAreExact BY DEF Inv
<1> QED BY <1>1, StreamInvHolds, PTL

\* The limit is never exceeded, nor the count negative.
THEOREM SlotCountIsBounded == Spec => []SlotsAreBounded
<1>1. Inv => SlotsAreBounded BY DEF Inv
<1> QED BY <1>1, StreamInvHolds, PTL

\* A result that ends without an error is complete.
THEOREM ResultsAreComplete == Spec => []NoSilentTruncation
<1>1. Inv => NoSilentTruncation
  BY DEF Inv, TypeOK, ProducerFits, ConsumerFits, RowsFit, Buffered, NoSilentTruncation
<1> QED BY <1>1, StreamInvHolds, PTL

\* The connection is back in the pool before the consumer can learn the end.
THEOREM ConnectionIsFreed == Spec => []EndFreesConnection
<1>1. Inv => EndFreesConnection
  BY DEF Inv, TypeOK, ProducerFits, ConsumerFits, EndFreesConnection, WaitReturns
<1> QED BY <1>1, StreamInvHolds, PTL

-----------------------------------------------------------------------------
\* 4. The refinement: each action of Stream, taken under Inv, is one of the
\* contract or changes nothing a consumer sees.

LEMMA QueryAtIs ==
  /\ QueryAt("none") = "none" /\ QueryAt("exited") = "gone"
  /\ QueryAt("start") = "asked" /\ QueryAt("conn") = "asked" /\ QueryAt("asking") = "asked"
  /\ QueryAt("scan") = "answered" /\ QueryAt("send") = "answered"
  /\ QueryAt("rowsClose") = "over" /\ QueryAt("signal") = "over"
  /\ QueryAt("closeChan") = "over" /\ QueryAt("release") = "over"
  BY DEF QueryAt

\* What a consumer sees of a step of the producer.
LEMMA StepSeen ==
  ASSUME Inv, NEW s \in Streams, NEW l, Step(s, l)
  PROVE  Queries' = [Queries EXCEPT ![s] = QueryAt(l)] /\ Queries[s] = QueryAt(producer[s])
  BY DEF Inv, TypeOK, Queries, Step

LEMMA SameQuery ==
  ASSUME Inv, NEW s \in Streams, NEW l, Step(s, l), QueryAt(l) = QueryAt(producer[s])
  PROVE  UNCHANGED Queries
  BY StepSeen DEF Queries

LEMMA ErrorSeen ==
  ASSUME Inv, NEW s \in Streams, SetError(s)
  PROVE  Failed' = [Failed EXCEPT ![s] = TRUE]
  BY DEF Inv, TypeOK, Failed, SetError

LEMMA SameSeen ==
  /\ UNCHANGED producer => UNCHANGED Queries
  /\ UNCHANGED err => UNCHANGED Failed
  /\ UNCHANGED <<eof, doneClosed>> => UNCHANGED Ends
  BY DEF Queries, Failed, Ends, EndOf

\* The contract counts as this module does.
LEMMA SameCount == \A S : Contract!Cardinality(S) = Cardinality(S)
  BY DEF Cardinality, Contract!Cardinality

LEMMA InitMaps == Init => Contract!Init
<1> SUFFICES ASSUME Init PROVE Contract!Init OBVIOUS
<1>1. Queries = Contract!Fresh("none")
  BY QueryAtIs DEF Init, Fresh, Contract!Fresh, Queries
<1>2. Failed = Contract!Fresh(FALSE)
  BY DEF Init, Fresh, Contract!Fresh, Failed
<1>3. Ends = Contract!Fresh("no")
  BY DEF Init, Fresh, Contract!Fresh, Ends, EndOf
<1>4. limit \in Int
  BY StreamAssumption DEF Init
<1> QED BY <1>1, <1>2, <1>3, <1>4 DEF Init, Fresh, Contract!Init, Contract!Fresh

LEMMA QueryStreamMaps ==
  ASSUME Inv, NEW s \in Streams, QueryStream(s)
  PROVE  Contract!Open(s)
<1>1. Step(s, "start") /\ consumer[s] = "none" /\ UNCHANGED <<limit, ctxDone, conn, rowVars, srVars, eof>>
  BY DEF QueryStream, Step
<1>2. Contract!QueryIs(s, "asked")
  BY <1>1, StepSeen, QueryAtIs DEF Contract!QueryIs
<1>3. Contract!Running = SlotHolders
  <2>1. \A x \in Streams : Queries[x] \notin {"none", "gone"} <=> HasSlot(x)
    BY QueryAtIs DEF Inv, TypeOK, Places, Queries, HasSlot
  <2> QED BY <2>1 DEF Contract!Running, SlotHolders
<1>4. limit <= 0 \/ Contract!Cardinality(Contract!Running) < limit
  BY <1>3, SameCount DEF Inv, SlotsAreExact, QueryStream, AcquireSlot, SlotFree
<1>5. UNCHANGED <<Failed, Ends>>
  BY <1>1, SameSeen
<1> QED BY <1>1, <1>2, <1>4, <1>5 DEF Contract!Open, Contract!Consumes, QueryStream

LEMMA ProducerStartsMaps ==
  ASSUME Inv, NEW s \in Streams, ProducerStarts(s)
  PROVE  Contract!Fail(s) \/ UNCHANGED Contract!vars
<1>1. producer[s] = "start" /\ UNCHANGED <<limit, consumer, conn, rowVars, doneClosed, eof, Ends>>
  BY SameSeen DEF ProducerStarts
<1>2. CASE SetError(s) /\ Step(s, "signal")
  BY <1>1, <1>2, StepSeen, ErrorSeen, QueryAtIs DEF Contract!Fail, Contract!QueryIs
<1>3. CASE Step(s, "conn") /\ UNCHANGED err
  <2>1. UNCHANGED <<Queries, Failed>> BY <1>1, <1>3, SameQuery, SameSeen, QueryAtIs
  <2> QED BY <1>1, <2>1 DEF Contract!vars
<1> QED BY <1>2, <1>3 DEF ProducerStarts

LEMMA GetConnMaps ==
  ASSUME Inv, NEW s \in Streams, GetConn(s)
  PROVE  Contract!Connect(s) \/ Contract!Fail(s)
<1>1. producer[s] = "conn" /\ UNCHANGED <<limit, consumer, rowVars, doneClosed, eof, Ends>>
  BY SameSeen DEF GetConn
<1>2. CASE /\ ConnsInUse < MaxOpenConns /\ conn' = [conn EXCEPT ![s] = TRUE]
           /\ Step(s, "asking") /\ UNCHANGED err
  <2>1. UNCHANGED <<Queries, Failed>> BY <1>1, <1>2, SameQuery, SameSeen, QueryAtIs
  <2>2. Queries[s] = "asked" /\ ~conn[s]
    BY <1>1, <1>2, StepSeen, QueryAtIs DEF Inv, TypeOK, ProducerFits
  <2>3. Contract!ConnsInUse = ConnsInUse
    BY SameCount DEF Contract!ConnsInUse, ConnsInUse
  <2> QED BY <1>1, <1>2, <2>1, <2>2, <2>3 DEF Contract!Connect
<1>3. CASE SetError(s) /\ Step(s, "signal") /\ UNCHANGED conn
  BY <1>1, <1>3, StepSeen, ErrorSeen, QueryAtIs DEF Contract!Fail, Contract!QueryIs
<1> QED BY <1>2, <1>3 DEF GetConn

LEMMA QueryAnswersMaps ==
  ASSUME Inv, NEW s \in Streams, QueryAnswers(s)
  PROVE  Contract!Answer(s) \/ Contract!Fail(s)
<1>1. /\ producer[s] = "asking" /\ conn[s]
      /\ UNCHANGED <<limit, consumer, got, doneClosed, eof, Ends>>
  BY SameSeen DEF QueryAnswers, Inv, ProducerFits
<1>2. CASE /\ \E n \in Results : total' = [total EXCEPT ![s] = n]
           /\ Step(s, "scan") /\ UNCHANGED <<conn, err>>
  <2>1. UNCHANGED Failed BY <1>2, SameSeen
  <2>2. Queries[s] = "asked" /\ Contract!QueryIs(s, "answered")
    BY <1>1, <1>2, StepSeen, QueryAtIs DEF Contract!QueryIs
  <2> QED BY <1>1, <1>2, <2>1, <2>2 DEF Contract!Answer
<1>3. CASE SetError(s) /\ FreeConn(s) /\ Step(s, "signal") /\ UNCHANGED total
  BY <1>1, <1>3, StepSeen, ErrorSeen, QueryAtIs
     DEF Contract!Fail, Contract!QueryIs, Contract!Disconnects, FreeConn
<1>4. CASE SetError(s) /\ Step(s, "rowsClose") /\ UNCHANGED <<conn, total>>
  BY <1>1, <1>4, StepSeen, ErrorSeen, QueryAtIs DEF Contract!Fail, Contract!QueryIs
<1> QED BY <1>2, <1>3, <1>4 DEF QueryAnswers

LEMMA NextRowMaps ==
  ASSUME Inv, NEW s \in Streams, NextRow(s)
  PROVE  Contract!Finish(s) \/ Contract!Fail(s) \/ UNCHANGED Contract!vars
<1>1. producer[s] = "scan" /\ UNCHANGED <<limit, consumer, total, got, doneClosed, eof, Ends>>
  BY SameSeen DEF NextRow
<1>2. CASE Step(s, "send") /\ UNCHANGED <<conn, err>>
  <2>1. UNCHANGED <<Queries, Failed>> BY <1>1, <1>2, SameQuery, SameSeen, QueryAtIs
  <2> QED BY <1>1, <1>2, <2>1 DEF Contract!vars
<1>3. CASE FreeConn(s) /\ Step(s, "rowsClose") /\ UNCHANGED err
  <2>1. UNCHANGED Failed BY <1>3, SameSeen
  <2> QED BY <1>1, <1>3, <2>1, StepSeen, QueryAtIs
          DEF Contract!Finish, Contract!QueryIs, Contract!Disconnects, FreeConn
<1>4. CASE SetError(s) /\ Step(s, "rowsClose") /\ (FreeConn(s) \/ UNCHANGED conn)
  BY <1>1, <1>4, StepSeen, ErrorSeen, QueryAtIs
     DEF Contract!Fail, Contract!QueryIs, Contract!Disconnects, FreeConn
<1> QED BY <1>2, <1>3, <1>4 DEF NextRow

LEMMA SendRowMaps ==
  ASSUME Inv, NEW s \in Streams, SendRow(s)
  PROVE  UNCHANGED Contract!vars
<1>1. UNCHANGED <<Queries, Failed, Ends>>
  BY SameQuery, SameSeen, QueryAtIs DEF SendRow
<1> QED BY <1>1 DEF SendRow, Contract!vars

LEMMA GiveUpMaps ==
  ASSUME Inv, NEW s \in Streams, GiveUp(s)
  PROVE  Contract!Finish(s) \/ Contract!Fail(s)
<1>1. /\ producer[s] = "send" /\ Step(s, "rowsClose")
      /\ UNCHANGED <<limit, consumer, conn, rowVars, doneClosed, eof, Ends>>
  BY SameSeen DEF GiveUp
<1>2. CASE doneClosed[s] /\ UNCHANGED err
  <2>1. UNCHANGED Failed BY <1>2, SameSeen
  <2>2. Ends[s] = "closed" BY <1>2 DEF Inv, TypeOK, ConsumerFits, Ends, EndOf
  <2> QED BY <1>1, <2>1, <2>2, StepSeen, QueryAtIs DEF Contract!Finish, Contract!QueryIs
<1>3. CASE SetError(s)
  BY <1>1, <1>3, StepSeen, ErrorSeen, QueryAtIs DEF Contract!Fail, Contract!QueryIs
<1> QED BY <1>2, <1>3 DEF GiveUp

LEMMA RowsCloseMaps ==
  ASSUME Inv, NEW s \in Streams, RowsClose(s)
  PROVE  Contract!Disconnect(s) \/ UNCHANGED Contract!vars
<1>1. /\ FreeConn(s) /\ UNCHANGED <<limit, consumer, rowVars, Queries, Failed, Ends>>
      /\ Queries[s] = "over"
  BY SameQuery, StepSeen, SameSeen, QueryAtIs DEF RowsClose
<1>2. CASE conn[s]
  BY <1>1, <1>2 DEF Contract!Disconnect, Contract!Disconnects, FreeConn
<1>3. CASE ~conn[s]
  <2>1. UNCHANGED conn BY <1>1, <1>3 DEF Inv, TypeOK, FreeConn
  <2> QED BY <1>1, <2>1 DEF Contract!vars
<1> QED BY <1>2, <1>3

LEMMA SetProducerDoneMaps ==
  ASSUME Inv, NEW s \in Streams, SetProducerDone(s) \/ CloseChan(s)
  PROVE  UNCHANGED Contract!vars
<1>1. UNCHANGED <<limit, consumer, conn, rowVars, Failed, Ends>>
  BY SameSeen DEF SetProducerDone, CloseChan
<1>2. UNCHANGED Queries
  BY SameQuery, QueryAtIs DEF SetProducerDone, CloseChan
<1> QED BY <1>1, <1>2 DEF Contract!vars

LEMMA ReleaseMaps ==
  ASSUME Inv, NEW s \in Streams, ReleaseConcurrencySlot(s)
  PROVE  Contract!Leave(s)
<1>1. /\ producer[s] = "release" /\ Step(s, "exited") /\ ~conn[s]
      /\ UNCHANGED <<limit, consumer, conn, rowVars, Failed, Ends>>
  BY SameSeen DEF ReleaseConcurrencySlot, Inv, TypeOK, ProducerFits
<1> QED BY <1>1, StepSeen, QueryAtIs DEF Contract!Leave, Contract!QueryIs

LEMMA CallNextMaps ==
  ASSUME Inv, NEW s \in Streams, CallNext(s)
  PROVE  Contract!CallNext(s)
<1>1. UNCHANGED <<Queries, Failed, Ends>>
  BY SameSeen DEF CallNext
<1>2. Ends[s] = "no"
  BY DEF CallNext, Inv, ConsumerFits, Ends, EndOf
<1> QED BY <1>1, <1>2 DEF CallNext, Consume, Contract!CallNext, Contract!Consumes

LEMMA ReceiveRowMaps ==
  ASSUME Inv, NEW s \in Streams, ReceiveRow(s)
  PROVE  Contract!GiveRow(s)
<1>1. UNCHANGED <<Queries, Failed, Ends>>
  BY SameSeen DEF ReceiveRow
<1>2. got[s] < total[s]
  BY DEF ReceiveRow, Buffered, Inv, TypeOK, RowsFit
<1> QED BY <1>1, <1>2 DEF ReceiveRow, Consume, Contract!GiveRow, Contract!Consumes

LEMMA ReceiveEndMaps ==
  ASSUME Inv, NEW s \in Streams, ReceiveEnd(s)
  PROVE  Contract!TellEnd(s)
<1>1. UNCHANGED <<limit, conn, rowVars, Queries, Failed>>
  BY SameSeen DEF ReceiveEnd
<1>2. producer[s] \in {"release", "exited"} /\ ~conn[s] /\ ~doneClosed[s]
  BY DEF ReceiveEnd, Inv, TypeOK, ProducerFits, ConsumerFits
<1>3. Queries[s] \in {"over", "gone"}
  BY <1>2, QueryAtIs DEF Queries
<1>4. Failed[s] \/ got[s] = total[s]
  BY <1>2 DEF ReceiveEnd, Buffered, Inv, TypeOK, RowsFit, Failed
<1>5. Ends' = [Ends EXCEPT ![s] = "told"]
  BY DEF ReceiveEnd, Inv, TypeOK, Ends, EndOf
<1> QED BY <1>1, <1>2, <1>3, <1>4, <1>5
        DEF ReceiveEnd, Consume, Contract!TellEnd, Contract!Consumes

LEMMA CloseMaps ==
  ASSUME Inv, NEW s \in Streams, Close(s)
  PROVE  Contract!Close(s)
<1>1. UNCHANGED <<limit, consumer, conn, rowVars, Queries, Failed>> /\ consumer[s] = "open"
  BY SameSeen DEF Close
<1>2. ~eof[s] /\ Ends[s] = "no"
  BY DEF Close, Inv, ConsumerFits, Ends, EndOf
<1>3. Ends' = [Ends EXCEPT ![s] = "closed"]
  BY <1>2 DEF Close, Inv, TypeOK, Ends, EndOf
<1> QED BY <1>1, <1>2, <1>3 DEF Contract!Close

LEMMA ContextEndsMaps ==
  ASSUME NEW s \in Streams, ContextEnds(s)
  PROVE  UNCHANGED Contract!vars
BY SameSeen DEF ContextEnds, Contract!vars

LEMMA ForgetMaps ==
  ASSUME Inv, NEW s \in Streams, Forget(s)
  PROVE  Contract!Forget(s)
<1>1. producer[s] = "exited" /\ Step(s, "none")
  BY DEF Forget
<1>2. Failed' = [Failed EXCEPT ![s] = FALSE] /\ Ends' = [Ends EXCEPT ![s] = "no"]
  BY DEF Forget, Inv, TypeOK, Failed, Ends, EndOf
<1> QED BY <1>1, <1>2, StepSeen, QueryAtIs
        DEF Forget, Consume, Contract!Forget, Contract!Consumes, Contract!QueryIs

LEMMA NextMaps == Inv /\ [Next]_vars => [Contract!Next]_Contract!vars
<1> SUFFICES ASSUME Inv, [Next]_vars PROVE [Contract!Next]_Contract!vars OBVIOUS
<1>1. CASE Next
  <2>1. PICK s \in Streams :
          \/ QueryStream(s) \/ CallNext(s) \/ Close(s) \/ NextReturns(s)
          \/ ProducerStep(s) \/ DatabaseStep(s) \/ ContextEnds(s) \/ Forget(s)
    BY <1>1 DEF Next
  <2>2. CASE ProducerStep(s)
    BY <2>2, ProducerStartsMaps, GetConnMaps, SendRowMaps, GiveUpMaps, RowsCloseMaps,
       SetProducerDoneMaps, ReleaseMaps DEF ProducerStep, Contract!Next
  <2>3. CASE DatabaseStep(s)
    BY <2>3, QueryAnswersMaps, NextRowMaps DEF DatabaseStep, Contract!Next
  <2>4. CASE CallNext(s) \/ NextReturns(s) \/ Close(s)
    BY <2>4, CallNextMaps, ReceiveRowMaps, ReceiveEndMaps, CloseMaps
       DEF NextReturns, Contract!Next
  <2>5. CASE QueryStream(s) \/ ContextEnds(s) \/ Forget(s)
    BY <2>5, QueryStreamMaps, ContextEndsMaps, ForgetMaps DEF Contract!Next
  <2> QED BY <2>1, <2>2, <2>3, <2>4, <2>5
<1>2. CASE UNCHANGED vars
  BY <1>2, SameSeen DEF vars, Contract!vars
<1> QED BY <1>1, <1>2

\* Through the buffered channel, the select and the deferred calls of the
\* producer a consumer gets what the contract promises: the rows, each once, an
\* end that is true and final, slots and connections within their limits.
THEOREM StreamContractHolds == Spec => ImplementsContract
<1>1. Init => Contract!Init
  BY InitMaps
<1>2. Inv /\ [Next]_vars => [Contract!Next]_Contract!vars
  BY NextMaps
<1> QED BY <1>1, <1>2, StreamInvHolds, PTL DEF Spec, Contract!Spec, ImplementsContract
=============================================================================
