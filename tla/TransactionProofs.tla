-------------------------- MODULE TransactionProofs --------------------------
(***************************************************************************)
(* What holds of Transaction for every set of callers, statements and       *)
(* methods.                                                                  *)
(*   1. Inv is inductive: one lemma per action, and in it one step per       *)
(*      conjunct whose preservation needs another conjunct; the last step    *)
(*      of a lemma gathers those the action keeps by themselves.             *)
(*   2. Every step of Transaction is a step of TxContract or a stutter: one  *)
(*      lemma per action, naming the step it is.                             *)
(*   3. The theorems.                                                        *)
(***************************************************************************)
EXTENDS Transaction, TLAPS

\* Names of variable tuples and of small sets of strings.
USE DEF txVars, ctxVars, callVars, dbVars, EndOps, StmtOps, MuHeld

-----------------------------------------------------------------------------
\* 1. The inductive invariant.

LEMMA BeginInv == Begin => Inv
<1> SUFFICES ASSUME Begin PROVE Inv OBVIOUS
<1>1. TypeOK
  BY TimeoutAssumption DEF Begin, TypeOK, Statuses, Replies
<1>2. OneEnder /\ CallsFit /\ MonitorFits /\ OutcomeFits
  BY DEF Begin, OneEnder, CallsFit, MonitorFits, OutcomeFits, Expiring
<1>3. CommitIsMarked /\ ReplyTruthful /\ DoneClosedOnce
  BY DEF Begin, CommitIsMarked, ReplyTruthful, DoneClosedOnce
<1> QED BY <1>1, <1>2, <1>3 DEF Inv

\* What every step of a call does to the call's variables keeps their types.

CallTyped ==
  /\ pc \in [Callers -> {"idle", "entry", "checked", "running", "marked", "draining"}]
  /\ op \in [Callers -> {"none"} \cup EndOps \cup StmtOps]
  /\ stmt \in [Callers -> Stmts \cup {NoStmt}]
  /\ reply \in [Callers -> Replies]

LEMMA GotoIsTyped ==
  ASSUME CallTyped, NEW c \in Callers, Goto(c, "draining")
  PROVE  CallTyped'
BY DEF CallTyped, Goto

LEMMA ReturnIsTyped ==
  ASSUME CallTyped, NEW c \in Callers, NEW r \in Replies, Return(c, r)
  PROVE  CallTyped'
BY DEF CallTyped, Return

LEMMA EndIsTyped ==
  ASSUME TypeOK, CallTyped', sqlDone' \in BOOLEAN,
         UNCHANGED <<status, done, monitor, hasTimeout, timerFired, parentDone,
                     awaiter, server, work, durable, acked>>
  PROVE  TypeOK'
BY DEF TypeOK, CallTyped

\* Callers: an action of theirs touches their own call, and the transaction
\* only through the marks, the sql.Tx and the driver.

LEMMA CallKeepsInv ==
  ASSUME Inv, NEW c \in Callers, NEW o \in Methods, NEW s \in Stmts \cup {NoStmt},
         Call(c, o, s)
  PROVE  Inv'
<1>1. CallsFit'
  BY StmtAssumption, MethodAssumption
     DEF Inv, Call, TypeOK, CallsFit, Statuses, Replies
<1>2. ReplyTruthful'
  BY DEF Inv, Call, TypeOK, ReplyTruthful, Statuses, Replies
<1>3. TypeOK' /\ OneEnder' /\ MonitorFits'
      /\ OutcomeFits' /\ CommitIsMarked' /\ DoneClosedOnce'
  BY MethodAssumption
     DEF Inv, Call, TypeOK, OneEnder, MonitorFits, OutcomeFits,
         CommitIsMarked, DoneClosedOnce, Expired, Expiring, Statuses,
         Replies
<1> QED BY <1>1, <1>2, <1>3 DEF Inv

LEMMA CheckActiveKeepsInv ==
  ASSUME Inv, NEW c \in Callers, CheckActive(c)
  PROVE  Inv'
<1>1. OneEnder'
  BY DEF Inv, CheckActive, TypeOK, OneEnder, MuFree, Goto, Return, Statuses,
         Replies
<1>2. CallsFit'
  BY DEF Inv, CheckActive, TypeOK, CallsFit, MuFree, Goto, Return, Statuses,
         Replies
<1>3. ReplyTruthful'
  BY DEF Inv, CheckActive, TypeOK, ReplyTruthful, MuFree, Goto, Return,
         Statuses, Replies
<1>4. TypeOK' /\ MonitorFits' /\ OutcomeFits'
      /\ CommitIsMarked' /\ DoneClosedOnce'
  BY DEF Inv, CheckActive, TypeOK, MonitorFits, OutcomeFits, CommitIsMarked,
         DoneClosedOnce, MuFree, Expired, Expiring, Goto, Return, Statuses,
         Replies
<1> QED BY <1>1, <1>2, <1>3, <1>4 DEF Inv

LEMMA RefuseKeepsInv ==
  ASSUME Inv, NEW c \in Callers, Refuse(c)
  PROVE  Inv'
<1>1. CallsFit'
  BY DEF Inv, Refuse, TypeOK, CallsFit, Return, Statuses, Replies
<1>2. TypeOK' /\ OneEnder' /\ MonitorFits' /\ OutcomeFits'
      /\ CommitIsMarked' /\ ReplyTruthful' /\ DoneClosedOnce'
  BY DEF Inv, Refuse, TypeOK, OneEnder, MonitorFits, OutcomeFits,
         CommitIsMarked, ReplyTruthful, DoneClosedOnce, Expired, Expiring,
         Return, Statuses, Replies
<1> QED BY <1>1, <1>2 DEF Inv

LEMMA GrabConnKeepsInv ==
  ASSUME Inv, NEW c \in Callers, GrabConn(c)
  PROVE  Inv'
<1>1. OneEnder'
  BY DEF Inv, GrabConn, TypeOK, OneEnder, Goto, Return, Statuses, Replies
<1>2. CallsFit'
  BY DEF Inv, GrabConn, TypeOK, OneEnder, CallsFit, Goto, Return, Statuses,
         Replies
<1>3. ReplyTruthful'
  BY DEF Inv, GrabConn, TypeOK, ReplyTruthful, Goto, Return, Statuses,
         Replies
<1>4. TypeOK' /\ MonitorFits' /\ OutcomeFits'
      /\ CommitIsMarked' /\ DoneClosedOnce'
  BY DEF Inv, GrabConn, TypeOK, MonitorFits, OutcomeFits, CommitIsMarked,
         DoneClosedOnce, Expired, Expiring, Goto, Return, Statuses, Replies
<1> QED BY <1>1, <1>2, <1>3, <1>4 DEF Inv

LEMMA StatementReturnsKeepsInv ==
  ASSUME Inv, NEW c \in Callers, StatementReturns(c)
  PROVE  Inv'
<1>1. TypeOK'
  BY DEF Inv, StatementReturns, CallsFit, TypeOK, Return, Statuses, Replies
<1>2. OneEnder'
  BY DEF Inv, StatementReturns, TypeOK, OneEnder, Return, Statuses, Replies
<1>3. CallsFit'
  BY DEF Inv, StatementReturns, TypeOK, CallsFit, Return, Statuses, Replies
<1>4. OutcomeFits'
  BY DEF Inv, StatementReturns, CallsFit, OutcomeFits, Return
<1>5. ReplyTruthful'
  BY DEF Inv, StatementReturns, TypeOK, CallsFit, ReplyTruthful, Return,
         Statuses, Replies
<1>6. MonitorFits' /\ CommitIsMarked' /\ DoneClosedOnce'
  BY DEF Inv, StatementReturns, MonitorFits, CommitIsMarked, DoneClosedOnce,
         Expired, Expiring, Return
<1> QED BY <1>1, <1>2, <1>3, <1>4, <1>5, <1>6 DEF Inv

LEMMA MarkCommittedKeepsInv ==
  ASSUME Inv, NEW c \in Callers, MarkCommitted(c)
  PROVE  Inv'
<1>1. OneEnder'
  BY DEF Inv, MarkCommitted, TypeOK, OneEnder, MuFree, CloseDone, Goto,
         Return, Statuses, Replies
<1>2. CallsFit'
  BY DEF Inv, MarkCommitted, TypeOK, CallsFit, MuFree, CloseDone, Goto,
         Return, Statuses, Replies
<1>3. ReplyTruthful'
  BY DEF Inv, MarkCommitted, TypeOK, ReplyTruthful, MuFree, CloseDone, Goto,
         Return, Statuses, Replies
<1>4. DoneClosedOnce'
  BY DEF Inv, MarkCommitted, MonitorFits, DoneClosedOnce, MuFree, Expired,
         Expiring, CloseDone, Goto, Return
<1>5. TypeOK' /\ MonitorFits' /\ OutcomeFits' /\ CommitIsMarked'
  BY DEF Inv, MarkCommitted, TypeOK, MonitorFits, OutcomeFits,
         CommitIsMarked, MuFree, Expired, Expiring, CloseDone, Goto, Return,
         Statuses, Replies
<1> QED BY <1>1, <1>2, <1>3, <1>4, <1>5 DEF Inv

LEMMA MarkRolledBackKeepsInv ==
  ASSUME Inv, NEW c \in Callers, MarkRolledBack(c)
  PROVE  Inv'
<1>1. OneEnder'
  BY DEF Inv, MarkRolledBack, TypeOK, OneEnder, MuFree, CloseDone, Goto,
         Return, Statuses, Replies
<1>2. CallsFit'
  BY DEF Inv, MarkRolledBack, TypeOK, CallsFit, MuFree, CloseDone, Goto,
         Return, Statuses, Replies
<1>3. ReplyTruthful'
  BY DEF Inv, MarkRolledBack, TypeOK, ReplyTruthful, MuFree, CloseDone,
         Goto, Return, Statuses, Replies
<1>4. DoneClosedOnce'
  BY DEF Inv, MarkRolledBack, MonitorFits, DoneClosedOnce, MuFree, Expired,
         Expiring, CloseDone, Goto, Return
<1>5. TypeOK' /\ MonitorFits' /\ OutcomeFits' /\ CommitIsMarked'
  BY DEF Inv, MarkRolledBack, TypeOK, MonitorFits, OutcomeFits,
         CommitIsMarked, MuFree, Expired, Expiring, CloseDone, Goto, Return,
         Statuses, Replies
<1> QED BY <1>1, <1>2, <1>3, <1>4, <1>5 DEF Inv

LEMMA SqlCommitKeepsInv ==
  ASSUME Inv, NEW c \in Callers, SqlCommit(c)
  PROVE  Inv'
<1>1. TypeOK'
  <2>1. TypeOK /\ CallTyped
    BY DEF Inv, TypeOK, CallTyped
  <2>2. sqlDone' \in BOOLEAN
    BY <2>1 DEF TypeOK, SqlCommit
  <2>3. UNCHANGED <<status, done, monitor, hasTimeout, timerFired, parentDone,
                    awaiter, server, work, durable, acked>>
    BY DEF SqlCommit
  <2>4. CASE Return(c, "sqlErrTxDone") \/ Return(c, "failed")
    BY <2>1, <2>2, <2>3, <2>4, ReturnIsTyped, EndIsTyped DEF Replies
  <2>5. CASE Goto(c, "draining")
    BY <2>1, <2>2, <2>3, <2>5, GotoIsTyped, EndIsTyped
  <2> QED BY <2>4, <2>5 DEF SqlCommit
<1>2. OneEnder'
  BY DEF Inv, SqlCommit, TypeOK, OneEnder, Goto, Return, Statuses, Replies
<1>3. CallsFit'
  BY DEF Inv, SqlCommit, TypeOK, CallsFit, Goto, Return, Statuses, Replies
<1>4. MonitorFits'
  BY DEF Inv, SqlCommit, CallsFit, MonitorFits, Expired, Expiring, Goto,
         Return
<1>5. ReplyTruthful'
  BY DEF Inv, SqlCommit, TypeOK, ReplyTruthful, Goto, Return, Statuses,
         Replies
<1>6. OutcomeFits' /\ CommitIsMarked' /\ DoneClosedOnce'
  BY DEF Inv, SqlCommit, OutcomeFits, CommitIsMarked, DoneClosedOnce, Goto,
         Return
<1> QED BY <1>1, <1>2, <1>3, <1>4, <1>5, <1>6 DEF Inv

LEMMA SqlRollbackKeepsInv ==
  ASSUME Inv, NEW c \in Callers, SqlRollback(c)
  PROVE  Inv'
<1>1. TypeOK'
  <2>1. TypeOK /\ CallTyped
    BY DEF Inv, TypeOK, CallTyped
  <2>2. sqlDone' \in BOOLEAN
    BY <2>1 DEF TypeOK, SqlRollback
  <2>3. UNCHANGED <<status, done, monitor, hasTimeout, timerFired, parentDone,
                    awaiter, server, work, durable, acked>>
    BY DEF SqlRollback
  <2>4. CASE Return(c, "sqlErrTxDone")
    BY <2>1, <2>2, <2>3, <2>4, ReturnIsTyped, EndIsTyped DEF Replies
  <2>5. CASE Goto(c, "draining")
    BY <2>1, <2>2, <2>3, <2>5, GotoIsTyped, EndIsTyped
  <2> QED BY <2>4, <2>5 DEF SqlRollback
<1>2. OneEnder'
  BY DEF Inv, SqlRollback, TypeOK, OneEnder, Goto, Return, Statuses, Replies
<1>3. CallsFit'
  BY DEF Inv, SqlRollback, TypeOK, CallsFit, Goto, Return, Statuses, Replies
<1>4. MonitorFits'
  BY DEF Inv, SqlRollback, CallsFit, MonitorFits, Expired, Expiring, Goto,
         Return
<1>5. ReplyTruthful'
  BY DEF Inv, SqlRollback, TypeOK, ReplyTruthful, Goto, Return, Statuses,
         Replies
<1>6. OutcomeFits' /\ CommitIsMarked' /\ DoneClosedOnce'
  BY DEF Inv, SqlRollback, OutcomeFits, CommitIsMarked, DoneClosedOnce,
         Goto, Return
<1> QED BY <1>1, <1>2, <1>3, <1>4, <1>5, <1>6 DEF Inv

LEMMA DriverCommitKeepsInv ==
  ASSUME Inv, NEW c \in Callers, DriverCommit(c)
  PROVE  Inv'
<1>1. OneEnder'
  BY DEF Inv, DriverCommit, TypeOK, OneEnder, Return, NothingRuns,
         ServerCommits, ServerRollsBack, Statuses, Replies
<1>2. CallsFit'
  BY DEF Inv, DriverCommit, TypeOK, CallsFit, Return, NothingRuns,
         ServerCommits, ServerRollsBack, Statuses, Replies
<1>3. CommitIsMarked'
  BY DEF Inv, DriverCommit, CallsFit, CommitIsMarked, Return, NothingRuns,
         ServerCommits, ServerRollsBack
<1>4. ReplyTruthful'
  BY DEF Inv, DriverCommit, TypeOK, OneEnder, ReplyTruthful, Return,
         NothingRuns, ServerCommits, ServerRollsBack, Statuses, Replies
<1>5. TypeOK' /\ MonitorFits' /\ OutcomeFits' /\ DoneClosedOnce'
  BY DEF Inv, DriverCommit, TypeOK, MonitorFits, OutcomeFits,
         DoneClosedOnce, Expired, Expiring, Return, NothingRuns,
         ServerCommits, ServerRollsBack, Statuses, Replies
<1> QED BY <1>1, <1>2, <1>3, <1>4, <1>5 DEF Inv

LEMMA DriverRollbackKeepsInv ==
  ASSUME Inv, NEW c \in Callers, DriverRollback(c)
  PROVE  Inv'
<1>1. OneEnder'
  BY DEF Inv, DriverRollback, TypeOK, OneEnder, Return, NothingRuns,
         ServerRollsBack, Statuses, Replies
<1>2. CallsFit'
  BY DEF Inv, DriverRollback, TypeOK, CallsFit, Return, NothingRuns,
         ServerRollsBack, Statuses, Replies
<1>3. ReplyTruthful'
  BY DEF Inv, DriverRollback, TypeOK, CallsFit, CommitIsMarked,
         ReplyTruthful, Return, NothingRuns, ServerRollsBack, Statuses,
         Replies
<1>4. TypeOK' /\ MonitorFits' /\ OutcomeFits'
      /\ CommitIsMarked' /\ DoneClosedOnce'
  BY DEF Inv, DriverRollback, TypeOK, MonitorFits, OutcomeFits,
         CommitIsMarked, DoneClosedOnce, Expired, Expiring, Return,
         NothingRuns, ServerRollsBack, Statuses, Replies
<1> QED BY <1>1, <1>2, <1>3, <1>4 DEF Inv

LEMMA MonitorSelectKeepsInv ==
  ASSUME Inv, MonitorSelect
  PROVE  Inv'
<1>1. TypeOK' /\ OneEnder' /\ CallsFit' /\ MonitorFits'
      /\ OutcomeFits' /\ CommitIsMarked' /\ ReplyTruthful' /\ DoneClosedOnce'
  BY DEF Inv, MonitorSelect, TypeOK, OneEnder, CallsFit, MonitorFits,
         OutcomeFits, CommitIsMarked, ReplyTruthful, DoneClosedOnce,
         Expired, Expiring, Statuses, Replies
<1> QED BY <1>1 DEF Inv

LEMMA MonitorLockKeepsInv ==
  ASSUME Inv, MonitorLock
  PROVE  Inv'
<1>1. TypeOK' /\ OneEnder' /\ CallsFit' /\ MonitorFits'
      /\ OutcomeFits' /\ CommitIsMarked' /\ ReplyTruthful' /\ DoneClosedOnce'
  BY DEF Inv, MonitorLock, TypeOK, OneEnder, CallsFit, MonitorFits,
         OutcomeFits, CommitIsMarked, ReplyTruthful, DoneClosedOnce,
         Expired, Expiring, Statuses, Replies
<1> QED BY <1>1 DEF Inv

LEMMA MonitorRollbackKeepsInv ==
  ASSUME Inv, MonitorRollback
  PROVE  Inv'
<1>1. TypeOK' /\ OneEnder' /\ CallsFit' /\ MonitorFits'
      /\ OutcomeFits' /\ CommitIsMarked' /\ ReplyTruthful' /\ DoneClosedOnce'
  BY DEF Inv, MonitorRollback, TypeOK, OneEnder, CallsFit, MonitorFits,
         OutcomeFits, CommitIsMarked, ReplyTruthful, DoneClosedOnce,
         Expired, Expiring, Statuses, Replies
<1> QED BY <1>1 DEF Inv

LEMMA MonitorDriverKeepsInv ==
  ASSUME Inv, MonitorDriver
  PROVE  Inv'
<1>1. MonitorFits'
  BY DEF Inv, MonitorDriver, OneEnder, MonitorFits, Expired, Expiring,
         NothingRuns, ServerRollsBack
<1>2. ReplyTruthful'
  BY DEF Inv, MonitorDriver, MonitorFits, CommitIsMarked, ReplyTruthful,
         Expired, Expiring, NothingRuns, ServerRollsBack
<1>3. TypeOK' /\ OneEnder' /\ CallsFit'
      /\ OutcomeFits' /\ CommitIsMarked' /\ DoneClosedOnce'
  BY DEF Inv, MonitorDriver, TypeOK, OneEnder, CallsFit, OutcomeFits,
         CommitIsMarked, DoneClosedOnce, NothingRuns, ServerRollsBack,
         Statuses, Replies
<1> QED BY <1>1, <1>2, <1>3 DEF Inv

LEMMA MonitorMarkKeepsInv ==
  ASSUME Inv, MonitorMark
  PROVE  Inv'
<1>1. CallsFit'
  BY DEF Inv, MonitorMark, MonitorFits, CallsFit, Expired, Expiring
<1>2. CommitIsMarked'
  BY DEF Inv, MonitorMark, MonitorFits, CommitIsMarked, Expired, Expiring
<1>3. TypeOK' /\ OneEnder' /\ MonitorFits'
      /\ OutcomeFits' /\ ReplyTruthful' /\ DoneClosedOnce'
  BY DEF Inv, MonitorMark, TypeOK, OneEnder, MonitorFits, OutcomeFits,
         ReplyTruthful, DoneClosedOnce, Expired, Expiring, Statuses, Replies
<1> QED BY <1>1, <1>2, <1>3 DEF Inv

LEMMA AwaitDoneKeepsInv ==
  ASSUME Inv, AwaitDone
  PROVE  Inv'
<1>1. TypeOK' /\ OneEnder' /\ CallsFit' /\ MonitorFits'
      /\ OutcomeFits' /\ CommitIsMarked' /\ ReplyTruthful' /\ DoneClosedOnce'
  BY DEF Inv, AwaitDone, TypeOK, OneEnder, CallsFit, MonitorFits,
         OutcomeFits, CommitIsMarked, ReplyTruthful, DoneClosedOnce,
         Expired, Expiring, Statuses, Replies
<1> QED BY <1>1 DEF Inv

LEMMA AwaiterDriverKeepsInv ==
  ASSUME Inv, AwaiterDriver
  PROVE  Inv'
<1>1. ReplyTruthful'
  BY DEF Inv, AwaiterDriver, OneEnder, ReplyTruthful, NothingRuns,
         ServerRollsBack
<1>2. TypeOK' /\ OneEnder' /\ CallsFit' /\ MonitorFits'
      /\ OutcomeFits' /\ CommitIsMarked' /\ DoneClosedOnce'
  BY DEF Inv, AwaiterDriver, TypeOK, OneEnder, CallsFit, MonitorFits,
         OutcomeFits, CommitIsMarked, DoneClosedOnce, Expired, Expiring,
         NothingRuns, ServerRollsBack, Statuses, Replies
<1> QED BY <1>1, <1>2 DEF Inv

LEMMA TimerFiresKeepsInv ==
  ASSUME Inv, TimerFires
  PROVE  Inv'
<1>1. TypeOK' /\ OneEnder' /\ CallsFit' /\ MonitorFits'
      /\ OutcomeFits' /\ CommitIsMarked' /\ ReplyTruthful' /\ DoneClosedOnce'
  BY DEF Inv, TimerFires, TypeOK, OneEnder, CallsFit, MonitorFits,
         OutcomeFits, CommitIsMarked, ReplyTruthful, DoneClosedOnce,
         Expired, Expiring, Statuses, Replies
<1> QED BY <1>1 DEF Inv

LEMMA ParentCancelledKeepsInv ==
  ASSUME Inv, ParentCancelled
  PROVE  Inv'
<1>1. TypeOK' /\ OneEnder' /\ CallsFit' /\ MonitorFits'
      /\ OutcomeFits' /\ CommitIsMarked' /\ ReplyTruthful' /\ DoneClosedOnce'
  BY DEF Inv, ParentCancelled, TypeOK, OneEnder, CallsFit, MonitorFits,
         OutcomeFits, CommitIsMarked, ReplyTruthful, DoneClosedOnce,
         Expired, Expiring, Statuses, Replies
<1> QED BY <1>1 DEF Inv

\* No step breaks the invariant.
LEMMA NextInv == Inv /\ [Next]_vars => Inv'
<1> SUFFICES ASSUME Inv, [Next]_vars PROVE Inv' OBVIOUS
<1>1. ASSUME NEW c \in Callers, CallerStep(c) PROVE Inv'
  BY <1>1, CheckActiveKeepsInv, RefuseKeepsInv, GrabConnKeepsInv,
     MarkCommittedKeepsInv, MarkRolledBackKeepsInv, SqlCommitKeepsInv,
     SqlRollbackKeepsInv DEF CallerStep
<1>2. ASSUME NEW c \in Callers, StatementReturns(c) \/ DriverEnds(c) PROVE Inv'
  BY <1>2, StatementReturnsKeepsInv, DriverCommitKeepsInv,
     DriverRollbackKeepsInv DEF DriverEnds
<1>3. ASSUME NEW c \in Callers, NEW o \in Methods, NEW s \in Stmts \cup {NoStmt},
             Call(c, o, s)
      PROVE  Inv'
  BY <1>3, CallKeepsInv
<1>4. CASE MonitorStep \/ MonitorDriver
  BY <1>4, MonitorSelectKeepsInv, MonitorLockKeepsInv, MonitorRollbackKeepsInv,
     MonitorMarkKeepsInv, MonitorDriverKeepsInv DEF MonitorStep
<1>5. CASE AwaitDone \/ AwaiterDriver \/ TimerFires \/ ParentCancelled
  BY <1>5, AwaitDoneKeepsInv, AwaiterDriverKeepsInv, TimerFiresKeepsInv,
     ParentCancelledKeepsInv
<1>6. CASE UNCHANGED vars
  BY <1>6 DEF vars, Inv, TypeOK, OneEnder, CallsFit, MonitorFits, OutcomeFits,
              CommitIsMarked, ReplyTruthful, DoneClosedOnce, Expiring, Expired
<1> QED BY <1>1, <1>2, <1>3, <1>4, <1>5, <1>6 DEF Next

-----------------------------------------------------------------------------
\* 2. The refinement of TxContract.

LEMMA BeginMaps == Begin => Contract!Init
BY DEF Begin, Contract!Init, Phase, Answer, Expired

LEMMA CallMaps ==
  ASSUME Inv, NEW c \in Callers, NEW o \in Methods, NEW s \in Stmts \cup {NoStmt},
         Call(c, o, s)
  PROVE  Contract!Invoke(c, o, s)
  BY DEF Inv, Call, CallsFit, TypeOK, Statuses, Replies, Contract!EndOps,
         Expired, Phase, Answer, Contract!vars, Contract!Invoke

\* The call of c returns, seen by the contract.
LEMMA ReturnMaps ==
  ASSUME reply \in [Callers -> Replies], NEW c \in Callers, reply[c] = "pending",
         NEW r, Return(c, r), UNCHANGED Expired
  PROVE  Contract!Return(c, Answer(r))
BY DEF Return, Answer, Contract!Return

LEMMA AnswerIs ==
  /\ Answer("ErrTxDone") = "done" /\ Answer("sqlErrTxDone") = "done"
  /\ Answer("ok") = "ok" /\ Answer("failed") = "failed" /\ Answer("pending") = "pending"
BY DEF Answer

LEMMA CheckActiveMaps ==
  ASSUME Inv, NEW c \in Callers, CheckActive(c)
  PROVE  Contract!SayDone(c) \/ UNCHANGED Contract!vars
<1>1. /\ reply \in [Callers -> Replies] /\ reply[c] = "pending"
      /\ UNCHANGED <<Phase, Expired, work, durable, acked>>
  BY DEF Inv, TypeOK, CallsFit, CheckActive, Phase, Expired
<1>2. CASE status # "txActive" /\ Return(c, "ErrTxDone")
  <2>1. Phase # "open" BY <1>2 DEF Phase
  <2>2. Contract!Return(c, "done") BY <1>1, <1>2, ReturnMaps, AnswerIs
  <2> QED BY <1>1, <2>1, <2>2 DEF Contract!SayDone
<1>3. CASE Goto(c, "checked")
  BY <1>1, <1>3 DEF Goto, Contract!vars
<1> QED BY <1>2, <1>3 DEF CheckActive

LEMMA RefuseMaps ==
  ASSUME Inv, NEW c \in Callers, Refuse(c)
  PROVE  Contract!Refuse(c)
  BY DEF Inv, Refuse, CallsFit, TypeOK, Return, Statuses, Replies,
         Contract!Return, Contract!StmtOps, Expired, Phase, Answer,
         Contract!vars, Contract!Refuse

LEMMA GrabConnMaps ==
  ASSUME Inv, NEW c \in Callers, GrabConn(c)
  PROVE  Contract!SayDone(c) \/ Contract!StatementFails(c) \/ UNCHANGED Contract!vars
  BY DEF Inv, GrabConn, CallsFit, TypeOK, Goto, Return, Statuses, Replies,
         Contract!Return, Contract!Live, Contract!StmtOps, Expired, Phase,
         Answer, Contract!vars, Contract!SayDone, Contract!StatementFails

LEMMA StatementReturnsMaps ==
  ASSUME Inv, NEW c \in Callers, StatementReturns(c)
  PROVE  Contract!StatementOk(c) \/ Contract!StatementFails(c)
<1>1. /\ op[c] \in Contract!StmtOps /\ Contract!Live
      /\ UNCHANGED <<Phase, Expired, durable>>
  BY DEF Inv, StatementReturns, CallsFit, Contract!StmtOps, Contract!Live,
         Phase, Expired
<1>2. reply \in [Callers -> Replies] /\ reply[c] = "pending"
  BY DEF Inv, StatementReturns, CallsFit, TypeOK
<1>3. ASSUME NEW r \in {"ok", "failed"}, Return(c, r)
      PROVE  Contract!Return(c, r)
  BY <1>1, <1>2, <1>3 DEF Return, Answer, Contract!Return
<1>4. CASE Return(c, "ok") /\ UNCHANGED <<Phase, durable>>
                           /\ work' = (IF op[c] = "Exec" THEN work \cup {stmt[c]} ELSE work)
                           /\ acked' = (IF op[c] = "Exec" THEN acked \cup {stmt[c]} ELSE acked)
  BY <1>1, <1>3, <1>4 DEF Contract!StatementOk
<1>5. CASE Return(c, "failed") /\ UNCHANGED <<Phase, durable, acked>>
                               /\ work' \in {work, IF op[c] = "Exec" THEN work \cup {stmt[c]} ELSE work}
  BY <1>1, <1>3, <1>5 DEF Contract!StatementFails
<1> QED BY <1>1, <1>4, <1>5 DEF StatementReturns

LEMMA MarkCommittedMaps ==
  ASSUME Inv, NEW c \in Callers, MarkCommitted(c)
  PROVE  Contract!BeginEnd \/ UNCHANGED Contract!vars \/ Contract!SayDone(c)
<1>1. /\ reply \in [Callers -> Replies] /\ reply[c] = "pending" /\ op[c] = "Commit"
      /\ UNCHANGED <<Expired, server, sqlDone, work, durable, acked>>
  BY DEF Inv, TypeOK, CallsFit, MarkCommitted, Expired
<1>2. CASE status = "txActive" /\ status' = "txCommitted" /\ Goto(c, "marked")
  <2>1. UNCHANGED <<op, stmt, reply>> BY <1>2 DEF Goto
  <2>2. CASE Phase = "open"
    <3>1. Phase' = "ending" BY <1>1, <1>2, <2>2 DEF Phase
    <3>2. Answer(reply[c]) = "pending" BY <1>1, AnswerIs
    <3> QED BY <1>1, <2>1, <2>2, <3>1, <3>2 DEF Contract!BeginEnd, Contract!EndOps
  <2>3. CASE Phase # "open"
    <3>1. UNCHANGED Phase BY <1>1, <1>2, <2>3 DEF Phase
    <3> QED BY <1>1, <2>1, <3>1 DEF Contract!vars
  <2> QED BY <2>2, <2>3
<1>3. CASE status # "txActive" /\ UNCHANGED status /\ Return(c, "ErrTxDone")
  <2>1. Phase # "open" /\ UNCHANGED Phase BY <1>1, <1>3 DEF Phase, Inv, OneEnder
  <2>2. Contract!Return(c, "done") BY <1>1, <1>3, ReturnMaps, AnswerIs
  <2> QED BY <1>1, <2>1, <2>2 DEF Contract!SayDone
<1> QED BY <1>2, <1>3 DEF MarkCommitted

LEMMA MarkRolledBackMaps ==
  ASSUME Inv, NEW c \in Callers, MarkRolledBack(c)
  PROVE  Contract!BeginEnd \/ UNCHANGED Contract!vars \/ Contract!SayDone(c)
  BY DEF Inv, MarkRolledBack, CallsFit, TypeOK, MuFree, CloseDone, Goto,
         Return, Statuses, Replies, Contract!Return, Contract!EndOps,
         Expired, Phase, Answer, Contract!vars, Contract!BeginEnd,
         Contract!SayDone

LEMMA SqlCommitMaps ==
  ASSUME Inv, NEW c \in Callers, SqlCommit(c)
  PROVE  UNCHANGED Contract!vars \/ Contract!SayDone(c) \/ Contract!CommitCancelled(c)
  BY DEF Inv, SqlCommit, CallsFit, TypeOK, Goto, Return, Statuses, Replies,
         Contract!Return, Expired, Phase, Answer, Contract!vars,
         Contract!SayDone, Contract!CommitCancelled

LEMMA SqlRollbackMaps ==
  ASSUME Inv, NEW c \in Callers, SqlRollback(c)
  PROVE  UNCHANGED Contract!vars \/ Contract!SayDone(c)
  BY DEF Inv, SqlRollback, CallsFit, TypeOK, Goto, Return, Statuses,
         Replies, Contract!Return, Expired, Phase, Answer, Contract!vars,
         Contract!SayDone

LEMMA DriverCommitMaps ==
  ASSUME Inv, NEW c \in Callers, DriverCommit(c)
  PROVE  Contract!CommitOk(c) \/ Contract!CommitFails(c)
  BY DEF Inv, DriverCommit, CallsFit, OneEnder, TypeOK, Return, NothingRuns,
         ServerCommits, ServerRollsBack, Statuses, Replies, Contract!Return,
         Contract!Keep, Contract!Drop, Expired, Phase, Answer,
         Contract!vars, Contract!CommitOk, Contract!CommitFails

LEMMA DriverRollbackMaps ==
  ASSUME Inv, NEW c \in Callers, DriverRollback(c)
  PROVE  Contract!RollbackReturns(c)
  BY DEF Inv, DriverRollback, CallsFit, OneEnder, TypeOK, Return,
         NothingRuns, ServerRollsBack, Statuses, Replies, Contract!Return,
         Contract!Drop, Expired, Phase, Answer, Contract!vars,
         Contract!RollbackReturns

LEMMA MonitorSelectMaps ==
  ASSUME Inv, MonitorSelect
  PROVE  UNCHANGED Contract!vars
  BY DEF MonitorSelect, Expired, Phase, Answer, Contract!vars

LEMMA MonitorLockMaps ==
  ASSUME Inv, MonitorLock
  PROVE  UNCHANGED Contract!vars
  BY DEF MonitorLock, Expired, Phase, Answer, Contract!vars

LEMMA MonitorRollbackMaps ==
  ASSUME Inv, MonitorRollback
  PROVE  Contract!BeginEnd \/ UNCHANGED Contract!vars
  BY DEF Inv, MonitorRollback, MonitorFits, Expired, Expiring,
         Contract!EndOps, Phase, Answer, Contract!vars, Contract!BeginEnd

LEMMA MonitorDriverMaps ==
  ASSUME Inv, MonitorDriver
  PROVE  Contract!AutoRollback
  BY DEF Inv, MonitorDriver, MonitorFits, OneEnder, Expired, Expiring,
         NothingRuns, ServerRollsBack, Contract!Drop, Phase, Answer,
         Contract!vars, Contract!AutoRollback

LEMMA MonitorMarkMaps ==
  ASSUME Inv, MonitorMark
  PROVE  UNCHANGED Contract!vars
  BY DEF Inv, MonitorMark, MonitorFits, Expired, Expiring, Phase, Answer,
         Contract!vars

LEMMA AwaitDoneMaps ==
  ASSUME Inv, AwaitDone
  PROVE  Contract!BeginEnd \/ UNCHANGED Contract!vars
  BY DEF AwaitDone, Contract!EndOps, Expired, Phase, Answer, Contract!vars,
         Contract!BeginEnd

LEMMA AwaiterDriverMaps ==
  ASSUME Inv, AwaiterDriver
  PROVE  Contract!AutoRollback
  BY DEF Inv, AwaiterDriver, MonitorFits, OneEnder, Expired, Expiring,
         NothingRuns, ServerRollsBack, Contract!Drop, Phase, Answer,
         Contract!vars, Contract!AutoRollback

LEMMA TimerFiresMaps ==
  ASSUME Inv, TimerFires
  PROVE  Contract!Expire \/ UNCHANGED Contract!vars
  BY DEF TimerFires, Expired, Phase, Answer, Contract!vars, Contract!Expire

LEMMA ParentCancelledMaps ==
  ASSUME Inv, ParentCancelled
  PROVE  Contract!Expire \/ UNCHANGED Contract!vars
  BY DEF ParentCancelled, Expired, Phase, Answer, Contract!vars,
         Contract!Expire

\* Every step is a step of the contract or leaves its variables alone.
LEMMA NextMaps == Inv /\ [Next]_vars => [Contract!Next]_(Contract!vars)
<1> SUFFICES ASSUME Inv, [Next]_vars
             PROVE  Contract!Next \/ UNCHANGED Contract!vars
  OBVIOUS
<1>1. ASSUME NEW c \in Callers, CallerStep(c)
      PROVE  Contract!Next \/ UNCHANGED Contract!vars
  BY <1>1, CheckActiveMaps, RefuseMaps, GrabConnMaps, MarkCommittedMaps,
     MarkRolledBackMaps, SqlCommitMaps, SqlRollbackMaps DEF CallerStep, Contract!Next
<1>2. ASSUME NEW c \in Callers, StatementReturns(c) \/ DriverEnds(c)
      PROVE  Contract!Next
  BY <1>2, StatementReturnsMaps, DriverCommitMaps, DriverRollbackMaps
     DEF DriverEnds, Contract!Next
<1>3. ASSUME NEW c \in Callers, NEW o \in Methods, NEW s \in Stmts \cup {NoStmt},
             Call(c, o, s)
      PROVE  Contract!Next
  BY <1>3, CallMaps, MethodAssumption
     DEF Contract!Next, Contract!EndOps, Contract!StmtOps
<1>4. CASE MonitorStep \/ MonitorDriver
  BY <1>4, MonitorSelectMaps, MonitorLockMaps, MonitorRollbackMaps,
     MonitorMarkMaps, MonitorDriverMaps DEF MonitorStep, Contract!Next
<1>5. CASE AwaitDone \/ AwaiterDriver \/ TimerFires \/ ParentCancelled
  BY <1>5, AwaitDoneMaps, AwaiterDriverMaps, TimerFiresMaps, ParentCancelledMaps
     DEF Contract!Next
<1>6. CASE UNCHANGED vars
  BY <1>6 DEF vars, Contract!vars, Phase, Answer, Expired
<1> QED BY <1>1, <1>2, <1>3, <1>4, <1>5, <1>6 DEF Next

-----------------------------------------------------------------------------
\* 3. The theorems.

\* The inductive invariant holds of every reachable state: who may wait for
\* closemu, where a call can be under each status, when the monitor acts.
THEOREM InvHolds == Spec => []Inv
<1>1. Begin => Inv BY BeginInv
<1>2. Inv /\ [Next]_vars => Inv' BY NextInv
<1> QED BY <1>1, <1>2, PTL DEF Spec

\* Type correctness.
THEOREM TypeCorrect == Spec => []TypeOK
<1>1. Inv => TypeOK BY DEF Inv
<1> QED BY <1>1, InvHolds, PTL

\* What the database committed was marked committed before.
THEOREM CommitsAreMarked == Spec => []CommitIsMarked
<1>1. Inv => CommitIsMarked BY DEF Inv
<1> QED BY <1>1, InvHolds, PTL

\* An ok from Commit or Rollback is true.
THEOREM RepliesAreTruthful == Spec => []ReplyTruthful
<1>1. Inv => ReplyTruthful BY DEF Inv
<1> QED BY <1>1, InvHolds, PTL

\* done is never closed twice: no order of Commit, Rollback and the monitor
\* panics.
THEOREM DoneNeverPanics == Spec => []DoneClosedOnce
<1>1. Inv => DoneClosedOnce BY DEF Inv
<1> QED BY <1>1, InvHolds, PTL

\* A committed transaction keeps every acknowledged statement.
THEOREM AcknowledgedWorkIsDurable == Spec => []AckedIsDurable
<1>1. Inv => AckedIsDurable BY DEF Inv, OutcomeFits, AckedIsDurable
<1> QED BY <1>1, InvHolds, PTL

\* The auto-rollback goroutine leaves a transaction marked committed alone.
THEOREM MonitorIsHarmless == Spec => []MonitorSparesCommit
<1>1. Inv => MonitorSparesCommit BY DEF Inv, MonitorFits, MonitorSparesCommit
<1> QED BY <1>1, InvHolds, PTL

\* The server ends the transaction once.
THEOREM ServerEndsOnce == Spec => EndsOnce
<1> DEFINE Once == server # "open" => UNCHANGED <<server, durable>>
<1>1. Inv /\ [Next]_vars => [Once]_vars
  <2> SUFFICES ASSUME Inv, Next, server # "open" PROVE UNCHANGED <<server, durable>>
    OBVIOUS
  <2>1. /\ \A c \in Callers : pc[c] \notin {"running", "draining"}
        /\ monitor # "drain" /\ awaiter # "drain"
    BY DEF Inv, OneEnder, CallsFit
  <2>2. ASSUME NEW c \in Callers, CallerStep(c) PROVE UNCHANGED <<server, durable>>
    BY <2>2 DEF CallerStep, CheckActive, Refuse, GrabConn, MarkCommitted,
                MarkRolledBack, SqlCommit, SqlRollback
  <2>3. ASSUME NEW c \in Callers, StatementReturns(c) \/ DriverEnds(c)
        PROVE  FALSE
    BY <2>1, <2>3 DEF StatementReturns, DriverEnds, DriverCommit, DriverRollback
  <2>4. ASSUME NEW c \in Callers, NEW o \in Methods, NEW s \in Stmts \cup {NoStmt},
               Call(c, o, s)
        PROVE  UNCHANGED <<server, durable>>
    BY <2>4 DEF Call
  <2>5. CASE MonitorStep \/ MonitorDriver
    BY <2>1, <2>5 DEF MonitorStep, MonitorSelect, MonitorLock, MonitorRollback,
                      MonitorMark, MonitorDriver
  <2>6. CASE AwaitDone \/ AwaiterDriver \/ TimerFires \/ ParentCancelled
    BY <2>1, <2>6 DEF AwaitDone, AwaiterDriver, TimerFires, ParentCancelled
  <2> QED BY <2>2, <2>3, <2>4, <2>5, <2>6 DEF Next
<1> QED BY <1>1, InvHolds, PTL DEF Spec, EndsOnce

\* Transaction implements TxContract: seen through Tx's answers, every call
\* takes effect at one instant or says why it did not.
THEOREM ContractIsImplemented == Spec => ImplementsContract
<1>1. Begin => Contract!Init BY BeginMaps
<1>2. Inv /\ [Next]_vars => [Contract!Next]_(Contract!vars) BY NextMaps
<1> QED BY <1>1, <1>2, InvHolds, PTL DEF Spec, ImplementsContract, Contract!Spec
=============================================================================
