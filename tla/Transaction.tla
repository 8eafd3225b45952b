----------------------------- MODULE Transaction -----------------------------
(***************************************************************************)
(* One transaction of pkg/db/transaction.go, opened by Session.Begin and    *)
(* shared by several goroutines, together with                              *)
(*   - the auto-rollback goroutine newTransaction starts (the monitor),     *)
(*   - the sql.Tx below it: its done flag, its closemu (held shared by a    *)
(*     running statement, awaited by whoever ends the transaction) and the  *)
(*     goroutine awaitDone that rolls back when the context of BeginTxx is  *)
(*     cancelled.  database/sql is not under src/: those definitions are    *)
(*     external and say what the code above relies on,                      *)
(*   - the database server's view of the transaction.                       *)
(*                                                                          *)
(* The mutex t.mu guards critical sections without calls, each one step     *)
(* here, but one: the monitor holds it across tx.Rollback, so it is held    *)
(* exactly while the monitor is in one of the states of MuHeld.             *)
(***************************************************************************)
EXTENDS Naturals

CONSTANTS Callers,   \* goroutines that hold the Tx
          Stmts,     \* the statements they pass to it
          NoStmt,    \* no statement: the argument of Commit and Rollback
          Selects,   \* statements sqlnorm.IsSELECT accepts
          Blocked,   \* statements guard.Check or the WHERE rule refuse
          Methods,   \* the methods of Tx they call
          Timeouts   \* values of QueryTimeout > 0 a session may have

ASSUME StmtAssumption ==
  /\ NoStmt \notin Stmts
  /\ Selects \subseteq Stmts
  /\ Blocked \subseteq Stmts \ Selects
ASSUME MethodAssumption ==
  Methods \subseteq {"Exec", "Query", "QueryWithOffset", "Commit", "Rollback"}
ASSUME TimeoutAssumption == Timeouts \in (SUBSET BOOLEAN) \ {{}}

VARIABLES
  status,      \* transaction.status
  done,        \* transaction.done: "open", "closed"; "panic" if closed twice
  monitor,     \* where the auto-rollback goroutine is
  hasTimeout,  \* QueryTimeout > 0 when Begin made txCtx
  timerFired,  \* the deadline of txCtx has passed
  parentDone,  \* the context given to Begin is cancelled
  pc,          \* pc[c]: where caller c's call is
  op,          \* op[c]: the method c called last
  stmt,        \* stmt[c]: the statement of c's call in progress
  reply,       \* reply[c]: "pending", or the answer to c's last call
  sqlDone,     \* sql.Tx.done: somebody won the right to end it
  awaiter,     \* where sql.Tx.awaitDone is
  server,      \* the transaction on the server
  work,        \* statements whose effect the open transaction holds
  durable,     \* statements whose effect the database keeps
  acked        \* statements a caller was told had succeeded

callVars == <<pc, op, stmt, reply>>
ctxVars  == <<hasTimeout, timerFired, parentDone>>
txVars   == <<status, done>>
dbVars   == <<server, work, durable>>
vars == <<txVars, monitor, ctxVars, callVars, sqlDone, awaiter, dbVars, acked>>

EndOps  == {"Commit", "Rollback"}
StmtOps == {"Exec", "Query", "QueryWithOffset"}
MuHeld  == {"rollback", "drain", "mark"}

Statuses == {"txActive", "txCommitted", "txRolledBack"}
Replies  == {"none", "pending", "ok", "refused", "failed", "ErrTxDone", "sqlErrTxDone"}

TypeOK ==
  /\ status \in Statuses
  /\ done \in {"open", "closed", "panic"}
  /\ monitor \in {"select", "lock", "exited"} \cup MuHeld
  /\ hasTimeout \in BOOLEAN /\ timerFired \in BOOLEAN /\ parentDone \in BOOLEAN
  /\ pc \in [Callers -> {"idle", "entry", "checked", "running", "marked", "draining"}]
  /\ op \in [Callers -> {"none"} \cup EndOps \cup StmtOps]
  /\ stmt \in [Callers -> Stmts \cup {NoStmt}]
  /\ reply \in [Callers -> Replies]
  /\ sqlDone \in BOOLEAN
  /\ awaiter \in {"waiting", "drain", "exited"}
  /\ server \in {"open", "committed", "rolledback"}
  /\ work \subseteq Stmts /\ durable \subseteq Stmts /\ acked \subseteq Stmts

-----------------------------------------------------------------------------
\* Session.Begin, then newTransaction: the monitor waits in its select.
Begin ==
  /\ status = "txActive" /\ done = "open" /\ monitor = "select"
  /\ hasTimeout \in Timeouts /\ timerFired = FALSE /\ parentDone = FALSE
  /\ pc = [c \in Callers |-> "idle"]
  /\ op = [c \in Callers |-> "none"]
  /\ stmt = [c \in Callers |-> NoStmt]
  /\ reply = [c \in Callers |-> "none"]
  /\ sqlDone = FALSE /\ awaiter = "waiting"
  /\ server = "open" /\ work = {} /\ durable = {} /\ acked = {}

MuFree == monitor \notin MuHeld
Expired == timerFired \/ parentDone             \* txCtx.Done() is closed
NothingRuns == \A d \in Callers : pc[d] # "running"   \* closemu.Lock() succeeds

Goto(c, l) == pc' = [pc EXCEPT ![c] = l] /\ UNCHANGED <<op, stmt, reply>>

Return(c, r) ==
  /\ pc' = [pc EXCEPT ![c] = "idle"]
  /\ stmt' = [stmt EXCEPT ![c] = NoStmt]
  /\ reply' = [reply EXCEPT ![c] = r]
  /\ UNCHANGED op

Call(c, o, s) ==
  /\ pc[c] = "idle"
  /\ (o \in EndOps) <=> (s = NoStmt)
  /\ pc' = [pc EXCEPT ![c] = "entry"]
  /\ op' = [op EXCEPT ![c] = o]
  /\ stmt' = [stmt EXCEPT ![c] = s]
  /\ reply' = [reply EXCEPT ![c] = "pending"]
  /\ UNCHANGED <<txVars, monitor, ctxVars, sqlDone, awaiter, dbVars, acked>>

-----------------------------------------------------------------------------
\* Statements: Exec, Query, QueryWithOffset.

CheckActive(c) ==
  /\ pc[c] = "entry" /\ op[c] \in StmtOps /\ MuFree
  /\ IF status # "txActive" THEN Return(c, "ErrTxDone") ELSE Goto(c, "checked")
  /\ UNCHANGED <<txVars, monitor, ctxVars, sqlDone, awaiter, dbVars, acked>>

\* What the method itself refuses once checkActive has passed.
ExecRefuses(s)  == s \in Blocked
QueryRefuses(s) == s \notin Selects
Refuses(o, s) == IF o = "Exec" THEN ExecRefuses(s) ELSE QueryRefuses(s)

Refuse(c) ==
  /\ pc[c] = "checked" /\ Refuses(op[c], stmt[c])
  /\ Return(c, "refused")
  /\ UNCHANGED <<txVars, monitor, ctxVars, sqlDone, awaiter, dbVars, acked>>

\* sql.Tx.grabConn: fails when the caller's context is done or the sql.Tx has
\* ended; takes closemu shared, before it reads done, otherwise.
GrabConn(c) ==
  /\ pc[c] = "checked" /\ ~Refuses(op[c], stmt[c])
  /\ \/ sqlDone /\ Return(c, "sqlErrTxDone")
     \/ ~sqlDone /\ Goto(c, "running")
     \/ Return(c, "failed")
  /\ UNCHANGED <<txVars, monitor, ctxVars, sqlDone, awaiter, dbVars, acked>>

\* Faulty: Exec does not look at the error of ExecContext.
StatementReturnsForgives(c) ==
  /\ pc[c] = "running" /\ Return(c, "ok")
  /\ work' \in {work, IF op[c] = "Exec" THEN work \cup {stmt[c]} ELSE work}
  /\ acked' = IF op[c] = "Exec" THEN acked \cup {stmt[c]} ELSE acked
  /\ UNCHANGED <<txVars, monitor, ctxVars, sqlDone, awaiter, server, durable>>

\* The driver answers; a statement that fails may have had its effect.
StatementReturns(c) ==
  /\ pc[c] = "running"
  /\ \/ /\ Return(c, "ok")
        /\ work' = IF op[c] = "Exec" THEN work \cup {stmt[c]} ELSE work
        /\ acked' = IF op[c] = "Exec" THEN acked \cup {stmt[c]} ELSE acked
     \/ /\ Return(c, "failed")
        /\ work' \in {work, IF op[c] = "Exec" THEN work \cup {stmt[c]} ELSE work}
        /\ UNCHANGED acked
  /\ UNCHANGED <<txVars, monitor, ctxVars, sqlDone, awaiter, server, durable>>

-----------------------------------------------------------------------------
\* Commit and Rollback: first the mark, under mu, then the sql.Tx.

CloseDone == done' = IF done = "open" THEN "closed" ELSE "panic"

\* Faulty: the transaction is not marked before it is committed.
MarkCommittedForgotten(c) ==
  /\ pc[c] = "entry" /\ op[c] = "Commit" /\ MuFree
  /\ IF status = "txActive" THEN Goto(c, "marked") ELSE Return(c, "ErrTxDone")
  /\ UNCHANGED <<txVars, monitor, ctxVars, sqlDone, awaiter, dbVars, acked>>

\* Faulty: done is not closed.
MarkCommittedSilent(c) ==
  /\ pc[c] = "entry" /\ op[c] = "Commit" /\ MuFree
  /\ IF status = "txActive"
       THEN status' = "txCommitted" /\ UNCHANGED done /\ Goto(c, "marked")
       ELSE UNCHANGED txVars /\ Return(c, "ErrTxDone")
  /\ UNCHANGED <<monitor, ctxVars, sqlDone, awaiter, dbVars, acked>>

MarkCommitted(c) ==
  /\ pc[c] = "entry" /\ op[c] = "Commit" /\ MuFree
  /\ IF status = "txActive"
       THEN status' = "txCommitted" /\ CloseDone /\ Goto(c, "marked")
       ELSE UNCHANGED txVars /\ Return(c, "ErrTxDone")
  /\ UNCHANGED <<monitor, ctxVars, sqlDone, awaiter, dbVars, acked>>

\* Faulty: no case for a transaction already rolled back.
MarkRolledBackTwice(c) ==
  /\ pc[c] = "entry" /\ op[c] = "Rollback" /\ MuFree
  /\ IF status = "txCommitted"
       THEN UNCHANGED txVars /\ Return(c, "ErrTxDone")
       ELSE status' = "txRolledBack" /\ CloseDone /\ Goto(c, "marked")
  /\ UNCHANGED <<monitor, ctxVars, sqlDone, awaiter, dbVars, acked>>

\* Faulty: Rollback answers nil at once when the status says rolled back.
MarkRolledBackAnswers(c) ==
  /\ pc[c] = "entry" /\ op[c] = "Rollback" /\ MuFree
  /\ \/ /\ status = "txCommitted"
        /\ UNCHANGED txVars /\ Return(c, "ErrTxDone")
     \/ /\ status = "txRolledBack"
        /\ UNCHANGED txVars /\ Return(c, "ok")
     \/ /\ status = "txActive"
        /\ status' = "txRolledBack" /\ CloseDone /\ Goto(c, "marked")
  /\ UNCHANGED <<monitor, ctxVars, sqlDone, awaiter, dbVars, acked>>

\* Faulty: Rollback marks and does not go on to the sql.Tx.
MarkRolledBackOnly(c) ==
  /\ pc[c] = "entry" /\ op[c] = "Rollback" /\ MuFree
  /\ IF status = "txActive"
       THEN status' = "txRolledBack" /\ CloseDone ELSE UNCHANGED txVars
  /\ Return(c, IF status = "txCommitted" THEN "ErrTxDone" ELSE "ok")
  /\ UNCHANGED <<monitor, ctxVars, sqlDone, awaiter, dbVars, acked>>

\* Idempotent: a transaction already rolled back goes on to tx.Rollback.
MarkRolledBack(c) ==
  /\ pc[c] = "entry" /\ op[c] = "Rollback" /\ MuFree
  /\ \/ /\ status = "txCommitted"
        /\ UNCHANGED txVars /\ Return(c, "ErrTxDone")
     \/ /\ status = "txRolledBack"
        /\ UNCHANGED txVars /\ Goto(c, "marked")
     \/ /\ status = "txActive"
        /\ status' = "txRolledBack" /\ CloseDone /\ Goto(c, "marked")
  /\ UNCHANGED <<monitor, ctxVars, sqlDone, awaiter, dbVars, acked>>

\* sql.Tx.Commit: a cancelled context wins over the commit, and then leaves
\* the rollback to awaitDone.
SqlCommit(c) ==
  /\ pc[c] = "marked" /\ op[c] = "Commit"
  /\ \/ sqlDone /\ Return(c, "sqlErrTxDone") /\ UNCHANGED sqlDone
     \/ ~sqlDone /\ parentDone /\ Return(c, "failed") /\ UNCHANGED sqlDone
     \/ ~sqlDone /\ ~parentDone /\ sqlDone' = TRUE /\ Goto(c, "draining")
  /\ UNCHANGED <<txVars, monitor, ctxVars, awaiter, dbVars, acked>>

\* Faulty: Rollback takes sql.ErrTxDone for success.
SqlRollbackForgives(c) ==
  /\ pc[c] = "marked" /\ op[c] = "Rollback"
  /\ \/ sqlDone /\ Return(c, "ok") /\ UNCHANGED sqlDone
     \/ ~sqlDone /\ sqlDone' = TRUE /\ Goto(c, "draining")
  /\ UNCHANGED <<txVars, monitor, ctxVars, awaiter, dbVars, acked>>

SqlRollback(c) ==
  /\ pc[c] = "marked" /\ op[c] = "Rollback"
  /\ \/ sqlDone /\ Return(c, "sqlErrTxDone") /\ UNCHANGED sqlDone
     \/ ~sqlDone /\ sqlDone' = TRUE /\ Goto(c, "draining")
  /\ UNCHANGED <<txVars, monitor, ctxVars, awaiter, dbVars, acked>>

ServerCommits == server' = "committed" /\ durable' = work /\ UNCHANGED work
ServerRollsBack == server' = "rolledback" /\ UNCHANGED <<work, durable>>

\* A commit that fails at the driver may have reached the server or not; a
\* rollback that fails leaves a connection whose transaction the server drops.
DriverCommit(c) ==
  /\ pc[c] = "draining" /\ op[c] = "Commit" /\ NothingRuns
  /\ \/ ServerCommits /\ Return(c, "ok")
     \/ (ServerCommits \/ ServerRollsBack) /\ Return(c, "failed")
  /\ UNCHANGED <<txVars, monitor, ctxVars, sqlDone, awaiter, acked>>

DriverRollback(c) ==
  /\ pc[c] = "draining" /\ op[c] = "Rollback" /\ NothingRuns
  /\ ServerRollsBack
  /\ Return(c, "ok") \/ Return(c, "failed")
  /\ UNCHANGED <<txVars, monitor, ctxVars, sqlDone, awaiter, acked>>

-----------------------------------------------------------------------------
\* The auto-rollback goroutine of newTransaction.

\* Faulty: the deadline is not among the cases of the select.
MonitorSelectDone ==
  /\ monitor = "select" /\ done # "open"
  /\ monitor' = "exited"
  /\ UNCHANGED <<txVars, ctxVars, callVars, sqlDone, awaiter, dbVars, acked>>

MonitorSelect == \* both cases may be ready: select takes either
  /\ monitor = "select"
  /\ \/ Expired /\ monitor' = "lock"
     \/ done # "open" /\ monitor' = "exited"
  /\ UNCHANGED <<txVars, ctxVars, callVars, sqlDone, awaiter, dbVars, acked>>

\* Faulty: the monitor does not look at the status.
MonitorLockBlindly ==
  /\ monitor = "lock" /\ monitor' = "rollback"
  /\ UNCHANGED <<txVars, ctxVars, callVars, sqlDone, awaiter, dbVars, acked>>

MonitorLock ==
  /\ monitor = "lock"
  /\ monitor' = IF status = "txActive" THEN "rollback" ELSE "exited"
  /\ UNCHANGED <<txVars, ctxVars, callVars, sqlDone, awaiter, dbVars, acked>>

\* Faulty: a failed Rollback leaves the goroutine with mu still locked.
MonitorRollbackKeepsMu ==
  /\ monitor = "rollback"
  /\ sqlDone' = TRUE
  /\ monitor' = IF sqlDone THEN "rollback" ELSE "drain"
  /\ UNCHANGED <<txVars, ctxVars, callVars, awaiter, dbVars, acked>>

MonitorRollback == \* t.tx.Rollback(), mu held
  /\ monitor = "rollback"
  /\ sqlDone' = TRUE
  /\ monitor' = IF sqlDone THEN "mark" ELSE "drain"
  /\ UNCHANGED <<txVars, ctxVars, callVars, awaiter, dbVars, acked>>

MonitorDriver ==
  /\ monitor = "drain" /\ NothingRuns
  /\ ServerRollsBack
  /\ monitor' = "mark"
  /\ UNCHANGED <<txVars, ctxVars, callVars, sqlDone, awaiter, acked>>

MonitorMark == \* the status, whatever Rollback answered; done stays open
  /\ monitor = "mark"
  /\ status' = "txRolledBack" /\ UNCHANGED done
  /\ monitor' = "exited"
  /\ UNCHANGED <<ctxVars, callVars, sqlDone, awaiter, dbVars, acked>>

-----------------------------------------------------------------------------
\* database/sql's own watcher, and the two clocks.

AwaitDone == \* woken by the parent context, or by whoever ended the sql.Tx
  /\ awaiter = "waiting" /\ (parentDone \/ sqlDone)
  /\ sqlDone' = TRUE
  /\ awaiter' = IF sqlDone THEN "exited" ELSE "drain"
  /\ UNCHANGED <<txVars, monitor, ctxVars, callVars, dbVars, acked>>

AwaiterDriver ==
  /\ awaiter = "drain" /\ NothingRuns
  /\ ServerRollsBack
  /\ awaiter' = "exited"
  /\ UNCHANGED <<txVars, monitor, ctxVars, callVars, sqlDone, acked>>

TimerFires == \* the monitor's deferred cancel() stops the timer
  /\ hasTimeout /\ ~timerFired /\ monitor # "exited"
  /\ timerFired' = TRUE
  /\ UNCHANGED <<txVars, monitor, hasTimeout, parentDone, callVars, sqlDone, awaiter, dbVars, acked>>

ParentCancelled ==
  /\ ~parentDone /\ parentDone' = TRUE
  /\ UNCHANGED <<txVars, monitor, hasTimeout, timerFired, callVars, sqlDone, awaiter, dbVars, acked>>

-----------------------------------------------------------------------------
CallerStep(c) ==
  \/ CheckActive(c) \/ Refuse(c) \/ GrabConn(c)
  \/ MarkCommitted(c) \/ MarkRolledBack(c) \/ SqlCommit(c) \/ SqlRollback(c)

DriverEnds(c) == DriverCommit(c) \/ DriverRollback(c)

MonitorStep == MonitorSelect \/ MonitorLock \/ MonitorRollback \/ MonitorMark

Next ==
  \/ \E c \in Callers :
       \/ \E o \in Methods, s \in Stmts \cup {NoStmt} : Call(c, o, s)
       \/ CallerStep(c) \/ StatementReturns(c) \/ DriverEnds(c)
  \/ MonitorStep \/ MonitorDriver
  \/ AwaitDone \/ AwaiterDriver
  \/ TimerFires \/ ParentCancelled

Spec == Begin /\ [][Next]_vars

\* The Go scheduler runs every goroutine that can run, and the timer fires.
CodeFairness ==
  /\ \A c \in Callers : WF_vars(CallerStep(c))
  /\ WF_vars(MonitorStep) /\ WF_vars(AwaitDone) /\ WF_vars(TimerFires)

\* The database answers a commit or a rollback, and a statement.
EndFairness ==
  /\ \A c \in Callers : WF_vars(DriverEnds(c))
  /\ WF_vars(MonitorDriver) /\ WF_vars(AwaiterDriver)
StatementFairness == \A c \in Callers : WF_vars(StatementReturns(c))

SpecHangs == Spec /\ CodeFairness /\ EndFairness  \* a statement may hang
FairSpec  == SpecHangs /\ StatementFairness

-----------------------------------------------------------------------------
\* Safety.

\* The comment over markCommitted asks that the commit be marked before the
\* database commits: what the database committed, the wrapper calls committed,
\* and nothing the wrapper calls rolled back is ever committed.
CommitIsMarked == server = "committed" => status = "txCommitted"

\* Whoever is told ok is told the truth, by every interleaving of the callers,
\* the monitor and database/sql's watcher: an ok from Commit (Rollback) means
\* the server has committed (rolled back).
ReplyTruthful ==
  \A c \in Callers : reply[c] = "ok" =>
    /\ op[c] = "Commit" => server = "committed"
    /\ op[c] = "Rollback" => server = "rolledback"

\* Two paths close done (markCommitted, markRolledBack), a third (the monitor)
\* ends without closing it: no order of them closes it twice.
DoneClosedOnce == done # "panic"

\* A committed transaction keeps every statement a caller was told had
\* succeeded, those that were running while Commit was called included.
AckedIsDurable == server = "committed" => acked \subseteq durable

\* Once Commit has marked the transaction the monitor does not touch it, the
\* deadline notwithstanding.
MonitorSparesCommit == status = "txCommitted" => monitor \notin MuHeld

\* The server ends the transaction once, whoever and however many try.
EndsOnce == [][server # "open" => UNCHANGED <<server, durable>>]_vars

-----------------------------------------------------------------------------
\* Refinement: the state a caller of Tx sees.

Phase == IF server # "open" THEN server
         ELSE IF status # "txActive" \/ sqlDone THEN "ending" ELSE "open"

Answer(r) == IF r \in {"ErrTxDone", "sqlErrTxDone"} THEN "done" ELSE r

Contract == INSTANCE TxContract
  WITH phase <- Phase, effects <- work, expired <- Expired,
       reply <- [c \in Callers |-> Answer(reply[c])]

\* Every call of Tx takes effect at one instant or answers why it did not.
ImplementsContract == Contract!Spec

-----------------------------------------------------------------------------
\* The inductive invariant the proofs rest on.

Expiring == monitor = "lock" \/ monitor \in MuHeld

\* The right to end the sql.Tx is won once: at most one of the callers, the
\* monitor and the watcher waits for closemu, and only while the server waits.
OneEnder ==
  /\ server # "open" => sqlDone
  /\ \A c \in Callers : pc[c] = "draining" =>
       /\ sqlDone /\ server = "open" /\ monitor # "drain" /\ awaiter # "drain"
       /\ \A d \in Callers : pc[d] = "draining" => d = c
  /\ monitor = "drain" => sqlDone /\ server = "open" /\ awaiter # "drain"
  /\ awaiter = "drain" => sqlDone /\ server = "open"

\* Where a call can be, given its method and the status; a statement runs only
\* in an open transaction.
CallsFit == \A c \in Callers :
  /\ pc[c] = "idle" <=> reply[c] # "pending"
  /\ pc[c] # "idle" => IF op[c] \in StmtOps THEN stmt[c] \in Stmts ELSE op[c] \in EndOps
  /\ pc[c] \in {"checked", "running"} => op[c] \in StmtOps
  /\ pc[c] \in {"marked", "draining"} =>
       \/ op[c] = "Commit" /\ status = "txCommitted"
       \/ op[c] = "Rollback" /\ status = "txRolledBack"
  /\ pc[c] = "running" => server = "open"

\* The monitor acts on an active, expired transaction and on no other; only an
\* expiry ends the sql.Tx of an active one.
MonitorFits ==
  /\ monitor \in MuHeld => status = "txActive"
  /\ monitor = "mark" => sqlDone
  /\ Expiring => Expired
  /\ awaiter = "drain" => parentDone
  /\ status = "txActive" /\ sqlDone => Expired
  /\ status = "txActive" => done = "open"

OutcomeFits ==
  /\ acked \subseteq work
  /\ server = "committed" => durable = work

Inv == /\ TypeOK /\ OneEnder /\ CallsFit /\ MonitorFits /\ OutcomeFits
       /\ CommitIsMarked /\ ReplyTruthful /\ DoneClosedOnce

-----------------------------------------------------------------------------
\* Liveness, while the database answers.

\* Session.Begin's comment: the transaction whose deadline passes ends on the
\* server, whatever the callers do and even if they do nothing.
ExpiryEnds == Expired ~> (server # "open")

\* A transaction marked ended gives its connection back.
MarkedEnds == (status # "txActive") ~> (server # "open")

\* The monitor goroutine and its context do not leak.
MonitorExits == (status # "txActive") ~> (monitor = "exited")

\* Every call returns, even one that waits for the mutex the monitor holds.
CallsReturn == \A c \in Callers : (pc[c] # "idle") ~> (pc[c] = "idle")

-----------------------------------------------------------------------------
\* What docs and tests say and the code does not do.

\* transaction_test.go: "Second Rollback must return ErrTxDone".  It returns
\* the error of the same name of database/sql, another value.
SecondRollbackIsErrTxDone ==
  ~Expired => \A c \in Callers : op[c] = "Rollback" => reply[c] # "sqlErrTxDone"

\* Session.Begin: "If the session's QueryTimeout is set, the transaction is
\* automatically rolled back when the timeout expires".  Not while a statement
\* runs: the statement has no deadline of its own, and tx.Rollback waits for it.
TimeoutRollsBack == timerFired ~> (server # "open" \/ parentDone)
=============================================================================
