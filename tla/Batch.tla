-------------------------------- MODULE Batch --------------------------------
(***************************************************************************)
(* exec --file of the command line: batchExec of cmd/cli/batch.go runs a    *)
(* list of statements, in one transaction or each on its own, and reports   *)
(* one StmtResult per statement it tried.                                   *)
(*                                                                          *)
(* The transaction is the one TxContract specifies, with the batch as its   *)
(* only caller: Transaction!ImplementsContract makes every outcome of       *)
(* pkg/db/transaction.go one of those, the auto-rollback in mid-batch       *)
(* included.  A statement is its place in the file.                         *)
(***************************************************************************)
EXTENDS Integers, Sequences

CONSTANTS N,          \* statements in the file
          Blockings   \* the sets of statements the guards may refuse

ASSUME BatchAssumption == N \in Nat /\ Blockings \subseteq SUBSET (1..N)

VARIABLES
  useTransaction, continueOnError,  \* the flags of the command
  blocked,   \* statements the policy and the WHERE rule refuse
  pc,        \* where batchExec is
  i,         \* the statement it is at
  firstErr,  \* some statement has failed
  results,   \* "ok" or "error" of each statement; "begin", "commit" if these fail
  \* the transaction; without one, durable is what the statements stored
  phase, effects, durable, acked, op, stmt, reply, expired

flags     == <<useTransaction, continueOnError, blocked>>
batchVars == <<flags, pc, i, firstErr, results>>
txVars    == <<phase, effects, durable, acked, op, stmt, reply, expired>>
vars      == <<batchVars, txVars>>

Statements == 1..N
Me == "batchExec"
Tx == INSTANCE TxContract WITH Callers <- {Me}, Stmts <- Statements, NoStmt <- 0

\* runMain: --force sets PolicyAllow before the batch, which then blocks less.
Init ==
  /\ useTransaction \in BOOLEAN /\ continueOnError \in BOOLEAN
  /\ blocked \in Blockings
  /\ pc = IF useTransaction THEN "begin" ELSE "loop"
  /\ i = 1 /\ firstErr = FALSE /\ results = <<>>
  /\ Tx!Init

Report(r) == results' = Append(results, r)

-----------------------------------------------------------------------------
\* batchExecDirect.

\* Session.Exec: the guards, then the database, under the QueryTimeout.
SessionExec(s, r) ==
  \/ s \in blocked /\ r = "error" /\ UNCHANGED durable
  \/ s \notin blocked /\ r = "ok" /\ durable' = durable \cup {s}
  \/ s \notin blocked /\ r = "error" /\ durable' \in {durable, durable \cup {s}}

\* Faulty: a failed statement does not end the loop.
DirectStatementGoesOn(r) ==
  /\ pc = "loop" /\ ~useTransaction /\ i <= N
  /\ SessionExec(i, r) /\ Report(r)
  /\ i' = i + 1 /\ UNCHANGED pc
  /\ UNCHANGED <<flags, firstErr, phase, effects, acked, op, stmt, reply, expired>>

DirectStatement(r) ==
  /\ pc = "loop" /\ ~useTransaction /\ i <= N
  /\ SessionExec(i, r) /\ Report(r)
  /\ \/ r = "error" /\ ~continueOnError /\ pc' = "done" /\ UNCHANGED i
     \/ (r = "ok" \/ continueOnError) /\ i' = i + 1 /\ UNCHANGED pc
  /\ UNCHANGED <<flags, firstErr, phase, effects, acked, op, stmt, reply, expired>>

DirectReturns ==
  /\ pc = "loop" /\ ~useTransaction /\ i > N
  /\ pc' = "done"
  /\ UNCHANGED <<flags, i, firstErr, results, txVars>>

-----------------------------------------------------------------------------
\* batchExecInTx.

BeginTx ==
  /\ pc = "begin"
  /\ \/ pc' = "loop" /\ UNCHANGED results
     \/ pc' = "done" /\ Report("begin")
  /\ UNCHANGED <<flags, i, firstErr, txVars>>

Goto(l) == pc' = l /\ UNCHANGED <<flags, i, firstErr, results>>

CallExec ==
  /\ pc = "loop" /\ useTransaction /\ i <= N
  /\ Tx!Invoke(Me, "Exec", i) /\ Goto("exec")

Answered == reply[Me] # "pending"

\* Faulty: with --continue-on-error the failure is reported and forgotten.
ExecReturnsForgets ==
  /\ pc = "exec" /\ Answered
  /\ \/ /\ reply[Me] = "ok" \/ continueOnError
        /\ Report(IF reply[Me] = "ok" THEN "ok" ELSE "error")
        /\ i' = i + 1 /\ pc' = "loop" /\ UNCHANGED firstErr
     \/ /\ reply[Me] # "ok" /\ ~continueOnError /\ Report("error")
        /\ firstErr' = TRUE /\ pc' = "undo" /\ UNCHANGED i
  /\ UNCHANGED <<flags, txVars>>

\* A failure is reported, and undone at once or after the last statement.
ExecReturns ==
  /\ pc = "exec" /\ Answered
  /\ \/ /\ reply[Me] = "ok" /\ Report("ok")
        /\ i' = i + 1 /\ pc' = "loop" /\ UNCHANGED firstErr
     \/ /\ reply[Me] # "ok" /\ Report("error")
        /\ firstErr' = TRUE
        /\ \/ continueOnError /\ i' = i + 1 /\ pc' = "loop"
           \/ ~continueOnError /\ pc' = "undo" /\ UNCHANGED i
  /\ UNCHANGED <<flags, txVars>>

LoopEnds == pc = "loop" /\ useTransaction /\ i > N

\* Faulty: with --continue-on-error nobody rolls back.
CallRollbackInLoop ==
  /\ \/ pc = "undo" /\ Tx!Invoke(Me, "Rollback", 0) /\ Goto("rollback")
     \/ LoopEnds /\ firstErr /\ Goto("done") /\ UNCHANGED txVars

CallRollback ==
  /\ pc = "undo" \/ (LoopEnds /\ firstErr)
  /\ Tx!Invoke(Me, "Rollback", 0) /\ Goto("rollback")

\* Faulty: with --continue-on-error what did not fail is committed.
CallCommitAnyway ==
  /\ LoopEnds
  /\ Tx!Invoke(Me, "Commit", 0) /\ Goto("commit")

CallCommit ==
  /\ LoopEnds /\ ~firstErr
  /\ Tx!Invoke(Me, "Commit", 0) /\ Goto("commit")

RollbackReturns == \* whatever it answers
  /\ pc = "rollback" /\ Answered
  /\ Goto("done") /\ UNCHANGED txVars

\* Faulty: the error of Commit is dropped.
CommitReturnsQuietly ==
  /\ pc = "commit" /\ Answered
  /\ Goto("done") /\ UNCHANGED txVars

CommitReturns ==
  /\ pc = "commit" /\ Answered
  /\ IF reply[Me] = "ok" THEN UNCHANGED results ELSE Report("commit")
  /\ pc' = "done"
  /\ UNCHANGED <<flags, i, firstErr, txVars>>

-----------------------------------------------------------------------------
\* What the transaction does by itself, or in answer to the batch.

Began == useTransaction /\ pc # "begin" /\ \A k \in DOMAIN results : results[k] # "begin"

\* Tx.Exec refuses exactly what Session.Exec does.
TxAnswers ==
  \/ stmt[Me] \in blocked /\ Tx!Refuse(Me)
  \/ stmt[Me] \notin blocked /\ (Tx!StatementOk(Me) \/ Tx!StatementFails(Me))
  \/ Tx!SayDone(Me)
  \/ Tx!CommitOk(Me) \/ Tx!CommitFails(Me) \/ Tx!CommitCancelled(Me)
  \/ Tx!RollbackReturns(Me)

TxStep ==
  /\ Began /\ UNCHANGED batchVars
  /\ TxAnswers \/ Tx!BeginEnd \/ Tx!AutoRollback \/ Tx!Expire

Next ==
  \/ \E r \in {"ok", "error"} : DirectStatement(r)
  \/ DirectReturns
  \/ BeginTx \/ CallExec \/ ExecReturns
  \/ CallRollback \/ RollbackReturns \/ CallCommit \/ CommitReturns
  \/ TxStep

Spec == Init /\ [][Next]_vars

-----------------------------------------------------------------------------
\* Safety.

Failed(k) == results[k] # "ok"

\* exec --file --transaction is all or nothing at every instant, wherever the
\* batch is, whatever fails and however its rollback goes: --continue-on-error
\* goes on executing but never commits the rest.
AllOrNothing == useTransaction => durable \in {{}, Statements}

\* A batch whose report has a failed statement stores nothing.
FailureStoresNothing == useTransaction /\ firstErr => durable = {}

\* A report without an error is true: everything is stored, although the
\* transaction may expire between the last statement and the commit.
CleanReportIsTrue ==
  pc = "done" /\ (\A k \in DOMAIN results : ~Failed(k)) => durable = Statements

\* The batch never returns with its transaction open: the command line has one
\* connection, which the transaction would keep.
NothingLeftOpen == pc = "done" /\ Began => phase # "open"

\* Without --continue-on-error nothing is stored past the first failure, and
\* the report ends with it.
StopsAtFirstError ==
  ~continueOnError => \A k \in DOMAIN results : Failed(k) =>
    k = Len(results) /\ durable \subseteq 1..k

-----------------------------------------------------------------------------
\* The inductive invariant the proofs rest on.

Places == {"begin", "loop", "exec", "undo", "rollback", "commit", "done"}

TypeOK ==
  /\ useTransaction \in BOOLEAN /\ continueOnError \in BOOLEAN
  /\ blocked \subseteq Statements
  /\ pc \in Places /\ i \in 1..(N + 1) /\ firstErr \in BOOLEAN
  /\ results \in Seq({"ok", "error", "begin", "commit"})
  /\ phase \in {"open", "ending", "committed", "rolledback"}
  /\ effects \subseteq Statements /\ durable \subseteq Statements
  /\ acked \subseteq Statements
  /\ op \in [{Me} -> {"none"} \cup Tx!EndOps \cup Tx!StmtOps]
  /\ stmt \in [{Me} -> Statements \cup {0}]
  /\ reply \in [{Me} -> {"none", "pending", "ok", "refused", "failed", "done"}]
  /\ expired \in BOOLEAN

Clean == \A k \in DOMAIN results : ~Failed(k)

\* Every statement but the one in progress has its line in the report, and the
\* report has the failure that firstErr remembers.
ReportFits ==
  /\ pc \in {"begin", "loop", "exec", "commit"} => Len(results) = i - 1
  /\ pc \in {"commit", "done"} /\ Clean => i = N + 1 /\ Len(results) = N
  /\ pc = "commit" => i = N + 1 /\ ~firstErr
  /\ pc # "done" => ~(firstErr /\ Clean) /\ (Clean \/ firstErr \/ ~useTransaction)
  /\ firstErr => ~Clean
  /\ ~continueOnError /\ ~Clean => pc \in {"undo", "rollback", "done"}
  /\ pc \in {"undo", "rollback"} => firstErr

\* Without a transaction a clean report is a list of stored statements.
DirectFits == ~useTransaction =>
  /\ pc \in {"loop", "done"} /\ ~firstErr
  /\ durable \subseteq 1..Len(results)
  /\ Clean => 1..Len(results) \subseteq durable

\* The call batchExec waits for is the one it made, and what its answer says of
\* the transaction.
CallFits == useTransaction =>
  /\ pc \in {"begin", "loop", "undo", "done"} => Answered
  /\ pc = "exec" => op[Me] = "Exec" /\ i <= N /\ (~Answered => stmt[Me] = i)
  /\ pc = "rollback" => op[Me] = "Rollback" /\ (Answered => phase # "open")
  /\ pc = "commit" => op[Me] = "Commit" /\ (Answered => phase # "open")
  /\ pc = "commit" /\ reply[Me] = "ok" => phase = "committed"
  /\ pc \in {"begin", "loop", "exec", "undo"} => phase # "committed"
  /\ pc = "begin" => phase = "open" /\ ~firstErr

\* While nothing has failed the transaction holds every statement executed.
EffectsFit == useTransaction =>
  /\ ~firstErr => 1..(i - 1) \subseteq effects
  /\ ~firstErr /\ pc = "exec" /\ reply[Me] = "ok" => i \in effects
  /\ durable = IF phase = "committed" THEN Statements ELSE {}
  /\ phase = "committed" => ~firstErr /\ pc \in {"commit", "done"}
  /\ pc = "done" /\ Clean => phase = "committed"

Inv == /\ TypeOK /\ ReportFits /\ DirectFits /\ CallFits /\ EffectsFit
       /\ NothingLeftOpen /\ StopsAtFirstError
=============================================================================
