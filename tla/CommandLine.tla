----------------------------- MODULE CommandLine -----------------------------
(***************************************************************************)
(* One run of qc (cmd/cli/main.go, shell.go): exec with its confirmation,   *)
(* exec --file without --transaction, query, and the shell, each through    *)
(* the guards of Session.Exec (pkg/db/executor.go) to the one connection of *)
(* the session's pool.  What comes back of a SELECT is in Paging, a batch   *)
(* in a transaction in Batch, stream in Stream; ping changes nothing.       *)
(*                                                                          *)
(* The user types lines, answers a prompt or does not; the database answers *)
(* or hangs.  On the server's side the connection may have a transaction    *)
(* that the user has begun by a statement of his own.                       *)
(***************************************************************************)
EXTENDS Statements

CONSTANTS Invocations,  \* [command, force, text]: the argument, or the file
          Lines         \* lines that may be typed into the shell

Commands == {"exec", "file", "query", "shell"}

\* The shell has no argument; the end of a line is no part of it.
ASSUME CommandLineAssumption ==
  /\ \A c \in Invocations :
       /\ c.command \in Commands /\ c.force \in BOOLEAN /\ c.text \in Seq(STRING)
       /\ c.command = "shell" => c.text = <<>>
  /\ \A l \in Lines : l \in Seq(STRING) /\ \A i \in DOMAIN l : l[i] # "\n"

VARIABLES
  command, force,  \* the invocation; force: --force or --yes
  policy,      \* Config.DangerousOpPolicy
  pc,          \* where the run is
  text,        \* the argument, the file, or the line
  statements,  \* what it was split into
  k,           \* the statement in hand, or the last one
  confirmed,   \* the user has said yes to the statement in hand
  conn,        \* the pool's connection: "none", "idle", "busy"
  inTx,        \* the server has a transaction on it, begun by a statement
  work,        \* this transaction has changes the user was told of
  typed,       \* the transaction as the user was told: "none", "open", "committed"
  lost         \* changes he was told of in that transaction are undone

invocation == <<command, force>>
input      == <<text, statements, k>>
server     == <<inTx, work>>
told       == <<typed, lost>>
vars == <<invocation, policy, pc, input, confirmed, conn, server, told>>

Init == \* main; DefaultConfig's policy, for which there is no flag
  /\ \E c \in Invocations : command = c.command /\ force = c.force /\ text = c.text
  /\ policy = "prompt" /\ pc = IF command = "shell" THEN "ready" ELSE "start"
  /\ statements = <<>> /\ k = 0 /\ confirmed = FALSE
  /\ conn = "none" \* db.Open connects to nothing yet
  /\ inTx = FALSE /\ work = FALSE /\ typed = "none" /\ lost = FALSE

Statement == statements[k]
Goto(l) == pc' = l
Allow == policy' = "allow"

-----------------------------------------------------------------------------
\* main: exec --file, exec and query.  The file may be a pipe nobody writes to.

\* Faulty: the file is run as if it were forced.
ReadFileAllows ==
  /\ pc = "start" /\ command = "file"
  /\ statements' = SplitStatements(text)
  /\ \/ statements' = <<>> /\ Goto("done") /\ UNCHANGED policy
     \/ statements' # <<>> /\ Goto("loop") /\ Allow
  /\ UNCHANGED <<invocation, text, k, confirmed, conn, server, told>>

\* A file without a statement is an error.
ReadFile ==
  /\ pc = "start" /\ command = "file"
  /\ statements' = SplitStatements(text)
  /\ \/ statements' = <<>> /\ Goto("done") /\ UNCHANGED policy
     \/ /\ statements' # <<>> /\ Goto("loop")
        /\ IF force THEN Allow ELSE UNCHANGED policy
  /\ UNCHANGED <<invocation, text, k, confirmed, conn, server, told>>

\* The argument is one statement, as it is.
StartArgument ==
  /\ pc = "start" /\ command \in {"exec", "query"}
  /\ statements' = <<text>> /\ k' = 1
  /\ Goto(IF command = "exec" THEN "check" ELSE "select")
  /\ UNCHANGED <<invocation, policy, text, confirmed, conn, server, told>>

-----------------------------------------------------------------------------
\* runShell: lines, and the statements of each.

CommentLine(l) == Len(l) > 1 /\ l[1] = "-" /\ l[2] = "-"

ReadLine(l) ==
  /\ pc = "ready" /\ text' = Trim(l) /\ k' = 0
  /\ \/ /\ text' = <<>> \/ CommentLine(text')
        /\ statements' = <<>> /\ UNCHANGED pc
     \/ /\ text' # <<>> /\ ~CommentLine(text')
        /\ statements' = SplitStatements(text') /\ Goto("loop")
  /\ UNCHANGED <<invocation, policy, confirmed, conn, server, told>>

EndOfInput == \* or a line longer than the scanner's buffer
  /\ pc = "ready" /\ Goto("done")
  /\ UNCHANGED <<invocation, policy, input, confirmed, conn, server, told>>

Upcoming == statements[k + 1]
Reads(s) == IsReadOperation(Operation(s))

TakeStatement == pc = "loop" /\ k < Len(statements) /\ k' = k + 1

\* batchExecDirect
NextOfFile ==
  /\ command = "file" /\ TakeStatement /\ Goto("check")
  /\ UNCHANGED <<invocation, policy, text, statements, confirmed, conn, server, told>>

\* runShell and executeStmt: QueryWithOptions and QueryRead have no guard.
NextOfLine ==
  /\ command = "shell" /\ TakeStatement
  /\ \/ Upcoming \in {<<"exit">>, <<"quit">>} /\ Goto("done") /\ UNCHANGED policy
     \/ Reads(Upcoming) /\ Goto("connect") /\ UNCHANGED policy
     \/ /\ Upcoming \notin {<<"exit">>, <<"quit">>} /\ ~Reads(Upcoming)
        /\ Goto("check") /\ IF force THEN Allow ELSE UNCHANGED policy
  /\ UNCHANGED <<invocation, text, statements, confirmed, conn, server, told>>

LoopEnds ==
  /\ pc = "loop" /\ k = Len(statements)
  /\ Goto(IF command = "shell" THEN "ready" ELSE "done")
  /\ UNCHANGED <<invocation, policy, input, confirmed, conn, server, told>>

-----------------------------------------------------------------------------
\* What follows a statement.

Proceed == Goto(IF command \in {"file", "shell"} THEN "loop" ELSE "done")

\* An error ends exec and query, and a file without --continue-on-error (of
\* that flag see Batch); the shell prints it and goes on.
Failed ==
  /\ Proceed \/ (command = "file" /\ Goto("done"))
  /\ typed' = "none" /\ lost' = FALSE

\* Session.Exec: the policy, then the WHERE.

Prompted == policy # "allow" /\ IsDangerousOp(Statement)
NoWhere == RequiresWHERE(Operation(Statement)) /\ ~HasWHERE(Statement)

ExecRefuses ==
  /\ pc = "check"
  /\ (Prompted /\ command # "exec") \/ (~Prompted /\ NoWhere)
  /\ Failed
  /\ UNCHANGED <<invocation, policy, input, confirmed, conn, server>>

ExecSends ==
  /\ pc = "check" /\ ~Prompted /\ ~NoWhere /\ Goto("connect")
  /\ UNCHANGED <<invocation, policy, input, confirmed, conn, server, told>>

\* execWithConfirmation: a forced statement is tried again at once.
ExecPrompts ==
  /\ pc = "check" /\ Prompted /\ command = "exec"
  /\ \/ force /\ Allow /\ UNCHANGED pc
     \/ ~force /\ Goto("asked") /\ UNCHANGED policy
  /\ UNCHANGED <<invocation, input, confirmed, conn, server, told>>

AnswerPrompt == \* y or yes; anything else, end of input included
  /\ pc = "asked"
  /\ \/ Allow /\ confirmed' = TRUE /\ Goto("check")
     \/ Goto("done") /\ UNCHANGED <<policy, confirmed>>
  /\ UNCHANGED <<invocation, input, conn, server, told>>

\* queryWithLimit and queryWithOffset
QueryChecks ==
  /\ pc = "select"
  /\ Goto(IF IsSELECT(Operation(Statement)) THEN "connect" ELSE "done")
  /\ UNCHANGED <<invocation, policy, input, confirmed, conn, server, told>>

-----------------------------------------------------------------------------
\* The pool of one connection, and the database.

Send == conn' = "busy" /\ Goto("sent")

UseConn ==
  /\ pc = "connect" /\ conn = "idle" /\ Send
  /\ UNCHANGED <<invocation, policy, input, confirmed, server, told>>

OpenConn ==
  /\ pc = "connect" /\ conn = "none" /\ Send
  /\ UNCHANGED <<invocation, policy, input, confirmed, server, told>>

\* The server rolls back what a connection leaves behind.
DropTx == inTx' = FALSE /\ work' = FALSE

ConnGone == conn' = "none" /\ DropTx

\* ConnMaxLifetime: the pool closes an idle connection of that age, be it
\* between two statements of one line.
ConnExpires ==
  /\ pc # "done" /\ conn = "idle" /\ ConnGone
  /\ lost' = (lost \/ (typed = "open" /\ work))
  /\ UNCHANGED <<invocation, policy, pc, input, confirmed, typed>>

\* A BEGIN in a transaction commits it, or changes nothing.  A COMMIT outside
\* is no error to most databases.
StatementOk ==
  /\ pc = "sent" /\ conn' = "idle" /\ Proceed
  /\ CASE Statement = <<"BEGIN">> ->
            /\ inTx' = TRUE /\ work' \in {work, FALSE}
            /\ typed' = "open" /\ lost' = FALSE
       [] Statement = <<"COMMIT">> ->
            /\ DropTx
            /\ typed' = (IF typed = "open" THEN "committed" ELSE typed)
            /\ UNCHANGED lost
       [] Statement = <<"ROLLBACK">> ->
            DropTx /\ typed' = "none" /\ lost' = FALSE
       [] OTHER ->
            /\ work' = (work \/ (inTx /\ ~Reads(Statement)))
            /\ UNCHANGED <<inTx, told>>
  /\ UNCHANGED <<invocation, policy, input, confirmed>>

\* The pool keeps the connection, or drops it for broken.
StatementFails ==
  /\ pc = "sent" /\ Failed
  /\ \/ conn' = "idle" /\ UNCHANGED server
     \/ ConnGone
  /\ UNCHANGED <<invocation, policy, input, confirmed>>

ConnectFails ==
  /\ pc = "connect" /\ conn = "none" /\ Failed
  /\ UNCHANGED <<invocation, policy, input, confirmed, conn, server>>

\* Faulty: Exec passes its caller's context on, which has no deadline.
NoDeadline == FALSE /\ StatementFails

\* The QueryTimeout, which qc cannot set to none: the driver gives up.
DeadlinePasses == StatementFails \/ ConnectFails

-----------------------------------------------------------------------------
CommandStep ==
  \/ StartArgument
  \/ NextOfFile \/ NextOfLine \/ LoopEnds
  \/ ExecRefuses \/ ExecSends \/ ExecPrompts \/ QueryChecks
  \/ UseConn

DatabaseAnswers == OpenConn \/ StatementOk \/ StatementFails \/ ConnectFails

User ==
  \/ ReadFile
  \/ \E l \in Lines : ReadLine(l)
  \/ EndOfInput \/ AnswerPrompt

Next == CommandStep \/ DatabaseAnswers \/ DeadlinePasses \/ ConnExpires \/ User

Spec == Init /\ [][Next]_vars

\* The process runs, and deadlines pass.  Neither the user nor the database
\* has to answer.
FairSpec == Spec /\ WF_vars(CommandStep) /\ WF_vars(DeadlinePasses)

-----------------------------------------------------------------------------
\* Properties.

\* SplitStatements hands on what the text says: no semicolon in a literal, an
\* identifier or a comment cuts a statement, an escaped or unfinished quote
\* shifts no border, nothing of a literal is lost and no comment is left.
StatementsAreWhole ==
  command = "shell" \/ (command = "file" /\ pc # "start") =>
    statements = WholeStatements(text)

\* The code of the statement in hand: of a file or a line the lexemes of the
\* text say it, an argument is taken as it is.
Code == IF command \in {"file", "shell"} THEN CodeOf(text)[k] ELSE Statement

\* Allowing dangerous operations changes the policy of the whole session, and
\* reads pass no guard; still no DROP or TRUNCATE of a file or a line, wherever
\* it stands in the text and whatever blanks and comments are before it, and
\* none that an argument begins with, reaches the database that was neither
\* forced nor confirmed itself.  SplitStatements has to trim and to remove
\* comments for that, since the guard compares a prefix.  (Of others see
\* DropsAreAsked.)
NothingUnasked ==
  pc = "sent" /\ Drops(Code) /\ SetApart(Code) => force \/ confirmed

\* An UPDATE or DELETE out of a file or a line reaches the database only if the
\* text has a WHERE for it that is neither in a literal nor in a comment:
\* SplitStatements and stripQuoted, two scanners, agree on what quotes are.
\* (stripQuoted knows no backticks.)
NoUnconditionalModify ==
  (/\ pc = "sent" /\ command \in {"file", "shell"}
   /\ RequiresWHERE(Operation(Statement))
   /\ \A i \in DOMAIN text : text[i] # "backtick")
    => HasWord(CodeOf(text)[k], "WHERE")

\* Every line, file and argument, once it is read, comes to an end, or to the
\* prompt, although the database hangs, and whatever it answered before.
LineEnds ==
  pc \in {"loop", "check", "select", "connect", "sent"}
    ~> pc \in {"ready", "asked", "done"}

-----------------------------------------------------------------------------
\* The inductive invariant the proofs rest on.

Places == {"start", "ready", "loop", "check", "asked", "select", "connect", "sent", "done"}

InputOK == text \in Seq(STRING) /\ statements \in Seq(Seq(STRING))

TypeOK ==
  /\ command \in Commands /\ force \in BOOLEAN /\ policy \in {"prompt", "allow"}
  /\ pc \in Places /\ k \in Nat /\ confirmed \in BOOLEAN
  /\ conn \in {"none", "idle", "busy"} /\ inTx \in BOOLEAN /\ work \in BOOLEAN
  /\ typed \in {"none", "open", "committed"} /\ lost \in BOOLEAN
  /\ InputOK

\* Which command is where.
PlaceFits ==
  /\ pc = "asked" => command = "exec"
  /\ pc \in {"check", "ready", "loop"} => command # "query"
  /\ pc = "select" => command = "query"

\* The policy is relaxed by --force, or for the one statement of exec.
PolicyIsEarned ==
  /\ policy = "allow" => force \/ confirmed
  /\ confirmed => command = "exec"

\* What goes to the database has passed the policy and the guard.
SentIsChecked ==
  pc \in {"connect", "sent"} /\ command # "query" /\ ~Reads(Statement) =>
    ~Prompted /\ ~NoWhere

\* The statement in hand is one of those the text was split into.
OneIsInHand ==
  /\ pc = "start" => k = 0
  /\ pc \notin {"start", "ready", "done"} => k <= Len(statements)
  /\ pc \notin {"start", "ready", "done", "loop"} => k # 0

QueryIsRead == pc \in {"connect", "sent"} /\ command = "query" => Reads(Statement)

ConnFits ==
  /\ conn = "busy" <=> pc = "sent"
  /\ inTx => conn # "none"
  /\ work => inTx
  /\ lost => typed # "none"

Inv ==
  /\ TypeOK /\ PlaceFits /\ PolicyIsEarned /\ SentIsChecked /\ OneIsInHand
  /\ QueryIsRead /\ ConnFits

-----------------------------------------------------------------------------
\* What a doc says and the code does not do.

\* operation-manual.md, of the shell: "Statements separated by `;` execute
\* sequentially on the same connection", and BEGIN; ...; COMMIT is its
\* "Multi-statement transaction".  When every statement of one was answered
\* without an error, what it did is kept.
TypedCommitKeeps == typed = "committed" => ~lost

\* The statement in hand with its leading blanks and comments gone, in an
\* argument too.
Meant ==
  IF command \in {"file", "shell"} THEN CodeOf(text)[k]
  ELSE IF CodeOf(text) = <<>> THEN <<>> ELSE CodeOf(text)[1]

\* operation-manual.md: "DROP/TRUNCATE require confirmation (type `yes`) or use
\* `--force`", whatever is before and behind the word.
DropsAreAsked == pc = "sent" /\ Drops(Meant) => force \/ confirmed
=============================================================================
