# A verification model of sql-cli

sql-cli is a Go library and a command, `qc`, that give a program, or an agent
that drives a shell, guarded access to MySQL, PostgreSQL and SQLite: statements
that must not run are refused or asked about, every SELECT is limited, large
results are streamed, and several statements can share one transaction that is
rolled back by itself when its time is over. This directory specifies that
behaviour in TLA+. TLC checks the modules on small instances, and the TLA+ proof
system (TLAPS) proves the safety properties for every value of their constants.

Paths below are relative to the repository (`src/`).

- [1. The system](#1-the-system)
- [2. The modules](#2-the-modules)
- [3. What the runs check](#3-what-the-runs-check)
- [4. Fairness](#4-fairness)
- [5. What is proved](#5-what-is-proved)
- [6. Where the code and its documents disagree](#6-where-the-code-and-its-documents-disagree)
- [7. What is left out](#7-what-is-left-out)
- [8. Plan](#8-plan)

## 1. The system

```
   qc: main.go  shell.go  batch.go                 programs that import pkg/
        |           |        |                              |
        |           |        |        registry.Registry: name -> *db.Session
        v           v        v                              v
   +--------------------------- db.Session ----------------------------------+
   | Exec        Query* / QueryRead      QueryStream              Begin      |
   |  |             |                      |                        |        |
   | guard,      sqlnorm: LIMIT,       producer goroutine --->   db.Tx with  |
   | WHERE rule  OFFSET, has_more      result.StreamResult       a monitor   |
   +------------------------- sqlx.DB, a connection pool --------------------+
                                       |
                                   the server
```

| component | state | operations | interacts with |
|---|---|---|---|
| **transaction** (`pkg/db/transaction.go`, interface in `db.go`) | `status`, the channel `done`, both under `mu`; a goroutine that waits for the deadline or for `done`; below it the `sql.Tx` of database/sql with its own `done` and its own watcher | `Begin`, `Exec`, `Query`, `QueryWithOffset`, `Commit`, `Rollback`; the automatic rollback | callers on any goroutine, the context given to `Begin`, the server |
| **session** (`session.go`) | the pool, the shared `*config.Config`, `active` under a mutex | `newSession`, `Begin`, `Ping`, `Close`, `Rebind`, the concurrency slots | everything below |
| **stream** (`stream.go`, `result.StreamResult`) | the channels `rowChan`, `done` and `prodDone`, the fields `closed` and `err`, one slot, one connection | `QueryStream`; of the consumer `Next`, `Close`, `Wait`, `Err`; the producer goroutine | the session's slots, the pool, the consumer's goroutine |
| **executor** (`executor.go`) | none of its own | `Exec`: guard, WHERE rule, timeout, the statement | guard, sqlnorm, pool |
| **SELECT methods and pagination** (`query.go`, `query_read.go`, `internal/sqlnorm/pagination.go`) | none of their own | `Query`, `QueryWithLimit`, `QueryWithOffset`, `QueryWithOptions`, `QueryRead` and the same in a transaction | configuration, sqlnorm, pool |
| **batch execution** (`cmd/cli/batch.go`) | place in the file, first error, report | `exec --file`, with and without `--transaction` and `--continue-on-error` | transaction, executor |
| **registry** (`pkg/registry`) | the map of names to sessions under an RWMutex | `Open`, `Add`, `Get`, `List`, `Count`, `Close`, `CloseAll` | sessions, callers on any goroutine |
| **guard** (`pkg/guard`) | none; the policy is a field of the configuration | `IsDangerous`, `Check`, the WHERE rule | executor, transaction, the prompt of the command line |
| **command line and shell** (`cmd/cli/main.go`, `shell.go`) | one session on a pool of one; the policy, which it changes | `query`, `exec`, `shell`, the confirmation prompt | all of the above |
| **statement analysis** (`internal/sqlnorm`) | none | `SplitStatements`, `Operation`, `HasLIMIT`, `HasOFFSET`, `HasWHERE` | executor, queries, batch |
| **driver registration** (`driver.go`, `mysql/`, `postgres/`, `sqlite/`) | the map of factories under a mutex | `Register`, `Open` | sessions |
| **configuration, DSN parsing, log sanitising** | values and pure functions | | |

### What is hard, and what makes each part correct

- **Transaction.** Four parties end one transaction without knowing of each
  other: a `Commit`, a `Rollback`, the auto-rollback goroutine, and
  database/sql's own watcher, while statements are running. The wrapper decides
  under `mu` but acts on the database outside of it, in the order *mark, then
  commit*. Correct means: one outcome; whoever is told "ok" is told the truth;
  nothing acknowledged is lost by a commit; the wrapper never calls rolled back
  what was committed; nobody closes `done` twice, which panics; every goroutine
  and every call comes to its end.
- **Stream.** A producer and a consumer that may stop reading, close early, or
  vanish; deferred calls that run in reverse; a limit of slots; a pool that may
  have a single connection. Correct means: slots and connections come back
  exactly once, a shortened result is never taken for a whole one, and a closed
  stream ends.
- **Batch.** A statement, the rollback and the commit can fail, and the
  transaction can end by itself between any two steps. Correct means:
  all or nothing, and a report that is true.
- **Registry.** Opening and closing a pool takes time and fails. Correct means:
  no pool is lost while open, and what is registered is usable, unless a
  goroutine closes it past the registry or adds it twice.
- **Paging.** Three pieces of code compute the same limit, from values that may
  be zero or negative, and `has_more` compares against one of them, while the
  table grows. Correct means: a client that follows `has_more` gets each row
  once and comes to an end.
- **Statement analysis.** Two scanners, `SplitStatements` and `stripQuoted`, each
  with its own idea of literals, stand between a file and the WHERE rule. Correct
  means: a file is cut into the statements it says, and a WHERE that is quoted or
  commented out is none.
- **Command line.** A confirmation, or `--force`, changes the policy of the whole
  session; the database may hang on any statement; the shell's statements share
  one connection that the pool replaces when it is old. Correct means: nothing
  dangerous is sent unasked, and every line comes to an end. The first is true
  only of statements the guard recognises; section 6 has those it does not.

`PROJECT.json` lists every hazard with its line and the property that covers it.

## 2. The modules

| module | models | builds on |
|---|---|---|
| `TxContract` | what the interface `Tx` promises to goroutines that share it, without mutexes, channels or contexts | |
| `Transaction` | `transaction.go`, its auto-rollback goroutine, the `sql.Tx` below it | refines `TxContract` |
| `StreamContract` | what a session promises to the consumers of its streams, without the channel, the goroutine or the contexts | |
| `Stream` | `QueryStream`, producer, `StreamResult`, slots, pool | refines `StreamContract` |
| `Batch` | `batchExec` | composed with `TxContract`, which `Transaction` implements |
| `RegistryContract` | a map from names to sessions on which each call acts at one instant | |
| `Registry` | `pkg/registry` | refines `RegistryContract` |
| `Paging` | the SELECT methods, driven by a client | |
| `Statements` | `sqlnorm` and `IsDangerousOp` as operators on texts; no state | |
| `CommandLine` | a run of `qc`: `main.go`, `shell.go`, `Session.Exec`, the one connection | extends `Statements` |
| `MC*` | the values of the constants for TLC | one per module with a state but the contracts |
| `*Proofs` | the theorems | one per module with a state but the contracts; `StatementsProofs` and `GuardProofs`, which extends it, are about the texts of `Statements` |

Definitions that begin with a comment `Faulty:` are no part of the model. They
state how one definition would look with a plausible bug, and `PROJECT.json`
("mutants") says which property catches it.

### Transaction

One `Tx` with any number of callers. `pc[c]` follows the call of caller `c`:
`entry` (waits for `mu`), `checked` (past `checkActive`), `running` (inside the
driver), `marked` (past `markCommitted` or `markRolledBack`), `draining` (inside
`sql.Tx`, waiting for running statements), `idle`. A critical section under `mu`
that makes no call is one step. The one that does make a call is the monitor's:
it holds `mu` during `tx.Rollback()`, so `mu` is taken exactly in the monitor's
states `rollback`, `drain` and `mark`.

| code | actions |
|---|---|
| `Begin`, `newTransaction` | `Begin` (the initial states) |
| `Exec`, `Query`, `QueryWithOffset` | `Call`, `CheckActive`, `Refuse`, `GrabConn`, `StatementReturns` |
| `Commit` | `Call`, `MarkCommitted`, `SqlCommit`, `DriverCommit` |
| `Rollback` | `Call`, `MarkRolledBack`, `SqlRollback`, `DriverRollback` |
| the goroutine in `newTransaction` | `MonitorSelect`, `MonitorLock`, `MonitorRollback`, `MonitorDriver`, `MonitorMark` |
| `sql.Tx` (external) | `sqlDone`, `NothingRuns`, `AwaitDone`, `AwaiterDriver`, and the parts of `GrabConn`, `SqlCommit`, `SqlRollback` about them |
| contexts | `TimerFires`, `ParentCancelled` |

A commit whose driver reports a failure may have reached the server or not; a
failing statement may have had its effect. The server's view is kept apart
(`server`, `work`, `durable`), and so is what the callers were told (`acked`).

`TxContract` says the same with a phase of four values: a call takes effect at one
instant between its invocation and its return, or answers why it did not. The
refinement mapping is `Phase` (the server's outcome once there is one, otherwise
*ending* as soon as somebody has marked the transaction or won the `sql.Tx`) and
`Answer` (the two errors called `ErrTxDone`, of this package and of
database/sql, are one answer).

### Stream

Every stream has a producer, whose place is in `producer[s]`, and one consumer.
The body of the producer is `start`, `conn` (waits for a connection), `asking`,
`scan`, `send` (its `select`); then its deferred calls in the order in which
they run, `rowsClose`, `signal` (`SetProducerDone`), `closeChan`, `release`. The
channel is first-in-first-out, so `sent` and `got` say what it holds; a row is
its place. A stream with which both sides are through becomes unused again
(`Forget`), so that behaviours with any number of streams are covered.

A consumer may call `Next` or `Close` or nothing at all, at any time. One of the
cases of the producer's `select` that are ready is taken, whichever.

`StreamContract` knows a query (`asked`, `answered`, `over`, `gone`), the rows
given so far, and what was told at the end. In the refinement mapping `QueryAt`
turns the producer's place into the query's state, `EndOf` says who ended the
stream, and a failure is an `err` that is set. The buffer disappears: a row is
given when the consumer takes it out of the channel. The contract lets a query
fail only while it runs, counts it against the limit until its slot is free, and
tells the end only once its connection is back.

### Batch

`batchExec` over `TxContract`: the batch is the only caller, and `TxStep` is
everything the transaction may do in answer or by itself, its expiry between two
statements included. `Transaction!ImplementsContract` is what makes that a fair
picture of the code. Without a transaction each statement goes through
`Session.Exec`, which may fail before or after its effect.

### Registry

Goroutines call `Open`, `Add`, `Close`, `CloseAll` and `Get`. The steps with the
mutex held that call into the database layer (`opening`, `closing`,
`closingAll`) are states of their own. `CallerCloses` is the public
`Session.Close` (`session.go:115`), which any goroutine may call on a session it
has, registered or not, without the mutex. The history variables `ours` and
`added` record how a session came into the registry, and `astray` that `Add`
stored it again, or that a goroutine closed it itself; only properties read them.

`RegistryContract` has no mutex and no step in the middle of a call. The
refinement mapping (`Entries`, `Pools`, `Calls`) says when a call acts, seen by
those who wait for the mutex: `Open` when the database layer has made its
session, `Close` when it has found the entry, `CloseAll` when it has the mutex,
whatever the closes below it answer. A close past the registry is `Dispose`.

### Paging

A client asks for a page, and for the next as long as `has_more` is true and the
method takes an offset; another session appends rows in between. `EnforceLimit`,
`ApplyCursor`, `LimitSent`, `OffsetSent`, `HasMore` and `Malformed` are the
code's; the client and the growing table are not part of the repository. `qc
query` chooses among three methods by its flags (`Called`).

### Statements

A text is a sequence of tokens: the characters the scanners tell apart (quotes,
semicolon, the halves of comment marks, blanks), and words. `SplitStatements` is
the code's loop as a function from places to the state of its flags: `Scan` is
one turn of it, with one operator for each group of its branches. `StripQuoted`
and `MatchKeyword` are the scan behind `HasWHERE`; `Operation`, `IsReadOperation`,
`RequiresWHERE` and `IsDangerousOp` classify a statement by its first word, each
as the code does: `Operation` trims and cuts, `IsDangerousOp` looks at a prefix
of the statement as it is, with a blank, a tab, a line feed or a parenthesis after
the word. A carriage return is a token of its own, a blank to `Operation` and
`HasWHERE` and none to `IsDangerousOp`.

The second half of the module is not in the code. It says what a text *is*: a
lexeme starts at each token that no earlier lexeme covers, and ends at the first
place that may end it (`LexemeEnd`: a line end, the end of a comment, a quote
that makes the number of quotes even and is not half of a doubled one).
`WholeStatements` cuts that at the semicolons, and `CodeOf` also hides what is
quoted. `Drops` says of such code that its first word is DROP or TRUNCATE, and
`SetApart` that this word has a blank, a line feed or a parenthesis after it, or
nothing.

### CommandLine

One run of `qc`, as `pc` follows it: `start`; `ready` (the shell reads a line);
`loop` (over the statements of a file or line); `check` (in `Session.Exec`),
`asked` (at the prompt), `select` (in a query method); `connect` (waits for the
connection); `sent` (at the database); `done`.

| code | actions |
|---|---|
| `main`: `exec --file`, `exec`, `query` | `ReadFile`, `StartArgument` |
| `runShell` | `ReadLine`, `EndOfInput`, `LoopEnds` |
| `executeStmt`, `executeQuery`, `executeExec`; `batchExecDirect` | `NextOfLine`; `NextOfFile` |
| `Session.Exec` | `ExecRefuses`, `ExecSends`, `StatementOk`, `StatementFails`, `DeadlinePasses` |
| `execWithConfirmation` | `ExecPrompts`, `AnswerPrompt` |
| `queryWithLimit` | `QueryChecks` |
| the pool of one connection (external) | `UseConn`, `OpenConn`, `ConnectFails`, `ConnExpires` |

`policy` is the field of the shared configuration: once it is `allow` it stays.
The server's side of the connection is `inTx` and `work`; `typed` and `lost` are
history, what the user was told of a transaction he typed and whether the server
undid it. A deadline that passes is a failure of the statement or of the
connecting, and the driver may drop the connection. `--transaction` and
`--continue-on-error` are in `Batch`: a failed file here stops or goes on.

## 3. What the runs check

Every run but the five of section 6 passes.

| run | instance | what it shows |
|---|---|---|
| `tx_safety` | two callers, an insert, a SELECT, a statement that is refused; `Exec`, `Query`, `Commit`, `Rollback`; a deadline and a parent context | one truthful outcome by every interleaving; it refines `TxContract` |
| `tx_liveness` | two callers; with and without `QueryTimeout` | an expired or marked transaction ends, the goroutine exits, calls return |
| `stream` | two streams, one of them with a deadline, on one connection; a buffer of one, results of none or two rows, one slot or no limit | exact slots, no silent truncation, connection free at the end; a closed stream ends, a deadline ends one that was abandoned, `Next` returns; it refines `StreamContract` |
| `batch` | three statements, all flags, none, the second or the last refused | all or nothing, a true report, nothing left open |
| `registry` | two goroutines, two names, two sessions, which goroutines may close past the registry too | no leak, `CloseAll` leaves nothing, every writing call returns; it refines `RegistryContract` |
| `paging` | eight methods, tables of up to four rows, limits -1 to 4, configured limits -1 to 3, statements with clauses of their own | each row once, pages within their limits, an end |
| `command_line` | files: all texts of up to 4 of nine tokens, of up to 6 and 5 of smaller alphabets, and an UPDATE followed by up to 5; arguments and lines of each kind, DROPs with blanks and comments before them and other ends of the word among them, with and without `--force` | statements whole, no DROP that is set apart sent unasked, no UPDATE without a WHERE, every line ends |

The properties, by what could break them:

- `CommitIsMarked`, `ReplyTruthful`, `DoneClosedOnce`, `AckedIsDurable`,
  `MonitorSparesCommit`: each of them needs at least two parties and an unlucky
  order to fail.
- `ImplementsContract`, of three modules: a transaction's wrapper, monitor and
  watcher together look like one atomic object; so do the registry's calls
  behind their mutex; and through buffer, `select` and deferred calls a consumer
  gets the rows, each once, and an end that is true and stays so.
- `SlotsAreExact`: over every path out of the producer. (That the count keeps its
  limit, `SlotsAreBounded`, is a conjunct of `Inv`, and a theorem.)
- `NoSilentTruncation`: the end of the channel and `Err() == nil` together mean
  that the result is whole.
- `EndFreesConnection`: the order of the deferred calls, seen by the consumer.
  The command line's pool of one depends on it.
- `AllOrNothing`, `FailureStoresNothing`, `CleanReportIsTrue`, `NothingLeftOpen`,
  `StopsAtFirstError`: the batch against everything that can fail below it.
- `NoSessionLeaks`, `CloseAllLeavesNothing`: the registry against concurrent and
  failing calls. (`RegisteredIsOpen` is a conjunct of `Inv`, and a theorem. It excepts the
  sessions `astray`: nothing in the code keeps a goroutine from closing a session
  that is registered, or from adding one twice, and then the registry hands out
  a closed one.) `CallsReturn` of `Registry`: no path of a call keeps the mutex, which is held
  while pools are opened and closed.
- `StatementsAreWhole`: `SplitStatements` against the lexemes of the text.
- `NothingUnasked`: no statement whose code is a DROP or a TRUNCATE is at the
  database unless it was forced or confirmed. The policy is the session's, the
  confirmation one statement's; a second dangerous statement never finds a policy
  that was relaxed for the first. What the statement is, the lexemes of the text
  say, and not the guard, so the property is also about `SplitStatements`
  handing each statement to the guard without what stands before it. It excepts
  what the guard lets through: an argument of `qc exec` that does not begin with
  the word, and a word that is not `SetApart`. `DropsAreAsked` is the same without
  the exceptions, and does not hold: section 6.
- `NoUnconditionalModify`: the two scanners and the keyword search together,
  against the text the user wrote. It is stated of files and lines, whose
  comments `SplitStatements` removes before `HasWHERE` looks; the argument of
  `qc exec` goes there as it is, and `HasWHERE` takes a WHERE in a comment for
  one. Texts with backticks are excepted too: `stripQuoted` does not know them.
  The rule, and so the property, is about statements whose `Operation` is UPDATE
  or DELETE as it is: `UPDATE"t" SET ...`, whose first word `Operation` does not
  end at the quote, and `WITH ... DELETE`, which is a read to it, never meet it.
- `LineEnds`: with a database that answers nothing.
- `NothingSkipped`, `NothingTwice`, `PageFits`, `PagingEnds`: the agreement of
  the limit sent with the limit compared. (`NothingSkipped` follows `has_more`,
  which `QueryRead` never sets: section 6.)
- `Inv` of each module is its inductive invariant, with its type invariant as
  the first conjunct; the runs check it before the proofs rely on it.

**Why the bounds are enough.** Two callers are enough for each race in the
transaction: one of them ends it while the other's statement runs, or both end
it. The monitor and the watcher come on top. Two streams suffice for contention
on one slot and on one connection, and a buffer of one is full as early as a
buffer can be. A result of two rows leaves the producer waiting at `send` with a
full buffer. Three statements give a first, a middle and a last one. Two names
and two sessions let a session be registered twice and be replaced, and let two
calls race for one name. Six tokens hold a doubled quote inside a literal with a
semicolon, five a block comment with one; the longest chain of tokens that
decides one turn of a scanner is two, and a text in which the scanner's state
matters needs an opening, a content and a closing. The tables
are larger than the smallest limits, smaller than the largest, and equal to
some. Where a theorem exists the bound does not matter: section 5. Statements
executed in a transaction are a set (`work`): executing one twice is not told
apart from once, which no property asks about.

**Where a run may stop.** Deadlock is checked everywhere but in `batch`,
`paging`, `command_line`, `drop_unasked` and `shell_transaction`, whose programs
return.

## 4. Fairness

Runs of safety only use `Spec`, without fairness. The others assume only:

- *Goroutines that can run do* (`WF` of each caller's, producer's and monitor's
  own steps): Go's scheduler is preemptive and its mutexes do not starve.
- *Timers fire* (`TimerFires`, `DeadlinePasses`), and nobody is promised that a
  caller's context is cancelled.
- *The database answers.* For the transaction this is split: `EndFairness` for a
  commit or a rollback, `StatementFairness` for statements. `SpecHangs` leaves
  the second out, and shows that a hanging statement defeats the deadline.
- Nothing is assumed of consumers: a stream may be abandoned at any point.
  `CloseEnds` and `NextEnds` are therefore stated of streams whose query has its
  connection, or, for `NextEnds` and `DeadlineEnds`, a deadline. The code gives
  no more: a producer that waits for a connection does not hear `Close`, and
  waits as long as another consumer keeps the connection.
- *A writer gets the mutex of the registry* (`SF` of `WriterStep`): it is free
  again and again, and a `sync.RWMutex` hands it over in turn, to writers before
  new readers. `db.Open` and `sql.DB.Close` return (`WF` of `DatabaseStep`); the
  code has no way out if they do not. Goroutines need not call anything.
- In `CommandLine` only `qc` itself moves (`CommandStep`), and its deadlines pass
  (`DeadlinePasses`): `Session.Exec` and each query method make one of
  `QueryTimeout`, which the command line cannot set to none (`main.go:167`).
  Neither the user nor the database has to answer, and reading a file is not
  fair, since it may be a pipe.
- In `Paging` the client goes on asking, and a page comes, or the error of a
  malformed statement. No other failure is assumed to come to the rescue of an
  endless repetition.

## 5. What is proved

All theorems hold for every value of the constants that the named `ASSUME`s of
the module allow. Those say no more than that sets are what they are called:
`None` is no session, sets of streams are finite, a statement has at most one
LIMIT. TLC evaluates them too.

| module | theorems | the inductive invariant, and why it is needed |
|---|---|---|
| `TransactionProofs` | `InvHolds`, `CommitsAreMarked`, `RepliesAreTruthful`, `DoneNeverPanics`, `AcknowledgedWorkIsDurable`, `MonitorIsHarmless`, `ServerEndsOnce`, `ContractIsImplemented` | `OneEnder`: the right to end the `sql.Tx` is won once, and only its winner waits for `closemu`. `CallsFit`: where a call is agrees with its method and the status. `MonitorFits`: the monitor holds `mu` only on an active, expired transaction. Without these a state with two winners satisfies every property and one step breaks it. |
| `StreamProofs` | `StreamInvHolds`, `SlotCountIsExact`, `SlotCountIsBounded`, `ResultsAreComplete`, `ConnectionIsFreed`, `StreamContractHolds` | `ProducerFits`, `ConsumerFits`: which fields may be set at which place. `RowsFit`: who stops before the last row leaves an error, unless the consumer closed the stream. The slot count needs the cardinality of a set that grows or shrinks by one. |
| `BatchProofs` | `BatchInvHolds`, `BatchIsAtomic`, `FailedBatchStoresNothing`, `CleanReportsAreTrue`, `BatchClosesItsTransaction`, `BatchStopsAtFirstError` | `ReportFits`: the report has one line per statement tried. `CallFits`: the call in progress is the one the batch made. `EffectsFit`: as long as nothing has failed the transaction holds every statement so far. |
| `RegistryProofs` | `RegistryInvHolds`, `SessionsDoNotLeak`, `RegisteredSessionsAreOpen`, `CloseAllClosesAll`, `RegistryIsAtomic` | `OneWriter`: the holder of the mutex is the only one inside. `CallFits`: what a call has found is still so. `KnownFits`: a session that was stored once has one name, and only the registry, or a goroutine that makes it `astray`, closes one. `RegisteredSessionsAreOpen` is about the sessions that are not `astray`. |
| `StatementsProofs` | `SplitIsWhole` | Not of a behaviour but of a text of any length: `SplitStatements` yields `WholeStatements`. Below. |
| `GuardProofs` | `GuardSeesTheCode`, `DropsAreSeen` | Of any text without backticks: if `HasWHERE` finds a WHERE in a statement `SplitStatements` has cut out, the code of that statement has one. Of any text: if the code of a statement is a DROP or a TRUNCATE set apart, `IsDangerousOp` recognises the statement. Below. |
| `CommandLineProofs` | `CommandLineInvHolds`, `DangerousIsAsked`, `ReadsAreHarmless`, `SplitsAreWhole`, `ModifiesHaveWhere` | `PolicyIsEarned`: the policy is `allow` only by `--force` or by the answer of the one statement `exec` has. `SentIsChecked`: what is on its way to the database has passed the policy as it is now, which needs that nothing tightens it, and the WHERE rule. `OneIsInHand`: the statement in hand is one of those the text was split into. `PlaceFits`: which command is where. `ReadsAreHarmless` is about texts of any length: no read, which passes the guard by, is a statement the guard knows. |
| `PagingProofs` | `PagingInvHolds`, `NothingIsSkipped`, `NothingComesTwice`, `PagesFit` | `PrefixSeen`: the client has exactly the rows up to its offset. |

The argument about behaviours is the same everywhere: the initial states satisfy
`Inv`, each action preserves it (one step per action, one lemma per group of
conjuncts where that is shorter), and the property follows from `Inv`. The action
properties `EndsOnce` and `CloseAllLeavesNothing` follow from one step taken
under `Inv`.

**Refinements.** `ContractIsImplemented`, `StreamContractHolds` and
`RegistryIsAtomic` map the initial states to initial states, and each step, taken
under `Inv`, to a step of the contract or to a stutter: one lemma (`...Maps`) per
action. They need the whole of `Inv`. That a `CloseAll` acts when it takes the
mutex, for example, is true only since `OneWriter` and `CallFits` keep everybody
else away from the map until it returns; that a `Next` may tell the end, since
`RowsFit` says that whoever closed the channel early left an error.

**Texts.** What the scanners compute is a recursive function of the place in the
text, so its properties need induction over places. It is done with sets: a
property is the set of the places that have it, and `Upward` and `Downward` find
a least counterexample (`LeastNatural`).

- `SplitIsWhole`. What the pass of `SplitStatements` holds when a lexeme begins
  (the statements done, the piece in hand) is everything it knows of what came
  before. One lemma for each kind of lexeme (a token, a line comment, a block
  comment, a quoted lexeme) shows that the pass, flag by flag, is between lexemes
  again exactly where `LexemeEnd` says, with the piece the reference has. For a
  quoted lexeme that is a parity: the pass, which looks one token ahead for a
  doubled quote, and the reference, which counts quotes, agree at every place in
  between. `Between` is the claim that the pass from here yields what the
  reference says of the rest; it holds at the end of the text, and before a
  lexeme if it holds after it.
- `GuardSeesTheCode`. The reference reads a text in two ways, with its literals
  as they are and with each hidden behind one token. Both are compared from the
  end, lexeme by lexeme: `StripQuoted` of the first blanks every quoted lexeme to
  its last token, nothing is open after it, and what is not quoted stays. So a
  WHERE that is left, between delimiters, is one of the second. Then
  `MatchKeyword` finds nothing that is not in the code.
- `DropsAreSeen`. The guard looks at the first two tokens of a statement. From the
  end of the text back, lexeme by lexeme, the two readings are the same up to the
  first literal (`Fronts`), and trimming takes the same blanks off their fronts.
  Where the code begins with DROP or TRUNCATE and one of the guard's ends of a word, no
  literal is that early, so the guard finds the same two tokens.
- `SplitsAreWhole`, `DangerousIsAsked` and `ModifiesHaveWhere` are those theorems
  carried to every instant of every run of `qc`. `DangerousIsAsked` is
  `NothingUnasked`: `DropsAreSeen` says that the guard recognises the statement,
  `SentIsChecked` and `PolicyIsEarned` that it was then asked about, and
  `ReadsAreHarmless` that it did not go by the guard as a read.
  `CommandLineAssumption` says for this that a line typed into the shell holds no
  end of line, which is what reading lines means: otherwise a first line that is
  a comment would silence a second.

**Model-checked only.** All liveness properties: `ExpiryEnds`, `MarkedEnds`,
`MonitorExits`, `CallsReturn` (of both modules), `CloseEnds`, `DeadlineEnds`,
`NextEnds`, `PagingEnds`, `LineEnds`. The prover handles neither fairness nor
ENABLED. Every invariant and every other action property a run checks has its
theorem. That the five disagreements below are reachable is
shown by TLC's counterexamples.

## 6. Where the code and its documents disagree

Each of these is a run whose only property states what the document says, and
which TLC refutes.

| run | the document | the code |
|---|---|---|
| `tx_second_rollback` | `transaction_test.go:170` "Second Rollback must return ErrTxDone" | it returns the `ErrTxDone` of database/sql, wrapped; `errors.Is(err, db.ErrTxDone)` is false |
| `tx_hung_statement` | `session.go:175`: with a `QueryTimeout` the transaction "is automatically rolled back when the timeout expires" | not while a statement runs: statements get the caller's context, without the deadline, and the rollback waits for them |
| `stream_wait` | `result.go:140`: `Wait` "blocks until the producer goroutine has fully completed" | `Wait` returns before the channel is closed and before the slot is released |
| `drop_unasked` | `operation-manual.md:80` "DROP/TRUNCATE require confirmation (type `yes`) or use `--force`", `:220`, and `executor.go:20` | `guard.go:63-81` compares the first bytes of the statement, untrimmed, and knows four characters that end the word. `qc exec` hands its argument on as it is: with a blank, a line end or a comment before the DROP it is sent unasked. So are `DROP"x"` and `DROP/**/x`. Of a file, `DROP"x"` passes, and a DROP with a carriage return and a line feed after the word |
| `shell_transaction` | `operation-manual.md:143`, of the shell: "a persistent connection", and `:152` a typed `BEGIN; ...; COMMIT;` is a "Multi-statement transaction" | the pool closes its idle connection after `ConnMaxLifetime`; the next statement runs on a new one, what was done since BEGIN is undone, and COMMIT answers ok (MySQL and PostgreSQL take a COMMIT outside a transaction; SQLite answers an error) |

Others that were met while reading. They are plain in the code, and have no run:

- `product-plan.md:95` "`has_more` flag indicates incomplete results", and
  `operation-manual.md:109`: `QueryRead` appends a LIMIT to a SELECT that has none
  and leaves `has_more` false (`query_read.go:32-39`, `:79`), so a result that was
  cut looks whole.
- `session.go:120` says that `acquireConcurrencySlot` "blocks" when the limit is
  reached; it answers an error (`session.go:126-129`), and `Stream` models that.
- `operation-manual.md:224` "Shell: auto-allows dangerous operations": the shell
  refuses them unless it was started with `--force` (`shell.go:104`).
- "DSN priority: CLI argument > `QC_DSN`" (`operation-manual.md:56`): an argument
  that `looksLikeDSN` does not recognise, such as `data.db`, is taken for the SQL
  when `QC_DSN` is set (`main.go:131`).
- `QueryWithOptions` sends a statement without `Rebind` (`query.go:301`);
  `MaxLimit` does not cap a statement's own LIMIT (`config.go:39`); `ApplyCursor`
  defaults to 100 where the configuration has a limit of zero; nothing reads
  `MaxRows`; `--limit` has no effect on `qc stream`; `MaxConcurrentQueries`
  counts streams only.
- `SplitStatements` puts nothing in the place of a comment: `SELECT/**/1` becomes
  `SELECT1`. `WholeStatements` does the same, as no document speaks of it.

## 7. What is left out

- *Inside the covered code:* the scanning of rows and their values, column
  names, durations, warnings, log lines, the wording of errors. `Ping`, `Stats`,
  `List` and `Count` change nothing. `Rebind` rewrites the text of a statement,
  and texts are not modelled.
- *Data races.* `StreamResult.err` and `closed` are read without
  synchronisation. When the consumer does not close early, the close of the
  channel orders the producer's write before the consumer's read, and this is
  what `NoSilentTruncation` relies on. After an early `Close` nothing is
  promised of `Err`, and no property speaks of it.
- *`MaxConcurrentQueries` changed while streams are open.* The field is shared
  with the configuration's owner; the program never changes it after a session
  is made, and `limit` is fixed in a behaviour.
- *The guard's policies `block` and `warn`*, which `qc` never sets. In
  `Transaction` and `Batch` the guard is the set of statements it refuses, in
  `CommandLine` it is what the code computes from the text.
- *A file in a transaction that ends it itself*, by a COMMIT or a ROLLBACK of its
  own, or by a statement upon which the database commits (DDL in MySQL). The
  wrapper learns nothing of that, and `Batch` has no such statement: what it says
  of all or nothing does not extend to these files.
- *Texts.* Letters and case are not told apart, a tab goes by `" "`, and one token
  `=` stands for the operators that end a word. The vertical tab, the form feed and
  the blanks of Unicode, which `strings.TrimSpace` removes, are left out. Neither
  the scanners nor the reference know backslash escapes or dollar quotes; where a
  database does, both may read a text otherwise than it. `HasLIMIT` and `HasOFFSET` are in `Paging` as what
  they find; `AppendLIMIT`, `AppendOFFSET`, `itoa` and `Rebind` build text.
- *The connection pool* is a number of connections in `Stream`, and one
  connection that may expire in `CommandLine`. That a SQLite database in memory
  goes with its connection is not modelled.
- *Driver registration*: a map that is filled before `main` runs. *DSN parsing*
  and the telling apart of arguments: prefix and suffix tests on one string, so
  that a model would be their transcription. *Sanitising*: nothing calls it but
  its tests. *Configuration*: a record with setters, whose values are constants
  or variables of the modules. *Flag parsing, `.env`, output:* I/O.

## 8. Plan

Done, in the order of importance: `TxContract` and `Transaction`, their
refinement and its proof; `Stream` and `StreamContract`; `Batch` over the
contract; `Registry` and `RegistryContract`, with its liveness; `Paging`;
`Statements` and `CommandLine`; the safety theorems of each, the refinements
included, and what the scanners do with any text.

Next:

1. **One session**: streams, statements and a transaction side by side on one
   pool, for programs that import the packages, with `ConnMaxLifetime`.
2. **The scans of `Paging`**: `HasLIMIT` and `HasOFFSET` over the tokens of
   `Statements` instead of as what they find, and with them a LIMIT inside a
   literal or a subquery.
3. **An abstract batch**, all or nothing, refined by `Batch`, and an abstract
   session of `qc` that knows of statements and confirmations only, refined by
   `CommandLine`.
