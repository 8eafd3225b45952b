-------------------------- MODULE CommandLineProofs --------------------------
(***************************************************************************)
(* What holds of every run of qc, for every argument, file and line: the    *)
(* statements are those of the text, and what reaches the database has      *)
(* passed the policy and the WHERE guard, or is a read.  What the scanners  *)
(* make of a text is proved in StatementsProofs and GuardProofs.            *)
(***************************************************************************)
EXTENDS CommandLine, GuardProofs

-----------------------------------------------------------------------------
\* The classification of one statement.

\* Trimming a statement that begins with a token other than a blank keeps it.
LEMMA TrimKeepsFirst ==
  ASSUME NEW T, NEW s \in Seq(T), s # <<>>, s[1] \notin Space
  PROVE  Trim(s) \in Seq(T) /\ Trim(s) # <<>> /\ Trim(s)[1] = s[1]
<1> DEFINE body == {i \in DOMAIN s : s[i] \notin Space}
<1>1. Len(s) \in Nat /\ DOMAIN s = 1..Len(s) /\ 1 \in body
  OBVIOUS
<1>2. Max(body) \in body /\ \A x \in body : x <= Max(body)
  BY <1>1, LastPosition
<1>3. Min(body) = 1
  <2>1. \E x \in body : \A y \in body : x =< y
    BY <1>1
  <2> DEFINE m == CHOOSE x \in body : \A y \in body : x =< y
  <2>2. m \in body /\ \A y \in body : m =< y
    BY <2>1
  <2>3. Min(body) = m
    BY DEF Min
  <2> HIDE DEF m
  <2> QED BY <1>1, <2>2, <2>3
<1>4. Trim(s) = SubSeq(s, 1, Max(body))
  BY <1>1, <1>3 DEF Trim
<1> HIDE DEF body
<1>5. Max(body) \in 1..Len(s)
  BY <1>1, <1>2 DEF body
<1> QED BY <1>1, <1>4, <1>5

\* The same of a statement's operation.
LEMMA OperationKeepsFirst ==
  ASSUME NEW T, NEW s \in Seq(T), s # <<>>, s[1] \notin Space \cup {"("}
  PROVE  Operation(s) # <<>> /\ Operation(s)[1] = s[1]
<1> DEFINE t == Trim(s)
           ends == {i \in DOMAIN t : t[i] \in Space \cup {"("}}
<1>1. t \in Seq(T) /\ t # <<>> /\ t[1] = s[1]
  BY TrimKeepsFirst
<1> HIDE DEF t
<1>2. Operation(s) = IF ends = {} THEN t ELSE SubSeq(t, 1, Min(ends) - 1)
  BY DEF Operation, t
<1>3. CASE ends = {}
  BY <1>1, <1>2, <1>3
<1>4. CASE ends # {}
  <2>1. Len(t) \in Nat /\ DOMAIN t = 1..Len(t) /\ ends \subseteq 2..Len(t)
    BY <1>1
  <2>2. \E x \in ends : \A y \in ends : x =< y
    <3> HIDE DEF ends
    <3>1. ends \subseteq Nat BY <2>1
    <3> QED BY <1>4, <3>1, LeastNatural
  <2> DEFINE m == CHOOSE x \in ends : \A y \in ends : x =< y
  <2>3. m \in ends /\ Min(ends) = m
    BY <2>2 DEF Min
  <2> HIDE DEF m, ends
  <2>4. m \in 2..Len(t)
    BY <2>1, <2>3
  <2>5. Operation(s) = SubSeq(t, 1, m - 1)
    BY <1>2, <1>4, <2>3
  <2> QED BY <1>1, <2>1, <2>4, <2>5
<1> QED BY <1>3, <1>4

\* What executeStmt sends past the guard, because it is a read, is never a
\* statement IsDangerousOp would have stopped.
THEOREM ReadsAreHarmless ==
  ASSUME NEW T, NEW s \in Seq(T)
  PROVE  Reads(s) => ~IsDangerousOp(s)
<1> SUFFICES ASSUME IsDangerousOp(s) PROVE ~Reads(s)
  OBVIOUS
<1>1. s # <<>> /\ s[1] \in {"DROP", "TRUNCATE"}
  BY DEF IsDangerousOp, DangerousOps
<1>2. s[1] \notin Space \cup {"("}
  BY <1>1 DEF Space
<1>3. Operation(s)[1] = s[1]
  BY <1>1, <1>2, OperationKeepsFirst
<1> QED BY <1>1, <1>3 DEF Reads, IsReadOperation, IsSELECT

-----------------------------------------------------------------------------
\* The inductive invariant.

LEMMA InitInv == Init => Inv /\ StatementsAreWhole
<1> SUFFICES ASSUME Init PROVE Inv /\ StatementsAreWhole OBVIOUS
<1>1. PICK c \in Invocations : command = c.command /\ force = c.force /\ text = c.text
  BY DEF Init
<1>2. /\ command \in Commands /\ force \in BOOLEAN /\ text \in Seq(STRING)
      /\ command = "shell" => text = <<>>
  BY <1>1, CommandLineAssumption
<1>3. InputOK /\ OneIsInHand
  <2>1. <<>> \in Seq(Seq(STRING)) OBVIOUS
  <2>2. statements = <<>> /\ k = 0 /\ pc \in {"ready", "start"} BY DEF Init
  <2>3. InputOK BY <1>2, <2>1, <2>2 DEF InputOK
  <2>4. OneIsInHand BY <2>2 DEF OneIsInHand
  <2> QED BY <2>3, <2>4
<1>4. StatementsAreWhole
  <2>1. statements = <<>> /\ (pc = "start" \/ command = "shell") /\ (pc # "start" => text = <<>>)
    BY <1>2 DEF Init
  <2>2. text = <<>> => WholeStatements(text) = <<>>
    BY <1>2, CommentSaysNothing
  <2> QED BY <1>2, <2>1, <2>2 DEF StatementsAreWhole
<1>5. Inv
  BY <1>2, <1>3
     DEF Init, Inv, TypeOK, Places, PlaceFits, PolicyIsEarned, SentIsChecked, QueryIsRead, ConnFits
<1> QED BY <1>4, <1>5

\* The statements are those of the text, from when it is read.
LEMMA StepKeepsInput ==
  ASSUME Inv, [Next]_vars
  PROVE  InputOK' /\ OneIsInHand' /\ (StatementsAreWhole => StatementsAreWhole')
<1> USE DEF input, invocation, server, told, Goto, Proceed, Failed
<1>0. /\ InputOK /\ OneIsInHand /\ k \in Nat
      /\ text \in Seq(STRING) /\ Len(statements) \in Nat
  <2>1. InputOK /\ OneIsInHand /\ k \in Nat BY DEF Inv, TypeOK
  <2>2. statements \in Seq(Seq(STRING)) BY <2>1 DEF InputOK
  <2>3. Len(statements) \in Nat BY <2>2, LenProperties
  <2> QED BY <2>1, <2>3 DEF InputOK
<1>1. ASSUME ReadFile PROVE InputOK' /\ OneIsInHand' /\ StatementsAreWhole'
  <2>1. statements' = SplitStatements(text) /\ text' = text /\ k' = k /\ pc = "start"
    BY <1>1 DEF ReadFile
  <2>2. statements' \in Seq(Seq(STRING)) BY <1>0, <2>1, SplitType
  <2>3. statements' = WholeStatements(text') BY <1>0, <2>1, SplitIsWhole
  <2>4. k' = 0 BY <1>0, <2>1 DEF OneIsInHand
  <2>5. Len(statements') \in Nat BY <2>2, LenProperties
  <2>6. pc' \in {"done", "loop"} BY <1>1 DEF ReadFile
  <2>7. InputOK' BY <1>0, <2>1, <2>2 DEF InputOK
  <2>8. OneIsInHand' BY <2>4, <2>5, <2>6 DEF OneIsInHand
  <2> QED BY <2>3, <2>7, <2>8 DEF StatementsAreWhole
<1>2. ASSUME StartArgument PROVE InputOK' /\ OneIsInHand' /\ StatementsAreWhole'
  <2>1. /\ statements' = <<text>> /\ text' = text /\ k' = 1
        /\ pc' \in {"check", "select"} /\ command' \in {"exec", "query"}
    BY <1>2 DEF StartArgument
  <2>2. statements' \in Seq(Seq(STRING)) /\ Len(statements') = 1 BY <1>0, <2>1
  <2>3. InputOK' BY <1>0, <2>1, <2>2 DEF InputOK
  <2>4. OneIsInHand' BY <2>1, <2>2 DEF OneIsInHand
  <2> QED BY <2>1, <2>3, <2>4 DEF StatementsAreWhole
<1>3. ASSUME NEW l \in Lines, ReadLine(l) PROVE InputOK' /\ OneIsInHand' /\ StatementsAreWhole'
  <2>1. l \in Seq(STRING) /\ \A i \in 1..Len(l) : l[i] # "\n"
    <3>1. l \in Seq(STRING) /\ \A i \in DOMAIN l : l[i] # "\n" BY CommandLineAssumption
    <3> QED BY <3>1, LenProperties
  <2>2. text' = Trim(l) /\ k' = 0 /\ pc' \in {"ready", "loop"} BY <1>3 DEF ReadLine
  <2>3. text' \in Seq(STRING) /\ \A i \in 1..Len(text') : text'[i] # "\n"
    BY <2>1, <2>2, TrimType, TrimTokens
  <2>4. CASE (text' = <<>> \/ CommentLine(text')) /\ statements' = <<>>
    <3>1. WholeStatements(text') = <<>> BY <2>3, <2>4, CommentSaysNothing DEF CommentLine
    <3>2. statements' \in Seq(Seq(STRING)) /\ Len(statements') = 0 BY <2>4
    <3>3. InputOK' BY <2>3, <3>2 DEF InputOK
    <3>4. OneIsInHand' BY <2>2, <3>2 DEF OneIsInHand
    <3> QED BY <2>4, <3>1, <3>3, <3>4 DEF StatementsAreWhole
  <2>5. CASE statements' = SplitStatements(text')
    <3>1. statements' \in Seq(Seq(STRING)) BY <2>3, <2>5, SplitType
    <3>2. statements' = WholeStatements(text') BY <2>3, <2>5, SplitIsWhole
    <3>3. Len(statements') \in Nat BY <3>1, LenProperties
    <3>4. InputOK' BY <2>3, <3>1 DEF InputOK
    <3>5. OneIsInHand' BY <2>2, <3>3 DEF OneIsInHand
    <3> QED BY <3>2, <3>4, <3>5 DEF StatementsAreWhole
  <2> QED BY <1>3, <2>4, <2>5 DEF ReadLine
<1>4. ASSUME NextOfFile \/ NextOfLine
      PROVE  InputOK' /\ OneIsInHand' /\ UNCHANGED <<command, text, statements>> /\ pc # "start"
  <2>1. UNCHANGED <<command, text, statements>> /\ pc = "loop" /\ k' = k + 1 /\ k < Len(statements)
    BY <1>4 DEF NextOfFile, NextOfLine, TakeStatement
  <2>2. pc' \in {"check", "connect", "done"} BY <1>4 DEF NextOfFile, NextOfLine
  <2>3. OneIsInHand' BY <1>0, <2>1, <2>2 DEF OneIsInHand
  <2> QED BY <1>0, <2>1, <2>3 DEF InputOK
<1>5. ASSUME UNCHANGED <<command, text, statements, k>>,
             \/ pc' = pc
             \/ pc # "start" /\ pc' \in {"ready", "done"}
             \/ pc \notin {"start", "ready", "done", "loop"} /\ pc' # "start"
      PROVE  InputOK' /\ OneIsInHand' /\ (StatementsAreWhole => StatementsAreWhole')
  <2>1. InputOK' BY <1>0, <1>5 DEF InputOK
  <2>2. OneIsInHand' BY <1>0, <1>5 DEF OneIsInHand
  <2>3. StatementsAreWhole => StatementsAreWhole'
    <3> SUFFICES ASSUME StatementsAreWhole,
                        command' = "shell" \/ (command' = "file" /\ pc' # "start")
                 PROVE  statements' = WholeStatements(text')
      BY DEF StatementsAreWhole
    <3>1. command = "shell" \/ (command = "file" /\ pc # "start") BY <1>5
    <3>2. statements = WholeStatements(text) BY <3>1 DEF StatementsAreWhole
    <3> QED BY <1>5, <3>2
  <2> QED BY <2>1, <2>2, <2>3
<1>6. ASSUME LoopEnds \/ EndOfInput
      PROVE  InputOK' /\ OneIsInHand' /\ (StatementsAreWhole => StatementsAreWhole')
  <2>1. UNCHANGED <<command, text, statements, k>> /\ pc # "start" /\ pc' \in {"ready", "done"}
    BY <1>6 DEF LoopEnds, EndOfInput
  <2> QED BY <1>5, <2>1
<1>7. ASSUME ExecRefuses \/ ExecSends \/ ExecPrompts \/ AnswerPrompt \/ QueryChecks
      PROVE  InputOK' /\ OneIsInHand' /\ (StatementsAreWhole => StatementsAreWhole')
  <2>1. UNCHANGED <<command, text, statements, k>> /\ pc \in {"check", "asked", "select"}
    BY <1>7 DEF ExecRefuses, ExecSends, ExecPrompts, AnswerPrompt, QueryChecks
  <2>2. pc' # "start"
    BY <1>7, <2>1 DEF ExecRefuses, ExecSends, ExecPrompts, AnswerPrompt, QueryChecks
  <2> QED BY <1>5, <2>1, <2>2
<1>8. ASSUME UseConn \/ OpenConn \/ StatementOk \/ StatementFails \/ ConnectFails
      PROVE  InputOK' /\ OneIsInHand' /\ (StatementsAreWhole => StatementsAreWhole')
  <2>1. UNCHANGED <<command, text, statements, k>> /\ pc \in {"connect", "sent"}
    BY <1>8 DEF UseConn, OpenConn, StatementOk, StatementFails, ConnectFails
  <2>2. pc' # "start"
    BY <1>8 DEF UseConn, OpenConn, StatementOk, StatementFails, ConnectFails, Send
  <2> QED BY <1>5, <2>1, <2>2
<1>9. ASSUME ConnExpires \/ UNCHANGED vars
      PROVE  InputOK' /\ OneIsInHand' /\ (StatementsAreWhole => StatementsAreWhole')
  <2>1. UNCHANGED <<command, text, statements, k, pc>> BY <1>9 DEF ConnExpires, vars
  <2> QED BY <1>5, <2>1
<1>10. NextOfFile \/ NextOfLine => (StatementsAreWhole => StatementsAreWhole')
  BY <1>4 DEF StatementsAreWhole
<1> QED BY <1>1, <1>2, <1>3, <1>4, <1>6, <1>7, <1>8, <1>9, <1>10
        DEF Next, CommandStep, DatabaseAnswers, DeadlinePasses, User

LEMMA StepKeepsInv ==
  ASSUME Inv, [Next]_vars
  PROVE  Inv'
<1>0. InputOK' /\ OneIsInHand'
  BY StepKeepsInput
<1> USE DEF Inv, invocation, input, server, told, Goto, Allow, Proceed, Failed
<1>1. ASSUME ReadFile PROVE Inv'
  BY <1>0, <1>1
     DEF ReadFile, TypeOK, Places, PlaceFits, PolicyIsEarned, SentIsChecked, QueryIsRead, ConnFits
<1>2. ASSUME StartArgument PROVE Inv'
  BY <1>0, <1>2 DEF StartArgument, TypeOK, Places, PlaceFits, PolicyIsEarned, SentIsChecked,
                    QueryIsRead, ConnFits
<1>3. ASSUME NEW l \in Lines, ReadLine(l) PROVE Inv'
  BY <1>0, <1>3
     DEF ReadLine, TypeOK, Places, PlaceFits, PolicyIsEarned, SentIsChecked, QueryIsRead, ConnFits
<1>4. ASSUME EndOfInput \/ LoopEnds PROVE Inv'
  BY <1>0, <1>4 DEF EndOfInput, LoopEnds, TypeOK, Places, PlaceFits, PolicyIsEarned, SentIsChecked,
              QueryIsRead, ConnFits
<1>5. ASSUME NextOfFile PROVE Inv'
  BY <1>0, <1>5
     DEF NextOfFile, TakeStatement, TypeOK, Places, PlaceFits, PolicyIsEarned, SentIsChecked,
              QueryIsRead, ConnFits
<1>6. ASSUME NextOfLine PROVE Inv'
  <2>1. Statement' = Upcoming
    BY <1>6 DEF NextOfLine, TakeStatement, Statement, Upcoming
  <2>2. SentIsChecked'
    BY <1>6, <2>1 DEF NextOfLine, SentIsChecked, TypeOK
  <2>3. TypeOK' /\ PlaceFits' /\ PolicyIsEarned' /\ QueryIsRead' /\ ConnFits'
    BY <1>0, <1>6 DEF NextOfLine, TakeStatement, TypeOK, Places, PlaceFits, PolicyIsEarned,
                      QueryIsRead, ConnFits
  <2> QED BY <1>0, <2>2, <2>3
<1>7. ASSUME ExecRefuses PROVE Inv'
  BY <1>0, <1>7 DEF ExecRefuses, TypeOK, Places, PlaceFits, PolicyIsEarned, SentIsChecked,
                    QueryIsRead, ConnFits
<1>8. ASSUME ExecSends PROVE Inv'
  <2>1. SentIsChecked' /\ QueryIsRead'
    BY <1>8 DEF ExecSends, PlaceFits, SentIsChecked, QueryIsRead, Prompted, NoWhere, Statement
  <2>2. TypeOK' /\ PlaceFits' /\ PolicyIsEarned' /\ ConnFits'
    BY <1>0, <1>8 DEF ExecSends, TypeOK, Places, PlaceFits, PolicyIsEarned, ConnFits
  <2> QED BY <1>0, <2>1, <2>2
<1>9. ASSUME ExecPrompts \/ AnswerPrompt PROVE Inv'
  <2>1. /\ UNCHANGED <<command, force, k, conn, inTx, work, typed, lost>>
        /\ command = "exec" /\ pc # "sent"
    BY <1>9 DEF ExecPrompts, AnswerPrompt, PlaceFits
  <2>2. pc' \in {"check", "asked", "done"}
    BY <1>9 DEF ExecPrompts, AnswerPrompt
  <2>3. \/ policy' = "allow" /\ confirmed' = confirmed /\ force
        \/ policy' = "allow" /\ confirmed' = TRUE
        \/ policy' = policy /\ confirmed' = confirmed
    BY <1>9 DEF ExecPrompts, AnswerPrompt
  <2>4. TypeOK'
    <3>1. pc' \in Places BY <2>2 DEF Places
    <3>2. policy' \in {"prompt", "allow"} /\ confirmed' \in BOOLEAN
      BY <2>3 DEF TypeOK
    <3> QED BY <1>0, <2>1, <3>1, <3>2 DEF TypeOK
  <2>5. PlaceFits' /\ PolicyIsEarned'
    BY <2>1, <2>2, <2>3 DEF PlaceFits, PolicyIsEarned
  <2>6. SentIsChecked' /\ QueryIsRead'
    BY <2>2 DEF SentIsChecked, QueryIsRead
  <2>7. ConnFits'
    BY <2>1, <2>2 DEF ConnFits
  <2> QED BY <1>0, <2>4, <2>5, <2>6, <2>7
<1>10. ASSUME QueryChecks PROVE Inv'
  <2>1. UNCHANGED <<command, statements, k>> /\ Statement' = Statement
    BY <1>10 DEF QueryChecks, Statement
  <2>2. Reads(Statement)' <=> Reads(Statement)
    BY <2>1 DEF Reads
  <2>3. IsSELECT(Operation(Statement)) => Reads(Statement)
    BY DEF Reads, IsReadOperation
  <2>4. pc' \in {"connect", "done"} /\ (pc' = "connect" => Reads(Statement))
    BY <1>10, <2>3 DEF QueryChecks
  <2>5. SentIsChecked' /\ QueryIsRead'
    BY <2>2, <2>4 DEF SentIsChecked, QueryIsRead
  <2>6. TypeOK' /\ PlaceFits' /\ PolicyIsEarned' /\ ConnFits'
    BY <1>0, <1>10, <2>4 DEF QueryChecks, TypeOK, Places, PlaceFits, PolicyIsEarned, ConnFits
  <2> QED BY <1>0, <2>5, <2>6
<1>11. ASSUME UseConn \/ OpenConn PROVE Inv'
  BY <1>0, <1>11
     DEF UseConn, OpenConn, Send, TypeOK, Places, PlaceFits, PolicyIsEarned, SentIsChecked,
               QueryIsRead, ConnFits, Prompted, NoWhere, Statement
<1>12. ASSUME ConnExpires PROVE Inv'
  BY <1>0, <1>12
     DEF ConnExpires, ConnGone, DropTx, TypeOK, PlaceFits, PolicyIsEarned, SentIsChecked,
               QueryIsRead, ConnFits, Prompted, NoWhere, Statement
<1>13. ASSUME StatementOk PROVE Inv'
  BY <1>0, <1>13 DEF StatementOk, DropTx, TypeOK, Places, PlaceFits, PolicyIsEarned, SentIsChecked,
               QueryIsRead, ConnFits
<1>14. ASSUME StatementFails \/ ConnectFails PROVE Inv'
  <2>1. pc' \in {"loop", "done"} /\ UNCHANGED <<command, force, policy, k, confirmed>>
    BY <1>14 DEF StatementFails, ConnectFails
  <2>2. pc' = "loop" => command # "query"
    BY <1>14 DEF StatementFails, ConnectFails
  <2>3. typed' = "none" /\ lost' = FALSE
    BY <1>14 DEF StatementFails, ConnectFails
  <2>4. \/ conn' = "none" /\ inTx' = FALSE /\ work' = FALSE
        \/ conn' = "idle" /\ conn # "none" /\ inTx' = inTx /\ work' = work
        \/ conn' = "none" /\ conn = "none" /\ inTx' = inTx /\ work' = work
    BY <1>14 DEF StatementFails, ConnectFails, ConnGone, DropTx, ConnFits
  <2>5. TypeOK'
    <3>1. inTx' \in BOOLEAN /\ work' \in BOOLEAN /\ lost' \in BOOLEAN
      BY <2>3, <2>4, Zenon DEF TypeOK
    <3>2. conn' \in {"none", "idle"}
      BY <2>4
    <3> QED BY <1>0, <2>1, <2>3, <3>1, <3>2 DEF TypeOK, Places
  <2>6. ConnFits'
    <3>1. conn' # "busy" /\ pc' # "sent" /\ ~lost'
      BY <2>1, <2>3, <2>4
    <3>2. (inTx' => conn' # "none") /\ (work' => inTx')
      BY <2>4 DEF ConnFits
    <3> QED BY <3>1, <3>2 DEF ConnFits
  <2>7. PlaceFits' /\ PolicyIsEarned' /\ SentIsChecked' /\ QueryIsRead'
    BY <2>1, <2>2 DEF PlaceFits, PolicyIsEarned, SentIsChecked, QueryIsRead
  <2> QED BY <1>0, <2>5, <2>6, <2>7
<1>15. CASE UNCHANGED vars
  BY <1>0, <1>15 DEF vars, TypeOK, PlaceFits, PolicyIsEarned, SentIsChecked, QueryIsRead, ConnFits,
               Prompted, NoWhere, Statement
<1> QED BY <1>1, <1>2, <1>3, <1>4, <1>5, <1>6, <1>7, <1>8, <1>9, <1>10, <1>11, <1>12,
           <1>13, <1>14, <1>15
        DEF Next, CommandStep, DatabaseAnswers, DeadlinePasses, User

-----------------------------------------------------------------------------
\* The policy, the connection and what the user was told agree at every
\* instant of every run of qc.
THEOREM CommandLineInvHolds == Spec => []Inv
<1>1. Init => Inv BY InitInv
<1>2. Inv /\ [Next]_vars => Inv' BY StepKeepsInv
<1> QED BY <1>1, <1>2, PTL DEF Spec

\* What a file or a line is split into is the statements the reference finds in
\* it: SplitStatements cuts no literal, identifier or comment, loses nothing of a
\* literal and leaves no comment, whatever the text.
THEOREM SplitsAreWhole == Spec => []StatementsAreWhole
<1>1. Init => Inv /\ StatementsAreWhole BY InitInv
<1>2. (Inv /\ StatementsAreWhole) /\ [Next]_vars => (Inv /\ StatementsAreWhole)'
  BY StepKeepsInv, StepKeepsInput
<1>3. Inv /\ StatementsAreWhole => StatementsAreWhole OBVIOUS
<1> QED BY <1>1, <1>2, <1>3, PTL DEF Spec

\* No DROP or TRUNCATE that a statement of a file or a line is, by the lexemes of
\* the text, and none that an argument begins with, reaches the database unless
\* it was forced or confirmed, if a blank, a line end, a parenthesis or nothing
\* is after the word: SplitStatements hands it to the guard without what was
\* before it, the guard sees it, no read is one, and the relaxed policy of the
\* session is never that of an earlier statement.
THEOREM DangerousIsAsked == Spec => []NothingUnasked
<1>1. Inv /\ StatementsAreWhole => NothingUnasked
  <2> SUFFICES ASSUME Inv, StatementsAreWhole, pc = "sent", Drops(Code), SetApart(Code)
               PROVE  force \/ confirmed
    BY DEF NothingUnasked
  <2>1. /\ text \in Seq(STRING) /\ statements \in Seq(Seq(STRING)) /\ command \in Commands
        /\ k \in Nat /\ k # 0 /\ k <= Len(statements)
    BY DEF Inv, TypeOK, InputOK, OneIsInHand
  <2>2. k \in 1..Len(statements) /\ Statement \in Seq(STRING)
    <3>1. Len(statements) \in Nat BY <2>1, LenProperties
    <3>2. k \in 1..Len(statements) BY <2>1, <3>1
    <3> QED BY <2>1, <3>1, <3>2, ElementOfSeq DEF Statement
  <2>3. IsDangerousOp(Statement)
    <3>1. CASE command \in {"file", "shell"}
      <4>1. statements = SplitStatements(text)
        BY <2>1, <3>1, SplitIsWhole DEF StatementsAreWhole
      <4>2. Code = CodeOf(text)[k]
        BY <3>1 DEF Code
      <4>3. k \in 1..Len(SplitStatements(text))
        BY <2>2, <4>1
      <4>4. IsDangerousOp(SplitStatements(text)[k])
        BY <2>1, <4>2, <4>3, DropsAreSeen
      <4> QED BY <4>1, <4>4 DEF Statement
    <3>2. CASE command \notin {"file", "shell"}
      <4>1. Code = Statement
        BY <3>2 DEF Code
      <4> QED BY <4>1 DEF Drops, SetApart, IsDangerousOp, DangerousOps
    <3> QED BY <3>1, <3>2
  <2>4. ~Reads(Statement)
    BY <2>2, <2>3, ReadsAreHarmless
  <2>5. command # "query"
    BY <2>4 DEF Inv, QueryIsRead
  <2>6. policy = "allow"
    BY <2>3, <2>4, <2>5 DEF Inv, SentIsChecked, Prompted
  <2> QED BY <2>6 DEF Inv, PolicyIsEarned
<1>2. Spec => []Inv BY CommandLineInvHolds
<1>3. Spec => []StatementsAreWhole BY SplitsAreWhole
<1> QED BY <1>1, <1>2, <1>3, PTL

\* An UPDATE or DELETE out of a file or a line that reaches the database has a
\* WHERE in its code: none that a literal or a comment pretends, none of another
\* statement.
THEOREM ModifiesHaveWhere == Spec => []NoUnconditionalModify
<1>1. Inv /\ StatementsAreWhole => NoUnconditionalModify
  <2> SUFFICES ASSUME Inv, StatementsAreWhole, pc = "sent", command \in {"file", "shell"},
                      RequiresWHERE(Operation(Statement)),
                      \A i \in DOMAIN text : text[i] # "backtick"
               PROVE  HasWord(CodeOf(text)[k], "WHERE")
    BY DEF NoUnconditionalModify
  <2>1. text \in Seq(STRING) /\ k \in Nat /\ k # 0 /\ k <= Len(statements)
    BY DEF Inv, TypeOK, InputOK, OneIsInHand
  <2>2. statements = SplitStatements(text)
    BY <2>1, SplitIsWhole DEF StatementsAreWhole
  <2>3. ~Reads(Statement)
    BY DEF Reads, IsReadOperation, IsSELECT, RequiresWHERE
  <2>4. HasWHERE(Statement)
    BY <2>3 DEF Inv, SentIsChecked, NoWhere
  <2>5. k \in 1..Len(SplitStatements(text)) /\ HasWHERE(SplitStatements(text)[k])
    <3>1. statements \in Seq(Seq(STRING)) BY DEF Inv, TypeOK, InputOK
    <3>2. Len(statements) \in Nat BY <3>1, LenProperties
    <3>3. k \in 1..Len(statements) BY <2>1, <3>2
    <3> QED BY <2>2, <2>4, <3>3 DEF Statement
  <2>6. \A i \in 1..Len(text) : text[i] # "backtick"
    BY <2>1, LenProperties
  <2> QED BY <2>1, <2>5, <2>6, GuardSeesTheCode
<1>2. Spec => []Inv BY CommandLineInvHolds
<1>3. Spec => []StatementsAreWhole BY SplitsAreWhole
<1> QED BY <1>1, <1>2, <1>3, PTL
=============================================================================
