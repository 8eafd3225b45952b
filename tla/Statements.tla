------------------------------ MODULE Statements ------------------------------
(***************************************************************************)
(* How SQL text is read without a parser: SplitStatements and the           *)
(* classification of statements of internal/sqlnorm, IsDangerousOp of       *)
(* pkg/guard.  The scanners that look for LIMIT and OFFSET are matchKeyword *)
(* too; what their answers do is in Paging.                                 *)
(*                                                                          *)
(* A text is a sequence of tokens: the characters that the scanners tell    *)
(* apart one by one, and words.  A word stands for itself in either case;   *)
(* two words side by side are one longer word, and no keyword.  A tab is a   *)
(* blank to all of them and goes by " "; a carriage return is one to all but *)
(* IsDangerousOp.  (A string of TLA+ has no backtick in it: that token goes  *)
(* by its name.)                                                            *)
(*                                                                          *)
(* The second half is the reference the scanners are checked against: the   *)
(* lexemes of a text, each found from its first token by what ends it.      *)
(***************************************************************************)
EXTENDS Integers, Sequences, FiniteSetsExt

Space      == {" ", "\n", "\r"}
Quotes     == {"'", "\"", "backtick"}
Delimiters == Space \cup {"(", ")", ",", ";", "=", "-", "*", "/", "'", "\""}

\* strings.TrimSpace
Trim(s) ==
  LET body == {i \in DOMAIN s : s[i] \notin Space}
  IN  IF body = {} THEN <<>> ELSE SubSeq(s, Min(body), Max(body))

-----------------------------------------------------------------------------
\* SplitStatements: one pass over the text.

\* The token after the i-th; no token compares equal to the end.
Peek(sql, i) == IF i < Len(sql) THEN sql[i + 1] ELSE "end"

\* in: "code", "line" or "block" comment, or the quote that is open; skip: how
\* many of the next tokens are through already; current: the statement so far.
ScanStart == [in |-> "code", skip |-> 0, current |-> <<>>, done |-> <<>>]

Write(st, c) == [st EXCEPT !.current = Append(@, c)]

\* Faulty: a statement is not trimmed.
FlushAsIs(st) ==
  [st EXCEPT !.current = <<>>,
             !.done = IF Trim(st.current) = <<>> THEN @ ELSE Append(@, st.current)]

Flush(st) ==
  LET stmt == Trim(st.current)
  IN  [st EXCEPT !.current = <<>>, !.done = IF stmt = <<>> THEN @ ELSE Append(@, stmt)]

ScanComment(st, c, next) ==
  CASE st.in = "line" /\ c = "\n" -> [st EXCEPT !.in = "code"]
    [] st.in = "block" /\ c = "*" /\ next = "/" -> [st EXCEPT !.in = "code", !.skip = 1]
    [] OTHER -> st

\* Faulty: of a doubled quote one is lost.
ScanQuotedHalf(st, c, next) ==
  CASE c = st.in /\ next = c -> [Write(st, c) EXCEPT !.skip = 1]
    [] c = st.in /\ next # c -> [Write(st, c) EXCEPT !.in = "code"]
    [] OTHER -> Write(st, c)

\* A doubled quote stays in the literal, and in the statement.
ScanQuoted(st, c, next) ==
  CASE c = st.in /\ next = c -> [Write(Write(st, c), next) EXCEPT !.skip = 1]
    [] c = st.in /\ next # c -> [Write(st, c) EXCEPT !.in = "code"]
    [] OTHER -> Write(st, c)

ScanCode(st, c, next) ==
  CASE c = "-" /\ next = "-" -> [st EXCEPT !.in = "line"]
    [] c = "/" /\ next = "*" -> [st EXCEPT !.in = "block", !.skip = 1]
    [] c \in Quotes -> [Write(st, c) EXCEPT !.in = c]
    [] c = ";" -> Flush(st)
    [] OTHER -> Write(st, c)

Scan(st, c, next) ==
  CASE st.skip = 1 -> [st EXCEPT !.skip = 0]
    [] st.skip = 0 /\ st.in \in {"line", "block"} -> ScanComment(st, c, next)
    [] st.skip = 0 /\ st.in \in Quotes -> ScanQuoted(st, c, next)
    [] st.skip = 0 /\ st.in = "code" -> ScanCode(st, c, next)

\* What the pass has come to after each token.
Scanned(sql) ==
  LET scanned[i \in 0..Len(sql)] ==
        IF i = 0 THEN ScanStart ELSE Scan(scanned[i - 1], sql[i], Peek(sql, i))
  IN  scanned

SplitStatements(sql) == Flush(Scanned(sql)[Len(sql)]).done

-----------------------------------------------------------------------------
\* The classification of a statement.

\* The text up to the first blank or parenthesis, keyword or not.
Operation(sql) ==
  LET s    == Trim(sql)
      ends == {i \in DOMAIN s : s[i] \in Space \cup {"("}}
  IN  IF ends = {} THEN s ELSE SubSeq(s, 1, Min(ends) - 1)

IsSELECT(op) == op \in {<<"SELECT">>, <<"WITH">>}
IsReadOperation(op) ==
  IsSELECT(op) \/ op \in {<<"SHOW">>, <<"DESCRIBE">>, <<"DESC">>, <<"EXPLAIN">>}
RequiresWHERE(op) == op \in {<<"UPDATE">>, <<"DELETE">>}

\* Faulty: quoted text is not blanked.
StripQuotedNothing(sql) == sql

\* The quote that is open after c, of the quote that was open before.
OpenAfter(c) ==
  [open \in {"none", "'", "\""} |->
     IF open = c THEN "none" ELSE IF open = "none" /\ c \in {"'", "\""} THEN c ELSE open]

\* The quote that is open after each token.
Open(sql) ==
  LET open[i \in 0..Len(sql)] == IF i = 0 THEN "none" ELSE OpenAfter(sql[i])[open[i - 1]]
  IN  open

\* Blanks what is in single and double quotes; a doubled quote closes and opens.
StripQuoted(sql) ==
  [i \in 1..Len(sql) |->
     IF Open(sql)[i - 1] = "none" /\ Open(sql)[i] = "none" THEN sql[i] ELSE " "]

MatchKeyword(sql, keyword) ==
  \E i \in DOMAIN sql :
    /\ sql[i] = keyword
    /\ i = 1 \/ sql[i - 1] \in Delimiters
    /\ i = Len(sql) \/ sql[i + 1] \in Delimiters

HasWHERE(sql) == MatchKeyword(StripQuoted(sql), "WHERE")

DangerousOps == {"DROP", "TRUNCATE"}

\* A prefix of the statement as it is, not trimmed; matchesOp does not take a
\* carriage return for a blank.
IsDangerousOp(sql) ==
  /\ sql # <<>> /\ sql[1] \in DangerousOps
  /\ Len(sql) > 1 => sql[2] \in {" ", "\n", "("}

-----------------------------------------------------------------------------
\* Reference: the lexemes of a text.

\* A lexeme ends at the first place that may end it, or with the text.
EndAt(sql, ends) == IF ends = {} THEN Len(sql) ELSE Min(ends)

IsLineComment(sql, i)  == sql[i] = "-" /\ Peek(sql, i) = "-"
IsBlockComment(sql, i) == sql[i] = "/" /\ Peek(sql, i) = "*"
IsComment(sql, i) == IsLineComment(sql, i) \/ IsBlockComment(sql, i)

\* A quoted lexeme ends at a quote that makes their number even and is not
\* half of a doubled one.
QuotedEnds(sql, i) ==
  {j \in (i + 1)..Len(sql) :
     /\ sql[j] = sql[i] /\ Peek(sql, j) # sql[i]
     /\ Cardinality({k \in i..j : sql[k] = sql[i]}) % 2 = 0}

LexemeEnd(sql, i) ==
  CASE sql[i] \in Quotes -> EndAt(sql, QuotedEnds(sql, i))
    [] IsLineComment(sql, i) -> EndAt(sql, {j \in i..Len(sql) : sql[j] = "\n"})
    [] IsBlockComment(sql, i) ->
         EndAt(sql, {j \in (i + 3)..Len(sql) : sql[j - 1] = "*" /\ sql[j] = "/"})
    [] OTHER -> i

\* A lexeme as it is, or a literal or identifier in quotes by this one token.
Lexeme(sql, i, verbatim) ==
  IF sql[i] \in Quotes /\ ~verbatim THEN <<"literal">> ELSE SubSeq(sql, i, LexemeEnd(sql, i))

\* A semicolon, or the end, makes a statement of what is before it.
Cut(rest) ==
  IF Trim(rest.piece) = <<>> THEN rest.later ELSE <<Trim(rest.piece)>> \o rest.later

\* What a text says from its i-th token on, of what the rest says: the piece up
\* to the next semicolon, and the statements after it.  Comments say nothing.
Nothing == [piece |-> <<>>, later |-> <<>>]
Said(sql, i, rest, verbatim) ==
  CASE sql[i] = ";" -> [piece |-> <<>>, later |-> Cut(rest)]
    [] IsComment(sql, i) -> rest
    [] OTHER -> [rest EXCEPT !.piece = Lexeme(sql, i, verbatim) \o @]

From(sql, verbatim) ==
  LET from[i \in 1..(Len(sql) + 1)] ==
        IF i > Len(sql) THEN Nothing
        ELSE Said(sql, i, from[LexemeEnd(sql, i) + 1], verbatim)
  IN  from

WholeStatements(sql) == Cut(From(sql, TRUE)[1])
CodeOf(sql)          == Cut(From(sql, FALSE)[1])

IsWord(c) == c \notin Delimiters \cup {"literal"}
HasWord(sql, word) ==
  \E i \in DOMAIN sql :
    /\ sql[i] = word
    /\ i = 1 \/ ~IsWord(sql[i - 1])
    /\ i = Len(sql) \/ ~IsWord(sql[i + 1])

\* The code of a DROP or a TRUNCATE.
Drops(code) ==
  /\ code # <<>> /\ code[1] \in {"DROP", "TRUNCATE"}
  /\ Len(code) > 1 => ~IsWord(code[2])

\* Its first word has a blank, a line end or a parenthesis after it, or nothing.
SetApart(code) == Len(code) > 1 => code[2] \in {" ", "\n", "("}
=============================================================================
