------------------------------ MODULE GuardProofs ------------------------------
(***************************************************************************)
(* What the WHERE guard finds in a statement, the code of the statement     *)
(* has; and IsDangerousOp tells of a statement whose code is a DROP or      *)
(* TRUNCATE.  StripQuoted reads a statement that SplitStatements has cut    *)
(* out, a second scanner with rules of its own for quotes; the reference    *)
(* hides every literal behind one token.                                    *)
(*                                                                          *)
(* The argument.  Two readings of a text, verbatim and with its literals    *)
(* hidden, are compared lexeme by lexeme from the end.  A token that is no  *)
(* quote is the same in both and is kept by StripQuoted; a quoted lexeme is *)
(* blanked to the last token, because the quotes toggle in it as they do in *)
(* the reference, and nothing is open after it.  So a keyword that          *)
(* StripQuoted leaves is one of the hidden reading, with neighbours that    *)
(* are no part of a word if its own are delimiters.  And up to the first    *)
(* literal the two readings are one, so that they begin alike or with a     *)
(* literal both.                                                            *)
(***************************************************************************)
EXTENDS StatementsProofs

-----------------------------------------------------------------------------
\* The quotes that StripQuoted sees.

\* The equations of Open.
LEMMA OpenStep ==
  ASSUME NEW sql, Len(sql) \in Nat
  PROVE  /\ Open(sql)[0] = "none"
         /\ \A i \in 1..Len(sql) : Open(sql)[i] = OpenAfter(sql[i])[Open(sql)[i - 1]]
<1> DEFINE g == Open(sql)
<1>1. g = [i \in 0..Len(sql) |-> IF i = 0 THEN "none" ELSE OpenAfter(sql[i])[g[i - 1]]]
  BY OpenRec
<1> HIDE DEF g
<1>2. g[0] = "none" /\ \A i \in 1..Len(sql) : g[i] = OpenAfter(sql[i])[g[i - 1]]
  BY <1>1
<1> QED BY <1>2 DEF g

\* The quote that may be open, or none.
Opens == {"none", "'", "\""}

OpenNext(c, o) == IF o = "none" THEN IF c \in {"'", "\""} THEN c ELSE "none"
                  ELSE IF c = o THEN "none" ELSE o

\* OpenAfter is a function of the quote that was open; this is its value.
LEMMA OpenAfterIs ==
  ASSUME NEW c, NEW o \in Opens
  PROVE  OpenAfter(c)[o] = OpenNext(c, o) /\ OpenNext(c, o) \in Opens
BY DEF OpenAfter, Opens, OpenNext

\* What may be open after a token.
LEMMA OpenType ==
  ASSUME NEW sql, Len(sql) \in Nat
  PROVE  \A i \in 0..Len(sql) : Open(sql)[i] \in Opens
<1> DEFINE g == Open(sql)
           S == {i \in 0..Len(sql) : g[i] \in Opens}
<1>1. 0 \in S
  <2>1. g[0] = "none" BY OpenStep
  <2>2. "none" \in Opens BY DEF Opens
  <2> HIDE DEF g
  <2> QED BY <2>1, <2>2
<1>2. \A i \in 0..(Len(sql) - 1) : i \in S => i + 1 \in S
  <2> TAKE i \in 0..(Len(sql) - 1)
  <2>1. i + 1 \in 1..Len(sql) /\ i + 1 \in 0..Len(sql) /\ (i + 1) - 1 = i OBVIOUS
  <2>2. g[i + 1] = OpenAfter(sql[i + 1])[g[i]] BY <2>1, OpenStep
  <2> HIDE DEF g
  <2>3. g[i] \in Opens => g[i + 1] \in Opens BY <2>2, OpenAfterIs, Zenon
  <2> QED BY <2>1, <2>3
<1>3. \A i \in 0..Len(sql) : i \in S
  <2>1. 0 \in Int /\ Len(sql) \in Int OBVIOUS
  <2> HIDE DEF S
  <2> QED BY ONLY <2>1, <1>1, <1>2, Upward, Zenon
<1> QED BY <1>3

\* One step of Open.
LEMMA OpenMoves ==
  ASSUME NEW sql, Len(sql) \in Nat, NEW i \in 1..Len(sql)
  PROVE  Open(sql)[i] = OpenNext(sql[i], Open(sql)[i - 1])
<1>1. Open(sql)[i] = OpenAfter(sql[i])[Open(sql)[i - 1]]
  BY OpenStep
<1>2. Open(sql)[i - 1] \in Opens
  <2>1. i - 1 \in 0..Len(sql) OBVIOUS
  <2> QED BY <2>1, OpenType
<1> QED BY <1>1, <1>2, OpenAfterIs, Zenon

\* s2 has s after its first n elements, and perhaps more (Within); or nothing more (After).
Within(s2, n, s) == n + Len(s) <= Len(s2) /\ \A m \in 1..Len(s) : s2[n + m] = s[m]
After(s2, n, s)  == n + Len(s) = Len(s2) /\ \A m \in 1..Len(s) : s2[n + m] = s[m]

\* After a place where nothing is open, Open goes on as if the text began there.
LEMMA OpenGoesOn ==
  ASSUME NEW w, Len(w) \in Nat, NEW v, Len(v) \in Nat, NEW n \in Nat, Within(w, n, v),
         Open(w)[n] = "none"
  PROVE  \A i \in 0..Len(v) : Open(w)[n + i] = Open(v)[i]
<1> DEFINE S == {i \in 0..Len(v) : Open(w)[n + i] = Open(v)[i]}
<1>0. n + Len(v) <= Len(w) /\ n \in Nat /\ Len(v) \in Nat /\ Len(w) \in Nat
  BY DEF Within
<1>1. 0 \in S
  BY <1>0, OpenStep
<1>2. \A i \in 0..(Len(v) - 1) : i \in S => i + 1 \in S
  <2> TAKE i \in 0..(Len(v) - 1)
  <2>1. /\ i + 1 \in 1..Len(v) /\ (i + 1) - 1 = i
        /\ n + (i + 1) \in 1..Len(w) /\ (n + (i + 1)) - 1 = n + i
    <3>1. i \in 0..(Len(v) - 1) OBVIOUS
    <3> QED BY ONLY <1>0, <3>1
  <2>2. Open(v)[i + 1] = OpenAfter(v[i + 1])[Open(v)[i]] BY <2>1, OpenStep
  <2>3. Open(w)[n + (i + 1)] = OpenAfter(w[n + (i + 1)])[Open(w)[n + i]] BY <2>1, OpenStep
  <2>4. w[n + (i + 1)] = v[i + 1] BY <2>1 DEF Within
  <2> QED BY <2>1, <2>2, <2>3, <2>4
<1>3. \A i \in 0..Len(v) : i \in S
  <2>1. 0 \in Int /\ Len(v) \in Int OBVIOUS
  <2> HIDE DEF S
  <2> QED BY ONLY <2>1, <1>1, <1>2, Upward, Zenon
<1> QED BY <1>3

\* Stripping keeps the length.
LEMMA StripType ==
  ASSUME NEW T, NEW s \in Seq(T)
  PROVE  /\ DOMAIN StripQuoted(s) = 1..Len(s)
         /\ Len(StripQuoted(s)) = Len(s)
<1>0. Len(s) \in Nat
  BY LenProperties
<1>1. \A i \in 1..Len(s) : s[i] \in T
  BY <1>0, ElementOfSeq
<1>2. DOMAIN StripQuoted(s) = 1..Len(s)
  BY DEF StripQuoted
<1>3. StripQuoted(s) \in [1..Len(s) -> T \cup {" "}]
  BY <1>1 DEF StripQuoted
<1>4. StripQuoted(s) \in Seq(T \cup {" "})
  <2> DEFINE q == StripQuoted(s)
             n == Len(s)
  <2>1. n \in Nat /\ q \in [1..n -> T \cup {" "}] BY <1>0, <1>3
  <2> HIDE DEF q, n
  <2>2. q \in UNION {[1..k -> T \cup {" "}] : k \in Nat} BY <2>1
  <2>3. Seq(T \cup {" "}) = UNION {[1..k -> T \cup {" "}] : k \in Nat} BY SeqDef, Zenon
  <2> QED BY <2>2, <2>3 DEF q
<1> DEFINE m == Len(StripQuoted(s))
<1>5. m \in Nat /\ DOMAIN StripQuoted(s) = 1..m
  BY <1>4, LenProperties
<1>6. 1..m = 1..Len(s)
  BY <1>2, <1>5
<1> HIDE DEF m
<1>7. m = Len(s)
  BY <1>0, <1>5, <1>6
<1> QED BY <1>2, <1>7 DEF m

-----------------------------------------------------------------------------
\* What it blanks.

\* A concatenation has the first text, and after it the second.
LEMMA ConcatAfter ==
  ASSUME NEW T, NEW l \in Seq(T), NEW v \in Seq(T)
  PROVE  After(l \o v, Len(l), v) /\ \A m \in 1..Len(l) : (l \o v)[m] = l[m]
<1>1. Len(l) \in Nat /\ Len(v) \in Nat
  BY LenProperties
<1> DEFINE w == l \o v
<1>2. Len(w) = Len(l) + Len(v) /\ \A i \in 1..Len(w) : w[i] = IF i <= Len(l) THEN l[i] ELSE v[i - Len(l)]
  BY ConcatProperties
<1> HIDE DEF w
<1>3. \A m \in 1..Len(l) : w[m] = l[m]
  BY <1>1, <1>2
<1>4. \A m \in 1..Len(v) : w[Len(l) + m] = v[m]
  <2> TAKE m \in 1..Len(v)
  <2>1. Len(l) + m \in 1..Len(w) /\ ~(Len(l) + m <= Len(l)) /\ (Len(l) + m) - Len(l) = m
    BY <1>1, <1>2
  <2> QED BY <1>2, <2>1
<1> QED BY <1>2, <1>3, <1>4 DEF w, After

\* Stripping goes on, after a place where nothing is open, as if the text began there.
LEMMA StripGoesOn ==
  ASSUME NEW T, NEW w \in Seq(T), NEW v \in Seq(T), NEW n \in Nat,
         Within(w, n, v), v # <<>> => Open(w)[n] = "none"
  PROVE  /\ Within(StripQuoted(w), n, StripQuoted(v))
         /\ After(w, n, v) => After(StripQuoted(w), n, StripQuoted(v))
<1>1. Len(w) \in Nat /\ Len(v) \in Nat /\ n + Len(v) <= Len(w) /\ \A m \in 1..Len(v) : w[n + m] = v[m]
  BY LenProperties DEF Within
<1>2. Len(StripQuoted(w)) = Len(w) /\ Len(StripQuoted(v)) = Len(v)
  BY StripType
<1>3. CASE v = <<>>
  <2>1. Len(v) = 0 BY <1>3
  <2> QED BY <1>1, <1>2, <2>1 DEF After, Within
<1>4. CASE v # <<>>
  <2>1. \A i \in 0..Len(v) : Open(w)[n + i] = Open(v)[i]
    <3>1. Open(w)[n] = "none" BY <1>4
    <3> QED BY <1>1, <3>1, OpenGoesOn
  <2>2. ASSUME NEW m \in 1..Len(v) PROVE StripQuoted(w)[n + m] = StripQuoted(v)[m]
    <3>1. n + m \in 1..Len(w) /\ m \in 0..Len(v) /\ m - 1 \in 0..Len(v) /\ (n + m) - 1 = n + (m - 1)
      BY <1>1
    <3>2. Open(w)[n + m] = Open(v)[m] /\ Open(w)[(n + m) - 1] = Open(v)[m - 1]
      BY <2>1, <3>1
    <3>3. w[n + m] = v[m] BY <1>1
    <3>4. StripQuoted(v)[m] = IF Open(v)[m - 1] = "none" /\ Open(v)[m] = "none" THEN v[m] ELSE " "
      BY DEF StripQuoted
    <3>5. StripQuoted(w)[n + m] = IF Open(w)[(n + m) - 1] = "none" /\ Open(w)[n + m] = "none"
                                  THEN w[n + m] ELSE " "
      BY <3>1 DEF StripQuoted
    <3> QED BY <3>2, <3>3, <3>4, <3>5
  <2> QED BY <1>1, <1>2, <2>2 DEF After, Within
<1> QED BY <1>3, <1>4

\* Before a text, a token that is no quote is kept, and changes nothing of the rest.
LEMMA StripsToken ==
  ASSUME NEW T, NEW v \in Seq(T), NEW c \in T, c \notin Quotes
  PROVE  StripQuoted(<<c>> \o v)[1] = c /\ After(StripQuoted(<<c>> \o v), 1, StripQuoted(v))
<1> DEFINE l == <<c>>
           w == l \o v
<1>1. l \in Seq(T) /\ Len(l) = 1 /\ l[1] = c
  OBVIOUS
<1> HIDE DEF l
<1>2. w \in Seq(T) /\ After(w, 1, v) /\ w[1] = c
  <2>1. After(w, Len(l), v) /\ \A m \in 1..Len(l) : w[m] = l[m] BY <1>1, ConcatAfter
  <2>2. w \in Seq(T) BY <1>1, ConcatProperties
  <2> HIDE DEF w
  <2> QED BY <1>1, <2>1, <2>2
<1> HIDE DEF w
<1>3. Len(w) \in Nat /\ 1 \in 1..Len(w)
  <2>1. Len(w) \in Nat /\ Len(v) \in Nat BY <1>2, LenProperties
  <2> QED BY <1>2, <2>1 DEF After
<1>4. Open(w)[0] = "none" /\ Open(w)[1] = "none"
  <2>1. Open(w)[0] = "none" BY <1>3, OpenStep
  <2>2. Open(w)[1] = OpenNext(w[1], Open(w)[1 - 1]) BY <1>3, OpenMoves
  <2>3. 1 - 1 = 0 OBVIOUS
  <2>4. OpenNext(c, "none") = "none" BY DEF OpenNext, Quotes
  <2> QED BY <1>2, <2>1, <2>2, <2>3, <2>4
<1>5. StripQuoted(w)[1] = c
  <2>1. StripQuoted(w)[1] = IF Open(w)[1 - 1] = "none" /\ Open(w)[1] = "none" THEN w[1] ELSE " "
    BY <1>3 DEF StripQuoted
  <2> QED BY <1>2, <1>4, <2>1
<1>6. After(StripQuoted(w), 1, StripQuoted(v))
  <2>1. Within(w, 1, v) BY <1>2, <1>3 DEF After, Within
  <2> QED BY <1>2, <1>4, <2>1, StripGoesOn
<1> QED BY <1>5, <1>6 DEF w, l

\* Before v, the text l is blanked, every token of it, and v is stripped as it is alone.
Blanks(l, v) ==
  /\ Len(l) \in Nat \ {0}
  /\ \A m \in 1..Len(l) : StripQuoted(l \o v)[m] = " "
  /\ After(StripQuoted(l \o v), Len(l), StripQuoted(v))

\* Before a text, a quoted lexeme is blanked and changes
\* nothing of the rest: it is closed at its end, or it is the end of the text.
LEMMA StripsQuoted ==
  ASSUME NEW T, NEW sql \in Seq(T), NEW i \in 1..Len(sql),
         sql[i] \in Quotes, sql[i] # "backtick",
         NEW v \in Seq(T), LexemeEnd(sql, i) = Len(sql) => v = <<>>
  PROVE  Blanks(SubSeq(sql, i, LexemeEnd(sql, i)), v)
<1> DEFINE l == SubSeq(sql, i, LexemeEnd(sql, i))
           e == LexemeEnd(sql, i)
           q == sql[i]
           w == l \o v
           n == (e - i) + 1
<1>0. Len(sql) \in Nat /\ i \in Int
  BY LenProperties
<1>1. /\ e \in i..Len(sql)
      /\ \A j \in i..(e - 1) : ~Odd(sql, i, j) => sql[j] = q /\ sql[j + 1] = q
      /\ \/ e > i /\ sql[e] = q /\ Peek(sql, e) # q /\ ~Odd(sql, i, e) /\ Odd(sql, i, e - 1)
         \/ e = Len(sql) /\ Odd(sql, i, e)
  BY <1>0, QuotedLexeme
<1>2. l \in Seq(T)
  BY LexemeType
<1> HIDE DEF e, l
<1>3. Len(l) = n /\ n \in Nat \ {0} /\ \A m \in 1..n : l[m] = sql[i + (m - 1)]
  <2>1. \A m \in i..e : sql[m] \in T BY <1>0, <1>1, ElementOfSeq
  <2>2. l = SubSeq(sql, i, e) BY DEF e, l
  <2>3. i <= e /\ e \in Int BY <1>0, <1>1
  <2> HIDE DEF n
  <2>4. Len(l) = IF i <= e THEN (e - i) + 1 ELSE 0
    BY <1>0, <2>1, <2>2, <2>3, SubSeqProperties
  <2> QED BY <1>0, <2>1, <2>2, <2>3, <2>4, SubSeqProperties DEF n
<1>4. w \in Seq(T) /\ After(w, n, v) /\ \A m \in 1..n : w[m] = sql[i + (m - 1)]
  <2>1. After(w, Len(l), v) /\ \A m \in 1..Len(l) : w[m] = l[m] BY <1>2, ConcatAfter
  <2>2. w \in Seq(T) BY <1>2, ConcatProperties
  <2> HIDE DEF w
  <2> QED BY <1>3, <2>1, <2>2
<1> HIDE DEF w
<1>5. Len(w) \in Nat /\ n \in 1..Len(w)
  <2>1. Len(w) \in Nat /\ Len(v) \in Nat BY <1>4, LenProperties
  <2> HIDE DEF n
  <2> QED BY <1>3, <1>4, <2>1 DEF After
<1>6. q \in {"'", "\""} /\ q # "none"
  BY DEF Quotes
<1>7. \A m \in 1..n : Open(w)[m] = IF Odd(sql, i, i + (m - 1)) THEN q ELSE "none"
  <2> DEFINE S == {m \in 1..n : Open(w)[m] = IF Odd(sql, i, i + (m - 1)) THEN q ELSE "none"}
  <2>1. 1 \in S
    <3>1. 1 \in 1..n /\ 1 \in 1..Len(w) /\ i + (1 - 1) = i /\ 1 - 1 = 0 BY <1>0, <1>3, <1>5
    <3> HIDE DEF n, q
    <3>2. w[1] = q BY <1>4, <3>1 DEF q
    <3>3. Open(w)[1] = OpenNext(q, "none") BY <1>5, <3>1, <3>2, OpenStep, OpenMoves
    <3>4. OpenNext(q, "none") = q BY <1>6 DEF OpenNext
    <3>5. Odd(sql, i, i + (1 - 1)) BY <1>0, <3>1, OddFirst
    <3> QED BY <3>1, <3>3, <3>4, <3>5
  <2>2. \A m \in 1..(n - 1) : m \in S => m + 1 \in S
    <3> TAKE m \in 1..(n - 1)
    <3> DEFINE j == i + (m - 1)
    <3>1. /\ m + 1 \in 1..n /\ m + 1 \in 1..Len(w) /\ (m + 1) - 1 = m /\ i + ((m + 1) - 1) = j + 1
          /\ j \in i..(e - 1) /\ j \in Int /\ i <= j /\ m \in 1..n
      BY <1>0, <1>1, <1>3, <1>5
    <3> HIDE DEF n, q, j
    <3>2. w[m + 1] = sql[j + 1] BY <1>4, <3>1
    <3>3. Open(w)[m + 1] = OpenNext(sql[j + 1], Open(w)[m]) BY <1>5, <3>1, <3>2, OpenMoves
    <3> SUFFICES ASSUME Open(w)[m] = IF Odd(sql, i, j) THEN q ELSE "none"
                 PROVE  Open(w)[m + 1] = IF Odd(sql, i, j + 1) THEN q ELSE "none"
      BY <3>1 DEF j
    <3>4. CASE Odd(sql, i, j) /\ sql[j + 1] = q
      <4>1. ~Odd(sql, i, j + 1) BY <1>0, <3>1, <3>4, OddNext DEF q
      <4> QED BY <1>6, <3>3, <3>4, <4>1 DEF OpenNext
    <3>5. CASE Odd(sql, i, j) /\ sql[j + 1] # q
      <4>1. Odd(sql, i, j + 1) BY <1>0, <3>1, <3>5, OddNext DEF q
      <4> QED BY <1>6, <3>3, <3>5, <4>1 DEF OpenNext
    <3>6. CASE ~Odd(sql, i, j)
      <4>1. sql[j + 1] = q BY <1>1, <3>1, <3>6 DEF q
      <4>2. Odd(sql, i, j + 1) BY <1>0, <3>1, <3>6, <4>1, OddNext DEF q
      <4> QED BY <1>6, <3>3, <3>6, <4>1, <4>2 DEF OpenNext
    <3> QED BY <3>4, <3>5, <3>6
  <2>3. \A m \in 1..n : m \in S
    <3>1. 1 \in Int /\ n \in Int BY <1>3
    <3> HIDE DEF S, n
    <3> QED BY ONLY <3>1, <2>1, <2>2, Upward, Zenon
  <2> HIDE DEF n, q
  <2> QED BY <2>3
<1>8. ASSUME NEW m \in 1..n PROVE StripQuoted(w)[m] = " "
  <2> DEFINE j == i + (m - 1)
  <2>1. /\ m \in 1..Len(w) /\ m \in Int /\ j \in i..e /\ (m = 1 => j = i)
        /\ m # 1 => m - 1 \in 1..n /\ i + ((m - 1) - 1) = j - 1
    <3>1. m \in 1..n /\ e \in i..Len(sql) /\ n \in 1..Len(w) /\ Len(w) \in Nat BY <1>1, <1>5
    <3> QED BY ONLY <1>0, <3>1
  <2>6. m # 1 => j - 1 \in i..(e - 1) /\ j - 1 \in Int /\ i <= j - 1 /\ (j - 1) + 1 = j
    BY <1>0, <1>1, <2>1
  <2> HIDE DEF n, q, j
  <2>2. StripQuoted(w)[m] = IF Open(w)[m - 1] = "none" /\ Open(w)[m] = "none" THEN w[m] ELSE " "
    BY <2>1 DEF StripQuoted
  <2>3. Open(w)[m] = IF Odd(sql, i, j) THEN q ELSE "none" BY <1>7 DEF j
  <2>4. CASE Odd(sql, i, j)
    BY <1>6, <2>2, <2>3, <2>4
  <2>5. CASE ~Odd(sql, i, j)
    <3>1. m # 1 BY <1>0, <2>1, <2>5, OddFirst
    <3>2. Open(w)[m - 1] = IF Odd(sql, i, j - 1) THEN q ELSE "none" BY <1>7, <2>1, <3>1
    <3>3. Odd(sql, i, j - 1)
      <4>1. ~Odd(sql, i, j - 1) => sql[(j - 1) + 1] = q BY <1>1, <2>6, <3>1 DEF q
      <4> QED BY <1>0, <2>5, <2>6, <3>1, <4>1, OddNext DEF q
    <3> QED BY <1>6, <2>2, <3>2, <3>3
  <2> QED BY <2>4, <2>5
<1>9. After(StripQuoted(w), n, StripQuoted(v))
  <2>1. v # <<>> => Open(w)[n] = "none"
    <3> SUFFICES ASSUME v # <<>> PROVE Open(w)[n] = "none"
      OBVIOUS
    <3>1. ~Odd(sql, i, e) BY <1>1 DEF e
    <3>2. i + (n - 1) = e /\ n \in 1..n BY <1>0, <1>1, <1>3
    <3> HIDE DEF n
    <3> QED BY <1>7, <3>1, <3>2
  <2>2. n \in Nat BY <1>3
  <2> HIDE DEF n
  <2>3. Within(w, n, v) BY <1>4, <1>5, <2>2 DEF After, Within
  <2> QED BY <1>4, <2>1, <2>2, <2>3, StripGoesOn
<1> HIDE DEF n
<1>10. Blanks(l, v)
  BY <1>3, <1>8, <1>9 DEF w, Blanks
<1> QED BY <1>10 DEF l, e

-----------------------------------------------------------------------------
\* Trimming, and where keywords are.

\* A text of nothing but blanks.
Blank(s) == \A i \in 1..Len(s) : s[i] \in Space

\* What trimming takes off.
LEMMA TrimIs ==
  ASSUME NEW T, NEW s \in Seq(T)
  PROVE  /\ Trim(s) = <<>> <=> Blank(s)
         /\ ~Blank(s) =>
              \E a, b \in 1..Len(s) :
                /\ a <= b /\ Trim(s) = SubSeq(s, a, b) /\ s[a] \notin Space
                /\ Len(Trim(s)) = (b - a) + 1 /\ Within(s, a - 1, Trim(s))
                /\ \A i \in 1..Len(s) : i < a \/ i > b => s[i] \in Space
<1> DEFINE body == {i \in DOMAIN s : s[i] \notin Space}
<1>0. Len(s) \in Nat /\ DOMAIN s = 1..Len(s)
  BY LenProperties
<1>1. CASE Blank(s)
  <2>1. body = {} BY <1>0, <1>1 DEF Blank
  <2>2. Trim(s) = <<>> BY <2>1 DEF Trim
  <2> QED BY <1>1, <2>2
<1>2. CASE ~Blank(s)
  <2>1. body # {} /\ body \subseteq 1..Len(s) BY <1>0, <1>2 DEF Blank
  <2>2. Trim(s) = SubSeq(s, Min(body), Max(body)) BY <2>1 DEF Trim
  <2>3. /\ Min(body) \in body /\ \A x \in body : Min(body) <= x
        /\ Max(body) \in body /\ \A x \in body : x <= Max(body)
    <3> HIDE DEF body
    <3> QED BY <1>0, <2>1, FirstPosition, LastPosition
  <2>4. PICK a \in body, b \in body : Trim(s) = SubSeq(s, a, b) /\ \A x \in body : a <= x /\ x <= b
    <3> HIDE DEF body
    <3> QED BY <2>2, <2>3, Zenon
  <2>5. a \in 1..Len(s) /\ b \in 1..Len(s) /\ a <= b /\ s[a] \notin Space BY <2>1, <2>4
  <2>6. \A i \in 1..Len(s) : i < a \/ i > b => s[i] \in Space
    <3> TAKE i \in 1..Len(s)
    <3>1. i \notin body \/ (a <= i /\ i <= b) BY <2>4
    <3>2. i \notin body => s[i] \in Space BY <1>0
    <3> HIDE DEF body
    <3> QED BY <1>0, <2>5, <3>1, <3>2
  <2> HIDE DEF body
  <2>7. \A m \in a..b : s[m] \in T BY <1>0, <2>5, ElementOfSeq
  <2>8. Len(SubSeq(s, a, b)) = (b - a) + 1 /\ \A i \in 1..((b - a) + 1) : SubSeq(s, a, b)[i] = s[a + i - 1]
    BY <1>0, <2>5, <2>7, SubSeqProperties
  <2> DEFINE t == SubSeq(s, a, b)
  <2> HIDE DEF t
  <2>9. Len(t) = (b - a) + 1 /\ Within(s, a - 1, t)
    <3>1. Len(t) = (b - a) + 1 /\ \A i \in 1..((b - a) + 1) : t[i] = s[a + i - 1] BY <2>8 DEF t
    <3>2. ASSUME NEW m \in 1..Len(t) PROVE s[(a - 1) + m] = t[m]
      <4>1. (a - 1) + m = a + m - 1 /\ m \in 1..((b - a) + 1) BY <1>0, <2>5, <3>1
      <4> QED BY <3>1, <4>1
    <3> QED BY <1>0, <2>5, <3>1, <3>2 DEF Within
  <2>10. t # <<>>
    <3>1. Len(t) # 0 BY <1>0, <2>5, <2>9
    <3> QED BY <3>1
  <2>11. Trim(s) = t BY <2>4 DEF t
  <2>12. Trim(s) # <<>> BY <2>10, <2>11
  <2>13. /\ a <= b /\ Trim(s) = SubSeq(s, a, b) /\ s[a] \notin Space
         /\ Len(Trim(s)) = (b - a) + 1 /\ Within(s, a - 1, Trim(s))
         /\ \A i \in 1..Len(s) : i < a \/ i > b => s[i] \in Space
    BY <2>5, <2>6, <2>9, <2>11 DEF t
  <2> QED BY <1>2, <2>5, <2>12, <2>13
<1> QED BY <1>1, <1>2

\* The tokens of a trimmed text are tokens of the text.
LEMMA TrimTokens ==
  ASSUME NEW T, NEW s \in Seq(T), NEW c, \A i \in 1..Len(s) : s[i] # c
  PROVE  \A i \in 1..Len(Trim(s)) : Trim(s)[i] # c
<1> DEFINE t == Trim(s)
<1>0. Len(s) \in Nat /\ Len(t) \in Nat
  <2>1. t \in Seq(T) BY TrimType
  <2> HIDE DEF t
  <2> QED BY <2>1, LenProperties
<1>1. CASE Blank(s)
  <2>1. t = <<>> BY <1>1, TrimIs
  <2> HIDE DEF t
  <2>2. Len(t) = 0 BY <2>1
  <2>3. \A i \in 1..Len(t) : t[i] # c BY <2>2
  <2> QED BY <2>3 DEF t
<1>2. CASE ~Blank(s)
  <2>1. PICK a \in 1..Len(s), b \in 1..Len(s) : Within(s, a - 1, t)
    BY <1>2, TrimIs
  <2> HIDE DEF t
  <2>2. \A i \in 1..Len(t) : t[i] # c
    <3> TAKE i \in 1..Len(t)
    <3>1. (a - 1) + i \in 1..Len(s) /\ s[(a - 1) + i] = t[i] BY <1>0, <2>1 DEF Within
    <3> QED BY <3>1
  <2> QED BY <2>2 DEF t
<1> QED BY <1>1, <1>2

\* A keyword by itself, as MatchKeyword looks for it in what StripQuoted leaves,
\* and as HasWord does in the reference.
Right(s, i) == i = Len(s) \/ s[i + 1] \in Delimiters
KeywordAt(s, i) == s[i] = "WHERE" /\ Right(s, i) /\ (i # 1 => s[i - 1] \in Delimiters)
WordAt(h, j) == /\ h[j] = "WHERE" /\ (j = Len(h) \/ ~IsWord(h[j + 1]))
                /\ j # 1 => ~IsWord(h[j - 1])

\* Where StripQuoted keeps a keyword of the piece v, h has it.
Matched(s, h) ==
  \A i \in 1..Len(s) : KeywordAt(s, i) =>
    \E j \in 1..Len(h) : WordAt(h, j) /\ (i = 1 <=> j = 1)

\* s and h begin alike.
Starts(s, h) ==
  /\ Len(s) = 0 <=> Len(h) = 0
  /\ Len(s) # 0 => h[1] = s[1] \/ h[1] = "literal"

\* A piece and what stands for it: a token, or blanks for a literal.
Begins(s, n, x) ==
  \/ n = 1 /\ s[1] = x
  \/ x = "literal" /\ \A m \in 1..n : s[m] = " "

\* Both relations go on when a token, or a literal, is put before.
LEMMA MatchedGoesOn ==
  ASSUME NEW s, NEW s2, NEW h, NEW h2, NEW n \in Nat \ {0}, NEW x,
         Len(s) \in Nat, Len(h) \in Nat, After(s2, n, s), After(h2, 1, h), h2[1] = x,
         Begins(s2, n, x),
         Starts(s, h), Matched(s, h)
  PROVE  Matched(s2, h2) /\ Starts(s2, h2)
<1>1. /\ Len(s2) = n + Len(s) /\ \A m \in 1..Len(s) : s2[n + m] = s[m]
      /\ Len(h2) = 1 + Len(h) /\ \A m \in 1..Len(h) : h2[1 + m] = h[m]
  BY DEF After
<1>2. \A c : c \in Delimiters \cup {"literal"} => ~IsWord(c)
  BY DEF IsWord
<1>7. (n = 1 /\ s2[1] = x) \/ x = "literal"
  BY Zenon DEF Begins
<1>8. \A m \in 1..n : s2[m] # " " => n = 1 /\ s2[1] = x
  BY Zenon DEF Begins
<1>3. Starts(s2, h2)
  <2>1. Len(s2) # 0 /\ Len(h2) # 0 BY <1>1
  <2> QED BY <1>7, <2>1 DEF Starts
<1>4. ASSUME NEW i \in 1..Len(s2), KeywordAt(s2, i), i <= n
      PROVE  \E j \in 1..Len(h2) : WordAt(h2, j) /\ (i = 1 <=> j = 1)
  <2>1. n = 1 /\ i = 1 /\ x = "WHERE"
    <3>1. s2[i] = "WHERE" BY <1>4 DEF KeywordAt
    <3>2. s2[i] # " " /\ i \in 1..n BY <1>1, <1>4, <3>1
    <3>3. n = 1 /\ s2[1] = x BY <1>8, <3>2
    <3> QED BY <3>1, <3>2, <3>3
  <2>2. 1 = Len(h2) \/ ~IsWord(h2[1 + 1])
    <3>1. CASE Len(s) = 0
      BY <1>1, <3>1 DEF Starts
    <3>2. CASE Len(s) # 0
      <4>1. s2[1 + 1] = s[1] /\ s2[1 + 1] \in Delimiters
        <5>1. 1 \in 1..Len(s) BY <3>2
        <5>2. s2[1 + 1] = s[1] BY <1>1, <2>1, <5>1
        <5>3. i # Len(s2) BY <1>1, <2>1, <3>2
        <5> QED BY <1>4, <2>1, <5>2, <5>3 DEF KeywordAt, Right
      <4>2. Len(h) # 0 /\ (h[1] = s[1] \/ h[1] = "literal") BY <3>2 DEF Starts
      <4>3. h2[1 + 1] = h[1]
        <5>1. 1 \in 1..Len(h) BY <4>2
        <5> QED BY <1>1, <5>1
      <4> QED BY <1>2, <4>1, <4>2, <4>3
    <3> QED BY <3>1, <3>2
  <2>3. WordAt(h2, 1)
    BY <2>1, <2>2 DEF WordAt
  <2>4. 1 \in 1..Len(h2)
    BY <1>1
  <2> QED BY <2>1, <2>3, <2>4
<1>5. ASSUME NEW i \in 1..Len(s2), KeywordAt(s2, i), ~(i <= n)
      PROVE  \E j \in 1..Len(h2) : WordAt(h2, j) /\ (i = 1 <=> j = 1)
  <2> DEFINE p == i - n
  <2>1. p \in 1..Len(s) /\ n + p = i /\ i # 1
    BY <1>1, <1>5
  <2>a. /\ s[p] = "WHERE" /\ (i = Len(s2) <=> p = Len(s))
        /\ p # Len(s) => p + 1 \in 1..Len(s) /\ n + (p + 1) = i + 1
        /\ p # 1 => p - 1 \in 1..Len(s) /\ n + (p - 1) = i - 1
        /\ p = 1 => i - 1 = n
    <3>1. s[p] = "WHERE"
      <4>1. s2[i] = "WHERE" BY <1>5 DEF KeywordAt
      <4> HIDE DEF p
      <4> QED BY <1>1, <2>1, <4>1
    <3>2. /\ i = Len(s2) <=> p = Len(s)
          /\ p # Len(s) => p + 1 \in 1..Len(s) /\ n + (p + 1) = i + 1
      <4>1. Len(s2) = n + Len(s) BY <1>1
      <4>2. i \in Int /\ n \in Int BY <4>1
      <4> QED BY <2>1, <4>1, <4>2
    <3>3. /\ p # 1 => p - 1 \in 1..Len(s) /\ n + (p - 1) = i - 1
          /\ p = 1 => i - 1 = n
      <4>1. Len(s2) = n + Len(s) BY <1>1
      <4>2. i \in Int /\ n \in Int BY <4>1
      <4> QED BY <2>1, <4>1, <4>2
    <3> QED BY <3>1, <3>2, <3>3
  <2> HIDE DEF p
  <2>2. KeywordAt(s, p)
    <3>1. Right(s, p)
      <4>1. ASSUME p # Len(s) PROVE s2[i + 1] = s[p + 1]
        <5>1. p + 1 \in 1..Len(s) /\ n + (p + 1) = i + 1 BY <2>a, <4>1, Zenon
        <5>2. s2[n + (p + 1)] = s[p + 1] BY ONLY <1>1, <5>1, Zenon
        <5> QED BY <5>1, <5>2, Zenon
      <4> QED BY <1>5, <2>a, <4>1 DEF KeywordAt, Right
    <3>2. p # 1 => s[p - 1] \in Delimiters
      <4>1. p # 1 => s2[i - 1] = s[p - 1] BY <1>1, <2>a
      <4> QED BY <1>5, <2>1, <4>1 DEF KeywordAt
    <3> QED BY <2>a, <3>1, <3>2 DEF KeywordAt
  <2>3. PICK j \in 1..Len(h) : WordAt(h, j) /\ (p = 1 <=> j = 1)
    BY <2>1, <2>2 DEF Matched
  <2>4. h2[1 + j] = "WHERE" /\ 1 + j \in 1..Len(h2) /\ 1 + j # 1
    BY <1>1, <2>3 DEF WordAt
  <2>5. 1 + j = Len(h2) \/ ~IsWord(h2[(1 + j) + 1])
    <3>1. CASE j = Len(h) BY <1>1, <3>1
    <3>2. CASE j # Len(h)
      <4>1. j + 1 \in 1..Len(h) /\ 1 + (j + 1) = (1 + j) + 1 BY <3>2
      <4>2. h2[(1 + j) + 1] = h[j + 1] BY <1>1, <4>1
      <4> QED BY <2>3, <3>2, <4>2 DEF WordAt
    <3> QED BY <3>1, <3>2
  <2>6. ~IsWord(h2[(1 + j) - 1])
    <3>1. CASE j = 1
      <4>1. s2[n] \in Delimiters
        BY <1>5, <2>1, <2>3, <2>a, <3>1 DEF KeywordAt
      <4>2. x \in Delimiters \cup {"literal"}
        BY <1>7, <4>1
      <4>3. (1 + j) - 1 = 1 BY <3>1
      <4> QED BY <1>2, <4>2, <4>3
    <3>2. CASE j # 1
      <4>1. j - 1 \in 1..Len(h) /\ 1 + (j - 1) = (1 + j) - 1 BY <3>2
      <4>2. h2[(1 + j) - 1] = h[j - 1] BY <1>1, <4>1
      <4> QED BY <2>3, <3>2, <4>2 DEF WordAt
    <3> QED BY <3>1, <3>2
  <2>7. WordAt(h2, 1 + j)
    BY <2>4, <2>5, <2>6 DEF WordAt
  <2> QED BY <2>1, <2>4, <2>7
<1>6. Matched(s2, h2)
  BY <1>4, <1>5, Zenon DEF Matched
<1> QED BY <1>3, <1>6

-----------------------------------------------------------------------------
\* Statements, and pieces of them.

\* A keyword in a trimmed statement is one in what it was trimmed of.
LEMMA TrimmedKeyword ==
  ASSUME NEW T, NEW v \in Seq(T), HasWHERE(Trim(v))
  PROVE  \E i \in 1..Len(StripQuoted(v)) : KeywordAt(StripQuoted(v), i)
<1> DEFINE t == Trim(v)
           s == StripQuoted(v)
           st == StripQuoted(t)
<1>0. Len(v) \in Nat /\ t \in Seq(T) /\ Len(t) \in Nat /\ Len(s) = Len(v) /\ Len(st) = Len(t)
  <2>1. t \in Seq(T) BY TrimType
  <2> HIDE DEF t
  <2> QED BY <2>1, LenProperties, StripType
<1>1. PICK i \in 1..Len(t) : /\ st[i] = "WHERE"
                             /\ i = 1 \/ st[i - 1] \in Delimiters
                             /\ i = Len(t) \/ st[i + 1] \in Delimiters
  <2>1. DOMAIN st = 1..Len(t) BY <1>0, StripType
  <2> HIDE DEF t
  <2> QED BY <1>0, <2>1 DEF HasWHERE, MatchKeyword, t
<1>2. ~Blank(v)
  <2> SUFFICES ASSUME Blank(v) PROVE FALSE
    OBVIOUS
  <2>1. t = <<>> BY TrimIs
  <2> HIDE DEF t
  <2>2. Len(t) = 0 BY <2>1
  <2> QED BY <1>1, <2>2
<1>3. PICK a \in 1..Len(v), b \in 1..Len(v) :
        /\ a <= b /\ Len(t) = (b - a) + 1 /\ Within(v, a - 1, t)
        /\ \A x \in 1..Len(v) : x < a \/ x > b => v[x] \in Space
  BY <1>2, TrimIs
<1> DEFINE n == a - 1
<1> HIDE DEF t
<1>4. \A x \in 0..n : Open(v)[x] = "none"
  <2> DEFINE S == {x \in 0..n : Open(v)[x] = "none"}
  <2>1. 0 \in S
    <3>1. 0 \in 0..n BY <1>0
    <3> QED BY <1>0, <3>1, OpenStep
  <2>2. \A x \in 0..(n - 1) : x \in S => x + 1 \in S
    <3> TAKE x \in 0..(n - 1)
    <3>1. x + 1 \in 0..n /\ x + 1 \in 1..Len(v) /\ x + 1 < a /\ (x + 1) - 1 = x BY <1>0
    <3> HIDE DEF n
    <3>2. Open(v)[x + 1] = OpenNext(v[x + 1], Open(v)[(x + 1) - 1]) BY <1>0, <3>1, OpenMoves
    <3>3. v[x + 1] \in Space BY <1>3, <3>1
    <3>4. OpenNext(v[x + 1], "none") = "none" BY <3>3 DEF OpenNext, Space
    <3> QED BY <3>1, <3>2, <3>4
  <2>3. \A x \in 0..n : x \in S
    <3>1. 0 \in Int /\ n \in Int BY <1>0
    <3> HIDE DEF S, n
    <3> QED BY ONLY <3>1, <2>1, <2>2, Upward, Zenon
  <2> HIDE DEF n
  <2> QED BY <2>3
<1>5. /\ Len(st) = Len(t) /\ n \in Nat /\ n + Len(t) = b
      /\ \A m \in 1..Len(t) : s[n + m] = st[m]
  <2>1. n \in Nat /\ n \in 0..n /\ n + Len(t) = b BY <1>0, <1>3
  <2> HIDE DEF n
  <2>2. Open(v)[n] = "none" BY <1>4, <2>1
  <2>3. Within(v, n, t) BY <1>3 DEF n
  <2>4. Within(s, n, st) BY <1>0, <2>1, <2>2, <2>3, StripGoesOn
  <2> HIDE DEF s, st
  <2> QED BY <1>0, <2>1, <2>4 DEF Within
<1>6. \A x \in 1..Len(v) : v[x] \in Space => s[x] \in Delimiters
  <2> TAKE x \in 1..Len(v)
  <2>1. s[x] \in {v[x], " "} BY DEF StripQuoted
  <2> HIDE DEF s
  <2> QED BY <2>1 DEF Delimiters, Space
<1> DEFINE p == n + i
<1> HIDE DEF s, st
<1>7. /\ p # 1 /\ i = 1 => p - 1 \in 1..Len(v) /\ p - 1 < a
      /\ p # Len(s) /\ i = Len(t) => p + 1 \in 1..Len(v) /\ p + 1 > b
      /\ i # 1 => i - 1 \in 1..Len(t) /\ n + (i - 1) = p - 1
      /\ i # Len(t) => i + 1 \in 1..Len(t) /\ n + (i + 1) = p + 1
  <2>1. /\ i \in 1..Len(t) /\ Len(t) \in Nat /\ n \in Nat /\ n + Len(t) = b /\ n + 1 = a
        /\ b \in 1..Len(v) /\ Len(v) \in Nat /\ Len(s) = Len(v)
    BY <1>0, <1>3, <1>5
  <2> HIDE DEF n
  <2> QED BY ONLY <2>1
<1>a. p \in 1..Len(s)
  BY <1>0, <1>3, <1>5
<1> HIDE DEF p
<1>8. s[p] = "WHERE"
  BY <1>1, <1>5 DEF p
<1>9. p # 1 => s[p - 1] \in Delimiters
  <2>1. CASE i = 1 /\ p # 1
    <3>1. p - 1 \in 1..Len(v) /\ p - 1 < a BY <1>a, <1>7, <2>1
    <3> QED BY <1>3, <1>6, <3>1
  <2>2. CASE i # 1
    <3>1. s[p - 1] = st[i - 1] BY <1>5, <1>7, <2>2
    <3> QED BY <1>1, <2>2, <3>1
  <2> QED BY <2>1, <2>2
<1>10. p = Len(s) \/ s[p + 1] \in Delimiters
  <2>1. CASE i = Len(t) /\ p # Len(s)
    <3>1. p + 1 \in 1..Len(v) /\ p + 1 > b BY <1>7, <2>1
    <3> QED BY <1>3, <1>6, <3>1
  <2>2. CASE i # Len(t)
    <3>1. s[p + 1] = st[i + 1] BY <1>5, <1>7, <2>2
    <3> QED BY <1>1, <2>2, <3>1
  <2> QED BY <2>1, <2>2
<1>11. KeywordAt(s, p)
  BY <1>8, <1>9, <1>10 DEF KeywordAt, Right
<1> QED BY <1>a, <1>11 DEF s

\* A word of a statement is one of what trimming leaves.
LEMMA TrimmedWord ==
  ASSUME NEW T, NEW h \in Seq(T), NEW j \in 1..Len(h), WordAt(h, j)
  PROVE  HasWord(Trim(h), "WHERE")
<1> DEFINE t == Trim(h)
<1>0. Len(h) \in Nat /\ t \in Seq(T) /\ Len(t) \in Nat /\ DOMAIN t = 1..Len(t)
  <2>1. t \in Seq(T) BY TrimType
  <2> HIDE DEF t
  <2> QED BY <2>1, LenProperties
<1>1. h[j] = "WHERE" /\ h[j] \notin Space
  BY DEF WordAt, Space
<1>2. ~Blank(h)
  BY <1>1 DEF Blank
<1>3. PICK a \in 1..Len(h), b \in 1..Len(h) :
        /\ a <= b /\ Len(t) = (b - a) + 1 /\ Within(h, a - 1, t)
        /\ \A x \in 1..Len(h) : x < a \/ x > b => h[x] \in Space
  BY <1>2, TrimIs
<1> HIDE DEF t
<1>4. a <= j /\ j <= b
  BY <1>0, <1>1, <1>3
<1> DEFINE n == a - 1
           p == j - n
<1>5. /\ p \in 1..Len(t) /\ n + p = j
      /\ p # 1 => p - 1 \in 1..Len(t) /\ n + (p - 1) = j - 1 /\ j # 1
      /\ p # Len(t) => p + 1 \in 1..Len(t) /\ n + (p + 1) = j + 1 /\ j # Len(h)
  BY <1>0, <1>3, <1>4
<1>6. \A m \in 1..Len(t) : h[n + m] = t[m]
  BY <1>3 DEF Within
<1> HIDE DEF n, p
<1>7. t[p] = "WHERE"
  BY <1>1, <1>5, <1>6
<1>8. p = 1 \/ ~IsWord(t[p - 1])
  <2>1. p # 1 => t[p - 1] = h[j - 1] BY <1>5, <1>6
  <2> QED BY <1>5, <2>1 DEF WordAt
<1>9. p = Len(t) \/ ~IsWord(t[p + 1])
  <2>1. p # Len(t) => t[p + 1] = h[j + 1] BY <1>5, <1>6
  <2> QED BY <1>5, <2>1 DEF WordAt
<1>10. HasWord(t, "WHERE")
  BY <1>0, <1>5, <1>7, <1>8, <1>9 DEF HasWord
<1> QED BY <1>10 DEF t

\* v is a piece of a text, h the same with its literals hidden.
Hides(v, h) ==
  /\ Starts(StripQuoted(v), h) /\ Matched(StripQuoted(v), h)
  /\ Blank(v) <=> Blank(h)

\* The guard is right about v if h, the same code, has the keyword it finds.
Covers(v, h) == HasWHERE(v) => HasWord(h, "WHERE")

\* Trimming both leaves the guard right.
LEMMA TrimmedCovers ==
  ASSUME NEW T, NEW v \in Seq(T), NEW U, NEW h \in Seq(U), Hides(v, h)
  PROVE  Covers(Trim(v), Trim(h))
<1> SUFFICES ASSUME HasWHERE(Trim(v)) PROVE HasWord(Trim(h), "WHERE")
  BY DEF Covers
<1>1. PICK i \in 1..Len(StripQuoted(v)) : KeywordAt(StripQuoted(v), i)
  BY TrimmedKeyword
<1>2. PICK j \in 1..Len(h) : WordAt(h, j)
  BY <1>1 DEF Hides, Matched
<1> QED BY <1>2, TrimmedWord

\* The empty piece hides nothing, and what hides goes on with each lexeme before it.
LEMMA HidesNothing == Hides(<<>>, <<>>)
<1> DEFINE e == <<>>
<1>1. e \in Seq({}) /\ Len(e) = 0
  OBVIOUS
<1> HIDE DEF e
<1>2. Len(StripQuoted(e)) = 0
  BY <1>1, StripType
<1>3. Starts(StripQuoted(e), e)
  BY <1>1, <1>2 DEF Starts
<1>4. Matched(StripQuoted(e), e)
  BY <1>2 DEF Matched
<1>5. Hides(e, e)
  BY <1>3, <1>4 DEF Hides
<1> QED BY <1>5 DEF e

\* A token before a text, and whether it is blank.
LEMMA BlankGoesOn ==
  ASSUME NEW w, NEW v, Len(v) \in Nat, After(w, 1, v)
  PROVE  Blank(w) <=> w[1] \in Space /\ Blank(v)
<1>1. Len(w) = 1 + Len(v) /\ \A m \in 1..Len(v) : w[1 + m] = v[m]
  BY DEF After
<1>2. ASSUME Blank(w) PROVE w[1] \in Space /\ Blank(v)
  <2>1. 1 \in 1..Len(w) /\ \A m \in 1..Len(v) : 1 + m \in 1..Len(w) BY <1>1
  <2> QED BY <1>1, <1>2, <2>1 DEF Blank
<1>3. ASSUME w[1] \in Space, Blank(v) PROVE Blank(w)
  <2> SUFFICES ASSUME NEW i \in 1..Len(w) PROVE w[i] \in Space
    BY DEF Blank
  <2>1. CASE i = 1 BY <1>3, <2>1
  <2>2. CASE i # 1
    <3>1. i - 1 \in 1..Len(v) /\ 1 + (i - 1) = i BY <1>1, <2>2
    <3>2. w[i] = v[i - 1] BY <1>1, <3>1
    <3> QED BY <1>3, <3>1, <3>2 DEF Blank
  <2> QED BY <2>1, <2>2
<1> QED BY <1>2, <1>3

\* One element before a sequence.
LEMMA OneAfter ==
  ASSUME NEW U, NEW x \in U, NEW h \in Seq(U)
  PROVE  After(<<x>> \o h, 1, h) /\ (<<x>> \o h)[1] = x /\ <<x>> \o h \in Seq(U)
<1> DEFINE l == <<x>>
<1>1. l \in Seq(U) /\ Len(l) = 1 /\ l[1] = x
  OBVIOUS
<1> HIDE DEF l
<1> DEFINE w == l \o h
<1>2. After(w, Len(l), h) /\ \A m \in 1..Len(l) : w[m] = l[m]
  BY <1>1, ConcatAfter
<1>3. w \in Seq(U)
  BY <1>1, ConcatProperties
<1> HIDE DEF w
<1>4. After(w, 1, h) /\ w[1] = x /\ w \in Seq(U)
  BY <1>1, <1>2, <1>3
<1> QED BY <1>4 DEF w, l

LEMMA HidesToken ==
  ASSUME NEW T, NEW v \in Seq(T), NEW U, NEW h \in Seq(U), NEW c \in T, c \in U, c \notin Quotes,
         Hides(v, h)
  PROVE  Hides(<<c>> \o v, <<c>> \o h)
<1> DEFINE v2 == <<c>> \o v
           h2 == <<c>> \o h
           s == StripQuoted(v)
           s2 == StripQuoted(v2)
<1>1. After(v2, 1, v) /\ v2[1] = c /\ After(h2, 1, h) /\ h2[1] = c
  BY OneAfter
<1>2. After(s2, 1, s) /\ s2[1] = c
  BY StripsToken
<1>3. Len(s) \in Nat /\ Len(h) \in Nat /\ Len(v) \in Nat
  BY LenProperties, StripType
<1>4. Starts(s, h) /\ Matched(s, h)
  BY DEF Hides
<1> HIDE DEF s, s2, v2, h2
<1>5. Begins(s2, 1, c)
  BY <1>2, Zenon DEF Begins
<1>6. Matched(s2, h2) /\ Starts(s2, h2)
  BY <1>1, <1>2, <1>3, <1>4, <1>5, MatchedGoesOn
<1>7. Blank(v2) <=> Blank(h2)
  <2>1. Blank(v2) <=> c \in Space /\ Blank(v) BY <1>1, <1>3, BlankGoesOn
  <2>2. Blank(h2) <=> c \in Space /\ Blank(h) BY <1>1, <1>3, BlankGoesOn
  <2> QED BY <2>1, <2>2 DEF Hides
<1>8. Hides(v2, h2)
  BY <1>6, <1>7 DEF Hides, s2
<1> QED BY <1>8 DEF v2, h2

LEMMA HidesLiteral ==
  ASSUME NEW T, NEW sql \in Seq(T), NEW i \in 1..Len(sql),
         sql[i] \in Quotes, sql[i] # "backtick",
         NEW l, l = SubSeq(sql, i, LexemeEnd(sql, i)),
         NEW v \in Seq(T), LexemeEnd(sql, i) = Len(sql) => v = <<>>,
         NEW U, "literal" \in U, NEW h \in Seq(U), Hides(v, h)
  PROVE  Hides(l \o v, <<"literal">> \o h)
<1> DEFINE v2 == l \o v
           h2 == <<"literal">> \o h
           s == StripQuoted(v)
           s2 == StripQuoted(v2)
           n == Len(l)
<1>1. /\ n \in Nat \ {0} /\ \A m \in 1..n : s2[m] = " "
      /\ After(s2, n, s)
  <2>1. Blanks(l, v) BY StripsQuoted, Zenon
  <2> QED BY <2>1, Zenon DEF Blanks
<1>2. After(h2, 1, h) /\ h2[1] = "literal"
  BY OneAfter
<1>3. Len(s) \in Nat /\ Len(h) \in Nat /\ Len(v) \in Nat
  BY LenProperties, StripType
<1>4. Starts(s, h) /\ Matched(s, h)
  BY DEF Hides
<1>5. ~Blank(v2)
  <2>1. l \in Seq(T) BY LexemeType
  <2>2. v2[1] = l[1] /\ 1 \in 1..Len(v2)
    <3>1. After(v2, n, v) /\ \A m \in 1..n : v2[m] = l[m] BY <2>1, ConcatAfter
    <3>2. n \in Nat \ {0} BY <1>1
    <3> HIDE DEF v2, n
    <3>3. 1 \in 1..n BY <3>2
    <3>4. v2[1] = l[1] BY <3>1, <3>3
    <3>5. n + Len(v) = Len(v2) BY <3>1, Zenon DEF After
    <3>6. Len(v) \in Nat BY <1>3
    <3>7. 1 \in 1..Len(v2) BY ONLY <3>2, <3>5, <3>6
    <3> QED BY <3>4, <3>7
  <2>3. l[1] = sql[i]
    <3> DEFINE e == LexemeEnd(sql, i)
    <3>1. Len(sql) \in Nat BY LenProperties
    <3>2. e \in i..Len(sql) BY <3>1, LexemeIsWithin
    <3> HIDE DEF e
    <3>3. \A m \in i..e : sql[m] \in T BY <3>1, <3>2, ElementOfSeq
    <3>4. i \in Int /\ e \in Int /\ 1 \in 1..((e - i) + 1) /\ i + 1 - 1 = i BY <3>1, <3>2
    <3>5. SubSeq(sql, i, e)[1] = sql[i + 1 - 1] BY <3>3, <3>4, SubSeqProperties
    <3> QED BY <3>4, <3>5 DEF e
  <2>4. sql[i] \notin Space BY DEF Quotes, Space
  <2> HIDE DEF v2
  <2> QED BY <2>2, <2>3, <2>4 DEF Blank
<1> HIDE DEF s, s2, v2, h2, n
<1>6. ~Blank(h2)
  <2>1. "literal" \notin Space BY DEF Space
  <2> QED BY <1>2, <1>3, <2>1, BlankGoesOn
<1>7. Begins(s2, n, "literal")
  BY <1>1, Zenon DEF Begins
<1>8. Matched(s2, h2) /\ Starts(s2, h2)
  BY <1>1, <1>2, <1>3, <1>4, <1>7, MatchedGoesOn
<1>9. Hides(v2, h2)
  BY <1>5, <1>6, <1>8 DEF Hides, s2
<1> QED BY <1>9 DEF v2, h2

-----------------------------------------------------------------------------
\* The two readings of a text.

\* Two lists of statements, the second with its literals hidden.
ListCovers(d, c) == Len(d) = Len(c) /\ \A k \in 1..Len(d) : Covers(d[k], c[k])

Agree(r, q) == Hides(r.piece, q.piece) /\ ListCovers(r.later, q.later)

\* At a semicolon both readings make a statement of what is before it, or neither.
LEMMA CutCovers ==
  ASSUME NEW T, NEW r \in Pieces(T), NEW U, NEW q \in Pieces(U), Agree(r, q)
  PROVE  ListCovers(Cut(r), Cut(q))
<1> DEFINE v == r.piece
           h == q.piece
           d == r.later
           c == q.later
<1>1. v \in Seq(T) /\ h \in Seq(U) /\ d \in Seq(Seq(T)) /\ c \in Seq(Seq(U))
  BY DEF Pieces
<1>2. Hides(v, h) /\ ListCovers(d, c)
  BY DEF Agree
<1>3. /\ Cut(r) = (IF Trim(v) = <<>> THEN d ELSE <<Trim(v)>> \o d)
      /\ Cut(q) = (IF Trim(h) = <<>> THEN c ELSE <<Trim(h)>> \o c)
  BY DEF Cut
<1> HIDE DEF v, h, d, c
<1>4. Trim(v) = <<>> <=> Trim(h) = <<>>
  <2>1. Trim(v) = <<>> <=> Blank(v) BY <1>1, TrimIs
  <2>2. Trim(h) = <<>> <=> Blank(h) BY <1>1, TrimIs
  <2> QED BY <1>2, <2>1, <2>2 DEF Hides
<1>5. CASE Trim(v) = <<>>
  BY <1>2, <1>3, <1>4, <1>5
<1>6. CASE Trim(v) # <<>>
  <2> DEFINE a == Trim(v)
             b == Trim(h)
             d2 == <<a>> \o d
             c2 == <<b>> \o c
  <2>1. Covers(a, b) BY <1>1, <1>2, TrimmedCovers
  <2>2. a \in Seq(T) /\ b \in Seq(U) BY <1>1, TrimType
  <2> HIDE DEF a, b
  <2>3. After(d2, 1, d) /\ d2[1] = a BY <1>1, <2>2, OneAfter
  <2>4. After(c2, 1, c) /\ c2[1] = b BY <1>1, <2>2, OneAfter
  <2> HIDE DEF d2, c2
  <2>5. Len(d) \in Nat /\ Len(c) \in Nat BY <1>1, LenProperties
  <2>6. Len(d2) = 1 + Len(d) /\ Len(c2) = 1 + Len(c) /\ Len(d) = Len(c)
    BY <1>2, <2>3, <2>4 DEF After, ListCovers
  <2>7. ASSUME NEW k \in 1..Len(d2) PROVE Covers(d2[k], c2[k])
    <3>1. CASE k = 1 BY <2>1, <2>3, <2>4, <3>1
    <3>2. CASE k # 1
      <4>1. k - 1 \in 1..Len(d) /\ k - 1 \in 1..Len(c) /\ 1 + (k - 1) = k BY <2>5, <2>6, <3>2
      <4>2. d2[k] = d[k - 1] /\ c2[k] = c[k - 1] BY <2>3, <2>4, <4>1 DEF After
      <4>3. Covers(d[k - 1], c[k - 1]) BY <1>2, <4>1 DEF ListCovers
      <4> QED BY <4>2, <4>3
    <3> QED BY <3>1, <3>2
  <2>8. ListCovers(d2, c2) BY <2>6, <2>7 DEF ListCovers
  <2>9. Cut(r) = d2 /\ Cut(q) = c2 BY <1>3, <1>4, <1>6 DEF d2, c2, a, b
  <2> QED BY <2>8, <2>9
<1> QED BY <1>5, <1>6

\* The two readings agree at the end of the text, and with each lexeme before it.
LEMMA NothingAgrees == Agree(Nothing, Nothing)
<1> DEFINE e == Nothing.later
<1>1. Nothing.piece = <<>> /\ e = <<>>
  BY DEF Nothing
<1>2. Len(e) = 0
  BY <1>1
<1> HIDE DEF e
<1>3. ListCovers(e, e)
  BY <1>2 DEF ListCovers
<1>4. Hides(Nothing.piece, Nothing.piece)
  BY <1>1, HidesNothing
<1> QED BY <1>3, <1>4 DEF Agree, e

LEMMA BeforeAgrees ==
  ASSUME NEW T, NEW r \in Pieces(T), NEW U, NEW q \in Pieces(U), Agree(r, q), NEW l, NEW g,
         Hides(l \o r.piece, g \o q.piece)
  PROVE  Agree(Before(l, r), Before(g, q))
<1>1. Before(l, r).piece = l \o r.piece /\ Before(l, r).later = r.later
  BY DEF Before, Pieces
<1>2. Before(g, q).piece = g \o q.piece /\ Before(g, q).later = q.later
  BY DEF Before, Pieces
<1> QED BY <1>1, <1>2 DEF Agree

\* A lexeme of one token.
LEMMA SubSeqOfOne ==
  ASSUME NEW T, NEW sql \in Seq(T), NEW i \in 1..Len(sql)
  PROVE  SubSeq(sql, i, i) = <<sql[i]>>
<1>1. Len(sql) \in Nat /\ i \in Int
  BY LenProperties
<1>2. SubSeq(sql, i, i) = SubSeq(sql, i, i - 1) \o <<sql[i]>>
  BY <1>1, SubSeqRecursiveSecond
<1>3. SubSeq(sql, i, i - 1) = <<>>
  BY <1>1
<1>4. sql[i] \in T
  BY <1>1, ElementOfSeq
<1>5. \A c \in T : <<>> \o <<c>> = <<c>>
  OBVIOUS
<1> QED BY <1>2, <1>3, <1>4, <1>5

\* What the guard finds in a statement that SplitStatements has cut out, the code
\* of that statement has.
THEOREM GuardSeesTheCode ==
  ASSUME NEW T, NEW sql \in Seq(T), \A i \in 1..Len(sql) : sql[i] # "backtick",
         NEW k \in 1..Len(SplitStatements(sql)), HasWHERE(SplitStatements(sql)[k])
  PROVE  HasWord(CodeOf(sql)[k], "WHERE")
<1> DEFINE U == T \cup {"literal"}
           f == From(sql, TRUE)
           g == From(sql, FALSE)
           N == Len(sql) + 1
           S == {i \in 1..N : Agree(f[i], g[i])}
<1>0. Len(sql) \in Nat
  BY LenProperties
<1>f. \A i \in 1..N : f[i] \in Pieces(T)
  <2>1. T = T \cup (IF TRUE THEN {} ELSE {"literal"}) OBVIOUS
  <2> QED BY <2>1, FromType
<1>g. \A i \in 1..N : g[i] \in Pieces(U)
  <2>1. U = T \cup (IF FALSE THEN {} ELSE {"literal"}) OBVIOUS
  <2> HIDE DEF U
  <2> QED BY <2>1, FromType
<1>1. N \in S
  <2>1. f[N] = Nothing /\ g[N] = Nothing BY <1>0, FromStep
  <2>2. N \in 1..N BY <1>0
  <2> HIDE DEF f, g, N
  <2> QED BY <2>1, <2>2, NothingAgrees
<1>2. \A i \in 1..(N - 1) : (\A m \in (i + 1)..N : m \in S) => i \in S
  <2> SUFFICES ASSUME NEW i \in 1..(N - 1), \A m \in (i + 1)..N : m \in S
               PROVE  Agree(f[i], g[i])
    <3>1. \A i \in 1..(N - 1) : i \in 1..N BY <1>0
    <3> HIDE DEF N, f, g
    <3> QED BY <3>1
  <2> DEFINE e == LexemeEnd(sql, i)
             r == f[e + 1]
             q == g[e + 1]
             l == SubSeq(sql, i, e)
  <2>1. i \in 1..Len(sql) /\ e \in i..Len(sql) /\ e + 1 \in (i + 1)..N /\ e + 1 \in 1..N
    <3>1. i \in 1..Len(sql) BY <1>0
    <3> HIDE DEF e
    <3>2. e \in i..Len(sql) BY <1>0, <3>1, LexemeIsWithin DEF e
    <3> QED BY <1>0, <3>1, <3>2
  <2>2. r \in Pieces(T) /\ q \in Pieces(U)
    <3> HIDE DEF f, g, N, U, e
    <3> QED BY <1>f, <1>g, <2>1
  <2>3. f[i] = Said(sql, i, r, TRUE) /\ g[i] = Said(sql, i, q, FALSE) BY <1>0, <2>1, FromStep
  <2>4. Agree(r, q)
    <3> HIDE DEF f, g, N, e
    <3> QED BY <2>1
  <2>5. e = Len(sql) => r = Nothing
    <3>1. f[N] = Nothing BY <1>0, FromStep
    <3> QED BY <3>1
  <2> HIDE DEF f, g, r, q, S, N, U
  <2>6. CASE IsComment(sql, i)
    <3>1. f[i] = r /\ g[i] = q BY <2>3, <2>6, SaidComment
    <3> QED BY <2>4, <3>1
  <2>7. CASE IsCut(sql, i)
    <3> DEFINE d == Cut(r)
               c == Cut(q)
    <3>1. f[i] = [piece |-> <<>>, later |-> d] /\ g[i] = [piece |-> <<>>, later |-> c]
      BY <2>3, <2>7, SaidCut
    <3>2. ListCovers(d, c) BY <2>2, <2>4, CutCovers
    <3> HIDE DEF d, c
    <3>3. f[i].piece = <<>> /\ f[i].later = d /\ g[i].piece = <<>> /\ g[i].later = c BY <3>1
    <3> QED BY <3>2, <3>3, HidesNothing DEF Agree
  <2>8. CASE ~IsComment(sql, i) /\ ~IsCut(sql, i)
    <3>1. f[i] = Before(Lexeme(sql, i, TRUE), r) /\ g[i] = Before(Lexeme(sql, i, FALSE), q)
      BY <2>3, <2>8, SaidLexeme
    <3>2. Lexeme(sql, i, TRUE) = l BY Zenon DEF Lexeme
    <3>3. r.piece \in Seq(T) /\ q.piece \in Seq(U) BY <2>2 DEF Pieces
    <3>4. Hides(r.piece, q.piece) BY <2>4 DEF Agree
    <3>5. Hides(l \o r.piece, Lexeme(sql, i, FALSE) \o q.piece)
      <4>1. CASE sql[i] \in Quotes
        <5>1. Lexeme(sql, i, FALSE) = <<"literal">> BY <4>1, Zenon DEF Lexeme
        <5>2. sql[i] # "backtick" BY <2>1
        <5>3. e = Len(sql) => r.piece = <<>> BY <2>5 DEF Nothing
        <5>4. "literal" \in U BY DEF U
        <5> DEFINE v == r.piece
                   h == q.piece
        <5>5. v \in Seq(T) /\ h \in Seq(U) /\ Hides(v, h) /\ (e = Len(sql) => v = <<>>)
          BY <3>3, <3>4, <5>3
        <5> HIDE DEF v, h
        <5>6. Hides(l \o v, <<"literal">> \o h) BY <2>1, <4>1, <5>2, <5>4, <5>5, HidesLiteral
        <5> QED BY <5>1, <5>6 DEF v, h
      <4>2. CASE sql[i] \notin Quotes
        <5>1. e = i BY <1>0, <2>1, <2>8, <4>2, OtherEnd
        <5>2. sql[i] \in T /\ sql[i] \in U BY <1>0, <2>1, ElementOfSeq DEF U
        <5>3. l = <<sql[i]>> BY <2>1, <5>1, SubSeqOfOne
        <5>4. Lexeme(sql, i, FALSE) = l BY <4>2, Zenon DEF Lexeme
        <5>5. Hides(<<sql[i]>> \o r.piece, <<sql[i]>> \o q.piece)
          BY <3>3, <3>4, <4>2, <5>2, HidesToken
        <5> QED BY <5>3, <5>4, <5>5
      <4> QED BY <4>1, <4>2
    <3>6. Agree(Before(l, r), Before(Lexeme(sql, i, FALSE), q))
      BY <2>2, <2>4, <3>5, BeforeAgrees
    <3> QED BY <3>1, <3>2, <3>6
  <2> QED BY <2>6, <2>7, <2>8
<1>3. \A i \in 1..N : i \in S
  <2>1. 1 \in Int /\ N \in Int BY <1>0
  <2> HIDE DEF S, N
  <2> QED BY ONLY <2>1, <1>1, <1>2, Downward, Zenon
<1>4. ListCovers(Cut(f[1]), Cut(g[1]))
  <2>1. 1 \in 1..N BY <1>0
  <2> HIDE DEF f, g, N, U
  <2>2. Agree(f[1], g[1]) BY <1>3, <2>1
  <2>3. f[1] \in Pieces(T) /\ g[1] \in Pieces(U) BY <1>f, <1>g, <2>1
  <2> QED BY <2>2, <2>3, CutCovers
<1>5. SplitStatements(sql) = Cut(f[1]) /\ CodeOf(sql) = Cut(g[1])
  BY SplitIsWhole DEF WholeStatements, CodeOf
<1> HIDE DEF f, g
<1>6. Covers(SplitStatements(sql)[k], CodeOf(sql)[k])
  BY <1>4, <1>5 DEF ListCovers
<1> QED BY <1>6 DEF Covers

-----------------------------------------------------------------------------
\* The first word of a statement, which IsDangerousOp looks at.

\* v is a piece of a text, h the same with its literals hidden: up to the first
\* literal they are one.
Fronts(v, h) ==
  \/ v = h
  \/ \E n \in Nat :
       /\ n < Len(v) /\ n < Len(h) /\ \A m \in 1..n : v[m] = h[m]
       /\ v[n + 1] \in Quotes /\ h[n + 1] = "literal"

\* IsDangerousOp tells of v if h is the code of a DROP or TRUNCATE.
Warns(v, h) == Drops(h) /\ SetApart(h) => IsDangerousOp(v)

LEMMA FrontsToken ==
  ASSUME NEW T, NEW v \in Seq(T), NEW U, NEW h \in Seq(U), NEW c \in T, c \in U, Fronts(v, h)
  PROVE  Fronts(<<c>> \o v, <<c>> \o h)
<1> DEFINE v2 == <<c>> \o v
           h2 == <<c>> \o h
<1>1. After(v2, 1, v) /\ v2[1] = c /\ After(h2, 1, h) /\ h2[1] = c
  BY OneAfter
<1>2. CASE v = h
  BY <1>2 DEF Fronts
<1>3. CASE v # h
  <2>1. PICK n \in Nat :
          /\ n < Len(v) /\ n < Len(h) /\ \A m \in 1..n : v[m] = h[m]
          /\ v[n + 1] \in Quotes /\ h[n + 1] = "literal"
    BY <1>3 DEF Fronts
  <2>2. Len(v) \in Nat /\ Len(h) \in Nat
    BY LenProperties
  <2> HIDE DEF v2, h2
  <2>3. n + 1 < Len(v2) /\ n + 1 < Len(h2) /\ n + 1 \in 1..Len(v) /\ n + 1 \in 1..Len(h)
    BY <1>1, <2>1, <2>2 DEF After
  <2>4. v2[(n + 1) + 1] = v[n + 1] /\ h2[(n + 1) + 1] = h[n + 1]
    <3>1. v2[1 + (n + 1)] = v[n + 1] /\ h2[1 + (n + 1)] = h[n + 1] BY <1>1, <2>3 DEF After
    <3> QED BY <3>1
  <2>5. ASSUME NEW m \in 1..(n + 1) PROVE v2[m] = h2[m]
    <3>1. CASE m = 1 BY <1>1, <3>1
    <3>2. CASE m # 1
      <4>1. m - 1 \in 1..n /\ m - 1 \in 1..Len(v) /\ m - 1 \in 1..Len(h) /\ 1 + (m - 1) = m
        BY <2>1, <2>2, <3>2
      <4>2. v2[1 + (m - 1)] = v[m - 1] /\ h2[1 + (m - 1)] = h[m - 1]
        BY <1>1, <4>1 DEF After
      <4> QED BY <2>1, <4>1, <4>2
    <3> QED BY <3>1, <3>2
  <2>6. Fronts(v2, h2)
    <3>1. n + 1 \in Nat OBVIOUS
    <3> QED BY <2>1, <2>3, <2>4, <2>5, <3>1 DEF Fronts
  <2> QED BY <2>6 DEF v2, h2
<1> QED BY <1>2, <1>3

LEMMA FrontsLiteral ==
  ASSUME NEW T, NEW l \in Seq(T), Len(l) # 0, l[1] \in Quotes, NEW v \in Seq(T),
         NEW U, "literal" \in U, NEW h \in Seq(U)
  PROVE  Fronts(l \o v, <<"literal">> \o h)
<1> DEFINE v2 == l \o v
           h2 == <<"literal">> \o h
<1>1. After(h2, 1, h) /\ h2[1] = "literal"
  BY OneAfter
<1>2. After(v2, Len(l), v) /\ \A m \in 1..Len(l) : v2[m] = l[m]
  BY ConcatAfter
<1>3. Len(l) \in Nat /\ Len(v) \in Nat /\ Len(h) \in Nat
  BY LenProperties
<1> HIDE DEF v2, h2
<1>4. 0 < Len(v2) /\ 0 < Len(h2) /\ v2[0 + 1] \in Quotes /\ h2[0 + 1] = "literal"
  <2>1. 1 \in 1..Len(l) BY <1>3
  <2>2. v2[1] = l[1] BY <1>2, <2>1
  <2>3. 0 < Len(v2) /\ 0 < Len(h2) BY <1>1, <1>2, <1>3, <2>1 DEF After
  <2> QED BY <1>1, <2>2, <2>3
<1>5. Fronts(v2, h2)
  BY <1>4 DEF Fronts
<1> QED BY <1>5 DEF v2, h2

\* Neither is blank if there is a literal.
LEMMA FrontsBlank ==
  ASSUME NEW T, NEW v \in Seq(T), NEW U, NEW h \in Seq(U), Fronts(v, h)
  PROVE  Blank(v) <=> Blank(h)
<1>1. CASE v = h
  BY <1>1
<1>2. CASE v # h
  <2>1. PICK n \in Nat :
          n < Len(v) /\ n < Len(h) /\ v[n + 1] \in Quotes /\ h[n + 1] = "literal"
    BY <1>2 DEF Fronts
  <2>2. Len(v) \in Nat /\ Len(h) \in Nat
    BY LenProperties
  <2>3. n + 1 \in 1..Len(v) /\ n + 1 \in 1..Len(h)
    BY <2>1, <2>2
  <2>4. v[n + 1] \notin Space /\ h[n + 1] \notin Space
    BY <2>1 DEF Quotes, Space
  <2> QED BY <2>3, <2>4 DEF Blank
<1> QED BY <1>1, <1>2

\* Trimming both leaves the guard right.
LEMMA TrimmedWarns ==
  ASSUME NEW T, NEW v \in Seq(T), NEW U, NEW h \in Seq(U), Fronts(v, h)
  PROVE  Warns(Trim(v), Trim(h))
<1> DEFINE s == Trim(v)
           t == Trim(h)
<1> SUFFICES ASSUME Drops(t), SetApart(t) PROVE IsDangerousOp(s)
  BY DEF Warns
<1>0. Len(v) \in Nat /\ Len(h) \in Nat /\ Len(s) \in Nat /\ Len(t) \in Nat
  <2>1. s \in Seq(T) /\ t \in Seq(U) BY TrimType
  <2> HIDE DEF s, t
  <2> QED BY <2>1, LenProperties
<1>1. t # <<>> /\ t[1] \in {"DROP", "TRUNCATE"}
      /\ (Len(t) > 1 => t[2] \in {" ", "\n", "("})
  BY DEF Drops, SetApart
<1>2. CASE v = h
  BY <1>1, <1>2 DEF IsDangerousOp, DangerousOps
<1>3. CASE v # h
  <2>1. PICK n \in Nat :
          /\ n < Len(v) /\ n < Len(h) /\ \A m \in 1..n : v[m] = h[m]
          /\ v[n + 1] \in Quotes /\ h[n + 1] = "literal"
    BY <1>3 DEF Fronts
  <2>2. n + 1 \in 1..Len(v) /\ n + 1 \in 1..Len(h)
    BY <1>0, <2>1
  <2>3. v[n + 1] \notin Space /\ h[n + 1] \notin Space
    BY <2>1 DEF Quotes, Space
  <2>4. ~Blank(v) /\ ~Blank(h)
    BY <2>2, <2>3 DEF Blank
  <2>5. PICK a \in 1..Len(h), b \in 1..Len(h) :
          /\ a <= b /\ Len(t) = (b - a) + 1 /\ Within(h, a - 1, t)
          /\ \A x \in 1..Len(h) : x < a \/ x > b => h[x] \in Space
    BY <2>4, TrimIs
  <2>6. PICK c \in 1..Len(v), d \in 1..Len(v) :
          /\ c <= d /\ Len(s) = (d - c) + 1 /\ Within(v, c - 1, s) /\ v[c] \notin Space
          /\ \A x \in 1..Len(v) : x < c \/ x > d => v[x] \in Space
    BY <2>4, TrimIs
  <2> HIDE DEF s, t
  <2>7. a <= n + 1 /\ n + 1 <= b /\ c <= n + 1 /\ n + 1 <= d
    BY <1>0, <2>2, <2>3, <2>5, <2>6
  <2>8. ASSUME NEW m \in 1..Len(t) PROVE h[(a - 1) + m] = t[m]
    BY <2>5 DEF Within
  <2>9. ASSUME NEW m \in 1..Len(s) PROVE v[(c - 1) + m] = s[m]
    BY <2>6 DEF Within
  <2>10. h[a] = t[1] /\ a # n + 1
    <3>1. 1 \in 1..Len(t) /\ (a - 1) + 1 = a BY <1>0, <2>5
    <3>2. h[a] = t[1] BY <2>8, <3>1
    <3> QED BY <1>1, <2>1, <3>2
  <2>11. a \in 1..n /\ v[a] = t[1] /\ v[a] \notin Space
    <3>1. a \in 1..n BY <1>0, <2>5, <2>7, <2>10
    <3>2. v[a] = t[1] BY <2>1, <2>10, <3>1
    <3> QED BY <1>1, <3>1, <3>2 DEF Space
  <2>12. c = a
    <3>1. a \in 1..Len(v) BY <1>0, <2>2, <2>11
    <3>2. c <= a BY <1>0, <2>6, <2>11, <3>1
    <3>3. CASE c < a
      <4>1. c \in 1..n /\ c \in 1..Len(h) BY <1>0, <2>5, <2>11, <3>3
      <4>2. v[c] = h[c] /\ h[c] \in Space BY <2>1, <2>5, <3>3, <4>1
      <4> QED BY <2>6, <4>2
    <3> QED BY <1>0, <3>2, <3>3
  <2>13. Len(t) > 1 /\ h[a + 1] = t[2]
    <3>1. Len(t) > 1 /\ 2 \in 1..Len(t) /\ (a - 1) + 2 = a + 1 BY <1>0, <2>5, <2>7, <2>11
    <3> QED BY <2>8, <3>1
  <2>14. a + 1 \in 1..n /\ v[a + 1] = t[2]
    <3>1. a + 1 # n + 1 BY <1>1, <2>1, <2>13
    <3>2. a + 1 \in 1..n BY <2>11, <3>1
    <3> QED BY <2>1, <2>13, <3>2
  <2>15. s[1] = t[1] /\ s[2] = t[2] /\ s # <<>>
    <3>1. /\ 1 \in 1..Len(s) /\ (c - 1) + 1 = a
          /\ 2 \in 1..Len(s) /\ (c - 1) + 2 = a + 1
      BY <1>0, <2>6, <2>7, <2>11, <2>12
    <3>2. v[(c - 1) + 1] = s[1] /\ v[(c - 1) + 2] = s[2] BY <2>9, <3>1
    <3>3. s # <<>> BY <3>1
    <3> QED BY <2>11, <2>14, <3>1, <3>2, <3>3
  <2> QED BY <1>1, <2>13, <2>15 DEF IsDangerousOp, DangerousOps
<1> QED BY <1>2, <1>3

\* The two readings of a text, again from its end, lexeme by lexeme.
ListWarns(d, c) == Len(d) = Len(c) /\ \A k \in 1..Len(d) : Warns(d[k], c[k])

OneFront(r, q) == Fronts(r.piece, q.piece) /\ ListWarns(r.later, q.later)

LEMMA CutWarns ==
  ASSUME NEW T, NEW r \in Pieces(T), NEW U, NEW q \in Pieces(U), OneFront(r, q)
  PROVE  ListWarns(Cut(r), Cut(q))
<1> DEFINE v == r.piece
           h == q.piece
           d == r.later
           c == q.later
<1>1. v \in Seq(T) /\ h \in Seq(U) /\ d \in Seq(Seq(T)) /\ c \in Seq(Seq(U))
  BY DEF Pieces
<1>2. Fronts(v, h) /\ ListWarns(d, c)
  BY DEF OneFront
<1>3. /\ Cut(r) = (IF Trim(v) = <<>> THEN d ELSE <<Trim(v)>> \o d)
      /\ Cut(q) = (IF Trim(h) = <<>> THEN c ELSE <<Trim(h)>> \o c)
  BY DEF Cut
<1> HIDE DEF v, h, d, c
<1>4. Trim(v) = <<>> <=> Trim(h) = <<>>
  <2>1. Trim(v) = <<>> <=> Blank(v) BY <1>1, TrimIs
  <2>2. Trim(h) = <<>> <=> Blank(h) BY <1>1, TrimIs
  <2> QED BY <1>1, <1>2, <2>1, <2>2, FrontsBlank
<1>5. CASE Trim(v) = <<>>
  BY <1>2, <1>3, <1>4, <1>5
<1>6. CASE Trim(v) # <<>>
  <2> DEFINE a == Trim(v)
             b == Trim(h)
             d2 == <<a>> \o d
             c2 == <<b>> \o c
  <2>1. Warns(a, b) BY <1>1, <1>2, TrimmedWarns
  <2>2. a \in Seq(T) /\ b \in Seq(U) BY <1>1, TrimType
  <2> HIDE DEF a, b
  <2>3. After(d2, 1, d) /\ d2[1] = a BY <1>1, <2>2, OneAfter
  <2>4. After(c2, 1, c) /\ c2[1] = b BY <1>1, <2>2, OneAfter
  <2> HIDE DEF d2, c2
  <2>5. Len(d) \in Nat /\ Len(c) \in Nat BY <1>1, LenProperties
  <2>6. Len(d2) = 1 + Len(d) /\ Len(c2) = 1 + Len(c) /\ Len(d) = Len(c)
    BY <1>2, <2>3, <2>4 DEF After, ListWarns
  <2>7. ASSUME NEW k \in 1..Len(d2) PROVE Warns(d2[k], c2[k])
    <3>1. CASE k = 1 BY <2>1, <2>3, <2>4, <3>1
    <3>2. CASE k # 1
      <4>1. k - 1 \in 1..Len(d) /\ k - 1 \in 1..Len(c) /\ 1 + (k - 1) = k BY <2>5, <2>6, <3>2
      <4>2. d2[k] = d[k - 1] /\ c2[k] = c[k - 1] BY <2>3, <2>4, <4>1 DEF After
      <4>3. Warns(d[k - 1], c[k - 1]) BY <1>2, <4>1 DEF ListWarns
      <4> QED BY <4>2, <4>3
    <3> QED BY <3>1, <3>2
  <2>8. ListWarns(d2, c2) BY <2>6, <2>7 DEF ListWarns
  <2>9. Cut(r) = d2 /\ Cut(q) = c2 BY <1>3, <1>4, <1>6 DEF d2, c2, a, b
  <2> QED BY <2>8, <2>9
<1> QED BY <1>5, <1>6

\* Before two readings that front alike, a lexeme of the text and what the
\* reference makes of it.
LEMMA BeforeFronts ==
  ASSUME NEW T, NEW sql \in Seq(T), NEW i \in 1..Len(sql),
         ~IsComment(sql, i), ~IsCut(sql, i),
         NEW v \in Seq(T), NEW h \in Seq(T \cup {"literal"}), Fronts(v, h)
  PROVE  Fronts(Lexeme(sql, i, TRUE) \o v, Lexeme(sql, i, FALSE) \o h)
<1> DEFINE U == T \cup {"literal"}
           l == SubSeq(sql, i, LexemeEnd(sql, i))
<1>0. Len(sql) \in Nat
  BY LenProperties
<1>1. Lexeme(sql, i, TRUE) = l
  BY Zenon DEF Lexeme
<1>2. CASE sql[i] \in Quotes
  <2>1. Lexeme(sql, i, FALSE) = <<"literal">>
    BY <1>2, Zenon DEF Lexeme
  <2>2. l \in Seq(T)
    BY LexemeType
  <2>3. LexemeEnd(sql, i) \in i..Len(sql)
    BY <1>0, LexemeIsWithin
  <2>4. Len(l) # 0 /\ l[1] = sql[i]
    <3> DEFINE e == LexemeEnd(sql, i)
    <3>1. \A m \in i..e : sql[m] \in T BY <1>0, <2>3, ElementOfSeq
    <3>2. l = SubSeq(sql, i, e) /\ i <= e /\ e \in Int /\ i \in Int BY <1>0, <2>3
    <3> HIDE DEF e, l
    <3>3. Len(l) = (IF i <= e THEN (e - i) + 1 ELSE 0) BY <3>1, <3>2, SubSeqProperties
    <3>4. 1 \in 1..((e - i) + 1) /\ (i + 1) - 1 = i /\ i + (1 - 1) = i BY <3>2
    <3> QED BY <3>1, <3>2, <3>3, <3>4, SubSeqProperties
  <2>5. "literal" \in U
    OBVIOUS
  <2> HIDE DEF l, U
  <2>6. h \in Seq(U)
    BY DEF U
  <2> QED BY <1>1, <1>2, <2>1, <2>2, <2>4, <2>5, <2>6, FrontsLiteral
<1>3. CASE sql[i] \notin Quotes
  <2>1. LexemeEnd(sql, i) = i
    BY <1>0, <1>3, OtherEnd
  <2>2. l = <<sql[i]>>
    BY <2>1, SubSeqOfOne
  <2>3. Lexeme(sql, i, FALSE) = l
    BY <1>3, Zenon DEF Lexeme
  <2>4. sql[i] \in T /\ sql[i] \in U
    BY <1>0, ElementOfSeq
  <2> HIDE DEF l, U
  <2>5. h \in Seq(U)
    BY DEF U
  <2> QED BY <1>1, <2>2, <2>3, <2>4, <2>5, FrontsToken
<1> QED BY <1>2, <1>3

\* Wherever a DROP or TRUNCATE stands in a text, and whatever blanks, comments,
\* literals and statements are before it, IsDangerousOp tells of the statement
\* SplitStatements makes of it, if its first word is set apart.
THEOREM DropsAreSeen ==
  ASSUME NEW T, NEW sql \in Seq(T), NEW k \in 1..Len(SplitStatements(sql)),
         Drops(CodeOf(sql)[k]), SetApart(CodeOf(sql)[k])
  PROVE  IsDangerousOp(SplitStatements(sql)[k])
<1> DEFINE U == T \cup {"literal"}
           f == From(sql, TRUE)
           g == From(sql, FALSE)
           N == Len(sql) + 1
           S == {i \in 1..N : OneFront(f[i], g[i])}
<1>0. Len(sql) \in Nat
  BY LenProperties
<1>f. \A i \in 1..N : f[i] \in Pieces(T)
  <2>1. T = T \cup (IF TRUE THEN {} ELSE {"literal"}) OBVIOUS
  <2> QED BY <2>1, FromType
<1>g. \A i \in 1..N : g[i] \in Pieces(U)
  <2>1. U = T \cup (IF FALSE THEN {} ELSE {"literal"}) OBVIOUS
  <2> HIDE DEF U
  <2> QED BY <2>1, FromType
<1>1. N \in S
  <2>1. f[N] = Nothing /\ g[N] = Nothing BY <1>0, FromStep
  <2>2. N \in 1..N BY <1>0
  <2>3. OneFront(Nothing, Nothing)
    <3>1. Nothing.later = <<>> BY DEF Nothing
    <3>2. Len(Nothing.later) = 0 BY <3>1
    <3> QED BY <3>2 DEF OneFront, Fronts, ListWarns
  <2> HIDE DEF f, g, N
  <2> QED BY <2>1, <2>2, <2>3
<1>2. \A i \in 1..(N - 1) : (\A m \in (i + 1)..N : m \in S) => i \in S
  <2> SUFFICES ASSUME NEW i \in 1..(N - 1), \A m \in (i + 1)..N : m \in S
               PROVE  OneFront(f[i], g[i])
    <3>1. \A i \in 1..(N - 1) : i \in 1..N BY <1>0
    <3> HIDE DEF N, f, g
    <3> QED BY <3>1
  <2> DEFINE e == LexemeEnd(sql, i)
             r == f[e + 1]
             q == g[e + 1]
  <2>1. i \in 1..Len(sql) /\ e + 1 \in (i + 1)..N /\ e + 1 \in 1..N
    <3>1. i \in 1..Len(sql) BY <1>0
    <3> HIDE DEF e
    <3>2. e \in i..Len(sql) BY <1>0, <3>1, LexemeIsWithin DEF e
    <3> QED BY <1>0, <3>1, <3>2
  <2>2. r \in Pieces(T) /\ q \in Pieces(U)
    <3> HIDE DEF f, g, N, U, e
    <3> QED BY <1>f, <1>g, <2>1
  <2>3. f[i] = Said(sql, i, r, TRUE) /\ g[i] = Said(sql, i, q, FALSE) BY <1>0, <2>1, FromStep
  <2>4. OneFront(r, q)
    <3> HIDE DEF f, g, N, e
    <3> QED BY <2>1
  <2> HIDE DEF f, g, r, q, S, N
  <2>5. CASE IsComment(sql, i)
    <3>1. f[i] = r /\ g[i] = q BY <2>3, <2>5, SaidComment
    <3> QED BY <2>4, <3>1
  <2>6. CASE IsCut(sql, i)
    <3> DEFINE d == Cut(r)
               c == Cut(q)
    <3>1. f[i] = [piece |-> <<>>, later |-> d] /\ g[i] = [piece |-> <<>>, later |-> c]
      BY <2>3, <2>6, SaidCut
    <3>2. ListWarns(d, c) BY <2>2, <2>4, CutWarns
    <3> HIDE DEF d, c
    <3>3. f[i].piece = <<>> /\ f[i].later = d /\ g[i].piece = <<>> /\ g[i].later = c BY <3>1
    <3> QED BY <3>2, <3>3 DEF OneFront, Fronts
  <2>7. CASE ~IsComment(sql, i) /\ ~IsCut(sql, i)
    <3> DEFINE l == Lexeme(sql, i, TRUE)
               b == Lexeme(sql, i, FALSE)
    <3>1. f[i] = Before(l, r) /\ g[i] = Before(b, q)
      BY <2>3, <2>7, SaidLexeme
    <3>2. r.piece \in Seq(T) /\ q.piece \in Seq(T \cup {"literal"}) BY <2>2 DEF Pieces
    <3>3. Fronts(r.piece, q.piece) /\ ListWarns(r.later, q.later) BY <2>4 DEF OneFront
    <3>4. Fronts(l \o r.piece, b \o q.piece)
      <4> DEFINE v == r.piece
                 h == q.piece
      <4>1. v \in Seq(T) /\ h \in Seq(T \cup {"literal"}) /\ Fronts(v, h) BY <3>2, <3>3
      <4> HIDE DEF v, h
      <4>2. Fronts(l \o v, b \o h) BY <2>1, <2>7, <4>1, BeforeFronts
      <4> QED BY <4>2 DEF v, h
    <3> HIDE DEF l, b, U
    <3>5. /\ Before(l, r).piece = l \o r.piece /\ Before(l, r).later = r.later
          /\ Before(b, q).piece = b \o q.piece /\ Before(b, q).later = q.later
      BY <2>2 DEF Before, Pieces
    <3> QED BY <3>1, <3>3, <3>4, <3>5 DEF OneFront
  <2> QED BY <2>5, <2>6, <2>7
<1>3. \A i \in 1..N : i \in S
  <2>1. 1 \in Int /\ N \in Int BY <1>0
  <2> HIDE DEF S, N
  <2> QED BY ONLY <2>1, <1>1, <1>2, Downward, Zenon
<1>4. ListWarns(Cut(f[1]), Cut(g[1]))
  <2>1. 1 \in 1..N BY <1>0
  <2> HIDE DEF f, g, N, U
  <2>2. OneFront(f[1], g[1]) BY <1>3, <2>1
  <2>3. f[1] \in Pieces(T) /\ g[1] \in Pieces(U) BY <1>f, <1>g, <2>1
  <2> QED BY <2>2, <2>3, CutWarns
<1>5. SplitStatements(sql) = Cut(f[1]) /\ CodeOf(sql) = Cut(g[1])
  BY SplitIsWhole DEF WholeStatements, CodeOf
<1> HIDE DEF f, g
<1>6. Warns(SplitStatements(sql)[k], CodeOf(sql)[k])
  BY <1>4, <1>5 DEF ListWarns
<1> QED BY <1>6 DEF Warns
===============================================================================
