---------------------------- MODULE StatementsProofs ----------------------------
(***************************************************************************)
(* SplitStatements hands on the statements of a text, whole: for every text *)
(* the pass over its tokens and the reference, which goes from lexeme to    *)
(* lexeme, come to the same statements.                                     *)
(*                                                                          *)
(* The argument.  What the pass has when a lexeme begins, the statements    *)
(* done and the piece in hand, determines what it will yield: those         *)
(* statements, then the piece joined with what the reference says of the    *)
(* rest.  That holds at the end of the text, and before a lexeme if it      *)
(* holds after it, whatever the lexeme is.  Both scans are recursive        *)
(* functions, and induction is over positions: Upward and Downward, of a    *)
(* set of numbers, by a least counterexample.                               *)
(***************************************************************************)
EXTENDS Statements, SequenceTheorems, FiniteSetTheorems, WellFoundedInduction, TLAPS

-----------------------------------------------------------------------------
\* Induction: a property of numbers is the set of those that have it.

\* A set of natural numbers that is not empty has a least element.
LEMMA LeastNatural ==
  ASSUME NEW S, S \subseteq Nat, S # {}
  PROVE  \E m \in S : \A n \in S : m <= n
<1> DEFINE R == OpToRel(<, Nat)
<1>1. IsWellFoundedOn(R, Nat)
  BY NatLessThanWellFounded
<1>2. \E m \in S : \A n \in S : <<n, m>> \notin R
  <2> HIDE DEF R
  <2> QED BY <1>1, WFMin
<1>3. \A m, n \in Nat : <<n, m>> \notin R => m <= n
  BY DEF OpToRel
<1> QED BY <1>2, <1>3

\* What holds of a, and with each number below b of the next, holds up to b.
LEMMA Upward ==
  ASSUME NEW a \in Int, NEW b \in Int, NEW S, a \in S,
         \A n \in a..(b - 1) : n \in S => n + 1 \in S
  PROVE  \A n \in a..b : n \in S
<1> SUFFICES ASSUME \E n \in a..b : n \notin S PROVE FALSE
  OBVIOUS
<1> DEFINE D == {x \in Nat : a + x \in a..b /\ a + x \notin S}
<1>1. D \subseteq Nat /\ D # {}
  <2>1. PICK n \in a..b : n \notin S OBVIOUS
  <2>2. n - a \in Nat /\ a + (n - a) = n OBVIOUS
  <2>3. n - a \in D BY <2>1, <2>2
  <2> QED BY <2>3
<1>2. PICK d \in D : \A e \in D : d <= e
  <2> HIDE DEF D
  <2> QED BY <1>1, LeastNatural
<1>3. d # 0
  BY <1>2
<1>4. d - 1 \in Nat /\ d - 1 \notin D
  BY <1>2, <1>3
<1>5. a + (d - 1) \in S /\ a + (d - 1) \in a..(b - 1)
  BY <1>2, <1>4
<1>6. (a + (d - 1)) + 1 \in S
  BY <1>5
<1> QED BY <1>2, <1>6

\* What holds of b, and of a number when it holds of all above it, holds down to a.
LEMMA Downward ==
  ASSUME NEW a \in Int, NEW b \in Int, NEW S, b \in S,
         \A n \in a..(b - 1) : (\A m \in (n + 1)..b : m \in S) => n \in S
  PROVE  \A n \in a..b : n \in S
<1> SUFFICES ASSUME \E n \in a..b : n \notin S PROVE FALSE
  OBVIOUS
<1> DEFINE D == {x \in Nat : b - x \in a..b /\ b - x \notin S}
<1>1. D \subseteq Nat /\ D # {}
  <2>1. PICK n \in a..b : n \notin S OBVIOUS
  <2>2. b - n \in Nat /\ b - (b - n) = n OBVIOUS
  <2>3. b - n \in D BY <2>1, <2>2
  <2> QED BY <2>3
<1>2. PICK d \in D : \A e \in D : d <= e
  <2> HIDE DEF D
  <2> QED BY <1>1, LeastNatural
<1>3. d # 0
  BY <1>2
<1>4. \A m \in ((b - d) + 1)..b : m \in S
  <2> TAKE m \in ((b - d) + 1)..b
  <2>1. b - m \in Nat /\ b - (b - m) = m /\ b - m < d BY <1>2
  <2>2. b - m \notin D BY <1>2, <2>1
  <2> QED BY <1>2, <2>1, <2>2
<1>5. b - d \in S
  BY <1>2, <1>3, <1>4
<1> QED BY <1>2, <1>5

-----------------------------------------------------------------------------
\* Sets of positions.

\* A set of positions that is not empty has a first one.
LEMMA FirstPosition ==
  ASSUME NEW n \in Nat, NEW S, S \subseteq 1..n, S # {}
  PROVE  Min(S) \in S /\ \A x \in S : Min(S) <= x
<1>1. S \subseteq Nat
  OBVIOUS
<1>2. \E x \in S : \A y \in S : x =< y
  BY <1>1, LeastNatural
<1> DEFINE m == CHOOSE x \in S : \A y \in S : x =< y
<1>3. m \in S /\ \A y \in S : m =< y
  BY <1>2
<1>4. Min(S) = m
  BY DEF Min
<1> HIDE DEF m
<1> QED BY <1>3, <1>4

\* A set of positions that is not empty has a last one.
LEMMA LastPosition ==
  ASSUME NEW n \in Nat, NEW S, S \subseteq 1..n, S # {}
  PROVE  Max(S) \in S /\ \A x \in S : x <= Max(S)
<1> DEFINE D == {n - x : x \in S}
<1>1. D \subseteq Nat /\ D # {}
  <2>1. \A x \in S : n - x \in Nat
    OBVIOUS
  <2>2. D \subseteq Nat
    BY <2>1
  <2>3. D # {}
    <3>1. PICK x \in S : TRUE OBVIOUS
    <3>2. n - x \in D BY <3>1
    <3> QED BY <3>2
  <2> QED BY <2>2, <2>3
<1>2. PICK d \in D : \A e \in D : d <= e
  BY <1>1, LeastNatural
<1>3. PICK x \in S : d = n - x
  OBVIOUS
<1>4. \A y \in S : x >= y
  <2> TAKE y \in S
  <2>1. n - y \in D OBVIOUS
  <2>2. n - x <= n - y BY <1>2, <1>3, <2>1
  <2>3. n \in Int /\ x \in Int /\ y \in Int
    BY 1..n \subseteq Int
  <2> HIDE DEF D
  <2> QED BY ONLY <2>2, <2>3
<1>5. \E z \in S : \A y \in S : z >= y
  BY <1>4
<1> DEFINE m == CHOOSE z \in S : \A y \in S : z >= y
<1>6. m \in S /\ \A y \in S : m >= y
  BY <1>5
<1>7. Max(S) = m
  BY DEF Max
<1> HIDE DEF m
<1> QED BY <1>6, <1>7

\* A lexeme of a text is not empty, and ends in it.
LEMMA EndIsWithin ==
  ASSUME NEW sql, Len(sql) \in Nat, NEW i \in 1..Len(sql), NEW ends, ends \subseteq i..Len(sql)
  PROVE  /\ EndAt(sql, ends) \in i..Len(sql)
         /\ ends # {} => EndAt(sql, ends) \in ends
         /\ \A j \in ends : EndAt(sql, ends) <= j
<1>1. CASE ends = {}
  BY <1>1 DEF EndAt
<1>2. CASE ends # {}
  <2>1. Min(ends) \in ends /\ \A x \in ends : Min(ends) <= x
    <3>1. ends \subseteq 1..Len(sql) OBVIOUS
    <3> QED BY <1>2, <3>1, FirstPosition
  <2>2. EndAt(sql, ends) = Min(ends)
    BY <1>2 DEF EndAt
  <2> QED BY <2>1, <2>2
<1> QED BY <1>1, <1>2

\* A lexeme has at least one token, and none past the end of the text.
LEMMA LexemeIsWithin ==
  ASSUME NEW sql, Len(sql) \in Nat, NEW i \in 1..Len(sql)
  PROVE  LexemeEnd(sql, i) \in i..Len(sql)
<1>1. CASE sql[i] \in Quotes
  <2>1. QuotedEnds(sql, i) \subseteq i..Len(sql) BY DEF QuotedEnds
  <2>2. EndAt(sql, QuotedEnds(sql, i)) \in i..Len(sql) BY <2>1, EndIsWithin
  <2>3. ~IsLineComment(sql, i) /\ ~IsBlockComment(sql, i)
    BY <1>1 DEF IsLineComment, IsBlockComment, Quotes
  <2>4. LexemeEnd(sql, i) = EndAt(sql, QuotedEnds(sql, i)) BY <1>1, <2>3, Zenon DEF LexemeEnd
  <2> QED BY <2>2, <2>4
<1>2. CASE IsLineComment(sql, i)
  <2> DEFINE ends == {j \in i..Len(sql) : sql[j] = "\n"}
  <2>1. EndAt(sql, ends) \in i..Len(sql)
    <3>1. ends \subseteq i..Len(sql) OBVIOUS
    <3> HIDE DEF ends
    <3> QED BY <3>1, EndIsWithin
  <2>2. sql[i] \notin Quotes /\ ~IsBlockComment(sql, i)
    BY <1>2 DEF IsLineComment, IsBlockComment, Quotes
  <2>3. LexemeEnd(sql, i) = EndAt(sql, ends) BY <1>2, <2>2, Zenon DEF LexemeEnd
  <2> QED BY <2>1, <2>3
<1>3. CASE IsBlockComment(sql, i)
  <2> DEFINE ends == {j \in (i + 3)..Len(sql) : sql[j - 1] = "*" /\ sql[j] = "/"}
  <2>1. EndAt(sql, ends) \in i..Len(sql)
    <3>1. ends \subseteq i..Len(sql) OBVIOUS
    <3> HIDE DEF ends
    <3> QED BY <3>1, EndIsWithin
  <2>2. sql[i] \notin Quotes /\ ~IsLineComment(sql, i)
    BY <1>3 DEF IsLineComment, IsBlockComment, Quotes
  <2>3. LexemeEnd(sql, i) = EndAt(sql, ends) BY <1>3, <2>2, Zenon DEF LexemeEnd
  <2> QED BY <2>1, <2>3
<1>4. CASE sql[i] \notin Quotes /\ ~IsLineComment(sql, i) /\ ~IsBlockComment(sql, i)
  <2>1. LexemeEnd(sql, i) = i BY <1>4, Zenon DEF LexemeEnd
  <2> QED BY <2>1
<1> QED BY <1>1, <1>2, <1>3, <1>4

-----------------------------------------------------------------------------
\* The scans satisfy the equations that define them.

\* Open is the recursive function its definition says: one exists for every length.
LEMMA OpenRec ==
  ASSUME NEW sql, Len(sql) \in Nat
  PROVE  Open(sql) = [i \in 0..Len(sql) |->
                        IF i = 0 THEN "none" ELSE OpenAfter(sql[i])[Open(sql)[i - 1]]]
<1> DEFINE Rec(n, g) == g = [i \in 0..n |-> IF i = 0 THEN "none" ELSE OpenAfter(sql[i])[g[i - 1]]]
           S == {n \in Nat : \E g : Rec(n, g)}
<1>1. 0 \in S
  <2>1. Rec(0, [i \in 0..0 |-> "none"])
    OBVIOUS
  <2> QED BY <2>1
<1>2. \A n \in 0..(Len(sql) - 1) : n \in S => n + 1 \in S
  <2> TAKE n \in 0..(Len(sql) - 1)
  <2> SUFFICES ASSUME n \in S PROVE \E g : Rec(n + 1, g)
    OBVIOUS
  <2>1. PICK g : Rec(n, g)
    OBVIOUS
  <2> DEFINE h == [i \in 0..(n + 1) |-> IF i = n + 1 THEN OpenAfter(sql[i])[g[n]] ELSE g[i]]
  <2>2. \A i \in 0..(n + 1) : h[i] = IF i = 0 THEN "none" ELSE OpenAfter(sql[i])[h[i - 1]]
    <3> HIDE DEF Rec
    <3>1. \A i \in 0..n : g[i] = IF i = 0 THEN "none" ELSE OpenAfter(sql[i])[g[i - 1]]
      BY <2>1 DEF Rec
    <3> QED BY <3>1
  <2>3. Rec(n + 1, h)
    BY <2>2
  <2> QED BY <2>3
<1>3. \A n \in 0..Len(sql) : n \in S
  <2> HIDE DEF S
  <2>1. 0 \in Int /\ Len(sql) \in Int OBVIOUS
  <2> QED BY ONLY <2>1, <1>1, <1>2, Upward, Zenon
<1>4. \E g : Rec(Len(sql), g)
  <2>1. Len(sql) \in S BY <1>3
  <2> QED BY <2>1
<1> QED BY <1>4 DEF Open

\* So is Scanned.
LEMMA ScannedRec ==
  ASSUME NEW sql, Len(sql) \in Nat
  PROVE  Scanned(sql) = [i \in 0..Len(sql) |->
                           IF i = 0 THEN ScanStart
                           ELSE Scan(Scanned(sql)[i - 1], sql[i], Peek(sql, i))]
<1> DEFINE Rec(n, g) == g = [i \in 0..n |->
                               IF i = 0 THEN ScanStart ELSE Scan(g[i - 1], sql[i], Peek(sql, i))]
           S == {n \in Nat : \E g : Rec(n, g)}
<1>1. 0 \in S
  <2>1. Rec(0, [i \in 0..0 |-> ScanStart])
    OBVIOUS
  <2> QED BY <2>1
<1>2. \A n \in 0..(Len(sql) - 1) : n \in S => n + 1 \in S
  <2> TAKE n \in 0..(Len(sql) - 1)
  <2> SUFFICES ASSUME n \in S PROVE \E g : Rec(n + 1, g)
    OBVIOUS
  <2>1. PICK g : Rec(n, g)
    OBVIOUS
  <2> DEFINE h == [i \in 0..(n + 1) |->
                     IF i = n + 1 THEN Scan(g[n], sql[i], Peek(sql, i)) ELSE g[i]]
  <2>2. \A i \in 0..(n + 1) :
           h[i] = IF i = 0 THEN ScanStart ELSE Scan(h[i - 1], sql[i], Peek(sql, i))
    <3> HIDE DEF Rec
    <3>1. \A i \in 0..n : g[i] = IF i = 0 THEN ScanStart ELSE Scan(g[i - 1], sql[i], Peek(sql, i))
      BY <2>1 DEF Rec
    <3> QED BY <3>1
  <2>3. Rec(n + 1, h)
    BY <2>2
  <2> QED BY <2>3
<1>3. \A n \in 0..Len(sql) : n \in S
  <2> HIDE DEF S
  <2>1. 0 \in Int /\ Len(sql) \in Int OBVIOUS
  <2> QED BY ONLY <2>1, <1>1, <1>2, Upward, Zenon
<1>4. \E g : Rec(Len(sql), g)
  <2>1. Len(sql) \in S BY <1>3
  <2> QED BY <2>1
<1> QED BY <1>4 DEF Scanned

\* So is From, which is recursive in what follows: it exists from the end on.
LEMMA FromRec ==
  ASSUME NEW sql, Len(sql) \in Nat, NEW verbatim
  PROVE  From(sql, verbatim) =
           [i \in 1..(Len(sql) + 1) |->
              IF i > Len(sql) THEN Nothing
              ELSE Said(sql, i, From(sql, verbatim)[LexemeEnd(sql, i) + 1], verbatim)]
<1> DEFINE N == Len(sql) + 1
           Rec(n, g) == g = [i \in n..N |->
                               IF i > Len(sql) THEN Nothing
                               ELSE Said(sql, i, g[LexemeEnd(sql, i) + 1], verbatim)]
           S == {n \in 1..N : \E g : Rec(n, g)}
<1>1. N \in S
  <2>1. \A i \in N..N : i > Len(sql) OBVIOUS
  <2>2. Rec(N, [i \in N..N |-> Nothing]) BY <2>1
  <2>3. N \in 1..N OBVIOUS
  <2> HIDE DEF Rec, N
  <2> QED BY <2>2, <2>3
<1>2. \A n \in 1..(N - 1) : (\A m \in (n + 1)..N : m \in S) => n \in S
  <2> TAKE n \in 1..(N - 1)
  <2> SUFFICES ASSUME n + 1 \in S PROVE \E g : Rec(n, g)
    OBVIOUS
  <2>1. PICK g : Rec(n + 1, g)
    OBVIOUS
  <2> DEFINE h == [i \in n..N |->
                     IF i = n THEN Said(sql, i, g[LexemeEnd(sql, i) + 1], verbatim) ELSE g[i]]
  <2>2. \A i \in n..N : h[i] = IF i > Len(sql) THEN Nothing
                               ELSE Said(sql, i, h[LexemeEnd(sql, i) + 1], verbatim)
    <3> HIDE DEF Rec
    <3>1. \A i \in (n + 1)..N : g[i] = IF i > Len(sql) THEN Nothing
                                       ELSE Said(sql, i, g[LexemeEnd(sql, i) + 1], verbatim)
      BY <2>1 DEF Rec
    <3>2. \A i \in n..Len(sql) :
            LexemeEnd(sql, i) + 1 \in (n + 1)..N /\ LexemeEnd(sql, i) + 1 \in n..N
                /\ LexemeEnd(sql, i) + 1 # n
      BY LexemeIsWithin
    <3>3. \A i \in n..Len(sql) : h[LexemeEnd(sql, i) + 1] = g[LexemeEnd(sql, i) + 1]
      BY <3>2
    <3>4. \A i \in n..N : h[i] = IF i > Len(sql) THEN Nothing
                               ELSE Said(sql, i, g[LexemeEnd(sql, i) + 1], verbatim)
      BY <3>1
    <3> HIDE DEF h
    <3> QED BY <3>3, <3>4
  <2>3. Rec(n, h)
    BY <2>2
  <2> QED BY <2>3
<1>3. \A n \in 1..N : n \in S
  <2>1. 1 \in Int /\ N \in Int OBVIOUS
  <2> HIDE DEF S, N
  <2> QED BY ONLY <2>1, <1>1, <1>2, Downward, Zenon
<1>4. \E g : Rec(1, g)
  <2>1. 1 \in S BY <1>3
  <2> QED BY <2>1
<1> QED BY <1>4 DEF From

-----------------------------------------------------------------------------
\* One step of SplitStatements, in each state it may be in.

State(in, skip, current, done) == [in |-> in, skip |-> skip, current |-> current, done |-> done]

\* One token more.
Plus(x, c) == Append(x, c)

\* The end of a statement: what is not empty when trimmed is kept.
Put(done, current) == IF Trim(current) = <<>> THEN done ELSE Append(done, Trim(current))

\* The fields of a state, and the states that differ from it in one or two of them.
LEMMA StateFields ==
  ASSUME NEW m, NEW b, NEW x, NEW d
  PROVE  /\ State(m, b, x, d).in = m /\ State(m, b, x, d).skip = b
         /\ State(m, b, x, d).current = x /\ State(m, b, x, d).done = d
  BY DEF State

LEMMA StateIn ==
  ASSUME NEW m, NEW b, NEW x, NEW d, NEW v
  PROVE  [State(m, b, x, d) EXCEPT !.in = v] = State(v, b, x, d)
  BY DEF State

LEMMA StateCurrent ==
  ASSUME NEW m, NEW b, NEW x, NEW d, NEW v
  PROVE  [State(m, b, x, d) EXCEPT !.current = v] = State(m, b, v, d)
  BY DEF State

LEMMA StateSkip ==
  ASSUME NEW m, NEW b, NEW x, NEW d, NEW v
  PROVE  [State(m, b, x, d) EXCEPT !.skip = v] = State(m, v, x, d)
  BY DEF State

LEMMA TwoUpdates ==
  ASSUME NEW st, NEW v, NEW w
  PROVE  [st EXCEPT !.in = v, !.skip = w] = [[st EXCEPT !.in = v] EXCEPT !.skip = w]
  OBVIOUS

\* Writing a token, and ending a statement.
LEMMA StateWrites ==
  ASSUME NEW m, NEW b, NEW x, NEW d, NEW c
  PROVE  Write(State(m, b, x, d), c) = State(m, b, Plus(x, c), d)
<1> DEFINE st == State(m, b, x, d)
           p == Plus(x, c)
<1>1. st.current = x
  BY StateFields
<1>2. [st EXCEPT !.current = p] = State(m, b, p, d)
  BY StateCurrent
<1> HIDE DEF st
<1>3. Write(st, c) = [st EXCEPT !.current = p]
  BY <1>1 DEF Write, Plus
<1> QED BY <1>2, <1>3 DEF st

LEMMA StateFlush ==
  ASSUME NEW m, NEW b, NEW x, NEW d
  PROVE  Flush(State(m, b, x, d)) = State(m, b, <<>>, Put(d, x))
<1> DEFINE st == State(m, b, x, d)
<1>2. [st EXCEPT !.current = <<>>] = State(m, b, <<>>, d)
  BY DEF State
<1>3. [State(m, b, <<>>, d) EXCEPT !.done = Put(d, x)] = State(m, b, <<>>, Put(d, x))
  BY DEF State
<1>4. st.current = x /\ st.done = d
  BY StateFields
<1> HIDE DEF st
<1>5. [st EXCEPT !.current = <<>>, !.done = Put(d, x)] =
        [[st EXCEPT !.current = <<>>] EXCEPT !.done = Put(d, x)]
  OBVIOUS
<1>6. Flush(st) = [st EXCEPT !.current = <<>>, !.done = Put(d, x)]
  BY <1>4 DEF Flush, Put
<1>7. Flush(st) = State(m, b, <<>>, Put(d, x))
  BY <1>2, <1>3, <1>5, <1>6
<1> QED BY <1>7 DEF st

\* A token that is through already is passed over.
LEMMA ScanSkips ==
  ASSUME NEW m, NEW x, NEW d, NEW c, NEW next
  PROVE  Scan(State(m, 1, x, d), c, next) = State(m, 0, x, d)
<1> DEFINE st == State(m, 1, x, d)
<1>a. st.skip = 1 BY StateFields
<1>b. st.skip # 0 BY <1>a
<1>c. [st EXCEPT !.skip = 0] = State(m, 0, x, d) BY StateSkip
<1>1. st.skip = 1 /\ st.skip # 0 /\ [st EXCEPT !.skip = 0] = State(m, 0, x, d)
  BY <1>a, <1>b, <1>c
<1> HIDE DEF st
<1>2. Scan(st, c, next) = [st EXCEPT !.skip = 0]
  BY <1>1, Zenon DEF Scan
<1> QED BY <1>1, <1>2 DEF st

\* A step in a comment.
LEMMA ScanInComment ==
  ASSUME NEW m \in {"line", "block"}, NEW x, NEW d, NEW c, NEW next
  PROVE  Scan(State(m, 0, x, d), c, next) =
           IF m = "line" /\ c = "\n" THEN State("code", 0, x, d)
           ELSE IF m = "block" /\ c = "*" /\ next = "/" THEN State("code", 1, x, d)
           ELSE State(m, 0, x, d)
<1> DEFINE st == State(m, 0, x, d)
<1>1. /\ st.skip = 0 /\ st.skip # 1 /\ st.in = m
      /\ [st EXCEPT !.in = "code"] = State("code", 0, x, d)
      /\ [st EXCEPT !.in = "code", !.skip = 1] = State("code", 1, x, d)
  <2>1. st.skip = 0 /\ st.in = m BY StateFields
  <2>2. st.skip # 1 BY <2>1
  <2>3. [st EXCEPT !.in = "code"] = State("code", 0, x, d) BY StateIn
  <2>4. [st EXCEPT !.in = "code", !.skip = 1] = State("code", 1, x, d)
    <3>1. [st EXCEPT !.in = "code"] = State("code", 0, x, d) BY StateIn
    <3>2. [State("code", 0, x, d) EXCEPT !.skip = 1] = State("code", 1, x, d) BY StateSkip
    <3> HIDE DEF st
    <3> QED BY <3>1, <3>2, TwoUpdates, Zenon
  <2> QED BY <2>1, <2>2, <2>3, <2>4
<1>2. m \notin Quotes /\ m # "code"
  BY DEF Quotes
<1> HIDE DEF st
<1>3. Scan(st, c, next) = ScanComment(st, c, next)
  BY <1>1, <1>2, Zenon DEF Scan
<1>4. CASE m = "line" /\ c = "\n"
  <2>1. ScanComment(st, c, next) = [st EXCEPT !.in = "code"]
    <3>1. st.in # "block" BY <1>1, <1>4
    <3> QED BY <3>1, <1>1, <1>4, Zenon DEF ScanComment
  <2> QED BY <2>1, <1>1, <1>3, <1>4 DEF st
<1>5. CASE m = "block" /\ c = "*" /\ next = "/"
  <2>1. ScanComment(st, c, next) = [st EXCEPT !.in = "code", !.skip = 1]
    <3>1. st.in # "line" BY <1>1, <1>5
    <3> QED BY <3>1, <1>1, <1>5, Zenon DEF ScanComment
  <2>2. m # "line" BY <1>5
  <2> QED BY <2>1, <2>2, <1>1, <1>3, <1>5 DEF st
<1>6. CASE ~(m = "line" /\ c = "\n") /\ ~(m = "block" /\ c = "*" /\ next = "/")
  <2>1. ScanComment(st, c, next) = st
    BY <1>1, <1>6, Zenon DEF ScanComment
  <2> QED BY <2>1, <1>3, <1>6 DEF st
<1> QED BY <1>4, <1>5, <1>6

\* A step in quotes.
LEMMA ScanInQuotes ==
  ASSUME NEW q \in Quotes, NEW x, NEW d, NEW c, NEW next
  PROVE  Scan(State(q, 0, x, d), c, next) =
           IF c # q THEN State(q, 0, Plus(x, c), d)
           ELSE IF next = q THEN State(q, 1, Plus(Plus(x, c), next), d)
           ELSE State("code", 0, Plus(x, c), d)
<1> DEFINE st == State(q, 0, x, d)
<1>1. /\ st.skip = 0 /\ st.skip # 1 /\ st.in = q
      /\ Write(st, c) = State(q, 0, Plus(x, c), d)
      /\ [Write(st, c) EXCEPT !.in = "code"] = State("code", 0, Plus(x, c), d)
      /\ [Write(Write(st, c), next) EXCEPT !.skip = 1] = State(q, 1, Plus(Plus(x, c), next), d)
  <2>1. st.skip = 0 /\ st.in = q BY StateFields
  <2>2. st.skip # 1 BY <2>1
  <2>3. Write(st, c) = State(q, 0, Plus(x, c), d) BY StateWrites DEF Plus
  <2>4. Write(State(q, 0, Plus(x, c), d), next) = State(q, 0, Plus(Plus(x, c), next), d)
    BY StateWrites DEF Plus
  <2>5. [State(q, 0, Plus(x, c), d) EXCEPT !.in = "code"] = State("code", 0, Plus(x, c), d)
    BY StateIn
  <2>6. [State(q, 0, Plus(Plus(x, c), next), d) EXCEPT !.skip = 1] =
          State(q, 1, Plus(Plus(x, c), next), d)
    BY StateSkip
  <2> HIDE DEF st
  <2> QED BY <2>1, <2>2, <2>3, <2>4, <2>5, <2>6
<1>2. q \notin {"line", "block"} /\ q # "code"
  BY DEF Quotes
<1> HIDE DEF st
<1>3. Scan(st, c, next) = ScanQuoted(st, c, next)
  BY <1>1, <1>2, Zenon DEF Scan
<1>4. CASE c = q /\ next = q
  <2>1. ScanQuoted(st, c, next) = [Write(Write(st, c), next) EXCEPT !.skip = 1]
    BY <1>1, <1>4, Zenon DEF ScanQuoted
  <2> QED BY <2>1, <1>1, <1>3, <1>4 DEF st
<1>5. CASE c = q /\ next # q
  <2>1. ScanQuoted(st, c, next) = [Write(st, c) EXCEPT !.in = "code"]
    BY <1>1, <1>5, Zenon DEF ScanQuoted
  <2> QED BY <2>1, <1>1, <1>3, <1>5 DEF st
<1>6. CASE c # q
  <2>1. ScanQuoted(st, c, next) = Write(st, c)
    BY <1>1, <1>6, Zenon DEF ScanQuoted
  <2> QED BY <2>1, <1>1, <1>3, <1>6 DEF st
<1> QED BY <1>4, <1>5, <1>6

\* The scan of a text, in terms of these steps.
LEMMA ScannedStep ==
  ASSUME NEW sql, Len(sql) \in Nat, NEW j \in 1..Len(sql)
  PROVE  Scanned(sql)[j] = Scan(Scanned(sql)[j - 1], sql[j], Peek(sql, j))
<1>1. j \in 0..Len(sql) /\ j # 0
  OBVIOUS
<1> DEFINE g == Scanned(sql)
<1>2. g = [i \in 0..Len(sql) |-> IF i = 0 THEN ScanStart ELSE Scan(g[i - 1], sql[i], Peek(sql, i))]
  BY ScannedRec
<1> HIDE DEF g
<1>3. g[j] = Scan(g[j - 1], sql[j], Peek(sql, j))
  BY <1>1, <1>2
<1> QED BY <1>3 DEF g

\* Where the pass begins.
LEMMA ScannedFirst ==
  ASSUME NEW sql, Len(sql) \in Nat
  PROVE  Scanned(sql)[0] = State("code", 0, <<>>, <<>>)
<1> DEFINE g == Scanned(sql)
<1>1. g = [i \in 0..Len(sql) |-> IF i = 0 THEN ScanStart ELSE Scan(g[i - 1], sql[i], Peek(sql, i))]
  BY ScannedRec
<1> HIDE DEF g
<1>2. g[0] = ScanStart
  BY <1>1
<1> QED BY <1>2 DEF g, ScanStart, State

-----------------------------------------------------------------------------
\* The lexemes of the reference.

\* The token after another, or the end.
LEMMA PeekIs ==
  ASSUME NEW sql, Len(sql) \in Nat, NEW j \in 1..Len(sql), NEW c, c # "end"
  PROVE  Peek(sql, j) = c <=> j < Len(sql) /\ sql[j + 1] = c
<1>1. CASE j < Len(sql)
  BY <1>1 DEF Peek
<1>2. CASE ~(j < Len(sql))
  BY <1>2 DEF Peek
<1> QED BY <1>1, <1>2

\* A piece of a text after x; it grows by the next token.
Upto(x, sql, i, j) == x \o SubSeq(sql, i, j)

LEMMA Grows ==
  ASSUME NEW T, NEW sql \in Seq(T), NEW i \in 1..Len(sql), NEW j \in (i - 1)..(Len(sql) - 1),
         NEW x \in Seq(T)
  PROVE  Plus(Upto(x, sql, i, j), sql[j + 1]) = Upto(x, sql, i, j + 1)
<1>0. Len(sql) \in Nat /\ i \in Int /\ j \in Int /\ j + 1 \in 1..Len(sql) /\ j + 1 \in i..Len(sql)
  BY LenProperties
<1>1. SubSeq(sql, i, j) \in Seq(T)
  <2>1. \A m \in i..j : sql[m] \in T
    BY <1>0, ElementOfSeq
  <2> QED BY <1>0, <2>1, SubSeqProperties
<1>2. sql[j + 1] \in T
  BY <1>0, ElementOfSeq
<1>3. SubSeq(sql, i, j + 1) = SubSeq(sql, i, (j + 1) - 1) \o <<sql[j + 1]>>
  BY <1>0, SubSeqRecursiveSecond
<1>4. (j + 1) - 1 = j
  BY <1>0
<1>6. Append(SubSeq(sql, i, j), sql[j + 1]) = SubSeq(sql, i, j + 1)
  BY <1>1, <1>2, <1>3, <1>4, AppendIsConcat
<1>7. Append(x \o SubSeq(sql, i, j), sql[j + 1]) = x \o Append(SubSeq(sql, i, j), sql[j + 1])
  BY <1>1, <1>2
<1> QED BY <1>6, <1>7 DEF Upto, Plus

\* How many quotes of its kind a quoted lexeme has so far: an odd number while
\* the literal is open.
Same(sql, i, j) == {k \in i..j : sql[k] = sql[i]}
Odd(sql, i, j) == Cardinality(Same(sql, i, j)) % 2 = 1

\* The first quote opens, and each further one of its kind changes the number.
LEMMA OddFirst ==
  ASSUME NEW sql, NEW i \in Int
  PROVE  Odd(sql, i, i)
<1>1. Same(sql, i, i) = {i}
  BY DEF Same
<1>2. Cardinality({i}) = 1
  BY FS_Singleton
<1> QED BY <1>1, <1>2 DEF Odd

LEMMA OddNext ==
  ASSUME NEW sql, NEW i \in Int, NEW j \in Int, i <= j
  PROVE  /\ sql[j + 1] = sql[i] => (Odd(sql, i, j + 1) <=> ~Odd(sql, i, j))
         /\ sql[j + 1] # sql[i] => (Odd(sql, i, j + 1) <=> Odd(sql, i, j))
         /\ ~Odd(sql, i, j) <=> Cardinality(Same(sql, i, j)) % 2 = 0
<1>1. IsFiniteSet(Same(sql, i, j)) /\ Cardinality(Same(sql, i, j)) \in Nat
  <2>1. IsFiniteSet(i..j) BY FS_Interval
  <2>2. IsFiniteSet(Same(sql, i, j)) BY <2>1, FS_Subset DEF Same
  <2> QED BY <2>2, FS_CardinalityType
<1>2. CASE sql[j + 1] = sql[i]
  <2>1. Same(sql, i, j + 1) = Same(sql, i, j) \cup {j + 1} /\ j + 1 \notin Same(sql, i, j)
    BY <1>2 DEF Same
  <2>2. Cardinality(Same(sql, i, j + 1)) = Cardinality(Same(sql, i, j)) + 1
    BY <1>1, <2>1, FS_AddElement
  <2> DEFINE n == Cardinality(Same(sql, i, j))
  <2>3. n \in Nat /\ Cardinality(Same(sql, i, j + 1)) = n + 1
    BY <1>1, <2>2
  <2> HIDE DEF n
  <2>4. (n + 1) % 2 = 1 <=> ~(n % 2 = 1)
    BY <2>3
  <2>5. n % 2 = 0 <=> ~(n % 2 = 1)
    BY <2>3
  <2> QED BY <1>2, <2>3, <2>4, <2>5 DEF Odd, n
<1>3. CASE sql[j + 1] # sql[i]
  <2>1. Same(sql, i, j + 1) = Same(sql, i, j)
    BY <1>3 DEF Same
  <2>2. Cardinality(Same(sql, i, j)) % 2 = 0 <=> ~(Cardinality(Same(sql, i, j)) % 2 = 1)
    BY <1>1
  <2> QED BY <1>3, <2>1, <2>2 DEF Odd
<1> QED BY <1>2, <1>3

\* The end of a lexeme, by its first token.
LEMMA QuotedEnd ==
  ASSUME NEW sql, Len(sql) \in Nat, NEW i \in 1..Len(sql), sql[i] \in Quotes
  PROVE  LexemeEnd(sql, i) = EndAt(sql, QuotedEnds(sql, i))
<1>1. ~IsLineComment(sql, i) /\ ~IsBlockComment(sql, i)
  BY DEF IsLineComment, IsBlockComment, Quotes
<1> QED BY <1>1, Zenon DEF LexemeEnd

LineCommentEnds(sql, i) == {j \in i..Len(sql) : sql[j] = "\n"}
LEMMA LineCommentEnd ==
  ASSUME NEW sql, Len(sql) \in Nat, NEW i \in 1..Len(sql), IsLineComment(sql, i)
  PROVE  LexemeEnd(sql, i) = EndAt(sql, LineCommentEnds(sql, i))
<1>1. sql[i] \notin Quotes /\ ~IsBlockComment(sql, i)
  BY DEF IsLineComment, IsBlockComment, Quotes
<1> QED BY <1>1, Zenon DEF LexemeEnd, LineCommentEnds

BlockCommentEnds(sql, i) == {j \in (i + 3)..Len(sql) : sql[j - 1] = "*" /\ sql[j] = "/"}
LEMMA BlockCommentEnd ==
  ASSUME NEW sql, Len(sql) \in Nat, NEW i \in 1..Len(sql), IsBlockComment(sql, i)
  PROVE  LexemeEnd(sql, i) = EndAt(sql, BlockCommentEnds(sql, i))
<1>1. sql[i] \notin Quotes /\ ~IsLineComment(sql, i)
  BY DEF IsLineComment, IsBlockComment, Quotes
<1> QED BY <1>1, Zenon DEF LexemeEnd, BlockCommentEnds

LEMMA OtherEnd ==
  ASSUME NEW sql, Len(sql) \in Nat, NEW i \in 1..Len(sql), ~IsComment(sql, i), sql[i] \notin Quotes
  PROVE  LexemeEnd(sql, i) = i
<1>1. ~IsLineComment(sql, i) /\ ~IsBlockComment(sql, i)
  BY DEF IsComment
<1> QED BY <1>1, Zenon DEF LexemeEnd

\* Inside a literal an even number of quotes is the first half of a doubled
\* one; a literal that ends before the text does ends with an even number, at a
\* quote that is not followed by another.
LEMMA QuotedLexeme ==
  ASSUME NEW sql, Len(sql) \in Nat, NEW i \in 1..Len(sql), sql[i] \in Quotes,
         NEW e, e = LexemeEnd(sql, i)
  PROVE  /\ e \in i..Len(sql)
         /\ \A j \in i..(e - 1) :
              ~Odd(sql, i, j) => sql[j] = sql[i] /\ sql[j + 1] = sql[i]
         /\ \/ e > i /\ sql[e] = sql[i] /\ Peek(sql, e) # sql[i] /\ ~Odd(sql, i, e) /\ Odd(sql, i, e - 1)
            \/ e = Len(sql) /\ Odd(sql, i, e)
<1> DEFINE q == sql[i]
           ends == QuotedEnds(sql, i)
<1>1. e = EndAt(sql, ends)
  BY QuotedEnd
<1>2. ends \subseteq i..Len(sql)
  BY DEF QuotedEnds
<1>3. e \in i..Len(sql) /\ (ends # {} => e \in ends) /\ \A j \in ends : e <= j
  <2> HIDE DEF ends
  <2>1. /\ EndAt(sql, ends) \in i..Len(sql)
        /\ ends # {} => EndAt(sql, ends) \in ends
        /\ \A j \in ends : EndAt(sql, ends) <= j
    BY <1>2, EndIsWithin
  <2> QED BY <1>1, <2>1
<1>4. q # "end"
  BY DEF Quotes
<1>5. \A j \in (i + 1)..Len(sql) :
        j \in ends <=> sql[j] = q /\ Peek(sql, j) # q /\ ~Odd(sql, i, j)
  <2> TAKE j \in (i + 1)..Len(sql)
  <2>1. ~Odd(sql, i, j) <=> Cardinality(Same(sql, i, j)) % 2 = 0
    <3>1. i \in Int /\ j \in Int /\ i <= j OBVIOUS
    <3> QED BY <3>1, OddNext
  <2> QED BY <2>1, Zenon DEF QuotedEnds, Same
<1>6. \A j \in i..Len(sql) : (j < e \/ ends = {}) =>
         (~Odd(sql, i, j) => j > i /\ sql[j] = q /\ j < Len(sql) /\ sql[j + 1] = q)
  <2> DEFINE S == {j \in i..Len(sql) :
                     (j < e \/ ends = {}) =>
                        (~Odd(sql, i, j) => j > i /\ sql[j] = q /\ j < Len(sql) /\ sql[j + 1] = q)}
  <2>1. i \in S
    BY OddFirst
  <2>2. \A j \in i..(Len(sql) - 1) : j \in S => j + 1 \in S
    <3> SUFFICES ASSUME NEW j \in i..(Len(sql) - 1), j \in S,
                        j + 1 < e \/ ends = {}, ~Odd(sql, i, j + 1)
                 PROVE  sql[j + 1] = q /\ j + 1 < Len(sql) /\ sql[(j + 1) + 1] = q
      OBVIOUS
    <3>1. i \in Int /\ j \in Int /\ i <= j /\ j + 1 \in (i + 1)..Len(sql) /\ j + 1 \in 1..Len(sql)
      OBVIOUS
    <3>2. sql[j + 1] = q
      <4> SUFFICES ASSUME sql[j + 1] # q PROVE FALSE
        OBVIOUS
      <4>1. ~Odd(sql, i, j)
        BY <3>1, OddNext
      <4>2. j < e \/ ends = {}
        BY <1>3, <3>1
      <4> HIDE DEF ends, q
      <4> QED BY <4>1, <4>2
    <3>3. j + 1 \notin ends
      BY <1>3, <3>1
    <3>4. Peek(sql, j + 1) = q
      BY <1>5, <3>1, <3>2, <3>3
    <3> HIDE DEF q
    <3> QED BY <1>4, <3>1, <3>2, <3>4, PeekIs
  <2>3. \A j \in i..Len(sql) : j \in S
    <3>1. i \in Int /\ Len(sql) \in Int OBVIOUS
    <3> HIDE DEF S
    <3> QED BY ONLY <3>1, <2>1, <2>2, Upward, Zenon
  <2> QED BY <2>3
<1>7. \A j \in i..(e - 1) : ~Odd(sql, i, j) => sql[j] = q /\ sql[j + 1] = q
  <2> HIDE DEF ends, q
  <2> QED BY <1>3, <1>6
<1>8. CASE ends = {}
  <2>1. e = Len(sql)
    BY <1>1, <1>8 DEF EndAt
  <2>2. Odd(sql, i, e)
    <3> HIDE DEF ends, q
    <3> QED BY <1>3, <1>6, <1>8, <2>1
  <2> QED BY <1>3, <1>7, <2>1, <2>2
<1>9. CASE ends # {}
  <2>1. e \in ends
    BY <1>3, <1>9
  <2>2. e \in (i + 1)..Len(sql)
    BY <2>1 DEF QuotedEnds
  <2>3. sql[e] = q /\ Peek(sql, e) # q /\ ~Odd(sql, i, e)
    BY <1>5, <2>1, <2>2
  <2>4. Odd(sql, i, e - 1)
    <3>1. i \in Int /\ e - 1 \in Int /\ i <= e - 1 /\ (e - 1) + 1 = e
      BY <2>2
    <3> QED BY <2>3, <3>1, OddNext
  <2>5. e > i BY <2>2
  <2> QED BY <1>3, <1>7, <2>3, <2>4, <2>5
<1> QED BY <1>8, <1>9

-----------------------------------------------------------------------------
\* What the pass does with each lexeme.

\* The scan is between two lexemes after the j-th token, or has come to the end.
Between(sql, j, x, d) ==
  \E m, b : /\ Scanned(sql)[j] = State(m, b, x, d)
            /\ j < Len(sql) => m = "code" /\ b = 0

IsCut(sql, i) == sql[i] = ";"

\* One step of code.
LEMMA ScansCode ==
  ASSUME NEW sql, Len(sql) \in Nat, NEW i \in 1..Len(sql), NEW x, NEW d,
         Scanned(sql)[i - 1] = State("code", 0, x, d)
  PROVE  Scanned(sql)[i] =
           IF IsLineComment(sql, i) THEN State("line", 0, x, d)
           ELSE IF IsBlockComment(sql, i) THEN State("block", 1, x, d)
           ELSE IF sql[i] \in Quotes THEN State(sql[i], 0, Plus(x, sql[i]), d)
           ELSE IF IsCut(sql, i) THEN State("code", 0, <<>>, Put(d, x))
           ELSE State("code", 0, Plus(x, sql[i]), d)
<1> DEFINE c == sql[i]
           next == Peek(sql, i)
           st == State("code", 0, x, d)
<1>0. Scanned(sql)[i] = Scan(st, c, next)
  BY ScannedStep
<1>1. /\ st.skip = 0 /\ st.skip # 1 /\ st.in = "code"
      /\ [st EXCEPT !.in = "line"] = State("line", 0, x, d)
      /\ [st EXCEPT !.in = "block", !.skip = 1] = State("block", 1, x, d)
      /\ Write(st, c) = State("code", 0, Plus(x, c), d)
      /\ [Write(st, c) EXCEPT !.in = c] = State(c, 0, Plus(x, c), d)
  <2>1. st.skip = 0 /\ st.in = "code" BY StateFields
  <2>2. st.skip # 1 BY <2>1
  <2>3. [st EXCEPT !.in = "line"] = State("line", 0, x, d) BY StateIn
  <2>4. [st EXCEPT !.in = "block", !.skip = 1] = State("block", 1, x, d)
    <3>1. [st EXCEPT !.in = "block"] = State("block", 0, x, d) BY StateIn
    <3>2. [State("block", 0, x, d) EXCEPT !.skip = 1] = State("block", 1, x, d) BY StateSkip
    <3> HIDE DEF st
    <3> QED BY <3>1, <3>2, TwoUpdates, Zenon
  <2>5. Write(st, c) = State("code", 0, Plus(x, c), d) BY StateWrites DEF Plus
  <2>6. [State("code", 0, Plus(x, c), d) EXCEPT !.in = c] = State(c, 0, Plus(x, c), d)
    BY StateIn
  <2> HIDE DEF st
  <2> QED BY <2>1, <2>2, <2>3, <2>4, <2>5, <2>6
<1>2. Flush(st) = State("code", 0, <<>>, Put(d, x))
  BY StateFlush
<1> DEFINE line == IsLineComment(sql, i)
           block == IsBlockComment(sql, i)
           cut == IsCut(sql, i)
<1>3. /\ line <=> c = "-" /\ next = "-"
      /\ block <=> c = "/" /\ next = "*"
      /\ cut <=> c = ";"
  BY DEF IsLineComment, IsBlockComment, IsCut
<1> SUFFICES Scan(st, c, next) =
               IF line THEN State("line", 0, x, d)
               ELSE IF block THEN State("block", 1, x, d)
               ELSE IF c \in Quotes THEN State(c, 0, Plus(x, c), d)
               ELSE IF cut THEN State("code", 0, <<>>, Put(d, x))
               ELSE State("code", 0, Plus(x, c), d)
  BY <1>0
<1> HIDE DEF st, c, next, line, block, cut
<1>4. Scan(st, c, next) = ScanCode(st, c, next)
  <2>1. st.in \notin {"line", "block"} /\ st.in \notin Quotes BY <1>1 DEF Quotes
  <2> QED BY <1>1, <2>1, Zenon DEF Scan
<1>5. CASE line
  <2>1. c = "-" /\ next = "-" /\ c # "/" /\ c \notin Quotes /\ c # ";" BY <1>3, <1>5 DEF Quotes
  <2>2. ScanCode(st, c, next) = [st EXCEPT !.in = "line"] BY <2>1, Zenon DEF ScanCode
  <2> QED BY <2>2, <1>1, <1>4, <1>5
<1>6. CASE block
  <2>1. c = "/" /\ next = "*" /\ c # "-" /\ c \notin Quotes /\ c # ";" BY <1>3, <1>6 DEF Quotes
  <2>2. ScanCode(st, c, next) = [st EXCEPT !.in = "block", !.skip = 1] BY <2>1, Zenon DEF ScanCode
  <2>3. ~line BY <1>3, <2>1
  <2> QED BY <2>2, <2>3, <1>1, <1>4, <1>6
<1>7. CASE c \in Quotes
  <2>1. c # "-" /\ c # "/" /\ c # ";" BY <1>7 DEF Quotes
  <2>2. ScanCode(st, c, next) = [Write(st, c) EXCEPT !.in = c] BY <2>1, <1>7, Zenon DEF ScanCode
  <2>3. ~line /\ ~block BY <1>3, <2>1
  <2> QED BY <2>2, <2>3, <1>1, <1>4, <1>7
<1>8. CASE cut
  <2>1. c = ";" /\ c # "-" /\ c # "/" /\ c \notin Quotes BY <1>3, <1>8 DEF Quotes
  <2>2. ScanCode(st, c, next) = Flush(st) BY <2>1, Zenon DEF ScanCode
  <2>3. ~line /\ ~block BY <1>3, <2>1
  <2> QED BY <2>1, <2>2, <2>3, <1>2, <1>4, <1>8
<1>9. CASE ~line /\ ~block /\ c \notin Quotes /\ ~cut
  <2>1. ~(c = "-" /\ next = "-") /\ ~(c = "/" /\ next = "*") /\ c # ";" BY <1>3, <1>9
  <2>2. ScanCode(st, c, next) = Write(st, c) BY <2>1, <1>9, Zenon DEF ScanCode
  <2> QED BY <2>2, <1>1, <1>4, <1>9
<1> QED BY <1>5, <1>6, <1>7, <1>8, <1>9

\* A single token of code.
LEMMA ScansToken ==
  ASSUME NEW sql, Len(sql) \in Nat, NEW i \in 1..Len(sql), NEW x, NEW d,
         Scanned(sql)[i - 1] = State("code", 0, x, d),
         sql[i] \notin Quotes, ~IsComment(sql, i)
  PROVE  Between(sql, i, IF IsCut(sql, i) THEN <<>> ELSE Plus(x, sql[i]),
                         IF IsCut(sql, i) THEN Put(d, x) ELSE d)
<1>2. ~IsLineComment(sql, i) /\ ~IsBlockComment(sql, i)
  BY DEF IsComment
<1>3. CASE IsCut(sql, i)
  <2>1. Scanned(sql)[i] = State("code", 0, <<>>, Put(d, x))
    BY <1>2, <1>3, ScansCode
  <2>2. Between(sql, i, <<>>, Put(d, x))
    BY <2>1, Zenon DEF Between
  <2> QED BY <1>3, <2>2
<1>4. CASE ~IsCut(sql, i)
  <2>1. Scanned(sql)[i] = State("code", 0, Plus(x, sql[i]), d)
    BY <1>2, <1>4, ScansCode
  <2>2. Between(sql, i, Plus(x, sql[i]), d)
    BY <2>1, Zenon DEF Between
  <2> QED BY <1>4, <2>2
<1> QED BY <1>3, <1>4

\* A line comment: its tokens leave the statement as it is, up to the line's end.
LEMMA ScansLineComment ==
  ASSUME NEW sql, Len(sql) \in Nat, NEW i \in 1..Len(sql), NEW x, NEW d,
         Scanned(sql)[i - 1] = State("code", 0, x, d), IsLineComment(sql, i)
  PROVE  Between(sql, LexemeEnd(sql, i), x, d)
<1> DEFINE g == Scanned(sql)
           ends == LineCommentEnds(sql, i)
           e == LexemeEnd(sql, i)
           line == State("line", 0, x, d)
<1>1. e \in i..Len(sql) /\ (ends # {} => e \in ends) /\ (ends = {} => e = Len(sql)) /\ \A j \in ends : e <= j
  <2>1. ends \subseteq i..Len(sql) BY DEF LineCommentEnds
  <2>2. e = EndAt(sql, ends) BY LineCommentEnd
  <2>3. ends = {} => e = Len(sql) BY <2>2 DEF EndAt
  <2> HIDE DEF ends, e
  <2>4. /\ EndAt(sql, ends) \in i..Len(sql)
        /\ ends # {} => EndAt(sql, ends) \in ends
        /\ \A j \in ends : EndAt(sql, ends) <= j
    BY <2>1, EndIsWithin
  <2> QED BY <2>2, <2>3, <2>4
<1>2. sql[i] = "-" /\ i \notin ends /\ g[i] = line
  <2>1. sql[i] = "-" /\ Peek(sql, i) = "-" BY DEF IsLineComment
  <2>3. g[i] = line BY ScansCode
  <2> QED BY <2>1, <2>3 DEF LineCommentEnds
<1>3. \A j \in 1..Len(sql) : g[j - 1] = line =>
         g[j] = IF sql[j] = "\n" THEN State("code", 0, x, d) ELSE line
  <2> TAKE j \in 1..Len(sql)
  <2>1. g[j] = Scan(g[j - 1], sql[j], Peek(sql, j)) BY ScannedStep
  <2>2. Scan(line, sql[j], Peek(sql, j)) = IF sql[j] = "\n" THEN State("code", 0, x, d) ELSE line
    BY ScanInComment
  <2> QED BY <2>1, <2>2
<1>4. \A j \in i..Len(sql) : (j < e \/ ends = {}) => g[j] = line
  <2> DEFINE S == {j \in i..Len(sql) : (j < e \/ ends = {}) => g[j] = line}
  <2>1. i \in S
    BY <1>2
  <2>2. \A j \in i..(Len(sql) - 1) : j \in S => j + 1 \in S
    <3> HIDE DEF g, line
    <3> SUFFICES ASSUME NEW j \in i..(Len(sql) - 1), j \in S, j + 1 < e \/ ends = {}
                 PROVE  g[j + 1] = line
      OBVIOUS
    <3>1. j + 1 \in 1..Len(sql) /\ j + 1 \in i..Len(sql) /\ (j + 1) - 1 = j /\ (j < e \/ ends = {})
      BY <1>1
    <3>2. sql[j + 1] # "\n"
      BY <1>1, <3>1 DEF LineCommentEnds
    <3>3. g[j] = line
      <4> HIDE DEF ends, e
      <4> QED BY <3>1
    <3> HIDE DEF S
    <3> QED BY <1>3, <3>1, <3>2, <3>3
  <2>3. \A j \in i..Len(sql) : j \in S
    <3>1. i \in Int /\ Len(sql) \in Int OBVIOUS
    <3> HIDE DEF S
    <3> QED BY ONLY <3>1, <2>1, <2>2, Upward, Zenon
  <2> HIDE DEF g, line, ends, e
  <2> QED BY <2>3
<1>5. CASE ends = {}
  <2>1. e = Len(sql) /\ g[e] = line
    BY <1>1, <1>4, <1>5
  <2>2. ~(e < Len(sql)) BY <2>1
  <2> QED BY <2>1, <2>2, Zenon DEF Between
<1>6. CASE ends # {}
  <2>1. e \in ends
    BY <1>1, <1>6
  <2>2. sql[e] = "\n" /\ e # i
    BY <2>1, <1>2 DEF LineCommentEnds
  <2>3. e - 1 \in i..Len(sql) /\ e - 1 < e /\ e \in 1..Len(sql)
    BY <1>1, <2>2
  <2>4. g[e - 1] = line
    <3> HIDE DEF g, line, ends, e
    <3> QED BY <1>4, <2>3
  <2>5. g[e] = State("code", 0, x, d)
    <3> HIDE DEF g, line, ends, e
    <3> QED BY <1>3, <2>2, <2>3, <2>4
  <2> QED BY <2>5, Zenon DEF Between
<1> QED BY <1>5, <1>6

\* A block comment likewise, up to the */ that the reference finds.
LEMMA ScansBlockComment ==
  ASSUME NEW sql, Len(sql) \in Nat, NEW i \in 1..Len(sql), NEW x, NEW d,
         Scanned(sql)[i - 1] = State("code", 0, x, d), IsBlockComment(sql, i)
  PROVE  Between(sql, LexemeEnd(sql, i), x, d)
<1> DEFINE g == Scanned(sql)
           ends == BlockCommentEnds(sql, i)
           e == LexemeEnd(sql, i)
           block == State("block", 0, x, d)
<1>1. e \in i..Len(sql) /\ (ends # {} => e \in ends) /\ (ends = {} => e = Len(sql)) /\ \A j \in ends : e <= j
  <2>1. ends \subseteq i..Len(sql) BY DEF BlockCommentEnds
  <2>2. e = EndAt(sql, ends) BY BlockCommentEnd
  <2>3. ends = {} => e = Len(sql) BY <2>2 DEF EndAt
  <2> HIDE DEF ends, e
  <2>4. /\ EndAt(sql, ends) \in i..Len(sql)
        /\ ends # {} => EndAt(sql, ends) \in ends
        /\ \A j \in ends : EndAt(sql, ends) <= j
    BY <2>1, EndIsWithin
  <2> QED BY <2>2, <2>3, <2>4
<1>2. i + 1 \in 1..Len(sql) /\ g[i + 1] = block
  <2>1. sql[i] = "/" /\ Peek(sql, i) = "*" BY DEF IsBlockComment
  <2>2. ~IsLineComment(sql, i) BY <2>1 DEF IsLineComment
  <2>3. g[i] = State("block", 1, x, d) BY <2>2, ScansCode
  <2>4. i + 1 \in 1..Len(sql) /\ (i + 1) - 1 = i
    <3>1. i < Len(sql) BY ONLY <2>1, PeekIs, Len(sql) \in Nat, i \in 1..Len(sql)
    <3>2. Len(sql) \in Nat /\ i \in 1..Len(sql) OBVIOUS
    <3> QED BY ONLY <3>1, <3>2
  <2>5. g[i + 1] = Scan(g[i], sql[i + 1], Peek(sql, i + 1)) BY <2>4, ScannedStep
  <2>6. g[i + 1] = block BY <2>3, <2>5, ScanSkips
  <2> QED BY <2>4, <2>6
<1>3. \A j \in 1..Len(sql) :
         g[j - 1] = block =>
           g[j] = IF sql[j] = "*" /\ Peek(sql, j) = "/" THEN State("code", 1, x, d) ELSE block
  <2> TAKE j \in 1..Len(sql)
  <2>1. g[j] = Scan(g[j - 1], sql[j], Peek(sql, j)) BY ScannedStep
  <2>2. Scan(block, sql[j], Peek(sql, j)) =
          IF sql[j] = "*" /\ Peek(sql, j) = "/" THEN State("code", 1, x, d) ELSE block
    BY ScanInComment
  <2> QED BY <2>1, <2>2
<1>4. \A j \in (i + 1)..Len(sql) : (j < e - 1 \/ ends = {}) => g[j] = block
  <2> DEFINE S == {j \in (i + 1)..Len(sql) : (j < e - 1 \/ ends = {}) => g[j] = block}
  <2>1. i + 1 \in S
    BY <1>2
  <2>2. \A j \in (i + 1)..(Len(sql) - 1) : j \in S => j + 1 \in S
    <3> HIDE DEF g, block
    <3> SUFFICES ASSUME NEW j \in (i + 1)..(Len(sql) - 1), j \in S, j + 1 < e - 1 \/ ends = {}
                 PROVE  g[j + 1] = block
      OBVIOUS
    <3>1. j + 1 \in 1..Len(sql) /\ j + 1 \in i..Len(sql) /\ (j + 1) - 1 = j /\ (j < e - 1 \/ ends = {})
      BY <1>1
    <3>2. ~(sql[j + 1] = "*" /\ Peek(sql, j + 1) = "/")
      <4> SUFFICES ASSUME sql[j + 1] = "*", Peek(sql, j + 1) = "/" PROVE FALSE
        OBVIOUS
      <4>1. j + 1 < Len(sql) /\ sql[(j + 1) + 1] = "/"
        BY <3>1, PeekIs
      <4>2. j + 2 \in (i + 3)..Len(sql) /\ sql[j + 2] = "/" /\ (j + 2) - 1 = j + 1
        BY <4>1
      <4>3. j + 2 \in ends
        BY <4>2 DEF BlockCommentEnds
      <4> HIDE DEF ends, e
      <4>4. e <= j + 2 /\ ends # {}
        BY <1>1, <4>3
      <4> QED BY <1>1, <4>4
    <3>3. g[j] = block
      <4> HIDE DEF ends, e
      <4> QED BY <3>1
    <3> HIDE DEF S
    <3> QED BY <1>3, <3>1, <3>2, <3>3
  <2>3. \A j \in (i + 1)..Len(sql) : j \in S
    <3>1. i + 1 \in Int /\ Len(sql) \in Int OBVIOUS
    <3> HIDE DEF S
    <3> QED BY ONLY <3>1, <2>1, <2>2, Upward, Zenon
  <2> HIDE DEF g, block, ends, e
  <2> QED BY <2>3
<1>5. CASE ends = {}
  <2>1. e = Len(sql) BY <1>1, <1>5
  <2>2. e \in (i + 1)..Len(sql) BY <1>2, <2>1
  <2>3. g[e] = block
    <3> HIDE DEF g, block, ends, e
    <3> QED BY <1>4, <1>5, <2>2
  <2>4. ~(e < Len(sql)) BY <2>1
  <2> QED BY <2>3, <2>4, Zenon DEF Between
<1>6. CASE ends # {}
  <2>1. e \in ends
    BY <1>1, <1>6
  <2>2. e \in (i + 3)..Len(sql) /\ sql[e - 1] = "*" /\ sql[e] = "/"
    BY <2>1 DEF BlockCommentEnds
  <2>3. /\ e - 2 \in (i + 1)..Len(sql) /\ e - 2 < e - 1 /\ e \in 1..Len(sql) /\ e - 1 \in 1..Len(sql)
        /\ (e - 1) - 1 = e - 2 /\ (e - 1) + 1 = e /\ e - 1 < Len(sql)
    <3> HIDE DEF e
    <3> QED BY <2>2
  <2>4. g[e - 2] = block
    <3> HIDE DEF g, block, ends, e
    <3> QED BY <1>4, <2>3
  <2>5. Peek(sql, e - 1) = "/"
    <3> HIDE DEF e
    <3> QED BY <2>2, <2>3, PeekIs
  <2>6. g[e - 1] = State("code", 1, x, d)
    <3> HIDE DEF g, block, ends, e
    <3> QED BY <1>3, <2>2, <2>3, <2>4, <2>5
  <2>7. g[e] = Scan(g[e - 1], sql[e], Peek(sql, e))
    <3> HIDE DEF e
    <3> QED BY <2>3, ScannedStep
  <2>8. g[e] = State("code", 0, x, d)
    BY <2>6, <2>7, ScanSkips
  <2> QED BY <2>8, Zenon DEF Between
<1> QED BY <1>5, <1>6

\* A quoted lexeme: every token of it is written, and the pass is in code again
\* where the reference ends it.  While the number of quotes is odd the pass is in
\* the literal; while it is even, it has half of a doubled quote through already.
LEMMA ScansQuoted ==
  ASSUME NEW T, NEW sql \in Seq(T), NEW i \in 1..Len(sql), NEW x \in Seq(T), NEW d,
         Scanned(sql)[i - 1] = State("code", 0, x, d), sql[i] \in Quotes
  PROVE  Between(sql, LexemeEnd(sql, i), x \o SubSeq(sql, i, LexemeEnd(sql, i)), d)
<1> DEFINE g == Scanned(sql)
           e == LexemeEnd(sql, i)
           q == sql[i]
           upto(j) == Upto(x, sql, i, j)
           In(j) == g[j] = State(q, 0, upto(j), d)
           Half(j) == g[j] = State(q, 1, upto(j + 1), d)
<1>0. Len(sql) \in Nat
  BY LenProperties
<1>1. /\ e \in i..Len(sql)
      /\ \A j \in i..(e - 1) : ~Odd(sql, i, j) => sql[j] = q /\ sql[j + 1] = q
      /\ \/ e > i /\ sql[e] = q /\ Peek(sql, e) # q /\ ~Odd(sql, i, e) /\ Odd(sql, i, e - 1)
         \/ e = Len(sql) /\ Odd(sql, i, e)
  BY <1>0, QuotedLexeme
<1>2. \A j \in (i - 1)..(Len(sql) - 1) : Plus(upto(j), sql[j + 1]) = upto(j + 1)
  BY Grows
<1>3. q # "end" /\ q # "-" /\ q # "/" /\ q # ";"
  BY DEF Quotes
<1>4. In(i)
  <2>1. ~IsLineComment(sql, i) /\ ~IsBlockComment(sql, i)
    BY <1>3 DEF IsLineComment, IsBlockComment
  <2>2. g[i] = State(q, 0, Plus(x, q), d)
    <3>1. Scanned(sql)[i] =
            IF IsLineComment(sql, i) THEN State("line", 0, x, d)
            ELSE IF IsBlockComment(sql, i) THEN State("block", 1, x, d)
            ELSE IF sql[i] \in Quotes THEN State(sql[i], 0, Plus(x, sql[i]), d)
            ELSE IF IsCut(sql, i) THEN State("code", 0, <<>>, Put(d, x))
            ELSE State("code", 0, Plus(x, sql[i]), d)
      BY <1>0, ScansCode, Zenon
    <3> QED BY <2>1, <3>1, Zenon
  <2>3. Plus(x, q) = upto(i)
    <3>1. i - 1 \in (i - 1)..(Len(sql) - 1) /\ (i - 1) + 1 = i BY <1>0
    <3>2. SubSeq(sql, i, i - 1) = <<>> BY <1>0
    <3>3. x \o <<>> = x OBVIOUS
    <3>4. Plus(upto(i - 1), sql[(i - 1) + 1]) = upto((i - 1) + 1)
      BY <1>2, <3>1
    <3>5. upto(i - 1) = x BY <3>2, <3>3 DEF Upto
    <3> QED BY <3>1, <3>4, <3>5
  <2> QED BY <2>2, <2>3
<1>5. \A j \in i..(Len(sql) - 1) :
         In(j) => IF sql[j + 1] # q THEN In(j + 1)
                  ELSE IF Peek(sql, j + 1) = q THEN g[j + 1] = State(q, 1, Plus(upto(j + 1), q), d)
                  ELSE g[j + 1] = State("code", 0, upto(j + 1), d)
  <2> SUFFICES ASSUME NEW j \in i..(Len(sql) - 1), In(j)
               PROVE  IF sql[j + 1] # q THEN In(j + 1)
                      ELSE IF Peek(sql, j + 1) = q THEN g[j + 1] = State(q, 1, Plus(upto(j + 1), q), d)
                      ELSE g[j + 1] = State("code", 0, upto(j + 1), d)
    OBVIOUS
  <2>1. j + 1 \in 1..Len(sql) /\ (j + 1) - 1 = j /\ j \in (i - 1)..(Len(sql) - 1)
    BY <1>0
  <2>2. g[j + 1] = Scan(g[j], sql[j + 1], Peek(sql, j + 1))
    BY <1>0, <2>1, ScannedStep
  <2>3. Plus(upto(j), sql[j + 1]) = upto(j + 1)
    BY <1>2, <2>1
  <2> HIDE DEF upto, g, q
  <2>4. g[j + 1] = IF sql[j + 1] # q THEN State(q, 0, Plus(upto(j), sql[j + 1]), d)
                   ELSE IF Peek(sql, j + 1) = q
                   THEN State(q, 1, Plus(Plus(upto(j), sql[j + 1]), Peek(sql, j + 1)), d)
                   ELSE State("code", 0, Plus(upto(j), sql[j + 1]), d)
    <3>1. q \in Quotes BY DEF q
    <3> QED BY <2>2, <3>1, ScanInQuotes
  <2> QED BY <2>3, <2>4
<1>6. \A j \in i..(e - 1) : IF Odd(sql, i, j) THEN In(j) ELSE Half(j)
  <2> DEFINE S == {j \in i..(e - 1) : IF Odd(sql, i, j) THEN In(j) ELSE Half(j)}
  <2>1. e > i => i \in S
    <3>1. i \in Int BY <1>0
    <3>2. Odd(sql, i, i) BY <3>1, OddFirst
    <3>3. e > i => i \in i..(e - 1) BY <1>0, <1>1
    <3> HIDE DEF In, Half
    <3> QED BY <1>4, <3>2, <3>3
  <2>2. \A j \in i..((e - 1) - 1) : j \in S => j + 1 \in S
    <3> SUFFICES ASSUME NEW j \in i..((e - 1) - 1), j \in S
                 PROVE  IF Odd(sql, i, j + 1) THEN In(j + 1) ELSE Half(j + 1)
      BY <1>0, <1>1
    <3> HIDE DEF In, Half, upto, g, q, e
    <3>1. /\ j + 1 \in 1..Len(sql) /\ j + 1 \in i..(e - 1) /\ (j + 1) - 1 = j /\ i \in Int /\ j \in Int
          /\ i <= j /\ j \in i..(Len(sql) - 1) /\ j \in i..(e - 1) /\ j + 1 < Len(sql)
          /\ j + 1 \in (i - 1)..(Len(sql) - 1)
      BY <1>0, <1>1
    <3>2. IF Odd(sql, i, j) THEN In(j) ELSE Half(j)
      OBVIOUS
    <3>3. CASE Odd(sql, i, j) /\ sql[j + 1] # q
      <4>1. Odd(sql, i, j + 1) BY <3>1, <3>3, OddNext DEF q
      <4>2. In(j + 1) BY <1>5, <3>1, <3>2, <3>3
      <4> QED BY <4>1, <4>2
    <3>4. CASE Odd(sql, i, j) /\ sql[j + 1] = q
      <4>1. ~Odd(sql, i, j + 1) BY <3>1, <3>4, OddNext DEF q
      <4>2. sql[(j + 1) + 1] = q BY <1>1, <3>1, <4>1
      <4>3. Peek(sql, j + 1) = q BY <1>0, <1>3, <3>1, <4>2, PeekIs
      <4>4. g[j + 1] = State(q, 1, Plus(upto(j + 1), q), d) BY <1>5, <3>1, <3>2, <3>4, <4>3
      <4>5. Plus(upto(j + 1), sql[(j + 1) + 1]) = upto((j + 1) + 1) BY <1>2, <3>1
      <4>6. Half(j + 1) BY <4>2, <4>4, <4>5 DEF Half
      <4> QED BY <4>1, <4>6
    <3>5. CASE ~Odd(sql, i, j)
      <4>1. sql[j + 1] = q BY <1>1, <3>1, <3>5
      <4>2. Odd(sql, i, j + 1) BY <3>1, <3>5, <4>1, OddNext DEF q
      <4>3. g[j + 1] = Scan(g[j], sql[j + 1], Peek(sql, j + 1)) BY <1>0, <3>1, ScannedStep DEF g
      <4>4. g[j + 1] = State(q, 0, upto(j + 1), d) BY <3>2, <3>5, <4>3, ScanSkips DEF Half
      <4> QED BY <4>2, <4>4 DEF In
    <3> QED BY <3>3, <3>4, <3>5
  <2>3. CASE e > i
    <3>1. i \in Int /\ e - 1 \in Int BY <1>0, <1>1
    <3>2. \A j \in i..(e - 1) : j \in S
      <4> HIDE DEF S, e
      <4>1. i \in S BY <2>1, <2>3
      <4> QED BY ONLY <3>1, <4>1, <2>2, Upward, Zenon
    <3> HIDE DEF In, Half, e
    <3> QED BY <3>2
  <2>4. CASE ~(e > i)
    <3>1. e = i BY <1>0, <1>1, <2>4
    <3>2. i..(i - 1) = {} BY <1>0
    <3> HIDE DEF In, Half, e
    <3> QED BY <3>1, <3>2
  <2> QED BY <2>3, <2>4
<1>7. CASE e > i /\ sql[e] = q /\ Peek(sql, e) # q /\ ~Odd(sql, i, e) /\ Odd(sql, i, e - 1)
  <2> HIDE DEF In, Half, upto, g, q, e
  <2>1. e - 1 \in i..(e - 1) /\ (e - 1) + 1 = e /\ e - 1 \in i..(Len(sql) - 1)
    BY <1>0, <1>1, <1>7
  <2>2. In(e - 1) BY <1>6, <1>7, <2>1
  <2>3. g[e] = State("code", 0, upto(e), d) BY <1>5, <1>7, <2>1, <2>2
  <2>4. Between(sql, e, upto(e), d) BY <2>3, Zenon DEF Between, g
  <2> QED BY <2>4 DEF upto, e, Upto
<1>8. CASE e = Len(sql) /\ Odd(sql, i, e)
  <2> HIDE DEF Half, upto, g, q, e
  <2>1. In(e)
    <3>1. CASE e = i BY <1>4, <3>1
    <3>2. CASE e # i
      <4>1. /\ e - 1 \in i..(e - 1) /\ (e - 1) + 1 = e /\ e - 1 \in i..(Len(sql) - 1) /\ e \in 1..Len(sql)
            /\ i \in Int /\ e - 1 \in Int /\ i <= e - 1
        BY <1>0, <1>1, <3>2
      <4>2. IF Odd(sql, i, e - 1) THEN In(e - 1) ELSE Half(e - 1) BY <1>6, <4>1
      <4> HIDE DEF In
      <4>3. CASE Odd(sql, i, e - 1)
        <5>1. sql[e] # q BY <1>8, <4>1, <4>3, OddNext DEF q
        <5> QED BY <1>5, <4>1, <4>2, <4>3, <5>1
      <4>4. CASE ~Odd(sql, i, e - 1)
        <5>1. g[e] = Scan(g[e - 1], sql[e], Peek(sql, e)) BY <1>0, <4>1, ScannedStep DEF g
        <5>2. g[e - 1] = State(q, 1, upto(e), d) BY <4>1, <4>2, <4>4 DEF Half
        <5> QED BY <5>1, <5>2, ScanSkips DEF In
      <4> QED BY <4>3, <4>4
    <3> QED BY <3>1, <3>2
  <2>2. ~(e < Len(sql)) BY <1>0, <1>8
  <2>3. Between(sql, e, upto(e), d) BY <2>1, <2>2, Zenon DEF Between, g
  <2> QED BY <2>3 DEF upto, e, Upto
<1> QED BY <1>1, <1>7, <1>8

-----------------------------------------------------------------------------
\* The statements.

\* Trimming is taking a piece.
LEMMA TrimType ==
  ASSUME NEW T, NEW s \in Seq(T)
  PROVE  Trim(s) \in Seq(T)
<1> DEFINE body == {i \in DOMAIN s : s[i] \notin Space}
<1>0. Len(s) \in Nat /\ DOMAIN s = 1..Len(s)
  BY LenProperties
<1>1. CASE body = {}
  BY <1>1 DEF Trim
<1>2. CASE body # {}
  <2>1. body \subseteq 1..Len(s) BY <1>0
  <2>2. Min(body) \in body /\ Max(body) \in body
    <3> HIDE DEF body
    <3> QED BY <1>0, <1>2, <2>1, FirstPosition, LastPosition
  <2>3. Trim(s) = SubSeq(s, Min(body), Max(body))
    BY <1>2 DEF Trim
  <2>4. PICK a \in 1..Len(s), b \in 1..Len(s) : Trim(s) = SubSeq(s, a, b)
    <3> HIDE DEF body
    <3>1. Min(body) \in 1..Len(s) /\ Max(body) \in 1..Len(s) BY <2>1, <2>2
    <3> QED BY <2>3, <3>1, Zenon
  <2>5. \A m \in a..b : s[m] \in T
    BY <1>0, ElementOfSeq
  <2>6. SubSeq(s, a, b) \in Seq(T)
    BY <1>0, <2>5, SubSeqProperties
  <2> QED BY <2>4, <2>6
<1> QED BY <1>1, <1>2

\* What a text says from a token on is a piece and statements.
Pieces(T) == [piece : Seq(T), later : Seq(Seq(T))]

\* The statements of a piece and what follows it.
LEMMA CutType ==
  ASSUME NEW T, NEW r \in Pieces(T)
  PROVE  Cut(r) \in Seq(Seq(T))
<1>1. r.piece \in Seq(T) /\ r.later \in Seq(Seq(T))
  BY DEF Pieces
<1>2. Trim(r.piece) \in Seq(T)
  BY <1>1, TrimType
<1>3. <<Trim(r.piece)>> \in Seq(Seq(T))
  BY <1>2
<1>4. <<Trim(r.piece)>> \o r.later \in Seq(Seq(T))
  BY <1>1, <1>3, ConcatProperties
<1> QED BY <1>1, <1>4 DEF Cut

\* A piece with l before it.
Before(l, r) == [r EXCEPT !.piece = l \o r.piece]

\* The three cases of Said: a semicolon, a comment, another lexeme.
LEMMA SaidCut ==
  ASSUME NEW sql, NEW i, NEW r, NEW v, IsCut(sql, i)
  PROVE  Said(sql, i, r, v) = [piece |-> <<>>, later |-> Cut(r)]
<1>1. sql[i] = ";" /\ ~IsComment(sql, i)
  BY DEF IsCut, IsComment, IsLineComment, IsBlockComment
<1> QED BY <1>1, Zenon DEF Said

LEMMA SaidComment ==
  ASSUME NEW sql, NEW i, NEW r, NEW v, IsComment(sql, i)
  PROVE  Said(sql, i, r, v) = r
<1>1. sql[i] # ";"
  BY DEF IsComment, IsLineComment, IsBlockComment
<1> QED BY <1>1, Zenon DEF Said

LEMMA SaidLexeme ==
  ASSUME NEW sql, NEW i, NEW r, NEW v, ~IsCut(sql, i), ~IsComment(sql, i)
  PROVE  Said(sql, i, r, v) = Before(Lexeme(sql, i, v), r)
<1>1. sql[i] # ";"
  BY DEF IsCut
<1>2. Said(sql, i, r, v) = [r EXCEPT !.piece = Lexeme(sql, i, v) \o r.piece]
  BY <1>1, Zenon DEF Said
<1> QED BY <1>2 DEF Before

\* A lexeme is a text of the same tokens.
LEMMA LexemeType ==
  ASSUME NEW T, NEW sql \in Seq(T), NEW i \in 1..Len(sql)
  PROVE  SubSeq(sql, i, LexemeEnd(sql, i)) \in Seq(T)
<1> DEFINE e == LexemeEnd(sql, i)
<1>1. Len(sql) \in Nat
  BY LenProperties
<1>2. e \in i..Len(sql)
  BY <1>1, LexemeIsWithin
<1> HIDE DEF e
<1>3. \A m \in i..e : sql[m] \in T
  BY <1>1, <1>2, ElementOfSeq
<1>4. i \in Int /\ e \in Int
  BY <1>1, <1>2
<1>5. SubSeq(sql, i, e) \in Seq(T)
  BY <1>3, <1>4, SubSeqProperties
<1> QED BY <1>5 DEF e

\* One step of From.
LEMMA FromStep ==
  ASSUME NEW sql, Len(sql) \in Nat, NEW v
  PROVE  /\ From(sql, v)[Len(sql) + 1] = Nothing
         /\ \A i \in 1..Len(sql) :
              From(sql, v)[i] = Said(sql, i, From(sql, v)[LexemeEnd(sql, i) + 1], v)
<1> DEFINE f == From(sql, v)
<1>1. f = [i \in 1..(Len(sql) + 1) |->
              IF i > Len(sql) THEN Nothing ELSE Said(sql, i, f[LexemeEnd(sql, i) + 1], v)]
  BY FromRec
<1> HIDE DEF f
<1>2. f[Len(sql) + 1] = Nothing
  BY <1>1
<1>3. \A i \in 1..Len(sql) : f[i] = Said(sql, i, f[LexemeEnd(sql, i) + 1], v)
  BY <1>1
<1> QED BY <1>2, <1>3 DEF f

\* A property of what a text says from each lexeme on, from the last to the first.
LEMMA FromType ==
  ASSUME NEW T, NEW sql \in Seq(T), NEW v \in BOOLEAN,
         NEW U, U = T \cup (IF v THEN {} ELSE {"literal"})
  PROVE  \A i \in 1..(Len(sql) + 1) : From(sql, v)[i] \in Pieces(U)
<1> DEFINE f == From(sql, v)
           N == Len(sql) + 1
           S == {i \in 1..N : f[i] \in Pieces(U)}
<1>0. Len(sql) \in Nat
  BY LenProperties
<1>1. N \in S
  <2>1. f[N] = Nothing BY <1>0, FromStep
  <2>2. Nothing \in Pieces(U) BY DEF Nothing, Pieces
  <2>3. N \in 1..N BY <1>0
  <2> QED BY <2>1, <2>2, <2>3
<1>2. \A i \in 1..(N - 1) : (\A m \in (i + 1)..N : m \in S) => i \in S
  <2> SUFFICES ASSUME NEW i \in 1..(N - 1), \A m \in (i + 1)..N : m \in S
               PROVE  f[i] \in Pieces(U)
    <3>1. \A i \in 1..(N - 1) : i \in 1..N BY <1>0
    <3> HIDE DEF N, f
    <3> QED BY <3>1
  <2> DEFINE r == f[LexemeEnd(sql, i) + 1]
  <2>1. i \in 1..Len(sql) /\ LexemeEnd(sql, i) + 1 \in (i + 1)..N
    <3>1. i \in 1..Len(sql) BY <1>0
    <3> QED BY <1>0, <3>1, LexemeIsWithin
  <2>2. r \in Pieces(U) BY <2>1
  <2>3. f[i] = Said(sql, i, r, v) BY <1>0, <2>1, FromStep
  <2> HIDE DEF r, S, f, N
  <2>4. CASE IsCut(sql, i)
    <3>1. f[i] = [piece |-> <<>>, later |-> Cut(r)] BY <2>3, <2>4, SaidCut
    <3>2. Cut(r) \in Seq(Seq(U)) BY <2>2, CutType
    <3> QED BY <3>1, <3>2 DEF Pieces
  <2>5. CASE IsComment(sql, i)
    BY <2>2, <2>3, <2>5, SaidComment
  <2>6. CASE ~IsCut(sql, i) /\ ~IsComment(sql, i)
    <3> DEFINE l == Lexeme(sql, i, v)
    <3>1. f[i] = Before(l, r) BY <2>3, <2>6, SaidLexeme
    <3>2. l \in Seq(U)
      <4>1. SubSeq(sql, i, LexemeEnd(sql, i)) \in Seq(T) BY <2>1, LexemeType
      <4>2. SubSeq(sql, i, LexemeEnd(sql, i)) \in Seq(U) BY <4>1, SeqMonotonic
      <4>3. ~v => <<"literal">> \in Seq(U) OBVIOUS
      <4> QED BY <4>2, <4>3 DEF Lexeme
    <3> HIDE DEF l
    <3>3. r.piece \in Seq(U) BY <2>2 DEF Pieces
    <3>4. l \o r.piece \in Seq(U) BY <3>2, <3>3, ConcatProperties
    <3> QED BY <2>2, <3>1, <3>4 DEF Pieces, Before
  <2> QED BY <2>4, <2>5, <2>6
<1>3. \A i \in 1..N : i \in S
  <2>1. 1 \in Int /\ N \in Int BY <1>0
  <2> HIDE DEF S, N
  <2> QED BY ONLY <2>1, <1>1, <1>2, Downward, Zenon
<1> QED BY <1>3

\* The statements d, then the piece x and what follows it.
Joined(d, x, r) == d \o Cut([piece |-> x \o r.piece, later |-> r.later])

\* At the end of the text, the piece in hand is the last statement.
LEMMA JoinedEnd ==
  ASSUME NEW T, NEW x \in Seq(T), NEW d \in Seq(Seq(T))
  PROVE  Joined(d, x, Nothing) = Put(d, x)
<1>1. [piece |-> x \o Nothing.piece, later |-> Nothing.later] = [piece |-> x, later |-> <<>>]
  BY DEF Nothing
<1>2. Trim(x) \in Seq(T)
  BY TrimType
<1>3. Cut([piece |-> x, later |-> <<>>]) = IF Trim(x) = <<>> THEN <<>> ELSE <<Trim(x)>> \o <<>>
  BY DEF Cut
<1> DEFINE t == Trim(x)
<1> HIDE DEF t
<1>4. t \in Seq(T)
  BY <1>2 DEF t
<1>5. d \o <<>> = d /\ d \o (<<t>> \o <<>>) = Append(d, t)
  BY <1>4
<1> QED BY <1>1, <1>3, <1>5 DEF Joined, Put, t

\* A semicolon ends the piece in hand.
LEMMA JoinedCut ==
  ASSUME NEW T, NEW x \in Seq(T), NEW d \in Seq(Seq(T)), NEW r \in Pieces(T)
  PROVE  Joined(d, x, [piece |-> <<>>, later |-> Cut(r)]) = Joined(Put(d, x), <<>>, r)
<1> DEFINE c == Cut(r)
           t == Trim(x)
<1>1. t \in Seq(T) /\ c \in Seq(Seq(T))
  BY TrimType, CutType
<1>2. Joined(d, x, [piece |-> <<>>, later |-> c]) = IF t = <<>> THEN d \o c ELSE d \o (<<t>> \o c)
  <2>1. x \o <<>> = x OBVIOUS
  <2> HIDE DEF c
  <2> QED BY <2>1 DEF Joined, Cut
<1>3. [piece |-> <<>> \o r.piece, later |-> r.later] = r
  <2>1. r.piece \in Seq(T) BY DEF Pieces
  <2>2. <<>> \o r.piece = r.piece BY <2>1
  <2> QED BY <2>2 DEF Pieces
<1>4. Joined(Put(d, x), <<>>, r) = IF t = <<>> THEN d \o c ELSE Append(d, t) \o c
  BY <1>3 DEF Joined, Put
<1> HIDE DEF c, t
<1>5. d \o (<<t>> \o c) = Append(d, t) \o c
  <2> DEFINE U == Seq(T)
  <2>1. d \in Seq(U) /\ t \in U /\ c \in Seq(U)
    BY <1>1, Zenon
  <2> HIDE DEF U
  <2>2. <<t>> \in Seq(U) /\ Append(d, t) = d \o <<t>>
    BY ONLY <2>1, AppendIsConcat
  <2>3. (d \o <<t>>) \o c = d \o (<<t>> \o c)
    BY ONLY <2>1, <2>2, ConcatAssociative
  <2> QED BY ONLY <2>2, <2>3
<1> DEFINE lhs == Joined(d, x, [piece |-> <<>>, later |-> c])
           rhs == Joined(Put(d, x), <<>>, r)
<1>6. lhs = rhs
  <2>1. lhs = IF t = <<>> THEN d \o c ELSE d \o (<<t>> \o c) BY <1>2
  <2>2. rhs = IF t = <<>> THEN d \o c ELSE Append(d, t) \o c BY <1>4
  <2> HIDE DEF lhs, rhs
  <2> QED BY <1>5, <2>1, <2>2
<1> QED BY <1>6 DEF c

\* A lexeme goes from what follows to the piece in hand.
LEMMA JoinedLexeme ==
  ASSUME NEW T, NEW x \in Seq(T), NEW d, NEW r \in Pieces(T), NEW l \in Seq(T)
  PROVE  Joined(d, x, Before(l, r)) = Joined(d, x \o l, r)
<1>1. r.piece \in Seq(T)
  BY DEF Pieces
<1> DEFINE p == r.piece
           n == Before(l, r)
<1>2. n.piece = l \o p /\ n.later = r.later
  BY DEF Pieces, Before
<1>3. x \o (l \o p) = (x \o l) \o p
  <2> HIDE DEF p
  <2>1. p \in Seq(T) BY <1>1 DEF p
  <2> QED BY <2>1
<1> HIDE DEF n
<1>4. Joined(d, x, n) = Joined(d, x \o l, r)
  BY <1>2, <1>3 DEF Joined
<1> QED BY <1>4 DEF n

\* Statements and one more.
LEMMA PutType ==
  ASSUME NEW T, NEW x \in Seq(T), NEW d \in Seq(Seq(T))
  PROVE  Put(d, x) \in Seq(Seq(T))
<1>1. Trim(x) \in Seq(T)
  BY TrimType
<1>2. Append(d, Trim(x)) \in Seq(Seq(T))
  BY <1>1, AppendProperties
<1> QED BY <1>2 DEF Put

\* One token more is a lexeme of one token more.
LEMMA PlusIsOne ==
  ASSUME NEW T, NEW sql \in Seq(T), NEW i \in 1..Len(sql), NEW x \in Seq(T)
  PROVE  Plus(x, sql[i]) = x \o SubSeq(sql, i, i)
<1>0. Len(sql) \in Nat
  BY LenProperties
<1>1. i - 1 \in (i - 1)..(Len(sql) - 1) /\ (i - 1) + 1 = i
  BY <1>0
<1>2. Plus(Upto(x, sql, i, i - 1), sql[i]) = Upto(x, sql, i, i)
  <2>1. Plus(Upto(x, sql, i, i - 1), sql[(i - 1) + 1]) = Upto(x, sql, i, (i - 1) + 1)
    BY <1>1, Grows
  <2> QED BY <1>1, <2>1
<1>3. Upto(x, sql, i, i - 1) = x
  <2>1. SubSeq(sql, i, i - 1) = <<>> BY <1>0
  <2>2. x \o <<>> = x OBVIOUS
  <2> QED BY <2>1, <2>2 DEF Upto
<1>4. Plus(x, sql[i]) = Upto(x, sql, i, i)
  BY <1>2, <1>3
<1> QED BY <1>4 DEF Upto

\* The scan is one pass over the lexemes: SplitStatements yields the statements of
\* the text, each as it is but for its comments and the blanks around it.
THEOREM SplitIsWhole ==
  ASSUME NEW T, NEW sql \in Seq(T)
  PROVE  SplitStatements(sql) = WholeStatements(sql)
<1> DEFINE f == From(sql, TRUE)
           N == Len(sql) + 1
           Rest(i) == \A x \in Seq(T), d \in Seq(Seq(T)) :
                        Between(sql, i - 1, x, d) => SplitStatements(sql) = Joined(d, x, f[i])
           S == {i \in 1..N : Rest(i)}
<1>0. Len(sql) \in Nat
  BY LenProperties
<1>f. \A i \in 1..N : f[i] \in Pieces(T)
  <2>1. T = T \cup (IF TRUE THEN {} ELSE {"literal"}) OBVIOUS
  <2> QED BY <2>1, FromType
<1>1. N \in S
  <2> SUFFICES ASSUME NEW x \in Seq(T), NEW d \in Seq(Seq(T)), Between(sql, N - 1, x, d)
               PROVE  SplitStatements(sql) = Joined(d, x, f[N])
    <3>1. N \in 1..N BY <1>0
    <3>2. Rest(N)
      <4> HIDE DEF N, f
      <4> QED OBVIOUS
    <3> HIDE DEF Rest, N
    <3> QED BY <3>1, <3>2
  <2>1. f[N] = Nothing BY <1>0, FromStep
  <2>2. PICK m, b : Scanned(sql)[Len(sql)] = State(m, b, x, d)
    <3>1. N - 1 = Len(sql) BY <1>0
    <3> QED BY <3>1, Zenon DEF Between
  <2>3. Flush(State(m, b, x, d)) = State(m, b, <<>>, Put(d, x)) BY StateFlush
  <2>4. State(m, b, <<>>, Put(d, x)).done = Put(d, x) BY StateFields
  <2>5. SplitStatements(sql) = Put(d, x) BY <2>2, <2>3, <2>4 DEF SplitStatements
  <2> HIDE DEF f
  <2> QED BY <2>1, <2>5, JoinedEnd
<1>2. \A i \in 1..(N - 1) : (\A m \in (i + 1)..N : m \in S) => i \in S
  <2> SUFFICES ASSUME NEW i \in 1..(N - 1), \A m \in (i + 1)..N : m \in S,
                      NEW x \in Seq(T), NEW d \in Seq(Seq(T)), Between(sql, i - 1, x, d)
               PROVE  SplitStatements(sql) = Joined(d, x, f[i])
    <3>1. \A i \in 1..(N - 1) : i \in 1..N BY <1>0
    <3> HIDE DEF N, f
    <3> QED BY <3>1
  <2> DEFINE e == LexemeEnd(sql, i)
             r == f[e + 1]
             l == SubSeq(sql, i, e)
  <2>1. i \in 1..Len(sql) /\ e \in i..Len(sql) /\ e + 1 \in (i + 1)..N /\ e + 1 \in 1..N /\ (e + 1) - 1 = e
    <3>1. i \in 1..Len(sql) BY <1>0
    <3> HIDE DEF e
    <3>2. e \in i..Len(sql) BY <1>0, <3>1, LexemeIsWithin DEF e
    <3> QED BY <1>0, <3>1, <3>2
  <2>2. r \in Pieces(T) BY <1>f, <2>1
  <2>3. f[i] = Said(sql, i, r, TRUE) BY <1>0, <2>1, FromStep
  <2>4. \A y \in Seq(T), c \in Seq(Seq(T)) :
           Between(sql, e, y, c) => SplitStatements(sql) = Joined(c, y, r)
    <3>1. Rest(e + 1) BY <2>1
    <3> HIDE DEF f, e
    <3> QED BY <2>1, <3>1
  <2>5. Scanned(sql)[i - 1] = State("code", 0, x, d)
    <3>1. i - 1 < Len(sql) BY <1>0, <2>1
    <3> QED BY <3>1 DEF Between
  <2> HIDE DEF f, r, S, Rest, N
  <2>6. CASE IsComment(sql, i)
    <3>1. f[i] = r BY <2>3, <2>6, SaidComment
    <3>2. Between(sql, e, x, d)
      BY <1>0, <2>1, <2>5, <2>6, ScansLineComment, ScansBlockComment DEF IsComment
    <3> QED BY <2>4, <3>1, <3>2
  <2>7. CASE IsCut(sql, i)
    <3>1. sql[i] \notin Quotes /\ ~IsComment(sql, i)
      BY <2>7 DEF IsCut, Quotes, IsComment, IsLineComment, IsBlockComment
    <3>2. e = i BY <1>0, <2>1, <3>1, OtherEnd
    <3>3. Between(sql, e, <<>>, Put(d, x)) BY <1>0, <2>1, <2>5, <2>7, <3>1, <3>2, ScansToken
    <3>4. Put(d, x) \in Seq(Seq(T)) /\ <<>> \in Seq(T) BY PutType
    <3>5. SplitStatements(sql) = Joined(Put(d, x), <<>>, r) BY <2>4, <3>3, <3>4
    <3>6. f[i] = [piece |-> <<>>, later |-> Cut(r)] BY <2>3, <2>7, SaidCut
    <3> QED BY <2>2, <3>5, <3>6, JoinedCut
  <2>8. CASE ~IsComment(sql, i) /\ ~IsCut(sql, i)
    <3>1. l \in Seq(T) BY <2>1, LexemeType
    <3>2. x \o l \in Seq(T) BY <3>1, ConcatProperties
    <3>3. Between(sql, e, x \o l, d)
      <4>1. CASE sql[i] \in Quotes
        BY <2>1, <2>5, <4>1, ScansQuoted
      <4>2. CASE sql[i] \notin Quotes
        <5>1. e = i BY <1>0, <2>1, <2>8, <4>2, OtherEnd
        <5>2. Between(sql, i, Plus(x, sql[i]), d) BY <1>0, <2>1, <2>5, <2>8, <4>2, ScansToken
        <5>3. Plus(x, sql[i]) = x \o SubSeq(sql, i, i) BY <2>1, PlusIsOne
        <5> QED BY <5>1, <5>2, <5>3, Zenon
      <4> QED BY <4>1, <4>2
    <3>4. SplitStatements(sql) = Joined(d, x \o l, r) BY <2>4, <3>2, <3>3
    <3>5. Lexeme(sql, i, TRUE) = l BY Zenon DEF Lexeme
    <3>6. f[i] = Before(l, r) BY <2>3, <2>8, <3>5, SaidLexeme, Zenon
    <3> HIDE DEF l
    <3>7. Joined(d, x, Before(l, r)) = Joined(d, x \o l, r)
      BY <2>2, <3>1, JoinedLexeme
    <3> QED BY <3>4, <3>6, <3>7, Zenon
  <2> QED BY <2>6, <2>7, <2>8
<1>3. \A i \in 1..N : i \in S
  <2>1. 1 \in Int /\ N \in Int BY <1>0
  <2> HIDE DEF S, N
  <2> QED BY ONLY <2>1, <1>1, <1>2, Downward, Zenon
<1>4. Between(sql, 1 - 1, <<>>, <<>>)
  <2>1. Scanned(sql)[0] = State("code", 0, <<>>, <<>>) BY <1>0, ScannedFirst
  <2>2. 1 - 1 = 0 OBVIOUS
  <2> QED BY <2>1, <2>2, Zenon DEF Between
<1>5. SplitStatements(sql) = Joined(<<>>, <<>>, f[1])
  <2>1. Rest(1)
    <3>1. 1 \in 1..N BY <1>0
    <3> HIDE DEF Rest, N
    <3> QED BY <1>3, <3>1
  <2>2. <<>> \in Seq(T) /\ <<>> \in Seq(Seq(T)) OBVIOUS
  <2> HIDE DEF f
  <2> QED BY <1>4, <2>1, <2>2
<1>6. Joined(<<>>, <<>>, f[1]) = Cut(f[1])
  <2>1. f[1] \in Pieces(T)
    <3>1. 1 \in 1..N BY <1>0
    <3> HIDE DEF f, N
    <3> QED BY <1>f, <3>1
  <2>2. Cut(f[1]) \in Seq(Seq(T)) BY <2>1, CutType
  <2> DEFINE r == f[1]
             c == Cut(r)
  <2> HIDE DEF r
  <2>3. r.piece \in Seq(T) BY <2>1 DEF Pieces, r
  <2>4. <<>> \o r.piece = r.piece BY <2>3
  <2>5. [piece |-> <<>> \o r.piece, later |-> r.later] = r BY <2>1, <2>4 DEF Pieces, r
  <2>6. Joined(<<>>, <<>>, r) = <<>> \o c BY <2>5 DEF Joined
  <2>7. c \in Seq(Seq(T)) BY <2>2 DEF r
  <2> HIDE DEF c
  <2>8. <<>> \o c = c BY <2>7
  <2> QED BY <2>6, <2>8 DEF r, c
<1> QED BY <1>5, <1>6 DEF WholeStatements

\* Statements are texts of the same tokens.
LEMMA SplitType ==
  ASSUME NEW T, NEW sql \in Seq(T)
  PROVE  SplitStatements(sql) \in Seq(Seq(T))
<1> DEFINE r == From(sql, TRUE)[1]
<1>1. r \in Pieces(T)
  <2>1. T = T \cup (IF TRUE THEN {} ELSE {"literal"}) OBVIOUS
  <2>2. Len(sql) \in Nat BY LenProperties
  <2>3. 1 \in 1..(Len(sql) + 1) BY <2>2
  <2> QED BY <2>1, <2>3, FromType
<1> HIDE DEF r
<1>2. Cut(r) \in Seq(Seq(T))
  BY <1>1, CutType
<1>3. SplitStatements(sql) = Cut(r)
  BY SplitIsWhole DEF WholeStatements, r
<1> QED BY <1>2, <1>3

\* A line with nothing but a comment says nothing, nor does an empty one.
LEMMA CommentSaysNothing ==
  ASSUME NEW T, NEW sql \in Seq(T),
         \/ sql = <<>>
         \/ /\ Len(sql) > 1 /\ sql[1] = "-" /\ sql[2] = "-"
            /\ \A i \in 1..Len(sql) : sql[i] # "\n"
  PROVE  WholeStatements(sql) = <<>>
<1> DEFINE f == From(sql, TRUE)
<1>0. Len(sql) \in Nat
  BY LenProperties
<1>1. f[Len(sql) + 1] = Nothing
  BY <1>0, FromStep
<1>2. f[1] = Nothing
  <2>1. CASE sql = <<>>
    <3>1. Len(sql) + 1 = 1 BY <2>1
    <3> QED BY <1>1, <3>1
  <2>2. CASE sql # <<>>
    <3>1. Len(sql) > 1 /\ sql[1] = "-" /\ sql[1 + 1] = "-" /\ 1 \in 1..Len(sql) BY <1>0, <2>2
    <3>2. IsLineComment(sql, 1) /\ IsComment(sql, 1)
      <4>1. Peek(sql, 1) = sql[1 + 1] BY <3>1 DEF Peek
      <4> QED BY <3>1, <4>1 DEF IsComment, IsLineComment
    <3>3. LineCommentEnds(sql, 1) = {}
      BY <2>2 DEF LineCommentEnds
    <3>4. LexemeEnd(sql, 1) = Len(sql)
      BY <1>0, <3>1, <3>2, <3>3, LineCommentEnd DEF EndAt
    <3>5. f[1] = Said(sql, 1, f[LexemeEnd(sql, 1) + 1], TRUE) BY <1>0, <3>1, FromStep
    <3> HIDE DEF f
    <3>6. f[1] = Said(sql, 1, Nothing, TRUE) BY <1>1, <3>4, <3>5
    <3> QED BY <3>2, <3>6, SaidComment
  <2> QED BY <2>1, <2>2
<1> HIDE DEF f
<1>3. Cut(Nothing) = <<>>
  <2>1. Nothing.piece = <<>> /\ Nothing.later = <<>> BY DEF Nothing
  <2>2. Trim(<<>>) = <<>> BY DEF Trim
  <2> QED BY <2>1, <2>2 DEF Cut
<1> QED BY <1>2, <1>3 DEF WholeStatements, f
===============================================================================
