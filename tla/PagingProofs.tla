----------------------------- MODULE PagingProofs -----------------------------
(***************************************************************************)
(* Paging for every table, limit and configuration.  The client always has  *)
(* exactly the rows up to its offset (PrefixSeen): a page starts where the  *)
(* last ended, and a page that is not full ends where the table does.       *)
(***************************************************************************)
EXTENDS Paging, TLAPS

\* A clause that is there has a value, a natural number.
LEMMA ValueIsNat ==
  ASSUME NEW C, AtMostOne(C), NEW c \in C, c # {}
  PROVE  Value(c) \in Nat
<1>1. PICK x \in c : TRUE
  OBVIOUS
<1>2. Value(c) \in c
  BY <1>1 DEF Value
<1> QED
  BY <1>2 DEF AtMostOne

\* The limits of every method are integers, and within MaxLimit and what was
\* asked for when the configuration is positive.
LEMMA LimitsFit ==
  ASSUME TypeOK
  PROVE  /\ EnforceLimit \in Int /\ Asked \in Int /\ LimitSent \in Int /\ OffsetSent \in Nat
         /\ Positive => EnforceLimit > 0 /\ EnforceLimit <= maxLimit
         /\ Positive /\ Asked > 0 => EnforceLimit <= Asked
         /\ Positive /\ ~HasLIMIT => LimitSent = EnforceLimit
<1>1. /\ limit \in Int /\ defaultLimit \in Int /\ maxLimit \in Int
      /\ CursorDefault \in Nat /\ offset \in Nat
  BY PagingAssumption DEF TypeOK
<1>2. Asked \in Int
  BY <1>1 DEF Asked
<1>3. /\ EnforceLimit \in Int
      /\ Positive => EnforceLimit > 0 /\ EnforceLimit <= maxLimit
      /\ Positive /\ Asked > 0 => EnforceLimit <= Asked
  BY <1>1, <1>2 DEF EnforceLimit, Positive
<1>4. ApplyCursor(EnforceLimit) \in Int
  BY <1>1, <1>3 DEF ApplyCursor
<1>5. Positive => ApplyCursor(EnforceLimit) = EnforceLimit
  BY <1>1, <1>3 DEF ApplyCursor, Positive
<1>6. HasLIMIT => Value(ownLimit) \in Nat
  BY PagingAssumption, ValueIsNat DEF TypeOK, HasLIMIT
<1>7. HasOFFSET => Value(ownOffset) \in Nat
  BY PagingAssumption, ValueIsNat DEF TypeOK, HasOFFSET
<1>8. LimitSent \in Int /\ (Positive /\ ~HasLIMIT => LimitSent = EnforceLimit)
  BY <1>3, <1>4, <1>5, <1>6 DEF LimitSent
<1>9. OffsetSent \in Nat
  BY <1>1, <1>7 DEF OffsetSent
<1> QED
  BY <1>2, <1>3, <1>8, <1>9

\* What a page holds: rows of the table, no more than the limit that was sent.
LEMMA PageIsPart ==
  ASSUME TypeOK
  PROVE  /\ LastRow \in Int /\ PageCount \in Nat /\ Page \subseteq 1..rows
         /\ LimitSent >= 0 => PageCount <= LimitSent
         /\ ~HasOFFSET /\ offset <= rows =>
              /\ offset + PageCount <= rows
              /\ Page = (offset + 1)..(offset + PageCount)
              /\ LimitSent > PageCount => offset + PageCount = rows
<1>1. /\ LimitSent \in Int /\ OffsetSent \in Nat /\ rows \in Nat /\ offset \in Nat
  BY PagingAssumption, LimitsFit DEF TypeOK
<1>2. LastRow \in Int /\ LastRow <= rows
  BY <1>1 DEF LastRow
<1>3. PageCount \in Nat /\ (LimitSent >= 0 => PageCount <= LimitSent)
  BY <1>1, <1>2 DEF PageCount, LastRow
<1>4. Page \subseteq 1..rows
  BY <1>1, <1>2 DEF Page
<1>5. ASSUME ~HasOFFSET, offset <= rows
      PROVE  /\ offset + PageCount <= rows
             /\ Page = (offset + 1)..(offset + PageCount)
             /\ LimitSent > PageCount => offset + PageCount = rows
  <2>1. OffsetSent = offset
    BY <1>5 DEF OffsetSent
  <2>2. CASE LastRow > offset
    <3>1. PageCount = LastRow - offset
      BY <2>1, <2>2 DEF PageCount
    <3>2. offset + PageCount = LastRow
      BY <3>1, <1>1, <1>2
    <3>3. LimitSent > PageCount => LastRow = rows
      BY <3>1, <2>1, <1>1, <1>2 DEF LastRow
    <3> QED
      BY <3>2, <3>3, <1>2, <2>1 DEF Page
  <2>3. CASE ~(LastRow > offset)
    <3>1. PageCount = 0
      BY <2>1, <2>3 DEF PageCount
    <3>2. Page = {}
      BY <2>1, <2>3, <1>1, <1>2 DEF Page
    <3>3. LimitSent > 0 => offset = rows
      BY <2>1, <2>3, <1>1, <1>2, <1>5 DEF LastRow
    <3> QED
      BY <3>1, <3>2, <3>3, <1>1, <1>5
  <2> QED
    BY <2>2, <2>3
<1> QED
  BY <1>2, <1>3, <1>4, <1>5

LEMMA InitInv == Init => Inv
<1> SUFFICES ASSUME Init PROVE Inv
  OBVIOUS
<1>1. TypeOK
  BY PagingAssumption DEF Init, TypeOK
<1>2. PrefixSeen
  BY PagingAssumption, <1>1 DEF Init, PrefixSeen, TypeOK
<1>3. PageFits
  BY PagingAssumption, LimitsFit, <1>1 DEF Init, PageFits, Positive, TypeOK
<1> QED
  BY <1>1, <1>2, <1>3 DEF Inv

\* A page keeps the invariant.
LEMMA FetchPageInv ==
  ASSUME Inv, FetchPage
  PROVE  Inv'
<1> USE DEF Inv
<1>1. UNCHANGED <<request, rows>>
  BY DEF FetchPage
<1>2. /\ rows \in Nat /\ offset \in Nat /\ initial \in Nat /\ initial <= rows
      /\ seen \subseteq 1..rows /\ twice \subseteq seen /\ maxLimit \in Int
  BY PagingAssumption DEF TypeOK
<1>3. TypeOK'
  <2>1. seen' \subseteq 1..rows' /\ twice' \subseteq seen'
    BY <1>1, <1>2, PageIsPart DEF FetchPage
  <2>2. offset' \in Nat /\ count' \in Nat
    BY <1>2, PageIsPart DEF FetchPage
  <2>3. pc' \in {"paging", "stopped", "failed"} /\ hasMore' \in BOOLEAN
    BY DEF FetchPage, HasMore
  <2> QED
    BY <1>1, <2>1, <2>2, <2>3 DEF TypeOK, request
<1>4. PageFits'
  <2>1. SUFFICES ASSUME Positive, ~HasLIMIT
                 PROVE  count' <= maxLimit /\ (Asked' > 0 => count' <= Asked')
    BY <1>1 DEF PageFits, Positive, HasLIMIT, request
  <2>2. count' <= EnforceLimit /\ EnforceLimit <= maxLimit /\ count' \in Nat
    BY <2>1, LimitsFit, PageIsPart DEF FetchPage
  <2>3. count' <= maxLimit
    BY <2>2, <1>2, LimitsFit
  <2>4. ASSUME Asked' > 0 PROVE count' <= Asked'
    <3>1. Asked \in Int /\ (Asked > 0 => EnforceLimit <= Asked)
      BY <2>1, LimitsFit
    <3>2. limit \in Int /\ defaultLimit > 0 /\ limit' = limit /\ method' = method
      BY PagingAssumption, <1>1, <2>1 DEF TypeOK, request, Positive
    <3>3. Asked' = Asked
      <4>1. CASE method # "qc query"
        BY <3>2, <4>1 DEF Asked, Called
      <4>2. CASE method = "qc query"
        <5>1. Asked' = limit /\ limit > 0
          <6>1. Asked' = IF (Called \in {"Query", "QueryRead", "TxQuery"})' THEN 0 ELSE limit'
            BY DEF Asked
          <6> QED
            BY <6>1, <2>4, <3>2
        <5>2. Asked = limit
          BY <5>1, <4>2 DEF Asked, Called
        <5> QED
          BY <5>1, <5>2
      <4> QED
        BY <4>1, <4>2
    <3> QED
      BY <2>2, <2>4, <3>1, <3>3, LimitsFit
  <2> QED
    BY <2>3, <2>4
<1>5. PrefixSeen'
  <2>1. SUFFICES ASSUME ~HasOFFSET
                 PROVE  /\ offset' <= rows' /\ seen' = 1..offset' /\ twice' = {}
                        /\ pc' = "stopped" /\ ~hasMore' /\ Plain' /\ Called' # "QueryRead"
                             => initial' <= offset'
                        /\ pc' = "paging" => hasMore'
    BY <1>1 DEF PrefixSeen, HasOFFSET, request
  <2>2. offset <= rows /\ seen = 1..offset /\ twice = {}
    BY <2>1 DEF PrefixSeen
  <2>3. /\ offset + PageCount <= rows
        /\ Page = (offset + 1)..(offset + PageCount)
        /\ LimitSent > PageCount => offset + PageCount = rows
        /\ PageCount \in Nat
    BY <2>1, <2>2, PageIsPart
  <2>4. seen' = 1..offset' /\ twice' = {} /\ offset' <= rows'
    BY <1>1, <1>2, <2>2, <2>3 DEF FetchPage
  <2>5. pc' = "paging" => hasMore'
    BY DEF FetchPage
  <2>6. ASSUME ~hasMore', Plain', Called' # "QueryRead"
        PROVE  initial' <= offset'
    <3>1. Plain /\ Called # "QueryRead"
      BY <1>1, <2>6 DEF Plain, Positive, HasLIMIT, HasOFFSET, Called, request
    <3>2. PageCount < EnforceLimit
      BY <2>6, <3>1, <2>3, LimitsFit DEF FetchPage, HasMore, Plain
    <3>3. offset' = rows
      BY <3>1, <3>2, <2>3, LimitsFit DEF FetchPage, Plain
    <3> QED
      BY <1>1, <1>2, <3>3 DEF request
  <2> QED
    BY <2>4, <2>5, <2>6
<1> QED
  BY <1>3, <1>4, <1>5

LEMMA NextInv ==
  ASSUME Inv, [Next]_vars
  PROVE  Inv'
<1>1. CASE FetchPage
  BY <1>1, FetchPageInv
<1>2. CASE FetchFails
  <2>1. UNCHANGED <<request, rows, offset, count, hasMore, seen, twice>> /\ pc' = "failed"
    BY <1>2 DEF FetchFails
  <2> QED
    BY <2>1 DEF Inv, TypeOK, PrefixSeen, PageFits, request, Positive, HasLIMIT,
                HasOFFSET, Asked, Called
<1>3. CASE AppendRow
  <2>1. UNCHANGED <<request, reading>> /\ rows' = rows + 1 /\ rows < MaxRows /\ MaxRows \in Nat
    BY PagingAssumption, <1>3 DEF AppendRow
  <2>2. TypeOK'
    BY <2>1 DEF Inv, TypeOK, request, reading
  <2>3. PrefixSeen'
    <3>1. offset' = offset /\ (offset <= rows => offset <= rows')
      BY <2>1 DEF Inv, TypeOK, reading
    <3>2. /\ HasOFFSET' = HasOFFSET /\ Plain' = Plain /\ Called' = Called
          /\ UNCHANGED <<seen, twice, pc, hasMore, initial>>
      BY <2>1 DEF request, reading, Plain, Positive, HasLIMIT, HasOFFSET, Called
    <3> QED
      BY <3>1, <3>2 DEF Inv, PrefixSeen
  <2>4. PageFits'
    BY <2>1 DEF Inv, PageFits, request, reading, Positive, HasLIMIT, Asked, Called
  <2> QED
    BY <2>2, <2>3, <2>4 DEF Inv
<1>4. CASE UNCHANGED vars
  BY <1>4 DEF Inv, TypeOK, PrefixSeen, PageFits, vars, request, reading, Plain, Positive,
              HasLIMIT, HasOFFSET, Asked, Called
<1> QED
  BY <1>1, <1>2, <1>3, <1>4 DEF Next

\* The inductive invariant holds of every table, limit and configuration.
THEOREM PagingInvHolds == Spec => []Inv
<1>1. Inv /\ [Next]_vars => Inv'
  BY NextInv
<1> QED
  BY InitInv, <1>1, PTL DEF Spec

\* Every configuration's type, in every state.
THEOREM PagingTypeCorrect == Spec => []TypeOK
<1>1. Inv => TypeOK
  BY DEF Inv
<1> QED
  BY PagingInvHolds, <1>1, PTL

\* has_more false means complete, for every method but QueryRead.
THEOREM NothingIsSkipped == Spec => []NothingSkipped
<1>1. Inv => NothingSkipped
  <2> SUFFICES ASSUME Inv, pc = "stopped", ~hasMore, Plain, Called # "QueryRead"
               PROVE  1..initial \subseteq seen
    BY DEF NothingSkipped
  <2>1. initial <= offset /\ seen = 1..offset
    BY DEF Inv, PrefixSeen, Plain
  <2>2. initial \in Int /\ offset \in Int
    BY PagingAssumption DEF Inv, TypeOK
  <2> QED
    BY <2>1, <2>2
<1> QED
  BY PagingInvHolds, <1>1, PTL

\* Pages do not overlap, while the table grows.
THEOREM NothingComesTwice == Spec => []NothingTwice
<1>1. Inv => NothingTwice
  BY DEF Inv, PrefixSeen, NothingTwice
<1> QED
  BY PagingInvHolds, <1>1, PTL

\* Pages stay within MaxLimit and within what was asked for.
THEOREM PagesFit == Spec => []PageFits
<1>1. Inv => PageFits
  BY DEF Inv
<1> QED
  BY PagingInvHolds, <1>1, PTL
=============================================================================
