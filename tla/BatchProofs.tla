----------------------------- MODULE BatchProofs -----------------------------
(***************************************************************************)
(* What holds of Batch for a file of any length and for every choice of     *)
(* the statements the guards refuse.  Inv is inductive, and the promises    *)
(* about what is stored and what is reported follow from it.                *)
(***************************************************************************)
EXTENDS Batch, TLAPS

USE DEF flags, batchVars, txVars, Statements, Answered, Goto

Outcomes == {"ok", "error", "begin", "commit"}

-----------------------------------------------------------------------------
\* A report grows by one line, and stays clean when that line is.
LEMMA ReportGrows ==
  ASSUME results \in Seq(Outcomes), NEW r \in Outcomes, Report(r)
  PROVE  /\ results' \in Seq(Outcomes)
         /\ Len(results') = Len(results) + 1
         /\ Clean' <=> Clean /\ r = "ok"
         /\ Clean => \A k \in DOMAIN results' : Failed(k)' =>
              k = Len(results') /\ r # "ok"
<1>1. /\ results' \in Seq(Outcomes) /\ Len(results') = Len(results) + 1
      /\ DOMAIN results = 1..Len(results) /\ DOMAIN results' = 1..(Len(results) + 1)
      /\ Len(results) \in Nat
  BY DEF Report
<1>2. /\ \A k \in 1..Len(results) : results'[k] = results[k]
      /\ results'[Len(results) + 1] = r
  BY DEF Report
<1>3. Clean' <=> Clean /\ r = "ok"
  BY <1>1, <1>2 DEF Clean, Failed
<1>4. Clean => \A k \in DOMAIN results' : Failed(k)' => k = Len(results') /\ r # "ok"
  BY <1>1, <1>2 DEF Clean, Failed
<1> QED BY <1>1, <1>3, <1>4

LEMMA ReportStays ==
  ASSUME results' = results
  PROVE  /\ Clean' <=> Clean
         /\ \A k \in DOMAIN results : Failed(k)' <=> Failed(k)
BY DEF Clean, Failed

-----------------------------------------------------------------------------
\* The inductive invariant.

LEMMA InitInv == Init => Inv
<1> SUFFICES ASSUME Init PROVE Inv OBVIOUS
<1> USE DEF Init, Tx!Init
<1>1. /\ results \in Seq(Outcomes) /\ Len(results) = 0 /\ DOMAIN results = {}
  OBVIOUS
<1>2. TypeOK
  <2>1. /\ op \in [{Me} -> {"none"} \cup Tx!EndOps \cup Tx!StmtOps]
        /\ stmt \in [{Me} -> Statements \cup {0}]
        /\ reply \in [{Me} -> {"none", "pending", "ok", "refused", "failed", "done"}]
    OBVIOUS
  <2>2. blocked \subseteq Statements /\ i \in 1..(N + 1) /\ pc \in Places
    BY BatchAssumption DEF Places
  <2> QED BY <1>1, <2>1, <2>2 DEF TypeOK, Outcomes
<1>3. Clean
  BY <1>1 DEF Clean
<1>4. ReportFits /\ DirectFits /\ StopsAtFirstError /\ NothingLeftOpen
  BY <1>1, <1>3, BatchAssumption
     DEF ReportFits, DirectFits, StopsAtFirstError, NothingLeftOpen
<1>5. CallFits
  BY DEF CallFits
<1>6. EffectsFit
  BY DEF EffectsFit
<1> QED BY <1>2, <1>4, <1>5, <1>6 DEF Inv

LEMMA DirectStatementKeepsInv ==
  ASSUME Inv, NEW r \in {"ok", "error"}, DirectStatement(r)
  PROVE  Inv'
<1> USE DEF DirectStatement, Inv
<1>1. /\ results' \in Seq(Outcomes)
      /\ Len(results') = Len(results) + 1
      /\ Clean' <=> Clean /\ r = "ok"
      /\ Clean => \A k \in DOMAIN results' : Failed(k)' => k = Len(results') /\ r # "ok"
  BY ReportGrows DEF TypeOK, Outcomes
<1>2. /\ Len(results) = i - 1 /\ i \in 1..N /\ N \in Nat
      /\ ~useTransaction /\ useTransaction' = useTransaction
      /\ ~continueOnError => Clean
      /\ DOMAIN results' = 1..Len(results')
  BY <1>1, BatchAssumption DEF TypeOK, ReportFits
<1>3. durable \subseteq durable' /\ durable' \subseteq durable \cup {i} /\ (r = "ok" => i \in durable')
  BY DEF SessionExec
<1>4. TypeOK'
  BY <1>1, <1>2, <1>3 DEF TypeOK, Outcomes, Places
<1>5. ReportFits'
  BY <1>1, <1>2 DEF ReportFits, DirectFits, TypeOK
<1>6. DirectFits'
  BY <1>1, <1>2, <1>3 DEF DirectFits
<1>7. StopsAtFirstError'
  BY <1>1, <1>2, <1>3 DEF StopsAtFirstError, DirectFits
<1>8. CallFits' /\ EffectsFit' /\ NothingLeftOpen'
  BY <1>2 DEF CallFits, EffectsFit, NothingLeftOpen, Began
<1> QED BY <1>4, <1>5, <1>6, <1>7, <1>8

LEMMA DirectReturnsKeepsInv == Inv /\ DirectReturns => Inv'
<1> SUFFICES ASSUME Inv, DirectReturns PROVE Inv' OBVIOUS
<1> USE DEF DirectReturns, Inv
<1>1. /\ Clean' <=> Clean
      /\ \A k \in DOMAIN results : Failed(k)' <=> Failed(k)
  BY ReportStays
<1>2. TypeOK'
  BY DEF TypeOK, Places
<1>3. ReportFits' /\ DirectFits' /\ StopsAtFirstError'
  BY <1>1, BatchAssumption DEF ReportFits, DirectFits, StopsAtFirstError, TypeOK
<1>4. CallFits' /\ EffectsFit' /\ NothingLeftOpen'
  BY DEF CallFits, EffectsFit, NothingLeftOpen, Began
<1> QED BY <1>2, <1>3, <1>4

LEMMA BeginTxKeepsInv == Inv /\ BeginTx => Inv'
<1> SUFFICES ASSUME Inv, BeginTx PROVE Inv' OBVIOUS
<1> USE DEF BeginTx, Inv
<1>1. useTransaction
  BY DEF DirectFits
<1>2. CASE pc' = "loop" /\ UNCHANGED results
  <2>1. /\ Clean' <=> Clean
        /\ \A k \in DOMAIN results : Failed(k)' <=> Failed(k)
    BY <1>2, ReportStays
  <2>2. TypeOK'
    BY <1>2 DEF TypeOK, Places
  <2>3. ReportFits' /\ DirectFits' /\ StopsAtFirstError'
    BY <1>1, <1>2, <2>1 DEF ReportFits, DirectFits, StopsAtFirstError
  <2>4. CallFits' /\ EffectsFit' /\ NothingLeftOpen'
    BY <1>2 DEF CallFits, EffectsFit, NothingLeftOpen, Began
  <2> QED BY <2>2, <2>3, <2>4
<1>3. CASE pc' = "done" /\ Report("begin")
  <2>1. /\ results' \in Seq(Outcomes) /\ Len(results') = Len(results) + 1
        /\ ~Clean'
        /\ Clean => \A k \in DOMAIN results' : Failed(k)' => k = Len(results')
    BY <1>3, ReportGrows DEF TypeOK, Outcomes
  <2>2. TypeOK'
    BY <1>3, <2>1 DEF TypeOK, Places, Outcomes
  <2>3. Clean
    BY <1>1 DEF ReportFits, CallFits
  <2>4. ReportFits' /\ DirectFits' /\ StopsAtFirstError'
    BY <1>1, <1>3, <2>1, <2>3
       DEF ReportFits, DirectFits, CallFits, EffectsFit, StopsAtFirstError
  <2>5. ~Began'
    <3>1. /\ Len(results) + 1 \in DOMAIN results'
          /\ results'[Len(results) + 1] = "begin"
      BY <1>3 DEF Report, TypeOK
    <3> QED BY <3>1 DEF Began
  <2>6. CallFits' /\ EffectsFit' /\ NothingLeftOpen'
    BY <1>3, <2>1, <2>5 DEF CallFits, EffectsFit, NothingLeftOpen
  <2> QED BY <2>2, <2>4, <2>6
<1> QED BY <1>2, <1>3

\* batchExecInTx calls a method of the transaction.
LEMMA CallExecKeepsInv == Inv /\ CallExec => Inv'
<1> SUFFICES ASSUME Inv, CallExec PROVE Inv' OBVIOUS
<1> USE DEF CallExec, Inv
<1>1. /\ Clean' <=> Clean
      /\ \A k \in DOMAIN results : Failed(k)' <=> Failed(k)
  BY ReportStays
<1>2. /\ i \in Statements /\ UNCHANGED <<phase, effects, durable, acked, expired>>
      /\ op' = [op EXCEPT ![Me] = "Exec"] /\ stmt' = [stmt EXCEPT ![Me] = i]
      /\ reply' = [reply EXCEPT ![Me] = "pending"]
      /\ reply[Me] # "pending"
  BY BatchAssumption DEF TypeOK, Tx!Invoke
<1>3. TypeOK'
  BY <1>2 DEF TypeOK, Places, Tx!StmtOps
<1>4. ReportFits' /\ DirectFits' /\ StopsAtFirstError'
  BY <1>1, <1>2 DEF ReportFits, DirectFits, StopsAtFirstError
<1>5. CallFits' /\ EffectsFit' /\ NothingLeftOpen'
  BY <1>2, BatchAssumption DEF CallFits, EffectsFit, NothingLeftOpen, TypeOK
<1> QED BY <1>3, <1>4, <1>5

LEMMA CallRollbackKeepsInv == Inv /\ CallRollback => Inv'
<1> SUFFICES ASSUME Inv, CallRollback PROVE Inv' OBVIOUS
<1> USE DEF CallRollback, LoopEnds, Inv
<1>1. /\ Clean' <=> Clean
      /\ \A k \in DOMAIN results : Failed(k)' <=> Failed(k)
  BY ReportStays
<1>2. /\ UNCHANGED <<phase, effects, durable, acked, expired>>
      /\ op' = [op EXCEPT ![Me] = "Rollback"] /\ stmt' = [stmt EXCEPT ![Me] = 0]
      /\ reply' = [reply EXCEPT ![Me] = "pending"]
      /\ useTransaction
  BY DEF Tx!Invoke, DirectFits
<1>3. TypeOK'
  BY <1>2 DEF TypeOK, Places, Tx!EndOps
<1>4. ReportFits' /\ DirectFits' /\ StopsAtFirstError'
  BY <1>1, <1>2 DEF ReportFits, DirectFits, StopsAtFirstError
<1>5. CallFits' /\ EffectsFit' /\ NothingLeftOpen'
  BY <1>2 DEF CallFits, EffectsFit, NothingLeftOpen, TypeOK, ReportFits
<1> QED BY <1>3, <1>4, <1>5

LEMMA CallCommitKeepsInv == Inv /\ CallCommit => Inv'
<1> SUFFICES ASSUME Inv, CallCommit PROVE Inv' OBVIOUS
<1> USE DEF CallCommit, LoopEnds, Inv
<1>1. /\ Clean' <=> Clean
      /\ \A k \in DOMAIN results : Failed(k)' <=> Failed(k)
  BY ReportStays
<1>2. /\ UNCHANGED <<phase, effects, durable, acked, expired>>
      /\ op' = [op EXCEPT ![Me] = "Commit"] /\ stmt' = [stmt EXCEPT ![Me] = 0]
      /\ reply' = [reply EXCEPT ![Me] = "pending"]
      /\ i = N + 1
  BY BatchAssumption DEF Tx!Invoke, TypeOK
<1>3. TypeOK'
  BY <1>2 DEF TypeOK, Places, Tx!EndOps
<1>4. ReportFits' /\ DirectFits' /\ StopsAtFirstError'
  BY <1>1, <1>2, BatchAssumption DEF ReportFits, DirectFits, StopsAtFirstError
<1>5. CallFits' /\ EffectsFit' /\ NothingLeftOpen'
  BY <1>2 DEF CallFits, EffectsFit, NothingLeftOpen, TypeOK
<1> QED BY <1>3, <1>4, <1>5

\* Its calls return.
LEMMA ExecReturnsKeepsInv == Inv /\ ExecReturns => Inv'
<1> SUFFICES ASSUME Inv, ExecReturns PROVE Inv' OBVIOUS
<1> USE DEF ExecReturns, Inv
<1>1. PICK r \in {"ok", "error"} :
        /\ r = "ok" <=> reply[Me] = "ok"
        /\ Report(r)
        /\ r = "ok" => i' = i + 1 /\ pc' = "loop" /\ UNCHANGED firstErr
        /\ r = "error" =>
             /\ firstErr' = TRUE
             /\ \/ continueOnError /\ i' = i + 1 /\ pc' = "loop"
                \/ ~continueOnError /\ pc' = "undo" /\ UNCHANGED i
  <2>1. CASE reply[Me] = "ok"
    BY <2>1
  <2>2. CASE reply[Me] # "ok"
    BY <2>2
  <2> QED BY <2>1, <2>2
<1>2. /\ results' \in Seq(Outcomes) /\ Len(results') = Len(results) + 1
      /\ Clean' <=> Clean /\ r = "ok"
      /\ Clean => \A k \in DOMAIN results' : Failed(k)' => k = Len(results') /\ r # "ok"
      /\ DOMAIN results' = 1..Len(results')
  BY <1>1, ReportGrows DEF TypeOK, Outcomes
<1>3. /\ useTransaction /\ i \in 1..N /\ N \in Nat /\ Len(results) = i - 1
      /\ ~continueOnError => Clean
      /\ UNCHANGED <<flags, txVars>>
      /\ durable = {} /\ phase # "committed"
  BY BatchAssumption DEF TypeOK, ReportFits, DirectFits, CallFits, EffectsFit
<1>4. TypeOK'
  <2>1. i' \in 1..(N + 1)
    BY <1>1, <1>3
  <2>3. pc' \in Places /\ firstErr' \in BOOLEAN
    BY <1>1 DEF TypeOK, Places
  <2>2. UNCHANGED <<flags, txVars>>
    BY <1>3
  <2> QED BY <1>2, <2>1, <2>2, <2>3 DEF TypeOK, Outcomes
<1>5. ReportFits'
  BY <1>1, <1>2, <1>3 DEF ReportFits
<1>6. StopsAtFirstError' /\ DirectFits'
  BY <1>1, <1>2, <1>3 DEF StopsAtFirstError, DirectFits
<1>7. CallFits'
  BY <1>1, <1>3 DEF CallFits
<1>8. EffectsFit' /\ NothingLeftOpen'
  BY <1>1, <1>3 DEF EffectsFit, NothingLeftOpen
<1> QED BY <1>4, <1>5, <1>6, <1>7, <1>8

LEMMA RollbackReturnsKeepsInv == Inv /\ RollbackReturns => Inv'
<1> SUFFICES ASSUME Inv, RollbackReturns PROVE Inv' OBVIOUS
<1> USE DEF RollbackReturns, Inv
<1>1. /\ Clean' <=> Clean
      /\ \A k \in DOMAIN results : Failed(k)' <=> Failed(k)
  BY ReportStays
<1>2. TypeOK'
  BY DEF TypeOK, Places
<1>3. ReportFits' /\ DirectFits' /\ StopsAtFirstError'
  BY <1>1 DEF ReportFits, DirectFits, StopsAtFirstError
<1>4. CallFits' /\ EffectsFit' /\ NothingLeftOpen'
  BY <1>1 DEF CallFits, EffectsFit, NothingLeftOpen, ReportFits, DirectFits
<1> QED BY <1>2, <1>3, <1>4

LEMMA CommitReturnsKeepsInv == Inv /\ CommitReturns => Inv'
<1> SUFFICES ASSUME Inv, CommitReturns PROVE Inv' OBVIOUS
<1> USE DEF CommitReturns, Inv
<1>1. /\ useTransaction /\ i = N + 1 /\ N \in Nat /\ Len(results) = N
      /\ ~continueOnError => Clean
      /\ durable \subseteq 1..N /\ ~firstErr /\ phase # "open"
      /\ Clean
  BY BatchAssumption DEF TypeOK, ReportFits, DirectFits, CallFits, EffectsFit
<1>2. CASE reply[Me] = "ok"
  <2>1. /\ Clean' <=> Clean
        /\ \A k \in DOMAIN results : Failed(k)' <=> Failed(k)
    BY <1>2, ReportStays
  <2>2. TypeOK'
    BY <1>2 DEF TypeOK, Places
  <2>3. ReportFits' /\ DirectFits' /\ StopsAtFirstError'
    BY <1>1, <1>2, <2>1 DEF ReportFits, DirectFits, StopsAtFirstError
  <2>4. CallFits' /\ EffectsFit' /\ NothingLeftOpen'
    BY <1>1, <1>2, <2>1 DEF CallFits, EffectsFit, NothingLeftOpen
  <2> QED BY <2>2, <2>3, <2>4
<1>3. CASE reply[Me] # "ok"
  <2>1. /\ results' \in Seq(Outcomes) /\ Len(results') = Len(results) + 1
        /\ ~Clean'
        /\ \A k \in DOMAIN results' : Failed(k)' => k = Len(results')
    BY <1>1, <1>3, ReportGrows DEF TypeOK, Outcomes
  <2>2. TypeOK'
    BY <1>3, <2>1 DEF TypeOK, Places, Outcomes
  <2>3. ReportFits' /\ DirectFits' /\ StopsAtFirstError'
    BY <1>1, <1>3, <2>1 DEF ReportFits, DirectFits, StopsAtFirstError
  <2>4. CallFits' /\ EffectsFit' /\ NothingLeftOpen'
    BY <1>1, <1>3, <2>1 DEF CallFits, EffectsFit, NothingLeftOpen
  <2> QED BY <2>2, <2>3, <2>4
<1> QED BY <1>2, <1>3

\* The transaction answers the batch, or expires.
LEMMA TxStepKeepsInv == Inv /\ TxStep => Inv'
<1> SUFFICES ASSUME Inv, TxStep PROVE Inv' OBVIOUS
<1> USE DEF Inv, TxStep
<1>1. /\ Clean' <=> Clean
      /\ \A k \in DOMAIN results : Failed(k)' <=> Failed(k)
      /\ useTransaction /\ pc # "begin" /\ (Began' <=> Began)
      /\ N \in Nat
  BY ReportStays, BatchAssumption DEF Began
\* The steps keep the types and what is known of the call and of the effects.
<1> DEFINE Kept ==
      /\ TypeOK' /\ CallFits' /\ EffectsFit'
      /\ phase # "open" => phase' # "open"
      /\ durable' = durable \/ (pc = "commit" /\ durable' = Statements)
<1>2. ASSUME Kept PROVE Inv'
  <2>1. ReportFits'
    BY <1>1 DEF ReportFits
  <2>2. DirectFits' /\ NothingLeftOpen'
    BY <1>1, <1>2 DEF DirectFits, NothingLeftOpen
  <2>3. StopsAtFirstError'
    BY <1>1, <1>2 DEF StopsAtFirstError, ReportFits
  <2> QED BY <1>2, <2>1, <2>2, <2>3
<1>3. stmt[Me] \in Statements \cup {0} /\ (op[Me] \in Tx!StmtOps /\ ~Answered =>
        pc = "exec" /\ stmt[Me] = i /\ i \in Statements)
  BY <1>1 DEF TypeOK, CallFits, Tx!StmtOps, Tx!EndOps, Places
<1>4. CASE Tx!Refuse(Me) \/ Tx!SayDone(Me) \/ Tx!StatementFails(Me)
  <2>1. PICK r \in {"refused", "done", "failed"} :
          /\ ~Answered /\ UNCHANGED <<op, phase, durable, acked, expired>>
          /\ reply' = [reply EXCEPT ![Me] = r] /\ stmt' = [stmt EXCEPT ![Me] = 0]
          /\ op[Me] \notin Tx!StmtOps => phase # "open"
          /\ effects' = effects \/ effects' = effects \cup {i}
          /\ effects \subseteq effects' /\ effects' \subseteq Statements
    BY <1>3, <1>4 DEF Tx!Refuse, Tx!SayDone, Tx!StatementFails, Tx!Return, TypeOK
  <2>2. TypeOK'
    BY <2>1 DEF TypeOK
  <2>3. CallFits'
    BY <2>1 DEF CallFits, TypeOK, Tx!StmtOps
  <2>4. EffectsFit'
    BY <1>1, <2>1 DEF EffectsFit, TypeOK
  <2> QED BY <1>2, <2>1, <2>2, <2>3, <2>4
<1>5. CASE Tx!StatementOk(Me)
  <2>1. /\ ~Answered /\ UNCHANGED <<op, phase, durable, expired>>
        /\ reply' = [reply EXCEPT ![Me] = "ok"] /\ stmt' = [stmt EXCEPT ![Me] = 0]
        /\ effects' = effects \cup {i} /\ acked' = acked \cup {i}
        /\ pc = "exec" /\ i \in Statements
    BY <1>1, <1>3, <1>5 DEF Tx!StatementOk, Tx!Return, CallFits
  <2>2. TypeOK'
    BY <2>1 DEF TypeOK
  <2>3. CallFits'
    BY <2>1 DEF CallFits, TypeOK
  <2>4. EffectsFit'
    BY <2>1 DEF EffectsFit, TypeOK
  <2> QED BY <1>2, <2>1, <2>2, <2>3, <2>4
<1>6. CASE Tx!CommitOk(Me) \/ Tx!CommitFails(Me)
  <2>1. PICK r \in {"ok", "failed"} :
          /\ ~Answered /\ UNCHANGED <<op, effects, acked, expired>>
          /\ reply' = [reply EXCEPT ![Me] = r] /\ stmt' = [stmt EXCEPT ![Me] = 0]
          /\ phase = "ending"
          /\ \/ phase' = "committed" /\ durable' = effects
             \/ phase' = "rolledback" /\ durable' = durable /\ r = "failed"
    BY <1>6 DEF Tx!CommitOk, Tx!CommitFails, Tx!Return, Tx!Keep, Tx!Drop
  <2>2. pc = "commit" /\ effects = Statements /\ ~firstErr
    BY <1>1, <1>6, <2>1
       DEF Tx!CommitOk, Tx!CommitFails, CallFits, EffectsFit, ReportFits, TypeOK, Places
  <2>3. TypeOK'
    BY <2>1 DEF TypeOK
  <2>4. CallFits'
    BY <2>1, <2>2 DEF CallFits, TypeOK
  <2>5. EffectsFit'
    BY <2>1, <2>2 DEF EffectsFit, TypeOK
  <2> QED BY <1>2, <2>1, <2>2, <2>3, <2>4, <2>5
<1>7. CASE Tx!CommitCancelled(Me)
  <2>1. /\ ~Answered /\ UNCHANGED <<op, phase, effects, durable, acked, expired>>
        /\ reply' = [reply EXCEPT ![Me] = "failed"] /\ stmt' = [stmt EXCEPT ![Me] = 0]
        /\ phase # "open"
    BY <1>7 DEF Tx!CommitCancelled, Tx!Return
  <2>2. TypeOK'
    BY <2>1 DEF TypeOK
  <2>3. CallFits' /\ EffectsFit'
    BY <2>1 DEF CallFits, EffectsFit, TypeOK
  <2> QED BY <1>2, <2>1, <2>2, <2>3
<1>8. CASE Tx!RollbackReturns(Me)
  <2>1. PICK r \in {"ok", "failed"} :
          /\ ~Answered /\ UNCHANGED <<op, effects, durable, acked, expired>>
          /\ reply' = [reply EXCEPT ![Me] = r] /\ stmt' = [stmt EXCEPT ![Me] = 0]
          /\ phase = "ending" /\ phase' = "rolledback" /\ op[Me] = "Rollback"
    BY <1>8 DEF Tx!RollbackReturns, Tx!Return, Tx!Drop
  <2>2. pc = "rollback"
    BY <1>1, <2>1 DEF CallFits, TypeOK, Places
  <2>3. TypeOK'
    BY <2>1 DEF TypeOK
  <2>4. CallFits' /\ EffectsFit'
    BY <2>1, <2>2 DEF CallFits, EffectsFit, TypeOK
  <2> QED BY <1>2, <2>1, <2>3, <2>4
<1>9. CASE Tx!BeginEnd \/ Tx!AutoRollback \/ Tx!Expire
  <2>1. /\ UNCHANGED <<effects, durable, acked, op, stmt, reply>>
        /\ expired' \in BOOLEAN
        /\ phase \in {"open", "ending"} \/ phase' = phase
        /\ phase' \in {"ending", "rolledback", phase}
        /\ phase' = "open" => phase = "open"
    BY <1>9 DEF Tx!BeginEnd, Tx!AutoRollback, Tx!Expire, Tx!Drop, TypeOK
  <2>2. TypeOK'
    BY <2>1 DEF TypeOK
  <2>3. CallFits'
    BY <1>1, <2>1 DEF CallFits
  <2>4. EffectsFit'
    <3>1. CASE pc = "done" /\ Clean
      BY <1>1, <2>1, <3>1 DEF EffectsFit
    <3>2. CASE ~(pc = "done" /\ Clean)
      BY <1>1, <2>1, <3>2 DEF EffectsFit
    <3> QED BY <3>1, <3>2
  <2> QED BY <1>2, <2>1, <2>2, <2>3, <2>4
<1> QED BY <1>4, <1>5, <1>6, <1>7, <1>8, <1>9 DEF TxAnswers

LEMMA NextInv == Inv /\ [Next]_vars => Inv'
<1> SUFFICES ASSUME Inv, [Next]_vars PROVE Inv' OBVIOUS
<1>1. CASE UNCHANGED vars
  <2>1. /\ Clean' <=> Clean
        /\ \A k \in DOMAIN results : Failed(k)' <=> Failed(k)
        /\ UNCHANGED batchVars /\ UNCHANGED txVars
    BY <1>1, ReportStays DEF vars
  <2> QED BY <2>1 DEF Inv, TypeOK, ReportFits, DirectFits, CallFits, EffectsFit,
                      NothingLeftOpen, StopsAtFirstError, Began
<1>2. CASE Next
  BY <1>2, DirectStatementKeepsInv, DirectReturnsKeepsInv, BeginTxKeepsInv,
     CallExecKeepsInv, ExecReturnsKeepsInv, CallRollbackKeepsInv,
     RollbackReturnsKeepsInv, CallCommitKeepsInv, CommitReturnsKeepsInv,
     TxStepKeepsInv DEF Next
<1> QED BY <1>1, <1>2

-----------------------------------------------------------------------------
\* The theorems.

\* Inv holds of every batch.
THEOREM BatchInvHolds == Spec => []Inv
<1> QED BY InitInv, NextInv, PTL DEF Spec

\* exec --file --transaction stores all of the file or nothing, at every instant.
THEOREM BatchIsAtomic == Spec => []AllOrNothing
<1>1. Inv => AllOrNothing
  BY DEF Inv, EffectsFit, AllOrNothing
<1> QED BY <1>1, BatchInvHolds, PTL

\* A batch in a transaction in which a statement failed stores nothing.
THEOREM FailedBatchStoresNothing == Spec => []FailureStoresNothing
<1>1. Inv => FailureStoresNothing
  BY DEF Inv, EffectsFit, FailureStoresNothing
<1> QED BY <1>1, BatchInvHolds, PTL

\* A report without an error means that every statement is stored.
THEOREM CleanReportsAreTrue == Spec => []CleanReportIsTrue
<1>1. ASSUME Inv PROVE CleanReportIsTrue
  <2> SUFFICES ASSUME pc = "done", Clean PROVE durable = Statements
    BY DEF CleanReportIsTrue, Clean
  <2>1. CASE useTransaction
    BY <1>1, <2>1 DEF Inv, EffectsFit
  <2>2. CASE ~useTransaction
    BY <1>1, <2>2 DEF Inv, DirectFits, ReportFits
  <2> QED BY <2>1, <2>2
<1> QED BY <1>1, BatchInvHolds, PTL

\* batchExec never returns with its transaction open.
THEOREM BatchClosesItsTransaction == Spec => []NothingLeftOpen
<1>1. Inv => NothingLeftOpen
  BY DEF Inv
<1> QED BY <1>1, BatchInvHolds, PTL

\* Without --continue-on-error nothing is stored past the first failure.
THEOREM BatchStopsAtFirstError == Spec => []StopsAtFirstError
<1>1. Inv => StopsAtFirstError
  BY DEF Inv
<1> QED BY <1>1, BatchInvHolds, PTL
=============================================================================
