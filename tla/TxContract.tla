----------------------------- MODULE TxContract -----------------------------
(***************************************************************************)
(* What the interface Tx of pkg/db/db.go promises to the goroutines that   *)
(* share one transaction, said without mutexes, channels, contexts or the  *)
(* auto-rollback goroutine.  Every call either takes effect at one instant *)
(* between its invocation and its return or says why it did not:           *)
(*                                                                         *)
(*   - "ok" from a statement means its effect is part of the transaction;  *)
(*   - "ok" from Commit means this very call committed it, "ok" from       *)
(*     Rollback that this very call rolled it back;                        *)
(*   - "done" (an ErrTxDone) is only said once the end has begun;          *)
(*   - nobody begins the end but a Commit or a Rollback that is in         *)
(*     progress, or the expiry of the transaction's context.               *)
(***************************************************************************)
EXTENDS Naturals

CONSTANTS Callers,  \* goroutines that hold the Tx
          Stmts,    \* statements they may pass to it
          NoStmt    \* the argument of Commit and Rollback

VARIABLES phase,    \* "open", "ending", then "committed" or "rolledback"
          effects,  \* statements whose effect the open transaction holds
          durable,  \* statements whose effect the database keeps
          acked,    \* statements a caller was told had succeeded
          op,       \* op[c]: the method caller c called last
          stmt,     \* stmt[c]: the statement of c's call in progress
          reply,    \* reply[c]: "pending", or the answer to c's last call
          expired   \* the deadline passed or the parent context was cancelled

vars == <<phase, effects, durable, acked, op, stmt, reply, expired>>

EndOps  == {"Commit", "Rollback"}
StmtOps == {"Exec", "Query", "QueryWithOffset"}

Live == phase \in {"open", "ending"}

Init ==
  /\ phase = "open"
  /\ effects = {} /\ durable = {} /\ acked = {}
  /\ op = [c \in Callers |-> "none"]
  /\ stmt = [c \in Callers |-> NoStmt]
  /\ reply = [c \in Callers |-> "none"]
  /\ expired = FALSE

\* Caller c calls a method.
Invoke(c, o, s) ==
  /\ reply[c] # "pending"
  /\ (o \in EndOps) <=> (s = NoStmt)
  /\ op' = [op EXCEPT ![c] = o]
  /\ stmt' = [stmt EXCEPT ![c] = s]
  /\ reply' = [reply EXCEPT ![c] = "pending"]
  /\ UNCHANGED <<phase, effects, durable, acked, expired>>

\* Caller c's call returns r.
Return(c, r) ==
  /\ reply[c] = "pending"
  /\ reply' = [reply EXCEPT ![c] = r]
  /\ stmt' = [stmt EXCEPT ![c] = NoStmt]
  /\ UNCHANGED <<op, expired>>

Refuse(c) == \* the safety rules stop the statement
  /\ op[c] \in StmtOps
  /\ Return(c, "refused")
  /\ UNCHANGED <<phase, effects, durable, acked>>

SayDone(c) == \* the transaction has ended or is about to
  /\ phase # "open"
  /\ Return(c, "done")
  /\ UNCHANGED <<phase, effects, durable, acked>>

StatementOk(c) ==
  /\ op[c] \in StmtOps /\ Live
  /\ Return(c, "ok")
  /\ effects' = IF op[c] = "Exec" THEN effects \cup {stmt[c]} ELSE effects
  /\ acked' = IF op[c] = "Exec" THEN acked \cup {stmt[c]} ELSE acked
  /\ UNCHANGED <<phase, durable>>

StatementFails(c) == \* with or without effect: the answer may be what was lost
  /\ op[c] \in StmtOps
  /\ Return(c, "failed")
  /\ \/ effects' = effects
     \/ Live /\ op[c] = "Exec" /\ effects' = effects \cup {stmt[c]}
  /\ UNCHANGED <<phase, durable, acked>>

\* The end begins: on behalf of a caller, or because the context expired.
BeginEnd ==
  /\ phase = "open"
  /\ expired \/ \E c \in Callers : reply[c] = "pending" /\ op[c] \in EndOps
  /\ phase' = "ending"
  /\ UNCHANGED <<effects, durable, acked, op, stmt, reply, expired>>

Keep == phase' = "committed" /\ durable' = effects
Drop == phase' = "rolledback" /\ durable' = durable

CommitOk(c) ==
  /\ op[c] = "Commit" /\ phase = "ending"
  /\ Keep /\ Return(c, "ok")
  /\ UNCHANGED <<effects, acked>>

CommitFails(c) == \* the database did not answer: either outcome
  /\ op[c] = "Commit" /\ phase = "ending"
  /\ Keep \/ Drop
  /\ Return(c, "failed")
  /\ UNCHANGED <<effects, acked>>

CommitCancelled(c) == \* the parent context was cancelled first
  /\ op[c] = "Commit" /\ phase # "open" /\ expired
  /\ Return(c, "failed")
  /\ UNCHANGED <<phase, effects, durable, acked>>

RollbackReturns(c) ==
  /\ op[c] = "Rollback" /\ phase = "ending"
  /\ Drop
  /\ \E r \in {"ok", "failed"} : Return(c, r)
  /\ UNCHANGED <<effects, acked>>

AutoRollback ==
  /\ phase = "ending" /\ expired
  /\ Drop
  /\ UNCHANGED <<effects, acked, op, stmt, reply, expired>>

Expire ==
  /\ ~expired /\ expired' = TRUE
  /\ UNCHANGED <<phase, effects, durable, acked, op, stmt, reply>>

Next ==
  \/ \E c \in Callers :
       \/ \E o \in EndOps \cup StmtOps, s \in Stmts \cup {NoStmt} : Invoke(c, o, s)
       \/ Refuse(c) \/ SayDone(c) \/ StatementOk(c) \/ StatementFails(c)
       \/ CommitOk(c) \/ CommitFails(c) \/ CommitCancelled(c)
       \/ RollbackReturns(c)
  \/ BeginEnd \/ AutoRollback \/ Expire

Spec == Init /\ [][Next]_vars
=============================================================================
