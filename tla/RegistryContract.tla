--------------------------- MODULE RegistryContract ---------------------------
(***************************************************************************)
(* What a Registry promises to the goroutines that share it, said without   *)
(* the mutex and the calls into the database layer: a map from names to     *)
(* sessions on which every call acts at one instant between its invocation  *)
(* and its return.                                                          *)
(*                                                                          *)
(*   - Open and Add take a free name, or change nothing;                    *)
(*   - Close takes one name out of the map and closes its session, CloseAll *)
(*     takes all of them, and nobody sees a part of that;                   *)
(*   - Get answers what is in the map, never a session on its way out.      *)
(***************************************************************************)
CONSTANTS Goroutines, Names, Sessions, None

VARIABLES entries,  \* entries[n]: the session under the name n
          pool,     \* pool[s]: "unmade", "open" or "closed"
          call,     \* call[g]: "none", the method g has called, or
                    \* "returning" when it has acted
          name,     \* name[g]: the name g's call is about
          held      \* held[g]: the session g has been given or has made

vars == <<entries, pool, call, name, held>>

Init ==
  /\ entries = [n \in Names |-> None]
  /\ pool = [s \in Sessions |-> "unmade"]
  /\ call = [g \in Goroutines |-> "none"]
  /\ name = [g \in Goroutines |-> None]
  /\ held = [g \in Goroutines |-> None]

Free(n) == entries[n] = None

Invoke(g, m, n) ==
  /\ call[g] = "none" /\ (m = "Add" => held[g] # None)
  /\ call' = [call EXCEPT ![g] = m] /\ name' = [name EXCEPT ![g] = n]
  /\ UNCHANGED <<entries, pool, held>>

\* g's call of m acts; it returns now or later.
Acts(g, m) ==
  /\ call[g] = m
  /\ \E after \in {"returning", "none"} : call' = [call EXCEPT ![g] = after]
  /\ UNCHANGED name

Return(g) ==
  /\ call[g] = "returning" /\ call' = [call EXCEPT ![g] = "none"]
  /\ UNCHANGED <<entries, pool, name, held>>

Open(g, s) ==
  /\ Acts(g, "Open") /\ Free(name[g]) /\ pool[s] = "unmade"
  /\ entries' = [entries EXCEPT ![name[g]] = s]
  /\ pool' = [pool EXCEPT ![s] = "open"]
  /\ held' = [held EXCEPT ![g] = s]

Add(g) ==
  /\ Acts(g, "Add") /\ Free(name[g])
  /\ entries' = [entries EXCEPT ![name[g]] = held[g]]
  /\ UNCHANGED <<pool, held>>

Close(g) ==
  /\ Acts(g, "Close") /\ ~Free(name[g])
  /\ entries' = [entries EXCEPT ![name[g]] = None]
  /\ pool' = [pool EXCEPT ![entries[name[g]]] = "closed"]
  /\ held' = [held EXCEPT ![g] = entries[name[g]]]

CloseAll(g) ==
  /\ Acts(g, "CloseAll")
  /\ entries' = [n \in Names |-> None]
  /\ pool' = [s \in Sessions |-> IF \E n \in Names : entries[n] = s THEN "closed" ELSE pool[s]]
  /\ UNCHANGED held

\* The name is taken, or there is nothing under it, or no session can be made.
Fails(g) ==
  /\ \/ Acts(g, "Open")
     \/ Acts(g, "Add") /\ ~Free(name[g])
     \/ Acts(g, "Close") /\ Free(name[g])
  /\ UNCHANGED <<entries, pool, held>>

Get(g, n) ==
  /\ call[g] = "none" /\ held' = [held EXCEPT ![g] = entries[n]]
  /\ UNCHANGED <<entries, pool, call, name>>

\* db.Open by the goroutine itself.
Make(g, s) ==
  /\ call[g] = "none" /\ pool[s] = "unmade"
  /\ pool' = [pool EXCEPT ![s] = "open"] /\ held' = [held EXCEPT ![g] = s]
  /\ UNCHANGED <<entries, call, name>>

\* Session.Close by the goroutine itself: the map is not asked.
Dispose(g) ==
  /\ call[g] = "none" /\ held[g] # None
  /\ pool' = [pool EXCEPT ![held[g]] = "closed"]
  /\ UNCHANGED <<entries, call, name, held>>

Next == \E g \in Goroutines :
  \/ \E m \in {"Open", "Add", "Close", "CloseAll"}, n \in Names : Invoke(g, m, n)
  \/ \E n \in Names : Get(g, n)
  \/ \E s \in Sessions : Open(g, s) \/ Make(g, s)
  \/ Add(g) \/ Close(g) \/ CloseAll(g) \/ Fails(g) \/ Return(g) \/ Dispose(g)

Spec == Init /\ [][Next]_vars
===============================================================================
