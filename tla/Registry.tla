------------------------------- MODULE Registry -------------------------------
(***************************************************************************)
(* The registry of named sessions of pkg/registry/registry.go, shared by    *)
(* goroutines that open, add, look up and close sessions under a            *)
(* sync.RWMutex.                                                            *)
(*                                                                          *)
(* Open and the two closes call the database layer with the mutex held:     *)
(* these calls take time and may fail, so a goroutine that is in one is a   *)
(* state of its own.  The methods that only read are one step each.         *)
(***************************************************************************)
CONSTANTS Goroutines, Names,
          Sessions,    \* every *db.Session that will ever be made: a bound
          None         \* no session, no name, nobody

ASSUME NoneAssumption == None \notin Goroutines \cup Names \cup Sessions

VARIABLES
  mu,        \* the goroutine that holds the mutex for writing
  sessions,  \* Registry.sessions
  pool,      \* pool[s]: "unmade", or the sql.DB of s is "open" or "closed"
  ours,      \* sessions Registry.Open made and stored or is about to store
  added,     \* sessions Add has stored
  astray,    \* sessions stored again by Add, or closed by a goroutine itself
  pc,        \* pc[g]: where g's call is
  name,      \* name[g]: the name g's call is about
  handle     \* handle[g]: the session g was given, or works on in its call

mapVars  == <<sessions, pool, ours, added, astray>>
callVars == <<name, handle>>
vars == <<mu, mapVars, pc, callVars>>

Registered(s) == \E n \in Names : sessions[n] = s
Unmade == {s \in Sessions : pool[s] = "unmade"}

Init == \* NewRegistry
  /\ mu = None
  /\ sessions = [n \in Names |-> None]
  /\ pool = [s \in Sessions |-> "unmade"]
  /\ ours = {} /\ added = {} /\ astray = {}
  /\ pc = [g \in Goroutines |-> "idle"]
  /\ name = [g \in Goroutines |-> None]
  /\ handle = [g \in Goroutines |-> None]

Goto(g, l) == pc' = [pc EXCEPT ![g] = l]
Hold(g, s) == handle' = [handle EXCEPT ![g] = s]
CloseDB(s) == pool' = [pool EXCEPT ![s] = "closed"]
Forget(n) == sessions' = [sessions EXCEPT ![n] = None]

-----------------------------------------------------------------------------
\* A goroutine calls a writing method, and waits for the mutex.

Call(g, m, n) ==
  /\ pc[g] = "idle" /\ (m = "Add" => handle[g] # None)
  /\ Goto(g, m) /\ name' = [name EXCEPT ![g] = n]
  /\ UNCHANGED <<mu, mapVars, handle>>

Lock(g) == mu = None /\ mu' = g
Unlock(g) == mu = g /\ mu' = None

\* Open: the name is free, the database layer makes a session, it is stored.

\* Faulty: the lookup is not under the mutex.
OpenLooksUnlocked(g) ==
  /\ pc[g] = "Open"
  /\ IF sessions[name[g]] = None THEN Goto(g, "opening") ELSE Goto(g, "idle")
  /\ UNCHANGED <<mu, mapVars, callVars>>

OpenLooks(g) ==
  /\ pc[g] = "Open"
  /\ \/ sessions[name[g]] = None /\ Lock(g) /\ Goto(g, "opening")
     \/ sessions[name[g]] # None /\ mu = None /\ UNCHANGED mu /\ Goto(g, "idle")
  /\ UNCHANGED <<mapVars, callVars>>

\* Faulty: a failed Open is tried again, without a limit.
DbOpenRetries(g) ==
  /\ pc[g] = "opening"
  /\ \/ /\ Goto(g, "Open") /\ mu' = None
        /\ UNCHANGED <<pool, ours, handle>>
     \/ \E s \in Unmade :
          /\ pool' = [pool EXCEPT ![s] = "open"] /\ ours' = ours \cup {s}
          /\ Hold(g, s) /\ Goto(g, "storing") /\ UNCHANGED mu
  /\ UNCHANGED <<sessions, added, astray, name>>

DbOpen(g) == \* an unknown driver, an invalid DSN, or a pool
  /\ pc[g] = "opening"
  /\ \/ /\ Goto(g, "idle") /\ mu' = None
        /\ UNCHANGED <<pool, ours, handle>>
     \/ \E s \in Unmade :
          /\ pool' = [pool EXCEPT ![s] = "open"] /\ ours' = ours \cup {s}
          /\ Hold(g, s) /\ Goto(g, "storing") /\ UNCHANGED mu
  /\ UNCHANGED <<sessions, added, astray, name>>

OpenStores(g) ==
  /\ pc[g] = "storing"
  /\ sessions' = [sessions EXCEPT ![name[g]] = handle[g]]
  /\ mu' = None /\ Goto(g, "idle")
  /\ UNCHANGED <<pool, ours, added, astray, callVars>>

\* Add: a session its caller has made, or has from the registry: nothing looks
\* whether it is registered, or closed, already.
Add(g) ==
  /\ pc[g] = "Add" /\ mu = None
  /\ \/ /\ sessions[name[g]] = None
        /\ sessions' = [sessions EXCEPT ![name[g]] = handle[g]]
        /\ added' = added \cup {handle[g]}
        /\ astray' = astray \cup ({handle[g]} \cap (ours \cup added))
     \/ sessions[name[g]] # None /\ UNCHANGED <<sessions, added, astray>>
  /\ Goto(g, "idle")
  /\ UNCHANGED <<mu, pool, ours, callVars>>

-----------------------------------------------------------------------------
\* Close: the entry goes first, then the session is closed.

CloseLooks(g) ==
  /\ pc[g] = "Close"
  /\ \/ /\ sessions[name[g]] = None /\ mu = None
        /\ Goto(g, "idle") /\ UNCHANGED <<mu, sessions, handle>>
     \/ /\ sessions[name[g]] # None /\ Lock(g)
        /\ Hold(g, sessions[name[g]]) /\ Forget(name[g])
        /\ Goto(g, "closing")
  /\ UNCHANGED <<pool, ours, added, astray, name>>

\* Faulty: a failed close puts the entry back.
SessionCloseRestores(g) ==
  /\ pc[g] = "closing"
  /\ CloseDB(handle[g])
  /\ sessions' \in {sessions, [sessions EXCEPT ![name[g]] = handle[g]]}
  /\ Unlock(g) /\ Goto(g, "idle")
  /\ UNCHANGED <<ours, added, astray, name, handle>>

\* Session.Close: the pool is closed even when it answers an error.
SessionClose(g) ==
  /\ pc[g] = "closing"
  /\ CloseDB(handle[g])
  /\ Unlock(g) /\ Goto(g, "idle")
  /\ UNCHANGED <<sessions, ours, added, astray, name, handle>>

\* CloseAll: every entry, in the map's order, which is no order; the errors of
\* the closes are collected and change nothing.
CloseAllLocks(g) ==
  /\ pc[g] = "CloseAll" /\ Lock(g)
  /\ Goto(g, "closingAll")
  /\ UNCHANGED <<mapVars, name, handle>>

\* Faulty: the first error ends the loop.
CloseAllStepStops(g) == \E n \in Names :
  /\ pc[g] = "closingAll" /\ sessions[n] # None
  /\ CloseDB(sessions[n]) /\ Forget(n)
  /\ \/ UNCHANGED <<mu, pc>>
     \/ Unlock(g) /\ Goto(g, "idle")
  /\ UNCHANGED <<ours, added, astray, name, handle>>

CloseAllStep(g) == \E n \in Names :
  /\ pc[g] = "closingAll" /\ sessions[n] # None
  /\ CloseDB(sessions[n]) /\ Forget(n)
  /\ UNCHANGED <<mu, ours, added, astray, pc, name, handle>>

CloseAllReturns(g) ==
  /\ pc[g] = "closingAll" /\ \A n \in Names : sessions[n] = None
  /\ Unlock(g) /\ Goto(g, "idle")
  /\ UNCHANGED <<mapVars, callVars>>

-----------------------------------------------------------------------------
\* Get, the reader that matters: its caller keeps the session, and may find it
\* closed by another.  List and Count give nothing to keep.
Get(g, n) ==
  /\ pc[g] = "idle" /\ mu = None
  /\ Hold(g, sessions[n])
  /\ UNCHANGED <<mu, mapVars, pc, name>>

\* A goroutine makes a session by db.Open, to give it to Add.
CallerOpens(g, s) ==
  /\ pc[g] = "idle" /\ s \in Unmade
  /\ pool' = [pool EXCEPT ![s] = "open"] /\ Hold(g, s)
  /\ UNCHANGED <<mu, sessions, ours, added, astray, pc, name>>

\* A goroutine closes the session it has, registered or not, past the mutex.
CallerCloses(g) ==
  /\ pc[g] = "idle" /\ handle[g] # None
  /\ CloseDB(handle[g]) /\ astray' = astray \cup {handle[g]}
  /\ UNCHANGED <<mu, sessions, ours, added, pc, callVars>>

-----------------------------------------------------------------------------
WriterStep(g) ==
  \/ OpenLooks(g) \/ CloseLooks(g) \/ CloseAllLocks(g)
  \/ Add(g)
DatabaseStep(g) ==
  \/ DbOpen(g) \/ OpenStores(g) \/ SessionClose(g)
  \/ CloseAllStep(g) \/ CloseAllReturns(g)

Next == \E g \in Goroutines :
  \/ \E m \in {"Open", "Add", "Close", "CloseAll"}, n \in Names : Call(g, m, n)
  \/ \E n \in Names : Get(g, n)
  \/ \E s \in Sessions : CallerOpens(g, s)
  \/ CallerCloses(g)
  \/ WriterStep(g) \/ DatabaseStep(g)

Spec == Init /\ [][Next]_vars

\* A sync.RWMutex starves no writer, and db.Open and sql.DB.Close return.  No
\* goroutine has to call anything.
FairSpec == Spec /\ \A g \in Goroutines :
  SF_vars(WriterStep(g)) /\ WF_vars(DatabaseStep(g))

-----------------------------------------------------------------------------
\* Safety.

Writing == {"opening", "storing", "closing", "closingAll"}

TypeOK ==
  /\ mu \in Goroutines \cup {None}
  /\ sessions \in [Names -> Sessions \cup {None}]
  /\ pool \in [Sessions -> {"unmade", "open", "closed"}]
  /\ ours \subseteq Sessions /\ added \subseteq Sessions /\ astray \subseteq Sessions
  /\ pc \in [Goroutines -> Writing \cup {"idle", "Open", "Add", "Close", "CloseAll"}]
  /\ name \in [Goroutines -> Names \cup {None}]
  /\ handle \in [Goroutines -> Sessions \cup {None}]

\* A session the registry opened never drops out of it with its pool open:
\* every order of opens under one name, failed closes and CloseAll leaves it
\* registered, closed, or in the hands of the call that holds the mutex.
NoSessionLeaks ==
  \A s \in ours : pool[s] = "open" =>
    Registered(s) \/ \E g \in Goroutines : pc[g] \in {"storing", "closing"} /\ handle[g] = s

\* When CloseAll returns, no session is registered, and none the registry
\* opened is open, whichever closes failed and whoever calls Open meanwhile.
CloseAllLeavesNothing ==
  [][\A g \in Goroutines : pc[g] = "closingAll" /\ pc'[g] = "idle" =>
       \A s \in Sessions : ~Registered(s)' /\ (s \in ours => pool'[s] = "closed")]_vars

\* The session found under a name is open: the entry goes before the pool does,
\* and a failed close does not put it back.  So only a session added under a
\* second name or after its close, or closed by a goroutine that does not ask
\* the registry, is found closed.
RegisteredIsOpen ==
  \A s \in Sessions \ astray : Registered(s) => pool[s] = "open"

-----------------------------------------------------------------------------
\* Refinement: the map as the calls that wait for the mutex will find it.

\* The holder of the mutex is at l.
Holder(l) == mu # None /\ pc[mu] = l

\* An Open acts when the database layer has made its session, a Close when it
\* has found its own, a CloseAll when it has the mutex.
Entry(n) ==
  IF Holder("closingAll") THEN None
  ELSE IF Holder("storing") /\ name[mu] = n THEN handle[mu] ELSE sessions[n]

PoolOf(s) ==
  IF \/ Holder("closingAll") /\ Registered(s)
     \/ Holder("closing") /\ handle[mu] = s
  THEN "closed" ELSE pool[s]

CallAt(l) ==
  CASE l = "idle" -> "none"
    [] l = "opening" -> "Open"
    [] l \in {"storing", "closing", "closingAll"} -> "returning"
    [] OTHER -> l

Entries == [n \in Names |-> Entry(n)]
Pools   == [s \in Sessions |-> PoolOf(s)]
Calls   == [g \in Goroutines |-> CallAt(pc[g])]

Contract == INSTANCE RegistryContract
  WITH entries <- Entries, pool <- Pools, call <- Calls, held <- handle

\* Every call acts on the map at one instant: no order of calls, and no
\* failure below them, shows a name half taken or a session half closed.
ImplementsContract == Contract!Spec

-----------------------------------------------------------------------------
\* The inductive invariant the proofs rest on.

\* One writer at a time, and it is the one the mutex says.
OneWriter == \A g \in Goroutines : pc[g] \in Writing <=> mu = g

\* What a call has found stays so while it holds the mutex.
CallFits == \A g \in Goroutines :
  /\ pc[g] # "idle" => name[g] \in Names
  /\ pc[g] \in {"opening", "storing", "closing"} => sessions[name[g]] = None
  /\ pc[g] \in {"Add", "storing", "closing"} => handle[g] \in Sessions
  /\ pc[g] = "storing" =>
       /\ handle[g] \in ours /\ pool[handle[g]] = "open"
       /\ \A h \in Goroutines \ {g} : handle[h] # handle[g]
  /\ pc[g] = "closing" => handle[g] \in ours \cup added
  /\ pc[g] \in {"storing", "closing"} /\ handle[g] \notin astray => ~Registered(handle[g])
  /\ handle[g] \in Sessions => pool[handle[g]] # "unmade"

\* The registry knows what it has and what it has closed, and a session it was
\* given once has one name.
KnownFits ==
  /\ \A n \in Names : sessions[n] # None => sessions[n] \in ours \cup added
  /\ \A s \in Sessions : pool[s] = "closed" => s \in ours \cup added \cup astray
  /\ \A s \in ours \cup added : pool[s] # "unmade"
  /\ \A n, m \in Names : sessions[n] = sessions[m] /\ n # m =>
       sessions[n] \in astray \cup {None}

Inv == /\ TypeOK /\ OneWriter /\ CallFits /\ KnownFits
       /\ NoSessionLeaks /\ RegisteredIsOpen

-----------------------------------------------------------------------------
\* Liveness.

\* Every call of a writing method returns although the mutex is held while the
\* database layer opens and closes pools: every path of a call unlocks it, a
\* failed open and a failed close included, and CloseAll comes to an end.
CallsReturn == \A g \in Goroutines : pc[g] # "idle" ~> pc[g] = "idle"
=============================================================================
