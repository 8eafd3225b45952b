---------------------------- MODULE RegistryProofs ----------------------------
(***************************************************************************)
(* What holds of Registry for every set of goroutines, names and sessions.  *)
(* Inv is inductive: one lemma per action, with a step for each conjunct    *)
(* that needs another conjunct and a last one for those the action keeps by *)
(* themselves.                                                              *)
(***************************************************************************)
EXTENDS Registry, TLAPS

USE NoneAssumption DEF mapVars, callVars, Writing, Goto

-----------------------------------------------------------------------------
LEMMA InitInv == Init => Inv
<1> SUFFICES ASSUME Init PROVE Inv OBVIOUS
<1>1. TypeOK
  BY DEF Init, TypeOK
<1>2. OneWriter /\ CallFits /\ KnownFits
  BY DEF Init, OneWriter, CallFits, KnownFits
<1>3. NoSessionLeaks /\ RegisteredIsOpen
  BY DEF Init, NoSessionLeaks, RegisteredIsOpen, Registered
<1> QED BY <1>1, <1>2, <1>3 DEF Inv

\* One lemma per action.

LEMMA CallKeepsInv ==
  ASSUME Inv, NEW g \in Goroutines, NEW m \in {"Open", "Add", "Close", "CloseAll"},
         NEW n \in Names, Call(g, m, n)
  PROVE  Inv'
<1>1. TypeOK' /\ OneWriter' /\ CallFits' /\ KnownFits' /\ NoSessionLeaks' /\ RegisteredIsOpen'
  BY DEF Inv, Call, TypeOK, OneWriter, CallFits, Registered, KnownFits,
         NoSessionLeaks, RegisteredIsOpen
<1> QED BY <1>1 DEF Inv

LEMMA OpenLooksKeepsInv ==
  ASSUME Inv, NEW g \in Goroutines, OpenLooks(g)
  PROVE  Inv'
<1>1. TypeOK' /\ OneWriter' /\ CallFits' /\ KnownFits' /\ NoSessionLeaks' /\ RegisteredIsOpen'
  BY DEF Inv, OpenLooks, TypeOK, Lock, OneWriter, CallFits, Registered,
         KnownFits, NoSessionLeaks, RegisteredIsOpen
<1> QED BY <1>1 DEF Inv

LEMMA DbOpenKeepsInv ==
  ASSUME Inv, NEW g \in Goroutines, DbOpen(g)
  PROVE  Inv'
<1>1. CallFits'
  BY DEF Inv, DbOpen, TypeOK, CallFits, KnownFits, Registered, Hold, Unmade
<1>2. TypeOK' /\ OneWriter' /\ KnownFits' /\ NoSessionLeaks' /\ RegisteredIsOpen'
  BY DEF Inv, DbOpen, TypeOK, Hold, Unmade, OneWriter, KnownFits,
         NoSessionLeaks, Registered, RegisteredIsOpen
<1> QED BY <1>1, <1>2 DEF Inv

LEMMA OpenStoresKeepsInv ==
  ASSUME Inv, NEW g \in Goroutines, OpenStores(g)
  PROVE  Inv'
<1>1. CallFits'
  BY DEF Inv, OpenStores, TypeOK, OneWriter, CallFits
<1>2. KnownFits'
  BY DEF Inv, OpenStores, CallFits, KnownFits, Registered
<1>3. NoSessionLeaks'
  BY DEF Inv, OpenStores, TypeOK, CallFits, NoSessionLeaks, Registered
<1>4. RegisteredIsOpen'
  BY DEF Inv, OpenStores, CallFits, RegisteredIsOpen, Registered
<1>5. TypeOK' /\ OneWriter'
  BY DEF Inv, OpenStores, TypeOK, OneWriter
<1> QED BY <1>1, <1>2, <1>3, <1>4, <1>5 DEF Inv

LEMMA AddKeepsInv ==
  ASSUME Inv, NEW g \in Goroutines, Add(g)
  PROVE  Inv'
<1>1. TypeOK'
  BY DEF Inv, Add, TypeOK, CallFits
<1>2. CallFits'
  BY DEF Inv, Add, OneWriter, CallFits
<1>3. KnownFits'
  BY DEF Inv, Add, TypeOK, CallFits, KnownFits
<1>4. RegisteredIsOpen'
  BY DEF Inv, Add, TypeOK, CallFits, KnownFits, RegisteredIsOpen, Registered
<1>5. OneWriter' /\ NoSessionLeaks'
  BY DEF Inv, Add, OneWriter, TypeOK, NoSessionLeaks, Registered
<1> QED BY <1>1, <1>2, <1>3, <1>4, <1>5 DEF Inv

LEMMA CloseLooksKeepsInv ==
  ASSUME Inv, NEW g \in Goroutines, CloseLooks(g)
  PROVE  Inv'
<1>1. TypeOK'
  BY DEF Inv, CloseLooks, TypeOK, CallFits, Lock, Hold, Forget
<1>2. CallFits'
  <2>1. \A h \in Goroutines : pc[h] \notin Writing
    BY DEF Inv, CloseLooks, Lock, OneWriter
  <2>2. \A h \in Goroutines : pc'[h] # "storing"
    BY <2>1 DEF Inv, CloseLooks, TypeOK
  <2> QED BY <2>1, <2>2
          DEF Inv, CloseLooks, TypeOK, CallFits, KnownFits, Registered, Hold, Forget
<1>3. OneWriter' /\ KnownFits' /\ NoSessionLeaks' /\ RegisteredIsOpen'
  BY DEF Inv, CloseLooks, TypeOK, OneWriter, Lock, KnownFits, Forget,
         NoSessionLeaks, Registered, Hold, RegisteredIsOpen
<1> QED BY <1>1, <1>2, <1>3 DEF Inv

LEMMA SessionCloseKeepsInv ==
  ASSUME Inv, NEW g \in Goroutines, SessionClose(g)
  PROVE  Inv'
<1>1. CallFits'
  BY DEF Inv, SessionClose, TypeOK, OneWriter, CallFits, CloseDB
<1>2. KnownFits'
  BY DEF Inv, SessionClose, CallFits, KnownFits, CloseDB
<1>3. NoSessionLeaks'
  BY DEF Inv, SessionClose, TypeOK, NoSessionLeaks, Registered, CloseDB
<1>4. RegisteredIsOpen'
  BY DEF Inv, SessionClose, CallFits, RegisteredIsOpen, Registered, CloseDB
<1>5. TypeOK' /\ OneWriter'
  BY DEF Inv, SessionClose, TypeOK, Unlock, CloseDB, OneWriter
<1> QED BY <1>1, <1>2, <1>3, <1>4, <1>5 DEF Inv

LEMMA CloseAllLocksKeepsInv ==
  ASSUME Inv, NEW g \in Goroutines, CloseAllLocks(g)
  PROVE  Inv'
<1>1. TypeOK' /\ OneWriter' /\ CallFits' /\ KnownFits' /\ NoSessionLeaks' /\ RegisteredIsOpen'
  BY DEF Inv, CloseAllLocks, TypeOK, Lock, OneWriter, CallFits, Registered,
         KnownFits, NoSessionLeaks, RegisteredIsOpen
<1> QED BY <1>1 DEF Inv

LEMMA CloseAllStepKeepsInv ==
  ASSUME Inv, NEW g \in Goroutines, CloseAllStep(g)
  PROVE  Inv'
<1>1. CallFits'
  BY DEF Inv, CloseAllStep, OneWriter, CallFits, CloseDB
<1>2. RegisteredIsOpen'
  BY DEF Inv, CloseAllStep, TypeOK, KnownFits, RegisteredIsOpen, Registered,
         CloseDB, Forget
<1>3. TypeOK' /\ OneWriter' /\ KnownFits' /\ NoSessionLeaks'
  BY DEF Inv, CloseAllStep, TypeOK, CloseDB, Forget, OneWriter, KnownFits,
         NoSessionLeaks, Registered
<1> QED BY <1>1, <1>2, <1>3 DEF Inv

LEMMA CloseAllReturnsKeepsInv ==
  ASSUME Inv, NEW g \in Goroutines, CloseAllReturns(g)
  PROVE  Inv'
<1>1. CallFits'
  BY DEF Inv, CloseAllReturns, OneWriter, CallFits
<1>2. TypeOK' /\ OneWriter' /\ KnownFits' /\ NoSessionLeaks' /\ RegisteredIsOpen'
  BY DEF Inv, CloseAllReturns, TypeOK, Unlock, OneWriter, KnownFits,
         NoSessionLeaks, Registered, RegisteredIsOpen
<1> QED BY <1>1, <1>2 DEF Inv

LEMMA GetKeepsInv ==
  ASSUME Inv, NEW g \in Goroutines, NEW n \in Names, Get(g, n)
  PROVE  Inv'
<1>1. CallFits'
  BY DEF Inv, Get, OneWriter, CallFits, KnownFits, Hold
<1>2. NoSessionLeaks'
  BY DEF Inv, Get, OneWriter, NoSessionLeaks, Registered
<1>3. TypeOK' /\ OneWriter' /\ KnownFits' /\ RegisteredIsOpen'
  BY DEF Inv, Get, TypeOK, Hold, OneWriter, KnownFits, RegisteredIsOpen,
         Registered
<1> QED BY <1>1, <1>2, <1>3 DEF Inv

LEMMA CallerOpensKeepsInv ==
  ASSUME Inv, NEW g \in Goroutines, NEW s \in Sessions, CallerOpens(g, s)
  PROVE  Inv'
<1>1. NoSessionLeaks'
  BY DEF Inv, CallerOpens, KnownFits, NoSessionLeaks, Registered, Hold,
         Unmade
<1>2. CallFits'
  <2>1. \A h \in Goroutines : pc[h] = "storing" => h # g /\ handle[h] # s
    BY DEF Inv, CallerOpens, CallFits, Unmade
  <2> QED BY <2>1 DEF Inv, CallerOpens, TypeOK, CallFits, Registered, Hold, Unmade
<1>3. TypeOK' /\ OneWriter' /\ KnownFits' /\ RegisteredIsOpen'
  BY DEF Inv, CallerOpens, TypeOK, Hold, OneWriter, Registered, KnownFits, RegisteredIsOpen
<1> QED BY <1>1, <1>2, <1>3 DEF Inv

LEMMA CallerClosesKeepsInv ==
  ASSUME Inv, NEW g \in Goroutines, CallerCloses(g)
  PROVE  Inv'
<1>1. handle[g] \in Sessions
  BY DEF Inv, CallerCloses, TypeOK
<1>2. CallFits'
  BY <1>1 DEF Inv, CallerCloses, TypeOK, CallFits, CloseDB, Registered
<1>3. KnownFits'
  BY <1>1 DEF Inv, CallerCloses, TypeOK, CallFits, KnownFits, CloseDB
<1>4. NoSessionLeaks'
  BY <1>1 DEF Inv, CallerCloses, TypeOK, NoSessionLeaks, Registered, CloseDB
<1>5. RegisteredIsOpen'
  BY <1>1 DEF Inv, CallerCloses, TypeOK, RegisteredIsOpen, Registered, CloseDB
<1>6. TypeOK' /\ OneWriter'
  BY <1>1 DEF Inv, CallerCloses, TypeOK, OneWriter, CloseDB
<1> QED BY <1>2, <1>3, <1>4, <1>5, <1>6 DEF Inv

LEMMA NextInv == Inv /\ [Next]_vars => Inv'
<1> SUFFICES ASSUME Inv, [Next]_vars PROVE Inv' OBVIOUS
<1>1. CASE Next
  BY <1>1, CallKeepsInv, OpenLooksKeepsInv, DbOpenKeepsInv, OpenStoresKeepsInv,
     AddKeepsInv, CloseLooksKeepsInv, SessionCloseKeepsInv,
     CloseAllLocksKeepsInv, CloseAllStepKeepsInv, CloseAllReturnsKeepsInv,
     GetKeepsInv, CallerOpensKeepsInv, CallerClosesKeepsInv
     DEF Next, WriterStep, DatabaseStep
<1>2. CASE UNCHANGED vars
  BY <1>2 DEF vars, Inv, TypeOK, OneWriter, CallFits, KnownFits, NoSessionLeaks,
              RegisteredIsOpen, Registered
<1> QED BY <1>1, <1>2

-----------------------------------------------------------------------------
\* The theorems.

\* Inv holds of every registry.
THEOREM RegistryInvHolds == Spec => []Inv
<1> QED BY InitInv, NextInv, PTL DEF Spec

\* A session that Registry.Open made is registered, closed, or in the hands of
\* the call that holds the mutex.
THEOREM SessionsDoNotLeak == Spec => []NoSessionLeaks
<1>1. Inv => NoSessionLeaks
  BY DEF Inv
<1> QED BY <1>1, RegistryInvHolds, PTL

\* A session under a name is open, unless it was added a second time or a
\* goroutine closed it past the registry: the registry itself never keeps, and
\* never puts back, what it has closed.
THEOREM RegisteredSessionsAreOpen == Spec => []RegisteredIsOpen
<1>1. Inv => RegisteredIsOpen
  BY DEF Inv
<1> QED BY <1>1, RegistryInvHolds, PTL

\* Only CloseAllReturns leaves the loop of CloseAll, when the map is empty;
\* what the registry opened is then closed, for it has nowhere else to be.
LEMMA CloseAllStepLeavesNothing ==
  ASSUME Inv, Inv', [Next]_vars, NEW g \in Goroutines,
         pc[g] = "closingAll", pc'[g] = "idle"
  PROVE  \A s \in Sessions : ~Registered(s)' /\ (s \in ours => pool'[s] = "closed")
<1>1. CloseAllReturns(g)
  <2>1. mu = g /\ \A h \in Goroutines : pc[h] \in Writing => h = g
    BY DEF Inv, OneWriter
  <2>2. Next
    BY DEF vars
  <2>3. PICK h \in Goroutines :
          \/ \E m \in {"Open", "Add", "Close", "CloseAll"}, n \in Names : Call(h, m, n)
          \/ \E n \in Names : Get(h, n)
          \/ \E s \in Sessions : CallerOpens(h, s)
          \/ CallerCloses(h)
          \/ WriterStep(h) \/ DatabaseStep(h)
    BY <2>2 DEF Next
  <2>4. h = g
    BY <2>3
       DEF Inv, TypeOK, Call, Get, CallerOpens, CallerCloses, WriterStep, DatabaseStep, OpenLooks,
           CloseLooks, CloseAllLocks, Add, DbOpen, OpenStores, SessionClose,
           CloseAllStep, CloseAllReturns
  <2> QED
    BY <2>3, <2>4
       DEF Inv, TypeOK, Call, Get, CallerOpens, CallerCloses, WriterStep, DatabaseStep, OpenLooks,
           CloseLooks, CloseAllLocks, Add, DbOpen, OpenStores, SessionClose,
           CloseAllStep
<1>2. /\ UNCHANGED <<pool, ours, sessions>>
      /\ \A n \in Names : sessions[n] = None
  BY <1>1 DEF CloseAllReturns
<1>3. \A h \in Goroutines : pc'[h] \notin Writing
  BY <1>1 DEF Inv, TypeOK, OneWriter, CloseAllReturns, Unlock
<1>4. \A s \in ours : pool'[s] # "open" /\ pool'[s] # "unmade"
  BY <1>2, <1>3 DEF Inv, TypeOK, NoSessionLeaks, KnownFits, Registered
<1> QED BY <1>2, <1>4 DEF Inv, TypeOK, Registered

\* CloseAll leaves no session registered, and none the registry opened open.
THEOREM CloseAllClosesAll == Spec => CloseAllLeavesNothing
<1>1. Inv /\ Inv' /\ [Next]_vars =>
        [\A g \in Goroutines : pc[g] = "closingAll" /\ pc'[g] = "idle" =>
           \A s \in Sessions : ~Registered(s)' /\ (s \in ours => pool'[s] = "closed")]_vars
  BY CloseAllStepLeavesNothing
<1> QED BY <1>1, RegistryInvHolds, PTL DEF Spec, CloseAllLeavesNothing
-----------------------------------------------------------------------------
\* The refinement: each action of Registry, taken under Inv, is one of the
\* contract or changes nothing a caller sees.

\* With the mutex free, callers see the map and the pools as they are.
LEMMA FreeView ==
  ASSUME Inv, mu = None
  PROVE  Entries = sessions /\ Pools = pool
  BY DEF Inv, TypeOK, Entries, Pools, Entry, PoolOf, Holder

LEMMA FreeViewAfter ==
  ASSUME Inv', mu' = None
  PROVE  Entries' = sessions' /\ Pools' = pool'
  BY DEF Inv, TypeOK, Entries, Pools, Entry, PoolOf, Holder

\* Only the call that steps is seen to change.
LEMMA CallsStep ==
  ASSUME Inv, NEW g \in Goroutines, NEW l, pc' = [pc EXCEPT ![g] = l]
  PROVE  Calls' = [Calls EXCEPT ![g] = CallAt(l)]
  BY DEF Inv, TypeOK, Calls

LEMMA InitMaps == Init => Contract!Init
<1> SUFFICES ASSUME Init PROVE Contract!Init OBVIOUS
<1>1. Entries = sessions /\ Pools = pool
  BY InitInv, FreeView DEF Init
<1>2. Calls = [g \in Goroutines |-> "none"]
  BY DEF Init, Calls, CallAt
<1> QED BY <1>1, <1>2 DEF Init, Contract!Init

\* A step that leaves alone what the holder of the mutex has, and what it works
\* on, leaves the view alone.
LEMMA SameView ==
  ASSUME UNCHANGED <<mu, sessions, pool>>,
         mu # None => pc'[mu] = pc[mu] /\ name'[mu] = name[mu] /\ handle'[mu] = handle[mu]
  PROVE  Entries' = Entries /\ Pools' = Pools
  BY DEF Entries, Pools, Entry, PoolOf, Holder, Registered

\* Who calls, or does nothing, is not the holder.
LEMMA IdleHoldsNothing ==
  ASSUME Inv, NEW g \in Goroutines, pc[g] \notin Writing
  PROVE  mu # g
  BY DEF Inv, OneWriter

LEMMA CallMaps ==
  ASSUME Inv, NEW g \in Goroutines, NEW m \in {"Open", "Add", "Close", "CloseAll"},
         NEW n \in Names, Call(g, m, n)
  PROVE  Contract!Invoke(g, m, n)
<1>1. mu # g
  BY IdleHoldsNothing DEF Call
<1>2. Entries' = Entries /\ Pools' = Pools
  BY <1>1, SameView DEF Call, Inv, TypeOK
<1>3. Calls[g] = "none" /\ Calls' = [Calls EXCEPT ![g] = m]
  BY CallsStep DEF Call, Calls, CallAt
<1> QED BY <1>2, <1>3 DEF Call, Contract!Invoke

LEMMA OpenLooksMaps ==
  ASSUME Inv, Inv', NEW g \in Goroutines, OpenLooks(g)
  PROVE  Contract!Fails(g) \/ UNCHANGED Contract!vars
<1>1. mu = None /\ UNCHANGED <<sessions, pool, name, handle>> /\ Calls[g] = "Open"
  BY DEF OpenLooks, Lock, Calls, CallAt
<1>2. Entries = sessions /\ Pools = pool
  BY <1>1, FreeView
<1>3. CASE sessions[name[g]] # None
  <2>1. mu' = None /\ pc' = [pc EXCEPT ![g] = "idle"]
    BY <1>1, <1>3 DEF OpenLooks
  <2>2. Entries' = Entries /\ Pools' = Pools
    BY <1>1, <1>2, <2>1, FreeViewAfter
  <2>3. Calls' = [Calls EXCEPT ![g] = "none"]
    BY <2>1, CallsStep DEF CallAt
  <2> QED BY <1>1, <2>2, <2>3 DEF Contract!Fails, Contract!Acts
<1>4. CASE sessions[name[g]] = None
  <2>1. mu' = g /\ pc' = [pc EXCEPT ![g] = "opening"]
    BY <1>4 DEF OpenLooks, Lock
  <2>2. pc'[g] = "opening"
    BY <2>1 DEF Inv, TypeOK
  <2>3. Entries' = Entries /\ Pools' = Pools
    BY <1>1, <1>2, <2>1, <2>2 DEF Inv, TypeOK, Entries, Pools, Entry, PoolOf, Holder
  <2>4. Calls' = [Calls EXCEPT ![g] = "Open"]
    BY <2>1, CallsStep DEF CallAt
  <2>5. Calls' = Calls
    BY <1>1, <2>4 DEF Calls
  <2> QED BY <1>1, <2>3, <2>5 DEF Contract!vars
<1> QED BY <1>3, <1>4

LEMMA DbOpenMaps ==
  ASSUME Inv, Inv', NEW g \in Goroutines, DbOpen(g)
  PROVE  Contract!Fails(g) \/ \E s \in Sessions : Contract!Open(g, s)
<1>1. /\ mu = g /\ pc[g] = "opening" /\ name[g] \in Names /\ sessions[name[g]] = None
      /\ UNCHANGED <<sessions, name>> /\ Calls[g] = "Open"
  BY DEF DbOpen, Inv, OneWriter, CallFits, Calls, CallAt
<1>2. Entries = sessions /\ Pools = pool
  BY <1>1 DEF Inv, TypeOK, Entries, Pools, Entry, PoolOf, Holder
<1>3. CASE mu' = None /\ Goto(g, "idle") /\ UNCHANGED <<pool, ours, handle>>
  <2>1. Entries' = Entries /\ Pools' = Pools
    BY <1>1, <1>2, <1>3, FreeViewAfter
  <2>2. Calls' = [Calls EXCEPT ![g] = "none"]
    BY <1>3, CallsStep DEF CallAt
  <2> QED BY <1>1, <1>3, <2>1, <2>2 DEF Contract!Fails, Contract!Acts
<1>4. ASSUME NEW s \in Unmade, pool' = [pool EXCEPT ![s] = "open"], Hold(g, s),
             Goto(g, "storing"), UNCHANGED mu
      PROVE  Contract!Open(g, s)
  <2>1. pc'[g] = "storing" /\ handle'[g] = s /\ mu' = g /\ name'[g] = name[g]
    BY <1>1, <1>4 DEF Hold, Inv, TypeOK
  <2>2. Entries' = [Entries EXCEPT ![name[g]] = s]
    BY <1>1, <1>2, <2>1 DEF Inv, TypeOK, Entries, Entry, Holder
  <2>3. Pools' = [Pools EXCEPT ![s] = "open"]
    BY <1>1, <1>2, <1>4, <2>1 DEF Inv, TypeOK, Pools, PoolOf, Holder
  <2>4. Calls' = [Calls EXCEPT ![g] = "returning"]
    BY <1>4, CallsStep DEF CallAt
  <2>5. Contract!Free(name[g]) /\ Pools[s] = "unmade"
    BY <1>1, <1>2, <1>4 DEF Contract!Free, Unmade
  <2> QED BY <1>1, <1>4, <2>2, <2>3, <2>4, <2>5 DEF Contract!Open, Contract!Acts, Hold
<1>5. Unmade \subseteq Sessions
  BY DEF Unmade
<1> QED BY <1>3, <1>4, <1>5 DEF DbOpen

LEMMA OpenStoresMaps ==
  ASSUME Inv, Inv', NEW g \in Goroutines, OpenStores(g)
  PROVE  Contract!Return(g)
<1>1. /\ mu = g /\ mu' = None /\ pc[g] = "storing" /\ name[g] \in Names
      /\ sessions' = [sessions EXCEPT ![name[g]] = handle[g]] /\ Calls[g] = "returning"
      /\ UNCHANGED <<pool, name, handle>> /\ pc' = [pc EXCEPT ![g] = "idle"]
  BY DEF OpenStores, Inv, OneWriter, CallFits, Calls, CallAt
<1>2. Entries' = sessions' /\ Pools' = pool'
  BY <1>1, FreeViewAfter
<1>3. Entries = sessions'
  BY <1>1 DEF Inv, TypeOK, Entries, Entry, Holder
<1>4. Pools = pool
  BY <1>1 DEF Inv, TypeOK, Pools, PoolOf, Holder
<1>5. Calls' = [Calls EXCEPT ![g] = "none"]
  BY <1>1, CallsStep DEF CallAt
<1> QED BY <1>1, <1>2, <1>3, <1>4, <1>5 DEF Contract!Return

LEMMA AddMaps ==
  ASSUME Inv, Inv', NEW g \in Goroutines, Add(g)
  PROVE  Contract!Add(g) \/ Contract!Fails(g)
<1>1. /\ mu = None /\ mu' = None /\ name[g] \in Names /\ Calls[g] = "Add"
      /\ UNCHANGED <<pool, name, handle>> /\ pc' = [pc EXCEPT ![g] = "idle"]
  BY DEF Add, Inv, CallFits, Calls, CallAt
<1>2. Entries = sessions /\ Pools = pool /\ Entries' = sessions' /\ Pools' = pool'
  BY <1>1, FreeView, FreeViewAfter
<1>3. Calls' = [Calls EXCEPT ![g] = "none"]
  BY <1>1, CallsStep DEF CallAt
<1>4. Contract!Acts(g, "Add")
  BY <1>1, <1>3 DEF Contract!Acts
<1>5. CASE sessions[name[g]] = None
  BY <1>1, <1>2, <1>4, <1>5 DEF Add, Contract!Add, Contract!Free
<1>6. CASE sessions[name[g]] # None
  BY <1>1, <1>2, <1>4, <1>6 DEF Add, Contract!Fails, Contract!Free
<1> QED BY <1>5, <1>6

LEMMA CloseLooksMaps ==
  ASSUME Inv, Inv', NEW g \in Goroutines, CloseLooks(g)
  PROVE  Contract!Close(g) \/ Contract!Fails(g)
<1>1. mu = None /\ name[g] \in Names /\ UNCHANGED <<pool, name>> /\ Calls[g] = "Close"
  BY DEF CloseLooks, Lock, Inv, CallFits, Calls, CallAt
<1>2. Entries = sessions /\ Pools = pool
  BY <1>1, FreeView
<1>3. CASE sessions[name[g]] = None
  <2>1. mu' = None /\ UNCHANGED <<sessions, handle>> /\ pc' = [pc EXCEPT ![g] = "idle"]
    BY <1>1, <1>3 DEF CloseLooks
  <2>2. Entries' = Entries /\ Pools' = Pools
    BY <1>1, <1>2, <2>1, FreeViewAfter
  <2>3. Calls' = [Calls EXCEPT ![g] = "none"]
    BY <2>1, CallsStep DEF CallAt
  <2> QED BY <1>1, <1>2, <1>3, <2>1, <2>2, <2>3
          DEF Contract!Fails, Contract!Acts, Contract!Free
<1>4. CASE sessions[name[g]] # None
  <2> DEFINE x == sessions[name[g]]
  <2>1. /\ mu' = g /\ handle' = [handle EXCEPT ![g] = x]
        /\ sessions' = [sessions EXCEPT ![name[g]] = None]
        /\ pc' = [pc EXCEPT ![g] = "closing"] /\ x \in Sessions
    BY <1>1, <1>4 DEF CloseLooks, Lock, Hold, Forget, Inv, TypeOK
  <2>2. pc'[g] = "closing" /\ handle'[g] = x
    BY <2>1 DEF Inv, TypeOK
  <2>3. Entries' = [Entries EXCEPT ![name[g]] = None]
    BY <1>1, <1>2, <2>1, <2>2 DEF Inv, TypeOK, Entries, Entry, Holder
  <2>4. Pools' = [Pools EXCEPT ![x] = "closed"]
    BY <1>1, <1>2, <2>1, <2>2 DEF Inv, TypeOK, Pools, PoolOf, Holder
  <2>5. Calls' = [Calls EXCEPT ![g] = "returning"]
    BY <2>1, CallsStep DEF CallAt
  <2> QED BY <1>1, <1>2, <1>4, <2>1, <2>3, <2>4, <2>5
          DEF Contract!Close, Contract!Acts, Contract!Free
<1> QED BY <1>3, <1>4

LEMMA SessionCloseMaps ==
  ASSUME Inv, Inv', NEW g \in Goroutines, SessionClose(g)
  PROVE  Contract!Return(g)
<1>1. /\ mu = g /\ mu' = None /\ pc[g] = "closing" /\ Calls[g] = "returning"
      /\ pool' = [pool EXCEPT ![handle[g]] = "closed"]
      /\ UNCHANGED <<sessions, name, handle>> /\ pc' = [pc EXCEPT ![g] = "idle"]
  BY DEF SessionClose, CloseDB, Unlock, Calls, CallAt
<1>2. Entries' = sessions' /\ Pools' = pool'
  BY <1>1, FreeViewAfter
<1>3. Entries = sessions
  BY <1>1 DEF Inv, TypeOK, Entries, Entry, Holder
<1>4. Pools = pool'
  BY <1>1 DEF Inv, TypeOK, Pools, PoolOf, Holder
<1>5. Calls' = [Calls EXCEPT ![g] = "none"]
  BY <1>1, CallsStep DEF CallAt
<1> QED BY <1>1, <1>2, <1>3, <1>4, <1>5 DEF Contract!Return

LEMMA CloseAllLocksMaps ==
  ASSUME Inv, NEW g \in Goroutines, CloseAllLocks(g)
  PROVE  Contract!CloseAll(g)
<1>1. /\ mu = None /\ mu' = g /\ Calls[g] = "CloseAll"
      /\ UNCHANGED <<sessions, pool, name, handle>> /\ pc' = [pc EXCEPT ![g] = "closingAll"]
  BY DEF CloseAllLocks, Lock, Calls, CallAt
<1>2. Entries = sessions /\ Pools = pool
  BY <1>1, FreeView
<1>3. pc'[g] = "closingAll" /\ g # None
  BY <1>1 DEF Inv, TypeOK
<1>4. Entries' = [n \in Names |-> None]
  BY <1>1, <1>3 DEF Entries, Entry, Holder
<1>5. Pools' = [s \in Sessions |-> IF Registered(s) THEN "closed" ELSE pool[s]]
  BY <1>1, <1>3 DEF Pools, PoolOf, Holder, Registered
<1>6. Calls' = [Calls EXCEPT ![g] = "returning"]
  BY <1>1, CallsStep DEF CallAt
<1> QED BY <1>1, <1>2, <1>4, <1>5, <1>6 DEF Contract!CloseAll, Contract!Acts, Registered

LEMMA CloseAllStepMaps ==
  ASSUME Inv, NEW g \in Goroutines, CloseAllStep(g)
  PROVE  UNCHANGED Contract!vars
<1>1. PICK n \in Names :
        /\ pc[g] = "closingAll" /\ sessions[n] # None
        /\ pool' = [pool EXCEPT ![sessions[n]] = "closed"]
        /\ sessions' = [sessions EXCEPT ![n] = None]
        /\ UNCHANGED <<mu, pc, name, handle>>
  BY DEF CloseAllStep, CloseDB, Forget
<1>2. mu = g /\ g # None
  BY <1>1 DEF Inv, OneWriter
<1>3. Entries' = Entries
  BY <1>1, <1>2 DEF Entries, Entry, Holder
<1>4. Pools' = Pools
  BY <1>1, <1>2 DEF Inv, TypeOK, Pools, PoolOf, Holder, Registered
<1>5. Calls' = Calls
  BY <1>1 DEF Calls
<1> QED BY <1>1, <1>3, <1>4, <1>5 DEF Contract!vars

LEMMA CloseAllReturnsMaps ==
  ASSUME Inv, Inv', NEW g \in Goroutines, CloseAllReturns(g)
  PROVE  Contract!Return(g)
<1>1. /\ mu = g /\ g # None /\ mu' = None /\ pc[g] = "closingAll" /\ Calls[g] = "returning"
      /\ \A n \in Names : sessions[n] = None
      /\ UNCHANGED <<sessions, pool, name, handle>> /\ pc' = [pc EXCEPT ![g] = "idle"]
  BY DEF CloseAllReturns, Unlock, Calls, CallAt
<1>2. Entries' = sessions' /\ Pools' = pool'
  BY <1>1, FreeViewAfter
<1>3. Entries = sessions
  BY <1>1 DEF Inv, TypeOK, Entries, Entry, Holder
<1>4. Pools = pool
  BY <1>1 DEF Inv, TypeOK, Pools, PoolOf, Holder, Registered
<1>5. Calls' = [Calls EXCEPT ![g] = "none"]
  BY <1>1, CallsStep DEF CallAt
<1> QED BY <1>1, <1>2, <1>3, <1>4, <1>5 DEF Contract!Return

LEMMA GetMaps ==
  ASSUME Inv, Inv', NEW g \in Goroutines, NEW n \in Names, Get(g, n)
  PROVE  Contract!Get(g, n)
<1>1. Entries = sessions /\ Pools = pool /\ Entries' = sessions' /\ Pools' = pool'
  BY FreeView, FreeViewAfter DEF Get
<1>2. Calls[g] = "none" /\ Calls' = Calls
  BY DEF Get, Calls, CallAt
<1> QED BY <1>1, <1>2 DEF Get, Hold, Contract!Get

LEMMA CallerOpensMaps ==
  ASSUME Inv, NEW g \in Goroutines, NEW s \in Sessions, CallerOpens(g, s)
  PROVE  Contract!Make(g, s)
<1>1. /\ pc[g] = "idle" /\ pool[s] = "unmade" /\ handle' = [handle EXCEPT ![g] = s]
      /\ pool' = [pool EXCEPT ![s] = "open"] /\ UNCHANGED <<mu, sessions, pc, name>>
  BY DEF CallerOpens, Unmade, Hold
<1>2. mu # g
  BY <1>1, IdleHoldsNothing
<1>3. mu # None => handle'[mu] = handle[mu]
  BY <1>1, <1>2 DEF Inv, TypeOK
<1>4. ~Registered(s)
  BY <1>1 DEF Inv, KnownFits, Registered, TypeOK
<1>5. ~(Holder("closing") /\ handle[mu] = s)
  BY <1>1 DEF Inv, TypeOK, CallFits, Holder
<1>6. Entries' = Entries
  BY <1>1, <1>3 DEF Entries, Entry, Holder
<1>7. PoolOf(s) = "unmade" /\ PoolOf(s)' = "open"
  BY <1>1, <1>3, <1>4, <1>5 DEF PoolOf, Holder, Registered, Inv, TypeOK
<1>8. \A x \in Sessions : x # s => PoolOf(x)' = PoolOf(x)
  BY <1>1, <1>3 DEF PoolOf, Holder, Registered, Inv, TypeOK
<1>9. Pools[s] = "unmade" /\ Pools' = [Pools EXCEPT ![s] = "open"]
  BY <1>7, <1>8 DEF Pools
<1>10. Calls[g] = "none" /\ Calls' = Calls
  BY <1>1 DEF Calls, CallAt
<1> QED BY <1>1, <1>6, <1>9, <1>10 DEF Contract!Make

LEMMA CallerClosesMaps ==
  ASSUME Inv, NEW g \in Goroutines, CallerCloses(g)
  PROVE  Contract!Dispose(g)
<1>0. PICK x \in Sessions : x = handle[g]
  BY DEF CallerCloses, Inv, TypeOK
<1>1. /\ pc[g] = "idle" /\ handle[g] # None
      /\ pool' = [pool EXCEPT ![x] = "closed"] /\ UNCHANGED <<mu, sessions, pc, name, handle>>
  BY <1>0 DEF CallerCloses, CloseDB
<1>2. Entries' = Entries
  BY <1>1 DEF Entries, Entry, Holder
<1>3. PoolOf(x)' = "closed"
  <2>1. pool'[x] = "closed"
    BY <1>1 DEF Inv, TypeOK
  <2> QED BY <2>1 DEF PoolOf
<1>4. \A y \in Sessions : y # x => PoolOf(y)' = PoolOf(y)
  <2>1. \A y \in Sessions : y # x => pool'[y] = pool[y]
    BY <1>1 DEF Inv, TypeOK
  <2> QED BY <1>1, <2>1 DEF PoolOf, Holder, Registered
<1>5. Pools' = [Pools EXCEPT ![x] = "closed"]
  BY <1>1, <1>3, <1>4 DEF Pools
<1>6. Calls[g] = "none" /\ Calls' = Calls
  BY <1>1 DEF Calls, CallAt
<1> QED BY <1>0, <1>1, <1>2, <1>5, <1>6 DEF Contract!Dispose

LEMMA NextMaps == Inv /\ Inv' /\ [Next]_vars => [Contract!Next]_Contract!vars
<1> SUFFICES ASSUME Inv, Inv', [Next]_vars PROVE [Contract!Next]_Contract!vars OBVIOUS
<1>1. CASE Next
  <2>1. PICK g \in Goroutines :
          \/ \E m \in {"Open", "Add", "Close", "CloseAll"}, n \in Names : Call(g, m, n)
          \/ \E n \in Names : Get(g, n)
          \/ \E s \in Sessions : CallerOpens(g, s)
          \/ CallerCloses(g)
          \/ WriterStep(g) \/ DatabaseStep(g)
    BY <1>1 DEF Next
  <2>2. CASE \E m \in {"Open", "Add", "Close", "CloseAll"}, n \in Names : Call(g, m, n)
    BY <2>2, CallMaps DEF Contract!Next
  <2>3. CASE \E n \in Names : Get(g, n)
    BY <2>3, GetMaps DEF Contract!Next
  <2>4. CASE \E s \in Sessions : CallerOpens(g, s)
    BY <2>4, CallerOpensMaps DEF Contract!Next
  <2>5. CASE CallerCloses(g)
    BY <2>5, CallerClosesMaps DEF Contract!Next
  <2>6. CASE WriterStep(g)
    BY <2>6, OpenLooksMaps, CloseLooksMaps, CloseAllLocksMaps, AddMaps
       DEF WriterStep, Contract!Next
  <2>7. CASE DatabaseStep(g)
    BY <2>7, DbOpenMaps, OpenStoresMaps, SessionCloseMaps, CloseAllStepMaps,
       CloseAllReturnsMaps DEF DatabaseStep, Contract!Next
  <2> QED BY <2>1, <2>2, <2>3, <2>4, <2>5, <2>6, <2>7
<1>2. CASE UNCHANGED vars
  BY <1>2 DEF vars, Contract!vars, Entries, Pools, Calls, Entry, PoolOf, Holder, Registered
<1> QED BY <1>1, <1>2

\* The registry is an atomic map: what goroutines do with it through the mutex,
\* with calls into the database layer in between and failures of those, is what
\* they could do with a map on which each call acts at one instant.
THEOREM RegistryIsAtomic == Spec => ImplementsContract
<1>1. Init => Contract!Init
  BY InitMaps
<1>2. Inv /\ Inv' /\ [Next]_vars => [Contract!Next]_Contract!vars
  BY NextMaps
<1> QED BY <1>1, <1>2, RegistryInvHolds, PTL DEF Spec, Contract!Spec, ImplementsContract
=============================================================================
