---------------------- MODULE ConnectionCounterProofs ----------------------
(***************************************************************************)
(* Theorems of ConnectionCounter for any number of servers, threads and     *)
(* operations.                                                             *)
(***************************************************************************)
EXTENDS ConnectionCounter, TLAPS

USE NoOneIsNoClient, ClientsAre, Disjoint, HomeType, AbsentType, MaxOpsNat

LEMMA InitTypeOK == Init => TypeOK
<1> SUFFICES ASSUME Init PROVE TypeOK
  OBVIOUS
<1> USE DEF Init, Servers, Mains
<1>1. LockTypeOK
  BY DEF LockInit, LockTypeOK
<1>2. /\ counter \in [Servers -> Nat \cup {Absent}]
      /\ exact \in [Servers -> Nat \cup {Absent}]
      /\ life \in [Servers -> {"off", "starting", "up", "stopping", "exited", "crashed"}]
  OBVIOUS
<1>3. pc \in [Clients -> Places]
  BY DEF Places
<1>4. op \in [Clients -> Ops]
  BY DEF Ops
<1>5. number \in [Clients -> Nat] /\ at \in [Clients -> Servers]
  OBVIOUS
<1>6. ops \in 0..MaxOps
  OBVIOUS
<1>7. lapsed \in BOOLEAN
  OBVIOUS
<1>8. QED
  BY <1>1, <1>2, <1>3, <1>4, <1>5, <1>6, <1>7 DEF TypeOK

LEMMA AppliedType ==
  ASSUME NEW o \in Ops, NEW n \in Nat \cup {Absent}
  PROVE  Applied(o, n) \in Nat \cup {Absent}
BY DEF Ops, Applied

LEMMA NextTypeOK == TypeOK /\ [Next]_vars => TypeOK'
<1> SUFFICES ASSUME TypeOK, [Next]_vars PROVE TypeOK'
  OBVIOUS
<1> USE DEF TypeOK, LockTypeOK, Goto, Servers, Mains
<1>1. CASE UNCHANGED vars
  BY <1>1 DEF vars
<1>2. ASSUME NEW w \in Workers, NEW o \in {"increment", "decrement"}, Count(w, o)
      PROVE TypeOK'
  BY <1>2 DEF Count, Begin, Places, Ops
<1>3. ASSUME NEW b \in Balancers, NEW s \in Servers, AskLoad(b, s)
      PROVE TypeOK'
  BY <1>3 DEF AskLoad, Begin, Places, Ops
<1>4. ASSUME NEW s \in Servers, StartUp(s) PROVE TypeOK'
  BY <1>4 DEF StartUp, Places, Ops
<1>5. ASSUME NEW s \in Servers, ShutDown(s) PROVE TypeOK'
  BY <1>5 DEF ShutDown, Begin, Places, Ops
<1>6. ASSUME NEW s \in Servers, Expire(s) PROVE TypeOK'
  BY <1>6 DEF Expire, LeaseRunsOut
<1>7. ASSUME NEW s \in Servers, Crash(s) PROVE TypeOK'
  BY <1>7 DEF Crash, Places
<1>8. ASSUME NEW c \in Clients, Step(c) PROVE TypeOK'
  <2>1. CASE Acquire(c)
    BY <2>1 DEF Acquire, AcquireLock, Places
  <2>2. CASE GiveUp(c)
    BY <2>2 DEF GiveUp, Places
  <2>3. CASE Get(c)
    BY <2>3 DEF Get, Places
  <2>4. CASE Set(c)
    <3>1. /\ Applied(op[c], number[c]) \in Nat \cup {Absent}
          /\ Applied(op[c], exact[at[c]]) \in Nat \cup {Absent}
      BY AppliedType
    <3>2. QED
      BY <2>4, <3>1 DEF Set, Places
  <2>5. CASE Release(c)
    BY <2>5 DEF Release, ReleaseLock, Places
  <2>6. QED
    BY <1>8, <2>1, <2>2, <2>3, <2>4, <2>5 DEF Step
<1>9. QED
  BY <1>1, <1>2, <1>3, <1>4, <1>5, <1>6, <1>7, <1>8 DEF Next

\* Counters, clients and processes are always in a state the code can be in.
THEOREM TypeCorrect == Spec => []TypeOK
<1>1. QED
  BY InitTypeOK, NextTypeOK, PTL DEF Spec

-----------------------------------------------------------------------------

\* The lock changes hands only by its holder's own step or by the lease.
THEOREM OthersAreSpared == Spec => ReleaseSparesOthers
<1> DEFINE Spared == \A s \in Servers :
      lock[s] # NoOne /\ lock'[s] # lock[s] => pc' = pc \/ pc'[lock[s]] # pc[lock[s]]
<1>1. TypeOK /\ [Next]_vars => [Spared]_vars
  <2> SUFFICES ASSUME TypeOK, Next, NEW s \in Servers,
                      lock[s] # NoOne, lock'[s] # lock[s]
               PROVE  pc' = pc \/ pc'[lock[s]] # pc[lock[s]]
    BY DEF vars
  <2> USE DEF TypeOK, LockTypeOK, Goto, Servers, Mains
  <2>1. ASSUME NEW r \in Servers, Expire(r) PROVE pc' = pc
    BY <2>1 DEF Expire
  <2>2. ASSUME NEW c \in Clients, Acquire(c) PROVE FALSE
    BY <2>2 DEF Acquire, AcquireLock
  <2>3. ASSUME NEW c \in Clients, Release(c) PROVE pc'[lock[s]] # pc[lock[s]]
    <3>1. lock[s] = c
      BY <2>3 DEF Release, ReleaseLock
    <3>2. QED
      BY <2>3, <3>1 DEF Release
  <2>4. (\E r \in Servers : Expire(r)) \/ (\E c \in Clients : Acquire(c) \/ Release(c))
    BY DEF Next, Count, AskLoad, Begin, StartUp, ShutDown, Crash, Step, GiveUp,
           Get, Set
  <2>5. QED
    BY <2>1, <2>2, <2>3, <2>4
<1>2. QED
  BY <1>1, TypeCorrect, PTL DEF Spec, ReleaseSparesOthers

-----------------------------------------------------------------------------
(* No lost update                                                          *)

\* Only main writes without reading, on its own server's counter; a balancer
\* only reads; who writes a count has one to write.
RolesInv ==
  \A c \in Clients :
    /\ c \in Balancers => op[c] = "read"
    /\ c \in Mains => at[c] = c
    /\ op[c] \in {"reset", "delete"} => c \in Mains
    /\ pc[c] = "set" => op[c] # "read"
    /\ pc[c] = "set" /\ op[c] = "decrement" => number[c] # 0

\* What a client read is still there when it comes to write.
FreshInv ==
  ~lapsed => \A c \in Clients :
    pc[c] = "set" /\ op[c] \in {"increment", "decrement"} =>
      number[c] = IF counter[at[c]] = Absent THEN 0 ELSE counter[at[c]]

CounterInv == RolesInv /\ WriterHoldsLock /\ FreshInv /\ NoLostUpdate

LEMMA InitCounter == Init => CounterInv
<1> SUFFICES ASSUME Init PROVE CounterInv
  OBVIOUS
<1>1. /\ \A c \in Clients : pc[c] = "idle" /\ op[c] = "read"
      /\ \A s \in Mains : at[s] = s
  BY DEF Init
<1>2. counter = exact
  BY DEF Init
<1>3. QED
  BY <1>1, <1>2 DEF CounterInv, RolesInv, WriterHoldsLock, FreshInv, NoLostUpdate,
                    Writing

LEMMA NextRoles == TypeOK /\ RolesInv /\ [Next]_vars => RolesInv'
<1> SUFFICES ASSUME TypeOK, RolesInv, [Next]_vars PROVE RolesInv'
  OBVIOUS
<1> USE DEF TypeOK, RolesInv, Goto, Servers, Mains
<1>1. CASE UNCHANGED vars
  BY <1>1 DEF vars
<1>2. ASSUME NEW w \in Workers, NEW o \in {"increment", "decrement"}, Count(w, o)
      PROVE RolesInv'
  BY <1>2 DEF Count, Begin
<1>3. ASSUME NEW b \in Balancers, NEW s \in Servers, AskLoad(b, s)
      PROVE RolesInv'
  BY <1>3 DEF AskLoad, Begin
<1>4. ASSUME NEW s \in Servers, StartUp(s) PROVE RolesInv'
  BY <1>4 DEF StartUp
<1>5. ASSUME NEW s \in Servers, ShutDown(s) PROVE RolesInv'
  BY <1>5 DEF ShutDown, Begin
<1>6. ASSUME NEW s \in Servers, Expire(s) PROVE RolesInv'
  BY <1>6 DEF Expire
<1>7. ASSUME NEW s \in Servers, Crash(s) PROVE RolesInv'
  BY <1>7 DEF Crash
<1>8. ASSUME NEW c \in Clients, Step(c) PROVE RolesInv'
  BY <1>8 DEF Step, Acquire, GiveUp, Get, Set, Release
<1>9. QED
  BY <1>1, <1>2, <1>3, <1>4, <1>5, <1>6, <1>7, <1>8 DEF Next

\* A step that leaves the lock and the counters alone, and makes nobody a
\* writer, keeps the rest.
LEMMA CounterFrame ==
  ASSUME TypeOK, CounterInv, UNCHANGED <<lock, counter, number, exact, lapsed>>,
         \A c \in Clients : Writing(c)' => Writing(c) /\ UNCHANGED <<pc[c], op[c], at[c]>>
  PROVE  (WriterHoldsLock /\ FreshInv /\ NoLostUpdate)'
<1>1. WriterHoldsLock'
  BY DEF CounterInv, WriterHoldsLock
<1>2. FreshInv'
  BY DEF CounterInv, FreshInv, Writing
<1>3. NoLostUpdate'
  BY DEF CounterInv, NoLostUpdate
<1>4. QED
  BY <1>1, <1>2, <1>3

LEMMA NextCounter == TypeOK /\ CounterInv /\ [Next]_vars => CounterInv'
<1> SUFFICES ASSUME TypeOK, CounterInv, [Next]_vars
             PROVE  (WriterHoldsLock /\ FreshInv /\ NoLostUpdate)'
  BY NextRoles DEF CounterInv
<1> USE DEF TypeOK, LockTypeOK, Goto, Servers, Mains
<1>1. CASE UNCHANGED vars
  BY <1>1 DEF vars, CounterInv, WriterHoldsLock, FreshInv, NoLostUpdate, Writing
<1>2. ASSUME NEW w \in Workers, NEW o \in {"increment", "decrement"}, Count(w, o)
      PROVE (WriterHoldsLock /\ FreshInv /\ NoLostUpdate)'
  BY <1>2, CounterFrame DEF Count, Begin, Writing
<1>3. ASSUME NEW b \in Balancers, NEW s \in Servers, AskLoad(b, s)
      PROVE (WriterHoldsLock /\ FreshInv /\ NoLostUpdate)'
  BY <1>3, CounterFrame DEF AskLoad, Begin, Writing
<1>4. ASSUME NEW s \in Servers, StartUp(s)
      PROVE (WriterHoldsLock /\ FreshInv /\ NoLostUpdate)'
  BY <1>4, CounterFrame DEF StartUp, Writing
<1>5. ASSUME NEW s \in Servers, ShutDown(s)
      PROVE (WriterHoldsLock /\ FreshInv /\ NoLostUpdate)'
  BY <1>5, CounterFrame DEF ShutDown, Begin, Writing
<1>6. ASSUME NEW s \in Servers, Expire(s)
      PROVE (WriterHoldsLock /\ FreshInv /\ NoLostUpdate)'
  <2>1. FreshInv' /\ NoLostUpdate'
    BY <1>6 DEF Expire, CounterInv, FreshInv, NoLostUpdate
  <2>2. WriterHoldsLock'
    <3> SUFFICES ASSUME ~lapsed', NEW c \in Clients, Writing(c) PROVE lock'[at[c]] = c
      BY <1>6 DEF Expire, WriterHoldsLock, Writing
    <3>1. lock[at[c]] = c /\ ~lapsed
      BY <1>6 DEF Expire, CounterInv, WriterHoldsLock
    <3>2. c \notin Balancers /\ pc[c] \in {"get", "set"}
      BY DEF CounterInv, RolesInv, Writing
    <3>3. s # at[c]
      BY <1>6, <3>1, <3>2 DEF Expire
    <3>4. QED
      BY <1>6, <3>1, <3>3 DEF Expire, LeaseRunsOut
  <2>3. QED
    BY <2>1, <2>2
<1>7. ASSUME NEW s \in Servers, Crash(s)
      PROVE (WriterHoldsLock /\ FreshInv /\ NoLostUpdate)'
  BY <1>7, CounterFrame DEF Crash, Writing
<1>8. ASSUME NEW c \in Clients, Step(c)
      PROVE (WriterHoldsLock /\ FreshInv /\ NoLostUpdate)'
  <2>1. CASE Acquire(c)
    BY <2>1 DEF Acquire, AcquireLock, CounterInv, RolesInv, WriterHoldsLock,
                FreshInv, NoLostUpdate, Writing
  <2>2. CASE GiveUp(c)
    BY <2>2, CounterFrame DEF GiveUp, Writing
  <2>3. CASE Get(c)
    BY <2>3 DEF Get, CounterInv, RolesInv, WriterHoldsLock, FreshInv,
                NoLostUpdate, Writing, Ops
  <2>4. CASE Set(c)
    <3>1. pc[c] = "set" /\ op[c] # "read" /\ op[c] \in Ops
      BY <2>4 DEF Set, CounterInv, RolesInv
    <3>2. WriterHoldsLock'
      BY <2>4 DEF Set, CounterInv, WriterHoldsLock, Writing
    <3>3. FreshInv'
      <4> SUFFICES ASSUME ~lapsed, NEW d \in Clients, pc'[d] = "set",
                          op[d] \in {"increment", "decrement"}
                   PROVE  /\ number'[d] = number[d]
                          /\ counter'[at[d]] = counter[at[d]]
                          /\ pc[d] = "set"
        BY <2>4 DEF Set, CounterInv, FreshInv
      <4>1. d # c /\ pc[d] = "set"
        BY <2>4 DEF Set
      <4>2. lock[at[d]] = d /\ lock[at[c]] = c
        BY <3>1, <4>1 DEF CounterInv, WriterHoldsLock, Writing
      <4>3. QED
        BY <2>4, <4>1, <4>2 DEF Set
    <3>4. NoLostUpdate'
      <4> SUFFICES ASSUME ~lapsed
                   PROVE  Applied(op[c], number[c]) = Applied(op[c], exact[at[c]])
        BY <2>4 DEF Set, CounterInv, NoLostUpdate
      <4>1. counter = exact
        BY DEF CounterInv, NoLostUpdate
      <4>2. CASE op[c] \in {"reset", "delete"}
        BY <4>2 DEF Applied
      <4>3. CASE op[c] \in {"increment", "decrement"}
        BY <3>1, <4>1, <4>3 DEF Applied, CounterInv, FreshInv, RolesInv
      <4>4. QED
        BY <3>1, <4>2, <4>3 DEF Ops
    <3>5. QED
      BY <3>2, <3>3, <3>4
  <2>5. CASE Release(c)
    BY <2>5 DEF Release, ReleaseLock, CounterInv, RolesInv, WriterHoldsLock,
                FreshInv, NoLostUpdate, Writing
  <2>6. QED
    BY <1>8, <2>1, <2>2, <2>3, <2>4, <2>5 DEF Step
<1>9. QED
  BY <1>1, <1>2, <1>3, <1>4, <1>5, <1>6, <1>7, <1>8 DEF Next

\* As long as no lease lapses under a writer, the lock makes every increment,
\* decrement, reset and delete atomic.
THEOREM Exact == Spec => [](WriterHoldsLock /\ NoLostUpdate)
<1>1. Init => TypeOK /\ CounterInv
  BY InitTypeOK, InitCounter
<1>2. TypeOK /\ CounterInv /\ [Next]_vars => (TypeOK /\ CounterInv)'
  BY NextTypeOK, NextCounter
<1>3. CounterInv => WriterHoldsLock /\ NoLostUpdate
  BY DEF CounterInv
<1>4. QED
  BY <1>1, <1>2, <1>3, PTL DEF Spec

-----------------------------------------------------------------------------
(* A running server is counted                                             *)

\* main resets while it starts and deletes while it stops, and the counter is
\* there from the reset to the delete.
MainInv ==
  \A s \in Servers :
    /\ pc[s] \in {"acquire", "get", "set", "release"} =>
         \/ op[s] = "reset" /\ life[s] = "starting"
         \/ op[s] = "delete" /\ life[s] = "stopping"
    /\ pc[s] = "release" /\ op[s] = "reset" => counter[s] # Absent

RunningInv == RolesInv /\ MainInv /\ RunningServerIsCounted

LEMMA InitRunning == Init => RunningInv
BY DEF Init, RunningInv, RolesInv, MainInv, RunningServerIsCounted, Servers, Mains

LEMMA NextRunning == TypeOK /\ RunningInv /\ [Next]_vars => RunningInv'
<1> SUFFICES ASSUME TypeOK, RunningInv, [Next]_vars
             PROVE  (MainInv /\ RunningServerIsCounted)'
  BY NextRoles DEF RunningInv
<1> USE DEF TypeOK, Goto, Servers, Mains, RunningInv, MainInv,
            RunningServerIsCounted
<1>1. CASE UNCHANGED vars
  BY <1>1 DEF vars
<1>2. ASSUME NEW w \in Workers, NEW o \in {"increment", "decrement"}, Count(w, o)
      PROVE (MainInv /\ RunningServerIsCounted)'
  BY <1>2 DEF Count, Begin
<1>3. ASSUME NEW b \in Balancers, NEW s \in Servers, AskLoad(b, s)
      PROVE (MainInv /\ RunningServerIsCounted)'
  BY <1>3 DEF AskLoad, Begin
<1>4. ASSUME NEW s \in Servers, StartUp(s)
      PROVE (MainInv /\ RunningServerIsCounted)'
  BY <1>4 DEF StartUp
<1>5. ASSUME NEW s \in Servers, ShutDown(s)
      PROVE (MainInv /\ RunningServerIsCounted)'
  BY <1>5 DEF ShutDown, Begin
<1>6. ASSUME NEW s \in Servers, Expire(s)
      PROVE (MainInv /\ RunningServerIsCounted)'
  BY <1>6 DEF Expire
<1>7. ASSUME NEW s \in Servers, Crash(s)
      PROVE (MainInv /\ RunningServerIsCounted)'
  BY <1>7 DEF Crash
<1>8. ASSUME NEW c \in Clients, Step(c)
      PROVE (MainInv /\ RunningServerIsCounted)'
  <2>1. CASE Acquire(c) \/ GiveUp(c) \/ Get(c)
    BY <2>1 DEF Acquire, GiveUp, Get
  <2>2. CASE Set(c)
    <3>1. op[c] \in Ops /\ op[c] # "read" /\ pc[c] = "set"
      BY <2>2 DEF Set, RolesInv
    <3>2. CASE op[c] = "delete"
      <4>1. c \in Servers /\ at[c] = c /\ life[c] = "stopping"
        BY <3>1, <3>2 DEF RolesInv
      <4>2. QED
        BY <2>2, <3>2, <4>1 DEF Set
    <3>3. CASE op[c] # "delete"
      <4>1. Applied(op[c], number[c]) \in Nat
        BY <3>1, <3>3 DEF Applied, Ops
      <4>2. counter' = [counter EXCEPT ![at[c]] = Applied(op[c], number[c])]
            /\ pc' = [pc EXCEPT ![c] = "release"] /\ UNCHANGED <<life, op>>
        BY <2>2 DEF Set
      <4>3. \A s \in Servers : counter[s] # Absent => counter'[s] # Absent
        BY <4>1, <4>2
      <4>4. \A s \in Servers : s = c /\ op[c] = "reset" => counter'[s] # Absent
        BY <3>1, <4>1, <4>2 DEF RolesInv
      <4>5. QED
        BY <3>1, <4>2, <4>3, <4>4
    <3>4. QED
      BY <3>2, <3>3
  <2>3. CASE Release(c)
    BY <2>3 DEF Release, RolesInv
  <2>4. QED
    BY <1>8, <2>1, <2>2, <2>3 DEF Step
<1>9. QED
  BY <1>1, <1>2, <1>3, <1>4, <1>5, <1>6, <1>7, <1>8 DEF Next

\* Whatever leases lapse and whichever processes crash, a server that accepts
\* connections has a counter for the load balancer to read.
THEOREM RunningIsCounted == Spec => []RunningServerIsCounted
<1>1. Init => TypeOK /\ RunningInv
  BY InitTypeOK, InitRunning
<1>2. TypeOK /\ RunningInv /\ [Next]_vars => (TypeOK /\ RunningInv)'
  BY NextTypeOK, NextRunning
<1>3. RunningInv => RunningServerIsCounted
  BY DEF RunningInv
<1>4. QED
  BY <1>1, <1>2, <1>3, PTL DEF Spec
=============================================================================
