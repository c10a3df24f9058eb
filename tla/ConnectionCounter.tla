------------------------- MODULE ConnectionCounter -------------------------
(***************************************************************************)
(* The number of connections of each chatting server, kept in the Redis     *)
(* hash redis_server and changed by a read and a write of it under the lock *)
(* named after the server: SyncLogic::incrementConnection,                  *)
(* Session::decrementConnection, main at startup and shutdown, and the load *)
(* balancer of the balance server, which reads it.  acquire waits 10ms and  *)
(* the lease is 10ms too.                                                  *)
(***************************************************************************)
EXTENDS RedisLock, Naturals

CONSTANTS Workers,   \* worker and io threads of the chatting servers
          Balancers, \* gRPC threads of the balance server
          Home,      \* the server of each worker
          Absent,    \* HGET finds no such field
          MaxOps     \* bound: starts, increments and decrements ever begun

Servers == LockNames
Mains == Servers     \* the main thread of a server goes by the server's name

ASSUME ClientsAre == Clients = Workers \cup Balancers \cup Mains
ASSUME Disjoint == /\ Workers \cap Balancers = {}
                   /\ Mains \cap (Workers \cup Balancers) = {}
ASSUME HomeType == Home \in [Workers -> Servers]
ASSUME AbsentType == Absent \notin Nat
ASSUME MaxOpsNat == MaxOps \in Nat

VARIABLES
  counter, \* HGET redis_server <server>
  life,    \* how far the process of each server got
  pc,      \* where each client stands
  op,      \* what it is doing to the counter
  at,      \* on which server's counter
  number,  \* new_number, its local copy
  ops,     \* bound: starts, increments and decrements begun
  exact,   \* history: the counter if each operation were one step
  lapsed   \* history: a lease ran out under a client that was to write

vars == <<lock, counter, life, pc, op, at, number, ops, exact, lapsed>>

Ops == {"increment", "decrement", "read", "reset", "delete"}
Places == {"idle", "acquire", "get", "set", "release", "dead"}

Init ==
  /\ LockInit
  /\ counter = [s \in Servers |-> Absent]
  /\ life = [s \in Servers |-> "off"]
  /\ pc = [c \in Clients |-> "idle"]
  /\ op = [c \in Clients |-> "read"]
  /\ at \in [Clients -> Servers]
  /\ \A w \in Workers : at[w] = Home[w]
  /\ \A s \in Mains : at[s] = s
  /\ number = [c \in Clients |-> 0]
  /\ ops = 0
  /\ exact = [s \in Servers |-> Absent]
  /\ lapsed = FALSE

Goto(c, p) == pc' = [pc EXCEPT ![c] = p]

Begin(c, o, s) ==
  /\ pc[c] = "idle"
  /\ Goto(c, "acquire")
  /\ op' = [op EXCEPT ![c] = o]
  /\ at' = [at EXCEPT ![c] = s]
  /\ UNCHANGED <<lock, counter, number, exact, lapsed>>

\* After a login (handlingLogin) or when a connection is given up
\* (purgeRemoveConnection).
Count(w, o) ==
  /\ life[Home[w]] \in {"up", "stopping"}
  /\ ops < MaxOps
  /\ ops' = ops + 1
  /\ Begin(w, o, Home[w])
  /\ UNCHANGED life

\* chattingInstanceLoadBalancer asks for the load of one server.
AskLoad(b, s) ==
  /\ Begin(b, "read", s)
  /\ UNCHANGED <<life, ops>>

\* main, before startAccept: the process is started, or started again when the
\* last of its threads is gone.
StartUp(s) ==
  /\ life[s] \in {"off", "crashed", "exited"}
  /\ \A w \in Workers : Home[w] = s => pc[w] \in {"idle", "dead"}
  /\ ops < MaxOps
  /\ ops' = ops + 1
  /\ life' = [life EXCEPT ![s] = "starting"]
  /\ pc' = [c \in Clients |-> IF c = s THEN "acquire"
                              ELSE IF c \in Workers /\ Home[c] = s THEN "idle"
                              ELSE pc[c]]
  /\ op' = [op EXCEPT ![s] = "reset"]
  /\ UNCHANGED <<lock, counter, at, number, exact, lapsed>>

\* main, after a signal.
ShutDown(s) ==
  /\ life[s] = "up"
  /\ life' = [life EXCEPT ![s] = "stopping"]
  /\ Begin(s, "delete", s)
  /\ UNCHANGED ops

\* With the lock taken, increment and decrement go on to HGET; main writes
\* without reading.
Acquire(c) ==
  /\ pc[c] = "acquire"
  /\ AcquireLock(at[c], c)
  /\ Goto(c, IF op[c] \in {"reset", "delete"} THEN "set" ELSE "get")
  /\ UNCHANGED <<counter, life, op, at, number, ops, exact, lapsed>>

\* main goes on to startAccept all the same.
GiveUp_StartAnyway(c) ==
  /\ pc[c] = "acquire"
  /\ Goto(c, "idle")
  /\ life' = IF c \in Mains THEN [life EXCEPT ![c] = "up"] ELSE life
  /\ UNCHANGED <<lock, counter, op, at, number, ops, exact, lapsed>>

\* acquire's wait is over: the counter is left as it is; main returns.
GiveUp(c) ==
  /\ pc[c] = "acquire"
  /\ Goto(c, IF c \in Mains THEN "dead" ELSE "idle")
  /\ life' = IF c \in Mains THEN [life EXCEPT ![c] = "exited"] ELSE life
  /\ UNCHANGED <<lock, counter, op, at, number, ops, exact, lapsed>>

\* The reply is taken for a number whether or not there is one.
Get_Unchecked(c) ==
  /\ pc[c] = "get"
  /\ number' = [number EXCEPT ![c] = counter[at[c]]]
  /\ Goto(c, IF op[c] = "read" THEN "release" ELSE "set")
  /\ UNCHANGED <<lock, counter, life, op, at, ops, exact, lapsed>>

\* HGET; a missing field counts as 0, and 0 is not decremented.
Get(c) ==
  /\ pc[c] = "get"
  /\ LET n == IF counter[at[c]] = Absent THEN 0 ELSE counter[at[c]] IN
       /\ number' = [number EXCEPT ![c] = n]
       /\ Goto(c, IF op[c] = "read" \/ (op[c] = "decrement" /\ n = 0)
                  THEN "release" ELSE "set")
  /\ UNCHANGED <<lock, counter, life, op, at, ops, exact, lapsed>>

\* What one operation makes of the counter when nothing comes in between.
Applied(o, n) ==
  CASE o = "increment" -> (IF n = Absent THEN 0 ELSE n) + 1
    [] o = "decrement" -> IF n \in {0, Absent} THEN n ELSE n - 1
    [] o = "reset" -> 0
    [] o = "delete" -> Absent
    [] o = "read" -> n

\* The lock is released before the write.
Set_AfterRelease(c) ==
  /\ pc[c] = "set"
  /\ IF lock[at[c]] = c
     THEN ReleaseLock(at[c], c) /\ UNCHANGED <<counter, exact, pc>>
     ELSE /\ counter' = [counter EXCEPT ![at[c]] = Applied(op[c], number[c])]
          /\ exact' = [exact EXCEPT ![at[c]] = Applied(op[c], @)]
          /\ Goto(c, "release")
          /\ UNCHANGED lock
  /\ UNCHANGED <<life, op, at, number, ops, lapsed>>

\* HSET of the local copy plus or minus one, HSET 0, or HDEL.
Set(c) ==
  /\ pc[c] = "set"
  /\ LET s == at[c] IN
       /\ counter' = [counter EXCEPT ![s] = Applied(op[c], number[c])]
       /\ exact' = [exact EXCEPT ![s] = Applied(op[c], exact[s])]
  /\ Goto(c, "release")
  /\ UNCHANGED <<lock, life, op, at, number, ops, lapsed>>

\* release, and the server is up, or main ends.
Release(c) ==
  /\ pc[c] = "release"
  /\ ReleaseLock(at[c], c)
  /\ Goto(c, IF op[c] = "delete" THEN "dead" ELSE "idle")
  /\ life' = CASE op[c] = "reset" -> [life EXCEPT ![c] = "up"]
               [] op[c] = "delete" -> [life EXCEPT ![c] = "exited"]
               [] OTHER -> life
  /\ UNCHANGED <<counter, op, at, number, ops, exact, lapsed>>

\* The lease ends, whatever its holder is doing.
Expire(s) ==
  /\ LeaseRunsOut(s)
  /\ lapsed' = (lapsed \/ /\ lock[s] \in Clients \ Balancers
                          /\ pc[lock[s]] \in {"get", "set"})
  /\ UNCHANGED <<counter, life, pc, op, at, number, ops, exact>>

\* A chatting server dies with all its threads; Redis keeps what it holds.
Crash(s) ==
  /\ life[s] \in {"starting", "up", "stopping"}
  /\ life' = [life EXCEPT ![s] = "crashed"]
  /\ pc' = [c \in Clients |->
              IF c = s \/ (c \in Workers /\ Home[c] = s) THEN "dead" ELSE pc[c]]
  /\ UNCHANGED <<lock, counter, op, at, number, ops, exact, lapsed>>

Step(c) == Acquire(c) \/ GiveUp(c) \/ Get(c) \/ Set(c) \/ Release(c)

Next ==
  \/ \E w \in Workers, o \in {"increment", "decrement"} : Count(w, o)
  \/ \E b \in Balancers, s \in Servers : AskLoad(b, s)
  \/ \E s \in Servers : StartUp(s) \/ ShutDown(s) \/ Expire(s) \/ Crash(s)
  \/ \E c \in Clients : Step(c)

Spec == Init /\ [][Next]_vars

\* Redis ends every lease.
FairSpec == Spec /\ \A s \in Servers : WF_vars(Expire(s))

-----------------------------------------------------------------------------
(* Properties                                                              *)

TypeOK ==
  /\ LockTypeOK
  /\ counter \in [Servers -> Nat \cup {Absent}]
  /\ life \in [Servers -> {"off", "starting", "up", "stopping", "exited", "crashed"}]
  /\ pc \in [Clients -> Places]
  /\ op \in [Clients -> Ops]
  /\ at \in [Clients -> Servers]
  /\ number \in [Clients -> Nat]
  /\ ops \in 0..MaxOps
  /\ exact \in [Servers -> Nat \cup {Absent}]
  /\ lapsed \in BOOLEAN

\* RedisContextRAII.hpp (balance), "Lock Might be acquired by others, so when
\* KEYS[1]!=ARGV[1] then redis should not be released!": a client takes no
\* lock away from another, not even one that got it after a lapse.
ReleaseSparesOthers ==
  [][\A s \in Servers :
       lock[s] # NoOne /\ lock'[s] # lock[s] => pc' = pc \/ pc'[lock[s]] # pc[lock[s]]]_vars

Writing(c) == pc[c] \in {"get", "set"} /\ op[c] # "read"

\* While no lease lapses, who is about to change a counter holds its lock.
WriterHoldsLock ==
  ~lapsed => \A c \in Clients : Writing(c) => lock[at[c]] = c

\* While no lease lapses the counter is what it would be if every increment,
\* decrement, reset and delete were one step: no update is lost.
NoLostUpdate == ~lapsed => counter = exact

\* The load balancer takes a server without a counter for one of infinite
\* load: a server that accepts connections always has one.
RunningServerIsCounted ==
  \A s \in Servers : life[s] = "up" => counter[s] # Absent

\* A lock is free again however its holder ends, in a crash included.
LockIsFreedAgain == \A s \in Servers : lock[s] # NoOne ~> lock[s] = NoOne
=============================================================================
