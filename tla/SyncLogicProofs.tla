-------------------------- MODULE SyncLogicProofs --------------------------
(***************************************************************************)
(* SyncLogic and its connection pool, for any number of io threads, stubs   *)
(* and requests.                                                           *)
(***************************************************************************)
EXTENDS SyncLogic, FiniteSetTheorems, TLAPS

IOPlaces == {"idle", "commit", "acquire", "using"}
Busy == {"execute", "handler", "acquire", "using", "pop"}
WorkerPlaces == Busy \cup {"lock", "check", "sleep", "asleep", "gone"}
MainAfterJoin ==
  {"kick", "acquire", "using", "leave", "stop", "notify", "join", "gone"}
MainStopped == {"notify", "join", "gone"}

\* Who can be where.
PlacesOK ==
  /\ \A t \in IOThreads : pc[t] \in IOPlaces
  /\ pc[Worker] \in WorkerPlaces
  /\ pc[Main] \in MainAfterJoin \cup {"running", "joinIO"}

\* The worker has the mutex while it looks at the queue and executes, and the
\* request it executes is the front of the queue.
MutexInv ==
  /\ mtx = IF pc[Worker] \in Busy \cup {"check", "sleep"} THEN Worker ELSE NoOne
  /\ pc[Worker] \in Busy => queue # <<>>
  /\ pc[Worker] \in {"sleep", "asleep", "gone"} => queue = <<>>

\* main stops the worker when no io thread is left to commit.
ShutdownInv ==
  /\ pc[Main] \in MainAfterJoin \cup {"joinIO"} => ioStopped
  /\ pc[Main] \in MainAfterJoin => \A t \in IOThreads : pc[t] = "idle"
  /\ stop => pc[Main] \in MainStopped
  /\ pc[Worker] = "gone" => stop
  /\ draining => stop

AtMostOne(S) == \E a \in Stubs : S \subseteq {a}
AtMostTwo(S) == \E a, b \in Stubs : S \subseteq {a, b}

\* How many stubs a thread has where.
HeldInv ==
  /\ \A t \in IOThreads : IF pc[t] = "using" THEN AtMostOne(held[t]) ELSE held[t] = {}
  /\ CASE pc[Worker] = "using" -> AtMostTwo(held[Worker])
       [] pc[Worker] \in {"handler", "acquire"} -> AtMostOne(held[Worker])
       [] OTHER -> held[Worker] = {}
  /\ IF pc[Main] = "using" THEN AtMostTwo(held[Main]) ELSE AtMostOne(held[Main])

\* An io thread that commits has a request.
HandInv == \A t \in IOThreads : pc[t] = "commit" => hand[t] \in Requests

Control == PlacesOK /\ HandInv /\ MutexInv /\ ShutdownInv

USE UsersAre, ThreadsDiffer, NoOneIsNone, KindType, QueueSizeNat, MaxPurgesNat

\* The actions of Next, one by one.
LEMMA StepIs ==
  ASSUME [Next]_vars
  PROVE  \/ UNCHANGED vars
         \/ \E t \in Users : TakeStub(t)
         \/ \E t \in Users : WaitForStub(t)
         \/ \E t \in {Worker, Main} : GiveBackInner(t)
         \/ \E t \in IOThreads, r \in Requests : Read(t, r)
         \/ \E t \in IOThreads : Commit(t)
         \/ \E t \in IOThreads : Purge(t)
         \/ \E t \in IOThreads : Finish(t)
         \/ Lock \/ Check \/ FallAsleep \/ Execute \/ Call \/ Return \/ Pop
         \/ Signal \/ JoinIO \/ Kick \/ Leave \/ Stop \/ Notify \/ Join
<1>1. ASSUME NEW t \in Users, Step(t)
      PROVE  TakeStub(t) \/ WaitForStub(t) \/ (t \in {Worker, Main} /\ GiveBackInner(t))
  BY <1>1 DEF Step, GiveBackInner
<1> QED BY <1>1 DEF Next, WorkerStep, MainStep, IOStep

-----------------------------------------------------------------------------
(* The pool's operators                                                    *)

LEMMA PoolStepsType ==
  ASSUME PoolTypeOK, NEW t \in Users, Take(t) \/ Sleep(t) \/ GiveBack(t)
  PROVE  PoolTypeOK'
BY DEF PoolTypeOK, Take, Sleep, GiveBack

\* StubsAccounted, said of each stub.
Accounted ==
  \A s : s \in Stubs <=> s \in idle \/ \E t \in Users : s \in held[t]

LEMMA AccountedIsUnion ==
  StubsAccounted <=>
    /\ Accounted
    /\ \A t \in Users : held[t] \cap idle = {}
    /\ \A t, u \in Users : t # u => held[t] \cap held[u] = {}
<1>1. Stubs = idle \cup UNION {held[t] : t \in Users} <=> Accounted
  BY DEF Accounted
<1> QED BY <1>1 DEF StubsAccounted

LEMMA PoolStepsAccount ==
  ASSUME PoolTypeOK, StubsAccounted, NEW t \in Users,
         Take(t) \/ Sleep(t) \/ GiveBack(t)
  PROVE  StubsAccounted'
<1>1. CASE Take(t)
  <2>1. PICK s \in idle : /\ idle' = idle \ {s}
                          /\ held' = [held EXCEPT ![t] = @ \cup {s}]
    BY <1>1 DEF Take
  <2>2. \A u \in Users : held'[u] = IF u = t THEN held[t] \cup {s} ELSE held[u]
    BY <2>1 DEF PoolTypeOK
  <2>3. Accounted'
    BY <2>1, <2>2, AccountedIsUnion DEF Accounted
  <2>4. /\ \A u \in Users : held'[u] \cap idle' = {}
        /\ \A u, v \in Users : u # v => held'[u] \cap held'[v] = {}
    BY <2>1, <2>2, AccountedIsUnion
  <2>5. Stubs = idle' \cup UNION {held'[u] : u \in Users}
    BY <2>3 DEF Accounted
  <2> QED BY <2>4, <2>5 DEF StubsAccounted
<1>2. CASE Sleep(t)
  BY <1>2 DEF Sleep, StubsAccounted
<1>3. CASE GiveBack(t)
  <2>1. PICK s \in held[t] : /\ idle' = idle \cup {s}
                             /\ held' = [held EXCEPT ![t] = @ \ {s}]
    BY <1>3 DEF GiveBack
  <2>2. \A u \in Users : held'[u] = IF u = t THEN held[t] \ {s} ELSE held[u]
    BY <2>1 DEF PoolTypeOK
  <2>3. Accounted'
    BY <2>1, <2>2, AccountedIsUnion DEF Accounted
  <2>4. /\ \A u \in Users : held'[u] \cap idle' = {}
        /\ \A u, v \in Users : u # v => held'[u] \cap held'[v] = {}
    BY <2>1, <2>2, AccountedIsUnion
  <2>5. Stubs = idle' \cup UNION {held'[u] : u \in Users}
    BY <2>3 DEF Accounted
  <2> QED BY <2>4, <2>5 DEF StubsAccounted
<1> QED BY <1>1, <1>2, <1>3

-----------------------------------------------------------------------------
(* Types                                                                   *)

LEMMA InitType == Init => TypeOK
<1> SUFFICES ASSUME Init PROVE TypeOK
  OBVIOUS
<1>1. PoolTypeOK
  BY DEF Init, PoolTypeOK
<1>2. queue \in Seq(Requests) /\ Len(queue) <= QueueSize + 1
  BY DEF Init
<1>3. pc \in [Users -> Places]
  BY DEF Init, Places
<1>4. hand \in [IOThreads -> Requests \cup {NoOne}] /\ left \in [Users -> 0..2]
  BY DEF Init
<1>5. mtx \in {NoOne, Worker} /\ sent \subseteq Requests
  BY DEF Init
<1>6. stop \in BOOLEAN /\ draining \in BOOLEAN /\ ioStopped \in BOOLEAN
  BY DEF Init
<1>7. purges \in 0..MaxPurges
  BY DEF Init
<1> QED BY <1>1, <1>2, <1>3, <1>4, <1>5, <1>6, <1>7 DEF TypeOK

\* A thread about to commit has a request.
LEMMA NextType ==
  TypeOK /\ HandInv /\ MutexInv /\ [Next]_vars => TypeOK'
<1> SUFFICES ASSUME TypeOK, HandInv, MutexInv, [Next]_vars PROVE TypeOK'
  OBVIOUS
<1> USE DEF TypeOK, Goto
<1>1. CASE UNCHANGED vars
  BY <1>1 DEF vars, poolVars, queueVars, inputVars, TypeOK, PoolTypeOK
<1>2. ASSUME NEW t \in Users, TakeStub(t) PROVE TypeOK'
  <2>1. PoolTypeOK'
    BY <1>2, PoolStepsType DEF TakeStub
  <2>2. pc' \in [Users -> Places] /\ left' \in [Users -> 0..2]
    BY <1>2 DEF TakeStub, Places
  <2>3. UNCHANGED <<queueVars, inputVars>>
    BY <1>2 DEF TakeStub
  <2> QED BY <2>1, <2>2, <2>3 DEF queueVars, inputVars
<1>3. ASSUME NEW t \in Users, WaitForStub(t) PROVE TypeOK'
  <2>1. PoolTypeOK'
    BY <1>3, PoolStepsType DEF WaitForStub
  <2>2. pc' \in [Users -> Places] /\ left' \in [Users -> 0..2]
    BY <1>3 DEF WaitForStub, Places
  <2>3. UNCHANGED <<queueVars, inputVars>>
    BY <1>3 DEF WaitForStub
  <2> QED BY <2>1, <2>2, <2>3 DEF queueVars, inputVars
<1>4. ASSUME NEW t \in {Worker, Main}, GiveBackInner(t) PROVE TypeOK'
  <2>1. PoolTypeOK'
    BY <1>4, PoolStepsType DEF GiveBackInner
  <2>2. pc' \in [Users -> Places] /\ left' \in [Users -> 0..2]
    BY <1>4 DEF GiveBackInner, Places
  <2>3. UNCHANGED <<queueVars, inputVars>>
    BY <1>4 DEF GiveBackInner
  <2> QED BY <2>1, <2>2, <2>3 DEF queueVars, inputVars
<1>5. ASSUME NEW t \in IOThreads, NEW r \in Requests, Read(t, r) PROVE TypeOK'
  BY <1>5 DEF Read, PoolTypeOK, Places, poolVars, queueVars, inputVars
<1>6. ASSUME NEW t \in IOThreads, Commit(t) PROVE TypeOK'
  <2>1. queue' \in Seq(Requests) /\ Len(queue') <= QueueSize + 1
    <3>0. hand[t] \in Requests
      BY <1>6 DEF Commit, PlacesOK, HandInv
    <3>1. CASE queue' = queue
      BY <3>1
    <3>2. CASE Len(queue) <= QueueSize /\ queue' = Append(queue, hand[t])
      BY <3>0, <3>2
    <3> QED BY <1>6, <3>1, <3>2 DEF Commit
  <2>2. pc' \in [Users -> Places]
    BY <1>6 DEF Commit, Places
  <2> QED BY <1>6, <2>1, <2>2 DEF Commit, PoolTypeOK, poolVars
<1>7. ASSUME NEW t \in IOThreads, Purge(t) PROVE TypeOK'
  BY <1>7 DEF Purge, PoolTypeOK, Places, poolVars, queueVars, inputVars
<1>8. ASSUME NEW t \in IOThreads, Finish(t) PROVE TypeOK'
  <2>1. PoolTypeOK'
    BY <1>8, PoolStepsType DEF Finish
  <2>2. pc' \in [Users -> Places] /\ left' \in [Users -> 0..2]
    BY <1>8 DEF Finish, Places
  <2>3. UNCHANGED <<queueVars, inputVars>>
    BY <1>8 DEF Finish
  <2> QED BY <2>1, <2>2, <2>3 DEF queueVars, inputVars
<1>9. ASSUME Lock PROVE TypeOK'
  BY <1>9 DEF Lock, PoolTypeOK, Places, poolVars, queueVars, inputVars
<1>10. ASSUME Check PROVE TypeOK'
  BY <1>10 DEF Check, PoolTypeOK, Places, poolVars, queueVars, inputVars
<1>11. ASSUME FallAsleep PROVE TypeOK'
  BY <1>11 DEF FallAsleep, PoolTypeOK, Places, poolVars, queueVars, inputVars
<1>12. ASSUME Execute PROVE TypeOK'
  <2>1. TakesInner(Kind[Head(queue)]) \subseteq 0..2
    <3>1. Head(queue) \in Requests
      BY <1>12 DEF Execute, MutexInv, Busy
    <3> QED BY <3>1 DEF TakesInner
  <2>2. pc' \in [Users -> Places] /\ left' \in [Users -> 0..2]
    BY <1>12, <2>1 DEF Execute, Places
  <2> QED BY <1>12, <2>2 DEF Execute, PoolTypeOK, poolVars, queueVars, inputVars
<1>13. ASSUME Call PROVE TypeOK'
  BY <1>13 DEF Call, PoolTypeOK, Places, poolVars, queueVars, inputVars
<1>14. ASSUME Return PROVE TypeOK'
  <2>1. PoolTypeOK'
    BY <1>14, PoolStepsType DEF Return, poolVars, PoolTypeOK
  <2>2. pc' \in [Users -> Places]
    BY <1>14 DEF Return, Places
  <2> QED BY <1>14, <2>1, <2>2 DEF Return, queueVars, inputVars
<1>15. ASSUME Pop PROVE TypeOK'
  <2>1. queue' \in Seq(Requests) /\ Len(queue') <= QueueSize + 1
    BY <1>15 DEF Pop, MutexInv, Busy
  <2>2. pc' \in [Users -> Places] /\ mtx' \in {NoOne, Worker}
    BY <1>15 DEF Pop, Places
  <2> QED BY <1>15, <2>1, <2>2 DEF Pop, PoolTypeOK, poolVars, inputVars
<1>16. ASSUME Signal PROVE TypeOK'
  BY <1>16 DEF Signal, PoolTypeOK, Places, poolVars, queueVars, inputVars
<1>17. ASSUME JoinIO PROVE TypeOK'
  BY <1>17 DEF JoinIO, PoolTypeOK, Places, poolVars, queueVars, inputVars
<1>18. ASSUME Kick PROVE TypeOK'
  BY <1>18 DEF Kick, PoolTypeOK, Places, poolVars, queueVars, inputVars
<1>19. ASSUME Leave PROVE TypeOK'
  <2>1. PoolTypeOK'
    BY <1>19, PoolStepsType DEF Leave
  <2>2. pc' \in [Users -> Places]
    BY <1>19 DEF Leave, Places
  <2> QED BY <1>19, <2>1, <2>2 DEF Leave, queueVars, inputVars
<1>20. ASSUME Stop PROVE TypeOK'
  BY <1>20 DEF Stop, PoolTypeOK, Places, poolVars, queueVars, inputVars
<1>21. ASSUME Notify PROVE TypeOK'
  BY <1>21 DEF Notify, PoolTypeOK, Places, poolVars, queueVars, inputVars
<1>22. ASSUME Join PROVE TypeOK'
  BY <1>22 DEF Join, PoolTypeOK, Places, poolVars, queueVars, inputVars
<1> QED
  BY StepIs, <1>1, <1>2, <1>3, <1>4, <1>5, <1>6, <1>7, <1>8, <1>9, <1>10, <1>11,
     <1>12, <1>13, <1>14, <1>15, <1>16, <1>17, <1>18, <1>19, <1>20, <1>21, <1>22

-----------------------------------------------------------------------------
(* Control                                                                 *)

LEMMA InitControl == Init => Control
BY DEF Init, Control, PlacesOK, HandInv, MutexInv, ShutdownInv, IOPlaces, WorkerPlaces,
       MainAfterJoin, MainStopped, Busy

LEMMA NextControl == TypeOK /\ Control /\ [Next]_vars => Control'
<1> SUFFICES ASSUME TypeOK, Control, [Next]_vars PROVE Control'
  OBVIOUS
<1> USE DEF TypeOK, Goto, Control, PlacesOK, HandInv, MutexInv, ShutdownInv,
            IOPlaces, WorkerPlaces, Busy, MainAfterJoin, MainStopped,
            queueVars, inputVars
<1>1. CASE UNCHANGED vars
  BY <1>1 DEF vars, poolVars, queueVars, inputVars
<1>2. ASSUME NEW t \in Users, TakeStub(t) PROVE Control'
  BY <1>2 DEF TakeStub
<1>3. ASSUME NEW t \in Users, WaitForStub(t) PROVE Control'
  BY <1>3 DEF WaitForStub
<1>4. ASSUME NEW t \in {Worker, Main}, GiveBackInner(t) PROVE Control'
  BY <1>4 DEF GiveBackInner
<1>5. ASSUME NEW t \in IOThreads, NEW r \in Requests, Read(t, r) PROVE Control'
  BY <1>5 DEF Read
<1>6. ASSUME NEW t \in IOThreads, Commit(t) PROVE Control'
  BY <1>6 DEF Commit
<1>7. ASSUME NEW t \in IOThreads, Purge(t) PROVE Control'
  BY <1>7 DEF Purge
<1>8. ASSUME NEW t \in IOThreads, Finish(t) PROVE Control'
  BY <1>8 DEF Finish
<1>9. ASSUME Lock PROVE Control'
  BY <1>9 DEF Lock
<1>10. ASSUME Check PROVE Control'
  BY <1>10 DEF Check
<1>11. ASSUME FallAsleep PROVE Control'
  BY <1>11 DEF FallAsleep
<1>12. ASSUME Execute PROVE Control'
  BY <1>12 DEF Execute
<1>13. ASSUME Call PROVE Control'
  BY <1>13 DEF Call
<1>14. ASSUME Return PROVE Control'
  BY <1>14 DEF Return
<1>15. ASSUME Pop PROVE Control'
  BY <1>15 DEF Pop
<1>16. ASSUME Signal PROVE Control'
  BY <1>16 DEF Signal
<1>17. ASSUME JoinIO PROVE Control'
  BY <1>17 DEF JoinIO
<1>18. ASSUME Kick PROVE Control'
  BY <1>18 DEF Kick
<1>19. ASSUME Leave PROVE Control'
  BY <1>19 DEF Leave
<1>20. ASSUME Stop PROVE Control'
  BY <1>20 DEF Stop
<1>21. ASSUME Notify PROVE Control'
  BY <1>21 DEF Notify
<1>22. ASSUME Join PROVE Control'
  BY <1>22 DEF Join
<1> QED
  BY StepIs, <1>1, <1>2, <1>3, <1>4, <1>5, <1>6, <1>7, <1>8, <1>9, <1>10, <1>11,
     <1>12, <1>13, <1>14, <1>15, <1>16, <1>17, <1>18, <1>19, <1>20, <1>21, <1>22

-----------------------------------------------------------------------------
(* Who has how many stubs                                                  *)

LEMMA FewStubs ==
  ASSUME NEW S, NEW s \in Stubs
  PROVE  /\ S = {} => AtMostOne(S \cup {s})
         /\ AtMostOne(S) => AtMostTwo(S \cup {s}) /\ AtMostTwo(S)
         /\ S \in SUBSET Stubs /\ AtMostTwo(S) /\ s \in S => AtMostOne(S \ {s})
         /\ AtMostOne(S) /\ s \in S => S \ {s} = {}
         /\ S = {} => AtMostOne(S)
BY DEF AtMostOne, AtMostTwo

LEMMA InitHeld == Init => HeldInv
<1> SUFFICES ASSUME Init PROVE HeldInv
  OBVIOUS
<1>1. PICK s \in Stubs : held = [t \in Users |-> IF t = Main THEN {s} ELSE {}]
  BY DEF Init
<1>2. AtMostOne(held[Main]) /\ \A t \in IOThreads \cup {Worker} : held[t] = {}
  BY <1>1 DEF AtMostOne
<1>3. pc[Worker] = "lock" /\ pc[Main] = "running" /\ \A t \in IOThreads : pc[t] = "idle"
  BY DEF Init
<1> QED BY <1>2, <1>3 DEF HeldInv

\* What a thread may have at a place.
Allowed(t, p, S) ==
  CASE t \in IOThreads -> IF p = "using" THEN AtMostOne(S) ELSE S = {}
    [] t = Worker -> (CASE p = "using" -> AtMostTwo(S)
                        [] p \in {"handler", "acquire"} -> AtMostOne(S)
                        [] OTHER -> S = {})
    [] t = Main -> IF p = "using" THEN AtMostTwo(S) ELSE AtMostOne(S)

LEMMA HeldIsAllowed == HeldInv <=> \A t \in Users : Allowed(t, pc[t], held[t])
BY DEF HeldInv, Allowed

LEMMA HeldIsAllowedNext ==
  (\A t \in Users : Allowed(t, pc'[t], held'[t])) => HeldInv'
BY DEF HeldInv, Allowed

\* A step that moves only t.
LEMMA OneMoves ==
  ASSUME HeldInv, NEW t \in Users, Allowed(t, pc'[t], held'[t]),
         \A u \in Users \ {t} : pc'[u] = pc[u] /\ held'[u] = held[u]
  PROVE  HeldInv'
<1>1. ASSUME NEW u \in Users PROVE Allowed(u, pc'[u], held'[u])
  BY HeldIsAllowed
<1> QED BY <1>1, HeldIsAllowedNext

\* A step that moves t and leaves the pool alone.
LEMMA OneGoes ==
  ASSUME TypeOK, HeldInv, NEW t \in Users, NEW p, Goto(t, p),
         UNCHANGED held, Allowed(t, p, held[t])
  PROVE  HeldInv'
BY OneMoves DEF Goto, TypeOK

\* A step that gives one of t's stubs back.
LEMMA GiveBackMoves ==
  ASSUME TypeOK, NEW t \in Users, GiveBack(t)
  PROVE  /\ \E s \in held[t] : s \in Stubs /\ held'[t] = held[t] \ {s}
         /\ \A u \in Users \ {t} : held'[u] = held[u]
BY DEF GiveBack, TypeOK, PoolTypeOK

LEMMA NextHeld == TypeOK /\ PlacesOK /\ HeldInv /\ [Next]_vars => HeldInv'
<1> SUFFICES ASSUME TypeOK, PlacesOK, HeldInv, [Next]_vars PROVE HeldInv'
  OBVIOUS
<1>0. \A t \in Users : Allowed(t, pc[t], held[t])
  BY HeldIsAllowed
<1>1. CASE UNCHANGED vars
  BY <1>1 DEF vars, poolVars, HeldInv
<1>2. ASSUME NEW t \in Users, TakeStub(t) PROVE HeldInv'
  <2>1. PICK s \in idle : held' = [held EXCEPT ![t] = @ \cup {s}]
    BY <1>2 DEF TakeStub, Take
  <2>2. s \in Stubs /\ held'[t] = held[t] \cup {s}
    BY <2>1 DEF TypeOK, PoolTypeOK
  <2>3. \A u \in Users \ {t} : pc'[u] = pc[u] /\ held'[u] = held[u]
    BY <1>2, <2>1 DEF TakeStub, Goto, TypeOK, PoolTypeOK
  <2>4. /\ pc[t] = "acquire"
        /\ \/ pc'[t] = "using"
           \/ pc'[t] = "handler" /\ t = Worker /\ held[t] = {}
    BY <1>2 DEF TakeStub, Goto, TypeOK
  <2>5. /\ held[t] = {} => AtMostOne(held'[t])
        /\ AtMostOne(held[t]) => AtMostTwo(held'[t])
    BY <2>2 DEF AtMostOne, AtMostTwo
  <2>6. Allowed(t, pc'[t], held'[t])
    BY <1>0, <2>4, <2>5 DEF Allowed
  <2> QED BY <2>3, <2>6, OneMoves
<1>3. ASSUME NEW t \in Users, WaitForStub(t) PROVE HeldInv'
  BY <1>3 DEF WaitForStub, Sleep, HeldInv
<1>4. ASSUME NEW t \in {Worker, Main}, GiveBackInner(t) PROVE HeldInv'
  <2>1. PICK s \in held[t] : s \in Stubs /\ held'[t] = held[t] \ {s}
    BY <1>4, GiveBackMoves DEF GiveBackInner
  <2>2. \A u \in Users \ {t} : pc'[u] = pc[u] /\ held'[u] = held[u]
    BY <1>4, GiveBackMoves DEF GiveBackInner, Goto, TypeOK
  <2>3. pc[t] = "using" /\ pc'[t] = IF t = Worker THEN "handler" ELSE "kick"
    BY <1>4 DEF GiveBackInner, Goto, TypeOK
  <2>4. AtMostTwo(held[t]) /\ held[t] \in SUBSET Stubs
    BY <1>0, <2>3 DEF Allowed, TypeOK, PoolTypeOK
  <2>5. AtMostOne(held'[t])
    BY <2>1, <2>4, FewStubs
  <2>6. Allowed(t, pc'[t], held'[t])
    BY <2>3, <2>5 DEF Allowed
  <2> QED BY <2>2, <2>6, OneMoves
<1>5. ASSUME NEW t \in IOThreads, NEW r \in Requests, Read(t, r) PROVE HeldInv'
  BY <1>0, <1>5, OneGoes DEF Read, poolVars, Allowed
<1>6. ASSUME NEW t \in IOThreads, Commit(t) PROVE HeldInv'
  <2>1. /\ pc[t] = "commit" /\ held' = held
        /\ \A u \in IOThreads \ {t} : pc'[u] = pc[u]
        /\ pc'[t] = "idle" /\ pc'[Main] = pc[Main]
        /\ pc'[Worker] = pc[Worker] \/ (pc[Worker] = "asleep" /\ pc'[Worker] = "lock")
    BY <1>6 DEF Commit, Goto, TypeOK, poolVars
  <2> QED BY <2>1 DEF HeldInv
<1>7. ASSUME NEW t \in IOThreads, Purge(t) PROVE HeldInv'
  BY <1>0, <1>7, OneGoes DEF Purge, poolVars, Allowed
<1>8. ASSUME NEW t \in IOThreads, Finish(t) PROVE HeldInv'
  <2>1. PICK s \in held[t] : s \in Stubs /\ held'[t] = held[t] \ {s}
    BY <1>8, GiveBackMoves DEF Finish
  <2>2. \A u \in Users \ {t} : pc'[u] = pc[u] /\ held'[u] = held[u]
    BY <1>8, GiveBackMoves DEF Finish, Goto, TypeOK
  <2>3. pc[t] = "using" /\ pc'[t] \in {"acquire", "idle"}
    BY <1>8 DEF Finish, Goto, TypeOK
  <2>4. held'[t] = {}
    <3>1. AtMostOne(held[t])
      BY <1>0, <2>3 DEF Allowed
    <3> QED BY <2>1, <3>1 DEF AtMostOne
  <2>5. Allowed(t, pc'[t], held'[t])
    BY <2>3, <2>4 DEF Allowed
  <2> QED BY <2>2, <2>5, OneMoves
<1>9. ASSUME Lock PROVE HeldInv'
  BY <1>0, <1>9, OneGoes DEF Lock, poolVars, Allowed
<1>10. ASSUME Check PROVE HeldInv'
  <2>1. /\ pc[Worker] = "check" /\ held' = held
        /\ \E p \in {"execute", "gone", "sleep"} : Goto(Worker, p)
    BY <1>10 DEF Check, poolVars
  <2> QED BY <1>0, <2>1, OneGoes DEF Allowed
<1>11. ASSUME FallAsleep PROVE HeldInv'
  BY <1>0, <1>11, OneGoes DEF FallAsleep, poolVars, Allowed
<1>12. ASSUME Execute PROVE HeldInv'
  <2>1. /\ pc[Worker] = "execute" /\ held' = held
        /\ \E p \in {"acquire", "handler"} : Goto(Worker, p)
    BY <1>12 DEF Execute, poolVars
  <2>2. held[Worker] = {}
    BY <1>0, <2>1 DEF Allowed
  <2> QED BY <2>1, <2>2, OneGoes, FewStubs, StubsExist DEF Allowed
<1>13. ASSUME Call PROVE HeldInv'
  BY <1>0, <1>13, OneGoes DEF Call, poolVars, Allowed
<1>14. ASSUME Return PROVE HeldInv'
  <2>1. pc[Worker] = "handler" /\ Goto(Worker, "pop")
    BY <1>14 DEF Return
  <2>2. pc'[Worker] = "pop" /\ \A u \in Users \ {Worker} : pc'[u] = pc[u]
    BY <2>1 DEF Goto, TypeOK
  <2>3. held'[Worker] = {} /\ \A u \in Users \ {Worker} : held'[u] = held[u]
    <3>1. CASE held[Worker] = {} /\ UNCHANGED poolVars
      BY <3>1 DEF poolVars
    <3>2. CASE GiveBack(Worker)
      <4>1. AtMostOne(held[Worker])
        BY <1>0, <2>1 DEF Allowed
      <4>2. held'[Worker] = {}
        BY <3>2, <4>1, GiveBackMoves DEF AtMostOne
      <4> QED BY <3>2, <4>2, GiveBackMoves
    <3> QED BY <1>14, <3>1, <3>2 DEF Return
  <2> QED BY <2>2, <2>3, OneMoves DEF Allowed
<1>15. ASSUME Pop PROVE HeldInv'
  <2>1. /\ pc[Worker] = "pop" /\ held' = held
        /\ \E p \in {"check", "lock"} : Goto(Worker, p)
    BY <1>15 DEF Pop, poolVars
  <2> QED BY <1>0, <2>1, OneGoes DEF Allowed
<1>16. ASSUME Signal PROVE HeldInv'
  BY <1>0, <1>16, OneGoes DEF Signal, poolVars, Allowed
<1>17. ASSUME JoinIO PROVE HeldInv'
  BY <1>0, <1>17, OneGoes DEF JoinIO, poolVars, Allowed
<1>18. ASSUME Kick PROVE HeldInv'
  <2>1. /\ pc[Main] = "kick" /\ held' = held
        /\ \E p \in {"acquire", "leave"} : Goto(Main, p)
    BY <1>18 DEF Kick, poolVars
  <2> QED BY <1>0, <2>1, OneGoes DEF Allowed
<1>19. ASSUME Leave PROVE HeldInv'
  <2>1. PICK s \in held[Main] : held'[Main] = held[Main] \ {s}
    BY <1>19, GiveBackMoves DEF Leave
  <2>2. \A u \in Users \ {Main} : pc'[u] = pc[u] /\ held'[u] = held[u]
    BY <1>19, GiveBackMoves DEF Leave, Goto, TypeOK
  <2>3. pc[Main] = "leave" /\ pc'[Main] = "stop"
    BY <1>19 DEF Leave, Goto, TypeOK
  <2>4. AtMostOne(held[Main])
    BY <1>0, <2>3 DEF Allowed
  <2>5. Allowed(Main, pc'[Main], held'[Main])
    BY <2>1, <2>3, <2>4 DEF Allowed, AtMostOne
  <2> QED BY <2>2, <2>5, OneMoves
<1>20. ASSUME Stop PROVE HeldInv'
  BY <1>0, <1>20, OneGoes DEF Stop, poolVars, Allowed
<1>21. ASSUME Notify PROVE HeldInv'
  <2>1. /\ pc[Main] = "notify" /\ held' = held
        /\ \A u \in IOThreads : pc'[u] = pc[u]
        /\ pc'[Main] = "join"
        /\ pc'[Worker] = pc[Worker] \/ (pc[Worker] = "asleep" /\ pc'[Worker] = "lock")
    BY <1>21 DEF Notify, TypeOK, poolVars
  <2> QED BY <2>1 DEF HeldInv
<1>22. ASSUME Join PROVE HeldInv'
  BY <1>0, <1>22, OneGoes DEF Join, poolVars, Allowed
<1> QED
  BY StepIs, <1>1, <1>2, <1>3, <1>4, <1>5, <1>6, <1>7, <1>8, <1>9, <1>10, <1>11,
     <1>12, <1>13, <1>14, <1>15, <1>16, <1>17, <1>18, <1>19, <1>20, <1>21, <1>22

LEMMA NextAccounts == TypeOK /\ StubsAccounted /\ [Next]_vars => StubsAccounted'
<1> SUFFICES ASSUME TypeOK, StubsAccounted, [Next]_vars PROVE StubsAccounted'
  OBVIOUS
<1>1. PoolTypeOK
  BY DEF TypeOK
<1>2. CASE \E t \in Users : Take(t) \/ Sleep(t) \/ GiveBack(t)
  BY <1>1, <1>2, PoolStepsAccount
<1>3. CASE UNCHANGED poolVars
  BY <1>3 DEF poolVars, StubsAccounted
<1>4. UNCHANGED poolVars \/ \E t \in Users : Take(t) \/ Sleep(t) \/ GiveBack(t)
  BY StepIs
  DEF vars, TakeStub, WaitForStub, GiveBackInner, Read, Commit, Purge, Finish, Lock,
      Check, FallAsleep, Execute, Call, Return, Pop, Signal, JoinIO, Kick, Leave,
      Stop, Notify, Join
<1> QED BY <1>2, <1>3, <1>4

-----------------------------------------------------------------------------
(* Wake-ups                                                                *)

\* Whoever sleeps on the pool's condition variable is inside acquire.
SleepersInv == \A t \in asleep : pc[t] = "acquire"

LEMMA UsersFinite == IsFiniteSet(Users)
<1>1. IsFiniteSet(IOThreads \cup {Worker})
  BY FixedPools, FS_AddElement
<1>2. IsFiniteSet((IOThreads \cup {Worker}) \cup {Main})
  BY <1>1, FS_AddElement
<1>3. Users = (IOThreads \cup {Worker}) \cup {Main}
  OBVIOUS
<1> QED BY <1>2, <1>3

LEMMA IdleCounts ==
  ASSUME PoolTypeOK
  PROVE  IsFiniteSet(idle) /\ Cardinality(idle) \in Nat
<1>1. idle \in SUBSET Stubs
  BY DEF PoolTypeOK
<1> QED BY <1>1, FixedPools, FS_Subset, FS_CardinalityType

LEMMA ContendersCount == IsFiniteSet(Contenders) /\ Cardinality(Contenders) \in Nat
<1>1. Contenders \in SUBSET Users
  BY DEF Contenders
<1> QED BY <1>1, UsersFinite, FS_Subset, FS_CardinalityType

LEMMA ContendersCountNext ==
  IsFiniteSet(Contenders') /\ Cardinality(Contenders') \in Nat
<1>1. Contenders' \in SUBSET Users
  BY DEF Contenders
<1> QED BY <1>1, UsersFinite, FS_Subset, FS_CardinalityType

\* A step that leaves the pool alone and takes nobody out of acquire.
LEMMA WakeFrame ==
  ASSUME PoolTypeOK, SleepersInv, WakeupsSuffice, UNCHANGED poolVars,
         \A t \in Users : pc[t] = "acquire" => pc'[t] = "acquire"
  PROVE  SleepersInv' /\ WakeupsSuffice'
<1>1. Contenders \in SUBSET Contenders'
  BY DEF Contenders, poolVars
<1>2. Cardinality(Contenders) <= Cardinality(Contenders')
  BY <1>1, ContendersCountNext, FS_Subset
<1>3. WakeupsSuffice'
  BY <1>2, IdleCounts, ContendersCount, ContendersCountNext
  DEF WakeupsSuffice, poolVars
<1> QED BY <1>3 DEF SleepersInv, poolVars, PoolTypeOK

\* release wakes a sleeper, if there is one, for the stub it pushes.
LEMMA WakeOnGiveBack ==
  ASSUME PoolTypeOK, SleepersInv, WakeupsSuffice, NEW t \in Users, GiveBack(t),
         pc[t] # "acquire", \A u \in Users \ {t} : pc'[u] = pc[u]
  PROVE  SleepersInv' /\ WakeupsSuffice'
<1>1. PICK s \in held[t] : /\ idle' = idle \cup {s}
                           /\ \/ asleep = {} /\ UNCHANGED asleep
                              \/ \E u \in asleep : asleep' = asleep \ {u}
  BY DEF GiveBack
<1>2. CASE asleep = {} /\ UNCHANGED asleep
  BY <1>2 DEF SleepersInv, WakeupsSuffice
<1>3. ASSUME NEW u \in asleep, asleep' = asleep \ {u}
      PROVE  SleepersInv' /\ WakeupsSuffice'
  <2>1. u \in Users \ {t} /\ pc[u] = "acquire" /\ t \notin asleep
    BY <1>3 DEF SleepersInv, PoolTypeOK
  <2>2. SleepersInv'
    BY <1>3, <2>1 DEF SleepersInv, PoolTypeOK
  <2>3. u \notin Contenders /\ Contenders \cup {u} \in SUBSET Contenders'
    BY <1>3, <2>1 DEF Contenders
  <2>4. Cardinality(Contenders \cup {u}) = Cardinality(Contenders) + 1
    BY <2>3, ContendersCount, FS_AddElement
  <2>5. Cardinality(Contenders \cup {u}) <= Cardinality(Contenders')
    BY <2>3, ContendersCountNext, FS_Subset
  <2>6. Cardinality(idle') <= Cardinality(idle) + 1 /\ Cardinality(idle') \in Nat
    <3>1. Cardinality(idle') = IF s \in idle THEN Cardinality(idle)
                               ELSE Cardinality(idle) + 1
      BY <1>1, IdleCounts, FS_AddElement
    <3> QED BY <3>1, IdleCounts
  <2>7. Cardinality(idle) <= Cardinality(Contenders)
    BY <1>3 DEF WakeupsSuffice
  <2>8. Cardinality(idle') <= Cardinality(Contenders')
    BY <2>4, <2>5, <2>6, <2>7, IdleCounts, ContendersCount, ContendersCountNext
  <2> QED BY <2>2, <2>8 DEF WakeupsSuffice
<1> QED BY <1>1, <1>2, <1>3

\* A thread that takes a stub was a contender for it.
LEMMA WakeOnTake ==
  ASSUME PoolTypeOK, SleepersInv, WakeupsSuffice, NEW t \in Users, Take(t),
         pc[t] = "acquire", t \notin asleep, \A u \in Users \ {t} : pc'[u] = pc[u]
  PROVE  SleepersInv' /\ WakeupsSuffice'
<1>1. PICK s \in idle : idle' = idle \ {s} /\ asleep' = asleep
  BY DEF Take
<1>2. SleepersInv'
  BY <1>1 DEF SleepersInv, PoolTypeOK
<1>3. t \in Contenders /\ Contenders \ {t} \in SUBSET Contenders'
  BY <1>1 DEF Contenders
<1>4. Cardinality(Contenders \ {t}) = Cardinality(Contenders) - 1
  BY <1>3, ContendersCount, FS_RemoveElement
<1>5. Cardinality(Contenders \ {t}) <= Cardinality(Contenders')
  BY <1>3, ContendersCountNext, FS_Subset
<1>6. Cardinality(idle') = Cardinality(idle) - 1
  BY <1>1, IdleCounts, FS_RemoveElement
<1> QED
  BY <1>1, <1>2, <1>4, <1>5, <1>6, IdleCounts, ContendersCount,
     ContendersCountNext DEF WakeupsSuffice

LEMMA NextWakeups ==
  TypeOK /\ SleepersInv /\ WakeupsSuffice /\ [Next]_vars
    => (SleepersInv /\ WakeupsSuffice)'
<1> SUFFICES ASSUME TypeOK, SleepersInv, WakeupsSuffice, [Next]_vars
             PROVE  SleepersInv' /\ WakeupsSuffice'
  OBVIOUS
<1>0. PoolTypeOK /\ pc \in [Users -> Places]
  BY DEF TypeOK
<1> USE <1>0 DEF Goto
<1>1. CASE UNCHANGED vars
  BY <1>1, WakeFrame DEF vars
<1>2. ASSUME NEW t \in Users, TakeStub(t) PROVE SleepersInv' /\ WakeupsSuffice'
  BY <1>2, WakeOnTake DEF TakeStub
<1>3. ASSUME NEW t \in Users, WaitForStub(t) PROVE SleepersInv' /\ WakeupsSuffice'
  <2>1. Cardinality(idle') = 0 /\ pc' = pc /\ asleep' = asleep \cup {t}
    BY <1>3, FS_EmptySet DEF WaitForStub, Sleep
  <2> QED
    BY <1>3, <2>1, ContendersCountNext DEF WaitForStub, SleepersInv, WakeupsSuffice
<1>4. ASSUME NEW t \in {Worker, Main}, GiveBackInner(t)
      PROVE  SleepersInv' /\ WakeupsSuffice'
  BY <1>4, WakeOnGiveBack DEF GiveBackInner
<1>5. ASSUME NEW t \in IOThreads, Finish(t) PROVE SleepersInv' /\ WakeupsSuffice'
  BY <1>5, WakeOnGiveBack DEF Finish
<1>6. ASSUME Return PROVE SleepersInv' /\ WakeupsSuffice'
  BY <1>6, WakeOnGiveBack, WakeFrame DEF Return
<1>7. ASSUME Leave PROVE SleepersInv' /\ WakeupsSuffice'
  BY <1>7, WakeOnGiveBack DEF Leave
<1>8. ASSUME NEW t \in IOThreads, NEW r \in Requests, Read(t, r)
      PROVE  SleepersInv' /\ WakeupsSuffice'
  BY <1>8, WakeFrame DEF Read
<1>9. ASSUME NEW t \in IOThreads, Commit(t) \/ Purge(t)
      PROVE  SleepersInv' /\ WakeupsSuffice'
  BY <1>9, WakeFrame DEF Commit, Purge
<1>10. CASE Lock \/ Check \/ FallAsleep
  BY <1>10, WakeFrame DEF Lock, Check, FallAsleep
<1>11. CASE Execute \/ Call \/ Pop
  BY <1>11, WakeFrame DEF Execute, Call, Pop
<1>12. CASE Signal \/ JoinIO \/ Kick
  BY <1>12, WakeFrame DEF Signal, JoinIO, Kick
<1>13. CASE Stop \/ Notify \/ Join
  BY <1>13, WakeFrame DEF Stop, Notify, Join
<1> QED
  BY StepIs, <1>1, <1>2, <1>3, <1>4, <1>5, <1>6, <1>7, <1>8, <1>9, <1>10, <1>11,
     <1>12, <1>13

-----------------------------------------------------------------------------
(* The theorems                                                            *)

IInv ==
  TypeOK /\ Control /\ StubsAccounted /\ HeldInv /\ SleepersInv /\ WakeupsSuffice

LEMMA InitIInv == Init => IInv
<1>1. ASSUME Init PROVE StubsAccounted
  <2>1. PICK s \in Stubs : /\ idle = Stubs \ {s}
                           /\ held = [t \in Users |-> IF t = Main THEN {s} ELSE {}]
    BY <1>1 DEF Init
  <2>2. held[Main] = {s} /\ \A t \in Users \ {Main} : held[t] = {}
    BY <2>1
  <2>3. Accounted
    BY <2>1, <2>2 DEF Accounted
  <2> QED BY <2>1, <2>2, <2>3, AccountedIsUnion
<1>2. ASSUME Init PROVE SleepersInv /\ WakeupsSuffice
  BY <1>2 DEF Init, SleepersInv, WakeupsSuffice
<1> QED BY <1>1, <1>2, InitType, InitControl, InitHeld DEF IInv

LEMMA NextIInv == IInv /\ [Next]_vars => IInv'
BY NextType, NextControl, NextAccounts, NextHeld, NextWakeups DEF IInv, Control

LEMMA Inductive == Spec => []IInv
BY InitIInv, NextIInv, PTL DEF Spec

\* Every variable keeps its type, and the queue never has more than one request
\* over ChattingServerQueueSize, however many io threads commit at once.
THEOREM TypeCorrect == Spec => []TypeOK
<1>1. IInv => TypeOK
  BY DEF IInv
<1> QED BY <1>1, Inductive, PTL

\* ConnectionRAII loses no stub and hands none out twice, whichever threads take
\* and give back and in whatever order they sleep and are woken.
THEOREM PoolIsExact == Spec => []StubsAccounted
<1>1. IInv => StubsAccounted
  BY DEF IInv
<1> QED BY <1>1, Inductive, PTL

\* The worker is never asleep in m_cv.wait with a request in the queue: commit
\* wakes it, and cannot come between its test of the predicate and its sleep.
THEOREM WorkerWakes == Spec => []NoSleepOnWork
<1>1. IInv => NoSleepOnWork
  BY DEF IInv, Control, MutexInv, NoSleepOnWork
<1> QED BY <1>1, Inductive, PTL

\* When the worker has ended the queue is empty: shutdown drops no request, and
\* no io thread is left to commit another.
THEOREM Drained == Spec => []DrainedAtExit
<1>1. IInv => DrainedAtExit
  BY DEF IInv, Control, MutexInv, DrainedAtExit
<1> QED BY <1>1, Inductive, PTL

\* The worker and main may each wait for a connection with another in their hand,
\* the io threads never do: a third stub is always with somebody who gives it back.
THEOREM NoHoldAndWait ==
  ASSUME NEW a \in Stubs, NEW b \in Stubs, NEW c \in Stubs, a # b, a # c, b # c
  PROVE  Spec => []SomebodyWillRelease
<1>1. ASSUME IInv, idle = {}
      PROVE  \E t \in Users : held[t] # {} /\ pc[t] \in {"using", "handler"}
  <2>1. SUFFICES ASSUME \A t \in Users : held[t] = {} \/ pc[t] \notin {"using", "handler"}
                 PROVE  FALSE
    OBVIOUS
  <2>2. \A s \in Stubs : \E t \in Users : s \in held[t]
    BY <1>1 DEF IInv, StubsAccounted
  <2>3. \A t \in IOThreads : held[t] = {}
    BY <1>1, <2>1 DEF IInv, HeldInv
  <2>4. held[Worker] = {} \/ AtMostOne(held[Worker])
    BY <1>1, <2>1 DEF IInv, HeldInv
  <2>5. held[Main] = {} \/ AtMostOne(held[Main])
    BY <1>1, <2>1 DEF IInv, HeldInv
  <2>6. PICK x \in Stubs : held[Worker] \subseteq {x}
    BY <2>4 DEF AtMostOne
  <2>7. PICK y \in Stubs : held[Main] \subseteq {y}
    BY <2>5 DEF AtMostOne
  <2>8. Stubs \subseteq {x, y}
    BY <2>2, <2>3, <2>6, <2>7
  <2> QED BY <2>8
<1>2. IInv => SomebodyWillRelease
  BY <1>1 DEF SomebodyWillRelease
<1> QED BY <1>2, Inductive, PTL

\* notify_one wakes one thread per stub and any thread may overtake it: still,
\* while somebody sleeps, every idle stub has somebody awake who will take it, so
\* no thread sleeps on while a connection lies idle.
THEOREM NoWakeupIsLost == Spec => []WakeupsSuffice
<1>1. IInv => WakeupsSuffice
  BY DEF IInv
<1> QED BY <1>1, Inductive, PTL

=============================================================================
