------------------------------ MODULE SyncLogic ------------------------------
(***************************************************************************)
(* SyncLogic of the chatting server: the bounded queue io threads commit    *)
(* requests to and the one worker thread that executes them with the        *)
(* queue's mutex held, together with the Redis connections its handlers,    *)
(* the io threads and main take from the pool, and main's shutdown.         *)
(* An action is a critical section, or the code between two of them.        *)
(***************************************************************************)
EXTENDS ConnectionPool, Naturals, Sequences, SequencesExt

CONSTANTS IOThreads,  \* the threads of IOServicePool
          Worker,     \* m_working
          Main,       \* the main thread
          NoOne,      \* m_mtx is free
          Requests,   \* the requests clients send
          Kind,       \* the handler of each
          QueueSize,  \* ChattingServerQueueSize
          MaxPurges   \* bound: connections that break

ASSUME UsersAre == Users = IOThreads \cup {Worker, Main}
ASSUME ThreadsDiffer == Worker # Main /\ {Worker, Main} \cap IOThreads = {}
ASSUME NoOneIsNone == NoOne \notin Users \cup Requests
ASSUME KindType == Kind \in [Requests -> {"login", "logout", "search", "heartbeat"}]
ASSUME QueueSizeNat == QueueSize \in Nat
ASSUME MaxPurgesNat == MaxPurges \in Nat
\* m_queue_size is at least 2, and main takes one.
ASSUME StubsExist == Stubs # {}
\* The constructors of the two pools make a fixed number of threads and stubs.
ASSUME FixedPools == IsFiniteSet(IOThreads) /\ IsFiniteSet(Stubs)

VARIABLES
  mtx,       \* who owns m_mtx
  queue,     \* m_queue
  stop,      \* m_stop
  draining,  \* the worker has seen m_stop
  ioStopped, \* the io_contexts are stopped
  pc,        \* where each thread stands
  hand,      \* the request an io thread has read
  left,      \* the connections a thread is still to take, one after another
  sent,      \* the requests read so far
  purges     \* bound: connections broken so far

queueVars == <<mtx, queue, stop, draining>>
inputVars == <<ioStopped, hand, sent, purges>>
vars == <<poolVars, queueVars, inputVars, pc, left>>

Places == {"idle", "commit", "acquire", "using",                    \* io threads
           "lock", "check", "sleep", "asleep", "execute", "handler",
           "pop", "gone",                                           \* the worker
           "running", "joinIO", "kick", "leave", "stop", "notify", "join"}

Goto(t, p) == pc' = [pc EXCEPT ![t] = p]

\* handlingLogin, like handlingFriendRequestCreator and Confirm and, without
\* more to take, handlingLogout and handlingTextChatMsg, has a RedisRAII of its
\* own for as long as it runs.
TakesOuter(k) == k \in {"login", "logout"}

\* What it takes besides: kick_session's removeRedisCache, getUserBasicInfo,
\* incrementConnection, as far as it gets.
TakesInner(k) ==
  CASE k = "login" -> 0..2
    [] k = "search" -> 0..1
    [] k \in {"logout", "heartbeat"} -> {0}

\* main has the connection it set the counter with.
Init ==
  /\ \E s \in Stubs :
       /\ idle = Stubs \ {s}
       /\ held = [t \in Users |-> IF t = Main THEN {s} ELSE {}]
  /\ asleep = {}
  /\ mtx = NoOne
  /\ queue = <<>>
  /\ stop = FALSE
  /\ draining = FALSE
  /\ ioStopped = FALSE
  /\ pc = [t \in Users |-> CASE t = Worker -> "lock" [] t = Main -> "running"
                             [] OTHER -> "idle"]
  /\ hand = [t \in IOThreads |-> NoOne]
  /\ left = [t \in Users |-> 0]
  /\ sent = {}
  /\ purges = 0

-----------------------------------------------------------------------------
(* Variants of the code that the properties below reject.                  *)

\* The request is queued and the worker not notified.
Commit_Silently(t) ==
  /\ pc[t] = "commit"
  /\ mtx = NoOne
  /\ queue' = IF Len(queue) > QueueSize THEN queue ELSE Append(queue, hand[t])
  /\ Goto(t, "idle")
  /\ hand' = [hand EXCEPT ![t] = NoOne]
  /\ UNCHANGED <<poolVars, mtx, stop, draining, ioStopped, sent, purges, left>>

\* The size of the queue is not looked at.
Commit_Unbounded(t) ==
  /\ pc[t] = "commit"
  /\ mtx = NoOne
  /\ hand' = [hand EXCEPT ![t] = NoOne]
  /\ queue' = Append(queue, hand[t])
  /\ pc' = [pc EXCEPT ![t] = "idle",
                     ![Worker] = IF @ = "asleep" THEN "lock" ELSE @]
  /\ UNCHANGED <<poolVars, mtx, stop, draining, ioStopped, sent, purges, left>>

\* m_stop ends the worker at once.
Check_NoDrain ==
  /\ pc[Worker] = "check"
  /\ draining' = stop
  /\ \/ /\ stop
        /\ mtx' = NoOne
        /\ Goto(Worker, "gone")
     \/ /\ ~stop
        /\ Goto(Worker, IF queue # <<>> THEN "execute" ELSE "sleep")
        /\ UNCHANGED mtx
  /\ UNCHANGED <<poolVars, queue, stop, inputVars, left>>

\* The drained worker goes back to wait.
Check_NoReturn ==
  /\ pc[Worker] = "check"
  /\ draining' = stop
  /\ Goto(Worker, IF queue # <<>> THEN "execute" ELSE "sleep")
  /\ UNCHANGED <<poolVars, mtx, queue, stop, inputVars, left>>

\* The handle of an io thread's first call lives until the second returns.
Finish_KeepFirst(t) ==
  /\ pc[t] = "using"
  /\ t \in IOThreads
  /\ IF left[t] > 0
     THEN Goto(t, "acquire") /\ left' = [left EXCEPT ![t] = @ - 1] /\ UNCHANGED poolVars
     ELSE GiveBack(t) /\ Goto(t, IF Cardinality(held[t]) > 1 THEN "using" ELSE "idle")
                      /\ UNCHANGED left
  /\ UNCHANGED <<queueVars, inputVars>>

-----------------------------------------------------------------------------
(* ConnectionRAII                                                          *)

\* acquire returns a stub, as the worker's outer handle or any other.
TakeStub(t) ==
  /\ pc[t] = "acquire"
  /\ t \notin asleep
  /\ Take(t)
  /\ Goto(t, IF t = Worker /\ held[t] = {} /\ TakesOuter(Kind[Head(queue)])
             THEN "handler" ELSE "using")
  /\ UNCHANGED <<queueVars, inputVars, left>>

WaitForStub(t) ==
  /\ pc[t] = "acquire"
  /\ t \notin asleep
  /\ Sleep(t)
  /\ UNCHANGED <<queueVars, inputVars, pc, left>>

\* The handle a call made goes out of scope.
GiveBackInner(t) ==
  /\ pc[t] = "using"
  /\ t \in {Worker, Main}
  /\ GiveBack(t)
  /\ Goto(t, IF t = Worker THEN "handler" ELSE "kick")
  /\ UNCHANGED <<queueVars, inputVars, left>>

-----------------------------------------------------------------------------
(* The io threads                                                          *)

\* handle_msgbody has a request, which it will commit.
Read(t, r) ==
  /\ ~ioStopped
  /\ pc[t] = "idle"
  /\ r \notin sent
  /\ sent' = sent \cup {r}
  /\ hand' = [hand EXCEPT ![t] = r]
  /\ Goto(t, "commit")
  /\ UNCHANGED <<poolVars, queueVars, ioStopped, purges, left>>

\* commit: a full queue drops the request, otherwise the worker is notified.
Commit(t) ==
  /\ pc[t] = "commit"
  /\ mtx = NoOne
  /\ hand' = [hand EXCEPT ![t] = NoOne]
  /\ \/ /\ Len(queue) > QueueSize
        /\ Goto(t, "idle")
        /\ UNCHANGED queue
     \/ /\ Len(queue) <= QueueSize
        /\ queue' = Append(queue, hand[t])
        /\ pc' = [pc EXCEPT ![t] = "idle",
                           ![Worker] = IF @ = "asleep" THEN "lock" ELSE @]
  /\ UNCHANGED <<poolVars, mtx, stop, draining, ioStopped, sent, purges, left>>

\* purgeRemoveConnection: removeRedisCache, then decrementConnection.
Purge(t) ==
  /\ ~ioStopped
  /\ pc[t] = "idle"
  /\ purges < MaxPurges
  /\ purges' = purges + 1
  /\ left' = [left EXCEPT ![t] = 1]
  /\ Goto(t, "acquire")
  /\ UNCHANGED <<poolVars, queueVars, ioStopped, hand, sent>>

Finish(t) ==
  /\ pc[t] = "using"
  /\ t \in IOThreads
  /\ GiveBack(t)
  /\ \/ /\ left[t] > 0
        /\ left' = [left EXCEPT ![t] = @ - 1]
        /\ Goto(t, "acquire")
     \/ /\ left[t] = 0
        /\ Goto(t, "idle")
        /\ UNCHANGED left
  /\ UNCHANGED <<queueVars, inputVars>>

-----------------------------------------------------------------------------
(* processing                                                              *)

Lock ==
  /\ pc[Worker] = "lock"
  /\ mtx = NoOne
  /\ mtx' = Worker
  /\ Goto(Worker, "check")
  /\ UNCHANGED <<poolVars, queue, stop, draining, inputVars, left>>

\* The predicate of m_cv.wait, and the test of m_stop after it or the next
\* round of the loop that drains the queue.
Check ==
  /\ pc[Worker] = "check"
  /\ draining' = stop
  /\ \/ /\ queue # <<>>
        /\ Goto(Worker, "execute")
        /\ UNCHANGED mtx
     \/ /\ queue = <<>>
        /\ stop
        /\ mtx' = NoOne
        /\ Goto(Worker, "gone")
     \/ /\ queue = <<>>
        /\ ~stop
        /\ Goto(Worker, "sleep")
        /\ UNCHANGED mtx
  /\ UNCHANGED <<poolVars, queue, stop, inputVars, left>>

\* m_cv.wait blocks and lets m_mtx go.
FallAsleep ==
  /\ pc[Worker] = "sleep"
  /\ mtx' = NoOne
  /\ Goto(Worker, "asleep")
  /\ UNCHANGED <<poolVars, queue, stop, draining, inputVars, left>>

\* execute dispatches the front of the queue.
Execute ==
  /\ pc[Worker] = "execute"
  /\ LET k == Kind[Head(queue)] IN
       /\ \E n \in TakesInner(k) : left' = [left EXCEPT ![Worker] = n]
       /\ Goto(Worker, IF TakesOuter(k) THEN "acquire" ELSE "handler")
  /\ UNCHANGED <<poolVars, queueVars, inputVars>>

\* The handler makes a call that takes a connection.
Call ==
  /\ pc[Worker] = "handler"
  /\ left[Worker] > 0
  /\ left' = [left EXCEPT ![Worker] = @ - 1]
  /\ Goto(Worker, "acquire")
  /\ UNCHANGED <<poolVars, queueVars, inputVars>>

\* The handler has answered and returns.
Return ==
  /\ pc[Worker] = "handler"
  /\ left[Worker] = 0
  /\ \/ held[Worker] = {} /\ UNCHANGED poolVars
     \/ GiveBack(Worker)
  /\ Goto(Worker, "pop")
  /\ UNCHANGED <<queueVars, inputVars, left>>

\* m_queue.pop(); the loop that drains the queue keeps the mutex.
Pop ==
  /\ pc[Worker] = "pop"
  /\ queue' = Tail(queue)
  /\ mtx' = IF draining THEN Worker ELSE NoOne
  /\ Goto(Worker, IF draining THEN "check" ELSE "lock")
  /\ UNCHANGED <<poolVars, stop, draining, inputVars, left>>

-----------------------------------------------------------------------------
(* main                                                                    *)

\* SIGINT: service_pool->shutdown stops the io_contexts and joins their threads.
Signal ==
  /\ pc[Main] = "running"
  /\ ioStopped' = TRUE
  /\ Goto(Main, "joinIO")
  /\ UNCHANGED <<poolVars, queueVars, hand, sent, purges, left>>

JoinIO ==
  /\ pc[Main] = "joinIO"
  /\ \A t \in IOThreads : pc[t] = "idle"
  /\ Goto(Main, "kick")
  /\ left' = [left EXCEPT ![Main] = 1]
  /\ UNCHANGED <<poolVars, queueVars, inputVars>>

\* teminate: removeRedisCache of a user who is logged in, or there is none left.
Kick ==
  /\ pc[Main] = "kick"
  /\ \/ /\ left[Main] > 0
        /\ left' = [left EXCEPT ![Main] = @ - 1]
        /\ Goto(Main, "acquire")
     \/ /\ Goto(Main, "leave")
        /\ UNCHANGED left
  /\ UNCHANGED <<poolVars, queueVars, inputVars>>

\* main returns, and its connection goes back to the pool.
Leave ==
  /\ pc[Main] = "leave"
  /\ GiveBack(Main)
  /\ Goto(Main, "stop")
  /\ UNCHANGED <<queueVars, inputVars, left>>

\* SyncLogic::shutdown, in its destructor, does not lock m_mtx.
Stop ==
  /\ pc[Main] = "stop"
  /\ stop' = TRUE
  /\ Goto(Main, "notify")
  /\ UNCHANGED <<poolVars, mtx, queue, draining, inputVars, left>>

Notify ==
  /\ pc[Main] = "notify"
  /\ pc' = [pc EXCEPT ![Main] = "join",
                     ![Worker] = IF @ = "asleep" THEN "lock" ELSE @]
  /\ UNCHANGED <<poolVars, queueVars, inputVars, left>>

Join ==
  /\ pc[Main] = "join"
  /\ pc[Worker] = "gone"
  /\ Goto(Main, "gone")
  /\ UNCHANGED <<poolVars, queueVars, inputVars, left>>

-----------------------------------------------------------------------------

Step(t) == TakeStub(t) \/ WaitForStub(t) \/ GiveBackInner(t)

WorkerStep ==
  Step(Worker) \/ Lock \/ Check \/ FallAsleep \/ Execute \/ Call \/ Return \/ Pop

IOStep(t) == Step(t) \/ Commit(t) \/ Finish(t)

MainStep == Step(Main) \/ JoinIO \/ Kick \/ Leave \/ Stop \/ Notify \/ Join

Next ==
  \/ WorkerStep
  \/ MainStep
  \/ Signal
  \/ \E t \in IOThreads : IOStep(t) \/ Purge(t) \/ \E r \in Requests : Read(t, r)

Spec == Init /\ [][Next]_vars

\* Every thread that has something to do and is not blocked goes on.
FairSpec ==
  /\ Spec
  /\ WF_vars(WorkerStep)
  /\ WF_vars(MainStep)
  /\ \A t \in IOThreads : WF_vars(IOStep(t))

-----------------------------------------------------------------------------
(* Properties                                                              *)

\* With the size of the queue: commit's > lets in one request more than
\* ChattingServerQueueSize.
TypeOK ==
  /\ PoolTypeOK
  /\ mtx \in {NoOne, Worker}
  /\ queue \in Seq(Requests)
  /\ Len(queue) <= QueueSize + 1
  /\ stop \in BOOLEAN
  /\ draining \in BOOLEAN
  /\ ioStopped \in BOOLEAN
  /\ pc \in [Users -> Places]
  /\ hand \in [IOThreads -> Requests \cup {NoOne}]
  /\ left \in [Users -> 0..2]
  /\ sent \subseteq Requests
  /\ purges \in 0..MaxPurges

\* No stub is lost or handed out twice, whoever takes how many.
StubsAccounted ==
  /\ Stubs = idle \cup UNION {held[t] : t \in Users}
  /\ \A t \in Users : held[t] \cap idle = {}
  /\ \A t, u \in Users : t # u => held[t] \cap held[u] = {}

Contenders == {t \in Users : pc[t] = "acquire" /\ t \notin asleep}

\* The pool's notify_one wakes one thread per stub and any thread may overtake
\* it: still, while somebody sleeps, every idle stub has somebody awake to take it.
WakeupsSuffice ==
  asleep # {} => Cardinality(idle) <= Cardinality(Contenders)

\* Threads that have a connection and want another do not use up the pool: if
\* nothing is idle, somebody will give back without waiting.
SomebodyWillRelease ==
  idle = {} => \E t \in Users : held[t] # {} /\ pc[t] \in {"using", "handler"}

\* The worker does not sleep on a request.
NoSleepOnWork == pc[Worker] = "asleep" => queue = <<>>

\* SyncLogic.cpp:289, "take care of the rest of the tasks": the worker leaves
\* no request behind when it ends.
DrainedAtExit == pc[Worker] = "gone" => queue = <<>>

\* Every request that commit accepts is answered, whatever holds the worker up.
AcceptedIsAnswered ==
  \A r \in Requests : r \in ToSet(queue) ~> r \notin ToSet(queue)

\* main gets past the join of the worker, unless m_stop and its notification
\* fell between the worker's test of the predicate and its sleep.
ShutdownReturns ==
  pc[Main] = "join" /\ pc[Worker] \notin {"sleep", "asleep"} ~> pc[Main] = "gone"
=============================================================================
