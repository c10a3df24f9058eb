--------------------------- MODULE ConnectionPool ---------------------------
(***************************************************************************)
(* ConnectionPool.hpp, the template behind every pool of the servers        *)
(* (Redis, MySQL, gRPC stubs): a queue of stubs under a mutex and a         *)
(* condition variable, and ConnectionRAII, which takes a stub in its        *)
(* constructor and gives it back in its destructor.  Operators for the      *)
(* modules whose threads use a pool; each is one critical section.  Stubs   *)
(* are interchangeable, so the queue is a set.  Nobody is left to meet the  *)
(* pool's own shutdown, which runs when main has returned.                  *)
(***************************************************************************)
CONSTANTS Stubs,    \* the connections made by the pool's constructor
          Users     \* the threads that use the pool

VARIABLES idle,     \* m_stub_queue
          held,     \* the stubs in the handles of each thread
          asleep    \* the threads blocked in m_cv.wait

poolVars == <<idle, held, asleep>>

PoolTypeOK ==
  /\ idle \subseteq Stubs
  /\ held \in [Users -> SUBSET Stubs]
  /\ asleep \subseteq Users

\* acquire, when m_cv.wait finds its predicate true.
Take(t) ==
  \E s \in idle :
    /\ idle' = idle \ {s}
    /\ held' = [held EXCEPT ![t] = @ \cup {s}]
    /\ UNCHANGED asleep

\* acquire, when it finds it false: the mutex is released and t sleeps.
Sleep(t) ==
  /\ idle = {}
  /\ asleep' = asleep \cup {t}
  /\ UNCHANGED <<idle, held>>

\* The stub is pushed and nobody told.
GiveBack_Silently(t) ==
  \E s \in held[t] :
    /\ idle' = idle \cup {s}
    /\ held' = [held EXCEPT ![t] = @ \ {s}]
    /\ UNCHANGED asleep

\* The stub is destroyed with its handle.
GiveBack_Invalidated(t) ==
  \E s \in held[t] :
    /\ held' = [held EXCEPT ![t] = @ \ {s}]
    /\ \/ asleep = {} /\ UNCHANGED asleep
       \/ \E u \in asleep : asleep' = asleep \ {u}
    /\ UNCHANGED idle

\* release: the stub is pushed and notify_one wakes a sleeper.  It takes its
\* stub in a step of its own, and may come too late.
GiveBack(t) ==
  \E s \in held[t] :
    /\ idle' = idle \cup {s}
    /\ held' = [held EXCEPT ![t] = @ \ {s}]
    /\ \/ asleep = {} /\ UNCHANGED asleep
       \/ \E u \in asleep : asleep' = asleep \ {u}
=============================================================================
