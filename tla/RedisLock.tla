----------------------------- MODULE RedisLock -----------------------------
(***************************************************************************)
(* The distributed lock of RedisContext (RedisContextRAII.cpp, the same     *)
(* file in all four servers): one Redis string per lock name, set with      *)
(* SET NX PX by acquire and deleted by a compare-and-delete script by       *)
(* release.  Nothing renews the lease and nothing checks it at the writes   *)
(* that it is meant to protect.                                            *)
(*                                                                         *)
(* acquire draws a fresh identifier each time.  A thread holds at most one  *)
(* lock at a time and tries again only after its release, which leaves no   *)
(* key with its identifier; so the thread itself stands for the identifier. *)
(***************************************************************************)
CONSTANTS LockNames, \* the <name> of the keys lock:<name>
          Clients,   \* the threads, of any server, that acquire
          NoOne      \* the key does not exist

ASSUME NoOneIsNoClient == NoOne \notin Clients

VARIABLE lock        \* whose identifier each key holds

LockInit == lock = [k \in LockNames |-> NoOne]

\* acquireLock: SET lock:k identifier NX PX lease, when the key is free.
AcquireLock(k, c) ==
  /\ lock[k] = NoOne
  /\ lock' = [lock EXCEPT ![k] = c]

\* Any identifier will do: DEL without the comparison.
ReleaseLock_Unchecked(k, c) == lock' = [lock EXCEPT ![k] = NoOne]

\* releaseLock: if get(k) = identifier then del(k), atomically.
ReleaseLock(k, c) ==
  lock' = IF lock[k] = c THEN [lock EXCEPT ![k] = NoOne] ELSE lock

\* A lease without PX never runs out.
LeaseRunsOut_NoPX(k) == FALSE /\ lock' = lock

\* Redis deletes the key when its lease ends.
LeaseRunsOut(k) ==
  /\ lock[k] # NoOne
  /\ lock' = [lock EXCEPT ![k] = NoOne]

LockTypeOK == lock \in [LockNames -> Clients \cup {NoOne}]
=============================================================================
