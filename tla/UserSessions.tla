---------------------------- MODULE UserSessions ----------------------------
(***************************************************************************)
(* Where one user is logged in: the two Redis keys uuid_<U> and session_<U>, *)
(* which every chatting server reads and writes under the lock named after  *)
(* the user, and the two maps of each server's UserManager.  The threads    *)
(* are the SyncLogic worker of each server (handlingLogin, handlingLogout), *)
(* the io thread of each session (purgeRemoveConnection) and the heart beat *)
(* timer of each server.  An action is one Redis command, one operation on  *)
(* a concurrent map or one gRPC call's access to a map.                     *)
(***************************************************************************)
EXTENDS RedisLock, Naturals

CONSTANTS User,       \* the one user; the lock is lock:<User>
          Servers,    \* the chatting servers
          Workers,    \* the SyncLogic thread of each server
          Timers,     \* the heart beat timer of each server
          Sessions,   \* the connections, each also its own io thread
          Sites,      \* which server each of them can be on
          MaxRequests, \* bound: logins and logouts ever sent
          MaxFaults    \* bound: failed reads and writes, time-outs and lapses

ASSUME LockOfUser == LockNames = {User}
ASSUME ThreadsAre == Clients = Workers \cup Timers \cup Sessions
ASSUME KindsDisjoint == /\ Workers \cap Timers = {}
                        /\ Sessions \cap (Workers \cup Timers) = {}
ASSUME SitesType == Sites \subseteq [Clients -> Servers]
ASSUME OneWorker ==
  \A f \in Sites : \A v, w \in Workers : f[v] = f[w] => v = w
ASSUME NoOneIsNoServer == NoOne \notin Servers
ASSUME MaxRequestsNat == MaxRequests \in Nat
ASSUME MaxFaultsNat == MaxFaults \in Nat

VARIABLES
  site,     \* the server of each thread and session
  loc,      \* GET uuid_<U>: the user's server
  sid,      \* GET session_<U>: the user's session
  active,   \* m_uuid2Session[U] of each server
  waiting,  \* m_waitingToBeClosed[U] of each server
  bound,    \* the sessions whose s_uuid is set
  marked,   \* the sessions given a deferred termination
  closed,   \* the sessions closed by the server
  alive,    \* the directions each connection still works in
  pending,  \* the request of each session in SyncLogic's queue
  requests, \* bound: requests sent
  faults,   \* bound: failures so far
  logins,   \* how often each session was handled a login
  pc,       \* where each thread stands
  job,      \* what it is doing
  on,       \* the session it does it for
  peer,     \* the server a login read in uuid_<U>
  old,      \* the session it found registered there
  skipped,  \* history: an acquire of the lock or a gRPC call failed
  lapsed    \* history: the lease ran out under a holder

redisVars == <<lock, loc, sid>>
mapVars == <<active, waiting>>
sessionVars == <<site, bound, marked, closed, alive>>
queueVars == <<pending, requests, logins>>
histVars == <<faults, skipped, lapsed>>
threadVars == <<job, on, peer, old>>
vars == <<redisVars, mapVars, sessionVars, queueVars, threadVars, pc, histVars>>

Jobs == {"login", "kick", "logout", "purge", "heartbeat"}
\* Where a thread stands while it has the lock.
Holding == {"look", "find", "takeover", "arm", "force", "labelUser",
            "labelSession", "compare", "forgetLoc", "forgetSid", "release"}
Places == Holding \cup {"idle", "acquire", "bind", "create", "move", "mark"}

Goto(t, p) == pc' = [pc EXCEPT ![t] = p]

\* The handler returns, and its locals are gone.
Return(t) ==
  /\ Goto(t, "idle")
  /\ job' = [job EXCEPT ![t] = "purge"]
  /\ on' = [on EXCEPT ![t] = NoOne]
  /\ peer' = [peer EXCEPT ![t] = NoOne]
  /\ old' = [old EXCEPT ![t] = NoOne]

Init ==
  /\ LockInit
  /\ site \in Sites
  /\ loc = NoOne
  /\ sid = NoOne
  /\ active = [s \in Servers |-> NoOne]
  /\ waiting = [s \in Servers |-> NoOne]
  /\ bound = {}
  /\ marked = {}
  /\ closed = {}
  /\ alive = [c \in Sessions |-> {"read", "write"}]
  /\ pending = [c \in Sessions |-> "none"]
  /\ requests = 0
  /\ faults = 0
  /\ logins = [c \in Sessions |-> 0]
  /\ pc = [t \in Clients |-> "idle"]
  /\ job = [t \in Clients |-> "purge"]
  /\ on = [t \in Clients |-> NoOne]
  /\ peer = [t \in Clients |-> NoOne]
  /\ old = [t \in Clients |-> NoOne]
  /\ skipped = FALSE
  /\ lapsed = FALSE

-----------------------------------------------------------------------------
(* Variants of the code that the properties below reject.                  *)

\* The session id is not compared.
Compare_Unchecked(t) ==
  /\ pc[t] = "compare"
  /\ Goto(t, IF loc # NoOne /\ sid # NoOne THEN "forgetLoc" ELSE "release")
  /\ UNCHANGED <<redisVars, mapVars, sessionVars, queueVars, threadVars, histVars>>

\* The test is inverted.
Compare_Inverted(t) ==
  /\ pc[t] = "compare"
  /\ Goto(t, IF loc # NoOne /\ sid # on[t] THEN "forgetLoc" ELSE "release")
  /\ UNCHANGED <<redisVars, mapVars, sessionVars, queueVars, threadVars, histVars>>

\* The entry is copied to the waiting sessions and not erased.
MoveToZone_NoErase(s) ==
  /\ waiting' = IF active[s] = NoOne THEN waiting
                ELSE [waiting EXCEPT ![s] = active[s]]
  /\ UNCHANGED active

\* Only the first key is written under the lock.
LabelCurrentUser_ReleaseEarly(w) ==
  /\ pc[w] = "labelUser"
  /\ loc' = site[w]
  /\ ReleaseLock(User, w)
  /\ Goto(w, "labelSession")
  /\ UNCHANGED <<sid, mapVars, sessionVars, queueVars, threadVars, histVars>>

\* Both labels are given the server's name.
LabelUserSessionID_Server(w) ==
  /\ pc[w] = "labelSession"
  /\ sid' = site[w]
  /\ Goto(w, "release")
  /\ UNCHANGED <<lock, loc, mapVars, sessionVars, queueVars, threadVars, histVars>>

-----------------------------------------------------------------------------
(* Helpers                                                                 *)

\* moveUserToTerminationZone, on server s.
MoveToZone(s) ==
  IF active[s] = NoOne THEN UNCHANGED mapVars
  ELSE /\ waiting' = [waiting EXCEPT ![s] = active[s]]
       /\ active' = [active EXCEPT ![s] = NoOne]

\* removeUsrSession on server s, for whatever session waits there.
MarkAny(s) ==
  marked' = IF waiting[s] = NoOne THEN marked ELSE marked \cup {waiting[s]}

\* removeUsrSession on server s with the expected session id.
MarkExpected(s, c) ==
  marked' = IF waiting[s] = c THEN marked \cup {c} ELSE marked

\* The call that follows removeRedisCache, whether or not it got the lock.
AfterForget(t) == IF job[t] = "purge" THEN "mark" ELSE "move"

-----------------------------------------------------------------------------
(* Requests                                                                *)

\* The client sends a login or a logout, and the read handler commits it.
Send(c, r) ==
  /\ "read" \in alive[c]
  /\ c \notin closed
  /\ pending[c] = "none"
  /\ requests < MaxRequests
  /\ requests' = requests + 1
  /\ pending' = [pending EXCEPT ![c] = r]
  /\ UNCHANGED <<redisVars, mapVars, sessionVars, logins, threadVars, pc, histVars>>

Begin(t, j, c) ==
  /\ pc[t] = "idle"
  /\ job' = [job EXCEPT ![t] = j]
  /\ on' = [on EXCEPT ![t] = c]
  /\ peer' = [peer EXCEPT ![t] = NoOne]
  /\ old' = [old EXCEPT ![t] = NoOne]

\* handlingLogin up to updateRedisCache: a session that has logged in before,
\* on a server where the user is registered, is kicked.
HandleLogin(w, c) ==
  /\ site[w] = site[c]
  /\ pending[c] = "login"
  /\ Begin(w, IF c \in bound /\ active[site[w]] # NoOne THEN "kick" ELSE "login", c)
  /\ Goto(w, "acquire")
  /\ pending' = [pending EXCEPT ![c] = "none"]
  /\ logins' = [logins EXCEPT ![c] = @ + 1]
  /\ UNCHANGED <<redisVars, mapVars, sessionVars, requests, histVars>>

\* handlingLogout up to moveUserToTerminationZone.
HandleLogout(w, c) ==
  /\ site[w] = site[c]
  /\ pending[c] = "logout"
  /\ Begin(w, "logout", c)
  /\ Goto(w, "move")
  /\ pending' = [pending EXCEPT ![c] = "none"]
  /\ UNCHANGED <<redisVars, mapVars, sessionVars, requests, logins, histVars>>

\* The balance server does not know the token: the request is answered with an
\* error.
Refuse(w, c) ==
  /\ site[w] = site[c]
  /\ pc[w] = "idle"
  /\ pending[c] # "none"
  /\ pending[c] = "login" => ~(c \in bound /\ active[site[w]] # NoOne)
  /\ pending' = [pending EXCEPT ![c] = "none"]
  /\ UNCHANGED <<redisVars, mapVars, sessionVars, requests, logins, threadVars, pc,
                 histVars>>

Fault ==
  /\ faults < MaxFaults
  /\ faults' = faults + 1

\* A read or a write of session c fails: purgeRemoveConnection.  As long as the
\* session has no uuid, removeRedisCache does nothing.
Break(c, d) ==
  /\ d \in alive[c]
  /\ Fault
  /\ alive' = [alive EXCEPT ![c] = @ \ {d}]
  /\ Begin(c, "purge", c)
  /\ Goto(c, IF c \in bound THEN "acquire" ELSE "mark")
  /\ UNCHANGED <<redisVars, mapVars, site, bound, marked, closed, queueVars, skipped, lapsed>>

\* heartBeatEvent finds the registered session timed out.
HeartBeat(t) ==
  /\ active[site[t]] # NoOne
  /\ Fault
  /\ Begin(t, "heartbeat", active[site[t]])
  /\ Goto(t, "acquire")
  /\ UNCHANGED <<redisVars, mapVars, sessionVars, queueVars, skipped, lapsed>>

-----------------------------------------------------------------------------
(* updateRedisCache and removeRedisCache                                   *)

Acquire(t) ==
  /\ pc[t] = "acquire"
  /\ AcquireLock(User, t)
  /\ Goto(t, IF job[t] = "login" THEN "look" ELSE "compare")
  /\ UNCHANGED <<loc, sid, mapVars, sessionVars, queueVars, threadVars, histVars>>

\* The lock was taken at every try: a login goes on all the same, unlabelled.
GiveUp(t) ==
  /\ pc[t] = "acquire"
  /\ lock[User] # NoOne
  /\ Goto(t, IF job[t] = "login" THEN "bind" ELSE AfterForget(t))
  /\ skipped' = TRUE
  /\ UNCHANGED <<redisVars, mapVars, sessionVars, queueVars, threadVars, faults, lapsed>>

\* checkCurrentUser: is the user on some server?
Look(w) ==
  /\ pc[w] = "look"
  /\ peer' = [peer EXCEPT ![w] = loc]
  /\ Goto(w, IF loc = NoOne THEN "labelUser" ELSE "find")
  /\ UNCHANGED <<redisVars, mapVars, sessionVars, queueVars, job, on, old, histVars>>

\* getSession on that server: in updateRedisCache when it is this one, in
\* ForceTerminateLoginedUser when it is another.
Find(w) ==
  /\ pc[w] = "find"
  /\ old' = [old EXCEPT ![w] = active[peer[w]]]
  /\ Goto(w, IF active[peer[w]] = NoOne THEN "labelUser"
             ELSE IF peer[w] = site[w] THEN "takeover" ELSE "force")
  /\ UNCHANGED <<redisVars, mapVars, sessionVars, queueVars, job, on, peer, histVars>>

\* The user is on this server: the old session is moved and armed.
Takeover(w) ==
  /\ pc[w] = "takeover"
  /\ MoveToZone(site[w])
  /\ Goto(w, "arm")
  /\ UNCHANGED <<redisVars, sessionVars, queueVars, threadVars, histVars>>

ArmOld(w) ==
  /\ pc[w] = "arm"
  /\ MarkExpected(site[w], old[w])
  /\ Goto(w, "labelUser")
  /\ UNCHANGED <<redisVars, mapVars, site, bound, closed, alive, queueVars, threadVars,
                 histVars>>

\* The user is on another server: after its getSession ForceTerminateLoginedUser
\* is terminateAndRemoveFromServer there and nothing else.
ForceTerminateLoginedUser(w) ==
  /\ pc[w] = "force"
  /\ MarkExpected(peer[w], old[w])
  /\ Goto(w, "labelUser")
  /\ UNCHANGED <<redisVars, mapVars, site, bound, closed, alive, queueVars, threadVars,
                 histVars>>

\* The other server is not in the list of peers or does not answer: the keys
\* are left alone, and the login goes on.
ForceFails(w) ==
  /\ pc[w] = "find"
  /\ peer[w] # site[w]
  /\ Goto(w, "release")
  /\ skipped' = TRUE
  /\ UNCHANGED <<redisVars, mapVars, sessionVars, queueVars, threadVars, faults, lapsed>>

\* labelCurrentUser, then labelUserSessionID.  Each is a DEL and a SET of one
\* key, and who reads it in between does so without the lock.
LabelCurrentUser(w) ==
  /\ pc[w] = "labelUser"
  /\ loc' = site[w]
  /\ Goto(w, "labelSession")
  /\ UNCHANGED <<lock, sid, mapVars, sessionVars, queueVars, threadVars, histVars>>

LabelUserSessionID(w) ==
  /\ pc[w] = "labelSession"
  /\ sid' = on[w]
  /\ Goto(w, "release")
  /\ UNCHANGED <<lock, loc, mapVars, sessionVars, queueVars, threadVars, histVars>>

\* removeRedisCache: the two GETs and the comparison.
Compare(t) ==
  /\ pc[t] = "compare"
  /\ Goto(t, IF loc # NoOne /\ sid = on[t] THEN "forgetLoc" ELSE "release")
  /\ UNCHANGED <<redisVars, mapVars, sessionVars, queueVars, threadVars, histVars>>

ForgetLoc(t) ==
  /\ pc[t] = "forgetLoc"
  /\ loc' = NoOne
  /\ Goto(t, "forgetSid")
  /\ UNCHANGED <<lock, sid, mapVars, sessionVars, queueVars, threadVars, histVars>>

ForgetSid(t) ==
  /\ pc[t] = "forgetSid"
  /\ sid' = NoOne
  /\ Goto(t, "release")
  /\ UNCHANGED <<lock, loc, mapVars, sessionVars, queueVars, threadVars, histVars>>

Release(t) ==
  /\ pc[t] = "release"
  /\ ReleaseLock(User, t)
  /\ Goto(t, IF job[t] = "login" THEN "bind" ELSE AfterForget(t))
  /\ UNCHANGED <<loc, sid, mapVars, sessionVars, queueVars, threadVars, histVars>>

Expire ==
  /\ LeaseRunsOut(User)
  /\ Fault
  /\ lapsed' = (lapsed \/ pc[lock[User]] \in Holding \ {"release"})
  /\ UNCHANGED <<loc, sid, mapVars, sessionVars, queueVars, threadVars, pc, skipped>>

-----------------------------------------------------------------------------
(* The server's own maps                                                   *)

\* setUUID.
Bind(w) ==
  /\ pc[w] = "bind"
  /\ bound' = bound \cup {on[w]}
  /\ Goto(w, "create")
  /\ UNCHANGED <<redisVars, mapVars, site, marked, closed, alive, queueVars, threadVars,
                 histVars>>

\* createUserSession: an insert, which keeps an entry that is there.  If
\* getUserBasicInfo then finds nothing the session is kicked.
CreateUserSession(w) ==
  /\ pc[w] = "create"
  /\ active' = IF active[site[w]] = NoOne THEN [active EXCEPT ![site[w]] = on[w]]
               ELSE active
  /\ \/ Return(w)
     \/ /\ Goto(w, "acquire")
        /\ job' = [job EXCEPT ![w] = "kick"]
        /\ UNCHANGED <<on, peer, old>>
  /\ UNCHANGED <<redisVars, waiting, sessionVars, queueVars, histVars>>

MoveUserToTerminationZone(t) ==
  /\ pc[t] = "move"
  /\ MoveToZone(site[t])
  /\ Goto(t, "mark")
  /\ UNCHANGED <<redisVars, sessionVars, queueVars, threadVars, histVars>>

\* A logout expects its own session in the zone; the others do not look, and a
\* session without an uuid finds nothing.
RemoveUsrSession(t) ==
  /\ pc[t] = "mark"
  /\ CASE job[t] = "logout" -> MarkExpected(site[t], on[t])
       [] job[t] = "purge" /\ t \notin bound -> UNCHANGED marked
       [] OTHER -> MarkAny(site[t])
  /\ Return(t)
  /\ UNCHANGED <<redisVars, mapVars, site, bound, closed, alive, queueVars, histVars>>

\* A send on an armed session closes it (module SessionSend) and erases the
\* user from the zone, whichever session waits there.
Close(c) ==
  /\ c \in marked \ closed
  /\ closed' = closed \cup {c}
  /\ waiting' = [waiting EXCEPT ![site[c]] = NoOne]
  /\ UNCHANGED <<redisVars, active, site, bound, marked, alive, queueVars, threadVars, pc,
                 histVars>>

Step(t) ==
  \/ Acquire(t) \/ GiveUp(t) \/ Look(t) \/ Find(t) \/ Takeover(t) \/ ArmOld(t)
  \/ ForceTerminateLoginedUser(t) \/ ForceFails(t)
  \/ LabelCurrentUser(t) \/ LabelUserSessionID(t)
  \/ Compare(t) \/ ForgetLoc(t) \/ ForgetSid(t) \/ Release(t)
  \/ Bind(t) \/ CreateUserSession(t)
  \/ MoveUserToTerminationZone(t) \/ RemoveUsrSession(t)

Next ==
  \/ \E c \in Sessions, r \in {"login", "logout"} : Send(c, r)
  \/ \E c \in Sessions, d \in {"read", "write"} : Break(c, d)
  \/ \E w \in Workers, c \in Sessions :
       HandleLogin(w, c) \/ HandleLogout(w, c) \/ Refuse(w, c)
  \/ \E t \in Timers : HeartBeat(t)
  \/ \E c \in Sessions : Close(c)
  \/ \E t \in Clients : Step(t)
  \/ Expire

Spec == Init /\ [][Next]_vars

\* A thread inside a handler goes on.
FairSpec == Spec /\ \A t \in Clients : WF_vars(Step(t))

-----------------------------------------------------------------------------
(* Properties                                                              *)

TypeOK ==
  /\ LockTypeOK
  /\ site \in Sites
  /\ loc \in Servers \cup {NoOne}
  /\ sid \in Sessions \cup {NoOne}
  /\ active \in [Servers -> Sessions \cup {NoOne}]
  /\ waiting \in [Servers -> Sessions \cup {NoOne}]
  /\ bound \subseteq Sessions
  /\ marked \subseteq Sessions
  /\ closed \subseteq marked
  /\ alive \in [Sessions -> SUBSET {"read", "write"}]
  /\ pending \in [Sessions -> {"none", "login", "logout"}]
  /\ requests \in 0..MaxRequests
  /\ faults \in 0..MaxFaults
  /\ logins \in [Sessions -> 0..MaxRequests]
  /\ pc \in [Clients -> Places]
  /\ job \in [Clients -> Jobs]
  /\ on \in [Clients -> Sessions \cup {NoOne}]
  /\ peer \in [Clients -> Servers \cup {NoOne}]
  /\ old \in [Clients -> Sessions \cup {NoOne}]
  /\ skipped \in BOOLEAN
  /\ lapsed \in BOOLEAN

\* updateRedisCache and removeRedisCache write the two keys in several commands;
\* while no lease lapses, whoever finds the lock free finds both or neither,
\* and the server is the one of the session.
KeysAgree ==
  ~lapsed /\ lock[User] = NoOne =>
    \/ loc = NoOne /\ sid = NoOne
    \/ sid # NoOne /\ loc = site[sid]

\* Session.cpp:89-92: who tidies up after a session that ended late does not
\* forget where the user has logged in meanwhile.
ForgetSparesNewer ==
  [][~lapsed => \A t \in Clients :
       pc[t] \in {"forgetLoc", "forgetSid"} /\ pc'[t] # pc[t] => sid = on[t]]_vars

\* A login that found the user registered on its own server has made room for
\* the new session, whatever the timer and the io threads did meanwhile.
TakeoverMakesRoom ==
  \A w \in Workers :
    pc[w] = "create" /\ old[w] # NoOne /\ peer[w] = site[w] =>
      active[site[w]] = NoOne

\* Messages for the user are not routed to a session that is to be closed, as
\* long as that client logs in once.
RoutedSessionIsAlive ==
  \A s \in Servers : active[s] \in marked => logins[active[s]] > 1

\* A logged in session whose connection breaks does not stay the user's
\* session, unless the purge could not get the lock or keep it.
PurgedIsForgotten ==
  \A c \in Sessions :
    pc[c] = "acquire" /\ sid = c ~> (sid # c \/ skipped \/ lapsed)

\* ChatBusinessLogic.cpp:177, "add user uuid and session as a pair and store it
\* inside usermanager", whenever every lock was granted and lasted.
LoginRegisters ==
  [][~skipped /\ ~lapsed => \A w \in Workers :
       pc[w] = "create" /\ pc'[w] # "create" => active'[site[w]] = on[w]]_vars

\* GrpcDistributedChattingImpl.cpp:16, "if another user has already logined on
\* other server, then force it to quit!".
ForcedToQuit ==
  [][\A w \in Workers :
       pc[w] = "force" /\ pc'[w] # "force" => old[w] \in marked']_vars
=============================================================================
