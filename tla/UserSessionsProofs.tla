------------------------- MODULE UserSessionsProofs -------------------------
(* Where a user is logged in, for any number of servers, connections,       *)
(* requests and faults.                                                     *)
EXTENDS UserSessions, TLAPS

\* The places of a login, and those of the jobs that forget one.
LoginPlaces == {"look", "find", "takeover", "arm", "force", "labelUser", "labelSession",
                "bind", "create"}
ForgetPlaces == {"compare", "forgetLoc", "forgetSid", "move", "mark"}
Dirty == {"labelSession", "forgetSid"}

\* What a thread knows where it stands.
PlacesOK ==
  \A t \in Clients :
    /\ pc[t] # "idle" => on[t] # NoOne
    /\ pc[t] = "idle" => job[t] # "login"
    /\ pc[t] \in LoginPlaces => job[t] = "login"
    /\ pc[t] \in ForgetPlaces => job[t] # "login"
    /\ job[t] = "login" => t \in Workers /\ site[t] = site[on[t]]
    /\ pc[t] \in {"find", "takeover", "force"} => peer[t] # NoOne
    /\ pc[t] \in {"takeover", "arm", "force"} => old[t] # NoOne
    /\ pc[t] \in {"acquire", "look"} /\ job[t] = "login" => old[t] = NoOne
    /\ pc[t] = "force" => peer[t] # site[t]

\* A session is handled no more logins than were sent.
CountInv ==
  \A c \in Sessions : logins[c] + (IF pending[c] = "none" THEN 0 ELSE 1) =< requests

\* The keys while no lease lapses: who works on them has the lock, and they
\* disagree only between the two writes of one thread.
KeysInv ==
  ~lapsed =>
    /\ \A t \in Clients : pc[t] \in Holding \ {"release"} => lock[User] = t
    /\ \A t \in Clients : pc[t] = "labelSession" => loc = site[t]
    /\ \A t \in Clients : pc[t] = "forgetSid" => loc = NoOne
    /\ \A t \in Clients : pc[t] \in {"forgetLoc", "forgetSid"} => sid = on[t]
    /\ \/ \E t \in Clients : pc[t] \in Dirty
       \/ loc = NoOne /\ sid = NoOne
       \/ sid # NoOne /\ loc = site[sid]

\* From its takeover on a login finds its server free.
RoomInv ==
  \A w \in Workers :
    /\ job[w] = "login"
    /\ pc[w] \in {"arm", "labelUser", "labelSession", "release", "bind", "create"}
    /\ old[w] # NoOne
    /\ peer[w] = site[w]
    => active[site[w]] = NoOne

\* A session is registered where it is.
HomeInv == \A s \in Servers : active[s] # NoOne => site[active[s]] = s

Unknown(c) ==
  /\ \A s \in Servers : active[s] # c /\ waiting[s] # c
  /\ c \notin marked

\* A session that was handled one login at most comes into the map, into the
\* zone and to its mark in this order, and never back.
RouteInv ==
  \A c \in Sessions : logins[c] =< 1 =>
    /\ logins[c] = 0 => Unknown(c) /\ \A w \in Workers : ~(job[w] = "login" /\ on[w] = c)
    /\ \A w \in Workers : job[w] = "login" /\ on[w] = c => Unknown(c)
    /\ \A s \in Servers : active[s] = c =>
         c \notin marked /\ \A r \in Servers : waiting[r] # c

IInv == TypeOK /\ PlacesOK /\ CountInv /\ KeysInv /\ RoomInv /\ HomeInv /\ RouteInv
-----------------------------------------------------------------------------
USE LockOfUser, ThreadsAre, KindsDisjoint, SitesType, NoOneIsNoClient, NoOneIsNoServer,
    MaxRequestsNat, MaxFaultsNat
    DEF vars, redisVars, mapVars, sessionVars, queueVars, threadVars, histVars

\* Every step keeps the types: a thread reads and marks servers and sessions
\* that are there, by PlacesOK, and the counts stay in bounds, by CountInv.
LEMMA NextTypeOK == TypeOK /\ PlacesOK /\ CountInv /\ [Next]_vars => TypeOK'
<1> SUFFICES ASSUME TypeOK, PlacesOK, CountInv, [Next]_vars PROVE TypeOK'
  OBVIOUS
<1>1. CASE UNCHANGED vars
  BY <1>1 DEF TypeOK, PlacesOK, CountInv, LockTypeOK, Places, Holding, Jobs
<1>2. ASSUME NEW c \in Sessions, NEW r \in {"login", "logout"}, Send(c, r) PROVE TypeOK'
  BY <1>2 DEF Send, TypeOK, PlacesOK, CountInv, LockTypeOK, Places, Holding, Jobs
<1>3. ASSUME NEW c \in Sessions, NEW d \in {"read", "write"}, Break(c, d) PROVE TypeOK'
  BY <1>3 DEF Break, Begin, Goto, Fault, TypeOK, PlacesOK, CountInv, LockTypeOK, Places,
              Holding, Jobs
<1>4. ASSUME NEW w \in Workers, NEW c \in Sessions, HandleLogin(w, c) PROVE TypeOK'
  BY <1>4 DEF HandleLogin, Begin, Goto, TypeOK, PlacesOK, CountInv, LockTypeOK, Places, Holding,
              Jobs
<1>5. ASSUME NEW w \in Workers, NEW c \in Sessions, HandleLogout(w, c) PROVE TypeOK'
  BY <1>5 DEF HandleLogout, Begin, Goto, TypeOK, PlacesOK, CountInv, LockTypeOK, Places,
              Holding, Jobs
<1>6. ASSUME NEW w \in Workers, NEW c \in Sessions, Refuse(w, c) PROVE TypeOK'
  BY <1>6 DEF Refuse, TypeOK, PlacesOK, CountInv, LockTypeOK, Places, Holding, Jobs
<1>7. ASSUME NEW t \in Timers, HeartBeat(t) PROVE TypeOK'
  BY <1>7 DEF HeartBeat, Begin, Goto, Fault, TypeOK, PlacesOK, CountInv, LockTypeOK, Places,
              Holding, Jobs
<1>8. ASSUME NEW c \in Sessions, Close(c) PROVE TypeOK'
  BY <1>8 DEF Close, TypeOK, PlacesOK, CountInv, LockTypeOK, Places, Holding, Jobs
<1>9. ASSUME Expire PROVE TypeOK'
  BY <1>9 DEF Expire, LeaseRunsOut, Fault, TypeOK, PlacesOK, CountInv, LockTypeOK, Places,
              Holding, Jobs
<1>10. ASSUME NEW t \in Clients, Acquire(t) PROVE TypeOK'
  BY <1>10 DEF Acquire, Goto, AcquireLock, TypeOK, PlacesOK, CountInv, LockTypeOK, Places,
           Holding, Jobs
<1>11. ASSUME NEW t \in Clients, GiveUp(t) PROVE TypeOK'
  BY <1>11 DEF GiveUp, Goto, AfterForget, TypeOK, PlacesOK, CountInv, LockTypeOK, Places,
           Holding, Jobs
<1>12. ASSUME NEW t \in Clients, Look(t) PROVE TypeOK'
  BY <1>12 DEF Look, Goto, TypeOK, PlacesOK, CountInv, LockTypeOK, Places, Holding, Jobs
<1>13. ASSUME NEW t \in Clients, Find(t) PROVE TypeOK'
  BY <1>13 DEF Find, Goto, TypeOK, PlacesOK, CountInv, LockTypeOK, Places, Holding, Jobs
<1>14. ASSUME NEW t \in Clients, Takeover(t) PROVE TypeOK'
  BY <1>14 DEF Takeover, Goto, MoveToZone, TypeOK, PlacesOK, CountInv, LockTypeOK, Places,
           Holding, Jobs
<1>15. ASSUME NEW t \in Clients, ArmOld(t) PROVE TypeOK'
  BY <1>15 DEF ArmOld, Goto, MarkExpected, TypeOK, PlacesOK, CountInv, LockTypeOK, Places,
           Holding, Jobs
<1>16. ASSUME NEW t \in Clients, ForceTerminateLoginedUser(t) PROVE TypeOK'
  BY <1>16 DEF ForceTerminateLoginedUser, Goto, MarkExpected, TypeOK, PlacesOK, CountInv,
           LockTypeOK, Places, Holding, Jobs
<1>17. ASSUME NEW t \in Clients, ForceFails(t) PROVE TypeOK'
  BY <1>17 DEF ForceFails, Goto, TypeOK, PlacesOK, CountInv, LockTypeOK, Places, Holding, Jobs
<1>18. ASSUME NEW t \in Clients, LabelCurrentUser(t) PROVE TypeOK'
  BY <1>18 DEF LabelCurrentUser, Goto, TypeOK, PlacesOK, CountInv, LockTypeOK, Places, Holding,
           Jobs
<1>19. ASSUME NEW t \in Clients, LabelUserSessionID(t) PROVE TypeOK'
  BY <1>19 DEF LabelUserSessionID, Goto, TypeOK, PlacesOK, CountInv, LockTypeOK, Places,
           Holding, Jobs
<1>20. ASSUME NEW t \in Clients, Compare(t) PROVE TypeOK'
  BY <1>20 DEF Compare, Goto, TypeOK, PlacesOK, CountInv, LockTypeOK, Places, Holding, Jobs
<1>21. ASSUME NEW t \in Clients, ForgetLoc(t) PROVE TypeOK'
  BY <1>21 DEF ForgetLoc, Goto, TypeOK, PlacesOK, CountInv, LockTypeOK, Places, Holding, Jobs
<1>22. ASSUME NEW t \in Clients, ForgetSid(t) PROVE TypeOK'
  BY <1>22 DEF ForgetSid, Goto, TypeOK, PlacesOK, CountInv, LockTypeOK, Places, Holding, Jobs
<1>23. ASSUME NEW t \in Clients, Release(t) PROVE TypeOK'
  BY <1>23 DEF Release, Goto, ReleaseLock, AfterForget, TypeOK, PlacesOK, CountInv, LockTypeOK,
           Places, Holding, Jobs
<1>24. ASSUME NEW t \in Clients, Bind(t) PROVE TypeOK'
  BY <1>24 DEF Bind, Goto, TypeOK, PlacesOK, CountInv, LockTypeOK, Places, Holding, Jobs
<1>25. ASSUME NEW t \in Clients, CreateUserSession(t) PROVE TypeOK'
  BY <1>25 DEF CreateUserSession, Goto, Return, TypeOK, PlacesOK, CountInv, LockTypeOK, Places,
           Holding, Jobs
<1>26. ASSUME NEW t \in Clients, MoveUserToTerminationZone(t) PROVE TypeOK'
  BY <1>26 DEF MoveUserToTerminationZone, Goto, MoveToZone, TypeOK, PlacesOK, CountInv,
           LockTypeOK, Places, Holding, Jobs
<1>27. ASSUME NEW t \in Clients, RemoveUsrSession(t) PROVE TypeOK'
  BY <1>27 DEF RemoveUsrSession, Goto, Return, MarkExpected, MarkAny, TypeOK, PlacesOK,
           CountInv, LockTypeOK, Places, Holding, Jobs
<1> QED
  BY <1>1, <1>2, <1>3, <1>4, <1>5, <1>6, <1>7, <1>8, <1>9, <1>10, <1>11, <1>12, <1>13, <1>14,
     <1>15, <1>16, <1>17, <1>18, <1>19, <1>20, <1>21, <1>22, <1>23, <1>24, <1>25, <1>26, <1>27 DEF Next, Step

\* Every step keeps what the threads know.
LEMMA NextPlaces == TypeOK /\ PlacesOK /\ [Next]_vars => PlacesOK'
<1> SUFFICES ASSUME TypeOK, PlacesOK, [Next]_vars PROVE PlacesOK'
  OBVIOUS
<1>1. CASE UNCHANGED vars
  BY <1>1 DEF TypeOK, PlacesOK, LoginPlaces, ForgetPlaces
<1>2. ASSUME NEW c \in Sessions, NEW r \in {"login", "logout"}, Send(c, r) PROVE PlacesOK'
  BY <1>2 DEF Send, TypeOK, PlacesOK, LoginPlaces, ForgetPlaces
<1>3. ASSUME NEW c \in Sessions, NEW d \in {"read", "write"}, Break(c, d) PROVE PlacesOK'
  BY <1>3 DEF Break, Begin, Goto, Fault, TypeOK, PlacesOK, LoginPlaces, ForgetPlaces
<1>4. ASSUME NEW w \in Workers, NEW c \in Sessions, HandleLogin(w, c) PROVE PlacesOK'
  BY <1>4 DEF HandleLogin, Begin, Goto, TypeOK, PlacesOK, LoginPlaces, ForgetPlaces
<1>5. ASSUME NEW w \in Workers, NEW c \in Sessions, HandleLogout(w, c) PROVE PlacesOK'
  BY <1>5 DEF HandleLogout, Begin, Goto, TypeOK, PlacesOK, LoginPlaces, ForgetPlaces
<1>6. ASSUME NEW w \in Workers, NEW c \in Sessions, Refuse(w, c) PROVE PlacesOK'
  BY <1>6 DEF Refuse, TypeOK, PlacesOK, LoginPlaces, ForgetPlaces
<1>7. ASSUME NEW t \in Timers, HeartBeat(t) PROVE PlacesOK'
  BY <1>7 DEF HeartBeat, Begin, Goto, Fault, TypeOK, PlacesOK, LoginPlaces, ForgetPlaces
<1>8. ASSUME NEW c \in Sessions, Close(c) PROVE PlacesOK'
  BY <1>8 DEF Close, TypeOK, PlacesOK, LoginPlaces, ForgetPlaces
<1>9. ASSUME Expire PROVE PlacesOK'
  BY <1>9 DEF Expire, LeaseRunsOut, Fault, TypeOK, PlacesOK, LoginPlaces, ForgetPlaces
<1>10. ASSUME NEW t \in Clients, Acquire(t) PROVE PlacesOK'
  BY <1>10 DEF Acquire, Goto, AcquireLock, TypeOK, PlacesOK, LoginPlaces, ForgetPlaces
<1>11. ASSUME NEW t \in Clients, GiveUp(t) PROVE PlacesOK'
  BY <1>11 DEF GiveUp, Goto, AfterForget, TypeOK, PlacesOK, LoginPlaces, ForgetPlaces
<1>12. ASSUME NEW t \in Clients, Look(t) PROVE PlacesOK'
  BY <1>12 DEF Look, Goto, TypeOK, PlacesOK, LoginPlaces, ForgetPlaces
<1>13. ASSUME NEW t \in Clients, Find(t) PROVE PlacesOK'
  BY <1>13 DEF Find, Goto, TypeOK, PlacesOK, LoginPlaces, ForgetPlaces
<1>14. ASSUME NEW t \in Clients, Takeover(t) PROVE PlacesOK'
  BY <1>14 DEF Takeover, Goto, MoveToZone, TypeOK, PlacesOK, LoginPlaces, ForgetPlaces
<1>15. ASSUME NEW t \in Clients, ArmOld(t) PROVE PlacesOK'
  BY <1>15 DEF ArmOld, Goto, MarkExpected, TypeOK, PlacesOK, LoginPlaces, ForgetPlaces
<1>16. ASSUME NEW t \in Clients, ForceTerminateLoginedUser(t) PROVE PlacesOK'
  BY <1>16 DEF ForceTerminateLoginedUser, Goto, MarkExpected, TypeOK, PlacesOK, LoginPlaces,
           ForgetPlaces
<1>17. ASSUME NEW t \in Clients, ForceFails(t) PROVE PlacesOK'
  BY <1>17 DEF ForceFails, Goto, TypeOK, PlacesOK, LoginPlaces, ForgetPlaces
<1>18. ASSUME NEW t \in Clients, LabelCurrentUser(t) PROVE PlacesOK'
  BY <1>18 DEF LabelCurrentUser, Goto, TypeOK, PlacesOK, LoginPlaces, ForgetPlaces
<1>19. ASSUME NEW t \in Clients, LabelUserSessionID(t) PROVE PlacesOK'
  BY <1>19 DEF LabelUserSessionID, Goto, TypeOK, PlacesOK, LoginPlaces, ForgetPlaces
<1>20. ASSUME NEW t \in Clients, Compare(t) PROVE PlacesOK'
  BY <1>20 DEF Compare, Goto, TypeOK, PlacesOK, LoginPlaces, ForgetPlaces
<1>21. ASSUME NEW t \in Clients, ForgetLoc(t) PROVE PlacesOK'
  BY <1>21 DEF ForgetLoc, Goto, TypeOK, PlacesOK, LoginPlaces, ForgetPlaces
<1>22. ASSUME NEW t \in Clients, ForgetSid(t) PROVE PlacesOK'
  BY <1>22 DEF ForgetSid, Goto, TypeOK, PlacesOK, LoginPlaces, ForgetPlaces
<1>23. ASSUME NEW t \in Clients, Release(t) PROVE PlacesOK'
  BY <1>23 DEF Release, Goto, ReleaseLock, AfterForget, TypeOK, PlacesOK, LoginPlaces,
           ForgetPlaces
<1>24. ASSUME NEW t \in Clients, Bind(t) PROVE PlacesOK'
  BY <1>24 DEF Bind, Goto, TypeOK, PlacesOK, LoginPlaces, ForgetPlaces
<1>25. ASSUME NEW t \in Clients, CreateUserSession(t) PROVE PlacesOK'
  BY <1>25 DEF CreateUserSession, Goto, Return, TypeOK, PlacesOK, LoginPlaces, ForgetPlaces
<1>26. ASSUME NEW t \in Clients, MoveUserToTerminationZone(t) PROVE PlacesOK'
  BY <1>26 DEF MoveUserToTerminationZone, Goto, MoveToZone, TypeOK, PlacesOK, LoginPlaces,
           ForgetPlaces
<1>27. ASSUME NEW t \in Clients, RemoveUsrSession(t) PROVE PlacesOK'
  BY <1>27 DEF RemoveUsrSession, Goto, Return, MarkExpected, MarkAny, TypeOK, PlacesOK,
           LoginPlaces, ForgetPlaces
<1> QED
  BY <1>1, <1>2, <1>3, <1>4, <1>5, <1>6, <1>7, <1>8, <1>9, <1>10, <1>11, <1>12, <1>13, <1>14,
     <1>15, <1>16, <1>17, <1>18, <1>19, <1>20, <1>21, <1>22, <1>23, <1>24, <1>25, <1>26, <1>27 DEF Next, Step

\* Every step keeps the number of logins handled below that of those sent.
LEMMA NextCount == TypeOK /\ CountInv /\ [Next]_vars => CountInv'
<1> SUFFICES ASSUME TypeOK, CountInv, [Next]_vars PROVE CountInv'
  OBVIOUS
<1>1. CASE UNCHANGED vars
  BY <1>1 DEF TypeOK, CountInv
<1>2. ASSUME NEW c \in Sessions, NEW r \in {"login", "logout"}, Send(c, r) PROVE CountInv'
  BY <1>2 DEF Send, TypeOK, CountInv
<1>3. ASSUME NEW c \in Sessions, NEW d \in {"read", "write"}, Break(c, d) PROVE CountInv'
  BY <1>3 DEF Break, Begin, Goto, Fault, TypeOK, CountInv
<1>4. ASSUME NEW w \in Workers, NEW c \in Sessions, HandleLogin(w, c) PROVE CountInv'
  BY <1>4 DEF HandleLogin, Begin, Goto, TypeOK, CountInv
<1>5. ASSUME NEW w \in Workers, NEW c \in Sessions, HandleLogout(w, c) PROVE CountInv'
  BY <1>5 DEF HandleLogout, Begin, Goto, TypeOK, CountInv
<1>6. ASSUME NEW w \in Workers, NEW c \in Sessions, Refuse(w, c) PROVE CountInv'
  BY <1>6 DEF Refuse, TypeOK, CountInv
<1>7. ASSUME NEW t \in Timers, HeartBeat(t) PROVE CountInv'
  BY <1>7 DEF HeartBeat, Begin, Goto, Fault, TypeOK, CountInv
<1>8. ASSUME NEW c \in Sessions, Close(c) PROVE CountInv'
  BY <1>8 DEF Close, TypeOK, CountInv
<1>9. ASSUME Expire PROVE CountInv'
  BY <1>9 DEF Expire, LeaseRunsOut, Fault, TypeOK, CountInv
<1>10. ASSUME NEW t \in Clients,
         \/ Acquire(t) \/ GiveUp(t) \/ Look(t) \/ Find(t) \/ Takeover(t) \/ ArmOld(t)
         \/ ForceTerminateLoginedUser(t) \/ ForceFails(t) \/ LabelCurrentUser(t)
         \/ LabelUserSessionID(t) \/ Compare(t) \/ ForgetLoc(t) \/ ForgetSid(t)
         \/ Release(t) \/ Bind(t) \/ CreateUserSession(t) \/ MoveUserToTerminationZone(t)
         \/ RemoveUsrSession(t)
     PROVE  CountInv'
  BY <1>10 DEF Acquire, Goto, AcquireLock, GiveUp, AfterForget, Look, Find, Takeover,
           MoveToZone, ArmOld, MarkExpected, ForceTerminateLoginedUser, ForceFails,
           LabelCurrentUser, LabelUserSessionID, Compare, ForgetLoc, ForgetSid, Release,
           ReleaseLock, Bind, CreateUserSession, Return, MoveUserToTerminationZone,
           RemoveUsrSession, MarkAny, TypeOK, CountInv
<1> QED
  BY <1>1, <1>2, <1>3, <1>4, <1>5, <1>6, <1>7, <1>8, <1>9, <1>10 DEF Next, Step

\* Every step keeps the keys: a thread that works on them has the lock, so that
\* no other does.
LEMMA NextKeys == TypeOK /\ PlacesOK /\ KeysInv /\ [Next]_vars => KeysInv'
<1> SUFFICES ASSUME TypeOK, PlacesOK, KeysInv, [Next]_vars PROVE KeysInv'
  OBVIOUS
<1>1. CASE UNCHANGED vars
  BY <1>1 DEF TypeOK, PlacesOK, LockTypeOK, KeysInv, Holding, Dirty, LoginPlaces, ForgetPlaces
<1>2. ASSUME NEW c \in Sessions, NEW r \in {"login", "logout"}, Send(c, r) PROVE KeysInv'
  BY <1>2 DEF Send, TypeOK, PlacesOK, LockTypeOK, KeysInv, Holding, Dirty, LoginPlaces,
              ForgetPlaces
<1>3. ASSUME NEW c \in Sessions, NEW d \in {"read", "write"}, Break(c, d) PROVE KeysInv'
  BY <1>3 DEF Break, Begin, Goto, Fault, TypeOK, PlacesOK, LockTypeOK, KeysInv, Holding, Dirty,
              LoginPlaces, ForgetPlaces
<1>4. ASSUME NEW w \in Workers, NEW c \in Sessions, HandleLogin(w, c) PROVE KeysInv'
  BY <1>4 DEF HandleLogin, Begin, Goto, TypeOK, PlacesOK, LockTypeOK, KeysInv, Holding, Dirty,
              LoginPlaces, ForgetPlaces
<1>5. ASSUME NEW w \in Workers, NEW c \in Sessions, HandleLogout(w, c) PROVE KeysInv'
  BY <1>5 DEF HandleLogout, Begin, Goto, TypeOK, PlacesOK, LockTypeOK, KeysInv, Holding, Dirty,
              LoginPlaces, ForgetPlaces
<1>6. ASSUME NEW w \in Workers, NEW c \in Sessions, Refuse(w, c) PROVE KeysInv'
  BY <1>6 DEF Refuse, TypeOK, PlacesOK, LockTypeOK, KeysInv, Holding, Dirty, LoginPlaces,
              ForgetPlaces
<1>7. ASSUME NEW t \in Timers, HeartBeat(t) PROVE KeysInv'
  BY <1>7 DEF HeartBeat, Begin, Goto, Fault, TypeOK, PlacesOK, LockTypeOK, KeysInv, Holding,
              Dirty, LoginPlaces, ForgetPlaces
<1>8. ASSUME NEW c \in Sessions, Close(c) PROVE KeysInv'
  BY <1>8 DEF Close, TypeOK, PlacesOK, LockTypeOK, KeysInv, Holding, Dirty, LoginPlaces,
              ForgetPlaces
<1>9. ASSUME Expire PROVE KeysInv'
  BY <1>9 DEF Expire, LeaseRunsOut, Fault, TypeOK, PlacesOK, LockTypeOK, KeysInv, Holding,
              Dirty, LoginPlaces, ForgetPlaces
<1>10. ASSUME NEW t \in Clients, Acquire(t) PROVE KeysInv'
  BY <1>10 DEF Acquire, Goto, AcquireLock, TypeOK, PlacesOK, LockTypeOK, KeysInv, Holding,
           Dirty, LoginPlaces, ForgetPlaces
<1>11. ASSUME NEW t \in Clients, GiveUp(t) PROVE KeysInv'
  BY <1>11 DEF GiveUp, Goto, AfterForget, TypeOK, PlacesOK, LockTypeOK, KeysInv, Holding, Dirty,
           LoginPlaces, ForgetPlaces
<1>12. ASSUME NEW t \in Clients, Look(t) PROVE KeysInv'
  BY <1>12 DEF Look, Goto, TypeOK, PlacesOK, LockTypeOK, KeysInv, Holding, Dirty, LoginPlaces,
           ForgetPlaces
<1>13. ASSUME NEW t \in Clients, Find(t) PROVE KeysInv'
  BY <1>13 DEF Find, Goto, TypeOK, PlacesOK, LockTypeOK, KeysInv, Holding, Dirty, LoginPlaces,
           ForgetPlaces
<1>14. ASSUME NEW t \in Clients, Takeover(t) PROVE KeysInv'
  BY <1>14 DEF Takeover, Goto, MoveToZone, TypeOK, PlacesOK, LockTypeOK, KeysInv, Holding,
           Dirty, LoginPlaces, ForgetPlaces
<1>15. ASSUME NEW t \in Clients, ArmOld(t) PROVE KeysInv'
  BY <1>15 DEF ArmOld, Goto, MarkExpected, TypeOK, PlacesOK, LockTypeOK, KeysInv, Holding,
           Dirty, LoginPlaces, ForgetPlaces
<1>16. ASSUME NEW t \in Clients, ForceTerminateLoginedUser(t) PROVE KeysInv'
  BY <1>16 DEF ForceTerminateLoginedUser, Goto, MarkExpected, TypeOK, PlacesOK, LockTypeOK,
           KeysInv, Holding, Dirty, LoginPlaces, ForgetPlaces
<1>17. ASSUME NEW t \in Clients, ForceFails(t) PROVE KeysInv'
  BY <1>17 DEF ForceFails, Goto, TypeOK, PlacesOK, LockTypeOK, KeysInv, Holding, Dirty,
           LoginPlaces, ForgetPlaces
<1>18. ASSUME NEW t \in Clients, LabelCurrentUser(t) PROVE KeysInv'
  BY <1>18 DEF LabelCurrentUser, Goto, TypeOK, PlacesOK, LockTypeOK, KeysInv, Holding, Dirty,
           LoginPlaces, ForgetPlaces
<1>19. ASSUME NEW t \in Clients, LabelUserSessionID(t) PROVE KeysInv'
  BY <1>19 DEF LabelUserSessionID, Goto, TypeOK, PlacesOK, LockTypeOK, KeysInv, Holding, Dirty,
           LoginPlaces, ForgetPlaces
<1>20. ASSUME NEW t \in Clients, Compare(t) PROVE KeysInv'
  BY <1>20 DEF Compare, Goto, TypeOK, PlacesOK, LockTypeOK, KeysInv, Holding, Dirty,
           LoginPlaces, ForgetPlaces
<1>21. ASSUME NEW t \in Clients, ForgetLoc(t) PROVE KeysInv'
  BY <1>21 DEF ForgetLoc, Goto, TypeOK, PlacesOK, LockTypeOK, KeysInv, Holding, Dirty,
           LoginPlaces, ForgetPlaces
<1>22. ASSUME NEW t \in Clients, ForgetSid(t) PROVE KeysInv'
  BY <1>22 DEF ForgetSid, Goto, TypeOK, PlacesOK, LockTypeOK, KeysInv, Holding, Dirty,
           LoginPlaces, ForgetPlaces
<1>23. ASSUME NEW t \in Clients, Release(t) PROVE KeysInv'
  BY <1>23 DEF Release, Goto, ReleaseLock, AfterForget, TypeOK, PlacesOK, LockTypeOK, KeysInv,
           Holding, Dirty, LoginPlaces, ForgetPlaces
<1>24. ASSUME NEW t \in Clients, Bind(t) PROVE KeysInv'
  BY <1>24 DEF Bind, Goto, TypeOK, PlacesOK, LockTypeOK, KeysInv, Holding, Dirty, LoginPlaces,
           ForgetPlaces
<1>25. ASSUME NEW t \in Clients, CreateUserSession(t) PROVE KeysInv'
  BY <1>25 DEF CreateUserSession, Goto, Return, TypeOK, PlacesOK, LockTypeOK, KeysInv, Holding,
           Dirty, LoginPlaces, ForgetPlaces
<1>26. ASSUME NEW t \in Clients, MoveUserToTerminationZone(t) PROVE KeysInv'
  BY <1>26 DEF MoveUserToTerminationZone, Goto, MoveToZone, TypeOK, PlacesOK, LockTypeOK,
           KeysInv, Holding, Dirty, LoginPlaces, ForgetPlaces
<1>27. ASSUME NEW t \in Clients, RemoveUsrSession(t) PROVE KeysInv'
  BY <1>27 DEF RemoveUsrSession, Goto, Return, MarkExpected, MarkAny, TypeOK, PlacesOK,
           LockTypeOK, KeysInv, Holding, Dirty, LoginPlaces, ForgetPlaces
<1> QED
  BY <1>1, <1>2, <1>3, <1>4, <1>5, <1>6, <1>7, <1>8, <1>9, <1>10, <1>11, <1>12, <1>13, <1>14,
     <1>15, <1>16, <1>17, <1>18, <1>19, <1>20, <1>21, <1>22, <1>23, <1>24, <1>25, <1>26, <1>27 DEF Next, Step

\* Every step keeps a server free for the login that took it over: only the
\* server's one worker registers sessions there.
LEMMA NextRoom == TypeOK /\ PlacesOK /\ RoomInv /\ [Next]_vars => RoomInv'
<1> SUFFICES ASSUME TypeOK, PlacesOK, RoomInv, [Next]_vars PROVE RoomInv'
  OBVIOUS
<1>1. CASE UNCHANGED vars
  BY <1>1 DEF TypeOK, PlacesOK, RoomInv, LoginPlaces, ForgetPlaces
<1>2. ASSUME NEW c \in Sessions, NEW r \in {"login", "logout"}, Send(c, r) PROVE RoomInv'
  BY <1>2 DEF Send, TypeOK, PlacesOK, RoomInv, LoginPlaces, ForgetPlaces
<1>3. ASSUME NEW c \in Sessions, NEW d \in {"read", "write"}, Break(c, d) PROVE RoomInv'
  BY <1>3 DEF Break, Begin, Goto, Fault, TypeOK, PlacesOK, RoomInv, LoginPlaces, ForgetPlaces
<1>4. ASSUME NEW w \in Workers, NEW c \in Sessions, HandleLogin(w, c) PROVE RoomInv'
  BY <1>4 DEF HandleLogin, Begin, Goto, TypeOK, PlacesOK, RoomInv, LoginPlaces, ForgetPlaces
<1>5. ASSUME NEW w \in Workers, NEW c \in Sessions, HandleLogout(w, c) PROVE RoomInv'
  BY <1>5 DEF HandleLogout, Begin, Goto, TypeOK, PlacesOK, RoomInv, LoginPlaces, ForgetPlaces
<1>6. ASSUME NEW w \in Workers, NEW c \in Sessions, Refuse(w, c) PROVE RoomInv'
  BY <1>6 DEF Refuse, TypeOK, PlacesOK, RoomInv, LoginPlaces, ForgetPlaces
<1>7. ASSUME NEW t \in Timers, HeartBeat(t) PROVE RoomInv'
  BY <1>7 DEF HeartBeat, Begin, Goto, Fault, TypeOK, PlacesOK, RoomInv, LoginPlaces,
              ForgetPlaces
<1>8. ASSUME NEW c \in Sessions, Close(c) PROVE RoomInv'
  BY <1>8 DEF Close, TypeOK, PlacesOK, RoomInv, LoginPlaces, ForgetPlaces
<1>9. ASSUME Expire PROVE RoomInv'
  BY <1>9 DEF Expire, LeaseRunsOut, Fault, TypeOK, PlacesOK, RoomInv, LoginPlaces, ForgetPlaces
<1>10. ASSUME NEW t \in Clients, GiveUp(t) PROVE RoomInv'
  BY <1>10 DEF GiveUp, Goto, AfterForget, TypeOK, PlacesOK, RoomInv, LoginPlaces, ForgetPlaces
<1>11. ASSUME NEW t \in Clients, Find(t) PROVE RoomInv'
  BY <1>11 DEF Find, Goto, TypeOK, PlacesOK, RoomInv, LoginPlaces, ForgetPlaces
<1>12. ASSUME NEW t \in Clients, Takeover(t) PROVE RoomInv'
  BY <1>12 DEF Takeover, Goto, MoveToZone, TypeOK, PlacesOK, RoomInv, LoginPlaces, ForgetPlaces
<1>13. ASSUME NEW t \in Clients, CreateUserSession(t) PROVE RoomInv'
  <2>1. \A v, w \in Workers : site[v] = site[w] => v = w
    BY OneWorker DEF TypeOK
  <2> QED
    BY <1>13, <2>1 DEF CreateUserSession, Goto, Return, TypeOK, PlacesOK, RoomInv,
         LoginPlaces
<1>14. ASSUME NEW t \in Clients, MoveUserToTerminationZone(t) PROVE RoomInv'
  BY <1>14 DEF MoveUserToTerminationZone, Goto, MoveToZone, TypeOK, PlacesOK, RoomInv,
           LoginPlaces, ForgetPlaces
<1>15. ASSUME NEW t \in Clients,
         \/ Acquire(t) \/ Look(t) \/ ArmOld(t) \/ ForceTerminateLoginedUser(t)
         \/ ForceFails(t) \/ LabelCurrentUser(t) \/ LabelUserSessionID(t) \/ Compare(t)
         \/ ForgetLoc(t) \/ ForgetSid(t) \/ Release(t) \/ Bind(t) \/ RemoveUsrSession(t)
     PROVE  RoomInv'
  BY <1>15 DEF Acquire, Goto, AcquireLock, Look, ArmOld, MarkExpected,
           ForceTerminateLoginedUser, ForceFails, LabelCurrentUser, LabelUserSessionID, Compare,
           ForgetLoc, ForgetSid, Release, ReleaseLock, AfterForget, Bind, RemoveUsrSession,
           Return, MarkAny, TypeOK, PlacesOK, RoomInv, LoginPlaces, ForgetPlaces
<1> QED
  BY <1>1, <1>2, <1>3, <1>4, <1>5, <1>6, <1>7, <1>8, <1>9, <1>10, <1>11, <1>12, <1>13, <1>14,
     <1>15 DEF Next, Step

\* A session is registered by the worker of its own server.
LEMMA NextHome == TypeOK /\ PlacesOK /\ HomeInv /\ [Next]_vars => HomeInv'
<1> SUFFICES ASSUME TypeOK, PlacesOK, HomeInv, [Next]_vars PROVE HomeInv'
  OBVIOUS
<1>1. CASE UNCHANGED vars
  BY <1>1 DEF TypeOK, PlacesOK, HomeInv, LoginPlaces
<1>2. ASSUME NEW c \in Sessions, NEW r \in {"login", "logout"}, Send(c, r) PROVE HomeInv'
  BY <1>2 DEF Send, TypeOK, PlacesOK, HomeInv, LoginPlaces
<1>3. ASSUME NEW c \in Sessions, NEW d \in {"read", "write"}, Break(c, d) PROVE HomeInv'
  BY <1>3 DEF Break, Begin, Goto, Fault, TypeOK, PlacesOK, HomeInv, LoginPlaces
<1>4. ASSUME NEW w \in Workers, NEW c \in Sessions, HandleLogin(w, c) PROVE HomeInv'
  BY <1>4 DEF HandleLogin, Begin, Goto, TypeOK, PlacesOK, HomeInv, LoginPlaces
<1>5. ASSUME NEW w \in Workers, NEW c \in Sessions, HandleLogout(w, c) PROVE HomeInv'
  BY <1>5 DEF HandleLogout, Begin, Goto, TypeOK, PlacesOK, HomeInv, LoginPlaces
<1>6. ASSUME NEW w \in Workers, NEW c \in Sessions, Refuse(w, c) PROVE HomeInv'
  BY <1>6 DEF Refuse, TypeOK, PlacesOK, HomeInv, LoginPlaces
<1>7. ASSUME NEW t \in Timers, HeartBeat(t) PROVE HomeInv'
  BY <1>7 DEF HeartBeat, Begin, Goto, Fault, TypeOK, PlacesOK, HomeInv, LoginPlaces
<1>8. ASSUME NEW c \in Sessions, Close(c) PROVE HomeInv'
  BY <1>8 DEF Close, TypeOK, PlacesOK, HomeInv, LoginPlaces
<1>9. ASSUME Expire PROVE HomeInv'
  BY <1>9 DEF Expire, LeaseRunsOut, Fault, TypeOK, PlacesOK, HomeInv, LoginPlaces
<1>10. ASSUME NEW t \in Clients, Takeover(t) PROVE HomeInv'
  BY <1>10 DEF Takeover, Goto, MoveToZone, TypeOK, PlacesOK, HomeInv, LoginPlaces
<1>11. ASSUME NEW t \in Clients, CreateUserSession(t) PROVE HomeInv'
  BY <1>11 DEF CreateUserSession, Goto, Return, TypeOK, PlacesOK, HomeInv, LoginPlaces
<1>12. ASSUME NEW t \in Clients, MoveUserToTerminationZone(t) PROVE HomeInv'
  BY <1>12 DEF MoveUserToTerminationZone, Goto, MoveToZone, TypeOK, PlacesOK, HomeInv,
           LoginPlaces
<1>13. ASSUME NEW t \in Clients,
         \/ Acquire(t) \/ GiveUp(t) \/ Look(t) \/ Find(t) \/ ArmOld(t)
         \/ ForceTerminateLoginedUser(t) \/ ForceFails(t) \/ LabelCurrentUser(t)
         \/ LabelUserSessionID(t) \/ Compare(t) \/ ForgetLoc(t) \/ ForgetSid(t)
         \/ Release(t) \/ Bind(t) \/ RemoveUsrSession(t)
     PROVE  HomeInv'
  BY <1>13 DEF Acquire, Goto, AcquireLock, GiveUp, AfterForget, Look, Find, ArmOld,
           MarkExpected, ForceTerminateLoginedUser, ForceFails, LabelCurrentUser,
           LabelUserSessionID, Compare, ForgetLoc, ForgetSid, Release, ReleaseLock, Bind,
           RemoveUsrSession, Return, MarkAny, TypeOK, PlacesOK, HomeInv, LoginPlaces
<1> QED
  BY <1>1, <1>2, <1>3, <1>4, <1>5, <1>6, <1>7, <1>8, <1>9, <1>10, <1>11, <1>12, <1>13 DEF Next, Step

\* Every step moves a session that logs in once from the map to the zone or
\* from the zone to its mark.
LEMMA NextRoute == TypeOK /\ PlacesOK /\ HomeInv /\ RouteInv /\ [Next]_vars => RouteInv'
<1> SUFFICES ASSUME TypeOK, PlacesOK, HomeInv, RouteInv, [Next]_vars PROVE RouteInv'
  OBVIOUS
<1>1. CASE UNCHANGED vars
  BY <1>1 DEF TypeOK, PlacesOK, HomeInv, RouteInv, Unknown, LoginPlaces, ForgetPlaces
<1>2. ASSUME NEW c \in Sessions, NEW r \in {"login", "logout"}, Send(c, r) PROVE RouteInv'
  BY <1>2 DEF Send, TypeOK, PlacesOK, HomeInv, RouteInv, Unknown, LoginPlaces, ForgetPlaces
<1>3. ASSUME NEW c \in Sessions, NEW d \in {"read", "write"}, Break(c, d) PROVE RouteInv'
  BY <1>3 DEF Break, Begin, Goto, Fault, TypeOK, PlacesOK, HomeInv, RouteInv, Unknown,
              LoginPlaces, ForgetPlaces
<1>4. ASSUME NEW w \in Workers, NEW c \in Sessions, HandleLogin(w, c) PROVE RouteInv'
  BY <1>4 DEF HandleLogin, Begin, Goto, TypeOK, PlacesOK, HomeInv, RouteInv, Unknown,
              LoginPlaces, ForgetPlaces
<1>5. ASSUME NEW w \in Workers, NEW c \in Sessions, HandleLogout(w, c) PROVE RouteInv'
  BY <1>5 DEF HandleLogout, Begin, Goto, TypeOK, PlacesOK, HomeInv, RouteInv, Unknown,
              LoginPlaces, ForgetPlaces
<1>6. ASSUME NEW w \in Workers, NEW c \in Sessions, Refuse(w, c) PROVE RouteInv'
  BY <1>6 DEF Refuse, TypeOK, PlacesOK, HomeInv, RouteInv, Unknown, LoginPlaces, ForgetPlaces
<1>7. ASSUME NEW t \in Timers, HeartBeat(t) PROVE RouteInv'
  BY <1>7 DEF HeartBeat, Begin, Goto, Fault, TypeOK, PlacesOK, HomeInv, RouteInv, Unknown,
              LoginPlaces, ForgetPlaces
<1>8. ASSUME NEW c \in Sessions, Close(c) PROVE RouteInv'
  BY <1>8 DEF Close, TypeOK, PlacesOK, HomeInv, RouteInv, Unknown, LoginPlaces, ForgetPlaces
<1>9. ASSUME Expire PROVE RouteInv'
  BY <1>9 DEF Expire, LeaseRunsOut, Fault, TypeOK, PlacesOK, HomeInv, RouteInv, Unknown,
              LoginPlaces, ForgetPlaces
<1>10. ASSUME NEW t \in Clients, Takeover(t) PROVE RouteInv'
  BY <1>10 DEF Takeover, Goto, MoveToZone, TypeOK, PlacesOK, HomeInv, RouteInv, Unknown,
           LoginPlaces, ForgetPlaces
<1>11. ASSUME NEW t \in Clients, ArmOld(t) PROVE RouteInv'
  BY <1>11 DEF ArmOld, Goto, MarkExpected, TypeOK, PlacesOK, HomeInv, RouteInv, Unknown,
           LoginPlaces, ForgetPlaces
<1>12. ASSUME NEW t \in Clients, ForceTerminateLoginedUser(t) PROVE RouteInv'
  BY <1>12 DEF ForceTerminateLoginedUser, Goto, MarkExpected, TypeOK, PlacesOK, HomeInv,
           RouteInv, Unknown, LoginPlaces, ForgetPlaces
<1>13. ASSUME NEW t \in Clients, CreateUserSession(t) PROVE RouteInv'
  <2>1. \A v, w \in Workers : site[v] = site[w] => v = w
    BY OneWorker DEF TypeOK
  <2> QED
    BY <1>13, <2>1 DEF CreateUserSession, Goto, Return, TypeOK, PlacesOK, HomeInv, RouteInv, Unknown,
         LoginPlaces
<1>14. ASSUME NEW t \in Clients, MoveUserToTerminationZone(t) PROVE RouteInv'
  BY <1>14 DEF MoveUserToTerminationZone, Goto, MoveToZone, TypeOK, PlacesOK, HomeInv, RouteInv,
           Unknown, LoginPlaces, ForgetPlaces
<1>15. ASSUME NEW t \in Clients, RemoveUsrSession(t) PROVE RouteInv'
  BY <1>15 DEF RemoveUsrSession, Goto, Return, MarkExpected, MarkAny, TypeOK, PlacesOK, HomeInv,
           RouteInv, Unknown, LoginPlaces, ForgetPlaces
<1>16. ASSUME NEW t \in Clients,
         \/ Acquire(t) \/ GiveUp(t) \/ Look(t) \/ Find(t) \/ ForceFails(t)
         \/ LabelCurrentUser(t) \/ LabelUserSessionID(t) \/ Compare(t) \/ ForgetLoc(t)
         \/ ForgetSid(t) \/ Release(t) \/ Bind(t)
     PROVE  RouteInv'
  BY <1>16 DEF Acquire, Goto, AcquireLock, GiveUp, AfterForget, Look, Find, ForceFails,
           LabelCurrentUser, LabelUserSessionID, Compare, ForgetLoc, ForgetSid, Release,
           ReleaseLock, Bind, TypeOK, PlacesOK, HomeInv, RouteInv, Unknown, LoginPlaces,
           ForgetPlaces
<1> QED
  BY <1>1, <1>2, <1>3, <1>4, <1>5, <1>6, <1>7, <1>8, <1>9, <1>10, <1>11, <1>12, <1>13, <1>14,
     <1>15, <1>16 DEF Next, Step

-----------------------------------------------------------------------------
(* The theorems                                                            *)

\* At first nobody is logged in, and nothing holds of nobody.
LEMMA InitIInv == Init => IInv
<1> SUFFICES ASSUME Init PROVE IInv
  OBVIOUS
<1>1. TypeOK
  <2>1. LockTypeOK
    BY DEF Init, LockInit, LockTypeOK
  <2>2. /\ pending \in [Sessions -> {"none", "login", "logout"}]
        /\ logins \in [Sessions -> 0..MaxRequests]
        /\ alive \in [Sessions -> SUBSET {"read", "write"}]
    BY DEF Init
  <2>3. /\ pc \in [Clients -> Places]
        /\ job \in [Clients -> Jobs]
    BY DEF Init, Places, Jobs
  <2>4. /\ active \in [Servers -> Sessions \cup {NoOne}]
        /\ waiting \in [Servers -> Sessions \cup {NoOne}]
        /\ on \in [Clients -> Sessions \cup {NoOne}]
        /\ peer \in [Clients -> Servers \cup {NoOne}]
        /\ old \in [Clients -> Sessions \cup {NoOne}]
    BY DEF Init
  <2>5. requests \in 0..MaxRequests /\ faults \in 0..MaxFaults
    BY DEF Init
  <2>6. bound \subseteq Sessions /\ marked \subseteq Sessions /\ closed \subseteq marked
    BY DEF Init
  <2>7. /\ site \in Sites
        /\ loc \in Servers \cup {NoOne}
        /\ sid \in Sessions \cup {NoOne}
        /\ skipped \in BOOLEAN /\ lapsed \in BOOLEAN
    BY DEF Init
  <2> QED
    BY <2>1, <2>2, <2>3, <2>4, <2>5, <2>6, <2>7 DEF TypeOK
<1>2. PlacesOK
  BY DEF Init, PlacesOK, LoginPlaces, ForgetPlaces
<1>3. CountInv
  BY DEF Init, CountInv
<1>4. KeysInv
  BY DEF Init, KeysInv, Holding
<1>5. RoomInv /\ HomeInv
  BY DEF Init, RoomInv, HomeInv
<1>6. RouteInv
  BY DEF Init, RouteInv, Unknown
<1> QED
  BY <1>1, <1>2, <1>3, <1>4, <1>5, <1>6 DEF IInv

LEMMA Inductive == Spec => []IInv
<1>1. IInv /\ [Next]_vars => IInv'
  BY NextTypeOK, NextPlaces, NextCount, NextKeys, NextRoom, NextHome, NextRoute DEF IInv
<1> QED
  BY InitIInv, <1>1, PTL DEF Spec

\* Type correctness, for any servers, connections, requests and faults.
THEOREM TypeCorrect == Spec => []TypeOK
<1>1. IInv => TypeOK
  BY DEF IInv
<1> QED
  BY Inductive, <1>1, PTL

\* As long as no lease lapses, whoever finds the lock free finds the keys uuid_<U>
\* and session_<U> (updateRedisCache, removeRedisCache) both there or both gone,
\* and of one session: a thread that stands between its two writes has the lock.
THEOREM KeysCorrect == Spec => []KeysAgree
<1>1. IInv => KeysAgree
  BY DEF IInv, TypeOK, KeysInv, KeysAgree, Dirty, Holding
<1> QED
  BY Inductive, <1>1, PTL

\* Who tidies up after a session (removeRedisCache) deletes only that session's
\* keys: between its comparison and its DELs nobody else writes them.
THEOREM NewerIsSpared == Spec => ForgetSparesNewer
<1>1. IInv => (~lapsed => \A t \in Clients :
         pc[t] \in {"forgetLoc", "forgetSid"} => sid = on[t])
  BY DEF IInv, KeysInv
<1>2. IInv /\ [Next]_vars => [~lapsed => \A t \in Clients :
         pc[t] \in {"forgetLoc", "forgetSid"} /\ pc'[t] # pc[t] => sid = on[t]]_vars
  BY <1>1
<1> QED
  BY Inductive, <1>2, PTL DEF Spec, ForgetSparesNewer

\* A takeover on one server (updateRedisCache, moveUserToTerminationZone) leaves
\* room for createUserSession, which would not overwrite.
THEOREM RoomIsMade == Spec => []TakeoverMakesRoom
<1>1. IInv => TakeoverMakesRoom
  BY DEF IInv, PlacesOK, RoomInv, TakeoverMakesRoom, LoginPlaces
<1> QED
  BY Inductive, <1>1, PTL

\* Messages are not routed (getSession) to a session that was given a deferred
\* termination, if its client logs in once.
THEOREM RoutedIsAlive == Spec => []RoutedSessionIsAlive
<1>1. IInv => RoutedSessionIsAlive
  BY DEF IInv, TypeOK, HomeInv, RouteInv, RoutedSessionIsAlive
<1> QED
  BY Inductive, <1>1, PTL
=============================================================================
