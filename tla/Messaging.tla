----------------------------- MODULE Messaging -----------------------------
(* Friends and messages across chatting servers: the handlers of            *)
(* ChatBusinessLogic.cpp on the worker of each server, over the database,   *)
(* the uuid_<U> keys of Redis, the map m_uuid2Session of each server, and   *)
(* the gRPC calls from one server to another.  A handler is cut at every    *)
(* transaction, Redis command, map operation and call.                      *)
EXTENDS Database

CONSTANTS
  Servers,
  NoOne,
  Homes,        \* where the clients may be logged in at the start: [Users -> Servers \cup {NoOne}]
  Tables,       \* the databases to start from
  BatchSize,    \* a client sends at most so many texts in one request
  MaxRequests, MaxLogins, MaxFaults   \* bounds of the model

\* A run starts from databases that the transactions leave behind.
ASSUME TablesAssumption == \A d \in Tables : IsDatabase(d) /\ Whole(d)
ASSUME HomesAssumption == Homes \subseteq [Users -> Servers \cup {NoOne}] /\ NoOne \notin Servers
ASSUME BatchAssumption == BatchSize \in Nat

VARIABLES
  db,        \* the MySQL database
  route,     \* Redis: uuid_<U>, the server the user is logged in on, and session_<U>
  local,     \* m_uuid2Session of each server: the users with a session there
  leaving,   \* sessions whose purge is to come
  at,        \* the server each client is connected to
  logins,    \* the number of the client's connection
  job,       \* what each server's worker is doing
  inbox,     \* what each client received, oldest first
  down,      \* servers that crashed
  requests, faults   \* counters of the model

vars == <<db, route, local, leaving, at, logins, job, inbox, down, requests, faults>>

redisVars == <<route, leaving>>
clientVars == <<at, logins, requests>>

Operations == {"search", "create", "confirm", "text", "threads", "records", "chat",
               "logout", "login"}
Idle == [op |-> "idle", step |-> "", user |-> 0, peer |-> 0, thread |-> 0,
         left |-> 0, ids |-> <<>>, via |-> NoOne, seen |-> 0]

Answers == {"SEARCHUSERNAMERESPONSE", "FRIENDSENDERRESPONSE", "FRIENDCONFIRMRESPONSE",
            "TEXTCHATMSGRESPONSE", "PULLCHATTHREADRESPONSE", "PULLCHATRECORDRESPONSE",
            "CREATENEWPRIVATECHAT_RESPONSE", "LOGOUTRESPONSE", "LOGINRESPONSE"}
Pushes == {"FRIENDREINCOMINGREQUEST", "FRIENDING_ON_BIDDIRECTIONAL",
           "TEXTCHATMSGICOMINGREQUEST", "FriendRequestList", "AuthFriendList"}

\* A message to a client: its service, whether its "error" is SERVICE_SUCCESS,
\* the other user, the thread (or the cursor) and the messages it carries.
Msg(type, ok, who, thread, ids) ==
  [type |-> type, ok |-> ok, who |-> who, thread |-> thread, ids |-> ids]

Steps == {"", "answer", "look", "insert", "store", "route", "push", "success", "failure",
          "label", "register", "lists"}
Letters == [type : Answers \cup Pushes, ok : BOOLEAN, who : Nat, thread : Nat, ids : Seq(Nat)]
Jobs == [op : Operations \cup {"idle"}, step : Steps, user : Nat, peer : Nat, thread : Nat,
         left : 0..BatchSize, ids : Seq(Nat), via : Servers \cup {NoOne}, seen : Nat]

\* The tables and messages have their columns, chats the ids of the thread index,
\* and a message to a client carries stored messages only.
TypeOK ==
  /\ IsDatabase(db)
  /\ route \in [Users -> [on : Servers \cup {NoOne}, sid : Nat]]
  /\ local \in [Servers -> SUBSET Users]
  /\ leaving \subseteq Users \X Nat
  /\ at \in [Users -> Servers \cup {NoOne}]
  /\ logins \in [Users -> Nat]
  /\ down \subseteq Servers
  /\ job \in [Servers -> Jobs]
  /\ inbox \in [Users -> Seq(Letters)]
  /\ \A u \in Users : \A i \in DOMAIN inbox[u] :
       \A k \in DOMAIN inbox[u][i].ids : inbox[u][i].ids[k] \in DOMAIN db.bank

\* Every client logged in: it has pulled the threads of the database, and was
\* there when the requests to it came.
Peer(d, u, t) == LET c == CHOOSE x \in d.chat : x.thread = t IN
                 IF c.one = u THEN c.two ELSE c.one

Shown(d, u) ==
  LET T == Ascending(UserThreads(d, u, 0))
      R == Ascending({i \in DOMAIN d.request :
                       d.request[i].dst = u /\ d.request[i].status = 0}) IN
  [k \in DOMAIN T |-> Msg("PULLCHATTHREADRESPONSE", TRUE, Peer(d, u, T[k]), T[k], <<>>)]
  \o [k \in DOMAIN R |-> Msg("FRIENDREINCOMINGREQUEST", TRUE, d.request[R[k]].src, 0, <<>>)]

Init ==
  /\ db \in Tables
  /\ at \in Homes
  /\ \A u \in Users : at[u] # NoOne => UserProfile(db, u)
  /\ local = [s \in Servers |-> {u \in Users : at[u] = s}]
  /\ leaving = {}
  /\ logins = [u \in Users |-> IF at[u] = NoOne THEN 0 ELSE 1]
  /\ route = [u \in Users |-> [on |-> at[u], sid |-> logins[u]]]
  /\ job = [s \in Servers |-> Idle]
  /\ inbox = [u \in Users |-> Shown(db, u)]
  /\ down = {}
  /\ requests = 0
  /\ faults = 0

-----------------------------------------------------------------------------
(* Helpers                                                                 *)

Now(s, op, step) == job[s].op = op /\ job[s].step = step
Goto(s, step) == job' = [job EXCEPT ![s].step = step]
Done(s) == job' = [job EXCEPT ![s] = Idle]

\* sendMessage on the session of u.
Send(u, m) == inbox' = [inbox EXCEPT ![u] = Append(@, m)]

\* generateErrorMessage to the session whose request is handled, or the answer.
Refuse(s, type) == Send(job[s].user, Msg(type, FALSE, job[s].peer, 0, <<>>))
Reply(s, type, t, ids) == Send(job[s].user, Msg(type, TRUE, job[s].peer, t, ids))

\* A statement fails, or a call to another server does.
Fault ==
  /\ faults < MaxFaults
  /\ faults' = faults + 1

\* What a client has been shown: threads with their peers, requests to it, cursors.
ShownThreads(u) ==
  {<<m.who, m.thread>> : m \in {n \in Range(inbox[u]) :
      n.ok /\ n.type \in {"PULLCHATTHREADRESPONSE", "CREATENEWPRIVATECHAT_RESPONSE",
                         "FRIENDING_ON_BIDDIRECTIONAL"}}}
ShownRequests(u) ==
  {m.who : m \in {n \in Range(inbox[u]) : n.type \in {"FRIENDREINCOMINGREQUEST", "FriendRequestList"}}}

\* The client of u sends a request, and the worker of its server takes it.
Accept(s, u, op, step, peer, t, n) ==
  /\ job[s] = Idle
  /\ at[u] = s
  /\ requests < MaxRequests
  /\ requests' = requests + 1
  /\ job' = [job EXCEPT ![s] =
        [Idle EXCEPT !.op = op, !.step = step, !.user = u, !.peer = peer,
                     !.thread = t, !.left = n, !.seen = Len(inbox[u])]]
  /\ UNCHANGED <<db, redisVars, local, at, logins, inbox, down, faults>>

\* getUserBasicInfo: the card of a user, from Redis or else from the database.
GetUserBasicInfo(u) == GetUserProfile(db, u)

-----------------------------------------------------------------------------
(* Handlers that read the database and answer                              *)

AskSearch(s, u) == \E v \in Users \cup {0} : Accept(s, u, "search", "answer", v, 0, 0)

\* handlingUserSearch: getUUIDByUsername and getUserBasicInfo.
HandlingUserSearch(s) ==
  /\ Now(s, "search", "answer")
  /\ \/ /\ GetUuidByUsername(job[s].peer) /\ GetUserBasicInfo(job[s].peer)
        /\ Reply(s, "SEARCHUSERNAMERESPONSE", 0, <<>>)
        /\ UNCHANGED faults
     \/ /\ ~(GetUuidByUsername(job[s].peer) /\ GetUserBasicInfo(job[s].peer))
        /\ Refuse(s, "SEARCHUSERNAMERESPONSE")
        /\ UNCHANGED faults
     \/ Fault /\ Refuse(s, "SEARCHUSERNAMERESPONSE")
  /\ Done(s)
  /\ UNCHANGED <<db, redisVars, local, clientVars, down>>

\* The client asks for the threads above the last it was shown.
AskThreads(s, u) ==
  \E t \in {0} \cup {x[2] : x \in ShownThreads(u)} :
    Accept(s, u, "threads", "answer", 0, t, 0)

\* handlingUserChatTheads.  An exception of the row's conversion ends in execute,
\* and nobody answers.
HandlingUserChatThreads(s) ==
  LET u == job[s].user
      cur == job[s].thread IN
  /\ Now(s, "threads", "answer")
  /\ \/ /\ ThreadPageFound(db, u, cur)
        /\ IF PagingThrows THEN UNCHANGED inbox
           ELSE LET page == ThreadPage(db, u, cur)
                    rows == Ascending(page.rows) IN
                inbox' = [inbox EXCEPT ![u] = @ \o [k \in DOMAIN rows |->
                  Msg("PULLCHATTHREADRESPONSE", TRUE, Peer(db, u, rows[k]), rows[k], <<>>)]]
        /\ UNCHANGED faults
     \/ /\ ~ThreadPageFound(db, u, cur)
        /\ Refuse(s, "PULLCHATTHREADRESPONSE")
        /\ UNCHANGED faults
     \/ Fault /\ Refuse(s, "PULLCHATTHREADRESPONSE")
  /\ Done(s)
  /\ UNCHANGED <<db, redisVars, local, clientVars, down>>

AskRecords(s, u) ==
  \E x \in ShownThreads(u) : Accept(s, u, "records", "answer", x[1], x[2], 0)

\* handlingUserChatMessage, from the first message of the thread on.
HandlingUserChatMessage(s) ==
  /\ Now(s, "records", "answer")
  /\ IF RecordPageFound(db, job[s].thread, 0)
     THEN Reply(s, "PULLCHATRECORDRESPONSE", job[s].thread,
                Ascending(Page(ChatRecords(db, job[s].thread, 0), PageSize).rows))
     ELSE Refuse(s, "PULLCHATRECORDRESPONSE")
  /\ Done(s)
  /\ UNCHANGED <<db, redisVars, local, clientVars, down, faults>>

-----------------------------------------------------------------------------
(* handlingCreateNewPrivateChat                                            *)

AskChat(s, u) == \E v \in Users \ {u} : Accept(s, u, "chat", "look", v, 0, 0)

\* The SELECT ... FOR UPDATE of createNewPrivateChat.
CheckPrivateChatExistance(s) ==
  /\ Now(s, "chat", "look")
  /\ \/ /\ PrivateChatThere(db, job[s].user, job[s].peer)
        /\ IF LookupThrows THEN UNCHANGED inbox
           ELSE Reply(s, "CREATENEWPRIVATECHAT_RESPONSE",
                  (CHOOSE c \in db.chat : {c.one, c.two} = {job[s].user, job[s].peer}).thread,
                  <<>>)
        /\ Done(s)
        /\ UNCHANGED faults
     \/ /\ ~PrivateChatThere(db, job[s].user, job[s].peer)
        /\ Goto(s, "insert")
        /\ UNCHANGED <<inbox, faults>>
     \/ /\ Fault
        /\ Refuse(s, "CREATENEWPRIVATECHAT_RESPONSE")
        /\ Done(s)
  /\ UNCHANGED <<db, redisVars, local, clientVars, down>>

\* Its INSERTs, and the answer.
CreateNewPrivateChat(s) ==
  LET r == CreatePrivateChat(db, job[s].user, job[s].peer) IN
  /\ Now(s, "chat", "insert")
  /\ db' = r.db
  /\ IF r.found THEN Reply(s, "CREATENEWPRIVATECHAT_RESPONSE", r.db.threads, <<>>)
     ELSE Refuse(s, "CREATENEWPRIVATECHAT_RESPONSE")
  /\ Done(s)
  /\ UNCHANGED <<redisVars, local, clientVars, down, faults>>

-----------------------------------------------------------------------------
(* Friend requests, confirmations and texts: the database                  *)

AskFriend(s, u) == \E v \in Users : Accept(s, u, "create", "store", v, 0, 0)
AskConfirm(s, u) == \E v \in ShownRequests(u) : Accept(s, u, "confirm", "store", v, 0, 0)
AskText(s, u) ==
  \E x \in ShownThreads(u), n \in 1..BatchSize :
    Accept(s, u, "text", "store", x[1], x[2], n)

\* handlingFriendRequestCreator up to the request's row.  When the statement
\* fails the handler goes on as if it had not.
HandlingFriendRequestCreator(s) ==
  LET r == CreateFriendRequest(db, job[s].user, job[s].peer) IN
  /\ Now(s, "create", "store")
  /\ \/ /\ r.found
        /\ db' = r.db
        /\ Goto(s, "route")
        /\ UNCHANGED <<inbox, faults>>
     \/ /\ ~r.found
        /\ Refuse(s, "FRIENDSENDERRESPONSE")
        /\ Done(s)
        /\ UNCHANGED <<db, faults>>
     \/ /\ r.found /\ Fault
        /\ Goto(s, "route")
        /\ UNCHANGED <<db, inbox>>
  /\ UNCHANGED <<redisVars, local, clientVars, down>>

\* handlingFriendRequestConfirm up to the two answers to the confirmer.
HandlingFriendRequestConfirm(s) ==
  LET u == job[s].user
      r == ConfirmFriend(db, job[s].peer, u)
      n == Len(r.db.bank)
      No(type) == Msg(type, FALSE, job[s].peer, 0, <<>>)
      Yes(type, t, ids) == Msg(type, TRUE, job[s].peer, t, ids) IN
  /\ Now(s, "confirm", "store")
  /\ \/ /\ r.found
        /\ db' = r.db
        /\ inbox' = [inbox EXCEPT ![u] = @ \o
             <<Yes("FRIENDCONFIRMRESPONSE", 0, <<>>),
               Yes("FRIENDING_ON_BIDDIRECTIONAL", r.db.threads, <<n - 1, n>>)>>]
        /\ job' = [job EXCEPT ![s].step = "route", ![s].thread = r.db.threads,
                              ![s].ids = <<n - 1, n>>]
        /\ UNCHANGED faults
     \/ /\ ~r.found
        /\ db' = r.db
        /\ inbox' = [inbox EXCEPT ![u] = @ \o
             <<No("FRIENDCONFIRMRESPONSE"), No("FRIENDING_ON_BIDDIRECTIONAL")>>]
        /\ Done(s)
        /\ UNCHANGED faults
     \/ /\ Fault           \* in the transaction, or of the requester's card after it
        /\ \/ /\ inbox' = [inbox EXCEPT ![u] = @ \o
                 <<No("FRIENDCONFIRMRESPONSE"), No("FRIENDING_ON_BIDDIRECTIONAL")>>]
              /\ UNCHANGED db
           \/ /\ r.found
              /\ inbox' = [inbox EXCEPT ![u] = @ \o
                 <<Yes("FRIENDCONFIRMRESPONSE", 0, <<>>), No("FRIENDING_ON_BIDDIRECTIONAL")>>]
              /\ db' = r.db
        /\ Done(s)
  /\ UNCHANGED <<redisVars, local, clientVars, down>>

\* handlingTextChatMsg: the texts of the batch, one transaction each, up to the
\* first that fails.
StoreText(s) ==
  LET r == StoreMessage(db, job[s].thread, job[s].user, job[s].peer) IN
  /\ Now(s, "text", "store")
  /\ \/ /\ r.found
        /\ db' = r.db
        /\ job' = [job EXCEPT ![s].left = @ - 1,
                              ![s].ids = Append(@, Len(r.db.bank)),
                              ![s].step = IF job[s].left = 1 THEN "route" ELSE "store"]
        /\ UNCHANGED <<inbox, faults>>
     \/ /\ ~r.found
        /\ Refuse(s, "TEXTCHATMSGRESPONSE")
        /\ Done(s)
        /\ UNCHANGED <<db, faults>>
     \/ /\ Fault
        /\ Refuse(s, "TEXTCHATMSGRESPONSE")
        /\ Done(s)
        /\ UNCHANGED db
  /\ UNCHANGED <<redisVars, local, clientVars, down>>

-----------------------------------------------------------------------------
(* The route to the other user, and the push                               *)

Via(s) == route[job[s].peer].on
GotoPush(s) == job' = [job EXCEPT ![s].step = "push", ![s].via = Via(s)]

\* What the other user is sent, here or by the thread of another server.
Push(s, type) ==
  Send(job[s].peer, Msg(type, TRUE, job[s].user, job[s].thread, job[s].ids))

PushHere(s, op) == Now(s, op, "push") /\ job[s].via = s
PushThere(s, op) == Now(s, op, "push") /\ job[s].via # s

\* getSession on the server of the other user.
Registered(s) == job[s].peer \in local[job[s].via]

\* The session is there, and is sent the push.
Pushed(s, type) == Registered(s) /\ Push(s, type)
Missed(s) == ~Registered(s) /\ UNCHANGED inbox

\* getTargetChattingServer does not find the server among the peers that the
\* balance server lists, or the call is not ok: it may have been carried out.
CallFails(s, type) ==
  \/ /\ job[s].via \in down
     /\ UNCHANGED <<inbox, faults>>
  \/ /\ job[s].via \notin down
     /\ Fault
     /\ UNCHANGED inbox \/ Pushed(s, type)

-----------------------------------------------------------------------------
(* Variants of the code that the properties below reject.                  *)

\* Without a route to the receiver the handler returns without a word.
RouteText_Silent(s) ==
  /\ Now(s, "text", "route")
  /\ IF Via(s) = NoOne
     THEN Done(s) /\ UNCHANGED inbox
     ELSE Reply(s, "TEXTCHATMSGRESPONSE", job[s].thread, job[s].ids) /\ GotoPush(s)
  /\ UNCHANGED <<db, redisVars, local, clientVars, down, faults>>

\* A call that is not ok is made again.
TextCallFails_Retries(s) ==
  /\ PushThere(s, "text")
  /\ CallFails(s, "TEXTCHATMSGICOMINGREQUEST")
  /\ UNCHANGED <<db, redisVars, local, clientVars, job, down>>

-----------------------------------------------------------------------------
\* GET uuid_<dst> of handlingFriendRequestCreator, and the sender's own card.
RouteRequest(s) ==
  /\ Now(s, "create", "route")
  /\ \/ /\ Via(s) # NoOne
        /\ GotoPush(s)
        /\ UNCHANGED <<inbox, faults>>
     \/ /\ Via(s) = NoOne
        /\ Refuse(s, "FRIENDSENDERRESPONSE")
        /\ Done(s)
        /\ UNCHANGED faults
     \/ /\ Via(s) # NoOne /\ Fault
        /\ Refuse(s, "FRIENDSENDERRESPONSE")
        /\ Done(s)
  /\ UNCHANGED <<db, redisVars, local, clientVars, down>>

\* The same of handlingFriendRequestConfirm: without a route the requester is
\* not told.
RouteConfirm(s) ==
  /\ Now(s, "confirm", "route")
  /\ IF Via(s) = NoOne THEN Done(s) ELSE GotoPush(s)
  /\ UNCHANGED <<db, redisVars, local, clientVars, inbox, down, faults>>

\* The same of handlingTextChatMsg, with the answer to the sender: the mapping of
\* its ids, or an error although the texts are stored.
RouteText(s) ==
  /\ Now(s, "text", "route")
  /\ IF Via(s) = NoOne
     THEN Refuse(s, "TEXTCHATMSGRESPONSE") /\ Done(s)
     ELSE Reply(s, "TEXTCHATMSGRESPONSE", job[s].thread, job[s].ids) /\ GotoPush(s)
  /\ UNCHANGED <<db, redisVars, local, clientVars, down, faults>>

\* The receiver is on this server.
PushRequest(s) ==
  /\ PushHere(s, "create")
  /\ \/ Pushed(s, "FRIENDREINCOMINGREQUEST") /\ Goto(s, "success")
     \/ Missed(s) /\ Goto(s, "failure")
  /\ UNCHANGED <<db, redisVars, local, clientVars, down, faults>>

PushText(s) ==
  /\ PushHere(s, "text")
  /\ \/ Pushed(s, "TEXTCHATMSGICOMINGREQUEST")
     \/ ~Registered(s) /\ Refuse(s, "FRIENDSENDERRESPONSE")
  /\ Done(s)
  /\ UNCHANGED <<db, redisVars, local, clientVars, down, faults>>

\* Without a session the handler dereferences the empty optional: the server
\* crashes, or what it reads there passes for a session.
PushConfirm(s) ==
  /\ PushHere(s, "confirm")
  /\ Done(s)
  /\ \/ /\ Pushed(s, "FRIENDING_ON_BIDDIRECTIONAL") \/ Missed(s)
        /\ UNCHANGED <<local, leaving, at, down>>
     \/ /\ Missed(s)
        /\ down' = down \cup {s}
        /\ local' = [local EXCEPT ![s] = {}]
        /\ at' = [u \in Users |-> IF at[u] = s THEN NoOne ELSE at[u]]
        /\ leaving' = {x \in leaving : route[x[1]].on # s}
  /\ UNCHANGED <<db, route, logins, requests, faults>>

\* The receiver is on another server: what the thread of the call does there.
SendFriendRequest(s) ==
  /\ PushThere(s, "create") /\ job[s].via \notin down
  /\ \/ Pushed(s, "FRIENDREINCOMINGREQUEST") /\ Goto(s, "success")
     \/ Missed(s) /\ Goto(s, "failure")
  /\ UNCHANGED <<db, redisVars, local, clientVars, down, faults>>

ConfirmFriendRequest(s) ==
  /\ PushThere(s, "confirm") /\ job[s].via \notin down
  /\ Pushed(s, "FRIENDING_ON_BIDDIRECTIONAL") \/ Missed(s)
  /\ Done(s)
  /\ UNCHANGED <<db, redisVars, local, clientVars, down, faults>>

SendChattingTextMsg(s) ==
  /\ PushThere(s, "text") /\ job[s].via \notin down
  /\ Pushed(s, "TEXTCHATMSGICOMINGREQUEST") \/ Missed(s)
  /\ Done(s)
  /\ UNCHANGED <<db, redisVars, local, clientVars, down, faults>>

\* The call fails: only the sender of a friend request is told.
RequestCallFails(s) ==
  /\ PushThere(s, "create")
  /\ CallFails(s, "FRIENDREINCOMINGREQUEST")
  /\ Goto(s, "failure")
  /\ UNCHANGED <<db, redisVars, local, clientVars, down>>

ConfirmCallFails(s) ==
  /\ PushThere(s, "confirm")
  /\ CallFails(s, "FRIENDING_ON_BIDDIRECTIONAL")
  /\ Done(s)
  /\ UNCHANGED <<db, redisVars, local, clientVars, down>>

TextCallFails(s) ==
  /\ PushThere(s, "text")
  /\ CallFails(s, "TEXTCHATMSGICOMINGREQUEST")
  /\ Done(s)
  /\ UNCHANGED <<db, redisVars, local, clientVars, down>>

\* The answer to the sender of a friend request.
Report(s) ==
  /\ job[s].step \in {"success", "failure"}
  /\ IF job[s].step = "success" THEN Reply(s, "FRIENDSENDERRESPONSE", 0, <<>>)
     ELSE Refuse(s, "FRIENDSENDERRESPONSE")
  /\ Done(s)
  /\ UNCHANGED <<db, redisVars, local, clientVars, down, faults>>

-----------------------------------------------------------------------------
(* Login and logout                                                        *)

\* A client that is not connected connects to a server and logs in.
AskLogin(s, u) ==
  /\ at[u] = NoOne
  /\ s \notin down
  /\ logins[u] < MaxLogins
  /\ job[s] = Idle
  /\ at' = [at EXCEPT ![u] = s]
  /\ logins' = [logins EXCEPT ![u] = @ + 1]
  /\ job' = [job EXCEPT ![s] = [Idle EXCEPT !.op = "login", !.step = "label", !.user = u,
                                           !.seen = Len(inbox[u])]]
  /\ UNCHANGED <<db, redisVars, local, requests, inbox, down, faults>>

\* updateRedisCache.  A client has one connection at a time here: takeovers are
\* the subject of UserSessions.
UpdateRedisCache(s) ==
  LET u == job[s].user IN
  /\ Now(s, "login", "label")
  /\ \/ /\ route' = [route EXCEPT ![u] = [on |-> s, sid |-> logins[u]]]
        /\ Goto(s, "register")
        /\ UNCHANGED <<at, inbox, faults>>
     \/ /\ Fault           \* the balance server does not know the token
        /\ Refuse(s, "LOGINRESPONSE")
        /\ at' = [at EXCEPT ![u] = NoOne]
        /\ Done(s)
        /\ UNCHANGED route
  /\ UNCHANGED <<db, leaving, local, logins, requests, down>>

CreateUserSession(s) ==
  /\ Now(s, "login", "register")
  /\ local' = [local EXCEPT ![s] = @ \cup {job[s].user}]
  /\ Goto(s, "lists")
  /\ UNCHANGED <<db, redisVars, clientVars, inbox, down, faults>>

\* kick_session of a user without a profile.
KickUnknown(s) ==
  LET u == job[s].user IN
  /\ Now(s, "login", "lists")
  /\ ~GetUserBasicInfo(u)
  /\ inbox' = [inbox EXCEPT ![u] = @ \o
       <<Msg("LOGINRESPONSE", FALSE, 0, 0, <<>>), Msg("LOGOUTRESPONSE", TRUE, 0, 0, <<>>)>>]
  /\ route' = [route EXCEPT ![u] = IF @.sid = logins[u] THEN [on |-> NoOne, sid |-> 0] ELSE @]
  /\ local' = [local EXCEPT ![s] = @ \ {u}]
  /\ at' = [at EXCEPT ![u] = NoOne]
  /\ Done(s)
  /\ UNCHANGED <<db, leaving, logins, requests, down, faults>>

\* getFriendRequestInfo and getAuthFriendsInfo, and the answer.
LoginResponse(s) ==
  LET u == job[s].user
      Items(type, S) == LET T == Ascending(S) IN
                        [k \in DOMAIN T |-> Msg(type, TRUE, T[k], 0, <<>>)] IN
  /\ Now(s, "login", "lists")
  /\ GetUserBasicInfo(u)
  /\ inbox' = [inbox EXCEPT ![u] = @ \o
       <<Msg("LOGINRESPONSE", TRUE, 0, 0, <<>>)>>
       \o Items("FriendRequestList", FriendingRequestList(db, u))
       \o Items("AuthFriendList", AuthenticFriendsList(db, u))]
  /\ Done(s)
  /\ UNCHANGED <<db, redisVars, local, clientVars, down, faults>>

AskLogout(s, u) == logins[u] < MaxLogins /\ Accept(s, u, "logout", "answer", 0, 0, 0)

\* handlingLogout; the client disconnects when it reads the answer.
HandlingLogout(s) ==
  LET u == job[s].user IN
  /\ Now(s, "logout", "answer")
  /\ \/ /\ Reply(s, "LOGOUTRESPONSE", 0, <<>>)
        /\ local' = [local EXCEPT ![s] = @ \ {u}]
        /\ leaving' = leaving \cup {<<u, logins[u]>>}
        /\ at' = [at EXCEPT ![u] = NoOne]
        /\ UNCHANGED faults
     \/ Fault /\ Refuse(s, "LOGOUTRESPONSE") /\ UNCHANGED <<local, leaving, at>>
  /\ Done(s)
  /\ UNCHANGED <<db, route, logins, requests, down>>

\* purgeRemoveConnection on the io thread, once the session's read has ended.
Purge(u, n) ==
  /\ <<u, n>> \in leaving
  /\ leaving' = leaving \ {<<u, n>>}
  /\ route' = [route EXCEPT ![u] = IF @.sid = n THEN [on |-> NoOne, sid |-> 0] ELSE @]
  /\ UNCHANGED <<db, local, clientVars, job, inbox, down, faults>>

-----------------------------------------------------------------------------
Ask(s, u) ==
  \/ AskSearch(s, u) \/ AskThreads(s, u) \/ AskRecords(s, u) \/ AskChat(s, u)
  \/ AskFriend(s, u) \/ AskConfirm(s, u) \/ AskText(s, u)
  \/ AskLogin(s, u) \/ AskLogout(s, u)

Work(s) ==
  \/ HandlingUserSearch(s) \/ HandlingUserChatThreads(s) \/ HandlingUserChatMessage(s)
  \/ CheckPrivateChatExistance(s) \/ CreateNewPrivateChat(s)
  \/ HandlingFriendRequestCreator(s) \/ HandlingFriendRequestConfirm(s) \/ StoreText(s)
  \/ RouteRequest(s) \/ RouteConfirm(s) \/ RouteText(s)
  \/ PushRequest(s) \/ PushConfirm(s) \/ PushText(s)
  \/ SendFriendRequest(s) \/ ConfirmFriendRequest(s) \/ SendChattingTextMsg(s)
  \/ RequestCallFails(s) \/ ConfirmCallFails(s) \/ TextCallFails(s) \/ Report(s)
  \/ UpdateRedisCache(s) \/ CreateUserSession(s) \/ KickUnknown(s) \/ LoginResponse(s)
  \/ HandlingLogout(s)

Next ==
  \/ \E s \in Servers, u \in Users : Ask(s, u)
  \/ \E s \in Servers : Work(s)
  \/ \E u \in Users, n \in 1..MaxLogins : Purge(u, n)

Spec == Init /\ [][Next]_vars
FairSpec == Spec /\ \A s \in Servers : WF_vars(Work(s))

-----------------------------------------------------------------------------
(* Properties                                                              *)

\* A friendship is whole, however confirmations cross and private chats are
\* created meanwhile on other servers (execFriendConfirmationTransaction): it is
\* recorded both ways, exactly if a request between the two is confirmed, and the
\* pair has one chat with a greeting of each; no two chats share a pair or an id.
FriendshipWhole == Whole(db)

\* A user who goes from next_thread_id to next_thread_id until is_complete
\* (getUserChattingThreadIdx) is given each of its threads, and no thread twice.
PagingLosesNothing ==
  \A u \in Users : \A cur \in 0..db.threads :
    ThreadPageFound(db, u, cur) =>
      LET page == ThreadPage(db, u, cur)
          rest == UserThreads(db, u, page.next) IN
      /\ page.rows \cup rest = UserThreads(db, u, cur)
      /\ page.rows \cap rest = {}
      /\ page.end <=> rest = {}

\* What clients see of messages is a mailbox: only stored messages are shown, to
\* the two they are between, once, and those of another user in the order they were
\* stored; the answers to its texts confirm them once and in order; whichever
\* servers the two are on.
Receipt(m) == m.type = "TEXTCHATMSGRESPONSE"
SeenLists(box) == [i \in DOMAIN box |-> IF Receipt(box[i]) THEN <<>> ELSE box[i].ids]
ToldLists(box) == [i \in DOMAIN box |-> IF Receipt(box[i]) THEN box[i].ids ELSE <<>>]
Abstract == INSTANCE Mailbox WITH
  bank <- [i \in DOMAIN db.bank |-> [from |-> db.bank[i].from, to |-> db.bank[i].to]],
  seen <- [u \in Users |-> SeenLists(inbox[u])],
  told <- [u \in Users |-> ToldLists(inbox[u])]
ImplementsMailbox == Abstract!Spec

\* The answer a request is owed (the handlers' responses, error or not).
Answer(op) ==
  CASE op = "search" -> "SEARCHUSERNAMERESPONSE"
    [] op = "create" -> "FRIENDSENDERRESPONSE"
    [] op = "confirm" -> "FRIENDCONFIRMRESPONSE"
    [] op = "text" -> "TEXTCHATMSGRESPONSE"
    [] op = "threads" -> "PULLCHATTHREADRESPONSE"
    [] op = "records" -> "PULLCHATRECORDRESPONSE"
    [] op = "chat" -> "CREATENEWPRIVATECHAT_RESPONSE"
    [] op = "logout" -> "LOGOUTRESPONSE"
    [] op = "login" -> "LOGINRESPONSE"

\* Every request a worker takes is brought to an end, and is answered by then,
\* whatever the database, the routes and the other servers do; except that the
\* server crashes, or the conversion of a thread id throws, which execute catches
\* without an answer.
Throws(s) == (job[s].op = "threads" /\ PagingThrows) \/ (job[s].op = "chat" /\ LookupThrows)
EndsAnswered(s) ==
  job[s] # Idle /\ job'[s] = Idle /\ ~Throws(s) =>
    \/ s \in down'
    \/ \E i \in DOMAIN inbox'[job[s].user] :
         i > job[s].seen /\ inbox'[job[s].user][i].type = Answer(job[s].op)
RequestAnswered ==
  /\ [][\A s \in Servers : EndsAnswered(s)]_vars
  /\ \A s \in Servers : (job[s] # Idle) ~> (job[s] = Idle)
=============================================================================
