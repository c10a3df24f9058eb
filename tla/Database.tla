------------------------------ MODULE Database ------------------------------
(* The MySQL layer of the chatting server (MySQLConnection.cpp) over the    *)
(* statements of MySQLConnectionPool.cpp and the tables of conf: one        *)
(* operator per statement, and one per method, each the effect and the      *)
(* result of one transaction.  InnoDB's row locks make the transactions of  *)
(* a method atomic (SELECT ... FOR UPDATE comes first in each), except that *)
(* of createNewPrivateChat, whose SELECT of a missing row keeps nobody out. *)
EXTENDS Naturals, Sequences, FiniteSets, SequencesExt

CONSTANTS
  Users,          \* the uuids of the registered users, from 1 on
  ReceiverColumn, \* has ChatMsgHistoryBank the column message_receiver?
  ThreadIdKind,   \* how the server reads a thread_id: "int64", "uint64", "string"
  PageSize        \* the interval of a page of threads: 10 in the handlers

ASSUME UsersAssumption == Users \subseteq Nat \ {0} /\ IsFiniteSet(Users)
ASSUME SchemaAssumption ==
  /\ ReceiverColumn \in BOOLEAN
  /\ ThreadIdKind \in {"int64", "uint64", "string"}
  /\ PageSize \in Nat \ {0}

\* A database is a record of tables: the users with a row in UserProfile,
\* FriendRequest (its id is the position), AuthFriend, PrivateChat, the last id of
\* GlobalThreadIndexTable and ChatMsgHistoryBank (message_id is the position).
EmptyDb == [profile |-> Users, request |-> <<>>, auth |-> {}, chat |-> {},
            threads |-> 0, bank |-> <<>>]

IsDatabase(db) ==
  /\ db \in [profile : SUBSET Users, request : Seq([src : Users, dst : Users, status : {0, 1}]),
             auth : SUBSET (Users \X Users), chat : SUBSET [thread : Nat, one : Users, two : Users],
             threads : Nat, bank : Seq([thread : Nat, from : Users, to : Users])]
  /\ \A c \in db.chat : c.thread \in 1..db.threads
  /\ \A i \in DOMAIN db.request : db.request[i].src # db.request[i].dst

Smaller(u, v) == IF u < v THEN u ELSE v
Larger(u, v) == IF u < v THEN v ELSE u

-----------------------------------------------------------------------------
(* Statements                                                              *)

UserUuidCheck(u) == u \in Users

UserProfile(db, u) == u \in db.profile

InsertFriendRequest(db, src, dst) ==
  [db EXCEPT !.request = Append(@, [src |-> src, dst |-> dst, status |-> 0])]

RequestRows(db, src, dst) ==
  {i \in DOMAIN db.request : db.request[i].src = src /\ db.request[i].dst = dst}

\* UPDATE: the rows it matches, and affected_rows, those it changes.
UpdateRequestStatus(db, src, dst) ==
  [db EXCEPT !.request =
     [i \in DOMAIN @ |-> IF i \in RequestRows(db, src, dst)
                         THEN [@[i] EXCEPT !.status = 1] ELSE @[i]]]

AffectedRequests(db, src, dst) ==
  {i \in RequestRows(db, src, dst) : db.request[i].status # 1}

\* WHERE status = ? AND dst_uuid = ? AND id > ?
FriendRequestList(db, status, dst, start) ==
  {db.request[i].src : i \in {j \in DOMAIN db.request :
     db.request[j].status = status /\ db.request[j].dst = dst /\ j > start}}

\* AuthFriend joined with FriendRequest on self_uuid = dst_uuid,
\* WHERE FR.status = ? AND AF.self_uuid = ? AND AF.id > 0
AuthFriendList(db, status, self) ==
  {f \in Users : /\ <<self, f>> \in db.auth
                 /\ \E i \in DOMAIN db.request : /\ db.request[i].dst = self
                                                 /\ db.request[i].status = status}

\* INSERT IGNORE with the unique key (self_uuid, friend_uuid).
InsertAuthFriend(db, friend, self) == [db EXCEPT !.auth = @ \cup {<<self, friend>>}]

PrivateChats(db, one, two) == {c \in db.chat : c.one = one /\ c.two = two}

InsertThreadIndex(db) == [db EXCEPT !.threads = @ + 1]

\* INSERT with the unique key (user1_uuid, user2_uuid), tested by the caller.
InsertPrivateChat(db, t, one, two) ==
  [db EXCEPT !.chat = @ \cup {[thread |-> t, one |-> one, two |-> two]}]

InsertMsgHistory(db, t, src, dst) ==
  [db EXCEPT !.bank = Append(@, [thread |-> t, from |-> src, to |-> dst])]

\* The threads of a user above an id.  Group chats are never created.
UserThreads(db, u, above) ==
  {c.thread : c \in {d \in db.chat : u \in {d.one, d.two} /\ d.thread > above}}

ChatRecords(db, t, above) == {i \in DOMAIN db.bank : db.bank[i].thread = t /\ i > above}

\* ORDER BY id, and its LIMIT n.
Below(S, x) == {y \in S : y < x}
Ascending(S) ==
  [i \in 1..Cardinality(S) |-> CHOOSE x \in S : Cardinality(Below(S, x)) = i - 1]
FirstOf(n, S) == {x \in S : Cardinality(Below(S, x)) < n}

\* affected_rows() of a SELECT.
AffectedBySelect(rows) == 0

-----------------------------------------------------------------------------
(* Variants of the code that the properties below reject.                  *)

\* No rollback: what was inserted before the chat that is there already stays.
ConfirmFriend_NoRollback(db, requester, confirmer) ==
  LET t == db.threads + 1
      one == Smaller(requester, confirmer)
      two == Larger(requester, confirmer)
      friends == InsertThreadIndex(InsertAuthFriend(InsertAuthFriend(
                   UpdateRequestStatus(db, requester, confirmer),
                     requester, confirmer), confirmer, requester)) IN
  IF \/ AffectedRequests(db, requester, confirmer) = {}
     \/ <<requester, confirmer>> \in db.auth
  THEN [found |-> FALSE, db |-> db]
  ELSE IF PrivateChats(db, one, two) # {}
  THEN [found |-> FALSE, db |-> friends]
  ELSE [found |-> TRUE,
        db |-> InsertMsgHistory(InsertMsgHistory(InsertPrivateChat(friends, t, one, two),
                 t, requester, confirmer), t, confirmer, requester)]

\* The row fetched to test for the end is dropped from the list after its id was
\* taken as the cursor.
Page_SkipsOne(S, n) ==
  LET got == FirstOf(n + 1, S) IN
  [rows |-> FirstOf(n, S), next |-> CHOOSE x \in got : \A y \in got : y <= x,
   end |-> Cardinality(got) <= n]

\* No row is made in GlobalThreadIndexTable: the id is the next one all the same.
CreatePrivateChat_NoIndex(db, u, v) ==
  LET one == Smaller(u, v)
      two == Larger(u, v) IN
  IF PrivateChats(db, one, two) # {}
  THEN [found |-> FALSE, db |-> db]
  ELSE [found |-> TRUE, db |-> InsertPrivateChat(db, db.threads + 1, one, two)]

-----------------------------------------------------------------------------
(* Methods                                                                 *)

\* The first n of the rows, the last of them as the cursor, and whether a row
\* more than n came back.  Called for a result that is not empty.
Page(S, n) ==
  LET got == FirstOf(n, S) IN
  [rows |-> got, next |-> CHOOSE x \in got : \A y \in got : y <= x,
   end |-> Cardinality(FirstOf(n + 1, S)) <= n]

\* getUUIDByUsername: the name of a user nobody registered is 0 here.
GetUuidByUsername(name) == UserUuidCheck(name)

\* getUserProfile.
GetUserProfile(db, u) == UserUuidCheck(u) /\ UserProfile(db, u)

\* createFriendRequest.
CreateFriendRequest(db, src, dst) ==
  IF src # dst /\ UserUuidCheck(src) /\ UserUuidCheck(dst)
  THEN [found |-> TRUE, db |-> InsertFriendRequest(db, src, dst)]
  ELSE [found |-> FALSE, db |-> db]

\* execFriendConfirmationTransaction: every statement must affect a row, or the
\* guard rolls all of them back; only the thread index keeps its gap.
ConfirmFriend(db, requester, confirmer) ==
  LET t == db.threads + 1
      one == Smaller(requester, confirmer)
      two == Larger(requester, confirmer) IN
  IF \/ RequestRows(db, requester, confirmer) = {}
     \/ AffectedRequests(db, requester, confirmer) = {}
     \/ {<<confirmer, requester>>, <<requester, confirmer>>} \cap db.auth # {}
  THEN [found |-> FALSE, db |-> db]
  ELSE IF PrivateChats(db, one, two) # {} \/ ~ReceiverColumn
  THEN [found |-> FALSE, db |-> InsertThreadIndex(db)]
  ELSE [found |-> TRUE,
        db |-> InsertMsgHistory(InsertMsgHistory(
                 InsertPrivateChat(InsertThreadIndex(
                   InsertAuthFriend(InsertAuthFriend(
                     UpdateRequestStatus(db, requester, confirmer),
                       requester, confirmer), confirmer, requester)), t, one, two),
                 t, requester, confirmer), t, confirmer, requester)]

\* createModifyChattingHistoryRecord, one message: the pair must have a chat,
\* but the message goes to the thread its sender names.
StoreMessage(db, t, src, dst) ==
  IF \/ src = dst \/ ~UserUuidCheck(src) \/ ~UserUuidCheck(dst)
     \/ PrivateChats(db, Smaller(src, dst), Larger(src, dst)) = {}
     \/ ~ReceiverColumn
  THEN [found |-> FALSE, db |-> db]
  ELSE [found |-> TRUE, db |-> InsertMsgHistory(db, t, src, dst)]

\* createNewPrivateChat, the SELECT: the chat that is there, or the pair is free.
\* as_string on a column of another type throws, and no handler catches it.
PrivateChatThere(db, u, v) == PrivateChats(db, Smaller(u, v), Larger(u, v)) # {}
LookupThrows == ThreadIdKind # "string"

\* createNewPrivateChat, the two INSERTs: the second fails on the unique key when
\* another has been faster, and leaves a gap in the thread index.
CreatePrivateChat(db, u, v) ==
  LET one == Smaller(u, v)
      two == Larger(u, v) IN
  IF PrivateChats(db, one, two) # {}
  THEN [found |-> FALSE, db |-> InsertThreadIndex(db)]
  ELSE [found |-> TRUE,
        db |-> InsertPrivateChat(InsertThreadIndex(db), db.threads + 1, one, two)]

\* getUserChattingThreadIdx: as_int64 on a column of another type throws.
PagingThrows == ThreadIdKind # "int64"
ThreadPageFound(db, u, cur) == UserUuidCheck(u) /\ UserThreads(db, u, cur) # {}
ThreadPage(db, u, cur) == Page(UserThreads(db, u, cur), PageSize)

\* getChattingHistoryRecord: it asks affected_rows of a SELECT first.
RecordPageFound(db, t, cur) ==
  LET rows == FirstOf(PageSize + 1, ChatRecords(db, t, cur)) IN
  AffectedBySelect(rows) # 0 /\ rows # {}

\* getFriendingRequestList(dst, 0, interval) and getAuthenticFriendsList(self, 0,
\* interval): the arguments are bound in the order uuid, status, while the
\* statements ask for status, uuid.
FriendingRequestList(db, dst) == FriendRequestList(db, dst, 0, 0)
AuthenticFriendsList(db, self) == AuthFriendList(db, self, 1)

-----------------------------------------------------------------------------
(* What the transactions keep                                              *)

\* A friendship is recorded both ways,
Mutual(db) == \A u, v \in Users : <<u, v>> \in db.auth <=> <<v, u>> \in db.auth

\* exactly if a request between the two is confirmed,
ConfirmedRow(db, u, v) == \E i \in RequestRows(db, u, v) : db.request[i].status = 1
Confirmed(db) ==
  \A u, v \in Users :
    <<u, v>> \in db.auth <=> ConfirmedRow(db, u, v) \/ ConfirmedRow(db, v, u)

\* and the pair has a chat with a greeting of each;
Greets(db, t, u, v) == \E i \in DOMAIN db.bank : db.bank[i] = [thread |-> t, from |-> u, to |-> v]
Greeted(db) ==
  \A u, v \in Users : <<u, v>> \in db.auth =>
    \E c \in PrivateChats(db, Smaller(u, v), Larger(u, v)) : Greets(db, c.thread, u, v)

\* no two chats share a pair or an id.
Distinct(db) ==
  \A c, d \in db.chat : c.thread = d.thread \/ (c.one = d.one /\ c.two = d.two) => c = d

Whole(db) == Mutual(db) /\ Confirmed(db) /\ Greeted(db) /\ Distinct(db)
=============================================================================
