-------------------------- MODULE MessagingProofs --------------------------
(* What holds of messaging for any number of users, servers, requests and   *)
(* faults: friendships are whole, the types are kept, pages of threads lose *)
(* nothing, what clients see is a mailbox, and no request ends unanswered.  *)
EXTENDS Messaging, SequenceTheorems, FiniteSetTheorems, WellFoundedInduction, TLAPS

-----------------------------------------------------------------------------
(* Friendships: every transaction of MySQLConnection.cpp that a handler     *)
(* makes leaves them whole, in whatever state the handlers of other servers *)
(* are.                                                                     *)

\* The tables, as far as the proof needs their types: chats have the ids of the
\* thread index.
DbOK(d) ==
  /\ d = [profile |-> d.profile, request |-> d.request, auth |-> d.auth, chat |-> d.chat,
          threads |-> d.threads, bank |-> d.bank]
  /\ d.request \in Seq([src : Users, dst : Users, status : {0, 1}])
  /\ d.threads \in Nat
  /\ \A c \in d.chat : c.thread \in 1..d.threads
  /\ \E S : d.bank \in Seq(S)

DbInv == DbOK(db) /\ Whole(db)

\* What is in a sequence stays where it is when something is appended.
LEMMA AppendKeeps ==
  ASSUME NEW q, \E S : q \in Seq(S), NEW m
  PROVE  /\ \E S : Append(q, m) \in Seq(S)
         /\ DOMAIN q \subseteq DOMAIN Append(q, m)
         /\ \A i \in DOMAIN q : Append(q, m)[i] = q[i]
         /\ \E i \in DOMAIN Append(q, m) : Append(q, m)[i] = m
<1>1. PICK S : q \in Seq(S)
  OBVIOUS
<1>2. q \in Seq(S \cup {m})
  BY <1>1
<1>3. Append(q, m) \in Seq(S \cup {m})
  BY <1>2
<1>4. Append(q, m)[Len(q) + 1] = m /\ Len(q) + 1 \in DOMAIN Append(q, m)
  BY <1>2
<1> QED
  BY <1>2, <1>3, <1>4

\* Where the friends, the confirmed requests, the chats and the greetings stay, a
\* friendship stays whole.
LEMMA SameFriends ==
  ASSUME NEW d, NEW e, Whole(d), e.auth = d.auth, Distinct(e),
         \A u, v : ConfirmedRow(e, u, v) <=> ConfirmedRow(d, u, v),
         \A u, v : PrivateChats(d, u, v) \subseteq PrivateChats(e, u, v),
         \A k, u, v : Greets(d, k, u, v) => Greets(e, k, u, v)
  PROVE  Whole(e)
<1>1. Mutual(e)
  BY DEF Whole, Mutual
<1>2. Confirmed(e)
  <2>1. SUFFICES ASSUME NEW u \in Users, NEW v \in Users
        PROVE  <<u, v>> \in d.auth <=> ConfirmedRow(e, u, v) \/ ConfirmedRow(e, v, u)
    BY DEF Confirmed
  <2>2. <<u, v>> \in d.auth <=> ConfirmedRow(d, u, v) \/ ConfirmedRow(d, v, u)
    BY DEF Whole, Confirmed
  <2> QED
    BY <2>2
<1>3. Greeted(e)
  <2>1. SUFFICES ASSUME NEW u \in Users, NEW v \in Users, <<u, v>> \in d.auth
        PROVE  \E c \in PrivateChats(e, Smaller(u, v), Larger(u, v)) : Greets(e, c.thread, u, v)
    BY DEF Greeted
  <2>2. PICK c \in PrivateChats(d, Smaller(u, v), Larger(u, v)) : Greets(d, c.thread, u, v)
    BY <2>1 DEF Whole, Greeted
  <2> QED
    BY <2>2
<1> QED
  BY <1>1, <1>2, <1>3 DEF Whole

\* A new request is not confirmed yet.
LEMMA CreateFriendRequestKeeps ==
  ASSUME NEW d, DbOK(d), Whole(d), NEW src, NEW dst
  PROVE  DbOK(CreateFriendRequest(d, src, dst).db) /\ Whole(CreateFriendRequest(d, src, dst).db)
<1> DEFINE q == Append(d.request, [src |-> src, dst |-> dst, status |-> 0])
<1>1. PICK e : e = CreateFriendRequest(d, src, dst).db
  OBVIOUS
<1>2. CASE e = d
  BY <1>1, <1>2
<1>3. CASE e # d
  <2>1. e = [profile |-> d.profile, request |-> q, auth |-> d.auth, chat |-> d.chat,
             threads |-> d.threads, bank |-> d.bank]
    BY <1>1, <1>3 DEF CreateFriendRequest, InsertFriendRequest, DbOK
  <2>2. q \in Seq([src : Users, dst : Users, status : {0, 1}])
    BY <1>1, <1>3 DEF CreateFriendRequest, DbOK, UserUuidCheck
  <2>3. DbOK(e)
    BY <2>1, <2>2 DEF DbOK
  <2>4. /\ \A i \in DOMAIN d.request : i \in DOMAIN q /\ q[i] = d.request[i]
        /\ \A i \in DOMAIN q : i \in DOMAIN d.request \/ q[i].status = 0
    BY DEF DbOK
  <2>5. \A u, v : ConfirmedRow(e, u, v) <=> ConfirmedRow(d, u, v)
    BY <2>1, <2>4 DEF ConfirmedRow, RequestRows
  <2>6. \A u, v : PrivateChats(d, u, v) \subseteq PrivateChats(e, u, v)
    BY <2>1 DEF PrivateChats
  <2>7. \A k, u, v : Greets(d, k, u, v) => Greets(e, k, u, v)
    BY <2>1 DEF Greets
  <2>8. Distinct(e) /\ e.auth = d.auth
    BY <2>1 DEF Whole, Distinct
  <2>9. Whole(e)
    BY <2>5, <2>6, <2>7, <2>8, SameFriends
  <2> QED
    BY <1>1, <2>3, <2>9
<1> QED
  BY <1>2, <1>3

\* A text leaves the greetings where they are.
LEMMA StoreMessageKeeps ==
  ASSUME NEW d, DbOK(d), Whole(d), NEW t, NEW src, NEW dst
  PROVE  DbOK(StoreMessage(d, t, src, dst).db) /\ Whole(StoreMessage(d, t, src, dst).db)
<1> DEFINE q == Append(d.bank, [thread |-> t, from |-> src, to |-> dst])
<1>1. PICK e : e = StoreMessage(d, t, src, dst).db
  OBVIOUS
<1>2. CASE e = d
  BY <1>1, <1>2
<1>3. CASE e # d
  <2>1. e = [profile |-> d.profile, request |-> d.request, auth |-> d.auth, chat |-> d.chat,
             threads |-> d.threads, bank |-> q]
    BY <1>1, <1>3 DEF StoreMessage, InsertMsgHistory, DbOK
  <2>2. /\ \E S : q \in Seq(S)
        /\ \A i \in DOMAIN d.bank : i \in DOMAIN q /\ q[i] = d.bank[i]
    BY AppendKeeps DEF DbOK
  <2> HIDE DEF q
  <2>3. DbOK(e)
    BY <2>1, <2>2 DEF DbOK
  <2>4. \A u, v : ConfirmedRow(e, u, v) <=> ConfirmedRow(d, u, v)
    BY <2>1 DEF ConfirmedRow, RequestRows
  <2>5. \A u, v : PrivateChats(d, u, v) \subseteq PrivateChats(e, u, v)
    BY <2>1 DEF PrivateChats
  <2>6. \A k, u, v : Greets(d, k, u, v) => Greets(e, k, u, v)
    BY <2>1, <2>2 DEF Greets
  <2>7. Distinct(e) /\ e.auth = d.auth
    BY <2>1 DEF Whole, Distinct
  <2>8. Whole(e)
    BY <2>4, <2>5, <2>6, <2>7, SameFriends
  <2> QED
    BY <1>1, <2>3, <2>8
<1> QED
  BY <1>2, <1>3

\* A gap in the thread index is all that a refused insertion leaves.
LEMMA InsertThreadIndexKeeps ==
  ASSUME NEW d, DbOK(d), Whole(d)
  PROVE  DbOK(InsertThreadIndex(d)) /\ Whole(InsertThreadIndex(d))
<1>1. PICK e : e = InsertThreadIndex(d)
  OBVIOUS
<1>2. e = [profile |-> d.profile, request |-> d.request, auth |-> d.auth, chat |-> d.chat,
           threads |-> d.threads + 1, bank |-> d.bank]
  BY <1>1 DEF InsertThreadIndex, DbOK
<1>3. DbOK(e)
  BY <1>2 DEF DbOK
<1>4. \A u, v : ConfirmedRow(e, u, v) <=> ConfirmedRow(d, u, v)
  BY <1>2 DEF ConfirmedRow, RequestRows
<1>5. \A u, v : PrivateChats(d, u, v) \subseteq PrivateChats(e, u, v)
  BY <1>2 DEF PrivateChats
<1>6. \A k, u, v : Greets(d, k, u, v) => Greets(e, k, u, v)
  BY <1>2 DEF Greets
<1>7. Distinct(e) /\ e.auth = d.auth
  BY <1>2 DEF Whole, Distinct
<1>8. Whole(e)
  BY <1>4, <1>5, <1>6, <1>7, SameFriends
<1> QED
  BY <1>1, <1>3, <1>8

\* A chat is new to its pair and has an id of its own, whatever other servers
\* inserted since the pair was looked up.
LEMMA CreatePrivateChatKeeps ==
  ASSUME NEW d, DbOK(d), Whole(d), NEW x, NEW y
  PROVE  DbOK(CreatePrivateChat(d, x, y).db) /\ Whole(CreatePrivateChat(d, x, y).db)
<1> DEFINE t == d.threads + 1
           n == [thread |-> t, one |-> Smaller(x, y), two |-> Larger(x, y)]
<1>1. PICK e : e = CreatePrivateChat(d, x, y).db
  OBVIOUS
<1>2. CASE PrivateChats(d, Smaller(x, y), Larger(x, y)) # {}
  BY <1>1, <1>2, InsertThreadIndexKeeps DEF CreatePrivateChat
<1>3. CASE PrivateChats(d, Smaller(x, y), Larger(x, y)) = {}
  <2>1. e = [profile |-> d.profile, request |-> d.request, auth |-> d.auth,
             chat |-> d.chat \cup {n}, threads |-> t, bank |-> d.bank]
    BY <1>1, <1>3 DEF CreatePrivateChat, InsertThreadIndex, InsertPrivateChat, DbOK
  <2>2. DbOK(e)
    BY <2>1 DEF DbOK
  <2>3. \A c \in d.chat : c.thread # t /\ ~(c.one = Smaller(x, y) /\ c.two = Larger(x, y))
    BY <1>3 DEF DbOK, PrivateChats
  <2>4. \A u, v : ConfirmedRow(e, u, v) <=> ConfirmedRow(d, u, v)
    BY <2>1 DEF ConfirmedRow, RequestRows
  <2>5. \A u, v : PrivateChats(d, u, v) \subseteq PrivateChats(e, u, v)
    BY <2>1 DEF PrivateChats
  <2>6. \A k, u, v : Greets(d, k, u, v) => Greets(e, k, u, v)
    BY <2>1 DEF Greets
  <2>7. Distinct(e)
    BY <2>1, <2>3 DEF Whole, Distinct
  <2>8. e.auth = d.auth
    BY <2>1
  <2>9. Whole(e)
    BY <2>4, <2>5, <2>6, <2>7, <2>8, SameFriends
  <2> QED
    BY <1>1, <2>2, <2>9
<1> QED
  BY <1>2, <1>3

\* A confirmation makes two strangers friends, with one more chat and a greeting of
\* each, or leaves no more than a gap in the thread index.
LEMMA ConfirmFriendKeeps ==
  ASSUME NEW d, DbOK(d), Whole(d), NEW x, NEW y
  PROVE  DbOK(ConfirmFriend(d, x, y).db) /\ Whole(ConfirmFriend(d, x, y).db)
<1> DEFINE t == d.threads + 1
           one == Smaller(x, y)
           two == Larger(x, y)
           n == [thread |-> t, one |-> one, two |-> two]
           xy == [thread |-> t, from |-> x, to |-> y]
           yx == [thread |-> t, from |-> y, to |-> x]
<1>1. PICK e : e = ConfirmFriend(d, x, y).db
  OBVIOUS
<1>2. CASE e = d
  BY <1>1, <1>2
<1>3. CASE e = InsertThreadIndex(d)
  BY <1>1, <1>3, InsertThreadIndexKeeps
<1>4. CASE e # d /\ e # InsertThreadIndex(d)
  <2>1. /\ RequestRows(d, x, y) # {}
        /\ <<y, x>> \notin d.auth /\ <<x, y>> \notin d.auth
        /\ PrivateChats(d, one, two) = {}
    BY <1>1, <1>4 DEF ConfirmFriend
  <2>2. e = InsertMsgHistory(InsertMsgHistory(
              InsertPrivateChat(InsertThreadIndex(
                InsertAuthFriend(InsertAuthFriend(
                  UpdateRequestStatus(d, x, y), x, y), y, x)), t, one, two), t, x, y), t, y, x)
    BY <1>1, <1>4 DEF ConfirmFriend
  <2>3. PICK q : q = [i \in DOMAIN d.request |-> IF i \in RequestRows(d, x, y)
                        THEN [d.request[i] EXCEPT !.status = 1] ELSE d.request[i]]
    OBVIOUS
  <2>4. UpdateRequestStatus(d, x, y) =
          [profile |-> d.profile, request |-> q, auth |-> d.auth, chat |-> d.chat,
           threads |-> d.threads, bank |-> d.bank]
    <3>1. UpdateRequestStatus(d, x, y) = [d EXCEPT !.request = q]
      BY <2>3 DEF UpdateRequestStatus
    <3> QED
      BY <3>1 DEF DbOK
  <2>5. e = [profile |-> d.profile, request |-> q,
             auth |-> (d.auth \cup {<<y, x>>}) \cup {<<x, y>>},
             chat |-> d.chat \cup {n}, threads |-> t, bank |-> Append(Append(d.bank, xy), yx)]
    <3> DEFINE Db(auth, chat, threads, bank) ==
          [profile |-> d.profile, request |-> q, auth |-> auth, chat |-> chat,
           threads |-> threads, bank |-> bank]
    <3>1. \A A, C, k, b : \A u, v : InsertAuthFriend(Db(A, C, k, b), u, v) =
            Db(A \cup {<<v, u>>}, C, k, b)
      BY DEF InsertAuthFriend
    <3>2. \A A, C, k, b : InsertThreadIndex(Db(A, C, k, b)) = Db(A, C, k + 1, b)
      BY DEF InsertThreadIndex
    <3>3. \A A, C, k, b : InsertPrivateChat(Db(A, C, k, b), t, one, two) = Db(A, C \cup {n}, k, b)
      BY DEF InsertPrivateChat
    <3>4. \A A, C, k, b : \A u, v : InsertMsgHistory(Db(A, C, k, b), t, u, v) =
            Db(A, C, k, Append(b, [thread |-> t, from |-> u, to |-> v]))
      BY DEF InsertMsgHistory
    <3>5. UpdateRequestStatus(d, x, y) = Db(d.auth, d.chat, d.threads, d.bank)
      BY <2>4
    <3> HIDE DEF Db, n, one, two
    <3>6. InsertAuthFriend(InsertAuthFriend(UpdateRequestStatus(d, x, y), x, y), y, x) =
            Db((d.auth \cup {<<y, x>>}) \cup {<<x, y>>}, d.chat, d.threads, d.bank)
      <4>1. InsertAuthFriend(UpdateRequestStatus(d, x, y), x, y) =
              Db(d.auth \cup {<<y, x>>}, d.chat, d.threads, d.bank)
        BY <3>1, <3>5
      <4>2. InsertAuthFriend(Db(d.auth \cup {<<y, x>>}, d.chat, d.threads, d.bank), y, x) =
              Db((d.auth \cup {<<y, x>>}) \cup {<<x, y>>}, d.chat, d.threads, d.bank)
        BY <3>1
      <4> QED
        BY <4>1, <4>2
    <3>7. InsertPrivateChat(InsertThreadIndex(
            InsertAuthFriend(InsertAuthFriend(UpdateRequestStatus(d, x, y), x, y), y, x)),
              t, one, two) =
            Db((d.auth \cup {<<y, x>>}) \cup {<<x, y>>}, d.chat \cup {n}, t, d.bank)
      BY <3>2, <3>3, <3>6
    <3>8. e = Db((d.auth \cup {<<y, x>>}) \cup {<<x, y>>}, d.chat \cup {n}, t,
                 Append(Append(d.bank, xy), yx))
      BY <2>2, <3>4, <3>7
    <3> QED
      BY <3>8 DEF Db
  <2>6. d.request \in Seq([src : Users, dst : Users, status : {0, 1}])
    BY DEF DbOK
  <2>7. /\ q \in Seq([src : Users, dst : Users, status : {0, 1}])
        /\ DOMAIN q = DOMAIN d.request
    <3>1. PICK m \in Nat : m = Len(d.request) /\ DOMAIN d.request = 1..m
      BY <2>6
    <3>2. \A i \in 1..m : d.request[i] \in [src : Users, dst : Users, status : {0, 1}]
      BY <2>6, <3>1, ElementOfSeq
    <3>3. \A r \in [src : Users, dst : Users, status : {0, 1}] :
            [r EXCEPT !.status = 1] \in [src : Users, dst : Users, status : {0, 1}]
      OBVIOUS
    <3>4. q \in [1..m -> [src : Users, dst : Users, status : {0, 1}]]
      BY <2>3, <3>1, <3>2, <3>3
    <3>5. q \in Seq([src : Users, dst : Users, status : {0, 1}])
      BY <3>4, SeqDef
    <3> QED
      BY <3>1, <3>4, <3>5
  <2>8. \A i \in DOMAIN q :
          /\ q[i].src = d.request[i].src /\ q[i].dst = d.request[i].dst
          /\ q[i].status = IF i \in RequestRows(d, x, y) THEN 1 ELSE d.request[i].status
    <3>1. \A i \in DOMAIN d.request : d.request[i] \in [src : Users, dst : Users, status : {0, 1}]
      BY <2>6, ElementOfSeq, DOMAIN d.request = 1..Len(d.request)
    <3> QED
      BY <2>3, <3>1
  <2>9. x \in Users /\ y \in Users
    <3>1. PICK i \in DOMAIN d.request : d.request[i].src = x /\ d.request[i].dst = y
      BY <2>1 DEF RequestRows
    <3>2. d.request[i] \in [src : Users, dst : Users, status : {0, 1}]
      BY <2>6, ElementOfSeq, DOMAIN d.request = 1..Len(d.request)
    <3> QED
      BY <3>1, <3>2
  <2>10. PICK b : b = Append(Append(d.bank, xy), yx)
    OBVIOUS
  <2>11. /\ \E S : b \in Seq(S)
         /\ \A i \in DOMAIN d.bank : i \in DOMAIN b /\ b[i] = d.bank[i]
         /\ \E i \in DOMAIN b : b[i] = xy
         /\ \E i \in DOMAIN b : b[i] = yx
    <3> HIDE DEF xy, yx
    <3>1. \E S : d.bank \in Seq(S)
      BY DEF DbOK
    <3>2. /\ \E S : Append(d.bank, xy) \in Seq(S)
          /\ DOMAIN d.bank \subseteq DOMAIN Append(d.bank, xy)
          /\ \A i \in DOMAIN d.bank : Append(d.bank, xy)[i] = d.bank[i]
          /\ \E i \in DOMAIN Append(d.bank, xy) : Append(d.bank, xy)[i] = xy
      BY <3>1, AppendKeeps
    <3>3. PICK a : a = Append(d.bank, xy)
      OBVIOUS
    <3>. \E S : a \in Seq(S)
      BY <3>2, <3>3
    <3>4. /\ \E S : Append(a, yx) \in Seq(S)
          /\ DOMAIN a \subseteq DOMAIN Append(a, yx)
          /\ \A i \in DOMAIN a : Append(a, yx)[i] = a[i]
          /\ \E i \in DOMAIN Append(a, yx) : Append(a, yx)[i] = yx
      BY AppendKeeps
    <3> QED
      BY <2>10, <3>2, <3>3, <3>4
  <2>12. e = [profile |-> d.profile, request |-> q,
              auth |-> (d.auth \cup {<<y, x>>}) \cup {<<x, y>>},
              chat |-> d.chat \cup {n}, threads |-> t, bank |-> b]
    BY <2>5, <2>10
  <2>13. DbOK(e)
    BY <2>12, <2>7, <2>11 DEF DbOK
  <2>14. Mutual(e)
    BY <2>12, <2>9 DEF Whole, Mutual
  <2>15. Confirmed(e)
    <3>1. \A u, v : ConfirmedRow(e, u, v) <=> (ConfirmedRow(d, u, v) \/ (u = x /\ v = y))
      <4>1. e.request = q
        BY <2>12
      <4>2. \A u, v : RequestRows(e, u, v) = RequestRows(d, u, v)
        BY <4>1, <2>7, <2>8 DEF RequestRows
      <4>3. \A u, v : (u = x /\ v = y) => ConfirmedRow(e, u, v)
        <5>1. PICK i : i \in RequestRows(d, x, y)
          BY <2>1
        <5>2. i \in DOMAIN q /\ q[i].status = 1
          BY <5>1, <2>7, <2>8 DEF RequestRows
        <5> QED
          BY <4>1, <4>2, <5>1, <5>2 DEF ConfirmedRow
      <4>4. \A u, v : ~(u = x /\ v = y) =>
              \A i \in RequestRows(d, u, v) : q[i].status = d.request[i].status
        BY <2>7, <2>8 DEF RequestRows
      <4> QED
        BY <4>1, <4>2, <4>3, <4>4 DEF ConfirmedRow
    <3>2. SUFFICES ASSUME NEW u \in Users, NEW v \in Users
          PROVE  <<u, v>> \in e.auth <=> ConfirmedRow(e, u, v) \/ ConfirmedRow(e, v, u)
      BY DEF Confirmed
    <3>3. <<u, v>> \in d.auth <=> ConfirmedRow(d, u, v) \/ ConfirmedRow(d, v, u)
      BY DEF Whole, Confirmed
    <3>4. <<u, v>> \in e.auth <=>
            <<u, v>> \in d.auth \/ (u = x /\ v = y) \/ (u = y /\ v = x)
      BY <2>12
    <3> QED
      BY <3>1, <3>3, <3>4
  <2>16. \A c \in d.chat : c.thread # t /\ ~(c.one = one /\ c.two = two)
    BY <2>1 DEF DbOK, PrivateChats
  <2>17. Distinct(e)
    BY <2>12, <2>16 DEF Whole, Distinct
  <2>18. Greeted(e)
    <3>1. /\ \A u, v : PrivateChats(d, u, v) \subseteq PrivateChats(e, u, v)
          /\ n \in PrivateChats(e, one, two)
      BY <2>12 DEF PrivateChats
    <3>2. /\ \A k, u, v : Greets(d, k, u, v) => Greets(e, k, u, v)
          /\ Greets(e, t, x, y) /\ Greets(e, t, y, x)
      BY <2>12, <2>11 DEF Greets
    <3>3. one = Smaller(y, x) /\ two = Larger(y, x)
      BY <2>9, UsersAssumption DEF Smaller, Larger
    <3>4. ASSUME NEW u \in Users, NEW v \in Users, <<u, v>> \in e.auth
          PROVE  \E c \in PrivateChats(e, Smaller(u, v), Larger(u, v)) : Greets(e, c.thread, u, v)
      <4>1. CASE <<u, v>> \in d.auth
        <5>1. PICK c \in PrivateChats(d, Smaller(u, v), Larger(u, v)) : Greets(d, c.thread, u, v)
          BY <4>1 DEF Whole, Greeted
        <5> QED
          BY <5>1, <3>1, <3>2
      <4>2. CASE u = x /\ v = y
        BY <4>2, <3>1, <3>2
      <4>3. CASE u = y /\ v = x
        BY <4>3, <3>1, <3>2, <3>3
      <4>4. <<u, v>> \in d.auth \/ (u = x /\ v = y) \/ (u = y /\ v = x)
        BY <3>4, <2>12
      <4> QED
        BY <4>1, <4>2, <4>3, <4>4
    <3> QED
      BY <3>4 DEF Greeted
  <2>19. Whole(e)
    BY <2>14, <2>15, <2>17, <2>18 DEF Whole
  <2> QED
    BY <1>1, <2>13, <2>19
<1> QED
  BY <1>2, <1>3, <1>4

-----------------------------------------------------------------------------
\* Every step leaves the tables whole: four actions write to them.
LEMMA NextDb ==
  ASSUME DbInv, [Next]_vars
  PROVE  DbInv'
<1> USE DEF vars, redisVars, clientVars
<1>1. CASE UNCHANGED vars
  BY <1>1 DEF DbInv
<1>2. ASSUME NEW s \in Servers, NEW u \in Users, Ask(s, u) PROVE DbInv'
  BY <1>2 DEF Ask, AskSearch, AskThreads, AskRecords, AskChat, AskFriend, AskConfirm, AskText,
              AskLogin, AskLogout, Accept, DbInv
<1>3. ASSUME NEW s \in Servers, CreateNewPrivateChat(s) PROVE DbInv'
  BY <1>3, CreatePrivateChatKeeps DEF CreateNewPrivateChat, DbInv
<1>4. ASSUME NEW s \in Servers, HandlingFriendRequestCreator(s) PROVE DbInv'
  BY <1>4, CreateFriendRequestKeeps DEF HandlingFriendRequestCreator, DbInv
<1>5. ASSUME NEW s \in Servers, HandlingFriendRequestConfirm(s) PROVE DbInv'
  <2>1. db' = db \/ db' = ConfirmFriend(db, job[s].peer, job[s].user).db
    BY <1>5 DEF HandlingFriendRequestConfirm
  <2> QED
    BY <2>1, ConfirmFriendKeeps DEF DbInv
<1>6. ASSUME NEW s \in Servers, StoreText(s) PROVE DbInv'
  BY <1>6, StoreMessageKeeps DEF StoreText, DbInv
<1>7. ASSUME NEW s \in Servers,
         \/ HandlingUserSearch(s) \/ HandlingUserChatThreads(s) \/ HandlingUserChatMessage(s)
         \/ CheckPrivateChatExistance(s)
         \/ RouteRequest(s) \/ RouteConfirm(s) \/ RouteText(s)
         \/ PushRequest(s) \/ PushConfirm(s) \/ PushText(s)
         \/ SendFriendRequest(s) \/ ConfirmFriendRequest(s) \/ SendChattingTextMsg(s)
         \/ RequestCallFails(s) \/ ConfirmCallFails(s) \/ TextCallFails(s) \/ Report(s)
         \/ UpdateRedisCache(s) \/ CreateUserSession(s) \/ KickUnknown(s) \/ LoginResponse(s)
         \/ HandlingLogout(s)
      PROVE  DbInv'
  <2>1. db' = db
    BY <1>7 DEF HandlingUserSearch, HandlingUserChatThreads, HandlingUserChatMessage,
         CheckPrivateChatExistance, RouteRequest, RouteConfirm, RouteText, PushRequest,
         PushConfirm, PushText, SendFriendRequest, ConfirmFriendRequest, SendChattingTextMsg,
         RequestCallFails, ConfirmCallFails, TextCallFails, Report, UpdateRedisCache,
         CreateUserSession, KickUnknown, LoginResponse, HandlingLogout
  <2> QED
    BY <2>1 DEF DbInv
<1>8. ASSUME NEW u \in Users, NEW n \in 1..MaxLogins, Purge(u, n) PROVE DbInv'
  BY <1>8 DEF Purge, DbInv
<1> QED
  BY <1>1, <1>2, <1>3, <1>4, <1>5, <1>6, <1>7, <1>8 DEF Next, Work

\* The databases a run starts from.
LEMMA InitDb == Init => DbInv
<1> SUFFICES ASSUME Init PROVE DbInv
  OBVIOUS
<1>1. IsDatabase(db) /\ Whole(db)
  BY TablesAssumption DEF Init
<1>2. DbOK(db)
  BY <1>1 DEF IsDatabase, DbOK
<1> QED
  BY <1>1, <1>2 DEF DbInv

\* Friendships are whole in every reachable state: crossing confirmations and chats
\* created meanwhile by other servers (execFriendConfirmationTransaction,
\* createNewPrivateChat) find the rows the others left.
THEOREM FriendshipsAreWhole == Spec => []FriendshipWhole
<1>1. DbInv /\ [Next]_vars => DbInv'
  BY NextDb
<1>2. DbInv => FriendshipWhole
  BY DEF DbInv, FriendshipWhole
<1> QED
  BY InitDb, <1>1, <1>2, PTL DEF Spec

-----------------------------------------------------------------------------
(* Numbers in ascending order, and pages of them                           *)

-----------------------------------------------------------------------------
(* Ids in order                                                            *)

\* A set of natural numbers has a least element.
LEMMA Least ==
  ASSUME NEW T, T \subseteq Nat, T # {}
  PROVE  \E x \in T : \A y \in T : x <= y
<1> DEFINE R == {ss \in Nat \X Nat : ss[1] < ss[2]}
<1>1. IsWellFoundedOn(R, Nat)
  BY NatLessThanWellFounded DEF OpToRel
<1>2. PICK x \in T : \A y \in T : <<y, x>> \notin R
  <2> HIDE DEF R
  <2> QED
    BY <1>1, WFMin
<1>3. ASSUME NEW y \in T PROVE x <= y
  <2>1. <<y, x>> \in Nat \X Nat
    OBVIOUS
  <2>2. ~(<<y, x>>[1] < <<y, x>>[2])
    BY <1>2, <2>1
  <2> QED
    BY <2>2
<1> QED
  BY <1>3

\* What is below a member of a set of numbers.
LEMMA BelowIs ==
  ASSUME NEW S, NEW x
  PROVE  \A z : z \in Below(S, x) <=> z \in S /\ z < x
BY DEF Below

\* A finite set has finitely many members below any number.
LEMMA BelowIsFinite ==
  ASSUME NEW S, IsFiniteSet(S), NEW x
  PROVE  IsFiniteSet(Below(S, x)) /\ Cardinality(Below(S, x)) \in Nat
<1>1. Below(S, x) \in SUBSET S
  BY DEF Below
<1> QED
  BY <1>1, FS_Subset, FS_CardinalityType

\* The smaller of two has fewer below it.
LEMMA RanksGrow ==
  ASSUME NEW S, S \subseteq Nat, IsFiniteSet(S), NEW x \in S, NEW y \in Nat, x < y
  PROVE  Cardinality(Below(S, x)) < Cardinality(Below(S, y))
<1>1. x \notin Below(S, x) /\ Below(S, x) \cup {x} \in SUBSET Below(S, y)
  <2>1. \A z \in S : z \in Nat
    OBVIOUS
  <2>2. \A z \in Below(S, x) \cup {x} : z \in Below(S, y)
    BY <2>1 DEF Below
  <2>3. x \notin Below(S, x)
    BY <2>1 DEF Below
  <2> QED
    BY <2>2, <2>3
<1>2. Cardinality(Below(S, x) \cup {x}) = Cardinality(Below(S, x)) + 1
  BY <1>1, BelowIsFinite, FS_AddElement
<1>3. Cardinality(Below(S, x) \cup {x}) <= Cardinality(Below(S, y))
  BY <1>1, BelowIsFinite, FS_Subset
<1> QED
  BY <1>2, <1>3, BelowIsFinite

\* Every place in the order is taken.
LEMMA RanksExist ==
  ASSUME NEW S, S \subseteq Nat, IsFiniteSet(S), NEW i \in 1..Cardinality(S)
  PROVE  \E x \in S : Cardinality(Below(S, x)) = i - 1
<1> DEFINE Free == {k \in 1..Cardinality(S) :
                      ~ \E x \in S : Cardinality(Below(S, x)) = k - 1}
<1>0. Cardinality(S) \in Nat /\ \A z \in S : z \in Nat
  <2>1. \A z \in S : z \in Nat
    OBVIOUS
  <2> QED
    BY <2>1, FS_CardinalityType
<1>1. SUFFICES ASSUME Free # {} PROVE FALSE
  OBVIOUS
<1>2. PICK k \in Free : \A j \in Free : k <= j
  <2>1. Free \subseteq Nat
    BY <1>0
  <2> HIDE DEF Free
  <2> QED
    BY <1>1, <2>1, Least
<1>3. k \in 1..Cardinality(S) /\ ~ \E x \in S : Cardinality(Below(S, x)) = k - 1
  OBVIOUS
<1>4. CASE k = 1
  <2>1. S # {}
    BY <1>0, <1>3, FS_EmptySet
  <2>2. PICK x \in S : \A y \in S : x <= y
    BY <2>1, Least
  <2>3. Below(S, x) = {}
    <3>1. \A z \in S : ~(z < x)
      BY <1>0, <2>2
    <3> QED
      BY <3>1, BelowIs
  <2> QED
    BY <1>3, <1>4, <2>3, FS_EmptySet
<1>5. CASE k # 1
  <2>1. k - 1 \in 1..Cardinality(S) /\ k - 1 \notin Free
    BY <1>0, <1>2, <1>3, <1>5
  <2>2. PICK x \in S : Cardinality(Below(S, x)) = (k - 1) - 1
    BY <2>1
  <2> DEFINE Rest == {y \in S : x < y}
  <2>3. Cardinality(Below(S, x) \cup {x}) = k - 1
    <3>1. x \notin Below(S, x)
      BY <1>0 DEF Below
    <3>2. Cardinality(Below(S, x) \cup {x}) = Cardinality(Below(S, x)) + 1
      BY <3>1, BelowIsFinite, FS_AddElement
    <3> QED
      BY <1>0, <1>3, <2>2, <3>2
  <2>4. Rest # {}
    <3>1. SUFFICES ASSUME Rest = {} PROVE FALSE
      OBVIOUS
    <3>2. \A z \in S : z < x \/ z = x
      BY <1>0, <3>1
    <3>3. S = Below(S, x) \cup {x}
      BY <3>2, BelowIs
    <3>4. Cardinality(S) = k - 1
      BY <2>3, <3>3
    <3> QED
      BY <1>0, <1>3, <3>4
  <2>5. PICK y \in Rest : \A z \in Rest : y <= z
    <3>1. Rest \subseteq Nat
      OBVIOUS
    <3> HIDE DEF Rest
    <3> QED
      BY <2>4, <3>1, Least
  <2>6. Below(S, y) = Below(S, x) \cup {x}
    <3>1. y \in S /\ x < y /\ y \in Nat
      BY <1>0, <2>5
    <3>2. \A z \in S : z < y => ~(x < z)
      BY <1>0, <2>5, <3>1
    <3>3. \A z \in S : z < y <=> z < x \/ z = x
      BY <1>0, <3>1, <3>2
    <3> QED
      BY <3>3, BelowIs
  <2> QED
    BY <1>3, <2>3, <2>5, <2>6
<1> QED
  BY <1>4, <1>5

\* The ascending sequence of a set holds its elements.
LEMMA AscendingType ==
  ASSUME NEW S, S \subseteq Nat, IsFiniteSet(S)
  PROVE  /\ Ascending(S) \in Seq(S)
         /\ DOMAIN Ascending(S) = 1..Cardinality(S)
         /\ Cardinality(S) \in Nat
<1>1. Cardinality(S) \in Nat
  BY FS_CardinalityType
<1>2. \A i \in 1..Cardinality(S) :
        (CHOOSE x \in S : Cardinality(Below(S, x)) = i - 1) \in S
  BY RanksExist
<1>3. Ascending(S) \in [1..Cardinality(S) -> S]
  BY <1>2 DEF Ascending
<1> QED
  BY <1>1, <1>3, SeqDef

-----------------------------------------------------------------------------
(* Pages                                                                   *)

\* A finite set of ids that is not empty has a greatest.
LEMMA Greatest ==
  ASSUME NEW b \in Nat, NEW S, S \subseteq 0..b, S # {}
  PROVE  \E x \in S : \A y \in S : y <= x
<1> DEFINE Over == {k \in Nat : \A y \in S : y <= k}
<1>1. PICK k \in Over : \A j \in Over : k <= j
  <2>1. b \in Over /\ Over \subseteq Nat
    OBVIOUS
  <2> HIDE DEF Over
  <2> QED
    BY <2>1, Least
<1>2. k \in S
  <2>1. SUFFICES ASSUME k \notin S PROVE FALSE
    OBVIOUS
  <2>2. PICK y \in S : TRUE
    OBVIOUS
  <2>3. k - 1 \in Over
    BY <2>1, <2>2
  <2> QED
    BY <1>1, <2>3
<1> QED
  BY <1>1, <1>2

\* The page, what is above its last row, and whether a row more came back.
LEMMA PageCuts ==
  ASSUME NEW b \in Nat, NEW S \in SUBSET (0..b), S # {}, NEW n \in Nat \ {0}
  PROVE  /\ Page(S, n).next \in S
         /\ \A x \in S : x \in Page(S, n).rows <=> ~(x > Page(S, n).next)
         /\ Page(S, n).rows \subseteq S
         /\ Page(S, n).end <=> \A x \in S : ~(x > Page(S, n).next)
<1> PICK m : m = Page(S, n).next
  OBVIOUS
<1> DEFINE Rest == {x \in S : x > m}
<1> DEFINE R == FirstOf(n, S)
<1>0. S \subseteq Nat /\ IsFiniteSet(S) /\ \A z \in S : z \in Nat
  <2>1. IsFiniteSet(0..b)
    BY FS_Interval
  <2>2. S \in SUBSET (0..b)
    OBVIOUS
  <2>3. IsFiniteSet(S)
    BY <2>1, <2>2, FS_Subset
  <2>4. \A z \in S : z \in Nat
    OBVIOUS
  <2> QED
    BY <2>3, <2>4
<1>1. R \subseteq S /\ R # {}
  <2>1. PICK x \in S : \A y \in S : x <= y
    BY <1>0, Least
  <2>2. Below(S, x) = {}
    <3>1. \A z \in S : ~(z < x)
      BY <1>0, <2>1
    <3> QED
      BY <3>1, BelowIs
  <2>3. x \in R
    BY <2>2, FS_EmptySet DEF FirstOf
  <2> QED
    BY <2>3 DEF FirstOf
<1>2. m \in R /\ \A y \in R : y <= m
  <2>1. \E x \in R : \A y \in R : y <= x
    BY <1>1, Greatest
  <2>2. m = CHOOSE x \in R : \A y \in R : y <= x
    BY DEF Page
  <2> QED
    BY <2>1, <2>2
<1>3. \A x \in S : x <= m => x \in R
  <2>0. m \in Nat
    BY <1>0, <1>1, <1>2
  <2>1. SUFFICES ASSUME NEW x \in S, x < m PROVE x \in R
    BY <1>0, <1>2, <2>0
  <2>2. Cardinality(Below(S, x)) < Cardinality(Below(S, m))
    BY <1>0, <1>1, <1>2, <2>1, RanksGrow
  <2>3. Cardinality(Below(S, m)) < n
    BY <1>2 DEF FirstOf
  <2> QED
    BY <1>0, <2>2, <2>3, BelowIsFinite DEF FirstOf
<1> HIDE DEF R
<1>10. m \in Nat /\ m \in S
  BY <1>0, <1>1, <1>2
<1>4. R \cup Rest = S /\ R \cap Rest = {}
  <2>1. \A x \in S : x \in R <=> x <= m
    BY <1>2, <1>3
  <2>2. \A x \in S : x \in R <=> ~(x > m)
    BY <1>0, <1>10, <2>1
  <2> QED
    BY <1>1, <2>2
<1>5. R = Below(S, m) \cup {m} /\ m \notin Below(S, m)
  <2>1. \A x \in S : x \in R <=> x < m \/ x = m
    BY <1>0, <1>2, <1>3, <1>10
  <2>2. ~(m < m)
    BY <1>10
  <2> QED
    <3>1. \A x : x \in R <=> x \in Below(S, m) \cup {m}
      <4>1. \A x : x \in Below(S, m) <=> x \in S /\ x < m
        BY BelowIs
      <4>2. \A x \in R : x \in S
        BY <1>1
      <4> QED
        BY <1>10, <2>1, <4>1, <4>2
    <3> QED
      BY <2>2, <3>1, BelowIs
<1>6. /\ Cardinality(R) = Cardinality(Below(S, m)) + 1
      /\ IsFiniteSet(R) /\ Cardinality(R) \in Nat /\ Cardinality(R) <= n
  <2>1. Cardinality(Below(S, m)) < n
    BY <1>2 DEF FirstOf, R
  <2>2. IsFiniteSet(Below(S, m)) /\ Cardinality(Below(S, m)) \in Nat
    BY <1>0, BelowIsFinite
  <2>3. /\ IsFiniteSet(Below(S, m) \cup {m})
        /\ Cardinality(Below(S, m) \cup {m}) = Cardinality(Below(S, m)) + 1
    BY <1>5, <2>2, FS_AddElement
  <2> QED
    BY <1>5, <2>1, <2>2, <2>3
<1> DEFINE More == FirstOf(n + 1, S)
<1>7. IsFiniteSet(More) /\ Cardinality(More) \in Nat
  BY <1>0, FS_Subset, FS_CardinalityType, More \in SUBSET S DEF FirstOf
<1>8. CASE Rest = {}
  <2>1. More \in SUBSET R
    BY <1>4, <1>8 DEF FirstOf, R
  <2>2. Cardinality(More) <= n
    BY <1>6, <1>7, <2>1, FS_Subset
  <2> QED
    BY <1>10, <1>4, <1>8, <2>2 DEF Page, R
<1>9. CASE Rest # {}
  <2>1. PICK y \in Rest : \A z \in Rest : y <= z
    BY <1>0, <1>9, Least, Rest \subseteq Nat
  <2>2. Below(S, y) = R /\ y \notin R
    <3>0. y \in S /\ y > m /\ y \in Nat
      BY <1>0, <2>1
    <3>1. \A x \in S : x < y <=> x <= m
      <4>1. \A x \in S : x > m => y <= x
        BY <2>1
      <4> QED
        BY <1>0, <1>10, <3>0, <4>1
    <3> QED
      BY <1>0, <1>1, <1>2, <1>3, <1>4, <2>1, <3>1 DEF Below
  <2>3. Cardinality(R) >= n
    BY <1>6, <2>1, <2>2 DEF FirstOf, R
  <2>4. R \cup {y} \in SUBSET More
    <3>1. y \in More
      BY <1>6, <2>1, <2>2 DEF FirstOf
    <3>2. \A x \in R : x \in S /\ Cardinality(Below(S, x)) \in Nat /\ Cardinality(Below(S, x)) < n
      BY <1>0, BelowIsFinite DEF FirstOf, R
    <3>3. \A x \in R : x \in More
      BY <3>2 DEF FirstOf
    <3> QED
      BY <3>1, <3>3
  <2>5. Cardinality(R \cup {y}) = Cardinality(R) + 1
    BY <1>6, <2>2, FS_AddElement
  <2>6. Cardinality(R \cup {y}) <= Cardinality(More)
    BY <1>7, <2>4, FS_Subset
  <2>7. ~(Cardinality(More) <= n)
    BY <1>6, <1>7, <2>3, <2>5, <2>6
  <2> QED
    BY <1>10, <1>4, <1>9, <2>7 DEF Page, R
<1> QED
  BY <1>8, <1>9

\* A user's threads are ids of the thread index; those above a cursor are part of
\* those above an earlier one.
LEMMA PagesCover == IsDatabase(db) => PagingLosesNothing
<1>1. SUFFICES ASSUME IsDatabase(db), NEW u \in Users, NEW cur \in 0..db.threads,
                      ThreadPageFound(db, u, cur)
               PROVE  LET page == ThreadPage(db, u, cur)
                          rest == UserThreads(db, u, page.next) IN
                      /\ page.rows \cup rest = UserThreads(db, u, cur)
                      /\ page.rows \cap rest = {}
                      /\ page.end <=> rest = {}
  BY DEF PagingLosesNothing
<1> DEFINE S == UserThreads(db, u, cur)
           m == ThreadPage(db, u, cur).next
           R == ThreadPage(db, u, cur).rows
           Rest == UserThreads(db, u, m)
<1>2. db.threads \in Nat /\ \A c \in db.chat : c.thread \in 1..db.threads
  BY <1>1 DEF IsDatabase
<1>3. S \in SUBSET (0..db.threads) /\ S # {}
  BY <1>1, <1>2 DEF ThreadPageFound, UserThreads
<1>11. \A x \in S : x > cur
  BY DEF UserThreads
<1>4. PageSize \in Nat \ {0}
  BY SchemaAssumption
<1>5. /\ m \in S
      /\ \A x \in S : x \in R <=> ~(x > m)
      /\ R \subseteq S
      /\ ThreadPage(db, u, cur).end <=> \A x \in S : ~(x > m)
  <2>1. ThreadPage(db, u, cur) = Page(S, PageSize)
    BY DEF ThreadPage
  <2> HIDE DEF S
  <2>2. /\ Page(S, PageSize).next \in S
        /\ \A x \in S : x \in Page(S, PageSize).rows <=> ~(x > Page(S, PageSize).next)
        /\ Page(S, PageSize).rows \subseteq S
        /\ Page(S, PageSize).end <=> \A x \in S : ~(x > Page(S, PageSize).next)
    BY <1>2, <1>3, <1>4, PageCuts
  <2> QED
    BY <2>1, <2>2
<1>6. Rest = {x \in S : x > m}
  <2>1. m \in Nat /\ m > cur
    <3>1. \A x \in 0..db.threads : x \in Nat
      BY <1>2
    <3> QED
      BY <1>3, <1>11, <1>5, <3>1
  <2> HIDE DEF m
  <2>2. \A c \in db.chat : c.thread \in Nat
    BY <1>2
  <2> QED
    BY <1>2, <2>1, <2>2 DEF UserThreads
<1> HIDE DEF S, m, R, Rest
<1>7. /\ R \cup Rest = S
      /\ R \cap Rest = {}
      /\ ThreadPage(db, u, cur).end <=> Rest = {}
  BY <1>5, <1>6
<1> QED
  BY <1>7 DEF S, m, R, Rest

-----------------------------------------------------------------------------
(* The statements keep the types of the tables                             *)

Requests == [src : Users, dst : Users, status : {0, 1}]
Chats == [thread : Nat, one : Users, two : Users]
Messages == [thread : Nat, from : Users, to : Users]
Row(d, q, A, C, t, b) ==
  [profile |-> d.profile, request |-> q, auth |-> A, chat |-> C, threads |-> t, bank |-> b]

\* What the types of the tables say of their parts.
LEMMA Columns ==
  ASSUME NEW d, IsDatabase(d)
  PROVE  /\ d = Row(d, d.request, d.auth, d.chat, d.threads, d.bank)
         /\ d.profile \in SUBSET Users
         /\ d.request \in Seq(Requests)
         /\ \A i \in DOMAIN d.request : d.request[i].src # d.request[i].dst
         /\ d.auth \in SUBSET (Users \X Users)
         /\ d.chat \in SUBSET Chats
         /\ \A c \in d.chat : c.thread \in 1..d.threads
         /\ d.threads \in Nat
         /\ d.bank \in Seq(Messages)
BY DEF IsDatabase, Row, Requests, Chats, Messages

\* A record with the columns of a database, and tables of their types, is one.
LEMMA AsRow ==
  ASSUME NEW d, IsDatabase(d)
  PROVE  d = Row(d, d.request, d.auth, d.chat, d.threads, d.bank)
BY Columns

\* A database is the record of its columns.
LEMMA RowColumns ==
  ASSUME NEW d, NEW q, NEW A, NEW C, NEW t, NEW b
  PROVE  /\ Row(d, q, A, C, t, b).request = q
         /\ Row(d, q, A, C, t, b).auth = A
         /\ Row(d, q, A, C, t, b).chat = C
         /\ Row(d, q, A, C, t, b).threads = t
         /\ Row(d, q, A, C, t, b).bank = b
BY DEF Row

\* The columns of a database that a statement has changed.
LEMMA TablesOf ==
  ASSUME NEW d, IsDatabase(d),
         NEW q \in Seq(Requests), \A i \in DOMAIN q : q[i].src # q[i].dst,
         NEW A \in SUBSET (Users \X Users), NEW C \in SUBSET Chats, NEW t \in Nat,
         \A c \in C : c.thread \in 1..t, NEW b \in Seq(Messages)
  PROVE  IsDatabase(Row(d, q, A, C, t, b))
BY Columns DEF IsDatabase, Row, Requests, Chats, Messages

\* INSERT INTO FriendRequest.
LEMMA InsertFriendRequestTypes ==
  ASSUME NEW d, IsDatabase(d), NEW src \in Users, NEW dst \in Users, src # dst
  PROVE  /\ IsDatabase(InsertFriendRequest(d, src, dst))
         /\ InsertFriendRequest(d, src, dst).bank = d.bank
         /\ InsertFriendRequest(d, src, dst).chat = d.chat
<1> DEFINE r == [src |-> src, dst |-> dst, status |-> 0]
           q == Append(d.request, r)
<1>1. InsertFriendRequest(d, src, dst) = Row(d, q, d.auth, d.chat, d.threads, d.bank)
  <2>1. InsertFriendRequest(d, src, dst) = [d EXCEPT !.request = q]
    BY DEF InsertFriendRequest
  <2> HIDE DEF q
  <2> QED
    BY <2>1, AsRow DEF Row
<1>2. q \in Seq(Requests) /\ \A i \in DOMAIN q : q[i].src # q[i].dst
  <2>1. r \in Requests /\ r.src # r.dst
    BY DEF Requests
  <2> HIDE DEF r
  <2> QED
    BY <2>1, Columns
<1> HIDE DEF q
<1> QED
  BY <1>1, <1>2, TablesOf, Columns, RowColumns

\* UPDATE FriendRequest.
LEMMA UpdateRequestStatusTypes ==
  ASSUME NEW d, IsDatabase(d), NEW src, NEW dst
  PROVE  /\ IsDatabase(UpdateRequestStatus(d, src, dst))
         /\ UpdateRequestStatus(d, src, dst).bank = d.bank
         /\ UpdateRequestStatus(d, src, dst).chat = d.chat
         /\ UpdateRequestStatus(d, src, dst).threads = d.threads
<1> DEFINE q == [i \in DOMAIN d.request |-> IF i \in RequestRows(d, src, dst)
                   THEN [d.request[i] EXCEPT !.status = 1] ELSE d.request[i]]
<1>1. UpdateRequestStatus(d, src, dst) = Row(d, q, d.auth, d.chat, d.threads, d.bank)
  <2>1. UpdateRequestStatus(d, src, dst) = [d EXCEPT !.request = q]
    BY DEF UpdateRequestStatus
  <2> HIDE DEF q
  <2> QED
    BY <2>1, Columns DEF Row
<1>2. q \in Seq(Requests) /\ \A i \in DOMAIN q : q[i].src # q[i].dst
  <2>1. PICK m \in Nat : m = Len(d.request) /\ DOMAIN d.request = 1..m
    BY Columns
  <2>2. \A i \in 1..m : d.request[i] \in Requests /\ d.request[i].src # d.request[i].dst
    BY <2>1, Columns, ElementOfSeq
  <2>3. \A r \in Requests : [r EXCEPT !.status = 1] \in Requests
                            /\ [r EXCEPT !.status = 1].src = r.src
                            /\ [r EXCEPT !.status = 1].dst = r.dst
    BY DEF Requests
  <2>4. q \in [1..m -> Requests] /\ \A i \in 1..m : q[i].src # q[i].dst
    BY <2>1, <2>2, <2>3
  <2> HIDE DEF q
  <2> QED
    BY <2>4, SeqDef
<1> HIDE DEF q
<1>3. IsDatabase(Row(d, q, d.auth, d.chat, d.threads, d.bank))
  BY <1>2, TablesOf, Columns
<1> QED
  BY <1>1, <1>3, RowColumns

\* INSERT INTO AuthFriend.
LEMMA InsertAuthFriendTypes ==
  ASSUME NEW d, IsDatabase(d), NEW u \in Users, NEW v \in Users
  PROVE  /\ IsDatabase(InsertAuthFriend(d, u, v))
         /\ InsertAuthFriend(d, u, v).bank = d.bank
         /\ InsertAuthFriend(d, u, v).chat = d.chat
         /\ InsertAuthFriend(d, u, v).threads = d.threads
<1>1. InsertAuthFriend(d, u, v) =
        Row(d, d.request, d.auth \cup {<<v, u>>}, d.chat, d.threads, d.bank)
  BY AsRow DEF InsertAuthFriend, Row
<1>2. d.auth \cup {<<v, u>>} \in SUBSET (Users \X Users)
  BY Columns
<1>4. IsDatabase(Row(d, d.request, d.auth \cup {<<v, u>>}, d.chat, d.threads, d.bank))
  BY <1>2, TablesOf, Columns
<1> QED
  BY <1>1, <1>4, RowColumns

\* INSERT INTO GlobalThreadIndexTable.
LEMMA InsertThreadIndexTypes ==
  ASSUME NEW d, IsDatabase(d)
  PROVE  /\ IsDatabase(InsertThreadIndex(d))
         /\ InsertThreadIndex(d).bank = d.bank
         /\ InsertThreadIndex(d).chat = d.chat
         /\ InsertThreadIndex(d).threads = d.threads + 1
<1>1. InsertThreadIndex(d) = Row(d, d.request, d.auth, d.chat, d.threads + 1, d.bank)
  BY AsRow DEF InsertThreadIndex, Row
<1>2. d.threads + 1 \in Nat /\ \A c \in d.chat : c.thread \in 1..(d.threads + 1)
  BY Columns
<1>4. IsDatabase(Row(d, d.request, d.auth, d.chat, d.threads + 1, d.bank))
  BY <1>2, TablesOf, Columns
<1> QED
  BY <1>1, <1>4, RowColumns

\* INSERT INTO PrivateChat.
LEMMA InsertPrivateChatTypes ==
  ASSUME NEW d, IsDatabase(d), NEW t \in 1..d.threads, NEW u \in Users, NEW v \in Users
  PROVE  /\ IsDatabase(InsertPrivateChat(d, t, u, v))
         /\ InsertPrivateChat(d, t, u, v).bank = d.bank
         /\ InsertPrivateChat(d, t, u, v).chat = d.chat \cup {[thread |-> t, one |-> u, two |-> v]}
         /\ InsertPrivateChat(d, t, u, v).threads = d.threads
<1>1. InsertPrivateChat(d, t, u, v) =
        Row(d, d.request, d.auth, d.chat \cup {[thread |-> t, one |-> u, two |-> v]},
            d.threads, d.bank)
  BY AsRow DEF InsertPrivateChat, Row
<1>2. [thread |-> t, one |-> u, two |-> v] \in Chats
  BY Columns DEF Chats
<1>3. /\ d.chat \cup {[thread |-> t, one |-> u, two |-> v]} \in SUBSET Chats
      /\ \A c \in d.chat \cup {[thread |-> t, one |-> u, two |-> v]} : c.thread \in 1..d.threads
  BY <1>2, Columns
<1>4. IsDatabase(Row(d, d.request, d.auth, d.chat \cup {[thread |-> t, one |-> u, two |-> v]},
            d.threads, d.bank))
  BY <1>3, TablesOf, Columns
<1> QED
  BY <1>1, <1>4, RowColumns

\* INSERT INTO ChatMsgHistoryBank.
LEMMA InsertMsgHistoryTypes ==
  ASSUME NEW d, IsDatabase(d), NEW t \in Nat, NEW u \in Users, NEW v \in Users
  PROVE  /\ IsDatabase(InsertMsgHistory(d, t, u, v))
         /\ InsertMsgHistory(d, t, u, v).bank =
              Append(d.bank, [thread |-> t, from |-> u, to |-> v])
         /\ InsertMsgHistory(d, t, u, v).chat = d.chat
         /\ InsertMsgHistory(d, t, u, v).threads = d.threads
<1> DEFINE m == [thread |-> t, from |-> u, to |-> v]
<1>1. InsertMsgHistory(d, t, u, v) =
        Row(d, d.request, d.auth, d.chat, d.threads, Append(d.bank, m))
  <2>1. InsertMsgHistory(d, t, u, v) = [d EXCEPT !.bank = Append(d.bank, m)]
    BY DEF InsertMsgHistory
  <2> HIDE DEF m
  <2> QED
    BY <2>1, AsRow DEF Row
<1>2. m \in Messages
  BY DEF Messages
<1> HIDE DEF m
<1>3. Append(d.bank, m) \in Seq(Messages)
  BY <1>2, Columns
<1>4. IsDatabase(Row(d, d.request, d.auth, d.chat, d.threads, Append(d.bank, m)))
  BY <1>3, TablesOf, Columns
<1> QED
  <2>1. PICK e : e = InsertMsgHistory(d, t, u, v)
    OBVIOUS
  <2>2. e = Row(d, d.request, d.auth, d.chat, d.threads, Append(d.bank, m)) /\ IsDatabase(e)
    BY <1>1, <1>4, <2>1
  <2>3. e.bank = Append(d.bank, m) /\ e.chat = d.chat /\ e.threads = d.threads
    <3>1. PICK b : b = Append(d.bank, m)
      OBVIOUS
    <3>2. e = Row(d, d.request, d.auth, d.chat, d.threads, b)
      BY <2>2, <3>1
    <3>3. e.bank = b /\ e.chat = d.chat /\ e.threads = d.threads
      BY <3>2, RowColumns
    <3> QED
      BY <3>1, <3>3
  <2> QED
    BY <2>1, <2>2, <2>3 DEF m

-----------------------------------------------------------------------------
(* The methods, and what they add                                          *)

\* Messages and chats stay.
Grown(d, e) ==
  /\ Len(d.bank) <= Len(e.bank)
  /\ \A i \in DOMAIN d.bank : i \in DOMAIN e.bank /\ e.bank[i] = d.bank[i]
  /\ d.chat \subseteq e.chat

\* createFriendRequest.
LEMMA CreateFriendRequestTypes ==
  ASSUME NEW d, IsDatabase(d), NEW src, NEW dst
  PROVE  LET r == CreateFriendRequest(d, src, dst) IN
         /\ IsDatabase(r.db) /\ Grown(d, r.db)
         /\ r.found => src \in Users /\ dst \in Users
<1>1. CASE src # dst /\ src \in Users /\ dst \in Users
  BY <1>1, InsertFriendRequestTypes, Columns DEF CreateFriendRequest, UserUuidCheck, Grown
<1>2. CASE ~(src # dst /\ src \in Users /\ dst \in Users)
  BY <1>2, Columns DEF CreateFriendRequest, UserUuidCheck, Grown
<1> QED
  BY <1>1, <1>2

\* Two users in the order of the unique key are the two users.
LEMMA Pair ==
  ASSUME NEW u \in Users, NEW v \in Users
  PROVE  /\ Smaller(u, v) \in Users /\ Larger(u, v) \in Users
         /\ {Smaller(u, v), Larger(u, v)} = {u, v}
BY DEF Smaller, Larger

\* createNewPrivateChat.
LEMMA CreatePrivateChatTypes ==
  ASSUME NEW d, IsDatabase(d), NEW u \in Users, NEW v \in Users
  PROVE  LET r == CreatePrivateChat(d, u, v) IN
         IsDatabase(r.db) /\ Grown(d, r.db)
<1>1. PICK one \in Users, two \in Users : one = Smaller(u, v) /\ two = Larger(u, v)
  BY Pair
<1>2. PICK e : e = InsertThreadIndex(d)
  OBVIOUS
<1>3. IsDatabase(e) /\ e.bank = d.bank /\ e.chat = d.chat /\ e.threads = d.threads + 1
  BY <1>2, InsertThreadIndexTypes
<1>4. CASE PrivateChats(d, one, two) # {}
  <2>1. CreatePrivateChat(d, u, v).db = e
    BY <1>1, <1>2, <1>4 DEF CreatePrivateChat
  <2> QED
    BY <2>1, <1>3, Columns DEF Grown
<1>5. CASE PrivateChats(d, one, two) = {}
  <2>1. CreatePrivateChat(d, u, v).db = InsertPrivateChat(e, d.threads + 1, one, two)
    BY <1>1, <1>2, <1>5 DEF CreatePrivateChat
  <2>2. d.threads + 1 \in 1..e.threads
    BY <1>3, Columns
  <2>3. /\ IsDatabase(InsertPrivateChat(e, d.threads + 1, one, two))
        /\ InsertPrivateChat(e, d.threads + 1, one, two).bank = e.bank
        /\ InsertPrivateChat(e, d.threads + 1, one, two).chat =
             e.chat \cup {[thread |-> d.threads + 1, one |-> one, two |-> two]}
    BY <1>3, <2>2, InsertPrivateChatTypes
  <2> QED
    BY <2>1, <2>3, <1>3, Columns DEF Grown
<1> QED
  BY <1>4, <1>5

\* createChatMsgHistory of one text: only two users with a chat get one stored.
LEMMA StoreMessageTypes ==
  ASSUME NEW d, IsDatabase(d), NEW t \in Nat, NEW src, NEW dst
  PROVE  LET r == StoreMessage(d, t, src, dst) IN
         /\ IsDatabase(r.db) /\ Grown(d, r.db)
         /\ r.found =>
              /\ src \in Users /\ dst \in Users /\ src # dst
              /\ PrivateChats(d, Smaller(src, dst), Larger(src, dst)) # {}
              /\ r.db.bank = Append(d.bank, [thread |-> t, from |-> src, to |-> dst])
              /\ r.db.chat = d.chat
<1>1. CASE \/ src = dst \/ src \notin Users \/ dst \notin Users
           \/ PrivateChats(d, Smaller(src, dst), Larger(src, dst)) = {}
           \/ ~ReceiverColumn
  BY <1>1, Columns DEF StoreMessage, UserUuidCheck, Grown
<1>2. CASE ~(\/ src = dst \/ src \notin Users \/ dst \notin Users
             \/ PrivateChats(d, Smaller(src, dst), Larger(src, dst)) = {}
             \/ ~ReceiverColumn)
  <2>1. StoreMessage(d, t, src, dst) = [found |-> TRUE, db |-> InsertMsgHistory(d, t, src, dst)]
    BY <1>2 DEF StoreMessage, UserUuidCheck
  <2>2. PICK m : m = [thread |-> t, from |-> src, to |-> dst]
    OBVIOUS
  <2>3. /\ IsDatabase(InsertMsgHistory(d, t, src, dst))
        /\ InsertMsgHistory(d, t, src, dst).bank = Append(d.bank, m)
        /\ InsertMsgHistory(d, t, src, dst).chat = d.chat
    BY <1>2, <2>2, InsertMsgHistoryTypes
  <2>4. Grown(d, InsertMsgHistory(d, t, src, dst))
    <3>1. \E S : d.bank \in Seq(S)
      BY Columns
    <3> QED
      BY <2>3, <3>1 DEF Grown
  <2> QED
    BY <1>2, <2>1, <2>2, <2>3, <2>4
<1> QED
  BY <1>1, <1>2

\* execFriendConfirmationTransaction: it stores two greetings of a pair that had no chat.
LEMMA ConfirmFriendTypes ==
  ASSUME NEW d, IsDatabase(d), NEW x, NEW y
  PROVE  LET r == ConfirmFriend(d, x, y) IN
         /\ IsDatabase(r.db) /\ Grown(d, r.db)
         /\ r.found =>
              /\ x \in Users /\ y \in Users /\ x # y
              /\ PrivateChats(d, Smaller(x, y), Larger(x, y)) = {}
              /\ PrivateChats(r.db, Smaller(x, y), Larger(x, y)) # {}
              /\ \E m1, m2 \in Messages :
                   /\ m1.from = x /\ m1.to = y /\ m2.from = y /\ m2.to = x
                   /\ r.db.bank = Append(Append(d.bank, m1), m2)
<1> DEFINE t == d.threads + 1
<1>1. CASE ~ConfirmFriend(d, x, y).found
  <2>1. ConfirmFriend(d, x, y).db = d \/ ConfirmFriend(d, x, y).db = InsertThreadIndex(d)
    BY <1>1 DEF ConfirmFriend
  <2>2. Grown(d, d) /\ Grown(d, InsertThreadIndex(d))
    BY InsertThreadIndexTypes, Columns DEF Grown
  <2> QED
    BY <1>1, <2>1, <2>2, InsertThreadIndexTypes
<1>2. CASE ConfirmFriend(d, x, y).found
  <2>1. /\ RequestRows(d, x, y) # {}
        /\ PrivateChats(d, Smaller(x, y), Larger(x, y)) = {}
        /\ ConfirmFriend(d, x, y).db =
             InsertMsgHistory(InsertMsgHistory(
               InsertPrivateChat(InsertThreadIndex(
                 InsertAuthFriend(InsertAuthFriend(
                   UpdateRequestStatus(d, x, y), x, y), y, x)),
                 t, Smaller(x, y), Larger(x, y)), t, x, y), t, y, x)
    BY <1>2 DEF ConfirmFriend
  <2>2. x \in Users /\ y \in Users /\ x # y
    <3>1. PICK i \in DOMAIN d.request : d.request[i].src = x /\ d.request[i].dst = y
      BY <2>1 DEF RequestRows
    <3>2. d.request[i] \in Requests /\ d.request[i].src # d.request[i].dst
      BY Columns, ElementOfSeq, DOMAIN d.request = 1..Len(d.request)
    <3> QED
      BY <3>1, <3>2 DEF Requests
  <2>3. PICK one \in Users, two \in Users : one = Smaller(x, y) /\ two = Larger(x, y)
    BY <2>2, Pair
  <2>4. PICK d1 : d1 = UpdateRequestStatus(d, x, y)
    OBVIOUS
  <2>5. IsDatabase(d1) /\ d1.bank = d.bank /\ d1.chat = d.chat /\ d1.threads = d.threads
    BY <2>4, UpdateRequestStatusTypes
  <2>6. PICK d2 : d2 = InsertAuthFriend(d1, x, y)
    OBVIOUS
  <2>7. IsDatabase(d2) /\ d2.bank = d.bank /\ d2.chat = d.chat /\ d2.threads = d.threads
    BY <2>2, <2>5, <2>6, InsertAuthFriendTypes
  <2>8. PICK d3 : d3 = InsertAuthFriend(d2, y, x)
    OBVIOUS
  <2>9. IsDatabase(d3) /\ d3.bank = d.bank /\ d3.chat = d.chat /\ d3.threads = d.threads
    BY <2>2, <2>7, <2>8, InsertAuthFriendTypes
  <2>10. PICK d4 : d4 = InsertThreadIndex(d3)
    OBVIOUS
  <2>11. IsDatabase(d4) /\ d4.bank = d.bank /\ d4.chat = d.chat /\ d4.threads = t
    BY <2>9, <2>10, InsertThreadIndexTypes
  <2>12. PICK d5 : d5 = InsertPrivateChat(d4, t, one, two)
    OBVIOUS
  <2>13. /\ IsDatabase(d5) /\ d5.bank = d.bank /\ d5.threads = t
         /\ d5.chat = d.chat \cup {[thread |-> t, one |-> one, two |-> two]}
    <3>1. t \in 1..d4.threads
      BY <2>11, Columns
    <3> QED
      BY <2>11, <2>12, <3>1, InsertPrivateChatTypes
  <2>14. PICK d6 : d6 = InsertMsgHistory(d5, t, x, y)
    OBVIOUS
  <2> DEFINE m1 == [thread |-> t, from |-> x, to |-> y]
             m2 == [thread |-> t, from |-> y, to |-> x]
  <2>0. t \in Nat
    BY Columns
  <2>15. IsDatabase(d6) /\ d6.bank = Append(d.bank, m1) /\ d6.chat = d5.chat
    BY <2>0, <2>2, <2>13, <2>14, InsertMsgHistoryTypes
  <2>16. PICK d7 : d7 = InsertMsgHistory(d6, t, y, x)
    OBVIOUS
  <2>17. IsDatabase(d7) /\ d7.bank = Append(Append(d.bank, m1), m2) /\ d7.chat = d5.chat
    <3>1. /\ IsDatabase(InsertMsgHistory(d6, t, y, x))
          /\ InsertMsgHistory(d6, t, y, x).bank = Append(d6.bank, m2)
          /\ InsertMsgHistory(d6, t, y, x).chat = d6.chat
      BY <2>0, <2>2, <2>15, InsertMsgHistoryTypes
    <3> HIDE DEF m1, m2
    <3> QED
      BY <2>15, <2>16, <3>1
  <2>18. ConfirmFriend(d, x, y).db = d7
    BY <2>1, <2>3, <2>4, <2>6, <2>8, <2>10, <2>12, <2>14, <2>16
  <2>19. m1 \in Messages /\ m2 \in Messages /\ m1.from = x /\ m1.to = y /\ m2.from = y /\ m2.to = x
    BY <2>0, <2>2 DEF Messages
  <2> HIDE DEF m1, m2
  <2>20. Grown(d, d7)
    <3>1. d.bank \in Seq(Messages)
      BY Columns
    <3> QED
      BY <2>13, <2>17, <2>19, <3>1 DEF Grown
  <2>21. PrivateChats(d7, one, two) # {}
    <3>1. [thread |-> t, one |-> one, two |-> two] \in d7.chat
      BY <2>13, <2>17
    <3> QED
      BY <3>1 DEF PrivateChats
  <2> QED
    BY <2>1, <2>2, <2>3, <2>17, <2>18, <2>19, <2>20, <2>21
<1> QED
  BY <1>1, <1>2

-----------------------------------------------------------------------------
(* What a step sends to a client                                           *)

Types == Answers \cup Pushes

\* u is sent w, after what it received before.
Mails(u, w) ==
  /\ u \in Users /\ w \in Seq(Letters)
  /\ inbox' = [inbox EXCEPT ![u] = @ \o w]

\* The letters of w carry no messages.
Blank(w) == \A k \in DOMAIN w : w[k].ids = <<>>

Quiet == inbox' = inbox \/ \E u, w : Mails(u, w) /\ Blank(w)

Inboxes == inbox \in [Users -> Seq(Letters)]

\* A letter is made of what it is given.
LEMMA MsgIs ==
  ASSUME NEW type \in Types, NEW ok \in BOOLEAN, NEW who \in Nat, NEW t \in Nat,
         NEW ids \in Seq(Nat)
  PROVE  /\ Msg(type, ok, who, t, ids) \in Letters
         /\ Msg(type, ok, who, t, ids).ids = ids
         /\ Msg(type, ok, who, t, ids).type = type
         /\ <<Msg(type, ok, who, t, ids)>> \in Seq(Letters)
BY DEF Msg, Letters, Types

\* The list of a letter without messages.
LEMMA NoIds == <<>> \in Seq(Nat)
OBVIOUS

\* One letter.
LEMMA SendMails ==
  ASSUME Inboxes, NEW u \in Users, NEW m \in Letters, Send(u, m)
  PROVE  Mails(u, <<m>>) /\ (m.ids = <<>> => Quiet)
<1>1. inbox[u] \in Seq(Letters)
  BY DEF Inboxes
<1>2. Append(inbox[u], m) = inbox[u] \o <<m>>
  BY <1>1
<1>3. Mails(u, <<m>>)
  BY <1>2 DEF Send, Mails
<1>4. ASSUME m.ids = <<>> PROVE Blank(<<m>>)
  BY <1>4 DEF Blank
<1> QED
  BY <1>3, <1>4 DEF Quiet

\* A list of letters without messages.
LEMMA ItemsAre ==
  ASSUME NEW type \in Types, NEW n \in Nat, NEW F \in [1..n -> Nat], NEW G \in [1..n -> Nat]
  PROVE  /\ [k \in 1..n |-> Msg(type, TRUE, F[k], G[k], <<>>)] \in Seq(Letters)
         /\ Blank([k \in 1..n |-> Msg(type, TRUE, F[k], G[k], <<>>)])
<1> DEFINE w == [k \in 1..n |-> Msg(type, TRUE, F[k], G[k], <<>>)]
<1>1. \A k \in 1..n : Msg(type, TRUE, F[k], G[k], <<>>) \in Letters
                      /\ Msg(type, TRUE, F[k], G[k], <<>>).ids = <<>>
  <2>1. SUFFICES ASSUME NEW k \in 1..n
        PROVE  /\ Msg(type, TRUE, F[k], G[k], <<>>) \in Letters
               /\ Msg(type, TRUE, F[k], G[k], <<>>).ids = <<>>
    OBVIOUS
  <2>2. F[k] \in Nat /\ G[k] \in Nat
    OBVIOUS
  <2> QED
    BY <2>2, NoIds DEF Msg, Letters, Types
<1>2. w \in [1..n -> Letters] /\ \A k \in 1..n : w[k].ids = <<>>
  BY <1>1
<1> HIDE DEF w
<1>3. w \in Seq(Letters) /\ Blank(w)
  BY <1>2, SeqDef DEF Blank
<1> QED
  BY <1>3 DEF w

\* Lists without messages, one after the other.
LEMMA ConcatBlank ==
  ASSUME NEW v \in Seq(Letters), NEW w \in Seq(Letters), Blank(v), Blank(w)
  PROVE  v \o w \in Seq(Letters) /\ Blank(v \o w)
<1>1. \A k \in DOMAIN (v \o w) :
        \/ k \in DOMAIN v /\ (v \o w)[k] = v[k]
        \/ k - Len(v) \in DOMAIN w /\ (v \o w)[k] = w[k - Len(v)]
  OBVIOUS
<1> QED
  BY <1>1 DEF Blank

\* What is in an inbox stays, and the rest is what was sent.
LEMMA MailsIs ==
  ASSUME Inboxes, NEW u, NEW w, Mails(u, w)
  PROVE  /\ Inboxes'
         /\ inbox'[u] = inbox[u] \o w
         /\ \A v \in Users : v # u => inbox'[v] = inbox[v]
BY DEF Inboxes, Mails

InboxGrows ==
  \A u \in Users :
    /\ Len(inbox[u]) \in Nat /\ Len(inbox'[u]) \in Nat /\ Len(inbox[u]) <= Len(inbox'[u])
    /\ \A i \in DOMAIN inbox[u] : i \in DOMAIN inbox'[u] /\ inbox'[u][i] = inbox[u][i]

\* Inboxes only grow.
LEMMA MailsGrow ==
  ASSUME Inboxes, inbox' = inbox \/ \E u, w : Mails(u, w)
  PROVE  Inboxes' /\ InboxGrows
<1>1. CASE inbox' = inbox
  BY <1>1 DEF Inboxes, InboxGrows
<1>2. ASSUME NEW u, NEW w, Mails(u, w) PROVE Inboxes' /\ InboxGrows
  <2>1. /\ Inboxes' /\ inbox'[u] = inbox[u] \o w
        /\ \A v \in Users : v # u => inbox'[v] = inbox[v]
        /\ w \in Seq(Letters)
    BY <1>2, MailsIs DEF Mails
  <2>2. SUFFICES ASSUME NEW v \in Users
        PROVE  /\ Len(inbox[v]) \in Nat /\ Len(inbox'[v]) \in Nat /\ Len(inbox[v]) <= Len(inbox'[v])
               /\ \A i \in DOMAIN inbox[v] : i \in DOMAIN inbox'[v] /\ inbox'[v][i] = inbox[v][i]
    BY <2>1 DEF InboxGrows
  <2>3. inbox[v] \in Seq(Letters)
    BY DEF Inboxes
  <2>4. CASE v = u
    <3>1. w \in Seq(Letters) /\ inbox'[v] = inbox[v] \o w
      BY <2>1, <2>4
    <3>2. PICK q \in Seq(Letters) : q = inbox[v]
      BY <2>3
    <3>3. PICK p : p = q \o w
      OBVIOUS
    <3>4. /\ Len(q) \in Nat /\ Len(p) \in Nat /\ Len(q) <= Len(p)
          /\ \A i \in DOMAIN q : i \in DOMAIN p /\ p[i] = q[i]
      BY <3>1, <3>3
    <3> QED
      BY <3>1, <3>2, <3>3, <3>4
  <2>5. CASE v # u
    BY <2>1, <2>3, <2>5
  <2> QED
    BY <2>4, <2>5
<1> QED
  BY <1>1, <1>2
-----------------------------------------------------------------------------
(* The invariant of the types                                              *)

CarriedStored ==
  \A u \in Users : \A i \in DOMAIN inbox[u] :
    \A k \in DOMAIN inbox[u][i].ids : inbox[u][i].ids[k] \in DOMAIN db.bank

\* The request a worker is at: its user is connected to this server, the other
\* user is known where it matters, and so are the messages it stored; an answer
\* that comes before the end has been given.
Answered(s) ==
  \E i \in DOMAIN inbox[job[s].user] :
    i > job[s].seen /\ inbox[job[s].user][i].type = Answer(job[s].op)

JobOK(s) ==
  /\ job[s].op = "idle" => job[s] = Idle
  /\ job[s].op # "idle" =>
       /\ job[s].user \in Users /\ at[job[s].user] = s
       /\ job[s].seen <= Len(inbox[job[s].user])
  /\ job[s].step \in {"success", "failure"} => job[s].op = "create"
  /\ job[s].op = "text" /\ job[s].step = "store" => job[s].left > 0
  /\ job[s].op = "chat" \/ job[s].step \in {"route", "push"} => job[s].peer \in Users
  /\ job[s].step = "push" => job[s].via \in Servers
  /\ \A k \in DOMAIN job[s].ids : job[s].ids[k] \in DOMAIN db.bank
  /\ job[s].op \notin {"text", "confirm"} => job[s].ids = <<>>
  /\ job[s].op = "text" => job[s].step \in {"store", "route", "push"}
  /\ job[s].op = "confirm" => job[s].step \in {"store", "route", "push"}
  /\ job[s].op = "text" /\ job[s].step = "push" => Answered(s)
  /\ job[s].op = "confirm" /\ job[s].step # "store" => Answered(s)

TypeInv == TypeOK /\ \A s \in Servers : JobOK(s)

\* No server is the absence of one.
LEMMA ServersAre == Servers \cap {NoOne} = {}
BY HomesAssumption

\* A worker without a request.
LEMMA IdleIs ==
  /\ Idle \in Jobs
  /\ Idle.op = "idle" /\ Idle.step = "" /\ Idle.ids = <<>>
BY UsersAssumption, BatchAssumption DEF Idle, Jobs, Steps

\* Another worker's request is not disturbed.
LEMMA OtherJobs ==
  ASSUME TypeInv, NEW s \in Servers, NEW r \in Servers, r # s,
         job'[r] = job[r],
         \A u \in Users : at[u] \in Servers /\ at[u] # s => at'[u] = at[u],
         InboxGrows, Grown(db, db')
  PROVE  JobOK(r)'
<1>1. JobOK(r)
  BY DEF TypeInv
<1>2. ASSUME job[r].op # "idle" PROVE job[r].user \in Users /\ at'[job[r].user] = r
  BY <1>1, <1>2 DEF JobOK
<1>3. ASSUME job[r].op # "idle", Answered(r) PROVE Answered(r)'
  BY <1>1, <1>2, <1>3 DEF JobOK, Answered, InboxGrows
<1>4. ASSUME job[r].op # "idle"
      PROVE  job[r].seen <= Len(inbox'[job[r].user])
  <2>1. job[r].seen <= Len(inbox[job[r].user])
    BY <1>1, <1>4 DEF JobOK
  <2>2. /\ Len(inbox[job[r].user]) \in Nat
        /\ Len(inbox[job[r].user]) <= Len(inbox'[job[r].user])
    BY <1>2, <1>4 DEF InboxGrows
  <2>3. job[r].seen \in Nat
    BY DEF TypeInv, TypeOK, Jobs
  <2>4. Len(inbox'[job[r].user]) \in Nat
    BY <1>2, <1>4 DEF InboxGrows
  <2> QED
    BY <2>1, <2>2, <2>3, <2>4
<1>5. \A k \in DOMAIN job[r].ids : job[r].ids[k] \in DOMAIN db'.bank
  BY <1>1 DEF JobOK, Grown
<1> QED
  BY <1>1, <1>2, <1>3, <1>4, <1>5 DEF JobOK

-----------------------------------------------------------------------------
(* Every step keeps the types                                              *)

\* The variables of Redis, of the session maps and of the clients.
RestOK ==
  /\ route \in [Users -> [on : Servers \cup {NoOne}, sid : Nat]]
  /\ local \in [Servers -> SUBSET Users]
  /\ leaving \subseteq Users \X Nat
  /\ at \in [Users -> Servers \cup {NoOne}]
  /\ logins \in [Users -> Nat]
  /\ down \subseteq Servers

AtKept(s) == \A u \in Users : at[u] \in Servers /\ at[u] # s => at'[u] = at[u]

\* What the invariant says of each variable.
LEMMA TypeParts ==
  ASSUME TypeInv
  PROVE  /\ IsDatabase(db) /\ RestOK /\ Inboxes /\ CarriedStored
         /\ job \in [Servers -> Jobs]
         /\ \A s \in Servers : JobOK(s) /\ job[s] \in Jobs
BY DEF TypeInv, TypeOK, RestOK, Inboxes, CarriedStored

\* A step of one worker, put together from what it does to each variable.
LEMMA TypeStep ==
  ASSUME TypeInv, NEW s \in Servers,
         IsDatabase(db'), Grown(db, db'), RestOK', Inboxes', InboxGrows, CarriedStored',
         AtKept(s), NEW j \in Jobs, job' = [job EXCEPT ![s] = j], JobOK(s)'
  PROVE  TypeInv'
<1>1. job \in [Servers -> Jobs]
  BY TypeParts
<1>2. job' \in [Servers -> Jobs] /\ \A r \in Servers : r # s => job'[r] = job[r]
  BY <1>1
<1>3. \A r \in Servers : JobOK(r)'
  <2>1. ASSUME NEW r \in Servers, r # s PROVE JobOK(r)'
    BY <1>2, <2>1, OtherJobs DEF AtKept
  <2> QED
    BY <2>1
<1>4. TypeOK'
  BY <1>2 DEF TypeOK, RestOK, Inboxes, CarriedStored
<1> QED
  BY <1>3, <1>4 DEF TypeInv

\* A database that was not written.
LEMMA GrownSame ==
  ASSUME IsDatabase(db), db' = db
  PROVE  IsDatabase(db') /\ Grown(db, db')
BY Columns DEF Grown

\* A step that sends no messages leaves the inboxes well typed.
LEMMA QuietCarries ==
  ASSUME TypeInv, Quiet, Grown(db, db')
  PROVE  Inboxes' /\ InboxGrows /\ CarriedStored'
<1>0. Inboxes /\ CarriedStored
  BY TypeParts
<1>1. Inboxes' /\ InboxGrows
  BY <1>0, MailsGrow DEF Quiet
<1>2. CASE inbox' = inbox
  BY <1>0, <1>1, <1>2 DEF CarriedStored, Grown
<1>3. ASSUME NEW u, NEW w, Mails(u, w), Blank(w) PROVE CarriedStored'
  <2>1. /\ inbox'[u] = inbox[u] \o w
        /\ \A v \in Users : v # u => inbox'[v] = inbox[v]
        /\ w \in Seq(Letters) /\ u \in Users
    BY <1>0, <1>3, MailsIs DEF Mails
  <2>2. \A i \in DOMAIN inbox'[u] :
          \/ i \in DOMAIN inbox[u] /\ inbox'[u][i] = inbox[u][i]
          \/ inbox'[u][i].ids = <<>>
    <3>1. PICK q \in Seq(Letters) : q = inbox[u]
      BY <1>0, <2>1 DEF Inboxes
    <3>2. PICK p : p = q \o w
      OBVIOUS
    <3>3. \A i \in DOMAIN p :
            \/ i \in DOMAIN q /\ p[i] = q[i]
            \/ i - Len(q) \in DOMAIN w /\ p[i] = w[i - Len(q)]
      BY <2>1, <3>2
    <3> QED
      BY <1>3, <2>1, <3>1, <3>2, <3>3 DEF Blank
  <2>3. SUFFICES ASSUME NEW v \in Users, NEW i \in DOMAIN inbox'[v],
                        NEW k \in DOMAIN inbox'[v][i].ids
        PROVE  inbox'[v][i].ids[k] \in DOMAIN db'.bank
    BY DEF CarriedStored
  <2>4. i \in DOMAIN inbox[v] /\ inbox'[v][i] = inbox[v][i]
    <3>1. inbox'[v][i].ids # <<>>
      BY <2>3
    <3>2. CASE v = u
      BY <2>2, <3>1, <3>2
    <3>3. CASE v # u
      BY <2>1, <3>3
    <3> QED
      BY <3>2, <3>3
  <2> QED
    BY <1>0, <2>3, <2>4 DEF CarriedStored, Grown
<1> QED
  BY <1>1, <1>2, <1>3 DEF Quiet

\* A worker that has done with its request.
LEMMA DoneStep ==
  ASSUME TypeInv, NEW s \in Servers, Done(s),
         IsDatabase(db'), Grown(db, db'), RestOK', Inboxes', InboxGrows, CarriedStored',
         AtKept(s)
  PROVE  TypeInv'
<1>1. job'[s] = Idle /\ job' = [job EXCEPT ![s] = Idle]
  BY TypeParts DEF Done
<1>2. JobOK(s)'
  <2>1. /\ job'[s] = Idle /\ job'[s].op = "idle" /\ job'[s].step = "" /\ job'[s].ids = <<>>
    BY <1>1, IdleIs
  <2>2. \A k \in DOMAIN <<>> : FALSE
    OBVIOUS
  <2> QED
    BY <2>1, <2>2 DEF JobOK
<1> QED
  BY <1>1, <1>2, IdleIs, TypeStep

\* A handler that reads, tells its client and ends.
LEMMA QuietDone ==
  ASSUME TypeInv, NEW s \in Servers, Done(s), Quiet,
         UNCHANGED <<db, route, leaving, local, at, logins, down>>
  PROVE  TypeInv'
<1>1. IsDatabase(db') /\ Grown(db, db')
  BY TypeParts, GrownSame
<1>2. RestOK' /\ AtKept(s)
  <2>1. RestOK
    BY TypeParts
  <2> QED
    BY <2>1 DEF RestOK, AtKept
<1> QED
  BY <1>1, <1>2, QuietCarries, DoneStep

\* The answers: an error or not.
LEMMA RefuseQuiet ==
  ASSUME TypeInv, NEW s \in Servers, job[s].op # "idle", NEW type \in Types, Refuse(s, type)
  PROVE  Quiet
<1>1. job[s].user \in Users /\ job[s].peer \in Nat /\ Inboxes
  BY TypeParts DEF JobOK, Jobs
<1>2. Msg(type, FALSE, job[s].peer, 0, <<>>) \in Letters /\ Msg(type, FALSE, job[s].peer, 0, <<>>).ids = <<>>
  BY <1>1, NoIds DEF Msg, Letters, Types
<1> QED
  BY <1>1, <1>2, SendMails DEF Refuse

\* An answer without messages.
LEMMA ReplyQuiet ==
  ASSUME TypeInv, NEW s \in Servers, job[s].op # "idle", NEW type \in Types, NEW t \in Nat,
         Reply(s, type, t, <<>>)
  PROVE  Quiet
<1>1. job[s].user \in Users /\ job[s].peer \in Nat /\ Inboxes
  BY TypeParts DEF JobOK, Jobs
<1>2. Msg(type, TRUE, job[s].peer, t, <<>>) \in Letters /\ Msg(type, TRUE, job[s].peer, t, <<>>).ids = <<>>
  BY <1>1, NoIds DEF Msg, Letters, Types
<1> QED
  BY <1>1, <1>2, SendMails DEF Reply
-----------------------------------------------------------------------------
\* A request is taken.
LEMMA AcceptTypes ==
  ASSUME TypeInv, NEW s \in Servers, NEW u \in Users, NEW op \in Operations, NEW step \in Steps,
         NEW peer \in Nat, NEW t \in Nat, NEW n \in 0..BatchSize,
         Accept(s, u, op, step, peer, t, n),
         step \notin {"success", "failure", "route", "push"},
         op = "text" => step = "store" /\ n > 0,
         op = "confirm" => step = "store",
         op = "chat" => peer \in Users
  PROVE  TypeInv'
<1> DEFINE j == [Idle EXCEPT !.op = op, !.step = step, !.user = u, !.peer = peer,
                             !.thread = t, !.left = n, !.seen = Len(inbox[u])]
<1>0. Len(inbox[u]) \in Nat
  BY TypeParts DEF Inboxes
<1>1. /\ j.op = op /\ j.step = step /\ j.user = u /\ j.peer = peer
      /\ j.left = n /\ j.ids = <<>> /\ j.seen = Len(inbox[u])
  BY DEF Idle
<1>2. j \in Jobs
  <2>1. u \in Nat
    BY UsersAssumption
  <2> QED
    BY <1>0, <2>1, IdleIs DEF Jobs
<1> HIDE DEF j
<1>3. job' = [job EXCEPT ![s] = j] /\ job'[s] = j
  BY TypeParts DEF Accept, j
<1>4. op # "idle" /\ op \in Operations
  BY DEF Operations
<1>5. at'[u] = s /\ inbox' = inbox
  BY DEF Accept, clientVars
<1>6. JobOK(s)'
  <2>1. /\ job'[s].op = op /\ job'[s].step = step /\ job'[s].user = u /\ job'[s].peer = peer
        /\ job'[s].left = n /\ job'[s].ids = <<>> /\ job'[s].seen = Len(inbox[u])
    BY <1>1, <1>3
  <2> QED
    BY <2>1, <1>0, <1>4, <1>5 DEF JobOK
<1>7. IsDatabase(db') /\ Grown(db, db')
  BY TypeParts, GrownSame DEF Accept
<1>8. RestOK' /\ AtKept(s)
  <2>1. RestOK
    BY TypeParts
  <2> QED
    BY <2>1 DEF RestOK, AtKept, Accept, redisVars, clientVars
<1>9. Inboxes' /\ InboxGrows /\ CarriedStored'
  BY <1>5, <1>7, QuietCarries DEF Quiet
<1> QED
  BY <1>2, <1>3, <1>6, <1>7, <1>8, <1>9, TypeStep

\* What a client asks for is what it was shown.
LEMMA ShownAre ==
  ASSUME Inboxes, NEW u \in Users
  PROVE  /\ \A x \in ShownThreads(u) : x[1] \in Nat /\ x[2] \in Nat
         /\ \A v \in ShownRequests(u) : v \in Nat
<1>1. inbox[u] \in Seq(Letters)
  BY DEF Inboxes
<1>2. \A m \in Range(inbox[u]) : m \in Letters
  BY <1>1 DEF Range
<1>3. \A m \in Letters : m.who \in Nat /\ m.thread \in Nat
  BY DEF Letters
<1> QED
  BY <1>2, <1>3 DEF ShownThreads, ShownRequests

\* Whatever a client asks, the types are kept.
LEMMA AskTypes ==
  ASSUME TypeInv, NEW s \in Servers, NEW u \in Users, Ask(s, u)
  PROVE  TypeInv'
<1>0. /\ \A v \in Users \cup {0} : v \in Nat
      /\ 0 \in 0..BatchSize /\ 0 \in Nat /\ Inboxes
      /\ \A n \in 1..BatchSize : n \in 0..BatchSize /\ n > 0
  BY TypeParts, UsersAssumption, BatchAssumption
<1>00. Operations \subseteq Operations /\ "answer" \in Steps /\ "look" \in Steps /\ "store" \in Steps
  BY DEF Steps
<1>1. CASE AskSearch(s, u)
  <2>1. PICK v \in Nat : Accept(s, u, "search", "answer", v, 0, 0)
    BY <1>0, <1>1 DEF AskSearch
  <2>2. "search" \in Operations
    BY DEF Operations
  <2> QED
    BY <1>0, <1>00, <2>1, <2>2, AcceptTypes
<1>2. CASE AskThreads(s, u)
  <2>1. PICK t \in Nat : Accept(s, u, "threads", "answer", 0, t, 0)
    BY <1>0, <1>2, ShownAre DEF AskThreads
  <2>2. "threads" \in Operations
    BY DEF Operations
  <2> QED
    BY <1>0, <1>00, <2>1, <2>2, AcceptTypes
<1>3. CASE AskRecords(s, u)
  <2>1. PICK v \in Nat, t \in Nat : Accept(s, u, "records", "answer", v, t, 0)
    BY <1>0, <1>3, ShownAre DEF AskRecords
  <2>2. "records" \in Operations
    BY DEF Operations
  <2> QED
    BY <1>0, <1>00, <2>1, <2>2, AcceptTypes
<1>4. CASE AskChat(s, u)
  <2>1. PICK v \in Nat : v \in Users /\ Accept(s, u, "chat", "look", v, 0, 0)
    BY <1>0, <1>4 DEF AskChat
  <2>2. "chat" \in Operations
    BY DEF Operations
  <2> QED
    BY <1>0, <1>00, <2>1, <2>2, AcceptTypes
<1>5. CASE AskFriend(s, u)
  <2>1. PICK v \in Nat : Accept(s, u, "create", "store", v, 0, 0)
    BY <1>0, <1>5 DEF AskFriend
  <2>2. "create" \in Operations
    BY DEF Operations
  <2> QED
    BY <1>0, <1>00, <2>1, <2>2, AcceptTypes
<1>6. CASE AskConfirm(s, u)
  <2>1. PICK v \in Nat : Accept(s, u, "confirm", "store", v, 0, 0)
    BY <1>0, <1>6, ShownAre DEF AskConfirm
  <2>2. "confirm" \in Operations
    BY DEF Operations
  <2> QED
    BY <1>0, <1>00, <2>1, <2>2, AcceptTypes
<1>7. CASE AskText(s, u)
  <2>1. PICK v \in Nat, t \in Nat, n \in 1..BatchSize : Accept(s, u, "text", "store", v, t, n)
    BY <1>0, <1>7, ShownAre DEF AskText
  <2>2. "text" \in Operations
    BY DEF Operations
  <2> QED
    BY <1>0, <1>00, <2>1, <2>2, AcceptTypes
<1>8. CASE AskLogin(s, u)
  <2> DEFINE j == [Idle EXCEPT !.op = "login", !.step = "label", !.user = u, !.seen = Len(inbox[u])]
  <2>0. Len(inbox[u]) \in Nat
    BY <1>0 DEF Inboxes
  <2>1. /\ j.op = "login" /\ j.step = "label" /\ j.user = u
        /\ j.ids = <<>> /\ j.seen = Len(inbox[u])
    BY DEF Idle
  <2>2. j \in Jobs
    <3>1. u \in Nat /\ "login" \in Operations /\ "label" \in Steps
      BY UsersAssumption DEF Operations, Steps
    <3> QED
      BY <2>0, <3>1, IdleIs DEF Jobs
  <2> HIDE DEF j
  <2>3. job' = [job EXCEPT ![s] = j] /\ job'[s] = j
    BY <1>8, TypeParts DEF AskLogin, j
  <2>4. RestOK
    BY TypeParts
  <2>5. RestOK' /\ AtKept(s) /\ at'[u] = s /\ inbox' = inbox
    <3>1. /\ at' = [at EXCEPT ![u] = s] /\ logins' = [logins EXCEPT ![u] = @ + 1]
          /\ at[u] = NoOne /\ UNCHANGED <<route, leaving, local, inbox, down>>
      BY <1>8 DEF AskLogin, redisVars
    <3> QED
      BY <2>4, <3>1, HomesAssumption DEF RestOK, AtKept
  <2>6. JobOK(s)'
    <3>1. /\ job'[s].op = "login" /\ job'[s].step = "label" /\ job'[s].user = u
          /\ job'[s].ids = <<>> /\ job'[s].seen = Len(inbox[u])
      BY <2>1, <2>3
    <3> QED
      BY <3>1, <2>0, <2>5 DEF JobOK
  <2>7. IsDatabase(db') /\ Grown(db, db')
    BY <1>8, TypeParts, GrownSame DEF AskLogin
  <2>8. Inboxes' /\ InboxGrows /\ CarriedStored'
    BY <2>5, <2>7, QuietCarries DEF Quiet
  <2> QED
    BY <2>2, <2>3, <2>5, <2>6, <2>7, <2>8, TypeStep
<1>9. CASE AskLogout(s, u)
  <2>1. Accept(s, u, "logout", "answer", 0, 0, 0)
    BY <1>9 DEF AskLogout
  <2>2. "logout" \in Operations
    BY DEF Operations
  <2> QED
    BY <1>0, <1>00, <2>1, <2>2, AcceptTypes
<1> QED
  BY <1>1, <1>2, <1>3, <1>4, <1>5, <1>6, <1>7, <1>8, <1>9 DEF Ask

-----------------------------------------------------------------------------
(* The handlers that read                                                  *)

\* The user of a request is connected to the server of its worker.
LEMMA WorkerIs ==
  ASSUME TypeInv, NEW s \in Servers, job[s].op # "idle"
  PROVE  /\ job[s].user \in Users /\ at[job[s].user] = s
         /\ job[s].peer \in Nat /\ job[s].thread \in Nat
         /\ job[s].seen \in Nat /\ job[s].seen <= Len(inbox[job[s].user])
         /\ inbox[job[s].user] \in Seq(Letters)
BY TypeParts DEF JobOK, Jobs, Inboxes

\* A worker at a step of a handler is not idle.
LEMMA NowIs ==
  ASSUME NEW s, NEW op, NEW step, Now(s, op, step), op # "idle"
  PROVE  job[s].op = op /\ job[s].step = step /\ job[s].op # "idle"
BY DEF Now

\* handlingUserSearch.
LEMMA SearchTypes ==
  ASSUME TypeInv, NEW s \in Servers, HandlingUserSearch(s)
  PROVE  TypeInv' /\ Quiet
<1>1. job[s].op # "idle" /\ Done(s) /\ UNCHANGED <<db, route, leaving, local, at, logins, down>>
  BY DEF HandlingUserSearch, Now, redisVars, clientVars
<1>2. "SEARCHUSERNAMERESPONSE" \in Types /\ 0 \in Nat
  BY DEF Types, Answers
<1>3. \/ Reply(s, "SEARCHUSERNAMERESPONSE", 0, <<>>) \/ Refuse(s, "SEARCHUSERNAMERESPONSE")
  BY DEF HandlingUserSearch
<1>4. Quiet
  BY <1>1, <1>2, <1>3, RefuseQuiet, ReplyQuiet
<1> QED
  BY <1>1, <1>4, QuietDone

\* A thread of a user has a peer.
LEMMA PeerIs ==
  ASSUME NEW d, IsDatabase(d), NEW u, NEW t, \E c \in d.chat : c.thread = t
  PROVE  Peer(d, u, t) \in Users
<1>1. PICK c : c = CHOOSE x \in d.chat : x.thread = t
  OBVIOUS
<1>2. c \in d.chat
  BY <1>1
<1>3. c.one \in Users /\ c.two \in Users
  BY <1>2, Columns DEF Chats
<1> QED
  BY <1>1, <1>3 DEF Peer

\* The rows of a page, as letters.
LEMMA ThreadLetters ==
  ASSUME NEW d, IsDatabase(d), NEW u \in Users, NEW R,
         \A t \in R : \E c \in d.chat : c.thread = t
  PROVE  LET T == Ascending(R) IN
         /\ [k \in DOMAIN T |-> Msg("PULLCHATTHREADRESPONSE", TRUE, Peer(d, u, T[k]), T[k], <<>>)]
              \in Seq(Letters)
         /\ Blank([k \in DOMAIN T |->
              Msg("PULLCHATTHREADRESPONSE", TRUE, Peer(d, u, T[k]), T[k], <<>>)])
<1> DEFINE T == Ascending(R)
<1>1. R \subseteq 1..d.threads /\ d.threads \in Nat
  BY Columns
<1>2. R \subseteq Nat /\ IsFiniteSet(R)
  <2>1. IsFiniteSet(1..d.threads) /\ R \in SUBSET (1..d.threads)
    BY <1>1, FS_Interval
  <2>2. R \subseteq Nat
    BY <1>1
  <2> QED
    BY <2>1, <2>2, FS_Subset
<1>3. T \in Seq(R) /\ DOMAIN T = 1..Cardinality(R) /\ Cardinality(R) \in Nat
  BY <1>2, AscendingType
<1>4. PICK n \in Nat : n = Cardinality(R)
  BY <1>3
<1>5. \A k \in 1..n : T[k] \in R
  BY <1>3, <1>4, ElementOfSeq
<1> HIDE DEF T
<1> DEFINE F == [k \in 1..n |-> Peer(d, u, T[k])]
           G == [k \in 1..n |-> T[k]]
<1>6. F \in [1..n -> Nat] /\ G \in [1..n -> Nat]
  <2>1. \A k \in 1..n : Peer(d, u, T[k]) \in Nat /\ T[k] \in Nat
    BY <1>2, <1>5, PeerIs, UsersAssumption
  <2> QED
    BY <2>1
<1>7. "PULLCHATTHREADRESPONSE" \in Types
  BY DEF Types, Answers
<1> DEFINE w == [k \in 1..n |-> Msg("PULLCHATTHREADRESPONSE", TRUE, F[k], G[k], <<>>)]
<1>8. w \in Seq(Letters) /\ Blank(w)
  <2> HIDE DEF F, G
  <2> QED
    BY <1>6, <1>7, ItemsAre
<1>9. w = [k \in DOMAIN T |-> Msg("PULLCHATTHREADRESPONSE", TRUE, Peer(d, u, T[k]), T[k], <<>>)]
  BY <1>3, <1>4
<1> HIDE DEF w
<1> QED
  BY <1>8, <1>9 DEF T

\* handlingUserChatTheads.
LEMMA ThreadsTypes ==
  ASSUME TypeInv, NEW s \in Servers, HandlingUserChatThreads(s)
  PROVE  TypeInv' /\ Quiet
<1>1. job[s].op # "idle" /\ Done(s) /\ UNCHANGED <<db, route, leaving, local, at, logins, down>>
  BY DEF HandlingUserChatThreads, Now, redisVars, clientVars
<1>2. "PULLCHATTHREADRESPONSE" \in Types
  BY DEF Types, Answers
<1> DEFINE u == job[s].user
           page == ThreadPage(db, u, job[s].thread)
           T == Ascending(page.rows)
           w == [k \in DOMAIN T |->
                  Msg("PULLCHATTHREADRESPONSE", TRUE, Peer(db, u, T[k]), T[k], <<>>)]
<1>3. \/ inbox' = inbox
      \/ inbox' = [inbox EXCEPT ![u] = @ \o w]
      \/ Refuse(s, "PULLCHATTHREADRESPONSE")
  BY DEF HandlingUserChatThreads
<1>4. w \in Seq(Letters) /\ Blank(w)
  <2>1. \A t \in page.rows : \E c \in db.chat : c.thread = t
    BY DEF ThreadPage, Page, FirstOf, UserThreads
  <2>2. IsDatabase(db) /\ u \in Users
    BY <1>1, TypeParts, WorkerIs
  <2> HIDE DEF page, u
  <2> QED
    BY <2>1, <2>2, ThreadLetters
<1>5. u \in Users
  BY <1>1, WorkerIs
<1>6. Quiet
  <2> HIDE DEF w, u
  <2>1. CASE inbox' = inbox
    BY <2>1 DEF Quiet
  <2>2. CASE inbox' = [inbox EXCEPT ![u] = @ \o w]
    BY <2>2, <1>4, <1>5 DEF Quiet, Mails
  <2>3. CASE Refuse(s, "PULLCHATTHREADRESPONSE")
    BY <2>3, <1>1, <1>2, RefuseQuiet
  <2> QED
    BY <1>3, <2>1, <2>2, <2>3
<1> QED
  BY <1>1, <1>6, QuietDone

\* getChattingHistoryRecord finds nothing, ever: affected_rows of a SELECT is 0.
LEMMA RecordsTypes ==
  ASSUME TypeInv, NEW s \in Servers, HandlingUserChatMessage(s)
  PROVE  TypeInv' /\ Quiet
<1>1. job[s].op # "idle" /\ Done(s) /\ UNCHANGED <<db, route, leaving, local, at, logins, down>>
  BY DEF HandlingUserChatMessage, Now, redisVars, clientVars
<1>2. "PULLCHATRECORDRESPONSE" \in Types
  BY DEF Types, Answers
<1>3. Refuse(s, "PULLCHATRECORDRESPONSE")
  BY DEF HandlingUserChatMessage, RecordPageFound, AffectedBySelect
<1> QED
  BY <1>1, <1>2, <1>3, RefuseQuiet, QuietDone

\* A worker that goes on to another step.
LEMMA GotoStep ==
  ASSUME TypeInv, NEW s \in Servers, NEW step \in Steps, Goto(s, step), Quiet,
         IsDatabase(db'), Grown(db, db'), RestOK', AtKept(s), at'[job[s].user] = s,
         job[s].op \notin {"idle", "text", "confirm"}, step # "push",
         step \in {"success", "failure"} => job[s].op = "create",
         step = "route" => job[s].peer \in Users
  PROVE  TypeInv'
<1> DEFINE j == [job[s] EXCEPT !.step = step]
<1>1. job[s] \in Jobs /\ JobOK(s) /\ job \in [Servers -> Jobs]
  BY TypeParts
<1>2. j \in Jobs
  BY <1>1 DEF Jobs
<1>3. job' = [job EXCEPT ![s] = j] /\ job'[s] = j
  BY <1>1 DEF Goto
<1>4. /\ j.step = step /\ j.op = job[s].op /\ j.user = job[s].user /\ j.peer = job[s].peer
      /\ j.seen = job[s].seen /\ j.ids = job[s].ids
  BY <1>1 DEF Jobs
<1> HIDE DEF j
<1>5. Inboxes' /\ InboxGrows /\ CarriedStored'
  BY QuietCarries
<1>6. /\ job[s].user \in Users /\ job[s].seen \in Nat /\ job[s].seen <= Len(inbox[job[s].user])
  BY WorkerIs
<1>7. job[s].seen <= Len(inbox'[job[s].user])
  BY <1>5, <1>6 DEF InboxGrows
<1>8. JobOK(s)'
  <2>1. \A k \in DOMAIN job[s].ids : job[s].ids[k] \in DOMAIN db'.bank
    BY <1>1 DEF JobOK, Grown
  <2>2. /\ job'[s].step = step /\ job'[s].op = job[s].op /\ job'[s].user = job[s].user
        /\ job'[s].peer = job[s].peer /\ job'[s].seen = job[s].seen /\ job'[s].ids = job[s].ids
    BY <1>3, <1>4
  <2> QED
    BY <1>1, <1>6, <1>7, <2>1, <2>2 DEF JobOK
<1> QED
  BY <1>2, <1>3, <1>5, <1>8, TypeStep

\* The rest of the variables as it was.
LEMMA SameRest ==
  ASSUME TypeInv, NEW s \in Servers, UNCHANGED <<route, leaving, local, at, logins, down>>
  PROVE  RestOK' /\ AtKept(s)
<1>1. RestOK
  BY TypeParts
<1> QED
  BY <1>1 DEF RestOK, AtKept

\* The SELECT ... FOR UPDATE of createNewPrivateChat.
LEMMA LookTypes ==
  ASSUME TypeInv, NEW s \in Servers, CheckPrivateChatExistance(s)
  PROVE  TypeInv' /\ Quiet
<1>1. /\ job[s].op = "chat" /\ UNCHANGED <<db, route, leaving, local, at, logins, down>>
      /\ job[s].user \in Users /\ job[s].peer \in Users /\ at'[job[s].user] = s
  <2>1. job[s].op = "chat" /\ UNCHANGED <<db, route, leaving, local, at, logins, down>>
    BY DEF CheckPrivateChatExistance, Now, redisVars, clientVars
  <2> QED
    BY <2>1, TypeParts, WorkerIs DEF JobOK
<1>2. "CREATENEWPRIVATECHAT_RESPONSE" \in Types
  BY DEF Types, Answers
<1>3. IsDatabase(db') /\ Grown(db, db') /\ RestOK' /\ AtKept(s)
  BY <1>1, TypeParts, GrownSame, SameRest
<1>4. CASE PrivateChatThere(db, job[s].user, job[s].peer) /\ Done(s)
  <2> DEFINE c == CHOOSE c \in db.chat : {c.one, c.two} = {job[s].user, job[s].peer}
  <2>1. c \in db.chat
    <3>1. PICK x \in db.chat : x.one = Smaller(job[s].user, job[s].peer)
                               /\ x.two = Larger(job[s].user, job[s].peer)
      BY <1>4 DEF PrivateChatThere, PrivateChats
    <3>2. {x.one, x.two} = {job[s].user, job[s].peer}
      <4>1. {Smaller(job[s].user, job[s].peer), Larger(job[s].user, job[s].peer)}
              = {job[s].user, job[s].peer}
        BY <1>1, Pair
      <4> QED
        BY <3>1, <4>1
    <3> QED
      BY <3>2
  <2>2. c.thread \in Nat
    <3> HIDE DEF c
    <3> QED
      BY <2>1, TypeParts, Columns DEF Chats
  <2>3. \/ inbox' = inbox
        \/ Reply(s, "CREATENEWPRIVATECHAT_RESPONSE", c.thread, <<>>)
        \/ Refuse(s, "CREATENEWPRIVATECHAT_RESPONSE")
    BY <1>4 DEF CheckPrivateChatExistance
  <2> HIDE DEF c
  <2>4. Quiet
    BY <1>1, <1>2, <2>2, <2>3, RefuseQuiet, ReplyQuiet DEF Quiet
  <2> QED
    BY <1>1, <1>4, <2>4, QuietDone
<1>5. CASE Goto(s, "insert") /\ inbox' = inbox
  <2>1. "insert" \in Steps /\ Quiet
    BY <1>5 DEF Steps, Quiet
  <2> QED
    BY <1>1, <1>3, <1>5, <2>1, GotoStep
<1>6. CASE Refuse(s, "CREATENEWPRIVATECHAT_RESPONSE") /\ Done(s)
  <2>1. Quiet
    BY <1>1, <1>2, <1>6, RefuseQuiet
  <2> QED
    BY <1>1, <1>6, <2>1, QuietDone
<1> QED
  BY <1>4, <1>5, <1>6 DEF CheckPrivateChatExistance

\* The INSERTs of createNewPrivateChat.
LEMMA CreateChatTypes ==
  ASSUME TypeInv, NEW s \in Servers, CreateNewPrivateChat(s)
  PROVE  TypeInv' /\ Quiet
<1> DEFINE r == CreatePrivateChat(db, job[s].user, job[s].peer)
<1>1. /\ job[s].op = "chat" /\ Done(s) /\ UNCHANGED <<route, leaving, local, at, logins, down>>
      /\ db' = r.db
  BY DEF CreateNewPrivateChat, Now, redisVars, clientVars
<1>2. job[s].user \in Users /\ job[s].peer \in Users
  BY <1>1, TypeParts, WorkerIs DEF JobOK
<1>3. IsDatabase(db') /\ Grown(db, db')
  BY <1>1, <1>2, TypeParts, CreatePrivateChatTypes
<1>4. r.db.threads \in Nat
  BY <1>1, <1>3, Columns
<1>5. "CREATENEWPRIVATECHAT_RESPONSE" \in Types
  BY DEF Types, Answers
<1>6. \/ Reply(s, "CREATENEWPRIVATECHAT_RESPONSE", r.db.threads, <<>>)
      \/ Refuse(s, "CREATENEWPRIVATECHAT_RESPONSE")
  BY DEF CreateNewPrivateChat
<1> HIDE DEF r
<1>7. Quiet
  BY <1>1, <1>4, <1>5, <1>6, RefuseQuiet, ReplyQuiet
<1> QED
  BY <1>1, <1>3, <1>7, QuietCarries, SameRest, DoneStep

-----------------------------------------------------------------------------
(* Requests, confirmations and texts                                       *)

\* A delivery of stored messages leaves the inboxes well typed.
LEMMA MailsCarry ==
  ASSUME TypeInv, NEW u, NEW w, Mails(u, w), Grown(db, db'),
         \A i \in DOMAIN w : \A k \in DOMAIN w[i].ids : w[i].ids[k] \in DOMAIN db'.bank
  PROVE  Inboxes' /\ InboxGrows /\ CarriedStored'
<1>0. Inboxes /\ CarriedStored
  BY TypeParts
<1>1. Inboxes' /\ InboxGrows
  BY <1>0, MailsGrow
<1>2. /\ inbox'[u] = inbox[u] \o w
      /\ \A v \in Users : v # u => inbox'[v] = inbox[v]
      /\ w \in Seq(Letters) /\ u \in Users
  BY <1>0, MailsIs DEF Mails
<1>3. \A i \in DOMAIN inbox'[u] :
        \/ i \in DOMAIN inbox[u] /\ inbox'[u][i] = inbox[u][i]
        \/ \E n \in DOMAIN w : inbox'[u][i] = w[n]
  <2>1. PICK q \in Seq(Letters) : q = inbox[u]
    BY <1>0, <1>2 DEF Inboxes
  <2>2. PICK p : p = q \o w
    OBVIOUS
  <2>3. \A i \in DOMAIN p :
          \/ i \in DOMAIN q /\ p[i] = q[i]
          \/ i - Len(q) \in DOMAIN w /\ p[i] = w[i - Len(q)]
    BY <1>2, <2>2
  <2> QED
    BY <1>2, <2>1, <2>2, <2>3
<1>4. SUFFICES ASSUME NEW v \in Users, NEW i \in DOMAIN inbox'[v],
                      NEW k \in DOMAIN inbox'[v][i].ids
      PROVE  inbox'[v][i].ids[k] \in DOMAIN db'.bank
  BY <1>1 DEF CarriedStored
<1>5. CASE i \in DOMAIN inbox[v] /\ inbox'[v][i] = inbox[v][i]
  BY <1>0, <1>4, <1>5 DEF CarriedStored, Grown
<1>6. CASE v = u /\ \E n \in DOMAIN w : inbox'[u][i] = w[n]
  BY <1>4, <1>6
<1> QED
  BY <1>2, <1>3, <1>5, <1>6

\* A worker goes on with its request.
LEMMA MoveStep ==
  ASSUME TypeInv, NEW s \in Servers, NEW j \in Jobs, job' = [job EXCEPT ![s] = j],
         job[s].op # "idle",
         j.op = job[s].op, j.user = job[s].user, j.seen = job[s].seen,
         IsDatabase(db'), Grown(db, db'), RestOK', AtKept(s), at'[job[s].user] = s,
         Inboxes', InboxGrows, CarriedStored',
         j.step \in {"success", "failure"} => j.op = "create",
         j.op = "text" /\ j.step = "store" => j.left > 0,
         j.op = "chat" \/ j.step \in {"route", "push"} => j.peer \in Users,
         j.step = "push" => j.via \in Servers,
         \A k \in DOMAIN j.ids : j.ids[k] \in DOMAIN db'.bank,
         j.op \notin {"text", "confirm"} => j.ids = <<>>,
         j.op \in {"text", "confirm"} => j.step \in {"store", "route", "push"},
         \/ j.op = "text" /\ j.step = "push"
         \/ j.op = "confirm" /\ j.step # "store"
         => \E i \in DOMAIN inbox'[j.user] :
              i > j.seen /\ inbox'[j.user][i].type = Answer(j.op)
  PROVE  TypeInv'
<1>1. job'[s] = j
  BY TypeParts
<1>2. /\ j.user \in Users /\ at'[j.user] = s /\ j.seen <= Len(inbox'[j.user])
  BY WorkerIs DEF InboxGrows
<1>3. JobOK(s)'
  BY <1>1, <1>2 DEF JobOK, Answered
<1> QED
  BY <1>3, TypeStep

\* The answer that was given stays.
LEMMA AnswerStays ==
  ASSUME TypeInv, NEW s \in Servers, job[s].op # "idle", Answered(s), InboxGrows
  PROVE  \E i \in DOMAIN inbox'[job[s].user] :
           i > job[s].seen /\ inbox'[job[s].user][i].type = Answer(job[s].op)
BY WorkerIs DEF Answered, InboxGrows

\* What was sent to the client of the request is an answer to it, if it has the type.
LEMMA AnswersNow ==
  ASSUME TypeInv, NEW s \in Servers, job[s].op # "idle", NEW w, Mails(job[s].user, w),
         NEW k \in DOMAIN w, w[k].type = Answer(job[s].op)
  PROVE  \E i \in DOMAIN inbox'[job[s].user] :
           i > job[s].seen /\ inbox'[job[s].user][i].type = Answer(job[s].op)
<1> DEFINE u == job[s].user
<1>1. /\ inbox[u] \in Seq(Letters) /\ job[s].seen <= Len(inbox[u]) /\ job[s].seen \in Nat
  BY WorkerIs
<1>2. inbox'[u] = inbox[u] \o w /\ w \in Seq(Letters)
  BY TypeParts, MailsIs DEF Mails
<1> HIDE DEF u
<1>3. PICK q \in Seq(Letters) : q = inbox[u]
  BY <1>1
<1>4. PICK p : p = q \o w
  OBVIOUS
<1>5. Len(q) + k \in DOMAIN p /\ p[Len(q) + k] = w[k] /\ Len(q) + k > Len(q) /\ Len(q) + k \in Nat
  BY <1>2, <1>4
<1>6. Len(q) + k > job[s].seen
  BY <1>1, <1>3, <1>5
<1>7. p = inbox'[u]
  BY <1>2, <1>3, <1>4
<1> QED
  BY <1>5, <1>6, <1>7 DEF u
-----------------------------------------------------------------------------
\* handlingFriendRequestCreator.
LEMMA CreateTypes ==
  ASSUME TypeInv, NEW s \in Servers, HandlingFriendRequestCreator(s)
  PROVE  TypeInv' /\ Quiet
<1> DEFINE r == CreateFriendRequest(db, job[s].user, job[s].peer)
<1>1. /\ job[s].op = "create" /\ job[s].op # "idle"
      /\ UNCHANGED <<route, leaving, local, at, logins, down>>
  BY DEF HandlingFriendRequestCreator, Now, redisVars, clientVars
<1>2. IsDatabase(r.db) /\ Grown(db, r.db) /\ (r.found => job[s].peer \in Users)
  BY TypeParts, CreateFriendRequestTypes
<1>3. IsDatabase(db) /\ Grown(db, db)
  BY TypeParts, Columns DEF Grown
<1>4. RestOK' /\ AtKept(s) /\ at'[job[s].user] = s
  BY <1>1, SameRest, WorkerIs
<1>5. "FRIENDSENDERRESPONSE" \in Types /\ "route" \in Steps
  BY DEF Types, Answers, Steps
<1>6. CASE r.found /\ Goto(s, "route") /\ inbox' = inbox /\ (db' = r.db \/ db' = db)
  <2>1. Quiet
    BY <1>6 DEF Quiet
  <2>2. IsDatabase(db') /\ Grown(db, db')
    BY <1>2, <1>3, <1>6
  <2> QED
    BY <1>1, <1>2, <1>4, <1>5, <1>6, <2>1, <2>2, GotoStep
<1>7. CASE Refuse(s, "FRIENDSENDERRESPONSE") /\ Done(s) /\ db' = db
  <2>1. Quiet
    BY <1>1, <1>5, <1>7, RefuseQuiet
  <2> QED
    BY <1>1, <1>7, <2>1, QuietDone
<1> QED
  BY <1>6, <1>7 DEF HandlingFriendRequestCreator

\* A confirmation that made two friends: the greetings it stored, and what it sent.
ConfirmSent(s) ==
  LET u == job[s].user
      v == job[s].peer IN
  /\ job[s].op = "confirm" /\ v \in Users /\ u # v
  /\ PrivateChats(db, Smaller(v, u), Larger(v, u)) = {}
  /\ PrivateChats(db', Smaller(v, u), Larger(v, u)) # {}
  /\ \E a, b \in Letters, n \in Nat, ids \in Seq(Nat), m1, m2 \in Messages :
       /\ Mails(u, <<a, b>>) /\ a.ids = <<>> /\ b.ids = ids /\ ~Receipt(b)
       /\ n = Len(db'.bank) /\ DOMAIN ids = {1, 2} /\ ids[1] = n - 1 /\ ids[2] = n
       /\ db'.bank = Append(Append(db.bank, m1), m2)
       /\ m1.from = v /\ m1.to = u /\ m2.from = u /\ m2.to = v
       /\ job'[s].ids = ids /\ job'[s].op = "confirm"
       /\ job'[s].user = u /\ job'[s].peer = v
       /\ \A r \in Servers : r # s => job'[r] = job[r]

\* handlingFriendRequestConfirm: it ends in an error, or two greetings are stored and sent.
LEMMA ConfirmTypes ==
  ASSUME TypeInv, NEW s \in Servers, HandlingFriendRequestConfirm(s)
  PROVE  TypeInv' /\ ((Quiet /\ Done(s)) \/ ConfirmSent(s)) /\ Grown(db, db')
<1> DEFINE u == job[s].user
           v == job[s].peer
           r == ConfirmFriend(db, v, u)
           n == Len(r.db.bank)
           No(type) == Msg(type, FALSE, v, 0, <<>>)
           Yes(type, t, ids) == Msg(type, TRUE, v, t, ids)
<1>1. /\ job[s].op = "confirm" /\ job[s].step = "store"
      /\ UNCHANGED <<route, leaving, local, at, logins, down>>
  BY DEF HandlingFriendRequestConfirm, Now, redisVars, clientVars
<1>2. u \in Users /\ v \in Nat /\ Inboxes
  BY <1>1, WorkerIs, TypeParts
<1>3. RestOK' /\ AtKept(s) /\ at'[u] = s
  BY <1>1, SameRest, WorkerIs
<1>4. IsDatabase(r.db) /\ Grown(db, r.db) /\ r.db.threads \in Nat
  BY TypeParts, ConfirmFriendTypes, Columns
<1>9. r.found =>
        /\ v \in Users /\ u # v
        /\ PrivateChats(db, Smaller(v, u), Larger(v, u)) = {}
        /\ PrivateChats(r.db, Smaller(v, u), Larger(v, u)) # {}
        /\ \E m1, m2 \in Messages :
             /\ m1.from = v /\ m1.to = u /\ m2.from = u /\ m2.to = v
             /\ r.db.bank = Append(Append(db.bank, m1), m2)
  <2>1. PICK x : x = ConfirmFriend(db, v, u)
    OBVIOUS
  <2> HIDE DEF u, v
  <2>2. x.found =>
        /\ v \in Users /\ u # v
        /\ PrivateChats(db, Smaller(v, u), Larger(v, u)) = {}
        /\ PrivateChats(x.db, Smaller(v, u), Larger(v, u)) # {}
        /\ \E m1, m2 \in Messages :
             /\ m1.from = v /\ m1.to = u /\ m2.from = u /\ m2.to = v
             /\ x.db.bank = Append(Append(db.bank, m1), m2)
    BY <2>1, TypeParts, ConfirmFriendTypes
  <2> QED
    BY <2>1, <2>2
<1>5. "FRIENDCONFIRMRESPONSE" \in Types /\ "FRIENDING_ON_BIDDIRECTIONAL" \in Types
  BY DEF Types, Answers, Pushes
<1>6. CASE r.found /\ db' = r.db
           /\ inbox' = [inbox EXCEPT ![u] = @ \o
                <<Yes("FRIENDCONFIRMRESPONSE", 0, <<>>),
                  Yes("FRIENDING_ON_BIDDIRECTIONAL", r.db.threads, <<n - 1, n>>)>>]
           /\ job' = [job EXCEPT ![s].step = "route", ![s].thread = r.db.threads,
                                 ![s].ids = <<n - 1, n>>]
  <2>1. n \in Nat /\ n - 1 \in 1..n /\ n \in 1..n /\ DOMAIN r.db.bank = 1..n /\ v \in Users
    <3>1. PICK m1 \in Messages, m2 \in Messages : r.db.bank = Append(Append(db.bank, m1), m2)
      BY <1>6, <1>9
    <3>2. db.bank \in Seq(Messages) /\ r.db.bank \in Seq(Messages)
      BY <1>4, TypeParts, Columns
    <3>3. n \in Nat /\ n >= 2 /\ DOMAIN r.db.bank = 1..n
      BY <3>1, <3>2
    <3>4. v \in Users
      BY <1>6, <1>9
    <3> QED
      BY <3>3, <3>4
  <2>2. PICK t \in Nat, ids \in Seq(Nat) : t = r.db.threads /\ ids = <<n - 1, n>>
    <3>1. PICK p \in Nat, q \in Nat : p = n - 1 /\ q = n
      <4> HIDE DEF n
      <4>1. n - 1 \in Nat /\ n \in Nat
        BY <2>1
      <4> QED
        BY <4>1
    <3>2. <<p, q>> \in Seq(Nat)
      OBVIOUS
    <3> QED
      BY <1>4, <3>1, <3>2
  <2>3. DOMAIN ids = {1, 2} /\ ids[1] = n - 1 /\ ids[2] = n
    BY <2>2
  <2>4. \A k \in DOMAIN ids : ids[k] \in DOMAIN db'.bank
    BY <1>6, <2>1, <2>3
  <2>51. PICK a \in Letters :
          /\ a = Yes("FRIENDCONFIRMRESPONSE", 0, <<>>) /\ a.ids = <<>>
          /\ a.type = "FRIENDCONFIRMRESPONSE"
    <3>1. PICK x \in Nat : x = v
      BY <1>2
    <3>2. /\ Msg("FRIENDCONFIRMRESPONSE", TRUE, x, 0, <<>>) \in Letters
          /\ Msg("FRIENDCONFIRMRESPONSE", TRUE, x, 0, <<>>).ids = <<>>
          /\ Msg("FRIENDCONFIRMRESPONSE", TRUE, x, 0, <<>>).type = "FRIENDCONFIRMRESPONSE"
      BY <1>5, NoIds DEF Msg, Letters, Types
    <3> QED
      BY <3>1, <3>2
  <2>52. PICK b \in Letters :
          b = Yes("FRIENDING_ON_BIDDIRECTIONAL", t, ids) /\ b.ids = ids
    <3>1. PICK x \in Nat : x = v
      BY <1>2
    <3>2. /\ Msg("FRIENDING_ON_BIDDIRECTIONAL", TRUE, x, t, ids) \in Letters
          /\ Msg("FRIENDING_ON_BIDDIRECTIONAL", TRUE, x, t, ids).ids = ids
      BY <1>5 DEF Msg, Letters, Types
    <3> QED
      BY <3>1, <3>2
  <2>5. a.ids = <<>> /\ b.ids = ids /\ a.type = "FRIENDCONFIRMRESPONSE"
    BY <2>51, <2>52
  <2>6. Mails(u, <<a, b>>)
    <3>1. inbox' = [inbox EXCEPT ![u] = @ \o <<a, b>>]
      BY <1>6, <2>2, <2>51, <2>52
    <3>2. <<a, b>> \in Seq(Letters)
      OBVIOUS
    <3> QED
      BY <1>2, <3>1, <3>2 DEF Mails
  <2>7. /\ \A i \in DOMAIN <<a, b>> : \A k \in DOMAIN <<a, b>>[i].ids :
             <<a, b>>[i].ids[k] \in DOMAIN db'.bank
        /\ 1 \in DOMAIN <<a, b>> /\ <<a, b>>[1].type = "FRIENDCONFIRMRESPONSE"
    <3>1. DOMAIN <<a, b>> = {1, 2} /\ <<a, b>>[1] = a /\ <<a, b>>[2] = b
      OBVIOUS
    <3>2. \A k \in DOMAIN a.ids : FALSE
      BY <2>5
    <3> QED
      BY <2>4, <2>5, <3>1, <3>2
  <2> HIDE DEF u, v, r
  <2>8. Inboxes' /\ InboxGrows /\ CarriedStored'
    BY <1>4, <1>6, <2>6, <2>7, MailsCarry
  <2> DEFINE j == [job[s] EXCEPT !.step = "route", !.thread = t, !.ids = ids]
  <2>9. job[s] \in Jobs /\ job \in [Servers -> Jobs]
    BY TypeParts
  <2>10. job' = [job EXCEPT ![s] = j]
    BY <1>6, <2>2, <2>9
  <2>11. /\ j \in Jobs
         /\ j.op = "confirm" /\ j.user = u /\ j.seen = job[s].seen /\ j.step = "route"
         /\ j.ids = ids /\ j.peer = v
    <3>1. "route" \in Steps
      BY DEF Steps
    <3> QED
      BY <1>1, <2>9, <3>1 DEF Jobs, u, v
  <2> HIDE DEF j
  <2>12. \E i \in DOMAIN inbox'[u] : i > job[s].seen /\ inbox'[u][i].type = Answer("confirm")
    <3>1. Answer("confirm") = "FRIENDCONFIRMRESPONSE"
      BY DEF Answer
    <3> QED
      BY <1>1, <2>6, <2>7, <3>1, AnswersNow DEF u
  <2> QED
    <3>1. /\ IsDatabase(db') /\ Grown(db, db') /\ RestOK' /\ AtKept(s) /\ at'[job[s].user] = s
          /\ Inboxes' /\ InboxGrows /\ CarriedStored'
      BY <1>3, <1>4, <1>6, <2>8 DEF u
    <3>2. /\ j \in Jobs /\ job' = [job EXCEPT ![s] = j]
          /\ j.op = job[s].op /\ j.user = job[s].user /\ j.seen = job[s].seen
          /\ j.op = "confirm" /\ j.step = "route" /\ j.peer \in Users
          /\ \A k \in DOMAIN j.ids : j.ids[k] \in DOMAIN db'.bank
      BY <1>1, <2>1, <2>4, <2>10, <2>11 DEF u
    <3>3. \E i \in DOMAIN inbox'[j.user] : i > j.seen /\ inbox'[j.user][i].type = Answer(j.op)
      BY <2>11, <2>12
    <3>4. TypeInv'
      BY <1>1, <3>1, <3>2, <3>3, MoveStep
    <3>5. PICK m1 \in Messages, m2 \in Messages :
             /\ m1.from = v /\ m1.to = u /\ m2.from = u /\ m2.to = v
             /\ db'.bank = Append(Append(db.bank, m1), m2)
      BY <1>6, <1>9
    <3>6. ~Receipt(b) /\ b.ids = ids /\ a.ids = <<>>
      <4>1. b.type = "FRIENDING_ON_BIDDIRECTIONAL"
        BY <2>52 DEF Msg
      <4> QED
        BY <4>1, <2>5 DEF Receipt
    <3>7. /\ job'[s].ids = ids /\ job'[s].op = "confirm" /\ job'[s].user = u /\ job'[s].peer = v
          /\ \A x \in Servers : x # s => job'[x] = job[x]
      BY <2>9, <2>10, <2>11
    <3>8. Len(db'.bank) \in Nat /\ DOMAIN ids = {1, 2} /\ ids[1] = Len(db'.bank) - 1 /\ ids[2] = Len(db'.bank)
      BY <1>6, <2>1, <2>3
    <3>9. /\ v \in Users /\ u # v
          /\ PrivateChats(db, Smaller(v, u), Larger(v, u)) = {}
          /\ PrivateChats(db', Smaller(v, u), Larger(v, u)) # {}
      BY <1>6, <1>9
    <3>10. \E aa, bb \in Letters, nn \in Nat, is \in Seq(Nat), n1, n2 \in Messages :
       /\ Mails(u, <<aa, bb>>) /\ aa.ids = <<>> /\ bb.ids = is /\ ~Receipt(bb)
       /\ nn = Len(db'.bank) /\ DOMAIN is = {1, 2} /\ is[1] = nn - 1 /\ is[2] = nn
       /\ db'.bank = Append(Append(db.bank, n1), n2)
       /\ n1.from = v /\ n1.to = u /\ n2.from = u /\ n2.to = v
       /\ job'[s].ids = is /\ job'[s].op = "confirm"
       /\ job'[s].user = u /\ job'[s].peer = v
       /\ \A x \in Servers : x # s => job'[x] = job[x]
      BY <2>6, <3>5, <3>6, <3>7, <3>8
    <3>11. ConfirmSent(s)
      BY <1>1, <3>9, <3>10 DEF ConfirmSent, u, v
    <3> QED
      BY <3>1, <3>4, <3>11
<1>7. CASE Done(s) /\ (db' = r.db \/ db' = db)
           /\ \E a \in {Yes("FRIENDCONFIRMRESPONSE", 0, <<>>), No("FRIENDCONFIRMRESPONSE")} :
                inbox' = [inbox EXCEPT ![u] = @ \o <<a, No("FRIENDING_ON_BIDDIRECTIONAL")>>]
  <2>1. PICK a \in Letters, b \in Letters :
          /\ a.ids = <<>> /\ b.ids = <<>>
          /\ inbox' = [inbox EXCEPT ![u] = @ \o <<a, b>>]
    BY <1>2, <1>5, <1>7, NoIds DEF Msg, Letters, Types
  <2> HIDE DEF u, v, r
  <2>2. Quiet
    <3>1. DOMAIN <<a, b>> = {1, 2} /\ <<a, b>>[1] = a /\ <<a, b>>[2] = b /\ <<a, b>> \in Seq(Letters)
      OBVIOUS
    <3>2. Mails(u, <<a, b>>) /\ Blank(<<a, b>>)
      BY <1>2, <2>1, <3>1 DEF Mails, Blank
    <3> QED
      BY <3>2 DEF Quiet
  <2>3. IsDatabase(db') /\ Grown(db, db')
    BY <1>4, <1>7, TypeParts, GrownSame
  <2> QED
    BY <1>3, <1>7, <2>2, <2>3, QuietCarries, DoneStep
<1>8. \/ /\ r.found /\ db' = r.db
         /\ inbox' = [inbox EXCEPT ![u] = @ \o
                <<Yes("FRIENDCONFIRMRESPONSE", 0, <<>>),
                  Yes("FRIENDING_ON_BIDDIRECTIONAL", r.db.threads, <<n - 1, n>>)>>]
         /\ job' = [job EXCEPT ![s].step = "route", ![s].thread = r.db.threads,
                                 ![s].ids = <<n - 1, n>>]
      \/ /\ Done(s) /\ (db' = r.db \/ db' = db)
         /\ \E a \in {Yes("FRIENDCONFIRMRESPONSE", 0, <<>>), No("FRIENDCONFIRMRESPONSE")} :
                inbox' = [inbox EXCEPT ![u] = @ \o <<a, No("FRIENDING_ON_BIDDIRECTIONAL")>>]
  BY DEF HandlingFriendRequestConfirm
<1> QED
  BY <1>6, <1>7, <1>8

\* The transaction of a text.
LEMMA StoreTextTypes ==
  ASSUME TypeInv, NEW s \in Servers, StoreText(s)
  PROVE  TypeInv' /\ Quiet
<1> DEFINE r == StoreMessage(db, job[s].thread, job[s].user, job[s].peer)
<1>1. /\ job[s].op = "text" /\ job[s].step = "store" /\ job[s].op # "idle"
      /\ UNCHANGED <<route, leaving, local, at, logins, down>>
  BY DEF StoreText, Now, redisVars, clientVars
<1>2. IsDatabase(db) /\ job[s].thread \in Nat /\ job[s].left > 0 /\ JobOK(s) /\ job[s] \in Jobs
      /\ job \in [Servers -> Jobs]
  BY <1>1, TypeParts, WorkerIs DEF JobOK
<1>3. /\ IsDatabase(r.db) /\ Grown(db, r.db)
      /\ r.found => /\ job[s].peer \in Users
                    /\ \E m : r.db.bank = Append(db.bank, m)
  <2>1. PICK t, u, v, x : /\ t \in Nat /\ t = job[s].thread /\ u = job[s].user /\ v = job[s].peer
                          /\ x = StoreMessage(db, t, u, v)
    BY <1>2
  <2>2. /\ IsDatabase(x.db) /\ Grown(db, x.db)
        /\ x.found => /\ v \in Users
                      /\ x.db.bank = Append(db.bank, [thread |-> t, from |-> u, to |-> v])
    BY <1>2, <2>1, StoreMessageTypes
  <2> QED
    BY <2>1, <2>2
<1>4. RestOK' /\ AtKept(s) /\ at'[job[s].user] = s
  BY <1>1, SameRest, WorkerIs
<1>5. "TEXTCHATMSGRESPONSE" \in Types /\ "route" \in Steps /\ "store" \in Steps
  BY DEF Types, Answers, Steps
<1>6. CASE Refuse(s, "TEXTCHATMSGRESPONSE") /\ Done(s) /\ db' = db
  <2>1. Quiet
    BY <1>1, <1>5, <1>6, RefuseQuiet
  <2> QED
    BY <1>1, <1>6, <2>1, QuietDone
<1>7. CASE r.found /\ db' = r.db /\ inbox' = inbox
           /\ job' = [job EXCEPT ![s].left = @ - 1,
                                 ![s].ids = Append(@, Len(r.db.bank)),
                                 ![s].step = IF job[s].left = 1 THEN "route" ELSE "store"]
  <2>1. PICK step \in Steps, left \in 0..BatchSize, ids \in Seq(Nat) :
           /\ step = (IF job[s].left = 1 THEN "route" ELSE "store")
           /\ left = job[s].left - 1
           /\ ids = Append(job[s].ids, Len(r.db.bank))
    <3>1. PICK n \in Nat : n = Len(r.db.bank)
      BY <1>3, Columns
    <3>2. Append(job[s].ids, n) \in Seq(Nat)
      BY <1>2 DEF Jobs
    <3>3. job[s].left - 1 \in 0..BatchSize
      BY <1>2, BatchAssumption DEF Jobs
    <3> HIDE DEF r
    <3> QED
      BY <1>5, <3>1, <3>2, <3>3
  <2> DEFINE j == [job[s] EXCEPT !.left = left, !.ids = ids, !.step = step]
  <2>2. job' = [job EXCEPT ![s] = j]
    BY <1>2, <1>7, <2>1
  <2>3. /\ j \in Jobs
        /\ j.op = "text" /\ j.user = job[s].user /\ j.seen = job[s].seen /\ j.step = step
        /\ j.ids = ids /\ j.peer = job[s].peer /\ j.left = left
    BY <1>1, <1>2 DEF Jobs
  <2> HIDE DEF j
  <2>4. Quiet
    BY <1>7 DEF Quiet
  <2>5. Inboxes' /\ InboxGrows /\ CarriedStored'
    BY <1>3, <1>7, <2>4, QuietCarries
  <2>6. \A k \in DOMAIN ids : ids[k] \in DOMAIN db'.bank
    <3>1. PICK q \in Seq(Nat) : q = job[s].ids
      BY <1>2 DEF Jobs
    <3>2. \A k \in DOMAIN q : q[k] \in DOMAIN db'.bank
      BY <1>2, <1>3, <1>7, <3>1 DEF JobOK, Grown
    <3>3. PICK n \in Nat : n = Len(r.db.bank) /\ n \in DOMAIN db'.bank
      <4>1. PICK m : r.db.bank = Append(db.bank, m)
        BY <1>3, <1>7
      <4>2. db.bank \in Seq(Messages) /\ r.db.bank \in Seq(Messages)
        BY <1>2, <1>3, Columns
      <4>3. Len(r.db.bank) = Len(db.bank) + 1 /\ DOMAIN r.db.bank = 1..Len(r.db.bank)
        BY <4>1, <4>2
      <4>4. Len(r.db.bank) \in Nat /\ Len(r.db.bank) \in DOMAIN r.db.bank
        BY <4>2, <4>3
      <4> QED
        BY <1>7, <4>4
    <3>4. ids = Append(q, n)
      BY <2>1, <3>1, <3>3
    <3> QED
      BY <3>2, <3>3, <3>4
  <2>7. step = "store" => left > 0
    BY <1>2, <2>1 DEF Jobs
  <2>8. step \in {"store", "route"}
    BY <2>1
  <2>9. /\ IsDatabase(db') /\ Grown(db, db') /\ job[s].peer \in Users
    BY <1>3, <1>7
  <2>10. TypeInv'
    BY <1>1, <1>4, <2>2, <2>3, <2>5, <2>6, <2>7, <2>8, <2>9, MoveStep
  <2> QED
    BY <2>4, <2>10
<1> QED
  BY <1>6, <1>7 DEF StoreText
-----------------------------------------------------------------------------
\* A route leads to a server.
LEMMA ViaIs ==
  ASSUME TypeInv, NEW s \in Servers, job[s].step = "route"
  PROVE  /\ job[s].peer \in Users
         /\ Via(s) \in Servers \cup {NoOne}
BY TypeParts DEF JobOK, RestOK, Via

\* A worker that found the route goes on to the push.
LEMMA GotoPushStep ==
  ASSUME TypeInv, NEW s \in Servers, job[s].step = "route", job[s].op # "idle",
         Via(s) # NoOne, GotoPush(s),
         UNCHANGED <<db, route, leaving, local, at, logins, down>>,
         Inboxes', InboxGrows, CarriedStored',
         job[s].op \in {"text", "confirm"} =>
           \E i \in DOMAIN inbox'[job[s].user] :
             i > job[s].seen /\ inbox'[job[s].user][i].type = Answer(job[s].op)
  PROVE  TypeInv'
<1> DEFINE j == [job[s] EXCEPT !.step = "push", !.via = Via(s)]
<1>1. job[s] \in Jobs /\ JobOK(s) /\ job \in [Servers -> Jobs]
  BY TypeParts
<1>2. Via(s) \in Servers /\ job[s].peer \in Users
  BY ViaIs
<1>3. job' = [job EXCEPT ![s] = j]
  BY <1>1 DEF GotoPush
<1>4. /\ j \in Jobs
      /\ j.op = job[s].op /\ j.user = job[s].user /\ j.seen = job[s].seen /\ j.step = "push"
      /\ j.ids = job[s].ids /\ j.peer = job[s].peer /\ j.via = Via(s)
  <2>1. "push" \in Steps
    BY DEF Steps
  <2> HIDE DEF Via
  <2> QED
    BY <1>1, <1>2, <2>1 DEF Jobs
<1> HIDE DEF j
<1>5. IsDatabase(db') /\ Grown(db, db')
  BY TypeParts, GrownSame
<1>6. RestOK' /\ AtKept(s) /\ at'[job[s].user] = s
  BY SameRest, WorkerIs
<1>7. /\ \A k \in DOMAIN j.ids : j.ids[k] \in DOMAIN db'.bank
      /\ j.op \notin {"text", "confirm"} => j.ids = <<>>
  BY <1>1, <1>4 DEF JobOK
<1> QED
  BY <1>2, <1>3, <1>4, <1>5, <1>6, <1>7, MoveStep

\* Nothing is sent and nothing is stored.
LEMMA SameInbox ==
  ASSUME TypeInv, inbox' = inbox, db' = db
  PROVE  Quiet /\ Inboxes' /\ InboxGrows /\ CarriedStored'
<1>1. Quiet /\ Grown(db, db')
  BY TypeParts, GrownSame DEF Quiet
<1> QED
  BY <1>1, QuietCarries

\* The route of a friend request.
LEMMA RouteRequestTypes ==
  ASSUME TypeInv, NEW s \in Servers, RouteRequest(s)
  PROVE  TypeInv' /\ Quiet
<1>1. /\ job[s].op = "create" /\ job[s].step = "route"
      /\ UNCHANGED <<db, route, leaving, local, at, logins, down>>
  BY DEF RouteRequest, Now, redisVars, clientVars
<1>2. "FRIENDSENDERRESPONSE" \in Types
  BY DEF Types, Answers
<1>3. CASE Via(s) # NoOne /\ GotoPush(s) /\ inbox' = inbox
  BY <1>1, <1>3, SameInbox, GotoPushStep
<1>4. CASE Refuse(s, "FRIENDSENDERRESPONSE") /\ Done(s)
  BY <1>1, <1>2, <1>4, RefuseQuiet, QuietDone
<1> QED
  BY <1>3, <1>4 DEF RouteRequest

\* The route of a confirmation.
LEMMA RouteConfirmTypes ==
  ASSUME TypeInv, NEW s \in Servers, RouteConfirm(s)
  PROVE  TypeInv' /\ Quiet
<1>1. /\ job[s].op = "confirm" /\ job[s].step = "route" /\ inbox' = inbox
      /\ UNCHANGED <<db, route, leaving, local, at, logins, down>>
  BY DEF RouteConfirm, Now, redisVars, clientVars
<1>2. Quiet /\ Inboxes' /\ InboxGrows /\ CarriedStored'
  BY <1>1, SameInbox
<1>3. CASE Done(s)
  BY <1>1, <1>2, <1>3, QuietDone
<1>4. CASE Via(s) # NoOne /\ GotoPush(s)
  <2>1. JobOK(s)
    BY TypeParts
  <2>2. Answered(s)
    BY <1>1, <2>1 DEF JobOK
  <2> QED
    BY <1>1, <1>2, <1>4, <2>2, AnswerStays, GotoPushStep
<1> QED
  BY <1>3, <1>4 DEF RouteConfirm

\* The ids of a request are letters' ids.
LEMMA IdsAre ==
  ASSUME TypeInv, NEW s \in Servers
  PROVE  /\ job[s].ids \in Seq(Nat)
         /\ \A k \in DOMAIN job[s].ids : job[s].ids[k] \in DOMAIN db.bank
BY TypeParts DEF Jobs, JobOK

\* One letter with stored messages.
LEMMA LetterCarries ==
  ASSUME TypeInv, NEW u \in Users, NEW m \in Letters, Send(u, m), db' = db,
         \A k \in DOMAIN m.ids : m.ids[k] \in DOMAIN db.bank
  PROVE  Mails(u, <<m>>) /\ Inboxes' /\ InboxGrows /\ CarriedStored'
<1>1. Mails(u, <<m>>) /\ Grown(db, db')
  BY TypeParts, SendMails, GrownSame
<1>2. \A i \in DOMAIN <<m>> : <<m>>[i] = m
  OBVIOUS
<1> QED
  BY <1>1, <1>2, MailsCarry

\* The receipt that RouteText sends.
ReceiptOf(s) == Msg("TEXTCHATMSGRESPONSE", TRUE, job[s].peer, job[s].thread, job[s].ids)

\* The receipt has the messages the worker stored.
LEMMA ReceiptIs ==
  ASSUME TypeInv, NEW s \in Servers, job[s].op # "idle"
  PROVE  /\ ReceiptOf(s) \in Letters
         /\ ReceiptOf(s).type = "TEXTCHATMSGRESPONSE" /\ ReceiptOf(s).ids = job[s].ids
<1>1. PICK p \in Nat, t \in Nat, ids \in Seq(Nat) :
        p = job[s].peer /\ t = job[s].thread /\ ids = job[s].ids
  BY WorkerIs, IdsAre
<1>2. "TEXTCHATMSGRESPONSE" \in Types
  BY DEF Types, Answers
<1>3. /\ Msg("TEXTCHATMSGRESPONSE", TRUE, p, t, ids) \in Letters
      /\ Msg("TEXTCHATMSGRESPONSE", TRUE, p, t, ids).type = "TEXTCHATMSGRESPONSE"
      /\ Msg("TEXTCHATMSGRESPONSE", TRUE, p, t, ids).ids = ids
  BY <1>2 DEF Msg, Letters, Types
<1> QED
  BY <1>1, <1>3 DEF ReceiptOf

\* The route of texts: the sender is told of them, or of an error.
LEMMA RouteTextTypes ==
  ASSUME TypeInv, NEW s \in Servers, RouteText(s)
  PROVE  /\ TypeInv'
         /\ \/ Quiet /\ Done(s)
            \/ Mails(job[s].user, <<ReceiptOf(s)>>) /\ GotoPush(s)
<1>1. /\ job[s].op = "text" /\ job[s].step = "route" /\ job[s].op # "idle"
      /\ UNCHANGED <<db, route, leaving, local, at, logins, down>>
  BY DEF RouteText, Now, redisVars, clientVars
<1>2. "TEXTCHATMSGRESPONSE" \in Types
  BY DEF Types, Answers
<1>3. CASE Refuse(s, "TEXTCHATMSGRESPONSE") /\ Done(s)
  BY <1>1, <1>2, <1>3, RefuseQuiet, QuietDone
<1>4. CASE Via(s) # NoOne /\ Reply(s, "TEXTCHATMSGRESPONSE", job[s].thread, job[s].ids) /\ GotoPush(s)
  <2>1. Send(job[s].user, ReceiptOf(s))
    BY <1>4 DEF Reply, ReceiptOf
  <2>2. /\ Mails(job[s].user, <<ReceiptOf(s)>>) /\ Inboxes' /\ InboxGrows /\ CarriedStored'
    BY <1>1, <2>1, ReceiptIs, WorkerIs, IdsAre, LetterCarries
  <2>3. \E i \in DOMAIN inbox'[job[s].user] :
           i > job[s].seen /\ inbox'[job[s].user][i].type = Answer(job[s].op)
    <3>1. 1 \in DOMAIN <<ReceiptOf(s)>> /\ <<ReceiptOf(s)>>[1].type = "TEXTCHATMSGRESPONSE"
      BY <1>1, ReceiptIs
    <3>2. Answer(job[s].op) = "TEXTCHATMSGRESPONSE"
      BY <1>1 DEF Answer
    <3> QED
      BY <1>1, <2>2, <3>1, <3>2, AnswersNow
  <2> QED
    BY <1>1, <1>4, <2>2, <2>3, GotoPushStep
<1> QED
  BY <1>3, <1>4 DEF RouteText
-----------------------------------------------------------------------------
\* The letter of a push.
PushOf(s, type) == Msg(type, TRUE, job[s].user, job[s].thread, job[s].ids)

\* A push has the messages the worker stored.
LEMMA PushIs ==
  ASSUME TypeInv, NEW s \in Servers, job[s].op # "idle", job[s].step = "push",
         NEW type \in Pushes
  PROVE  /\ PushOf(s, type) \in Letters
         /\ PushOf(s, type).type = type /\ PushOf(s, type).ids = job[s].ids
         /\ job[s].peer \in Users /\ job[s].via \in Servers
<1>1. PICK p \in Nat, t \in Nat, ids \in Seq(Nat) :
        p = job[s].user /\ t = job[s].thread /\ ids = job[s].ids
  BY WorkerIs, IdsAre, UsersAssumption
<1>2. type \in Types
  BY DEF Types
<1>3. /\ Msg(type, TRUE, p, t, ids) \in Letters
      /\ Msg(type, TRUE, p, t, ids).type = type
      /\ Msg(type, TRUE, p, t, ids).ids = ids
  BY <1>2 DEF Msg, Letters, Types
<1>4. job[s].peer \in Users /\ job[s].via \in Servers
  BY TypeParts DEF JobOK
<1> QED
  BY <1>1, <1>3, <1>4 DEF PushOf

\* A push comes to the other user's session, or nothing comes.
LEMMA PushedCarries ==
  ASSUME TypeInv, NEW s \in Servers, job[s].op # "idle", job[s].step = "push",
         NEW type \in Pushes, Pushed(s, type) \/ inbox' = inbox, db' = db
  PROVE  /\ Inboxes' /\ InboxGrows /\ CarriedStored'
         /\ inbox' = inbox \/ Mails(job[s].peer, <<PushOf(s, type)>>)
         /\ job[s].ids = <<>> => Quiet
<1>1. CASE inbox' = inbox
  BY <1>1, SameInbox
<1>2. CASE Pushed(s, type)
  <2>1. Send(job[s].peer, PushOf(s, type))
    BY <1>2 DEF Pushed, Push, PushOf
  <2> QED
    BY <2>1, PushIs, IdsAre, LetterCarries, SendMails, TypeParts
<1> QED
  BY <1>1, <1>2

\* The pushes of friend requests carry no messages.
LEMMA PushRequestTypes ==
  ASSUME TypeInv, NEW s \in Servers,
         PushRequest(s) \/ SendFriendRequest(s) \/ RequestCallFails(s)
  PROVE  TypeInv' /\ Quiet
<1>1. /\ job[s].op = "create" /\ job[s].step = "push"
      /\ UNCHANGED <<db, route, leaving, local, at, logins, down>>
      /\ Pushed(s, "FRIENDREINCOMINGREQUEST") \/ inbox' = inbox
      /\ Goto(s, "success") \/ Goto(s, "failure")
  BY DEF PushRequest, SendFriendRequest, RequestCallFails, PushHere, PushThere, Now, CallFails,
         Missed, redisVars, clientVars
<1>2. "FRIENDREINCOMINGREQUEST" \in Pushes /\ "success" \in Steps /\ "failure" \in Steps
  BY DEF Pushes, Steps
<1>3. job[s].ids = <<>>
  BY <1>1, TypeParts DEF JobOK
<1>4. Quiet
  BY <1>1, <1>2, <1>3, PushedCarries
<1>5. RestOK' /\ AtKept(s) /\ at'[job[s].user] = s /\ IsDatabase(db') /\ Grown(db, db')
  BY <1>1, SameRest, WorkerIs, TypeParts, GrownSame
<1> QED
  BY <1>1, <1>2, <1>4, <1>5, GotoStep

\* What ends with the push.
Pushing(s, op, type) ==
  /\ job[s].op = op /\ job[s].step = "push"
  /\ Pushed(s, type) \/ inbox' = inbox
  /\ Done(s)
  /\ UNCHANGED <<db, route, logins>>

\* The pushes of texts.
LEMMA PushTextTypes ==
  ASSUME TypeInv, NEW s \in Servers,
         PushText(s) \/ SendChattingTextMsg(s) \/ TextCallFails(s)
  PROVE  /\ TypeInv'
         /\ Pushing(s, "text", "TEXTCHATMSGICOMINGREQUEST") \/ Quiet
         /\ Done(s) /\ job[s].op = "text" /\ job[s].step = "push"
<1>1. /\ job[s].op = "text" /\ job[s].step = "push" /\ job[s].op # "idle" /\ Done(s)
      /\ UNCHANGED <<db, route, leaving, local, at, logins, down>>
      /\ \/ Pushed(s, "TEXTCHATMSGICOMINGREQUEST") \/ inbox' = inbox
         \/ Refuse(s, "FRIENDSENDERRESPONSE")
  BY DEF PushText, SendChattingTextMsg, TextCallFails, PushHere, PushThere, Now, CallFails,
         Missed, redisVars, clientVars
<1>2. "TEXTCHATMSGICOMINGREQUEST" \in Pushes /\ "FRIENDSENDERRESPONSE" \in Types
  BY DEF Pushes, Types, Answers
<1>3. CASE Refuse(s, "FRIENDSENDERRESPONSE")
  BY <1>1, <1>2, <1>3, RefuseQuiet, QuietDone
<1>4. CASE Pushed(s, "TEXTCHATMSGICOMINGREQUEST") \/ inbox' = inbox
  <2>1. Inboxes' /\ InboxGrows /\ CarriedStored'
    BY <1>1, <1>2, <1>4, PushedCarries
  <2>2. IsDatabase(db') /\ Grown(db, db') /\ RestOK' /\ AtKept(s)
    BY <1>1, TypeParts, GrownSame, SameRest
  <2> QED
    BY <1>1, <1>4, <2>1, <2>2, DoneStep DEF Pushing
<1> QED
  BY <1>1, <1>3, <1>4

\* The pushes of confirmations, and the crash.
LEMMA PushConfirmTypes ==
  ASSUME TypeInv, NEW s \in Servers,
         PushConfirm(s) \/ ConfirmFriendRequest(s) \/ ConfirmCallFails(s)
  PROVE  TypeInv' /\ Pushing(s, "confirm", "FRIENDING_ON_BIDDIRECTIONAL")
<1>1. Pushing(s, "confirm", "FRIENDING_ON_BIDDIRECTIONAL")
  BY DEF PushConfirm, ConfirmFriendRequest, ConfirmCallFails, PushHere, PushThere, Now, CallFails,
         Missed, redisVars, clientVars, Pushing
<1>2. \/ UNCHANGED <<local, leaving, at, down>>
      \/ /\ down' = down \cup {s}
         /\ local' = [local EXCEPT ![s] = {}]
         /\ at' = [u \in Users |-> IF at[u] = s THEN NoOne ELSE at[u]]
         /\ leaving' = {x \in leaving : route[x[1]].on # s}
  BY DEF PushConfirm, ConfirmFriendRequest, ConfirmCallFails, redisVars, clientVars
<1>3. RestOK' /\ AtKept(s)
  <2>1. RestOK /\ UNCHANGED <<route, logins>>
    BY <1>1, TypeParts DEF Pushing
  <2>2. CASE UNCHANGED <<local, leaving, at, down>>
    BY <2>1, <2>2 DEF RestOK, AtKept
  <2>3. CASE /\ down' = down \cup {s}
             /\ local' = [local EXCEPT ![s] = {}]
             /\ at' = [u \in Users |-> IF at[u] = s THEN NoOne ELSE at[u]]
             /\ leaving' = {x \in leaving : route[x[1]].on # s}
    BY <2>1, <2>3 DEF RestOK, AtKept
  <2> QED
    BY <1>2, <2>2, <2>3
<1>4. "FRIENDING_ON_BIDDIRECTIONAL" \in Pushes
  BY DEF Pushes
<1>5. Inboxes' /\ InboxGrows /\ CarriedStored' /\ Done(s)
  BY <1>1, <1>4, PushedCarries DEF Pushing
<1>6. IsDatabase(db') /\ Grown(db, db')
  BY <1>1, TypeParts, GrownSame DEF Pushing
<1> QED
  BY <1>1, <1>3, <1>5, <1>6, DoneStep

\* The answer to the sender of a friend request.
LEMMA ReportTypes ==
  ASSUME TypeInv, NEW s \in Servers, Report(s)
  PROVE  TypeInv' /\ Quiet
<1>1. /\ job[s].op = "create" /\ Done(s)
      /\ UNCHANGED <<db, route, leaving, local, at, logins, down>>
      /\ Reply(s, "FRIENDSENDERRESPONSE", 0, <<>>) \/ Refuse(s, "FRIENDSENDERRESPONSE")
  BY TypeParts DEF Report, JobOK, redisVars, clientVars
<1>2. "FRIENDSENDERRESPONSE" \in Types
  BY DEF Types, Answers
<1> QED
  BY <1>1, <1>2, RefuseQuiet, ReplyQuiet, QuietDone

-----------------------------------------------------------------------------
(* Login and logout                                                        *)

\* Two letters without messages.
LEMMA TwoLetters ==
  ASSUME TypeInv, NEW u \in Users, NEW a \in Letters, NEW b \in Letters, a.ids = <<>>, b.ids = <<>>,
         inbox' = [inbox EXCEPT ![u] = @ \o <<a, b>>]
  PROVE  Quiet
<1>1. DOMAIN <<a, b>> = {1, 2} /\ <<a, b>>[1] = a /\ <<a, b>>[2] = b /\ <<a, b>> \in Seq(Letters)
  OBVIOUS
<1>2. Mails(u, <<a, b>>) /\ Blank(<<a, b>>)
  BY <1>1 DEF Mails, Blank
<1> QED
  BY <1>2 DEF Quiet

\* updateRedisCache.
LEMMA UpdateRedisCacheTypes ==
  ASSUME TypeInv, NEW s \in Servers, UpdateRedisCache(s)
  PROVE  TypeInv' /\ Quiet
<1>1. job[s].op = "login" /\ UNCHANGED <<db, leaving, local, logins, down>>
  BY DEF UpdateRedisCache, Now
<1>2. "LOGINRESPONSE" \in Types /\ "register" \in Steps
  BY DEF Types, Answers, Steps
<1>3. RestOK /\ IsDatabase(db') /\ Grown(db, db') /\ job[s].user \in Users /\ at[job[s].user] = s
  BY <1>1, TypeParts, GrownSame, WorkerIs
<1>4. CASE /\ route' = [route EXCEPT ![job[s].user] = [on |-> s, sid |-> logins[job[s].user]]]
           /\ Goto(s, "register") /\ at' = at /\ inbox' = inbox
  <2>1. RestOK' /\ AtKept(s) /\ at'[job[s].user] = s
    BY <1>1, <1>3, <1>4 DEF RestOK, AtKept
  <2> QED
    BY <1>1, <1>2, <1>3, <1>4, <2>1, SameInbox, GotoStep
<1>5. CASE /\ Refuse(s, "LOGINRESPONSE") /\ at' = [at EXCEPT ![job[s].user] = NoOne]
           /\ Done(s) /\ route' = route
  <2>1. RestOK' /\ AtKept(s)
    BY <1>1, <1>3, <1>5 DEF RestOK, AtKept
  <2>2. Quiet
    BY <1>1, <1>2, <1>5, RefuseQuiet
  <2> QED
    BY <1>3, <1>5, <2>1, <2>2, QuietCarries, DoneStep
<1> QED
  BY <1>4, <1>5 DEF UpdateRedisCache

\* createUserSession.
LEMMA CreateUserSessionTypes ==
  ASSUME TypeInv, NEW s \in Servers, CreateUserSession(s)
  PROVE  TypeInv' /\ Quiet
<1>1. /\ job[s].op = "login" /\ UNCHANGED <<db, route, leaving, at, logins, inbox, down>>
      /\ local' = [local EXCEPT ![s] = @ \cup {job[s].user}] /\ Goto(s, "lists")
  BY DEF CreateUserSession, Now, redisVars, clientVars
<1>2. "lists" \in Steps
  BY DEF Steps
<1>3. RestOK /\ IsDatabase(db') /\ Grown(db, db') /\ job[s].user \in Users /\ at[job[s].user] = s
  BY <1>1, TypeParts, GrownSame, WorkerIs
<1>4. RestOK' /\ AtKept(s) /\ at'[job[s].user] = s
  BY <1>1, <1>3 DEF RestOK, AtKept
<1> QED
  BY <1>1, <1>2, <1>3, <1>4, SameInbox, GotoStep

\* kick_session of a user without a profile.
LEMMA KickUnknownTypes ==
  ASSUME TypeInv, NEW s \in Servers, KickUnknown(s)
  PROVE  TypeInv' /\ Quiet
<1> DEFINE u == job[s].user
<1>1. /\ job[s].op = "login" /\ Done(s) /\ UNCHANGED <<db, leaving, logins, down>>
      /\ route' = [route EXCEPT ![u] = IF @.sid = logins[u] THEN [on |-> NoOne, sid |-> 0] ELSE @]
      /\ local' = [local EXCEPT ![s] = @ \ {u}]
      /\ at' = [at EXCEPT ![u] = NoOne]
      /\ inbox' = [inbox EXCEPT ![u] = @ \o
       <<Msg("LOGINRESPONSE", FALSE, 0, 0, <<>>), Msg("LOGOUTRESPONSE", TRUE, 0, 0, <<>>)>>]
  BY DEF KickUnknown, Now
<1>2. u \in Users /\ at[u] = s
  BY <1>1, WorkerIs
<1>3. RestOK /\ IsDatabase(db') /\ Grown(db, db')
  BY <1>1, TypeParts, GrownSame
<1>4. RestOK' /\ AtKept(s)
  <2>1. route' \in [Users -> [on : Servers \cup {NoOne}, sid : Nat]]
    <3>1. [on |-> NoOne, sid |-> 0] \in [on : Servers \cup {NoOne}, sid : Nat]
      OBVIOUS
    <3> QED
      BY <1>1, <1>2, <1>3, <3>1 DEF RestOK
  <2> HIDE DEF u
  <2> QED
    BY <1>1, <1>2, <1>3, <2>1 DEF RestOK, AtKept
<1>5. /\ Msg("LOGINRESPONSE", FALSE, 0, 0, <<>>) \in Letters
      /\ Msg("LOGINRESPONSE", FALSE, 0, 0, <<>>).ids = <<>>
      /\ Msg("LOGOUTRESPONSE", TRUE, 0, 0, <<>>) \in Letters
      /\ Msg("LOGOUTRESPONSE", TRUE, 0, 0, <<>>).ids = <<>>
  BY NoIds DEF Msg, Letters, Answers
<1>6. Quiet
  BY <1>1, <1>2, <1>5, TwoLetters
<1> QED
  BY <1>1, <1>3, <1>4, <1>6, QuietCarries, DoneStep

\* The lists of users that come with the login.
LEMMA UserLetters ==
  ASSUME NEW type \in Types, NEW S \in SUBSET Users
  PROVE  LET T == Ascending(S) IN
         /\ [k \in DOMAIN T |-> Msg(type, TRUE, T[k], 0, <<>>)] \in Seq(Letters)
         /\ Blank([k \in DOMAIN T |-> Msg(type, TRUE, T[k], 0, <<>>)])
<1> DEFINE T == Ascending(S)
<1>1. S \subseteq Nat /\ IsFiniteSet(S)
  BY UsersAssumption, FS_Subset
<1>2. T \in Seq(S) /\ DOMAIN T = 1..Cardinality(S) /\ Cardinality(S) \in Nat
  BY <1>1, AscendingType
<1>3. PICK n \in Nat : n = Cardinality(S)
  BY <1>2
<1>4. \A k \in 1..n : T[k] \in Nat
  <2> HIDE DEF T
  <2>1. \A k \in 1..n : T[k] \in S
    BY <1>2, <1>3, ElementOfSeq
  <2> QED
    BY <1>1, <2>1
<1> HIDE DEF T
<1> DEFINE F == [k \in 1..n |-> T[k]]
           G == [k \in 1..n |-> 0]
<1>5. F \in [1..n -> Nat] /\ G \in [1..n -> Nat]
  BY <1>4
<1> DEFINE w == [k \in 1..n |-> Msg(type, TRUE, F[k], G[k], <<>>)]
<1>6. w \in Seq(Letters) /\ Blank(w)
  <2> HIDE DEF F, G
  <2> QED
    BY <1>5, ItemsAre
<1>7. w = [k \in DOMAIN T |-> Msg(type, TRUE, T[k], 0, <<>>)]
  BY <1>2, <1>3
<1> HIDE DEF w
<1> QED
  BY <1>6, <1>7 DEF T

\* The lists of a login are users.
LEMMA ListsAre ==
  ASSUME IsDatabase(db), NEW u
  PROVE  /\ FriendingRequestList(db, u) \in SUBSET Users
         /\ AuthenticFriendsList(db, u) \in SUBSET Users
<1>1. \A i \in DOMAIN db.request : db.request[i].src \in Users
  <2>1. SUFFICES ASSUME NEW i \in DOMAIN db.request PROVE db.request[i].src \in Users
    OBVIOUS
  <2>2. db.request[i] \in Requests
    BY Columns, ElementOfSeq, DOMAIN db.request = 1..Len(db.request)
  <2> QED
    BY <2>2 DEF Requests
<1> QED
  BY <1>1 DEF FriendingRequestList, FriendRequestList, AuthenticFriendsList, AuthFriendList

\* The answer alone.
LEMMA LoginLetter ==
  /\ <<Msg("LOGINRESPONSE", TRUE, 0, 0, <<>>)>> \in Seq(Letters)
  /\ Blank(<<Msg("LOGINRESPONSE", TRUE, 0, 0, <<>>)>>)
<1>1. /\ Msg("LOGINRESPONSE", TRUE, 0, 0, <<>>) \in Letters
      /\ Msg("LOGINRESPONSE", TRUE, 0, 0, <<>>).ids = <<>>
  BY NoIds DEF Msg, Letters, Answers
<1>2. PICK m \in Letters : m = Msg("LOGINRESPONSE", TRUE, 0, 0, <<>>) /\ m.ids = <<>>
  BY <1>1
<1>3. <<m>> \in Seq(Letters) /\ Blank(<<m>>)
  <2>1. <<m>> \in Seq(Letters) /\ DOMAIN <<m>> = {1} /\ <<m>>[1] = m
    OBVIOUS
  <2> QED
    BY <1>2, <2>1 DEF Blank
<1> QED
  BY <1>2, <1>3

\* The answer to a login, and the lists after it.
LEMMA LoginLetters ==
  ASSUME TypeInv, NEW s \in Servers, LoginResponse(s)
  PROVE  \E w \in Seq(Letters) :
           /\ Blank(w)
           /\ inbox' = [inbox EXCEPT ![job[s].user] = @ \o (<<Msg("LOGINRESPONSE", TRUE, 0, 0, <<>>)>> \o w)]
<1> DEFINE u == job[s].user
           A == Ascending(FriendingRequestList(db, u))
           B == Ascending(AuthenticFriendsList(db, u))
           a == [k \in DOMAIN A |-> Msg("FriendRequestList", TRUE, A[k], 0, <<>>)]
           b == [k \in DOMAIN B |-> Msg("AuthFriendList", TRUE, B[k], 0, <<>>)]
           one == <<Msg("LOGINRESPONSE", TRUE, 0, 0, <<>>)>>
<1>1. /\ job[s].op = "login" /\ Done(s)
      /\ UNCHANGED <<db, route, leaving, local, at, logins, down>>
      /\ inbox' = [inbox EXCEPT ![u] = @ \o one \o a \o b]
  BY DEF LoginResponse, Now, redisVars, clientVars
<1>2. u \in Users /\ IsDatabase(db) /\ inbox[u] \in Seq(Letters)
  BY <1>1, WorkerIs, TypeParts
<1>3. a \in Seq(Letters) /\ Blank(a) /\ b \in Seq(Letters) /\ Blank(b)
  <2>1. "FriendRequestList" \in Types /\ "AuthFriendList" \in Types
    BY DEF Types, Pushes
  <2>2. /\ FriendingRequestList(db, u) \in SUBSET Users
        /\ AuthenticFriendsList(db, u) \in SUBSET Users
    <3> HIDE DEF u
    <3> QED
      BY <1>2, ListsAre
  <2>3. PICK S \in SUBSET Users : S = FriendingRequestList(db, u)
    BY <2>2
  <2>4. PICK R \in SUBSET Users : R = AuthenticFriendsList(db, u)
    BY <2>2
  <2> QED
    BY <2>1, <2>3, <2>4, UserLetters
<1>4. one \in Seq(Letters) /\ Blank(one)
  BY LoginLetter
<1> HIDE DEF a, b, one, u
<1>5. a \o b \in Seq(Letters) /\ Blank(a \o b)
  BY <1>3, ConcatBlank
<1>6. inbox[u] \o one \o a \o b = inbox[u] \o (one \o (a \o b))
  <2>1. PICK p \in Seq(Letters), q \in Seq(Letters), x \in Seq(Letters), y \in Seq(Letters) :
          p = inbox[u] /\ q = one /\ x = a /\ y = b
    BY <1>2, <1>3, <1>4
  <2>2. p \o q \o x \o y = p \o (q \o (x \o y))
    <3>1. PICK z \in Seq(Letters) : z = p \o q
      BY ConcatProperties
    <3>2. PICK t \in Seq(Letters) : t = x \o y
      BY ConcatProperties
    <3>3. (z \o x) \o y = z \o (x \o y)
      BY ConcatAssociative
    <3>4. (p \o q) \o t = p \o (q \o t)
      BY ConcatAssociative
    <3> QED
      BY <3>1, <3>2, <3>3, <3>4
  <2> QED
    BY <2>1, <2>2
<1>7. inbox' = [inbox EXCEPT ![u] = @ \o (one \o (a \o b))]
  BY <1>1, <1>6
<1> QED
  BY <1>5, <1>7 DEF one, u

\* The lists and the answer of a login.
LEMMA LoginResponseTypes ==
  ASSUME TypeInv, NEW s \in Servers, LoginResponse(s)
  PROVE  TypeInv' /\ Quiet
<1> DEFINE u == job[s].user
           one == <<Msg("LOGINRESPONSE", TRUE, 0, 0, <<>>)>>
<1>1. /\ job[s].op = "login" /\ Done(s)
      /\ UNCHANGED <<db, route, leaving, local, at, logins, down>>
  BY DEF LoginResponse, Now, redisVars, clientVars
<1>2. u \in Users
  BY <1>1, WorkerIs
<1>3. PICK w \in Seq(Letters) : Blank(w) /\ inbox' = [inbox EXCEPT ![u] = @ \o (one \o w)]
  BY LoginLetters
<1>4. one \in Seq(Letters) /\ Blank(one)
  BY LoginLetter
<1> HIDE DEF one, u
<1>5. one \o w \in Seq(Letters) /\ Blank(one \o w)
  BY <1>3, <1>4, ConcatBlank
<1>8. Quiet
  BY <1>2, <1>3, <1>5 DEF Quiet, Mails
<1> QED
  BY <1>1, <1>8, QuietDone

\* handlingLogout.
LEMMA LogoutTypes ==
  ASSUME TypeInv, NEW s \in Servers, HandlingLogout(s)
  PROVE  TypeInv' /\ Quiet
<1>1. /\ job[s].op = "logout" /\ Done(s) /\ UNCHANGED <<db, route, logins, down>>
  BY DEF HandlingLogout, Now
<1>2. "LOGOUTRESPONSE" \in Types
  BY DEF Types, Answers
<1>3. Quiet
  <2>1. Reply(s, "LOGOUTRESPONSE", 0, <<>>) \/ Refuse(s, "LOGOUTRESPONSE")
    BY DEF HandlingLogout
  <2> QED
    BY <1>1, <1>2, <2>1, RefuseQuiet, ReplyQuiet
<1>4. RestOK /\ IsDatabase(db') /\ Grown(db, db') /\ job[s].user \in Users /\ at[job[s].user] = s
  BY <1>1, TypeParts, GrownSame, WorkerIs
<1>5. RestOK' /\ AtKept(s)
  <2>1. CASE /\ local' = [local EXCEPT ![s] = @ \ {job[s].user}]
             /\ leaving' = leaving \cup {<<job[s].user, logins[job[s].user]>>}
             /\ at' = [at EXCEPT ![job[s].user] = NoOne]
    BY <1>1, <1>4, <2>1 DEF RestOK, AtKept
  <2>2. CASE UNCHANGED <<local, leaving, at>>
    BY <1>1, <1>4, <2>2 DEF RestOK, AtKept
  <2> QED
    BY <2>1, <2>2 DEF HandlingLogout
<1> QED
  BY <1>1, <1>3, <1>4, <1>5, QuietCarries, DoneStep

\* What no worker does: the requests stay as they are.
LEMMA SameJobs ==
  ASSUME TypeInv, job' = job, at' = at, inbox' = inbox, db' = db, RestOK'
  PROVE  TypeInv'
<1>1. Inboxes' /\ InboxGrows /\ CarriedStored' /\ IsDatabase(db')
  BY TypeParts, SameInbox
<1>2. ASSUME NEW r \in Servers PROVE JobOK(r)'
  <2>1. JobOK(r)
    BY TypeParts
  <2> QED
    BY <2>1 DEF JobOK, Answered
<1>3. TypeOK'
  BY <1>1, TypeParts DEF TypeOK, RestOK, Inboxes, CarriedStored
<1> QED
  BY <1>2, <1>3 DEF TypeInv

\* purgeRemoveConnection.
LEMMA PurgeTypes ==
  ASSUME TypeInv, NEW u \in Users, NEW n \in 1..MaxLogins, Purge(u, n)
  PROVE  TypeInv' /\ Quiet
<1>1. /\ leaving' = leaving \ {<<u, n>>}
      /\ route' = [route EXCEPT ![u] = IF @.sid = n THEN [on |-> NoOne, sid |-> 0] ELSE @]
      /\ UNCHANGED <<db, local, at, logins, job, inbox, down>>
  BY DEF Purge, clientVars
<1>2. RestOK
  BY TypeParts
<1>3. RestOK'
  <2>1. route' \in [Users -> [on : Servers \cup {NoOne}, sid : Nat]]
    <3>1. [on |-> NoOne, sid |-> 0] \in [on : Servers \cup {NoOne}, sid : Nat]
      OBVIOUS
    <3> QED
      BY <1>1, <1>2, <3>1 DEF RestOK
  <2> QED
    BY <1>1, <1>2, <2>1 DEF RestOK
<1> QED
  BY <1>1, <1>3, SameJobs DEF Quiet

\* The client's view at the start.
LEMMA ShownTypes ==
  ASSUME IsDatabase(db), NEW u \in Users
  PROVE  Shown(db, u) \in Seq(Letters) /\ Blank(Shown(db, u))
<1> DEFINE R == {i \in DOMAIN db.request : db.request[i].dst = u /\ db.request[i].status = 0}
           S == UserThreads(db, u, 0)
           T == Ascending(S)
           Q == Ascending(R)
           a == [k \in DOMAIN T |-> Msg("PULLCHATTHREADRESPONSE", TRUE, Peer(db, u, T[k]), T[k], <<>>)]
           b == [k \in DOMAIN Q |-> Msg("FRIENDREINCOMINGREQUEST", TRUE, db.request[Q[k]].src, 0, <<>>)]
<1>1. a \in Seq(Letters) /\ Blank(a)
  <2>1. \A t \in S : \E c \in db.chat : c.thread = t
    BY DEF UserThreads
  <2> HIDE DEF S
  <2> QED
    BY <2>1, ThreadLetters
<1>2. b \in Seq(Letters) /\ Blank(b)
  <2>1. PICK m \in Nat : m = Len(db.request) /\ DOMAIN db.request = 1..m
    BY Columns
  <2>2. R \subseteq Nat /\ IsFiniteSet(R)
    <3>1. R \in SUBSET (1..m) /\ IsFiniteSet(1..m)
      BY <2>1, FS_Interval
    <3> QED
      BY <3>1, FS_Subset
  <2>3. Q \in Seq(R) /\ DOMAIN Q = 1..Cardinality(R) /\ Cardinality(R) \in Nat
    <3> HIDE DEF R
    <3> QED
      BY <2>2, AscendingType
  <2>4. PICK n \in Nat : n = Cardinality(R)
    BY <2>3
  <2>5. \A k \in 1..n : Q[k] \in R
    <3> HIDE DEF R, Q
    <3> QED
      BY <2>3, <2>4, ElementOfSeq
  <2> HIDE DEF Q
  <2> DEFINE F == [k \in 1..n |-> db.request[Q[k]].src]
             G == [k \in 1..n |-> 0]
  <2>6. F \in [1..n -> Nat] /\ G \in [1..n -> Nat]
    <3>1. \A i \in R : db.request[i].src \in Nat
      <4>1. \A i \in R : db.request[i] \in Requests
        BY <2>1, Columns, ElementOfSeq
      <4> QED
        BY <4>1, UsersAssumption DEF Requests
    <3> HIDE DEF R
    <3> QED
      BY <2>5, <3>1
  <2>7. "FRIENDREINCOMINGREQUEST" \in Types
    BY DEF Types, Pushes
  <2> DEFINE w == [k \in 1..n |-> Msg("FRIENDREINCOMINGREQUEST", TRUE, F[k], G[k], <<>>)]
  <2>8. w \in Seq(Letters) /\ Blank(w)
    <3> HIDE DEF F, G
    <3> QED
      BY <2>6, <2>7, ItemsAre
  <2>9. w = b
    BY <2>3, <2>4
  <2> HIDE DEF w, b
  <2> QED
    BY <2>8, <2>9
<1>3. Shown(db, u) = a \o b
  BY DEF Shown
<1> HIDE DEF a, b
<1> QED
  BY <1>1, <1>2, <1>3, ConcatBlank

\* A run starts with the types.
LEMMA InitTypes == Init => TypeInv
<1> SUFFICES ASSUME Init PROVE TypeInv
  OBVIOUS
<1>1. IsDatabase(db)
  BY TablesAssumption DEF Init
<1>2. at \in [Users -> Servers \cup {NoOne}]
  BY HomesAssumption DEF Init
<1>3. RestOK
  BY <1>2 DEF RestOK, Init
<1>4. \A u \in Users : inbox[u] \in Seq(Letters) /\ Blank(inbox[u])
  <2>1. SUFFICES ASSUME NEW u \in Users PROVE inbox[u] \in Seq(Letters) /\ Blank(inbox[u])
    OBVIOUS
  <2>2. inbox[u] = Shown(db, u)
    BY DEF Init
  <2> QED
    BY <1>1, <2>2, ShownTypes
<1>5. Inboxes
  BY <1>4 DEF Inboxes, Init
<1>6. CarriedStored
  <2>1. SUFFICES ASSUME NEW u \in Users, NEW i \in DOMAIN inbox[u], NEW k \in DOMAIN inbox[u][i].ids
                PROVE  FALSE
    BY DEF CarriedStored
  <2>2. inbox[u][i].ids = <<>>
    BY <1>4 DEF Blank
  <2> QED
    BY <2>1, <2>2
<1>7. job = [s \in Servers |-> Idle]
  BY DEF Init
<1>8. job \in [Servers -> Jobs]
  BY <1>7, IdleIs
<1>9. ASSUME NEW s \in Servers PROVE JobOK(s)
  <2>1. job[s] = Idle /\ job[s].op = "idle" /\ job[s].step = "" /\ job[s].ids = <<>>
    BY <1>7, IdleIs
  <2>2. \A k \in DOMAIN <<>> : FALSE
    OBVIOUS
  <2> QED
    BY <2>1, <2>2 DEF JobOK
<1>10. TypeOK
  BY <1>1, <1>3, <1>5, <1>6, <1>8 DEF TypeOK, RestOK, Inboxes, CarriedStored
<1> QED
  BY <1>9, <1>10 DEF TypeInv

\* Every step keeps them.
LEMMA NextTypes ==
  ASSUME TypeInv, [Next]_vars
  PROVE  TypeInv'
<1>1. CASE UNCHANGED vars
  <2>1. RestOK'
    BY <1>1, TypeParts DEF RestOK, vars, redisVars, clientVars
  <2> QED
    BY <1>1, <2>1, SameJobs DEF vars
<1>2. ASSUME NEW s \in Servers, NEW u \in Users, Ask(s, u) PROVE TypeInv'
  BY <1>2, AskTypes
<1>3. ASSUME NEW s \in Servers, Work(s) PROVE TypeInv'
  BY <1>3, SearchTypes, ThreadsTypes, RecordsTypes, LookTypes, CreateChatTypes, CreateTypes,
     ConfirmTypes, StoreTextTypes, RouteRequestTypes, RouteConfirmTypes, RouteTextTypes,
     PushRequestTypes, PushTextTypes, PushConfirmTypes, ReportTypes, UpdateRedisCacheTypes,
     CreateUserSessionTypes, KickUnknownTypes, LoginResponseTypes, LogoutTypes DEF Work
<1>4. ASSUME NEW u \in Users, NEW n \in 1..MaxLogins, Purge(u, n) PROVE TypeInv'
  BY <1>4, PurgeTypes
<1> QED
  BY <1>1, <1>2, <1>3, <1>4 DEF Next

\* The types hold in every state, for any users, servers, tables and bounds: in
\* particular no client is ever sent a message that is not stored, although the
\* handlers keep ids over several transactions and calls.
THEOREM TypesAreKept == Spec => []TypeOK
<1>1. TypeInv => TypeOK
  BY DEF TypeInv
<1> QED
  BY InitTypes, NextTypes, <1>1, PTL DEF Spec

\* A user that follows next_thread_id is given each of its threads once, whatever
\* the threads, the page size and the cursor (getUserChattingThreadIdx).
THEOREM PagesCoverThreads == Spec => []PagingLosesNothing
<1>1. TypeOK => PagingLosesNothing
  BY PagesCover DEF TypeOK
<1> QED
  BY TypesAreKept, <1>1, PTL

-----------------------------------------------------------------------------
(* Boxes: the messages in the letters a user received                      *)

\* Message k of letter i, in the answers to its texts or in the rest.
In(box, i, k, kind) ==
  i \in DOMAIN box /\ (Receipt(box[i]) <=> kind = "told") /\ k \in DOMAIN box[i].ids

\* What may be in a box, and in which order.
Good(B, u, x, kind) ==
  x \in DOMAIN B /\ IF kind = "told" THEN B[x].from = u ELSE u \in {B[x].from, B[x].to}

Later(B, u, x, y, kind) ==
  IF kind = "told" THEN x < y
  ELSE x # y /\ (B[x].from = B[y].from /\ B[x].from # u => x < y)

Well(B, u, box, kind) ==
  \A i, k : In(box, i, k, kind) =>
    /\ Good(B, u, box[i].ids[k], kind)
    /\ \A j, l : In(box, j, l, kind) /\ (i < j \/ (i = j /\ k < l)) =>
         Later(B, u, box[i].ids[k], box[j].ids[l], kind)

\* A list of messages that may come next.
Fits(B, u, box, ids, kind) ==
  /\ \A k \in DOMAIN ids : Good(B, u, ids[k], kind)
  /\ \A k, l \in DOMAIN ids : k < l => Later(B, u, ids[k], ids[l], kind)
  /\ \A i, j : In(box, i, j, kind) =>
       \A k \in DOMAIN ids : Later(B, u, box[i].ids[j], ids[k], kind)

Extends(B, C) ==
  /\ DOMAIN B \subseteq Nat
  /\ \A x \in DOMAIN B : x \in DOMAIN C /\ C[x] = B[x]

\* The messages of a box stay good when others are stored.
LEMMA WellStays ==
  ASSUME NEW B, NEW C, Extends(B, C), NEW u, NEW box, NEW kind, Well(B, u, box, kind)
  PROVE  Well(C, u, box, kind)
<1>1. \A x \in DOMAIN B : C[x] = B[x] /\ x \in DOMAIN C
  BY DEF Extends
<1>2. \A x : Good(B, u, x, kind) => Good(C, u, x, kind)
  BY <1>1 DEF Good
<1>3. \A x, y \in DOMAIN B : Later(B, u, x, y, kind) => Later(C, u, x, y, kind)
  BY <1>1 DEF Later
<1>4. \A x : Good(B, u, x, kind) => x \in DOMAIN B
  BY DEF Good
<1> QED
  BY <1>2, <1>3, <1>4 DEF Well

\* So does a list that fits.
LEMMA FitsStays ==
  ASSUME NEW B, NEW C, Extends(B, C), NEW u, NEW box, NEW kind, NEW ids,
         Well(B, u, box, kind), Fits(B, u, box, ids, kind)
  PROVE  Fits(C, u, box, ids, kind)
<1>1. \A x \in DOMAIN B : C[x] = B[x] /\ x \in DOMAIN C
  BY DEF Extends
<1>2. \A x : Good(B, u, x, kind) => Good(C, u, x, kind)
  BY <1>1 DEF Good
<1>3. \A x, y \in DOMAIN B : Later(B, u, x, y, kind) => Later(C, u, x, y, kind)
  BY <1>1 DEF Later
<1>4. \A x : Good(B, u, x, kind) => x \in DOMAIN B
  BY DEF Good
<1>5. \A i, k : In(box, i, k, kind) => box[i].ids[k] \in DOMAIN B
  BY <1>4 DEF Well
<1> QED
  BY <1>2, <1>3, <1>4, <1>5 DEF Fits

\* The letters of w carry messages only in c.
Carrier(w, c) == c \in DOMAIN w /\ \A n \in DOMAIN w : n # c => w[n].ids = <<>>

\* What the box p holds, once w is put into box.
Split(box, w, c, p, kind) ==
  /\ \A i, k : In(box, i, k, kind) =>
       In(p, i, k, kind) /\ p[i] = box[i] /\ i \in Nat /\ i <= Len(box)
  /\ \A i, k : In(p, i, k, kind) =>
       \/ In(box, i, k, kind) /\ p[i] = box[i]
       \/ /\ i = Len(box) + c /\ (Receipt(w[c]) <=> kind = "told") /\ k \in DOMAIN w[c].ids
          /\ p[i] = w[c]

\* A delivery adds the messages of one letter, after all the others.
LEMMA BoxIs ==
  ASSUME NEW box \in Seq(Letters), NEW w \in Seq(Letters), NEW c, Carrier(w, c), NEW kind
  PROVE  Len(box) \in Nat /\ c \in Nat /\ c > 0 /\ Split(box, w, c, box \o w, kind)
<1>1. /\ Len(box) \in Nat /\ c \in Nat /\ c > 0
      /\ \A i \in DOMAIN box : i \in Nat /\ i <= Len(box) /\ i \in DOMAIN (box \o w)
                               /\ (box \o w)[i] = box[i]
  BY DEF Carrier
<1>2. \A i \in DOMAIN (box \o w) :
        \/ i \in DOMAIN box /\ (box \o w)[i] = box[i]
        \/ \E n \in DOMAIN w : i = Len(box) + n /\ (box \o w)[i] = w[n]
  <2>1. \A i \in DOMAIN (box \o w) :
        \/ i \in DOMAIN box /\ (box \o w)[i] = box[i]
        \/ i - Len(box) \in DOMAIN w /\ i = Len(box) + (i - Len(box)) /\ (box \o w)[i] = w[i - Len(box)]
    OBVIOUS
  <2> QED
    BY <2>1
<1> DEFINE p == box \o w
<1> HIDE DEF p
<1>3. \A i, k : In(box, i, k, kind) => In(p, i, k, kind) /\ p[i] = box[i] /\ i \in Nat /\ i <= Len(box)
  BY <1>1 DEF In, p
<1>4. \A i, k : In(p, i, k, kind) =>
              \/ In(box, i, k, kind) /\ p[i] = box[i]
              \/ /\ i = Len(box) + c /\ (Receipt(w[c]) <=> kind = "told") /\ k \in DOMAIN w[c].ids
                 /\ p[i] = w[c]
  <2>1. SUFFICES ASSUME NEW i, NEW k, In(p, i, k, kind)
                 PROVE  \/ In(box, i, k, kind) /\ p[i] = box[i]
                        \/ /\ i = Len(box) + c /\ (Receipt(w[c]) <=> kind = "told") /\ k \in DOMAIN w[c].ids
                           /\ p[i] = w[c]
    OBVIOUS
  <2>2. CASE i \in DOMAIN box /\ p[i] = box[i]
    BY <2>1, <2>2 DEF In
  <2>3. ASSUME NEW n \in DOMAIN w, i = Len(box) + n, p[i] = w[n]
        PROVE  /\ i = Len(box) + c /\ (Receipt(w[c]) <=> kind = "told") /\ k \in DOMAIN w[c].ids
               /\ p[i] = w[c]
    <3>1. k \in DOMAIN w[n].ids
      BY <2>1, <2>3 DEF In
    <3>2. n = c
      BY <3>1 DEF Carrier
    <3> QED
      BY <2>1, <2>3, <3>1, <3>2 DEF In
  <2> QED
    BY <1>2, <2>1, <2>2, <2>3 DEF In, p
<1> QED
  BY <1>1, <1>3, <1>4 DEF p, Split

\* A list that fits leaves the box in order.
LEMMA WellAppend ==
  ASSUME NEW B, NEW u, NEW kind, NEW box \in Seq(Letters), NEW w \in Seq(Letters), NEW c,
         Carrier(w, c), Well(B, u, box, kind),
         (Receipt(w[c]) <=> kind = "told") => Fits(B, u, box, w[c].ids, kind)
  PROVE  Well(B, u, box \o w, kind)
<1> DEFINE p == box \o w
<1>1. /\ Len(box) \in Nat /\ c \in Nat /\ c > 0
      /\ \A i, k : In(box, i, k, kind) => In(p, i, k, kind) /\ p[i] = box[i] /\ i \in Nat /\ i <= Len(box)
      /\ \A i, k : In(p, i, k, kind) =>
              \/ In(box, i, k, kind) /\ p[i] = box[i]
              \/ /\ i = Len(box) + c /\ (Receipt(w[c]) <=> kind = "told") /\ k \in DOMAIN w[c].ids
                 /\ p[i] = w[c]
  BY BoxIs DEF Split
<1> HIDE DEF p
<1>2. SUFFICES ASSUME NEW i, NEW k, In(p, i, k, kind)
               PROVE  /\ Good(B, u, p[i].ids[k], kind)
                      /\ \A j, l : In(p, j, l, kind) /\ (i < j \/ (i = j /\ k < l)) =>
                            Later(B, u, p[i].ids[k], p[j].ids[l], kind)
  BY DEF Well, p
<1>3. CASE In(box, i, k, kind) /\ p[i] = box[i]
  <2>1. Good(B, u, p[i].ids[k], kind)
    BY <1>3 DEF Well
  <2>2. ASSUME NEW j, NEW l, In(p, j, l, kind), i < j \/ (i = j /\ k < l)
        PROVE  Later(B, u, p[i].ids[k], p[j].ids[l], kind)
    <3>1. CASE In(box, j, l, kind) /\ p[j] = box[j]
      BY <1>3, <2>2, <3>1 DEF Well
    <3>2. CASE (Receipt(w[c]) <=> kind = "told") /\ l \in DOMAIN w[c].ids /\ p[j] = w[c]
      BY <1>3, <3>2 DEF Fits
    <3> QED
      BY <1>1, <2>2, <3>1, <3>2
  <2> QED
    BY <2>1, <2>2
<1>4. CASE i = Len(box) + c /\ (Receipt(w[c]) <=> kind = "told") /\ k \in DOMAIN w[c].ids /\ p[i] = w[c]
  <2>1. Good(B, u, p[i].ids[k], kind)
    BY <1>4 DEF Fits
  <2>2. ASSUME NEW j, NEW l, In(p, j, l, kind), i < j \/ (i = j /\ k < l)
        PROVE  Later(B, u, p[i].ids[k], p[j].ids[l], kind)
    <3>1. ~(In(box, j, l, kind) /\ p[j] = box[j])
      BY <1>1, <1>4, <2>2
    <3>2. j = Len(box) + c /\ l \in DOMAIN w[c].ids /\ p[j] = w[c]
      BY <1>1, <2>2, <3>1
    <3>3. k < l
      BY <1>1, <1>4, <2>2, <3>2
    <3> QED
      BY <1>4, <3>2, <3>3 DEF Fits
  <2> QED
    BY <2>1, <2>2
<1> QED
  BY <1>1, <1>2, <1>3, <1>4

\* A list still fits after another, if it may follow it.
LEMMA FitsAppend ==
  ASSUME NEW B, NEW u, NEW kind, NEW box \in Seq(Letters), NEW w \in Seq(Letters), NEW c,
         Carrier(w, c), NEW ids, Fits(B, u, box, ids, kind),
         (Receipt(w[c]) <=> kind = "told") =>
           \A j \in DOMAIN w[c].ids : \A k \in DOMAIN ids :
             Later(B, u, w[c].ids[j], ids[k], kind)
  PROVE  Fits(B, u, box \o w, ids, kind)
<1> DEFINE p == box \o w
<1>1. \A i, k : In(p, i, k, kind) =>
              \/ In(box, i, k, kind) /\ p[i] = box[i]
              \/ /\ (Receipt(w[c]) <=> kind = "told") /\ k \in DOMAIN w[c].ids /\ p[i] = w[c]
  <2>1. Split(box, w, c, p, kind)
    BY BoxIs
  <2> HIDE DEF p
  <2> QED
    BY <2>1 DEF Split
<1> HIDE DEF p
<1>2. \A i, j : In(p, i, j, kind) => \A k \in DOMAIN ids : Later(B, u, p[i].ids[j], ids[k], kind)
  BY <1>1 DEF Fits
<1> QED
  BY <1>2 DEF Fits, p

\* New messages fit.
LEMMA NewFits ==
  ASSUME NEW B, NEW u, NEW kind, NEW box, NEW ids, Well(B, u, box, kind),
         NEW C, Extends(B, C), NEW n \in Nat, DOMAIN B = 1..n,
         \A k \in DOMAIN ids : ids[k] \in Nat /\ ids[k] > n /\ Good(C, u, ids[k], kind),
         \A k, l \in DOMAIN ids : k < l => ids[k] < ids[l]
  PROVE  Fits(C, u, box, ids, kind)
<1>1. \A i, k : In(box, i, k, kind) => box[i].ids[k] \in 1..n
  BY DEF Well, Good
<1>2. \A x \in 1..n : \A k \in DOMAIN ids : x < ids[k] /\ x # ids[k]
  OBVIOUS
<1>3. \A k, l \in DOMAIN ids : k < l => ids[k] # ids[l]
  OBVIOUS
<1> QED
  BY <1>1, <1>2, <1>3 DEF Fits, Later

\* What is stored next fits after what fits.
LEMMA AppendFits ==
  ASSUME NEW B, NEW C, Extends(B, C), NEW n \in Nat, DOMAIN B = 1..n, NEW u, NEW box, NEW kind,
         Well(B, u, box, kind), NEW ids \in Seq(Nat), \A k \in DOMAIN ids : ids[k] \in DOMAIN B,
         ids # <<>> => Fits(B, u, box, ids, kind), Good(C, u, n + 1, kind)
  PROVE  Fits(C, u, box, Append(ids, n + 1), kind)
<1>1. Fits(C, u, box, ids, kind)
  <2>1. CASE ids # <<>>
    BY <2>1, FitsStays
  <2>2. CASE ids = <<>>
    <3>1. \A k \in DOMAIN ids : FALSE
      BY <2>2
    <3> QED
      BY <3>1 DEF Fits
  <2> QED
    BY <2>1, <2>2
<1> DEFINE q == Append(ids, n + 1)
<1>2. \A k \in DOMAIN q : \/ k \in DOMAIN ids /\ q[k] = ids[k]
                          \/ k = Len(ids) + 1 /\ q[k] = n + 1
  OBVIOUS
<1>3. Len(ids) \in Nat /\ DOMAIN ids = 1..Len(ids)
  OBVIOUS
<1> HIDE DEF q
<1>4. \A i, k : In(box, i, k, kind) => box[i].ids[k] \in 1..n
  BY DEF Well, Good
<1>5. \A x \in 1..n : Later(C, u, x, n + 1, kind)
  BY DEF Later
<1>6. \A k \in DOMAIN q : Good(C, u, q[k], kind)
  BY <1>1, <1>2 DEF Fits
<1>7. ASSUME NEW k \in DOMAIN q, NEW l \in DOMAIN q, k < l
      PROVE  Later(C, u, q[k], q[l], kind)
  <2>1. k \in DOMAIN ids /\ q[k] = ids[k]
    BY <1>2, <1>3, <1>7
  <2>2. CASE l \in DOMAIN ids /\ q[l] = ids[l]
    BY <1>1, <1>7, <2>1, <2>2 DEF Fits
  <2>3. CASE q[l] = n + 1
    BY <1>5, <2>1, <2>3
  <2> QED
    BY <1>2, <2>2, <2>3
<1>8. ASSUME NEW i, NEW j, In(box, i, j, kind), NEW k \in DOMAIN q
      PROVE  Later(C, u, box[i].ids[j], q[k], kind)
  <2>1. CASE k \in DOMAIN ids /\ q[k] = ids[k]
    BY <1>1, <1>8, <2>1 DEF Fits
  <2>2. CASE q[k] = n + 1
    BY <1>4, <1>5, <1>8, <2>2
  <2> QED
    BY <1>2, <2>1, <2>2
<1> QED
  BY <1>6, <1>7, <1>8 DEF Fits, q

\* A database that has grown kept its messages and its chats.
LEMMA GrownExtends ==
  ASSUME NEW d, IsDatabase(d), NEW e, Grown(d, e)
  PROVE  Extends(d.bank, e.bank) /\ d.chat \subseteq e.chat
         /\ \E n \in Nat : DOMAIN d.bank = 1..n /\ Len(d.bank) = n
<1>1. d.bank \in Seq(Messages)
  BY Columns
<1>2. DOMAIN d.bank = 1..Len(d.bank) /\ Len(d.bank) \in Nat
  BY <1>1
<1> QED
  BY <1>2 DEF Extends, Grown
-----------------------------------------------------------------------------
(* The invariant of the mailboxes                                          *)

\* The messages a worker has stored and not sent yet are between its user and the
\* other one, who have a chat; they may come next in the other's box, and, while
\* they are texts that were not confirmed yet, in the user's answers.
Between(B, x, u, v) ==
  /\ x \in DOMAIN B
  /\ \/ B[x].from = u /\ B[x].to = v
     \/ B[x].from = v /\ B[x].to = u

MailOf(u, v, ids) ==
  /\ u \in Users /\ v \in Users /\ u # v
  /\ PrivateChats(db, Smaller(u, v), Larger(u, v)) # {}
  /\ \A k \in DOMAIN ids : Between(db.bank, ids[k], u, v)
  /\ Fits(db.bank, v, inbox[v], ids, "seen")

TextsOf(u, ids) == \A k \in DOMAIN ids : db.bank[ids[k]].from = u

JobMail(s) ==
  job[s].ids # <<>> =>
    /\ MailOf(job[s].user, job[s].peer, job[s].ids)
    /\ job[s].op = "text" => TextsOf(job[s].user, job[s].ids)
    /\ job[s].op = "text" /\ job[s].step # "push" =>
         Fits(db.bank, job[s].user, inbox[job[s].user], job[s].ids, "told")

Kinds == {"seen", "told"}

BoxesWell == \A u \in Users : \A kind \in Kinds : Well(db.bank, u, inbox[u], kind)

MailInv == TypeInv /\ BoxesWell /\ \A s \in Servers : JobMail(s)

\* The unique key of a pair does not depend on who asks.
LEMMA PairSame ==
  ASSUME NEW u \in Users, NEW v \in Users
  PROVE  Smaller(u, v) = Smaller(v, u) /\ Larger(u, v) = Larger(v, u)
BY UsersAssumption DEF Smaller, Larger

\* A chat stays.
LEMMA ChatsStay ==
  ASSUME NEW d, NEW e, d.chat \subseteq e.chat, NEW u, NEW v, PrivateChats(d, u, v) # {}
  PROVE  PrivateChats(e, u, v) # {}
BY DEF PrivateChats

\* Letters without messages change nothing.
LEMMA QuietBoxes ==
  ASSUME Inboxes, Quiet, NEW B, NEW u \in Users, NEW kind
  PROVE  /\ Well(B, u, inbox[u], kind) => Well(B, u, inbox'[u], kind)
         /\ \A ids : Fits(B, u, inbox[u], ids, kind) => Fits(B, u, inbox'[u], ids, kind)
<1>1. CASE inbox'[u] = inbox[u]
  BY <1>1
<1>2. ASSUME NEW v, NEW w, Mails(v, w), Blank(w), inbox'[u] # inbox[u]
      PROVE  /\ Well(B, u, inbox[u], kind) => Well(B, u, inbox'[u], kind)
             /\ \A ids : Fits(B, u, inbox[u], ids, kind) => Fits(B, u, inbox'[u], ids, kind)
  <2>1. inbox'[u] = inbox[u] \o w /\ w \in Seq(Letters) /\ inbox[u] \in Seq(Letters)
    BY <1>2, MailsIs DEF Mails, Inboxes
  <2>2. w # <<>>
    <3>1. inbox[u] \o <<>> = inbox[u]
      BY <2>1
    <3> QED
      BY <1>2, <2>1, <3>1
  <2>3. 1 \in DOMAIN w
    BY <2>1, <2>2
  <2>4. Carrier(w, 1) /\ w[1].ids = <<>>
    BY <1>2, <2>3 DEF Carrier, Blank
  <2>5. \A k \in DOMAIN w[1].ids : FALSE
    BY <2>4
  <2>6. Split(inbox[u], w, 1, inbox'[u], kind)
    BY <2>1, <2>4, BoxIs
  <2>7. \A i, k : In(inbox'[u], i, k, kind) => In(inbox[u], i, k, kind) /\ inbox'[u][i] = inbox[u][i]
    BY <2>5, <2>6 DEF Split
  <2> QED
    BY <2>7 DEF Well, Fits
<1> QED
  BY <1>1, <1>2 DEF Quiet

\* The boxes after a delivery.
LEMMA BoxesAfter ==
  ASSUME MailInv, Grown(db, db'),
         NEW u, NEW w, NEW c, Mails(u, w), Carrier(w, c), NEW kind \in Kinds,
         Receipt(w[c]) <=> kind = "told",
         Fits(db'.bank, u, inbox[u], w[c].ids, kind)
  PROVE  BoxesWell'
<1>1. IsDatabase(db) /\ Inboxes
  BY TypeParts DEF MailInv
<1>2. Extends(db.bank, db'.bank)
  BY <1>1, GrownExtends
<1>3. SUFFICES ASSUME NEW v \in Users, NEW k \in Kinds PROVE Well(db'.bank, v, inbox'[v], k)
  BY DEF BoxesWell
<1>4. Well(db'.bank, v, inbox[v], k)
  BY <1>2, WellStays DEF MailInv, BoxesWell
<1>5. CASE v # u
  BY <1>1, <1>4, <1>5, MailsIs
<1>6. CASE v = u
  <2>1. inbox[u] \in Seq(Letters) /\ w \in Seq(Letters) /\ inbox'[u] = inbox[u] \o w
    BY <1>1, MailsIs DEF Inboxes, Mails
  <2>2. (Receipt(w[c]) <=> k = "told") => k = kind
    BY DEF Kinds
  <2> QED
    BY <1>4, <1>6, <2>1, <2>2, WellAppend
<1> QED
  BY <1>5, <1>6

\* The boxes after a step that sends no messages.
LEMMA BoxesQuiet ==
  ASSUME MailInv, Grown(db, db'), Quiet
  PROVE  BoxesWell'
<1>1. IsDatabase(db) /\ Inboxes
  BY TypeParts DEF MailInv
<1>2. Extends(db.bank, db'.bank)
  BY <1>1, GrownExtends
<1>3. SUFFICES ASSUME NEW v \in Users, NEW k \in Kinds PROVE Well(db'.bank, v, inbox'[v], k)
  BY DEF BoxesWell
<1>4. Well(db'.bank, v, inbox[v], k)
  BY <1>2, WellStays DEF MailInv, BoxesWell
<1> QED
  BY <1>1, <1>4, QuietBoxes

\* The request a worker was at is where it was, or about to push.
SameMail(r) ==
  /\ job'[r].ids = job[r].ids /\ job'[r].user = job[r].user /\ job'[r].peer = job[r].peer
  /\ job'[r].op = job[r].op
  /\ job'[r].step = "push" \/ job'[r].step = job[r].step

\* What was stored by a worker is still good after a step.
LEMMA MailStays ==
  ASSUME MailInv, Grown(db, db'), NEW r \in Servers, job[r].ids # <<>>
  PROVE  LET u == job[r].user
             v == job[r].peer
             ids == job[r].ids IN
         /\ u \in Users /\ v \in Users /\ u # v
         /\ PrivateChats(db', Smaller(u, v), Larger(u, v)) # {}
         /\ \A k \in DOMAIN ids : Between(db.bank, ids[k], u, v) /\ Between(db'.bank, ids[k], u, v)
         /\ Fits(db'.bank, v, inbox[v], ids, "seen")
         /\ job[r].op = "text" =>
              \A k \in DOMAIN ids : db.bank[ids[k]].from = u /\ db'.bank[ids[k]].from = u
         /\ job[r].op = "text" /\ job[r].step # "push" =>
              Fits(db'.bank, u, inbox[u], ids, "told")
<1> DEFINE u == job[r].user
           v == job[r].peer
           ids == job[r].ids
<1>1. IsDatabase(db)
  BY TypeParts DEF MailInv
<1>2. Extends(db.bank, db'.bank) /\ db.chat \subseteq db'.chat
  BY <1>1, GrownExtends
<1>3. JobMail(r)
  BY DEF MailInv
<1>4. MailOf(u, v, ids)
  BY <1>3 DEF JobMail
<1>5. u \in Users /\ v \in Users /\ u # v
  BY <1>4 DEF MailOf
<1>6. PrivateChats(db', Smaller(u, v), Larger(u, v)) # {}
  BY <1>2, <1>4, ChatsStay DEF MailOf
<1>7. \A k \in DOMAIN ids : Between(db.bank, ids[k], u, v) /\ Between(db'.bank, ids[k], u, v)
  BY <1>2, <1>4 DEF MailOf, Between, Extends
<1>8. Fits(db'.bank, v, inbox[v], ids, "seen")
  BY <1>2, <1>4, <1>5, FitsStays DEF MailOf, MailInv, BoxesWell, Kinds
<1>9. job[r].op = "text" =>
        \A k \in DOMAIN ids : db.bank[ids[k]].from = u /\ db'.bank[ids[k]].from = u
  BY <1>2, <1>3, <1>7 DEF JobMail, TextsOf, Extends, Between
<1>10. job[r].op = "text" /\ job[r].step # "push" => Fits(db'.bank, u, inbox[u], ids, "told")
  BY <1>2, <1>3, <1>5, FitsStays DEF JobMail, MailInv, BoxesWell, Kinds
<1> QED
  BY <1>5, <1>6, <1>7, <1>8, <1>9, <1>10

\* A request that was left alone, after a delivery to u.
LEMMA MailAfter ==
  ASSUME MailInv, Grown(db, db'),
         NEW u, NEW w, NEW c, Mails(u, w), Carrier(w, c), NEW kind \in Kinds,
         Receipt(w[c]) <=> kind = "told",
         NEW r \in Servers, SameMail(r),
         kind = "seen" /\ job[r].peer = u => \A j \in DOMAIN w[c].ids : \A k \in DOMAIN job[r].ids :
           Later(db'.bank, u, w[c].ids[j], job[r].ids[k], "seen"),
         kind = "told" /\ job[r].user = u => job'[r].step = "push"
  PROVE  JobMail(r)'
<1> DEFINE x == job[r].user
           v == job[r].peer
           ids == job[r].ids
<1>1. SUFFICES ASSUME ids # <<>> PROVE JobMail(r)'
  BY DEF JobMail, SameMail
<1>2. /\ x \in Users /\ v \in Users /\ x # v
      /\ PrivateChats(db', Smaller(x, v), Larger(x, v)) # {}
      /\ \A k \in DOMAIN ids : Between(db'.bank, ids[k], x, v)
      /\ Fits(db'.bank, v, inbox[v], ids, "seen")
      /\ job[r].op = "text" => \A k \in DOMAIN ids : db'.bank[ids[k]].from = x
      /\ job[r].op = "text" /\ job[r].step # "push" =>
              Fits(db'.bank, x, inbox[x], ids, "told")
  BY <1>1, MailStays
<1>3. Inboxes
  BY TypeParts DEF MailInv
<1>4. /\ w \in Seq(Letters) /\ u \in Users /\ inbox[u] \in Seq(Letters)
      /\ inbox'[u] = inbox[u] \o w /\ \A y \in Users : y # u => inbox'[y] = inbox[y]
  BY <1>3, MailsIs DEF Mails, Inboxes
<1>5. Fits(db'.bank, v, inbox'[v], ids, "seen")
  <2>1. CASE v # u
    BY <1>2, <1>4, <2>1
  <2>2. CASE v = u
    <3>1. (Receipt(w[c]) <=> "seen" = "told") =>
             \A j \in DOMAIN w[c].ids : \A k \in DOMAIN ids :
               Later(db'.bank, u, w[c].ids[j], ids[k], "seen")
      BY <2>2 DEF Kinds
    <3> QED
      BY <1>2, <1>4, <2>2, <3>1, FitsAppend
  <2> QED
    BY <2>1, <2>2
<1>6. job[r].op = "text" /\ job'[r].step # "push" => Fits(db'.bank, x, inbox'[x], ids, "told")
  <2>1. SUFFICES ASSUME job[r].op = "text", job'[r].step # "push"
                 PROVE  Fits(db'.bank, x, inbox'[x], ids, "told")
    OBVIOUS
  <2>2. Fits(db'.bank, x, inbox[x], ids, "told")
    BY <1>2, <2>1 DEF SameMail
  <2>3. CASE x # u
    BY <1>2, <1>4, <2>2, <2>3
  <2>4. CASE x = u
    <3>1. ~(Receipt(w[c]) <=> "told" = "told")
      BY <2>1, <2>4
    <3> QED
      BY <1>4, <2>2, <2>4, <3>1, FitsAppend
  <2> QED
    BY <2>3, <2>4
<1> QED
  BY <1>2, <1>5, <1>6 DEF SameMail, JobMail, MailOf, TextsOf

\* A request that was left alone, after a step that sends no messages.
LEMMA MailQuiet ==
  ASSUME MailInv, Grown(db, db'), Quiet, NEW r \in Servers, SameMail(r)
  PROVE  JobMail(r)'
<1> DEFINE x == job[r].user
           v == job[r].peer
           ids == job[r].ids
<1>1. SUFFICES ASSUME ids # <<>> PROVE JobMail(r)'
  BY DEF JobMail, SameMail
<1>2. /\ x \in Users /\ v \in Users /\ x # v
      /\ PrivateChats(db', Smaller(x, v), Larger(x, v)) # {}
      /\ \A k \in DOMAIN ids : Between(db'.bank, ids[k], x, v)
      /\ Fits(db'.bank, v, inbox[v], ids, "seen")
      /\ job[r].op = "text" => \A k \in DOMAIN ids : db'.bank[ids[k]].from = x
      /\ job[r].op = "text" /\ job[r].step # "push" =>
              Fits(db'.bank, x, inbox[x], ids, "told")
  BY <1>1, MailStays
<1>3. Inboxes
  BY TypeParts DEF MailInv
<1>4. Fits(db'.bank, v, inbox'[v], ids, "seen")
  BY <1>2, <1>3, QuietBoxes
<1>5. job[r].op = "text" /\ job'[r].step # "push" => Fits(db'.bank, x, inbox'[x], ids, "told")
  BY <1>2, <1>3, QuietBoxes DEF SameMail
<1> QED
  BY <1>2, <1>4, <1>5 DEF SameMail, JobMail, MailOf, TextsOf

-----------------------------------------------------------------------------
(* What is stored grows                                                    *)

Sends == inbox' = inbox \/ \E u, w : Mails(u, w)

\* A worker that ends, waits, goes on to its push, or has stored no messages.
Settles(s) ==
  \/ job' = job \/ Done(s) \/ GotoPush(s)
  \/ job[s].op \notin {"text", "confirm"} /\ \E step : Goto(s, step)

\* Such a worker leaves no messages in a request but those it had there.
LEMMA SettlesIs ==
  ASSUME TypeInv, NEW s \in Servers, Settles(s)
  PROVE  \A r \in Servers : job'[r].ids = <<>> \/ SameMail(r)
<1>1. job \in [Servers -> Jobs] /\ JobOK(s) /\ job[s] \in Jobs
  BY TypeParts
<1>2. CASE job' = job
  BY <1>2 DEF SameMail
<1>3. CASE Done(s)
  <2>1. job'[s].ids = <<>> /\ \A r \in Servers : r # s => job'[r] = job[r]
    BY <1>1, <1>3, IdleIs DEF Done
  <2> QED
    BY <2>1 DEF SameMail
<1>4. CASE GotoPush(s)
  <2> DEFINE j == [job[s] EXCEPT !.step = "push", !.via = Via(s)]
  <2>1. /\ job'[s] = j /\ \A r \in Servers : r # s => job'[r] = job[r]
    BY <1>1, <1>4 DEF GotoPush
  <2>2. /\ j.ids = job[s].ids /\ j.user = job[s].user /\ j.peer = job[s].peer
        /\ j.op = job[s].op /\ j.step = "push"
    <3> HIDE DEF Via
    <3> QED
      BY <1>1 DEF Jobs
  <2> HIDE DEF j
  <2> QED
    BY <2>1, <2>2 DEF SameMail
<1>5. ASSUME job[s].op \notin {"text", "confirm"}, NEW step, Goto(s, step)
      PROVE  \A r \in Servers : job'[r].ids = <<>> \/ SameMail(r)
  <2>1. job[s].ids = <<>>
    BY <1>1, <1>5 DEF JobOK
  <2> DEFINE j == [job[s] EXCEPT !.step = step]
  <2>2. /\ job'[s] = j /\ \A r \in Servers : r # s => job'[r] = job[r]
    BY <1>1, <1>5 DEF Goto
  <2>3. j.ids = job[s].ids
    BY <1>1 DEF Jobs
  <2> HIDE DEF j
  <2> QED
    BY <2>1, <2>2, <2>3 DEF SameMail
<1> QED
  BY <1>2, <1>3, <1>4, <1>5 DEF Settles

\* A step that sends no messages and stores none for the other user.
LEMMA QuietMail ==
  ASSUME MailInv, TypeInv', Grown(db, db'), Quiet,
         \A r \in Servers : job'[r].ids = <<>> \/ SameMail(r)
  PROVE  MailInv'
<1>1. BoxesWell'
  BY BoxesQuiet
<1>2. ASSUME NEW r \in Servers PROVE JobMail(r)'
  <2>1. CASE job'[r].ids = <<>>
    BY <2>1 DEF JobMail
  <2>2. CASE SameMail(r)
    BY <2>2, MailQuiet
  <2> QED
    BY <2>1, <2>2
<1> QED
  BY <1>1, <1>2 DEF MailInv

\* A quiet step of such a worker keeps the invariant.
LEMMA SettleMail ==
  ASSUME MailInv, TypeInv', Grown(db, db'), Quiet, NEW s \in Servers, Settles(s)
  PROVE  MailInv'
BY SettlesIs, QuietMail DEF MailInv

\* The steps that read the database only.
LEMMA ReadOnly ==
  ASSUME TypeInv, NEW s \in Servers,
         \/ HandlingUserSearch(s) \/ HandlingUserChatThreads(s) \/ HandlingUserChatMessage(s)
         \/ CheckPrivateChatExistance(s) \/ RouteRequest(s) \/ RouteConfirm(s)
         \/ PushRequest(s) \/ SendFriendRequest(s) \/ RequestCallFails(s) \/ Report(s)
         \/ UpdateRedisCache(s) \/ CreateUserSession(s) \/ KickUnknown(s) \/ LoginResponse(s)
         \/ HandlingLogout(s)
  PROVE  TypeInv' /\ Quiet /\ db' = db /\ Settles(s)
<1>1. CASE HandlingUserSearch(s)
  BY <1>1, SearchTypes DEF HandlingUserSearch, Settles
<1>2. CASE HandlingUserChatThreads(s)
  BY <1>2, ThreadsTypes DEF HandlingUserChatThreads, Settles
<1>3. CASE HandlingUserChatMessage(s)
  BY <1>3, RecordsTypes DEF HandlingUserChatMessage, Settles
<1>4. CASE CheckPrivateChatExistance(s)
  <2>1. job[s].op = "chat" /\ db' = db /\ (Done(s) \/ Goto(s, "insert"))
    BY <1>4 DEF CheckPrivateChatExistance, Now
  <2> QED
    BY <1>4, <2>1, LookTypes DEF Settles
<1>5. CASE RouteRequest(s)
  BY <1>5, RouteRequestTypes DEF RouteRequest, Settles
<1>6. CASE RouteConfirm(s)
  BY <1>6, RouteConfirmTypes DEF RouteConfirm, Settles
<1>7. CASE PushRequest(s) \/ SendFriendRequest(s) \/ RequestCallFails(s)
  <2>1. job[s].op = "create" /\ db' = db /\ (Goto(s, "success") \/ Goto(s, "failure"))
    BY <1>7 DEF PushRequest, SendFriendRequest, RequestCallFails, PushHere, PushThere, Now
  <2> QED
    BY <1>7, <2>1, PushRequestTypes DEF Settles
<1>8. CASE Report(s)
  BY <1>8, ReportTypes DEF Report, Settles
<1>9. CASE UpdateRedisCache(s)
  <2>1. job[s].op = "login" /\ db' = db /\ (Goto(s, "register") \/ Done(s))
    BY <1>9 DEF UpdateRedisCache, Now
  <2> QED
    BY <1>9, <2>1, UpdateRedisCacheTypes DEF Settles
<1>10. CASE CreateUserSession(s)
  <2>1. job[s].op = "login" /\ db' = db /\ Goto(s, "lists")
    BY <1>10 DEF CreateUserSession, Now
  <2> QED
    BY <1>10, <2>1, CreateUserSessionTypes DEF Settles
<1>11. CASE KickUnknown(s)
  BY <1>11, KickUnknownTypes DEF KickUnknown, Settles
<1>12. CASE LoginResponse(s)
  BY <1>12, LoginResponseTypes DEF LoginResponse, Settles
<1>13. CASE HandlingLogout(s)
  BY <1>13, LogoutTypes DEF HandlingLogout, Settles
<1> QED
  BY <1>1, <1>2, <1>3, <1>4, <1>5, <1>6, <1>7, <1>8, <1>9, <1>10, <1>11, <1>12, <1>13

\* The ones that write a chat or a request.
LEMMA WritesQuietly ==
  ASSUME TypeInv, NEW s \in Servers, CreateNewPrivateChat(s) \/ HandlingFriendRequestCreator(s)
  PROVE  TypeInv' /\ Quiet /\ Grown(db, db') /\ Settles(s)
<1>1. CASE CreateNewPrivateChat(s)
  <2>1. /\ job[s].op = "chat" /\ Done(s)
        /\ db' = CreatePrivateChat(db, job[s].user, job[s].peer).db
    BY <1>1 DEF CreateNewPrivateChat, Now
  <2>2. job[s].user \in Users /\ job[s].peer \in Users /\ IsDatabase(db)
    BY <2>1, TypeParts DEF JobOK
  <2>3. Grown(db, db')
    BY <2>1, <2>2, CreatePrivateChatTypes
  <2> QED
    BY <1>1, <2>1, <2>3, CreateChatTypes DEF Settles
<1>2. CASE HandlingFriendRequestCreator(s)
  <2>1. /\ job[s].op = "create"
        /\ Done(s) \/ Goto(s, "route")
        /\ db' = db \/ db' = CreateFriendRequest(db, job[s].user, job[s].peer).db
    BY <1>2 DEF HandlingFriendRequestCreator, Now
  <2>2. Grown(db, db')
    BY <2>1, TypeParts, CreateFriendRequestTypes, GrownSame
  <2> QED
    BY <1>2, <2>1, <2>2, CreateTypes DEF Settles
<1> QED
  BY <1>1, <1>2

\* A client asks.
LEMMA AskMail ==
  ASSUME MailInv, NEW s \in Servers, NEW u \in Users, Ask(s, u)
  PROVE  MailInv' /\ Grown(db, db') /\ Quiet
<1>1. TypeInv /\ TypeInv'
  BY AskTypes DEF MailInv
<1>2. /\ db' = db /\ inbox' = inbox
      /\ \E j : j.ids = <<>> /\ job' = [job EXCEPT ![s] = j]
  <2>1. CASE AskLogin(s, u)
    <3>1. [Idle EXCEPT !.op = "login", !.step = "label", !.user = u, !.seen = Len(inbox[u])].ids = <<>>
      BY DEF Idle
    <3> QED
      BY <2>1, <3>1 DEF AskLogin
  <2>2. ASSUME NEW op, NEW step, NEW v, NEW t, NEW n, Accept(s, u, op, step, v, t, n)
        PROVE  /\ db' = db /\ inbox' = inbox
               /\ \E j : j.ids = <<>> /\ job' = [job EXCEPT ![s] = j]
    <3> DEFINE j == [Idle EXCEPT !.op = op, !.step = step, !.user = u, !.peer = v,
                                 !.thread = t, !.left = n, !.seen = Len(inbox[u])]
    <3>1. j.ids = <<>>
      BY DEF Idle
    <3>2. db' = db /\ inbox' = inbox /\ job' = [job EXCEPT ![s] = j]
      BY <2>2 DEF Accept
    <3> HIDE DEF j
    <3> QED
      BY <3>1, <3>2
  <2>3. CASE ~AskLogin(s, u)
    <3>1. \E op, step, v, t, n : Accept(s, u, op, step, v, t, n)
      BY <2>3 DEF Ask, AskSearch, AskThreads, AskRecords, AskChat, AskFriend, AskConfirm, AskText, AskLogout
    <3> QED
      BY <2>2, <3>1
  <2> QED
    BY <2>1, <2>3
<1>3. \A r \in Servers : job'[r].ids = <<>> \/ SameMail(r)
  <2>1. job \in [Servers -> Jobs]
    BY <1>1, TypeParts
  <2> QED
    BY <1>2, <2>1 DEF SameMail
<1>4. Grown(db, db') /\ Quiet
  BY <1>1, <1>2, TypeParts, GrownSame DEF Quiet
<1> QED
  BY <1>1, <1>3, <1>4, QuietMail

-----------------------------------------------------------------------------
(* The steps that send messages or store texts                             *)

\* A letter with messages in it.
LEMMA OneLetter ==
  ASSUME NEW m \in Letters
  PROVE  Carrier(<<m>>, 1) /\ <<m>>[1] = m
<1>1. DOMAIN <<m>> = {1} /\ <<m>>[1] = m
  OBVIOUS
<1> QED
  BY <1>1 DEF Carrier

\* An empty list fits.
LEMMA NoneFit ==
  ASSUME NEW B, NEW u, NEW box, NEW kind
  PROVE  Fits(B, u, box, <<>>, kind)
<1>1. \A k \in DOMAIN <<>> : FALSE
  OBVIOUS
<1> QED
  BY <1>1 DEF Fits

\* Two workers are at the requests of two users.
LEMMA TwoWorkers ==
  ASSUME TypeInv, NEW s \in Servers, job[s].op # "idle",
         NEW r \in Servers, r # s, job[r].ids # <<>>
  PROVE  job[r].user # job[s].user
<1>1. job[s].user \in Users /\ at[job[s].user] = s /\ JobOK(r)
  BY TypeParts, WorkerIs
<1>2. job[r].op # "idle"
  BY <1>1, IdleIs DEF JobOK
<1> QED
  BY <1>1, <1>2 DEF JobOK

\* A text is stored.
LEMMA StoreTextMail ==
  ASSUME MailInv, NEW s \in Servers, StoreText(s)
  PROVE  MailInv' /\ Grown(db, db') /\ Quiet
<1> DEFINE u == job[s].user
           v == job[s].peer
           r == StoreMessage(db, job[s].thread, u, v)
<1>1. TypeInv /\ TypeInv' /\ Quiet
  BY StoreTextTypes DEF MailInv
<1>2. job[s].op = "text" /\ job[s].step = "store" /\ job[s].op # "idle"
  BY DEF StoreText, Now
<1>3. /\ job \in [Servers -> Jobs] /\ job[s] \in Jobs /\ job[s].thread \in Nat
      /\ job[s].ids \in Seq(Nat) /\ IsDatabase(db)
      /\ \A k \in DOMAIN job[s].ids : job[s].ids[k] \in DOMAIN db.bank
  BY <1>1, <1>2, TypeParts, WorkerIs, IdsAre
<1>4. CASE Done(s) /\ db' = db
  <2>1. Grown(db, db')
    BY <1>3, <1>4, GrownSame
  <2> QED
    BY <1>1, <1>4, <2>1, SettleMail DEF Settles
<1>5. CASE r.found /\ db' = r.db /\ inbox' = inbox
           /\ job' = [job EXCEPT ![s].left = @ - 1,
                                 ![s].ids = Append(@, Len(r.db.bank)),
                                 ![s].step = IF job[s].left = 1 THEN "route" ELSE "store"]
  <2>1. /\ Grown(db, db') /\ u \in Users /\ v \in Users /\ u # v
        /\ PrivateChats(db, Smaller(u, v), Larger(u, v)) # {}
        /\ \E m : m.from = u /\ m.to = v /\ db'.bank = Append(db.bank, m)
        /\ db'.chat = db.chat
    <3>1. PICK x, t : t \in Nat /\ x = StoreMessage(db, t, u, v) /\ t = job[s].thread
      BY <1>3
    <3> HIDE DEF u, v
    <3>2. /\ Grown(db, x.db)
          /\ x.found =>
              /\ u \in Users /\ v \in Users /\ u # v
              /\ PrivateChats(db, Smaller(u, v), Larger(u, v)) # {}
              /\ x.db.bank = Append(db.bank, [thread |-> t, from |-> u, to |-> v])
              /\ x.db.chat = db.chat
      BY <1>3, <3>1, StoreMessageTypes
    <3>3. x.found /\ db' = x.db
      BY <1>5, <3>1
    <3>4. PICK m : m = [thread |-> t, from |-> u, to |-> v]
      OBVIOUS
    <3>5. m.from = u /\ m.to = v /\ db'.bank = Append(db.bank, m)
      BY <3>2, <3>3, <3>4
    <3> QED
      BY <3>2, <3>3, <3>5
  <2>2. PICK m : m.from = u /\ m.to = v /\ db'.bank = Append(db.bank, m)
    BY <2>1
  <2>3. PICK n \in Nat : DOMAIN db.bank = 1..n /\ Len(db.bank) = n
    BY <1>3, <2>1, GrownExtends
  <2>4. DOMAIN db'.bank = 1..(n + 1) /\ Len(db'.bank) = n + 1 /\ db'.bank[n + 1] = m
    <3>1. db.bank \in Seq(Messages)
      BY <1>3, Columns
    <3>2. PICK B \in Seq(Messages) : B = db.bank
      BY <3>1
    <3>3. PICK C : C = Append(B, m)
      OBVIOUS
    <3>4. Len(B) = n /\ DOMAIN C = 1..(n + 1) /\ Len(C) = n + 1 /\ C[n + 1] = m
      BY <2>3, <3>2, <3>3
    <3> QED
      BY <2>2, <3>2, <3>3, <3>4
  <2>5. Extends(db.bank, db'.bank)
    BY <1>3, <2>1, GrownExtends
  <2>6. /\ job'[s].ids = Append(job[s].ids, n + 1) /\ job'[s].user = u /\ job'[s].peer = v
        /\ job'[s].op = "text" /\ job'[s].step \in {"route", "store"}
        /\ \A x \in Servers : x # s => job'[x] = job[x]
    <3>1. Len(r.db.bank) = n + 1
      BY <1>5, <2>4
    <3> HIDE DEF r
    <3> QED
      BY <1>2, <1>3, <1>5, <3>1 DEF Jobs
  <2>7. BoxesWell'
    BY <1>1, <2>1, BoxesQuiet
  <2>8. ASSUME NEW x \in Servers, x # s PROVE JobMail(x)'
    BY <1>1, <2>1, <2>6, <2>8, MailQuiet DEF SameMail
  <2>9. JobMail(s)'
    <3> DEFINE ids == job[s].ids
               new == Append(ids, n + 1)
    <3>1. /\ ids # <<>> => MailOf(u, v, ids) /\ TextsOf(u, ids)
                           /\ Fits(db.bank, u, inbox[u], ids, "told")
      BY <1>2 DEF MailInv, JobMail
    <3>2. ids # <<>> => Fits(db.bank, v, inbox[v], ids, "seen")
      BY <3>1 DEF MailOf
    <3>3. /\ Well(db.bank, v, inbox[v], "seen") /\ Well(db.bank, u, inbox[u], "told")
      BY <2>1 DEF MailInv, BoxesWell, Kinds
    <3>4. Good(db'.bank, v, n + 1, "seen") /\ Good(db'.bank, u, n + 1, "told")
      BY <2>2, <2>4 DEF Good
    <3>5. Fits(db'.bank, v, inbox[v], new, "seen") /\ Fits(db'.bank, u, inbox[u], new, "told")
      <4> HIDE DEF u, v
      <4> QED
        BY <1>3, <2>3, <2>5, <3>1, <3>2, <3>3, <3>4, AppendFits
    <3>6. \A k \in DOMAIN new : \/ k \in DOMAIN ids /\ new[k] = ids[k]
                                \/ new[k] = n + 1
      BY <1>3
    <3>7. \A k \in DOMAIN ids : Between(db'.bank, ids[k], u, v) /\ db'.bank[ids[k]].from = u
      <4>1. ASSUME NEW k \in DOMAIN ids
            PROVE  Between(db'.bank, ids[k], u, v) /\ db'.bank[ids[k]].from = u
        <5>1. ids # <<>>
          BY <4>1
        <5> QED
          BY <2>5, <3>1, <4>1, <5>1 DEF MailOf, TextsOf, Between, Extends
      <4> QED
        BY <4>1
    <3>8. Between(db'.bank, n + 1, u, v) /\ db'.bank[n + 1].from = u
      <4>1. n + 1 \in DOMAIN db'.bank
        BY <2>3, <2>4
      <4> QED
        BY <2>2, <2>4, <4>1 DEF Between
    <3>9. \A k \in DOMAIN new : Between(db'.bank, new[k], u, v) /\ db'.bank[new[k]].from = u
      <4> HIDE DEF u, v, new, ids
      <4> QED
        BY <3>6, <3>7, <3>8
    <3>10. PrivateChats(db', Smaller(u, v), Larger(u, v)) # {}
      BY <2>1 DEF PrivateChats
    <3>11. job'[s].ids = new /\ inbox' = inbox
      BY <1>5, <2>6
    <3>12. PICK a, b, q : a = u /\ b = v /\ q = new
      OBVIOUS
    <3>13. /\ job'[s].user = a /\ job'[s].peer = b /\ job'[s].ids = q /\ job'[s].op = "text"
      BY <2>6, <3>11, <3>12
    <3>14. MailOf(a, b, q)'
      <4> HIDE DEF u, v, new
      <4> QED
        BY <2>1, <3>5, <3>9, <3>10, <3>11, <3>12 DEF MailOf
    <3>15. TextsOf(a, q)' /\ Fits(db'.bank, a, inbox'[a], q, "told")
      <4> HIDE DEF u, v, new
      <4> QED
        BY <3>5, <3>9, <3>11, <3>12 DEF TextsOf
    <3> QED
      BY <3>13, <3>14, <3>15 DEF JobMail
  <2> QED
    BY <1>1, <2>1, <2>7, <2>8, <2>9 DEF MailInv
<1> QED
  BY <1>4, <1>5 DEF StoreText

\* Texts are confirmed to their sender.
LEMMA RouteTextMail ==
  ASSUME MailInv, NEW s \in Servers, RouteText(s)
  PROVE  MailInv' /\ Grown(db, db') /\ Sends
<1> DEFINE u == job[s].user
           ids == job[s].ids
           w == <<ReceiptOf(s)>>
<1>1. TypeInv /\ TypeInv' /\ IsDatabase(db)
  BY RouteTextTypes, TypeParts DEF MailInv
<1>2. job[s].op = "text" /\ job[s].step = "route" /\ job[s].op # "idle" /\ db' = db
  BY DEF RouteText, Now
<1>3. Grown(db, db')
  BY <1>1, <1>2, GrownSame
<1>4. CASE Quiet /\ Done(s)
  BY <1>1, <1>3, <1>4, SettleMail DEF Settles, Sends, Quiet
<1>5. CASE Mails(u, w) /\ GotoPush(s)
  <2>1. /\ Carrier(w, 1) /\ w[1] = ReceiptOf(s) /\ Receipt(w[1]) /\ w[1].ids = ids
    BY <1>1, <1>2, ReceiptIs, OneLetter DEF Receipt
  <2>2. Fits(db'.bank, u, inbox[u], ids, "told")
    BY <1>2, NoneFit DEF MailInv, JobMail
  <2> HIDE DEF w
  <2>3. BoxesWell'
    <3>1. "told" \in Kinds /\ (Receipt(w[1]) <=> "told" = "told")
      BY <2>1 DEF Kinds
    <3> QED
      BY <1>3, <1>5, <2>1, <2>2, <3>1, BoxesAfter
  <2>4. ASSUME NEW r \in Servers PROVE JobMail(r)'
    <3>1. job'[r].ids = <<>> \/ SameMail(r)
      BY <1>1, <1>5, SettlesIs DEF Settles
    <3>2. CASE job'[r].ids = <<>>
      BY <3>2 DEF JobMail
    <3>3. CASE SameMail(r) /\ job[r].ids # <<>>
      <4>1. job[r].user = u => job'[r].step = "push"
        <5>1. CASE r = s
          <6>1. job[s] \in Jobs /\ job \in [Servers -> Jobs]
            BY <1>1, TypeParts
          <6>2. job'[s].step = "push"
            BY <1>5, <6>1 DEF GotoPush, Jobs
          <6> QED
            BY <5>1, <6>2
        <5>2. CASE r # s
          BY <1>1, <1>2, <3>3, <5>2, TwoWorkers
        <5> QED
          BY <5>1, <5>2
      <4>2. "told" \in Kinds /\ (Receipt(w[1]) <=> "told" = "told") /\ "told" # "seen"
        BY <2>1 DEF Kinds
      <4> QED
        BY <1>3, <1>5, <2>1, <3>3, <4>1, <4>2, MailAfter
    <3> QED
      BY <3>1, <3>2, <3>3 DEF SameMail
  <2> QED
    BY <1>1, <1>3, <1>5, <2>3, <2>4 DEF MailInv, Sends
<1> QED
  BY <1>1, <1>3, <1>4, <1>5, RouteTextTypes DEF Sends, Quiet

\* What two users have with a third are different messages of different senders.
LEMMA TwoSenders ==
  ASSUME NEW B, NEW x, NEW y, NEW u, NEW v, NEW z, u # v, z # v, u # z,
         Between(B, x, u, v), Between(B, y, z, v)
  PROVE  Later(B, v, x, y, "seen")
BY DEF Between, Later

\* The other user is sent the messages.
LEMMA PushingMail ==
  ASSUME MailInv, NEW s \in Servers, TypeInv',
         NEW op \in {"text", "confirm"},
         NEW type \in {"TEXTCHATMSGICOMINGREQUEST", "FRIENDING_ON_BIDDIRECTIONAL"},
         Pushing(s, op, type)
  PROVE  MailInv' /\ Grown(db, db') /\ Sends
<1> DEFINE u == job[s].user
           v == job[s].peer
           ids == job[s].ids
           w == <<PushOf(s, type)>>
<1>1. TypeInv /\ IsDatabase(db) /\ JobOK(s)
  BY TypeParts DEF MailInv
<1>2. job[s].op = op /\ job[s].op # "idle" /\ job[s].step = "push" /\ db' = db /\ Done(s)
  BY DEF Pushing
<1>3. Grown(db, db')
  BY <1>1, <1>2, GrownSame
<1>4. type \in Pushes
  BY DEF Pushes
<1>5. inbox' = inbox \/ Mails(v, w)
  BY <1>1, <1>2, <1>4, PushedCarries DEF Pushing
<1>6. CASE inbox' = inbox
  BY <1>2, <1>3, <1>6, SettleMail DEF Settles, Quiet, Sends
<1>7. CASE Mails(v, w)
  <2>1. Carrier(w, 1) /\ ~Receipt(w[1]) /\ w[1].ids = ids /\ v \in Users
    BY <1>1, <1>2, <1>4, PushIs, OneLetter DEF Receipt
  <2>2. Fits(db'.bank, v, inbox[v], ids, "seen")
    BY <1>2, NoneFit DEF MailInv, JobMail, MailOf
  <2>3. "seen" \in Kinds /\ (Receipt(w[1]) <=> "seen" = "told")
    BY <2>1 DEF Kinds
  <2> HIDE DEF w
  <2>4. BoxesWell'
    BY <1>3, <1>7, <2>1, <2>2, <2>3, BoxesAfter
  <2>5. ASSUME NEW r \in Servers PROVE JobMail(r)'
    <3>1. job'[r].ids = <<>> \/ SameMail(r)
      BY <1>1, <1>2, SettlesIs DEF Settles
    <3>2. CASE job'[r].ids = <<>>
      BY <3>2 DEF JobMail
    <3>3. CASE SameMail(r) /\ job[r].ids # <<>> /\ job'[r].ids # <<>>
      <4>1. r # s
        BY <1>1, <1>2, <3>3, TypeParts, IdleIs DEF Done
      <4>2. ASSUME job[r].peer = v, NEW j \in DOMAIN w[1].ids, NEW k \in DOMAIN job[r].ids
            PROVE  Later(db'.bank, v, w[1].ids[j], job[r].ids[k], "seen")
        <5>1. ids # <<>>
          BY <2>1, <4>2
        <5>2. Between(db.bank, ids[j], u, v) /\ u # v
          BY <2>1, <4>2, <5>1 DEF MailInv, JobMail, MailOf
        <5>3. Between(db.bank, job[r].ids[k], job[r].user, v) /\ job[r].user # v
          BY <3>3, <4>2 DEF MailInv, JobMail, MailOf
        <5>4. job[r].user # u
          BY <1>1, <1>2, <3>3, <4>1, TwoWorkers
        <5> HIDE DEF u, v, ids
        <5>5. Later(db.bank, v, ids[j], job[r].ids[k], "seen")
          BY <5>2, <5>3, <5>4, TwoSenders
        <5> QED
          BY <1>2, <2>1, <5>5
      <4>3. "seen" # "told"
        OBVIOUS
      <4> QED
        BY <1>3, <1>7, <2>1, <2>3, <3>3, <4>2, <4>3, MailAfter
    <3> QED
      BY <3>1, <3>2, <3>3 DEF SameMail
  <2> QED
    BY <1>3, <1>7, <2>4, <2>5 DEF MailInv, Sends
<1> QED
  BY <1>3, <1>5, <1>6, <1>7 DEF Sends

\* The greetings of two new friends are stored, and the confirmer is sent them.
LEMMA ConfirmMail ==
  ASSUME MailInv, NEW s \in Servers, HandlingFriendRequestConfirm(s)
  PROVE  MailInv' /\ Grown(db, db') /\ Sends
<1>1. TypeInv /\ TypeInv' /\ Grown(db, db') /\ IsDatabase(db)
  BY ConfirmTypes, TypeParts DEF MailInv
<1>2. CASE Quiet /\ Done(s)
  BY <1>1, <1>2, SettleMail DEF Settles, Sends, Quiet
<1>3. CASE ConfirmSent(s)
  <2>1. PICK u, v : u = job[s].user /\ v = job[s].peer
    OBVIOUS
  <2>2. PICK a \in Letters, b \in Letters, n \in Nat, ids \in Seq(Nat), m1 \in Messages, m2 \in Messages :
       /\ Mails(u, <<a, b>>) /\ a.ids = <<>> /\ b.ids = ids /\ ~Receipt(b)
       /\ n = Len(db'.bank) /\ DOMAIN ids = {1, 2} /\ ids[1] = n - 1 /\ ids[2] = n
       /\ db'.bank = Append(Append(db.bank, m1), m2)
       /\ m1.from = v /\ m1.to = u /\ m2.from = u /\ m2.to = v
       /\ job'[s].ids = ids /\ job'[s].op = "confirm"
       /\ job'[s].user = u /\ job'[s].peer = v
       /\ \A r \in Servers : r # s => job'[r] = job[r]
    <3> DEFINE x == job[s].user
               y == job[s].peer
    <3>1. \E a, b \in Letters, n \in Nat, ids \in Seq(Nat), m1, m2 \in Messages :
       /\ Mails(x, <<a, b>>) /\ a.ids = <<>> /\ b.ids = ids /\ ~Receipt(b)
       /\ n = Len(db'.bank) /\ DOMAIN ids = {1, 2} /\ ids[1] = n - 1 /\ ids[2] = n
       /\ db'.bank = Append(Append(db.bank, m1), m2)
       /\ m1.from = y /\ m1.to = x /\ m2.from = x /\ m2.to = y
       /\ job'[s].ids = ids /\ job'[s].op = "confirm"
       /\ job'[s].user = x /\ job'[s].peer = y
       /\ \A r \in Servers : r # s => job'[r] = job[r]
      BY <1>3, Zenon DEF ConfirmSent
    <3>2. x = u /\ y = v
      BY <2>1
    <3> HIDE DEF x, y
    <3> QED
      BY <3>1, <3>2, ZenonT(60)
  <2>3. /\ u \in Users /\ v \in Users /\ u # v
        /\ PrivateChats(db, Smaller(v, u), Larger(v, u)) = {}
        /\ PrivateChats(db', Smaller(v, u), Larger(v, u)) # {}
    BY <1>3, <2>1, <2>2 DEF ConfirmSent, Mails
  <2>4. PICK o \in Nat : DOMAIN db.bank = 1..o /\ Len(db.bank) = o
    BY <1>1, GrownExtends
  <2>5. Extends(db.bank, db'.bank)
    BY <1>1, GrownExtends
  <2>6. /\ n = o + 2 /\ DOMAIN db'.bank = 1..n
        /\ db'.bank[n - 1] = m1 /\ db'.bank[n] = m2
    <3>1. PICK B \in Seq(Messages) : B = db.bank
      BY <1>1, Columns
    <3>2. PICK C : C = Append(Append(B, m1), m2)
      OBVIOUS
    <3>3. Len(B) = o /\ Len(C) = o + 2 /\ DOMAIN C = 1..(o + 2) /\ C[o + 1] = m1 /\ C[o + 2] = m2
      BY <2>4, <3>1, <3>2
    <3>4. C = db'.bank
      BY <2>2, <3>1, <3>2
    <3>5. n = o + 2 /\ n - 1 = o + 1
      BY <2>2, <3>3, <3>4
    <3> QED
      BY <3>3, <3>4, <3>5
  <2>7. \A k \in DOMAIN ids : /\ ids[k] \in Nat /\ ids[k] > o /\ ids[k] \in DOMAIN db'.bank
                              /\ Between(db'.bank, ids[k], u, v)
    <3>1. n - 1 \in DOMAIN db'.bank /\ n \in DOMAIN db'.bank /\ n - 1 > o /\ n > o
      BY <2>6
    <3>2. Between(db'.bank, n - 1, u, v) /\ Between(db'.bank, n, u, v)
      BY <2>2, <2>6, <3>1 DEF Between
    <3> QED
      BY <2>2, <2>6, <3>1, <3>2
  <2>8. \A k \in DOMAIN ids : Good(db'.bank, u, ids[k], "seen") /\ Good(db'.bank, v, ids[k], "seen")
    BY <2>7 DEF Good, Between
  <2>9. \A k, l \in DOMAIN ids : k < l => ids[k] < ids[l]
    BY <2>2
  <2>10. /\ Fits(db'.bank, u, inbox[u], ids, "seen") /\ Fits(db'.bank, v, inbox[v], ids, "seen")
    <3>1. Well(db.bank, u, inbox[u], "seen") /\ Well(db.bank, v, inbox[v], "seen")
      BY <2>3 DEF MailInv, BoxesWell, Kinds
    <3> QED
      BY <2>4, <2>5, <2>7, <2>8, <2>9, <3>1, NewFits
  <2>11. PICK w : w = <<a, b>>
    OBVIOUS
  <2>12. Mails(u, w) /\ Carrier(w, 2) /\ w[2].ids = ids /\ ~Receipt(w[2])
    <3>1. DOMAIN w = {1, 2} /\ w[1] = a /\ w[2] = b
      BY <2>11
    <3>2. Mails(u, w) /\ w[2].ids = ids /\ ~Receipt(w[2])
      BY <2>2, <2>11, <3>1
    <3>3. Carrier(w, 2)
      BY <2>2, <3>1 DEF Carrier
    <3> QED
      BY <3>2, <3>3
  <2>13. "seen" \in Kinds /\ (Receipt(w[2]) <=> "seen" = "told") /\ "seen" # "told"
    BY <2>12 DEF Kinds
  <2>14. BoxesWell'
    BY <1>1, <2>10, <2>12, <2>13, BoxesAfter
  <2>15. inbox'[v] = inbox[v]
    BY <1>1, <2>3, <2>12, TypeParts, MailsIs
  <2>16. JobMail(s)'
    <3>1. PrivateChats(db', Smaller(u, v), Larger(u, v)) # {}
      BY <2>3, PairSame
    <3>2. MailOf(u, v, ids)'
      BY <2>3, <2>7, <2>10, <2>15, <3>1 DEF MailOf
    <3> QED
      BY <2>2, <3>2 DEF JobMail
  <2>17. ASSUME NEW r \in Servers, r # s, job[r].ids # <<>> PROVE JobMail(r)'
    <3>1. SameMail(r)
      BY <2>2, <2>17 DEF SameMail
    <3>2. ASSUME job[r].peer = u, NEW j \in DOMAIN ids, NEW k \in DOMAIN job[r].ids
          PROVE  Later(db'.bank, u, ids[j], job[r].ids[k], "seen")
      <4>1. PICK z, y : z = job[r].user /\ y = job[r].ids[k]
        OBVIOUS
      <4>2. MailOf(z, u, job[r].ids)
        BY <2>17, <3>2, <4>1 DEF MailInv, JobMail
      <4>3. /\ z \in Users /\ z # u /\ PrivateChats(db, Smaller(z, u), Larger(z, u)) # {}
            /\ Between(db.bank, y, z, u)
        BY <4>1, <4>2 DEF MailOf
      <4>4. y \in 1..o /\ Between(db'.bank, y, z, u)
        BY <2>4, <2>5, <4>3 DEF Between, Extends
      <4>5. z # v
        BY <2>3, <4>3
      <4>6. Between(db'.bank, ids[j], u, v)
        BY <2>7
      <4>7. ids[j] # y
        BY <2>7, <4>4
      <4>8. ~(db'.bank[ids[j]].from = db'.bank[y].from /\ db'.bank[ids[j]].from # u)
        BY <2>3, <4>3, <4>4, <4>5, <4>6 DEF Between
      <4> QED
        BY <4>1, <4>7, <4>8 DEF Later
    <3> QED
      BY <1>1, <2>12, <2>13, <3>1, <3>2, MailAfter
  <2>18. ASSUME NEW r \in Servers, r # s, job[r].ids = <<>> PROVE JobMail(r)'
    BY <2>2, <2>18 DEF JobMail
  <2> QED
    BY <1>1, <2>12, <2>14, <2>16, <2>17, <2>18 DEF MailInv, Sends
<1> QED
  BY <1>1, <1>2, <1>3, ConfirmTypes DEF Sends, Quiet

\* The invariant is kept.
LEMMA NextMail ==
  ASSUME MailInv, [Next]_vars
  PROVE  MailInv' /\ Grown(db, db') /\ Sends
<1>0. TypeInv /\ TypeInv' /\ IsDatabase(db)
  BY NextTypes, TypeParts DEF MailInv
<1>1. CASE UNCHANGED vars
  <2>1. Grown(db, db') /\ Quiet /\ \A r \in Servers : SameMail(r)
    BY <1>0, <1>1, GrownSame DEF vars, Quiet, SameMail
  <2> QED
    BY <1>0, <2>1, QuietMail DEF Sends, Quiet
<1>2. ASSUME NEW s \in Servers, NEW u \in Users, Ask(s, u) PROVE MailInv' /\ Grown(db, db') /\ Sends
  BY <1>2, AskMail DEF Sends, Quiet
<1>3. ASSUME NEW s \in Servers, Work(s) PROVE MailInv' /\ Grown(db, db') /\ Sends
  <2>1. CASE \/ HandlingUserSearch(s) \/ HandlingUserChatThreads(s) \/ HandlingUserChatMessage(s)
             \/ CheckPrivateChatExistance(s) \/ RouteRequest(s) \/ RouteConfirm(s)
             \/ PushRequest(s) \/ SendFriendRequest(s) \/ RequestCallFails(s) \/ Report(s)
             \/ UpdateRedisCache(s) \/ CreateUserSession(s) \/ KickUnknown(s) \/ LoginResponse(s)
             \/ HandlingLogout(s)
    <3>1. Quiet /\ db' = db /\ Settles(s)
      BY <1>0, <2>1, ReadOnly
    <3> QED
      BY <1>0, <3>1, GrownSame, SettleMail DEF Sends, Quiet
  <2>2. CASE CreateNewPrivateChat(s) \/ HandlingFriendRequestCreator(s)
    BY <1>0, <2>2, WritesQuietly, SettleMail DEF Sends, Quiet
  <2>3. CASE HandlingFriendRequestConfirm(s)
    BY <2>3, ConfirmMail
  <2>4. CASE StoreText(s)
    BY <2>4, StoreTextMail DEF Sends, Quiet
  <2>5. CASE RouteText(s)
    BY <2>5, RouteTextMail
  <2>6. CASE PushText(s) \/ SendChattingTextMsg(s) \/ TextCallFails(s)
    <3>1. Done(s) /\ db' = db
      BY <2>6 DEF PushText, SendChattingTextMsg, TextCallFails
    <3>2. CASE Quiet
      BY <1>0, <3>1, <3>2, GrownSame, SettleMail DEF Settles, Sends, Quiet
    <3>3. CASE Pushing(s, "text", "TEXTCHATMSGICOMINGREQUEST")
      BY <1>0, <3>3, PushingMail
    <3> QED
      BY <1>0, <2>6, <3>2, <3>3, PushTextTypes
  <2>7. CASE PushConfirm(s) \/ ConfirmFriendRequest(s) \/ ConfirmCallFails(s)
    <3>1. Pushing(s, "confirm", "FRIENDING_ON_BIDDIRECTIONAL")
      BY <1>0, <2>7, PushConfirmTypes
    <3> QED
      BY <1>0, <3>1, PushingMail
  <2> QED
    BY <1>3, <2>1, <2>2, <2>3, <2>4, <2>5, <2>6, <2>7 DEF Work
<1>4. ASSUME NEW u \in Users, NEW n \in 1..MaxLogins, Purge(u, n) PROVE MailInv' /\ Grown(db, db') /\ Sends
  <2>1. db' = db /\ job' = job /\ inbox' = inbox
    BY <1>4 DEF Purge
  <2>2. Grown(db, db') /\ Quiet /\ \A r \in Servers : SameMail(r)
    BY <1>0, <2>1, GrownSame DEF Quiet, SameMail
  <2> QED
    BY <1>0, <2>1, <2>2, QuietMail DEF Sends
<1> QED
  BY <1>1, <1>2, <1>3, <1>4 DEF Next

\* A run starts with inboxes without messages and idle workers.
LEMMA InitMail == Init => MailInv
<1> SUFFICES ASSUME Init PROVE MailInv
  OBVIOUS
<1>1. TypeInv /\ IsDatabase(db)
  BY InitTypes, TypeParts
<1>2. ASSUME NEW u \in Users, NEW kind \in Kinds PROVE Well(db.bank, u, inbox[u], kind)
  <2>1. Blank(inbox[u])
    <3>1. inbox[u] = Shown(db, u)
      BY DEF Init
    <3> QED
      BY <1>1, <3>1, ShownTypes
  <2>2. \A k \in DOMAIN <<>> : FALSE
    OBVIOUS
  <2>3. \A i, k : ~In(inbox[u], i, k, kind)
    BY <2>1, <2>2 DEF In, Blank
  <2> QED
    BY <2>3 DEF Well
<1>3. ASSUME NEW s \in Servers PROVE JobMail(s)
  BY IdleIs DEF Init, JobMail
<1> QED
  BY <1>1, <1>2, <1>3 DEF MailInv, BoxesWell

-----------------------------------------------------------------------------
(* The mailbox that clients see                                            *)

\* A list that goes on with what it was.
LEMMA PrefixIs ==
  ASSUME NEW S, NEW s \in Seq(S), NEW t \in Seq(S), Len(s) <= Len(t),
         \A i \in DOMAIN s : t[i] = s[i]
  PROVE  Abstract!IsPrefix(s, t)
<1>1. Len(s) \in Nat /\ Len(t) \in Nat /\ DOMAIN s = 1..Len(s) /\ DOMAIN t = 1..Len(t)
  OBVIOUS
<1>2. SubSeq(s, 1, Len(s)) \in Seq(S) /\ SubSeq(t, 1, Len(s)) \in Seq(S)
  BY <1>1
<1>3. SubSeq(s, 1, Len(s)) = SubSeq(t, 1, Len(s))
  BY <1>1, <1>2
<1> QED
  BY <1>3 DEF Abstract!IsPrefix

\* The lists of a box, letter by letter.
LEMMA ListsOf ==
  ASSUME NEW box \in Seq(Letters)
  PROVE  /\ SeenLists(box) \in Seq(Seq(Nat)) /\ ToldLists(box) \in Seq(Seq(Nat))
         /\ Len(SeenLists(box)) = Len(box) /\ Len(ToldLists(box)) = Len(box)
         /\ DOMAIN SeenLists(box) = DOMAIN box /\ DOMAIN ToldLists(box) = DOMAIN box
         /\ \A i \in DOMAIN box :
              /\ SeenLists(box)[i] = IF Receipt(box[i]) THEN <<>> ELSE box[i].ids
              /\ ToldLists(box)[i] = IF Receipt(box[i]) THEN box[i].ids ELSE <<>>
<1>1. PICK n \in Nat : DOMAIN box = 1..n /\ Len(box) = n
  OBVIOUS
<1>2. \A i \in 1..n : box[i].ids \in Seq(Nat) /\ <<>> \in Seq(Nat)
  <2>1. \A i \in 1..n : box[i] \in Letters
    BY <1>1, ElementOfSeq
  <2> QED
    BY <2>1, NoIds DEF Letters
<1>3. SeenLists(box) \in [1..n -> Seq(Nat)] /\ ToldLists(box) \in [1..n -> Seq(Nat)]
  BY <1>1, <1>2 DEF SeenLists, ToldLists
<1>4. SeenLists(box) \in Seq(Seq(Nat)) /\ ToldLists(box) \in Seq(Seq(Nat))
  BY <1>3, SeqDef
<1>5. \A i \in DOMAIN box :
              /\ SeenLists(box)[i] = IF Receipt(box[i]) THEN <<>> ELSE box[i].ids
              /\ ToldLists(box)[i] = IF Receipt(box[i]) THEN box[i].ids ELSE <<>>
  BY DEF SeenLists, ToldLists
<1>6. DOMAIN SeenLists(box) = 1..n /\ DOMAIN ToldLists(box) = 1..n
  BY <1>3
<1> HIDE DEF SeenLists, ToldLists
<1>7. Len(SeenLists(box)) = n /\ Len(ToldLists(box)) = n
  BY <1>4, <1>6
<1> QED
  BY <1>1, <1>4, <1>5, <1>6, <1>7

\* The places of a list are the messages in the box.
LEMMA PlacesAre ==
  ASSUME NEW box \in Seq(Letters)
  PROVE  /\ \A p \in Abstract!Places(SeenLists(box)) :
              /\ In(box, p[1], p[2], "seen")
              /\ Abstract!At(SeenLists(box), p) = box[p[1]].ids[p[2]]
         /\ \A p \in Abstract!Places(ToldLists(box)) :
              /\ In(box, p[1], p[2], "told")
              /\ Abstract!At(ToldLists(box), p) = box[p[1]].ids[p[2]]
<1>1. \A k : k \notin DOMAIN <<>>
  OBVIOUS
<1>2. ASSUME NEW p \in Abstract!Places(SeenLists(box))
      PROVE  /\ In(box, p[1], p[2], "seen")
             /\ Abstract!At(SeenLists(box), p) = box[p[1]].ids[p[2]]
  <2>1. PICK i \in DOMAIN SeenLists(box) : \E k \in DOMAIN SeenLists(box)[i] : p = <<i, k>>
    BY <1>2 DEF Abstract!Places
  <2>2. PICK k \in DOMAIN SeenLists(box)[i] : p = <<i, k>>
    BY <2>1
  <2>3. i \in DOMAIN box /\ ~Receipt(box[i]) /\ SeenLists(box)[i] = box[i].ids
    BY <1>1, <2>1, <2>2, ListsOf
  <2> QED
    BY <2>2, <2>3 DEF In, Abstract!At
<1>3. ASSUME NEW p \in Abstract!Places(ToldLists(box))
      PROVE  /\ In(box, p[1], p[2], "told")
             /\ Abstract!At(ToldLists(box), p) = box[p[1]].ids[p[2]]
  <2>1. PICK i \in DOMAIN ToldLists(box) : \E k \in DOMAIN ToldLists(box)[i] : p = <<i, k>>
    BY <1>3 DEF Abstract!Places
  <2>2. PICK k \in DOMAIN ToldLists(box)[i] : p = <<i, k>>
    BY <2>1
  <2>3. i \in DOMAIN box /\ Receipt(box[i]) /\ ToldLists(box)[i] = box[i].ids
    BY <1>1, <2>1, <2>2, ListsOf
  <2> QED
    BY <2>2, <2>3 DEF In, Abstract!At
<1> QED
  BY <1>2, <1>3

\* Boxes in order make an honest mailbox.
LEMMA HonestBoxes ==
  ASSUME MailInv
  PROVE  Abstract!Honest
<1>1. Inboxes
  BY TypeParts DEF MailInv
<1>2. SUFFICES ASSUME NEW u \in Users PROVE Abstract!ShownWell(u) /\ Abstract!ToldWell(u)
  BY DEF Abstract!Honest
<1>3. /\ Well(db.bank, u, inbox[u], "seen") /\ Well(db.bank, u, inbox[u], "told")
      /\ inbox[u] \in Seq(Letters)
  BY <1>1 DEF MailInv, BoxesWell, Kinds, Inboxes
<1>4. PICK box, B : box = inbox[u] /\ B = db.bank
  OBVIOUS
<1> DEFINE bank == [i \in DOMAIN db.bank |-> [from |-> db.bank[i].from, to |-> db.bank[i].to]]
<1>5. /\ DOMAIN bank = DOMAIN B
      /\ \A x \in DOMAIN B : bank[x].from = B[x].from /\ bank[x].to = B[x].to
  BY <1>4
<1>6. /\ [v \in Users |-> SeenLists(inbox[v])][u] = SeenLists(box)
      /\ [v \in Users |-> ToldLists(inbox[v])][u] = ToldLists(box)
  BY <1>4
<1>7. \A p, q \in Abstract!Places(SeenLists(box)) :
        Abstract!Before(p, q) => p[1] < q[1] \/ (p[1] = q[1] /\ p[2] < q[2])
  BY DEF Abstract!Before
<1>8. Abstract!ShownWell(u)
  <2>1. ASSUME NEW p \in Abstract!Places(SeenLists(box))
        PROVE  /\ Abstract!At(SeenLists(box), p) \in DOMAIN B
               /\ u \in {B[Abstract!At(SeenLists(box), p)].from, B[Abstract!At(SeenLists(box), p)].to}
    BY <1>3, <1>4, PlacesAre DEF Well, Good
  <2>2. ASSUME NEW p \in Abstract!Places(SeenLists(box)), NEW q \in Abstract!Places(SeenLists(box)),
               Abstract!Before(p, q)
        PROVE  Later(B, u, Abstract!At(SeenLists(box), p), Abstract!At(SeenLists(box), q), "seen")
    BY <1>3, <1>4, <2>2, PlacesAre DEF Well, Abstract!Before
  <2> HIDE DEF bank
  <2>3. /\ \A p \in Abstract!Places(SeenLists(box)) :
             /\ Abstract!At(SeenLists(box), p) \in DOMAIN bank
             /\ u \in {bank[Abstract!At(SeenLists(box), p)].from, bank[Abstract!At(SeenLists(box), p)].to}
        /\ \A p, q \in Abstract!Places(SeenLists(box)) :
             Abstract!Before(p, q) =>
               LET x == Abstract!At(SeenLists(box), p)
                   y == Abstract!At(SeenLists(box), q) IN
               /\ x # y
               /\ bank[x].from = bank[y].from /\ bank[x].from # u => x < y
    BY <1>5, <2>1, <2>2 DEF Later
  <2> QED
    BY <1>6, <2>3 DEF Abstract!ShownWell, bank
<1>9. Abstract!ToldWell(u)
  <2>1. ASSUME NEW p \in Abstract!Places(ToldLists(box))
        PROVE  /\ Abstract!At(ToldLists(box), p) \in DOMAIN B
               /\ B[Abstract!At(ToldLists(box), p)].from = u
    BY <1>3, <1>4, PlacesAre DEF Well, Good
  <2>2. ASSUME NEW p \in Abstract!Places(ToldLists(box)), NEW q \in Abstract!Places(ToldLists(box)),
               Abstract!Before(p, q)
        PROVE  Later(B, u, Abstract!At(ToldLists(box), p), Abstract!At(ToldLists(box), q), "told")
    BY <1>3, <1>4, <2>2, PlacesAre DEF Well, Abstract!Before
  <2> HIDE DEF bank
  <2>3. /\ \A p \in Abstract!Places(ToldLists(box)) :
             /\ Abstract!At(ToldLists(box), p) \in DOMAIN bank
             /\ bank[Abstract!At(ToldLists(box), p)].from = u
        /\ \A p, q \in Abstract!Places(ToldLists(box)) :
             Abstract!Before(p, q) =>
               Abstract!At(ToldLists(box), p) < Abstract!At(ToldLists(box), q)
    BY <1>5, <2>1, <2>2 DEF Later
  <2> QED
    BY <1>6, <2>3 DEF Abstract!ToldWell, bank
<1> QED
  BY <1>8, <1>9

\* The lists of a mailbox and the messages stored only grow.
LEMMA MailboxGrows ==
  ASSUME TypeInv, TypeInv', Grown(db, db'), InboxGrows
  PROVE  /\ Abstract!IsPrefix([i \in DOMAIN db.bank |-> [from |-> db.bank[i].from, to |-> db.bank[i].to]],
                             [i \in DOMAIN db.bank |-> [from |-> db.bank[i].from, to |-> db.bank[i].to]]')
         /\ \A u \in Users :
              /\ Abstract!IsPrefix(SeenLists(inbox[u]), SeenLists(inbox'[u]))
              /\ Abstract!IsPrefix(ToldLists(inbox[u]), ToldLists(inbox'[u]))
<1>1. IsDatabase(db) /\ IsDatabase(db')
  BY DEF TypeInv, TypeOK
<1>2. PICK B \in Seq(Messages), C \in Seq(Messages) : B = db.bank /\ C = db'.bank
  BY <1>1, Columns
<1> DEFINE F(D) == [i \in DOMAIN D |-> [from |-> D[i].from, to |-> D[i].to]]
           S == [from : Nat, to : Nat]
<1>3. ASSUME NEW D \in Seq(Messages)
      PROVE  F(D) \in Seq(S) /\ Len(F(D)) = Len(D) /\ DOMAIN F(D) = DOMAIN D
  <2>1. PICK n \in Nat : DOMAIN D = 1..n /\ Len(D) = n
    OBVIOUS
  <2>2. \A i \in 1..n : D[i].from \in Nat /\ D[i].to \in Nat
    <3>1. \A i \in 1..n : D[i] \in Messages
      BY <2>1, ElementOfSeq
    <3> QED
      BY <3>1, UsersAssumption DEF Messages
  <2>3. F(D) \in [1..n -> S]
    BY <2>1, <2>2
  <2> HIDE DEF F, S
  <2>4. F(D) \in Seq(S) /\ DOMAIN F(D) = 1..n
    BY <2>3, SeqDef
  <2>5. Len(F(D)) = n
    BY <2>4
  <2> QED
    BY <2>1, <2>4, <2>5
<1>4. Len(B) <= Len(C) /\ \A i \in DOMAIN B : i \in DOMAIN C /\ C[i] = B[i]
  BY <1>2 DEF Grown
<1>5. Abstract!IsPrefix(F(B), F(C))
  <2>1. \A i \in DOMAIN B : F(C)[i] = F(B)[i]
    BY <1>4
  <2> HIDE DEF F, S
  <2>2. \A i \in DOMAIN F(B) : F(C)[i] = F(B)[i]
    BY <1>3, <2>1
  <2> QED
    BY <1>3, <1>4, <2>2, PrefixIs
<1>6. ASSUME NEW u \in Users
      PROVE  /\ Abstract!IsPrefix(SeenLists(inbox[u]), SeenLists(inbox'[u]))
             /\ Abstract!IsPrefix(ToldLists(inbox[u]), ToldLists(inbox'[u]))
  <2>1. PICK p \in Seq(Letters), q \in Seq(Letters) : p = inbox[u] /\ q = inbox'[u]
    BY DEF TypeInv, TypeOK
  <2>2. Len(p) <= Len(q) /\ \A i \in DOMAIN p : i \in DOMAIN q /\ q[i] = p[i]
    BY <2>1 DEF InboxGrows
  <2>3. /\ \A i \in DOMAIN SeenLists(p) : SeenLists(q)[i] = SeenLists(p)[i]
        /\ \A i \in DOMAIN ToldLists(p) : ToldLists(q)[i] = ToldLists(p)[i]
    BY <2>2, ListsOf
  <2>4. /\ SeenLists(p) \in Seq(Seq(Nat)) /\ ToldLists(p) \in Seq(Seq(Nat))
        /\ SeenLists(q) \in Seq(Seq(Nat)) /\ ToldLists(q) \in Seq(Seq(Nat))
        /\ Len(SeenLists(p)) <= Len(SeenLists(q)) /\ Len(ToldLists(p)) <= Len(ToldLists(q))
    BY <2>2, ListsOf
  <2> QED
    BY <2>1, <2>3, <2>4, PrefixIs
<1> QED
  BY <1>2, <1>5, <1>6

\* The messaging of the system is the mailbox its users were promised.
THEOREM MailboxIsHonest == Spec => ImplementsMailbox
<1>1. Init => Abstract!Init /\ MailInv
  BY InitMail, HonestBoxes DEF Abstract!Init
<1>2. MailInv /\ [Next]_vars => MailInv'
  BY NextMail
<1>3. MailInv /\ MailInv' /\ [Next]_vars => Abstract!Next
  <2> SUFFICES ASSUME MailInv, MailInv', [Next]_vars PROVE Abstract!Next
    OBVIOUS
  <2>1. TypeInv /\ TypeInv' /\ Grown(db, db') /\ InboxGrows
    <3>1. Inboxes
      BY TypeParts DEF MailInv
    <3> QED
      BY <3>1, NextMail, MailsGrow DEF MailInv, Sends
  <2>2. Abstract!Honest'
    BY HonestBoxes, PTL
  <2>3. \A u \in Users :
          /\ [v \in Users |-> SeenLists(inbox[v])][u] = SeenLists(inbox[u])
          /\ [v \in Users |-> ToldLists(inbox[v])][u] = ToldLists(inbox[u])
          /\ [v \in Users |-> SeenLists(inbox[v])]'[u] = SeenLists(inbox'[u])
          /\ [v \in Users |-> ToldLists(inbox[v])]'[u] = ToldLists(inbox'[u])
    OBVIOUS
  <2> QED
    BY <2>1, <2>2, <2>3, MailboxGrows DEF Abstract!Next
<1> QED
  BY <1>1, <1>2, <1>3, PTL DEF Spec, ImplementsMailbox, Abstract!Spec

-----------------------------------------------------------------------------
(* Every request is answered when it ends                                  *)

AnswerComes(s) ==
  \E i \in DOMAIN inbox'[job[s].user] :
    i > job[s].seen /\ inbox'[job[s].user][i].type = Answer(job[s].op)

\* An error, or a success, is an answer.
LEMMA LetterAnswers ==
  ASSUME TypeInv, NEW s \in Servers, job[s].op # "idle", NEW type \in Types, type = Answer(job[s].op),
         \/ Refuse(s, type)
         \/ \E t \in Nat : Reply(s, type, t, <<>>)
  PROVE  AnswerComes(s)
<1>1. Inboxes /\ job[s].user \in Users /\ job[s].peer \in Nat
  BY TypeParts, WorkerIs
<1>2. PICK m \in Letters : Send(job[s].user, m) /\ m.type = type
  <2>1. PICK p \in Nat : p = job[s].peer
    BY <1>1
  <2>2. CASE Refuse(s, type)
    <3>1. Msg(type, FALSE, p, 0, <<>>) \in Letters /\ Msg(type, FALSE, p, 0, <<>>).type = type
      BY NoIds DEF Msg, Letters, Types
    <3> QED
      BY <2>1, <2>2, <3>1 DEF Refuse
  <2>3. ASSUME NEW t \in Nat, Reply(s, type, t, <<>>)
        PROVE  \E m \in Letters : Send(job[s].user, m) /\ m.type = type
    <3>1. Msg(type, TRUE, p, t, <<>>) \in Letters /\ Msg(type, TRUE, p, t, <<>>).type = type
      BY NoIds DEF Msg, Letters, Types
    <3> QED
      BY <2>1, <2>3, <3>1 DEF Reply
  <2> QED
    BY <2>2, <2>3
<1>3. Mails(job[s].user, <<m>>) /\ 1 \in DOMAIN <<m>> /\ <<m>>[1] = m
  BY <1>1, <1>2, SendMails
<1> QED
  BY <1>2, <1>3, AnswersNow DEF AnswerComes

\* The answer is the first of several letters.
LEMMA FirstAnswers ==
  ASSUME TypeInv, NEW s \in Servers, job[s].op # "idle", NEW m \in Letters, NEW w \in Seq(Letters),
         m.type = Answer(job[s].op), inbox' = [inbox EXCEPT ![job[s].user] = @ \o (<<m>> \o w)]
  PROVE  AnswerComes(s)
<1>1. <<m>> \o w \in Seq(Letters) /\ 1 \in DOMAIN (<<m>> \o w) /\ (<<m>> \o w)[1] = m
  OBVIOUS
<1>2. Mails(job[s].user, <<m>> \o w)
  BY <1>1, WorkerIs DEF Mails
<1> QED
  BY <1>1, <1>2, AnswersNow DEF AnswerComes

\* Only a worker itself moves its request.
LEMMA OwnRequest ==
  ASSUME TypeInv, NEW r \in Servers, Work(r), NEW s \in Servers, s # r
  PROVE  job'[s] = job[s]
<1>1. job \in [Servers -> Jobs]
  BY TypeParts
<1>2. \A step : Goto(r, step) => job'[s] = job[s]
  BY <1>1 DEF Goto
<1>3. Done(r) => job'[s] = job[s]
  BY <1>1 DEF Done
<1>4. GotoPush(r) => job'[s] = job[s]
  BY <1>1 DEF GotoPush
<1>5. \/ Done(r) \/ GotoPush(r) \/ \E step : Goto(r, step)
      \/ HandlingFriendRequestConfirm(r) \/ StoreText(r)
  BY DEF Work, HandlingUserSearch, HandlingUserChatThreads, HandlingUserChatMessage,
     CheckPrivateChatExistance, CreateNewPrivateChat, HandlingFriendRequestCreator,
     RouteRequest, RouteConfirm, RouteText, PushRequest, PushConfirm, PushText,
     SendFriendRequest, ConfirmFriendRequest, SendChattingTextMsg, RequestCallFails,
     ConfirmCallFails, TextCallFails, Report, UpdateRedisCache, CreateUserSession, KickUnknown,
     LoginResponse, HandlingLogout
<1>6. CASE HandlingFriendRequestConfirm(r)
  BY <1>1, <1>3, <1>6 DEF HandlingFriendRequestConfirm
<1>7. CASE StoreText(r)
  BY <1>1, <1>3, <1>7 DEF StoreText
<1> QED
  BY <1>2, <1>3, <1>4, <1>5, <1>6, <1>7

\* A worker that goes on has not ended.
LEMMA GoesOn ==
  ASSUME TypeInv, NEW s \in Servers, job[s].op # "idle",
         GotoPush(s) \/ \E step : Goto(s, step)
  PROVE  job'[s] # Idle
<1>1. job[s] \in Jobs /\ job \in [Servers -> Jobs]
  BY TypeParts
<1>2. job'[s].op = job[s].op
  <2>1. CASE GotoPush(s)
    <3> HIDE DEF Via
    <3> QED
      BY <1>1, <2>1 DEF GotoPush, Jobs
  <2>2. CASE \E step : Goto(s, step)
    BY <1>1, <2>2 DEF Goto, Jobs
  <2> QED
    BY <2>1, <2>2
<1> QED
  BY <1>2, IdleIs

\* What was answered stays answered.
LEMMA EarlierAnswer ==
  ASSUME TypeInv, NEW s \in Servers, InboxGrows,
         \/ job[s].op = "text" /\ job[s].step = "push"
         \/ job[s].op = "confirm" /\ job[s].step # "store"
  PROVE  AnswerComes(s)
<1>1. Answered(s) /\ job[s].op # "idle"
  BY TypeParts DEF JobOK
<1> QED
  BY <1>1, AnswerStays DEF AnswerComes
-----------------------------------------------------------------------------
\* A page that was found has a first row.
LEMMA ThreadPageFull ==
  ASSUME NEW d, IsDatabase(d), NEW u, NEW cur, ThreadPageFound(d, u, cur)
  PROVE  LET R == ThreadPage(d, u, cur).rows IN
         /\ \A t \in R : \E c \in d.chat : c.thread = t
         /\ 1 \in DOMAIN Ascending(R)
<1> DEFINE S == UserThreads(d, u, cur)
           R == ThreadPage(d, u, cur).rows
<1>1. d.threads \in Nat /\ \A c \in d.chat : c.thread \in 1..d.threads
  BY DEF IsDatabase
<1>2. S \in SUBSET (0..d.threads) /\ S # {} /\ \A t \in S : \E c \in d.chat : c.thread = t
  BY <1>1 DEF ThreadPageFound, UserThreads
<1>3. PageSize \in Nat \ {0}
  BY SchemaAssumption
<1>4. R \subseteq S /\ R # {}
  <2>1. ThreadPage(d, u, cur) = Page(S, PageSize)
    BY DEF ThreadPage
  <2> HIDE DEF S
  <2>2. /\ Page(S, PageSize).next \in S
        /\ \A x \in S : x \in Page(S, PageSize).rows <=> ~(x > Page(S, PageSize).next)
        /\ Page(S, PageSize).rows \subseteq S
    BY <1>1, <1>2, <1>3, PageCuts
  <2>3. ~(Page(S, PageSize).next > Page(S, PageSize).next)
    <3>1. \A x \in 0..d.threads : ~(x > x)
      OBVIOUS
    <3> QED
      BY <1>2, <2>2, <3>1
  <2> QED
    BY <2>1, <2>2, <2>3
<1> HIDE DEF S, R
<1>5. R \subseteq Nat /\ IsFiniteSet(R)
  <2>1. IsFiniteSet(0..d.threads) /\ R \in SUBSET (0..d.threads)
    BY <1>1, <1>2, <1>4, FS_Interval
  <2>2. R \subseteq Nat
    BY <2>1
  <2> QED
    BY <2>1, <2>2, FS_Subset
<1>6. Cardinality(R) \in Nat /\ Cardinality(R) # 0
  BY <1>4, <1>5, FS_CardinalityType, FS_EmptySet
<1>7. 1 \in DOMAIN Ascending(R)
  <2>1. PICK n \in Nat : n = Cardinality(R) /\ n # 0
    BY <1>6
  <2>2. DOMAIN Ascending(R) = 1..n
    BY <1>5, <2>1, AscendingType
  <2> QED
    BY <2>1, <2>2
<1> QED
  BY <1>2, <1>4, <1>7 DEF R

\* The chat of a pair that has one has a thread.
LEMMA ChatThere ==
  ASSUME NEW d, IsDatabase(d), NEW u \in Users, NEW v \in Users, PrivateChatThere(d, u, v)
  PROVE  (CHOOSE x \in d.chat : {x.one, x.two} = {u, v}).thread \in Nat
<1> DEFINE c == CHOOSE x \in d.chat : {x.one, x.two} = {u, v}
<1>1. PICK x \in d.chat : x.one = Smaller(u, v) /\ x.two = Larger(u, v)
  BY DEF PrivateChatThere, PrivateChats
<1>2. {x.one, x.two} = {u, v}
  <2>1. {Smaller(u, v), Larger(u, v)} = {u, v}
    BY Pair
  <2> QED
    BY <1>1, <2>1
<1>3. c \in d.chat
  BY <1>2
<1> HIDE DEF c
<1>4. c.thread \in Nat
  BY <1>3, Columns DEF Chats
<1> QED
  BY <1>4 DEF c

\* The handlers that read the database.
LEMMA ReadersAnswer ==
  ASSUME TypeInv, NEW s \in Servers, job'[s] = Idle, ~Throws(s),
         \/ HandlingUserSearch(s) \/ HandlingUserChatThreads(s) \/ HandlingUserChatMessage(s)
         \/ CheckPrivateChatExistance(s) \/ CreateNewPrivateChat(s)
  PROVE  AnswerComes(s)
<1>0. Answers \subseteq Types
  BY DEF Types
<1>1. CASE HandlingUserSearch(s)
  <2>1. /\ job[s].op = "search"
        /\ Refuse(s, "SEARCHUSERNAMERESPONSE") \/ Reply(s, "SEARCHUSERNAMERESPONSE", 0, <<>>)
    BY <1>1 DEF HandlingUserSearch, Now
  <2>2. Answer("search") = "SEARCHUSERNAMERESPONSE" /\ "SEARCHUSERNAMERESPONSE" \in Types
    BY <1>0 DEF Answer, Answers
  <2> QED
    BY <2>1, <2>2, LetterAnswers
<1>2. CASE HandlingUserChatThreads(s)
  <2> DEFINE u == job[s].user
             page == ThreadPage(db, u, job[s].thread)
             T == Ascending(page.rows)
             w == [k \in DOMAIN T |->
                     Msg("PULLCHATTHREADRESPONSE", TRUE, Peer(db, u, T[k]), T[k], <<>>)]
  <2>1. job[s].op = "threads" /\ ~PagingThrows
    BY <1>2 DEF HandlingUserChatThreads, Now, Throws
  <2>2. \/ /\ ThreadPageFound(db, u, job[s].thread)
           /\ inbox' = [inbox EXCEPT ![u] = @ \o w]
        \/ Refuse(s, "PULLCHATTHREADRESPONSE")
    BY <1>2, <2>1 DEF HandlingUserChatThreads
  <2>3. Answer("threads") = "PULLCHATTHREADRESPONSE" /\ "PULLCHATTHREADRESPONSE" \in Types
    BY <1>0 DEF Answer, Answers
  <2>4. CASE Refuse(s, "PULLCHATTHREADRESPONSE")
    BY <2>1, <2>3, <2>4, LetterAnswers
  <2>5. CASE /\ ThreadPageFound(db, u, job[s].thread)
             /\ inbox' = [inbox EXCEPT ![u] = @ \o w]
    <3>1. IsDatabase(db) /\ u \in Users /\ job[s].thread \in Nat
      BY <2>1, TypeParts, WorkerIs
    <3>2. 1 \in DOMAIN T /\ \A t \in page.rows : \E c \in db.chat : c.thread = t
      BY <2>5, <3>1, ThreadPageFull
    <3>3. w \in Seq(Letters)
      <4> HIDE DEF page, u
      <4> QED
        <5>1. PICK d, x, R : x \in Users /\ d = db /\ x = u /\ R = page.rows
          BY <3>1
        <5>2. IsDatabase(d) /\ \A t \in R : \E c \in d.chat : c.thread = t
          BY <3>1, <3>2, <5>1
        <5> DEFINE y == Ascending(R)
                   z == [k \in DOMAIN y |->
                           Msg("PULLCHATTHREADRESPONSE", TRUE, Peer(d, x, y[k]), y[k], <<>>)]
        <5>0. x \in Users
          BY <5>1
        <5>3. z \in Seq(Letters) /\ Blank(z)
          BY <5>0, <5>2, ThreadLetters
        <5> QED
          BY <5>1, <5>3
    <3>4. 1 \in DOMAIN w /\ w[1].type = "PULLCHATTHREADRESPONSE"
      <4> HIDE DEF T
      <4> QED
        BY <3>2 DEF Msg
    <3> HIDE DEF w
    <3>5. Mails(u, w)
      BY <2>5, <3>1, <3>3 DEF Mails
    <3> QED
      BY <2>1, <2>3, <3>4, <3>5, AnswersNow DEF AnswerComes
  <2> QED
    BY <2>2, <2>4, <2>5
<1>3. CASE HandlingUserChatMessage(s)
  <2>1. job[s].op = "records" /\ Refuse(s, "PULLCHATRECORDRESPONSE")
    BY <1>3 DEF HandlingUserChatMessage, Now, RecordPageFound, AffectedBySelect
  <2>2. Answer("records") = "PULLCHATRECORDRESPONSE" /\ "PULLCHATRECORDRESPONSE" \in Types
    BY <1>0 DEF Answer, Answers
  <2> QED
    BY <2>1, <2>2, LetterAnswers
<1>4. Answer("chat") = "CREATENEWPRIVATECHAT_RESPONSE" /\ "CREATENEWPRIVATECHAT_RESPONSE" \in Types
  BY <1>0 DEF Answer, Answers
<1>5. CASE CheckPrivateChatExistance(s)
  <2> DEFINE c == CHOOSE x \in db.chat : {x.one, x.two} = {job[s].user, job[s].peer}
  <2>1. job[s].op = "chat" /\ ~LookupThrows
    BY <1>5 DEF CheckPrivateChatExistance, Now, Throws
  <2>2. ~Goto(s, "insert")
    BY <2>1, GoesOn
  <2>3. \/ /\ PrivateChatThere(db, job[s].user, job[s].peer)
           /\ Reply(s, "CREATENEWPRIVATECHAT_RESPONSE", c.thread, <<>>)
        \/ Refuse(s, "CREATENEWPRIVATECHAT_RESPONSE")
    BY <1>5, <2>1, <2>2 DEF CheckPrivateChatExistance
  <2>4. ASSUME PrivateChatThere(db, job[s].user, job[s].peer) PROVE c.thread \in Nat
    <3>1. job[s].user \in Users /\ job[s].peer \in Users /\ IsDatabase(db)
      BY <2>1, TypeParts, WorkerIs DEF JobOK
    <3> QED
      <4>1. PICK u \in Users, v \in Users : u = job[s].user /\ v = job[s].peer
        BY <3>1
      <4>2. PICK d : d = db
        OBVIOUS
      <4>3. (CHOOSE x \in d.chat : {x.one, x.two} = {u, v}).thread \in Nat
        <5>1. IsDatabase(d) /\ PrivateChatThere(d, u, v)
          BY <2>4, <3>1, <4>1, <4>2
        <5> QED
          BY <5>1, ChatThere
      <4> QED
        BY <4>1, <4>2, <4>3
  <2> HIDE DEF c
  <2> QED
    BY <1>4, <2>1, <2>3, <2>4, LetterAnswers
<1>6. CASE CreateNewPrivateChat(s)
  <2> DEFINE r == CreatePrivateChat(db, job[s].user, job[s].peer)
  <2>1. /\ job[s].op = "chat"
        /\ \/ Reply(s, "CREATENEWPRIVATECHAT_RESPONSE", r.db.threads, <<>>)
           \/ Refuse(s, "CREATENEWPRIVATECHAT_RESPONSE")
    BY <1>6 DEF CreateNewPrivateChat, Now
  <2>2. r.db.threads \in Nat
    <3>1. job[s].user \in Users /\ job[s].peer \in Users /\ IsDatabase(db)
      BY <2>1, TypeParts, WorkerIs DEF JobOK
    <3> QED
      BY <3>1, CreatePrivateChatTypes, Columns
  <2> HIDE DEF r
  <2> QED
    BY <1>4, <2>1, <2>2, LetterAnswers
<1> QED
  BY <1>1, <1>2, <1>3, <1>5, <1>6

\* The handlers that store, route and push.
LEMMA FriendsAnswer ==
  ASSUME TypeInv, NEW s \in Servers, job'[s] = Idle, InboxGrows,
         \/ HandlingFriendRequestCreator(s) \/ HandlingFriendRequestConfirm(s) \/ StoreText(s)
         \/ RouteRequest(s) \/ RouteConfirm(s) \/ RouteText(s)
         \/ PushRequest(s) \/ PushConfirm(s) \/ PushText(s)
         \/ SendFriendRequest(s) \/ ConfirmFriendRequest(s) \/ SendChattingTextMsg(s)
         \/ RequestCallFails(s) \/ ConfirmCallFails(s) \/ TextCallFails(s) \/ Report(s)
  PROVE  AnswerComes(s)
<1>1. /\ Answer("create") = "FRIENDSENDERRESPONSE" /\ "FRIENDSENDERRESPONSE" \in Types
      /\ Answer("confirm") = "FRIENDCONFIRMRESPONSE" /\ "FRIENDCONFIRMRESPONSE" \in Types
      /\ Answer("text") = "TEXTCHATMSGRESPONSE" /\ "TEXTCHATMSGRESPONSE" \in Types
  BY DEF Answer, Types, Answers
<1>2. CASE \/ HandlingFriendRequestCreator(s) \/ RouteRequest(s) \/ PushRequest(s)
           \/ SendFriendRequest(s) \/ RequestCallFails(s) \/ Report(s)
  <2>1. /\ job[s].op = "create"
        /\ \/ GotoPush(s) \/ \E step : Goto(s, step)
           \/ Refuse(s, "FRIENDSENDERRESPONSE") \/ Reply(s, "FRIENDSENDERRESPONSE", 0, <<>>)
    <3>1. CASE HandlingFriendRequestCreator(s)
      BY <3>1 DEF HandlingFriendRequestCreator, Now
    <3>2. CASE RouteRequest(s)
      BY <3>2 DEF RouteRequest, Now
    <3>3. CASE PushRequest(s) \/ SendFriendRequest(s) \/ RequestCallFails(s)
      BY <3>3 DEF PushRequest, SendFriendRequest, RequestCallFails, PushHere, PushThere, Now
    <3>4. CASE Report(s)
      BY <3>4, TypeParts DEF Report, JobOK
    <3> QED
      BY <1>2, <3>1, <3>2, <3>3, <3>4
  <2>2. job[s].op # "idle"
    BY <2>1
  <2>3. Refuse(s, "FRIENDSENDERRESPONSE") \/ Reply(s, "FRIENDSENDERRESPONSE", 0, <<>>)
    BY <2>1, <2>2, GoesOn
  <2> QED
    BY <1>1, <2>1, <2>2, <2>3, LetterAnswers
<1>3. CASE RouteConfirm(s) \/ PushConfirm(s) \/ ConfirmFriendRequest(s) \/ ConfirmCallFails(s)
  <2>1. job[s].op = "confirm" /\ job[s].step # "store"
    BY <1>3 DEF RouteConfirm, PushConfirm, ConfirmFriendRequest, ConfirmCallFails, PushHere,
                PushThere, Now
  <2> QED
    BY <2>1, EarlierAnswer
<1>4. CASE PushText(s) \/ SendChattingTextMsg(s) \/ TextCallFails(s)
  <2>1. job[s].op = "text" /\ job[s].step = "push"
    BY <1>4 DEF PushText, SendChattingTextMsg, TextCallFails, PushHere, PushThere, Now
  <2> QED
    BY <2>1, EarlierAnswer
<1>5. CASE RouteText(s)
  <2>1. /\ job[s].op = "text"
        /\ GotoPush(s) \/ Refuse(s, "TEXTCHATMSGRESPONSE")
    BY <1>5 DEF RouteText, Now
  <2>2. Refuse(s, "TEXTCHATMSGRESPONSE")
    BY <2>1, GoesOn
  <2> QED
    BY <1>1, <2>1, <2>2, LetterAnswers
<1>6. CASE StoreText(s)
  <2> DEFINE r == StoreMessage(db, job[s].thread, job[s].user, job[s].peer)
  <2>1. job[s].op = "text" /\ job \in [Servers -> Jobs] /\ job[s] \in Jobs
    BY <1>6, TypeParts DEF StoreText, Now
  <2>2. ~(job' = [job EXCEPT ![s].left = @ - 1, ![s].ids = Append(@, Len(r.db.bank)),
                             ![s].step = IF job[s].left = 1 THEN "route" ELSE "store"])
    <3>1. SUFFICES ASSUME job' = [job EXCEPT ![s].left = @ - 1, ![s].ids = Append(@, Len(r.db.bank)),
                             ![s].step = IF job[s].left = 1 THEN "route" ELSE "store"]
                   PROVE  job'[s].op = "text"
      BY IdleIs
    <3> HIDE DEF r
    <3> QED
      BY <2>1, <3>1 DEF Jobs
  <2>3. Refuse(s, "TEXTCHATMSGRESPONSE")
    BY <1>6, <2>2 DEF StoreText
  <2> QED
    BY <1>1, <2>1, <2>3, LetterAnswers
<1>7. CASE HandlingFriendRequestConfirm(s)
  <2> DEFINE u == job[s].user
             v == job[s].peer
             r == ConfirmFriend(db, v, u)
             n == Len(r.db.bank)
             No(type) == Msg(type, FALSE, v, 0, <<>>)
             Yes(type, t, ids) == Msg(type, TRUE, v, t, ids)
  <2>1. job[s].op = "confirm" /\ job \in [Servers -> Jobs] /\ job[s] \in Jobs /\ v \in Nat /\ u \in Users
    BY <1>7, TypeParts, WorkerIs DEF HandlingFriendRequestConfirm, Now
  <2>2. ~(job' = [job EXCEPT ![s].step = "route", ![s].thread = r.db.threads,
                             ![s].ids = <<n - 1, n>>])
    <3>1. SUFFICES ASSUME job' = [job EXCEPT ![s].step = "route", ![s].thread = r.db.threads,
                                             ![s].ids = <<n - 1, n>>]
                   PROVE  job'[s].op = "confirm"
      BY IdleIs
    <3> HIDE DEF r, n
    <3> QED
      BY <2>1, <3>1 DEF Jobs
  <2>3. PICK a \in {Yes("FRIENDCONFIRMRESPONSE", 0, <<>>), No("FRIENDCONFIRMRESPONSE")} :
          inbox' = [inbox EXCEPT ![u] = @ \o <<a, No("FRIENDING_ON_BIDDIRECTIONAL")>>]
    BY <1>7, <2>2 DEF HandlingFriendRequestConfirm
  <2>4. PICK p : p \in Nat /\ p = v
    BY <2>1
  <2>5. PICK b \in Letters : b = No("FRIENDING_ON_BIDDIRECTIONAL")
    <3>1. Msg("FRIENDING_ON_BIDDIRECTIONAL", FALSE, p, 0, <<>>) \in Letters
      BY <2>4, NoIds DEF Msg, Letters, Types, Pushes
    <3> QED
      BY <2>4, <3>1
  <2>6. a \in Letters /\ a.type = "FRIENDCONFIRMRESPONSE"
    <3>1. \A ok \in BOOLEAN : /\ Msg("FRIENDCONFIRMRESPONSE", ok, p, 0, <<>>) \in Letters
                              /\ Msg("FRIENDCONFIRMRESPONSE", ok, p, 0, <<>>).type = "FRIENDCONFIRMRESPONSE"
      BY <2>4, <1>1, NoIds DEF Msg, Letters, Types
    <3> QED
      BY <2>4, <3>1
  <2> HIDE DEF u, v, r, n, No, Yes
  <2>7. PICK m \in Letters : m = a /\ m.type = "FRIENDCONFIRMRESPONSE"
    BY <2>6
  <2>8. <<m, b>> \in Seq(Letters) /\ 1 \in DOMAIN <<m, b>> /\ <<m, b>>[1] = m
    OBVIOUS
  <2>9. Mails(u, <<m, b>>)
    BY <2>1, <2>3, <2>5, <2>7, <2>8 DEF Mails
  <2> QED
    BY <1>1, <2>1, <2>7, <2>8, <2>9, AnswersNow DEF AnswerComes, u
<1> QED
  BY <1>2, <1>3, <1>4, <1>5, <1>6, <1>7

\* Login and logout.
LEMMA LoginsAnswer ==
  ASSUME TypeInv, NEW s \in Servers, job'[s] = Idle,
         \/ UpdateRedisCache(s) \/ CreateUserSession(s) \/ KickUnknown(s) \/ LoginResponse(s)
         \/ HandlingLogout(s)
  PROVE  AnswerComes(s)
<1>1. /\ Answer("login") = "LOGINRESPONSE" /\ "LOGINRESPONSE" \in Types
      /\ Answer("logout") = "LOGOUTRESPONSE" /\ "LOGOUTRESPONSE" \in Types
  BY DEF Answer, Types, Answers
<1>2. CASE UpdateRedisCache(s) \/ CreateUserSession(s)
  <2>1. /\ job[s].op = "login"
        /\ Refuse(s, "LOGINRESPONSE") \/ \E step : Goto(s, step)
    BY <1>2 DEF UpdateRedisCache, CreateUserSession, Now
  <2>2. Refuse(s, "LOGINRESPONSE")
    BY <2>1, GoesOn
  <2> QED
    BY <1>1, <2>1, <2>2, LetterAnswers
<1>3. CASE HandlingLogout(s)
  <2>1. /\ job[s].op = "logout"
        /\ Refuse(s, "LOGOUTRESPONSE") \/ Reply(s, "LOGOUTRESPONSE", 0, <<>>)
    BY <1>3 DEF HandlingLogout, Now
  <2> QED
    BY <1>1, <2>1, LetterAnswers
<1>4. \A ok \in BOOLEAN : /\ Msg("LOGINRESPONSE", ok, 0, 0, <<>>) \in Letters
                          /\ Msg("LOGINRESPONSE", ok, 0, 0, <<>>).type = "LOGINRESPONSE"
  BY <1>1, NoIds DEF Msg, Letters, Types
<1>5. CASE KickUnknown(s)
  <2>1. PICK a \in Letters : a = Msg("LOGINRESPONSE", FALSE, 0, 0, <<>>) /\ a.type = "LOGINRESPONSE"
    BY <1>4
  <2>2. PICK b \in Letters : b = Msg("LOGOUTRESPONSE", TRUE, 0, 0, <<>>)
    <3>1. Msg("LOGOUTRESPONSE", TRUE, 0, 0, <<>>) \in Letters
      BY <1>1, NoIds DEF Msg, Letters, Types
    <3> QED
      BY <3>1
  <2>3. job[s].op = "login" /\ inbox' = [inbox EXCEPT ![job[s].user] = @ \o <<a, b>>]
    BY <1>5, <2>1, <2>2 DEF KickUnknown, Now
  <2>4. job[s].user \in Users
    BY <2>3, WorkerIs
  <2>5. <<a, b>> \in Seq(Letters) /\ 1 \in DOMAIN <<a, b>> /\ <<a, b>>[1] = a
    OBVIOUS
  <2>6. Mails(job[s].user, <<a, b>>)
    BY <2>3, <2>4, <2>5 DEF Mails
  <2> QED
    BY <1>1, <2>1, <2>3, <2>5, <2>6, AnswersNow DEF AnswerComes
<1>6. CASE LoginResponse(s)
  <2> DEFINE u == job[s].user
  <2>1. job[s].op = "login" /\ u \in Users
    BY <1>6, WorkerIs DEF LoginResponse, Now
  <2>2. PICK w \in Seq(Letters) :
           inbox' = [inbox EXCEPT ![u] = @ \o (<<Msg("LOGINRESPONSE", TRUE, 0, 0, <<>>)>> \o w)]
    BY <1>6, <2>1, LoginLetters
  <2>3. PICK m \in Letters : m = Msg("LOGINRESPONSE", TRUE, 0, 0, <<>>) /\ m.type = "LOGINRESPONSE"
    BY <1>4
  <2> QED
    BY <1>1, <2>1, <2>2, <2>3, FirstAnswers
<1> QED
  BY <1>2, <1>3, <1>5, <1>6

\* The step with which a worker ends a request has answered it, or an earlier one has.
LEMMA StepsAnswer ==
  ASSUME MailInv, [Next]_vars, NEW s \in Servers
  PROVE  EndsAnswered(s)
<1>1. SUFFICES ASSUME job[s] # Idle, job'[s] = Idle, ~Throws(s) PROVE AnswerComes(s)
  BY DEF EndsAnswered, AnswerComes
<1>2. TypeInv /\ InboxGrows /\ job \in [Servers -> Jobs]
  <2>1. TypeInv /\ Inboxes /\ job \in [Servers -> Jobs]
    BY TypeParts DEF MailInv
  <2> QED
    BY <2>1, NextMail, MailsGrow DEF Sends
<1>3. ~(UNCHANGED vars)
  BY <1>1 DEF vars
<1>4. ASSUME NEW r \in Servers, NEW u \in Users, Ask(r, u) PROVE FALSE
  <2>1. job[r] = Idle /\ \E j : job' = [job EXCEPT ![r] = j]
    BY <1>4 DEF Ask, AskSearch, AskThreads, AskRecords, AskChat, AskFriend, AskConfirm, AskText,
                AskLogout, AskLogin, Accept
  <2> QED
    BY <1>1, <1>2, <2>1
<1>5. ASSUME NEW u \in Users, NEW n \in 1..MaxLogins, Purge(u, n) PROVE FALSE
  BY <1>1, <1>5 DEF Purge
<1>6. ASSUME NEW r \in Servers, Work(r) PROVE AnswerComes(s)
  <2>1. r = s
    BY <1>1, <1>2, <1>6, OwnRequest
  <2> QED
    BY <1>1, <1>2, <1>6, <2>1, ReadersAnswer, FriendsAnswer, LoginsAnswer DEF Work
<1> QED
  BY <1>3, <1>4, <1>5, <1>6 DEF Next

\* Whatever a step does, no worker is done with a request it has not answered.
THEOREM RequestsEndAnswered == Spec => [][\A s \in Servers : EndsAnswered(s)]_vars
<1>1. MailInv /\ [Next]_vars => MailInv'
  BY NextMail
<1>2. MailInv /\ [Next]_vars => [\A s \in Servers : EndsAnswered(s)]_vars
  BY StepsAnswer
<1> QED
  BY InitMail, <1>1, <1>2, PTL DEF Spec
=============================================================================
