---------------------------- MODULE ClientChats ----------------------------
(* What the client knows and shows of a user's friends and chats: the       *)
(* UserAccountManager with its UserChatThreads and MessageBuffers, and the  *)
(* ChattingDlgMainFrame with its lists and pages.  The thread id that the   *)
(* servers gave to a pair of users is that pair.  An action is a message of *)
(* the server, or what the user does to the frame; every widget runs on the *)
(* one thread of the user interface.                                        *)
EXTENDS Integers, SequencesExt

CONSTANTS
  Users,           \* the uuids of the accounts
  Nobody,          \* an empty uuid, or none
  Ids,             \* the ids that the server gives to messages
  NoId,            \* an empty id
  Batches,         \* what a user may type: the lengths of texts, 0 for a picture
  TextBufferSize,  \* TXT_MSG_BUFFER_SIZE
  ContactPage, RequestPage   \* CONTACT_PER_PAGE, FRIENDREQ_PER_PAGE

ASSUME PageAssumption == ContactPage \in Nat \ {0} /\ RequestPage \in Nat \ {0}
ASSUME UserAssumption == IsFiniteSet(Users) /\ Nobody \notin Users
ASSUME BatchAssumption == Batches \subseteq Seq(Nat)

VARIABLES
  client,  \* the process: "up", "hung" in an endless loop, or "crashed"
  me,      \* m_userInfo
  book,    \* the UserAccountManager
  frame,   \* the ChattingDlgMainFrame
  wire,    \* the unique ids of the messages handed to the server
  fresh,   \* the number of unique ids made
  cleared  \* history: the account manager has been cleared

chatVars == <<client, me, book, frame, wire, fresh, cleared>>

Put(f, k, v) == [x \in DOMAIN f \cup {k} |-> IF x = k THEN v ELSE f[x]]
PairId(u, p) == {u, p}

\* m_threadDescLists and m_allChattingSessions grow together: sessions is both.
EmptyBook ==
  [requests |-> <<>>, friends |-> <<>>, data |-> <<>>,
   threadOf |-> <<>>, sessions |-> <<>>, seq |-> 1]

\* clear() forgets neither the threads of the friends nor the sessions.
Forgotten(b) == [b EXCEPT !.requests = <<>>, !.friends = <<>>, !.data = <<>>]

NoCard == [shown |-> FALSE, card |-> Nobody]
NoFrame == [mode |-> "none"]
NewFrame ==
  [mode |-> "chats", stack |-> "chatting", cur |-> Nobody, profile |-> Nobody,
   widgets |-> <<>>, contacts |-> <<>>, contactsFrom |-> 0,
   requests |-> <<>>, requestsFrom |-> 0, loading |-> FALSE, found |-> NoCard,
   asked |-> {}]  \* the threads whose records are asked for

-----------------------------------------------------------------------------
(* MessageBuffer and UserChatThread.  A record stays where it was inserted, *)
(* so its position stands for the iterator to it; it is local until it has  *)
(* an id of the server.                                                     *)
Record(uid, id, from, to) == [uid |-> uid, id |-> id, from |-> from, to |-> to]
NewThread(p) ==
  [peer |-> p, items |-> <<>>, local |-> <<>>, verified |-> <<>>,
   last |-> FALSE, lastId |-> NoId]

\* Variant of the code that the properties below reject: _insert without the
\* rollback.
InsertMessage_NoRollback(t, x) ==
  LET at == Len(t.items) + 1
      u  == [t EXCEPT !.last = TRUE, !.items = Append(@, x),
                      !.lastId = IF x.id = NoId THEN @ ELSE x.id] IN
  IF x.id = NoId /\ x.uid \notin DOMAIN t.local
  THEN [u EXCEPT !.local = Put(@, x.uid, at)]
  ELSE IF x.id # NoId /\ x.id \notin DOMAIN t.verified
  THEN [u EXCEPT !.verified = Put(@, x.id, at)]
  ELSE u

\* The last message and its id are set even when the record is rolled back.
InsertMessage(t, x) ==
  LET at == Len(t.items) + 1
      u  == [t EXCEPT !.last = TRUE, !.lastId = IF x.id = NoId THEN @ ELSE x.id] IN
  IF x.id = NoId /\ x.uid \notin DOMAIN t.local
  THEN [u EXCEPT !.items = Append(@, x), !.local = Put(@, x.uid, at)]
  ELSE IF x.id # NoId /\ x.id \notin DOMAIN t.verified
  THEN [u EXCEPT !.items = Append(@, x), !.verified = Put(@, x.id, at)]
  ELSE u

\* updateVerificationStatus: the test of the verified ids is the wrong way
\* round, so a promotion never gets past the second insertion.
PromoteLocalToVerified(t, uid, id) ==
  IF uid \in DOMAIN t.local /\ id \in DOMAIN t.verified
  THEN [t EXCEPT !.items[t.local[uid]].id = id]
  ELSE t

-----------------------------------------------------------------------------
(* UserAccountManager.  The friends are in the order in which the unordered *)
(* map lists them, any order after an insertion.                            *)
AddFriends(b, new) ==
  LET all == Range(b.friends) \cup new IN
  IF all = Range(b.friends) THEN {b}
  ELSE {[b EXCEPT !.friends = order] : order \in SetToSeqs(all)}

\* addItem2List for a thread of a friend: only if neither is known.
AddThreadDesc(b, p, id) ==
  IF p \in DOMAIN b.threadOf \/ id \in Range(b.sessions) THEN b
  ELSE [b EXCEPT !.threadOf = Put(@, p, id), !.sessions = Append(@, id)]

\* addItem2List for the messages of a thread.
AddThread(b, id, t) ==
  LET d == AddThreadDesc(b, t.peer, id) IN
  IF id \in DOMAIN b.data THEN d ELSE [d EXCEPT !.data = Put(@, id, t)]

\* _loadSession: the thread at a place of the sessions, if it has data.
Session(b, at) ==
  IF at =< Len(b.sessions) THEN {b.sessions[at]} \cap DOMAIN b.data ELSE {}

\* getAuthFriendList and getFriendRequestList(begin, interval): what is shown
\* next, and where the page after it begins.
NextPage(list, from, size) ==
  LET to == IF from + size >= Len(list) THEN Len(list) ELSE from + size IN
  IF from >= Len(list) THEN [shown |-> <<>>, next |-> from]
                       ELSE [shown |-> SubSeq(list, from + 1, to), next |-> to]

-----------------------------------------------------------------------------
(* The parts of the frame.                                                  *)
LoadLimitedContactsList(f, b) ==
  LET page == NextPage(b.friends, f.contactsFrom, ContactPage) IN
  [f EXCEPT !.contacts = @ \o page.shown, !.contactsFrom = page.next]

\* A request is put on top of those shown before.
LoadLimitedReqList(f, b) ==
  LET page == NextPage(b.requests, f.requestsFrom, RequestPage)
      cards == [i \in DOMAIN page.shown |-> [from |-> page.shown[i], open |-> TRUE]] IN
  [f EXCEPT !.requests = Reverse(cards) \o @, !.requestsFrom = page.next]

AddListWidgetItem(f, id, p) ==
  IF id \in DOMAIN f.widgets THEN f ELSE [f EXCEPT !.widgets = Put(@, id, p)]

\* switchChattingThread asks whether the friend it shows is the friend it
\* shows: from the first friend on, it never switches.
SwitchChattingThread(f, p) == IF f.cur = Nobody THEN [f EXCEPT !.cur = p] ELSE f

Display(f, mode, stack) == [f EXCEPT !.mode = mode, !.stack = stack]

\* A null pointer of m_curFriendIdentity is dereferenced, which crashes or not.
MayCrash == frame.cur = Nobody
Crash ==
  /\ client' = "crashed"
  /\ UNCHANGED <<me, book, frame, wire, fresh, cleared>>

-----------------------------------------------------------------------------
(* Messages of the server.                                                  *)

\* LOGINRESPONSE, a success for u: the frame opens on the requests and the
\* friends that come with it.
LoginResponse(u, requests, friends) ==
  /\ me' = u
  /\ \E b \in AddFriends([book EXCEPT !.requests = @ \o requests], friends) :
       /\ book' = b
       /\ frame' = LoadLimitedContactsList(LoadLimitedReqList(NewFrame, b), b)
  /\ UNCHANGED <<client, wire, fresh, cleared>>

\* slot_search_username, with no card after an error; self is m_info.uuid, which
\* a later login answer may have changed.
SearchResponse(u, self) ==
  /\ frame.loading
  /\ frame' = [frame EXCEPT
       !.loading = FALSE,
       !.found = IF u # Nobody /\ (u = self \/ Contains(book.friends, u))
                 THEN @ ELSE [shown |-> TRUE, card |-> u],
       !.profile = IF u # self /\ Contains(book.friends, u) THEN u ELSE @,
       !.stack = IF u # self /\ Contains(book.friends, u) THEN "profile" ELSE @,
       !.mode = IF u # self /\ Contains(book.friends, u) THEN "contacts" ELSE @]
  /\ UNCHANGED <<client, me, book, wire, fresh, cleared>>

\* FRIENDREINCOMINGREQUEST, from Nobody after an error: the list is shown only
\* if nothing of it was shown before.
IncomingFriendRequest(u) ==
  /\ book' = IF u = Nobody \/ Contains(book.requests, u) THEN book
             ELSE [book EXCEPT !.requests = Append(@, u)]
  /\ frame' = IF frame.requestsFrom = 0 /\ ~(u # Nobody /\ Contains(book.requests, u))
              THEN LoadLimitedReqList(frame, book') ELSE frame
  /\ UNCHANGED <<client, me, wire, fresh, cleared>>

\* FRIENDING_ON_BIDDIRECTIONAL: a new friend p, and the messages they began
\* with, in a thread of its own.
AddAuthFriend(p, hello) ==
  IF Contains(book.friends, p)
  THEN UNCHANGED chatVars
  ELSE LET records == [i \in DOMAIN hello |->
                         Record(<<"own", fresh + i>>, hello[i], p, me)]
           t == FoldLeft(InsertMessage, NewThread(p), records) IN
       \/ MayCrash /\ Crash
       \/ /\ \E b \in AddFriends(book, {p}) : book' = AddThread(b, PairId(me, p), t)
          /\ frame' = SwitchChattingThread(AddListWidgetItem(frame, PairId(me, p), p), p)
          /\ fresh' = fresh + Len(hello)
          /\ UNCHANGED <<client, me, wire, cleared>>

\* TEXTCHATMSGRESPONSE: the server gave an id to a message.
TextMsgResponse(p, uid, id) ==
  /\ PairId(me, p) \in DOMAIN book.data
  /\ book' = [book EXCEPT !.data[PairId(me, p)] = PromoteLocalToVerified(@, uid, id)]
  /\ UNCHANGED <<client, me, frame, wire, fresh, cleared>>

\* TEXTCHATMSGICOMINGREQUEST: the text is stored as a local one, under its id.
TextMsgIncoming(p, id) ==
  /\ book' = IF p \in DOMAIN book.threadOf /\ book.threadOf[p] \in DOMAIN book.data
             THEN [book EXCEPT !.data[book.threadOf[p]] =
                     InsertMessage(@, Record(<<"id", id>>, NoId, p, me))]
             ELSE book
  /\ UNCHANGED <<client, me, frame, wire, fresh, cleared>>

\* PULLCHATTHREADRESPONSE for a page of private chats: what follows is a request
\* for another page, or loadMoreChattingHistory.
PullChatThread(peers, isComplete) ==
  LET Add(b, p) == IF Contains(b.friends, p) THEN AddThreadDesc(b, p, PairId(me, p)) ELSE b
      Show(f, p) == IF Contains(book.friends, p)
                    THEN AddListWidgetItem(f, PairId(me, p), p) ELSE f IN
  /\ peers # <<>>
  /\ book' = FoldLeft(Add, book, peers)
  /\ frame' = [FoldLeft(Show, frame, peers) EXCEPT
                 !.asked = IF isComplete THEN @ ELSE @ \cup Session(book', book.seq)]
  /\ UNCHANGED <<client, me, wire, fresh, cleared>>

\* PULLCHATRECORDRESPONSE: records of a thread, oldest first.  is_complete is
\* read as "load more": after the last page the same is asked again, after any
\* other the records of the next thread.
PullChatRecord(p, id, next, isComplete) ==
  LET thread == PairId(me, p)
      seq    == IF isComplete THEN book.seq ELSE book.seq + 1
      record == Record(<<"own", fresh + 1>>, id, p, me) IN
  /\ thread \in frame.asked
  /\ book' = [book EXCEPT !.data[thread] = [InsertMessage(@, record) EXCEPT !.lastId = next],
                          !.seq = seq]
  /\ frame' = [frame EXCEPT !.asked = IF isComplete THEN @
                                      ELSE (@ \ {thread}) \cup Session(book, seq)]
  /\ fresh' = fresh + 1
  /\ UNCHANGED <<client, me, wire, cleared>>

\* CREATENEWPRIVATECHAT_RESPONSE: a thread without messages.
CreatePrivateChat(p) ==
  /\ Contains(book.friends, p)
  /\ book' = AddThreadDesc(book, p, PairId(me, p))
  /\ frame' = AddListWidgetItem(frame, PairId(me, p), p)
  /\ UNCHANGED <<client, me, wire, fresh, cleared>>

-----------------------------------------------------------------------------
(* What the user does.                                                      *)
FrameChanges(f) ==
  /\ frame' = f
  /\ UNCHANGED <<client, me, book, wire, fresh, cleared>>

\* The side bar and the search line.
DisplayChatList    == FrameChanges(Display(frame, "chats", "chatting"))
DisplayContactList == FrameChanges([frame EXCEPT !.mode = "contacts"])
DisplaySetting     == FrameChanges(Display(frame, "settings", "setting"))
SearchTextChanged  == FrameChanges([frame EXCEPT !.mode = "searching"])

\* slot_search_list_item_clicked: the frame waits for the answer.
SearchUser ==
  /\ frame.mode = "searching"
  /\ FrameChanges([frame EXCEPT !.loading = TRUE])

\* The lower end of a list is reached.
LoadMoreContacts ==
  /\ frame.mode \in {"contacts", "settings"}
  /\ FrameChanges(LoadLimitedContactsList(frame, book))
LoadMoreRequests ==
  /\ frame.stack = "newuser"
  /\ FrameChanges(LoadLimitedReqList(frame, book))

\* The contact list: the first line leads to the requests.
ClickAddNewUser ==
  /\ frame.mode \in {"contacts", "settings"}
  /\ FrameChanges([frame EXCEPT !.stack = "newuser"])
ClickContact(p) ==
  /\ frame.mode \in {"contacts", "settings"}
  /\ Contains(frame.contacts, p)
  /\ FrameChanges([Display(frame, "contacts", "profile") EXCEPT !.profile = p])

\* The buttons of a request vanish with a click; after "add", the dialog opens.
AnswerRequest(i) ==
  /\ frame.stack = "newuser"
  /\ i \in DOMAIN frame.requests
  /\ frame.requests[i].open
  /\ FrameChanges([frame EXCEPT !.requests[i].open = FALSE])

\* slot_chat_list_item_clicked.  A thread with messages came with a friend, so
\* the page shows somebody by then, and nothing is null here.
ClickChat(id) ==
  /\ frame.mode = "chats"
  /\ id \in DOMAIN frame.widgets
  /\ LET p == frame.widgets[id] IN
     /\ p \in DOMAIN book.threadOf
     /\ book.threadOf[p] \in DOMAIN book.data
     /\ FrameChanges(SwitchChattingThread(Display(frame, "chats", "chatting"),
                                          book.data[book.threadOf[p]].peer))

\* slot_switch_chat_item, from the profile of a friend: without a thread one is
\* asked for; the last message of a thread without messages is a null pointer.
SwitchChatItem ==
  LET p == frame.profile IN
  /\ frame.stack = "profile"
  /\ IF p \notin DOMAIN book.threadOf
     THEN UNCHANGED chatVars
     ELSE LET id == book.threadOf[p] IN
          IF id \in DOMAIN book.data /\ book.data[id].last
          THEN FrameChanges(SwitchChattingThread(
                 AddListWidgetItem(Display(frame, "chats", "chatting"), id, p),
                 book.data[id].peer))
          ELSE Crash

\* A text that does not fit sends, instead of the texts before it, the object
\* of the text being written, and leaves that text without its two users.
Collect(batch) ==
  LET Step(s, length) ==
        IF length = 0 THEN s
        ELSE LET full == s.counter + length > TextBufferSize
                 uid == <<"own", fresh + Len(s.records) + 1>> IN
             [counter |-> IF full THEN length ELSE s.counter + length,
              array   |-> IF full THEN {uid} ELSE s.array \cup {uid},
              records |-> Append(s.records,
                            IF full THEN Record(uid, NoId, Nobody, Nobody)
                                    ELSE Record(uid, NoId, me, frame.cur))] IN
  FoldLeft(Step, [counter |-> 0, array |-> {}, records |-> <<>>], batch)

\* on_send_message_clicked: to the friend that the page shows.
SendMessage(batch) ==
  /\ frame.stack = "chatting"
  /\ IF frame.cur = Nobody THEN Crash
     ELSE /\ frame.cur \in DOMAIN book.threadOf
          /\ LET id == book.threadOf[frame.cur]
                 s  == Collect(batch) IN
             /\ book' = IF id \in DOMAIN book.data
                        THEN [book EXCEPT !.data[id] = FoldLeft(InsertMessage, @, s.records)]
                        ELSE book
             /\ wire' = wire \cup s.array
             /\ fresh' = fresh + Len(s.records)
          /\ UNCHANGED <<client, me, frame, cleared>>

\* AddUserNameCardDialog: closed, or left for the request.
CloseCard ==
  /\ frame.found.shown
  /\ FrameChanges([frame EXCEPT !.found = NoCard])

-----------------------------------------------------------------------------
Threads == {PairId(u, p) : u, p \in Users}
Uids == ({"own"} \X Nat) \cup ({"id"} \X Ids)

ChatTypeOK ==
  /\ client \in {"up", "hung", "crashed"}
  /\ me \in Users \cup {Nobody}
  /\ book.requests \in Seq(Users) /\ book.friends \in Seq(Users)
  /\ DOMAIN book.threadOf \subseteq Users /\ Range(book.threadOf) \subseteq Threads
  /\ DOMAIN book.data \subseteq Threads /\ book.sessions \in Seq(Threads)
  /\ wire \subseteq Uids /\ fresh \in Nat /\ cleared \in BOOLEAN
  /\ frame # NoFrame =>
       /\ frame.mode \in {"chats", "contacts", "searching", "settings"}
       /\ frame.stack \in {"chatting", "newuser", "profile", "setting"}
       /\ {frame.cur, frame.profile, frame.found.card} \subseteq Users \cup {Nobody}
       /\ DOMAIN frame.widgets \subseteq Threads /\ frame.asked \subseteq Threads

\* The indexes of a thread lead to the records they were made for, and every
\* record is found through one of them: a message that comes twice is shown
\* once.
Indexed(t) ==
  /\ \A uid \in DOMAIN t.local : t.items[t.local[uid]].uid = uid
  /\ \A id \in DOMAIN t.verified : t.items[t.verified[id]].id = id
  /\ DOMAIN t.items = Range(t.local) \cup Range(t.verified)

\* The maps of the account manager agree with each other and with the frame,
\* until the manager is cleared, which leaves two of them behind: a thread
\* with messages is the thread of its friend, no two friends share one, and
\* the messages in it are between that friend and the user, but for those that
\* an overflow of the buffer left without users.
ChatsAgree ==
  /\ \A id \in DOMAIN book.data : Indexed(book.data[id])
  /\ ~cleared =>
       /\ IsInjective(book.threadOf) /\ IsInjective(book.sessions)
       /\ Range(book.sessions) = Range(book.threadOf)
       /\ \A p \in DOMAIN book.threadOf : Contains(book.friends, p)
       /\ \A id \in DOMAIN book.data :
            LET t == book.data[id] IN
            /\ t.peer \in DOMAIN book.threadOf /\ book.threadOf[t.peer] = id
            /\ \A x \in Range(t.items) : {x.from, x.to} \in {{me, t.peer}, {Nobody}}
       /\ frame # NoFrame =>
            /\ DOMAIN frame.widgets = Range(book.sessions)
            /\ frame.cur # Nobody => frame.cur \in DOMAIN book.threadOf
=============================================================================
