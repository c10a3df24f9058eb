------------------------------- MODULE Client -------------------------------
(* The chatting client: its pages and connections (ClientPages), the frame  *)
(* of a user who is logged in (ClientChats), and the dialogs that the frame *)
(* opens (Tags, Cropper).  The rest of the system is open: the gateway may  *)
(* answer anything, and the server may send any message that the client has *)
(* a handler for, whenever a connection is there.                           *)
EXTENDS ClientPages, Tags, Cropper

CONSTANTS
  Accounts, \* what the server knows of a user who logs in
  Hellos,   \* the messages that come with a new friend, by their ids
  Budgets   \* how often each kind of thing may happen, a record for a scenario

ASSUME AccountAssumption ==
  \A a \in Accounts :
    a.uuid \in Users /\ a.requests \in Seq(Users) /\ a.friends \subseteq Users
ASSUME HelloAssumption == Hellos \subseteq Seq(Ids)

VARIABLE budget

vars == <<pageVars, chatVars, tagVars, cropVars, budget>>

TypeOK == ChatTypeOK /\ PageTypeOK /\ TagTypeOK /\ TagsAgree /\ CropTypeOK

Init == PageInit /\ TagInit /\ CropInit /\ budget \in Budgets

Spend(kind) == budget[kind] > 0 /\ budget' = [budget EXCEPT ![kind] = @ - 1]

Others == Users \ {me}
Lists(set) == {<<>>} \cup {<<x>> : x \in set}
              \cup {<<pair[1], pair[2]>> : pair \in {q \in set \X set : q[1] # q[2]}}

-----------------------------------------------------------------------------
\* What holds the user up: an alert, or a dialog that is modal.
AtPage == alerts = 0 /\ ~open /\ dialog = NoDialog
AtFrame ==
  /\ client = "up" /\ AtPage
  /\ frame # NoFrame /\ ~frame.loading /\ ~frame.found.shown

UsePage ==
  /\ AtPage
  /\ \/ /\ Spend("http")
        /\ \/ OnLoginButtonClicked
           \/ \E valid \in BOOLEAN : OnVerificationButtonClicked(valid)
           \/ OnConfirmButtonClicked \/ OnVerifyClicked \/ OnSubmitPasswdClicked
     \/ /\ UNCHANGED budget
        /\ \/ \E from, to \in {"login", "register", "reset"} : SwitchPage(from, to)
           \/ OnGoBackLogin2Clicked
  /\ UNCHANGED <<tagVars, cropVars>>

Timers ==
  /\ \/ Timeout /\ UNCHANGED budget
     \/ WaitingTimeout /\ UNCHANGED budget
     \/ HeartBeat /\ UNCHANGED budget
  /\ UNCHANGED <<tagVars, cropVars>>

Gateway ==
  /\ \/ \E kind \in Kinds, good \in BOOLEAN : RegFinished(kind, good) \/ ResetFinished(kind, good)
     \/ LoginFailed
     \/ \E u \in Users : LoginFinished(u)
  /\ UNCHANGED <<tagVars, cropVars, budget>>

\* The dialogs of a frame go with it, but not the cropper, which has no parent.
\* None is open when the answer to a login comes.
CloseDialogs == IF dialog = NoDialog THEN UNCHANGED tagVars ELSE CloseDialog

Connection ==
  /\ \/ Connected /\ UNCHANGED <<tagVars, budget>>
     \/ (Disconnected \/ (Receives /\ LogoutFailed)) /\ Spend("loss") /\ UNCHANGED tagVars
     \/ ReceiveChunk /\ Spend("chunk") /\ UNCHANGED tagVars
     \/ AlertClosed /\ CloseDialogs /\ UNCHANGED budget
     \/ Receives /\ LoginRefused /\ UNCHANGED <<tagVars, budget>>
     \/ /\ Receives
        /\ \E a \in Accounts : LoginAnswered(a.uuid, a.requests, a.friends)
        /\ UNCHANGED <<tagVars, budget>>
  /\ UNCHANGED cropVars

-----------------------------------------------------------------------------
\* The handlers of m_callbacks: each parses a message and hands what it finds
\* to the frame, an error (Nobody) only where the frame is told of it.
SearchUsernameResponse == \E u \in Users \cup {Nobody} : SearchResponse(u, uuid)
FriendReincomingRequest == \E u \in Others \cup {Nobody} : IncomingFriendRequest(u)
FriendingOnBiddirectional == \E p \in Others, hello \in Hellos : AddAuthFriend(p, hello)
TextChatMsgResponse == \E p \in Others, uid \in wire, id \in Ids : TextMsgResponse(p, uid, id)
TextChatMsgIncomingRequest == \E p \in Others, id \in Ids : TextMsgIncoming(p, id)
PullChatThreadResponse ==
  \E peers \in Lists(Others), isComplete \in BOOLEAN : PullChatThread(peers, isComplete)
PullChatRecordResponse ==
  \E p \in Others, id \in Ids, isComplete \in BOOLEAN : PullChatRecord(p, id, id, isComplete)
CreateNewPrivateChatResponse == \E p \in Others : CreatePrivateChat(p)

Server ==
  /\ Receives /\ frame # NoFrame
  /\ Spend("server")
  /\ \/ SearchUsernameResponse \/ FriendReincomingRequest \/ FriendingOnBiddirectional
     \/ TextChatMsgResponse \/ TextChatMsgIncomingRequest
     \/ PullChatThreadResponse \/ PullChatRecordResponse \/ CreateNewPrivateChatResponse
  /\ UNCHANGED <<pageVars, tagVars, cropVars>>

UseFrame ==
  /\ AtFrame
  /\ Spend("user")
  /\ \/ /\ UNCHANGED tagVars
        /\ \/ DisplayChatList \/ DisplayContactList \/ DisplaySetting
           \/ SearchTextChanged \/ SearchUser
           \/ LoadMoreContacts \/ LoadMoreRequests
           \/ ClickAddNewUser \/ \E p \in Users : ClickContact(p)
           \/ \E id \in Threads : ClickChat(id)
           \/ SwitchChatItem
           \/ \E batch \in Batches : SendMessage(batch)
     \* "ignore" does nothing else, "add" opens the dialog that grants a request
     \/ \E i \in DOMAIN frame.requests :
          /\ AnswerRequest(i)
          /\ UNCHANGED tagVars \/ OpenDialog("authenticate", frame.requests[i].from)
  /\ UNCHANGED <<pageVars, cropVars>>

\* The card of the user that a search found: closed, or left for the dialog
\* that asks for a friendship.
UseCard ==
  /\ client = "up" /\ AtPage /\ frame # NoFrame
  /\ CloseCard
  /\ \/ UNCHANGED tagVars
     \/ frame.found.card # Nobody /\ OpenDialog("request", frame.found.card)
  /\ UNCHANGED <<pageVars, cropVars, budget>>

UseDialog ==
  /\ client = "up" /\ alerts = 0
  /\ \/ TagEdit /\ Spend("tag")
     \/ CloseDialog /\ UNCHANGED budget
  /\ UNCHANGED <<chatVars, pageVars, cropVars>>

\* The settings page opens the cropper.
UseCropper ==
  /\ client = "up" /\ alerts = 0
  /\ CropNext
  /\ IF open THEN UNCHANGED budget
     ELSE AtFrame /\ frame.stack = "setting" /\ Spend("crop")
  /\ UNCHANGED <<chatVars, pageVars, tagVars>>

Next ==
  \/ UsePage \/ Timers \/ Gateway \/ Connection
  \/ Server \/ UseFrame \/ UseCard \/ UseDialog \/ UseCropper

Spec == Init /\ [][Next]_vars
=============================================================================
