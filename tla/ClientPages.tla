---------------------------- MODULE ClientPages ----------------------------
(* How the client gets from one page to another: the MainWindow with its    *)
(* LoginInterface, registerinterface, ResetPasswdInterface and the frame of *)
(* ClientChats, the HTTP requests to the gateway (HttpNetworkConnection)    *)
(* and the connection to a chatting server (TCPNetworkConnection).  Pages,  *)
(* answers and signals share one thread; an alert runs an event loop of its *)
(* own, in which only the user is held up.                                  *)
EXTENDS ClientChats

CONSTANTS
  Countdown,   \* m_countdown of a page that was successful
  WaitTime     \* the countdown of the verification button

ASSUME CountdownAssumption == Countdown \in Nat \ {0} /\ WaitTime \in Nat \ {0}

VARIABLES
  page,      \* the central widget
  sub,       \* the page of its stackedWidget: "info", "password" or "done"
  button,    \* login_button is enabled
  left,      \* m_counter: the seconds until the page returns to the login
  waiting,   \* the seconds until the verification button is enabled again
  pending,   \* the HTTP requests on their way, by kind
  socket,    \* m_chatting_server_socket
  stream,    \* the receiving node: "aligned", "split" with a header only, "full"
  uuid,      \* m_info.uuid
  asked,     \* whose login the chatting server was asked for
  alerts     \* how many "Offline Alert" boxes are open

pageVars == <<page, sub, button, left, waiting, pending, socket, stream, uuid, asked, alerts>>

Kinds == {"verification", "registeration", "exists", "reset", "login"}

PageInit ==
  /\ client = "up" /\ me = Nobody /\ book = EmptyBook /\ frame = NoFrame
  /\ wire = {} /\ fresh = 0 /\ cleared = FALSE
  /\ page = "login" /\ sub = "info" /\ button = TRUE
  /\ left = Countdown /\ waiting = 0
  /\ pending = [k \in Kinds |-> 0]
  /\ socket = "closed" /\ stream = "aligned"
  /\ uuid = Nobody /\ asked = Nobody /\ alerts = 0

\* The new page is a new widget: it starts afresh, and the one before is gone.
ShowPage(p) ==
  /\ page' = p /\ sub' = "info" /\ button' = TRUE
  /\ left' = Countdown /\ waiting' = 0

UserAt(p) == client = "up" /\ alerts = 0 /\ page = p

-----------------------------------------------------------------------------
(* The pages before the login.                                              *)
PostHttpRequest(kind) == pending' = [pending EXCEPT ![kind] = @ + 1]

OnLoginButtonClicked ==
  /\ UserAt("login") /\ button
  /\ PostHttpRequest("login")
  /\ button' = FALSE
  /\ UNCHANGED <<chatVars, page, sub, left, waiting, socket, stream, uuid, asked, alerts>>

\* Leaving a page: the login page for the two others, and those for the login
\* page, by a button or when the time is up.
SwitchPage(from, to) ==
  /\ UserAt(from)
  /\ from # to /\ "login" \in {from, to}
  /\ {from, to} \subseteq {"login", "register", "reset"}
  /\ ShowPage(to)
  /\ UNCHANGED <<chatVars, pending, socket, stream, uuid, asked, alerts>>

\* The timer of a successful page; it runs in the loop of an alert, too.
Timeout ==
  /\ client = "up"
  /\ page \in {"register", "reset"} /\ sub = "done"
  /\ IF left > 1 THEN left' = left - 1 /\ UNCHANGED <<page, sub, button, waiting>>
                 ELSE ShowPage("login")
  /\ UNCHANGED <<chatVars, pending, socket, stream, uuid, asked, alerts>>

\* CountDownButton: a click disables it for a while, and asks for a code if the
\* e-mail passes the check.
OnVerificationButtonClicked(valid) ==
  /\ UserAt("register") /\ sub = "info" /\ waiting = 0
  /\ waiting' = WaitTime
  /\ IF valid THEN PostHttpRequest("verification") ELSE UNCHANGED pending
  /\ UNCHANGED <<chatVars, page, sub, button, left, socket, stream, uuid, asked, alerts>>

WaitingTimeout ==
  /\ client = "up" /\ waiting > 0
  /\ waiting' = waiting - 1
  /\ UNCHANGED <<chatVars, page, sub, button, left, pending, socket, stream, uuid, asked, alerts>>

\* The other buttons send what passes the checks of Tools.
Submit(kind) ==
  /\ client = "up" /\ alerts = 0
  /\ PostHttpRequest(kind)
  /\ UNCHANGED <<chatVars, page, sub, button, left, waiting, socket, stream, uuid, asked, alerts>>

OnConfirmButtonClicked == page = "register" /\ sub = "info" /\ Submit("registeration")
OnVerifyClicked        == page = "reset" /\ sub = "info" /\ Submit("exists")
OnSubmitPasswdClicked  == page = "reset" /\ sub = "password" /\ Submit("reset")

OnGoBackLogin2Clicked ==
  /\ UserAt("reset") /\ sub = "password"
  /\ sub' = "info"
  /\ UNCHANGED <<chatVars, page, button, left, waiting, pending, socket, stream, uuid, asked, alerts>>

-----------------------------------------------------------------------------
(* The answers to HTTP requests.  They go to the page of their kind that is *)
(* there when they come, which need not be the one that asked.              *)
Answered(kind) ==
  /\ client = "up" /\ pending[kind] > 0
  /\ pending' = [pending EXCEPT ![kind] = @ - 1]

\* A success turns to the next page of the widget; nothing but a label tells of
\* a failure.
RegisterSuccess(kind) == IF kind = "registeration" THEN "done" ELSE sub
ResetSuccess(kind) == IF kind = "exists" THEN "password" ELSE "done"

RegFinished(kind, good) ==
  /\ kind \in {"verification", "registeration"}
  /\ Answered(kind)
  /\ sub' = IF good /\ page = "register" THEN RegisterSuccess(kind) ELSE sub
  /\ UNCHANGED <<chatVars, page, button, left, waiting, socket, stream, uuid, asked, alerts>>

ResetFinished(kind, good) ==
  /\ kind \in {"exists", "reset"}
  /\ Answered(kind)
  /\ sub' = IF good /\ page = "reset" THEN ResetSuccess(kind) ELSE sub
  /\ UNCHANGED <<chatVars, page, button, left, waiting, socket, stream, uuid, asked, alerts>>

\* Variant of the code that the properties below reject: the button stays
\* disabled when the login fails.
LoginFailed_StaysDisabled ==
  /\ Answered("login")
  /\ UNCHANGED <<chatVars, page, sub, button, left, waiting, socket, stream, uuid, asked, alerts>>

\* The button of a login that failed is enabled again.
LoginFailed ==
  /\ Answered("login")
  /\ button' = (button \/ page = "login")
  /\ UNCHANGED <<chatVars, page, sub, left, waiting, socket, stream, uuid, asked, alerts>>

\* SERVICE_LOGINDISPATCH: the account is set even when the socket is in use
\* already, and connectToHost then does nothing.
LoginFinished(u) ==
  /\ Answered("login")
  /\ IF page = "login"
     THEN /\ uuid' = u
          /\ socket' = IF socket = "closed" THEN "connecting" ELSE socket
     ELSE UNCHANGED <<uuid, socket>>
  /\ UNCHANGED <<chatVars, page, sub, button, left, waiting, stream, asked, alerts>>

-----------------------------------------------------------------------------
(* The connection.                                                          *)

\* Only a login page that is there then asks the server for the login.
Connected ==
  /\ client = "up" /\ socket = "connecting"
  /\ socket' = "connected"
  /\ asked' = IF page = "login" THEN uuid ELSE asked
  /\ UNCHANGED <<chatVars, page, sub, button, left, waiting, pending, stream, uuid, alerts>>

\* The server closes the connection, or it cannot be made: the account manager
\* is cleared and an alert opens, behind which the frame goes on.
Disconnected ==
  /\ client = "up" /\ socket # "closed"
  /\ socket' = "closed"
  /\ button' = (button \/ page = "login")
  /\ me' = Nobody /\ book' = Forgotten(book) /\ cleared' = TRUE
  /\ uuid' = Nobody /\ asked' = Nobody
  /\ alerts' = alerts + 1
  /\ UNCHANGED <<client, frame, wire, fresh, page, sub, left, waiting, pending, stream>>

AlertClosed ==
  /\ client = "up" /\ alerts > 0
  /\ alerts' = alerts - 1
  /\ ShowPage("login")
  /\ frame' = NoFrame
  /\ UNCHANGED <<client, me, book, wire, fresh, cleared, pending, socket, stream, uuid, asked>>

\* sendHeartBeat of a frame, every ten seconds: nobody is a null pointer.
HeartBeat ==
  /\ client = "up" /\ frame # NoFrame
  /\ me = Nobody /\ Crash
  /\ UNCHANGED pageVars

\* LOGINRESPONSE: a refusal changes nothing.
LoginAnswered(u, requests, friends) ==
  /\ asked = u
  /\ asked' = Nobody
  /\ LoginResponse(u, requests, friends)
  /\ ShowPage("chatting")
  /\ UNCHANGED <<pending, socket, stream, uuid, alerts>>

LoginRefused ==
  /\ asked # Nobody
  /\ asked' = Nobody
  /\ UNCHANGED <<chatVars, page, sub, button, left, waiting, pending, socket, stream, uuid, alerts>>

\* LOGOUTRESPONSE: a success changes nothing, and the server closes; an error
\* logs out at once.
LogoutFailed == Disconnected

\* The receive loop gets a chunk that is not one whole message.  Two messages
\* in a chunk: the header of the second is never read, so both are lost, or the
\* loop does not end.  A part of a message is dropped but for its header.
ReceiveChunk ==
  /\ client = "up" /\ socket = "connected"
  /\ \/ stream = "aligned" /\ stream' \in {"split", "full"} /\ UNCHANGED client
     \* the chunk is too short, is taken for the body, and more of it is left
     \/ stream = "split" /\ stream' \in {"split", "aligned", "full"} /\ UNCHANGED client
     \/ stream = "full" /\ UNCHANGED <<stream, client>>
     \/ stream # "split" /\ client' = "hung" /\ UNCHANGED stream
     \* fewer bytes than a header: the body that is not there is read
     \/ stream = "split" /\ client' \in {"hung", "crashed"} /\ UNCHANGED stream
  /\ UNCHANGED <<me, book, frame, wire, fresh, cleared, page, sub, button, left, waiting,
                 pending, socket, uuid, asked, alerts>>

\* A message is handled if it comes alone in a chunk and nothing was left over.
Receives == client = "up" /\ socket = "connected" /\ stream = "aligned"

-----------------------------------------------------------------------------
PageTypeOK ==
  /\ page \in {"login", "register", "reset", "chatting"}
  /\ sub \in {"info", "password", "done"}
  /\ button \in BOOLEAN /\ left \in 1 .. Countdown /\ waiting \in 0 .. WaitTime
  /\ pending \in [Kinds -> Nat] /\ alerts \in Nat
  /\ socket \in {"closed", "connecting", "connected"}
  /\ stream \in {"aligned", "split", "full"}
  /\ {uuid, asked} \subseteq Users \cup {Nobody}

\* The pages fit the connection: the login button is disabled only while an
\* answer or the end of a connection will enable it; who is shown a frame is
\* logged in over a connection that is there, or an alert tells him that it
\* is not; and nobody is logged in without a connection.
NobodyIsLockedOut ==
  client = "up" =>
    /\ (page = "login" /\ ~button) => (pending["login"] > 0 \/ socket # "closed")
    /\ (frame # NoFrame) <=> (page = "chatting")
    /\ (page = "chatting") => (me # Nobody \/ alerts > 0)
    /\ (me # Nobody) => (socket = "connected" /\ uuid # Nobody)
=============================================================================
