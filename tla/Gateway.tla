------------------------------ MODULE Gateway ------------------------------
(* The gateway server: its HTTP connections on a pool of io threads         *)
(* (GateServer.cpp, HttpConnection.cpp), the handlers of HandleMethod.cpp   *)
(* over the table Authentication and the codes in Redis, with the captcha   *)
(* server (verificationserver.js) and the balance server they call.  A      *)
(* handler runs to its end on the io thread of its connection, calls to     *)
(* other servers included.                                                  *)
EXTENDS Balance, Sequences

CONSTANTS
  Names,      \* usernames
  Emails,
  IoThreads,  \* 0..n-1
  NoThread

\* The uuids are those that Authentication may give, and the threads are numbered.
ASSUME UuidsAssumption ==
  /\ IsFiniteSet(Names)
  /\ 1..Cardinality(Names) \subseteq Uuids
  /\ 0 \notin Uuids
ASSUME ThreadsAssumption ==
  /\ IsFiniteSet(IoThreads)
  /\ IoThreads # {}
  /\ IoThreads = 0..Cardinality(IoThreads) - 1

VARIABLES
  accounts,   \* Authentication: <<[name, email, password]>>, the uuid is the position
  codes,      \* Redis: the code of an e-mail, and whether it expires
  mailed,     \* the last code each mailbox got
  generated,  \* the number of codes generated
  nextThread, \* m_nextIndex of IOServicePool
  http,       \* the HTTP connection of each client
  held        \* what a client's login page was answered

gatewayVars == <<accounts, codes, mailed, generated, nextThread, http, held>>
captchaVars == <<codes, mailed, generated>>
tables == <<accounts, captchaVars, held>>

Paths == {"get_verification", "post_registration", "check_accountexists", "reset_password",
          "trylogin_server", "other"}
NoConnection == [step |-> "none", on |-> NoThread, path |-> "other", name |-> 0, email |-> 0,
                 code |-> 0, password |-> 0, uuid |-> 0, ok |-> FALSE]
Nothing == [uuid |-> 0, token |-> 0, server |-> NoServer]
Steps == {"none", "open", "sent", "handle", "insert", "uuid", "captcha", "code", "mail",
          "hang", "login", "rpc", "answer"}

GatewayTypeOK ==
  /\ \A i \in DOMAIN accounts : accounts[i] \in [name : Names, email : Emails, password : Callers]
  /\ \A i, k \in DOMAIN accounts : i # k => /\ accounts[i].name # accounts[k].name
                                            /\ accounts[i].email # accounts[k].email
  /\ codes \in [Emails -> [code : 0..generated, ttl : BOOLEAN]]
  /\ mailed \in [Emails -> 0..generated]
  /\ nextThread \in IoThreads
  /\ \A c \in Callers : /\ http[c].step \in Steps
                        /\ http[c].path \in Paths
                        /\ http[c].on \in IoThreads \cup {NoThread}
                        /\ http[c].uuid \in {0} \cup DOMAIN accounts
  /\ held \in [Callers -> [uuid : {0} \cup Uuids, token : 0..tokens, server : Chatting \cup {NoServer}]]

GatewayInit(table) ==
  /\ accounts = table
  /\ codes = [e \in Emails |-> [code |-> 0, ttl |-> FALSE]]
  /\ mailed = [e \in Emails |-> 0]
  /\ generated = 0
  /\ nextThread = 0
  /\ http = [c \in Callers |-> NoConnection]
  /\ held = [c \in Callers |-> Nothing]

At(c, step) == http[c].step = step
GoTo(c, step) == http' = [http EXCEPT ![c].step = step]

\* The handler of c has written its body.
Respond(c, ok) == http' = [http EXCEPT ![c].step = "answer", ![c].ok = ok]

InHandler == {"handle", "insert", "uuid", "captcha", "code", "mail", "hang", "login", "rpc"}
ThreadIsFree(c) == \A d \in Callers : http[d].on = http[c].on => http[d].step \notin InHandler

-----------------------------------------------------------------------------
(* Connections                                                             *)

\* handleAccept: the next io_context, start_service, and serverStart again.
HandleAccept(c) ==
  /\ Request("http")
  /\ At(c, "none")
  /\ http' = [http EXCEPT ![c] = [NoConnection EXCEPT !.step = "open", !.on = nextThread]]
  /\ nextThread' = (nextThread + 1) % Cardinality(IoThreads)
  /\ UNCHANGED <<registry, seen, redis, users, life, call, tables>>

\* The client's request.  A code is the one mailed to the client, or a wrong one.
SendRequest(c) ==
  /\ At(c, "open")
  /\ \/ GoTo(c, "sent")          \* GET, an unknown path or a body that does not parse
     \/ \E e \in Emails :
          http' = [http EXCEPT ![c] = [@ EXCEPT !.step = "sent", !.path = "get_verification",
                                                !.email = e]]
     \/ \E n \in Names, e \in Emails, p \in {"check_accountexists", "reset_password"} :
          http' = [http EXCEPT ![c] = [@ EXCEPT !.step = "sent", !.path = p, !.name = n,
                                                !.email = e, !.password = c]]
     \/ \E n \in Names, e \in Emails : \E k \in {0, mailed[e]} :
          http' = [http EXCEPT ![c] = [@ EXCEPT !.step = "sent", !.path = "post_registration",
                                                !.name = n, !.email = e, !.password = c, !.code = k]]
     \/ \E n \in Names, p \in Callers :
          http' = [http EXCEPT ![c] = [@ EXCEPT !.step = "sent", !.path = "trylogin_server",
                                                !.name = n, !.password = p]]
  /\ UNCHANGED <<balanceVars, nextThread, tables>>

\* The timer closes the socket of a client that has not sent its request, if its
\* thread is not in a handler.
CheckTimeout(c) ==
  /\ At(c, "open")
  /\ ThreadIsFree(c)
  /\ http' = [http EXCEPT ![c] = NoConnection]
  /\ UNCHANGED <<balanceVars, nextThread, tables>>

\* Variant of the code that the properties below reject: a request for an unknown
\* path is dropped, without the answer of not_found.
ProcessRequest_Drops(c) ==
  /\ At(c, "sent")
  /\ ThreadIsFree(c)
  /\ CASE http[c].path = "other" -> GoTo(c, "hang")
       [] http[c].path = "get_verification" -> GoTo(c, "captcha")
       [] http[c].path = "trylogin_server" -> GoTo(c, "login")
       [] OTHER -> GoTo(c, "handle")
  /\ UNCHANGED <<balanceVars, nextThread, tables>>

\* activate_receiver's handler: process_request.
ProcessRequest(c) ==
  /\ At(c, "sent")
  /\ ThreadIsFree(c)
  /\ CASE http[c].path = "other" -> Respond(c, FALSE)
       [] http[c].path = "get_verification" -> GoTo(c, "captcha")
       [] http[c].path = "trylogin_server" -> GoTo(c, "login")
       [] OTHER -> GoTo(c, "handle")
  /\ UNCHANGED <<balanceVars, nextThread, tables>>

\* write_response: the client has its answer, and keeps that of a login.
WriteResponse(c) ==
  /\ At(c, "answer")
  /\ http' = [http EXCEPT ![c] = NoConnection]
  /\ held' = [held EXCEPT ![c] = IF http[c].path = "trylogin_server" /\ http[c].ok
                                 THEN [uuid |-> http[c].uuid, token |-> call[c].token,
                                       server |-> call[c].min]
                                 ELSE @]
  /\ call' = [call EXCEPT ![c] = NoCall]
  /\ UNCHANGED <<registry, seen, redis, users, life, budget, nextThread, accounts, captchaVars>>

-----------------------------------------------------------------------------
(* The table Authentication (MySQLConnection.cpp of the gateway)           *)

CheckAccountLogin(n, p) == \E i \in DOMAIN accounts : accounts[i].name = n /\ accounts[i].password = p

CheckAccountAvailability(n, e) ==
  \E i \in DOMAIN accounts : accounts[i].name = n /\ accounts[i].email = e

\* INSERT: a username or an e-mail that is there already makes it fail.
CreateNewUser(n, e, p) ==
  accounts' = IF \E i \in DOMAIN accounts : accounts[i].name = n \/ accounts[i].email = e
              THEN accounts
              ELSE Append(accounts, [name |-> n, email |-> e, password |-> p])

UpdateUserPasswd(n, e, p) ==
  accounts' = [i \in DOMAIN accounts |->
    IF accounts[i].name = n /\ accounts[i].email = e
    THEN [accounts[i] EXCEPT !.password = p] ELSE accounts[i]]

GetUuidByName(n) ==
  LET I == {i \in DOMAIN accounts : accounts[i].name = n} IN
  IF I = {} THEN 0 ELSE CHOOSE i \in I : TRUE

-----------------------------------------------------------------------------
(* Handlers                                                                *)

CheckAccountExists(c) ==
  /\ At(c, "handle") /\ http[c].path = "check_accountexists"
  /\ Respond(c, CheckAccountAvailability(http[c].name, http[c].email))
  /\ UNCHANGED <<balanceVars, nextThread, tables>>

\* The code is looked up, and then the pair of username and e-mail; the code is
\* not taken away.
PostRegistration(c) ==
  LET e == http[c].email IN
  /\ At(c, "handle") /\ http[c].path = "post_registration"
  /\ IF \/ codes[e].code = 0 \/ codes[e].code # http[c].code
        \/ CheckAccountAvailability(http[c].name, e)
     THEN Respond(c, FALSE)
     ELSE GoTo(c, "insert")
  /\ UNCHANGED <<balanceVars, nextThread, tables>>

\* registerNewUser does not look at what its INSERT did.
RegisterNewUser(c) ==
  /\ At(c, "insert")
  /\ CreateNewUser(http[c].name, http[c].email, http[c].password)
  /\ GoTo(c, "uuid")
  /\ UNCHANGED <<balanceVars, nextThread, captchaVars, held>>

GetUuid(c) ==
  LET x == GetUuidByName(http[c].name) IN
  /\ At(c, "uuid")
  /\ http' = [http EXCEPT ![c].step = "answer", ![c].uuid = x, ![c].ok = (x # 0)]
  /\ UNCHANGED <<balanceVars, nextThread, tables>>

\* alterUserPassword.
ResetPassword(c) ==
  /\ At(c, "handle") /\ http[c].path = "reset_password"
  /\ Respond(c, CheckAccountAvailability(http[c].name, http[c].email))
  /\ UpdateUserPasswd(http[c].name, http[c].email, http[c].password)
  /\ UNCHANGED <<balanceVars, nextThread, captchaVars, held>>

\* The account's password and uuid, and the call of addNewUserToServer.
TryLogin(c) ==
  LET x == GetUuidByName(http[c].name) IN
  /\ At(c, "login")
  /\ IF CheckAccountLogin(http[c].name, http[c].password)
     THEN /\ http' = [http EXCEPT ![c].step = "rpc", ![c].uuid = x]
          /\ AddNewUserToServer(c, x)
     ELSE Respond(c, FALSE) /\ UNCHANGED balanceVars
  /\ UNCHANGED <<nextThread, tables>>

LoginAnswer(c) ==
  /\ At(c, "rpc")
  /\ call[c].step = "done"
  /\ Respond(c, call[c].ok)
  /\ UNCHANGED <<balanceVars, nextThread, tables>>

-----------------------------------------------------------------------------
(* The captcha server                                                      *)

\* EXISTS.  A code that is still there: the call is not answered, and it has no
\* deadline.
CheckKey(c) ==
  /\ At(c, "captcha")
  /\ GoTo(c, IF codes[http[c].email].code # 0 THEN "hang" ELSE "code")
  /\ UNCHANGED <<balanceVars, nextThread, tables>>

\* The call may be one of two for an e-mail that found no code.
GenerateCode(c) ==
  /\ At(c, "code")
  /\ generated' = generated + 1
  /\ codes' = [codes EXCEPT ![http[c].email] = [code |-> generated', ttl |-> FALSE]]
  /\ http' = [http EXCEPT ![c].step = "mail", ![c].code = generated']
  /\ UNCHANGED <<balanceVars, nextThread, accounts, mailed, held>>

\* redis.expire, for which nobody waits.
SetValueExpiracy(e) ==
  /\ codes[e].code # 0 /\ ~codes[e].ttl
  /\ codes' = [codes EXCEPT ![e].ttl = TRUE]
  /\ UNCHANGED <<balanceVars, accounts, mailed, generated, nextThread, http, held>>

CodeExpires(e) ==
  /\ codes[e].ttl
  /\ codes' = [codes EXCEPT ![e] = [code |-> 0, ttl |-> FALSE]]
  /\ UNCHANGED <<balanceVars, accounts, mailed, generated, nextThread, http, held>>

GenerateEmail(c) ==
  /\ At(c, "mail")
  /\ mailed' = [mailed EXCEPT ![http[c].email] = http[c].code]
  /\ Respond(c, TRUE)
  /\ UNCHANGED <<balanceVars, nextThread, accounts, codes, generated, held>>

\* The callback of sendMail names a variable that is not there: the process ends,
\* and every call in it fails.
SendMailFails(c) ==
  /\ At(c, "mail")
  /\ Fault("failure")
  /\ http' = [d \in Callers |-> IF http[d].step \in {"captcha", "code", "mail", "hang"}
                                THEN [http[d] EXCEPT !.step = "answer", !.ok = FALSE]
                                ELSE http[d]]
  /\ UNCHANGED <<registry, seen, redis, users, life, call, nextThread, tables>>

-----------------------------------------------------------------------------
Handler(c) ==
  \/ ProcessRequest(c) \/ WriteResponse(c) \/ CheckAccountExists(c) \/ PostRegistration(c)
  \/ RegisterNewUser(c) \/ GetUuid(c) \/ ResetPassword(c) \/ TryLogin(c) \/ LoginAnswer(c)
  \/ CheckKey(c) \/ GenerateCode(c) \/ GenerateEmail(c)

GatewayNext ==
  \/ \E c \in Callers : HandleAccept(c) \/ SendRequest(c) \/ CheckTimeout(c) \/ Handler(c)
                        \/ SendMailFails(c)
  \/ \E e \in Emails : SetValueExpiracy(e) \/ CodeExpires(e)

-----------------------------------------------------------------------------
(* Properties                                                              *)

\* The token a login page was answered is the one LoginUser and LogoutUser verify,
\* whichever logins of the user come later (RegisterUser, verifyUserToken); except
\* for a user two of whose first logins found no token at one time.
AdmittedIsAccepted ==
  \A c \in Callers : LET h == held[c] IN
    h.uuid \notin {0} \cup raced => VerifyUserToken(h.uuid, h.token)

\* Every connection the gateway accepts is answered or closed, whatever became of
\* the balance server meanwhile (write_response, check_timeout); except that a
\* captcha call that is never answered keeps its io thread for good.
Blocked(c) == \E d \in Callers : http[d].on = http[c].on /\ http[d].path = "get_verification"
                                 /\ http[d].step = "hang"
ConnectionsEnd == \A c \in Callers : ~At(c, "none") ~> (At(c, "none") \/ Blocked(c))
=============================================================================
