------------------------------ MODULE Backend ------------------------------
(* The servers behind a login: gateway and captcha server (Gateway),        *)
(* balance server (Balance) and resources servers (Uploads) together, with  *)
(* the clients that go from one to the next, up to the chatting server they *)
(* were sent to.                                                            *)
EXTENDS Gateway, Uploads

CONSTANTS
  Tables,     \* the tables Authentication to start from
  Up,         \* the sets of servers that are running at the start
  Connected   \* the connections to resources servers at the start

\* The usernames of a table differ, and so do its e-mails.
ASSUME TablesAssumption ==
  \A table \in Tables :
    /\ table \in Seq([name : Names, email : Emails, password : Callers])
    /\ \A i, k \in DOMAIN table : i # k => /\ table[i].name # table[k].name
                                          /\ table[i].email # table[k].email
ASSUME ConnectedAssumption == Connected \subseteq [Callers -> Resources \cup {NoServer}]
ASSUME UpAssumption == \A up \in Up : up \subseteq Chatting \cup Resources

VARIABLE chatting   \* the chatting server each client is logged in on

vars == <<balanceVars, gatewayVars, uploadVars, chatting>>

TypeOK ==
  /\ BalanceTypeOK
  /\ GatewayTypeOK
  /\ UploadTypeOK
  /\ chatting \in [Callers -> Chatting \cup {NoServer}]

Init ==
  /\ \E up \in Up :
       /\ BalanceInit(up)
       /\ \E connected \in Connected :
            /\ \A c \in Callers : connected[c] \in up \cup {NoServer}
            /\ UploadInit(connected)
  /\ \E table \in Tables : GatewayInit(table)
  /\ chatting = [c \in Callers |-> NoServer]

-----------------------------------------------------------------------------
\* handlingLogin of the chatting server a client was sent to: userLoginToServer,
\* and the counter, under its lock.
HandlingLoginThere(c) ==
  LET h == held[c]
      n == GetValueFromHash(h.server) IN
  /\ chatting[c] = NoServer
  /\ h.server # NoServer
  /\ life[h.server] = "on" /\ running
  /\ held' = [held EXCEPT ![c] = Nothing]
  /\ IF VerifyUserToken(h.uuid, h.token)
     THEN /\ chatting' = [chatting EXCEPT ![c] = h.server]
          /\ SetValue2Hash(h.server, IF n = Missing THEN 1 ELSE n + 1)
          /\ Stir
     ELSE UNCHANGED <<chatting, load, call>>
  /\ UNCHANGED <<registry, seen, token, tokens, raced, life, budget, accounts, captchaVars,
                 nextThread, http, uploadVars>>

\* Its connection ends: decrementConnection.
LeavesChatting(c) ==
  LET s == chatting[c] IN
  /\ s # NoServer
  /\ chatting' = [chatting EXCEPT ![c] = NoServer]
  /\ IF life[s] \in {"on", "uncount"} /\ GetValueFromHash(s) \notin {0, Missing}
     THEN SetValue2Hash(s, GetValueFromHash(s) - 1) /\ Stir
     ELSE UNCHANGED <<load, call>>
  /\ UNCHANGED <<registry, seen, token, tokens, raced, life, budget, gatewayVars, uploadVars>>

-----------------------------------------------------------------------------
Next ==
  \/ BalanceNext /\ ServersEnd /\ UNCHANGED <<gatewayVars, chatting>>
  \/ GatewayNext /\ UNCHANGED <<uploadVars, chatting>>
  \/ UploadNext /\ UNCHANGED <<gatewayVars, chatting>>
  \/ \E c \in Callers : HandlingLoginThere(c) \/ LeavesChatting(c)

Spec == Init /\ [][Next]_vars

Progress(c) ==
  \/ (Handler(c) \/ CheckTimeout(c)) /\ UNCHANGED <<uploadVars, chatting>>
  \/ RegisterUser(c) /\ UNCHANGED <<gatewayVars, uploadVars, chatting>>

\* The io threads and the threads of gRPC run on.
FairSpec == Spec /\ \A c \in Callers : WF_vars(Progress(c))
=============================================================================
