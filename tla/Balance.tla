------------------------------ MODULE Balance ------------------------------
(* The balance server: its four maps of servers (GrpcDataLayer.hpp), the    *)
(* services by which chatting and resources servers register and leave      *)
(* (GrpcChattingImpl.cpp, GrpcResourcesImpl.cpp), the choice of the least   *)
(* loaded chatting server and the tokens of the users (GrpcDataLayer.cpp,   *)
(* GrpcUserServiceImpl.cpp); with the start and the end of the servers that *)
(* register.  The lock of a counter is the subject of ConnectionCounter.    *)
EXTENDS Naturals, FiniteSets

CONSTANTS
  Callers,             \* threads of the gateway that ask for a server for a user
  Uuids,               \* users
  Chatting, Resources, \* names of the servers
  NoServer,
  Budgets     \* bound of the model: how often each kind of request and of fault may occur

ASSUME NamesAssumption == Chatting \cap Resources = {} /\ NoServer \notin Chatting \cup Resources

VARIABLES
  running,    \* is the balance server's process there?
  instances,  \* m_chattingServerInstances and m_resourcesServerInstances
  grpcs,      \* m_chattingGRPCServer
  seen,       \* _connections of the entries
  load,       \* Redis: the hash redis_server
  token,      \* Redis: user_token_<uuid>
  tokens,     \* the number of tokens generated
  life,       \* where each server is between its start and its end
  call,       \* the threads of RegisterUser
  raced,      \* history: users two of whose calls found no token at one time
  budget      \* what is left of the bound

balanceVars == <<running, instances, grpcs, seen, load, token, tokens, life, call, raced,
                 budget>>
redis == <<load, token>>
registry == <<running, instances, grpcs>>
users == <<token, tokens, raced>>

Missing == 1000        \* no field in the hash: the greatest std::size_t
Lives == {"off", "register", "grpc", "count", "on", "uncount", "leave", "leaveGrpc"}
NoCall == [step |-> "idle", uuid |-> 0, min |-> NoServer, start |-> {}, visited |-> {},
           quiet |-> TRUE, ok |-> FALSE, token |-> 0]

BalanceTypeOK ==
  /\ instances \subseteq Chatting \cup Resources
  /\ grpcs \subseteq Chatting
  /\ load \in [Chatting \cup Resources -> Nat]
  /\ token \in [Uuids -> 0..tokens]
  /\ life \in [Chatting \cup Resources -> Lives]
  /\ \A c \in Callers : /\ call[c].step \in {"idle", "begin", "balance", "token", "register", "done"}
                        /\ call[c].min \in Chatting \cup {NoServer}
                        /\ call[c].start \subseteq Chatting
  /\ raced \subseteq Uuids
  /\ ~running => instances = {} /\ grpcs = {}

\* The servers in up are running and registered.
BalanceInit(up) ==
  /\ running = TRUE
  /\ instances = up
  /\ grpcs = up \cap Chatting
  /\ seen = [s \in Chatting |-> 0]
  /\ load = [s \in Chatting \cup Resources |-> IF s \in up THEN 0 ELSE Missing]
  /\ token = [x \in Uuids |-> 0]
  /\ tokens = 0
  /\ life = [s \in Chatting \cup Resources |-> IF s \in up THEN "on" ELSE "off"]
  /\ call = [c \in Callers |-> NoCall]
  /\ raced = {}
  /\ budget \in Budgets

Request(kind) == budget[kind] > 0 /\ budget' = [budget EXCEPT ![kind] = @ - 1]
Fault(kind) == Request(kind)

\* The calls being balanced are told that what they read may have changed.
Stir == call' = [c \in Callers |-> IF call[c].step = "idle" THEN call[c]
                                   ELSE [call[c] EXCEPT !.quiet = FALSE]]

SetLife(s, l) == life' = [life EXCEPT ![s] = l]

-----------------------------------------------------------------------------
(* Redis, the commands of the servers modelled here                        *)

SetValue2Hash(s, n) == load' = [load EXCEPT ![s] = n]
DelValueFromHash(s) == load' = [load EXCEPT ![s] = Missing]
GetValueFromHash(s) == load[s]
SetValue(x, t) == token' = [token EXCEPT ![x] = t]
CheckValue(x) == token[x]

-----------------------------------------------------------------------------
(* Variants of the code that the properties below reject.                  *)

\* The iterator stays where it began.
LoopOverServers_First(c) ==
  \E s \in (call[c].start \cup (instances \cap Chatting)) \ call[c].visited :
    /\ running
    /\ call[c].step = "balance"
    /\ seen' = [seen EXCEPT ![s] = GetValueFromHash(s)]
    /\ call' = [call EXCEPT ![c].visited = @ \cup {s}]
    /\ UNCHANGED <<registry, redis, tokens, life, raced, budget>>

\* A token is generated without a look at the one there is.
GetUserToken_Never(c) ==
  /\ running
  /\ call[c].step = "token"
  /\ call' = [call EXCEPT ![c].step = "register"]
  /\ UNCHANGED <<registry, seen, redis, tokens, life, raced, budget>>

-----------------------------------------------------------------------------
(* A chatting or resources server starts, and ends                         *)

Start(s) ==
  /\ Request("life")
  /\ life[s] = "off"
  /\ SetLife(s, "register")
  /\ UNCHANGED <<registry, seen, redis, users, call>>

\* A registration succeeds; an error of any kind makes the caller's main abort.
Accepted(s, list) == running /\ s \notin list

\* RegisterInstance for a chatting server: one that is listed already is refused,
\* and its main aborts; so it does without the balance server.
RegisterInstance(s) ==
  /\ s \in Chatting
  /\ life[s] = "register"
  /\ IF Accepted(s, instances)
     THEN /\ instances' = instances \cup {s}
          /\ SetLife(s, "grpc")
     ELSE SetLife(s, "off") /\ UNCHANGED instances
  /\ Stir
  /\ UNCHANGED <<running, grpcs, seen, redis, users, budget>>

RegisterGrpc(s) ==
  /\ life[s] = "grpc"
  /\ IF Accepted(s, grpcs)
     THEN grpcs' = grpcs \cup {s} /\ SetLife(s, "count")
     ELSE grpcs' = grpcs /\ SetLife(s, "off")
  /\ UNCHANGED <<running, instances, seen, redis, users, call, budget>>

RegisterResourcesInstance(s) ==
  /\ s \in Resources
  /\ life[s] = "register"
  /\ IF Accepted(s, instances)
     THEN /\ instances' = instances \cup {s}
          /\ SetLife(s, "count")
     ELSE SetLife(s, "off") /\ UNCHANGED instances
  /\ UNCHANGED <<running, grpcs, seen, redis, users, call, budget>>

\* HSET of the counter; the server accepts connections from here on.
Count(s) ==
  /\ life[s] = "count"
  /\ SetValue2Hash(s, 0)
  /\ SetLife(s, "on")
  /\ Stir
  /\ UNCHANGED <<registry, seen, users, budget>>

Stop(s) ==
  /\ Request("life")
  /\ life[s] = "on"
  /\ SetLife(s, "uncount")
  /\ UNCHANGED <<registry, seen, redis, users, call>>

Uncount(s) ==
  /\ life[s] = "uncount"
  /\ DelValueFromHash(s)
  /\ SetLife(s, "leave")
  /\ Stir
  /\ UNCHANGED <<registry, seen, users, budget>>

\* What the balance server answers is only logged.
ShutdownInstance(s) ==
  /\ s \in Chatting
  /\ life[s] = "leave"
  /\ instances' = instances \ {s}
  /\ SetLife(s, "leaveGrpc")
  /\ Stir
  /\ UNCHANGED <<running, grpcs, seen, redis, users, budget>>

ShutdownGrpc(s) ==
  /\ life[s] = "leaveGrpc"
  /\ grpcs' = grpcs \ {s}
  /\ SetLife(s, "off")
  /\ UNCHANGED <<running, instances, seen, redis, users, call, budget>>

ShutdownResourcesInstance(s) ==
  /\ s \in Resources
  /\ life[s] = "leave"
  /\ instances' = instances \ {s}
  /\ SetLife(s, "off")
  /\ UNCHANGED <<running, grpcs, seen, redis, users, call, budget>>

\* A message for another server: updateGrpcPeerLists asks for the peers each time,
\* and aborts when the balance server does not list the one who asks.
GetGrpcPeers(s) ==
  /\ s \in Chatting
  /\ life[s] = "on"
  /\ ~(running /\ s \in grpcs)
  /\ SetLife(s, "off")
  /\ UNCHANGED <<registry, seen, redis, users, call, budget>>

\* Or a server whose main ends early, with no lock of its counter in time.
Crash(s) ==
  /\ Fault("crash")
  /\ life[s] # "off"
  /\ SetLife(s, "off")
  /\ UNCHANGED <<registry, seen, redis, users, call>>

-----------------------------------------------------------------------------
(* The balance server's process                                            *)

Answer(c, ok, t) == [call[c] EXCEPT !.step = "done", !.ok = ok, !.token = t]

\* Its maps go with it, and the calls in it fail.
BalanceDies ==
  /\ running
  /\ running' = FALSE
  /\ instances' = {}
  /\ grpcs' = {}
  /\ call' = [c \in Callers |-> IF call[c].step \in {"idle", "done"} THEN call[c]
                                ELSE Answer(c, FALSE, 0)]
  /\ UNCHANGED <<seen, redis, tokens, life, raced>>

BalanceCrash == Fault("crash") /\ BalanceDies

BalanceStart ==
  /\ ~running
  /\ running' = TRUE
  /\ UNCHANGED <<instances, grpcs, seen, redis, users, life, call, budget>>

-----------------------------------------------------------------------------
(* RegisterUser                                                            *)

\* addNewUserToServer of the gateway; without a balance server the call fails.
AddNewUserToServer(c, x) ==
  /\ call[c].step = "idle"
  /\ call' = [call EXCEPT ![c] = [NoCall EXCEPT !.step = IF running THEN "begin" ELSE "done",
                                                !.uuid = x]]
  /\ UNCHANGED <<registry, seen, redis, users, life, budget>>

\* chattingInstanceLoadBalancer: the first server of the map.
FirstServer(c) ==
  LET known == instances \cap Chatting IN
  /\ running
  /\ call[c].step = "begin"
  /\ \/ /\ known = {}
        /\ call' = [call EXCEPT ![c] = Answer(c, FALSE, 0)]
        /\ UNCHANGED seen
     \/ \E s \in known :
          /\ seen' = [seen EXCEPT ![s] = GetValueFromHash(s)]
          /\ call' = [call EXCEPT ![c] = [@ EXCEPT !.step = "balance", !.min = s, !.quiet = TRUE,
                                                   !.start = known, !.visited = {s}]]
  /\ UNCHANGED <<registry, redis, tokens, life, raced, budget>>

\* Its loop.  One erased meanwhile is passed or read after it is freed.
LoopOverServers(c) ==
  \E s \in (call[c].start \cup (instances \cap Chatting)) \ call[c].visited :
    /\ running
    /\ call[c].step = "balance"
    /\ \/ /\ seen' = [seen EXCEPT ![s] = GetValueFromHash(s)]
          /\ call' = [call EXCEPT ![c].visited = @ \cup {s},
                                  ![c].min = IF seen'[s] < seen[@] THEN s ELSE @]
       \/ /\ s \notin instances
          /\ call' = [call EXCEPT ![c].visited = @ \cup {s}]
          /\ UNCHANGED seen
    /\ UNCHANGED <<registry, redis, tokens, life, raced, budget>>

ReadsFreedEntry(c) ==
  /\ call[c].step = "balance"
  /\ ~(call[c].start \subseteq instances)
  /\ BalanceDies
  /\ UNCHANGED budget

\* The lock of a server's counter is not had in time.
NoLock(c) ==
  /\ running
  /\ call[c].step \in {"begin", "balance"}
  /\ instances \cap Chatting # {}
  /\ Fault("failure")
  /\ call' = [call EXCEPT ![c] = Answer(c, FALSE, 0)]
  /\ UNCHANGED <<registry, seen, redis, users, life>>

ServerInstanceLoadBalancer(c) ==
  /\ running
  /\ call[c].step = "balance"
  /\ call[c].start \subseteq call[c].visited
  /\ call' = [call EXCEPT ![c].step = "token"]
  /\ UNCHANGED <<registry, seen, redis, users, life, budget>>

GetUserToken(c) ==
  LET x == call[c].uuid IN
  /\ running
  /\ call[c].step = "token"
  /\ IF CheckValue(x) # 0
     THEN /\ call' = [call EXCEPT ![c] = Answer(c, TRUE, CheckValue(x))]
          /\ UNCHANGED raced
     ELSE /\ call' = [call EXCEPT ![c].step = "register"]
          /\ raced' = raced \cup {y \in {x} : \E d \in Callers \ {c} :
                                     call[d].step = "register" /\ call[d].uuid = y}
  /\ UNCHANGED <<registry, seen, redis, tokens, life, budget>>

RegisterUserInfo(c) ==
  /\ running
  /\ call[c].step = "register"
  /\ tokens' = tokens + 1
  /\ SetValue(call[c].uuid, tokens')
  /\ call' = [call EXCEPT ![c] = Answer(c, TRUE, tokens')]
  /\ UNCHANGED <<registry, seen, load, raced, life, budget>>

\* LoginUser and LogoutUser of a chatting server.
VerifyUserToken(x, t) == CheckValue(x) # 0 /\ CheckValue(x) = t

-----------------------------------------------------------------------------
Life(s) ==
  \/ RegisterInstance(s) \/ RegisterGrpc(s) \/ RegisterResourcesInstance(s) \/ Count(s)
  \/ Uncount(s) \/ ShutdownInstance(s) \/ ShutdownGrpc(s) \/ ShutdownResourcesInstance(s)

RegisterUser(c) ==
  \/ FirstServer(c) \/ LoopOverServers(c) \/ ServerInstanceLoadBalancer(c)
  \/ GetUserToken(c) \/ RegisterUserInfo(c)

BalanceNext ==
  \/ \E s \in Chatting \cup Resources :
       Start(s) \/ Life(s) \/ Stop(s) \/ Crash(s) \/ GetGrpcPeers(s)
  \/ BalanceCrash \/ BalanceStart
  \/ \E c \in Callers : RegisterUser(c) \/ ReadsFreedEntry(c) \/ NoLock(c)

-----------------------------------------------------------------------------
(* Properties                                                              *)

\* The server a user is sent to has the least counter of all that are registered
\* (chattingInstanceLoadBalancer), however calls share the entries' _connections,
\* if the counters and the map stayed as they were from the first read on.
ChosenIsLeastLoaded ==
  \A c \in Callers : call[c].step \in {"token", "register"} /\ call[c].quiet =>
    \A s \in instances \cap Chatting : load[call[c].min] <= load[s]
=============================================================================
