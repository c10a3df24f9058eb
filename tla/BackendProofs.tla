--------------------------- MODULE BackendProofs ----------------------------
(* The servers behind a login, for any number of clients and servers.       *)
EXTENDS Backend, FiniteSetTheorems, SequenceTheorems, TLAPS

\* A call of RegisterUser, and an HTTP connection.
CallRec == [step : {"idle", "begin", "balance", "token", "register", "done"},
            uuid : Uuids \cup {0}, min : Chatting \cup {NoServer}, start : SUBSET Chatting,
            visited : SUBSET Chatting, quiet : BOOLEAN, ok : BOOLEAN, token : Nat]
HttpRec == [step : Steps, on : IoThreads \cup {NoThread}, path : Paths, name : Names \cup {0},
            email : Emails \cup {0}, code : Nat, password : Callers \cup {0},
            uuid : Uuids \cup {0}, ok : BOOLEAN]
AccountRec == [name : Names, email : Emails, password : Callers]

\* The calls of RegisterUser, the counters and the tokens.
CallsOK ==
  /\ load \in [Chatting \cup Resources -> Nat]
  /\ seen \in [Chatting -> Nat]
  /\ tokens \in Nat
  /\ token \in [Uuids -> Nat]
  /\ call \in [Callers -> CallRec]
  /\ \A c \in Callers : call[c].step # "idle" => call[c].uuid \in Uuids

\* What each client's login page was answered.
HeldOK == held = [c \in Callers |-> held[c]]

\* The connections of the gateway, and the codes that clients get.
HttpOK ==
  /\ nextThread \in IoThreads
  /\ generated \in Nat
  /\ mailed \in [Emails -> Nat]
  /\ http \in [Callers -> HttpRec]
  /\ HeldOK

\* The table Authentication: its usernames differ, and so do its e-mails.
AccountsOK ==
  /\ accounts \in Seq(AccountRec)
  /\ \A i, k \in DOMAIN accounts : accounts[i].name = accounts[k].name => i = k
  /\ \A i, k \in DOMAIN accounts : accounts[i].email = accounts[k].email => i = k

\* What a handler knows where it stands, and that a login page is answered success
\* by the call it made: h is its connection, and r its call.
PathOK(h, r) ==
  /\ h.step \in {"sent", "handle", "insert"} /\ h.path \in {"post_registration", "reset_password"} =>
       h.name \in Names /\ h.email \in Emails /\ h.password \in Callers
  /\ h.step = "insert" => h.path = "post_registration"
  /\ h.step = "rpc" => h.path = "trylogin_server" /\ r.uuid = h.uuid
  /\ h.step = "answer" /\ h.path = "trylogin_server" /\ h.ok =>
       r.step = "done" /\ r.ok /\ r.uuid = h.uuid
  /\ h.step = "open" => h.path = "other"
  /\ h.step = "login" => h.path = "trylogin_server"
  /\ h.step = "uuid" => h.path # "trylogin_server"
  /\ h.step \in {"captcha", "code", "mail", "hang"} => h.path # "trylogin_server"
PathInv == \A c \in Callers : PathOK(http[c], call[c])

\* A call that was left in quiet knows the counters of the servers it visited, and
\* none of them is below that of its choice.
Balanced(r) ==
  r.quiet =>
    /\ r.step \in {"balance", "token", "register"} =>
         /\ r.start = instances \cap Chatting
         /\ r.min \in r.visited
         /\ \A s \in r.visited : seen[s] = load[s] /\ load[r.min] <= load[s]
    /\ r.step \in {"token", "register"} => r.start \subseteq r.visited
BalanceInv == \A c \in Callers : Balanced(call[c])

\* Unless two calls of a user found no token at one time, a call that generates one
\* is alone and there is none yet, and a token that was answered stays.
TokenInv ==
  /\ \A c \in Callers : call[c].uuid \notin raced =>
       /\ call[c].step = "register" =>
            /\ token[call[c].uuid] = 0
            /\ \A d \in Callers \ {c} :
                 ~(call[d].step = "register" /\ call[d].uuid = call[c].uuid)
       /\ call[c].step = "done" /\ call[c].ok =>
            call[c].token # 0 /\ token[call[c].uuid] = call[c].token
  /\ \A c \in Callers : held[c].uuid \notin {0} \cup raced =>
       held[c].uuid \in Uuids /\ held[c].token # 0 /\ token[held[c].uuid] = held[c].token

-----------------------------------------------------------------------------
(* Uploads: what is on its way, and how much of it is in its file          *)

\* The blocks and answers on their way, by where they are; the block, whose it is,
\* the server it is at or sent to, and how many blocks are in its file with it.
SentBlocks ==
  UNION {{<<"out", c, i>> : i \in {j \in DOMAIN toServer[c] : toServer[c][j].type = "upload"}}
           : c \in Callers}
QueuedBlocks ==
  UNION {{<<"queue", r, i>> : i \in {j \in DOMAIN queue[r] : queue[r][j].msg.type = "upload"}}
           : r \in Resources}
AnsweredBlocks == UNION {{<<"in", c, i>> : i \in DOMAIN toClient[c]} : c \in Callers}
Flight == SentBlocks \cup QueuedBlocks \cup AnsweredBlocks
Block(p) == IF p[1] = "out" THEN toServer[p[2]][p[3]]
            ELSE IF p[1] = "queue" THEN queue[p[2]][p[3]].msg ELSE toClient[p[2]][p[3]]
Whose(p) == IF p[1] = "queue" THEN queue[p[2]][p[3]].client ELSE p[2]
Where(p) == IF p[1] = "queue" THEN p[2] ELSE conn[p[2]]
Written(p) == IF p[1] = "in" THEN Block(p).seq ELSE Block(p).seq - 1

\* Uploads are numbered, and no two clients have one.
Numbered ==
  \A c \in Callers :
    /\ upload[c].id <= uploads
    /\ upload[c].isOpen => upload[c].id # 0 /\ upload[c].file \in Files
    /\ \A d \in Callers \ {c} : upload[c].id = upload[d].id => upload[c].id = 0

\* A block of an upload, u, that began alone: the members of the thread are those of
\* the last block sent, while it is the last upload; and all that is on its way is its.
Agrees(u, m) ==
  /\ u.id = m.id => u.alone = m.alone
  /\ u.id = m.id /\ m.alone => u.pos = m.seq /\ u.file = m.file
  /\ u.alone => u.id = m.id

InStep ==
  \A p \in Flight :
    /\ Block(p).file \in Files /\ Block(p).seq \in 1..Blocks /\ Block(p).id \in 1..uploads
    /\ p[1] # "in" => Block(p).pos \in 1..Blocks
    /\ p[1] # "in" /\ Block(p).alone => Block(p).pos = Block(p).seq
    /\ \A d \in Callers \ {Whose(p)} : upload[d].id # Block(p).id
    /\ Agrees(upload[Whose(p)], Block(p))

\* Of an upload that began alone one block is on its way.
OneOnItsWay ==
  \A p, q \in Flight : p # q /\ Block(p).alone => Block(p).id # Block(q).id

\* What came before it is in the file, if nobody else wrote to it.
Stored(f, id, n) == f.by # {} /\ (f.by = {id} => f.blocks = [k \in 1..n |-> k])
OnDisk ==
  \A p \in Flight :
    Block(p).alone /\ Written(p) > 0 /\ (p[1] = "in" => Block(p).ok) =>
      Stored(disk[Where(p)][Block(p).file], Block(p).id, Written(p))

\* A session that is there is the client's.
OpenHere ==
  \A r \in Resources : \A i \in DOMAIN queue[r] :
    queue[r][i].open => conn[queue[r][i].client] = r

UploadInv == UploadTypeOK /\ Numbered /\ InStep /\ OneOnItsWay /\ OnDisk /\ OpenHere

-----------------------------------------------------------------------------
(* Channels and queues                                                     *)

\* A sequence without its first element.
LEMMA TailIs ==
  ASSUME NEW S, NEW q \in Seq(S), q # <<>>
  PROVE  /\ Tail(q) \in Seq(S) /\ Head(q) \in S /\ Head(q) = q[1] /\ 1 \in DOMAIN q
         /\ Len(q) \in Nat \ {0} /\ DOMAIN q = 1..Len(q) /\ Len(Tail(q)) = Len(q) - 1
         /\ \A i \in DOMAIN Tail(q) : i + 1 \in DOMAIN q /\ Tail(q)[i] = q[i + 1] /\ i \in Nat \ {0}
OBVIOUS

\* A sequence with one more element.
LEMMA AppendIs ==
  ASSUME NEW S, NEW q \in Seq(S), NEW m \in S
  PROVE  /\ Append(q, m) \in Seq(S) /\ Len(Append(q, m)) = Len(q) + 1 /\ Len(q) \in Nat
         /\ DOMAIN q = 1..Len(q) /\ DOMAIN Append(q, m) = DOMAIN q \cup {Len(q) + 1}
         /\ Append(q, m)[Len(q) + 1] = m /\ Len(q) + 1 \notin DOMAIN q
         /\ \A i \in DOMAIN q : Append(q, m)[i] = q[i]
OBVIOUS

\* One of the sequences of a family becomes another.
LEMMA OneChanges ==
  ASSUME NEW D, NEW S, NEW F \in [D -> Seq(S)], NEW c \in D, NEW s \in Seq(S)
  PROVE  /\ [F EXCEPT ![c] = s] \in [D -> Seq(S)] /\ [F EXCEPT ![c] = s][c] = s
         /\ \A d \in D \ {c} : [F EXCEPT ![c] = s][d] = F[d]
OBVIOUS

\* The parts of the types.
LEMMA UploadParts ==
  ASSUME UploadTypeOK
  PROVE  /\ conn \in [Callers -> Resources \cup {NoServer}]
         /\ upload \in [Callers -> Transfers]
         /\ toServer \in [Callers -> Seq(Messages)]
         /\ toClient \in [Callers -> Seq(Responses)]
         /\ \A c \in Callers : conn[c] = NoServer => toServer[c] = <<>> /\ toClient[c] = <<>>
         /\ queue \in [Resources -> Seq(Entries)]
         /\ \A r \in Resources : Len(queue[r]) <= QueueSize + 1
         /\ disk \in [Resources -> [Files -> [blocks : Seq(1..Blocks), by : SUBSET Nat]]]
         /\ route \in [Uuids -> Resources \cup {NoServer}]
         /\ uploads \in Nat
BY DEF UploadTypeOK

\* The parts of the invariant.
LEMMA InvParts ==
  ASSUME UploadInv
  PROVE  UploadTypeOK /\ Numbered /\ InStep /\ OneOnItsWay /\ OnDisk /\ OpenHere
BY DEF UploadInv

\* What a thread of the client makes of its members.
LEMMA TransferUpdates ==
  /\ NoUpload \in Transfers
  /\ \A u \in Transfers :
       /\ [u EXCEPT !.isOpen = FALSE] \in Transfers
       /\ \A n \in 0..Blocks : [u EXCEPT !.seq = n] \in Transfers
       /\ u.pos # Blocks => [u EXCEPT !.pos = @ + 1] \in Transfers
  /\ \A f \in Files, n \in Nat, b \in BOOLEAN :
       [file |-> f, seq |-> 1, pos |-> 0, isOpen |-> TRUE, id |-> n, alone |-> b] \in Transfers
  <1>1. NoUpload \in Transfers
    <2>1. 0 \in 0..Blocks /\ "" \in FileNames /\ 0 \in Nat
      BY BlocksAssumption DEF FileNames
    <2> QED
      BY <2>1 DEF NoUpload, Transfers
  <1>2. ASSUME NEW u \in Transfers
        PROVE  /\ [u EXCEPT !.isOpen = FALSE] \in Transfers
               /\ \A n \in 0..Blocks : [u EXCEPT !.seq = n] \in Transfers
               /\ u.pos # Blocks => [u EXCEPT !.pos = @ + 1] \in Transfers
    <2>1. u.pos # Blocks => u.pos + 1 \in 0..Blocks
      BY BlocksAssumption DEF Transfers
    <2>2. \A n \in 0..Blocks : [u EXCEPT !.seq = n] \in Transfers /\ [u EXCEPT !.pos = n] \in Transfers
      BY DEF Transfers
    <2>3. [u EXCEPT !.isOpen = FALSE] \in Transfers
      BY DEF Transfers
    <2> QED
      BY <2>1, <2>2, <2>3
  <1>3. \A f \in Files, n \in Nat, b \in BOOLEAN :
          [file |-> f, seq |-> 1, pos |-> 0, isOpen |-> TRUE, id |-> n, alone |-> b] \in Transfers
    <2>1. 0 \in 0..Blocks /\ 1 \in 0..Blocks
      BY BlocksAssumption
    <2>3. Files \subseteq FileNames
      BY DEF FileNames
    <2>2. ASSUME NEW f \in Files, NEW n \in Nat, NEW b \in BOOLEAN
          PROVE  [file |-> f, seq |-> 1, pos |-> 0, isOpen |-> TRUE, id |-> n, alone |-> b] \in Transfers
      <3>1. f \in FileNames
        BY <2>3
      <3> QED
        BY <2>1, <3>1 DEF Transfers
    <2> QED
      BY <2>2
  <1> QED
    BY <1>1, <1>2, <1>3

\* The block a thread with the members u sends, and the one of a request.
BlockOf(u) == [Message("upload", 0) EXCEPT !.file = u.file, !.seq = u.seq, !.pos = u.pos + 1,
                                           !.id = u.id, !.alone = u.alone]
LEMMA MessageIs ==
  /\ \A x \in Uuids \cup {0}, t \in {"upload", "login", "logout"} :
       Message(t, x) \in Messages /\ Message(t, x).type = t
  /\ \A u \in Transfers : u.pos # Blocks =>
       /\ BlockOf(u) \in Messages /\ BlockOf(u).type = "upload"
       /\ BlockOf(u).file = u.file /\ BlockOf(u).seq = u.seq /\ BlockOf(u).pos = u.pos + 1
       /\ BlockOf(u).id = u.id /\ BlockOf(u).alone = u.alone
  <1>1. ASSUME NEW x \in Uuids \cup {0}, NEW t \in {"upload", "login", "logout"}
        PROVE  Message(t, x) \in Messages /\ Message(t, x).type = t
    <2>1. 0 \in 0..Blocks
      BY BlocksAssumption
    <2>2. "" \in FileNames
      BY DEF FileNames
    <2> QED
      BY <2>1, <2>2 DEF Message, Messages
  <1>3. ASSUME NEW u \in Transfers, u.pos # Blocks
        PROVE  /\ BlockOf(u) \in Messages /\ BlockOf(u).type = "upload"
               /\ BlockOf(u).file = u.file /\ BlockOf(u).seq = u.seq /\ BlockOf(u).pos = u.pos + 1
               /\ BlockOf(u).id = u.id /\ BlockOf(u).alone = u.alone
    <2>1. /\ u.file \in FileNames /\ u.seq \in 0..Blocks /\ u.pos \in 0..Blocks /\ u.id \in Nat
          /\ u.alone \in BOOLEAN
      BY DEF Transfers
    <2>2. u.pos + 1 \in 0..Blocks
      BY <1>3, <2>1, BlocksAssumption
    <2>3. PICK m \in Messages : m = Message("upload", 0) /\ m.type = "upload"
      BY <1>1
    <2>4. PICK f \in FileNames, q \in 0..Blocks, p \in 0..Blocks, i \in Nat, a \in BOOLEAN :
            f = u.file /\ q = u.seq /\ p = u.pos + 1 /\ i = u.id /\ a = u.alone
      BY <2>1, <2>2
    <2>5. BlockOf(u) = [m EXCEPT !.file = f, !.seq = q, !.pos = p, !.id = i, !.alone = a]
      BY <2>3, <2>4 DEF BlockOf
    <2>6. PICK b : b = [m EXCEPT !.file = f, !.seq = q, !.pos = p, !.id = i, !.alone = a]
      OBVIOUS
    <2>7. /\ b \in Messages /\ b.type = m.type /\ b.file = f /\ b.seq = q /\ b.pos = p
          /\ b.id = i /\ b.alone = a
      BY <2>6 DEF Messages
    <2> QED
      BY <2>3, <2>4, <2>5, <2>6, <2>7
  <1> QED
    BY <1>1, <1>3

\* slot_send_next_block closes the file or sends the next block.
LEMMA Sends1 ==
  ASSUME UploadTypeOK, NEW c \in Callers, NEW u \in Transfers, SendNextBlock(c, u)
  PROVE  \/ /\ upload' = [upload EXCEPT ![c] = [u EXCEPT !.isOpen = FALSE]]
            /\ toServer' = toServer
         \/ /\ u.isOpen /\ u.pos # Blocks /\ u.seq <= Blocks
            /\ upload' = [upload EXCEPT ![c] = [u EXCEPT !.pos = @ + 1]]
            /\ toServer' = [toServer EXCEPT ![c] = Append(@, BlockOf(u))]
<1>1. u.seq \in Nat /\ Blocks \in Nat
  BY BlocksAssumption DEF Transfers
<1> QED
  BY <1>1 DEF SendNextBlock, BlockOf

-----------------------------------------------------------------------------
(* Blocks on their way                                                     *)

\* Where blocks and answers can be.
LEMMA Places ==
  /\ \A c, i : <<"out", c, i>> \in Flight <=>
       c \in Callers /\ i \in DOMAIN toServer[c] /\ toServer[c][i].type = "upload"
  /\ \A r, i : <<"queue", r, i>> \in Flight <=>
       r \in Resources /\ i \in DOMAIN queue[r] /\ queue[r][i].msg.type = "upload"
  /\ \A c, i : <<"in", c, i>> \in Flight <=> c \in Callers /\ i \in DOMAIN toClient[c]
  /\ \A p \in Flight : \E k \in {"out", "queue", "in"} : \E x \in Callers \cup Resources : \E i :
       p = <<k, x, i>> /\ p[1] = k /\ p[2] = x /\ p[3] = i
<1>1. Flight = SentBlocks \cup QueuedBlocks \cup AnsweredBlocks
  BY DEF Flight
<1>2. \A p : p \in SentBlocks <=> \E c \in Callers : \E i \in DOMAIN toServer[c] :
                          toServer[c][i].type = "upload" /\ p = <<"out", c, i>>
  BY DEF SentBlocks
<1>3. \A p : p \in QueuedBlocks <=> \E r \in Resources : \E i \in DOMAIN queue[r] :
                          queue[r][i].msg.type = "upload" /\ p = <<"queue", r, i>>
  BY DEF QueuedBlocks
<1>4. \A p : p \in AnsweredBlocks <=> \E c \in Callers : \E i \in DOMAIN toClient[c] : p = <<"in", c, i>>
  BY DEF AnsweredBlocks
<1>5. \A x, y, i, j : /\ <<"out", x, i>> # <<"queue", y, j>> /\ <<"out", x, i>> # <<"in", y, j>>
                     /\ <<"queue", x, i>> # <<"in", y, j>>
  OBVIOUS
<1>6. \A k, x, y, i, j : <<k, x, i>> = <<k, y, j>> => x = y /\ i = j
  OBVIOUS
<1>7. \A c, i : <<"out", c, i>> \in Flight <=> <<"out", c, i>> \in SentBlocks
  BY <1>1, <1>3, <1>4, <1>5
<1>8. \A c, i : <<"queue", c, i>> \in Flight <=> <<"queue", c, i>> \in QueuedBlocks
  BY <1>1, <1>2, <1>4, <1>5
<1>9. \A c, i : <<"in", c, i>> \in Flight <=> <<"in", c, i>> \in AnsweredBlocks
  BY <1>1, <1>2, <1>3, <1>5
<1>10. \A p \in Flight : \E k \in {"out", "queue", "in"} : \E x \in Callers \cup Resources : \E i :
         p = <<k, x, i>> /\ p[1] = k /\ p[2] = x /\ p[3] = i
  BY <1>1, <1>2, <1>3, <1>4
<1> QED
  BY <1>2, <1>3, <1>4, <1>6, <1>7, <1>8, <1>9, <1>10

\* And after a step.
LEMMA PlacesNext ==
  /\ \A c, i : <<"out", c, i>> \in Flight' <=>
       c \in Callers /\ i \in DOMAIN toServer'[c] /\ toServer'[c][i].type = "upload"
  /\ \A r, i : <<"queue", r, i>> \in Flight' <=>
       r \in Resources /\ i \in DOMAIN queue'[r] /\ queue'[r][i].msg.type = "upload"
  /\ \A c, i : <<"in", c, i>> \in Flight' <=> c \in Callers /\ i \in DOMAIN toClient'[c]
  /\ \A p \in Flight' : \E k \in {"out", "queue", "in"} : \E x \in Callers \cup Resources : \E i :
       p = <<k, x, i>> /\ p[1] = k /\ p[2] = x /\ p[3] = i
<1>1. Flight' = SentBlocks' \cup QueuedBlocks' \cup AnsweredBlocks'
  BY DEF Flight
<1>2. \A p : p \in SentBlocks' <=> \E c \in Callers : \E i \in DOMAIN toServer'[c] :
                          toServer'[c][i].type = "upload" /\ p = <<"out", c, i>>
  BY DEF SentBlocks
<1>3. \A p : p \in QueuedBlocks' <=> \E r \in Resources : \E i \in DOMAIN queue'[r] :
                          queue'[r][i].msg.type = "upload" /\ p = <<"queue", r, i>>
  BY DEF QueuedBlocks
<1>4. \A p : p \in AnsweredBlocks' <=> \E c \in Callers : \E i \in DOMAIN toClient'[c] : p = <<"in", c, i>>
  BY DEF AnsweredBlocks
<1>5. \A x, y, i, j : /\ <<"out", x, i>> # <<"queue", y, j>> /\ <<"out", x, i>> # <<"in", y, j>>
                     /\ <<"queue", x, i>> # <<"in", y, j>>
  OBVIOUS
<1>6. \A k, x, y, i, j : <<k, x, i>> = <<k, y, j>> => x = y /\ i = j
  OBVIOUS
<1>7. \A c, i : <<"out", c, i>> \in Flight' <=> <<"out", c, i>> \in SentBlocks'
  BY <1>1, <1>3, <1>4, <1>5
<1>8. \A c, i : <<"queue", c, i>> \in Flight' <=> <<"queue", c, i>> \in QueuedBlocks'
  BY <1>1, <1>2, <1>4, <1>5
<1>9. \A c, i : <<"in", c, i>> \in Flight' <=> <<"in", c, i>> \in AnsweredBlocks'
  BY <1>1, <1>2, <1>3, <1>5
<1>10. \A p \in Flight' : \E k \in {"out", "queue", "in"} : \E x \in Callers \cup Resources : \E i :
         p = <<k, x, i>> /\ p[1] = k /\ p[2] = x /\ p[3] = i
  BY <1>1, <1>2, <1>3, <1>4
<1> QED
  BY <1>2, <1>3, <1>4, <1>6, <1>7, <1>8, <1>9, <1>10

\* Each is a client's.
LEMMA Owned ==
  ASSUME UploadTypeOK, NEW p \in Flight
  PROVE  Whose(p) \in Callers
<1>1. PICK k \in {"out", "queue", "in"}, x \in Callers \cup Resources :
        \E j : p = <<k, x, j>> /\ p[1] = k /\ p[2] = x /\ p[3] = j
  BY Places
<1>2. PICK i : p = <<k, x, i>> /\ p[1] = k /\ p[2] = x /\ p[3] = i
  BY <1>1
<1>3. CASE k = "queue"
  <2>1. x \in Resources /\ i \in DOMAIN queue[x]
    BY <1>2, <1>3, Places
  <2>2. queue[x] \in Seq(Entries)
    BY <2>1, UploadParts
  <2>3. queue[x][i] \in Entries
    BY <2>1, <2>2
  <2> QED
    BY <1>2, <1>3, <2>3 DEF Whose, Entries
<1>4. CASE k # "queue"
  BY <1>2, <1>4, Places DEF Whose
<1> QED
  BY <1>3, <1>4

\* What is at p was at o before the step; and it is at the same server, at the same point.
Rides(p, o) ==
  /\ Block(p)'.id = Block(o).id /\ Block(p)'.alone = Block(o).alone
  /\ Block(p)'.seq = Block(o).seq /\ Block(p)'.file = Block(o).file
  /\ Whose(p)' = Whose(o)
  /\ p[1] # "in" => o[1] # "in" /\ Block(p)'.pos = Block(o).pos
Still(p, o) ==
  /\ Where(p)' = Where(o)
  /\ p[1] = "in" <=> o[1] = "in"
  /\ p[1] = "in" => Block(p)'.ok = Block(o).ok

\* A step takes f[p] to p.
Carries(O, f) ==
  /\ f \in [O -> Flight]
  /\ \A p \in O : Rides(p, f[p])
  /\ \A p, q \in O : p # q => f[p] # f[q]

\* What is carried is as it was.
LEMMA Carried ==
  ASSUME UploadInv, NEW O, NEW f, Carries(O, f)
  PROVE  /\ \A p \in O :
              /\ Block(p)'.file \in Files /\ Block(p)'.seq \in 1..Blocks
              /\ Block(p)'.id \in 1..uploads
              /\ p[1] # "in" => Block(p)'.pos \in 1..Blocks
              /\ p[1] # "in" /\ Block(p)'.alone => Block(p)'.pos = Block(p)'.seq
              /\ \A d \in Callers \ {Whose(p)'} : upload[d].id # Block(p)'.id
              /\ Agrees(upload[Whose(p)'], Block(p)')
         /\ \A p, q \in O : p # q /\ Block(p)'.alone => Block(p)'.id # Block(q)'.id
<1>1. ASSUME NEW p \in O
      PROVE  /\ Block(p)'.file \in Files /\ Block(p)'.seq \in 1..Blocks
             /\ Block(p)'.id \in 1..uploads
             /\ p[1] # "in" => Block(p)'.pos \in 1..Blocks
             /\ p[1] # "in" /\ Block(p)'.alone => Block(p)'.pos = Block(p)'.seq
             /\ \A d \in Callers \ {Whose(p)'} : upload[d].id # Block(p)'.id
             /\ Agrees(upload[Whose(p)'], Block(p)')
  <2>1. PICK o \in Flight : o = f[p] /\ Rides(p, o)
    BY DEF Carries
  <2>2. /\ Block(o).file \in Files /\ Block(o).seq \in 1..Blocks /\ Block(o).id \in 1..uploads
        /\ o[1] # "in" => Block(o).pos \in 1..Blocks
        /\ o[1] # "in" /\ Block(o).alone => Block(o).pos = Block(o).seq
        /\ \A d \in Callers \ {Whose(o)} : upload[d].id # Block(o).id
        /\ Agrees(upload[Whose(o)], Block(o))
    BY DEF UploadInv, InStep
  <2> QED
    BY <2>1, <2>2 DEF Rides, Agrees
<1>2. ASSUME NEW p \in O, NEW q \in O, p # q, Block(p)'.alone
      PROVE  Block(p)'.id # Block(q)'.id
  <2>1. PICK o \in Flight, r \in Flight : /\ o = f[p] /\ Rides(p, o)
                                          /\ r = f[q] /\ Rides(q, r) /\ o # r
    BY <1>2 DEF Carries
  <2>2. Block(o).alone => Block(o).id # Block(r).id
    BY <2>1 DEF UploadInv, OneOnItsWay
  <2> QED
    BY <1>2, <2>1, <2>2 DEF Rides
<1> QED
  BY <1>1, <1>2

\* So are the files with it.
LEMMA CarriedStored ==
  ASSUME UploadInv, NEW O, NEW f, Carries(O, f), NEW p \in O, Still(p, f[p]), disk' = disk,
         Block(p)'.alone, Written(p)' > 0, p[1] = "in" => Block(p)'.ok
  PROVE  Stored(disk'[Where(p)'][Block(p)'.file], Block(p)'.id, Written(p)')
<1>1. PICK o \in Flight : o = f[p] /\ Rides(p, o)
  BY DEF Carries
<1>2. Written(p)' = Written(o)
  BY <1>1 DEF Rides, Still, Written
<1>3. Block(o).alone /\ Written(o) > 0 /\ (o[1] = "in" => Block(o).ok)
  BY <1>1, <1>2 DEF Rides, Still
<1>4. Stored(disk[Where(o)][Block(o).file], Block(o).id, Written(o))
  BY <1>1, <1>3 DEF UploadInv, OnDisk
<1> QED
  BY <1>1, <1>2, <1>4 DEF Rides, Still

\* The members of a thread but for the number, and it does not open a file.
Same(v, u) ==
  /\ v.id = u.id /\ v.alone = u.alone /\ v.pos = u.pos /\ v.file = u.file
  /\ v.isOpen => u.isOpen

\* A step that moves blocks, and neither begins an upload nor sends nor writes.
LEMMA Moved ==
  ASSUME UploadInv, UploadTypeOK', OpenHere', UNCHANGED <<uploads, disk>>,
         \A d \in Callers : Same(upload'[d], upload[d]),
         NEW f, Carries(Flight', f), \A p \in Flight' : Still(p, f[p])
  PROVE  UploadInv'
<1>1. Numbered'
  BY DEF UploadInv, Numbered, Same
<1>2. InStep' /\ OneOnItsWay'
  <2>1. ASSUME NEW p \in Flight' PROVE Whose(p)' \in Callers
    <3>1. PICK o \in Flight : Whose(p)' = Whose(o)
      BY DEF Carries, Rides
    <3> QED
      BY <3>1, Owned, InvParts
  <2>2. ASSUME NEW p \in Flight'
        PROVE  /\ \A d \in Callers \ {Whose(p)'} : upload'[d].id # Block(p)'.id
               /\ Agrees(upload'[Whose(p)'], Block(p)')
    <3>1. PICK w \in Callers : w = Whose(p)'
      BY <2>1
    <3>2. PICK m : m = Block(p)'
      OBVIOUS
    <3>3. /\ \A d \in Callers \ {w} : upload[d].id # m.id
          /\ Agrees(upload[w], m)
      BY <3>1, <3>2, Carried
    <3>4. \A d \in Callers \ {w} : upload'[d].id # m.id
      BY <3>3 DEF Same
    <3>5. Agrees(upload'[w], m)
      BY <3>3 DEF Same, Agrees
    <3> QED
      BY <3>1, <3>2, <3>4, <3>5
  <2> QED
    BY <2>2, Carried DEF InStep, OneOnItsWay
<1>3. OnDisk'
  BY CarriedStored DEF OnDisk
<1> QED
  BY <1>1, <1>2, <1>3 DEF UploadInv

\* What is at a place, whose it is and where.
LEMMA Values ==
  /\ \A c, i : LET p == <<"out", c, i>> IN
       p[1] = "out" /\ Block(p) = toServer[c][i] /\ Whose(p) = c /\ Where(p) = conn[c]
  /\ \A r, i : LET p == <<"queue", r, i>> IN
       p[1] = "queue" /\ Block(p) = queue[r][i].msg /\ Whose(p) = queue[r][i].client /\ Where(p) = r
  /\ \A c, i : LET p == <<"in", c, i>> IN
       p[1] = "in" /\ Block(p) = toClient[c][i] /\ Whose(p) = c /\ Where(p) = conn[c]
BY DEF Block, Whose, Where

\* A place after a step.
OutNext(p, c, i) ==
  /\ p = <<"out", c, i>> /\ p[1] = "out" /\ i \in DOMAIN toServer'[c] /\ toServer'[c][i].type = "upload"
  /\ Block(p)' = toServer'[c][i] /\ Whose(p)' = c /\ Where(p)' = conn'[c]
QueueNext(p, r, i) ==
  /\ p = <<"queue", r, i>> /\ p[1] = "queue" /\ i \in DOMAIN queue'[r] /\ queue'[r][i].msg.type = "upload"
  /\ Block(p)' = queue'[r][i].msg /\ Whose(p)' = queue'[r][i].client /\ Where(p)' = r
InNext(p, c, i) ==
  /\ p = <<"in", c, i>> /\ p[1] = "in" /\ i \in DOMAIN toClient'[c]
  /\ Block(p)' = toClient'[c][i] /\ Whose(p)' = c /\ Where(p)' = conn'[c]
LEMMA PlaceNext ==
  ASSUME NEW p \in Flight'
  PROVE  \/ \E c \in Callers : \E i : OutNext(p, c, i)
         \/ \E r \in Resources : \E i : QueueNext(p, r, i)
         \/ \E c \in Callers : \E i : InNext(p, c, i)
<1>0. PICK k \in {"out", "queue", "in"}, x \in Callers \cup Resources :
        \E j : p = <<k, x, j>> /\ p[1] = k /\ p[2] = x /\ p[3] = j
  BY PlacesNext
<1>1. PICK i : p = <<k, x, i>> /\ p[1] = k /\ p[2] = x /\ p[3] = i
  BY <1>0
<1>2. CASE k = "out"
  <2>1. x \in Callers /\ i \in DOMAIN toServer'[x] /\ toServer'[x][i].type = "upload"
    BY <1>1, <1>2, PlacesNext
  <2> QED
    BY <1>1, <1>2, <2>1 DEF OutNext, Block, Whose, Where
<1>3. CASE k = "queue"
  <2>1. x \in Resources /\ i \in DOMAIN queue'[x] /\ queue'[x][i].msg.type = "upload"
    BY <1>1, <1>3, PlacesNext
  <2> QED
    BY <1>1, <1>3, <2>1 DEF QueueNext, Block, Whose, Where
<1>4. CASE k = "in"
  <2>1. x \in Callers /\ i \in DOMAIN toClient'[x]
    BY <1>1, <1>4, PlacesNext
  <2> QED
    BY <1>1, <1>4, <2>1 DEF InNext, Block, Whose, Where
<1> QED
  BY <1>1, <1>2, <1>3, <1>4

\* A step that leaves where they are the blocks and answers it does not lose.
LEMMA Unmoved ==
  ASSUME UploadInv, UploadTypeOK', OpenHere', UNCHANGED <<uploads, disk>>, upload' = upload,
         \A c \in Callers : toServer'[c] # <<>> \/ toClient'[c] # <<>> => conn'[c] = conn[c],
         \A c \in Callers : \A i \in DOMAIN toServer'[c] :
           toServer'[c][i].type = "upload" => i \in DOMAIN toServer[c] /\ toServer'[c][i] = toServer[c][i],
         \A r \in Resources : \A i \in DOMAIN queue'[r] :
           /\ i \in DOMAIN queue[r] /\ queue'[r][i].msg = queue[r][i].msg
           /\ queue'[r][i].client = queue[r][i].client,
         \A c \in Callers : \A i \in DOMAIN toClient'[c] :
           i \in DOMAIN toClient[c] /\ toClient'[c][i] = toClient[c][i]
  PROVE  UploadInv'
<1> DEFINE f == [p \in Flight' |-> p]
<1>1. ASSUME NEW p \in Flight' PROVE p \in Flight /\ Rides(p, p) /\ Still(p, p)
  <2>1. ASSUME NEW c \in Callers, NEW i, OutNext(p, c, i) PROVE p \in Flight /\ Rides(p, p) /\ Still(p, p)
    <3>1. /\ i \in DOMAIN toServer[c] /\ toServer'[c][i] = toServer[c][i] /\ toServer'[c] # <<>>
      BY <2>1 DEF OutNext
    <3>2. p \in Flight /\ Block(p) = toServer[c][i] /\ Whose(p) = c /\ Where(p) = conn[c]
      BY <2>1, <3>1, Places, Values DEF OutNext
    <3> QED
      BY <2>1, <3>1, <3>2 DEF OutNext, Rides, Still
  <2>2. ASSUME NEW r \in Resources, NEW i, QueueNext(p, r, i) PROVE p \in Flight /\ Rides(p, p) /\ Still(p, p)
    <3>1. /\ i \in DOMAIN queue[r] /\ queue'[r][i].msg = queue[r][i].msg
          /\ queue'[r][i].client = queue[r][i].client
      BY <2>2 DEF QueueNext
    <3>2. /\ p \in Flight /\ Block(p) = queue[r][i].msg /\ Whose(p) = queue[r][i].client
          /\ Where(p) = r
      BY <2>2, <3>1, Places, Values DEF QueueNext
    <3> QED
      BY <2>2, <3>1, <3>2 DEF QueueNext, Rides, Still
  <2>3. ASSUME NEW c \in Callers, NEW i, InNext(p, c, i) PROVE p \in Flight /\ Rides(p, p) /\ Still(p, p)
    <3>1. /\ i \in DOMAIN toClient[c] /\ toClient'[c][i] = toClient[c][i] /\ toClient'[c] # <<>>
      BY <2>3 DEF InNext
    <3>2. p \in Flight /\ Block(p) = toClient[c][i] /\ Whose(p) = c /\ Where(p) = conn[c]
      BY <2>3, <3>1, Places, Values DEF InNext
    <3> QED
      BY <2>3, <3>1, <3>2 DEF InNext, Rides, Still
  <2> QED
    BY <2>1, <2>2, <2>3, PlaceNext
<1>2. Carries(Flight', f)
  BY <1>1 DEF Carries
<1>3. \A p \in Flight' : Still(p, f[p])
  BY <1>1
<1>4. \A d \in Callers : Same(upload'[d], upload[d])
  BY DEF Same
<1> QED
  BY <1>2, <1>3, <1>4, Moved

-----------------------------------------------------------------------------
(* Steps that leave the blocks where they are                              *)

\* A request in a queue.
LEMMA EntryIs ==
  ASSUME UploadInv, NEW r \in Resources, NEW i \in DOMAIN queue[r]
  PROVE  /\ queue[r][i] \in Entries /\ queue[r][i].client \in Callers
         /\ queue[r][i].msg \in Messages /\ queue[r][i].open \in BOOLEAN
         /\ queue[r][i].open => conn[queue[r][i].client] = r
<1>1. queue[r] \in Seq(Entries)
  BY InvParts, UploadParts
<1>2. queue[r][i] \in Entries
  BY <1>1
<1>3. queue[r][i].open => conn[queue[r][i].client] = r
  BY InvParts DEF OpenHere
<1> QED
  BY <1>2, <1>3 DEF Entries

\* on_connect_server_clicked.
LEMMA ConnectInv ==
  ASSUME UploadInv, NEW c \in Callers, Connect(c)
  PROVE  UploadInv'
<1>1. PICK r \in Resources :
        /\ conn[c] = NoServer /\ conn' = [conn EXCEPT ![c] = r]
        /\ UNCHANGED <<upload, toServer, toClient, queue, disk, route, uploads>>
  BY DEF Connect, server
<1>2. UploadTypeOK' /\ toServer[c] = <<>> /\ toClient[c] = <<>>
  BY <1>1, InvParts, UploadParts DEF UploadTypeOK
<1>3. \A d \in Callers \ {c} : conn'[d] = conn[d]
  BY <1>1, InvParts, UploadParts
<1>4. OpenHere'
  <2> SUFFICES ASSUME NEW q \in Resources, NEW i \in DOMAIN queue[q], queue[q][i].open
               PROVE  conn'[queue[q][i].client] = q
    BY <1>1 DEF OpenHere
  <2>1. conn[queue[q][i].client] = q /\ queue[q][i].client \in Callers
    BY EntryIs
  <2>2. q # NoServer
    BY NamesAssumption
  <2> QED
    BY <1>1, <1>3, <2>1, <2>2
<1> QED
  BY <1>1, <1>2, <1>3, <1>4, Unmoved

\* A login or a logout.
LEMMA SendLoginInv ==
  ASSUME UploadInv, NEW c \in Callers, SendLoginOrLogout(c)
  PROVE  UploadInv'
<1>1. PICK x \in Uuids, t \in {"login", "logout"} :
        /\ conn[c] # NoServer
        /\ toServer' = [toServer EXCEPT ![c] = Append(@, Message(t, x))]
        /\ UNCHANGED <<conn, upload, toClient, queue, disk, route, uploads>>
  BY DEF SendLoginOrLogout, server
<1>2. PICK m \in Messages : m = Message(t, x) /\ m.type # "upload"
  BY MessageIs
<1>3. PICK s : s = Append(toServer[c], m)
  OBVIOUS
<1>4. toServer[c] \in Seq(Messages)
  BY InvParts, UploadParts
<1>5. /\ s \in Seq(Messages)
      /\ \A i \in DOMAIN s : \/ i \in DOMAIN toServer[c] /\ s[i] = toServer[c][i]
                             \/ s[i] = m
  BY <1>3, <1>4, AppendIs
<1>6. toServer' = [toServer EXCEPT ![c] = s]
  BY <1>1, <1>2, <1>3
<1>7. /\ toServer' \in [Callers -> Seq(Messages)] /\ toServer'[c] = s
      /\ \A d \in Callers \ {c} : toServer'[d] = toServer[d]
  BY <1>5, <1>6, InvParts, UploadParts
<1>8. UploadTypeOK'
  BY <1>1, <1>7, InvParts, UploadParts DEF UploadTypeOK
<1>9. OpenHere'
  BY <1>1, InvParts DEF OpenHere
<1> QED
  BY <1>1, <1>2, <1>5, <1>7, <1>8, <1>9, Unmoved

\* A connection breaks.
LEMMA DisconnectInv ==
  ASSUME UploadInv, NEW c \in Callers, Disconnect(c)
  PROVE  UploadInv'
<1>1. /\ conn' = [conn EXCEPT ![c] = NoServer]
      /\ toServer' = [toServer EXCEPT ![c] = <<>>]
      /\ toClient' = [toClient EXCEPT ![c] = <<>>]
      /\ queue' = [r \in Resources |-> [i \in DOMAIN queue[r] |->
                    [queue[r][i] EXCEPT !.open = @ /\ queue[r][i].client # c]]]
      /\ UNCHANGED <<upload, disk, route, uploads>>
  BY DEF Disconnect
<1>2. ASSUME NEW r \in Resources
      PROVE  /\ queue'[r] \in Seq(Entries) /\ Len(queue'[r]) = Len(queue[r])
             /\ DOMAIN queue'[r] = DOMAIN queue[r]
             /\ \A i \in DOMAIN queue[r] :
                  /\ queue'[r][i].msg = queue[r][i].msg /\ queue'[r][i].client = queue[r][i].client
                  /\ queue'[r][i].open = (queue[r][i].open /\ queue[r][i].client # c)
                  /\ queue[r][i].client \in Callers
  <2>1. PICK q \in Seq(Entries) : q = queue[r]
    BY InvParts, UploadParts
  <2>2. PICK n \in Nat : n = Len(q) /\ DOMAIN q = 1..n
    BY <2>1
  <2>3. PICK s : s = queue'[r]
    OBVIOUS
  <2>4. s = [i \in 1..n |-> [q[i] EXCEPT !.open = @ /\ q[i].client # c]]
    BY <1>1, <2>1, <2>2, <2>3
  <2>5. \A e \in Entries : /\ [e EXCEPT !.open = @ /\ e.client # c] \in Entries
                           /\ [e EXCEPT !.open = @ /\ e.client # c].msg = e.msg
                           /\ [e EXCEPT !.open = @ /\ e.client # c].client = e.client
                           /\ [e EXCEPT !.open = @ /\ e.client # c].open = (e.open /\ e.client # c)
                           /\ e.client \in Callers
    BY DEF Entries
  <2>6. \A i \in 1..n : q[i] \in Entries
    BY <2>2
  <2>8. s \in [1..n -> Entries]
    BY <2>4, <2>5, <2>6
  <2>7. s \in Seq(Entries) /\ Len(s) = n /\ DOMAIN s = 1..n
    BY <2>8
  <2> QED
    BY <2>1, <2>2, <2>3, <2>4, <2>5, <2>6, <2>7
<1>3. queue' \in [Resources -> Seq(Entries)]
  BY <1>1, <1>2
<1>4. /\ toServer' \in [Callers -> Seq(Messages)] /\ toServer'[c] = <<>>
      /\ toClient' \in [Callers -> Seq(Responses)] /\ toClient'[c] = <<>>
      /\ conn' \in [Callers -> Resources \cup {NoServer}]
      /\ \A d \in Callers \ {c} : /\ toServer'[d] = toServer[d] /\ toClient'[d] = toClient[d]
                                  /\ conn'[d] = conn[d]
  <2>1. <<>> \in Seq(Messages) /\ <<>> \in Seq(Responses)
    OBVIOUS
  <2> QED
    BY <1>1, <2>1, InvParts, UploadParts
<1>5. UploadTypeOK'
  BY <1>1, <1>2, <1>3, <1>4, InvParts, UploadParts DEF UploadTypeOK
<1>6. OpenHere'
  <2> SUFFICES ASSUME NEW r \in Resources, NEW i \in DOMAIN queue'[r], queue'[r][i].open
               PROVE  conn'[queue'[r][i].client] = r
    BY DEF OpenHere
  <2>1. i \in DOMAIN queue[r] /\ queue[r][i].open /\ queue[r][i].client \in Callers \ {c}
        /\ queue'[r][i].client = queue[r][i].client
    BY <1>2
  <2>2. conn[queue[r][i].client] = r
    BY <2>1, EntryIs
  <2> QED
    BY <1>4, <2>1, <2>2
<1>7. \A i : i \notin DOMAIN <<>>
  OBVIOUS
<1> QED
  BY <1>1, <1>2, <1>4, <1>5, <1>6, <1>7, Unmoved

\* Servers end.
LEMMA ServersEndInv ==
  ASSUME UploadInv, ServersEnd
  PROVE  UploadInv'
<1>1. /\ queue' = [r \in Resources |-> IF Ends(r) THEN <<>> ELSE queue[r]]
      /\ UNCHANGED <<upload, disk, route, uploads>>
  BY DEF ServersEnd
<1>2. ASSUME NEW d \in Callers
      PROVE  \/ conn'[d] = NoServer /\ toServer'[d] = <<>> /\ toClient'[d] = <<>>
                /\ conn[d] # NoServer /\ Ends(conn[d])
             \/ conn'[d] = conn[d] /\ toServer'[d] = toServer[d] /\ toClient'[d] = toClient[d]
                /\ ~(conn[d] # NoServer /\ Ends(conn[d]))
  BY DEF ServersEnd
<1>3. /\ conn' = [d \in Callers |-> conn'[d]]
      /\ toServer' = [d \in Callers |-> toServer'[d]]
      /\ toClient' = [d \in Callers |-> toClient'[d]]
  BY DEF ServersEnd
<1>4. ASSUME NEW r \in Resources
      PROVE  \/ queue'[r] = <<>> /\ Ends(r)
             \/ queue'[r] = queue[r] /\ ~Ends(r)
  BY <1>1
<1>5. <<>> \in Seq(Messages) /\ <<>> \in Seq(Responses) /\ <<>> \in Seq(Entries) /\ Len(<<>>) = 0
  OBVIOUS
<1>6. UploadTypeOK'
  <2>1. conn' \in [Callers -> Resources \cup {NoServer}]
    BY <1>2, <1>3, InvParts, UploadParts
  <2>2. toServer' \in [Callers -> Seq(Messages)]
    BY <1>2, <1>3, <1>5, InvParts, UploadParts
  <2>3. toClient' \in [Callers -> Seq(Responses)]
    BY <1>2, <1>3, <1>5, InvParts, UploadParts
  <2>4. queue' \in [Resources -> Seq(Entries)]
    BY <1>1, <1>4, <1>5, InvParts, UploadParts
  <2>5. \A r \in Resources : Len(queue'[r]) <= QueueSize + 1
    <3>1. 0 <= QueueSize + 1
      BY BlocksAssumption
    <3> QED
      BY <1>4, <1>5, <3>1, InvParts, UploadParts
  <2>6. \A d \in Callers : conn'[d] = NoServer => toServer'[d] = <<>> /\ toClient'[d] = <<>>
    BY <1>2, InvParts, UploadParts
  <2> QED
    BY <1>1, <2>1, <2>2, <2>3, <2>4, <2>5, <2>6, InvParts, UploadParts DEF UploadTypeOK
<1>7. \A i : i \notin DOMAIN <<>>
  OBVIOUS
<1>8. OpenHere'
  <2> SUFFICES ASSUME NEW r \in Resources, NEW i \in DOMAIN queue'[r], queue'[r][i].open
               PROVE  conn'[queue'[r][i].client] = r
    BY DEF OpenHere
  <2>1. queue'[r] = queue[r] /\ ~Ends(r)
    BY <1>4, <1>7
  <2>2. conn[queue[r][i].client] = r /\ queue[r][i].client \in Callers
    BY <2>1, EntryIs
  <2> QED
    BY <1>2, <2>1, <2>2
<1>9. \A r \in Resources : \A i \in DOMAIN queue'[r] : queue'[r] = queue[r]
  BY <1>4, <1>7
<1>10. \A d \in Callers : /\ \A i \in DOMAIN toServer'[d] : toServer'[d] = toServer[d]
                          /\ \A i \in DOMAIN toClient'[d] : toClient'[d] = toClient[d]
                          /\ toServer'[d] # <<>> \/ toClient'[d] # <<>> => conn'[d] = conn[d]
  BY <1>2, <1>7
<1> QED
  BY <1>1, <1>6, <1>8, <1>9, <1>10, Unmoved

-----------------------------------------------------------------------------
(* Steps that move blocks                                                  *)

\* A place in a channel or queue but for the first element, before and after it is
\* taken; another element at its end.
LEMMA Shifts ==
  ASSUME NEW S, NEW q \in Seq(S), q # <<>>, NEW i \in DOMAIN Tail(q)
  PROVE  i + 1 \in DOMAIN q /\ Tail(q)[i] = q[i + 1] /\ (i + 1) - 1 = i /\ i + 1 # 1
BY TailIs

\* f takes places to places, and g takes them back.
LEMMA CarriesBack ==
  ASSUME NEW O, NEW f, NEW g, f = [p \in O |-> f[p]],
         \A p \in O : f[p] \in Flight /\ Rides(p, f[p]) /\ g[f[p]] = p
  PROVE  Carries(O, f)
<1>1. f \in [O -> Flight]
  OBVIOUS
<1>2. \A p, q \in O : p # q => f[p] # f[q]
  OBVIOUS
<1> QED
  BY <1>1, <1>2 DEF Carries

\* handle_msgbody.
LEMMA HandleMsgBodyInv ==
  ASSUME UploadInv, NEW c \in Callers, HandleMsgBody(c)
  PROVE  UploadInv'
<1>1. PICK s : s = toServer[c]
  OBVIOUS
<1>2. s \in Seq(Messages) /\ s # <<>>
  BY <1>1, InvParts, UploadParts DEF HandleMsgBody
<1>3. PICK r \in Resources : r = conn[c]
  BY InvParts, UploadParts DEF HandleMsgBody
<1>4. PICK m \in Messages : m = Head(s) /\ m = s[1] /\ 1 \in DOMAIN s
  BY <1>2, TailIs
<1>5. PICK q \in Seq(Entries) : q = queue[r] /\ Len(q) <= QueueSize + 1
  BY InvParts, UploadParts
<1>6. PICK e \in Entries : e.client = c /\ e.open /\ e.msg = m
                           /\ e = [client |-> c, open |-> TRUE, msg |-> m]
  BY DEF Entries
<1>7. PICK n : n = Len(q) + 1
  OBVIOUS
<1>8. PICK t : t = IF Len(q) > QueueSize THEN q ELSE Append(q, e)
  OBVIOUS
<1>9. /\ t \in Seq(Entries) /\ Len(t) <= QueueSize + 1 /\ n \notin DOMAIN q
      /\ \A i \in DOMAIN t : \/ i \in DOMAIN q /\ i # n /\ t[i] = q[i]
                             \/ i = n /\ t[i] = e
  <2>1. Len(q) > QueueSize \/ Len(q) + 1 <= QueueSize + 1
    BY <1>5, BlocksAssumption
  <2> QED
    BY <1>5, <1>7, <1>8, <2>1, AppendIs
<1>10. /\ queue' = [queue EXCEPT ![r] = t]
       /\ toServer' = [toServer EXCEPT ![c] = Tail(s)]
       /\ UNCHANGED <<conn, upload, toClient, disk, route, uploads>>
  BY <1>1, <1>3, <1>4, <1>5, <1>6, <1>8 DEF HandleMsgBody, Commit
<1>11. Tail(s) \in Seq(Messages)
  BY <1>2, TailIs
<1>12. /\ queue' \in [Resources -> Seq(Entries)] /\ queue'[r] = t
       /\ \A x \in Resources \ {r} : queue'[x] = queue[x]
       /\ toServer' \in [Callers -> Seq(Messages)] /\ toServer'[c] = Tail(s)
       /\ \A d \in Callers \ {c} : toServer'[d] = toServer[d]
  BY <1>9, <1>10, <1>11, InvParts, UploadParts
<1>13. UploadTypeOK'
  <2>1. \A x \in Resources : Len(queue'[x]) <= QueueSize + 1
    BY <1>9, <1>12, InvParts, UploadParts
  <2>2. \A d \in Callers : conn'[d] = NoServer => toServer'[d] = <<>> /\ toClient'[d] = <<>>
    <3>1. conn[c] # NoServer
      BY <1>3, NamesAssumption
    <3> QED
      BY <1>10, <1>12, <3>1, InvParts, UploadParts
  <2> QED
    BY <1>10, <1>12, <2>1, <2>2, InvParts, UploadParts DEF UploadTypeOK
<1>14. OpenHere'
  <2> SUFFICES ASSUME NEW x \in Resources, NEW i \in DOMAIN queue'[x], queue'[x][i].open
               PROVE  conn[queue'[x][i].client] = x
    BY <1>10 DEF OpenHere
  <2>1. CASE i \in DOMAIN queue[x] /\ queue'[x][i] = queue[x][i]
    BY <2>1, EntryIs
  <2>2. CASE x = r /\ queue'[x][i] = e
    BY <1>3, <1>6, <2>2
  <2> QED
    BY <1>5, <1>9, <1>12, <2>1, <2>2
<1> DEFINE f == [p \in Flight' |->
                   IF p[1] = "out" /\ p[2] = c THEN <<"out", c, p[3] + 1>>
                   ELSE IF p = <<"queue", r, n>> THEN <<"out", c, 1>> ELSE p]
           g == [o \in Flight |->
                   IF o[1] = "out" /\ o[2] = c
                   THEN IF o[3] = 1 THEN <<"queue", r, n>> ELSE <<"out", c, o[3] - 1>> ELSE o]
           OK(p, o) == o \in Flight /\ f[p] = o /\ g[o] = p /\ Rides(p, o) /\ Still(p, o)
<1> HIDE DEF f, g
<1>15. ASSUME NEW p \in Flight', NEW i, OutNext(p, c, i) PROVE OK(p, <<"out", c, i + 1>>)
  <2>1. i + 1 \in DOMAIN s /\ Tail(s)[i] = s[i + 1] /\ (i + 1) - 1 = i /\ i + 1 # 1
    BY <1>2, <1>12, <1>15, Shifts DEF OutNext
  <2>2. PICK k : k = i + 1
    OBVIOUS
  <2>3. PICK o : o = <<"out", c, k>>
    OBVIOUS
  <2>4. /\ o \in Flight /\ Block(o) = s[k] /\ Whose(o) = c /\ Where(o) = conn[c]
        /\ o[1] = "out" /\ o[2] = c /\ o[3] = k
    BY <1>1, <1>12, <1>15, <2>1, <2>2, <2>3, Places, Values DEF OutNext
  <2>5. p[1] = "out" /\ p[2] = c /\ p[3] = i /\ p = <<"out", c, i>>
    BY <1>15 DEF OutNext
  <2>6. f[p] = o /\ g[o] = p
    BY <2>1, <2>2, <2>3, <2>4, <2>5 DEF f, g
  <2>7. Rides(p, o) /\ Still(p, o)
    BY <1>10, <1>12, <1>15, <2>1, <2>2, <2>4 DEF OutNext, Rides, Still
  <2> QED
    BY <2>2, <2>3, <2>4, <2>6, <2>7
<1>16. ASSUME NEW p \in Flight', NEW d \in Callers \ {c}, NEW i, OutNext(p, d, i) PROVE OK(p, p)
  <2>1. p \in Flight /\ Block(p) = toServer[d][i] /\ Whose(p) = d /\ Where(p) = conn[d]
    BY <1>12, <1>16, Places, Values DEF OutNext
  <2>2. p[1] = "out" /\ p[2] = d /\ p # <<"queue", r, n>>
    BY <1>16 DEF OutNext
  <2>3. f[p] = p /\ g[p] = p
    BY <2>1, <2>2 DEF f, g
  <2> QED
    BY <1>10, <1>12, <1>16, <2>1, <2>3 DEF OutNext, Rides, Still
<1>17. ASSUME NEW p \in Flight', NEW x \in Resources, NEW i, QueueNext(p, x, i),
              i \in DOMAIN queue[x], queue'[x][i] = queue[x][i], x # r \/ i # n
       PROVE  OK(p, p)
  <2>1. p \in Flight /\ Block(p) = queue[x][i].msg /\ Whose(p) = queue[x][i].client /\ Where(p) = x
    BY <1>17, Places, Values DEF QueueNext
  <2>2. p[1] = "queue" /\ p # <<"queue", r, n>>
    BY <1>17 DEF QueueNext
  <2>3. f[p] = p /\ g[p] = p
    BY <2>1, <2>2 DEF f, g
  <2> QED
    BY <1>17, <2>1, <2>3 DEF QueueNext, Rides, Still
<1>18. ASSUME NEW p \in Flight', QueueNext(p, r, n), queue'[r][n] = e PROVE OK(p, <<"out", c, 1>>)
  <2>1. PICK o : o = <<"out", c, 1>>
    OBVIOUS
  <2>2. /\ o \in Flight /\ Block(o) = m /\ Whose(o) = c /\ Where(o) = r
        /\ o[1] = "out" /\ o[2] = c /\ o[3] = 1
    BY <1>1, <1>3, <1>4, <1>6, <1>18, <2>1, Places, Values DEF QueueNext
  <2>3. p[1] = "queue" /\ p = <<"queue", r, n>>
    BY <1>18 DEF QueueNext
  <2>4. f[p] = o /\ g[o] = p
    BY <2>1, <2>2, <2>3 DEF f, g
  <2> QED
    BY <1>6, <1>18, <2>1, <2>2, <2>3, <2>4 DEF QueueNext, Rides, Still
<1>19. ASSUME NEW p \in Flight', NEW d \in Callers, NEW i, InNext(p, d, i) PROVE OK(p, p)
  <2>1. p \in Flight /\ Block(p) = toClient[d][i] /\ Whose(p) = d /\ Where(p) = conn[d]
    BY <1>10, <1>19, Places, Values DEF InNext
  <2>2. p[1] = "in" /\ p # <<"queue", r, n>>
    BY <1>19 DEF InNext
  <2>3. f[p] = p /\ g[p] = p
    BY <2>1, <2>2 DEF f, g
  <2> QED
    BY <1>10, <1>19, <2>1, <2>3 DEF InNext, Rides, Still
<1>20. ASSUME NEW p \in Flight' PROVE OK(p, f[p])
  <2>1. ASSUME NEW x \in Resources, NEW i, QueueNext(p, x, i) PROVE OK(p, f[p])
    <3>1. \/ i \in DOMAIN queue[x] /\ queue'[x][i] = queue[x][i] /\ (x # r \/ i # n)
          \/ x = r /\ i = n /\ queue'[r][n] = e
      BY <1>5, <1>9, <1>12, <2>1 DEF QueueNext
    <3> QED
      BY <1>17, <1>18, <2>1, <3>1
  <2> QED
    BY <1>15, <1>16, <1>19, <2>1, PlaceNext
<1>21. Carries(Flight', f) /\ \A p \in Flight' : Still(p, f[p])
  <2>1. f = [p \in Flight' |-> f[p]]
    BY DEF f
  <2> QED
    BY <1>20, <2>1, CarriesBack
<1>22. \A d \in Callers : Same(upload'[d], upload[d])
  BY <1>10 DEF Same
<1> QED
  BY <1>10, <1>13, <1>14, <1>21, <1>22, Moved

\* What is at o is taken, and the others go on.
Takes(O, f, o) == Carries(O, f) /\ \A p \in O : Still(p, f[p]) /\ f[p] # o

\* They are not of its upload, if one of them began alone.
LEMMA Apart ==
  ASSUME UploadInv, NEW O, NEW f, NEW o \in Flight, Takes(O, f, o), NEW p \in O,
         Block(o).alone \/ Block(p)'.alone
  PROVE  Block(o).id # Block(p)'.id
<1>1. PICK x \in Flight : x = f[p] /\ Rides(p, x) /\ x # o
  BY DEF Takes, Carries
<1>2. Block(x).alone \/ Block(o).alone => Block(o).id # Block(x).id
  BY <1>1 DEF UploadInv, OneOnItsWay
<1> QED
  BY <1>1, <1>2 DEF Rides

\* A client takes the first answer.
LEMMA AnswerTaken ==
  ASSUME UploadInv, NEW c \in Callers, toClient[c] # <<>>,
         toClient' = [toClient EXCEPT ![c] = Tail(@)], UNCHANGED <<conn, queue>>,
         NEW O, O \subseteq Flight',
         \A p \in O : \A d \in Callers : \A i : OutNext(p, d, i) =>
           i \in DOMAIN toServer[d] /\ toServer'[d][i] = toServer[d][i]
  PROVE  /\ <<"in", c, 1>> \in Flight /\ Block(<<"in", c, 1>>) = Head(toClient[c])
         /\ Whose(<<"in", c, 1>>) = c /\ Where(<<"in", c, 1>>) = conn[c]
         /\ \E f : Takes(O, f, <<"in", c, 1>>)
<1>1. PICK s \in Seq(Responses) : s = toClient[c] /\ s # <<>>
  BY InvParts, UploadParts
<1>2. 1 \in DOMAIN s /\ Head(s) = s[1] /\ Tail(s) \in Seq(Responses)
  BY <1>1, TailIs
<1>3. /\ toClient'[c] = Tail(s)
      /\ \A d \in Callers \ {c} : toClient'[d] = toClient[d]
  BY <1>1, <1>2, InvParts, UploadParts
<1>4. /\ <<"in", c, 1>> \in Flight /\ Block(<<"in", c, 1>>) = Head(toClient[c])
      /\ Whose(<<"in", c, 1>>) = c /\ Where(<<"in", c, 1>>) = conn[c]
  BY <1>1, <1>2, Places, Values
<1> DEFINE f == [p \in O |->
                   IF p[1] = "in" /\ p[2] = c THEN <<"in", c, p[3] + 1>> ELSE p]
           g == [o \in Flight |->
                   IF o[1] = "in" /\ o[2] = c THEN <<"in", c, o[3] - 1>> ELSE o]
           OK(p, o) == /\ o \in Flight /\ f[p] = o /\ g[o] = p /\ Rides(p, o) /\ Still(p, o)
                       /\ o # <<"in", c, 1>>
<1> HIDE DEF f, g
<1>5. ASSUME NEW p \in O, NEW i, InNext(p, c, i) PROVE OK(p, <<"in", c, i + 1>>)
  <2>0. i \in DOMAIN Tail(s)
    BY <1>3, <1>5 DEF InNext
  <2>1. i + 1 \in DOMAIN s /\ Tail(s)[i] = s[i + 1] /\ (i + 1) - 1 = i /\ i + 1 # 1
    BY <1>1, <2>0, Shifts
  <2>2. PICK k : k = i + 1
    OBVIOUS
  <2>3. PICK o : o = <<"in", c, k>>
    OBVIOUS
  <2>4. /\ o \in Flight /\ Block(o) = s[k] /\ Whose(o) = c /\ Where(o) = conn[c]
        /\ o[1] = "in" /\ o[2] = c /\ o[3] = k
    BY <1>1, <2>1, <2>2, <2>3, Places, Values
  <2>5. p[1] = "in" /\ p[2] = c /\ p[3] = i /\ p = <<"in", c, i>>
    BY <1>5 DEF InNext
  <2>6. f[p] = o /\ g[o] = p
    BY <2>1, <2>2, <2>3, <2>4, <2>5 DEF f, g
  <2>7. Rides(p, o) /\ Still(p, o)
    BY <1>3, <1>5, <2>1, <2>2, <2>4 DEF InNext, Rides, Still
  <2>8. o # <<"in", c, 1>>
    BY <2>1, <2>2, <2>3
  <2> QED
    BY <2>2, <2>3, <2>4, <2>6, <2>7, <2>8
<1>6. ASSUME NEW p \in O, NEW d \in Callers \ {c}, NEW i, InNext(p, d, i) PROVE OK(p, p)
  <2>1. p \in Flight /\ Block(p) = toClient[d][i] /\ Whose(p) = d /\ Where(p) = conn[d]
    BY <1>3, <1>6, Places, Values DEF InNext
  <2>2. p[1] = "in" /\ p[2] = d /\ p # <<"in", c, 1>>
    BY <1>6 DEF InNext
  <2>3. f[p] = p /\ g[p] = p
    BY <2>1, <2>2 DEF f, g
  <2> QED
    BY <1>3, <1>6, <2>1, <2>2, <2>3 DEF InNext, Rides, Still
<1>7. ASSUME NEW p \in O, NEW d \in Callers, NEW i, OutNext(p, d, i) PROVE OK(p, p)
  <2>0. i \in DOMAIN toServer[d] /\ toServer'[d][i] = toServer[d][i]
    BY <1>7
  <2>1. p \in Flight /\ Block(p) = toServer[d][i] /\ Whose(p) = d /\ Where(p) = conn[d]
    BY <1>7, <2>0, Places, Values DEF OutNext
  <2>2. p[1] = "out" /\ p # <<"in", c, 1>>
    BY <1>7 DEF OutNext
  <2>3. f[p] = p /\ g[p] = p
    BY <2>1, <2>2 DEF f, g
  <2> QED
    BY <1>7, <2>0, <2>1, <2>2, <2>3 DEF OutNext, Rides, Still
<1>8. ASSUME NEW p \in O, NEW r \in Resources, NEW i, QueueNext(p, r, i) PROVE OK(p, p)
  <2>1. p \in Flight /\ Block(p) = queue[r][i].msg /\ Whose(p) = queue[r][i].client /\ Where(p) = r
    BY <1>8, Places, Values DEF QueueNext
  <2>2. p[1] = "queue" /\ p # <<"in", c, 1>>
    BY <1>8 DEF QueueNext
  <2>3. f[p] = p /\ g[p] = p
    BY <2>1, <2>2 DEF f, g
  <2> QED
    BY <1>8, <2>1, <2>2, <2>3 DEF QueueNext, Rides, Still
<1>9. ASSUME NEW p \in O PROVE OK(p, f[p])
  <2>1. p \in Flight'
    OBVIOUS
  <2>2. ASSUME NEW d \in Callers, NEW i, OutNext(p, d, i) PROVE OK(p, f[p])
    BY <1>7, <2>2
  <2>3. ASSUME NEW x \in Resources, NEW i, QueueNext(p, x, i) PROVE OK(p, f[p])
    BY <1>8, <2>3
  <2>4. ASSUME NEW d \in Callers, NEW i, InNext(p, d, i) PROVE OK(p, f[p])
    <3>1. CASE d = c
      <4>1. PICK o : o = <<"in", c, i + 1>> /\ OK(p, o)
        BY <1>5, <2>4, <3>1
      <4>2. f[p] = o
        BY <4>1
      <4> QED
        BY <4>1, <4>2
    <3>2. CASE d # c
      BY <1>6, <2>4, <3>2
    <3> QED
      BY <3>1, <3>2
  <2> QED
    BY <2>1, <2>2, <2>3, <2>4, PlaceNext
<1>10. Takes(O, f, <<"in", c, 1>>)
  <2>1. f = [p \in O |-> f[p]]
    BY DEF f
  <2> QED
    BY <1>9, <2>1, CarriesBack DEF Takes
<1> QED
  BY <1>4, <1>10

\* A server takes the first request, and nobody sends to it.
LEMMA RequestTaken ==
  ASSUME UploadInv, NEW r \in Resources, queue[r] # <<>>,
         queue' = [queue EXCEPT ![r] = Tail(@)], UNCHANGED <<conn, toServer>>,
         NEW O, O \subseteq Flight',
         \A p \in O : \A d \in Callers : \A i : InNext(p, d, i) =>
           i \in DOMAIN toClient[d] /\ toClient'[d][i] = toClient[d][i]
  PROVE  \E f : Takes(O, f, <<"queue", r, 1>>)
<1>1. PICK s \in Seq(Entries) : s = queue[r] /\ s # <<>>
  BY InvParts, UploadParts
<1>2. Tail(s) \in Seq(Entries)
  BY <1>1, TailIs
<1>3. /\ queue'[r] = Tail(s)
      /\ \A x \in Resources \ {r} : queue'[x] = queue[x]
  BY <1>1, <1>2, InvParts, UploadParts
<1> DEFINE f == [p \in O |->
                   IF p[1] = "queue" /\ p[2] = r THEN <<"queue", r, p[3] + 1>> ELSE p]
           g == [o \in Flight |->
                   IF o[1] = "queue" /\ o[2] = r THEN <<"queue", r, o[3] - 1>> ELSE o]
           OK(p, o) == /\ o \in Flight /\ f[p] = o /\ g[o] = p /\ Rides(p, o) /\ Still(p, o)
                       /\ o # <<"queue", r, 1>>
<1> HIDE DEF f, g
<1>5. ASSUME NEW p \in O, NEW i, QueueNext(p, r, i) PROVE OK(p, <<"queue", r, i + 1>>)
  <2>0. i \in DOMAIN Tail(s) /\ Tail(s)[i].msg.type = "upload"
    BY <1>3, <1>5 DEF QueueNext
  <2>1. i + 1 \in DOMAIN s /\ Tail(s)[i] = s[i + 1] /\ (i + 1) - 1 = i /\ i + 1 # 1
    BY <1>1, <2>0, Shifts
  <2>2. PICK k : k = i + 1
    OBVIOUS
  <2>3. PICK o : o = <<"queue", r, k>>
    OBVIOUS
  <2>4. /\ o \in Flight /\ Block(o) = s[k].msg /\ Whose(o) = s[k].client /\ Where(o) = r
        /\ o[1] = "queue" /\ o[2] = r /\ o[3] = k
    <3>1. k \in DOMAIN queue[r] /\ queue[r][k].msg.type = "upload" /\ queue[r][k] = s[k]
      BY <1>1, <2>0, <2>1, <2>2
    <3> QED
      BY <2>3, <3>1, Places, Values
  <2>5. p[1] = "queue" /\ p[2] = r /\ p[3] = i /\ p = <<"queue", r, i>>
    BY <1>5 DEF QueueNext
  <2>6. f[p] = o /\ g[o] = p
    BY <2>1, <2>2, <2>3, <2>4, <2>5 DEF f, g
  <2>7. Rides(p, o) /\ Still(p, o)
    BY <1>3, <1>5, <2>1, <2>2, <2>4 DEF QueueNext, Rides, Still
  <2>8. o # <<"queue", r, 1>>
    BY <2>1, <2>2, <2>3
  <2> QED
    BY <2>2, <2>3, <2>4, <2>6, <2>7, <2>8
<1>6. ASSUME NEW p \in O, NEW x \in Resources \ {r}, NEW i, QueueNext(p, x, i) PROVE OK(p, p)
  <2>1. p \in Flight /\ Block(p) = queue[x][i].msg /\ Whose(p) = queue[x][i].client /\ Where(p) = x
    BY <1>3, <1>6, Places, Values DEF QueueNext
  <2>2. p[1] = "queue" /\ p[2] = x /\ p # <<"queue", r, 1>>
    BY <1>6 DEF QueueNext
  <2>3. f[p] = p /\ g[p] = p
    BY <2>1, <2>2 DEF f, g
  <2> QED
    BY <1>3, <1>6, <2>1, <2>2, <2>3 DEF QueueNext, Rides, Still
<1>7. ASSUME NEW p \in O, NEW d \in Callers, NEW i, InNext(p, d, i) PROVE OK(p, p)
  <2>0. i \in DOMAIN toClient[d] /\ toClient'[d][i] = toClient[d][i]
    BY <1>7
  <2>1. p \in Flight /\ Block(p) = toClient[d][i] /\ Whose(p) = d /\ Where(p) = conn[d]
    BY <1>7, <2>0, Places, Values DEF InNext
  <2>2. p[1] = "in" /\ p # <<"queue", r, 1>>
    BY <1>7 DEF InNext
  <2>3. f[p] = p /\ g[p] = p
    BY <2>1, <2>2 DEF f, g
  <2> QED
    BY <1>7, <2>0, <2>1, <2>2, <2>3 DEF InNext, Rides, Still
<1>8. ASSUME NEW p \in O, NEW d \in Callers, NEW i, OutNext(p, d, i) PROVE OK(p, p)
  <2>1. p \in Flight /\ Block(p) = toServer[d][i] /\ Whose(p) = d /\ Where(p) = conn[d]
    BY <1>8, Places, Values DEF OutNext
  <2>2. p[1] = "out" /\ p # <<"queue", r, 1>>
    BY <1>8 DEF OutNext
  <2>3. f[p] = p /\ g[p] = p
    BY <2>1, <2>2 DEF f, g
  <2> QED
    BY <1>8, <2>1, <2>2, <2>3 DEF OutNext, Rides, Still
<1>9. ASSUME NEW p \in O PROVE OK(p, f[p])
  <2>1. p \in Flight'
    OBVIOUS
  <2>2. ASSUME NEW d \in Callers, NEW i, OutNext(p, d, i) PROVE OK(p, f[p])
    BY <1>8, <2>2
  <2>3. ASSUME NEW x \in Resources, NEW i, QueueNext(p, x, i) PROVE OK(p, f[p])
    <3>1. CASE x = r
      <4>1. PICK o : o = <<"queue", r, i + 1>> /\ OK(p, o)
        BY <1>5, <2>3, <3>1
      <4>2. f[p] = o
        BY <4>1
      <4> QED
        BY <4>1, <4>2
    <3>2. CASE x # r
      BY <1>6, <2>3, <3>2
    <3> QED
      BY <3>1, <3>2
  <2>4. ASSUME NEW d \in Callers, NEW i, InNext(p, d, i) PROVE OK(p, f[p])
    BY <1>7, <2>4
  <2> QED
    BY <2>1, <2>2, <2>3, <2>4, PlaceNext
<1>10. Takes(O, f, <<"queue", r, 1>>)
  <2>1. f = [p \in O |-> f[p]]
    BY DEF f
  <2> QED
    BY <1>9, <2>1, CarriesBack DEF Takes
<1> QED
  BY <1>10

\* The queue without its first request.
LEMMA Popped ==
  ASSUME UploadInv, NEW r \in Resources, queue[r] # <<>>,
         queue' = [queue EXCEPT ![r] = Tail(@)], UNCHANGED conn
  PROVE  /\ queue' \in [Resources -> Seq(Entries)]
         /\ \A x \in Resources : Len(queue'[x]) <= QueueSize + 1
         /\ OpenHere'
<1>1. PICK s \in Seq(Entries) : s = queue[r] /\ s # <<>>
  BY InvParts, UploadParts
<1>2. /\ Tail(s) \in Seq(Entries) /\ Len(Tail(s)) = Len(s) - 1 /\ Len(s) \in Nat
      /\ \A i \in DOMAIN Tail(s) : i + 1 \in DOMAIN s /\ Tail(s)[i] = s[i + 1]
  BY <1>1, TailIs
<1>3. /\ queue' \in [Resources -> Seq(Entries)] /\ queue'[r] = Tail(s)
      /\ \A x \in Resources \ {r} : queue'[x] = queue[x]
  BY <1>1, <1>2, InvParts, UploadParts
<1>4. ASSUME NEW x \in Resources PROVE Len(queue'[x]) <= QueueSize + 1
  <2>1. Len(s) <= QueueSize + 1 /\ QueueSize \in Nat
    BY <1>1, InvParts, UploadParts, BlocksAssumption
  <2>2. CASE x = r
    BY <1>2, <1>3, <2>1, <2>2
  <2>3. CASE x # r
    BY <1>3, <2>3, InvParts, UploadParts
  <2> QED
    BY <2>2, <2>3
<1>5. OpenHere'
  <2> SUFFICES ASSUME NEW x \in Resources, NEW i \in DOMAIN queue'[x], queue'[x][i].open
               PROVE  conn[queue'[x][i].client] = x
    BY DEF OpenHere
  <2>1. CASE x = r
    <3>1. i + 1 \in DOMAIN queue[r] /\ queue'[x][i] = queue[r][i + 1]
      BY <1>1, <1>2, <1>3, <2>1
    <3> QED
      BY <2>1, <3>1, EntryIs
  <2>2. CASE x # r
    BY <1>3, <2>2, EntryIs
  <2> QED
    BY <2>1, <2>2
<1> QED
  BY <1>3, <1>4, <1>5

\* A request that is not of a block.
LEMMA PopInv ==
  ASSUME UploadInv, NEW r \in Resources, queue[r] # <<>>,
         queue' = [queue EXCEPT ![r] = Tail(@)],
         UNCHANGED <<conn, upload, toServer, toClient, disk, uploads>>,
         route' \in [Uuids -> Resources \cup {NoServer}]
  PROVE  UploadInv'
<1>1. UploadTypeOK' /\ OpenHere'
  BY Popped, InvParts, UploadParts DEF UploadTypeOK
<1>2. \A p \in Flight' : \A d \in Callers : \A i : InNext(p, d, i) =>
        i \in DOMAIN toClient[d] /\ toClient'[d][i] = toClient[d][i]
  BY DEF InNext
<1>3. PICK f : Takes(Flight', f, <<"queue", r, 1>>)
  BY <1>2, RequestTaken
<1>4. \A d \in Callers : Same(upload'[d], upload[d])
  BY DEF Same
<1> QED
  BY <1>1, <1>3, <1>4, Moved DEF Takes

\* handlingLogin and handlingLogout.
LEMMA HandlingLoginInv ==
  ASSUME UploadInv, NEW r \in Resources, HandlingLogin(r) \/ HandlingLogout(r)
  PROVE  UploadInv'
<1>1. /\ queue[r] # <<>> /\ queue' = [queue EXCEPT ![r] = Tail(@)]
      /\ UNCHANGED <<conn, upload, toServer, toClient, disk, uploads>>
  BY DEF HandlingLogin, HandlingLogout, Next1, Pop
<1>2. route' \in [Uuids -> Resources \cup {NoServer}]
  BY InvParts, UploadParts DEF HandlingLogin, HandlingLogout, TagCurrentUser
<1> QED
  BY <1>1, <1>2, PopInv

\* The client takes an answer, and sends nothing.
LEMMA AnsweredInv ==
  ASSUME UploadInv, NEW c \in Callers, toClient[c] # <<>>,
         toClient' = [toClient EXCEPT ![c] = Tail(@)],
         UNCHANGED <<conn, queue, toServer, disk, route, uploads>>,
         upload' \in [Callers -> Transfers], \A d \in Callers : Same(upload'[d], upload[d])
  PROVE  UploadInv'
<1>1. toClient[c] \in Seq(Responses)
  BY InvParts, UploadParts
<1>2. Tail(toClient[c]) \in Seq(Responses)
  BY <1>1, TailIs
<1>3. toClient' \in [Callers -> Seq(Responses)]
  BY <1>2, InvParts, UploadParts
<1>4. conn[c] # NoServer
  BY InvParts, UploadParts
<1>5. \A d \in Callers : conn'[d] = NoServer => toServer'[d] = <<>> /\ toClient'[d] = <<>>
  BY <1>4, InvParts, UploadParts
<1>6. UploadTypeOK' /\ OpenHere'
  BY <1>3, <1>5, InvParts, UploadParts DEF UploadTypeOK, OpenHere
<1>7. \A p \in Flight' : \A d \in Callers : \A i : OutNext(p, d, i) =>
        i \in DOMAIN toServer[d] /\ toServer'[d][i] = toServer[d][i]
  BY DEF OutNext
<1>8. PICK f : Takes(Flight', f, <<"in", c, 1>>)
  BY <1>7, AnswerTaken
<1> QED
  BY <1>6, <1>8, Moved DEF Takes

-----------------------------------------------------------------------------
(* A block is sent                                                         *)

\* The channel to the server with one more block, and the place of the block.
LEMMA BlockSent ==
  ASSUME UploadInv, NEW c \in Callers, NEW m \in Messages, m.type = "upload",
         toServer' = [toServer EXCEPT ![c] = Append(@, m)], conn' = conn
  PROVE  /\ toServer' \in [Callers -> Seq(Messages)]
         /\ \A d \in Callers \ {c} : toServer'[d] = toServer[d]
         /\ \E n : LET o == <<"out", c, n>> IN
              /\ o \in Flight' /\ OutNext(o, c, n) /\ Block(o)' = m
              /\ \A p \in Flight' \ {o} : \A d \in Callers : \A i : OutNext(p, d, i) =>
                   i \in DOMAIN toServer[d] /\ toServer'[d][i] = toServer[d][i]
<1>1. PICK s \in Seq(Messages) : s = toServer[c]
  BY InvParts, UploadParts
<1>2. PICK t : t = Append(s, m)
  OBVIOUS
<1>3. PICK n : n = Len(s) + 1
  OBVIOUS
<1>4. /\ t \in Seq(Messages) /\ n \in DOMAIN t /\ t[n] = m
      /\ \A i \in DOMAIN t : i = n \/ i \in DOMAIN s
      /\ \A i \in DOMAIN s : t[i] = s[i]
  BY <1>2, <1>3, AppendIs
<1>5. /\ toServer' \in [Callers -> Seq(Messages)] /\ toServer'[c] = t
      /\ \A d \in Callers \ {c} : toServer'[d] = toServer[d]
  BY <1>1, <1>2, <1>4, InvParts, UploadParts
<1>6. PICK o : o = <<"out", c, n>>
  OBVIOUS
<1>7. o \in Flight'
  BY <1>4, <1>5, <1>6, PlacesNext
<1>8. OutNext(o, c, n) /\ Block(o)' = m
  BY <1>4, <1>5, <1>6 DEF OutNext, Block, Whose, Where
<1>9. ASSUME NEW p \in Flight' \ {o}, NEW d \in Callers, NEW i, OutNext(p, d, i)
      PROVE  i \in DOMAIN toServer[d] /\ toServer'[d][i] = toServer[d][i]
  <2>1. CASE d = c
    <3>1. i # n
      BY <1>6, <1>9, <2>1 DEF OutNext
    <3> QED
      BY <1>1, <1>4, <1>5, <1>9, <2>1, <3>1 DEF OutNext
  <2>2. CASE d # c
    BY <1>5, <1>9, <2>2 DEF OutNext
  <2> QED
    BY <2>1, <2>2
<1> QED
  BY <1>5, <1>6, <1>7, <1>8, <1>9

\* A client that is answered sends the next block of its file.
LEMMA NextBlockInv ==
  ASSUME UploadInv, NEW c \in Callers, toClient[c] # <<>>,
         toClient' = [toClient EXCEPT ![c] = Tail(@)],
         UNCHANGED <<conn, queue, disk, route, uploads>>,
         NEW a \in Responses, a = Head(toClient[c]), a.ok,
         NEW u \in Transfers, u.isOpen, u.seq = a.seq + 1, u.id = upload[c].id,
         u.alone = upload[c].alone, u.pos = upload[c].pos, u.file = upload[c].file,
         u.isOpen = upload[c].isOpen, u.pos # Blocks, u.seq <= Blocks,
         upload' = [upload EXCEPT ![c] = [u EXCEPT !.pos = @ + 1]],
         toServer' = [toServer EXCEPT ![c] = Append(@, BlockOf(u))]
  PROVE  UploadInv'
<1>1. PICK v : v = [u EXCEPT !.pos = @ + 1]
  OBVIOUS
<1>2. /\ v \in Transfers /\ v.pos = u.pos + 1 /\ v.file = u.file /\ v.id = u.id
      /\ v.alone = u.alone /\ v.isOpen = u.isOpen
  <2>1. v \in Transfers
    BY <1>1, TransferUpdates
  <2> QED
    BY <1>1, <2>1 DEF Transfers
<1>3. PICK m \in Messages : /\ m = BlockOf(u) /\ m.type = "upload"
                            /\ m.file = u.file /\ m.seq = u.seq /\ m.pos = u.pos + 1
                            /\ m.id = u.id /\ m.alone = u.alone
  BY MessageIs
<1>4. upload' \in [Callers -> Transfers] /\ upload'[c] = v
      /\ \A d \in Callers \ {c} : upload'[d] = upload[d]
  BY <1>1, <1>2, InvParts, UploadParts
<1>5. PICK n : LET o == <<"out", c, n>> IN
        /\ o \in Flight' /\ OutNext(o, c, n) /\ Block(o)' = m
        /\ \A p \in Flight' \ {o} : \A d \in Callers : \A i : OutNext(p, d, i) =>
             i \in DOMAIN toServer[d] /\ toServer'[d][i] = toServer[d][i]
  BY <1>3, BlockSent
<1>6. PICK new \in Flight' :
        /\ new = <<"out", c, n>> /\ OutNext(new, c, n) /\ Block(new)' = m
        /\ \A p \in Flight' \ {new} : \A d \in Callers : \A i : OutNext(p, d, i) =>
             i \in DOMAIN toServer[d] /\ toServer'[d][i] = toServer[d][i]
  BY <1>5
<1>7. PICK O : O = Flight' \ {new}
  OBVIOUS
<1>8. PICK o : o = <<"in", c, 1>>
  OBVIOUS
<1>9. /\ o \in Flight /\ Block(o) = a /\ Whose(o) = c /\ Where(o) = conn[c] /\ o[1] = "in"
      /\ \E f : Takes(O, f, o)
  <2>1. O \subseteq Flight'
    BY <1>7
  <2>2. \A p \in O : \A d \in Callers : \A i : OutNext(p, d, i) =>
          i \in DOMAIN toServer[d] /\ toServer'[d][i] = toServer[d][i]
    BY <1>6, <1>7
  <2>3. /\ <<"in", c, 1>> \in Flight /\ Block(<<"in", c, 1>>) = Head(toClient[c])
        /\ Whose(<<"in", c, 1>>) = c /\ Where(<<"in", c, 1>>) = conn[c]
        /\ \E f : Takes(O, f, <<"in", c, 1>>)
    BY <2>1, <2>2, AnswerTaken
  <2>4. o[1] = "in"
    BY <1>8
  <2> QED
    BY <1>8, <2>3, <2>4
<1>10. PICK f : Takes(O, f, o)
  BY <1>9
<1>11. Carries(O, f)
  BY <1>10 DEF Takes
<1>12. conn[c] # NoServer
  BY InvParts, UploadParts
<1>13. UploadTypeOK' /\ OpenHere'
  <2>1. toServer' \in [Callers -> Seq(Messages)] /\ \A d \in Callers \ {c} : toServer'[d] = toServer[d]
    BY <1>3, BlockSent
  <2>2. Tail(toClient[c]) \in Seq(Responses)
    <3>1. toClient[c] \in Seq(Responses)
      BY InvParts, UploadParts
    <3> QED
      BY <3>1, TailIs
  <2>3. toClient' \in [Callers -> Seq(Responses)] /\ \A d \in Callers \ {c} : toClient'[d] = toClient[d]
    BY <2>2, InvParts, UploadParts
  <2>4. \A d \in Callers : conn'[d] = NoServer => toServer'[d] = <<>> /\ toClient'[d] = <<>>
    BY <1>12, <2>1, <2>3, InvParts, UploadParts
  <2> QED
    BY <1>4, <2>1, <2>3, <2>4, InvParts, UploadParts DEF UploadTypeOK, OpenHere
<1>14. /\ upload[c].id # 0 /\ upload[c].file \in Files /\ upload[c].id \in 1..uploads
       /\ \A d \in Callers \ {c} : upload[d].id # upload[c].id
  <2>1. upload[c].id # 0 /\ upload[c].file \in Files /\ upload[c].id <= uploads
    BY InvParts DEF Numbered
  <2>2. upload[c].id \in Nat /\ uploads \in Nat
    BY InvParts, UploadParts DEF Transfers
  <2>3. \A d \in Callers \ {c} : upload[d].id = upload[c].id => upload[c].id = 0
    BY InvParts DEF Numbered
  <2> QED
    BY <2>1, <2>2, <2>3
<1>15. /\ Agrees(upload[c], a) /\ a.seq \in 1..Blocks
  BY <1>9, InvParts DEF InStep
<1>16. /\ upload[c].alone => a.alone /\ upload[c].id = a.id /\ upload[c].pos = a.seq
                             /\ upload[c].file = a.file
  BY <1>15 DEF Agrees
<1>17. ASSUME NEW p \in O, Block(p)'.alone \/ upload[c].alone
       PROVE  Block(p)'.id # upload[c].id
  <2>1. PICK w \in Callers : w = Whose(p)'
    <3>1. PICK x \in Flight : Whose(p)' = Whose(x)
      BY <1>11 DEF Carries, Rides
    <3> QED
      BY <3>1, Owned, InvParts
  <2>2. CASE w = c
    <3>1. Agrees(upload[c], Block(p)')
      BY <1>11, <2>1, <2>2, Carried
    <3>2. CASE upload[c].alone
      BY <1>9, <1>10, <1>16, <3>2, Apart
    <3>3. CASE ~upload[c].alone
      <4>1. upload[c].id = Block(p)'.id => upload[c].alone = Block(p)'.alone
        BY <3>1 DEF Agrees
      <4> QED
        BY <1>17, <3>3, <4>1
    <3> QED
      BY <3>2, <3>3
  <2>3. CASE w # c
    BY <1>11, <2>1, <2>3, Carried
  <2> QED
    BY <2>2, <2>3
<1>18. Numbered'
  BY <1>2, <1>4, InvParts DEF Numbered
<1>19. InStep'
  <2>1. /\ Block(new)'.file \in Files /\ Block(new)'.seq \in 1..Blocks /\ Block(new)'.id \in 1..uploads
        /\ new[1] # "in" => Block(new)'.pos \in 1..Blocks
        /\ new[1] # "in" /\ Block(new)'.alone => Block(new)'.pos = Block(new)'.seq
        /\ \A d \in Callers \ {Whose(new)'} : upload'[d].id # Block(new)'.id
        /\ Agrees(upload'[Whose(new)'], Block(new)')
    <3>1. Whose(new)' = c
      BY <1>6 DEF OutNext
    <3>2. m.seq \in 1..Blocks
      BY <1>3, <1>15, BlocksAssumption
    <3>3. Agrees(v, m)
      BY <1>2, <1>3, <1>16 DEF Agrees
    <3>4. PICK b : b = Block(new)'
      OBVIOUS
    <3>5. b = m
      BY <1>6, <3>4
    <3>6. /\ m.file \in Files /\ m.id \in 1..uploads
          /\ m.alone => m.pos = m.seq
          /\ \A d \in Callers \ {c} : upload'[d].id # m.id
      BY <1>3, <1>4, <1>14, <1>16
    <3>7. m.pos \in 1..Blocks
      <4>1. u.pos \in 0..Blocks /\ Blocks \in Nat
        BY BlocksAssumption DEF Transfers
      <4> QED
        BY <1>3, <4>1
    <3> QED
      BY <1>4, <3>1, <3>2, <3>3, <3>4, <3>5, <3>6, <3>7
  <2>2. ASSUME NEW p \in O
        PROVE  /\ \A d \in Callers \ {Whose(p)'} : upload'[d].id # Block(p)'.id
               /\ Agrees(upload'[Whose(p)'], Block(p)')
    <3>1. PICK w \in Callers : w = Whose(p)'
      <4>1. PICK x \in Flight : Whose(p)' = Whose(x)
        BY <1>11 DEF Carries, Rides
      <4> QED
        BY <4>1, Owned, InvParts
    <3>2. PICK b : b = Block(p)'
      OBVIOUS
    <3>3. /\ \A d \in Callers \ {w} : upload[d].id # b.id
          /\ Agrees(upload[w], b)
      BY <1>11, <3>1, <3>2, Carried
    <3>4. \A d \in Callers \ {w} : upload'[d].id # b.id
      BY <1>2, <1>4, <3>3
    <3>5. Agrees(upload'[w], b)
      <4>1. CASE w # c
        BY <1>4, <3>3, <4>1
      <4>2. CASE w = c
        <5>1. (b.alone \/ upload[c].alone) => b.id # upload[c].id
          BY <1>17, <3>2
        <5> QED
          BY <1>2, <1>4, <3>3, <4>2, <5>1 DEF Agrees
      <4> QED
        BY <4>1, <4>2
    <3> QED
      BY <3>1, <3>2, <3>4, <3>5
  <2>3. ASSUME NEW p \in O
        PROVE  /\ Block(p)'.file \in Files /\ Block(p)'.seq \in 1..Blocks
               /\ Block(p)'.id \in 1..uploads
               /\ p[1] # "in" => Block(p)'.pos \in 1..Blocks
               /\ p[1] # "in" /\ Block(p)'.alone => Block(p)'.pos = Block(p)'.seq
    BY <1>11, Carried
  <2>4. \A p \in Flight' : p = new \/ p \in O
    BY <1>7
  <2>5. uploads' = uploads
    OBVIOUS
  <2> QED
    BY <2>1, <2>2, <2>3, <2>4, <2>5 DEF InStep
<1>20. OneOnItsWay'
  <2> SUFFICES ASSUME NEW p \in Flight', NEW q \in Flight', p # q, Block(p)'.alone
               PROVE  Block(p)'.id # Block(q)'.id
    BY DEF OneOnItsWay
  <2>1. CASE p \in O /\ q \in O
    BY <1>11, <2>1, Carried
  <2>2. CASE p = new
    BY <1>3, <1>6, <1>7, <1>17, <2>2
  <2>3. CASE q = new
    BY <1>3, <1>6, <1>7, <1>17, <2>3
  <2> QED
    BY <1>7, <2>1, <2>2, <2>3
<1>21. OnDisk'
  <2>1. ASSUME Block(new)'.alone
        PROVE  Stored(disk[Where(new)'][Block(new)'.file], Block(new)'.id, Written(new)')
    <3>1. Where(new)' = conn[c] /\ new[1] = "out"
      BY <1>6 DEF OutNext
    <3>2. Written(new)' = a.seq
      <4>1. m.seq - 1 = a.seq
        BY <1>3, <1>15
      <4> QED
        BY <1>6, <3>1, <4>1 DEF Written
    <3>3. Written(o) = a.seq /\ a.seq > 0
      BY <1>9, <1>15 DEF Written
    <3>4. a.alone /\ m.id = a.id /\ m.file = a.file
      BY <1>3, <1>6, <1>16, <2>1
    <3>5. Stored(disk[conn[c]][a.file], a.id, a.seq)
      BY <1>9, <3>3, <3>4, InvParts DEF OnDisk
    <3> QED
      BY <1>6, <3>1, <3>2, <3>4, <3>5
  <2>2. ASSUME NEW p \in O, Block(p)'.alone, Written(p)' > 0, p[1] = "in" => Block(p)'.ok
        PROVE  Stored(disk'[Where(p)'][Block(p)'.file], Block(p)'.id, Written(p)')
    <3>1. Still(p, f[p])
      BY <1>10 DEF Takes
    <3> QED
      BY <1>11, <2>2, <3>1, CarriedStored
  <2> QED
    BY <1>7, <2>1, <2>2 DEF OnDisk
<1> QED
  BY <1>13, <1>18, <1>19, <1>20, <1>21 DEF UploadInv

\* The answer to a block.
LEMMA DataTransmissionStatusInv ==
  ASSUME UploadInv, NEW c \in Callers, DataTransmissionStatus(c)
  PROVE  UploadInv'
<1>1. /\ toClient[c] # <<>> /\ toClient' = [toClient EXCEPT ![c] = Tail(@)]
      /\ UNCHANGED <<conn, queue, disk, route, uploads>>
  BY DEF DataTransmissionStatus, server
<1>2. PICK a \in Responses : a = Head(toClient[c])
  <2>1. toClient[c] \in Seq(Responses)
    BY InvParts, UploadParts
  <2> QED
    BY <1>1, <2>1, TailIs
<1>3. PICK w \in Transfers : w = upload[c]
  BY InvParts, UploadParts
<1>4. \/ ~a.ok /\ UNCHANGED <<upload, toServer>>
      \/ upload' = [upload EXCEPT ![c].isOpen = FALSE] /\ UNCHANGED toServer
      \/ a.ok /\ a.seq # Blocks /\ SendNextBlock(c, [w EXCEPT !.seq = a.seq + 1])
  BY <1>2, <1>3 DEF DataTransmissionStatus
<1>5. ASSUME NEW v \in Transfers, upload' = [upload EXCEPT ![c] = v], Same(v, w), UNCHANGED toServer
      PROVE  UploadInv'
  <2>1. upload' \in [Callers -> Transfers] /\ upload'[c] = v /\ \A d \in Callers \ {c} : upload'[d] = upload[d]
    BY <1>5, InvParts, UploadParts
  <2>2. \A d \in Callers : Same(upload'[d], upload[d])
    BY <1>3, <1>5, <2>1 DEF Same
  <2> QED
    BY <1>1, <1>5, <2>1, <2>2, AnsweredInv
<1>6. CASE ~a.ok /\ UNCHANGED <<upload, toServer>>
  <2>1. upload' \in [Callers -> Transfers] /\ \A d \in Callers : Same(upload'[d], upload[d])
    BY <1>6, InvParts, UploadParts DEF Same
  <2> QED
    BY <1>1, <1>6, <2>1, AnsweredInv
<1>7. ASSUME NEW u \in Transfers, u.id = w.id, u.alone = w.alone, u.pos = w.pos, u.file = w.file,
             u.isOpen = w.isOpen, upload' = [upload EXCEPT ![c] = [u EXCEPT !.isOpen = FALSE]],
             UNCHANGED toServer
      PROVE  UploadInv'
  <2>1. PICK v \in Transfers : v = [u EXCEPT !.isOpen = FALSE]
    BY TransferUpdates
  <2>2. Same(v, w)
    BY <1>7, <2>1 DEF Same, Transfers
  <2> QED
    BY <1>5, <1>7, <2>1, <2>2
<1>8. CASE upload' = [upload EXCEPT ![c].isOpen = FALSE] /\ UNCHANGED toServer
  <2>1. upload' = [upload EXCEPT ![c] = [w EXCEPT !.isOpen = FALSE]]
    BY <1>3, <1>8
  <2> QED
    BY <1>7, <1>8, <2>1
<1>9. CASE a.ok /\ a.seq # Blocks /\ SendNextBlock(c, [w EXCEPT !.seq = a.seq + 1])
  <2>1. a.seq + 1 \in 0..Blocks
    BY <1>9, BlocksAssumption DEF Responses
  <2>2. PICK n \in 0..Blocks : n = a.seq + 1
    BY <2>1
  <2>3. PICK u : u = [w EXCEPT !.seq = n]
    OBVIOUS
  <2>4. /\ u \in Transfers /\ u.seq = a.seq + 1 /\ u.id = w.id /\ u.alone = w.alone
        /\ u.pos = w.pos /\ u.file = w.file /\ u.isOpen = w.isOpen
    <3>1. u \in Transfers
      BY <2>3, TransferUpdates
    <3> QED
      BY <2>2, <2>3, <3>1 DEF Transfers
  <2>5. SendNextBlock(c, u)
    BY <1>9, <2>2, <2>3
  <2>6. \/ /\ upload' = [upload EXCEPT ![c] = [u EXCEPT !.isOpen = FALSE]]
           /\ toServer' = toServer
        \/ /\ u.isOpen /\ u.pos # Blocks /\ u.seq <= Blocks
           /\ upload' = [upload EXCEPT ![c] = [u EXCEPT !.pos = @ + 1]]
           /\ toServer' = [toServer EXCEPT ![c] = Append(@, BlockOf(u))]
    BY <2>4, <2>5, InvParts, Sends1
  <2>7. CASE /\ upload' = [upload EXCEPT ![c] = [u EXCEPT !.isOpen = FALSE]]
             /\ toServer' = toServer
    BY <1>7, <2>4, <2>7
  <2>8. CASE /\ u.isOpen /\ u.pos # Blocks /\ u.seq <= Blocks
             /\ upload' = [upload EXCEPT ![c] = [u EXCEPT !.pos = @ + 1]]
             /\ toServer' = [toServer EXCEPT ![c] = Append(@, BlockOf(u))]
    BY <1>1, <1>2, <1>3, <1>9, <2>4, <2>8, NextBlockInv
  <2> QED
    BY <2>6, <2>7, <2>8
<1> QED
  BY <1>4, <1>6, <1>8, <1>9

\* A client has nothing on its way when it does not wait for an answer.
LEMMA NothingOut ==
  ASSUME UploadInv, NEW c \in Callers, ~Outstanding(c), NEW p \in Flight
  PROVE  Whose(p) # c
<1>1. PICK k \in {"out", "queue", "in"}, x \in Callers \cup Resources :
        \E j : p = <<k, x, j>> /\ p[1] = k /\ p[2] = x /\ p[3] = j
  BY Places
<1>2. PICK i : p = <<k, x, i>> /\ p[1] = k /\ p[2] = x /\ p[3] = i
  BY <1>1
<1>3. \A j : j \notin DOMAIN <<>>
  OBVIOUS
<1>4. CASE k = "queue"
  <2>1. x \in Resources /\ i \in DOMAIN queue[x] /\ Whose(p) = queue[x][i].client
    BY <1>2, <1>4, Places DEF Whose
  <2> QED
    BY <2>1 DEF Outstanding
<1>5. CASE k = "out"
  <2>1. i \in DOMAIN toServer[x] /\ Whose(p) = x
    BY <1>2, <1>5, Places DEF Whose
  <2> QED
    BY <1>3, <2>1 DEF Outstanding
<1>6. CASE k = "in"
  <2>1. i \in DOMAIN toClient[x] /\ Whose(p) = x
    BY <1>2, <1>6, Places DEF Whose
  <2> QED
    BY <1>3, <2>1 DEF Outstanding
<1> QED
  BY <1>4, <1>5, <1>6

\* An upload begins: its first block is sent.
LEMMA FirstBlockInv ==
  ASSUME UploadInv, NEW c \in Callers, conn[c] # NoServer,
         UNCHANGED <<conn, toClient, queue, disk, route>>, uploads' = uploads + 1,
         NEW u \in Transfers, u.file \in Files, u.seq = 1, u.pos = 0, u.isOpen,
         u.id = uploads + 1, u.alone = ~Outstanding(c),
         upload' = [upload EXCEPT ![c] = [u EXCEPT !.pos = @ + 1]],
         toServer' = [toServer EXCEPT ![c] = Append(@, BlockOf(u))]
  PROVE  UploadInv'
<1>1. PICK v : v = [u EXCEPT !.pos = @ + 1]
  OBVIOUS
<1>2. 0 # Blocks /\ 1 \in 1..Blocks /\ uploads \in Nat /\ uploads + 1 \in 1..(uploads + 1)
  BY BlocksAssumption, InvParts, UploadParts
<1>3. /\ v \in Transfers /\ v.pos = u.pos + 1 /\ v.file = u.file /\ v.id = u.id
      /\ v.alone = u.alone /\ v.isOpen = u.isOpen
  <2>1. v \in Transfers
    BY <1>1, <1>2, TransferUpdates
  <2> QED
    BY <1>1, <2>1 DEF Transfers
<1>4. PICK m \in Messages : /\ m = BlockOf(u) /\ m.type = "upload"
                            /\ m.file = u.file /\ m.seq = u.seq /\ m.pos = u.pos + 1
                            /\ m.id = u.id /\ m.alone = u.alone
  BY <1>2, MessageIs
<1>5. upload' \in [Callers -> Transfers] /\ upload'[c] = v
      /\ \A d \in Callers \ {c} : upload'[d] = upload[d]
  BY <1>1, <1>3, InvParts, UploadParts
<1>6. PICK n : LET o == <<"out", c, n>> IN
        /\ o \in Flight' /\ OutNext(o, c, n) /\ Block(o)' = m
        /\ \A p \in Flight' \ {o} : \A d \in Callers : \A i : OutNext(p, d, i) =>
             i \in DOMAIN toServer[d] /\ toServer'[d][i] = toServer[d][i]
  BY <1>4, BlockSent
<1>7. PICK new \in Flight' :
        /\ new = <<"out", c, n>> /\ OutNext(new, c, n) /\ Block(new)' = m
        /\ \A p \in Flight' \ {new} : \A d \in Callers : \A i : OutNext(p, d, i) =>
             i \in DOMAIN toServer[d] /\ toServer'[d][i] = toServer[d][i]
  BY <1>6
<1>8. PICK O : O = Flight' \ {new}
  OBVIOUS
<1>9. ASSUME NEW p \in O PROVE p \in Flight /\ Rides(p, p) /\ Still(p, p)
  <2>1. ASSUME NEW d \in Callers, NEW i, OutNext(p, d, i) PROVE p \in Flight /\ Rides(p, p) /\ Still(p, p)
    <3>1. i \in DOMAIN toServer[d] /\ toServer'[d][i] = toServer[d][i]
      BY <1>7, <1>8, <2>1
    <3>2. p \in Flight /\ Block(p) = toServer[d][i] /\ Whose(p) = d /\ Where(p) = conn[d]
      BY <2>1, <3>1, Places, Values DEF OutNext
    <3> QED
      BY <2>1, <3>1, <3>2 DEF OutNext, Rides, Still
  <2>2. ASSUME NEW r \in Resources, NEW i, QueueNext(p, r, i) PROVE p \in Flight /\ Rides(p, p) /\ Still(p, p)
    <3>2. /\ p \in Flight /\ Block(p) = queue[r][i].msg /\ Whose(p) = queue[r][i].client
          /\ Where(p) = r
      BY <2>2, Places, Values DEF QueueNext
    <3> QED
      BY <2>2, <3>2 DEF QueueNext, Rides, Still
  <2>3. ASSUME NEW d \in Callers, NEW i, InNext(p, d, i) PROVE p \in Flight /\ Rides(p, p) /\ Still(p, p)
    <3>2. p \in Flight /\ Block(p) = toClient[d][i] /\ Whose(p) = d /\ Where(p) = conn[d]
      BY <2>3, Places, Values DEF InNext
    <3> QED
      BY <2>3, <3>2 DEF InNext, Rides, Still
  <2>4. p \in Flight'
    BY <1>8
  <2> QED
    BY <2>1, <2>2, <2>3, <2>4, PlaceNext
<1>10. PICK f : f = [p \in O |-> p]
  OBVIOUS
<1>11. Carries(O, f) /\ \A p \in O : f[p] = p
  BY <1>9, <1>10 DEF Carries
<1>12. UploadTypeOK' /\ OpenHere'
  <2>1. toServer' \in [Callers -> Seq(Messages)] /\ \A d \in Callers \ {c} : toServer'[d] = toServer[d]
    BY <1>4, BlockSent
  <2>2. \A d \in Callers : conn'[d] = NoServer => toServer'[d] = <<>> /\ toClient'[d] = <<>>
    BY <2>1, InvParts, UploadParts
  <2> QED
    BY <1>5, <2>1, <2>2, InvParts, UploadParts DEF UploadTypeOK, OpenHere
<1>13. ASSUME NEW d \in Callers
       PROVE  upload[d].id # uploads + 1 /\ upload[d].id <= uploads /\ upload[d].id \in Nat
  BY <1>2, InvParts, UploadParts DEF Numbered, Transfers
<1>14. Numbered'
  <2>1. ASSUME NEW d \in Callers
        PROVE  /\ upload'[d].id <= uploads'
               /\ upload'[d].isOpen => upload'[d].id # 0 /\ upload'[d].file \in Files
    <3>1. CASE d = c
      BY <1>2, <1>3, <1>5, <3>1
    <3>2. CASE d # c
      BY <1>2, <1>5, <1>13, <3>2, InvParts DEF Numbered
    <3> QED
      BY <3>1, <3>2
  <2>2. ASSUME NEW d \in Callers, NEW e \in Callers \ {d}, upload'[d].id = upload'[e].id
        PROVE  upload'[d].id = 0
    <3>1. d # c /\ e # c
      BY <1>3, <1>5, <1>13, <2>2
    <3> QED
      BY <1>5, <2>2, <3>1, InvParts DEF Numbered
  <2> QED
    BY <2>1, <2>2 DEF Numbered
<1>15. ASSUME NEW p \in O
       PROVE  /\ Block(p)'.id # uploads + 1 /\ Block(p)'.id \in 1..uploads
              /\ Whose(p)' \in Callers /\ (Whose(p)' = c => ~v.alone)
  <2>1. PICK x \in Flight : x = p /\ Rides(p, x)
    BY <1>9
  <2>2. Whose(p)' = Whose(x)
    BY <2>1 DEF Rides
  <2>3. Whose(x) \in Callers
    BY Owned, InvParts
  <2>4. Whose(x) = c => Outstanding(c)
    BY NothingOut
  <2>5. Block(p)'.id \in 1..uploads
    BY <1>11, Carried
  <2>6. Block(p)'.id # uploads + 1
    BY <1>2, <2>5
  <2> QED
    BY <1>3, <2>2, <2>3, <2>4, <2>5, <2>6
<1>16. InStep'
  <2>1. /\ Block(new)'.file \in Files /\ Block(new)'.seq \in 1..Blocks /\ Block(new)'.id \in 1..uploads'
        /\ new[1] # "in" => Block(new)'.pos \in 1..Blocks
        /\ new[1] # "in" /\ Block(new)'.alone => Block(new)'.pos = Block(new)'.seq
        /\ \A d \in Callers \ {Whose(new)'} : upload'[d].id # Block(new)'.id
        /\ Agrees(upload'[Whose(new)'], Block(new)')
    <3>1. Whose(new)' = c
      BY <1>7 DEF OutNext
    <3>2. m.seq \in 1..Blocks /\ m.id \in 1..uploads' /\ m.pos = m.seq /\ m.file \in Files
      BY <1>2, <1>4
    <3>3. Agrees(v, m)
      BY <1>3, <1>4 DEF Agrees
    <3>4. PICK b : b = Block(new)'
      OBVIOUS
    <3>5. b = m
      BY <1>7, <3>4
    <3>6. \A d \in Callers \ {c} : upload'[d].id # m.id
      BY <1>4, <1>5, <1>13
    <3> QED
      BY <1>5, <3>1, <3>2, <3>3, <3>4, <3>5, <3>6
  <2>2. ASSUME NEW p \in O
        PROVE  /\ \A d \in Callers \ {Whose(p)'} : upload'[d].id # Block(p)'.id
               /\ Agrees(upload'[Whose(p)'], Block(p)')
    <3>1. PICK w \in Callers : w = Whose(p)'
      BY <1>15
    <3>2. PICK b : b = Block(p)'
      OBVIOUS
    <3>3. /\ \A d \in Callers \ {w} : upload[d].id # b.id
          /\ Agrees(upload[w], b)
      BY <1>11, <3>1, <3>2, Carried
    <3>4. b.id # v.id /\ (w = c => ~v.alone)
      BY <1>3, <1>15, <3>1, <3>2
    <3>5. \A d \in Callers \ {w} : upload'[d].id # b.id
      BY <1>5, <3>3, <3>4
    <3>6. Agrees(upload'[w], b)
      <4>1. CASE w # c
        BY <1>5, <3>3, <4>1
      <4>2. CASE w = c
        BY <1>5, <3>4, <4>2 DEF Agrees
      <4> QED
        BY <4>1, <4>2
    <3> QED
      BY <3>1, <3>2, <3>5, <3>6
  <2>3. ASSUME NEW p \in O
        PROVE  /\ Block(p)'.file \in Files /\ Block(p)'.seq \in 1..Blocks
               /\ Block(p)'.id \in 1..uploads'
               /\ p[1] # "in" => Block(p)'.pos \in 1..Blocks
               /\ p[1] # "in" /\ Block(p)'.alone => Block(p)'.pos = Block(p)'.seq
    <3>1. Block(p)'.id \in 1..uploads'
      BY <1>2, <1>15
    <3> QED
      BY <1>11, <3>1, Carried
  <2>4. \A p \in Flight' : p = new \/ p \in O
    BY <1>8
  <2> QED
    BY <2>1, <2>2, <2>3, <2>4 DEF InStep
<1>17. OneOnItsWay'
  <2> SUFFICES ASSUME NEW p \in Flight', NEW q \in Flight', p # q, Block(p)'.alone
               PROVE  Block(p)'.id # Block(q)'.id
    BY DEF OneOnItsWay
  <2>1. CASE p \in O /\ q \in O
    BY <1>11, <2>1, Carried
  <2>2. CASE p = new
    BY <1>4, <1>7, <1>8, <1>15, <2>2
  <2>3. CASE q = new
    BY <1>4, <1>7, <1>8, <1>15, <2>3
  <2> QED
    BY <1>8, <2>1, <2>2, <2>3
<1>18. OnDisk'
  <2>1. ~(Written(new)' > 0)
    <3>1. new[1] = "out" /\ Block(new)'.seq = 1
      BY <1>4, <1>7 DEF OutNext
    <3>2. Written(new)' = 1 - 1
      BY <3>1 DEF Written
    <3> QED
      BY <3>2
  <2>2. ASSUME NEW p \in O, Block(p)'.alone, Written(p)' > 0, p[1] = "in" => Block(p)'.ok
        PROVE  Stored(disk'[Where(p)'][Block(p)'.file], Block(p)'.id, Written(p)')
    <3>1. Still(p, f[p])
      BY <1>9, <1>11
    <3> QED
      BY <1>11, <2>2, <3>1, CarriedStored
  <2> QED
    BY <1>8, <2>1, <2>2 DEF OnDisk
<1> QED
  BY <1>12, <1>14, <1>16, <1>17, <1>18 DEF UploadInv

\* slot_start_file_transmission.
LEMMA StartFileTransmissionInv ==
  ASSUME UploadInv, NEW c \in Callers, StartFileTransmission(c)
  PROVE  UploadInv'
<1>1. PICK f \in Files :
        /\ conn[c] # NoServer /\ uploads' = uploads + 1
        /\ UNCHANGED <<conn, toClient, queue, disk, route>>
        /\ SendNextBlock(c, [file |-> f, seq |-> 1, pos |-> 0, isOpen |-> TRUE, id |-> uploads + 1,
                             alone |-> ~Outstanding(c)])
  BY DEF StartFileTransmission, server
<1>2. PICK b \in BOOLEAN : b = ~Outstanding(c)
  OBVIOUS
<1>3. PICK n \in Nat : n = uploads + 1
  BY InvParts, UploadParts
<1>4. PICK u : u = [file |-> f, seq |-> 1, pos |-> 0, isOpen |-> TRUE, id |-> n, alone |-> b]
  OBVIOUS
<1>5. u \in Transfers
  BY <1>4, TransferUpdates
<1>6. u.file = f /\ u.seq = 1 /\ u.pos = 0 /\ u.isOpen /\ u.id = n /\ u.alone = b
  BY <1>4
<1>7. SendNextBlock(c, u)
  BY <1>1, <1>2, <1>3, <1>4
<1>8. Blocks \in Nat \ {0}
  BY BlocksAssumption
<1>9. /\ upload' = [upload EXCEPT ![c] = [u EXCEPT !.pos = @ + 1]]
      /\ toServer' = [toServer EXCEPT ![c] = Append(@, BlockOf(u))]
  BY <1>6, <1>7, <1>8 DEF SendNextBlock, BlockOf
<1> QED
  BY <1>1, <1>2, <1>3, <1>5, <1>6, <1>9, FirstBlockInv

-----------------------------------------------------------------------------
(* A block is written                                                      *)

\* A block or an answer is at a server or sent to one or by one.
LEMMA SomewhereIs ==
  ASSUME UploadInv, NEW p \in Flight
  PROVE  Where(p) \in Resources
<1>1. PICK k \in {"out", "queue", "in"}, x \in Callers \cup Resources :
        \E j : p = <<k, x, j>> /\ p[1] = k /\ p[2] = x /\ p[3] = j
  BY Places
<1>2. PICK i : p = <<k, x, i>> /\ p[1] = k /\ p[2] = x /\ p[3] = i
  BY <1>1
<1>3. \A j : j \notin DOMAIN <<>>
  OBVIOUS
<1>4. CASE k = "queue"
  BY <1>2, <1>4, Places DEF Where
<1>5. CASE k = "out"
  <2>1. x \in Callers /\ i \in DOMAIN toServer[x] /\ Where(p) = conn[x]
    BY <1>2, <1>5, Places DEF Where
  <2>2. conn[x] # NoServer
    BY <1>3, <2>1, InvParts, UploadParts
  <2> QED
    BY <2>1, <2>2, InvParts, UploadParts
<1>6. CASE k = "in"
  <2>1. x \in Callers /\ i \in DOMAIN toClient[x] /\ Where(p) = conn[x]
    BY <1>2, <1>6, Places DEF Where
  <2>2. conn[x] # NoServer
    BY <1>3, <2>1, InvParts, UploadParts
  <2> QED
    BY <2>1, <2>2, InvParts, UploadParts
<1> QED
  BY <1>4, <1>5, <1>6

\* What a server makes of the file of a block it writes or fails to write.
Made(r, m, ok) ==
  /\ disk' \in [Resources -> [Files -> [blocks : Seq(1..Blocks), by : SUBSET Nat]]]
  /\ \A q \in Resources, g \in Files : q # r \/ g # m.file => disk'[q][g] = disk[q][g]
  /\ disk'[r][m.file] = disk[r][m.file] \/ m.id \in disk'[r][m.file].by
  /\ ok => \/ m.seq = 1 /\ disk'[r][m.file] = [blocks |-> <<m.pos>>, by |-> {m.id}]
           \/ m.seq # 1 /\ disk'[r][m.file] = [blocks |-> Append(disk[r][m.file].blocks, m.pos),
                                               by |-> disk[r][m.file].by \cup {m.id}]
LEMMA FileMade ==
  ASSUME UploadTypeOK, NEW r \in Resources, NEW m \in Messages, m.file \in Files,
         m.pos \in 1..Blocks, NEW ok \in BOOLEAN,
         (ok /\ WriteBlock(r, m)) \/ (~ok /\ FailToWrite(r, m))
  PROVE  Made(r, m, ok)
<1>1. PICK D : D = disk[r][m.file]
  OBVIOUS
<1>2. /\ disk \in [Resources -> [Files -> [blocks : Seq(1..Blocks), by : SUBSET Nat]]]
      /\ D.blocks \in Seq(1..Blocks) /\ D.by \in SUBSET Nat
  BY <1>1, UploadParts
<1>3. m.id \in Nat /\ <<m.pos>> \in Seq(1..Blocks) /\ <<>> \in Seq(1..Blocks)
      /\ Append(D.blocks, m.pos) \in Seq(1..Blocks)
  <2>1. m.id \in Nat
    BY DEF Messages
  <2>2. PICK q \in Seq(1..Blocks), k \in 1..Blocks : q = D.blocks /\ k = m.pos
    BY <1>2
  <2>3. <<k>> \in Seq(1..Blocks) /\ <<>> \in Seq(1..Blocks) /\ Append(q, k) \in Seq(1..Blocks)
    OBVIOUS
  <2> QED
    BY <2>1, <2>2, <2>3
<1>4. ASSUME NEW E \in [blocks : Seq(1..Blocks), by : SUBSET Nat],
             disk' = [disk EXCEPT ![r][m.file] = E]
      PROVE  /\ disk' \in [Resources -> [Files -> [blocks : Seq(1..Blocks), by : SUBSET Nat]]]
             /\ \A q \in Resources, g \in Files : q # r \/ g # m.file => disk'[q][g] = disk[q][g]
             /\ disk'[r][m.file] = E
  BY <1>2, <1>4
<1>5. CASE disk' = disk /\ ~ok
  BY <1>2, <1>5 DEF Made
<1>6. ASSUME NEW b \in Seq(1..Blocks), NEW y \in SUBSET Nat, m.id \in y,
             disk' = [disk EXCEPT ![r][m.file] = [blocks |-> b, by |-> y]],
             ok => \/ m.seq = 1 /\ b = <<m.pos>> /\ y = {m.id}
                   \/ m.seq # 1 /\ b = Append(D.blocks, m.pos) /\ y = D.by \cup {m.id}
      PROVE  Made(r, m, ok)
  <2>1. PICK E \in [blocks : Seq(1..Blocks), by : SUBSET Nat] : E = [blocks |-> b, by |-> y]
    OBVIOUS
  <2>2. E.by = y
    BY <2>1
  <2> QED
    BY <1>1, <1>4, <1>6, <2>1, <2>2 DEF Made
<1>7. CASE ~ok /\ disk' = [disk EXCEPT ![r][m.file] = [blocks |-> <<>>, by |-> {m.id}]]
  <2>1. PICK b \in Seq(1..Blocks), y \in SUBSET Nat : b = <<>> /\ y = {m.id} /\ m.id \in y
    BY <1>3
  <2>2. disk' = [disk EXCEPT ![r][m.file] = [blocks |-> b, by |-> y]]
    BY <1>7, <2>1
  <2> QED
    BY <1>6, <1>7, <2>1, <2>2
<1>8. CASE ok /\ WriteBlock(r, m)
  <2>1. CASE m.seq = 1
    <3>1. disk' = [disk EXCEPT ![r][m.file] = [blocks |-> <<m.pos>>, by |-> {m.id}]]
      BY <1>8, <2>1 DEF WriteBlock
    <3>2. PICK b \in Seq(1..Blocks), y \in SUBSET Nat : b = <<m.pos>> /\ y = {m.id} /\ m.id \in y
      BY <1>3
    <3>3. disk' = [disk EXCEPT ![r][m.file] = [blocks |-> b, by |-> y]]
      BY <3>1, <3>2
    <3> QED
      BY <1>6, <2>1, <3>2, <3>3
  <2>2. CASE m.seq # 1
    <3>1. disk' = [disk EXCEPT ![r][m.file] =
                    [blocks |-> Append(D.blocks, m.pos), by |-> D.by \cup {m.id}]]
      BY <1>1, <1>2, <1>8, <2>2 DEF WriteBlock
    <3>2. D.by \cup {m.id} \in SUBSET Nat /\ m.id \in D.by \cup {m.id}
      BY <1>2, <1>3
    <3> QED
      BY <1>3, <1>6, <2>2, <3>1, <3>2
  <2> QED
    BY <2>1, <2>2
<1> QED
  BY <1>5, <1>7, <1>8 DEF FailToWrite

\* What it means for the blocks before it and of others.
LEMMA MadeStored ==
  ASSUME UploadTypeOK, NEW r \in Resources, NEW m \in Messages, m.file \in Files, NEW ok \in BOOLEAN,
         Made(r, m, ok), m.seq \in 1..Blocks
  PROVE  /\ ok /\ m.pos = m.seq /\ (m.seq > 1 => Stored(disk[r][m.file], m.id, m.seq - 1)) =>
              Stored(disk'[r][m.file], m.id, m.seq)
         /\ \A q \in Resources, g \in Files : \A id, n :
              Stored(disk[q][g], id, n) /\ id # m.id => Stored(disk'[q][g], id, n)
<1>1. ASSUME NEW q \in Resources, NEW g \in Files, NEW id, NEW n, Stored(disk[q][g], id, n), id # m.id
      PROVE  Stored(disk'[q][g], id, n)
  <2>1. CASE disk'[q][g] = disk[q][g]
    BY <1>1, <2>1
  <2>2. CASE m.id \in disk'[q][g].by
    BY <1>1, <2>2 DEF Stored
  <2> QED
    BY <2>1, <2>2 DEF Made
<1>2. ASSUME ok, m.pos = m.seq, m.seq > 1 => Stored(disk[r][m.file], m.id, m.seq - 1)
      PROVE  Stored(disk'[r][m.file], m.id, m.seq)
  <2>1. CASE m.seq = 1
    <3>1. disk'[r][m.file].blocks = <<1>> /\ disk'[r][m.file].by = {m.id}
      BY <1>2, <2>1 DEF Made
    <3>2. <<1>> = [k \in 1..1 |-> k]
      OBVIOUS
    <3> QED
      BY <2>1, <3>1, <3>2 DEF Stored
  <2>2. CASE m.seq # 1
    <3>1. PICK D : D = disk[r][m.file]
      OBVIOUS
    <3>2. /\ disk'[r][m.file].blocks = Append(D.blocks, m.seq)
          /\ disk'[r][m.file].by = D.by \cup {m.id}
      BY <1>2, <2>2, <3>1 DEF Made
    <3>3. Stored(D, m.id, m.seq - 1)
      BY <1>2, <2>2, <3>1, BlocksAssumption
    <3>4. ASSUME D.by \cup {m.id} = {m.id} PROVE Append(D.blocks, m.seq) = [k \in 1..m.seq |-> k]
      <4>1. D.by = {m.id}
        BY <3>3, <3>4 DEF Stored
      <4>2. PICK n \in Nat : n = m.seq - 1 /\ m.seq = n + 1
        BY BlocksAssumption
      <4>3. D.blocks = [k \in 1..n |-> k]
        BY <3>3, <4>1, <4>2 DEF Stored
      <4>4. Append([k \in 1..n |-> k], n + 1) = [k \in 1..(n + 1) |-> k]
        <5>1. PICK q : q = [k \in 1..n |-> k]
          OBVIOUS
        <5>2. q \in Seq(Nat) /\ Len(q) = n
          BY <5>1
        <5>3. PICK t : t = Append(q, n + 1)
          OBVIOUS
        <5>4. t \in Seq(Nat) /\ Len(t) = n + 1 /\ \A k \in 1..(n + 1) : t[k] = k
          BY <5>1, <5>2, <5>3
        <5>5. t = [k \in 1..(n + 1) |-> t[k]]
          BY <5>4
        <5> QED
          BY <5>1, <5>3, <5>4, <5>5
      <4> QED
        BY <4>2, <4>3, <4>4
    <3> QED
      BY <3>2, <3>4 DEF Stored
  <2> QED
    BY <2>1, <2>2
<1> QED
  BY <1>1, <1>2

\* handlingFileUploading.
LEMMA HandlingFileUploadingInv ==
  ASSUME UploadInv, NEW r \in Resources, HandlingFileUploading(r)
  PROVE  UploadInv'
<1>1. queue[r] # <<>> /\ queue' = [queue EXCEPT ![r] = Tail(@)]
      /\ UNCHANGED <<conn, upload, toServer, route, uploads>>
  BY DEF HandlingFileUploading, Next1, Pop
<1>2. PICK s \in Seq(Entries) : s = queue[r]
  BY InvParts, UploadParts
<1>3. PICK e \in Entries : e = Head(queue[r]) /\ e = queue[r][1] /\ 1 \in DOMAIN queue[r]
  BY <1>1, <1>2, TailIs
<1>4. PICK m \in Messages : m = e.msg /\ m.type = "upload" /\ e.client \in Callers
  BY <1>3 DEF HandlingFileUploading, Next1, Entries
<1>0. PICK ok \in BOOLEAN :
        /\ SendMessage(e, [ok |-> ok, seq |-> m.seq, file |-> m.file, id |-> m.id,
                           alone |-> m.alone])
        /\ (ok /\ WriteBlock(r, m)) \/ (~ok /\ FailToWrite(r, m))
  BY <1>3, <1>4 DEF HandlingFileUploading
<1>5. PICK a : /\ a = [ok |-> ok, seq |-> m.seq, file |-> m.file, id |-> m.id, alone |-> m.alone]
               /\ SendMessage(e, a)
               /\ (ok /\ WriteBlock(r, m)) \/ (~ok /\ FailToWrite(r, m))
  BY <1>0
<1>6. PICK o : o = <<"queue", r, 1>>
  OBVIOUS
<1>7. o \in Flight /\ Block(o) = m /\ Whose(o) = e.client /\ Where(o) = r /\ o[1] = "queue"
  BY <1>3, <1>4, <1>6, Places, Values
<1>8. /\ m.file \in Files /\ m.seq \in 1..Blocks /\ m.id \in 1..uploads /\ m.pos \in 1..Blocks
      /\ m.alone => m.pos = m.seq
      /\ \A d \in Callers \ {e.client} : upload[d].id # m.id
      /\ Agrees(upload[e.client], m)
  BY <1>7, InvParts DEF InStep
<1>9. Made(r, m, ok)
  BY <1>5, <1>8, InvParts, FileMade
<1>10. /\ a \in Responses /\ a.ok = ok /\ a.seq = m.seq /\ a.file = m.file /\ a.id = m.id
       /\ a.alone = m.alone
  <2>1. /\ m.file \in FileNames /\ m.seq \in 0..Blocks /\ m.id \in Nat /\ m.alone \in BOOLEAN
    BY DEF Messages
  <2> QED
    BY <1>5, <2>1 DEF Responses
<1>11. PICK c \in Callers : c = e.client
  BY <1>4
<1>12. PICK t \in Seq(Responses) : t = toClient[c]
  BY InvParts, UploadParts
<1>13. PICK n : n = Len(t) + 1
  OBVIOUS
<1>14. /\ Append(t, a) \in Seq(Responses) /\ n \in DOMAIN Append(t, a) /\ Append(t, a)[n] = a
       /\ \A i \in DOMAIN Append(t, a) : i = n \/ (i \in DOMAIN t /\ Append(t, a)[i] = t[i])
       /\ n \notin DOMAIN t
  BY <1>10, <1>13, AppendIs
<1>15. /\ toClient' \in [Callers -> Seq(Responses)]
       /\ \A d \in Callers \ {c} : toClient'[d] = toClient[d]
       /\ IF e.open THEN toClient'[c] = Append(t, a) ELSE toClient'[c] = t
  <2>1. CASE e.open
    <3>1. toClient' = [toClient EXCEPT ![c] = Append(t, a)]
      BY <1>5, <1>11, <1>12, <2>1 DEF SendMessage
    <3> QED
      BY <1>14, <2>1, <3>1, InvParts, UploadParts
  <2>2. CASE ~e.open
    BY <1>5, <1>12, <2>2, InvParts, UploadParts DEF SendMessage
  <2> QED
    BY <2>1, <2>2
<1>16. e.open => conn[c] = r
  BY <1>3, <1>11, EntryIs
<1>17. r # NoServer
  BY NamesAssumption
<1>18. UploadTypeOK' /\ OpenHere'
  <2>1. \A d \in Callers : conn'[d] = NoServer => toServer'[d] = <<>> /\ toClient'[d] = <<>>
    BY <1>1, <1>12, <1>15, <1>16, <1>17, InvParts, UploadParts
  <2>2. disk' \in [Resources -> [Files -> [blocks : Seq(1..Blocks), by : SUBSET Nat]]]
    BY <1>9 DEF Made
  <2> QED
    BY <1>1, <1>15, <2>1, <2>2, Popped, InvParts, UploadParts DEF UploadTypeOK
<1>19. PICK new : new = <<"in", c, n>>
  OBVIOUS
<1>20. PICK O : O = Flight' \ {new}
  OBVIOUS
<1>21. ASSUME NEW p \in O, NEW d \in Callers, NEW i, InNext(p, d, i)
       PROVE  i \in DOMAIN toClient[d] /\ toClient'[d][i] = toClient[d][i]
  <2>1. CASE d = c
    <3>1. i # n /\ i \in DOMAIN toClient'[c]
      BY <1>19, <1>20, <1>21, <2>1 DEF InNext
    <3> QED
      BY <1>12, <1>14, <1>15, <2>1, <3>1
  <2>2. CASE d # c
    BY <1>15, <1>21, <2>2 DEF InNext
  <2> QED
    BY <2>1, <2>2
<1>22. PICK f : Takes(O, f, o)
  <2>1. O \subseteq Flight'
    BY <1>20
  <2> QED
    BY <1>1, <1>6, <1>21, <2>1, RequestTaken
<1>23. Carries(O, f)
  BY <1>22 DEF Takes
<1>24. ASSUME new \in Flight'
       PROVE  /\ e.open /\ new[1] = "in" /\ Block(new)' = a /\ Whose(new)' = c /\ Where(new)' = r
  <2>1. n \in DOMAIN toClient'[c]
    BY <1>19, <1>24, PlacesNext
  <2>2. e.open
    BY <1>12, <1>14, <1>15, <2>1
  <2>3. toClient'[c][n] = a
    BY <1>14, <1>15, <2>2
  <2> QED
    BY <1>1, <1>16, <1>19, <2>2, <2>3 DEF Block, Whose, Where
<1>25. \A p \in Flight' : p = new \/ p \in O
  BY <1>20
<1>26. Numbered'
  BY <1>1, InvParts DEF Numbered
<1>27. InStep'
  <2>1. ASSUME new \in Flight'
        PROVE  /\ Block(new)'.file \in Files /\ Block(new)'.seq \in 1..Blocks
               /\ Block(new)'.id \in 1..uploads
               /\ \A d \in Callers \ {Whose(new)'} : upload[d].id # Block(new)'.id
               /\ Agrees(upload[Whose(new)'], Block(new)')
    <3>1. PICK b : b = Block(new)'
      OBVIOUS
    <3>2. b = a /\ Whose(new)' = c /\ new[1] = "in"
      BY <1>24, <2>1, <3>1
    <3>3. Agrees(upload[c], a)
      BY <1>8, <1>10, <1>11 DEF Agrees
    <3> QED
      BY <1>8, <1>10, <1>11, <3>1, <3>2, <3>3
  <2>2. ASSUME new \in Flight' PROVE new[1] = "in"
    BY <1>24, <2>2
  <2> QED
    BY <1>1, <1>23, <1>25, <2>1, <2>2, Carried DEF InStep
<1>28. ASSUME NEW p \in O, Block(p)'.alone \/ m.alone PROVE Block(p)'.id # m.id
  BY <1>7, <1>22, <1>28, Apart
<1>29. OneOnItsWay'
  <2> SUFFICES ASSUME NEW p \in Flight', NEW q \in Flight', p # q, Block(p)'.alone
               PROVE  Block(p)'.id # Block(q)'.id
    BY DEF OneOnItsWay
  <2>1. CASE p \in O /\ q \in O
    BY <1>23, <2>1, Carried
  <2>2. CASE p = new
    <3>1. q \in O /\ Block(p)'.id = m.id /\ m.alone
      BY <1>10, <1>24, <1>25, <2>2
    <3> QED
      BY <1>28, <3>1
  <2>3. CASE q = new
    <3>1. p \in O /\ Block(q)'.id = m.id
      BY <1>10, <1>24, <1>25, <2>3
    <3> QED
      BY <1>28, <3>1
  <2> QED
    BY <1>25, <2>1, <2>2, <2>3
<1>30. /\ ok /\ m.pos = m.seq /\ (m.seq > 1 => Stored(disk[r][m.file], m.id, m.seq - 1)) =>
            Stored(disk'[r][m.file], m.id, m.seq)
       /\ \A q \in Resources, g \in Files : \A id, k :
            Stored(disk[q][g], id, k) /\ id # m.id => Stored(disk'[q][g], id, k)
  BY <1>8, <1>9, InvParts, MadeStored
<1>31. OnDisk'
  <2>1. ASSUME new \in Flight', Block(new)'.alone, Block(new)'.ok
        PROVE  Stored(disk'[Where(new)'][Block(new)'.file], Block(new)'.id, Written(new)')
    <3>1. m.alone /\ ok /\ Where(new)' = r /\ Block(new)'.file = m.file /\ Block(new)'.id = m.id
      BY <1>10, <1>24, <2>1
    <3>2. Written(new)' = m.seq
      BY <1>10, <1>24, <2>1 DEF Written
    <3>3. m.seq > 1 => Stored(disk[r][m.file], m.id, m.seq - 1)
      <4>1. Written(o) = m.seq - 1
        BY <1>7 DEF Written
      <4>2. m.seq > 1 => Written(o) > 0
        BY <1>8, <4>1
      <4> QED
        BY <1>7, <3>1, <4>1, <4>2, InvParts DEF OnDisk
    <3> QED
      BY <1>8, <1>30, <3>1, <3>2, <3>3
  <2>2. ASSUME NEW p \in O, Block(p)'.alone, Written(p)' > 0, p[1] = "in" => Block(p)'.ok
        PROVE  Stored(disk'[Where(p)'][Block(p)'.file], Block(p)'.id, Written(p)')
    <3>1. PICK x \in Flight : x = f[p] /\ Rides(p, x) /\ Still(p, x)
      BY <1>22 DEF Takes, Carries
    <3>2. Written(p)' = Written(x)
      BY <3>1 DEF Rides, Still, Written
    <3>3. Block(x).alone /\ Written(x) > 0 /\ (x[1] = "in" => Block(x).ok)
      BY <2>2, <3>1, <3>2 DEF Rides, Still
    <3>4. Stored(disk[Where(x)][Block(x).file], Block(x).id, Written(x))
      BY <3>1, <3>3, InvParts DEF OnDisk
    <3>5. Block(x).id # m.id
      BY <1>28, <2>2, <3>1 DEF Rides
    <3>6. Where(x) \in Resources /\ Block(x).file \in Files
      BY SomewhereIs, InvParts DEF InStep
    <3>7. Stored(disk'[Where(x)][Block(x).file], Block(x).id, Written(x))
      BY <1>30, <3>4, <3>5, <3>6
    <3> QED
      BY <3>1, <3>2, <3>7 DEF Rides, Still
  <2>3. ASSUME new \in Flight' PROVE new[1] = "in"
    BY <1>24, <2>3
  <2> QED
    BY <1>25, <2>1, <2>2, <2>3 DEF OnDisk
<1> QED
  BY <1>18, <1>26, <1>27, <1>29, <1>31 DEF UploadInv

-----------------------------------------------------------------------------
(* The invariant                                                           *)

\* Nothing of the uploads changes.
LEMMA UploadStutter ==
  ASSUME UploadInv, UNCHANGED uploadVars
  PROVE  UploadInv'
<1>1. /\ conn' = conn /\ upload' = upload /\ toServer' = toServer /\ toClient' = toClient
      /\ queue' = queue /\ disk' = disk /\ route' = route /\ uploads' = uploads
  BY DEF uploadVars
<1>2. UploadTypeOK' /\ OpenHere'
  BY <1>1, InvParts DEF UploadTypeOK, OpenHere
<1> QED
  BY <1>1, <1>2, Unmoved

\* Nothing is on its way at the start.
LEMMA UploadInvInit ==
  ASSUME NEW connected \in [Callers -> Resources \cup {NoServer}], UploadInit(connected)
  PROVE  UploadInv
<1>1. /\ conn = connected
      /\ upload = [c \in Callers |-> NoUpload]
      /\ toServer = [c \in Callers |-> <<>>]
      /\ toClient = [c \in Callers |-> <<>>]
      /\ queue = [r \in Resources |-> <<>>]
      /\ disk = [r \in Resources |-> [f \in Files |-> [blocks |-> <<>>, by |-> {}]]]
      /\ route = [x \in Uuids |-> NoServer]
      /\ uploads = 0
  BY DEF UploadInit
<1>2. <<>> \in Seq(Messages) /\ <<>> \in Seq(Responses) /\ <<>> \in Seq(Entries) /\ Len(<<>>) = 0
      /\ <<>> \in Seq(1..Blocks) /\ \A i : i \notin DOMAIN <<>>
  OBVIOUS
<1>3. UploadTypeOK
  <2>1. NoUpload \in Transfers
    BY TransferUpdates
  <2>2. \A r \in Resources : Len(queue[r]) <= QueueSize + 1
    BY <1>1, <1>2, BlocksAssumption
  <2>3. disk \in [Resources -> [Files -> [blocks : Seq(1..Blocks), by : SUBSET Nat]]]
    <3>1. [blocks |-> <<>>, by |-> {}] \in [blocks : Seq(1..Blocks), by : SUBSET Nat]
      BY <1>2
    <3> QED
      BY <1>1, <3>1
  <2>4. /\ toServer \in [Callers -> Seq(Messages)] /\ toClient \in [Callers -> Seq(Responses)]
        /\ queue \in [Resources -> Seq(Entries)]
    BY <1>1, <1>2
  <2> QED
    BY <1>1, <2>1, <2>2, <2>3, <2>4 DEF UploadTypeOK
<1>4. Numbered
  <2>1. \A c \in Callers : upload[c].id = 0 /\ ~upload[c].isOpen
    BY <1>1 DEF NoUpload
  <2> QED
    BY <1>1, <2>1 DEF Numbered
<1>5. Flight = {}
  <2>1. ASSUME NEW p \in Flight PROVE FALSE
    <3>1. PICK k \in {"out", "queue", "in"}, x \in Callers \cup Resources : \E j : p = <<k, x, j>>
      BY Places
    <3>2. PICK i : p = <<k, x, i>>
      BY <3>1
    <3> QED
      BY <1>1, <1>2, <3>2, Places
  <2> QED
    BY <2>1
<1>6. OpenHere
  BY <1>1, <1>2 DEF OpenHere
<1> QED
  BY <1>3, <1>4, <1>5, <1>6 DEF UploadInv, InStep, OneOnItsWay, OnDisk

\* Every step keeps the invariant.
LEMMA UploadInvNext ==
  ASSUME UploadInv, [Next]_vars
  PROVE  UploadInv'
<1>1. CASE BalanceNext /\ ServersEnd
  BY <1>1, ServersEndInv
<1>2. CASE UNCHANGED uploadVars
  BY <1>2, UploadStutter
<1>3. CASE UploadNext
  <2>1. ASSUME NEW c \in Callers,
               Connect(c) \/ StartFileTransmission(c) \/ DataTransmissionStatus(c)
               \/ SendLoginOrLogout(c) \/ Disconnect(c) \/ HandleMsgBody(c)
        PROVE  UploadInv'
    BY <2>1, ConnectInv, StartFileTransmissionInv, DataTransmissionStatusInv, SendLoginInv,
       DisconnectInv, HandleMsgBodyInv
  <2>2. ASSUME NEW r \in Resources, Worker(r) PROVE UploadInv'
    BY <2>2, HandlingFileUploadingInv, HandlingLoginInv DEF Worker
  <2> QED
    BY <1>3, <2>1, <2>2 DEF UploadNext
<1>4. ASSUME NEW c \in Callers, HandlingLoginThere(c) \/ LeavesChatting(c)
      PROVE  UNCHANGED uploadVars
  BY <1>4 DEF HandlingLoginThere, LeavesChatting
<1>5. ASSUME UNCHANGED vars PROVE UNCHANGED uploadVars
  BY <1>5 DEF vars
<1> QED
  BY <1>1, <1>2, <1>3, <1>4, <1>5 DEF Next

\* What the invariant says of the answer to a last block.
LEMMA WholeFollows ==
  ASSUME UploadInv
  PROVE  UploadedWhole
<1> SUFFICES ASSUME NEW r \in Resources, NEW c \in Callers, NEW i \in DOMAIN toClient[c],
                    NEW a, a = toClient[c][i], conn[c] = r, a.ok, a.seq = Blocks, a.alone,
                    disk[r][a.file].by = {a.id}
             PROVE  disk[r][a.file].blocks = [k \in 1..Blocks |-> k]
  BY DEF UploadedWhole
<1>0. PICK p : p = <<"in", c, i>>
  OBVIOUS
<1>1. p \in Flight /\ p[1] = "in" /\ Block(p) = a /\ Where(p) = r
  BY <1>0, Places, Values
<1>2. Written(p) = Blocks /\ Blocks > 0
  BY <1>1, BlocksAssumption DEF Written
<1>3. Stored(disk[r][a.file], a.id, Blocks)
  BY <1>1, <1>2, InvParts DEF OnDisk
<1> QED
  BY <1>3 DEF Stored

\* The invariant of the uploads, from the start on.
LEMMA Uploaded == Spec => []UploadInv
<1>1. Init => UploadInv
  <2> SUFFICES ASSUME Init PROVE UploadInv
    OBVIOUS
  <2>1. PICK connected \in Connected : UploadInit(connected)
    BY DEF Init
  <2>2. connected \in [Callers -> Resources \cup {NoServer}]
    BY ConnectedAssumption
  <2> QED
    BY <2>1, <2>2, UploadInvInit
<1>2. UploadInv /\ [Next]_vars => UploadInv'
  BY UploadInvNext
<1> QED
  BY <1>1, <1>2, PTL DEF Spec

\* A client that is answered success for the last block of its file has the whole file on
\* the server, its blocks in their order, if no other upload wrote to the name and the
\* upload did not begin with an answer to an earlier one to come: for any files, of any
\* length, with breaking connections, servers that end, writes that fail and queues that
\* are full.
THEOREM UploadsAreWhole == Spec => []UploadedWhole
<1>1. UploadInv => UploadedWhole
  BY WholeFollows
<1> QED
  BY <1>1, Uploaded, PTL

-----------------------------------------------------------------------------
USE NamesAssumption, UuidsAssumption, ThreadsAssumption, TablesAssumption
    DEF vars, balanceVars, gatewayVars, uploadVars, redis, registry, users, captchaVars,
        tables, server

\* No more accounts than names: the uuids are those of users.
LEMMA UuidsOfAccounts == AccountsOK => DOMAIN accounts \subseteq Uuids
<1> SUFFICES ASSUME AccountsOK PROVE DOMAIN accounts \subseteq Uuids
  OBVIOUS
<1>1. PICK n \in Nat : n = Len(accounts) /\ DOMAIN accounts = 1..n
  BY DEF AccountsOK
<1> DEFINE f == [i \in 1..n |-> accounts[i].name]
<1>2. IsFiniteSet(1..n) /\ Cardinality(1..n) = n
  <2>1. 1 \in Int /\ n \in Int
    OBVIOUS
  <2>2. IsFiniteSet(1..n) /\ Cardinality(1..n) = IF 1 > n THEN 0 ELSE n - 1 + 1
    BY <2>1, FS_Interval
  <2> QED
    BY <2>2
<1>3. f \in [1..n -> Names]
  <2>1. \A i \in 1..n : accounts[i] \in AccountRec
    BY <1>1 DEF AccountsOK
  <2> QED
    BY <2>1 DEF AccountRec
<1>4. \A x, y \in 1..n : f[x] = f[y] => x = y
  BY <1>1 DEF AccountsOK
<1>5. IsFiniteSet(Names) /\ Cardinality(Names) \in Nat
  BY FS_CardinalityType, UuidsAssumption
<1>6. n <= Cardinality(Names)
  <2>1. SUFFICES ASSUME Cardinality(Names) < n PROVE FALSE
    BY <1>5
  <2> HIDE DEF f
  <2>2. \E x, y \in 1..n : x # y /\ f[x] = f[y]
    BY <2>1, <1>2, <1>3, <1>5, FS_PigeonHole
  <2> QED
    BY <2>2, <1>4
<1> QED
  BY <1>1, <1>5, <1>6, UuidsAssumption

\* The user of a name is one of them, and 0 stands for nobody.
LEMMA UuidByName ==
  AccountsOK => \A n : /\ GetUuidByName(n) \in Uuids \cup {0}
                       /\ \A p : CheckAccountLogin(n, p) => GetUuidByName(n) \in Uuids
  BY UuidsOfAccounts DEF GetUuidByName, CheckAccountLogin

\* What the actions make of a call and of a connection are such again.
LEMMA CallUpdates ==
  /\ NoCall \in CallRec
  /\ \A x \in Uuids, st \in {"begin", "done"} :
       [NoCall EXCEPT !.step = st, !.uuid = x] \in CallRec
  /\ \A r \in CallRec :
       /\ [r EXCEPT !.quiet = FALSE] \in CallRec
       /\ [r EXCEPT !.step = "token"] \in CallRec
       /\ [r EXCEPT !.step = "register"] \in CallRec
       /\ \A b \in BOOLEAN, t \in Nat :
            [r EXCEPT !.step = "done", !.ok = b, !.token = t] \in CallRec
       /\ \A s \in Chatting, S \in SUBSET Chatting :
            [r EXCEPT !.step = "balance", !.min = s, !.quiet = TRUE, !.start = S,
                      !.visited = {s}] \in CallRec
       /\ \A s \in Chatting :
            /\ [r EXCEPT !.visited = @ \cup {s}] \in CallRec
            /\ [r EXCEPT !.visited = @ \cup {s}, !.min = s] \in CallRec
  <1>1. NoCall \in CallRec
    BY DEF NoCall, CallRec
  <1>2. \A x \in Uuids, st \in {"begin", "done"} :
          [NoCall EXCEPT !.step = st, !.uuid = x] \in CallRec
    BY DEF NoCall, CallRec
  <1>3. ASSUME NEW r \in CallRec
        PROVE  /\ [r EXCEPT !.quiet = FALSE] \in CallRec
               /\ [r EXCEPT !.step = "token"] \in CallRec
               /\ [r EXCEPT !.step = "register"] \in CallRec
    BY DEF CallRec
  <1>4. ASSUME NEW r \in CallRec, NEW b \in BOOLEAN, NEW t \in Nat
        PROVE  [r EXCEPT !.step = "done", !.ok = b, !.token = t] \in CallRec
    BY DEF CallRec
  <1>5. ASSUME NEW r \in CallRec, NEW s \in Chatting, NEW S \in SUBSET Chatting
        PROVE  [r EXCEPT !.step = "balance", !.min = s, !.quiet = TRUE, !.start = S,
                         !.visited = {s}] \in CallRec
    BY DEF CallRec
  <1>6. ASSUME NEW r \in CallRec, NEW s \in Chatting
        PROVE  /\ [r EXCEPT !.visited = @ \cup {s}] \in CallRec
               /\ [r EXCEPT !.visited = @ \cup {s}, !.min = s] \in CallRec
    BY DEF CallRec
  <1> QED
    BY <1>1, <1>2, <1>3, <1>4, <1>5, <1>6

-----------------------------------------------------------------------------
(* What the steps that change a call do to it                              *)

\* The other calls stay.
Others(c) == \A d \in Callers \ {c} : call'[d] = call[d]

\* Stir: no call but an idle one is quiet after it.
LEMMA Stirs ==
  ASSUME CallsOK, Stir
  PROVE  /\ call' \in [Callers -> CallRec]
         /\ \A d \in Callers :
              /\ call'[d].step = call[d].step /\ call'[d].uuid = call[d].uuid
              /\ call'[d].ok = call[d].ok /\ call'[d].token = call[d].token
              /\ call'[d].quiet => call[d].step = "idle"
<1>1. call' \in [Callers -> CallRec]
  BY CallUpdates DEF CallsOK, Stir
<1>2. \A r \in CallRec : LET q == [r EXCEPT !.quiet = FALSE] IN
        q.step = r.step /\ q.uuid = r.uuid /\ q.ok = r.ok /\ q.token = r.token /\ ~q.quiet
  BY DEF CallRec
<1> QED
  BY <1>1, <1>2 DEF CallsOK, Stir

\* BalanceDies: the calls in the balance server fail.
LEMMA Dies ==
  ASSUME CallsOK, BalanceDies
  PROVE  /\ call' \in [Callers -> CallRec]
         /\ \A d \in Callers : call'[d] # call[d] =>
              /\ call'[d].step = "done" /\ ~call'[d].ok /\ call'[d].uuid = call[d].uuid
              /\ call[d].step \notin {"idle", "done"}
         /\ \A d \in Callers : call'[d].step \in {"idle", "done"}
<1>1. call' \in [Callers -> CallRec]
  BY CallUpdates DEF CallsOK, BalanceDies, Answer
<1>2. \A r \in CallRec : LET q == [r EXCEPT !.step = "done", !.ok = FALSE, !.token = 0] IN
        q.step = "done" /\ ~q.ok /\ q.uuid = r.uuid
  BY DEF CallRec
<1> QED
  BY <1>1, <1>2 DEF CallsOK, BalanceDies, Answer

\* Answer: a call is done.
LEMMA Answers ==
  ASSUME CallsOK, NEW c \in Callers, NEW b \in BOOLEAN, NEW t \in Nat,
         call' = [call EXCEPT ![c] = Answer(c, b, t)]
  PROVE  /\ call' \in [Callers -> CallRec] /\ Others(c)
         /\ call'[c].step = "done" /\ call'[c].ok = b /\ call'[c].token = t
         /\ call'[c].uuid = call[c].uuid
<1>1. [call[c] EXCEPT !.step = "done", !.ok = b, !.token = t] \in CallRec
  BY CallUpdates DEF CallsOK
<1>2. \A r \in CallRec : LET q == [r EXCEPT !.step = "done", !.ok = b, !.token = t] IN
        q.step = "done" /\ q.ok = b /\ q.token = t /\ q.uuid = r.uuid
  BY DEF CallRec
<1> QED
  BY <1>1, <1>2 DEF CallsOK, Answer, Others

\* A new call, and the end of one.
LEMMA Calls ==
  ASSUME CallsOK, NEW c \in Callers, NEW x \in Uuids, AddNewUserToServer(c, x)
  PROVE  /\ call' \in [Callers -> CallRec] /\ Others(c)
         /\ call'[c].step \in {"begin", "done"} /\ call'[c].uuid = x /\ ~call'[c].ok
<1> DEFINE st == IF running THEN "begin" ELSE "done"
           q == [NoCall EXCEPT !.step = st, !.uuid = x]
<1>1. st \in {"begin", "done"}
  OBVIOUS
<1>2. q \in CallRec
  BY <1>1, CallUpdates
<1>3. q.step = st /\ q.uuid = x /\ ~q.ok
  BY DEF NoCall
<1>4. call' = [call EXCEPT ![c] = q]
  BY DEF AddNewUserToServer
<1> HIDE DEF q
<1> QED
  BY <1>1, <1>2, <1>3, <1>4 DEF CallsOK, Others

LEMMA CallEnds ==
  ASSUME CallsOK, NEW c \in Callers, call' = [call EXCEPT ![c] = NoCall]
  PROVE  call' \in [Callers -> CallRec] /\ Others(c) /\ call'[c].step = "idle" /\ call'[c].uuid = 0
<1>1. NoCall \in CallRec /\ NoCall.step = "idle" /\ NoCall.uuid = 0
  BY CallUpdates DEF NoCall
<1> QED
  BY <1>1 DEF CallsOK, Others

\* FirstServer.
LEMMA Begins ==
  ASSUME CallsOK, NEW c \in Callers, FirstServer(c)
  PROVE  /\ call' \in [Callers -> CallRec] /\ Others(c) /\ seen' \in [Chatting -> Nat]
         /\ call'[c].uuid = call[c].uuid /\ call[c].step = "begin"
         /\ \/ call'[c].step = "done" /\ ~call'[c].ok /\ seen' = seen
            \/ \E s \in instances \cap Chatting :
                 /\ call'[c].step = "balance" /\ call'[c].min = s /\ call'[c].visited = {s}
                 /\ call'[c].start = instances \cap Chatting
                 /\ seen' = [seen EXCEPT ![s] = load[s]]
<1>1. CASE call' = [call EXCEPT ![c] = Answer(c, FALSE, 0)] /\ seen' = seen
  BY <1>1, Answers DEF FirstServer, CallsOK
<1>2. ASSUME NEW s \in instances \cap Chatting,
             seen' = [seen EXCEPT ![s] = load[s]],
             call' = [call EXCEPT ![c] = [call[c] EXCEPT !.step = "balance", !.min = s,
                        !.quiet = TRUE, !.start = instances \cap Chatting, !.visited = {s}]]
      PROVE  /\ call' \in [Callers -> CallRec] /\ Others(c)
             /\ call'[c].uuid = call[c].uuid
             /\ call'[c].step = "balance" /\ call'[c].min = s /\ call'[c].visited = {s}
             /\ call'[c].start = instances \cap Chatting
  <2>1. \A r \in CallRec : LET q == [r EXCEPT !.step = "balance", !.min = s, !.quiet = TRUE,
                                        !.start = instances \cap Chatting, !.visited = {s}] IN
          /\ q \in CallRec
          /\ q.uuid = r.uuid /\ q.step = "balance" /\ q.min = s /\ q.visited = {s}
          /\ q.start = instances \cap Chatting
    BY DEF CallRec
  <2> QED
    BY <1>2, <2>1 DEF CallsOK, Others
<1>3. seen' \in [Chatting -> Nat]
  <2>1. PICK s : \/ s \in Chatting /\ (seen' = seen \/ seen' = [seen EXCEPT ![s] = load[s]])
                 \/ seen' = seen
    BY DEF FirstServer, GetValueFromHash
  <2> QED
    BY <2>1 DEF CallsOK
<1> QED
  BY <1>1, <1>2, <1>3 DEF FirstServer, GetValueFromHash

\* LoopOverServers: one more server is visited, and the least of the two is kept.
LEMMA Loops ==
  ASSUME CallsOK, NEW c \in Callers, LoopOverServers(c)
  PROVE  /\ call' \in [Callers -> CallRec] /\ Others(c) /\ seen' \in [Chatting -> Nat]
         /\ call[c].step = "balance" /\ call'[c].step = "balance"
         /\ call'[c].uuid = call[c].uuid /\ call'[c].start = call[c].start
         /\ call'[c].quiet = call[c].quiet
         /\ \E s \in (call[c].start \cup (instances \cap Chatting)) \ call[c].visited :
              /\ s \in Chatting
              /\ call'[c].visited = call[c].visited \cup {s}
              /\ \/ /\ seen' = [seen EXCEPT ![s] = load[s]]
                    /\ call'[c].min = IF seen'[s] < seen[call[c].min] THEN s ELSE call[c].min
                 \/ s \notin instances /\ seen' = seen /\ call'[c].min = call[c].min
<1>1. PICK s \in (call[c].start \cup (instances \cap Chatting)) \ call[c].visited :
        \/ /\ seen' = [seen EXCEPT ![s] = load[s]]
           /\ call' = [call EXCEPT ![c].visited = @ \cup {s},
                                   ![c].min = IF seen'[s] < seen[@] THEN s ELSE @]
        \/ /\ s \notin instances
           /\ call' = [call EXCEPT ![c].visited = @ \cup {s}]
           /\ seen' = seen
  BY DEF LoopOverServers, GetValueFromHash
<1>2. s \in Chatting
  BY <1>1 DEF CallsOK, CallRec
<1> DEFINE m == IF seen'[s] < seen[call[c].min] THEN s ELSE call[c].min
<1>3. \A r \in CallRec, k \in Chatting \cup {NoServer} :
        LET q == [r EXCEPT !.visited = @ \cup {s}, !.min = k]
            p == [r EXCEPT !.visited = @ \cup {s}] IN
        /\ q \in CallRec /\ p \in CallRec
        /\ q.step = r.step /\ q.uuid = r.uuid /\ q.start = r.start /\ q.quiet = r.quiet
        /\ q.visited = r.visited \cup {s} /\ q.min = k
        /\ p.step = r.step /\ p.uuid = r.uuid /\ p.start = r.start /\ p.quiet = r.quiet
        /\ p.visited = r.visited \cup {s} /\ p.min = r.min
  BY <1>2 DEF CallRec
<1>4. call[c] \in CallRec /\ call[c].min \in Chatting \cup {NoServer} /\ call[c].step = "balance"
  BY DEF CallsOK, CallRec, LoopOverServers
<1>5. seen' \in [Chatting -> Nat]
  BY <1>1, <1>2 DEF CallsOK
<1>6. CASE /\ seen' = [seen EXCEPT ![s] = load[s]]
           /\ call' = [call EXCEPT ![c].visited = @ \cup {s},
                                   ![c].min = IF seen'[s] < seen[@] THEN s ELSE @]
  <2>1. m \in Chatting \cup {NoServer}
    BY <1>2, <1>4
  <2>2. call' = [call EXCEPT ![c] = [call[c] EXCEPT !.visited = @ \cup {s}, !.min = m]]
    BY <1>4, <1>6 DEF CallsOK, CallRec
  <2> HIDE DEF m
  <2>3. /\ call' \in [Callers -> CallRec] /\ Others(c)
        /\ call'[c].step = "balance"
        /\ call'[c].uuid = call[c].uuid /\ call'[c].start = call[c].start
        /\ call'[c].quiet = call[c].quiet
        /\ call'[c].visited = call[c].visited \cup {s} /\ call'[c].min = m
    <3>1. PICK q : q = [call[c] EXCEPT !.visited = @ \cup {s}, !.min = m]
      OBVIOUS
    <3>2. /\ q \in CallRec /\ q.step = call[c].step /\ q.uuid = call[c].uuid
          /\ q.start = call[c].start /\ q.quiet = call[c].quiet
          /\ q.visited = call[c].visited \cup {s} /\ q.min = m
      BY <3>1, <2>1, <1>2, <1>4 DEF CallRec
    <3>3. call' = [call EXCEPT ![c] = q]
      BY <2>2, <3>1
    <3> QED
      BY <3>2, <3>3, <1>4 DEF CallsOK, Others
  <2> QED
    BY <2>3, <1>1, <1>2, <1>4, <1>5, <1>6 DEF m
<1>7. CASE s \notin instances /\ call' = [call EXCEPT ![c].visited = @ \cup {s}] /\ seen' = seen
  <2>1. /\ call' \in [Callers -> CallRec] /\ Others(c)
        /\ call'[c].step = "balance"
        /\ call'[c].uuid = call[c].uuid /\ call'[c].start = call[c].start
        /\ call'[c].quiet = call[c].quiet
        /\ call'[c].visited = call[c].visited \cup {s} /\ call'[c].min = call[c].min
    BY <1>3, <1>4, <1>7 DEF CallsOK, Others
  <2> QED
    BY <2>1, <1>1, <1>2, <1>4, <1>5, <1>7
<1> QED
  BY <1>1, <1>6, <1>7

\* A call goes on with its next step.
LEMMA GoesOn ==
  ASSUME CallsOK, NEW c \in Callers, NEW st \in {"token", "register"},
         call' = [call EXCEPT ![c].step = st]
  PROVE  /\ call' \in [Callers -> CallRec] /\ Others(c)
         /\ call'[c].step = st /\ call'[c].uuid = call[c].uuid
         /\ call'[c].min = call[c].min /\ call'[c].start = call[c].start
         /\ call'[c].visited = call[c].visited /\ call'[c].quiet = call[c].quiet
<1>1. \A r \in CallRec : LET q == [r EXCEPT !.step = st] IN
        /\ q \in CallRec /\ q.step = st /\ q.uuid = r.uuid /\ q.min = r.min /\ q.start = r.start
        /\ q.visited = r.visited /\ q.quiet = r.quiet
  BY DEF CallRec
<1> QED
  BY <1>1 DEF CallsOK, Others

\* A counter is set to a number.
LEMMA Counts ==
  ASSUME CallsOK, NEW s, NEW n, s \in Chatting \cup Resources => n \in Nat
  PROVE  [load EXCEPT ![s] = n] \in [Chatting \cup Resources -> Nat]
  BY DEF CallsOK

\* Every step keeps the types of calls, counters and tokens.
LEMMA NextCalls == AccountsOK /\ CallsOK /\ [Next]_vars => CallsOK'
<1> SUFFICES ASSUME AccountsOK, CallsOK, [Next]_vars PROVE CallsOK'
  OBVIOUS
<1>1. CASE UNCHANGED vars
  BY <1>1 DEF CallsOK, Missing
<1>2. ASSUME NEW s \in Chatting \cup Resources, RegisterInstance(s),
         UNCHANGED <<gatewayVars, chatting>>
     PROVE  CallsOK'
  <2>1. /\ call' \in [Callers -> CallRec]
        /\ \A d \in Callers : call'[d].step # "idle" => call'[d].uuid \in Uuids
    BY <1>2, Stirs DEF RegisterInstance, CallsOK
  <2>2. /\ load' \in [Chatting \cup Resources -> Nat] /\ seen' \in [Chatting -> Nat]
        /\ tokens' \in Nat /\ token' \in [Uuids -> Nat]
    BY <1>2 DEF RegisterInstance, CallsOK, Missing
  <2> QED
    BY <2>1, <2>2 DEF CallsOK
<1>3. ASSUME NEW s \in Chatting \cup Resources, Count(s),
         UNCHANGED <<gatewayVars, chatting>>
     PROVE  CallsOK'
  <2>1. /\ call' \in [Callers -> CallRec]
        /\ \A d \in Callers : call'[d].step # "idle" => call'[d].uuid \in Uuids
    BY <1>3, Stirs DEF Count, CallsOK
  <2>2. /\ load' \in [Chatting \cup Resources -> Nat] /\ seen' \in [Chatting -> Nat]
        /\ tokens' \in Nat /\ token' \in [Uuids -> Nat]
    BY <1>3 DEF Count, SetValue2Hash, CallsOK, Missing
  <2> QED
    BY <2>1, <2>2 DEF CallsOK
<1>4. ASSUME NEW s \in Chatting \cup Resources, Uncount(s),
         UNCHANGED <<gatewayVars, chatting>>
     PROVE  CallsOK'
  <2>1. /\ call' \in [Callers -> CallRec]
        /\ \A d \in Callers : call'[d].step # "idle" => call'[d].uuid \in Uuids
    BY <1>4, Stirs DEF Uncount, CallsOK
  <2>2. /\ load' \in [Chatting \cup Resources -> Nat] /\ seen' \in [Chatting -> Nat]
        /\ tokens' \in Nat /\ token' \in [Uuids -> Nat]
    BY <1>4 DEF Uncount, DelValueFromHash, CallsOK, Missing
  <2> QED
    BY <2>1, <2>2 DEF CallsOK
<1>5. ASSUME NEW s \in Chatting \cup Resources, ShutdownInstance(s),
         UNCHANGED <<gatewayVars, chatting>>
     PROVE  CallsOK'
  <2>1. /\ call' \in [Callers -> CallRec]
        /\ \A d \in Callers : call'[d].step # "idle" => call'[d].uuid \in Uuids
    BY <1>5, Stirs DEF ShutdownInstance, CallsOK
  <2>2. /\ load' \in [Chatting \cup Resources -> Nat] /\ seen' \in [Chatting -> Nat]
        /\ tokens' \in Nat /\ token' \in [Uuids -> Nat]
    BY <1>5 DEF ShutdownInstance, CallsOK, Missing
  <2> QED
    BY <2>1, <2>2 DEF CallsOK
<1>6. ASSUME NEW s \in Chatting \cup Resources,
         \/ Start(s) \/ Stop(s) \/ RegisterGrpc(s) \/ RegisterResourcesInstance(s) \/
            ShutdownGrpc(s) \/ ShutdownResourcesInstance(s) \/ Crash(s) \/ GetGrpcPeers(s),
         UNCHANGED <<gatewayVars, chatting>>
     PROVE  CallsOK'
  BY <1>6 DEF Start, Request, SetLife, Stop, RegisterGrpc, Accepted,
              RegisterResourcesInstance, ShutdownGrpc, ShutdownResourcesInstance, Crash,
              Fault, GetGrpcPeers, CallsOK, Missing
<1>7. ASSUME BalanceCrash, UNCHANGED <<gatewayVars, chatting>>
     PROVE  CallsOK'
  <2>1. /\ call' \in [Callers -> CallRec]
        /\ \A d \in Callers : call'[d].step # "idle" => call'[d].uuid \in Uuids
    BY <1>7, Dies DEF BalanceCrash, CallsOK
  <2>2. /\ load' \in [Chatting \cup Resources -> Nat] /\ seen' \in [Chatting -> Nat]
        /\ tokens' \in Nat /\ token' \in [Uuids -> Nat]
    BY <1>7 DEF BalanceCrash, BalanceDies, CallsOK, Missing
  <2> QED
    BY <2>1, <2>2 DEF CallsOK
<1>8. ASSUME 
         \/ BalanceStart,
         UNCHANGED <<gatewayVars, chatting>>
     PROVE  CallsOK'
  BY <1>8 DEF BalanceStart, CallsOK, Missing
<1>9. ASSUME NEW c \in Callers, FirstServer(c),
         UNCHANGED <<gatewayVars, chatting>>
     PROVE  CallsOK'
  <2>1. /\ call' \in [Callers -> CallRec]
        /\ \A d \in Callers : call'[d].step # "idle" => call'[d].uuid \in Uuids
    BY <1>9, Begins DEF CallsOK, Others
  <2>2. /\ load' \in [Chatting \cup Resources -> Nat] /\ seen' \in [Chatting -> Nat]
        /\ tokens' \in Nat /\ token' \in [Uuids -> Nat]
    BY <1>9, Begins DEF FirstServer, CallsOK
  <2> QED
    BY <2>1, <2>2 DEF CallsOK
<1>10. ASSUME NEW c \in Callers, LoopOverServers(c),
         UNCHANGED <<gatewayVars, chatting>>
     PROVE  CallsOK'
  <2>1. /\ call' \in [Callers -> CallRec]
        /\ \A d \in Callers : call'[d].step # "idle" => call'[d].uuid \in Uuids
    BY <1>10, Loops DEF CallsOK, Others
  <2>2. /\ load' \in [Chatting \cup Resources -> Nat] /\ seen' \in [Chatting -> Nat]
        /\ tokens' \in Nat /\ token' \in [Uuids -> Nat]
    BY <1>10, Loops DEF LoopOverServers, CallsOK
  <2> QED
    BY <2>1, <2>2 DEF CallsOK
<1>11. ASSUME NEW c \in Callers, ServerInstanceLoadBalancer(c),
         UNCHANGED <<gatewayVars, chatting>>
     PROVE  CallsOK'
  <2>1. /\ call' \in [Callers -> CallRec]
        /\ \A d \in Callers : call'[d].step # "idle" => call'[d].uuid \in Uuids
    <3>1. call' = [call EXCEPT ![c].step = "token"] /\ call[c].uuid \in Uuids
      BY <1>11 DEF ServerInstanceLoadBalancer, CallsOK
    <3> QED
      BY <3>1, GoesOn DEF CallsOK, Others
  <2>2. /\ load' \in [Chatting \cup Resources -> Nat] /\ seen' \in [Chatting -> Nat]
        /\ tokens' \in Nat /\ token' \in [Uuids -> Nat]
    BY <1>11 DEF ServerInstanceLoadBalancer, CallsOK, Missing
  <2> QED
    BY <2>1, <2>2 DEF CallsOK
<1>12. ASSUME NEW c \in Callers, GetUserToken(c),
         UNCHANGED <<gatewayVars, chatting>>
     PROVE  CallsOK'
  <2>1. /\ call' \in [Callers -> CallRec]
        /\ \A d \in Callers : call'[d].step # "idle" => call'[d].uuid \in Uuids
    <3>1. call[c].uuid \in Uuids /\ token[call[c].uuid] \in Nat
      BY <1>12 DEF GetUserToken, CallsOK
    <3>2. CASE token[call[c].uuid] # 0
      BY <1>12, <3>1, <3>2, Answers DEF GetUserToken, CheckValue, CallsOK, Others
    <3>3. CASE token[call[c].uuid] = 0
      BY <1>12, <3>1, <3>3, GoesOn DEF GetUserToken, CheckValue, CallsOK, Others
    <3> QED
      BY <3>2, <3>3
  <2>2. /\ load' \in [Chatting \cup Resources -> Nat] /\ seen' \in [Chatting -> Nat]
        /\ tokens' \in Nat /\ token' \in [Uuids -> Nat]
    BY <1>12 DEF GetUserToken, CallsOK, Missing
  <2> QED
    BY <2>1, <2>2 DEF CallsOK
<1>13. ASSUME NEW c \in Callers, RegisterUserInfo(c),
         UNCHANGED <<gatewayVars, chatting>>
     PROVE  CallsOK'
  <2>1. /\ call' \in [Callers -> CallRec]
        /\ \A d \in Callers : call'[d].step # "idle" => call'[d].uuid \in Uuids
    <3>1. tokens + 1 \in Nat /\ call' = [call EXCEPT ![c] = Answer(c, TRUE, tokens + 1)]
      BY <1>13 DEF RegisterUserInfo, CallsOK
    <3> QED
      BY <1>13, <3>1, Answers DEF RegisterUserInfo, CallsOK, Others
  <2>2. /\ load' \in [Chatting \cup Resources -> Nat] /\ seen' \in [Chatting -> Nat]
        /\ tokens' \in Nat /\ token' \in [Uuids -> Nat]
    BY <1>13 DEF RegisterUserInfo, SetValue, CallsOK, Missing
  <2> QED
    BY <2>1, <2>2 DEF CallsOK
<1>14. ASSUME NEW c \in Callers, ReadsFreedEntry(c),
         UNCHANGED <<gatewayVars, chatting>>
     PROVE  CallsOK'
  <2>1. /\ call' \in [Callers -> CallRec]
        /\ \A d \in Callers : call'[d].step # "idle" => call'[d].uuid \in Uuids
    BY <1>14, Dies DEF ReadsFreedEntry, CallsOK
  <2>2. /\ load' \in [Chatting \cup Resources -> Nat] /\ seen' \in [Chatting -> Nat]
        /\ tokens' \in Nat /\ token' \in [Uuids -> Nat]
    BY <1>14 DEF ReadsFreedEntry, BalanceDies, CallsOK, Missing
  <2> QED
    BY <2>1, <2>2 DEF CallsOK
<1>15. ASSUME NEW c \in Callers, NoLock(c), UNCHANGED <<gatewayVars, chatting>>
     PROVE  CallsOK'
  <2>1. /\ call' \in [Callers -> CallRec]
        /\ \A d \in Callers : call'[d].step # "idle" => call'[d].uuid \in Uuids
    BY <1>15, Answers DEF NoLock, CallsOK, Others
  <2>2. /\ load' \in [Chatting \cup Resources -> Nat] /\ seen' \in [Chatting -> Nat]
        /\ tokens' \in Nat /\ token' \in [Uuids -> Nat]
    BY <1>15 DEF NoLock, CallsOK, Missing
  <2> QED
    BY <2>1, <2>2 DEF CallsOK
<1>16. ASSUME NEW c \in Callers, WriteResponse(c), UNCHANGED <<uploadVars, chatting>>
     PROVE  CallsOK'
  <2>1. /\ call' \in [Callers -> CallRec]
        /\ \A d \in Callers : call'[d].step # "idle" => call'[d].uuid \in Uuids
    BY <1>16, CallEnds DEF WriteResponse, CallsOK, Others
  <2>2. /\ load' \in [Chatting \cup Resources -> Nat] /\ seen' \in [Chatting -> Nat]
        /\ tokens' \in Nat /\ token' \in [Uuids -> Nat]
    BY <1>16 DEF WriteResponse, CallsOK, Missing
  <2> QED
    BY <2>1, <2>2 DEF CallsOK
<1>17. ASSUME NEW c \in Callers, TryLogin(c), UNCHANGED <<uploadVars, chatting>>
     PROVE  CallsOK'
  <2>0. CheckAccountLogin(http[c].name, http[c].password) => GetUuidByName(http[c].name) \in Uuids
    BY UuidByName
  <2>1. /\ call' \in [Callers -> CallRec]
        /\ \A d \in Callers : call'[d].step # "idle" => call'[d].uuid \in Uuids
    <3>1. CASE CheckAccountLogin(http[c].name, http[c].password)
      <4>1. GetUuidByName(http[c].name) \in Uuids /\ AddNewUserToServer(c, GetUuidByName(http[c].name))
        BY <1>17, <2>0, <3>1 DEF TryLogin
      <4>2. /\ call' \in [Callers -> CallRec] /\ call'[c].uuid \in Uuids
            /\ \A d \in Callers \ {c} : call'[d] = call[d]
        BY <4>1, Calls DEF Others
      <4> QED
        BY <4>2 DEF CallsOK
    <3>2. CASE ~CheckAccountLogin(http[c].name, http[c].password)
      BY <1>17, <3>2 DEF TryLogin, CallsOK
    <3> QED
      BY <3>1, <3>2
  <2>2. /\ load' \in [Chatting \cup Resources -> Nat] /\ seen' \in [Chatting -> Nat]
        /\ tokens' \in Nat /\ token' \in [Uuids -> Nat]
    BY <1>17 DEF TryLogin, AddNewUserToServer, CallsOK, Missing
  <2> QED
    BY <2>1, <2>2 DEF CallsOK
<1>18. ASSUME NEW c \in Callers,
         \/ HandleAccept(c) \/ SendRequest(c) \/ CheckTimeout(c) \/ SendMailFails(c) \/
            ProcessRequest(c) \/ CheckAccountExists(c) \/ PostRegistration(c) \/
            RegisterNewUser(c) \/ GetUuid(c) \/ ResetPassword(c) \/ LoginAnswer(c) \/
            CheckKey(c) \/ GenerateCode(c) \/ GenerateEmail(c),
         UNCHANGED <<uploadVars, chatting>>
     PROVE  CallsOK'
  BY <1>18 DEF HandleAccept, Request, At, SendRequest, GoTo, CheckTimeout, SendMailFails,
           Fault, ProcessRequest, Respond, CheckAccountExists, PostRegistration,
           RegisterNewUser, GetUuid, ResetPassword, LoginAnswer, CheckKey, GenerateCode,
           GenerateEmail, CallsOK, Missing
<1>19. ASSUME NEW e \in Emails,
         \/ SetValueExpiracy(e) \/ CodeExpires(e),
         UNCHANGED <<uploadVars, chatting>>
     PROVE  CallsOK'
  BY <1>19 DEF SetValueExpiracy, CodeExpires, CallsOK, Missing
<1>20. ASSUME NEW c \in Callers,
         \/ Connect(c) \/ StartFileTransmission(c) \/ DataTransmissionStatus(c) \/
            SendLoginOrLogout(c) \/ Disconnect(c) \/ HandleMsgBody(c),
         UNCHANGED <<gatewayVars, chatting>>
     PROVE  CallsOK'
  BY <1>20 DEF Connect, Request, StartFileTransmission, DataTransmissionStatus,
           SendLoginOrLogout, Disconnect, Fault, HandleMsgBody, CallsOK, Missing
<1>21. ASSUME NEW r \in Resources, HandlingLogin(r), UNCHANGED <<gatewayVars, chatting>>
     PROVE  CallsOK'
  BY <1>21 DEF HandlingLogin, IncrementConnection, SetValue2Hash, GetValueFromHash, CallsOK,
           Missing
<1>22. ASSUME NEW r \in Resources, HandlingLogout(r), UNCHANGED <<gatewayVars, chatting>>
     PROVE  CallsOK'
  BY <1>22 DEF HandlingLogout, DecrementConnection, SetValue2Hash, GetValueFromHash,
           CallsOK, Missing
<1>23. ASSUME NEW r \in Resources,
         HandlingFileUploading(r),
         UNCHANGED <<gatewayVars, chatting>>
     PROVE  CallsOK'
  BY <1>23 DEF HandlingFileUploading, Fault, Request, CallsOK, Missing
<1>24. ASSUME NEW c \in Callers, HandlingLoginThere(c)
     PROVE  CallsOK'
  <2>0. call' = call \/ Stir
    BY <1>24 DEF HandlingLoginThere
  <2>1. /\ call' \in [Callers -> CallRec]
        /\ \A d \in Callers : call'[d].step # "idle" => call'[d].uuid \in Uuids
    BY <2>0, Stirs DEF CallsOK
  <2>2. load' \in [Chatting \cup Resources -> Nat]
    <3>1. CASE load' = load
      BY <3>1 DEF CallsOK
    <3>2. CASE \/ load' = [load EXCEPT ![held[c].server] = 1]
               \/ load' = [load EXCEPT ![held[c].server] = load[held[c].server] + 1]
      <4>1. held[c].server \in Chatting \cup Resources => load[held[c].server] + 1 \in Nat
        BY DEF CallsOK
      <4> QED
        BY <3>2, <4>1, Counts
    <3> QED
      BY <1>24, <3>1, <3>2 DEF HandlingLoginThere, SetValue2Hash, GetValueFromHash
  <2> QED
    BY <1>24, <2>1, <2>2 DEF HandlingLoginThere, CallsOK
<1>25. ASSUME NEW c \in Callers, LeavesChatting(c)
     PROVE  CallsOK'
  <2>0. call' = call \/ Stir
    BY <1>25 DEF LeavesChatting
  <2>1. /\ call' \in [Callers -> CallRec]
        /\ \A d \in Callers : call'[d].step # "idle" => call'[d].uuid \in Uuids
    BY <2>0, Stirs DEF CallsOK
  <2>2. load' \in [Chatting \cup Resources -> Nat]
    <3>1. CASE load' = load
      BY <3>1 DEF CallsOK
    <3>2. CASE load' = [load EXCEPT ![chatting[c]] = load[chatting[c]] - 1] /\ load[chatting[c]] # 0
      <4>1. chatting[c] \in Chatting \cup Resources => load[chatting[c]] - 1 \in Nat
        BY <3>2 DEF CallsOK
      <4> QED
        BY <3>2, <4>1, Counts
    <3> QED
      BY <1>25, <3>1, <3>2 DEF LeavesChatting, SetValue2Hash, GetValueFromHash
  <2> QED
    BY <1>25, <2>1, <2>2 DEF LeavesChatting, CallsOK
<1> QED
  BY <1>1, <1>2, <1>3, <1>4, <1>5, <1>6, <1>7, <1>8, <1>9, <1>10, <1>11, <1>12, <1>13,
     <1>14, <1>15, <1>16, <1>17, <1>18, <1>19, <1>20, <1>21, <1>22, <1>23, <1>24, <1>25
   DEF Next, BalanceNext, GatewayNext, UploadNext, Life, RegisterUser, Handler, Worker

-----------------------------------------------------------------------------
(* What any step does to the calls                                         *)

\* A call stays with its user, asks for no token, and is answered none.
Passive ==
  \A d \in Callers :
    /\ call'[d].uuid = call[d].uuid
    /\ call'[d].step = "register" => call[d].step = "register"
    /\ call'[d].step = "done" /\ call'[d].ok <=> call[d].step = "done" /\ call[d].ok
    /\ call[d].step = "done" => call'[d].token = call[d].token

LEMMA PassiveStir == CallsOK /\ (call' = call \/ Stir) => Passive
  BY Stirs DEF Passive

LEMMA PassiveDies == CallsOK /\ BalanceDies => Passive
<1> SUFFICES ASSUME CallsOK, BalanceDies, NEW d \in Callers
             PROVE  /\ call'[d].uuid = call[d].uuid
                    /\ call'[d].step = "register" => call[d].step = "register"
                    /\ call'[d].step = "done" /\ call'[d].ok <=> call[d].step = "done" /\ call[d].ok
                    /\ call[d].step = "done" => call'[d].token = call[d].token
  BY DEF Passive
<1> QED
  BY Dies

\* FirstServer, LoopOverServers, ServerInstanceLoadBalancer and NoLock.
LEMMA PassiveBalancer ==
  ASSUME CallsOK, NEW c \in Callers,
         FirstServer(c) \/ LoopOverServers(c) \/ ServerInstanceLoadBalancer(c) \/ NoLock(c)
  PROVE  Passive
<1>1. CASE FirstServer(c)
  BY <1>1, Begins DEF Passive, Others
<1>2. CASE LoopOverServers(c)
  BY <1>2, Loops DEF Passive, Others
<1>3. CASE ServerInstanceLoadBalancer(c)
  <2>1. call' = [call EXCEPT ![c].step = "token"] /\ call[c].step = "balance"
    BY <1>3 DEF ServerInstanceLoadBalancer
  <2> QED
    BY <2>1, GoesOn DEF Passive, Others
<1>4. CASE NoLock(c)
  <2>1. call' = [call EXCEPT ![c] = Answer(c, FALSE, 0)] /\ call[c].step \in {"begin", "balance"}
    BY <1>4 DEF NoLock
  <2> QED
    BY <2>1, Answers DEF Passive, Others
<1> QED
  BY <1>1, <1>2, <1>3, <1>4

\* A step that touches no call, no counter of a chatting server and no entry of one.
Undisturbed ==
  /\ UNCHANGED <<call, seen>>
  /\ \A s \in Chatting : load'[s] = load[s] /\ (s \in instances' <=> s \in instances)

Balancing(c) ==
  FirstServer(c) \/ LoopOverServers(c) \/ ServerInstanceLoadBalancer(c) \/ NoLock(c)

\* Every step is one of these.  A login page's answer is used up by the login.
Cases ==
  \/ /\ Undisturbed \/ Stir \/ BalanceDies \/ \E c \in Callers : Balancing(c)
     /\ UNCHANGED <<token, raced>>
     /\ \A c \in Callers : held'[c] \in {held[c], Nothing}
  \/ \E c \in Callers : (GetUserToken(c) \/ RegisterUserInfo(c)) /\ UNCHANGED held
  \/ \E c \in Callers : TryLogin(c) \/ WriteResponse(c)

\* No step is of another kind.
LEMMA StepCases == CallsOK /\ HttpOK /\ [Next]_vars => Cases
<1> SUFFICES ASSUME CallsOK, HttpOK, [Next]_vars PROVE Cases
  OBVIOUS
<1>1. CASE UNCHANGED vars
  BY <1>1 DEF Cases, Undisturbed
<1>2. ASSUME NEW s \in Chatting \cup Resources, RegisterInstance(s),
         UNCHANGED <<gatewayVars, chatting>>
     PROVE  Cases
  BY <1>2 DEF Cases, RegisterInstance
<1>3. ASSUME NEW s \in Chatting \cup Resources, RegisterResourcesInstance(s),
         UNCHANGED <<gatewayVars, chatting>>
     PROVE  Cases
  BY <1>3 DEF Cases, Undisturbed, RegisterResourcesInstance
<1>4. ASSUME NEW s \in Chatting \cup Resources, Count(s),
         UNCHANGED <<gatewayVars, chatting>>
     PROVE  Cases
  BY <1>4 DEF Cases, Count
<1>5. ASSUME NEW s \in Chatting \cup Resources, Uncount(s),
         UNCHANGED <<gatewayVars, chatting>>
     PROVE  Cases
  BY <1>5 DEF Cases, Uncount
<1>6. ASSUME NEW s \in Chatting \cup Resources, ShutdownInstance(s),
         UNCHANGED <<gatewayVars, chatting>>
     PROVE  Cases
  BY <1>6 DEF Cases, ShutdownInstance
<1>7. ASSUME NEW s \in Chatting \cup Resources, ShutdownResourcesInstance(s),
         UNCHANGED <<gatewayVars, chatting>>
     PROVE  Cases
  BY <1>7 DEF Cases, Undisturbed, ShutdownResourcesInstance
<1>8. ASSUME NEW s \in Chatting \cup Resources,
         \/ Start(s) \/ Stop(s) \/ RegisterGrpc(s) \/ ShutdownGrpc(s) \/ Crash(s) \/
            GetGrpcPeers(s),
         UNCHANGED <<gatewayVars, chatting>>
     PROVE  Cases
  BY <1>8 DEF Start, Stop, RegisterGrpc, ShutdownGrpc, Crash, GetGrpcPeers, Cases,
              Undisturbed
<1>9. ASSUME BalanceCrash, UNCHANGED <<gatewayVars, chatting>>
     PROVE  Cases
  BY <1>9 DEF Cases, BalanceCrash, BalanceDies
<1>10. ASSUME 
         \/ BalanceStart,
         UNCHANGED <<gatewayVars, chatting>>
     PROVE  Cases
  BY <1>10 DEF BalanceStart, Cases, Undisturbed
<1>11. ASSUME NEW c \in Callers, FirstServer(c),
         UNCHANGED <<gatewayVars, chatting>>
     PROVE  Cases
  <2>1. Balancing(c)
    BY <1>11 DEF Balancing
  <2>2. UNCHANGED <<token, raced, held>>
    BY <1>11 DEF FirstServer
  <2> QED
    BY <2>1, <2>2 DEF Cases
<1>12. ASSUME NEW c \in Callers, LoopOverServers(c),
         UNCHANGED <<gatewayVars, chatting>>
     PROVE  Cases
  <2>1. Balancing(c)
    BY <1>12 DEF Balancing
  <2>2. UNCHANGED <<token, raced, held>>
    BY <1>12 DEF LoopOverServers
  <2> QED
    BY <2>1, <2>2 DEF Cases
<1>13. ASSUME NEW c \in Callers, ServerInstanceLoadBalancer(c),
         UNCHANGED <<gatewayVars, chatting>>
     PROVE  Cases
  <2>1. Balancing(c)
    BY <1>13 DEF Balancing
  <2>2. UNCHANGED <<token, raced, held>>
    BY <1>13 DEF ServerInstanceLoadBalancer
  <2> QED
    BY <2>1, <2>2 DEF Cases
<1>14. ASSUME NEW c \in Callers, GetUserToken(c),
         UNCHANGED <<gatewayVars, chatting>>
     PROVE  Cases
  BY <1>14 DEF Cases
<1>15. ASSUME NEW c \in Callers, RegisterUserInfo(c),
         UNCHANGED <<gatewayVars, chatting>>
     PROVE  Cases
  BY <1>15 DEF Cases
<1>16. ASSUME NEW c \in Callers, ReadsFreedEntry(c),
         UNCHANGED <<gatewayVars, chatting>>
     PROVE  Cases
  BY <1>16 DEF Cases, ReadsFreedEntry, BalanceDies
<1>17. ASSUME NEW c \in Callers, NoLock(c), UNCHANGED <<gatewayVars, chatting>>
     PROVE  Cases
  <2>1. Balancing(c)
    BY <1>17 DEF Balancing
  <2>2. UNCHANGED <<token, raced, held>>
    BY <1>17 DEF NoLock
  <2> QED
    BY <2>1, <2>2 DEF Cases
<1>18. ASSUME NEW c \in Callers, WriteResponse(c), UNCHANGED <<uploadVars, chatting>>
     PROVE  Cases
  BY <1>18 DEF Cases
<1>19. ASSUME NEW c \in Callers, TryLogin(c), UNCHANGED <<uploadVars, chatting>>
     PROVE  Cases
  BY <1>19 DEF Cases
<1>20. ASSUME NEW c \in Callers,
         \/ HandleAccept(c) \/ SendRequest(c) \/ CheckTimeout(c) \/ SendMailFails(c) \/
            ProcessRequest(c) \/ CheckAccountExists(c) \/ PostRegistration(c) \/
            RegisterNewUser(c) \/ GetUuid(c) \/ ResetPassword(c) \/ LoginAnswer(c) \/
            CheckKey(c) \/ GenerateCode(c) \/ GenerateEmail(c),
         UNCHANGED <<uploadVars, chatting>>
     PROVE  Cases
  BY <1>20 DEF HandleAccept, SendRequest, CheckTimeout, SendMailFails, ProcessRequest,
           CheckAccountExists, PostRegistration, RegisterNewUser, GetUuid, ResetPassword,
           LoginAnswer, CheckKey, GenerateCode, GenerateEmail, Cases, Undisturbed
<1>21. ASSUME NEW e \in Emails,
         \/ SetValueExpiracy(e) \/ CodeExpires(e),
         UNCHANGED <<uploadVars, chatting>>
     PROVE  Cases
  BY <1>21 DEF SetValueExpiracy, CodeExpires, Cases, Undisturbed
<1>22. ASSUME NEW c \in Callers,
         \/ Connect(c) \/ StartFileTransmission(c) \/ DataTransmissionStatus(c) \/
            SendLoginOrLogout(c) \/ Disconnect(c) \/ HandleMsgBody(c),
         UNCHANGED <<gatewayVars, chatting>>
     PROVE  Cases
  BY <1>22 DEF Connect, StartFileTransmission, DataTransmissionStatus, SendLoginOrLogout,
           Disconnect, HandleMsgBody, Cases, Undisturbed
<1>23. ASSUME NEW r \in Resources, HandlingLogin(r), UNCHANGED <<gatewayVars, chatting>>
     PROVE  Cases
  <2>1. \A s \in Chatting : load'[s] = load[s]
    BY <1>23 DEF CallsOK, HandlingLogin, IncrementConnection, SetValue2Hash
  <2>2. UNCHANGED <<token, raced, instances, seen, held, call>>
    BY <1>23 DEF HandlingLogin
  <2> QED
    BY <2>1, <2>2 DEF Cases, Undisturbed
<1>24. ASSUME NEW r \in Resources, HandlingLogout(r), UNCHANGED <<gatewayVars, chatting>>
     PROVE  Cases
  <2>1. \A s \in Chatting : load'[s] = load[s]
    BY <1>24 DEF CallsOK, HandlingLogout, DecrementConnection, SetValue2Hash
  <2>2. UNCHANGED <<token, raced, instances, seen, held, call>>
    BY <1>24 DEF HandlingLogout
  <2> QED
    BY <2>1, <2>2 DEF Cases, Undisturbed
<1>25. ASSUME NEW r \in Resources,
         HandlingFileUploading(r),
         UNCHANGED <<gatewayVars, chatting>>
     PROVE  Cases
  BY <1>25 DEF HandlingFileUploading, Cases, Undisturbed
<1>26. ASSUME NEW c \in Callers, HandlingLoginThere(c)
     PROVE  Cases
  <2>1. (call' = call /\ load' = load) \/ Stir
    BY <1>26 DEF HandlingLoginThere
  <2>2. UNCHANGED <<token, raced, instances, seen>> /\ held' = [held EXCEPT ![c] = Nothing]
    BY <1>26 DEF HandlingLoginThere
  <2>3. \A d \in Callers : held'[d] \in {held[d], Nothing}
    BY <2>2 DEF HttpOK, HeldOK
  <2> QED
    BY <2>1, <2>2, <2>3 DEF Cases, Undisturbed
<1>27. ASSUME NEW c \in Callers, LeavesChatting(c)
     PROVE  Cases
  <2>1. (call' = call /\ load' = load) \/ Stir
    BY <1>27 DEF LeavesChatting
  <2>2. UNCHANGED <<token, raced, instances, seen, held>>
    BY <1>27 DEF LeavesChatting
  <2> QED
    BY <2>1, <2>2 DEF Cases, Undisturbed
<1> QED
  BY <1>1, <1>2, <1>3, <1>4, <1>5, <1>6, <1>7, <1>8, <1>9, <1>10, <1>11, <1>12, <1>13,
     <1>14, <1>15, <1>16, <1>17, <1>18, <1>19, <1>20, <1>21, <1>22, <1>23, <1>24, <1>25,
     <1>26, <1>27
   DEF Next, BalanceNext, GatewayNext, UploadNext, Life, RegisterUser, Handler, Worker

\* The gateway's connections, its table and the codes stay.
GatewaySame == UNCHANGED <<accounts, nextThread, generated, mailed, http>> /\ HeldOK'

HttpStep ==
  \/ GatewaySame
  \/ \E c \in Callers :
       \/ HandleAccept(c) \/ SendRequest(c) \/ CheckTimeout(c) \/ SendMailFails(c) \/
          ProcessRequest(c) \/ WriteResponse(c) \/ CheckAccountExists(c) \/
          PostRegistration(c) \/ RegisterNewUser(c) \/ GetUuid(c) \/ ResetPassword(c) \/
          TryLogin(c) \/ LoginAnswer(c) \/ CheckKey(c) \/ GenerateCode(c) \/
          GenerateEmail(c)

\* The connections of the gateway and its table are changed by these actions only.
LEMMA HttpCases == HttpOK /\ [Next]_vars => HttpStep
<1> SUFFICES ASSUME HttpOK, [Next]_vars PROVE HttpStep
  OBVIOUS
<1>1. CASE UNCHANGED vars
  BY <1>1 DEF HttpStep, GatewaySame, HttpOK, HeldOK
<1>2. ASSUME NEW s \in Chatting \cup Resources,
         \/ Start(s) \/ Stop(s) \/ RegisterInstance(s) \/ RegisterGrpc(s) \/
            RegisterResourcesInstance(s) \/ Count(s) \/ Uncount(s) \/ ShutdownInstance(s) \/
            ShutdownGrpc(s) \/ ShutdownResourcesInstance(s) \/ Crash(s) \/ GetGrpcPeers(s),
         UNCHANGED <<gatewayVars, chatting>>
     PROVE  HttpStep
  BY <1>2 DEF Start, Stop, RegisterInstance, RegisterGrpc, RegisterResourcesInstance, Count,
              Uncount, ShutdownInstance, ShutdownGrpc, ShutdownResourcesInstance, Crash,
              GetGrpcPeers, HttpStep, GatewaySame, HttpOK, HeldOK
<1>3. ASSUME 
         \/ BalanceCrash \/ BalanceStart,
         UNCHANGED <<gatewayVars, chatting>>
     PROVE  HttpStep
  BY <1>3 DEF BalanceCrash, BalanceDies, BalanceStart, HttpStep, GatewaySame, HttpOK, HeldOK
<1>4. ASSUME NEW c \in Callers,
         \/ FirstServer(c) \/ LoopOverServers(c) \/ ServerInstanceLoadBalancer(c) \/
            GetUserToken(c) \/ RegisterUserInfo(c) \/ ReadsFreedEntry(c) \/ NoLock(c),
         UNCHANGED <<gatewayVars, chatting>>
     PROVE  HttpStep
  BY <1>4 DEF FirstServer, LoopOverServers, ServerInstanceLoadBalancer, GetUserToken,
              RegisterUserInfo, ReadsFreedEntry, BalanceDies, NoLock, HttpStep, GatewaySame,
              HttpOK, HeldOK
<1>5. ASSUME NEW c \in Callers, HandleAccept(c), UNCHANGED <<uploadVars, chatting>>
     PROVE  HttpStep
  BY <1>5 DEF HttpStep
<1>6. ASSUME NEW c \in Callers, SendRequest(c), UNCHANGED <<uploadVars, chatting>>
     PROVE  HttpStep
  BY <1>6 DEF HttpStep
<1>7. ASSUME NEW c \in Callers, CheckTimeout(c), UNCHANGED <<uploadVars, chatting>>
     PROVE  HttpStep
  BY <1>7 DEF HttpStep
<1>8. ASSUME NEW c \in Callers, SendMailFails(c), UNCHANGED <<uploadVars, chatting>>
     PROVE  HttpStep
  BY <1>8 DEF HttpStep
<1>9. ASSUME NEW c \in Callers, ProcessRequest(c), UNCHANGED <<uploadVars, chatting>>
     PROVE  HttpStep
  BY <1>9 DEF HttpStep
<1>10. ASSUME NEW c \in Callers, WriteResponse(c), UNCHANGED <<uploadVars, chatting>>
     PROVE  HttpStep
  BY <1>10 DEF HttpStep
<1>11. ASSUME NEW c \in Callers, CheckAccountExists(c), UNCHANGED <<uploadVars, chatting>>
     PROVE  HttpStep
  BY <1>11 DEF HttpStep
<1>12. ASSUME NEW c \in Callers, PostRegistration(c), UNCHANGED <<uploadVars, chatting>>
     PROVE  HttpStep
  BY <1>12 DEF HttpStep
<1>13. ASSUME NEW c \in Callers, RegisterNewUser(c), UNCHANGED <<uploadVars, chatting>>
     PROVE  HttpStep
  BY <1>13 DEF HttpStep
<1>14. ASSUME NEW c \in Callers, GetUuid(c), UNCHANGED <<uploadVars, chatting>>
     PROVE  HttpStep
  BY <1>14 DEF HttpStep
<1>15. ASSUME NEW c \in Callers, ResetPassword(c), UNCHANGED <<uploadVars, chatting>>
     PROVE  HttpStep
  BY <1>15 DEF HttpStep
<1>16. ASSUME NEW c \in Callers, TryLogin(c), UNCHANGED <<uploadVars, chatting>>
     PROVE  HttpStep
  BY <1>16 DEF HttpStep
<1>17. ASSUME NEW c \in Callers, LoginAnswer(c), UNCHANGED <<uploadVars, chatting>>
     PROVE  HttpStep
  BY <1>17 DEF HttpStep
<1>18. ASSUME NEW c \in Callers, CheckKey(c), UNCHANGED <<uploadVars, chatting>>
     PROVE  HttpStep
  BY <1>18 DEF HttpStep
<1>19. ASSUME NEW c \in Callers, GenerateCode(c), UNCHANGED <<uploadVars, chatting>>
     PROVE  HttpStep
  BY <1>19 DEF HttpStep
<1>20. ASSUME NEW c \in Callers, GenerateEmail(c), UNCHANGED <<uploadVars, chatting>>
     PROVE  HttpStep
  BY <1>20 DEF HttpStep
<1>21. ASSUME NEW e \in Emails,
         \/ SetValueExpiracy(e) \/ CodeExpires(e),
         UNCHANGED <<uploadVars, chatting>>
     PROVE  HttpStep
  BY <1>21 DEF SetValueExpiracy, CodeExpires, HttpStep, GatewaySame, HttpOK, HeldOK
<1>22. ASSUME NEW c \in Callers,
         \/ Connect(c) \/ StartFileTransmission(c) \/ DataTransmissionStatus(c) \/
            SendLoginOrLogout(c) \/ Disconnect(c) \/ HandleMsgBody(c),
         UNCHANGED <<gatewayVars, chatting>>
     PROVE  HttpStep
  BY <1>22 DEF Connect, StartFileTransmission, DataTransmissionStatus, SendLoginOrLogout,
           Disconnect, HandleMsgBody, HttpStep, GatewaySame, HttpOK, HeldOK
<1>23. ASSUME NEW r \in Resources,
         \/ HandlingFileUploading(r) \/ HandlingLogin(r) \/ HandlingLogout(r),
         UNCHANGED <<gatewayVars, chatting>>
     PROVE  HttpStep
  BY <1>23 DEF HandlingFileUploading, HandlingLogin, HandlingLogout, HttpStep,
           GatewaySame, HttpOK, HeldOK
<1>24. ASSUME NEW c \in Callers, HandlingLoginThere(c)
     PROVE  HttpStep
  BY <1>24 DEF HttpStep, GatewaySame, HandlingLoginThere, HttpOK, HeldOK
<1>25. ASSUME NEW c \in Callers,
         \/ LeavesChatting(c)
     PROVE  HttpStep
  BY <1>25 DEF LeavesChatting, HttpStep, GatewaySame, HttpOK, HeldOK
<1> QED
  BY <1>1, <1>2, <1>3, <1>4, <1>5, <1>6, <1>7, <1>8, <1>9, <1>10, <1>11, <1>12, <1>13,
     <1>14, <1>15, <1>16, <1>17, <1>18, <1>19, <1>20, <1>21, <1>22, <1>23, <1>24, <1>25
   DEF Next, BalanceNext, GatewayNext, UploadNext, Life, RegisterUser, Handler, Worker

-----------------------------------------------------------------------------
(* What the steps do to a connection                                       *)

Like(h, k) == h.path = k.path /\ h.name = k.name /\ h.email = k.email
              /\ h.password = k.password /\ h.uuid = k.uuid

OtherHttp(c) == \A d \in Callers \ {c} : http'[d] = http[d]

LEMMA HttpSteps ==
  ASSUME HttpOK, NEW c \in Callers, NEW st \in Steps, GoTo(c, st)
  PROVE  /\ http' \in [Callers -> HttpRec] /\ OtherHttp(c)
         /\ http'[c].step = st /\ http'[c].ok = http[c].ok /\ Like(http'[c], http[c])
<1>1. \A h \in HttpRec : LET q == [h EXCEPT !.step = st] IN
        q \in HttpRec /\ q.step = st /\ q.ok = h.ok /\ Like(q, h)
  BY DEF HttpRec, Like
<1> QED
  BY <1>1 DEF HttpOK, GoTo, OtherHttp

LEMMA HttpResponds ==
  ASSUME HttpOK, NEW c \in Callers, NEW b \in BOOLEAN, Respond(c, b)
  PROVE  /\ http' \in [Callers -> HttpRec] /\ OtherHttp(c)
         /\ http'[c].step = "answer" /\ http'[c].ok = b /\ Like(http'[c], http[c])
<1>1. "answer" \in Steps
  BY DEF Steps
<1>2. \A h \in HttpRec : LET q == [h EXCEPT !.step = "answer", !.ok = b] IN
        q \in HttpRec /\ q.step = "answer" /\ q.ok = b /\ Like(q, h)
  BY <1>1 DEF HttpRec, Like
<1>3. http' = [http EXCEPT ![c] = [http[c] EXCEPT !.step = "answer", !.ok = b]]
  BY DEF Respond, HttpOK
<1> QED
  BY <1>2, <1>3 DEF HttpOK, OtherHttp

\* HandleAccept, CheckTimeout and WriteResponse.
LEMMA HttpFresh ==
  /\ NoConnection \in HttpRec /\ NoConnection.step = "none"
  /\ \A i \in IoThreads : LET q == [NoConnection EXCEPT !.step = "open", !.on = i] IN
       q \in HttpRec /\ q.step = "open"
<1>1. {"none", "open"} \subseteq Steps /\ "other" \in Paths
  BY DEF Steps, Paths
<1> QED
  BY <1>1 DEF NoConnection, HttpRec

\* SendRequest.
LEMMA HttpSent ==
  ASSUME HttpOK, NEW c \in Callers, SendRequest(c)
  PROVE  /\ http' \in [Callers -> HttpRec] /\ OtherHttp(c)
         /\ http'[c].step = "sent"
         /\ \/ http'[c].path = http[c].path /\ Like(http'[c], http[c])
            \/ http'[c].path \in {"get_verification", "trylogin_server"}
            \/ http'[c].name \in Names /\ http'[c].email \in Emails /\ http'[c].password \in Callers
<1>1. "sent" \in Steps /\ {"get_verification", "check_accountexists", "reset_password",
                           "post_registration", "trylogin_server"} \subseteq Paths
  BY DEF Steps, Paths
<1>2. CASE GoTo(c, "sent")
  BY <1>1, <1>2, HttpSteps DEF Like
<1>3. ASSUME NEW e \in Emails,
             http' = [http EXCEPT ![c] = [http[c] EXCEPT !.step = "sent", !.path = "get_verification",
                                                         !.email = e]]
      PROVE  /\ http' \in [Callers -> HttpRec] /\ OtherHttp(c)
             /\ http'[c].step = "sent" /\ http'[c].path = "get_verification"
  <2>1. \A h \in HttpRec : LET q == [h EXCEPT !.step = "sent", !.path = "get_verification",
                                              !.email = e] IN
          q \in HttpRec /\ q.step = "sent" /\ q.path = "get_verification"
    BY <1>1 DEF HttpRec
  <2> QED
    BY <1>3, <2>1 DEF HttpOK, OtherHttp
<1>4. ASSUME NEW n \in Names, NEW e \in Emails, NEW p \in {"check_accountexists", "reset_password"},
             http' = [http EXCEPT ![c] = [http[c] EXCEPT !.step = "sent", !.path = p, !.name = n,
                                                         !.email = e, !.password = c]]
      PROVE  /\ http' \in [Callers -> HttpRec] /\ OtherHttp(c)
             /\ http'[c].step = "sent"
             /\ http'[c].name \in Names /\ http'[c].email \in Emails /\ http'[c].password \in Callers
  <2>1. \A h \in HttpRec : LET q == [h EXCEPT !.step = "sent", !.path = p, !.name = n,
                                              !.email = e, !.password = c] IN
          q \in HttpRec /\ q.step = "sent" /\ q.name = n /\ q.email = e /\ q.password = c
    BY <1>1 DEF HttpRec
  <2> QED
    BY <1>4, <2>1 DEF HttpOK, OtherHttp
<1>5. ASSUME NEW n \in Names, NEW e \in Emails, NEW k \in {0, mailed[e]},
             http' = [http EXCEPT ![c] = [http[c] EXCEPT !.step = "sent", !.path = "post_registration",
                                            !.name = n, !.email = e, !.password = c, !.code = k]]
      PROVE  /\ http' \in [Callers -> HttpRec] /\ OtherHttp(c)
             /\ http'[c].step = "sent"
             /\ http'[c].name \in Names /\ http'[c].email \in Emails /\ http'[c].password \in Callers
  <2>1. k \in Nat
    BY DEF HttpOK
  <2>2. \A h \in HttpRec : LET q == [h EXCEPT !.step = "sent", !.path = "post_registration",
                                       !.name = n, !.email = e, !.password = c, !.code = k] IN
          q \in HttpRec /\ q.step = "sent" /\ q.name = n /\ q.email = e /\ q.password = c
    BY <1>1, <2>1 DEF HttpRec
  <2> QED
    BY <1>5, <2>2 DEF HttpOK, OtherHttp
<1>6. ASSUME NEW n \in Names, NEW p \in Callers,
             http' = [http EXCEPT ![c] = [http[c] EXCEPT !.step = "sent", !.path = "trylogin_server",
                                                         !.name = n, !.password = p]]
      PROVE  /\ http' \in [Callers -> HttpRec] /\ OtherHttp(c)
             /\ http'[c].step = "sent" /\ http'[c].path = "trylogin_server"
  <2>1. \A h \in HttpRec : LET q == [h EXCEPT !.step = "sent", !.path = "trylogin_server",
                                              !.name = n, !.password = p] IN
          q \in HttpRec /\ q.step = "sent" /\ q.path = "trylogin_server"
    BY <1>1 DEF HttpRec
  <2> QED
    BY <1>6, <2>1 DEF HttpOK, OtherHttp
<1>7. \/ GoTo(c, "sent")
      \/ \E e \in Emails :
           http' = [http EXCEPT ![c] = [http[c] EXCEPT !.step = "sent", !.path = "get_verification",
                                                       !.email = e]]
      \/ \E n \in Names, e \in Emails, p \in {"check_accountexists", "reset_password"} :
           http' = [http EXCEPT ![c] = [http[c] EXCEPT !.step = "sent", !.path = p, !.name = n,
                                                       !.email = e, !.password = c]]
      \/ \E n \in Names, e \in Emails : \E k \in {0, mailed[e]} :
           http' = [http EXCEPT ![c] = [http[c] EXCEPT !.step = "sent", !.path = "post_registration",
                                          !.name = n, !.email = e, !.password = c, !.code = k]]
      \/ \E n \in Names, p \in Callers :
           http' = [http EXCEPT ![c] = [http[c] EXCEPT !.step = "sent", !.path = "trylogin_server",
                                                       !.name = n, !.password = p]]
  <2>1. \A q : [http EXCEPT ![c] = q] = [http EXCEPT ![c] = q]
    OBVIOUS
  <2> QED
    BY DEF SendRequest, HttpOK
<1> QED
  BY <1>2, <1>3, <1>4, <1>5, <1>6, <1>7

\* GetUuid, TryLogin and GenerateCode.
LEMMA HttpGets ==
  ASSUME HttpOK, NEW c \in Callers
  PROVE  /\ \A x \in Uuids \cup {0}, b \in BOOLEAN :
              http' = [http EXCEPT ![c].step = "answer", ![c].uuid = x, ![c].ok = b] =>
                /\ http' \in [Callers -> HttpRec] /\ OtherHttp(c)
                /\ http'[c].step = "answer" /\ http'[c].path = http[c].path
         /\ \A x \in Uuids \cup {0} :
              http' = [http EXCEPT ![c].step = "rpc", ![c].uuid = x] =>
                /\ http' \in [Callers -> HttpRec] /\ OtherHttp(c)
                /\ http'[c].step = "rpc" /\ http'[c].path = http[c].path /\ http'[c].uuid = x
         /\ \A n \in Nat :
              http' = [http EXCEPT ![c].step = "mail", ![c].code = n] =>
                /\ http' \in [Callers -> HttpRec] /\ OtherHttp(c)
                /\ http'[c].step = "mail" /\ http'[c].path = http[c].path
<1>1. {"answer", "rpc", "mail"} \subseteq Steps
  BY DEF Steps
<1>2. ASSUME NEW x \in Uuids \cup {0}, NEW b \in BOOLEAN,
             http' = [http EXCEPT ![c].step = "answer", ![c].uuid = x, ![c].ok = b]
      PROVE  /\ http' \in [Callers -> HttpRec] /\ OtherHttp(c)
             /\ http'[c].step = "answer" /\ http'[c].path = http[c].path
  <2>1. \A h \in HttpRec : LET q == [h EXCEPT !.step = "answer", !.uuid = x, !.ok = b] IN
          q \in HttpRec /\ q.step = "answer" /\ q.path = h.path
    BY <1>1 DEF HttpRec
  <2>2. http' = [http EXCEPT ![c] = [http[c] EXCEPT !.step = "answer", !.uuid = x, !.ok = b]]
    BY <1>2 DEF HttpOK
  <2> QED
    BY <2>1, <2>2 DEF HttpOK, OtherHttp
<1>3. ASSUME NEW x \in Uuids \cup {0}, http' = [http EXCEPT ![c].step = "rpc", ![c].uuid = x]
      PROVE  /\ http' \in [Callers -> HttpRec] /\ OtherHttp(c)
             /\ http'[c].step = "rpc" /\ http'[c].path = http[c].path /\ http'[c].uuid = x
  <2>1. \A h \in HttpRec : LET q == [h EXCEPT !.step = "rpc", !.uuid = x] IN
          q \in HttpRec /\ q.step = "rpc" /\ q.path = h.path /\ q.uuid = x
    BY <1>1 DEF HttpRec
  <2>2. http' = [http EXCEPT ![c] = [http[c] EXCEPT !.step = "rpc", !.uuid = x]]
    BY <1>3 DEF HttpOK
  <2> QED
    BY <2>1, <2>2 DEF HttpOK, OtherHttp
<1>4. ASSUME NEW n \in Nat, http' = [http EXCEPT ![c].step = "mail", ![c].code = n]
      PROVE  /\ http' \in [Callers -> HttpRec] /\ OtherHttp(c)
             /\ http'[c].step = "mail" /\ http'[c].path = http[c].path
  <2>1. \A h \in HttpRec : LET q == [h EXCEPT !.step = "mail", !.code = n] IN
          q \in HttpRec /\ q.step = "mail" /\ q.path = h.path
    BY <1>1 DEF HttpRec
  <2>2. http' = [http EXCEPT ![c] = [http[c] EXCEPT !.step = "mail", !.code = n]]
    BY <1>4 DEF HttpOK
  <2> QED
    BY <2>1, <2>2 DEF HttpOK, OtherHttp
<1> QED
  BY <1>2, <1>3, <1>4

-----------------------------------------------------------------------------
(* The connections                                                         *)

\* One of these actions keeps its own connection in order,
LEMMA OwnPath ==
  ASSUME AccountsOK, CallsOK, HttpOK, PathInv, NEW c \in Callers,
         \/ HandleAccept(c) \/ SendRequest(c) \/ CheckTimeout(c) \/ WriteResponse(c) \/
            ProcessRequest(c) \/ CheckAccountExists(c) \/ PostRegistration(c) \/
            RegisterNewUser(c) \/ GetUuid(c) \/ ResetPassword(c) \/ TryLogin(c) \/
            LoginAnswer(c) \/ CheckKey(c) \/ GenerateCode(c) \/ GenerateEmail(c)
  PROVE  /\ http' \in [Callers -> HttpRec] /\ OtherHttp(c)
         /\ PathOK(http'[c], call'[c])
<1>1. ASSUME HandleAccept(c)
      PROVE  /\ http' \in [Callers -> HttpRec] /\ OtherHttp(c)
             /\ PathOK(http'[c], call'[c])
  <2>1. PICK q : q = [NoConnection EXCEPT !.step = "open", !.on = nextThread]
    OBVIOUS
  <2>2. q \in HttpRec /\ q.step = "open" /\ q.path = "other"
    BY <2>1, HttpFresh DEF HttpOK, NoConnection
  <2>3. http' = [http EXCEPT ![c] = q]
    BY <1>1, <2>1 DEF HandleAccept
  <2> QED
    BY <2>2, <2>3 DEF HttpOK, OtherHttp, PathOK
<1>2. ASSUME SendRequest(c)
      PROVE  /\ http' \in [Callers -> HttpRec] /\ OtherHttp(c)
             /\ PathOK(http'[c], call'[c])
  <2>1. http[c].step = "open" /\ PathOK(http[c], call[c])
    BY <1>2 DEF SendRequest, At, PathInv
  <2> QED
    BY <1>2, <2>1, HttpSent DEF PathOK
<1>3. ASSUME CheckTimeout(c)
      PROVE  /\ http' \in [Callers -> HttpRec] /\ OtherHttp(c)
             /\ PathOK(http'[c], call'[c])
  <2>1. PICK q : q = NoConnection
    OBVIOUS
  <2>2. q \in HttpRec /\ q.step = "none"
    BY <2>1, HttpFresh
  <2>3. http' = [http EXCEPT ![c] = q]
    BY <1>3, <2>1 DEF CheckTimeout
  <2> QED
    BY <2>2, <2>3 DEF HttpOK, OtherHttp, PathOK
<1>4. ASSUME WriteResponse(c)
      PROVE  /\ http' \in [Callers -> HttpRec] /\ OtherHttp(c)
             /\ PathOK(http'[c], call'[c])
  <2>1. PICK q : q = NoConnection
    OBVIOUS
  <2>2. q \in HttpRec /\ q.step = "none"
    BY <2>1, HttpFresh
  <2>3. http' = [http EXCEPT ![c] = q]
    BY <1>4, <2>1 DEF WriteResponse
  <2> QED
    BY <2>2, <2>3 DEF HttpOK, OtherHttp, PathOK
<1>5. ASSUME ProcessRequest(c)
      PROVE  /\ http' \in [Callers -> HttpRec] /\ OtherHttp(c)
             /\ PathOK(http'[c], call'[c])
  <2>1. http[c].step = "sent" /\ PathOK(http[c], call[c])
    BY <1>5 DEF ProcessRequest, At, PathInv
  <2>2. {"captcha", "login", "handle"} \subseteq Steps
    BY DEF Steps
  <2>3. CASE http[c].path = "other" /\ Respond(c, FALSE)
    BY <2>3, HttpResponds DEF PathOK, Like
  <2>4. CASE http[c].path = "get_verification" /\ GoTo(c, "captcha")
    BY <2>2, <2>4, HttpSteps DEF PathOK, Like
  <2>5. CASE http[c].path = "trylogin_server" /\ GoTo(c, "login")
    BY <2>2, <2>5, HttpSteps DEF PathOK, Like
  <2>6. CASE GoTo(c, "handle")
    BY <2>1, <2>2, <2>6, HttpSteps DEF PathOK, Like
  <2> QED
    BY <1>5, <2>3, <2>4, <2>5, <2>6 DEF ProcessRequest
<1>6. ASSUME CheckAccountExists(c)
      PROVE  /\ http' \in [Callers -> HttpRec] /\ OtherHttp(c)
             /\ PathOK(http'[c], call'[c])
  <2>1. /\ CheckAccountAvailability(http[c].name, http[c].email) \in BOOLEAN
        /\ Respond(c, CheckAccountAvailability(http[c].name, http[c].email))
        /\ http[c].path # "trylogin_server"
    BY <1>6 DEF CheckAccountExists, CheckAccountAvailability
  <2> QED
    BY <2>1, HttpResponds DEF PathOK, Like
<1>7. ASSUME PostRegistration(c)
      PROVE  /\ http' \in [Callers -> HttpRec] /\ OtherHttp(c)
             /\ PathOK(http'[c], call'[c])
  <2>1. /\ http[c].step = "handle" /\ http[c].path = "post_registration"
        /\ PathOK(http[c], call[c])
        /\ Respond(c, FALSE) \/ GoTo(c, "insert")
    BY <1>7 DEF PostRegistration, At, PathInv
  <2>2. "insert" \in Steps
    BY DEF Steps
  <2>3. CASE Respond(c, FALSE)
    BY <2>3, HttpResponds DEF PathOK
  <2>4. CASE GoTo(c, "insert")
    BY <2>1, <2>2, <2>4, HttpSteps DEF PathOK, Like
  <2> QED
    BY <2>1, <2>3, <2>4
<1>8. ASSUME RegisterNewUser(c)
      PROVE  /\ http' \in [Callers -> HttpRec] /\ OtherHttp(c)
             /\ PathOK(http'[c], call'[c])
  <2>1. "uuid" \in Steps /\ GoTo(c, "uuid") /\ http[c].path = "post_registration"
    BY <1>8 DEF RegisterNewUser, Steps, At, PathInv, PathOK
  <2> QED
    BY <2>1, HttpSteps DEF PathOK, Like
<1>9. ASSUME GetUuid(c)
      PROVE  /\ http' \in [Callers -> HttpRec] /\ OtherHttp(c)
             /\ PathOK(http'[c], call'[c])
  <2>1. PICK x \in Uuids \cup {0}, b \in BOOLEAN :
          http' = [http EXCEPT ![c].step = "answer", ![c].uuid = x, ![c].ok = b]
    BY <1>9, UuidByName DEF GetUuid
  <2>2. http[c].path # "trylogin_server"
    BY <1>9 DEF GetUuid, At, PathInv, PathOK
  <2> QED
    BY <2>1, <2>2, HttpGets DEF PathOK
<1>10. ASSUME ResetPassword(c)
      PROVE  /\ http' \in [Callers -> HttpRec] /\ OtherHttp(c)
             /\ PathOK(http'[c], call'[c])
  <2>1. /\ CheckAccountAvailability(http[c].name, http[c].email) \in BOOLEAN
        /\ Respond(c, CheckAccountAvailability(http[c].name, http[c].email))
        /\ http[c].path # "trylogin_server"
    BY <1>10 DEF ResetPassword, CheckAccountAvailability
  <2> QED
    BY <2>1, HttpResponds DEF PathOK, Like
<1>11. ASSUME TryLogin(c)
      PROVE  /\ http' \in [Callers -> HttpRec] /\ OtherHttp(c)
             /\ PathOK(http'[c], call'[c])
  <2>1. http[c].path = "trylogin_server"
    BY <1>11 DEF TryLogin, At, PathInv, PathOK
  <2>2. CASE Respond(c, FALSE)
    BY <2>2, HttpResponds DEF PathOK
  <2>3. CASE CheckAccountLogin(http[c].name, http[c].password)
    <3>1. PICK x \in Uuids : /\ http' = [http EXCEPT ![c].step = "rpc", ![c].uuid = x]
                             /\ AddNewUserToServer(c, x)
      BY <1>11, <2>3, UuidByName DEF TryLogin
    <3>2. call'[c].uuid = x
      BY <3>1, Calls
    <3>3. /\ http' \in [Callers -> HttpRec] /\ OtherHttp(c)
          /\ http'[c].step = "rpc" /\ http'[c].path = http[c].path /\ http'[c].uuid = x
      BY <3>1, HttpGets
    <3> QED
      BY <3>2, <3>3, <2>1 DEF PathOK
  <2> QED
    BY <1>11, <2>2, <2>3 DEF TryLogin
<1>12. ASSUME LoginAnswer(c)
      PROVE  /\ http' \in [Callers -> HttpRec] /\ OtherHttp(c)
             /\ PathOK(http'[c], call'[c])
  <2>1. /\ http[c].step = "rpc" /\ PathOK(http[c], call[c]) /\ call[c].step = "done"
        /\ call[c].ok \in BOOLEAN /\ Respond(c, call[c].ok) /\ call' = call
    BY <1>12 DEF LoginAnswer, At, PathInv, CallsOK, CallRec
  <2> QED
    BY <2>1, HttpResponds DEF PathOK, Like
<1>13. ASSUME CheckKey(c)
      PROVE  /\ http' \in [Callers -> HttpRec] /\ OtherHttp(c)
             /\ PathOK(http'[c], call'[c])
  <2>1. {"hang", "code"} \subseteq Steps
    BY DEF Steps
  <2>2. PICK st \in {"hang", "code"} : GoTo(c, st)
    BY <1>13 DEF CheckKey
  <2>3. http[c].path # "trylogin_server"
    BY <1>13 DEF CheckKey, At, PathInv, PathOK
  <2> QED
    BY <2>1, <2>2, <2>3, HttpSteps DEF PathOK, Like
<1>14. ASSUME GenerateCode(c)
      PROVE  /\ http' \in [Callers -> HttpRec] /\ OtherHttp(c)
             /\ PathOK(http'[c], call'[c])
  <2>1. generated + 1 \in Nat /\ http' = [http EXCEPT ![c].step = "mail", ![c].code = generated + 1]
    BY <1>14 DEF GenerateCode, HttpOK
  <2>2. http[c].path # "trylogin_server"
    BY <1>14 DEF GenerateCode, At, PathInv, PathOK
  <2> QED
    BY <2>1, <2>2, HttpGets DEF PathOK
<1>15. ASSUME GenerateEmail(c)
      PROVE  /\ http' \in [Callers -> HttpRec] /\ OtherHttp(c)
             /\ PathOK(http'[c], call'[c])
  <2>1. Respond(c, TRUE) /\ http[c].path # "trylogin_server"
    BY <1>15 DEF GenerateEmail, At, PathInv, PathOK
  <2> QED
    BY <2>1, HttpResponds DEF PathOK, Like
<1> QED
  BY <1>1, <1>2, <1>3, <1>4, <1>5, <1>6, <1>7, <1>8, <1>9, <1>10, <1>11, <1>12, <1>13,
     <1>14, <1>15

\* A connection in order stays so while its call goes on.
CallKept(r, q) == q.uuid = r.uuid /\ (r.step = "done" /\ r.ok => q.step = "done" /\ q.ok)

LEMMA PathKept == \A h, r, q : PathOK(h, r) /\ CallKept(r, q) => PathOK(h, q)
  BY DEF PathOK, CallKept

\* Every step keeps the calls, but of a client whose connection it changes,
LEMMA OtherCalls ==
  ASSUME AccountsOK, CallsOK, HttpOK, [Next]_vars
  PROVE  \A c \in Callers : CallKept(call[c], call'[c]) \/ http'[c] # http[c]
<1>1. Cases
  BY StepCases
<1>2. CASE Passive
  BY <1>2 DEF Passive, CallKept
<1>3. CASE Undisturbed \/ Stir \/ BalanceDies \/ \E c \in Callers : Balancing(c)
  BY <1>2, <1>3, PassiveStir, PassiveDies, PassiveBalancer DEF Undisturbed, Balancing
<1>4. ASSUME NEW c \in Callers, GetUserToken(c) \/ RegisterUserInfo(c)
      PROVE  \A d \in Callers : CallKept(call[d], call'[d])
  <2>1. call[c].step \in {"token", "register"} /\ call[c].uuid \in Uuids
    BY <1>4 DEF GetUserToken, RegisterUserInfo, CallsOK
  <2>2. CASE \E t \in Nat : call' = [call EXCEPT ![c] = Answer(c, TRUE, t)]
    BY <2>1, <2>2, Answers DEF CallKept, Others
  <2>3. CASE call' = [call EXCEPT ![c].step = "register"]
    BY <2>1, <2>3, GoesOn DEF CallKept, Others
  <2>4. token[call[c].uuid] \in Nat /\ tokens + 1 \in Nat
    BY <2>1 DEF CallsOK
  <2> QED
    BY <1>4, <2>2, <2>3, <2>4 DEF GetUserToken, RegisterUserInfo, CheckValue
<1>5. ASSUME NEW c \in Callers, WriteResponse(c)
      PROVE  \A d \in Callers : CallKept(call[d], call'[d]) \/ http'[d] # http[d]
  <2>0. http'[c] # http[c]
    BY <1>5, HttpFresh DEF WriteResponse, At, HttpOK
  <2>1. call' = [call EXCEPT ![c] = NoCall]
    BY <1>5 DEF WriteResponse
  <2> QED
    BY <2>0, <2>1, CallEnds DEF CallKept, Others
<1>6. ASSUME NEW c \in Callers, TryLogin(c)
      PROVE  \A d \in Callers : CallKept(call[d], call'[d]) \/ http'[d] # http[d]
  <2>1. CASE call' = call
    BY <2>1 DEF CallKept
  <2>2. ASSUME NEW x \in Uuids, http' = [http EXCEPT ![c].step = "rpc", ![c].uuid = x],
               AddNewUserToServer(c, x)
        PROVE  \A d \in Callers : CallKept(call[d], call'[d]) \/ http'[d] # http[d]
    <3>1. http[c].step = "login"
      BY <1>6 DEF TryLogin, At
    <3>2. http'[c].step = "rpc"
      BY <2>2, HttpGets
    <3> QED
      BY <2>2, <3>1, <3>2, Calls DEF CallKept, Others
  <2> QED
    BY <1>6, <2>1, <2>2, UuidByName DEF TryLogin
<1> QED
  BY <1>1, <1>3, <1>4, <1>5, <1>6 DEF Cases

\* and every connection in order.
LEMMA NextPath ==
  AccountsOK /\ CallsOK /\ HttpOK /\ PathInv /\ [Next]_vars =>
    http' \in [Callers -> HttpRec] /\ PathInv'
<1> SUFFICES ASSUME AccountsOK, CallsOK, HttpOK, PathInv, [Next]_vars
             PROVE  http' \in [Callers -> HttpRec] /\ PathInv'
  OBVIOUS
<1>1. \A c \in Callers : CallKept(call[c], call'[c]) \/ http'[c] # http[c]
  BY OtherCalls
<1>2. CASE GatewaySame
  BY <1>1, <1>2, PathKept DEF GatewaySame, PathInv, HttpOK
<1>3. ASSUME NEW c \in Callers,
         \/ HandleAccept(c) \/ SendRequest(c) \/ CheckTimeout(c) \/ WriteResponse(c) \/
            ProcessRequest(c) \/ CheckAccountExists(c) \/ PostRegistration(c) \/
            RegisterNewUser(c) \/ GetUuid(c) \/ ResetPassword(c) \/ TryLogin(c) \/
            LoginAnswer(c) \/ CheckKey(c) \/ GenerateCode(c) \/ GenerateEmail(c)
      PROVE  http' \in [Callers -> HttpRec] /\ PathInv'
  <2>1. /\ http' \in [Callers -> HttpRec] /\ OtherHttp(c)
        /\ PathOK(http'[c], call'[c])
    BY <1>3, OwnPath
  <2>2. \A d \in Callers \ {c} : PathOK(http'[d], call'[d])
    BY <1>1, <2>1, PathKept DEF PathInv, OtherHttp
  <2> QED
    BY <2>1, <2>2 DEF PathInv
<1>4. ASSUME NEW c \in Callers, SendMailFails(c)
      PROVE  http' \in [Callers -> HttpRec] /\ PathInv'
  <2>1. \A r : \A h \in HttpRec : LET q == [h EXCEPT !.step = "answer", !.ok = FALSE] IN
          q \in HttpRec /\ PathOK(q, r)
    <3>1. "answer" \in Steps
      BY DEF Steps
    <3>2. \A h \in HttpRec : LET q == [h EXCEPT !.step = "answer", !.ok = FALSE] IN
            q \in HttpRec /\ q.step = "answer" /\ ~q.ok
      BY <3>1 DEF HttpRec
    <3> QED
      BY <3>2 DEF PathOK
  <2>2. call' = call
    BY <1>4 DEF SendMailFails
  <2> QED
    BY <1>4, <2>1, <2>2 DEF SendMailFails, PathInv, HttpOK
<1> QED
  BY <1>2, <1>3, <1>4, HttpCases DEF HttpStep

\* The types of the gateway stay.
LEMMA NextHttp ==
  AccountsOK /\ CallsOK /\ HttpOK /\ PathInv /\ [Next]_vars => HttpOK'
<1> SUFFICES ASSUME AccountsOK, CallsOK, HttpOK, PathInv, [Next]_vars
             PROVE  HttpOK'
  OBVIOUS
<1>1. http' \in [Callers -> HttpRec]
  BY NextPath
<1>2. nextThread' \in IoThreads /\ generated' \in Nat /\ mailed' \in [Emails -> Nat] /\ HeldOK'
  <2>1. CASE GatewaySame
    BY <2>1 DEF GatewaySame, HttpOK
  <2>2. ASSUME NEW c \in Callers, HandleAccept(c)
        PROVE  nextThread' \in IoThreads
    <3>1. PICK n \in Nat \ {0} : n = Cardinality(IoThreads) /\ IoThreads = 0..n - 1
      BY FS_CardinalityType, FS_EmptySet, ThreadsAssumption
    <3>2. nextThread' = (nextThread + 1) % n /\ nextThread + 1 \in Nat
      BY <2>2, <3>1 DEF HandleAccept, HttpOK
    <3>3. \A m \in Nat : m % n \in 0..n - 1
      BY <3>1
    <3> QED
      BY <3>1, <3>2, <3>3
  <2>3. ASSUME NEW c \in Callers, GenerateEmail(c)
        PROVE  mailed' \in [Emails -> Nat]
    BY <2>3 DEF GenerateEmail, HttpOK, HttpRec
  <2>4. ASSUME NEW c \in Callers, WriteResponse(c)
        PROVE  HeldOK'
    BY <2>4 DEF WriteResponse, HttpOK, HeldOK
  <2>5. ASSUME NEW c \in Callers, HandleAccept(c)
        PROVE  nextThread' \in IoThreads /\ generated' \in Nat /\ mailed' \in [Emails -> Nat] /\ HeldOK'
    <3>1. UNCHANGED <<generated, mailed, held>>
      BY <2>5 DEF HandleAccept
    <3> QED
      BY <3>1, <2>2, <2>5 DEF HttpOK, HeldOK
  <2>7. ASSUME NEW c \in Callers, GenerateCode(c)
        PROVE  nextThread' \in IoThreads /\ generated' \in Nat /\ mailed' \in [Emails -> Nat] /\ HeldOK'
    <3>1. UNCHANGED <<nextThread, mailed, held>> /\ generated' = generated + 1
      BY <2>7 DEF GenerateCode
    <3> QED
      BY <3>1 DEF HttpOK, HeldOK
  <2>8. ASSUME NEW c \in Callers, GenerateEmail(c)
        PROVE  nextThread' \in IoThreads /\ generated' \in Nat /\ mailed' \in [Emails -> Nat] /\ HeldOK'
    <3>1. UNCHANGED <<nextThread, generated, held>>
      BY <2>8 DEF GenerateEmail
    <3> QED
      BY <3>1, <2>3, <2>8 DEF HttpOK, HeldOK
  <2>9. ASSUME NEW c \in Callers, WriteResponse(c)
        PROVE  nextThread' \in IoThreads /\ generated' \in Nat /\ mailed' \in [Emails -> Nat] /\ HeldOK'
    <3>1. UNCHANGED <<nextThread, generated, mailed>>
      BY <2>9 DEF WriteResponse
    <3> QED
      BY <3>1, <2>4, <2>9 DEF HttpOK, HeldOK
  <2>6. ASSUME NEW c \in Callers,
               \/ SendRequest(c) \/ CheckTimeout(c) \/ SendMailFails(c) \/ ProcessRequest(c)
               \/ CheckAccountExists(c) \/ PostRegistration(c) \/ RegisterNewUser(c) \/ GetUuid(c)
               \/ ResetPassword(c) \/ TryLogin(c) \/ LoginAnswer(c) \/ CheckKey(c)
        PROVE  nextThread' \in IoThreads /\ generated' \in Nat /\ mailed' \in [Emails -> Nat] /\ HeldOK'
    <3>1. UNCHANGED <<nextThread, generated, mailed, held>>
      BY <2>6 DEF SendRequest, CheckTimeout, SendMailFails, ProcessRequest, CheckAccountExists,
                  PostRegistration, RegisterNewUser, GetUuid, ResetPassword, TryLogin,
                  LoginAnswer, CheckKey
    <3> QED
      BY <3>1 DEF HttpOK, HeldOK
  <2> QED
    BY <2>1, <2>5, <2>6, <2>7, <2>8, <2>9, HttpCases DEF HttpStep
<1> QED
  BY <1>1, <1>2 DEF HttpOK

\* No two accounts have one name or one e-mail (the unique keys of Authentication).
LEMMA NextAccounts ==
  AccountsOK /\ HttpOK /\ PathInv /\ [Next]_vars => AccountsOK'
<1> SUFFICES ASSUME AccountsOK, HttpOK, PathInv, [Next]_vars
             PROVE  AccountsOK'
  OBVIOUS
<1>1. CASE accounts' = accounts
  BY <1>1 DEF AccountsOK
<1>2. ASSUME NEW c \in Callers, RegisterNewUser(c)
      PROVE  AccountsOK'
  <2>1. http[c].name \in Names /\ http[c].email \in Emails /\ http[c].password \in Callers
    BY <1>2 DEF RegisterNewUser, At, PathInv, PathOK
  <2> DEFINE r == [name |-> http[c].name, email |-> http[c].email, password |-> http[c].password]
  <2>2. r \in AccountRec /\ r.name = http[c].name /\ r.email = http[c].email
    BY <2>1 DEF AccountRec
  <2>3. CASE /\ accounts' = Append(accounts, r)
             /\ \A i \in DOMAIN accounts : accounts[i].name # r.name /\ accounts[i].email # r.email
    <3> HIDE DEF r
    <3>1. /\ accounts' \in Seq(AccountRec) /\ DOMAIN accounts' = DOMAIN accounts \cup {Len(accounts) + 1}
          /\ \A i \in DOMAIN accounts : accounts'[i] = accounts[i]
          /\ accounts'[Len(accounts) + 1] = r
      BY <2>2, <2>3 DEF AccountsOK
    <3> QED
      BY <2>3, <3>1 DEF AccountsOK
  <2> QED
    BY <1>1, <1>2, <2>2, <2>3 DEF RegisterNewUser, CreateNewUser
<1>3. ASSUME NEW c \in Callers, ResetPassword(c)
      PROVE  AccountsOK'
  <2>1. http[c].password \in Callers
    BY <1>3 DEF ResetPassword, At, PathInv, PathOK
  <2>2. \A r \in AccountRec : LET q == [r EXCEPT !.password = http[c].password] IN
          q \in AccountRec /\ q.name = r.name /\ q.email = r.email
    BY <2>1 DEF AccountRec
  <2>3. PICK n \in Nat : DOMAIN accounts = 1..n /\ \A i \in 1..n : accounts[i] \in AccountRec
    BY DEF AccountsOK
  <2>4. /\ DOMAIN accounts' = 1..n
        /\ \A i \in 1..n : /\ accounts'[i] \in AccountRec /\ accounts'[i].name = accounts[i].name
                           /\ accounts'[i].email = accounts[i].email
    BY <1>3, <2>2, <2>3 DEF ResetPassword, UpdateUserPasswd
  <2>5. accounts' = [i \in 1..n |-> accounts'[i]]
    BY <1>3, <2>3 DEF ResetPassword, UpdateUserPasswd
  <2>6. accounts' \in Seq(AccountRec)
    BY <2>4, <2>5, SeqDef
  <2> QED
    BY <2>3, <2>4, <2>6 DEF AccountsOK
<1> QED
  BY <1>1, <1>2, <1>3, HttpCases
  DEF HttpStep, GatewaySame,
      HandleAccept, SendRequest, CheckTimeout, SendMailFails, ProcessRequest, WriteResponse,
      CheckAccountExists, PostRegistration, GetUuid, TryLogin, LoginAnswer, CheckKey,
      GenerateCode, GenerateEmail

-----------------------------------------------------------------------------
(* The choice of a server                                                  *)

\* What other calls do to the entries keeps a call in order: they write what it read.
LEMMA OthersBalanced ==
  ASSUME CallsOK, BalanceInv, NEW c \in Callers, Others(c), Balanced(call[c])',
         UNCHANGED <<instances, load>>,
         \A s \in Chatting : seen'[s] \in {seen[s], load[s]}
  PROVE  BalanceInv'
<1>1. ASSUME NEW d \in Callers \ {c} PROVE Balanced(call[d])'
  <2>1. call'[d] = call[d] /\ call[d].visited \subseteq Chatting
    BY DEF Others, CallsOK, CallRec
  <2> QED
    BY <2>1 DEF BalanceInv, Balanced
<1> QED
  BY <1>1 DEF BalanceInv

LEMMA NextBalanced ==
  AccountsOK /\ CallsOK /\ HttpOK /\ BalanceInv /\ [Next]_vars => BalanceInv'
<1> SUFFICES ASSUME AccountsOK, CallsOK, HttpOK, BalanceInv, [Next]_vars
             PROVE  BalanceInv'
  OBVIOUS
<1>1. CASE Undisturbed
  <2>1. \A d \in Callers : call'[d] = call[d] /\ call[d].visited \subseteq Chatting
                           /\ Balanced(call[d])
    BY <1>1 DEF Undisturbed, CallsOK, CallRec, BalanceInv
  <2>2. \A d \in Callers : call[d].min \in call[d].visited => call[d].min \in Chatting
    BY <2>1
  <2>3. instances' \cap Chatting = instances \cap Chatting
    BY <1>1 DEF Undisturbed
  <2>4. seen' = seen /\ \A s \in Chatting : load'[s] = load[s]
    BY <1>1 DEF Undisturbed
  <2> QED
    BY <2>1, <2>2, <2>3, <2>4 DEF BalanceInv, Balanced
<1>2. CASE Stir
  BY <1>2, Stirs DEF BalanceInv, Balanced
<1>3. CASE BalanceDies
  BY <1>3, Dies DEF BalanceInv, Balanced
<1>4. ASSUME NEW c \in Callers, FirstServer(c) PROVE BalanceInv'
  <2>1. Others(c) /\ UNCHANGED <<instances, load>>
    BY <1>4, Begins DEF FirstServer
  <2>2. CASE call'[c].step = "done" /\ seen' = seen
    <3>1. Balanced(call[c])'
      BY <2>2 DEF Balanced
    <3> QED
      BY <2>1, <2>2, <3>1, OthersBalanced
  <2>3. ASSUME NEW s \in instances \cap Chatting,
               call'[c].step = "balance", call'[c].min = s, call'[c].visited = {s},
               call'[c].start = instances \cap Chatting, seen' = [seen EXCEPT ![s] = load[s]]
        PROVE  BalanceInv'
    <3>1. seen'[s] = load[s] /\ load[s] \in Nat /\ \A q \in Chatting : seen'[q] \in {seen[q], load[q]}
      BY <2>3 DEF CallsOK
    <3>2. Balanced(call[c])'
      BY <2>1, <2>3, <3>1 DEF Balanced
    <3> QED
      BY <2>1, <3>1, <3>2, OthersBalanced
  <2> QED
    BY <1>4, <2>2, <2>3, Begins
<1>5. ASSUME NEW c \in Callers, LoopOverServers(c) PROVE BalanceInv'
  <2>1. /\ Others(c) /\ UNCHANGED <<instances, load>> /\ seen' \in [Chatting -> Nat]
        /\ call[c].step = "balance" /\ call'[c].step = "balance"
        /\ call'[c].start = call[c].start /\ call'[c].quiet = call[c].quiet
        /\ call[c].visited \subseteq Chatting
    BY <1>5, Loops DEF LoopOverServers, CallsOK, CallRec
  <2>2. PICK s \in (call[c].start \cup (instances \cap Chatting)) \ call[c].visited :
          /\ s \in Chatting
          /\ call'[c].visited = call[c].visited \cup {s}
          /\ \/ /\ seen' = [seen EXCEPT ![s] = load[s]]
                /\ call'[c].min = IF seen'[s] < seen[call[c].min] THEN s ELSE call[c].min
             \/ s \notin instances /\ seen' = seen /\ call'[c].min = call[c].min
    BY <1>5, Loops
  <2>3. \A q \in Chatting : load[q] \in Nat /\ seen[q] \in Nat
    BY DEF CallsOK
  <2>4. \A q \in Chatting : seen'[q] \in {seen[q], load[q]}
    BY <2>2, <2>3 DEF CallsOK
  <2>5. ASSUME call[c].quiet PROVE Balanced(call[c])'
    <3>1. /\ call[c].start = instances \cap Chatting
          /\ call[c].min \in call[c].visited /\ call[c].min \in Chatting
          /\ \A q \in call[c].visited : seen[q] = load[q] /\ load[call[c].min] <= load[q]
      BY <2>1, <2>5 DEF BalanceInv, Balanced
    <3>2. /\ seen' = [seen EXCEPT ![s] = load[s]]
          /\ call'[c].min = IF seen'[s] < seen[call[c].min] THEN s ELSE call[c].min
      BY <2>2, <3>1
    <3>3. seen'[s] = load[s] /\ \A q \in call[c].visited : seen'[q] = load[q]
      BY <2>1, <2>2, <2>4, <3>1, <3>2 DEF CallsOK
    <3>4. /\ call'[c].min \in call'[c].visited
          /\ \A q \in call'[c].visited : load[call'[c].min] <= load[q]
      <4>1. CASE load[s] < load[call[c].min]
        <5>1. call'[c].min = s
          BY <3>1, <3>2, <3>3, <4>1
        <5> QED
          BY <2>1, <2>2, <2>3, <3>1, <4>1, <5>1
      <4>2. CASE ~(load[s] < load[call[c].min])
        <5>1. call'[c].min = call[c].min
          BY <3>1, <3>2, <3>3, <4>2
        <5> QED
          BY <2>1, <2>2, <2>3, <3>1, <4>2, <5>1
      <4> QED
        BY <4>1, <4>2
    <3> QED
      BY <2>1, <2>2, <3>1, <3>3, <3>4 DEF Balanced
  <2>6. ~call[c].quiet => Balanced(call[c])'
    BY <2>1 DEF Balanced
  <2> QED
    BY <2>1, <2>4, <2>5, <2>6, OthersBalanced
<1>6. ASSUME NEW c \in Callers, ServerInstanceLoadBalancer(c) PROVE BalanceInv'
  <2>1. /\ call[c].step = "balance" /\ call[c].start \subseteq call[c].visited
        /\ call' = [call EXCEPT ![c].step = "token"] /\ UNCHANGED <<instances, load, seen>>
    BY <1>6 DEF ServerInstanceLoadBalancer
  <2>2. /\ Others(c) /\ call'[c].min = call[c].min /\ call'[c].start = call[c].start
        /\ call'[c].visited = call[c].visited /\ call'[c].quiet = call[c].quiet
    BY <2>1, GoesOn
  <2>3. Balanced(call[c])'
    BY <2>1, <2>2 DEF BalanceInv, Balanced
  <2> QED
    BY <2>1, <2>2, <2>3, OthersBalanced
<1>7. ASSUME NEW c \in Callers, NEW b \in BOOLEAN, NEW t \in Nat,
             call' = [call EXCEPT ![c] = Answer(c, b, t)], UNCHANGED <<instances, load, seen>>
      PROVE  BalanceInv'
  <2>1. Others(c) /\ call'[c].step = "done"
    BY <1>7, Answers
  <2>2. Balanced(call[c])'
    BY <2>1 DEF Balanced
  <2> QED
    BY <1>7, <2>1, <2>2, OthersBalanced
<1>8. ASSUME NEW c \in Callers, GetUserToken(c) PROVE BalanceInv'
  <2>1. /\ call[c].step = "token" /\ UNCHANGED <<instances, load, seen>>
        /\ token[call[c].uuid] \in Nat
    BY <1>8 DEF GetUserToken, CallsOK
  <2>2. CASE call' = [call EXCEPT ![c].step = "register"]
    <3>1. /\ Others(c) /\ call'[c].min = call[c].min /\ call'[c].start = call[c].start
          /\ call'[c].visited = call[c].visited /\ call'[c].quiet = call[c].quiet
      BY <2>2, GoesOn
    <3>2. Balanced(call[c])'
      BY <2>1, <3>1 DEF BalanceInv, Balanced
    <3> QED
      BY <2>1, <3>1, <3>2, OthersBalanced
  <2> QED
    BY <1>7, <1>8, <2>1, <2>2 DEF GetUserToken, CheckValue
<1>9. ASSUME NEW c \in Callers, RegisterUserInfo(c) PROVE BalanceInv'
  <2>1. tokens + 1 \in Nat
    BY DEF CallsOK
  <2> QED
    BY <1>7, <1>9, <2>1 DEF RegisterUserInfo
<1>10. ASSUME NEW c \in Callers, NoLock(c) PROVE BalanceInv'
  BY <1>7, <1>10 DEF NoLock
<1>11. ASSUME NEW c \in Callers, TryLogin(c) PROVE BalanceInv'
  <2>1. CASE UNCHANGED balanceVars
    BY <2>1 DEF BalanceInv, Balanced
  <2>2. ASSUME NEW x \in Uuids, AddNewUserToServer(c, x) PROVE BalanceInv'
    <3>1. Others(c) /\ call'[c].step \in {"begin", "done"} /\ UNCHANGED <<instances, load, seen>>
      BY <2>2, Calls DEF AddNewUserToServer
    <3>2. Balanced(call[c])'
      BY <3>1 DEF Balanced
    <3> QED
      BY <3>1, <3>2, OthersBalanced
  <2> QED
    BY <1>11, <2>1, <2>2, UuidByName DEF TryLogin
<1>12. ASSUME NEW c \in Callers, WriteResponse(c) PROVE BalanceInv'
  <2>1. call' = [call EXCEPT ![c] = NoCall] /\ UNCHANGED <<instances, load, seen>>
    BY <1>12 DEF WriteResponse
  <2>2. Others(c) /\ call'[c].step = "idle"
    BY <2>1, CallEnds
  <2>3. Balanced(call[c])'
    BY <2>2 DEF Balanced
  <2> QED
    BY <2>1, <2>2, <2>3, OthersBalanced
<1> QED
  BY <1>1, <1>2, <1>3, <1>4, <1>5, <1>6, <1>8, <1>9, <1>10, <1>11, <1>12, StepCases
  DEF Cases, Balancing

-----------------------------------------------------------------------------
(* The tokens                                                              *)

\* The parts of TokenInv, of a call and of a login page.
OnlyOne(c) ==
  call[c].step = "register" =>
    /\ token[call[c].uuid] = 0
    /\ \A d \in Callers \ {c} : ~(call[d].step = "register" /\ call[d].uuid = call[c].uuid)
GotToken(c) ==
  call[c].step = "done" /\ call[c].ok => call[c].token # 0 /\ token[call[c].uuid] = call[c].token
Admitted(c) ==
  held[c].uuid \notin {0} \cup raced =>
    held[c].uuid \in Uuids /\ held[c].token # 0 /\ token[held[c].uuid] = held[c].token

LEMMA TokenParts ==
  TokenInv <=> /\ \A c \in Callers : call[c].uuid \notin raced => OnlyOne(c) /\ GotToken(c)
               /\ \A c \in Callers : Admitted(c)
  BY DEF TokenInv, OnlyOne, GotToken, Admitted

LEMMA NextToken ==
  AccountsOK /\ CallsOK /\ HttpOK /\ PathInv /\ TokenInv /\ [Next]_vars => TokenInv'
<1> SUFFICES ASSUME AccountsOK, CallsOK, HttpOK, PathInv, TokenInv, [Next]_vars
             PROVE  TokenInv'
  OBVIOUS
<1>0. TokenInv' <=> /\ \A c \in Callers : call'[c].uuid \notin raced' => OnlyOne(c)' /\ GotToken(c)'
                    /\ \A c \in Callers : Admitted(c)'
  BY DEF TokenInv, OnlyOne, GotToken, Admitted
<1>1. ASSUME Passive,
         UNCHANGED <<token, raced>>, \A c \in Callers : held'[c] \in {held[c], Nothing}
      PROVE  TokenInv'
  <2>1. \A c \in Callers : call'[c].uuid \notin raced' => OnlyOne(c)' /\ GotToken(c)'
    <3>1. ASSUME NEW c \in Callers, call'[c].uuid \notin raced' PROVE OnlyOne(c)' /\ GotToken(c)'
      <4>1. OnlyOne(c) /\ GotToken(c)
        BY <1>1, <3>1, TokenParts DEF Passive
      <4>2. OnlyOne(c)'
        BY <1>1, <4>1 DEF Passive, OnlyOne
      <4>3. GotToken(c)'
        BY <1>1, <4>1 DEF Passive, GotToken
      <4> QED
        BY <4>2, <4>3
    <3> QED
      BY <3>1
  <2>2. \A c \in Callers : Admitted(c)'
    BY <1>1, TokenParts DEF Admitted, Nothing
  <2> QED
    BY <2>1, <2>2, <1>0
<1>2. ASSUME NEW c \in Callers, GetUserToken(c), UNCHANGED held
      PROVE  TokenInv'
  <2> DEFINE x == call[c].uuid
  <2>1. call[c].step = "token" /\ x \in Uuids /\ token[x] \in Nat /\ token' = token
    BY <1>2 DEF GetUserToken, CallsOK
  <2>2. CASE token[x] # 0 /\ call' = [call EXCEPT ![c] = Answer(c, TRUE, token[x])] /\ raced' = raced
    <3>1. /\ Others(c) /\ call'[c].step = "done" /\ call'[c].token = token[x]
          /\ call'[c].uuid = x
      BY <2>1, <2>2, Answers
    <3>2. GotToken(c)' /\ OnlyOne(c)'
      BY <2>1, <2>2, <3>1 DEF GotToken, OnlyOne
    <3>3. ASSUME NEW d \in Callers \ {c}, call'[d].uuid \notin raced' PROVE GotToken(d)' /\ OnlyOne(d)'
      <4>1. call'[d] = call[d] /\ GotToken(d) /\ OnlyOne(d)
        BY <2>2, <3>1, <3>3, TokenParts DEF Others
      <4> QED
        BY <2>1, <3>1, <4>1 DEF GotToken, OnlyOne, Others
    <3>4. \A d \in Callers : Admitted(d)'
      BY <1>2, <2>1, <2>2, TokenParts DEF Admitted
    <3> QED
      BY <3>2, <3>3, <3>4, <1>0
  <2>3. CASE /\ token[x] = 0 /\ call' = [call EXCEPT ![c].step = "register"]
             /\ raced' = raced \cup {y \in {x} : \E d \in Callers \ {c} :
                                       call[d].step = "register" /\ call[d].uuid = y}
    <3>1. Others(c) /\ call'[c].step = "register" /\ call'[c].uuid = x
      BY <2>3, GoesOn
    <3>2. /\ raced \subseteq raced'
          /\ x \notin raced' => \A d \in Callers \ {c} :
                                  ~(call[d].step = "register" /\ call[d].uuid = x)
      BY <2>3
    <3>3. ASSUME call'[c].uuid \notin raced' PROVE GotToken(c)' /\ OnlyOne(c)'
      BY <2>1, <2>3, <3>1, <3>2, <3>3 DEF GotToken, OnlyOne, Others
    <3>4. ASSUME NEW d \in Callers \ {c}, call'[d].uuid \notin raced' PROVE GotToken(d)' /\ OnlyOne(d)'
      <4>1. call'[d] = call[d] /\ GotToken(d) /\ OnlyOne(d)
        BY <3>1, <3>2, <3>4, TokenParts DEF Others
      <4>2. GotToken(d)'
        BY <2>1, <4>1 DEF GotToken
      <4>3. call[d].step = "register" => call[d].uuid # x
        BY <3>2, <3>4, <4>1
      <4> QED
        BY <2>1, <3>1, <4>1, <4>2, <4>3 DEF OnlyOne, Others
    <3>5. \A d \in Callers : Admitted(d)'
      BY <1>2, <2>1, <3>2, TokenParts DEF Admitted
    <3> QED
      BY <3>3, <3>4, <3>5, <1>0
  <2> QED
    BY <1>2, <2>2, <2>3 DEF GetUserToken, CheckValue
<1>3. ASSUME NEW c \in Callers, RegisterUserInfo(c), UNCHANGED held
      PROVE  TokenInv'
  <2> DEFINE x == call[c].uuid
             n == tokens + 1
  <2>1. /\ call[c].step = "register" /\ x \in Uuids /\ n \in Nat /\ n # 0
        /\ token' = [token EXCEPT ![x] = n] /\ raced' = raced
        /\ call' = [call EXCEPT ![c] = Answer(c, TRUE, n)]
    BY <1>3 DEF RegisterUserInfo, SetValue, CallsOK
  <2>2. Others(c) /\ call'[c].step = "done" /\ call'[c].token = n /\ call'[c].uuid = x
    BY <2>1, Answers
  <2>3. token'[x] = n /\ \A y \in Uuids : y # x => token'[y] = token[y]
    BY <2>1 DEF CallsOK
  <2> HIDE DEF n
  <2>4. x \notin raced => token[x] = 0
    BY <2>1, TokenParts DEF OnlyOne
  <2>5. GotToken(c)' /\ OnlyOne(c)'
    BY <2>1, <2>2, <2>3 DEF GotToken, OnlyOne
  <2>6. ASSUME NEW d \in Callers \ {c}, call'[d].uuid \notin raced' PROVE GotToken(d)' /\ OnlyOne(d)'
    <3>1. call'[d] = call[d] /\ GotToken(d) /\ OnlyOne(d) /\ call[d].uuid \notin raced
      BY <2>1, <2>2, <2>6, TokenParts DEF Others
    <3>2. call[d].step # "idle" => call[d].uuid \in Uuids
      BY DEF CallsOK
    <3>3. GotToken(d)'
      BY <2>3, <2>4, <3>1, <3>2 DEF GotToken
    <3>4. call[d].step = "register" => call[d].uuid # x
      BY <2>1, <3>1 DEF OnlyOne
    <3> QED
      BY <2>2, <2>3, <3>1, <3>2, <3>3, <3>4 DEF OnlyOne, Others
  <2>7. ASSUME NEW d \in Callers PROVE Admitted(d)'
    <3>1. Admitted(d) /\ held' = held
      BY <1>3, TokenParts
    <3> QED
      BY <2>1, <2>3, <2>4, <3>1 DEF Admitted
  <2> QED
    BY <2>5, <2>6, <2>7, <1>0
<1>4. ASSUME NEW c \in Callers, TryLogin(c) PROVE TokenInv'
  <2>1. UNCHANGED <<token, raced, held>>
    BY <1>4 DEF TryLogin, AddNewUserToServer, Respond
  <2>2. CASE call' = call
    BY <1>0, <2>1, <2>2, TokenParts DEF OnlyOne, GotToken, Admitted
  <2>3. ASSUME NEW y \in Uuids, AddNewUserToServer(c, y) PROVE TokenInv'
    <3>1. Others(c) /\ call'[c].step \in {"begin", "done"} /\ ~call'[c].ok
      BY <2>3, Calls
    <3>2. GotToken(c)' /\ OnlyOne(c)'
      BY <3>1 DEF GotToken, OnlyOne
    <3>3. ASSUME NEW d \in Callers \ {c}, call'[d].uuid \notin raced' PROVE GotToken(d)' /\ OnlyOne(d)'
      <4>1. call'[d] = call[d] /\ GotToken(d) /\ OnlyOne(d)
        BY <2>1, <3>1, <3>3, TokenParts DEF Others
      <4> QED
        BY <2>1, <3>1, <4>1 DEF GotToken, OnlyOne, Others
    <3>4. \A d \in Callers : Admitted(d)'
      BY <2>1, TokenParts DEF Admitted
    <3> QED
      BY <3>2, <3>3, <3>4, <1>0
  <2> QED
    BY <1>4, <2>2, <2>3, UuidByName DEF TryLogin
<1>5. ASSUME NEW c \in Callers, WriteResponse(c) PROVE TokenInv'
  <2>1. UNCHANGED <<token, raced>> /\ call' = [call EXCEPT ![c] = NoCall]
    BY <1>5 DEF WriteResponse
  <2>2. Others(c) /\ call'[c].step = "idle"
    BY <2>1, CallEnds
  <2>3. GotToken(c)' /\ OnlyOne(c)'
    BY <2>2 DEF GotToken, OnlyOne
  <2>4. ASSUME NEW d \in Callers \ {c}, call'[d].uuid \notin raced' PROVE GotToken(d)' /\ OnlyOne(d)'
    <3>1. call'[d] = call[d] /\ GotToken(d) /\ OnlyOne(d)
      BY <2>1, <2>2, <2>4, TokenParts DEF Others
    <3> QED
      BY <2>1, <2>2, <3>1 DEF GotToken, OnlyOne, Others
  <2>5. \A d \in Callers : Admitted(d)
    BY TokenParts
  <2>6. ASSUME NEW d \in Callers \ {c} PROVE Admitted(d)'
    <3>1. held'[d] = held[d]
      BY <1>5 DEF WriteResponse, HttpOK, HeldOK
    <3> QED
      BY <2>1, <2>5, <3>1 DEF Admitted
  <2>7. Admitted(c)'
    <3>1. CASE http[c].path = "trylogin_server" /\ http[c].ok
      <4>1. /\ held'[c].uuid = http[c].uuid /\ held'[c].token = call[c].token
            /\ http[c].step = "answer"
        BY <1>5, <3>1 DEF WriteResponse, At, HttpOK, HeldOK
      <4>2. call[c].step = "done" /\ call[c].ok /\ call[c].uuid = http[c].uuid
            /\ call[c].uuid \in Uuids
        BY <3>1, <4>1 DEF PathInv, PathOK, CallsOK
      <4>3. call[c].uuid \notin raced => GotToken(c)
        BY TokenParts
      <4> QED
        BY <2>1, <4>1, <4>2, <4>3 DEF Admitted, GotToken
    <3>2. CASE ~(http[c].path = "trylogin_server" /\ http[c].ok)
      <4>1. held'[c] = held[c]
        BY <1>5, <3>2 DEF WriteResponse, HttpOK, HeldOK
      <4> QED
        BY <2>1, <2>5, <4>1 DEF Admitted
    <3> QED
      BY <3>1, <3>2
  <2> QED
    BY <2>3, <2>4, <2>6, <2>7, <1>0
<1>6. Undisturbed => Passive
  BY PassiveStir DEF Undisturbed
<1> QED
  BY <1>1, <1>2, <1>3, <1>4, <1>5, <1>6, StepCases, PassiveStir, PassiveDies, PassiveBalancer
  DEF Cases, Balancing

-----------------------------------------------------------------------------
(* The theorems                                                            *)

IInv == AccountsOK /\ CallsOK /\ HttpOK /\ PathInv /\ BalanceInv /\ TokenInv

\* The inductive invariant holds at the start,
LEMMA Starts == Init => IInv
<1> SUFFICES ASSUME Init PROVE IInv
  OBVIOUS
<1>1. PICK up \in Up : BalanceInit(up)
  BY DEF Init
<1>2. PICK table \in Tables : GatewayInit(table)
  BY DEF Init
<1>3. AccountsOK
  <2>1. /\ accounts = table /\ table \in Seq(AccountRec)
        /\ \A i, k \in DOMAIN table : i # k => table[i].name # table[k].name
                                              /\ table[i].email # table[k].email
    BY <1>2 DEF GatewayInit, AccountRec
  <2> QED
    BY <2>1 DEF AccountsOK
<1>4. call = [c \in Callers |-> NoCall] /\ NoCall.step = "idle" /\ NoCall.uuid = 0 /\ ~NoCall.ok
  BY <1>1 DEF BalanceInit, NoCall
<1>5. CallsOK
  <2>1. load \in [Chatting \cup Resources -> Nat]
    BY <1>1 DEF BalanceInit, Missing
  <2>2. seen \in [Chatting -> Nat] /\ tokens \in Nat /\ token \in [Uuids -> Nat]
    BY <1>1 DEF BalanceInit
  <2>3. call \in [Callers -> CallRec] /\ \A c \in Callers : call[c].step = "idle"
    BY <1>4, CallUpdates
  <2> QED
    BY <2>1, <2>2, <2>3 DEF CallsOK
<1>6. HttpOK
  <2>1. 0 \in IoThreads
    <3>1. PICK n \in Nat \ {0} : n = Cardinality(IoThreads) /\ IoThreads = 0..n - 1
      BY FS_CardinalityType, FS_EmptySet, ThreadsAssumption
    <3>2. 0 \in 0..n - 1
      OBVIOUS
    <3> QED
      BY <3>1, <3>2
  <2> QED
    BY <1>2, <2>1, HttpFresh DEF GatewayInit, HttpOK, HeldOK
<1>7. PathInv
  <2>1. \A c \in Callers : http[c].step = "none"
    BY <1>2, HttpFresh DEF GatewayInit
  <2> QED
    BY <2>1 DEF PathInv, PathOK
<1>8. BalanceInv
  BY <1>4 DEF BalanceInv, Balanced
<1>9. TokenInv
  BY <1>2, <1>4 DEF GatewayInit, TokenInv, Nothing
<1> QED
  BY <1>3, <1>5, <1>6, <1>7, <1>8, <1>9 DEF IInv

\* and every step keeps it.
LEMMA Invariant == Spec => []IInv
<1>1. IInv /\ [Next]_vars => IInv'
  BY NextCalls, NextPath, NextHttp, NextAccounts, NextBalanced, NextToken DEF IInv
<1> QED
  BY <1>1, Starts, PTL DEF Spec

\* A user is sent to a chatting server with the least counter of all that are
\* registered (chattingInstanceLoadBalancer), for any number of servers and of calls
\* that share their entries, if counters and map stayed as they were meanwhile.
THEOREM LeastLoaded == Spec => []ChosenIsLeastLoaded
<1>1. IInv => ChosenIsLeastLoaded
  <2> SUFFICES ASSUME IInv, NEW c \in Callers, call[c].step \in {"token", "register"}, call[c].quiet,
                      NEW s \in instances \cap Chatting
               PROVE  load[call[c].min] <= load[s]
    BY DEF ChosenIsLeastLoaded
  <2>1. Balanced(call[c])
    BY DEF IInv, BalanceInv
  <2> QED
    BY <2>1 DEF Balanced
<1> QED
  BY <1>1, Invariant, PTL

\* A client that was answered success can log in on the chatting server it was sent
\* to (RegisterUser, verifyUserToken), however many clients log in as its user and
\* wherever the balance server died; unless two calls of the user found no token.
THEOREM AdmittedCanLogIn == Spec => []AdmittedIsAccepted
<1>1. IInv => AdmittedIsAccepted
  BY TokenParts DEF IInv, AdmittedIsAccepted, Admitted, VerifyUserToken, CheckValue
<1> QED
  BY <1>1, Invariant, PTL

-----------------------------------------------------------------------------
(* The types                                                               *)

\* The maps of the balance server and where the servers are: only a chatting
\* server has a gRPC server to register, and a balance server that is not there
\* has forgotten all.
RegistryOK ==
  /\ instances \subseteq Chatting \cup Resources
  /\ grpcs \subseteq Chatting
  /\ life \in [Chatting \cup Resources -> Lives]
  /\ \A s \in Resources : life[s] \notin {"grpc", "leaveGrpc"}
  /\ ~running => instances = {} /\ grpcs = {}
  /\ raced \subseteq Uuids

\* No token and no code is beyond the last one generated.
TokensOK ==
  /\ token \in [Uuids -> 0..tokens]
  /\ \A c \in Callers : call[c].token \in 0..tokens
  /\ held \in [Callers -> [uuid : {0} \cup Uuids, token : 0..tokens, server : Chatting \cup {NoServer}]]
  /\ chatting \in [Callers -> Chatting \cup {NoServer}]
CodesOK ==
  /\ codes \in [Emails -> [code : 0..generated, ttl : BOOLEAN]]
  /\ mailed \in [Emails -> 0..generated]
  /\ \A c \in Callers : http[c].code \in 0..generated

\* A connection knows the uuid of an account.
KnownUuids == \A c \in Callers : http[c].uuid \in {0} \cup DOMAIN accounts

\* Who changes the variables of these: the steps that are not of one kind are of
\* the other.
LEMMA Framed ==
  [Next]_vars =>
    /\ UNCHANGED <<registry, life>> \/ BalanceNext
    /\ tokens' = tokens \/ \E c \in Callers : RegisterUserInfo(c)
    /\ raced' = raced \/ \E c \in Callers : GetUserToken(c)
    /\ \/ UNCHANGED <<codes, mailed, generated>>
       \/ \E c \in Callers : GenerateCode(c) \/ GenerateEmail(c)
       \/ \E e \in Emails : SetValueExpiracy(e) \/ CodeExpires(e)
    /\ \/ UNCHANGED <<chatting, held>>
       \/ \E c \in Callers : HandlingLoginThere(c) \/ LeavesChatting(c)
       \/ UNCHANGED chatting /\ \E c \in Callers : WriteResponse(c)
<1> SUFFICES ASSUME [Next]_vars
             PROVE  /\ UNCHANGED <<registry, life>> \/ BalanceNext
                    /\ tokens' = tokens \/ \E c \in Callers : RegisterUserInfo(c)
                    /\ raced' = raced \/ \E c \in Callers : GetUserToken(c)
                    /\ \/ UNCHANGED <<codes, mailed, generated>>
                       \/ \E c \in Callers : GenerateCode(c) \/ GenerateEmail(c)
                       \/ \E e \in Emails : SetValueExpiracy(e) \/ CodeExpires(e)
                    /\ \/ UNCHANGED <<chatting, held>>
                       \/ \E c \in Callers : HandlingLoginThere(c) \/ LeavesChatting(c)
                       \/ UNCHANGED chatting /\ \E c \in Callers : WriteResponse(c)
  OBVIOUS
<1>1. CASE UNCHANGED vars
  BY <1>1
<1>2. CASE BalanceNext /\ ServersEnd /\ UNCHANGED <<gatewayVars, chatting>>
  <2>1. tokens' = tokens \/ \E c \in Callers : RegisterUserInfo(c)
    BY <1>2 DEF BalanceNext, Start, Life, Stop, Crash, GetGrpcPeers, RegisterInstance, RegisterGrpc,
                RegisterResourcesInstance, Count, Uncount, ShutdownInstance, ShutdownGrpc,
                ShutdownResourcesInstance, BalanceCrash, BalanceDies, BalanceStart, RegisterUser,
                FirstServer, LoopOverServers, ServerInstanceLoadBalancer, GetUserToken,
                ReadsFreedEntry, NoLock
  <2>2. raced' = raced \/ \E c \in Callers : GetUserToken(c)
    BY <1>2 DEF BalanceNext, Start, Life, Stop, Crash, GetGrpcPeers, RegisterInstance, RegisterGrpc,
                RegisterResourcesInstance, Count, Uncount, ShutdownInstance, ShutdownGrpc,
                ShutdownResourcesInstance, BalanceCrash, BalanceDies, BalanceStart, RegisterUser,
                FirstServer, LoopOverServers, ServerInstanceLoadBalancer, RegisterUserInfo,
                ReadsFreedEntry, NoLock
  <2> QED
    BY <1>2, <2>1, <2>2
<1>3. CASE GatewayNext /\ UNCHANGED <<uploadVars, chatting>>
  <2>1. UNCHANGED <<registry, life, tokens, raced>>
    BY <1>3 DEF GatewayNext, HandleAccept, SendRequest, CheckTimeout, Handler, SendMailFails,
                ProcessRequest, WriteResponse, CheckAccountExists, PostRegistration,
                RegisterNewUser, GetUuid, ResetPassword, TryLogin, AddNewUserToServer, LoginAnswer,
                CheckKey, GenerateCode, GenerateEmail, SetValueExpiracy, CodeExpires
  <2>2. \/ UNCHANGED <<codes, mailed, generated>>
        \/ \E c \in Callers : GenerateCode(c) \/ GenerateEmail(c)
        \/ \E e \in Emails : SetValueExpiracy(e) \/ CodeExpires(e)
    BY <1>3 DEF GatewayNext, HandleAccept, SendRequest, CheckTimeout, Handler, SendMailFails,
                ProcessRequest, WriteResponse, CheckAccountExists, PostRegistration,
                RegisterNewUser, GetUuid, ResetPassword, TryLogin, LoginAnswer, CheckKey
  <2>3. held' = held \/ \E c \in Callers : WriteResponse(c)
    BY <1>3 DEF GatewayNext, HandleAccept, SendRequest, CheckTimeout, Handler, SendMailFails,
                ProcessRequest, CheckAccountExists, PostRegistration,
                RegisterNewUser, GetUuid, ResetPassword, TryLogin, LoginAnswer,
                CheckKey, GenerateCode, GenerateEmail, SetValueExpiracy, CodeExpires
  <2> QED
    BY <1>3, <2>1, <2>2, <2>3
<1>4. CASE UploadNext /\ UNCHANGED <<gatewayVars, chatting>>
  <2>1. UNCHANGED <<registry, life, tokens, raced>>
    BY <1>4 DEF UploadNext, Connect, StartFileTransmission, DataTransmissionStatus,
                SendLoginOrLogout, Disconnect, HandleMsgBody, Worker, HandlingFileUploading,
                HandlingLogin, HandlingLogout
  <2> QED
    BY <1>4, <2>1
<1>5. ASSUME NEW c \in Callers, HandlingLoginThere(c) \/ LeavesChatting(c)
      PROVE  UNCHANGED <<registry, life, tokens, raced, codes, mailed, generated>>
  BY <1>5 DEF HandlingLoginThere, LeavesChatting
<1> QED
  BY <1>1, <1>2, <1>3, <1>4, <1>5 DEF Next

\* The registry, and where the servers are.
LEMMA NextRegistry == CallsOK /\ RegistryOK /\ [Next]_vars => RegistryOK'
<1> SUFFICES ASSUME CallsOK, RegistryOK, [Next]_vars PROVE RegistryOK'
  OBVIOUS
<1> DEFINE Listed == /\ instances \subseteq Chatting \cup Resources
                     /\ grpcs \subseteq Chatting
                     /\ life \in [Chatting \cup Resources -> Lives]
                     /\ \A s \in Resources : life[s] \notin {"grpc", "leaveGrpc"}
                     /\ ~running => instances = {} /\ grpcs = {}
<1>1. Listed
  BY DEF RegistryOK
<1>2. raced' \subseteq Uuids
  <2>1. raced \subseteq Uuids
    BY DEF RegistryOK
  <2>2. ASSUME NEW c \in Callers, GetUserToken(c)
        PROVE  raced' \subseteq Uuids
    <3>1. call[c].uuid \in Uuids
      BY <2>2 DEF GetUserToken, CallsOK
    <3>2. raced' \subseteq raced \cup {call[c].uuid}
      BY <2>2 DEF GetUserToken
    <3> QED
      BY <2>1, <3>1, <3>2
  <2>3. raced' = raced \/ \E c \in Callers : GetUserToken(c)
    BY Framed
  <2> QED
    BY <2>1, <2>2, <2>3
<1>3. ASSUME UNCHANGED <<registry, life>>
      PROVE  Listed'
  BY <1>1, <1>3
<1>4. {"off", "register", "grpc", "count", "on", "uncount", "leave", "leaveGrpc"} = Lives
  BY DEF Lives
<1>5. ASSUME NEW s \in Chatting \cup Resources, NEW l \in Lives, SetLife(s, l),
             l \in {"grpc", "leaveGrpc"} => s \in Chatting
      PROVE  /\ life' \in [Chatting \cup Resources -> Lives]
             /\ \A r \in Resources : life'[r] \notin {"grpc", "leaveGrpc"}
  BY <1>1, <1>5, NamesAssumption DEF SetLife
<1>6. ASSUME NEW s \in Chatting \cup Resources, Start(s) \/ Life(s) \/ Stop(s) \/ Crash(s) \/ GetGrpcPeers(s)
      PROVE  Listed'
  <2>1. CASE RegisterInstance(s)
    BY <2>1, <1>1, <1>4, <1>5 DEF RegisterInstance, Accepted
  <2>2. CASE RegisterGrpc(s)
    BY <2>2, <1>1, <1>4, <1>5 DEF RegisterGrpc, Accepted
  <2>3. CASE RegisterResourcesInstance(s)
    BY <2>3, <1>1, <1>4, <1>5 DEF RegisterResourcesInstance, Accepted
  <2>4. CASE ShutdownInstance(s)
    BY <2>4, <1>1, <1>4, <1>5 DEF ShutdownInstance
  <2>5. CASE ShutdownGrpc(s) \/ ShutdownResourcesInstance(s)
    BY <2>5, <1>1, <1>4, <1>5 DEF ShutdownGrpc, ShutdownResourcesInstance
  <2>6. CASE Count(s) \/ Uncount(s) \/ Start(s) \/ Stop(s) \/ Crash(s) \/ GetGrpcPeers(s)
    BY <2>6, <1>1, <1>4, <1>5 DEF Count, Uncount, Start, Stop, Crash, GetGrpcPeers
  <2> QED
    BY <1>6, <2>1, <2>2, <2>3, <2>4, <2>5, <2>6 DEF Life
<1>7. ASSUME BalanceCrash \/ BalanceStart \/ \E c \in Callers : ReadsFreedEntry(c)
      PROVE  Listed'
  BY <1>7, <1>1 DEF BalanceCrash, BalanceStart, ReadsFreedEntry, BalanceDies
<1>8. ASSUME NEW c \in Callers, RegisterUser(c) \/ NoLock(c)
      PROVE  UNCHANGED <<registry, life>>
  BY <1>8 DEF RegisterUser, FirstServer, LoopOverServers, ServerInstanceLoadBalancer, GetUserToken,
              RegisterUserInfo, NoLock
<1> HIDE DEF Listed
<1>9. Listed'
  <2>1. UNCHANGED <<registry, life>> \/ BalanceNext
    BY Framed
  <2> QED
    BY <1>3, <1>6, <1>7, <1>8, <2>1 DEF BalanceNext
<1> QED
  BY <1>2, <1>9 DEF Listed, RegistryOK

-----------------------------------------------------------------------------
\* The tokens in calls.
LEMMA NextTokens ==
  CallsOK /\ HttpOK /\ AccountsOK /\ TokensOK /\ [Next]_vars =>
    /\ token' \in [Uuids -> 0..tokens']
    /\ \A c \in Callers : call'[c].token \in 0..tokens'
    /\ tokens <= tokens'
<1> SUFFICES ASSUME CallsOK, HttpOK, AccountsOK, TokensOK, [Next]_vars
             PROVE  /\ token' \in [Uuids -> 0..tokens']
                    /\ \A c \in Callers : call'[c].token \in 0..tokens'
                    /\ tokens <= tokens'
  OBVIOUS
<1> DEFINE Bounded == \A d \in Callers : call'[d].token \in 0..tokens
<1>0. /\ tokens \in Nat /\ call \in [Callers -> CallRec]
      /\ \A d \in Callers : call[d].token \in 0..tokens
      /\ token \in [Uuids -> 0..tokens] /\ 0 \in 0..tokens
  BY DEF CallsOK, TokensOK
<1>1. ASSUME NEW c \in Callers, NEW q, q.token \in 0..tokens, call' = [call EXCEPT ![c] = q]
      PROVE  Bounded
  BY <1>0, <1>1
<1>2. ASSUME NEW c \in Callers, NEW b, NEW t \in 0..tokens, call' = [call EXCEPT ![c] = Answer(c, b, t)]
      PROVE  Bounded
  <2>1. Answer(c, b, t).token = t
    BY <1>0 DEF Answer, CallRec
  <2> QED
    BY <1>1, <1>2, <2>1
<1>3. ASSUME Undisturbed \/ Stir
      PROVE  Bounded
  BY <1>0, <1>3, Stirs DEF Undisturbed
<1>4. ASSUME BalanceDies
      PROVE  Bounded
  <2>1. \A d \in Callers : Answer(d, FALSE, 0).token = 0
    BY <1>0 DEF Answer, CallRec
  <2> QED
    BY <1>0, <1>4, <2>1 DEF BalanceDies
<1>5. ASSUME NEW c \in Callers, Balancing(c)
      PROVE  Bounded
  <2>1. CASE call' = [call EXCEPT ![c] = Answer(c, FALSE, 0)]
    BY <1>0, <1>2, <2>1
  <2>2. ASSUME NEW s, NEW S,
               call' = [call EXCEPT ![c] = [@ EXCEPT !.step = "balance", !.min = s, !.quiet = TRUE,
                                                     !.start = S, !.visited = {s}]]
        PROVE  Bounded
    <3>1. PICK q : q = [call[c] EXCEPT !.step = "balance", !.min = s, !.quiet = TRUE,
                                       !.start = S, !.visited = {s}]
      OBVIOUS
    <3>2. q.token = call[c].token
      BY <3>1, <1>0 DEF CallRec
    <3>3. call' = [call EXCEPT ![c] = q]
      BY <2>2, <3>1, <1>0
    <3> QED
      BY <1>0, <1>1, <3>2, <3>3
  <2>3. ASSUME NEW S, NEW m, call' = [call EXCEPT ![c] = [call[c] EXCEPT !.visited = S, !.min = m]]
        PROVE  Bounded
    <3>1. [call[c] EXCEPT !.visited = S, !.min = m].token = call[c].token
      BY <1>0 DEF CallRec
    <3> QED
      BY <1>0, <1>1, <2>3, <3>1
  <2>4. CASE FirstServer(c)
    BY <2>4, <2>1, <2>2 DEF FirstServer
  <2>5. CASE LoopOverServers(c)
    <3>1. call[c] \in CallRec
      BY <1>0
    <3>2. PICK s \in (call[c].start \cup (instances \cap Chatting)) \ call[c].visited :
            \/ call' = [call EXCEPT ![c].visited = @ \cup {s},
                                    ![c].min = IF seen'[s] < seen[@] THEN s ELSE @]
            \/ call' = [call EXCEPT ![c].visited = @ \cup {s}]
      BY <2>5 DEF LoopOverServers
    <3> DEFINE m == IF seen'[s] < seen[call[c].min] THEN s ELSE call[c].min
               S == call[c].visited \cup {s}
    <3>3. CASE call' = [call EXCEPT ![c].visited = @ \cup {s},
                                    ![c].min = IF seen'[s] < seen[@] THEN s ELSE @]
      <4>1. call' = [call EXCEPT ![c] = [call[c] EXCEPT !.visited = S, !.min = m]]
        BY <3>1, <3>3, <1>0 DEF CallRec
      <4> HIDE DEF m, S
      <4> QED
        BY <4>1, <2>3
    <3>4. CASE call' = [call EXCEPT ![c].visited = @ \cup {s}]
      <4>1. call' = [call EXCEPT ![c] = [call[c] EXCEPT !.visited = S]]
        BY <3>1, <3>4, <1>0
      <4> HIDE DEF S
      <4>2. [call[c] EXCEPT !.visited = S].token = call[c].token
        BY <3>1 DEF CallRec
      <4> QED
        BY <1>0, <1>1, <4>1, <4>2
    <3> QED
      BY <3>2, <3>3, <3>4
  <2>6. CASE ServerInstanceLoadBalancer(c)
    <3>1. [call[c] EXCEPT !.step = "token"].token = call[c].token
      BY <1>0 DEF CallRec
    <3>2. call' = [call EXCEPT ![c] = [call[c] EXCEPT !.step = "token"]]
      BY <2>6, <1>0 DEF ServerInstanceLoadBalancer
    <3> QED
      BY <1>0, <1>1, <3>1, <3>2
  <2>7. CASE NoLock(c)
    BY <2>7, <2>1 DEF NoLock
  <2> QED
    BY <1>5, <2>4, <2>5, <2>6, <2>7 DEF Balancing
<1>6. ASSUME NEW c \in Callers, GetUserToken(c)
      PROVE  Bounded
  <2>1. CASE call' = [call EXCEPT ![c] = Answer(c, TRUE, token[call[c].uuid])]
    <3>1. token[call[c].uuid] \in 0..tokens
      BY <1>6, <1>0 DEF GetUserToken, CallsOK
    <3> QED
      BY <2>1, <3>1, <1>2
  <2>2. CASE call' = [call EXCEPT ![c].step = "register"]
    <3>1. [call[c] EXCEPT !.step = "register"].token = call[c].token
      BY <1>0 DEF CallRec
    <3>2. call' = [call EXCEPT ![c] = [call[c] EXCEPT !.step = "register"]]
      BY <2>2, <1>0
    <3> QED
      BY <1>0, <1>1, <3>1, <3>2
  <2> QED
    BY <1>6, <2>1, <2>2 DEF GetUserToken, CheckValue
<1>7. ASSUME NEW c \in Callers, TryLogin(c) \/ WriteResponse(c)
      PROVE  Bounded
  <2>1. CASE call' = call
    BY <1>0, <2>1
  <2>2. ASSUME NEW x, NEW st, call' = [call EXCEPT ![c] = [NoCall EXCEPT !.step = st, !.uuid = x]]
        PROVE  Bounded
    <3>1. [NoCall EXCEPT !.step = st, !.uuid = x].token = 0
      BY DEF NoCall
    <3> QED
      BY <1>0, <1>1, <2>2, <3>1
  <2>3. CASE call' = [call EXCEPT ![c] = NoCall]
    <3>1. NoCall.token = 0
      BY DEF NoCall
    <3> QED
      BY <1>0, <1>1, <2>3, <3>1
  <2> QED
    BY <1>7, <2>1, <2>2, <2>3 DEF TryLogin, AddNewUserToServer, WriteResponse
<1>8. ASSUME NEW c \in Callers, RegisterUserInfo(c)
      PROVE  /\ token' \in [Uuids -> 0..tokens']
             /\ \A d \in Callers : call'[d].token \in 0..tokens'
             /\ tokens <= tokens'
  <2>1. tokens' = tokens + 1 /\ token' = [token EXCEPT ![call[c].uuid] = tokens + 1]
        /\ call' = [call EXCEPT ![c] = Answer(c, TRUE, tokens + 1)]
    BY <1>8 DEF RegisterUserInfo, SetValue
  <2>2. Answer(c, TRUE, tokens + 1).token = tokens + 1
    BY <1>0 DEF Answer, CallRec
  <2>3. tokens + 1 \in 0..tokens' /\ 0..tokens \subseteq 0..tokens'
    BY <1>0, <2>1
  <2>4. \A d \in Callers : call'[d].token \in 0..tokens'
    BY <1>0, <2>1, <2>2, <2>3
  <2>5. token' \in [Uuids -> 0..tokens']
    <3>1. PICK A, B : A = 0..tokens /\ B = 0..tokens'
      OBVIOUS
    <3> QED
      BY <1>0, <2>1, <2>3, <3>1
  <2>6. tokens <= tokens'
    BY <1>0, <2>1
  <2> QED
    BY <2>4, <2>5, <2>6
<1> HIDE DEF Bounded
<1>9. CASE ~\E c \in Callers : RegisterUserInfo(c)
  <2>1. tokens' = tokens
    BY <1>9, Framed
  <2>2. token' = token
    BY <1>9, StepCases DEF Cases, GetUserToken, TryLogin, AddNewUserToServer, WriteResponse
  <2>3. Bounded
    BY <1>9, <1>3, <1>4, <1>5, <1>6, <1>7, StepCases DEF Cases
  <2> QED
    BY <2>1, <2>2, <2>3, <1>0 DEF Bounded
<1> QED
  BY <1>8, <1>9

\* The answers of login pages, and where their clients are logged in.
LEMMA NextHeld ==
  CallsOK /\ HttpOK /\ TokensOK /\ AccountsOK /\ [Next]_vars => TokensOK'
<1> SUFFICES ASSUME CallsOK, HttpOK, TokensOK, AccountsOK, [Next]_vars PROVE TokensOK'
  OBVIOUS
<1> DEFINE Answered(n) == [uuid : {0} \cup Uuids, token : 0..n, server : Chatting \cup {NoServer}]
<1>1. /\ token' \in [Uuids -> 0..tokens']
      /\ \A c \in Callers : call'[c].token \in 0..tokens'
      /\ tokens <= tokens' /\ tokens \in Nat /\ tokens' \in Nat
  BY NextTokens, NextCalls DEF CallsOK
<1>2. Answered(tokens) \subseteq Answered(tokens')
  <2>1. 0..tokens \subseteq 0..tokens'
    BY <1>1
  <2> QED
    BY <2>1
<1>3. held \in [Callers -> Answered(tokens)]
  BY DEF TokensOK
<1>4. Nothing \in Answered(tokens)
  BY <1>1 DEF Nothing
<1>5. chatting \in [Callers -> Chatting \cup {NoServer}]
  BY DEF TokensOK
<1>6. ASSUME NEW c \in Callers, HandlingLoginThere(c) \/ LeavesChatting(c)
      PROVE  /\ held' \in [Callers -> Answered(tokens)]
             /\ chatting' \in [Callers -> Chatting \cup {NoServer}]
  <2>1. held[c].server \in Chatting \cup {NoServer}
    BY <1>3
  <2>2. held' = held \/ held' = [held EXCEPT ![c] = Nothing]
    BY <1>6 DEF HandlingLoginThere, LeavesChatting
  <2>3. \/ chatting' = chatting \/ chatting' = [chatting EXCEPT ![c] = held[c].server]
        \/ chatting' = [chatting EXCEPT ![c] = NoServer]
    BY <1>6 DEF HandlingLoginThere, LeavesChatting
  <2> HIDE DEF Answered
  <2> QED
    BY <1>3, <1>4, <1>5, <2>1, <2>2, <2>3
<1>7. ASSUME NEW c \in Callers, WriteResponse(c)
      PROVE  held' \in [Callers -> Answered(tokens)]
  <2> DEFINE h == [uuid |-> http[c].uuid, token |-> call[c].token, server |-> call[c].min]
  <2>1. h \in Answered(tokens)
    BY DEF HttpOK, HttpRec, CallsOK, CallRec, TokensOK
  <2>2. held' = held \/ held' = [held EXCEPT ![c] = h]
    BY <1>7, <1>3 DEF WriteResponse
  <2> HIDE DEF Answered, h
  <2> QED
    BY <1>3, <2>1, <2>2
<1> HIDE DEF Answered
<1>8. /\ held' \in [Callers -> Answered(tokens)]
      /\ chatting' \in [Callers -> Chatting \cup {NoServer}]
  BY <1>3, <1>5, <1>6, <1>7, Framed
<1>9. held' \in [Callers -> Answered(tokens')]
  BY <1>2, <1>8
<1> QED
  BY <1>1, <1>8, <1>9 DEF Answered, TokensOK

-----------------------------------------------------------------------------
\* The code and the uuid of a connection: they stay, or a request starts anew, or
\* they are what was looked up.
Looked(c) == {0} \cup {GetUuidByName(http[c].name)}
Told(c) == {http[c].code, 0, generated'} \cup {mailed[e] : e \in Emails}
LEMMA HttpFields ==
  HttpOK /\ [Next]_vars =>
    \A d \in Callers : /\ http'[d].code \in Told(d)
                       /\ http'[d].uuid \in {http[d].uuid} \cup Looked(d)
<1> SUFFICES ASSUME HttpOK, [Next]_vars, NEW d \in Callers
             PROVE  /\ http'[d].code \in Told(d)
                    /\ http'[d].uuid \in {http[d].uuid} \cup Looked(d)
  OBVIOUS
<1>1. http \in [Callers -> HttpRec]
  BY DEF HttpOK
<1>2. CASE http'[d] = http[d]
  BY <1>2 DEF Told, Looked
<1>3. ASSUME NEW c \in Callers, NEW q, http' = [http EXCEPT ![c] = q],
             c = d => q.code \in Told(d) /\ q.uuid \in {http[d].uuid} \cup Looked(d)
      PROVE  /\ http'[d].code \in Told(d)
             /\ http'[d].uuid \in {http[d].uuid} \cup Looked(d)
  <2>1. CASE c # d
    BY <1>1, <1>2, <1>3, <2>1
  <2>2. CASE c = d
    BY <1>1, <1>3, <2>2
  <2> QED
    BY <2>1, <2>2
<1>4. \A h \in HttpRec : \A st, b : LET q == [h EXCEPT !.step = st]
                                        k == [h EXCEPT !.step = st, !.ok = b] IN
        q.code = h.code /\ q.uuid = h.uuid /\ k.code = h.code /\ k.uuid = h.uuid
  BY DEF HttpRec
<1>5. ASSUME NEW c \in Callers, NEW st, GoTo(c, st)
      PROVE  /\ http'[d].code \in Told(d)
             /\ http'[d].uuid \in {http[d].uuid} \cup Looked(d)
  <2>1. PICK q : q = [http[c] EXCEPT !.step = st]
    OBVIOUS
  <2>2. http' = [http EXCEPT ![c] = q]
    BY <1>1, <1>5, <2>1 DEF GoTo
  <2>3. q.code = http[c].code /\ q.uuid = http[c].uuid
    BY <1>1, <1>4, <2>1
  <2> QED
    BY <1>3, <2>2, <2>3 DEF Told, Looked
<1>6. ASSUME NEW c \in Callers, NEW b, Respond(c, b)
      PROVE  /\ http'[d].code \in Told(d)
             /\ http'[d].uuid \in {http[d].uuid} \cup Looked(d)
  <2>1. PICK q : q = [http[c] EXCEPT !.step = "answer", !.ok = b]
    OBVIOUS
  <2>2. http' = [http EXCEPT ![c] = q]
    BY <1>1, <1>6, <2>1 DEF Respond
  <2>3. q.code = http[c].code /\ q.uuid = http[c].uuid
    BY <1>1, <1>4, <2>1
  <2> QED
    BY <1>3, <2>2, <2>3 DEF Told, Looked
<1>7. ASSUME NEW c \in Callers, NEW q, http' = [http EXCEPT ![c] = q], q.code = 0, q.uuid = 0
      PROVE  /\ http'[d].code \in Told(d)
             /\ http'[d].uuid \in {http[d].uuid} \cup Looked(d)
  BY <1>3, <1>7 DEF Told, Looked
<1>8. ASSUME NEW c \in Callers, HandleAccept(c) \/ CheckTimeout(c) \/ WriteResponse(c)
      PROVE  /\ http'[d].code \in Told(d)
             /\ http'[d].uuid \in {http[d].uuid} \cup Looked(d)
  <2>1. LET q == [NoConnection EXCEPT !.step = "open", !.on = nextThread] IN
        q.code = 0 /\ q.uuid = 0 /\ NoConnection.code = 0 /\ NoConnection.uuid = 0
    BY DEF NoConnection
  <2> QED
    BY <1>7, <1>8, <2>1 DEF HandleAccept, CheckTimeout, WriteResponse
<1>9. ASSUME NEW c \in Callers, SendRequest(c)
      PROVE  /\ http'[d].code \in Told(d)
             /\ http'[d].uuid \in {http[d].uuid} \cup Looked(d)
  <2>1. ASSUME NEW q, http' = [http EXCEPT ![c] = q], q.uuid = http[c].uuid,
               \/ q.code \in {http[c].code, 0}
               \/ \E e \in Emails : q.code = mailed[e]
        PROVE  /\ http'[d].code \in Told(d)
               /\ http'[d].uuid \in {http[d].uuid} \cup Looked(d)
    BY <1>3, <2>1 DEF Told, Looked
  <2>3. http[c] \in HttpRec
    BY <1>1
  <2>4. ASSUME NEW p, NEW e,
               http' = [http EXCEPT ![c] = [@ EXCEPT !.step = "sent", !.path = p, !.email = e]]
        PROVE  /\ http'[d].code \in Told(d)
               /\ http'[d].uuid \in {http[d].uuid} \cup Looked(d)
    <3>1. PICK q : q = [http[c] EXCEPT !.step = "sent", !.path = p, !.email = e]
      OBVIOUS
    <3>2. http' = [http EXCEPT ![c] = q]
      BY <1>1, <2>4, <3>1
    <3>3. q.uuid = http[c].uuid /\ q.code = http[c].code
      BY <2>3, <3>1 DEF HttpRec
    <3> QED
      BY <2>1, <3>2, <3>3
  <2>5. ASSUME NEW p, NEW n, NEW e, NEW w,
               http' = [http EXCEPT ![c] = [@ EXCEPT !.step = "sent", !.path = p, !.name = n,
                                                     !.email = e, !.password = w]]
        PROVE  /\ http'[d].code \in Told(d)
               /\ http'[d].uuid \in {http[d].uuid} \cup Looked(d)
    <3>1. PICK q : q = [http[c] EXCEPT !.step = "sent", !.path = p, !.name = n, !.email = e, !.password = w]
      OBVIOUS
    <3>2. http' = [http EXCEPT ![c] = q]
      BY <1>1, <2>5, <3>1
    <3>3. q.uuid = http[c].uuid /\ q.code = http[c].code
      BY <2>3, <3>1 DEF HttpRec
    <3> QED
      BY <2>1, <3>2, <3>3
  <2>6. ASSUME NEW p, NEW n, NEW e \in Emails, NEW w, NEW k \in {0, mailed[e]},
               http' = [http EXCEPT ![c] = [@ EXCEPT !.step = "sent", !.path = p, !.name = n,
                                                     !.email = e, !.password = w, !.code = k]]
        PROVE  /\ http'[d].code \in Told(d)
               /\ http'[d].uuid \in {http[d].uuid} \cup Looked(d)
    <3>1. PICK q : q = [http[c] EXCEPT !.step = "sent", !.path = p, !.name = n, !.email = e, !.password = w,
                                     !.code = k]
      OBVIOUS
    <3>2. http' = [http EXCEPT ![c] = q]
      BY <1>1, <2>6, <3>1
    <3>3. q.uuid = http[c].uuid /\ q.code = k
      BY <2>3, <3>1 DEF HttpRec
    <3> QED
      BY <2>1, <2>6, <3>2, <3>3
  <2>7. ASSUME NEW p, NEW n, NEW w,
               http' = [http EXCEPT ![c] = [@ EXCEPT !.step = "sent", !.path = p, !.name = n,
                                                     !.password = w]]
        PROVE  /\ http'[d].code \in Told(d)
               /\ http'[d].uuid \in {http[d].uuid} \cup Looked(d)
    <3>1. PICK q : q = [http[c] EXCEPT !.step = "sent", !.path = p, !.name = n, !.password = w]
      OBVIOUS
    <3>2. http' = [http EXCEPT ![c] = q]
      BY <1>1, <2>7, <3>1
    <3>3. q.uuid = http[c].uuid /\ q.code = http[c].code
      BY <2>3, <3>1 DEF HttpRec
    <3> QED
      BY <2>1, <3>2, <3>3
  <2> QED
    <3>1. CASE GoTo(c, "sent")
      BY <1>5, <3>1
    <3>2. ASSUME NEW e \in Emails,
                 http' = [http EXCEPT ![c] = [@ EXCEPT !.step = "sent", !.path = "get_verification",
                                                       !.email = e]]
          PROVE  /\ http'[d].code \in Told(d)
                 /\ http'[d].uuid \in {http[d].uuid} \cup Looked(d)
      BY <2>4, <3>2
    <3>3. ASSUME NEW n \in Names, NEW e \in Emails, NEW p \in {"check_accountexists", "reset_password"},
                 http' = [http EXCEPT ![c] = [@ EXCEPT !.step = "sent", !.path = p, !.name = n,
                                                       !.email = e, !.password = c]]
          PROVE  /\ http'[d].code \in Told(d)
                 /\ http'[d].uuid \in {http[d].uuid} \cup Looked(d)
      BY <2>5, <3>3
    <3>4. ASSUME NEW n \in Names, NEW e \in Emails, NEW k \in {0, mailed[e]},
                 http' = [http EXCEPT ![c] = [@ EXCEPT !.step = "sent", !.path = "post_registration",
                                                       !.name = n, !.email = e, !.password = c,
                                                       !.code = k]]
          PROVE  /\ http'[d].code \in Told(d)
                 /\ http'[d].uuid \in {http[d].uuid} \cup Looked(d)
      BY <2>6, <3>4
    <3>5. ASSUME NEW n \in Names, NEW p \in Callers,
                 http' = [http EXCEPT ![c] = [@ EXCEPT !.step = "sent", !.path = "trylogin_server",
                                                       !.name = n, !.password = p]]
          PROVE  /\ http'[d].code \in Told(d)
                 /\ http'[d].uuid \in {http[d].uuid} \cup Looked(d)
      BY <2>7, <3>5
    <3> QED
      BY <1>9, <3>1, <3>2, <3>3, <3>4, <3>5 DEF SendRequest
<1>10. ASSUME NEW c \in Callers, GetUuid(c) \/ TryLogin(c)
       PROVE  /\ http'[d].code \in Told(d)
              /\ http'[d].uuid \in {http[d].uuid} \cup Looked(d)
  <2>1. ASSUME NEW st, NEW x, NEW b, x = GetUuidByName(http[c].name),
               \/ http' = [http EXCEPT ![c].step = st, ![c].uuid = x, ![c].ok = b]
               \/ http' = [http EXCEPT ![c].step = st, ![c].uuid = x]
        PROVE  /\ http'[d].code \in Told(d)
               /\ http'[d].uuid \in {http[d].uuid} \cup Looked(d)
    <3>1. PICK q : /\ q \in {[http[c] EXCEPT !.step = st, !.uuid = x, !.ok = b],
                             [http[c] EXCEPT !.step = st, !.uuid = x]}
                   /\ http' = [http EXCEPT ![c] = q]
      BY <1>1, <2>1
    <3>2. q.code = http[c].code /\ q.uuid = x
      BY <1>1, <3>1 DEF HttpRec
    <3>3. x = GetUuidByName(http[c].name)
      BY <2>1
    <3>4. c = d => q.code \in Told(d) /\ q.uuid \in {http[d].uuid} \cup Looked(d)
      BY <3>2, <3>3 DEF Told, Looked
    <3> QED
      BY <1>3, <3>1, <3>4
  <2> QED
    BY <1>6, <1>10, <2>1 DEF GetUuid, TryLogin
<1>11. ASSUME NEW c \in Callers, GenerateCode(c)
       PROVE  /\ http'[d].code \in Told(d)
              /\ http'[d].uuid \in {http[d].uuid} \cup Looked(d)
  <2>1. PICK q : q = [http[c] EXCEPT !.step = "mail", !.code = generated']
    OBVIOUS
  <2>2. http' = [http EXCEPT ![c] = q]
    BY <1>1, <1>11, <2>1 DEF GenerateCode
  <2>3. q.code = generated' /\ q.uuid = http[c].uuid
    BY <1>1, <2>1 DEF HttpRec
  <2> QED
    BY <1>3, <2>2, <2>3 DEF Told, Looked
<1>12. ASSUME NEW c \in Callers, SendMailFails(c)
       PROVE  /\ http'[d].code \in Told(d)
              /\ http'[d].uuid \in {http[d].uuid} \cup Looked(d)
  <2>1. http'[d] \in {http[d], [http[d] EXCEPT !.step = "answer", !.ok = FALSE]}
    BY <1>12 DEF SendMailFails
  <2>2. http'[d].code = http[d].code /\ http'[d].uuid = http[d].uuid
    <3>1. http[d] \in HttpRec
      BY <1>1
    <3> QED
      BY <2>1, <3>1 DEF HttpRec
  <2> QED
    BY <2>2 DEF Told, Looked
<1>13. ASSUME NEW c \in Callers,
              \/ ProcessRequest(c) \/ CheckAccountExists(c) \/ PostRegistration(c)
              \/ RegisterNewUser(c) \/ ResetPassword(c) \/ LoginAnswer(c) \/ CheckKey(c)
              \/ GenerateEmail(c)
       PROVE  /\ http'[d].code \in Told(d)
              /\ http'[d].uuid \in {http[d].uuid} \cup Looked(d)
  <2>1. \/ \E st : GoTo(c, st)
        \/ \E b : Respond(c, b)
    BY <1>13 DEF ProcessRequest, CheckAccountExists, PostRegistration, RegisterNewUser,
                 ResetPassword, LoginAnswer, CheckKey, GenerateEmail
  <2> QED
    BY <1>5, <1>6, <2>1
<1> QED
  BY <1>2, <1>8, <1>9, <1>10, <1>11, <1>12, <1>13, HttpCases DEF HttpStep, GatewaySame

\* No code is beyond the last one generated.
LEMMA NextCodes == HttpOK /\ CodesOK /\ [Next]_vars => CodesOK'
<1> SUFFICES ASSUME HttpOK, CodesOK, [Next]_vars PROVE CodesOK'
  OBVIOUS
<1> DEFINE Code(n) == [code : 0..n, ttl : BOOLEAN]
<1>1. /\ generated \in Nat /\ mailed \in [Emails -> 0..generated]
      /\ \A c \in Callers : http[c].code \in 0..generated
      /\ codes \in [Emails -> Code(generated)]
  BY DEF HttpOK, CodesOK
<1>2. ASSUME generated' \in Nat, generated <= generated'
      PROVE  /\ \A c \in Callers : http'[c].code \in 0..generated'
             /\ codes \in [Emails -> Code(generated')]
             /\ mailed \in [Emails -> 0..generated']
  <2>1. 0..generated \subseteq 0..generated' /\ {0, generated'} \subseteq 0..generated'
    BY <1>1, <1>2
  <2>2. \A c \in Callers : Told(c) \subseteq 0..generated'
    BY <1>1, <2>1 DEF Told
  <2>3. \A c \in Callers : http'[c].code \in Told(c)
    BY HttpFields
  <2>4. Code(generated) \subseteq Code(generated')
    BY <2>1
  <2> HIDE DEF Code
  <2>5. \A c \in Callers : http'[c].code \in 0..generated'
    BY <2>2, <2>3
  <2>6. codes \in [Emails -> Code(generated')]
    BY <1>1, <2>4
  <2>7. mailed \in [Emails -> 0..generated']
    <3>1. PICK A, B : A = 0..generated /\ B = 0..generated'
      OBVIOUS
    <3> QED
      BY <1>1, <2>1, <3>1
  <2> QED
    BY <2>5, <2>6, <2>7
<1>3. ASSUME NEW c \in Callers, GenerateCode(c)
      PROVE  /\ generated' \in Nat /\ generated <= generated'
             /\ codes' \in [Emails -> Code(generated')] /\ mailed' = mailed
  <2>1. generated' = generated + 1 /\ mailed' = mailed
    BY <1>3 DEF GenerateCode
  <2>2. generated' \in Nat /\ generated <= generated'
    BY <1>1, <2>1
  <2>3. [code |-> generated', ttl |-> FALSE] \in Code(generated')
    BY <2>2
  <2>4. codes \in [Emails -> Code(generated')]
    BY <1>2, <2>2
  <2>5. codes' = [codes EXCEPT ![http[c].email] = [code |-> generated', ttl |-> FALSE]]
    BY <1>3 DEF GenerateCode
  <2> HIDE DEF Code
  <2>6. codes' \in [Emails -> Code(generated')]
    BY <2>3, <2>4, <2>5
  <2> QED
    BY <2>1, <2>2, <2>6
<1>4. ASSUME NEW c \in Callers, GenerateEmail(c)
      PROVE  UNCHANGED <<codes, generated>> /\ mailed' \in [Emails -> 0..generated]
  <2>1. UNCHANGED <<codes, generated>> /\ mailed' = [mailed EXCEPT ![http[c].email] = http[c].code]
    BY <1>4 DEF GenerateEmail
  <2> QED
    BY <1>1, <2>1
<1>5. ASSUME NEW e \in Emails, SetValueExpiracy(e) \/ CodeExpires(e)
      PROVE  UNCHANGED <<mailed, generated>> /\ codes' \in [Emails -> Code(generated)]
  <2>1. \A k \in Code(generated) : [k EXCEPT !.ttl = TRUE] \in Code(generated)
    OBVIOUS
  <2>2. [code |-> 0, ttl |-> FALSE] \in Code(generated)
    BY <1>1
  <2>3. PICK q \in Code(generated) : codes' = [codes EXCEPT ![e] = q]
    BY <1>1, <1>5, <2>1, <2>2 DEF SetValueExpiracy, CodeExpires
  <2>4. UNCHANGED <<mailed, generated>>
    BY <1>5 DEF SetValueExpiracy, CodeExpires
  <2> HIDE DEF Code
  <2> QED
    BY <1>1, <2>3, <2>4
<1>6. /\ generated' \in Nat /\ generated <= generated'
      /\ codes' \in [Emails -> Code(generated')]
      /\ mailed' \in [Emails -> 0..generated']
  <2>1. CASE UNCHANGED <<codes, mailed, generated>>
    BY <1>1, <2>1
  <2>2. ASSUME NEW c \in Callers, GenerateCode(c) PROVE <1>6!:
    BY <1>2, <1>3, <2>2
  <2>3. ASSUME NEW c \in Callers, GenerateEmail(c) PROVE <1>6!:
    BY <1>1, <1>4, <2>3
  <2>4. ASSUME NEW e \in Emails, SetValueExpiracy(e) \/ CodeExpires(e) PROVE <1>6!:
    BY <1>1, <1>5, <2>4
  <2> QED
    BY <2>1, <2>2, <2>3, <2>4, Framed
<1> QED
  BY <1>2, <1>6 DEF CodesOK

\* A uuid that was looked up is that of an account, and accounts stay.
LEMMA NextUuids ==
  AccountsOK /\ HttpOK /\ PathInv /\ KnownUuids /\ [Next]_vars => KnownUuids'
<1> SUFFICES ASSUME AccountsOK, HttpOK, PathInv, KnownUuids, [Next]_vars PROVE KnownUuids'
  OBVIOUS
<1>1. \A n : GetUuidByName(n) \in {0} \cup DOMAIN accounts
  BY DEF GetUuidByName
<1>2. DOMAIN accounts \subseteq DOMAIN accounts'
  <2>1. ASSUME NEW c \in Callers, RegisterNewUser(c)
        PROVE  DOMAIN accounts \subseteq DOMAIN accounts'
    <3>1. http[c].name \in Names /\ http[c].email \in Emails /\ http[c].password \in Callers
      BY <2>1 DEF RegisterNewUser, At, PathInv, PathOK
    <3>2. [name |-> http[c].name, email |-> http[c].email, password |-> http[c].password]
            \in AccountRec
      BY <3>1 DEF AccountRec
    <3>3. PICK r \in AccountRec : accounts' \in {accounts, Append(accounts, r)}
      BY <2>1, <3>2 DEF RegisterNewUser, CreateNewUser
    <3>4. accounts \in Seq(AccountRec)
      BY DEF AccountsOK
    <3> QED
      BY <3>3, <3>4, AppendIs
  <2>2. ASSUME NEW c \in Callers, ResetPassword(c)
        PROVE  DOMAIN accounts \subseteq DOMAIN accounts'
    BY <2>2 DEF ResetPassword, UpdateUserPasswd
  <2> QED
    BY <2>1, <2>2, HttpCases
    DEF HttpStep, GatewaySame,
        HandleAccept, SendRequest, CheckTimeout, SendMailFails, ProcessRequest, WriteResponse,
        CheckAccountExists, PostRegistration, GetUuid, TryLogin, LoginAnswer, CheckKey,
        GenerateCode, GenerateEmail
<1>3. \A c \in Callers : http'[c].uuid \in {http[c].uuid} \cup Looked(c)
  BY HttpFields
<1>4. \A c \in Callers : {http[c].uuid} \cup Looked(c) \subseteq {0} \cup DOMAIN accounts
  BY <1>1 DEF Looked, KnownUuids
<1> QED
  BY <1>2, <1>3, <1>4 DEF KnownUuids

\* The types at the start.
TypesOK == RegistryOK /\ TokensOK /\ CodesOK /\ KnownUuids
LEMMA TypesStart == Init => TypesOK
<1> SUFFICES ASSUME Init PROVE TypesOK
  OBVIOUS
<1>1. PICK up \in Up : BalanceInit(up)
  BY DEF Init
<1>2. PICK table \in Tables : GatewayInit(table)
  BY DEF Init
<1>3. RegistryOK
  <2>1. up \subseteq Chatting \cup Resources
    BY UpAssumption
  <2>2. {"on", "off"} \subseteq Lives
    BY DEF Lives
  <2> QED
    BY <1>1, <2>1, <2>2 DEF BalanceInit, RegistryOK
<1>4. TokensOK
  <2>1. 0 \in 0..0
    OBVIOUS
  <2>2. NoCall.token = 0
    BY DEF NoCall
  <2>3. /\ tokens = 0 /\ token = [x \in Uuids |-> 0] /\ call = [c \in Callers |-> NoCall]
        /\ held = [c \in Callers |-> Nothing] /\ chatting = [c \in Callers |-> NoServer]
    BY <1>1, <1>2 DEF BalanceInit, GatewayInit, Init
  <2>4. Nothing \in [uuid : {0} \cup Uuids, token : 0..0, server : Chatting \cup {NoServer}]
    BY <2>1 DEF Nothing
  <2> QED
    BY <2>1, <2>2, <2>3, <2>4 DEF TokensOK
<1>5. CodesOK /\ KnownUuids
  <2>1. NoConnection.code = 0 /\ NoConnection.uuid = 0
    BY DEF NoConnection
  <2> QED
    BY <1>2, <2>1 DEF GatewayInit, CodesOK, KnownUuids
<1> QED
  BY <1>3, <1>4, <1>5 DEF TypesOK

\* Every variable of the servers behind a login has its type, uploads included
\* (UploadInv): the balance server lists only servers, only chatting servers have
\* peers, no token or code is beyond the last one generated, names and e-mails of
\* accounts differ, and what a client is answered is the uuid of an account.
THEOREM BackendTypes == Spec => []TypeOK
<1>1. Init => IInv /\ TypesOK
  BY Starts, TypesStart
<1>2. IInv /\ TypesOK /\ [Next]_vars => (IInv /\ TypesOK)'
  BY NextCalls, NextPath, NextHttp, NextAccounts, NextBalanced, NextToken,
     NextRegistry, NextHeld, NextCodes, NextUuids DEF IInv, TypesOK
<1>3. Spec => [](IInv /\ TypesOK)
  BY <1>1, <1>2, PTL DEF Spec
<1>4. IInv /\ TypesOK => BalanceTypeOK
  BY DEF IInv, TypesOK, RegistryOK, TokensOK, CallsOK, CallRec, BalanceTypeOK
<1>5. IInv /\ TypesOK => GatewayTypeOK
  <2> SUFFICES ASSUME IInv, TypesOK PROVE GatewayTypeOK
    OBVIOUS
  <2>1. /\ \A i \in DOMAIN accounts :
             accounts[i] \in [name : Names, email : Emails, password : Callers]
        /\ \A i, k \in DOMAIN accounts : i # k => /\ accounts[i].name # accounts[k].name
                                                  /\ accounts[i].email # accounts[k].email
    <3>1. AccountsOK
      BY DEF IInv
    <3>2. accounts \in Seq(AccountRec)
      BY <3>1 DEF AccountsOK
    <3>3. \A i \in DOMAIN accounts : accounts[i] \in AccountRec
      BY <3>2
    <3>4. \A i, k \in DOMAIN accounts :
            (accounts[i].name = accounts[k].name => i = k)
              /\ (accounts[i].email = accounts[k].email => i = k)
      BY <3>1 DEF AccountsOK
    <3> QED
      BY <3>3, <3>4 DEF AccountRec
  <2>2. /\ nextThread \in IoThreads
        /\ \A c \in Callers : /\ http[c].step \in Steps
                              /\ http[c].path \in Paths
                              /\ http[c].on \in IoThreads \cup {NoThread}
    BY DEF IInv, HttpOK, HttpRec
  <2> QED
    BY <2>1, <2>2 DEF TypesOK, CodesOK, TokensOK, KnownUuids, GatewayTypeOK
<1>6. UploadInv /\ IInv /\ TypesOK => TypeOK
  BY <1>4, <1>5 DEF UploadInv, TypesOK, TokensOK, TypeOK
<1> QED
  BY <1>3, <1>6, Uploaded, PTL
=============================================================================
