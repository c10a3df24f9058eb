------------------------------ MODULE Uploads ------------------------------
(* Uploads to a resources server: the transfer thread of the client         *)
(* (filetransferthread.cpp, filetransferdialog.cpp), the session and the    *)
(* worker of the server (Session.cpp, SyncLogic.cpp of resources-server),   *)
(* and the files under its output path.  The client sends a block when the  *)
(* one before it was answered.  A file has Blocks blocks of one size.       *)
EXTENDS Balance, Sequences

CONSTANTS
  Files,      \* file names
  Blocks,     \* m_totalBlocks
  QueueSize   \* ResourceQueueSize

ASSUME BlocksAssumption == Blocks \in Nat \ {0} /\ QueueSize \in Nat

VARIABLES
  conn,       \* the resources server a client is connected to
  upload,     \* FileTransferThread of each client
  toServer, toClient,   \* the two directions of the connection
  queue,      \* m_queue of each server
  disk,       \* the files of each server, block by block; history: by whose uploads
  route,      \* Redis: uuid_<U>, as far as resources servers write it
  uploads     \* the number of uploads begun

uploadVars == <<conn, upload, toServer, toClient, queue, disk, route, uploads>>
server == <<queue, disk, route>>

NoUpload == [file |-> "", seq |-> 0, pos |-> 0, isOpen |-> FALSE, id |-> 0, alone |-> FALSE]

\* A message to a server: a request and, for a block, the file, the m_curSeq it
\* carries, which block of the file it is, the upload, and whether the upload
\* began with no answer to an earlier one to come.
Message(type, x) == [type |-> type, uuid |-> x, file |-> "", seq |-> 0, pos |-> 0, id |-> 0,
                     alone |-> FALSE]

\* The members of FileTransferThread, requests and answers; no file is "".  
FileNames == Files \cup {""}
Transfers == [file : FileNames, seq : 0..Blocks, pos : 0..Blocks, isOpen : BOOLEAN, id : Nat,
              alone : BOOLEAN]
Messages == [type : {"upload", "login", "logout"}, uuid : Uuids \cup {0}, file : FileNames,
             seq : 0..Blocks, pos : 0..Blocks, id : Nat, alone : BOOLEAN]
Responses == [ok : BOOLEAN, seq : 0..Blocks, file : FileNames, id : Nat, alone : BOOLEAN]

\* A request in a queue, and whether its session is still there.
Entries == [client : Callers, open : BOOLEAN, msg : Messages]

UploadTypeOK ==
  /\ conn \in [Callers -> Resources \cup {NoServer}]
  /\ upload \in [Callers -> Transfers]
  /\ toServer \in [Callers -> Seq(Messages)]
  /\ toClient \in [Callers -> Seq(Responses)]
  /\ \A c \in Callers : conn[c] = NoServer => toServer[c] = <<>> /\ toClient[c] = <<>>
  /\ queue \in [Resources -> Seq(Entries)]
  /\ \A r \in Resources : Len(queue[r]) <= QueueSize + 1
  /\ disk \in [Resources -> [Files -> [blocks : Seq(1..Blocks), by : SUBSET Nat]]]
  /\ route \in [Uuids -> Resources \cup {NoServer}]
  /\ uploads \in Nat

\* The clients in connected are connected to a server.
UploadInit(connected) ==
  /\ conn = connected
  /\ upload = [c \in Callers |-> NoUpload]
  /\ toServer = [c \in Callers |-> <<>>]
  /\ toClient = [c \in Callers |-> <<>>]
  /\ queue = [r \in Resources |-> <<>>]
  /\ disk = [r \in Resources |-> [f \in Files |-> [blocks |-> <<>>, by |-> {}]]]
  /\ route = [x \in Uuids |-> NoServer]
  /\ uploads = 0

-----------------------------------------------------------------------------
(* The client                                                              *)

\* on_connect_server_clicked, slot_connect2_resources_server.
Connect(c) ==
  \E r \in Resources :
    /\ Request("upload")
    /\ conn[c] = NoServer
    /\ life[r] = "on"
    /\ conn' = [conn EXCEPT ![c] = r]
    /\ UNCHANGED <<registry, seen, redis, users, life, call, upload, toServer, toClient,
                   server, uploads>>

\* slot_send_next_block with the thread's members at u: the next bytes of the file
\* with the number m_curSeq, which is not always theirs; or the file is closed.
SendNextBlock(c, u) ==
  IF u.seq > Blocks \/ ~u.isOpen \/ u.pos = Blocks
  THEN /\ upload' = [upload EXCEPT ![c] = [u EXCEPT !.isOpen = FALSE]]
       /\ UNCHANGED toServer
  ELSE /\ upload' = [upload EXCEPT ![c] = [u EXCEPT !.pos = @ + 1]]
       /\ toServer' = [toServer EXCEPT ![c] = Append(@,
            [Message("upload", 0) EXCEPT !.file = u.file, !.seq = u.seq, !.pos = u.pos + 1,
                                         !.id = u.id, !.alone = u.alone])]

\* Blocks of c that are not answered yet.
Outstanding(c) ==
  \/ toServer[c] # <<>> \/ toClient[c] # <<>>
  \/ \E r \in Resources : \E i \in DOMAIN queue[r] : queue[r][i].client = c

\* on_send_button_clicked, slot_start_file_transmission.  Choosing a file enables
\* the button again, so this may come in the middle of an upload.
StartFileTransmission(c) ==
  \E f \in Files :
    /\ Request("upload")
    /\ conn[c] # NoServer
    /\ uploads' = uploads + 1
    /\ SendNextBlock(c, [file |-> f, seq |-> 1, pos |-> 0, isOpen |-> TRUE, id |-> uploads + 1,
                         alone |-> ~Outstanding(c)])
    /\ UNCHANGED <<registry, seen, redis, users, life, call, conn, toClient, server>>

\* The answer to a block, of whatever upload: the next number is counted from it.
\* An answer with an error is only logged.
DataTransmissionStatus(c) ==
  /\ toClient[c] # <<>>
  /\ toClient' = [toClient EXCEPT ![c] = Tail(@)]
  /\ LET a == Head(toClient[c]) IN
     IF ~a.ok THEN UNCHANGED <<upload, toServer>>
     ELSE IF a.seq = Blocks
     THEN upload' = [upload EXCEPT ![c].isOpen = FALSE] /\ UNCHANGED toServer
     ELSE SendNextBlock(c, [upload[c] EXCEPT !.seq = a.seq + 1])
  /\ UNCHANGED <<balanceVars, conn, server, uploads>>

\* The protocol's login and logout, which this client does not send here.
SendLoginOrLogout(c) ==
  \E x \in Uuids, t \in {"login", "logout"} :
    /\ Request("upload")
    /\ conn[c] # NoServer
    /\ toServer' = [toServer EXCEPT ![c] = Append(@, Message(t, x))]
    /\ UNCHANGED <<registry, seen, redis, users, life, call, conn, upload, toClient,
                   server, uploads>>

\* The connection breaks; the server's purge finds nobody registered.
Disconnect(c) ==
  /\ Fault("crash")
  /\ conn[c] # NoServer
  /\ conn' = [conn EXCEPT ![c] = NoServer]
  /\ toServer' = [toServer EXCEPT ![c] = <<>>]
  /\ toClient' = [toClient EXCEPT ![c] = <<>>]
  /\ queue' = [r \in Resources |-> [i \in DOMAIN queue[r] |->
                [queue[r][i] EXCEPT !.open = @ /\ queue[r][i].client # c]]]
  /\ UNCHANGED <<registry, seen, redis, users, life, call, upload, disk, route, uploads>>

-----------------------------------------------------------------------------
(* The server                                                              *)

\* Variant of the code that the properties below reject: the queue is not bounded.
Commit_Unbounded(r, m) == queue' = [queue EXCEPT ![r] = Append(@, m)]

\* commit: one more than the queue's size, and what comes then is dropped.
Commit(r, m) == queue' = [queue EXCEPT ![r] = IF Len(@) > QueueSize THEN @ ELSE Append(@, m)]

\* handle_header, handle_msgbody.
HandleMsgBody(c) ==
  /\ toServer[c] # <<>>
  /\ conn[c] # NoServer
  /\ Commit(conn[c], [client |-> c, open |-> TRUE, msg |-> Head(toServer[c])])
  /\ toServer' = [toServer EXCEPT ![c] = Tail(@)]
  /\ UNCHANGED <<balanceVars, conn, upload, toClient, disk, route, uploads>>

\* sendMessage to the session of a request, which may have gone.
SendMessage(e, a) ==
  toClient' = IF e.open THEN [toClient EXCEPT ![e.client] = Append(@, a)] ELSE toClient

Pop(r) == queue' = [queue EXCEPT ![r] = Tail(@)]
Next1(r, type) == queue[r] # <<>> /\ Head(queue[r]).msg.type = type

\* The block is written to the file, the first one to an empty file.
WriteBlock(r, m) ==
  disk' = [disk EXCEPT ![r][m.file] =
             IF m.seq = 1 THEN [blocks |-> <<m.pos>>, by |-> {m.id}]
             ELSE [blocks |-> Append(@.blocks, m.pos), by |-> @.by \cup {m.id}]]

\* A write error leaves a first block's file empty.
FailToWrite(r, m) ==
  \/ UNCHANGED disk
  \/ m.seq = 1 /\ disk' = [disk EXCEPT ![r][m.file] = [blocks |-> <<>>, by |-> {m.id}]]

\* Variant of the code that the properties below reject: a failing write is not
\* looked at.
HandlingFileUploading_Unchecked(r) ==
  /\ Next1(r, "upload")
  /\ LET m == Head(queue[r]).msg IN
     /\ SendMessage(Head(queue[r]), [ok |-> TRUE, seq |-> m.seq, file |-> m.file,
                                     id |-> m.id, alone |-> m.alone])
     /\ \/ WriteBlock(r, m) /\ UNCHANGED budget
        \/ Fault("failure") /\ FailToWrite(r, m)
  /\ Pop(r)
  /\ UNCHANGED <<registry, seen, redis, users, life, call, conn, upload, toServer, route,
                 uploads>>

HandlingFileUploading(r) ==
  /\ Next1(r, "upload")
  /\ LET m == Head(queue[r]).msg
         Response(ok) == SendMessage(Head(queue[r]),
           [ok |-> ok, seq |-> m.seq, file |-> m.file, id |-> m.id, alone |-> m.alone]) IN
     \/ WriteBlock(r, m) /\ Response(TRUE) /\ UNCHANGED budget
     \/ Fault("failure") /\ FailToWrite(r, m) /\ Response(FALSE)
  /\ Pop(r)
  /\ UNCHANGED <<registry, seen, redis, users, life, call, conn, upload, toServer, route,
                 uploads>>

\* HGET and HSET without the lock; std::size_t goes from 0 to its greatest value,
\* and a field that is missing counts as 0.
IncrementConnection(r) ==
  SetValue2Hash(r, IF GetValueFromHash(r) = Missing THEN 1 ELSE GetValueFromHash(r) + 1)
DecrementConnection(r) ==
  SetValue2Hash(r, IF GetValueFromHash(r) \in {0, Missing} THEN Missing ELSE GetValueFromHash(r) - 1)

TagCurrentUser(r, x) == route' = [route EXCEPT ![x] = r]

\* Nobody asks for a token.  The answer has no "error", and the client drops it.
HandlingLogin(r) ==
  /\ Next1(r, "login")
  /\ IncrementConnection(r)
  /\ TagCurrentUser(r, Head(queue[r]).msg.uuid)
  /\ Pop(r)
  /\ UNCHANGED <<registry, seen, token, tokens, raced, life, call, budget, conn, upload, toServer,
                 toClient, disk, uploads>>

\* The session never had a uuid: s_uuid is empty, and no key is deleted.
HandlingLogout(r) ==
  /\ Next1(r, "logout")
  /\ DecrementConnection(r)
  /\ Pop(r)
  /\ UNCHANGED <<registry, seen, token, tokens, raced, life, call, budget, conn, upload, toServer,
                 toClient, disk, route, uploads>>

\* The process of a server ends: its connections and its queue are gone.
Ends(r) == life[r] # "off" /\ life'[r] = "off"
ServersEnd ==
  LET Lost(c) == conn[c] # NoServer /\ Ends(conn[c]) IN
  /\ queue' = [r \in Resources |-> IF Ends(r) THEN <<>> ELSE queue[r]]
  /\ conn' = [c \in Callers |-> IF Lost(c) THEN NoServer ELSE conn[c]]
  /\ toServer' = [c \in Callers |-> IF Lost(c) THEN <<>> ELSE toServer[c]]
  /\ toClient' = [c \in Callers |-> IF Lost(c) THEN <<>> ELSE toClient[c]]
  /\ UNCHANGED <<upload, disk, route, uploads>>

-----------------------------------------------------------------------------
Worker(r) == HandlingFileUploading(r) \/ HandlingLogin(r) \/ HandlingLogout(r)

UploadNext ==
  \/ \E c \in Callers :
       Connect(c) \/ StartFileTransmission(c) \/ DataTransmissionStatus(c)
       \/ SendLoginOrLogout(c) \/ Disconnect(c) \/ HandleMsgBody(c)
  \/ \E r \in Resources : Worker(r)

\* A client that is answered success for the last block of its file has the whole
\* file on the server, its blocks in their order (handlingFileUploading, trunc and
\* app; slot_send_next_block), if no other upload wrote to the name, and the
\* upload did not begin with an answer to an earlier one to come.
UploadedWhole ==
  \A r \in Resources, c \in Callers : \A i \in DOMAIN toClient[c] :
    LET a == toClient[c][i] IN
    /\ conn[c] = r
    /\ a.ok /\ a.seq = Blocks /\ a.alone
    /\ disk[r][a.file].by = {a.id}
    => disk[r][a.file].blocks = [k \in 1..Blocks |-> k]
=============================================================================
