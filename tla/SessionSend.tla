---------------------------- MODULE SessionSend ----------------------------
(***************************************************************************)
(* The sending half of one TCP session of the chatting server              *)
(* (chatting-server/src/Session.cpp) with the deferred termination that     *)
(* UserManager.cpp arms on it.                                             *)
(*                                                                         *)
(* sendMessage may run on any thread (the SyncLogic worker, a gRPC handler, *)
(* the heart beat timer); the completion handler handle_write and the read *)
(* errors run on the one thread of the session's io_context.  An action is *)
(* one atomic access: a push or pop of the tbb queue, a load, store or CAS *)
(* of an atomic, the start or the completion of an async_write.            *)
(***************************************************************************)
EXTENDS Naturals, Sequences, SequencesExt

CONSTANTS Threads,   \* the threads that send on, or terminate, this session
          IO,        \* the thread that runs the session's io_context
          MaxMsgs    \* bound: messages ever pushed

ASSUME IOIsNoSender == IO \notin Threads
ASSUME MaxMsgsNat == MaxMsgs \in Nat

Actors == Threads \cup {IO}
Msg == 1..MaxMsgs         \* a message is named by its place in the push order
NoMsg == 0

VARIABLES
  queue,       \* m_concurrent_sent_queue
  writing,     \* m_write_in_progress
  cur,         \* m_current_write_msg, the buffer async_write reads from
  state,       \* m_state
  handler,     \* m_finalSendCompleteHandler is set
  socketOpen,  \* s_socket.is_open()
  reading,     \* an async_read of the session is armed
  registered,  \* the session is in UserManager::m_uuid2Session
  waiting,     \* the session is in UserManager::m_waitingToBeClosed
  outstanding, \* the messages of the async_writes not yet completed
  pc,          \* where each thread stands
  goal,        \* why each thread called sendMessage
  pushed,      \* history: messages pushed so far
  wire,        \* history: messages transmitted, in order
  failed,      \* history: messages whose async_write completed with an error
  dropped,     \* history: messages popped and discarded
  due          \* history: messages pushed when termination was first requested

sendVars == <<queue, writing, cur, outstanding>>
termVars == <<state, handler, socketOpen, registered, waiting>>
histVars == <<pushed, wire, failed, dropped, due>>
vars == <<sendVars, termVars, histVars, reading, pc, goal>>

\* The places of a thread that holds m_write_in_progress.
OwnerPlaces ==
  {"pop", "check", "handler", "close", "erase", "reset", "write", "clear"}
Places == OwnerPlaces \cup {"idle", "cas", "move", "mark", "arm"}

\* A plain send; logout, kick or heart beat expiry; ForceTerminateLoginedUser.
Goals == {"reply", "terminate", "force"}

\* m_uuid2Session and m_waitingToBeClosed are one entry each here: the accessor
\* of removeUsrSession locks the waiting entry until the handler is armed.
ZoneUnlocked == \A t \in Actors : pc[t] # "arm"

Owns(t) == pc[t] \in OwnerPlaces
Goto(t, p) == pc' = [pc EXCEPT ![t] = p]

\* Where a thread goes on when sendMessage (or handle_write) returns.
After(t) ==
  IF t = IO THEN "idle"
  ELSE CASE goal[t] = "reply" -> "idle"
         [] goal[t] = "terminate" -> "move"
         [] goal[t] = "force" -> "mark"

Init ==
  /\ queue = <<>>
  /\ writing = FALSE
  /\ cur = NoMsg
  /\ outstanding = {}
  /\ state = "Alive"
  /\ handler = FALSE
  /\ socketOpen = TRUE
  /\ reading = TRUE
  /\ registered = TRUE
  /\ waiting = FALSE
  /\ pc = [t \in Actors |-> "idle"]
  /\ goal = [t \in Threads |-> "reply"]
  /\ pushed = 0
  /\ wire = <<>>
  /\ failed = {}
  /\ dropped = {}
  /\ due = 0

-----------------------------------------------------------------------------
(* Variants of the code that the properties below reject.                  *)

\* The flag is tested and not taken.
BeginWrite_TestOnly(t) ==
  /\ pc[t] = "cas"
  /\ Goto(t, IF writing THEN After(t) ELSE "pop")
  /\ UNCHANGED <<sendVars, termVars, histVars, reading, goal>>

\* A stack in place of the queue.
TryPop_Newest(t) ==
  /\ pc[t] = "pop"
  /\ \/ /\ queue # <<>>
        /\ cur' = Last(queue)
        /\ queue' = Front(queue)
        /\ Goto(t, "check")
     \/ /\ queue = <<>>
        /\ Goto(t, "clear")
        /\ UNCHANGED <<cur, queue>>
  /\ UNCHANGED <<writing, outstanding, termVars, histVars, reading, goal>>

\* Everything but a terminated session is taken for a terminating one.
CheckTermination_NotTerminated(t) ==
  /\ pc[t] = "check"
  /\ \/ /\ state # "Terminated"
        /\ dropped' = dropped \cup {cur}
        /\ Goto(t, "handler")
     \/ /\ state = "Terminated"
        /\ Goto(t, "write")
        /\ UNCHANGED dropped
  /\ UNCHANGED <<sendVars, termVars, reading, goal, pushed, wire, failed, due>>

\* Only the state Kicked, which nothing sets, is looked for.
CheckTermination_KickedOnly(t) ==
  /\ pc[t] = "check"
  /\ Goto(t, "write")
  /\ UNCHANGED <<sendVars, termVars, histVars, reading, goal>>

\* The caller returns on true without resetting the flag.
TestHandler_KeepFlag(t) ==
  /\ pc[t] = "handler"
  /\ \/ /\ handler
        /\ state' = "Terminated"
        /\ Goto(t, "close")
     \/ /\ ~handler
        /\ Goto(t, After(t))
        /\ UNCHANGED state
  /\ UNCHANGED <<sendVars, handler, socketOpen, registered, waiting, histVars,
                 reading, goal>>

\* The other terminating state of the enumeration.
RemoveUsrSession_Kicked(t) ==
  /\ pc[t] = "mark"
  /\ ZoneUnlocked
  /\ waiting
  /\ state' = "Kicked"
  /\ Goto(t, "arm")
  /\ UNCHANGED <<sendVars, handler, socketOpen, registered, waiting, reading,
                 goal, histVars>>

\* closeSession at once, in place of markAsDeferredTerminated.
RemoveUsrSession_CloseNow(t) ==
  /\ pc[t] = "mark"
  /\ ZoneUnlocked
  /\ waiting
  /\ socketOpen' = FALSE
  /\ Goto(t, "idle")
  /\ UNCHANGED <<sendVars, handler, state, registered, waiting, reading,
                 goal, histVars>>

-----------------------------------------------------------------------------
(* sendMessage                                                             *)

\* The push at the head of sendMessage.  ForceTerminateLoginedUser only sends
\* to a session it found through getSession.
Push(t, g) ==
  /\ pc[t] = "idle"
  /\ pushed < MaxMsgs
  /\ g = "force" => registered
  /\ pushed' = pushed + 1
  /\ queue' = Append(queue, pushed')
  /\ goal' = [goal EXCEPT ![t] = g]
  /\ Goto(t, "cas")
  /\ UNCHANGED <<writing, cur, outstanding, termVars, reading, wire, failed,
                 dropped, due>>

\* compare_exchange_strong(false, true) on m_write_in_progress.
BeginWrite(t) ==
  /\ pc[t] = "cas"
  /\ writing' = TRUE
  /\ Goto(t, IF writing THEN After(t) ELSE "pop")
  /\ UNCHANGED <<queue, cur, outstanding, termVars, histVars, reading, goal>>

\* try_pop into m_current_write_msg, in sendMessage and in handle_write.
TryPop(t) ==
  /\ pc[t] = "pop"
  /\ \/ /\ queue # <<>>
        /\ cur' = Head(queue)
        /\ queue' = Tail(queue)
        /\ Goto(t, "check")
     \/ /\ queue = <<>>
        /\ Goto(t, "clear")
        /\ UNCHANGED <<cur, queue>>
  /\ UNCHANGED <<writing, outstanding, termVars, histVars, reading, goal>>

\* checkDeferredTermination: the load of m_state.  When it answers true the
\* caller returns without writing, and the message it popped is gone.
CheckTermination(t) ==
  /\ pc[t] = "check"
  /\ \/ /\ state = "LogoutPending"
        /\ dropped' = dropped \cup {cur}
        /\ Goto(t, "handler")
     \/ /\ state # "LogoutPending"
        /\ Goto(t, "write")
        /\ UNCHANGED dropped
  /\ UNCHANGED <<sendVars, termVars, reading, goal, pushed, wire, failed, due>>

\* checkDeferredTermination: the test of m_finalSendCompleteHandler.
TestHandler(t) ==
  /\ pc[t] = "handler"
  /\ \/ /\ handler
        /\ state' = "Terminated"
        /\ Goto(t, "close")
     \/ /\ ~handler
        /\ Goto(t, "clear")
        /\ UNCHANGED state
  /\ UNCHANGED <<sendVars, handler, socketOpen, registered, waiting, histVars,
                 reading, goal>>

\* The handler removeUsrSession installed: closeSession, then
\* eraseWaitingSession (which needs the entry's lock).
CloseSession(t) ==
  /\ pc[t] = "close"
  /\ socketOpen' = FALSE
  /\ Goto(t, "erase")
  /\ UNCHANGED <<sendVars, state, handler, registered, waiting, histVars,
                 reading, goal>>

EraseWaitingSession(t) ==
  /\ pc[t] = "erase"
  /\ ZoneUnlocked
  /\ waiting' = FALSE
  /\ Goto(t, "reset")
  /\ UNCHANGED <<sendVars, state, handler, socketOpen, registered, histVars,
                 reading, goal>>

\* m_finalSendCompleteHandler = nullptr.
ResetHandler(t) ==
  /\ pc[t] = "reset"
  /\ handler' = FALSE
  /\ Goto(t, "clear")
  /\ UNCHANGED <<sendVars, state, socketOpen, registered, waiting, histVars,
                 reading, goal>>

AsyncWrite(t) ==
  /\ pc[t] = "write"
  /\ outstanding' = outstanding \cup {cur}
  /\ Goto(t, After(t))
  /\ UNCHANGED <<queue, writing, cur, termVars, histVars, reading, goal>>

\* m_write_in_progress = false.
ClearFlag(t) ==
  /\ pc[t] = "clear"
  /\ writing' = FALSE
  /\ Goto(t, After(t))
  /\ UNCHANGED <<queue, cur, outstanding, termVars, histVars, reading, goal>>

-----------------------------------------------------------------------------
(* The io thread                                                           *)

\* handle_write without an error: go on with the queue.
WriteDone(m) ==
  /\ pc[IO] = "idle"
  /\ m \in outstanding
  /\ socketOpen
  /\ outstanding' = outstanding \ {m}
  /\ wire' = Append(wire, m)
  /\ Goto(IO, "pop")
  /\ UNCHANGED <<queue, writing, cur, termVars, reading, goal, pushed, failed,
                 dropped, due>>

\* handle_write with an error: purgeRemoveConnection and nothing else, so
\* m_write_in_progress stays true.
WriteFailed(m) ==
  /\ pc[IO] = "idle"
  /\ m \in outstanding
  /\ outstanding' = outstanding \ {m}
  /\ failed' = failed \cup {m}
  /\ Goto(IO, "mark")
  /\ UNCHANGED <<queue, writing, cur, termVars, reading, goal, pushed, wire,
                 dropped, due>>

\* handle_header or handle_msgbody gives up on the connection: it purges and
\* does not arm another read.
ReadFailed ==
  /\ pc[IO] = "idle"
  /\ reading
  /\ reading' = FALSE
  /\ Goto(IO, "mark")
  /\ UNCHANGED <<sendVars, termVars, histVars, goal>>

-----------------------------------------------------------------------------
(* Termination                                                             *)

MoveUserToTerminationZone(t) ==
  /\ pc[t] = "move"
  /\ ZoneUnlocked
  /\ waiting' = (waiting \/ registered)
  /\ registered' = FALSE
  /\ Goto(t, "mark")
  /\ UNCHANGED <<sendVars, state, handler, socketOpen, histVars, reading, goal>>

\* removeUsrSession finds the session in m_waitingToBeClosed and calls
\* markAsDeferredTerminated, whose first store is m_state; otherwise it
\* returns false.
RemoveUsrSession(t) ==
  /\ pc[t] = "mark"
  /\ ZoneUnlocked
  /\ \/ /\ waiting
        /\ state' = "LogoutPending"
        /\ due' = IF state = "Alive" THEN pushed ELSE due
        /\ Goto(t, "arm")
     \/ /\ ~waiting
        /\ Goto(t, "idle")
        /\ UNCHANGED <<state, due>>
  /\ UNCHANGED <<sendVars, handler, socketOpen, registered, waiting, reading,
                 goal, pushed, wire, failed, dropped>>

\* The second store of markAsDeferredTerminated.
ArmHandler(t) ==
  /\ pc[t] = "arm"
  /\ handler' = TRUE
  /\ Goto(t, "idle")
  /\ UNCHANGED <<sendVars, state, socketOpen, registered, waiting, histVars,
                 reading, goal>>

-----------------------------------------------------------------------------

\* The steps of a thread inside a call it has made.
Step(t) ==
  \/ BeginWrite(t) \/ TryPop(t) \/ CheckTermination(t) \/ TestHandler(t)
  \/ CloseSession(t) \/ EraseWaitingSession(t) \/ ResetHandler(t)
  \/ AsyncWrite(t) \/ ClearFlag(t)
  \/ MoveUserToTerminationZone(t) \/ RemoveUsrSession(t) \/ ArmHandler(t)

Completion == \E m \in outstanding : WriteDone(m) \/ WriteFailed(m)

Next ==
  \/ \E t \in Threads, g \in Goals : Push(t, g)
  \/ \E t \in Actors : Step(t)
  \/ Completion
  \/ ReadFailed

Spec == Init /\ [][Next]_vars

\* A thread that is inside a call goes on, and an async_write completes.
\* Nobody has to send, and a connection need not fail.
Fairness ==
  /\ \A t \in Actors : WF_vars(Step(t))
  /\ WF_vars(Completion)

FairSpec == Spec /\ Fairness

-----------------------------------------------------------------------------
(* Properties                                                              *)

\* Each variable holds a value the code can give it.
TypeOK ==
  /\ queue \in Seq(Msg)
  /\ writing \in BOOLEAN
  /\ cur \in Msg \cup {NoMsg}
  /\ outstanding \in SUBSET Msg
  /\ state \in {"Alive", "LogoutPending", "Terminated"}
  /\ handler \in BOOLEAN
  /\ socketOpen \in BOOLEAN
  /\ reading \in BOOLEAN
  /\ registered \in BOOLEAN
  /\ waiting \in BOOLEAN
  /\ pc \in [Actors -> Places]
  /\ goal \in [Threads -> Goals]
  /\ pushed \in 0..MaxMsgs
  /\ wire \in Seq(Msg)
  /\ failed \in SUBSET Msg
  /\ dropped \in SUBSET Msg
  /\ due \in 0..MaxMsgs

\* m_write_in_progress is a lock on the write path although no mutex is: at
\* most one thread is between its CAS and its release, never while an
\* async_write is outstanding, and the buffer of an outstanding write
\* (m_current_write_msg, which the next pop replaces) is the one being sent.
ExclusiveWriter ==
  /\ \A s, t \in Actors : Owns(s) /\ Owns(t) => s = t
  /\ outstanding # {} => \A t \in Actors : ~Owns(t)
  /\ outstanding \subseteq {cur}

\* The message a thread has popped and not yet handed to async_write.
InHand ==
  IF \E t \in Actors : pc[t] \in {"check", "write"} THEN {cur} ELSE {}

\* A pushed message is queued, in hand, being written, transmitted, failed or
\* dropped, and a message is dropped only after termination was requested.
NothingVanishes ==
  /\ 1..pushed = ToSet(queue) \cup InHand \cup outstanding \cup ToSet(wire)
                    \cup failed \cup dropped
  /\ dropped # {} => state # "Alive"

\* Whichever threads push, pop and start writes, and however they are ended, the
\* session keeps the promise of module Outbox: what the peer has received is
\* what was pushed first, all of it and in the order of the pushes; once a
\* message was lost to a failed write or to a termination, none follows it.
Pending ==
  IF outstanding \cup InHand # {} THEN <<cur>> \o queue ELSE queue
Abstract == INSTANCE Outbox WITH
  accepted <- pushed, pending <- Pending, sent <- wire,
  ending <- state # "Alive", broken <- failed # {},
  lost <- failed \cup dropped # {}, open <- socketOpen
ImplementsOutbox == Abstract!Spec

\* What the peer has received, whatever happened: a first part of the pushes.
WireWithoutGap == Abstract!NoGap

\* Deferred termination: the socket is never closed under an async_write.
CloseNeverCutsAWrite ==
  [][socketOpen /\ ~socketOpen' => outstanding = {}]_vars

\* Whoever takes the write path gives it back, unless the connection broke:
\* every return of sendMessage and handle_write resets the flag or leaves a
\* write outstanding.
WriterReleases == writing ~> (~writing \/ failed # {})

\* Once termination is armed while a write is outstanding and more is queued,
\* the completion of that write leads to the close of the socket.
ArmedWriterCloses ==
  (handler /\ state = "LogoutPending" /\ outstanding # {} /\ queue # <<>>)
    ~> (~socketOpen \/ failed # {})

\* Session.cpp:182, "till there is no element inside queue": when every call
\* has returned and nothing is being written, the writer left no message.
Quiet == outstanding = {} /\ \A t \in Actors : pc[t] = "idle"
NoStrandedMessage == Quiet /\ state = "Alive" /\ failed = {} => queue = <<>>

\* README.md:55, "ensuring all data are transmitted before closing the
\* connection": what was queued before the termination request was sent.
DataTransmittedBeforeClose == ~socketOpen => 1..due \subseteq ToSet(wire)

=============================================================================
