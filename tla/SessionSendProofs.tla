------------------------- MODULE SessionSendProofs -------------------------
(***************************************************************************)
(* Theorems of SessionSend for any set of threads and any number of        *)
(* messages: the types, the exclusive use of the write path, the close that *)
(* never cuts a write, the account of the messages, and the promise of     *)
(* module Outbox with what follows from it for the wire.                   *)
(***************************************************************************)
EXTENDS SessionSend, SequenceTheorems, TLAPS

USE IOIsNoSender, MaxMsgsNat

\* After is a place outside the write path.
LEMMA AfterPlace ==
  ASSUME goal \in [Threads -> Goals], NEW t \in Actors
  PROVE  /\ After(t) \in Places
         /\ After(t) \notin OwnerPlaces
BY DEF After, Goals, Places, OwnerPlaces, Actors

\* A thread that has popped holds a message, not the initial null pointer.
HandInv == \A t \in Actors : pc[t] \in {"check", "write"} => cur \in Msg

LEMMA InitTypeOK == Init => TypeOK /\ HandInv
<1> SUFFICES ASSUME Init PROVE TypeOK /\ HandInv
  OBVIOUS
<1>1. pc \in [Actors -> Places] /\ goal \in [Threads -> Goals]
  BY DEF Init, Places, Goals
<1>2. pushed \in 0..MaxMsgs /\ due \in 0..MaxMsgs /\ cur = NoMsg
  BY DEF Init
<1>3. queue \in Seq(Msg) /\ wire \in Seq(Msg)
  BY EmptySeq DEF Init
<1>4. QED
  BY <1>1, <1>2, <1>3 DEF Init, TypeOK, HandInv

LEMMA NextTypeOK == TypeOK /\ HandInv /\ [Next]_vars => TypeOK'
<1> SUFFICES ASSUME TypeOK, HandInv, [Next]_vars PROVE TypeOK'
  OBVIOUS
<1> USE DEF TypeOK, Goto
<1>1. CASE UNCHANGED vars
  BY <1>1 DEF vars, sendVars, termVars, histVars
<1>2. ASSUME NEW t \in Threads, NEW g \in Goals, Push(t, g) PROVE TypeOK'
  <2>1. pushed' \in Msg
    BY <1>2 DEF Push, Msg
  <2>2. queue' \in Seq(Msg)
    BY <1>2, <2>1, AppendProperties DEF Push
  <2>3. QED
    BY <1>2, <2>1, <2>2 DEF Push, termVars, Actors, Places, Msg
<1>3. ASSUME NEW t \in Actors, Step(t) PROVE TypeOK'
  <2>1. After(t) \in Places
    BY AfterPlace
  <2>2. CASE BeginWrite(t)
    BY <2>1, <2>2 DEF BeginWrite, termVars, histVars, Places, OwnerPlaces
  <2>3. CASE TryPop(t)
    <3>1. CASE queue # <<>>
      <4>1. Head(queue) \in Msg /\ Tail(queue) \in Seq(Msg)
        BY <3>1, HeadTailProperties
      <4>2. QED
        BY <2>3, <3>1, <4>1 DEF TryPop, termVars, histVars, Places, OwnerPlaces
    <3>2. CASE queue = <<>>
      BY <2>3, <3>2 DEF TryPop, termVars, histVars, Places, OwnerPlaces
    <3>3. QED
      BY <3>1, <3>2
  <2>4. CASE CheckTermination(t)
    <3>1. cur \in Msg
      BY <2>4 DEF CheckTermination, HandInv
    <3>2. QED
      BY <2>4, <3>1 DEF CheckTermination, termVars, sendVars, Places, OwnerPlaces
  <2>5. CASE TestHandler(t)
    BY <2>5 DEF TestHandler, sendVars, histVars, Places, OwnerPlaces
  <2>6. CASE CloseSession(t) \/ EraseWaitingSession(t) \/ ResetHandler(t)
    BY <2>6 DEF CloseSession, EraseWaitingSession, ResetHandler, sendVars,
                histVars, Places, OwnerPlaces
  <2>7. CASE AsyncWrite(t)
    <3>1. cur \in Msg
      BY <2>7 DEF AsyncWrite, HandInv
    <3>2. QED
      BY <2>1, <2>7, <3>1 DEF AsyncWrite, termVars, histVars
  <2>8. CASE ClearFlag(t)
    BY <2>1, <2>8 DEF ClearFlag, termVars, histVars
  <2>9. CASE MoveUserToTerminationZone(t)
    BY <2>9 DEF MoveUserToTerminationZone, sendVars, histVars, Places
  <2>10. CASE RemoveUsrSession(t)
    BY <2>10 DEF RemoveUsrSession, sendVars, Places
  <2>11. CASE ArmHandler(t)
    BY <2>11 DEF ArmHandler, sendVars, histVars, Places
  <2>12. QED
    BY <1>3, <2>2, <2>3, <2>4, <2>5, <2>6, <2>7, <2>8, <2>9, <2>10, <2>11
    DEF Step
<1>4. ASSUME Completion PROVE TypeOK'
  <2>1. PICK m \in outstanding : WriteDone(m) \/ WriteFailed(m)
    BY <1>4 DEF Completion
  <2>2. m \in Msg
    OBVIOUS
  <2>3. Append(wire, m) \in Seq(Msg)
    BY <2>2, AppendProperties
  <2>4. QED
    BY <2>1, <2>2, <2>3
    DEF WriteDone, WriteFailed, termVars, Places, OwnerPlaces, Actors
<1>5. ASSUME ReadFailed PROVE TypeOK'
  BY <1>5 DEF ReadFailed, sendVars, termVars, histVars, Places, Actors
<1>6. QED
  BY <1>1, <1>2, <1>3, <1>4, <1>5 DEF Next

LEMMA NextHandInv == TypeOK /\ HandInv /\ [Next]_vars => HandInv'
<1> SUFFICES ASSUME TypeOK, HandInv, [Next]_vars,
                    NEW s \in Actors, pc'[s] \in {"check", "write"}
             PROVE  cur' \in Msg
  BY DEF HandInv
<1> USE DEF TypeOK, HandInv, Goto
<1>1. CASE UNCHANGED vars
  BY <1>1 DEF vars, sendVars
<1>2. ASSUME NEW t \in Threads, NEW g \in Goals, Push(t, g)
      PROVE cur' \in Msg
  BY <1>2 DEF Push, Actors
<1>3. ASSUME NEW t \in Actors, Step(t) PROVE cur' \in Msg
  <2>1. After(t) \notin OwnerPlaces
    BY AfterPlace
  <2>2. CASE TryPop(t)
    <3>1. CASE queue # <<>>
      BY <2>2, <3>1, HeadTailProperties DEF TryPop
    <3>2. CASE queue = <<>>
      BY <2>2, <3>2 DEF TryPop
    <3>3. QED
      BY <3>1, <3>2
  <2>3. CASE BeginWrite(t) \/ AsyncWrite(t) \/ ClearFlag(t)
    BY <2>1, <2>3 DEF BeginWrite, AsyncWrite, ClearFlag, OwnerPlaces
  <2>4. CASE CheckTermination(t) \/ TestHandler(t) \/ CloseSession(t)
    BY <2>4 DEF CheckTermination, TestHandler, CloseSession, sendVars
  <2>5. CASE EraseWaitingSession(t) \/ ResetHandler(t)
    BY <2>5 DEF EraseWaitingSession, ResetHandler, sendVars
  <2>6. CASE MoveUserToTerminationZone(t) \/ RemoveUsrSession(t) \/ ArmHandler(t)
    BY <2>6 DEF MoveUserToTerminationZone, RemoveUsrSession, ArmHandler, sendVars
  <2>7. QED
    BY <1>3, <2>2, <2>3, <2>4, <2>5, <2>6 DEF Step
<1>4. ASSUME Completion PROVE cur' \in Msg
  BY <1>4 DEF Completion, WriteDone, WriteFailed, Actors
<1>5. ASSUME ReadFailed PROVE cur' \in Msg
  BY <1>5 DEF ReadFailed, sendVars, Actors
<1>6. QED
  BY <1>1, <1>2, <1>3, <1>4, <1>5 DEF Next

\* The state of the session, and what each thread is doing with it, is always
\* one the code can be in.
THEOREM TypeCorrect == Spec => [](TypeOK /\ HandInv)
<1>1. QED
  BY InitTypeOK, NextTypeOK, NextHandInv, PTL DEF Spec

-----------------------------------------------------------------------------
(* The write path                                                          *)

\* m_write_in_progress is set while a thread owns the write path or a write
\* is outstanding: what the CAS relies on.
FlagHeld == outstanding # {} \/ (\E t \in Actors : Owns(t)) => writing

WriterInv == ExclusiveWriter /\ FlagHeld

LEMMA InitWriter == Init => WriterInv
BY DEF Init, WriterInv, ExclusiveWriter, FlagHeld, Owns, OwnerPlaces

\* A step that leaves the write path's state and the moving thread's ownership
\* as they were keeps the invariant.
LEMMA WriterFrame ==
  ASSUME TypeOK, WriterInv, NEW t \in Actors, NEW p, Goto(t, p),
         p \in OwnerPlaces => Owns(t),
         outstanding' \subseteq outstanding, cur' = cur, writing' = writing
  PROVE  WriterInv'
BY DEF TypeOK, WriterInv, ExclusiveWriter, FlagHeld, Owns, Goto

LEMMA NextWriter == TypeOK /\ WriterInv /\ [Next]_vars => WriterInv'
<1> SUFFICES ASSUME TypeOK, WriterInv, [Next]_vars PROVE WriterInv'
  OBVIOUS
<1>1. CASE UNCHANGED vars
  BY <1>1 DEF vars, sendVars, WriterInv, ExclusiveWriter, FlagHeld, Owns
<1>2. ASSUME NEW t \in Threads, NEW g \in Goals, Push(t, g)
      PROVE WriterInv'
  BY <1>2, WriterFrame DEF Push, Actors, OwnerPlaces
<1>3. ASSUME NEW t \in Actors, Step(t) PROVE WriterInv'
  <2>1. After(t) \notin OwnerPlaces
    BY AfterPlace DEF TypeOK
  <2>2. CASE BeginWrite(t)
    <3>1. CASE writing
      BY <2>1, <2>2, <3>1, WriterFrame DEF BeginWrite, TypeOK
    <3>2. CASE ~writing
      BY <2>2, <3>2
      DEF BeginWrite, TypeOK, Goto, WriterInv, ExclusiveWriter, FlagHeld, Owns
    <3>3. QED
      BY <3>1, <3>2
  <2>3. CASE TryPop(t)
    <3>1. Owns(t) /\ outstanding = {}
      BY <2>3 DEF TryPop, WriterInv, ExclusiveWriter, Owns, OwnerPlaces
    <3>2. QED
      BY <2>3, <3>1
      DEF TryPop, TypeOK, Goto, WriterInv, ExclusiveWriter, FlagHeld, Owns
  <2>4. CASE CheckTermination(t)
    BY <2>4, WriterFrame DEF CheckTermination, sendVars, Owns, OwnerPlaces
  <2>5. CASE TestHandler(t)
    BY <2>5, WriterFrame DEF TestHandler, sendVars, Owns, OwnerPlaces
  <2>6. CASE CloseSession(t)
    BY <2>6, WriterFrame DEF CloseSession, sendVars, Owns, OwnerPlaces
  <2>7. CASE EraseWaitingSession(t)
    BY <2>7, WriterFrame DEF EraseWaitingSession, sendVars, Owns, OwnerPlaces
  <2>8. CASE ResetHandler(t)
    BY <2>8, WriterFrame DEF ResetHandler, sendVars, Owns, OwnerPlaces
  <2>9. CASE AsyncWrite(t)
    <3>1. Owns(t) /\ outstanding = {}
      BY <2>9 DEF AsyncWrite, WriterInv, ExclusiveWriter, Owns, OwnerPlaces
    <3>2. QED
      BY <2>1, <2>9, <3>1
      DEF AsyncWrite, TypeOK, Goto, WriterInv, ExclusiveWriter, FlagHeld, Owns
  <2>10. CASE ClearFlag(t)
    <3>1. Owns(t) /\ outstanding = {}
      BY <2>10 DEF ClearFlag, WriterInv, ExclusiveWriter, Owns, OwnerPlaces
    <3>2. QED
      BY <2>1, <2>10, <3>1
      DEF ClearFlag, TypeOK, Goto, WriterInv, ExclusiveWriter, FlagHeld, Owns
  <2>11. CASE MoveUserToTerminationZone(t)
    BY <2>11, WriterFrame DEF MoveUserToTerminationZone, sendVars, OwnerPlaces
  <2>12. CASE RemoveUsrSession(t)
    BY <2>12, WriterFrame DEF RemoveUsrSession, sendVars, OwnerPlaces
  <2>13. CASE ArmHandler(t)
    BY <2>13, WriterFrame DEF ArmHandler, sendVars, OwnerPlaces
  <2>14. QED
    BY <1>3, <2>2, <2>3, <2>4, <2>5, <2>6, <2>7, <2>8, <2>9, <2>10, <2>11,
       <2>12, <2>13 DEF Step
<1>4. ASSUME Completion PROVE WriterInv'
  <2>1. PICK m \in outstanding : WriteDone(m) \/ WriteFailed(m)
    BY <1>4 DEF Completion
  <2>2. outstanding = {m} /\ \A t \in Actors : ~Owns(t)
    BY DEF WriterInv, ExclusiveWriter
  <2>3. outstanding' = {} /\ writing
    BY <2>1, <2>2 DEF WriteDone, WriteFailed, WriterInv, FlagHeld
  <2>4. QED
    BY <2>1, <2>2, <2>3
    DEF WriteDone, WriteFailed, TypeOK, Goto, WriterInv, ExclusiveWriter,
        FlagHeld, Owns, Actors
<1>5. ASSUME ReadFailed PROVE WriterInv'
  BY <1>5, WriterFrame DEF ReadFailed, sendVars, OwnerPlaces, Actors
<1>6. QED
  BY <1>1, <1>2, <1>3, <1>4, <1>5 DEF Next

\* sendMessage and handle_write never own the write path together, and no
\* buffer is replaced under an outstanding async_write.
THEOREM WriteExclusion == Spec => []ExclusiveWriter
<1>1. Init => TypeOK /\ HandInv /\ WriterInv
  BY InitTypeOK, InitWriter
<1>2. TypeOK /\ HandInv /\ WriterInv /\ [Next]_vars
        => (TypeOK /\ HandInv /\ WriterInv)'
  BY NextTypeOK, NextHandInv, NextWriter
<1>3. WriterInv => ExclusiveWriter
  BY DEF WriterInv
<1>4. QED
  BY <1>1, <1>2, <1>3, PTL DEF Spec

LEMMA CloseStep ==
  TypeOK /\ WriterInv /\ [Next]_vars
    => [socketOpen /\ ~socketOpen' => outstanding = {}]_vars
<1> SUFFICES ASSUME TypeOK, WriterInv, Next, socketOpen, ~socketOpen'
             PROVE  outstanding = {}
  BY DEF vars
<1>1. ASSUME NEW t \in Actors, CloseSession(t) PROVE outstanding = {}
  BY <1>1 DEF CloseSession, WriterInv, ExclusiveWriter, Owns, OwnerPlaces
<1>2. \E t \in Actors : CloseSession(t)
  BY DEF Next, Push, Step, BeginWrite, TryPop, CheckTermination, TestHandler,
         EraseWaitingSession, ResetHandler, AsyncWrite, ClearFlag, Completion,
         WriteDone, WriteFailed, ReadFailed, MoveUserToTerminationZone,
         RemoveUsrSession, ArmHandler, termVars
<1>3. QED
  BY <1>1, <1>2

\* The deferred handler, the only code that closes the socket, runs in the
\* thread that owns the write path, so it cannot cut a write.
THEOREM CloseIsDeferred == Spec => CloseNeverCutsAWrite
<1>1. Init => TypeOK /\ HandInv /\ WriterInv
  BY InitTypeOK, InitWriter
<1>2. TypeOK /\ HandInv /\ WriterInv /\ [Next]_vars
        => (TypeOK /\ HandInv /\ WriterInv)'
  BY NextTypeOK, NextHandInv, NextWriter
<1>3. TypeOK /\ HandInv /\ WriterInv /\ [Next]_vars
        => [socketOpen /\ ~socketOpen' => outstanding = {}]_vars
  BY CloseStep
<1>4. QED
  BY <1>1, <1>2, <1>3, PTL DEF Spec, CloseNeverCutsAWrite

-----------------------------------------------------------------------------
(* No message is lost                                                      *)

LEMMA ToSetAppend ==
  ASSUME NEW S, NEW s \in Seq(S), NEW x \in S
  PROVE  ToSet(Append(s, x)) = ToSet(s) \cup {x}
<1> DEFINE r == Append(s, x)
<1>1. /\ r \in Seq(S) /\ Len(r) = Len(s) + 1 /\ r[Len(r)] = x
      /\ \A i \in 1..Len(s) : r[i] = s[i]
  BY AppendProperties
<1>2. /\ DOMAIN r = 1..Len(r) /\ DOMAIN s = 1..Len(s) /\ Len(s) \in Nat
  BY <1>1, LenProperties
<1>3. DOMAIN r = DOMAIN s \cup {Len(r)}
  BY <1>1, <1>2
<1>4. QED
  BY <1>1, <1>2, <1>3 DEF ToSet

LEMMA ToSetHeadTail ==
  ASSUME NEW S, NEW s \in Seq(S), s # <<>>
  PROVE  ToSet(s) = {Head(s)} \cup ToSet(Tail(s))
<1> DEFINE r == Tail(s)
<1>1. /\ r \in Seq(S) /\ Len(r) = Len(s) - 1 /\ Head(s) = s[1]
      /\ \A i \in 1..Len(r) : r[i] = s[i + 1]
  BY HeadTailProperties
<1>2. /\ DOMAIN r = 1..Len(r) /\ DOMAIN s = 1..Len(s) /\ Len(s) \in Nat \ {0}
  BY <1>1, LenProperties, EmptySeq
<1>3. \A i \in DOMAIN s : i = 1 \/ (i - 1 \in DOMAIN r /\ s[i] = r[i - 1])
  BY <1>1, <1>2
<1>4. \A i \in DOMAIN r : i + 1 \in DOMAIN s /\ r[i] = s[i + 1]
  BY <1>1, <1>2
<1>5. 1 \in DOMAIN s
  BY <1>2
<1>6. PICK t : t = Tail(s)
  OBVIOUS
<1>7. ASSUME NEW x \in ToSet(s) PROVE x \in {s[1]} \cup ToSet(t)
  <2>1. PICK i \in DOMAIN s : x = s[i]
    BY <1>7 DEF ToSet
  <2>2. i = 1 \/ (i - 1 \in DOMAIN t /\ s[i] = t[i - 1])
    BY <1>3, <1>6
  <2> QED BY <2>1, <2>2 DEF ToSet
<1>8. ASSUME NEW x \in {s[1]} \cup ToSet(t) PROVE x \in ToSet(s)
  <2>1. CASE x = s[1]
    BY <1>5, <2>1 DEF ToSet
  <2>2. ASSUME NEW i \in DOMAIN t, x = t[i] PROVE x \in ToSet(s)
    BY <1>4, <1>6, <2>2 DEF ToSet
  <2> QED BY <1>8, <2>1, <2>2 DEF ToSet
<1>9. ToSet(s) = {s[1]} \cup ToSet(t)
  BY <1>7, <1>8
<1>10. QED
  BY <1>1, <1>6, <1>9

\* Some thread has popped a message and not yet passed it on.
HandBusy == \E t \in Actors : pc[t] \in {"check", "write"}

\* A step that moves a thread between places without a message in hand, or
\* touches none of the places a message can be in, keeps the account.
LEMMA AccountFrame ==
  ASSUME NothingVanishes,
         UNCHANGED <<queue, cur, outstanding, wire, failed, dropped, pushed>>,
         HandBusy' <=> HandBusy, state # "Alive" => state' # "Alive"
  PROVE  NothingVanishes'
BY DEF NothingVanishes, InHand, HandBusy

LEMMA NextAccount ==
  TypeOK /\ WriterInv /\ NothingVanishes /\ [Next]_vars => NothingVanishes'
<1> SUFFICES ASSUME TypeOK, WriterInv, NothingVanishes, [Next]_vars
             PROVE  NothingVanishes'
  OBVIOUS
<1>1. CASE UNCHANGED vars
  BY <1>1, AccountFrame DEF vars, sendVars, termVars, histVars, HandBusy
<1>2. ASSUME NEW t \in Threads, NEW g \in Goals, Push(t, g)
      PROVE  NothingVanishes'
  <2>1. ToSet(queue') = ToSet(queue) \cup {pushed'} /\ pushed' = pushed + 1
    <3>1. pushed' \in Msg
      BY <1>2 DEF Push, Msg, TypeOK
    <3>2. QED
      BY <1>2, <3>1, ToSetAppend DEF Push, TypeOK
  <2>2. 1..pushed' = (1..pushed) \cup {pushed'}
    BY <2>1 DEF TypeOK
  <2>3. InHand' = InHand
    BY <1>2 DEF Push, InHand, TypeOK, Goto
  <2>4. QED
    BY <1>2, <2>1, <2>2, <2>3 DEF Push, NothingVanishes, termVars
<1>3. ASSUME NEW t \in Actors, Step(t) PROVE NothingVanishes'
  <2>1. After(t) \notin {"check", "write"}
    BY AfterPlace DEF TypeOK, OwnerPlaces
  <2>2. Owns(t) => \A s \in Actors : Owns(s) => s = t
    BY DEF WriterInv, ExclusiveWriter
  <2>3. CASE TryPop(t)
    <3>1. ~HandBusy
      BY <2>2, <2>3 DEF TryPop, HandBusy, Owns, OwnerPlaces
    <3>2. InHand = {}
      BY <3>1 DEF InHand, HandBusy
    <3>3. CASE queue # <<>>
      <4>1. cur' = Head(queue) /\ queue' = Tail(queue) /\ Goto(t, "check")
        BY <2>3, <3>3 DEF TryPop
      <4>2. InHand' = {cur'}
        BY <4>1 DEF InHand, TypeOK, Goto
      <4>3. ToSet(queue) = {cur'} \cup ToSet(queue')
        BY <3>3, <4>1, ToSetHeadTail DEF TypeOK
      <4>4. QED
        BY <2>3, <3>2, <4>2, <4>3 DEF TryPop, NothingVanishes, histVars, termVars
    <3>4. CASE queue = <<>>
      BY <2>3, <3>1, <3>4, AccountFrame
      DEF TryPop, histVars, termVars, HandBusy, TypeOK, Goto
    <3>5. QED
      BY <3>3, <3>4
  <2>4. CASE BeginWrite(t)
    BY <2>1, <2>4, AccountFrame
    DEF BeginWrite, histVars, termVars, HandBusy, TypeOK, Goto
  <2>5. CASE CheckTermination(t)
    <3>1. InHand = {cur}
      BY <2>5 DEF CheckTermination, InHand
    <3>2. CASE state = "LogoutPending"
      <4>1. dropped' = dropped \cup {cur} /\ Goto(t, "handler")
        BY <2>5, <3>2 DEF CheckTermination
      <4>2. ~HandBusy'
        BY <2>2, <2>5, <4>1
        DEF CheckTermination, HandBusy, TypeOK, Goto, Owns, OwnerPlaces
      <4>3. InHand' = {}
        BY <4>2 DEF InHand, HandBusy
      <4>4. QED
        BY <2>5, <3>1, <3>2, <4>1, <4>3
        DEF CheckTermination, NothingVanishes, sendVars, termVars
    <3>3. CASE state # "LogoutPending"
      BY <2>5, <3>3, AccountFrame
      DEF CheckTermination, sendVars, termVars, HandBusy, TypeOK, Goto
    <3>4. QED
      BY <3>2, <3>3
  <2>6. CASE AsyncWrite(t)
    <3>1. InHand = {cur}
      BY <2>6 DEF AsyncWrite, InHand
    <3>2. ~HandBusy'
      BY <2>1, <2>2, <2>6
      DEF AsyncWrite, HandBusy, TypeOK, Goto, Owns, OwnerPlaces
    <3>3. InHand' = {}
      BY <3>2 DEF InHand, HandBusy
    <3>4. QED
      BY <2>6, <3>1, <3>3 DEF AsyncWrite, NothingVanishes, histVars, termVars
  <2>7. CASE ClearFlag(t) \/ TestHandler(t)
    BY <2>1, <2>7, AccountFrame
    DEF ClearFlag, TestHandler, sendVars, termVars, histVars, HandBusy, TypeOK,
        Goto
  <2>8. CASE CloseSession(t) \/ EraseWaitingSession(t) \/ ResetHandler(t)
    BY <2>8, AccountFrame
    DEF CloseSession, EraseWaitingSession, ResetHandler, sendVars, histVars,
        HandBusy, TypeOK, Goto
  <2>9. CASE MoveUserToTerminationZone(t) \/ RemoveUsrSession(t) \/ ArmHandler(t)
    BY <2>9, AccountFrame
    DEF MoveUserToTerminationZone, RemoveUsrSession, ArmHandler, sendVars,
        histVars, HandBusy, TypeOK, Goto
  <2>10. QED
    BY <1>3, <2>3, <2>4, <2>5, <2>6, <2>7, <2>8, <2>9 DEF Step
<1>4. ASSUME Completion PROVE NothingVanishes'
  <2>1. PICK m \in outstanding : WriteDone(m) \/ WriteFailed(m)
    BY <1>4 DEF Completion
  <2>2. outstanding' = outstanding \ {m} /\ m \in Msg
    BY <2>1 DEF WriteDone, WriteFailed, TypeOK
  <2>3. InHand' = InHand
    BY <2>1 DEF WriteDone, WriteFailed, InHand, TypeOK, Goto, Actors
  <2>4. CASE WriteDone(m)
    <3>1. ToSet(wire') = ToSet(wire) \cup {m}
      BY <2>2, <2>4, ToSetAppend DEF WriteDone, TypeOK
    <3>2. QED
      BY <2>2, <2>3, <2>4, <3>1 DEF WriteDone, NothingVanishes, termVars
  <2>5. CASE WriteFailed(m)
    BY <2>2, <2>3, <2>5 DEF WriteFailed, NothingVanishes, termVars
  <2>6. QED
    BY <2>1, <2>4, <2>5
<1>5. ASSUME ReadFailed PROVE NothingVanishes'
  BY <1>5, AccountFrame
  DEF ReadFailed, sendVars, termVars, histVars, HandBusy, TypeOK, Goto, Actors
<1>6. QED
  BY <1>1, <1>2, <1>3, <1>4, <1>5 DEF Next

\* Every message ever pushed is accounted for: it is queued, in hand, being
\* written, transmitted, failed with its connection, or was dropped after the
\* session's termination had been requested.
THEOREM NothingIsLost == Spec => []NothingVanishes
<1>1. Init => TypeOK /\ HandInv /\ WriterInv /\ NothingVanishes
  <2>1. ASSUME Init PROVE NothingVanishes
    <3>1. ToSet(queue) = {} /\ ToSet(wire) = {} /\ 1..pushed = {}
      BY <2>1 DEF Init, ToSet
    <3>2. InHand = {}
      BY <2>1 DEF Init, InHand
    <3>3. QED
      BY <2>1, <3>1, <3>2 DEF Init, NothingVanishes
  <2>2. QED
    BY <2>1, InitTypeOK, InitWriter
<1>2. TypeOK /\ HandInv /\ WriterInv /\ NothingVanishes /\ [Next]_vars
        => (TypeOK /\ HandInv /\ WriterInv /\ NothingVanishes)'
  BY NextTypeOK, NextHandInv, NextWriter, NextAccount
<1>3. QED
  BY <1>1, <1>2, PTL DEF Spec

-----------------------------------------------------------------------------
(* The promise of the outbox                                               *)

\* A message is on its way between the queue and the wire.
InFlight == outstanding # {} \/ HandBusy

LEMMA PendingIs ==
  /\ Pending = IF InFlight THEN <<cur>> \o queue ELSE queue
  /\ Pending' = IF InFlight' THEN <<cur'>> \o queue' ELSE queue'
BY DEF Pending, InFlight, InHand, HandBusy

LEMMA ConsProperties ==
  ASSUME NEW S, NEW x \in S, NEW s \in Seq(S)
  PROVE  /\ <<x>> \o s \in Seq(S)
         /\ <<x>> \o s # <<>>
         /\ Head(<<x>> \o s) = x
         /\ Tail(<<x>> \o s) = s
<1>1. <<x>> \in Seq(S) /\ Len(<<x>>) = 1 /\ <<x>>[1] = x
  OBVIOUS
<1>2. PICK r : r = <<x>> \o s
  OBVIOUS
<1>3. /\ r \in Seq(S) /\ Len(r) = 1 + Len(s) /\ Len(s) \in Nat
      /\ \A i \in 1..(1 + Len(s)) : r[i] = IF i <= 1 THEN <<x>>[i] ELSE s[i - 1]
  BY <1>1, <1>2, ConcatProperties, LenProperties
<1>4. r # <<>> /\ r[1] = x
  BY <1>1, <1>3, EmptySeq
<1>5. /\ Head(r) = r[1] /\ Tail(r) \in Seq(S) /\ Len(Tail(r)) = Len(s)
      /\ \A i \in 1..Len(s) : Tail(r)[i] = r[i + 1]
  BY <1>3, <1>4, HeadTailProperties
<1>6. \A i \in 1..Len(s) : Tail(r)[i] = s[i]
  BY <1>3, <1>5
<1>7. Tail(r) = s
  BY <1>5, <1>6, SeqEqual
<1>8. QED
  BY <1>2, <1>3, <1>4, <1>5, <1>7

LEMMA ConsHeadTail ==
  ASSUME NEW S, NEW s \in Seq(S), s # <<>>
  PROVE  <<Head(s)>> \o Tail(s) = s
<1>1. /\ Head(s) \in S /\ Tail(s) \in Seq(S) /\ Len(Tail(s)) = Len(s) - 1
      /\ \A i \in 1..Len(Tail(s)) : Tail(s)[i] = s[i + 1]
      /\ Head(s) = s[1] /\ Len(s) \in Nat \ {0}
  BY HeadTailProperties, EmptySeq
<1>2. PICK h, t : h = Head(s) /\ t = Tail(s)
  OBVIOUS
<1>3. <<h>> \in Seq(S) /\ Len(<<h>>) = 1 /\ <<h>>[1] = h
  BY <1>1, <1>2
<1>4. PICK r : r = <<h>> \o t
  OBVIOUS
<1>5. /\ r \in Seq(S) /\ Len(r) = 1 + Len(t)
      /\ \A i \in 1..(1 + Len(t)) : r[i] = IF i <= 1 THEN <<h>>[i] ELSE t[i - 1]
  BY <1>1, <1>2, <1>3, <1>4, ConcatProperties
<1>6. Len(r) = Len(s) /\ \A i \in 1..Len(s) : r[i] = s[i]
  BY <1>1, <1>2, <1>3, <1>5
<1>7. QED
  BY <1>2, <1>4, <1>5, <1>6, SeqEqual

LEMMA ConsAppend ==
  ASSUME NEW S, NEW x \in S, NEW s \in Seq(S), NEW y \in S
  PROVE  <<x>> \o Append(s, y) = Append(<<x>> \o s, y)
<1>1. <<x>> \in Seq(S) /\ <<y>> \in Seq(S)
  OBVIOUS
<1>2. Append(s, y) = s \o <<y>>
  BY AppendIsConcat
<1>3. Append(<<x>> \o s, y) = (<<x>> \o s) \o <<y>>
  BY ConsProperties, AppendIsConcat
<1>4. QED
  BY <1>1, <1>2, <1>3, ConcatAssociative

\* After a failed write nobody is on the write path, and the flag keeps
\* everybody out of it.
BrokenInv ==
  failed # {} => outstanding = {} /\ writing /\ \A t \in Actors : ~Owns(t)

\* A message is dropped on the way to the termination, and then none is written
\* before the socket is closed: the state stays LogoutPending, but for the thread
\* that is about to close.
DroppedInv ==
  /\ \A t \in Actors : pc[t] \in {"handler", "close", "erase", "reset"} => dropped # {}
  /\ dropped # {} => state # "Alive"
  /\ dropped # {} /\ socketOpen =>
       /\ outstanding = {}
       /\ \A t \in Actors : pc[t] # "write"
       /\ state = "Terminated" => \E t \in Actors : pc[t] = "close"

LEMMA InitLoss == Init => BrokenInv /\ DroppedInv
BY DEF Init, BrokenInv, DroppedInv

LEMMA NextBroken == TypeOK /\ WriterInv /\ BrokenInv /\ [Next]_vars => BrokenInv'
<1> SUFFICES ASSUME TypeOK, WriterInv, BrokenInv, [Next]_vars PROVE BrokenInv'
  OBVIOUS
<1>1. CASE UNCHANGED vars
  BY <1>1 DEF vars, sendVars, histVars, BrokenInv, Owns
<1>2. ASSUME NEW t \in Threads, NEW g \in Goals, Push(t, g) PROVE BrokenInv'
  BY <1>2 DEF Push, BrokenInv, Owns, OwnerPlaces, TypeOK, Goto, Actors
<1>3. ASSUME NEW t \in Actors, Step(t) PROVE BrokenInv'
  <2>1. After(t) \notin OwnerPlaces
    BY AfterPlace DEF TypeOK
  <2>2. CASE BeginWrite(t)
    BY <2>1, <2>2 DEF BeginWrite, BrokenInv, Owns, TypeOK, Goto, histVars
  <2>3. CASE Owns(t)
    <3>1. failed' = failed
      BY <1>3 DEF Step, BeginWrite, TryPop, CheckTermination, TestHandler,
         CloseSession, EraseWaitingSession, ResetHandler, AsyncWrite, ClearFlag,
         MoveUserToTerminationZone, RemoveUsrSession, ArmHandler, histVars
    <3>2. QED
      BY <2>3, <3>1 DEF BrokenInv
  <2>4. CASE MoveUserToTerminationZone(t) \/ RemoveUsrSession(t) \/ ArmHandler(t)
    BY <2>4 DEF MoveUserToTerminationZone, RemoveUsrSession, ArmHandler, BrokenInv,
                Owns, OwnerPlaces, TypeOK, Goto, sendVars, histVars
  <2>5. BeginWrite(t) \/ Owns(t) \/ MoveUserToTerminationZone(t)
          \/ RemoveUsrSession(t) \/ ArmHandler(t)
    BY <1>3 DEF Step, TryPop, CheckTermination, TestHandler, CloseSession,
       EraseWaitingSession, ResetHandler, AsyncWrite, ClearFlag, Owns, OwnerPlaces
  <2>6. QED
    BY <2>2, <2>3, <2>4, <2>5
<1>4. ASSUME Completion PROVE BrokenInv'
  <2>1. PICK m \in outstanding : WriteDone(m) \/ WriteFailed(m)
    BY <1>4 DEF Completion
  <2>2. /\ outstanding = {m} /\ \A t \in Actors : ~Owns(t)
        /\ writing /\ failed = {}
    BY DEF WriterInv, ExclusiveWriter, FlagHeld, BrokenInv
  <2>3. CASE WriteDone(m)
    BY <2>2, <2>3 DEF WriteDone, BrokenInv
  <2>4. CASE WriteFailed(m)
    BY <2>2, <2>4 DEF WriteFailed, BrokenInv, Owns, OwnerPlaces, TypeOK, Goto, Actors
  <2>5. QED
    BY <2>1, <2>3, <2>4
<1>5. ASSUME ReadFailed PROVE BrokenInv'
  BY <1>5 DEF ReadFailed, BrokenInv, Owns, OwnerPlaces, TypeOK, Goto, Actors, sendVars,
              histVars
<1>6. QED
  BY <1>1, <1>2, <1>3, <1>4, <1>5 DEF Next

LEMMA NextDropped == TypeOK /\ WriterInv /\ DroppedInv /\ [Next]_vars => DroppedInv'
<1> SUFFICES ASSUME TypeOK, WriterInv, DroppedInv, [Next]_vars PROVE DroppedInv'
  OBVIOUS
<1>0. \A s, t \in Actors : Owns(s) /\ Owns(t) => s = t
  BY DEF WriterInv, ExclusiveWriter
<1>1. CASE UNCHANGED vars
  BY <1>1 DEF vars, sendVars, termVars, histVars, DroppedInv
<1>2. ASSUME NEW t \in Threads, NEW g \in Goals, Push(t, g) PROVE DroppedInv'
  BY <1>2 DEF Push, DroppedInv, TypeOK, Goto, Actors, termVars
<1>3. ASSUME NEW t \in Actors, Step(t) PROVE DroppedInv'
  <2>1. After(t) \notin OwnerPlaces
    BY AfterPlace DEF TypeOK
  <2>2. CASE BeginWrite(t)
    BY <2>1, <2>2
    DEF BeginWrite, DroppedInv, OwnerPlaces, TypeOK, Goto, termVars, histVars
  <2>3. CASE TryPop(t)
    BY <2>3 DEF TryPop, DroppedInv, TypeOK, Goto, termVars, histVars
  <2>4. CASE CheckTermination(t)
    <3>1. /\ outstanding = {} /\ \A s \in Actors : pc[s] # "write" /\ pc[s] # "close"
      BY <1>0, <2>4
      DEF CheckTermination, WriterInv, ExclusiveWriter, Owns, OwnerPlaces
    <3>2. CASE state = "LogoutPending"
      BY <2>4, <3>1, <3>2
      DEF CheckTermination, DroppedInv, TypeOK, Goto, sendVars, termVars
    <3>3. CASE state # "LogoutPending"
      <4>1. ~(dropped # {} /\ socketOpen)
        BY <3>1, <3>3 DEF DroppedInv, TypeOK
      <4>2. QED
        BY <2>4, <3>3, <4>1
        DEF CheckTermination, DroppedInv, TypeOK, Goto, sendVars, termVars
    <3>4. QED
      BY <3>2, <3>3
  <2>5. CASE TestHandler(t)
    BY <2>5 DEF TestHandler, DroppedInv, TypeOK, Goto, sendVars, histVars
  <2>6. CASE CloseSession(t)
    BY <2>6 DEF CloseSession, DroppedInv, TypeOK, Goto, sendVars, histVars
  <2>7. CASE EraseWaitingSession(t) \/ ResetHandler(t)
    BY <2>7 DEF EraseWaitingSession, ResetHandler, DroppedInv, TypeOK, Goto,
                sendVars, histVars
  <2>8. CASE AsyncWrite(t)
    <3>1. ~(dropped # {} /\ socketOpen)
      BY <2>8 DEF AsyncWrite, DroppedInv
    <3>2. QED
      BY <2>1, <2>8, <3>1
      DEF AsyncWrite, DroppedInv, OwnerPlaces, TypeOK, Goto, termVars, histVars
  <2>9. CASE ClearFlag(t)
    BY <2>1, <2>9
    DEF ClearFlag, DroppedInv, OwnerPlaces, TypeOK, Goto, termVars, histVars
  <2>10. CASE MoveUserToTerminationZone(t) \/ ArmHandler(t)
    BY <2>10 DEF MoveUserToTerminationZone, ArmHandler, DroppedInv, TypeOK, Goto,
                 sendVars, histVars
  <2>11. CASE RemoveUsrSession(t)
    BY <2>11 DEF RemoveUsrSession, DroppedInv, TypeOK, Goto, sendVars
  <2>12. QED
    BY <1>3, <2>2, <2>3, <2>4, <2>5, <2>6, <2>7, <2>8, <2>9, <2>10, <2>11 DEF Step
<1>4. ASSUME Completion PROVE DroppedInv'
  BY <1>4 DEF Completion, WriteDone, WriteFailed, DroppedInv, TypeOK, Goto, Actors,
              termVars
<1>5. ASSUME ReadFailed PROVE DroppedInv'
  BY <1>5 DEF ReadFailed, DroppedInv, TypeOK, Goto, Actors, sendVars, termVars, histVars
<1>6. QED
  BY <1>1, <1>2, <1>3, <1>4, <1>5 DEF Next

\* What the refinement rests on.
SendInv == TypeOK /\ HandInv /\ WriterInv /\ BrokenInv /\ DroppedInv

LEMMA InitSend == Init => SendInv
BY InitTypeOK, InitWriter, InitLoss DEF SendInv

LEMMA NextSend == SendInv /\ [Next]_vars => SendInv'
BY NextTypeOK, NextHandInv, NextWriter, NextBroken, NextDropped DEF SendInv

\* A step that leaves what the outbox shows as it was.
LEMMA OutboxFrame ==
  ASSUME UNCHANGED <<queue, cur, wire, pushed, failed, dropped, socketOpen>>,
         InFlight' <=> InFlight, (state' = "Alive") <=> (state = "Alive")
  PROVE  UNCHANGED Abstract!vars
<1>1. Pending' = Pending
  BY PendingIs
<1>2. QED
  BY <1>1 DEF Abstract!vars

LEMMA InitOutbox == Init => Abstract!Init
<1> SUFFICES ASSUME Init PROVE Abstract!Init
  OBVIOUS
<1>1. ~InFlight
  BY DEF Init, InFlight, HandBusy
<1>2. Pending = <<>>
  BY <1>1, PendingIs DEF Init
<1>3. QED
  BY <1>2 DEF Init, Abstract!Init

LEMMA NextOutbox == SendInv /\ [Next]_vars => [Abstract!Next]_(Abstract!vars)
<1> SUFFICES ASSUME SendInv, [Next]_vars PROVE [Abstract!Next]_(Abstract!vars)
  OBVIOUS
<1> USE DEF SendInv
<1>0. InFlight => cur \in Msg
  BY DEF InFlight, HandBusy, HandInv, TypeOK, WriterInv, ExclusiveWriter
<1>1. CASE UNCHANGED vars
  BY <1>1, OutboxFrame DEF vars, sendVars, termVars, histVars, InFlight, HandBusy
<1>2. ASSUME NEW t \in Threads, NEW g \in Goals, Push(t, g) PROVE Abstract!Accept
  <2>1. pushed' = pushed + 1 /\ pushed' \in Msg /\ queue' = Append(queue, pushed')
    BY <1>2 DEF Push, Msg, TypeOK
  <2>2. (InFlight' <=> InFlight) /\ cur' = cur
    BY <1>2 DEF Push, InFlight, HandBusy, TypeOK, Goto
  <2>3. Pending' = Append(Pending, pushed')
    <3>1. CASE InFlight
      BY <1>0, <2>1, <2>2, <3>1, PendingIs, ConsAppend DEF TypeOK
    <3>2. CASE ~InFlight
      BY <2>1, <2>2, <3>2, PendingIs
    <3>3. QED
      BY <3>1, <3>2
  <2>4. QED
    BY <1>2, <2>1, <2>3 DEF Push, termVars, Abstract!Accept
<1>3. ASSUME NEW t \in Actors, Step(t) PROVE [Abstract!Next]_(Abstract!vars)
  <2>1. After(t) \notin {"check", "write"}
    BY AfterPlace DEF TypeOK, OwnerPlaces
  <2>2. Owns(t) => outstanding = {} /\ \A s \in Actors : Owns(s) => s = t
    BY DEF WriterInv, ExclusiveWriter
  <2>3. CASE TryPop(t)
    <3>1. ~InFlight
      BY <2>2, <2>3 DEF TryPop, InFlight, HandBusy, Owns, OwnerPlaces
    <3>2. CASE queue # <<>>
      <4>1. cur' = Head(queue) /\ queue' = Tail(queue) /\ Goto(t, "check")
        BY <2>3, <3>2 DEF TryPop
      <4>2. InFlight'
        BY <4>1 DEF InFlight, HandBusy, TypeOK, Goto
      <4>3. Pending' = Pending
        BY <3>1, <3>2, <4>1, <4>2, PendingIs, ConsHeadTail DEF TypeOK
      <4>4. QED
        BY <2>3, <4>3 DEF TryPop, termVars, histVars, Abstract!vars
    <3>3. CASE queue = <<>>
      BY <2>3, <3>1, <3>3, OutboxFrame
      DEF TryPop, termVars, histVars, InFlight, HandBusy, TypeOK, Goto
    <3>4. QED
      BY <3>2, <3>3
  <2>4. CASE BeginWrite(t)
    BY <2>1, <2>4, OutboxFrame
    DEF BeginWrite, termVars, histVars, InFlight, HandBusy, TypeOK, Goto
  <2>5. CASE CheckTermination(t)
    <3>1. InFlight
      BY <2>5 DEF CheckTermination, InFlight, HandBusy
    <3>2. CASE state = "LogoutPending"
      <4>1. dropped' = dropped \cup {cur} /\ Goto(t, "handler") /\ failed = {}
        BY <2>2, <2>5, <3>2 DEF CheckTermination, BrokenInv, Owns, OwnerPlaces
      <4>2. ~InFlight'
        BY <2>2, <2>5, <4>1
        DEF CheckTermination, InFlight, HandBusy, TypeOK, Goto, Owns, OwnerPlaces,
            sendVars
      <4>3. /\ Pending # <<>> /\ Pending' = Tail(Pending)
        BY <1>0, <2>5, <3>1, <4>2, PendingIs, ConsProperties
        DEF CheckTermination, sendVars, TypeOK
      <4>4. Abstract!Lose
        BY <2>5, <3>2, <4>1, <4>3 DEF CheckTermination, termVars, Abstract!Lose
      <4>5. QED
        BY <4>4 DEF Abstract!Next
    <3>3. CASE state # "LogoutPending"
      BY <2>5, <3>3, OutboxFrame
      DEF CheckTermination, sendVars, termVars, InFlight, HandBusy, TypeOK, Goto
    <3>4. QED
      BY <3>2, <3>3
  <2>6. CASE AsyncWrite(t)
    BY <2>6, OutboxFrame DEF AsyncWrite, termVars, histVars, InFlight, HandBusy
  <2>7. CASE ClearFlag(t)
    BY <2>1, <2>7, OutboxFrame
    DEF ClearFlag, termVars, histVars, InFlight, HandBusy, TypeOK, Goto
  <2>8. CASE TestHandler(t)
    <3>1. state # "Alive"
      BY <2>8 DEF TestHandler, DroppedInv
    <3>2. QED
      BY <2>8, <3>1, OutboxFrame
      DEF TestHandler, sendVars, histVars, InFlight, HandBusy, TypeOK, Goto
  <2>9. CASE CloseSession(t)
    <3>1. dropped # {} /\ state # "Alive" /\ failed = {}
      BY <2>9 DEF CloseSession, DroppedInv, BrokenInv, Owns, OwnerPlaces
    <3>2. InFlight' <=> InFlight
      BY <2>9 DEF CloseSession, sendVars, InFlight, HandBusy, TypeOK, Goto
    <3>3. Pending' = Pending
      BY <2>9, <3>2, PendingIs DEF CloseSession, sendVars
    <3>4. Abstract!Close
      BY <2>9, <3>1, <3>3 DEF CloseSession, histVars, Abstract!Close
    <3>5. QED
      BY <3>4 DEF Abstract!Next
  <2>10. CASE EraseWaitingSession(t) \/ ResetHandler(t)
    BY <2>10, OutboxFrame
    DEF EraseWaitingSession, ResetHandler, sendVars, histVars, InFlight, HandBusy,
        TypeOK, Goto
  <2>11. CASE MoveUserToTerminationZone(t) \/ ArmHandler(t)
    BY <2>11, OutboxFrame
    DEF MoveUserToTerminationZone, ArmHandler, sendVars, histVars, InFlight, HandBusy,
        TypeOK, Goto
  <2>12. CASE RemoveUsrSession(t)
    <3>1. InFlight' <=> InFlight
      BY <2>12 DEF RemoveUsrSession, sendVars, InFlight, HandBusy, TypeOK, Goto
    <3>2. Pending' = Pending
      BY <2>12, <3>1, PendingIs DEF RemoveUsrSession, sendVars
    <3>3. CASE waiting
      <4>1. Abstract!AskToEnd
        BY <2>12, <3>2, <3>3 DEF RemoveUsrSession, Abstract!AskToEnd
      <4>2. QED
        BY <4>1 DEF Abstract!Next
    <3>4. CASE ~waiting
      BY <2>12, <3>1, <3>4, OutboxFrame DEF RemoveUsrSession, sendVars
    <3>5. QED
      BY <3>3, <3>4
  <2>13. QED
    BY <1>3, <2>3, <2>4, <2>5, <2>6, <2>7, <2>8, <2>9, <2>10, <2>11, <2>12 DEF Step
<1>4. ASSUME Completion PROVE Abstract!Next
  <2>1. PICK m \in outstanding : WriteDone(m) \/ WriteFailed(m)
    BY <1>4 DEF Completion
  <2>2. /\ outstanding = {m} /\ m = cur /\ \A t \in Actors : ~Owns(t)
        /\ failed = {}
    BY DEF WriterInv, ExclusiveWriter, BrokenInv
  <2>3. InFlight
    BY DEF InFlight
  <2>4. ~InFlight'
    BY <2>1, <2>2 DEF WriteDone, WriteFailed, InFlight, HandBusy, TypeOK, Goto, Owns,
                      OwnerPlaces, Actors
  <2>5. Pending # <<>> /\ Head(Pending) = m /\ Pending' = Tail(Pending)
    BY <1>0, <2>1, <2>2, <2>3, <2>4, PendingIs, ConsProperties
    DEF WriteDone, WriteFailed, TypeOK
  <2>6. CASE WriteDone(m)
    <3>1. dropped = {}
      BY <2>6 DEF WriteDone, DroppedInv
    <3>2. Abstract!Transmit
      BY <2>2, <2>5, <2>6, <3>1 DEF WriteDone, termVars, TypeOK, Abstract!Transmit
    <3>3. QED
      BY <3>2 DEF Abstract!Next
  <2>7. CASE WriteFailed(m)
    <3>1. Abstract!Lose
      BY <2>2, <2>5, <2>7 DEF WriteFailed, termVars, Abstract!Lose
    <3>2. QED
      BY <3>1 DEF Abstract!Next
  <2>8. QED
    BY <2>1, <2>6, <2>7
<1>5. ASSUME ReadFailed PROVE UNCHANGED Abstract!vars
  BY <1>5, OutboxFrame DEF ReadFailed, sendVars, termVars, histVars, InFlight,
                           HandBusy, TypeOK, Goto, Actors
<1>6. QED
  BY <1>1, <1>2, <1>3, <1>4, <1>5 DEF Next, Abstract!Next

\* Sending and the deferred termination implement the outbox: the peer gets the
\* pushed messages in order, one after the other, until the connection breaks or
\* a requested termination drops one, and none after that.
THEOREM OutboxIsKept == Spec => ImplementsOutbox
<1>1. QED
  BY InitSend, NextSend, InitOutbox, NextOutbox, PTL
  DEF Spec, ImplementsOutbox, Abstract!Spec

\* The invariant behind it is one of the promise alone, so it is proved of the
\* steps of Outbox and carried over by the refinement.
GapInv ==
  /\ pushed \in Nat /\ Pending \in Seq(Nat) /\ wire \in Seq(Nat)
  /\ Abstract!NoGap
  /\ Abstract!Whole

LEMMA InitGap == Abstract!Init => GapInv
BY EmptySeq DEF Abstract!Init, GapInv, Abstract!NoGap, Abstract!Whole

LEMMA NextGap == GapInv /\ [Abstract!Next]_(Abstract!vars) => GapInv'
<1> SUFFICES ASSUME GapInv, [Abstract!Next]_(Abstract!vars) PROVE GapInv'
  OBVIOUS
<1> DEFINE lost == failed \cup dropped # {}
<1>0. Len(wire) \in Nat /\ Len(Pending) \in Nat
  BY LenProperties DEF GapInv
<1>1. CASE UNCHANGED Abstract!vars
  BY <1>1 DEF Abstract!vars, GapInv, Abstract!NoGap, Abstract!Whole
<1>2. CASE Abstract!Accept
  <2>1. pushed' = pushed + 1 /\ wire' = wire /\ lost' = lost
    BY <1>2 DEF Abstract!Accept
  <2>2. /\ Pending' \in Seq(Nat) /\ Len(Pending') = Len(Pending) + 1
        /\ \A i \in 1..Len(Pending) : Pending'[i] = Pending[i]
        /\ Pending'[Len(Pending) + 1] = pushed + 1
    BY <1>2, <2>1, AppendProperties DEF Abstract!Accept, GapInv
  <2>3. ~lost' => /\ Len(wire') + Len(Pending') = pushed'
                  /\ \A i \in 1..Len(Pending') : Pending'[i] = Len(wire') + i
    <3> SUFFICES ASSUME ~lost'
                 PROVE  /\ Len(wire') + Len(Pending') = pushed'
                        /\ \A i \in 1..Len(Pending') : Pending'[i] = Len(wire') + i
      OBVIOUS
    <3>1. /\ Len(wire) + Len(Pending) = pushed
          /\ \A i \in 1..Len(Pending) : Pending[i] = Len(wire) + i
      BY <2>1 DEF GapInv, Abstract!Whole
    <3>2. ASSUME NEW i \in 1..Len(Pending') PROVE Pending'[i] = Len(wire) + i
      <4>1. i \in 1..Len(Pending) \/ i = Len(Pending) + 1
        BY <1>0, <2>2
      <4>2. CASE i \in 1..Len(Pending)
        BY <2>2, <3>1, <4>2
      <4>3. CASE i = Len(Pending) + 1
        BY <1>0, <2>2, <3>1, <4>3
      <4>4. QED
        BY <4>1, <4>2, <4>3
    <3>3. Len(wire) + Len(Pending') = pushed + 1
      BY <1>0, <2>2, <3>1
    <3>4. QED
      BY <2>1, <3>2, <3>3
  <2>4. QED
    BY <2>1, <2>2, <2>3 DEF GapInv, Abstract!NoGap, Abstract!Whole
<1>3. CASE Abstract!Transmit
  <2>1. /\ pushed' = pushed /\ ~lost /\ lost' = lost /\ Pending # <<>>
        /\ wire' = Append(wire, Head(Pending)) /\ Pending' = Tail(Pending)
    BY <1>3 DEF Abstract!Transmit
  <2>2. /\ Head(Pending) \in Nat /\ Head(Pending) = Pending[1]
        /\ Pending' \in Seq(Nat) /\ Len(Pending') = Len(Pending) - 1
        /\ \A i \in 1..Len(Pending') : Pending'[i] = Pending[i + 1]
        /\ Len(Pending) \in Nat \ {0}
    BY <2>1, HeadTailProperties, EmptySeq DEF GapInv
  <2>3. /\ wire' \in Seq(Nat) /\ Len(wire') = Len(wire) + 1
        /\ \A i \in 1..Len(wire) : wire'[i] = wire[i]
        /\ wire'[Len(wire) + 1] = Pending[1]
    BY <2>1, <2>2, AppendProperties DEF GapInv
  <2>4. /\ Len(wire) + Len(Pending) = pushed
        /\ \A i \in 1..Len(Pending) : Pending[i] = Len(wire) + i
    BY <2>1 DEF GapInv, Abstract!Whole
  <2>5. Pending[1] = Len(wire) + 1
    BY <2>2, <2>4
  <2>6. /\ Len(wire') + Len(Pending') = pushed'
        /\ \A i \in 1..Len(Pending') : Pending'[i] = Len(wire') + i
    <3>1. Len(wire') + Len(Pending') = pushed
      BY <1>0, <2>2, <2>3, <2>4
    <3>2. ASSUME NEW i \in 1..Len(Pending') PROVE Pending'[i] = Len(wire') + i
      <4>1. i \in Nat /\ i + 1 \in 1..Len(Pending)
        BY <1>0, <2>2
      <4>2. Pending'[i] = Len(wire) + (i + 1)
        BY <2>2, <2>4, <4>1
      <4>3. QED
        BY <1>0, <2>3, <4>1, <4>2
    <3>3. QED
      BY <2>1, <3>1, <3>2
  <2>7. \A i \in 1..Len(wire') : wire'[i] = i
    <3> TAKE i \in 1..Len(wire')
    <3>1. i \in 1..Len(wire) \/ i = Len(wire) + 1
      BY <1>0, <2>3
    <3>2. CASE i \in 1..Len(wire)
      BY <2>3, <3>2 DEF GapInv, Abstract!NoGap
    <3>3. CASE i = Len(wire) + 1
      BY <2>3, <2>5, <3>3
    <3>4. QED
      BY <3>1, <3>2, <3>3
  <2>8. QED
    BY <2>1, <2>2, <2>3, <2>6, <2>7 DEF GapInv, Abstract!NoGap, Abstract!Whole
<1>4. CASE Abstract!Lose
  <2>1. Pending' \in Seq(Nat)
    BY <1>4, HeadTailProperties DEF Abstract!Lose, GapInv
  <2>2. QED
    BY <1>4, <2>1 DEF Abstract!Lose, GapInv, Abstract!NoGap, Abstract!Whole
<1>5. CASE Abstract!AskToEnd
  BY <1>5 DEF Abstract!AskToEnd, GapInv, Abstract!NoGap, Abstract!Whole
<1>6. CASE Abstract!Close
  BY <1>6 DEF Abstract!Close, GapInv, Abstract!NoGap, Abstract!Whole
<1>7. QED
  BY <1>1, <1>2, <1>3, <1>4, <1>5, <1>6 DEF Abstract!Next

\* However the senders and a termination interleave, the messages that reached
\* the peer are the first ones pushed, each once, in order and without a gap.
THEOREM WireOrder == Spec => []WireWithoutGap
<1>1. Abstract!Spec => []GapInv
  BY InitGap, NextGap, PTL DEF Abstract!Spec
<1>2. GapInv => WireWithoutGap
  BY DEF GapInv, WireWithoutGap
<1>3. QED
  BY <1>1, <1>2, OutboxIsKept, PTL DEF ImplementsOutbox

=============================================================================
