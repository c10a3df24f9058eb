------------------------------- MODULE Outbox -------------------------------
(***************************************************************************)
(* What a session promises to those who send on it: the peer receives what *)
(* was pushed, from the first message on and without a gap, until one is   *)
(* lost.  A message is lost only when the connection broke or after a      *)
(* termination was asked for, and nothing is transmitted after that.       *)
(***************************************************************************)
EXTENDS Naturals, Sequences

VARIABLES
  accepted,  \* the number of messages pushed; a message is named by its place
  pending,   \* the messages still to be transmitted, oldest first
  sent,      \* the messages transmitted, in order
  ending,    \* a termination was asked for
  broken,    \* an async_write failed
  lost,      \* a message was lost
  open       \* the socket is open

vars == <<accepted, pending, sent, ending, broken, lost, open>>

Init ==
  /\ accepted = 0
  /\ pending = <<>>
  /\ sent = <<>>
  /\ ending = FALSE
  /\ broken = FALSE
  /\ lost = FALSE
  /\ open = TRUE

\* Messages are accepted even when nobody will transmit them any more.
Accept ==
  /\ accepted' = accepted + 1
  /\ pending' = Append(pending, accepted')
  /\ UNCHANGED <<sent, ending, broken, lost, open>>

Transmit ==
  /\ lost = FALSE
  /\ open = TRUE
  /\ pending # <<>>
  /\ sent' = Append(sent, Head(pending))
  /\ pending' = Tail(pending)
  /\ UNCHANGED <<accepted, ending, broken, lost, open>>

\* A termination drops one message after the other; a connection breaks once
\* and then takes no further message.
Lose ==
  /\ broken = FALSE
  /\ pending # <<>>
  /\ pending' = Tail(pending)
  /\ lost' = TRUE
  /\ \/ broken' = TRUE
     \/ ending = TRUE /\ UNCHANGED broken
  /\ UNCHANGED <<accepted, sent, ending, open>>

AskToEnd ==
  /\ ending' = TRUE
  /\ UNCHANGED <<accepted, pending, sent, broken, lost, open>>

\* The socket is closed in place of sending one more message.
Close ==
  /\ ending = TRUE
  /\ lost = TRUE
  /\ broken = FALSE
  /\ open' = FALSE
  /\ UNCHANGED <<accepted, pending, sent, ending, broken, lost>>

Next == Accept \/ Transmit \/ Lose \/ AskToEnd \/ Close

Spec == Init /\ [][Next]_vars

\* The peer's view: the first messages, all of them, in order.
NoGap == \A i \in 1..Len(sent) : sent[i] = i

\* Until a message is lost, what is pending goes on where the peer's view ends.
Whole ==
  lost = FALSE =>
    /\ Len(sent) + Len(pending) = accepted
    /\ \A i \in 1..Len(pending) : pending[i] = Len(sent) + i
=============================================================================
