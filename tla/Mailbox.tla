------------------------------ MODULE Mailbox ------------------------------
(* What the messaging of the system promises its users: messages are stored *)
(* for good, and shown only to the two they are between, to each once; those *)
(* another user sent are shown in the order in which they were stored, and   *)
(* the server confirms a user's own texts to it once and in that order.      *)
EXTENDS Naturals, Sequences, SequencesExt

CONSTANT Users

VARIABLES
  bank,   \* the messages stored: [from, to]
  seen,   \* the lists of messages shown to each user, oldest first
  told    \* the lists of messages confirmed to each user, oldest first

\* The places of the messages in some lists, and which of two is read first.
Places(lists) == UNION {{<<i, k>> : k \in DOMAIN lists[i]} : i \in DOMAIN lists}
At(lists, p) == lists[p[1]][p[2]]
Before(p, q) == p[1] < q[1] \/ (p[1] = q[1] /\ p[2] < q[2])

\* What u is shown is from it or to it, and never shown again; what one other
\* user sent keeps its order.
ShownWell(u) ==
  /\ \A p \in Places(seen[u]) :
       /\ At(seen[u], p) \in DOMAIN bank
       /\ u \in {bank[At(seen[u], p)].from, bank[At(seen[u], p)].to}
  /\ \A p, q \in Places(seen[u]) :
       Before(p, q) =>
         LET x == At(seen[u], p)
             y == At(seen[u], q) IN
         /\ x # y
         /\ bank[x].from = bank[y].from /\ bank[x].from # u => x < y

\* What u is told was stored are its own texts, in the order they were.
ToldWell(u) ==
  /\ \A p \in Places(told[u]) :
       At(told[u], p) \in DOMAIN bank /\ bank[At(told[u], p)].from = u
  /\ \A p, q \in Places(told[u]) : Before(p, q) => At(told[u], p) < At(told[u], q)

Honest == \A u \in Users : ShownWell(u) /\ ToldWell(u)

Init == Honest

Next ==
  /\ IsPrefix(bank, bank')
  /\ \A u \in Users : IsPrefix(seen[u], seen'[u]) /\ IsPrefix(told[u], told'[u])
  /\ Honest'

Spec == Init /\ [][Next]_<<bank, seen, told>>
=============================================================================
