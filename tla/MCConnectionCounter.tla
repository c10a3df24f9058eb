------------------------ MODULE MCConnectionCounter ------------------------
(* A chatting server, two of its threads and one of the balance server.     *)
EXTENDS ConnectionCounter

CONSTANTS s1, w1, w2, b

MCWorkers == {w1, w2}
MCHome == [w \in MCWorkers |-> s1]
=============================================================================
