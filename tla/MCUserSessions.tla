--------------------------- MODULE MCUserSessions ---------------------------
(* One user, two connections to the same chatting server or to two.         *)
EXTENDS UserSessions

CONSTANTS s1, s2, w1, w2, t1, c1, c2

MCSites == {[t \in Clients |-> IF t = w2 \/ t \in far THEN s2 ELSE s1] :
              far \in {{}, {c2}}}
=============================================================================
