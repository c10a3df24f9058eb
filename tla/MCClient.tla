------------------------------ MODULE MCClient ------------------------------
(* A client of one of three users.                                          *)
EXTENDS Client

CONSTANTS u1, u2, u3, m1, m2, work, mate

MCUsers == {u1, u2, u3}
MCIds == {m1, m2}
MCHellos == {<<>>, <<m1, m2>>, <<m1, m1>>}
Account(u, r, f) == [uuid |-> u, requests |-> r, friends |-> f]
MCAccounts == {Account(u1, <<u3>>, {u2}), Account(u1, <<u2, u3>>, {}),
               Account(u1, <<>>, {u2, u3}), Account(u2, <<u3>>, {u1})}
MCBatches == {<<1>>, <<3, 0, 2>>}
MCTestTags == <<work, work>>
MCPictures == {<<8, 6>>, <<6, 9>>}

Budget(h, l, c, s, u, t, r) ==
  [http |-> h, loss |-> l, chunk |-> c, server |-> s, user |-> u, tag |-> t, crop |-> r]
MCBudgets == {Budget(3, 2, 1, 0, 0, 0, 0), Budget(1, 1, 2, 0, 0, 0, 0),
              Budget(1, 0, 0, 3, 3, 0, 0), Budget(1, 0, 0, 4, 1, 0, 0),
              Budget(2, 1, 0, 2, 2, 0, 0), Budget(1, 1, 0, 0, 3, 4, 0),
              Budget(1, 1, 0, 0, 1, 0, 1)}
=============================================================================
