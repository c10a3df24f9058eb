----------------------------- MODULE MCBackend -----------------------------
(* Two clients, two chatting servers and a resources server.                *)
EXTENDS Backend

CONSTANTS c1, c2, r1

MCCallers == 1..2
MCThreads == 0..1
MCTables == {<<[name |-> 1, email |-> 1, password |-> 1]>>}
MCUp == {{c1, c2, r1}, {c1, r1}}
MCConnected == {[c \in MCCallers |-> r1]}

Budget(l, h, u, f, c) == [life |-> l, http |-> h, upload |-> u, failure |-> f, crash |-> c]
MCBudgets == {Budget(0, 2, 0, 1, 0), Budget(1, 1, 0, 1, 1), Budget(3, 0, 0, 0, 1),
              Budget(1, 0, 1, 1, 1), Budget(0, 0, 2, 1, 1)}
=============================================================================
