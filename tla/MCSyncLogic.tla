---------------------------- MODULE MCSyncLogic ----------------------------
(* SyncLogic with a request for each kind of handler.                       *)
EXTENDS SyncLogic

CONSTANTS main, worker, io1, io2, login, logout, search, c1, c2, c3

MCKind == [r \in {login, logout, search} |->
             CASE r = login -> "login" [] r = logout -> "logout"
               [] r = search -> "search"]
=============================================================================
