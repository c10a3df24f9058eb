---------------------------- MODULE MCMessaging ----------------------------
(* Three users and two servers: strangers, one of them without a profile;   *)
(* two who ask each other, one of whom has a friend to write to meanwhile;  *)
(* a user with two friends.                                                *)
EXTENDS Messaging

CONSTANTS s1, s2

MCUsers == 1..3
MCHomes == {<<s1, s2, s1>>, <<s1, s2, NoOne>>}

Asked(d, u, v) == CreateFriendRequest(d, u, v).db
Befriended(d, u, v) == ConfirmFriend(Asked(d, u, v), u, v).db
MCTables == {[EmptyDb EXCEPT !.profile = {1, 2}],
             Asked(Asked(Befriended(EmptyDb, 3, 1), 1, 2), 2, 1),
             Befriended(Befriended(EmptyDb, 1, 2), 3, 1)}
=============================================================================
