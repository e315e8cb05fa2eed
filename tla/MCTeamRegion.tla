---------------------------- MODULE MCTeamRegion ----------------------------
(***************************************************************************)
(* Programs for the team: two nodes with two places each, two to three     *)
(* regions and at most four threads.                                       *)
(***************************************************************************)
EXTENDS TeamRegion

TwoAndTwo == [n \in Nodes |-> 2]
OneAndTwo == [n \in Nodes |-> n + 1]

SameTeam    == <<1, 4, 4>>  \* the usual program: one size of team throughout
TwoRegions  == <<4, 4>>
LeaveNode   == <<4, 2>>     \* the second region runs on the origin only
SerialAfter == <<3, 1>>     \* a region of one thread follows at once
GrowingTeam == <<2, 3>>     \* the remote node gains a thread
SplitNode   == <<4, 3>>     \* the remote node loses one of two threads
=============================================================================
