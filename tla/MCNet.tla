------------------------------- MODULE MCNet -------------------------------
(***************************************************************************)
(* One CNode at a time, whose place is used again, one service to connect  *)
(* to and two outbound slots.  Of the two threads one opens connections,   *)
(* as opencon and addcon do, and the other does all that RPC threads do:   *)
(* addnode onetry (and addcon), masternodeconnect and mixing.  They meet   *)
(* on the same node, or each makes one in turn.                            *)
(***************************************************************************)
EXTENDS Net

MCDoes == [t1 |-> {"open"}, t2 |-> {"open", "check", "mix"}]
=============================================================================
