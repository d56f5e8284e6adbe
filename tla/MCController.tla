----------------------------- MODULE MCController -----------------------------
(***************************************************************************)
(* Small instances of the controller.                                      *)
(***************************************************************************)
EXTENDS Controller

CONSTANTS t1, t2, local, other, special

LocalURL  == [scheme |-> "ws", host |-> local, port |-> 80]
OtherURL  == [scheme |-> "ws", host |-> other, port |-> 8080]

NoLaunch      == {}
OneLaunch     == {OtherURL}

OneURL  == {LocalURL}
Fresh   == {[serverURL |-> NoURL, agentToken |-> NoToken]}
Enrolled == {[serverURL |-> LocalURL, agentToken |-> t1]}
AnyStart == Fresh \cup Enrolled
=============================================================================
