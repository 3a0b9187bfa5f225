---------------------------- MODULE MCHostExits ----------------------------
(* One session and four losses, of connection, host, app or a store write; *)
(* any number of sessions is the subject of HostExitsProofs.               *)
EXTENDS HostExits

=============================================================================
