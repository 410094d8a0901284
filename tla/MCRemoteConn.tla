---------------------------- MODULE MCRemoteConn ----------------------------
(* Instances of RemoteConn for TLC. *)
EXTENDS RemoteConn
=============================================================================
