---------------------------- MODULE MCLoopServer ----------------------------
(***************************************************************************)
(* Model-checking instances of LoopServer: descriptor 1 is the listener    *)
(* and clients start at 2.                                                 *)
(***************************************************************************)
EXTENDS LoopServer

MCProgram == {"poll", "select", "select2", "epoll"}
=============================================================================
