------------------------------ MODULE MCPrefork ------------------------------
(***************************************************************************)
(* Model-checking instances of Prefork.                                    *)
(***************************************************************************)
EXTENDS Prefork

MCPid   == 1 .. 5
MCFlags == {{}, {"NODEFER"}, {"NOCLDWAIT"}, {"RESETHAND"}, {"NOCLDSTOP"}}
MCMeant == {{"NOCLDSTOP"}}
=============================================================================
