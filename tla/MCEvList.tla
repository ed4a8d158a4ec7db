------------------------------ MODULE MCEvList ------------------------------
(***************************************************************************)
(* Model-checking instance of EvList. Two descriptors tell events apart;   *)
(* the list has two slots, so that it fills, wraps and overflows within    *)
(* the MaxPush calls the configuration allows.                             *)
(***************************************************************************)
EXTENDS EvList

\* Descriptors are small integers in the code; 0 is what calloc leaves in a slot.
MCFd == {4, 5}
MCGarbage == -1
=============================================================================
