--------------------------- MODULE MCEpollServer ---------------------------
(***************************************************************************)
(* Model-checking instances of EpollServer. Descriptors start at 1: 0 is   *)
(* standard input, the value a calloc'ed slot holds, and the others the    *)
(* program opens at start are left out of the numbering.                   *)
(***************************************************************************)
EXTENDS EpollServer

\* The queue is empty, or a previous process left one message in it.
MCStaleMq == {<< >>, << <<1>> >>}
=============================================================================
