----------------------------- MODULE MCJobQueue -----------------------------
(***************************************************************************)
(* Model-checking instances of JobQueue: a queue of two or three slots and *)
(* buffers that leave room, fill the queue, overrun it, hold a newline in  *)
(* front of more bytes, or hold nothing but a newline.                     *)
(***************************************************************************)
EXTENDS JobQueue

MCItem == {65, 66, 67}
MCNewLine == 10
MCBuf == {<<65>>, <<66, 67>>, <<65, 66, 67>>, <<67, 10, 65>>, <<10>>}
=============================================================================
