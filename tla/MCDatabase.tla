----------------------------- MODULE MCDatabase -----------------------------
(***************************************************************************)
(* The prefix and AS number databases for model checking; a behaviour      *)
(* exercises one of the two.                                               *)
(***************************************************************************)
EXTENDS Patricia, AsTables

VARIABLE which

T(part, rest, n) == [part |-> part, rest |-> rest, bitlen |-> n]

\* Nested and disjoint prefixes, two of them with host bits, one text for two prefixes,
\* lengths that are missing or too large, and texts that are no prefix.
MCTexts ==
  {T(<<0>>, "slash", 0), T(<<0, 1, 1>>, "slash", 1), T(<<0, 1>>, "slash", 2),
   T(<<0, 1, 0>>, "end", 0), T(<<0, 1, 1>>, "slash", 4), T(<<1, 1>>, "slash", 1),
   T(<<1, 0>>, "slash", 3), T(<<1, 1>>, "slash", 2), T(<<1>>, "else", 0), T(<<2>>, "end", 0)}

MCTyped == UNION {[1 .. n -> 0 .. 1] : n \in 1 .. 4}

MCInit == which \in {"prefix", "as"} /\ PatInit /\ AsInit
MCNext ==
  /\ UNCHANGED which
  /\ \/ which = "prefix" /\ PatNext /\ UNCHANGED asvars
     \/ which = "as" /\ AsNext /\ UNCHANGED patvars
MCSpec == MCInit /\ [][MCNext]_<<which, patvars, asvars>>
=============================================================================
