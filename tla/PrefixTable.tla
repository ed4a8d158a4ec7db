---------------------------- MODULE PrefixTable ----------------------------
(***************************************************************************)
(* What the patricia library promises: a set of prefixes with exact and    *)
(* longest-match search and two ordered walks.                             *)
(***************************************************************************)
EXTENDS Integers, Sequences, SequencesExt

CONSTANT maxbits

VARIABLES table,    \* the prefixes: [add, bitlen], add with the host bits cleared
          asked,    \* the last call: what, and for which prefix
          answer    \* what it returned, as a sequence of prefixes

Prefix == {[add |-> a, bitlen |-> n] : a \in [1 .. maxbits -> {0, 1}], n \in 0 .. maxbits}

Mask(p) == [p EXCEPT !.add = [i \in 1 .. maxbits |-> IF i <= p.bitlen THEN p.add[i] ELSE 0]]

Covers(q, p) == q.bitlen <= p.bitlen /\ \A i \in 1 .. q.bitlen : q.add[i] = p.add[i]

\* The longest element of S that covers p.
LongestMatch(S, p) ==
  LET C == {q \in S : Covers(q, p)}
  IN  IF C = {} THEN << >>
      ELSE <<CHOOSE q \in C : \A r \in C : r.bitlen <= q.bitlen>>

\* The numbers of a prefix's first address and of the middle of its range, doubled.
First(p)  == FoldLeftDomain(LAMBDA v, i : 2 * v + Mask(p).add[i], 0, p.add)
Middle(p) == 2 * First(p) + 2 ^ (maxbits - p.bitlen)

Init == table = {} /\ asked = <<"none">> /\ answer = << >>

Add(p) == asked' = <<"add", Mask(p)>> /\ table' = table \cup {Mask(p)} /\ answer' = <<Mask(p)>>

Exact(p) ==
  /\ asked' = <<"exact", Mask(p)>>
  /\ answer' = (IF Mask(p) \in table THEN <<Mask(p)>> ELSE << >>) /\ UNCHANGED table

Best(p) ==
  /\ asked' = <<"best", Mask(p)>>
  /\ answer' = LongestMatch(table, Mask(p)) /\ UNCHANGED table

\* The longest strictly shorter one.
BestExclusive(p) ==
  /\ asked' = <<"best below", Mask(p)>>
  /\ answer' = LongestMatch({q \in table : q.bitlen < p.bitlen}, Mask(p))
  /\ UNCHANGED table

Drop(p) == asked' = <<"drop", Mask(p)>> /\ table' = table \ {Mask(p)} /\ answer' = << >>

\* s lists the table, without repetition, in the order "before".
Lists(s, before(_, _)) ==
  Range(s) = table /\ \A i, j \in DOMAIN s : i < j => before(s[i], s[j])

\* In order: by the middle of the range.  In preorder: by first address, the wider first.
Inorder ==
  /\ asked' = <<"inorder">>
  /\ Lists(answer', LAMBDA p, q : Middle(p) < Middle(q)) /\ UNCHANGED table

Preorder ==
  /\ asked' = <<"process">>
  /\ Lists(answer', LAMBDA p, q :
             First(p) < First(q) \/ (First(p) = First(q) /\ p.bitlen < q.bitlen))
  /\ UNCHANGED table

Clear == asked' = <<"clear">> /\ table' = {} /\ answer' = << >>

Next == \/ \E p \in Prefix : Add(p) \/ Exact(p) \/ Best(p) \/ BestExclusive(p) \/ Drop(p)
        \/ Inorder \/ Preorder \/ Clear

Spec == Init /\ [][Next]_<<table, asked, answer>>
=============================================================================
