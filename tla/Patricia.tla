------------------------------ MODULE Patricia ------------------------------
(***************************************************************************)
(* The patricia tree of patricia.c and the routines of demo.c that drive   *)
(* it.  An octet has one bit.  calloc may return any free address: here    *)
(* an address is a string of bits, and calloc returns that of the prefix   *)
(* the object is for, when it is free, so that equal trees are equal       *)
(* states.                                                                 *)
(***************************************************************************)
EXTENDS Integers, Sequences, SequencesExt, FiniteSets

CONSTANTS maxbits,      \* bits, and octets, of an address
          Texts,        \* what the programs are given to parse, see ascii2prefix
          Nil,          \* the null pointer
          Spare         \* one more address for prefixes: a call may make a second object

Node   == UNION {[1 .. n -> {0, 1}] : n \in 0 .. maxbits}
Object == Node \cup {Spare}

ASSUME PatriciaAssumption ==
  /\ maxbits \in Nat \ {0}
  /\ Texts \subseteq [part : Seq(Nat), rest : {"end", "slash", "else"}, bitlen : Int]
  /\ Nil \notin Object /\ Spare \notin Node

VARIABLES tree,     \* the tree and the heaps, see New_Patricia
          call,     \* history: the last call, and the prefix it was given, host bits cleared
          result,   \* the prefixes that call returned, host bits cleared
          fault     \* "none", or what ended the program

patvars == <<tree, call, result, fault>>

Free == [bit |-> -1, prefix |-> Nil, l |-> Nil, r |-> Nil, parent |-> Nil]
NoPrefix == [add |-> [i \in 1 .. maxbits |-> 0], bitlen |-> 0, ref_count |-> 0]

New_Patricia == [head |-> Nil, num_active_node |-> 0, broken |-> FALSE,
                 node |-> [n \in Node |-> Free], prefix |-> [o \in Object |-> NoPrefix]]

PatInit == tree = New_Patricia /\ call = <<"none">> /\ result = << >> /\ fault = "none"

----------------------------------------------------------------------------
(* Text and prefixes.                                                      *)

\* part: the numbers between the dots; rest: what follows them, "end", "slash" and then
\* bitlen, or something "else", such as the newline of a line from a file.
my_inet_pton(s) ==
  IF \/ s.part = << >> \/ Len(s.part) > maxbits \/ s.rest = "else"
     \/ \E i \in DOMAIN s.part : s.part[i] > 1
  THEN << >>
  ELSE <<[i \in 1 .. maxbits |-> IF i <= Len(s.part) THEN s.part[i] ELSE 0]>>

\* A missing, negative or too large length means a single address.
ascii2prefix(s) ==
  LET add == my_inet_pton(s)
      len == IF s.rest = "slash" /\ s.bitlen \in 0 .. maxbits THEN s.bitlen ELSE maxbits
  IN  IF add = << >> THEN << >> ELSE <<[add |-> add[1], bitlen |-> len]>>

\* The address for an object about the first n bits of p.
Address(p, n) == [i \in 1 .. n |-> p.add[i]]
Calloc(free, p, n) == IF Address(p, n) \in free THEN Address(p, n) ELSE CHOOSE o \in free : TRUE

FreshPrefix(t, p) == Calloc({o \in Object : t.prefix[o].ref_count = 0}, p, p.bitlen)

New_Prefix2(t, p) ==
  [t EXCEPT !.prefix[FreshPrefix(t, p)] = [add |-> p.add, bitlen |-> p.bitlen, ref_count |-> 1]]

Ref_Prefix(t, o) == [t EXCEPT !.prefix[o].ref_count = @ + 1]

Deref_Prefix(t, o) ==
  IF o = Nil THEN t
  ELSE IF t.prefix[o].ref_count = 0 THEN [t EXCEPT !.broken = TRUE]
  ELSE IF t.prefix[o].ref_count = 1 THEN [t EXCEPT !.prefix[o] = NoPrefix]
  ELSE [t EXCEPT !.prefix[o].ref_count = @ - 1]

Bit(p, b) == p.add[b + 1]
comp_with_mask(p, q, mask) == \A i \in 1 .. mask : p.add[i] = q.add[i]

----------------------------------------------------------------------------
(* Nodes.                                                                  *)

PrefixOf(t, n) == t.prefix[t.node[n].prefix]
Child(t, n, right) == IF right THEN t.node[n].r ELSE t.node[n].l
Right(n, t, p) == t.node[n].bit < maxbits /\ Bit(p, t.node[n].bit) = 1

FreshNode(t, p, n) == Calloc({m \in Node : t.node[m] = Free}, p, n)

Asserting(t, holds) == [t EXCEPT !.broken = @ \/ ~holds]

NewNode(t, n, bit, prefix, parent) ==
  [t EXCEPT !.node[n] = [bit |-> bit, prefix |-> prefix, l |-> Nil, r |-> Nil, parent |-> parent],
            !.num_active_node = @ + 1]

SetChild(t, n, right, c) == IF right THEN [t EXCEPT !.node[n].r = c] ELSE [t EXCEPT !.node[n].l = c]

\* Whatever pointed to n points to c: how patricia_lookup hangs in a new node.
Replace(t, n, c) ==
  LET up == t.node[n].parent
  IN  IF up = Nil THEN [Asserting(t, t.head = n) EXCEPT !.head = c]
      ELSE SetChild(t, up, t.node[up].r = n, c)

\* The same in patricia_remove, which asserts that the parent has n as its left child when
\* it is not the right one.
Unhook(t, n, c) ==
  LET up == t.node[n].parent
  IN  Replace(Asserting(t, up # Nil => n \in {t.node[up].l, t.node[up].r}), n, c)

Delete(t, n) == [t EXCEPT !.node[n] = Free, !.num_active_node = @ - 1]

----------------------------------------------------------------------------
(* Searches.                                                               *)

\* The nodes of the descent for p, while their bit is below its length.
Descent(t, p) ==
  LET down[n \in Node \cup {Nil}] ==
        IF n = Nil THEN << >>
        ELSE IF t.node[n].bit >= p.bitlen THEN <<n>>
        ELSE <<n>> \o down[Child(t, n, Bit(p, t.node[n].bit) = 1)]
  IN  down[t.head]

patricia_search_exact(t, p) ==
  LET path == Descent(t, p)
      n == IF path = << >> THEN Nil ELSE Last(path)
  IN  IF n = Nil \/ t.node[n].bit # p.bitlen \/ t.node[n].prefix = Nil THEN Nil
      ELSE IF comp_with_mask(PrefixOf(t, n), p, p.bitlen) THEN n ELSE Nil

\* The stack of patricia_search_best2.
Candidates(t, p, inclusive) ==
  SelectSeq(Descent(t, p), LAMBDA n : /\ t.node[n].prefix # Nil
                                      /\ inclusive \/ t.node[n].bit < p.bitlen)

patricia_search_best2(t, p, inclusive) ==
  LET fits(n) == /\ PrefixOf(t, n).bitlen <= p.bitlen
                 /\ comp_with_mask(PrefixOf(t, n), p, PrefixOf(t, n).bitlen)
      found == SelectSeq(Candidates(t, p, inclusive), fits)
  IN  IF found = << >> THEN Nil ELSE Last(found)

----------------------------------------------------------------------------
(* patricia_lookup, which inserts.  o is the prefix object, p its value.   *)

\* Where the descent stops: a node with a prefix and no smaller bit, or no way down.
Stop(t, p) ==
  LET down[n \in Node] ==
        LET c == Child(t, n, Right(n, t, p))
        IN  IF (t.node[n].bit >= p.bitlen /\ t.node[n].prefix # Nil) \/ c = Nil
            THEN n ELSE down[c]
  IN  down[t.head]

DifferBit(t, p, n) ==
  LET q == PrefixOf(t, n)
      check_bit == IF t.node[n].bit < p.bitlen THEN t.node[n].bit ELSE p.bitlen
      d == {b \in 0 .. check_bit - 1 : Bit(p, b) # Bit(q, b)}
  IN  IF d = {} THEN check_bit ELSE CHOOSE b \in d : \A c \in d : b <= c

\* Up to the highest ancestor whose bit is not below differ_bit.
Climb(t, n, differ_bit) ==
  LET up[m \in Node] ==
        LET q == t.node[m].parent
        IN  IF q # Nil /\ t.node[q].bit >= differ_bit THEN up[q] ELSE m
  IN  up[n]

AddChild(t, o, p, n) ==
  LET new == FreshNode(t, p, p.bitlen)
      right == Right(n, t, p)
  IN  SetChild(Asserting(NewNode(t, new, p.bitlen, o, n), Child(t, n, right) = Nil), n, right, new)

\* q is the prefix that p was compared with: it decides the side node n goes to.
AddParent(t, o, p, n, q) ==
  LET new == FreshNode(t, p, p.bitlen)
      u == Replace(NewNode(t, new, p.bitlen, o, t.node[n].parent), n, new)
      right == p.bitlen < maxbits /\ Bit(q, p.bitlen) = 1
  IN  [SetChild(u, new, right, n) EXCEPT !.node[n].parent = new]

\* Mutant of AddGlue: the new node always goes to the left.
AddGlueLeft(t, o, p, n, differ_bit) ==
  LET new  == FreshNode(t, p, p.bitlen)
      u    == NewNode(t, new, p.bitlen, o, Nil)
      glue == FreshNode(u, p, differ_bit)
      v    == Replace(NewNode(u, glue, differ_bit, Nil, t.node[n].parent), n, glue)
  IN  [SetChild(SetChild(v, glue, FALSE, new), glue, TRUE, n)
         EXCEPT !.node[new].parent = glue, !.node[n].parent = glue]

AddGlue(t, o, p, n, differ_bit) ==
  LET new   == FreshNode(t, p, p.bitlen)
      u     == NewNode(t, new, p.bitlen, o, Nil)
      glue  == FreshNode(u, p, differ_bit)
      v     == Replace(NewNode(u, glue, differ_bit, Nil, t.node[n].parent), n, glue)
      right == Bit(p, differ_bit) = 1
  IN  [SetChild(SetChild(v, glue, right, new), glue, ~right, n)
         EXCEPT !.node[new].parent = glue, !.node[n].parent = glue]

patricia_lookup(t, o) ==
  LET p == t.prefix[o]
      r == Ref_Prefix(t, o)
      stop == Stop(t, p)
      d == DifferBit(t, p, stop)
      n == Climb(t, stop, d)
  IN  IF t.head = Nil
      THEN LET new == FreshNode(r, p, p.bitlen)
           IN  [NewNode(r, new, p.bitlen, o, Nil) EXCEPT !.head = new]
      ELSE IF t.node[stop].prefix = Nil THEN [t EXCEPT !.broken = TRUE]
      ELSE IF d = p.bitlen /\ t.node[n].bit = p.bitlen
           THEN IF t.node[n].prefix # Nil THEN t ELSE [r EXCEPT !.node[n].prefix = o]
      ELSE IF t.node[n].bit = d THEN AddChild(r, o, p, n)
      ELSE IF p.bitlen = d THEN AddParent(r, o, p, n, PrefixOf(t, stop))
      ELSE AddGlue(r, o, p, n, d)

----------------------------------------------------------------------------
(* patricia_remove.                                                        *)

\* Mutant of RemoveLeaf: a glue node that loses a child stays.
RemoveLeafOnly(t, n) == Delete(Unhook(t, n, Nil), n)

\* A leaf goes, and so does a parent without a prefix, whose other child moves up.
RemoveLeaf(t, n) ==
  LET up == t.node[n].parent
      u  == Delete(Unhook(t, n, Nil), n)
      c  == IF t.node[up].r = n THEN t.node[up].l ELSE t.node[up].r
  IN  IF up = Nil \/ t.node[up].prefix # Nil THEN u
      ELSE IF c = Nil THEN [u EXCEPT !.broken = TRUE]
      ELSE Delete([Unhook(u, up, c) EXCEPT !.node[c].parent = t.node[up].parent], up)

patricia_remove(t, n) ==
  LET l == t.node[n].l
      r == t.node[n].r
      c == IF r # Nil THEN r ELSE l
      u == Deref_Prefix(t, t.node[n].prefix)
  IN  IF l # Nil /\ r # Nil THEN [u EXCEPT !.node[n].prefix = Nil]
      ELSE IF l = Nil /\ r = Nil THEN RemoveLeaf(u, n)
      ELSE Delete([Unhook(u, n, c) EXCEPT !.node[c].parent = t.node[n].parent], n)

----------------------------------------------------------------------------
(* Walks.                                                                  *)

HasPrefix(t, n) == IF t.node[n].prefix = Nil THEN << >> ELSE <<n>>

\* The recursion of patricia_walk_inorder.
patricia_walk_inorder(t) ==
  LET walk[n \in Node \cup {Nil}] ==
        IF n = Nil THEN << >>
        ELSE walk[t.node[n].l] \o HasPrefix(t, n) \o walk[t.node[n].r]
  IN  walk[t.head]

\* PATRICIA_WALK keeps the right children still to visit on a stack.
Pushed(c) == IF c = Nil THEN << >> ELSE <<c>>

AllNodes(t) ==
  LET walk[s \in Seq(Node)] ==
        IF s = << >> THEN << >>
        ELSE LET n == Last(s)
                 kids == Pushed(t.node[n].r) \o Pushed(t.node[n].l)
             IN  <<n>> \o walk[Front(s) \o kids]
  IN  walk[IF t.head = Nil THEN << >> ELSE <<t.head>>]

patricia_process(t) == SelectSeq(AllNodes(t), LAMBDA n : t.node[n].prefix # Nil)

\* Clear_Patricia leaves the head where it was.
Clear_Patricia(t) ==
  LET s == AllNodes(t)
      clear[i \in 0 .. Len(s)] ==
        IF i = 0 THEN t ELSE Delete(Deref_Prefix(clear[i - 1], t.node[s[i]].prefix), s[i])
      u == clear[Len(s)]
  IN  Asserting(u, u.num_active_node = 0)

----------------------------------------------------------------------------
(* The routines that the programs call.                                    *)

Masked(p) == [add |-> [i \in 1 .. maxbits |-> IF i <= p.bitlen THEN p.add[i] ELSE 0],
              bitlen |-> p.bitlen]
Value(t, n) == IF n = Nil THEN << >> ELSE <<Masked(PrefixOf(t, n))>>
Values(t, s) == [i \in DOMAIN s |-> Masked(PrefixOf(t, s[i]))]

Calling == fault = "none"
Finish(t, what, ans) ==
  tree' = t /\ call' = what /\ result' = ans /\ fault' = IF t.broken THEN "assert" ELSE "none"

\* None of the callers looks at the result of ascii2prefix.
NotAPrefix(s) ==
  /\ Calling /\ ascii2prefix(s) = << >>
  /\ fault' = "null prefix" /\ UNCHANGED <<tree, call, result>>

\* make_and_lookup, and the loop of perf_test over the lines of its file.
make_and_lookup(s) ==
  /\ Calling
  /\ \E p \in Range(ascii2prefix(s)) :
       LET o == FreshPrefix(tree, p)
           t == patricia_lookup(New_Prefix2(tree, p), o)
       IN  Finish(Deref_Prefix(t, o), <<"add", Masked(p)>>, <<Masked(p)>>)

try_search_exact(s) ==
  /\ Calling
  /\ \E p \in Range(ascii2prefix(s)) :
       Finish(tree, <<"exact", Masked(p)>>, Value(tree, patricia_search_exact(tree, p)))

try_search_best(s, inclusive) ==
  /\ Calling
  /\ \E p \in Range(ascii2prefix(s)) :
       Finish(tree, <<IF inclusive THEN "best" ELSE "best below", Masked(p)>>,
              Value(tree, patricia_search_best2(tree, p, inclusive)))

lookup_then_remove(s) ==
  /\ Calling
  /\ \E p \in Range(ascii2prefix(s)) :
       LET n == patricia_search_exact(tree, p)
       IN  Finish(IF n = Nil THEN tree ELSE patricia_remove(tree, n), <<"drop", Masked(p)>>, << >>)

\* demo prints the tree in order; it is not empty then, and an empty one has no head.
WalkInorder ==
  /\ Calling /\ tree.head # Nil
  /\ Finish(tree, <<"inorder">>, Values(tree, patricia_walk_inorder(tree)))

Process == Calling /\ Finish(tree, <<"process">>, Values(tree, patricia_process(tree)))

\* The program ends, another one begins.
Destroy_Patricia ==
  Calling /\ Finish([Clear_Patricia(tree) EXCEPT !.head = Nil], <<"clear">>, << >>)

PatNext ==
  \/ \E s \in Texts : \/ NotAPrefix(s) \/ make_and_lookup(s) \/ try_search_exact(s)
                      \/ \E inclusive \in BOOLEAN : try_search_best(s, inclusive)
                      \/ lookup_then_remove(s)
  \/ WalkInorder \/ Process \/ Destroy_Patricia

PatSpec == PatInit /\ [][PatNext]_patvars

----------------------------------------------------------------------------
Live == {n \in Node : tree.node[n] # Free}
Stored == {Masked(PrefixOf(tree, n)) : n \in {m \in Live : tree.node[m].prefix # Nil}}

Table == INSTANCE PrefixTable WITH table <- Stored, answer <- result, asked <- call

\* Every call answers, for the very prefix it was given, and changes the tree as a set of
\* prefixes would: exact and longest match, whatever was inserted and removed before and in
\* which order, and the two walks visit every stored prefix once, in address order.
ImplementsTable == Table!Spec

\* No assertion of the library fails and no NULL child is followed; the programs only
\* stop on text that is not a prefix, whose NULL they use unseen.
OnlyBadTextStops == fault \in {"none", "null prefix"}

\* After every call the tree is the set of allocated nodes: each hangs below exactly the
\* node it names as its parent, whose bit is smaller, and a node without prefix has two
\* children; num_active_node counts them.
WellFormed ==
  LET t == tree.node
  IN  /\ Range(AllNodes(tree)) = Live
      /\ tree.num_active_node = Cardinality(Live)
      /\ \A n \in Live :
           /\ t[n].prefix = Nil => t[n].l # Nil /\ t[n].r # Nil
           /\ t[n].prefix # Nil => PrefixOf(tree, n).bitlen = t[n].bit
           /\ \A c \in {t[n].l, t[n].r} \ {Nil} : t[c].parent = n /\ t[c].bit > t[n].bit
           /\ t[n].parent = Nil <=> n = tree.head

\* Between calls every prefix object belongs to one node and is counted once: found
\* prefixes, removals and glue nodes that become real ones leak none and free none twice.
PrefixOwned ==
  /\ \A o \in Object : tree.prefix[o].ref_count \in {0, 1}
  /\ \A o \in Object : tree.prefix[o].ref_count = 1
                       => Cardinality({n \in Live : tree.node[n].prefix = o}) = 1
  /\ \A n \in Live : tree.node[n].prefix # Nil => tree.prefix[tree.node[n].prefix].ref_count = 1

\* Between calls the tree is well formed, owns each prefix once, and no assertion has failed.
TreeSound == OnlyBadTextStops /\ WellFormed /\ PrefixOwned
=============================================================================
