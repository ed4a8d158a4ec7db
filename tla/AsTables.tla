------------------------------ MODULE AsTables ------------------------------
(***************************************************************************)
(* The three AS number databases that are measured against each other: a   *)
(* trie of decimal numerals (trie_test), a hash table (uthash_test) and    *)
(* binary search in an array (array_test).  Each program loads its table   *)
(* and then answers what is typed in.  The numerals here have base N.      *)
(***************************************************************************)
EXTENDS Integers, Sequences

CONSTANTS N,        \* digits, and children of a trie node
          max_int,  \* numbers loaded
          Typed     \* digit strings a user may type

ASSUME TablesAssumption == /\ N \in Nat \ {0, 1} /\ max_int \in Nat \ {0}
                           /\ Typed \subseteq Seq(0 .. N - 1)

VARIABLES trie,     \* the nodes, as the digit string that leads there -> is_leaf
          users,    \* the hash table: id -> name
          loaded,   \* numbers in each of the two tables: <<trie, users>>
          session,  \* whether the query loops still run: <<trie, users>>
          asked,    \* the string typed last, << >> before the first
          found     \* what then said: trie, hash, the array's search, array_test

asvars == <<trie, users, loaded, session, asked, found>>

\* sprintf "%d" and atoi.
digits[k \in Nat] == IF k < N THEN <<k>> ELSE Append(digits[k \div N], k % N)
sprintf(n) == digits[n]
atoi(w) == LET value[i \in 0 .. Len(w)] == IF i = 0 THEN 0 ELSE N * value[i - 1] + w[i]
           IN  value[Len(w)]

AsInit ==
  /\ trie = [w \in {<< >>} |-> 0] /\ users = << >>
  /\ loaded = <<0, 0>> /\ session = <<TRUE, TRUE>> /\ asked = << >> /\ found = <<"", "", "", "">>

insert_trie(t, w) ==
  [x \in DOMAIN t \cup {SubSeq(w, 1, i) : i \in 0 .. Len(w)} |->
     IF x = w THEN 1 ELSE IF x \in DOMAIN t THEN t[x] ELSE 0]

search_trie(t, w) == w \in DOMAIN t /\ t[w] = 1

add_user(u, id, name) == [x \in DOMAIN u \cup {id} |-> IF x = id THEN name ELSE u[x]]

find_user(u, id) == IF id \in DOMAIN u THEN <<u[id]>> ELSE << >>

\* Mutant of binarySearch: the right half is given up one element early.
binarySearchShort(arr, x) ==
  LET search[lr \in (0 .. Len(arr)) \X (-1 .. Len(arr) - 1)] ==
        LET l == lr[1]
            r == lr[2]
            mid == l + (r - l) \div 2
        IN  IF r <= l THEN -1
            ELSE IF arr[mid + 1] = x THEN mid
            ELSE IF arr[mid + 1] > x THEN search[<<l, mid - 1>>] ELSE search[<<mid + 1, r>>]
  IN  search[<<0, Len(arr) - 1>>]

binarySearch(arr, x) ==
  LET search[lr \in (0 .. Len(arr)) \X (-1 .. Len(arr) - 1)] ==
        LET l == lr[1]
            r == lr[2]
            mid == l + (r - l) \div 2
        IN  IF r < l THEN -1
            ELSE IF arr[mid + 1] = x THEN mid
            ELSE IF arr[mid + 1] > x THEN search[<<l, mid - 1>>] ELSE search[<<mid + 1, r>>]
  IN  search[<<0, Len(arr) - 1>>]

as_list == [i \in 1 .. max_int |-> i]

\* main of array_test writes its variable found over the result of the search, and the
\* build with BINARY_SEARCH has left found at 0.
array_test(result) == LET found_var == 0 IN IF found_var # -1 THEN "found" ELSE "missing"

----------------------------------------------------------------------------
TrieLoad ==
  /\ loaded[1] < max_int
  /\ trie' = insert_trie(trie, sprintf(loaded[1]))
  /\ loaded' = [loaded EXCEPT ![1] = @ + 1]
  /\ UNCHANGED <<users, session, asked, found>>

UsersLoad ==
  /\ loaded[2] < max_int
  /\ users' = add_user(users, loaded[2], sprintf(loaded[2]))
  /\ loaded' = [loaded EXCEPT ![2] = @ + 1]
  /\ UNCHANGED <<trie, session, asked, found>>

\* The same string typed into all three programs.  The two loops ask until the number is
\* 0; array_test takes it as its argument and ends.
Query(w) ==
  /\ loaded = <<max_int, max_int>> /\ session = <<TRUE, TRUE>>
  /\ asked' = w
  /\ found' = <<IF search_trie(trie, w) THEN "found" ELSE "missing",
                IF find_user(users, atoi(w)) # << >> THEN "found" ELSE "missing",
                IF binarySearch(as_list, atoi(w)) # -1 THEN "found" ELSE "missing",
                array_test(binarySearch(as_list, atoi(w)))>>
  /\ session' = [session EXCEPT ![1] = atoi(w) # 0, ![2] = atoi(w) # 0]
  /\ UNCHANGED <<trie, users, loaded>>

AsNext == TrieLoad \/ UsersLoad \/ \E w \in Typed : Query(w)
AsSpec == AsInit /\ [][AsNext]_asvars

----------------------------------------------------------------------------
\* What the three programs say of one number. The hash finds the numbers loaded; the trie
\* the same ones, but only in the numeral they were loaded under, without leading zeros and
\* not when it only begins like another; the search is exact over the array, which starts at
\* 1 and ends at max_int. array_test says "found" all the same, and so agrees with the hash
\* only on the numbers that were loaded.
LookupsExact ==
  asked # << >> =>
    /\ found[2] = "found" <=> atoi(asked) < max_int
    /\ found[1] = "found" <=> found[2] = "found" /\ asked = sprintf(atoi(asked))
    /\ found[3] = "found" <=> atoi(asked) \in 1 .. max_int
    /\ found[4] = found[2] <=> atoi(asked) < max_int
=============================================================================
