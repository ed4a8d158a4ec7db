----------------------------- MODULE BgpsecPath -----------------------------
(***************************************************************************)
(* cl_BgpsecVerify: walks the signatures of a BGPsec path from the newest  *)
(* to the origin's.  A signature is the term of what was signed and the    *)
(* key it was made with; ECDSA_verify compares terms.  A key stands for    *)
(* its SKI too, and belongs to no AS as far as the code can see.  The      *)
(* newest segment comes first.                                             *)
(***************************************************************************)
EXTENDS Integers, Sequences, FiniteSets

CONSTANTS AS,           \* AS numbers
          local_as,     \* the AS that verifies
          SigningKey,   \* keys, and the SKIs that name them
          MaxPath,      \* bound: segments of a path
          MaxVaried,    \* bound: segments of a path with keys
          SigLists,     \* by their length, the signature lists a path may carry
          Inputs        \* by its length, [exact, der, files]: is the length field right, how
                        \* are the caller's keys encoded, which keys have a file

NoKey == 0          \* a NULL in the caller's array
NullData == -1      \* a key structure whose keyData is NULL

ASSUME PathAssumption ==
  /\ local_as \in AS /\ MaxPath \in Nat \ {0} /\ MaxVaried \in Nat
  /\ NoKey \notin SigningKey /\ NullData \notin SigningKey
  /\ \A n \in 1 .. MaxPath :
       Inputs[n] \subseteq [exact : BOOLEAN, files : SUBSET SigningKey,
                           der : [kind : {"private", "public"}, content : 0 .. 255]]
  /\ \A n \in 0 .. MaxPath : \A l \in SigLists[n] : DOMAIN l = 1 .. n /\ Len(l) = n

VARIABLES segs, sigs,   \* the path attribute: ASs, and [ski, signature] of each
          spLen,        \* its securePathLen, in octets
          keys,         \* << >> or the caller's keys, NoKey and NullData
          der,          \* encoding of those keys: [kind, content]
          files,        \* keys with a certificate under the key path
          iter, pos,    \* segments to go, and the place of seg and ss
          targetAS, verdict

pvars == <<segs, sigs, spLen, keys, der, files, iter, pos, targetAS, verdict>>

\* What an AS signs: for whom, its own number, and the signature before its own, but not that
\* one's SKI (the origin signs the prefix instead, the same in every path).
Data(target, signer, next) == [target |-> target, signer |-> signer, next |-> next]
Sig(data, key) == [data |-> data, by |-> key]
Prefix == << >>

----------------------------------------------------------------------------
(* IS_DER_PRIVATE on a key of "content" octets after its length field.     *)

SEQUENCE == 48
INTEGER == 2
OCTET_STRING == 4

\* The encoding: version number and octet string, or algorithm sequence.  Octets that
\* do not matter are 0, and so is what lies behind the end.
Encoded(d) ==
  LET len  == IF d.content < 128 THEN <<d.content>> ELSE <<129, d.content>>
      body == IF d.kind = "private" THEN <<INTEGER, 1, 1, OCTET_STRING>> ELSE <<SEQUENCE>>
  IN  <<SEQUENCE>> \o len \o body
Length(d) == d.content + (IF d.content < 128 THEN 2 ELSE 3)
At0(p, i) == IF i + 1 \in DOMAIN p THEN p[i + 1] ELSE 0

Classify(p, i) ==
  IF At0(p, i) = INTEGER
  THEN IF At0(p, i + 2 + At0(p, i + 1)) = OCTET_STRING THEN 1 ELSE -1
  ELSE IF At0(p, i) = SEQUENCE THEN 0 ELSE -1

\* The short form is recognised below 127 octets in all; otherwise the low bits of the
\* second octet are taken for the number of length octets.
IS_DER_PRIVATE(p, length) ==
  LET init_len == At0(p, 1)
  IN  IF At0(p, 0) # SEQUENCE THEN -1
      ELSE IF length < 127 /\ init_len < 128 THEN Classify(p, 2)
      ELSE Classify(p, (2 + (init_len % 128)) % 256)

\* What d2i_ECPrivateKey or d2i_PUBKEY then makes of it.
KeyDecodes(d) ==
  LET t == IS_DER_PRIVATE(Encoded(d), Length(d))
  IN  IF t = 1 THEN d.kind = "private" ELSE d.kind = "public"

----------------------------------------------------------------------------

\* (securePathLen - 2) / 6 in C, the length including its own field.
SegmentCount(len) == IF len < 2 THEN 0 ELSE ((len - 2) \div 6) % 65536

PathInit ==
  \E n \in 1 .. MaxPath : \E v \in Inputs[n] :
    /\ segs \in [1 .. n -> AS]
    /\ \E m \in {n, n - 1} : sigs \in SigLists[m]
    /\ spLen \in IF v.exact THEN {6 * n + 2} ELSE {0, 6 * n - 4, 6 * n + 5, 6 * n + 8}
    /\ keys \in {<< >>} \cup (IF n > MaxVaried THEN {}
                              ELSE [1 .. n -> SigningKey \cup {NoKey, NullData}])
    /\ der = v.der /\ files = v.files
    /\ iter = SegmentCount(spLen) /\ pos = 1 /\ targetAS = local_as
    /\ verdict = IF sigs = << >> THEN "ERROR" ELSE "none"    \* cl_BgpsecSanityCheck

ECDSA_verify(data, ss, key) == ss.signature = Sig(data, key)

\* stcl_BgpsecVerifySignatureSSL: the key in the file that the SKI names, whatever AS it
\* belongs to.
VerifySignatureSSL(ss, data) == ss.ski \in files /\ ECDSA_verify(data, ss, ss.ski)

\* stcl_BgpsecVerifySignatureSSL_withKeyInfo: the caller's key, whatever its SKI and AS.
VerifySignatureSSL_withKeyInfo(ss, data, key) ==
  key \notin {NoKey, NullData} /\ KeyDecodes(der) /\ ECDSA_verify(data, ss, key)

\* keys[number_keys - iter]; without a key there the lookup by SKI is used.  An index
\* before the array, possible when the length field is too large, finds no key here.
KeyAt(i) == IF keys = << >> THEN NoKey
            ELSE IF i \in DOMAIN keys THEN keys[i] ELSE NoKey
CurrentKey == KeyAt(Len(keys) - iter + 1)

TransitVerified(ss, data) ==
  IF CurrentKey # NoKey THEN VerifySignatureSSL_withKeyInfo(ss, data, CurrentKey)
  ELSE VerifySignatureSSL(ss, data)

\* The origin's test looks at the first key, and a missing own key fails.
OriginVerified(ss, data) ==
  IF keys # << >> /\ keys[1] # NoKey THEN VerifySignatureSSL_withKeyInfo(ss, data, CurrentKey)
  ELSE VerifySignatureSSL(ss, data)

Walking == verdict = "none" /\ iter > 0 /\ pos <= Len(segs) /\ pos <= Len(sigs)

Advance(ok, target) ==
  /\ verdict' = IF ok THEN "none" ELSE "ERROR"
  /\ targetAS' = target
  /\ iter' = iter - 1 /\ pos' = pos + 1
  /\ UNCHANGED <<segs, sigs, spLen, keys, der, files>>

\* Mutant of NextTarget: every signature is checked against the verifier's own AS.
NextTargetStale == targetAS

NextTarget == segs[pos]

\* A signature that is not the last: it covers the next one.
VerifyTransit ==
  /\ Walking /\ iter > 1
  /\ LET data == Data(targetAS, segs[pos], <<sigs[pos + 1].signature>>)
     IN  Advance(pos < Len(sigs) /\ TransitVerified(sigs[pos], data), NextTarget)

VerifyOrigin ==
  /\ Walking /\ iter = 1
  /\ Advance(OriginVerified(sigs[pos], Data(targetAS, segs[pos], Prefix)), targetAS)

\* The loop ends when the count or one of the lists does.
Accept ==
  /\ verdict = "none" /\ ~Walking
  /\ verdict' = "SUCCESS"
  /\ UNCHANGED <<segs, sigs, spLen, keys, der, files, iter, pos, targetAS>>

PathNext == VerifyTransit \/ VerifyOrigin \/ Accept

PathSpec == PathInit /\ [][PathNext]_pvars

----------------------------------------------------------------------------
PathTypeOK ==
  /\ iter \in 0 .. MaxPath + 1 /\ pos \in 1 .. MaxPath + 2 /\ targetAS \in AS
  /\ verdict \in {"none", "ERROR", "SUCCESS"}

Consistent == SegmentCount(spLen) = Len(segs) /\ Len(sigs) = Len(segs)

\* The key that answers for a segment: the caller's, or the one its SKI names.
KeyOf(i) == IF KeyAt(i) \in SigningKey /\ (i = Len(segs) => keys[1] # NoKey)
            THEN KeyAt(i) ELSE sigs[i].ski

TrueChain ==
  \A i \in DOMAIN segs :
    sigs[i].signature = Sig(Data(IF i = 1 THEN local_as ELSE segs[i - 1], segs[i],
                                 IF i = Len(segs) THEN Prefix ELSE <<sigs[i + 1].signature>>),
                            KeyOf(i))

\* A path whose length field matches its lists is accepted only if every signature covers the
\* AS of its segment, the AS the update went to next and the signature received, down to the
\* origin, and was made with the key that answers for the segment.  Whether that key belongs
\* to the segment's AS is nowhere asked.
AcceptsOnlyTrueChains == verdict = "SUCCESS" /\ Consistent => TrueChain

\* The four reasons to refuse a true chain: the first key was given and the origin's was not;
\* the keys' encodings are 127 to 129 octets long, where IS_DER_PRIVATE takes the length octet
\* for a number of length octets; a key was given without its data; or a key that was not
\* given has no file.
Excused ==
  \/ keys # << >> /\ keys[1] # NoKey /\ keys[Len(keys)] = NoKey
  \/ keys # << >> /\ Length(der) \in 127 .. 129
  \/ \E i \in DOMAIN segs : KeyAt(i) = NullData
  \/ \E i \in DOMAIN segs : KeyOf(i) = sigs[i].ski /\ sigs[i].ski \notin files

\* A true chain is refused for no other reason than these.
RefusesNoTrueChain == verdict = "ERROR" /\ Consistent /\ TrueChain => Excused

\* Validation accepts exactly the true chains of signatures, up to the refusals that
\* RefusesNoTrueChain names, and its indices stay within the lists.
ValidationExact == PathTypeOK /\ AcceptsOnlyTrueChains /\ RefusesNoTrueChain
=============================================================================
