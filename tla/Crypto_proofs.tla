--------------------------- MODULE Crypto_proofs ---------------------------
(***************************************************************************)
(* Three results about the BGPsec code.                                    *)
(*                                                                         *)
(* cl_BgpsecVerify accepts exactly the true chains, for paths of every     *)
(* length, all signature lists, keys, key files and encodings: the walk    *)
(* keeps the part of the chain it has checked, its two counters add up,    *)
(* and a signature is refused only for the reasons Excused names.          *)
(*                                                                         *)
(* The binding of the API's methods is sound for every set of              *)
(* configurations and libraries.                                           *)
(*                                                                         *)
(* The key store is sound for every set of keys, every hash and every size *)
(* of its tables: an id signs with its key, and nothing is used or         *)
(* released after its release but for the causes StoreSound names.         *)
(***************************************************************************)
EXTENDS BgpsecPath, SrxCrypto, KeyStore, SequenceTheorems, TLAPS

\* Segment i signed, with the key that answers for it, for the AS its update went to next and
\* over the signature before it.
Link(i) ==
  sigs[i].signature = Sig(Data(IF i = 1 THEN local_as ELSE segs[i - 1], segs[i],
                               IF i = Len(segs) THEN Prefix ELSE <<sigs[i + 1].signature>>),
                          KeyOf(i))

GivenKey == SigningKey \cup {NoKey, NullData}

PathShape ==
  /\ Len(segs) \in 1 .. MaxPath /\ segs \in [1 .. Len(segs) -> AS]
  /\ Len(sigs) \in Nat /\ (sigs = << >> => Len(sigs) = 0)
  /\ \/ keys = << >>
     \/ /\ Len(keys) = Len(segs) /\ DOMAIN keys = 1 .. Len(segs) /\ keys # << >>
        /\ \A i \in 1 .. Len(segs) : keys[i] \in GivenKey
  /\ der.kind \in {"private", "public"} /\ der.content \in Nat
  /\ SegmentCount(spLen) \in 0 .. MaxPath + 1

\* The counter runs down as the place runs up, and targetAS is the AS that the
\* segment at hand must have signed for.
WalkPlace ==
  /\ iter \in Nat /\ pos \in 1 .. Len(segs) + 1
  /\ iter + pos = SegmentCount(spLen) + 1
  /\ targetAS \in AS
  /\ iter > 0 => targetAS = IF pos = 1 THEN local_as ELSE segs[pos - 1]

\* What the walk has left behind is a piece of a true chain.
CheckedPart ==
  /\ verdict \in {"none", "ERROR", "SUCCESS"}
  /\ verdict # "ERROR" /\ Consistent => \A i \in 1 .. pos - 1 : Link(i)
  /\ verdict = "SUCCESS" /\ Consistent => pos = Len(segs) + 1

PathInv == PathShape /\ WalkPlace /\ CheckedPart /\ RefusesNoTrueChain

----------------------------------------------------------------------------
\* (securePathLen - 2) / 6 of the lengths a path attribute is given: the number of its
\* segments, one less, one more, or none, in 16 bits.
LEMMA SegmentCounts ==
  ASSUME NEW n \in Nat \ {0},
         NEW l \in {6 * n + 2, 0, 6 * n - 4, 6 * n + 5, 6 * n + 8}
  PROVE  SegmentCount(l) \in 0 .. n + 1
<1>1. CASE l < 2
  BY <1>1 DEF SegmentCount
<1>2. CASE l >= 2
  <2>1. l \in Int /\ l - 2 <= 6 * n + 6
    OBVIOUS
  <2>2. (l - 2) \div 6 \in 0 .. n + 1
    BY <1>2, <2>1, SMT
  <2>3. \A k \in 0 .. n + 1 : k % 65536 \in 0 .. n + 1
    BY SMT
  <2> QED BY <1>2, <2>1, <2>2, <2>3 DEF SegmentCount
<1>3. l \in Int
  OBVIOUS
<1> QED BY <1>1, <1>2, <1>3

\* The octets of an encoding: the tag, the length field, the body.
LEMMA EncodedOctets ==
  ASSUME NEW len \in Seq(Int), NEW body \in Seq(Int), NEW i \in Nat
  PROVE  At0(<<SEQUENCE>> \o len \o body, i) =
           IF i = 0 THEN SEQUENCE
           ELSE IF i <= Len(len) THEN len[i]
           ELSE IF i <= Len(len) + Len(body) THEN body[i - Len(len)] ELSE 0
<1> DEFINE head == <<SEQUENCE>> \o len
           p == head \o body
<1>1. <<SEQUENCE>> \in Seq(Int) /\ Len(<<SEQUENCE>>) = 1 /\ <<SEQUENCE>>[1] = SEQUENCE
  BY DEF SEQUENCE
<1>2. Len(len) \in Nat /\ Len(body) \in Nat
  OBVIOUS
<1>3. /\ head \in Seq(Int) /\ Len(head) = 1 + Len(len)
      /\ \A k \in 1 .. 1 + Len(len) : head[k] = IF k <= 1 THEN SEQUENCE ELSE len[k - 1]
  BY <1>1, ConcatProperties
<1> HIDE DEF head
<1>4. /\ p \in Seq(Int) /\ Len(p) = 1 + Len(len) + Len(body)
      /\ \A k \in 1 .. Len(p) : p[k] = IF k <= 1 + Len(len) THEN head[k]
                                       ELSE body[k - (1 + Len(len))]
  <2>1. /\ p \in Seq(Int) /\ Len(p) = Len(head) + Len(body)
        /\ \A k \in 1 .. Len(head) + Len(body) :
             p[k] = IF k <= Len(head) THEN head[k] ELSE body[k - Len(head)]
    BY <1>3, ConcatProperties
  <2> QED BY <1>3, <2>1
<1> HIDE DEF p
<1>5. DOMAIN p = 1 .. 1 + Len(len) + Len(body)
  BY <1>4
<1>6. At0(p, i) = IF i + 1 <= 1 + Len(len) + Len(body) THEN p[i + 1] ELSE 0
  BY <1>2, <1>5 DEF At0
<1>7. CASE i = 0
  <2>1. p[1] = head[1] /\ head[1] = SEQUENCE
    BY <1>2, <1>3, <1>4
  <2>2. At0(p, i) = SEQUENCE
    BY <1>2, <1>6, <1>7, <2>1
  <2> QED BY <1>7, <2>2 DEF p, head
<1>8. CASE i > 0 /\ i <= Len(len)
  <2>1. p[i + 1] = head[i + 1]
    <3>1. i + 1 \in 1 .. Len(p) /\ i + 1 <= 1 + Len(len)
      BY <1>2, <1>4, <1>8
    <3> QED BY <1>4, <3>1
  <2>2. head[i + 1] = len[i]
    <3>1. i + 1 \in 1 .. 1 + Len(len) /\ ~(i + 1 <= 1) /\ (i + 1) - 1 = i
      BY <1>2, <1>8
    <3> QED BY <1>3, <3>1
  <2> QED BY <1>2, <1>6, <1>8, <2>1, <2>2 DEF p, head
<1>9. CASE i > Len(len) /\ i <= Len(len) + Len(body)
  <2>1. p[i + 1] = body[i - Len(len)]
    <3>1. i + 1 \in 1 .. Len(p) /\ ~(i + 1 <= 1 + Len(len))
      BY <1>2, <1>4, <1>9
    <3>2. (i + 1) - (1 + Len(len)) = i - Len(len)
      BY <1>2
    <3> QED BY <1>4, <3>1, <3>2
  <2> QED BY <1>2, <1>6, <1>9, <2>1 DEF p, head
<1>10. CASE i > Len(len) + Len(body)
  BY <1>2, <1>6, <1>10 DEF p, head
<1> QED BY <1>2, <1>7, <1>8, <1>9, <1>10

\* IS_DER_PRIVATE tells private from public keys, except where the whole encoding has
\* 127 to 129 octets.
LEMMA DecodesOutsideGap ==
  ASSUME NEW d, d.kind \in {"private", "public"}, d.content \in Nat,
         Length(d) \notin 127 .. 129
  PROVE  KeyDecodes(d)
<1> DEFINE len == IF d.content < 128 THEN <<d.content>> ELSE <<129, d.content>>
           body == IF d.kind = "private" THEN <<INTEGER, 1, 1, OCTET_STRING>> ELSE <<SEQUENCE>>
           p == <<SEQUENCE>> \o len \o body
           from == Len(len) + 1
<1>1. Encoded(d) = p
  BY DEF Encoded
<1>2. /\ len \in Seq(Int) /\ Len(len) \in Nat
      /\ d.content < 128 => Len(len) = 1 /\ len[1] = d.content
      /\ d.content >= 128 => Len(len) = 2 /\ len[1] = 129
  OBVIOUS
<1>3. /\ body \in Seq(Int) /\ Len(body) \in Nat
      /\ d.kind = "private" =>
           Len(body) = 4 /\ body[1] = INTEGER /\ body[2] = 1 /\ body[4] = OCTET_STRING
      /\ d.kind = "public" => Len(body) = 1 /\ body[1] = SEQUENCE
  BY DEF INTEGER, OCTET_STRING, SEQUENCE
<1> HIDE DEF len, body
<1>4. \A i \in Nat : At0(p, i) = IF i = 0 THEN SEQUENCE
                                ELSE IF i <= Len(len) THEN len[i]
                                ELSE IF i <= Len(len) + Len(body) THEN body[i - Len(len)] ELSE 0
  BY <1>2, <1>3, EncodedOctets
<1> HIDE DEF p
<1>5. At0(p, 0) = SEQUENCE /\ At0(p, 1) = len[1]
  BY <1>2, <1>4
<1>6. At0(p, from) = body[1]
  BY <1>2, <1>3, <1>4
<1>7. d.kind = "private" => At0(p, from + 1) = 1 /\ At0(p, from + 3) = OCTET_STRING
  <2> SUFFICES ASSUME d.kind = "private"
               PROVE  At0(p, from + 1) = 1 /\ At0(p, from + 3) = OCTET_STRING
    OBVIOUS
  <2>1. \A k \in 1 .. 4 : At0(p, Len(len) + k) = body[k]
    <3> SUFFICES ASSUME NEW k \in 1 .. 4 PROVE At0(p, Len(len) + k) = body[k]
      OBVIOUS
    <3>0. Len(len) \in Nat /\ Len(body) = 4
      BY <1>2, <1>3
    <3>1. /\ Len(len) + k \in Nat /\ Len(len) + k # 0 /\ ~(Len(len) + k <= Len(len))
          /\ Len(len) + k <= Len(len) + Len(body) /\ (Len(len) + k) - Len(len) = k
      BY <3>0
    <3> QED BY <1>4, <3>1
  <2>2. from + 1 = Len(len) + 2 /\ from + 3 = Len(len) + 4
    BY <1>2
  <2> QED BY <1>3, <2>1, <2>2
<1>8. Classify(p, from) = IF d.kind = "private" THEN 1 ELSE 0
  <2>1. CASE d.kind = "private"
    <3>1. from + 2 + At0(p, from + 1) = from + 3
      BY <1>2, <1>7, <2>1
    <3> QED BY <1>3, <1>6, <1>7, <2>1, <3>1 DEF Classify
  <2>2. CASE d.kind = "public"
    BY <1>3, <1>6, <2>2 DEF Classify, SEQUENCE, INTEGER
  <2> QED BY <2>1, <2>2
<1>9. IS_DER_PRIVATE(p, Length(d)) = Classify(p, from)
  <2>1. CASE d.content < 128
    <3>1. Length(d) = d.content + 2
      BY <2>1 DEF Length
    <3>2. Length(d) < 127
      BY <2>1, <3>1
    <3>3. Len(len) = 1 /\ len[1] = d.content
      BY <1>2, <2>1
    <3>4. from = 2 /\ At0(p, 1) < 128
      BY <1>5, <2>1, <3>3
    <3> QED BY <1>5, <3>2, <3>4 DEF IS_DER_PRIVATE
  <2>2. CASE d.content >= 128
    <3>0. Len(len) = 2 /\ len[1] = 129
      BY <1>2, <2>2
    <3>1. ~(At0(p, 1) < 128) /\ from = 3 /\ At0(p, 1) = 129
      BY <1>5, <3>0
    <3>2. (2 + (129 % 128)) % 256 = 3
      OBVIOUS
    <3> QED BY <1>5, <3>1, <3>2 DEF IS_DER_PRIVATE
  <2> QED BY <2>1, <2>2
<1> QED BY <1>1, <1>8, <1>9 DEF KeyDecodes

\* A function on 1 .. n is a sequence of length n.
LEMMA SeqOfFunction ==
  ASSUME NEW S, NEW n \in Nat, NEW f \in [1 .. n -> S]
  PROVE  f \in Seq(S) /\ Len(f) = n
OBVIOUS

----------------------------------------------------------------------------
LEMMA InitPathInv == PathInit => PathInv
<1> SUFFICES ASSUME PathInit PROVE PathInv
  OBVIOUS
<1> DEFINE Given(n, v) ==
        /\ segs \in [1 .. n -> AS]
        /\ \E m \in {n, n - 1} : sigs \in SigLists[m]
        /\ spLen \in IF v.exact THEN {6 * n + 2} ELSE {0, 6 * n - 4, 6 * n + 5, 6 * n + 8}
        /\ keys \in {<< >>} \cup (IF n > MaxVaried THEN {}
                                  ELSE [1 .. n -> SigningKey \cup {NoKey, NullData}])
        /\ der = v.der /\ files = v.files
        /\ iter = SegmentCount(spLen) /\ pos = 1 /\ targetAS = local_as
        /\ verdict = IF sigs = << >> THEN "ERROR" ELSE "none"
<1>n. PICK n \in 1 .. MaxPath : \E v \in Inputs[n] : Given(n, v)
  BY DEF PathInit
<1>1. PICK v \in Inputs[n] : Given(n, v)
  BY <1>n
<1>2. n \in Nat \ {0} /\ MaxPath \in Nat \ {0}
  BY PathAssumption
<1>3. Len(segs) = n /\ segs \in [1 .. Len(segs) -> AS]
  BY <1>1, <1>2, SeqOfFunction
<1>4. Len(sigs) \in Nat /\ (sigs = << >> => Len(sigs) = 0)
  BY <1>1, <1>2, PathAssumption
<1>5. \/ keys = << >>
      \/ /\ Len(keys) = Len(segs) /\ DOMAIN keys = 1 .. Len(segs) /\ keys # << >>
         /\ \A i \in 1 .. Len(segs) : keys[i] \in GivenKey
  <2>1. SUFFICES ASSUME keys # << >>
                 PROVE  /\ Len(keys) = n /\ DOMAIN keys = 1 .. n
                        /\ \A i \in 1 .. n : keys[i] \in GivenKey
    BY <1>3
  <2>2. keys \in [1 .. n -> GivenKey]
    BY <1>1, <2>1 DEF GivenKey
  <2>3. Len(keys) = n
    BY <1>2, <2>2, SeqOfFunction
  <2> QED BY <2>2, <2>3
<1>6. der.kind \in {"private", "public"} /\ der.content \in Nat
  <2>1. v \in [exact : BOOLEAN, files : SUBSET SigningKey,
               der : [kind : {"private", "public"}, content : 0 .. 255]]
    BY <1>1, PathAssumption
  <2>2. PICK d \in [kind : {"private", "public"}, content : 0 .. 255] : d = v.der
    BY <2>1
  <2>3. der = d
    BY <1>1, <2>2
  <2>4. d.kind \in {"private", "public"} /\ d.content \in Nat
    BY <2>2
  <2> QED BY <2>3, <2>4
<1>7. SegmentCount(spLen) \in 0 .. n + 1
  <2>1. spLen \in {6 * n + 2, 0, 6 * n - 4, 6 * n + 5, 6 * n + 8}
    BY <1>1
  <2> QED BY <1>2, <2>1, SegmentCounts
<1>8. PathShape
  BY <1>2, <1>3, <1>4, <1>5, <1>6, <1>7 DEF PathShape
<1>9. WalkPlace
  BY <1>1, <1>2, <1>3, <1>7, PathAssumption DEF WalkPlace
<1>10. CheckedPart
  BY <1>1, <1>2 DEF CheckedPart
<1>11. RefusesNoTrueChain
  BY <1>1, <1>2, <1>3, <1>4 DEF RefusesNoTrueChain, Consistent
<1> QED BY <1>8, <1>9, <1>10, <1>11 DEF PathInv

\* Where the counter stands on a path whose length field matches its lists.
LEMMA PlaceOnPath ==
  ASSUME PathInv, Walking, Consistent
  PROVE  /\ pos \in 1 .. Len(segs) /\ iter \in Nat /\ Len(segs) \in Nat
         /\ iter + pos = Len(segs) + 1 /\ Len(sigs) = Len(segs)
         /\ DOMAIN segs = 1 .. Len(segs)
         /\ targetAS = IF pos = 1 THEN local_as ELSE segs[pos - 1]
<1>1. /\ iter \in Nat /\ pos \in 1 .. Len(segs) + 1
      /\ iter + pos = SegmentCount(spLen) + 1
      /\ iter > 0 => targetAS = IF pos = 1 THEN local_as ELSE segs[pos - 1]
  BY DEF PathInv, WalkPlace
<1>2. Len(segs) \in Nat /\ DOMAIN segs = 1 .. Len(segs)
  BY DEF PathInv, PathShape
<1>3. SegmentCount(spLen) = Len(segs) /\ Len(sigs) = Len(segs)
  BY DEF Consistent
<1>4. iter > 0 /\ pos <= Len(segs)
  BY DEF Walking
<1> QED BY <1>1, <1>2, <1>3, <1>4

\* The key at the count is the key of the segment at hand, when the lists agree.
LEMMA KeyOfSegment ==
  ASSUME PathShape, WalkPlace, Consistent, iter > 0
  PROVE  /\ CurrentKey = KeyAt(pos) /\ CurrentKey \in GivenKey
         /\ keys = << >> => CurrentKey = NoKey
         /\ keys # << >> => CurrentKey = keys[pos] /\ Len(keys) = Len(segs)
<1>1. pos \in 1 .. Len(segs) /\ Len(segs) \in Nat
  BY DEF PathShape, WalkPlace, Consistent
<1>2. CASE keys = << >>
  BY <1>2 DEF CurrentKey, KeyAt, GivenKey
<1>3. CASE keys # << >>
  <2>1. /\ Len(keys) = Len(segs) /\ DOMAIN keys = 1 .. Len(segs)
        /\ \A i \in 1 .. Len(segs) : keys[i] \in GivenKey
    BY <1>3 DEF PathShape
  <2>2. Len(keys) - iter + 1 = pos
    BY <1>1, <2>1 DEF WalkPlace, Consistent
  <2>3. CurrentKey = KeyAt(pos) /\ KeyAt(pos) = keys[pos]
    BY <1>1, <1>3, <2>1, <2>2 DEF CurrentKey, KeyAt
  <2> QED BY <1>1, <1>3, <2>1, <2>3
<1> QED BY <1>2, <1>3

\* Which key a segment is checked with.
LEMMA KeyUsed ==
  ASSUME PathInv, Walking, Consistent
  PROVE  /\ CurrentKey \in GivenKey
         /\ pos # Len(segs) =>
              KeyOf(pos) = IF CurrentKey \in SigningKey THEN CurrentKey ELSE sigs[pos].ski
         /\ pos = Len(segs) =>
              /\ keys # << >> /\ keys[1] # NoKey /\ CurrentKey \in SigningKey => KeyOf(pos) = CurrentKey
              /\ ~(keys # << >> /\ keys[1] # NoKey) => KeyOf(pos) = sigs[pos].ski
<1>1. /\ CurrentKey = KeyAt(pos) /\ CurrentKey \in GivenKey
      /\ keys = << >> => CurrentKey = NoKey
  BY KeyOfSegment DEF PathInv, Walking
<1>2. NoKey \notin SigningKey
  BY PathAssumption
<1> QED BY <1>1, <1>2 DEF KeyOf

\* A signature accepted is the next link of the chain.
LEMMA TransitLink ==
  ASSUME PathInv, Walking, iter > 1, Consistent,
         TransitVerified(sigs[pos], Data(targetAS, segs[pos], <<sigs[pos + 1].signature>>))
  PROVE  Link(pos)
<1> DEFINE data == Data(targetAS, segs[pos], <<sigs[pos + 1].signature>>)
<1>1. pos # Len(segs) /\ targetAS = IF pos = 1 THEN local_as ELSE segs[pos - 1]
  BY PlaceOnPath
<1>2. CurrentKey \in GivenKey /\ NoKey \notin SigningKey
  BY KeyUsed, PathAssumption
<1>3. KeyOf(pos) = IF CurrentKey \in SigningKey THEN CurrentKey ELSE sigs[pos].ski
  BY <1>1, KeyUsed
<1> HIDE DEF data
<1>4. TransitVerified(sigs[pos], data)
  BY DEF data
<1>5. sigs[pos].signature = Sig(data, KeyOf(pos))
  BY <1>2, <1>3, <1>4
     DEF GivenKey, TransitVerified, VerifySignatureSSL, VerifySignatureSSL_withKeyInfo, ECDSA_verify
<1> QED BY <1>1, <1>5 DEF Link, data

LEMMA OriginLink ==
  ASSUME PathInv, Walking, iter = 1, Consistent,
         OriginVerified(sigs[pos], Data(targetAS, segs[pos], Prefix))
  PROVE  Link(pos) /\ pos = Len(segs)
<1> DEFINE data == Data(targetAS, segs[pos], Prefix)
<1>1. pos = Len(segs) /\ targetAS = IF pos = 1 THEN local_as ELSE segs[pos - 1]
  BY PlaceOnPath
<1>2. /\ CurrentKey \in GivenKey
      /\ keys # << >> /\ keys[1] # NoKey /\ CurrentKey \in SigningKey => KeyOf(pos) = CurrentKey
      /\ ~(keys # << >> /\ keys[1] # NoKey) => KeyOf(pos) = sigs[pos].ski
  BY <1>1, KeyUsed
<1> HIDE DEF data
<1>3. OriginVerified(sigs[pos], data)
  BY DEF data
<1>4. sigs[pos].signature = Sig(data, KeyOf(pos))
  BY <1>2, <1>3
     DEF GivenKey, OriginVerified, VerifySignatureSSL, VerifySignatureSSL_withKeyInfo, ECDSA_verify
<1> QED BY <1>1, <1>4 DEF Link, data

\* A link of a true chain is refused only because of the keys.
LEMMA TransitRefused ==
  ASSUME PathInv, Walking, iter > 1, Consistent, TrueChain,
         ~(/\ pos < Len(sigs)
           /\ TransitVerified(sigs[pos], Data(targetAS, segs[pos], <<sigs[pos + 1].signature>>)))
  PROVE  Excused
<1> DEFINE data == Data(targetAS, segs[pos], <<sigs[pos + 1].signature>>)
<1>1. pos \in DOMAIN segs /\ pos # Len(segs) /\ pos < Len(sigs)
  BY PlaceOnPath
<1>2. sigs[pos].signature = Sig(data, KeyOf(pos))
  BY <1>1, PlaceOnPath DEF TrueChain
<1> HIDE DEF data
<1>3. ~TransitVerified(sigs[pos], data)
  BY <1>1 DEF data
<1>4. CurrentKey \in GivenKey /\ NoKey \notin SigningKey /\ NullData \notin SigningKey
  BY KeyUsed, PathAssumption
<1>5. KeyOf(pos) = IF CurrentKey \in SigningKey THEN CurrentKey ELSE sigs[pos].ski
  BY <1>1, KeyUsed
<1>6. CASE CurrentKey = NoKey
  <2>1. KeyOf(pos) = sigs[pos].ski /\ sigs[pos].ski \notin files
    BY <1>2, <1>3, <1>4, <1>5, <1>6 DEF TransitVerified, VerifySignatureSSL, ECDSA_verify
  <2> QED BY <1>1, <2>1 DEF Excused
<1>7. CurrentKey = KeyAt(pos) /\ (CurrentKey # NoKey => keys # << >>)
  BY KeyOfSegment DEF PathInv, Walking
<1>8. CASE CurrentKey = NullData
  BY <1>1, <1>7, <1>8 DEF Excused
<1>9. CASE CurrentKey \in SigningKey
  <2>1. ~KeyDecodes(der) /\ keys # << >>
    BY <1>2, <1>3, <1>4, <1>5, <1>7, <1>9
       DEF TransitVerified, VerifySignatureSSL_withKeyInfo, ECDSA_verify
  <2> QED BY <2>1, DecodesOutsideGap DEF PathInv, PathShape, Excused
<1> QED BY <1>4, <1>6, <1>8, <1>9 DEF GivenKey

LEMMA OriginRefused ==
  ASSUME PathInv, Walking, iter = 1, Consistent, TrueChain,
         ~OriginVerified(sigs[pos], Data(targetAS, segs[pos], Prefix))
  PROVE  Excused
<1> DEFINE data == Data(targetAS, segs[pos], Prefix)
<1>1. pos = Len(segs) /\ pos \in DOMAIN segs
  BY PlaceOnPath
<1>2. sigs[pos].signature = Sig(data, KeyOf(pos))
  BY <1>1, PlaceOnPath DEF TrueChain
<1> HIDE DEF data
<1>3. ~OriginVerified(sigs[pos], data)
  BY DEF data
<1>4. /\ CurrentKey \in GivenKey
      /\ keys # << >> /\ keys[1] # NoKey /\ CurrentKey \in SigningKey => KeyOf(pos) = CurrentKey
      /\ ~(keys # << >> /\ keys[1] # NoKey) => KeyOf(pos) = sigs[pos].ski
  BY <1>1, KeyUsed
<1>5. CASE ~(keys # << >> /\ keys[1] # NoKey)
  <2>1. KeyOf(pos) = sigs[pos].ski /\ sigs[pos].ski \notin files
    BY <1>2, <1>3, <1>4, <1>5 DEF OriginVerified, VerifySignatureSSL, ECDSA_verify
  <2> QED BY <1>1, <2>1 DEF Excused
<1>6. CASE keys # << >> /\ keys[1] # NoKey
  <2>1. CurrentKey = KeyAt(pos) /\ CurrentKey = keys[Len(keys)]
    BY <1>1, <1>6, KeyOfSegment DEF PathInv, Walking
  <2>2. CASE CurrentKey = NoKey
    BY <1>6, <2>1, <2>2 DEF Excused
  <2>3. CASE CurrentKey = NullData
    BY <1>1, <2>1, <2>3 DEF Excused
  <2>4. CASE CurrentKey \in SigningKey
    <3>1. NoKey \notin SigningKey /\ NullData \notin SigningKey
      BY PathAssumption
    <3>2. ~KeyDecodes(der)
      BY <1>2, <1>3, <1>4, <1>6, <2>4, <3>1
         DEF OriginVerified, VerifySignatureSSL_withKeyInfo, ECDSA_verify
    <3> QED BY <1>6, <3>2, DecodesOutsideGap DEF PathInv, PathShape, Excused
  <2> QED BY <1>4, <2>2, <2>3, <2>4 DEF GivenKey
<1> QED BY <1>5, <1>6

----------------------------------------------------------------------------
\* What a step that looks at a signature keeps: the path itself, and the counters' sum.
LEMMA AdvanceKeeps ==
  ASSUME PathInv, Walking, NEW ok \in BOOLEAN, NEW t \in AS, Advance(ok, t),
         iter > 1 => t = segs[pos],
         Consistent /\ ok => Link(pos),
         Consistent /\ ~ok /\ TrueChain => Excused
  PROVE  PathInv'
<1>1. /\ segs' = segs /\ sigs' = sigs /\ spLen' = spLen /\ keys' = keys /\ der' = der
      /\ files' = files /\ iter' = iter - 1 /\ pos' = pos + 1 /\ targetAS' = t
      /\ verdict' = IF ok THEN "none" ELSE "ERROR"
  BY DEF Advance
<1>2. verdict = "none" /\ iter > 0 /\ pos <= Len(segs)
  BY DEF Walking
<1>3. (Consistent' <=> Consistent) /\ (TrueChain' <=> TrueChain) /\ (Excused' <=> Excused)
  BY <1>1 DEF Consistent, TrueChain, KeyOf, KeyAt, Excused
<1>4. \A i : Link(i)' <=> Link(i)
  BY <1>1 DEF Link, KeyOf, KeyAt
<1>5. PathShape'
  BY <1>1 DEF PathInv, PathShape
<1>6. WalkPlace'
  <2>1. /\ iter \in Nat /\ pos \in 1 .. Len(segs) + 1 /\ Len(segs) \in Nat
        /\ iter + pos = SegmentCount(spLen) + 1 /\ SegmentCount(spLen) \in Nat
    BY DEF PathInv, WalkPlace, PathShape
  <2>2. SegmentCount(spLen)' = SegmentCount(spLen)
    BY <1>1
  <2>3. iter' \in Nat /\ pos' \in 1 .. Len(segs') + 1 /\ iter' + pos' = SegmentCount(spLen)' + 1
    BY <1>1, <1>2, <2>1, <2>2
  <2>4. iter' > 0 => targetAS' = IF pos' = 1 THEN local_as ELSE segs'[pos' - 1]
    BY <1>1, <1>2, <2>1
  <2> QED BY <1>1, <2>3, <2>4 DEF WalkPlace
<1>7. CheckedPart'
  <2>1. verdict' \in {"none", "ERROR", "SUCCESS"} /\ verdict' # "SUCCESS"
    BY <1>1
  <2>2. ASSUME verdict' # "ERROR", Consistent'
        PROVE  \A i \in 1 .. pos' - 1 : Link(i)'
    <3>1. ok /\ Consistent
      BY <1>1, <1>3, <2>2
    <3>2. \A i \in 1 .. pos - 1 : Link(i)
      BY <1>2, <3>1 DEF PathInv, CheckedPart
    <3>3. pos \in Nat
      BY DEF PathInv, WalkPlace, PathShape
    <3>4. \A i \in 1 .. pos' - 1 : i \in 1 .. pos - 1 \/ i = pos
      BY <1>1, <3>3
    <3> QED BY <1>4, <3>1, <3>2, <3>4
  <2> QED BY <2>1, <2>2 DEF CheckedPart
<1>8. RefusesNoTrueChain'
  BY <1>1, <1>3 DEF RefusesNoTrueChain
<1> QED BY <1>5, <1>6, <1>7, <1>8 DEF PathInv

LEMMA NextPathInv == PathInv /\ [PathNext]_pvars => PathInv'
<1> SUFFICES ASSUME PathInv, [PathNext]_pvars PROVE PathInv'
  OBVIOUS
<1>0. segs \in [1 .. Len(segs) -> AS] /\ targetAS \in AS
  BY DEF PathInv, PathShape, WalkPlace
<1>1. CASE VerifyTransit
  <2> DEFINE ok == /\ pos < Len(sigs)
                   /\ TransitVerified(sigs[pos], Data(targetAS, segs[pos],
                                                      <<sigs[pos + 1].signature>>))
  <2>1. Walking /\ iter > 1 /\ Advance(ok, segs[pos])
    BY <1>1 DEF VerifyTransit, NextTarget
  <2>2. pos \in 1 .. Len(segs)
    BY <2>1 DEF Walking, PathInv, WalkPlace, PathShape
  <2>3. segs[pos] \in AS
    BY <1>0, <2>2
  <2>4. Consistent /\ ok => Link(pos)
    BY <2>1, TransitLink
  <2>5. Consistent /\ ~ok /\ TrueChain => Excused
    BY <2>1, TransitRefused
  <2>6. ok \in BOOLEAN
    OBVIOUS
  <2> HIDE DEF ok
  <2> QED BY <2>1, <2>3, <2>4, <2>5, <2>6, AdvanceKeeps
<1>2. CASE VerifyOrigin
  <2> DEFINE ok == OriginVerified(sigs[pos], Data(targetAS, segs[pos], Prefix))
  <2>1. Walking /\ iter = 1 /\ Advance(ok, targetAS)
    BY <1>2 DEF VerifyOrigin
  <2>2. Consistent /\ ok => Link(pos)
    BY <2>1, OriginLink
  <2>3. Consistent /\ ~ok /\ TrueChain => Excused
    BY <2>1, OriginRefused
  <2>4. ok \in BOOLEAN
    BY DEF OriginVerified, VerifySignatureSSL, VerifySignatureSSL_withKeyInfo, ECDSA_verify
  <2> HIDE DEF ok
  <2> QED BY <1>0, <2>1, <2>2, <2>3, <2>4, AdvanceKeeps
<1>3. CASE Accept
  <2>1. /\ verdict = "none" /\ ~Walking /\ verdict' = "SUCCESS"
        /\ segs' = segs /\ sigs' = sigs /\ spLen' = spLen /\ keys' = keys /\ der' = der
        /\ files' = files /\ iter' = iter /\ pos' = pos /\ targetAS' = targetAS
    BY <1>3 DEF Accept
  <2>2. PathShape' /\ WalkPlace'
    BY <2>1 DEF PathInv, PathShape, WalkPlace
  <2>3. (Consistent' <=> Consistent) /\ \A i : Link(i)' <=> Link(i)
    BY <2>1 DEF Consistent, Link, KeyOf, KeyAt
  <2>4. Consistent => pos = Len(segs) + 1
    BY <2>1 DEF Walking, Consistent, PathInv, WalkPlace, PathShape
  <2>5. CheckedPart'
    BY <2>1, <2>3, <2>4 DEF PathInv, CheckedPart
  <2>6. RefusesNoTrueChain'
    BY <2>1 DEF RefusesNoTrueChain
  <2> QED BY <2>2, <2>5, <2>6 DEF PathInv
<1>4. CASE UNCHANGED pvars
  <2>1. PathShape' /\ WalkPlace'
    BY <1>4 DEF pvars, PathInv, PathShape, WalkPlace
  <2>2. (Consistent' <=> Consistent) /\ \A i : Link(i)' <=> Link(i)
    BY <1>4 DEF pvars, Consistent, Link, KeyOf, KeyAt
  <2>3. CheckedPart'
    BY <1>4, <2>2 DEF pvars, PathInv, CheckedPart
  <2>4. RefusesNoTrueChain'
    BY <1>4 DEF pvars, PathInv, RefusesNoTrueChain, Consistent, TrueChain, Excused, KeyOf, KeyAt
  <2> QED BY <2>1, <2>3, <2>4 DEF PathInv
<1> QED BY <1>1, <1>2, <1>3, <1>4 DEF PathNext

LEMMA PathInvSuffices == PathInv => ValidationExact
<1> SUFFICES ASSUME PathInv PROVE ValidationExact
  OBVIOUS
<1>1. PathTypeOK
  BY PathAssumption DEF PathInv, PathShape, WalkPlace, CheckedPart, PathTypeOK
<1>2. ASSUME verdict = "SUCCESS", Consistent PROVE TrueChain
  <2>1. pos = Len(segs) + 1 /\ \A i \in 1 .. pos - 1 : Link(i)
    BY <1>2 DEF PathInv, CheckedPart
  <2>2. DOMAIN segs = 1 .. Len(segs) /\ Len(segs) \in Nat
    BY DEF PathInv, PathShape
  <2>3. \A i \in DOMAIN segs : Link(i)
    BY <2>1, <2>2
  <2> QED BY <2>3 DEF TrueChain, Link
<1> QED BY <1>1, <1>2 DEF PathInv, ValidationExact, AcceptsOnlyTrueChains

\* cl_BgpsecVerify accepts a path whose length field matches its lists only if every signature
\* on it was made, with the key that answers for its segment, for the AS the update went to
\* next, and refuses a true chain only for the four reasons of Excused: a missing origin key, a
\* key encoding of 127 to 129 octets, a key without data or a key without a file.
THEOREM ValidationCorrect == PathSpec => []ValidationExact
<1>1. PathInit => PathInv
  BY InitPathInv
<1>2. PathInv /\ [PathNext]_pvars => PathInv'
  BY NextPathInv
<1>3. PathInv => ValidationExact
  BY PathInvSuffices
<1> QED BY <1>1, <1>2, <1>3, PTL DEF PathSpec

-----------------------------------------------------------------------------
(* SrxCrypto: what the methods are bound to                                *)

Target == {"lib", "wrap"}

\* A library handle comes with ten bound methods.
HandleBinds == api.libHandle = "lib" => \A m \in Method : api.method[m] \in Target

\* After an init that failed a core method is garbage only if the handle is: a NULL handle
\* makes init reset them.
FailedIsReset ==
  sret = 0 /\ api.libHandle = "NULL" => \A m \in Core : api.method[m] = "NULL"

\* BindingSound is not inductive: a call after a failed init needs to know what that init
\* has left in the methods, and an init that finds a handle what an earlier one has bound.
SrxInv == BindingSound /\ HandleBinds /\ FailedIsReset

----------------------------------------------------------------------------
\* srxCryptoInit with a library binds all ten methods, whatever the library exports.
LEMMA BindAllTarget == ASSUME NEW f, NEW c PROVE BindAll(f, c) \in [Method -> Target]
  <1>1. \A m : Bind(c, m) \in Target
    BY DEF Bind, Target
  <1> QED
    BY <1>1 DEF BindAll, BindTo, BindValidate, BindSign, BindPrivate, BindPublic, BindFeature,
                Method, Core

\* The object of srxCryptoUnbind and of a failing init is an API object with a NULL handle,
\* whose core methods are NULL.
LEMMA UnboundObject ==
  ASSUME NEW a \in [libHandle : {"NULL", "garbage", "lib"},
                    method : [Method -> {"NULL", "garbage", "lib", "wrap"}]]
  PROVE  /\ Unbound(a) \in [libHandle : {"NULL"},
                            method : [Method -> {"NULL", "garbage", "lib", "wrap"}]]
         /\ \A m \in Core : Unbound(a).method[m] = "NULL"
  BY DEF Unbound, UnbindMethods, Method

LEMMA SrxInitInv == SrxInit => SrxInv
  BY DEF SrxInit, SrxInv, BindingSound, SrxTypeOK, GuardedCallsLand, AstrayCalls, NoCoreDangles,
         OneHandle, HandleBinds, FailedIsReset, Reaches, Method, Core

\* A method call changes neither the object nor what init returned.
LEMMA CallInv ==
  ASSUME SrxInv, NEW m \in Method, CallMethod(m), sret \in {0, 1},
         sret = 1 => Reaches(m) \in Target,
         sret = 0 => m \in Core
  PROVE  SrxInv'
  <1> USE DEF SrxInv, BindingSound
  <1>1. UNCHANGED <<api, handles, sret>> /\ called = "ok"
    BY DEF CallMethod
  <1>2. Reaches(m) \in {"NULL", "garbage", "lib", "wrap", "unloaded"}
    BY DEF Reaches, SrxTypeOK
  <1>3. SrxTypeOK'
    BY <1>1, <1>2 DEF SrxTypeOK, CallMethod, Wrapper
  <1>4. AstrayCalls'
    <2>1. CASE sret = 1
      BY <2>1, <1>1 DEF CallMethod, AstrayCalls, Target
    <2>2. CASE sret = 0
      <3>1. m \in Core
        BY <2>2
      <3>2. Reaches(m) # "unloaded"
        BY <3>1 DEF NoCoreDangles
      <3>3. api.libHandle = "NULL" => api.method[m] = "NULL"
        BY <3>1, <2>2 DEF FailedIsReset
      <3>4. api.libHandle = "lib" => Reaches(m) \in Target
        BY <3>2 DEF HandleBinds, Reaches, Target
      <3>5. api.libHandle \in {"NULL", "garbage", "lib"}
        BY DEF SrxTypeOK
      <3>6. called' \in {"NULL", "garbage", "unloaded"} =>
              Reaches(m) = called' /\ Reaches(m) \notin Target
        BY DEF CallMethod, Target
      <3> QED  BY <3>2, <3>3, <3>4, <3>5, <3>6, <2>2, <1>1 DEF AstrayCalls, Reaches
    <2> QED  BY <2>1, <2>2
  <1>5. (GuardedCallsLand /\ NoCoreDangles /\ OneHandle /\ HandleBinds /\ FailedIsReset)'
    BY <1>1 DEF GuardedCallsLand, NoCoreDangles, OneHandle, HandleBinds, FailedIsReset, Reaches
  <1> QED  BY <1>3, <1>4, <1>5

\* Every step keeps the invariant.
LEMMA SrxNextInv == SrxInv /\ [SrxNext]_svars => SrxInv'
  <1> SUFFICES ASSUME SrxInv, [SrxNext]_svars PROVE SrxInv'
    OBVIOUS
  <1> USE DEF SrxInv, BindingSound
  <1> DEFINE Api == [libHandle : {"NULL", "garbage", "lib"},
                     method : [Method -> {"NULL", "garbage", "lib", "wrap"}]]
  <1>0. api \in Api /\ handles \in Nat /\ sret \in {-1, 0, 1}
    BY DEF SrxTypeOK
  <1>1. ASSUME NEW c \in Configs, srxCryptoInit(c) PROVE SrxInv'
    <2> DEFINE f == ResetMethods(api.method)
    <2>0. called = "ok" /\ UNCHANGED <<called, answer>>
      BY <1>1 DEF srxCryptoInit
    <2>f. f \in [Method -> {"NULL", "garbage", "lib", "wrap"}]
      BY <1>0 DEF ResetMethods
    <2>1. CASE AlreadyInitialised(api)
      BY <1>0, <1>1, <2>0, <2>1
         DEF srxCryptoInit, AlreadyInitialised, SrxTypeOK, GuardedCallsLand, AstrayCalls,
             NoCoreDangles, OneHandle, HandleBinds, FailedIsReset, Reaches
    <2>2. CASE ~AlreadyInitialised(api) /\ ReadConfig(c) = "library" /\ c.opens
      <3>1. handles = 0
        BY <2>2 DEF AlreadyInitialised, OneHandle
      <3>2. api' = [libHandle |-> "lib", method |-> BindAll(f, c)] /\ handles' = 1 /\ sret' = 1
        BY <1>1, <2>2, <3>1 DEF srxCryptoInit
      <3>3. api'.method \in [Method -> Target] /\ api'.libHandle = "lib"
        BY <3>2, BindAllTarget
      <3>4. api' \in Api
        BY <3>2, BindAllTarget DEF Target
      <3>5. \A m \in Method : Reaches(m)' \in Target
        BY <3>2, <3>3 DEF Reaches, Target
      <3> HIDE DEF Api
      <3>6. SrxTypeOK'
        BY <3>2, <3>4, <2>0 DEF SrxTypeOK, Api
      <3>7. (GuardedCallsLand /\ NoCoreDangles)'
        BY <3>5 DEF GuardedCallsLand, NoCoreDangles, Target, Method
      <3>8. (AstrayCalls /\ OneHandle /\ HandleBinds /\ FailedIsReset)'
        BY <2>0, <3>2, <3>3 DEF AstrayCalls, OneHandle, HandleBinds, FailedIsReset, Target
      <3> QED  BY <3>6, <3>7, <3>8
    <2>3. CASE ~AlreadyInitialised(api) /\ ReadConfig(c) = "local"
      <3>1. /\ api' = [libHandle |-> "NULL", method |-> LocalMapping(f)]
            /\ sret' = 1 /\ handles' = handles /\ handles = 0
        BY <1>1, <2>3 DEF srxCryptoInit, AlreadyInitialised, OneHandle
      <3>2. /\ LocalMapping(f) \in [Method -> {"NULL", "garbage", "lib", "wrap"}]
            /\ \A m \in Core : LocalMapping(f)[m] = "wrap"
        <4> HIDE DEF f
        <4> QED  BY <2>f DEF LocalMapping, Method
      <3> HIDE DEF f
      <3> QED
        BY <2>0, <3>1, <3>2, <1>0
           DEF SrxTypeOK, GuardedCallsLand, AstrayCalls, NoCoreDangles, OneHandle, HandleBinds,
               FailedIsReset, Reaches
    <2>4. CASE /\ ~AlreadyInitialised(api)
               /\ ~(ReadConfig(c) = "library" /\ c.opens) /\ ReadConfig(c) # "local"
      <3> DEFINE a == [api EXCEPT !.method = f]
      <3>1. /\ api' = Unbound(a)
            /\ sret' = 0 /\ handles' = handles /\ handles = 0
        BY <1>1, <2>4 DEF srxCryptoInit, AlreadyInitialised, OneHandle
      <3>2. a \in Api
        <4> HIDE DEF f
        <4> QED  BY <1>0, <2>f
      <3>3. /\ api' \in [libHandle : {"NULL"}, method : [Method -> {"NULL", "garbage", "lib", "wrap"}]]
            /\ \A m \in Core : api'.method[m] = "NULL"
        <4> HIDE DEF a
        <4> QED  BY <3>1, <3>2, UnboundObject
      <3> QED
        BY <2>0, <3>1, <3>3, <1>0
           DEF SrxTypeOK, GuardedCallsLand, AstrayCalls, NoCoreDangles, OneHandle, HandleBinds,
               FailedIsReset, Reaches
    <2> QED  BY <2>1, <2>2, <2>3, <2>4
  <1>2. CASE srxCryptoUnbind
    <2>1. api' = Unbound(api) /\ sret' = -1 /\ UNCHANGED answer /\ called' \in {"ok", "closed garbage"}
      BY <1>2 DEF srxCryptoUnbind
    <2>2. handles' = 0
      <3>1. handles' = IF api.libHandle = "lib" THEN handles - 1 ELSE handles
        BY <1>2 DEF srxCryptoUnbind
      <3>2. handles = IF api.libHandle = "lib" THEN 1 ELSE 0
        BY DEF OneHandle
      <3>3. CASE api.libHandle = "lib"
        BY <3>1, <3>2, <3>3
      <3>4. CASE api.libHandle # "lib"
        BY <3>1, <3>2, <3>4
      <3> QED  BY <3>3, <3>4
    <2>3. /\ api' \in [libHandle : {"NULL"}, method : [Method -> {"NULL", "garbage", "lib", "wrap"}]]
          /\ \A m \in Core : api'.method[m] = "NULL"
      BY <2>1, <1>0, UnboundObject
    <2>4. SrxTypeOK'
      BY <2>1, <2>2, <2>3 DEF SrxTypeOK
    <2>5. (AstrayCalls /\ GuardedCallsLand /\ FailedIsReset)'
      <3>0. sret' = -1
        BY <2>1
      <3>1. sret' # 0 /\ sret' # 1
        BY <3>0
      <3>2. AstrayCalls'
        BY <2>1 DEF AstrayCalls
      <3> QED  BY <3>1, <3>2 DEF GuardedCallsLand, FailedIsReset
    <2>6. (NoCoreDangles /\ OneHandle /\ HandleBinds)'
      BY <2>2, <2>3 DEF NoCoreDangles, OneHandle, HandleBinds, Reaches
    <2> QED  BY <2>4, <2>5, <2>6
  <1>3. CASE TestLoadKeyMain
    <2>1. PICK m \in Core : CallMethod(m)
      BY <1>3 DEF TestLoadKeyMain
    <2>2. sret = 1 /\ Reaches(m) \in Target /\ m \in Method
      BY <1>3 DEF TestLoadKeyMain, GuardedCallsLand, Target, Method
    <2> QED  BY <2>1, <2>2, CallInv
  <1>4. CASE ExtendedCall
    <2>1. PICK m \in Method \ Core : CallMethod(m)
      BY <1>4 DEF ExtendedCall
    <2>2. sret = 1 /\ Reaches(m) \in Target
      BY <1>4 DEF ExtendedCall, GuardedCallsLand, Target
    <2> QED  BY <2>1, <2>2, CallInv
  <1>5. CASE PerfTest
    <2>1. PICK m \in {"sign_with_key", "validate"} : CallMethod(m)
      BY <1>5 DEF PerfTest
    <2>2. sret \in {0, 1} /\ m \in Core /\ m \in Method
      BY <1>0, <1>5 DEF PerfTest, Core, Method
    <2>3. sret = 1 => Reaches(m) \in Target
      BY <2>2 DEF GuardedCallsLand, Target
    <2> QED  BY <2>1, <2>2, <2>3, CallInv
  <1>6. CASE UNCHANGED svars
    BY <1>6
       DEF svars, SrxTypeOK, GuardedCallsLand, AstrayCalls, NoCoreDangles, OneHandle, HandleBinds,
           FailedIsReset, Reaches
  <1> QED  BY <1>1, <1>2, <1>3, <1>4, <1>5, <1>6 DEF SrxNext

\* Whatever configurations and libraries are met, no sequence of inits, unbinds and calls makes
\* a program that heeds init's result call code that is not there, leaves a core method
\* pointing into a closed library, or loses a handle.
THEOREM BindingHolds == SrxSpec => []BindingSound
  <1>1. SrxInv => BindingSound
    BY DEF SrxInv
  <1> QED  BY <1>1, SrxInitInv, SrxNextInv, PTL DEF SrxSpec

----------------------------------------------------------------------------
(***************************************************************************)
(* The key store: what slots, records and programs point to.               *)
(***************************************************************************)

FaultName == {"none", "stale_buffer", "stale_record", "stale_key", "key_twice", "buffer_twice",
              "no_slot", "wrong_type", "never", "wild_free", "null_write", "freed_record"}
Numbered  == {k \in Key : AsnOf[k] # 0}
RecordOf  == [asn : {AsnOf[k] : k \in Numbered}, ski : {SkiOf[k] : k \in Key},
              data : Obj, no : Obj]
SlotEntry == [id : Slot, ec_key : Obj \cup {NULL}, en_buf : Obj \cup {NULL}]

Store == [rec : SUBSET RecordOf, slot : [Slot -> SlotEntry], made : 0 .. MaxObj,
          heap : [Obj -> {"unused", "live", "freed"}], of : [Obj -> Key \cup {NULL}],
          keyData : [Key -> Obj \cup {NULL}], ret : 0 .. IdModulus - 1, fault : FaultName]

\* Objects are made in order, and whatever is pointed to was made.
Made(s) ==
  /\ \A o \in Obj : s.heap[o] = "unused" <=> o > s.made
  /\ \A r \in s.rec : r.data <= s.made /\ r.no <= s.made
  /\ \A i \in Slot : s.slot[i].ec_key <= s.made /\ s.slot[i].en_buf <= s.made
  /\ \A k \in Key : s.keyData[k] <= s.made

\* A slot is empty or has its number, an EC_KEY of its own and a buffer; no EC_KEY is a buffer.
Filed(s) ==
  /\ \A i \in Slot : s.slot[i] = EmptySlot
                     \/ (s.slot[i].id = i /\ s.slot[i].ec_key # NULL /\ s.slot[i].en_buf # NULL)
  /\ \A i, j \in Slot : s.slot[i].ec_key # NULL =>
       /\ s.slot[i].ec_key # s.slot[j].en_buf
       /\ i # j => s.slot[i].ec_key # s.slot[j].ec_key
  /\ \A i \in Slot, k \in Key : s.slot[i].ec_key # NULL => s.slot[i].ec_key # s.keyData[k]
  /\ \A i \in Slot, r \in s.rec : s.slot[i].ec_key # r.data

Well(s) == s \in Store /\ Made(s) /\ Filed(s)

KsTypes == /\ Well(ks) /\ issued \in [Key -> 0 .. IdModulus - 1] /\ used \subseteq Key
           /\ Going => \A k \in Key : issued[k] # 0 => issued[k] - 1 \in Slot

\* The array names no dead key before a signature has failed.
Live(s) ==
  /\ s.fault \notin {"stale_key", "key_twice"}
  /\ \A i \in Slot : s.slot[i].ec_key # NULL => s.heap[s.slot[i].ec_key] = "live"

KeysLive == "sign_failed" \notin blame => Live(ks)

\* While no two keys met in one slot, a slot belongs to the key it was filled for.
Owns(k, i) ==
  /\ AsnOf[k] # 0 /\ SlotOf(AsnOf[k]) = i /\ ks.of[ks.slot[i].ec_key] = k
  /\ "program_freed" \notin blame => ks.keyData[k] = ks.slot[i].en_buf

Apart ==
  blame \cap {"shared_slot", "no_memory"} = {} =>
    /\ \A j, k \in used : j # k => SlotOf(AsnOf[j]) # SlotOf(AsnOf[k])
    /\ \A i \in Slot : ks.slot[i].ec_key # NULL => \E k \in used : Owns(k, i)
    /\ Going => \A k \in Key : issued[k] # 0 =>
                  k \in used /\ AsnOf[k] # 0 /\ issued[k] = SlotOf(AsnOf[k]) + 1
    /\ "id_zero" \notin blame => \A i \in Slot : ks.slot[i].ec_key # NULL => ReturnedId(i) # 0

\* Without a cause no dead buffer is pointed to.
BuffersLive ==
  blame \cap {"program_freed", "shared_slot", "no_memory", "record_stays", "id_zero"} = {} =>
    /\ ks.fault \notin {"stale_buffer", "stale_record", "buffer_twice"}
    /\ \A k \in Key : ks.keyData[k] # NULL => ks.heap[ks.keyData[k]] = "live"
    /\ \A j, k \in Key : ks.keyData[j] = ks.keyData[k] /\ j # k => ks.keyData[j] = NULL
    /\ \A r \in ks.rec : ks.heap[r.data] = "live"

\* A record has its slot, and so has an id.
RecordsFiled ==
  Going /\ blame \subseteq {"program_freed", "id_zero"} =>
    /\ \A r \in ks.rec : \E k \in used :
         /\ AsnOf[k] # 0 /\ r.asn = AsnOf[k] /\ r.ski = SkiOf[k]
         /\ ks.slot[SlotOf(AsnOf[k])].ec_key # NULL
         /\ ks.slot[SlotOf(AsnOf[k])].en_buf = r.data
    /\ \A q, r \in ks.rec : q.asn = r.asn => q = r
    /\ \A k \in Key : issued[k] # 0 => ks.slot[SlotOf(AsnOf[k])].ec_key # NULL

KsInv == KsTypes /\ KeysLive /\ Apart /\ BuffersLive /\ RecordsFiled /\ WildAccessNeedsCause

\* The steps in which every call returns.
Calls ==
  \/ \E k \in Key :
        \/ KeyLoading(k) \/ TestRegisterPrivateKey(k) \/ RegisterPublicKey(k)
        \/ TestSignWithID(k) \/ TestUnregisterKey(k) \/ UnregisterPrivateKey(k)
        \/ UnregisterKey(k) \/ ProgramFrees(k)
  \/ MainUnregister

LEMMA KeyNumbers ==
  /\ Slot = 0 .. ID_NUM_MAX - 1 /\ 0 \in Slot /\ Slot \subseteq Nat
  /\ Obj = 1 .. MaxObj /\ NULL = 0 /\ NULL \notin Obj /\ MaxObj \in Nat
  /\ ID_NUM_MAX \in Nat \ {0} /\ IdModulus \in Nat \ {0} /\ ID_NUM_MAX <= IdModulus
BY KeyAssumption DEF Slot, Obj, NULL

LEMMA SlotOfKey ==
  ASSUME NEW k \in Key, AsnOf[k] # 0
  PROVE  SlotOf(AsnOf[k]) \in Slot
<1>1. PICK h \in Nat : h = hashv[AsnOf[k]]
  BY KeyAssumption
<1>2. h % ID_NUM_MAX \in 0 .. ID_NUM_MAX - 1
  BY KeyNumbers
<1> QED BY <1>1, <1>2, KeyNumbers DEF SlotOf

LEMMA Remainder ==
  ASSUME NEW n \in Nat \ {0}, NEW j \in 0 .. n - 1
  PROVE  (n + j) % n = j /\ j % n = j /\ n % n = 0
<1>1. n % n = 0
  OBVIOUS
<1>2. j % n = j
  OBVIOUS
<1>3. (n + j) % n = j
  BY <1>1
<1> QED BY <1>1, <1>2, <1>3

\* Ids are slots plus one, but for the last that a byte can number.
LEMMA Ids ==
  ASSUME NEW i \in Slot
  PROVE  /\ ReturnedId(i) \in 0 .. IdModulus - 1
         /\ ReturnedId(i) # 0 => ReturnedId(i) = i + 1
         /\ ReturnedId(i) = 0 <=> i = IdModulus - 1
<1>1. i \in Nat /\ i + 1 <= IdModulus /\ IdModulus \in Nat \ {0}
  BY KeyNumbers
<1>2. CASE i + 1 = IdModulus
  <2>1. (i + 1) % IdModulus = 0
    <3>1. 0 \in 0 .. IdModulus - 1
      BY <1>1
    <3> QED BY <1>1, <1>2, <3>1, Remainder
  <2> QED BY <1>1, <1>2, <2>1 DEF ReturnedId
<1>3. CASE i + 1 # IdModulus
  <2>1. i + 1 \in 0 .. IdModulus - 1
    BY <1>1, <1>3
  <2>2. (i + 1) % IdModulus = i + 1
    BY <1>1, <2>1, Remainder
  <2> QED BY <1>1, <1>3, <2>1, <2>2 DEF ReturnedId
<1> QED BY <1>2, <1>3

LEMMA NamedSlot ==
  ASSUME NEW v \in 0 .. IdModulus - 1
  PROVE  /\ SlotNamed(v) \in 0 .. IdModulus - 1
         /\ v # 0 => SlotNamed(v) = v - 1
         /\ v = 0 => SlotNamed(v) = IdModulus - 1
<1>1. IdModulus \in Nat \ {0}
  BY KeyNumbers
<1>2. CASE v = 0
  <2>1. IdModulus - 1 \in 0 .. IdModulus - 1
    BY <1>1
  <2>2. (IdModulus - 1) % IdModulus = IdModulus - 1
    BY <1>1, <2>1, Remainder
  <2>3. v + IdModulus - 1 = IdModulus - 1
    BY <1>1, <1>2
  <2> QED BY <1>2, <2>1, <2>2, <2>3 DEF SlotNamed
<1>3. CASE v # 0
  <2>1. v - 1 \in 0 .. IdModulus - 1 /\ v + IdModulus - 1 = IdModulus + (v - 1)
    BY <1>1, <1>3
  <2>2. (IdModulus + (v - 1)) % IdModulus = v - 1
    BY <1>1, <2>1, Remainder
  <2> QED BY <1>3, <2>1, <2>2 DEF SlotNamed
<1> QED BY <1>2, <1>3

\* The parts of a store.
LEMMA StoreFields ==
  ASSUME NEW s \in Store
  PROVE  /\ s.rec \in SUBSET RecordOf /\ s.slot \in [Slot -> SlotEntry] /\ s.made \in 0 .. MaxObj
         /\ s.heap \in [Obj -> {"unused", "live", "freed"}] /\ s.of \in [Obj -> Key \cup {NULL}]
         /\ s.keyData \in [Key -> Obj \cup {NULL}] /\ s.ret \in 0 .. IdModulus - 1
         /\ s.fault \in FaultName
BY DEF Store

\* t is s but for the parts that are named.
But(s, t, parts) ==
  /\ "rec" \in parts \/ t.rec = s.rec
  /\ "slot" \in parts \/ t.slot = s.slot
  /\ "made" \in parts \/ t.made = s.made
  /\ "heap" \in parts \/ t.heap = s.heap
  /\ "of" \in parts \/ t.of = s.of
  /\ "keyData" \in parts \/ t.keyData = s.keyData
  /\ "ret" \in parts \/ t.ret = s.ret
  /\ "fault" \in parts \/ t.fault = s.fault

LEMMA ReturnsParts ==
  ASSUME NEW s \in Store, NEW v \in 0 .. IdModulus - 1
  PROVE  Returns(s, v) \in Store /\ But(s, Returns(s, v), {"ret"}) /\ Returns(s, v).ret = v
BY DEF Store, Returns, But

LEMMA FaultsParts ==
  ASSUME NEW s \in Store, NEW f \in FaultName
  PROVE  /\ Faults(s, f) \in Store /\ But(s, Faults(s, f), {"fault"})
         /\ Faults(s, f).fault = IF s.fault = "none" THEN f ELSE s.fault
BY DEF Store, Faults, But

LEMMA AllocParts ==
  ASSUME NEW s \in Store, s.made < MaxObj, NEW k \in Key
  PROVE  /\ Alloc(s, k) \in Store /\ But(s, Alloc(s, k), {"made", "heap", "of"})
         /\ Alloc(s, k).made = s.made + 1 /\ s.made + 1 \in Obj
         /\ Alloc(s, k).heap = [s.heap EXCEPT ![s.made + 1] = "live"]
         /\ Alloc(s, k).of = [s.of EXCEPT ![s.made + 1] = k]
<1>1. s.made \in Nat /\ s.made + 1 \in Obj /\ s.made + 1 \in 0 .. MaxObj
  BY StoreFields, KeyNumbers
<1> QED BY <1>1 DEF Store, Alloc, Fresh, But

\* t is s after free(o), f being the fault of a second one.
Frees(s, t, o, f) ==
  /\ t \in Store /\ But(s, t, {"heap", "fault"})
  /\ \A p \in Obj : t.heap[p] = IF p = o THEN "freed" ELSE s.heap[p]
  /\ t.fault = IF s.fault = "none" /\ o # NULL /\ s.heap[o] = "freed" THEN f ELSE s.fault

LEMMA FreeParts ==
  ASSUME NEW s \in Store, NEW o \in Obj \cup {NULL}, NEW f \in FaultName
  PROVE  Frees(s, FreeObject(s, o, f), o, f)
<1>0. PICK t : t = FreeObject(s, o, f)
  OBVIOUS
<1>1. CASE o = NULL
  BY <1>0, <1>1, KeyNumbers DEF FreeObject, But, Frees
<1>2. CASE o # NULL /\ s.heap[o] = "freed"
  <2>1. t = Faults(s, f)
    BY <1>0, <1>2 DEF FreeObject
  <2>2. t \in Store /\ But(s, t, {"fault"}) /\ t.fault = IF s.fault = "none" THEN f ELSE s.fault
    BY <2>1, FaultsParts
  <2> QED BY <1>0, <1>2, <2>2 DEF But, Frees
<1>3. CASE o # NULL /\ s.heap[o] # "freed"
  <2>1. t = [s EXCEPT !.heap[o] = "freed"] /\ o \in Obj
    BY <1>0, <1>3 DEF FreeObject
  <2> QED BY <1>0, <1>3, <2>1 DEF Store, But, Frees
<1> QED BY <1>1, <1>2, <1>3

\* Registration puts a new EC_KEY and the program's buffer into slot i, the records becoming R.
NewRecord(s, k) == [asn |-> AsnOf[k], ski |-> SkiOf[k], data |-> s.keyData[k], no |-> s.made + 1]
Enters(s, t, k, i, R) ==
  /\ t \in Store /\ But(s, t, {"rec", "slot", "made", "heap", "of", "ret"})
  /\ t.made = s.made + 1 /\ s.made + 1 \in Obj
  /\ t.heap = [s.heap EXCEPT ![s.made + 1] = "live"]
  /\ t.of = [s.of EXCEPT ![s.made + 1] = k]
  /\ t.slot = [s.slot EXCEPT ![i] = [id |-> i, ec_key |-> s.made + 1, en_buf |-> s.keyData[k]]]
  /\ t.rec = R /\ t.ret = ReturnedId(i)

LEMMA EnterParts ==
  ASSUME NEW s \in Store, s.made < MaxObj, NEW k \in Key, AsnOf[k] # 0, s.keyData[k] # NULL,
         NEW i \in Slot, NEW e, e = [id |-> i, ec_key |-> Fresh(s), en_buf |-> s.keyData[k]]
  PROVE  /\ Enters(s, [inputKeyInfo(Alloc(s, k), k) EXCEPT !.slot[i] = e, !.ret = ReturnedId(i)],
                   k, i, s.rec \cup {NewRecord(s, k)})
         /\ Enters(s, [Alloc(s, k) EXCEPT !.slot[i] = e, !.ret = ReturnedId(i)], k, i, s.rec)
<1>1. ReturnedId(i) \in 0 .. IdModulus - 1
  BY Ids
<1>2. /\ Alloc(s, k) \in Store /\ But(s, Alloc(s, k), {"made", "heap", "of"})
      /\ Alloc(s, k).made = s.made + 1 /\ s.made + 1 \in Obj
      /\ Alloc(s, k).heap = [s.heap EXCEPT ![s.made + 1] = "live"]
      /\ Alloc(s, k).of = [s.of EXCEPT ![s.made + 1] = k]
  BY AllocParts
<1>3. e \in SlotEntry /\ e = [id |-> i, ec_key |-> s.made + 1, en_buf |-> s.keyData[k]]
  BY <1>2, StoreFields DEF SlotEntry, Fresh
<1>4. PICK a \in Store : a = Alloc(s, k)
  BY <1>2
<1>5. NewRecord(s, k) \in RecordOf
  BY <1>2, StoreFields DEF NewRecord, RecordOf, Numbered
<1>6. PICK b \in Store : /\ b = inputKeyInfo(a, k) /\ But(a, b, {"rec"})
                         /\ b.rec = s.rec \cup {NewRecord(s, k)}
  <2>1. a.rec \cup {NewRecord(s, k)} \in SUBSET RecordOf /\ a.rec = s.rec
    BY <1>2, <1>4, <1>5, StoreFields DEF But
  <2>2. inputKeyInfo(a, k) = [a EXCEPT !.rec = a.rec \cup {NewRecord(s, k)}]
    BY <1>2, <1>4 DEF inputKeyInfo, NewRecord, But
  <2> HIDE DEF NewRecord
  <2>3. inputKeyInfo(a, k) \in Store
    BY <2>1, <2>2 DEF Store
  <2>4. But(a, inputKeyInfo(a, k), {"rec"}) /\ inputKeyInfo(a, k).rec = a.rec \cup {NewRecord(s, k)}
    BY <2>2 DEF Store, But
  <2> QED BY <2>1, <2>3, <2>4
<1>7. ASSUME NEW c \in Store
      PROVE  LET t == [c EXCEPT !.slot[i] = e, !.ret = ReturnedId(i)]
             IN  /\ t \in Store /\ But(c, t, {"slot", "ret"})
                 /\ t.slot = [c.slot EXCEPT ![i] = e] /\ t.ret = ReturnedId(i)
  BY <1>1, <1>3 DEF Store, But
<1>8. Enters(s, [b EXCEPT !.slot[i] = e, !.ret = ReturnedId(i)], k, i, s.rec \cup {NewRecord(s, k)})
  <2>1. PICK u : u = [b EXCEPT !.slot[i] = e, !.ret = ReturnedId(i)]
    OBVIOUS
  <2>2. /\ u \in Store /\ But(b, u, {"slot", "ret"})
        /\ u.slot = [b.slot EXCEPT ![i] = e] /\ u.ret = ReturnedId(i)
    BY <1>7, <2>1
  <2>3. b.slot = s.slot /\ b.made = s.made + 1 /\ b.keyData = s.keyData /\ b.fault = s.fault
        /\ b.heap = [s.heap EXCEPT ![s.made + 1] = "live"] /\ b.of = [s.of EXCEPT ![s.made + 1] = k]
    BY <1>2, <1>4, <1>6 DEF But
  <2> HIDE DEF NewRecord
  <2>4. Enters(s, u, k, i, s.rec \cup {NewRecord(s, k)})
    BY <1>2, <1>3, <1>6, <2>2, <2>3 DEF Enters, But
  <2> QED BY <2>1, <2>4
<1>9. Enters(s, [a EXCEPT !.slot[i] = e, !.ret = ReturnedId(i)], k, i, s.rec)
  <2>1. PICK u : u = [a EXCEPT !.slot[i] = e, !.ret = ReturnedId(i)]
    OBVIOUS
  <2>2. /\ u \in Store /\ But(a, u, {"slot", "ret"})
        /\ u.slot = [a.slot EXCEPT ![i] = e] /\ u.ret = ReturnedId(i)
    BY <1>7, <2>1
  <2>3. Enters(s, u, k, i, s.rec)
    BY <1>2, <1>3, <1>4, <2>2 DEF Enters, But
  <2> QED BY <2>1, <2>3
<1> QED BY <1>4, <1>6, <1>8, <1>9

\* What one call of registerPrivateKey does.
LEMMA RegisterParts ==
  ASSUME NEW s \in Store, NEW k \in Key, NEW d, NEW m, NEW t, t = RegisterPrivate(s, k, d, m)
  PROVE  /\ AsnOf[k] = 0 => t = Returns(s, 0)
         /\ AsnOf[k] # 0 /\ restoreKeyInfo(s, k) # {} => t = Returns(s, ReturnedId(SlotOf(AsnOf[k])))
         /\ AsnOf[k] # 0 /\ restoreKeyInfo(s, k) = {} /\ (s.keyData[k] = NULL \/ ~d) => t = Returns(s, 0)
         /\ AsnOf[k] # 0 /\ restoreKeyInfo(s, k) = {} /\ s.keyData[k] # NULL /\ d =>
              /\ s.heap[s.keyData[k]] = "freed" => t = Faults(s, "stale_buffer")
              /\ s.heap[s.keyData[k]] # "freed" /\ s.made < MaxObj =>
                   /\ m => Enters(s, t, k, SlotOf(AsnOf[k]), s.rec \cup {NewRecord(s, k)})
                   /\ ~m => Enters(s, t, k, 0, s.rec)
<1>1. CASE ~(AsnOf[k] # 0 /\ restoreKeyInfo(s, k) = {} /\ s.keyData[k] # NULL /\ d
             /\ s.heap[s.keyData[k]] # "freed" /\ s.made < MaxObj)
  BY <1>1 DEF RegisterPrivate
<1>2. CASE /\ AsnOf[k] # 0 /\ restoreKeyInfo(s, k) = {} /\ s.keyData[k] # NULL /\ d
           /\ s.heap[s.keyData[k]] # "freed" /\ s.made < MaxObj
  <2>1. CASE m
    <3>1. PICK i \in Slot : i = SlotOf(AsnOf[k])
      BY <1>2, SlotOfKey
    <3>e. PICK e : e = [id |-> i, ec_key |-> Fresh(s), en_buf |-> s.keyData[k]]
      OBVIOUS
    <3>2. t = [inputKeyInfo(Alloc(s, k), k) EXCEPT !.slot[i] = e, !.ret = ReturnedId(i)]
      BY <1>2, <2>1, <3>1, <3>e DEF RegisterPrivate
    <3>3. Enters(s, [inputKeyInfo(Alloc(s, k), k) EXCEPT !.slot[i] = e, !.ret = ReturnedId(i)], k, i, s.rec \cup {NewRecord(s, k)})
      BY <1>2, <3>e, EnterParts
    <3>4. Enters(s, t, k, i, s.rec \cup {NewRecord(s, k)})
      BY <3>2, <3>3
    <3> QED BY <1>2, <2>1, <3>1, <3>4
  <2>2. CASE ~m
    <3>1. PICK i \in Slot : i = 0
      BY KeyNumbers
    <3>e. PICK e : e = [id |-> i, ec_key |-> Fresh(s), en_buf |-> s.keyData[k]]
      OBVIOUS
    <3>2. t = [Alloc(s, k) EXCEPT !.slot[i] = e, !.ret = ReturnedId(i)]
      BY <1>2, <2>2, <3>1, <3>e DEF RegisterPrivate
    <3>3. Enters(s, [Alloc(s, k) EXCEPT !.slot[i] = e, !.ret = ReturnedId(i)], k, i, s.rec)
      BY <1>2, <3>e, EnterParts
    <3>4. Enters(s, t, k, i, s.rec)
      BY <3>2, <3>3
    <3> QED BY <1>2, <2>2, <3>1, <3>4
  <2> QED BY <2>1, <2>2
<1> QED BY <1>1, <1>2

LEMMA SameRecords ==
  ASSUME NEW s, NEW u, s.rec = u.rec, NEW k
  PROVE  restoreKeyInfo(s, k) = restoreKeyInfo(u, k)
BY DEF restoreKeyInfo

\* testRegisterPrivateKey's two calls: the key is known or refused, its buffer is dead, it is
\* entered once, or, without memory for the record, twice.
Known(s, t, k) ==
  /\ But(s, t, {"ret"})
  /\ t.ret = 0 \/ (AsnOf[k] # 0 /\ restoreKeyInfo(s, k) # {} /\ t.ret = ReturnedId(SlotOf(AsnOf[k])))
Dead(s, t, k) ==
  /\ But(s, t, {"fault"}) /\ t.fault = "stale_buffer"
  /\ s.keyData[k] # NULL /\ s.heap[s.keyData[k]] = "freed"
Once(s, t, k) ==
  /\ AsnOf[k] # 0 /\ s.keyData[k] # NULL /\ s.heap[s.keyData[k]] # "freed"
  /\ restoreKeyInfo(s, k) = {}
  /\ Enters(s, t, k, SlotOf(AsnOf[k]), s.rec \cup {NewRecord(s, k)})
Twice(s, t, k) ==
  /\ s.keyData[k] # NULL /\ s.heap[s.keyData[k]] # "freed"
  /\ \E u \in Store : Enters(s, u, k, 0, s.rec) /\ Enters(u, t, k, 0, u.rec)

LEMMA RegisterTwice ==
  ASSUME NEW s \in Store, Made(s), s.fault = "none", NEW k \in Key, NEW d \in BOOLEAN,
         NEW m \in BOOLEAN, Room(s, IF m THEN 1 ELSE 2),
         NEW t, t = RegisterPrivate(RegisterPrivate(s, k, d, m), k, d, m)
  PROVE  t \in Store /\ (Known(s, t, k) \/ Dead(s, t, k) \/ Once(s, t, k) \/ (~m /\ Twice(s, t, k)))
<1>1. PICK u : u = RegisterPrivate(s, k, d, m)
  OBVIOUS
<1>2. t = RegisterPrivate(u, k, d, m)
  BY <1>1
<1>3. s.made \in Nat /\ s.made < MaxObj /\ (~m => s.made + 1 < MaxObj) /\ MaxObj \in Nat
  BY StoreFields, KeyNumbers DEF Room
<1>4. AsnOf[k] # 0 => ReturnedId(SlotOf(AsnOf[k])) \in 0 .. IdModulus - 1
  BY SlotOfKey, Ids
<1>5. 0 \in 0 .. IdModulus - 1 /\ "stale_buffer" \in FaultName
  BY KeyNumbers DEF FaultName
\* A call that only returns is followed by another that does the same.
<1>6. ASSUME NEW v \in 0 .. IdModulus - 1, u = Returns(s, v)
      PROVE  /\ u \in Store /\ But(s, u, {"ret"}) /\ restoreKeyInfo(u, k) = restoreKeyInfo(s, k)
             /\ u.keyData = s.keyData
             /\ t = Returns(u, v) => t \in Store /\ But(s, t, {"ret"}) /\ t.ret = v
  <2>1. u \in Store /\ But(s, u, {"ret"}) /\ u.ret = v
    BY <1>6, ReturnsParts
  <2>2. restoreKeyInfo(u, k) = restoreKeyInfo(s, k)
    BY <2>1, SameRecords DEF But
  <2>3. ASSUME t = Returns(u, v) PROVE t \in Store /\ But(s, t, {"ret"}) /\ t.ret = v
    <3>1. t \in Store /\ But(u, t, {"ret"}) /\ t.ret = v
      BY <2>1, <2>3, ReturnsParts
    <3> QED BY <2>1, <3>1 DEF But
  <2> QED BY <2>1, <2>2, <2>3 DEF But
<1>7. CASE AsnOf[k] = 0
  <2>1. u = Returns(s, 0)
    BY <1>1, <1>7, RegisterParts
  <2>2. u \in Store
    BY <1>5, <1>6, <2>1
  <2>3. t = Returns(u, 0)
    BY <1>2, <1>7, <2>2, RegisterParts
  <2> QED BY <1>5, <1>6, <2>1, <2>3 DEF Known
<1>8. CASE AsnOf[k] # 0 /\ restoreKeyInfo(s, k) # {}
  <2>0. PICK v \in 0 .. IdModulus - 1 : v = ReturnedId(SlotOf(AsnOf[k]))
    BY <1>4, <1>8
  <2>1. u = Returns(s, v)
    BY <1>1, <1>8, <2>0, RegisterParts
  <2>2. u \in Store /\ restoreKeyInfo(u, k) # {}
    BY <1>6, <1>8, <2>1
  <2>3. t = Returns(u, v)
    BY <1>2, <1>8, <2>0, <2>2, RegisterParts
  <2> QED BY <1>6, <1>8, <2>0, <2>1, <2>3 DEF Known
<1>9. CASE AsnOf[k] # 0 /\ restoreKeyInfo(s, k) = {} /\ (s.keyData[k] = NULL \/ ~d)
  <2>1. u = Returns(s, 0)
    BY <1>1, <1>9, RegisterParts
  <2>2. u \in Store /\ restoreKeyInfo(u, k) = {} /\ u.keyData = s.keyData
    BY <1>5, <1>6, <1>9, <2>1
  <2>3. t = Returns(u, 0)
    BY <1>2, <1>9, <2>2, RegisterParts
  <2> QED BY <1>5, <1>6, <2>1, <2>3 DEF Known
<1>10. CASE AsnOf[k] # 0 /\ restoreKeyInfo(s, k) = {} /\ s.keyData[k] # NULL /\ d
  <2>1. CASE s.heap[s.keyData[k]] = "freed"
    <3>1. u = Faults(s, "stale_buffer")
      BY <1>1, <1>10, <2>1, RegisterParts
    <3>2. u \in Store /\ But(s, u, {"fault"}) /\ u.fault = "stale_buffer"
      BY <1>5, <3>1, FaultsParts
    <3>3. restoreKeyInfo(u, k) = {}
      BY <1>10, <3>2, SameRecords DEF But
    <3>4. t = Faults(u, "stale_buffer")
      <4>1. u.keyData[k] # NULL /\ u.heap[u.keyData[k]] = "freed"
        BY <1>10, <2>1, <3>2 DEF But
      <4> QED BY <1>2, <1>10, <3>2, <3>3, <4>1, RegisterParts
    <3>5. t \in Store /\ But(u, t, {"fault"}) /\ t.fault = "stale_buffer"
      BY <1>5, <3>2, <3>4, FaultsParts
    <3>6. But(s, t, {"fault"})
      BY <3>2, <3>5 DEF But
    <3> QED BY <1>10, <2>1, <3>5, <3>6 DEF Dead
  <2>2. CASE s.heap[s.keyData[k]] # "freed" /\ m
    <3>1. Enters(s, u, k, SlotOf(AsnOf[k]), s.rec \cup {NewRecord(s, k)})
      BY <1>1, <1>3, <1>10, <2>2, RegisterParts
    <3>2. u \in Store /\ u.rec = s.rec \cup {NewRecord(s, k)} /\ u.ret = ReturnedId(SlotOf(AsnOf[k]))
      BY <3>1 DEF Enters
    <3>3. NewRecord(s, k) \in restoreKeyInfo(u, k)
      <4>1. ASSUME NEW q \in u.rec PROVE q.no <= NewRecord(s, k).no
        <5>1. q.no <= s.made \/ q = NewRecord(s, k)
          BY <3>2 DEF Made
        <5>2. NewRecord(s, k).no = s.made + 1
          BY DEF NewRecord
        <5>3. q \in s.rec => q.no \in Nat
          BY StoreFields, KeyNumbers DEF RecordOf
        <5> QED BY <1>3, <3>2, <5>1, <5>2, <5>3
      <4>2. NewRecord(s, k).asn = AsnOf[k] /\ NewRecord(s, k).ski = SkiOf[k]
        BY DEF NewRecord
      <4> HIDE DEF NewRecord
      <4> QED BY <3>2, <4>1, <4>2 DEF restoreKeyInfo
    <3>4. PICK v \in 0 .. IdModulus - 1 : v = ReturnedId(SlotOf(AsnOf[k]))
      BY <1>4, <1>10
    <3>5. t = Returns(u, v)
      BY <1>2, <1>10, <3>2, <3>3, <3>4, RegisterParts
    <3>6. t \in Store /\ But(u, t, {"ret"}) /\ t.ret = v
      BY <3>2, <3>5, ReturnsParts
    <3> HIDE DEF NewRecord
    <3>7. Enters(s, t, k, SlotOf(AsnOf[k]), s.rec \cup {NewRecord(s, k)})
      BY <3>1, <3>4, <3>6 DEF Enters, But
    <3> QED BY <1>10, <2>2, <3>6, <3>7 DEF Once
  <2>3. CASE s.heap[s.keyData[k]] # "freed" /\ ~m
    <3>1. Enters(s, u, k, 0, s.rec)
      BY <1>1, <1>3, <1>10, <2>3, RegisterParts
    <3>2. u \in Store /\ u.rec = s.rec /\ u.keyData = s.keyData /\ u.made = s.made + 1
          /\ u.heap = [s.heap EXCEPT ![s.made + 1] = "live"]
      BY <3>1 DEF Enters, But
    <3>3. restoreKeyInfo(u, k) = {}
      BY <1>10, <3>2, SameRecords
    <3>4. u.keyData[k] # NULL /\ u.heap[u.keyData[k]] # "freed"
      <4>1. s.keyData[k] \in Obj /\ s.heap \in [Obj -> {"unused", "live", "freed"}]
        BY <1>10, StoreFields
      <4> QED BY <1>10, <2>3, <3>2, <4>1
    <3>5. u.made < MaxObj
      BY <1>3, <2>3, <3>2
    <3>6. Enters(u, t, k, 0, u.rec)
      <4>1. u \in Store /\ t = RegisterPrivate(u, k, d, m) /\ ~m
        BY <1>2, <2>3, <3>2
      <4>2. AsnOf[k] # 0 /\ restoreKeyInfo(u, k) = {} /\ u.keyData[k] # NULL /\ d
        BY <1>10, <3>3, <3>4
      <4>3. u.heap[u.keyData[k]] # "freed" /\ u.made < MaxObj
        BY <3>4, <3>5
      <4> QED BY <4>1, <4>2, <4>3, RegisterParts
    <3>7. t \in Store
      BY <3>6 DEF Enters
    <3> QED BY <1>10, <2>3, <3>1, <3>2, <3>6, <3>7 DEF Twice
  <2> QED BY <2>1, <2>2, <2>3
<1> QED BY <1>7, <1>8, <1>9, <1>10

\* unregisterPrivateKey on a slot in use.
Releases(s, t, i) ==
  /\ t \in Store /\ But(s, t, {"rec", "slot", "heap", "ret", "fault"})
  /\ t.rec \subseteq s.rec
  /\ \A r \in s.rec \ t.rec : r.data = s.slot[i].en_buf
  /\ t.slot = [s.slot EXCEPT ![i] = EmptySlot]
  /\ \A p \in Obj : t.heap[p] = IF p = s.slot[i].ec_key \/ p = s.slot[i].en_buf THEN "freed"
                                ELSE s.heap[p]
  /\ t.fault = IF s.heap[s.slot[i].ec_key] = "freed" THEN "key_twice"
               ELSE IF s.heap[s.slot[i].en_buf] = "freed" THEN "buffer_twice" ELSE "none"

LEMMA EmptyIsEntry == EmptySlot \in SlotEntry /\ EmptySlot.id = 0 /\ EmptySlot.ec_key = NULL
                      /\ EmptySlot.en_buf = NULL
BY KeyNumbers DEF EmptySlot, SlotEntry

LEMMA UnregisterParts ==
  ASSUME NEW s \in Store, Filed(s), s.fault = "none", NEW v \in 0 .. IdModulus - 1,
         NEW t, t = UnregisterPrivate(s, v), NEW i, i = SlotNamed(v)
  PROVE  /\ t \in Store
         /\ i \notin Slot => But(s, t, {"fault"}) /\ t.fault = "no_slot"
         /\ i \in Slot /\ s.slot[i].ec_key = NULL => But(s, t, {"ret"})
         /\ i \in Slot /\ s.slot[i].ec_key # NULL => Releases(s, t, i)
<1>1. CASE i \notin Slot
  <2>1. t = Faults(s, "no_slot") /\ "no_slot" \in FaultName
    BY <1>1 DEF UnregisterPrivate, FaultName
  <2> QED BY <1>1, <2>1, FaultsParts
<1>2. CASE i \in Slot /\ s.slot[i].id # i
  <2>0. 0 \in 0 .. IdModulus - 1
    BY KeyNumbers
  <2>1. t = Returns(s, 0)
    BY <1>2 DEF UnregisterPrivate
  <2>2. s.slot[i].ec_key = NULL
    BY <1>2, EmptyIsEntry DEF Filed
  <2> QED BY <1>2, <2>0, <2>1, <2>2, ReturnsParts
<1>3. CASE i \in Slot /\ s.slot[i].id = i
  <2>1. PICK ec \in Obj \cup {NULL}, en \in Obj \cup {NULL} :
          ec = s.slot[i].ec_key /\ en = s.slot[i].en_buf
    BY <1>3, StoreFields DEF SlotEntry
  <2>2. PICK a : a = DropRecords(s, i)
    OBVIOUS
  <2>3. PICK b : b = FreeObject(a, ec, "key_twice")
    OBVIOUS
  <2>4. PICK u : u = FreeObject(b, en, "buffer_twice")
    OBVIOUS
  <2>5. PICK c : c = ClearSlot(u, i)
    OBVIOUS
  <2>6. t = Returns(c, 0)
    BY <1>3, <2>1, <2>2, <2>3, <2>4, <2>5 DEF UnregisterPrivate
  <2>7. /\ a \in Store /\ But(s, a, {"rec"})
        /\ a.rec = {r \in s.rec : ~(hashv[r.asn] % num_buckets = i /\ r.data = en)}
    <3>1. PICK R : R = {r \in s.rec : ~(hashv[r.asn] % num_buckets = i /\ r.data = en)}
      OBVIOUS
    <3>2. R \in SUBSET RecordOf
      BY <3>1, StoreFields
    <3>3. a = [s EXCEPT !.rec = R]
      BY <2>1, <2>2, <3>1 DEF DropRecords
    <3>4. a \in Store /\ But(s, a, {"rec"}) /\ a.rec = R
      BY <3>2, <3>3 DEF Store, But
    <3> QED BY <3>1, <3>4
  <2>f. "key_twice" \in FaultName /\ "buffer_twice" \in FaultName
    BY DEF FaultName
  <2>8. /\ b \in Store /\ But(a, b, {"heap", "fault"})
        /\ \A p \in Obj : b.heap[p] = IF p = ec THEN "freed" ELSE a.heap[p]
        /\ b.fault = IF a.fault = "none" /\ ec # NULL /\ a.heap[ec] = "freed" THEN "key_twice" ELSE a.fault
    <3>1. Frees(a, b, ec, "key_twice")
      BY <2>3, <2>7, <2>f, FreeParts
    <3> QED BY <3>1 DEF Frees
  <2>9. /\ u \in Store /\ But(b, u, {"heap", "fault"})
        /\ \A p \in Obj : u.heap[p] = IF p = en THEN "freed" ELSE b.heap[p]
        /\ u.fault = IF b.fault = "none" /\ en # NULL /\ b.heap[en] = "freed" THEN "buffer_twice" ELSE b.fault
    <3>1. Frees(b, u, en, "buffer_twice")
      BY <2>4, <2>8, <2>f, FreeParts
    <3> QED BY <3>1 DEF Frees
  <2>10. c \in Store /\ But(u, c, {"slot"}) /\ c.slot = [u.slot EXCEPT ![i] = EmptySlot]
    BY <1>3, <2>5, <2>9, EmptyIsEntry DEF ClearSlot, Store, But
  <2>11. t \in Store /\ But(c, t, {"ret"})
    BY <2>6, <2>10, ReturnsParts, KeyNumbers
  <2>12. /\ t.rec = a.rec /\ t.slot = [s.slot EXCEPT ![i] = EmptySlot] /\ t.heap = u.heap
         /\ t.made = s.made /\ t.of = s.of /\ t.keyData = s.keyData /\ t.fault = u.fault
    BY <2>7, <2>8, <2>9, <2>10, <2>11 DEF But
  <2>13. a.heap = s.heap /\ a.fault = "none"
    BY <2>7 DEF But
  <2>14. CASE ec = NULL
    <3>1. s.slot[i] = EmptySlot /\ en = NULL
      BY <1>3, <2>1, <2>14, EmptyIsEntry DEF Filed
    <3>2. t.rec = s.rec
      <4>1. \A r \in s.rec : r.data # NULL
        BY StoreFields, KeyNumbers DEF RecordOf
      <4> QED BY <2>7, <2>12, <3>1, <4>1
    <3>3. t.slot = s.slot
      BY <1>3, <2>12, <3>1, StoreFields
    <3>4. u.heap = s.heap
      <4>1. \A p \in Obj : u.heap[p] = s.heap[p]
        BY <2>8, <2>9, <2>13, <2>14, <3>1, KeyNumbers
      <4>2. u.heap \in [Obj -> {"unused", "live", "freed"}] /\ s.heap \in [Obj -> {"unused", "live", "freed"}]
        BY <2>9, StoreFields
      <4> QED BY <4>1, <4>2
    <3>5. u.fault = s.fault
      BY <2>8, <2>9, <2>13, <2>14, <3>1
    <3> QED BY <1>3, <2>1, <2>11, <2>12, <2>14, <3>2, <3>3, <3>4, <3>5 DEF But
  <2>15. CASE ec # NULL
    <3>1. en # NULL /\ ec # en /\ ec \in Obj /\ en \in Obj
      BY <1>3, <2>1, <2>15, EmptyIsEntry DEF Filed
    <3>2. t.rec \subseteq s.rec /\ \A r \in s.rec \ t.rec : r.data = en
      BY <2>7, <2>12
    <3>3. \A p \in Obj : t.heap[p] = IF p = ec \/ p = en THEN "freed" ELSE s.heap[p]
      <4>1. ASSUME NEW p \in Obj PROVE t.heap[p] = IF p = ec \/ p = en THEN "freed" ELSE s.heap[p]
        <5>1. t.heap[p] = u.heap[p]
          BY <2>12
        <5>2. u.heap[p] = IF p = en THEN "freed" ELSE b.heap[p]
          BY <2>9
        <5>3. b.heap[p] = IF p = ec THEN "freed" ELSE s.heap[p]
          BY <2>8, <2>13
        <5> QED BY <5>1, <5>2, <5>3
      <4> QED BY <4>1
    <3>4. t.fault = IF s.heap[ec] = "freed" THEN "key_twice"
                    ELSE IF s.heap[en] = "freed" THEN "buffer_twice" ELSE "none"
      <4>1. b.heap[en] = s.heap[en]
        BY <2>8, <2>13, <3>1
      <4>2. b.fault = IF s.heap[ec] = "freed" THEN "key_twice" ELSE "none"
        BY <2>8, <2>13, <2>15
      <4>3. t.fault = IF b.fault = "none" /\ s.heap[en] = "freed" THEN "buffer_twice" ELSE b.fault
        BY <2>9, <2>12, <3>1, <4>1
      <4> QED BY <4>2, <4>3
    <3>5. Releases(s, t, i)
      BY <2>1, <2>11, <2>12, <3>2, <3>3, <3>4 DEF Releases, But
    <3> QED BY <1>3, <2>1, <2>11, <2>15, <3>5
  <2> QED BY <2>14, <2>15
<1> QED BY <1>1, <1>2, <1>3

\* The program's own release.
Drops(s, t, k) ==
  /\ t \in Store /\ But(s, t, {"heap", "keyData", "fault"})
  /\ t.keyData = [s.keyData EXCEPT ![k] = NULL]
  /\ \A p \in Obj : t.heap[p] = IF p = s.keyData[k] THEN "freed" ELSE s.heap[p]
  /\ t.fault = IF s.fault = "none" /\ s.keyData[k] # NULL /\ s.heap[s.keyData[k]] = "freed"
               THEN "buffer_twice" ELSE s.fault

LEMMA FreeDataParts ==
  ASSUME NEW s \in Store, NEW k \in Key, NEW t, t = FreeData(s, k)
  PROVE  Drops(s, t, k)
<1>1. PICK o \in Obj \cup {NULL} : o = s.keyData[k]
  BY StoreFields
<1>2. PICK u : u = FreeObject(s, o, "buffer_twice")
  OBVIOUS
<1>3. /\ u \in Store /\ But(s, u, {"heap", "fault"})
      /\ \A p \in Obj : u.heap[p] = IF p = o THEN "freed" ELSE s.heap[p]
      /\ u.fault = IF s.fault = "none" /\ o # NULL /\ s.heap[o] = "freed" THEN "buffer_twice" ELSE s.fault
  <2>1. "buffer_twice" \in FaultName
    BY DEF FaultName
  <2>2. Frees(s, u, o, "buffer_twice")
    BY <1>2, <2>1, FreeParts
  <2> QED BY <2>2 DEF Frees
<1>4. t = [u EXCEPT !.keyData[k] = NULL]
  BY <1>1, <1>2 DEF FreeData
<1>5. t \in Store /\ But(u, t, {"keyData"}) /\ t.keyData = [u.keyData EXCEPT ![k] = NULL]
  <2>1. [u.keyData EXCEPT ![k] = NULL] \in [Key -> Obj \cup {NULL}]
    BY <1>3, StoreFields
  <2>2. t = [u EXCEPT !.keyData = [u.keyData EXCEPT ![k] = NULL]]
    BY <1>4
  <2> QED BY <1>3, <2>1, <2>2 DEF Store, But
<1>6. u.keyData = s.keyData /\ t.heap = u.heap /\ t.fault = u.fault
  BY <1>3, <1>5 DEF But
<1>7. But(s, t, {"heap", "keyData", "fault"})
  BY <1>3, <1>5 DEF But
<1> QED BY <1>1, <1>3, <1>5, <1>6, <1>7 DEF Drops

\* A new buffer for the program, its loss without a release, and a new record without a slot.
Grown(s, t, k) ==
  /\ t \in Store /\ t.made = s.made + 1 /\ s.made + 1 \in Obj
  /\ t.heap = [s.heap EXCEPT ![s.made + 1] = "live"]
  /\ t.of = [s.of EXCEPT ![s.made + 1] = k]
Loads(s, t, k) ==
  /\ Grown(s, t, k) /\ But(s, t, {"made", "heap", "of", "keyData", "ret"})
  /\ t.keyData = [s.keyData EXCEPT ![k] = s.made + 1]
Forgets(s, t, k) ==
  /\ t \in Store /\ But(s, t, {"keyData"}) /\ t.keyData = [s.keyData EXCEPT ![k] = NULL]
Records(s, t, k) ==
  /\ Grown(s, t, k) /\ But(s, t, {"rec", "made", "heap", "of", "ret"})
  /\ t.rec \subseteq s.rec \cup {NewRecord(s, k)}

LEMMA GrownParts ==
  ASSUME NEW s \in Store, s.made < MaxObj, NEW k \in Key, NEW t, t = Alloc(s, k)
  PROVE  Grown(s, t, k) /\ But(s, t, {"made", "heap", "of"})
BY AllocParts DEF Grown

LEMMA ForgetParts ==
  ASSUME NEW s \in Store, NEW k \in Key, NEW t, t = [s EXCEPT !.keyData[k] = NULL]
  PROVE  Forgets(s, t, k)
<1>1. [s.keyData EXCEPT ![k] = NULL] \in [Key -> Obj \cup {NULL}]
  BY StoreFields
<1>2. t = [s EXCEPT !.keyData = [s.keyData EXCEPT ![k] = NULL]]
  OBVIOUS
<1> QED BY <1>1, <1>2 DEF Store, But, Forgets

LEMMA LoadParts ==
  ASSUME NEW s \in Store, s.made < MaxObj, NEW k \in Key, NEW ok, NEW t, t = Load(s, k, ok)
  PROVE  Loads(s, t, k) \/ Forgets(s, t, k)
<1>1. CASE ok
  <2>1. PICK a : a = Alloc(s, k)
    OBVIOUS
  <2>2. Grown(s, a, k) /\ But(s, a, {"made", "heap", "of"})
    BY <2>1, GrownParts
  <2>3. PICK D : D = [s.keyData EXCEPT ![k] = s.made + 1]
    OBVIOUS
  <2>4. a \in Store /\ D \in [Key -> Obj \cup {NULL}] /\ a.keyData = s.keyData
    BY <2>2, <2>3, StoreFields DEF Grown, But
  <2>5. t = [a EXCEPT !.keyData = D]
    BY <1>1, <2>1, <2>3, <2>4 DEF Load, Fresh
  <2>6. t \in Store /\ But(a, t, {"keyData"}) /\ t.keyData = D
    BY <2>4, <2>5 DEF Store, But
  <2>7. Grown(s, t, k)
    BY <2>2, <2>6 DEF Grown, But
  <2>8. But(s, t, {"made", "heap", "of", "keyData", "ret"})
    BY <2>2, <2>6 DEF But
  <2> QED BY <2>3, <2>6, <2>7, <2>8 DEF Loads
<1>2. CASE ~ok
  BY <1>2, ForgetParts DEF Load
<1> QED BY <1>1, <1>2

\* registerPublicKey.
Stale(s, t) ==
  /\ t \in Store /\ But(s, t, {"fault"})
  /\ \/ t.fault = "stale_record" /\ \E r \in s.rec : s.heap[r.data] = "freed"
     \/ t.fault = "stale_buffer" /\ \E k \in Key : s.keyData[k] # NULL /\ s.heap[s.keyData[k]] = "freed"

LEMMA PublicParts ==
  ASSUME NEW s \in Store, s.fault = "none", s.made < MaxObj, NEW k \in Key, NEW d, NEW m,
         NEW t, t = RegisterPublic(s, k, d, m)
  PROVE  \/ t \in Store /\ But(s, t, {"ret"})
         \/ Stale(s, t)
         \/ s.keyData[k] = NULL /\ Loads(s, t, k)
         \/ s.keyData[k] # NULL /\ Records(s, t, k)
<1>0. "stale_record" \in FaultName /\ "stale_buffer" \in FaultName /\ 0 \in 0 .. IdModulus - 1
  BY KeyNumbers DEF FaultName
<1>1. CASE AsnOf[k] = 0
  BY <1>0, <1>1, ReturnsParts DEF RegisterPublic
<1>2. ASSUME AsnOf[k] # 0 PROVE ReturnedId(SlotOf(AsnOf[k])) \in 0 .. IdModulus - 1
                              /\ ReturnedId(0) \in 0 .. IdModulus - 1
  BY <1>2, SlotOfKey, Ids, KeyNumbers
<1>3. PICK a : a = Alloc(s, k)
  OBVIOUS
<1>4. Grown(s, a, k) /\ But(s, a, {"made", "heap", "of"}) /\ a \in Store
  BY <1>3, GrownParts DEF Grown
<1>5. CASE AsnOf[k] # 0 /\ restoreKeyInfo(s, k) # {}
  <2>1. CASE \E q \in restoreKeyInfo(s, k) : q.data # NULL /\ s.heap[q.data] = "freed"
    <3>1. t = Faults(s, "stale_record")
      BY <1>5, <2>1 DEF RegisterPublic
    <3>2. t \in Store /\ But(s, t, {"fault"}) /\ t.fault = "stale_record"
      BY <1>0, <3>1, FaultsParts
    <3>3. \E r \in s.rec : s.heap[r.data] = "freed"
      BY <2>1 DEF restoreKeyInfo
    <3> QED BY <3>2, <3>3 DEF Stale
  <2>2. CASE ~(\E q \in restoreKeyInfo(s, k) : q.data # NULL /\ s.heap[q.data] = "freed")
    <3>0. PICK v \in 0 .. IdModulus - 1 : v = ReturnedId(SlotOf(AsnOf[k]))
      BY <1>2, <1>5
    <3>1. CASE s.keyData[k] # NULL \/ ~m
      <4>1. t = Returns(s, v)
        BY <1>5, <2>2, <3>0, <3>1 DEF RegisterPublic
      <4> QED BY <4>1, ReturnsParts
    <3>2. CASE s.keyData[k] = NULL /\ m
      <4>1. t = [a EXCEPT !.keyData[k] = s.made + 1, !.ret = v]
        BY <1>3, <1>5, <2>2, <3>0, <3>2 DEF RegisterPublic, Fresh
      <4>2. PICK D : D = [s.keyData EXCEPT ![k] = s.made + 1]
        OBVIOUS
      <4>3. D \in [Key -> Obj \cup {NULL}] /\ a.keyData = s.keyData
        BY <1>4, <4>2, StoreFields DEF Grown, But
      <4>4. t = [a EXCEPT !.keyData = D, !.ret = v]
        BY <4>1, <4>2, <4>3
      <4>5. t \in Store /\ But(a, t, {"keyData", "ret"}) /\ t.keyData = D
        BY <1>4, <4>3, <4>4 DEF Store, But
      <4>6. Grown(s, t, k)
        BY <1>4, <4>5 DEF Grown, But
      <4>7. But(s, t, {"made", "heap", "of", "keyData", "ret"})
        BY <1>4, <4>5 DEF But
      <4> QED BY <3>2, <4>2, <4>5, <4>6, <4>7 DEF Loads
    <3> QED BY <3>1, <3>2
  <2> QED BY <2>1, <2>2
<1>6. CASE AsnOf[k] # 0 /\ restoreKeyInfo(s, k) = {}
  <2>1. CASE s.keyData[k] = NULL \/ ~d
    <3>1. t = Returns(s, 0)
      BY <1>6, <2>1 DEF RegisterPublic
    <3> QED BY <1>0, <3>1, ReturnsParts
  <2>2. CASE ~(s.keyData[k] = NULL \/ ~d) /\ s.heap[s.keyData[k]] = "freed"
    <3>1. t = Faults(s, "stale_buffer")
      BY <1>6, <2>2 DEF RegisterPublic
    <3>2. t \in Store /\ But(s, t, {"fault"}) /\ t.fault = "stale_buffer"
      BY <1>0, <3>1, FaultsParts
    <3> QED BY <2>2, <3>2 DEF Stale
  <2>3. CASE ~(s.keyData[k] = NULL \/ ~d) /\ s.heap[s.keyData[k]] # "freed" /\ ~m
    <3>0. PICK v \in 0 .. IdModulus - 1 : v = ReturnedId(0)
      BY <1>2, <1>6
    <3>1. t = Returns(a, v)
      BY <1>3, <1>6, <2>3, <3>0 DEF RegisterPublic
    <3>2. t \in Store /\ But(a, t, {"ret"})
      BY <1>4, <3>1, ReturnsParts
    <3>3. Grown(s, t, k)
      BY <1>4, <3>2 DEF Grown, But
    <3>4. But(s, t, {"made", "heap", "of", "ret"})
      BY <1>4, <3>2 DEF But
    <3>5. But(s, t, {"rec", "made", "heap", "of", "ret"}) /\ t.rec = s.rec
      BY <3>4 DEF But
    <3> QED BY <2>3, <3>3, <3>5 DEF Records
  <2>4. CASE ~(s.keyData[k] = NULL \/ ~d) /\ s.heap[s.keyData[k]] # "freed" /\ m
    <3>0. PICK v \in 0 .. IdModulus - 1 : v = ReturnedId(SlotOf(AsnOf[k]))
      BY <1>2, <1>6
    <3>1. PICK b : b = inputKeyInfo(a, k)
      OBVIOUS
    <3>2. t = Returns(b, v)
      BY <1>3, <1>6, <2>4, <3>0, <3>1 DEF RegisterPublic
    <3>3. NewRecord(s, k) \in RecordOf /\ a.rec = s.rec
      BY <1>4, <1>6, <2>4, StoreFields DEF NewRecord, RecordOf, Numbered, Grown, But
    <3>4. b = [a EXCEPT !.rec = s.rec \cup {NewRecord(s, k)}]
      BY <1>4, <3>1 DEF inputKeyInfo, NewRecord, But, Grown
    <3> HIDE DEF NewRecord
    <3>5. s.rec \cup {NewRecord(s, k)} \in SUBSET RecordOf
      BY <3>3, StoreFields
    <3>6. b \in Store /\ But(a, b, {"rec"}) /\ b.rec = s.rec \cup {NewRecord(s, k)}
      BY <1>4, <3>4, <3>5 DEF Store, But
    <3>7. t \in Store /\ But(b, t, {"ret"})
      BY <3>2, <3>6, ReturnsParts
    <3>8. Grown(s, t, k)
      BY <1>4, <3>6, <3>7 DEF Grown, But
    <3>9. But(s, t, {"rec", "made", "heap", "of", "ret"}) /\ t.rec = s.rec \cup {NewRecord(s, k)}
      BY <1>4, <3>6, <3>7 DEF But
    <3> QED BY <2>4, <3>8, <3>9 DEF Records
  <2> QED BY <2>1, <2>2, <2>3, <2>4
<1> QED BY <1>1, <1>5, <1>6

\* A failing signature leaves its slot with a dead key.
Spoils(s, t, i) ==
  /\ t \in Store /\ But(s, t, {"heap", "ret"}) /\ s.slot[i].ec_key # NULL
  /\ \A p \in Obj : t.heap[p] = IF p = s.slot[i].ec_key THEN "freed" ELSE s.heap[p]

LEMMA SignParts ==
  ASSUME NEW s \in Store, s.fault = "none", NEW v \in 0 .. IdModulus - 1, v # 0, v - 1 \in Slot,
         NEW ok, NEW t, t = SignWithID(s, v, ok)
  PROVE  \/ t \in Store /\ But(s, t, {"ret"})
         \/ /\ t \in Store /\ But(s, t, {"fault"}) /\ t.fault = "stale_key"
            /\ s.slot[v - 1].ec_key # NULL /\ s.heap[s.slot[v - 1].ec_key] = "freed"
         \/ ~ok /\ Spoils(s, t, v - 1)
<1>1. PICK e \in Obj \cup {NULL} : e = s.slot[v - 1].ec_key
  BY StoreFields DEF SlotEntry
<1>2. "stale_key" \in FaultName /\ "never" \in FaultName /\ 0 \in 0 .. IdModulus - 1
      /\ 1 \in 0 .. IdModulus - 1
  BY KeyNumbers DEF FaultName
<1>3. CASE e = NULL
  <2>1. t = Returns(s, 0)
    BY <1>1, <1>3 DEF SignWithID
  <2> QED BY <1>2, <2>1, ReturnsParts
<1>4. CASE e # NULL /\ s.heap[e] = "freed"
  <2>1. t = Faults(s, "stale_key")
    BY <1>1, <1>4 DEF SignWithID
  <2>2. t \in Store /\ But(s, t, {"fault"}) /\ t.fault = "stale_key"
    BY <1>2, <2>1, FaultsParts
  <2> QED BY <1>1, <1>4, <2>2
<1>5. CASE e # NULL /\ s.heap[e] # "freed" /\ ok
  <2>1. t = Returns(s, 1)
    BY <1>1, <1>5 DEF SignWithID
  <2> QED BY <1>2, <2>1, ReturnsParts
<1>6. CASE e # NULL /\ s.heap[e] # "freed" /\ ~ok
  <2>1. PICK u : u = FreeObject(s, e, "never")
    OBVIOUS
  <2>2. t = Returns(u, 0)
    BY <1>1, <1>6, <2>1 DEF SignWithID
  <2>3. Frees(s, u, e, "never")
    BY <1>2, <2>1, FreeParts
  <2>4. u \in Store /\ u.fault = s.fault /\ But(s, u, {"heap", "fault"})
    BY <1>6, <2>3 DEF Frees
  <2>5. t \in Store /\ But(u, t, {"ret"})
    BY <1>2, <2>2, <2>4, ReturnsParts
  <2>6. But(s, t, {"heap", "ret"}) /\ t.heap = u.heap
    BY <2>4, <2>5 DEF But
  <2> QED BY <1>1, <1>6, <2>3, <2>5, <2>6 DEF Spoils, Frees
<1> QED BY <1>3, <1>4, <1>5, <1>6

LEMMA UnregisterKeyParts ==
  ASSUME NEW s \in Store, s.fault = "none", NEW k \in Key, NEW t, t = Unregister(s, k)
  PROVE  t \in Store /\ (But(s, t, {"ret"}) \/ (But(s, t, {"fault"}) /\ t.fault = "wrong_type"))
<1>0. "wrong_type" \in FaultName /\ 0 \in 0 .. IdModulus - 1
  BY KeyNumbers DEF FaultName
<1>1. CASE AsnOf[k] = 0 \/ restoreKeyInfo(s, k) = {}
  <2>1. t = Returns(s, 0)
    BY <1>1 DEF Unregister
  <2> QED BY <1>0, <2>1, ReturnsParts
<1>2. CASE ~(AsnOf[k] = 0 \/ restoreKeyInfo(s, k) = {})
  <2>1. PICK q \in s.rec : q \in restoreKeyInfo(s, k)
    BY <1>2 DEF restoreKeyInfo
  <2>2. q.data # NULL
    BY <2>1, StoreFields, KeyNumbers DEF RecordOf
  <2>3. t = Faults(s, "wrong_type")
    BY <1>2, <2>1, <2>2 DEF Unregister
  <2> QED BY <1>0, <2>3, FaultsParts
<1> QED BY <1>1, <1>2

\* Steps that only take away.
Less(s, t) ==
  /\ t \in Store /\ t.made = s.made /\ t.rec \subseteq s.rec
  /\ \A i \in Slot : t.slot[i] = s.slot[i] \/ t.slot[i] = EmptySlot
  /\ \A j \in Key : t.keyData[j] = s.keyData[j] \/ t.keyData[j] = NULL
  /\ \A p \in Obj : t.heap[p] = s.heap[p] \/ (p <= s.made /\ t.heap[p] = "freed")

\* A slot's pointers, as numbers.
LEMMA Pointers ==
  ASSUME NEW s, Well(s)
  PROVE  /\ s \in Store /\ s.made \in Nat
         /\ \A i \in Slot : /\ s.slot[i].ec_key \in Nat /\ s.slot[i].en_buf \in Nat
                            /\ s.slot[i].ec_key \in Obj \cup {NULL} /\ s.slot[i].en_buf \in Obj \cup {NULL}
                            /\ s.slot[i].ec_key <= s.made /\ s.slot[i].en_buf <= s.made
                            /\ s.slot[i] \in SlotEntry
         /\ \A k \in Key : s.keyData[k] \in Nat /\ s.keyData[k] \in Obj \cup {NULL} /\ s.keyData[k] <= s.made
         /\ \A r \in s.rec : r \in RecordOf /\ r.data \in Obj /\ r.data \in Nat /\ r.no \in Nat
                             /\ r.data <= s.made /\ r.no <= s.made
<1>1. s \in Store /\ Made(s)
  BY DEF Well
<1>2. Obj \subseteq Nat /\ NULL \in Nat /\ 0 .. MaxObj \subseteq Nat
  BY KeyNumbers
<1>3. s.made \in Nat
  BY <1>1, <1>2, StoreFields
<1>4. ASSUME NEW i \in Slot
      PROVE  s.slot[i] \in SlotEntry /\ s.slot[i].ec_key \in Obj \cup {NULL} /\ s.slot[i].en_buf \in Obj \cup {NULL}
  BY <1>1, StoreFields DEF SlotEntry
<1>5. ASSUME NEW k \in Key PROVE s.keyData[k] \in Obj \cup {NULL}
  BY <1>1, StoreFields
<1>6. ASSUME NEW r \in s.rec PROVE r \in RecordOf /\ r.data \in Obj /\ r.no \in Obj
  BY <1>1, StoreFields DEF RecordOf
<1> QED BY <1>1, <1>2, <1>3, <1>4, <1>5, <1>6 DEF Made

LEMMA WellLess ==
  ASSUME NEW s, Well(s), NEW t, Less(s, t)
  PROVE  Well(t)
<1>1. t \in Store /\ s \in Store /\ Made(s) /\ Filed(s) /\ t.made = s.made /\ t.rec \subseteq s.rec
  BY DEF Well, Less
<1>2. \A i \in Slot : \/ t.slot[i].ec_key = s.slot[i].ec_key /\ t.slot[i].en_buf = s.slot[i].en_buf
                      \/ t.slot[i].ec_key = NULL /\ t.slot[i].en_buf = NULL
  BY EmptyIsEntry DEF Less
<1>3. \A j \in Key : t.keyData[j] = s.keyData[j] \/ t.keyData[j] = NULL
  BY DEF Less
<1>4. Made(t)
  <2>1. ASSUME NEW o \in Obj PROVE t.heap[o] = "unused" <=> o > t.made
    <3>1. s.heap[o] = "unused" <=> o > s.made
      BY <1>1 DEF Made
    <3>2. t.heap[o] = s.heap[o] \/ (o <= s.made /\ t.heap[o] = "freed")
      BY DEF Less
    <3>3. o \in Nat /\ s.made \in Nat
      BY Pointers, KeyNumbers
    <3> QED BY <1>1, <3>1, <3>2, <3>3
  <2>2. \A r \in t.rec : r.data <= t.made /\ r.no <= t.made
    BY <1>1 DEF Made
  <2>3. NULL <= t.made
    BY <1>1, Pointers, KeyNumbers
  <2>4. \A i \in Slot : t.slot[i].ec_key <= t.made /\ t.slot[i].en_buf <= t.made
    BY <1>1, <1>2, <2>3 DEF Made
  <2>5. \A k \in Key : t.keyData[k] <= t.made
    BY <1>1, <1>3, <2>3 DEF Made
  <2> QED BY <2>1, <2>2, <2>4, <2>5 DEF Made
<1>5. Filed(t)
  <2>1. \A i \in Slot : t.slot[i] = EmptySlot
                     \/ (t.slot[i].id = i /\ t.slot[i].ec_key # NULL /\ t.slot[i].en_buf # NULL)
    BY <1>1 DEF Filed, Less
  <2>2. ASSUME NEW i \in Slot, NEW j \in Slot, t.slot[i].ec_key # NULL
        PROVE  /\ t.slot[i].ec_key # t.slot[j].en_buf
               /\ i # j => t.slot[i].ec_key # t.slot[j].ec_key
    BY <1>1, <1>2, <2>2 DEF Filed
  <2>3. ASSUME NEW i \in Slot, NEW k \in Key, t.slot[i].ec_key # NULL
        PROVE  t.slot[i].ec_key # t.keyData[k]
    BY <1>1, <1>2, <1>3, <2>3 DEF Filed
  <2>4. ASSUME NEW i \in Slot, NEW r \in t.rec PROVE t.slot[i].ec_key # r.data
    <3>1. r.data # NULL
      BY <1>1, Pointers, KeyNumbers
    <3> QED BY <1>1, <1>2, <3>1 DEF Filed
  <2> QED BY <2>1, <2>2, <2>3, <2>4 DEF Filed
<1> QED BY <1>1, <1>4, <1>5 DEF Well

LEMMA LessSame ==
  ASSUME NEW s \in Store, NEW t \in Store, But(s, t, {"ret", "fault"})
  PROVE  Less(s, t)
BY DEF But, Less

LEMMA LessForgets ==
  ASSUME NEW s, Well(s), NEW k \in Key, NEW t, Forgets(s, t, k)
  PROVE  Less(s, t)
<1>1. s.keyData \in [Key -> Obj \cup {NULL}]
  BY StoreFields DEF Well
<1> QED BY <1>1 DEF But, Less, Forgets

LEMMA LessDrops ==
  ASSUME NEW s, Well(s), NEW k \in Key, NEW t, Drops(s, t, k)
  PROVE  Less(s, t)
<1>1. s.keyData \in [Key -> Obj \cup {NULL}] /\ s.keyData[k] <= s.made
  BY StoreFields DEF Well, Made
<1>2. \A p \in Obj : t.heap[p] = s.heap[p] \/ (p <= s.made /\ t.heap[p] = "freed")
  BY <1>1 DEF Drops
<1> QED BY <1>1, <1>2 DEF But, Less, Drops

LEMMA LessReleases ==
  ASSUME NEW s, Well(s), NEW i \in Slot, NEW t, Releases(s, t, i)
  PROVE  Less(s, t)
<1>1. s.slot \in [Slot -> SlotEntry] /\ s.slot[i].ec_key <= s.made /\ s.slot[i].en_buf <= s.made
  BY StoreFields DEF Well, Made
<1>2. \A p \in Obj : t.heap[p] = s.heap[p] \/ (p <= s.made /\ t.heap[p] = "freed")
  BY <1>1 DEF Releases
<1>3. \A j \in Slot : t.slot[j] = s.slot[j] \/ t.slot[j] = EmptySlot
  BY <1>1 DEF Releases
<1> QED BY <1>2, <1>3 DEF But, Less, Releases

LEMMA LessSpoils ==
  ASSUME NEW s, Well(s), NEW i \in Slot, NEW t, Spoils(s, t, i)
  PROVE  Less(s, t)
<1>1. s.slot[i].ec_key <= s.made
  BY DEF Well, Made
<1>2. \A p \in Obj : t.heap[p] = s.heap[p] \/ (p <= s.made /\ t.heap[p] = "freed")
  BY <1>1 DEF Spoils
<1> QED BY <1>2 DEF But, Less, Spoils

\* A new object is none of those that are pointed to.
LEMMA NewObject ==
  ASSUME NEW s, Well(s), NEW k \in Key, NEW t, Grown(s, t, k)
  PROVE  /\ t \in Store /\ t.made = s.made + 1 /\ s.made + 1 \in Obj /\ s.made + 1 # NULL
         /\ t.heap[s.made + 1] = "live" /\ t.of[s.made + 1] = k
         /\ \A p \in Obj : p # s.made + 1 => t.heap[p] = s.heap[p] /\ t.of[p] = s.of[p]
         /\ \A o \in Obj : t.heap[o] = "unused" <=> o > t.made
         /\ \A i \in Slot : s.slot[i].ec_key # s.made + 1 /\ s.slot[i].en_buf # s.made + 1
         /\ \A j \in Key : s.keyData[j] # s.made + 1
         /\ \A r \in s.rec : r.data # s.made + 1
<1>1. t \in Store /\ t.made = s.made + 1 /\ s.made + 1 \in Obj /\ s.made \in Nat
  BY Pointers DEF Grown
<1>2. /\ s.heap \in [Obj -> {"unused", "live", "freed"}] /\ s.of \in [Obj -> Key \cup {NULL}]
      /\ t.heap = [s.heap EXCEPT ![s.made + 1] = "live"] /\ t.of = [s.of EXCEPT ![s.made + 1] = k]
  BY StoreFields DEF Grown, Well
<1>3. ASSUME NEW o \in Obj PROVE t.heap[o] = "unused" <=> o > t.made
  <2>1. s.heap[o] = "unused" <=> o > s.made
    BY DEF Well, Made
  <2>2. o \in Nat
    BY KeyNumbers
  <2> QED BY <1>1, <1>2, <2>1, <2>2
<1>4. \A n \in Nat : n <= s.made => n # s.made + 1
  BY <1>1
<1> QED BY <1>1, <1>2, <1>3, <1>4, Pointers, KeyNumbers

LEMMA WellLoads ==
  ASSUME NEW s, Well(s), NEW k \in Key, NEW t, Loads(s, t, k)
  PROVE  Well(t)
<1>1. Grown(s, t, k) /\ t.rec = s.rec /\ t.slot = s.slot /\ t.keyData = [s.keyData EXCEPT ![k] = s.made + 1]
  BY DEF Loads, But
<1>2. s.keyData \in [Key -> Obj \cup {NULL}] /\ s.made \in Nat
  BY StoreFields, Pointers DEF Well
<1>3. \A j \in Key : t.keyData[j] = s.keyData[j] \/ t.keyData[j] = s.made + 1
  BY <1>1, <1>2
<1>4. /\ \A r \in s.rec : r.data <= s.made + 1 /\ r.no <= s.made + 1
      /\ \A i \in Slot : s.slot[i].ec_key <= s.made + 1 /\ s.slot[i].en_buf <= s.made + 1
      /\ \A j \in Key : s.keyData[j] <= s.made + 1
  BY <1>2, Pointers
<1>5. Made(t)
  <2>1. t.made = s.made + 1 /\ \A o \in Obj : t.heap[o] = "unused" <=> o > t.made
    BY <1>1, NewObject
  <2>2. \A j \in Key : t.keyData[j] <= t.made
    <3>1. ASSUME NEW j \in Key PROVE t.keyData[j] <= s.made + 1
      <4>1. s.keyData[j] <= s.made + 1 /\ s.made + 1 <= s.made + 1
        BY <1>2, <1>4
      <4> QED BY <1>3, <4>1
    <3> QED BY <2>1, <3>1
  <2> QED BY <1>1, <1>4, <2>1, <2>2 DEF Made
<1>6. Filed(t)
  <2>1. \A i \in Slot : s.slot[i].ec_key # s.made + 1
    BY <1>1, NewObject
  <2> QED BY <1>1, <1>3, <2>1 DEF Filed, Well
<1> QED BY <1>1, <1>5, <1>6, NewObject DEF Well

LEMMA WellRecords ==
  ASSUME NEW s, Well(s), NEW k \in Key, s.keyData[k] # NULL, NEW t, Records(s, t, k)
  PROVE  Well(t)
<1>1. /\ Grown(s, t, k) /\ t.slot = s.slot /\ t.keyData = s.keyData
      /\ \A r \in t.rec : r \in s.rec \/ r = NewRecord(s, k)
  BY DEF Records, But
<1>2. s.made \in Nat /\ t.made = s.made + 1
  BY <1>1, Pointers, NewObject
<1>3. NewRecord(s, k).data = s.keyData[k] /\ NewRecord(s, k).no = s.made + 1
  BY DEF NewRecord
<1>4. /\ \A r \in s.rec : r.data <= s.made + 1 /\ r.no <= s.made + 1
      /\ \A i \in Slot : s.slot[i].ec_key <= s.made + 1 /\ s.slot[i].en_buf <= s.made + 1
      /\ \A j \in Key : s.keyData[j] <= s.made + 1
  BY <1>2, Pointers
<1>5. Made(t)
  <2>1. \A o \in Obj : t.heap[o] = "unused" <=> o > t.made
    BY <1>1, NewObject
  <2>2. \A r \in t.rec : r.data <= t.made /\ r.no <= t.made
    BY <1>1, <1>2, <1>3, <1>4
  <2> QED BY <1>1, <1>2, <1>4, <2>1, <2>2 DEF Made
<1>6. Filed(t)
  <2>1. ASSUME NEW i \in Slot, NEW r \in t.rec PROVE s.slot[i].ec_key # r.data
    BY <1>1, <1>3 DEF Filed, Well
  <2> QED BY <1>1, <2>1 DEF Filed, Well
<1> QED BY <1>1, <1>5, <1>6, NewObject DEF Well

\* What a slot holds after an entry.
LEMMA EnteredSlots ==
  ASSUME NEW s, Well(s), NEW k \in Key, NEW i \in Slot, NEW R, NEW t, Enters(s, t, k, i, R)
  PROVE  /\ Grown(s, t, k) /\ t.rec = R /\ t.keyData = s.keyData /\ t.fault = s.fault
         /\ t.ret = ReturnedId(i)
         /\ t.slot[i].id = i /\ t.slot[i].ec_key = s.made + 1 /\ t.slot[i].en_buf = s.keyData[k]
         /\ \A j \in Slot : j # i => t.slot[j] = s.slot[j]
<1>1. s.slot \in [Slot -> SlotEntry]
  BY StoreFields DEF Well
<1>2. t.slot = [s.slot EXCEPT ![i] = [id |-> i, ec_key |-> s.made + 1, en_buf |-> s.keyData[k]]]
  BY DEF Enters
<1>3. t.slot[i] = [id |-> i, ec_key |-> s.made + 1, en_buf |-> s.keyData[k]]
      /\ \A j \in Slot : j # i => t.slot[j] = s.slot[j]
  BY <1>1, <1>2
<1>4. Grown(s, t, k) /\ t.rec = R /\ t.keyData = s.keyData /\ t.fault = s.fault /\ t.ret = ReturnedId(i)
  BY DEF Enters, Grown, But
<1> QED BY <1>3, <1>4

LEMMA WellEnters ==
  ASSUME NEW s, Well(s), NEW k \in Key, s.keyData[k] # NULL, NEW i \in Slot,
         NEW R, R \subseteq s.rec \cup {NewRecord(s, k)}, NEW t, Enters(s, t, k, i, R)
  PROVE  Well(t)
<1>1. /\ Grown(s, t, k) /\ t.rec = R /\ t.keyData = s.keyData
      /\ t.slot[i].id = i /\ t.slot[i].ec_key = s.made + 1 /\ t.slot[i].en_buf = s.keyData[k]
      /\ \A j \in Slot : j # i => t.slot[j] = s.slot[j]
  BY EnteredSlots
<1>2. s.made \in Nat /\ t.made = s.made + 1 /\ s.made + 1 # NULL
  BY <1>1, Pointers, NewObject
<1>3. NewRecord(s, k).data = s.keyData[k] /\ NewRecord(s, k).no = s.made + 1
  BY DEF NewRecord
<1>4. /\ \A r \in s.rec : r.data <= s.made + 1 /\ r.no <= s.made + 1
      /\ \A j \in Slot : s.slot[j].ec_key <= s.made + 1 /\ s.slot[j].en_buf <= s.made + 1
      /\ \A j \in Key : s.keyData[j] <= s.made + 1
  BY <1>2, Pointers
<1>5. /\ \A j \in Slot : s.slot[j].ec_key # s.made + 1 /\ s.slot[j].en_buf # s.made + 1
      /\ \A j \in Key : s.keyData[j] # s.made + 1
      /\ \A r \in s.rec : r.data # s.made + 1
  BY <1>1, NewObject
<1> HIDE DEF NewRecord
<1>6. Made(t)
  <2>1. \A o \in Obj : t.heap[o] = "unused" <=> o > t.made
    BY <1>1, NewObject
  <2>2. \A r \in t.rec : r.data <= t.made /\ r.no <= t.made
    BY <1>1, <1>2, <1>3, <1>4
  <2>3. ASSUME NEW j \in Slot PROVE t.slot[j].ec_key <= t.made /\ t.slot[j].en_buf <= t.made
    BY <1>1, <1>2, <1>4
  <2> QED BY <1>1, <1>2, <1>4, <2>1, <2>2, <2>3 DEF Made
<1>7. Filed(t)
  <2>0. Filed(s)
    BY DEF Well
  <2>1. ASSUME NEW j \in Slot
        PROVE  t.slot[j] = EmptySlot
               \/ (t.slot[j].id = j /\ t.slot[j].ec_key # NULL /\ t.slot[j].en_buf # NULL)
    BY <1>1, <1>2, <2>0 DEF Filed
  <2>2. ASSUME NEW g \in Slot, NEW j \in Slot, t.slot[g].ec_key # NULL
        PROVE  /\ t.slot[g].ec_key # t.slot[j].en_buf
               /\ g # j => t.slot[g].ec_key # t.slot[j].ec_key
    <3>1. CASE g = i
      BY <1>1, <1>5, <3>1
    <3>2. CASE g # i
      BY <1>1, <1>5, <2>0, <2>2, <3>2 DEF Filed
    <3> QED BY <3>1, <3>2
  <2>3. ASSUME NEW j \in Slot, NEW g \in Key, t.slot[j].ec_key # NULL
        PROVE  t.slot[j].ec_key # t.keyData[g]
    BY <1>1, <1>5, <2>0, <2>3 DEF Filed
  <2>4. ASSUME NEW j \in Slot, NEW r \in t.rec PROVE t.slot[j].ec_key # r.data
    <3>1. r \in s.rec \/ r.data = s.keyData[k]
      BY <1>1, <1>3
    <3>2. CASE j = i
      BY <1>1, <1>5, <3>1, <3>2
    <3>3. CASE j # i
      BY <1>1, <2>0, <3>1, <3>3 DEF Filed
    <3> QED BY <3>2, <3>3
  <2> QED BY <2>1, <2>2, <2>3, <2>4 DEF Filed
<1> QED BY <1>1, <1>6, <1>7, NewObject DEF Well

\* A call of unregisterPrivateKey leaves slot i empty, be it in use or not.
After(s, u, i) ==
  /\ Well(u) /\ u.of = s.of /\ u.keyData = s.keyData /\ u.rec \subseteq s.rec
  /\ u.slot[i] = EmptySlot /\ \A j \in Slot : j # i => u.slot[j] = s.slot[j]
  /\ \A p \in Obj : p # s.slot[i].ec_key /\ p # s.slot[i].en_buf => u.heap[p] = s.heap[p]
  /\ u.fault \in {"none", "key_twice", "buffer_twice"}
  /\ u.fault = "key_twice" => s.slot[i].ec_key # NULL /\ s.heap[s.slot[i].ec_key] = "freed"
  /\ u.fault = "buffer_twice" => s.slot[i].ec_key # NULL /\ s.heap[s.slot[i].en_buf] = "freed"

LEMMA AfterUnregister ==
  ASSUME NEW s, Well(s), s.fault = "none", NEW v \in 0 .. IdModulus - 1,
         NEW u, u = UnregisterPrivate(s, v), NEW i \in Slot, i = SlotNamed(v)
  PROVE  After(s, u, i)
<1>1. s \in Store /\ Filed(s) /\ s.slot \in [Slot -> SlotEntry]
  BY StoreFields DEF Well
<1>2. /\ u \in Store
      /\ s.slot[i].ec_key = NULL => But(s, u, {"ret"})
      /\ s.slot[i].ec_key # NULL => Releases(s, u, i)
  BY <1>1, UnregisterParts
<1>3. CASE s.slot[i].ec_key = NULL
  <2>1. But(s, u, {"ret"})
    BY <1>2, <1>3
  <2>2. But(s, u, {"ret", "fault"})
    BY <2>1 DEF But
  <2>3. Well(u)
    BY <1>1, <1>2, <2>2, LessSame, WellLess
  <2>4. s.slot[i] = EmptySlot
    BY <1>1, <1>3 DEF Filed
  <2>5. /\ u.rec = s.rec /\ u.slot = s.slot /\ u.heap = s.heap /\ u.of = s.of
        /\ u.keyData = s.keyData /\ u.fault = "none"
    BY <2>1 DEF But
  <2> QED BY <2>3, <2>4, <2>5 DEF After
<1>4. CASE s.slot[i].ec_key # NULL
  <2>1. Releases(s, u, i)
    BY <1>2, <1>4
  <2>2. Well(u)
    BY <2>1, LessReleases, WellLess
  <2>3. u.slot = [s.slot EXCEPT ![i] = EmptySlot] /\ u.of = s.of /\ u.keyData = s.keyData /\ u.rec \subseteq s.rec
    BY <2>1 DEF Releases, But
  <2>4. u.slot[i] = EmptySlot /\ \A j \in Slot : j # i => u.slot[j] = s.slot[j]
    BY <1>1, <2>3
  <2>5. \A p \in Obj : p # s.slot[i].ec_key /\ p # s.slot[i].en_buf => u.heap[p] = s.heap[p]
    BY <2>1 DEF Releases
  <2>6. u.fault = IF s.heap[s.slot[i].ec_key] = "freed" THEN "key_twice"
                  ELSE IF s.heap[s.slot[i].en_buf] = "freed" THEN "buffer_twice" ELSE "none"
    BY <2>1 DEF Releases
  <2> QED BY <1>4, <2>2, <2>3, <2>4, <2>5, <2>6 DEF After
<1> QED BY <1>3, <1>4

\* No step but a failing signature kills a key that a slot names.
LEMMA LiveSame ==
  ASSUME NEW s, Live(s), NEW t, But(s, t, {"ret", "fault"}), t.fault \notin {"stale_key", "key_twice"}
  PROVE  Live(t)
BY DEF Live, But

LEMMA LiveForgets ==
  ASSUME NEW s, Live(s), NEW k, NEW t, Forgets(s, t, k)
  PROVE  Live(t)
BY DEF Live, But, Forgets

LEMMA LiveDrops ==
  ASSUME NEW s, Well(s), Live(s), NEW k \in Key, NEW t, Drops(s, t, k)
  PROVE  Live(t)
<1>1. t.slot = s.slot /\ t.fault \notin {"stale_key", "key_twice"}
  BY DEF Live, But, Drops
<1>2. ASSUME NEW i \in Slot, s.slot[i].ec_key # NULL PROVE t.heap[s.slot[i].ec_key] = "live"
  <2>1. s.slot[i].ec_key \in Obj /\ s.slot[i].ec_key # s.keyData[k]
    BY <1>2, Pointers DEF Well, Filed
  <2> QED BY <1>2, <2>1 DEF Drops, Live
<1> QED BY <1>1, <1>2 DEF Live

LEMMA LiveAfter ==
  ASSUME NEW s, Well(s), Live(s), NEW i \in Slot, NEW t, After(s, t, i)
  PROVE  Live(t)
<1>1. t.fault \notin {"stale_key", "key_twice"}
  BY DEF After, Live
<1>2. ASSUME NEW j \in Slot, t.slot[j].ec_key # NULL PROVE t.heap[t.slot[j].ec_key] = "live"
  <2>1. j # i /\ t.slot[j] = s.slot[j]
    BY <1>2, EmptyIsEntry DEF After
  <2>2. s.slot[j].ec_key # NULL /\ s.slot[j].ec_key \in Obj
    BY <1>2, <2>1, Pointers
  <2>3. s.slot[j].ec_key # s.slot[i].ec_key /\ s.slot[j].ec_key # s.slot[i].en_buf
    BY <2>1, <2>2 DEF Well, Filed
  <2>4. t.heap[s.slot[j].ec_key] = s.heap[s.slot[j].ec_key]
    BY <2>2, <2>3 DEF After
  <2> QED BY <2>1, <2>2, <2>4 DEF Live
<1> QED BY <1>1, <1>2 DEF Live

LEMMA LiveGrown ==
  ASSUME NEW s, Well(s), Live(s), NEW k \in Key, NEW t, Grown(s, t, k), t.fault = s.fault,
         \A j \in Slot : t.slot[j].ec_key = s.slot[j].ec_key \/ t.slot[j].ec_key = s.made + 1
  PROVE  Live(t)
<1>1. t.fault \notin {"stale_key", "key_twice"}
  BY DEF Live
<1>2. ASSUME NEW j \in Slot, t.slot[j].ec_key # NULL PROVE t.heap[t.slot[j].ec_key] = "live"
  <2>1. CASE t.slot[j].ec_key = s.made + 1
    BY <2>1, NewObject
  <2>2. CASE t.slot[j].ec_key = s.slot[j].ec_key
    <3>1. s.slot[j].ec_key \in Obj /\ s.slot[j].ec_key # s.made + 1
      BY <1>2, <2>2, Pointers, NewObject
    <3>2. t.heap[s.slot[j].ec_key] = s.heap[s.slot[j].ec_key]
      BY <3>1, NewObject
    <3> QED BY <1>2, <2>2, <3>2 DEF Live
  <2> QED BY <2>1, <2>2
<1> QED BY <1>1, <1>2 DEF Live

LEMMA LiveEnters ==
  ASSUME NEW s, Well(s), Live(s), NEW k \in Key, NEW i \in Slot, NEW R, NEW t, Enters(s, t, k, i, R)
  PROVE  Live(t)
<1>1. /\ Grown(s, t, k) /\ t.fault = s.fault /\ t.slot[i].ec_key = s.made + 1
      /\ \A j \in Slot : j # i => t.slot[j] = s.slot[j]
  BY EnteredSlots
<1>2. \A j \in Slot : t.slot[j].ec_key = s.slot[j].ec_key \/ t.slot[j].ec_key = s.made + 1
  BY <1>1
<1> QED BY <1>1, <1>2, LiveGrown

(* What the actions do. *)

LEMMA LoadEffect ==
  ASSUME KsTypes, NEW k \in Key, KeyLoading(k)
  PROVE  /\ Going /\ ks.keyData[k] = NULL /\ UNCHANGED <<issued, used, blame>>
         /\ Loads(ks, ks', k) \/ Forgets(ks, ks', k)
<1>1. ks \in Store /\ ks.made \in Nat /\ MaxObj \in Nat
  BY Pointers, KeyNumbers DEF KsTypes
<1>2. ks.made < MaxObj
  BY <1>1 DEF KeyLoading, Room
<1>3. PICK ok : ks' = Load(ks, k, ok)
  BY DEF KeyLoading
<1>4. Loads(ks, ks', k) \/ Forgets(ks, ks', k)
  BY <1>1, <1>2, <1>3, LoadParts
<1> QED BY <1>4 DEF KeyLoading

Registers(k, m) ==
  /\ Known(ks, ks', k) \/ Dead(ks, ks', k) \/ Once(ks, ks', k) \/ (~m /\ Twice(ks, ks', k))
  /\ issued' = [issued EXCEPT ![k] = ks'.ret]
  /\ blame' = blame \cup When(~m, "no_memory") \cup When(Clash(k), "shared_slot")
                    \cup When(IdIsZero(k), "id_zero")
  /\ used' = used \cup {k}

LEMMA RegisterEffect ==
  ASSUME KsTypes, NEW k \in Key, TestRegisterPrivateKey(k)
  PROVE  Going /\ ks' \in Store /\ \E m \in BOOLEAN : Registers(k, m)
<1>1. ks \in Store /\ Made(ks)
  BY DEF KsTypes, Well
<1>2. PICK d \in BOOLEAN, m \in BOOLEAN :
        /\ Room(ks, IF m THEN 1 ELSE 2)
        /\ ks' = RegisterPrivate(RegisterPrivate(ks, k, d, m), k, d, m)
        /\ issued' = [issued EXCEPT ![k] = ks'.ret]
        /\ blame' = blame \cup When(~m, "no_memory") \cup When(Clash(k), "shared_slot")
                          \cup When(IdIsZero(k), "id_zero")
  BY DEF TestRegisterPrivateKey
<1>3. ks.fault = "none" /\ used' = used \cup {k} /\ Going
  BY DEF TestRegisterPrivateKey, Going
<1>4. PICK t : t = RegisterPrivate(RegisterPrivate(ks, k, d, m), k, d, m)
  OBVIOUS
<1>5. t \in Store /\ (Known(ks, t, k) \/ Dead(ks, t, k) \/ Once(ks, t, k) \/ (~m /\ Twice(ks, t, k)))
  BY <1>1, <1>2, <1>3, <1>4, RegisterTwice
<1>6. t = ks'
  BY <1>2, <1>4
<1> QED BY <1>2, <1>3, <1>5, <1>6 DEF Registers

LEMMA PublicEffect ==
  ASSUME KsTypes, NEW k \in Key, RegisterPublicKey(k)
  PROVE  /\ Going /\ UNCHANGED issued /\ used' = used \cup {k}
         /\ "public" \in blame' /\ blame \subseteq blame' /\ (Clash(k) => "shared_slot" \in blame')
         /\ \/ ks' \in Store /\ But(ks, ks', {"ret"})
            \/ Stale(ks, ks')
            \/ ks.keyData[k] = NULL /\ Loads(ks, ks', k)
            \/ ks.keyData[k] # NULL /\ Records(ks, ks', k)
<1>1. ks \in Store /\ ks.made \in Nat /\ MaxObj \in Nat
  BY Pointers, KeyNumbers DEF KsTypes
<1>2. ks.made < MaxObj /\ ks.fault = "none" /\ Going
  <2>1. Room(ks, 1) /\ Going
    BY DEF RegisterPublicKey
  <2>2. ks.made < MaxObj
    BY <1>1, <2>1 DEF Room
  <2> QED BY <2>1, <2>2 DEF Going
<1>3. PICK d, m : /\ ks' = RegisterPublic(ks, k, d, m)
                  /\ blame' = blame \cup {"public"} \cup When(~m, "no_memory")
                                    \cup When(Clash(k), "shared_slot")
  BY DEF RegisterPublicKey
<1>4. PICK t : t = RegisterPublic(ks, k, d, m)
  OBVIOUS
<1>5. \/ t \in Store /\ But(ks, t, {"ret"})
      \/ Stale(ks, t)
      \/ ks.keyData[k] = NULL /\ Loads(ks, t, k)
      \/ ks.keyData[k] # NULL /\ Records(ks, t, k)
  BY <1>1, <1>2, <1>4, PublicParts
<1>6. t = ks'
  BY <1>3, <1>4
<1>7. blame \subseteq blame' /\ "public" \in blame' /\ (Clash(k) => "shared_slot" \in blame')
  BY <1>3 DEF When
<1> QED BY <1>2, <1>5, <1>6, <1>7 DEF RegisterPublicKey

LEMMA SignEffect ==
  ASSUME KsTypes, NEW k \in Key, TestSignWithID(k)
  PROVE  /\ Going /\ UNCHANGED <<issued, used>> /\ blame \subseteq blame' /\ issued[k] - 1 \in Slot
         /\ \/ ks' \in Store /\ But(ks, ks', {"ret"})
            \/ /\ ks' \in Store /\ But(ks, ks', {"fault"}) /\ ks'.fault = "stale_key"
               /\ ks.slot[issued[k] - 1].ec_key # NULL
               /\ ks.heap[ks.slot[issued[k] - 1].ec_key] = "freed"
            \/ "sign_failed" \in blame' /\ Spoils(ks, ks', issued[k] - 1)
<1>1. ks \in Store /\ ks.fault = "none" /\ Going
  BY DEF KsTypes, Well, TestSignWithID, Going
<1>2. PICK v \in 0 .. IdModulus - 1 : v = issued[k] /\ v # 0 /\ v - 1 \in Slot
  BY <1>1 DEF KsTypes, TestSignWithID
<1>3. PICK ok : ks' = SignWithID(ks, v, ok) /\ blame' = blame \cup When(~ok, "sign_failed")
  BY <1>2 DEF TestSignWithID
<1>4. PICK t : t = SignWithID(ks, v, ok)
  OBVIOUS
<1>5. \/ t \in Store /\ But(ks, t, {"ret"})
      \/ /\ t \in Store /\ But(ks, t, {"fault"}) /\ t.fault = "stale_key"
         /\ ks.slot[v - 1].ec_key # NULL /\ ks.heap[ks.slot[v - 1].ec_key] = "freed"
      \/ ~ok /\ Spoils(ks, t, v - 1)
  BY <1>1, <1>2, <1>4, SignParts
<1>6. t = ks' /\ blame \subseteq blame' /\ (~ok => "sign_failed" \in blame')
  BY <1>3, <1>4 DEF When
<1>7. UNCHANGED <<issued, used>>
  BY DEF TestSignWithID
<1> QED BY <1>1, <1>2, <1>5, <1>6, <1>7

\* The two ways to unregister by id, and main's.
Unfiles(k, i, u) ==
  /\ i \in Slot /\ i = issued[k] - 1 /\ After(ks, u, i)
  /\ issued' = [issued EXCEPT ![k] = 0] /\ UNCHANGED used /\ blame \subseteq blame'
  /\ "record_stays" \notin blame' => \A r \in u.rec : r.data # ks.slot[i].en_buf

LEMMA UnfileEffect ==
  ASSUME KsTypes, NEW k \in Key, TestUnregisterKey(k) \/ UnregisterPrivateKey(k)
  PROVE  /\ Going
         /\ \E i \in Slot, u \in Store :
              /\ Unfiles(k, i, u)
              /\ Forgets(u, ks', k) \/ ("program_freed" \in blame' /\ Drops(u, ks', k))
<1>1. ks \in Store /\ ks.fault = "none" /\ Going /\ issued[k] # 0 /\ Well(ks)
  BY DEF KsTypes, Well, TestUnregisterKey, UnregisterPrivateKey, Going
<1>2. PICK v \in 0 .. IdModulus - 1 : v = issued[k] /\ v # 0 /\ v - 1 \in Slot
  BY <1>1 DEF KsTypes
<1>3. PICK i \in Slot : i = v - 1 /\ i = SlotNamed(v)
  BY <1>2, NamedSlot
<1>4. PICK u : u = UnregisterPrivate(ks, v)
  OBVIOUS
<1>5. After(ks, u, i)
  BY <1>1, <1>3, <1>4, AfterUnregister
<1>6. /\ issued' = [issued EXCEPT ![k] = 0] /\ UNCHANGED used /\ blame \subseteq blame'
      /\ RecordStays(v) => "record_stays" \in blame'
  BY <1>2 DEF TestUnregisterKey, UnregisterPrivateKey, When
<1>7. ASSUME "record_stays" \notin blame', NEW r \in u.rec PROVE r.data # ks.slot[i].en_buf
  <2>1. r.data # NULL
    <3>1. Well(u)
      BY <1>5 DEF After
    <3>2. r.data \in Obj
      BY <3>1, Pointers
    <3> QED BY <3>2, KeyNumbers
  <2> QED BY <1>3, <1>4, <1>6, <1>7, <2>1 DEF RecordStays
<1>8. Unfiles(k, i, u)
  BY <1>2, <1>3, <1>5, <1>6, <1>7 DEF Unfiles
<1>9. u \in Store
  BY <1>5 DEF After, Well
<1>10. CASE TestUnregisterKey(k)
  <2>1. ks' = FreeData(u, k) /\ "program_freed" \in blame'
    BY <1>2, <1>4, <1>10 DEF TestUnregisterKey
  <2>2. Drops(u, ks', k)
    BY <1>9, <2>1, FreeDataParts
  <2> QED BY <1>1, <1>8, <1>9, <2>1, <2>2
<1>11. CASE UnregisterPrivateKey(k)
  <2>1. ks' = [u EXCEPT !.keyData[k] = NULL]
    BY <1>2, <1>4, <1>11 DEF UnregisterPrivateKey
  <2>2. Forgets(u, ks', k)
    BY <1>9, <2>1, ForgetParts
  <2> QED BY <1>1, <1>8, <1>9, <2>2
<1> QED BY <1>10, <1>11

LEMMA MainEffect ==
  ASSUME KsTypes, MainUnregister
  PROVE  /\ Going /\ UNCHANGED <<issued, used>> /\ blame \subseteq blame'
         /\ \/ ks' \in Store /\ But(ks, ks', {"fault"}) /\ ks'.fault = "no_slot"
            \/ \E i \in Slot : /\ i = IdModulus - 1 /\ After(ks, ks', i)
                               /\ "record_stays" \notin blame' =>
                                    \A r \in ks'.rec : r.data # ks.slot[i].en_buf
<1>1. ks \in Store /\ ks.fault = "none" /\ Going /\ Well(ks)
  BY DEF KsTypes, Well, MainUnregister, Going
<1>2. PICK v \in 0 .. IdModulus - 1 : v = 0
  BY KeyNumbers
<1>3. PICK u : u = UnregisterPrivate(ks, v)
  OBVIOUS
<1>4. PICK i : i = SlotNamed(v) /\ i = IdModulus - 1
  BY <1>2, NamedSlot
<1>5. u = ks' /\ blame \subseteq blame' /\ UNCHANGED <<issued, used>>
      /\ (RecordStays(v) => "record_stays" \in blame')
  BY <1>2, <1>3 DEF MainUnregister, When
<1>6. CASE i \notin Slot
  <2>1. Filed(ks)
    BY <1>1 DEF Well
  <2>2. u \in Store /\ But(ks, u, {"fault"}) /\ u.fault = "no_slot"
    BY <1>1, <1>3, <1>4, <1>6, <2>1, UnregisterParts
  <2> QED BY <1>1, <1>5, <2>2
<1>7. CASE i \in Slot
  <2>1. After(ks, u, i)
    BY <1>1, <1>3, <1>4, <1>7, AfterUnregister
  <2>2. ASSUME "record_stays" \notin blame', NEW r \in u.rec PROVE r.data # ks.slot[i].en_buf
    <3>1. r.data # NULL
      <4>1. Well(u)
        BY <2>1 DEF After
      <4>2. r.data \in Obj
        BY <4>1, Pointers
      <4> QED BY <4>2, KeyNumbers
    <3> QED BY <1>3, <1>4, <1>5, <1>7, <2>2, <3>1 DEF RecordStays
  <2> QED BY <1>1, <1>4, <1>5, <1>7, <2>1, <2>2
<1> QED BY <1>6, <1>7

LEMMA FreesEffect ==
  ASSUME KsTypes, NEW k \in Key, ProgramFrees(k)
  PROVE  /\ Going /\ UNCHANGED <<issued, used>> /\ blame \subseteq blame' /\ "program_freed" \in blame'
         /\ Drops(ks, ks', k)
<1>1. ks \in Store
  BY DEF KsTypes, Well
<1>2. Drops(ks, ks', k)
  BY <1>1, FreeDataParts DEF ProgramFrees
<1> QED BY <1>2 DEF ProgramFrees

LEMMA UnregisterEffect ==
  ASSUME KsTypes, NEW k \in Key, UnregisterKey(k)
  PROVE  /\ Going /\ UNCHANGED <<issued, used, blame>> /\ ks' \in Store
         /\ But(ks, ks', {"ret"}) \/ (But(ks, ks', {"fault"}) /\ ks'.fault = "wrong_type")
<1>1. ks \in Store /\ ks.fault = "none"
  BY DEF KsTypes, Well, UnregisterKey, Going
<1>2. ks' \in Store /\ (But(ks, ks', {"ret"}) \/ (But(ks, ks', {"fault"}) /\ ks'.fault = "wrong_type"))
  BY <1>1, UnregisterKeyParts DEF UnregisterKey
<1> QED BY <1>2 DEF UnregisterKey

LEMMA ButMore ==
  ASSUME NEW s, NEW t, But(s, t, {"ret"}) \/ But(s, t, {"fault"})
  PROVE  But(s, t, {"ret", "fault"})
BY DEF But

LEMMA WellSame ==
  ASSUME NEW s, Well(s), NEW t \in Store, But(s, t, {"ret"}) \/ But(s, t, {"fault"})
  PROVE  Well(t)
<1>1. But(s, t, {"ret", "fault"}) /\ s \in Store
  BY ButMore DEF Well
<1> QED BY <1>1, LessSame, WellLess

\* Registration, in four cases.
LEMMA WellRegisters ==
  ASSUME KsTypes, NEW k \in Key, NEW m, ks' \in Store, Registers(k, m)
  PROVE  /\ Well(ks') /\ (KeysLive => KeysLive')
         /\ ks'.fault = "none" /\ ks'.ret # 0 => ks'.ret - 1 \in Slot
<1>0. Well(ks)
  BY DEF KsTypes
<1>1. CASE Known(ks, ks', k)
  <2>1. Well(ks')
    BY <1>0, <1>1, WellSame DEF Known
  <2>2. ASSUME ks'.ret # 0 PROVE ks'.ret - 1 \in Slot
    <3>1. AsnOf[k] # 0 /\ ks'.ret = ReturnedId(SlotOf(AsnOf[k]))
      BY <1>1, <2>2 DEF Known
    <3>2. PICK i \in Slot : i = SlotOf(AsnOf[k])
      BY <3>1, SlotOfKey
    <3>3. ks'.ret = i + 1 /\ i \in Nat
      BY <2>2, <3>1, <3>2, Ids, KeyNumbers
    <3> QED BY <3>3
  <2>3. Live(ks) => Live(ks')
    BY <1>1 DEF Known, Live, But
  <2> QED BY <2>1, <2>2, <2>3 DEF KeysLive, Registers
<1>2. CASE Dead(ks, ks', k)
  <2>1. Well(ks')
    BY <1>0, <1>2, WellSame DEF Dead
  <2>2. Live(ks) => Live(ks')
    BY <1>2 DEF Dead, Live, But
  <2> QED BY <1>2, <2>1, <2>2 DEF Dead, KeysLive, Registers
<1>3. ASSUME NEW s, NEW t, Well(s), ks.keyData[k] = s.keyData[k], s.keyData[k] # NULL, NEW i \in Slot,
             NEW R, R \subseteq s.rec \cup {NewRecord(s, k)}, Enters(s, t, k, i, R)
      PROVE  Well(t) /\ (Live(s) => Live(t)) /\ (t.ret # 0 => t.ret - 1 \in Slot) /\ t.keyData = s.keyData
  <2>1. Well(t)
    BY <1>3, WellEnters
  <2>2. Live(s) => Live(t)
    BY <1>3, LiveEnters
  <2>3. t.ret = ReturnedId(i) /\ i \in Nat /\ t.keyData = s.keyData
    BY <1>3, EnteredSlots, KeyNumbers
  <2>4. t.ret # 0 => t.ret - 1 = i
    BY <2>3, Ids
  <2> QED BY <2>1, <2>2, <2>3, <2>4
<1>4. CASE Once(ks, ks', k)
  <2>1. PICK i \in Slot : i = SlotOf(AsnOf[k])
    BY <1>4, SlotOfKey DEF Once
  <2>2. PICK R : R = ks.rec \cup {NewRecord(ks, k)} /\ R \subseteq ks.rec \cup {NewRecord(ks, k)}
    OBVIOUS
  <2>3. ks.keyData[k] # NULL /\ Enters(ks, ks', k, i, R)
    BY <1>4, <2>1, <2>2 DEF Once
  <2>4. PICK t : t = ks' /\ Enters(ks, t, k, i, R)
    BY <2>3
  <2>5. Well(t) /\ (Live(ks) => Live(t)) /\ (t.ret # 0 => t.ret - 1 \in Slot)
    BY <1>0, <1>3, <2>2, <2>3, <2>4
  <2> QED BY <2>4, <2>5 DEF KeysLive, Registers
<1>5. CASE Twice(ks, ks', k)
  <2>1. PICK u \in Store : Enters(ks, u, k, 0, ks.rec) /\ Enters(u, ks', k, 0, u.rec)
    BY <1>5 DEF Twice
  <2>2. ks.keyData[k] # NULL /\ 0 \in Slot
    BY <1>5, KeyNumbers DEF Twice
  <2>3. Well(u) /\ (Live(ks) => Live(u)) /\ u.keyData = ks.keyData
    BY <1>0, <1>3, <2>1, <2>2
  <2>4. Well(ks') /\ (Live(u) => Live(ks')) /\ (ks'.ret # 0 => ks'.ret - 1 \in Slot)
    BY <1>3, <2>1, <2>2, <2>3
  <2> QED BY <2>3, <2>4 DEF KeysLive, Registers
<1> QED BY <1>1, <1>2, <1>4, <1>5 DEF Registers

LEMMA TypesStep == KsTypes /\ KeysLive /\ Calls => KsTypes' /\ KeysLive'
<1> SUFFICES ASSUME KsTypes, KeysLive, Calls PROVE KsTypes' /\ KeysLive'
  OBVIOUS
<1>0. /\ Well(ks) /\ issued \in [Key -> 0 .. IdModulus - 1] /\ used \subseteq Key
      /\ Going => \A k \in Key : issued[k] # 0 => issued[k] - 1 \in Slot
  BY DEF KsTypes
\* Most steps leave the ids alone.
<1>s. ASSUME Going, issued' = issued, used' \subseteq Key, blame \subseteq blame', Well(ks'),
             "sign_failed" \in blame' \/ (Live(ks) => Live(ks'))
      PROVE  KsTypes' /\ KeysLive'
  BY <1>0, <1>s DEF KsTypes, KeysLive, Going
<1>1. ASSUME NEW k \in Key, KeyLoading(k) PROVE KsTypes' /\ KeysLive'
  <2>1. /\ Going /\ UNCHANGED <<issued, used, blame>>
        /\ Loads(ks, ks', k) \/ Forgets(ks, ks', k)
    BY <1>1, LoadEffect
  <2>2. CASE Loads(ks, ks', k)
    <3>1. Well(ks')
      BY <1>0, <2>2, WellLoads
    <3>2. Grown(ks, ks', k) /\ ks'.fault = ks.fault /\ ks'.slot = ks.slot
      BY <2>2 DEF Loads, But
    <3>3. Live(ks) => Live(ks')
      BY <1>0, <3>2, LiveGrown
    <3> QED BY <1>0, <1>s, <2>1, <3>1, <3>3
  <2>3. CASE Forgets(ks, ks', k)
    <3>1. Well(ks')
      BY <1>0, <2>3, LessForgets, WellLess
    <3>2. Live(ks) => Live(ks')
      BY <2>3, LiveForgets
    <3> QED BY <1>0, <1>s, <2>1, <3>1, <3>2
  <2> QED BY <2>1, <2>2, <2>3
<1>2. ASSUME NEW k \in Key, TestRegisterPrivateKey(k) PROVE KsTypes' /\ KeysLive'
  <2>1. PICK m \in BOOLEAN : Going /\ ks' \in Store /\ Registers(k, m)
    BY <1>2, RegisterEffect
  <2>2. /\ Well(ks') /\ KeysLive'
        /\ ks'.fault = "none" /\ ks'.ret # 0 => ks'.ret - 1 \in Slot
    BY <2>1, WellRegisters
  <2>3. issued' = [issued EXCEPT ![k] = ks'.ret] /\ used' = used \cup {k}
    BY <2>1 DEF Registers
  <2>4. ks'.ret \in 0 .. IdModulus - 1
    BY <2>1, StoreFields
  <2>5. issued' \in [Key -> 0 .. IdModulus - 1] /\ used' \subseteq Key
    BY <1>0, <2>3, <2>4
  <2>6. ASSUME ks'.fault = "none", NEW j \in Key, issued'[j] # 0 PROVE issued'[j] - 1 \in Slot
    BY <1>0, <2>1, <2>2, <2>3, <2>6
  <2> QED BY <2>2, <2>5, <2>6 DEF KsTypes, Going
<1>3. ASSUME NEW k \in Key, RegisterPublicKey(k) PROVE KsTypes' /\ KeysLive'
  <2>1. /\ Going /\ UNCHANGED issued /\ used' = used \cup {k} /\ blame \subseteq blame'
        /\ \/ ks' \in Store /\ But(ks, ks', {"ret"})
           \/ Stale(ks, ks')
           \/ ks.keyData[k] = NULL /\ Loads(ks, ks', k)
           \/ ks.keyData[k] # NULL /\ Records(ks, ks', k)
    BY <1>3, PublicEffect
  <2>2. CASE ks' \in Store /\ But(ks, ks', {"ret"})
    <3>1. Well(ks')
      BY <1>0, <2>2, WellSame
    <3>2. Live(ks) => Live(ks')
      BY <2>2 DEF But, Live
    <3> QED BY <1>0, <1>s, <2>1, <3>1, <3>2
  <2>3. CASE Stale(ks, ks')
    <3>1. Well(ks')
      BY <1>0, <2>3, WellSame DEF Stale
    <3>2. Live(ks) => Live(ks')
      BY <2>3 DEF But, Live, Stale
    <3> QED BY <1>0, <1>s, <2>1, <3>1, <3>2
  <2>4. CASE Loads(ks, ks', k)
    <3>1. Well(ks')
      BY <1>0, <2>4, WellLoads
    <3>2. Grown(ks, ks', k) /\ ks'.fault = ks.fault /\ ks'.slot = ks.slot
      BY <2>4 DEF Loads, But
    <3>3. Live(ks) => Live(ks')
      BY <1>0, <3>2, LiveGrown
    <3> QED BY <1>0, <1>s, <2>1, <3>1, <3>3
  <2>5. CASE ks.keyData[k] # NULL /\ Records(ks, ks', k)
    <3>1. Well(ks')
      BY <1>0, <2>5, WellRecords
    <3>2. Grown(ks, ks', k) /\ ks'.fault = ks.fault /\ ks'.slot = ks.slot
      BY <2>5 DEF Records, But
    <3>3. Live(ks) => Live(ks')
      BY <1>0, <3>2, LiveGrown
    <3> QED BY <1>0, <1>s, <2>1, <3>1, <3>3
  <2> QED BY <2>1, <2>2, <2>3, <2>4, <2>5
<1>4. ASSUME NEW k \in Key, TestSignWithID(k) PROVE KsTypes' /\ KeysLive'
  <2>1. /\ Going /\ UNCHANGED <<issued, used>> /\ blame \subseteq blame' /\ issued[k] - 1 \in Slot
        /\ \/ ks' \in Store /\ But(ks, ks', {"ret"})
           \/ /\ ks' \in Store /\ But(ks, ks', {"fault"}) /\ ks'.fault = "stale_key"
              /\ ks.slot[issued[k] - 1].ec_key # NULL
              /\ ks.heap[ks.slot[issued[k] - 1].ec_key] = "freed"
           \/ "sign_failed" \in blame' /\ Spoils(ks, ks', issued[k] - 1)
    BY <1>4, SignEffect
  <2>2. CASE ks' \in Store /\ But(ks, ks', {"ret"})
    <3>1. Well(ks')
      BY <1>0, <2>2, WellSame
    <3>2. Live(ks) => Live(ks')
      BY <2>2 DEF But, Live
    <3> QED BY <1>0, <1>s, <2>1, <3>1, <3>2
  <2>3. CASE /\ ks' \in Store /\ But(ks, ks', {"fault"}) /\ ks'.fault = "stale_key"
             /\ ks.slot[issued[k] - 1].ec_key # NULL
             /\ ks.heap[ks.slot[issued[k] - 1].ec_key] = "freed"
    <3>1. Well(ks')
      BY <1>0, <2>3, WellSame
    <3>2. ~Live(ks)
      BY <2>1, <2>3 DEF Live
    <3> QED BY <1>0, <1>s, <2>1, <3>1, <3>2
  <2>4. CASE "sign_failed" \in blame' /\ Spoils(ks, ks', issued[k] - 1)
    <3>1. Well(ks')
      BY <1>0, <2>1, <2>4, LessSpoils, WellLess
    <3> QED BY <1>0, <1>s, <2>1, <2>4, <3>1
  <2> QED BY <2>1, <2>2, <2>3, <2>4
<1>5. ASSUME NEW k \in Key, TestUnregisterKey(k) \/ UnregisterPrivateKey(k) PROVE KsTypes' /\ KeysLive'
  <2>1. Going
    BY <1>5, UnfileEffect
  <2>2. PICK i \in Slot, u \in Store :
          /\ Unfiles(k, i, u)
          /\ Forgets(u, ks', k) \/ ("program_freed" \in blame' /\ Drops(u, ks', k))
    BY <1>5, UnfileEffect
  <2>3. /\ After(ks, u, i) /\ Well(u) /\ issued' = [issued EXCEPT ![k] = 0] /\ used' = used
        /\ blame \subseteq blame'
    BY <2>2 DEF Unfiles, After
  <2>4. Live(ks) => Live(u)
    BY <1>0, <2>3, LiveAfter
  <2>5. Well(ks')
    BY <2>2, <2>3, LessForgets, LessDrops, WellLess
  <2>6. Live(u) => Live(ks')
    BY <2>2, <2>3, LiveForgets, LiveDrops
  <2>7. KeysLive'
    BY <2>3, <2>4, <2>6 DEF KeysLive
  <2>8. issued' \in [Key -> 0 .. IdModulus - 1]
    BY <1>0, <2>3, KeyNumbers
  <2>9. ASSUME NEW j \in Key, issued'[j] # 0 PROVE issued'[j] - 1 \in Slot
    BY <1>0, <2>1, <2>3, <2>9
  <2> QED BY <1>0, <2>3, <2>5, <2>7, <2>8, <2>9 DEF KsTypes
<1>6. ASSUME NEW k \in Key, UnregisterKey(k) PROVE KsTypes' /\ KeysLive'
  <2>1. /\ Going /\ UNCHANGED <<issued, used, blame>> /\ ks' \in Store
        /\ But(ks, ks', {"ret"}) \/ (But(ks, ks', {"fault"}) /\ ks'.fault = "wrong_type")
    BY <1>6, UnregisterEffect
  <2>2. Well(ks')
    BY <1>0, <2>1, WellSame
  <2>3. Live(ks) => Live(ks')
    BY <2>1 DEF But, Live
  <2> QED BY <1>0, <1>s, <2>1, <2>2, <2>3
<1>7. ASSUME NEW k \in Key, ProgramFrees(k) PROVE KsTypes' /\ KeysLive'
  <2>1. /\ Going /\ UNCHANGED <<issued, used>> /\ blame \subseteq blame' /\ Drops(ks, ks', k)
    BY <1>7, FreesEffect
  <2>2. Well(ks')
    BY <1>0, <2>1, LessDrops, WellLess
  <2>3. Live(ks) => Live(ks')
    BY <1>0, <2>1, LiveDrops
  <2> QED BY <1>0, <1>s, <2>1, <2>2, <2>3
<1>8. ASSUME MainUnregister PROVE KsTypes' /\ KeysLive'
  <2>1. /\ Going /\ UNCHANGED <<issued, used>> /\ blame \subseteq blame'
        /\ \/ ks' \in Store /\ But(ks, ks', {"fault"}) /\ ks'.fault = "no_slot"
           \/ \E i \in Slot : After(ks, ks', i)
    BY <1>8, MainEffect
  <2>2. CASE ks' \in Store /\ But(ks, ks', {"fault"}) /\ ks'.fault = "no_slot"
    <3>1. Well(ks')
      BY <1>0, <2>2, WellSame
    <3>2. Live(ks) => Live(ks')
      BY <2>2 DEF But, Live
    <3> QED BY <1>0, <1>s, <2>1, <3>1, <3>2
  <2>3. CASE \E i \in Slot : After(ks, ks', i)
    <3>1. PICK i \in Slot : After(ks, ks', i)
      BY <2>3
    <3>2. Well(ks')
      BY <3>1 DEF After
    <3>3. Live(ks) => Live(ks')
      BY <1>0, <3>1, LiveAfter
    <3> QED BY <1>0, <1>s, <2>1, <3>2, <3>3
  <2> QED BY <2>1, <2>2, <2>3
<1> QED BY <1>1, <1>2, <1>3, <1>4, <1>5, <1>6, <1>7, <1>8 DEF Calls

\* Slots keep their owners.
Untouched(i) ==
  /\ ks'.slot[i] = ks.slot[i] /\ ks'.of[ks.slot[i].ec_key] = ks.of[ks.slot[i].ec_key]
  /\ \A j \in used : Owns(j, i) => ks'.keyData[j] = ks.keyData[j] \/ "program_freed" \in blame'

LEMMA KeepsOwner ==
  ASSUME NEW i \in Slot, Untouched(i), blame \subseteq blame', NEW j \in used, Owns(j, i)
  PROVE  Owns(j, i)'
BY DEF Owns, Untouched

\* A key's buffer that is not there makes it no owner.
LEMMA NoOwner ==
  ASSUME KsTypes, NEW i \in Slot, ks.slot[i].ec_key # NULL, NEW j \in Key, Owns(j, i), ks.keyData[j] = NULL
  PROVE  "program_freed" \in blame
<1>1. ks.slot[i].en_buf # NULL
  BY EmptyIsEntry DEF KsTypes, Well, Filed
<1> QED BY <1>1 DEF Owns

LEMMA TouchedByLoad ==
  ASSUME KsTypes, NEW k \in Key, ks.keyData[k] = NULL, Loads(ks, ks', k) \/ Forgets(ks, ks', k),
         blame \subseteq blame', NEW i \in Slot, ks.slot[i].ec_key # NULL
  PROVE  Untouched(i)
<1>0. Well(ks) /\ used \subseteq Key /\ ks.keyData \in [Key -> Obj \cup {NULL}] /\ ks.slot[i].ec_key \in Obj
  BY StoreFields, Pointers DEF KsTypes, Well
<1>1. \A j \in used : Owns(j, i) => j # k \/ "program_freed" \in blame'
  BY <1>0, NoOwner
<1>2. CASE Loads(ks, ks', k)
  <2>1. Grown(ks, ks', k) /\ ks'.slot = ks.slot /\ ks'.keyData = [ks.keyData EXCEPT ![k] = ks.made + 1]
    BY <1>2 DEF Loads, But
  <2>2. ks'.of[ks.slot[i].ec_key] = ks.of[ks.slot[i].ec_key]
    BY <1>0, <2>1, NewObject
  <2> QED BY <1>0, <1>1, <2>1, <2>2 DEF Untouched
<1>3. CASE Forgets(ks, ks', k)
  <2>1. ks'.of = ks.of /\ ks'.slot = ks.slot /\ ks'.keyData = [ks.keyData EXCEPT ![k] = NULL]
    BY <1>3 DEF Forgets, But
  <2> QED BY <1>0, <1>1, <2>1 DEF Untouched
<1> QED BY <1>2, <1>3

LEMMA ApartStep == KsTypes /\ Apart /\ Calls => Apart'
<1> SUFFICES ASSUME KsTypes, Apart, Calls, blame' \cap {"shared_slot", "no_memory"} = {}
             PROVE  /\ \A j, k \in used' : j # k => SlotOf(AsnOf[j]) # SlotOf(AsnOf[k])
                    /\ \A i \in Slot : ks'.slot[i].ec_key # NULL => \E k \in used' : Owns(k, i)'
                    /\ Going' => \A k \in Key : issued'[k] # 0 =>
                                  k \in used' /\ AsnOf[k] # 0 /\ issued'[k] = SlotOf(AsnOf[k]) + 1
                    /\ "id_zero" \notin blame' =>
                         \A i \in Slot : ks'.slot[i].ec_key # NULL => ReturnedId(i) # 0
  BY DEF Apart
<1> DEFINE Distinct == \A j, k \in used' : j # k => SlotOf(AsnOf[j]) # SlotOf(AsnOf[k])
           Owned    == \A i \in Slot : ks'.slot[i].ec_key # NULL => \E k \in used' : Owns(k, i)'
           Named    == Going' => \A k \in Key : issued'[k] # 0 =>
                                  k \in used' /\ AsnOf[k] # 0 /\ issued'[k] = SlotOf(AsnOf[k]) + 1
           NonZero  == "id_zero" \notin blame' =>
                         \A i \in Slot : ks'.slot[i].ec_key # NULL => ReturnedId(i) # 0
<1>0. /\ Well(ks) /\ issued \in [Key -> 0 .. IdModulus - 1] /\ used \subseteq Key
      /\ Going => \A k \in Key : issued[k] # 0 => issued[k] - 1 \in Slot
  BY DEF KsTypes
<1>b. ASSUME blame \subseteq blame'
      PROVE  /\ \A j, k \in used : j # k => SlotOf(AsnOf[j]) # SlotOf(AsnOf[k])
             /\ \A i \in Slot : ks.slot[i].ec_key # NULL => \E k \in used : Owns(k, i)
             /\ Going => \A k \in Key : issued[k] # 0 =>
                           k \in used /\ AsnOf[k] # 0 /\ issued[k] = SlotOf(AsnOf[k]) + 1
             /\ "id_zero" \notin blame => \A i \in Slot : ks.slot[i].ec_key # NULL => ReturnedId(i) # 0
  <2>1. blame \cap {"shared_slot", "no_memory"} = {}
    BY <1>b
  <2> QED BY <2>1 DEF Apart
\* Two used keys: nothing new, or a key that met no other.
<1>u. ASSUME NEW k \in Key, used' = used \/ (used' = used \cup {k} /\ ~Clash(k)), blame \subseteq blame'
      PROVE  Distinct
  <2>1. ASSUME NEW a \in used', NEW b \in used', a # b PROVE SlotOf(AsnOf[a]) # SlotOf(AsnOf[b])
    BY <1>b, <1>u, <2>1 DEF Clash
  <2> QED BY <2>1
<1>k. ASSUME Going, blame \subseteq blame', used \subseteq used',
             \A i \in Slot : ks'.slot[i].ec_key # NULL => ks.slot[i].ec_key # NULL /\ Untouched(i),
             \A k \in Key : issued'[k] # 0 => issued'[k] = issued[k]
      PROVE  Owned /\ Named /\ NonZero
  <2>1. ASSUME NEW i \in Slot, ks'.slot[i].ec_key # NULL PROVE \E k \in used' : Owns(k, i)'
    <3>1. ks.slot[i].ec_key # NULL /\ Untouched(i)
      BY <1>k, <2>1
    <3>2. PICK k \in used : Owns(k, i)
      BY <1>b, <1>k, <3>1
    <3>3. Owns(k, i)'
      BY <1>k, <3>1, <3>2, KeepsOwner
    <3> QED BY <1>k, <3>3
  <2>2. Named
    BY <1>b, <1>k
  <2>3. NonZero
    BY <1>b, <1>k
  <2> QED BY <2>1, <2>2, <2>3
<1>1. ASSUME NEW k \in Key, KeyLoading(k) PROVE Distinct /\ Owned /\ Named /\ NonZero
  <2>1. /\ Going /\ ks.keyData[k] = NULL /\ UNCHANGED <<issued, used, blame>>
        /\ Loads(ks, ks', k) \/ Forgets(ks, ks', k)
    BY <1>1, LoadEffect
  <2>2. ks'.slot = ks.slot
    BY <2>1 DEF Loads, Forgets, But
  <2>3. \A i \in Slot : ks'.slot[i].ec_key # NULL => ks.slot[i].ec_key # NULL /\ Untouched(i)
    BY <2>1, <2>2, TouchedByLoad
  <2> QED BY <1>k, <1>u, <2>1, <2>3
<1>2. ASSUME NEW k \in Key, TestRegisterPrivateKey(k) PROVE Distinct /\ Owned /\ Named /\ NonZero
  <2>1. PICK m \in BOOLEAN : Going /\ ks' \in Store /\ Registers(k, m)
    BY <1>2, RegisterEffect
  <2>2. /\ blame \subseteq blame' /\ m /\ ~Clash(k) /\ ("id_zero" \notin blame' => ~IdIsZero(k))
        /\ issued' = [issued EXCEPT ![k] = ks'.ret] /\ used' = used \cup {k}
    BY <2>1 DEF Registers, When
  <2>3. Distinct
    BY <1>u, <2>2
  \* The id that was returned.
  <2>n. ASSUME Going' => (ks'.ret # 0 => AsnOf[k] # 0 /\ ks'.ret = SlotOf(AsnOf[k]) + 1)
        PROVE  Named
    <3>1. ASSUME Going', NEW j \in Key, issued'[j] # 0
          PROVE  j \in used' /\ AsnOf[j] # 0 /\ issued'[j] = SlotOf(AsnOf[j]) + 1
      <4>1. CASE j = k
        BY <1>0, <2>2, <2>n, <3>1, <4>1
      <4>2. CASE j # k
        <5>1. issued'[j] = issued[j]
          BY <1>0, <2>2, <4>2
        <5> QED BY <1>b, <2>1, <2>2, <3>1, <5>1
      <4> QED BY <4>1, <4>2
    <3> QED BY <3>1
  <2>i. ASSUME AsnOf[k] # 0, ks'.ret = ReturnedId(SlotOf(AsnOf[k])), ks'.ret # 0
        PROVE  ks'.ret = SlotOf(AsnOf[k]) + 1
    BY <2>i, SlotOfKey, Ids
  <2>4. CASE Known(ks, ks', k)
    <3>1. ks'.slot = ks.slot /\ ks'.of = ks.of /\ ks'.keyData = ks.keyData
      BY <2>4 DEF Known, But
    <3>2. \A i \in Slot : Untouched(i)
      BY <3>1 DEF Untouched
    <3>3. Owned
      <4>1. ASSUME NEW i \in Slot, ks'.slot[i].ec_key # NULL PROVE \E j \in used' : Owns(j, i)'
        <5>1. PICK j \in used : Owns(j, i)
          BY <1>b, <2>2, <3>1, <4>1
        <5>2. Owns(j, i)'
          BY <2>2, <3>2, <5>1, KeepsOwner
        <5> QED BY <2>2, <5>2
      <4> QED BY <4>1
    <3>4. NonZero
      BY <1>b, <2>2, <3>1
    <3>5. ks'.ret # 0 => AsnOf[k] # 0 /\ ks'.ret = SlotOf(AsnOf[k]) + 1
      BY <2>4, <2>i DEF Known
    <3> QED BY <2>3, <2>n, <3>3, <3>4, <3>5
  <2>5. CASE Dead(ks, ks', k)
    <3>1. ks'.slot = ks.slot /\ ks'.of = ks.of /\ ks'.keyData = ks.keyData /\ ~Going'
      BY <2>5 DEF Dead, But, Going
    <3>2. \A i \in Slot : Untouched(i)
      BY <3>1 DEF Untouched
    <3>3. Owned
      <4>1. ASSUME NEW i \in Slot, ks'.slot[i].ec_key # NULL PROVE \E j \in used' : Owns(j, i)'
        <5>1. PICK j \in used : Owns(j, i)
          BY <1>b, <2>2, <3>1, <4>1
        <5>2. Owns(j, i)'
          BY <2>2, <3>2, <5>1, KeepsOwner
        <5> QED BY <2>2, <5>2
      <4> QED BY <4>1
    <3>4. NonZero
      BY <1>b, <2>2, <3>1
    <3> QED BY <2>3, <3>1, <3>3, <3>4
  <2>6. CASE Once(ks, ks', k)
    <3>1. PICK i \in Slot : i = SlotOf(AsnOf[k])
      BY <2>6, SlotOfKey DEF Once
    <3>r. PICK R, s : R = ks.rec \cup {NewRecord(ks, k)} /\ s = ks'
      OBVIOUS
    <3>2. AsnOf[k] # 0 /\ Enters(ks, s, k, i, R)
      BY <2>6, <3>1, <3>r DEF Once
    <3>s. /\ Grown(ks, s, k) /\ s.keyData = ks.keyData /\ s.ret = ReturnedId(i)
          /\ s.slot[i].ec_key = ks.made + 1 /\ s.slot[i].en_buf = ks.keyData[k]
          /\ \A j \in Slot : j # i => s.slot[j] = ks.slot[j]
      BY <1>0, <3>2, EnteredSlots
    <3>t. /\ s.of[ks.made + 1] = k
          /\ \A p \in Obj : p # ks.made + 1 => s.of[p] = ks.of[p]
          /\ \A j \in Slot : ks.slot[j].ec_key # ks.made + 1
      BY <1>0, <3>s, NewObject
    <3>3. /\ ks'.keyData = ks.keyData /\ ks'.ret = ReturnedId(i)
          /\ ks'.slot[i].ec_key = ks.made + 1 /\ ks'.slot[i].en_buf = ks.keyData[k]
          /\ \A j \in Slot : j # i => ks'.slot[j] = ks.slot[j]
      BY <3>r, <3>s
    <3>4. /\ ks'.of[ks.made + 1] = k
          /\ \A p \in Obj : p # ks.made + 1 => ks'.of[p] = ks.of[p]
          /\ \A j \in Slot : ks.slot[j].ec_key # ks.made + 1
      BY <3>r, <3>t
    <3>5. Owned
      <4>1. ASSUME NEW j \in Slot, ks'.slot[j].ec_key # NULL PROVE \E g \in used' : Owns(g, j)'
        <5>1. CASE j = i
          <6>1. Owns(k, j)'
            BY <3>1, <3>2, <3>3, <3>4, <5>1 DEF Owns
          <6> QED BY <2>2, <6>1
        <5>2. CASE j # i
          <6>1. ks'.slot[j] = ks.slot[j] /\ ks.slot[j].ec_key # NULL
            BY <3>3, <4>1, <5>2
          <6>2. ks.slot[j].ec_key \in Obj
            BY <1>0, <6>1, Pointers
          <6>3. Untouched(j)
            <7>1. ks'.of[ks.slot[j].ec_key] = ks.of[ks.slot[j].ec_key]
              BY <3>4, <6>2
            <7> QED BY <3>3, <6>1, <7>1 DEF Untouched
          <6>4. PICK g \in used : Owns(g, j)
            BY <1>b, <2>2, <6>1
          <6>5. Owns(g, j)'
            BY <2>2, <6>3, <6>4, KeepsOwner
          <6> QED BY <2>2, <6>5
        <5> QED BY <5>1, <5>2
      <4> QED BY <4>1
    <3>6. NonZero
      <4>1. ASSUME "id_zero" \notin blame', NEW j \in Slot, ks'.slot[j].ec_key # NULL PROVE ReturnedId(j) # 0
        <5>1. CASE j = i
          BY <2>2, <3>1, <3>2, <4>1, <5>1 DEF IdIsZero
        <5>2. CASE j # i
          BY <1>b, <2>2, <3>3, <4>1, <5>2
        <5> QED BY <5>1, <5>2
      <4> QED BY <4>1
    <3>7. ks'.ret # 0 => AsnOf[k] # 0 /\ ks'.ret = SlotOf(AsnOf[k]) + 1
      BY <2>i, <3>1, <3>2, <3>3
    <3> QED BY <2>3, <2>n, <3>5, <3>6, <3>7
  <2> QED BY <2>1, <2>2, <2>4, <2>5, <2>6 DEF Registers
<1>3. ASSUME NEW k \in Key, RegisterPublicKey(k) PROVE Distinct /\ Owned /\ Named /\ NonZero
  <2>1. /\ Going /\ UNCHANGED issued /\ used' = used \cup {k} /\ blame \subseteq blame'
        /\ Clash(k) => "shared_slot" \in blame'
        /\ \/ ks' \in Store /\ But(ks, ks', {"ret"})
           \/ Stale(ks, ks')
           \/ ks.keyData[k] = NULL /\ Loads(ks, ks', k)
           \/ ks.keyData[k] # NULL /\ Records(ks, ks', k)
    BY <1>3, PublicEffect
  <2>2. ks'.slot = ks.slot
    BY <2>1 DEF Loads, Records, Stale, But
  <2>3. ASSUME NEW i \in Slot, ks.slot[i].ec_key # NULL PROVE Untouched(i)
    <3>1. CASE But(ks, ks', {"ret"}) \/ Stale(ks, ks')
      BY <3>1 DEF But, Stale, Untouched
    <3>2. CASE ks.keyData[k] = NULL /\ Loads(ks, ks', k)
      BY <2>1, <2>3, <3>2, TouchedByLoad
    <3>3. CASE Records(ks, ks', k)
      <4>1. Grown(ks, ks', k) /\ ks'.keyData = ks.keyData
        BY <3>3 DEF Records, But
      <4>2. ks'.of[ks.slot[i].ec_key] = ks.of[ks.slot[i].ec_key]
        <5>1. ks.slot[i].ec_key \in Obj
          BY <1>0, <2>3, Pointers
        <5> QED BY <1>0, <4>1, <5>1, NewObject
      <4> QED BY <2>2, <4>1, <4>2 DEF Untouched
    <3> QED BY <2>1, <3>1, <3>2, <3>3
  <2> QED BY <1>k, <1>u, <2>1, <2>2, <2>3
<1>4. ASSUME NEW k \in Key, TestSignWithID(k) PROVE Distinct /\ Owned /\ Named /\ NonZero
  <2>1. Going /\ UNCHANGED <<issued, used>> /\ blame \subseteq blame'
        /\ ks'.slot = ks.slot /\ ks'.of = ks.of /\ ks'.keyData = ks.keyData
    BY <1>4, SignEffect DEF But, Spoils
  <2>2. \A i \in Slot : Untouched(i)
    BY <2>1 DEF Untouched
  <2> QED BY <1>4, <1>k, <1>u, <2>1, <2>2
<1>5. ASSUME NEW k \in Key, TestUnregisterKey(k) \/ UnregisterPrivateKey(k)
      PROVE  Distinct /\ Owned /\ Named /\ NonZero
  <2>1. Going /\ issued[k] # 0
    BY <1>5 DEF TestUnregisterKey, UnregisterPrivateKey
  <2>2. PICK i \in Slot, u \in Store :
          /\ Unfiles(k, i, u)
          /\ Forgets(u, ks', k) \/ ("program_freed" \in blame' /\ Drops(u, ks', k))
    BY <1>5, UnfileEffect
  <2>3. /\ After(ks, u, i) /\ issued' = [issued EXCEPT ![k] = 0] /\ used' = used
        /\ blame \subseteq blame' /\ i = issued[k] - 1
    BY <2>2 DEF Unfiles
  <2>4. ks'.slot = u.slot /\ ks'.of = ks.of /\ ks'.keyData = [ks.keyData EXCEPT ![k] = NULL]
    BY <2>2, <2>3 DEF Forgets, Drops, But, After
  <2>5. ks'.slot[i].ec_key = NULL /\ \A j \in Slot : j # i => ks'.slot[j] = ks.slot[j]
    BY <2>3, <2>4, EmptyIsEntry DEF After
  <2>6. i = SlotOf(AsnOf[k])
    <3>1. AsnOf[k] # 0 /\ issued[k] = SlotOf(AsnOf[k]) + 1
      BY <1>b, <2>1, <2>3
    <3>2. PICK n \in Nat : n = SlotOf(AsnOf[k])
      BY <3>1, SlotOfKey, KeyNumbers
    <3>3. (n + 1) - 1 = n
      OBVIOUS
    <3> QED BY <2>3, <3>1, <3>2, <3>3
  <2>7. ASSUME NEW j \in Slot, ks'.slot[j].ec_key # NULL PROVE ks.slot[j].ec_key # NULL /\ Untouched(j)
    <3>1. j # i /\ ks'.slot[j] = ks.slot[j]
      BY <2>5, <2>7
    <3>2. ASSUME NEW g \in used, Owns(g, j) PROVE ks'.keyData[g] = ks.keyData[g]
      <4>1. g # k
        BY <2>6, <3>1, <3>2 DEF Owns
      <4>2. ks.keyData \in [Key -> Obj \cup {NULL}] /\ g \in Key
        BY <1>0, StoreFields DEF Well
      <4> QED BY <2>4, <4>1, <4>2
    <3> QED BY <2>4, <2>7, <3>1, <3>2 DEF Untouched
  <2>8. \A j \in Key : issued'[j] # 0 => issued'[j] = issued[j]
    BY <1>0, <2>3
  <2> QED BY <1>k, <1>u, <2>1, <2>3, <2>7, <2>8
<1>6. ASSUME NEW k \in Key, UnregisterKey(k) PROVE Distinct /\ Owned /\ Named /\ NonZero
  <2>1. Going /\ UNCHANGED <<issued, used, blame>>
        /\ ks'.slot = ks.slot /\ ks'.of = ks.of /\ ks'.keyData = ks.keyData
    BY <1>6, UnregisterEffect DEF But
  <2>2. \A i \in Slot : Untouched(i)
    BY <2>1 DEF Untouched
  <2> QED BY <1>6, <1>k, <1>u, <2>1, <2>2
<1>7. ASSUME NEW k \in Key, ProgramFrees(k) PROVE Distinct /\ Owned /\ Named /\ NonZero
  <2>1. Going /\ UNCHANGED <<issued, used>> /\ blame \subseteq blame' /\ "program_freed" \in blame'
        /\ ks'.slot = ks.slot /\ ks'.of = ks.of
    BY <1>7, FreesEffect DEF But, Drops
  <2>2. \A i \in Slot : Untouched(i)
    BY <2>1 DEF Untouched
  <2> QED BY <1>7, <1>k, <1>u, <2>1, <2>2
<1>8. ASSUME MainUnregister PROVE Distinct /\ Owned /\ Named /\ NonZero
  <2>1. /\ Going /\ UNCHANGED <<issued, used>> /\ blame \subseteq blame'
        /\ \/ ks' \in Store /\ But(ks, ks', {"fault"}) /\ ks'.fault = "no_slot"
           \/ \E i \in Slot : After(ks, ks', i)
    BY <1>8, MainEffect
  <2>2. ks'.of = ks.of /\ ks'.keyData = ks.keyData
    BY <2>1 DEF But, After
  <2>3. ASSUME NEW j \in Slot, ks'.slot[j].ec_key # NULL PROVE ks.slot[j].ec_key # NULL /\ Untouched(j)
    <3>1. ks'.slot[j] = ks.slot[j]
      BY <2>1, <2>3, EmptyIsEntry DEF But, After
    <3> QED BY <2>2, <2>3, <3>1 DEF Untouched
  <2>4. Distinct
    BY <1>b, <2>1
  <2> QED BY <1>k, <2>1, <2>3, <2>4
<1> QED BY <1>1, <1>2, <1>3, <1>4, <1>5, <1>6, <1>7, <1>8 DEF Calls

LEMMA BuffersStep == KsTypes /\ Apart /\ BuffersLive /\ Calls => BuffersLive'
<1> DEFINE Cause == {"program_freed", "shared_slot", "no_memory", "record_stays", "id_zero"}
           Quiet == ks'.fault \notin {"stale_buffer", "stale_record", "buffer_twice"}
           Held  == \A k \in Key : ks'.keyData[k] # NULL => ks'.heap[ks'.keyData[k]] = "live"
           Own   == \A j, k \in Key : ks'.keyData[j] = ks'.keyData[k] /\ j # k => ks'.keyData[j] = NULL
           Kept  == \A r \in ks'.rec : ks'.heap[r.data] = "live"
<1> SUFFICES ASSUME KsTypes, Apart, BuffersLive, Calls, blame' \cap Cause = {}
             PROVE  Quiet /\ Held /\ Own /\ Kept
  BY DEF BuffersLive
<1>0. /\ Well(ks) /\ issued \in [Key -> 0 .. IdModulus - 1] /\ used \subseteq Key
      /\ ks.keyData \in [Key -> Obj \cup {NULL}]
  BY StoreFields DEF KsTypes, Well
<1>b. ASSUME blame \subseteq blame'
      PROVE  /\ ks.fault \notin {"stale_buffer", "stale_record", "buffer_twice"}
             /\ \A k \in Key : ks.keyData[k] # NULL => ks.heap[ks.keyData[k]] = "live"
             /\ \A j, k \in Key : ks.keyData[j] = ks.keyData[k] /\ j # k => ks.keyData[j] = NULL
             /\ \A r \in ks.rec : ks.heap[r.data] = "live"
  <2>1. blame \cap Cause = {}
    BY <1>b
  <2> QED BY <2>1 DEF BuffersLive
<1>a. ASSUME blame \subseteq blame'
      PROVE  /\ \A j, k \in used : j # k => SlotOf(AsnOf[j]) # SlotOf(AsnOf[k])
             /\ \A i \in Slot : ks.slot[i].ec_key # NULL => \E k \in used : Owns(k, i)
             /\ Going => \A k \in Key : issued[k] # 0 =>
                           k \in used /\ AsnOf[k] # 0 /\ issued[k] = SlotOf(AsnOf[k]) + 1
             /\ \A i \in Slot : ks.slot[i].ec_key # NULL => ReturnedId(i) # 0
             /\ "program_freed" \notin blame
  <2>1. blame \cap Cause = {}
    BY <1>a
  <2>2. blame \cap {"shared_slot", "no_memory"} = {} /\ "id_zero" \notin blame /\ "program_freed" \notin blame
    BY <2>1
  <2> QED BY <2>2 DEF Apart
\* A step that makes an object.
<1>g. ASSUME blame \subseteq blame', NEW k \in Key, Grown(ks, ks', k), ks'.fault = ks.fault,
             ks'.keyData = ks.keyData \/ ks'.keyData = [ks.keyData EXCEPT ![k] = ks.made + 1],
             \A r \in ks'.rec : r \in ks.rec \/ (ks.keyData[k] # NULL /\ r.data = ks.keyData[k])
      PROVE  Quiet /\ Held /\ Own /\ Kept
  <2>0. PICK s : s = ks' /\ Grown(ks, s, k)
    BY <1>g
  <2>1. /\ s.heap[ks.made + 1] = "live" /\ ks.made + 1 # NULL
        /\ \A p \in Obj : p # ks.made + 1 => s.heap[p] = ks.heap[p]
        /\ \A j \in Key : ks.keyData[j] # ks.made + 1
        /\ \A r \in ks.rec : r.data # ks.made + 1
    BY <1>0, <2>0, NewObject
  <2>2. ASSUME NEW j \in Key, ks.keyData[j] # NULL PROVE s.heap[ks.keyData[j]] = "live"
    <3>1. ks.keyData[j] \in Obj
      BY <1>0, <2>2
    <3> QED BY <1>b, <1>g, <2>1, <2>2, <3>1
  <2>3. ASSUME NEW r \in ks.rec PROVE s.heap[r.data] = "live"
    <3>1. r.data \in Obj
      BY <1>0, Pointers
    <3> QED BY <1>b, <1>g, <2>1, <3>1
  <2>4. \A j \in Key : ks'.keyData[j] = ks.keyData[j] \/ (j = k /\ ks'.keyData[j] = ks.made + 1)
    BY <1>0, <1>g
  <2>5. Quiet
    BY <1>b, <1>g
  <2>6. Held
    BY <2>0, <2>1, <2>2, <2>4
  <2>7. Own
    <3>1. ASSUME NEW i \in Key, NEW j \in Key, ks'.keyData[i] = ks'.keyData[j], i # j
          PROVE  ks'.keyData[i] = NULL
      BY <1>b, <1>g, <2>1, <2>4, <3>1
    <3> QED BY <3>1
  <2>8. Kept
    BY <1>g, <2>0, <2>2, <2>3
  <2> QED BY <2>5, <2>6, <2>7, <2>8
\* A step that takes away.
<1>h. ASSUME blame \subseteq blame', Quiet, \A r \in ks'.rec : r \in ks.rec /\ ks'.heap[r.data] = ks.heap[r.data],
             \A j \in Key : \/ ks'.keyData[j] = NULL
                            \/ /\ ks'.keyData[j] = ks.keyData[j]
                               /\ ks'.heap[ks.keyData[j]] = ks.heap[ks.keyData[j]]
      PROVE  Quiet /\ Held /\ Own /\ Kept
  <2>1. Held
    BY <1>b, <1>h
  <2>2. Own
    BY <1>b, <1>h
  <2>3. Kept
    BY <1>b, <1>h
  <2> QED BY <1>h, <2>1, <2>2, <2>3
<1>1. ASSUME NEW k \in Key, KeyLoading(k) PROVE Quiet /\ Held /\ Own /\ Kept
  <2>1. /\ ks.keyData[k] = NULL /\ UNCHANGED <<issued, used, blame>>
        /\ Loads(ks, ks', k) \/ Forgets(ks, ks', k)
    BY <1>1, LoadEffect
  <2>2. CASE Loads(ks, ks', k)
    <3>1. /\ Grown(ks, ks', k) /\ ks'.fault = ks.fault /\ ks'.rec = ks.rec
          /\ ks'.keyData = [ks.keyData EXCEPT ![k] = ks.made + 1]
      BY <2>2 DEF Loads, But
    <3> QED BY <1>g, <2>1, <3>1
  <2>3. CASE Forgets(ks, ks', k)
    <3>1. /\ ks'.heap = ks.heap /\ ks'.fault = ks.fault /\ ks'.rec = ks.rec
          /\ ks'.keyData = [ks.keyData EXCEPT ![k] = NULL]
      BY <2>3 DEF Forgets, But
    <3>2. Quiet
      BY <1>b, <2>1, <3>1
    <3>3. \A j \in Key : ks'.keyData[j] = NULL \/ ks'.keyData[j] = ks.keyData[j]
      BY <1>0, <3>1
    <3> QED BY <1>h, <2>1, <3>1, <3>2, <3>3
  <2> QED BY <2>1, <2>2, <2>3
<1>2. ASSUME NEW k \in Key, TestRegisterPrivateKey(k) PROVE Quiet /\ Held /\ Own /\ Kept
  <2>1. PICK m \in BOOLEAN : Registers(k, m)
    BY <1>2, RegisterEffect
  <2>2. blame \subseteq blame' /\ m
    BY <2>1 DEF Registers, When
  <2>3. CASE Known(ks, ks', k)
    <3>1. ks'.heap = ks.heap /\ ks'.fault = ks.fault /\ ks'.rec = ks.rec /\ ks'.keyData = ks.keyData
      BY <2>3 DEF Known, But
    <3>2. Quiet
      BY <1>b, <2>2, <3>1
    <3> QED BY <1>h, <2>2, <3>1, <3>2
  <2>4. CASE Dead(ks, ks', k)
    BY <1>b, <2>2, <2>4 DEF Dead
  <2>5. CASE Once(ks, ks', k)
    <3>1. PICK i \in Slot : i = SlotOf(AsnOf[k])
      BY <2>5, SlotOfKey DEF Once
    <3>2. PICK R, s : R = ks.rec \cup {NewRecord(ks, k)} /\ s = ks'
      OBVIOUS
    <3>3. Enters(ks, s, k, i, R) /\ ks.keyData[k] # NULL
      BY <2>5, <3>1, <3>2 DEF Once
    <3>4. Grown(ks, s, k) /\ s.keyData = ks.keyData /\ s.fault = ks.fault /\ s.rec = R
      BY <1>0, <3>3, EnteredSlots
    <3>5. NewRecord(ks, k).data = ks.keyData[k]
      BY DEF NewRecord
    <3>6. \A r \in ks'.rec : r \in ks.rec \/ (ks.keyData[k] # NULL /\ r.data = ks.keyData[k])
      BY <3>2, <3>3, <3>4, <3>5
    <3> QED BY <1>g, <2>2, <3>2, <3>4, <3>6
  <2> QED BY <2>1, <2>2, <2>3, <2>4, <2>5 DEF Registers
<1>3. ASSUME NEW k \in Key, RegisterPublicKey(k) PROVE Quiet /\ Held /\ Own /\ Kept
  <2>1. /\ blame \subseteq blame'
        /\ \/ ks' \in Store /\ But(ks, ks', {"ret"})
           \/ Stale(ks, ks')
           \/ ks.keyData[k] = NULL /\ Loads(ks, ks', k)
           \/ ks.keyData[k] # NULL /\ Records(ks, ks', k)
    BY <1>3, PublicEffect
  <2>2. CASE But(ks, ks', {"ret"})
    <3>1. ks'.heap = ks.heap /\ ks'.fault = ks.fault /\ ks'.rec = ks.rec /\ ks'.keyData = ks.keyData
      BY <2>2 DEF But
    <3>2. Quiet
      BY <1>b, <2>1, <3>1
    <3> QED BY <1>h, <2>1, <3>1, <3>2
  <2>3. CASE Stale(ks, ks')
    BY <1>b, <2>1, <2>3 DEF Stale
  <2>4. CASE Loads(ks, ks', k)
    <3>1. /\ Grown(ks, ks', k) /\ ks'.fault = ks.fault /\ ks'.rec = ks.rec
          /\ ks'.keyData = [ks.keyData EXCEPT ![k] = ks.made + 1]
      BY <2>4 DEF Loads, But
    <3> QED BY <1>g, <2>1, <3>1
  <2>5. CASE ks.keyData[k] # NULL /\ Records(ks, ks', k)
    <3>1. Grown(ks, ks', k) /\ ks'.fault = ks.fault /\ ks'.keyData = ks.keyData
      BY <2>5 DEF Records, But
    <3>2. ks'.rec \subseteq ks.rec \cup {NewRecord(ks, k)}
      BY <2>5 DEF Records
    <3>3. NewRecord(ks, k).data = ks.keyData[k]
      BY DEF NewRecord
    <3>4. \A r \in ks'.rec : r \in ks.rec \/ (ks.keyData[k] # NULL /\ r.data = ks.keyData[k])
      BY <2>5, <3>2, <3>3
    <3> QED BY <1>g, <2>1, <3>1, <3>4
  <2> QED BY <2>1, <2>2, <2>3, <2>4, <2>5
<1>4. ASSUME NEW k \in Key, TestSignWithID(k) PROVE Quiet /\ Held /\ Own /\ Kept
  <2>1. /\ blame \subseteq blame' /\ issued[k] - 1 \in Slot
        /\ \/ ks' \in Store /\ But(ks, ks', {"ret"})
           \/ ks' \in Store /\ But(ks, ks', {"fault"}) /\ ks'.fault = "stale_key"
           \/ "sign_failed" \in blame' /\ Spoils(ks, ks', issued[k] - 1)
    BY <1>4, SignEffect
  <2>2. ks'.rec = ks.rec /\ ks'.keyData = ks.keyData /\ (ks'.fault = ks.fault \/ ks'.fault = "stale_key")
    BY <2>1 DEF But, Spoils
  <2>3. Quiet
    BY <1>b, <2>1, <2>2
  <2>4. CASE But(ks, ks', {"ret"}) \/ But(ks, ks', {"fault"})
    <3>1. ks'.heap = ks.heap
      BY <2>4 DEF But
    <3> QED BY <1>h, <2>1, <2>2, <2>3, <3>1
  <2>5. CASE Spoils(ks, ks', issued[k] - 1)
    <3>1. PICK i \in Slot : i = issued[k] - 1
      BY <2>1
    <3>2. ks.slot[i].ec_key # NULL /\ \A p \in Obj : p # ks.slot[i].ec_key => ks'.heap[p] = ks.heap[p]
      BY <2>5, <3>1 DEF Spoils
    <3>3. ASSUME NEW r \in ks.rec PROVE ks'.heap[r.data] = ks.heap[r.data]
      <4>1. r.data \in Obj
        BY <1>0, Pointers
      <4>2. r.data # ks.slot[i].ec_key
        BY <1>0 DEF Well, Filed
      <4> QED BY <3>2, <4>1, <4>2
    <3>4. ASSUME NEW j \in Key, ks.keyData[j] # NULL PROVE ks'.heap[ks.keyData[j]] = ks.heap[ks.keyData[j]]
      <4>1. ks.keyData[j] \in Obj
        BY <1>0, <3>4
      <4>2. ks.keyData[j] # ks.slot[i].ec_key
        BY <1>0, <3>2 DEF Well, Filed
      <4> QED BY <3>2, <4>1, <4>2
    <3> QED BY <1>h, <2>1, <2>2, <2>3, <3>3, <3>4
  <2> QED BY <2>1, <2>4, <2>5
<1>5. ASSUME NEW k \in Key, TestUnregisterKey(k) PROVE FALSE
  BY <1>5 DEF TestUnregisterKey
<1>6. ASSUME NEW k \in Key, UnregisterPrivateKey(k) PROVE Quiet /\ Held /\ Own /\ Kept
  <2>1. Going /\ issued[k] # 0
    BY <1>6 DEF UnregisterPrivateKey
  <2>2. PICK i \in Slot, u \in Store :
          /\ Unfiles(k, i, u)
          /\ Forgets(u, ks', k) \/ ("program_freed" \in blame' /\ Drops(u, ks', k))
    BY <1>6, UnfileEffect
  <2>3. /\ After(ks, u, i) /\ blame \subseteq blame' /\ i = issued[k] - 1 /\ Forgets(u, ks', k)
        /\ \A r \in u.rec : r.data # ks.slot[i].en_buf
    BY <2>2 DEF Unfiles
  <2>4. /\ ks'.heap = u.heap /\ ks'.fault = u.fault /\ ks'.rec = u.rec
        /\ ks'.keyData = [ks.keyData EXCEPT ![k] = NULL]
    BY <2>3 DEF Forgets, But, After
  <2>5. k \in used /\ i = SlotOf(AsnOf[k])
    <3>1. k \in used /\ AsnOf[k] # 0 /\ issued[k] = SlotOf(AsnOf[k]) + 1
      BY <1>a, <2>1, <2>3
    <3>2. PICK n \in Nat : n = SlotOf(AsnOf[k])
      BY <3>1, SlotOfKey, KeyNumbers
    <3>3. (n + 1) - 1 = n
      OBVIOUS
    <3> QED BY <2>3, <3>1, <3>2, <3>3
  <2>6. ks.slot[i].ec_key # NULL => ks.keyData[k] = ks.slot[i].en_buf /\ ks.keyData[k] # NULL
    <3>1. ASSUME ks.slot[i].ec_key # NULL PROVE ks.keyData[k] = ks.slot[i].en_buf
      <4>1. PICK j \in used : Owns(j, i)
        BY <1>a, <2>3, <3>1
      <4>2. SlotOf(AsnOf[j]) = i
        BY <4>1 DEF Owns
      <4>3. j = k
        BY <1>a, <2>3, <2>5, <4>2
      <4> QED BY <1>a, <2>3, <4>1, <4>3 DEF Owns
    <3>2. ks.slot[i].ec_key # NULL => ks.slot[i].en_buf # NULL
      BY <1>0, EmptyIsEntry DEF Well, Filed
    <3> QED BY <3>1, <3>2
  <2>7. Quiet
    <3>1. u.fault \in {"none", "key_twice", "buffer_twice"}
          /\ (u.fault = "buffer_twice" => ks.slot[i].ec_key # NULL /\ ks.heap[ks.slot[i].en_buf] = "freed")
      BY <2>3 DEF After
    <3>2. u.fault # "buffer_twice"
      BY <1>b, <2>3, <2>6, <3>1
    <3> QED BY <2>4, <3>1, <3>2
  <2>8. \A p \in Obj : p # ks.slot[i].ec_key /\ p # ks.slot[i].en_buf => ks'.heap[p] = ks.heap[p]
    BY <2>3, <2>4 DEF After
  <2>9. ASSUME NEW r \in ks'.rec PROVE r \in ks.rec /\ ks'.heap[r.data] = ks.heap[r.data]
    <3>1. r \in ks.rec /\ r.data # ks.slot[i].en_buf
      BY <2>3, <2>4 DEF After
    <3>2. r.data \in Obj
      BY <1>0, <3>1, Pointers
    <3>3. r.data # ks.slot[i].ec_key
      BY <1>0, <3>1 DEF Well, Filed
    <3> QED BY <2>8, <3>1, <3>2, <3>3
  <2>10. ASSUME NEW j \in Key, ks'.keyData[j] # NULL
         PROVE  ks'.keyData[j] = ks.keyData[j] /\ ks'.heap[ks.keyData[j]] = ks.heap[ks.keyData[j]]
    <3>1. j # k /\ ks'.keyData[j] = ks.keyData[j]
      BY <1>0, <2>4, <2>10
    <3>2. ks.keyData[j] \in Obj /\ ks.keyData[j] # NULL
      BY <1>0, <2>10, <3>1
    <3>3. ks.keyData[j] # ks.slot[i].ec_key
      BY <1>0, <3>2 DEF Well, Filed
    <3>4. ks.keyData[j] # ks.slot[i].en_buf
      <4>1. CASE ks.slot[i].ec_key # NULL
        BY <1>b, <2>3, <2>6, <3>1, <3>2, <4>1
      <4>2. CASE ks.slot[i].ec_key = NULL
        BY <1>0, <3>2, <4>2, EmptyIsEntry DEF Well, Filed
      <4> QED BY <4>1, <4>2
    <3> QED BY <2>8, <3>1, <3>2, <3>3, <3>4
  <2> QED BY <1>h, <2>3, <2>7, <2>9, <2>10
<1>7. ASSUME NEW k \in Key, UnregisterKey(k) PROVE Quiet /\ Held /\ Own /\ Kept
  <2>1. /\ UNCHANGED <<issued, used, blame>>
        /\ But(ks, ks', {"ret"}) \/ (But(ks, ks', {"fault"}) /\ ks'.fault = "wrong_type")
    BY <1>7, UnregisterEffect
  <2>2. ks'.heap = ks.heap /\ ks'.rec = ks.rec /\ ks'.keyData = ks.keyData
        /\ (ks'.fault = ks.fault \/ ks'.fault = "wrong_type")
    BY <2>1 DEF But
  <2>3. Quiet
    BY <1>b, <2>1, <2>2
  <2> QED BY <1>h, <2>1, <2>2, <2>3
<1>8. ASSUME NEW k \in Key, ProgramFrees(k) PROVE FALSE
  BY <1>8 DEF ProgramFrees
<1>9. ASSUME MainUnregister PROVE Quiet /\ Held /\ Own /\ Kept
  <2>1. /\ blame \subseteq blame'
        /\ \/ ks' \in Store /\ But(ks, ks', {"fault"}) /\ ks'.fault = "no_slot"
           \/ \E i \in Slot : i = IdModulus - 1 /\ After(ks, ks', i)
    BY <1>9, MainEffect
  <2>2. CASE But(ks, ks', {"fault"}) /\ ks'.fault = "no_slot"
    <3>1. ks'.heap = ks.heap /\ ks'.rec = ks.rec /\ ks'.keyData = ks.keyData
      BY <2>2 DEF But
    <3>2. Quiet
      BY <2>2
    <3> QED BY <1>h, <2>1, <3>1, <3>2
  <2>3. CASE \E i \in Slot : i = IdModulus - 1 /\ After(ks, ks', i)
    <3>1. PICK i \in Slot : i = IdModulus - 1 /\ After(ks, ks', i)
      BY <2>3
    <3>2. ReturnedId(i) = 0
      BY <3>1, Ids
    <3>3. ks.slot[i].ec_key = NULL /\ ks.slot[i].en_buf = NULL
      <4>1. ks.slot[i].ec_key = NULL
        BY <1>a, <2>1, <3>2
      <4> QED BY <1>0, <4>1, EmptyIsEntry DEF Well, Filed
    <3>4. Quiet
      BY <3>1, <3>3 DEF After
    <3>5. ks'.keyData = ks.keyData /\ ks'.rec \subseteq ks.rec /\ \A p \in Obj : ks'.heap[p] = ks.heap[p]
      BY <3>1, <3>3, KeyNumbers DEF After
    <3>6. \A r \in ks'.rec : r \in ks.rec /\ r.data \in Obj
      BY <1>0, <3>5, Pointers
    <3>7. \A j \in Key : ks.keyData[j] = NULL \/ ks.keyData[j] \in Obj
      BY <1>0
    <3> QED BY <1>h, <2>1, <3>4, <3>5, <3>6, <3>7
  <2> QED BY <2>1, <2>2, <2>3
<1> HIDE DEF Quiet, Held, Own, Kept
<1> QED BY <1>1, <1>2, <1>3, <1>4, <1>5, <1>6, <1>7, <1>8, <1>9 DEF Calls

LEMMA RecordsStep == KsTypes /\ Apart /\ RecordsFiled /\ Calls => RecordsFiled'
<1> DEFINE Files(r) == \E k \in used' : /\ AsnOf[k] # 0 /\ r.asn = AsnOf[k] /\ r.ski = SkiOf[k]
                                        /\ ks'.slot[SlotOf(AsnOf[k])].ec_key # NULL
                                        /\ ks'.slot[SlotOf(AsnOf[k])].en_buf = r.data
           Single == \A q, r \in ks'.rec : q.asn = r.asn => q = r
           Stands == \A k \in Key : issued'[k] # 0 => ks'.slot[SlotOf(AsnOf[k])].ec_key # NULL
<1> SUFFICES ASSUME KsTypes, Apart, RecordsFiled, Calls, Going', blame' \subseteq {"program_freed", "id_zero"}
             PROVE  (\A r \in ks'.rec : Files(r)) /\ Single /\ Stands
  BY DEF RecordsFiled
<1>0. /\ Well(ks) /\ issued \in [Key -> 0 .. IdModulus - 1] /\ used \subseteq Key
  BY DEF KsTypes
<1>b. ASSUME Going, blame \subseteq blame'
      PROVE  /\ \A r \in ks.rec : \E k \in used : 
                  /\ AsnOf[k] # 0 /\ r.asn = AsnOf[k] /\ r.ski = SkiOf[k]
                  /\ ks.slot[SlotOf(AsnOf[k])].ec_key # NULL
                  /\ ks.slot[SlotOf(AsnOf[k])].en_buf = r.data
             /\ \A q, r \in ks.rec : q.asn = r.asn => q = r
             /\ \A k \in Key : issued[k] # 0 => ks.slot[SlotOf(AsnOf[k])].ec_key # NULL
  <2>1. blame \subseteq {"program_freed", "id_zero"}
    BY <1>b
  <2> QED BY <1>b, <2>1 DEF RecordsFiled
<1>a. ASSUME Going, blame \subseteq blame'
      PROVE  /\ \A j, k \in used : j # k => SlotOf(AsnOf[j]) # SlotOf(AsnOf[k])
             /\ \A k \in Key : issued[k] # 0 =>
                  k \in used /\ AsnOf[k] # 0 /\ issued[k] = SlotOf(AsnOf[k]) + 1
  <2>1. blame \cap {"shared_slot", "no_memory"} = {}
    BY <1>a
  <2> QED BY <1>a, <2>1 DEF Apart
<1>g. ASSUME Going, blame \subseteq blame', ks'.rec = ks.rec, ks'.slot = ks.slot, used \subseteq used', issued' = issued
      PROVE  (\A r \in ks'.rec : Files(r)) /\ Single /\ Stands
  <2>1. ASSUME NEW r \in ks'.rec PROVE Files(r)
    BY <1>b, <1>g
  <2>2. Single
    BY <1>b, <1>g
  <2>3. Stands
    BY <1>b, <1>g
  <2> QED BY <2>1, <2>2, <2>3
\* A slot is emptied, with the records of its buffer.
<1>h. ASSUME Going, blame \subseteq blame', NEW i \in Slot, ks'.rec \subseteq ks.rec, used' = used,
             \A j \in Slot : j # i => ks'.slot[j] = ks.slot[j],
             \A r \in ks'.rec : r.data # ks.slot[i].en_buf,
             \A j \in Key : issued'[j] # 0 => issued[j] # 0 /\ SlotOf(AsnOf[j]) # i
      PROVE  (\A r \in ks'.rec : Files(r)) /\ Single /\ Stands
  <2>1. ASSUME NEW r \in ks'.rec PROVE Files(r)
    <3>1. PICK k \in used : /\ AsnOf[k] # 0 /\ r.asn = AsnOf[k] /\ r.ski = SkiOf[k]
                            /\ ks.slot[SlotOf(AsnOf[k])].ec_key # NULL
                            /\ ks.slot[SlotOf(AsnOf[k])].en_buf = r.data
      BY <1>b, <1>h
    <3>2. SlotOf(AsnOf[k]) \in Slot /\ SlotOf(AsnOf[k]) # i
      BY <1>0, <1>h, <3>1, SlotOfKey
    <3>3. ks'.slot[SlotOf(AsnOf[k])] = ks.slot[SlotOf(AsnOf[k])]
      BY <1>h, <3>2
    <3> QED BY <1>h, <3>1, <3>3
  <2>2. Single
    BY <1>b, <1>h
  <2>3. ASSUME NEW j \in Key, issued'[j] # 0 PROVE ks'.slot[SlotOf(AsnOf[j])].ec_key # NULL
    <3>1. issued[j] # 0 /\ SlotOf(AsnOf[j]) # i
      BY <1>h, <2>3
    <3>2. AsnOf[j] # 0
      BY <1>a, <1>h, <3>1
    <3>3. SlotOf(AsnOf[j]) \in Slot
      BY <3>2, SlotOfKey
    <3> QED BY <1>b, <1>h, <3>1, <3>3
  <2> QED BY <2>1, <2>2, <2>3
<1>1. ASSUME NEW k \in Key, KeyLoading(k) PROVE (\A r \in ks'.rec : Files(r)) /\ Single /\ Stands
  <2>1. Going /\ UNCHANGED <<issued, used, blame>> /\ (Loads(ks, ks', k) \/ Forgets(ks, ks', k))
    BY <1>1, LoadEffect
  <2>2. ks'.rec = ks.rec /\ ks'.slot = ks.slot
    BY <2>1 DEF Loads, Forgets, But
  <2> QED BY <1>g, <2>1, <2>2
<1>2. ASSUME NEW k \in Key, TestRegisterPrivateKey(k)
      PROVE  (\A r \in ks'.rec : Files(r)) /\ Single /\ Stands
  <2>1. PICK m \in BOOLEAN : Going /\ ks' \in Store /\ Registers(k, m)
    BY <1>2, RegisterEffect
  <2>2. /\ blame \subseteq blame' /\ m /\ ~Clash(k)
        /\ issued' = [issued EXCEPT ![k] = ks'.ret] /\ used' = used \cup {k}
    BY <2>1 DEF Registers, When
  <2>3. CASE Known(ks, ks', k)
    <3>1. ks'.rec = ks.rec /\ ks'.slot = ks.slot
      BY <2>3 DEF Known, But
    <3>2. ASSUME NEW r \in ks'.rec PROVE Files(r)
      BY <1>b, <2>1, <2>2, <3>1
    <3>3. Single
      BY <1>b, <2>1, <2>2, <3>1
    <3>4. ASSUME NEW j \in Key, issued'[j] # 0 PROVE ks'.slot[SlotOf(AsnOf[j])].ec_key # NULL
      <4>1. CASE j # k
        BY <1>0, <1>b, <2>1, <2>2, <3>1, <3>4, <4>1
      <4>2. CASE j = k
        <5>1. ks'.ret # 0
          BY <1>0, <2>2, <3>4, <4>2
        <5>2. restoreKeyInfo(ks, k) # {}
          BY <2>3, <5>1 DEF Known
        <5>3. PICK r \in ks.rec : r.asn = AsnOf[k]
          BY <5>2 DEF restoreKeyInfo
        <5>4. PICK g \in used : AsnOf[g] = AsnOf[k] /\ ks.slot[SlotOf(AsnOf[g])].ec_key # NULL
          BY <1>b, <2>1, <2>2, <5>3
        <5> QED BY <3>1, <4>2, <5>4
      <4> QED BY <4>1, <4>2
    <3> QED BY <3>2, <3>3, <3>4
  <2>4. CASE Dead(ks, ks', k)
    BY <2>4 DEF Dead, Going
  <2>5. CASE Once(ks, ks', k)
    <3>1. PICK i \in Slot : i = SlotOf(AsnOf[k])
      BY <2>5, SlotOfKey DEF Once
    <3>2. PICK R, s : R = ks.rec \cup {NewRecord(ks, k)} /\ s = ks'
      OBVIOUS
    <3>3. Enters(ks, s, k, i, R) /\ restoreKeyInfo(ks, k) = {} /\ AsnOf[k] # 0
      BY <2>5, <3>1, <3>2 DEF Once
    <3>4. /\ Grown(ks, s, k) /\ s.rec = R
          /\ s.slot[i].ec_key = ks.made + 1 /\ s.slot[i].en_buf = ks.keyData[k]
          /\ \A j \in Slot : j # i => s.slot[j] = ks.slot[j]
      BY <1>0, <3>3, EnteredSlots
    <3>5. ks.made + 1 # NULL
      BY <1>0, <3>4, NewObject
    <3>6. NewRecord(ks, k).data = ks.keyData[k] /\ NewRecord(ks, k).asn = AsnOf[k] /\ NewRecord(ks, k).ski = SkiOf[k]
      BY DEF NewRecord
    \* The key had no record: one of its AS number would be the only one, and its own.
    <3>7. ASSUME NEW r \in ks.rec, NEW g \in used, r.asn = AsnOf[g], r.ski = SkiOf[g], AsnOf[g] # 0
          PROVE  SlotOf(AsnOf[g]) # i /\ r.asn # AsnOf[k]
      <4>1. ASSUME SlotOf(AsnOf[g]) = i PROVE FALSE
        <5>1. g = k
          BY <2>2, <3>1, <4>1 DEF Clash
        <5>2. r.no <= r.no
          BY <1>0, Pointers
        <5>3. \A q \in ks.rec : q.asn = r.asn => q.no <= r.no
          BY <1>b, <2>1, <2>2, <5>2
        <5>4. r \in restoreKeyInfo(ks, k)
          BY <3>7, <5>1, <5>3 DEF restoreKeyInfo
        <5> QED BY <3>3, <5>4
      <4> QED BY <3>1, <3>7, <4>1
    <3>8. ASSUME NEW r \in ks.rec PROVE Files(r) /\ r.asn # AsnOf[k]
      <4>1. PICK g \in used : /\ AsnOf[g] # 0 /\ r.asn = AsnOf[g] /\ r.ski = SkiOf[g]
                              /\ ks.slot[SlotOf(AsnOf[g])].ec_key # NULL
                              /\ ks.slot[SlotOf(AsnOf[g])].en_buf = r.data
        BY <1>b, <2>1, <2>2
      <4>2. SlotOf(AsnOf[g]) # i /\ r.asn # AsnOf[k] /\ SlotOf(AsnOf[g]) \in Slot
        BY <1>0, <3>7, <4>1, SlotOfKey
      <4>3. ks'.slot[SlotOf(AsnOf[g])] = ks.slot[SlotOf(AsnOf[g])]
        BY <3>2, <3>4, <4>2
      <4> QED BY <2>2, <4>1, <4>2, <4>3
    <3>9. Files(NewRecord(ks, k))
      <4>1. ks'.slot[SlotOf(AsnOf[k])].ec_key # NULL /\ ks'.slot[SlotOf(AsnOf[k])].en_buf = ks.keyData[k]
        BY <3>1, <3>2, <3>4, <3>5
      <4> QED BY <2>2, <3>3, <3>6, <4>1
    <3>10. \A r \in ks'.rec : r \in ks.rec \/ r = NewRecord(ks, k)
      BY <3>2, <3>4
    <3>11. \A r \in ks'.rec : Files(r)
      BY <3>8, <3>9, <3>10
    <3>12. Single
      <4>1. ASSUME NEW q \in ks'.rec, NEW r \in ks'.rec, q.asn = r.asn PROVE q = r
        BY <1>b, <2>1, <2>2, <3>6, <3>8, <3>10, <4>1
      <4> QED BY <4>1
    <3>13. ASSUME NEW j \in Key, issued'[j] # 0 PROVE ks'.slot[SlotOf(AsnOf[j])].ec_key # NULL
      <4>1. CASE SlotOf(AsnOf[j]) = i
        BY <3>2, <3>4, <3>5, <4>1
      <4>2. CASE SlotOf(AsnOf[j]) # i
        <5>1. j # k /\ issued[j] # 0
          BY <1>0, <2>2, <3>1, <3>13, <4>2
        <5>2. AsnOf[j] # 0 /\ ks.slot[SlotOf(AsnOf[j])].ec_key # NULL
          BY <1>a, <1>b, <2>1, <2>2, <5>1
        <5>3. SlotOf(AsnOf[j]) \in Slot
          BY <5>2, SlotOfKey
        <5> QED BY <3>2, <3>4, <4>2, <5>2, <5>3
      <4> QED BY <4>1, <4>2
    <3> QED BY <3>11, <3>12, <3>13
  <2> QED BY <2>1, <2>2, <2>3, <2>4, <2>5 DEF Registers
<1>3. ASSUME NEW k \in Key, RegisterPublicKey(k) PROVE FALSE
  BY <1>3, PublicEffect
<1>4. ASSUME NEW k \in Key, TestSignWithID(k) PROVE (\A r \in ks'.rec : Files(r)) /\ Single /\ Stands
  <2>1. Going /\ UNCHANGED <<issued, used>> /\ blame \subseteq blame'
        /\ ks'.rec = ks.rec /\ ks'.slot = ks.slot
    BY <1>4, SignEffect DEF But, Spoils
  <2> QED BY <1>g, <2>1
<1>5. ASSUME NEW k \in Key, TestUnregisterKey(k) \/ UnregisterPrivateKey(k)
      PROVE  (\A r \in ks'.rec : Files(r)) /\ Single /\ Stands
  <2>1. Going /\ issued[k] # 0
    BY <1>5 DEF TestUnregisterKey, UnregisterPrivateKey
  <2>2. PICK i \in Slot, u \in Store :
          /\ Unfiles(k, i, u)
          /\ Forgets(u, ks', k) \/ ("program_freed" \in blame' /\ Drops(u, ks', k))
    BY <1>5, UnfileEffect
  <2>3. /\ After(ks, u, i) /\ issued' = [issued EXCEPT ![k] = 0] /\ used' = used
        /\ blame \subseteq blame' /\ i = issued[k] - 1
        /\ \A r \in u.rec : r.data # ks.slot[i].en_buf
    BY <2>2 DEF Unfiles
  <2>4. ks'.slot = u.slot /\ ks'.rec = u.rec
    BY <2>2 DEF Forgets, Drops, But
  <2>5. ks'.rec \subseteq ks.rec /\ \A j \in Slot : j # i => ks'.slot[j] = ks.slot[j]
    BY <2>3, <2>4 DEF After
  <2>6. k \in used /\ i = SlotOf(AsnOf[k])
    <3>1. k \in used /\ AsnOf[k] # 0 /\ issued[k] = SlotOf(AsnOf[k]) + 1
      BY <1>a, <2>1, <2>3
    <3>2. PICK n \in Nat : n = SlotOf(AsnOf[k])
      BY <3>1, SlotOfKey, KeyNumbers
    <3>3. (n + 1) - 1 = n
      OBVIOUS
    <3> QED BY <2>3, <3>1, <3>2, <3>3
  <2>7. ASSUME NEW j \in Key, issued'[j] # 0 PROVE issued[j] # 0 /\ SlotOf(AsnOf[j]) # i
    <3>1. j # k /\ issued[j] # 0
      BY <1>0, <2>3, <2>7
    <3>2. j \in used
      BY <1>a, <2>1, <2>3, <3>1
    <3> QED BY <1>a, <2>1, <2>3, <2>6, <3>1, <3>2
  <2> QED BY <1>h, <2>1, <2>3, <2>4, <2>5, <2>7
<1>6. ASSUME NEW k \in Key, UnregisterKey(k) PROVE (\A r \in ks'.rec : Files(r)) /\ Single /\ Stands
  <2>1. Going /\ UNCHANGED <<issued, used, blame>> /\ ks'.rec = ks.rec /\ ks'.slot = ks.slot
    BY <1>6, UnregisterEffect DEF But
  <2> QED BY <1>g, <2>1
<1>7. ASSUME NEW k \in Key, ProgramFrees(k) PROVE (\A r \in ks'.rec : Files(r)) /\ Single /\ Stands
  <2>1. Going /\ UNCHANGED <<issued, used>> /\ blame \subseteq blame'
        /\ ks'.rec = ks.rec /\ ks'.slot = ks.slot
    BY <1>7, FreesEffect DEF But, Drops
  <2> QED BY <1>g, <2>1
<1>8. ASSUME MainUnregister PROVE (\A r \in ks'.rec : Files(r)) /\ Single /\ Stands
  <2>1. /\ Going /\ UNCHANGED <<issued, used>> /\ blame \subseteq blame'
        /\ \/ ks'.fault = "no_slot"
           \/ \E i \in Slot : /\ i = IdModulus - 1 /\ After(ks, ks', i)
                              /\ "record_stays" \notin blame' =>
                                   \A r \in ks'.rec : r.data # ks.slot[i].en_buf
    BY <1>8, MainEffect
  <2>2. ks'.fault # "no_slot"
    BY DEF Going
  <2>3. PICK i \in Slot : /\ i = IdModulus - 1 /\ After(ks, ks', i)
                          /\ \A r \in ks'.rec : r.data # ks.slot[i].en_buf
    BY <2>1, <2>2
  <2>4. ks'.rec \subseteq ks.rec /\ \A j \in Slot : j # i => ks'.slot[j] = ks.slot[j]
    BY <2>3 DEF After
  <2>5. ASSUME NEW j \in Key, issued'[j] # 0 PROVE issued[j] # 0 /\ SlotOf(AsnOf[j]) # i
    <3>1. issued[j] # 0
      BY <2>1, <2>5
    <3>2. AsnOf[j] # 0 /\ issued[j] = SlotOf(AsnOf[j]) + 1
      BY <1>a, <2>1, <3>1
    <3>3. PICK n \in Nat : n = SlotOf(AsnOf[j])
      BY <3>2, SlotOfKey, KeyNumbers
    <3>4. PICK v \in 0 .. IdModulus - 1 : v = issued[j]
      BY <1>0
    <3>5. n # IdModulus - 1
      BY <3>2, <3>3, <3>4, KeyNumbers
    <3> QED BY <2>3, <3>1, <3>3, <3>5
  <2> QED BY <1>h, <2>1, <2>3, <2>4, <2>5
<1> HIDE DEF Files, Single, Stands
<1> QED BY <1>1, <1>2, <1>3, <1>4, <1>5, <1>6, <1>7, <1>8 DEF Calls

\* A call that returns does not follow a pointer that points nowhere.
Tame(f) == f \notin {"wild_free", "null_write", "freed_record"}

LEMMA TameStep == KsTypes /\ Calls => Tame(ks'.fault)
<1> SUFFICES ASSUME KsTypes, Calls PROVE Tame(ks'.fault)
  OBVIOUS
<1>0. ASSUME Going, ks'.fault = ks.fault PROVE Tame(ks'.fault)
  BY <1>0 DEF Going, Tame
<1>1. ASSUME NEW k \in Key, KeyLoading(k) PROVE Tame(ks'.fault)
  <2>1. Going /\ (Loads(ks, ks', k) \/ Forgets(ks, ks', k))
    BY <1>1, LoadEffect
  <2>2. ks'.fault = ks.fault
    BY <2>1 DEF Loads, Forgets, But
  <2> QED BY <1>0, <2>1, <2>2
<1>2. ASSUME NEW k \in Key, TestRegisterPrivateKey(k) PROVE Tame(ks'.fault)
  <2>1. PICK m \in BOOLEAN : Going /\ Registers(k, m)
    BY <1>2, RegisterEffect
  <2>2. CASE Dead(ks, ks', k)
    BY <2>2 DEF Dead, Tame
  <2>3. CASE Known(ks, ks', k) \/ Once(ks, ks', k)
    <3>1. ks'.fault = ks.fault
      BY <2>3 DEF Known, Once, Enters, But
    <3> QED BY <1>0, <2>1, <3>1
  <2>4. CASE Twice(ks, ks', k)
    <3>1. PICK u : Enters(ks, u, k, 0, ks.rec) /\ Enters(u, ks', k, 0, u.rec)
      BY <2>4 DEF Twice
    <3>2. ks'.fault = ks.fault
      BY <3>1 DEF Enters, But
    <3> QED BY <1>0, <2>1, <3>2
  <2> QED BY <2>1, <2>2, <2>3, <2>4 DEF Registers
<1>3. ASSUME NEW k \in Key, RegisterPublicKey(k) PROVE Tame(ks'.fault)
  <2>1. /\ Going
        /\ But(ks, ks', {"ret"}) \/ Stale(ks, ks') \/ Loads(ks, ks', k) \/ Records(ks, ks', k)
    BY <1>3, PublicEffect
  <2>2. CASE Stale(ks, ks')
    BY <2>2 DEF Stale, Tame
  <2>3. CASE But(ks, ks', {"ret"}) \/ Loads(ks, ks', k) \/ Records(ks, ks', k)
    <3>1. ks'.fault = ks.fault
      BY <2>3 DEF Loads, Records, But
    <3> QED BY <1>0, <2>1, <3>1
  <2> QED BY <2>1, <2>2, <2>3
<1>4. ASSUME NEW k \in Key, TestSignWithID(k) PROVE Tame(ks'.fault)
  <2>1. /\ Going
        /\ But(ks, ks', {"ret"}) \/ ks'.fault = "stale_key" \/ Spoils(ks, ks', issued[k] - 1)
    BY <1>4, SignEffect
  <2>2. CASE ks'.fault = "stale_key"
    BY <2>2 DEF Tame
  <2>3. CASE But(ks, ks', {"ret"}) \/ Spoils(ks, ks', issued[k] - 1)
    <3>1. ks'.fault = ks.fault
      BY <2>3 DEF Spoils, But
    <3> QED BY <1>0, <2>1, <3>1
  <2> QED BY <2>1, <2>2, <2>3
<1>5. ASSUME NEW k \in Key, TestUnregisterKey(k) \/ UnregisterPrivateKey(k) PROVE Tame(ks'.fault)
  <2>1. PICK i \in Slot, u \in Store :
          Unfiles(k, i, u) /\ (Forgets(u, ks', k) \/ Drops(u, ks', k))
    BY <1>5, UnfileEffect
  <2>2. u.fault \in {"none", "key_twice", "buffer_twice"}
    BY <2>1 DEF Unfiles, After
  <2>3. ks'.fault \in {u.fault, "buffer_twice"}
    BY <2>1 DEF Forgets, Drops, But
  <2> QED BY <2>2, <2>3 DEF Tame
<1>6. ASSUME NEW k \in Key, UnregisterKey(k) PROVE Tame(ks'.fault)
  <2>1. Going /\ (But(ks, ks', {"ret"}) \/ ks'.fault = "wrong_type")
    BY <1>6, UnregisterEffect
  <2>2. ks'.fault = ks.fault \/ ks'.fault = "wrong_type"
    BY <2>1 DEF But
  <2> QED BY <1>0, <2>1, <2>2 DEF Tame
<1>7. ASSUME NEW k \in Key, ProgramFrees(k) PROVE Tame(ks'.fault)
  <2>1. Going /\ Drops(ks, ks', k)
    BY <1>7, FreesEffect
  <2>2. ks'.fault \in {ks.fault, "buffer_twice"}
    BY <2>1 DEF Drops
  <2> QED BY <1>0, <2>1, <2>2 DEF Tame
<1>8. ASSUME MainUnregister PROVE Tame(ks'.fault)
  <2>1. ks'.fault = "no_slot" \/ \E i \in Slot : After(ks, ks', i)
    BY <1>8, MainEffect
  <2> QED BY <2>1 DEF After, Tame
<1> QED BY <1>1, <1>2, <1>3, <1>4, <1>5, <1>6, <1>7, <1>8 DEF Calls

\* A step that ends in undefined behaviour changes the store in nothing but the fault.
Dies == UnregistrationDies \/ \E k \in Key : RegistrationDies(k)

LEMMA DiesEffect ==
  ASSUME KsTypes, Dies
  PROVE  /\ Going /\ ~Going' /\ UNCHANGED <<issued, used>> /\ blame \subseteq blame'
         /\ ks' \in Store /\ But(ks, ks', {"fault"}) /\ ~Tame(ks'.fault)
         /\ WildAccessNeedsCause'
<1>1. ks \in Store /\ (Going => ks.fault = "none")
  BY DEF KsTypes, Well, Going
<1>2. CASE UnregistrationDies
  <2>1. /\ Going /\ ks' = Faults(ks, "freed_record") /\ UNCHANGED <<issued, used, blame>>
        /\ \E i \in Slot : DropRecords(ks, i).rec # ks.rec
    BY <1>2 DEF UnregistrationDies
  <2>2. PICK t : t = Faults(ks, "freed_record")
    OBVIOUS
  <2>3. t \in Store /\ But(ks, t, {"fault"}) /\ t.fault = "freed_record"
    <3>1. "freed_record" \in FaultName
      BY DEF FaultName
    <3> QED BY <1>1, <2>1, <2>2, <3>1, FaultsParts
  <2>4. ks' \in Store /\ But(ks, ks', {"fault"}) /\ ks'.fault = "freed_record"
    BY <2>1, <2>2, <2>3
  <2>5. PICK i \in Slot : DropRecords(ks, i).rec # ks.rec
    BY <2>1
  <2>6. DropRecords(ks, i).rec = {r \in ks.rec : ~(hashv[r.asn] % num_buckets = i /\ r.data = ks.slot[i].en_buf)}
    BY <1>1 DEF DropRecords, Store
  <2>7. PICK r \in ks.rec : hashv[r.asn] % num_buckets = i /\ r.data = ks.slot[i].en_buf
    BY <2>5, <2>6
  <2>8. ks'.rec = ks.rec /\ ks'.slot = ks.slot
    BY <2>4 DEF But
  <2>9. WildAccessNeedsCause'
    BY <2>4, <2>7, <2>8 DEF WildAccessNeedsCause
  <2> QED BY <2>1, <2>4, <2>9 DEF Going, Tame
<1>3. CASE \E k \in Key : RegistrationDies(k)
  <2>1. PICK f \in {"wild_free", "null_write"} : ks' = Faults(ks, f)
    BY <1>3 DEF RegistrationDies
  <2>2. Going /\ UNCHANGED <<issued, used>> /\ blame' = blame \cup {"no_memory"}
    BY <1>3 DEF RegistrationDies
  <2>3. PICK t : t = Faults(ks, f)
    OBVIOUS
  <2>4. t \in Store /\ But(ks, t, {"fault"}) /\ t.fault = f
    <3>1. f \in FaultName
      BY DEF FaultName
    <3> QED BY <1>1, <2>2, <2>3, <3>1, FaultsParts
  <2>5. ks' \in Store /\ But(ks, ks', {"fault"}) /\ ks'.fault = f
    BY <2>1, <2>3, <2>4
  <2> QED BY <2>2, <2>5 DEF Going, Tame, WildAccessNeedsCause
<1> QED BY <1>2, <1>3 DEF Dies

LEMMA DiesStep == KsInv /\ Dies => KsInv'
<1> SUFFICES ASSUME KsInv, Dies PROVE KsInv'
  OBVIOUS
<1>0. KsTypes /\ KeysLive /\ Apart /\ BuffersLive /\ Well(ks)
  BY DEF KsInv, KsTypes
<1>1. /\ Going /\ ~Going' /\ issued' = issued /\ used' = used /\ blame \subseteq blame'
      /\ ks' \in Store /\ But(ks, ks', {"fault"}) /\ ~Tame(ks'.fault) /\ WildAccessNeedsCause'
  BY <1>0, DiesEffect
<1>2. /\ ks'.rec = ks.rec /\ ks'.slot = ks.slot /\ ks'.heap = ks.heap /\ ks'.of = ks.of
      /\ ks'.keyData = ks.keyData
  BY <1>1 DEF But
<1>3. KsTypes'
  <2>1. Well(ks')
    BY <1>0, <1>1, WellSame
  <2> QED BY <1>0, <1>1, <2>1 DEF KsTypes
<1>4. KeysLive'
  BY <1>0, <1>1, <1>2 DEF KeysLive, Live, Tame
<1>5. Apart'
  <2>1. ASSUME blame' \cap {"shared_slot", "no_memory"} = {}, NEW k, NEW i, Owns(k, i) PROVE Owns(k, i)'
    BY <1>1, <1>2, <2>1 DEF Owns
  <2> QED BY <1>0, <1>1, <1>2, <2>1 DEF Apart
<1>6. BuffersLive'
  BY <1>0, <1>1, <1>2 DEF BuffersLive, Tame
<1>7. RecordsFiled'
  BY <1>1 DEF RecordsFiled
<1> QED BY <1>1, <1>3, <1>4, <1>5, <1>6, <1>7 DEF KsInv

LEMMA KsStart == KsInit => KsInv
<1> SUFFICES ASSUME KsInit PROVE KsInv
  OBVIOUS
<1>1. /\ ks.rec = {} /\ ks.slot = [i \in Slot |-> EmptySlot] /\ ks.made = 0
      /\ ks.heap = [o \in Obj |-> "unused"] /\ ks.of = [o \in Obj |-> NULL]
      /\ ks.keyData = [k \in Key |-> NULL] /\ ks.ret = 0 /\ ks.fault = "none"
      /\ issued = [k \in Key |-> 0] /\ used = {} /\ blame = {}
  BY DEF KsInit
<1>2. 0 \in 0 .. IdModulus - 1 /\ 0 \in 0 .. MaxObj /\ "none" \in FaultName /\ Obj \subseteq Nat \ {0}
  BY KeyNumbers DEF FaultName
<1>3. ks \in Store
  <2>1. [i \in Slot |-> EmptySlot] \in [Slot -> SlotEntry]
    BY EmptyIsEntry
  <2> QED BY <1>2, <2>1 DEF KsInit, Store
<1>4. Made(ks)
  <2>1. \A o \in Obj : ks.heap[o] = "unused" /\ o > ks.made
    BY <1>1, <1>2
  <2>2. \A i \in Slot : ks.slot[i].ec_key <= ks.made /\ ks.slot[i].en_buf <= ks.made
    BY <1>1, EmptyIsEntry, KeyNumbers
  <2>3. \A k \in Key : ks.keyData[k] <= ks.made
    <3>1. \A k \in Key : ks.keyData[k] = NULL
      BY <1>1
    <3>2. NULL <= ks.made
      BY <1>1, KeyNumbers
    <3> QED BY <3>1, <3>2
  <2> QED BY <1>1, <2>1, <2>2, <2>3 DEF Made
<1>5. Filed(ks)
  BY <1>1, EmptyIsEntry DEF Filed
<1>6. issued \in [Key -> 0 .. IdModulus - 1] /\ \A k \in Key : issued[k] = 0
  BY <1>1, <1>2
<1>7. KsTypes
  BY <1>1, <1>3, <1>4, <1>5, <1>6 DEF KsTypes, Well
<1>8. \A i \in Slot : ks.slot[i].ec_key = NULL
  BY <1>1, EmptyIsEntry
<1>9. KeysLive
  BY <1>1, <1>8 DEF KeysLive, Live
<1>10. Apart
  BY <1>1, <1>6, <1>8 DEF Apart
<1>11. BuffersLive
  BY <1>1 DEF BuffersLive
<1>12. RecordsFiled
  BY <1>1, <1>6 DEF RecordsFiled
<1>13. WildAccessNeedsCause
  BY <1>1 DEF WildAccessNeedsCause
<1> QED BY <1>7, <1>9, <1>10, <1>11, <1>12, <1>13 DEF KsInv

LEMMA KsStutter == KsInv /\ UNCHANGED ksvars => KsInv'
BY DEF KsInv, ksvars, KsTypes, KeysLive, Apart, BuffersLive, RecordsFiled, Owns, Going,
       WildAccessNeedsCause

LEMMA KsSound == KsInv => StoreSound
<1> SUFFICES ASSUME KsInv PROVE StoreSound
  OBVIOUS
<1>0. KsTypes /\ KeysLive /\ Apart /\ BuffersLive /\ RecordsFiled /\ Well(ks) /\ WildAccessNeedsCause
  BY DEF KsInv, KsTypes
<1>1. KsTypeOK
  <2>1. ks \in Store /\ issued \in [Key -> 0 .. IdModulus - 1]
    BY <1>0 DEF KsTypes, Well
  <2>2. ks.ret \in -1 .. IdModulus - 1
    <3>1. ks.ret \in 0 .. IdModulus - 1
      BY <2>1, StoreFields
    <3> QED BY <3>1, KeyNumbers
  <2>3. ks.slot \in [Slot -> [id : Slot, ec_key : Obj \cup {NULL}, en_buf : Obj \cup {NULL}]]
    BY <2>1, StoreFields DEF SlotEntry
  <2>4. ks.heap \in [Obj -> {"unused", "live", "freed"}]
    BY <2>1, StoreFields
  <2> QED BY <2>1, <2>2, <2>3, <2>4 DEF KsTypeOK
<1>2. ASSUME NEW k \in Key, issued[k] # 0, Going, blame \subseteq {"program_freed", "id_zero"}
      PROVE  LET e == ks.slot[issued[k] - 1]
             IN  /\ e.ec_key # NULL /\ ks.of[e.ec_key] = k /\ ks.heap[e.ec_key] = "live"
                 /\ e.en_buf = ks.keyData[k] \/ ks.keyData[k] = NULL \/ "program_freed" \in blame
  <2>1. blame \cap {"shared_slot", "no_memory"} = {} /\ "sign_failed" \notin blame
    BY <1>2
  <2>2. k \in used /\ AsnOf[k] # 0 /\ issued[k] = SlotOf(AsnOf[k]) + 1
    BY <1>0, <1>2, <2>1 DEF Apart
  <2>3. PICK i \in Slot : i = SlotOf(AsnOf[k])
    BY <2>2, SlotOfKey
  <2>4. issued[k] - 1 = i
    BY <2>2, <2>3, KeyNumbers
  <2>5. ks.slot[i].ec_key # NULL
    BY <1>0, <1>2, <2>3 DEF RecordsFiled
  <2>6. PICK j \in used : Owns(j, i)
    BY <1>0, <2>1, <2>5 DEF Apart
  <2>7. j = k
    BY <1>0, <2>1, <2>2, <2>3, <2>6 DEF Apart, Owns
  <2>8. ks.of[ks.slot[i].ec_key] = k /\ ("program_freed" \notin blame => ks.keyData[k] = ks.slot[i].en_buf)
    BY <2>6, <2>7 DEF Owns
  <2>9. ks.heap[ks.slot[i].ec_key] = "live"
    BY <1>0, <2>1, <2>5 DEF KeysLive, Live
  <2> QED BY <2>4, <2>5, <2>8, <2>9
<1>3. IdMeansItsKey
  BY <1>2 DEF IdMeansItsKey
<1>4. DeadKeyNeedsFailedSign
  BY <1>0 DEF KeysLive, Live, DeadKeyNeedsFailedSign
<1>5. DeadBufferNeedsCause
  BY <1>0 DEF BuffersLive, DeadBufferNeedsCause
<1> QED BY <1>0, <1>1, <1>3, <1>4, <1>5 DEF StoreSound

LEMMA KsStep == KsInv /\ [KsNext]_ksvars => KsInv'
<1>1. KsInv /\ Calls => KsInv'
  <2> SUFFICES ASSUME KsInv, Calls PROVE KsInv'
    OBVIOUS
  <2>1. KsTypes' /\ KeysLive' /\ Apart' /\ BuffersLive' /\ RecordsFiled'
    BY TypesStep, ApartStep, BuffersStep, RecordsStep DEF KsInv
  <2>2. WildAccessNeedsCause'
    BY TameStep DEF KsInv, Tame, WildAccessNeedsCause
  <2> QED BY <2>1, <2>2 DEF KsInv
<1>2. KsNext => Calls \/ Dies
  BY DEF KsNext, Calls, Dies
<1> QED BY <1>1, <1>2, DiesStep, KsStutter

\* For every set of keys, every hash of their AS numbers and every number of slots, buckets
\* and ids: through any sequence of registrations, signatures and removals an id signs with
\* the key it was issued for, no EC_KEY or buffer is used or released after its release and no
\* other pointer is followed that points nowhere, but for the causes that StoreSound names.
THEOREM StoreCorrect == KsSpec => []StoreSound
<1>1. KsInit => KsInv
  BY KsStart
<1>2. KsInv /\ [KsNext]_ksvars => KsInv'
  BY KsStep
<1>3. KsInv => StoreSound
  BY KsSound
<1> QED BY <1>1, <1>2, <1>3, PTL DEF KsSpec
=============================================================================
