----------------------------- MODULE MCCrypto -----------------------------
(***************************************************************************)
(* The OpenSSL code for model checking: four independent components, of    *)
(* which a behaviour exercises one.                                        *)
(***************************************************************************)
EXTENDS SrxKeys, OpensslTools, KeyStore, BgpsecPath, SrxCrypto, TLC

CONSTANTS k1, k2, k3

VARIABLE which

MCPrograms == SrxPrograms @@ ToolPrograms
MCNames == {"caller"} \cup UNION {Variables(MCPrograms[f].code) : f \in DOMAIN MCPrograms}

\* Two keys of one AS, whose slot is not the one a failed allocation falls back to, and one
\* of another AS, whose slot is the last and whose record is not in the bucket of that number.
MCAsnOf == k1 :> 1 @@ k2 :> 1 @@ k3 :> 2
MCSkiOf == k1 :> "a" @@ k2 :> "b" @@ k3 :> "c"
MChashv == <<5, 7>>

\* Signature lists whose origin signature is last, as senders build them; the links between
\* them are arbitrary.  The key of an AS has its number; in lists of two, one signature may be
\* made with another key than its AS's, or name another, and longer lists have none.
Own(d) == Sig(d, d.signer)
DataOver(N) == {Data(t, s, n) : t \in AS, s \in AS, n \in N}
Ones(D) == {[ski |-> d.signer, signature |-> Own(d)] : d \in D}
Odds(D) == {[ski |-> k, signature |-> Sig(d, j)] : d \in D, k \in SigningKey, j \in SigningKey}
OriginData == DataOver({Prefix})
SecondData == DataOver({<<Own(d)>> : d \in OriginData})
ThirdData  == DataOver({<<Own(d)>> : d \in SecondData})
MCSigLists ==
  [n \in 0 .. 3 |->
     CASE n = 0 -> {<< >>}
       [] n = 1 -> {<<o>> : o \in Odds(OriginData)}
       [] n = 2 -> (Odds(SecondData) \X Ones(OriginData))
                   \cup UNION {Ones(DataOver({<<o.signature>>})) \X {o} : o \in Odds(OriginData)}
       [] n = 3 -> Ones(ThirdData) \X Ones(SecondData) \X Ones(OriginData)]

\* One thing out of the ordinary at a time, fewer in paths of two and nothing in longer ones.
PlainInput == [exact |-> TRUE, files |-> SigningKey, der |-> [kind |-> "public", content |-> 89]]
Files(F)   == {[PlainInput EXCEPT !.files = f] : f \in F}
Ders(C)    == {[PlainInput EXCEPT !.der = [kind |-> k, content |-> c]] :
                 k \in {"private", "public"}, c \in C}
MCInputs ==
  <<{[PlainInput EXCEPT !.exact = FALSE]} \cup Files(SUBSET SigningKey) \cup Ders({124, 125, 127, 128}),
    {PlainInput} \cup Files({{1}}) \cup Ders({125}),
    {PlainInput}>>

MCConfigs == [file : BOOLEAN, reads : BOOLEAN, conf : {"absent", "no section", "section"},
              opens : BOOLEAN, named : {{}, {"validate"}},
              exports : {{}, {"registerPublicKey"}, Method}]

OwnIdle  == entry = "getEcKeyFromHex" /\ OwnInit
PathIdle == /\ segs = <<1>> /\ sigs = <<[ski |-> 1, signature |-> Own(Data(1, 1, Prefix))]>>
            /\ spLen = 8 /\ keys = << >> /\ files = SigningKey /\ der = PlainInput.der
            /\ iter = 1 /\ pos = 1 /\ targetAS = local_as /\ verdict = "none"
SrxIdle  == api.method = [m \in Method |-> "garbage"] /\ api.libHandle = "NULL"

SrxFirst == SrxInit /\ SrxIdle

MCInit ==
  \/ which = "own"   /\ OwnInit /\ KsInit /\ PathIdle /\ SrxFirst
  \/ which = "store" /\ OwnIdle /\ KsInit /\ PathIdle /\ SrxFirst
  \/ which = "path"  /\ OwnIdle /\ KsInit /\ PathInit /\ SrxFirst
  \/ which = "api"   /\ OwnIdle /\ KsInit /\ PathIdle /\ SrxInit

MCNext ==
  /\ UNCHANGED which
  /\ \/ which = "own"   /\ OwnNext  /\ UNCHANGED <<ksvars, pvars, svars>>
     \/ which = "store" /\ KsNext   /\ UNCHANGED <<ovars, pvars, svars>>
     \/ which = "path"  /\ PathNext /\ UNCHANGED <<ovars, ksvars, svars>>
     \/ which = "api"   /\ SrxNext  /\ UNCHANGED <<ovars, ksvars, pvars>>

MCSpec == MCInit /\ [][MCNext]_<<which, ovars, ksvars, pvars, svars>>

\* Whichever OpenSSL calls fail, keys, groups, points and buffers are released once, by their
\* owner, and not used after it; a failing function gives back what it created and leaves the
\* caller's pointer alone; the DNSSEC glue and the self test end clean. The exceptions, pairs
\* of calls that release one key twice and the objects a failure loses, are listed one by one
\* in DoubleReleases and FailureLosesNothing.
OwnershipKept ==
  /\ OwnTypeOK
  /\ TwiceOnlyAfterCallee /\ NoUseOfReleased /\ OutParameter /\ FailureLosesNothing
  /\ DnssecKeysClean /\ SelfTestClean
=============================================================================
