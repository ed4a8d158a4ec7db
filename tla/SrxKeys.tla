------------------------------ MODULE SrxKeys ------------------------------
(***************************************************************************)
(* The functions of the SRx crypto library and of its OpenSSL back end     *)
(* that load, encode, use and release keys, as ownership programs.         *)
(***************************************************************************)
EXTENDS Ownership

(* Read one object from a file through a BIO; *arg is the result.          *)
FileReader == Fn("null",
    << New("bio", {}, "ret"), Check({"bio"}, "close"), New("*arg", {"bio"}, "close"),
       Free("bio"), Ret("ok"),
       At("close"), Free("bio"), At("ret"), Ret("fail") >>)

sca_GetPrivateKey == FileReader
cl_GetPrivateKey  == FileReader

\* A certificate: d2i_X509_bio is given the address of a pointer to an empty one, fills that or,
\* without one, makes it.  When the file cannot be read the empty one stays and is forgotten;
\* when it cannot be decoded d2i_X509 has released it.
CertReader == Fn("null",
    << New("bio", {}, "ret"), Check({"bio"}, "close"), New("x509", {}, "next"),
       Check({"bio"}, "unread"), Check({"bio"}, "undecoded"),
       IfNull("x509", "fresh"), Hand("x509", "*arg"), Goto("got"),
       At("fresh"), New("*arg", {"bio"}, "close"),
       At("got"), Free("bio"), Ret("ok"),
       At("unread"), Null("x509"), Goto("close"),
       At("undecoded"), Free("x509"),
       At("close"), Free("bio"), At("ret"), Ret("fail") >>)

sca_GetPublicKey == CertReader
cl_GetPublicKey  == CertReader

\* *arg is the caller's EC_KEY pointer: freed on failure, never reset to NULL.
SetPublicFail ==
    << At("point"), Free("ecpoint"),
       At("err"), Free("*arg"), Free("ecGroup"), Free("cert"), Ret("fail") >>

SetPublic(read) == Fn("null",
    << Call(read, "cert", "err"),
       New("*arg", {}, "next"), New("ecGroup", {}, "err"),
       New("ecpoint", {"ecGroup"}, "err"),
       Check({"ecGroup", "ecpoint"}, "point"), Check({"*arg", "ecpoint"}, "point"),
       Check({"*arg"}, "err"), Ret("ok") >> \o SetPublicFail)

sca_BgpsecSetEcPublicKey == SetPublic("sca_GetPublicKey")
cl_BgpsecSetEcPublicKey  == SetPublic("cl_GetPublicKey")

sca_BgpsecSetEcPrivateKey == Fn("live",
    << Call("sca_GetPrivateKey", "privateKey", "ret"),
       New("tmpEckey", {"privateKey"}, "next"), Check({"tmpEckey"}, "next"),
       Check({"*arg", "tmpEckey"}, "ret"), Ret("ok"), At("ret"), Ret("fail") >>)

\* The file defines the function twice, with the same body.
sca_BgpsecSetEcPrivateKey_2 == sca_BgpsecSetEcPrivateKey

cl_BgpsecSetEcPrivateKey == Fn("live",
    << Call("cl_GetPrivateKey", "privateKey", "ret"),
       Check({"*arg", "privateKey"}, "ret"), Ret("ok"), At("ret"), Ret("fail") >>)

sca_new_PrivateKeyStream == Fn("null",
    << New("fd", {}, "ret"), Check({"fd"}, "next"), Free("fd"), Maybe("ret"),
       New("stream", {}, "ret"), New("privateKey", {"stream"}, "bad"),
       New("*arg", {"privateKey"}, "next"), Free("privateKey"), Keep("stream"), Ret("ok"),
       At("bad"), Free("stream"), At("ret"), Ret("fail") >>)

new_pub_ecpoint2Der == Fn("null",
    << New("*arg", {}, "ret"), Ret("ok"), At("ret"), Ret("fail") >>)

getEcKeyFromHex == Fn("null",
    << New("key", {}, "next"), New("pub_key", {"key"}, "next"),
       Check({"key", "pub_key"}, "next"), Check({"key"}, "next"), Ret("ok") >>)

eckey_param2type == Fn("live",
    << IfNull("*arg", "ret"), Maybe("explicit"), Ret("ok"),
       At("explicit"), New("pstr", {}, "ret"), Check({"*arg", "pstr"}, "free"),
       Keep("pstr"), Ret("ok"),
       At("free"), Free("pstr"), At("ret"), Ret("fail") >>)

eckey_type2param == Fn("null",
    << Maybe("object"), Maybe("ecerr"),
       New("eckey", {}, "ecerr"), Hand("eckey", "*arg"), Ret("ok"),
       At("object"), New("eckey", {}, "ecerr"), New("group", {}, "ecerr"),
       Check({"eckey", "group"}, "ecerr"), Free("group"), Hand("eckey", "*arg"), Ret("ok"),
       At("ecerr"), Free("eckey"), Ret("fail") >>)

----------------------------------------------------------------------------
(* sca_loadKey.  *arg is key->keyData.  With a file of the public key it   *)
(* loads that one, without it a dummy public key is made up: the SRx file  *)
(* sets it into ec_key while ec_key is still NULL, the newer copy in       *)
(* crypto_utils.c creates ec_key first.                                    *)

DummyPoint ==
    << New("group", {}, "next"), New("point", {"group"}, "next"),
       New("ctx", {}, "next"), New("bn", {}, "next"),
       Check({"group", "point", "bn"}, "next"), Free("ctx"), Free("group"), Free("bn") >>

LoadKeyRead(dummy) ==
    << Maybe("ret"), Maybe("dummy"),
       Call("sca_BgpsecSetEcPublicKey", "ec_key", "int_err"), Goto("priv"), At("dummy") >>
    \o dummy \o
    << Check({"ec_key", "point"}, "int_err"), Free("point"),
       At("priv"), Maybe("check"),
       Call("sca_BgpsecSetEcPrivateKey", "ec_key", "int_err"),
       At("check"), Check({"ec_key"}, "int_err"), Maybe("public") >>

\* Mutant of LoadKeyPrivate: the key is released before it is encoded.
LoadKeyPrivateEarly ==
    << Check({"ec_key"}, "int_err"), New("ep", {}, "int_err"), Free("ec_key"),
       Check({"ec_key", "ep"}, "drop"), Hand("ep", "*arg"), Ret("ok") >>

LoadKeyPrivate ==
    << Check({"ec_key"}, "int_err"), New("ep", {}, "int_err"),
       Check({"ec_key", "ep"}, "drop"), Free("ec_key"),
       New("recon_key", {"ep"}, "int_err"), Maybe("priv_ok"),
       Call("sca_BgpsecSetEcPublicKey", "recon_key", "int_err"),
       At("priv_ok"), Free("recon_key"), Hand("ep", "*arg"), Ret("ok") >>

LoadKeyPublic ==
    << At("public"), New("out", {}, "next"), New("pkey", {}, "int_err"),
       Check({"pkey", "ec_key"}, "next"), Check({"pkey"}, "int_err"),
       New("ep", {}, "int_err"), Check({"pkey", "ep"}, "drop"),
       Free("ec_key"), Free("pkey"),
       New("pkey_tmp", {"ep"}, "int_err"), New("recon_key", {"pkey_tmp"}, "int_err"),
       Maybe("pub_ok"), Call("sca_BgpsecSetEcPublicKey", "recon_key", "int_err"),
       At("pub_ok"), Free("recon_key"), Hand("ep", "*arg"), Ret("ok") >>

\* Built with USE_EC_PUB_OCTET_KEY: the point's octets instead of a DER encoding.  The
\* decoded copy goes by a second name, its group is never released.
LoadKeyOctets ==
    << At("public"), Check({"ec_key"}, "int_err"), New("ep", {}, "int_err"),
       Check({"ec_key", "ep"}, "drop"), Free("ec_key"),
       New("ecdsa_key", {}, "int_err"), New("ecgroup", {}, "int_err"),
       Check({"ecdsa_key", "ecgroup"}, "int_err"), Check({"ecdsa_key", "ep"}, "int_err"),
       Hand("ecdsa_key", "recon_key"), Maybe("pub_ok"),
       Call("sca_BgpsecSetEcPublicKey", "recon_key", "int_err"),
       At("pub_ok"), Free("recon_key"), Hand("ep", "*arg"), Ret("ok") >>

LoadKeyFail ==
    << At("drop"), Free("ep"),
       At("int_err"), Free("ec_key"), Null("*arg"), At("ret"), Ret("fail") >>

LoadKeyTail == LoadKeyPrivate \o LoadKeyPublic \o LoadKeyFail

sca_loadKey == Fn("null", LoadKeyRead(DummyPoint) \o LoadKeyTail)

sca_loadKey_octets ==
    Fn("null", LoadKeyRead(DummyPoint) \o LoadKeyPrivate \o LoadKeyOctets \o LoadKeyFail)

\* The copy in crypto_utils.c.
utils_LoadKeyRead    == LoadKeyRead(DummyPoint \o <<New("ec_key", {}, "next")>>)
utils_LoadKeyPrivate == LoadKeyPrivate
utils_LoadKeyPublic  == LoadKeyPublic
utils_LoadKeyOctets  == LoadKeyOctets
utils_LoadKey(public) ==
    Fn("null", utils_LoadKeyRead \o utils_LoadKeyPrivate \o public \o LoadKeyFail)
utils_loadKey        == utils_LoadKey(utils_LoadKeyPublic)
utils_loadKey_octets == utils_LoadKey(utils_LoadKeyOctets)

----------------------------------------------------------------------------
(* Verifying and signing in bgpsec_openssl.                                *)

stcl_BgpsecVerifySignatureSSL == Fn("null",
    << Maybe("err"), Call("cl_BgpsecSetEcPublicKey", "ecdsa_key", "err"),
       Check({"ecdsa_key"}, "err"), Ret("ok"),
       At("err"), Free("ecdsa_key"), Ret("fail") >>)

VerifyDecode ==
    << Maybe("err"), New("out_err", {}, "next"), Maybe("public"),
       New("ecdsa_key", {}, "err"), Goto("have"),
       At("public"), New("pkey_tmp", {}, "err"),
       New("ecdsa_key", {"pkey_tmp"}, "next"), Free("pkey_tmp"), IfNull("ecdsa_key", "err") >>

VerifyCheck ==
    << At("have"), Check({"ecdsa_key"}, "err"), Check({"ecdsa_key"}, "err"),
       Check({"ecdsa_key"}, "err"), Free("ecdsa_key"), Ret("ok"),
       At("err"), Free("ecdsa_key"), Ret("fail") >>

stcl_VerifySignatureSSL_withKeyInfo == Fn("null", VerifyDecode \o VerifyCheck)

\* The decoders of the builds without USE_EC_PRIVATE, each under its own macro.
DecodeType2Param ==
    << New("ecdsa_key", {}, "err"), Check({"ecdsa_key"}, "err") >>

DecodePublic ==
    << New("out", {}, "next"), New("pkey_tmp", {}, "err"),
       New("ecdsa_key", {"pkey_tmp"}, "next"), Free("pkey_tmp"), IfNull("ecdsa_key", "err") >>

DecodeOctets ==
    << New("ecdsa_key", {}, "err"), New("ecgroup", {}, "err"),
       Check({"ecdsa_key", "ecgroup"}, "err"), Check({"ecdsa_key"}, "err") >>

VerifyWith(decode) == Fn("null", <<Maybe("err")>> \o decode \o VerifyCheck)

withKeyInfo_type2param == VerifyWith(DecodeType2Param)
withKeyInfo_public     == VerifyWith(DecodePublic)
withKeyInfo_octets     == VerifyWith(DecodeOctets)

\* The key is the caller's.  A failing ECDSA_sign or a failing check of the
\* new signature releases it; after the latter the length is returned anyway.
cl_BgpsecECDSA_Sign == Fn("live",
    << New("out", {}, "next"), Check({"*arg"}, "nosig"), Check({"*arg"}, "badsig"), Ret("ok"),
       At("badsig"), Free("*arg"), Ret("ok"),
       At("nosig"), Free("*arg"), Ret("fail") >>)

\* Arguments that are missing are refused.
cl_SignParamSanityCheck        == Maybe("ret")
cl_SignParamWithKeySanityCheck == Maybe("ret")

stBgpsecReqSigning == Fn("null",
    << cl_SignParamSanityCheck, Call("cl_BgpsecSetEcPublicKey", "ecdsa_key", "int_err"),
       Call("cl_BgpsecSetEcPrivateKey", "ecdsa_key", "int_err"),
       Check({"ecdsa_key"}, "int_err"), Maybe("done"),
       Call("cl_BgpsecECDSA_Sign", "ecdsa_key", "done"), At("done"), Ret("ok"),
       At("int_err"), Free("ecdsa_key"), At("ret"), Ret("fail") >>)

stBgpsecReqSigningWithKeyInfo == Fn("null",
    << cl_SignParamWithKeySanityCheck, New("ecdsa_key", {}, "ret"), Check({"ecdsa_key"}, "ret"), Maybe("done"),
       Call("cl_BgpsecECDSA_Sign", "ecdsa_key", "done"),
       At("done"), Free("ecdsa_key"), Ret("ok"), At("ret"), Ret("fail") >>)

\* Which of the two depends on whether the caller gave the key's bytes.
sign_with_key == Fn("null",
    << Maybe("file"), Call("stBgpsecReqSigningWithKeyInfo", "key", "ret"), Ret("ok"),
       At("file"), Call("stBgpsecReqSigning", "key", "ret"), Ret("ok"),
       At("ret"), Ret("fail") >>)

SetKeysBody ==
    << Maybe("err"), New("ec_key1", {"*arg"}, "err"),
       Maybe("priv"), New("ec_point", {"ec_key1"}, "err"),
       Check({"ec_key1", "ec_point"}, "err"),
       At("priv"), Maybe("set"), New("bn", {}, "err"), Check({"ec_key1", "bn"}, "err"),
       At("set"), Check({"*arg", "ec_key1"}, "err") >>

SetKeysExit(v) == << Free("bn"), Free("ec_key1"), Free("ec_point"), Ret(v) >>

EVP_PKEY_set_keys == Fn("live",
    SetKeysBody \o SetKeysExit("ok") \o <<At("err")>> \o SetKeysExit("fail"))

dupEVP_PKEY == Fn("live",
    << New("dup", {}, "err"), Maybe("err"), New("ec_in", {"*arg"}, "err"),
       New("ec_out", {"ec_in"}, "err"), Check({"dup", "ec_out"}, "next"),
       Free("ec_out"), Free("ec_in"), Keep("dup"), Ret("ok"),
       At("err"), Free("ec_in"), Ret("fail") >>)

\* The other copies in crypto_utils.c differ in what they log.
utils_param2type == eckey_param2type
utils_type2param == eckey_type2param
utils_VerifyDecode == VerifyDecode
utils_VerifyCheck  == VerifyCheck
utils_VerifySignatureSSL_withKeyInfo == Fn("null", utils_VerifyDecode \o utils_VerifyCheck)
utils_type2paramKey == withKeyInfo_type2param
utils_publicKey     == withKeyInfo_public
utils_octetsKey     == withKeyInfo_octets
utils_set_keys == EVP_PKEY_set_keys
utils_dup      == dupEVP_PKEY

----------------------------------------------------------------------------
SrxPrograms ==
    [ sca_GetPublicKey |-> sca_GetPublicKey, sca_GetPrivateKey |-> sca_GetPrivateKey,
      cl_GetPublicKey |-> cl_GetPublicKey, cl_GetPrivateKey |-> cl_GetPrivateKey,
      sca_BgpsecSetEcPublicKey |-> sca_BgpsecSetEcPublicKey,
      cl_BgpsecSetEcPublicKey |-> cl_BgpsecSetEcPublicKey,
      sca_BgpsecSetEcPrivateKey |-> sca_BgpsecSetEcPrivateKey,
      cl_BgpsecSetEcPrivateKey |-> cl_BgpsecSetEcPrivateKey,
      sca_new_PrivateKeyStream |-> sca_new_PrivateKeyStream,
      new_pub_ecpoint2Der |-> new_pub_ecpoint2Der, getEcKeyFromHex |-> getEcKeyFromHex,
      eckey_param2type |-> eckey_param2type, eckey_type2param |-> eckey_type2param,
      sca_loadKey |-> sca_loadKey, utils_loadKey |-> utils_loadKey,
      stcl_BgpsecVerifySignatureSSL |-> stcl_BgpsecVerifySignatureSSL,
      stcl_VerifySignatureSSL_withKeyInfo |-> stcl_VerifySignatureSSL_withKeyInfo,
      cl_BgpsecECDSA_Sign |-> cl_BgpsecECDSA_Sign,
      stBgpsecReqSigning |-> stBgpsecReqSigning,
      stBgpsecReqSigningWithKeyInfo |-> stBgpsecReqSigningWithKeyInfo,
      EVP_PKEY_set_keys |-> EVP_PKEY_set_keys, dupEVP_PKEY |-> dupEVP_PKEY,
      utils_param2type |-> utils_param2type, utils_type2param |-> utils_type2param,
      utils_VerifySignatureSSL_withKeyInfo |-> utils_VerifySignatureSSL_withKeyInfo,
      utils_set_keys |-> utils_set_keys, utils_dup |-> utils_dup,
      sca_BgpsecSetEcPrivateKey_2 |-> sca_BgpsecSetEcPrivateKey_2,
      sca_loadKey_octets |-> sca_loadKey_octets, utils_loadKey_octets |-> utils_loadKey_octets,
      withKeyInfo_type2param |-> withKeyInfo_type2param,
      withKeyInfo_public |-> withKeyInfo_public, withKeyInfo_octets |-> withKeyInfo_octets,
      utils_type2paramKey |-> utils_type2paramKey, utils_publicKey |-> utils_publicKey,
      utils_octetsKey |-> utils_octetsKey, sign_with_key |-> sign_with_key ]

\* The entries that are sca_loadKey, in either file and build.
Loaders == {"sca_loadKey", "sca_loadKey_octets", "utils_loadKey", "utils_loadKey_octets"}

\* The builds of stcl_BgpsecVerifySignatureSSL_withKeyInfo in either file.
Verifiers ==
    {"stcl_VerifySignatureSSL_withKeyInfo", "utils_VerifySignatureSSL_withKeyInfo",
     "withKeyInfo_type2param", "withKeyInfo_public", "withKeyInfo_octets",
     "utils_type2paramKey", "utils_publicKey", "utils_octetsKey"}

FileReaders == {"sca_GetPublicKey", "sca_GetPrivateKey", "cl_GetPublicKey", "cl_GetPrivateKey"}

\* <<who releases, who released before>>, all there are: a loader releases ec_key or
\* recon_key after sca_BgpsecSetEcPublicKey did, or ec_key when the check of the decoded copy
\* fails after ec_key was released; the signers and the verifier release what their callee did.
DoubleReleases ==
    (Loaders \X {"sca_BgpsecSetEcPublicKey"}) \cup {<<f, f>> : f \in Loaders} \cup
    {<<"stBgpsecReqSigning", "cl_BgpsecSetEcPublicKey">>,
     <<"stBgpsecReqSigningWithKeyInfo", "cl_BgpsecECDSA_Sign">>,
     <<"stcl_BgpsecVerifySignatureSSL", "cl_BgpsecSetEcPublicKey">>}

\* An object is released twice by these pairs of calls and no others: on every other path
\* each object is released at most once, whichever calls fail.
TwiceOnlyAfterCallee == outcome = "twice" => fault \in DoubleReleases

\* No path, whatever fails on it, gives OpenSSL an object that was released before.
NoUseOfReleased == outcome # "stale"

\* What the functions with an out parameter promise their callers: after success it
\* owns an object, after a failure it does not.
OutParameter ==
    entry \in FileReaders \cup Loaders \cup
                {"sca_BgpsecSetEcPublicKey", "cl_BgpsecSetEcPublicKey",
                 "eckey_type2param", "utils_type2param"}
      => /\ outcome = "ok" => ptr["caller"] = "live"
         /\ outcome = "fail" => ptr["caller"] # "live"

\* A failing load or a failing conversion gives back everything it had created, but for the
\* BIO or the group a verification makes on every call, the point of a key that fails its
\* final check, and the empty certificate made before a file that then cannot be read.
FailureLosesNothing ==
    outcome = "fail" /\ entry \in FileReaders \cup Verifiers \cup
        {"sca_BgpsecSetEcPublicKey", "cl_BgpsecSetEcPublicKey", "EVP_PKEY_set_keys",
         "utils_set_keys", "eckey_param2type", "utils_param2type", "sca_new_PrivateKeyStream"}
      => lost \subseteq (Verifiers \X {"out_err", "out", "ecgroup"}) \cup
                        {<<"sca_BgpsecSetEcPublicKey", "ecpoint">>,
                         <<"cl_BgpsecSetEcPublicKey", "ecpoint">>,
                         <<"sca_GetPublicKey", "x509">>, <<"cl_GetPublicKey", "x509">>}
=============================================================================
