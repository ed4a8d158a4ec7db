---------------------------- MODULE OpensslTools ----------------------------
(***************************************************************************)
(* The DNSSEC key functions of ecdsa_link.c, the ECDSA self test, the key  *)
(* conversion tool and the DER round trip, as ownership programs.          *)
(***************************************************************************)
EXTENDS Ownership

(* ecdsa_link.c: *arg is key->keydata.pkey.                                *)

opensslecdsa_createctx == Fn("live",
    << New("md_ctx", {}, "ret"), Check({"md_ctx"}, "free"), Keep("md_ctx"), Ret("ok"),
       At("free"), Free("md_ctx"), At("ret"), Ret("fail") >>)

\* dctx->ctxdata.evp_md_ctx is *arg here.
opensslecdsa_destroyctx == Fn("live",
    << IfNull("*arg", "ret"), Free("*arg"), Null("*arg"), At("ret"), Ret("ok") >>)

opensslecdsa_sign == Fn("live",
    << New("eckey", {"*arg"}, "ret"), Maybe("err"), Check({"eckey"}, "err"),
       New("ecdsasig", {"eckey"}, "err"), Free("ecdsasig"), Free("eckey"), Ret("ok"),
       At("err"), Free("eckey"), At("ret"), Ret("fail") >>)

\* A signature of the wrong length returns without the cleanup.
opensslecdsa_verify == Fn("live",
    << New("eckey", {"*arg"}, "ret"), Maybe("ret"), Check({"eckey"}, "err"),
       New("ecdsasig", {}, "err"), Check({"ecdsasig", "eckey"}, "err"),
       Free("ecdsasig"), Free("eckey"), Ret("ok"),
       At("err"), Free("ecdsasig"), Free("eckey"), At("ret"), Ret("fail") >>)

CompareExit ==
    << Free("eckey"), Free("eckey2"), Ret("ok"),
       At("err"), Free("eckey"), Free("eckey2"), At("ret"), Ret("fail") >>

opensslecdsa_compare == Fn("live",
    << Maybe("ret"), New("eckey", {"*arg"}, "next"), New("eckey2", {"*arg"}, "next"),
       IfNull("eckey", "err"), IfNull("eckey2", "err"), Check({"eckey", "eckey2"}, "err") >>
    \o CompareExit)

\* Wrap eckey in a new EVP_PKEY and store it in the key.
Wrap ==
    << New("pkey", {}, "err"), Check({"pkey", "eckey"}, "unwrap"), Hand("pkey", "*arg"),
       Free("eckey"), Free("pubeckey"), Ret("ok"),
       At("unwrap"), Free("pkey"),
       At("err"), Free("eckey"), Free("pubeckey"), At("ret"), Ret("fail") >>

opensslecdsa_generate == Fn("null",
    << New("eckey", {}, "ret"), Check({"eckey"}, "err") >> \o Wrap)

opensslecdsa_isprivate == Fn("live",
    << New("eckey", {"*arg"}, "next"), Free("eckey"), Ret("ok") >>)

opensslecdsa_destroy == Fn("live", << Free("*arg"), Null("*arg"), Ret("ok") >>)

opensslecdsa_todns == Fn("live",
    << New("eckey", {"*arg"}, "ret"), Maybe("err"), Check({"eckey"}, "err"),
       Free("eckey"), Ret("ok"), At("err"), Free("eckey"), At("ret"), Ret("fail") >>)

opensslecdsa_fromdns == Fn("null",
    << Maybe("data"), Ret("ok"), At("data"), Maybe("ret"),
       New("eckey", {}, "ret"), Check({"eckey"}, "err"), Check({"eckey"}, "err") >> \o Wrap)

opensslecdsa_tofile == Fn("live",
    << Maybe("ret"), New("eckey", {"*arg"}, "ret"), Check({"eckey"}, "err"),
       New("buf", {}, "err"), Check({"buf", "*arg"}, "err"), Free("eckey"), Free("buf"), Ret("ok"),
       At("err"), Free("eckey"), Free("buf"), At("ret"), Ret("fail") >>)

\* Without a public key to compare with the private key is accepted.
ecdsa_check == Fn("live",
    << Maybe("good"), New("chkkey", {}, "good"), Check({"*arg", "chkkey"}, "free"),
       At("free"), Free("chkkey"), Maybe("good"), Ret("fail"), At("good"), Ret("ok") >>)

opensslecdsa_parse == Fn("null",
    << New("eckey", {}, "ret"), Maybe("err"), Maybe("own"),
       New("pubeckey", {}, "err"), Check({"pubeckey", "eckey"}, "err"), Goto("wrap"),
       At("own"), New("privkey", {}, "err"), Check({"eckey", "privkey"}, "err"),
       Call("ecdsa_check", "eckey", "err"), At("wrap") >> \o Wrap)

----------------------------------------------------------------------------
(* ecdsatest.c: the installed random method is an object that              *)
(* restore_rand releases.                                                  *)

change_rand == Fn("null", << New("*arg", {}, "ret"), Ret("ok"), At("ret"), Ret("fail") >>)

fbytes == Fn("null",
    << Maybe("ret"), New("tmp", {}, "ret"), Check({"tmp"}, "free"), Maybe("free"),
       Free("tmp"), Ret("ok"), At("free"), Free("tmp"), At("ret"), Ret("fail") >>)

x9_62_test_internal == Fn("null",
    << New("key", {}, "err"), Check({"key"}, "err"), New("signature", {"key"}, "err"),
       New("r", {}, "err"), New("s", {}, "err"), Check({"r", "s", "signature"}, "err"),
       Check({"signature", "key"}, "err"),
       Free("key"), Free("signature"), Free("r"), Free("s"), Ret("ok"),
       At("err"), Free("key"), Free("signature"), Free("r"), Free("s"), Ret("fail") >>)

x9_62_tests == Fn("null",
    << Call("change_rand", "rand", "err"),
       Call("x9_62_test_internal", "x", "err"), Call("x9_62_test_internal", "x", "err"),
       Call("x9_62_test_internal", "x", "err"), Call("x9_62_test_internal", "x", "err"),
       Free("rand"), Ret("ok"), At("err"), Free("rand"), Ret("fail") >>)

BuiltinKeys ==
    << New("curves", {}, "err"), Check({"curves"}, "err"),
       At("curve"), Maybe("done"), Maybe("curve"),
       New("eckey", {}, "err"), New("group", {}, "err"), Check({"eckey", "group"}, "err"),
       Free("group"), Maybe("drop"), Check({"eckey"}, "err"),
       New("wrong_eckey", {}, "err"), New("group", {}, "err"),
       Check({"wrong_eckey", "group"}, "err"), Free("group"), Check({"wrong_eckey"}, "err") >>

BuiltinRelease ==
    << Free("signature"), Null("signature"), Free("eckey"), Null("eckey"),
       Free("wrong_eckey"), Null("wrong_eckey"), Goto("curve") >>

BuiltinSign ==
    << Check({"eckey"}, "err"), New("signature", {}, "err"),
       Check({"signature", "eckey"}, "err"), Check({"signature", "wrong_eckey"}, "err") >>
    \o BuiltinRelease \o
    << At("drop"), Free("eckey"), Null("eckey"), Goto("curve") >>

BuiltinExit(v) ==
    << Free("eckey"), Free("wrong_eckey"), Free("signature"), Free("curves"), Ret(v) >>

test_builtin == Fn("null",
    BuiltinKeys \o BuiltinSign \o <<At("done")>> \o BuiltinExit("ok")
    \o <<At("err")>> \o BuiltinExit("fail"))

ecdsatest_main == Fn("null",
    << New("bio_out", {}, "next"), Call("x9_62_tests", "x", "err"),
       Call("test_builtin", "x", "err"),
       Free("bio_out"), Ret("ok"), At("err"), Free("bio_out"), Ret("fail") >>)

----------------------------------------------------------------------------
(* util_openssl.c and ec-encodingtest.c.                                   *)

print_pub_priv_hex == Fn("live",
    << Check({"*arg"}, "next"), Maybe("ret"), New("ctx1", {}, "next"),
       New("ccc", {"*arg"}, "next"), At("ret"), Ret("ok") >>)

fdGetPrivateKey == Fn("null",
    << New("fd", {}, "next"), Check({"fd"}, "next"), New("bio", {}, "next"),
       New("*arg", {}, "next"), New("derkey", {}, "next"), IfNull("*arg", "err"), Ret("ok"),
       At("err"), Free("bio"), Ret("fail") >>)

genPubDer == Fn("null",
    << New("pubDer", {}, "next"), Check({"pubDer"}, "next"), New("derPub", {"pubDer"}, "ret"),
       New("derRecon", {"derPub"}, "next"), Call("print_pub_priv_hex", "derRecon", "next"),
       Hand("pubDer", "*arg"), Ret("ok"), At("ret"), Ret("fail") >>)

getPubKey_der == Fn("null",
    << New("fd", {}, "next"), Check({"fd"}, "next"), New("pubKey", {}, "ret"),
       New("recon_key", {"pubKey"}, "next"), Call("print_pub_priv_hex", "recon_key", "next"),
       New("ctx", {}, "next"), Check({"recon_key"}, "ret"), New("buf", {}, "ret"),
       Check({"recon_key", "buf"}, "free"), Call("genPubDer", "x", "next"),
       Hand("pubKey", "*arg"), Ret("ok"),
       At("free"), Free("buf"), At("ret"), Ret("fail") >>)

\* Its only caller drops the EVP_PKEY it returns.
setPubKey_der == Fn("live",
    << New("spkey", {}, "next"), Check({"spkey", "*arg"}, "next"), New("membio", {}, "next"),
       Check({"membio", "*arg"}, "next"), Ret("ok") >>)

util_SetEcPrivateKey == Fn("live",
    << Call("fdGetPrivateKey", "privateKey", "ret"), New("tmpEckey", {"privateKey"}, "next"),
       Check({"tmpEckey"}, "next"), Call("setPubKey_der", "tmpEckey", "next"),
       Check({"*arg", "tmpEckey"}, "ret"), Ret("ok"), At("ret"), Ret("fail") >>)

util_GetPublicKey == Fn("null",
    << New("bio", {}, "ret"), Check({"bio"}, "close"), New("*arg", {"bio"}, "close"),
       Free("bio"), Ret("ok"), At("close"), Free("bio"), At("ret"), Ret("fail") >>)

setEcPublicKey == Fn("null",
    << Call("util_GetPublicKey", "cert", "next"), New("*arg", {}, "next"), Check({"cert"}, "next"),
       Call("genPubDer", "x", "next"), New("ecGroup", {}, "ret"),
       New("ecpoint", {"ecGroup"}, "ret"),
       Check({"ecGroup", "ecpoint"}, "ret"), Check({"*arg", "ecpoint"}, "ret"), Ret("ok"),
       At("ret"), Ret("fail") >>)

util_main == Fn("null",
    << New("ec_key", {}, "next"), Call("util_SetEcPrivateKey", "ec_key", "next"),
       Call("setEcPublicKey", "ec_key2", "next"), Call("getPubKey_der", "x", "next"), Ret("ok") >>)

\* die() ends the program.
test_once == Fn("null",
    << New("private_key", {}, "die"), Check({"private_key"}, "die"),
       Call("print_pub_priv_hex", "private_key", "next"), Check({"private_key"}, "die"),
       New("recon_priv", {"private_key"}, "next"), Call("print_pub_priv_hex", "recon_priv", "next"),
       Check({"private_key"}, "die"), New("recon_pub", {"private_key"}, "next"),
       Call("print_pub_priv_hex", "recon_pub", "next"),
       Free("recon_priv"), Free("recon_pub"), Free("private_key"), Ret("ok"),
       At("die"), Ret("fail") >>)

----------------------------------------------------------------------------
ToolPrograms ==
    [ opensslecdsa_createctx |-> opensslecdsa_createctx,
      opensslecdsa_destroyctx |-> opensslecdsa_destroyctx,
      opensslecdsa_sign |-> opensslecdsa_sign,
      opensslecdsa_verify |-> opensslecdsa_verify,
      opensslecdsa_compare |-> opensslecdsa_compare,
      opensslecdsa_generate |-> opensslecdsa_generate,
      opensslecdsa_isprivate |-> opensslecdsa_isprivate,
      opensslecdsa_destroy |-> opensslecdsa_destroy,
      opensslecdsa_todns |-> opensslecdsa_todns,
      opensslecdsa_fromdns |-> opensslecdsa_fromdns,
      opensslecdsa_tofile |-> opensslecdsa_tofile, ecdsa_check |-> ecdsa_check,
      opensslecdsa_parse |-> opensslecdsa_parse, change_rand |-> change_rand,
      fbytes |-> fbytes, x9_62_test_internal |-> x9_62_test_internal,
      x9_62_tests |-> x9_62_tests, test_builtin |-> test_builtin,
      ecdsatest_main |-> ecdsatest_main, print_pub_priv_hex |-> print_pub_priv_hex,
      fdGetPrivateKey |-> fdGetPrivateKey, genPubDer |-> genPubDer,
      getPubKey_der |-> getPubKey_der, setPubKey_der |-> setPubKey_der,
      util_SetEcPrivateKey |-> util_SetEcPrivateKey,
      util_GetPublicKey |-> util_GetPublicKey, setEcPublicKey |-> setEcPublicKey,
      util_main |-> util_main, test_once |-> test_once ]

\* The DNSSEC functions but two leave nothing behind on any path and never touch a
\* released object: opensslecdsa_verify loses its key when the signature has the wrong
\* length, opensslecdsa_parse the number that held the private key.
DnssecKeysClean ==
    outcome # "running" /\ entry \in
        {"opensslecdsa_createctx", "opensslecdsa_destroyctx", "opensslecdsa_sign",
         "opensslecdsa_compare", "opensslecdsa_generate", "opensslecdsa_isprivate",
         "opensslecdsa_destroy", "opensslecdsa_todns", "opensslecdsa_fromdns",
         "opensslecdsa_tofile", "ecdsa_check"}
      => outcome \in {"ok", "fail"} /\ lost = {}

\* The self test survives every failing call, in every round of its loop over the
\* curves, and loses at most the group it was about to give to a key.
SelfTestClean ==
    entry \in {"x9_62_test_internal", "x9_62_tests", "test_builtin", "ecdsatest_main"}
      => /\ outcome \in {"running", "ok", "fail"}
         /\ lost \subseteq {<<"test_builtin", "group">>}
=============================================================================
