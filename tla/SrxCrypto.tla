----------------------------- MODULE SrxCrypto -----------------------------
(***************************************************************************)
(* The SRx crypto API object: srxCryptoInit opens the configured library   *)
(* and binds ten method pointers, srxCryptoUnbind closes it.  A pointer is *)
(* NULL, uninitialised ("garbage"), into the library ("lib") or to a local *)
(* wrapper ("wrap").  Two programs use it: test_loadKey calls methods only *)
(* after a successful init, perf_test whatever the init returned.          *)
(***************************************************************************)
EXTENDS Integers

CONSTANTS Configs   \* what configuration and library may be found, see ReadConfig

ASSUME ConfigsAssumption == \A c \in Configs : c.file \in BOOLEAN /\ c.reads \in BOOLEAN
                                               /\ c.opens \in BOOLEAN

Core   == {"validate", "sign_with_id", "sign_with_key", "registerPrivateKey",
           "unregisterPrivateKey"}
Method == Core \cup {"extValidate", "registerPublicKey", "unregisterPublicKey",
                     "isExtended", "isPrivateKeyStorage"}

VARIABLES api,      \* [libHandle, method]
          handles,  \* dlopen calls not yet matched by dlclose
          sret,     \* what srxCryptoInit returned last, -1 before the first call
          called,   \* "ok", or what a method call or a close ran into
          answer    \* what the last method call returned

svars == <<api, handles, sret, called, answer>>

\* The two programs' objects straight from malloc; init_handle of perf_test sets six
\* methods and the handle to NULL first, test_loadKey nothing.
SrxInit ==
  /\ \/ \E h \in {"NULL", "garbage"} :
           api = [libHandle |-> h, method |-> [m \in Method |-> "garbage"]]
     \/ api = [libHandle |-> "NULL",
               method |-> [m \in Method |->
                 IF m \in Core \cup {"isExtended"} THEN "NULL" ELSE "garbage"]]
  /\ handles = 0 /\ sret = -1 /\ called = "ok" /\ answer = "none"

----------------------------------------------------------------------------
\* The file and its mapping section.  c.file: a configuration file is named or found;
\* c.reads: it parses; c.conf: its library_conf is "absent", names "no section" or a
\* "section"; c.opens: dlopen finds the library (without a name, the program itself).
_checkConfigFile(c) == c.file
Mapping(c) == IF c.conf = "absent" THEN "local"
              ELSE IF c.conf = "section" THEN "library" ELSE "failed"
ReadConfig(c) == IF ~_checkConfigFile(c) THEN "no file"
                 ELSE IF c.reads THEN Mapping(c) ELSE "failed"

\* One method: the configured name, else the default name, else the wrapper.
\* c.named, c.exports: methods whose configured or default name the library has.
Bind(c, m) == IF m \in c.named \/ m \in c.exports THEN "lib" ELSE "wrap"

BindTo(f, M, c) == [m \in Method |-> IF m \in M THEN Bind(c, m) ELSE f[m]]

BindValidate(f, c) == BindTo(f, {"validate", "extValidate"}, c)
BindSign(f, c)     == BindTo(f, {"sign_with_id", "sign_with_key"}, c)
BindPrivate(f, c)  == BindTo(f, {"registerPrivateKey", "unregisterPrivateKey"}, c)
BindPublic(f, c)   == BindTo(f, {"registerPublicKey", "unregisterPublicKey"}, c)
BindFeature(f, c)  == BindTo(f, {"isExtended", "isPrivateKeyStorage"}, c)
BindAll(f, c) ==
  BindFeature(BindPublic(BindPrivate(BindSign(BindValidate(f, c), c), c), c), c)

\* Mutant of UnbindMethods: what init does not reset, unbind does not either.
UnbindMethodsShort(f) ==
  [m \in Method |-> IF m \in Core \ {"unregisterPrivateKey"} THEN "NULL" ELSE f[m]]

\* Only five of the ten pointers are reset.
UnbindMethods(f) == [m \in Method |-> IF m \in Core THEN "NULL" ELSE f[m]]

Unbound(a) == [libHandle |-> "NULL", method |-> UnbindMethods(a.method)]

\* At the start of an init; unregisterPrivateKey keeps its value until it is bound.
ResetMethods(f) ==
  [m \in Method |-> IF m \in Core \ {"unregisterPrivateKey"} THEN "NULL" ELSE f[m]]

\* The local wrappers replace five methods; the library handle stays NULL.
LocalMapping(f) == [m \in Method |-> IF m \in Core THEN "wrap" ELSE f[m]]

AlreadyInitialised(a) == a.libHandle # "NULL"

\* Without a configuration file the local wrappers announced in the log are not bound.
srxCryptoInit(c) ==
  /\ called = "ok"
  /\ LET r == ReadConfig(c)
         f == ResetMethods(api.method)
     IN  \/ /\ AlreadyInitialised(api)
            /\ sret' = 0 /\ UNCHANGED <<api, handles>>
         \/ /\ ~AlreadyInitialised(api) /\ r = "library" /\ c.opens
            /\ api' = [libHandle |-> "lib", method |-> BindAll(f, c)]
            /\ handles' = handles + 1 /\ sret' = 1
         \/ /\ ~AlreadyInitialised(api) /\ r = "local"
            /\ api' = [libHandle |-> "NULL", method |-> LocalMapping(f)]
            /\ sret' = 1 /\ UNCHANGED handles
         \/ /\ ~AlreadyInitialised(api) /\ r # "local" /\ (r = "library" => ~c.opens)
            /\ api' = Unbound([api EXCEPT !.method = f])
            /\ sret' = 0 /\ UNCHANGED handles
  /\ UNCHANGED <<called, answer>>

\* Closing a handle that dlopen did not return is undefined. This is the build without
\* HAVE_LTDL_H; with it the module is closed by lt_dlclose and lt_dlexit follows, which is
\* not modelled.
srxCryptoUnbind ==
  /\ called = "ok"
  /\ api' = Unbound(api)
  /\ IF api.libHandle = "garbage" THEN called' = "closed garbage" ELSE UNCHANGED called
  /\ handles' = IF api.libHandle = "lib" THEN handles - 1 ELSE handles
  /\ sret' = -1 /\ UNCHANGED answer

Reaches(m) == IF api.method[m] = "lib" /\ handles = 0 THEN "unloaded" ELSE api.method[m]

\* The local wrappers: an error for a validation, 0 (no signature, no key id) for the
\* rest, and 1 for the two questions about features.
Wrapper(m) == IF m \in {"validate", "extValidate"} THEN "error"
              ELSE IF m \in {"isExtended", "isPrivateKeyStorage"} THEN "yes" ELSE "nothing"

CallMethod(m) ==
  /\ called = "ok"
  /\ called' = IF Reaches(m) \in {"lib", "wrap"} THEN "ok" ELSE Reaches(m)
  /\ answer' = IF Reaches(m) = "wrap" THEN Wrapper(m)
               ELSE IF Reaches(m) = "lib" THEN "library" ELSE "none"
  /\ UNCHANGED <<api, handles, sret>>

\* main of test_loadKey.
TestLoadKeyMain == sret = 1 /\ \E m \in Core : CallMethod(m)

\* The extended methods, which a program may use when isExtended says so.
ExtendedCall == sret = 1 /\ api.libHandle = "lib" /\ \E m \in Method \ Core : CallMethod(m)

\* signing_test and validation_test of perf_test do not look at the init's result.
PerfTest == sret # -1 /\ \E m \in {"sign_with_key", "validate"} : CallMethod(m)

SrxNext == \/ \E c \in Configs : srxCryptoInit(c)
           \/ srxCryptoUnbind \/ TestLoadKeyMain \/ ExtendedCall \/ PerfTest

SrxSpec == SrxInit /\ [][SrxNext]_svars

----------------------------------------------------------------------------
SrxTypeOK ==
  /\ api \in [libHandle : {"NULL", "garbage", "lib"},
             method : [Method -> {"NULL", "garbage", "lib", "wrap"}]]
  /\ handles \in Nat /\ sret \in {-1, 0, 1}
  /\ answer \in {"none", "library", "error", "nothing", "yes"}

\* Programs that heed the init's result reach code with every call: an init that
\* succeeded bound the five core methods, with a library handle all ten, and no sequence
\* of failed inits and unbinds in between leaves one of them stale.
GuardedCallsLand ==
  sret = 1 => /\ \A m \in Core : Reaches(m) \in {"lib", "wrap"}
              /\ api.libHandle = "lib" => \A m \in Method : Reaches(m) \in {"lib", "wrap"}

\* A call goes astray only after an init that failed: to a NULL pointer or, where
\* uninitialised memory was taken for an open library, to garbage.
AstrayCalls == called \in {"NULL", "garbage", "unloaded"} =>
                 sret = 0 /\ (called # "NULL" => api.libHandle = "garbage")

\* Unbinding leaves five method pointers into the library it has closed, but never one
\* of the five that the programs call.
NoCoreDangles == \A m \in Core : Reaches(m) # "unloaded"

\* Every library opened is closed once: the object's handle is the only open one.
OneHandle == handles = IF api.libHandle = "lib" THEN 1 ELSE 0

\* No sequence of successful, failed and repeated inits and unbinds makes a call of a program
\* that heeds init's result leave the library's or the wrappers' code, or loses a handle.
BindingSound ==
  SrxTypeOK /\ GuardedCallsLand /\ AstrayCalls /\ NoCoreDangles /\ OneHandle
=============================================================================
