------------------------------ MODULE KeyStore ------------------------------
(***************************************************************************)
(* The key store of bgpsec_openssl and the test programs that drive it.    *)
(* Keys a program registers are filed twice: as a record of a hash table   *)
(* whose key is the AS number alone, and in the slot of an array that the  *)
(* low bits of the record's hash select; the slot number plus one is the   *)
(* id the program signs with.  Record, slot and program share one buffer   *)
(* with the encoded key.  Buffers and EC_KEYs are objects, numbered as     *)
(* they are made; an address is not used again after free.                 *)
(***************************************************************************)
EXTENDS Integers

CONSTANTS
  Key,          \* the BGPSecKey structures of the programs
  AsnOf, SkiOf, \* their AS number (0: not set) and subject key identifier
  hashv,        \* AS number -> value of the hash function
  ID_NUM_MAX,   \* slots of stEnbuf_Eckey
  num_buckets,  \* buckets of the hash table
  IdModulus,    \* ids are u_int8_t: 256
  MaxObj        \* bound: objects a behaviour allocates

ASSUME KeyAssumption ==
  /\ ID_NUM_MAX \in Nat \ {0} /\ num_buckets \in Nat \ {0} /\ MaxObj \in Nat
  /\ IdModulus \in Nat \ {0} /\ ID_NUM_MAX <= IdModulus
  /\ \A k \in Key : AsnOf[k] # 0 => hashv[AsnOf[k]] \in Nat

VARIABLES ks,     \* the store, the heap and the programs' pointers (see KsInit)
          issued, \* key -> the id its last registration returned, 0 for none
          used,   \* the keys registered so far
          blame   \* what went wrong so far

ksvars == <<ks, issued, used, blame>>

NULL == 0
Obj  == 1 .. MaxObj
Slot == 0 .. ID_NUM_MAX - 1
SlotOf(asn) == hashv[asn] % ID_NUM_MAX
EmptySlot == [id |-> 0, ec_key |-> NULL, en_buf |-> NULL]

KsInit ==
  /\ ks = [rec   |-> {},                             \* g_records, numbered by their EC_KEY
           slot  |-> [i \in Slot |-> EmptySlot],     \* stEnbuf_Eckey
           made  |-> 0,                              \* objects made so far
           heap  |-> [o \in Obj |-> "unused"],
           of    |-> [o \in Obj |-> NULL],           \* the key an object was made from
           keyData |-> [k \in Key |-> NULL],
           ret   |-> 0,                              \* what the last call returned
           fault |-> "none"]                         \* first undefined behaviour
  /\ issued = [k \in Key |-> 0]
  /\ used = {} /\ blame = {}

----------------------------------------------------------------------------
(* Steps of the functions, from store to store.                            *)

Fresh(s) == s.made + 1
Room(s, n) == s.made + n <= MaxObj
Returns(s, v) == [s EXCEPT !.ret = v]
Faults(s, f) == IF s.fault = "none" THEN [s EXCEPT !.fault = f] ELSE s

Alloc(s, k) ==
  [s EXCEPT !.made = Fresh(s), !.heap[Fresh(s)] = "live", !.of[Fresh(s)] = k]

FreeObject(s, o, f) == IF o = NULL THEN s
                    ELSE IF s.heap[o] = "freed" THEN Faults(s, f)
                    ELSE [s EXCEPT !.heap[o] = "freed"]

\* HASH_FIND goes by the AS number: of several records it meets the newest first, and
\* a different SKI there means "not found".
restoreKeyInfo(s, k) ==
  {r \in s.rec : /\ r.asn = AsnOf[k] /\ r.ski = SkiOf[k]
                 /\ \A q \in s.rec : q.asn = r.asn => q.no <= r.no}

\* ret_hash_id + RET_ID_OFFSET, in a byte.
ReturnedId(i) == (i + 1) % IdModulus

\* inputKeyInfo: the record points to the program's own buffer; the EC_KEY was made just
\* before.
inputKeyInfo(s, k) ==
  [s EXCEPT !.rec = @ \cup {[asn |-> AsnOf[k], ski |-> SkiOf[k], data |-> s.keyData[k],
                             no |-> s.made]}]

\* registerPrivateKey after the sanity checks.  decodes: d2i_ECPrivateKey makes an
\* EC_KEY; mem: inputKeyInfo gets its memory.  When it returns -1, for want of a copy of the
\* SKI or of a key structure, the key goes to slot 0 and the id says success.  How it ends
\* without returning is RegistrationDies.
RegisterPrivate(s, k, decodes, mem) ==
  IF AsnOf[k] = 0 THEN Returns(s, 0)
  ELSE IF restoreKeyInfo(s, k) # {} THEN Returns(s, ReturnedId(SlotOf(AsnOf[k])))
  ELSE IF s.keyData[k] = NULL \/ ~decodes THEN Returns(s, 0)
  ELSE IF s.heap[s.keyData[k]] = "freed" THEN Faults(s, "stale_buffer")
  ELSE LET e == Fresh(s)
           i == IF mem THEN SlotOf(AsnOf[k]) ELSE 0
           t == IF mem THEN inputKeyInfo(Alloc(s, k), k) ELSE Alloc(s, k)
       IN  [t EXCEPT !.slot[i] = [id |-> i, ec_key |-> e, en_buf |-> s.keyData[k]],
                     !.ret = ReturnedId(i)]

\* registerPublicKey: a known key fills in the caller's missing buffer with a copy; a
\* new one is recorded but gets no slot, and its EC_KEY is forgotten.  Its call of
\* inputKeyInfo has a sixth argument, which the five-parameter function does not take: the
\* model is of the call with five, outKeyData staying NULL.
RegisterPublic(s, k, decodes, mem) ==
  LET r == restoreKeyInfo(s, k)
      id == ReturnedId(SlotOf(AsnOf[k]))
  IN  IF AsnOf[k] = 0 THEN Returns(s, 0)
      ELSE IF r # {}
           THEN IF \E q \in r : q.data # NULL /\ s.heap[q.data] = "freed"
                THEN Faults(s, "stale_record")
                ELSE IF s.keyData[k] # NULL \/ ~mem THEN Returns(s, id)
                ELSE [Alloc(s, k) EXCEPT !.keyData[k] = Fresh(s), !.ret = id]
      ELSE IF s.keyData[k] = NULL \/ ~decodes THEN Returns(s, 0)
      ELSE IF s.heap[s.keyData[k]] = "freed" THEN Faults(s, "stale_buffer")
      ELSE IF mem THEN Returns(inputKeyInfo(Alloc(s, k), k), id)
      ELSE Returns(Alloc(s, k), ReturnedId(0))

\* stBgpsecReqSigningWithID: a failing ECDSA_sign releases the key the slot still names.
SignWithID(s, in, signs) ==
  LET e == s.slot[in - 1].ec_key
  IN  IF in = 0 THEN Returns(s, -1)
      ELSE IF e = NULL THEN Returns(s, 0)
      ELSE IF s.heap[e] = "freed" THEN Faults(s, "stale_key")
      ELSE IF signs THEN Returns(s, 1)
      ELSE Returns(FreeObject(s, e, "never"), 0)

\* The loop of unregisterPrivateKey over the records.  It goes on by the next pointer of a
\* record it has just released: here that still holds what it held, and otherwise the call
\* is UnregistrationDies.
DropRecords(s, i) ==
  [s EXCEPT !.rec = {r \in @ : ~ (/\ hashv[r.asn] % num_buckets = i
                                  /\ r.data = s.slot[i].en_buf)}]

\* Mutant of ClearSlot: the slot keeps naming what was released.
ClearSlotNot(s, i) == s

ClearSlot(s, i) == [s EXCEPT !.slot[i] = EmptySlot]

\* inID - RET_ID_OFFSET, in a byte.
SlotNamed(in) == (in + IdModulus - 1) % IdModulus

\* unregisterPrivateKey: the id of an empty slot is 0, which only slot 0 accepts.
UnregisterPrivate(s, in) ==
  LET i == SlotNamed(in)
      t == DropRecords(s, i)
      u == FreeObject(FreeObject(t, s.slot[i].ec_key, "key_twice"),
                      s.slot[i].en_buf, "buffer_twice")
  IN  IF i \notin Slot THEN Faults(s, "no_slot")
      ELSE IF s.slot[i].id # i THEN Returns(s, 0)
      ELSE Returns(ClearSlot(u, i), 0)

\* unregisterKey with deleteKeyInfo, which hands the encoded buffer to EC_KEY_free.
Unregister(s, k) ==
  LET r == restoreKeyInfo(s, k)
  IN  IF AsnOf[k] = 0 \/ r = {} THEN Returns(s, 0)
      ELSE IF \E q \in r : q.data # NULL THEN Faults(s, "wrong_type")
      ELSE Returns([s EXCEPT !.rec = @ \ r], 0)

\* sca_loadKey by a program: a new buffer, whatever the pointer held.
Load(s, k, ok) == IF ok THEN [Alloc(s, k) EXCEPT !.keyData[k] = Fresh(s)]
                  ELSE [s EXCEPT !.keyData[k] = NULL]

FreeData(s, k) == [FreeObject(s, s.keyData[k], "buffer_twice") EXCEPT !.keyData[k] = NULL]

----------------------------------------------------------------------------
(* The test programs' functions, each as one step.                         *)

Going == ks.fault = "none"
When(b, x) == IF b THEN {x} ELSE {}
Clash(k) == \E j \in used \ {k} : SlotOf(AsnOf[j]) = SlotOf(AsnOf[k])

\* The key's slot is the last a byte can number: its id is 0, as if it were refused.
IdIsZero(k) == AsnOf[k] # 0 /\ ReturnedId(SlotOf(AsnOf[k])) = 0

\* The buffer is released with a record left that points to it: the buckets of the hash
\* are not the slots of the array.
RecordStays(in) ==
  SlotNamed(in) \in Slot /\
  \E r \in UnregisterPrivate(ks, in).rec : r.data # NULL /\ r.data = ks.slot[SlotNamed(in)].en_buf

\* key_loading of perf_test, and the loads of test_loadKey.
KeyLoading(k) ==
  /\ Going /\ Room(ks, 1) /\ ks.keyData[k] = NULL
  /\ \E ok \in BOOLEAN : ks' = Load(ks, k, ok)
  /\ UNCHANGED <<issued, used, blame>>

\* testRegisterPrivateKey registers the key a second time to see what happens.
TestRegisterPrivateKey(k) ==
  /\ Going
  /\ \E d, m \in BOOLEAN :
        Room(ks, IF m THEN 1 ELSE 2) /\
        LET s == RegisterPrivate(RegisterPrivate(ks, k, d, m), k, d, m)
        IN  /\ ks' = s
            /\ issued' = [issued EXCEPT ![k] = s.ret]
            /\ blame' = blame \cup When(~m, "no_memory") \cup When(Clash(k), "shared_slot")
                              \cup When(IdIsZero(k), "id_zero")
  /\ used' = used \cup {k}

\* The REGISTER_KEY part of perf_test's validation_test.
RegisterPublicKey(k) ==
  /\ Going /\ Room(ks, 1)
  /\ \E d, m \in BOOLEAN :
        /\ ks' = RegisterPublic(ks, k, d, m)
        /\ blame' = blame \cup {"public"} \cup When(~m, "no_memory")
                          \cup When(Clash(k), "shared_slot")
  /\ used' = used \cup {k}
  /\ UNCHANGED issued

TestSignWithID(k) ==
  /\ Going /\ issued[k] # 0
  /\ \E ok \in BOOLEAN :
        ks' = SignWithID(ks, issued[k], ok) /\ blame' = blame \cup When(~ok, "sign_failed")
  /\ UNCHANGED <<issued, used>>

\* testUnregisterKey: after the library's release the program releases the same buffer.
TestUnregisterKey(k) ==
  /\ Going /\ issued[k] # 0
  /\ ks' = FreeData(UnregisterPrivate(ks, issued[k]), k)
  /\ issued' = [issued EXCEPT ![k] = 0]
  /\ blame' = blame \cup {"program_freed"} \cup When(RecordStays(issued[k]), "record_stays")
  /\ UNCHANGED used

\* A program that leaves the buffer to the library.
UnregisterPrivateKey(k) ==
  /\ Going /\ issued[k] # 0
  /\ ks' = [UnregisterPrivate(ks, issued[k]) EXCEPT !.keyData[k] = NULL]
  /\ issued' = [issued EXCEPT ![k] = 0]
  /\ blame' = blame \cup When(RecordStays(issued[k]), "record_stays")
  /\ UNCHANGED used

\* main unregisters the 0 that its registration without a key returned.
MainUnregister ==
  /\ Going /\ ks' = UnregisterPrivate(ks, 0)
  /\ blame' = blame \cup When(RecordStays(0), "record_stays")
  /\ UNCHANGED <<issued, used>>

UnregisterKey(k) ==
  /\ Going /\ ks' = Unregister(ks, k) /\ UNCHANGED <<issued, used, blame>>

\* The end of testVerify_withPublicKeyInfo.
ProgramFrees(k) ==
  /\ Going /\ ks.keyData[k] # NULL
  /\ ks' = FreeData(ks, k)
  /\ blame' = blame \cup {"program_freed"}
  /\ UNCHANGED <<issued, used>>

\* A new key's registration, private or public, in which inputKeyInfo has undefined behaviour:
\* without memory for the key structure it releases its uninitialised pointer to the record,
\* without memory for the record it clears one at NULL.
RegistrationDies(k) ==
  /\ Going /\ AsnOf[k] # 0 /\ restoreKeyInfo(ks, k) = {}
  /\ ks.keyData[k] # NULL /\ ks.heap[ks.keyData[k]] # "freed"
  /\ \E f \in {"wild_free", "null_write"} : ks' = Faults(ks, f)
  /\ blame' = blame \cup {"no_memory"}
  /\ UNCHANGED <<issued, used>>

\* A removal by an id that was returned, or by main's 0, that releases a record and then finds
\* something else in its next pointer.
UnregistrationDies ==
  /\ Going
  /\ \E in \in {issued[k] : k \in Key} \cup {0} :
        LET i == SlotNamed(in)
        IN  i \in Slot /\ ks.slot[i].id = i /\ DropRecords(ks, i).rec # ks.rec
  /\ ks' = Faults(ks, "freed_record")
  /\ UNCHANGED <<issued, used, blame>>

KsNext ==
  \/ \E k \in Key :
        \/ KeyLoading(k) \/ TestRegisterPrivateKey(k) \/ RegisterPublicKey(k)
        \/ TestSignWithID(k) \/ TestUnregisterKey(k) \/ UnregisterPrivateKey(k)
        \/ UnregisterKey(k) \/ ProgramFrees(k) \/ RegistrationDies(k)
  \/ MainUnregister \/ UnregistrationDies

KsSpec == KsInit /\ [][KsNext]_ksvars
----------------------------------------------------------------------------
KsTypeOK ==
  /\ ks.slot \in [Slot -> [id : Slot, ec_key : Obj \cup {NULL}, en_buf : Obj \cup {NULL}]]
  /\ ks.heap \in [Obj -> {"unused", "live", "freed"}]
  /\ ks.ret \in -1 .. IdModulus - 1
  /\ issued \in [Key -> 0 .. IdModulus - 1]

\* While no two keys share a slot, no allocation or signature failed, no record outlived
\* its key and no public key was registered, the id a registration returned signs with
\* the key that was registered, and the slot and the program agree on its buffer.
IdMeansItsKey ==
  \A k \in Key : issued[k] # 0 /\ Going /\ blame \subseteq {"program_freed", "id_zero"} =>
    LET e == ks.slot[issued[k] - 1]
    IN  /\ e.ec_key # NULL /\ ks.of[e.ec_key] = k /\ ks.heap[e.ec_key] = "live"
        /\ e.en_buf = ks.keyData[k] \/ ks.keyData[k] = NULL \/ "program_freed" \in blame

\* A released EC_KEY is used or released again only after a signature has failed:
\* neither overwritten slots nor failed allocations make the array name a dead key.
DeadKeyNeedsFailedSign == ks.fault \in {"stale_key", "key_twice"} => "sign_failed" \in blame

\* A buffer is released twice or read after its release only when a program released
\* it itself, two keys met in one slot (a failed allocation sends a key to slot 0), a record
\* outlived its key, or a key got the id 0, with which main releases it.
DeadBufferNeedsCause ==
  ks.fault \in {"stale_buffer", "stale_record", "buffer_twice"}
    => blame \cap {"program_freed", "shared_slot", "no_memory", "record_stays", "id_zero"} # {}

\* A pointer that was never set is released, and NULL written to, only for want of memory; a
\* released record is read on only when a removal found a record in the bucket that has the
\* number of its slot, filed with the slot's buffer.
WildAccessNeedsCause ==
  /\ ks.fault \in {"wild_free", "null_write"} => "no_memory" \in blame
  /\ ks.fault = "freed_record" =>
       \E i \in Slot, r \in ks.rec :
         hashv[r.asn] % num_buckets = i /\ r.data = ks.slot[i].en_buf

\* Through any sequence of registrations, signatures and removals an id stands for its key,
\* and no key or buffer is used or released after its release, and no other pointer followed
\* that points nowhere, but for the causes named.
StoreSound ==
  /\ KsTypeOK /\ IdMeansItsKey
  /\ DeadKeyNeedsFailedSign /\ DeadBufferNeedsCause /\ WildAccessNeedsCause
=============================================================================
