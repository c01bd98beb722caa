----------------------------- MODULE WalletProofs -----------------------------
(***************************************************************************)
(* Proofs about Wallet, the model of src/hathor/wallet/wallet.py, for any  *)
(* finite set of addresses, any passwords, any batch size and any number   *)
(* of restarts.                                                            *)
(***************************************************************************)
EXTENDS Wallet, SequenceTheorems, TLAPS

(* The keys held in memory, (o, ks, un) under password pw, when every     *)
(* address was produced before (cr): order and dict agree, all key pairs   *)
(* share one encryption, unused_keys matches the flags and an unlocked     *)
(* password opens every key.                                               *)
MemOK(o, ks, un, pw, cr) ==
    /\ o \in Seq(Addresses) /\ NoDup(o)
    /\ ks \in [SeqRange(o) -> KeyPair]
    /\ SeqRange(o) \subseteq cr
    /\ \A a, b \in DOMAIN ks : ks[a].enc = ks[b].enc
    /\ un = {a \in DOMAIN ks : ~ks[a].used}
    /\ pw # None => \A a \in DOMAIN ks : ks[a].enc = pw

(* The keys file f: each address once, one encryption, all produced.      *)
FileOK(f, cr) ==
    /\ f \in Seq(Entry)
    /\ \A i, j \in DOMAIN f : f[i].addr = f[j].addr => i = j
    /\ \A i, j \in DOMAIN f : f[i].enc = f[j].enc
    /\ \A i \in DOMAIN f : f[i].addr \in cr

(* The inductive invariant.                                                *)
WInv ==
    /\ MemOK(order, keys, unused_keys, password, created)
    /\ FileOK(file, created)
    /\ password \in Passwords \cup {None}
    /\ restarts \in 0..MaxRestarts
    /\ {created, given, received, pending} \subseteq SUBSET Addresses
    /\ pc \in {"idle", "writing", "down"}

-----------------------------------------------------------------------------
(* Concatenating two duplicate-free sequences with disjoint ranges.        *)
LEMMA ConcatDisjoint ==
  ASSUME NEW S, NEW s \in Seq(S), NEW t \in Seq(S),
         NoDup(s), NoDup(t), SeqRange(s) \cap SeqRange(t) = {}
  PROVE  /\ s \o t \in Seq(S)
         /\ SeqRange(s \o t) = SeqRange(s) \cup SeqRange(t)
         /\ NoDup(s \o t)
<1>1. s \o t \in Seq(S) /\ Len(s \o t) = Len(s) + Len(t)
  BY ConcatProperties
<1>2. \A i \in 1..Len(s \o t) :
         \/ i \in 1..Len(s) /\ (s \o t)[i] = s[i]
         \/ i - Len(s) \in 1..Len(t) /\ (s \o t)[i] = t[i - Len(s)]
  BY ConcatProperties
<1>3. SeqRange(s \o t) = SeqRange(s) \cup SeqRange(t)
  <2>1. SeqRange(s \o t) \subseteq SeqRange(s) \cup SeqRange(t)
    BY <1>1, <1>2 DEF SeqRange
  <2>2. SeqRange(s) \subseteq SeqRange(s \o t)
    <3>0. DOMAIN s = 1..Len(s)
      BY LenProperties
    <3> SUFFICES ASSUME NEW i \in 1..Len(s) PROVE s[i] \in SeqRange(s \o t)
      BY <3>0 DEF SeqRange
    <3>. QED
      BY <1>1, ConcatProperties DEF SeqRange
  <2>3. SeqRange(t) \subseteq SeqRange(s \o t)
    <3>0. DOMAIN t = 1..Len(t)
      BY LenProperties
    <3> SUFFICES ASSUME NEW i \in 1..Len(t) PROVE t[i] \in SeqRange(s \o t)
      BY <3>0 DEF SeqRange
    <3>1. Len(s) + i \in 1..Len(s \o t) /\ (s \o t)[Len(s) + i] = t[i]
      BY <1>1, ConcatProperties
    <3>. QED
      BY <1>1, <3>1 DEF SeqRange
  <2>. QED
    BY <2>1, <2>2, <2>3
<1>4. NoDup(s \o t)
  <2> DEFINE u == s \o t
  <2>a. DOMAIN u = 1..Len(u)
    BY <1>1, LenProperties, Zenon
  <2> SUFFICES ASSUME NEW i \in 1..Len(u), NEW j \in 1..Len(u), u[i] = u[j]
               PROVE  i = j
    BY <2>a, Zenon DEF NoDup
  <2>0. /\ i \in 1..Len(s \o t) /\ j \in 1..Len(s \o t)
        /\ (s \o t)[i] = (s \o t)[j]
        /\ DOMAIN s = 1..Len(s) /\ DOMAIN t = 1..Len(t)
    BY LenProperties
  <2>1. CASE i \in 1..Len(s) /\ (s \o t)[i] = s[i]
    <3>1. CASE j \in 1..Len(s) /\ (s \o t)[j] = s[j]
      <4>1. i \in DOMAIN s /\ j \in DOMAIN s /\ s[i] = s[j]
        BY <2>0, <2>1, <3>1
      <4>. QED
        BY <4>1 DEF NoDup
    <3>2. CASE j - Len(s) \in 1..Len(t) /\ (s \o t)[j] = t[j - Len(s)]
      <4>1. s[i] \in SeqRange(s) /\ t[j - Len(s)] \in SeqRange(t)
        BY <2>1, <3>2 DEF SeqRange
      <4>. QED
        BY <2>1, <3>2, <4>1
    <3>. QED
      BY <3>1, <3>2, <2>0, <1>2
  <2>2. CASE i - Len(s) \in 1..Len(t) /\ (s \o t)[i] = t[i - Len(s)]
    <3>1. CASE j \in 1..Len(s) /\ (s \o t)[j] = s[j]
      <4>1. s[j] \in SeqRange(s) /\ t[i - Len(s)] \in SeqRange(t)
        BY <2>2, <3>1 DEF SeqRange
      <4>. QED
        BY <2>2, <3>1, <4>1
    <3>2. CASE j - Len(s) \in 1..Len(t) /\ (s \o t)[j] = t[j - Len(s)]
      <4>1. /\ i - Len(s) \in DOMAIN t /\ j - Len(s) \in DOMAIN t
            /\ t[i - Len(s)] = t[j - Len(s)]
        BY <2>0, <2>2, <3>2
      <4>2. i - Len(s) = j - Len(s)
        BY <4>1 DEF NoDup
      <4>. QED
        BY <4>2, <2>0
    <3>. QED
      BY <3>1, <3>2, <2>0, <1>2
  <2>. QED
    BY <2>1, <2>2, <2>0, <1>2
<1>. QED
  BY <1>1, <1>3, <1>4

(* A batch from FreshBatches is a duplicate-free sequence of new addresses. *)
LEMMA BatchFacts ==
  ASSUME NEW b \in FreshBatches, KeyBatch \in Nat
  PROVE  /\ b \in Seq(Addresses)
         /\ NoDup(b)
         /\ SeqRange(b) \subseteq Addresses \ created
BY DEF FreshBatches, SeqRange

-----------------------------------------------------------------------------
(* The initial wallet, with no keys and no file, satisfies the invariant.  *)
LEMMA WInitInv == WInit => WInv
<1> SUFFICES ASSUME WInit PROVE WInv
  OBVIOUS
<1>1. MemOK(order, keys, unused_keys, password, created)
  BY DEF WInit, MemOK, SeqRange, NoDup
<1>2. FileOK(file, created)
  BY DEF WInit, FileOK
<1>. QED
  BY <1>1, <1>2, WalletAssumption DEF WInit, WInv

(* The invariant gives the properties the wallet run checks.               *)
LEMMA WInvProps == WInv => WTypeOK /\ UnusedMatchesFlags /\ PasswordOpensKeys
BY DEF WInv, MemOK, FileOK, WTypeOK, UnusedMatchesFlags, PasswordOpensKeys

-----------------------------------------------------------------------------
(* generate_keys keeps the memory invariant: the batch is new, so it       *)
(* extends order and dict without a clash, unused, under the password.     *)
LEMMA GenMem ==
  ASSUME NEW b \in FreshBatches,
         MemOK(order, keys, unused_keys, password, created),
         password \in Passwords
  PROVE  MemOK(order \o b, AddKeys(keys, b), unused_keys \cup SeqRange(b),
               password, created \cup SeqRange(b))
<1>0. KeyBatch \in Nat
  BY WalletAssumption
<1>1. /\ b \in Seq(Addresses) /\ NoDup(b)
      /\ SeqRange(b) \subseteq Addresses \ created
  BY <1>0, BatchFacts
<1>2. /\ order \in Seq(Addresses) /\ NoDup(order)
      /\ SeqRange(order) \subseteq created
      /\ keys \in [SeqRange(order) -> KeyPair]
  BY DEF MemOK
<1>3. SeqRange(order) \cap SeqRange(b) = {}
  BY <1>1, <1>2
<1>4. /\ order \o b \in Seq(Addresses)
      /\ SeqRange(order \o b) = SeqRange(order) \cup SeqRange(b)
      /\ NoDup(order \o b)
  BY <1>1, <1>2, <1>3, ConcatDisjoint
<1>5. AddKeys(keys, b) \in [SeqRange(order \o b) -> KeyPair]
  BY <1>2, <1>4 DEF AddKeys, KeyPair
<1>6. \A a \in DOMAIN keys : keys[a].enc = password
  BY WalletAssumption DEF MemOK
<1>7. \A a \in DOMAIN AddKeys(keys, b) : AddKeys(keys, b)[a].enc = password
  BY <1>6 DEF AddKeys
<1>8. unused_keys \cup SeqRange(b) =
        {a \in DOMAIN AddKeys(keys, b) : ~AddKeys(keys, b)[a].used}
  <2>1. unused_keys = {a \in DOMAIN keys : ~keys[a].used}
    BY DEF MemOK
  <2>2. DOMAIN keys = SeqRange(order)
    BY <1>2
  <2>. QED
    BY <2>1, <2>2, <1>3 DEF AddKeys
<1>. QED
  BY <1>2, <1>4, <1>5, <1>7, <1>8 DEF MemOK

(* Marking a held address used and discarding it from the unused set      *)
(* keeps the memory invariant.                                             *)
LEMMA TakeMem ==
  ASSUME NEW o, NEW ks, NEW un, NEW pw, NEW cr, NEW a \in DOMAIN ks,
         MemOK(o, ks, un, pw, cr)
  PROVE  /\ MemOK(o, ks, un, pw, cr)
         /\ MemOK(o, [ks EXCEPT ![a].used = TRUE], un \ {a}, pw, cr)
<1> DEFINE ks2 == [ks EXCEPT ![a].used = TRUE]
<1>1. /\ ks \in [SeqRange(o) -> KeyPair]
      /\ un = {x \in DOMAIN ks : ~ks[x].used}
  BY DEF MemOK
<1>2. ks2 \in [SeqRange(o) -> KeyPair]
  BY <1>1 DEF KeyPair
<1>3. DOMAIN ks2 = DOMAIN ks /\ \A x \in DOMAIN ks : ks2[x].enc = ks[x].enc
  BY <1>1
<1>4. un \ {a} = {x \in DOMAIN ks2 : ~ks2[x].used}
  BY <1>1
<1>. QED
  BY <1>2, <1>3, <1>4 DEF MemOK

(* What _write_keys_to_file writes from keys satisfying the memory         *)
(* invariant is a well-formed keys file.                                   *)
LEMMA FileOfMem ==
  ASSUME NEW o, NEW ks, NEW un, NEW pw, NEW cr, MemOK(o, ks, un, pw, cr)
  PROVE  FileOK(KeysFile(o, ks), cr)
<1>1. /\ o \in Seq(Addresses) /\ NoDup(o)
      /\ ks \in [SeqRange(o) -> KeyPair]
      /\ SeqRange(o) \subseteq cr
      /\ \A a, b \in DOMAIN ks : ks[a].enc = ks[b].enc
  BY DEF MemOK
<1>2. /\ DOMAIN o = 1..Len(o)
      /\ \A i \in 1..Len(o) : o[i] \in SeqRange(o)
  BY <1>1 DEF SeqRange
<1>3. KeysFile(o, ks) \in Seq(Entry)
  BY <1>1, <1>2 DEF KeysFile, Entry, KeyPair
<1>. QED
  BY <1>1, <1>2, <1>3 DEF FileOK, KeysFile, NoDup

-----------------------------------------------------------------------------
(* What Restart rebuilds from a keys file f (read_keys_from_file).         *)
ReloadOrder(f) == [i \in DOMAIN f |-> f[i].addr]

ReloadKeys(f) ==
    [a \in {f[i].addr : i \in DOMAIN f} |->
        LET e == CHOOSE e \in SeqRange(f) : e.addr = a
        IN  [used |-> e.used, enc |-> e.enc]]

ReloadUnused(f) == {f[i].addr : i \in {j \in DOMAIN f : ~f[j].used}}

(* read_keys_from_file keeps, for every entry of a well-formed file (one  *)
(* entry per address), that entry's flag and encryption.                   *)
LEMMA ReloadEntry ==
  ASSUME NEW f, NEW cr, FileOK(f, cr), NEW i \in DOMAIN f
  PROVE  ReloadKeys(f)[f[i].addr] = [used |-> f[i].used, enc |-> f[i].enc]
<1>1. \A k, j \in DOMAIN f : f[k].addr = f[j].addr => k = j
  BY DEF FileOK
<1>2. \E e \in SeqRange(f) : e.addr = f[i].addr
  BY DEF SeqRange
<1> DEFINE e0 == CHOOSE e \in SeqRange(f) : e.addr = f[i].addr
<1>3. e0 \in SeqRange(f) /\ e0.addr = f[i].addr
  BY <1>2
<1>4. PICK k \in DOMAIN f : e0 = f[k]
  BY <1>3 DEF SeqRange
<1>5. k = i
  BY <1>1, <1>3, <1>4
<1>. QED
  BY <1>4, <1>5 DEF ReloadKeys

(* Reloading a well-formed keys file gives keys satisfying the memory      *)
(* invariant, for the locked wallet Wallet() starts as.                    *)
LEMMA ReloadMem ==
  ASSUME NEW f, NEW cr, FileOK(f, cr)
  PROVE  MemOK(ReloadOrder(f), ReloadKeys(f), ReloadUnused(f), None, cr)
<1>1. /\ f \in Seq(Entry)
      /\ \A i, j \in DOMAIN f : f[i].addr = f[j].addr => i = j
      /\ \A i, j \in DOMAIN f : f[i].enc = f[j].enc
      /\ \A i \in DOMAIN f : f[i].addr \in cr
  BY DEF FileOK
<1>2. DOMAIN f = 1..Len(f) /\ \A i \in DOMAIN f : f[i] \in Entry
  BY <1>1
<1>3. /\ ReloadOrder(f) \in Seq(Addresses)
      /\ NoDup(ReloadOrder(f))
      /\ SeqRange(ReloadOrder(f)) = {f[i].addr : i \in DOMAIN f}
      /\ SeqRange(ReloadOrder(f)) \subseteq cr
  <2>1. ReloadOrder(f) \in [1..Len(f) -> Addresses]
    BY <1>2 DEF ReloadOrder, Entry
  <2>2. ReloadOrder(f) \in Seq(Addresses)
    BY <2>1, <1>2
  <2>3. NoDup(ReloadOrder(f))
    BY <1>1 DEF NoDup, ReloadOrder
  <2>4. SeqRange(ReloadOrder(f)) = {f[i].addr : i \in DOMAIN f}
    BY DEF SeqRange, ReloadOrder
  <2>. QED
    BY <2>2, <2>3, <2>4, <1>1
<1>4. \A i \in DOMAIN f :
        ReloadKeys(f)[f[i].addr] = [used |-> f[i].used, enc |-> f[i].enc]
  BY <1>1, ReloadEntry
<1>4b. DOMAIN ReloadKeys(f) = {f[i].addr : i \in DOMAIN f}
  BY DEF ReloadKeys
<1>5. ReloadKeys(f) \in [SeqRange(ReloadOrder(f)) -> KeyPair]
  <2>1. DOMAIN ReloadKeys(f) = SeqRange(ReloadOrder(f))
    BY <1>3 DEF ReloadKeys
  <2>2. ASSUME NEW a \in SeqRange(ReloadOrder(f)) PROVE ReloadKeys(f)[a] \in KeyPair
    <3>1. PICK i \in DOMAIN f : a = f[i].addr
      BY <1>3
    <3>2. f[i] \in Entry
      BY <1>2
    <3>3. [used |-> f[i].used, enc |-> f[i].enc] \in KeyPair
      BY <3>2 DEF Entry, KeyPair
    <3>. QED
      BY <3>1, <3>3, <1>4
  <2>. QED
    BY <2>1, <2>2 DEF ReloadKeys
<1>6. \A a, b \in DOMAIN ReloadKeys(f) : ReloadKeys(f)[a].enc = ReloadKeys(f)[b].enc
  <2> SUFFICES ASSUME NEW a \in DOMAIN ReloadKeys(f), NEW b \in DOMAIN ReloadKeys(f)
               PROVE  ReloadKeys(f)[a].enc = ReloadKeys(f)[b].enc
    OBVIOUS
  <2>1. PICK i \in DOMAIN f : a = f[i].addr
    BY <1>4b
  <2>2. PICK j \in DOMAIN f : b = f[j].addr
    BY <1>4b
  <2>3. /\ ReloadKeys(f)[f[i].addr] = [used |-> f[i].used, enc |-> f[i].enc]
        /\ ReloadKeys(f)[f[j].addr] = [used |-> f[j].used, enc |-> f[j].enc]
    BY <1>4
  <2>. QED
    BY <2>1, <2>2, <2>3, <1>1
<1>7. ReloadUnused(f) = {a \in DOMAIN ReloadKeys(f) : ~ReloadKeys(f)[a].used}
  <2>1. ASSUME NEW a \in ReloadUnused(f)
        PROVE  a \in DOMAIN ReloadKeys(f) /\ ~ReloadKeys(f)[a].used
    <3>1. PICK i \in DOMAIN f : ~f[i].used /\ a = f[i].addr
      BY <2>1 DEF ReloadUnused
    <3>2. ReloadKeys(f)[f[i].addr] = [used |-> f[i].used, enc |-> f[i].enc]
      BY <1>4
    <3>. QED
      BY <3>1, <3>2, <1>4b
  <2>2. ASSUME NEW a \in DOMAIN ReloadKeys(f), ~ReloadKeys(f)[a].used
        PROVE  a \in ReloadUnused(f)
    <3>1. PICK i \in DOMAIN f : a = f[i].addr
      BY <2>2, <1>4b
    <3>2. ReloadKeys(f)[f[i].addr] = [used |-> f[i].used, enc |-> f[i].enc]
      BY <1>4
    <3>3. ~f[i].used
      BY <3>1, <2>2, <3>2
    <3>. QED
      BY <3>1, <3>3 DEF ReloadUnused
  <2>. QED
    BY <2>1, <2>2
<1>. QED
  BY <1>3, <1>5, <1>6, <1>7 DEF MemOK

-----------------------------------------------------------------------------
(* Every step of the wallet keeps the invariant: one case per operation.  *)
LEMMA WStep == WInv /\ [WNext]_wvars => WInv'
<1> SUFFICES ASSUME WInv, [WNext]_wvars PROVE WInv'
  OBVIOUS
<1>0. /\ MemOK(order, keys, unused_keys, password, created)
      /\ FileOK(file, created)
      /\ password \in Passwords \cup {None}
      /\ restarts \in 0..MaxRestarts
      /\ {created, given, received, pending} \subseteq SUBSET Addresses
      /\ pc \in {"idle", "writing", "down"}
  BY DEF WInv
(* Growing the set of produced addresses keeps both invariants.            *)
<1>c. ASSUME NEW o, NEW ks, NEW un, NEW pw, NEW f, NEW cr, NEW cr2,
             cr \subseteq cr2, MemOK(o, ks, un, pw, cr), FileOK(f, cr)
      PROVE  MemOK(o, ks, un, pw, cr2) /\ FileOK(f, cr2)
  BY <1>c DEF MemOK, FileOK
<1>1. CASE GenerateKeys
  <2>1. PICK b \in FreshBatches :
          /\ order' = order \o b
          /\ keys' = AddKeys(keys, b)
          /\ unused_keys' = unused_keys \cup SeqRange(b)
          /\ created' = created \cup SeqRange(b)
    BY <1>1 DEF GenerateKeys
  <2>2. /\ password \in Passwords
        /\ UNCHANGED <<password, file, restarts, given, received, pc, pending>>
    BY <1>0, <1>1 DEF GenerateKeys, Falsy
  <2>3. MemOK(order', keys', unused_keys', password', created')
    BY <1>0, <2>1, <2>2, GenMem
  <2>4. FileOK(file', created') /\ created' \subseteq Addresses
    BY <1>0, <1>c, <2>1, <2>2, WalletAssumption, BatchFacts
  <2>. QED
    BY <1>0, <2>2, <2>3, <2>4 DEF WInv
<1>2. ASSUME NEW mark \in BOOLEAN, GetUnusedAddress(mark) PROVE WInv'
  <2>0. UNCHANGED <<password, restarts, received>>
    BY <1>2 DEF GetUnusedAddress
  (* What TakeAddress leaves, from keys satisfying the memory invariant.   *)
  <2>t. ASSUME NEW o, NEW ks, NEW un, NEW gen \in BOOLEAN,
               MemOK(o, ks, un, password, created'),
               FileOK(file, created'),
               TakeAddress(o, ks, un, gen, mark)
        PROVE  /\ MemOK(order', keys', unused_keys', password, created')
               /\ FileOK(file', created')
               /\ given' \subseteq Addresses /\ pending' \subseteq Addresses
               /\ pc' \in {"idle", "writing", "down"}
    <3>1. PICK a \in un :
            /\ order' = o
            /\ keys' = IF mark THEN [ks EXCEPT ![a].used = TRUE] ELSE ks
            /\ unused_keys' = IF mark THEN un \ {a} ELSE un
            /\ file' \in {<<>>, file}
            /\ pc' \in {"writing", pc}
            /\ pending' \subseteq {a}
            /\ given' \subseteq given \cup {a}
      BY <2>t DEF TakeAddress
    <3>0. a \in DOMAIN ks /\ a \in Addresses
      BY <2>t DEF MemOK, SeqRange
    <3>2. MemOK(order', keys', unused_keys', password, created')
      BY <2>t, <3>0, <3>1, TakeMem
    <3>3. FileOK(file', created')
      <4>1. CASE file' = <<>>
        BY <4>1 DEF FileOK
      <4>2. CASE file' = file
        BY <2>t, <4>2
      <4>. QED
        BY <3>1, <4>1, <4>2
    <3>. QED
      BY <1>0, <3>0, <3>2, <3>3, <3>1
  <2>1. CASE unused_keys = {}
    <3>1. password \in Passwords
      BY <1>0, <1>2, <2>1 DEF GetUnusedAddress, Falsy
    <3>2. PICK b \in FreshBatches :
            /\ TakeAddress(order \o b, AddKeys(keys, b), SeqRange(b), TRUE, mark)
            /\ created' = created \cup SeqRange(b)
      BY <1>2, <2>1 DEF GetUnusedAddress
    <3>3. MemOK(order \o b, AddKeys(keys, b), SeqRange(b), password, created')
      BY <1>0, <2>1, <3>1, <3>2, GenMem
    <3>4. FileOK(file, created') /\ created' \subseteq Addresses
      BY <1>0, <1>c, <3>2, WalletAssumption, BatchFacts
    <3>. QED
      BY <1>0, <2>0, <2>t, <3>2, <3>3, <3>4 DEF WInv
  <2>2. CASE unused_keys # {}
    <3>1. TakeAddress(order, keys, unused_keys, FALSE, mark) /\ UNCHANGED created
      BY <1>2, <2>2 DEF GetUnusedAddress
    <3>. QED
      BY <1>0, <2>0, <2>t, <3>1 DEF WInv
  <2>. QED
    BY <2>1, <2>2
<1>w. CASE WriteKeys
  <2>1. /\ file' = KeysFile(order, keys) /\ pc' = "idle"
        /\ given' = given \cup pending /\ pending' = {}
        /\ UNCHANGED <<order, keys, unused_keys, password, restarts, created, received>>
    BY <1>w DEF WriteKeys
  <2>2. FileOK(file', created)
    BY <1>0, <2>1, FileOfMem
  <2>. QED
    BY <1>0, <2>1, <2>2 DEF WInv
<1>3. ASSUME NEW a \in Addresses, TokensReceived(a) PROVE WInv'
  <2>1. MemOK(order', keys', unused_keys', password', created')
    <3>1. /\ a \in DOMAIN keys
          /\ keys' = [keys EXCEPT ![a].used = TRUE]
          /\ unused_keys' = unused_keys \ {a}
          /\ UNCHANGED <<order, password, created>>
      BY <1>3 DEF TokensReceived
    <3>. QED
      BY <1>0, <3>1, TakeMem
  <2>. QED
    BY <1>0, <1>3, <2>1 DEF TokensReceived, WInv
<1>4. ASSUME NEW p \in Passwords, Unlock(p) PROVE WInv'
  <2>1. \A a \in DOMAIN keys : keys[a].enc = p
    <3>1. CASE order = <<>>
      BY <1>0, <3>1 DEF MemOK, SeqRange
    <3>2. CASE order # <<>>
      <4>1. keys[order[1]].enc = p /\ order[1] \in DOMAIN keys
        BY <1>0, <1>4, <3>2 DEF Unlock, MemOK, SeqRange
      <4>. QED
        BY <1>0, <4>1 DEF MemOK
    <3>. QED
      BY <3>1, <3>2
  <2>. QED
    BY <1>0, <1>4, <2>1 DEF Unlock, WInv, MemOK
<1>5. CASE Lock
  BY <1>0, <1>5 DEF Lock, WInv, MemOK
<1>6. CASE Restart
  <2>1. /\ order' = ReloadOrder(file)
        /\ keys' = ReloadKeys(file)
        /\ unused_keys' = ReloadUnused(file)
        /\ password' = None
        /\ restarts' = restarts + 1 /\ restarts < MaxRestarts
        /\ pc' \in {"idle", "down"} /\ pending' = {}
        /\ UNCHANGED <<file, created, given, received>>
    BY <1>6 DEF Restart, ReloadOrder, ReloadKeys, ReloadUnused
  <2>2. MemOK(order', keys', unused_keys', password', created')
    BY <1>0, <2>1, ReloadMem
  <2>. QED
    BY <1>0, <2>1, <2>2, WalletAssumption DEF WInv
<1>7. CASE UNCHANGED wvars
  BY <1>0, <1>7 DEF wvars, WInv, MemOK, FileOK
<1>. QED
  BY <1>1, <1>2, <1>w, <1>3, <1>4, <1>5, <1>6, <1>7 DEF WNext

-----------------------------------------------------------------------------
(* The invariant holds in every state of every behaviour.                 *)
LEMMA WInvHolds == WSpec => []WInv
<1>1. WInit => WInv
  BY WInitInv
<1>2. WInv /\ [WNext]_wvars => WInv'
  BY WStep
<1>. QED
  BY <1>1, <1>2, PTL DEF WSpec

(* unused_keys always holds exactly the addresses whose key pair is not    *)
(* marked used, through get_unused_address, tokens_received, generate_keys *)
(* and the reload of the keys file after any number of restarts.           *)
THEOREM UnusedConsistent == WSpec => []UnusedMatchesFlags
BY WInvHolds, WInvProps, PTL

(* Whenever the wallet is unlocked its password decrypts every key pair,   *)
(* although unlock() tests the first key pair only.                        *)
THEOREM PasswordSound == WSpec => []PasswordOpensKeys
BY WInvHolds, WInvProps, PTL

(* The wallet's variables keep their types.                                *)
THEOREM WalletTypeCorrect == WSpec => []WTypeOK
BY WInvHolds, WInvProps, PTL

-----------------------------------------------------------------------------
(***************************************************************************)
(* PersistedUnlessTorn.  It is not inductive alone: a later write of the   *)
(* file copies the flags from memory, so memory must hold every returned   *)
(* address, and the one the call in progress will return, as used; a      *)
(* reload copies the flags back from the file.  GivenHeld adds that.  In   *)
(* "down" nothing is claimed: the file was truncated and memory is empty.  *)
(***************************************************************************)
GivenHeld ==
    /\ given \cup pending \subseteq created
    /\ pc # "down" => \A a \in given \cup pending : a \in DOMAIN keys /\ keys[a].used
    /\ pc = "idle" => \A a \in given : InFile(a)
    /\ pc = "idle" => pending = {}

(* A file written from memory lists every held address with its flag.     *)
LEMMA KeysFileHolds ==
  ASSUME NEW o, NEW ks, NEW un, NEW pw, NEW cr, MemOK(o, ks, un, pw, cr),
         NEW a \in DOMAIN ks
  PROVE  \E i \in DOMAIN KeysFile(o, ks) :
            KeysFile(o, ks)[i].addr = a /\ KeysFile(o, ks)[i].used = ks[a].used
<1>1. o \in Seq(Addresses) /\ DOMAIN ks = SeqRange(o)
  BY DEF MemOK
<1>2. PICK i \in 1..Len(o) : o[i] = a
  BY <1>1 DEF SeqRange
<1>. QED
  BY <1>1, <1>2 DEF KeysFile

LEMMA GivenStep == WInv /\ GivenHeld /\ [WNext]_wvars => GivenHeld'
<1> SUFFICES ASSUME WInv, GivenHeld, [WNext]_wvars PROVE GivenHeld'
  OBVIOUS
<1>0. /\ MemOK(order, keys, unused_keys, password, created)
      /\ FileOK(file, created)
      /\ \A a \in given : a \in created
  BY DEF WInv, GivenHeld, MemOK
<1>1. CASE GenerateKeys
  <2>1. PICK b \in FreshBatches :
          /\ keys' = AddKeys(keys, b)
          /\ created' = created \cup SeqRange(b)
          /\ UNCHANGED <<file, given, pc, pending>>
    BY <1>1 DEF GenerateKeys
  <2>2. \A a \in given : a \notin SeqRange(b)
    BY <1>0, WalletAssumption, BatchFacts
  <2>3. pc = "idle" /\ pending = {}
    BY <1>1 DEF GenerateKeys, GivenHeld
  <2>. QED
    BY <2>1, <2>2, <2>3 DEF GivenHeld, InFile, AddKeys
<1>2. ASSUME NEW mark \in BOOLEAN, GetUnusedAddress(mark) PROVE GivenHeld'
  <2>0. pc = "idle" /\ pending = {}
    BY <1>2 DEF GetUnusedAddress, GivenHeld
  (* TakeAddress from keys ks that hold what memory holds of given.        *)
  <2>t. ASSUME NEW o, NEW ks, NEW un, NEW gen \in BOOLEAN,
               MemOK(o, ks, un, password, created'),
               \A a \in given : a \in DOMAIN ks /\ ks[a] = keys[a],
               given \subseteq created',
               TakeAddress(o, ks, un, gen, mark)
        PROVE  GivenHeld'
    <3>1. PICK a \in un :
            LET handed == IF mark THEN {a} ELSE {}
                write  == gen \/ MarkUpdates(mark)
            IN  /\ keys' = IF mark THEN [ks EXCEPT ![a].used = TRUE] ELSE ks
                /\ file' = IF write THEN <<>> ELSE file
                /\ pc' = IF write THEN "writing" ELSE pc
                /\ pending' = IF write THEN handed ELSE {}
                /\ given' = IF write THEN given ELSE given \cup handed
      BY <2>t DEF TakeAddress
    <3>2. a \in DOMAIN ks /\ a \in created'
      BY <2>t DEF MemOK, SeqRange
    <3>3. CASE gen \/ mark
      <4>1. pc' = "writing" /\ given' = given /\ pending' \subseteq {a}
        BY <3>1, <3>3 DEF MarkUpdates
      <4>2. \A x \in given \cup pending' : x \in DOMAIN keys' /\ keys'[x].used
        BY <2>t, <2>0, <3>1, <3>2, <4>1 DEF GivenHeld, MarkUpdates
      <4>. QED
        BY <2>t, <3>2, <4>1, <4>2 DEF GivenHeld
    <3>4. CASE ~gen /\ ~mark
      BY <2>t, <2>0, <3>1, <3>4 DEF MarkUpdates, GivenHeld, InFile
    <3>. QED
      BY <3>3, <3>4
  <2>1. CASE unused_keys = {}
    <3>1. password \in Passwords
      BY <1>2, <2>1 DEF WInv, GetUnusedAddress, Falsy
    <3>2. PICK b \in FreshBatches :
            /\ TakeAddress(order \o b, AddKeys(keys, b), SeqRange(b), TRUE, mark)
            /\ created' = created \cup SeqRange(b)
      BY <1>2, <2>1 DEF GetUnusedAddress
    <3>3. MemOK(order \o b, AddKeys(keys, b), SeqRange(b), password, created')
      BY <1>0, <2>1, <3>1, <3>2, GenMem
    <3>4. \A a \in given : a \in DOMAIN AddKeys(keys, b) /\ AddKeys(keys, b)[a] = keys[a]
      <4>1. \A a \in given : a \notin SeqRange(b)
        BY <1>0, WalletAssumption, BatchFacts
      <4>. QED
        BY <2>0, <4>1 DEF AddKeys, GivenHeld
    <3>5. given \subseteq created'
      BY <3>2 DEF GivenHeld
    <3>. QED
      BY <2>t, <3>2, <3>3, <3>4, <3>5
  <2>2. CASE unused_keys # {}
    <3>1. TakeAddress(order, keys, unused_keys, FALSE, mark) /\ UNCHANGED created
      BY <1>2, <2>2 DEF GetUnusedAddress
    <3>. QED
      BY <1>0, <2>0, <2>t, <3>1 DEF GivenHeld
  <2>. QED
    BY <2>1, <2>2
(* The write puts every flag of memory into the file: what was pending is *)
(* returned, and is in the file, marked used.                             *)
<1>w. CASE WriteKeys
  <2>1. /\ pc = "writing"
        /\ file' = KeysFile(order, keys) /\ pc' = "idle"
        /\ given' = given \cup pending /\ pending' = {}
        /\ UNCHANGED <<keys, created>>
    BY <1>w DEF WriteKeys
  <2>2. \A a \in given \cup pending : a \in DOMAIN keys /\ keys[a].used
    BY <2>1 DEF GivenHeld
  <2>3. \A a \in given' : InFile(a)'
    BY <1>0, <2>1, <2>2, KeysFileHolds DEF InFile
  <2>. QED
    BY <2>1, <2>2, <2>3 DEF GivenHeld
<1>3. ASSUME NEW a \in Addresses, TokensReceived(a) PROVE GivenHeld'
  BY <1>3 DEF TokensReceived, GivenHeld, InFile
<1>4. ASSUME NEW p \in Passwords, Unlock(p) PROVE GivenHeld'
  BY <1>4 DEF Unlock, GivenHeld, InFile
<1>5. CASE Lock
  BY <1>5 DEF Lock, GivenHeld, InFile
<1>6. CASE Restart
  <2>1. /\ keys' = ReloadKeys(file) /\ pending' = {}
        /\ pc' = IF pc = "idle" THEN "idle" ELSE "down"
        /\ UNCHANGED <<file, given, created>>
    BY <1>6 DEF Restart, ReloadKeys
  <2>2. CASE pc # "idle"
    BY <2>1, <2>2 DEF GivenHeld
  <2>3. CASE pc = "idle"
    <3>1. \A a \in given : a \in DOMAIN keys' /\ keys'[a].used
      <4> SUFFICES ASSUME NEW a \in given
                   PROVE  a \in DOMAIN keys' /\ keys'[a].used
        OBVIOUS
      <4>2. PICK i \in DOMAIN file : file[i].addr = a /\ file[i].used
        BY <2>3 DEF GivenHeld, InFile
      <4>3. ReloadKeys(file)[file[i].addr] = [used |-> file[i].used, enc |-> file[i].enc]
        BY <1>0, ReloadEntry
      <4>. QED
        BY <2>1, <4>2, <4>3 DEF ReloadKeys
    <3>. QED
      BY <2>1, <2>3, <3>1 DEF GivenHeld, InFile
  <2>. QED
    BY <2>2, <2>3
<1>7. CASE UNCHANGED wvars
  BY <1>7 DEF wvars, GivenHeld, InFile
<1>. QED
  BY <1>1, <1>2, <1>w, <1>3, <1>4, <1>5, <1>6, <1>7 DEF WNext

(* Unless a restart hit a file left truncated by _write_keys_to_file,      *)
(* every address get_unused_address returned as used is in the keys file, *)
(* marked used, between calls, after any interleaving of generate_keys,    *)
(* tokens_received, unlock, lock and restarts.  The only way the wallet    *)
(* loses a returned address is a crash inside that write (the violation    *)
(* of HandedOutPersisted).                                                  *)
THEOREM PersistedDurable == WSpec => []PersistedUnlessTorn
<1>1. WInit => GivenHeld
  BY DEF WInit, GivenHeld
<1>2. WInv /\ GivenHeld /\ [WNext]_wvars => WInv' /\ GivenHeld'
  BY WStep, GivenStep
<1>3. WSpec => [](WInv /\ GivenHeld)
  BY <1>1, <1>2, WInitInv, PTL DEF WSpec
<1>4. GivenHeld => PersistedUnlessTorn
  BY DEF GivenHeld, PersistedUnlessTorn
<1>. QED
  BY <1>3, <1>4, PTL

=============================================================================
