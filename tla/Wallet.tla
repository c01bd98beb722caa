------------------------------- MODULE Wallet -------------------------------
(***************************************************************************)
(* The key-pair wallet (src/hathor/wallet/wallet.py): the keys held in     *)
(* memory (self.keys, in insertion order, and self.unused_keys), the       *)
(* password, and the keys file, written by _write_keys_to_file and read    *)
(* back by read_keys_from_file.  A key pair is abstracted to its address,  *)
(* its used flag and the password its private key is encrypted with.      *)
(*                                                                         *)
(* Restart models the process dying and the wallet being built again:     *)
(* memory is lost, Wallet() starts with no keys and _manually_initialize() *)
(* loads the keys file.  The file itself survives.  _write_keys_to_file    *)
(* opens the file with 'w', which truncates it, and only then writes: the  *)
(* process may die in between.  A restart then finds a file holding no     *)
(* JSON, json.loads raises out of _manually_initialize and the wallet does *)
(* not start ("down"); every later restart finds the same file.           *)
(*                                                                         *)
(* KeyPair.create (hathor/wallet/keypair.py, not under src) encrypts the   *)
(* new private key with the password; the encryption refuses None and the *)
(* empty password, so generate_keys raises before its first key then.     *)
(***************************************************************************)
EXTENDS Naturals, Sequences, FiniteSets

CONSTANTS
    Addresses,      \* the addresses KeyPair.create may produce
    Passwords,      \* byte strings a caller may pass to unlock()
    EmptyPassword,  \* b'': bytes, but falsy
    None,
    KeyBatch,       \* the count of generate_keys (20 in the code)
    MaxRestarts     \* bound on the number of restarts

ASSUME WalletAssumption ==
    /\ IsFiniteSet(Addresses)
    /\ EmptyPassword \in Passwords
    /\ None \notin Passwords
    /\ KeyBatch \in Nat \ {0}
    /\ MaxRestarts \in Nat

VARIABLES
    order,          \* the keys of self.keys, in insertion order
    keys,           \* self.keys: address -> [used, enc]
    unused_keys,    \* self.unused_keys
    password,       \* self.password
    file,           \* the keys file: the list of key pairs written last
    restarts,       \* restarts so far
    created,        \* history: addresses KeyPair.create has produced
    given,          \* history: addresses get_unused_address marked used
    received,       \* history: addresses tokens_received was called with
    pc,             \* "idle"; "writing": the file truncated, not yet written;
                    \* "down": restarted on a truncated file
    pending         \* the address the call in progress will return as used

wvars == <<order, keys, unused_keys, password, file, restarts, created, given,
           received, pc, pending>>

KeyPair == [used : BOOLEAN, enc : Passwords]

Entry == [addr : Addresses, used : BOOLEAN, enc : Passwords]

SeqRange(s) == {s[i] : i \in DOMAIN s}

NoDup(s) == \A i, j \in DOMAIN s : s[i] = s[j] => i = j

-----------------------------------------------------------------------------
(* _write_keys_to_file, lines 72-75: self.keys.values(), in order.         *)
KeysFile(o, ks) ==
    [i \in 1..Len(o) |-> [addr |-> o[i], used |-> ks[o[i]].used, enc |-> ks[o[i]].enc]]

(* `if not self.password` (line 112): None and b'' are both falsy.         *)
Falsy(p) == p \in {None, EmptyPassword}

(* The batches KeyPair.create may produce: count addresses never produced *)
(* before (the keys are random), all distinct.                             *)
FreshBatches == {b \in [1..KeyBatch -> Addresses \ created] : NoDup(b)}

(* The key pairs generate_keys adds, lines 131-134: encrypted with the     *)
(* password, not used.                                                     *)
AddKeys(ks, b) ==
    [a \in DOMAIN ks \cup SeqRange(b) |->
        IF a \in SeqRange(b) THEN [used |-> FALSE, enc |-> password] ELSE ks[a]]

WInit ==
    /\ order = <<>>
    /\ keys = [a \in {} |-> [used |-> FALSE, enc |-> EmptyPassword]]
    /\ unused_keys = {}
    /\ password = None
    /\ file = <<>>
    /\ restarts = 0
    /\ created = {}
    /\ given = {}
    /\ received = {}
    /\ pc = "idle"
    /\ pending = {}

(* Mutant: KeyPair.create accepts a locked wallet's password.             *)
GenerateKeysUnguarded ==
    /\ pc = "idle"
    /\ \E b \in FreshBatches :
          /\ order' = order \o b
          /\ keys' = AddKeys(keys, b)
          /\ unused_keys' = unused_keys \cup SeqRange(b)
          /\ created' = created \cup SeqRange(b)
    /\ UNCHANGED <<password, file, restarts, given, received, pc, pending>>

(* generate_keys(count) called directly, lines 130-137: count fresh key    *)
(* pairs appended to self.keys and added to unused_keys.  The event it     *)
(* publishes goes to the bus of BaseWallet (not under src).  Nothing is    *)
(* written to the keys file.                                               *)
GenerateKeys ==
    /\ pc = "idle"
    /\ ~Falsy(password)
    /\ \E b \in FreshBatches :
          /\ order' = order \o b
          /\ keys' = AddKeys(keys, b)
          /\ unused_keys' = unused_keys \cup SeqRange(b)
          /\ created' = created \cup SeqRange(b)
    /\ UNCHANGED <<password, file, restarts, given, received, pc, pending>>

(* Mutant: updated is set only when keys were generated.                   *)
MarkUpdatesNever(mark) == FALSE

(* Line 123: marking the address as used sets updated.                     *)
MarkUpdates(mark) == mark

(* Lines 118-128 of get_unused_address, from the keys (o, ks, un) and      *)
(* updated = gen: next(iter(self.unused_keys)) is any unused address; with *)
(* mark_as_used it is discarded and its key pair marked used.  When        *)
(* anything changed, _write_keys_to_file opens the file with 'w' (line 74), *)
(* which leaves it empty, and the call goes on in WriteKeys; the address  *)
(* is returned then.  Otherwise it is returned at once.                    *)
TakeAddress(o, ks, un, gen, mark) ==
    \E a \in un :
        LET handed == IF mark THEN {a} ELSE {}
            write  == gen \/ MarkUpdates(mark)
        IN  /\ order' = o
            /\ keys' = IF mark THEN [ks EXCEPT ![a].used = TRUE] ELSE ks
            /\ unused_keys' = IF mark THEN un \ {a} ELSE un
            /\ file' = IF write THEN <<>> ELSE file
            /\ pc' = IF write THEN "writing" ELSE pc
            /\ pending' = IF write THEN handed ELSE {}
            /\ given' = IF write THEN given ELSE given \cup handed

(* get_unused_address(mark_as_used), lines 105-128.  With no unused        *)
(* address it raises OutOfUnusedAddresses when the password is falsy (no   *)
(* state change, so no step) and otherwise generates keys first.           *)
GetUnusedAddress(mark) ==
    /\ pc = "idle"
    /\ IF unused_keys = {}
       THEN /\ ~Falsy(password)
            /\ \E b \in FreshBatches :
                  /\ TakeAddress(order \o b, AddKeys(keys, b),
                                 SeqRange(b), TRUE, mark)
                  /\ created' = created \cup SeqRange(b)
       ELSE /\ TakeAddress(order, keys, unused_keys, FALSE, mark)
            /\ UNCHANGED created
    /\ UNCHANGED <<password, restarts, received>>

(* The rest of _write_keys_to_file, line 75: json_file.write puts the key  *)
(* pairs of memory (data, computed at line 73 from self.keys, which has    *)
(* not changed since) into the file; get_unused_address then returns.      *)
WriteKeys ==
    /\ pc = "writing"
    /\ file' = KeysFile(order, keys)
    /\ pc' = "idle"
    /\ given' = given \cup pending
    /\ pending' = {}
    /\ UNCHANGED <<order, keys, unused_keys, password, restarts, created, received>>

(* Mutant: tokens_received forgets to discard the address.                 *)
TokensReceivedNoDiscard(a) ==
    /\ pc = "idle"
    /\ a \in DOMAIN keys
    /\ keys' = [keys EXCEPT ![a].used = TRUE]
    /\ received' = received \cup {a}
    /\ UNCHANGED <<order, unused_keys, password, file, restarts, created, given,
                   pc, pending>>

(* tokens_received(address58), lines 158-159: self.keys[address58] raises *)
(* KeyError for an unknown address; otherwise the key pair is marked used  *)
(* and the address discarded from unused_keys.  The file is not written.   *)
TokensReceived(a) ==
    /\ pc = "idle"
    /\ a \in DOMAIN keys
    /\ keys' = [keys EXCEPT ![a].used = TRUE]
    /\ unused_keys' = unused_keys \ {a}
    /\ received' = received \cup {a}
    /\ UNCHANGED <<order, password, file, restarts, created, given, pc, pending>>

(* Mutant: unlock checks no key pair.                                      *)
UnlockUnchecked(p) ==
    /\ pc = "idle"
    /\ password' = p
    /\ UNCHANGED <<order, keys, unused_keys, file, restarts, created, given, received,
                   pc, pending>>

(* unlock(password), lines 89-98, for a bytes password: the first key pair *)
(* of self.keys must decrypt with it (else IncorrectPassword, no change);  *)
(* with no key pair any password is taken (the XXX of line 88).  A         *)
(* password that is not bytes raises ValueError and changes nothing.       *)
Unlock(p) ==
    /\ pc = "idle"
    /\ order # <<>> => keys[order[1]].enc = p
    /\ password' = p
    /\ UNCHANGED <<order, keys, unused_keys, file, restarts, created, given, received,
                   pc, pending>>

(* lock(), line 103.                                                       *)
Lock ==
    /\ pc = "idle"
    /\ password' = None
    /\ UNCHANGED <<order, keys, unused_keys, file, restarts, created, given, received,
                   pc, pending>>

(* The process restarts, at any time, in the middle of a write too:        *)
(* Wallet() (lines 32-47, with keys=None) then _manually_initialize()      *)
(* (lines 49-52) and read_keys_from_file (lines 61-70): the key pairs of   *)
(* the file, in its order, and the unused ones.  A truncated file (file is *)
(* <<>> then) makes json.loads raise before anything is added: the wallet  *)
(* keeps Wallet()'s empty keys and is down.                                *)
Restart ==
    /\ restarts < MaxRestarts
    /\ restarts' = restarts + 1
    /\ order' = [i \in DOMAIN file |-> file[i].addr]
    /\ keys' = [a \in {file[i].addr : i \in DOMAIN file} |->
                  LET e == CHOOSE e \in SeqRange(file) : e.addr = a
                  IN  [used |-> e.used, enc |-> e.enc]]
    /\ unused_keys' = {file[i].addr : i \in {j \in DOMAIN file : ~file[j].used}}
    /\ password' = None
    /\ pc' = IF pc = "idle" THEN "idle" ELSE "down"
    /\ pending' = {}
    /\ UNCHANGED <<file, created, given, received>>

WNext ==
    \/ GenerateKeys
    \/ \E mark \in BOOLEAN : GetUnusedAddress(mark)
    \/ WriteKeys
    \/ \E a \in Addresses : TokensReceived(a)
    \/ \E p \in Passwords : Unlock(p)
    \/ Lock
    \/ Restart

WSpec == WInit /\ [][WNext]_wvars

-----------------------------------------------------------------------------
(* The variables keep their types.                                         *)
WTypeOK ==
    /\ order \in Seq(Addresses) /\ NoDup(order)
    /\ keys \in [SeqRange(order) -> KeyPair]
    /\ unused_keys \subseteq Addresses
    /\ password \in Passwords \cup {None}
    /\ file \in Seq(Entry)
    /\ restarts \in 0..MaxRestarts
    /\ {created, given, received, pending} \subseteq SUBSET Addresses
    /\ pc \in {"idle", "writing", "down"}

(* unused_keys holds exactly the key pairs not marked used, through        *)
(* get_unused_address, tokens_received and the reload after a restart:    *)
(* an address is never both handed out as unused and marked used.         *)
UnusedMatchesFlags == unused_keys = {a \in DOMAIN keys : ~keys[a].used}

(* InFile(a): the keys file lists address a, marked used.                  *)
InFile(a) == \E i \in DOMAIN file : file[i].addr = a /\ file[i].used

(* The claim of get_unused_address's design: once an address was returned  *)
(* as used, the keys file holds it, marked used, whenever no write is in   *)
(* progress, so a restart can neither lose its private key nor hand it out *)
(* again.  The truncate-then-write of _write_keys_to_file breaks it.       *)
HandedOutPersisted == pc # "writing" => \A a \in given : InFile(a)

(* What does hold: unless a restart hit a truncated file, every address    *)
(* returned as used is in the keys file marked used between calls, through *)
(* the rewrites by later calls, which copy the flags from memory, and the  *)
(* reloads, which copy them back.                                          *)
PersistedUnlessTorn == pc = "idle" => \A a \in given : InFile(a)

(* An unlocked wallet's password decrypts every key pair it holds, so      *)
(* get_private_key succeeds for each address (unlock tests only the first). *)
PasswordOpensKeys ==
    password # None => \A a \in DOMAIN keys : keys[a].enc = password

(* The docstring of tokens_received: the address is set as used and never *)
(* offered again as unused -- across restarts as well.                     *)
NoAddressReuse == unused_keys \cap (given \cup received) = {}

(* The docstring of get_unused_address (lines 106-107): it raises          *)
(* OutOfUnusedAddresses only when no unused address is left and the wallet *)
(* is locked, and is_locked() (line 162) is `password is None`.  So an     *)
(* unlocked wallet, between calls and with addresses left to generate, can *)
(* hand one out.                                                           *)
UnlockedServes ==
    pc = "idle" /\ password # None /\ FreshBatches # {} =>
        ENABLED (\E mark \in BOOLEAN : GetUnusedAddress(mark))

=============================================================================
