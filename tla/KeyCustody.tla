------------------------------ MODULE KeyCustody -------------------------------
(***************************************************************************)
(* Master-key custody of one data folder (crates/core/crypto): the ladder  *)
(* a process climbs to its key, the key check value the folder records,    *)
(* the retired keys, and the `keys adopt`, `keys retire` and import        *)
(* commands.  Every durable write is a step of its own, and any process    *)
(* may stop between two of them.                                           *)
(*                                                                         *)
(* A key is a value; its check value is the key itself.  RESOLVE_LOCK is   *)
(* local to a process, so two hosts climb at the same time.  The commands  *)
(* run as the process Admin with every host stopped, as their docs ask.    *)
(* The keychain changes reachability, and RYU_MASTER_KEY its value, only   *)
(* while nothing runs.                                                     *)
(***************************************************************************)
EXTENDS Naturals, FiniteSets

CONSTANTS OldKey,       \* keys a folder of an earlier version may hold
          NewKey,       \* keys generate_key can hand out
          OperatorKey,  \* keys the operator keeps: RYU_MASTER_KEY, bundles
          NoKey,
          Bad,          \* a slot whose content does not decode
          Host,         \* processes that resolve the key
          Core,         \* the host that records the check value
          Admin,        \* a `ryu-core keys` command
          MaxRetired,   \* MAX_RETIRED_KEYS
          AllowFile,    \* allow_file_key
          MaxTurns      \* bound on commands and operator changes

Key == OldKey \cup NewKey \cup OperatorKey
Proc == Host \cup {Admin}

ASSUME CustodyConstants ==
  /\ NoKey \notin Key /\ Bad \notin Key /\ NoKey # Bad
  /\ NewKey \cap (OldKey \cup OperatorKey) = {}
  /\ Core \in Host /\ Admin \notin Host
  /\ MaxRetired \in Nat /\ MaxTurns \in Nat
  /\ AllowFile \in BOOLEAN

Content == Key \cup {NoKey, Bad}
Entry == {"keychain", "file"} \X Key

VARIABLES env, keychain, file, legacy,  \* the four live slots
          reach,      \* the keychain: "rw", "ro" (refuses writes), "off"
          vault,      \* retired key material: set of <<custody, key>>
          index,      \* retired-keys.json: set of <<custody, key>>
          record,     \* master-key.kcv
          sealed,     \* keys some value of the folder is sealed under
          minted,     \* keys generate_key has handed out
          erased,     \* keys the keychain lost, or the file slot was written over
          clobbered,  \* keys a second first-store wrote over
          turns,      \* commands and operator changes so far
          pc, seen, key, source, ring, todo, after   \* each process

slots == <<env, keychain, file, legacy>>
ghosts == <<sealed, minted, erased, clobbered>>
vars == <<slots, reach, vault, index, record, ghosts, turns,
          pc, seen, key, source, ring, todo, after>>

Step == {"idle", "ladder", "store", "verify", "publish", "decide", "retire",
         "install", "note", "clear", "up", "refused"}

TypeOK ==
  /\ {env, keychain, file, legacy} \subseteq Content
  /\ reach \in {"rw", "ro", "off"}
  /\ vault \subseteq Entry /\ index \subseteq Entry
  /\ record \in Key \cup {NoKey}
  /\ UNION {sealed, erased, clobbered} \subseteq Key
  /\ minted \subseteq NewKey
  /\ turns \in 0..MaxTurns
  /\ pc \in [Proc -> Step]
  /\ seen \in [Proc -> Key \cup {NoKey}]
  /\ key \in [Proc -> Key \cup {NoKey}]
  /\ source \in [Proc -> {"none", "env", "keychain", "file"}]
  /\ ring \in [Proc -> SUBSET Key]
  /\ todo \in [Proc -> SUBSET ({"none", "keychain", "file"} \X Key)]
  /\ after \in [Proc -> Step]

(* A folder of any age before the check value was introduced: each slot    *)
(* empty, unreadable or holding a key, and values sealed under some of     *)
(* the keys held.                                                          *)
Init ==
  /\ env = NoKey
  /\ keychain \in OldKey \cup {NoKey, Bad}
  /\ file \in OldKey \cup {NoKey, Bad}
  /\ legacy \in OldKey \cup {NoKey, Bad}
  /\ reach \in {"rw", "ro", "off"}
  /\ vault = {} /\ index = {} /\ record = NoKey
  /\ sealed \in SUBSET ({keychain, file, legacy} \cap Key)
  /\ minted = {} /\ erased = {} /\ clobbered = {}
  /\ turns = 0
  /\ pc = [p \in Proc |-> "idle"]
  /\ seen = [p \in Proc |-> NoKey]
  /\ key = [p \in Proc |-> NoKey]
  /\ source = [p \in Proc |-> "none"]
  /\ ring = [p \in Proc |-> {}]
  /\ todo = [p \in Proc |-> {}]
  /\ after = [p \in Proc |-> "idle"]

(***************************************************************************)
(* What a process can read                                                 *)
(***************************************************************************)
KeychainKey == IF reach = "off" THEN NoKey ELSE keychain
IndexedKeys == {e[2] : e \in index}

(* load: the material is there and its custody reachable.                  *)
Loadable(e) == e \in vault /\ (e[1] = "keychain" => reach # "off")

(* Mutant: a retired key in the keychain is never loaded.                  *)
RetiredFiles == {e[2] : e \in {x \in index : x \in vault /\ x[1] = "file"}}

Retired == {e[2] : e \in {x \in index : Loadable(x)}}
LiveCandidates == {env, KeychainKey, file, legacy} \cap Key
Candidates == LiveCandidates \cup Retired

(* host_sealed_evidence: sealed values (every sealed store records its     *)
(* key) or an entry in the retired index.                                  *)
Evidence == sealed # {} \/ index # {}

(* The probe reads sealed message bodies at either end of one table: the   *)
(* keys a sample shows, none when what is sealed is elsewhere.             *)
Samples == SUBSET sealed

Goto(p, step) == pc' = [pc EXCEPT ![p] = step]
Hold(p, k, src) ==
  /\ key' = [key EXCEPT ![p] = k]
  /\ source' = [source EXCEPT ![p] = src]
Ring(p, R) == ring' = [ring EXCEPT ![p] = R]

(***************************************************************************)
(* The ladder                                                              *)
(***************************************************************************)
(* resolve reads the recorded check value once, at its start.              *)
StartResolve(h) ==
  /\ pc[h] = "idle" /\ pc[Admin] = "idle"
  /\ seen' = [seen EXCEPT ![h] = record]
  /\ Goto(h, "ladder")
  /\ UNCHANGED <<turns, slots, reach, vault, index, record, ghosts, key, source, ring, todo, after>>

(* Mutant: a refusal of the ladder is final.                               *)
RefuseOutright(h) ==
  Goto(h, "refused") /\ UNCHANGED <<key, source, ring, slots, minted>>

(* The ladder refused: a candidate that matches the record still recovers  *)
(* the folder for this run.                                                *)
Refuse(h) ==
  /\ IF seen[h] \in Candidates
     THEN Hold(h, seen[h], "file") /\ Ring(h, Retired) /\ Goto(h, "up")
     ELSE Goto(h, "refused") /\ UNCHANGED <<key, source, ring>>
  /\ UNCHANGED <<slots, minted>>

MayGenerate(h) == seen[h] = NoKey /\ ~Evidence

Take(h, k, src, then) ==
  Hold(h, k, src) /\ Goto(h, then) /\ UNCHANGED <<slots, minted, ring>>

(* What an empty keychain, or none, falls back on: the file, the legacy    *)
(* key, a new key, or a refusal.                                           *)
FallBack(h, then) ==
  LET held == IF AllowFile /\ file \in Key THEN file ELSE legacy
  IN IF held \in Key THEN Take(h, held, "file", then)
     ELSE IF ~MayGenerate(h) THEN Refuse(h)
     ELSE \E k \in NewKey \ minted :
            /\ Hold(h, k, "file") /\ Goto(h, then)
            /\ minted' = minted \cup {k}
            /\ UNCHANGED <<slots, ring>>

(* load_master_key_guarded, up to its first write.                         *)
Climb(h) ==
  /\ pc[h] = "ladder"
  /\ IF env \in Key THEN Take(h, env, "env", "decide")
     ELSE IF Bad \in {env, legacy, KeychainKey} THEN Refuse(h)
     ELSE IF KeychainKey \in Key
          THEN /\ Hold(h, keychain, "keychain") /\ Goto(h, "decide")
               /\ legacy' = IF legacy = keychain THEN NoKey ELSE legacy
               /\ UNCHANGED <<env, keychain, file, minted, ring>>
     ELSE IF IF AllowFile THEN file = Bad ELSE reach = "off" THEN Refuse(h)
     ELSE FallBack(h, IF reach # "off" THEN "store"
                      ELSE IF file \in Key THEN "decide" ELSE "publish")
  /\ UNCHANGED <<turns, reach, vault, index, record, sealed, erased, clobbered,
                 seen, todo, after>>

(* keychain.store: what another process put there meanwhile is written     *)
(* over.  An unwritable keychain falls back on the file.                   *)
StoreInKeychain(h) ==
  /\ pc[h] = "store"
  /\ IF reach = "rw"
     THEN /\ keychain' = key[h]
          /\ clobbered' = clobbered \cup ({keychain} \cap (Key \ {key[h]}))
          /\ Goto(h, "verify")
          /\ UNCHANGED <<env, file, legacy, minted, key, source, ring>>
     ELSE /\ IF AllowFile THEN Take(h, key[h], "file", "publish") ELSE Refuse(h)
          /\ UNCHANGED clobbered
  /\ UNCHANGED <<turns, reach, vault, index, record, sealed, erased, seen, todo, after>>

(* The read-back; a legacy copy of the same bytes is removed.              *)
VerifyKeychain(h) ==
  /\ pc[h] = "verify"
  /\ IF KeychainKey = key[h]
     THEN /\ Hold(h, key[h], "keychain") /\ Goto(h, "decide")
          /\ legacy' = IF legacy = keychain THEN NoKey ELSE legacy
          /\ UNCHANGED <<env, keychain, file, minted, ring>>
     ELSE Refuse(h)
  /\ UNCHANGED <<turns, reach, vault, index, record, sealed, erased, clobbered,
                 seen, todo, after>>

(* write_key_file: the first writer wins, the loser adopts its key.        *)
PublishFile(h) ==
  /\ pc[h] = "publish"
  /\ IF file = Bad THEN Refuse(h)
     ELSE /\ Hold(h, IF file = NoKey THEN key[h] ELSE file, "file")
          /\ file' = IF file = NoKey THEN key[h] ELSE file
          /\ Goto(h, "decide")
          /\ UNCHANGED <<env, keychain, legacy, minted, ring>>
  /\ UNCHANGED <<turns, reach, vault, index, record, sealed, erased, clobbered,
                 seen, todo, after>>

(***************************************************************************)
(* The decision against the recorded check value                           *)
(***************************************************************************)
ComeUp(h, k) ==
  /\ Hold(h, k, source[h]) /\ Ring(h, Retired \ {k}) /\ Goto(h, "up")
  /\ UNCHANGED <<todo, after>>

Mismatch(h) == Goto(h, "refused") /\ UNCHANGED <<key, source, ring, todo, after>>

(* Another candidate k is the folder's key: the primary joins the retired  *)
(* set unless it came from the environment, and the run goes on with k.    *)
Recover(h, k, then) ==
  /\ Hold(h, k, source[h])
  /\ Ring(h, (Retired \cup {key[h]}) \ {k})
  /\ todo' = [todo EXCEPT ![h] = IF source[h] = "env" THEN {} ELSE {<<"none", key[h]>>}]
  /\ after' = [after EXCEPT ![h] = then]
  /\ Goto(h, IF source[h] = "env" THEN then ELSE "retire")

(* Mutant: the persistent key wins over the recorded one.                  *)
DecideForPrimary(h) ==
  /\ pc[h] = "decide"
  /\ ComeUp(h, key[h])
  /\ UNCHANGED <<turns, slots, reach, vault, index, record, ghosts, seen>>

Decide(h) ==
  /\ pc[h] = "decide"
  /\ IF seen[h] = key[h] \/ (seen[h] = NoKey /\ h # Core) THEN ComeUp(h, key[h])
     ELSE IF seen[h] = NoKey
          THEN \E sample \in Samples :
                 IF sample = {} \/ key[h] \in sample
                 THEN /\ Ring(h, Retired \ {key[h]}) /\ Goto(h, "note")
                      /\ UNCHANGED <<key, source, todo, after>>
                 ELSE IF Candidates \cap sample = {} THEN Mismatch(h)
                 ELSE \E k \in Candidates \cap sample : Recover(h, k, "note")
     ELSE IF seen[h] \notin Candidates \/ (source[h] = "env" /\ key[h] \notin Retired)
          THEN Mismatch(h)
     ELSE Recover(h, seen[h], "up")
  /\ UNCHANGED <<turns, slots, reach, vault, index, record, ghosts, seen>>

(***************************************************************************)
(* The retired vault                                                       *)
(***************************************************************************)
PrefersKeychain(p) == reach = "rw" /\ (p = Admin \/ source[p] = "keychain")

Drop(p, e) ==
  /\ todo' = [todo EXCEPT ![p] = @ \ {e}]
  /\ Goto(p, IF todo[p] = {e} THEN after[p] ELSE "retire")

(* retire, the material first.  An indexed key is left as it is.  A full   *)
(* set ends a command; a host logs it and goes on.                         *)
StoreRetired(p) ==
  /\ pc[p] = "retire" /\ \A e \in todo[p] : e[1] = "none"
  /\ \E e \in todo[p] :
       IF e[2] \in IndexedKeys
       THEN Drop(p, e) /\ UNCHANGED vault
       ELSE IF Cardinality(index) >= MaxRetired
       THEN /\ UNCHANGED vault
            /\ IF p = Admin THEN Goto(p, "refused") /\ UNCHANGED todo ELSE Drop(p, e)
       ELSE LET shelf == <<IF PrefersKeychain(p) THEN "keychain" ELSE "file", e[2]>>
            IN /\ vault' = vault \cup {shelf}
               /\ todo' = [todo EXCEPT ![p] = (@ \ {e}) \cup {shelf}]
               /\ UNCHANGED pc
  /\ UNCHANGED <<turns, slots, reach, index, record, ghosts, seen, key, source, ring, after>>

(* ... then its entry in retired-keys.json.                                *)
IndexRetired(p) ==
  /\ pc[p] = "retire"
  /\ \E e \in todo[p] :
       /\ e[1] # "none"
       /\ index' = index \cup {e}
       /\ Drop(p, e)
  /\ UNCHANGED <<turns, slots, reach, vault, record, ghosts, seen, key, source, ring, after>>

(* write_kcv_record.                                                       *)
RecordKey(p) ==
  /\ pc[p] = "note"
  /\ record' = key[p]
  /\ Goto(p, "up")
  /\ UNCHANGED <<turns, slots, reach, vault, index, sealed, minted, erased, clobbered,
                 seen, key, source, ring, todo, after>>

(* A host that is up seals values under its key.  Any process may stop,    *)
(* done or not, and forgets all it held.                                   *)
Seal(h) ==
  /\ pc[h] = "up"
  /\ sealed' = sealed \cup {key[h]}
  /\ UNCHANGED <<turns, slots, reach, vault, index, record, minted, erased,
                 clobbered, pc, seen, key, source, ring, todo, after>>

Stop(p) ==
  /\ pc[p] # "idle"
  /\ pc' = [pc EXCEPT ![p] = "idle"]
  /\ seen' = [seen EXCEPT ![p] = NoKey]
  /\ key' = [key EXCEPT ![p] = NoKey]
  /\ source' = [source EXCEPT ![p] = "none"]
  /\ ring' = [ring EXCEPT ![p] = {}]
  /\ todo' = [todo EXCEPT ![p] = {}]
  /\ after' = [after EXCEPT ![p] = "idle"]
  /\ UNCHANGED <<turns, slots, reach, vault, index, record, ghosts>>

(***************************************************************************)
(* keys adopt, keys retire, import                                         *)
(***************************************************************************)
(* Commands and operator changes come while nothing runs.                  *)
Turn ==
  /\ \A p \in Proc : pc[p] = "idle"
  /\ turns < MaxTurns
  /\ turns' = turns + 1

(* persistent_key: the keychain first, then the file.                      *)
Persistent == IF KeychainKey \in Key THEN {KeychainKey} ELSE {file} \cap Key

(* Mutant: the recorded key is not looked for outside persistent custody.  *)
SupersededPersistent(k, extra) == (Persistent \cup extra) \ {k}

(* install_current, up to its writes: the previous persistent key, the     *)
(* recorded one wherever it lives, and a bundle's extra keys are retired   *)
(* before the new key is stored.                                           *)
Superseded(k, extra) ==
  (Persistent \cup ({record} \cap LiveCandidates) \cup extra) \ {k}

BeginInstall(k, extra) ==
  LET old == Superseded(k, extra)
  IN /\ Cardinality(index) + Cardinality(old \ IndexedKeys) <= MaxRetired
     /\ Hold(Admin, k, "none")
     /\ todo' = [todo EXCEPT ![Admin] = {<<"none", o>> : o \in old}]
     /\ after' = [after EXCEPT ![Admin] = "install"]
     /\ Goto(Admin, IF old = {} THEN "install" ELSE "retire")
     /\ UNCHANGED <<slots, reach, vault, index, record, ghosts, seen, ring>>

(* adopt_with: the probe may reject a key the record does not name, unless *)
(* --accept-unreadable waives it; both outcomes end in an install or in    *)
(* nothing.                                                                *)
Adopt(k) ==
  /\ Turn
  /\ k \in {env, KeychainKey, file} \cup Retired
  /\ k \in Key
  /\ BeginInstall(k, {})

(* import_with: refused while RYU_MASTER_KEY names a key the bundle does   *)
(* not carry; a key that is already current only has its retired keys      *)
(* added.  A bundle may carry this folder's own older keys.                *)
Import(k, extra) ==
  /\ Turn
  /\ env \in Key => env \in {k} \cup extra
  /\ IF record = k /\ k \in {env, KeychainKey, file}
     THEN /\ extra \ {k} # {}
          /\ todo' = [todo EXCEPT ![Admin] = {<<"none", o>> : o \in extra \ {k}}]
          /\ after' = [after EXCEPT ![Admin] = "up"]
          /\ Goto(Admin, "retire")
          /\ UNCHANGED <<slots, reach, vault, index, record, ghosts, seen, key, source, ring>>
     ELSE BeginInstall(k, extra)

(* The new key into the keychain with a read-back, else over the key file. *)
Install ==
  /\ pc[Admin] = "install"
  /\ IF reach = "rw"
     THEN keychain' = key[Admin] /\ Goto(Admin, "note") /\ UNCHANGED <<file, erased>>
     ELSE IF AllowFile
     THEN /\ file' = key[Admin] /\ Goto(Admin, "note")
          /\ erased' = erased \cup (({file} \cap Key) \ ({key[Admin], record} \cup Persistent))
          /\ UNCHANGED keychain
     ELSE Goto(Admin, "refused") /\ UNCHANGED <<keychain, file, erased>>
  /\ UNCHANGED <<turns, env, legacy, reach, vault, index, record, sealed, minted,
                 clobbered, seen, key, source, ring, todo, after>>

(* retire_with: neither the recorded key nor one the keychain slot holds.  *)
RetireKey(k) ==
  /\ Turn
  /\ k # record /\ k \in LiveCandidates
  /\ env = k \/ KeychainKey # k
  /\ Hold(Admin, k, IF env = k THEN "env" ELSE "file")
  /\ todo' = [todo EXCEPT ![Admin] = {<<"none", k>>}]
  /\ after' = [after EXCEPT ![Admin] = "clear"]
  /\ Goto(Admin, "retire")
  /\ UNCHANGED <<slots, reach, vault, index, record, ghosts, seen, ring>>

(* A retired key that loads from the vault leaves its slot.                *)
ClearSlot ==
  /\ pc[Admin] = "clear"
  /\ LET k == key[Admin]
         gone == source[Admin] # "env" /\ k \in Retired
     IN /\ file' = IF gone /\ file = k THEN NoKey ELSE file
        /\ legacy' = IF gone /\ file # k /\ legacy = k THEN NoKey ELSE legacy
  /\ Goto(Admin, "up")
  /\ UNCHANGED <<turns, env, keychain, reach, vault, index, record, ghosts, seen, key,
                 source, ring, todo, after>>

(***************************************************************************)
(* The operator and the keychain                                           *)
(***************************************************************************)
SetEnv(k) ==
  /\ Turn
  /\ env' = k
  /\ UNCHANGED <<keychain, file, legacy, reach, vault, index, record, ghosts,
                 pc, seen, key, source, ring, todo, after>>

ReachKeychain(r) ==
  /\ Turn
  /\ reach' = r
  /\ UNCHANGED <<slots, vault, index, record, ghosts, pc, seen, key, source,
                 ring, todo, after>>

LoseKeychainEntry ==
  /\ Turn
  /\ keychain \in Key
  /\ keychain' = NoKey
  /\ erased' = erased \cup {keychain}
  /\ UNCHANGED <<env, file, legacy, reach, vault, index, record, sealed, minted,
                 clobbered, pc, seen, key, source, ring, todo, after>>

Resolve(h) ==
  \/ StartResolve(h) \/ Climb(h) \/ StoreInKeychain(h) \/ VerifyKeychain(h)
  \/ PublishFile(h) \/ Decide(h) \/ Seal(h)

Command ==
  \/ \E k \in Key : Adopt(k) \/ RetireKey(k)
  \/ \E k \in OperatorKey, extra \in SUBSET (OldKey \cup OperatorKey) : Import(k, extra)
  \/ Install \/ ClearSlot

Next ==
  \/ \E h \in Host : Resolve(h)
  \/ \E p \in Proc : StoreRetired(p) \/ IndexRetired(p) \/ RecordKey(p) \/ Stop(p)
  \/ Command
  \/ \E k \in OperatorKey \cup {NoKey} : SetEnv(k)
  \/ \E r \in {"rw", "ro", "off"} : ReachKeychain(r)
  \/ LoseKeychainEntry

Spec == Init /\ [][Next]_vars

(***************************************************************************)
(* Properties                                                              *)
(***************************************************************************)
Held(k) == \/ k \in {keychain, file, legacy} \cup OperatorKey
           \/ \E e \in index \cap vault : e[2] = k

(* A key that sealed a value stays in a slot or in the retired set, through *)
(* adoptions, imports, recoveries and stops between any two of their       *)
(* writes.  It is gone only when the keychain itself lost it, when an      *)
(* adoption with a readable but unwritable keychain wrote over a key file  *)
(* nobody retired, or when two processes first stored a key at once.       *)
KeysSurvive == \A k \in sealed : Held(k) \/ k \in erased \cup clobbered

(* A host that found a check value runs under that key or not at all.      *)
UnderTheRecordedKey ==
  \A h \in Host : pc[h] = "up" /\ seen[h] # NoKey => key[h] = seen[h] /\ seen[h] = record

(* A host refuses a folder with a recorded key only when no readable slot  *)
(* holds that key, or the environment names another one: an interrupted    *)
(* adoption never locks the folder.                                        *)
RefusalIsForced ==
  \A h \in Host : pc[h] = "refused" /\ seen[h] # NoKey =>
    seen[h] \notin Candidates \/ env \in Key \ {seen[h]}

(* A host that is up opens everything the folder sealed, unless the key    *)
(* still sits in a live slot the host did not read from, or in a keychain  *)
(* out of reach, or is lost as above: what an adoption, an import or a     *)
(* recovery superseded is among the retired keys it loaded.                *)
OldValuesOpen ==
  \A h \in Host : pc[h] = "up" =>
    \A k \in sealed :
      \/ k \in {key[h]} \cup ring[h] \cup {keychain, file, legacy} \cup OperatorKey
      \/ k \in erased \cup clobbered
      \/ reach = "off" /\ <<"keychain", k>> \in index
================================================================================
