------------------------------ MODULE SealedStore -------------------------------
(***************************************************************************)
(* How the sidecar opens crm.db: which key it runs under (the ladder of    *)
(* plugin_keys), whether the store may seal under it, the deferred         *)
(* compaction, the resumable sealing of legacy values, the term index, the *)
(* scrub of freed plaintext, and then the writes it serves.  Every commit  *)
(* is a step of its own and the process may stop after any of them.        *)
(*                                                                         *)
(* A key stands for its check value.  One sidecar holds the folder at a    *)
(* time.  Core delivers its current key and every key it retired (what     *)
(* KeyCustody!OldValuesOpen promises).  What the index rebuild leaves in   *)
(* freed pages is not in "residue": see the README.                        *)
(***************************************************************************)
EXTENDS Naturals, FiniteSets

CONSTANTS CoreKey,    \* subkeys Core delivers, one per adopted master key
          RootKey,    \* subkeys of the standalone roots that can be generated
          MasterKey,  \* the subkey of RYU_MASTER_KEY
          NoSubkey,
          NumItems,   \* sealed columns, in the order of column_plans
          NumRows,    \* rows of each column, their ids in order
          BatchSize   \* BATCH_SIZE

StoreKey == CoreKey \cup RootKey \cup {MasterKey}
(* "broken" is a value that opens under no key.                            *)
Unsealed == {"none", "plain", "broken"}
Item == 1..NumItems
Row(i) == 1..NumRows[i]

ASSUME StoreConstants ==
  /\ CoreKey \cap RootKey = {} /\ MasterKey \notin CoreKey \cup RootKey
  /\ NoSubkey \notin StoreKey /\ StoreKey \cap (Unsealed \cup {"fts"}) = {}
  /\ NumItems \in Nat \ {0} /\ NumRows \in [Item -> Nat] /\ BatchSize \in Nat \ {0}

Value == StoreKey \cup Unsealed
(* Where plaintext of a rewritten cell can survive: WAL frames, free pages *)
(* of a build without secure_delete, the unused bytes of a live page.      *)
Place == {"wal", "free", "cells"}

VARIABLES coreKey, coreRetired,  \* what Core delivers at the next start
          root, pin,    \* the standalone root and its pinned check value
          kcv,          \* the store row's key check value
          state, cursor,  \* each item's migration row
          val,          \* the stored values
          debt,         \* the store row: ok, or a compaction owed, or scrubbed
          gate,         \* a refused attempt less than a day ago
          terms,        \* who built the index: "fts" is the v1 table
          residue,      \* places where sealed-away plaintext survives
          step, cur, keys, mode,  \* the sidecar: pc, keyring, StoreSeal
          at,           \* the item migrate_columns is at
          dirty,        \* sealed > 0 or rebuilt
          unread        \* report.unreadable > 0

core == <<coreKey, coreRetired>>
files == <<root, pin>>
rows == <<state, cursor, val>>
scrub == <<debt, gate, residue>>
proc == <<cur, keys, mode, at, dirty, unread>>
storeVars == <<core, files, kcv, rows, scrub, terms, step, proc>>

StoreTypeOK ==
  /\ coreKey \in CoreKey /\ coreRetired \subseteq CoreKey \ {coreKey}
  /\ root \in RootKey \cup {NoSubkey, "short"}
  /\ pin \in RootKey \cup {MasterKey, NoSubkey}
  /\ kcv \in StoreKey \cup {NoSubkey}
  /\ state \in [Item -> {"pending", "sealing", "sealed"}]
  /\ DOMAIN cursor = Item /\ DOMAIN val = Item
  /\ \A i \in Item : cursor[i] \in 0..NumRows[i] /\ val[i] \in [Row(i) -> Value]
  /\ debt \in {"ok", "owed", "scrubbed"} /\ gate \in BOOLEAN
  /\ terms \in StoreKey \cup {"fts", "none", "plain"}
  /\ residue \subseteq Place
  /\ step \in {"down", "root", "pin", "open", "schema", "compact", "vacuum",
             "walk", "batch", "seal", "index", "finish", "serving"}
  /\ cur \in StoreKey \cup {NoSubkey} /\ keys \subseteq StoreKey
  /\ mode \in {"none", "sealing", "compat", "unhealthy"}
  /\ at \in 1..(NumItems + 1)
  /\ {dirty, unread} \subseteq BOOLEAN

Column(i) == [Row(i) -> Unsealed]

(* A folder of a build that did not seal, at any point of its life.        *)
StoreInit ==
  /\ coreKey \in CoreKey /\ coreRetired = {}
  /\ root = NoSubkey /\ pin = NoSubkey /\ kcv = NoSubkey
  /\ state = [i \in Item |-> "pending"] /\ cursor = [i \in Item |-> 0]
  /\ val \in {v \in [Item -> UNION {Column(i) : i \in Item}] :
                \A i \in Item : v[i] \in Column(i)}
  /\ debt = "ok" /\ gate = FALSE
  /\ terms = "fts" /\ residue = {"free"}
  /\ step = "down" /\ cur = NoSubkey /\ keys = {} /\ mode = "none"
  /\ at = 1 /\ dirty = FALSE /\ unread = FALSE

AllSealed == \A i \in Item : state[i] = "sealed"

(***************************************************************************)
(* Which key the sidecar runs under                                        *)
(***************************************************************************)
RunUnder(k, held, next) ==
  /\ step = "down"
  /\ cur' = k /\ keys' = held /\ step' = next
  /\ UNCHANGED <<core, kcv, rows, scrub, terms, mode, at, dirty, unread>>

(* Core delivered the subkey and those of its retired keys.                *)
StartDelivered ==
  RunUnder(coreKey, {coreKey} \cup coreRetired, "open") /\ UNCHANGED files

(* RYU_MASTER_KEY: under Core nothing is pinned; by hand an existing root  *)
(* refuses the start and the check value is pinned first.                  *)
StartUnderMaster ==
  RunUnder(MasterKey, {MasterKey}, "open") /\ UNCHANGED files
StartMasterAlone ==
  root = NoSubkey /\ RunUnder(MasterKey, {MasterKey}, "pin") /\ UNCHANGED files

(* Under a Core that delivers no key.                                      *)
StartCompat == RunUnder(NoSubkey, {}, "open") /\ UNCHANGED files

(* By hand without a key: the root file, or a new one.  A start is refused *)
(* while the file is short, or gone with a check value pinned.             *)
LoadRoot ==
  root \in RootKey /\ RunUnder(root, {root}, "pin") /\ UNCHANGED files

(* Mutant: a missing root is generated whatever is pinned.                 *)
CreateRootAnyway ==
  /\ root = NoSubkey /\ root' = "short"
  /\ RunUnder(NoSubkey, {}, "root") /\ UNCHANGED pin
CreateRoot ==
  /\ root = NoSubkey /\ pin = NoSubkey /\ root' = "short"
  /\ RunUnder(NoSubkey, {}, "root") /\ UNCHANGED pin
(* create_new and write_all are two steps: a stop between them leaves a    *)
(* short file.                                                             *)
WriteRoot ==
  /\ step = "root"
  /\ \E k \in RootKey : root' = k /\ cur' = k /\ keys' = {k}
  /\ step' = "pin"
  /\ UNCHANGED <<core, pin, kcv, rows, scrub, terms, mode, at, dirty, unread>>

(* pin_standalone_kcv: another pinned value refuses the start.             *)
Pin ==
  /\ step = "pin"
  /\ pin \in {NoSubkey, cur}
  /\ pin' = cur /\ step' = "open"
  /\ UNCHANGED <<core, root, kcv, rows, scrub, terms, proc>>

(***************************************************************************)
(* CrmStore::prepare                                                       *)
(***************************************************************************)
(* Mutant: any recorded key will do.                                       *)
CheckStoreKeyBlindly ==
  /\ step = "open"
  /\ kcv' = IF cur # NoSubkey /\ kcv = NoSubkey THEN cur ELSE kcv
  /\ mode' = IF cur = NoSubkey THEN IF kcv = NoSubkey THEN "compat" ELSE "unhealthy"
             ELSE "sealing"
  /\ step' = "schema"
  /\ UNCHANGED <<core, files, rows, scrub, terms, cur, keys, at, dirty, unread>>

(* sqlite_store_seal: the first key is recorded; later the record must     *)
(* name the current key or a retired one.                                  *)
CheckStoreKey ==
  /\ step = "open"
  /\ kcv' = IF cur # NoSubkey /\ kcv = NoSubkey THEN cur ELSE kcv
  /\ mode' = IF cur = NoSubkey THEN IF kcv = NoSubkey THEN "compat" ELSE "unhealthy"
             ELSE IF kcv \in keys \cup {NoSubkey} THEN "sealing" ELSE "unhealthy"
  /\ step' = "schema"
  /\ UNCHANGED <<core, files, rows, scrub, terms, cur, keys, at, dirty, unread>>

(* The v2 schema drops the plaintext index.  Seeds write no sealed value.  *)
MigrateSchema ==
  /\ step = "schema"
  /\ terms' = IF terms = "fts" THEN "none" ELSE terms
  /\ step' = IF mode = "sealing" THEN "compact" ELSE "index"
  /\ UNCHANGED <<core, files, kcv, rows, scrub, proc>>

(***************************************************************************)
(* run_pending_vacuum: before the migration, an error only logged          *)
(***************************************************************************)
ToWalk == step' = "walk" /\ at' = 1
KeepOpen == UNCHANGED <<core, files, kcv, rows, terms, cur, keys, mode, dirty, unread>>

NothingToCompact ==
  /\ step = "compact" /\ (debt = "ok" \/ gate)
  /\ ToWalk /\ KeepOpen /\ UNCHANGED scrub
(* The WAL does not truncate, or a statement fails.                        *)
CompactFails ==
  /\ step \in {"compact", "vacuum"} /\ debt # "ok" /\ ~gate
  /\ ToWalk /\ KeepOpen /\ UNCHANGED scrub
(* No room for a chunk of zeros, or for the VACUUM.                        *)
CompactHasNoRoom ==
  /\ \/ step = "compact" /\ debt = "owed"
     \/ step = "vacuum"
  /\ ~gate /\ gate' = TRUE
  /\ residue' = residue \ {"wal"}
  /\ ToWalk /\ KeepOpen /\ UNCHANGED debt
ScrubFreelist ==
  /\ step = "compact" /\ debt # "ok" /\ ~gate
  /\ residue' = IF debt = "owed" THEN residue \ {"wal", "free"} ELSE residue \ {"wal"}
  /\ debt' = "scrubbed" /\ step' = "vacuum"
  /\ KeepOpen /\ UNCHANGED <<gate, at>>
Vacuum ==
  /\ step = "vacuum"
  /\ residue' = {} /\ debt' = "ok" /\ gate' = FALSE
  /\ ToWalk /\ KeepOpen

(***************************************************************************)
(* migrate_columns                                                         *)
(***************************************************************************)
KeepWalk == UNCHANGED <<core, files, terms, cur, keys, mode>>

SkipItem ==
  /\ step = "walk" /\ at \in Item /\ state[at] = "sealed"
  /\ at' = at + 1
  /\ KeepWalk /\ UNCHANGED <<kcv, rows, scrub, step, dirty, unread>>

(* Mutant: only the finished migration records the debt.                   *)
BeginItemWithoutDebt ==
  /\ step = "walk" /\ at \in Item /\ state[at] # "sealed"
  /\ state' = [state EXCEPT ![at] = "sealing"]
  /\ step' = "batch"
  /\ KeepWalk /\ UNCHANGED <<kcv, cursor, val, scrub, at, dirty, unread>>
(* mark_scrub_owed and the item's row in one commit, before any cell is    *)
(* rewritten; a finished scrub is forgotten, a refusal's date is kept.     *)
BeginItem ==
  /\ step = "walk" /\ at \in Item /\ state[at] # "sealed"
  /\ debt' = "owed"
  /\ gate' = (gate /\ debt # "ok")
  /\ state' = [state EXCEPT ![at] = "sealing"]
  /\ step' = "batch"
  /\ KeepWalk /\ UNCHANGED <<kcv, cursor, val, residue, at, dirty, unread>>

(* The rows of one batch: the first BatchSize non-null values after the    *)
(* cursor.                                                                 *)
Ahead == {r \in Row(at) : r > cursor[at] /\ val[at][r] # "none"}
BatchRows == {r \in Ahead : Cardinality({s \in Ahead : s < r}) < BatchSize}
Resealed(v) == IF v = "plain" \/ v \in keys THEN cur ELSE v
Unreadable(v) == v # "plain" /\ v \notin keys

(* Mutant: the cursor commits before the values it passed.                 *)
SealBatchLate ==
  /\ step = "batch"
  /\ cursor' = [cursor EXCEPT ![at] = IF BatchRows = {} THEN @
                  ELSE CHOOSE r \in BatchRows : \A s \in BatchRows : s <= r]
  /\ step' = IF Cardinality(BatchRows) < BatchSize THEN "seal" ELSE "batch"
  /\ KeepWalk /\ UNCHANGED <<kcv, state, scrub, at, val, dirty, unread>>
(* One immediate transaction: the batch and its cursor.                    *)
SealBatch ==
  /\ step = "batch"
  /\ val' = [val EXCEPT ![at] =
       [r \in Row(at) |-> IF r \in BatchRows THEN Resealed(@[r]) ELSE @[r]]]
  /\ cursor' = [cursor EXCEPT ![at] = IF BatchRows = {} THEN @
                  ELSE CHOOSE r \in BatchRows : \A s \in BatchRows : s <= r]
  /\ residue' = IF \E r \in BatchRows : val[at][r] = "plain"
                THEN residue \cup {"wal", "cells"} ELSE residue
  /\ dirty' = (dirty \/ val' # val)
  /\ unread' = (unread \/ \E r \in BatchRows : Unreadable(val[at][r]))
  /\ step' = IF Cardinality(BatchRows) < BatchSize THEN "seal" ELSE "batch"
  /\ KeepWalk /\ UNCHANGED <<kcv, state, debt, gate, at>>

(* The item is sealed; the last one moves a retired record on, if this run *)
(* met no unreadable value.                                                *)
FinishItem ==
  /\ step = "seal"
  /\ state' = [state EXCEPT ![at] = "sealed"]
  /\ cursor' = [cursor EXCEPT ![at] = 0]
  /\ kcv' = IF kcv # cur /\ ~unread /\ \A i \in Item : state'[i] = "sealed"
            THEN cur ELSE kcv
  /\ at' = at + 1 /\ step' = "walk"
  /\ KeepWalk /\ UNCHANGED <<val, scrub, dirty, unread>>

EndWalk ==
  /\ step = "walk" /\ at = NumItems + 1
  /\ step' = "index"
  /\ KeepWalk /\ UNCHANGED <<kcv, rows, scrub, at, dirty, unread>>

(***************************************************************************)
(* ensure_terms_index and finish                                           *)
(***************************************************************************)
TermsMode == IF mode = "sealing" THEN cur ELSE "plain"

(* Rebuilt in one transaction when another key built it; left alone on an  *)
(* unhealthy store.                                                        *)
EnsureTermsIndex ==
  /\ step = "index"
  /\ terms' = IF mode = "unhealthy" THEN terms ELSE TermsMode
  /\ dirty' = (dirty \/ terms' # terms)
  /\ step' = IF mode = "sealing" /\ dirty' THEN "finish" ELSE "serving"
  /\ UNCHANGED <<core, files, kcv, rows, scrub, cur, keys, mode, at, unread>>

ToServing ==
  step' = "serving" /\ UNCHANGED <<core, files, kcv, rows, terms, proc>>

(* finish_store failed: the store is put down as owing everything, or that *)
(* write failed too.                                                       *)
FinishFails ==
  /\ step = "finish" /\ UNCHANGED residue
  /\ \/ debt' = "owed" /\ gate' = FALSE
     \/ UNCHANGED <<debt, gate>>
  /\ ToServing
FinishHasNoRoom ==
  /\ step = "finish" /\ debt # "scrubbed"
  /\ residue' = residue \ {"wal"} /\ debt' = "owed" /\ gate' = FALSE
  /\ ToServing
(* Scrubbed (a scrub already recorded is not repeated); the VACUUM waits   *)
(* for its size or its room.                                               *)
FinishDefersVacuum ==
  /\ step = "finish"
  /\ residue' = IF debt = "scrubbed" THEN residue \ {"wal"} ELSE residue \ {"wal", "free"}
  /\ debt' = "scrubbed" /\ gate' = FALSE
  /\ ToServing
FinishVacuums ==
  /\ step = "finish"
  /\ residue' = {} /\ debt' = "ok" /\ gate' = FALSE
  /\ ToServing

(***************************************************************************)
(* Serving                                                                 *)
(***************************************************************************)
Store(i, r, v) ==
  /\ val' = [val EXCEPT ![i][r] = v]
  /\ residue' = IF val[i][r] = "plain" /\ v # "plain"
                THEN residue \cup {"wal", "cells"} ELSE residue
  /\ UNCHANGED <<core, files, kcv, state, cursor, debt, gate, terms, step, proc>>

(* seal_text: an unhealthy store refuses the write.                        *)
Write(i, r) ==
  /\ step = "serving" /\ mode # "unhealthy"
  /\ Store(i, r, IF mode = "sealing" THEN cur ELSE "plain")
(* A purge deletes rows whatever their values.                             *)
Purge(i, r) ==
  /\ step = "serving" /\ val[i][r] # "none"
  /\ Store(i, r, "none")

(* The process exits, refuses to start or crashes, at any step.            *)
StopSidecar ==
  /\ step # "down" /\ step' = "down"
  /\ cur' = NoSubkey /\ keys' = {} /\ mode' = "none"
  /\ at' = 1 /\ dirty' = FALSE /\ unread' = FALSE
  /\ UNCHANGED <<core, files, kcv, rows, scrub, terms>>

(* Core adopts another key and retires the one it had.                     *)
CoreAdopts ==
  /\ step = "down"
  /\ coreKey' \in CoreKey \ (coreRetired \cup {coreKey})
  /\ coreRetired' = coreRetired \cup {coreKey}
  /\ UNCHANGED <<files, kcv, rows, scrub, terms, step, proc>>

(* A day passes after a refused attempt.                                   *)
Day ==
  /\ gate /\ gate' = FALSE
  /\ UNCHANGED <<core, files, kcv, rows, debt, residue, terms, step, proc>>

Start ==
  \/ StartDelivered \/ StartUnderMaster \/ StartMasterAlone \/ StartCompat
  \/ LoadRoot \/ CreateRoot \/ WriteRoot \/ Pin
Compact ==
  \/ NothingToCompact \/ CompactFails \/ CompactHasNoRoom
  \/ ScrubFreelist \/ Vacuum
MigrateColumns == SkipItem \/ BeginItem \/ SealBatch \/ FinishItem \/ EndWalk
Finish ==
  FinishFails \/ FinishHasNoRoom \/ FinishDefersVacuum \/ FinishVacuums
StoreNext ==
  \/ Start \/ CheckStoreKey \/ MigrateSchema \/ Compact \/ MigrateColumns
  \/ EnsureTermsIndex \/ Finish
  \/ \E i \in Item : \E r \in Row(i) : Write(i, r) \/ Purge(i, r)
  \/ StopSidecar \/ CoreAdopts \/ Day

StoreSpec == StoreInit /\ [][StoreNext]_storeVars

(***************************************************************************)
(* Properties                                                              *)
(***************************************************************************)
(* A sidecar that serves under a key has sealed everything: no column      *)
(* holds plaintext, whichever batch earlier runs were stopped in, and the  *)
(* term index holds tokens of the current key (CrmStore::prepare).         *)
ServedSealed ==
  step = "serving" /\ mode = "sealing" =>
    /\ AllSealed /\ terms = cur
    /\ \A i \in Item : \A r \in Row(i) : val[i][r] # "plain"

(* A store opened for sealing holds no value under a key the process does  *)
(* not have: a folder that moves between Core, RYU_MASTER_KEY and a        *)
(* standalone root never mixes their keys (check_store_key).               *)
SealedOpens ==
  mode = "sealing" =>
    \A i \in Item : \A r \in Row(i) : val[i][r] \in StoreKey => val[i][r] \in keys

(* Once every column is sealed, plaintext left in the file is owed a       *)
(* compaction, through crashes, full disks and busy readers, and a scrub   *)
(* recorded as done left no free page unwritten (mark_scrub_owed,          *)
(* finish_store, run_pending_vacuum).                                      *)
ScrubStaysOwed ==
  /\ AllSealed /\ residue # {} => debt # "ok"
  /\ debt = "scrubbed" => "free" \notin residue

(* A standalone folder keeps the one key it started with: a pinned root is *)
(* still on disk, and no root appears beside a pinned RYU_MASTER_KEY,      *)
(* which would refuse that key for good (plugin_keys).                     *)
StandaloneKeyKept ==
  /\ pin \in RootKey => root = pin
  /\ pin = MasterKey => root = NoSubkey
================================================================================
