--------------------------- MODULE SealedStoreProofs ----------------------------
(***************************************************************************)
(* The invariants of SealedStore, for every set of keys and every number   *)
(* of columns, rows and values in a batch, and of SealedLog, for every     *)
(* number of keys and records.                                             *)
(*                                                                         *)
(* Staged says what each stage of a start has in hand.  On it stand the    *)
(* pinned root (PinInv), the keys values are sealed under (RingInv), what  *)
(* the migration has behind it (WalkInv) and the owed scrub (ScrubInv,     *)
(* which needs WalkInv: a fully sealed store has no plain cell left to     *)
(* free).  WalkInv needs that a batch is a prefix of what lies ahead of    *)
(* the cursor: a least row ahead that is not in it would have a full batch *)
(* before it.                                                              *)
(*                                                                         *)
(* A log reads back by LogInv: until a writer goes on after a failed       *)
(* append, its frames are records of one key at their places, in the order *)
(* they were handed over, with at most one bad frame after them.  Under it *)
(* a reader gets just the records (Ids), and each step of the log is one   *)
(* of DurableLog's on them.                                                *)
(***************************************************************************)
EXTENDS SealedStore, SealedLog, TLAPS, FiniteSetTheorems, WellFoundedInduction,
        SequenceTheorems

(***************************************************************************)
(* Least and greatest rows                                                 *)
(***************************************************************************)
LEMMA Least ==
  ASSUME NEW S \in SUBSET Nat, S # {}
  PROVE  \E x \in S : \A y \in S : x <= y
<1>1. \E x \in S : \A y \in S : ~(<<y, x>> \in OpToRel(<, Nat))
  BY NatLessThanWellFounded, WFMin
<1>2. \A x, y \in S : <<y, x>> \in OpToRel(<, Nat) <=> y < x
  BY DEF OpToRel
<1>3. PICK x \in S : \A y \in S : ~(y < x)
  BY <1>1, <1>2
<1>4. \A y \in S : x <= y
  BY <1>3
<1> QED BY <1>4

LEMMA Greatest ==
  ASSUME NEW S \in SUBSET Nat, S # {}, NEW n \in Nat, \A x \in S : x <= n
  PROVE  \E x \in S : \A y \in S : y <= x
<1> DEFINE Above == {m \in Nat : \A x \in S : x <= m}
<1>1. PICK m \in Above : \A k \in Above : m <= k
  BY Least
<1>2. m \in S
  <2> SUFFICES ASSUME m \notin S PROVE FALSE
    OBVIOUS
  <2>1. \A x \in S : x < m
    BY <1>1
  <2>2. m - 1 \in Nat /\ \A x \in S : x <= m - 1
    <3>1. PICK x \in S : x < m
      BY <2>1
    <3>2. m \in Nat /\ x \in Nat
      BY <1>1
    <3> QED BY <2>1, <3>1, <3>2
  <2> QED BY <1>1, <2>2
<1> QED BY <1>1, <1>2

LEMMA BatchFinite ==
  ASSUME StoreTypeOK, at \in Item
  PROVE  /\ Ahead \subseteq Nat /\ IsFiniteSet(Ahead)
         /\ BatchRows \subseteq Ahead /\ IsFiniteSet(BatchRows)
         /\ BatchRows # {} => \E r \in BatchRows : \A s \in BatchRows : s <= r
<1>0. NumRows[at] \in Nat
  BY StoreConstants DEF StoreConstants
<1>1. Ahead \subseteq Row(at) /\ BatchRows \subseteq Ahead
  BY DEF Ahead, BatchRows
<1>2. IsFiniteSet(Row(at)) /\ Row(at) \subseteq Nat /\ \A r \in Row(at) : r <= NumRows[at]
  BY <1>0, FS_Interval DEF Row
<1>3. IsFiniteSet(Ahead) /\ IsFiniteSet(BatchRows)
  BY <1>1, <1>2, FS_Subset
<1>4. BatchRows # {} => \E r \in BatchRows : \A s \in BatchRows : s <= r
  BY <1>0, <1>1, <1>2, Greatest
<1> QED BY <1>1, <1>2, <1>3, <1>4

(* What the query skips on the way to its last row is nothing, and a short *)
(* page is all there is.                                                   *)
LEMMA BatchIsAPrefix ==
  ASSUME StoreTypeOK, at \in Item
  PROVE  /\ \A r \in Ahead, s \in BatchRows : r <= s => r \in BatchRows
         /\ Cardinality(BatchRows) < BatchSize => BatchRows = Ahead
<1> USE StoreConstants DEF StoreConstants
<1> DEFINE Below(r) == {s \in Ahead : s < r}
<1>0. /\ Ahead \subseteq Nat /\ IsFiniteSet(Ahead)
      /\ \A r : r \in BatchRows <=> r \in Ahead /\ Cardinality(Below(r)) < BatchSize
  BY BatchFinite DEF BatchRows
<1>1. \A r \in Ahead : IsFiniteSet(Below(r)) /\ Cardinality(Below(r)) \in Nat
  BY <1>0, FS_Subset, FS_CardinalityType
<1>2. ASSUME NEW r \in Ahead, NEW s \in BatchRows, r <= s PROVE r \in BatchRows
  <2>1. s \in Ahead /\ r \in Nat /\ s \in Nat /\ Cardinality(Below(s)) < BatchSize
    BY <1>0
  <2>2. Below(r) \in SUBSET Below(s)
    <3>1. \A x \in Ahead : x < r => x < s
      BY <1>0, <1>2, <2>1
    <3> QED BY <3>1
  <2>3. Cardinality(Below(r)) <= Cardinality(Below(s))
    BY <1>1, <2>1, <2>2, FS_Subset
  <2>4. Cardinality(Below(r)) \in Nat /\ Cardinality(Below(s)) \in Nat
    BY <1>1, <2>1
  <2>5. Cardinality(Below(r)) < BatchSize
    BY <2>1, <2>3, <2>4
  <2> QED BY <1>0, <2>5
<1>3. ASSUME Cardinality(BatchRows) < BatchSize PROVE BatchRows = Ahead
  <2> SUFFICES ASSUME Ahead \ BatchRows # {} PROVE FALSE
    BY <1>0
  <2>1. PICK m \in Ahead \ BatchRows : \A k \in Ahead \ BatchRows : m <= k
    BY <1>0, Least
  <2>2. Below(m) \in SUBSET BatchRows
    <3>1. \A s \in Ahead : s < m => s \in BatchRows
      BY <1>0, <2>1
    <3> QED BY <3>1
  <2>3. IsFiniteSet(BatchRows) /\ Cardinality(BatchRows) \in Nat
    BY BatchFinite, FS_CardinalityType
  <2>4. Cardinality(Below(m)) <= Cardinality(BatchRows)
    BY <2>2, <2>3, FS_Subset
  <2>5. m \in BatchRows
    BY <1>0, <1>1, <1>3, <2>1, <2>3, <2>4
  <2> QED BY <2>1, <2>5
<1> QED BY <1>2, <1>3


(***************************************************************************)
(* Types, and what holds at each stage of a start                          *)
(***************************************************************************)
Stage ==
  /\ IF cur = NoSubkey THEN keys = {} ELSE cur \in keys
  /\ step = "down" => keys = {}
  /\ IF step \in {"down", "root", "pin", "open"} THEN mode = "none"
     ELSE mode \in {"sealing", "compat", "unhealthy"}
  /\ step \in {"compact", "vacuum", "walk", "batch", "seal", "finish"} => mode = "sealing"
  /\ mode = "sealing" => cur \in StoreKey /\ kcv \in keys
  /\ mode = "compat" => kcv = NoSubkey
  /\ step \in {"batch", "seal"} => at \in Item
  /\ step = "pin" => cur \in RootKey \cup {MasterKey}
Staged == StoreTypeOK /\ Stage

LEMMA StoreInitType == StoreInit => StoreTypeOK
<1> SUFFICES ASSUME StoreInit PROVE StoreTypeOK
  OBVIOUS
<1> USE StoreConstants DEF StoreConstants
<1>1. \A i \in Item : val[i] \in [Row(i) -> Value]
  BY DEF StoreInit, Column, Value
<1>2. DOMAIN val = Item /\ DOMAIN cursor = Item
  BY DEF StoreInit
<1>3. \A i \in Item : cursor[i] \in 0..NumRows[i]
  BY DEF StoreInit
<1>4. at \in 1..(NumItems + 1)
  BY DEF StoreInit
<1> QED BY <1>1, <1>2, <1>3, <1>4 DEF StoreInit, StoreTypeOK, Place

(* One value replaced by another, and one column by another.               *)
LEMMA StoreType ==
  ASSUME StoreTypeOK, NEW i \in Item, NEW r \in Row(i), NEW v \in Value, Store(i, r, v)
  PROVE  StoreTypeOK'
<1>1. val' = [val EXCEPT ![i] = [val[i] EXCEPT ![r] = v]]
  BY DEF Store, StoreTypeOK
<1>2. [val[i] EXCEPT ![r] = v] \in [Row(i) -> Value]
  BY DEF StoreTypeOK
<1>3. DOMAIN val' = Item /\ \A j \in Item : val'[j] \in [Row(j) -> Value]
  BY <1>1, <1>2 DEF StoreTypeOK
<1>4. residue' \subseteq Place
  BY DEF Store, StoreTypeOK, Place
<1> QED BY <1>3, <1>4 DEF Store, StoreTypeOK, core, files, proc

LEMMA SealBatchType == ASSUME Staged, SealBatch PROVE StoreTypeOK'
<1> DEFINE new == [r \in Row(at) |-> IF r \in BatchRows THEN Resealed(val[at][r]) ELSE val[at][r]]
           last == CHOOSE r \in BatchRows : \A s \in BatchRows : s <= r
<1> USE StoreConstants DEF StoreConstants
<1>0. StoreTypeOK /\ at \in Item /\ cur \in StoreKey
  BY DEF Staged, Stage, SealBatch
<1>1. /\ val' = [val EXCEPT ![at] = new]
      /\ cursor' = [cursor EXCEPT ![at] = IF BatchRows = {} THEN cursor[at] ELSE last]
  BY <1>0 DEF SealBatch, StoreTypeOK
<1>2. new \in [Row(at) -> Value]
  BY <1>0 DEF Resealed, StoreTypeOK, Value
<1>3. BatchRows # {} => last \in Row(at)
  <2>1. BatchRows # {} => last \in BatchRows
    BY <1>0, BatchFinite
  <2> QED BY <2>1 DEF BatchRows, Ahead
<1> HIDE DEF new, last
<1>4. DOMAIN val' = Item /\ \A i \in Item : val'[i] \in [Row(i) -> Value]
  BY <1>0, <1>1, <1>2 DEF StoreTypeOK
<1>5. DOMAIN cursor' = Item /\ \A i \in Item : cursor'[i] \in 0..NumRows[i]
  BY <1>0, <1>1, <1>3 DEF StoreTypeOK, Row
<1>6. residue' \subseteq Place /\ dirty' \in BOOLEAN /\ unread' \in BOOLEAN
  BY <1>0 DEF SealBatch, StoreTypeOK, Place
<1>7. /\ UNCHANGED <<core, files, kcv, state, debt, gate, terms, cur, keys, mode, at>>
      /\ step' \in {"batch", "seal"}
  BY DEF SealBatch, KeepWalk
<1> QED BY <1>0, <1>4, <1>5, <1>6, <1>7 DEF StoreTypeOK, core, files

LEMMA StartStaged == Staged /\ Start => Staged'
<1> SUFFICES ASSUME Staged, Start PROVE Staged'
  OBVIOUS
<1> USE StoreConstants DEF StoreConstants, Staged, StoreTypeOK, Stage, StoreKey, core, files, rows, scrub, proc
<1>1. CASE StartDelivered
  BY <1>1 DEF StartDelivered, RunUnder
<1>2. CASE StartUnderMaster \/ StartMasterAlone
  BY <1>2 DEF StartUnderMaster, StartMasterAlone, RunUnder
<1>3. CASE StartCompat \/ LoadRoot
  BY <1>3 DEF StartCompat, LoadRoot, RunUnder
<1>4. CASE CreateRoot
  BY <1>4 DEF CreateRoot, RunUnder
<1>5. CASE WriteRoot
  BY <1>5 DEF WriteRoot
<1>6. CASE Pin
  BY <1>6 DEF Pin
<1> QED BY <1>1, <1>2, <1>3, <1>4, <1>5, <1>6 DEF Start

LEMMA CompactStaged == Staged /\ (Compact \/ Finish) => Staged'
<1> SUFFICES ASSUME Staged, Compact \/ Finish PROVE Staged'
  OBVIOUS
<1> USE StoreConstants DEF StoreConstants, Staged, StoreTypeOK, Stage, Place, core, files, rows, scrub, proc
<1>0. 1 \in 1..(NumItems + 1)
  OBVIOUS
<1>1. CASE NothingToCompact \/ CompactFails \/ CompactHasNoRoom
  BY <1>0, <1>1 DEF NothingToCompact, CompactFails, CompactHasNoRoom, ToWalk, KeepOpen
<1>2. CASE ScrubFreelist \/ Vacuum
  BY <1>0, <1>2 DEF ScrubFreelist, Vacuum, ToWalk, KeepOpen
<1>3. CASE Finish
  BY <1>3 DEF Finish, FinishFails, FinishHasNoRoom, FinishDefersVacuum, FinishVacuums, ToServing
<1> QED BY <1>1, <1>2, <1>3 DEF Compact

LEMMA FinishItemType == ASSUME Staged, FinishItem PROVE StoreTypeOK'
<1> USE StoreConstants DEF StoreConstants, KeepWalk, core, files, scrub
<1>0. StoreTypeOK /\ at \in Item /\ cur \in StoreKey
  BY DEF Staged, Stage, FinishItem
<1>1. state' \in [Item -> {"pending", "sealing", "sealed"}]
  BY <1>0 DEF FinishItem, StoreTypeOK
<1>2. DOMAIN cursor' = Item /\ \A i \in Item : cursor'[i] \in 0..NumRows[i]
  BY <1>0 DEF FinishItem, StoreTypeOK
<1>3. at' \in 1..(NumItems + 1) /\ kcv' \in StoreKey \cup {NoSubkey}
  BY <1>0 DEF FinishItem, StoreTypeOK, Item
<1> QED BY <1>0, <1>1, <1>2, <1>3 DEF FinishItem, StoreTypeOK

LEMMA WalkStaged == Staged /\ MigrateColumns => Staged'
<1> SUFFICES ASSUME Staged, MigrateColumns PROVE Staged'
  OBVIOUS
<1> USE StoreConstants DEF StoreConstants, KeepWalk, core, files, rows, scrub
<1>1. CASE SkipItem
  <2>1. at' \in 1..(NumItems + 1)
    BY <1>1 DEF SkipItem, Item
  <2> QED BY <1>1, <2>1 DEF SkipItem, Staged, StoreTypeOK, Stage
<1>2. CASE BeginItem
  BY <1>2 DEF BeginItem, Staged, StoreTypeOK, Stage
<1>3. CASE SealBatch
  <2>1. Stage'
    BY <1>3 DEF SealBatch, Staged, Stage
  <2> QED BY <1>3, <2>1, SealBatchType DEF Staged
<1>4. CASE FinishItem
  <2>1. Stage'
    BY <1>4 DEF FinishItem, Staged, Stage, StoreTypeOK
  <2> QED BY <1>4, <2>1, FinishItemType DEF Staged
<1>5. CASE EndWalk
  BY <1>5 DEF EndWalk, Staged, StoreTypeOK, Stage
<1> QED BY <1>1, <1>2, <1>3, <1>4, <1>5 DEF MigrateColumns

(* What happens outside the sidecar moves Core's keys and the gate.        *)
LEMMA OutsideType ==
  ASSUME StoreTypeOK, coreKey' \in CoreKey \/ coreKey' = coreKey,
         coreRetired' \subseteq CoreKey \ {coreKey'} \/ UNCHANGED core,
         gate' \in {gate, FALSE},
         UNCHANGED <<files, kcv, rows, debt, residue, terms, step, proc>>
  PROVE  StoreTypeOK'
<1>1. coreKey' \in CoreKey /\ coreRetired' \subseteq CoreKey \ {coreKey'}
  BY DEF StoreTypeOK, core
<1>2. gate' \in BOOLEAN
  BY DEF StoreTypeOK
<1>3. UNCHANGED <<root, pin, kcv, state, cursor, val, debt, residue, terms, step, cur, keys,
                  mode, at, dirty, unread>>
  BY DEF files, rows, proc
<1> QED BY <1>1, <1>2, <1>3 DEF StoreTypeOK

LEMMA NextStaged == Staged /\ [StoreNext]_storeVars => Staged'
<1> SUFFICES ASSUME Staged, [StoreNext]_storeVars PROVE Staged'
  OBVIOUS
<1> USE StoreConstants DEF StoreConstants, core, files, rows, scrub, proc
<1>1. CASE CheckStoreKey
  BY <1>1 DEF CheckStoreKey, Staged, StoreTypeOK, Stage
<1>2. CASE MigrateSchema
  BY <1>2 DEF MigrateSchema, Staged, StoreTypeOK, Stage
<1>3. CASE EnsureTermsIndex
  BY <1>3 DEF EnsureTermsIndex, TermsMode, Staged, StoreTypeOK, Stage
<1>4. ASSUME NEW i \in Item, NEW r \in Row(i), Write(i, r) \/ Purge(i, r) PROVE Staged'
  <2>1. PICK v \in Value : Store(i, r, v)
    <3>1. CASE Purge(i, r)
      BY <3>1 DEF Purge, Value, Unsealed
    <3>2. CASE Write(i, r)
      BY <3>2 DEF Write, Value, Unsealed, Staged, Stage
    <3> QED BY <1>4, <3>1, <3>2
  <2>2. Stage'
    BY <2>1 DEF Store, Staged, Stage
  <2> QED BY <2>1, <2>2, StoreType DEF Staged
<1>5. CASE StopSidecar \/ CoreAdopts \/ Day
  <2>1. 1 \in 1..(NumItems + 1)
    OBVIOUS
  <2>2. CASE StopSidecar
    BY <2>1, <2>2 DEF StopSidecar, Staged, StoreTypeOK, Stage
  <2>3. CASE CoreAdopts
    <3>1. StoreTypeOK'
      <4>1. coreKey' \in CoreKey /\ coreRetired' \subseteq CoreKey \ {coreKey'}
        BY <2>3 DEF CoreAdopts, Staged, StoreTypeOK
      <4> QED BY <2>3, <4>1, OutsideType DEF CoreAdopts, Staged, StoreTypeOK
    <3>2. Stage'
      BY <2>3 DEF CoreAdopts, Staged, Stage
    <3> QED BY <3>1, <3>2 DEF Staged
  <2>4. CASE Day
    <3>1. StoreTypeOK'
      BY <2>4, OutsideType DEF Day, Staged
    <3>2. Stage'
      BY <2>4 DEF Day, Staged, Stage
    <3> QED BY <3>1, <3>2 DEF Staged
  <2> QED BY <1>5, <2>2, <2>3, <2>4
<1>6. CASE UNCHANGED storeVars
  BY <1>6 DEF storeVars, Staged, StoreTypeOK, Stage
<1> QED BY <1>1, <1>2, <1>3, <1>4, <1>5, <1>6, StartStaged, CompactStaged, WalkStaged DEF StoreNext

(* The sidecar's state has its type, and a key is in hand, and fits the    *)
(* store's record, from the first step that seals with it to the last.     *)
THEOREM StagedInvariant == StoreSpec => []Staged
<1>1. StoreInit => Staged
  BY StoreInitType DEF StoreInit, Staged, Stage
<1> QED BY <1>1, NextStaged, PTL DEF StoreSpec

(***************************************************************************)
(* The standalone root                                                     *)
(***************************************************************************)
PinInv ==
  /\ Staged /\ StandaloneKeyKept
  /\ step = "root" => root = "short" /\ pin = NoSubkey
  /\ step = "pin" => \/ cur \in RootKey /\ cur = root
                     \/ cur = MasterKey /\ root = NoSubkey

LEMMA NextPin == PinInv /\ [StoreNext]_storeVars => PinInv'
<1> SUFFICES ASSUME PinInv, [StoreNext]_storeVars PROVE PinInv'
  OBVIOUS
<1>s. Staged'
  BY NextStaged DEF PinInv
<1> USE <1>s, StoreConstants DEF StoreConstants, StoreKey, StandaloneKeyKept, PinInv, files
<1>1. CASE Start
  BY <1>1 DEF Start, StartDelivered, StartUnderMaster, StartMasterAlone, StartCompat, LoadRoot,
              CreateRoot, WriteRoot, Pin, RunUnder
<1>2. CASE UNCHANGED files /\ step' \notin {"root", "pin"}
  BY <1>2
<1>3. CASE CheckStoreKey \/ MigrateSchema \/ EnsureTermsIndex
  BY <1>2, <1>3 DEF CheckStoreKey, MigrateSchema, EnsureTermsIndex
<1>4. CASE Compact \/ Finish
  BY <1>2, <1>4 DEF Compact, NothingToCompact, CompactFails, CompactHasNoRoom, ScrubFreelist,
                    Vacuum, ToWalk, KeepOpen, Finish, FinishFails, FinishHasNoRoom,
                    FinishDefersVacuum, FinishVacuums, ToServing
<1>5. CASE MigrateColumns
  BY <1>2, <1>5 DEF MigrateColumns, SkipItem, BeginItem, SealBatch, FinishItem, EndWalk, KeepWalk
<1>6. CASE \E i \in Item : \E r \in Row(i) : Write(i, r) \/ Purge(i, r)
  BY <1>6 DEF Write, Purge, Store, proc
<1>7. CASE StopSidecar \/ CoreAdopts
  BY <1>2, <1>7 DEF StopSidecar, CoreAdopts
<1>8. CASE Day \/ UNCHANGED storeVars
  BY <1>8 DEF Day, storeVars, proc
<1> QED BY <1>1, <1>3, <1>4, <1>5, <1>6, <1>7, <1>8 DEF StoreNext

(* A standalone folder never swaps the key it pinned, for every set of     *)
(* roots that could be generated.                                          *)
THEOREM StandaloneKeepsItsKey == StoreSpec => []StandaloneKeyKept
<1>1. StoreInit => PinInv
  BY StoreInitType, StoreConstants
     DEF StoreInit, Staged, Stage, PinInv, StandaloneKeyKept, StoreConstants, StoreKey
<1>2. PinInv => StandaloneKeyKept
  BY DEF PinInv
<1> QED BY <1>1, <1>2, NextPin, PTL DEF StoreSpec

(***************************************************************************)
(* The keys values are sealed under                                        *)
(***************************************************************************)
CoreUsed == {coreKey} \cup coreRetired
(* A value is sealed under the recorded key, or, where Core adopts keys,   *)
(* under one that Core had; the process holds all of those or none.        *)
Belongs(v) == v \in StoreKey => IF kcv \in CoreKey THEN v \in CoreUsed ELSE v = kcv
RingInv ==
  /\ Staged
  /\ keys = {} \/ keys = CoreUsed \/ \E k \in RootKey \cup {MasterKey} : keys = {k}
  /\ kcv \in CoreKey => kcv \in CoreUsed
  /\ \A i \in Item : \A r \in Row(i) : Belongs(val[i][r])

LEMMA RingOpens == RingInv => SealedOpens
  BY StoreConstants DEF RingInv, Staged, StoreTypeOK, Stage, SealedOpens, Belongs, CoreUsed,
                        StoreConstants, StoreKey

(* While the process seals, what it seals belongs.                         *)
LEMMA CurBelongs == ASSUME RingInv, mode = "sealing"
                    PROVE  /\ Belongs(cur) /\ kcv \in StoreKey
                           /\ kcv \in CoreKey <=> cur \in CoreKey
                           /\ cur \in CoreKey => cur \in CoreUsed
                           /\ cur \notin CoreKey => kcv = cur
  BY StoreConstants DEF RingInv, Staged, StoreTypeOK, Stage, Belongs, CoreUsed, StoreConstants, StoreKey

LEMMA RingKept ==
  ASSUME RingInv, Staged', UNCHANGED <<core, kcv, val>>, keys' \in {keys, {}}
  PROVE  RingInv'
  BY DEF RingInv, Belongs, CoreUsed, core

LEMMA NextRing == RingInv /\ [StoreNext]_storeVars => RingInv'
<1> SUFFICES ASSUME RingInv, [StoreNext]_storeVars PROVE RingInv'
  OBVIOUS
<1>s. Staged /\ Staged'
  BY NextStaged DEF RingInv
<1>1. CASE Start
  <2>1. /\ UNCHANGED <<core, kcv, val>>
        /\ keys' \in {keys, {}, CoreUsed} \/ \E k \in RootKey \cup {MasterKey} : keys' = {k}
    BY <1>1 DEF Start, StartDelivered, StartUnderMaster, StartMasterAlone, StartCompat, LoadRoot,
                CreateRoot, WriteRoot, Pin, RunUnder, rows, proc, CoreUsed
  <2> QED BY <1>s, <2>1 DEF RingInv, Belongs, CoreUsed, core
<1>2. CASE CheckStoreKey
  <2>1. /\ UNCHANGED <<core, keys, val>>
        /\ kcv' = kcv \/ (kcv = NoSubkey /\ kcv' = cur /\ cur \in keys)
    BY <1>2, <1>s DEF CheckStoreKey, rows, Staged, Stage
  <2>2. CASE kcv' = kcv
    BY <1>s, <2>1, <2>2, RingKept
  <2>3. CASE kcv = NoSubkey /\ kcv' = cur /\ cur \in keys
    <3>1. \A i \in Item : \A r \in Row(i) : val[i][r] \notin StoreKey
      BY <2>3, StoreConstants DEF RingInv, Belongs, StoreConstants, StoreKey
    <3>2. cur \in CoreKey => cur \in CoreUsed
      BY <2>3, StoreConstants DEF RingInv, StoreConstants
    <3> QED BY <1>s, <2>1, <2>3, <3>1, <3>2 DEF RingInv, Belongs, CoreUsed, core
  <2> QED BY <2>1, <2>2, <2>3
<1>3. CASE MigrateSchema \/ EnsureTermsIndex
  BY <1>3, <1>s, RingKept DEF MigrateSchema, EnsureTermsIndex, rows, proc
<1>4. CASE Compact \/ Finish
  BY <1>4, <1>s, RingKept
     DEF Compact, NothingToCompact, CompactFails, CompactHasNoRoom, ScrubFreelist, Vacuum, ToWalk,
         KeepOpen, Finish, FinishFails, FinishHasNoRoom, FinishDefersVacuum, FinishVacuums,
         ToServing, rows, proc
<1>5. CASE SkipItem \/ BeginItem \/ EndWalk
  BY <1>5, <1>s, RingKept DEF SkipItem, BeginItem, EndWalk, KeepWalk, rows
<1>6. CASE SealBatch
  <2>1. mode = "sealing" /\ at \in Item /\ StoreTypeOK
    BY <1>6, <1>s DEF SealBatch, Staged, Stage
  <2>2. \A i \in Item : \A r \in Row(i) : val'[i][r] = val[i][r] \/ val'[i][r] = cur
    BY <1>6, <2>1 DEF SealBatch, Resealed, StoreTypeOK
  <2>3. UNCHANGED <<core, kcv, keys>>
    BY <1>6 DEF SealBatch, KeepWalk
  <2>4. \A i \in Item : \A r \in Row(i) : Belongs(val'[i][r])
    BY <2>1, <2>2, CurBelongs DEF RingInv
  <2> QED BY <1>s, <2>3, <2>4 DEF RingInv, Belongs, CoreUsed, core
<1>7. CASE FinishItem
  <2>1. mode = "sealing" /\ UNCHANGED <<core, keys, val>> /\ kcv' \in {kcv, cur}
    BY <1>7, <1>s DEF FinishItem, KeepWalk, Staged, Stage
  <2>2. CASE kcv' = kcv
    BY <1>s, <2>1, <2>2, RingKept
  <2>3. CASE kcv' = cur
    <3>1. \A v : Belongs(v) => (v \in StoreKey => IF cur \in CoreKey THEN v \in CoreUsed ELSE v = cur)
      BY <2>1, CurBelongs DEF Belongs
    <3>2. \A i \in Item : \A r \in Row(i) :
            val[i][r] \in StoreKey => IF cur \in CoreKey THEN val[i][r] \in CoreUsed ELSE val[i][r] = cur
      BY <3>1 DEF RingInv
    <3> QED BY <1>s, <2>1, <2>3, <3>2, CurBelongs DEF RingInv, Belongs, CoreUsed, core
  <2> QED BY <2>1, <2>2, <2>3
<1>8. ASSUME NEW i \in Item, NEW r \in Row(i), Write(i, r) \/ Purge(i, r) PROVE RingInv'
  <2>1. PICK v : Store(i, r, v) /\ (v \notin StoreKey \/ (mode = "sealing" /\ v = cur))
    <3>1. CASE Purge(i, r)
      BY <3>1, StoreConstants DEF Purge, StoreConstants, Unsealed
    <3>2. CASE Write(i, r)
      BY <3>2, StoreConstants DEF Write, StoreConstants, Unsealed
    <3> QED BY <1>8, <3>1, <3>2
  <2>2. Belongs(v)
    BY <2>1, CurBelongs DEF Belongs
  <2>3. \A j \in Item : \A q \in Row(j) : val'[j][q] = val[j][q] \/ val'[j][q] = v
    BY <1>s, <2>1 DEF Store, Staged, StoreTypeOK
  <2>4. UNCHANGED <<core, kcv, keys>>
    BY <2>1 DEF Store, proc
  <2>5. \A j \in Item : \A q \in Row(j) : Belongs(val'[j][q])
    BY <2>2, <2>3 DEF RingInv
  <2> QED BY <1>s, <2>4, <2>5 DEF RingInv, Belongs, CoreUsed, core
<1>9. CASE StopSidecar \/ Day \/ UNCHANGED storeVars
  BY <1>9, <1>s, RingKept DEF StopSidecar, Day, rows, proc, storeVars
<1>10. CASE CoreAdopts
  <2>1. /\ keys' = {} /\ CoreUsed \subseteq CoreUsed' /\ UNCHANGED <<kcv, val>>
    BY <1>10, <1>s DEF CoreAdopts, Staged, Stage, CoreUsed, rows, proc
  <2> QED BY <1>s, <2>1 DEF RingInv, Belongs
<1> QED BY <1>1, <1>2, <1>3, <1>4, <1>5, <1>6, <1>7, <1>8, <1>9, <1>10 DEF StoreNext, MigrateColumns

(* A store open for sealing holds no value under a key the process lacks,  *)
(* for every set of master keys, roots and columns.                        *)
THEOREM StoresOpenWhole == StoreSpec => []SealedOpens
<1>1. StoreInit => RingInv
  <2>1. ASSUME StoreInit PROVE \A i \in Item : \A r \in Row(i) : val[i][r] \in Unsealed
    BY <2>1 DEF StoreInit, Column
  <2> QED BY <2>1, StoreInitType, StoreConstants
          DEF StoreInit, Staged, Stage, RingInv, Belongs, StoreConstants, StoreKey
<1> QED BY <1>1, NextRing, RingOpens, PTL DEF StoreSpec

(***************************************************************************)
(* What a resumed migration has behind it                                  *)
(***************************************************************************)
(* Nothing plain is left where the migration has been.                     *)
Done(i, r) == state[i] = "sealed" \/ r <= cursor[i]
WalkInv ==
  /\ Staged
  /\ \A i \in Item : \A r \in Row(i) : Done(i, r) => val[i][r] # "plain"
  /\ kcv = NoSubkey => \A i \in Item : state[i] = "pending" /\ cursor[i] = 0
  /\ step \in {"walk", "batch", "seal"} => \A i \in Item : i < at => state[i] = "sealed"
  /\ step \in {"batch", "seal"} => state[at] = "sealing"
  /\ step = "seal" => \A r \in Row(at) : val[at][r] # "plain"
  /\ step \in {"index", "finish", "serving"} /\ mode = "sealing" => AllSealed
  /\ step \in {"finish", "serving"} /\ mode = "sealing" => terms = cur

LEMMA WalkServes == WalkInv => ServedSealed
  BY DEF WalkInv, ServedSealed, AllSealed, Done

(* Steps before the walk or after it that touch no value.                  *)
LEMMA WalkKept ==
  ASSUME WalkInv, Staged', UNCHANGED rows, kcv' = NoSubkey => kcv = NoSubkey,
         step' = "walk" => at' = 1 \/ (step = "walk" /\ at' = at),
         step' \notin {"batch", "seal"},
         step' \in {"index", "finish", "serving"} /\ mode' = "sealing" => AllSealed,
         step' \in {"finish", "serving"} /\ mode' = "sealing" => terms' = cur'
  PROVE  WalkInv'
<1>1. \A i \in Item : ~(i < 1)
  BY DEF Item
<1> QED BY <1>1 DEF WalkInv, rows, AllSealed, Done

LEMMA SealBatchWalks == ASSUME WalkInv, Staged', SealBatch PROVE WalkInv'
<1> DEFINE last == CHOOSE r \in BatchRows : \A s \in BatchRows : s <= r
<1> USE StoreConstants DEF StoreConstants
<1>0. /\ StoreTypeOK /\ at \in Item /\ cur \in StoreKey /\ kcv # NoSubkey
      /\ state[at] = "sealing" /\ NumRows[at] \in Nat
  BY DEF WalkInv, Staged, Stage, SealBatch, StoreTypeOK
<1>1. \A i \in Item : i # at => val'[i] = val[i] /\ cursor'[i] = cursor[i]
  BY <1>0 DEF SealBatch, StoreTypeOK
<1>2. \A r \in Row(at) : val'[at][r] = IF r \in BatchRows THEN Resealed(val[at][r]) ELSE val[at][r]
  BY <1>0 DEF SealBatch, StoreTypeOK
<1>3. cursor'[at] = IF BatchRows = {} THEN cursor[at] ELSE last
  BY <1>0 DEF SealBatch, StoreTypeOK
<1>4. /\ BatchRows \subseteq Ahead /\ Ahead \subseteq Nat
      /\ BatchRows # {} => last \in BatchRows /\ \A s \in BatchRows : s <= last
  BY <1>0, BatchFinite
<1> HIDE DEF last
<1>5. \A v : Resealed(v) # "plain"
  BY <1>0 DEF Resealed, Unsealed
<1>6. \A r \in Row(at) : r \in Ahead \/ r <= cursor[at] \/ val[at][r] = "none"
  <2>1. cursor[at] \in Nat /\ \A r \in Row(at) : r \in Nat
    BY <1>0 DEF StoreTypeOK, Row
  <2> QED BY <2>1 DEF Ahead
<1>7. ASSUME NEW r \in Row(at), r \in BatchRows \/ r \notin Ahead PROVE val'[at][r] # "plain"
  <2>1. CASE r \in BatchRows
    BY <1>2, <1>5, <2>1
  <2>2. CASE r \notin Ahead
    BY <1>0, <1>2, <1>4, <1>6, <1>7, <2>2 DEF WalkInv, Done
  <2> QED BY <1>7, <2>1, <2>2
<1>8. ASSUME NEW r \in Row(at), r <= cursor'[at] PROVE val'[at][r] # "plain"
  <2>1. CASE BatchRows = {}
    <3>1. r \notin Ahead
      <4>1. cursor[at] \in Nat /\ r \in Nat
        BY <1>0 DEF StoreTypeOK, Row
      <4> QED BY <1>3, <1>8, <2>1, <4>1 DEF Ahead
    <3> QED BY <1>7, <3>1
  <2>2. CASE BatchRows # {}
    <3>1. r \in Ahead => r \in BatchRows
      BY <1>0, <1>3, <1>4, <1>8, <2>2, BatchIsAPrefix
    <3> QED BY <1>7, <3>1
  <2> QED BY <2>1, <2>2
<1>9. step' = "seal" => \A r \in Row(at) : val'[at][r] # "plain"
  <2>1. step' = "seal" => BatchRows = Ahead
    BY <1>0, BatchIsAPrefix DEF SealBatch
  <2> QED BY <1>7, <2>1
<1>10. /\ UNCHANGED <<kcv, state, at, mode, terms, cur>> /\ step' \in {"batch", "seal"}
       /\ step = "batch"
  BY DEF SealBatch, KeepWalk
<1>11. \A i \in Item : \A r \in Row(i) : Done(i, r)' => val'[i][r] # "plain"
  <2> SUFFICES ASSUME NEW i \in Item, NEW r \in Row(i), Done(i, r)' PROVE val'[i][r] # "plain"
    OBVIOUS
  <2>1. CASE i = at
    BY <1>0, <1>8, <1>10, <2>1 DEF Done
  <2>2. CASE i # at
    BY <1>1, <1>10, <2>2 DEF Done, WalkInv
  <2> QED BY <2>1, <2>2
<1> QED BY <1>0, <1>9, <1>10, <1>11 DEF WalkInv

LEMMA NextWalk == WalkInv /\ [StoreNext]_storeVars => WalkInv'
<1> SUFFICES ASSUME WalkInv, [StoreNext]_storeVars PROVE WalkInv'
  OBVIOUS
<1>s. Staged /\ Staged' /\ StoreTypeOK
  BY NextStaged DEF WalkInv, Staged
<1>k. kcv' = NoSubkey => kcv = NoSubkey
  BY <1>s, StoreConstants
     DEF Staged, Stage, StoreConstants, StoreNext, Start, StartDelivered, StartUnderMaster,
         StartMasterAlone, StartCompat, LoadRoot, CreateRoot, WriteRoot, Pin, RunUnder,
         CheckStoreKey, MigrateSchema, Compact, NothingToCompact, CompactFails, CompactHasNoRoom,
         ScrubFreelist, Vacuum, KeepOpen, MigrateColumns, SkipItem, BeginItem, SealBatch,
         FinishItem, EndWalk, EnsureTermsIndex, Finish, FinishFails, FinishHasNoRoom,
         FinishDefersVacuum, FinishVacuums, ToServing, Write, Purge, Store, StopSidecar,
         CoreAdopts, Day, storeVars
<1>1. CASE Start
  <2>1. UNCHANGED rows /\ step' \in {"root", "pin", "open"}
    BY <1>1 DEF Start, StartDelivered, StartUnderMaster, StartMasterAlone, StartCompat, LoadRoot,
                CreateRoot, WriteRoot, Pin, RunUnder
  <2> QED BY <1>s, <1>k, <2>1, WalkKept
<1>2. CASE CheckStoreKey
  BY <1>2, <1>s, <1>k, WalkKept DEF CheckStoreKey
<1>3. CASE MigrateSchema
  BY <1>3, <1>s, <1>k, WalkKept DEF MigrateSchema, proc
<1>4. CASE Compact
  <2>1. UNCHANGED rows /\ (step' = "walk" => at' = 1) /\ step' \in {"walk", "vacuum"}
    BY <1>4 DEF Compact, NothingToCompact, CompactFails, CompactHasNoRoom, ScrubFreelist, Vacuum,
                ToWalk, KeepOpen
  <2> QED BY <1>s, <1>k, <2>1, WalkKept
<1>5. CASE SkipItem
  <2>1. \A i \in Item : i < at + 1 => i < at \/ i = at
    BY <1>5 DEF SkipItem, Item
  <2>2. /\ state[at] = "sealed" /\ at' = at + 1 /\ UNCHANGED <<rows, kcv, mode, step>>
        /\ step = "walk"
    BY <1>5 DEF SkipItem, KeepWalk
  <2> QED BY <1>s, <2>1, <2>2 DEF WalkInv, Done, rows
<1>6. CASE BeginItem
  <2>1. /\ at \in Item /\ state' = [state EXCEPT ![at] = "sealing"] /\ state[at] # "sealed"
        /\ UNCHANGED <<cursor, val, kcv, mode, at>> /\ step' = "batch" /\ step = "walk"
    BY <1>6 DEF BeginItem, KeepWalk
  <2>2. /\ state'[at] = "sealing"
        /\ \A i \in Item : i # at => state'[i] = state[i]
    BY <1>s, <2>1 DEF StoreTypeOK
  <2>3. \A i \in Item : \A r \in Row(i) : Done(i, r)' => val'[i][r] # "plain"
    BY <2>1, <2>2 DEF Done, WalkInv
  <2>4. \A i \in Item : i < at => state'[i] = "sealed"
    <3>1. \A i \in Item : i < at => i # at
      BY <2>1 DEF Item
    <3> QED BY <2>1, <2>2, <3>1 DEF WalkInv
  <2>5. kcv # NoSubkey
    BY <1>s, <2>1, StoreConstants DEF Staged, Stage, StoreTypeOK, StoreConstants
  <2> QED BY <1>s, <2>1, <2>2, <2>3, <2>4, <2>5 DEF WalkInv
<1>7. CASE SealBatch
  BY <1>7, <1>s, SealBatchWalks
<1>8. CASE FinishItem
  <2>1. /\ at \in Item /\ state' = [state EXCEPT ![at] = "sealed"]
        /\ cursor' = [cursor EXCEPT ![at] = 0] /\ at' = at + 1
        /\ UNCHANGED <<val, mode>> /\ step' = "walk" /\ step = "seal"
    BY <1>8, <1>s DEF FinishItem, KeepWalk, Staged, Stage
  <2>2. /\ state'[at] = "sealed" /\ \A i \in Item : i # at => state'[i] = state[i]
        /\ \A i \in Item : i # at => cursor'[i] = cursor[i]
    BY <1>s, <2>1 DEF StoreTypeOK
  <2>3. \A i \in Item : \A r \in Row(i) : Done(i, r)' => val'[i][r] # "plain"
    <3> SUFFICES ASSUME NEW i \in Item, NEW r \in Row(i), Done(i, r)' PROVE val'[i][r] # "plain"
      OBVIOUS
    <3>1. CASE i = at
      BY <2>1, <3>1 DEF WalkInv
    <3>2. CASE i # at
      BY <2>1, <2>2, <3>2 DEF WalkInv, Done
    <3> QED BY <3>1, <3>2
  <2>4. \A i \in Item : i < at + 1 => state'[i] = "sealed"
    <3>1. \A i \in Item : i < at + 1 => i < at \/ i = at
      BY <2>1 DEF Item
    <3> QED BY <2>1, <2>2, <3>1 DEF WalkInv
  <2>5. kcv # NoSubkey
    BY <1>s, <2>1, StoreConstants DEF Staged, Stage, StoreTypeOK, StoreConstants
  <2> QED BY <1>s, <1>k, <2>1, <2>3, <2>4, <2>5 DEF WalkInv
<1>9. CASE EndWalk
  <2>1. AllSealed
    <3>1. \A i \in Item : i < at
      BY <1>9, StoreConstants DEF EndWalk, Item, StoreConstants
    <3> QED BY <1>9, <3>1 DEF WalkInv, AllSealed, EndWalk
  <2> QED BY <1>9, <1>s, <1>k, <2>1, WalkKept DEF EndWalk
<1>10. CASE EnsureTermsIndex
  <2>1. mode' = "sealing" => AllSealed /\ terms' = cur'
    BY <1>10 DEF EnsureTermsIndex, TermsMode, WalkInv
  <2> QED BY <1>10, <1>s, <1>k, <2>1, WalkKept DEF EnsureTermsIndex
<1>11. CASE Finish
  <2>1. UNCHANGED <<rows, terms, cur, mode>> /\ step' = "serving" /\ step = "finish"
    BY <1>11 DEF Finish, FinishFails, FinishHasNoRoom, FinishDefersVacuum, FinishVacuums,
                 ToServing, proc
  <2> QED BY <1>s, <1>k, <2>1, WalkKept DEF WalkInv
<1>12. ASSUME NEW i \in Item, NEW r \in Row(i), Write(i, r) \/ Purge(i, r) PROVE WalkInv'
  <2>1. PICK v : Store(i, r, v) /\ (v # "plain" \/ mode = "compat") /\ step = "serving"
    <3>1. CASE Purge(i, r)
      BY <3>1 DEF Purge
    <3>2. CASE Write(i, r)
      BY <3>2, <1>s, StoreConstants DEF Write, Staged, Stage, StoreConstants, Unsealed
    <3> QED BY <1>12, <3>1, <3>2
  <2>2. UNCHANGED <<kcv, state, cursor, terms, step, at, mode, cur>>
    BY <2>1 DEF Store, proc
  <2>3. \A j \in Item : \A q \in Row(j) : val'[j][q] = val[j][q] \/ val'[j][q] = v
    BY <1>s, <2>1 DEF Store, StoreTypeOK
  <2>4. mode = "compat" => \A j \in Item : \A q \in Row(j) : ~Done(j, q)
    <3>1. \A j \in Item : \A q \in Row(j) : ~(q <= 0)
      BY StoreConstants DEF StoreConstants, Row
    <3> QED BY <1>s, <3>1 DEF WalkInv, Staged, Stage, Done
  <2>5. \A j \in Item : \A q \in Row(j) : Done(j, q)' => val'[j][q] # "plain"
    BY <2>1, <2>2, <2>3, <2>4 DEF WalkInv, Done
  <2> QED BY <1>s, <2>1, <2>2, <2>5 DEF WalkInv, AllSealed
<1>13. CASE StopSidecar \/ CoreAdopts
  BY <1>13, <1>s, <1>k, WalkKept DEF StopSidecar, CoreAdopts
<1>14. CASE Day \/ UNCHANGED storeVars
  <2>1. UNCHANGED <<rows, kcv, terms, step, proc>>
    BY <1>14 DEF Day, storeVars
  <2> QED BY <1>s, <2>1 DEF WalkInv, Done, AllSealed, rows, proc
<1> QED BY <1>1, <1>2, <1>3, <1>4, <1>5, <1>6, <1>7, <1>8, <1>9, <1>10, <1>11, <1>12, <1>13, <1>14
        DEF StoreNext, MigrateColumns

(* However often the migration was stopped, a sidecar that serves under a  *)
(* key has sealed every column, for every number of columns and rows and   *)
(* every batch size.                                                       *)
THEOREM ServesOnlySealed == StoreSpec => []ServedSealed
<1>1. StoreInit => WalkInv
  <2> SUFFICES ASSUME StoreInit PROVE WalkInv
    OBVIOUS
  <2>1. \A i \in Item : \A r \in Row(i) : ~Done(i, r)
    BY StoreConstants DEF StoreInit, Done, Row, StoreConstants
  <2> QED BY <2>1, StoreInitType DEF StoreInit, WalkInv, Staged, Stage
<1> QED BY <1>1, NextWalk, WalkServes, PTL DEF StoreSpec

(***************************************************************************)
(* The owed scrub                                                          *)
(***************************************************************************)
ScrubInv == /\ WalkInv /\ ScrubStaysOwed
            /\ step \in {"batch", "seal"} => debt = "owed"

(* No step owes less without clearing, and none but a batch frees plain    *)
(* cells while a column is still to be sealed.                             *)
LEMMA ScrubKept ==
  ASSUME ScrubInv, WalkInv', UNCHANGED state, residue' \subseteq residue,
         debt' = "ok" => debt = "ok" \/ residue' = {},
         debt' = "scrubbed" => "free" \notin residue',
         step' \in {"batch", "seal"} => step' = step /\ debt' = debt
  PROVE  ScrubInv'
  BY DEF ScrubInv, ScrubStaysOwed, AllSealed

LEMMA NextScrub == ScrubInv /\ [StoreNext]_storeVars => ScrubInv'
<1> SUFFICES ASSUME ScrubInv, [StoreNext]_storeVars PROVE ScrubInv'
  OBVIOUS
<1>s. WalkInv /\ WalkInv' /\ Staged /\ StoreTypeOK
  BY NextWalk DEF ScrubInv, WalkInv, Staged
<1>1. CASE Start \/ CheckStoreKey \/ MigrateSchema \/ EnsureTermsIndex \/ StopSidecar \/ CoreAdopts
  <2>1. UNCHANGED <<state, residue, debt>> /\ step' \notin {"batch", "seal"}
    BY <1>1 DEF Start, StartDelivered, StartUnderMaster, StartMasterAlone, StartCompat, LoadRoot,
                CreateRoot, WriteRoot, Pin, RunUnder, CheckStoreKey, MigrateSchema,
                EnsureTermsIndex, StopSidecar, CoreAdopts, rows, scrub
  <2> QED BY <1>s, <2>1, ScrubKept DEF ScrubInv, ScrubStaysOwed
<1>2. CASE Compact
  <2>1. UNCHANGED state /\ step' \notin {"batch", "seal"}
    BY <1>2 DEF Compact, NothingToCompact, CompactFails, CompactHasNoRoom, ScrubFreelist, Vacuum,
                ToWalk, KeepOpen, rows
  <2>2. /\ residue' \subseteq residue
        /\ debt' = "ok" => debt = "ok" \/ residue' = {}
        /\ debt' = "scrubbed" => "free" \notin residue'
    <3>1. debt = "scrubbed" => "free" \notin residue
      BY DEF ScrubInv, ScrubStaysOwed
    <3>2. CASE NothingToCompact \/ CompactFails \/ CompactHasNoRoom
      BY <3>1, <3>2 DEF NothingToCompact, CompactFails, CompactHasNoRoom, scrub
    <3>3. CASE ScrubFreelist
      BY <1>s, <3>1, <3>3 DEF ScrubFreelist, StoreTypeOK
    <3>4. CASE Vacuum
      BY <3>4 DEF Vacuum
    <3> QED BY <1>2, <3>2, <3>3, <3>4 DEF Compact
  <2> QED BY <1>s, <2>1, <2>2, ScrubKept
<1>3. CASE Finish
  BY <1>3, <1>s, ScrubKept
     DEF Finish, FinishFails, FinishHasNoRoom, FinishDefersVacuum, FinishVacuums, ToServing, rows,
         ScrubInv, ScrubStaysOwed
<1>4. CASE SkipItem \/ EndWalk
  BY <1>4, <1>s, ScrubKept DEF SkipItem, EndWalk, KeepWalk, rows, scrub, ScrubInv, ScrubStaysOwed
<1>5. CASE BeginItem
  BY <1>5, <1>s DEF BeginItem, ScrubInv, ScrubStaysOwed
<1>6. CASE SealBatch \/ FinishItem
  <2>1. debt = "owed" /\ debt' = debt
    BY <1>6 DEF SealBatch, FinishItem, ScrubInv, scrub
  <2> QED BY <1>s, <2>1 DEF ScrubInv, ScrubStaysOwed
<1>7. ASSUME NEW i \in Item, NEW r \in Row(i), Write(i, r) \/ Purge(i, r) PROVE ScrubInv'
  <2>1. PICK v : Store(i, r, v) /\ step = "serving"
    BY <1>7 DEF Write, Purge
  <2>2. AllSealed => residue' = residue
    BY <1>s, <2>1 DEF Store, AllSealed, WalkInv, Done
  <2>3. "free" \in residue' <=> "free" \in residue
    BY <2>1 DEF Store
  <2> QED BY <1>s, <2>1, <2>2, <2>3 DEF Store, ScrubInv, ScrubStaysOwed, AllSealed
<1>8. CASE Day \/ UNCHANGED storeVars
  BY <1>8, <1>s, ScrubKept DEF Day, storeVars, rows, scrub, ScrubInv, ScrubStaysOwed
<1> QED BY <1>1, <1>2, <1>3, <1>4, <1>5, <1>6, <1>7, <1>8 DEF StoreNext, MigrateColumns

(* Plaintext that may survive in a fully sealed file stays owed a          *)
(* compaction, through every order of crashes, refusals and scrubs.        *)
THEOREM PlaintextStaysOwed == StoreSpec => []ScrubStaysOwed
<1>1. StoreInit => ScrubInv
  <2> SUFFICES ASSUME StoreInit PROVE ScrubInv
    OBVIOUS
  <2>1. ~AllSealed
    BY StoreConstants DEF StoreInit, AllSealed, Item, StoreConstants
  <2>2. WalkInv
    <3>1. \A i \in Item : \A r \in Row(i) : ~Done(i, r)
      BY StoreConstants DEF StoreInit, Done, Row, StoreConstants
    <3> QED BY <3>1, StoreInitType DEF StoreInit, WalkInv, Staged, Stage
  <2> QED BY <2>1, <2>2 DEF StoreInit, ScrubInv, ScrubStaysOwed
<1>2. ScrubInv => ScrubStaysOwed
  BY DEF ScrubInv
<1> QED BY <1>1, <1>2, NextScrub, PTL DEF StoreSpec

(***************************************************************************)
(* The sealed log                                                          *)
(***************************************************************************)
IsRecord(i) == disk[i].kind = "record"
RecordIds == {disk[i].id : i \in {j \in 1..Len(disk) : IsRecord(j)}}

(* Before a writer goes on after a failed append: records of one key at    *)
(* their places, in the order they were handed, and one bad frame after    *)
(* them at most.                                                           *)
Shape ==
  /\ \A i \in 1..Len(disk) : i < Len(disk) => IsRecord(i)
  /\ \A i \in 1..Len(disk) : IsRecord(i) => /\ disk[i].index = i - 1
                                            /\ disk[i].key = disk[1].key
                                            /\ disk[i].key <= current
  /\ \A i, j \in 1..Len(disk) :
       IsRecord(i) /\ IsRecord(j) /\ i < j => disk[i].id < disk[j].id

Matches(k) == \A i \in 1..Len(disk) : IsRecord(i) => disk[i].key = k

(* A writer that has not failed appends where the records end.             *)
AtTheEnd ==
  writer # Absent =>
    /\ writer.key = current
    /\ ~limp => /\ writer.next = Len(disk) /\ Matches(current)
                /\ \A i \in 1..Len(disk) : IsRecord(i)

Kept == /\ acked \subseteq RecordIds
        /\ temp # Absent => Keeps(temp)
        /\ dest # Absent => Keeps(dest)

LogInv ==
  /\ LogTypeOK
  /\ \A i \in 1..Len(disk) : IsRecord(i) => disk[i].id \in 1..handed
  /\ header # "whole" => disk = <<>>
  /\ temp # Absent \/ dest # Absent => header = "whole" /\ writer = Absent
  /\ ~poisoned => Shape /\ AtTheEnd /\ Kept

LEMMA LeadingFrames ==
  ASSUME NEW fs \in Seq(Frame), NEW k
  PROVE  LET n == Committed(fs, k)
         IN  /\ n \in 0..Len(fs)
             /\ \A i \in 1..n : OpensAt(fs, i, k)
             /\ n < Len(fs) => ~OpensAt(fs, n + 1, k)
<1> DEFINE Ends == {n \in 0..Len(fs) : n = Len(fs) \/ ~OpensAt(fs, n + 1, k)}
<1>1. Len(fs) \in Nat
  OBVIOUS
<1>2. Ends # {} /\ Ends \subseteq Nat
  <2>1. Len(fs) \in Ends
    BY <1>1
  <2> QED BY <2>1
<1>3. PICK n \in Ends : \A m \in Ends : n <= m
  BY <1>2, Least
<1>4. \A i \in 1..n : OpensAt(fs, i, k)
  <2>1. SUFFICES ASSUME NEW i \in 1..n, ~OpensAt(fs, i, k) PROVE FALSE
    OBVIOUS
  <2>2. n \in 0..Len(fs)
    BY <1>3
  <2>3. i - 1 \in 0..Len(fs) /\ (i - 1) + 1 = i
    BY <1>1, <2>2
  <2>4. i - 1 \in Ends
    BY <2>1, <2>3
  <2>5. n <= i - 1
    BY <1>3, <2>4
  <2> QED BY <2>2, <2>5
<1>5. /\ n \in 0..Len(fs) /\ \A i \in 1..n : OpensAt(fs, i, k)
      /\ n < Len(fs) => ~OpensAt(fs, n + 1, k)
  BY <1>3, <1>4
<1> HIDE DEF Ends
<1> QED BY <1>5 DEF Committed

(* Under the key of its records a log reads them all.                      *)
LEMMA MatchReads ==
  ASSUME LogTypeOK, Shape, NEW k, Matches(k)
  PROVE  /\ Committed(disk, k) \in 0..Len(disk)
         /\ \A i \in 1..Len(disk) : IsRecord(i) <=> i <= Committed(disk, k)
         /\ Len(disk) - 1 <= Committed(disk, k)
<1> DEFINE n == Committed(disk, k)
<1>1. disk \in Seq(Frame) /\ Len(disk) \in Nat
  BY DEF LogTypeOK
<1>2. /\ n \in 0..Len(disk)
      /\ \A i \in 1..n : OpensAt(disk, i, k)
      /\ n < Len(disk) => ~OpensAt(disk, n + 1, k)
  BY <1>1, LeadingFrames
<1> HIDE DEF n
<1>3. \A i \in 1..Len(disk) : OpensAt(disk, i, k) <=> IsRecord(i)
  BY DEF OpensAt, IsRecord, Shape, Matches
<1>4. n < Len(disk) => n + 1 \in 1..Len(disk) /\ ~IsRecord(n + 1)
  BY <1>1, <1>2, <1>3
<1>5. n < Len(disk) => n + 1 = Len(disk)
  BY <1>1, <1>2, <1>4 DEF Shape
<1>6. \A i \in 1..Len(disk) : IsRecord(i) <=> i <= n
  BY <1>1, <1>2, <1>3, <1>4, <1>5
<1> QED BY <1>1, <1>2, <1>5, <1>6 DEF n

(* No other key gets past its first record.                                *)
LEMMA OnlyMatchFits ==
  ASSUME LogTypeOK, Shape, NEW k, Fits(k)
  PROVE  Matches(k)
<1> SUFFICES ASSUME NEW i \in 1..Len(disk), IsRecord(i), disk[i].key # k PROVE FALSE
  BY DEF Matches
<1> DEFINE n == Committed(disk, k)
<1>1. disk \in Seq(Frame) /\ Len(disk) \in Nat
  BY DEF LogTypeOK
<1>2. n \in 0..Len(disk) /\ \A j \in 1..n : OpensAt(disk, j, k)
  BY <1>1, LeadingFrames
<1> HIDE DEF n
<1>3. 1 \in 1..Len(disk) /\ IsRecord(1) /\ disk[1].key # k
  <2>1. 1 \in 1..Len(disk) /\ (i = 1 \/ 1 < Len(disk))
    BY <1>1
  <2> QED BY <2>1 DEF Shape
<1>4. n = 0
  BY <1>2, <1>3 DEF OpensAt
<1>5. Ending(disk, k) = IF Len(disk) - 1 = 0 THEN "failed" ELSE "error"
  <2>1. n # Len(disk) /\ n + 1 = 1 /\ disk[1].kind = "record"
    BY <1>1, <1>3, <1>4 DEF IsRecord
  <2> QED BY <2>1 DEF Ending, n
<1> QED BY <1>4, <1>5 DEF Fits, n

LEMMA MatchFits ==
  ASSUME LogTypeOK, Shape, ~(disk # <<>> /\ disk[1].kind = "garbage"), NEW k, Matches(k)
  PROVE  Fits(k)
<1> DEFINE n == Committed(disk, k)
<1>1. disk \in Seq(Frame) /\ Len(disk) \in Nat
  BY DEF LogTypeOK
<1>2. /\ n \in 0..Len(disk) /\ Len(disk) - 1 <= n
      /\ \A i \in 1..Len(disk) : IsRecord(i) <=> i <= n
  BY MatchReads
<1> HIDE DEF n
<1>3. CASE n = Len(disk)
  <2>1. Ending(disk, k) = "clean"
    BY <1>3 DEF Ending, n
  <2> QED BY <2>1 DEF Fits
<1>4. CASE n # Len(disk)
  <2>1. n + 1 = Len(disk) /\ n + 1 \in 1..Len(disk) /\ ~IsRecord(n + 1)
    BY <1>1, <1>2, <1>4
  <2>2. disk[n + 1] \in Frame
    BY <1>1, <2>1
  <2>3. \/ disk[n + 1].kind = "torn" /\ disk[n + 1].reach \in {1, 2}
        \/ disk[n + 1].kind \in {"zeros", "garbage"}
    BY <2>1, <2>2 DEF Frame, IsRecord
  <2>4. Len(disk) - (n + 1) = 0
    BY <1>1, <2>1
  <2>5. disk[n + 1].kind \in {"torn", "zeros"} => Ending(disk, k) = "short"
    BY <1>4, <2>3, <2>4 DEF Ending, n
  <2>6. disk[n + 1].kind = "garbage" => Ending(disk, k) = "failed"
    BY <1>4, <2>4 DEF Ending, n
  <2>7. disk[n + 1].kind = "garbage" => n # 0
    <3>1. disk # <<>>
      BY <2>1
    <3> QED BY <3>1
  <2> QED BY <2>3, <2>5, <2>6, <2>7 DEF Fits, n
<1> QED BY <1>3, <1>4

LEMMA SomeKeyMatches ==
  ASSUME LogTypeOK, Shape
  PROVE  \E k \in 1..current : Matches(k)
<1>1. /\ disk \in Seq(Frame) /\ Len(disk) \in Nat /\ current \in LogKey /\ current \in 1..current
  BY LogConstants DEF LogTypeOK, LogKey
<1>2. CASE \E i \in 1..Len(disk) : IsRecord(i)
  <2>1. PICK i \in 1..Len(disk) : IsRecord(i)
    BY <1>2
  <2>2. disk[i] \in Frame
    BY <1>1
  <2>3. disk[i].key \in 1..current
    BY <1>1, <2>1, <2>2 DEF Frame, IsRecord, Shape, LogKey
  <2>4. Matches(disk[i].key)
    BY <2>1 DEF Shape, Matches
  <2> QED BY <2>3, <2>4
<1>3. CASE ~ \E i \in 1..Len(disk) : IsRecord(i)
  BY <1>1, <1>3 DEF Matches
<1> QED BY <1>2, <1>3

LEMMA OpeningFits ==
  ASSUME LogTypeOK, Opened
  PROVE  OpeningKey \in 1..current /\ Fits(OpeningKey)
<1> DEFINE S == {k \in 1..current : Fits(k)}
<1>1. current \in Nat /\ S \subseteq Nat /\ S # {} /\ \A k \in S : k <= current
  BY LogConstants DEF LogTypeOK, LogKey, Opened
<1>2. PICK k \in S : \A j \in S : j <= k
  BY <1>1, Greatest
<1>3. k \in 1..current /\ Fits(k) /\ \A j \in (k + 1)..current : ~Fits(j)
  BY <1>1, <1>2
<1> HIDE DEF S
<1> QED BY <1>3 DEF OpeningKey

LEMMA ReadsTheRecords ==
  ASSUME LogTypeOK, Shape, Opened
  PROVE  /\ {ReadBack[i] : i \in DOMAIN ReadBack} = RecordIds
         /\ \A i, j \in DOMAIN ReadBack : i < j => ReadBack[i] < ReadBack[j]
<1> DEFINE n == Committed(disk, OpeningKey)
<1>1. /\ n \in 0..Len(disk) /\ \A i \in 1..Len(disk) : IsRecord(i) <=> i <= n
  BY OpeningFits, OnlyMatchFits, MatchReads
<1>2. ReadBack = [i \in 1..n |-> disk[i].id]
  BY DEF ReadBack
<1> HIDE DEF n
<1>3. Len(disk) \in Nat
  BY DEF LogTypeOK
<1>4. {j \in 1..Len(disk) : IsRecord(j)} = 1..n
  BY <1>1, <1>3
<1>5. {ReadBack[i] : i \in DOMAIN ReadBack} = RecordIds
  BY <1>2, <1>4 DEF RecordIds
<1>6. \A i, j \in 1..n : i < j => disk[i].id < disk[j].id
  BY <1>1, <1>3 DEF Shape
<1> QED BY <1>2, <1>5, <1>6

(* A log cut to n frames, with a bad frame after them or none.             *)
LEMMA CutLog ==
  ASSUME LogInv, NEW n \in 0..Len(disk),
         disk' \in Seq(Frame), Len(disk') \in n..(n + 1),
         \A i \in 1..n : disk'[i] = disk[i],
         Len(disk') = n + 1 => disk'[n + 1].kind # "record",
         handed' \in handed..MaxRecords, current' = current
  PROVE  /\ \A i \in 1..Len(disk') : IsRecord(i)' => disk'[i].id \in 1..handed'
         /\ RecordIds' = {disk[i].id : i \in {j \in 1..n : IsRecord(j)}}
         /\ Shape /\ (\A i \in 1..n : IsRecord(i)) => Shape'
<1>1. Len(disk) \in Nat /\ Len(disk') \in Nat /\ handed \in Nat
  BY DEF LogInv, LogTypeOK
<1>2. \A i \in 1..Len(disk') : IsRecord(i)' <=> i <= n /\ IsRecord(i)
  <2>1. SUFFICES ASSUME NEW i \in 1..Len(disk') PROVE IsRecord(i)' <=> i <= n /\ IsRecord(i)
    OBVIOUS
  <2>2. CASE i \in 1..n
    BY <1>1, <2>2 DEF IsRecord
  <2>3. CASE i = n + 1 /\ Len(disk') = n + 1
    BY <1>1, <2>3 DEF IsRecord
  <2> QED BY <1>1, <2>2, <2>3
<1>3. \A i \in 1..Len(disk') : IsRecord(i)' =>
        i \in 1..n /\ i \in 1..Len(disk) /\ IsRecord(i) /\ disk'[i] = disk[i]
  BY <1>1, <1>2
<1>4. \A i \in 1..Len(disk') : IsRecord(i)' => disk'[i].id \in 1..handed'
  BY <1>1, <1>3 DEF LogInv
<1>5. RecordIds' = {disk[i].id : i \in {j \in 1..n : IsRecord(j)}}
  <2>1. {j \in 1..Len(disk') : IsRecord(j)'} = {j \in 1..n : IsRecord(j)}
    BY <1>1, <1>2
  <2>2. RecordIds' = {disk'[i].id : i \in {j \in 1..Len(disk') : IsRecord(j)'}}
    BY DEF RecordIds
  <2> QED BY <2>1, <2>2
<1>6. ASSUME Shape, \A i \in 1..n : IsRecord(i) PROVE Shape'
  <2>1. \A i \in 1..Len(disk') : i < Len(disk') => IsRecord(i)'
    BY <1>1, <1>2, <1>6
  <2>2. ASSUME NEW i \in 1..Len(disk'), IsRecord(i)'
        PROVE  disk'[i].index = i - 1 /\ disk'[i].key = disk'[1].key /\ disk'[i].key <= current'
    <3>1. i \in 1..n /\ i \in 1..Len(disk) /\ IsRecord(i) /\ disk'[i] = disk[i] /\ disk'[1] = disk[1]
      BY <1>1, <1>3, <2>2
    <3> QED BY <1>6, <3>1 DEF Shape
  <2>3. ASSUME NEW i \in 1..Len(disk'), NEW j \in 1..Len(disk'), IsRecord(i)', IsRecord(j)', i < j
        PROVE  disk'[i].id < disk'[j].id
    BY <1>3, <1>6, <2>3 DEF Shape
  <2> QED BY <2>1, <2>2, <2>3 DEF Shape
<1> QED BY <1>4, <1>5, <1>6

(* The next frame of a writer that is at the end.                          *)
LEMMA NextRecord ==
  ASSUME LogInv, writer # Absent, Mint, disk' = Append(disk, NextFrame), current' = current
  PROVE  /\ disk' \in Seq(Frame) /\ Len(disk') = Len(disk) + 1
         /\ \A i \in 1..Len(disk') : IsRecord(i)' => disk'[i].id \in 1..handed'
         /\ RecordIds' = RecordIds \cup {handed + 1}
         /\ Shape /\ AtTheEnd /\ ~limp =>
              Shape' /\ Matches(current)' /\ \A i \in 1..Len(disk') : IsRecord(i)'
<1>0. PICK m \in Nat : m = Len(disk) + 1
  BY DEF LogInv, LogTypeOK
<1>1. /\ disk \in Seq(Frame) /\ Len(disk) \in Nat /\ handed \in Nat /\ handed' = handed + 1
      /\ current \in Nat /\ current \in LogKey
  BY LogConstants DEF LogInv, LogTypeOK, Mint, LogKey
<1>2. NextFrame \in Frame /\ NextFrame.kind = "record" /\ NextFrame.id = handed + 1
  BY <1>1 DEF LogInv, LogTypeOK, NextFrame, Frame
<1>3. /\ disk' \in Seq(Frame) /\ Len(disk') = m /\ m = Len(disk) + 1 /\ disk'[m] = NextFrame
      /\ \A i \in 1..Len(disk) : disk'[i] = disk[i]
  BY <1>0, <1>1, <1>2, AppendProperties
<1>4. /\ \A i \in 1..Len(disk) : IsRecord(i)' <=> IsRecord(i)
      /\ IsRecord(m)'
  BY <1>2, <1>3 DEF IsRecord
<1>5. \A i \in 1..Len(disk') : i \in 1..Len(disk) \/ i = m
  BY <1>1, <1>3
<1>6. \A i \in 1..Len(disk') : IsRecord(i)' => disk'[i].id \in 1..handed'
  BY <1>1, <1>2, <1>3, <1>4, <1>5 DEF LogInv
<1>7. RecordIds' = RecordIds \cup {handed + 1}
  <2>1. {j \in 1..Len(disk') : IsRecord(j)'} = {j \in 1..Len(disk) : IsRecord(j)} \cup {m}
    BY <1>1, <1>3, <1>4, <1>5
  <2>2. RecordIds' = {disk'[i].id : i \in {j \in 1..Len(disk') : IsRecord(j)'}}
    BY DEF RecordIds
  <2>3. disk'[m].id = handed + 1
    BY <1>2, <1>3
  <2> QED BY <1>3, <2>1, <2>2, <2>3 DEF RecordIds
<1>8. ASSUME Shape, AtTheEnd, ~limp
      PROVE  Shape' /\ Matches(current)' /\ \A i \in 1..Len(disk') : IsRecord(i)'
  <2>1. /\ writer.key = current /\ writer.next = Len(disk)
        /\ \A i \in 1..Len(disk) : IsRecord(i) /\ disk[i].key = current
    BY <1>8 DEF AtTheEnd, Matches
  <2>2. disk'[m].key = current /\ disk'[m].index = m - 1 /\ disk'[m].id = handed + 1
    BY <1>1, <1>3, <2>1 DEF NextFrame
  <2>3. \A i \in 1..Len(disk') : IsRecord(i)' /\ disk'[i].key = current
    BY <1>3, <1>4, <1>5, <2>1, <2>2
  <2>4. \A i \in 1..Len(disk') : disk'[i].index = i - 1
    BY <1>1, <1>3, <1>5, <2>1, <2>2, <1>8 DEF Shape
  <2>5. disk'[1].key = current
    <3>1. 1 \in 1..Len(disk')
      BY <1>1, <1>3
    <3> QED BY <2>3, <3>1
  <2>6. \A i, j \in 1..Len(disk') : i < j => disk'[i].id < disk'[j].id
    <3>1. SUFFICES ASSUME NEW i \in 1..Len(disk'), NEW j \in 1..Len(disk'), i < j
                   PROVE  disk'[i].id < disk'[j].id
      OBVIOUS
    <3>2. i \in 1..Len(disk)
      BY <1>1, <1>3, <3>1
    <3>3. CASE j \in 1..Len(disk)
      BY <1>3, <1>8, <2>1, <3>1, <3>2, <3>3 DEF Shape
    <3>4. CASE j = m
      <4>1. disk[i].id \in 1..handed
        BY <2>1, <3>2 DEF LogInv
      <4> QED BY <1>1, <1>3, <2>2, <3>2, <3>4, <4>1
    <3> QED BY <1>5, <3>3, <3>4
  <2> QED BY <1>1, <2>3, <2>4, <2>5, <2>6 DEF Shape, Matches
<1> QED BY <1>0, <1>3, <1>6, <1>7, <1>8

LEMMA KeepsLess ==
  ASSUME NEW read, Keeps(read), acked' \subseteq acked
  PROVE  /\ acked' \subseteq {read[i] : i \in DOMAIN read}
         /\ \A i, j \in DOMAIN read : i < j => read[i] < read[j]
  BY DEF Keeps

(* Cutting a log at its first bad frame drops none of its records.         *)
LEMMA OpenKeeps ==
  ASSUME LogInv, OpenAppend
  PROVE  LogInv'
<1>1. PICK n : /\ n = Committed(disk, current) /\ disk' = SubSeq(disk, 1, n)
               /\ durable' = IF n < Len(disk) THEN n ELSE durable
               /\ writer' = [key |-> current, next |-> n]
  BY DEF OpenAppend
<1>2. /\ UNCHANGED <<header, acked, handed, current, limp, poisoned, temp, dest>>
      /\ temp = Absent /\ dest = Absent /\ header = "whole"
  BY DEF OpenAppend, Opened
<1>3. /\ disk \in Seq(Frame) /\ Len(disk) \in Nat /\ current \in LogKey
      /\ handed \in 0..MaxRecords /\ durable \in 0..Len(disk)
  BY DEF LogInv, LogTypeOK
<1>4. n \in 0..Len(disk)
  BY <1>1, <1>3, LeadingFrames
<1>5. /\ disk' \in Seq(Frame) /\ Len(disk') = n /\ \A i \in 1..n : disk'[i] = disk[i]
  BY <1>1, <1>3, <1>4, SubSeqProperties
<1>6. n \in Nat /\ Len(disk') \in n..(n + 1) /\ Len(disk') # n + 1 /\ handed' \in handed..MaxRecords
  BY <1>2, <1>3, <1>4, <1>5 DEF LogInv, LogTypeOK
<1>7. /\ \A i \in 1..Len(disk') : IsRecord(i)' => disk'[i].id \in 1..handed'
      /\ RecordIds' = {disk[i].id : i \in {j \in 1..n : IsRecord(j)}}
      /\ Shape /\ (\A i \in 1..n : IsRecord(i)) => Shape'
  BY <1>2, <1>4, <1>5, <1>6, CutLog
<1>8. LogTypeOK'
  <2>1. durable' \in 0..Len(disk')
    BY <1>1, <1>3, <1>4, <1>5
  <2>2. writer' \in {Absent} \cup [key : LogKey, next : Nat]
    BY <1>1, <1>3, <1>6
  <2> QED BY <1>2, <1>5, <2>1, <2>2 DEF LogInv, LogTypeOK
<1>9. ASSUME ~poisoned PROVE Shape' /\ AtTheEnd' /\ Kept'
  <2>1. Shape /\ Fits(current) /\ LogTypeOK
    BY <1>9, OpeningFits DEF LogInv, OpenAppend
  <2>2. Matches(current)
    BY <2>1, OnlyMatchFits
  <2>3. \A i \in 1..Len(disk) : IsRecord(i) <=> i <= n
    BY <1>1, <2>1, <2>2, MatchReads
  <2>4. \A i \in 1..n : i \in 1..Len(disk) /\ IsRecord(i)
    BY <1>3, <1>4, <2>3
  <2>5. Shape'
    BY <1>7, <2>1, <2>4
  <2>6. RecordIds' = RecordIds
    <3>1. {j \in 1..n : IsRecord(j)} = {j \in 1..Len(disk) : IsRecord(j)}
      BY <1>3, <1>4, <2>3
    <3> QED BY <1>7, <3>1 DEF RecordIds
  <2>7. AtTheEnd'
    <3>1. \A i \in 1..n : IsRecord(i)' /\ disk'[i].key = current
      BY <1>5, <2>2, <2>4 DEF IsRecord, Matches
    <3> QED BY <1>1, <1>2, <1>5, <3>1 DEF AtTheEnd, Matches
  <2>8. Kept'
    BY <1>2, <1>9, <2>6 DEF LogInv, Kept
  <2> QED BY <2>5, <2>7, <2>8
<1> QED BY <1>2, <1>7, <1>8, <1>9 DEF LogInv

LEMMA AppendKeeps ==
  ASSUME LogInv, AppendRecord
  PROVE  LogInv'
<1>1. /\ writer # Absent /\ header = "whole" /\ Mint /\ disk' = Append(disk, NextFrame)
      /\ writer' = [writer EXCEPT !.next = @ + 1] /\ acked' = acked \cup {handed + 1}
      /\ poisoned' = (poisoned \/ limp)
      /\ UNCHANGED <<header, durable, current, limp, temp, dest>>
  BY DEF AppendRecord, Writing, Append1
<1>2. /\ temp = Absent /\ dest = Absent /\ Len(disk) \in Nat /\ durable \in 0..Len(disk)
      /\ writer \in [key : LogKey, next : Nat] /\ handed \in 0..MaxRecords
      /\ acked \subseteq 1..MaxRecords
  BY <1>1 DEF LogInv, LogTypeOK
<1>3. /\ disk' \in Seq(Frame) /\ Len(disk') = Len(disk) + 1
      /\ \A i \in 1..Len(disk') : IsRecord(i)' => disk'[i].id \in 1..handed'
      /\ RecordIds' = RecordIds \cup {handed + 1}
      /\ Shape /\ AtTheEnd /\ ~limp =>
           Shape' /\ Matches(current)' /\ \A i \in 1..Len(disk') : IsRecord(i)'
  BY <1>1, NextRecord
<1>4. LogTypeOK'
  <2>1. durable' \in 0..Len(disk') /\ handed' \in 0..MaxRecords /\ acked' \subseteq 1..MaxRecords
    BY <1>1, <1>2, <1>3, LogConstants DEF Mint
  <2>2. writer' \in [key : LogKey, next : Nat] /\ poisoned' \in BOOLEAN
    BY <1>1, <1>2
  <2> QED BY <1>1, <1>3, <2>1, <2>2 DEF LogInv, LogTypeOK
<1>5. ASSUME ~poisoned' PROVE Shape' /\ AtTheEnd' /\ Kept'
  <2>1. ~poisoned /\ ~limp /\ Shape /\ AtTheEnd /\ Kept
    BY <1>1, <1>5 DEF LogInv
  <2>2. writer'.key = current /\ writer'.next = Len(disk) + 1
    BY <1>1, <1>2, <2>1 DEF AtTheEnd
  <2>3. AtTheEnd'
    BY <1>1, <1>3, <2>1, <2>2 DEF AtTheEnd
  <2> QED BY <1>1, <1>2, <1>3, <2>1, <2>3 DEF Kept
<1> QED BY <1>1, <1>2, <1>3, <1>4, <1>5 DEF LogInv

(* Part of a frame at the end, whoever left it.                            *)
LEMMA TornLog ==
  ASSUME LogInv, writer # Absent, Mint, current' = current, NEW f \in Frame, f.kind # "record",
         disk' = Append(disk, f)
  PROVE  /\ disk' \in Seq(Frame) /\ Len(disk') = Len(disk) + 1
         /\ \A i \in 1..Len(disk') : IsRecord(i)' => disk'[i].id \in 1..handed'
         /\ RecordIds' = RecordIds
         /\ Shape /\ AtTheEnd /\ ~limp => Shape'
<1>0. PICK n \in Nat : n = Len(disk)
  BY DEF LogInv, LogTypeOK
<1>1. disk \in Seq(Frame) /\ handed' \in handed..MaxRecords
  BY LogConstants DEF LogInv, LogTypeOK, Mint
<1>2. /\ disk' \in Seq(Frame) /\ Len(disk') = n + 1 /\ disk'[n + 1] = f
      /\ \A i \in 1..n : disk'[i] = disk[i]
  BY <1>0, <1>1, AppendProperties
<1>3. /\ \A i \in 1..Len(disk') : IsRecord(i)' => disk'[i].id \in 1..handed'
      /\ RecordIds' = {disk[i].id : i \in {j \in 1..n : IsRecord(j)}}
      /\ Shape /\ (\A i \in 1..n : IsRecord(i)) => Shape'
  <2>1. n \in 0..Len(disk) /\ Len(disk') \in n..(n + 1)
    BY <1>0, <1>2
  <2> QED BY <1>1, <1>2, <2>1, CutLog
<1> QED BY <1>0, <1>2, <1>3 DEF RecordIds, AtTheEnd

LEMMA FailKeeps ==
  ASSUME LogInv, AppendFails
  PROVE  LogInv'
<1>1. /\ writer # Absent /\ header = "whole" /\ Mint
      /\ poisoned' = (poisoned \/ limp)
      /\ UNCHANGED <<header, durable, writer, acked, current, temp, dest>>
  BY DEF AppendFails, Writing
<1>2. /\ temp = Absent /\ dest = Absent /\ Len(disk) \in Nat /\ durable \in 0..Len(disk)
      /\ handed \in 0..MaxRecords
  BY <1>1 DEF LogInv, LogTypeOK
<1>3. handed' \in 0..MaxRecords /\ poisoned' \in BOOLEAN /\ 1..handed \subseteq 1..handed'
  BY <1>1, <1>2, LogConstants DEF Mint, LogInv, LogTypeOK
<1>4. CASE UNCHANGED <<disk, limp>>
  <2>1. LogTypeOK'
    BY <1>1, <1>3, <1>4 DEF LogInv, LogTypeOK
  <2>2. \A i \in 1..Len(disk') : IsRecord(i)' => disk'[i].id \in 1..handed'
    BY <1>3, <1>4 DEF LogInv, IsRecord
  <2>3. ~poisoned' => Shape' /\ AtTheEnd' /\ Kept'
    <3>1. RecordIds' = RecordIds
      BY <1>4 DEF RecordIds, IsRecord
    <3>2. Shape => Shape'
      BY <1>1, <1>4 DEF Shape, IsRecord
    <3>3. AtTheEnd => AtTheEnd'
      BY <1>1, <1>4 DEF AtTheEnd, IsRecord, Matches
    <3>4. Kept => Kept'
      BY <1>1, <1>2, <3>1 DEF Kept
    <3> QED BY <1>1, <3>2, <3>3, <3>4 DEF LogInv
  <2> QED BY <1>1, <1>2, <2>1, <2>2, <2>3 DEF LogInv
<1>5. ASSUME NEW n \in {1, 2}, disk' = Append(disk, [kind |-> "torn", reach |-> n]), limp' = TRUE
      PROVE  LogInv'
  <2>1. [kind |-> "torn", reach |-> n] \in Frame
    BY DEF Frame
  <2>2. /\ disk' \in Seq(Frame) /\ Len(disk') = Len(disk) + 1
        /\ \A i \in 1..Len(disk') : IsRecord(i)' => disk'[i].id \in 1..handed'
        /\ RecordIds' = RecordIds
        /\ Shape /\ AtTheEnd /\ ~limp => Shape'
    BY <1>1, <1>5, <2>1, TornLog
  <2>3. LogTypeOK'
    BY <1>1, <1>2, <1>3, <1>5, <2>2 DEF LogInv, LogTypeOK
  <2>4. ~poisoned' => Shape' /\ AtTheEnd' /\ Kept'
    BY <1>1, <1>2, <1>5, <2>2 DEF LogInv, AtTheEnd, Kept
  <2> QED BY <1>1, <1>2, <2>2, <2>3, <2>4 DEF LogInv
<1> QED BY <1>4, <1>5 DEF AppendFails, Append1

LEMMA StopKeepsLog ==
  ASSUME LogInv, ProcessStops
  PROVE  LogInv'
<1>1. /\ writer' = Absent /\ limp' = FALSE /\ temp' = Absent
      /\ UNCHANGED <<header, durable, acked, current, dest>>
  BY DEF ProcessStops, Down
<1>2. /\ Len(disk) \in Nat /\ durable \in 0..Len(disk) /\ handed \in 0..MaxRecords
      /\ poisoned \in BOOLEAN /\ limp \in BOOLEAN
  BY DEF LogInv, LogTypeOK
<1>3. CASE UNCHANGED <<disk, handed, poisoned>>
  <2>1. LogTypeOK'
    BY <1>1, <1>3 DEF LogInv, LogTypeOK
  <2>2. \A i \in 1..Len(disk') : IsRecord(i)' => disk'[i].id \in 1..handed'
    BY <1>3 DEF LogInv, IsRecord
  <2>3. ~poisoned' => Shape' /\ AtTheEnd' /\ Kept'
    <3>1. RecordIds' = RecordIds
      BY <1>3 DEF RecordIds, IsRecord
    <3>2. Shape => Shape'
      BY <1>1, <1>3 DEF Shape, IsRecord
    <3>3. Kept => Kept'
      BY <1>1, <3>1 DEF Kept, Keeps
    <3> QED BY <1>1, <1>3, <3>2, <3>3 DEF LogInv, AtTheEnd
  <2> QED BY <1>1, <1>3, <2>1, <2>2, <2>3 DEF LogInv
<1>4. CASE /\ Writing /\ Mint /\ poisoned' = (poisoned \/ limp)
           /\ \/ Append1(NextFrame)
              \/ \E n \in {1, 2} : Append1([kind |-> "torn", reach |-> n])
  <2>1. /\ writer # Absent /\ header = "whole" /\ dest = Absent
        /\ handed' \in 0..MaxRecords /\ poisoned' \in BOOLEAN
    BY <1>2, <1>4, LogConstants DEF Writing, Mint, LogInv
  <2>2. /\ disk' \in Seq(Frame) /\ Len(disk') = Len(disk) + 1
        /\ \A i \in 1..Len(disk') : IsRecord(i)' => disk'[i].id \in 1..handed'
        /\ RecordIds \subseteq RecordIds'
        /\ Shape /\ AtTheEnd /\ ~limp => Shape'
    <3>1. CASE Append1(NextFrame)
      BY <1>1, <1>4, <2>1, <3>1, NextRecord DEF Append1
    <3>2. ASSUME NEW n \in {1, 2}, Append1([kind |-> "torn", reach |-> n]) PROVE <2>2!:
      <4>1. [kind |-> "torn", reach |-> n] \in Frame
        BY DEF Frame
      <4> QED BY <1>1, <1>4, <2>1, <3>2, <4>1, TornLog DEF Append1
    <3> QED BY <1>4, <3>1, <3>2
  <2>3. LogTypeOK'
    <3>1. durable' \in 0..Len(disk')
      BY <1>1, <1>2, <2>2
    <3> QED BY <1>1, <2>1, <2>2, <3>1 DEF LogInv, LogTypeOK
  <2>4. ~poisoned' => Shape' /\ AtTheEnd' /\ Kept'
    BY <1>1, <1>4, <2>1, <2>2 DEF LogInv, AtTheEnd, Kept
  <2> QED BY <1>1, <2>1, <2>2, <2>3, <2>4 DEF LogInv
<1> QED BY <1>3, <1>4 DEF ProcessStops

LEMMA PowerKeeps ==
  ASSUME LogInv, PowerLoss
  PROVE  LogInv'
<1>1. PICK n \in durable..(Len(disk) - 1) :
        /\ \/ disk' = SubSeq(disk, 1, n)
           \/ \E f \in Frame : f.kind # "record" /\ disk' = Append(SubSeq(disk, 1, n), f)
        /\ acked' = acked \cap {disk[i].id : i \in {j \in 1..n : disk[j].kind = "record"}}
  <2>1. PICK n \in durable..(Len(disk) - 1) :
          /\ disk' \in {SubSeq(disk, 1, n)} \cup
                       {Append(SubSeq(disk, 1, n), f) :
                          f \in {[kind |-> "torn", reach |-> 1],
                                 [kind |-> "zeros"], [kind |-> "garbage"]}}
          /\ acked' = acked \cap {disk[i].id : i \in {j \in 1..n : disk[j].kind = "record"}}
    BY DEF PowerLoss
  <2>2. \A f \in {[kind |-> "torn", reach |-> 1], [kind |-> "zeros"], [kind |-> "garbage"]} :
          f \in Frame /\ f.kind # "record"
    BY DEF Frame
  <2> QED BY <2>1, <2>2
<1>2. /\ writer' = Absent /\ limp' = FALSE /\ temp' = Absent /\ header = "whole"
      /\ UNCHANGED <<header, durable, handed, current, poisoned, dest>>
  BY DEF PowerLoss, Down
<1>3. /\ disk \in Seq(Frame) /\ Len(disk) \in Nat /\ durable \in 0..Len(disk)
      /\ handed \in 0..MaxRecords
  BY DEF LogInv, LogTypeOK
<1>4. n \in 0..Len(disk) /\ n \in Nat /\ n < Len(disk) /\ durable <= n
  BY <1>1, <1>3
<1>5. PICK cut : cut = SubSeq(disk, 1, n)
  OBVIOUS
<1>51. cut \in Seq(Frame) /\ Len(cut) = n /\ \A i \in 1..n : cut[i] = disk[i]
  BY <1>3, <1>4, <1>5, SubSeqProperties
<1>6. /\ disk' \in Seq(Frame) /\ Len(disk') \in n..(n + 1)
      /\ \A i \in 1..n : disk'[i] = disk[i]
      /\ Len(disk') = n + 1 => disk'[n + 1].kind # "record"
  <2>1. CASE disk' = cut
    BY <1>4, <1>51, <2>1
  <2>2. ASSUME NEW f \in Frame, f.kind # "record", disk' = Append(cut, f) PROVE <1>6!:
    <3>1. /\ disk' \in Seq(Frame) /\ Len(disk') = n + 1 /\ disk'[n + 1] = f
          /\ \A i \in 1..n : disk'[i] = cut[i]
      BY <1>4, <1>51, <2>2, AppendProperties
    <3> QED BY <1>4, <1>51, <2>2, <3>1
  <2> QED BY <1>1, <1>5, <2>1, <2>2
<1>7. /\ \A i \in 1..Len(disk') : IsRecord(i)' => disk'[i].id \in 1..handed'
      /\ RecordIds' = {disk[i].id : i \in {j \in 1..n : IsRecord(j)}}
      /\ Shape /\ (\A i \in 1..n : IsRecord(i)) => Shape'
  <2>1. handed' \in handed..MaxRecords
    BY <1>2, <1>3
  <2> QED BY <1>2, <1>4, <1>6, <2>1, CutLog
<1>8. LogTypeOK'
  <2>1. durable' \in 0..Len(disk') /\ acked' \subseteq acked
    BY <1>1, <1>2, <1>3, <1>4, <1>6
  <2> QED BY <1>2, <1>6, <2>1 DEF LogInv, LogTypeOK
<1>9. ASSUME ~poisoned PROVE Shape' /\ AtTheEnd' /\ Kept'
  <2>1. \A i \in 1..n : IsRecord(i)
    BY <1>3, <1>4, <1>9 DEF LogInv, Shape
  <2>2. acked' \subseteq RecordIds' /\ acked' \subseteq acked
    BY <1>1, <1>7 DEF IsRecord
  <2>3. dest # Absent => Keeps(dest)'
    <3>1. Keeps(dest) /\ acked' \subseteq acked => Keeps(dest)'
      BY <1>2 DEF Keeps
    <3> QED BY <1>9, <2>2, <3>1 DEF LogInv, Kept
  <2> QED BY <1>2, <1>7, <1>9, <2>1, <2>2, <2>3 DEF LogInv, AtTheEnd, Kept
<1> QED BY <1>2, <1>7, <1>8, <1>9 DEF LogInv

LEMMA CompactKeeps ==
  ASSUME LogInv, WriteTemp
  PROVE  LogInv'
<1>1. /\ writer = Absent /\ dest = Absent /\ Opened /\ temp' = ReadBack
      /\ UNCHANGED <<logFile, writer, acked, handed, current, limp, poisoned, dest>>
      /\ header = "whole"
  BY DEF WriteTemp, Opened
<1>2. ReadBack \in Seq(1..MaxRecords)
  <2> DEFINE n == Committed(disk, OpeningKey)
  <2>1. /\ disk \in Seq(Frame) /\ Len(disk) \in Nat /\ handed \in 0..MaxRecords
    BY DEF LogInv, LogTypeOK
  <2>2. n \in 0..Len(disk) /\ \A i \in 1..n : OpensAt(disk, i, OpeningKey)
    BY <2>1, LeadingFrames
  <2> HIDE DEF n
  <2>3. \A i \in 1..n : disk[i].id \in 1..MaxRecords
    BY <2>1, <2>2, LogConstants DEF LogInv, OpensAt, IsRecord
  <2>4. n \in Nat /\ ReadBack = [i \in 1..n |-> disk[i].id]
    BY <2>1, <2>2 DEF ReadBack, n
  <2>5. ReadBack \in [1..n -> 1..MaxRecords]
    BY <2>3, <2>4
  <2> QED BY <2>4, <2>5, SeqDef
<1>3. LogTypeOK'
  BY <1>1, <1>2 DEF LogInv, LogTypeOK, logFile
<1>4. /\ \A i \in 1..Len(disk') : IsRecord(i)' => disk'[i].id \in 1..handed'
      /\ RecordIds' = RecordIds /\ (Shape => Shape') /\ (AtTheEnd => AtTheEnd')
  <2>1. \A i \in 1..Len(disk') : IsRecord(i)' => disk'[i].id \in 1..handed'
    BY <1>1 DEF LogInv, IsRecord, logFile
  <2>2. RecordIds' = RecordIds
    BY <1>1 DEF RecordIds, IsRecord, logFile
  <2>3. Shape => Shape'
    BY <1>1 DEF Shape, IsRecord, logFile
  <2>4. AtTheEnd'
    BY <1>1 DEF AtTheEnd
  <2> QED BY <2>1, <2>2, <2>3, <2>4
<1>5. ASSUME ~poisoned PROVE Keeps(temp)'
  <2>1. Shape /\ acked \subseteq RecordIds /\ LogTypeOK
    BY <1>5 DEF LogInv, Kept
  <2>2. /\ {ReadBack[i] : i \in DOMAIN ReadBack} = RecordIds
        /\ \A i, j \in DOMAIN ReadBack : i < j => ReadBack[i] < ReadBack[j]
    BY <1>1, <2>1, ReadsTheRecords
  <2>3. Keeps(ReadBack)
    BY <2>1, <2>2 DEF Keeps
  <2> QED BY <1>1, <2>3 DEF Keeps
<1> QED BY <1>1, <1>3, <1>4, <1>5 DEF LogInv, Kept, logFile

(* The steps that neither cut nor add to the log.                          *)
LEMMA QuietKeepsLog ==
  ASSUME LogInv,
         \/ CreateFile \/ WriteHeader \/ SyncLog \/ Close \/ Publish \/ AdoptKey
         \/ UNCHANGED logVars
  PROVE  LogInv'
<1>1. UNCHANGED <<disk, acked, handed, poisoned>>
  BY DEF CreateFile, WriteHeader, SyncLog, Close, Publish, AdoptKey, logVars, logFile
<1>2. current \in LogKey /\ LogKey \subseteq Nat /\ Len(disk) \in Nat
  BY DEF LogInv, LogTypeOK, LogKey
<1>3. current' \in LogKey /\ current <= current'
  BY <1>2 DEF CreateFile, WriteHeader, SyncLog, Close, Publish, AdoptKey, logVars, LogKey
<1>4. LogTypeOK'
  <2>1. writer' \in {Absent} \cup [key : LogKey, next : Nat]
    BY <1>2 DEF CreateFile, WriteHeader, SyncLog, Close, Publish, AdoptKey, logVars, LogInv, LogTypeOK
  <2>2. header' \in {Absent, "short", "whole"}
    BY DEF CreateFile, WriteHeader, SyncLog, Close, Publish, AdoptKey, logVars, logFile,
           LogInv, LogTypeOK
  <2>21. durable' \in 0..Len(disk)
    <3>1. durable' = durable \/ durable' = Len(disk)
      BY DEF CreateFile, WriteHeader, SyncLog, Close, Publish, AdoptKey, logVars, logFile
    <3> QED BY <1>2, <3>1 DEF LogInv, LogTypeOK
  <2>22. limp' \in BOOLEAN
    <3>1. limp' = limp \/ limp' = FALSE
      BY DEF CreateFile, WriteHeader, SyncLog, Close, Publish, AdoptKey, logVars
    <3> QED BY <3>1 DEF LogInv, LogTypeOK
  <2>3. {temp', dest'} \subseteq {Absent} \cup Seq(1..MaxRecords)
    BY DEF CreateFile, WriteHeader, SyncLog, Close, Publish, AdoptKey, logVars, LogInv, LogTypeOK
  <2> QED BY <1>1, <1>3, <2>1, <2>2, <2>21, <2>22, <2>3 DEF LogInv, LogTypeOK
<1>5. /\ header' # "whole" => disk' = <<>>
      /\ temp' # Absent \/ dest' # Absent => header' = "whole" /\ writer' = Absent
  BY <1>1, LogConstants DEF CreateFile, WriteHeader, SyncLog, Close, Publish, AdoptKey, logVars,
     logFile, LogInv
<1>6. \A i \in 1..Len(disk') : IsRecord(i)' => disk'[i].id \in 1..handed'
  BY <1>1 DEF LogInv, IsRecord
<1>7. ASSUME ~poisoned PROVE Shape' /\ AtTheEnd' /\ Kept'
  <2>1. Shape /\ AtTheEnd /\ Kept
    BY <1>7 DEF LogInv
  <2>2. Shape'
    <3>1. \A i \in 1..Len(disk) : IsRecord(i) => disk[i].key <= current'
      <4>1. SUFFICES ASSUME NEW i \in 1..Len(disk), IsRecord(i) PROVE disk[i].key <= current'
        OBVIOUS
      <4>2. disk[i] \in Frame /\ disk[i].kind = "record"
        BY <4>1 DEF LogInv, LogTypeOK, IsRecord
      <4>3. disk[i].key \in Nat /\ disk[i].key <= current
        BY <1>2, <2>1, <4>1, <4>2 DEF Shape, Frame
      <4> QED BY <1>2, <1>3, <4>3
    <3> QED BY <1>1, <2>1, <3>1 DEF Shape, IsRecord
  <2>3. AtTheEnd'
    <3>1. CASE CreateFile
      <4>1. header # "whole"
        BY <3>1, LogConstants DEF CreateFile
      <4>2. disk' = <<>> /\ writer' = [key |-> current, next |-> 0] /\ current' = current
        BY <1>1, <3>1, <4>1 DEF CreateFile, LogInv
      <4> QED BY <4>2 DEF AtTheEnd, Matches
    <3>2. CASE ~CreateFile
      <4>1. writer' = Absent \/ UNCHANGED <<writer, current, limp>>
        BY <3>2 DEF WriteHeader, SyncLog, Close, Publish, AdoptKey, logVars
      <4> QED BY <1>1, <2>1, <4>1 DEF AtTheEnd, Matches, IsRecord
    <3> QED BY <3>1, <3>2
  <2>4. Kept'
    <3>1. RecordIds' = RecordIds
      BY <1>1 DEF RecordIds, IsRecord
    <3>2. UNCHANGED <<temp, dest>> \/ (temp # Absent /\ dest' = temp /\ temp' = Absent)
      BY DEF CreateFile, WriteHeader, SyncLog, Close, Publish, AdoptKey, logVars
    <3> QED BY <1>1, <2>1, <3>1, <3>2 DEF Kept, Keeps
  <2> QED BY <2>2, <2>3, <2>4
<1> QED BY <1>1, <1>4, <1>5, <1>6, <1>7 DEF LogInv

LEMMA LogInductive == LogSpec => []LogInv
<1>1. LogInit => LogInv
  <2> SUFFICES ASSUME LogInit PROVE LogInv
    OBVIOUS
  <2>1. /\ disk = <<>> /\ durable = 0 /\ header = Absent /\ writer = Absent /\ acked = {}
        /\ handed = 0 /\ current = 1 /\ limp = FALSE /\ poisoned = FALSE
        /\ temp = Absent /\ dest = Absent /\ Len(disk) = 0
    BY DEF LogInit
  <2>2. LogTypeOK
    <3>1. disk \in Seq(Frame) /\ durable \in 0..Len(disk)
      BY <2>1
    <3>2. acked \subseteq 1..MaxRecords /\ handed \in 0..MaxRecords /\ current \in LogKey
      BY <2>1, LogConstants DEF LogKey
    <3> QED BY <2>1, <3>1, <3>2 DEF LogTypeOK
  <2>3. Shape /\ AtTheEnd /\ Kept
    BY <2>1 DEF Shape, AtTheEnd, Kept
  <2> QED BY <2>1, <2>2, <2>3 DEF LogInv
<1>2. LogInv /\ [LogNext]_logVars => LogInv'
  BY OpenKeeps, AppendKeeps, FailKeeps, StopKeepsLog, PowerKeeps, CompactKeeps, QuietKeepsLog
     DEF LogNext
<1> QED BY <1>1, <1>2, PTL DEF LogSpec

(* However often writers stop within a frame, appends fail, power is lost, *)
(* keys are adopted and the log is reopened or compacted: what was         *)
(* acknowledged and not lost reads back, and whatever reads back is in the *)
(* order it was handed over.                                               *)
THEOREM LogsReadBack == LogSpec => []LogReadsBack
<1>1. LogInv => LogReadsBack
  <2> SUFFICES ASSUME LogInv, ~poisoned PROVE LogReadsBack
    BY DEF LogReadsBack
  <2>1. LogTypeOK /\ Shape /\ Kept
    BY DEF LogInv
  <2>2. ASSUME header = "whole", ~(disk # <<>> /\ disk[1].kind = "garbage")
        PROVE  Opened /\ Keeps(ReadBack)
    <3>1. Opened
      BY <2>1, <2>2, SomeKeyMatches, MatchFits DEF Opened
    <3>2. /\ {ReadBack[i] : i \in DOMAIN ReadBack} = RecordIds
          /\ \A i, j \in DOMAIN ReadBack : i < j => ReadBack[i] < ReadBack[j]
      BY <2>1, <3>1, ReadsTheRecords
    <3> QED BY <2>1, <3>1, <3>2 DEF Keeps, Kept
  <2> QED BY <2>1, <2>2 DEF LogReadsBack, Kept
<1> QED BY <1>1, LogInductive, PTL

(***************************************************************************)
(* The sealed log implements DurableLog                                    *)
(***************************************************************************)
NumRecords == IF disk # <<>> /\ ~IsRecord(Len(disk)) THEN Len(disk) - 1 ELSE Len(disk)
Ids == [i \in 1..NumRecords |-> disk[i].id]

(* What WriteTemp read is still what the log holds when it is published.   *)
CompactedInv == LogInv /\ (~poisoned /\ temp # Absent => temp = Ids)

LEMMA FunctionIsSeq ==
  ASSUME NEW S, NEW n \in Nat, NEW f \in [1..n -> S]
  PROVE  f \in Seq(S) /\ Len(f) = n /\ DOMAIN f = 1..n
<1>1. f \in Seq(S) /\ DOMAIN f = 1..n
  BY SeqDef
<1>2. Len(f) \in Nat /\ 1..Len(f) = 1..n
  BY <1>1, LenProperties
<1> QED BY <1>1, <1>2

LEMMA RecordsFirst ==
  ASSUME LogInv, ~poisoned
  PROVE  /\ Len(disk) \in Nat /\ NumRecords \in 0..Len(disk) /\ Len(disk) - 1 <= NumRecords
         /\ \A i \in 1..Len(disk) : IsRecord(i) <=> i <= NumRecords
         /\ disk \in Seq(Frame) /\ durable \in 0..Len(disk)
         /\ \A i \in 1..NumRecords : disk[i].id \in 1..handed
<1>1. disk \in Seq(Frame) /\ Len(disk) \in Nat /\ durable \in 0..Len(disk) /\ Shape
  BY DEF LogInv, LogTypeOK
<1>2. \A i \in 1..Len(disk) : IsRecord(i) <=> i <= NumRecords
  <2>1. CASE disk = <<>>
    BY <1>1, <2>1
  <2>2. CASE disk # <<>>
    <3>1. Len(disk) \in 1..Len(disk)
      BY <1>1, <2>2, EmptySeq
    <3>2. \A i \in 1..Len(disk) : i < Len(disk) => IsRecord(i)
      BY <1>1 DEF Shape
    <3> QED BY <1>1, <2>2, <3>1, <3>2 DEF NumRecords
  <2> QED BY <2>1, <2>2
<1>3. NumRecords \in 0..Len(disk) /\ Len(disk) - 1 <= NumRecords
  <2>1. disk # <<>> => Len(disk) >= 1
    BY <1>1, EmptySeq
  <2> QED BY <1>1, <2>1 DEF NumRecords
<1>4. \A i \in 1..NumRecords : disk[i].id \in 1..handed
  <2>1. \A i \in 1..NumRecords : i \in 1..Len(disk) /\ IsRecord(i)
    BY <1>1, <1>2, <1>3
  <2> QED BY <2>1 DEF LogInv
<1> QED BY <1>1, <1>2, <1>3, <1>4

(* A reader gets the records, all of them, under whatever key: a log that  *)
(* opens under none has none.                                              *)
LEMMA ContentsAreTheRecords ==
  ASSUME LogInv, ~poisoned
  PROVE  Contents = Ids
<1>1. /\ Len(disk) \in Nat /\ NumRecords \in 0..Len(disk)
      /\ \A i \in 1..Len(disk) : IsRecord(i) <=> i <= NumRecords
      /\ LogTypeOK /\ Shape
  BY RecordsFirst DEF LogInv
<1>2. CASE Opened
  <2> DEFINE n == Committed(disk, OpeningKey)
  <2>1. /\ n \in 0..Len(disk) /\ \A i \in 1..Len(disk) : IsRecord(i) <=> i <= n
    BY <1>1, <1>2, OpeningFits, OnlyMatchFits, MatchReads
  <2>2. Readings = {[i \in 1..n |-> disk[i].id]}
    BY DEF Readings
  <2> HIDE DEF n
  <2>3. n = NumRecords
    <3>1. \A i \in 1..Len(disk) : i <= n <=> i <= NumRecords
      BY <1>1, <2>1
    <3>2. n > NumRecords => FALSE
      <4>1. SUFFICES ASSUME n > NumRecords PROVE FALSE
        OBVIOUS
      <4>2. n \in 1..Len(disk) /\ NumRecords \in Nat
        BY <1>1, <2>1, <4>1
      <4> QED BY <2>1, <3>1, <4>1, <4>2
    <3>3. NumRecords > n => FALSE
      <4>1. SUFFICES ASSUME NumRecords > n PROVE FALSE
        OBVIOUS
      <4>2. NumRecords \in 1..Len(disk) /\ n \in Nat
        BY <1>1, <2>1, <4>1
      <4> QED BY <1>1, <3>1, <4>1, <4>2
    <3> QED BY <1>1, <2>1, <3>2, <3>3
  <2>4. Contents = [i \in 1..n |-> disk[i].id]
    BY <1>2, <2>2 DEF Contents
  <2> QED BY <2>3, <2>4 DEF Ids
<1>3. CASE ~Opened
  <2>1. NumRecords = 0
    <3>1. CASE header # "whole"
      <4>1. disk = <<>> /\ Len(disk) = 0
        BY <3>1 DEF LogInv
      <4> QED BY <1>1, <4>1
    <3>2. CASE header = "whole"
      <4>1. disk # <<>> /\ disk[1].kind = "garbage"
        BY <1>1, <1>3, <3>2, SomeKeyMatches, MatchFits DEF Opened
      <4>2. 1 \in 1..Len(disk) /\ ~IsRecord(1)
        BY <1>1, <4>1, EmptySeq DEF IsRecord
      <4> QED BY <1>1, <4>2
    <3> QED BY <3>1, <3>2
  <2>2. Ids = <<>>
    BY <2>1 DEF Ids
  <2> QED BY <1>3, <2>2 DEF Contents
<1> QED BY <1>2, <1>3

(* The records stay as they are if those there are keep their frames.      *)
LEMMA SameIds ==
  ASSUME NumRecords \in Nat, NumRecords' = NumRecords,
         \A i \in 1..NumRecords : disk'[i] = disk[i]
  PROVE  Ids' = Ids
BY DEF Ids

LEMMA WriterAtEnd ==
  ASSUME LogInv, ~poisoned, ~limp, writer # Absent
  PROVE  NumRecords = Len(disk) /\ \A i \in 1..Len(disk) : IsRecord(i)
<1>1. \A i \in 1..Len(disk) : IsRecord(i)
  BY DEF LogInv, AtTheEnd
<1>2. disk # <<>> => Len(disk) \in 1..Len(disk)
  BY EmptySeq DEF LogInv, LogTypeOK
<1> QED BY <1>1, <1>2 DEF NumRecords

(* A record at the end is the reader's next.                               *)
LEMMA RecordExtends ==
  ASSUME LogInv, LogInv', ~poisoned, ~poisoned', ~limp, writer # Absent, Mint,
         disk' = Append(disk, NextFrame), current' = current
  PROVE  /\ NumRecords' = NumRecords + 1 /\ NumRecords = Len(disk)
         /\ Ids' = Append(Ids, handed + 1)
         /\ \A i \in DOMAIN Ids : Ids[i] < handed + 1
<1>1. NumRecords = Len(disk) /\ Len(disk) \in Nat /\ disk \in Seq(Frame) /\ handed \in Nat
  BY WriterAtEnd DEF LogInv, LogTypeOK
<1>2. Len(disk') = Len(disk) + 1 /\ \A i \in 1..Len(disk') : IsRecord(i)'
  BY NextRecord DEF LogInv
<1>3. NextFrame.id = handed + 1
  BY DEF NextFrame
<1>4. NextFrame \in Frame
  BY <1>1, LogConstants DEF LogInv, LogTypeOK, NextFrame, Frame
<1>5. disk'[Len(disk) + 1] = NextFrame /\ \A i \in 1..Len(disk) : disk'[i] = disk[i]
  BY <1>1, <1>4, AppendProperties
<1>6. NumRecords' = Len(disk')
  <2>1. Len(disk') \in 1..Len(disk')
    BY <1>1, <1>2
  <2> QED BY <1>2, <2>1 DEF NumRecords
<1>7. Ids \in Seq(1..handed) /\ Len(Ids) = NumRecords /\ DOMAIN Ids = 1..NumRecords
  <2>1. \A i \in 1..NumRecords : disk[i].id \in 1..handed
    BY RecordsFirst
  <2>2. Ids \in [1..NumRecords -> 1..handed] /\ NumRecords \in Nat
    BY <1>1, <2>1 DEF Ids
  <2> QED BY <2>2, FunctionIsSeq
<1>8. Ids' = Append(Ids, handed + 1)
  <2>1. Ids' \in Seq(Nat) /\ Len(Ids') = NumRecords + 1
    <3>1. NumRecords' = NumRecords + 1 /\ NumRecords' \in Nat
      BY <1>1, <1>2, <1>6
    <3>2. \A i \in 1..NumRecords' : disk'[i].id \in Nat
      <4>1. \A i \in 1..NumRecords : disk'[i].id \in 1..handed
        BY <1>1, <1>5, RecordsFirst
      <4>2. \A i \in 1..NumRecords' : i \in 1..NumRecords \/ i = Len(disk) + 1
        BY <1>1, <3>1
      <4> QED BY <1>1, <1>3, <1>5, <4>1, <4>2
    <3>3. Ids' \in [1..NumRecords' -> Nat]
      BY <3>2 DEF Ids
    <3> QED BY <3>1, <3>3, FunctionIsSeq
  <2>2. /\ Append(Ids, handed + 1) \in Seq(Nat)
        /\ Len(Append(Ids, handed + 1)) = NumRecords + 1
        /\ \A i \in 1..NumRecords : Append(Ids, handed + 1)[i] = Ids[i]
        /\ Append(Ids, handed + 1)[NumRecords + 1] = handed + 1
    <3>1. Ids \in Seq(Nat) /\ handed + 1 \in Nat
      BY <1>1, <1>7
    <3> QED BY <1>7, <3>1, AppendProperties
  <2>3. \A i \in 1..(NumRecords + 1) : Ids'[i] = Append(Ids, handed + 1)[i]
    <3>1. \A i \in 1..(NumRecords + 1) : Ids'[i] = disk'[i].id
      BY <1>1, <1>2, <1>6 DEF Ids
    <3>2. \A i \in 1..NumRecords : Ids[i] = disk'[i].id
      BY <1>1, <1>5 DEF Ids
    <3> QED BY <1>1, <1>3, <1>5, <2>2, <3>1, <3>2
  <2> HIDE DEF Ids
  <2> QED BY <2>1, <2>2, <2>3, SeqEqual
<1>9. \A i \in DOMAIN Ids : Ids[i] < handed + 1
  <2>1. \A i \in DOMAIN Ids : Ids[i] \in 1..handed
    BY RecordsFirst DEF Ids
  <2> QED BY <1>1, <2>1
<1> QED BY <1>1, <1>2, <1>6, <1>8, <1>9

(* The steps that add no record and take none.                             *)
LEMMA TornSameRecords ==
  ASSUME LogInv, ~poisoned, ~limp, writer # Absent, NEW f \in Frame, f.kind # "record",
         disk' = Append(disk, f)
  PROVE  NumRecords' = NumRecords /\ NumRecords = Len(disk) /\ Ids' = Ids
<1>1. NumRecords = Len(disk) /\ Len(disk) \in Nat /\ disk \in Seq(Frame)
  BY WriterAtEnd DEF LogInv, LogTypeOK
<1>2. /\ Len(disk') = Len(disk) + 1 /\ disk'[Len(disk) + 1] = f /\ disk' # <<>>
      /\ \A i \in 1..Len(disk) : disk'[i] = disk[i]
  BY <1>1, AppendProperties
<1>3. ~IsRecord(Len(disk))'
  BY <1>2 DEF IsRecord
<1>4. NumRecords' = NumRecords
  BY <1>1, <1>2, <1>3 DEF NumRecords
<1> QED BY <1>1, <1>2, <1>4, SameIds

(* A log cut to n records, with a bad frame after them or none.            *)
LEMMA CutRecords ==
  ASSUME LogInv, ~poisoned, NEW n \in 0..NumRecords, disk' \in Seq(Frame),
         Len(disk') \in n..(n + 1), \A i \in 1..n : disk'[i] = disk[i],
         Len(disk') = n + 1 => disk'[n + 1].kind # "record"
  PROVE  NumRecords' = n /\ Ids' = SubSeq(Ids, 1, n)
<1>1. /\ Len(disk) \in Nat /\ NumRecords \in 0..Len(disk) /\ n \in Nat /\ n <= NumRecords
      /\ \A i \in 1..Len(disk) : IsRecord(i) <=> i <= NumRecords
      /\ \A i \in 1..NumRecords : disk[i].id \in 1..handed
  BY RecordsFirst
<1>2. disk' = <<>> <=> Len(disk') = 0
  BY EmptySeq
<1>3. NumRecords' = n
  <2>1. CASE Len(disk') = n + 1
    <3>1. ~IsRecord(Len(disk))' /\ disk' # <<>>
      BY <1>1, <1>2, <2>1 DEF IsRecord
    <3> QED BY <1>1, <2>1, <3>1 DEF NumRecords
  <2>2. CASE Len(disk') = n /\ n # 0
    <3>1. n \in 1..Len(disk) /\ n \in 1..n /\ IsRecord(n)
      BY <1>1, <2>2
    <3>2. IsRecord(Len(disk))'
      BY <2>2, <3>1 DEF IsRecord
    <3> QED BY <2>2, <3>2 DEF NumRecords
  <2>3. CASE Len(disk') = 0 /\ n = 0
    BY <1>2, <2>3 DEF NumRecords
  <2> QED BY <1>1, <2>1, <2>2, <2>3
<1>4. Ids \in Seq(1..handed) /\ Len(Ids) = NumRecords /\ \A i \in 1..NumRecords : Ids[i] = disk[i].id
  <2>1. Ids \in [1..NumRecords -> 1..handed] /\ NumRecords \in Nat
    BY <1>1 DEF Ids
  <2>2. \A i \in 1..NumRecords : Ids[i] = disk[i].id
    BY DEF Ids
  <2> QED BY <2>1, <2>2, FunctionIsSeq
<1>5. /\ SubSeq(Ids, 1, n) \in Seq(1..handed) /\ Len(SubSeq(Ids, 1, n)) = n
      /\ \A i \in 1..n : SubSeq(Ids, 1, n)[i] = Ids[i]
  <2>1. \A i \in 1..n : i \in 1..NumRecords
    BY <1>1
  <2>2. \A i \in 1..n : Ids[i] \in 1..handed
    BY <1>1, <1>4, <2>1
  <2> QED BY <1>1, <2>2, SubSeqProperties
<1>6. /\ Ids' \in Seq(1..handed) /\ Len(Ids') = n
      /\ \A i \in 1..n : Ids'[i] = disk[i].id
  <2>1. Ids' = [i \in 1..n |-> disk'[i].id]
    BY <1>3 DEF Ids
  <2>2. \A i \in 1..n : disk'[i].id = disk[i].id /\ disk[i].id \in 1..handed
    BY <1>1
  <2>3. Ids' \in [1..n -> 1..handed] /\ \A i \in 1..n : Ids'[i] = disk[i].id
    BY <2>1, <2>2
  <2> QED BY <1>1, <2>3, FunctionIsSeq
<1>7. \A i \in 1..Len(Ids') : Ids'[i] = SubSeq(Ids, 1, n)[i]
  BY <1>1, <1>4, <1>5, <1>6
<1> QED BY <1>3, <1>5, <1>6, <1>7, SeqEqual

(* Each step of the log is one of DurableLog's, of the records it holds.   *)
Held == IF durable < NumRecords THEN durable ELSE NumRecords
NoneLost == UNCHANGED <<Ids, dest>> /\ Held' \in {Held, NumRecords}
ReaderStep ==
  \/ NoneLost
  \/ /\ \E r \in 1..MaxRecords : (\A i \in DOMAIN Ids : Ids[i] < r) /\ Ids' = Append(Ids, r)
     /\ UNCHANGED <<Held, dest>>
  \/ (\E n \in Held..NumRecords : Ids' = SubSeq(Ids, 1, n)) /\ UNCHANGED <<Held, dest>>
  \/ dest = Absent /\ dest' = Ids /\ UNCHANGED <<Ids, Held>>

LEMMA OpenReads ==
  ASSUME LogInv, ~poisoned, OpenAppend
  PROVE  NoneLost
<1>1. /\ Len(disk) \in Nat /\ NumRecords \in 0..Len(disk) /\ disk \in Seq(Frame)
      /\ \A i \in 1..Len(disk) : IsRecord(i) <=> i <= NumRecords
      /\ durable \in 0..Len(disk)
  BY RecordsFirst
<1>2. PICK n : /\ n = Committed(disk, current) /\ disk' = SubSeq(disk, 1, n)
               /\ durable' = IF n < Len(disk) THEN n ELSE durable
               /\ dest' = dest
  BY DEF OpenAppend
<1>3. n \in 0..Len(disk) /\ \A i \in 1..Len(disk) : IsRecord(i) <=> i <= n
  <2>1. Shape /\ Fits(current) /\ LogTypeOK
    BY OpeningFits DEF LogInv, OpenAppend
  <2> QED BY <1>2, <2>1, OnlyMatchFits, MatchReads
<1>4. n = NumRecords
  <2>1. \A i \in 1..Len(disk) : i <= n <=> i <= NumRecords
    BY <1>1, <1>3
  <2>2. n \in 1..Len(disk) => n <= NumRecords
    BY <2>1, <1>3
  <2>3. NumRecords \in 1..Len(disk) => NumRecords <= n
    BY <2>1, <1>1
  <2> QED BY <1>1, <1>3, <2>2, <2>3
<1>5. disk' \in Seq(Frame) /\ Len(disk') = n /\ \A i \in 1..n : disk'[i] = disk[i]
  BY <1>1, <1>2, <1>3, SubSeqProperties
<1>6. NumRecords' = NumRecords
  <2>1. n \in 0..NumRecords /\ Len(disk') \in n..(n + 1) /\ Len(disk') # n + 1
    BY <1>1, <1>4, <1>5
  <2> QED BY <1>4, <1>5, <2>1, CutRecords
<1>7. Ids' = Ids
  BY <1>1, <1>4, <1>5, <1>6, SameIds
<1>8. Held' = Held \/ Held' = NumRecords
  BY <1>1, <1>2, <1>4, <1>6 DEF Held
<1> QED BY <1>2, <1>7, <1>8 DEF NoneLost

LEMMA FailReads ==
  ASSUME LogInv, ~poisoned, ~limp, AppendFails
  PROVE  NoneLost
<1>1. writer # Absent /\ UNCHANGED <<durable, dest>>
  BY DEF AppendFails, Writing
<1>2. CASE UNCHANGED disk
  BY <1>1, <1>2 DEF NoneLost, Ids, NumRecords, Held, IsRecord
<1>3. ASSUME NEW n \in {1, 2}, disk' = Append(disk, [kind |-> "torn", reach |-> n])
      PROVE  NoneLost
  <2>1. [kind |-> "torn", reach |-> n] \in Frame
    BY DEF Frame
  <2>2. NumRecords' = NumRecords /\ Ids' = Ids
    BY <1>1, <1>3, <2>1, TornSameRecords
  <2> QED BY <1>1, <2>2 DEF NoneLost, Held
<1> QED BY <1>2, <1>3 DEF AppendFails, Append1

LEMMA AppendReads ==
  ASSUME LogInv, LogInv', ~poisoned, ~poisoned', ~limp, writer # Absent, Mint,
         disk' = Append(disk, NextFrame), UNCHANGED <<current, durable, dest>>
  PROVE  ReaderStep
<1>1. /\ NumRecords' = NumRecords + 1 /\ NumRecords = Len(disk)
      /\ Ids' = Append(Ids, handed + 1)
      /\ \A i \in DOMAIN Ids : Ids[i] < handed + 1
  BY RecordExtends
<1>2. durable \in 0..Len(disk) /\ Len(disk) \in Nat /\ handed + 1 \in 1..MaxRecords
  BY LogConstants DEF LogInv, LogTypeOK, Mint
<1>3. Held' = Held
  BY <1>1, <1>2 DEF Held
<1> QED BY <1>1, <1>2, <1>3 DEF ReaderStep

LEMMA StopReads ==
  ASSUME LogInv, LogInv', ~poisoned, ~poisoned', ProcessStops
  PROVE  ReaderStep
<1>1. UNCHANGED <<durable, current, dest>>
  BY DEF ProcessStops
<1>2. CASE UNCHANGED disk
  BY <1>1, <1>2 DEF ReaderStep, NoneLost, Ids, NumRecords, Held, IsRecord
<1>3. CASE /\ Writing /\ Mint /\ ~limp
           /\ \/ Append1(NextFrame)
              \/ \E n \in {1, 2} : Append1([kind |-> "torn", reach |-> n])
  <2>1. CASE Append1(NextFrame)
    BY <1>1, <1>3, <2>1, AppendReads DEF Append1, Writing
  <2>2. ASSUME NEW n \in {1, 2}, disk' = Append(disk, [kind |-> "torn", reach |-> n])
        PROVE  NoneLost
    <3>1. [kind |-> "torn", reach |-> n] \in Frame
      BY DEF Frame
    <3>2. NumRecords' = NumRecords /\ Ids' = Ids
      BY <1>3, <2>2, <3>1, TornSameRecords DEF Writing
    <3> QED BY <1>1, <3>2 DEF NoneLost, Held
  <2> QED BY <1>3, <2>1, <2>2 DEF Append1, ReaderStep
<1> QED BY <1>2, <1>3 DEF ProcessStops

LEMMA PowerReads ==
  ASSUME LogInv, ~poisoned, PowerLoss
  PROVE  ReaderStep
<1>1. PICK n \in durable..(Len(disk) - 1) :
        \/ disk' = SubSeq(disk, 1, n)
        \/ \E f \in Frame : f.kind # "record" /\ disk' = Append(SubSeq(disk, 1, n), f)
  <2>1. PICK n \in durable..(Len(disk) - 1) :
          disk' \in {SubSeq(disk, 1, n)} \cup
                    {Append(SubSeq(disk, 1, n), f) :
                       f \in {[kind |-> "torn", reach |-> 1],
                              [kind |-> "zeros"], [kind |-> "garbage"]}}
    BY DEF PowerLoss
  <2>2. \A f \in {[kind |-> "torn", reach |-> 1], [kind |-> "zeros"], [kind |-> "garbage"]} :
          f \in Frame /\ f.kind # "record"
    BY DEF Frame
  <2> QED BY <2>1, <2>2
<1>2. /\ Len(disk) \in Nat /\ NumRecords \in 0..Len(disk) /\ Len(disk) - 1 <= NumRecords
      /\ disk \in Seq(Frame) /\ durable \in 0..Len(disk)
  BY RecordsFirst
<1>3. n \in 0..NumRecords /\ n \in Nat /\ durable <= n /\ n \in 0..Len(disk)
  BY <1>1, <1>2
<1>4. PICK cut : cut = SubSeq(disk, 1, n)
  OBVIOUS
<1>5. cut \in Seq(Frame) /\ Len(cut) = n /\ \A i \in 1..n : cut[i] = disk[i]
  BY <1>2, <1>3, <1>4, SubSeqProperties
<1>6. /\ disk' \in Seq(Frame) /\ Len(disk') \in n..(n + 1)
      /\ \A i \in 1..n : disk'[i] = disk[i]
      /\ Len(disk') = n + 1 => disk'[n + 1].kind # "record"
  <2>1. CASE disk' = cut
    BY <1>3, <1>5, <2>1
  <2>2. ASSUME NEW f \in Frame, f.kind # "record", disk' = Append(cut, f) PROVE <1>6!:
    <3>1. /\ disk' \in Seq(Frame) /\ Len(disk') = n + 1 /\ disk'[n + 1] = f
          /\ \A i \in 1..n : disk'[i] = cut[i]
      BY <1>3, <1>5, <2>2, AppendProperties
    <3> QED BY <1>3, <1>5, <2>2, <3>1
  <2> QED BY <1>1, <1>4, <2>1, <2>2
<1>7. NumRecords' = n /\ Ids' = SubSeq(Ids, 1, n)
  BY <1>3, <1>6, CutRecords
<1>8. durable' = durable /\ dest' = dest
  BY DEF PowerLoss
<1>9. Held = durable /\ Held' = durable /\ n \in Held..NumRecords
  BY <1>2, <1>3, <1>7, <1>8 DEF Held
<1> QED BY <1>7, <1>8, <1>9 DEF ReaderStep

LEMMA LogSteps ==
  ASSUME LogInv, LogInv', CompactedInv, ~poisoned, ~poisoned', [LogNext]_logVars
  PROVE  ReaderStep
<1>1. CASE CreateFile \/ WriteHeader \/ Close \/ WriteTemp \/ AdoptKey \/ UNCHANGED logVars
  <2>1. UNCHANGED <<disk, durable, dest>>
    BY <1>1 DEF CreateFile, WriteHeader, Close, WriteTemp, AdoptKey, logVars, logFile
  <2> QED BY <2>1 DEF ReaderStep, NoneLost, Ids, NumRecords, Held, IsRecord
<1>2. CASE OpenAppend
  BY <1>2, OpenReads DEF ReaderStep
<1>3. CASE AppendRecord
  <2>1. ~limp
    BY <1>3 DEF AppendRecord
  <2> QED BY <1>3, <2>1, AppendReads DEF AppendRecord, Append1, Writing
<1>4. CASE AppendFails
  <2>1. ~limp
    BY <1>4 DEF AppendFails
  <2> QED BY <1>4, <2>1, FailReads DEF ReaderStep
<1>5. CASE SyncLog
  <2>1. UNCHANGED <<disk, dest>> /\ durable' = Len(disk)
    BY <1>5 DEF SyncLog
  <2>2. Ids' = Ids /\ NumRecords' = NumRecords
    BY <2>1 DEF Ids, NumRecords, IsRecord
  <2>3. Len(disk) \in Nat /\ NumRecords \in 0..Len(disk)
    BY RecordsFirst
  <2>4. Held' = NumRecords
    BY <2>1, <2>2, <2>3 DEF Held
  <2> QED BY <2>1, <2>2, <2>4 DEF ReaderStep, NoneLost
<1>6. CASE Publish
  <2>1. UNCHANGED <<disk, durable>> /\ dest = Absent /\ dest' = temp /\ temp # Absent
    BY <1>6 DEF Publish, logFile
  <2>2. Ids' = Ids /\ Held' = Held /\ dest' = Ids
    BY <2>1 DEF CompactedInv, Ids, NumRecords, Held, IsRecord
  <2> QED BY <2>1, <2>2 DEF ReaderStep
<1>7. CASE ProcessStops
  BY <1>7, StopReads
<1>8. CASE PowerLoss
  BY <1>8, PowerReads
<1> QED BY <1>1, <1>2, <1>3, <1>4, <1>5, <1>6, <1>7, <1>8 DEF LogNext

LEMMA CompactedInductive == LogSpec => []CompactedInv
<1>1. LogInit => (~poisoned /\ temp # Absent => temp = Ids)
  BY DEF LogInit
<1>2. LogInv /\ LogInv' /\ (~poisoned /\ temp # Absent => temp = Ids) /\ [LogNext]_logVars
      => (~poisoned /\ temp # Absent => temp = Ids)'
  <2> SUFFICES ASSUME LogInv, LogInv', ~poisoned /\ temp # Absent => temp = Ids,
                      [LogNext]_logVars, ~poisoned', temp' # Absent
               PROVE  temp' = Ids'
    OBVIOUS
  <2>1. CASE WriteTemp
    <3>1. UNCHANGED <<disk, poisoned>> /\ Opened /\ temp' = ReadBack
      BY <2>1 DEF WriteTemp, logFile
    <3>2. ReadBack = Contents
      BY <3>1 DEF Contents, Readings, ReadBack
    <3>3. Ids' = Ids
      BY <3>1 DEF Ids, NumRecords, IsRecord
    <3> QED BY <3>1, <3>2, <3>3, ContentsAreTheRecords
  <2>2. CASE ~WriteTemp
    <3>1. UNCHANGED <<disk, poisoned, temp>>
      <4>1. ~Publish /\ ~ProcessStops /\ ~PowerLoss /\ ~OpenAppend
        BY DEF Publish, ProcessStops, PowerLoss, Down, OpenAppend
      <4>2. temp' = temp
        BY <2>2, <4>1 DEF LogNext, CreateFile, WriteHeader, AppendRecord, AppendFails, SyncLog,
           Close, AdoptKey, logVars
      <4>3. writer = Absent /\ ~AppendRecord /\ ~AppendFails
        BY <4>2 DEF LogInv, AppendRecord, AppendFails, Writing
      <4> QED BY <2>2, <4>1, <4>2, <4>3 DEF LogNext, CreateFile, WriteHeader, SyncLog,
           Close, AdoptKey, logVars, logFile
    <3>2. Ids' = Ids
      BY <3>1 DEF Ids, NumRecords, IsRecord
    <3> QED BY <3>1, <3>2
  <2> QED BY <2>1, <2>2
<1> QED BY <1>1, <1>2, LogInductive, PTL DEF LogSpec, CompactedInv

(* "Records are never rewritten": for every number of keys and records,    *)
(* each append, failed append, sync, stop, loss of power, reopening,       *)
(* adoption and compaction is a step of DurableLog, or none.               *)
THEOREM LogImplementsDurableLog == LogSpec => ImplementsDurableLog
<1>1. LogInit => Reader!Init
  <2> SUFFICES ASSUME LogInit PROVE Reader!Init
    OBVIOUS
  <2>1. ~Opened /\ durable = 0 /\ dest = Absent /\ poisoned = FALSE
    BY LogConstants DEF LogInit, Opened
  <2>2. Contents = <<>> /\ Stable = 0
    BY <2>1 DEF Contents, Stable
  <2> QED BY <2>1, <2>2 DEF Reader!Init
<1>2. LogInv /\ ~poisoned => Contents = Ids /\ Stable = Held
  <2> SUFFICES ASSUME LogInv, ~poisoned PROVE Contents = Ids /\ Stable = Held
    OBVIOUS
  <2>1. Contents = Ids
    BY ContentsAreTheRecords
  <2>2. Ids \in [1..NumRecords -> 1..handed] /\ NumRecords \in Nat
    BY RecordsFirst DEF Ids
  <2>3. Len(Ids) = NumRecords
    BY <2>2, FunctionIsSeq
  <2> QED BY <2>1, <2>3 DEF Stable, Held
<1>3. (LogInv /\ ~poisoned => Contents = Ids /\ Stable = Held)'
  BY <1>2, PTL
<1>4. LogInv /\ ~poisoned => Len(Ids) = NumRecords
  <2> SUFFICES ASSUME LogInv, ~poisoned PROVE Len(Ids) = NumRecords
    OBVIOUS
  <2>2. Ids \in [1..NumRecords -> 1..handed] /\ NumRecords \in Nat
    BY RecordsFirst DEF Ids
  <2> QED BY <2>2, FunctionIsSeq
<1>5. LogInv /\ LogInv' /\ CompactedInv /\ [LogNext]_logVars => [Reader!Next]_(Reader!logView)
  <2> SUFFICES ASSUME LogInv, LogInv', CompactedInv, [LogNext]_logVars, ~poisoned'
               PROVE  Reader!Next \/ UNCHANGED Reader!logView
    BY DEF Reader!Next
  <2>1. ~poisoned /\ poisoned' = poisoned
    <3>1. poisoned' = poisoned \/ poisoned' = (poisoned \/ limp)
      BY DEF LogNext, CreateFile, WriteHeader, OpenAppend, AppendRecord, AppendFails, SyncLog,
         Close, WriteTemp, Publish, ProcessStops, PowerLoss, AdoptKey, logVars
    <3> QED BY <3>1 DEF LogInv, LogTypeOK
  <2>2. /\ Contents = Ids /\ Contents' = Ids' /\ Stable = Held /\ Stable' = Held'
        /\ Len(Contents) = NumRecords
    BY <1>2, <1>3, <1>4, <2>1
  <2>3. ReaderStep
    BY <2>1, LogSteps
  <2>4. CASE NoneLost
    <3>1. CASE Held' = Held
      BY <2>1, <2>2, <2>4, <3>1 DEF NoneLost, Reader!logView
    <3>2. CASE Held' = NumRecords
      BY <2>1, <2>2, <2>4, <3>2 DEF NoneLost, Reader!Next, Reader!MakeStable
    <3> QED BY <2>4, <3>1, <3>2 DEF NoneLost
  <2>5. ASSUME NEW r \in 1..MaxRecords, \A i \in DOMAIN Ids : Ids[i] < r, Ids' = Append(Ids, r),
               UNCHANGED <<Held, dest>>
        PROVE  Reader!Next
    BY <2>1, <2>2, <2>5 DEF Reader!Next, Reader!Extend
  <2>6. ASSUME NEW n \in Held..NumRecords, Ids' = SubSeq(Ids, 1, n), UNCHANGED <<Held, dest>>
        PROVE  Reader!Next
    BY <2>1, <2>2, <2>6 DEF Reader!Next, Reader!LoseTail
  <2>7. CASE dest = Absent /\ dest' = Ids /\ UNCHANGED <<Ids, Held>>
    BY <2>1, <2>2, <2>7 DEF Reader!Next, Reader!Publish
  <2> QED BY <2>3, <2>4, <2>5, <2>6, <2>7 DEF ReaderStep
<1> QED BY <1>1, <1>5, LogInductive, CompactedInductive, PTL
       DEF LogSpec, ImplementsDurableLog, Reader!Spec
================================================================================
