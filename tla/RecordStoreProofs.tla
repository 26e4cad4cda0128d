--------------------------- MODULE RecordStoreProofs ---------------------------
(***************************************************************************)
(* Safety of the record store for every set of records, objects, lists,    *)
(* notes and values.  Every invariant below is inductive together with the *)
(* type invariant; the lemmas follow the shape of the code: one about      *)
(* write_record_values, one about a merge, then one step per operation.    *)
(***************************************************************************)
EXTENDS RecordStore, TLAPS

(* write_record_values keeps every table it touches a table of its type.   *)
LEMMA WriteValuesTyping ==
  ASSUME TypeOK, NEW r \in RecordId, NEW k \in KeyOrNone,
         NEW ts \in SUBSET RecordId, NEW dropped \in SUBSET RecordId,
         NEW links \in [RecordId -> SUBSET RecordId],
         NEW log \in [RecordId -> SUBSET (Note \cup {Automatic})],
         WriteValues(r, k, ts, dropped, links, log)
  PROVE  /\ key' \in [RecordId -> KeyOrNone]
         /\ rel' \in [RecordId -> SUBSET RecordId]
         /\ edges' \in [RecordId -> SUBSET RecordId]
         /\ index' \in [RecordId -> KeyOrNone \cup {Absent}]
         /\ timeline' \in [RecordId -> SUBSET (Note \cup {Automatic})]
BY DEF WriteValues, TypeOK, KeyOrNone

(* What a merge moves is again an edge table and a timeline.               *)
LEMMA MergeTyping ==
  ASSUME TypeOK, NEW s \in RecordId, NEW losers \in SUBSET RecordId
  PROVE  /\ MergedEdges(s, losers) \in [RecordId -> SUBSET RecordId]
         /\ MergedTimeline(s, losers) \in [RecordId -> SUBSET (Note \cup {Automatic})]
         /\ \A ids \in SUBSET RecordId : RepointAll(ids, s, losers) \in SUBSET RecordId
<1>1. \A ids \in SUBSET RecordId : RepointAll(ids, s, losers) \in SUBSET RecordId
  BY DEF RepointAll, Repoint
<1>2. UNION {edges[x] : x \in losers \cup {s}} \in SUBSET RecordId
  BY DEF TypeOK
<1>3. (UNION {timeline[x] : x \in losers \cup {s}}) \cup {Automatic}
        \in SUBSET (Note \cup {Automatic})
  BY DEF TypeOK
<1>4. \A r \in RecordId : edges[r] \in SUBSET RecordId
                          /\ timeline[r] \in SUBSET (Note \cup {Automatic})
  BY DEF TypeOK
<1>5. MergedEdges(s, losers) \in [RecordId -> SUBSET RecordId]
  BY <1>1, <1>2, <1>4 DEF MergedEdges
<1>6. MergedTimeline(s, losers) \in [RecordId -> SUBSET (Note \cup {Automatic})]
  BY <1>3, <1>4 DEF MergedTimeline
<1> QED BY <1>1, <1>5, <1>6

(* Every operation keeps the type invariant.                               *)
LEMMA TypeOKStep == TypeOK /\ [Next]_vars => TypeOK'
<1> SUFFICES ASSUME TypeOK, [Next]_vars PROVE TypeOK'
  OBVIOUS
<1>0. \A r \in RecordId : RelValue(r) \subseteq SUBSET RecordId
  BY DEF RelValue, TargetRecord
<1>1. ASSUME NEW r \in RecordId, NEW k \in KeyOrNone, UpdateKey(r, k) PROVE TypeOK'
  <2>1. rel[r] \in SUBSET RecordId
    BY DEF TypeOK
  <2> QED BY <1>1, <2>1, WriteValuesTyping DEF UpdateKey, TypeOK
<1>2. ASSUME NEW r \in RecordId, NEW k \in KeyOrNone, NEW ts \in SUBSET TargetRecord,
             CreateRecord(r, k, ts)
      PROVE TypeOK'
  BY <1>0, <1>2 DEF CreateRecord, TypeOK, RowState
<1>3. ASSUME NEW r \in RecordId, NEW k \in KeyOrNone, NEW ts \in SUBSET TargetRecord,
             UpdateRecord(r, k, ts)
      PROVE TypeOK'
  BY <1>0, <1>3, WriteValuesTyping DEF UpdateRecord, TypeOK
<1>4. ASSUME NEW r \in RecordId, NEW ts, WriteRelation(r, ts) PROVE TypeOK'
  <2>1. key[r] \in KeyOrNone
    BY DEF TypeOK
  <2> QED BY <1>0, <1>4, <2>1, WriteValuesTyping DEF WriteRelation, TypeOK
<1>5. ASSUME NEW r \in RecordId,
             DeleteRecord(r) \/ RestoreRecord(r) \/ PurgeRecord(r)
      PROVE TypeOK'
  BY <1>5 DEF DeleteRecord, RestoreRecord, PurgeRecord, TypeOK, RowState, KeyOrNone
<1>6. ASSUME NEW r \in RecordId, NEW l \in List,
             AddListEntry(l, r) \/ RemoveListEntry(l, r)
      PROVE TypeOK'
  BY <1>6 DEF AddListEntry, RemoveListEntry, TypeOK
<1>7. ASSUME NEW r \in RecordId, NEW n \in Note,
             CreateActivity(n, r) \/ DeleteActivity(n, r)
      PROVE TypeOK'
  BY <1>7 DEF CreateActivity, DeleteActivity, TypeOK
<1>8. ASSUME NEW s \in RecordId, NEW losers \in SUBSET RecordId, NEW k \in KeyOrNone,
             NEW ts \in SUBSET TargetRecord, NEW dropped \in SUBSET RecordId,
             MergeRecords(s, losers, k, ts, dropped),
             row' \in [RecordId -> RowState]
      PROVE TypeOK'
  <2>1. ts \in SUBSET RecordId
    BY DEF TargetRecord
  <2>2. /\ key' \in [RecordId -> KeyOrNone]
        /\ rel' \in [RecordId -> SUBSET RecordId]
        /\ edges' \in [RecordId -> SUBSET RecordId]
        /\ index' \in [RecordId -> KeyOrNone \cup {Absent}]
        /\ timeline' \in [RecordId -> SUBSET (Note \cup {Automatic})]
    <3>1. WriteValues(s, k, ts, dropped, MergedEdges(s, losers), MergedTimeline(s, losers))
      BY <1>8 DEF MergeRecords
    <3> QED BY <2>1, <3>1, MergeTyping, WriteValuesTyping
  <2>3. members' \in [List -> SUBSET RecordId]
    <3>1. \A l \in List : members[l] \in SUBSET RecordId
      BY DEF TypeOK
    <3> QED BY <1>8, <3>1, MergeTyping DEF MergeRecords
  <2>4. restored' \subseteq RecordId /\ merged' \subseteq RecordId
    BY <1>8 DEF MergeRecords, TypeOK
  <2> QED BY <1>8, <2>2, <2>3, <2>4 DEF TypeOK
<1>9. ASSUME NEW s \in RecordId, NEW losers \in SUBSET RecordId, NEW k \in KeyOrNone,
             NEW ts \in SUBSET TargetRecord,
             MergeSoft(s, losers, k, ts) \/ MergeHard(s, losers, k, ts)
      PROVE TypeOK'
  <2>1. row' \in [RecordId -> RowState]
    BY <1>9 DEF MergeSoft, MergeHard, TypeOK, RowState
  <2>2. {} \in SUBSET RecordId
    OBVIOUS
  <2> QED BY <1>8, <1>9, <2>1, <2>2 DEF MergeSoft, MergeHard
<1>10. CASE UNCHANGED vars
  BY <1>10 DEF vars, TypeOK
<1> QED BY <1>1, <1>2, <1>3, <1>4, <1>5, <1>6, <1>7, <1>9, <1>10
        DEF Next, MergeInto, LinkRecord, UnlinkRecord

(* The tables always hold what their columns may: the type invariant.      *)
THEOREM TypeCorrect == Spec => []TypeOK
<1>1. Init => TypeOK
  BY DEF Init, TypeOK, RowState, KeyOrNone
<1> QED BY <1>1, TypeOKStep, PTL DEF Spec

(* Reindexing happens on the same path as the write. *)
LEMMA IndexMatchesBagStep == TypeOK /\ IndexMatchesBag /\ [Next]_vars => IndexMatchesBag'
<1> SUFFICES ASSUME TypeOK, IndexMatchesBag, [Next]_vars PROVE IndexMatchesBag'
  OBVIOUS
<1> USE DEF IndexMatchesBag, TypeOK, Exists
<1>1. ASSUME NEW r \in RecordId, NEW k \in KeyOrNone, UpdateKey(r, k) PROVE IndexMatchesBag'
  BY <1>1 DEF UpdateKey, WriteValues
<1>2. ASSUME NEW r \in RecordId, NEW k \in KeyOrNone, NEW ts \in SUBSET TargetRecord,
             CreateRecord(r, k, ts)
      PROVE IndexMatchesBag'
  BY <1>2 DEF CreateRecord
<1>3. ASSUME NEW r \in RecordId, NEW k \in KeyOrNone, NEW ts \in SUBSET TargetRecord,
             UpdateRecord(r, k, ts)
      PROVE IndexMatchesBag'
  BY <1>3 DEF UpdateRecord, WriteValues
<1>4. ASSUME NEW r \in RecordId, NEW ts, WriteRelation(r, ts) PROVE IndexMatchesBag'
  BY <1>4 DEF WriteRelation, WriteValues
<1>5. ASSUME NEW r \in RecordId, DeleteRecord(r) PROVE IndexMatchesBag'
  BY <1>5 DEF DeleteRecord, Live
<1>6. ASSUME NEW r \in RecordId, RestoreRecord(r) PROVE IndexMatchesBag'
  BY <1>6 DEF RestoreRecord
<1>7. ASSUME NEW r \in RecordId, PurgeRecord(r) PROVE IndexMatchesBag'
  BY <1>7 DEF PurgeRecord
<1>8. ASSUME NEW r \in RecordId, NEW l \in List,
             AddListEntry(l, r) \/ RemoveListEntry(l, r)
      PROVE IndexMatchesBag'
  BY <1>8 DEF AddListEntry, RemoveListEntry
<1>9. ASSUME NEW r \in RecordId, NEW n \in Note,
             CreateActivity(n, r) \/ DeleteActivity(n, r)
      PROVE IndexMatchesBag'
  BY <1>9 DEF CreateActivity, DeleteActivity
<1>10. ASSUME NEW s \in RecordId, NEW losers \in SUBSET RecordId, NEW k \in KeyOrNone,
              NEW ts \in SUBSET TargetRecord, MergeSoft(s, losers, k, ts)
       PROVE IndexMatchesBag'
  BY <1>10 DEF MergeSoft, MergeRecords, WriteValues, Mergeable
<1>11. ASSUME NEW s \in RecordId, NEW losers \in SUBSET RecordId, NEW k \in KeyOrNone,
              NEW ts \in SUBSET TargetRecord, MergeHard(s, losers, k, ts)
       PROVE IndexMatchesBag'
  BY <1>11 DEF MergeHard, MergeRecords, WriteValues, Mergeable
<1>12. CASE UNCHANGED vars
  BY <1>12 DEF vars
<1> QED BY <1>1, <1>2, <1>3, <1>4, <1>5, <1>6, <1>7, <1>8, <1>9, <1>10, <1>11, <1>12
        DEF Next, MergeInto, LinkRecord, UnlinkRecord

(* Search always finds a record by what its bag holds now. *)
THEOREM SearchIsCurrent == Spec => []IndexMatchesBag
<1>1. Init => IndexMatchesBag
  BY DEF Init, IndexMatchesBag, Exists
<1> QED BY <1>1, TypeCorrect, IndexMatchesBagStep, PTL DEF Spec

(* A checked write cannot take a value a live record has. *)
LEMMA UniqueUnlessBypassedStep == TypeOK /\ UniqueUnlessBypassed /\ [Next]_vars => UniqueUnlessBypassed'
<1> SUFFICES ASSUME TypeOK, UniqueUnlessBypassed, [Next]_vars PROVE UniqueUnlessBypassed'
  OBVIOUS
<1> USE DEF UniqueUnlessBypassed, TypeOK, Live, Exists
<1>1. ASSUME NEW r \in RecordId, NEW k \in KeyOrNone, UpdateKey(r, k) PROVE UniqueUnlessBypassed'
  BY <1>1 DEF UpdateKey, WriteValues, KeyIsFree
<1>2. ASSUME NEW r \in RecordId, NEW k \in KeyOrNone, NEW ts \in SUBSET TargetRecord,
             CreateRecord(r, k, ts)
      PROVE UniqueUnlessBypassed'
  BY <1>2 DEF CreateRecord, KeyIsFree
<1>3. ASSUME NEW r \in RecordId, NEW k \in KeyOrNone, NEW ts \in SUBSET TargetRecord,
             UpdateRecord(r, k, ts)
      PROVE UniqueUnlessBypassed'
  BY <1>3 DEF UpdateRecord, WriteValues, KeyIsFree
<1>4. ASSUME NEW r \in RecordId, NEW ts, WriteRelation(r, ts) PROVE UniqueUnlessBypassed'
  BY <1>4 DEF WriteRelation, WriteValues, KeyIsFree
<1>5. ASSUME NEW r \in RecordId, DeleteRecord(r) PROVE UniqueUnlessBypassed'
  BY <1>5 DEF DeleteRecord
<1>6. ASSUME NEW r \in RecordId, RestoreRecord(r) PROVE UniqueUnlessBypassed'
  BY <1>6 DEF RestoreRecord
<1>7. ASSUME NEW r \in RecordId, PurgeRecord(r) PROVE UniqueUnlessBypassed'
  BY <1>7 DEF PurgeRecord
<1>8. ASSUME NEW r \in RecordId, NEW l \in List,
             AddListEntry(l, r) \/ RemoveListEntry(l, r)
      PROVE UniqueUnlessBypassed'
  BY <1>8 DEF AddListEntry, RemoveListEntry
<1>9. ASSUME NEW r \in RecordId, NEW n \in Note,
             CreateActivity(n, r) \/ DeleteActivity(n, r)
      PROVE UniqueUnlessBypassed'
  BY <1>9 DEF CreateActivity, DeleteActivity
<1>10. ASSUME NEW s \in RecordId, NEW losers \in SUBSET RecordId, NEW k \in KeyOrNone,
              NEW ts \in SUBSET TargetRecord, MergeSoft(s, losers, k, ts)
       PROVE UniqueUnlessBypassed'
  BY <1>10 DEF MergeSoft, MergeRecords, WriteValues, Mergeable
<1>11. ASSUME NEW s \in RecordId, NEW losers \in SUBSET RecordId, NEW k \in KeyOrNone,
              NEW ts \in SUBSET TargetRecord, MergeHard(s, losers, k, ts)
       PROVE UniqueUnlessBypassed'
  BY <1>11 DEF MergeHard, MergeRecords, WriteValues, Mergeable
<1>12. CASE UNCHANGED vars
  BY <1>12 DEF vars
<1> QED BY <1>1, <1>2, <1>3, <1>4, <1>5, <1>6, <1>7, <1>8, <1>9, <1>10, <1>11, <1>12
        DEF Next, MergeInto, LinkRecord, UnlinkRecord

(* Only a restore or a merge can make two live records share a value. *)
THEOREM UniquenessHoldsWhereChecked == Spec => []UniqueUnlessBypassed
<1>1. Init => UniqueUnlessBypassed
  BY DEF Init, UniqueUnlessBypassed, Live, Exists
<1> QED BY <1>1, TypeCorrect, UniqueUnlessBypassedStep, PTL DEF Spec

(* Each cascade reaches every table. *)
LEMMA NothingLeftBehindStep == TypeOK /\ NothingLeftBehind /\ [Next]_vars => NothingLeftBehind'
<1> SUFFICES ASSUME TypeOK, NothingLeftBehind, [Next]_vars PROVE NothingLeftBehind'
  OBVIOUS
<1> USE DEF NothingLeftBehind, TypeOK, Exists
<1>1. ASSUME NEW r \in RecordId, NEW k \in KeyOrNone, UpdateKey(r, k) PROVE NothingLeftBehind'
  BY <1>1 DEF UpdateKey, WriteValues
<1>2. ASSUME NEW r \in RecordId, NEW k \in KeyOrNone, NEW ts \in SUBSET TargetRecord,
             CreateRecord(r, k, ts)
      PROVE NothingLeftBehind'
  BY <1>2 DEF CreateRecord
<1>3. ASSUME NEW r \in RecordId, NEW k \in KeyOrNone, NEW ts \in SUBSET TargetRecord,
             UpdateRecord(r, k, ts)
      PROVE NothingLeftBehind'
  BY <1>3 DEF UpdateRecord, WriteValues
<1>4. ASSUME NEW r \in RecordId, NEW ts, WriteRelation(r, ts) PROVE NothingLeftBehind'
  BY <1>4 DEF WriteRelation, WriteValues
<1>5. ASSUME NEW r \in RecordId, DeleteRecord(r) PROVE NothingLeftBehind'
  BY <1>5 DEF DeleteRecord, Live
<1>6. ASSUME NEW r \in RecordId, RestoreRecord(r) PROVE NothingLeftBehind'
  BY <1>6 DEF RestoreRecord
<1>7. ASSUME NEW r \in RecordId, PurgeRecord(r) PROVE NothingLeftBehind'
  BY <1>7 DEF PurgeRecord
<1>8. ASSUME NEW r \in RecordId, NEW l \in List,
             AddListEntry(l, r) \/ RemoveListEntry(l, r)
      PROVE NothingLeftBehind'
  BY <1>8 DEF AddListEntry, RemoveListEntry
<1>9. ASSUME NEW r \in RecordId, NEW n \in Note,
             CreateActivity(n, r) \/ DeleteActivity(n, r)
      PROVE NothingLeftBehind'
  BY <1>9 DEF CreateActivity, DeleteActivity
<1>10. ASSUME NEW s \in RecordId, NEW losers \in SUBSET RecordId, NEW k \in KeyOrNone,
              NEW ts \in SUBSET TargetRecord, MergeSoft(s, losers, k, ts)
       PROVE NothingLeftBehind'
  BY <1>10 DEF MergeSoft, MergeRecords, WriteValues, Mergeable, MergedEdges, MergedTimeline, RepointAll, Repoint
<1>11. ASSUME NEW s \in RecordId, NEW losers \in SUBSET RecordId, NEW k \in KeyOrNone,
              NEW ts \in SUBSET TargetRecord, MergeHard(s, losers, k, ts)
       PROVE NothingLeftBehind'
  BY <1>11 DEF MergeHard, MergeRecords, WriteValues, Mergeable, MergedEdges, MergedTimeline, RepointAll, Repoint
<1>12. CASE UNCHANGED vars
  BY <1>12 DEF vars
<1> QED BY <1>1, <1>2, <1>3, <1>4, <1>5, <1>6, <1>7, <1>8, <1>9, <1>10, <1>11, <1>12
        DEF Next, MergeInto, LinkRecord, UnlinkRecord

(* A row that is gone leaves nothing behind. *)
THEOREM NoResidue == Spec => []NothingLeftBehind
<1>1. Init => NothingLeftBehind
  BY DEF Init, NothingLeftBehind, Exists
<1> QED BY <1>1, TypeCorrect, NothingLeftBehindStep, PTL DEF Spec

(* Edges and bags part only in a merge or a purge. *)
LEMMA DriftExplainedStep == TypeOK /\ DriftExplained /\ [Next]_vars => DriftExplained'
<1> SUFFICES ASSUME TypeOK, DriftExplained, [Next]_vars PROVE DriftExplained'
  OBVIOUS
<1> USE DEF DriftExplained, TypeOK, Exists, Live, Gone
<1>1. ASSUME NEW r \in RecordId, NEW k \in KeyOrNone, UpdateKey(r, k) PROVE DriftExplained'
  BY <1>1 DEF UpdateKey, WriteValues, TargetsAreLive
<1>2. ASSUME NEW r \in RecordId, NEW k \in KeyOrNone, NEW ts \in SUBSET TargetRecord,
             CreateRecord(r, k, ts)
      PROVE DriftExplained'
  BY <1>2 DEF CreateRecord, TargetsAreLive
<1>3. ASSUME NEW r \in RecordId, NEW k \in KeyOrNone, NEW ts \in SUBSET TargetRecord,
             UpdateRecord(r, k, ts)
      PROVE DriftExplained'
  BY <1>3 DEF UpdateRecord, WriteValues, TargetsAreLive
<1>4. ASSUME NEW r \in RecordId, NEW ts, WriteRelation(r, ts) PROVE DriftExplained'
  BY <1>4 DEF WriteRelation, WriteValues, TargetsAreLive
<1>5. ASSUME NEW r \in RecordId, DeleteRecord(r) PROVE DriftExplained'
  BY <1>5 DEF DeleteRecord
<1>6. ASSUME NEW r \in RecordId, RestoreRecord(r) PROVE DriftExplained'
  BY <1>6 DEF RestoreRecord
<1>7. ASSUME NEW r \in RecordId, PurgeRecord(r) PROVE DriftExplained'
  BY <1>7 DEF PurgeRecord
<1>8. ASSUME NEW r \in RecordId, NEW l \in List,
             AddListEntry(l, r) \/ RemoveListEntry(l, r)
      PROVE DriftExplained'
  BY <1>8 DEF AddListEntry, RemoveListEntry
<1>9. ASSUME NEW r \in RecordId, NEW n \in Note,
             CreateActivity(n, r) \/ DeleteActivity(n, r)
      PROVE DriftExplained'
  BY <1>9 DEF CreateActivity, DeleteActivity
<1>10. ASSUME NEW s \in RecordId, NEW losers \in SUBSET RecordId, NEW k \in KeyOrNone,
              NEW ts \in SUBSET TargetRecord, MergeSoft(s, losers, k, ts)
       PROVE DriftExplained'
  BY <1>10 DEF MergeSoft, MergeRecords, WriteValues, Mergeable, MergedEdges, RepointAll, Repoint
<1>11. ASSUME NEW s \in RecordId, NEW losers \in SUBSET RecordId, NEW k \in KeyOrNone,
              NEW ts \in SUBSET TargetRecord, MergeHard(s, losers, k, ts)
       PROVE DriftExplained'
  BY <1>11 DEF MergeHard, MergeRecords, WriteValues, Mergeable, MergedEdges, RepointAll, Repoint
<1>12. CASE UNCHANGED vars
  BY <1>12 DEF vars
<1> QED BY <1>1, <1>2, <1>3, <1>4, <1>5, <1>6, <1>7, <1>8, <1>9, <1>10, <1>11, <1>12
        DEF Next, MergeInto, LinkRecord, UnlinkRecord

(* The edge table departs from the bags only around merges and erased rows. *)
THEOREM ProjectionDrift == Spec => []DriftExplained
<1>1. Init => DriftExplained
  BY DEF Init, DriftExplained, Exists, Live, Gone
<1> QED BY <1>1, TypeCorrect, DriftExplainedStep, PTL DEF Spec

(* What a note that leaves a timeline is owed: one case for each operation *)
(* that writes the timelines.  A merge is the only one that moves it.      *)
LEMMA NoteStep ==
  TypeOK /\ [Next]_vars =>
    [\A r \in RecordId : \A n \in (timeline[r] \cap Note) \ timeline'[r] :
        \/ DeleteActivity(n, r)
        \/ PurgeRecord(r)
        \/ \E s \in RecordId, losers \in SUBSET RecordId :
             r \in losers /\ n \in timeline'[s] /\ MergeInto(s, losers)]_vars
<1> SUFFICES ASSUME TypeOK, Next, NEW h \in RecordId, NEW n \in Note,
                    n \in timeline[h], n \notin timeline'[h]
             PROVE  \/ DeleteActivity(n, h)
                    \/ PurgeRecord(h)
                    \/ \E s \in RecordId, losers \in SUBSET RecordId :
                         h \in losers /\ n \in timeline'[s] /\ MergeInto(s, losers)
  OBVIOUS
<1>0. timeline \in [RecordId -> SUBSET (Note \cup {Automatic})]
  BY DEF TypeOK
<1>1. ASSUME NEW r \in RecordId, PurgeRecord(r) PROVE r = h
  BY <1>0, <1>1 DEF PurgeRecord
<1>2. ASSUME NEW r \in RecordId, NEW m \in Note, DeleteActivity(m, r) PROVE r = h /\ m = n
  BY <1>0, <1>2 DEF DeleteActivity
<1>3. ASSUME NEW r \in RecordId, NEW m \in Note, CreateActivity(m, r) PROVE FALSE
  BY <1>0, <1>3 DEF CreateActivity
<1>4. ASSUME NEW r \in RecordId, NEW k \in KeyOrNone, NEW ts \in SUBSET TargetRecord,
             CreateRecord(r, k, ts)
      PROVE FALSE
  BY <1>4 DEF CreateRecord
<1>5. ASSUME NEW r \in RecordId, DeleteRecord(r) \/ RestoreRecord(r) PROVE FALSE
  BY <1>5 DEF DeleteRecord, RestoreRecord
<1>6. ASSUME NEW r, NEW k, NEW ts, WriteValues(r, k, ts, {}, edges, timeline) PROVE FALSE
  BY <1>0, <1>6 DEF WriteValues
<1>7. ASSUME NEW r \in RecordId, NEW k, NEW ts,
             UpdateKey(r, k) \/ UpdateRecord(r, k, ts) \/ WriteRelation(r, ts)
      PROVE FALSE
  BY <1>6, <1>7 DEF UpdateKey, UpdateRecord, WriteRelation
<1>8. ASSUME NEW l \in List, NEW r \in RecordId, AddListEntry(l, r) \/ RemoveListEntry(l, r)
      PROVE FALSE
  BY <1>8 DEF AddListEntry, RemoveListEntry
<1>9. ASSUME NEW s \in RecordId, NEW losers \in SUBSET RecordId, MergeInto(s, losers)
      PROVE  h \in losers /\ n \in timeline'[s]
  <2>1. PICK k \in KeyOrNone, ts \in SUBSET TargetRecord :
          MergeSoft(s, losers, k, ts) \/ MergeHard(s, losers, k, ts)
    BY <1>9 DEF MergeInto
  <2> DEFINE moved == MergedTimeline(s, losers)
  <2>2. s \notin losers /\ moved[s] = (UNION {timeline[x] : x \in losers \cup {s}}) \cup {Automatic}
    BY <2>1 DEF MergedTimeline, MergeSoft, MergeHard, MergeRecords, Mergeable
  <2>3. h \notin losers => n \in moved[h]
    <3>1. CASE h = s
      BY <2>2, <3>1
    <3>2. CASE h # s
      BY <3>2 DEF MergedTimeline
    <3> QED BY <3>1, <3>2
  <2>4. moved \in [RecordId -> SUBSET (Note \cup {Automatic})]
    BY MergeTyping
  <2>5. \A x \in RecordId : moved[x] \subseteq timeline'[x]
    <3> HIDE DEF moved
    <3>1. timeline' = moved \/ timeline' = [moved EXCEPT ![s] = @ \cup {Automatic}]
      BY <2>1 DEF MergeSoft, MergeHard, MergeRecords, WriteValues, moved
    <3> QED BY <2>4, <3>1
  <2>6. h \in losers
    BY <2>3, <2>5
  <2> QED BY <2>2, <2>5, <2>6
<1> QED BY <1>1, <1>2, <1>3, <1>4, <1>5, <1>7, <1>8, <1>9 DEF Next, MergeInto, LinkRecord, UnlinkRecord

(* A user's note stays on its record until that very note is deleted, its  *)
(* record is purged, or a merge absorbs its record and gives it to the     *)
(* survivor: for any records, lists and notes.                             *)
THEOREM NotesAreKept == Spec => NoteOutlivesItsRecord
BY TypeCorrect, NoteStep, PTL DEF Spec, NoteOutlivesItsRecord
================================================================================
