------------------------------ MODULE RecordStore ------------------------------
(***************************************************************************)
(* The record half of Harbor's store: records with their value bag, the    *)
(* edge table projected from the relation field of the bag, list           *)
(* memberships, the timeline and the blind term index, under every store   *)
(* operation that writes them.                                             *)
(*                                                                         *)
(* Every public method of CrmStore takes the one connection mutex once and *)
(* runs to completion, so one operation is one action.  A value bag is     *)
(* reduced to the two fields whose rules reach across records: one         *)
(* is_unique field ("key") and one relation field ("rel").  Ids are minted *)
(* and never reused, so the object a record is on is a constant of its id. *)
(***************************************************************************)
EXTENDS Naturals, FiniteSets

CONSTANTS RecordId,         \* every id new_id may mint
          ObjectOf,         \* the object each record is on
          SourceObject,     \* the object that carries the relation field
          TargetObject,     \* config.relation_object_id of that field
          RelationMultiple, \* config.relation_multiple of that field
          KeyObject,        \* the object that carries the unique field
          KeyValue,         \* non-empty values of the unique field
          NoKey,            \* the empty (absent) value
          List,             \* the lists, each on one object
          ListObject,
          Note              \* ids of user-authored timeline entries

ASSUME NoKeyIsNotAKey == NoKey \notin KeyValue

VARIABLES row,       \* row[r]: does records hold r, and is deleted_at set
          key,       \* key[r]: the unique field of r's bag
          rel,       \* rel[r]: the relation field of r's bag
          edges,     \* edges[r]: targets of the record_links rows with source r
          index,     \* index[r]: what records_terms finds r by
          members,   \* members[l]: records with an entry on list l
          timeline,  \* timeline[r]: activities whose record_id is r
          restored,  \* history: records some restore brought back
          merged     \* history: records some merge had as survivor or loser

vars == <<row, key, rel, edges, index, members, timeline, restored, merged>>

Automatic == "automatic"       \* the entries the store writes itself
Absent == <<>>                 \* index[r] of a record that is not indexed

(* "gone" rows keep apart why the row is no longer there.                  *)
RowState == {"free", "live", "deleted", "purged", "absorbed"}

TargetRecord == {r \in RecordId : ObjectOf[r] = TargetObject}
KeyOrNone == KeyValue \cup {NoKey}

Live(r) == row[r] = "live"
Exists(r) == row[r] \in {"live", "deleted"}

(* What the bag of a record of r's object may hold in the relation field.  *)
RelValue(r) ==
  {ts \in SUBSET TargetRecord :
     /\ ObjectOf[r] # SourceObject => ts = {}
     /\ RelationMultiple \/ Cardinality(ts) <= 1}

(* ... and in the unique field.                                            *)
KeyChoice(r) == IF ObjectOf[r] = KeyObject THEN KeyOrNone ELSE {NoKey}

TypeOK ==
  /\ row \in [RecordId -> RowState]
  /\ key \in [RecordId -> KeyOrNone]
  /\ rel \in [RecordId -> SUBSET RecordId]
  /\ edges \in [RecordId -> SUBSET RecordId]
  /\ index \in [RecordId -> KeyOrNone \cup {Absent}]
  /\ members \in [List -> SUBSET RecordId]
  /\ timeline \in [RecordId -> SUBSET (Note \cup {Automatic})]
  /\ restored \subseteq RecordId
  /\ merged \subseteq RecordId

Init ==
  /\ row = [r \in RecordId |-> "free"]
  /\ key = [r \in RecordId |-> NoKey]
  /\ rel = [r \in RecordId |-> {}]
  /\ edges = [r \in RecordId |-> {}]
  /\ index = [r \in RecordId |-> Absent]
  /\ members = [l \in List |-> {}]
  /\ timeline = [r \in RecordId |-> {}]
  /\ restored = {}
  /\ merged = {}

(* validate_bag: the two checks that read other rows.  A soft-deleted row  *)
(* neither owns a unique value nor is a relation target.                   *)
KeyIsFree(r, k) ==
  /\ k \in KeyChoice(r)
  /\ k = NoKey \/ \A o \in RecordId \ {r} :
                    ~(Live(o) /\ ObjectOf[o] = ObjectOf[r] /\ key[o] = k)
TargetsAreLive(ts) == \A t \in ts : Live(t)

(* Mutant: a write that forgets to reindex.                                *)
WriteValuesStale(r, k, ts, dropped, links, log) ==
  /\ key' = [x \in RecordId |->
               IF x \in dropped THEN NoKey ELSE IF x = r THEN k ELSE key[x]]
  /\ rel' = [x \in RecordId |->
               IF x \in dropped THEN {} ELSE IF x = r THEN ts ELSE rel[x]]
  /\ edges' = [links EXCEPT ![r] = ts]
  /\ index' = [x \in RecordId |-> IF x \in dropped THEN Absent ELSE index[x]]
  /\ timeline' = [log EXCEPT ![r] = @ \cup {Automatic}]

(* write_record_values on top of what the transaction has done so far:     *)
(* the rows it dropped, the edges and the timeline it moved.  An empty     *)
(* diff writes nothing; any other rewrites the bag, reconciles r's edges   *)
(* with it, reindexes r and logs the change.                               *)
WriteValues(r, k, ts, dropped, links, log) ==
  LET changed == k # key[r] \/ ts # rel[r]
  IN /\ key' = [x \in RecordId |->
                  IF x \in dropped THEN NoKey ELSE IF x = r THEN k ELSE key[x]]
     /\ rel' = [x \in RecordId |->
                  IF x \in dropped THEN {} ELSE IF x = r THEN ts ELSE rel[x]]
     /\ edges' = IF changed THEN [links EXCEPT ![r] = ts] ELSE links
     /\ index' = [x \in RecordId |->
                    IF x \in dropped THEN Absent
                    ELSE IF x = r /\ changed THEN k ELSE index[x]]
     /\ timeline' = IF changed
                      THEN [log EXCEPT ![r] = @ \cup {Automatic}] ELSE log

(***************************************************************************)
(* Records                                                                 *)
(***************************************************************************)
(* Mutant: an insert that forgets sync_links.                              *)
CreateWithoutLinks(r, k, ts) ==
  /\ row[r] = "free"
  /\ ts \in RelValue(r)
  /\ TargetsAreLive(ts)
  /\ KeyIsFree(r, k)
  /\ row' = [row EXCEPT ![r] = "live"]
  /\ key' = [key EXCEPT ![r] = k]
  /\ rel' = [rel EXCEPT ![r] = ts]
  /\ index' = [index EXCEPT ![r] = k]
  /\ UNCHANGED <<edges, members, timeline, restored, merged>>

CreateRecord(r, k, ts) ==
  /\ row[r] = "free"
  /\ ts \in RelValue(r)
  /\ TargetsAreLive(ts)
  /\ KeyIsFree(r, k)
  /\ row' = [row EXCEPT ![r] = "live"]
  /\ key' = [key EXCEPT ![r] = k]
  /\ rel' = [rel EXCEPT ![r] = ts]
  /\ edges' = [edges EXCEPT ![r] = ts]
  /\ index' = [index EXCEPT ![r] = k]
  /\ UNCHANGED <<members, timeline, restored, merged>>

(* An update in which both fields are in the validated bag, which is every *)
(* Replace: a field the body leaves out is cleared, and clearing passes    *)
(* every check.                                                            *)
UpdateRecord(r, k, ts) ==
  /\ Exists(r)
  /\ ts \in RelValue(r)
  /\ TargetsAreLive(ts)
  /\ KeyIsFree(r, k)
  /\ WriteValues(r, k, ts, {}, edges, timeline)
  /\ UNCHANGED <<row, members, restored, merged>>

(* Mutant: an inline cell edit that skips the uniqueness check.            *)
UpdateKeyUnchecked(r, k) ==
  /\ Exists(r)
  /\ k \in KeyChoice(r)
  /\ WriteValues(r, k, rel[r], {}, edges, timeline)
  /\ UNCHANGED <<row, members, restored, merged>>

(* A Merge-mode update that names the key alone: the relation keeps its    *)
(* value and nothing looks at its targets again.                           *)
UpdateKey(r, k) ==
  /\ Exists(r)
  /\ KeyIsFree(r, k)
  /\ WriteValues(r, k, rel[r], {}, edges, timeline)
  /\ UNCHANGED <<row, members, restored, merged>>

(* A write of the relation alone: a Merge-mode update that names it, and   *)
(* what link_records and unlink_records come to.  mutate_links re-checks   *)
(* the whole resulting set, not only the targets it was asked to add.      *)
WriteRelation(r, ts) ==
  /\ Exists(r)
  /\ ObjectOf[r] = SourceObject
  /\ ts \in RelValue(r)
  /\ TargetsAreLive(ts)
  /\ WriteValues(r, key[r], ts, {}, edges, timeline)
  /\ UNCHANGED <<row, members, restored, merged>>

LinkRecord(r, t) == WriteRelation(r, rel[r] \cup {t})
UnlinkRecord(r, t) == WriteRelation(r, rel[r] \ {t})

DeleteRecord(r) ==
  /\ Live(r)
  /\ row' = [row EXCEPT ![r] = "deleted"]
  /\ UNCHANGED <<key, rel, edges, index, members, timeline, restored, merged>>

RestoreRecord(r) ==
  /\ row[r] = "deleted"
  /\ row' = [row EXCEPT ![r] = "live"]
  /\ restored' = restored \cup {r}
  /\ UNCHANGED <<key, rel, edges, index, members, timeline, merged>>

(* Mutant: a cascade that forgets the list entries.                        *)
PurgeKeepsEntries(r) ==
  /\ Exists(r)
  /\ row' = [row EXCEPT ![r] = "purged"]
  /\ key' = [key EXCEPT ![r] = NoKey]
  /\ rel' = [rel EXCEPT ![r] = {}]
  /\ edges' = [s \in RecordId |-> IF s = r THEN {} ELSE edges[s] \ {r}]
  /\ index' = [index EXCEPT ![r] = Absent]
  /\ timeline' = [timeline EXCEPT ![r] = {}]
  /\ UNCHANGED <<members, restored, merged>>

(* The ordered cascade.  Bags of other records that name r are left alone. *)
PurgeRecord(r) ==
  /\ Exists(r)
  /\ row' = [row EXCEPT ![r] = "purged"]
  /\ key' = [key EXCEPT ![r] = NoKey]
  /\ rel' = [rel EXCEPT ![r] = {}]
  /\ edges' = [s \in RecordId |-> IF s = r THEN {} ELSE edges[s] \ {r}]
  /\ index' = [index EXCEPT ![r] = Absent]
  /\ members' = [l \in List |-> members[l] \ {r}]
  /\ timeline' = [timeline EXCEPT ![r] = {}]
  /\ UNCHANGED <<restored, merged>>

(***************************************************************************)
(* Merge                                                                   *)
(***************************************************************************)
(* Every record the merge takes from is on the survivor's object; nothing  *)
(* asks whether survivor or losers are live.                               *)
Mergeable(s, losers) ==
  /\ Exists(s)
  /\ losers # {}
  /\ s \notin losers
  /\ \A l \in losers : Exists(l) /\ ObjectOf[l] = ObjectOf[s]

(* What resolve_merge can choose for one field over every plan: the        *)
(* survivor's value, a loser's, or one typed in the dialog.  The default   *)
(* (keep, or fill a blank from the first loser that has a value) is one of *)
(* the first two.  Neither uniqueness nor target liveness is re-checked.   *)
Resolutions(value, s, losers, typed) ==
  {value[s]} \cup {value[l] : l \in losers} \cup typed

(* Mutant: repointing to NULL instead of to the survivor.                  *)
RepointToNull(x, s, losers) == IF x \in losers THEN NoKey ELSE x

(* record_links after both UPDATE OR IGNOREs and the DELETE of leftovers.  *)
Repoint(x, s, losers) == IF x \in losers THEN s ELSE x
RepointAll(ids, s, losers) == {Repoint(x, s, losers) : x \in ids}
MergedEdges(s, losers) ==
  [r \in RecordId |->
     CASE r \in losers -> {}
       [] r = s -> RepointAll((UNION {edges[x] : x \in losers \cup {s}}), s, losers)
       [] OTHER -> RepointAll(edges[r], s, losers)]

(* Mutant: a merge that deletes the losers' activities.                    *)
TimelineOfSurvivorOnly(s, losers) ==
  [r \in RecordId |->
     CASE r \in losers -> {}
       [] r = s -> timeline[s] \cup {Automatic}
       [] OTHER -> timeline[r]]

(* The activities move to the survivor and a note of the merge is added. *)
MergedTimeline(s, losers) ==
  [r \in RecordId |->
     CASE r \in losers -> {}
       [] r = s -> (UNION {timeline[x] : x \in losers \cup {s}}) \cup {Automatic}
       [] OTHER -> timeline[r]]

MergeRecords(s, losers, k, ts, dropped) ==
  /\ Mergeable(s, losers)
  /\ k \in Resolutions(key, s, losers, KeyChoice(s))
  /\ ts \in Resolutions(rel, s, losers, RelValue(s))
  /\ WriteValues(s, k, ts, dropped, MergedEdges(s, losers),
                 MergedTimeline(s, losers))
  /\ members' = [l \in List |-> RepointAll(members[l], s, losers)]
  /\ merged' = merged \cup losers \cup {s}
  /\ UNCHANGED restored

(* soft_delete_losers: the losers' rows stay, with their bags.             *)
MergeSoft(s, losers, k, ts) ==
  /\ MergeRecords(s, losers, k, ts, {})
  /\ row' = [r \in RecordId |-> IF r \in losers THEN "deleted" ELSE row[r]]

MergeHard(s, losers, k, ts) ==
  /\ MergeRecords(s, losers, k, ts, losers)
  /\ row' = [r \in RecordId |-> IF r \in losers THEN "absorbed" ELSE row[r]]

MergeInto(s, losers) ==
  \E k \in KeyOrNone, ts \in SUBSET TargetRecord :
    MergeSoft(s, losers, k, ts) \/ MergeHard(s, losers, k, ts)

(***************************************************************************)
(* List entries and user-authored timeline entries                         *)
(***************************************************************************)
(* A soft-deleted record can be added; re-adding a member changes nothing. *)
AddListEntry(l, r) ==
  /\ Exists(r)
  /\ ObjectOf[r] = ListObject[l]
  /\ members' = [members EXCEPT ![l] = @ \cup {r}]
  /\ UNCHANGED <<row, key, rel, edges, index, timeline, restored, merged>>

RemoveListEntry(l, r) ==
  /\ r \in members[l]
  /\ members' = [members EXCEPT ![l] = @ \ {r}]
  /\ UNCHANGED <<row, key, rel, edges, index, timeline, restored, merged>>

CreateActivity(n, r) ==
  /\ Exists(r)
  /\ \A o \in RecordId : n \notin timeline[o]
  /\ timeline' = [timeline EXCEPT ![r] = @ \cup {n}]
  /\ UNCHANGED <<row, key, rel, edges, index, members, restored, merged>>

(* guard_user_authored keeps automatic entries out of reach of a delete.   *)
DeleteActivity(n, r) ==
  /\ n \in timeline[r]
  /\ timeline' = [timeline EXCEPT ![r] = @ \ {n}]
  /\ UNCHANGED <<row, key, rel, edges, index, members, restored, merged>>

Next ==
  \/ \E r \in RecordId :
       \/ \E k \in KeyOrNone : UpdateKey(r, k)
       \/ \E k \in KeyOrNone, ts \in SUBSET TargetRecord :
            CreateRecord(r, k, ts) \/ UpdateRecord(r, k, ts)
       \/ \E ts \in SUBSET TargetRecord : WriteRelation(r, ts)
       \/ \E t \in TargetRecord : LinkRecord(r, t) \/ UnlinkRecord(r, t)
       \/ DeleteRecord(r) \/ RestoreRecord(r) \/ PurgeRecord(r)
       \/ \E l \in List : AddListEntry(l, r) \/ RemoveListEntry(l, r)
       \/ \E n \in Note : CreateActivity(n, r) \/ DeleteActivity(n, r)
  \/ \E s \in RecordId, losers \in SUBSET RecordId : MergeInto(s, losers)

Spec == Init /\ [][Next]_vars

--------------------------------------------------------------------------------
(***************************************************************************)
(* Properties                                                              *)
(***************************************************************************)
(* A row that is gone leaves nothing behind: no edge out of it, no entry,  *)
(* no activity, no terms; and a list never holds a record of another       *)
(* object.  Deletes cascade by hand, with no foreign key to catch a table  *)
(* the cascade or the merge forgot.                                        *)
NothingLeftBehind ==
  /\ \A r \in RecordId : ~Exists(r) =>
       edges[r] = {} /\ timeline[r] = {} /\ \A l \in List : r \notin members[l]
  /\ \A l \in List : \A r \in members[l] : ObjectOf[r] = ListObject[l]

(* Search finds a record by what its bag holds now, and finds no record    *)
(* whose row is gone: every path that writes a bag reindexes it, the merge *)
(* and the relation writes included.                                       *)
IndexMatchesBag ==
  \A r \in RecordId : index[r] = IF Exists(r) THEN key[r] ELSE Absent

(* Two live records of one object share a unique value only if one of them *)
(* came back through a restore or took part in a merge, the two writes     *)
(* that do not run validate_bag's uniqueness check.                        *)
UniqueUnlessBypassed ==
  \A r, s \in RecordId :
    /\ r # s /\ Live(r) /\ Live(s)
    /\ ObjectOf[r] = ObjectOf[s] /\ key[r] = key[s] /\ key[r] # NoKey
    => r \in restored \cup merged \/ s \in restored \cup merged

(* The edge table departs from the bags only around a merge or an erased   *)
(* target: an edge the bag does not name has a merged record at one end,   *)
(* and a bag entry without its edge names a record whose row is gone or    *)
(* that was merged, or sits in the bag of one that was.                    *)
Gone(t) == row[t] \in {"purged", "absorbed"}
DriftExplained ==
  \A s \in RecordId :
    /\ \A t \in edges[s] \ rel[s] : s \in merged \/ t \in merged
    /\ \A t \in rel[s] \ edges[s] : s \in merged \/ t \in merged \/ Gone(t)

(* A user's note stays on its record until someone deletes that very note, *)
(* until its record is purged, or until a merge absorbs its record: then   *)
(* the survivor has it.  No other operation moves or loses one: no edit,   *)
(* link or restore, and no merge, soft or hard, of losers live or deleted. *)
NoteOutlivesItsRecord ==
  [][\A r \in RecordId : \A n \in (timeline[r] \cap Note) \ timeline'[r] :
        \/ DeleteActivity(n, r)
        \/ PurgeRecord(r)
        \/ \E s \in RecordId, losers \in SUBSET RecordId :
             r \in losers /\ n \in timeline'[s] /\ MergeInto(s, losers)]_vars

(* No live record of one object shares a unique value with another.        *)
LiveUnique ==
  \A r, s \in RecordId :
    /\ r # s /\ Live(r) /\ Live(s)
    /\ ObjectOf[r] = ObjectOf[s] /\ key[r] # NoKey
    => key[r] # key[s]
================================================================================
