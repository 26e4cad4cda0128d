---------------------------- MODULE RecordApiProofs -----------------------------
(***************************************************************************)
(* The handlers of RecordApi, for any clients, objects, records and bound  *)
(* on commits.  A handler between two locks is one of a few shapes; what   *)
(* it has looked at is there unless it was alarmed (HonestInv), and of     *)
(* each record either some handler owes its present bag and stage or a     *)
(* consumer has them (KeepInv).                                            *)
(***************************************************************************)
EXTENDS RecordApi, TLAPS

(***************************************************************************)
(* The shapes of a handler                                                 *)
(***************************************************************************)
OnObject == [op : ObjectOp, obj : Object, met : BOOLEAN]
OnRecord == [op : RecordOp, rec : Rec, met : BOOLEAN]
OnTwo == [op : {"loser", "merge"}, rec : Rec, other : Rec, met : BOOLEAN]
Describing == [op : {"describe"}, rec : Rec]
Teller == [op : {"created", "look_up", "updated", "staged"}, news : News]
Importer == [op : {"import"}, fresh : SUBSET Rec, changed : SUBSET Rec]

LEMMA Shapes ==
  /\ Handling = {AtRest} \cup OnObject \cup OnRecord \cup OnTwo \cup Describing \cup Teller
                \cup Importer
  /\ DOMAIN AtRest = {"op"}
  /\ \A h \in OnObject : DOMAIN h = {"op", "obj", "met"}
  /\ \A h \in OnRecord : DOMAIN h = {"op", "rec", "met"}
  /\ \A h \in OnTwo : DOMAIN h = {"op", "rec", "other", "met"}
  /\ \A h \in Describing : DOMAIN h = {"op", "rec"}
  /\ \A h \in Teller : DOMAIN h = {"op", "news"}
  /\ \A h \in Importer : DOMAIN h = {"op", "fresh", "changed"}
  BY DEF Handling, AtRest, OnObject, OnRecord, OnTwo, Describing, Teller, Importer

LEMMA ShapeOf ==
  ASSUME NEW h \in Handling
  PROVE  /\ h.op = "rest" => h = AtRest
         /\ h.op \in {"created", "look_up", "updated", "staged"} <=> h \in Teller
         /\ h \in Teller <=> "news" \in DOMAIN h
         /\ h.op = "import" <=> h \in Importer
         /\ h \in Importer <=> "fresh" \in DOMAIN h
         /\ h.op = "describe" <=> h \in Describing
         /\ h.op \in {"loser", "merge"} <=> h \in OnTwo
         /\ h.op \in {"delete", "purge", "restore", "note"} => h \in OnRecord
         /\ h.op \in {"create", "validate", "report"} => h \in OnObject
         /\ h.op = "page" => h \in OnObject \/ h \in OnRecord
         /\ h \in OnObject <=> "obj" \in DOMAIN h
         /\ h \in OnRecord \/ h \in OnTwo \/ h \in Describing <=> "rec" \in DOMAIN h
         /\ h \in OnTwo <=> "other" \in DOMAIN h
         /\ h \in OnObject \/ h \in OnRecord \/ h \in OnTwo <=> "met" \in DOMAIN h
<1>1. \/ h = AtRest \/ h \in OnObject \/ h \in OnRecord \/ h \in OnTwo
      \/ h \in Describing \/ h \in Teller \/ h \in Importer
  BY Shapes
<1>2. /\ h \in OnObject => h.op \in ObjectOp
      /\ h \in OnRecord => h.op \in RecordOp
      /\ h \in OnTwo => h.op \in {"loser", "merge"}
      /\ h \in Describing => h.op = "describe"
      /\ h \in Teller => h.op \in {"created", "look_up", "updated", "staged"}
      /\ h \in Importer => h.op = "import"
      /\ AtRest.op = "rest"
  BY DEF OnObject, OnRecord, OnTwo, Describing, Teller, Importer, AtRest
<1> QED BY <1>1, <1>2, Shapes DEF ObjectOp, RecordOp

(***************************************************************************)
(* Types                                                                   *)
(***************************************************************************)
EarsOK ==
  /\ heardBag \in [Rec -> Bag \cup {None}]
  /\ heardStage \in [Rec -> StageId \cup {None}]
  /\ staleBag \subseteq Rec /\ staleStage \subseteq Rec
TableOK ==
  /\ known \subseteq Object
  /\ state \in [Rec -> {"absent", "live", "trash", "gone"}]
  /\ bag \in [Rec -> Bag]
  /\ writes \in 0..MaxWrites
AtOK == at \in [Client -> Handling]
ReplyOK == reply \in [status : {"none"} \cup Fault, met : BOOLEAN, saved : BOOLEAN, tool : BOOLEAN]

LEMMA ApiParts == /\ ApiTypeOK <=> EarsOK /\ TableOK /\ AtOK /\ ReplyOK
                  /\ ApiTypeOK' <=> EarsOK' /\ TableOK' /\ AtOK' /\ ReplyOK'
  BY DEF ApiTypeOK, EarsOK, TableOK, AtOK, ReplyOK

LEMMA StaleType ==
  ASSUME EarsOK, NEW B \in SUBSET Rec, NEW S \in SUBSET Rec, Stale(B, S) PROVE EarsOK'
  BY DEF EarsOK, Stale

LEMMA EarsType ==
  ASSUME EarsOK, NEW r \in Rec, NEW b \in Bag \cup {None}, NEW s \in StageId \cup {None}
  PROVE  /\ Emit(r, b, s) => EarsOK'
         /\ Lose(r, b, s) => EarsOK'
         /\ \A changed, told \in BOOLEAN : Announce(r, changed, told) => EarsOK'
<1>1. Deliver(r, b, s) => EarsOK'
  BY DEF EarsOK, Deliver
<1>2. Lose(r, b, s) => EarsOK'
  <2>1. (IF b = None THEN staleBag ELSE staleBag \cup {r}) \in SUBSET Rec
    BY DEF EarsOK
  <2>2. (IF s = None THEN staleStage ELSE staleStage \cup {r}) \in SUBSET Rec
    BY DEF EarsOK
  <2> QED BY <2>1, <2>2, StaleType DEF Lose
<1>3. \A changed, told \in BOOLEAN : Announce(r, changed, told) => EarsOK'
  <2> SUFFICES ASSUME NEW changed \in BOOLEAN, NEW told \in BOOLEAN, Announce(r, changed, told)
               PROVE  EarsOK'
    OBVIOUS
  <2>1. PICK B \in SUBSET Rec, S \in SUBSET Rec : Stale(B, S)
    <3>1. (IF Quiet(r) THEN staleBag \ {r} ELSE staleBag \cup {r}) \in SUBSET Rec
      BY DEF EarsOK
    <3>2. (IF Quiet(r) /\ told THEN staleStage \ {r}
           ELSE IF changed \/ told THEN staleStage \cup {r} ELSE staleStage) \in SUBSET Rec
      BY DEF EarsOK
    <3> QED BY <3>1, <3>2 DEF Announce
  <2> QED BY <2>1, StaleType
<1> QED BY <1>1, <1>2, <1>3 DEF Emit

LEMMA NewsParts ==
  ASSUME AtOK, NEW c \in Client, Telling(c)
  PROVE  /\ at[c] \in Teller /\ at[c].news.rec \in Rec /\ at[c].news.bag \in Bag
         /\ at[c].news.bag.stage \in StageId
         /\ at[c].news.moved \in BOOLEAN /\ at[c].news.tool \in BOOLEAN
<1>1. at[c] \in Teller
  BY ShapeOf DEF AtOK, Telling
<1>2. at[c].news \in News
  BY <1>1 DEF Teller
<1> QED BY <1>1, <1>2 DEF News, Bag

LEMMA GiveUpType == ASSUME AtOK, EarsOK, NEW c \in Client, Telling(c), GiveUp(c) PROVE EarsOK'
<1>1. PICK b \in Bag \cup {None}, s \in StageId \cup {None} : Lose(at[c].news.rec, b, s)
  BY NewsParts DEF GiveUp
<1> QED BY <1>1, NewsParts, EarsType

(* A handler goes on as a handler, or ends with an answer.                 *)
LEMMA GoType == ASSUME AtOK, NEW c \in Client, NEW h \in Handling, Go(c, h) PROVE AtOK' /\ ReplyOK'
  BY DEF Go, AtOK, ReplyOK, NoReply

LEMMA EndsType ==
  ASSUME NEW status, NEW met \in BOOLEAN, NEW saved \in BOOLEAN, NEW tool \in BOOLEAN,
         Ends(status, met, saved, tool)
  PROVE  ReplyOK'
  BY DEF Ends, ReplyOK, NoReply, Fault

LEMMA MetType == ASSUME AtOK, NEW c \in Client PROVE Met(c) \in BOOLEAN
<1>1. "met" \in DOMAIN at[c] => at[c] \in OnObject \cup OnRecord \cup OnTwo
  BY ShapeOf DEF AtOK
<1> QED BY <1>1 DEF Met, OnObject, OnRecord, OnTwo

LEMMA RestType ==
  ASSUME AtOK, NEW c \in Client PROVE [at EXCEPT ![c] = AtRest] \in [Client -> Handling]
  BY DEF AtOK, Handling

LEMMA ReplyType ==
  ASSUME AtOK, NEW c \in Client, NEW status, NEW saved \in BOOLEAN, Reply(c, status, saved)
  PROVE  AtOK' /\ ReplyOK'
  BY RestType, MetType, EndsType DEF Reply, AtOK

(* An alarmed handler is the same handler, alarmed.                        *)
LEMMA AlarmedType ==
  ASSUME AtOK, NEW objs, NEW recs
  PROVE  /\ Alarmed(objs, recs) \in [Client -> Handling]
         /\ \A d \in Client : LET h == Alarmed(objs, recs)[d] IN
              \/ h = at[d] /\ ("met" \in DOMAIN at[d] => ~Touches(at[d], objs, recs))
              \/ /\ "met" \in DOMAIN at[d] /\ h = [at[d] EXCEPT !.met = TRUE] /\ h.met
                 /\ DOMAIN h = DOMAIN at[d] /\ h.op = at[d].op
<1>1. ASSUME NEW d \in Client, "met" \in DOMAIN at[d]
      PROVE  LET h == [at[d] EXCEPT !.met = TRUE] IN
               h \in Handling /\ h.met /\ DOMAIN h = DOMAIN at[d] /\ h.op = at[d].op
  <2>1. at[d] \in OnObject \/ at[d] \in OnRecord \/ at[d] \in OnTwo
    BY <1>1, ShapeOf DEF AtOK
  <2>2. CASE at[d] \in OnObject
    BY <2>2, Shapes DEF OnObject
  <2>3. CASE at[d] \in OnRecord
    BY <2>3, Shapes DEF OnRecord
  <2>4. CASE at[d] \in OnTwo
    BY <2>4, Shapes DEF OnTwo
  <2> QED BY <2>1, <2>2, <2>3, <2>4
<1> QED BY <1>1 DEF Alarmed, AtOK

LEMMA ForgetType ==
  ASSUME TableOK, NEW rs, Forget(rs)
  PROVE  /\ state' \in [Rec -> {"absent", "live", "trash", "gone"}]
         /\ bag' \in [Rec -> Bag]
<1>1. NoBag \in Bag
  BY ApiConstants DEF ApiConstants, NoBag
<1> QED BY <1>1 DEF TableOK, Forget

LEMMA ReadType == ASSUME ApiTypeOK, NEW c \in Client, ReadStep(c) PROVE ApiTypeOK'
<1>0. EarsOK /\ TableOK /\ AtOK /\ ReplyOK
  BY ApiParts
<1>1. UNCHANGED <<table, ears>>
  BY DEF ReadStep, ResolveObject, RequireRecord, GetRecord, PageOfObject, ValidateValues,
         ReportOnObject, PageOfRecord, NoteAdded, ToolLogActivity, DescribeRecord
<1>2. EarsOK' /\ TableOK'
  BY <1>0, <1>1 DEF EarsOK, TableOK, table, ears
<1>3. AtOK' /\ ReplyOK'
  <2>1. ASSUME NEW h \in Handling, Go(c, h) PROVE AtOK' /\ ReplyOK'
    BY <1>0, <2>1, GoType
  <2>2. ASSUME NEW status, NEW saved \in BOOLEAN, Reply(c, status, saved) PROVE AtOK' /\ ReplyOK'
    BY <1>0, <2>2, ReplyType
  <2>3. ASSUME NEW o \in Object, NEW op \in ObjectOp, ResolveObject(c, op, o) PROVE AtOK' /\ ReplyOK'
    <3>1. [op |-> op, obj |-> o, met |-> FALSE] \in Handling
      BY DEF Handling
    <3> QED BY <2>1, <2>2, <2>3, <3>1 DEF ResolveObject
  <2>4. ASSUME NEW r \in Rec, NEW op \in RecordOp, RequireRecord(c, op, r) PROVE AtOK' /\ ReplyOK'
    <3>1. [op |-> op, rec |-> r, met |-> FALSE] \in Handling
      BY DEF Handling
    <3> QED BY <2>1, <2>2, <2>4, <3>1 DEF RequireRecord
  <2>5. ASSUME NEW r \in Rec, ToolLogActivity(c, r) PROVE AtOK' /\ ReplyOK'
    <3>1. [op |-> "describe", rec |-> r] \in Handling
      BY DEF Handling
    <3> QED BY <2>1, <2>2, <2>5, <3>1 DEF ToolLogActivity
  <2>6. ASSUME DescribeRecord(c) PROVE AtOK' /\ ReplyOK'
    BY <1>0, <2>6, RestType, EndsType DEF DescribeRecord, AtOK
  <2>7. ASSUME \E r \in Rec : GetRecord(c, r) PROVE AtOK' /\ ReplyOK'
    BY <2>2, <2>7 DEF GetRecord
  <2>8. ASSUME PageOfObject(c) \/ ValidateValues(c) \/ ReportOnObject(c) PROVE AtOK' /\ ReplyOK'
    BY <2>2, <2>8 DEF PageOfObject, ValidateValues, ReportOnObject
  <2>9. ASSUME PageOfRecord(c) \/ NoteAdded(c) PROVE AtOK' /\ ReplyOK'
    BY <2>2, <2>9 DEF PageOfRecord, NoteAdded
  <2> QED BY <2>3, <2>4, <2>5, <2>6, <2>7, <2>8, <2>9 DEF ReadStep
<1> QED BY <1>2, <1>3, ApiParts

LEMMA TellType == ASSUME ApiTypeOK, NEW c \in Client, TellStep(c) PROVE ApiTypeOK'
<1>0. EarsOK /\ TableOK /\ AtOK /\ ReplyOK
  BY ApiParts
<1>1. UNCHANGED table
  BY DEF TellStep, RecordCreated, LookUp, LookUpFails, RecordUpdated, DealStageChanged
<1>2. TableOK'
  BY <1>0, <1>1 DEF TableOK, table
<1> DEFINE n == at[c].news
<1>3. /\ Telling(c) /\ n.rec \in Rec /\ n.bag \in Bag /\ n.bag.stage \in StageId
      /\ n.moved \in BOOLEAN /\ n.tool \in BOOLEAN
  <2>1. Telling(c)
    BY <1>0, ShapeOf DEF TellStep, RecordCreated, LookUp, LookUpFails, RecordUpdated,
                         DealStageChanged, Telling, AtOK
  <2> QED BY <1>0, <2>1, NewsParts
<1>4. EarsOK'
  <2>1. CASE RecordCreated(c) \/ RecordUpdated(c) \/ DealStageChanged(c)
    BY <1>0, <1>3, <2>1, EarsType DEF RecordCreated, RecordUpdated, DealStageChanged
  <2>2. CASE LookUp(c) \/ LookUpFails(c)
    BY <1>0, <1>3, <2>2, GiveUpType DEF LookUp, LookUpFails, ears, EarsOK
  <2> QED BY <2>1, <2>2 DEF TellStep
<1>5. n \in News /\ [n EXCEPT !.tool = FALSE] \in News
  BY <1>0, <1>3, NewsParts DEF Teller, News
<1> HIDE DEF n
<1>6. [op |-> "updated", news |-> [n EXCEPT !.tool = FALSE]] \in Handling
  BY <1>5 DEF Handling
<1>7. [op |-> "staged", news |-> n] \in Handling
  BY <1>5 DEF Handling
<1>8. AtOK' /\ ReplyOK'
  <2>1. CASE RecordCreated(c) \/ DealStageChanged(c)
    BY <1>0, <2>1, ReplyType DEF RecordCreated, DealStageChanged
  <2>2. CASE LookUp(c)
    <3>1. Go(c, [op |-> "updated", news |-> [n EXCEPT !.tool = FALSE]]) \/ Reply(c, "ok", TRUE)
      BY <2>2 DEF LookUp, n
    <3> QED BY <1>0, <1>6, <3>1, GoType, ReplyType
  <2>3. CASE LookUpFails(c)
    <3>1. /\ at' = [at EXCEPT ![c] = AtRest]
          /\ Ends(IF n.tool THEN "internal" ELSE "ok", FALSE, TRUE, n.tool)
      BY <2>3 DEF LookUpFails, n
    <3> QED BY <1>0, <1>3, <3>1, RestType, EndsType DEF AtOK
  <2>4. CASE RecordUpdated(c)
    <3>1. Go(c, [op |-> "staged", news |-> n]) \/ Reply(c, "ok", TRUE)
      BY <2>4 DEF RecordUpdated, n
    <3> QED BY <1>0, <1>7, <3>1, GoType, ReplyType
  <2> QED BY <2>1, <2>2, <2>3, <2>4 DEF TellStep
<1> QED BY <1>2, <1>4, <1>8, ApiParts

LEMMA WriteType == ASSUME ApiTypeOK, NEW c \in Client, WriteStep(c) PROVE ApiTypeOK'
<1>0. EarsOK /\ TableOK /\ AtOK /\ ReplyOK
  BY ApiParts
<1>1. ASSUME CreateRecordWithValues(c) PROVE ApiTypeOK'
  <2>1. CASE UNCHANGED <<table, ears>> /\ \E status \in {"internal", "rejected"} : Reply(c, status, FALSE)
    BY <1>0, <2>1, ReplyType, ApiParts DEF table, ears, EarsOK, TableOK
  <2>2. ASSUME NEW r \in Rec, NEW b \in Bag,
               state' = [state EXCEPT ![r] = "live"], bag' = [bag EXCEPT ![r] = b],
               Announce(r, TRUE, TRUE), UNCHANGED <<known, writes>>,
               Go(c, [op |-> "created",
                      news |-> [rec |-> r, bag |-> b, moved |-> FALSE, tool |-> FALSE]])
        PROVE  ApiTypeOK'
    <3>1. [op |-> "created", news |-> [rec |-> r, bag |-> b, moved |-> FALSE, tool |-> FALSE]] \in Handling
      BY DEF Handling, News
    <3>2. TableOK'
      BY <1>0, <2>2 DEF TableOK
    <3>3. EarsOK'
      BY <1>0, <2>2, EarsType
    <3> QED BY <1>0, <2>2, <3>1, <3>2, <3>3, GoType, ApiParts
  <2> QED BY <1>1, <2>1, <2>2 DEF CreateRecordWithValues
<1>2. ASSUME NEW r \in Rec, NEW tool \in BOOLEAN, UpdateValues(c, r, tool) PROVE ApiTypeOK'
  <2>1. CASE UNCHANGED <<table, ears>> /\ \E status \in {"not_found", "rejected", "ok"} : Reply(c, status, FALSE)
    BY <1>0, <2>1, ReplyType, ApiParts DEF table, ears, EarsOK, TableOK
  <2>2. ASSUME NEW b \in Bag, NEW changed \in BOOLEAN, NEW moved \in BOOLEAN,
               Commit(r, b), Announce(r, changed, moved), UNCHANGED <<known, state>>,
               Go(c, [op |-> "look_up",
                      news |-> [rec |-> r, bag |-> b, moved |-> moved, tool |-> tool]])
        PROVE  ApiTypeOK'
    <3>1. [op |-> "look_up", news |-> [rec |-> r, bag |-> b, moved |-> moved, tool |-> tool]] \in Handling
      BY DEF Handling, News
    <3>2. TableOK'
      BY <1>0, <2>2, ApiConstants DEF TableOK, Commit, ApiConstants
    <3>3. EarsOK'
      BY <1>0, <2>2, EarsType
    <3> QED BY <1>0, <2>2, <3>1, <3>2, <3>3, GoType, ApiParts
  <2> QED BY <1>2, <2>1, <2>2 DEF UpdateValues
<1>3. ASSUME Trash(c) \/ Untrash(c) PROVE ApiTypeOK'
  <2>1. Reply(c, "ok", FALSE) /\ UNCHANGED <<known, bag, writes, ears>>
    BY <1>3 DEF Trash, Untrash
  <2>2. TableOK'
    BY <1>0, <1>3 DEF Trash, Untrash, TableOK
  <2> QED BY <1>0, <2>1, <2>2, ReplyType, ApiParts DEF ears, EarsOK
<1>4. ASSUME Purged(c) PROVE ApiTypeOK'
  <2>1. TableOK' /\ EarsOK'
    BY <1>0, <1>4, ForgetType DEF Purged, TableOK, ears, EarsOK
  <2>2. AtOK'
    <3>1. Alarmed({}, {at[c].rec}) \in [Client -> Handling]
      BY <1>0, AlarmedType
    <3> QED BY <1>4, <3>1 DEF Purged, AtOK, Handling
  <2> QED BY <1>0, <1>4, <2>1, <2>2, MetType, EndsType, ApiParts DEF Purged
<1> QED BY <1>1, <1>2, <1>3, <1>4 DEF WriteStep, PatchRecord, ToolUpdateRecord

LEMMA MergeType == ASSUME ApiTypeOK, NEW c \in Client, MergeStep(c) PROVE ApiTypeOK'
<1>0. EarsOK /\ TableOK /\ AtOK /\ ReplyOK
  BY ApiParts
<1>1. ASSUME UNCHANGED <<table, ears>>, NEW h \in Handling, Go(c, h) PROVE ApiTypeOK'
  BY <1>0, <1>1, GoType, ApiParts DEF table, ears, EarsOK, TableOK
<1>2. ASSUME UNCHANGED <<table, ears>>, NEW status, Reply(c, status, FALSE) PROVE ApiTypeOK'
  BY <1>0, <1>2, ReplyType, ApiParts DEF table, ears, EarsOK, TableOK
<1>3. ASSUME NEW r \in Rec, NEW l \in Rec, CheckSurvivor(c, r, l) PROVE ApiTypeOK'
  <2>1. [op |-> "loser", rec |-> r, other |-> l, met |-> FALSE] \in Handling
    BY DEF Handling
  <2> QED BY <1>1, <1>2, <1>3, <2>1 DEF CheckSurvivor
<1>4. ASSUME CheckLoser(c) PROVE ApiTypeOK'
  <2>1. at[c] \in OnTwo
    BY <1>0, <1>4, ShapeOf DEF CheckLoser, AtOK
  <2>2. [at[c] EXCEPT !.op = "merge"] \in Handling
    BY <2>1, Shapes DEF OnTwo
  <2> QED BY <1>1, <1>2, <1>4, <2>2 DEF CheckLoser
<1>5. ASSUME MergeFails(c) \/ PreviewMerge(c) PROVE ApiTypeOK'
  <2>1. UNCHANGED <<table, ears>> /\ \E status : Reply(c, status, FALSE)
    BY <1>5 DEF MergeFails, PreviewMerge
  <2> QED BY <1>2, <2>1
<1>6. ASSUME MergeRecords(c) PROVE ApiTypeOK'
  <2>0. at[c] \in OnTwo /\ at[c].rec \in Rec /\ at[c].other \in Rec
    BY <1>0, <1>6, ShapeOf DEF MergeRecords, AtOK, OnTwo
  <2> DEFINE r == at[c].rec
             l == at[c].other
             h(b) == [op |-> "look_up",
                      news |-> [rec |-> r, bag |-> b, moved |-> FALSE, tool |-> FALSE]]
  <2>1. PICK b \in Bag, hard \in BOOLEAN :
          /\ Commit(r, b) /\ Announce(r, b.stage # bag[r].stage, FALSE)
          /\ state' = [state EXCEPT ![l] = IF hard THEN "gone" ELSE "trash"]
          /\ at' = [Alarmed({}, IF hard THEN {l} ELSE {}) EXCEPT ![c] = h(b)]
    BY <1>6 DEF MergeRecords
  <2>2. h(b) \in Handling
    BY <2>0 DEF Handling, News
  <2>3. AtOK'
    <3>1. Alarmed({}, IF hard THEN {l} ELSE {}) \in [Client -> Handling]
      BY <1>0, AlarmedType
    <3> QED BY <2>1, <2>2, <3>1 DEF AtOK
  <2>4. TableOK'
    BY <1>0, <1>6, <2>0, <2>1, ApiConstants DEF TableOK, Commit, ApiConstants, MergeRecords
  <2>5. EarsOK'
    BY <1>0, <2>0, <2>1, EarsType
  <2>6. ReplyOK'
    BY <1>6 DEF MergeRecords, NoReply, ReplyOK
  <2> QED BY <2>3, <2>4, <2>5, <2>6, ApiParts
<1> QED BY <1>3, <1>4, <1>5, <1>6 DEF MergeStep

LEMMA RowsUntoldType ==
  ASSUME AtOK, EarsOK, NEW c \in Client, Importing(c), RowsUntold(c) PROVE EarsOK'
<1>1. at[c] \in Importer
  BY ShapeOf DEF AtOK, Importing
<1>2. at[c].fresh \in SUBSET Rec /\ at[c].changed \in SUBSET Rec
  BY <1>1 DEF Importer
<1>3. /\ staleBag \cup at[c].fresh \cup at[c].changed \in SUBSET Rec
      /\ staleStage \cup at[c].fresh \in SUBSET Rec
  BY <1>2 DEF EarsOK
<1> QED BY <1>3, StaleType DEF RowsUntold

(* The rows of an import are records of its object.                        *)
LEMMA ImportRows ==
  ASSUME NEW c \in Client, NEW o \in Object, ImportApplied(c, o)
  PROVE  \E new, old \in SUBSET Rec :
           /\ \A r \in new : state[r] = "absent"
           /\ \E b \in [new \cup old -> Bag], fresh \in SUBSET new,
                 changed \in SUBSET (new \cup old) : RowsApplied(c, new, old, b, fresh, changed)
<1>1. PICK new \in SUBSET {r \in Rec : ObjectOf[r] = o /\ state[r] = "absent"},
           old \in SUBSET {r \in RecordsOf(o) : state[r] = "live"} :
        \E b \in [new \cup old -> Bag], fresh \in SUBSET new, changed \in SUBSET (new \cup old) :
          RowsApplied(c, new, old, b, fresh, changed)
  BY DEF ImportApplied
<1>2. new \in SUBSET Rec /\ old \in SUBSET Rec /\ \A r \in new : state[r] = "absent"
  BY DEF RecordsOf
<1> QED BY <1>1, <1>2

LEMMA ImportType == ASSUME ApiTypeOK, NEW c \in Client, ImportStep(c) PROVE ApiTypeOK'
<1>0. EarsOK /\ TableOK /\ AtOK /\ ReplyOK
  BY ApiParts
<1>1. ASSUME NEW o \in Object, ImportApplied(c, o) PROVE ApiTypeOK'
  <2>0. PICK new \in SUBSET Rec, old \in SUBSET Rec :
          \E b \in [new \cup old -> Bag], fresh \in SUBSET new, changed \in SUBSET (new \cup old) :
            RowsApplied(c, new, old, b, fresh, changed)
    BY <1>1, ImportRows
  <2>1. PICK b \in [new \cup old -> Bag], fresh \in SUBSET new, changed \in SUBSET (new \cup old) :
          RowsApplied(c, new, old, b, fresh, changed)
    BY <2>0
  <2>2. [op |-> "import", fresh |-> fresh, changed |-> changed] \in Handling
    BY DEF Handling
  <2>3. /\ bag' \in [Rec -> Bag] /\ state' \in [Rec -> {"absent", "live", "trash", "gone"}]
    BY <1>0, <2>1 DEF TableOK, RowsApplied
  <2>4. TableOK'
    BY <1>0, <1>1, <2>3, ApiConstants DEF TableOK, ImportApplied, ApiConstants
  <2>5. EarsOK'
    <3> DEFINE told == {r \in fresh \cup changed : Quiet(r)}
               moved == new \cup {r \in old : b[r].stage # bag[r].stage}
    <3>1. /\ (staleBag \cup (new \cup old)) \ told \in SUBSET Rec
          /\ (staleStage \cup moved) \ (told \cap fresh) \in SUBSET Rec
      BY <1>0 DEF EarsOK
    <3>2. Stale((staleBag \cup (new \cup old)) \ told,
                (staleStage \cup moved) \ (told \cap fresh))
      BY <2>1 DEF RowsApplied
    <3> HIDE DEF told, moved
    <3> QED BY <1>0, <3>1, <3>2, StaleType
  <2> QED BY <1>0, <2>1, <2>2, <2>4, <2>5, GoType, ApiParts DEF RowsApplied
<1>2. ASSUME NEW r \in Rec, ImportTells(c, r) PROVE ApiTypeOK'
  <2>1. at[c] \in Importer
    BY <1>0, <1>2, ShapeOf DEF ImportTells, Importing, AtOK
  <2>2. /\ [at[c] EXCEPT !.fresh = @ \ {r}] \in Handling
        /\ [at[c] EXCEPT !.changed = @ \ {r}] \in Handling
    BY <2>1, Shapes DEF Importer
  <2>3. PICK h \in Handling : Go(c, h)
    BY <1>2, <2>2 DEF ImportTells
  <2>4. TableOK'
    BY <1>0, <1>2 DEF ImportTells, table, TableOK
  <2>5. EarsOK'
    <3>1. CASE Found(r)
      <4> DEFINE s == IF at[c].fresh # {} THEN bag[r].stage ELSE None
      <4>1. bag[r] \in Bag \cup {None} /\ s \in StageId \cup {None}
        BY <1>0 DEF TableOK, Bag
      <4>2. Emit(r, bag[r], s)
        BY <1>2, <3>1 DEF ImportTells
      <4> HIDE DEF s
      <4> QED BY <1>0, <4>1, <4>2, EarsType
    <3>2. CASE ~Found(r)
      BY <1>0, <1>2, <3>2 DEF ImportTells, ears, EarsOK
    <3> QED BY <3>1, <3>2
  <2> QED BY <1>0, <2>3, <2>4, <2>5, GoType, ApiParts
<1>3. ASSUME ImportTold(c) PROVE ApiTypeOK'
  BY <1>0, <1>3, ReplyType, ApiParts DEF ImportTold, table, ears, EarsOK, TableOK
<1>4. ASSUME ImportFails(c) PROVE ApiTypeOK'
  <2>1. EarsOK' /\ TableOK'
    BY <1>0, <1>4, RowsUntoldType DEF ImportFails, table, TableOK
  <2>2. AtOK' /\ ReplyOK'
    BY <1>0, <1>4, RestType, EndsType DEF ImportFails, AtOK
  <2> QED BY <2>1, <2>2, ApiParts
<1> QED BY <1>1, <1>2, <1>3, <1>4 DEF ImportStep

LEMMA SilentWriteType ==
  ASSUME ApiTypeOK, NEW o, NEW held \in SUBSET Rec, NEW field \in {"name", "stage"}, NEW value,
         \A b \in Bag : [b EXCEPT ![field] = value] \in Bag,
         SilentWrite(o, held, field, value)
  PROVE  ApiTypeOK'
<1>0. EarsOK /\ TableOK /\ AtOK /\ ReplyOK
  BY ApiParts
<1>1. EarsOK'
  <2>1. /\ staleBag \cup held \in SUBSET Rec
        /\ (IF field = "stage" THEN staleStage \cup held ELSE staleStage) \in SUBSET Rec
    BY <1>0 DEF EarsOK
  <2> QED BY <1>0, <2>1, StaleType DEF SilentWrite
<1>2. bag' \in [Rec -> Bag]
  BY <1>0 DEF SilentWrite, TableOK
<1>3. TableOK' /\ AtOK' /\ ReplyOK'
  BY <1>0, <1>2, ApiConstants DEF SilentWrite, TableOK, AtOK, ReplyOK, NoReply, ApiConstants
<1> QED BY <1>1, <1>3, ApiParts

(* An option's migration and a field's deletion are such writes.           *)
LEMMA SilentWriters ==
  ASSUME NEW o \in Object,
         \/ \E s, t \in StageId : OptionMigrated(o, s, t)
         \/ \E field \in {"name", "stage"} : FieldDeleted(o, field)
  PROVE  \E value : \E held \in SUBSET Rec, field \in {"name", "stage"} :
           /\ SilentWrite(o, held, field, value)
           /\ \A b \in Bag : [b EXCEPT ![field] = value] \in Bag
<1>1. ASSUME NEW s \in StageId, NEW t \in StageId, OptionMigrated(o, s, t)
      PROVE  \E held \in SUBSET Rec :
               /\ SilentWrite(o, held, "stage", t)
               /\ \A b \in Bag : [b EXCEPT !["stage"] = t] \in Bag
  <2>1. {r \in RecordsOf(o) : bag[r].stage = s} \in SUBSET Rec
    BY DEF RecordsOf
  <2>2. \A b \in Bag : [b EXCEPT !["stage"] = t] \in Bag
    BY DEF Bag
  <2> QED BY <1>1, <2>1, <2>2 DEF OptionMigrated
<1>2. ASSUME NEW field \in {"name", "stage"}, FieldDeleted(o, field)
      PROVE  \E held \in SUBSET Rec :
               /\ SilentWrite(o, held, field, NoBag[field])
               /\ \A b \in Bag : [b EXCEPT ![field] = NoBag[field]] \in Bag
  <2>1. {r \in RecordsOf(o) : bag[r][field] # NoBag[field]} \in SUBSET Rec
    BY DEF RecordsOf
  <2>2. NoBag \in Bag
    BY ApiConstants DEF ApiConstants, NoBag
  <2>3. \A b \in Bag : [b EXCEPT ![field] = NoBag[field]] \in Bag
    <3>1. CASE field = "name"
      BY <2>2, <3>1 DEF Bag
    <3>2. CASE field = "stage"
      BY <2>2, <3>2 DEF Bag
    <3> QED BY <3>1, <3>2
  <2> QED BY <1>2, <2>1, <2>3 DEF FieldDeleted
<1> QED BY <1>1, <1>2

LEMMA ApiNextType == ApiTypeOK /\ [ApiNext]_apiVars => ApiTypeOK'
<1> SUFFICES ASSUME ApiTypeOK, [ApiNext]_apiVars PROVE ApiTypeOK'
  OBVIOUS
<1>0. EarsOK /\ TableOK /\ AtOK /\ ReplyOK
  BY ApiParts
<1>1. ASSUME NEW c \in Client, Dropped(c) PROVE ApiTypeOK'
  <2>1. AtOK' /\ ReplyOK' /\ TableOK'
    BY <1>0, <1>1, RestType DEF Dropped, AtOK, ReplyOK, TableOK, NoReply, table
  <2>2. EarsOK'
    BY <1>0, <1>1, GiveUpType, RowsUntoldType DEF Dropped, ears, EarsOK
  <2> QED BY <2>1, <2>2, ApiParts
<1>2. ASSUME NEW o \in Object, ObjectDeleted(o) PROVE ApiTypeOK'
  <2>1. TableOK' /\ EarsOK'
    BY <1>0, <1>2, ForgetType DEF ObjectDeleted, TableOK, ears, EarsOK
  <2>2. AtOK' /\ ReplyOK'
    BY <1>0, <1>2, AlarmedType DEF ObjectDeleted, AtOK, ReplyOK, NoReply
  <2> QED BY <2>1, <2>2, ApiParts
<1>3. ASSUME NEW o \in Object,
             \/ \E s, t \in StageId : OptionMigrated(o, s, t)
             \/ \E field \in {"name", "stage"} : FieldDeleted(o, field)
      PROVE  ApiTypeOK'
  BY <1>3, SilentWriters, SilentWriteType
<1>4. CASE UNCHANGED apiVars
  BY <1>4 DEF apiVars, table, ears, ApiTypeOK
<1> QED BY <1>1, <1>2, <1>3, <1>4, ReadType, WriteType, MergeType, TellType,
       ImportType DEF ApiNext

LEMMA ApiInitType == ApiInit => ApiTypeOK
<1>1. NoBag \in Bag
  BY ApiConstants DEF ApiConstants, NoBag
<1> QED BY <1>1, ApiConstants DEF ApiInit, ApiTypeOK, ApiConstants, Handling, NoReply

(* Every handler between two of its locks is one of the handlers the API   *)
(* has, and the tables, the answers and the events keep their types.       *)
THEOREM ApiTypes == ApiSpec => []ApiTypeOK
  BY ApiInitType, ApiNextType, PTL DEF ApiSpec

(***************************************************************************)
(* Answers                                                                 *)
(***************************************************************************)
(* What a handler has looked at is still there unless it was alarmed.      *)
Alive(S, r) == S[r] \in {"live", "trash"}
Sound(h, K, S) ==
  /\ h \in OnObject /\ ~h.met => h.obj \in K
  /\ (h \in OnRecord \/ h \in OnTwo) /\ ~h.met => Alive(S, h.rec)
  /\ h \in OnTwo /\ h.op = "merge" /\ ~h.met => Alive(S, h.other)
AllSound(A, K, S) == \A d \in Client : Sound(A[d], K, S)
HonestInv == ApiTypeOK /\ HonestAnswers /\ AllSound(at, known, state)

(* A handler that sends news, describes a record or rests looks at nothing *)
(* it could lose.                                                          *)
LEMMA Carefree ==
  ASSUME NEW h \in Handling,
         h = AtRest \/ h \in Describing \/ h \in Teller \/ h \in Importer, NEW K, NEW S
  PROVE  Sound(h, K, S)
<1>1. h \notin OnObject /\ h \notin OnRecord /\ h \notin OnTwo
  BY ShapeOf, Shapes DEF OnObject, OnRecord, OnTwo, ObjectOp, RecordOp
<1> QED BY <1>1 DEF Sound

(* A step that removes nothing and moves one handler.                      *)
LEMMA OneMoves ==
  ASSUME AllSound(at, known, state), NEW c \in Client, NEW h, Sound(h, known', state'),
         AtOK, at' = [at EXCEPT ![c] = h], known \subseteq known',
         \A r \in Rec : Alive(state, r) => Alive(state', r)
  PROVE  AllSound(at', known', state')
<1> SUFFICES ASSUME NEW d \in Client PROVE Sound(at'[d], known', state')
  BY DEF AllSound
<1>1. CASE d = c
  BY <1>1 DEF AtOK
<1>2. CASE d # c
  <2>1. at'[d] = at[d] /\ Sound(at[d], known, state) /\ at[d] \in Handling
    BY <1>2 DEF AtOK, AllSound
  <2>2. /\ at[d] \in OnRecord \/ at[d] \in OnTwo => at[d].rec \in Rec
        /\ at[d] \in OnTwo => at[d].other \in Rec
    BY DEF OnRecord, OnTwo
  <2> QED BY <2>1, <2>2 DEF Sound
<1> QED BY <1>1, <1>2

(* A step that removes objects and records alarms whoever looked at them.  *)
LEMMA AllAlarmed ==
  ASSUME AllSound(at, known, state), AtOK, NEW objs, NEW recs, NEW K, NEW S,
         known \ objs \subseteq K,
         \A r \in Rec \ recs : Alive(state, r) => Alive(S, r)
  PROVE  AllSound(Alarmed(objs, recs), K, S)
<1> SUFFICES ASSUME NEW d \in Client PROVE Sound(Alarmed(objs, recs)[d], K, S)
  BY DEF AllSound
<1> DEFINE h == Alarmed(objs, recs)[d]
<1>1. \/ h = at[d] /\ ("met" \in DOMAIN at[d] => ~Touches(at[d], objs, recs))
      \/ h.met
  BY AlarmedType
<1>2. Sound(at[d], known, state) /\ at[d] \in Handling
  BY DEF AllSound, AtOK
<1> HIDE DEF h
<1>3. CASE h.met
  BY <1>3 DEF Sound, h
<1>4. CASE h = at[d] /\ ("met" \in DOMAIN at[d] => ~Touches(at[d], objs, recs))
  <2>1. at[d] \in OnObject => at[d].obj \notin objs
    BY <1>2, <1>4, ShapeOf DEF Touches
  <2>2. at[d] \in OnRecord => at[d].rec \in Rec \ recs
    BY <1>2, <1>4, ShapeOf DEF Touches, OnRecord
  <2>3. at[d] \in OnTwo => at[d].rec \in Rec \ recs /\ at[d].other \in Rec \ recs
    BY <1>2, <1>4, ShapeOf DEF Touches, OnTwo
  <2> QED BY <1>2, <1>4, <2>1, <2>2, <2>3 DEF Sound, h
<1> QED BY <1>1, <1>3, <1>4 DEF h

(* An answer is honest when it is no fault, or the handler was alarmed, or *)
(* it is an agent's about a write that is in.                              *)
LEMMA HonestEnds ==
  ASSUME NEW status, NEW met, NEW saved, NEW tool, Ends(status, met, saved, tool),
         status \in {"empty", "no_status"} => met,
         status = "internal" => met \/ (tool /\ saved)
  PROVE  HonestAnswers'
  BY DEF Ends, HonestAnswers, NoReply, Fault
LEMMA HonestSilence == ASSUME reply' = NoReply PROVE HonestAnswers'
  BY DEF HonestAnswers, NoReply

(* A handler that loses nothing and ends, or goes on.                      *)
LEMMA HonestReply ==
  ASSUME HonestInv, NEW c \in Client, NEW status, NEW saved, Reply(c, status, saved),
         status \in {"empty", "no_status", "internal"} => Met(c),
         UNCHANGED known, \A r \in Rec : Alive(state, r) => Alive(state', r)
  PROVE  HonestAnswers' /\ AllSound(at', known', state')
<1>1. Sound(AtRest, known', state')
  BY Carefree DEF Handling
<1>2. AllSound(at', known', state')
  BY <1>1, OneMoves, ApiParts DEF HonestInv, Reply
<1>3. HonestAnswers'
  BY HonestEnds DEF Reply
<1> QED BY <1>2, <1>3
LEMMA HonestGo ==
  ASSUME HonestInv, NEW c \in Client, NEW h, Go(c, h), Sound(h, known', state'),
         UNCHANGED known, \A r \in Rec : Alive(state, r) => Alive(state', r)
  PROVE  HonestAnswers' /\ AllSound(at', known', state')
<1>1. AllSound(at', known', state')
  BY OneMoves, ApiParts DEF HonestInv, Go
<1> QED BY <1>1, HonestSilence DEF Go

(* Met is the mark of a handler that looked at something.                  *)
LEMMA MetIs ==
  ASSUME AtOK, NEW c \in Client, at[c] \in OnObject \/ at[c] \in OnRecord \/ at[c] \in OnTwo
  PROVE  Met(c) <=> at[c].met
  BY Shapes DEF Met

LEMMA ReadHonest == 
  ASSUME HonestInv, NEW c \in Client, ReadStep(c) PROVE HonestAnswers' /\ AllSound(at', known', state')
<1>0. AtOK /\ Sound(at[c], known, state) /\ at[c] \in Handling
  BY ApiParts DEF HonestInv, AllSound, AtOK
<1>1. UNCHANGED <<known, state>>
  BY DEF ReadStep, ResolveObject, RequireRecord, GetRecord, PageOfObject, ValidateValues,
         ReportOnObject, PageOfRecord, NoteAdded, ToolLogActivity, DescribeRecord, table
<1> DEFINE Good == HonestAnswers' /\ AllSound(at', known', state')
<1>2. ASSUME NEW h, Go(c, h), Sound(h, known, state) PROVE Good
  BY <1>1, <1>2, HonestGo
<1>3. ASSUME NEW status, NEW saved, Reply(c, status, saved),
             status \in {"empty", "no_status", "internal"} => Met(c)
      PROVE  Good
  BY <1>1, <1>3, HonestReply
<1>4. \A r \in Rec : Alive(state, r) <=> Found(r)
  BY DEF Alive, Found
<1> HIDE DEF Good
<1>5. ASSUME NEW o \in Object, NEW op \in ObjectOp, ResolveObject(c, op, o) PROVE Good
  <2> DEFINE h == [op |-> op, obj |-> o, met |-> FALSE]
  <2>1. h \in OnObject /\ h.op # "merge" /\ h.obj = o
    BY DEF OnObject, ObjectOp
  <2>2. h \notin OnRecord /\ h \notin OnTwo
    BY Shapes
  <2>3. ASSUME o \in known PROVE Sound(h, known, state)
    BY <2>1, <2>2, <2>3 DEF Sound
  <2> QED BY <1>2, <1>3, <1>5, <2>3 DEF ResolveObject
<1>6. ASSUME NEW r \in Rec, NEW op \in RecordOp, RequireRecord(c, op, r) PROVE Good
  <2> DEFINE h == [op |-> op, rec |-> r, met |-> FALSE]
  <2>1. h \in OnRecord /\ h.rec = r
    BY DEF OnRecord
  <2>2. h \notin OnObject /\ h \notin OnTwo
    BY Shapes
  <2>3. ASSUME Found(r) PROVE Sound(h, known, state)
    BY <1>4, <2>1, <2>2, <2>3 DEF Sound
  <2> QED BY <1>2, <1>3, <1>6, <2>3 DEF RequireRecord
<1>7. ASSUME NEW r \in Rec, ToolLogActivity(c, r) PROVE Good
  <2> DEFINE h == [op |-> "describe", rec |-> r]
  <2>1. h \in Handling /\ h \in Describing
    BY DEF Handling, Describing
  <2>2. Sound(h, known, state)
    BY <2>1, Carefree
  <2> QED BY <1>2, <1>3, <1>7, <2>2 DEF ToolLogActivity
<1>8. ASSUME DescribeRecord(c) PROVE Good
  <2>1. PICK status \in {"ok", "internal"} : Ends(status, FALSE, TRUE, TRUE)
    BY <1>8 DEF DescribeRecord
  <2>2. HonestAnswers'
    BY <2>1, HonestEnds
  <2>3. Sound(AtRest, known', state')
    BY Carefree DEF Handling
  <2>4. AllSound(at', known', state')
    BY <1>0, <1>1, <1>8, <2>3, OneMoves DEF DescribeRecord, HonestInv
  <2> QED BY <2>2, <2>4 DEF Good
<1>9. ASSUME \E r \in Rec : GetRecord(c, r) PROVE Good
  BY <1>3, <1>9 DEF GetRecord
<1>10. ASSUME PageOfObject(c) \/ ValidateValues(c) \/ ReportOnObject(c) PROVE Good
  <2>1. at[c] \in OnObject
    BY <1>0, <1>10, ShapeOf DEF PageOfObject, ValidateValues, ReportOnObject
  <2>2. at[c].obj \notin known => Met(c)
    BY <1>0, <2>1, MetIs DEF Sound
  <2> QED BY <1>3, <1>10, <2>2 DEF PageOfObject, ValidateValues, ReportOnObject
<1>11. ASSUME PageOfRecord(c) \/ NoteAdded(c) PROVE Good
  <2>1. at[c] \in OnRecord \/ at[c] \in OnTwo \/ at[c] \in Describing
    BY <1>0, <1>11, ShapeOf DEF PageOfRecord, NoteAdded
  <2>2. at[c] \in OnRecord /\ at[c].rec \in Rec
    BY <1>11, <2>1 DEF PageOfRecord, NoteAdded, OnTwo, Describing, OnRecord
  <2>3. ~Found(at[c].rec) => Met(c)
    BY <1>0, <1>4, <2>2, MetIs DEF Sound
  <2> QED BY <1>3, <1>11, <2>3 DEF PageOfRecord, NoteAdded
<1> QED BY <1>5, <1>6, <1>7, <1>8, <1>9, <1>10, <1>11 DEF ReadStep, Good

LEMMA TellHonest ==
  ASSUME HonestInv, NEW c \in Client, TellStep(c), ApiTypeOK'
  PROVE  HonestAnswers' /\ AllSound(at', known', state')
<1>0. AtOK /\ AtOK'
  BY ApiParts DEF HonestInv
<1>1. UNCHANGED <<known, state>>
  BY DEF TellStep, RecordCreated, LookUp, LookUpFails, RecordUpdated, DealStageChanged, table
<1>2. HonestAnswers'
  <2>1. CASE RecordCreated(c) \/ DealStageChanged(c)
    BY <2>1, HonestEnds DEF RecordCreated, DealStageChanged, Reply
  <2>2. CASE LookUp(c) \/ RecordUpdated(c)
    <3>1. reply' = NoReply \/ Ends("ok", Met(c), TRUE, FALSE)
      BY <2>2 DEF LookUp, RecordUpdated, Go, Reply
    <3> QED BY <3>1, HonestEnds, HonestSilence
  <2>3. CASE LookUpFails(c)
    <3> DEFINE tool == at[c].news.tool
    <3>1. tool \in BOOLEAN
      BY <1>0, <2>3, ShapeOf, NewsParts DEF LookUpFails, Telling, AtOK
    <3>2. Ends(IF tool THEN "internal" ELSE "ok", FALSE, TRUE, tool)
      BY <2>3 DEF LookUpFails
    <3> HIDE DEF tool
    <3>3. (IF tool THEN "internal" ELSE "ok") = "internal" => tool
      BY <3>1
    <3>4. (IF tool THEN "internal" ELSE "ok") \notin {"empty", "no_status"}
      BY <3>1
    <3> QED BY <3>2, <3>3, <3>4, HonestEnds
  <2> QED BY <2>1, <2>2, <2>3 DEF TellStep
<1>3. PICK h : at' = [at EXCEPT ![c] = h] /\ (h = AtRest \/ "news" \in DOMAIN h)
  <2>1. \A n : "news" \in DOMAIN [op |-> "updated", news |-> n]
    OBVIOUS
  <2>2. \A n : "news" \in DOMAIN [op |-> "staged", news |-> n]
    OBVIOUS
  <2> QED BY <2>1, <2>2 DEF TellStep, RecordCreated, LookUp, LookUpFails, RecordUpdated,
                            DealStageChanged, Go, Reply
<1>4. h \in Handling
  BY <1>0, <1>3 DEF AtOK
<1>5. Sound(h, known', state')
  BY <1>3, <1>4, Carefree, ShapeOf
<1> QED BY <1>0, <1>1, <1>2, <1>3, <1>5, OneMoves DEF HonestInv

LEMMA WriteHonest ==
  ASSUME HonestInv, NEW c \in Client, WriteStep(c)
  PROVE  HonestAnswers' /\ AllSound(at', known', state')
<1>0. AtOK /\ TableOK /\ Sound(at[c], known, state) /\ at[c] \in Handling
  BY ApiParts DEF HonestInv, AllSound, AtOK
<1> DEFINE Good == HonestAnswers' /\ AllSound(at', known', state')
           Kept == \A r \in Rec : Alive(state, r) => Alive(state', r)
<1>2. ASSUME NEW n \in News, NEW op \in {"created", "look_up"}, Go(c, [op |-> op, news |-> n]),
             UNCHANGED known, Kept
      PROVE  Good
  <2>1. [op |-> op, news |-> n] \in Handling /\ [op |-> op, news |-> n] \in Teller
    BY DEF Handling, Teller
  <2>2. Sound([op |-> op, news |-> n], known', state')
    BY <2>1, Carefree
  <2> QED BY <1>2, <2>2, HonestGo
<1>3. ASSUME NEW status, Reply(c, status, FALSE), status = "internal" => Met(c),
             status \notin {"empty", "no_status"}, UNCHANGED known, Kept
      PROVE  Good
  BY <1>3, HonestReply
<1>4. ASSUME UNCHANGED state PROVE Kept
  BY <1>4
<1> HIDE DEF Good
<1>5. ASSUME CreateRecordWithValues(c) PROVE Good
  <2>1. at[c] \in OnObject
    BY <1>0, <1>5, ShapeOf DEF CreateRecordWithValues
  <2>2. at[c].obj \notin known => Met(c)
    BY <1>0, <2>1, MetIs DEF Sound
  <2>3. CASE at[c].obj \notin known /\ Reply(c, "internal", FALSE) /\ UNCHANGED <<table, ears>>
    BY <1>3, <1>4, <2>2, <2>3 DEF table
  <2>4. CASE Reply(c, "rejected", FALSE) /\ UNCHANGED <<table, ears>>
    BY <1>3, <1>4, <2>4 DEF table
  <2>5. ASSUME NEW r \in Rec, NEW b \in Bag, UNCHANGED known,
               state' = [state EXCEPT ![r] = "live"],
               Go(c, [op |-> "created",
                      news |-> [rec |-> r, bag |-> b, moved |-> FALSE, tool |-> FALSE]])
        PROVE  Good
    <3>1. Kept
      BY <1>0, <2>5 DEF TableOK, Alive
    <3>2. [rec |-> r, bag |-> b, moved |-> FALSE, tool |-> FALSE] \in News
      BY DEF News
    <3> QED BY <1>2, <2>5, <3>1, <3>2
  <2> QED BY <1>5, <2>3, <2>4, <2>5 DEF CreateRecordWithValues
<1>6. ASSUME NEW r \in Rec, NEW tool \in BOOLEAN, UpdateValues(c, r, tool) PROVE Good
  <2>1. CASE UNCHANGED <<table, ears>> /\ \E status \in {"not_found", "rejected", "ok"} : Reply(c, status, FALSE)
    BY <1>3, <1>4, <2>1 DEF table
  <2>2. ASSUME NEW b \in Bag, NEW moved \in BOOLEAN, UNCHANGED <<known, state>>,
               Go(c, [op |-> "look_up",
                      news |-> [rec |-> r, bag |-> b, moved |-> moved, tool |-> tool]])
        PROVE  Good
    <3>1. [rec |-> r, bag |-> b, moved |-> moved, tool |-> tool] \in News
      BY DEF News
    <3> QED BY <1>2, <1>4, <2>2, <3>1
  <2> QED BY <1>6, <2>1, <2>2 DEF UpdateValues
<1>7. ASSUME Trash(c) \/ Untrash(c) PROVE Good
  <2>1. Kept
    BY <1>0, <1>7 DEF TableOK, Alive, Trash, Untrash
  <2> QED BY <1>3, <1>7, <2>1 DEF Trash, Untrash
<1>8. ASSUME Purged(c) PROVE Good
  <2>1. HonestAnswers'
    BY <1>8, HonestEnds DEF Purged
  <2>2. AllSound(Alarmed({}, {at[c].rec}), known', state')
    <3>1. \A r \in Rec \ {at[c].rec} : Alive(state, r) => Alive(state', r)
      BY <1>8 DEF Purged, Forget, Alive
    <3> QED BY <1>0, <1>8, <3>1, AllAlarmed DEF Purged, HonestInv
  <2>3. AllSound(at', known', state')
    <3>1. Sound(AtRest, known', state')
      BY Carefree DEF Handling
    <3>2. Alarmed({}, {at[c].rec}) \in [Client -> Handling]
      BY <1>0, AlarmedType
    <3> QED BY <1>8, <2>2, <3>1, <3>2 DEF Purged, AllSound
  <2> QED BY <2>1, <2>3 DEF Good
<1> QED BY <1>5, <1>6, <1>7, <1>8 DEF WriteStep, PatchRecord, ToolUpdateRecord, Good

LEMMA MergeHonest ==
  ASSUME HonestInv, NEW c \in Client, MergeStep(c)
  PROVE  HonestAnswers' /\ AllSound(at', known', state')
<1>0. AtOK /\ TableOK /\ Sound(at[c], known, state) /\ at[c] \in Handling
  BY ApiParts DEF HonestInv, AllSound, AtOK
<1> DEFINE Good == HonestAnswers' /\ AllSound(at', known', state')
<1>2. ASSUME NEW h, Go(c, h), Sound(h, known, state), UNCHANGED table PROVE Good
  BY <1>2, HonestGo DEF table
<1>3. ASSUME NEW status, Reply(c, status, FALSE), status = "internal" => Met(c),
             status \notin {"empty", "no_status"}, UNCHANGED table
      PROVE  Good
  BY <1>3, HonestReply DEF table
<1>4. \A r : Alive(state, r) <=> Found(r)
  BY DEF Alive, Found
<1> HIDE DEF Good
<1>5. ASSUME NEW r \in Rec, NEW l \in Rec, CheckSurvivor(c, r, l) PROVE Good
  <2> DEFINE h == [op |-> "loser", rec |-> r, other |-> l, met |-> FALSE]
  <2>1. h \in OnTwo /\ h.rec = r /\ h.op # "merge"
    BY DEF OnTwo
  <2>2. h \notin OnObject
    BY Shapes
  <2>3. ASSUME Found(r) PROVE Sound(h, known, state)
    BY <1>4, <2>1, <2>2, <2>3 DEF Sound
  <2> QED BY <1>2, <1>3, <1>5, <2>3 DEF CheckSurvivor
<1>6. ASSUME CheckLoser(c) PROVE Good
  <2> DEFINE h == [at[c] EXCEPT !.op = "merge"]
  <2>1. at[c] \in OnTwo
    BY <1>0, <1>6, ShapeOf DEF CheckLoser
  <2>2. /\ h \in OnTwo /\ h.met = at[c].met /\ h.rec = at[c].rec /\ h.other = at[c].other
    BY <2>1 DEF OnTwo
  <2>3. h \notin OnObject
    BY <2>2, Shapes
  <2>4. ASSUME Found(at[c].other) PROVE Sound(h, known, state)
    <3> HIDE DEF h
    <3> QED BY <1>0, <1>4, <2>1, <2>2, <2>3, <2>4 DEF Sound
  <2> QED BY <1>2, <1>3, <1>6, <2>4 DEF CheckLoser
<1>7. ASSUME MergeFails(c) \/ PreviewMerge(c) PROVE Good
  <2>1. at[c] \in OnTwo /\ at[c].op = "merge"
    BY <1>0, <1>7, ShapeOf DEF MergeFails, PreviewMerge
  <2>2. ~Found(at[c].other) => Met(c)
    BY <1>0, <1>4, <2>1, MetIs DEF Sound
  <2> QED BY <1>3, <1>7, <2>2 DEF MergeFails, PreviewMerge
<1>8. ASSUME MergeRecords(c) PROVE Good
  <2>0. at[c].rec \in Rec /\ at[c].other \in Rec
    BY <1>0, <1>8, ShapeOf DEF MergeRecords, OnTwo
  <2> DEFINE l == at[c].other
             h(b) == [op |-> "look_up",
                      news |-> [rec |-> at[c].rec, bag |-> b, moved |-> FALSE, tool |-> FALSE]]
  <2>1. PICK b \in Bag, hard \in BOOLEAN :
          /\ state' = [state EXCEPT ![l] = IF hard THEN "gone" ELSE "trash"]
          /\ at' = [Alarmed({}, IF hard THEN {l} ELSE {}) EXCEPT ![c] = h(b)]
    BY <1>8 DEF MergeRecords
  <2>2. Sound(h(b), known', state')
    <3>1. h(b) \in Handling /\ h(b) \in Teller
      BY <2>0 DEF Handling, Teller, News
    <3> QED BY <3>1, Carefree
  <2> DEFINE lost == IF hard THEN {l} ELSE {}
  <2>3. AllSound(Alarmed({}, lost), known', state')
    <3>1. \A r \in Rec \ lost : Alive(state, r) => Alive(state', r)
      BY <1>0, <2>0, <2>1 DEF Alive, TableOK
    <3>2. known' = known
      BY <1>8 DEF MergeRecords
    <3> HIDE DEF lost
    <3> QED BY <1>0, <3>1, <3>2, AllAlarmed DEF HonestInv
  <2>4. AllSound(at', known', state')
    <3>1. Alarmed({}, lost) \in [Client -> Handling]
      BY <1>0, AlarmedType
    <3> HIDE DEF h
    <3> QED BY <2>1, <2>2, <2>3, <3>1 DEF AllSound
  <2>5. HonestAnswers'
    BY <1>8, HonestSilence DEF MergeRecords
  <2> QED BY <2>4, <2>5 DEF Good
<1> QED BY <1>5, <1>6, <1>7, <1>8 DEF MergeStep, Good

LEMMA ImportHonest ==
  ASSUME HonestInv, NEW c \in Client, ImportStep(c), ApiTypeOK'
  PROVE  HonestAnswers' /\ AllSound(at', known', state')
<1>0. AtOK /\ AtOK' /\ TableOK
  BY ApiParts DEF HonestInv
<1>1. known' = known /\ \A r \in Rec : Alive(state, r) => Alive(state', r)
  <2>1. CASE UNCHANGED table
    BY <2>1 DEF table
  <2>2. ASSUME NEW o \in Object, ImportApplied(c, o)
        PROVE  known' = known /\ \A r \in Rec : Alive(state, r) => Alive(state', r)
    <3>1. PICK new : state' = [r \in Rec |-> IF r \in new THEN "live" ELSE state[r]]
      BY <2>2, ImportRows DEF RowsApplied
    <3> QED BY <2>2, <3>1 DEF ImportApplied, Alive
  <2> QED BY <2>1, <2>2 DEF ImportStep, ImportTells, ImportTold, ImportFails
<1>2. HonestAnswers'
  <2>1. CASE reply' = NoReply
    BY <2>1, HonestSilence
  <2>2. CASE ImportTold(c)
    BY <2>2, HonestEnds DEF ImportTold, Reply
  <2>3. CASE ImportFails(c)
    BY <2>3, HonestEnds DEF ImportFails
  <2>4. ASSUME NEW o \in Object, ImportApplied(c, o) PROVE reply' = NoReply
    BY <2>4, ImportRows DEF RowsApplied, Go
  <2> QED BY <2>1, <2>2, <2>3, <2>4 DEF ImportStep, ImportTells, Go
<1>3. PICK h : at' = [at EXCEPT ![c] = h] /\ (h = AtRest \/ "fresh" \in DOMAIN h)
  <2>1. ASSUME NEW o \in Object, ImportApplied(c, o)
        PROVE  \E h : at' = [at EXCEPT ![c] = h] /\ "fresh" \in DOMAIN h
    <3>1. PICK fresh, changed : Go(c, [op |-> "import", fresh |-> fresh, changed |-> changed])
      BY <2>1, ImportRows DEF RowsApplied
    <3> DEFINE h == [op |-> "import", fresh |-> fresh, changed |-> changed]
    <3>2. at' = [at EXCEPT ![c] = h] /\ "fresh" \in DOMAIN h
      BY <3>1 DEF Go
    <3> HIDE DEF h
    <3> QED BY <3>2
  <2>2. ASSUME NEW r \in Rec, ImportTells(c, r)
        PROVE  \E h : at' = [at EXCEPT ![c] = h] /\ "fresh" \in DOMAIN h
    <3>1. at[c] \in Importer
      BY <1>0, <2>2, ShapeOf DEF ImportTells, Importing, AtOK
    <3>2. /\ "fresh" \in DOMAIN [at[c] EXCEPT !.fresh = @ \ {r}]
          /\ "fresh" \in DOMAIN [at[c] EXCEPT !.changed = @ \ {r}]
      BY <3>1, Shapes
    <3> QED BY <2>2, <3>2 DEF ImportTells, Go
  <2>3. CASE ImportTold(c) \/ ImportFails(c)
    BY <2>3 DEF ImportTold, ImportFails, Reply
  <2> QED BY <2>1, <2>2, <2>3 DEF ImportStep
<1>4. h \in Handling
  BY <1>0, <1>3 DEF AtOK
<1>5. Sound(h, known', state')
  BY <1>3, <1>4, Carefree, ShapeOf
<1> QED BY <1>0, <1>1, <1>2, <1>3, <1>5, OneMoves DEF HonestInv

LEMMA HonestNext == HonestInv /\ [ApiNext]_apiVars => HonestInv'
<1> SUFFICES ASSUME HonestInv, [ApiNext]_apiVars
             PROVE  HonestAnswers' /\ AllSound(at', known', state')
  BY ApiNextType DEF HonestInv
<1>0. ApiTypeOK' /\ AtOK /\ TableOK
  BY ApiNextType, ApiParts DEF HonestInv
<1>1. ASSUME NEW c \in Client, Dropped(c) PROVE HonestAnswers' /\ AllSound(at', known', state')
  <2>1. UNCHANGED <<known, state>> /\ at' = [at EXCEPT ![c] = AtRest] /\ reply' = NoReply
    BY <1>1 DEF Dropped, table
  <2>2. Sound(AtRest, known', state')
    BY Carefree DEF Handling
  <2>3. AllSound(at', known', state')
    BY <1>0, <2>1, <2>2, OneMoves DEF HonestInv
  <2> QED BY <2>1, <2>3, HonestSilence
<1>2. ASSUME NEW o \in Object, ObjectDeleted(o)
      PROVE  HonestAnswers' /\ AllSound(at', known', state')
  <2> DEFINE gone == RecordsOf(o)
  <2>1. \A r \in Rec \ gone : Alive(state, r) => Alive(state', r)
    BY <1>2 DEF ObjectDeleted, Forget, Alive
  <2>2. AllSound(Alarmed({o}, gone), known', state')
    <3>1. known \ {o} \subseteq known'
      BY <1>2 DEF ObjectDeleted
    <3> HIDE DEF gone
    <3> QED BY <1>0, <2>1, <3>1, AllAlarmed DEF HonestInv
  <2> QED BY <1>2, <2>2, HonestSilence DEF ObjectDeleted
<1>3. ASSUME NEW o \in Object,
             \/ \E s, t \in StageId : OptionMigrated(o, s, t)
             \/ \E field \in {"name", "stage"} : FieldDeleted(o, field)
      PROVE  HonestAnswers' /\ AllSound(at', known', state')
  <2>1. PICK held, field, value : SilentWrite(o, held, field, value)
    BY <1>3, SilentWriters
  <2> QED BY <2>1, HonestSilence DEF SilentWrite, HonestInv
<1>4. CASE UNCHANGED apiVars
  BY <1>4 DEF apiVars, table, HonestInv, HonestAnswers
<1> QED BY <1>0, <1>1, <1>2, <1>3, <1>4, ReadHonest, WriteHonest, MergeHonest, TellHonest,
       ImportHonest DEF ApiNext

LEMMA HonestInit == ApiInit => HonestInv
<1> SUFFICES ASSUME ApiInit PROVE HonestInv
  OBVIOUS
<1>1. AllSound(at, known, state)
  <2>1. Sound(AtRest, known, state)
    BY Carefree DEF Handling
  <2> QED BY <2>1 DEF ApiInit, AllSound
<1> QED BY <1>1, ApiInitType DEF HonestInv, ApiInit, HonestAnswers, NoReply

(* However the clients' locks interleave with deletes, purges and merges,  *)
(* an opaque error, an empty page or a missing status field is answered    *)
(* only by a handler whose object or record went between two of its locks, *)
(* or by an agent's handler after its write.                               *)
THEOREM AnswersAreHonest == ApiSpec => []HonestAnswers
<1>1. HonestInv => HonestAnswers
  BY DEF HonestInv
<1> QED BY <1>1, HonestInit, HonestNext, PTL DEF ApiSpec

(***************************************************************************)
(* What consumers hear                                                     *)
(***************************************************************************)
(* The news a handler still owes: of the bag, and of the stage.            *)
Speaker == Teller \cup Importer
DueBag(h, r) == \/ h \in Teller /\ h.news.rec = r /\ h.op # "staged"
                \/ h \in Importer /\ r \in h.fresh \cup h.changed
DueStage(h, r) == \/ /\ h \in Teller /\ h.news.rec = r
                     /\ h.op \in {"created", "staged"} \/ h.news.moved
                  \/ h \in Importer /\ r \in h.fresh

(* What a teller owes, and what was heard where nothing is due, is what    *)
(* the record holds.  An import tells what it reads.                       *)
BagKept(r, A, b, heard, stale) ==
  r \notin stale => /\ \A c \in Client : A[c] \in Teller /\ DueBag(A[c], r) => A[c].news.bag = b
                    /\ (\A c \in Client : ~DueBag(A[c], r)) => heard[r] = b
StageKept(r, A, s, heard, stale) ==
  r \notin stale => /\ \A c \in Client : A[c] \in Teller /\ DueStage(A[c], r)
                                         => A[c].news.bag.stage = s
                    /\ (\A c \in Client : ~DueStage(A[c], r)) => heard[r] = s
Kept == \A r \in Rec : Alive(state, r) =>
          /\ BagKept(r, at, bag[r], heardBag, staleBag)
          /\ StageKept(r, at, bag[r].stage, heardStage, staleStage)
StagedMoved == \A c \in Client : at[c] \in Teller /\ at[c].op = "staged" => at[c].news.moved
KeepInv == ApiTypeOK /\ Kept /\ StagedMoved

LEMMA SpeakerOps ==
  /\ AtRest \notin Speaker
  /\ \A h \in Teller : h \notin Importer /\ h.op \in {"created", "look_up", "updated", "staged"}
  /\ \A h \in Importer : h \notin Teller /\ h.op = "import"
<1>1. \A h : h \in Teller => DOMAIN h = {"op", "news"}
  BY Shapes
<1>2. \A h : h \in Importer => DOMAIN h = {"op", "fresh", "changed"}
  BY Shapes
<1>3. \A h : ~(h \in Teller /\ h \in Importer)
  BY <1>1, <1>2
<1> QED BY <1>1, <1>2, <1>3, Shapes DEF Teller, Importer, Speaker

(* Of a quiet record no handler owes news.                                 *)
LEMMA QuietOwes ==
  ASSUME AtOK, NEW r, Quiet(r), NEW d \in Client PROVE ~DueBag(at[d], r) /\ ~DueStage(at[d], r)
<1>1. /\ at[d] \in Teller => Telling(d)
      /\ at[d] \in Importer => Importing(d)
  BY ShapeOf DEF AtOK, Telling, Importing
<1> QED BY <1>1 DEF Quiet, DueBag, DueStage

(* Commits nobody has to hear of: the tellers stay what they are, and the  *)
(* records that are left keep their bags.                                  *)
LEMMA SilentKept ==
  ASSUME KeepInv, UNCHANGED ears,
         \A d \in Client : at'[d] \in Speaker \/ at[d] \in Speaker => at'[d] = at[d],
         \A r \in Rec : Alive(state', r) => Alive(state, r) /\ bag'[r] = bag[r]
  PROVE  Kept' /\ StagedMoved'
<1>1. StagedMoved'
  BY DEF KeepInv, StagedMoved, Speaker
<1>2. \A r, d : d \in Client => /\ DueBag(at'[d], r) <=> DueBag(at[d], r)
                                /\ DueStage(at'[d], r) <=> DueStage(at[d], r)
                                /\ DueBag(at[d], r) \/ DueStage(at[d], r) => at'[d] = at[d]
  BY DEF DueBag, DueStage, Speaker
<1>3. ASSUME NEW r \in Rec, Alive(state', r)
      PROVE  /\ BagKept(r, at', bag'[r], heardBag', staleBag')
             /\ StageKept(r, at', bag'[r].stage, heardStage', staleStage')
  <2>1. Alive(state, r) /\ bag'[r] = bag[r]
    BY <1>3
  <2>2. BagKept(r, at, bag[r], heardBag, staleBag) /\ StageKept(r, at, bag[r].stage, heardStage, staleStage)
    BY <2>1 DEF KeepInv, Kept
  <2> QED BY <1>2, <2>1, <2>2 DEF BagKept, StageKept, ears
<1> QED BY <1>1, <1>3 DEF Kept, Alive

(* A handler that commits a bag and owes the news of it.                   *)
LEMMA AnnouncedKept ==
  ASSUME KeepInv, NEW c \in Client, NEW r \in Rec, NEW b \in Bag, NEW h \in Teller,
         NEW changed \in BOOLEAN, NEW told \in BOOLEAN,
         at[c] \notin Speaker, at'[c] = h, h.news.rec = r, h.news.bag = b, h.op # "staged",
         DueStage(h, r) <=> told,
         \A d \in Client \ {c} : at'[d] \in Speaker \/ at[d] \in Speaker => at'[d] = at[d],
         bag' = [bag EXCEPT ![r] = b], Announce(r, changed, told),
         ~changed => bag[r].stage = b.stage,
         \A x \in Rec : Alive(state', x) => Alive(state, x) \/ (x = r /\ changed)
  PROVE  Kept' /\ StagedMoved'
<1>0. AtOK /\ TableOK /\ EarsOK
  BY ApiParts DEF KeepInv
<1>1. StagedMoved'
  BY DEF KeepInv, StagedMoved, Speaker
<1>2. ASSUME NEW x, NEW d \in Client \ {c}
      PROVE  /\ DueBag(at'[d], x) <=> DueBag(at[d], x)
             /\ DueStage(at'[d], x) <=> DueStage(at[d], x)
             /\ DueBag(at[d], x) \/ DueStage(at[d], x) => at'[d] = at[d]
  BY <1>2 DEF DueBag, DueStage, Speaker
<1>3. \A x : ~DueBag(at[c], x) /\ ~DueStage(at[c], x)
  BY DEF DueBag, DueStage, Speaker
<1>4. \A x : x # r => ~DueBag(at'[c], x) /\ ~DueStage(at'[c], x)
  BY SpeakerOps DEF DueBag, DueStage
<1>5. DueBag(at'[c], r)
  BY DEF DueBag
<1>6. Quiet(r) => \A d \in Client : ~DueBag(at[d], r) /\ ~DueStage(at[d], r)
  BY <1>0, QuietOwes
<1>7. ASSUME NEW x \in Rec, Alive(state', x)
      PROVE  /\ BagKept(x, at', bag'[x], heardBag', staleBag')
             /\ StageKept(x, at', bag'[x].stage, heardStage', staleStage')
  <2>1. CASE x # r
    <3>1. /\ x \in staleBag' <=> x \in staleBag
          /\ x \notin staleBag => heardBag'[x] = heardBag[x]
          /\ x \in staleStage' <=> x \in staleStage
          /\ x \notin staleStage => heardStage'[x] = heardStage[x]
      BY <2>1 DEF Announce, Stale
    <3>2. BagKept(x, at, bag[x], heardBag, staleBag) /\ StageKept(x, at, bag[x].stage, heardStage, staleStage)
      BY <1>7, <2>1 DEF KeepInv, Kept
    <3>3. bag'[x] = bag[x]
      BY <1>0, <2>1 DEF TableOK
    <3>4. \A d \in Client : /\ DueBag(at'[d], x) <=> DueBag(at[d], x)
                            /\ DueStage(at'[d], x) <=> DueStage(at[d], x)
                            /\ DueBag(at[d], x) \/ DueStage(at[d], x) => at'[d] = at[d]
      BY <1>2, <1>3, <1>4, <2>1
    <3>5. BagKept(x, at', bag'[x], heardBag', staleBag')
      BY <3>1, <3>2, <3>3, <3>4 DEF BagKept
    <3>6. StageKept(x, at', bag'[x].stage, heardStage', staleStage')
      BY <3>1, <3>2, <3>3, <3>4 DEF StageKept
    <3> QED BY <3>5, <3>6
  <2>2. CASE x = r
    <3>0. bag'[r] = b
      BY <1>0 DEF TableOK
    <3>1. BagKept(r, at', b, heardBag', staleBag')
      <4>1. CASE Quiet(r)
        BY <1>2, <1>5, <1>6, <4>1 DEF BagKept
      <4>2. CASE ~Quiet(r)
        BY <4>2 DEF Announce, Stale, BagKept
      <4> QED BY <4>1, <4>2
    <3>2. StageKept(r, at', b.stage, heardStage', staleStage')
      <4>1. CASE Quiet(r) /\ told
        BY <1>2, <1>6, <4>1 DEF StageKept
      <4>2. CASE ~(Quiet(r) /\ told) /\ (changed \/ told)
        <5>1. r \in staleStage'
          BY <4>2 DEF Announce, Stale
        <5> QED BY <5>1 DEF StageKept
      <4>3. CASE ~changed /\ ~told
        <5>1. StageKept(r, at, b.stage, heardStage, staleStage)
          BY <1>7, <2>2, <4>3 DEF KeepInv, Kept
        <5>2. staleStage' = staleStage /\ (r \notin staleStage => heardStage'[r] = heardStage[r])
          BY <4>3 DEF Announce, Stale
        <5>3. ~DueStage(at'[c], r)
          BY <4>3
        <5> QED BY <1>2, <1>3, <5>1, <5>2, <5>3 DEF StageKept
      <4> QED BY <4>1, <4>2, <4>3
    <3> QED BY <2>2, <3>0, <3>1, <3>2
  <2> QED BY <2>1, <2>2
<1> QED BY <1>1, <1>7 DEF Kept, Alive

(* A handler that tells, or gives up telling, what it owes.                *)
LEMMA ToldKept ==
  ASSUME KeepInv, NEW c \in Client, Telling(c), NEW h, at' = [at EXCEPT ![c] = h], UNCHANGED table,
         h \notin Speaker \/ (h \in Teller /\ h.news.rec = at[c].news.rec
                             /\ h.news.bag = at[c].news.bag
                             /\ (h.op = "staged" => h.news.moved)),
         NEW b \in {None, at[c].news.bag}, NEW s \in {None, at[c].news.bag.stage},
         Emit(at[c].news.rec, b, s),
         b = None => (DueBag(h, at[c].news.rec) <=> DueBag(at[c], at[c].news.rec)),
         b # None => DueBag(at[c], at[c].news.rec) /\ ~DueBag(h, at[c].news.rec),
         s = None => (DueStage(h, at[c].news.rec) <=> DueStage(at[c], at[c].news.rec)),
         s # None => DueStage(at[c], at[c].news.rec) /\ ~DueStage(h, at[c].news.rec)
  PROVE  Kept' /\ StagedMoved'
<1>0. AtOK /\ TableOK /\ EarsOK
  BY ApiParts DEF KeepInv
<1> DEFINE n == at[c].news
<1>1. n.rec \in Rec /\ n.bag \in Bag /\ n.bag.stage \in StageId /\ at[c] \in Teller
  BY <1>0, NewsParts
<1>2. at'[c] = h /\ \A d \in Client \ {c} : at'[d] = at[d]
  BY <1>0 DEF AtOK
<1>3. StagedMoved'
  BY <1>2 DEF KeepInv, StagedMoved, Speaker
<1>4. \A x : x # n.rec => /\ ~DueBag(h, x) /\ ~DueStage(h, x)
                          /\ ~DueBag(at[c], x) /\ ~DueStage(at[c], x)
  BY <1>1, SpeakerOps DEF DueBag, DueStage, Speaker
<1>5. DueBag(h, n.rec) \/ DueStage(h, n.rec) => h.news.bag = n.bag
  BY SpeakerOps DEF DueBag, DueStage, Speaker
<1>6. ASSUME NEW x \in Rec, Alive(state, x)
      PROVE  /\ BagKept(x, at', bag[x], heardBag', staleBag')
             /\ StageKept(x, at', bag[x].stage, heardStage', staleStage')
  <2>1. BagKept(x, at, bag[x], heardBag, staleBag) /\ StageKept(x, at, bag[x].stage, heardStage, staleStage)
    BY <1>6 DEF KeepInv, Kept
  <2>2. CASE x # n.rec
    <3>1. /\ x \in staleBag' <=> x \in staleBag
          /\ x \notin staleBag => heardBag'[x] = heardBag[x]
          /\ x \in staleStage' <=> x \in staleStage
          /\ x \notin staleStage => heardStage'[x] = heardStage[x]
      BY <1>0, <2>2 DEF Emit, Deliver, Lose, Stale, EarsOK
    <3> QED BY <1>2, <1>4, <2>1, <2>2, <3>1 DEF BagKept, StageKept
  <2>3. CASE x = n.rec
    <3>1. BagKept(x, at', bag[x], heardBag', staleBag')
      <4>1. CASE b = None
        <5>1. staleBag' = staleBag /\ (x \notin staleBag => heardBag'[x] = heardBag[x])
          BY <1>0, <4>1 DEF Emit, Deliver, Lose, Stale, EarsOK
        <5> QED BY <1>1, <1>2, <1>5, <2>1, <2>3, <4>1, <5>1 DEF BagKept
      <4>2. CASE b # None /\ x \in staleBag'
        BY <4>2 DEF BagKept
      <4>3. CASE b # None /\ x \notin staleBag'
        <5>1. b = n.bag /\ DueBag(at[c], x) /\ ~DueBag(h, x)
          BY <2>3, <4>3
        <5>2. staleBag' = staleBag /\ heardBag'[x] = n.bag
          BY <1>0, <2>3, <4>3, <5>1 DEF Emit, Deliver, Lose, Stale, EarsOK
        <5>3. n.bag = bag[x]
          BY <1>1, <2>1, <4>3, <5>1, <5>2 DEF BagKept
        <5> QED BY <1>2, <2>1, <5>1, <5>2, <5>3 DEF BagKept
      <4> QED BY <4>1, <4>2, <4>3
    <3>2. StageKept(x, at', bag[x].stage, heardStage', staleStage')
      <4>1. CASE s = None
        <5>1. staleStage' = staleStage /\ (x \notin staleStage => heardStage'[x] = heardStage[x])
          BY <1>0, <4>1 DEF Emit, Deliver, Lose, Stale, EarsOK
        <5> QED BY <1>1, <1>2, <1>5, <2>1, <2>3, <4>1, <5>1 DEF StageKept
      <4>2. CASE s # None /\ x \in staleStage'
        BY <4>2 DEF StageKept
      <4>3. CASE s # None /\ x \notin staleStage'
        <5>1. s = n.bag.stage /\ DueStage(at[c], x) /\ ~DueStage(h, x)
          BY <2>3, <4>3
        <5>2. staleStage' = staleStage /\ heardStage'[x] = n.bag.stage
          BY <1>0, <2>3, <4>3, <5>1 DEF Emit, Deliver, Lose, Stale, EarsOK
        <5>3. n.bag.stage = bag[x].stage
          BY <1>1, <2>1, <4>3, <5>1, <5>2 DEF StageKept
        <5> QED BY <1>2, <2>1, <5>1, <5>2, <5>3 DEF StageKept
      <4> QED BY <4>1, <4>2, <4>3
    <3> QED BY <3>1, <3>2
  <2> QED BY <2>2, <2>3
<1>7. state' = state /\ bag' = bag
  BY DEF table
<1> QED BY <1>3, <1>6, <1>7 DEF Kept, Alive

LEMMA GiveUpKept ==
  ASSUME KeepInv, NEW c \in Client, Telling(c), GiveUp(c), at' = [at EXCEPT ![c] = AtRest],
         UNCHANGED table
  PROVE  Kept' /\ StagedMoved'
<1> DEFINE n == at[c].news
           b == IF at[c].op = "staged" THEN None ELSE n.bag
           s == IF n.moved \/ at[c].op = "created" THEN n.bag.stage ELSE None
<1>1. at[c] \in Teller /\ n.bag \in Bag /\ n.bag.stage \in StageId
  BY ApiParts, NewsParts DEF KeepInv
<1>2. n.bag # None /\ n.bag.stage # None
  BY <1>1, ApiConstants DEF ApiConstants
<1>3. Emit(n.rec, b, s)
  BY DEF GiveUp, Emit
<1>4. AtRest \notin Speaker
  BY SpeakerOps
<1>5. b = None <=> ~DueBag(at[c], n.rec)
  BY <1>1, <1>2, SpeakerOps DEF DueBag
<1>6. s = None <=> ~DueStage(at[c], n.rec)
  BY <1>1, <1>2, SpeakerOps DEF DueStage, KeepInv, StagedMoved
<1>7. ~DueBag(AtRest, n.rec) /\ ~DueStage(AtRest, n.rec)
  BY <1>4 DEF DueBag, DueStage, Speaker
<1>8. b \in {None, n.bag} /\ s \in {None, n.bag.stage}
  OBVIOUS
<1> HIDE DEF b, s
<1> QED BY <1>3, <1>4, <1>5, <1>6, <1>7, <1>8, ToldKept

LEMMA TellKept == ASSUME KeepInv, NEW c \in Client, TellStep(c) PROVE Kept' /\ StagedMoved'
<1>0. AtOK
  BY ApiParts DEF KeepInv
<1>1. UNCHANGED table
  BY DEF TellStep, RecordCreated, LookUp, LookUpFails, RecordUpdated, DealStageChanged
<1> DEFINE n == at[c].news
<1>2. Telling(c)
  BY <1>0, ShapeOf DEF TellStep, RecordCreated, LookUp, LookUpFails, RecordUpdated,
                       DealStageChanged, Telling, AtOK
<1>3. /\ at[c] \in Teller /\ n \in News /\ n.bag # None /\ n.bag.stage # None
  <2>1. at[c] \in Teller /\ n.bag \in Bag /\ n.bag.stage \in StageId
    BY <1>0, <1>2, NewsParts
  <2> QED BY <2>1, ApiConstants DEF ApiConstants, Teller
<1>4. AtRest \notin Speaker
  BY SpeakerOps
<1>5. ~DueBag(AtRest, n.rec) /\ ~DueStage(AtRest, n.rec)
  BY <1>4 DEF DueBag, DueStage, Speaker
<1>6. CASE RecordCreated(c)
  <2>1. DueBag(at[c], n.rec) /\ DueStage(at[c], n.rec)
    BY <1>3, <1>6 DEF RecordCreated, DueBag, DueStage
  <2>2. Emit(n.rec, n.bag, n.bag.stage) /\ at' = [at EXCEPT ![c] = AtRest]
    BY <1>6 DEF RecordCreated, Reply
  <2> QED BY <1>1, <1>2, <1>3, <1>4, <1>5, <2>1, <2>2, ToldKept
<1>7. CASE LookUp(c)
  <2>1. CASE GiveUp(c) /\ Reply(c, "ok", TRUE)
    BY <1>1, <1>2, <2>1, GiveUpKept DEF Reply
  <2>2. CASE Go(c, [op |-> "updated", news |-> [n EXCEPT !.tool = FALSE]]) /\ UNCHANGED ears
    <3> DEFINE m == [n EXCEPT !.tool = FALSE]
               h == [op |-> "updated", news |-> m]
    <3>1. m \in News /\ m.rec = n.rec /\ m.bag = n.bag /\ m.moved = n.moved
      BY <1>3 DEF News
    <3>2. h \in Teller /\ h.news = m /\ h.op = "updated"
      BY <3>1 DEF Teller
    <3>3. at[c].op = "look_up"
      BY <1>7 DEF LookUp
    <3> HIDE DEF m, h
    <3>4. /\ DueBag(h, n.rec) <=> DueBag(at[c], n.rec)
          /\ DueStage(h, n.rec) <=> DueStage(at[c], n.rec)
      BY <1>3, <3>1, <3>2, <3>3, SpeakerOps DEF DueBag, DueStage
    <3>5. Kept'
      <4>1. at'[c] = h /\ \A d \in Client \ {c} : at'[d] = at[d]
        BY <1>0, <2>2 DEF Go, AtOK, h, m
      <4>2. \A d \in Client, x \in Rec :
              /\ DueBag(at'[d], x) <=> DueBag(at[d], x)
              /\ DueStage(at'[d], x) <=> DueStage(at[d], x)
              /\ at'[d] \in Teller <=> at[d] \in Teller
              /\ at[d] \in Teller => at'[d].news.bag = at[d].news.bag
        BY <1>3, <3>1, <3>2, <3>4, <4>1, SpeakerOps DEF DueBag, DueStage
      <4>3. ASSUME NEW x \in Rec, Alive(state', x)
            PROVE  /\ BagKept(x, at', bag'[x], heardBag', staleBag')
                   /\ StageKept(x, at', bag'[x].stage, heardStage', staleStage')
        <5>1. BagKept(x, at, bag[x], heardBag, staleBag) /\ StageKept(x, at, bag[x].stage, heardStage, staleStage)
          BY <1>1, <4>3 DEF KeepInv, Kept, table
        <5>2. UNCHANGED <<bag, ears>>
          BY <1>1, <2>2 DEF table
        <5> QED BY <4>2, <5>1, <5>2 DEF BagKept, StageKept, ears
      <4> QED BY <4>3 DEF Kept, Alive
    <3>6. StagedMoved'
      BY <1>0, <2>2, <3>2 DEF Go, AtOK, KeepInv, StagedMoved, h, m
    <3> QED BY <3>5, <3>6
  <2> QED BY <1>7, <2>1, <2>2 DEF LookUp
<1>8. CASE LookUpFails(c)
  BY <1>1, <1>2, <1>8, GiveUpKept DEF LookUpFails
<1>9. CASE RecordUpdated(c)
  <2>1. at[c].op = "updated" /\ Emit(n.rec, n.bag, None)
    BY <1>9 DEF RecordUpdated
  <2>2. DueBag(at[c], n.rec) /\ (DueStage(at[c], n.rec) <=> n.moved)
    BY <1>3, <2>1, SpeakerOps DEF DueBag, DueStage
  <2>3. CASE n.moved
    <3> DEFINE h == [op |-> "staged", news |-> n]
    <3>1. h \in Teller /\ h.news = n /\ h.op = "staged"
      BY <1>3 DEF Teller
    <3>2. at' = [at EXCEPT ![c] = h]
      BY <1>9, <2>3 DEF RecordUpdated, Go
    <3> HIDE DEF h
    <3>3. ~DueBag(h, n.rec) /\ DueStage(h, n.rec)
      BY <3>1, SpeakerOps DEF DueBag, DueStage
    <3> QED BY <1>1, <1>2, <1>3, <2>1, <2>2, <2>3, <3>1, <3>2, <3>3, ToldKept
  <2>4. CASE ~n.moved
    <3>1. at' = [at EXCEPT ![c] = AtRest]
      BY <1>9, <2>4 DEF RecordUpdated, Reply
    <3> QED BY <1>1, <1>2, <1>3, <1>4, <1>5, <2>1, <2>2, <2>4, <3>1, ToldKept
  <2> QED BY <2>3, <2>4
<1>10. CASE DealStageChanged(c)
  <2>1. ~DueBag(at[c], n.rec) /\ DueStage(at[c], n.rec)
    BY <1>3, <1>10, SpeakerOps DEF DealStageChanged, DueBag, DueStage
  <2>2. Emit(n.rec, None, n.bag.stage) /\ at' = [at EXCEPT ![c] = AtRest]
    BY <1>10 DEF DealStageChanged, Reply
  <2> QED BY <1>1, <1>2, <1>3, <1>4, <1>5, <2>1, <2>2, ToldKept
<1> QED BY <1>6, <1>7, <1>8, <1>9, <1>10 DEF TellStep

LEMMA ReadKept == ASSUME KeepInv, NEW c \in Client, ReadStep(c) PROVE Kept' /\ StagedMoved'
<1>0. AtOK
  BY ApiParts DEF KeepInv
<1>1. UNCHANGED <<table, ears>>
  BY DEF ReadStep, ResolveObject, RequireRecord, GetRecord, PageOfObject, ValidateValues,
         ReportOnObject, PageOfRecord, NoteAdded, ToolLogActivity, DescribeRecord
<1>2. at[c] \notin Speaker
  BY SpeakerOps DEF Speaker, ReadStep, ResolveObject, RequireRecord, GetRecord, PageOfObject, ValidateValues,
     ReportOnObject, PageOfRecord, NoteAdded, ToolLogActivity, DescribeRecord
<1>3. PICK h : at' = [at EXCEPT ![c] = h] /\ (h = AtRest \/ h.op \in ObjectOp \cup RecordOp \cup {"describe"})
  BY DEF ReadStep, ResolveObject, RequireRecord, GetRecord, PageOfObject, ValidateValues,
     ReportOnObject, PageOfRecord, NoteAdded, ToolLogActivity, DescribeRecord, Go, Reply
<1>4. h \notin Speaker
  BY <1>3, SpeakerOps DEF Speaker, ObjectOp, RecordOp
<1>5. \A d \in Client : at'[d] \in Speaker \/ at[d] \in Speaker => at'[d] = at[d]
  BY <1>0, <1>2, <1>3, <1>4 DEF AtOK
<1> QED BY <1>1, <1>5, SilentKept DEF table, Alive

(* Alarms never reach a handler that owes news.                            *)
LEMMA TellersStay ==
  ASSUME AtOK, NEW objs, NEW recs, NEW d \in Client
  PROVE  LET h == Alarmed(objs, recs)[d] IN h \in Speaker \/ at[d] \in Speaker => h = at[d]
<1> DEFINE h == Alarmed(objs, recs)[d]
<1>1. h = at[d] \/ ("met" \in DOMAIN at[d] /\ DOMAIN h = DOMAIN at[d])
  BY DEF Alarmed
<1>2. at[d] \in Handling /\ h \in Handling
  BY AlarmedType DEF AtOK
<1> HIDE DEF h
<1>3. ASSUME "met" \in DOMAIN at[d] PROVE "news" \notin DOMAIN at[d] /\ "fresh" \notin DOMAIN at[d]
  BY <1>2, <1>3, ShapeOf, Shapes
<1> QED BY <1>1, <1>2, <1>3, ShapeOf DEF h, Speaker

LEMMA WriteKept == ASSUME KeepInv, NEW c \in Client, WriteStep(c) PROVE Kept' /\ StagedMoved'
<1>0. AtOK /\ TableOK /\ EarsOK
  BY ApiParts DEF KeepInv
<1> DEFINE Good == Kept' /\ StagedMoved'
<1>1. at[c] \notin Speaker
  BY SpeakerOps DEF Speaker, WriteStep, CreateRecordWithValues, PatchRecord, ToolUpdateRecord, UpdateValues,
     Trash, Untrash, Purged
<1>2. AtRest \notin Speaker
  BY SpeakerOps
<1>3. ASSUME NEW status, Reply(c, status, FALSE), UNCHANGED <<bag, ears>>,
             \A r \in Rec : Alive(state', r) => Alive(state, r)
      PROVE  Good
  <2>1. \A d \in Client : at'[d] \in Speaker \/ at[d] \in Speaker => at'[d] = at[d]
    BY <1>0, <1>1, <1>2, <1>3 DEF Reply, AtOK
  <2> QED BY <1>3, <2>1, SilentKept
<1>4. ASSUME NEW r \in Rec, NEW b \in Bag, NEW op \in {"created", "look_up"}, NEW n \in News,
             Go(c, [op |-> op, news |-> n]), n.rec = r, n.bag = b,
             NEW changed \in BOOLEAN, NEW told \in BOOLEAN, told <=> (op = "created" \/ n.moved),
             bag' = [bag EXCEPT ![r] = b], Announce(r, changed, told),
             ~changed => bag[r].stage = b.stage,
             \A x \in Rec : Alive(state', x) => Alive(state, x) \/ (x = r /\ changed)
      PROVE  Good
  <2> DEFINE h == [op |-> op, news |-> n]
  <2>1. h \in Teller /\ h.op = op /\ h.news = n
    BY DEF Teller
  <2>2. at'[c] = h /\ \A d \in Client \ {c} : at'[d] = at[d]
    BY <1>0, <1>4 DEF Go, AtOK
  <2> HIDE DEF h
  <2>3. DueStage(h, r) <=> told
    BY <1>4, <2>1, SpeakerOps DEF DueStage
  <2>4. h.news.rec = r /\ h.news.bag = b /\ h.op # "staged"
    BY <1>4, <2>1
  <2> QED BY <1>1, <1>4, <2>1, <2>2, <2>3, <2>4, AnnouncedKept
<1> HIDE DEF Good
<1>5. ASSUME CreateRecordWithValues(c) PROVE Good
  <2>1. CASE UNCHANGED <<table, ears>> /\ \E status \in {"internal", "rejected"} : Reply(c, status, FALSE)
    BY <1>3, <2>1 DEF table, Alive
  <2>2. ASSUME NEW r \in Rec, NEW b \in Bag, state' = [state EXCEPT ![r] = "live"],
               bag' = [bag EXCEPT ![r] = b], Announce(r, TRUE, TRUE),
               Go(c, [op |-> "created",
                      news |-> [rec |-> r, bag |-> b, moved |-> FALSE, tool |-> FALSE]])
        PROVE  Good
    <3> DEFINE n == [rec |-> r, bag |-> b, moved |-> FALSE, tool |-> FALSE]
    <3>1. n \in News /\ n.rec = r /\ n.bag = b
      BY DEF News
    <3>2. \A x \in Rec : Alive(state', x) => Alive(state, x) \/ x = r
      BY <1>0, <2>2 DEF TableOK, Alive
    <3> HIDE DEF n
    <3>3. Go(c, [op |-> "created", news |-> n])
      BY <2>2 DEF n
    <3> QED BY <1>4, <2>2, <3>1, <3>2, <3>3
  <2> QED BY <1>5, <2>1, <2>2 DEF CreateRecordWithValues
<1>6. ASSUME NEW r \in Rec, NEW tool \in BOOLEAN, UpdateValues(c, r, tool) PROVE Good
  <2>1. CASE UNCHANGED <<table, ears>> /\ \E status \in {"not_found", "rejected", "ok"} : Reply(c, status, FALSE)
    BY <1>3, <2>1 DEF table, Alive
  <2>2. ASSUME NEW b \in Bag, Commit(r, b), UNCHANGED <<known, state>>,
               LET changed == b.stage # bag[r].stage
                   moved == changed /\ b.name = bag[r].name
               IN  /\ Announce(r, changed, moved)
                   /\ Go(c, [op |-> "look_up",
                             news |-> [rec |-> r, bag |-> b, moved |-> moved, tool |-> tool]])
        PROVE  Good
    <3> DEFINE changed == b.stage # bag[r].stage
               moved == changed /\ b.name = bag[r].name
               n == [rec |-> r, bag |-> b, moved |-> moved, tool |-> tool]
    <3>1. n \in News /\ n.rec = r /\ n.bag = b /\ n.moved = moved
      BY DEF News
    <3>2. Go(c, [op |-> "look_up", news |-> n]) /\ Announce(r, changed, moved)
      BY <2>2
    <3>3. changed \in BOOLEAN /\ moved \in BOOLEAN /\ (~changed => bag[r].stage = b.stage)
      OBVIOUS
    <3>4. bag' = [bag EXCEPT ![r] = b] /\ state' = state
      BY <2>2 DEF Commit
    <3> HIDE DEF n, changed, moved
    <3> QED BY <1>4, <3>1, <3>2, <3>3, <3>4 DEF Alive
  <2> QED BY <1>6, <2>1, <2>2 DEF UpdateValues
<1>7. ASSUME Trash(c) \/ Untrash(c) PROVE Good
  <2>1. \A r \in Rec : Alive(state', r) => Alive(state, r)
    BY <1>0, <1>7 DEF TableOK, Alive, Trash, Untrash
  <2> QED BY <1>3, <1>7, <2>1 DEF Trash, Untrash
<1>8. ASSUME Purged(c) PROVE Good
  <2>1. \A d \in Client : at'[d] \in Speaker \/ at[d] \in Speaker => at'[d] = at[d]
    <3>1. at' = [Alarmed({}, {at[c].rec}) EXCEPT ![c] = AtRest]
      BY <1>8 DEF Purged
    <3>2. Alarmed({}, {at[c].rec}) \in [Client -> Handling]
      BY <1>0, AlarmedType
    <3> QED BY <1>0, <1>1, <1>2, <3>1, <3>2, TellersStay
  <2>2. \A r \in Rec : Alive(state', r) => Alive(state, r) /\ bag'[r] = bag[r]
    BY <1>8 DEF Purged, Forget, Alive
  <2>3. UNCHANGED ears
    BY <1>8 DEF Purged
  <2> QED BY <2>1, <2>2, <2>3, SilentKept DEF Good
<1> QED BY <1>5, <1>6, <1>7, <1>8 DEF WriteStep, PatchRecord, ToolUpdateRecord, Good

LEMMA MergeKept == ASSUME KeepInv, NEW c \in Client, MergeStep(c) PROVE Kept' /\ StagedMoved'
<1>0. AtOK /\ TableOK /\ EarsOK
  BY ApiParts DEF KeepInv
<1>1. at[c] \notin Speaker
  BY SpeakerOps DEF Speaker, MergeStep, CheckSurvivor, CheckLoser, MergeFails, PreviewMerge, MergeRecords
<1>2. CASE \/ \E r, l \in Rec : CheckSurvivor(c, r, l)
           \/ CheckLoser(c) \/ MergeFails(c) \/ PreviewMerge(c)
  <2>1. UNCHANGED <<table, ears>>
    BY <1>2 DEF CheckSurvivor, CheckLoser, MergeFails, PreviewMerge
  <2>2. PICK h : at' = [at EXCEPT ![c] = h] /\ h \notin Speaker
    <3>1. AtRest \notin Speaker
      BY SpeakerOps
    <3>2. CASE \E r, l \in Rec : CheckSurvivor(c, r, l)
      <4>1. \A r, l : [op |-> "loser", rec |-> r, other |-> l, met |-> FALSE] \notin Speaker
        BY Shapes DEF Speaker, Teller, Importer
      <4> QED BY <3>1, <3>2, <4>1 DEF CheckSurvivor, Go, Reply
    <3>3. CASE CheckLoser(c)
      <4>1. at[c] \in OnTwo
        BY <1>0, <3>3, ShapeOf DEF CheckLoser, AtOK
      <4>2. [at[c] EXCEPT !.op = "merge"] \in OnTwo
        BY <4>1 DEF OnTwo
      <4>3. [at[c] EXCEPT !.op = "merge"] \notin Speaker
        BY <4>2, Shapes DEF Speaker
      <4> QED BY <3>1, <3>3, <4>3 DEF CheckLoser, Go, Reply
    <3>4. CASE MergeFails(c) \/ PreviewMerge(c)
      BY <3>1, <3>4 DEF MergeFails, PreviewMerge, Reply
    <3> QED BY <1>2, <3>2, <3>3, <3>4
  <2>3. \A d \in Client : at'[d] \in Speaker \/ at[d] \in Speaker => at'[d] = at[d]
    BY <1>0, <1>1, <2>2 DEF AtOK
  <2> QED BY <2>1, <2>3, SilentKept DEF table, Alive
<1>3. CASE MergeRecords(c)
  <2>0. at[c].rec \in Rec /\ at[c].other \in Rec
    BY <1>0, <1>3, ShapeOf DEF MergeRecords, OnTwo, AtOK
  <2> DEFINE r == at[c].rec
             l == at[c].other
             n(b) == [rec |-> r, bag |-> b, moved |-> FALSE, tool |-> FALSE]
             h(b) == [op |-> "look_up", news |-> n(b)]
  <2>1. PICK b \in Bag, hard \in BOOLEAN :
          /\ Commit(r, b) /\ Announce(r, b.stage # bag[r].stage, FALSE)
          /\ state' = [state EXCEPT ![l] = IF hard THEN "gone" ELSE "trash"]
          /\ at' = [Alarmed({}, IF hard THEN {l} ELSE {}) EXCEPT ![c] = h(b)]
    BY <1>3 DEF MergeRecords
  <2>2. h(b) \in Teller /\ h(b).news = n(b) /\ h(b).op = "look_up"
    BY <2>0 DEF Teller, News
  <2>3. n(b).rec = r /\ n(b).bag = b /\ n(b).moved = FALSE
    OBVIOUS
  <2>4. \A x \in Rec : Alive(state', x) => Alive(state, x)
    <3>1. Alive(state, l)
      BY <1>3 DEF MergeRecords, Found, Alive
    <3> QED BY <1>0, <2>0, <2>1, <3>1 DEF TableOK, Alive
  <2> DEFINE lost == IF hard THEN {l} ELSE {}
  <2>5. Alarmed({}, lost) \in [Client -> Handling]
    BY <1>0, AlarmedType
  <2> HIDE DEF n, h, lost
  <2>6. at' = [Alarmed({}, lost) EXCEPT ![c] = h(b)]
    BY <2>1 DEF lost
  <2>7. at'[c] = h(b) /\ \A d \in Client \ {c} : at'[d] \in Speaker \/ at[d] \in Speaker => at'[d] = at[d]
    BY <1>0, <2>5, <2>6, TellersStay
  <2>8. ~DueStage(h(b), r)
    BY <2>2, <2>3, SpeakerOps DEF DueStage
  <2>9. h(b).news.rec = r /\ h(b).news.bag = b /\ h(b).op # "staged"
    BY <2>2, <2>3
  <2>10. bag' = [bag EXCEPT ![r] = b]
    BY <2>1 DEF Commit
  <2> DEFINE changed == b.stage # bag[r].stage
  <2>11. changed \in BOOLEAN /\ (~changed => bag[r].stage = b.stage) /\ Announce(r, changed, FALSE)
    BY <2>1
  <2> HIDE DEF r, l, changed
  <2>12. r \in Rec
    BY <2>0 DEF r
  <2> QED BY <1>1, <2>2, <2>4, <2>7, <2>8, <2>9, <2>10, <2>11, <2>12, AnnouncedKept
<1> QED BY <1>2, <1>3 DEF MergeStep

(* A write nobody is told of leaves the bags it does not touch, and marks  *)
(* the others.                                                             *)
LEMMA SilentWriteKept ==
  ASSUME KeepInv, NEW o, NEW held \in SUBSET Rec, NEW field \in {"name", "stage"}, NEW value,
         \A b \in Bag : [b EXCEPT ![field] = value] \in Bag,
         SilentWrite(o, held, field, value)
  PROVE  Kept' /\ StagedMoved'
<1>0. TableOK
  BY ApiParts DEF KeepInv
<1>1. StagedMoved'
  BY DEF SilentWrite, KeepInv, StagedMoved
<1>2. /\ UNCHANGED <<state, at>>
      /\ Stale(staleBag \cup held, IF field = "stage" THEN staleStage \cup held ELSE staleStage)
      /\ \A r \in Rec \ held : bag'[r] = bag[r]
      /\ \A r \in held : bag'[r] = [bag[r] EXCEPT ![field] = value]
  BY DEF SilentWrite
<1>3. field # "stage" => \A r \in held : bag'[r].stage = bag[r].stage
  BY <1>0, <1>2 DEF TableOK, Bag
<1>4. ASSUME NEW x \in Rec, Alive(state', x)
      PROVE  /\ BagKept(x, at', bag'[x], heardBag', staleBag')
             /\ StageKept(x, at', bag'[x].stage, heardStage', staleStage')
  <2>1. BagKept(x, at, bag[x], heardBag, staleBag) /\ StageKept(x, at, bag[x].stage, heardStage, staleStage)
    BY <1>2, <1>4 DEF KeepInv, Kept
  <2>2. /\ x \notin staleBag' => x \notin staleBag /\ heardBag'[x] = heardBag[x] /\ x \notin held
        /\ x \notin staleStage' => x \notin staleStage /\ heardStage'[x] = heardStage[x]
        /\ field = "stage" /\ x \in held => x \in staleStage'
        /\ at' = at
    BY <1>2 DEF Stale
  <2>3. BagKept(x, at', bag'[x], heardBag', staleBag')
    BY <1>2, <2>1, <2>2 DEF BagKept
  <2>4. StageKept(x, at', bag'[x].stage, heardStage', staleStage')
    <3>1. CASE field = "stage" /\ x \in held
      BY <2>2, <3>1 DEF StageKept
    <3>2. CASE ~(field = "stage" /\ x \in held)
      <4>1. bag'[x].stage = bag[x].stage
        BY <1>2, <1>3, <3>2
      <4> QED BY <2>1, <2>2, <4>1 DEF StageKept
    <3> QED BY <3>1, <3>2
  <2> QED BY <2>3, <2>4
<1> QED BY <1>1, <1>4 DEF Kept, Alive

(* An import that ends early: the rows it has not told of are marked.      *)
LEMMA RowsUntoldKept ==
  ASSUME KeepInv, NEW c \in Client, Importing(c), RowsUntold(c), at' = [at EXCEPT ![c] = AtRest],
         UNCHANGED table
  PROVE  Kept' /\ StagedMoved'
<1>0. AtOK
  BY ApiParts DEF KeepInv
<1>1. at[c] \in Importer
  BY <1>0, ShapeOf DEF AtOK, Importing
<1>2. at'[c] = AtRest /\ \A d \in Client \ {c} : at'[d] = at[d]
  BY <1>0 DEF AtOK
<1>3. StagedMoved'
  BY <1>2, SpeakerOps DEF KeepInv, StagedMoved, Speaker
<1>4. \A x : /\ ~DueBag(at'[c], x) /\ ~DueStage(at'[c], x)
             /\ DueBag(at[c], x) <=> x \in at[c].fresh \cup at[c].changed
             /\ DueStage(at[c], x) <=> x \in at[c].fresh
  BY <1>1, <1>2, SpeakerOps DEF DueBag, DueStage, Speaker
<1>5. at'[c] \notin Teller /\ at[c] \notin Teller
  BY <1>1, <1>2, SpeakerOps DEF Speaker
<1>6. ASSUME NEW x \in Rec, Alive(state', x)
      PROVE  /\ BagKept(x, at', bag'[x], heardBag', staleBag')
             /\ StageKept(x, at', bag'[x].stage, heardStage', staleStage')
  <2>1. BagKept(x, at, bag[x], heardBag, staleBag) /\ StageKept(x, at, bag[x].stage, heardStage, staleStage)
    BY <1>6 DEF KeepInv, Kept, table
  <2>2. bag'[x] = bag[x]
    BY DEF table
  <2>3. /\ x \notin staleBag' => x \notin staleBag /\ heardBag'[x] = heardBag[x] /\ ~DueBag(at[c], x)
        /\ x \notin staleStage' => x \notin staleStage /\ heardStage'[x] = heardStage[x] /\ ~DueStage(at[c], x)
    BY <1>4 DEF RowsUntold, Stale
  <2>4. BagKept(x, at', bag'[x], heardBag', staleBag')
    BY <1>2, <1>4, <1>5, <2>1, <2>2, <2>3 DEF BagKept
  <2>5. StageKept(x, at', bag'[x].stage, heardStage', staleStage')
    BY <1>2, <1>4, <1>5, <2>1, <2>2, <2>3 DEF StageKept
  <2> QED BY <2>4, <2>5
<1> QED BY <1>3, <1>6 DEF Kept, Alive

(* An import that commits: the rows somebody else still owes news of, and  *)
(* those it will not tell of, are marked; the others it owes.              *)
LEMMA ImportAppliedKept ==
  ASSUME KeepInv, NEW c \in Client, NEW o \in Object, ImportApplied(c, o)
  PROVE  Kept' /\ StagedMoved'
<1>0. AtOK /\ TableOK /\ EarsOK
  BY ApiParts DEF KeepInv
<1>1. PICK new \in SUBSET Rec, old \in SUBSET Rec :
        /\ \A r \in new : state[r] = "absent"
        /\ \E b \in [new \cup old -> Bag], fresh \in SUBSET new,
              changed \in SUBSET (new \cup old) : RowsApplied(c, new, old, b, fresh, changed)
  BY ImportRows
<1>2. PICK b \in [new \cup old -> Bag], fresh \in SUBSET new, changed \in SUBSET (new \cup old) :
        RowsApplied(c, new, old, b, fresh, changed)
  BY <1>1
<1> DEFINE told == {r \in fresh \cup changed : Quiet(r)}
           moved == new \cup {r \in old : b[r].stage # bag[r].stage}
           h == [op |-> "import", fresh |-> fresh, changed |-> changed]
<1>4. h \in Importer /\ h.fresh = fresh /\ h.changed = changed
  BY DEF Importer
<1>5. at[c] = AtRest
  BY DEF ImportApplied
<1>6. at'[c] = h /\ \A d \in Client \ {c} : at'[d] = at[d]
  BY <1>0, <1>2 DEF RowsApplied, Go, AtOK
<1> HIDE DEF h
<1>7. StagedMoved'
  BY <1>4, <1>6, SpeakerOps DEF KeepInv, StagedMoved
<1>8. \A x : /\ ~DueBag(at[c], x) /\ ~DueStage(at[c], x)
             /\ DueBag(at'[c], x) <=> x \in fresh \cup changed
             /\ DueStage(at'[c], x) <=> x \in fresh
  BY <1>4, <1>5, <1>6, SpeakerOps DEF DueBag, DueStage, Speaker
<1>9. at'[c] \notin Teller /\ at[c] \notin Teller
  BY <1>4, <1>5, <1>6, SpeakerOps DEF Speaker
<1>10. ASSUME NEW x \in Rec, Alive(state', x)
       PROVE  /\ BagKept(x, at', bag'[x], heardBag', staleBag')
              /\ StageKept(x, at', bag'[x].stage, heardStage', staleStage')
  <2>1. x \notin new => /\ BagKept(x, at, bag[x], heardBag, staleBag)
                        /\ StageKept(x, at, bag[x].stage, heardStage, staleStage)
    BY <1>2, <1>10 DEF RowsApplied, KeepInv, Kept, Alive
  <2>2. bag'[x] = IF x \in new \cup old THEN b[x] ELSE bag[x]
    BY <1>2 DEF RowsApplied
  <2>3. /\ staleBag' = (staleBag \cup (new \cup old)) \ told
        /\ staleStage' = (staleStage \cup moved) \ (told \cap fresh)
        /\ x \notin staleBag' => heardBag'[x] = heardBag[x]
        /\ x \notin staleStage' => heardStage'[x] = heardStage[x]
    BY <1>2 DEF RowsApplied, Stale
  <2>4. x \in told => \A d \in Client : ~DueBag(at[d], x) /\ ~DueStage(at[d], x)
    BY <1>0, QuietOwes
  <2>5. BagKept(x, at', bag'[x], heardBag', staleBag')
    <3>1. CASE x \in told
      BY <1>6, <1>8, <1>9, <2>4, <3>1 DEF BagKept
    <3>2. CASE x \notin told /\ x \in new \cup old
      BY <2>3, <3>2 DEF BagKept
    <3>3. CASE x \notin new \cup old
      BY <1>6, <1>8, <1>9, <2>1, <2>2, <2>3, <3>3 DEF BagKept
    <3> QED BY <3>1, <3>2, <3>3
  <2>6. StageKept(x, at', bag'[x].stage, heardStage', staleStage')
    <3>1. CASE x \in told \cap fresh
      BY <1>6, <1>8, <1>9, <2>4, <3>1 DEF StageKept
    <3>2. CASE x \notin told \cap fresh /\ x \in moved
      BY <2>3, <3>2 DEF StageKept
    <3>3. CASE x \notin moved
      <4>1. x \notin new /\ x \notin fresh /\ bag'[x].stage = bag[x].stage
        BY <2>2, <3>3
      <4>2. x \notin staleStage' => x \notin staleStage
        BY <2>3, <4>1
      <4> QED BY <1>6, <1>8, <1>9, <2>1, <2>3, <4>1, <4>2 DEF StageKept
    <3> QED BY <3>1, <3>2, <3>3
  <2> QED BY <2>5, <2>6
<1> QED BY <1>7, <1>10 DEF Kept, Alive

(* An import that tells of a row what the row holds.                       *)
LEMMA ImportTellsKept ==
  ASSUME KeepInv, NEW c \in Client, NEW r \in Rec, ImportTells(c, r)
  PROVE  Kept' /\ StagedMoved'
<1>0. AtOK /\ TableOK /\ EarsOK
  BY ApiParts DEF KeepInv
<1>1. at[c] \in Importer
  BY <1>0, ShapeOf DEF ImportTells, Importing, AtOK
<1> DEFINE first == at[c].fresh # {}
           h == IF first THEN [at[c] EXCEPT !.fresh = @ \ {r}]
                ELSE [at[c] EXCEPT !.changed = @ \ {r}]
           s == IF first THEN bag[r].stage ELSE None
<1>2. /\ h \in Importer
      /\ h.fresh = IF first THEN at[c].fresh \ {r} ELSE {}
      /\ h.changed = IF first THEN at[c].changed ELSE at[c].changed \ {r}
  BY <1>1 DEF Importer
<1>3. at'[c] = h /\ \A d \in Client \ {c} : at'[d] = at[d]
  BY <1>0 DEF ImportTells, Go, AtOK
<1>4. UNCHANGED table /\ (Found(r) => Emit(r, bag[r], s)) /\ (~Found(r) => UNCHANGED ears)
  BY DEF ImportTells
<1>5. first => r \in at[c].fresh
  BY DEF ImportTells, Row
<1>6. bag[r] # None /\ (first => s # None /\ s = bag[r].stage) /\ (~first => s = None)
  BY <1>0, ApiConstants DEF TableOK, ApiConstants, Bag
<1> HIDE DEF h, s
<1>7. StagedMoved'
  BY <1>2, <1>3, SpeakerOps DEF KeepInv, StagedMoved
<1>8. at'[c] \notin Teller /\ at[c] \notin Teller
  BY <1>1, <1>2, <1>3, SpeakerOps
<1>9. \A x : /\ DueBag(at[c], x) <=> x \in at[c].fresh \cup at[c].changed
             /\ DueStage(at[c], x) <=> x \in at[c].fresh
             /\ DueBag(at'[c], x) <=> x \in h.fresh \cup h.changed
             /\ DueStage(at'[c], x) <=> x \in h.fresh
  BY <1>1, <1>2, <1>3, SpeakerOps DEF DueBag, DueStage
<1>10. ASSUME NEW x \in Rec, Alive(state', x)
       PROVE  /\ BagKept(x, at', bag'[x], heardBag', staleBag')
              /\ StageKept(x, at', bag'[x].stage, heardStage', staleStage')
  <2>1. BagKept(x, at, bag[x], heardBag, staleBag) /\ StageKept(x, at, bag[x].stage, heardStage, staleStage)
    BY <1>4, <1>10 DEF KeepInv, Kept, table
  <2>2. bag'[x] = bag[x]
    BY <1>4 DEF table
  <2>3. CASE x # r
    <3>1. /\ DueBag(at'[c], x) <=> DueBag(at[c], x)
          /\ DueStage(at'[c], x) <=> DueStage(at[c], x)
      BY <1>2, <1>9, <2>3
    <3>2. /\ x \in staleBag' <=> x \in staleBag
          /\ x \notin staleBag => heardBag'[x] = heardBag[x]
          /\ x \in staleStage' <=> x \in staleStage
          /\ x \notin staleStage => heardStage'[x] = heardStage[x]
      BY <1>0, <1>4, <2>3 DEF Emit, Deliver, Lose, Stale, EarsOK, ears
    <3>3. BagKept(x, at', bag'[x], heardBag', staleBag')
      BY <1>3, <1>8, <2>1, <2>2, <3>1, <3>2 DEF BagKept
    <3>4. StageKept(x, at', bag'[x].stage, heardStage', staleStage')
      BY <1>3, <1>8, <2>1, <2>2, <3>1, <3>2 DEF StageKept
    <3> QED BY <3>3, <3>4
  <2>4. CASE x = r
    <3>1. Emit(x, bag[x], s)
      BY <1>4, <1>10, <2>4 DEF Alive, Found, table
    <3>2. x \notin staleBag' => x \notin staleBag /\ heardBag'[x] = bag[x]
      BY <1>0, <1>6, <2>4, <3>1 DEF Emit, Deliver, Lose, Stale, EarsOK
    <3>3. BagKept(x, at', bag'[x], heardBag', staleBag')
      BY <1>3, <1>8, <2>1, <2>2, <3>2 DEF BagKept
    <3>4. CASE first
      <4>1. x \notin staleStage' => x \notin staleStage /\ heardStage'[x] = bag[x].stage
        BY <1>0, <1>6, <2>4, <3>1, <3>4 DEF Emit, Deliver, Lose, Stale, EarsOK
      <4> QED BY <1>3, <1>8, <2>1, <2>2, <3>3, <4>1 DEF StageKept
    <3>5. CASE ~first
      <4>1. staleStage' = staleStage /\ (x \notin staleStage => heardStage'[x] = heardStage[x])
        BY <1>0, <1>6, <3>1, <3>5 DEF Emit, Deliver, Lose, Stale, EarsOK
      <4>2. ~DueStage(at[c], x) /\ ~DueStage(at'[c], x)
        BY <1>2, <1>9, <3>5
      <4> QED BY <1>3, <1>8, <2>1, <2>2, <3>3, <4>1, <4>2 DEF StageKept
    <3> QED BY <3>4, <3>5
  <2> QED BY <2>3, <2>4
<1> QED BY <1>7, <1>10 DEF Kept, Alive

LEMMA ImportKept == ASSUME KeepInv, NEW c \in Client, ImportStep(c) PROVE Kept' /\ StagedMoved'
<1>0. AtOK
  BY ApiParts DEF KeepInv
<1>1. CASE ImportTold(c)
  <2>1. at[c] \in Importer /\ at[c].fresh = {} /\ at[c].changed = {}
    BY <1>0, <1>1, ShapeOf DEF ImportTold, Importing, Row, AtOK
  <2>2. at'[c] = AtRest /\ (\A d \in Client \ {c} : at'[d] = at[d]) /\ UNCHANGED <<table, ears>>
    BY <1>0, <1>1 DEF ImportTold, Reply, AtOK
  <2>3. \A x : \A d \in Client :
          /\ DueBag(at'[d], x) <=> DueBag(at[d], x)
          /\ DueStage(at'[d], x) <=> DueStage(at[d], x)
          /\ at'[d] \in Teller \/ at[d] \in Teller => at'[d] = at[d]
    BY <2>1, <2>2, SpeakerOps DEF DueBag, DueStage, Speaker
  <2>4. StagedMoved'
    BY <2>3 DEF KeepInv, StagedMoved
  <2>5. ASSUME NEW x \in Rec, Alive(state', x)
        PROVE  /\ BagKept(x, at', bag'[x], heardBag', staleBag')
               /\ StageKept(x, at', bag'[x].stage, heardStage', staleStage')
    <3>1. BagKept(x, at, bag[x], heardBag, staleBag) /\ StageKept(x, at, bag[x].stage, heardStage, staleStage)
      BY <2>2, <2>5 DEF KeepInv, Kept, table
    <3> QED BY <2>2, <2>3, <3>1 DEF BagKept, StageKept, table, ears
  <2> QED BY <2>4, <2>5 DEF Kept, Alive
<1>2. CASE ImportFails(c)
  BY <1>2, RowsUntoldKept DEF ImportFails
<1> QED BY <1>1, <1>2, ImportAppliedKept, ImportTellsKept DEF ImportStep

LEMMA KeepNext == KeepInv /\ [ApiNext]_apiVars => KeepInv'
<1> SUFFICES ASSUME KeepInv, [ApiNext]_apiVars PROVE Kept' /\ StagedMoved'
  BY ApiNextType DEF KeepInv
<1>0. AtOK /\ TableOK
  BY ApiParts DEF KeepInv
<1>1. ASSUME NEW c \in Client, Dropped(c) PROVE Kept' /\ StagedMoved'
  <2>1. CASE Telling(c)
    BY <1>1, <2>1, GiveUpKept DEF Dropped
  <2>2. CASE ~Telling(c) /\ Importing(c)
    BY <1>1, <2>2, RowsUntoldKept DEF Dropped
  <2>3. CASE ~Telling(c) /\ ~Importing(c)
    <3>1. at[c] \notin Speaker /\ AtRest \notin Speaker
      BY <1>0, <2>3, ShapeOf, SpeakerOps DEF AtOK, Telling, Importing, Speaker
    <3>2. UNCHANGED <<table, ears>> /\ at' = [at EXCEPT ![c] = AtRest]
      BY <1>1, <2>3 DEF Dropped
    <3>3. \A d \in Client : at'[d] \in Speaker \/ at[d] \in Speaker => at'[d] = at[d]
      BY <1>0, <3>1, <3>2 DEF AtOK
    <3> QED BY <3>2, <3>3, SilentKept DEF table, Alive
  <2> QED BY <2>1, <2>2, <2>3
<1>2. ASSUME NEW o \in Object, ObjectDeleted(o) PROVE Kept' /\ StagedMoved'
  <2>1. \A d \in Client : at'[d] \in Speaker \/ at[d] \in Speaker => at'[d] = at[d]
    BY <1>0, <1>2, TellersStay DEF ObjectDeleted
  <2>2. \A r \in Rec : Alive(state', r) => Alive(state, r) /\ bag'[r] = bag[r]
    BY <1>2 DEF ObjectDeleted, Forget, Alive
  <2> QED BY <1>2, <2>1, <2>2, SilentKept DEF ObjectDeleted
<1>3. ASSUME NEW o \in Object,
             \/ \E s, t \in StageId : OptionMigrated(o, s, t)
             \/ \E field \in {"name", "stage"} : FieldDeleted(o, field)
      PROVE  Kept' /\ StagedMoved'
  BY <1>3, SilentWriters, SilentWriteKept
<1>4. CASE UNCHANGED apiVars
  BY <1>4, SilentKept DEF apiVars, table
<1> QED BY <1>1, <1>2, <1>3, <1>4, ReadKept, WriteKept, MergeKept, TellKept, ImportKept
    DEF ApiNext

LEMMA KeepInit == ApiInit => KeepInv
<1> SUFFICES ASSUME ApiInit PROVE KeepInv
  OBVIOUS
<1>1. Kept
  BY DEF ApiInit, Kept, Alive
<1>2. StagedMoved
  BY Shapes DEF ApiInit, StagedMoved, Teller
<1> QED BY <1>1, <1>2, ApiInitType DEF KeepInv

(* For any number of clients, objects, records and commits: what a         *)
(* consumer last heard of a record is its bag and its stage once nobody    *)
(* has news of it left, except where the history says no event can speak   *)
(* for it.                                                                 *)
THEOREM WhatIsHeardIsTrue == ApiSpec => []ConsumersKeepUp
<1>1. KeepInv => ConsumersKeepUp
  <2> SUFFICES ASSUME KeepInv, NEW r \in Rec, Found(r), Quiet(r)
               PROVE  /\ r \notin staleBag => heardBag[r] = bag[r]
                      /\ r \notin staleStage => heardStage[r] = bag[r].stage
    BY DEF ConsumersKeepUp
  <2>1. AtOK
    BY ApiParts DEF KeepInv
  <2>2. \A c \in Client : ~DueBag(at[c], r) /\ ~DueStage(at[c], r)
    BY <2>1, QuietOwes
  <2>3. BagKept(r, at, bag[r], heardBag, staleBag) /\ StageKept(r, at, bag[r].stage, heardStage, staleStage)
    BY DEF KeepInv, Kept, Found, Alive
  <2> QED BY <2>2, <2>3 DEF BagKept, StageKept
<1> QED BY <1>1, KeepInit, KeepNext, PTL DEF ApiSpec

=================================================================================
