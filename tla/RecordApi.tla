------------------------------- MODULE RecordApi --------------------------------
(***************************************************************************)
(* The handlers around the record store (api/records.rs, the agent tools   *)
(* and reports of api/insights.rs, a record's timeline, the apply of an    *)
(* import): they take the store's lock more than once, look at one state   *)
(* and act on another, and after the commit tell Core what happened.       *)
(* Clients' steps interleave at every lock and at every send.              *)
(*                                                                         *)
(* A record's bag is its title field and its status field, in that order   *)
(* of position.  A request's body is chosen where it is used.  A send that *)
(* is lost stands for a sidecar no Core hosts, a transport error, and a    *)
(* refusal; Core may also act on an event whose answer is lost.            *)
(***************************************************************************)
EXTENDS Naturals, FiniteSets

CONSTANTS Client, Object,
          Rec,        \* record ids
          ObjectOf,   \* the object each record id is minted for
          Name, StageId,
          None,       \* nothing heard that can be relied on
          MaxWrites   \* bound on the commits that change a record's bag

Bag == [name : Name, stage : StageId]

ASSUME ApiConstants ==
  /\ ObjectOf \in [Rec -> Object] /\ MaxWrites \in Nat
  /\ Bag # {} /\ None \notin StageId /\ None \notin Bag

VARIABLES known,       \* the objects that are there
          state, bag,  \* the records table
          at,          \* per client: the handler between two of its steps
          reply,       \* how this step's handler ended, if it was our fault
          heardBag, heardStage,    \* what the last event of each kind said
          staleBag, staleStage,    \* history: records no event can speak for
          writes

table == <<known, state, bag, writes>>
ears == <<heardBag, heardStage, staleBag, staleStage>>
apiVars == <<table, at, reply, ears>>

(* The handlers that look an object up first, those that look a record up, *)
(* the two lookups of a merge, and what follows a commit.                  *)
ObjectOp == {"create", "page", "validate", "report"}
RecordOp == {"delete", "purge", "restore", "page", "note"}
AtRest == [op |-> "rest"]
News == [rec : Rec, bag : Bag, moved : BOOLEAN, tool : BOOLEAN]
Handling ==
  {AtRest}
  \cup [op : ObjectOp, obj : Object, met : BOOLEAN]
  \cup [op : RecordOp, rec : Rec, met : BOOLEAN]
  \cup [op : {"loser", "merge"}, rec : Rec, other : Rec, met : BOOLEAN]
  \cup [op : {"describe"}, rec : Rec]
  \cup [op : {"created", "look_up", "updated", "staged"}, news : News]
  \cup [op : {"import"}, fresh : SUBSET Rec, changed : SUBSET Rec]
(* "saved": the handler's write is in; "tool": it is one that fails when a *)
(* lookup after the write does.                                            *)
NoReply == [status |-> "none", met |-> FALSE, saved |-> FALSE, tool |-> FALSE]
(* The answers that do not say what the request got wrong.                 *)
Fault == {"empty", "no_status", "internal"}

ApiTypeOK ==
  /\ known \subseteq Object
  /\ state \in [Rec -> {"absent", "live", "trash", "gone"}]
  /\ bag \in [Rec -> Bag]
  /\ at \in [Client -> Handling]
  /\ reply \in [status : {"none"} \cup Fault, met : BOOLEAN, saved : BOOLEAN, tool : BOOLEAN]
  /\ heardBag \in [Rec -> Bag \cup {None}]
  /\ heardStage \in [Rec -> StageId \cup {None}]
  /\ staleBag \subseteq Rec /\ staleStage \subseteq Rec
  /\ writes \in 0..MaxWrites

(* load_record sees the trash too.                                         *)
Found(r) == state[r] \in {"live", "trash"}
RecordsOf(o) == {r \in Rec : ObjectOf[r] = o /\ Found(r)}

NoBag == CHOOSE b \in Bag : TRUE   \* what a record holds of no values
Forget(rs) ==
  /\ state' = [r \in Rec |-> IF r \in rs THEN "gone" ELSE state[r]]
  /\ bag' = [r \in Rec |-> IF r \in rs THEN NoBag ELSE bag[r]]

ApiInit ==
  /\ known = Object
  /\ state = [r \in Rec |-> "absent"] /\ bag = [r \in Rec |-> NoBag]
  /\ at = [c \in Client |-> AtRest] /\ reply = NoReply
  /\ heardBag = [r \in Rec |-> None] /\ heardStage = [r \in Rec |-> None]
  /\ staleBag = {} /\ staleStage = {} /\ writes = 0

(***************************************************************************)
(* How a handler goes on, and how it ends                                  *)
(***************************************************************************)
Go(c, next) == at' = [at EXCEPT ![c] = next] /\ reply' = NoReply
Met(c) == "met" \in DOMAIN at[c] /\ at[c].met
Ends(status, met, saved, tool) ==
  reply' = IF status \notin Fault THEN NoReply
           ELSE [status |-> status, met |-> met, saved |-> saved, tool |-> tool]
Reply(c, status, saved) ==
  at' = [at EXCEPT ![c] = AtRest] /\ Ends(status, Met(c), saved, FALSE)

(* What a handler in flight has already looked at is no longer there.      *)
Touches(h, objs, recs) == \/ "obj" \in DOMAIN h /\ h.obj \in objs
                          \/ "rec" \in DOMAIN h /\ h.rec \in recs
                          \/ "other" \in DOMAIN h /\ h.other \in recs
Alarmed(objs, recs) ==
  [d \in Client |-> IF "met" \in DOMAIN at[d] /\ Touches(at[d], objs, recs)
                    THEN [at[d] EXCEPT !.met = TRUE] ELSE at[d]]

(***************************************************************************)
(* Telling Core                                                            *)
(***************************************************************************)
Telling(c) == "news" \in DOMAIN at[c]
Importing(c) == at[c].op = "import"
Quiet(r) == \A c \in Client : /\ Telling(c) => at[c].news.rec # r
                              /\ Importing(c) => r \notin at[c].fresh \cup at[c].changed
(* What is heard of a record no event can speak for does not count.        *)
Stale(bags, stages) ==
  /\ staleBag' = bags /\ heardBag' = [r \in Rec |-> IF r \in bags THEN None ELSE heardBag[r]]
  /\ staleStage' = stages
  /\ heardStage' = [r \in Rec |-> IF r \in stages THEN None ELSE heardStage[r]]
(* A commit that two handlers tell of at once may be overtaken: until the  *)
(* next one, nobody can say which was told last.  "changed" is whether the *)
(* stage changed, "told" whether an event will say so.                     *)
Announce(r, changed, told) ==
  Stale(IF Quiet(r) THEN staleBag \ {r} ELSE staleBag \cup {r},
        IF Quiet(r) /\ told THEN staleStage \ {r}
        ELSE IF changed \/ told THEN staleStage \cup {r} ELSE staleStage)

Deliver(r, b, s) ==
  /\ heardBag' = IF b = None \/ r \in staleBag THEN heardBag ELSE [heardBag EXCEPT ![r] = b]
  /\ heardStage' = IF s = None \/ r \in staleStage THEN heardStage
                   ELSE [heardStage EXCEPT ![r] = s]
  /\ UNCHANGED <<staleBag, staleStage>>
Lose(r, b, s) == Stale(IF b = None THEN staleBag ELSE staleBag \cup {r},
                       IF s = None THEN staleStage ELSE staleStage \cup {r})
(* EventEmitter::emit: Core acts on the event, or never sees it.           *)
Emit(r, b, s) == Deliver(r, b, s) \/ Lose(r, b, s)
(* What the handler has not told yet is never told.                        *)
GiveUp(c) ==
  LET n == at[c].news
  IN  Lose(n.rec, IF at[c].op = "staged" THEN None ELSE n.bag,
           IF n.moved \/ at[c].op = "created" THEN n.bag.stage ELSE None)

RecordCreated(c) ==
  /\ at[c].op = "created"
  /\ LET n == at[c].news IN Emit(n.rec, n.bag, n.bag.stage)
  /\ Reply(c, "ok", TRUE) /\ UNCHANGED table

(* emit_record_update of records.rs and of insights.rs, and the lookup of  *)
(* apply_merge: nothing is told of an object that is gone.                 *)
LookUp(c) ==
  /\ at[c].op = "look_up"
  /\ IF ObjectOf[at[c].news.rec] \in known
     THEN Go(c, [op |-> "updated", news |-> [at[c].news EXCEPT !.tool = FALSE]])
          /\ UNCHANGED ears
     ELSE GiveUp(c) /\ Reply(c, "ok", TRUE)
  /\ UNCHANGED table
(* A lookup that fails is logged by the panel's, and fails the agent's     *)
(* request, although its write is in.                                      *)
LookUpFails(c) ==
  /\ at[c].op = "look_up" /\ GiveUp(c)
  /\ at' = [at EXCEPT ![c] = AtRest]
  /\ LET tool == at[c].news.tool IN Ends(IF tool THEN "internal" ELSE "ok", FALSE, TRUE, tool)
  /\ UNCHANGED table

RecordUpdatedOnly(c) ==
  /\ at[c].op = "updated"
  /\ LET n == at[c].news IN Emit(n.rec, n.bag, None)
  /\ Reply(c, "ok", TRUE) /\ UNCHANGED table
RecordUpdated(c) ==
  /\ at[c].op = "updated"
  /\ LET n == at[c].news
     IN  /\ Emit(n.rec, n.bag, None)
         /\ IF n.moved THEN Go(c, [op |-> "staged", news |-> n]) ELSE Reply(c, "ok", TRUE)
  /\ UNCHANGED table
DealStageChanged(c) ==
  /\ at[c].op = "staged"
  /\ Emit(at[c].news.rec, None, at[c].news.bag.stage)
  /\ Reply(c, "ok", TRUE) /\ UNCHANGED table

(***************************************************************************)
(* The first lookups                                                       *)
(***************************************************************************)
ResolveObject(c, op, o) ==
  /\ at[c] = AtRest
  /\ IF o \in known THEN Go(c, [op |-> op, obj |-> o, met |-> FALSE])
     ELSE Reply(c, "not_found", FALSE)
  /\ UNCHANGED <<table, ears>>
RequireRecord(c, op, r) ==
  /\ at[c] = AtRest
  /\ IF Found(r) THEN Go(c, [op |-> op, rec |-> r, met |-> FALSE])
     ELSE Reply(c, "not_found", FALSE)
  /\ UNCHANGED <<table, ears>>
(* get_record, and the agent's: a single lock.                             *)
GetRecord(c, r) ==
  /\ at[c] = AtRest
  /\ Reply(c, IF Found(r) THEN "ok" ELSE "not_found", FALSE)
  /\ UNCHANGED <<table, ears>>

(***************************************************************************)
(* Handlers of one object                                                  *)
(***************************************************************************)
Commit(r, b) == writes < MaxWrites /\ writes' = writes + 1 /\ bag' = [bag EXCEPT ![r] = b]

(* create_record and tool_create_record.  The store looks the object up    *)
(* again, bails without it, and may reject the values.                     *)
CreateRecordWithValues(c) ==
  /\ at[c].op = "create"
  /\ \/ /\ at[c].obj \notin known
        /\ Reply(c, "internal", FALSE) /\ UNCHANGED <<table, ears>>
     \/ /\ at[c].obj \in known
        /\ Reply(c, "rejected", FALSE) /\ UNCHANGED <<table, ears>>
     \/ /\ at[c].obj \in known
        /\ \E r \in Rec, b \in Bag :
             /\ state[r] = "absent" /\ ObjectOf[r] = at[c].obj
             /\ state' = [state EXCEPT ![r] = "live"] /\ bag' = [bag EXCEPT ![r] = b]
             /\ Announce(r, TRUE, TRUE)
             /\ Go(c, [op |-> "created",
                       news |-> [rec |-> r, bag |-> b, moved |-> FALSE, tool |-> FALSE]])
        /\ UNCHANGED <<known, writes>>

(* list_records, query_records and scan_duplicates: a page, of nothing     *)
(* when the object has gone meanwhile.                                     *)
PageOfObject(c) ==
  /\ at[c].op = "page" /\ "obj" \in DOMAIN at[c]
  /\ Reply(c, IF at[c].obj \in known THEN "ok" ELSE "empty", FALSE)
  /\ UNCHANGED <<table, ears>>
(* validate_record_values: the dry run bails like the write.               *)
ValidateValues(c) ==
  /\ at[c].op = "validate"
  /\ Reply(c, IF at[c].obj \in known THEN "ok" ELSE "internal", FALSE)
  /\ UNCHANGED <<table, ears>>
(* pipeline, funnel and tool_pipeline: no report is read as no status      *)
(* field.                                                                  *)
ReportOnObject(c) ==
  /\ at[c].op = "report"
  /\ Reply(c, IF at[c].obj \in known THEN "ok" ELSE "no_status", FALSE)
  /\ UNCHANGED <<table, ears>>

(***************************************************************************)
(* Handlers of one record                                                  *)
(***************************************************************************)
(* The values of a record some handler reads and writes under one lock.    *)
(* The stage event is due when the first field that changed is the status. *)
UpdateValues(c, r, tool) ==
  /\ at[c] = AtRest
  /\ \/ ~Found(r) /\ Reply(c, "not_found", FALSE) /\ UNCHANGED <<table, ears>>
     \/ Found(r) /\ Reply(c, "rejected", FALSE) /\ UNCHANGED <<table, ears>>
     \/ Found(r) /\ Reply(c, "ok", FALSE) /\ UNCHANGED <<table, ears>>   \* nothing changed
     \/ /\ Found(r)
        /\ \E b \in Bag \ {bag[r]} :
             LET changed == b.stage # bag[r].stage
                 moved == changed /\ b.name = bag[r].name
             IN  /\ Commit(r, b) /\ Announce(r, changed, moved)
                 /\ Go(c, [op |-> "look_up",
                           news |-> [rec |-> r, bag |-> b, moved |-> moved, tool |-> tool]])
        /\ UNCHANGED <<known, state>>
PatchRecord(c, r) == UpdateValues(c, r, FALSE)
ToolUpdateRecord(c, r) == UpdateValues(c, r, TRUE)

(* delete_record, its purge, and restore_record: the store's answer says   *)
(* whether a row moved, and is dropped.                                    *)
Trash(c) ==
  /\ at[c].op = "delete"
  /\ state' = [state EXCEPT ![at[c].rec] = IF @ = "live" THEN "trash" ELSE @]
  /\ Reply(c, "ok", FALSE) /\ UNCHANGED <<known, bag, writes, ears>>
Untrash(c) ==
  /\ at[c].op = "restore"
  /\ state' = [state EXCEPT ![at[c].rec] = IF @ = "trash" THEN "live" ELSE @]
  /\ Reply(c, "ok", FALSE) /\ UNCHANGED <<known, bag, writes, ears>>
Purged(c) ==
  /\ at[c].op = "purge"
  /\ Forget({at[c].rec}) /\ UNCHANGED known
  /\ at' = [Alarmed({}, {at[c].rec}) EXCEPT ![c] = AtRest]
  /\ Ends("ok", Met(c), FALSE, FALSE) /\ UNCHANGED <<writes, ears>>

(* list_links, related_records and the record's timeline.                  *)
PageOfRecord(c) ==
  /\ at[c].op = "page" /\ "rec" \in DOMAIN at[c]
  /\ Reply(c, IF Found(at[c].rec) THEN "ok" ELSE "empty", FALSE)
  /\ UNCHANGED <<table, ears>>
(* create_record_activity: the store rejects a record it does not find.    *)
NoteAdded(c) ==
  /\ at[c].op = "note"
  /\ IF Found(at[c].rec) THEN Reply(c, "ok", TRUE) ELSE Reply(c, "rejected", FALSE)
  /\ UNCHANGED <<table, ears>>

(* tool_log_activity and tool_create_task: the entry first, then the words *)
(* about its record, whose lookup can fail the request after the write.    *)
ToolLogActivity(c, r) ==
  /\ at[c] = AtRest
  /\ IF Found(r) THEN Go(c, [op |-> "describe", rec |-> r]) ELSE Reply(c, "rejected", FALSE)
  /\ UNCHANGED <<table, ears>>
DescribeRecord(c) ==
  /\ at[c].op = "describe"
  /\ at' = [at EXCEPT ![c] = AtRest]
  /\ \E status \in {"ok", "internal"} : Ends(status, FALSE, TRUE, TRUE)
  /\ UNCHANGED <<table, ears>>

(***************************************************************************)
(* Merges                                                                  *)
(***************************************************************************)
(* precheck_merge: the survivor, then the loser, a lock each.              *)
CheckSurvivor(c, r, l) ==
  /\ at[c] = AtRest
  /\ IF Found(r) THEN Go(c, [op |-> "loser", rec |-> r, other |-> l, met |-> FALSE])
     ELSE Reply(c, "not_found", FALSE)
  /\ UNCHANGED <<table, ears>>
CheckLoserById(c) ==
  /\ at[c].op = "loser"
  /\ IF at[c].other # at[c].rec /\ ObjectOf[at[c].other] = ObjectOf[at[c].rec]
     THEN Go(c, [at[c] EXCEPT !.op = "merge"]) ELSE Reply(c, "conflict", FALSE)
  /\ UNCHANGED <<table, ears>>
CheckLoser(c) ==
  /\ at[c].op = "loser"
  /\ IF /\ at[c].other # at[c].rec /\ Found(at[c].other)
        /\ ObjectOf[at[c].other] = ObjectOf[at[c].rec]
     THEN Go(c, [at[c] EXCEPT !.op = "merge"]) ELSE Reply(c, "conflict", FALSE)
  /\ UNCHANGED <<table, ears>>

(* plan_merge or merge_records through resolve_merge: which of the two the *)
(* request was makes no difference before this.                            *)
MergeFails(c) ==
  /\ at[c].op = "merge"
  /\ \/ ~Found(at[c].rec) /\ Reply(c, "not_found", FALSE)
     \/ Found(at[c].rec) /\ ~Found(at[c].other) /\ Reply(c, "internal", FALSE)
  /\ UNCHANGED <<table, ears>>
PreviewMerge(c) ==
  /\ at[c].op = "merge" /\ Found(at[c].rec) /\ Found(at[c].other)
  /\ Reply(c, "ok", FALSE) /\ UNCHANGED <<table, ears>>
(* Each field comes from either record or from the plan.  The loser goes   *)
(* to the trash, or for good.  What changed is told as an update, always,  *)
(* and never as a change of stage.                                         *)
MergeRecords(c) ==
  LET r == at[c].rec
      l == at[c].other
  IN  /\ at[c].op = "merge" /\ Found(r) /\ Found(l)
      /\ \E b \in Bag, hard \in BOOLEAN :
           /\ Commit(r, b) /\ Announce(r, b.stage # bag[r].stage, FALSE)
           /\ state' = [state EXCEPT ![l] = IF hard THEN "gone" ELSE "trash"]
           /\ at' = [Alarmed({}, IF hard THEN {l} ELSE {}) EXCEPT ![c] =
                       [op |-> "look_up",
                        news |-> [rec |-> r, bag |-> b, moved |-> FALSE, tool |-> FALSE]]]
      /\ reply' = NoReply /\ UNCHANGED known

(***************************************************************************)
(* Imports                                                                 *)
(***************************************************************************)
(* apply_import: rows are created and updated in one transaction.  Which   *)
(* rows those are, which of them fit under EVENT_FANOUT_LIMIT, and what is *)
(* answered before the commit is ImportJob's; two rows of a file may be    *)
(* one record, created and then updated.  No update of an import is told   *)
(* as a change of stage.                                                   *)
RowsApplied(c, new, old, b, fresh, changed) ==
  LET rows == new \cup old
      told == {r \in fresh \cup changed : Quiet(r)}
      moved == new \cup {r \in old : b[r].stage # bag[r].stage}
  IN  /\ \A r \in old : b[r] # bag[r] \/ r \in changed
      /\ state' = [r \in Rec |-> IF r \in new THEN "live" ELSE state[r]]
      /\ bag' = [r \in Rec |-> IF r \in rows THEN b[r] ELSE bag[r]]
      /\ Stale((staleBag \cup rows) \ told, (staleStage \cup moved) \ (told \cap fresh))
      /\ Go(c, [op |-> "import", fresh |-> fresh, changed |-> changed])
ImportApplied(c, o) ==
  /\ at[c] = AtRest /\ o \in known /\ writes < MaxWrites /\ writes' = writes + 1
  /\ \E new \in SUBSET {r \in Rec : ObjectOf[r] = o /\ state[r] = "absent"},
        old \in SUBSET {r \in RecordsOf(o) : state[r] = "live"} :
       \E b \in [new \cup old -> Bag], fresh \in SUBSET new, changed \in SUBSET (new \cup old) :
         RowsApplied(c, new, old, b, fresh, changed)
  /\ UNCHANGED known

(* emit_import_events: each row is read back and told, the created ones    *)
(* first.  Read and sent in one step here: a commit between the two makes  *)
(* the record one of those told of by two at once, as it does before it.   *)
(* An object that is gone took the rows with it.                           *)
Row(c) == IF at[c].fresh # {} THEN at[c].fresh ELSE at[c].changed
ImportTells(c, r) ==
  /\ Importing(c) /\ r \in Row(c)
  /\ IF Found(r) THEN Emit(r, bag[r], IF at[c].fresh # {} THEN bag[r].stage ELSE None)
     ELSE UNCHANGED ears
  /\ Go(c, IF at[c].fresh # {} THEN [at[c] EXCEPT !.fresh = @ \ {r}]
           ELSE [at[c] EXCEPT !.changed = @ \ {r}])
  /\ UNCHANGED table
ImportTold(c) ==
  /\ Importing(c) /\ Row(c) = {}
  /\ Reply(c, "ok", TRUE) /\ UNCHANGED <<table, ears>>
(* A lookup that fails fails the request: the rows not told yet never are. *)
RowsUntold(c) == Stale(staleBag \cup at[c].fresh \cup at[c].changed, staleStage \cup at[c].fresh)
ImportFails(c) ==
  /\ Importing(c) /\ RowsUntold(c)
  /\ at' = [at EXCEPT ![c] = AtRest] /\ Ends("internal", FALSE, TRUE, TRUE)
  /\ UNCHANGED table

(***************************************************************************)
(* What else goes on                                                       *)
(***************************************************************************)
(* delete_object takes the object's records along and tells nobody.        *)
ObjectDeleted(o) ==
  LET gone == RecordsOf(o)
  IN  /\ o \in known /\ known' = known \ {o}
      /\ Forget(gone) /\ at' = Alarmed({o}, gone) /\ reply' = NoReply
      /\ UNCHANGED <<writes, ears>>

(* Writers of many bags at once that tell nobody: the migration of an      *)
(* option, and delete_field, which strips the field's values from every    *)
(* record, those in the trash too.  A field of that slug may be made again.*)
SilentWrite(o, held, field, value) ==
  /\ o \in known /\ held # {}
  /\ writes < MaxWrites /\ writes' = writes + 1
  /\ bag' = [r \in Rec |-> IF r \in held THEN [bag[r] EXCEPT ![field] = value] ELSE bag[r]]
  /\ Stale(staleBag \cup held, IF field = "stage" THEN staleStage \cup held ELSE staleStage)
  /\ reply' = NoReply /\ UNCHANGED <<known, state, at>>
OptionMigrated(o, s, t) ==
  s # t /\ SilentWrite(o, {r \in RecordsOf(o) : bag[r].stage = s}, "stage", t)
FieldDeleted(o, field) ==
  SilentWrite(o, {r \in RecordsOf(o) : bag[r][field] # NoBag[field]}, field, NoBag[field])

(* The client hangs up, or the process stops: the handler ends where it    *)
(* is, and an event it was sending may be on its way.                      *)
Dropped(c) ==
  /\ at[c] # AtRest
  /\ IF Telling(c) THEN GiveUp(c) ELSE IF Importing(c) THEN RowsUntold(c) ELSE UNCHANGED ears
  /\ at' = [at EXCEPT ![c] = AtRest] /\ reply' = NoReply /\ UNCHANGED table

ReadStep(c) ==
  \/ \E o \in Object, op \in ObjectOp : ResolveObject(c, op, o)
  \/ \E r \in Rec : GetRecord(c, r) \/ \E op \in RecordOp : RequireRecord(c, op, r)
  \/ PageOfObject(c) \/ ValidateValues(c) \/ ReportOnObject(c)
  \/ PageOfRecord(c) \/ NoteAdded(c)
  \/ \E r \in Rec : ToolLogActivity(c, r)
  \/ DescribeRecord(c)
WriteStep(c) ==
  \/ CreateRecordWithValues(c)
  \/ \E r \in Rec : PatchRecord(c, r) \/ ToolUpdateRecord(c, r)
  \/ Trash(c) \/ Untrash(c) \/ Purged(c)
MergeStep(c) ==
  \/ \E r, l \in Rec : CheckSurvivor(c, r, l)
  \/ CheckLoser(c) \/ MergeFails(c) \/ PreviewMerge(c) \/ MergeRecords(c)
ImportStep(c) == \/ \E o \in Object : ImportApplied(c, o)
                 \/ \E r \in Rec : ImportTells(c, r)
                 \/ ImportTold(c) \/ ImportFails(c)
TellStep(c) == RecordCreated(c) \/ LookUp(c) \/ LookUpFails(c) \/ RecordUpdated(c)
               \/ DealStageChanged(c)
ApiNext ==
  \/ \E c \in Client : \/ ReadStep(c) \/ WriteStep(c) \/ MergeStep(c) \/ TellStep(c)
                       \/ ImportStep(c) \/ Dropped(c)
  \/ \E o \in Object : \/ ObjectDeleted(o)
                       \/ \E s, t \in StageId : OptionMigrated(o, s, t)
                       \/ \E field \in {"name", "stage"} : FieldDeleted(o, field)
ApiSpec == ApiInit /\ [][ApiNext]_apiVars

(* A consumer that keeps what the last event said keeps up with a record:  *)
(* once nobody has news of it left to send, that is the record's bag and   *)
(* its stage.  Excepted are the records it cannot know of: those of two    *)
(* commits told at once, those of an event that was lost, and, until the   *)
(* next commit that is told, those written by who tells nobody of it: the  *)
(* migration of an option, the deletion of a field, and an import beyond   *)
(* its fan-out limit; and, for the stage alone, by a merge, an import's    *)
(* update, and an update whose first changed field is another.             *)
ConsumersKeepUp ==
  \A r \in Rec : Found(r) /\ Quiet(r) =>
    /\ r \notin staleBag => heardBag[r] = bag[r]
    /\ r \notin staleStage => heardStage[r] = bag[r].stage

(* The lookups before the store's own leave nothing else to fail: only a   *)
(* handler that lost its object or record between two locks answers an     *)
(* opaque error, an empty page, or "no status field" of an object that is  *)
(* gone; and an agent's write or an import, although saved, when a lookup  *)
(* after it fails.                                                         *)
HonestAnswers ==
  /\ reply.status \in {"empty", "no_status"} => reply.met
  /\ reply.status = "internal" => reply.met \/ (reply.tool /\ reply.saved)
=================================================================================
