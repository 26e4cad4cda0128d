------------------------------- MODULE ImportJob -------------------------------
(***************************************************************************)
(* One CSV import job: the handlers that map, preview, apply and delete it,*)
(* run by several clients at once, against the records users write         *)
(* meanwhile.                                                              *)
(*                                                                         *)
(* A handler is several store calls and the store locks its connection per *)
(* call, so every check a handler makes on the job it loaded is a step of  *)
(* its own, taken before the call that acts on it.  One call of the store  *)
(* is one action: plan_import and the transaction of apply_import run      *)
(* under one lock.                                                         *)
(*                                                                         *)
(* The file has two columns.  "key" holds a unique field and is the only   *)
(* field a dedupe rule may match on; "extra" may be mapped to a field.     *)
(* The record a row creates is named by the row: landed counts how often   *)
(* the row was written, so a second landing shows there.                   *)
(***************************************************************************)
EXTENDS Naturals, FiniteSets

CONSTANTS Client,       \* requests in flight
          NumRows,      \* data rows of the file, in file order 1..NumRows
          RowKey,       \* the key cell of each row
          RowExtra,     \* the extra cell of each row, Blank when it is empty
          Key, Blank,
          UserRecord,   \* records the users create by hand
          UserCells,    \* the key and the extra cell of each of them
          Slug, NoSlug, \* fields the extra column can be mapped to
          Request,      \* the mappings a client may ask for
          FanoutLimit,  \* EVENT_FANOUT_LIMIT
          TypedCells,   \* bound: the contents users type over a record
          MaxEdits,     \* bound: what users do to stored records; a merge counts
                        \*   for two
          NoJob, NoPreview, NoResult

Row == 1..NumRows
RecordId == Row \cup UserRecord
Cell == {RowExtra[r] : r \in Row} \cup {UserCells[u].extra : u \in UserRecord}
          \cup {Blank}

(* ImportMapping plus ImportDedupe: which columns are mapped, whether key  *)
(* is a match field, and the strategy.                                     *)
Strategy == {"skip", "update", "fill_blanks", "create_always"}
Mapping == [key : BOOLEAN, extra : Slug \cup {NoSlug},
            match : BOOLEAN, strategy : Strategy]

ASSUME RowCells ==
  /\ NumRows \in Nat
  /\ RowKey \in [Row -> Key]
  /\ \A u \in UserRecord : UserCells[u].key \in Key
  /\ UserRecord \cap Row = {}
  /\ NoSlug \notin Slug
ASSUME Requests == Request \subseteq [map : Mapping, fresh : BOOLEAN]
ASSUME LimitAssumption == FanoutLimit \in Nat
ASSUME EditsAssumption ==
  /\ MaxEdits \in Nat
  /\ TypedCells \subseteq [key : Key, extra : Cell]
ASSUME Markers ==
  /\ {NoJob, NoPreview} \cap Mapping = {}
  /\ NoResult \notin [created : SUBSET Row, updated : SUBSET (Row \X RecordId),
                      skipped : SUBSET Row, failed : SUBSET Row]

VARIABLES status,   \* "none" before the upload; "deleted" once the job is gone
          mapping,  \* the saved mapping and dedupe rule
          preview,  \* the mapping the stored dry run was computed for
          result,   \* the stored outcome
          raw,      \* is raw_csv still there
          fields,   \* the slugs the object has a field for
          row,      \* row[x]: "free", "live", "deleted" or "gone"
          extra,    \* extra[x]: the value of the extra field
          keyOf,    \* keyOf[x]: the key of a record
          pc,       \* where each handler is
          req,      \* the mapping request a handler is working on
          todo,     \* rows whose event the handler has still to raise
          emitted,  \* events the handler has raised
          landed,   \* history: how often each row was written to records
          used,     \* history: the mapping the file was imported under
          bypassed, \* history: live records a restore brought back or a merge
                    \*   wrote since a user's write last checked their key
          edits,    \* what users did to stored records so far
          heard     \* history: events raised for each row

jobVars == <<status, mapping, preview, result, raw>>
recordVars == <<row, extra, keyOf, bypassed, edits>>
dbVars == <<fields, recordVars, landed, used>>
handlerVars == <<pc, req, todo, emitted>>
vars == <<status, mapping, preview, result, raw, fields, row, extra, keyOf,
          pc, req, todo, emitted, landed, used, bypassed, edits, heard>>

Status == {"none", "draft", "previewed", "applied", "deleted"}
Tally == [created : SUBSET Row, updated : SUBSET (Row \X RecordId),
          skipped : SUBSET Row, failed : SUBSET Row]
NoRows == [created |-> {}, updated |-> {}]

TypeOK ==
  /\ status \in Status
  /\ mapping \in Mapping \cup {NoJob}
  /\ preview \in Mapping \cup {NoPreview}
  /\ result \in Tally \cup {NoResult}
  /\ raw \in BOOLEAN
  /\ fields \subseteq Slug
  /\ row \in [RecordId -> {"free", "live", "deleted", "gone"}]
  /\ extra \in [RecordId -> Cell]
  /\ keyOf \in [RecordId -> Key \cup {Blank}]
  /\ pc \in [Client -> {"idle", "dry_run", "apply", "announce",
                       "announce_updated", "field", "save"}]
  /\ req \in [Client -> Request \cup {NoJob}]
  /\ todo \in [Client -> [created : SUBSET (Row \X RecordId),
                           updated : SUBSET (Row \X RecordId)]]
  /\ emitted \in [Client -> Nat]
  /\ landed \in [Row -> Nat]
  /\ used \in Mapping \cup {NoJob}
  /\ bypassed \subseteq RecordId
  /\ edits \in 0..MaxEdits
  /\ heard \in [Row -> Nat]

Init ==
  /\ status = "none"
  /\ mapping = NoJob
  /\ preview = NoPreview
  /\ result = NoResult
  /\ raw = FALSE
  /\ fields \in SUBSET Slug
  /\ row = [x \in RecordId |-> "free"]
  /\ extra = [x \in RecordId |-> Blank]
  /\ keyOf = [x \in RecordId |-> Blank]
  /\ pc = [c \in Client |-> "idle"]
  /\ req = [c \in Client |-> NoJob]
  /\ todo = [c \in Client |-> NoRows]
  /\ emitted = [c \in Client |-> 0]
  /\ landed = [r \in Row |-> 0]
  /\ used = NoJob
  /\ bypassed = {}
  /\ edits = 0
  /\ heard = [r \in Row |-> 0]

(***************************************************************************)
(* plan_import                                                             *)
(***************************************************************************)
Holders(k) == {x \in RecordId : row[x] = "live" /\ keyOf[x] = k}
MatchesOn(m) == m.key /\ m.match
Matched(m, r) == MatchesOn(m) /\ Holders(RowKey[r]) # {}

(* find_import_match orders by id; ids are random, so any fixed order will *)
(* do.                                                                     *)
Match(r) == CHOOSE x \in Holders(RowKey[r]) : TRUE

(* Mutant: the uniqueness check is left out.                               *)
ValidWhoeverHoldsIt(m, r) == m.key

(* validate_bag: the key may be held by the matched record and no other,   *)
(* and a row that matches nothing must carry it.                           *)
Valid(m, r) ==
  /\ m.key
  /\ \A x \in Holders(RowKey[r]) : Matched(m, r) /\ x = Match(r)

Incoming(m, r) == IF m.extra \in fields THEN RowExtra[r] ELSE Blank

(* Every row is planned against the records as they were before the file:  *)
(* two rows with one key do not see each other.                            *)
PlanRow(m, r) ==
  CASE ~Valid(m, r) -> "error"
    [] Valid(m, r) /\ (~Matched(m, r) \/ m.strategy = "create_always") -> "create"
    [] Valid(m, r) /\ Matched(m, r) /\ m.strategy = "skip" -> "skip"
    [] Valid(m, r) /\ Matched(m, r) /\ m.strategy = "update" -> "update"
    [] OTHER -> IF Incoming(m, r) # Blank /\ extra[Match(r)] = Blank
                  THEN "update" ELSE "skip"

File == IF raw THEN Row ELSE {}
Planned(a) == {r \in File : PlanRow(mapping, r) = a}

(* The extra field of x once the rows up to n have been written, in file   *)
(* order; a blank cell is not in the row's bag.                            *)
WritersOf(x, n) == {r \in Planned("update") :
                      r <= n /\ Match(r) = x /\ Incoming(mapping, r) # Blank}
ExtraAfter(x, n) ==
  LET writers == WritersOf(x, n)
      last == CHOOSE r \in writers : \A q \in writers : q <= r
  IN IF writers = {} THEN extra[x] ELSE Incoming(mapping, last)

(* An update whose diff is empty counts as skipped.                        *)
Changed == {r \in Planned("update") :
              /\ Incoming(mapping, r) # Blank
              /\ ExtraAfter(Match(r), r - 1) # Incoming(mapping, r)}

Outcome == [created |-> Planned("create"),
            updated |-> {<<r, Match(r)>> : r \in Changed},
            skipped |-> Planned("skip") \cup (Planned("update") \ Changed),
            failed  |-> Planned("error")]

(* The touched records by row, in file order, and the first n of them.     *)
Named(rows) == {<<r, r>> : r \in rows}
Rows(entries) == {e[1] : e \in entries}
FirstOf(entries, n) ==
  {e \in entries : Cardinality({o \in entries : o[1] < e[1]}) < n}

(***************************************************************************)
(* The store calls                                                         *)
(***************************************************************************)
(* create_import pre-fills the mapping from the headers; no dedupe rule.   *)
CreateImport(key, slug) ==
  /\ status = "none"
  /\ slug \in fields \cup {NoSlug}
  /\ status' = "draft"
  /\ mapping' = [key |-> key, extra |-> slug, match |-> FALSE, strategy |-> "skip"]
  /\ raw' = TRUE
  /\ UNCHANGED <<preview, result, dbVars, handlerVars, heard>>

(* Mutant: a remap that leaves the old preview on the job.                 *)
SaveKeepingPreview(m) ==
  /\ status \notin {"none", "applied", "deleted"}
  /\ mapping' = m
  /\ UNCHANGED <<status, preview, result, raw>>

(* set_import_mapping: refuses an applied job, clears any stale preview.   *)
SetImportMapping(m) ==
  /\ status \notin {"none", "applied", "deleted"}
  /\ mapping' = m
  /\ preview' = NoPreview
  /\ status' = "draft"
  /\ UNCHANGED <<result, raw>>

(* Mutant: a dry run that does not notice that the job is gone.            *)
DryRunOfNoJob ==
  /\ status # "none"
  /\ preview' = mapping
  /\ status' = "previewed"
  /\ UNCHANGED <<mapping, result, raw>>

(* dry_run_import: nothing here asks whether the job was applied.          *)
DryRunImport ==
  /\ status \notin {"none", "deleted"}
  /\ preview' = mapping
  /\ status' = "previewed"
  /\ UNCHANGED <<mapping, result, raw>>

(* What the transaction of apply_import writes: the rows, the outcome and  *)
(* the status land together.                                               *)
WriteRows ==
  /\ result' = Outcome
  /\ status' = "applied"
  /\ row' = [x \in RecordId |-> IF x \in Outcome.created THEN "live" ELSE row[x]]
  /\ keyOf' = [x \in RecordId |->
                 IF x \in Outcome.created THEN RowKey[x] ELSE keyOf[x]]
  /\ extra' = [x \in RecordId |-> IF x \in Outcome.created
                                    THEN Incoming(mapping, x)
                                    ELSE ExtraAfter(x, NumRows)]
  /\ landed' = [r \in Row |-> IF r \in Outcome.created \/ r \in Rows(Outcome.updated)
                                THEN landed[r] + 1 ELSE landed[r]]
  /\ used' = IF raw THEN mapping ELSE used
  /\ UNCHANGED <<mapping, preview, fields, bypassed, edits>>

(* Mutant: an apply that keeps the uploaded file.                          *)
ApplyKeepingFile ==
  /\ status \notin {"none", "applied", "deleted"}
  /\ WriteRows
  /\ UNCHANGED raw

(* apply_import refuses an applied job and drops the file with the rows.   *)
ApplyImport ==
  /\ status \notin {"none", "applied", "deleted"}
  /\ WriteRows
  /\ raw' = FALSE

DeleteImport ==
  /\ status \notin {"none", "deleted"}
  /\ status' = "deleted"
  /\ mapping' = NoJob
  /\ preview' = NoPreview
  /\ result' = NoResult
  /\ raw' = FALSE
  /\ UNCHANGED <<dbVars, handlerVars, heard>>

(***************************************************************************)
(* The handlers                                                            *)
(***************************************************************************)
Goto(c, step) == pc' = [pc EXCEPT ![c] = step]

Finish(c) ==
  /\ Goto(c, "idle")
  /\ req' = [req EXCEPT ![c] = NoJob]
  /\ todo' = [todo EXCEPT ![c] = NoRows]
  /\ emitted' = [emitted EXCEPT ![c] = 0]

HasMapping(m) == m.key \/ m.extra # NoSlug

(* load_job, reject_if_applied and require_a_mapping, on the copy of the   *)
(* job just read.  A request they refuse changes nothing.                  *)
BeginPreview(c) ==
  /\ pc[c] = "idle"
  /\ status \in {"draft", "previewed"}
  /\ HasMapping(mapping)
  /\ Goto(c, "dry_run")
  /\ UNCHANGED <<jobVars, dbVars, req, todo, emitted, heard>>

RunPreview(c) ==
  /\ pc[c] = "dry_run"
  /\ DryRunImport \/ (status = "deleted" /\ UNCHANGED jobVars)
  /\ Finish(c)
  /\ UNCHANGED <<dbVars, heard>>

BeginApply(c) ==
  /\ pc[c] = "idle"
  /\ status \in {"draft", "previewed"}
  /\ HasMapping(mapping)
  /\ Goto(c, "apply")
  /\ UNCHANGED <<jobVars, dbVars, req, todo, emitted, heard>>

RunApply(c) ==
  /\ pc[c] = "apply"
  /\ ApplyImport
  /\ todo' = [todo EXCEPT ![c] = [created |-> FirstOf(Named(Outcome.created), FanoutLimit),
                                  updated |-> Outcome.updated]]
  /\ Goto(c, "announce")
  /\ UNCHANGED <<req, emitted, heard>>

(* Applied meanwhile (the store's bail!), or gone (404).                   *)
ApplyRefused(c) ==
  /\ pc[c] = "apply"
  /\ status \in {"applied", "deleted"}
  /\ Finish(c)
  /\ UNCHANGED <<jobVars, dbVars, heard>>

(* Mutant: the loop over the updated rows gets a limit of its own.         *)
WholeLimitLeft(c) == FanoutLimit

(* FANOUT_LIMIT - emitted: what the created rows leave of the limit.       *)
Remaining(c) == FanoutLimit - emitted[c]

(* One round of a loop of emit_import_events: read the record back, raise  *)
(* the event if it is still there.                                         *)
AnnounceNext(c, batch) ==
  /\ \E e \in todo[c][batch] :
       /\ \A o \in todo[c][batch] : e[1] <= o[1]
       /\ IF row[e[2]] # "gone"
            THEN /\ heard' = [heard EXCEPT ![e[1]] = @ + 1]
                 /\ emitted' = [emitted EXCEPT ![c] = @ + 1]
            ELSE UNCHANGED <<heard, emitted>>
       /\ todo' = [todo EXCEPT ![c][batch] = @ \ {e}]
  /\ UNCHANGED <<jobVars, dbVars, pc, req>>

AnnounceCreated(c) == pc[c] = "announce" /\ AnnounceNext(c, "created")

CreatedAnnounced(c) ==
  /\ pc[c] = "announce"
  /\ todo[c].created = {}
  /\ todo' = [todo EXCEPT ![c].updated = FirstOf(@, Remaining(c))]
  /\ Goto(c, "announce_updated")
  /\ UNCHANGED <<jobVars, dbVars, req, emitted, heard>>

AnnounceUpdated(c) == pc[c] = "announce_updated" /\ AnnounceNext(c, "updated")

ApplyDone(c) ==
  /\ pc[c] = "announce_updated"
  /\ todo[c].updated = {}
  /\ Finish(c)
  /\ UNCHANGED <<jobVars, dbVars, heard>>

(* put_mapping: the job is loaded and checked, the extra column resolved   *)
(* to a field the object has, or a new one is asked for.                   *)
BeginMapping(c, q) ==
  /\ pc[c] = "idle"
  /\ status \in {"draft", "previewed"}
  /\ IF q.fresh THEN q.map.extra # NoSlug ELSE q.map.extra \in fields \cup {NoSlug}
  /\ Goto(c, IF q.fresh THEN "field" ELSE "save")
  /\ req' = [req EXCEPT ![c] = q]
  /\ UNCHANGED <<jobVars, dbVars, todo, emitted, heard>>

(* create_field; a slug taken meanwhile ends the request with a 422.       *)
CreateField(c) ==
  LET slug == req[c].map.extra
  IN /\ pc[c] = "field"
     /\ \/ /\ slug \notin fields
           /\ fields' = fields \cup {slug}
           /\ Goto(c, "save")
           /\ UNCHANGED <<req, todo, emitted>>
        \/ /\ slug \in fields
           /\ Finish(c)
           /\ UNCHANGED fields
     /\ UNCHANGED <<jobVars, recordVars, landed, used, heard>>

(* resolve_dedupe, then the save: a match field no column feeds is a 400,  *)
(* a job applied or deleted meanwhile a 409.                               *)
SaveMapping(c) ==
  LET m == req[c].map
  IN /\ pc[c] = "save"
     /\ \/ (m.match => m.key) /\ SetImportMapping(m)
        \/ /\ (m.match /\ ~m.key) \/ status \in {"applied", "deleted"}
           /\ UNCHANGED jobVars
     /\ Finish(c)
     /\ UNCHANGED <<dbVars, heard>>

(* The process stops: every handler is cut off where it is.                *)
Crash ==
  /\ pc # [c \in Client |-> "idle"]
  /\ pc' = [c \in Client |-> "idle"]
  /\ req' = [c \in Client |-> NoJob]
  /\ todo' = [c \in Client |-> NoRows]
  /\ emitted' = [c \in Client |-> 0]
  /\ UNCHANGED <<jobVars, dbVars, heard>>

(***************************************************************************)
(* What users do to the records meanwhile                                  *)
(***************************************************************************)
UserWrite == UNCHANGED <<jobVars, fields, landed, used, handlerVars, heard>>
Edit(cost) == edits + cost <= MaxEdits /\ edits' = edits + cost /\ UserWrite

CreateRecord(u) ==
  /\ row[u] = "free"
  /\ Holders(UserCells[u].key) = {}
  /\ row' = [row EXCEPT ![u] = "live"]
  /\ keyOf' = [keyOf EXCEPT ![u] = UserCells[u].key]
  /\ extra' = [extra EXCEPT ![u] = UserCells[u].extra]
  /\ UNCHANGED <<bypassed, edits>>
  /\ UserWrite

Stored(x) == row[x] \in {"live", "deleted"}

(* update_record, in the trash too: a key the request carries is checked   *)
(* against the live records, one it leaves out is not.                     *)
UpdateRecord(x, t) ==
  /\ Edit(1)
  /\ Stored(x)
  /\ \/ UNCHANGED <<keyOf, bypassed>>
     \/ /\ Holders(t.key) \subseteq {x}
        /\ keyOf' = [keyOf EXCEPT ![x] = t.key]
        /\ bypassed' = bypassed \ {x}
  /\ extra' = [extra EXCEPT ![x] = t.extra]
  /\ UNCHANGED row

(* A field of a merge's survivor: its own value, a loser's, what the user  *)
(* typed, or a blank when the plan names a stranger.                       *)
Resolutions(own, s, losers, typed) == {own[x] : x \in losers \cup {s}} \cup typed \cup {Blank}

(* merge_records: the losers are retired, softly or for good, and nothing  *)
(* checks the survivor's key.                                              *)
MergeRecords(s, losers) ==
  /\ Edit(2)
  /\ s \notin losers /\ losers # {}
  /\ \A x \in losers \cup {s} : Stored(x)
  /\ \E retired \in {"deleted", "gone"} :
       row' = [x \in RecordId |-> IF x \in losers THEN retired ELSE row[x]]
  /\ \E k \in Resolutions(keyOf, s, losers, {t.key : t \in TypedCells}) :
       keyOf' = [keyOf EXCEPT ![s] = k]
  /\ \E v \in Resolutions(extra, s, losers, {t.extra : t \in TypedCells}) :
       extra' = [extra EXCEPT ![s] = v]
  /\ bypassed' = (bypassed \cup {s}) \cap {x \in RecordId : row'[x] = "live"}

DeleteRecord(x) ==
  /\ Edit(1)
  /\ row[x] = "live"
  /\ row' = [row EXCEPT ![x] = "deleted"]
  /\ bypassed' = bypassed \ {x}
  /\ UNCHANGED <<extra, keyOf>>

(* restore_record asks nobody whether the key was taken meanwhile.         *)
RestoreRecord(x) ==
  /\ Edit(1)
  /\ row[x] = "deleted"
  /\ row' = [row EXCEPT ![x] = "live"]
  /\ bypassed' = bypassed \cup {x}
  /\ UNCHANGED <<extra, keyOf>>

PurgeRecord(x) ==
  /\ Edit(1)
  /\ Stored(x)
  /\ row' = [row EXCEPT ![x] = "gone"]
  /\ bypassed' = bypassed \ {x}
  /\ UNCHANGED <<extra, keyOf>>

Next ==
  \/ \E key \in BOOLEAN, slug \in Slug \cup {NoSlug} : CreateImport(key, slug)
  \/ DeleteImport
  \/ \E c \in Client :
       \/ BeginPreview(c) \/ RunPreview(c)
       \/ BeginApply(c) \/ RunApply(c) \/ ApplyRefused(c)
       \/ AnnounceCreated(c) \/ CreatedAnnounced(c)
       \/ AnnounceUpdated(c) \/ ApplyDone(c)
       \/ \E q \in Request : BeginMapping(c, q)
       \/ CreateField(c) \/ SaveMapping(c)
  \/ Crash
  \/ \E u \in UserRecord : CreateRecord(u)
  \/ \E x \in RecordId, t \in TypedCells : UpdateRecord(x, t)
  \/ \E s \in RecordId, losers \in SUBSET RecordId : MergeRecords(s, losers)
  \/ \E x \in RecordId : DeleteRecord(x) \/ RestoreRecord(x) \/ PurgeRecord(x)

Spec == Init /\ [][Next]_vars

--------------------------------------------------------------------------------
(***************************************************************************)
(* Properties                                                              *)
(***************************************************************************)
(* However many clients preview, remap and apply one job at once, no row   *)
(* of its file is written twice, and no row is announced that was not      *)
(* written, nor twice.  The status alone does not carry this: a preview    *)
(* let in before the apply takes an applied job back to "previewed".       *)
RowsLandOnce == \A r \in Row : landed[r] <= 1 /\ heard[r] <= landed[r]

(* A stored preview was computed for the mapping the job has now, whatever *)
(* was remapped, applied or reopened while the dry run was on its way.     *)
PreviewIsCurrent == preview # NoPreview => preview = mapping

(* One apply raises at most EVENT_FANOUT_LIMIT events, created and updated *)
(* rows together, even when records vanish while it announces.             *)
FanoutCapped == \A c \in Client : emitted[c] <= FanoutLimit

(* Once a job has an outcome, no later request of any client writes a      *)
(* single row: the most it can do to the outcome is to empty it.           *)
OutcomeOnlyEmptied ==
  [][result # NoResult =>
       /\ landed' = landed
       /\ result' \in {result, NoResult,
                       [created |-> {}, updated |-> {}, skipped |-> {}, failed |-> {}]}]_vars

(* Two live records share the unique key only if both came out of the      *)
(* file, the dedupe rule said create_always, or one of the two came back   *)
(* through a restore or survived a merge: no race of clients, and no write *)
(* of a user that checks the key, makes the file collide with a record it  *)
(* did not create.                                                         *)
DuplicatesComeFromTheFile ==
  \A x, y \in RecordId :
    /\ x # y /\ row[x] = "live" /\ row[y] = "live" /\ keyOf[x] = keyOf[y]
    => \/ x \in Row /\ y \in Row
       \/ used # NoJob /\ used.strategy = "create_always"
       \/ x \in bypassed \/ y \in bypassed

(* The outcome of the first apply stays on the job.                        *)
OutcomeIsKept ==
  [][result # NoResult => result' = result \/ status' = "deleted"]_vars
================================================================================
