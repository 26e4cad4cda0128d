---------------------------- MODULE ImportJobProofs ----------------------------
(***************************************************************************)
(* No row of an import is written or announced twice, and an outcome is    *)
(* never replaced by one that wrote a row, for any number of clients and   *)
(* any file.                                                               *)
(*                                                                         *)
(* The argument is about the file, not the status.  A dry run let in       *)
(* before the apply takes an applied job back to "previewed", and the next *)
(* apply runs; it writes nothing only because the first one dropped        *)
(* raw_csv in its transaction.  So: while the file is there, nothing was   *)
(* written (FileUntouched); once it is gone, every plan is empty           *)
(* (EmptyOutcome).  The types (Working, AllFit) carry the rest: what a     *)
(* preview is of, whose keys meet, and how many events an apply raises.    *)
(***************************************************************************)
EXTENDS ImportJob, TLAPS, FunctionTheorems, FiniteSetTheorems,
        WellFoundedInduction

Batch == {"created", "updated"}

Types ==
  /\ status \in Status
  /\ raw \in BOOLEAN
  /\ landed \in [Row -> Nat]
  /\ heard \in [Row -> Nat]
  /\ todo \in [Client -> [created : SUBSET (Row \X RecordId),
                          updated : SUBSET (Row \X RecordId)]]

(* Before the upload and for as long as the file is kept, no row was       *)
(* written or announced, none is waiting to be, and there is no outcome.   *)
FileUntouched ==
  status = "none" \/ raw =>
    /\ \A r \in Row : landed[r] = 0 /\ heard[r] = 0
    /\ \A c \in Client : todo[c] = NoRows
    /\ result = NoResult

(* A row waiting to be announced was written once and not announced yet.   *)
PendingIsFresh ==
  \A c \in Client, b \in Batch : \A e \in todo[c][b] :
    landed[e[1]] = 1 /\ heard[e[1]] = 0

(* ... and waits in one place.                                             *)
PendingApart ==
  \A c, d \in Client, a, b \in Batch : \A e \in todo[c][a], f \in todo[d][b] :
    e[1] = f[1] => c = d /\ a = b /\ e = f

IInv == Types /\ FileUntouched /\ RowsLandOnce /\ PendingIsFresh /\ PendingApart

--------------------------------------------------------------------------------
(* What plan_import hands to the transaction: rows of the file, each under *)
(* one action.                                                             *)
LEMMA OutcomeShape ==
  /\ Outcome.created \subseteq Row
  /\ Outcome.updated \subseteq Row \X RecordId
  /\ \A e, f \in Outcome.updated : e[1] = f[1] => e = f
  /\ Rows(Outcome.updated) \subseteq Row
  /\ Outcome.created \cap Rows(Outcome.updated) = {}
<1>1. \A a : Planned(a) \subseteq Row
  BY DEF Planned, File
<1>2. \A r \in Planned("update") : Match(r) \in RecordId
  <2>. SUFFICES ASSUME NEW r \in Planned("update") PROVE Match(r) \in RecordId
    OBVIOUS
  <2>1. PlanRow(mapping, r) = "update"
    BY DEF Planned
  <2>2. Matched(mapping, r)
    BY <2>1 DEF PlanRow
  <2>3. Match(r) \in Holders(RowKey[r])
    BY <2>2 DEF Matched, Match
  <2>. QED
    BY <2>3 DEF Holders
<1>3. Changed \subseteq Planned("update")
  BY DEF Changed
<1>4. /\ Outcome.created = Planned("create")
      /\ Outcome.updated = {<<r, Match(r)>> : r \in Changed}
  BY DEF Outcome
<1>5. Rows(Outcome.updated) = Changed
  <2>. DEFINE pair(r) == <<r, Match(r)>>
  <2>1. \A r : pair(r)[1] = r
    OBVIOUS
  <2>2. Outcome.updated = {pair(r) : r \in Changed}
    BY <1>4
  <2>3. Rows(Outcome.updated) = {e[1] : e \in {pair(r) : r \in Changed}}
    BY <2>2 DEF Rows
  <2>. HIDE DEF pair
  <2>. QED
    BY <2>1, <2>3
<1>6. Planned("create") \cap Planned("update") = {}
  BY DEF Planned
<1>7. Changed \subseteq Row
  BY <1>1, <1>3
<1>8. Outcome.updated \subseteq Row \X RecordId
  <2>. SUFFICES ASSUME NEW r \in Changed PROVE <<r, Match(r)>> \in Row \X RecordId
    BY <1>4
  <2>. QED
    BY <1>2, <1>3, <1>7
<1>9. \A e, f \in Outcome.updated : e[1] = f[1] => e = f
  BY <1>4
<1>10. Outcome.created \cap Rows(Outcome.updated) = {}
  BY <1>3, <1>4, <1>5, <1>6
<1>11. Outcome.created \subseteq Row /\ Rows(Outcome.updated) \subseteq Row
  BY <1>1, <1>4, <1>5, <1>7
<1>. QED
  BY <1>8, <1>9, <1>10, <1>11

(* With the file gone there is nothing to plan.                            *)
LEMMA EmptyOutcome ==
  ASSUME ~raw
  PROVE  Outcome = [created |-> {}, updated |-> {}, skipped |-> {}, failed |-> {}]
<1>1. File = {}
  BY DEF File
<1>2. \A a : Planned(a) = {}
  BY <1>1 DEF Planned
<1>3. Changed = {}
  BY <1>2 DEF Changed
<1>. QED
  BY <1>2, <1>3 DEF Outcome

(* ... and if it is there, what the apply queues is of rows it wrote.      *)
LEMMA QueuedShape ==
  ASSUME NEW n
  PROVE  LET q == FirstOf(Named(Outcome.created), n)
         IN /\ q \subseteq Row \X RecordId
            /\ \A e \in q : e[1] \in Outcome.created
            /\ \A e, f \in q : e[1] = f[1] => e = f
<1>1. Outcome.created \subseteq Row
  BY OutcomeShape
<1>2. Row \subseteq RecordId
  BY DEF RecordId
<1>3. Named(Outcome.created) \subseteq Row \X RecordId
  BY <1>1, <1>2 DEF Named
<1>4. /\ \A e \in Named(Outcome.created) : e[1] \in Outcome.created
      /\ \A e, f \in Named(Outcome.created) : e[1] = f[1] => e = f
  BY DEF Named
<1>5. FirstOf(Named(Outcome.created), n) \subseteq Named(Outcome.created)
  BY DEF FirstOf
<1>. QED
  BY <1>3, <1>4, <1>5

(* The parts of the state IInv speaks of.                                  *)
tracked == <<status, result, raw, landed, heard, todo>>

LEMMA TrackedUnchanged ==
  ASSUME IInv, UNCHANGED tracked
  PROVE  IInv'
BY DEF tracked, IInv, Types, FileUntouched, RowsLandOnce, PendingIsFresh,
       PendingApart

(* What users do to the records that are there: no part of it is the job's.*)
EditRecords ==
  \/ \E x \in RecordId, t \in TypedCells : UpdateRecord(x, t)
  \/ \E s \in RecordId, losers \in SUBSET RecordId : MergeRecords(s, losers)
  \/ \E x \in RecordId : DeleteRecord(x) \/ RestoreRecord(x) \/ PurgeRecord(x)

LEMMA EditLeavesTheJob ==
  ASSUME EditRecords
  PROVE  UNCHANGED <<status, mapping, preview, result, raw, fields, landed, used,
                     pc, req, todo, emitted, heard>>
BY DEF EditRecords, UpdateRecord, MergeRecords, DeleteRecord, RestoreRecord,
       PurgeRecord, Edit, UserWrite, jobVars, handlerVars

(* A handler that ends drops what it had to announce and nothing else.     *)
LEMMA FinishKeepsIInv ==
  ASSUME IInv, NEW c \in Client, Finish(c),
         UNCHANGED <<status, raw, landed, heard>>, result' \in {result, NoResult}
  PROVE  IInv'
<1>. USE DEF IInv, Types
<1>1. todo' = [todo EXCEPT ![c] = NoRows]
  BY DEF Finish
<1>2. Types'
  BY <1>1 DEF NoRows
<1>3. FileUntouched'
  BY <1>1 DEF FileUntouched
<1>4. RowsLandOnce'
  BY DEF RowsLandOnce
<1>5. \A d \in Client, b \in Batch : todo'[d][b] \subseteq todo[d][b]
  BY <1>1 DEF NoRows, Batch
<1>6. PendingIsFresh'
  BY <1>5 DEF PendingIsFresh
<1>7. PendingApart'
  BY <1>5 DEF PendingApart
<1>. QED
  BY <1>2, <1>3, <1>4, <1>6, <1>7

LEMMA InitIInv == Init => IInv
<1>. SUFFICES ASSUME Init PROVE IInv
  OBVIOUS
<1>. USE DEF Init
<1>1. Types
  BY DEF Types, Status, NoRows
<1>2. FileUntouched /\ RowsLandOnce
  BY DEF FileUntouched, RowsLandOnce
<1>3. \A c \in Client, b \in Batch : todo[c][b] = {}
  BY DEF NoRows, Batch
<1>4. PendingIsFresh /\ PendingApart
  BY <1>3 DEF PendingIsFresh, PendingApart
<1>. QED
  BY <1>1, <1>2, <1>4 DEF IInv

LEMMA RunApplyIInv ==
  ASSUME IInv, NEW c \in Client, RunApply(c)
  PROVE  IInv'
<1>. USE DEF IInv, Types
<1>1. /\ raw' = FALSE /\ status' = "applied"
      /\ landed' = [r \in Row |->
                      IF r \in Outcome.created \/ r \in Rows(Outcome.updated)
                        THEN landed[r] + 1 ELSE landed[r]]
      /\ todo' = [todo EXCEPT ![c] =
                    [created |-> FirstOf(Named(Outcome.created), FanoutLimit),
                     updated |-> Outcome.updated]]
      /\ heard' = heard
  BY DEF RunApply, ApplyImport, WriteRows
<1>2. Types'
  <2>1. status' \in Status /\ raw' \in BOOLEAN /\ heard' \in [Row -> Nat]
    BY <1>1 DEF Status
  <2>2. landed' \in [Row -> Nat]
    BY <1>1
  <2>3. FirstOf(Named(Outcome.created), FanoutLimit) \subseteq Row \X RecordId
    BY QueuedShape
  <2>4. todo' \in [Client -> [created : SUBSET (Row \X RecordId),
                             updated : SUBSET (Row \X RecordId)]]
    BY <1>1, <2>3, OutcomeShape
  <2>. QED
    BY <2>1, <2>2, <2>4
<1>3. FileUntouched'
  BY <1>1 DEF FileUntouched
<1>4. CASE ~raw
  <2>1. /\ Outcome.created = {} /\ Outcome.updated = {}
    BY <1>4, EmptyOutcome
  <2>2. Rows(Outcome.updated) = {} /\ FirstOf(Named(Outcome.created), FanoutLimit) = {}
    BY <2>1 DEF Rows, Named, FirstOf
  <2>3. landed' = landed
    BY <1>1, <2>1, <2>2
  <2>4. todo' = [todo EXCEPT ![c] = [created |-> {}, updated |-> {}]]
    BY <1>1, <2>1, <2>2
  <2>5. \A d \in Client, b \in Batch : todo'[d][b] \subseteq todo[d][b]
    BY <2>4 DEF Batch
  <2>6. RowsLandOnce'
    BY <1>1, <2>3 DEF RowsLandOnce
  <2>7. PendingIsFresh'
    BY <1>1, <2>3, <2>5 DEF PendingIsFresh
  <2>8. PendingApart'
    BY <2>5 DEF PendingApart
  <2>. QED
    BY <1>2, <1>3, <2>6, <2>7, <2>8
<1>5. CASE raw
  <2>1. /\ \A r \in Row : landed[r] = 0 /\ heard[r] = 0
        /\ \A d \in Client : todo[d] = NoRows
    BY <1>5 DEF FileUntouched
  <2>2. RowsLandOnce'
    BY <1>1, <2>1 DEF RowsLandOnce
  <2>3. \A d \in Client \ {c}, b \in Batch : todo'[d][b] = {}
    BY <1>1, <2>1 DEF NoRows, Batch
  <2>4. /\ todo'[c]["created"] = FirstOf(Named(Outcome.created), FanoutLimit)
        /\ todo'[c]["updated"] = Outcome.updated
    BY <1>1
  <2>5. /\ \A e \in todo'[c]["created"] : e[1] \in Outcome.created
        /\ \A e \in todo'[c]["updated"] : e[1] \in Rows(Outcome.updated)
    BY <2>4, QueuedShape DEF Rows
  <2>6. \A r \in Row : r \in Outcome.created \/ r \in Rows(Outcome.updated)
                         => landed'[r] = 1 /\ heard'[r] = 0
    BY <1>1, <2>1
  <2>7. PendingIsFresh'
    BY <2>3, <2>5, <2>6, OutcomeShape DEF PendingIsFresh, Batch
  <2>8. PendingApart'
    <3>. SUFFICES ASSUME NEW a \in Batch, NEW b \in Batch,
                         NEW e \in todo'[c][a], NEW f \in todo'[c][b], e[1] = f[1]
                  PROVE  a = b /\ e = f
      BY <2>3 DEF PendingApart
    <3>1. a = b
      BY <2>5, OutcomeShape DEF Batch
    <3>2. e = f
      BY <3>1, <2>4, QueuedShape, OutcomeShape DEF Batch
    <3>. QED
      BY <3>1, <3>2
  <2>. QED
    BY <1>2, <1>3, <2>2, <2>7, <2>8
<1>. QED
  BY <1>4, <1>5

LEMMA AnnounceIInv ==
  ASSUME IInv, NEW c \in Client, NEW b \in Batch, AnnounceNext(c, b)
  PROVE  IInv'
<1>. USE DEF IInv, Types
<1>1. PICK e \in todo[c][b] :
        /\ IF row[e[2]] # "gone" THEN heard' = [heard EXCEPT ![e[1]] = @ + 1]
                                 ELSE heard' = heard
        /\ todo' = [todo EXCEPT ![c][b] = @ \ {e}]
  BY DEF AnnounceNext
<1>2. UNCHANGED <<status, raw, result, landed>>
  BY DEF AnnounceNext, jobVars, dbVars
<1>3. e \in Row \X RecordId /\ e[1] \in Row
  BY DEF Batch
<1>4. landed[e[1]] = 1 /\ heard[e[1]] = 0
  BY DEF PendingIsFresh
<1>5. Types'
  BY <1>1, <1>2, <1>3 DEF Batch
<1>6. FileUntouched'
  BY <1>2, <1>3, <1>4 DEF FileUntouched
<1>7. RowsLandOnce'
  BY <1>1, <1>2, <1>3, <1>4 DEF RowsLandOnce
<1>8. \A d \in Client, a \in Batch : \A f \in todo'[d][a] :
        f \in todo[d][a] /\ (f # e \/ d # c \/ a # b)
  BY <1>1 DEF Batch
<1>9. PendingApart'
  BY <1>8 DEF PendingApart
<1>10. PendingIsFresh'
  <2>. SUFFICES ASSUME NEW d \in Client, NEW a \in Batch, NEW f \in todo'[d][a]
                PROVE  landed'[f[1]] = 1 /\ heard'[f[1]] = 0
    BY DEF PendingIsFresh
  <2>1. f \in todo[d][a]
    BY <1>8
  <2>2. f[1] # e[1]
    BY <1>8, <2>1 DEF PendingApart
  <2>3. landed[f[1]] = 1 /\ heard[f[1]] = 0
    BY <2>1 DEF PendingIsFresh
  <2>4. f[1] \in Row
    BY <2>1 DEF Batch
  <2>. QED
    BY <1>1, <1>2, <1>3, <2>2, <2>3, <2>4
<1>. QED
  BY <1>5, <1>6, <1>7, <1>9, <1>10

(* Leaving the announced-created loop only cuts the queue of updated rows. *)
LEMMA CreatedAnnouncedIInv ==
  ASSUME IInv, NEW c \in Client, CreatedAnnounced(c)
  PROVE  IInv'
<1>. USE DEF IInv, Types
<1>1. todo' = [todo EXCEPT ![c].updated = FirstOf(@, Remaining(c))]
  BY DEF CreatedAnnounced
<1>2. UNCHANGED <<status, raw, result, landed, heard>>
  BY DEF CreatedAnnounced, jobVars, dbVars
<1>3. FirstOf(todo[c].updated, Remaining(c)) \subseteq todo[c].updated
  BY DEF FirstOf
<1>4. \A d \in Client, b \in Batch : todo'[d][b] \subseteq todo[d][b]
  BY <1>1, <1>3 DEF Batch
<1>5. Types'
  BY <1>1, <1>2, <1>3
<1>6. FileUntouched'
  <2>. SUFFICES ASSUME todo[c] = NoRows PROVE todo' = todo
    BY <1>2 DEF FileUntouched
  <2>1. FirstOf(todo[c].updated, Remaining(c)) = todo[c].updated
    BY <1>3 DEF NoRows
  <2>. QED
    BY <1>1, <2>1
<1>7. RowsLandOnce' /\ PendingIsFresh' /\ PendingApart'
  BY <1>2, <1>4 DEF RowsLandOnce, PendingIsFresh, PendingApart
<1>. QED
  BY <1>5, <1>6, <1>7

LEMMA NextIInv == IInv /\ [Next]_vars => IInv'
<1>. SUFFICES ASSUME IInv, [Next]_vars PROVE IInv'
  OBVIOUS
<1>. USE DEF jobVars, dbVars, recordVars, handlerVars
<1>1. ASSUME NEW key \in BOOLEAN, NEW slug \in Slug \cup {NoSlug},
             CreateImport(key, slug)
      PROVE  IInv'
  <2>1. /\ status = "none" /\ status' = "draft" /\ raw' = TRUE
        /\ UNCHANGED <<result, landed, heard, todo>>
    BY <1>1 DEF CreateImport
  <2>. QED
    BY <2>1 DEF IInv, Types, FileUntouched, RowsLandOnce, PendingIsFresh,
                PendingApart, Status
<1>2. CASE DeleteImport
  <2>1. /\ status' = "deleted" /\ raw' = FALSE
        /\ UNCHANGED <<landed, heard, todo>>
    BY <1>2 DEF DeleteImport
  <2>2. Types' /\ FileUntouched'
    BY <2>1 DEF IInv, Types, FileUntouched, Status
  <2>3. RowsLandOnce' /\ PendingIsFresh' /\ PendingApart'
    BY <2>1 DEF IInv, RowsLandOnce, PendingIsFresh, PendingApart
  <2>. QED
    BY <2>2, <2>3 DEF IInv
<1>3. ASSUME NEW c \in Client, BeginPreview(c) PROVE IInv'
  BY <1>3, TrackedUnchanged DEF BeginPreview, tracked
<1>4. ASSUME NEW c \in Client, RunPreview(c) PROVE IInv'
  <2>1. /\ status' \in Status /\ status' # "none" /\ raw' = raw /\ result' = result
        /\ UNCHANGED <<landed, heard>> /\ Finish(c)
    BY <1>4 DEF RunPreview, DryRunImport, IInv, Types, Status
  <2>2. todo' = [todo EXCEPT ![c] = NoRows]
    BY <2>1 DEF Finish
  <2>3. \A d \in Client, b \in Batch : todo'[d][b] \subseteq todo[d][b]
    BY <2>2 DEF IInv, Types, NoRows, Batch
  <2>4. Types'
    BY <2>1, <2>2 DEF IInv, Types, NoRows
  <2>5. FileUntouched'
    BY <2>1, <2>2 DEF IInv, Types, FileUntouched
  <2>6. RowsLandOnce' /\ PendingIsFresh' /\ PendingApart'
    BY <2>1, <2>3 DEF IInv, RowsLandOnce, PendingIsFresh, PendingApart
  <2>. QED
    BY <2>4, <2>5, <2>6 DEF IInv
<1>5. ASSUME NEW c \in Client, BeginApply(c) PROVE IInv'
  BY <1>5, TrackedUnchanged DEF BeginApply, tracked
<1>6. ASSUME NEW c \in Client, RunApply(c) PROVE IInv'
  BY <1>6, RunApplyIInv
<1>7. ASSUME NEW c \in Client, ApplyRefused(c) PROVE IInv'
  BY <1>7, FinishKeepsIInv DEF ApplyRefused
<1>8. ASSUME NEW c \in Client, AnnounceCreated(c) PROVE IInv'
  BY <1>8, AnnounceIInv DEF AnnounceCreated, Batch
<1>9. ASSUME NEW c \in Client, CreatedAnnounced(c) PROVE IInv'
  BY <1>9, CreatedAnnouncedIInv
<1>10. ASSUME NEW c \in Client, AnnounceUpdated(c) PROVE IInv'
  BY <1>10, AnnounceIInv DEF AnnounceUpdated, Batch
<1>11. ASSUME NEW c \in Client, ApplyDone(c) PROVE IInv'
  BY <1>11, FinishKeepsIInv DEF ApplyDone
<1>12. ASSUME NEW c \in Client, NEW q \in Request, BeginMapping(c, q) PROVE IInv'
  BY <1>12, TrackedUnchanged DEF BeginMapping, tracked
<1>13. ASSUME NEW c \in Client, CreateField(c) PROVE IInv'
  <2>1. \/ UNCHANGED tracked
        \/ Finish(c) /\ UNCHANGED <<status, raw, landed, heard, result>>
    BY <1>13 DEF CreateField, tracked
  <2>. QED
    BY <2>1, TrackedUnchanged, FinishKeepsIInv
<1>14. ASSUME NEW c \in Client, SaveMapping(c) PROVE IInv'
  <2>1. /\ Finish(c) /\ UNCHANGED <<raw, landed, heard, result>>
        /\ status' \in Status /\ (status' = status \/ status' = "draft")
    BY <1>14 DEF SaveMapping, SetImportMapping, IInv, Types, Status
  <2>2. todo' = [todo EXCEPT ![c] = NoRows]
    BY <2>1 DEF Finish
  <2>3. \A d \in Client, b \in Batch : todo'[d][b] \subseteq todo[d][b]
    BY <2>2 DEF IInv, Types, NoRows, Batch
  <2>4. Types'
    BY <2>1, <2>2 DEF IInv, Types, NoRows
  <2>5. FileUntouched'
    BY <2>1, <2>2 DEF IInv, Types, FileUntouched
  <2>6. RowsLandOnce' /\ PendingIsFresh' /\ PendingApart'
    BY <2>1, <2>3 DEF IInv, RowsLandOnce, PendingIsFresh, PendingApart
  <2>. QED
    BY <2>4, <2>5, <2>6 DEF IInv
<1>15. CASE Crash
  <2>1. todo' = [c \in Client |-> NoRows]
        /\ UNCHANGED <<status, raw, result, landed, heard>>
    BY <1>15 DEF Crash
  <2>2. \A d \in Client, b \in Batch : todo'[d][b] = {}
    BY <2>1 DEF NoRows, Batch
  <2>3. Types'
    BY <2>1 DEF IInv, Types, NoRows
  <2>4. FileUntouched' /\ RowsLandOnce'
    BY <2>1 DEF IInv, FileUntouched, RowsLandOnce
  <2>5. PendingIsFresh' /\ PendingApart'
    BY <2>2 DEF PendingIsFresh, PendingApart
  <2>. QED
    BY <2>3, <2>4, <2>5 DEF IInv
<1>16. ASSUME NEW u \in UserRecord, CreateRecord(u) PROVE IInv'
  BY <1>16, TrackedUnchanged DEF CreateRecord, UserWrite, tracked
<1>17. CASE EditRecords
  BY <1>17, TrackedUnchanged, EditLeavesTheJob DEF tracked
<1>18. CASE UNCHANGED vars
  BY <1>18, TrackedUnchanged DEF vars, tracked
<1>. QED
  BY <1>1, <1>2, <1>3, <1>4, <1>5, <1>6, <1>7, <1>8, <1>9, <1>10, <1>11, <1>12,
     <1>13, <1>14, <1>15, <1>16, <1>17, <1>18 DEF Next, EditRecords

LEMMA Inductive == Spec => []IInv
BY InitIInv, NextIInv, PTL DEF Spec

(* However many clients preview, remap, apply and delete the job, at       *)
(* whatever points they interleave or the process stops, no row of the     *)
(* file is written twice or announced twice (api/imports/jobs.rs: "a       *)
(* second apply cannot double-import even if two clients race").           *)
THEOREM RowsImportedOnce == Spec => []RowsLandOnce
<1>1. IInv => RowsLandOnce
  BY DEF IInv
<1>. QED
  BY <1>1, Inductive, PTL

(* Once the job has an outcome no step writes a row, and the only outcome  *)
(* that can take the place of the first one is the empty tally.            *)
THEOREM OutcomeStaysOrEmpties == Spec => OutcomeOnlyEmptied
<1>. DEFINE Kept == result # NoResult =>
       /\ landed' = landed
       /\ result' \in {result, NoResult,
                       [created |-> {}, updated |-> {}, skipped |-> {}, failed |-> {}]}
<1>1. ASSUME IInv, Next PROVE Kept
  <2>. SUFFICES ASSUME result # NoResult
                PROVE /\ landed' = landed
                      /\ result' \in {result, NoResult,
                           [created |-> {}, updated |-> {}, skipped |-> {}, failed |-> {}]}
    OBVIOUS
  <2>. USE DEF jobVars, dbVars, recordVars, handlerVars
  <2>1. ~raw
    BY <1>1 DEF IInv, FileUntouched
  <2>2. ASSUME NEW c \in Client, RunApply(c)
        PROVE /\ landed' = landed
              /\ result' = [created |-> {}, updated |-> {}, skipped |-> {}, failed |-> {}]
    <3>1. Outcome = [created |-> {}, updated |-> {}, skipped |-> {}, failed |-> {}]
      BY <2>1, EmptyOutcome
    <3>2. Outcome.created = {} /\ Rows(Outcome.updated) = {}
      BY <3>1 DEF Rows
    <3>3. landed \in [Row -> Nat]
      BY <1>1 DEF IInv, Types
    <3>. QED
      BY <2>2, <3>1, <3>2, <3>3 DEF RunApply, ApplyImport, WriteRows
  <2>3. ASSUME NEW key \in BOOLEAN, NEW slug \in Slug \cup {NoSlug},
               CreateImport(key, slug)
        PROVE  UNCHANGED <<landed, result>>
    BY <2>3 DEF CreateImport
  <2>4. CASE DeleteImport
    BY <2>4 DEF DeleteImport
  <2>5. ASSUME NEW c \in Client,
               \/ BeginPreview(c) \/ RunPreview(c) \/ BeginApply(c)
               \/ ApplyRefused(c) \/ AnnounceCreated(c) \/ CreatedAnnounced(c)
               \/ AnnounceUpdated(c) \/ ApplyDone(c) \/ CreateField(c)
               \/ SaveMapping(c) \/ \E q \in Request : BeginMapping(c, q)
        PROVE  UNCHANGED <<landed, result>>
    BY <2>5 DEF BeginPreview, RunPreview, DryRunImport, BeginApply, ApplyRefused,
         AnnounceCreated, AnnounceNext, CreatedAnnounced, AnnounceUpdated,
         ApplyDone, BeginMapping, CreateField, SaveMapping, SetImportMapping
  <2>6. CASE Crash
    BY <2>6 DEF Crash
  <2>7. ASSUME NEW u \in UserRecord, CreateRecord(u) PROVE UNCHANGED <<landed, result>>
    BY <2>7 DEF CreateRecord, UserWrite
  <2>8. CASE EditRecords
    BY <2>8, EditLeavesTheJob
  <2>. QED
    BY <1>1, <2>2, <2>3, <2>4, <2>5, <2>6, <2>7, <2>8 DEF Next, EditRecords
<1>2. IInv /\ [Next]_vars => [Kept]_vars
  BY <1>1
<1>. QED
  BY <1>2, Inductive, PTL DEF Spec, OutcomeOnlyEmptied

--------------------------------------------------------------------------------
(***************************************************************************)
(* Types, the stored preview and shared keys                               *)
(***************************************************************************)
(* A job that is there has a mapping; a handler that is to make a field or *)
(* to save works on a request of its own; a job nobody uploaded yet has no *)
(* preview; and until the file is imported nothing was imported under any  *)
(* mapping.                                                                *)
Working ==
  /\ status \in {"draft", "previewed", "applied"} => mapping \in Mapping
  /\ \A c \in Client :
       /\ pc[c] \in {"field", "save"} => req[c] \in Request
       /\ pc[c] = "field" => req[c].map.extra \in Slug
  /\ status = "none" => preview = NoPreview
  /\ raw \/ status = "none" => used = NoJob

LEMMA Greatest ==
  ASSUME NEW S \in SUBSET Nat, S # {}, NEW n \in Nat, \A x \in S : x <= n
  PROVE  \E x \in S : \A y \in S : y <= x
<1> DEFINE Above == {n - x : x \in S}
<1>1. Above \subseteq Nat /\ Above # {}
  <2>1. \A x \in S : n - x \in Nat
    OBVIOUS
  <2>2. PICK x : x \in S
    OBVIOUS
  <2>3. n - x \in Above
    BY <2>2
  <2> QED BY <2>1, <2>3
<1>2. PICK d \in Above : \A e \in Above : ~(<<e, d>> \in OpToRel(<, Nat))
  BY <1>1, NatLessThanWellFounded, WFMin
<1>3. \A e \in Above : ~(e < d)
  BY <1>1, <1>2 DEF OpToRel
<1>4. PICK x \in S : d = n - x
  OBVIOUS
<1>5. \A y \in S : n - y \in Above
  OBVIOUS
<1>6. \A y \in S : ~(n - y < n - x)
  BY <1>3, <1>4, <1>5
<1> QED BY <1>6

(* What a row writes is a cell of the file or stays.                       *)
LEMMA ExtraAfterIsACell ==
  ASSUME TypeOK, NEW x \in RecordId, NEW n
  PROVE  ExtraAfter(x, n) \in Cell
<1> DEFINE W == WritersOf(x, n)
<1>1. W \subseteq Row
  BY DEF WritersOf, Planned, File
<1>2. CASE W = {}
  BY <1>2 DEF ExtraAfter, TypeOK
<1>3. CASE W # {}
  <2>1. NumRows \in Nat /\ W \in SUBSET Nat /\ \A r \in W : r <= NumRows
    BY <1>1, RowCells DEF Row
  <2>2. \E r \in W : \A q \in W : q <= r
    BY <1>3, <2>1, Greatest
  <2> DEFINE last == CHOOSE r \in W : \A q \in W : q <= r
  <2>3. last \in W
    BY <2>2
  <2>4. last \in Row
    BY <2>3, <1>1
  <2>5. Incoming(mapping, last) \in Cell
    BY <2>4 DEF Incoming, Cell
  <2>6. ExtraAfter(x, n) = Incoming(mapping, last)
    BY <1>3 DEF ExtraAfter
  <2> QED BY <2>5, <2>6
<1> QED BY <1>2, <1>3

LEMMA OutcomeIsATally == Outcome \in Tally
<1>1. \A a : Planned(a) \subseteq Row
  BY DEF Planned, File
<1>2. /\ Outcome.created \subseteq Row
      /\ Outcome.updated \in SUBSET (Row \X RecordId)
  BY OutcomeShape
<1>3. /\ Planned("skip") \cup (Planned("update") \ Changed) \subseteq Row
      /\ Planned("error") \subseteq Row
  BY <1>1
<1> DEFINE u == Outcome.updated
<1>4. Outcome = [created |-> Planned("create"), updated |-> u,
                 skipped |-> Planned("skip") \cup (Planned("update") \ Changed),
                 failed |-> Planned("error")]
  BY DEF Outcome
<1> HIDE DEF u
<1>5. u \in SUBSET (Row \X RecordId)
  BY <1>2 DEF u
<1> QED BY <1>1, <1>3, <1>4, <1>5 DEF Tally

LEMMA FinishTypes ==
  ASSUME TypeOK, NEW c \in Client, Finish(c)
  PROVE  /\ pc' \in [Client -> {"idle", "dry_run", "apply", "announce",
                                "announce_updated", "field", "save"}]
         /\ req' \in [Client -> Request \cup {NoJob}]
         /\ todo' \in [Client -> [created : SUBSET (Row \X RecordId),
                                  updated : SUBSET (Row \X RecordId)]]
         /\ emitted' \in [Client -> Nat]
         /\ \A d \in Client : d # c => pc'[d] = pc[d] /\ req'[d] = req[d]
         /\ pc'[c] = "idle"
  BY DEF TypeOK, Finish, Goto, NoRows

LEMMA RunApplyTypes ==
  ASSUME TypeOK, Working, NEW c \in Client, RunApply(c)
  PROVE  TypeOK' /\ Working'
<1> USE DEF TypeOK, jobVars, dbVars, recordVars, handlerVars
<1>1. /\ status \notin {"none", "applied", "deleted"} /\ WriteRows /\ raw' = FALSE
      /\ pc' = [pc EXCEPT ![c] = "announce"]
      /\ UNCHANGED <<req, emitted, heard>>
  BY DEF RunApply, ApplyImport, Goto
<1>2. mapping \in Mapping
  BY <1>1 DEF Working, Status
<1>3. /\ Outcome.created \subseteq Row /\ Row \subseteq RecordId
      /\ Outcome \in Tally
  BY OutcomeShape, OutcomeIsATally DEF RecordId
<1>4. row' \in [RecordId -> {"free", "live", "deleted", "gone"}]
  BY <1>1, <1>3 DEF WriteRows
<1>5. keyOf' \in [RecordId -> Key \cup {Blank}]
  BY <1>1, <1>3, RowCells DEF WriteRows
<1>6. extra' \in [RecordId -> Cell]
  <2>1. \A x \in RecordId : x \in Outcome.created => Incoming(mapping, x) \in Cell
    BY <1>3 DEF Incoming, Cell
  <2>2. \A x \in RecordId : ExtraAfter(x, NumRows) \in Cell
    BY ExtraAfterIsACell
  <2> QED BY <1>1, <2>1, <2>2 DEF WriteRows
<1>7. landed' \in [Row -> Nat]
  BY <1>1 DEF WriteRows
<1>8. /\ status' = "applied" /\ result' = Outcome /\ used' \in Mapping \cup {NoJob}
      /\ UNCHANGED <<mapping, preview, fields, bypassed, edits>>
  BY <1>1, <1>2 DEF WriteRows
<1>9. todo' \in [Client -> [created : SUBSET (Row \X RecordId),
                             updated : SUBSET (Row \X RecordId)]]
  <2>1. todo' = [todo EXCEPT ![c] = [created |-> FirstOf(Named(Outcome.created), FanoutLimit),
                                     updated |-> Outcome.updated]]
    BY DEF RunApply
  <2> QED BY <2>1, QueuedShape, OutcomeShape
<1>10. TypeOK'
  BY <1>1, <1>3, <1>4, <1>5, <1>6, <1>7, <1>8, <1>9 DEF Status
<1>11. Working'
  BY <1>1, <1>2, <1>8 DEF Working
<1> QED BY <1>10, <1>11

LEMMA InitTypes == Init => TypeOK /\ Working
<1> SUFFICES ASSUME Init PROVE TypeOK /\ Working
  OBVIOUS
<1> USE DEF Init
<1>1. /\ status \in Status /\ mapping \in Mapping \cup {NoJob}
      /\ preview \in Mapping \cup {NoPreview} /\ result \in Tally \cup {NoResult}
      /\ raw \in BOOLEAN /\ fields \subseteq Slug /\ used \in Mapping \cup {NoJob}
      /\ bypassed \subseteq RecordId
  BY DEF Status
<1>2. extra \in [RecordId -> Cell]
  BY DEF Cell
<1>3. /\ row \in [RecordId -> {"free", "live", "deleted", "gone"}]
      /\ keyOf \in [RecordId -> Key \cup {Blank}]
      /\ landed \in [Row -> Nat] /\ heard \in [Row -> Nat]
  OBVIOUS
<1>4. /\ pc \in [Client -> {"idle", "dry_run", "apply", "announce",
                            "announce_updated", "field", "save"}]
      /\ req \in [Client -> Request \cup {NoJob}] /\ emitted \in [Client -> Nat]
  OBVIOUS
<1>5. todo \in [Client -> [created : SUBSET (Row \X RecordId),
                          updated : SUBSET (Row \X RecordId)]]
  <2>1. NoRows \in [created : SUBSET (Row \X RecordId),
                    updated : SUBSET (Row \X RecordId)]
    BY DEF NoRows
  <2> QED BY <2>1
<1>6. edits \in 0..MaxEdits
  BY EditsAssumption
<1>7. TypeOK
  BY <1>1, <1>2, <1>3, <1>4, <1>5, <1>6 DEF TypeOK
<1>8. Working
  BY DEF Working
<1> QED BY <1>7, <1>8

(* An edit keeps every record's content among the cells and the keys.      *)
LEMMA EditTypes ==
  ASSUME TypeOK, EditRecords
  PROVE  /\ row' \in [RecordId -> {"free", "live", "deleted", "gone"}]
         /\ extra' \in [RecordId -> Cell] /\ keyOf' \in [RecordId -> Key \cup {Blank}]
         /\ bypassed' \subseteq RecordId /\ edits' \in 0..MaxEdits
<1> USE DEF TypeOK
<1>1. edits' \in 0..MaxEdits
  <2>1. \E cost \in {1, 2} : edits + cost <= MaxEdits /\ edits' = edits + cost
    BY DEF EditRecords, UpdateRecord, MergeRecords, DeleteRecord, RestoreRecord,
           PurgeRecord, Edit
  <2> QED BY <2>1, EditsAssumption
<1>2. ASSUME NEW x \in RecordId, NEW t \in TypedCells, UpdateRecord(x, t)
      PROVE  /\ row' = row /\ extra' \in [RecordId -> Cell]
             /\ keyOf' \in [RecordId -> Key \cup {Blank}] /\ bypassed' \subseteq RecordId
  <2>1. t.key \in Key /\ t.extra \in Cell
    BY EditsAssumption
  <2> QED BY <1>2, <2>1 DEF UpdateRecord
<1>3. ASSUME NEW s \in RecordId, NEW losers \in SUBSET RecordId, MergeRecords(s, losers)
      PROVE  /\ row' \in [RecordId -> {"free", "live", "deleted", "gone"}]
             /\ extra' \in [RecordId -> Cell]
             /\ keyOf' \in [RecordId -> Key \cup {Blank}] /\ bypassed' \subseteq RecordId
  <2>1. /\ Resolutions(keyOf, s, losers, {t.key : t \in TypedCells}) \subseteq Key \cup {Blank}
        /\ Resolutions(extra, s, losers, {t.extra : t \in TypedCells}) \subseteq Cell
    <3>1. \A t \in TypedCells : t.key \in Key /\ t.extra \in Cell
      BY EditsAssumption
    <3>2. Blank \in Cell
      BY DEF Cell
    <3> QED BY <3>1, <3>2 DEF Resolutions
  <2>2. row' \in [RecordId -> {"free", "live", "deleted", "gone"}]
    BY <1>3 DEF MergeRecords
  <2>3. extra' \in [RecordId -> Cell] /\ keyOf' \in [RecordId -> Key \cup {Blank}]
    BY <1>3, <2>1 DEF MergeRecords
  <2>4. bypassed' \subseteq RecordId
    BY <1>3 DEF MergeRecords
  <2> QED BY <2>2, <2>3, <2>4
<1>4. ASSUME NEW x \in RecordId, DeleteRecord(x) \/ RestoreRecord(x) \/ PurgeRecord(x)
      PROVE  /\ row' \in [RecordId -> {"free", "live", "deleted", "gone"}]
             /\ UNCHANGED <<extra, keyOf>> /\ bypassed' \subseteq RecordId
  BY <1>4 DEF DeleteRecord, RestoreRecord, PurgeRecord
<1> QED BY <1>1, <1>2, <1>3, <1>4 DEF EditRecords

LEMMA NextTypes == TypeOK /\ Working /\ [Next]_vars => TypeOK' /\ Working'
<1> SUFFICES ASSUME TypeOK, Working, [Next]_vars PROVE TypeOK' /\ Working'
  OBVIOUS
<1> USE DEF jobVars, dbVars, recordVars, handlerVars
<1>1. ASSUME NEW key \in BOOLEAN, NEW slug \in Slug \cup {NoSlug},
             CreateImport(key, slug)
      PROVE  TypeOK' /\ Working'
  <2>1. [key |-> key, extra |-> slug, match |-> FALSE, strategy |-> "skip"] \in Mapping
    BY DEF Mapping, Strategy
  <2> QED BY <1>1, <2>1 DEF CreateImport, TypeOK, Working, Status
<1>2. CASE DeleteImport
  BY <1>2 DEF DeleteImport, TypeOK, Working, Status
<1>3. ASSUME NEW c \in Client, BeginPreview(c) \/ BeginApply(c)
      PROVE  TypeOK' /\ Working'
  BY <1>3 DEF BeginPreview, BeginApply, Goto, TypeOK, Working
<1>4. ASSUME NEW c \in Client, RunPreview(c) PROVE TypeOK' /\ Working'
  <2>1. /\ status' \in Status /\ status' # "none" /\ status # "none"
        /\ preview' \in Mapping \cup {NoPreview}
        /\ status' \in {"draft", "previewed", "applied"} => mapping' \in Mapping
        /\ UNCHANGED <<mapping, result, raw, dbVars, heard>>
    BY <1>4 DEF RunPreview, DryRunImport, TypeOK, Working, Status
  <2>2. Finish(c)
    BY <1>4 DEF RunPreview
  <2>3. TypeOK'
    BY <2>1, <2>2, FinishTypes DEF TypeOK
  <2>4. Working'
    BY <2>1, <2>2, FinishTypes DEF Working
  <2> QED BY <2>3, <2>4
<1>5. ASSUME NEW c \in Client, RunApply(c) PROVE TypeOK' /\ Working'
  BY <1>5, RunApplyTypes
<1>6. ASSUME NEW c \in Client, ApplyRefused(c) \/ ApplyDone(c)
      PROVE  TypeOK' /\ Working'
  <2>1. Finish(c) /\ UNCHANGED <<jobVars, dbVars, heard>>
    BY <1>6 DEF ApplyRefused, ApplyDone
  <2>2. TypeOK'
    BY <2>1, FinishTypes DEF TypeOK
  <2>3. Working'
    BY <2>1, FinishTypes DEF Working
  <2> QED BY <2>2, <2>3
<1>7. ASSUME NEW c \in Client, NEW b \in Batch, AnnounceNext(c, b)
      PROVE  TypeOK' /\ Working'
  <2>1. PICK e \in todo[c][b] :
          /\ \/ heard' = heard /\ emitted' = emitted
             \/ /\ heard' = [heard EXCEPT ![e[1]] = @ + 1]
                /\ emitted' = [emitted EXCEPT ![c] = @ + 1]
          /\ todo' = [todo EXCEPT ![c][b] = @ \ {e}]
    BY <1>7 DEF AnnounceNext
  <2>2. UNCHANGED <<jobVars, dbVars, pc, req>>
    BY <1>7 DEF AnnounceNext
  <2>3. e[1] \in Row
    BY DEF TypeOK, Batch
  <2>4. heard' \in [Row -> Nat] /\ emitted' \in [Client -> Nat]
    BY <2>1, <2>3 DEF TypeOK
  <2>5. todo' \in [Client -> [created : SUBSET (Row \X RecordId),
                              updated : SUBSET (Row \X RecordId)]]
    <3>1. CASE b = "created"
      <4>1. todo' = [todo EXCEPT ![c].created = @ \ {e}]
        BY <2>1, <3>1
      <4> QED BY <4>1 DEF TypeOK
    <3>2. CASE b = "updated"
      <4>1. todo' = [todo EXCEPT ![c].updated = @ \ {e}]
        BY <2>1, <3>2
      <4> QED BY <4>1 DEF TypeOK
    <3> QED BY <3>1, <3>2 DEF Batch
  <2> QED BY <2>2, <2>4, <2>5 DEF TypeOK, Working
<1>8. ASSUME NEW c \in Client, AnnounceCreated(c) \/ AnnounceUpdated(c)
      PROVE  TypeOK' /\ Working'
  BY <1>7, <1>8 DEF AnnounceCreated, AnnounceUpdated, Batch
<1>9. ASSUME NEW c \in Client, CreatedAnnounced(c) PROVE TypeOK' /\ Working'
  <2>1. FirstOf(todo[c].updated, Remaining(c)) \subseteq todo[c].updated
    BY DEF FirstOf
  <2> QED BY <1>9, <2>1 DEF CreatedAnnounced, Goto, TypeOK, Working
<1>10. ASSUME NEW c \in Client, NEW q \in Request, BeginMapping(c, q)
       PROVE  TypeOK' /\ Working'
  <2>1. q.map \in Mapping /\ q.fresh \in BOOLEAN
    BY Requests
  <2>2. q.fresh => q.map.extra \in Slug
    BY <1>10, <2>1 DEF BeginMapping, Mapping
  <2>3. /\ pc' = [pc EXCEPT ![c] = IF q.fresh THEN "field" ELSE "save"]
        /\ req' = [req EXCEPT ![c] = q]
        /\ UNCHANGED <<jobVars, dbVars, todo, emitted, heard>>
    BY <1>10 DEF BeginMapping, Goto
  <2>4. TypeOK'
    BY <2>3 DEF TypeOK
  <2>5. Working'
    BY <2>2, <2>3 DEF TypeOK, Working
  <2> QED BY <2>4, <2>5
<1>11. ASSUME NEW c \in Client, CreateField(c) PROVE TypeOK' /\ Working'
  <2>1. req[c].map.extra \in Slug /\ req[c] \in Request
    BY <1>11 DEF CreateField, Working
  <2>2. UNCHANGED <<jobVars, recordVars, landed, used, heard>>
    BY <1>11 DEF CreateField
  <2>3. CASE /\ fields' = fields \cup {req[c].map.extra}
             /\ Goto(c, "save") /\ UNCHANGED <<req, todo, emitted>>
    <3>1. TypeOK'
      BY <2>1, <2>2, <2>3 DEF Goto, TypeOK
    <3>2. Working'
      BY <2>1, <2>2, <2>3 DEF Goto, TypeOK, Working
    <3> QED BY <3>1, <3>2
  <2>4. CASE Finish(c) /\ UNCHANGED fields
    <3>1. TypeOK'
      BY <2>2, <2>4, FinishTypes DEF TypeOK
    <3>2. Working'
      BY <2>2, <2>4, FinishTypes DEF Working
    <3> QED BY <3>1, <3>2
  <2> QED BY <1>11, <2>3, <2>4 DEF CreateField
<1>12. ASSUME NEW c \in Client, SaveMapping(c) PROVE TypeOK' /\ Working'
  <2>1. req[c].map \in Mapping
    BY <1>12, Requests DEF SaveMapping, Working
  <2>2. /\ status' \in Status /\ mapping' \in Mapping \cup {NoJob}
        /\ preview' \in Mapping \cup {NoPreview}
        /\ status' \in {"draft", "previewed", "applied"} => mapping' \in Mapping
        /\ status' = "none" => status = "none" /\ preview' = NoPreview
        /\ UNCHANGED <<result, raw>>
    BY <1>12, <2>1 DEF SaveMapping, SetImportMapping, TypeOK, Working, Status
  <2>3. Finish(c) /\ UNCHANGED <<dbVars, heard>>
    BY <1>12 DEF SaveMapping
  <2>4. TypeOK'
    BY <2>2, <2>3, FinishTypes DEF TypeOK
  <2>5. Working'
    BY <2>2, <2>3, FinishTypes DEF Working
  <2> QED BY <2>4, <2>5
<1>13. CASE Crash
  BY <1>13 DEF Crash, NoRows, TypeOK, Working
<1>14. ASSUME NEW u \in UserRecord, CreateRecord(u) PROVE TypeOK' /\ Working'
  <2>1. u \in RecordId /\ UserCells[u].key \in Key /\ UserCells[u].extra \in Cell
    BY RowCells DEF RecordId, Cell
  <2> QED BY <1>14, <2>1 DEF CreateRecord, UserWrite, TypeOK, Working
<1>15. CASE EditRecords
  <2>1. /\ row' \in [RecordId -> {"free", "live", "deleted", "gone"}]
        /\ extra' \in [RecordId -> Cell] /\ keyOf' \in [RecordId -> Key \cup {Blank}]
        /\ bypassed' \subseteq RecordId /\ edits' \in 0..MaxEdits
    BY <1>15, EditTypes
  <2>2. UNCHANGED <<status, mapping, preview, result, raw, fields, landed, used,
                    pc, req, todo, emitted, heard>>
    BY <1>15, EditLeavesTheJob
  <2>3. TypeOK'
    BY <2>1, <2>2 DEF TypeOK
  <2>4. Working'
    BY <2>2 DEF Working
  <2> QED BY <2>3, <2>4
<1>16. CASE UNCHANGED vars
  BY <1>16 DEF vars, TypeOK, Working
<1> QED
  BY <1>1, <1>2, <1>3, <1>4, <1>5, <1>6, <1>8, <1>9, <1>10, <1>11, <1>12, <1>13,
     <1>14, <1>15, <1>16 DEF Next, EditRecords

LEMMA Typed == Spec => [](TypeOK /\ Working)
BY InitTypes, NextTypes, PTL DEF Spec

(* Requests, plans, files and users keep the job, the records and every    *)
(* handler well typed.                                                     *)
THEOREM ImportTypes == Spec => []TypeOK
BY Typed, PTL

(* A stored dry run is that of the stored mapping, whatever was remapped,  *)
(* applied or reopened while it was on its way (set_import_mapping clears  *)
(* the preview it makes stale).                                            *)
THEOREM PreviewStaysCurrent == Spec => []PreviewIsCurrent
<1>1. Init => PreviewIsCurrent
  BY DEF Init, PreviewIsCurrent
<1>2. TypeOK /\ Working /\ PreviewIsCurrent /\ [Next]_vars => PreviewIsCurrent'
  <2> SUFFICES ASSUME TypeOK, Working, PreviewIsCurrent, [Next]_vars
               PROVE  PreviewIsCurrent'
    OBVIOUS
  <2> USE DEF jobVars, dbVars, recordVars, handlerVars, PreviewIsCurrent
  <2>1. ASSUME NEW key \in BOOLEAN, NEW slug \in Slug \cup {NoSlug},
               CreateImport(key, slug)
        PROVE  PreviewIsCurrent'
    BY <2>1 DEF CreateImport, Working
  <2>2. CASE DeleteImport
    BY <2>2 DEF DeleteImport
  <2>3. ASSUME NEW c \in Client, RunPreview(c) \/ SaveMapping(c)
        PROVE  PreviewIsCurrent'
    BY <2>3 DEF RunPreview, DryRunImport, SaveMapping, SetImportMapping
  <2>4. ASSUME NEW c \in Client, RunApply(c) PROVE UNCHANGED <<preview, mapping>>
    BY <2>4 DEF RunApply, ApplyImport, WriteRows
  <2>5. ASSUME NEW c \in Client,
               \/ BeginPreview(c) \/ BeginApply(c) \/ ApplyRefused(c)
               \/ AnnounceCreated(c) \/ CreatedAnnounced(c) \/ AnnounceUpdated(c)
               \/ ApplyDone(c) \/ CreateField(c) \/ \E q \in Request : BeginMapping(c, q)
        PROVE  UNCHANGED <<preview, mapping>>
    BY <2>5 DEF BeginPreview, BeginApply, ApplyRefused, AnnounceCreated, AnnounceNext,
         CreatedAnnounced, AnnounceUpdated, ApplyDone, CreateField, BeginMapping
  <2>6. CASE Crash
    BY <2>6 DEF Crash
  <2>7. ASSUME NEW u \in UserRecord, CreateRecord(u) PROVE UNCHANGED <<preview, mapping>>
    BY <2>7 DEF CreateRecord, UserWrite
  <2>8. CASE EditRecords
    BY <2>8, EditLeavesTheJob
  <2>9. CASE UNCHANGED vars
    BY <2>9 DEF vars
  <2> QED BY <2>1, <2>2, <2>3, <2>4, <2>5, <2>6, <2>7, <2>8, <2>9 DEF Next, EditRecords
<1> QED BY <1>1, <1>2, Typed, PTL DEF Spec

--------------------------------------------------------------------------------
(* A row the plan creates, under a rule that is not create_always, has a   *)
(* key no live record holds.                                               *)
LEMMA CreatedKeysAreFree ==
  ASSUME NEW r \in Outcome.created, mapping.strategy # "create_always"
  PROVE  Holders(RowKey[r]) = {}
<1>1. PlanRow(mapping, r) = "create"
  BY DEF Outcome, Planned
<1>2. Valid(mapping, r) /\ ~Matched(mapping, r)
  BY <1>1 DEF PlanRow
<1> QED BY <1>2 DEF Valid

LEMMA RunApplyDuplicates ==
  ASSUME TypeOK, Working, DuplicatesComeFromTheFile, NEW c \in Client, RunApply(c)
  PROVE  DuplicatesComeFromTheFile'
<1> USE DEF TypeOK
<1>1. WriteRows /\ status \notin {"none", "applied", "deleted"}
  BY DEF RunApply, ApplyImport
<1>2. Outcome.created \subseteq Row /\ Row \subseteq RecordId
  BY OutcomeShape DEF RecordId
<1>3. \A x \in RecordId :
        /\ x \in Outcome.created => keyOf'[x] = RowKey[x]
        /\ x \notin Outcome.created => row'[x] = row[x] /\ keyOf'[x] = keyOf[x]
  BY <1>1, <1>2 DEF WriteRows
<1>4. CASE ~raw
  <2>1. Outcome.created = {}
    BY <1>4, EmptyOutcome
  <2>2. \A x \in RecordId : row'[x] = row[x] /\ keyOf'[x] = keyOf[x]
    BY <1>3, <2>1
  <2>3. used' = used /\ bypassed' = bypassed
    BY <1>1, <1>4 DEF WriteRows
  <2> QED BY <2>2, <2>3 DEF DuplicatesComeFromTheFile
<1>5. CASE raw
  <2>1. used = NoJob /\ used' = mapping
    BY <1>1, <1>5 DEF Working, WriteRows
  <2>2. used' # NoJob /\ bypassed' = bypassed
    BY <1>1, <2>1, Markers DEF Working, Status, WriteRows
  <2>3. CASE mapping.strategy = "create_always"
    BY <2>1, <2>2, <2>3 DEF DuplicatesComeFromTheFile
  <2>4. CASE mapping.strategy # "create_always"
    <3> SUFFICES ASSUME NEW x \in RecordId, NEW y \in RecordId, x # y,
                        row'[x] = "live", row'[y] = "live", keyOf'[x] = keyOf'[y],
                        x \notin bypassed, y \notin bypassed
                 PROVE  x \in Row /\ y \in Row
      BY <2>2 DEF DuplicatesComeFromTheFile
    <3>1. \A z \in Outcome.created, w \in RecordId :
            ~(row[w] = "live" /\ keyOf[w] = RowKey[z])
      BY <2>4, CreatedKeysAreFree DEF Holders
    <3>2. CASE x \notin Outcome.created /\ y \notin Outcome.created
      BY <1>3, <2>1, <3>2 DEF DuplicatesComeFromTheFile
    <3>3. CASE x \in Outcome.created /\ y \in Outcome.created
      BY <1>2, <3>3
    <3>4. CASE x \in Outcome.created /\ y \notin Outcome.created
      BY <1>3, <3>1, <3>4
    <3>5. CASE x \notin Outcome.created /\ y \in Outcome.created
      BY <1>3, <3>1, <3>5
    <3> QED BY <3>2, <3>3, <3>4, <3>5
  <2> QED BY <2>3, <2>4
<1> QED BY <1>4, <1>5

(* An edit lets two live records share a key only through a restore or a  *)
(* merge: an update that writes a key finds no other holder of it.         *)
LEMMA EditDuplicates ==
  ASSUME TypeOK, DuplicatesComeFromTheFile, EditRecords
  PROVE  DuplicatesComeFromTheFile'
<1> USE DEF TypeOK
<1>1. used' = used
  BY EditLeavesTheJob
<1>2. ASSUME NEW z \in RecordId, NEW t \in TypedCells, UpdateRecord(z, t)
      PROVE  DuplicatesComeFromTheFile'
  <2>1. row' = row
    BY <1>2 DEF UpdateRecord
  <2>2. CASE UNCHANGED <<keyOf, bypassed>>
    BY <1>1, <2>1, <2>2 DEF DuplicatesComeFromTheFile
  <2>3. CASE /\ Holders(t.key) \subseteq {z}
             /\ keyOf' = [keyOf EXCEPT ![z] = t.key]
             /\ bypassed' = bypassed \ {z}
    <3>1. \A w \in RecordId \ {z} : ~(row[w] = "live" /\ keyOf[w] = t.key)
      BY <2>3 DEF Holders
    <3> QED BY <1>1, <2>1, <2>3, <3>1 DEF DuplicatesComeFromTheFile
  <2> QED BY <1>2, <2>2, <2>3 DEF UpdateRecord
<1>3. ASSUME NEW s \in RecordId, NEW losers \in SUBSET RecordId, MergeRecords(s, losers)
      PROVE  DuplicatesComeFromTheFile'
  <2>1. \A x \in RecordId : row'[x] = "live" => row[x] = "live"
    BY <1>3 DEF MergeRecords
  <2>2. /\ \A x \in RecordId \ {s} : keyOf'[x] = keyOf[x]
        /\ bypassed' = (bypassed \cup {s}) \cap {x \in RecordId : row'[x] = "live"}
    BY <1>3 DEF MergeRecords
  <2> QED BY <1>1, <2>1, <2>2 DEF DuplicatesComeFromTheFile
<1>4. ASSUME NEW z \in RecordId, DeleteRecord(z) \/ RestoreRecord(z) \/ PurgeRecord(z)
      PROVE  DuplicatesComeFromTheFile'
  BY <1>1, <1>4 DEF DeleteRecord, RestoreRecord, PurgeRecord, DuplicatesComeFromTheFile
<1> QED BY <1>2, <1>3, <1>4 DEF EditRecords

(* Two live records share the unique key only inside one file, when the    *)
(* rule was create_always, or when one of them came back through a restore *)
(* or survived a merge: the checks of validate_bag, create_record and      *)
(* update_record leave no other way.                                       *)
THEOREM KeysSharedInsideTheFile == Spec => []DuplicatesComeFromTheFile
<1>1. Init => DuplicatesComeFromTheFile
  BY DEF Init, DuplicatesComeFromTheFile
<1>2. TypeOK /\ Working /\ DuplicatesComeFromTheFile /\ [Next]_vars
        => DuplicatesComeFromTheFile'
  <2> SUFFICES ASSUME TypeOK, Working, DuplicatesComeFromTheFile, [Next]_vars
               PROVE  DuplicatesComeFromTheFile'
    OBVIOUS
  <2> USE DEF jobVars, dbVars, recordVars, handlerVars
  <2>1. ASSUME UNCHANGED <<row, keyOf, used, bypassed>> PROVE DuplicatesComeFromTheFile'
    BY <2>1 DEF DuplicatesComeFromTheFile
  <2>2. ASSUME NEW key \in BOOLEAN, NEW slug \in Slug \cup {NoSlug},
               CreateImport(key, slug)
        PROVE  UNCHANGED <<row, keyOf, used, bypassed>>
    BY <2>2 DEF CreateImport
  <2>3. CASE DeleteImport
    BY <2>1, <2>3 DEF DeleteImport
  <2>4. ASSUME NEW c \in Client, RunApply(c) PROVE DuplicatesComeFromTheFile'
    BY <2>4, RunApplyDuplicates
  <2>5. ASSUME NEW c \in Client,
               \/ BeginPreview(c) \/ RunPreview(c) \/ BeginApply(c) \/ ApplyRefused(c)
               \/ AnnounceCreated(c) \/ CreatedAnnounced(c) \/ AnnounceUpdated(c)
               \/ ApplyDone(c) \/ CreateField(c) \/ SaveMapping(c)
               \/ \E q \in Request : BeginMapping(c, q)
        PROVE  UNCHANGED <<row, keyOf, used, bypassed>>
    BY <2>5 DEF BeginPreview, RunPreview, BeginApply, ApplyRefused, AnnounceCreated,
         AnnounceNext, CreatedAnnounced, AnnounceUpdated, ApplyDone, CreateField,
         SaveMapping, BeginMapping
  <2>6. CASE Crash
    BY <2>1, <2>6 DEF Crash
  <2>7. ASSUME NEW u \in UserRecord, CreateRecord(u) PROVE DuplicatesComeFromTheFile'
    <3>1. u \in RecordId
      BY DEF RecordId
    <3>2. /\ row' = [row EXCEPT ![u] = "live"]
          /\ keyOf' = [keyOf EXCEPT ![u] = UserCells[u].key]
          /\ used' = used /\ bypassed' = bypassed
          /\ \A w \in RecordId : ~(row[w] = "live" /\ keyOf[w] = UserCells[u].key)
      BY <2>7 DEF CreateRecord, UserWrite, Holders
    <3> QED BY <3>1, <3>2 DEF DuplicatesComeFromTheFile, TypeOK
  <2>8. CASE EditRecords
    BY <2>8, EditDuplicates
  <2>9. CASE UNCHANGED vars
    BY <2>1, <2>9 DEF vars
  <2> QED BY <2>1, <2>2, <2>3, <2>4, <2>5, <2>6, <2>7, <2>8, <2>9 DEF Next, EditRecords
<1> QED BY <1>1, <1>2, Typed, PTL DEF Spec

--------------------------------------------------------------------------------
(***************************************************************************)
(* The fan-out limit                                                       *)
(***************************************************************************)
(* FirstOf(_, n) is n entries at most, when an entry is known by its row.  *)
LEMMA FirstOfCounts ==
  ASSUME NEW E \in SUBSET (Row \X RecordId), IsFiniteSet(E),
         \A e, f \in E : e[1] = f[1] => e = f, NEW n \in Nat
  PROVE  Cardinality(FirstOf(E, n)) <= n
<1> DEFINE F == FirstOf(E, n)
           Before(m) == {o \in E : o[1] < m[1]}
<1>1. F \subseteq E /\ IsFiniteSet(F)
  BY FS_Subset DEF FirstOf
<1>2. CASE F = {}
  BY <1>2, FS_EmptySet
<1>3. CASE F # {}
  <2> DEFINE S == {e[1] : e \in F}
  <2>1. S \in SUBSET Nat /\ S # {} /\ NumRows \in Nat /\ \A x \in S : x <= NumRows
    <3>1. NumRows \in Nat /\ \A e \in F : e[1] \in 1..NumRows
      BY <1>1, RowCells DEF Row
    <3> HIDE DEF F
    <3>2. S # {}
      BY <1>3
    <3> QED BY <3>1, <3>2
  <2>2. PICK x \in S : \A y \in S : y <= x
    BY <2>1, Greatest
  <2>3. PICK m \in F : x = m[1]
    OBVIOUS
  <2>4. \A e \in F : e[1] <= m[1] /\ e[1] \in Nat
    BY <2>1, <2>2, <2>3
  <2>5. F \ {m} \subseteq Before(m)
    <3> SUFFICES ASSUME NEW e \in F, e # m PROVE e \in E /\ e[1] < m[1]
      OBVIOUS
    <3>1. e[1] # m[1]
      BY <1>1
    <3> QED BY <1>1, <2>4, <3>1
  <2>6. IsFiniteSet(Before(m)) /\ Cardinality(Before(m)) < n
    BY FS_Subset DEF FirstOf
  <2>7. Cardinality(F \ {m}) <= Cardinality(Before(m))
    BY <2>5, <2>6, FS_Subset
  <2>8. Cardinality(F \ {m}) = Cardinality(F) - 1
    BY <1>1, FS_RemoveElement
  <2>9. Cardinality(F) \in Nat /\ Cardinality(Before(m)) \in Nat
    BY <1>1, <2>6, FS_CardinalityType
  <2> HIDE DEF F, Before
  <2>10. Cardinality(F) <= n
    BY <2>6, <2>7, <2>8, <2>9
  <2> QED BY <2>10 DEF F
<1> QED BY <1>2, <1>3

(* What a handler still has to announce fits in what is left of the limit. *)
Fits(c) ==
  /\ IsFiniteSet(todo[c].created) /\ IsFiniteSet(todo[c].updated)
  /\ emitted[c] <= FanoutLimit
  /\ pc[c] = "announce" => emitted[c] + Cardinality(todo[c].created) <= FanoutLimit
  /\ pc[c] = "announce_updated" => emitted[c] + Cardinality(todo[c].updated) <= FanoutLimit
  /\ pc[c] \notin {"announce", "announce_updated"} => emitted[c] = 0

AllFit == \A c \in Client : Fits(c)

LEMMA OutcomeIsFinite ==
  IsFiniteSet(Named(Outcome.created)) /\ IsFiniteSet(Outcome.updated)
<1>1. IsFiniteSet(Row)
  BY RowCells, FS_Interval DEF Row
<1>2. \A a : IsFiniteSet(Planned(a))
  BY <1>1, FS_Subset DEF Planned, File
<1>3. IsFiniteSet(Changed)
  BY <1>2, FS_Subset DEF Changed
<1>4. IsFiniteSet(Named(Outcome.created))
  <2> DEFINE f == [r \in Outcome.created |-> <<r, r>>]
  <2>1. IsFiniteSet(Outcome.created)
    BY <1>2 DEF Outcome
  <2>2. f \in Surjection(Outcome.created, Named(Outcome.created))
    BY Fun_IsSurj DEF Named
  <2> QED BY <2>1, <2>2, FS_Surjection
<1>5. IsFiniteSet(Outcome.updated)
  <2> DEFINE f == [r \in Changed |-> <<r, Match(r)>>]
  <2>1. Outcome.updated = {<<r, Match(r)>> : r \in Changed}
    BY DEF Outcome
  <2>2. f \in Surjection(Changed, Outcome.updated)
    BY <2>1, Fun_IsSurj
  <2> QED BY <1>3, <2>2, FS_Surjection
<1> QED BY <1>4, <1>5

LEMMA FinishFits ==
  ASSUME TypeOK, AllFit, NEW c \in Client, Finish(c)
  PROVE  AllFit'
<1>1. /\ pc' = [pc EXCEPT ![c] = "idle"]
      /\ todo' = [todo EXCEPT ![c] = NoRows]
      /\ emitted' = [emitted EXCEPT ![c] = 0]
  BY DEF Finish, Goto
<1>2. Fits(c)'
  BY <1>1, FS_EmptySet, LimitAssumption DEF TypeOK, Fits, NoRows
<1>3. \A d \in Client \ {c} : Fits(d)'
  BY <1>1 DEF TypeOK, AllFit, Fits
<1> QED BY <1>2, <1>3 DEF AllFit

LEMMA RunApplyFits ==
  ASSUME TypeOK, AllFit, NEW c \in Client, RunApply(c)
  PROVE  AllFit'
<1> DEFINE q == FirstOf(Named(Outcome.created), FanoutLimit)
           u == Outcome.updated
<1>1. /\ pc[c] = "apply" /\ pc' = [pc EXCEPT ![c] = "announce"]
      /\ todo' = [todo EXCEPT ![c] = [created |-> q, updated |-> u]]
      /\ emitted' = emitted
  BY DEF RunApply, Goto
<1>2. Named(Outcome.created) \in SUBSET (Row \X RecordId)
  BY OutcomeShape DEF Named, RecordId
<1>3. \A e, f \in Named(Outcome.created) : e[1] = f[1] => e = f
  BY DEF Named
<1>4. Cardinality(q) <= FanoutLimit
  BY <1>2, <1>3, OutcomeIsFinite, LimitAssumption, FirstOfCounts
<1>5. IsFiniteSet(q) /\ IsFiniteSet(u)
  BY OutcomeIsFinite, FS_Subset DEF FirstOf
<1>6. Cardinality(q) \in Nat
  BY <1>5, FS_CardinalityType
<1> HIDE DEF q, u
<1>7. emitted[c] = 0
  BY <1>1 DEF AllFit, Fits
<1>8. Fits(c)'
  BY <1>1, <1>4, <1>5, <1>6, <1>7, LimitAssumption DEF TypeOK, Fits
<1>9. \A d \in Client \ {c} : Fits(d)'
  BY <1>1 DEF TypeOK, AllFit, Fits
<1> QED BY <1>8, <1>9 DEF AllFit

(* An event uses up one of what is left, and a vanished record none.       *)
LEMMA AnnounceFits ==
  ASSUME TypeOK, AllFit, NEW c \in Client, NEW b \in Batch, AnnounceNext(c, b),
         pc[c] = IF b = "created" THEN "announce" ELSE "announce_updated"
  PROVE  AllFit'
<1>1. PICK e \in todo[c][b] :
        /\ emitted' = emitted \/ emitted' = [emitted EXCEPT ![c] = @ + 1]
        /\ todo' = [todo EXCEPT ![c][b] = @ \ {e}]
  BY DEF AnnounceNext
<1>2. pc' = pc
  BY DEF AnnounceNext
<1> DEFINE S == todo[c][b]
<1>3. IsFiniteSet(S) /\ e \in S
  BY DEF AllFit, Fits, Batch
<1>4. /\ IsFiniteSet(S \ {e}) /\ Cardinality(S \ {e}) = Cardinality(S) - 1
      /\ Cardinality(S) \in Nat
  BY <1>3, FS_RemoveElement, FS_CardinalityType
<1>5. emitted[c] + Cardinality(S) <= FanoutLimit /\ emitted[c] \in Nat
  BY DEF AllFit, Fits, Batch, TypeOK
<1>6. Cardinality(S) # 0
  BY <1>3, FS_EmptySet
<1>7. /\ emitted'[c] \in {emitted[c], emitted[c] + 1}
      /\ \A d \in Client \ {c} : emitted'[d] = emitted[d] /\ todo'[d] = todo[d]
      /\ todo'[c][b] = S \ {e}
      /\ \A a \in Batch \ {b} : todo'[c][a] = todo[c][a]
  BY <1>1 DEF TypeOK, Batch
<1>8. \A d \in Client \ {c} : Fits(d)'
  BY <1>2, <1>7 DEF AllFit, Fits
<1>9. /\ emitted'[c] <= FanoutLimit
      /\ emitted'[c] + Cardinality(S \ {e}) <= FanoutLimit
  BY <1>4, <1>5, <1>6, <1>7, LimitAssumption
<1>10. IsFiniteSet(todo'[c].created) /\ IsFiniteSet(todo'[c].updated)
  BY <1>4, <1>7 DEF AllFit, Fits, Batch
<1> HIDE DEF S
<1>11. Fits(c)'
  BY <1>2, <1>7, <1>9, <1>10 DEF Fits, Batch
<1> QED BY <1>8, <1>11 DEF AllFit

LEMMA CreatedAnnouncedFits ==
  ASSUME TypeOK, PendingApart, AllFit, NEW c \in Client, CreatedAnnounced(c)
  PROVE  AllFit'
<1> DEFINE u == todo[c].updated
           q == FirstOf(u, Remaining(c))
<1>1. /\ pc' = [pc EXCEPT ![c] = "announce_updated"]
      /\ todo' = [todo EXCEPT ![c].updated = q]
      /\ emitted' = emitted
  BY DEF CreatedAnnounced, Goto, TypeOK
<1>2. u \in SUBSET (Row \X RecordId) /\ IsFiniteSet(u)
  BY DEF TypeOK, AllFit, Fits
<1>3. \A e, f \in u : e[1] = f[1] => e = f
  BY DEF PendingApart, Batch
<1>4. Remaining(c) \in Nat /\ emitted[c] + Remaining(c) = FanoutLimit
  BY LimitAssumption DEF AllFit, Fits, TypeOK, Remaining
<1>5. Cardinality(q) <= Remaining(c)
  BY <1>2, <1>3, <1>4, FirstOfCounts
<1>6. IsFiniteSet(q) /\ Cardinality(q) \in Nat
  BY <1>2, FS_Subset, FS_CardinalityType DEF FirstOf
<1> HIDE DEF q, u
<1>7. emitted[c] + Cardinality(q) <= FanoutLimit
  BY <1>4, <1>5, <1>6 DEF TypeOK
<1>8. Fits(c)'
  BY <1>1, <1>6, <1>7 DEF TypeOK, AllFit, Fits
<1>9. \A d \in Client \ {c} : Fits(d)'
  BY <1>1 DEF TypeOK, AllFit, Fits
<1> QED BY <1>8, <1>9 DEF AllFit

LEMMA NextFits == TypeOK /\ PendingApart /\ AllFit /\ [Next]_vars => AllFit'
<1> SUFFICES ASSUME TypeOK, PendingApart, AllFit, [Next]_vars PROVE AllFit'
  OBVIOUS
<1> USE DEF jobVars, dbVars, recordVars, handlerVars
<1>1. ASSUME UNCHANGED <<pc, todo, emitted>> PROVE AllFit'
  BY <1>1 DEF AllFit, Fits
<1>2. ASSUME NEW c \in Client, NEW s \in {"idle", "dry_run", "apply", "field", "save"},
             pc[c] \in {"idle", "field"}, pc' = [pc EXCEPT ![c] = s],
             UNCHANGED <<todo, emitted>>
      PROVE  AllFit'
  BY <1>2 DEF AllFit, Fits, TypeOK
<1>3. ASSUME NEW key \in BOOLEAN, NEW slug \in Slug \cup {NoSlug},
             CreateImport(key, slug)
      PROVE  AllFit'
  BY <1>1, <1>3 DEF CreateImport
<1>4. CASE DeleteImport
  BY <1>1, <1>4 DEF DeleteImport
<1>5. ASSUME NEW c \in Client,
             RunPreview(c) \/ ApplyRefused(c) \/ ApplyDone(c) \/ SaveMapping(c)
      PROVE  AllFit'
  BY <1>5, FinishFits DEF RunPreview, ApplyRefused, ApplyDone, SaveMapping
<1>6. ASSUME NEW c \in Client, BeginPreview(c) \/ BeginApply(c) PROVE AllFit'
  BY <1>2, <1>6 DEF BeginPreview, BeginApply, Goto
<1>7. ASSUME NEW c \in Client, RunApply(c) PROVE AllFit'
  BY <1>7, RunApplyFits
<1>8. ASSUME NEW c \in Client, AnnounceCreated(c) PROVE AllFit'
  BY <1>8, AnnounceFits DEF AnnounceCreated, Batch
<1>9. ASSUME NEW c \in Client, AnnounceUpdated(c) PROVE AllFit'
  BY <1>9, AnnounceFits DEF AnnounceUpdated, Batch
<1>10. ASSUME NEW c \in Client, CreatedAnnounced(c) PROVE AllFit'
  BY <1>10, CreatedAnnouncedFits
<1>11. ASSUME NEW c \in Client, NEW q \in Request, BeginMapping(c, q) PROVE AllFit'
  BY <1>2, <1>11 DEF BeginMapping, Goto
<1>12. ASSUME NEW c \in Client, CreateField(c) PROVE AllFit'
  BY <1>2, <1>12, FinishFits DEF CreateField, Goto
<1>13. CASE Crash
  <2>1. (\A S : S = {} => IsFiniteSet(S)) /\ FanoutLimit \in Nat /\ 0 <= FanoutLimit
    BY FS_EmptySet, LimitAssumption
  <2>2. \A c \in Client :
          /\ pc'[c] = "idle" /\ emitted'[c] = 0
          /\ todo'[c].created = {} /\ todo'[c].updated = {}
    BY <1>13 DEF Crash, NoRows
  <2> QED BY <2>1, <2>2 DEF AllFit, Fits
<1>14. ASSUME NEW u \in UserRecord, CreateRecord(u) PROVE AllFit'
  BY <1>1, <1>14 DEF CreateRecord, UserWrite
<1>15. CASE EditRecords
  BY <1>1, <1>15, EditLeavesTheJob
<1>16. CASE UNCHANGED vars
  BY <1>1, <1>16 DEF vars
<1> QED
  BY <1>3, <1>4, <1>5, <1>6, <1>7, <1>8, <1>9, <1>10, <1>11, <1>12, <1>13, <1>14,
     <1>15, <1>16 DEF Next, EditRecords

(* One apply raises EVENT_FANOUT_LIMIT events at most, its created and its *)
(* updated rows together, whatever vanishes while it announces.            *)
THEOREM FanoutStaysCapped == Spec => []FanoutCapped
<1>1. Init => AllFit
  <2> SUFFICES ASSUME Init PROVE AllFit
    OBVIOUS
  <2>1. (\A S : S = {} => IsFiniteSet(S)) /\ FanoutLimit \in Nat /\ 0 <= FanoutLimit
    BY FS_EmptySet, LimitAssumption
  <2>2. \A c \in Client :
          /\ pc[c] = "idle" /\ emitted[c] = 0
          /\ todo[c].created = {} /\ todo[c].updated = {}
    BY DEF Init, NoRows
  <2> QED BY <2>1, <2>2 DEF AllFit, Fits
<1>2. IInv => PendingApart
  BY DEF IInv
<1>3. AllFit => FanoutCapped
  BY DEF AllFit, Fits, FanoutCapped
<1> QED BY <1>1, <1>2, <1>3, NextFits, Typed, Inductive, PTL DEF Spec
================================================================================
