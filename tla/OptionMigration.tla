---------------------------- MODULE OptionMigration ----------------------------
(***************************************************************************)
(* Changing the options of a select, status or multi-select field while    *)
(* rows hold them.  PATCH /fields/{id} is not one transaction: it reads    *)
(* the field, counts the uses of every option it drops, and then rewrites  *)
(* the rows page by page and writes the config, in an order it chooses.    *)
(* Each of these is a store call under the store's mutex; other requests   *)
(* run between them, and the handler may be dropped at any of them (the    *)
(* client goes away, the process dies, the store fails).                   *)
(*                                                                         *)
(* A row is a record, or a list entry when the field belongs to a list.    *)
(* A cell is the set of option ids the row stores in the field.            *)
(***************************************************************************)
EXTENDS Naturals, FiniteSets

CONSTANTS Row,
          OptionId,
          Label,
          Clear,        \* the replacement null
          NoOption,     \* the answer of resolve_option when nothing matches
          DerivedId,    \* the id assign_option_ids gives a label sent without id
          FirstConfig,  \* the field's config to begin with
          Request,      \* the PATCH bodies that may be sent
          MaxHeld,      \* options a cell may hold: 1 for select and status
          Page,         \* MIGRATION_PAGE
          MaxMigration, \* MAX_OPTION_MIGRATION_RECORDS
          MaxPatches,   \* bound on the PATCHes sent
          MaxEdits,     \* bound on the other requests
          Patcher       \* PATCH handlers that may run at once

Config == UNION {[O -> Label] : O \in SUBSET OptionId}
Cell == SUBSET OptionId
Raw == OptionId \cup Label \cup {Clear}
Asked == UNION {[O -> Raw] : O \in SUBSET OptionId}

(* A body keeps options by id, adds options by label, and says what the    *)
(* rows on a dropped option become.  The id a label is given is one no     *)
(* kept option has (the _2 suffix is not modelled), and the labels of one  *)
(* config differ.                                                          *)
ASSUME OptionConstants ==
  /\ IsFiniteSet(Row)
  /\ OptionId \cap Label = {}
  /\ Clear \notin OptionId \cup Label
  /\ NoOption \notin OptionId \cup {Clear}
  /\ DerivedId \in [Label -> OptionId]
  /\ FirstConfig \in Config
  /\ Request \subseteq [kept: Config, added: SUBSET Label, asked: Asked]
  /\ \A q \in Request :
       /\ \A l \in q.added : DerivedId[l] \notin DOMAIN q.kept
       /\ \A l, m \in q.added : DerivedId[l] = DerivedId[m] => l = m
       /\ \A o \in DOMAIN q.kept : q.kept[o] \notin q.added
       /\ \A o, u \in DOMAIN q.kept : q.kept[o] = q.kept[u] => o = u
  /\ MaxHeld \in Nat
  /\ Page \in Nat \ {0}
  /\ MaxMigration \in Nat
  /\ MaxPatches \in Nat
  /\ MaxEdits \in Nat

VARIABLES onList,   \* the field belongs to a list: rows are list entries
          config,   \* the field's options: id -> label
          status,   \* status[r]: "live", "deleted" (soft), "gone"
          cell,     \* cell[r]: the options the row stores
          h,        \* h[p]: the state of PATCH handler p
          patches, edits,
          exposed,  \* exposed[p]: rows that escape p: see Exposing
          before    \* before[p]: the cells when p began

vars == <<onList, config, status, cell, h, patches, edits, exposed, before>>
rowVars == <<onList, status, cell, edits>>
ghostVars == <<exposed, before>>

NoCells == [r \in Row |-> {}]
NoConfig == [o \in {} |-> Clear]
NoRequest == [kept |-> NoConfig, added |-> {}, asked |-> NoConfig]

(* todo: dropped options still to count; remap: the ones in use; rows: how *)
(* many rows are affected, then how many are migrated; batch and copy: the *)
(* rows of the page still to write, and the page as it was read; moved:    *)
(* has the page made progress.                                             *)
Idle == [pc |-> "idle", q |-> NoRequest, seen |-> NoConfig, todo |-> {}, remap |-> {},
         rows |-> 0, batch |-> {}, copy |-> NoCells, moved |-> FALSE]

Init ==
  /\ onList \in BOOLEAN
  /\ config = FirstConfig
  /\ status \in [Row -> {"live", "deleted"}]
  /\ cell \in [Row -> {S \in SUBSET DOMAIN config : Cardinality(S) <= MaxHeld}]
  /\ h = [p \in Patcher |-> Idle]
  /\ patches = 0
  /\ edits = 0
  /\ exposed = [p \in Patcher |-> {}]
  /\ before = [p \in Patcher |-> NoCells]

(***************************************************************************)
(* What a body means                                                       *)
(***************************************************************************)
(* resolve_option: by id first, then by label.                             *)
Resolve(c, raw) ==
  IF raw \in DOMAIN c THEN raw
  ELSE IF \E o \in DOMAIN c : c[o] = raw
       THEN CHOOSE o \in DOMAIN c : c[o] = raw
       ELSE NoOption

(* The config update_field stores, ids assigned.                           *)
Written(q) ==
  [o \in DOMAIN q.kept \cup {DerivedId[l] : l \in q.added} |->
     IF o \in DOMAIN q.kept THEN q.kept[o]
     ELSE CHOOSE l \in q.added : DerivedId[l] = o]

Dropped(c, q) == DOMAIN c \ DOMAIN q.kept

(* The replacement is found in the config the body sends, where an added   *)
(* option has no id yet: it is never one of the dropped ids.               *)
KnownReplacement(q, raw) ==
  raw = Clear \/ raw \in q.added \/ Resolve(q.kept, raw) # NoOption

RewriteFirst(x) ==
  \A o \in x.remap :
     \/ x.q.asked[o] = Clear
     \/ Resolve(x.q.kept, x.q.asked[o]) \in DOMAIN x.seen

(* The config whose labels the rewrite resolves replacements against: the  *)
(* one read at the start when rows go first, else the one just written.    *)
Against(x) == IF RewriteFirst(x) THEN x.seen ELSE Written(x.q)

Target(x, o) ==
  IF x.q.asked[o] = Clear THEN Clear ELSE Resolve(Against(x), x.q.asked[o])

(* migrate_option_value.                                                   *)
Migrated(x, S) == (S \ x.remap) \cup ({Target(x, o) : o \in S \cap x.remap} \ {Clear})

(***************************************************************************)
(* Rows a query for the field's values returns                             *)
(***************************************************************************)
(* Mutant: the record branch forgets include_deleted.                      *)
VisibleLive(r) == status[r] = "live"

(* Records are read with include_deleted; a list query joins live records  *)
(* only.                                                                   *)
Visible(r) == status[r] # "gone" /\ (onList => status[r] = "live")

Holding(O) == {r \in Row : Visible(r) /\ cell[r] \cap O # {}}

(* exposed: somebody else wrote the row while the PATCH ran, or hid it or  *)
(* brought it back; or the PATCH could not see it when it began, or it was *)
(* off the config already.                                                 *)
Exposing(r, but) ==
  [p \in Patcher |-> IF p \in but \/ h[p].pc = "idle" THEN exposed[p]
                     ELSE exposed[p] \cup {r}]

End(p) ==
  /\ h' = [h EXCEPT ![p] = Idle]
  /\ exposed' = [exposed EXCEPT ![p] = {}]
  /\ before' = [before EXCEPT ![p] = NoCells]

(***************************************************************************)
(* The PATCH handler                                                       *)
(***************************************************************************)
(* get_field, and the checks that need only it: a migration key that is    *)
(* not dropped is a 400.                                                   *)
BeginPatch(p, q) ==
  /\ h[p].pc = "idle"
  /\ patches < MaxPatches
  /\ DOMAIN q.asked \subseteq Dropped(config, q)
  /\ patches' = patches + 1
  /\ h' = [h EXCEPT ![p] = [Idle EXCEPT !.pc = "planning", !.q = q,
                                        !.seen = config, !.todo = Dropped(config, q)]]
  /\ exposed' = [exposed EXCEPT ![p] =
                   {r \in Row : ~Visible(r) \/ ~(cell[r] \subseteq DOMAIN config)}]
  /\ before' = [before EXCEPT ![p] = cell]
  /\ UNCHANGED <<config, rowVars>>

(* count_option_usage and the decision for one dropped option: unused ones *)
(* need no plan; a used one needs a replacement that exists, or it is a    *)
(* 409 or 400, and so are too many rows.                                   *)
CountOption(p, o) ==
  LET x == h[p]
      used == Cardinality(Holding({o}))
      allowed == /\ o \in DOMAIN x.q.asked
                 /\ KnownReplacement(x.q, x.q.asked[o])
                 /\ x.rows + used <= MaxMigration IN
  /\ x.pc = "planning"
  /\ o \in x.todo
  /\ \/ /\ used = 0
        /\ h' = [h EXCEPT ![p] = [x EXCEPT !.todo = @ \ {o}]]
        /\ UNCHANGED ghostVars
     \/ /\ used > 0 /\ allowed
        /\ h' = [h EXCEPT ![p] = [x EXCEPT !.todo = @ \ {o}, !.remap = @ \cup {o},
                                           !.rows = @ + used]]
        /\ UNCHANGED ghostVars
     \/ /\ used > 0 /\ ~allowed
        /\ End(p)
  /\ UNCHANGED <<config, rowVars, patches>>

(* Rows first.  A replacement the resolving config does not have is a 400. *)
StartRewrite(p) ==
  LET x == h[p] IN
  /\ x.pc = "planning" /\ x.todo = {}
  /\ x.remap # {} /\ RewriteFirst(x)
  /\ IF \A o \in x.remap : Target(x, o) # NoOption
     THEN /\ h' = [h EXCEPT ![p] = [x EXCEPT !.pc = "rewriting", !.rows = 0]]
          /\ UNCHANGED ghostVars
     ELSE End(p)
  /\ UNCHANGED <<config, rowVars, patches>>

(* Store::update_field: the whole config, the last writer's.               *)
WriteConfig(p) ==
  LET x == h[p] IN
  /\ \/ x.pc = "planning" /\ x.todo = {} /\ (x.remap = {} \/ ~RewriteFirst(x))
     \/ x.pc = "writing"
  /\ config' = Written(x.q)
  /\ h' = [h EXCEPT ![p] = [x EXCEPT !.rows = 0, !.pc =
             IF x.pc = "planning" /\ x.remap # {} THEN "rewriting" ELSE "answered"]]
  /\ UNCHANGED <<rowVars, patches, ghostVars>>

(* load_migration_batch, always from offset 0.                             *)
LoadBatch(p) ==
  LET x == h[p]
      left == Holding(x.remap) IN
  /\ x.pc = "rewriting"
  /\ x.batch = {}
  /\ IF left = {}
     THEN h' = [h EXCEPT ![p] =
                  [x EXCEPT !.pc = IF RewriteFirst(x) THEN "writing" ELSE "answered"]]
     ELSE \E S \in SUBSET left :
            /\ Cardinality(S) <= Page
            /\ S # left => Cardinality(S) = Page
            /\ h' = [h EXCEPT ![p] = [x EXCEPT !.batch = S, !.moved = FALSE,
                        !.copy = [r \in Row |-> IF r \in S THEN cell[r] ELSE {}]]]
  /\ UNCHANGED <<config, rowVars, patches, ghostVars>>

(* Mutant: no forward-progress check.                                      *)
GivesUpAtTheLimit(moved, rows) == rows > MaxMigration

(* A page without progress is a 500, and more than                         *)
(* MAX_OPTION_MIGRATION_RECORDS rows are a 409.                            *)
GivesUp(moved, rows) == ~moved \/ rows > MaxMigration

(* Mutants: the write brings the row back; it adds to what the row holds.  *)
StoredAnyway(r, value) == value
StoredBeside(r, value) == IF status[r] = "gone" THEN cell[r] ELSE cell[r] \cup value

(* What the row stores afterwards; a row that is gone is not written.      *)
Stored(r, value) == IF status[r] = "gone" THEN cell[r] ELSE value

(* write_migrated_row: the value is computed from the copy and validated   *)
(* against the config of the moment, and a refusal ends the request.  A    *)
(* record write that changes nothing is no progress; a list entry's always *)
(* is, and so is a row that is gone.                                       *)
WriteRow(p, r) ==
  LET x == h[p]
      value == Migrated(x, x.copy[r])
      progress == onList \/ status[r] = "gone" \/ value # cell[r]
      rows == IF progress THEN x.rows + 1 ELSE x.rows
      ends == x.batch = {r} /\ GivesUp(x.moved \/ progress, rows) IN
  /\ x.pc = "rewriting"
  /\ r \in x.batch
  /\ \/ /\ status[r] # "gone"
        /\ ~(value \subseteq DOMAIN config)
        /\ End(p)
        /\ UNCHANGED cell
     \/ /\ status[r] = "gone" \/ value \subseteq DOMAIN config
        /\ cell' = [cell EXCEPT ![r] = Stored(r, value)]
        /\ h' = [h EXCEPT ![p] = IF ends THEN Idle ELSE
                    [x EXCEPT !.batch = @ \ {r}, !.rows = rows, !.moved = @ \/ progress]]
        /\ exposed' = [Exposing(r, {p}) EXCEPT ![p] = IF ends THEN {} ELSE @]
        /\ before' = [before EXCEPT ![p] = IF ends THEN NoCells ELSE @]
  /\ UNCHANGED <<onList, config, status, patches, edits>>

(* The answer goes out, and the handler is gone.                           *)
Answer(p) ==
  /\ h[p].pc = "answered"
  /\ End(p)
  /\ UNCHANGED <<config, rowVars, patches>>

(* The handler's future is dropped, or a store call fails.                 *)
Cancel(p) ==
  /\ h[p].pc \notin {"idle", "answered"}
  /\ End(p)
  /\ UNCHANGED <<config, rowVars, patches>>

(***************************************************************************)
(* The other requests                                                      *)
(***************************************************************************)
(* update_record, update_list_entry: the value must be made of the field's *)
(* options, soft-deleted or not.                                           *)
SaveCell(r, S) ==
  /\ status[r] # "gone"
  /\ S \subseteq DOMAIN config
  /\ Cardinality(S) <= MaxHeld
  /\ cell' = [cell EXCEPT ![r] = S]
  /\ exposed' = Exposing(r, {})
  /\ UNCHANGED <<onList, config, status, h, patches, before>>

(* delete_record and restore_record of the row, or of its entry's record.  *)
DeleteRow(r) ==
  /\ status[r] = "live"
  /\ status' = [status EXCEPT ![r] = "deleted"]
  /\ exposed' = IF onList THEN Exposing(r, {}) ELSE exposed
  /\ UNCHANGED <<onList, config, cell, h, patches, before>>

RestoreRow(r) ==
  /\ status[r] = "deleted"
  /\ status' = [status EXCEPT ![r] = "live"]
  /\ exposed' = IF onList THEN Exposing(r, {}) ELSE exposed
  /\ UNCHANGED <<onList, config, cell, h, patches, before>>

(* purge_record, remove_list_entry.                                        *)
RemoveRow(r) ==
  /\ status[r] # "gone"
  /\ status' = [status EXCEPT ![r] = "gone"]
  /\ cell' = [cell EXCEPT ![r] = {}]
  /\ exposed' = Exposing(r, {})
  /\ UNCHANGED <<onList, config, h, patches, before>>

RowRequest(r) ==
  /\ edits < MaxEdits
  /\ edits' = edits + 1
  /\ \/ \E S \in SUBSET DOMAIN config : SaveCell(r, S)
     \/ DeleteRow(r)
     \/ RestoreRow(r)
     \/ RemoveRow(r)

HandlerStep(p) ==
  \/ \E o \in OptionId : CountOption(p, o)
  \/ StartRewrite(p)
  \/ WriteConfig(p)
  \/ LoadBatch(p)
  \/ \E r \in Row : WriteRow(p, r)
  \/ Answer(p)

Next ==
  \/ \E p \in Patcher :
       \/ \E q \in Request : BeginPatch(p, q)
       \/ HandlerStep(p)
       \/ Cancel(p)
  \/ \E r \in Row : RowRequest(r)

Spec == Init /\ [][Next]_vars

(* The store's mutex is FIFO and the runtime polls every handler: a        *)
(* handler's next store call is made in the end, however busy the rest is. *)
FairSpec == Spec /\ \A p \in Patcher : WF_vars(HandlerStep(p))

(***************************************************************************)
(* Properties                                                              *)
(***************************************************************************)
Handler == [pc: {"idle", "planning", "rewriting", "writing", "answered"},
            q: Request \cup {NoRequest}, seen: Config, todo: SUBSET OptionId,
            remap: SUBSET OptionId, rows: Nat, batch: SUBSET Row,
            copy: [Row -> Cell], moved: BOOLEAN]

(* Every handler is in one of its states and no row that is gone stores a  *)
(* value: a removal clears it and no late rewrite brings it back.          *)
TypeOK ==
  /\ onList \in BOOLEAN
  /\ config \in Config
  /\ status \in [Row -> {"live", "deleted", "gone"}]
  /\ cell \in [Row -> Cell]
  /\ h \in [Patcher -> Handler]
  /\ patches \in 0..MaxPatches
  /\ edits \in 0..MaxEdits
  /\ exposed \in [Patcher -> SUBSET Row]
  /\ before \in [Patcher -> [Row -> Cell]]
  /\ \A r \in Row : status[r] = "gone" => cell[r] = {}

(* The options the PATCH takes off the config it read.                     *)
Gone(x) == DOMAIN x.seen \ DOMAIN Written(x.q)

(* No replacement is an option the same request drops: what the check in   *)
(* plan_option_migration is there for.                                     *)
Apart(x) == \A o \in x.remap : Target(x, o) \notin Dropped(x.seen, x.q)

(* patch_field: when the request has been answered with a 200, no row is   *)
(* left on an option it dropped, whatever order it worked in and whatever  *)
(* else ran, unless the row escaped it.                                    *)
AnsweredMeansMoved ==
  \A p \in Patcher : h[p].pc = "answered" /\ Apart(h[p]) =>
    \A r \in Row \ exposed[p] : cell[r] \cap Gone(h[p]) = {}

(* apply_option_migration: at every moment of a request, also of one that  *)
(* is about to be refused or dropped, a row that nobody else writes has    *)
(* either the value it had or the one the body asks for: the options that  *)
(* stay are kept and no value is moved twice.                              *)
MovedOnce ==
  \A p \in Patcher : h[p].pc # "idle" /\ Apart(h[p]) =>
    \A r \in Row \ exposed[p] :
       cell[r] \in {before[p][r], Migrated(h[p], before[p][r])}

(* apply_option_migration's loop ends, although it re-reads from the start *)
(* for as long as rows match and others may put rows back.                 *)
PatchEnds == \A p \in Patcher : h[p].pc # "idle" ~> h[p].pc = "idle"

(* What plan_option_migration's comment says of every request: no value is *)
(* left on an option the request removes.                                  *)
NothingLeftOnADroppedOption ==
  \A p \in Patcher : h[p].pc = "answered" =>
    \A r \in Row \ exposed[p] : cell[r] \cap Gone(h[p]) = {}

================================================================================
