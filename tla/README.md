# Harbor, verified: TLA+ models, model checking and proofs

Harbor (the `ryu-crm` app) is a CRM that runs as a sidecar process next to a
Core host. All of its state is one SQLite database, `crm.db`, reached through
one `Arc<Mutex<Connection>>`. This directory models the parts of it whose
correctness depends on the order of things: what store calls leave behind, what
several clients and several processes do to each other between calls, and what
a stop in the middle leaves.

Each component has a module (the state as VARIABLES, one action per operation
or handler step), an `MC*` module with the instances TLC explores, one or more
`.cfg` files, and a `*Proofs` module whose theorems TLAPS checks for every
value of the constants. `PROJECT.json` maps every definition to the source
lines it stands for.

    tlc -config RecordStore.cfg MCRecordStore      # a run
    tlapm RecordStoreProofs.tla                    # the proofs

Components that share no state are explored by one run part after part
(`MCKeys`, `MCWorkspace`), not as a product.

## 1. The system

### 1.1 How the parts interact

- **HTTP handlers** (`backend/src/api/`) take a request and make one or several
  **store calls** (`backend/src/store.rs`, `store/*.rs`). One store call locks
  the connection once and runs to completion, so inside one process it is
  atomic. A handler with several calls is not: any other request, the sweep, or
  a cancellation (the client hangs up, the process stops) can fall between two
  of them. These gaps are what the handler models are about.
- **Two processes** may share one data dir. Each has its own mutex, so a store
  call made of several statements outside a transaction can be interleaved by
  the other process; only SQLite's transactions protect it.
- **Events** (`backend/src/events.rs`, `crates/core/app-events`) go to Core after
  the commit, best effort: nothing is retried and nothing remembers a lost one.
- **The sweep** (`backend/src/main.rs`) is a task of each process that claims
  overdue tasks and announces them.
- **Sealing** (`crates/core/crypto`, `store/crypto.rs`): content is encrypted at
  rest; opening the store may run a migration, a rebuild of the blind term index
  and a scrub.

### 1.2 Inventory

| Component | State | Operations | What is hard | What makes it correct |
|---|---|---|---|---|
| record store (`store/records.rs`, `links.rs`, `merge.rs`, `validation.rs`, `search.rs`) | `records`, `record_links`, `records_terms` | create, update (Merge/Replace), link, unlink, delete, restore, purge, merge | three hand-kept projections of the bag; checks that ran when a value was written, not when it comes back; hand-written cascades | projections match the bags; unique values are unique among live records; nothing outlives its row |
| lists and entries (`store/lists.rs`) | `lists`, `list_entries` | add, remove, entry values | membership of deleted records; repointing in a merge | an entry names an existing record of the list's object |
| timeline and tasks (`store/activities.rs`, `main.rs` sweep) | `activities` | create, edit, complete, delete, claim, announce | two processes; a stop between claim and announcement; read-modify-write of a row | a task is announced at most once, and the backlog drains |
| CSV import (`store/imports.rs`, `api/imports/`) | `import_jobs` and the records it writes | create, map, preview, apply, delete | two clients on one job; check on a copy; fan-out after commit | a row is written once; the preview and the outcome are those of the job |
| field options (`api/objects.rs`, `store/fields.rs`, `objects.rs`, `lists.rs`) | `fields.config` and every stored value of the field | PATCH with option migration | config and rows are two writes; pages; other writers between | no value is orphaned; values move once; the loop ends |
| objects and fields (`store/objects.rs`, `store/fields.rs`, `store/seeds.rs`) | `objects`, `fields` | create, edit, reorder, delete (cascade), seed at start | nine-table cascade; title field checked in another call; seeds at every start | no reference to something deleted |
| saved views (`store/views.rs`, `api/views.rs`) | `views`, `lists` and their fields | create, edit, set default, delete | one default per object; a list's field made in two locks | exactly one default; the last view stays |
| record handlers (`api/records.rs`, `api/insights.rs`, `events.rs`) | none kept; what Core has heard | every request on a record, the agent's tools, the events | checks in one lock, the write in another, the event after both | an event tells what is stored; a fault is answered only when there is one |
| search and reports (`store/search.rs`, `store/reports.rs`) | none (reads) | filter, sort, page, board, pipeline, funnel | SQL's NULL; two routes to one number | a filter keeps what it says; the board and the funnel agree |
| sealing of `crm.db` (`store/crypto.rs`, `seal_keys.rs`) | `crm_meta`, sealed columns | open, migrate, rebuild index, scrub | a crash between separate transactions | what is owed is noticed at the next open |
| content store migration (`crypto/content_sqlite.rs`) | per-item migration state, key record, pending vacuum | migrate in batches, finish, vacuum | crash and resume; a retired key; a full disk | a store that serves is sealed whole and opens whole; a scrub stays owed |
| plugin keys (`crypto/plugin_keys/`) | standalone root and pin | climb the ladder, pin | a folder that moves between Core and standalone | one root per folder |
| key custody (`crypto/custody.rs`, `crypto/lib.rs`) | four key slots, retired vault, check value | resolve, adopt, retire, import | several durable writes with stops between; two hosts | some key still opens the folder |
| sealed files and logs (`crypto/sealed_log.rs`, `sealed_file.rs`) | frames | create, append, sync, open, compact | torn appends, lost power | a reopened log is what was acknowledged |
| crypto primitives | none | ciphers, blind index, vector index | byte formats | – |
| event emitter and host clients (`app-events`) | none kept | emit, subscribe, report | loss | best effort, never blocks a write |
| sidecar runtime | handoff file | publish, withdraw, layout | two runs on one file | a run withdraws only its own handoff |
| HTTP surface | none | routing, bearer gate, errors | – | – |
| build and release scripts | none | – | – | – |

## 2. The modules

| Module | Role |
|---|---|
| `RecordStore` | records, edges, memberships, timeline, term index under every store call that writes them |
| `ImportJob` | one import job under several clients, with the records it writes and the users who change them |
| `DueAnnouncement` | the contract of `task.due`, abstract: a task is announced at most once |
| `TaskSweep` | processes that claim and announce, users who edit; implements `DueAnnouncement` |
| `OptionMigration` | the PATCH handler that edits a field's options and rewrites the rows |
| `RecordApi` | the handlers around the record store, between their locks, and the events they send |
| `Schema` | objects, fields, views, lists, entries and the slugs their bags hold; cascades and seeds |
| `RecordQueries` | filters compiled to SQL's three-valued logic, sort and page, and the plain reading of a filter |
| `Pipeline` | the stage of records, its log, and the three reports on it (extends `RecordQueries`) |
| `ViewFilter` | the filter of a saved view as clients edit it (extends `RecordQueries`) |
| `KeyCustody` | the master key of a folder: slots, retired keys, check value, the `keys` commands |
| `SealedStore` | an open of `crm.db`: key, migration in batches, scrub, index |
| `DurableLog` | the contract of a sealed log, abstract: what its readers get only grows, but for an unsynced tail |
| `SealedLog` | one sealed log and the file its compaction publishes; implements `DurableLog` |
| `MC…` | the finite instances, inputs and symmetry sets the runs use |
| `…Proofs` | theorems, lemmas and proofs |

### 2.1 RecordStore

One action per store call, since a call is atomic. A value bag is reduced to
the two fields whose rules reach across records: one `is_unique` field (`key`)
and one relation field (`rel`). `WriteValues` is `write_record_values`: an empty
diff writes nothing; a change rewrites the bag, reconciles the record's edges
with it, reindexes and adds the automatic timeline entry. `MergeSoft` and
`MergeHard` run the whole merge: resolution of both fields, both repointing
passes over edges, list entries and activities, the save of the survivor, and
the deletion of the losers. A relation write re-checks every target of the
resulting set (as `mutate_links` does), an update of another field does not.

`MergeInto` is a merge of either kind with any resolution. `restored` and `merged` are history: which records took a
path that skips the uniqueness check. `row` keeps `purged` and `absorbed` apart only for the
properties; both mean that the row is gone.

### 2.2 ImportJob

Each client has at most one handler in progress, with a program counter: a
load and the checks on the loaded copy
(`BeginPreview`, `BeginApply`, `BeginMapping`), then the store calls
(`RunPreview`, `RunApply` or `ApplyRefused`, `CreateField`, `SaveMapping`), then the announcing loops one event
at a time. Between any two steps another client, a user or a crash may act. The
plan over the file (`PlanRow`, `ExtraAfter`, `Outcome`) follows `plan_import` and
`apply_import`: all rows are planned against the records before the first is
written, and then written in file order.

Users create, update, merge, delete, restore and purge any record meanwhile, those
the file brought included (`CreateRecord` to `PurgeRecord`). A create or an update that carries
the key checks it against the live records; a restore and the resolutions of a
merge check nothing, and `bypassed` is the history of the live records they
wrote, until a checked write of the key. `MaxEdits` bounds these edits; a merge
counts for two, a create for none.

### 2.3 TaskSweep and DueAnnouncement

`Claim` is the one statement of `claim_due_tasks`, which selects, stamps and
hands back a batch; `Announce` is the emit of one claimed task, a step of its
own that may fail (`Sweep` is either). `ReadForEdit` and `WriteEdit` are the two
statements of `update_activity`, between which
another process may write: the edit then undoes it, so any value may be written
back, except `due_notified_at`, which is not among the columns. A process may stop anywhere and be
started again. `DueAnnouncement` says what a consumer of `task.due` may rely on;
the refinement mapping hides processes, queues and edits.

### 2.4 OptionMigration

The handler's steps are: read the field, count and plan, then either rewrite
rows page by page and write the config, or the other way round
(`rewrite_first`), then answer. Ids and labels are kept apart, and `Resolve`
is applied to the body's config by the plan and to `Against` by the rewrite, as
in the code. Values are
sets, so that one module does `select`, `status` and `multi_select`. `exposed`
is history: the rows somebody else wrote, hid or brought back while the handler
ran, and those it could not see or that were off the config when it began.
`before` is history too: the values the rows had at that moment.

### 2.5 RecordApi

`at` is each client's handler between two of its steps: what it looked up, by
which lock, and what it still owes (`news`). A handler looks an object or a
record up (`FindObject`, `FindRecord` and their kin), acts in a later lock on
what may be gone by then, and after a commit sends its events one by one: first
the look-up that an event needs (an object that is gone ends it, a store error fails the request), then `record.created`, `record.updated` with
the changes, and `deal.stage_changed`. A send is heard or lost. `ImportApplied`
writes any rows of an object in one commit and then tells of some of them, the
created first, updates without a change of stage (`ImportTells`); which rows fit under
the fan-out limit is `ImportJob`'s matter, here it may be any. `OptionMigrated` and
`FieldDeleted` write many bags and tell nobody. `met` is
history: the handler's object or record vanished under it, so that an opaque
answer is not its fault. `heardBag` and `heardStage` are what a consumer that keeps
the last event holds; `staleBag` and `staleStage` collect the records no event
can speak for, each for a reason in the code.

### 2.6 Schema

A table is a set of rows. Most handlers are one store call in effect (a later
lock repeats the check of an earlier one) and are one action; picking a title,
deleting a field and adding a list field rely on an earlier lock, and are two.
A bag is the set of slugs it has a value for. `Restart` is the seeding of every
start: what is missing by id is inserted again. `raced` and `reseeded` are
history, for the exceptions the properties name.

### 2.7 RecordQueries, Pipeline and ViewFilter

A filter tree is the table of its nodes, children before their parent and the
root last, so that what the code computes by recursion is a function over the
table. `Where` compiles it as `build_condition` and `build_filter` do: a
condition on an unknown key is dropped from its parent, and every leaf is
true, false or unknown. `Means` is the plain reading of the same table. The
order of rows compares the sorts in turn and then the id. `Pipeline` keeps
the `stage_change` entries that `write_record_values` writes (`moves`: of which record,
when, from where, to where), including the rule that only
a change of the *first* changed field can be a stage change, and computes the
board's columns, the pipeline report and the funnel from the records and the
entries. `Merge` hands the losers' entries to the survivor before it saves the
resolved values, as `merge_records` does, and a purge takes its record's entries along.
`adrift` is history: records whose present stage no entry of their own led to, because
that change was saved with an earlier field, or because they never moved
and took over the moves of a loser. `ViewFilter` is
the one variable that clients of a saved view build up: set, added to, turned
over.

### 2.8 KeyCustody

Four slots (environment, keychain, key file, legacy file), the retired vault
and its index, and the recorded check value. A host climbs the ladder, stores
what it minted, verifies, decides against the recorded value and notes it, one
durable write per step; a `keys adopt`, `retire` or import runs as `Admin` while
no host does. A key stands for its check value. What the decision tries, where
a folder has no recorded value, is a sample of the sealed data, possibly none of it
(`Samples`): the probe reads the ends of one table, and what is sealed may be elsewhere. A
retired key is stored in two steps, its vault entry and then the index, which is one write here.
`sealed`, `minted`, `erased` and `clobbered` are history.

### 2.9 SealedStore

The steps of `CrmStore::prepare` in their order: choose the key (delivered,
under the master key, standalone root with its pin, compat), check it against
the store's record, run what is owed, migrate item by item in batches behind a
cursor, rebuild the term index, finish. A stop may come after any commit, the
disk may be full, and a Core may adopt or a folder move to another launcher
between two runs. `residue` is where rewritten plaintext survives: the WAL,
free pages, and the unused bytes of live pages.

### 2.10 SealedLog and DurableLog

A log is its header and frames; a frame opens under one key at one index.
Appends, syncs, stops in mid-write, power loss (unsynced frames go, or stay in
part), a failed append after which the writer is still used (`limp`), opens
under the present or a retired key with the torn tail cut, and `Publish`, the
write to a temporary file and rename of compaction. `acked` is the set of
records that were acknowledged and not lost since with their unsynced bytes,
which is all a caller may count on; `limp` and `poisoned` are history.
`DurableLog` says what a reader may count on; the refinement mapping reads the
file under the key that opens it (`Contents`, `Stable`) and hides frames, keys,
writers and headers.

## 3. What the runs check

Deadlock checking is off in every run but `workspace`: requests are optional, and the
bounded counters make a quiescent end state legal, so a stop is not an error.

| Run | Instance | Distinct states | Shows |
|---|---|---|---|
| `records` | 1 person, 2 companies, 1 unique value, 1 list, 1 note | 151,835 | the six properties below |
| `records_restore` | 2 companies, 1 unique value | violation | a restore brings a unique value back beside its new holder |
| `import` | 2 clients, 3 rows (1 and 2 share a key), 1 user record, 2 edits, fan-out limit 1, 4 mapping requests | 2,111,017 | the job under races, crashes and users |
| `import_outcome` | the same | violation | a late preview reopens an applied job, a second apply empties its outcome |
| `tasks` | 2 processes, 2 tasks (one unreadable), 2 instants, batch 1, 1 stop | 13,862 | at most once, refinement, the backlog drains |
| `tasks_exactly_once` | 2 processes, 1 task, Core never fails | violation | "exactly once" does not survive a stop |
| `options` | 2 rows, 1 PATCH, 2 other edits, page of 1 row, 8 bodies | 313,071 | one PATCH against other writers and a cancellation, and its liveness |
| `options_overlap` | 1 row, 2 PATCHes, 1 other edit | 2,147,291 | two PATCHes of one field |
| `options_dropped` | 1 row, 1 PATCH, nobody else | violation | `NothingLeftOnADroppedOption`: a label that means two options |
| `record_api` | 2 clients, 1 object, 2 records, 2 names, 2 stages, 2 commits | 953,868 | what is heard is what is stored; honest answers |
| `workspace` | five parts: views; fields; list entries' bags; board; filters | 306,361 | cascades, defaults, titles, reports, filters |
| `keys` | three parts: custody with 2 hosts and 4 keys; store with 2 columns, 3 rows, 4 keys; log of 4 records under 2 keys | 3,565,210 | keys survive, the store is sealed and opens, the scrub stays owed, a log reads back |

### 3.1 Properties

`RecordStore`
- `NothingLeftBehind`: a row that is gone leaves no edge out of it, no
  membership and no activity (its terms: `IndexMatchesBag`); a list holds records of its own object.
- `IndexMatchesBag`: the term index of a record is that of its present bag.
- `UniqueUnlessBypassed`: two live records share a unique value only if one was
  restored or merged. `LiveUnique`, without the exception, is refuted.
- `DriftExplained`: edges and bags agree except around a merge or a target that
  is gone.
- `NoteOutlivesItsRecord` (action): a note leaves its record only by its own
  deletion, by the purge of that very record, or by a merge that absorbs the
  record, and then the survivor has it. No edit, link or restore loses one, nor a
  merge, soft or hard, of losers live or already deleted.

`ImportJob`
- `RowsLandOnce`: no row is written or announced twice, nor announced unwritten.
- `PreviewIsCurrent`: a stored preview belongs to the stored mapping.
- `FanoutCapped`: an apply raises at most the limit, both loops together.
- `DuplicatesComeFromTheFile`: two live records share the key only if both came out
  of the file, the rule was `create_always`, or a restore brought one of them back or
  a merge wrote it, which check nothing. A user's checked write is never the cause.
- `OutcomeOnlyEmptied` (action): after the first outcome no row is written; the
  outcome can only be emptied or go with the job. `OutcomeIsKept`, that it stays,
  is refuted.

`TaskSweep`
- `OneClaimant`: a task waits in one queue, once, or was announced, never both.
- `ImplementsDueAnnouncement`: refinement of the contract.
- `BacklogDrains` (liveness): an overdue open task does not stay unclaimed.
  `AnnouncedExactlyOnce` is refuted.

`OptionMigration`
- `MovedOnce`: a row nobody else writes holds the value it had or the one the
  body asks for, at every step; nothing is moved twice or half.
- `AnsweredMeansMoved`: an answered PATCH left no row on an option it dropped,
  except exposed rows, whatever order it worked in. Both it and `MovedOnce` are
  about bodies whose replacements are not dropped by the same request (`Apart`),
  which the plan's check is there to ensure; `options_dropped` shows that it
  does not always, and checks the same statement without that condition.
- `PatchEnds` (liveness): a started PATCH ends.

`RecordApi`
- `ConsumersKeepUp`: once no handler has news of a record left, the last event of
  each kind says what the record holds, but for the records in `staleBag` and
  `staleStage`: told of by two handlers at once, a lost event, and, until the next commit
  that is told, an option migration, a field deletion or an import beyond its fan-out limit,
  which tell nobody; for the stage alone also a merge, an import's update, and an
  update whose first changed field is another.
- `HonestAnswers`: an opaque error or an answer that contradicts the store comes
  only from a handler whose object or record vanished between its locks, or from
  an agent's tool or an import whose look-up after the write met a store error.

`Schema`
- `NoOrphans`: nothing outlives what it belongs to, but for a list field that
  raced the list's deletion.
- `OneDefault`: every object has a default view, and one only unless a start
  brought a deleted seeded default back.
- `TitleIsAField`: a title is a field of its object, or was stored raw, or raced.
- `NoGhostValues`: no bag holds a value for a field that is gone.

`Pipeline` and `ViewFilter`
- `EveryRowOnceUnmoved`: the pages of a view, the board's columns and the pipeline
  report's buckets count the same records once each, up to stages whose option
  is gone. It is asked where no move is logged, which loses nothing: none of the
  three reads the log.
- `FunnelCoversBoard`: the funnel counts every live record as having entered the
  stage it is in, unless that move was saved together with an earlier field, or the
  record never moved and took over the moves of one merged into it.
- `FilterMeans`: a compiled filter decides each row of a table or a list as its
  plain reading does, except an unset value that a *not* or *is none of* turns over.

`KeyCustody`
- `KeysSurvive`: a key that sealed a value stays in a slot or is retired.
- `OldValuesOpen`: a host that is up opens everything the folder sealed, unless the
  key still sits in a live slot it did not read from or in a keychain out of reach,
  or is lost: what an adoption, an import or a recovery superseded is among the
  retired keys it loaded.
- `UnderTheRecordedKey`: a host that found a check value runs under that key.
- `RefusalIsForced`: a folder with a recorded key is refused only when no readable
  slot holds it or the environment names another.

`SealedStore`
- `ServedSealed`: a store that serves under a key has no plaintext left in a
  sealed column and its index is of that key.
- `SealedOpens`: every value opens under a key the process has.
- `ScrubStaysOwed`: plaintext left in the file stays recorded as a debt.
- `StandaloneKeyKept`: a folder sealed under a standalone root keeps it.

`SealedLog`
- `LogReadsBack`: what was acknowledged and not lost reads back in order, under the
  current or a retired key, and so it does from the compacted file; excepted are
  a log appended to after a failed append, and one whose first record was torn at
  full length.
- `ImplementsDurableLog`: refinement. Opening, cutting a tail, a failed append, a
  stop and an adoption change nothing for a reader; a loss of power takes at most
  what no sync covered; a compaction publishes what the log holds. It does without
  `acked`: the contents are what the code would read.

### 3.2 Bounds, and why they are enough

- *Records.* A merge needs a survivor and a loser, a unique clash two records,
  an edge a source and a target; two companies and one person give all of them
  and a merge whose loser is a relation target. A relation
  that holds both companies is reachable (`RelationMultiple`). Two companies are
  interchangeable, hence the symmetry; no liveness is checked with it.
- *Import.* Rows 1 and 2 share a key and row 3 does not: duplicates inside the
  file, an update after a create, and a batch larger than the fan-out limit.
  Two clients give every race of the handlers (each race is between two calls).
  One user record is enough to be matched, edited, deleted and purged. Two edits are enough
  to delete a record and restore it after the import, or for one merge; with the
  creations, which are free, they reach every way to share a key.
- *Tasks.* Batch 1 with two tasks forces a second sweep; the unreadable task can
  be at the head of every batch. One stop suffices for every violation that a
  stop causes, since a process keeps nothing.
- *Options.* Page 1 with two rows makes the loop take several pages; two other
  requests can fall into any gap. A limit of two rows is exceeded when an edit between two counts makes a row
  count twice.
  Eight bodies cover dropping without a plan, by id, by label and to nothing, for
  an added option, with the dropped label added again, the two renamings, and a
  body built from an old read. `options_overlap` gives up one row and the page
  boundary for a second PATCH and cells of two options.
- *Handlers.* Each race is between two handlers, and each handler holds at most
  two records: two clients, two records. Two commits on one record are needed for
  events out of order; with two records there, one commit besides the creations,
  which keeps the run short. An import's commit may write both records and tell of any
  of them.
- *Workspace.* One seeded and one custom object; the seeded ids come back, the
  others do not. Two clients' calls in flight for the title and the list field; one
  with records and entries. Positions 0 to 3 hold a tie and a gap. The board
  has two records and two options, one of which can be dropped, and two moves:
  forwards, backwards, or both, of one record or of two that are merged after. Filters are those of up to five nodes built from 21
  conditions, six of which are combined with others, asked of 36 rows with every
  pattern of unset values, alone and behind a list entry's own field.
- *Keys.* Two hosts because `RESOLVE_LOCK` is a process's; one of them, Core,
  records the check value. One old, two mintable and one operator's key: enough for
  an adoption over an adoption, and a vault of two that is full. Two
  commands or operator changes (three were also run once, and pass).
- *Store.* Batches of one over columns of two rows and one put a stop before,
  inside and after every batch and item; at most one value opens under no key.
- *Log.* Four records: a committed prefix, a torn frame, and two behind it.

Every bound is a CONSTANT (`MaxTime`, `MaxStops`, `MaxPatches`,
`MaxEdits`, `MaxWrites`, `MaxMoves`, `MaxTurns`, `MaxRecords`, `MaxPosition`), used in the guard of the action it bounds; the other numbers
(`Batch`, `FanoutLimit`, `Page`, `MaxMigration`, `MaxRetired`,
`BatchSize`, `MAX_SORTS`) are limits the code has.

### 3.3 Fairness

All modules but two check safety only. `TaskSweep!FairSpec` assumes
strong fairness of each process's sweep (the loop lives as long as the process,
and Tokio's mutex is first come, first served, so a sweep is not overtaken for
ever), weak fairness of finishing an edit already begun (a store call runs to
its end) and of starting a stopped process (Core supervises it).
`OptionMigration!FairSpec` assumes weak fairness of a handler's own next step:
a request in progress is polled. Nothing is assumed of users, of Core's answers
or of clients.

## 4. What is proved

TLAPS proves the theorems below for every value of the constants. Assumptions
on constants are named in the module that declares them: `NoKeyIsNotAKey`;
`RowCells`, `Requests`, `LimitAssumption`, `EditsAssumption` and `Markers` in `ImportJob`;
`SweepConstants`; `OptionConstants`; `ApiConstants`; `SchemaConstants`;
`StoreConstants`; `CustodyConstants`; `LogConstants`; `QueryConstants`,
`PipelineConstants` and `FilterConstants`.
They state that the constants are of their
types and that markers are distinct from data; those of filters also that an order,
a range or a flag is asked of a single-valued field only and that a condition
compares with a value, never with null. The last is an assumption about clients, not
the code's doing: `models.rs` defaults a missing value to null and the API does not refuse it. `OptionConstants` also says that
`Row` is finite, that the labels of one body differ and that an added label's id
is not one the body keeps (the code appends `_2` to avoid that).

| Theorem | Argument |
|---|---|
| `RecordStoreProofs!TypeCorrect` | `TypeOK` is inductive |
| `…!SearchIsCurrent`, `UniquenessHoldsWhereChecked`, `NoResidue`, `ProjectionDrift` | each property is inductive together with `TypeOK`. The work is in `WriteValues` and the two merges: lemmas say what repointing and the survivor's save do to edges, members and timeline |
| `…!NotesAreKept` | action property, one case per operation; needs `TypeOK` only. The merges hand every loser's timeline to the survivor, whether the losers were live or deleted |
| `ImportJobProofs!RowsImportedOnce`, `OutcomeStaysOrEmpties` | see below |
| `…!ImportTypes`, `PreviewStaysCurrent` | `TypeOK /\ Working` is inductive, and under it so is `PreviewIsCurrent` |
| `…!KeysSharedInsideTheFile`, `FanoutStaysCapped` | under the same types: a created row's key is held by no live record, a checked write's by no other, and what a restore or a merge writes is in `bypassed`; what an apply has still to announce fits in what is left of the cap (`AllFit`) |
| `TaskSweepProofs!TypeCorrect`, `NeverAnnouncedTwice` | `TypeOK /\ OneClaimant` is inductive: a claim takes only unclaimed tasks, and `claimed` is never cleared |
| `…!SweepImplementsDueAnnouncement` | step simulation under that invariant; a claim, an edit or a stop maps to a step of the contract or a stutter |
| `OptionMigrationProofs!Invariance` and the three theorems on it | see below |

**Why the import is safe.** The obvious argument, that an applied job has
status `applied`, is not inductive: a preview can reopen it. What prevents a
second landing is that `apply_import` drops the uploaded file in the transaction
that writes the rows. The invariant says so: `Types`, `FileUntouched` (while the
file is there nothing has landed and nothing was announced), `RowsLandOnce`,
`PendingIsFresh` (what a client still has to announce has landed and was not
announced) and `PendingApart` (a row waits to be announced in one place).

**Why values move once.** `OptionMigrationProofs!IInv` is `TypeOK` and, for each
handler, `Runs(p)`. `Orderly`: it plans only for options it drops, counts all of
them before it acts, and has no page in hand outside the loop. `Followed`, for
each row nobody else writes: the row is visible and was on the config that was
read; a dropped option it held is still to be counted or has a plan; its copy in
a page is what it holds; it holds its old value or that value's image; and once
the loop has ended it holds no planned option. When the replacements are not
dropped themselves (`Apart`), an image holds no planned option, so the rewrite
never moves a value twice.

**Why cascades leave nothing.** `WorkspaceProofs!KeyedInvariant` carries the rest: an
id names one row, ids in use were handed out and are never handed out again, so
what a handler read under an id in one lock is the same row in the next, or
gone. `NoOrphansInv` adds that a list a handler resolved was of the object it was
read with; `DefaultInv` that a new object has no views yet; `GhostsInv` that an
entry's list is there; `TitleInv` what the two title handlers checked.

**Why the scrub stays owed.** `SealedStoreProofs!StagedInvariant` says what each
stage of an open has in hand. On it stand `PinInv` (a root is pinned before
anything is sealed under it), `RingInv` (values are under keys of the ring),
`WalkInv` (behind the cursor nothing is plain) and `ScrubInv`, which needs
`WalkInv`: a store whose columns are all sealed has no plain cell left to free.
That a batch is a prefix of what lies ahead of the cursor uses the least row that
is not in it (`Least`, by well-foundedness of the naturals).

**Why consumers keep up.** `RecordApiProofs!KeepInv`: of each record either some
handler owes its present bag (or stage), or the consumer has it, or the record is in
the stale set; and two handlers that owe news of one record put it there. An import
owes what it reads back, so it owes the present bag as long as nobody else commits; rows
it tells of no longer, or not at all, are in the stale set. Commits that
tell nobody (`SilentWrite`) put what they wrote there.
`HonestInv`: what a handler looked up is still there unless it is marked `met`.

| Theorem | Argument |
|---|---|
| `WorkspaceProofs!TypeInvariant` | `TypeOK` is inductive |
| `…!CascadesAreComplete`, `DefaultsAreUnique`, `TitlesAreFields`, `GhostsNeverAppear` | each from `Keyed` and its own strengthening, one case per handler step |
| `SealedStoreProofs!StagedInvariant` | inductive: types and the stages of an open |
| `…!StandaloneKeepsItsKey`, `StoresOpenWhole`, `ServesOnlySealed`, `PlaintextStaysOwed` | from it with `PinInv`, `RingInv`, `WalkInv`, `ScrubInv` |
| `RecordApiProofs!ApiTypes` | a handler between two steps has one of the shapes the code has |
| `…!AnswersAreHonest`, `WhatIsHeardIsTrue` | `HonestInv`, `KeepInv` |
| `KeyCustodyProofs!CustodyTypes`, `HostsRunUnderTheRecord` | `CInv`: the types and `Orderly` |
| `…!SealedKeysSurvive` | `SInv`, see below |
| `…!HostsOpenOldValues`, `RefusalsAreForced` | `OldInv`; `MintInv`, `ClimbInv` and `RefInv`, see below |
| `SealedStoreProofs!LogsReadBack` | `LogInv`, see below |
| `…!LogImplementsDurableLog` | step simulation under `LogInv`; `ReaderStep` is what a step does to the records |
| `WorkspaceProofs!FunnelFindsRecords` | `FunnelInv`: a record's own moves led to where it is, through merges too |
| `…!WhereSaysWhatItMeans`, `FiltersReadAsMeant` | row by row of the filter's table, see below |
| `…!RowsCountedOnce` | a total order, pages of it, columns and buckets that partition it, see below |

**Why keys survive.** `KeyCustodyProofs!Orderly`: a host that is not idle keeps the
commands out, only Core writes the record while hosts run, and only where it found
none; so what a host read of the record stays true. `SInv` adds three things.
`Stored`: what the index names, or is about to name, is already in the vault.
`RetiredFirst`: when an installation stores its key, every key it replaces is
indexed. `HostsSafe`: a host that has decided holds a key of a slot, of the
operator, of the retired set, or one of the losses. A key is then lost only
where a slot changes, and each such step is a case of its own.

**Why old values open.** `OldInv`, on top of `CInv`: what a host holds once it has
decided covers every key that was in the retired set it could read, so a key it
cannot open with is in a slot, the operator's, or lost; and what it has still to
retire came from a slot. A key leaves a slot by an install or by a host's store,
and both have indexed it by then.

**Why a refusal is forced.** The hard case is two hosts that climb an empty
ladder at once: a host refused for want of the recorded key stays rightly refused
only if no other host puts that very key into a slot afterwards. `ClimbInv` says
what hosts about to store hold: with a writable keychain all the same key, that of
the fallback slot or of whoever wrote first, or each a fresh one; otherwise a key
some slot already shows. `MintInv` keeps a fresh key apart from anything visible,
and so from the recorded key of a host refused before.

**Why a log reads back.** `SealedStoreProofs!LogInv`. `Shape`: until a writer goes
on after a failed append, the frames are records of one key at their own index, in
the order they were handed to `append`, with at most one bad frame, at the end.
`AtTheEnd`: a writer that has not failed appends where the records end. `Kept`:
what was acknowledged is among the records, and in whatever compaction wrote. The
shape forces which key opens the file (`OpeningKey`), whatever was adopted since.
The refinement stands on the same invariant: before the promise is void, a reader
gets just the records at the front of the file (`Ids`), so each step is seen in what
it does to them; that a compaction publishes what the log holds needs that nothing
was cut or added since it was read (`CompactedInv`).

**Why a filter reads as it was meant.** Both readings are functions over the table
of nodes (`Sql` and `Meanings`), each well-defined because a node names earlier
ones only. `TableInduction`, by the least row that fails, replaces induction over
the tree: a row of the table is dropped in one reading exactly when it constrains
nothing in the other, and where nothing unset was turned over below it, it is
`true` exactly when its meaning is, and otherwise `false`, or `unknown`, which
reads as false. `WhereSaysWhatItMeans` is that for every well-formed filter;
`FilterMeans` follows since every edit keeps a filter well formed.

**Why every row is counted once.** The id at the end of every `ORDER BY` makes
`Before` a strict total order on the rows of a table, so each row has a rank of
its own, `Sorted` lists by rank, and a row is on the page its rank falls on, once
(`(n - 1) \div limit` bounds the pages). A column adds a condition to the view's
filter, and `And` keeps the rows that both keep. The buckets are disjoint, so their
union has the report's total. `FunnelInv` is that of a record with moves that is not adrift
one move led to where it is (`OwnMoveStands`), and that an id free for use has no
moves. A merge only adds to a survivor's moves, so what stood still stands; one that
had none is adrift if it takes over any and its own save adds none.

**Why the cap holds.** An apply queues the rows before which fewer than
`FanoutLimit` stand (`FirstOf`). The rest of such a prefix, without its last row,
all stand before that row, so there are fewer than `FanoutLimit` of them: a count
that needs the last row (`Greatest`) and no induction over the file.

Only model-checked: the liveness properties `BacklogDrains` and `PatchEnds`.
Liveness under fairness is out of the prover's reach, as is `ENABLED`. Every
invariant, action property and refinement that a passing run checks is stated by a
theorem. The library's induction theorems take an operator as a parameter, which
no installed prover can instantiate; where data had to be gone through (filters,
pages, the import's prefix), the proofs take a least or a greatest element of a set
instead. What a sum adds up to (`MapThenSumSet`) is not unfolded: two sums are shown
equal by being over the same set.

## 5. Findings

1. `restore_record` (and a merge's resolutions) skip the uniqueness check, so two
   live records can share a unique value (`records_restore`).
2. `dry_run_import` reopens an applied job when the preview was let in before the
   apply; a second apply then replaces the outcome with an empty one
   (`import_outcome`). No row is imported twice: that is proved.
3. The README's "exactly once" for `task.due` is "at most once": a process that
   stops between claim and announcement leaves the task unannounced
   (`tasks_exactly_once`).
4. A replacement named by label is resolved in the new config by the plan and in
   the old one by the rewrite; rows can end on an option the same request drops
   (`options_dropped`).

Further departures of the code from its comments, met while modelling and
written into the models or into the exceptions the properties name. No run is
spent on them.

*Handlers and events.* An agent's update looks its object up after the commit with `?`
(`insights.rs:633`): a store error there answers a committed write as a failure, though
`records.rs` says a committed write must not become an error. (An object that is gone
ends the events quietly.) A merge
never emits `deal.stage_changed`; an option migration and the deletion of a field
rewrite bags and emit nothing; an import emits `record.updated` with no changes, no change
of stage, and nothing beyond its fan-out limit. `stage_change_from` stops at the first changed
field that is no status field (`store/records.rs:468`), so a stage that moves in
one request with a field before it leaves no `stage_change` entry and no
`deal.stage_changed`: the timeline and the funnel miss the move. An object deleted between
two locks of a create, or a record between two of a merge, is answered with an
opaque error.

*Schema.* A PATCH stores a title as it was typed (a slug, a blank), and
`compute_title` looks it up as an id only. The title check races the deletion of
the field. A deleted seeded view or field comes back at the next start, so an
object can have two defaults ("Exactly one default per object", `api/views.rs`).
A list field can be created for a list that is gone. `create_field` takes a
negative position.

*Queries and reports.* `is_none_of` and `not eq` exclude unset rows, `not_eq`
includes them. An `or` drops a condition on a lost field instead of being true. Rows
on a dropped option are in no column and no bucket. The funnel's `advanced` counts
backward moves and those of deleted records. A record that never moved and survives a
merge with one that did is no longer counted in the stage it is in:
`merge_records` hands it the loser's moves (`merge.rs:164`), which the funnel takes for its
own (`reports.rs:245`).

*Keys.* A legacy key file that differs is said to stay a retired key
(`lib.rs`, near 1350); `resolve` retires only what the index lists. Two processes
that seed an empty keychain overwrite each other (`write_key_file`'s doc at
`lib.rs:1006`). An adoption whose keychain is readable but not writable writes over a
key file nobody retired. An adoption with the keychain out of reach does not
retire the recorded key it holds. A host that records nothing can switch keys before
Core's first run.

*Store.* A finished store keeps its key record after an adoption, since
`migrate_content` resets no item (`content_sqlite.rs:708`); an adoption in
mid-migration moves the record while earlier items stay under the old key
("Every value now opens under the current root"). `report.unreadable` is that of one
run (`:567`). An index rebuild on its own leaves no debt when it stops before
`finish_store`. A stop between creating and writing the standalone root leaves a short
file that refuses every start.

*Log.* A first record torn at full length wedges the log under every key, though
the module's doc says a last record that does not open is cut. A stop between
creating the file and its header leaves one that neither opens nor can be created
again. An append after a failed append (`sealed_log.rs:406`) hides every later
record.

## 6. What is not modelled

- `RecordStore`, `ImportJob`, `Schema`, `Pipeline`, `OptionMigration` and `RecordApi` take
  one store call as one step. That is so inside one process, which holds its mutex for
  the call. Two processes on one data dir can interleave the statements of a call that
  is not one transaction, and a check made before a transaction; that is modelled for
  tasks and keys only, and the properties of these six modules are stated for one
  process.
- In `RecordStore`: bags of more than two fields; edits of a field's flags.
- In `ImportJob`: CSV parsing, delimiter guessing and column suggestions (text
  handling), and deletion of the job's object.
- In `TaskSweep`: the window arithmetic of the task lists (a read).
- In `OptionMigration`: a unique select field that clashes during the rewrite,
  the `_2` suffix of option ids, duplicate labels in one body, rows that do not
  open, and deletion of the field while the PATCH runs.
- In `RecordApi`: bodies of more than a name and a stage, tasks, and links; between
  an import's reading a row back and its sending there is no step.
- In `Schema`: a view's grouping, field positions and reordering, links, values, soft
  deletes, and checks of an earlier lock that a store call repeats.
- In `RecordQueries`: text operators, the search prefilter and its ranking, `CAST`
  to numbers, and conditions that compare with null. In `Pipeline`: times, and the
  reordering and deletion of the board's own fields.
- In `KeyCustody`: the data-format marker, bundle encoding, a torn write of the
  retired index (one write here), and the moves of key material
  between custodies and profiles.
- In `SealedStore`: the queue of deferred compactions, `open_store` and `reopen`
  (used by other sidecars), two sidecars on one file, and what an index rebuild
  leaves in freed pages.
- In `SealedLog`: the bytes of headers and frames.
- Ciphers, key derivation, the blind and the vector index: byte formats, beyond a
  state model. Routing, the bearer gate, rendering, the SSE client and the usage
  reporter: no state whose order matters. The handoff file: a handful of lines,
  whose one race is listed as a hazard. Packaging scripts: no runtime state.

## 7. Plan

Done, in this order: `RecordStore`, `ImportJob`, `TaskSweep` with
`DueAnnouncement`, `OptionMigration`, and their proofs; then `KeyCustody`,
`SealedStore`, `SealedLog`; `Schema`, `Pipeline`, `RecordQueries`; `RecordApi`;
the proofs of `Schema`, `SealedStore`, `RecordApi` and `KeyCustody`, and of the rest
of the import's invariants; then those of `OldValuesOpen`, `RefusalIsForced`,
`SealedLog`, `Pipeline` and filters, so that every invariant a run checks is proved.

Left, in order of what is at stake:

1. Action properties of key custody and the store: who may move the recorded check
   value, and that a sealed value is never written in the clear again.
2. An abstract contract of an import's announcements, as `DueAnnouncement` is one of
   the sweep's.
3. Two sidecars on one sealed file, and the queue of deferred compactions.
