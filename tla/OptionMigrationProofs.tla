------------------------ MODULE OptionMigrationProofs ------------------------
(***************************************************************************)
(* What a PATCH of a field's options does to the rows nobody else writes,  *)
(* for any rows, options, bodies, page size and limits and any number of   *)
(* PATCHes at once: no value is moved twice, and an answered PATCH leaves  *)
(* none on an option it dropped.                                           *)
(*                                                                         *)
(* The invariant follows such a row through the request.  It is visible    *)
(* and was on the config that was read; what it holds of the dropped       *)
(* options is still to be counted or has a plan; its copy in a page is     *)
(* what it holds; and when the loop has ended it holds no planned option.  *)
(***************************************************************************)
EXTENDS OptionMigration, FiniteSetTheorems, TLAPS

(* A request plans only for options it drops, and counts before it acts.   *)
Orderly(x) ==
  /\ x.todo \subseteq Dropped(x.seen, x.q)
  /\ x.remap \subseteq Dropped(x.seen, x.q)
  /\ x.pc # "planning" => x.todo = {}
  /\ x.pc = "answered" \/ x.pc = "writing" \/ x.pc = "planning" => x.batch = {}

Followed(p, r) ==
  LET x == h[p] IN
  /\ Visible(r)
  /\ before[p][r] \subseteq DOMAIN x.seen
  /\ before[p][r] \cap Dropped(x.seen, x.q) \subseteq x.todo \cup x.remap
  /\ r \in x.batch => x.copy[r] = cell[r]
  /\ x.pc = "planning" => cell[r] = before[p][r]
  /\ x.pc \in {"writing", "answered"} => cell[r] \cap x.remap = {}
  /\ Apart(x) /\ x.pc # "planning" =>
       cell[r] \in {before[p][r], Migrated(x, before[p][r])}

Runs(p) == h[p].pc # "idle" =>
             Orderly(h[p]) /\ \A r \in Row \ exposed[p] : Followed(p, r)

IInv == TypeOK /\ \A p \in Patcher : Runs(p)

--------------------------------------------------------------------------------
LEMMA NoConfigIsAConfig == NoConfig \in Config
<1>1. NoConfig \in [{} -> Label]
  BY DEF NoConfig
<1>. QED
  BY <1>1 DEF Config

LEMMA WrittenIsAConfig == \A q \in Request \cup {NoRequest} : Written(q) \in Config
<1>. SUFFICES ASSUME NEW q \in Request \cup {NoRequest} PROVE Written(q) \in Config
  OBVIOUS
<1>. DEFINE D == DOMAIN q.kept \cup {DerivedId[l] : l \in q.added}
<1>1. q.kept \in Config /\ q.added \subseteq Label
  BY OptionConstants, NoConfigIsAConfig DEF NoRequest
<1>2. D \subseteq OptionId /\ \A o \in DOMAIN q.kept : q.kept[o] \in Label
  BY <1>1, OptionConstants DEF Config
<1>3. \A o \in D : o \notin DOMAIN q.kept =>
        (CHOOSE l \in q.added : DerivedId[l] = o) \in Label
  BY <1>1
<1>4. Written(q) \in [D -> Label]
  BY <1>2, <1>3 DEF Written
<1>. QED
  BY <1>2, <1>4 DEF Config

(* Two states of a request with one plan do the same to a value.           *)
LEMMA SamePlan ==
  ASSUME NEW x, NEW y, x.q = y.q, x.seen = y.seen, x.remap = y.remap
  PROVE  /\ Apart(x) <=> Apart(y)
         /\ \A S : Migrated(x, S) = Migrated(y, S)
         /\ Dropped(x.seen, x.q) = Dropped(y.seen, y.q)
BY DEF Apart, Migrated, Target, Against, RewriteFirst, Dropped

(* When no replacement is dropped, a moved value is not moved again.       *)
LEMMA MovedStays ==
  ASSUME NEW x, NEW S, Apart(x), x.remap \subseteq Dropped(x.seen, x.q)
  PROVE  /\ Migrated(x, S) \cap x.remap = {}
         /\ Migrated(x, Migrated(x, S)) = Migrated(x, S)
<1>1. Migrated(x, S) \cap x.remap = {}
  BY DEF Migrated, Apart
<1>. QED
  BY <1>1 DEF Migrated

LEMMA RowsAreCounted == \A O : IsFiniteSet(Holding(O)) /\ Cardinality(Holding(O)) \in Nat
<1>1. \A O : Holding(O) \subseteq Row
  BY DEF Holding
<1>. QED
  BY <1>1, OptionConstants, FS_Subset, FS_CardinalityType

LEMMA IdleIsAState == Idle \in Handler
<1>1. NoCells \in [Row -> Cell]
  BY DEF NoCells, Cell
<1>. QED
  BY <1>1, NoConfigIsAConfig DEF Idle, Handler

(* Every way a step changes a handler.                                     *)
LEMMA CountTyped ==
  ASSUME NEW x \in Handler, NEW o \in OptionId, NEW n \in Nat
  PROVE  /\ [x EXCEPT !.todo = @ \ {o}] \in Handler
         /\ [x EXCEPT !.todo = @ \ {o}, !.remap = @ \cup {o}, !.rows = @ + n] \in Handler
<1>1. [x EXCEPT !.todo = @ \ {o}] \in Handler
  BY DEF Handler
<1>2. x.todo \ {o} \in SUBSET OptionId /\ x.remap \cup {o} \in SUBSET OptionId
  BY DEF Handler
<1>3. x.rows + n \in Nat
  BY DEF Handler
<1>4. \A O, P \in SUBSET OptionId, k \in Nat :
        [x EXCEPT !.todo = O, !.remap = P, !.rows = k] \in Handler
  BY DEF Handler
<1>. QED
  BY <1>1, <1>2, <1>3, <1>4

LEMMA PhaseTyped ==
  ASSUME NEW x \in Handler, NEW c \in {"planning", "rewriting", "writing", "answered"}
  PROVE  /\ [x EXCEPT !.pc = c, !.rows = 0] \in Handler
         /\ [x EXCEPT !.rows = 0, !.pc = c] \in Handler
         /\ [x EXCEPT !.pc = c] \in Handler
BY DEF Handler

LEMMA BatchTyped ==
  ASSUME NEW x \in Handler, NEW S \in SUBSET Row, NEW f \in [Row -> Cell]
  PROVE  [x EXCEPT !.batch = S, !.moved = FALSE, !.copy = f] \in Handler
BY DEF Handler

--------------------------------------------------------------------------------
LEMMA InitIInv == Init => IInv
<1>. SUFFICES ASSUME Init PROVE IInv
  OBVIOUS
<1>1. TypeOK
  BY OptionConstants, IdleIsAState DEF Init, TypeOK, Config, Cell, NoCells
<1>2. \A p \in Patcher : h[p].pc = "idle"
  BY DEF Init, Idle
<1>. QED
  BY <1>1, <1>2 DEF IInv, Runs

LEMMA EndTyped ==
  ASSUME TypeOK, NEW p \in Patcher, End(p)
  PROVE  /\ h' \in [Patcher -> Handler]
         /\ exposed' \in [Patcher -> SUBSET Row]
         /\ before' \in [Patcher -> [Row -> Cell]]
BY IdleIsAState DEF TypeOK, End, NoCells, Cell

LEMMA ExposingTyped ==
  ASSUME TypeOK, NEW r \in Row, NEW but
  PROVE  Exposing(r, but) \in [Patcher -> SUBSET Row]
BY DEF TypeOK, Exposing

LEMMA TypeStep == TypeOK /\ [Next]_vars => TypeOK'
<1>. SUFFICES ASSUME TypeOK, [Next]_vars PROVE TypeOK'
  OBVIOUS
<1>. USE DEF TypeOK, rowVars, ghostVars
<1>1. ASSUME NEW p \in Patcher, NEW q \in Request, BeginPatch(p, q) PROVE TypeOK'
  <2>1. [Idle EXCEPT !.pc = "planning", !.q = q, !.seen = config,
                     !.todo = Dropped(config, q)] \in Handler
    <3>1. Dropped(config, q) \in SUBSET OptionId
      BY DEF Dropped, Config
    <3>. HIDE DEF TypeOK
    <3>2. config \in Config
      BY DEF TypeOK
    <3>. QED
      BY <3>1, <3>2, IdleIsAState DEF Handler
  <2>2. h' \in [Patcher -> Handler]
    BY <1>1, <2>1 DEF BeginPatch
  <2>3. patches' \in 0..MaxPatches
    BY <1>1, OptionConstants DEF BeginPatch
  <2>. QED
    BY <1>1, <2>2, <2>3 DEF BeginPatch
<1>2. ASSUME NEW p \in Patcher, NEW o \in OptionId, CountOption(p, o) PROVE TypeOK'
  <2>1. h' \in [Patcher -> Handler] /\ exposed' \in [Patcher -> SUBSET Row]
        /\ before' \in [Patcher -> [Row -> Cell]]
    <3>1. CASE End(p)
      BY <3>1, EndTyped
    <3>2. CASE h' = [h EXCEPT ![p] = [h[p] EXCEPT !.todo = @ \ {o}]] /\ UNCHANGED ghostVars
      BY <3>2, CountTyped
    <3>3. CASE /\ h' = [h EXCEPT ![p] =
                    [h[p] EXCEPT !.todo = @ \ {o}, !.remap = @ \cup {o},
                                 !.rows = @ + Cardinality(Holding({o}))]]
               /\ UNCHANGED ghostVars
      BY <3>3, RowsAreCounted, CountTyped
    <3>. QED
      BY <1>2, <3>1, <3>2, <3>3 DEF CountOption
  <2>. QED
    BY <1>2, <2>1 DEF CountOption
<1>3. ASSUME NEW p \in Patcher, StartRewrite(p) PROVE TypeOK'
  <2>1. h' \in [Patcher -> Handler] /\ exposed' \in [Patcher -> SUBSET Row]
        /\ before' \in [Patcher -> [Row -> Cell]]
    <3>1. CASE End(p)
      BY <3>1, EndTyped
    <3>2. CASE /\ h' = [h EXCEPT ![p] = [h[p] EXCEPT !.pc = "rewriting", !.rows = 0]]
               /\ UNCHANGED ghostVars
      BY <3>2, PhaseTyped
    <3>. QED
      BY <1>3, <3>1, <3>2 DEF StartRewrite
  <2>. QED
    BY <1>3, <2>1 DEF StartRewrite
<1>4. ASSUME NEW p \in Patcher, WriteConfig(p) PROVE TypeOK'
  <2>1. h[p] \in Handler
    OBVIOUS
  <2>2. config' \in Config
    BY <1>4, <2>1, WrittenIsAConfig DEF WriteConfig, Handler
  <2>3. h' \in [Patcher -> Handler]
    BY <1>4, <2>1 DEF WriteConfig, Handler
  <2>. QED
    BY <1>4, <2>2, <2>3 DEF WriteConfig
<1>5. ASSUME NEW p \in Patcher, LoadBatch(p) PROVE TypeOK'
  <2>1. h' \in [Patcher -> Handler]
    <3>1. CASE h' = [h EXCEPT ![p] =
                 [h[p] EXCEPT !.pc = IF RewriteFirst(h[p]) THEN "writing" ELSE "answered"]]
      BY <3>1, PhaseTyped
    <3>2. ASSUME NEW S \in SUBSET Holding(h[p].remap),
                 h' = [h EXCEPT ![p] = [h[p] EXCEPT !.batch = S, !.moved = FALSE,
                         !.copy = [r \in Row |-> IF r \in S THEN cell[r] ELSE {}]]]
          PROVE  h' \in [Patcher -> Handler]
      <4>1. S \in SUBSET Row
        BY DEF Holding
      <4>2. [r \in Row |-> IF r \in S THEN cell[r] ELSE {}] \in [Row -> Cell]
        BY DEF Cell
      <4>. QED
        BY <3>2, <4>1, <4>2, BatchTyped
    <3>. QED
      BY <1>5, <3>1, <3>2 DEF LoadBatch
  <2>. QED
    BY <1>5, <2>1 DEF LoadBatch
<1>6. ASSUME NEW p \in Patcher, NEW r \in Row, WriteRow(p, r) PROVE TypeOK'
  <2>. DEFINE value == Migrated(h[p], h[p].copy[r])
  <2>1. CASE End(p) /\ UNCHANGED cell
    BY <1>6, <2>1, EndTyped DEF WriteRow
  <2>2. CASE ~(End(p) /\ UNCHANGED cell)
    <3>1. /\ status[r] = "gone" \/ value \subseteq DOMAIN config
          /\ cell' = [cell EXCEPT ![r] = Stored(r, value)]
      BY <1>6, <2>2 DEF WriteRow
    <3>2. DOMAIN config \subseteq OptionId
      BY DEF Config
    <3>3. Stored(r, value) \in Cell /\ (status[r] = "gone" => Stored(r, value) = {})
      BY <3>1, <3>2 DEF Stored, Cell
    <3>4. PICK b \in BOOLEAN, n \in Nat, m \in BOOLEAN :
            /\ h' = [h EXCEPT ![p] = IF b THEN Idle ELSE
                       [h[p] EXCEPT !.batch = @ \ {r}, !.rows = n, !.moved = m]]
            /\ exposed' = [Exposing(r, {p}) EXCEPT ![p] = IF b THEN {} ELSE @]
            /\ before' = [before EXCEPT ![p] = IF b THEN NoCells ELSE @]
      <4>. DEFINE progress == onList \/ status[r] = "gone" \/ value # cell[r]
                  n == IF progress THEN h[p].rows + 1 ELSE h[p].rows
                  m == h[p].moved \/ progress
                  b == h[p].batch = {r} /\ GivesUp(m, n)
      <4>1. n \in Nat
        BY DEF Handler
      <4>2. b \in BOOLEAN /\ m \in BOOLEAN
        BY DEF Handler
      <4>3. /\ h' = [h EXCEPT ![p] = IF b THEN Idle ELSE
                       [h[p] EXCEPT !.batch = @ \ {r}, !.rows = n, !.moved = m]]
            /\ exposed' = [Exposing(r, {p}) EXCEPT ![p] = IF b THEN {} ELSE @]
            /\ before' = [before EXCEPT ![p] = IF b THEN NoCells ELSE @]
        BY <1>6, <2>2 DEF WriteRow
      <4>. HIDE DEF b, n, m
      <4>. QED
        BY <4>1, <4>2, <4>3
    <3>5. h' \in [Patcher -> Handler]
      <4>1. [h[p] EXCEPT !.batch = @ \ {r}, !.rows = n, !.moved = m] \in Handler
        <5>1. h[p] \in Handler
          OBVIOUS
        <5>. HIDE DEF TypeOK
        <5>2. h[p].batch \ {r} \in SUBSET Row
          BY <5>1 DEF Handler
        <5>. QED
          BY <3>4, <5>1, <5>2 DEF Handler
      <4>2. (IF b THEN Idle ELSE [h[p] EXCEPT !.batch = @ \ {r}, !.rows = n, !.moved = m])
              \in Handler
        BY <4>1, IdleIsAState
      <4>. QED
        BY <3>4, <4>2
    <3>6. exposed' \in [Patcher -> SUBSET Row] /\ before' \in [Patcher -> [Row -> Cell]]
      BY <3>4, ExposingTyped DEF NoCells, Cell
    <3>7. cell' \in [Row -> Cell] /\ \A s \in Row : status[s] = "gone" => cell'[s] = {}
      BY <3>1, <3>3
    <3>. QED
      BY <1>6, <3>5, <3>6, <3>7 DEF WriteRow
  <2>. QED
    BY <2>1, <2>2
<1>7. ASSUME NEW p \in Patcher, Answer(p) \/ Cancel(p) PROVE TypeOK'
  BY <1>7, EndTyped DEF Answer, Cancel
<1>8. ASSUME NEW r \in Row, RowRequest(r) PROVE TypeOK'
  <2>1. edits' \in 0..MaxEdits
    BY <1>8, OptionConstants DEF RowRequest
  <2>2. DOMAIN config \subseteq OptionId
    BY DEF Config
  <2>3. Exposing(r, {}) \in [Patcher -> SUBSET Row]
    BY ExposingTyped
  <2>4. CASE \E S \in SUBSET DOMAIN config : SaveCell(r, S)
    BY <2>1, <2>2, <2>3, <2>4 DEF SaveCell, Cell
  <2>5. CASE DeleteRow(r) \/ RestoreRow(r)
    BY <2>1, <2>3, <2>5 DEF DeleteRow, RestoreRow
  <2>6. CASE RemoveRow(r)
    BY <2>1, <2>3, <2>6 DEF RemoveRow, Cell
  <2>. QED
    BY <1>8, <2>4, <2>5, <2>6 DEF RowRequest
<1>9. CASE UNCHANGED vars
  BY <1>9 DEF vars
<1>. QED
  BY <1>1, <1>2, <1>3, <1>4, <1>5, <1>6, <1>7, <1>8, <1>9 DEF Next, HandlerStep

--------------------------------------------------------------------------------
(* A step of somebody else that leaves a request's state alone and exposes *)
(* the rows it changes.                                                    *)
LEMMA OthersStep ==
  ASSUME TypeOK, NEW p \in Patcher, Runs(p),
         h'[p] = h[p], before'[p] = before[p],
         h[p].pc # "idle" =>
           /\ exposed[p] \subseteq exposed'[p]
           /\ \A r \in Row \ exposed'[p] : cell'[r] = cell[r] /\ (Visible(r) => Visible(r)')
  PROVE  Runs(p)'
<1>. SUFFICES ASSUME h[p].pc # "idle" PROVE Runs(p)'
  BY DEF Runs
<1>1. Orderly(h[p]) /\ \A r \in Row \ exposed[p] : Followed(p, r)
  BY DEF Runs
<1>2. ASSUME NEW r \in Row \ exposed'[p] PROVE Followed(p, r)'
  <2>1. Followed(p, r) /\ cell'[r] = cell[r] /\ Visible(r)'
    BY <1>1 DEF Followed
  <2>2. Apart(h'[p]) = Apart(h[p]) /\ \A S : Migrated(h'[p], S) = Migrated(h[p], S)
    OBVIOUS
  <2>. QED
    BY <2>1, <2>2 DEF Followed
<1>. QED
  BY <1>1, <1>2 DEF Runs, Orderly

(* A handler's own step that writes no row and keeps what it has exposed.  *)
LEMMA IdleRuns == ASSUME NEW p \in Patcher, h'[p] = Idle PROVE Runs(p)'
BY DEF Runs, Idle

LEMMA SaveStep ==
  ASSUME TypeOK, NEW p \in Patcher, Runs(p), NEW r \in Row, RowRequest(r)
  PROVE  Runs(p)'
<1>1. h' = h /\ before' = before /\ onList' = onList
  BY DEF RowRequest, SaveCell, DeleteRow, RestoreRow, RemoveRow
<1>2. h[p].pc # "idle" => Exposing(r, {})[p] = exposed[p] \cup {r}
  BY DEF Exposing
<1>3. CASE /\ exposed' = Exposing(r, {})
           /\ \A s \in Row \ {r} : cell'[s] = cell[s] /\ status'[s] = status[s]
  BY <1>1, <1>2, <1>3, OthersStep DEF Visible
<1>4. CASE (DeleteRow(r) \/ RestoreRow(r)) /\ ~onList
  <2>1. \A s \in Row : cell'[s] = cell[s] /\ Visible(s)' = Visible(s)
    BY <1>1, <1>4 DEF DeleteRow, RestoreRow, Visible, TypeOK
  <2>. QED
    BY <1>1, <1>4, <2>1, OthersStep DEF DeleteRow, RestoreRow
<1>5. \A s \in Row \ {r} :
        /\ cell' = cell \/ cell'[s] = cell[s]
        /\ status' = status \/ status'[s] = status[s]
  BY DEF TypeOK, RowRequest, SaveCell, DeleteRow, RestoreRow, RemoveRow
<1>6. exposed' = Exposing(r, {}) \/ ((DeleteRow(r) \/ RestoreRow(r)) /\ ~onList)
  BY DEF RowRequest, SaveCell, DeleteRow, RestoreRow, RemoveRow
<1>. QED
  BY <1>3, <1>4, <1>5, <1>6

(* The steps of the handler itself.                                        *)
LEMMA BeginStep ==
  ASSUME TypeOK, NEW p \in Patcher, NEW q \in Request, BeginPatch(p, q)
  PROVE  Runs(p)'
<1>1. h'[p] = [Idle EXCEPT !.pc = "planning", !.q = q, !.seen = config,
                           !.todo = Dropped(config, q)]
  BY DEF BeginPatch, TypeOK
<1>2. /\ h'[p].pc = "planning" /\ h'[p].q = q /\ h'[p].seen = config
      /\ h'[p].todo = Dropped(config, q) /\ h'[p].remap = {} /\ h'[p].batch = {}
  BY <1>1 DEF Idle
<1>3. /\ before'[p] = cell
      /\ exposed'[p] = {r \in Row : ~Visible(r) \/ ~(cell[r] \subseteq DOMAIN config)}
      /\ cell' = cell /\ status' = status /\ onList' = onList
  BY DEF BeginPatch, TypeOK, rowVars
<1>4. Orderly(h[p])'
  BY <1>2 DEF Orderly
<1>5. ASSUME NEW r \in Row \ exposed'[p] PROVE Followed(p, r)'
  <2>1. Visible(r) /\ cell[r] \subseteq DOMAIN config
    BY <1>3
  <2>2. Visible(r)'
    BY <2>1, <1>3 DEF Visible
  <2>. QED
    BY <1>2, <1>3, <2>1, <2>2 DEF Followed
<1>. QED
  BY <1>4, <1>5 DEF Runs

(* A step of p that writes no row and exposes none.                        *)
LEMMA OwnStep ==
  ASSUME NEW p \in Patcher, Runs(p), h[p].pc # "idle", UNCHANGED <<rowVars, ghostVars>>,
         h'[p].q = h[p].q, h'[p].seen = h[p].seen, h'[p].remap = h[p].remap,
         h'[p].todo = h[p].todo, Orderly(h[p]) => Orderly(h'[p]),
         h'[p].pc # "planning",
         h[p].pc = "planning" => h[p].todo = {},
         \A r \in Row \ exposed[p] : r \in h'[p].batch => h'[p].copy[r] = cell[r],
         h'[p].pc \in {"writing", "answered"} =>
           \/ h[p].pc \in {"writing", "answered"}
           \/ Holding(h[p].remap) = {}
           \/ h[p].remap = {}
  PROVE  Runs(p)'
<1>1. Orderly(h[p]) /\ \A r \in Row \ exposed[p] : Followed(p, r)
  BY DEF Runs
<1>2. exposed' = exposed /\ before' = before /\ cell' = cell /\ status' = status
      /\ onList' = onList
  BY DEF rowVars, ghostVars
<1>3. /\ Apart(h[p]) <=> Apart(h'[p])
      /\ \A S : Migrated(h[p], S) = Migrated(h'[p], S)
      /\ Dropped(h[p].seen, h[p].q) = Dropped(h'[p].seen, h'[p].q)
  BY SamePlan
<1>4. ASSUME NEW r \in Row \ exposed[p] PROVE Followed(p, r)'
  <2>1. Followed(p, r) /\ Visible(r)' /\ Visible(r)
    BY <1>1, <1>2 DEF Followed, Visible
  <2>2. h'[p].pc \in {"writing", "answered"} => cell[r] \cap h[p].remap = {}
    BY <2>1 DEF Followed, Holding
  <2>3. Apart(h[p]) => cell[r] \in {before[p][r], Migrated(h[p], before[p][r])}
    BY <2>1 DEF Followed
  <2>. QED
    BY <1>2, <1>3, <2>1, <2>2, <2>3 DEF Followed
<1>. QED
  BY <1>1, <1>2, <1>4 DEF Runs

LEMMA CountStep ==
  ASSUME TypeOK, NEW p \in Patcher, NEW o \in OptionId, CountOption(p, o), Runs(p)
  PROVE  Runs(p)'
<1>1. CASE h'[p] = Idle
  BY <1>1, IdleRuns
<1>. DEFINE x == h[p]
            y == h'[p]
<1>2. x \in Handler /\ x.pc = "planning" /\ o \in x.todo
  BY DEF CountOption, TypeOK
<1>3. Orderly(x) /\ \A r \in Row \ exposed[p] : Followed(p, r)
  BY <1>2 DEF Runs
<1>4. CASE /\ h'[p] # Idle
           /\ UNCHANGED ghostVars
           /\ y.q = x.q /\ y.seen = x.seen /\ y.batch = x.batch /\ y.pc = "planning"
           /\ y.todo = x.todo \ {o}
           /\ \/ Holding({o}) = {} /\ y.remap = x.remap
              \/ y.remap = x.remap \cup {o}
  <2>1. /\ exposed' = exposed /\ before' = before /\ cell' = cell /\ status' = status
        /\ onList' = onList
    BY <1>4 DEF CountOption, rowVars, ghostVars
  <2>2. Orderly(y)
    BY <1>2, <1>3, <1>4 DEF Orderly
  <2>3. ASSUME NEW r \in Row \ exposed[p] PROVE Followed(p, r)'
    <3>1. Followed(p, r) /\ Visible(r) /\ Visible(r)' /\ cell[r] = before[p][r]
      BY <1>2, <1>3, <2>1 DEF Followed, Visible
    <3>2. Holding({o}) = {} => o \notin before[p][r]
      BY <3>1 DEF Holding
    <3>3. before[p][r] \cap Dropped(y.seen, y.q) \subseteq y.todo \cup y.remap
      BY <1>4, <3>1, <3>2 DEF Followed
    <3>4. y.batch = {}
      BY <1>2, <1>3, <1>4 DEF Orderly
    <3>. QED
      BY <1>4, <2>1, <3>1, <3>3, <3>4 DEF Followed
  <2>. QED
    BY <2>1, <2>2, <2>3 DEF Runs
<1>5. \/ h'[p] = Idle
      \/ UNCHANGED ghostVars /\ Cardinality(Holding({o})) = 0
           /\ y = [x EXCEPT !.todo = @ \ {o}]
      \/ UNCHANGED ghostVars /\ y = [x EXCEPT !.todo = @ \ {o}, !.remap = @ \cup {o},
                                              !.rows = @ + Cardinality(Holding({o}))]
  BY DEF CountOption, TypeOK, End
<1>6. Cardinality(Holding({o})) = 0 => Holding({o}) = {}
  BY RowsAreCounted, FS_EmptySet
<1>. HIDE DEF x, y
<1>7. x = h[p] /\ y = h'[p]
  BY DEF x, y
<1>. QED
  BY <1>1, <1>2, <1>4, <1>5, <1>6, <1>7 DEF Handler

LEMMA PhaseStep ==
  ASSUME TypeOK, NEW p \in Patcher, StartRewrite(p) \/ WriteConfig(p) \/ LoadBatch(p), Runs(p)
  PROVE  Runs(p)'
<1>. DEFINE x == h[p]
            y == h'[p]
<1>1. x \in Handler /\ x.pc # "idle"
  BY DEF TypeOK, StartRewrite, WriteConfig, LoadBatch
<1>2. Orderly(x)
  BY <1>1 DEF Runs
<1>3. CASE StartRewrite(p)
  <2>1. CASE End(p)
    BY <2>1, IdleRuns DEF End, TypeOK
  <2>2. CASE y = [x EXCEPT !.pc = "rewriting", !.rows = 0] /\ UNCHANGED ghostVars
    <3>1. /\ y.q = x.q /\ y.seen = x.seen /\ y.remap = x.remap /\ y.todo = x.todo
          /\ y.pc = "rewriting" /\ y.batch = x.batch /\ y.copy = x.copy
      BY <1>1, <2>2 DEF Handler
    <3>2. Orderly(y) /\ x.batch = {} /\ x.todo = {} /\ UNCHANGED rowVars
      BY <1>2, <1>3, <3>1 DEF StartRewrite, Orderly
    <3>. QED
      BY <1>1, <2>2, <3>1, <3>2, OwnStep
  <2>. QED
    BY <1>3, <2>1, <2>2 DEF StartRewrite, TypeOK
<1>4. CASE WriteConfig(p)
  <2>1. y = [x EXCEPT !.rows = 0, !.pc =
               IF x.pc = "planning" /\ x.remap # {} THEN "rewriting" ELSE "answered"]
    BY <1>4 DEF WriteConfig, TypeOK
  <2>2. /\ y.q = x.q /\ y.seen = x.seen /\ y.remap = x.remap /\ y.todo = x.todo
        /\ y.pc \in {"rewriting", "answered"} /\ y.batch = x.batch /\ y.copy = x.copy
        /\ y.pc = "answered" => x.pc = "writing" \/ x.remap = {}
    <3>. DEFINE c == IF x.pc = "planning" /\ x.remap # {} THEN "rewriting" ELSE "answered"
    <3>1. c \in {"rewriting", "answered"} /\ y = [x EXCEPT !.rows = 0, !.pc = c]
      BY <2>1
    <3>2. c = "answered" => x.pc = "writing" \/ x.remap = {}
      BY <1>4 DEF WriteConfig
    <3>. HIDE DEF c
    <3>. QED
      BY <1>1, <3>1, <3>2 DEF Handler
  <2>3. Orderly(y) /\ x.batch = {} /\ x.todo = {} /\ UNCHANGED <<rowVars, ghostVars>>
    BY <1>2, <1>4, <2>2 DEF WriteConfig, Orderly
  <2>. QED
    BY <1>1, <2>2, <2>3, OwnStep
<1>5. CASE LoadBatch(p)
  <2>1. x.pc = "rewriting" /\ x.batch = {} /\ UNCHANGED <<rowVars, ghostVars>> /\ x.todo = {}
    BY <1>2, <1>5 DEF LoadBatch, Orderly
  <2>2. CASE /\ Holding(x.remap) = {}
             /\ y = [x EXCEPT !.pc = IF RewriteFirst(x) THEN "writing" ELSE "answered"]
    <3>1. /\ y.q = x.q /\ y.seen = x.seen /\ y.remap = x.remap /\ y.todo = x.todo
          /\ y.pc \in {"writing", "answered"} /\ y.batch = x.batch
      BY <1>1, <2>2 DEF Handler
    <3>2. Orderly(y)
      BY <1>2, <2>1, <3>1 DEF Orderly
    <3>. QED
      BY <1>1, <2>1, <2>2, <3>1, <3>2, OwnStep
  <2>3. ASSUME NEW S \in SUBSET Row,
               y = [x EXCEPT !.batch = S, !.moved = FALSE,
                             !.copy = [r \in Row |-> IF r \in S THEN cell[r] ELSE {}]]
        PROVE  Runs(p)'
    <3>1. /\ y.q = x.q /\ y.seen = x.seen /\ y.remap = x.remap /\ y.todo = x.todo
          /\ y.pc = "rewriting" /\ y.batch = S
          /\ \A r \in S : y.copy[r] = cell[r]
      BY <1>1, <2>1, <2>3 DEF Handler
    <3>2. Orderly(y)
      BY <1>2, <2>1, <3>1 DEF Orderly
    <3>. QED
      BY <1>1, <2>1, <3>1, <3>2, OwnStep
  <2>4. \A O : Holding(O) \subseteq Row
    BY DEF Holding
  <2>. QED
    BY <1>5, <2>2, <2>3, <2>4 DEF LoadBatch, TypeOK
<1>. QED
  BY <1>3, <1>4, <1>5

(* A row is written from its copy, which is what it holds: its old value   *)
(* becomes the planned one, and the planned one stays.                     *)
LEMMA WriteStep ==
  ASSUME TypeOK, NEW p \in Patcher, NEW r \in Row, WriteRow(p, r), Runs(p)
  PROVE  Runs(p)'
<1>. DEFINE x == h[p]
            y == h'[p]
<1>1. CASE y = Idle
  BY <1>1, IdleRuns
<1>2. x \in Handler /\ x.pc = "rewriting" /\ r \in x.batch
  BY DEF WriteRow, TypeOK
<1>3. Orderly(x) /\ \A s \in Row \ exposed[p] : Followed(p, s)
  BY <1>2 DEF Runs
<1>4. CASE y # Idle
  <2>1. /\ status[r] = "gone" \/ Migrated(x, x.copy[r]) \subseteq DOMAIN config
        /\ cell' = [cell EXCEPT ![r] = Stored(r, Migrated(x, x.copy[r]))]
        /\ status' = status /\ onList' = onList
    BY <1>4 DEF WriteRow, End, TypeOK
  <2>2. /\ y.q = x.q /\ y.seen = x.seen /\ y.remap = x.remap /\ y.todo = x.todo
        /\ y.pc = "rewriting" /\ y.batch = x.batch \ {r} /\ y.copy = x.copy
    <3>. DEFINE progress == \/ onList \/ status[r] = "gone"
                            \/ Migrated(x, x.copy[r]) # cell[r]
                n == IF progress THEN x.rows + 1 ELSE x.rows
                m == x.moved \/ progress
                ends == x.batch = {r} /\ GivesUp(m, n)
    <3>1. h' = [h EXCEPT ![p] = IF ends THEN Idle ELSE
                  [x EXCEPT !.batch = @ \ {r}, !.rows = n, !.moved = m]]
      BY <1>4 DEF WriteRow, End, TypeOK
    <3>. HIDE DEF n, m, ends
    <3>2. y = [x EXCEPT !.batch = @ \ {r}, !.rows = n, !.moved = m]
      BY <1>4, <3>1 DEF TypeOK
    <3>. QED
      BY <1>2, <3>2 DEF Handler
  <2>3. exposed'[p] = exposed[p] /\ before'[p] = before[p]
    BY <1>4 DEF WriteRow, End, TypeOK, Exposing
  <2>4. Orderly(y)
    BY <1>2, <1>3, <2>2 DEF Orderly
  <2>5. /\ Apart(x) <=> Apart(y)
        /\ \A S : Migrated(x, S) = Migrated(y, S)
        /\ Dropped(x.seen, x.q) = Dropped(y.seen, y.q)
    BY <2>2, SamePlan
  <2>6. ASSUME NEW s \in Row \ exposed[p] PROVE Followed(p, s)'
    <3>1. Followed(p, s) /\ Visible(s) /\ Visible(s)'
      BY <1>3, <2>1 DEF Followed, Visible
    <3>2. s # r => cell'[s] = cell[s]
      BY <2>1 DEF TypeOK
    <3>3. s = r => cell'[s] = Migrated(x, cell[s])
      BY <1>2, <2>1, <3>1 DEF TypeOK, Followed, Stored, Visible
    <3>4. Apart(x) => cell'[s] \in {before[p][s], Migrated(x, before[p][s])}
      <4>1. Apart(x) => cell[s] \in {before[p][s], Migrated(x, before[p][s])}
        BY <1>2, <3>1 DEF Followed
      <4>2. Apart(x) => Migrated(x, Migrated(x, before[p][s])) = Migrated(x, before[p][s])
        BY <1>3, MovedStays DEF Orderly
      <4>. QED
        BY <3>2, <3>3, <4>1, <4>2
    <3>. QED
      BY <1>2, <2>2, <2>3, <2>5, <3>1, <3>2, <3>4 DEF Followed
  <2>. QED
    BY <2>2, <2>3, <2>4, <2>6 DEF Runs
<1>. QED
  BY <1>1, <1>4

LEMMA RunsStep == IInv /\ [Next]_vars => \A p \in Patcher : Runs(p)'
<1>. SUFFICES ASSUME IInv, [Next]_vars, NEW p \in Patcher PROVE Runs(p)'
  OBVIOUS
<1>0. TypeOK /\ Runs(p)
  BY DEF IInv
<1>1. ASSUME NEW o \in Patcher, NEW q \in Request, BeginPatch(o, q) PROVE Runs(p)'
  <2>1. CASE o = p
    BY <1>0, <1>1, <2>1, BeginStep
  <2>2. CASE o # p
    BY <1>0, <1>1, <2>2, OthersStep DEF BeginPatch, TypeOK, rowVars, Visible
  <2>. QED
    BY <2>1, <2>2
<1>2. ASSUME NEW o \in Patcher,
             (\E c \in OptionId : CountOption(o, c)) \/ StartRewrite(o) \/ WriteConfig(o)
               \/ LoadBatch(o) \/ Answer(o) \/ Cancel(o)
      PROVE  Runs(p)'
  <2>1. CASE o # p
    <3>1. /\ UNCHANGED rowVars /\ h'[p] = h[p]
          /\ exposed'[p] = exposed[p] /\ before'[p] = before[p]
      BY <1>0, <1>2, <2>1
         DEF CountOption, StartRewrite, WriteConfig, LoadBatch, Answer, Cancel, End, TypeOK,
             ghostVars
    <3>. QED
      BY <1>0, <3>1, OthersStep DEF rowVars, Visible
  <2>2. CASE o = p /\ (Answer(o) \/ Cancel(o))
    BY <1>0, <2>2, IdleRuns DEF Answer, Cancel, End, TypeOK
  <2>3. CASE o = p /\ ~(Answer(o) \/ Cancel(o))
    BY <1>0, <1>2, <2>3, CountStep, PhaseStep
  <2>. QED
    BY <2>1, <2>2, <2>3
<1>3. ASSUME NEW o \in Patcher, NEW r \in Row, WriteRow(o, r) PROVE Runs(p)'
  <2>1. CASE o = p
    BY <1>0, <1>3, <2>1, WriteStep
  <2>2. CASE o # p
    <3>1. /\ h'[p] = h[p] /\ before'[p] = before[p] /\ UNCHANGED <<status, onList>>
          /\ \A s \in Row \ {r} : cell'[s] = cell[s]
      BY <1>0, <1>3, <2>2 DEF WriteRow, End, TypeOK
    <3>2. CASE UNCHANGED cell /\ exposed'[p] = exposed[p]
      BY <1>0, <3>1, <3>2, OthersStep DEF Visible
    <3>3. CASE h[p].pc # "idle" => exposed'[p] = exposed[p] \cup {r}
      BY <1>0, <3>1, <3>3, OthersStep DEF Visible
    <3>. QED
      BY <1>0, <1>3, <2>2, <3>2, <3>3 DEF WriteRow, End, Exposing, TypeOK
  <2>. QED
    BY <2>1, <2>2
<1>4. ASSUME NEW r \in Row, RowRequest(r) PROVE Runs(p)'
  BY <1>0, <1>4, SaveStep
<1>5. CASE UNCHANGED vars
  BY <1>0, <1>5, OthersStep DEF vars, Visible
<1>. QED
  BY <1>1, <1>2, <1>3, <1>4, <1>5 DEF Next, HandlerStep

THEOREM Invariance == Spec => []IInv
<1>1. IInv /\ [Next]_vars => IInv'
  BY TypeStep, RunsStep DEF IInv
<1>. QED
  BY InitIInv, <1>1, PTL DEF Spec

--------------------------------------------------------------------------------
(* Handlers, rows and configs stay in their types, and a removed row stays *)
(* empty.                                                                  *)
THEOREM TypeCorrect == Spec => []TypeOK
<1>1. IInv => TypeOK
  BY DEF IInv
<1>. QED
  BY Invariance, <1>1, PTL

(* A PATCH moves a value that nobody else writes at most once, and leaves  *)
(* the options that stay alone.                                            *)
THEOREM ValuesMoveOnce == Spec => []MovedOnce
<1>1. IInv => MovedOnce
  BY DEF IInv, MovedOnce, Runs, Followed
<1>. QED
  BY Invariance, <1>1, PTL

(* A PATCH that was answered left no row on an option it dropped, unless   *)
(* the row escaped it or a replacement was itself dropped.                 *)
THEOREM DroppedOptionsAreEmptied == Spec => []AnsweredMeansMoved
<1>1. ASSUME IInv, NEW p \in Patcher, h[p].pc = "answered", Apart(h[p]),
             NEW r \in Row \ exposed[p]
      PROVE  cell[r] \cap Gone(h[p]) = {}
  <2>. DEFINE x == h[p]
              D == Dropped(x.seen, x.q)
  <2>1. Orderly(x) /\ Followed(p, r)
    BY <1>1 DEF IInv, Runs
  <2>2. /\ before[p][r] \cap D \subseteq x.remap
        /\ cell[r] \cap x.remap = {}
        /\ cell[r] \in {before[p][r], Migrated(x, before[p][r])}
    BY <1>1, <2>1 DEF Followed, Orderly
  <2>3. Gone(x) \subseteq D
    BY DEF Gone, Dropped, Written
  <2>4. Migrated(x, before[p][r]) \cap D = {}
    BY <1>1, <2>2 DEF Migrated, Apart
  <2>. QED
    BY <2>2, <2>3, <2>4
<1>2. IInv => AnsweredMeansMoved
  BY <1>1 DEF AnsweredMeansMoved
<1>. QED
  BY Invariance, <1>2, PTL
================================================================================
