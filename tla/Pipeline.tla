--------------------------------- MODULE Pipeline --------------------------------
(***************************************************************************)
(* Records on a stage board: every save of a record, every merge, the      *)
(* stage moves the timeline keeps, and the three reports that count the    *)
(* same records by different routes (the board's columns, the pipeline     *)
(* report, the funnel).                                                    *)
(*                                                                         *)
(* An object has a currency field and, after it in position order, its     *)
(* status field.  A stage value may outlive its option (OptionMigration    *)
(* shows how).  Times are left out: the reports cover all time.            *)
(***************************************************************************)
EXTENDS RecordQueries, FiniteSetsExt

CONSTANTS Deal,        \* a set of numbers, so that rows have an id order
          Option,      \* a set of numbers: an option's id and its position
          Closed,      \* the options with is_won or is_lost
          Amount,      \* values of the currency field
          MaxMoves,    \* bound on the times of the stage moves kept
          Filters, Sorts, PageSize   \* what pages, boards and reports ask for

ASSUME PipelineConstants ==
  /\ Deal \subseteq Int /\ IsFiniteSet(Deal)
  /\ Option \subseteq Int /\ Amount \subseteq Int /\ MaxMoves \in Nat \ {0}
  /\ \A f \in Filters : IsFilter(f, {})
  /\ Sorts \subseteq Seq([key : STRING, desc : BOOLEAN])
  /\ PageSize \in Nat \ {0}

VARIABLES rec,       \* the records: [state, stage, amount], state "absent",
                     \* "live" or "deleted"
          options,   \* the options the status field has now
          moves,     \* the stage_change entries: of which record, at what
                     \* time, from and to which stage
          adrift     \* history: records whose present stage no entry of their
                     \* own led to: it was saved with a change of the amount,
                     \* or a record that never moved took over another's moves

pipe == <<rec, options, moves, adrift>>

Stage == Option \cup {Null}
Absent == [state |-> "absent", stage |-> Null, amount |-> Null]

PipelineInit ==
  /\ rec = [r \in Deal |-> Absent] /\ options = Option
  /\ moves = {} /\ adrift = {}

Create(r, stage, amount) ==
  /\ rec[r] = Absent
  /\ rec' = [rec EXCEPT ![r] = [state |-> "live", stage |-> stage, amount |-> amount]]
  /\ adrift' = adrift \ {r}
  /\ UNCHANGED <<options, moves>>

(* diff_values: what changed, which it lists in field position order.      *)
FieldOrder == [amount |-> 1, stage |-> 2]
Changes(old, new) == {k \in DOMAIN FieldOrder : old[k] # new[k]}
(* stage_change_from: it walks the changes in that order, and "?" ends the *)
(* walk at the first that is no status field.                              *)
FirstOf(changed) == CHOOSE k \in changed : \A j \in changed : FieldOrder[k] <= FieldOrder[j]
IsMove(changed) == changed # {} /\ FirstOf(changed) = "stage"

MovesOf(r, log) == {m \in log : m.of = r}
LaterThan(log) == CHOOSE t \in 1..MaxMoves : \A m \in log : m.at < t

(* write_record_values on a table and a timeline: the row, and a           *)
(* stage_change entry when the diff yields one.                            *)
Write(r, stage, amount, table, log) ==
  LET new == [table[r] EXCEPT !.stage = stage, !.amount = amount]
      changed == Changes(table[r], new)
      move == [of |-> r, at |-> LaterThan(log), from |-> table[r].stage, to |-> stage]
      inherits == MovesOf(r, moves) = {} /\ MovesOf(r, log) # {}
  IN  /\ IsMove(changed) => \A m \in log : m.at < MaxMoves
      /\ rec' = [table EXCEPT ![r] = new]
      /\ moves' = IF IsMove(changed) THEN log \cup {move} ELSE log
      /\ adrift' = CASE IsMove(changed) -> adrift \ {r}
                     [] ~IsMove(changed) /\ ("stage" \in changed \/ inherits) -> adrift \cup {r}
                     [] OTHER -> adrift
      /\ UNCHANGED options

(* The handler takes a deleted record too.  A value a request names is one *)
(* of the options there are; what it does not name stays.                  *)
Update(r, stage, amount) ==
  /\ rec[r].state # "absent"
  /\ stage \in options \cup {Null, rec[r].stage}
  /\ <<stage, amount>> # <<rec[r].stage, rec[r].amount>>
  /\ Write(r, stage, amount, rec, moves)

(* merge_records: the losers' entries become the survivor's, the losers    *)
(* are retired or removed, and the values resolved from the survivor, a    *)
(* loser or the plan are saved on the survivor.                            *)
Merge(s, losers, stage, amount) ==
  /\ losers # {} /\ s \notin losers
  /\ \A r \in losers \cup {s} : rec[r].state # "absent"
  /\ stage \in options \cup {Null} \cup {rec[r].stage : r \in losers \cup {s}}
  /\ \E soft \in BOOLEAN :
       Write(s, stage, amount,
             [r \in Deal |-> IF r \notin losers THEN rec[r]
                             ELSE IF soft THEN [rec[r] EXCEPT !.state = "deleted"]
                             ELSE Absent],
             {[m EXCEPT !.of = IF @ \in losers THEN s ELSE @] : m \in moves})

Delete(r) ==
  /\ rec[r].state = "live"
  /\ rec' = [rec EXCEPT ![r].state = "deleted"]
  /\ UNCHANGED <<options, moves, adrift>>

Restore(r) ==
  /\ rec[r].state = "deleted"
  /\ rec' = [rec EXCEPT ![r].state = "live"]
  /\ UNCHANGED <<options, moves, adrift>>

(* purge_record takes the timeline with it; the id is free for the next.   *)
Purge(r) ==
  /\ rec[r].state # "absent"
  /\ rec' = [rec EXCEPT ![r] = Absent]
  /\ moves' = moves \ MovesOf(r, moves)
  /\ UNCHANGED <<options, adrift>>

(* An option leaves the field while records still hold it.                 *)
DropOption(o) ==
  /\ o \in options
  /\ options' = options \ {o}
  /\ UNCHANGED <<rec, moves, adrift>>

PipelineNext ==
  \/ \E r \in Deal :
       \/ \E s \in options \cup {Null}, a \in Amount \cup {Null} : Create(r, s, a)
       \/ \E s \in Stage, a \in Amount \cup {Null} : Update(r, s, a)
       \/ Delete(r) \/ Restore(r) \/ Purge(r)
  \/ \E r \in Deal, losers \in SUBSET Deal, s \in Stage, a \in Amount \cup {Null} :
       Merge(r, losers, s, a)
  \/ \E o \in Option : DropOption(o)

PipelineSpec == PipelineInit /\ [][PipelineNext]_pipe

(***************************************************************************)
(* The reports.                                                            *)
(***************************************************************************)
Rows == [r \in {x \in Deal : rec[x].state # "absent"} |->
          [stage |-> rec[r].stage, amount |-> rec[r].amount]]

(* build_record_source, without the search, list and id set it can also    *)
(* take: the ids of the matching records.                                  *)
Source(filter, withDeleted) ==
  {r \in DOMAIN Rows : (withDeleted \/ rec[r].state = "live") /\ Where(filter, Rows[r], {})}

(* The sum of one value field; an unset one counts as nothing.             *)
Value(ids) == MapThenSumSet(LAMBDA r : rec[r].amount, {r \in ids : rec[r].amount # Null})

(* build_board_groups: the view's filter and the column's condition; a     *)
(* column per option the field has, and one for records without a value.   *)
ColumnCondition(o) == IF o = Null THEN Condition("stage", "is_empty", Null)
                      ELSE Condition("stage", "eq", o)
ColumnWithoutFilter(filter, o, withDeleted) == Source(ColumnCondition(o), withDeleted)
Column(filter, o, withDeleted) ==
  Source(And(filter, ColumnCondition(o)), withDeleted)

(* pipeline_report: one pass grouped by the stored stage; the total adds   *)
(* the counts up.                                                          *)
Bucket(filter, o) == {r \in Source(filter, FALSE) : rec[r].stage = o}
Stages(withClosed) == IF withClosed THEN options ELSE options \ Closed
Report(filter, withClosed) ==
  [counts |-> [o \in Stages(withClosed) \cup {Null} |-> Cardinality(Bucket(filter, o))],
   values |-> [o \in Stages(withClosed) \cup {Null} |-> Value(Bucket(filter, o))],
   total |-> Cardinality({at \in (Stages(withClosed) \cup {Null}) \X Deal :
                            at[2] \in Bucket(filter, at[1])})]

(* funnel_report: the stages a record's moves name, the earliest one's     *)
(* origin among them; a live record without one entered the stage it is in.*)
Named(r) == {m.to : m \in MovesOf(r, moves)}
Origin(r) == {m.from : m \in {e \in MovesOf(r, moves) :
                                \A later \in MovesOf(r, moves) : e.at <= later.at}}
TraceOfMoves(r) == (Origin(r) \cup Named(r)) \ {Null}
Trace(r) ==
  (IF MovesOf(r, moves) # {} THEN Origin(r) \cup Named(r)
   ELSE IF rec[r].state = "live" THEN {rec[r].stage} ELSE {}) \ {Null}

Entered(o) == {r \in Deal : o \in Trace(r)}

(***************************************************************************)
(* Properties.                                                             *)
(***************************************************************************)
(* The rows of a view, counted four ways, are the same rows: each is on    *)
(* one page, in one column of the board, and in one bucket of the pipeline *)
(* report, with its value.  A record whose stage is an option the field no *)
(* longer has is the exception: it is on the page and in no column and no  *)
(* bucket, although "a forecast that quietly excludes rows is wrong in the *)
(* direction nobody checks" (store/reports.rs).                            *)
EveryRowOnce ==
  DOMAIN Rows # {} => \A f \in Filters, deleted \in BOOLEAN :
    LET ids == Source(f, deleted)
        columns == options \cup {Null}
        placed == {r \in ids : rec[r].stage \in columns}
    IN  /\ \A s \in Sorts : PagesCover(Rows, s, ids, PageSize)
        /\ \A o \in columns : Column(f, o, deleted) = {r \in ids : rec[r].stage = o}
        /\ ~deleted => \A closed \in BOOLEAN :
             LET report == Report(f, closed)
                 shown == Stages(closed) \cup {Null}
             IN  /\ report.total = Cardinality({r \in placed : rec[r].stage \in shown})
                 /\ \A o \in shown :
                      /\ report.counts[o] = Cardinality(Column(f, o, FALSE))
                      /\ report.values[o] = Value(Column(f, o, FALSE))

(* Nothing a page, a board or a report reads depends on the moves, and     *)
(* every table there is can be reached without one.                        *)
EveryRowOnceUnmoved == moves = {} => EveryRowOnce

(* The funnel counts every live record as having entered the stage it is   *)
(* in ("plus records currently sitting in it that never generated one"),   *)
(* with two exceptions: a record whose last change of stage was saved      *)
(* together with an earlier field, since that move is in no timeline; and  *)
(* one that never moved and took over the moves of a record merged into    *)
(* it, since those stand in for its own stage.  write_record_values,       *)
(* stage_change_from, merge_records, funnel_report.                        *)
FunnelCoversBoard ==
  \A r \in Deal :
    rec[r].state = "live" /\ rec[r].stage # Null /\ r \notin adrift
      => r \in Entered(rec[r].stage)
=================================================================================
