------------------------------ MODULE RecordQueries -----------------------------
(***************************************************************************)
(* The one query every table, board column, count and report goes through: *)
(* a filter tree compiled to SQL, an ORDER BY that ends in the id, and a   *)
(* page.  SQL decides a row by three-valued logic, in which a comparison   *)
(* with an unset value is neither true nor false; a condition on a field   *)
(* that is gone compiles to "1" and is dropped from its And, Or or Not.    *)
(*                                                                         *)
(* A row is what a key resolves to: a function from the keys of the known  *)
(* fields to values, Null where the bag has none.  Values are numbers, or  *)
(* sets of them for the multi-valued types.  The text operators and the    *)
(* search pre-filter are not modelled.                                     *)
(***************************************************************************)
EXTENDS Integers, Sequences, FiniteSets, SequencesExt

CONSTANTS Null, MAX_SORTS

ASSUME QueryConstants == Null \notin Int /\ MAX_SORTS \in Nat

(* A ViewFilter is the table of its nodes, children before their parent    *)
(* and the root last; And and Or take a filter and one more condition.     *)
Condition(key, op, value) == <<[type |-> "condition", key |-> key, op |-> op, value |-> value]>>
Everything == <<[type |-> "and", filters |-> {}]>>
And(f, c) == f \o c \o <<[type |-> "and", filters |-> {Len(f), Len(f) + 1}]>>
Or(c, f) == f \o c \o <<[type |-> "or", filters |-> {Len(f), Len(f) + 1}]>>
Not(f) == Append(f, [type |-> "not", filter |-> Len(f)])

(* A row holds values of its fields' types; an order, a range and a flag   *)
(* are asked of single-valued fields; a node is above those it names.  A   *)
(* comparison with null, which a request may ask for (models.rs defaults   *)
(* the value), is left out.                                                *)
IsRow(row, multis) ==
  \A k \in DOMAIN row :
    row[k] = Null \/ IF k \in multis THEN row[k] \subseteq Int ELSE row[k] \in Int
OfOneValue == {"gt", "gte", "lt", "lte", "between", "is_true", "is_false"}
IsCondition(c, multis) ==
  /\ c.key \in multis => c.op \notin OfOneValue
  /\ \/ c.op \in {"eq", "not_eq", "gt", "gte", "lt", "lte"} /\ c.value \in Int
     \/ c.op = "between" /\ c.value \in Seq(Int)
     \/ c.op \in {"is_any_of", "is_none_of"} /\ c.value \subseteq Int
     \/ c.op \in {"is_empty", "is_not_empty", "is_true", "is_false"}
IsNode(node, i, multis) ==
  \/ node.type = "condition" /\ IsCondition(node, multis)
  \/ node.type = "not" /\ node.filter \in 1..(i - 1)
  \/ node.type \in {"and", "or"} /\ node.filters \subseteq 1..(i - 1)
IsFilter(f, multis) ==
  f # <<>> /\ f \in Seq(Range(f)) /\ \A i \in DOMAIN f : IsNode(f[i], i, multis)

(* ViewFilter::is_empty: there is no condition anywhere in it.             *)
IsEmptyFilter(f) == \A i \in DOMAIN f : f[i].type # "condition"

(***************************************************************************)
(* SQL's truth values.                                                     *)
(***************************************************************************)
Truth(p) == IF p THEN "true" ELSE "false"
SqlNot(t) == CASE t = "true" -> "false" [] t = "false" -> "true" [] OTHER -> "unknown"
SqlAnd(ts) == IF "false" \in ts THEN "false" ELSE IF "unknown" \in ts THEN "unknown" ELSE "true"
SqlOr(ts) == IF "true" \in ts THEN "true" ELSE IF "unknown" \in ts THEN "unknown" ELSE "false"

(* A multi-valued column is a JSON array, which json_each of NULL makes    *)
(* empty; a single value compares as unknown when it is NULL.              *)
Compared(v, holds) == IF v = Null THEN "unknown" ELSE Truth(holds)
AnyOf(v, multi, values) ==
  IF values = {} THEN "false"
  ELSE IF multi THEN Truth(v # Null /\ v \cap values # {}) ELSE Compared(v, v \in values)

(* build_condition.  "1" is the condition nobody can place: an unknown     *)
(* field, or a between without two bounds.                                 *)
SqlCondition(c, row, multis) ==
  LET v == row[c.key]
      multi == c.key \in multis
  IN  IF c.key \notin DOMAIN row \/ (c.op = "between" /\ Len(c.value) # 2) THEN "1" ELSE
      CASE c.op = "eq" -> AnyOf(v, multi, {c.value})
        [] c.op = "not_eq" -> IF multi THEN SqlNot(AnyOf(v, multi, {c.value}))
                              ELSE Truth(v # c.value)
        [] c.op = "gt" -> Compared(v, v > c.value)
        [] c.op = "gte" -> Compared(v, v >= c.value)
        [] c.op = "lt" -> Compared(v, v < c.value)
        [] c.op = "lte" -> Compared(v, v <= c.value)
        [] c.op = "between" -> Compared(v, v \in c.value[1]..c.value[2])
        [] c.op = "is_empty" -> Truth(v = Null \/ (multi /\ v = {}))
        [] c.op = "is_not_empty" -> Truth(v # Null /\ ~(multi /\ v = {}))
        [] c.op = "is_any_of" -> AnyOf(v, multi, c.value)
        [] c.op = "is_none_of" -> SqlNot(AnyOf(v, multi, c.value))
        [] c.op = "is_true" -> Compared(v, v = 1)
        [] c.op = "is_false" -> Truth(v = Null \/ v = 0)

(* build_filter: children that compile to "1" are dropped, and a node left *)
(* with none is "1" itself.                                                *)
Joined(type, parts) ==
  IF parts = {} THEN "1" ELSE IF type = "and" THEN SqlAnd(parts) ELSE SqlOr(parts)
NodeSql(node, sql, row, multis) ==
  CASE node.type = "condition" -> SqlCondition(node, row, multis)
    [] node.type = "not" -> IF sql[node.filter] = "1" THEN "1" ELSE SqlNot(sql[node.filter])
    [] OTHER -> Joined(node.type, {sql[k] : k \in node.filters} \ {"1"})
Sql(f, row, multis) == LET sql[i \in DOMAIN f] == NodeSql(f[i], sql, row, multis) IN sql

(* The WHERE of build_record_source keeps a row only when it is true.  A   *)
(* mistake would be to keep nothing when no condition can be placed.       *)
WhereUnplacedFails(f, row, multis) == IsEmptyFilter(f) \/ Sql(f, row, multis)[Len(f)] = "true"
Where(f, row, multis) == IsEmptyFilter(f) \/ Sql(f, row, multis)[Len(f)] \in {"true", "1"}

(* A list's filter looks a key up in the list's own fields first, and then *)
(* in the record's: build_scoped_filter.                                   *)
Scoped(entry, record) ==
  [k \in DOMAIN entry \cup DOMAIN record |-> IF k \in DOMAIN entry THEN entry[k] ELSE record[k]]
ListWhere(f, entry, record, multis) == Where(f, Scoped(entry, record), multis)

(***************************************************************************)
(* build_order_by and query_page.  "rows" maps ids, which are numbers, to  *)
(* rows; a sort is [key, desc].                                            *)
(***************************************************************************)
Sooner(v, w, desc) ==
  /\ v # w /\ v # Null
  /\ w = Null \/ IF desc THEN w < v ELSE v < w

(* Of the first MAX_SORTS, those of a key that is known, and then the id.  *)
UsedSorts(sorts, row) == {i \in DOMAIN sorts : i <= MAX_SORTS /\ sorts[i].key \in DOMAIN row}
Before(rows, sorts, a, b) ==
  LET used == UsedSorts(sorts, rows[a])
      Tied(i) == rows[a][sorts[i].key] = rows[b][sorts[i].key]
  IN  \/ \E i \in used :
           /\ \A j \in used : j < i => Tied(j)
           /\ Sooner(rows[a][sorts[i].key], rows[b][sorts[i].key], sorts[i].desc)
      \/ (\A i \in used : Tied(i)) /\ a < b

(* Each id is listed after as many as come before it.                      *)
Sorted(rows, sorts, ids) ==
  [k \in 1..Cardinality(ids) |->
     CHOOSE r \in ids : Cardinality({x \in ids : Before(rows, sorts, x, r)}) = k - 1]

(* Page::new: the items, the total of all pages, and whether more follow.  *)
PageOf(all, limit, offset) ==
  LET items == SubSeq(all, offset + 1, IF offset + limit < Len(all) THEN offset + limit ELSE Len(all))
  IN  [items |-> items, total |-> Len(all), has_more |-> offset + Len(items) < Len(all)]

(***************************************************************************)
(* What a reader takes a filter to mean: a tree over the conditions that   *)
(* can be placed, each true or false of a row, an unset value equal to     *)
(* nothing and in no range.                                                *)
(***************************************************************************)
NodeConstrains(node, constrains, row) ==
  CASE node.type = "condition" ->
         node.key \in DOMAIN row /\ (node.op = "between" => Len(node.value) = 2)
    [] node.type = "not" -> constrains[node.filter]
    [] OTHER -> \E k \in node.filters : constrains[k]
Constrains(f, row) ==
  LET constrains[i \in DOMAIN f] == NodeConstrains(f[i], constrains, row) IN constrains

Holds(c, row, multis) ==
  LET values == IF c.key \in multis THEN (IF row[c.key] = Null THEN {} ELSE row[c.key])
                ELSE {row[c.key]} \ {Null}
  IN  CASE c.op \in {"eq", "not_eq"} -> (c.value \in values) = (c.op = "eq")
        [] c.op \in {"is_any_of", "is_none_of"} ->
             (values \cap c.value # {}) = (c.op = "is_any_of")
        [] c.op \in {"is_empty", "is_not_empty"} -> (values = {}) = (c.op = "is_empty")
        [] c.op = "is_true" -> 1 \in values
        [] c.op = "is_false" -> values \subseteq {0}
        [] c.op = "gt" -> \E v \in values : v > c.value
        [] c.op = "gte" -> \E v \in values : v >= c.value
        [] c.op = "lt" -> \E v \in values : v < c.value
        [] c.op = "lte" -> \E v \in values : v <= c.value
        [] c.op = "between" -> \E v \in values : c.value[1] <= v /\ v <= c.value[2]

NodeMeans(node, means, placed, row, multis) ==
  CASE node.type = "condition" -> Holds(node, row, multis)
    [] node.type = "not" -> ~means[node.filter]
    [] node.type = "and" -> \A k \in node.filters : placed[k] => means[k]
    [] OTHER -> \E k \in node.filters : placed[k] /\ means[k]
Meanings(f, row, multis) ==
  LET placed == Constrains(f, row)
      means[i \in DOMAIN f] == ~placed[i] \/ NodeMeans(f[i], means, placed, row, multis)
  IN  means
Means(f, row, multis) == Meanings(f, row, multis)[Len(f)]

(* Somewhere in the tree a "not", or an is_none_of, turns over a           *)
(* comparison with an unset value.                                         *)
TurnsUnset(f, row, multis) ==
  LET sql == Sql(f, row, multis)
  IN  \E i \in DOMAIN f :
        \/ f[i].type = "condition" /\ f[i].op = "is_none_of" /\ sql[i] = "unknown"
        \/ f[i].type = "not" /\ sql[f[i].filter] = "unknown"

(* Every page together lists each of the ids once, in one order, says how  *)
(* many there are, and only the last says that nothing follows.            *)
PagesCover(rows, sorts, ids, limit) ==
  LET n == Cardinality(ids)
      all == Sorted(rows, sorts, ids)
      last == IF n = 0 THEN 0 ELSE (n - 1) \div limit
      Page(k) == PageOf(all, limit, k * limit)
  IN  /\ \A k \in 0..last : Page(k).total = n /\ (Page(k).has_more <=> k < last)
      /\ \A r \in ids :
           Cardinality({at \in (0..last) \X (1..limit) :
                        LET items == Page(at[1]).items
                        IN  at[2] \in DOMAIN items /\ items[at[2]] = r}) = 1
      /\ PageOf(all, limit, (last + 1) * limit).items = <<>>
=================================================================================
