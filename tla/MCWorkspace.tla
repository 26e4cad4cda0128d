------------------------------- MODULE MCWorkspace ------------------------------
(* Five parts of a workspace, explored one at a time instead of as a       *)
(* product: the views of Schema; its fields, with two handlers in flight;  *)
(* its fields, lists and records, with one; the board of Pipeline; and the *)
(* filter of ViewFilter.  The objects' steps and the restarts go with      *)
(* every part of Schema.                                                   *)
EXTENDS Schema, Pipeline, ViewFilter

CONSTANTS std, cus, fName, fStage, f1, f2, vAll, vBoard, v1, v2

VARIABLE part   \* which of the five

Objects == {std, cus}
Fields == {fName, fStage, f1, f2}
Views == {vAll, vBoard, v1, v2}
SlugSet == {"name", "stage"}
Seeds == {[id |-> fName, obj |-> std, list |-> None, slug |-> "name", system |-> TRUE],
          [id |-> fStage, obj |-> std, list |-> None, slug |-> "stage", system |-> FALSE]}
SeedViews == {[id |-> vAll, obj |-> std, default |-> TRUE, pos |-> 0],
              [id |-> vBoard, obj |-> std, default |-> FALSE, pos |-> 1]}
Titles == std :> fName
Positions == {0, 2}
Symmetric == Permutations(Client) \cup Permutations({f1, f2})

BoardFilters == {Everything, Not(Condition("stage", "eq", 1))}
BoardSorts == {<<[key |-> "stage", desc |-> TRUE], [key |-> "amount", desc |-> FALSE]>>}

(* The rows a filter is asked of, and the conditions it is built from: a   *)
(* number, a flag, a set of tags, and a key no field has.                  *)
Rows4 == [size : {Null, 1, 2, 3}, flag : {Null, 0, 1}, tags : {Null, {}, {1, 2}}]
Entries == {[size |-> 2]}
Tags == {"tags"}
Conditions ==
  {Condition("size", op, 2) : op \in {"eq", "not_eq", "gt", "gte", "lt", "lte"}}
  \cup {Condition("size", op, {1, 3}) : op \in {"is_any_of", "is_none_of"}}
  \cup {Condition("size", "between", b) : b \in {<<2, 3>>, <<2>>}}
  \cup {Condition("flag", op, Null) : op \in {"is_true", "is_false"}}
  \cup {Condition(k, op, Null) : k \in {"size", "tags"}, op \in {"is_empty", "is_not_empty"}}
  \cup {Condition("tags", op, 1) : op \in {"eq", "not_eq"}}
  \cup {Condition("tags", op, {2}) : op \in {"is_any_of", "is_none_of"}}
  \cup {Condition("gone", "eq", 1), Condition("size", "is_any_of", {})}

(* Those it is combined with: one unknown of an unset size, one never      *)
(* unknown, two nobody can place.                                          *)
Few == {c \in Conditions : \/ c[1].key = "size" /\ c[1].op \in {"gte", "between", "is_none_of"}
                           \/ c[1].key = "gone"
                           \/ c[1].key = "tags" /\ c[1].op = "not_eq"}

SchemaStep ==
  \/ Restart
  \/ \E o \in ObjectId : DeleteObject(o) \/ \E f \in FieldId : CreateObject(o, f, v1)
InFlight == {c \in Client : call[c] # Idle}

MCInit == Init /\ PipelineInit /\ FilterInit
          /\ part \in {"views", "fields", "bags", "board", "filters"}
MCNext ==
  /\ UNCHANGED part
  /\ \/ part = "views" /\ (Restart \/ ObjectStep \/ ViewStep) /\ UNCHANGED <<pipe, viewFilter>>
     \/ part = "fields" /\ (SchemaStep \/ FieldStep) /\ UNCHANGED <<pipe, viewFilter>>
     \/ /\ part = "bags" /\ (SchemaStep \/ FieldStep \/ ListStep \/ RecordStep)
        /\ Cardinality(InFlight') <= 1 /\ UNCHANGED <<pipe, viewFilter>>
     \/ part = "board" /\ PipelineNext /\ UNCHANGED <<vars, viewFilter>>
     \/ part = "filters" /\ FilterNext /\ UNCHANGED <<vars, pipe>>
MCSpec == MCInit /\ [][MCNext]_<<vars, pipe, part, viewFilter>>
=================================================================================
