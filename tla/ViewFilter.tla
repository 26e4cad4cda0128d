------------------------------- MODULE ViewFilter -------------------------------
(***************************************************************************)
(* The filter of a saved view, as clients edit it, and what it keeps of    *)
(* the rows it is asked of: a table's, or those of a list's entries.       *)
(***************************************************************************)
EXTENDS RecordQueries

CONSTANTS Multi,           \* the keys of multi-valued fields
          AskedRow,        \* the rows of the records
          AskedEntry,      \* and of the list entries that show them
          AskedCondition,  \* the conditions there are, each a filter of one node
          Combined,        \* those that are combined with others
          MaxNodes         \* bound on the nodes of the filter

ASSUME FilterConstants ==
  /\ MaxNodes \in Nat
  /\ \A row \in AskedRow \cup AskedEntry : IsRow(row, Multi)
  /\ \A c \in AskedCondition : IsFilter(c, Multi) /\ Len(c) = 1
  /\ Combined \subseteq AskedCondition

VARIABLE viewFilter

FilterInit == viewFilter = Everything

(* update_view stores the filter it is given; a client adds to the one it  *)
(* has, turns it over, or starts again.                                    *)
Save(f) == Len(f) <= MaxNodes /\ viewFilter' = f
FirstCondition == viewFilter = Everything /\ \E c \in AskedCondition : Save(c)
AddCondition == \E c \in Combined : Save(And(viewFilter, c)) \/ Save(Or(c, viewFilter))
TurnOver == Save(Not(viewFilter))
StartAgain == viewFilter # Everything /\ Save(Everything)

FilterNext == FirstCondition \/ AddCondition \/ TurnOver \/ StartAgain
FilterSpec == FilterInit /\ [][FilterNext]_viewFilter

(* A filter keeps the rows its reader means: compiled to SQL, with the     *)
(* conditions nobody can place dropped on every level and NULL in every    *)
(* comparison, it decides each row as the tree read plainly does.  The one *)
(* exception is a row whose unset value a "not" or an is_none_of turns     *)
(* over: SQL leaves it out, although not_eq keeps it.  A list's own field  *)
(* answers before the record's of the same key.  build_condition,          *)
(* build_filter, build_scoped_filter.                                      *)
AsListed(entry, row) ==
  [k \in DOMAIN entry \cup DOMAIN row |-> (IF k \in DOMAIN entry THEN entry ELSE row)[k]]
Decides(kept, row) ==
  (kept <=> Means(viewFilter, row, Multi)) \/ TurnsUnset(viewFilter, row, Multi)
FilterMeans ==
  \A row \in AskedRow :
    /\ Decides(Where(viewFilter, row, Multi), row)
    /\ \A entry \in AskedEntry :
         Decides(ListWhere(viewFilter, entry, row, Multi), AsListed(entry, row))
=================================================================================
