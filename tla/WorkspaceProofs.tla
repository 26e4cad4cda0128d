---------------------------- MODULE WorkspaceProofs ------------------------------
(***************************************************************************)
(* The invariants of Schema, for every set of clients, ids, slugs, seeds   *)
(* and positions; of Pipeline, for every set of records, stages and        *)
(* amounts; and of ViewFilter, for every set of rows and conditions and    *)
(* every filter built of them.                                             *)
(*                                                                         *)
(* In Schema, Keyed carries the rest: an id names one row of its table,    *)
(* every id in use was handed out, and what a handler between its two      *)
(* locks read under an id is still the row it names, because ids are never *)
(* used twice.  On it stand the cascades (NoOrphansInv, with the object of *)
(* every list a handler resolved), the stripped bags (GhostsInv, which     *)
(* needs that an entry's list is there), the default views (DefaultInv,    *)
(* which needs that a new object has no views yet) and the title fields    *)
(* (TitleInv, with what patch_object and delete_field checked).            *)
(*                                                                         *)
(* In Pipeline, FunnelInv says where a record's own moves led.             *)
(* In ViewFilter, the invariant is that the filter is well formed; what is *)
(* true of every node of a filter is shown at the first node where it      *)
(* could fail, and so is that the recursive tables over its nodes exist.   *)
(* The rows of a view are counted by their rank in a total order.          *)
(***************************************************************************)
EXTENDS Schema, Pipeline, ViewFilter, TLAPS, FiniteSetTheorems, WellFoundedInduction,
        SequenceTheorems

LEMMA InitType == Init => TypeOK
  BY SchemaConstants
  DEF Init, TypeOK, SchemaConstants, SeedsSound, FieldRow, ViewRow, ObjectRow, Ids, Call, Idle

(* What an UPDATE of a column leaves is a row of its table.                *)
LEMMA ViewUpdates ==
  ASSUME NEW v \in ViewRow
  PROVE  /\ [v EXCEPT !.default = FALSE] \in ViewRow
         /\ [v EXCEPT !.default = TRUE] \in ViewRow
         /\ \A p \in 0..MaxPosition : [v EXCEPT !.pos = p] \in ViewRow
  BY DEF ViewRow

LEMMA BagUpdates ==
  ASSUME NEW b \in SUBSET Slug
  PROVE  /\ \A r \in RecordRow : [r EXCEPT !.bag = b] \in RecordRow
         /\ \A e \in EntryRow : [e EXCEPT !.bag = b] \in EntryRow
  BY DEF RecordRow, EntryRow

LEMMA InsertType ==
  ASSUME TypeOK, NEW f \in FieldId, NEW o \in ObjectId, NEW l \in ListId \cup {None},
         NEW s \in Slug, Insert(f, o, l, s)
  PROVE  fields' \subseteq FieldRow
         /\ spent' \subseteq ObjectId \cup FieldId \cup ViewId \cup ListId \cup RecordId
<1>1. [id |-> f, obj |-> o, list |-> l, slug |-> s, system |-> FALSE] \in FieldRow
  BY DEF FieldRow
<1> QED BY <1>1 DEF Insert, TypeOK

LEMMA NextType == TypeOK /\ [Next]_vars => TypeOK'
<1> SUFFICES ASSUME TypeOK, [Next]_vars PROVE TypeOK'
  OBVIOUS
<1> USE SchemaConstants DEF SchemaConstants
<1>1. CASE UNCHANGED vars
  BY <1>1 DEF vars, tables, TypeOK
<1>2. CASE Restart
  BY <1>2 DEF Restart, TypeOK, MissingFields, MissingViews, SeedsSound, Call, Idle, ViewRow
<1>3. CASE ObjectStep
  <2>1. ASSUME NEW o \in ObjectId, NEW f \in FieldId, NEW v \in ViewId, CreateObject(o, f, v)
        PROVE  TypeOK'
    <3>1. [id |-> v, obj |-> o, default |-> TRUE, pos |-> 0] \in ViewRow
      BY DEF ViewRow
    <3>2. [id |-> f, obj |-> o, list |-> None, slug |-> NameSlug, system |-> TRUE] \in FieldRow
      BY DEF FieldRow
    <3>3. [id |-> o, title |-> f] \in ObjectRow
      BY DEF ObjectRow
    <3> QED BY <2>1, <3>1, <3>2, <3>3 DEF CreateObject, TypeOK
  <2>2. ASSUME NEW o \in ObjectId, DeleteObject(o) PROVE TypeOK'
    BY <2>2 DEF DeleteObject, TypeOK
  <2> QED BY <1>3, <2>1, <2>2 DEF ObjectStep
<1>4. CASE FieldStep
  <2>1. ASSUME NEW f \in FieldId, NEW o \in ObjectId, NEW s \in Slug, CreateField(f, o, s)
        PROVE  TypeOK'
    BY <2>1, InsertType DEF CreateField, Insert, TypeOK
  <2>2. ASSUME NEW c \in Client, NEW o \in ObjectId, NEW t \in FieldId \cup {Raw}, CheckTitle(c, o, t)
        PROVE  TypeOK'
    BY <2>2 DEF CheckTitle, NoteRace, TypeOK, tables, Call
  <2>3. ASSUME NEW c \in Client, StoreTitle(c) PROVE TypeOK'
    <3>1. call[c].title \in FieldId \cup {Raw}
      BY <2>3 DEF StoreTitle, TypeOK, Call, Idle
    <3>2. \A row \in objects : [row EXCEPT !.title = call[c].title] \in ObjectRow
      BY <3>1 DEF TypeOK, ObjectRow
    <3>3. objects' \subseteq ObjectRow
      BY <2>3, <3>2 DEF StoreTitle, TypeOK
    <3> QED BY <2>3, <3>3 DEF StoreTitle, TypeOK, Call, Idle
  <2>4. ASSUME NEW c \in Client, NEW l \in ListId, NEW s \in Slug, ResolveList(c, l, s)
        PROVE  TypeOK'
    BY <2>4 DEF ResolveList, TypeOK, tables, Call, ListRow
  <2>5. ASSUME NEW c \in Client, NEW f \in FieldId, CreateListField(c, f) PROVE TypeOK'
    <3>1. /\ call[c].obj \in ObjectId /\ call[c].list \in ListId /\ call[c].slug \in Slug
          /\ Insert(f, call[c].obj, call[c].list, call[c].slug)
      BY <2>5 DEF CreateListField, TypeOK, Call, Idle
    <3>2. call' \in [Client -> Call]
      BY <2>5 DEF CreateListField, TypeOK, Call
    <3> QED BY <3>1, <3>2, InsertType DEF Insert, TypeOK
  <2>6. ASSUME NEW c \in Client, RefuseListField(c) PROVE TypeOK'
    BY <2>6 DEF RefuseListField, TypeOK, tables, Call, Idle
  <2>7. ASSUME NEW c \in Client, NEW f \in fields, CheckField(c, f) PROVE TypeOK'
    BY <2>7 DEF CheckField, NoteRace, TypeOK, tables, Call
  <2>8. ASSUME NEW c \in Client, DeleteField(c) PROVE TypeOK'
    <3>1. \A r \in records : [r EXCEPT !.bag = @ \ {call[c].field.slug}] \in RecordRow
      BY DEF TypeOK, RecordRow
    <3>2. \A e \in entries : [e EXCEPT !.bag = @ \ {call[c].field.slug}] \in EntryRow
      BY DEF TypeOK, EntryRow
    <3>3. call' \in [Client -> Call]
      BY <2>8 DEF DeleteField, TypeOK, Call, Idle
    <3>4. records' \subseteq RecordRow /\ entries' \subseteq EntryRow /\ fields' \subseteq FieldRow
      BY <2>8, <3>1, <3>2 DEF DeleteField, Strip, TypeOK, tables
    <3> QED BY <2>8, <3>3, <3>4 DEF DeleteField, TypeOK, tables
  <2> QED BY <1>4, <2>1, <2>2, <2>3, <2>4, <2>5, <2>6, <2>7, <2>8 DEF FieldStep
<1>5. CASE ViewStep
  <2>1. ASSUME NEW v \in ViewId, NEW o \in ObjectId, NEW d \in BOOLEAN, CreateView(v, o, d)
        PROVE  TypeOK'
    <3>1. Undefault(o) \subseteq ViewRow
      BY ViewUpdates DEF Undefault, TypeOK
    <3>2. NextPosition(o) \in 0..MaxPosition
      BY <2>1 DEF CreateView
    <3>3. [id |-> v, obj |-> o, default |-> d, pos |-> NextPosition(o)] \in ViewRow
      BY <3>2 DEF ViewRow
    <3> QED BY <2>1, <3>1, <3>3 DEF CreateView, TypeOK
  <2>2. ASSUME NEW v \in views, DeleteView(v) PROVE TypeOK'
    <3>1. views' \subseteq ViewRow
      BY <2>2, ViewUpdates DEF DeleteView, ViewsOf, TypeOK
    <3> QED BY <2>2, <3>1 DEF DeleteView, TypeOK
  <2>3. ASSUME NEW v \in views, SetDefaultView(v) PROVE TypeOK'
    <3>1. Undefault(v.obj) \subseteq ViewRow
      BY ViewUpdates DEF Undefault, TypeOK
    <3>2. views' \subseteq ViewRow
      BY <2>3, <3>1, ViewUpdates DEF SetDefaultView
    <3> QED BY <2>3, <3>2 DEF SetDefaultView, TypeOK
  <2>4. ASSUME NEW v \in views, NEW p \in Position, UpdateView(v, p) PROVE TypeOK'
    BY <2>4, ViewUpdates DEF UpdateView, TypeOK
  <2> QED BY <1>5, <2>1, <2>2, <2>3, <2>4 DEF ViewStep
<1>6. CASE ListStep
  <2>1. ASSUME NEW l \in ListId, NEW o \in ObjectId, CreateList(l, o) PROVE TypeOK'
    BY <2>1 DEF CreateList, TypeOK, ListRow
  <2>2. ASSUME NEW l \in lists, DeleteList(l) PROVE TypeOK'
    BY <2>2 DEF DeleteList, TypeOK
  <2>3. ASSUME NEW l \in lists, NEW r \in records, NEW b \in SUBSET Slugs(ListFieldsOf(l.id)),
               AddListEntry(l, r, b)
        PROVE  TypeOK'
    BY <2>3 DEF AddListEntry, TypeOK, EntryRow, ListRow, RecordRow, Slugs, ListFieldsOf, FieldRow
  <2>4. ASSUME NEW e \in entries, RemoveListEntry(e) PROVE TypeOK'
    BY <2>4 DEF RemoveListEntry, TypeOK
  <2>5. ASSUME NEW e \in entries, NEW s \in SUBSET Slugs(ListFieldsOf(e.list)), NEW b \in SUBSET s,
               NEW m \in BOOLEAN, UpdateListEntry(e, s, b, m)
        PROVE  TypeOK'
    BY <2>5 DEF UpdateListEntry, Written, TypeOK, EntryRow, Slugs, ListFieldsOf, FieldRow
  <2> QED BY <1>6, <2>1, <2>2, <2>3, <2>4, <2>5 DEF ListStep
<1>7. CASE RecordStep
  <2>1. ASSUME NEW r \in RecordId, NEW o \in ObjectId, NEW b \in SUBSET Slugs(FieldsOf(o)),
               CreateRecord(r, o, b)
        PROVE  TypeOK'
    BY <2>1 DEF CreateRecord, TypeOK, RecordRow, Slugs, FieldsOf, FieldRow
  <2>2. ASSUME NEW r \in records, PurgeRecord(r) PROVE TypeOK'
    BY <2>2 DEF PurgeRecord, TypeOK
  <2>3. ASSUME NEW r \in records, NEW s \in SUBSET Slugs(FieldsOf(r.obj)), NEW b \in SUBSET s,
               NEW m \in BOOLEAN, UpdateRecord(r, s, b, m)
        PROVE  TypeOK'
    BY <2>3 DEF UpdateRecord, Written, TypeOK, RecordRow, Slugs, FieldsOf, FieldRow
  <2> QED BY <1>7, <2>1, <2>2, <2>3 DEF RecordStep
<1> QED BY <1>1, <1>2, <1>3, <1>4, <1>5, <1>6, <1>7 DEF Next

(* Every table holds rows of its own shape.                                *)
THEOREM TypeInvariant == Spec => []TypeOK
  BY InitType, NextType, PTL DEF Spec

(***************************************************************************)
(* Ids                                                                     *)
(***************************************************************************)
(* An id names one row of its table for good: it is unique, it is spent,   *)
(* and what a handler in flight read under it is still the row it names.   *)
UniqueIds ==
  /\ \A f, g \in fields : f.id = g.id => f = g
  /\ \A v, w \in views : v.id = w.id => v = w
  /\ \A l, m \in lists : l.id = m.id => l = m
  /\ \A x, y \in objects : x.id = y.id => x = y
Spent ==
  /\ Ids(objects) \cup Ids(fields) \cup Ids(views) \cup Ids(lists) \subseteq spent
  /\ Ids(SeedField) \cup Ids(SeedView) \subseteq spent
  /\ \A f \in fields : f.list # None => f.list \in spent
CallsSpent ==
  \A c \in Client :
    /\ call[c].op = "patch_object" => call[c].obj \in spent
    /\ call[c].op = "delete_field" => call[c].field.id \in spent
    /\ call[c].op = "create_list_field" => call[c].list \in spent
OneObject ==
  /\ \A f \in fields, l \in lists : f.list = l.id => f.obj = l.obj
  /\ \A c \in Client :
       /\ call[c].op = "delete_field" =>
            \A f \in fields : f.id = call[c].field.id => f = call[c].field
       /\ call[c].op = "create_list_field" =>
            \A l \in lists : l.id = call[c].list => l.obj = call[c].obj
Keyed == TypeOK /\ UniqueIds /\ Spent /\ CallsSpent /\ OneObject
         /\ Standard \subseteq Ids(objects)

LEMMA InitKeyed == Init => Keyed
<1> SUFFICES ASSUME Init PROVE Keyed
  OBVIOUS
<1>1. TypeOK
  BY InitType
<1>2. UniqueIds
  BY SchemaConstants DEF Init, UniqueIds, SchemaConstants, SeedsSound
<1>3. Spent
  BY SchemaConstants DEF Init, Spent, Ids, SchemaConstants, SeedsSound
<1>4. CallsSpent /\ OneObject
  BY DEF Init, CallsSpent, OneObject, Idle
<1>5. Standard \subseteq Ids(objects)
  <2>1. \A o \in Standard : [id |-> o, title |-> TitleOfSeed[o]].id = o
    OBVIOUS
  <2> QED BY <2>1 DEF Init, Ids
<1> QED BY <1>1, <1>2, <1>3, <1>4, <1>5 DEF Keyed

(* The seeds a start puts back take ids and slugs nobody has.              *)
LEMMA RestartKeyed == Keyed /\ Restart => UniqueIds' /\ Spent' /\ CallsSpent' /\ OneObject'
<1> SUFFICES ASSUME Keyed, Restart PROVE UniqueIds' /\ Spent' /\ CallsSpent' /\ OneObject'
  OBVIOUS
<1> USE SchemaConstants DEF SchemaConstants, SeedsSound
<1>1. UniqueIds'
  BY DEF Keyed, UniqueIds, Restart, MissingFields, MissingViews, Ids
<1>2. Spent'
  BY DEF Keyed, Spent, Restart, MissingFields, MissingViews, Ids
<1>3. CallsSpent'
  BY DEF Restart, CallsSpent, Idle
<1>4. OneObject'
  BY DEF Keyed, TypeOK, OneObject, Restart, MissingFields, Idle, ListRow
<1> QED BY <1>1, <1>2, <1>3, <1>4

LEMMA InsertKeyed ==
  ASSUME Keyed, NEW f \in FieldId, NEW o \in ObjectId, NEW l \in ListId \cup {None},
         NEW s \in Slug, Insert(f, o, l, s), l # None => l \in spent,
         \A m \in lists : m.id = l => m.obj = o
  PROVE  /\ UniqueIds' /\ Spent'
         /\ \A g \in fields', m \in lists' : g.list = m.id => g.obj = m.obj
         /\ spent \subseteq spent' /\ Standard \subseteq Ids(objects')
         /\ \A c \in Client : call[c].op = "delete_field" =>
              \A g \in fields' : g.id = call[c].field.id => g = call[c].field
<1>1. UniqueIds'
  <2>1. PICK row : row.id = f /\ fields' = fields \cup {row}
    BY DEF Insert
  <2>2. \A g \in fields : g.id # f
    BY DEF Insert, Keyed, Spent, Ids
  <2> QED BY <2>1, <2>2 DEF Keyed, UniqueIds, Insert
<1>2. Spent'
  BY DEF Keyed, Spent, Insert, Ids
<1>3. \A g \in fields', m \in lists' : g.list = m.id => g.obj = m.obj
  BY DEF Keyed, OneObject, Insert
<1>4. \A c \in Client : call[c].op = "delete_field" =>
        \A g \in fields' : g.id = call[c].field.id => g = call[c].field
  BY DEF Keyed, OneObject, CallsSpent, Insert
<1> QED BY <1>1, <1>2, <1>3, <1>4 DEF Insert, Keyed, Ids

LEMMA NextKeyed == Keyed /\ [Next]_vars => Keyed'
<1> SUFFICES ASSUME Keyed, [Next]_vars PROVE Keyed'
  OBVIOUS
<1>t. TypeOK'
  BY NextType DEF Keyed
<1> SUFFICES UniqueIds' /\ Spent' /\ CallsSpent' /\ OneObject' /\ Standard \subseteq Ids(objects')
  BY <1>t DEF Keyed
<1> USE SchemaConstants DEF SchemaConstants, Ids
<1>1. CASE UNCHANGED vars
  BY <1>1 DEF vars, tables, Keyed, UniqueIds, Spent, CallsSpent, OneObject
<1>2. CASE Restart
  BY <1>2, RestartKeyed DEF Restart, Keyed
<1>3. CASE ObjectStep
  <2>1. ASSUME NEW o \in ObjectId, NEW f \in FieldId, NEW v \in ViewId, CreateObject(o, f, v)
        PROVE  UniqueIds' /\ Spent' /\ CallsSpent' /\ OneObject' /\ Standard \subseteq Ids(objects')
    <3>a. PICK x : x.id = o /\ objects' = objects \cup {x}
      BY <2>1 DEF CreateObject
    <3>b. PICK g : g.id = f /\ fields' = fields \cup {g}
      BY <2>1 DEF CreateObject
    <3>c. PICK w : w.id = v /\ views' = views \cup {w}
      BY <2>1 DEF CreateObject
    <3>d. /\ \A y \in objects : y.id # o
          /\ \A y \in fields : y.id # f
          /\ \A y \in views : y.id # v
      BY <2>1 DEF CreateObject, Keyed, Spent
    <3>1. UniqueIds'
      BY <2>1, <3>a, <3>b, <3>c, <3>d DEF Keyed, UniqueIds, CreateObject
    <3>2. Spent' /\ Standard \subseteq Ids(objects')
      BY <2>1 DEF Keyed, Spent, CreateObject
    <3>3. CallsSpent'
      BY <2>1 DEF Keyed, CallsSpent, CreateObject
    <3>4. OneObject'
      BY <2>1 DEF Keyed, TypeOK, OneObject, CallsSpent, CreateObject, ListRow
    <3> QED BY <3>1, <3>2, <3>3, <3>4
  <2>2. ASSUME NEW o \in ObjectId, DeleteObject(o)
        PROVE  UniqueIds' /\ Spent' /\ CallsSpent' /\ OneObject' /\ Standard \subseteq Ids(objects')
    BY <2>2 DEF DeleteObject, Keyed, UniqueIds, Spent, CallsSpent, OneObject
  <2> QED BY <1>3, <2>1, <2>2 DEF ObjectStep
<1>4. CASE FieldStep
  <2>1. ASSUME NEW f \in FieldId, NEW o \in ObjectId, NEW s \in Slug, CreateField(f, o, s)
        PROVE  UniqueIds' /\ Spent' /\ CallsSpent' /\ OneObject' /\ Standard \subseteq Ids(objects')
    <3>1. Insert(f, o, None, s) /\ UNCHANGED <<call, lists>>
      BY <2>1 DEF CreateField, Insert
    <3>2. \A m \in lists : m.id # None
      BY DEF Keyed, TypeOK, ListRow
    <3> QED BY <3>1, <3>2, InsertKeyed DEF Keyed, CallsSpent, OneObject
  <2>2. ASSUME NEW c \in Client, NEW o \in ObjectId, NEW t \in FieldId \cup {Raw}, CheckTitle(c, o, t)
        PROVE  UniqueIds' /\ Spent' /\ CallsSpent' /\ OneObject' /\ Standard \subseteq Ids(objects')
    BY <2>2 DEF CheckTitle, tables, Live, Keyed, TypeOK, UniqueIds, Spent, CallsSpent, OneObject
  <2>3. ASSUME NEW c \in Client, StoreTitle(c)
        PROVE  UniqueIds' /\ Spent' /\ CallsSpent' /\ OneObject' /\ Standard \subseteq Ids(objects')
    <3> DEFINE Put(x) == IF x.id = call[c].obj THEN [x EXCEPT !.title = call[c].title] ELSE x
    <3>1. \A x \in objects : Put(x).id = x.id
      BY DEF Keyed, TypeOK, ObjectRow
    <3>0. objects' = {Put(x) : x \in objects}
      BY <2>3 DEF StoreTitle
    <3> HIDE DEF Put
    <3>2. Ids(objects') = Ids(objects)
      BY <3>0, <3>1
    <3>a. \A x, y \in objects' : x.id = y.id => x = y
      BY <3>0, <3>1 DEF Keyed, UniqueIds
    <3>3. UniqueIds' /\ Spent'
      BY <2>3, <3>2, <3>a DEF StoreTitle, Keyed, UniqueIds, Spent
    <3>4. CallsSpent' /\ OneObject'
      BY <2>3 DEF StoreTitle, Keyed, TypeOK, CallsSpent, OneObject, Idle
    <3> QED BY <3>2, <3>3, <3>4 DEF Keyed
  <2>4. ASSUME NEW c \in Client, NEW l \in ListId, NEW s \in Slug, ResolveList(c, l, s)
        PROVE  UniqueIds' /\ Spent' /\ CallsSpent' /\ OneObject' /\ Standard \subseteq Ids(objects')
    <3>1. PICK row \in lists : row.id = l /\
            call' = [call EXCEPT ![c] =
              [op |-> "create_list_field", obj |-> row.obj, list |-> l, slug |-> s]]
      BY <2>4 DEF ResolveList
    <3>2. UniqueIds' /\ Spent' /\ Standard \subseteq Ids(objects')
      BY <2>4 DEF ResolveList, tables, Keyed, UniqueIds, Spent
    <3>4. CallsSpent' /\ OneObject'
      BY <2>4, <3>1 DEF ResolveList, tables, Keyed, TypeOK, UniqueIds, Spent, CallsSpent, OneObject
    <3> QED BY <3>2, <3>4
  <2>5. ASSUME NEW c \in Client, NEW f \in FieldId, CreateListField(c, f)
        PROVE  UniqueIds' /\ Spent' /\ CallsSpent' /\ OneObject' /\ Standard \subseteq Ids(objects')
    <3>1. /\ call[c].op = "create_list_field"
          /\ call[c].obj \in ObjectId /\ call[c].list \in ListId /\ call[c].slug \in Slug
          /\ Insert(f, call[c].obj, call[c].list, call[c].slug)
          /\ call' = [call EXCEPT ![c] = Idle]
      BY <2>5 DEF CreateListField, Keyed, TypeOK, Call, Idle
    <3>2. \A d \in Client : call'[d] = IF d = c THEN Idle ELSE call[d]
      BY <3>1 DEF Keyed, TypeOK
    <3>3. /\ UniqueIds' /\ Spent' /\ spent \subseteq spent' /\ Standard \subseteq Ids(objects')
          /\ \A g \in fields', m \in lists' : g.list = m.id => g.obj = m.obj
          /\ \A d \in Client : call[d].op = "delete_field" =>
               \A g \in fields' : g.id = call[d].field.id => g = call[d].field
      BY <3>1, InsertKeyed DEF Keyed, CallsSpent, OneObject
    <3>4. lists' = lists
      BY <3>1 DEF Insert
    <3> QED BY <3>2, <3>3, <3>4 DEF Keyed, CallsSpent, OneObject, Idle
  <2>6. ASSUME NEW c \in Client, RefuseListField(c)
        PROVE  UniqueIds' /\ Spent' /\ CallsSpent' /\ OneObject' /\ Standard \subseteq Ids(objects')
    BY <2>6 DEF RefuseListField, tables, Idle, Keyed, TypeOK, UniqueIds, Spent, CallsSpent, OneObject
  <2>7. ASSUME NEW c \in Client, NEW f \in fields, CheckField(c, f)
        PROVE  UniqueIds' /\ Spent' /\ CallsSpent' /\ OneObject' /\ Standard \subseteq Ids(objects')
    BY <2>7 DEF CheckField, tables, Keyed, TypeOK, UniqueIds, Spent, CallsSpent, OneObject
  <2>8. ASSUME NEW c \in Client, DeleteField(c)
        PROVE  UniqueIds' /\ Spent' /\ CallsSpent' /\ OneObject' /\ Standard \subseteq Ids(objects')
    <3>1. fields' \subseteq fields /\ UNCHANGED <<objects, views, lists, spent>>
      BY <2>8 DEF DeleteField, tables
    <3>2. \A d \in Client : call'[d] = IF d = c THEN Idle ELSE call[d]
      BY <2>8 DEF DeleteField, Keyed, TypeOK
    <3> QED BY <3>1, <3>2 DEF Idle, Keyed, UniqueIds, Spent, CallsSpent, OneObject
  <2> QED BY <1>4, <2>1, <2>2, <2>3, <2>4, <2>5, <2>6, <2>7, <2>8 DEF FieldStep
<1>5. CASE ViewStep
  <2>1. UNCHANGED <<objects, fields, lists, call>> /\ spent \subseteq spent'
    BY <1>5 DEF ViewStep, CreateView, DeleteView, SetDefaultView, UpdateView
  <2>2. \A w \in views : /\ [w EXCEPT !.default = TRUE].id = w.id
                         /\ [w EXCEPT !.default = FALSE].id = w.id
                         /\ \A p \in Position : [w EXCEPT !.pos = p].id = w.id
    BY DEF Keyed, TypeOK, ViewRow
  <2>3. (\A x, y \in views' : x.id = y.id => x = y) /\ Ids(views') \subseteq spent'
    <3>0. /\ \A x, y \in views : x.id = y.id => x = y
          /\ \A x \in views : x.id \in spent
      BY DEF Keyed, UniqueIds, Spent
    <3>u. ASSUME NEW o
          PROVE  /\ \A x, y \in Undefault(o) : x.id = y.id => x = y
                 /\ \A x \in Undefault(o) : x.id \in spent /\ x \in ViewRow
      <4> DEFINE Off(x) == IF x.obj = o THEN [x EXCEPT !.default = FALSE] ELSE x
      <4>1. \A x \in views : Off(x).id = x.id /\ Off(x) \in ViewRow
        BY <2>2, ViewUpdates DEF Keyed, TypeOK
      <4>2. Undefault(o) = {Off(x) : x \in views}
        BY DEF Undefault
      <4> HIDE DEF Off
      <4> QED BY <3>0, <4>1, <4>2
    <3>1. ASSUME NEW v \in ViewId, NEW o \in ObjectId, NEW d \in BOOLEAN, CreateView(v, o, d)
          PROVE  (\A x, y \in views' : x.id = y.id => x = y) /\ Ids(views') \subseteq spent'
      <4>1. PICK x : x.id = v /\ views' = (IF d THEN Undefault(o) ELSE views) \cup {x}
        BY <3>1 DEF CreateView
      <4>2. v \notin spent /\ spent' = spent \cup {v}
        BY <3>1 DEF CreateView
      <4> QED BY <3>0, <3>u, <4>1, <4>2
    <3>2. ASSUME NEW v \in views, DeleteView(v)
          PROVE  (\A x, y \in views' : x.id = y.id => x = y) /\ Ids(views') \subseteq spent'
      <4>1. spent' = spent
        BY <3>2 DEF DeleteView
      <4>2. \/ views' = views \ {v}
            \/ \E w \in views : views' = (views \ {v, w}) \cup {[w EXCEPT !.default = TRUE]}
        BY <3>2 DEF DeleteView, ViewsOf
      <4>3. ASSUME NEW w \in views, views' = (views \ {v, w}) \cup {[w EXCEPT !.default = TRUE]}
            PROVE  (\A x, y \in views' : x.id = y.id => x = y) /\ Ids(views') \subseteq spent'
        <5>1. [w EXCEPT !.default = TRUE].id = w.id
          BY <2>2
        <5> DEFINE x == [w EXCEPT !.default = TRUE]
        <5> HIDE DEF x
        <5> QED BY <3>0, <4>1, <4>3, <5>1 DEF x
      <4> QED BY <3>0, <4>1, <4>2, <4>3
    <3>3. ASSUME NEW v \in views, SetDefaultView(v)
          PROVE  (\A x, y \in views' : x.id = y.id => x = y) /\ Ids(views') \subseteq spent'
      <4> DEFINE On(x) == IF x.id = v.id THEN [x EXCEPT !.default = TRUE] ELSE x
      <4>1. \A x \in Undefault(v.obj) : On(x).id = x.id
        BY <3>u DEF ViewRow
      <4>2. views' = {On(x) : x \in Undefault(v.obj)} /\ spent' = spent
        BY <3>3 DEF SetDefaultView
      <4> HIDE DEF On
      <4> QED BY <3>u, <4>1, <4>2
    <3>4. ASSUME NEW v \in views, NEW p \in Position, UpdateView(v, p)
          PROVE  (\A x, y \in views' : x.id = y.id => x = y) /\ Ids(views') \subseteq spent'
      <4>1. PICK x : x.id = v.id /\ views' = (views \ {v}) \cup {x}
        BY <2>2, <3>4 DEF UpdateView
      <4>2. spent' = spent
        BY <3>4 DEF UpdateView
      <4> QED BY <3>0, <4>1, <4>2
    <3> QED BY <1>5, <3>1, <3>2, <3>3, <3>4 DEF ViewStep
  <2> QED BY <2>1, <2>3 DEF Keyed, UniqueIds, Spent, CallsSpent, OneObject
<1>6. CASE ListStep
  <2>1. ASSUME NEW l \in ListId, NEW o \in ObjectId, CreateList(l, o)
        PROVE  UniqueIds' /\ Spent' /\ CallsSpent' /\ OneObject' /\ Standard \subseteq Ids(objects')
    <3>1. UniqueIds' /\ Spent' /\ CallsSpent' /\ Standard \subseteq Ids(objects')
      BY <2>1 DEF CreateList, Keyed, UniqueIds, Spent, CallsSpent
    <3>2. OneObject'
      BY <2>1 DEF CreateList, Keyed, Spent, CallsSpent, OneObject
    <3> QED BY <3>1, <3>2
  <2>2. ASSUME NEW l \in lists, DeleteList(l)
        PROVE  UniqueIds' /\ Spent' /\ CallsSpent' /\ OneObject' /\ Standard \subseteq Ids(objects')
    BY <2>2 DEF DeleteList, Keyed, UniqueIds, Spent, CallsSpent, OneObject
  <2>3. (\A l \in ListId, o \in ObjectId : ~CreateList(l, o)) /\ (\A l \in lists : ~DeleteList(l))
          => UNCHANGED <<objects, fields, views, lists, spent, call>>
    BY <1>6 DEF ListStep, AddListEntry, RemoveListEntry, UpdateListEntry
  <2> QED BY <2>1, <2>2, <2>3 DEF Keyed, UniqueIds, Spent, CallsSpent, OneObject
<1>7. CASE RecordStep
  <2>1. UNCHANGED <<objects, fields, views, lists, call>> /\ spent \subseteq spent'
    BY <1>7 DEF RecordStep, CreateRecord, PurgeRecord, UpdateRecord
  <2> QED BY <2>1 DEF Keyed, UniqueIds, Spent, CallsSpent, OneObject
<1> QED BY <1>1, <1>2, <1>3, <1>4, <1>5, <1>6, <1>7 DEF Next

(* new_id never hands out an id twice, the seeds keep theirs, and nothing  *)
(* a handler read before its second lock names another row by then.        *)
THEOREM KeyedInvariant == Spec => []Keyed
  BY InitKeyed, NextKeyed, PTL DEF Spec

(***************************************************************************)
(* The cascades                                                            *)
(***************************************************************************)
(* A handler that adds a field to a list still has the list, unless it was *)
(* deleted meanwhile, alone or with its object.                            *)
CallsLists ==
  \A c \in Client : call[c].op = "create_list_field" =>
    /\ call[c].obj \in spent
    /\ \/ ~Live(call[c].obj) \/ "list" \in raced
       \/ \E l \in lists : l.id = call[c].list /\ l.obj = call[c].obj
NoOrphansInv == Keyed /\ NoOrphans /\ CallsLists

LEMMA InitNoOrphans == Init => NoOrphansInv
<1> SUFFICES ASSUME Init PROVE NoOrphansInv
  OBVIOUS
<1>1. Keyed
  BY InitKeyed
<1>2. \A o \in Standard : Live(o)
  BY <1>1 DEF Keyed, Live
<1>3. NoOrphans
  BY <1>2, SchemaConstants DEF Init, NoOrphans, SchemaConstants, SeedsSound
<1>4. CallsLists
  BY DEF Init, CallsLists, Idle
<1> QED BY <1>1, <1>3, <1>4 DEF NoOrphansInv

(* What steps that leave objects, lists and entries alone must show.       *)
LEMMA OrphansOf ==
  ASSUME NoOrphansInv, UNCHANGED <<objects, lists, entries, records, views, raced>>,
         \A f \in fields' : Live(f.obj) /\ (f.list # None =>
            (\E l \in lists : l.id = f.list /\ l.obj = f.obj) \/ "list" \in raced)
  PROVE  NoOrphans'
  BY DEF NoOrphansInv, NoOrphans, Live, Ids

LEMMA NextNoOrphans == NoOrphansInv /\ [Next]_vars => NoOrphansInv'
<1> SUFFICES ASSUME NoOrphansInv, [Next]_vars PROVE NoOrphansInv'
  OBVIOUS
<1>k. Keyed /\ Keyed' /\ TypeOK
  BY NextKeyed DEF NoOrphansInv, Keyed
<1> SUFFICES NoOrphans' /\ CallsLists'
  BY <1>k DEF NoOrphansInv
<1>1. CASE UNCHANGED vars
  BY <1>1 DEF vars, tables, NoOrphansInv, NoOrphans, CallsLists, Live, Ids
<1>2. CASE Restart
  <2>1. \A o \in Standard : Live(o)
    BY <1>k DEF Keyed, Live
  <2>2. \A f \in SeedField : f.obj \in Standard /\ f.list = None
    BY SchemaConstants DEF SchemaConstants, SeedsSound
  <2>3. \A v \in SeedView : v.obj \in Standard
    BY SchemaConstants DEF SchemaConstants, SeedsSound
  <2>4. NoOrphans'
    BY <1>2, <2>1, <2>2, <2>3
       DEF Restart, MissingFields, MissingViews, NoOrphansInv, NoOrphans, Live, Ids
  <2> QED BY <1>2, <2>4 DEF Restart, CallsLists, Idle
<1>3. CASE ObjectStep
  <2>1. ASSUME NEW o \in ObjectId, NEW f \in FieldId, NEW v \in ViewId, CreateObject(o, f, v)
        PROVE  NoOrphans' /\ CallsLists'
    <3>1. Live(o)' /\ \A x : Live(x) => Live(x)'
      <4>1. PICK row : row.id = o /\ objects' = objects \cup {row}
        BY <2>1 DEF CreateObject
      <4> QED BY <4>1 DEF Live, Ids
    <3>2. PICK g : g.obj = o /\ g.list = None /\ fields' = fields \cup {g}
      BY <2>1 DEF CreateObject
    <3>3. PICK w : w.obj = o /\ views' = views \cup {w}
      BY <2>1 DEF CreateObject
    <3>4. NoOrphans'
      BY <2>1, <3>1, <3>2, <3>3 DEF CreateObject, NoOrphansInv, NoOrphans
    <3>5. \A x \in spent : Live(x)' => Live(x)
      BY <2>1 DEF CreateObject, Live, Ids
    <3> QED BY <2>1, <3>4, <3>5 DEF CreateObject, NoOrphansInv, CallsLists
  <2>2. ASSUME NEW o \in ObjectId, DeleteObject(o) PROVE NoOrphans' /\ CallsLists'
    <3>1. \A x : Live(x)' <=> Live(x) /\ x # o
      BY <2>2 DEF DeleteObject, Live, Ids
    <3>2. \A row \in fields' \cup views' \cup lists' \cup records' : Live(row.obj)'
      BY <2>2, <3>1 DEF DeleteObject, NoOrphansInv, NoOrphans
    <3>3. \A f \in fields' : f.list # None =>
            \/ \E l \in lists' : l.id = f.list /\ l.obj = f.obj
            \/ "list" \in raced'
      BY <2>2 DEF DeleteObject, NoOrphansInv, NoOrphans
    <3>4. \A e \in entries' :
            \E l \in lists', r \in records' : l.id = e.list /\ r.id = e.rec /\ r.obj = l.obj
      <4> SUFFICES ASSUME NEW e \in entries'
                   PROVE  \E l \in lists', r \in records' :
                            l.id = e.list /\ r.id = e.rec /\ r.obj = l.obj
        OBVIOUS
      <4>1. e \in entries /\ e.list \notin Ids({l \in lists : l.obj = o})
        BY <2>2 DEF DeleteObject
      <4>2. PICK l \in lists, r \in records : l.id = e.list /\ r.id = e.rec /\ r.obj = l.obj
        BY <4>1 DEF NoOrphansInv, NoOrphans
      <4>3. l.obj # o
        BY <4>1, <4>2 DEF Ids
      <4> QED BY <2>2, <4>2, <4>3 DEF DeleteObject
    <3>5. CallsLists'
      BY <2>2, <3>1 DEF DeleteObject, NoOrphansInv, CallsLists
    <3> QED BY <3>2, <3>3, <3>4, <3>5 DEF NoOrphans
  <2> QED BY <1>3, <2>1, <2>2 DEF ObjectStep
<1>4. CASE FieldStep
  <2>1. ASSUME NEW f \in FieldId, NEW o \in ObjectId, NEW s \in Slug, CreateField(f, o, s)
        PROVE  NoOrphans' /\ CallsLists'
    <3>1. PICK row : row.obj = o /\ row.list = None /\ fields' = fields \cup {row}
      BY <2>1 DEF CreateField, Insert
    <3>2. NoOrphans'
      BY <2>1, <3>1, OrphansOf DEF CreateField, Insert, NoOrphansInv, NoOrphans
    <3> QED BY <2>1, <3>2 DEF CreateField, Insert, NoOrphansInv, CallsLists, Live, Ids
  <2>2. ASSUME NEW c \in Client, NEW o \in ObjectId, NEW t \in FieldId \cup {Raw}, CheckTitle(c, o, t)
        PROVE  NoOrphans' /\ CallsLists'
    BY <1>k, <2>2 DEF CheckTitle, NoteRace, tables, TypeOK, NoOrphansInv, NoOrphans, CallsLists, Live, Ids
  <2>3. ASSUME NEW c \in Client, StoreTitle(c) PROVE NoOrphans' /\ CallsLists'
    <3> DEFINE Put(x) == IF x.id = call[c].obj THEN [x EXCEPT !.title = call[c].title] ELSE x
    <3>1. \A x \in objects : Put(x).id = x.id
      BY <1>k DEF TypeOK, ObjectRow
    <3>2. objects' = {Put(x) : x \in objects}
      BY <2>3 DEF StoreTitle
    <3> HIDE DEF Put
    <3>3. \A x : Live(x)' <=> Live(x)
      BY <3>1, <3>2 DEF Live, Ids
    <3>4. NoOrphans'
      BY <2>3, <3>3 DEF StoreTitle, NoOrphansInv, NoOrphans
    <3> QED BY <1>k, <2>3, <3>3, <3>4 DEF StoreTitle, TypeOK, NoOrphansInv, CallsLists, Idle
  <2>4. ASSUME NEW c \in Client, NEW l \in ListId, NEW s \in Slug, ResolveList(c, l, s)
        PROVE  NoOrphans' /\ CallsLists'
    <3>1. PICK row \in lists : row.id = l /\
            call' = [call EXCEPT ![c] =
              [op |-> "create_list_field", obj |-> row.obj, list |-> l, slug |-> s]]
      BY <2>4 DEF ResolveList
    <3>2. row.obj \in spent
      BY <1>k DEF NoOrphansInv, NoOrphans, Live, Keyed, Spent
    <3>3. NoOrphans'
      BY <2>4 DEF ResolveList, tables, NoOrphansInv, NoOrphans, Live, Ids
    <3>4. \A d \in Client : call'[d] = IF d = c
            THEN [op |-> "create_list_field", obj |-> row.obj, list |-> l, slug |-> s] ELSE call[d]
      BY <1>k, <3>1 DEF TypeOK
    <3>5. CallsLists'
      BY <2>4, <3>1, <3>2, <3>4 DEF ResolveList, tables, NoOrphansInv, CallsLists, Live, Ids
    <3> QED BY <3>3, <3>5
  <2>5. ASSUME NEW c \in Client, NEW f \in FieldId, CreateListField(c, f) PROVE NoOrphans' /\ CallsLists'
    <3>1. PICK row : /\ row.obj = call[c].obj /\ row.list = call[c].list
                     /\ fields' = fields \cup {row}
      BY <2>5 DEF CreateListField, Insert
    <3>2. call[c].op = "create_list_field" /\ Live(call[c].obj)
      BY <2>5 DEF CreateListField, ListFieldTaken
    <3>3. (\E l \in lists : l.id = row.list /\ l.obj = row.obj) \/ "list" \in raced
      BY <3>1, <3>2 DEF NoOrphansInv, CallsLists
    <3>4. UNCHANGED <<objects, lists, entries, records, views, raced>> /\ spent \subseteq spent'
      BY <2>5 DEF CreateListField, Insert
    <3>5. NoOrphans'
      BY <3>1, <3>2, <3>3, <3>4, OrphansOf DEF NoOrphansInv, NoOrphans
    <3> QED BY <1>k, <2>5, <3>4, <3>5 DEF CreateListField, TypeOK, NoOrphansInv, CallsLists, Idle, Live, Ids
  <2>6. ASSUME NEW c \in Client, RefuseListField(c) PROVE NoOrphans' /\ CallsLists'
    BY <1>k, <2>6 DEF RefuseListField, tables, TypeOK, NoOrphansInv, NoOrphans, CallsLists, Idle, Live, Ids
  <2>7. ASSUME NEW c \in Client, NEW f \in fields, CheckField(c, f) PROVE NoOrphans' /\ CallsLists'
    BY <1>k, <2>7 DEF CheckField, NoteRace, tables, TypeOK, NoOrphansInv, NoOrphans, CallsLists, Live, Ids
  <2>8. ASSUME NEW c \in Client, DeleteField(c) PROVE NoOrphans' /\ CallsLists'
    <3> DEFINE Cut(row) == [row EXCEPT !.bag = @ \ {call[c].field.slug}]
    <3>1. /\ \A r \in records : Cut(r).id = r.id /\ Cut(r).obj = r.obj
          /\ \A e \in entries : Cut(e).list = e.list /\ Cut(e).rec = e.rec
      BY <1>k DEF TypeOK, RecordRow, EntryRow
    <3>2. /\ fields' \subseteq fields /\ UNCHANGED <<objects, views, lists, spent, raced>>
          /\ \A r \in records' : \E q \in records : r = q \/ r = Cut(q)
          /\ \A q \in records : \E r \in records' : r = q \/ r = Cut(q)
          /\ \A e \in entries' : \E q \in entries : e = q \/ e = Cut(q)
      <4>1. /\ fields' \subseteq fields /\ UNCHANGED <<objects, views, lists, spent, raced>>
            /\ records' = records \/ \E scope : records' = Strip(records, scope, call[c].field.slug)
            /\ entries' = entries \/ \E scope : entries' = Strip(entries, scope, call[c].field.slug)
        BY <2>8 DEF DeleteField, tables
      <4>2. ASSUME NEW rows, NEW scope
            PROVE  /\ \A r \in Strip(rows, scope, call[c].field.slug) : \E q \in rows : r = q \/ r = Cut(q)
                   /\ \A q \in rows : \E r \in Strip(rows, scope, call[c].field.slug) : r = q \/ r = Cut(q)
        BY DEF Strip
      <4> HIDE DEF Cut
      <4> QED BY <4>1, <4>2
    <3> HIDE DEF Cut
    <3>3. \A x : Live(x)' <=> Live(x)
      BY <3>2 DEF Live, Ids
    <3>4. NoOrphans'
      BY <3>1, <3>2, <3>3 DEF NoOrphansInv, NoOrphans
    <3> QED BY <1>k, <2>8, <3>2, <3>3, <3>4 DEF DeleteField, TypeOK, NoOrphansInv, CallsLists, Idle
  <2> QED BY <1>4, <2>1, <2>2, <2>3, <2>4, <2>5, <2>6, <2>7, <2>8 DEF FieldStep
<1>5. CASE ViewStep
  <2>1. UNCHANGED <<objects, fields, lists, records, entries, raced, call>> /\ spent \subseteq spent'
    BY <1>5 DEF ViewStep, CreateView, DeleteView, SetDefaultView, UpdateView
  <2>2. \A x : Live(x)' <=> Live(x)
    BY <2>1 DEF Live, Ids
  <2>3. \A w \in views' : Live(w.obj)
    <3>0. \A w \in ViewRow : /\ [w EXCEPT !.default = TRUE].obj = w.obj
                             /\ [w EXCEPT !.default = FALSE].obj = w.obj
                             /\ \A p \in Position : [w EXCEPT !.pos = p].obj = w.obj
      BY DEF ViewRow
    <3>1. \A w \in views : w \in ViewRow /\ Live(w.obj)
      BY <1>k DEF TypeOK, NoOrphansInv, NoOrphans
    <3>2. ASSUME NEW o PROVE \A w \in Undefault(o) : w \in ViewRow /\ Live(w.obj)
      <4> DEFINE Off(x) == IF x.obj = o THEN [x EXCEPT !.default = FALSE] ELSE x
      <4>1. \A x \in views : Off(x).obj = x.obj /\ Off(x) \in ViewRow
        BY <3>0, <3>1, ViewUpdates
      <4>2. Undefault(o) = {Off(x) : x \in views}
        BY DEF Undefault
      <4> HIDE DEF Off
      <4> QED BY <3>1, <4>1, <4>2
    <3>3. ASSUME NEW v \in ViewId, NEW o \in ObjectId, NEW d \in BOOLEAN, CreateView(v, o, d)
          PROVE  \A w \in views' : Live(w.obj)
      <4>1. PICK x : x.obj = o /\ views' = (IF d THEN Undefault(o) ELSE views) \cup {x}
        BY <3>3 DEF CreateView
      <4>2. Live(o)
        BY <3>3 DEF CreateView
      <4> QED BY <3>1, <3>2, <4>1, <4>2
    <3>4. ASSUME NEW v \in views, DeleteView(v) PROVE \A w \in views' : Live(w.obj)
      <4>1. \/ views' = views \ {v}
            \/ \E w \in views : views' = (views \ {v, w}) \cup {[w EXCEPT !.default = TRUE]}
        BY <3>4 DEF DeleteView, ViewsOf
      <4>2. ASSUME NEW w \in views, views' = (views \ {v, w}) \cup {[w EXCEPT !.default = TRUE]}
            PROVE  \A x \in views' : Live(x.obj)
        <5>1. PICK x : x.obj = w.obj /\ views' = (views \ {v, w}) \cup {x}
          BY <3>0, <3>1, <4>2
        <5> QED BY <3>1, <5>1
      <4> QED BY <3>1, <4>1, <4>2
    <3>5. ASSUME NEW v \in views, SetDefaultView(v) PROVE \A w \in views' : Live(w.obj)
      <4> DEFINE On(x) == IF x.id = v.id THEN [x EXCEPT !.default = TRUE] ELSE x
      <4>1. \A x \in Undefault(v.obj) : On(x).obj = x.obj /\ Live(x.obj)
        BY <3>0, <3>2
      <4>2. views' = {On(x) : x \in Undefault(v.obj)}
        BY <3>5 DEF SetDefaultView
      <4> HIDE DEF On
      <4> QED BY <4>1, <4>2
    <3>6. ASSUME NEW v \in views, NEW p \in Position, UpdateView(v, p)
          PROVE  \A w \in views' : Live(w.obj)
      <4>1. PICK x : x.obj = v.obj /\ views' = (views \ {v}) \cup {x}
        BY <3>0, <3>1, <3>6 DEF UpdateView
      <4> QED BY <3>1, <4>1
    <3> QED BY <1>5, <3>3, <3>4, <3>5, <3>6 DEF ViewStep
  <2> QED BY <2>1, <2>2, <2>3 DEF NoOrphansInv, NoOrphans, CallsLists
<1>6. CASE ListStep
  <2>1. ASSUME NEW l \in ListId, NEW o \in ObjectId, CreateList(l, o) PROVE NoOrphans' /\ CallsLists'
    <3>1. PICK row : row.id = l /\ row.obj = o /\ lists' = lists \cup {row}
      BY <2>1 DEF CreateList
    <3>2. NoOrphans'
      BY <2>1, <3>1 DEF CreateList, NoOrphansInv, NoOrphans, Live, Ids
    <3> QED BY <2>1, <3>1, <3>2 DEF CreateList, NoOrphansInv, CallsLists, Live, Ids
  <2>2. ASSUME NEW l \in lists, DeleteList(l) PROVE NoOrphans' /\ CallsLists'
    <3>1. \A x : Live(x)' <=> Live(x)
      BY <2>2 DEF DeleteList, Live, Ids
    <3>2. \A m \in lists : m \in lists' \/ m.id = l.id
      BY <2>2 DEF DeleteList
    <3>3. NoOrphans'
      BY <2>2, <3>1, <3>2 DEF DeleteList, NoOrphansInv, NoOrphans
    <3>4. CallsLists'
      BY <2>2, <3>1, <3>2 DEF DeleteList, NoOrphansInv, CallsLists
    <3> QED BY <3>3, <3>4
  <2>3. ASSUME NEW l \in lists, NEW r \in records, NEW b \in SUBSET Slugs(ListFieldsOf(l.id)),
               AddListEntry(l, r, b)
        PROVE  NoOrphans' /\ CallsLists'
    <3>1. PICK e : e.list = l.id /\ e.rec = r.id /\ entries' = entries \cup {e}
      BY <2>3 DEF AddListEntry
    <3> QED BY <2>3, <3>1 DEF AddListEntry, NoOrphansInv, NoOrphans, CallsLists, Live, Ids
  <2>4. ASSUME NEW e \in entries, RemoveListEntry(e) PROVE NoOrphans' /\ CallsLists'
    BY <2>4 DEF RemoveListEntry, NoOrphansInv, NoOrphans, CallsLists, Live, Ids
  <2>5. ASSUME NEW e \in entries, NEW s \in SUBSET Slugs(ListFieldsOf(e.list)), NEW b \in SUBSET s,
               NEW m \in BOOLEAN, UpdateListEntry(e, s, b, m)
        PROVE  NoOrphans' /\ CallsLists'
    <3>1. PICK x : x.list = e.list /\ x.rec = e.rec /\ entries' = (entries \ {e}) \cup {x}
      BY <1>k, <2>5 DEF UpdateListEntry, TypeOK, EntryRow
    <3> QED BY <2>5, <3>1 DEF UpdateListEntry, NoOrphansInv, NoOrphans, CallsLists, Live, Ids
  <2> QED BY <1>6, <2>1, <2>2, <2>3, <2>4, <2>5 DEF ListStep
<1>7. CASE RecordStep
  <2>1. ASSUME NEW r \in RecordId, NEW o \in ObjectId, NEW b \in SUBSET Slugs(FieldsOf(o)),
               CreateRecord(r, o, b)
        PROVE  NoOrphans' /\ CallsLists'
    <3>1. PICK x : x.obj = o /\ records' = records \cup {x}
      BY <2>1 DEF CreateRecord
    <3> QED BY <2>1, <3>1 DEF CreateRecord, NoOrphansInv, NoOrphans, CallsLists, Live, Ids
  <2>2. ASSUME NEW r \in records, PurgeRecord(r) PROVE NoOrphans' /\ CallsLists'
    BY <2>2 DEF PurgeRecord, NoOrphansInv, NoOrphans, CallsLists, Live, Ids
  <2>3. ASSUME NEW r \in records, NEW s \in SUBSET Slugs(FieldsOf(r.obj)), NEW b \in SUBSET s,
               NEW m \in BOOLEAN, UpdateRecord(r, s, b, m)
        PROVE  NoOrphans' /\ CallsLists'
    <3>1. PICK x : x.id = r.id /\ x.obj = r.obj /\ records' = (records \ {r}) \cup {x}
      BY <1>k, <2>3 DEF UpdateRecord, TypeOK, RecordRow
    <3> QED BY <2>3, <3>1 DEF UpdateRecord, NoOrphansInv, NoOrphans, CallsLists, Live, Ids
  <2> QED BY <1>7, <2>1, <2>2, <2>3 DEF RecordStep
<1> QED BY <1>1, <1>2, <1>3, <1>4, <1>5, <1>6, <1>7 DEF Next

(* The cascades of delete_object, delete_list and purge_record leave       *)
(* nothing behind, for every set of objects, lists, records and clients.   *)
THEOREM CascadesAreComplete == Spec => []NoOrphans
<1>1. NoOrphansInv => NoOrphans
  BY DEF NoOrphansInv
<1> QED BY <1>1, InitNoOrphans, NextNoOrphans, PTL DEF Spec

(***************************************************************************)
(* Values of deleted fields                                                *)
(***************************************************************************)
GhostsInv == NoOrphansInv /\ NoGhostValues

LEMMA InitGhosts == Init => GhostsInv
  BY InitNoOrphans DEF GhostsInv, Init, NoGhostValues

(* Every bag is covered again when it was, and its fields are all still    *)
(* there.                                                                  *)
LEMMA GhostsOf ==
  ASSUME GhostsInv, records' \subseteq records, entries' \subseteq entries,
         \A r \in records' : FieldsOf(r.obj) \subseteq FieldsOf(r.obj)',
         \A e \in entries' : ListFieldsOf(e.list) \subseteq ListFieldsOf(e.list)'
  PROVE  NoGhostValues'
<1>1. \A a, b : a \subseteq b => Slugs(a) \subseteq Slugs(b)
  BY DEF Slugs
<1>2. \A r \in records' : r.bag \subseteq Slugs(FieldsOf(r.obj)')
  BY <1>1 DEF GhostsInv, NoGhostValues
<1>3. \A e \in entries' : e.bag \subseteq Slugs(ListFieldsOf(e.list)')
  BY <1>1 DEF GhostsInv, NoGhostValues
<1> QED BY <1>2, <1>3 DEF NoGhostValues, FieldsOf, ListFieldsOf, Slugs

(* What a request writes has fields, and what a merge keeps had.           *)
LEMMA WrittenCovered ==
  ASSUME NEW slugs, NEW old \in SUBSET slugs, NEW s \in SUBSET slugs, NEW b \in SUBSET s,
         NEW m \in BOOLEAN
  PROVE  Written(old, s, b, m) \subseteq slugs
  BY DEF Written

(* The one field that goes takes its slug out of every bag of its scope.   *)
LEMMA DeleteFieldGhosts ==
  ASSUME GhostsInv, NEW c \in Client, DeleteField(c)
  PROVE  NoGhostValues'
<1> DEFINE f == call[c].field
           Cut(row) == [row EXCEPT !.bag = @ \ {f.slug}]
<1>k. Keyed /\ TypeOK
  BY DEF GhostsInv, NoOrphansInv, Keyed
<1>f. f \in FieldRow /\ \A g \in fields : g.id = f.id => g = f
  BY <1>k DEF DeleteField, TypeOK, Call, Idle, Keyed, OneObject
<1>1. CASE f.id \notin Ids(fields)
  <2>1. UNCHANGED tables
    BY <1>1 DEF DeleteField
  <2> QED BY <2>1, GhostsOf DEF tables, FieldsOf, ListFieldsOf
<1>2. CASE f.id \in Ids(fields)
  <2>1. f \in fields /\ fields' = fields \ {f}
    BY <1>2, <1>f DEF DeleteField, Ids
  <2>2. /\ records' = IF f.list # None THEN records
             ELSE Strip(records, {r \in records : r.obj = f.obj}, f.slug)
        /\ entries' = IF f.list = None THEN entries
             ELSE Strip(entries, {e \in entries : e.list = f.list}, f.slug)
    BY <1>2 DEF DeleteField
  <2>3. /\ \A r \in records : /\ Cut(r).obj = r.obj /\ Cut(r).bag = r.bag \ {f.slug}
                              /\ r.bag \subseteq Slugs(FieldsOf(r.obj))
        /\ \A e \in entries : /\ Cut(e).list = e.list /\ Cut(e).bag = e.bag \ {f.slug}
                              /\ e.bag \subseteq Slugs(ListFieldsOf(e.list))
                              /\ e.list # None
    BY <1>k, SchemaConstants
       DEF SchemaConstants, TypeOK, RecordRow, EntryRow, GhostsInv, NoGhostValues
  <2>r. \A r \in records' : \E q \in records :
          /\ r.obj = q.obj
          /\ \/ r = q /\ (f.list # None \/ q.obj # f.obj)
             \/ r = Cut(q)
    <3>1. CASE f.list # None
      <4>1. records' = records
        BY <2>2, <3>1
      <4> HIDE DEF Cut, f
      <4> QED BY <3>1, <4>1
    <3>2. CASE f.list = None
      <4>1. \A r \in records' : \E q \in records :
              r = IF q.obj = f.obj THEN Cut(q) ELSE q
        BY <2>2, <3>2 DEF Strip
      <4> HIDE DEF Cut, f
      <4> QED BY <2>3, <3>2, <4>1
    <3> QED BY <3>1, <3>2
  <2>e. \A e \in entries' : \E q \in entries :
          /\ e.list = q.list
          /\ \/ e = q /\ q.list # f.list
             \/ e = Cut(q)
    <3>1. CASE f.list = None
      <4>1. entries' = entries
        BY <2>2, <3>1
      <4> HIDE DEF Cut, f
      <4> QED BY <2>3, <3>1, <4>1
    <3>2. CASE f.list # None
      <4>1. \A e \in entries' : \E q \in entries :
              e = IF q.list = f.list THEN Cut(q) ELSE q
        BY <2>2, <3>2 DEF Strip
      <4> HIDE DEF Cut, f
      <4> QED BY <2>3, <4>1
    <3> QED BY <3>1, <3>2
  <2>4. ASSUME NEW o PROVE Slugs(FieldsOf(o)) \ {f.slug} \subseteq Slugs(FieldsOf(o)')
    BY <2>1 DEF Slugs, FieldsOf
  <2>5. ASSUME NEW o, f.list # None \/ o # f.obj PROVE Slugs(FieldsOf(o)) \subseteq Slugs(FieldsOf(o)')
    BY <2>1, <2>5 DEF Slugs, FieldsOf
  <2>6. ASSUME NEW l PROVE Slugs(ListFieldsOf(l)) \ {f.slug} \subseteq Slugs(ListFieldsOf(l)')
    BY <2>1 DEF Slugs, ListFieldsOf
  <2>7. ASSUME NEW l, l # f.list PROVE Slugs(ListFieldsOf(l)) \subseteq Slugs(ListFieldsOf(l)')
    BY <2>1, <2>7 DEF Slugs, ListFieldsOf
  <2> HIDE DEF Cut, f
  <2>8. \A r \in records' : r.bag \subseteq Slugs(FieldsOf(r.obj)')
    BY <2>3, <2>4, <2>5, <2>r
  <2>9. \A e \in entries' : e.bag \subseteq Slugs(ListFieldsOf(e.list)')
    BY <2>3, <2>6, <2>7, <2>e
  <2> QED BY <2>8, <2>9 DEF NoGhostValues, FieldsOf, ListFieldsOf, Slugs
<1> QED BY <1>1, <1>2

LEMMA NextGhosts == GhostsInv /\ [Next]_vars => GhostsInv'
<1> SUFFICES ASSUME GhostsInv, [Next]_vars PROVE NoGhostValues'
  BY NextNoOrphans DEF GhostsInv
<1>k. Keyed /\ TypeOK /\ NoOrphans
  BY DEF GhostsInv, NoOrphansInv, Keyed
<1>g. NoGhostValues
  BY DEF GhostsInv
<1>1. CASE /\ UNCHANGED <<records, entries>> /\ fields \subseteq fields'
  BY <1>1, GhostsOf DEF FieldsOf, ListFieldsOf
<1>2. CASE \E o \in ObjectId : DeleteObject(o)
  <2>1. PICK o \in ObjectId : DeleteObject(o)
    BY <1>2
  <2>2. \A r \in records' : FieldsOf(r.obj) \subseteq FieldsOf(r.obj)'
    BY <2>1 DEF DeleteObject, FieldsOf
  <2>3. \A e \in entries', f \in fields : f.list = e.list => f.obj # o
    <3> SUFFICES ASSUME NEW e \in entries', NEW f \in fields, f.list = e.list PROVE f.obj # o
      OBVIOUS
    <3>1. e \in entries /\ e.list \notin Ids({l \in lists : l.obj = o})
      BY <2>1 DEF DeleteObject
    <3>2. PICK l \in lists : l.id = e.list
      BY <1>k, <3>1 DEF NoOrphans
    <3>3. f.obj = l.obj
      BY <1>k, <3>2 DEF Keyed, OneObject
    <3> QED BY <3>1, <3>2, <3>3 DEF Ids
  <2>4. \A e \in entries' : ListFieldsOf(e.list) \subseteq ListFieldsOf(e.list)'
    BY <2>1, <2>3 DEF DeleteObject, ListFieldsOf
  <2> QED BY <2>1, <2>2, <2>4, GhostsOf DEF DeleteObject
<1>3. CASE \E c \in Client : DeleteField(c)
  BY <1>3, DeleteFieldGhosts
<1>4. CASE \E l \in lists : DeleteList(l)
  <2>1. PICK l \in lists : DeleteList(l)
    BY <1>4
  <2>2. l.id # None
    BY <1>k, SchemaConstants DEF SchemaConstants, TypeOK, ListRow
  <2> QED BY <2>1, <2>2, GhostsOf DEF DeleteList, FieldsOf, ListFieldsOf
<1>5. ASSUME NEW l \in lists, NEW r \in records, NEW b \in SUBSET Slugs(ListFieldsOf(l.id)),
             AddListEntry(l, r, b)
      PROVE  NoGhostValues'
  <2>1. PICK e : /\ e.list = l.id /\ e.bag = b /\ entries' = entries \cup {e}
                 /\ UNCHANGED <<fields, records>>
    BY <1>5 DEF AddListEntry
  <2> QED BY <2>1, <1>g DEF NoGhostValues, FieldsOf, ListFieldsOf
<1>6. CASE \E e \in entries : RemoveListEntry(e)
  BY <1>6, <1>g DEF RemoveListEntry, NoGhostValues, FieldsOf, ListFieldsOf
<1>7. ASSUME NEW e \in entries, NEW s \in SUBSET Slugs(ListFieldsOf(e.list)), NEW b \in SUBSET s,
             NEW m \in BOOLEAN, UpdateListEntry(e, s, b, m)
      PROVE  NoGhostValues'
  <2>1. Written(e.bag, s, b, m) \subseteq Slugs(ListFieldsOf(e.list))
    BY <1>g, WrittenCovered DEF NoGhostValues
  <2>2. PICK x : /\ x.list = e.list /\ x.bag = Written(e.bag, s, b, m)
                 /\ entries' = (entries \ {e}) \cup {x} /\ UNCHANGED <<fields, records>>
    BY <1>k, <1>7 DEF UpdateListEntry, TypeOK, EntryRow
  <2> QED BY <1>g, <2>1, <2>2 DEF NoGhostValues, FieldsOf, ListFieldsOf
<1>8. ASSUME NEW r \in RecordId, NEW o \in ObjectId, NEW b \in SUBSET Slugs(FieldsOf(o)),
             CreateRecord(r, o, b)
      PROVE  NoGhostValues'
  <2>1. PICK x : /\ x.obj = o /\ x.bag = b /\ records' = records \cup {x}
                 /\ UNCHANGED <<fields, entries>>
    BY <1>8 DEF CreateRecord
  <2> QED BY <1>g, <2>1 DEF NoGhostValues, FieldsOf, ListFieldsOf
<1>9. CASE \E r \in records : PurgeRecord(r)
  BY <1>9, <1>g DEF PurgeRecord, NoGhostValues, FieldsOf, ListFieldsOf
<1>10. ASSUME NEW r \in records, NEW s \in SUBSET Slugs(FieldsOf(r.obj)), NEW b \in SUBSET s,
              NEW m \in BOOLEAN, UpdateRecord(r, s, b, m)
       PROVE  NoGhostValues'
  <2>1. Written(r.bag, s, b, m) \subseteq Slugs(FieldsOf(r.obj))
    BY <1>g, WrittenCovered DEF NoGhostValues
  <2>2. PICK x : /\ x.obj = r.obj /\ x.bag = Written(r.bag, s, b, m)
                 /\ records' = (records \ {r}) \cup {x} /\ UNCHANGED <<fields, entries>>
    BY <1>k, <1>10 DEF UpdateRecord, TypeOK, RecordRow
  <2> QED BY <1>g, <2>1, <2>2 DEF NoGhostValues, FieldsOf, ListFieldsOf
<1>11. CASE UNCHANGED vars
  BY <1>1, <1>11 DEF vars, tables
<1>12. CASE Restart
  BY <1>1, <1>12 DEF Restart
<1>13. CASE ObjectStep
  BY <1>1, <1>2, <1>13 DEF ObjectStep, CreateObject
<1>14. CASE FieldStep
  <2>1. (\A c \in Client : ~DeleteField(c)) => UNCHANGED <<records, entries>> /\ fields \subseteq fields'
    BY <1>14 DEF FieldStep, CreateField, Insert, CheckTitle, StoreTitle, ResolveList,
                 CreateListField, RefuseListField, CheckField, tables
  <2> QED BY <1>1, <1>3, <2>1
<1>15. CASE ViewStep
  BY <1>1, <1>15 DEF ViewStep, CreateView, DeleteView, SetDefaultView, UpdateView
<1>16. CASE ListStep
  <2>1. (\E l \in ListId, o \in ObjectId : CreateList(l, o))
          => UNCHANGED <<records, entries>> /\ fields \subseteq fields'
    BY DEF CreateList
  <2> QED BY <1>1, <1>4, <1>5, <1>6, <1>7, <1>16, <2>1 DEF ListStep
<1>17. CASE RecordStep
  BY <1>8, <1>9, <1>10, <1>17 DEF RecordStep
<1> QED BY <1>11, <1>12, <1>13, <1>14, <1>15, <1>16, <1>17 DEF Next

(* No bag keeps a value whose field is gone, for every set of fields and   *)
(* slugs: a field that takes the slug again finds nothing left over.       *)
THEOREM GhostsNeverAppear == Spec => []NoGhostValues
<1>1. GhostsInv => NoGhostValues
  BY DEF GhostsInv
<1> QED BY <1>1, InitGhosts, NextGhosts, PTL DEF Spec

(***************************************************************************)
(* Default views                                                           *)
(***************************************************************************)
(* What OneDefault says of one object.                                     *)
Default(v, o) == v.obj = o /\ v.default
Fine(V, o, R) ==
  /\ \E v \in V : Default(v, o)
  /\ o \in R \/ \A v, w \in V : Default(v, o) /\ Default(w, o) => v = w

LEMMA FineIsOneDefault ==
  /\ OneDefault <=> \A o \in Ids(objects) : Fine(views, o, reseeded)
  /\ OneDefault' <=> \A o \in Ids(objects') : Fine(views', o, reseeded')
<1>1. OneDefault <=> \A o \in Ids(objects) : Fine(views, o, reseeded)
  BY DEF OneDefault, Fine, Default, DefaultsOf, ViewsOf
<1>2. OneDefault' <=> \A o \in Ids(objects') : Fine(views', o, reseeded')
  BY DEF OneDefault, Fine, Default, DefaultsOf, ViewsOf, Ids
<1> QED BY <1>1, <1>2

(* An object keeps its default while its default views are the same rows.  *)
LEMMA FineKept ==
  ASSUME NEW V, NEW W, NEW R, NEW S, NEW o, Fine(V, o, R), o \in R => o \in S,
         \A v \in V : Default(v, o) => v \in W, \A w \in W : Default(w, o) => w \in V
  PROVE  Fine(W, o, S)
  BY DEF Fine

DefaultInv == NoOrphansInv /\ OneDefault

LEMMA InitDefault == Init => DefaultInv
<1> SUFFICES ASSUME Init PROVE OneDefault
  BY InitNoOrphans DEF DefaultInv
<1>1. Ids(objects) = Standard
  <2>1. \A o \in Standard : [id |-> o, title |-> TitleOfSeed[o]].id = o
    OBVIOUS
  <2> QED BY <2>1 DEF Init, Ids
<1>2. \A o \in Standard : Fine(views, o, reseeded)
  BY SchemaConstants DEF Init, SchemaConstants, SeedsSound, Fine, Default
<1> QED BY <1>1, <1>2, FineIsOneDefault

(* A view of another object does not count.                                *)
LEMMA UndefaultOthers ==
  ASSUME TypeOK, NEW o, NEW p, p # o
  PROVE  /\ \A v \in views : Default(v, p) => v \in Undefault(o)
         /\ \A v \in Undefault(o) : Default(v, p) => v \in views
         /\ \A v \in Undefault(o) : ~Default(v, o)
<1> DEFINE Off(v) == IF v.obj = o THEN [v EXCEPT !.default = FALSE] ELSE v
<1>1. \A v \in views : Off(v).obj = v.obj /\ (v.obj = o => ~Off(v).default) /\ (v.obj # o => Off(v) = v)
  BY DEF TypeOK, ViewRow
<1>2. Undefault(o) = {Off(v) : v \in views}
  BY DEF Undefault
<1> HIDE DEF Off
<1> QED BY <1>1, <1>2 DEF Default

LEMMA CreateViewDefault ==
  ASSUME DefaultInv, TypeOK, NEW v \in ViewId, NEW o \in ObjectId, NEW d \in BOOLEAN, CreateView(v, o, d)
  PROVE  OneDefault'
<1>1. PICK x : x.obj = o /\ x.default = d /\ views' = (IF d THEN Undefault(o) ELSE views) \cup {x}
  BY DEF CreateView
<1>2. ASSUME NEW p \in Ids(objects') PROVE Fine(views', p, reseeded')
  <2>0. Fine(views, p, reseeded)
    BY FineIsOneDefault DEF DefaultInv, CreateView
  <2>1. CASE d /\ p = o
    <3>1. \A w \in Undefault(o) : ~Default(w, o)
      <4>1. PICK q : q # o
        OBVIOUS
      <4> QED BY <4>1, UndefaultOthers
    <3> QED BY <1>1, <2>1, <3>1 DEF Fine, Default
  <2>2. CASE d /\ p # o
    <3>1. /\ \A w \in views : Default(w, p) => w \in views'
          /\ \A w \in views' : Default(w, p) => w \in views
          /\ p \in reseeded => p \in reseeded'
      BY <1>1, <2>2, UndefaultOthers DEF Default, CreateView
    <3> QED BY <2>0, <3>1, FineKept
  <2>3. CASE ~d
    <3>1. /\ \A w \in views : Default(w, p) => w \in views'
          /\ \A w \in views' : Default(w, p) => w \in views
          /\ p \in reseeded => p \in reseeded'
      BY <1>1, <2>3 DEF Default, CreateView
    <3> QED BY <2>0, <3>1, FineKept
  <2> QED BY <2>1, <2>2, <2>3
<1> QED BY <1>2, FineIsOneDefault

LEMMA DeleteViewDefault ==
  ASSUME DefaultInv, TypeOK, NEW v \in views, DeleteView(v)
  PROVE  OneDefault'
<1>1. \/ ~v.default /\ views' = views \ {v}
      \/ \E w \in views : /\ v.default /\ w.obj = v.obj /\ w # v
                          /\ views' = (views \ {v, w}) \cup {[w EXCEPT !.default = TRUE]}
  BY DEF DeleteView, ViewsOf
<1>2. CASE ~v.default /\ views' = views \ {v}
  <2>1. \A o \in Ids(objects) : Fine(views', o, reseeded)
    BY <1>2, FineIsOneDefault, FineKept DEF DefaultInv, Default
  <2> QED BY <2>1, FineIsOneDefault DEF DeleteView
<1>3. ASSUME NEW w \in views, v.default, w.obj = v.obj, w # v,
             views' = (views \ {v, w}) \cup {[w EXCEPT !.default = TRUE]}
      PROVE  OneDefault'
  <2>1. PICK x : x.obj = v.obj /\ x.default /\ views' = (views \ {v, w}) \cup {x}
    BY <1>3 DEF TypeOK, ViewRow
  <2>2. ASSUME NEW o \in Ids(objects) PROVE Fine(views', o, reseeded)
    <3>0. Fine(views, o, reseeded)
      BY FineIsOneDefault DEF DefaultInv
    <3>1. CASE o = v.obj
      BY <1>3, <2>1, <3>0, <3>1 DEF Fine, Default
    <3>2. CASE o # v.obj
      BY <1>3, <2>1, <3>0, <3>2, FineKept DEF Default
    <3> QED BY <3>1, <3>2
  <2> QED BY <2>2, FineIsOneDefault DEF DeleteView
<1> QED BY <1>1, <1>2, <1>3

LEMMA SetDefaultViewDefault ==
  ASSUME DefaultInv, Keyed, TypeOK, NEW v \in views, SetDefaultView(v)
  PROVE  OneDefault'
<1> DEFINE On(x) == IF x.id = v.id THEN [x EXCEPT !.default = TRUE] ELSE x
           Off(x) == IF x.obj = v.obj THEN [x EXCEPT !.default = FALSE] ELSE x
<1>1. \A x \in views : /\ Off(x).obj = x.obj /\ Off(x).id = x.id /\ Off(x) \in ViewRow
                       /\ x.obj = v.obj => ~Off(x).default
                       /\ x.obj # v.obj => Off(x) = x
  BY DEF TypeOK, ViewRow
<1>2. \A x \in ViewRow : /\ On(x).obj = x.obj
                         /\ x.id = v.id => On(x).default
                         /\ x.id # v.id => On(x) = x
  BY DEF ViewRow
<1>3. views' = {On(x) : x \in {Off(y) : y \in views}}
  BY DEF SetDefaultView, Undefault
<1>4. \A x \in views : x.id = v.id => x = v
  BY DEF Keyed, UniqueIds
<1> HIDE DEF On, Off
<1>5. \A x \in views' : \E y \in views :
        x.obj = y.obj /\ x = On(Off(y)) /\ (y # v => x = Off(y)) /\ (y.obj # v.obj => x = y)
  BY <1>1, <1>2, <1>3, <1>4
<1>6. \A y \in views : On(Off(y)) \in views' /\ (y.obj # v.obj => On(Off(y)) = y)
  BY <1>1, <1>2, <1>3, <1>4
<1>7. ASSUME NEW o \in Ids(objects) PROVE Fine(views', o, reseeded')
  <2>0. Fine(views, o, reseeded)
    BY FineIsOneDefault DEF DefaultInv
  <2>1. CASE o = v.obj
    <3>1. On(Off(v)) \in views' /\ Default(On(Off(v)), o)
      BY <1>1, <1>2, <1>6, <2>1 DEF Default
    <3>2. \A x \in views' : Default(x, o) => x = On(Off(v))
      BY <1>1, <1>5, <2>1 DEF Default
    <3> QED BY <3>1, <3>2 DEF Fine
  <2>2. CASE o # v.obj
    <3>1. /\ \A w \in views : Default(w, o) => w \in views'
          /\ \A w \in views' : Default(w, o) => w \in views
          /\ o \in reseeded => o \in reseeded'
      BY <1>5, <1>6, <2>2 DEF Default, SetDefaultView
    <3> QED BY <2>0, <3>1, FineKept
  <2> QED BY <2>1, <2>2
<1> QED BY <1>7, FineIsOneDefault DEF SetDefaultView

LEMMA NextDefault == DefaultInv /\ [Next]_vars => DefaultInv'
<1> SUFFICES ASSUME DefaultInv, [Next]_vars PROVE OneDefault'
  BY NextNoOrphans DEF DefaultInv
<1>k. Keyed /\ TypeOK /\ NoOrphans
  BY DEF DefaultInv, NoOrphansInv, Keyed
<1>d. \A o \in Ids(objects) : Fine(views, o, reseeded)
  BY FineIsOneDefault DEF DefaultInv
<1>0. CASE UNCHANGED <<views, reseeded>> /\ Ids(objects') = Ids(objects)
  BY <1>0, <1>d, FineIsOneDefault
<1>1. CASE UNCHANGED vars
  BY <1>0, <1>1 DEF vars, tables
<1>2. CASE Restart
  <2>1. \A w \in views' : w \in views \/ (w.default => w.obj \in reseeded')
    BY <1>2 DEF Restart
  <2>2. views \subseteq views' /\ reseeded \subseteq reseeded' /\ objects' = objects
    BY <1>2 DEF Restart
  <2>3. \A o \in Ids(objects) : Fine(views', o, reseeded')
    BY <1>d, <2>1, <2>2 DEF Fine, Default
  <2> QED BY <2>2, <2>3, FineIsOneDefault
<1>3. CASE ObjectStep
  <2>1. ASSUME NEW o \in ObjectId, NEW f \in FieldId, NEW v \in ViewId, CreateObject(o, f, v)
        PROVE  OneDefault'
    <3>1. PICK x : x.obj = o /\ x.default /\ views' = views \cup {x}
      BY <2>1 DEF CreateObject
    <3>2. \A w \in views : w.obj # o
      BY <1>k, <2>1 DEF CreateObject, Keyed, Spent, NoOrphans, Live
    <3>3. \A p \in Ids(objects') : p = o \/ p \in Ids(objects)
      BY <2>1 DEF CreateObject, Ids
    <3>4. Fine(views', o, reseeded')
      BY <3>1, <3>2 DEF Fine, Default
    <3>5. \A p \in Ids(objects) : p # o => Fine(views', p, reseeded')
      BY <1>d, <2>1, <3>1, FineKept DEF Default, CreateObject
    <3> QED BY <3>3, <3>4, <3>5, FineIsOneDefault
  <2>2. ASSUME NEW o \in ObjectId, DeleteObject(o) PROVE OneDefault'
    <3>1. \A p \in Ids(objects') : p \in Ids(objects) /\ p # o
      BY <2>2 DEF DeleteObject, Ids
    <3>2. \A p \in Ids(objects) : p # o => Fine(views', p, reseeded')
      BY <1>d, <2>2, FineKept DEF Default, DeleteObject
    <3> QED BY <3>1, <3>2, FineIsOneDefault
  <2> QED BY <1>3, <2>1, <2>2 DEF ObjectStep
<1>4. CASE FieldStep
  <2>1. ASSUME NEW c \in Client, StoreTitle(c) PROVE Ids(objects') = Ids(objects)
    <3> DEFINE Put(x) == IF x.id = call[c].obj THEN [x EXCEPT !.title = call[c].title] ELSE x
    <3>1. \A x \in objects : Put(x).id = x.id
      BY <1>k DEF TypeOK, ObjectRow
    <3>2. objects' = {Put(x) : x \in objects}
      BY <2>1 DEF StoreTitle
    <3> HIDE DEF Put
    <3> QED BY <3>1, <3>2 DEF Ids
  <2>2. UNCHANGED <<views, reseeded>>
    BY <1>4 DEF FieldStep, CreateField, Insert, CheckTitle, StoreTitle, ResolveList,
                CreateListField, RefuseListField, CheckField, DeleteField, tables
  <2>3. (\A c \in Client : ~StoreTitle(c)) => objects' = objects
    BY <1>4 DEF FieldStep, CreateField, Insert, CheckTitle, ResolveList,
                CreateListField, RefuseListField, CheckField, DeleteField, tables
  <2> QED BY <1>0, <2>1, <2>2, <2>3
<1>5. CASE ViewStep
  <2>1. ASSUME NEW v \in views, NEW p \in Position, UpdateView(v, p) PROVE OneDefault'
    <3>1. PICK x : x.obj = v.obj /\ x.default = v.default /\ views' = (views \ {v}) \cup {x}
      BY <1>k, <2>1 DEF UpdateView, TypeOK, ViewRow
    <3>2. ASSUME NEW o \in Ids(objects) PROVE Fine(views', o, reseeded)
      <4>0. Fine(views, o, reseeded)
        BY <1>d
      <4>1. CASE Default(v, o)
        BY <3>1, <4>0, <4>1 DEF Fine, Default
      <4>2. CASE ~Default(v, o)
        BY <3>1, <4>0, <4>2, FineKept DEF Default
      <4> QED BY <4>1, <4>2
    <3> QED BY <2>1, <3>2, FineIsOneDefault DEF UpdateView
  <2> QED BY <1>5, <1>k, <2>1, CreateViewDefault, DeleteViewDefault, SetDefaultViewDefault DEF ViewStep
<1>6. CASE ListStep
  BY <1>0, <1>6 DEF ListStep, CreateList, DeleteList, AddListEntry, RemoveListEntry, UpdateListEntry
<1>7. CASE RecordStep
  BY <1>0, <1>7 DEF RecordStep, CreateRecord, PurgeRecord, UpdateRecord
<1> QED BY <1>1, <1>2, <1>3, <1>4, <1>5, <1>6, <1>7 DEF Next

(* Every object has one default view until a start puts a deleted one      *)
(* back, for every set of objects, views and seeds.                        *)
THEOREM DefaultsAreUnique == Spec => []OneDefault
<1>1. DefaultInv => OneDefault
  BY DEF DefaultInv
<1> QED BY <1>1, InitDefault, NextDefault, PTL DEF Spec

(***************************************************************************)
(* Title fields                                                            *)
(***************************************************************************)
TitlesSound == \A row \in objects : row.title = Raw \/ row.title \in Ids(FieldsOf(row.id))

(* Until two handlers raced for a title: what patch_object checked is      *)
(* still a field of its object, and what delete_field checked is still     *)
(* nobody's title.                                                         *)
NoRace == \A o \in ObjectId : ~TitleRace(call, o)
PatchStands ==
  \A c \in Client : call[c].op = "patch_object" /\ Live(call[c].obj) =>
    call[c].title = Raw \/ call[c].title \in Ids(FieldsOf(call[c].obj))
DeleteStands ==
  \A c \in Client : call[c].op = "delete_field" =>
    \A row \in objects : row.id = call[c].field.obj => row.title # call[c].field.id
ChecksStand == NoRace /\ PatchStands /\ DeleteStands

TitleInv == Keyed /\ ("title" \in raced \/ (TitlesSound /\ ChecksStand))

LEMMA InitTitle == Init => TitleInv
<1> SUFFICES ASSUME Init PROVE TitlesSound /\ ChecksStand
  BY InitKeyed DEF TitleInv
<1>1. TitlesSound
  BY SchemaConstants DEF SchemaConstants, SeedsSound, Init, TitlesSound, Ids, FieldsOf
<1>2. ChecksStand
  BY DEF Init, ChecksStand, NoRace, PatchStands, DeleteStands, TitleRace, Idle
<1> QED BY <1>1, <1>2

(* Nothing is lost when no title, no call and no object's field is.        *)
LEMMA TitleKept ==
  ASSUME TitlesSound, ChecksStand, objects' = objects,
         \A o \in ObjectId : Ids(FieldsOf(o)) \subseteq Ids(FieldsOf(o)'), TypeOK,
         \A c \in Client : \/ call'[c] = call[c]
                           \/ call'[c].op \notin {"patch_object", "delete_field"}
  PROVE  TitlesSound' /\ ChecksStand'
<1>1. TitlesSound'
  BY DEF TitlesSound, TypeOK, ObjectRow, Ids, FieldsOf
<1>2. NoRace'
  BY DEF ChecksStand, NoRace, TitleRace
<1>3. PatchStands'
  <2> SUFFICES ASSUME NEW c \in Client, (call[c].op = "patch_object" /\ Live(call[c].obj))'
               PROVE  (call[c].title = Raw \/ call[c].title \in Ids(FieldsOf(call[c].obj)))'
    BY DEF PatchStands
  <2>1. call'[c] = call[c] /\ Live(call[c].obj) /\ call[c].obj \in ObjectId
    BY DEF Live, Ids, TypeOK, Call, Idle
  <2> QED BY <2>1 DEF ChecksStand, PatchStands, FieldsOf, Ids
<1>4. DeleteStands'
  BY DEF ChecksStand, DeleteStands
<1> QED BY <1>1, <1>2, <1>3, <1>4 DEF ChecksStand

LEMMA FieldsGrow ==
  ASSUME fields \subseteq fields' PROVE \A o : Ids(FieldsOf(o)) \subseteq Ids(FieldsOf(o)')
  BY DEF Ids, FieldsOf

LEMMA CheckTitleStands ==
  ASSUME Keyed, TypeOK, TitlesSound, ChecksStand, NEW c \in Client, NEW o \in ObjectId,
         NEW t \in FieldId \cup {Raw}, CheckTitle(c, o, t)
  PROVE  "title" \in raced' \/ (TitlesSound' /\ ChecksStand')
<1>1. CASE TitleRace(call', o)
  BY <1>1 DEF CheckTitle, NoteRace
<1>2. CASE ~TitleRace(call', o)
  <2>1. /\ objects' = objects /\ fields' = fields
        /\ call' = [call EXCEPT ![c] = [op |-> "patch_object", obj |-> o, title |-> t]]
        /\ t = Raw \/ t \in Ids(FieldsOf(o))
    BY DEF CheckTitle, tables
  <2>2. TitlesSound'
    BY <2>1 DEF TitlesSound, Ids, FieldsOf
  <2>3. NoRace'
    BY <1>2, <2>1 DEF ChecksStand, NoRace, TitleRace, TypeOK
  <2>4. \A d \in Client : \/ d # c /\ call'[d] = call[d]
                          \/ /\ d = c /\ call'[d].op = "patch_object"
                             /\ call'[d].obj = o /\ call'[d].title = t
    BY <2>1 DEF TypeOK
  <2>5. PatchStands'
    BY <2>1, <2>4 DEF ChecksStand, PatchStands, FieldsOf, Live, Ids
  <2>6. DeleteStands'
    BY <2>1, <2>4 DEF ChecksStand, DeleteStands
  <2> QED BY <2>1, <2>2, <2>3, <2>5, <2>6 DEF ChecksStand
<1> QED BY <1>1, <1>2

LEMMA CheckFieldStands ==
  ASSUME Keyed, TypeOK, TitlesSound, ChecksStand, NEW c \in Client, NEW f \in fields, CheckField(c, f)
  PROVE  "title" \in raced' \/ (TitlesSound' /\ ChecksStand')
<1>1. CASE TitleRace(call', f.obj)
  BY <1>1 DEF CheckField, NoteRace
<1>2. CASE ~TitleRace(call', f.obj)
  <2>1. /\ objects' = objects /\ fields' = fields
        /\ call' = [call EXCEPT ![c] = [op |-> "delete_field", field |-> f]]
    BY DEF CheckField, tables
  <2>2. TitlesSound'
    BY <2>1 DEF TitlesSound, Ids, FieldsOf
  <2>3. NoRace'
    BY <1>2, <2>1 DEF ChecksStand, NoRace, TitleRace, TypeOK
  <2>4. \A d \in Client : \/ d # c /\ call'[d] = call[d]
                          \/ d = c /\ call'[d].op = "delete_field" /\ call'[d].field = f
    BY <2>1 DEF TypeOK
  <2>5. \A row \in objects : row.id = f.obj => row.title # f.id
    <3> SUFFICES ASSUME NEW row \in objects, row.id = f.obj PROVE row.title # f.id
      OBVIOUS
    <3>1. Live(f.obj)
      BY DEF Live, Ids
    <3>2. row = CHOOSE r \in objects : r.id = f.obj
      BY DEF Keyed, UniqueIds
    <3> QED BY <3>1, <3>2 DEF CheckField, TitleOf
  <2>6. PatchStands'
    BY <2>1, <2>4 DEF ChecksStand, PatchStands, FieldsOf, Live, Ids
  <2>7. DeleteStands'
    BY <2>1, <2>4, <2>5 DEF ChecksStand, DeleteStands
  <2> QED BY <2>1, <2>2, <2>3, <2>6, <2>7 DEF ChecksStand
<1> QED BY <1>1, <1>2

LEMMA StoreTitleStands ==
  ASSUME Keyed, TypeOK, TitlesSound, ChecksStand, NEW c \in Client, StoreTitle(c)
  PROVE  TitlesSound' /\ ChecksStand'
<1> DEFINE o == call[c].obj
           t == call[c].title
           Put(x) == IF x.id = o THEN [x EXCEPT !.title = t] ELSE x
<1>0. o \in ObjectId /\ call[c].op = "patch_object"
  BY DEF StoreTitle, TypeOK, Call, Idle
<1>1. \A x \in objects : Put(x).id = x.id /\ Put(x).title = IF x.id = o THEN t ELSE x.title
  BY DEF TypeOK, ObjectRow
<1>2. objects' = {Put(x) : x \in objects} /\ fields' = fields
  BY DEF StoreTitle
<1>3. \A d \in Client : \/ d # c /\ call'[d] = call[d]
                        \/ d = c /\ call'[d].op = "idle"
  BY DEF StoreTitle, TypeOK, Idle
<1>4. Live(o) => t = Raw \/ t \in Ids(FieldsOf(o))
  BY <1>0 DEF ChecksStand, PatchStands
<1>5. \A d \in Client : call[d].op = "delete_field" => call[d].field.obj # o
  BY <1>0 DEF ChecksStand, NoRace, TitleRace
<1> HIDE DEF Put, o, t
<1>6. \A x \in objects' : \E y \in objects :
        x.id = y.id /\ x.title = IF y.id = o THEN t ELSE y.title
  BY <1>1, <1>2
<1>7. \A x \in objects' : x.title = Raw \/ x.title \in Ids(FieldsOf(x.id))
  BY <1>4, <1>6 DEF TitlesSound, Live, Ids
<1>8. NoRace'
  BY <1>3 DEF ChecksStand, NoRace, TitleRace
<1>9. PatchStands'
  <2>1. Ids(objects') = Ids(objects) /\ fields' = fields
    BY <1>1, <1>2 DEF Ids
  <2> QED BY <1>3, <2>1 DEF ChecksStand, PatchStands, FieldsOf, Live, Ids
<1>10. DeleteStands'
  BY <1>3, <1>5, <1>6 DEF ChecksStand, DeleteStands
<1> QED BY <1>2, <1>7, <1>8, <1>9, <1>10 DEF TitlesSound, ChecksStand, FieldsOf, Ids

LEMMA DeleteFieldStands ==
  ASSUME Keyed, TypeOK, TitlesSound, ChecksStand, NEW c \in Client, DeleteField(c)
  PROVE  TitlesSound' /\ ChecksStand'
<1> DEFINE f == call[c].field
<1>0. f \in FieldRow /\ call[c].op = "delete_field" /\ (\A g \in fields : g.id = f.id => g = f)
  BY DEF DeleteField, TypeOK, Call, Idle, Keyed, OneObject
<1>1. /\ objects' = objects
      /\ \A g \in fields : g.id # f.id => g \in fields'
  BY DEF DeleteField, tables, Ids
<1>2. \A d \in Client : \/ d # c /\ call'[d] = call[d]
                        \/ d = c /\ call'[d].op = "idle"
  BY DEF DeleteField, TypeOK, Idle
<1>3. \A row \in objects : row.id = f.obj => row.title # f.id
  BY <1>0 DEF ChecksStand, DeleteStands
<1>4. \A d \in Client : call[d].op = "patch_object" => call[d].obj # f.obj
  BY <1>0 DEF ChecksStand, NoRace, TitleRace, FieldRow
<1> HIDE DEF f
<1>5. \A o, i : i \in Ids(FieldsOf(o)) /\ (o # f.obj \/ i # f.id) => i \in Ids(FieldsOf(o)')
  BY <1>0, <1>1 DEF Ids, FieldsOf
<1>6. TitlesSound'
  <2>1. \A row \in objects : row.title = Raw \/ row.title \in Ids(FieldsOf(row.id)')
    BY <1>3, <1>5 DEF TitlesSound
  <2> QED BY <1>1, <2>1 DEF TitlesSound, Ids, FieldsOf
<1>7. NoRace'
  BY <1>2 DEF ChecksStand, NoRace, TitleRace
<1>8. PatchStands'
  <2> SUFFICES ASSUME NEW d \in Client, (call[d].op = "patch_object" /\ Live(call[d].obj))'
               PROVE  (call[d].title = Raw \/ call[d].title \in Ids(FieldsOf(call[d].obj)))'
    BY DEF PatchStands
  <2>1. call'[d] = call[d] /\ Live(call[d].obj) /\ call[d].op = "patch_object"
    BY <1>1, <1>2 DEF Live, Ids
  <2>2. call[d].title = Raw \/ call[d].title \in Ids(FieldsOf(call[d].obj))
    BY <2>1 DEF ChecksStand, PatchStands
  <2> QED BY <1>4, <1>5, <2>1, <2>2 DEF FieldsOf, Ids
<1>9. DeleteStands'
  BY <1>1, <1>2 DEF ChecksStand, DeleteStands
<1> QED BY <1>6, <1>7, <1>8, <1>9 DEF ChecksStand

LEMMA ObjectStepStands ==
  ASSUME Keyed, TypeOK, TitlesSound, ChecksStand, ObjectStep
  PROVE  TitlesSound' /\ ChecksStand'
<1>1. ASSUME NEW o \in ObjectId, NEW f \in FieldId, NEW v \in ViewId, CreateObject(o, f, v)
      PROVE  TitlesSound' /\ ChecksStand'
  <2>1. PICK x : x.id = o /\ x.title = f /\ objects' = objects \cup {x}
    BY <1>1 DEF CreateObject
  <2>2. PICK g : g.id = f /\ g.obj = o /\ g.list = None /\ fields' = fields \cup {g}
    BY <1>1 DEF CreateObject
  <2>3. call' = call /\ o \notin spent /\ f \notin spent
    BY <1>1 DEF CreateObject
  <2>4. TitlesSound'
    BY <2>1, <2>2 DEF TitlesSound, Ids, FieldsOf
  <2>5. NoRace'
    BY <2>3 DEF ChecksStand, NoRace, TitleRace
  <2>6. PatchStands'
    BY <2>1, <2>2, <2>3 DEF ChecksStand, PatchStands, Keyed, CallsSpent, Live, Ids, FieldsOf
  <2>7. DeleteStands'
    BY <2>1, <2>3 DEF ChecksStand, DeleteStands, Keyed, CallsSpent
  <2> QED BY <2>4, <2>5, <2>6, <2>7 DEF ChecksStand
<1>2. ASSUME NEW o \in ObjectId, DeleteObject(o) PROVE TitlesSound' /\ ChecksStand'
  <2>1. /\ objects' = {row \in objects : row.id # o} /\ call' = call
        /\ fields' = {f \in fields : f.obj # o}
    BY <1>2 DEF DeleteObject
  <2>2. TitlesSound'
    BY <2>1 DEF TitlesSound, Ids, FieldsOf
  <2>3. NoRace'
    BY <2>1 DEF ChecksStand, NoRace, TitleRace
  <2>4. PatchStands'
    BY <2>1 DEF ChecksStand, PatchStands, Live, Ids, FieldsOf
  <2>5. DeleteStands'
    BY <2>1 DEF ChecksStand, DeleteStands
  <2> QED BY <2>2, <2>3, <2>4, <2>5 DEF ChecksStand
<1> QED BY <1>1, <1>2 DEF ObjectStep

LEMMA NextTitle == TitleInv /\ [Next]_vars => TitleInv'
<1> SUFFICES ASSUME TitleInv, [Next]_vars
             PROVE  "title" \in raced' \/ (TitlesSound' /\ ChecksStand')
  BY NextKeyed DEF TitleInv
<1>k. Keyed /\ TypeOK
  BY DEF TitleInv, Keyed
<1>1. CASE "title" \in raced
  <2>1. raced \subseteq raced'
    BY DEF Next, vars, Restart, ObjectStep, CreateObject, DeleteObject, FieldStep, CreateField,
           Insert, CheckTitle, NoteRace, StoreTitle, ResolveList, CreateListField,
           RefuseListField, CheckField, DeleteField, ViewStep, CreateView, DeleteView,
           SetDefaultView, UpdateView, ListStep, CreateList, DeleteList, AddListEntry,
           RemoveListEntry, UpdateListEntry, RecordStep, CreateRecord, PurgeRecord, UpdateRecord
  <2> QED BY <1>1, <2>1
<1>2. CASE TitlesSound /\ ChecksStand
  <2>1. CASE UNCHANGED <<objects, fields, call>>
    BY <1>2, <1>k, <2>1, TitleKept, FieldsGrow
  <2>2. CASE Restart
    <3>1. fields \subseteq fields' /\ objects' = objects /\ \A c \in Client : call'[c].op = "idle"
      BY <2>2 DEF Restart, Idle
    <3> QED BY <1>2, <1>k, <3>1, TitleKept, FieldsGrow
  <2>3. CASE FieldStep
    <3>1. ASSUME NEW f \in FieldId, NEW o \in ObjectId, NEW s \in Slug, CreateField(f, o, s)
          PROVE  TitlesSound' /\ ChecksStand'
      <4>1. fields \subseteq fields' /\ objects' = objects /\ call' = call
        BY <3>1 DEF CreateField, Insert
      <4> QED BY <1>2, <1>k, <4>1, TitleKept, FieldsGrow
    <3>2. ASSUME NEW c \in Client, NEW l \in ListId, NEW s \in Slug, ResolveList(c, l, s)
          PROVE  TitlesSound' /\ ChecksStand'
      <4>1. /\ fields' = fields /\ objects' = objects
            /\ \A d \in Client : call'[d] = call[d] \/ call'[d].op = "create_list_field"
        BY <1>k, <3>2 DEF ResolveList, tables, TypeOK
      <4> QED BY <1>2, <1>k, <4>1, TitleKept, FieldsGrow
    <3>3. ASSUME NEW c \in Client, NEW f \in FieldId, CreateListField(c, f)
          PROVE  TitlesSound' /\ ChecksStand'
      <4>1. /\ fields \subseteq fields' /\ objects' = objects
            /\ \A d \in Client : call'[d] = call[d] \/ call'[d].op = "idle"
        BY <1>k, <3>3 DEF CreateListField, Insert, TypeOK, Idle
      <4> QED BY <1>2, <1>k, <4>1, TitleKept, FieldsGrow
    <3>4. ASSUME NEW c \in Client, RefuseListField(c) PROVE TitlesSound' /\ ChecksStand'
      <4>1. /\ fields' = fields /\ objects' = objects
            /\ \A d \in Client : call'[d] = call[d] \/ call'[d].op = "idle"
        BY <1>k, <3>4 DEF RefuseListField, tables, TypeOK, Idle
      <4> QED BY <1>2, <1>k, <4>1, TitleKept, FieldsGrow
    <3> QED BY <1>2, <1>k, <2>3, <3>1, <3>2, <3>3, <3>4, CheckTitleStands, StoreTitleStands,
               CheckFieldStands, DeleteFieldStands DEF FieldStep
  <2>4. CASE ListStep
    <3>1. ASSUME NEW l \in lists, DeleteList(l) PROVE TitlesSound' /\ ChecksStand'
      <4>1. l.id # None
        BY <1>k, SchemaConstants DEF SchemaConstants, TypeOK, ListRow
      <4>2. /\ \A o : Ids(FieldsOf(o)) \subseteq Ids(FieldsOf(o)')
            /\ objects' = objects /\ call' = call
        BY <3>1, <4>1 DEF DeleteList, Ids, FieldsOf
      <4> QED BY <1>2, <1>k, <4>2, TitleKept
    <3>2. (\A l \in lists : ~DeleteList(l)) => UNCHANGED <<objects, fields, call>>
      BY <2>4 DEF ListStep, CreateList, AddListEntry, RemoveListEntry, UpdateListEntry
    <3> QED BY <2>1, <3>1, <3>2
  <2>5. CASE ViewStep
    BY <2>1, <2>5 DEF ViewStep, CreateView, DeleteView, SetDefaultView, UpdateView
  <2>6. CASE RecordStep
    BY <2>1, <2>6 DEF RecordStep, CreateRecord, PurgeRecord, UpdateRecord
  <2>7. CASE UNCHANGED vars
    BY <2>1, <2>7 DEF vars, tables
  <2> QED BY <1>2, <1>k, <2>2, <2>3, <2>4, <2>5, <2>6, <2>7, ObjectStepStands DEF Next
<1> QED BY <1>1, <1>2 DEF TitleInv

(* An object's title is one of its fields until a client picks a title     *)
(* while another deletes a field, for every number of clients.             *)
THEOREM TitlesAreFields == Spec => []TitleIsAField
<1>1. TitleInv => TitleIsAField
  BY DEF TitleInv, TitlesSound, TitleIsAField
<1> QED BY <1>1, InitTitle, NextTitle, PTL DEF Spec

(***************************************************************************)
(* Pipeline: the funnel                                                    *)
(***************************************************************************)
Move == [of : Deal, at : 1..MaxMoves, from : Stage, to : Stage]
RecordState == [state : {"absent", "live", "deleted"}, stage : Stage, amount : Amount \cup {Null}]
BoardTypeOK ==
  /\ rec \in [Deal -> RecordState] /\ options \subseteq Option
  /\ moves \subseteq Move /\ adrift \subseteq Deal

(* A move of the record's own led to where it is.                          *)
OwnMoveStands(r) ==
  MovesOf(r, moves) # {} /\ r \notin adrift
    => \E m \in MovesOf(r, moves) : m.to = rec[r].stage
NoMovesYet(r) == rec[r].state = "absent" => MovesOf(r, moves) = {}

FunnelInv == /\ BoardTypeOK
             /\ \A r \in Deal : OwnMoveStands(r) /\ NoMovesYet(r)

(* A stage that changed alone is logged; with an earlier field it is not.  *)
LEMMA LoggedAlone ==
  ASSUME NEW changed \in SUBSET {"amount", "stage"}
  PROVE  IsMove(changed) <=> changed = {"stage"}
<1>1. changed \in {{}, {"amount"}, {"stage"}, {"amount", "stage"}}
  OBVIOUS
<1>2. DOMAIN FieldOrder = {"amount", "stage"} /\ FieldOrder["amount"] = 1 /\ FieldOrder["stage"] = 2
  BY DEF FieldOrder
<1>3. FirstOf({"stage"}) = "stage"
  BY <1>2 DEF FirstOf
<1>4. ASSUME "amount" \in changed PROVE FirstOf(changed) = "amount"
  <2>1. \A j \in changed : FieldOrder["amount"] <= FieldOrder[j]
    BY <1>1, <1>2
  <2>2. \A k \in changed : (\A j \in changed : FieldOrder[k] <= FieldOrder[j]) => k = "amount"
    BY <1>1, <1>2, <1>4
  <2> QED BY <1>4, <2>1, <2>2 DEF FirstOf
<1>5. CASE changed = {"stage"}
  BY <1>3, <1>5 DEF IsMove
<1>6. CASE "amount" \in changed
  BY <1>4, <1>6 DEF IsMove
<1>7. CASE changed = {}
  BY <1>7 DEF IsMove
<1> QED BY <1>1, <1>5, <1>6, <1>7

(* write_record_values, after a step that moved entries to r alone: a move *)
(* it logs leads r to where it is, and one it does not log sets r adrift,  *)
(* as does an inheritance.                                                 *)
LEMMA WriteKeepsFunnel ==
  ASSUME FunnelInv, NEW r \in Deal, NEW s \in Stage, NEW a \in Amount \cup {Null},
         NEW table \in [Deal -> RecordState], NEW log \in SUBSET Move,
         table[r] = rec[r], rec[r].state # "absent",
         MovesOf(r, moves) \subseteq log,
         \A x \in Deal \ {r} :
           \/ MovesOf(x, log) = {}
           \/ MovesOf(x, log) = MovesOf(x, moves) /\ table[x] = rec[x],
         Write(r, s, a, table, log)
  PROVE  FunnelInv'
<1> DEFINE new == [table[r] EXCEPT !.stage = s, !.amount = a]
           changed == Changes(table[r], new)
           move == [of |-> r, at |-> LaterThan(log), from |-> table[r].stage, to |-> s]
           inherits == MovesOf(r, moves) = {} /\ MovesOf(r, log) # {}
<1>1. rec \in [Deal -> RecordState] /\ adrift \subseteq Deal /\ options \subseteq Option
  BY DEF FunnelInv, BoardTypeOK
<1>2. /\ new \in RecordState /\ new.stage = s /\ new.state = rec[r].state
      /\ new["stage"] = s /\ table[r]["stage"] = rec[r].stage
  BY <1>1 DEF RecordState
<1>3. /\ changed \in SUBSET {"amount", "stage"}
      /\ "stage" \in changed <=> rec[r].stage # s
  BY <1>2 DEF Changes, FieldOrder
<1>4. /\ IsMove(changed) => \A m \in log : m.at < MaxMoves
      /\ rec' = [table EXCEPT ![r] = new] /\ options' = options
      /\ moves' = IF IsMove(changed) THEN log \cup {move} ELSE log
      /\ adrift' = CASE IsMove(changed) -> adrift \ {r}
                     [] ~IsMove(changed) /\ ("stage" \in changed \/ inherits) -> adrift \cup {r}
                     [] OTHER -> adrift
  BY DEF Write
<1>5. IsMove(changed) => move \in Move /\ move.of = r /\ move.to = s
  <2> SUFFICES ASSUME IsMove(changed) PROVE move \in Move /\ move.of = r /\ move.to = s
    OBVIOUS
  <2>1. MaxMoves \in 1..MaxMoves /\ \A m \in log : m.at < MaxMoves
    BY <1>4, PipelineConstants
  <2>2. LaterThan(log) \in 1..MaxMoves
    BY <2>1 DEF LaterThan
  <2>3. table[r].stage \in Stage
    BY DEF RecordState
  <2> QED BY <2>2, <2>3 DEF Move
<1> HIDE DEF new, changed, move, inherits
<1>6. /\ rec' \in [Deal -> RecordState] /\ rec'[r] = new
      /\ \A x \in Deal : x # r => rec'[x] = table[x]
  BY <1>2, <1>4
<1>7. IsMove(changed) => "stage" \in changed
  BY <1>3, LoggedAlone
<1>8. /\ moves' \subseteq Move /\ adrift' \subseteq Deal
      /\ \A x \in Deal : x # r => MovesOf(x, moves)' = MovesOf(x, log)
      /\ \A x \in Deal : x # r => (x \in adrift' <=> x \in adrift)
      /\ MovesOf(r, log) \subseteq MovesOf(r, moves)'
  <2>1. \A x \in Deal : x # r /\ IsMove(changed) => move.of # x
    BY <1>5
  <2>2. moves' = log \/ (IsMove(changed) /\ moves' = log \cup {move})
    BY <1>4
  <2>3. adrift' \in {adrift \ {r}, adrift \cup {r}, adrift}
    BY <1>4
  <2> QED BY <1>1, <1>5, <2>1, <2>2, <2>3 DEF MovesOf
<1>9. \A x \in Deal : x # r => OwnMoveStands(x)' /\ NoMovesYet(x)'
  <2> SUFFICES ASSUME NEW x \in Deal, x # r PROVE OwnMoveStands(x)' /\ NoMovesYet(x)'
    OBVIOUS
  <2>1. CASE MovesOf(x, log) = {}
    BY <1>8, <2>1 DEF OwnMoveStands, NoMovesYet
  <2>2. CASE MovesOf(x, log) = MovesOf(x, moves) /\ table[x] = rec[x]
    <3>1. OwnMoveStands(x) /\ NoMovesYet(x)
      BY DEF FunnelInv
    <3> QED BY <1>6, <1>8, <2>2, <3>1 DEF OwnMoveStands, NoMovesYet
  <2> QED BY <2>1, <2>2
<1>10. NoMovesYet(r)'
  BY <1>2, <1>6 DEF NoMovesYet
<1>11. OwnMoveStands(r)'
  <2>1. CASE IsMove(changed)
    <3>1. move \in MovesOf(r, moves)' /\ move.to = rec'[r].stage
      BY <1>2, <1>4, <1>5, <1>6, <2>1 DEF MovesOf
    <3> QED BY <3>1 DEF OwnMoveStands
  <2>2. CASE ~IsMove(changed) /\ ("stage" \in changed \/ inherits)
    <3>1. r \in adrift'
      BY <1>4, <2>2
    <3> QED BY <3>1 DEF OwnMoveStands
  <2>3. CASE ~IsMove(changed) /\ "stage" \notin changed /\ ~inherits
    <3>1. adrift' = adrift /\ moves' = log /\ rec'[r].stage = rec[r].stage
      BY <1>2, <1>3, <1>4, <1>6, <2>3
    <3>2. SUFFICES ASSUME MovesOf(r, log) # {}, r \notin adrift
                   PROVE  \E m \in MovesOf(r, log) : m.to = rec[r].stage
      BY <3>1 DEF OwnMoveStands, MovesOf
    <3>3. MovesOf(r, moves) # {}
      BY <2>3, <3>2 DEF inherits
    <3>4. \E m \in MovesOf(r, moves) : m.to = rec[r].stage
      BY <3>2, <3>3 DEF FunnelInv, OwnMoveStands
    <3> QED BY <3>4 DEF MovesOf
  <2> QED BY <2>1, <2>2, <2>3
<1> QED BY <1>1, <1>4, <1>6, <1>8, <1>9, <1>10, <1>11 DEF FunnelInv, BoardTypeOK

LEMMA MergeKeepsFunnel ==
  ASSUME FunnelInv, NEW s \in Deal, NEW losers \in SUBSET Deal, NEW stage \in Stage,
         NEW a \in Amount \cup {Null}, Merge(s, losers, stage, a)
  PROVE  FunnelInv'
<1> DEFINE Repointed(m) == [m EXCEPT !.of = IF @ \in losers THEN s ELSE @]
<1> DEFINE log == {Repointed(m) : m \in moves}
<1>1. PICK soft \in BOOLEAN :
        Write(s, stage, a,
              [r \in Deal |-> IF r \notin losers THEN rec[r]
                              ELSE IF soft THEN [rec[r] EXCEPT !.state = "deleted"]
                              ELSE Absent], log)
  BY DEF Merge
<1> DEFINE table == [r \in Deal |-> IF r \notin losers THEN rec[r]
                                    ELSE IF soft THEN [rec[r] EXCEPT !.state = "deleted"]
                                    ELSE Absent]
<1>2. /\ s \notin losers /\ rec[s].state # "absent"
      /\ rec \in [Deal -> RecordState] /\ moves \subseteq Move /\ Absent \in RecordState
  BY DEF Merge, FunnelInv, BoardTypeOK, Absent, RecordState, Stage
<1>3. table \in [Deal -> RecordState] /\ \A x \in Deal \ losers : table[x] = rec[x]
  <2>1. \A r \in Deal : [rec[r] EXCEPT !.state = "deleted"] \in RecordState
    BY <1>2 DEF RecordState
  <2> QED BY <1>2, <2>1
<1>4. \A m \in moves :
        /\ Repointed(m) \in Move
        /\ Repointed(m).of = IF m.of \in losers THEN s ELSE m.of
        /\ m.of \notin losers => Repointed(m) = m
  BY <1>2 DEF Move
<1> HIDE DEF Repointed
<1>5. log \in SUBSET Move
  BY <1>4
<1>6. ASSUME NEW x \in Deal \ losers PROVE MovesOf(x, moves) \subseteq log
  <2>1. ASSUME NEW m \in MovesOf(x, moves) PROVE m \in log
    <3>1. m \in moves /\ Repointed(m) = m
      BY <1>4, <2>1 DEF MovesOf
    <3> QED BY <3>1
  <2> QED BY <2>1
<1>7. ASSUME NEW x \in losers PROVE MovesOf(x, log) = {}
  <2>1. \A m \in log : m.of # x
    BY <1>2, <1>4
  <2> QED BY <2>1 DEF MovesOf
<1>8. ASSUME NEW x \in Deal \ losers, x # s PROVE MovesOf(x, log) = MovesOf(x, moves)
  <2>1. ASSUME NEW m \in MovesOf(x, log) PROVE m \in moves
    <3>1. PICK n \in moves : m = Repointed(n)
      BY <2>1 DEF MovesOf
    <3>2. m.of = x /\ n.of \notin losers
      BY <1>4, <1>8, <2>1, <3>1 DEF MovesOf
    <3> QED BY <1>4, <3>1, <3>2
  <2>2. MovesOf(x, log) \subseteq MovesOf(x, moves)
    BY <2>1 DEF MovesOf
  <2>3. MovesOf(x, moves) \subseteq MovesOf(x, log)
    BY <1>6, <1>8 DEF MovesOf
  <2> QED BY <2>2, <2>3
<1> HIDE DEF log, table
<1>9. Write(s, stage, a, table, log)
  BY <1>1 DEF table, log, Repointed
<1> QED BY <1>2, <1>3, <1>5, <1>6, <1>7, <1>8, <1>9, WriteKeepsFunnel

LEMMA NextKeepsFunnel == FunnelInv /\ [PipelineNext]_pipe => FunnelInv'
<1> SUFFICES ASSUME FunnelInv, [PipelineNext]_pipe PROVE FunnelInv'
  OBVIOUS
<1>0. /\ rec \in [Deal -> RecordState] /\ moves \subseteq Move
      /\ adrift \subseteq Deal /\ options \subseteq Option
      /\ Absent \in RecordState /\ Absent.state = "absent"
  BY DEF FunnelInv, BoardTypeOK, Absent, RecordState, Stage
<1>1. ASSUME NEW r \in Deal, NEW s \in options \cup {Null}, NEW a \in Amount \cup {Null},
             Create(r, s, a)
      PROVE  FunnelInv'
  <2> DEFINE new == [state |-> "live", stage |-> s, amount |-> a]
  <2>1. /\ rec[r] = Absent /\ rec' = [rec EXCEPT ![r] = new]
        /\ adrift' = adrift \ {r} /\ UNCHANGED <<options, moves>>
    BY <1>1 DEF Create
  <2>2. new \in RecordState /\ new.state = "live"
    BY <1>0 DEF RecordState, Stage
  <2> HIDE DEF new
  <2>3. rec' \in [Deal -> RecordState] /\ rec'[r] = new /\ \A x \in Deal : x # r => rec'[x] = rec[x]
    BY <1>0, <2>1, <2>2
  <2>4. MovesOf(r, moves) = {} /\ \A x : MovesOf(x, moves)' = MovesOf(x, moves)
    BY <1>0, <2>1 DEF FunnelInv, NoMovesYet, MovesOf
  <2>5. \A x \in Deal : OwnMoveStands(x)' /\ NoMovesYet(x)'
    BY <2>1, <2>3, <2>4 DEF FunnelInv, OwnMoveStands, NoMovesYet
  <2> QED BY <1>0, <2>1, <2>3, <2>5 DEF FunnelInv, BoardTypeOK
<1>2. ASSUME NEW r \in Deal, Delete(r) \/ Restore(r) PROVE FunnelInv'
  <2>1. PICK st \in {"live", "deleted"} : rec' = [rec EXCEPT ![r].state = st]
    BY <1>2 DEF Delete, Restore
  <2>2. UNCHANGED <<options, moves, adrift>> /\ rec[r].state # "absent"
    BY <1>2 DEF Delete, Restore
  <2>3. [rec[r] EXCEPT !.state = st] \in RecordState
    BY <1>0 DEF RecordState
  <2>4. /\ rec' \in [Deal -> RecordState] /\ rec'[r].stage = rec[r].stage
        /\ \A x \in Deal : x # r => rec'[x] = rec[x]
    BY <1>0, <2>1, <2>3 DEF RecordState
  <2>5. rec'[r].state = st
    BY <1>0, <2>1 DEF RecordState
  <2>6. \A x \in Deal : OwnMoveStands(x)' /\ NoMovesYet(x)'
    BY <2>2, <2>4, <2>5 DEF FunnelInv, OwnMoveStands, NoMovesYet, MovesOf
  <2> QED BY <1>0, <2>2, <2>4, <2>6 DEF FunnelInv, BoardTypeOK
<1>3. ASSUME NEW r \in Deal, Purge(r) PROVE FunnelInv'
  <2>1. /\ rec' = [rec EXCEPT ![r] = Absent] /\ moves' = moves \ MovesOf(r, moves)
        /\ adrift' = adrift /\ options' = options
    BY <1>3 DEF Purge
  <2>2. /\ rec' \in [Deal -> RecordState] /\ MovesOf(r, moves)' = {}
        /\ \A x \in Deal : x # r => rec'[x] = rec[x] /\ MovesOf(x, moves)' = MovesOf(x, moves)
    BY <1>0, <2>1 DEF MovesOf
  <2>3. \A x \in Deal : OwnMoveStands(x)' /\ NoMovesYet(x)'
    BY <2>1, <2>2 DEF FunnelInv, OwnMoveStands, NoMovesYet
  <2> QED BY <1>0, <2>1, <2>2, <2>3 DEF FunnelInv, BoardTypeOK
<1>4. ASSUME NEW r \in Deal, NEW s \in Stage, NEW a \in Amount \cup {Null}, Update(r, s, a)
      PROVE  FunnelInv'
  BY <1>0, <1>4, WriteKeepsFunnel DEF Update, MovesOf
<1>5. ASSUME NEW o \in Option, DropOption(o) PROVE FunnelInv'
  BY <1>5 DEF DropOption, FunnelInv, BoardTypeOK, OwnMoveStands, NoMovesYet, MovesOf
<1>6. CASE UNCHANGED pipe
  BY <1>6 DEF pipe, FunnelInv, BoardTypeOK, OwnMoveStands, NoMovesYet, MovesOf
<1> QED BY <1>1, <1>2, <1>3, <1>4, <1>5, <1>6, MergeKeepsFunnel DEF PipelineNext

LEMMA InitFunnel == PipelineInit => FunnelInv
<1> SUFFICES ASSUME PipelineInit PROVE FunnelInv
  OBVIOUS
<1>1. Absent \in RecordState
  BY DEF Absent, RecordState, Stage
<1>2. BoardTypeOK
  BY <1>1 DEF PipelineInit, BoardTypeOK
<1>3. \A r \in Deal : MovesOf(r, moves) = {}
  BY DEF PipelineInit, MovesOf
<1> QED BY <1>2, <1>3 DEF FunnelInv, OwnMoveStands, NoMovesYet

(* Whatever is created, edited, merged, deleted, restored and purged, and  *)
(* whatever options leave the field: the funnel finds a live record in the *)
(* stage it is in, unless its last move went unlogged or the only moves it *)
(* has came with a merge.  Among its moves is one that led there.          *)
THEOREM FunnelFindsRecords == PipelineSpec => []FunnelCoversBoard
<1>1. FunnelInv => FunnelCoversBoard
  <2> SUFFICES ASSUME FunnelInv, NEW r \in Deal,
                      rec[r].state = "live", rec[r].stage # Null, r \notin adrift
               PROVE  rec[r].stage \in Trace(r)
    BY DEF FunnelCoversBoard, Entered
  <2>1. CASE MovesOf(r, moves) = {}
    BY <2>1 DEF Trace
  <2>2. CASE MovesOf(r, moves) # {}
    <3>1. rec[r].stage \in Named(r)
      BY <2>2 DEF FunnelInv, OwnMoveStands, Named
    <3> QED BY <2>2, <3>1 DEF Trace
  <2> QED BY <2>1, <2>2
<1> QED BY <1>1, InitFunnel, NextKeepsFunnel, PTL DEF PipelineSpec

(***************************************************************************)
(* ViewFilter: a compiled filter and its plain reading                     *)
(***************************************************************************)
(* A set of numbers has a least one.                                       *)
LEMMA Least ==
  ASSUME NEW S \in SUBSET Nat, S # {}
  PROVE  \E x \in S : \A y \in S : x <= y
<1>1. \E x \in S : \A y \in S : ~(<<y, x>> \in OpToRel(<, Nat))
  BY NatLessThanWellFounded, WFMin
<1>2. \A x, y \in S : <<y, x>> \in OpToRel(<, Nat) <=> y < x
  BY DEF OpToRel
<1>3. PICK x \in S : \A y \in S : ~(y < x)
  BY <1>1, <1>2
<1>4. \A y \in S : x <= y
  BY <1>3
<1> QED BY <1>4

SqlValue == {"1", "true", "false", "unknown"}
Unplaced(c, row) == ~(c.key \in DOMAIN row /\ (c.op = "between" => Len(c.value) = 2))
(* Where it turns no unset value over, a node's SQL is its meaning.        *)
SaysWhatItMeans(sql, means) == sql = "true" <=> means

LEMMA ConditionOfOne ==
  ASSUME NEW multis, NEW c, IsCondition(c, multis), NEW row, IsRow(row, multis), ~Unplaced(c, row), c.key \notin multis,
         c.op # "is_none_of" \/ SqlCondition(c, row, multis) # "unknown"
  PROVE  /\ SqlCondition(c, row, multis) \in SqlValue \ {"1"}
         /\ SaysWhatItMeans(SqlCondition(c, row, multis), Holds(c, row, multis))
<1> DEFINE v == row[c.key]
<1>1. /\ c.key \in DOMAIN row /\ (c.op = "between" => Len(c.value) = 2)
      /\ v = Null \/ v \in Int
      /\ Null \notin Int
  BY QueryConstants DEF Unplaced, IsRow
<1>2. CASE c.op = "eq" /\ c.value \in Int
  BY <1>1, <1>2 DEF SqlCondition, AnyOf, Compared, Truth, Holds, SqlValue, SaysWhatItMeans
<1>3. CASE c.op = "not_eq" /\ c.value \in Int
  BY <1>1, <1>3 DEF SqlCondition, AnyOf, Compared, Truth, Holds, SqlValue, SaysWhatItMeans
<1>4. CASE c.op \in {"gt", "gte", "lt", "lte"} /\ c.value \in Int
  BY <1>1, <1>4 DEF SqlCondition, AnyOf, Compared, Truth, Holds, SqlValue, SaysWhatItMeans
<1>5. CASE c.op = "between" /\ c.value \in Seq(Int)
  <2>1. c.value[1] \in Int /\ c.value[2] \in Int
    BY <1>1, <1>5
  <2> QED
    BY <1>1, <1>5, <2>1 DEF SqlCondition, AnyOf, Compared, Truth, Holds, SqlValue, SaysWhatItMeans
<1>6. CASE c.op = "is_any_of" /\ c.value \subseteq Int
  BY <1>1, <1>6 DEF SqlCondition, AnyOf, Compared, Truth, Holds, SqlValue, SaysWhatItMeans
<1>7. CASE c.op = "is_none_of" /\ c.value \subseteq Int
  <2>1. SqlCondition(c, row, multis) = SqlNot(AnyOf(v, c.key \in multis, c.value))
    BY <1>1, <1>7 DEF SqlCondition
  <2> QED
  BY <1>1, <1>7, <2>1 DEF AnyOf, Compared, Truth, SqlNot, Holds, SqlValue, SaysWhatItMeans
<1>8. CASE c.op \in {"is_empty", "is_not_empty"}
  BY <1>1, <1>8 DEF SqlCondition, AnyOf, Compared, Truth, Holds, SqlValue, SaysWhatItMeans
<1>9. CASE c.op \in {"is_true", "is_false"}
  BY <1>1, <1>9 DEF SqlCondition, AnyOf, Compared, Truth, Holds, SqlValue, SaysWhatItMeans
<1> QED BY <1>2, <1>3, <1>4, <1>5, <1>6, <1>7, <1>8, <1>9 DEF IsCondition

LEMMA ConditionOfMany ==
  ASSUME NEW multis, NEW c, IsCondition(c, multis), NEW row, IsRow(row, multis), ~Unplaced(c, row), c.key \in multis
  PROVE  /\ SqlCondition(c, row, multis) \in SqlValue \ {"1"}
         /\ SaysWhatItMeans(SqlCondition(c, row, multis), Holds(c, row, multis))
<1> DEFINE v == row[c.key]
<1>1. /\ c.key \in DOMAIN row
      /\ v = Null \/ v \subseteq Int
      /\ c.op \in {"eq", "not_eq", "is_any_of", "is_none_of", "is_empty", "is_not_empty"}
  BY DEF Unplaced, IsRow, IsCondition, OfOneValue
<1>2. CASE c.op = "eq"
  BY <1>1, <1>2 DEF SqlCondition, AnyOf, Compared, Truth, Holds, SqlValue, SaysWhatItMeans
<1>3. CASE c.op = "not_eq"
  BY <1>1, <1>3 DEF SqlCondition, AnyOf, Compared, Truth, SqlNot, Holds, SqlValue, SaysWhatItMeans
<1>4. CASE c.op = "is_any_of"
  BY <1>1, <1>4 DEF SqlCondition, AnyOf, Compared, Truth, Holds, SqlValue, SaysWhatItMeans
<1>5. CASE c.op = "is_none_of"
  BY <1>1, <1>5 DEF SqlCondition, AnyOf, Compared, Truth, SqlNot, Holds, SqlValue, SaysWhatItMeans
<1>6. CASE c.op \in {"is_empty", "is_not_empty"}
  BY <1>1, <1>6 DEF SqlCondition, AnyOf, Compared, Truth, Holds, SqlValue, SaysWhatItMeans
<1> QED BY <1>1, <1>2, <1>3, <1>4, <1>5, <1>6

(* What is true of a node when it is true of those before it.              *)
LEMMA TableInduction ==
  ASSUME NEW n \in Nat, NEW S, \A i \in 1..n : (\A k \in 1..(i - 1) : k \in S) => i \in S
  PROVE  \A i \in 1..n : i \in S
<1> DEFINE Bad == {i \in 1..n : i \notin S}
<1>1. ASSUME Bad # {} PROVE FALSE
  <2>0. Bad \in SUBSET Nat
    OBVIOUS
  <2> HIDE DEF Bad
  <2>1. PICK m \in Bad : \A k \in Bad : m <= k
    BY <1>1, <2>0, Least
  <2>2. m \in 1..n /\ m \notin S
    BY <2>1 DEF Bad
  <2>3. \A k \in 1..(m - 1) : k \in S
    <3>1. \A k \in 1..(m - 1) : k \in 1..n /\ ~(m <= k)
      BY <2>2
    <3>2. \A k \in 1..(m - 1) : k \notin Bad
      BY <2>1, <3>1
    <3> QED BY <3>1, <3>2 DEF Bad
  <2> QED BY <2>2, <2>3
<1> QED BY <1>1

(* What a recursive table of n entries defines is there, when an entry     *)
(* looks only at those before it.                                          *)
LEMMA TableRecursion ==
  ASSUME NEW n \in Nat, NEW T, NEW t \in T,
         NEW step \in [1..n -> [[1..n -> T] -> T]],
         \A i \in 1..n, g, h \in [1..n -> T] :
           (\A k \in 1..(i - 1) : g[k] = h[k]) => step[i][g] = step[i][h]
  PROVE  \E g \in [1..n -> T] : g = [i \in 1..n |-> step[i][g]]
<1> DEFINE Filled(g, m) == \A i \in 1..m : g[i] = step[i][g]
           Bad == {m \in 0..n : ~ \E g \in [1..n -> T] : Filled(g, m)}
<1>0. Bad \in SUBSET Nat /\ \A m \in 0..n : m \in Bad <=> ~ \E g \in [1..n -> T] : Filled(g, m)
  OBVIOUS
<1> HIDE DEF Bad
<1>1. ASSUME Bad # {} PROVE FALSE
  <2>1. PICK m \in Bad : \A k \in Bad : m <= k
    BY <1>0, <1>1, Least
  <2>2. m \in 0..n /\ m # 0
    <3>1. m \in 0..n
      BY <2>1 DEF Bad
    <3>2. PICK g \in [1..n -> T] : g = [i \in 1..n |-> t]
      OBVIOUS
    <3>3. 0 \notin Bad
      BY <1>0, <3>2
    <3> QED BY <2>1, <3>1, <3>3
  <2>3. m - 1 \in 0..n /\ ~(m <= m - 1)
    BY <2>2
  <2>31. m - 1 \notin Bad
    BY <2>1, <2>3
  <2>4. PICK g \in [1..n -> T] : Filled(g, m - 1)
    BY <1>0, <2>3, <2>31
  <2> DEFINE h == [g EXCEPT ![m] = step[m][g]]
  <2>5. step[m][g] \in T
    BY <2>2
  <2>6. h \in [1..n -> T] /\ h[m] = step[m][g] /\ \A i \in 1..(m - 1) : h[i] = g[i]
    BY <2>2, <2>5
  <2> HIDE DEF h
  <2>7. \A i \in 1..m : step[i][h] = step[i][g]
    <3>1. SUFFICES ASSUME NEW i \in 1..m PROVE step[i][h] = step[i][g]
      OBVIOUS
    <3>2. i \in 1..n /\ \A k \in 1..(i - 1) : k \in 1..(m - 1)
      BY <2>2
    <3>3. \A k \in 1..(i - 1) : h[k] = g[k]
      BY <2>6, <3>2
    <3> QED BY <2>6, <3>2, <3>3
  <2>8. Filled(h, m)
    <3>1. SUFFICES ASSUME NEW i \in 1..m PROVE h[i] = step[i][h]
      OBVIOUS
    <3>2. CASE i = m
      BY <2>2, <2>6, <2>7, <3>2
    <3>3. CASE i \in 1..(m - 1)
      BY <2>2, <2>4, <2>6, <2>7, <3>3
    <3> QED BY <2>2, <3>2, <3>3
  <2> QED BY <1>0, <2>1, <2>2, <2>6, <2>8
<1>2. n \in 0..n /\ n \notin Bad
  BY <1>1
<1>3. PICK g \in [1..n -> T] : Filled(g, n)
  BY <1>0, <1>2
<1>4. g = [i \in 1..n |-> step[i][g]]
  BY <1>3
<1> QED BY <1>4

LEMMA FilterNodes ==
  ASSUME NEW multis, NEW f, IsFilter(f, multis)
  PROVE  /\ Len(f) \in Nat \ {0} /\ DOMAIN f = 1..Len(f) /\ Len(f) \in DOMAIN f
         /\ \A i \in 1..Len(f) : IsNode(f[i], i, multis)
<1>1. f \in Seq(Range(f)) /\ f # <<>>
  BY DEF IsFilter
<1>2. Len(f) \in Nat /\ DOMAIN f = 1..Len(f) /\ Len(f) # 0
  BY <1>1
<1> QED BY <1>2 DEF IsFilter

LEMMA ConditionValue ==
  ASSUME NEW multis, NEW c, IsCondition(c, multis), NEW row, IsRow(row, multis)
  PROVE  /\ SqlCondition(c, row, multis) \in SqlValue
         /\ SqlCondition(c, row, multis) = "1" <=> Unplaced(c, row)
<1>1. CASE Unplaced(c, row)
  <2>1. CASE c.key \notin DOMAIN row
    BY <1>1, <2>1 DEF SqlCondition, SqlValue
  <2>2. CASE c.op = "between" /\ Len(c.value) # 2
    BY <1>1, <2>2 DEF SqlCondition, SqlValue
  <2> QED BY <1>1, <2>1, <2>2 DEF Unplaced
<1>2. CASE ~Unplaced(c, row) /\ c.op = "is_none_of" /\ SqlCondition(c, row, multis) = "unknown"
  BY <1>2 DEF SqlValue
<1>3. CASE /\ ~Unplaced(c, row)
           /\ c.op # "is_none_of" \/ SqlCondition(c, row, multis) # "unknown"
  <2>1. SqlCondition(c, row, multis) \in SqlValue \ {"1"}
    BY <1>3, ConditionOfOne, ConditionOfMany
  <2> QED BY <1>3, <2>1
<1> QED BY <1>1, <1>2, <1>3

(***************************************************************************)
(* The tables of a filter                                                  *)
(***************************************************************************)
LEMMA SqlOfNode ==
  ASSUME NEW multis, NEW f, IsFilter(f, multis), NEW row, IsRow(row, multis), NEW i \in 1..Len(f),
         NEW g, \A k \in 1..(i - 1) : g[k] \in SqlValue
  PROVE  NodeSql(f[i], g, row, multis) \in SqlValue
<1>1. Len(f) \in Nat /\ IsNode(f[i], i, multis)
  BY FilterNodes
<1>2. CASE f[i].type = "condition"
  BY <1>1, <1>2, ConditionValue DEF NodeSql, IsNode
<1>3. CASE f[i].type = "not"
  BY <1>1, <1>3 DEF NodeSql, IsNode, SqlNot, SqlValue
<1>4. CASE f[i].type \in {"and", "or"}
  BY <1>1, <1>4 DEF NodeSql, Joined, IsNode, SqlAnd, SqlOr, SqlValue
<1> QED BY <1>1, <1>2, <1>3, <1>4 DEF IsNode

LEMMA SqlLooksBack ==
  ASSUME NEW multis, NEW f, IsFilter(f, multis), NEW row, NEW i \in 1..Len(f),
         NEW g, NEW h,
         \A k \in 1..(i - 1) : g[k] = h[k]
  PROVE  NodeSql(f[i], g, row, multis) = NodeSql(f[i], h, row, multis)
<1>1. Len(f) \in Nat /\ IsNode(f[i], i, multis)
  BY FilterNodes
<1>2. CASE f[i].type = "condition"
  BY <1>2 DEF NodeSql
<1>3. CASE f[i].type = "not"
  BY <1>1, <1>3 DEF NodeSql, IsNode
<1>4. CASE f[i].type \in {"and", "or"}
  <2>1. {g[k] : k \in f[i].filters} = {h[k] : k \in f[i].filters}
    BY <1>1, <1>4 DEF IsNode
  <2> QED BY <1>4, <2>1 DEF NodeSql
<1> QED BY <1>1, <1>2, <1>3, <1>4 DEF IsNode

LEMMA SqlTable ==
  ASSUME NEW multis, NEW f, IsFilter(f, multis), NEW row, IsRow(row, multis)
  PROVE  Sql(f, row, multis) = [i \in DOMAIN f |-> NodeSql(f[i], Sql(f, row, multis), row, multis)]
<1> DEFINE n == Len(f)
           step == [i \in 1..n |-> [g \in [1..n -> SqlValue] |-> NodeSql(f[i], g, row, multis)]]
<1>1. n \in Nat /\ DOMAIN f = 1..n
  BY FilterNodes
<1>2. step \in [1..n -> [[1..n -> SqlValue] -> SqlValue]]
  <2> SUFFICES ASSUME NEW i \in 1..n, NEW g \in [1..n -> SqlValue]
               PROVE  NodeSql(f[i], g, row, multis) \in SqlValue
    OBVIOUS
  <2>1. \A k \in 1..(i - 1) : g[k] \in SqlValue
    BY <1>1
  <2> QED BY <2>1, SqlOfNode
<1>3. \A i \in 1..n, g, h \in [1..n -> SqlValue] :
        (\A k \in 1..(i - 1) : g[k] = h[k]) => step[i][g] = step[i][h]
  <2> SUFFICES ASSUME NEW i \in 1..n, NEW g \in [1..n -> SqlValue], NEW h \in [1..n -> SqlValue],
                      \A k \in 1..(i - 1) : g[k] = h[k]
               PROVE  step[i][g] = step[i][h]
    OBVIOUS
  <2>1. NodeSql(f[i], g, row, multis) = NodeSql(f[i], h, row, multis)
    BY SqlLooksBack
  <2> QED BY <2>1
<1>4. "1" \in SqlValue
  BY DEF SqlValue
<1>5. \E g \in [1..n -> SqlValue] : g = [i \in 1..n |-> step[i][g]]
  <2> HIDE DEF step, n
  <2> QED BY <1>1, <1>2, <1>3, <1>4, TableRecursion, ZenonT(60)
<1>6. PICK g \in [1..n -> SqlValue] : g = [i \in DOMAIN f |-> NodeSql(f[i], g, row, multis)]
  <2>1. PICK g \in [1..n -> SqlValue] : g = [i \in 1..n |-> step[i][g]]
    BY <1>5
  <2>2. \A i \in 1..n : step[i][g] = NodeSql(f[i], g, row, multis)
    OBVIOUS
  <2> HIDE DEF step
  <2> QED BY <1>1, <2>1, <2>2
<1> QED BY <1>6, Zenon DEF Sql

LEMMA SqlOfFilter ==
  ASSUME NEW multis, NEW f, IsFilter(f, multis), NEW row, IsRow(row, multis)
  PROVE  \A i \in 1..Len(f) :
           /\ Sql(f, row, multis)[i] = NodeSql(f[i], Sql(f, row, multis), row, multis)
           /\ Sql(f, row, multis)[i] \in SqlValue
<1> DEFINE sql == Sql(f, row, multis)
           S == {i \in 1..Len(f) : sql[i] \in SqlValue}
<1>1. Len(f) \in Nat /\ DOMAIN f = 1..Len(f)
  BY FilterNodes
<1>2. \A i \in 1..Len(f) : sql[i] = NodeSql(f[i], sql, row, multis)
  BY <1>1, SqlTable
<1> HIDE DEF sql
<1>3. \A i \in 1..Len(f) : (\A k \in 1..(i - 1) : k \in S) => i \in S
  BY <1>2, SqlOfNode
<1> HIDE DEF S
<1>4. \A i \in 1..Len(f) : i \in S
  BY <1>1, <1>3, TableInduction
<1> QED BY <1>2, <1>4 DEF S, sql

LEMMA ConstrainsTable ==
  ASSUME NEW multis, NEW f, IsFilter(f, multis), NEW row
  PROVE  Constrains(f, row) = [i \in DOMAIN f |-> NodeConstrains(f[i], Constrains(f, row), row)]
<1> DEFINE n == Len(f)
           step == [i \in 1..n |-> [g \in [1..n -> BOOLEAN] |-> NodeConstrains(f[i], g, row)]]
<1>1. n \in Nat /\ DOMAIN f = 1..n /\ \A i \in 1..n : IsNode(f[i], i, multis)
  BY FilterNodes
<1>2. step \in [1..n -> [[1..n -> BOOLEAN] -> BOOLEAN]]
  <2> SUFFICES ASSUME NEW i \in 1..n, NEW g \in [1..n -> BOOLEAN]
               PROVE  NodeConstrains(f[i], g, row) \in BOOLEAN
    OBVIOUS
  <2>1. CASE f[i].type = "condition"
    BY <2>1 DEF NodeConstrains
  <2>2. CASE f[i].type = "not"
    <3>1. f[i].filter \in 1..n
      BY <1>1, <2>2 DEF IsNode
    <3> QED BY <2>2, <3>1 DEF NodeConstrains
  <2>3. CASE f[i].type \in {"and", "or"}
    BY <2>3 DEF NodeConstrains
  <2> QED BY <1>1, <2>1, <2>2, <2>3 DEF IsNode
<1>3. \A i \in 1..n, g, h \in [1..n -> BOOLEAN] :
        (\A k \in 1..(i - 1) : g[k] = h[k]) => step[i][g] = step[i][h]
  <2> SUFFICES ASSUME NEW i \in 1..n, NEW g \in [1..n -> BOOLEAN], NEW h \in [1..n -> BOOLEAN],
                      \A k \in 1..(i - 1) : g[k] = h[k]
               PROVE  step[i][g] = step[i][h]
    OBVIOUS
  <2>1. NodeConstrains(f[i], g, row) = NodeConstrains(f[i], h, row)
    BY <1>1 DEF NodeConstrains, IsNode
  <2> QED BY <2>1
<1>5. \E g \in [1..n -> BOOLEAN] : g = [i \in 1..n |-> step[i][g]]
  <2>1. TRUE \in BOOLEAN
    OBVIOUS
  <2> HIDE DEF step, n
  <2> QED BY <1>1, <1>2, <1>3, <2>1, TableRecursion, ZenonT(60)
<1>6. PICK g \in [1..n -> BOOLEAN] : g = [i \in DOMAIN f |-> NodeConstrains(f[i], g, row)]
  <2>1. PICK g \in [1..n -> BOOLEAN] : g = [i \in 1..n |-> step[i][g]]
    BY <1>5
  <2>2. \A i \in 1..n : step[i][g] = NodeConstrains(f[i], g, row)
    OBVIOUS
  <2> HIDE DEF step
  <2> QED BY <1>1, <2>1, <2>2
<1> QED BY <1>6, Zenon DEF Constrains

LEMMA PlacedFilter ==
  ASSUME NEW multis, NEW f, IsFilter(f, multis), NEW row, IsRow(row, multis)
  PROVE  \A i \in 1..Len(f) :
           /\ Constrains(f, row)[i] = NodeConstrains(f[i], Constrains(f, row), row)
           /\ Constrains(f, row)[i] <=> Sql(f, row, multis)[i] # "1"
<1> DEFINE placed == Constrains(f, row)
           sql == Sql(f, row, multis)
           S == {i \in 1..Len(f) : placed[i] <=> sql[i] # "1"}
<1>1. Len(f) \in Nat /\ DOMAIN f = 1..Len(f) /\ \A i \in 1..Len(f) : IsNode(f[i], i, multis)
  BY FilterNodes
<1>2. \A i \in 1..Len(f) : placed[i] = NodeConstrains(f[i], placed, row)
  BY <1>1, ConstrainsTable
<1>3. \A i \in 1..Len(f) : sql[i] = NodeSql(f[i], sql, row, multis) /\ sql[i] \in SqlValue
  BY SqlOfFilter
<1> HIDE DEF sql, placed
<1>4. ASSUME NEW i \in 1..Len(f), \A k \in 1..(i - 1) : k \in S PROVE i \in S
  <2>1. \A k \in 1..(i - 1) : k \in 1..Len(f) /\ (placed[k] <=> sql[k] # "1")
    BY <1>1, <1>4
  <2>2. CASE f[i].type = "condition"
    <3>1. IsCondition(f[i], multis)
      BY <1>1, <2>2 DEF IsNode
    <3>2. placed[i] <=> ~Unplaced(f[i], row)
      BY <1>2, <2>2 DEF NodeConstrains, Unplaced
    <3>3. sql[i] = "1" <=> Unplaced(f[i], row)
      BY <1>3, <2>2, <3>1, ConditionValue DEF NodeSql
    <3> QED BY <3>2, <3>3
  <2>3. CASE f[i].type = "not"
    <3>1. f[i].filter \in 1..(i - 1)
      BY <1>1, <2>3 DEF IsNode
    <3>2. placed[i] = placed[f[i].filter]
      BY <1>2, <2>3 DEF NodeConstrains
    <3>3. sql[i] = IF sql[f[i].filter] = "1" THEN "1" ELSE SqlNot(sql[f[i].filter])
      BY <1>3, <2>3 DEF NodeSql
    <3>4. sql[i] = "1" <=> sql[f[i].filter] = "1"
      BY <1>3, <2>1, <3>1, <3>3 DEF SqlNot, SqlValue
    <3> QED BY <2>1, <3>1, <3>2, <3>4
  <2>4. CASE f[i].type \in {"and", "or"}
    <3>1. f[i].filters \subseteq 1..(i - 1)
      BY <1>1, <2>4 DEF IsNode
    <3>2. placed[i] <=> \E k \in f[i].filters : placed[k]
      BY <1>2, <2>4 DEF NodeConstrains
    <3>3. sql[i] = Joined(f[i].type, {sql[k] : k \in f[i].filters} \ {"1"})
      BY <1>3, <2>4 DEF NodeSql
    <3>4. sql[i] = "1" <=> {sql[k] : k \in f[i].filters} \ {"1"} = {}
      BY <3>3 DEF Joined, SqlAnd, SqlOr
    <3> QED BY <2>1, <3>1, <3>2, <3>4
  <2> QED BY <1>1, <2>2, <2>3, <2>4 DEF IsNode
<1> HIDE DEF S
<1>5. \A i \in 1..Len(f) : i \in S
  BY <1>1, <1>4, TableInduction
<1> QED BY <1>2, <1>5 DEF S, sql, placed

LEMMA MeaningsTable ==
  ASSUME NEW multis, NEW f, IsFilter(f, multis), NEW row
  PROVE  Meanings(f, row, multis) =
           [i \in DOMAIN f |-> \/ ~Constrains(f, row)[i]
                               \/ NodeMeans(f[i], Meanings(f, row, multis), Constrains(f, row), row, multis)]
<1> DEFINE n == Len(f)
           placed == Constrains(f, row)
           M(i, g) == ~placed[i] \/ NodeMeans(f[i], g, placed, row, multis)
           step == [i \in 1..n |-> [g \in [1..n -> BOOLEAN] |-> M(i, g)]]
<1>1. n \in Nat /\ DOMAIN f = 1..n /\ \A i \in 1..n : IsNode(f[i], i, multis)
  BY FilterNodes
<1>2. step \in [1..n -> [[1..n -> BOOLEAN] -> BOOLEAN]]
  OBVIOUS
<1>3. \A i \in 1..n, g, h \in [1..n -> BOOLEAN] :
        (\A k \in 1..(i - 1) : g[k] = h[k]) => step[i][g] = step[i][h]
  <2> SUFFICES ASSUME NEW i \in 1..n, NEW g \in [1..n -> BOOLEAN], NEW h \in [1..n -> BOOLEAN],
                      \A k \in 1..(i - 1) : g[k] = h[k]
               PROVE  step[i][g] = step[i][h]
    OBVIOUS
  <2>1. NodeMeans(f[i], g, placed, row, multis) = NodeMeans(f[i], h, placed, row, multis)
    <3> HIDE DEF placed
    <3>1. CASE f[i].type = "condition"
      BY <3>1 DEF NodeMeans
    <3>2. CASE f[i].type = "not"
      BY <1>1, <3>2 DEF NodeMeans, IsNode
    <3>3. CASE f[i].type \in {"and", "or"}
      BY <1>1, <3>3 DEF NodeMeans, IsNode
    <3> QED BY <1>1, <3>1, <3>2, <3>3 DEF IsNode
  <2> QED BY <2>1
<1>5. \E g \in [1..n -> BOOLEAN] : g = [i \in 1..n |-> step[i][g]]
  <2>1. TRUE \in BOOLEAN
    OBVIOUS
  <2> HIDE DEF step, n
  <2> QED BY <1>1, <1>2, <1>3, <2>1, TableRecursion, ZenonT(60)
<1>6. PICK g \in [1..n -> BOOLEAN] : g = [i \in DOMAIN f |-> M(i, g)]
  <2>1. PICK g \in [1..n -> BOOLEAN] : g = [i \in 1..n |-> step[i][g]]
    BY <1>5
  <2>2. \A i \in 1..n : step[i][g] = M(i, g)
    OBVIOUS
  <2> HIDE DEF step, M
  <2> QED BY <1>1, <2>1, <2>2
<1> QED BY <1>6, Zenon DEF Meanings

LEMMA NodesAgree ==
  ASSUME NEW multis, NEW f, IsFilter(f, multis), NEW row, IsRow(row, multis), ~TurnsUnset(f, row, multis)
  PROVE  \A i \in 1..Len(f) :
           Constrains(f, row)[i] =>
             SaysWhatItMeans(Sql(f, row, multis)[i], Meanings(f, row, multis)[i])
<1> DEFINE placed == Constrains(f, row)
           sql == Sql(f, row, multis)
           means == Meanings(f, row, multis)
           S == {i \in 1..Len(f) : placed[i] => (sql[i] = "true" <=> means[i])}
<1>1. Len(f) \in Nat /\ DOMAIN f = 1..Len(f) /\ \A i \in 1..Len(f) : IsNode(f[i], i, multis)
  BY FilterNodes
<1>2. \A i \in 1..Len(f) :
        (placed[i] = NodeConstrains(f[i], placed, row)) /\ (placed[i] <=> sql[i] # "1")
  BY PlacedFilter
<1>3. \A i \in 1..Len(f) : sql[i] = NodeSql(f[i], sql, row, multis) /\ sql[i] \in SqlValue
  BY SqlOfFilter
<1>4. \A i \in 1..Len(f) :
        placed[i] => (means[i] <=> NodeMeans(f[i], means, placed, row, multis))
  BY <1>1, MeaningsTable
<1>5. \A i \in 1..Len(f) :
        /\ f[i].type = "condition" => f[i].op # "is_none_of" \/ sql[i] # "unknown"
        /\ f[i].type = "not" => sql[f[i].filter] # "unknown"
  BY <1>1 DEF TurnsUnset
<1> HIDE DEF sql, placed, means
<1>6. ASSUME NEW i \in 1..Len(f), \A k \in 1..(i - 1) : k \in S PROVE i \in S
  <2> SUFFICES ASSUME placed[i] PROVE sql[i] = "true" <=> means[i]
    OBVIOUS
  <2>1. \A k \in 1..(i - 1) :
          k \in 1..Len(f) /\ (placed[k] => (sql[k] = "true" <=> means[k]))
    BY <1>1, <1>6
  <2>2. CASE f[i].type = "condition"
    <3>1. IsCondition(f[i], multis)
      BY <1>1, <2>2 DEF IsNode
    <3>2. sql[i] = SqlCondition(f[i], row, multis) /\ (means[i] <=> Holds(f[i], row, multis))
      BY <1>3, <1>4, <2>2 DEF NodeSql, NodeMeans
    <3>3. ~Unplaced(f[i], row)
      BY <1>2, <2>2 DEF NodeConstrains, Unplaced
    <3>4. SaysWhatItMeans(SqlCondition(f[i], row, multis), Holds(f[i], row, multis))
      BY <1>5, <2>2, <3>1, <3>2, <3>3, ConditionOfOne, ConditionOfMany
    <3> QED BY <3>2, <3>4 DEF SaysWhatItMeans
  <2>3. CASE f[i].type = "not"
    <3> DEFINE k == f[i].filter
    <3>1. k \in 1..(i - 1)
      BY <1>1, <2>3 DEF IsNode
    <3>2. placed[k]
      BY <1>2, <2>3 DEF NodeConstrains
    <3>3. sql[i] = SqlNot(sql[k]) /\ (means[i] <=> ~means[k])
      BY <1>2, <1>3, <1>4, <2>1, <2>3, <3>1, <3>2 DEF NodeSql, NodeMeans
    <3>4. sql[k] \in {"true", "false"}
      BY <1>2, <1>3, <1>5, <2>1, <2>3, <3>1, <3>2 DEF SqlValue
    <3> HIDE DEF k
    <3> QED BY <2>1, <3>1, <3>2, <3>3, <3>4 DEF SqlNot
  <2>4. CASE f[i].type \in {"and", "or"}
    <3> DEFINE parts == {sql[k] : k \in f[i].filters} \ {"1"}
    <3>1. f[i].filters \subseteq 1..(i - 1)
      BY <1>1, <2>4 DEF IsNode
    <3>2. sql[i] = Joined(f[i].type, parts) /\ sql[i] # "1"
      BY <1>2, <1>3, <2>4 DEF NodeSql
    <3>3. parts # {}
      BY <3>2 DEF Joined
    <3>4. \A k \in f[i].filters :
            /\ k \in 1..Len(f) /\ (placed[k] <=> sql[k] # "1")
            /\ placed[k] => (sql[k] = "true" <=> means[k])
            /\ sql[k] \in SqlValue
      BY <1>2, <1>3, <2>1, <3>1
    <3>5. \A t \in parts : t \in {"true", "false", "unknown"}
      BY <3>4 DEF SqlValue
    <3>6. \A t : t \in parts <=> t # "1" /\ \E k \in f[i].filters : sql[k] = t
      OBVIOUS
    <3> HIDE DEF parts
    <3>7. CASE f[i].type = "and"
      <4>1. sql[i] = "true" <=> \A t \in parts : t = "true"
        BY <3>2, <3>3, <3>5, <3>7 DEF Joined, SqlAnd
      <4>2. means[i] <=> \A k \in f[i].filters : placed[k] => means[k]
        BY <1>4, <3>7 DEF NodeMeans
      <4> QED BY <3>4, <3>6, <4>1, <4>2
    <3>8. CASE f[i].type = "or"
      <4>1. sql[i] = "true" <=> "true" \in parts
        BY <3>2, <3>3, <3>5, <3>8 DEF Joined, SqlOr
      <4>2. means[i] <=> \E k \in f[i].filters : placed[k] /\ means[k]
        BY <1>4, <3>8 DEF NodeMeans
      <4> QED BY <3>4, <3>6, <4>1, <4>2
    <3> QED BY <2>4, <3>7, <3>8
  <2> QED BY <1>1, <2>2, <2>3, <2>4 DEF IsNode
<1> HIDE DEF S
<1>7. \A i \in 1..Len(f) : i \in S
  BY <1>1, <1>6, TableInduction
<1> QED BY <1>7 DEF S, sql, placed, means, SaysWhatItMeans

(* A filter without a condition constrains no row.                         *)
LEMMA EmptyConstrainsNothing ==
  ASSUME NEW multis, NEW f, IsFilter(f, multis), NEW row, IsEmptyFilter(f), IsRow(row, multis)
  PROVE  ~Constrains(f, row)[Len(f)]
<1> DEFINE placed == Constrains(f, row)
           S == {i \in 1..Len(f) : ~placed[i]}
<1>1. Len(f) \in Nat \ {0} /\ DOMAIN f = 1..Len(f) /\ \A i \in 1..Len(f) : IsNode(f[i], i, multis)
  BY FilterNodes
<1>2. \A i \in 1..Len(f) : placed[i] = NodeConstrains(f[i], placed, row)
  BY PlacedFilter
<1> HIDE DEF placed
<1>3. ASSUME NEW i \in 1..Len(f), \A k \in 1..(i - 1) : k \in S PROVE i \in S
  <2>1. f[i].type # "condition"
    BY <1>1 DEF IsEmptyFilter
  <2>2. CASE f[i].type = "not"
    BY <1>1, <1>2, <1>3, <2>2 DEF NodeConstrains, IsNode
  <2>3. CASE f[i].type \in {"and", "or"}
    BY <1>1, <1>2, <1>3, <2>3 DEF NodeConstrains, IsNode
  <2> QED BY <1>1, <2>1, <2>2, <2>3 DEF IsNode
<1> HIDE DEF S
<1>4. \A i \in 1..Len(f) : i \in S
  BY <1>1, <1>3, TableInduction
<1> QED BY <1>1, <1>4 DEF S, placed

(* Every filter decides every row as its plain reading does, unless it     *)
(* turns a comparison with an unset value over.                            *)
THEOREM WhereSaysWhatItMeans ==
  ASSUME NEW multis, NEW f, IsFilter(f, multis), NEW row, IsRow(row, multis)
  PROVE  (Where(f, row, multis) <=> Means(f, row, multis)) \/ TurnsUnset(f, row, multis)
<1> SUFFICES ASSUME ~TurnsUnset(f, row, multis)
             PROVE  Where(f, row, multis) <=> Means(f, row, multis)
  OBVIOUS
<1> DEFINE n == Len(f)
<1>1. n \in 1..n /\ n \in DOMAIN f
  BY FilterNodes
<1>2. CASE Constrains(f, row)[n]
  <2>1. ~IsEmptyFilter(f)
    BY <1>2, EmptyConstrainsNothing
  <2>2. Sql(f, row, multis)[n] # "1"
    BY <1>1, <1>2, PlacedFilter
  <2>3. Sql(f, row, multis)[n] = "true" <=> Meanings(f, row, multis)[n]
    BY <1>1, <1>2, NodesAgree DEF SaysWhatItMeans
  <2> QED BY <2>1, <2>2, <2>3 DEF Where, Means
<1>3. CASE ~Constrains(f, row)[n]
  <2>1. Sql(f, row, multis)[n] = "1"
    BY <1>1, <1>3, PlacedFilter
  <2>2. Meanings(f, row, multis)[n]
    BY <1>1, <1>3, MeaningsTable
  <2> QED BY <2>1, <2>2 DEF Where, Means
<1> QED BY <1>2, <1>3

(***************************************************************************)
(* The filter of a view                                                    *)
(***************************************************************************)
LEMMA NodeHigherUp ==
  ASSUME NEW multis, NEW node, NEW i \in Nat, NEW j \in Nat, i <= j, IsNode(node, i, multis)
  PROVE  IsNode(node, j, multis)
BY DEF IsNode

LEMMA OverItsNodes ==
  ASSUME NEW S, NEW f \in Seq(S)
  PROVE  f \in Seq(Range(f))
<1>1. Len(f) \in Nat /\ DOMAIN f = 1..Len(f) /\ f = [i \in 1..Len(f) |-> f[i]]
  OBVIOUS
<1>2. \A i \in 1..Len(f) : f[i] \in Range(f)
  BY <1>1 DEF Range
<1>3. f \in [1..Len(f) -> Range(f)]
  BY <1>1, <1>2
<1> QED BY <1>1, <1>3, SeqDef

LEMMA TwoMore ==
  ASSUME NEW S, NEW f \in Seq(S), NEW c \in Seq(S), Len(c) = 1, NEW x \in S
  PROVE  /\ f \o c \o <<x>> \in Seq(S) /\ Len(f \o c \o <<x>>) = Len(f) + 2
         /\ (f \o c \o <<x>>)[Len(f) + 1] = c[1] /\ (f \o c \o <<x>>)[Len(f) + 2] = x
         /\ \A i \in 1..Len(f) : (f \o c \o <<x>>)[i] = f[i]
<1>1. /\ f \o c \in Seq(S) /\ Len(f \o c) = Len(f) + 1 /\ Len(f) \in Nat
      /\ (f \o c)[Len(f) + 1] = c[1] /\ \A i \in 1..Len(f) : (f \o c)[i] = f[i]
  BY ConcatProperties
<1> QED BY <1>1

(* A node above two filters, the second of one node, or above one.         *)
LEMMA JoinedIsAFilter ==
  ASSUME NEW multis, NEW f, IsFilter(f, multis), NEW c, IsFilter(c, multis), Len(c) = 1,
         NEW node, node.type \in {"and", "or"}, node.filters = {Len(f), Len(f) + 1}
  PROVE  IsFilter(f \o c \o <<node>>, multis)
<1> DEFINE n == Len(f)
           g == f \o c \o <<node>>
           S == Range(f) \cup Range(c) \cup {node}
<1>1. n \in Nat \ {0} /\ f \in Seq(S) /\ c \in Seq(S) /\ <<node>> \in Seq(S)
  BY FilterNodes DEF IsFilter
<1>2. /\ g \in Seq(S) /\ Len(g) = n + 2 /\ g[n + 1] = c[1] /\ g[n + 2] = node
      /\ \A i \in 1..n : g[i] = f[i]
  <2>1. node \in S
    OBVIOUS
  <2> HIDE DEF S
  <2> QED BY <1>1, <2>1, TwoMore
<1>3. /\ \A i \in 1..n : IsNode(f[i], i, multis)
      /\ IsNode(c[1], 1, multis)
  BY FilterNodes
<1>4. IsNode(c[1], n + 1, multis)
  BY <1>1, <1>3, NodeHigherUp
<1>5. IsNode(node, n + 2, multis)
  BY <1>1 DEF IsNode
<1>6. DOMAIN g = 1..(n + 2) /\ g # <<>>
  BY <1>1, <1>2
<1>7. \A i \in 1..(n + 2) : i \in 1..n \/ i = n + 1 \/ i = n + 2
  BY <1>1
<1> HIDE DEF g
<1>8. \A i \in DOMAIN g : IsNode(g[i], i, multis)
  BY <1>2, <1>3, <1>4, <1>5, <1>6, <1>7
<1>9. g \in Seq(Range(g))
  BY <1>2, OverItsNodes
<1> QED BY <1>6, <1>8, <1>9 DEF IsFilter, g

LEMMA TurnedIsAFilter ==
  ASSUME NEW multis, NEW f, IsFilter(f, multis)
  PROVE  IsFilter(Not(f), multis)
<1> DEFINE n == Len(f)
           node == [type |-> "not", filter |-> n]
           g == Append(f, node)
           S == Range(f) \cup {node}
<1>1. n \in Nat \ {0} /\ f \in Seq(S)
  BY FilterNodes DEF IsFilter
<1>2. /\ g \in Seq(S) /\ Len(g) = n + 1 /\ g[n + 1] = node
      /\ \A i \in 1..n : g[i] = f[i]
  BY <1>1
<1>3. \A i \in 1..n : IsNode(f[i], i, multis)
  BY FilterNodes
<1>4. IsNode(node, n + 1, multis)
  BY <1>1 DEF IsNode
<1>5. DOMAIN g = 1..(n + 1) /\ g # <<>> /\ \A i \in 1..(n + 1) : i \in 1..n \/ i = n + 1
  BY <1>1, <1>2
<1> HIDE DEF g, node
<1>6. \A i \in DOMAIN g : IsNode(g[i], i, multis)
  BY <1>2, <1>3, <1>4, <1>5
<1>7. g \in Seq(Range(g))
  BY <1>2, OverItsNodes
<1> QED BY <1>5, <1>6, <1>7 DEF IsFilter, g, node, Not

LEMMA EverythingIsAFilter ==
  ASSUME NEW multis
  PROVE  IsFilter(Everything, multis)
<1>1. Everything \in Seq({Everything[1]}) /\ Everything # <<>> /\ DOMAIN Everything = {1}
  BY DEF Everything
<1>2. IsNode(Everything[1], 1, multis)
  BY DEF Everything, IsNode
<1> QED BY <1>1, <1>2, OverItsNodes DEF IsFilter

LEMMA ScopedIsARow ==
  ASSUME NEW multis, NEW entry, IsRow(entry, multis), NEW row, IsRow(row, multis)
  PROVE  IsRow(Scoped(entry, row), multis) /\ AsListed(entry, row) = Scoped(entry, row)
BY DEF IsRow, Scoped, AsListed

LEMMA FilterNextKeeps ==
  ASSUME IsFilter(viewFilter, Multi), [FilterNext]_viewFilter
  PROVE  IsFilter(viewFilter, Multi)'
<1>1. CASE FirstCondition
  BY <1>1, FilterConstants DEF FirstCondition, Save
<1>2. CASE AddCondition
  <2>1. PICK c \in Combined : Save(And(viewFilter, c)) \/ Save(Or(c, viewFilter))
    BY <1>2 DEF AddCondition
  <2>2. IsFilter(c, Multi) /\ Len(c) = 1
    BY FilterConstants
  <2>3. IsFilter(And(viewFilter, c), Multi) /\ IsFilter(Or(c, viewFilter), Multi)
    BY <2>2, JoinedIsAFilter DEF And, Or
  <2> QED BY <2>1, <2>3 DEF Save
<1>3. CASE TurnOver
  BY <1>3, TurnedIsAFilter DEF TurnOver, Save
<1>4. CASE StartAgain
  BY <1>4, EverythingIsAFilter DEF StartAgain, Save
<1>5. CASE UNCHANGED viewFilter
  BY <1>5
<1> QED BY <1>1, <1>2, <1>3, <1>4, <1>5 DEF FilterNext

(* A saved filter keeps the rows its reader means, whatever the rows, the  *)
(* conditions and the tree: build_filter, build_condition and              *)
(* build_scoped_filter drop what they cannot place on every level, and     *)
(* three-valued logic agrees with the plain reading until a comparison     *)
(* with an unset value is turned over.                                     *)
THEOREM FiltersReadAsMeant == FilterSpec => []FilterMeans
<1>1. FilterInit => IsFilter(viewFilter, Multi)
  BY EverythingIsAFilter DEF FilterInit
<1>2. IsFilter(viewFilter, Multi) /\ [FilterNext]_viewFilter => IsFilter(viewFilter, Multi)'
  BY FilterNextKeeps
<1>3. IsFilter(viewFilter, Multi) => FilterMeans
  <2> SUFFICES ASSUME IsFilter(viewFilter, Multi), NEW row \in AskedRow
               PROVE  /\ Decides(Where(viewFilter, row, Multi), row)
                      /\ \A entry \in AskedEntry :
                           Decides(ListWhere(viewFilter, entry, row, Multi), AsListed(entry, row))
    BY DEF FilterMeans
  <2>1. IsRow(row, Multi) /\ \A entry \in AskedEntry : IsRow(entry, Multi)
    BY FilterConstants
  <2>2. Decides(Where(viewFilter, row, Multi), row)
    BY <2>1, WhereSaysWhatItMeans DEF Decides
  <2>3. ASSUME NEW entry \in AskedEntry
        PROVE  Decides(ListWhere(viewFilter, entry, row, Multi), AsListed(entry, row))
    BY <2>1, WhereSaysWhatItMeans, ScopedIsARow DEF Decides, ListWhere
  <2> QED BY <2>2, <2>3
<1> QED BY <1>1, <1>2, <1>3, PTL DEF FilterSpec

(***************************************************************************)
(* RecordQueries: the order of the rows, and pages of it                   *)
(***************************************************************************)
SortSpec == [key : STRING, desc : BOOLEAN]
(* Rows of one table: the same keys, single-valued.                        *)
Comparable(rows, ids) ==
  /\ ids \subseteq Int
  /\ \A a, b \in ids : DOMAIN rows[a] = DOMAIN rows[b]
  /\ \A a \in ids : \A k \in DOMAIN rows[a] : rows[a][k] \in Int \cup {Null}

LEMMA SoonerOrders ==
  ASSUME NEW d \in BOOLEAN, NEW u \in Int \cup {Null}, NEW v \in Int \cup {Null},
         NEW w \in Int \cup {Null}
  PROVE  /\ ~Sooner(u, u, d)
         /\ u # v => Sooner(u, v, d) \/ Sooner(v, u, d)
         /\ Sooner(u, v, d) /\ Sooner(v, w, d) => Sooner(u, w, d)
BY QueryConstants DEF Sooner

LEMMA UsedSortsAreNumbers ==
  ASSUME NEW sorts \in Seq(SortSpec), NEW row
  PROVE  /\ UsedSorts(sorts, row) \in SUBSET Nat
         /\ \A i \in UsedSorts(sorts, row) :
              sorts[i].desc \in BOOLEAN /\ sorts[i].key \in DOMAIN row
<1>1. \A i \in DOMAIN sorts : i \in Nat /\ sorts[i] \in SortSpec
  OBVIOUS
<1>2. \A s \in SortSpec : s.desc \in BOOLEAN
  BY DEF SortSpec
<1> QED BY <1>1, <1>2 DEF UsedSorts

(* Before, with what it compares at each sort.                             *)
LEMMA BeforeCompares ==
  ASSUME NEW rows, NEW ids, Comparable(rows, ids), NEW sorts \in Seq(SortSpec),
         NEW a \in ids, NEW b \in ids, NEW c \in ids
  PROVE  LET U == UsedSorts(sorts, rows[c])
             V(x, i) == rows[x][sorts[i].key]
         IN  /\ \A i \in U : V(a, i) \in Int \cup {Null}
             /\ Before(rows, sorts, a, b) <=>
                  \/ \E i \in U : /\ \A j \in U : j < i => V(a, j) = V(b, j)
                                  /\ Sooner(V(a, i), V(b, i), sorts[i].desc)
                  \/ (\A i \in U : V(a, i) = V(b, i)) /\ a < b
<1> DEFINE U == UsedSorts(sorts, rows[c])
<1>1. DOMAIN rows[a] = DOMAIN rows[c]
  BY DEF Comparable
<1>2. UsedSorts(sorts, rows[a]) = U
  BY <1>1 DEF UsedSorts
<1>3. \A i \in U : rows[a][sorts[i].key] \in Int \cup {Null}
  BY <1>1, UsedSortsAreNumbers DEF Comparable
<1> HIDE DEF U
<1> QED BY <1>2, <1>3 DEF Before, U

(* The order of a query is total: no two rows come in the same place.      *)
LEMMA BeforeIsATotalOrder ==
  ASSUME NEW rows, NEW ids, Comparable(rows, ids), NEW sorts \in Seq(SortSpec),
         NEW a \in ids, NEW b \in ids, NEW c \in ids
  PROVE  /\ ~Before(rows, sorts, a, a)
         /\ a # b => Before(rows, sorts, a, b) \/ Before(rows, sorts, b, a)
         /\ Before(rows, sorts, a, b) /\ Before(rows, sorts, b, c) => Before(rows, sorts, a, c)
<1> DEFINE U == UsedSorts(sorts, rows[a])
           D(i) == sorts[i].desc
           V(x, i) == rows[x][sorts[i].key]
           B(x, y) ==
             \/ \E i \in U : (\A j \in U : j < i => V(x, j) = V(y, j)) /\ Sooner(V(x, i), V(y, i), D(i))
             \/ (\A i \in U : V(x, i) = V(y, i)) /\ x < y
<1>1. \A x, y \in ids : Before(rows, sorts, x, y) <=> B(x, y)
  <2> SUFFICES ASSUME NEW x \in ids, NEW y \in ids
               PROVE  Before(rows, sorts, x, y) <=> B(x, y)
    OBVIOUS
  <2> QED BY BeforeCompares
<1>2. U \in SUBSET Nat /\ \A i \in U : D(i) \in BOOLEAN
  BY UsedSortsAreNumbers
<1>3. \A i \in U, x \in {a, b, c} : V(x, i) \in Int \cup {Null}
  BY BeforeCompares
<1>4. a \in Int /\ b \in Int /\ c \in Int
  BY DEF Comparable
<1> HIDE DEF U, V, D
<1>5. ~B(a, a)
  <2>1. \A i \in U : ~Sooner(V(a, i), V(a, i), D(i))
    BY <1>2, <1>3, SoonerOrders
  <2> QED BY <1>4, <2>1
<1>6. ASSUME a # b PROVE B(a, b) \/ B(b, a)
  <2>1. CASE \A i \in U : V(a, i) = V(b, i)
    BY <1>4, <1>6, <2>1
  <2>2. CASE \E i \in U : V(a, i) # V(b, i)
    <3> DEFINE Apart == {i \in U : V(a, i) # V(b, i)}
    <3>1. Apart \in SUBSET Nat /\ Apart # {}
      BY <1>2, <2>2
    <3>2. PICK i \in Apart : \A j \in Apart : i <= j
      BY <3>1, Least
    <3>3. i \in U /\ V(a, i) # V(b, i)
      BY <3>2
    <3>4. \A j \in U : j < i => V(a, j) = V(b, j)
      <4> SUFFICES ASSUME NEW j \in U, j < i, V(a, j) # V(b, j) PROVE FALSE
        OBVIOUS
      <4>1. j \in Apart
        OBVIOUS
      <4>2. i <= j /\ i \in Nat /\ j \in Nat
        BY <1>2, <3>2, <3>3, <4>1
      <4> QED BY <4>2
    <3>5. Sooner(V(a, i), V(b, i), D(i)) \/ Sooner(V(b, i), V(a, i), D(i))
      BY <1>2, <1>3, <3>3, SoonerOrders
    <3> QED BY <3>3, <3>4, <3>5
  <2> QED BY <2>1, <2>2
<1>7. ASSUME B(a, b), B(b, c) PROVE B(a, c)
  <2>1. CASE (\A i \in U : V(a, i) = V(b, i)) /\ a < b
    BY <1>4, <1>7, <2>1
  <2>2. CASE (\A i \in U : V(b, i) = V(c, i)) /\ b < c
    BY <1>4, <1>7, <2>2
  <2>3. ASSUME NEW i \in U, \A j \in U : j < i => V(a, j) = V(b, j),
               Sooner(V(a, i), V(b, i), D(i)),
               NEW k \in U, \A j \in U : j < k => V(b, j) = V(c, j),
               Sooner(V(b, k), V(c, k), D(k))
        PROVE  B(a, c)
    <3>1. i \in Nat /\ k \in Nat
      BY <1>2
    <3>2. CASE i < k
      <4>1. \A j \in U : j < i => V(a, j) = V(c, j)
        BY <1>2, <2>3, <3>1, <3>2
      <4>2. Sooner(V(a, i), V(c, i), D(i))
        BY <2>3, <3>2
      <4> QED BY <4>1, <4>2
    <3>3. CASE k < i
      <4>1. \A j \in U : j < k => V(a, j) = V(c, j)
        BY <1>2, <2>3, <3>1, <3>3
      <4>2. Sooner(V(a, k), V(c, k), D(k))
        BY <2>3, <3>3
      <4> QED BY <4>1, <4>2
    <3>4. CASE i = k
      <4>1. \A j \in U : j < i => V(a, j) = V(c, j)
        BY <2>3, <3>4
      <4>2. Sooner(V(a, i), V(c, i), D(i))
        BY <1>2, <1>3, <2>3, <3>4, SoonerOrders
      <4> QED BY <4>1, <4>2
    <3> QED BY <3>1, <3>2, <3>3, <3>4
  <2> QED BY <1>7, <2>1, <2>2, <2>3
<1> HIDE DEF B
<1> QED BY <1>1, <1>5, <1>6, <1>7

(* Elements of a finite set in a total order: each has its own number of   *)
(* predecessors, and every number below the size is one.                   *)
LEMMA Ranks ==
  ASSUME NEW S, IsFiniteSet(S), NEW below \in [S -> SUBSET S],
         \A a \in S : a \notin below[a],
         \A a, b \in S : a # b => a \in below[b] \/ b \in below[a],
         \A a, b \in S : a \in below[b] => below[a] \subseteq below[b]
  PROVE  /\ \A a, b \in S : Cardinality(below[a]) = Cardinality(below[b]) => a = b
         /\ \A a \in S : Cardinality(below[a]) \in 0..(Cardinality(S) - 1)
         /\ \A k \in 0..(Cardinality(S) - 1) : \E a \in S : Cardinality(below[a]) = k
<1> DEFINE n == Cardinality(S)
           rank == [a \in S |-> Cardinality(below[a])]
<1>1. n \in Nat
  BY FS_CardinalityType
<1>2. \A a \in S : IsFiniteSet(below[a]) /\ Cardinality(below[a]) \in Nat
  BY FS_Subset, FS_CardinalityType
<1>3. \A a \in S : Cardinality(below[a]) < n
  <2> SUFFICES ASSUME NEW a \in S PROVE Cardinality(below[a]) < n
    OBVIOUS
  <2>1. below[a] \in SUBSET S /\ below[a] # S
    OBVIOUS
  <2>2. Cardinality(below[a]) <= n /\ Cardinality(below[a]) # n
    BY <2>1, FS_Subset
  <2> QED BY <1>1, <1>2, <2>2
<1>4. \A a, b \in S : a \in below[b] => Cardinality(below[a]) < Cardinality(below[b])
  <2> SUFFICES ASSUME NEW a \in S, NEW b \in S, a \in below[b]
               PROVE  Cardinality(below[a]) < Cardinality(below[b])
    OBVIOUS
  <2>1. below[a] \in SUBSET below[b] /\ below[a] # below[b]
    OBVIOUS
  <2>2. /\ Cardinality(below[a]) <= Cardinality(below[b])
        /\ Cardinality(below[a]) # Cardinality(below[b])
    BY <1>2, <2>1, FS_Subset
  <2> QED BY <1>2, <2>2
<1>5. \A a, b \in S : Cardinality(below[a]) = Cardinality(below[b]) => a = b
  BY <1>2, <1>4
<1>6. \A a \in S : Cardinality(below[a]) \in 0..(n - 1)
  BY <1>1, <1>2, <1>3
<1>7. IsFiniteSet(0..(n - 1)) /\ Cardinality(0..(n - 1)) = n
  BY <1>1, FS_Interval
<1>8. rank \in Injection(S, 0..(n - 1))
  BY <1>5, <1>6 DEF Injection, IsInjective
<1>9. rank \in Surjection(S, 0..(n - 1))
  BY <1>7, <1>8, FS_Injection
<1>10. \A k \in 0..(n - 1) : \E a \in S : rank[a] = k
  BY <1>9 DEF Surjection
<1> QED BY <1>5, <1>6, <1>10

LEMMA SortedListsEachOnce ==
  ASSUME NEW rows, NEW ids, Comparable(rows, ids), IsFiniteSet(ids),
         NEW sorts \in Seq(SortSpec)
  PROVE  LET all == Sorted(rows, sorts, ids)
         IN  /\ all \in Seq(ids) /\ Len(all) = Cardinality(ids)
             /\ \A r \in ids : \E k \in 1..Len(all) : all[k] = r
             /\ \A j, k \in 1..Len(all) : all[j] = all[k] => j = k
<1> DEFINE n == Cardinality(ids)
           below == [r \in ids |-> {x \in ids : Before(rows, sorts, x, r)}]
           all == Sorted(rows, sorts, ids)
<1>1. n \in Nat
  BY FS_CardinalityType
<1>2. /\ below \in [ids -> SUBSET ids]
      /\ \A a \in ids : a \notin below[a]
      /\ \A a, b \in ids : a # b => a \in below[b] \/ b \in below[a]
      /\ \A a, b \in ids : a \in below[b] => below[a] \subseteq below[b]
  <2>1. \A a, b, c \in ids :
          /\ ~Before(rows, sorts, a, a)
          /\ a # b => Before(rows, sorts, a, b) \/ Before(rows, sorts, b, a)
          /\ Before(rows, sorts, a, b) /\ Before(rows, sorts, b, c) => Before(rows, sorts, a, c)
    BY BeforeIsATotalOrder
  <2> QED BY <2>1
<1>3. /\ all = [k \in 1..n |-> all[k]]
      /\ \A k \in 1..n :
           (\E r \in ids : Cardinality(below[r]) = k - 1)
             => all[k] \in ids /\ Cardinality(below[all[k]]) = k - 1
  <2> DEFINE Place(k) ==
        CHOOSE r \in ids : Cardinality({x \in ids : Before(rows, sorts, x, r)}) = k - 1
  <2>0. all = [k \in 1..n |-> Place(k)]
    BY Zenon DEF Sorted
  <2>1. /\ all = [k \in 1..n |-> all[k]]
        /\ \A k \in 1..n : all[k] = Place(k)
    <3> HIDE DEF all, Place, n
    <3> QED BY <2>0
  <2>2. \A r \in ids : below[r] = {x \in ids : Before(rows, sorts, x, r)}
    OBVIOUS
  <2> SUFFICES ASSUME NEW k \in 1..n, NEW r \in ids, Cardinality(below[r]) = k - 1
               PROVE  all[k] \in ids /\ Cardinality(below[all[k]]) = k - 1
    BY <2>1
  <2> HIDE DEF below, all, n
  <2>3. Cardinality({x \in ids : Before(rows, sorts, x, r)}) = k - 1
    BY <2>2
  <2>4. /\ all[k] \in ids
        /\ Cardinality({x \in ids : Before(rows, sorts, x, all[k])}) = k - 1
    BY <2>1, <2>3
  <2> QED BY <2>2, <2>4
<1> HIDE DEF below, all, n
<1>4. /\ \A a, b \in ids : Cardinality(below[a]) = Cardinality(below[b]) => a = b
      /\ \A a \in ids : Cardinality(below[a]) \in 0..(n - 1)
      /\ \A k \in 0..(n - 1) : \E a \in ids : Cardinality(below[a]) = k
  BY <1>2, Ranks DEF n
<1>5. \A k \in 1..n : all[k] \in ids /\ Cardinality(below[all[k]]) = k - 1
  <2> SUFFICES ASSUME NEW k \in 1..n
               PROVE  all[k] \in ids /\ Cardinality(below[all[k]]) = k - 1
    OBVIOUS
  <2>1. k - 1 \in 0..(n - 1)
    BY <1>1
  <2>2. \E a \in ids : Cardinality(below[a]) = k - 1
    BY <1>4, <2>1
  <2> QED BY <1>3, <2>2
<1>6. all \in Seq(ids) /\ Len(all) = n
  <2>1. all \in [1..n -> ids]
    BY <1>3, <1>5
  <2> QED BY <1>1, <2>1, SeqDef, LenProperties
<1>7. \A r \in ids : \E k \in 1..n : all[k] = r
  <2> SUFFICES ASSUME NEW r \in ids PROVE \E k \in 1..n : all[k] = r
    OBVIOUS
  <2>1. Cardinality(below[r]) \in 0..(n - 1)
    BY <1>4
  <2>2. PICK k \in 1..n : k - 1 = Cardinality(below[r])
    BY <1>1, <2>1
  <2> QED BY <1>4, <1>5, <2>2
<1>8. \A j, k \in 1..n : all[j] = all[k] => j = k
  <2> SUFFICES ASSUME NEW j \in 1..n, NEW k \in 1..n, all[j] = all[k] PROVE j = k
    OBVIOUS
  <2>1. j - 1 = k - 1
    BY <1>5
  <2> QED BY <1>1, <2>1
<1> QED BY <1>6, <1>7, <1>8 DEF all, n

LEMMA Multiples ==
  ASSUME NEW m \in Nat \ {0}, NEW j \in Nat, NEW k \in Nat
  PROVE  /\ k * m \in Nat /\ (k + 1) * m = k * m + m
         /\ j < k => j * m + m <= k * m
<1>1. k * m \in Nat /\ (k + 1) * m = k * m + m
  BY SMT
<1>2. ASSUME j < k PROVE j * m + m <= k * m
  <2>1. (k - (j + 1)) * m \in Nat /\ k - (j + 1) \in Nat
    BY <1>2, SMT
  <2>2. k * m = (j + 1) * m + (k - (j + 1)) * m
    BY SMT
  <2>3. (j + 1) * m = j * m + m /\ j * m \in Int
    BY SMT
  <2> QED BY <2>1, <2>2, <2>3
<1> QED BY <1>1, <1>2

LEMMA PageOfPosition ==
  ASSUME NEW m \in Nat \ {0}, NEW p \in Nat
  PROVE  p \div m \in Nat /\ (p \div m) * m <= p /\ p < (p \div m) * m + m
BY SMT

(* One page holds the rows from its offset on, as many as there are.       *)
LEMMA OnePage ==
  ASSUME NEW S, NEW all \in Seq(S), NEW m \in Nat \ {0}, NEW at \in Nat, at <= Len(all)
  PROVE  LET page == PageOf(all, m, at)
         IN  /\ page.total = Len(all) /\ (page.has_more <=> at + m < Len(all))
             /\ DOMAIN page.items = 1..(IF at + m < Len(all) THEN m ELSE Len(all) - at)
             /\ \A j \in DOMAIN page.items : page.items[j] = all[at + j]
<1> DEFINE n == Len(all)
           stop == IF at + m < n THEN at + m ELSE n
           items == SubSeq(all, at + 1, stop)
<1>1. n \in Nat /\ stop \in Nat /\ at <= stop /\ stop <= n
  BY LenProperties
<1>2. \A i \in (at + 1)..stop : all[i] \in S
  BY <1>1
<1>3. /\ items \in Seq(S) /\ Len(items) = stop - at
      /\ \A j \in 1..(stop - at) : items[j] = all[at + j]
  <2>1. /\ items \in Seq(S)
        /\ Len(items) = IF at + 1 <= stop THEN stop - (at + 1) + 1 ELSE 0
        /\ \A j \in 1..(stop - (at + 1) + 1) : items[j] = all[at + 1 + j - 1]
    <3> HIDE DEF stop
    <3> QED BY <1>1, <1>2, SubSeqProperties
  <2> HIDE DEF stop, items
  <2> QED BY <1>1, <2>1
<1>4. PageOf(all, m, at) = [items |-> items, total |-> n, has_more |-> at + Len(items) < n]
  BY DEF PageOf
<1>5. DOMAIN items = 1..(stop - at)
  BY <1>3
<1> HIDE DEF items
<1>6. at + Len(items) < n <=> at + m < n
  BY <1>1, <1>3
<1>7. DOMAIN items = 1..(IF at + m < n THEN m ELSE n - at)
  BY <1>1, <1>5
<1>8. \A j \in DOMAIN items : items[j] = all[at + j]
  BY <1>3, <1>5
<1> HIDE DEF stop
<1>9. /\ PageOf(all, m, at).items = items /\ PageOf(all, m, at).total = n
      /\ PageOf(all, m, at).has_more = (at + Len(items) < n)
  BY <1>4
<1> QED BY <1>6, <1>7, <1>8, <1>9

LEMMA PagesOfEveryOrder ==
  ASSUME NEW rows, NEW ids, Comparable(rows, ids), IsFiniteSet(ids),
         NEW sorts \in Seq(SortSpec), NEW limit \in Nat \ {0}
  PROVE  PagesCover(rows, sorts, ids, limit)
<1> DEFINE n == Cardinality(ids)
           all == Sorted(rows, sorts, ids)
           last == IF n = 0 THEN 0 ELSE (n - 1) \div limit
           Page(k) == PageOf(all, limit, k * limit)
           At(r) == {at \in (0..last) \X (1..limit) :
                           LET items == Page(at[1]).items
                           IN  at[2] \in DOMAIN items /\ items[at[2]] = r}
<1>1. /\ all \in Seq(ids) /\ Len(all) = n /\ n \in Nat
      /\ \A r \in ids : \E k \in 1..n : all[k] = r
      /\ \A j, k \in 1..n : all[j] = all[k] => j = k
  <2>1. n \in Nat
    BY FS_CardinalityType
  <2>2. /\ all \in Seq(ids) /\ Len(all) = n
        /\ \A r \in ids : \E k \in 1..Len(all) : all[k] = r
        /\ \A j, k \in 1..Len(all) : all[j] = all[k] => j = k
    BY SortedListsEachOnce
  <2> HIDE DEF all, n
  <2> QED BY <2>1, <2>2
<1> HIDE DEF all, n
<1>2. last \in Nat /\ last * limit <= n /\ n <= last * limit + limit
      /\ (n # 0 => last * limit < n)
  <2>1. CASE n = 0
    BY <2>1
  <2>2. CASE n # 0
    <3>1. n - 1 \in Nat
      BY <1>1, <2>2
    <3>2. last = (n - 1) \div limit
      BY <2>2
    <3>3. last \in Nat /\ last * limit <= n - 1 /\ n - 1 < last * limit + limit
      BY <3>1, <3>2, PageOfPosition
    <3>4. last * limit \in Nat
      BY <3>3, Multiples
    <3> HIDE DEF last
    <3> QED BY <1>1, <3>3, <3>4
  <2> QED BY <2>1, <2>2
<1>3. \A k \in 0..last : /\ k * limit \in Nat /\ k * limit <= n
                         /\ k * limit + limit < n <=> k < last
  <2> SUFFICES ASSUME NEW k \in 0..last
               PROVE  /\ k * limit \in Nat /\ k * limit <= n
                      /\ k * limit + limit < n <=> k < last
    OBVIOUS
  <2> HIDE DEF last
  <2>1. k \in Nat /\ k * limit \in Nat /\ last * limit \in Nat
    BY <1>2, Multiples
  <2>2. CASE k = last
    BY <1>1, <1>2, <2>1, <2>2
  <2>3. CASE k < last
    <3>1. k * limit + limit <= last * limit
      BY <1>2, <2>1, <2>3, Multiples
    <3>2. n # 0
      BY <1>2, <2>1, <2>3, <3>1
    <3> QED BY <1>1, <1>2, <2>1, <2>3, <3>1, <3>2
  <2> QED BY <1>2, <2>1, <2>2, <2>3
<1>4. \A k \in 0..last :
        /\ Page(k).total = n /\ (Page(k).has_more <=> k < last)
        /\ DOMAIN Page(k).items = 1..(IF k < last THEN limit ELSE n - k * limit)
        /\ \A j \in DOMAIN Page(k).items : Page(k).items[j] = all[k * limit + j]
  <2> SUFFICES ASSUME NEW k \in 0..last
               PROVE  /\ Page(k).total = n /\ (Page(k).has_more <=> k < last)
                      /\ DOMAIN Page(k).items = 1..(IF k < last THEN limit ELSE n - k * limit)
                      /\ \A j \in DOMAIN Page(k).items : Page(k).items[j] = all[k * limit + j]
    OBVIOUS
  <2> DEFINE at == k * limit
  <2>1. at \in Nat /\ at <= Len(all) /\ (at + limit < n <=> k < last)
    BY <1>1, <1>3
  <2> HIDE DEF at, last
  <2>2. /\ PageOf(all, limit, at).total = Len(all)
        /\ PageOf(all, limit, at).has_more <=> at + limit < Len(all)
        /\ DOMAIN PageOf(all, limit, at).items =
             1..(IF at + limit < Len(all) THEN limit ELSE Len(all) - at)
        /\ \A j \in DOMAIN PageOf(all, limit, at).items :
             PageOf(all, limit, at).items[j] = all[at + j]
    <3>1. all \in Seq(ids)
      BY <1>1
    <3> QED BY <2>1, <3>1, OnePage, ZenonT(30)
  <2> QED BY <1>1, <2>1, <2>2 DEF at
<1> HIDE DEF Page, last
<1>5. ASSUME NEW r \in ids PROVE Cardinality(At(r)) = 1
  <2>1. PICK p \in 1..n : all[p] = r
    BY <1>1
  <2> DEFINE k == (p - 1) \div limit
             j == p - k * limit
  <2>2. k \in Nat /\ k * limit <= p - 1 /\ p - 1 < k * limit + limit /\ k * limit \in Nat
    BY <2>1, PageOfPosition, Multiples
  <2> HIDE DEF k
  <2>3. j \in 1..limit /\ k * limit + j = p
    BY <2>1, <2>2
  <2> HIDE DEF j
  <2>4. k <= last
    <3> SUFFICES ASSUME last < k PROVE FALSE
      BY <1>2, <2>2
    <3>1. last * limit + limit <= k * limit /\ last * limit \in Nat
      BY <1>2, <2>2, Multiples
    <3> QED BY <1>1, <1>2, <2>1, <2>2, <3>1
  <2>5. k \in 0..last /\ j \in DOMAIN Page(k).items /\ Page(k).items[j] = r
    <3>1. k \in 0..last
      BY <1>2, <2>2, <2>4
    <3>2. j \in 1..(IF k < last THEN limit ELSE n - k * limit)
      BY <1>1, <2>1, <2>2, <2>3
    <3>3. j \in DOMAIN Page(k).items
      BY <1>4, <3>1, <3>2
    <3> QED BY <1>4, <2>1, <2>3, <3>1, <3>3
  <2>6. ASSUME NEW h \in 0..last, NEW i \in 1..limit,
               i \in DOMAIN Page(h).items, Page(h).items[i] = r
        PROVE  h = k /\ i = j
    <3>1. i \in 1..(IF h < last THEN limit ELSE n - h * limit) /\ all[h * limit + i] = r
      BY <1>4, <2>6
    <3>2. h \in Nat /\ h * limit \in Nat /\ h * limit <= n /\ (h * limit + limit < n <=> h < last)
      BY <1>2, <1>3
    <3>3. h * limit + i \in 1..n
      BY <1>1, <3>1, <3>2
    <3>4. h * limit + i = p
      BY <1>1, <2>1, <3>1, <3>3
    <3>5. ~(h < k) /\ ~(k < h)
      <4>1. h < k => h * limit + limit <= k * limit
        BY <2>2, <3>2, Multiples
      <4>2. k < h => k * limit + limit <= h * limit
        BY <2>2, <3>2, Multiples
      <4> QED BY <2>1, <2>2, <3>2, <3>4, <4>1, <4>2
    <3>6. h = k
      BY <2>2, <3>2, <3>5
    <3> QED BY <2>2, <2>3, <3>4, <3>6
  <2>7. At(r) = {<<k, j>>}
    <3>1. <<k, j>> \in At(r)
      BY <2>3, <2>5
    <3>2. \A at \in At(r) : at = <<k, j>>
      BY <2>6
    <3> QED BY <3>1, <3>2
  <2> QED BY <2>7, FS_Singleton
<1>6. PageOf(all, limit, (last + 1) * limit).items = <<>>
  <2>1. (last + 1) * limit = last * limit + limit /\ last * limit \in Nat
    BY <1>2, Multiples
  <2> DEFINE off == (last + 1) * limit
  <2>2. off \in Nat /\ n <= off
    BY <1>1, <1>2, <2>1
  <2> HIDE DEF off
  <2>3. PageOf(all, limit, off).items = SubSeq(all, off + 1, n)
    BY <1>1, <2>2 DEF PageOf
  <2>4. SubSeq(all, off + 1, n) = <<>>
    BY <1>1, <2>2, SubSeqEmpty
  <2> QED BY <2>3, <2>4 DEF off
<1> QED BY <1>4, <1>5, <1>6 DEF PagesCover, Page, last, n, all

(***************************************************************************)
(* Pipeline: the rows of a view, counted four ways                         *)
(***************************************************************************)
LEMMA SqlOfPrefix ==
  ASSUME NEW multis, NEW f, IsFilter(f, multis), NEW g, IsFilter(g, multis),
         NEW row, IsRow(row, multis), Len(f) <= Len(g), \A i \in 1..Len(f) : g[i] = f[i]
  PROVE  \A i \in 1..Len(f) : Sql(g, row, multis)[i] = Sql(f, row, multis)[i]
<1> DEFINE sf == Sql(f, row, multis)
           sg == Sql(g, row, multis)
           S == {i \in 1..Len(f) : sg[i] = sf[i]}
<1>1. Len(f) \in Nat /\ Len(g) \in Nat
  BY FilterNodes
<1>2. \A i \in 1..Len(f) : sf[i] = NodeSql(f[i], sf, row, multis)
  BY SqlOfFilter
<1>3. \A i \in 1..Len(f) : sg[i] = NodeSql(f[i], sg, row, multis)
  <2>1. \A i \in 1..Len(g) : sg[i] = NodeSql(g[i], sg, row, multis)
    BY SqlOfFilter
  <2> HIDE DEF sg
  <2> QED BY <1>1, <2>1
<1> HIDE DEF sf, sg
<1>4. ASSUME NEW i \in 1..Len(f), \A k \in 1..(i - 1) : k \in S PROVE i \in S
  <2>1. \A k \in 1..(i - 1) : sg[k] = sf[k]
    BY <1>4
  <2> HIDE DEF S
  <2>2. NodeSql(f[i], sg, row, multis) = NodeSql(f[i], sf, row, multis)
    BY <2>1, SqlLooksBack, ZenonT(30)
  <2>3. sg[i] = sf[i]
    BY <1>2, <1>3, <2>2
  <2> QED BY <2>3 DEF S
<1> HIDE DEF S
<1>5. \A i \in 1..Len(f) : i \in S
  BY <1>1, <1>4, TableInduction
<1> QED BY <1>5 DEF S, sf, sg

(* A condition added with "and" keeps those of the rows it is true of.     *)
LEMMA AndNarrows ==
  ASSUME NEW multis, NEW f, IsFilter(f, multis), NEW c, IsFilter(c, multis), Len(c) = 1,
         c[1].type = "condition", NEW row, IsRow(row, multis), ~Unplaced(c[1], row)
  PROVE  Where(And(f, c), row, multis) <=>
           Where(f, row, multis) /\ SqlCondition(c[1], row, multis) = "true"
<1> DEFINE n == Len(f)
           both == [type |-> "and", filters |-> {n, n + 1}]
           g == f \o c \o <<both>>
           sf == Sql(f, row, multis)
           sg == Sql(g, row, multis)
           S == Range(f) \cup Range(c) \cup {both}
<1>1. n \in Nat \ {0} /\ f \in Seq(S) /\ c \in Seq(S) /\ both \in S
  BY FilterNodes DEF IsFilter
<1>2. /\ g \in Seq(S) /\ Len(g) = n + 2 /\ g[n + 1] = c[1] /\ g[n + 2] = both
      /\ \A i \in 1..n : g[i] = f[i]
  <2> HIDE DEF S, both
  <2> QED BY <1>1, TwoMore
<1>3. And(f, c) = g
  BY DEF And
<1>4. IsFilter(g, multis)
  <2>1. both.type \in {"and", "or"} /\ both.filters = {Len(f), Len(f) + 1}
    OBVIOUS
  <2> HIDE DEF both
  <2> QED BY <2>1, JoinedIsAFilter
<1>5. both.type = "and" /\ both.filters = {n, n + 1}
  OBVIOUS
<1> HIDE DEF g, S, both
<1>6. \A i \in 1..(n + 2) : sg[i] = NodeSql(g[i], sg, row, multis) /\ sg[i] \in SqlValue
  BY <1>2, <1>4, SqlOfFilter
<1>7. n \in 1..n /\ n \in 1..(n + 2) /\ n + 1 \in 1..(n + 2) /\ n + 2 \in 1..(n + 2)
  BY <1>1
<1>8. sg[n] = sf[n] /\ sf[n] \in SqlValue
  <2>1. Len(f) <= Len(g) /\ \A i \in 1..Len(f) : g[i] = f[i]
    BY <1>1, <1>2
  <2>2. \A i \in 1..n : sg[i] = sf[i]
    BY <1>4, <2>1, SqlOfPrefix
  <2> QED BY <1>6, <1>7, <2>2
<1> HIDE DEF sg, sf
<1>9. sg[n + 1] = SqlCondition(c[1], row, multis) /\ sg[n + 1] # "1"
  <2>1. IsCondition(c[1], multis)
    BY FilterNodes DEF IsNode
  <2>2. sg[n + 1] = SqlCondition(c[1], row, multis)
    BY <1>2, <1>6, <1>7 DEF NodeSql
  <2> QED BY <2>1, <2>2, ConditionValue
<1>10. sg[n + 2] = Joined("and", {sg[n], sg[n + 1]} \ {"1"})
  <2>1. sg[n + 2] = Joined("and", {sg[k] : k \in {n, n + 1}} \ {"1"})
    BY <1>2, <1>5, <1>6, <1>7 DEF NodeSql
  <2>2. {sg[k] : k \in {n, n + 1}} = {sg[n], sg[n + 1]}
    OBVIOUS
  <2> QED BY <2>1, <2>2
<1>11. sg[n + 2] \in {"true", "1"} <=> sf[n] \in {"true", "1"} /\ sg[n + 1] = "true"
  BY <1>6, <1>7, <1>8, <1>9, <1>10 DEF Joined, SqlAnd, SqlValue
<1>12. ~IsEmptyFilter(g)
  <2>1. n + 1 \in DOMAIN g
    BY <1>1, <1>2
  <2> QED BY <1>2, <2>1 DEF IsEmptyFilter
<1>13. Where(f, row, multis) <=> sf[n] \in {"true", "1"}
  <2>1. IsEmptyFilter(f) => sf[n] = "1"
    BY <1>7, EmptyConstrainsNothing, PlacedFilter DEF sf
  <2> QED BY <2>1 DEF Where, sf
<1>14. Where(g, row, multis) <=> sg[n + 2] \in {"true", "1"}
  BY <1>2, <1>12 DEF Where, sg
<1> QED BY <1>3, <1>9, <1>11, <1>13, <1>14

LEMMA BoardRows ==
  ASSUME BoardTypeOK, NEW r \in DOMAIN Rows
  PROVE  /\ r \in Deal /\ r \in Int /\ IsRow(Rows[r], {}) /\ DOMAIN Rows[r] = {"stage", "amount"}
         /\ Rows[r].stage = rec[r].stage /\ Rows[r]["stage"] = rec[r].stage
         /\ rec[r].stage \in Int \cup {Null}
         /\ \A k \in {"stage", "amount"} : Rows[r][k] \in Int \cup {Null}
<1>1. r \in Deal /\ Rows[r] = [stage |-> rec[r].stage, amount |-> rec[r].amount]
  BY DEF Rows
<1>2. rec[r].stage \in Int \cup {Null} /\ rec[r].amount \in Int \cup {Null} /\ r \in Int
  BY <1>1, PipelineConstants DEF BoardTypeOK, RecordState, Stage
<1> QED BY <1>1, <1>2 DEF IsRow

LEMMA ColumnIsACondition ==
  ASSUME NEW o \in Int \cup {Null}
  PROVE  /\ IsFilter(ColumnCondition(o), {}) /\ Len(ColumnCondition(o)) = 1
         /\ ColumnCondition(o)[1].type = "condition"
         /\ ColumnCondition(o)[1].key = "stage"
         /\ IF o = Null THEN ColumnCondition(o)[1].op = "is_empty"
            ELSE ColumnCondition(o)[1].op = "eq" /\ ColumnCondition(o)[1].value = o
<1> DEFINE cc == ColumnCondition(o)
<1>1. /\ cc \in Seq({cc[1]}) /\ cc # <<>> /\ DOMAIN cc = {1} /\ Len(cc) = 1
      /\ cc[1].type = "condition" /\ cc[1].key = "stage"
      /\ IF o = Null THEN cc[1].op = "is_empty" ELSE cc[1].op = "eq" /\ cc[1].value = o
  <2>1. CASE o = Null
    <3>1. cc = <<[type |-> "condition", key |-> "stage", op |-> "is_empty", value |-> Null]>>
      BY <2>1 DEF ColumnCondition, Condition
    <3> HIDE DEF cc
    <3> QED BY <2>1, <3>1
  <2>2. CASE o # Null
    <3>1. cc = <<[type |-> "condition", key |-> "stage", op |-> "eq", value |-> o]>>
      BY <2>2 DEF ColumnCondition, Condition
    <3> HIDE DEF cc
    <3> QED BY <2>2, <3>1
  <2> QED BY <2>1, <2>2
<1> HIDE DEF cc
<1>2. IsNode(cc[1], 1, {})
  BY <1>1 DEF IsNode, IsCondition
<1>3. cc \in Seq(Range(cc))
  BY <1>1, OverItsNodes
<1> QED BY <1>1, <1>2, <1>3 DEF IsFilter, cc

(* A column of the board holds the view's rows of its stage.               *)
LEMMA ColumnsOfAView ==
  ASSUME BoardTypeOK, NEW f, IsFilter(f, {}), NEW o \in Int \cup {Null}, NEW d \in BOOLEAN
  PROVE  Column(f, o, d) = {r \in Source(f, d) : rec[r].stage = o}
<1> DEFINE c == ColumnCondition(o)
<1>1. ASSUME NEW r \in DOMAIN Rows
      PROVE  Where(And(f, c), Rows[r], {}) <=> Where(f, Rows[r], {}) /\ rec[r].stage = o
  <2>1. /\ IsRow(Rows[r], {}) /\ DOMAIN Rows[r] = {"stage", "amount"}
        /\ Rows[r]["stage"] = rec[r].stage
    BY BoardRows
  <2>2. /\ IsFilter(c, {}) /\ Len(c) = 1 /\ c[1].type = "condition" /\ c[1].key = "stage"
        /\ IF o = Null THEN c[1].op = "is_empty" ELSE c[1].op = "eq" /\ c[1].value = o
    BY ColumnIsACondition
  <2> HIDE DEF c
  <2>3. ~Unplaced(c[1], Rows[r])
    BY <2>1, <2>2 DEF Unplaced
  <2>4. SqlCondition(c[1], Rows[r], {}) = "true" <=> rec[r].stage = o
    <3>1. CASE o = Null
      BY <2>1, <2>2, <3>1 DEF SqlCondition, Truth
    <3>2. CASE o # Null
      BY <2>1, <2>2, <3>2 DEF SqlCondition, AnyOf, Compared, Truth
    <3> QED BY <3>1, <3>2
  <2> QED BY <2>1, <2>2, <2>3, <2>4, AndNarrows
<1> HIDE DEF c
<1>2. Source(And(f, c), d) = {r \in Source(f, d) : rec[r].stage = o}
  BY <1>1 DEF Source
<1> QED BY <1>2 DEF Column, c

(* Adding up the counts of the buckets counts each of their rows once.     *)
LEMMA CountsAddUp ==
  ASSUME NEW shown, NEW ids \in SUBSET Deal,
         \A r \in ids : rec[r].stage \in shown
  PROVE  Cardinality({at \in shown \X Deal : at[2] \in ids /\ rec[at[2]].stage = at[1]})
           = Cardinality(ids)
<1> DEFINE T == {at \in shown \X Deal : at[2] \in ids /\ rec[at[2]].stage = at[1]}
           h == [r \in ids |-> <<rec[r].stage, r>>]
<1>1. IsFiniteSet(ids)
  BY PipelineConstants, FS_Subset
<1>2. h \in [ids -> T] /\ \A r, q \in ids : h[r] = h[q] => r = q
  OBVIOUS
<1>3. \A at \in T : at[2] \in ids /\ h[at[2]] = at
  OBVIOUS
<1> HIDE DEF h, T
<1>4. h \in Bijection(ids, T)
  BY <1>2, <1>3 DEF Bijection, Injection, Surjection, IsInjective
<1>5. Cardinality(T) = Cardinality(ids)
  BY <1>1, <1>4, FS_Bijection DEF ExistsBijection
<1> QED BY <1>5 DEF T

LEMMA BoardCountsEveryRowOnce ==
  ASSUME BoardTypeOK
  PROVE  EveryRowOnce
<1> SUFFICES ASSUME NEW f \in Filters, NEW deleted \in BOOLEAN
             PROVE  LET ids == Source(f, deleted)
                        columns == options \cup {Null}
                        placed == {r \in ids : rec[r].stage \in columns}
                    IN  /\ \A s \in Sorts : PagesCover(Rows, s, ids, PageSize)
                        /\ \A o \in columns : Column(f, o, deleted) = {r \in ids : rec[r].stage = o}
                        /\ ~deleted => \A closed \in BOOLEAN :
                             LET report == Report(f, closed)
                                 shown == Stages(closed) \cup {Null}
                             IN  /\ report.total = Cardinality({r \in placed : rec[r].stage \in shown})
                                 /\ \A o \in shown :
                                      /\ report.counts[o] = Cardinality(Column(f, o, FALSE))
                                      /\ report.values[o] = Value(Column(f, o, FALSE))
  BY DEF EveryRowOnce
<1>1. IsFilter(f, {}) /\ IsFiniteSet(Deal) /\ PageSize \in Nat \ {0}
  BY PipelineConstants
<1>2. \A d \in BOOLEAN : Source(f, d) \in SUBSET Deal /\ Source(f, d) \subseteq DOMAIN Rows
  BY DEF Source, Rows
<1>3. \A s \in Sorts : PagesCover(Rows, s, Source(f, deleted), PageSize)
  <2>1. Comparable(Rows, Source(f, deleted))
    BY <1>2, BoardRows DEF Comparable
  <2>2. IsFiniteSet(Source(f, deleted))
    BY <1>1, <1>2, FS_Subset
  <2>3. \A s \in Sorts : s \in Seq(SortSpec)
    BY PipelineConstants DEF SortSpec
  <2> QED BY <1>1, <2>1, <2>2, <2>3, PagesOfEveryOrder
<1>4. options \subseteq Int
  BY PipelineConstants DEF BoardTypeOK
<1>5. \A o \in options \cup {Null}, d \in BOOLEAN :
        Column(f, o, d) = {r \in Source(f, d) : rec[r].stage = o}
  <2> SUFFICES ASSUME NEW o \in options \cup {Null}, NEW d \in BOOLEAN
               PROVE  Column(f, o, d) = {r \in Source(f, d) : rec[r].stage = o}
    OBVIOUS
  <2>1. o \in Int \cup {Null}
    BY <1>4
  <2> QED BY <1>1, <2>1, ColumnsOfAView
<1>6. ASSUME ~deleted, NEW closed \in BOOLEAN
      PROVE  LET report == Report(f, closed)
                 shown == Stages(closed) \cup {Null}
                 placed == {r \in Source(f, deleted) : rec[r].stage \in options \cup {Null}}
             IN  /\ report.total = Cardinality({r \in placed : rec[r].stage \in shown})
                 /\ \A o \in shown :
                      /\ report.counts[o] = Cardinality(Column(f, o, FALSE))
                      /\ report.values[o] = Value(Column(f, o, FALSE))
  <2> DEFINE shown == Stages(closed) \cup {Null}
             ids == {r \in Source(f, FALSE) : rec[r].stage \in shown}
             report == Report(f, closed)
  <2>1. shown \subseteq options \cup {Null} /\ deleted = FALSE
    BY <1>6 DEF Stages
  <2>2. /\ report.total = Cardinality({at \in shown \X Deal : at[2] \in Bucket(f, at[1])})
        /\ report.counts = [o \in shown |-> Cardinality(Bucket(f, o))]
        /\ report.values = [o \in shown |-> Value(Bucket(f, o))]
    BY DEF Report
  <2>3. \A o \in shown : Bucket(f, o) = Column(f, o, FALSE)
    BY <1>5, <2>1 DEF Bucket
  <2>4. {at \in shown \X Deal : at[2] \in Bucket(f, at[1])}
          = {at \in shown \X Deal : at[2] \in ids /\ rec[at[2]].stage = at[1]}
    BY DEF Bucket
  <2>5. ids \in SUBSET Deal /\ \A r \in ids : rec[r].stage \in shown
    BY <1>2
  <2>6. {r \in {q \in Source(f, deleted) : rec[q].stage \in options \cup {Null}} :
           rec[r].stage \in shown} = ids
    BY <2>1
  <2> HIDE DEF shown, report, ids
  <2>7. report.total = Cardinality(ids)
    <3>1. Cardinality({at \in shown \X Deal : at[2] \in ids /\ rec[at[2]].stage = at[1]})
            = Cardinality(ids)
      BY <2>5, CountsAddUp
    <3> QED BY <2>2, <2>4, <3>1
  <2>8. \A o \in shown : /\ report.counts[o] = Cardinality(Column(f, o, FALSE))
                         /\ report.values[o] = Value(Column(f, o, FALSE))
    <3> SUFFICES ASSUME NEW o \in shown
                 PROVE  /\ report.counts[o] = Cardinality(Column(f, o, FALSE))
                        /\ report.values[o] = Value(Column(f, o, FALSE))
      OBVIOUS
    <3> QED BY <2>2, <2>3
  <2> QED BY <2>6, <2>7, <2>8 DEF shown, report
<1> QED BY <1>3, <1>5, <1>6

(* The pages of a table, the columns of its board and the buckets of its   *)
(* report are the same rows, each once, in whatever order they are asked   *)
(* for: the id that ends every ORDER BY makes the order total, the column  *)
(* narrows the view's filter, and the report groups what the filter keeps. *)
THEOREM RowsCountedOnce == PipelineSpec => [](EveryRowOnce /\ EveryRowOnceUnmoved)
<1>1. FunnelInv => EveryRowOnce /\ EveryRowOnceUnmoved
  BY BoardCountsEveryRowOnce DEF FunnelInv, EveryRowOnceUnmoved
<1> QED BY <1>1, InitFunnel, NextKeepsFunnel, PTL DEF PipelineSpec
=================================================================================
