--------------------------------- MODULE Schema ---------------------------------
(***************************************************************************)
(* The tables that say what the workspace holds (objects, their fields,    *)
(* saved views and lists) and the rows that hang off them, as the handlers *)
(* of api/objects.rs and api/views.rs change them.                         *)
(*                                                                         *)
(* A table is a set of rows.  Every store call takes the one connection    *)
(* mutex, so it is one step.  A handler whose later call repeats the check *)
(* of its earlier one is that later call alone: what it read before cannot *)
(* change what is written.  Three handlers do rely on what an earlier lock *)
(* saw, and are two steps: picking an object's title field, deleting a     *)
(* field, and adding a field to a list.  Two clients' steps interleave.    *)
(*                                                                         *)
(* Ids are fresh, but for the seeded rows', which are the same at every    *)
(* start.  Values are reduced to the set of slugs a bag has a value for;   *)
(* links, soft deletes and timelines are RecordStore's and TaskSweep's.    *)
(***************************************************************************)
EXTENDS Integers, FiniteSets

CONSTANTS Client,
          ObjectId, FieldId, ViewId, ListId, RecordId,
          Slug,         \* field slugs
          NameSlug,     \* the slug of the title field create_object adds
          Standard,     \* the seeded objects
          SeedField,    \* the seeded fields: rows of table fields
          SeedView,     \* the seeded views: rows of table views
          TitleOfSeed,  \* the title field a seeded object starts with
          MaxPosition,  \* bound on a view's position
          Position,     \* the positions clients ask for
          None,         \* SQL NULL
          Raw           \* a stored title that is no field id: a slug, or blank

FieldRow == [id : FieldId, obj : ObjectId, list : ListId \cup {None},
             slug : Slug, system : BOOLEAN]
ViewRow == [id : ViewId, obj : ObjectId, default : BOOLEAN, pos : 0..MaxPosition]

(* What seed_objects returns: per object one system title field, slugs     *)
(* that differ, and exactly one default view.                              *)
SeedsSound ==
  /\ SeedField \subseteq FieldRow /\ SeedView \subseteq ViewRow
  /\ \A f \in SeedField : f.obj \in Standard /\ f.list = None
  /\ \A v \in SeedView : v.obj \in Standard
  /\ \A f, g \in SeedField : f.id = g.id \/ (f.obj = g.obj /\ f.slug = g.slug) => f = g
  /\ \A v, w \in SeedView : v.id = w.id \/ (v.obj = w.obj /\ v.default /\ w.default) => v = w
  /\ \A o \in Standard :
       /\ \E v \in SeedView : v.obj = o /\ v.default
       /\ \E f \in SeedField : f.id = TitleOfSeed[o] /\ f.obj = o /\ f.system

ASSUME SchemaConstants ==
  /\ Standard \subseteq ObjectId /\ TitleOfSeed \in [Standard -> FieldId]
  /\ NameSlug \in Slug /\ MaxPosition \in Nat /\ Position \subseteq 0..MaxPosition
  /\ None \notin ListId /\ Raw \notin FieldId
  /\ SeedsSound

VARIABLES objects,  \* rows [id, title]; is_standard is "id in Standard"
          fields, views, lists, records, entries,
          spent,    \* ids handed out, which new_id never returns again
          call,     \* per client: the handler between its two locks
          raced,    \* history: which checks another handler ran in between
          reseeded  \* history: objects whose deleted default view came back

tables == <<objects, fields, views, lists, records, entries>>
vars == <<tables, spent, call, raced, reseeded>>

ObjectRow == [id : ObjectId, title : FieldId \cup {Raw}]
ListRow == [id : ListId, obj : ObjectId]
RecordRow == [id : RecordId, obj : ObjectId, bag : SUBSET Slug]
EntryRow == [list : ListId, rec : RecordId, bag : SUBSET Slug]
Idle == [op |-> "idle"]
Call == {Idle}
  \cup [op : {"patch_object"}, obj : ObjectId, title : FieldId \cup {Raw}]
  \cup [op : {"delete_field"}, field : FieldRow]
  \cup [op : {"create_list_field"}, obj : ObjectId, list : ListId, slug : Slug]

(* Every table holds rows of its own shape, and a call in flight is one of *)
(* the three two-step handlers: store/schema.rs, models.rs.                *)
TypeOK ==
  /\ objects \subseteq ObjectRow /\ fields \subseteq FieldRow
  /\ views \subseteq ViewRow /\ lists \subseteq ListRow
  /\ records \subseteq RecordRow /\ entries \subseteq EntryRow
  /\ spent \subseteq ObjectId \cup FieldId \cup ViewId \cup ListId \cup RecordId
  /\ call \in [Client -> Call]
  /\ raced \subseteq {"title", "list"} /\ reseeded \subseteq ObjectId

Ids(table) == {row.id : row \in table}
Live(o) == o \in Ids(objects)
TitleOf(o) == (CHOOSE row \in objects : row.id = o).title
(* load_fields and load_list_fields.                                       *)
FieldsOf(o) == {f \in fields : f.obj = o /\ f.list = None}
ListFieldsOf(l) == {f \in fields : f.list = l}
Slugs(fs) == {f.slug : f \in fs}
ViewsOf(o) == {v \in views : v.obj = o}
DefaultsOf(o) == {v \in ViewsOf(o) : v.default}

(* next_position over the views of an object.                              *)
NextPosition(o) ==
  IF ViewsOf(o) = {} THEN 0
  ELSE 1 + (CHOOSE v \in ViewsOf(o) : \A w \in ViewsOf(o) : w.pos <= v.pos).pos

Undefault(o) == {IF v.obj = o THEN [v EXCEPT !.default = FALSE] ELSE v : v \in views}

(* INSERT OR IGNORE of every seeded row: by id, and a field also by the    *)
(* unique index on its object's slugs.                                     *)
MissingFields ==
  {f \in SeedField : f.id \notin Ids(fields) /\ f.slug \notin Slugs(FieldsOf(f.obj))}
MissingViews == {v \in SeedView : v.id \notin Ids(views)}

Init ==
  /\ objects = {[id |-> o, title |-> TitleOfSeed[o]] : o \in Standard}
  /\ fields = SeedField /\ views = SeedView
  /\ lists = {} /\ records = {} /\ entries = {}
  /\ spent = Standard \cup Ids(SeedField) \cup Ids(SeedView)
  /\ call = [c \in Client |-> Idle]
  /\ raced = {} /\ reseeded = {}

(* The process stops, its handlers with it, and opens the store again.     *)
Restart ==
  /\ fields' = fields \cup MissingFields
  /\ views' = views \cup MissingViews
  /\ reseeded' = reseeded \cup {v.obj : v \in {w \in MissingViews : w.default}}
  /\ call' = [c \in Client |-> Idle]
  /\ UNCHANGED <<objects, lists, records, entries, spent, raced>>

(* Mistakes the properties must find: a cascade that forgets the lists'    *)
(* entries, a delete that promotes nobody, one that forgets the title, and *)
(* one that strips records only.                                           *)
DeleteObjectNotEntries(o) ==
  /\ Live(o) /\ o \notin Standard
  /\ records' = {r \in records : r.obj # o}
  /\ fields' = {f \in fields : f.obj # o}
  /\ views' = {v \in views : v.obj # o}
  /\ lists' = {l \in lists : l.obj # o}
  /\ objects' = {row \in objects : row.id # o}
  /\ UNCHANGED <<entries, spent, call, raced, reseeded>>
DeleteViewOnly(v) ==
  /\ v \in views /\ ViewsOf(v.obj) # {v}
  /\ views' = views \ {v}
  /\ UNCHANGED <<objects, fields, lists, records, entries, spent, call, raced, reseeded>>
CheckSystemOnly(c, f) ==
  /\ call[c] = Idle
  /\ f \in fields /\ ~f.system
  /\ call' = [call EXCEPT ![c] = [op |-> "delete_field", field |-> f]]
  /\ UNCHANGED <<tables, spent, raced, reseeded>>
StripRecords(rows, scope, slug) ==
  {IF row \in scope \cap records THEN [row EXCEPT !.bag = @ \ {slug}] ELSE row : row \in rows}

(***************************************************************************)
(* Objects.                                                                *)
(***************************************************************************)
CreateObject(o, f, v) ==
  /\ {o, f, v} \cap spent = {}
  /\ objects' = objects \cup {[id |-> o, title |-> f]}
  /\ fields' = fields \cup {[id |-> f, obj |-> o, list |-> None,
                             slug |-> NameSlug, system |-> TRUE]}
  /\ views' = views \cup {[id |-> v, obj |-> o, default |-> TRUE, pos |-> 0]}
  /\ spent' = spent \cup {o, f, v}
  /\ UNCHANGED <<lists, records, entries, call, raced, reseeded>>

(* The two handlers that can undo each other's check are both in flight.   *)
TitleRace(calls, o) ==
  /\ \E c \in Client : calls[c].op = "patch_object" /\ calls[c].obj = o
  /\ \E c \in Client : calls[c].op = "delete_field" /\ calls[c].field.obj = o
NoteRace(o) ==
  raced' = IF TitleRace(call', o) THEN raced \cup {"title"} ELSE raced

(* PATCH /objects/:object: the title is looked up by id or slug, trimmed,  *)
(* and a blank one is not looked up at all; then update_object stores the  *)
(* string as it came.                                                      *)
CheckTitle(c, o, title) ==
  /\ call[c] = Idle /\ Live(o)
  /\ title # Raw => title \in Ids(FieldsOf(o))
  /\ call' = [call EXCEPT ![c] = [op |-> "patch_object", obj |-> o, title |-> title]]
  /\ NoteRace(o)
  /\ UNCHANGED <<tables, spent, reseeded>>

StoreTitle(c) ==
  /\ call[c].op = "patch_object"
  /\ objects' = {IF row.id = call[c].obj THEN [row EXCEPT !.title = call[c].title]
                                         ELSE row : row \in objects}
  /\ call' = [call EXCEPT ![c] = Idle]
  /\ UNCHANGED <<fields, views, lists, records, entries, spent, raced, reseeded>>

(* The cascade of delete_object, in one transaction.                       *)
DeleteObject(o) ==
  /\ Live(o) /\ o \notin Standard
  /\ LET gone == Ids({l \in lists : l.obj = o})
     IN  entries' = {e \in entries : e.list \notin gone}
  /\ records' = {r \in records : r.obj # o}
  /\ fields' = {f \in fields : f.obj # o}
  /\ views' = {v \in views : v.obj # o}
  /\ lists' = {l \in lists : l.obj # o}
  /\ objects' = {row \in objects : row.id # o}
  /\ UNCHANGED <<spent, call, raced, reseeded>>

(***************************************************************************)
(* Fields.                                                                 *)
(***************************************************************************)
Insert(f, o, l, slug) ==
  /\ f \notin spent
  /\ fields' = fields \cup {[id |-> f, obj |-> o, list |-> l, slug |-> slug,
                             system |-> FALSE]}
  /\ spent' = spent \cup {f}
  /\ UNCHANGED <<objects, views, lists, records, entries, raced, reseeded>>

CreateField(f, o, slug) ==
  /\ Live(o) /\ slug \notin Slugs(FieldsOf(o))
  /\ Insert(f, o, None, slug)
  /\ UNCHANGED call

(* The handler resolves the list; create_field then looks only at the      *)
(* object and at the slugs of the list's fields.                           *)
ResolveList(c, l, slug) ==
  /\ call[c] = Idle
  /\ \E row \in lists : row.id = l /\
       call' = [call EXCEPT ![c] =
         [op |-> "create_list_field", obj |-> row.obj, list |-> l, slug |-> slug]]
  /\ UNCHANGED <<tables, spent, raced, reseeded>>

ListFieldTaken(req) == ~Live(req.obj) \/ req.slug \in Slugs(ListFieldsOf(req.list))

CreateListField(c, f) ==
  /\ call[c].op = "create_list_field"
  /\ ~ListFieldTaken(call[c])
  /\ Insert(f, call[c].obj, call[c].list, call[c].slug)
  /\ call' = [call EXCEPT ![c] = Idle]

RefuseListField(c) ==
  /\ call[c].op = "create_list_field"
  /\ ListFieldTaken(call[c])
  /\ call' = [call EXCEPT ![c] = Idle]
  /\ UNCHANGED <<tables, spent, raced, reseeded>>

(* DELETE /fields/:id refuses a system field, and the field its object's   *)
(* title names by id; the delete itself repeats only the first check.      *)
CheckField(c, f) ==
  /\ call[c] = Idle
  /\ f \in fields /\ ~f.system
  /\ Live(f.obj) => TitleOf(f.obj) # f.id
  /\ call' = [call EXCEPT ![c] = [op |-> "delete_field", field |-> f]]
  /\ NoteRace(f.obj)
  /\ UNCHANGED <<tables, spent, reseeded>>

(* The row goes, and its slug from every bag of its scope.                 *)
Strip(rows, scope, slug) ==
  {IF row \in scope THEN [row EXCEPT !.bag = @ \ {slug}] ELSE row : row \in rows}

DeleteField(c) ==
  /\ call[c].op = "delete_field"
  /\ LET f == call[c].field
     IN  IF f.id \notin Ids(fields) THEN UNCHANGED tables
         ELSE /\ fields' = {g \in fields : g.id # f.id}
              /\ records' = IF f.list # None THEN records
                   ELSE Strip(records, {r \in records : r.obj = f.obj}, f.slug)
              /\ entries' = IF f.list = None THEN entries
                   ELSE Strip(entries, {e \in entries : e.list = f.list}, f.slug)
              /\ UNCHANGED <<objects, views, lists>>
  /\ call' = [call EXCEPT ![c] = Idle]
  /\ UNCHANGED <<spent, raced, reseeded>>

(***************************************************************************)
(* Views.                                                                  *)
(***************************************************************************)
CreateView(v, o, default) ==
  /\ v \notin spent /\ Live(o) /\ NextPosition(o) \in 0..MaxPosition
  /\ views' = (IF default THEN Undefault(o) ELSE views)
       \cup {[id |-> v, obj |-> o, default |-> default, pos |-> NextPosition(o)]}
  /\ spent' = spent \cup {v}
  /\ reseeded' = IF default THEN reseeded \ {o} ELSE reseeded
  /\ UNCHANGED <<objects, fields, lists, records, entries, call, raced>>

UpdateView(v, pos) ==
  /\ v \in views
  /\ views' = (views \ {v}) \cup {[v EXCEPT !.pos = pos]}
  /\ UNCHANGED <<objects, fields, lists, records, entries, spent, call, raced, reseeded>>

(* The last view stays.  A deleted default hands over to the view with the *)
(* lowest position, and SQL leaves open which of two that share it.        *)
DeleteView(v) ==
  /\ v \in views /\ ViewsOf(v.obj) # {v}
  /\ LET rest == ViewsOf(v.obj) \ {v}
     IN  IF ~v.default THEN views' = views \ {v}
         ELSE \E w \in rest :
                /\ \A u \in rest : w.pos <= u.pos
                /\ views' = (views \ {v, w}) \cup {[w EXCEPT !.default = TRUE]}
  /\ UNCHANGED <<objects, fields, lists, records, entries, spent, call, raced, reseeded>>

SetDefaultView(v) ==
  /\ v \in views
  /\ views' = {IF w.id = v.id THEN [w EXCEPT !.default = TRUE] ELSE w : w \in Undefault(v.obj)}
  /\ reseeded' = reseeded \ {v.obj}
  /\ UNCHANGED <<objects, fields, lists, records, entries, spent, call, raced>>

(***************************************************************************)
(* Lists, their entries, and the records they hold.                        *)
(***************************************************************************)
CreateList(l, o) ==
  /\ l \notin spent /\ Live(o)
  /\ lists' = lists \cup {[id |-> l, obj |-> o]}
  /\ spent' = spent \cup {l}
  /\ UNCHANGED <<objects, fields, views, records, entries, call, raced, reseeded>>

(* Deleting the list under a handler that has resolved it is a race.       *)
DeleteList(l) ==
  /\ l \in lists
  /\ entries' = {e \in entries : e.list # l.id}
  /\ fields' = {f \in fields : f.list # l.id}
  /\ lists' = lists \ {l}
  /\ raced' = IF \E c \in Client : call[c].op = "create_list_field" /\ call[c].list = l.id
              THEN raced \cup {"list"} ELSE raced
  /\ UNCHANGED <<objects, views, records, spent, call, reseeded>>

(* Re-adding a member keeps the entry there is.                            *)
AddListEntry(l, r, bag) ==
  /\ l \in lists /\ r \in records /\ r.obj = l.obj
  /\ ~\E e \in entries : e.list = l.id /\ e.rec = r.id
  /\ entries' = entries \cup {[list |-> l.id, rec |-> r.id, bag |-> bag]}
  /\ UNCHANGED <<objects, fields, views, lists, records, spent, call, raced, reseeded>>

(* validate_bag lets through the slugs of the list's fields, or of the     *)
(* object's own: Next ranges over those.  Merge keeps the slugs the        *)
(* request does not name, replace drops them; "sent" is what the request   *)
(* names, "bag" what it gives a value.                                     *)
Written(old, sent, bag, merge) == IF merge THEN (old \ sent) \cup bag ELSE bag

UpdateListEntry(e, sent, bag, merge) ==
  /\ e \in entries /\ e.list \in Ids(lists)
  /\ entries' = (entries \ {e}) \cup {[e EXCEPT !.bag = Written(@, sent, bag, merge)]}
  /\ UNCHANGED <<objects, fields, views, lists, records, spent, call, raced, reseeded>>

RemoveListEntry(e) ==
  /\ e \in entries
  /\ entries' = entries \ {e}
  /\ UNCHANGED <<objects, fields, views, lists, records, spent, call, raced, reseeded>>

CreateRecord(r, o, bag) ==
  /\ r \notin spent /\ Live(o)
  /\ records' = records \cup {[id |-> r, obj |-> o, bag |-> bag]}
  /\ spent' = spent \cup {r}
  /\ UNCHANGED <<objects, fields, views, lists, entries, call, raced, reseeded>>

UpdateRecord(r, sent, bag, merge) ==
  /\ r \in records /\ Live(r.obj)
  /\ records' = (records \ {r}) \cup {[r EXCEPT !.bag = Written(@, sent, bag, merge)]}
  /\ UNCHANGED <<objects, fields, views, lists, entries, spent, call, raced, reseeded>>

PurgeRecord(r) ==
  /\ r \in records
  /\ entries' = {e \in entries : e.rec # r.id}
  /\ records' = records \ {r}
  /\ UNCHANGED <<objects, fields, views, lists, spent, call, raced, reseeded>>

ObjectStep ==
  \/ \E o \in ObjectId, f \in FieldId, v \in ViewId : CreateObject(o, f, v)
  \/ \E o \in ObjectId : DeleteObject(o)
FieldStep ==
  \/ \E f \in FieldId, o \in ObjectId, s \in Slug : CreateField(f, o, s)
  \/ \E c \in Client :
       \/ \E o \in ObjectId, t \in FieldId \cup {Raw} : CheckTitle(c, o, t)
       \/ StoreTitle(c)
       \/ \E l \in ListId, s \in Slug : ResolveList(c, l, s)
       \/ \E f \in FieldId : CreateListField(c, f)
       \/ RefuseListField(c)
       \/ \E f \in fields : CheckField(c, f)
       \/ DeleteField(c)
ViewStep ==
  \/ \E v \in ViewId, o \in ObjectId, d \in BOOLEAN : CreateView(v, o, d)
  \/ \E v \in views : \/ DeleteView(v) \/ SetDefaultView(v)
                      \/ \E p \in Position : UpdateView(v, p)
ListStep ==
  \/ \E l \in ListId, o \in ObjectId : CreateList(l, o)
  \/ \E l \in lists : DeleteList(l)
  \/ \E l \in lists, r \in records : \E b \in SUBSET Slugs(ListFieldsOf(l.id)) : AddListEntry(l, r, b)
  \/ \E e \in entries : \/ RemoveListEntry(e)
                        \/ \E s \in SUBSET Slugs(ListFieldsOf(e.list)) :
                             \/ UpdateListEntry(e, s, s, FALSE)
                             \/ \E b \in SUBSET s : UpdateListEntry(e, s, b, TRUE)
RecordStep ==
  \/ \E r \in RecordId, o \in ObjectId : \E b \in SUBSET Slugs(FieldsOf(o)) : CreateRecord(r, o, b)
  \/ \E r \in records : \/ PurgeRecord(r)
                        \/ \E s \in SUBSET Slugs(FieldsOf(r.obj)) :
                             \/ UpdateRecord(r, s, s, FALSE)
                             \/ \E b \in SUBSET s : UpdateRecord(r, s, b, TRUE)

Next == Restart \/ ObjectStep \/ FieldStep \/ ViewStep \/ ListStep \/ RecordStep

Spec == Init /\ [][Next]_vars

(***************************************************************************)
(* Properties.                                                             *)
(***************************************************************************)
(* The cascades leave nothing behind: every field, view, list, entry and   *)
(* record belongs to an object that is there, and a list's fields and      *)
(* entries to a list that is there.  Only a field whose list was deleted   *)
(* while its creation was between its two locks may outlive the list       *)
(* (delete_object, delete_list, purge_record; "an explicit ordered         *)
(* cascade").                                                              *)
NoOrphans ==
  /\ \A row \in fields \cup views \cup lists \cup records : Live(row.obj)
  /\ \A f \in fields :
       f.list # None =>
         \/ \E l \in lists : l.id = f.list /\ l.obj = f.obj
         \/ "list" \in raced
  /\ \A e \in entries :
       \E l \in lists, r \in records : l.id = e.list /\ r.id = e.rec /\ r.obj = l.obj

(* Every object that is there has a view to open and exactly one default,  *)
(* however views are added, moved, picked and deleted.  The exception is   *)
(* an object whose deleted default view the seeds of a later start put     *)
(* back: it has two until somebody picks one.  delete_view,                *)
(* set_default_view, create_view, seed_standard_schema.                    *)
OneDefault ==
  \A o \in Ids(objects) :
    /\ DefaultsOf(o) # {}
    /\ o \in reseeded \/ \A v, w \in DefaultsOf(o) : v = w

(* A title an object names by field id is a field of that object, unless   *)
(* picking a title and deleting a field of one object ran at the same      *)
(* time: then nothing records who was first.  patch_object, delete_field.  *)
TitleIsAField ==
  \A row \in objects :
    \/ row.title = Raw \/ row.title \in Ids(FieldsOf(row.id))
    \/ "title" \in raced

(* No bag keeps a value whose field is gone: "invisible in the UI, still   *)
(* matched by FTS", and back when a new field takes the slug.              *)
(* delete_field's strip against every write of a bag, the seeds, and the   *)
(* two namespaces of a list.                                               *)
NoGhostValues ==
  /\ \A r \in records : r.bag \subseteq Slugs(FieldsOf(r.obj))
  /\ \A e \in entries : e.bag \subseteq Slugs(ListFieldsOf(e.list))
=================================================================================
