---------------------------- MODULE Attachments -----------------------------
(***************************************************************************)
(* What the items keep outside their own record: the documents of the      *)
(* external attributes (Text, File) and the composites of a composition,   *)
(* which are stored by the event handlers of the data types when the item  *)
(* is created, updated, copied, recycled, restored or deleted; the change  *)
(* of the schema that an update catches up with (_Elastic); and the copy   *)
(* of its arguments that a transactional function gets at each attempt.    *)
(*                                                                         *)
(* An item has two attributes, the document `doc' and the composition      *)
(* `parts'; a composite has a document.  A method is called on the item as *)
(* it is stored: outdated copies are the subject of ObjectStore.           *)
(***************************************************************************)
EXTENDS Integers, FiniteSets

Tables == INSTANCE Functions

CONSTANTS
  Contents,     \* what a document may hold
  NoBytes,      \* no bytes
  MaxIds,       \* bound: the ids of objects and documents
  MaxSchemas,   \* bound: the changes of the schema
  MaxAttempts   \* txn_max_retries

ASSUME AttachmentsAssumption ==
  /\ NoBytes \in Contents
  /\ MaxIds \in Nat /\ MaxSchemas \in Nat /\ MaxAttempts \in Nat \ {0}

VARIABLES
  props,    \* __props__ of the class, in this run of the server
  schemas,  \* the number of changes of it
  saved,    \* the transaction's view: what is stored, and the ids given out
  call,     \* the function that runs: its argument and its attempts
  shared,   \* composites that were in an item that was copied
  lost      \* composites and documents of attributes that were not in the
            \* schema any more when their item was deleted

attachmentVars == <<props, schemas, saved, call, shared, lost>>

Attributes == {"doc", "parts"}
NoId == 0

\* An external attribute in memory: its id, and its value if it was set.
InMemory(id, value, dirty) == [id |-> id, value |-> value, dirty |-> dirty]
Clean(id) == InMemory(id, NoBytes, FALSE)

\* attrs are the attributes in the __dict__ of the item, and own the value of
\* its document if that was not stored and is in the record of the item.
Thing(attrs, doc, parts) ==
  [attrs |-> attrs, doc |-> doc, own |-> {}, parts |-> parts, deleted |-> FALSE]
Composite(pid, doc) == [pid |-> pid, doc |-> doc, deleted |-> FALSE]

NoCall == [at |-> "none"]

\* A table with a record more, or with the records of another written over it.
Row(id, record) == [x \in {id} |-> record]
Overlaid(new, table) ==
  [x \in DOMAIN table \cup DOMAIN new |->
     IF x \in DOMAIN new THEN new[x] ELSE table[x]]
Without(table, ids) == Tables!Restrict(table, DOMAIN table \ ids)

Failed(s) == [s EXCEPT !.ok = FALSE]
Fresh(s, n) == s.next + n   \* generate_oid
Room(n) == saved.next + n <= MaxIds + 1

-----------------------------------------------------------------------------
(* ExternalAttributeEventHandler.                                          *)

PutExternal(s, id, value) == [s EXCEPT !.docs = Overlaid(Row(id, value), @)]

\* delete_external: the documents may not be there, if the attribute was never
\* stored (a virtual one, due to the elastic schema).
DeleteExternals(s, ids) == [s EXCEPT !.docs = Without(@, ids)]

\* on_create, on_update.
StoreExternal(s, attr) ==
  IF attr.dirty THEN PutExternal(s, attr.id, attr.value) ELSE s

\* on_delete.
RemoveExternals(s, ids, permanent) ==
  IF permanent THEN DeleteExternals(s, ids) ELSE s

-----------------------------------------------------------------------------
(* CompositionEventHandler.                                                *)

\* The documents of composites in memory that were set.
SetDocuments(objects) ==
  {objects[c].doc : c \in {o \in DOMAIN objects : objects[o].doc.dirty}}

\* Write the composites of item i and the documents that were set.  A second
\* record with the same id but another parent violates a unique index.
PutComposites(s, i, objects) ==
  LET set == SetDocuments(objects)
  IN IF \E c \in DOMAIN objects \cap DOMAIN s.composites :
          s.composites[c].pid # i
     THEN Failed(s)
     ELSE [s EXCEPT
             !.docs = Overlaid([d \in {a.id : a \in set} |->
                              (CHOOSE a \in set : a.id = d).value], @),
             !.composites = Overlaid([c \in DOMAIN objects |->
                                    [objects[c] EXCEPT !.pid = i,
                                                       !.doc = @.id]], @)]

MarkComposites(s, ids, deleted) ==
  [s EXCEPT !.composites =
     [c \in DOMAIN s.composites |->
        IF c \in ids THEN [s.composites[c] EXCEPT !.deleted = deleted]
        ELSE s.composites[c]]]

MutantRemoveComposites(s, ids, permanent) ==
  IF ~(ids \subseteq DOMAIN s.composites) THEN Failed(s)
  ELSE [DeleteExternals(s, {s.composites[c].doc : c \in ids})
          EXCEPT !.composites = Without(@, ids)]

\* _removeComposite of each; None has no attributes, if one is not there.
RemoveComposites(s, ids, permanent) ==
  IF ~(ids \subseteq DOMAIN s.composites) THEN Failed(s)
  ELSE LET t == RemoveExternals(s, {s.composites[c].doc : c \in ids}, permanent)
       IN IF permanent THEN [t EXCEPT !.composites = Without(@, ids)]
          ELSE MarkComposites(t, ids, TRUE)

\* on_undelete.
RestoreComposites(s, ids) ==
  IF ~(ids \subseteq DOMAIN s.composites) THEN Failed(s)
  ELSE MarkComposites(s, ids, FALSE)

\* What the list of a composition is given: ids, which are fetched, and
\* composites, which get this item as their parent.
Given(ids, objects) == [ids |-> ids, objects |-> objects]
GivenIds(list) == list.ids \cup DOMAIN list.objects

MutantStoreGiven(s, i, list, old) == PutComposites(s, i, list.objects)

\* on_update (and on_create, with no old ones): those that were dropped are
\* removed, all others written.
StoreGiven(s, i, list, old) ==
  IF ~(list.ids \subseteq DOMAIN s.composites) THEN Failed(s)
  ELSE PutComposites(RemoveComposites(s, old \ GivenIds(list), TRUE), i,
                     list.objects)

-----------------------------------------------------------------------------
(* The schema: _Elastic._update_schema and the virtual attributes.         *)

\* The attributes that are new in the class are created (a new Text is stored
\* with its default value), those that were dropped from it deleted.
SchemaRemoved(s, item) ==
  LET gone == item.attrs \ props
      t == IF "doc" \in gone THEN RemoveExternals(s, {item.doc}, TRUE) ELSE s
  IN IF "parts" \in gone THEN RemoveComposites(t, item.parts, TRUE) ELSE t

SchemaAdded(s, item) ==
  IF "doc" \in props \ item.attrs
  THEN [PutExternal(s, Fresh(s, 0), NoBytes) EXCEPT !.next = @ + 1] ELSE s

\* The item after both, given what was stored before them.
UpdateSchema(s, item) ==
  [item EXCEPT
     !.attrs = props,
     !.doc = IF "doc" \notin props THEN NoId
             ELSE IF "doc" \in item.attrs THEN @ ELSE Fresh(s, 0),
     !.parts = IF "parts" \in props \cap item.attrs THEN @ ELSE {}]

-----------------------------------------------------------------------------
(* The methods of the item: its part in _db.handle_update, handle_delete   *)
(* and handle_undelete.                                                    *)

PutThing(s, i, item) == [s EXCEPT !.items = Overlaid(Row(i, item), @)]

\* append_to of a new item: doc and the composites are objects in memory.
CreateThing(s, i, doc, objects) ==
  LET t == IF "doc" \in props THEN StoreExternal(s, doc) ELSE s
      list == Given({}, IF "parts" \in props THEN objects ELSE <<>>)
  IN PutThing(StoreGiven(t, i, list, {}), i,
              Thing(props, IF "doc" \in props THEN doc.id ELSE NoId,
                    GivenIds(list)))

\* Item.update: set says whether the document was given a new value; list is
\* the new list of the composition.
UpdateThing(s, i, doc, list) ==
  LET old  == s.items[i]
      t    == SchemaRemoved(SchemaAdded(s, old), old)
      item == UpdateSchema(s, old)
      now  == IF doc.dirty \/ item.own = {} THEN [doc EXCEPT !.id = item.doc]
              ELSE InMemory(item.doc, CHOOSE v \in item.own : TRUE, TRUE)
      u    == IF "doc" \in props THEN StoreExternal(t, now) ELSE t
      kept == IF "parts" \in props
              THEN StoreGiven(u, i, list, item.parts) ELSE u
  IN PutThing(kept, i,
              [item EXCEPT !.own = {},
                           !.parts = IF "parts" \in props THEN GivenIds(list)
                                     ELSE {}])

MutantDuplicated(s, id) == id

Duplicated(s, id) == Fresh(s, 1)

\* _copy: the documents are duplicated, the composites are not.  In Python 3
\* the value of an empty document cannot be set (it is '' and not b'').
CopyThing(s, i) ==
  LET item   == s.items[i]
      dup    == "doc" \in item.attrs
      value  == IF item.own # {} THEN item.own
                ELSE {s.docs[d] : d \in {item.doc} \cap DOMAIN s.docs}
                     \ {NoBytes}
      id     == IF dup THEN Duplicated(s, item.doc) ELSE Fresh(s, 1)
      stored == "doc" \in props
      clone  == [item EXCEPT !.attrs = @ \cup props,
                             !.doc = IF dup \/ stored THEN id ELSE NoId,
                             !.own = IF dup /\ ~stored THEN value ELSE {}]
      t      == IF stored
                THEN PutExternal(s, id, IF dup THEN CHOOSE v \in value : TRUE
                                        ELSE NoBytes)
                ELSE s
  IN IF \/ dup /\ value = {}
        \/ "parts" \in props /\ ~(item.parts \subseteq DOMAIN s.composites)
     THEN Failed(s)
     ELSE [PutThing(t, Fresh(s, 0), clone) EXCEPT !.next = @ + 2]

\* handle_delete: of the attributes in the schema.
HandleDelete(s, item, permanent) ==
  LET t == IF "doc" \in props THEN RemoveExternals(s, {item.doc}, permanent)
           ELSE s
  IN IF "parts" \in props THEN RemoveComposites(t, item.parts, permanent) ELSE t

\* An attribute that the handlers found missing is written with the item, but
\* its value is not stored as a document.
WithVirtual(s, i, deleted) ==
  LET item == s.items[i]
      new  == "doc" \in props \ item.attrs
  IN [PutThing(s, i, [item EXCEPT !.attrs = @ \cup props,
                                  !.doc = IF new THEN Fresh(s, 0) ELSE @,
                                  !.own = IF new THEN {NoBytes} ELSE @,
                                  !.deleted = deleted])
      EXCEPT !.next = IF new THEN @ + 1 ELSE @]

RecycleThing(s, i) ==
  WithVirtual(HandleDelete(s, s.items[i], FALSE), i, TRUE)

UndeleteThing(s, i) ==
  WithVirtual(IF "parts" \in props THEN RestoreComposites(s, s.items[i].parts)
              ELSE s, i, FALSE)

DeleteThing(s, i) ==
  LET t == HandleDelete(s, s.items[i], TRUE)
  IN [t EXCEPT !.items = Without(@, {i})]

-----------------------------------------------------------------------------
(* The calls.                                                              *)

AttachmentsTypeOK ==
  /\ props \subseteq Attributes
  /\ saved.next \in 1 .. MaxIds + 1 /\ saved.ok
  /\ \A i \in DOMAIN saved.items :
       saved.items[i].attrs \subseteq Attributes
  /\ \A c \in DOMAIN saved.composites : saved.composites[c].deleted \in BOOLEAN
  /\ \A d \in DOMAIN saved.docs : saved.docs[d] \in Contents

AttachmentsInit ==
  /\ props \in SUBSET Attributes
  /\ schemas = 0
  /\ saved = [items |-> <<>>, composites |-> <<>>, docs |-> <<>>, next |-> 1,
              ok |-> TRUE]
  /\ call = NoCall /\ shared = {} /\ lost = {}

\* The server is started with another version of the class.
ChangeSchema ==
  \E new \in SUBSET Attributes \ {props} :
    /\ call = NoCall /\ schemas < MaxSchemas
    /\ props' = new /\ schemas' = schemas + 1
    /\ UNCHANGED <<saved, call, shared, lost>>

MutantCommitResult(result) == saved' = result

\* A method that raises an exception changes nothing.
CommitResult(result) == IF result.ok THEN saved' = result ELSE saved' = saved

CopyIt(i) ==
  /\ call = NoCall /\ ~saved.items[i].deleted /\ Room(2)
  /\ CommitResult(CopyThing(saved, i))
  /\ shared' = IF CopyThing(saved, i).ok THEN shared \cup saved.items[i].parts
               ELSE shared
  /\ UNCHANGED <<props, schemas, call, lost>>

RecycleIt(i) ==
  /\ call = NoCall /\ ~saved.items[i].deleted /\ Room(1)
  /\ CommitResult(RecycleThing(saved, i))
  /\ UNCHANGED <<props, schemas, call, shared, lost>>

UndeleteIt(i) ==
  /\ call = NoCall /\ saved.items[i].deleted /\ Room(1)
  /\ CommitResult(UndeleteThing(saved, i))
  /\ UNCHANGED <<props, schemas, call, shared, lost>>

\* What an item leaves behind if it is deleted now.
Left(i) ==
  LET item == saved.items[i] IN
  (IF "doc" \in item.attrs \ props THEN {item.doc} ELSE {})
  \cup (IF "parts" \in item.attrs \ props
        THEN item.parts \cup {saved.composites[c].doc :
                                c \in item.parts \cap DOMAIN saved.composites}
        ELSE {})

DeleteIt(i) ==
  /\ call = NoCall
  /\ CommitResult(DeleteThing(saved, i))
  /\ lost' = IF DeleteThing(saved, i).ok THEN lost \cup Left(i) ELSE lost
  /\ UNCHANGED <<props, schemas, call, shared>>

\* append_to and update are called by a transactional function with the object
\* in memory as its argument.
NewComposites(first, n, value) ==
  [c \in {first + 2 * k : k \in 0 .. n - 1} |->
     Composite(NoId, InMemory(c + 1, value, TRUE))]

CallCreate ==
  \E value \in Contents, n \in 0 .. 1 :
    /\ call = NoCall /\ Room(2 + 2 * n)
    /\ call' = [at |-> "create", item |-> saved.next, set |-> TRUE,
                value |-> value,
                doc |-> InMemory(saved.next + 1, value, TRUE),
                list |-> Given({}, NewComposites(saved.next + 2, n, value)),
                tries |-> 0]
    /\ saved' = [saved EXCEPT !.next = @ + 2 + 2 * n]
    /\ UNCHANGED <<props, schemas, shared, lost>>

\* Of the composites of the item some are kept, as ids or as objects, the
\* document of one of which may have been given a new value.
Fetched(ids, set, value) ==
  [c \in ids |->
     [saved.composites[c] EXCEPT
        !.doc = IF set THEN InMemory(@, value, TRUE) ELSE Clean(@)]]

CallUpdate(i) ==
  \E value \in Contents, set \in BOOLEAN, n \in 0 .. 1,
     kept \in SUBSET saved.items[i].parts, whole \in BOOLEAN :
    /\ call = NoCall /\ ~saved.items[i].deleted /\ Room(1 + 2 * n)
    /\ ~set => value = NoBytes
    /\ whole => kept \subseteq DOMAIN saved.composites
    /\ call' = [at |-> "update", item |-> i, set |-> set, value |-> value,
                doc |-> IF set THEN InMemory(saved.items[i].doc, value, TRUE)
                        ELSE Clean(saved.items[i].doc),
                list |-> Given(IF whole THEN {} ELSE kept,
                               Overlaid(NewComposites(saved.next, n, value),
                                    IF whole THEN Fetched(kept, set, value)
                                    ELSE <<>>)),
                tries |-> 0]
    /\ saved' = [saved EXCEPT !.next = @ + 2 * n]
    /\ UNCHANGED <<props, schemas, shared, lost>>

Attempt(arg) ==
  IF arg.at = "create"
  THEN CreateThing(saved, arg.item, arg.doc, arg.list.objects)
  ELSE UpdateThing(saved, arg.item, arg.doc, arg.list)

\* What the handlers do to the object they are given: the attributes are
\* reset, and the list of the composition holds ids only.
Used(arg) ==
  [arg EXCEPT !.doc = IF "doc" \in props THEN Clean(@.id) ELSE @,
              !.list = IF "parts" \in props THEN Given(GivenIds(@), <<>>)
                       ELSE @]

MutantPassed(arg) == Used(arg)

\* Each attempt works on a deep copy of the arguments.
Passed(arg) == arg

\* The transaction is aborted after the handlers have run, and tried again.
AbortAttempt ==
  /\ call # NoCall
  /\ IF call.tries + 1 < MaxAttempts
     THEN call' = [Passed(call) EXCEPT !.tries = @ + 1]
     ELSE call' = NoCall
  /\ UNCHANGED <<props, schemas, saved, shared, lost>>

CommitAttempt ==
  /\ call # NoCall
  /\ CommitResult(Attempt(call))
  /\ call' = NoCall
  /\ UNCHANGED <<props, schemas, shared, lost>>

AttachmentsNext ==
  \/ ChangeSchema \/ CallCreate \/ AbortAttempt \/ CommitAttempt
  \/ \E i \in DOMAIN saved.items :
       \/ CopyIt(i) \/ RecycleIt(i) \/ UndeleteIt(i) \/ DeleteIt(i)
       \/ CallUpdate(i)

AttachmentsSpec == AttachmentsInit /\ [][AttachmentsNext]_attachmentVars
-----------------------------------------------------------------------------
(* Properties.                                                             *)

\* The stored attributes that have a document.
Owners(d) ==
  {i \in DOMAIN saved.items :
     "doc" \in saved.items[i].attrs /\ saved.items[i].doc = d}
  \cup {c \in DOMAIN saved.composites : saved.composites[c].doc = d}

\* Every stored attribute has its document, or else its value in the record of
\* the item, and every document belongs to one attribute; only those of an item
\* that was deleted after its class had dropped the attribute are left behind.
DocumentsMatch ==
  /\ \A d \in DOMAIN saved.docs :
       Cardinality(Owners(d)) = 1 \/ d \in lost
  /\ \A i \in DOMAIN saved.items :
       "doc" \in saved.items[i].attrs =>
         (saved.items[i].doc \in DOMAIN saved.docs) # (saved.items[i].own # {})
  /\ \A c \in DOMAIN saved.composites :
       saved.composites[c].doc \in DOMAIN saved.docs

\* The composites of an item are there, name the item as their parent and, if
\* its class had the composition all the time, are recycled and restored with
\* it, as long as the item was not copied: a copy shares them.  All composites
\* belong to an item.
PartsMatch ==
  /\ \A i \in DOMAIN saved.items : \A c \in saved.items[i].parts \ shared :
       /\ c \in DOMAIN saved.composites
       /\ saved.composites[c].pid = i
       /\ schemas = 0 =>
            saved.composites[c].deleted = saved.items[i].deleted
  /\ \A c \in DOMAIN saved.composites \ (lost \cup shared) :
       \E i \in DOMAIN saved.items : c \in saved.items[i].parts

\* Every item that shares no composite can be deleted, recycled or restored,
\* whatever happened to the schema of its class.
PartsCanBeRemoved ==
  \A i \in DOMAIN saved.items :
    saved.items[i].parts \cap shared = {} =>
      /\ DeleteThing(saved, i).ok
      /\ RecycleThing(saved, i).ok /\ UndeleteThing(saved, i).ok

\* The document that a function gives an item is what the item has after it,
\* however often the transaction was tried.
RetriesStoreAll ==
  [][call # NoCall /\ call.set /\ "doc" \in props /\ saved' # saved =>
       LET d == saved'.items[call.item].doc
       IN d \in DOMAIN saved'.docs /\ saved'.docs[d] = call.value
    ]_attachmentVars

\* Objects, their documents and their composites stay together through every
\* call, and a call that was attempted again stores all that it was given.
AttachmentsStayTogether ==
  /\ [](DocumentsMatch /\ PartsMatch /\ PartsCanBeRemoved)
  /\ RetriesStoreAll
=============================================================================
