--------------------------- MODULE ItemOperations ---------------------------
(***************************************************************************)
(* What the methods of the system content classes (systemObjects) do to    *)
(* the stored objects, one operator per method.                            *)
(*                                                                         *)
(* A method works on in-memory copies: `self' may be older than the stored *)
(* object, and an object fetched early in a method is written back later,  *)
(* over whatever was written to it in between.  Both are modelled: an      *)
(* operator takes the copy as a record, and reads others where the method  *)
(* does.                                                                   *)
(*                                                                         *)
(* A transaction is [db |-> the objects it sees, used |-> the ids given    *)
(* out so far, ok |-> no exception was raised].                            *)
(* Access rights are left out: the caller is an administrator.             *)
(*                                                                         *)
(* An operator named Mutant... is the next definition with a plausible     *)
(* mistake.  Nothing uses it: it serves to test that the properties notice.*)
(***************************************************************************)
EXTENDS Integers, Sequences, FiniteSets

CONSTANTS
  KeyOrder,    \* the object ids, positive integers, in the order of the keys
  Names,       \* display names
  Containment, \* the kinds of object that a kind of container accepts
  CallDepth    \* how deep calls may nest (sys.getrecursionlimit)

Root == 0      \* _id '' of the root folder
Bin  == -1     \* _id 'rb' of the recycle bin
None == -2     \* no object

\* generate_oid returns a random id.  Here ids are given out in increasing
\* order and KeyOrder says where they sort.
Oids == {KeyOrder[k] : k \in DOMAIN KeyOrder}
Ids  == Oids \cup {Root, Bin}

Kinds == {"root", "bin", "folder", "document", "shortcut", "deleted"}

ASSUME ItemOperationsAssumption ==
  /\ KeyOrder \in Seq(Nat \ {0})
  /\ \A j, k \in DOMAIN KeyOrder : KeyOrder[j] = KeyOrder[k] => j = k
  /\ Containment \in [{"root", "folder"} -> SUBSET {"folder", "document",
                                                    "shortcut"}]
  /\ CallDepth \in Nat

IsCollection(item) == item.kind \in {"root", "bin", "folder"}
IsDeleted(item)    == item.level # 0  \* truth of _isDeleted

\* The data type `shortcuts' of Item.
HasShortcuts(item) == item.kind # "deleted"

Object(id, kind, pid, name) ==
  [id |-> id, kind |-> kind, pid |-> pid, name |-> name, level |-> 0,
   ni |-> 0, nc |-> 0, shortcuts |-> {}, target |-> None, ref |-> None]

\* What is stored under an id that no object has.
Nothing == Object(None, "nothing", None, None)

\* The objects that can be stored, and the transactions on a store.
Records ==
  [id : Ids, kind : Kinds, pid : Ids \cup {None}, name : Names \cup Ids,
   level : Int, ni : Int, nc : Int, shortcuts : SUBSET Ids,
   target : Ids \cup {None}, ref : Ids \cup {None}]
Transactions ==
  [db : [Ids -> Records \cup {Nothing}], used : SUBSET Ids, ok : BOOLEAN]

EmptyStore ==
  [i \in Ids |-> CASE i = Root -> Object(Root, "root", None, Root)
                   [] i = Bin  -> Object(Bin, "bin", None, Bin)
                   [] OTHER    -> Nothing]

-----------------------------------------------------------------------------
(* The database: a primary tree keyed by parent and id, a unique index on  *)
(* the id, and one on the name within a parent that skips deleted objects. *)

NoIdLeft(s) == Oids \subseteq s.used
NewId(s) == CHOOSE i \in Oids \ s.used : \A j \in Oids \ s.used : i <= j

Objects(db) == {i \in Ids : db[i] # Nothing}

Has(s, id) == id \in Objects(s.db)

Raise(s) == [s EXCEPT !.ok = FALSE]

\* The rest of a method does not run once an exception is raised.
Then(s, Rest(_)) == IF s.ok THEN Rest(s) ELSE s

\* _db.get_item(id), and an exception when the method uses it without a test.
With(s, id, Rest(_)) == IF Has(s, id) THEN Rest(s.db[id]) ELSE Raise(s)

\* The index on displayName has no entry for a deleted object.
NameTaken(s, item) ==
  /\ ~IsDeleted(item)
  /\ \E j \in Objects(s.db) \ {item.id} :
       /\ s.db[j].pid = item.pid
       /\ s.db[j].name = item.name
       /\ ~IsDeleted(s.db[j])

\* A second record with the same id, or a visible sibling with the same name,
\* violates a unique index.
Put(s, item) ==
  IF (Has(s, item.id) /\ s.db[item.id].pid # item.pid) \/ NameTaken(s, item)
  THEN Raise(s)
  ELSE [s EXCEPT !.db[item.id] = item, !.used = @ \cup {item.id}]

\* Nothing is stored under the parent and id of an outdated copy.
Erase(s, item) ==
  IF ~Has(s, item.id) \/ s.db[item.id].pid # item.pid
  THEN Raise(s)
  ELSE [s EXCEPT !.db[item.id] = Nothing]

Children(s, id) == {j \in Objects(s.db) : s.db[j].pid = id}

\* Call method on the stored objects ids one by one, in the order of the keys,
\* each read when it is its turn.  A cursor skips an object that is gone, which
\* raises an exception for one of a list of ids.
InTurn(s, ids, method, arg, skips) ==
  LET after[k \in 0 .. Len(KeyOrder)] ==
        IF k = 0 THEN s
        ELSE LET t  == after[k - 1]
                 id == KeyOrder[k]
             IN IF ~t.ok \/ id \notin ids THEN t
                ELSE IF Has(t, id) THEN method[<<t, t.db[id], arg>>]
                ELSE IF skips THEN t ELSE Raise(t)
  IN after[Len(KeyOrder)]

ForEach(s, ids, method, arg) == InTurn(s, ids, method, arg, FALSE)

ForEachChild(s, id, method, arg) ==
  InTurn(s, Children(s, id), method, arg, TRUE)

\* _nc or _ni of a container when a child of this kind comes or goes.
Count(container, child, n) ==
  IF IsCollection(child) THEN [container EXCEPT !.nc = @ + n]
                         ELSE [container EXCEPT !.ni = @ + n]

CountInParent(s, item, n) ==
  With(s, item.pid, LAMBDA parent : Put(s, Count(parent, item, n)))

\* For each object, itself and those that it leads to: next is the object
\* that comes after it, if there is one.
Chain(next) ==
  LET up[i \in DOMAIN next] ==
        {i} \cup IF next[i] \in DOMAIN next THEN up[next[i]] ELSE {}
  IN up

\* The object and the containers above it.
Line(db) == Chain([i \in Objects(db) |-> db[i].pid])

\* A lost ancestor raises an exception, which refuses the call as well.
IsContainedIn(s, item, id) ==
  \E i \in Line(s.db)[item.id] \ {Root} : i = id \/ ~Has(s, s.db[i].pid)

\* Shortcut.get_target_contentclass: the kind of the terminal target.
TargetKind(s, item) ==
  LET targets == Chain([i \in Objects(s.db) |-> s.db[i].target])
      kinds   == {s.db[i].kind : i \in targets[item.target]} \ {"shortcut"}
  IN IF Has(s, item.target) /\ kinds # {} THEN CHOOSE kind \in kinds : TRUE
     ELSE "none"

Accepts(s, container, item) ==
  /\ container.kind \in DOMAIN Containment
  /\ item.kind \in Containment[container.kind]
  /\ item.kind = "shortcut" =>
       TargetKind(s, item) \in Containment[container.kind]

-----------------------------------------------------------------------------
(* The two ends of a shortcut: its `target' (a Relator1) and the list      *)
(* `shortcuts' of the target (a RelatorN with cascadeDelete).              *)

\* Relator1EventHandler._add_reference: result is the shortcut to be stored.
TargetOf(s, item) == IF Has(s, item.target) /\ HasShortcuts(s.db[item.target])
                     THEN item.target ELSE None

AddToTarget(s, item) ==
  IF TargetOf(s, item) = None THEN s
  ELSE Put(s, [s.db[item.target] EXCEPT !.shortcuts = @ \cup {item.id}])

\* Relator1EventHandler._remove_reference.
RemoveFromTarget(s, item, target) ==
  IF target = None THEN s
  ELSE With(s, target, LAMBDA t :
              Put(s, [t EXCEPT !.shortcuts = @ \ {item.id}]))

Existing(s, ids) == {j \in ids : Has(s, j) /\ s.db[j].kind = "shortcut"}

\* RelatorNEventHandler._add_references: the shortcuts now point to item.
PointTo(s, ids, item) ==
  ForEach(s, Existing(s, ids),
          [c \in Transactions \X Records \X Ids |->
             Put(c[1], [c[2] EXCEPT !.target = c[3]])], item.id)

\* handle_update(item, None); Linked is what put_item then writes.
CreateLinks(s, item) ==
  Then(PointTo(s, item.shortcuts, item), LAMBDA a : AddToTarget(a, item))

Linked(s, item) ==
  [item EXCEPT !.shortcuts = Existing(s, @), !.target = TargetOf(s, item)]

\* handle_update(item, old) for an update that leaves both attributes alone:
\* they differ only when the copy is outdated.  Taking a shortcut off the list
\* blanks its target, which is required.
UpdateLinks(s, item, old) ==
  LET hidden  == {j \in old.shortcuts : ~Has(s, j) \/ IsDeleted(s.db[j])}
      current == item.shortcuts \cup hidden
  IN IF old.shortcuts \ current # {}
     THEN Raise(s)
     ELSE Then(PointTo(s, current \ old.shortcuts, item),
               LAMBDA a :
                 IF item.target = old.target THEN a
                 ELSE Then(AddToTarget(a, item), LAMBDA b :
                             RemoveFromTarget(b, item, old.target)))

-----------------------------------------------------------------------------
(* Removing and bringing back.                                             *)

\* Removable._recycle: hide the object and everything in it, and its
\* shortcuts wherever they are.  An object hidden several times counts them.
\* The methods that call themselves take the method itself, `deeper'.
MutantRecycleOnce(s, self, updateParent, deeper) ==
  IF IsDeleted(self) THEN s
  ELSE LET one(a) == IF updateParent THEN CountInParent(a, self, -1) ELSE a
       IN Then(ForEachChild(one(Put(s, [self EXCEPT !.level = 1])), self.id,
                            deeper, FALSE),
               LAMBDA a : ForEach(a, self.shortcuts, deeper, TRUE))

MutantRecycleShallow(s, self, updateParent, deeper) ==
  Then(Put(s, [self EXCEPT !.level = @ + 1]), LAMBDA a :
    IF updateParent THEN CountInParent(a, self, -1) ELSE a)

RecycleWith(s, self, updateParent, deeper) ==
  LET hidden == [self EXCEPT !.level = @ + 1]
      unlinked(a) ==
        IF IsDeleted(self) THEN a
        ELSE Then(ForEach(a, self.shortcuts, deeper, TRUE),
                  LAMBDA b : Erase(b, self))
      counted(a) == IF updateParent THEN CountInParent(a, self, -1) ELSE a
      children(a) ==
        IF ~IsCollection(self) THEN a
        ELSE ForEachChild(a, self.id, deeper, FALSE)
  IN Then(Then(Then(unlinked(s), LAMBDA a : Put(a, hidden)), counted),
          children)

\* With calls nested n deep at most; one more raises an exception.
RecycleWithin[n \in Nat] ==
  [c \in Transactions \X Records \X BOOLEAN |->
     IF n = 0 THEN Raise(c[1])
     ELSE RecycleWith(c[1], c[2], c[3], RecycleWithin[n - 1])]

Recycle(s, self, updateParent) ==
  RecycleWithin[CallDepth][<<s, self, updateParent>>]

\* Removable._undelete.  The copy in memory is written last.
MutantUndeleteShallow(s, self, updateParent, deeper) ==
  Then(CountInParent(s, self, 1), LAMBDA a :
    Put(a, [self EXCEPT !.level = @ - 1]))

UndeleteWith(s, self, updateParent, deeper) ==
  LET shown == [self EXCEPT !.level = @ - 1]
      linked(a) ==
        IF IsDeleted(shown) THEN a
        ELSE ForEach(a, shown.shortcuts, deeper, TRUE)
      counted(a) == IF updateParent THEN CountInParent(a, self, 1) ELSE a
      children(a) ==
        IF ~IsCollection(self) THEN a
        ELSE ForEachChild(a, self.id, deeper, FALSE)
  IN Then(Then(Then(linked(s), counted), children), LAMBDA a : Put(a, shown))

UndeleteWithin[n \in Nat] ==
  [c \in Transactions \X Records \X BOOLEAN |->
     IF n = 0 THEN Raise(c[1])
     ELSE UndeleteWith(c[1], c[2], c[3], UndeleteWithin[n - 1])]

Undelete(s, self, updateParent) ==
  UndeleteWithin[CallDepth][<<s, self, updateParent>>]

\* Removable._delete.
MutantDeleteKeepsLink(s, self, updateParent, deeper) ==
  Then(Erase(s, self), LAMBDA a :
    LET b == IF updateParent /\ ~IsDeleted(self)
             THEN CountInParent(a, self, -1) ELSE a
    IN IF ~IsCollection(self) THEN b
       ELSE ForEachChild(b, self.id, deeper, FALSE))

MutantDeleteEarly(s, self, updateParent, deeper) ==
  Then(Erase(s, self), LAMBDA a :
    Then(ForEach(a, self.shortcuts, deeper, TRUE),
         LAMBDA b : RemoveFromTarget(b, self, self.target)))

DeleteWith(s, self, updateParent, deeper) ==
  LET recycled(a) ==
        IF IsDeleted(self) THEN a
        ELSE ForEach(a, self.shortcuts, RecycleWithin[CallDepth], TRUE)
      unlinked(a) ==
        Then(ForEach(a, self.shortcuts, deeper, TRUE),
             LAMBDA b : RemoveFromTarget(b, self, self.target))
      counted(a) ==
        IF updateParent /\ ~IsDeleted(self) /\ Has(a, self.pid)
        THEN CountInParent(a, self, -1)
        ELSE a
      children(a) ==
        IF ~IsCollection(self) THEN a
        ELSE ForEachChild(a, self.id, deeper, FALSE)
  IN Then(Then(Then(Then(recycled(s), unlinked), LAMBDA a : Erase(a, self)),
               counted),
          children)

DeleteWithin[n \in Nat] ==
  [c \in Transactions \X Records \X BOOLEAN |->
     IF n = 0 THEN Raise(c[1])
     ELSE DeleteWith(c[1], c[2], c[3], DeleteWithin[n - 1])]

Delete(s, self, updateParent) ==
  DeleteWithin[CallDepth][<<s, self, updateParent>>]

-----------------------------------------------------------------------------
(* The methods that a web method calls.                                    *)

\* GenericItem.append_to, with the parent as it was read.
AppendTo(s, item, parent) ==
  IF ~Accepts(s, parent, item) THEN Raise(s)
  ELSE Then(Then(CreateLinks(s, item), LAMBDA a : Put(a, Linked(s, item))),
            LAMBDA a : Put(a, Count(parent, item, 1)))

\* Item.update: the parent is fetched before the object is written and put
\* back after it.
Update(s, self) ==
  IF self.kind = "shortcut" /\ ~(Has(s, self.pid) /\
                                 Accepts(s, s.db[self.pid], self))
  THEN Raise(s)
  ELSE With(s, self.id, LAMBDA old :
    Then(Then(UpdateLinks(s, self, old),
              LAMBDA a : Put(a, [self EXCEPT
                !.shortcuts = @ \cap (old.shortcuts \cup Existing(s, @)),
                !.target = IF @ = old.target THEN @ ELSE TargetOf(s, self)])),
         LAMBDA a : IF Has(s, self.pid) THEN Put(a, s.db[self.pid]) ELSE a))

MutantTargetInSource(s, self, target) ==
  ~IsDeleted(target) /\ Accepts(s, target, self)

IsTarget(s, self, target) ==
  /\ ~IsDeleted(target)
  /\ IsCollection(self) => ~IsContainedIn(s, target, self.id)
  /\ Accepts(s, target, self)

\* Movable.move_to.  The new parent is counted up, the old one is only
\* touched.
MoveTo(s, self, targetId) ==
  With(s, targetId, LAMBDA target :
    IF ~IsTarget(s, self, target) THEN Raise(s)
    ELSE Then(Then(Then(Erase(s, self),
                        LAMBDA a : Put(a, [self EXCEPT !.pid = targetId])),
                   LAMBDA a : Put(a, Count(target, self, 1))),
              LAMBDA a : With(a, self.pid, LAMBDA parent : Put(a, parent))))

\* Cloneable._copy: the clone gets a new id and keeps every other attribute;
\* the visible children, listed before any is cloned, follow.
CopyWith(s, self, pid, deeper) ==
  IF NoIdLeft(s) THEN Raise(s)
  ELSE
    LET id    == NewId(s)
        clone == [self EXCEPT !.id = id, !.pid = pid]
        listed == {c \in Children(s, self.id) : ~IsDeleted(s.db[c])}
    IN Then(Then(CreateLinks(s, clone), LAMBDA a : Put(a, Linked(s, clone))),
            LAMBDA a :
              IF ~IsCollection(self) THEN a
              ELSE ForEach(a, listed,
                           [c \in Transactions \X Records \X Ids |->
                              deeper[<<c[1], a.db[c[2].id], c[3]>>]], id))

CopyWithin[n \in Nat] ==
  [c \in Transactions \X Records \X Ids |->
     IF n = 0 THEN Raise(c[1])
     ELSE CopyWith(c[1], c[2], c[3], CopyWithin[n - 1])]

Copy(s, self, pid) == CopyWithin[CallDepth][<<s, self, pid>>]

\* Cloneable.copy_to: the target is fetched before the copy is made.
CopyTo(s, self, targetId) ==
  With(s, targetId, LAMBDA target :
    IF ~IsTarget(s, self, target) THEN Raise(s)
    ELSE Then(Copy(s, self, targetId),
              LAMBDA a : Put(a, Count(target, self, 1))))

\* A new DeletedItem, which stands for the object in the bin.
BinEntry(s, self) ==
  [Object(NewId(s), "deleted", Bin, NewId(s)) EXCEPT !.ref = self.id]

\* Removable.recycle.  The bin does not count the entry.
RecycleItem(s, self) ==
  IF NoIdLeft(s) THEN Raise(s)
  ELSE With(s, self.id, LAMBDA stored :
    Then(Put(s, BinEntry(s, self)), LAMBDA a : Recycle(a, stored, TRUE)))

\* Removable.delete.
DeleteItem(s, self) ==
  With(s, self.id, LAMBDA stored : Delete(s, stored, TRUE))

\* DeletedItem.delete: with the object it stands for.
PurgeItem(s, self) ==
  Then(DeleteItem(s, self), LAMBDA a :
    IF Has(a, self.ref) THEN Delete(a, a.db[self.ref], TRUE) ELSE a)

\* A shortcut without a target fits anywhere.
AcceptsBack(s, container, item) ==
  \/ Accepts(s, container, item)
  \/ IsCollection(container) /\ item.kind = "shortcut" /\ item.target = None

PutBack(s, deleted, target) ==
  Undelete(s, [deleted EXCEPT !.pid = target.id], TRUE)

MutantRestoreKeepsEntry(s, self, parentId) ==
  With(s, self.ref, LAMBDA deleted : Undelete(s, deleted, TRUE))

\* DeletedItem.restore_to; None is restore().
RestoreTo(s, self, parentId) ==
  With(s, self.ref, LAMBDA deleted :
    With(s, IF parentId = None THEN deleted.pid ELSE parentId, LAMBDA parent :
      IF IsDeleted(parent) \/ ~AcceptsBack(s, parent, deleted) THEN Raise(s)
      ELSE
        LET single == IF parentId # None /\ deleted.kind # "shortcut"
                      THEN [deleted EXCEPT !.level = 1]
                      ELSE deleted
            moved  == IF parentId \notin {None, deleted.pid}
                      THEN Erase(s, deleted)
                      ELSE s
        IN Then(Then(moved, LAMBDA a : PutBack(a, single, parent)),
                LAMBDA a : DeleteItem(a, self))))

\* RecycleBin.empty.
EmptyBin(s) ==
  ForEach(s, Children(s, Bin),
          [c \in Transactions \X Records \X Ids |->
             PurgeItem(c[1], s.db[c[2].id])], Bin)
=============================================================================
