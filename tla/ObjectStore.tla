----------------------------- MODULE ObjectStore -----------------------------
(***************************************************************************)
(* The object store of a Porcupine site under the web methods of the       *)
(* desktop application: the tree of folders, documents and shortcuts, and  *)
(* the recycle bin.                                                        *)
(*                                                                         *)
(* A web method runs as one transaction (module Transactions), so each is  *)
(* one step here, and a method that raises an exception changes nothing.   *)
(* But the object the method is called on was read before the transaction  *)
(* began: PorcupineThread.handle_request reads it in a snapshot, which the *)
(* wrapper aborts.  A slow request keeps that copy while others commit.    *)
(***************************************************************************)
EXTENDS ItemOperations

CONSTANTS
  Slow,        \* requests that may be overtaken between their two reads
  Operations,  \* bound: the web methods that are called
  Overtaken,   \* bound: those among them that slow requests call
  SelfLinks,   \* bound: shortcuts are created in the folder they point to
  MaxCount     \* bound: nothing moves to a folder that counts that many

ASSUME ObjectStoreAssumption ==
  /\ Overtaken \subseteq Operations
  /\ SelfLinks \in BOOLEAN
  /\ MaxCount \in Nat

VARIABLES
  store,  \* the committed objects
  used,   \* the ids given out so far
  held    \* the object a slow request was dispatched to, Nothing if idle

vars == <<store, used, held>>

\* The types; the number of times an object is deleted is never negative.
TypeOK ==
  /\ store \in [Ids -> Records \cup {Nothing}]
  /\ Objects(store) \subseteq used /\ used \subseteq Ids
  /\ \A i \in Objects(store) : store[i].id = i /\ store[i].level >= 0
  /\ held \in [Slow -> Records \cup {Nothing}]

Init ==
  /\ store = EmptyStore
  /\ used = {Root, Bin}
  /\ held = [r \in Slow |-> Nothing]

Visible == {i \in Objects(store) : ~IsDeleted(store[i])}

Now == [db |-> store, used |-> used, ok |-> TRUE]

Movables == {"folder", "document", "shortcut"}

\* The kinds of object that have each web method.
CalledOn ==
  [create |-> {"root", "folder"}, rename |-> Movables, move |-> Movables,
   copy |-> Movables, recycle |-> Movables, delete |-> Movables,
   purge |-> {"deleted"}, restore |-> {"deleted"}, restoreTo |-> {"deleted"},
   empty |-> {"bin"}]

-----------------------------------------------------------------------------
\* A slow request is dispatched to an object.
Dispatch(r) ==
  /\ held[r] = Nothing
  /\ \E i \in Visible, op \in Overtaken :
       /\ store[i].kind \in CalledOn[op]
       /\ held' = [held EXCEPT ![r] = store[i]]
  /\ UNCHANGED <<store, used>>

\* Its method raises an exception.
GiveUp(r) ==
  /\ held[r] # Nothing
  /\ held' = [held EXCEPT ![r] = Nothing]
  /\ UNCHANGED <<store, used>>

Commit(result) ==
  /\ result.ok
  /\ store' = result.db
  /\ used' = result.used

\* A call of the web method op: on an object that was just read, or on the
\* copy of a slow request.
Call(op, Method(_)) ==
  /\ op \in Operations
  /\ \/ \E i \in Visible :
          /\ store[i].kind \in CalledOn[op]
          /\ Commit(Method(store[i]))
          /\ UNCHANGED held
     \/ \E r \in Slow :
          /\ op \in Overtaken
          /\ held[r] # Nothing
          /\ held[r].kind \in CalledOn[op]
          /\ Commit(Method(held[r]))
          /\ held' = [held EXCEPT ![r] = Nothing]

\* basecontainer.create: a shortcut points to an object the user sees.
Create ==
  /\ ~NoIdLeft(Now)
  /\ \E kind \in Movables, name \in Names :
     \E target \in IF kind = "shortcut" THEN Visible \ {Bin} ELSE {None} :
       Call("create", LAMBDA self :
         IF target = self.id /\ ~SelfLinks THEN Raise(Now)
         ELSE AppendTo(Now, [Object(NewId(Now), kind, self.id, name)
                             EXCEPT !.target = target], self))

\* baseitem.rename
Rename ==
  \E name \in Names :
    Call("rename", LAMBDA self :
      Update(Now, [self EXCEPT !.name = name]))

\* baseitem.moveTo
Move ==
  \E t \in {i \in Objects(store) : store[i].ni + store[i].nc < MaxCount} :
    Call("move", LAMBDA self : MoveTo(Now, self, t))

\* baseitem.copyTo
CopyItem ==
  \E t \in Objects(store) :
    Call("copy", LAMBDA self : CopyTo(Now, self, t))

\* baseitem.delete
MoveToBin ==
  Call("recycle", LAMBDA self : RecycleItem(Now, self))

\* baseitem.deletePermanent
DeletePermanent ==
  Call("delete", LAMBDA self : DeleteItem(Now, self))

\* deleteditem.delete
Purge ==
  Call("purge", LAMBDA self : PurgeItem(Now, self))

\* deleteditem.restore
Restore ==
  Call("restore", LAMBDA self : RestoreTo(Now, self, None))

\* deleteditem.restoreTo
RestoreElsewhere ==
  \E t \in Objects(store) :
    Call("restoreTo", LAMBDA self : RestoreTo(Now, self, t))

\* recyclebin.empty
Empty ==
  Call("empty", LAMBDA self : EmptyBin(Now))

Next ==
  \/ \E r \in Slow : Dispatch(r) \/ GiveUp(r)
  \/ Create \/ Rename \/ Move \/ CopyItem
  \/ MoveToBin \/ DeletePermanent \/ Purge
  \/ Restore \/ RestoreElsewhere \/ Empty

Spec == Init /\ [][Next]_vars

-----------------------------------------------------------------------------
(* Properties.                                                             *)

Stored(i) == i \in Objects(store)

\* No sequence of moves, copies, deletions and restorations leaves an object
\* outside the tree, in a folder that is gone or in a folder within itself:
\* whatever objects one takes, the folder of one of them is not among them.
Rooted ==
  /\ \A i \in Objects(store) \ {Root, Bin} : Stored(store[i].pid)
  /\ \A S \in SUBSET (Objects(store) \ {Root, Bin}) :
       S # {} => \E i \in S : store[i].pid \notin S

\* Whatever is in a deleted folder is deleted as well.
HiddenWithParent ==
  \A i \in Objects(store) :
    Stored(store[i].pid) /\ IsDeleted(store[store[i].pid]) =>
      IsDeleted(store[i])

\* The two ends of every shortcut agree.
LinksMatch ==
  \A i \in Objects(store) :
    /\ \A k \in store[i].shortcuts : Stored(k) /\ store[k].target = i
    /\ store[i].kind = "shortcut" =>
         Stored(store[i].target) /\ i \in store[store[i].target].shortcuts

BinEntries == {i \in Objects(store) : store[i].kind = "deleted"}

HidingEntries(i) == {d \in BinEntries : store[d].ref \in Line(store)[i]}

HiddenByTarget(k) ==
  /\ store[k].kind = "shortcut"
  /\ Stored(store[k].target)
  /\ IsDeleted(store[store[k].target])

\* _isDeleted counts the entries of the bin that hide an object, its own and
\* those of the folders around it, and once more if it is the shortcut of a
\* deleted object.  So restoring an entry shows exactly what that entry alone
\* had hidden, in whatever order nested objects are deleted and restored.
HiddenAsOftenAsRecycled ==
  \A i \in Objects(store) :
    store[i].level = Cardinality(HidingEntries(i))
                     + IF HiddenByTarget(i) THEN 1 ELSE 0

\* The object of an entry of the bin is not in use at the same time.
NothingInBinIsVisible ==
  \A d \in BinEntries : Stored(store[d].ref) => IsDeleted(store[store[d].ref])

\* Deleting an object permanently succeeds whatever is in it, points to it or
\* is pointed to from it.
EverythingCanBeDeleted ==
  \A i \in Visible : store[i].kind \in Movables => DeleteItem(Now, store[i]).ok

\* What the users see, the child counters and the bin left out.
Seen(db) ==
  [i \in Objects(db) \ {Bin} |-> [db[i] EXCEPT !.ni = 0, !.nc = 0]]

\* Moving an object to the bin and restoring it changes nothing that the users
\* see, whatever is in it and in the bin.
RestoreUndoesRecycle ==
  \A i \in Visible : store[i].kind \in Movables /\ ~NoIdLeft(Now) =>
    LET recycled == RecycleItem(Now, store[i])
        restored == RestoreTo(recycled, recycled.db[NewId(Now)], None)
    IN recycled.ok => restored.ok /\ Seen(restored.db) = Seen(store)

\* systemObjects.py:263 "Deletes the item permanently": a deleted object does
\* not come back.
DeletedForGood ==
  [][\A i \in used : ~Stored(i) => i \notin Objects(store')]_vars

\* systemObjects.py:85-86 "the item's references are not cloned": no step, a
\* copy included, changes what an existing shortcut points to.
CopyKeepsReferences ==
  [][\A k \in Objects(store) :
       k \in Objects(store') => store'[k].target = store[k].target]_vars

\* The objects are trees under the root and the bin, and a deleted folder
\* hides all that is in it.
TreeStaysWhole == Rooted /\ HiddenWithParent
=============================================================================
