------------------------------ MODULE Cursors -------------------------------
(***************************************************************************)
(* The cursors over the indexes (db.bsddb.cursor, db.basecursor) and how   *)
(* items get into an index (db.baseindex).                                 *)
(*                                                                         *)
(* An index is a B-tree with sorted duplicates: a sequence of entries in   *)
(* the order of container, packed value and item.  The position of a       *)
(* Berkeley DB cursor is the number of an entry, NoEntry (None) if an      *)
(* operation of it finds none.  A store is a sequence of items in the      *)
(* order of their ids.                                                     *)
(***************************************************************************)
EXTENDS Integers, Sequences, FiniteSets, TLC
LOCAL INSTANCE SequencesExt
LOCAL INSTANCE FiniteSetsExt

CONSTANT IntBits    \* bound: the bits of a packed integer (32 in the code)

ASSUME IntBitsAssumption == IntBits \in Nat \ {0}

Absent  == 1000     \* the value of an attribute that an item does not have
NoEntry == 0
NoBound == [key |-> Absent, inclusive |-> FALSE]

\* Two's complement, compared byte by byte.
Pack(value) == value % (2 ^ IntBits)

Precedes(e, f) ==
  \/ e.scope < f.scope
  \/ e.scope = f.scope /\ e.key < f.key

\* What the callback of the index puts in.  Deleted items are not indexed.
IndexOf(store, name) ==
  LET HasKey(item) == item.attr[name] # Absent /\ ~item.deleted
      items == SelectSeq(store, HasKey)
  IN  SortSeq([i \in DOMAIN items |->
                 [scope |-> items[i].pid, key |-> Pack(items[i].attr[name]),
                  item |-> items[i]]], Precedes)

\* The primary database as the index of a container's children.
ChildrenIndex(store) ==
  SortSeq([i \in DOMAIN store |->
             [scope |-> store[i].pid, key |-> store[i].id, item |-> store[i]]],
          Precedes)

-----------------------------------------------------------------------------
(* Operations of a Berkeley DB cursor: external.                           *)

Earliest(positions) == IF positions = {} THEN NoEntry ELSE Min(positions)
Latest(positions) == IF positions = {} THEN NoEntry ELSE Max(positions)

SameKey(e, f) == e.scope = f.scope /\ e.key = f.key

DbSet(ix, target)  == Earliest({p \in DOMAIN ix : SameKey(ix[p], target)})
SetRange(ix, target) == Earliest({p \in DOMAIN ix : ~Precedes(ix[p], target)})
GetLast(ix)        == Len(ix)
GetNext(ix, p)     == IF p < Len(ix) THEN p + 1 ELSE NoEntry
GetPrev(ix, p)     == p - 1
NextNoDup(ix, p)   == Earliest({q \in DOMAIN ix : Precedes(ix[p], ix[q])})

Target(scope, key) == [scope |-> scope, key |-> key]

-----------------------------------------------------------------------------
(* A cursor looks for one value, or for a range of them.                   *)

ValueCursor(value) ==
  [exact |-> TRUE, value |-> Pack(value), low |-> NoBound, high |-> NoBound,
   reversed |-> FALSE]

PackBound(bound) ==
  IF bound.key = Absent THEN NoBound ELSE [bound EXCEPT !.key = Pack(@)]

RangeCursor(low, high, reversed) ==
  [exact |-> FALSE, value |-> Absent, low |-> PackBound(low),
   high |-> PackBound(high), reversed |-> reversed]

AboveLow(cur, key) ==
  \/ cur.low.key = Absent
  \/ cur.low.key < key
  \/ cur.low.inclusive /\ cur.low.key = key

BelowHigh(cur, key) ==
  \/ cur.high.key = Absent
  \/ cur.high.key > key
  \/ cur.high.inclusive /\ cur.high.key = key

\* Range.__contains__, or the comparison with the value.
Admits(cur, key) ==
  IF cur.exact THEN key = cur.value ELSE AboveLow(cur, key) /\ BelowHigh(cur, key)

\* An entry at the bound itself is passed over if the bound is exclusive.
PassBound(cur, ix, at) ==
  IF at # NoEntry /\ ~cur.low.inclusive /\ ix[at].key = cur.low.key
  THEN NextNoDup(ix, at) ELSE at

\* The first entry of a forward cursor.
SetForward(cur, ix, scope) ==
  CASE cur.exact -> DbSet(ix, Target(scope, cur.value))
    [] ~cur.exact /\ cur.low.key = Absent -> SetRange(ix, Target(scope, 0))
    [] OTHER -> PassBound(cur, ix, SetRange(ix, Target(scope, cur.low.key)))

\* The last of the entries with the same key.
LastDuplicate(ix, at) ==
  IF NextNoDup(ix, at) # NoEntry THEN GetPrev(ix, NextNoDup(ix, at)) ELSE GetLast(ix)

\* Back from the upper bound to the first entry that is not beyond it:
\* each step goes to the last duplicate of the key before.
BackFrom(cur, ix, scope, at) ==
  LET Beyond(p) == \/ ix[p].scope > scope
                   \/ ix[p].scope = scope /\ ~BelowHigh(cur, ix[p].key)
      stop == Latest({p \in 1 .. at : ~Beyond(p)})
  IN  IF ~Beyond(at) THEN at
      ELSE IF stop # NoEntry /\ ix[stop].scope = scope THEN stop ELSE NoEntry

\* The first entry of a reversed cursor.  The code tests the last entry of
\* an index without asking whether there is one (RaisesWhenEmpty).
SetReversed(cur, ix, scope) ==
  LET equal == DbSet(ix, Target(scope, cur.value))
      above == SetRange(ix, Target(scope, cur.high.key))
      next  == SetRange(ix, Target(scope + 1, 0))
  IN  CASE cur.exact -> IF equal = NoEntry THEN NoEntry ELSE LastDuplicate(ix, equal)
        [] ~cur.exact /\ cur.high.key = Absent ->
             IF next # NoEntry THEN GetPrev(ix, next) ELSE GetLast(ix)
        [] OTHER ->
             IF ix = <<>> THEN NoEntry
             ELSE BackFrom(cur, ix, scope,
                           IF above # NoEntry THEN above ELSE GetLast(ix))

RaisesWhenEmpty(cur, ix) ==
  ix = <<>> /\ cur.reversed /\ ~cur.exact /\ cur.high.key # Absent

StartOf(cur, ix, scope) ==
  IF cur.reversed THEN SetReversed(cur, ix, scope) ELSE SetForward(cur, ix, scope)

\* The cursor skips what the user may not read, and deleted items.
GetItem(item) == ~item.deleted /\ item.readable

\* The entries in the order of the cursor.
EntriesFrom(cur, ix, start) ==
  CASE start = NoEntry -> <<>>
    [] start # NoEntry /\ cur.reversed -> Reverse(SubSeq(ix, 1, start))
    [] OTHER -> SubSeq(ix, start, Len(ix))

UpTo(run, end) == IF end = NoEntry THEN run ELSE SubSeq(run, 1, end - 1)

MutantWithin(cur, run, scope) ==
  UpTo(run, Earliest({p \in DOMAIN run : ~Admits(cur, run[p].key)}))

\* Until the first entry of another container or out of the range.
Within(cur, run, scope) ==
  UpTo(run, Earliest({p \in DOMAIN run :
                        ~(run[p].scope = scope /\ Admits(cur, run[p].key))}))

ItemsAt(entries) == [i \in DOMAIN entries |-> entries[i].item]

\* __iter__
Walk(cur, ix, scope) ==
  SelectSeq(ItemsAt(Within(cur, EntriesFrom(cur, ix, StartOf(cur, ix, scope)),
                           scope)),
            GetItem)

-----------------------------------------------------------------------------
(* Several conditions: a join of cursors.                                  *)

\* _eval: the condition of a cursor on an item that another one found.
Evaluates(cur, name, item) ==
  item.attr[name] # Absent /\ Admits(cur, Pack(item.attr[name]))

\* curs[i] runs over the index names[i].  Cursors on values alone are joined
\* by the database; otherwise the cursor that seems the smallest leads, and
\* the others are evaluated on each item.  The sizes are estimates: any
\* cursor may lead.
JoinWalk(curs, names, store, scope, lead) ==
  LET ix(i) == IndexOf(store, names[i])
      natural == \A i \in DOMAIN curs : curs[i].exact
      found == Walk(curs[lead], ix(lead), scope)
      Valid(item) == \A i \in DOMAIN curs \ {lead} : Evaluates(curs[i], names[i], item)
      Joined(item) == \A i \in DOMAIN curs :
                        item \in ToSet(Walk(curs[i], ix(i), scope))
  IN  IF \E i \in DOMAIN curs : StartOf(curs[i], ix(i), scope) = NoEntry THEN <<>>
      ELSE IF natural
           THEN SelectSeq(Walk(curs[1], ix(1), scope), Joined)
           ELSE SelectSeq(found, Valid)
=============================================================================
