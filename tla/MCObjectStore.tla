--------------------------- MODULE MCObjectStore ----------------------------
(***************************************************************************)
(* Small instances of ObjectStore for TLC: a handful of ids, sorted in the *)
(* order in which they are given out or in the opposite one, and folders   *)
(* that accept all kinds of objects or no shortcuts.                       *)
(***************************************************************************)
EXTENDS ObjectStore, TLC

AllKinds    == [k \in {"root", "folder"} |-> Movables]
FoldersAndShortcuts == [k \in {"root", "folder"} |-> {"folder", "shortcut"}]
NoShortcuts == [k \in {"root", "folder"} |-> {"folder", "document"}]

Up(n)   == [i \in 1 .. n |-> i]
Down(n) == [i \in 1 .. n |-> n + 1 - i]
Up3   == Up(3)
Up4   == Up(4)
Up5   == Up(5)
Down4 == Down(4)
Down5 == Down(5)

Symmetry == Permutations(Names)
=============================================================================
