-------------------------- MODULE GeneratedTables ---------------------------
(***************************************************************************)
(* The table files of the OQL lexer and parser (core.yacc: lex.lex,        *)
(* Lexer.readtab and writetab, yacc.yacc, LRTable.read_table,              *)
(* LRGeneratedTable.write_table), as every parse of a query uses them:     *)
(* each process imports the files, and one that finds no usable table      *)
(* builds its own and writes the file, all at the same time.               *)
(*                                                                         *)
(* A file is Missing, or the list of the blocks that reached the disk; a   *)
(* block is 0 or the version of the sources its tables were made from.     *)
(* The lexer's file fits in one block.  An import is kept by the process   *)
(* until it ends; one of a broken file raises, and is not kept.            *)
(***************************************************************************)
EXTENDS Integers, Sequences

CONSTANTS
  Processes,      \* the processes that parse queries
  MaxVersion,     \* bound: the versions of the sources
  MaxCrashes      \* bound: the crashes

ASSUME GeneratedTablesAssumption == MaxVersion \in Nat \ {0} /\ MaxCrashes \in Nat

Missing == <<-1>>
Files   == {"lextab", "parsetab"}
Blocks(f) == IF f = "lextab" THEN 1 ELSE 2
Opening == [lextab |-> "open lextab", parsetab |-> "open parsetab"]
Writing == [lextab |-> "write lextab", parsetab |-> "write parsetab"]
Truncated(f) == [b \in 1..Blocks(f) |-> 0]

VARIABLES
  file,         \* the contents of the files
  installed,    \* the version of the sources on the disk
  running,      \* the version a process runs, 0 if it does not run
  imported,     \* the contents a process has imported, Missing if none
  doing,        \* what a process does
  block,        \* the next block it writes
  using,        \* the version of the tables it has, 0 if none
  crashes

tableVars == <<file, installed, running, imported, doing, block, using, crashes>>

TablesInit ==
  /\ file = [f \in Files |-> Missing]
  /\ installed = 1
  /\ running = [p \in Processes |-> 0]
  /\ imported = [p \in Processes |-> [f \in Files |-> Missing]]
  /\ doing = [p \in Processes |-> "down"]
  /\ block = [p \in Processes |-> 1]
  /\ using = [p \in Processes |-> [f \in Files |-> 0]]
  /\ crashes = 0

StartProcess(p) ==
  /\ doing[p] = "down"
  /\ running' = [running EXCEPT ![p] = installed]
  /\ doing' = [doing EXCEPT ![p] = "idle"]
  /\ UNCHANGED <<file, installed, imported, block, using, crashes>>

Stopped(p) ==
  /\ running' = [running EXCEPT ![p] = 0]
  /\ imported' = [imported EXCEPT ![p] = [f \in Files |-> Missing]]
  /\ doing' = [doing EXCEPT ![p] = "down"]
  /\ block' = [block EXCEPT ![p] = 1]
  /\ using' = [using EXCEPT ![p] = [f \in Files |-> 0]]
  /\ UNCHANGED <<file, installed>>

StopProcess(p) == doing[p] = "idle" /\ Stopped(p) /\ UNCHANGED crashes

CrashProcess(p) ==
  /\ doing[p] \notin {"down", "idle"}
  /\ crashes < MaxCrashes /\ crashes' = crashes + 1
  /\ Stopped(p)

\* New sources are installed, with the server running.
Upgrade ==
  /\ installed < MaxVersion
  /\ installed' = installed + 1
  /\ UNCHANGED <<file, running, imported, doing, block, using, crashes>>

-----------------------------------------------------------------------------
IsWhole(contents) ==
  \E v \in 1..MaxVersion : \A b \in DOMAIN contents : contents[b] = v
IsEmpty(contents) == \A b \in DOMAIN contents : contents[b] = 0

\* What the import statement gives: the module the process has, or the
\* file.  A file cut off, or of two versions, is a SyntaxError.
Import(p, f) ==
  IF imported[p][f] # Missing THEN imported[p][f]
  ELSE IF IsWhole(file[f]) \/ IsEmpty(file[f]) THEN file[f] ELSE Missing

MutantAcceptsParser(p, contents) == IsWhole(contents)

\* The lexer checks the version of PLY only, the parser its signature.
AcceptsLexer(p, contents)  == IsWhole(contents)
AcceptsParser(p, contents) == IsWhole(contents) /\ contents[1] = running[p]

AcceptsTables(p, f, contents) ==
  IF f = "lextab" THEN AcceptsLexer(p, contents) ELSE AcceptsParser(p, contents)

After(f) == IF f = "lextab" THEN "yacc" ELSE "parse"

ReadTable(p, f) ==
  LET contents == Import(p, f)
  IN  /\ imported' = [imported EXCEPT ![p][f] = contents]
      /\ IF AcceptsTables(p, f, contents)
         THEN /\ using' = [using EXCEPT ![p][f] = contents[1]]
              /\ doing' = [doing EXCEPT ![p] = After(f)]
         ELSE /\ using' = [using EXCEPT ![p][f] = running[p]]
              /\ doing' = [doing EXCEPT ![p] = Opening[f]]
      /\ UNCHANGED <<file, installed, running, block, crashes>>

Lex(p)  == doing[p] = "idle" /\ ReadTable(p, "lextab")
Yacc(p) == doing[p] = "yacc" /\ ReadTable(p, "parsetab")

MutantOpenTable(p, f) ==
  /\ doing[p] = Opening[f]
  /\ file' = [file EXCEPT ![f] = Truncated(f)]
  /\ doing' = [doing EXCEPT ![p] = Writing[f]]
  /\ block' = [block EXCEPT ![p] = IF file[f] = Missing THEN 1 ELSE Blocks(f)]
  /\ UNCHANGED <<installed, running, imported, using, crashes>>

\* open(filename, "w") empties the file.
OpenTable(p, f) ==
  /\ doing[p] = Opening[f]
  /\ file' = [file EXCEPT ![f] = Truncated(f)]
  /\ doing' = [doing EXCEPT ![p] = Writing[f]]
  /\ block' = [block EXCEPT ![p] = 1]
  /\ UNCHANGED <<installed, running, imported, using, crashes>>

\* A block of the buffer is flushed, the last one when the file is closed.
WriteTable(p, f) ==
  /\ doing[p] = Writing[f]
  /\ file' = [file EXCEPT ![f][block[p]] = running[p]]
  /\ IF block[p] < Blocks(f)
     THEN block' = [block EXCEPT ![p] = @ + 1] /\ UNCHANGED doing
     ELSE /\ block' = [block EXCEPT ![p] = 1]
          /\ doing' = [doing EXCEPT ![p] = After(f)]
  /\ UNCHANGED <<installed, running, imported, using, crashes>>

ParseQuery(p) ==
  /\ doing[p] = "parse"
  /\ doing' = [doing EXCEPT ![p] = "idle"]
  /\ UNCHANGED <<file, installed, running, imported, block, using, crashes>>

TablesNext ==
  \/ Upgrade
  \/ \E p \in Processes :
       \/ StartProcess(p) \/ StopProcess(p) \/ CrashProcess(p)
       \/ Lex(p) \/ Yacc(p) \/ ParseQuery(p)
       \/ \E f \in Files : OpenTable(p, f) \/ WriteTable(p, f)

TablesSpec == TablesInit /\ [][TablesNext]_tableVars

-----------------------------------------------------------------------------
\* A query is parsed with the tables of the grammar its process has loaded,
\* whatever other processes, older versions and crashes left in the files.
\* It is not so for the lexer.
ParsesWithItsGrammar ==
  \A p \in Processes : doing[p] = "parse" => using[p]["parsetab"] = running[p]

\* If no process crashed, a file that nobody writes is complete: the last
\* of the processes that emptied it writes all of it again.
FilesAreWhole ==
  \A f \in Files :
    /\ crashes = 0 /\ file[f] # Missing
    /\ \A p \in Processes : doing[p] # Writing[f]
    => \A b \in 1..Blocks(f) : file[f][b] # 0

\* Several processes may share the directory of the generated tables.
TablesCanBeShared == ParsesWithItsGrammar /\ FilesAreWhole
=============================================================================
