-------------------------- MODULE MCDataLanguage ---------------------------
(***************************************************************************)
(* Instances for TLC of what the server keeps and how it is asked for it:  *)
(* the documents and composites of items, the roles, the sessions, the     *)
(* database files, the sites of a replicated store, the transactions       *)
(* beside two maintenance commands; and the query language: queries, the   *)
(* parsers of small grammars and of parts of the OQL grammar, the lexer,   *)
(* and the files of generated tables.  They share no variables and are     *)
(* checked side by side: a behaviour runs one of them while the others     *)
(* rest.                                                                   *)
(***************************************************************************)
EXTENDS Queries, LrParser, OqlGrammar, Lexer, GeneratedTables, Attachments,
        Roles, DbSessions, CookieSessions, Environment, Replication, Transactions

CONSTANT Parts   \* the parts to run

VARIABLE part

AllParts == {"queries", "parser", "lexer", "tables", "attachments", "roles",
             "sessions", "cookies", "environment", "replication",
             "transactions"}

dataVars ==
  <<part, queryVars, parserVars, lexVars, tableVars, attachmentVars, rolesVars,
    dbSessionVars, cookieVars, envVars, replicationVars, vars>>

-----------------------------------------------------------------------------
(* Roles: a coordinator of everything, a user whose role differs, and what *)
(* everyone may do.                                                        *)

Groups == [u \in Users |-> {"everyone"}]
RootRoles == "u1" :> COORDINATOR @@ "everyone" :> AUTHOR
RolesGiven ==
  {RootRoles,
   "u1" :> COORDINATOR @@ "u2" :> CONTENT_CO @@ "everyone" :> NO_ACCESS,
   "u1" :> COORDINATOR @@ "u2" :> READER}

AttachmentsAtRest ==
  /\ props = {} /\ schemas = 0
  /\ saved = [items |-> <<>>, composites |-> <<>>, docs |-> <<>>, next |-> 1,
              ok |-> TRUE]
  /\ call = NoCall /\ shared = {} /\ lost = {}

-----------------------------------------------------------------------------
(* Queries: a store of one container and one with folders, a hidden item   *)
(* and a deleted one.                                                      *)

Item(id, pid, folder, i, j, a) ==
  [id |-> id, pid |-> pid, folder |-> folder, attr |-> [i |-> i, j |-> j, a |-> a],
   deleted |-> FALSE, readable |-> TRUE]

FlatStore ==
  <<Item(2, 1, FALSE, 0, 1, 1), Item(3, 1, FALSE, 1, 0, 1),
    Item(4, 1, FALSE, 1, 1, 0), Item(5, 1, FALSE, 2, 1, 1)>>

FolderStore ==
  <<Item(2, 1, TRUE, 1, 1, 1), Item(3, 1, FALSE, 0, 1, 1),
    Item(4, 2, FALSE, 1, 0, 0), Item(5, 2, TRUE, 2, 1, 0),
    Item(6, 5, FALSE, 0, 0, 1),
    [Item(7, 2, FALSE, 1, 1, 1) EXCEPT !.readable = FALSE],
    [Item(8, 1, FALSE, 0, 1, 1) EXCEPT !.deleted = TRUE]>>

Conditions ==
  {Compare(n, op, 1) : n \in {"i", "j", "a"}, op \in {"=", "<>", ">=", "<="}}
  \cup {Between("i", 1, 2), Between("i", 0, 2), Flipped(1, "i"),
        CompareWith("i", ">", "parameter"), CompareWith("i", "=", "a"),
        Not(Compare("i", "=", 1))}

FewConditions ==
  {Compare("i", "=", 1), Compare("i", ">", 0), Compare("i", "<=", 1),
   Compare("j", "=", 1), Compare("a", "=", 1)}

TwoConditions == {Both(x, y) : x, y \in Conditions}
                 \cup {Either(x, y) : x, y \in Conditions}

ThreeConditions ==
  UNION {{Both(Both(x, y), z), Both(Either(x, y), z), Either(Both(x, y), z),
          Both(x, Either(y, z)), Either(x, Both(y, z)), Both(x, Both(y, z)),
          Both(Not(Both(x, y)), z)} : x, y, z \in FewConditions}

Query(store, scopes, where, order, ascending, range) ==
  [store |-> store, scopes |-> scopes, where |-> where, order |-> order,
   ascending |-> ascending, range |-> range]

Scope(deep, container) == [deep |-> deep, container |-> container]
ScopesGiven ==
  {<<Scope(FALSE, 1)>>, <<Scope(TRUE, 1)>>, <<Scope(FALSE, 1), Scope(TRUE, 2)>>}

Queried ==
  {Query(FlatStore, <<Scope(FALSE, 1)>>, where, NoOrder, TRUE, <<>>) :
     where \in Conditions \cup TwoConditions \cup ThreeConditions}
  \cup
  {Query(store, scopes, where, order, ascending, range) :
     store \in {FlatStore, FolderStore}, scopes \in ScopesGiven,
     where \in {Anything} \cup FewConditions
               \cup {Both(x, y) : x, y \in FewConditions},
     order \in {NoOrder, "i", "a"}, ascending \in BOOLEAN,
     range \in {<<>>, <<1, 2>>, <<2, 2>>}}

QueryAtRest ==
  /\ query = Query(<<>>, <<>>, Anything, NoOrder, TRUE, <<>>)
  /\ prepared = Pending /\ answer = Pending

-----------------------------------------------------------------------------
(* Grammars: those of the textbook that tell the methods apart, a family   *)
(* of small ones, and parts of the OQL grammar.                            *)

Built(declaration, method, maxTokens) ==
  declaration @@ [method |-> method, maxTokens |-> maxTokens]

Plain1(toks, rules) == Declared(toks, <<>>, rules, NoSymbol)

Assignments ==
  Plain1({"=", "*", "id"},
    << <<"S", "L", "=", "R">>, <<"S", "R">>, <<"L", "*", "R">>, <<"L", "id">>,
       <<"R", "L">> >>)

NeedsLr1 ==
  Plain1({"a", "b", "c", "d", "e"},
    << <<"S", "a", "E", "c">>, <<"S", "a", "F", "d">>, <<"S", "b", "F", "c">>,
       <<"S", "b", "E", "d">>, <<"E", "e">>, <<"F", "e">> >>)

EmptyParts ==
  Plain1({"a", "b", "c"},
    << <<"S", "A", "B", "c">>, <<"A", "a">>, <<"A">>, <<"B", "b">>, <<"B">> >>)

InnerItems ==
  Plain1({"x", "e", "c", "d"},
    << <<"S", "N", "d">>, <<"S", "X", "P", "c">>, <<"N", "X", "M">>, <<"M", "e">>,
       <<"M", "N", "c">>, <<"P", "e">>, <<"X", "x">> >>)

Shapes == {<<>>, <<"a">>, <<"A">>, <<"S", "a">>, <<"b", "A">>, <<"A", "S">>}

SmallGrammars ==
  {Plain1({"a", "b"}, << <<"S">> \o r[1], <<"S">> \o r[2],
                         <<"A">> \o r[3], <<"A">> \o r[4] >>) :
     r \in Shapes \X Shapes \X Shapes \X Shapes}

OqlNames == {grammarRules[n][1] : n \in DOMAIN grammarRules}

DeclarationsBuilt ==
  {Built(d, method, 3) :
     d \in SmallGrammars \cup {Assignments, NeedsLr1, EmptyParts, InnerItems},
     method \in {"LALR", "SLR"}}
  \cup
  {Built(Part({"OR", "AND", "NOT", "EQ", "BETWEEN", "NAME"}, {"expression"},
              "expression"), "LALR", 8),
   Built(Part({"MINUS", "TIMES", "EQ", "NOT", "NAME"}, {"expression"},
              "expression"), "LALR", 7),
   Built(Part({"SELECT", "FROM", "NAME", "COMMA", "AS", "PLUS"},
              OqlNames \ {"array", "expression_list"}, "select_statement"),
         "LALR", 9)}

ParserAtRest ==
  /\ declared = "none" /\ grammar = NoSymbol /\ table = NoSymbol
  /\ statestack = <<>> /\ symstack = <<>> /\ lookahead = NoSymbol
  /\ consumed = <<>> /\ reduced = 0 /\ verdict = "resting"

-----------------------------------------------------------------------------
(* Texts: all short ones, longer ones of the characters of numbers, and of *)
(* those of strings and comments.                                          *)

TextsOf(characters, most) == UNION {[1..n -> characters] : n \in 0..most}

TextsRead ==
  TextsOf(Characters, 4) \cup TextsOf({"d", ".", "e", "-"}, 6)
  \cup TextsOf({"q", "b", "n", "-"}, 6)

LexerAtRest == lexdata = <<>> /\ lexpos = 0 /\ lexed = <<>> /\ lexerror = FALSE

-----------------------------------------------------------------------------
DataInit ==
  /\ part \in Parts
  /\ IF part = "queries" THEN QueryInit ELSE QueryAtRest
  /\ IF part = "parser" THEN ParserInit ELSE ParserAtRest
  /\ IF part = "lexer" THEN LexInit ELSE LexerAtRest
  /\ IF part = "attachments" THEN AttachmentsInit ELSE AttachmentsAtRest
  /\ TablesInit /\ RolesInit /\ DbSessionsInit /\ CookiesInit /\ EnvInit
  /\ ReplicationInit /\ Init

DataNext ==
  /\ UNCHANGED part
  /\ \/ /\ part = "queries" /\ QueryNext
        /\ UNCHANGED <<parserVars, lexVars, tableVars, attachmentVars,
                       rolesVars, dbSessionVars, cookieVars, envVars,
                       replicationVars, vars>>
     \/ /\ part = "parser" /\ ParserNext
        /\ UNCHANGED <<queryVars, lexVars, tableVars, attachmentVars,
                       rolesVars, dbSessionVars, cookieVars, envVars,
                       replicationVars, vars>>
     \/ /\ part = "lexer" /\ LexNext
        /\ UNCHANGED <<queryVars, parserVars, tableVars, attachmentVars,
                       rolesVars, dbSessionVars, cookieVars, envVars,
                       replicationVars, vars>>
     \/ /\ part = "tables" /\ TablesNext
        /\ UNCHANGED <<queryVars, parserVars, lexVars, attachmentVars,
                       rolesVars, dbSessionVars, cookieVars, envVars,
                       replicationVars, vars>>
     \/ /\ part = "attachments" /\ AttachmentsNext
        /\ UNCHANGED <<queryVars, parserVars, lexVars, tableVars,
                       rolesVars, dbSessionVars, cookieVars, envVars,
                       replicationVars, vars>>
     \/ /\ part = "roles" /\ RolesNext
        /\ UNCHANGED <<queryVars, parserVars, lexVars, tableVars,
                       attachmentVars, dbSessionVars, cookieVars, envVars,
                       replicationVars, vars>>
     \/ /\ part = "sessions" /\ DbSessionsNext
        /\ UNCHANGED <<queryVars, parserVars, lexVars, tableVars,
                       attachmentVars, rolesVars, cookieVars, envVars,
                       replicationVars, vars>>
     \/ /\ part = "cookies" /\ CookiesNext
        /\ UNCHANGED <<queryVars, parserVars, lexVars, tableVars,
                       attachmentVars, rolesVars, dbSessionVars, envVars,
                       replicationVars, vars>>
     \/ /\ part = "environment" /\ EnvNext
        /\ UNCHANGED <<queryVars, parserVars, lexVars, tableVars,
                       attachmentVars, rolesVars, dbSessionVars, cookieVars,
                       replicationVars, vars>>
     \/ /\ part = "replication" /\ ReplicationNext
        /\ UNCHANGED <<queryVars, parserVars, lexVars, tableVars,
                       attachmentVars, rolesVars, dbSessionVars, cookieVars,
                       envVars, vars>>
     \/ /\ part = "transactions" /\ Next
        /\ UNCHANGED <<queryVars, parserVars, lexVars, tableVars,
                       attachmentVars, rolesVars, dbSessionVars, cookieVars,
                       envVars, replicationVars>>

DataSpec == DataInit /\ [][DataNext]_dataVars
-----------------------------------------------------------------------------
\* Every variable of the parts that are stored keeps its type.
DataTypeOK ==
  AttachmentsTypeOK /\ RolesTypeOK /\ DbSessionsTypeOK /\ EnvTypeOK
  /\ ReplicationTypeOK
=============================================================================
