------------------------------ MODULE Grammars ------------------------------
(***************************************************************************)
(* The grammars of the parser generator (core.yacc.yacc: ParserReflect,    *)
(* Production, Grammar): how the declared rules become a grammar, what is  *)
(* refused, and the sets computed from it.                                 *)
(*                                                                         *)
(* Symbols are strings.  What a module declares is a record                *)
(*   [tokens     : set of terminals,                                       *)
(*    precedence : sequence of [assoc, terms], the lowest level first,     *)
(*    rules      : sequence of [name, syms, line],                         *)
(*    start      : a symbol, or NoSymbol]                                  *)
(* and a grammar is a record with the productions numbered from 1;         *)
(* production 0 is S' -> start.                                            *)
(***************************************************************************)
EXTENDS Integers, Sequences, FiniteSets, TLC
LOCAL INSTANCE SequencesExt
LOCAL INSTANCE FiniteSetsExt

NoSymbol == "None"
PREC     == "%prec"
Empty    == "<empty>"
End      == "$end"
Associativities == {"left", "right", "nonassoc"}

NoPrecedence == [assoc |-> "right", level |-> 0]

\* The levels at which the token t is declared: the first of them counts.
Levels(declared, t) ==
  {l \in DOMAIN declared : /\ declared[l].assoc \in Associativities
                           /\ t \in ToSet(declared[l].terms)}

DeclaredPrecedence(declared) ==
  [t \in {t \in UNION {ToSet(declared[l].terms) : l \in DOMAIN declared} :
             Levels(declared, t) # {}} |->
     LET l == Min(Levels(declared, t))
     IN  [assoc |-> declared[l].assoc, level |-> l]]

PrecedenceOf(g, t) ==
  IF t \in DOMAIN g.precedence THEN g.precedence[t] ELSE NoPrecedence

RightmostTerminal(g, syms) ==
  LET last == SelectLastInSeq(syms, LAMBDA s : s \in g.terminals)
  IN  IF last = 0 THEN NoSymbol ELSE syms[last]

-----------------------------------------------------------------------------
(* Adding the productions, one after the other: a wrong one is left out    *)
(* and counted as an error.                                                *)

Overrides(syms) == PREC \in ToSet(syms)

BadOverride(g, syms) ==
  /\ Overrides(syms)
  /\ \/ Last(syms) = PREC
     \/ syms[Len(syms) - 1] # PREC
     \/ Last(syms) \notin DOMAIN g.precedence

Symbols(syms) ==
  IF Overrides(syms) THEN SubSeq(syms, 1, Len(syms) - 2) ELSE syms

Production(g, rule) ==
  [name |-> rule.name, prod |-> Symbols(rule.syms), line |-> rule.line,
   prec |-> PrecedenceOf(g, IF Overrides(rule.syms) THEN Last(rule.syms)
                            ELSE RightmostTerminal(g, rule.syms))]

IsDuplicate(g, p) ==
  \E n \in DOMAIN g.prods \ {0} :
     g.prods[n].name = p.name /\ g.prods[n].prod = p.prod

AddProduction(g, rule) ==
  IF rule.name \in g.terminals \/ BadOverride(g, rule.syms)
  THEN [g EXCEPT !.errors = TRUE]
  ELSE LET used == IF Overrides(rule.syms) THEN {Last(rule.syms)} ELSE {}
           p    == Production(g, rule)
           seen == [g EXCEPT !.used = @ \union used]
       IN  IF IsDuplicate(g, p)
           THEN [seen EXCEPT !.errors = TRUE]
           ELSE [seen EXCEPT !.prods = @ @@ (Cardinality(DOMAIN @) :> p)]

Names(g) == {g.prods[n].name : n \in DOMAIN g.prods \ {0}}
Occurring(g) == UNION {ToSet(g.prods[n].prod) : n \in DOMAIN g.prods \ {0}}
Nonterminals(g) == Names(g) \union (Occurring(g) \ g.terminals)

StartProduction(start) ==
  [name |-> "S'", prod |-> <<start>>, line |-> 0, prec |-> NoPrecedence]

SetStart(g, start) ==
  IF start \in Nonterminals(g)
  THEN [g EXCEPT !.prods[0] = StartProduction(start), !.start = start]
  ELSE [g EXCEPT !.errors = TRUE]

\* The productions without any are an IndexError: no grammar either.
Grammar(declared) ==
  LET none == [terminals |-> declared.tokens \union {"error"},
               precedence |-> DeclaredPrecedence(declared.precedence),
               used |-> {}, start |-> NoSymbol,
               errors |-> "error" \in declared.tokens,
               prods |-> (0 :> StartProduction(NoSymbol))]
      g == FoldLeft(AddProduction, none, declared.rules)
  IN  IF Cardinality(DOMAIN g.prods) = 1 THEN [g EXCEPT !.errors = TRUE]
      ELSE SetStart(g, IF declared.start # NoSymbol THEN declared.start
                       ELSE g.prods[1].name)

-----------------------------------------------------------------------------
(* The checks of a grammar.                                                *)

ProductionsOf(g, s) ==
  SelectSeq([n \in 1..Cardinality(DOMAIN g.prods) - 1 |-> n],
            LAMBDA n : g.prods[n].name = s)

UndefinedSymbols(g) == Occurring(g) \ (Names(g) \union g.terminals)

UnusedPrecedence(g) == DOMAIN g.precedence \ (g.terminals \union g.used)

RECURSIVE MarkReachable(_, _)
MarkReachable(g, marked) ==
  LET step == marked \union
                UNION {ToSet(g.prods[n].prod) :
                         n \in {n \in DOMAIN g.prods \ {0} :
                                  g.prods[n].name \in marked}}
  IN  IF step = marked THEN marked ELSE MarkReachable(g, step)

FindUnreachable(g) == Nonterminals(g) \ MarkReachable(g, {g.start})

RECURSIVE Terminate(_, _)
MutantTerminate(g, terminates) ==
  LET step == terminates \union
                {g.prods[n].name :
                   n \in {n \in DOMAIN g.prods \ {0} :
                            ToSet(g.prods[n].prod) \cap terminates # {}}}
  IN  IF step = terminates THEN terminates ELSE Terminate(g, step)

Terminate(g, terminates) ==
  LET step == terminates \union
                {g.prods[n].name :
                   n \in {n \in DOMAIN g.prods \ {0} :
                            ToSet(g.prods[n].prod) \subseteq terminates}}
  IN  IF step = terminates THEN terminates ELSE Terminate(g, step)

InfiniteCycles(g) ==
  Nonterminals(g) \ (Terminate(g, g.terminals) \union UndefinedSymbols(g))

\* Whether yacc() goes on to the tables.  Unused tokens, unused rules and
\* unreachable symbols are only warned of.
IsAccepted(g) ==
  /\ ~g.errors
  /\ UndefinedSymbols(g) = {}
  /\ InfiniteCycles(g) = {}
  /\ UnusedPrecedence(g) = {}

-----------------------------------------------------------------------------
(* FIRST, FOLLOW and the nullable nonterminals, by propagation until       *)
(* nothing changes.                                                        *)

\* FIRST of a string of symbols, given the first sets of the symbols.
FirstOf(first, beta) ==
  LET vanish(k) == \A j \in 1..k : Empty \in first[beta[j]]
  IN  UNION {first[beta[k]] \ {Empty} :
               k \in {k \in DOMAIN beta : vanish(k - 1)}}
      \union (IF vanish(Len(beta)) THEN {Empty} ELSE {})

RECURSIVE PropagateFirst(_, _)
PropagateFirst(g, first) ==
  LET step == [s \in DOMAIN first |->
                 first[s] \union
                 UNION {FirstOf(first, g.prods[n].prod) :
                          n \in {n \in DOMAIN g.prods \ {0} :
                                   g.prods[n].name = s}}]
  IN  IF step = first THEN first ELSE PropagateFirst(g, step)

First(g) ==
  PropagateFirst(g, [s \in g.terminals \union {End} \union Nonterminals(g) |->
                       IF s \in Nonterminals(g) THEN {} ELSE {s}])

RECURSIVE PropagateFollow(_, _, _)
PropagateFollow(g, first, follow) ==
  LET after(n, k) == FirstOf(first, SubSeq(g.prods[n].prod, k + 1,
                                           Len(g.prods[n].prod)))
      places(B) == {p \in UNION {{n} \X DOMAIN g.prods[n].prod :
                                   n \in DOMAIN g.prods \ {0}} :
                      g.prods[p[1]].prod[p[2]] = B}
      step == [B \in DOMAIN follow |->
                 follow[B] \union
                 UNION {(after(p[1], p[2]) \ {Empty})
                        \union (IF Empty \in after(p[1], p[2])
                                THEN follow[g.prods[p[1]].name] ELSE {}) :
                          p \in places(B)}]
  IN  IF step = follow THEN follow ELSE PropagateFollow(g, first, step)

\* The start symbol is here that of the first production.
Follow(g) ==
  PropagateFollow(g, First(g),
    [B \in Nonterminals(g) |-> IF B = g.prods[1].name THEN {End} ELSE {}])

RECURSIVE PropagateNullable(_, _)
PropagateNullable(g, nullable) ==
  LET step == nullable \union
                {g.prods[n].name :
                   n \in {n \in DOMAIN g.prods \ {0} :
                            ToSet(g.prods[n].prod) \subseteq nullable}}
  IN  IF step = nullable THEN nullable ELSE PropagateNullable(g, step)

Nullable(g) == PropagateNullable(g, {})
=============================================================================
