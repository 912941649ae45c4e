------------------------------ MODULE LrParser ------------------------------
(***************************************************************************)
(* The LR parser (core.yacc.yacc: LRParser.parseopt_notrack) over the      *)
(* tables of LalrTables: a grammar is declared, accepted or refused, and   *)
(* the parser reads tokens until it accepts the input or its p_error       *)
(* raises SyntaxError, as the one of the OQL parser does.                  *)
(*                                                                         *)
(* A symbol on the stack is a tree: a token, or the production it was      *)
(* reduced by with the symbols that were taken off.                        *)
(***************************************************************************)
EXTENDS LalrTables
LOCAL INSTANCE SequencesExt
LOCAL INSTANCE FiniteSetsExt

CONSTANTS
  Declarations,    \* the grammars to build (see Grammars), each with its
                   \* method, "LALR" or "SLR", and maxTokens, a bound on the
                   \* tokens of an input
  MaxStack,        \* bound: the height of the stack
  MaxReductions    \* bound: the reductions before a token is shifted

Leaf(token)   == [rule |-> 0, parts |-> <<token>>]
Node(n, parts) == [rule |-> n, parts |-> parts]

VARIABLES
  declared,        \* what the module declares
  grammar,         \* the grammar built, or NoSymbol
  table,           \* its tables, or NoSymbol
  statestack, symstack,
  lookahead,       \* the token that was read, or NoSymbol
  consumed,        \* the tokens shifted so far
  reduced,         \* the reductions since then
  verdict          \* new, refused, parsing, accepted, rejected

parserVars == <<declared, grammar, table, statestack, symstack, lookahead,
                consumed, reduced, verdict>>

ParserInit ==
  /\ declared \in Declarations
  /\ grammar = NoSymbol /\ table = NoSymbol
  /\ statestack = <<1>> /\ symstack = <<Leaf(End)>>
  /\ lookahead = NoSymbol /\ consumed = <<>> /\ reduced = 0
  /\ verdict = "new"

\* A conflict that the code does not know is an error.
TakeTable(t) ==
  /\ table' = IF t.unknown THEN NoSymbol ELSE t
  /\ verdict' = IF t.unknown THEN "refused" ELSE "parsing"

TakeGrammar(g) ==
  /\ grammar' = g
  /\ IF IsAccepted(g) THEN TakeTable(LrParseTable(g, declared.method))
     ELSE verdict' = "refused" /\ UNCHANGED table

\* yacc(): the grammar is checked and its tables are generated.
BuildParser ==
  /\ verdict = "new"
  /\ TakeGrammar(Grammar(declared))
  /\ UNCHANGED <<declared, statestack, symstack, lookahead, consumed, reduced>>

\* The lexer gives the next token, or the end of the input.
ReadToken ==
  /\ verdict = "parsing" /\ lookahead = NoSymbol
  /\ lookahead' \in {End} \union
                    (IF Len(consumed) < declared.maxTokens
                     THEN declared.tokens ELSE {})
  /\ UNCHANGED <<declared, grammar, table, statestack, symstack, consumed,
                 reduced, verdict>>

Ready == verdict = "parsing" /\ lookahead # NoSymbol

\* What the action table says; None is an error as well.
ActionIs(do) ==
  LET row == table.action[Last(statestack)]
  IN  Ready /\ lookahead \in DOMAIN row /\ row[lookahead].do = do

ShiftToken ==
  /\ ActionIs("shift")
  /\ Len(statestack) < MaxStack
  /\ statestack' = Append(statestack,
                          table.action[Last(statestack)][lookahead].to)
  /\ symstack' = Append(symstack, Leaf(lookahead))
  /\ consumed' = Append(consumed, lookahead)
  /\ lookahead' = NoSymbol /\ reduced' = 0
  /\ UNCHANGED <<declared, grammar, table, verdict>>

MutantReduceStep ==
  /\ ActionIs("reduce")
  /\ reduced < MaxReductions /\ reduced' = reduced + 1
  /\ LET n    == table.action[Last(statestack)][lookahead].to
         plen == Len(grammar.prods[n].prod)
         at   == Len(statestack) - plen
     IN  /\ at < MaxStack
         /\ symstack' = Append(SubSeq(symstack, 1, at),
                               Node(n, SubSeq(symstack, at + 1, at + plen)))
         /\ statestack' = Append(SubSeq(statestack, 1, at),
                                 table.goto[statestack[at]]
                                           [grammar.prods[n].name])
         /\ lookahead' = NoSymbol
  /\ UNCHANGED <<declared, grammar, table, consumed, verdict>>

MutantEmptyReduction ==
  /\ ActionIs("reduce")
  /\ reduced < MaxReductions /\ reduced' = reduced + 1
  /\ LET n    == table.action[Last(statestack)][lookahead].to
         plen == Len(grammar.prods[n].prod)
         at   == Len(statestack) - plen
     IN  /\ at < MaxStack
         /\ symstack' = Append(SubSeq(symstack, 1, at),
                               Node(n, SubSeq(symstack, at + 1, at + plen)))
         /\ statestack' = IF plen = 0 THEN statestack
                          ELSE Append(SubSeq(statestack, 1, at),
                                      table.goto[statestack[at]]
                                                [grammar.prods[n].name])
  /\ UNCHANGED <<declared, grammar, table, lookahead, consumed, verdict>>

\* The symbols of the production are taken off both stacks.
ReduceStep ==
  /\ ActionIs("reduce")
  /\ reduced < MaxReductions /\ reduced' = reduced + 1
  /\ LET n    == table.action[Last(statestack)][lookahead].to
         plen == Len(grammar.prods[n].prod)
         at   == Len(statestack) - plen
     IN  /\ at < MaxStack
         /\ symstack' = Append(SubSeq(symstack, 1, at),
                               Node(n, SubSeq(symstack, at + 1, at + plen)))
         /\ statestack' = Append(SubSeq(statestack, 1, at),
                                 table.goto[statestack[at]]
                                           [grammar.prods[n].name])
  /\ UNCHANGED <<declared, grammar, table, lookahead, consumed, verdict>>

AcceptInput ==
  /\ ActionIs("accept")
  /\ verdict' = "accepted"
  /\ UNCHANGED <<declared, grammar, table, statestack, symstack, lookahead,
                 consumed, reduced>>

RejectInput ==
  /\ Ready
  /\ \A do \in {"shift", "reduce", "accept"} : ~ActionIs(do)
  /\ verdict' = "rejected"
  /\ UNCHANGED <<declared, grammar, table, statestack, symstack, lookahead,
                 consumed, reduced>>

ParserNext ==
  BuildParser \/ ReadToken \/ ShiftToken \/ ReduceStep \/ AcceptInput \/ RejectInput

ParserSpec == ParserInit /\ [][ParserNext]_parserVars /\ WF_parserVars(ParserNext)

-----------------------------------------------------------------------------
(* Reference: what a grammar derives.                                      *)

RECURSIVE DerivedSpans(_, _, _), SplitsInto(_, _, _, _, _)

\* The symbols beta derive w from i to j, given the spans of nonterminals.
SplitsInto(spans, w, beta, i, j) ==
  IF beta = <<>> THEN i = j
  ELSE \E k \in i..j :
         /\ \/ k = i + 1 /\ w[k] = Head(beta)
            \/ <<Head(beta), i, k>> \in spans
         /\ SplitsInto(spans, w, Tail(beta), k, j)

\* <<A, i, j>> where A derives w[i + 1..j].
DerivedSpans(g, w, spans) ==
  LET step == spans \union
                UNION {{s \in {g.prods[n].name} \X (0..Len(w)) \X (0..Len(w)) :
                          /\ s[2] <= s[3]
                          /\ SplitsInto(spans, w, g.prods[n].prod, s[2], s[3])} :
                         n \in DOMAIN g.prods \ {0}}
  IN  IF step = spans THEN spans ELSE DerivedSpans(g, w, step)

RECURSIVE Productive(_, _)
\* The symbols that derive a string of tokens in at most n levels.
Productive(g, n) ==
  IF n = 0 THEN g.terminals
  ELSE LET below == Productive(g, n - 1)
       IN  below \union {g.prods[p].name : p \in {p \in DOMAIN g.prods \ {0} :
                                               ToSet(g.prods[p].prod) \subseteq below}}

RECURSIVE BegunAt(_, _, _, _, _)
\* <<A, i>> where A derives a string that begins with w[i + 1..Len(w)].
BegunAt(g, w, spans, productive, begun) ==
  LET begins(s, i) == \/ i = Len(w) /\ s \in productive
                      \/ i + 1 = Len(w) /\ w[Len(w)] = s
                      \/ <<s, i>> \in begun
      goesOn(prod, k, from) ==
        \E i \in from..Len(w) :
           /\ SplitsInto(spans, w, SubSeq(prod, 1, k - 1), from, i)
           /\ begins(prod[k], i)
           /\ \A l \in k + 1..Len(prod) : prod[l] \in productive
      step == begun \union
                {p \in Names(g) \X (0..Len(w)) :
                   \E n \in DOMAIN g.prods \ {0} :
                     /\ g.prods[n].name = p[1]
                     /\ \/ SplitsInto(spans, w, g.prods[n].prod, p[2], Len(w))
                        \/ \E k \in DOMAIN g.prods[n].prod :
                             goesOn(g.prods[n].prod, k, p[2])}
  IN  IF step = begun THEN begun ELSE BegunAt(g, w, spans, productive, step)

IsSentence(g, w) == <<g.start, 0, Len(w)>> \in DerivedSpans(g, w, {})
IsPrefixOfSentence(g, w) ==
  <<g.start, 0>> \in BegunAt(g, w, DerivedSpans(g, w, {}),
                             Productive(g, Cardinality(Names(g))), {})

-----------------------------------------------------------------------------
(* Reference: the LALR(1) lookaheads, by Knuth's canonical construction.   *)

RECURSIVE CloseLr1(_, _, _), PairsFrom(_, _, _, _)

CloseLr1(g, first, items) ==
  LET step == items \union
        UNION {LET rest == SubSeq(g.prods[it[1]].prod, it[2] + 2,
                                  Len(g.prods[it[1]].prod))
               IN  {<<n, 0, a>> :
                      n \in ToSet(ProductionsOf(g, NextSymbol(g, it))),
                      a \in (FirstOf(first, rest) \ {Empty}) \union
                            (IF Empty \in FirstOf(first, rest)
                             THEN {it[3]} ELSE {})} :
                 it \in items}
  IN  IF step = items THEN items ELSE CloseLr1(g, first, step)

GotoLr1(g, first, items, x) ==
  CloseLr1(g, first, {<<it[1], it[2] + 1, it[3]>> :
                        it \in {it \in items : NextSymbol(g, it) = x}})

\* The states of both automata that the same symbols lead to.
PairsFrom(g, first, to, pairs) ==
  LET next(p) == {<<to[p[1]][x], GotoLr1(g, first, p[2], x)>> :
                    x \in {x \in DOMAIN to[p[1]] : to[p[1]][x] # 0}}
      step == pairs \union UNION {next(p) : p \in pairs}
  IN  IF step = pairs THEN pairs ELSE PairsFrom(g, first, to, step)

Lr1Pairs(g, to) ==
  LET first == First(g)
  IN  PairsFrom(g, first, to, {<<1, CloseLr1(g, first, {<<0, 0, End>>})>>})

CanonicalLookaheads(pairs, i, n, len) ==
  UNION {{it[3] : it \in {it \in p[2] : it[1] = n /\ it[2] = len}} :
           p \in {p \in pairs : p[1] = i}}

-----------------------------------------------------------------------------
JustBuilt == verdict = "parsing" /\ consumed = <<>> /\ lookahead = NoSymbol
             /\ Len(statestack) = 1

\* Two actions were possible for a token: the conflict that precedence or
\* the order of the rules decided.
HasConflict ==
  \E i \in DOMAIN table.items, a \in grammar.terminals \union {End} :
     LET complete == {item \in ToSet(table.items[i]) : Complete(grammar, item)}
         reduces  == {item \in complete :
                        IF item[1] = 0 THEN a = End
                        ELSE a \in table.laheads[<<i, item[1]>>]}
         shifts   == \E item \in ToSet(table.items[i]) :
                        NextSymbol(grammar, item) = a
     IN  \/ Cardinality(reduces) > 1
         \/ reduces # {} /\ shifts

\* The items of a nonterminal that stand in the middle of its productions,
\* in a state it also starts in: their suffixes are followed from the
\* wrong state.
HasInnerItems ==
  \E i \in DOMAIN table.items : \E p, q \in ToSet(table.items[i]) :
     /\ p[1] # 0 /\ p[2] > 0 /\ ~Complete(grammar, p)
     /\ NextSymbol(grammar, q) = grammar.prods[p[1]].name

\* The lookaheads of a reduction are those of LALR(1): all that the
\* canonical LR(1) automaton has after the same symbols, and no other one
\* where no item of a nonterminal is followed from a state it did not start in.
LookaheadsAreLalr ==
  JustBuilt /\ declared.method = "LALR" =>
    LET pairs == Lr1Pairs(grammar, table.goto)
        canonical(p) == CanonicalLookaheads(pairs, p[1], p[2],
                                            Len(grammar.prods[p[2]].prod))
    IN  \A p \in DOMAIN table.laheads :
           /\ canonical(p) \subseteq table.laheads[p]
           /\ HasInnerItems \/ table.laheads[p] = canonical(p)

\* Without a conflict the parser accepts exactly what the grammar derives,
\* and it fails on the first token that no sentence goes on with.
VerdictIsRight ==
  verdict \in {"accepted", "rejected"} /\ ~HasConflict =>
    IF verdict = "accepted" THEN IsSentence(grammar, consumed)
    ELSE IF lookahead = End THEN ~IsSentence(grammar, consumed)
    ELSE ~IsPrefixOfSentence(grammar, Append(consumed, lookahead))

\* A grammar the checks let through has no dead end: what was shifted can
\* always be completed to a sentence.  (Asked of grammars without precedence
\* levels, which take no sentence away from a grammar.)
ShiftedCanBeCompleted ==
  verdict = "parsing" /\ consumed # <<>> /\ lookahead = NoSymbol
  /\ declared.precedence = <<>> =>
    IsPrefixOfSentence(grammar, consumed)

\* Without a conflict the parser does not reduce for ever.
ParserGetsOn ==
  reduced = MaxReductions => HasConflict

-----------------------------------------------------------------------------
(* Reference: operators and what they bind.                                *)

IsNode(x) == x.rule # 0
Rule(x)   == grammar.prods[x.rule]
Tree      == Last(symstack)

RECURSIVE Nodes(_)
Nodes(x) ==
  IF IsNode(x) THEN {x} \union UNION {Nodes(x.parts[k]) : k \in DOMAIN x.parts}
  ELSE {}

\* An operator binds its left operand with the precedence of its first
\* token, and its right one with that of its rule.
IsExpression(x) == IsNode(x) /\ Rule(x).name = "expression"
OpensLeft(x)  ==
  IsExpression(x) /\ Len(x.parts) > 1 /\ IsExpression(x.parts[1])
OpensRight(x) ==
  IsExpression(x) /\ Len(x.parts) > 1 /\ IsExpression(Last(x.parts))
LeftBinding(x)  == PrecedenceOf(grammar, Rule(x).prod[2])
RightBinding(x) == Rule(x).prec

RECURSIVE RightEdge(_), LeftEdge(_)
RightEdge(x) ==
  IF OpensRight(x) THEN {x} \union RightEdge(Last(x.parts)) ELSE {}
LeftEdge(x)  ==
  IF OpensLeft(x) THEN {x} \union LeftEdge(x.parts[1]) ELSE {}

TighterOnLeft(m, n) ==
  \/ RightBinding(m).level > LeftBinding(n).level
  \/ /\ RightBinding(m).level = LeftBinding(n).level
     /\ LeftBinding(n).assoc = "left"

TighterOnRight(m, n) ==
  \/ LeftBinding(m).level > RightBinding(n).level
  \/ /\ LeftBinding(m).level = RightBinding(n).level
     /\ RightBinding(n).assoc = "right"

\* Every operand of an expression binds tighter than the operator it belongs
\* to, on whichever side it is open: an expression is read the way its
\* precedence table says.
OperandsBindTighter ==
  verdict = "accepted" =>
    \A n \in Nodes(Tree) :
       /\ OpensLeft(n) =>
            \A m \in RightEdge(n.parts[1]) : TighterOnLeft(m, n)
       /\ OpensRight(n) =>
            \A m \in LeftEdge(Last(n.parts)) : TighterOnRight(m, n)

\* An attribute that is selected by its name alone is read by the rule for
\* names, not as an expression: its column has its name and not a number.
BareNamesAreFields ==
  verdict = "accepted" =>
    \A n \in Nodes(Tree) :
       Rule(n).name = "fieldspec" /\ IsExpression(n.parts[1]) =>
         n.parts[1].parts # <<Leaf("NAME")>>

\* The generator and the parser together read exactly the declared language,
\* with the declared priorities, and report an error at the first token that
\* has no continuation.
ParsesAsDeclared ==
  /\ LookaheadsAreLalr
  /\ VerdictIsRight /\ ShiftedCanBeCompleted /\ ParserGetsOn
  /\ OperandsBindTighter /\ BareNamesAreFields
=============================================================================
