----------------------------- MODULE LalrTables -----------------------------
(***************************************************************************)
(* The tables of the parser generator (core.yacc.yacc: LRItem, digraph,    *)
(* LRGeneratedTable): the LR(0) automaton, the lookaheads after DeRemer    *)
(* and Pennello, and the actions with conflicts resolved by precedence.    *)
(*                                                                         *)
(* An item <<n, d>> is production n with the dot after d symbols.  A state *)
(* is a list of items, in the order the code appends them; the states are  *)
(* numbered from 1, the code's from 0.                                     *)
(***************************************************************************)
EXTENDS Grammars
LOCAL INSTANCE SequencesExt
LOCAL INSTANCE FiniteSetsExt
LOCAL INSTANCE Functions

Prod(g, item)     == g.prods[item[1]].prod
Complete(g, item) == item[2] = Len(Prod(g, item))
NextSymbol(g, item) ==
  IF Complete(g, item) THEN NoSymbol ELSE Prod(g, item)[item[2] + 1]
Advance(item)     == <<item[1], item[2] + 1>>

-----------------------------------------------------------------------------
(* The LR(0) automaton.                                                    *)

RECURSIVE CloseFrom(_, _, _)
\* The list grows while it is walked, each production entering it once.
CloseFrom(g, items, k) ==
  IF k > Len(items) THEN items
  ELSE LET added == SelectSeq(ProductionsOf(g, NextSymbol(g, items[k])),
                              LAMBDA n : ~Contains(items, <<n, 0>>))
       IN  CloseFrom(g, items \o [i \in DOMAIN added |-> <<added[i], 0>>], k + 1)

Lr0Closure(g, items) == CloseFrom(g, items, 1)

Lr0Goto(g, items, x) ==
  LET kernel == SelectSeq(items, LAMBDA item : NextSymbol(g, item) = x)
  IN  Lr0Closure(g, [i \in DOMAIN kernel |-> Advance(kernel[i])])

Once(seq) ==
  FoldLeft(LAMBDA acc, x : IF Contains(acc, x) THEN acc ELSE Append(acc, x),
           <<>>, seq)

SymbolsIn(g, items) ==
  Once(FlattenSeq([i \in DOMAIN items |-> Prod(g, items[i])]))

RECURSIVE ItemsFrom(_, _, _)
ItemsFrom(g, C, i) ==
  IF i > Len(C) THEN C
  ELSE LET xs    == SymbolsIn(g, C[i])
           gotos == [k \in DOMAIN xs |-> Lr0Goto(g, C[i], xs[k])]
           fresh == SelectSeq(gotos, LAMBDA s : s # <<>> /\ ~Contains(C, s))
       IN  ItemsFrom(g, C \o fresh, i + 1)

Lr0Items(g) == ItemsFrom(g, <<Lr0Closure(g, <<<<0, 0>>>>)>>, 1)

\* The number of the state after x, 0 if there is none.
Transitions(g, C) ==
  [i \in DOMAIN C |->
     LET xs == ToSet(SymbolsIn(g, C[i]))
     IN  [x \in xs |-> LET s == Lr0Goto(g, C[i], x)
                       IN  SelectInSeq(C, LAMBDA t : t = s)]]

-----------------------------------------------------------------------------
(* Digraph: F(x) is F'(x) and all F(y) with x R y.  The values are lists   *)
(* that are shared and extended in place: cell[x] is the list of x, and    *)
(* lists holds their contents.                                             *)

MAXINT == 1000000

RECURSIVE PopComponent(_, _)
\* Every element above x on the stack, and x, get the list of x.
PopComponent(s, x) ==
  LET top    == Last(s.stack)
      popped == [s EXCEPT !.N[top] = MAXINT,
                          !.cell[top] = s.cell[x],
                          !.stack = Front(s.stack)]
  IN  IF top = x THEN popped ELSE PopComponent(popped, x)

RECURSIVE Traverse(_, _, _), Visit(_, _, _, _)

\* The related elements of x from the k-th on.
Visit(s, x, R, k) ==
  IF k > Len(R[x]) THEN s
  ELSE LET y == R[x][k]
           t == IF s.N[y] = 0 THEN Traverse(s, y, R) ELSE s
           u == [t EXCEPT !.N[x] = Min({@, t.N[y]}),
                          !.lists[t.cell[x]] = @ \union t.lists[t.cell[y]]]
       IN  Visit(u, x, R, k + 1)

Traverse(s, x, R) ==
  LET d == Len(s.stack) + 1
      t == Visit([s EXCEPT !.stack = Append(@, x), !.N[x] = d], x, R, 1)
  IN  IF t.N[x] = d THEN PopComponent(t, x) ELSE t

\* X is a list, R gives the list of the related elements, cell the list
\* that FP returns.
Digraph(X, R, cell, lists) ==
  FoldLeft(LAMBDA s, x : IF s.N[x] = 0 THEN Traverse(s, x, R) ELSE s,
           [N |-> [x \in ToSet(X) |-> 0], stack |-> <<>>,
            cell |-> cell, lists |-> lists], X)

-----------------------------------------------------------------------------
(* Lookaheads.                                                             *)

\* <<i, A>> where state i has an item with the dot before nonterminal A.
NonterminalTransitions(g, C) ==
  LET of(i) == SelectSeq([k \in DOMAIN C[i] |-> <<i, NextSymbol(g, C[i][k])>>],
                         LAMBDA t : t[2] \in Nonterminals(g))
  IN  Once(FlattenSeq([i \in DOMAIN C |-> of(i)]))

DrRelation(g, C, to, t) ==
  ({NextSymbol(g, item) : item \in ToSet(C[to[t[1]][t[2]]])} \cap g.terminals)
  \union (IF t = <<1, g.start>> THEN {End} ELSE {})

ReadsRelation(g, C, to, nullable, t) ==
  LET j     == to[t[1]][t[2]]
      items == SelectSeq(C[j], LAMBDA item : NextSymbol(g, item) \in nullable)
  IN  [k \in DOMAIN items |-> <<j, NextSymbol(g, items[k])>>]

\* The state after the next symbols of production n from position d to k.
RECURSIVE StateAfter(_, _, _, _, _, _)
StateAfter(g, to, i, n, d, k) ==
  IF d >= k THEN i
  ELSE StateAfter(g, to, to[i][g.prods[n].prod[d + 1]], n, d + 1, k)

MutantIncludesOf(g, C, to, nullable, t) ==
  LET of(item) ==
        LET n    == item[1]
            prod == g.prods[n].prod
            ks   == SelectSeq([k \in DOMAIN prod |-> k],
                      LAMBDA k : k = Len(prod) /\ prod[k] \in Nonterminals(g))
        IN  [m \in DOMAIN ks |-> <<StateAfter(g, to, t[1], n, item[2], ks[m] - 1),
                                   prod[ks[m]]>>]
      items == SelectSeq(C[t[1]], LAMBDA item : g.prods[item[1]].name = t[2]
                                                /\ item[2] = 0)
  IN  FlattenSeq([k \in DOMAIN items |-> of(items[k])])

\* The transitions that include t = <<i, A>>: each of them is the last
\* before symbols that may be empty in a production of A.  Items of A whose
\* dot is not at the start are followed from state i too.
IncludesOf(g, C, to, nullable, t) ==
  LET of(item) ==
        LET n    == item[1]
            prod == g.prods[n].prod
            ks   == SelectSeq([k \in DOMAIN prod |-> k],
                      LAMBDA k : /\ k > item[2]
                                 /\ prod[k] \in Nonterminals(g)
                                 /\ \A l \in k + 1..Len(prod) :
                                       prod[l] \in nullable)
        IN  [m \in DOMAIN ks |-> <<StateAfter(g, to, t[1], n, item[2], ks[m] - 1),
                                   prod[ks[m]]>>]
      items == SelectSeq(C[t[1]], LAMBDA item : g.prods[item[1]].name = t[2])
  IN  FlattenSeq([k \in DOMAIN items |-> of(items[k])])

\* <<state, production>> where a production of A that starts in i ends.
LookbackOf(g, C, to, t) ==
  {<<StateAfter(g, to, t[1], item[1], 0, Len(Prod(g, item))), item[1]>> :
     item \in {item \in ToSet(C[t[1]]) :
                 item[2] = 0 /\ g.prods[item[1]].name = t[2]}}

\* The first pass collects what is read after a transition, the second what
\* follows it.
ReadSets(g, C, to, nullable, trans) ==
  Digraph(trans,
          [t \in ToSet(trans) |-> ReadsRelation(g, C, to, nullable, t)],
          [t \in ToSet(trans) |-> t],
          [t \in ToSet(trans) |-> DrRelation(g, C, to, t)])

FollowSets(trans, incl, read) ==
  Digraph(trans,
          [t \in ToSet(trans) |-> SelectSeq(trans, LAMBDA u : Contains(incl[u], t))],
          read.cell, read.lists)

AddLookaheads(lookback, follow) ==
  [p \in UNION Range(lookback) |->
     UNION {follow.lists[follow.cell[t]] :
              t \in {t \in DOMAIN lookback : p \in lookback[t]}}]

\* The lookaheads of <<state, production>>.
LookaheadsOf(g, C, to, nullable, trans) ==
  AddLookaheads([t \in ToSet(trans) |-> LookbackOf(g, C, to, t)],
    FollowSets(trans, [u \in ToSet(trans) |-> IncludesOf(g, C, to, nullable, u)],
               ReadSets(g, C, to, nullable, trans)))

LalrLookaheads(g, C, to) ==
  LookaheadsOf(g, C, to, Nullable(g), NonterminalTransitions(g, C))

SlrLookaheads(g, C, follow) ==
  [p \in (DOMAIN C) \X (DOMAIN g.prods \ {0}) |-> follow[g.prods[p[2]].name]]

-----------------------------------------------------------------------------
(* The actions of a state, item by item.  An action is [do, to], with the  *)
(* production of the item it comes from; "none" (None, for a token that    *)
(* may not associate) counts as no action for the items that follow.       *)

Shift(j, n)  == [do |-> "shift", to |-> j, item |-> n]
Reduce(n)    == [do |-> "reduce", to |-> n, item |-> n]
Accept       == [do |-> "accept", to |-> 0, item |-> 0]
NoAction(n)  == [do |-> "none", to |-> 0, item |-> n]

Present(st, a) == a \in DOMAIN st.action /\ st.action[a].do # "none"

Set(st, a, act) == [st EXCEPT !.action = (a :> act) @@ @]
Report(st, a, kind) == [st EXCEPT !.conflicts = @ \union {<<a, kind>>}]

\* A reduction of n on a after a shift: the precedence of the production
\* the shift comes from against that of the token.
ReduceAfterShift(g, st, a, n) ==
  LET shift == g.prods[st.action[a].item].prec
      token == PrecedenceOf(g, a)
      reduced == Set(st, a, Reduce(n))
  IN  IF \/ shift.level < token.level
         \/ shift.level = token.level /\ token.assoc = "left"
      THEN IF shift.level = 0 /\ token.level = 0
           THEN Report(reduced, a, "reduce") ELSE reduced
      ELSE IF shift.level = token.level /\ token.assoc = "nonassoc"
      THEN Set(st, a, NoAction(st.action[a].item))
      ELSE IF token.level = 0 THEN Report(st, a, "shift") ELSE st

MutantReduceAfterReduce(g, st, a, n) ==
  LET old == st.action[a].to
  IN  Report(IF g.prods[old].line < g.prods[n].line
             THEN Set(st, a, Reduce(n)) ELSE st, a, "reduce/reduce")

\* The rule that comes first in the file is kept.
ReduceAfterReduce(g, st, a, n) ==
  LET old == st.action[a].to
  IN  Report(IF g.prods[old].line > g.prods[n].line
             THEN Set(st, a, Reduce(n)) ELSE st, a, "reduce/reduce")

AddReduce(g, st, a, n) ==
  IF ~Present(st, a) THEN Set(st, a, Reduce(n))
  ELSE CASE st.action[a].do = "shift"  -> ReduceAfterShift(g, st, a, n)
         [] st.action[a].do = "reduce" -> ReduceAfterReduce(g, st, a, n)
         [] OTHER -> [st EXCEPT !.unknown = TRUE]    \* LALRError

MutantShiftAfterReduce(g, st, a, j, n) ==
  LET rule  == g.prods[st.action[a].item].prec
      token == PrecedenceOf(g, a)
  IN  IF token.level >= rule.level THEN Set(st, a, Shift(j, n)) ELSE st

ShiftAfterReduce(g, st, a, j, n) ==
  LET rule    == g.prods[st.action[a].item].prec
      token   == PrecedenceOf(g, a)
      shifted == Set(st, a, Shift(j, n))
  IN  IF \/ token.level > rule.level
         \/ token.level = rule.level /\ rule.assoc = "right"
      THEN IF rule.level = 0 THEN Report(shifted, a, "shift") ELSE shifted
      ELSE IF token.level = rule.level /\ rule.assoc = "nonassoc"
      THEN Set(st, a, NoAction(st.action[a].item))
      ELSE IF token.level = 0 /\ rule.level = 0
           THEN Report(st, a, "reduce") ELSE st

AddShift(g, st, a, j, n) ==
  IF ~Present(st, a) THEN Set(st, a, Shift(j, n))
  ELSE IF st.action[a].do = "reduce" THEN ShiftAfterReduce(g, st, a, j, n)
  ELSE st

AddItem(g, to, laheads, i, st, item) ==
  LET a == NextSymbol(g, item)
  IN  IF Complete(g, item)
      THEN IF item[1] = 0 THEN Set(st, End, Accept)
           ELSE FoldLeft(LAMBDA s, b : AddReduce(g, s, b, item[1]), st,
                         SetToSeq(laheads[<<i, item[1]>>]))
      ELSE IF a \in g.terminals THEN AddShift(g, st, a, to[i][a], item[1])
      ELSE st

StateActions(g, C, to, laheads, i) ==
  FoldLeft(LAMBDA st, item : AddItem(g, to, laheads, i, st, item),
           [action |-> <<>>, conflicts |-> {}, unknown |-> FALSE], C[i])

TableOf(C, to, laheads, rows) ==
  [items |-> C, goto |-> to, laheads |-> laheads,
   action |-> [i \in DOMAIN C |-> rows[i].action],
   conflicts |-> [i \in DOMAIN C |-> rows[i].conflicts],
   unknown |-> \E i \in DOMAIN C : rows[i].unknown]

WithActions(g, C, to, laheads) ==
  TableOf(C, to, laheads, [i \in DOMAIN C |-> StateActions(g, C, to, laheads, i)])

WithLookaheads(g, method, C, to) ==
  WithActions(g, C, to, IF method = "LALR" THEN LalrLookaheads(g, C, to)
                        ELSE SlrLookaheads(g, C, Follow(g)))

WithTransitions(g, method, C) == WithLookaheads(g, method, C, Transitions(g, C))

\* method is "LALR" or "SLR": the lookaheads of a reduction are then all
\* that may follow its nonterminal.
LrParseTable(g, method) == WithTransitions(g, method, Lr0Items(g))
=============================================================================
