------------------------------ MODULE Queries -------------------------------
(***************************************************************************)
(* OQL queries: the stack that the parser builds for a condition           *)
(* (core.oql.parser), its evaluation (core.oql.core, evaluate_stack), the  *)
(* choice of cursors (core.oql.optimizer) and select (core.oql.core).      *)
(*                                                                         *)
(* A condition is a tree in the input and a stack in the code: the last    *)
(* token of the stack is the operator, its first operand lies below it,    *)
(* and the second operand below the first.  The query selects the ids of   *)
(* the items, so that a row of the result is an id and the value that the  *)
(* rows are sorted by.                                                     *)
(***************************************************************************)
EXTENDS Cursors
LOCAL INSTANCE SequencesExt
LOCAL INSTANCE FiniteSetsExt

CONSTANTS
  QueryInputs,   \* the queries: [store, scopes, where, order, ascending, range]
  Indexed,       \* the attributes that have an index
  Parameter      \* the value of the parameter $p

VARIABLES
  query,       \* the query that is executed
  prepared,    \* what prepare made of it
  answer       \* the rows of its result

queryVars == <<query, prepared, answer>>

Raised  == 1001    \* a value that is not there: Python has raised an exception
NoTop   == 1000    \* no limit on the number of rows
Pending == <<>>    \* the query is not yet prepared
NoOrder == "none"

\* Conditions, as they are written.
Compare(attr, op, value) ==
  [kind |-> "compare", attr |-> attr, op |-> op, value |-> value, with |-> "constant"]
CompareWith(attr, op, what) ==
  [kind |-> "compare", attr |-> attr, op |-> op, value |-> 0, with |-> what]
Flipped(value, attr) ==
  [kind |-> "compare", attr |-> attr, op |-> "=", value |-> value, with |-> "flipped"]
Between(attr, low, high) ==
  [kind |-> "between", attr |-> attr, low |-> low, high |-> high]
Not(of) == [kind |-> "not", of |-> of]
Both(left, right) == [kind |-> "and", left |-> left, right |-> right]
Either(left, right) == [kind |-> "or", left |-> left, right |-> right]
Anything == [kind |-> "anything"]

-----------------------------------------------------------------------------
(* The parser.                                                             *)

Token(kind, name, num) == [kind |-> kind, name |-> name, num |-> num, args |-> <<>>]
Op(name) == Token("op", name, 0)
Attr(name) == Token("attr", name, 0)
Const(num) == Token("const", "", num)
Param == Token("param", "p", 0)

Binary == {"and", "or", "=", "<>", "<", "<=", ">", ">="}

RECURSIVE Parse(_)
Parse(tree) ==
  CASE tree.kind = "anything" -> <<>>
    [] tree.kind = "compare" ->
         (CASE tree.with = "constant"  -> <<Const(tree.value), Attr(tree.attr)>>
            [] tree.with = "parameter" -> <<Param, Attr(tree.attr)>>
            [] tree.with = "flipped"   -> <<Attr(tree.attr), Const(tree.value)>>
            [] OTHER                   -> <<Attr(tree.with), Attr(tree.attr)>>)
         \o <<Op(tree.op)>>
    [] tree.kind = "between" ->
         << [Token("between", tree.attr, 0) EXCEPT !.args = <<tree.low, tree.high>>] >>
    [] tree.kind = "not" -> Parse(tree.of) \o <<Op("not")>>
    [] OTHER -> Parse(tree.right) \o Parse(tree.left) \o <<Op(tree.kind)>>

-----------------------------------------------------------------------------
(* evaluate_stack: the value of the operand on top and the rest of the     *)
(* stack.  True is 1 and False is 0, None is Absent.                       *)

Truth(condition) == IF condition THEN 1 ELSE 0
True(value) == value # 0 /\ value # Absent

\* opn2 on two values; an order with None raises.
Apply(op, a, b) ==
  IF a = Raised \/ b = Raised THEN Raised
  ELSE CASE op = "="  -> Truth(a = b)
         [] op = "<>" -> Truth(a # b)
         [] op \in {"and", "or"} -> b
         [] OTHER -> IF a = Absent \/ b = Absent THEN Raised
                     ELSE CASE op = "<"  -> Truth(a < b)
                            [] op = "<=" -> Truth(a <= b)
                            [] op = ">"  -> Truth(a > b)
                            [] op = ">=" -> Truth(a >= b)

\* h_61: BETWEEN.
IsBetween(value, low, high) ==
  IF value = Absent THEN Raised ELSE Truth(low <= value /\ value < high)

\* The attributes of no item are None: the optimizer evaluates without one.
NoAttributes == [name \in {"i", "j", "a"} |-> Absent]

MutantDecides(op, value) == op = "or" /\ ~True(value)

\* The first operand alone decides.  Its stack is left with the second.
Decides(op, value) ==
  \/ op = "and" /\ ~True(value)
  \/ op = "or" /\ True(value)

RECURSIVE Evaluate(_, _)
Evaluate(stack, attr) ==
  LET op == Last(stack)
      first  == Evaluate(Front(stack), attr)
      second == Evaluate(first.rest, attr)
      Result(value, rest) == [value |-> value, rest |-> rest]
  IN  IF stack = <<>> THEN Result(Raised, <<>>)
      ELSE CASE op.kind = "const" -> Result(op.num, Front(stack))
             [] op.kind = "param" -> Result(Parameter, Front(stack))
             [] op.kind = "attr"  -> Result(attr[op.name], Front(stack))
             [] op.kind = "between" ->
                  Result(IsBetween(attr[op.name], op.args[1], op.args[2]), Front(stack))
             [] op.kind = "op" /\ first.value = Raised -> Result(Raised, <<>>)
             [] op.name = "not" /\ first.value # Raised ->
                  Result(1 - Truth(True(first.value)), first.rest)
             [] op.name \in Binary /\ first.value # Raised ->
                  IF Decides(op.name, first.value)
                  THEN Result(Truth(op.name = "or"), first.rest)
                  ELSE Result(Apply(op.name, first.value, second.value), second.rest)

-----------------------------------------------------------------------------
(* The optimizer.  A condition becomes alternatives (ORs); each has        *)
(* lookups in indexes and a condition that is evaluated on what they find. *)

NoLimit == [key |-> Absent, inclusive |-> FALSE, param |-> FALSE]
Limit(value, inclusive) ==
  [key |-> value.num, inclusive |-> inclusive, param |-> value.param]

Lookup(index, exact, value, low, high) ==
  [index |-> index, exact |-> exact, value |-> value, low |-> low, high |-> high,
   reversed |-> FALSE]

IsBinary(token) == token.kind = "op" /\ token.name \in Binary
IsNot(token) == token.kind = "op" /\ token.name = "not"

\* _pop_stack
RECURSIVE PopStack(_)
PopStack(stack) ==
  LET rest == Front(stack)
  IN  CASE IsBinary(Last(stack)) -> PopStack(PopStack(rest))
        [] IsNot(Last(stack))    -> PopStack(rest)
        [] OTHER                 -> rest

\* What was popped from a stack of which rest is left.
Popped(stack, rest) == SubSeq(stack, Len(rest) + 1, Len(stack))

\* The lookups and the conditions of one alternative, and the stack left.
One(lookups, rte, rest) == [alts |-> <<[lookups |-> lookups, rte |-> rte]>>, rest |-> rest]

Open(limit) == limit = NoLimit

\* The first lookup of the first operand is merged into one of the second
\* that is a range on the same index and open on that side.
Merge(found, new) ==
  LET first == new[1]
      Fills(l) == /\ l.index = first.index /\ ~l.exact /\ ~first.exact
                  /\ \/ Open(l.low) /\ ~Open(first.low)
                     \/ Open(l.high) /\ ~Open(first.high)
      at == {n \in DOMAIN found : Fills(found[n])}
  IN  IF new = <<>> THEN found
      ELSE IF at = {} THEN found \o new
      ELSE [found EXCEPT ![Min(at)] =
              IF Open(@.low) /\ ~Open(first.low) THEN [@ EXCEPT !.low = first.low]
              ELSE [@ EXCEPT !.high = first.high]]

\* A comparison.  If its first operand is a name without an index, the
\* operands stay on the stack and only the operator is taken.
OptimizeComparison(stack) ==
  LET op == Last(stack).name
      name == Last(Front(stack))
      below == Front(Front(stack))
      isParam == Last(below).kind = "param"
      evaluated == Evaluate(below, NoAttributes)
      rest == IF isParam THEN Front(below) ELSE evaluated.rest
      value == [num |-> IF isParam THEN 0 ELSE evaluated.value, param |-> isParam]
      bound == Limit(value, op \in {"<=", ">="})
      whole == PopStack(stack)
  IN  CASE name.kind \in {"const", "between"} ->
             One(<<>>, Popped(stack, whole), whole)
        [] name.kind = "param" -> One(<<>>, <<Last(stack)>>, Front(stack))
        [] name.kind \in {"attr", "op"} /\ name.name \notin Indexed ->
             One(<<>>, <<Last(stack)>>, Front(stack))
        [] name.kind = "attr" /\ name.name \in Indexed /\ ~isParam
           /\ evaluated.value = Absent ->
             One(<<>>, Popped(stack, rest), rest)
        [] OTHER ->
             One(<<CASE op = "=" -> Lookup(name.name, TRUE, value, NoLimit, NoLimit)
                     [] op \in {"<", "<="} -> Lookup(name.name, FALSE, value, NoLimit, bound)
                     [] OTHER -> Lookup(name.name, FALSE, value, bound, NoLimit)>>,
                 <<>>, rest)

\* h_61_opt: a bound of zero is taken for none.
OptimizeBetween(token) ==
  LET low == [num |-> token.args[1], param |-> FALSE]
      high == [num |-> token.args[2], param |-> FALSE]
  IN  IF token.name \in Indexed /\ low.num # 0 /\ high.num # 0
      THEN <<Lookup(token.name, FALSE, low, Limit(low, TRUE), Limit(high, FALSE))>>
      ELSE <<>>

\* _optimize_conditions
RECURSIVE OptimizeConditions(_, _)
OptimizeConditions(stack, parent) ==
  LET op == Last(stack)
      left  == OptimizeConditions(Front(stack), op.name)
      right == OptimizeConditions(left.rest, op.name)
      l == left.alts[1]
      r == right.alts[1]
      operands == PopStack(PopStack(Front(stack)))
      whole == PopStack(stack)
      between == OptimizeBetween(op)
  IN  CASE IsBinary(op) /\ op.name = "and" ->
             One(Merge(r.lookups, l.lookups),
                 r.rte \o l.rte \o (IF r.rte # <<>> /\ l.rte # <<>> THEN <<op>> ELSE <<>>),
                 right.rest)
        [] IsBinary(op) /\ op.name = "or" /\ parent = "and" ->
             One(<<>>, Popped(stack, operands), operands)
        [] IsBinary(op) /\ op.name = "or" /\ parent # "and" ->
             [alts |-> left.alts \o right.alts, rest |-> right.rest]
        [] IsBinary(op) /\ op.name = "<>" -> One(<<>>, <<>>, Front(stack))
        [] IsBinary(op) /\ op.name \in {"=", "<", ">", "<=", ">="} ->
             OptimizeComparison(stack)
        [] op.kind = "between" ->
             One(between, IF between = <<>> THEN <<op>> ELSE <<>>, stack)
        [] OTHER -> One(<<>>, Popped(stack, whole), whole)

FullScan(where) == [scan |-> TRUE, lookups |-> <<>>, rte |-> where]
ByIndex(lookups, rte) == [scan |-> FALSE, lookups |-> lookups, rte |-> rte]

UsesIndexes(alts) == \A n \in DOMAIN alts : alts[n].lookups # <<>>

Alternatives(where, found) ==
  IF where # <<>> /\ UsesIndexes(found)
  THEN [n \in DOMAIN found |-> ByIndex(found[n].lookups, found[n].rte)]
  ELSE <<FullScan(where)>>

Shallow(q) == Len(q.scopes) = 1 /\ ~q.scopes[1].deep

\* The only lookup is one in the index to order by.
OnOrder(alts, order) ==
  Len(alts) = 1 /\ Len(alts[1].lookups) = 1 /\ alts[1].lookups[1].index = order

\* The whole index to order by.
Ordering(q) ==
  [Lookup(q.order, FALSE, [num |-> 0, param |-> FALSE], NoLimit, NoLimit)
     EXCEPT !.reversed = ~q.ascending]

PlanFor(q, where, alts, top) ==
  LET Plan(a, t, acc, order) == [alts |-> a, top |-> t, acc |-> acc, order |-> order]
      scans == alts[1].scan
      onOrder == OnOrder(alts, q.order)
      toSort == IF Shallow(q) THEN NoOrder ELSE q.order
  IN  CASE q.order = NoOrder -> Plan(alts, top, top # NoTop, NoOrder)
        [] q.order # NoOrder /\ q.order \notin Indexed ->
             Plan(alts, NoTop, FALSE, q.order)
        [] q.order \in Indexed /\ ~scans /\ ~onOrder -> Plan(alts, NoTop, FALSE, q.order)
        [] q.order \in Indexed /\ ~scans /\ onOrder /\ alts[1].lookups[1].exact ->
             Plan(alts, top, top # NoTop, NoOrder)
        [] q.order \in Indexed /\ ~scans /\ onOrder /\ ~alts[1].lookups[1].exact ->
             Plan([alts EXCEPT ![1].lookups[1].reversed = ~q.ascending], top, FALSE,
                  toSort)
        [] OTHER -> Plan(<<ByIndex(<<Ordering(q)>>, where)>>, top, Shallow(q), toSort)

Top(q) == IF q.range = <<>> THEN NoTop ELSE q.range[2]

\* optimize: the alternatives, the number of rows that are needed, whether
\* it is that of all containers together, and the ordering still to be done.
OptimizeWhere(q, where) ==
  PlanFor(q, where, Alternatives(where, OptimizeConditions(where, "none").alts), Top(q))

OptimizeQuery(q) == OptimizeWhere(q, Parse(q.where))

-----------------------------------------------------------------------------
(* Execution.                                                              *)

ItemIn(store, id) == CHOOSE item \in ToSet(store) : item.id = id

\* The bound of a cursor; a parameter gets its value.
Bound(limit) ==
  [key |-> IF limit.param THEN Parameter ELSE limit.key, inclusive |-> limit.inclusive]

CursorOf(lookup) ==
  IF lookup.exact
  THEN ValueCursor(IF lookup.value.param THEN Parameter ELSE lookup.value.num)
  ELSE RangeCursor(Bound(lookup.low), Bound(lookup.high), lookup.reversed)

\* query(): one cursor, or a join in which any cursor may lead.
ItemsOf(store, alt, container, lead) ==
  LET curs == [n \in DOMAIN alt.lookups |-> CursorOf(alt.lookups[n])]
      names == [n \in DOMAIN alt.lookups |-> alt.lookups[n].index]
  IN  CASE alt.scan ->
             Walk(RangeCursor(NoBound, NoBound, FALSE), ChildrenIndex(store), container)
        [] ~alt.scan /\ Len(curs) = 1 ->
             Walk(curs[1], IndexOf(store, names[1]), container)
        [] OTHER -> JoinWalk(curs, names, store, container, Min({lead, Len(curs)}))

\* A row that stands for an exception.
RaisedRow == [id |-> 0, by |-> Raised]

\* The items that meet the condition, as rows.
Rows(items, rte, order) ==
  LET Value(item) == IF rte = <<>> THEN 1 ELSE Evaluate(rte, item.attr).value
      met == SelectSeq(items, LAMBDA item : Value(item) = Raised \/ True(Value(item)))
  IN  [n \in DOMAIN met |->
         IF Value(met[n]) = Raised THEN RaisedRow
         ELSE [id |-> met[n].id, by |-> IF order = NoOrder THEN 0 ELSE met[n].attr[order]]]

\* ObjectSet.__or__
Union(rows, more) == rows \o SelectSeq(more, LAMBDA row : row \notin ToSet(rows))

Limited(rows, top) == IF top > 0 /\ top < Len(rows) THEN SubSeq(rows, 1, top) ELSE rows

Folders(store, container) ==
  SelectSeq(store, LAMBDA item : item.folder /\ item.pid = container /\ GetItem(item))

\* The rows of one container.  A limit applies to a single alternative.
Here(store, container, p, order, lead, top) ==
  LET limit == IF Len(p.alts) = 1 THEN top ELSE NoTop
      Of(alt) == Limited(Rows(ItemsOf(store, alt, container, lead), alt.rte, order),
                         limit)
  IN  FoldLeft(LAMBDA rows, alt : Union(rows, Of(alt)), <<>>, p.alts)

MutantEnough(p, top, rows) == top # NoTop /\ rows >= top

\* The rows that were found are enough.
Enough(p, top, rows) == top # NoTop /\ p.acc /\ rows >= top

\* What is left to find, which may be negative.
Less(p, top, rows) == IF top # NoTop /\ p.acc THEN top - rows ELSE top

\* select.  With the folders the limit is lowered by the number of rows
\* before each folder, not by those that it added.
RECURSIVE Select(_, _, _, _, _, _, _)
RECURSIVE SelectFolders(_, _, _, _, _, _, _)
RECURSIVE GoOnAfterFolder(_, _, _, _, _, _, _, _)
SelectBelow(store, container, deep, p, order, lead, top, rows) ==
  IF ~deep \/ Enough(p, top, Len(rows)) THEN rows
  ELSE SelectFolders(store, Folders(store, container), p, order, lead,
                     Less(p, top, Len(rows)), rows)

Select(store, container, deep, p, order, lead, top) ==
  SelectBelow(store, container, deep, p, order, lead, top,
              Here(store, container, p, order, lead, top))

GoOnAfterFolder(store, folders, p, order, lead, top, rows, all) ==
  IF Enough(p, top, Len(all) - Len(rows)) THEN all
  ELSE SelectFolders(store, folders, p, order, lead, Less(p, top, Len(rows)), all)

SelectFolders(store, folders, p, order, lead, top, rows) ==
  IF folders = <<>> THEN rows
  ELSE GoOnAfterFolder(store, Tail(folders), p, order, lead, top, rows,
         Union(rows, Select(store, folders[1].id, TRUE, p, order, lead, top)))

\* The container is the root, or a folder that the user can read.
IsThere(store, container) ==
  \/ container = 1
  \/ \E item \in ToSet(store) : item.id = container /\ item.folder /\ GetItem(item)

\* The scopes one after the other; a container that is not there is skipped.
RECURSIVE SelectScopes(_, _, _, _, _)
GoOnAfterScope(q, scopes, p, lead, all) ==
  IF Enough(p, p.top, Len(all)) THEN all ELSE SelectScopes(q, scopes, p, lead, all)

SelectScopes(q, scopes, p, lead, rows) ==
  CASE scopes = <<>> -> rows
    [] scopes # <<>> /\ ~IsThere(q.store, scopes[1].container) ->
         SelectScopes(q, Tail(scopes), p, lead, rows)
    [] OTHER ->
         GoOnAfterScope(q, Tail(scopes), p, lead,
           Union(rows, Select(q.store, scopes[1].container, scopes[1].deep, p, q.order,
                              lead, p.top)))

Sorts(row, other) == row.by < other.by \/ (row.by = other.by /\ row.id < other.id)

\* Python cannot compare None with a number.
Unsortable(rows) == \E m, n \in DOMAIN rows : rows[m].by = Absent /\ rows[n].by # Absent

Slice(rows, range) == SubSeq(rows, range[1], Min({range[2], Len(rows)}))

Sorted(rows, p, ascending) ==
  CASE p.order = NoOrder -> rows
    [] p.order # NoOrder /\ ascending -> SortSeq(rows, Sorts)
    [] OTHER -> Reverse(SortSeq(rows, Sorts))

Ranged(rows, range) == IF range = <<>> THEN rows ELSE Slice(rows, range)

Finish(q, p, found) ==
  IF RaisedRow \in ToSet(found) \/ (p.order # NoOrder /\ Unsortable(found))
  THEN <<RaisedRow>>
  ELSE Ranged(Sorted(found, p, q.ascending), q.range)

\* h_200
Execute(q, p, lead) == Finish(q, p, SelectScopes(q, q.scopes, p, lead, <<>>))

-----------------------------------------------------------------------------
QueryInit ==
  /\ query \in QueryInputs
  /\ prepared = Pending
  /\ answer = Pending

Prepare ==
  /\ prepared = Pending
  /\ prepared' = <<OptimizeQuery(query)>>
  /\ UNCHANGED <<query, answer>>

Run(lead) ==
  /\ prepared # Pending /\ answer = Pending
  /\ answer' = <<Execute(query, prepared[1], lead)>>
  /\ UNCHANGED <<query, prepared>>

QueryNext == Prepare \/ \E lead \in 1 .. 2 : Run(lead)

QuerySpec == QueryInit /\ [][QueryNext]_queryVars
-----------------------------------------------------------------------------
(* What a query means, and where the code agrees.                          *)

RECURSIVE Meaning(_, _)
Meaning(tree, attr) ==
  LET l == Meaning(tree.left, attr)
      second == CASE tree.with = "constant"  -> tree.value
                  [] tree.with = "parameter" -> Parameter
                  [] tree.with = "flipped"   -> tree.value
                  [] OTHER                   -> attr[tree.with]
  IN  CASE tree.kind = "anything" -> 1
        [] tree.kind = "compare"  -> Apply(tree.op, attr[tree.attr], second)
        [] tree.kind = "between"  -> IsBetween(attr[tree.attr], tree.low, tree.high)
        [] tree.kind = "not" -> LET v == Meaning(tree.of, attr)
                                IN  IF v = Raised THEN Raised ELSE 1 - v
        [] tree.kind = "and" -> IF l = 1 THEN Meaning(tree.right, attr) ELSE l
        [] tree.kind = "or"  -> IF l = 0 THEN Meaning(tree.right, attr) ELSE l

\* The first operand may be decided early, and leave tokens on the stack
\* that the operator then takes for its second operand.
RECURSIVE MayDecide(_)
MayDecide(tree) == \/ tree.kind \in {"and", "or"}
                   \/ tree.kind = "not" /\ MayDecide(tree.of)

RECURSIVE OnlyChains(_, _)
OnlyChains(kind, tree) ==
  IF tree.kind = kind THEN OnlyChains(kind, tree.left) ELSE ~MayDecide(tree)

RECURSIVE Unmixed(_)
Unmixed(tree) ==
  CASE tree.kind \in {"and", "or"} ->
         OnlyChains(tree.kind, tree.left) /\ Unmixed(tree.left) /\ Unmixed(tree.right)
    [] tree.kind = "not" -> Unmixed(tree.of)
    [] OTHER -> TRUE

\* The condition of the query on an item means what is written, when no AND
\* is the first operand of an OR, nor the other way round (evaluate_stack).
EvaluatesAsWritten ==
  Unmixed(query.where) /\ query.where.kind # "anything" =>
    \A n \in DOMAIN query.store :
      Evaluate(Parse(query.where), query.store[n].attr).value
        = Meaning(query.where, query.store[n].attr)

\* The optimizer takes all tokens of these conditions off the stack.
RECURSIVE TakenWhole(_)
TakenWhole(tree) ==
  CASE tree.kind = "compare" ->
         tree.with = "flipped" \/ (tree.attr \in Indexed /\ tree.op # "<>")
    [] tree.kind = "between" -> FALSE
    [] tree.kind = "not" -> TRUE
    [] OTHER -> TakenWhole(tree.left) /\ TakenWhole(tree.right)

RECURSIVE Conjuncts(_)
Conjuncts(tree) ==
  IF tree.kind = "and" THEN Conjuncts(tree.left) \o Conjuncts(tree.right) ELSE <<tree>>

\* Two ranges of one index are merged, and other conditions may be lost.
MergesRanges(tree) ==
  LET c == Conjuncts(tree)
      Ranges(t) == t.kind = "between" \/ (t.kind = "compare" /\ t.op # "=")
  IN  Len(c) > 2 /\ \E m, n \in DOMAIN c :
                     m # n /\ Ranges(c[m]) /\ Ranges(c[n]) /\ c[m].attr = c[n].attr

\* The conditions that the optimizer keeps.
RECURSIVE Kept(_)
Kept(tree) ==
  CASE tree.kind = "and" ->
         /\ TakenWhole(tree.left)
         /\ TakenWhole(tree.right) \/ tree.right.kind = "between"
         /\ Kept(tree.left) /\ Kept(tree.right)
         /\ ~MergesRanges(tree)
    [] tree.kind = "or" ->
         /\ tree.left.kind # "between"
         /\ Kept(tree.left) /\ Kept(tree.right)
    [] OTHER -> TRUE

RECURSIVE Below(_, _)
Below(store, container) ==
  {container} \cup UNION {Below(store, f.id) : f \in ToSet(Folders(store, container))}

\* The containers that a query looks at.
Containers(q) ==
  UNION {IF s.deep THEN Below(q.store, s.container) ELSE {s.container} : s \in ToSet(q.scopes)}

Selected(q) ==
  {n \in DOMAIN q.store : /\ q.store[n].pid \in Containers(q) /\ GetItem(q.store[n])
                          /\ Meaning(q.where, q.store[n].attr) = 1}

Value(q, n) == IF q.order = NoOrder THEN 0 ELSE q.store[n].attr[q.order]

\* The values that the selected items are ordered by, in the order and the
\* range that are asked for.
Expected(q) ==
  LET values == SortSeq(SetToSeq({<<Value(q, n), n>> : n \in Selected(q)}),
                        LAMBDA v, w : v[1] < w[1])
      ordered == IF q.ascending THEN values ELSE Reverse(values)
      part == IF q.range = <<>> THEN ordered ELSE Slice(ordered, q.range)
  IN  [k \in DOMAIN part |-> part[k][1]]

AnswerIds == {answer[1][n].id : n \in DOMAIN answer[1]}
SelectedIds(q) == {q.store[n].id : n \in Selected(q)}

\* No value is negative: packed, these are greater than the others.  Every
\* item has the attributes that are compared, or that the rows are ordered
\* by: an index does not know the others.
Plain(q) ==
  \A n \in DOMAIN q.store :
    /\ \A name \in DOMAIN q.store[n].attr : q.store[n].attr[name] >= 0
    /\ Meaning(q.where, q.store[n].attr) # Raised
    /\ q.order # NoOrder => q.store[n].attr[q.order] # Absent

\* A cursor that goes back from an inclusive bound starts at the first of
\* the entries with this value and misses the others.
BackFromDuplicates(q) ==
  /\ q.order # NoOrder /\ ~q.ascending
  /\ \E c \in ToSet(Conjuncts(q.where)) : c.kind = "compare" /\ c.op = "<="

Answered == answer # Pending /\ Plain(query) /\ Unmixed(query.where) /\ Kept(query.where)

\* With whatever cursors, a query without RANGE finds exactly the items that
\* meet its condition, each once (optimize, h_200, select).
FindsWhatIsAsked ==
  Answered /\ query.range = <<>> /\ ~BackFromDuplicates(query) =>
    /\ AnswerIds = SelectedIds(query)
    /\ Len(answer[1]) = Cardinality(Selected(query))

\* ORDER BY and RANGE give the part of the ordered items that is asked for,
\* although the containers stop when they have enough (select).  Without
\* ORDER BY this holds in one container.
GivesTheRange ==
  Answered /\ ~BackFromDuplicates(query)
  /\ (query.order = NoOrder => \A n \in DOMAIN query.scopes : ~query.scopes[n].deep) =>
    /\ AnswerIds \subseteq SelectedIds(query)
    /\ Cardinality(AnswerIds) = Len(answer[1])
    /\ [n \in DOMAIN answer[1] |-> answer[1][n].by] = Expected(query)

\* A query means what it says and finds what it means.
QueriesAnswered == EvaluatesAsWritten /\ FindsWhatIsAsked /\ GivesTheRange
=============================================================================
