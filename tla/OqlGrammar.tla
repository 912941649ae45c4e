----------------------------- MODULE OqlGrammar -----------------------------
(***************************************************************************)
(* What the OQL parser declares (core.oql.parser: tokens, precedence, the  *)
(* rules in the order of the file) and the operations on declarations that *)
(* make instances small enough for model checking.                         *)
(***************************************************************************)
EXTENDS Integers, Sequences
LOCAL INSTANCE SequencesExt

\* The lowest level first.
precedence ==
  << [assoc |-> "left",  terms |-> <<"OR">>],
     [assoc |-> "left",  terms |-> <<"AND">>],
     [assoc |-> "left",  terms |-> <<"NOT">>],
     [assoc |-> "left",  terms |-> <<"IN", "BETWEEN">>],
     [assoc |-> "left",  terms |-> <<"EQ", "GT", "GE", "LT", "LE", "NE">>],
     [assoc |-> "left",  terms |-> <<"PLUS", "MINUS">>],
     [assoc |-> "left",  terms |-> <<"TIMES", "DIVIDE">>],
     [assoc |-> "left",  terms |-> <<"EXP">>],
     [assoc |-> "right", terms |-> <<"UMINUS">>] >>

tokens ==
  {"SET", "SELECT", "AS", "FROM", "WHERE", "ORDER", "GROUP", "BY", "RANGE",
   "IF", "THEN", "ELSE", "ASC", "DESC", "SHALLOW", "DEEP", "THIS", "AND",
   "OR", "NOT", "IN", "BETWEEN", "HASATTR", "MAX", "MIN", "AVG", "SUM",
   "COUNT", "SLICE", "INSTANCEOF", "GETPARENT", "COMMENT", "COLON", "COMMA",
   "FUNCTION", "EQ", "NE", "GT", "GE", "LT", "LE", "PLUS", "MINUS", "TIMES",
   "DIVIDE", "BOOLEAN", "EXP", "LPAREN", "RPAREN", "LSB", "RSB", "INT",
   "FLOAT", "NAME", "STRING"}

scriptRules ==
  << <<"oqlscript", "statement">>,
     <<"oqlscript", "oqlscript", "statement">>,
     <<"statement", "SET", "NAME", "EQ", "expression">>,
     <<"statement", "select_statement">> >>

selectRules ==
  << <<"select_statement", "SELECT", "TIMES", "FROM", "object_list">>,
     <<"select_statement", "SELECT", "select_list", "FROM", "object_list">>,
     <<"select_statement", "select_statement", "WHERE", "expression">>,
     <<"select_statement", "select_statement", "ORDER", "BY", "field_list",
       "ASC">>,
     <<"select_statement", "select_statement", "ORDER", "BY", "field_list",
       "DESC">>,
     <<"select_statement", "select_statement", "GROUP", "BY", "field_list">>,
     <<"select_statement", "select_statement", "RANGE", "INT", "MINUS", "INT">>,
     <<"select_statement", "select_statement", "RANGE", "INT">> >>

Aggregate(token) == <<"fieldspec", token, "LPAREN", "fieldspec", "RPAREN">>

fieldRules ==
  << <<"fieldspec", "NAME">>,
     <<"fieldspec", "expression">>,
     <<"fieldspec", "LPAREN", "IF", "expression", "THEN", "expression",
       "ELSE", "expression", "RPAREN">>,
     Aggregate("MIN"), Aggregate("MAX"), Aggregate("AVG"), Aggregate("SUM"),
     Aggregate("COUNT"),
     <<"alias", "fieldspec", "AS", "NAME">>,
     <<"select_field", "fieldspec">>,
     <<"select_field", "alias">>,
     <<"select_list", "select_field">>,
     <<"select_list", "select_list", "COMMA", "select_field">>,
     <<"field_list", "fieldspec">>,
     <<"field_list", "field_list", "COMMA", "fieldspec">> >>

scopeRules ==
  << <<"scope", "expression">>,
     <<"scope", "SHALLOW", "LPAREN", "expression", "RPAREN">>,
     <<"scope", "DEEP", "LPAREN", "expression", "RPAREN">>,
     <<"scope", "THIS", "COLON", "NAME">>,
     <<"object_list", "scope">>,
     <<"object_list", "object_list", "COMMA", "scope">> >>

listRules ==
  << <<"array", "LSB", "expression_list", "RSB">>,
     <<"expression_list", "expression">>,
     <<"expression_list", "expression_list", "COMMA", "expression">> >>

Infix(token) == <<"expression", "expression", token, "expression">>
Calls(token) == <<"expression", token, "LPAREN", "expression", "RPAREN">>
Atom(token)  == <<"expression", token>>

functionRules ==
  << <<"expression", "SLICE", "LPAREN", "expression", "COMMA", "expression",
       "COMMA", "expression", "RPAREN">>,
     Calls("HASATTR"),
     <<"expression", "expression", "BETWEEN", "expression", "AND",
       "expression">>,
     Infix("IN"), Calls("INSTANCEOF"), Calls("GETPARENT"),
     <<"expression", "GETPARENT", "LPAREN", "RPAREN">> >>

operatorRules ==
  << Infix("OR"), Infix("AND"), <<"expression", "NOT", "expression">>,
     Infix("EQ"), Infix("NE"), Infix("GT"), Infix("GE"), Infix("LT"),
     Infix("LE"), Infix("PLUS"), Infix("MINUS"), Infix("TIMES"),
     Infix("DIVIDE"), Infix("EXP"),
     <<"expression", "MINUS", "expression", "%prec", "UMINUS">> >>

atomRules ==
  << <<"expression", "FUNCTION", "LPAREN", "expression_list", "RPAREN">>,
     <<"expression", "LPAREN", "expression", "RPAREN">>,
     <<"expression", "LPAREN", "select_statement", "RPAREN">>,
     <<"expression", "array">>,
     Atom("STRING"), Atom("INT"), Atom("FLOAT"), Atom("NAME"),
     Atom("BOOLEAN") >>

grammarRules ==
  scriptRules \o selectRules \o fieldRules \o scopeRules \o listRules
  \o functionRules \o operatorRules \o atomRules

-----------------------------------------------------------------------------
\* A declaration from rules given as <<name, symbol, ...>>; the line of a
\* rule is its place.
Declared(toks, prec, rules, first) ==
  [tokens |-> toks, precedence |-> prec, start |-> first,
   rules |-> [i \in DOMAIN rules |->
                [name |-> rules[i][1], syms |-> Tail(rules[i]), line |-> i]]]

\* The part of the OQL grammar with these tokens and nonterminals, from the
\* symbol first.  The levels of precedence stay.
Part(toks, names, first) ==
  LET kept == toks \union names \union
              (IF "MINUS" \in toks THEN {"%prec", "UMINUS"} ELSE {})
      In(s) == s \in kept
  IN  Declared(toks,
        [l \in DOMAIN precedence |->
           [precedence[l] EXCEPT !.terms = SelectSeq(@, In)]],
        SelectSeq(grammarRules, LAMBDA r : \A i \in DOMAIN r : In(r[i])),
        first)
=============================================================================
