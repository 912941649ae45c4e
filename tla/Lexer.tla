------------------------------- MODULE Lexer --------------------------------
(***************************************************************************)
(* The lexer of OQL (core.yacc.lex: the rules in the order of              *)
(* LexerReflect and lex(), Lexer.token; core.oql.parser: the token rules). *)
(*                                                                         *)
(* The text is a sequence of characters, each standing for its class:      *)
(*   "d" a digit, "e" the letter e, "a" any other letter or underscore,    *)
(*   "t" the letters of true or false, "k" those of a reserved word and    *)
(*   "f" those of a function, "s" a space, "n" a new line, "q" a quote,    *)
(*   "b" a backslash, "x" a character no rule knows, and the operators.    *)
(***************************************************************************)
EXTENDS Integers, Sequences, FiniteSets
LOCAL INSTANCE SequencesExt
LOCAL INSTANCE FiniteSetsExt

CONSTANTS
  Characters,     \* the classes that texts are made of
  Texts           \* the texts to read

Letters   == {"a", "e", "t", "k", "f"}
Operators == {":", ",", "=", ">", "<", "+", "-", "*", "/", "^",
              "(", ")", "[", "]"}

\* The length of the longest run of the characters cs from position i.
RunOf(text, i, cs) ==
  LET ends == {n \in 0..Len(text) - i + 1 :
                 \A k \in i..i + n - 1 : text[k] \in cs}
  IN  Max(ends)

At(text, i, c) == i <= Len(text) /\ text[i] = c

-----------------------------------------------------------------------------
(* The rules: how many characters each matches at position i, 0 if it does *)
(* not match.  Digits within a name are of the class \w.                   *)

Comment(text, i) ==
  IF At(text, i, "-") /\ At(text, i + 1, "-")
  THEN 2 + RunOf(text, i + 2, Characters \ {"n"}) ELSE 0

Boolean(text, i) == IF At(text, i, "t") THEN 1 ELSE 0

Exponent(text, i) ==
  LET sign == IF At(text, i + 1, "+") \/ At(text, i + 1, "-") THEN 1 ELSE 0
      n    == RunOf(text, i + 1 + sign, {"d"})
  IN  IF At(text, i, "e") /\ n > 0 THEN 1 + sign + n ELSE 0

Float(text, i) ==
  LET n == RunOf(text, i, {"d"})
      m == RunOf(text, i + n + 1, {"d"})
  IN  IF n > 0 /\ At(text, i + n, ".") /\ m > 0
      THEN n + 1 + m + Exponent(text, i + n + 1 + m) ELSE 0

Integer(text, i) == RunOf(text, i, {"d"})

Name(text, i) ==
  IF i <= Len(text) /\ text[i] \in Letters
  THEN RunOf(text, i, Letters \union {"d", "."}) ELSE 0

Newline(text, i) == RunOf(text, i, {"n"})

RECURSIVE ClosingQuote(_, _)
\* The first quote from position i on the line that no backslash escapes.
ClosingQuote(text, i) ==
  IF i > Len(text) \/ At(text, i, "n") THEN 0
  ELSE IF At(text, i, "q") THEN i
  ELSE IF At(text, i, "b")
  THEN IF At(text, i + 1, "n") THEN 0 ELSE ClosingQuote(text, i + 2)
  ELSE ClosingQuote(text, i + 1)

String(text, i) ==
  LET close == ClosingQuote(text, i + 1)
  IN  IF At(text, i, "q") /\ close # 0 THEN close - i + 1 ELSE 0

TwoCharacters(text, i) ==
  IF \/ At(text, i, ">") /\ At(text, i + 1, "=")
     \/ At(text, i, "<") /\ (At(text, i + 1, "=") \/ At(text, i + 1, ">"))
  THEN 2 ELSE 0

OneCharacter(text, i) ==
  IF i <= Len(text) /\ text[i] \in Operators THEN 1 ELSE 0

MutantRuleOrder ==
  <<"COMMENT", "BOOLEAN", "FLOAT", "INT", "NAME", "newline", "STRING",
    "one", "two">>

\* Functions in the order of the file, then the other rules, the longest
\* regular expression first.
RuleOrder ==
  <<"COMMENT", "BOOLEAN", "FLOAT", "INT", "NAME", "newline", "STRING",
    "two", "one">>

Matched(rule, text, i) ==
  CASE rule = "COMMENT" -> Comment(text, i)
    [] rule = "BOOLEAN" -> Boolean(text, i)
    [] rule = "FLOAT"   -> Float(text, i)
    [] rule = "INT"     -> Integer(text, i)
    [] rule = "NAME"    -> Name(text, i)
    [] rule = "newline" -> Newline(text, i)
    [] rule = "STRING"  -> String(text, i)
    [] rule = "two"     -> TwoCharacters(text, i)
    [] rule = "one"     -> OneCharacter(text, i)

\* The alternatives of the master expression are tried one after the other:
\* the first that matches wins, not the longest.
FirstRule(text, i) ==
  SelectInSeq(RuleOrder, LAMBDA rule : Matched(rule, text, i) > 0)

\* t_NAME looks the whole name up.
TokenType(rule, lexeme) ==
  IF rule # "NAME" THEN rule
  ELSE IF lexeme = <<"f">> THEN "FUNCTION"
  ELSE IF lexeme = <<"k">> THEN "reserved"
  ELSE "NAME"

MutantDiscarded == {"COMMENT", "BOOLEAN", "newline"}

Discarded == {"COMMENT", "newline"}

-----------------------------------------------------------------------------
VARIABLES
  lexdata,      \* the text
  lexpos,       \* how many characters were read
  lexed,        \* the tokens returned: [type, from, to]
  lexerror      \* whether t_error raised SyntaxError

lexVars == <<lexdata, lexpos, lexed, lexerror>>

LexInit ==
  /\ lexdata \in Texts
  /\ lexpos = 0 /\ lexed = <<>> /\ lexerror = FALSE

Next1 == lexpos + 1    \* the position of the next character

Reading == ~lexerror /\ lexpos < Len(lexdata)

IgnoreCharacter ==
  /\ Reading /\ lexdata[Next1] = "s"
  /\ lexpos' = lexpos + 1
  /\ UNCHANGED <<lexdata, lexed, lexerror>>

\* A rule matches: its token is returned, or nothing is.
MatchRule ==
  /\ Reading /\ lexdata[Next1] # "s"
  /\ FirstRule(lexdata, Next1) # 0
  /\ LET rule == RuleOrder[FirstRule(lexdata, Next1)]
         to   == lexpos + Matched(rule, lexdata, Next1)
     IN  /\ lexpos' = to
         /\ lexed' = IF rule \in Discarded THEN lexed
                     ELSE Append(lexed,
                            [type |-> TokenType(rule, SubSeq(lexdata, Next1, to)),
                             from |-> Next1, to |-> to])
  /\ UNCHANGED <<lexdata, lexerror>>

LexError ==
  /\ Reading /\ lexdata[Next1] # "s"
  /\ FirstRule(lexdata, Next1) = 0
  /\ lexerror' = TRUE
  /\ UNCHANGED <<lexdata, lexpos, lexed>>

LexNext == IgnoreCharacter \/ MatchRule \/ LexError

LexSpec == LexInit /\ [][LexNext]_lexVars

-----------------------------------------------------------------------------
Lexeme(token) == SubSeq(lexdata, token.from, token.to)

StartsWithBoolean(token) == lexdata[token.from] = "t"

\* Every token is the longest one that starts at its place: an operator of
\* two characters is not cut in two, a number keeps its fraction and a name
\* its reserved beginning.  It is not so for a name that begins with the
\* letters of true or false, which is cut after them.
TokensAreLongest ==
  \A n \in DOMAIN lexed :
    LET token == lexed[n]
    IN  StartsWithBoolean(token) \/
        \A k \in DOMAIN RuleOrder :
           Matched(RuleOrder[k], lexdata, token.from)
             <= token.to - token.from + 1

\* Nothing of the text is lost between the tokens but spaces, new lines and
\* comments, and what is in quotes is never taken for one of these.
NothingIsLost ==
  \A i \in 1..lexpos :
    \/ \E n \in DOMAIN lexed : i \in lexed[n].from..lexed[n].to
    \/ lexdata[i] \in {"s", "n"}
    \/ \E j \in 1..i : /\ Comment(lexdata, j) >= i - j + 1
                       /\ ~\E n \in DOMAIN lexed : j \in lexed[n].from..lexed[n].to

\* Every character of a text is in the longest token that starts where the last
\* one ended, or is a space or in a comment.
LexesEverything == TokensAreLongest /\ NothingIsLost
=============================================================================
