-------------------------- MODULE ExpressionParsing --------------------------
(***************************************************************************)
(* The expression parser of the C compiler (src-c/src/parser.c): recursive *)
(* descent with one token of lookahead and one more to tell a cast from a  *)
(* parenthesis.  There is an operator for every function; the functions of *)
(* the ladder of binary operators have one form and share one.             *)
(*                                                                         *)
(* An operator takes the place of the current token and returns whether it *)
(* succeeded, the place it stopped at and the tree.  The state machine     *)
(* parses one expression statement after the other until an error or the   *)
(* end of the tokens.                                                      *)
(***************************************************************************)
EXTENDS ExpressionGrammar

CONSTANT Inputs  \* the token sequences considered

VARIABLES
  at,      \* the place of p->current
  trees,   \* the statements parsed: where each starts and ends, and its tree
  failed   \* p->error is set

vars == <<toks, at, trees, failed>>

Cur(p) == IF p <= Len(toks) THEN toks[p] ELSE "Eof"
Result(ok, p, tree) == [ok |-> ok, at |-> p, tree |-> tree]
None == Node("", 0, << >>)
Yes(p, tree) == Result(TRUE, p, tree)
err_here(p) == Result(FALSE, p, None)
\* The result of r, and the token that must follow it.
expect(r, token) == IF ~r.ok THEN r ELSE IF Cur(r.at) = token THEN [r EXCEPT !.at = @ + 1] ELSE err_here(r.at)
\* What follows a call of a function of the parser that succeeded.
Then(r, F(_)) == IF r.ok THEN F(r) ELSE r
Wrap(r, op, p) == IF r.ok THEN Yes(r.at, Node(op, p, <<r.tree>>)) ELSE r

is_prim_type_name == {"int", "i64"}
Ident == {"a", "b", "sys", "Point", "cast"} \cup is_prim_type_name
\* Mutant: the lexer makes sizeof a keyword and the parser does not know.
wrap_kw_without_sizeof == {"mod"}
\* The keywords that stand for a name in an expression.
wrap_kw_as_ident == {"sizeof", "mod"}

uc_type_pointer(type) == Node("ptr", 0, <<type>>)
RECURSIVE Stars(_), parse_type(_)
Stars(r) == IF r.ok /\ Cur(r.at) = "*" THEN Stars(Yes(r.at + 1, uc_type_pointer(r.tree))) ELSE r
parse_type(p) ==
  IF Cur(p) \in {"void"} \cup is_prim_type_name THEN Stars(Yes(p + 1, Leaf(p)))
  ELSE IF Cur(p) = "unique" \/ (Cur(p) = "*" /\ Cur(p + 1) \in is_prim_type_name)
  THEN Then(parse_type(p + 1), LAMBDA t : Stars(Yes(t.at, uc_type_pointer(t.tree)))) ELSE err_here(p)
looks_like_type_start(p) ==
  Cur(p) \in {"void", "unique"} \cup is_prim_type_name \/ (Cur(p) = "*" /\ Cur(p + 1) \in is_prim_type_name)
looks_like_type_start_peek(p) == Cur(p + 1) \in {"void", "unique"} \cup is_prim_type_name

\* parse_or, parse_and, parse_bitwise_or, ..., parse_multiplicative.
Ladder == << {"||"}, {"&&"}, {"|"}, {"^"}, {"&"}, {"==", "!="}, {"<", ">", "<=", ">="},
             {"<<", ">>"}, {"+", "-"}, {"*", "/", "%"} >>
\* Mutant: a parser that groups to the right.
NextOperandRight(n) == n
NextOperand(n) == n + 1

RECURSIVE parse_ternary(_), parse_assignment(_), parse_binary(_, _), Operators(_, _), parse_unary(_),
          parse_postfix(_), Postfixes(_), Args(_, _), parse_primary(_)
parse_expression(p) == parse_ternary(p)

Conditional(c) ==
  IF Cur(c.at) # "?" THEN c
  ELSE Then(expect(parse_expression(c.at + 1), ":"), LAMBDA t :
         Then(parse_ternary(t.at), LAMBDA e : Yes(e.at, Node("?:", c.at, <<c.tree, t.tree, e.tree>>))))
parse_ternary(p) == Then(parse_assignment(p), Conditional)

CompoundOp == [o \in {"+=", "-=", "*=", "/=", "%="} |->
  IF o = "+=" THEN "+" ELSE IF o = "-=" THEN "-" ELSE IF o = "*=" THEN "*" ELSE IF o = "/=" THEN "/" ELSE "%"]
\* `a += e` is made `a = a + e`, for a name only.
Assignment(l, op) ==
  IF op \notin {"="} \cup DOMAIN CompoundOp THEN l
  ELSE IF op # "=" /\ ~IsName(l.tree) THEN err_here(l.at + 1)
  ELSE Then(parse_assignment(l.at + 1), LAMBDA r : Yes(r.at, Node("=", l.at,
         <<l.tree, IF op = "=" THEN r.tree ELSE Node(CompoundOp[op], l.at, <<l.tree, r.tree>>)>>)))
parse_assignment(p) == Then(parse_binary(1, p), LAMBDA l : Assignment(l, Cur(l.at)))

parse_binary(n, p) == IF n > Len(Ladder) THEN parse_unary(p) ELSE Operators(n, parse_binary(n + 1, p))
\* The loop of a level: operands are added on the right as long as its
\* operators follow.
Operators(n, l) ==
  IF ~l.ok \/ Cur(l.at) \notin Ladder[n] THEN l
  ELSE Then(parse_binary(NextOperand(n), l.at + 1), LAMBDA r :
         Operators(n, Yes(r.at, Node(Cur(l.at), l.at, <<l.tree, r.tree>>))))

parse_unary(p) ==
  IF Cur(p) = "(" /\ looks_like_type_start_peek(p)
  THEN Then(expect(parse_type(p + 1), ")"), LAMBDA t :
         Then(parse_unary(t.at), LAMBDA e : Yes(e.at, Node("cast", p, <<t.tree, e.tree>>))))
  ELSE IF Cur(p) = "+" THEN parse_unary(p + 1)
  ELSE IF Cur(p) \in {"-", "!", "~", "&", "*", "++", "--"} THEN Wrap(parse_unary(p + 1), "pre" \o Cur(p), p)
  ELSE parse_postfix(p)

\* A name qualified by another becomes the name of a system call.
Qualified(e) ==
  IF ~(IsName(e.tree) /\ Cur(e.at) = "::") THEN Postfixes(e)
  ELSE IF Cur(e.at + 1) \notin Ident THEN err_here(e.at + 1)
  ELSE Postfixes(Yes(e.at + 2, Node("sys$" \o Cur(e.at + 1), e.at + 1, << >>)))
parse_postfix(p) == Then(parse_primary(p), Qualified)

\* The arguments of a call from p on, after those in s.
Args(p, s) ==
  Then(parse_expression(p), LAMBDA e :
    IF Cur(e.at) = "," THEN Args(e.at + 1, Append(s, e.tree))
    ELSE expect(Yes(e.at, Node("", p, Append(s, e.tree))), ")"))
Field(e, target) ==
  IF Cur(e.at + 1) \in Ident THEN Yes(e.at + 2, Node("field", e.at + 1, <<target>>)) ELSE err_here(e.at + 1)
Postfixes(e) ==
  IF ~e.ok THEN e
  ELSE CASE Cur(e.at) = "(" ->
              Then(IF Cur(e.at + 1) = ")" THEN Yes(e.at + 2, None) ELSE Args(e.at + 1, << >>), LAMBDA s :
                Postfixes(Yes(s.at, Node("call", e.at, <<e.tree>> \o s.tree.kids))))
         [] Cur(e.at) = "."  -> Postfixes(Field(e, e.tree))
         [] Cur(e.at) = "->" -> Postfixes(Field(e, Node("pre*", e.at, <<e.tree>>)))
         [] Cur(e.at) = "["  ->
              Then(expect(parse_expression(e.at + 1), "]"), LAMBDA x :
                Postfixes(Yes(x.at, Node("[]", e.at, <<e.tree, x.tree>>))))
         [] Cur(e.at) \in {"++", "--"} -> Postfixes(Yes(e.at + 1, Node("post" \o Cur(e.at), e.at, <<e.tree>>)))
         [] OTHER -> e

parse_primary(p) ==
  IF Cur(p) = "(" THEN expect(parse_expression(p + 1), ")")
  ELSE IF Cur(p) \in {"move", "alloc"}
  THEN IF Cur(p + 1) # "(" THEN err_here(p + 1)
       ELSE Wrap(expect(IF Cur(p) = "move" THEN parse_expression(p + 2) ELSE parse_type(p + 2), ")"), Cur(p), p)
  ELSE IF Cur(p) \in {"1", "null"} \cup wrap_kw_as_ident \cup Ident THEN Yes(p + 1, Leaf(p))
  ELSE err_here(p)

-----------------------------------------------------------------------------
Init == toks \in Inputs /\ at = 1 /\ trees = << >> /\ failed = FALSE

\* A statement that starts with a type is a declaration.
parse_expr_stmt ==
  /\ ~failed /\ Cur(at) # "Eof" /\ ~looks_like_type_start(at)
  /\ \E e \in {expect(parse_expression(at), ";")} :
       /\ failed' = ~e.ok
       /\ at' = e.at
       /\ trees' = IF e.ok THEN Append(trees, [first |-> at, last |-> e.at - 2, tree |-> e.tree]) ELSE trees
  /\ UNCHANGED toks

Next == parse_expr_stmt
Spec == Init /\ [][Next]_vars

-----------------------------------------------------------------------------
(***************************************************************************)
(* Properties.                                                             *)
(***************************************************************************)
\* Every statement is derived by the grammar of the reference, changed where
\* Departures says so, and the tree built is the only one that derives it:
\* precedence, associativity, casts and the desugaring of compound assignments
\* are those of the language.
TreesRight ==
  \A n \in 1..Len(trees) : Expr(trees[n].first, trees[n].last) = {trees[n].tree}

\* What the parser rejects is no statement of the language, changed where
\* Departures says so, wherever its semicolon is looked for.
RejectedIsWrong ==
  failed =>
    LET start == IF trees = << >> THEN 1 ELSE trees[Len(trees)].last + 2
    IN  \A j \in start - 1..Len(toks) - 1 : toks[j + 1] = ";" => ~IsStatement(start, j)
=============================================================================
