-------------------------- MODULE ExpressionGrammar --------------------------
(***************************************************************************)
(* The expressions of the language as its reference defines them           *)
(* (docs/UltraCPP-v0.3.6-spec-en.md, the grammar of 12.1, the precedence   *)
(* table of 12.3, lvalues of 4.13.2, casts of 4.8.1): which trees derive   *)
(* the tokens from i to j.  There is no parser here: a derivation may      *)
(* split the tokens anywhere.                                              *)
(*                                                                         *)
(* With Departures = {} this is the reference, read as follows.  The       *)
(* production of assignment_expression goes on with                        *)
(* conditional_expression, as 12.3 needs it to.  The prefix forms of ++    *)
(* and -- are those of 12.3.  The names of types, builtins and intrinsics  *)
(* are no variables.  Any element of Departures puts what the compiler     *)
(* accepts or builds in place of what the reference says:                  *)
(*   "outer conditionals"   `?:` is looser than `=` (as in table 4.1,      *)
(*                          which 12.3 and the grammar contradict)         *)
(*   "any target"           anything may stand left of `=`: no lvalue is   *)
(*                          asked for                                      *)
(*   "name targets"         only a name may stand left of `+=`             *)
(*   "type names"           the names of types and `cast` are variables:   *)
(*                          int(a) and cast(int, a) are calls; yet a       *)
(*                          parenthesis before one always opens a cast     *)
(*   "keyword names"        mod and sizeof are variables                   *)
(*   "plain sizes"          sizeof takes an expression, not a type         *)
(*   "single allocations"   alloc takes no count                           *)
(*   "plain types"          no structures, references and arrays           *)
(*   "prefix stars"         `*int` is a type                               *)
(*   "starless casts"       unless it is the type of a cast                *)
(*   "paths"                a::b is sys::b, and a name of its own          *)
(*   "full statements"      there is no empty statement                    *)
(* `free` and asm blocks, statements to the compiler, function types and   *)
(* `const` are left out; mod and sizeof stand for unmod, is_null and       *)
(* alignof, move for clone.                                                *)
(***************************************************************************)
EXTENDS Integers, Sequences

CONSTANT Departures

AllDepartures ==
  {"outer conditionals", "any target", "name targets", "type names", "keyword names", "plain sizes",
   "single allocations", "plain types", "prefix stars", "starless casts", "paths", "full statements"}
ASSUME DeparturesAssumption == Departures \subseteq AllDepartures

VARIABLE toks  \* the tokens

Node(op, at, kids) == [op |-> op, at |-> at, kids |-> kids]

If(test, S)    == IF test THEN S ELSE {}
Departs(d, S)  == If(d \in Departures, S)
Conforms(d, S) == If(d \notin Departures, S)

Prims     == {"int", "i64"}
TypeNames == Prims \cup {"Point"}
Names     == {"a", "b", "sys"} \cup Departs("type names", TypeNames \cup {"cast"})
Literals  == {"1", "null"}
Compound  == [o \in {"+=", "-=", "*=", "/=", "%="} |->
  CHOOSE b \in {"+", "-", "*", "/", "%"} : o = b \o "="]
\* The binary operators from the loosest to the tightest.
Levels == << {"||"}, {"&&"}, {"|"}, {"^"}, {"&"}, {"==", "!="}, {"<", ">", "<=", ">="},
             {"<<", ">>"}, {"+", "-"}, {"*", "/", "%"} >>
Prefix == {"-", "!", "~", "&", "*", "++", "--"}

Is(i, S) == i >= 1 /\ i <= Len(toks) /\ toks[i] \in S
\* The places of a token of S from i to j.
At(S, i, j) == {k \in i..j : Is(k, S)}
Leaf(i) == Node(toks[i], i, << >>)
IsName(e) == e.kids = << >> /\ e.op \notin Literals
Lvalue(e) == IsName(e) \/ e.op \in {"pre*", "[]", "field", "pre++", "pre--", "="}

RECURSIVE Types(_, _), Expr(_, _), Assign(_, _), CondExpr(_, _), Binary(_, _, _), Unary(_, _),
          Postfix(_, _), Arguments(_, _)

Derived(op, S) == {Node(op, 0, <<t>>) : t \in S}
Types(i, j) ==
  If(i = j /\ Is(i, {"void"} \cup Prims), {Leaf(i)})
  \cup If(i < j /\ Is(i, {"unique"}), Derived("ptr", Types(i + 1, j)))
  \cup If(i < j /\ Is(j, {"*"}), Derived("ptr", Types(i, j - 1)))
  \cup Departs("prefix stars", If(Is(i, {"*"}) /\ Is(i + 1, Prims), Derived("ptr", Types(i + 1, j))))
  \cup Conforms("plain types",
         If(i = j /\ Is(i, TypeNames), {Leaf(i)})
         \cup If(i < j /\ Is(j, {"&"}), Derived("ref", Types(i, j - 1)))
         \cup If(i + 2 < j /\ Is(j - 2, {"["}) /\ Is(j - 1, {"1"}) /\ Is(j, {"]"}), Derived("array", Types(i, j - 3))))

\* The trees of conditions between C, T and E.
Conditionals(i, j, C(_, _), E(_, _)) ==
  UNION {{Node("?:", k[1], <<c, t, e>>) : c \in C(i, k[1] - 1), t \in Expr(k[1] + 1, k[2] - 1), e \in E(k[2] + 1, j)} :
           k \in At({"?"}, i + 1, j - 3) \X At({":"}, i + 3, j - 1)}
Expr(i, j) == Assign(i, j) \cup Departs("outer conditionals", Conditionals(i, j, Assign, Expr))
CondExpr(i, j) ==
  LET Or(m, n) == Binary(1, m, n)
  IN  Or(i, j) \cup Conforms("outer conditionals", Conditionals(i, j, Or, CondExpr))

Target(i, j) == IF "any target" \in Departures THEN Binary(1, i, j) ELSE {l \in Unary(i, j) : Lvalue(l)}
CompoundTarget(i, j) == {l \in Target(i, j) : IF "name targets" \in Departures THEN IsName(l) ELSE Lvalue(l)}
Assign(i, j) ==
  CondExpr(i, j) \cup
  UNION {{Node("=", k, <<l, r>>) : l \in Target(i, k - 1), r \in Assign(k + 1, j)} : k \in At({"="}, i + 1, j - 1)} \cup
  UNION {{Node("=", k, <<l, Node(Compound[toks[k]], k, <<l, r>>)>>) :
            l \in CompoundTarget(i, k - 1), r \in Assign(k + 1, j)} : k \in At(DOMAIN Compound, i + 1, j - 1)}

Binary(n, i, j) ==
  IF n > Len(Levels) THEN Unary(i, j)
  ELSE Binary(n + 1, i, j) \cup
       UNION {{Node(toks[k], k, <<l, r>>) : l \in Binary(n, i, k - 1), r \in Binary(n + 1, k + 1, j)} :
                k \in At(Levels[n], i + 1, j - 1)}

TypeAfter(i) == Is(i + 1, {"void", "unique"} \cup Prims)
Unary(i, j) ==
  IF i > j THEN {}
  ELSE Postfix(i, j)
       \cup If(Is(i, Prefix), {Node("pre" \o toks[i], i, <<e>>) : e \in Unary(i + 1, j)})
       \cup If(Is(i, {"+"}), Unary(i + 1, j))
       \cup If(Is(i, {"("}) /\ ("starless casts" \in Departures => TypeAfter(i)),
              UNION {{Node("cast", i, <<t, e>>) : t \in Types(i + 1, k - 1), e \in Unary(k + 1, j)} :
                       k \in At({")"}, i + 2, j - 1)})

\* Arguments between two parentheses, as the sequences of their trees.
Arguments(i, j) ==
  IF i > j THEN {}
  ELSE {<<e>> : e \in Expr(i, j)} \cup
       UNION {{s \o <<e>> : s \in Arguments(i, k - 1), e \in Expr(k + 1, j)} : k \in At({","}, i + 1, j - 1)}

\* name(...): casts, builtins and intrinsics.
Intrinsic(i, j) ==
  LET Named(S) == Is(i, S) /\ Is(i + 1, {"("}) /\ Is(j, {")"})
      Calls(S) == {Node("call", i + 1, <<Leaf(i), e>>) : e \in S}
      TypeAnd(op) == UNION {{Node(op, i, <<t, e>>) : t \in Types(i + 2, k - 1), e \in Expr(k + 1, j - 1)} :
                              k \in At({","}, i + 3, j - 2)}
  IN  If(Named({"move"}), {Node("move", i, <<e>>) : e \in Expr(i + 2, j - 1)})
      \cup If(Named({"alloc"}), {Node("alloc", i, <<t>>) : t \in Types(i + 2, j - 1)}
                              \cup Conforms("single allocations", TypeAnd("alloc")))
      \cup If(Named({"mod"}), Calls(Expr(i + 2, j - 1)))
      \cup If(Named({"sizeof"}), Calls(Departs("plain sizes", Expr(i + 2, j - 1))
                                     \cup Conforms("plain sizes", Types(i + 2, j - 1))))
      \cup Conforms("type names",
             If(Named(Prims), {Node("cast", i, <<Leaf(i), e>>) : e \in Expr(i + 2, j - 1)})
             \cup If(Named({"cast"}), TypeAnd("cast")))

\* qualifier::name, the callee of a call or, to the compiler, any name.
Path(i, j) ==
  If(Is(j - 1, {"::"}) /\ Is(j, Names),
     IF "paths" \in Departures
     THEN If(~Is(j - 3, {"::"}) /\ \E e \in Postfix(i, j - 2) : IsName(e), {Node("sys$" \o toks[j], j, << >>)})
     ELSE If(i = j - 2 /\ Is(i, Names) /\ Is(j + 1, {"("}), {Node(toks[i] \o "$" \o toks[j], j, << >>)}))

Postfix(i, j) ==
  IF i > j THEN {}
  ELSE If(i = j /\ Is(i, Names \cup Literals \cup Departs("keyword names", {"sizeof", "mod"})), {Leaf(i)})
       \cup If(Is(i, {"("}) /\ Is(j, {")"}) /\ ("type names" \in Departures => ~TypeAfter(i)), Expr(i + 1, j - 1))
       \cup Intrinsic(i, j) \cup Path(i, j)
       \cup If(Is(j, {"++", "--"}), {Node("post" \o toks[j], j, <<e>>) : e \in Postfix(i, j - 1)})
       \cup If(Is(j - 1, {"."}) /\ Is(j, Names), {Node("field", j, <<e>>) : e \in Postfix(i, j - 2)})
       \cup If(Is(j - 1, {"->"}) /\ Is(j, Names),
              {Node("field", j, <<Node("pre*", j - 1, <<e>>)>>) : e \in Postfix(i, j - 2)})
       \cup If(Is(j, {"]"}),
              UNION {{Node("[]", k, <<e, x>>) : e \in Postfix(i, k - 1), x \in Expr(k + 1, j - 1)} :
                       k \in At({"["}, i + 1, j - 2)})
       \cup If(Is(j, {")"}),
              UNION {{Node("call", k, <<e>> \o s) : e \in Postfix(i, k - 1),
                        s \in IF k + 1 = j THEN {<< >>} ELSE Arguments(k + 1, j - 1)} :
                       k \in At({"("}, i + 1, j - 1)})

\* The tokens from i to j, before a semicolon, are a statement.
IsStatement(i, j) == Expr(i, j) # {} \/ (i > j /\ "full statements" \notin Departures)
=============================================================================
