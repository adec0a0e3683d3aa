----------------------- MODULE MCExpressionExecution -----------------------
EXTENDS ExpressionExecution

CONSTANTS MaxNodes

N(k, x, ty) == [k |-> k, x |-> x, ty |-> ty, n |-> 0, outs |-> << >>]
C(k, x, n)  == [k |-> k, x |-> x, ty |-> "void", n |-> n, outs |-> << >>]

MCSymbols == {"a", "b", "q", "l", "p", "fp", "g", "n", "m", "log", "mk", "flag", "h", "1", "s", "true",
  "post_inc", "pre_dec", "add", "slt", "eq", "and"}
MCLocalVars == [a |-> "int", b |-> "int", q |-> "bool", l |-> "i64", p |-> "pointer", fp |-> "function"]
MCGlobalVars == [g |-> "int"]
MCExterns == [log |-> "void", mk |-> "pointer", flag |-> "bool"]
MCFnPtrs == [fp |-> "i32"]
MCLeftTypes == {"i32", "i1", "void"}
MCParams == [n |-> "int", m |-> "i64"]
MCReturns == [log |-> "void", flag |-> "bool", mk |-> "pointer", h |-> "int", fp |-> "int"]
MCTakes == [flag |-> << >>, log |-> <<"int">>, mk |-> << >>, h |-> <<"int", "int">>, fp |-> <<"int">>]

\* The statements and expressions that are combined freely ...
Leaves == {N("literal", "1", "i32"), N("ident", "a", "void"), N("ident", "l", "void"), N("ident", "p", "void"),
           N("ident", "n", "void"), C("call", "mk", 0)}
Unaries == {N("neg", "", "void"), N("deref", "", "void"), N("addr", "", "void"), N("inc", "post_inc", "void"),
            N("assign", "a", "void"), N("cast", "", "i64"), C("call", "log", 1), C("callptr", "fp", 1)}
Binaries == {N("arith", "add", "void"), N("cmp", "slt", "void"), C("call", "h", 2)}
\* Targets of an assignment that is not to a variable gen_expr knows.
Targets == {<<N("deref", "", "void"), N("ident", "p", "void")>>, <<N("ident", "n", "void")>>}
Roots == {N("decl", "b", "int"), N("decl", "q", "bool"), N("eval", "", "void"), N("return", "", "int"), N("cond", "", "void")}

RECURSIVE Exprs(_)
Exprs(n) ==
  IF n = 1 THEN {<<e>> : e \in Leaves}
  ELSE {<<e>> \o s : e \in Unaries, s \in Exprs(n - 1)}
       \cup {<<N("assign_to", "", "void")>> \o t \o s : t \in Targets, s \in Exprs(n - 1)}
       \cup UNION {{<<e>> \o s \o t : e \in Binaries, s \in Exprs(m), t \in Exprs(n - 1 - m)} : m \in 1..(n - 2)}
Free == UNION {Exprs(n) : n \in 1..MaxNodes}

\* ... conditional expressions, also in one another ...
Small == UNION {Exprs(n) : n \in 1..2}
Compared == {<<N("cmp", "slt", "void"), N("ident", x, "void"), N("literal", "1", "i32")>> : x \in {"a", "n"}}
Ternary(c, s, t) == <<N("ternary", "", "void")>> \o c \o s \o t
Conditional == {Ternary(c, s, t) : c \in Compared, s \in Exprs(1), t \in Small}
               \cup {Ternary(c, s, t) : c \in Compared \cup Exprs(1), s \in Small, t \in {<<N("ident", "a", "void")>>}}
Nested == {Ternary(c, s, t) : c \in Compared, s \in Exprs(1), t \in {Ternary(d, u, v) : d \in Compared, u, v \in Exprs(1)}}

\* ... and the other forms, over operands of every type.
Others == {N("not", "", "void"), N("cast", "", "int"), N("cast", "", "pointer"), N("cast", "", "f64"),
           N("inc", "pre_dec", "void"), N("assign", "q", "void"), N("assign", "p", "void"), N("assign", "l", "void"),
           N("assign", "g", "void"), N("bit", "", "void")}
          \cup {C(k, "", 1) : k \in {"is_null", "mod", "unmod", "move", "clone", "abs_int", "strlen"}}
Operands == Exprs(1) \cup {<<e>> : e \in {N("literal", "s", "i8*"), N("literal", "true", "i32"), N("null", "", "void"),
              N("ident", "m", "void"), N("ident", "q", "void"), N("ident", "g", "void"), N("alloc", "", "i64"),
              N("alloc", "", "char"), N("alloc", "", "u64"), N("sizeof", "", "i16"), N("unsupported", "", "void"),
              C("call", "flag", 0)}}
            \cup {<<N("cmp", "eq", "void"), N("ident", "a", "void"), N("ident", "n", "void")>>,
                  <<N("addr", "", "void"), N("ident", "a", "void")>>}
OtherExprs ==
  Operands \cup {<<e>> \o s : e \in Others, s \in Operands}
  \cup {<<N("logic", "and", "void")>> \o s \o t : s \in Operands, t \in Operands}
  \cup {<<C(k, "", 3), N("literal", "1", "i32")>> \o s \o t : k \in {"write", "read"}, s \in Operands, t \in Exprs(1)}
  \cup {<<C("write", "", 1)>> \o s : s \in Operands} \cup {<<C("mod", "", 0)>>}
OtherRoots == {N("decl", "b", "int"), N("decl", "l", "i64"), N("decl", "p", "pointer"), N("decl", "q", "bool"),
               N("eval", "", "void"), N("return", "", "void"), N("return", "", "pointer"), N("cond", "", "void"),
               N("free", "", "void")}
Asm(outs, ins) == <<[k |-> "asm", x |-> "", ty |-> "void", n |-> Len(ins), outs |-> outs]>> \o ins
Whole == {Asm(outs, ins) : outs \in {<< >>, <<"a">>, <<"l", "a">>, <<"n">>},
                           ins \in {<< >>, <<N("ident", "a", "void")>>, <<N("ident", "g", "void"), N("ident", "n", "void")>>}}
         \cup {<<[N("decl_fn", "fp", "function") EXCEPT !.outs = <<"h">>]>>}

MCPrograms == {<<r>> \o e : r \in Roots, e \in Free \cup Conditional \cup Nested}
              \cup {<<r>> \o e : r \in OtherRoots, e \in OtherExprs} \cup Whole
=============================================================================
