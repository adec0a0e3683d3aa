------------------------ MODULE ExpressionExecution ------------------------
(***************************************************************************)
(* What the instructions ExpressionCodegen emits do, and what the source   *)
(* means.  llc is given the instructions first: it rejects an operand that *)
(* is not defined on some way to its use or has another type than written, *)
(* and a phi that does not name the blocks control comes from.  Code it    *)
(* accepts is executed and compared with the source.                       *)
(*                                                                         *)
(* Values are terms, so that two of them are equal only when they were     *)
(* computed in the same way.  Each condition comes out either way; an      *)
(* outcome is chosen per conditional expression, in the order in which     *)
(* they stand in the source.                                               *)
(***************************************************************************)
EXTENDS ExpressionCodegen, FiniteSets

CONSTANTS
  Params,      \* the parameters, with their types
  Returns,     \* the functions, with their return types in the source
  Takes        \* the functions, with the types of their parameters

Term(f, args) == [f |-> f, args |-> args]
Word(x)       == Term(x, << >>)
AddrOf(x)     == Term("addr", <<Word(x)>>)

Cells == DOMAIN LocalVars \cup DOMAIN GlobalVars
\* A pointer variable points to `b` before the statement.
Memory0 == [x \in Cells |->
  IF x \in DOMAIN LocalVars /\ LocalVars[x] = "pointer" THEN AddrOf("b") ELSE Word(x)]
\* The variable a term is the address of, if it is one.
IsAddr(t)  == t.f = "addr" /\ t.args[1].f \in Cells
CellOf(t)  == t.args[1].f

Done == next > 1 /\ ~Working

-----------------------------------------------------------------------------
(***************************************************************************)
(* llc and the machine (external).  A run goes through the instructions    *)
(* with the block it is in and the block it came from, the typed values of *)
(* the temporaries, the memory, and the log of what the outside can see.   *)
(* It is `ok` while llc has no reason to reject the code.                  *)
(***************************************************************************)
EntryBlock == nlabels      \* no label has this number
Start == [pc |-> 1, here |-> EntryBlock, from |-> EntryBlock, regs |-> << >>,
          mem |-> Memory0, log |-> << >>, ok |-> TRUE]

HasType(r, a) ==
  CASE a.v.kind = "temp"   -> a.v.n \in DOMAIN r.regs /\ r.regs[a.v.n].ty = a.ty
    [] a.v.kind = "named"  -> a.v.x \in DOMAIN Params /\ llvm_type[Params[a.v.x]] = a.ty
    [] a.v.kind = "const"  -> a.ty = "i64"
    [] OTHER               -> a.ty = "i8*"
ValueOf(r, a) ==
  CASE a.v.kind = "temp"   -> r.regs[a.v.n].v
    [] a.v.kind = "named"  -> Word(a.v.x)
    [] a.v.kind = "null"   -> Word("null")
    [] a.v.kind = "const"  -> Word(a.v.x)
    [] OTHER               -> AddrOf(a.v.x)

\* A store of another width than the variable's leaves part of the old value
\* (or writes beyond it).
Written(ty, x, v, old) == IF ty = VarType(x) THEN v ELSE Term("part", <<v, old>>)

Loaded(r, ty, a) ==
  IF ~IsAddr(a) THEN Term("wild", <<a>>)
  ELSE IF ty = VarType(CellOf(a)) THEN r.mem[CellOf(a)] ELSE Term("part", <<r.mem[CellOf(a)]>>)

SetReg(r, n, ty, v) ==
  [r EXCEPT !.regs = [m \in DOMAIN @ \cup {n} |-> IF m = n THEN [ty |-> ty, v |-> v] ELSE @[m]]]

LabelAt(l) == CHOOSE j \in DOMAIN code : code[j] = Label(l)
Jump(r, l) == [r EXCEPT !.pc = LabelAt(l), !.from = r.here, !.here = l]
\* The block an instruction is in, and the blocks that branch to a label.
BlockOf(j) ==
  LET before == {k \in 1..j : code[k].op = "label"}
  IN  IF before = {} THEN EntryBlock
      ELSE code[CHOOSE k \in before : \A m \in before : m <= k].to[1]
Sources(l) == {BlockOf(j) : j \in {k \in DOMAIN code :
                 code[k].op \in {"br", "cbr"} /\ \E i \in DOMAIN code[k].to : code[k].to[i] = l}}

\* Conversions llc refuses: a bitcast to a type of another size.
SameSize == {{"i32", "float"}, {"i64", "double"}}
Valid(ins) == ins.op = "bitcast" => {ins.args[1].ty, ins.ty} \in SameSize

Step(r, ins, choice) ==
  LET v(i)   == ValueOf(r, ins.args[i])
      next_r == [r EXCEPT !.pc = @ + 1]
      set(q, t) == SetReg(q, ins.res[1], ins.ty, t)
      note(t) == [next_r EXCEPT !.log = Append(@, [what |-> t, mem |-> r.mem])]
      rejected == [r EXCEPT !.ok = FALSE]
      seen == Term(ins.x, [i \in DOMAIN ins.args |-> v(i)])
      phi_of == IF ins.to[1] = r.from THEN 1 ELSE 2
  IN  CASE ins.op = "phi" ->
             IF /\ Sources(r.here) = {ins.to[1], ins.to[2]}
                /\ HasType(r, ins.args[phi_of])
             THEN set(next_r, v(phi_of)) ELSE rejected
        [] ins.op \in {"label", "alloca"} -> next_r
        [] ins.op = "br" -> Jump(r, ins.to[1])
        [] OTHER ->
             IF ~Valid(ins) \/ \E i \in DOMAIN ins.args : ~HasType(r, ins.args[i])
             THEN rejected
             ELSE CASE ins.op = "cbr" -> Jump(r, ins.to[IF choice[ins.at] THEN 1 ELSE 2])
                    [] ins.op = "const" -> set(next_r, Word(ins.x))
                    [] ins.op \in {"copy", "zext"} -> set(next_r, v(1))
                    [] ins.op = "load" -> set(next_r, Loaded(r, ins.ty, v(1)))
                    [] ins.op = "store" ->
                         IF IsAddr(v(2))
                         THEN [next_r EXCEPT !.mem[CellOf(v(2))] =
                                               Written(ins.args[1].ty, CellOf(v(2)), v(1), @)]
                         ELSE note(Term("wild", <<v(2), v(1)>>))
                    [] ins.op \in {"call", "asm"} ->
                         IF ins.res = << >> THEN note(seen)
                         ELSE set(note(seen), Term("result", <<seen>>))
                    [] ins.op \in {"ret", "test"} -> note(Term(ins.op, [i \in DOMAIN ins.args |-> v(i)]))
                    [] OTHER ->
                         set(next_r, IF ins.x # "" THEN seen ELSE Term(ins.op, [i \in DOMAIN ins.args |-> v(i)]))

RECURSIVE RunFrom(_, _)
RunFrom(r, choice) ==
  IF ~r.ok \/ r.pc > Len(code) THEN r ELSE RunFrom(Step(r, code[r.pc], choice), choice)
Run(choice) == RunFrom(Start, choice)

\* An outcome for every conditional expression.
Choices == [{i \in DOMAIN prog : prog[i].k = "ternary"} -> BOOLEAN]

\* llc accepts the code: no way through it meets a reason to reject it.
Accepted == \A c \in Choices : Run(c).ok

-----------------------------------------------------------------------------
(***************************************************************************)
(* The source.  Its types: an assignment, an argument, a value in an       *)
(* arithmetic expression have the type they are used at, as the            *)
(* specification of the language asks; "bad" is anything else.             *)
(***************************************************************************)
RECURSIVE SourceType(_)
After(i) ==
  LET after[j \in 1..Len(prog)] ==
        LET skip[n \in 0..Arity(prog[j])] == IF n = 0 THEN j + 1 ELSE after[skip[n - 1]]
        IN  skip[Arity(prog[j])]
  IN  after[i]
\* Where the n-th operand of the node at i begins.
RECURSIVE OperandAt(_, _)
OperandAt(i, n) == IF n = 1 THEN i + 1 ELSE After(OperandAt(i, n - 1))

VarOf(x) == IF x \in DOMAIN LocalVars THEN LocalVars[x]
            ELSE IF x \in DOMAIN GlobalVars THEN GlobalVars[x] ELSE Params[x]
Good(b, ty) == IF b THEN ty ELSE "bad"

SourceType(i) ==
  LET e == prog[i]
      t(n) == SourceType(OperandAt(i, n))
      all(T) == Arity(e) > 0 /\ \A n \in 1..Arity(e) : t(n) = T
      takes(f) == /\ Len(Takes[f]) = e.n
                  /\ \A n \in 1..e.n : t(n) = Takes[f][n]
  IN  CASE e.k = "literal" -> IF e.x = "true" THEN "bool" ELSE IF e.ty = "i8*" THEN "pointer" ELSE "int"
        [] e.k = "ident"   -> VarOf(e.x)
        [] e.k \in {"null", "alloc"} -> "pointer"
        [] e.k \in {"move", "clone"} -> Good(all("pointer"), "pointer")
        [] e.k = "sizeof"  -> "int"
        [] e.k \in {"arith", "neg", "abs_int"} -> Good(all("int"), "int")
        [] e.k = "cmp"     -> Good(all("int"), "bool")
        [] e.k \in {"logic", "not"} -> Good(all("bool"), "bool")
        [] e.k = "is_null" -> Good(all("pointer"), "bool")
        [] e.k \in {"mod", "unmod", "free"} -> Good(all("pointer"), "void")
        [] e.k = "deref"   -> Good(all("pointer"), "int")
        [] e.k = "addr"    -> Good(all("int") /\ prog[i + 1].k \in {"ident", "deref"}, "pointer")
        [] e.k = "inc"     -> Good(prog[i + 1].k = "ident" /\ t(1) \in {"int", "i64"}, t(1))
        [] e.k = "assign"  -> Good(t(1) = VarOf(e.x), t(1))
        [] e.k = "assign_to" -> Good(prog[i + 1].k \in {"deref", "ident"} /\ t(1) = t(2), t(1))
        [] e.k = "ternary" -> Good(t(1) = "bool" /\ t(2) = t(3), t(2))
        [] e.k = "cast"    -> Good(t(1) \in {"int", "i64", "pointer"}, e.ty)
        [] e.k \in {"call", "callptr"} -> Good(takes(e.x), Returns[e.x])
        [] e.k = "strlen"  -> Good(all("pointer"), "i64")
        [] e.k \in {"write", "read"} ->
             Good(e.n = 3 /\ t(1) = "int" /\ t(2) = "pointer" /\ t(3) \in {"int", "i64"}, "i64")
        [] e.k \in {"decl", "return"} -> Good(t(1) = e.ty, "void")
        [] e.k = "eval"    -> Good(t(1) # "bad", "void")
        [] e.k = "cond"    -> Good(t(1) = "bool", "void")
        [] e.k = "asm"     -> Good(\A n \in 1..Arity(e) : t(n) = "int", "void")
        [] e.k = "decl_fn" -> "void"
        [] OTHER -> "bad"

\* Every part of the program is well typed.
SourceTyped == \A i \in DOMAIN prog : SourceType(i) # "bad"

(***************************************************************************)
(* Its meaning: the value of the expression at i, and the memory and the   *)
(* log after it.                                                           *)
(***************************************************************************)
Bytes == [t \in UCType |->
  IF t \in {"char", "bool", "i8", "u8"} THEN "1" ELSE IF t \in {"i16", "u16"} THEN "2"
  ELSE IF t \in Longs \cup {"f64", "pointer", "ref", "function"} THEN "8" ELSE "4"]
CastMeaning(from, to) == CastOp(llvm_type[from], llvm_type[to])

RECURSIVE Eval(_, _, _)
RECURSIVE EvalAll(_, _, _, _)
\* The operands of the node at i from the n-th on, one after the other.
EvalAll(i, n, s, choice) ==
  IF n > Arity(prog[i]) THEN [vs |-> << >>, s |-> s]
  ELSE LET one  == Eval(OperandAt(i, n), s, choice)
           rest == EvalAll(i, n + 1, one.s, choice)
       IN  [vs |-> <<one.v>> \o rest.vs, s |-> rest.s]

Eval(i, s, choice) ==
  LET e == prog[i]
      all == EvalAll(i, 1, s, choice)
      vs  == all.vs
      is(t, q) == [v |-> t, s |-> q]
      noted(t) == [all.s EXCEPT !.log = Append(@, [what |-> t, mem |-> all.s.mem])]
      called(f, args) == is(Term("result", <<Term(f, args)>>), noted(Term(f, args)))
      put(x, t) == [all.s EXCEPT !.mem[x] = t]
  IN  CASE e.k = "literal" -> is(Word(e.x), s)
        [] e.k = "sizeof" -> is(Word(Bytes[e.ty]), s)
        [] e.k = "null"  -> is(Word("null"), s)
        [] e.k = "ident" -> is(IF Known(e.x) THEN s.mem[e.x] ELSE Word(e.x), s)
        [] e.k \in {"arith", "cmp", "logic"} -> is(Term(e.x, vs), all.s)
        [] e.k \in {"neg", "not", "is_null"} -> is(Term(e.k, vs), all.s)
        [] e.k = "addr"  -> is(AddrOf(prog[i + 1].x), s)
        [] e.k = "deref" -> is(IF IsAddr(vs[1]) THEN all.s.mem[CellOf(vs[1])]
                               ELSE Term("wild", vs), all.s)
        [] e.k = "inc"   -> LET x == prog[i + 1].x
                                new == Term(IF e.x \in {"pre_inc", "post_inc"} THEN "one_more" ELSE "one_less", <<s.mem[x]>>)
                            IN  is(IF e.x \in {"pre_inc", "pre_dec"} THEN new ELSE s.mem[x], put(x, new))
        [] e.k = "assign" -> is(vs[1], put(e.x, vs[1]))
        [] e.k = "assign_to" ->
             LET a == Eval(i + 2, s, choice)       \* the operand of the dereference
                 w == Eval(OperandAt(i, 2), a.s, choice)
             IN  is(w.v, IF IsAddr(a.v) THEN [w.s EXCEPT !.mem[CellOf(a.v)] = w.v]
                         ELSE [w.s EXCEPT !.log = Append(@, [what |-> Term("wild", <<a.v, w.v>>),
                                                            mem |-> w.s.mem])])
        [] e.k = "ternary" ->
             LET c == Eval(i + 1, s, choice)
             IN  Eval(OperandAt(i, IF choice[i] THEN 2 ELSE 3), c.s, choice)
        [] e.k = "cast"  ->
             LET op == CastMeaning(SourceType(i + 1), e.ty)
             IN  is(IF op = "none" THEN vs[1] ELSE Term(op, vs), all.s)
        [] e.k = "alloc" -> called("malloc", <<Word(Bytes[e.ty])>>)
        [] e.k = "call"  -> called(e.x, vs)
        [] e.k = "callptr" ->
             LET args == <<s.mem[e.x]>> \o vs IN called(e.x, args)
        [] e.k = "write" ->
             called("write", [vs EXCEPT ![3] = IF SourceType(OperandAt(i, 3)) = "int"
                                               THEN Term("sext", <<@>>) ELSE @])
        [] e.k = "free"  -> is(Word(""), [noted(Term("free", vs)) EXCEPT
                              !.log = Append(@, [what |-> Term("uc_free_mark", vs), mem |-> all.s.mem])])
        [] e.k \in {"decl"}   -> is(Word(""), put(e.x, vs[1]))
        [] e.k = "decl_fn" -> is(Word(""), put(e.x, AddrOf(e.outs[1])))
        [] e.k = "return" -> is(Word(""), noted(Term("ret", IF e.ty = "void" THEN << >> ELSE vs)))
        [] e.k = "cond"   -> is(Word(""), noted(Term("test", vs)))
        [] e.k = "eval"   -> is(Word(""), all.s)
        [] e.k = "asm"    ->
             LET res == Term("result", <<Term("", vs)>>)
             IN  is(Word(""), [noted(Term("", vs)) EXCEPT
                      !.mem = [x \in Cells |-> IF \E n \in DOMAIN e.outs : e.outs[n] = x
                                               THEN res ELSE @[x]]])
        [] OTHER -> called(e.k, vs)

Meaning(choice) == Eval(1, [mem |-> Memory0, log |-> << >>], choice).s

-----------------------------------------------------------------------------
(***************************************************************************)
(* Where the generator is known to go another way than the language: the   *)
(* size of a type it has no entry for, and an i1 stored in the i32 of a    *)
(* bool variable by an assignment (a declaration widens it).               *)
(***************************************************************************)
Sized == {"char", "bool", "i8", "i16", "int", "i32", "f32", "i64", "f64", "pointer"}
Unsized(e)  == e.k \in {"alloc", "sizeof"} /\ e.ty \notin Sized
NarrowBool(e) == e.k = "assign" /\ VarOf(e.x) = "bool"
KnownGap == \E i \in DOMAIN prog : Unsized(prog[i]) \/ NarrowBool(prog[i])

(***************************************************************************)
(* Code that llc accepts does what the source says: it leaves the same in  *)
(* every variable and calls the same functions, with the same arguments,   *)
(* in the same order and at the same moments.  (codegen.c: gen_expr.)      *)
(***************************************************************************)
AcceptedComputesMeaning ==
  Done /\ ~failed /\ SourceTyped /\ ~KnownGap /\ Accepted =>
    \A c \in Choices : [mem |-> Run(c).mem, log |-> Run(c).log] = Meaning(c)

(***************************************************************************)
(* The core of the language is compiled, whatever was generated before it: *)
(* over literals and the variables of the function, calls, conditions and  *)
(* assignments that are statements of their own.  No stale type of the     *)
(* last expression, undefined temporary or phi with wrong blocks gets in.  *)
(* (codegen.c: gen_expr and last_expr_type.)                               *)
(***************************************************************************)
Core == {"literal", "ident", "alloc", "sizeof", "arith", "neg", "inc", "cmp", "is_null", "addr",
         "call", "callptr", "mod", "unmod", "move", "clone", "abs_int", "write", "strlen",
         "decl", "eval", "return", "cond", "free", "asm", "assign", "ternary"}
InCore(i) ==
  LET e == prog[i]
      inside == i..(After(i) - 1)
  IN  /\ e.k \in Core
      /\ e.k = "ident" => Known(e.x)
      /\ e.k \in {"addr", "inc"} => prog[i + 1].k = "ident" /\ prog[i + 1].x \in DOMAIN LocalVars
      /\ e.k \in {"assign", "mod", "unmod"} => i = 2 /\ prog[1].k = "eval"
      /\ e.k = "asm" => \A n \in DOMAIN e.outs : Known(e.outs[n]) /\ VarType(e.outs[n]) = "i32"
      /\ e.k = "ternary" => {j \in inside : prog[j].k = "ternary"} = {i}
      /\ e.k \in {"cond", "ternary"} => prog[i + 1].k \in {"cmp", "is_null"}
CoreCompiles ==
  Done /\ SourceTyped /\ (\A i \in DOMAIN prog : InCore(i)) => ~failed /\ Accepted

(***************************************************************************)
(* A variable declared with what a pointer refers to gets that value       *)
(* (docs/UltraCPP-v0.3.6-spec-en.md, 4.13.5.1: `T v = *p; // deref: read   *)
(* the object p points to`).                                               *)
(***************************************************************************)
DerefInitialises ==
  Done /\ SourceTyped /\ prog[1].k = "decl" /\ prog[2].k = "deref" => ~failed

=============================================================================
