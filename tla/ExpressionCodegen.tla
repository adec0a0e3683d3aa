-------------------------- MODULE ExpressionCodegen --------------------------
(***************************************************************************)
(* How the C compiler lowers one expression, and the statement it belongs  *)
(* to, to LLVM instructions (src-c/src/codegen.c: gen_expr, the intrinsics *)
(* it dispatches to, and the statements of gen_stmt that use a value).     *)
(*                                                                         *)
(* gen_expr returns the name of a value and leaves its type in one field   *)
(* of the generator, last_expr_type, which whoever comes next reads; some  *)
(* expressions do not set it.  The model keeps the C call stack as `stack` *)
(* and takes one step per call of gen_expr without operands, one when a    *)
(* call with operands is entered, and one when its operands are there.     *)
(*                                                                         *)
(* A statement is given in prefix notation: the sequence of its nodes, the *)
(* statement first, in the order gen_expr meets them.                      *)
(***************************************************************************)
EXTENDS Naturals, Sequences

CONSTANTS
  Programs,    \* the statements considered
  Symbols,     \* the names, operations and constants they are about
  LocalVars,   \* g->local_vars: the local variables, with their UltraCPP types
  GlobalVars,  \* g->global_vars: the global variables, with their types
  Externs,     \* the functions of extern blocks, with their return types
  FnPtrs,      \* g->fn_ptr_sigs: the function pointers, with their return types
  LeftTypes    \* what earlier statements may have left in last_expr_type

(***************************************************************************)
(* Types.  llvm_type collapses the types of the language to a few of LLVM; *)
(* every pointer is "i8*".                                                 *)
(***************************************************************************)
Words == {"bool", "char", "int", "uint", "i8", "u8", "i16", "u16", "i32", "u32", "array"}
Longs == {"i64", "u64", "isize", "usize"}
Pointers == {"pointer", "ref", "named", "function"}
UCType == Words \cup Longs \cup Pointers \cup {"void", "f32", "f64"}
LLType == {"void", "i1", "i32", "i64", "float", "double", "i8*"}

llvm_type == [t \in UCType |->
  IF t \in Words THEN "i32" ELSE IF t \in Longs THEN "i64" ELSE IF t \in Pointers THEN "i8*"
  ELSE IF t = "f32" THEN "float" ELSE IF t = "f64" THEN "double" ELSE "void"]

\* The return type parse_extern_decl records for a function of an extern block.
ExternRet == [t \in UCType |->
  IF t = "bool" THEN "i1"
  ELSE IF t \in {"void", "pointer", "f32", "f64"} THEN llvm_type[t] ELSE "i32"]

\* The return type a call is emitted with: the table of builtins, then the
\* extern functions seen by the parser, and for any other function i32.
BuiltinRet == [f \in {"alloc", "move", "clone", "free", "mod", "unmod"} |->
                 IF f \in {"alloc", "move", "clone"} THEN "i8*" ELSE "void"]
CallRet(f) == IF f \in DOMAIN BuiltinRet THEN BuiltinRet[f]
              ELSE IF f \in DOMAIN Externs THEN ExternRet[Externs[f]] ELSE "i32"

\* The bytes `alloc(T)` asks malloc for, and the value of `sizeof(T)`.
AllocSize == [t \in UCType |->
  IF t \in {"char", "bool", "i8"} THEN "1" ELSE IF t = "i16" THEN "2"
  ELSE IF t \in {"i64", "f64", "pointer", "ref"} THEN "8" ELSE "4"]
SizeOf == [t \in UCType |->
  IF t \in {"char", "bool", "i8"} THEN "1" ELSE IF t = "i16" THEN "2"
  ELSE IF t \in {"int", "i32", "f32"} THEN "4"
  ELSE IF t \in {"i64", "f64", "pointer"} THEN "8" ELSE "0"]

(***************************************************************************)
(* Nodes.  "assign" is an assignment to a local or global variable,        *)
(* "assign_to" one to any other target; "bit" a binary or unary operator   *)
(* gen_expr does not know.  The statements come first in a program.        *)
(***************************************************************************)
Leaf    == {"literal", "ident", "null", "sizeof", "alloc", "unsupported"}
Unary   == {"neg", "not", "deref", "addr", "inc", "assign", "cast", "bit"}
Binary  == {"arith", "cmp", "logic", "assign_to"}
Marked  == {"is_null", "mod", "unmod", "move", "clone", "abs_int"}
Calls   == {"call", "callptr", "strlen", "write", "read"}
Stmts   == {"decl", "decl_fn", "eval", "return", "cond", "free", "asm"}
Kind    == Leaf \cup Unary \cup Binary \cup Marked \cup Calls \cup Stmts \cup {"ternary"}

\* The symbols the generator uses of its own.
Own  == Kind \cup {"", "malloc", "free", "uc_free_mark", "one_more", "one_less", "0", "1", "2", "4", "8"}
Text == Symbols \cup Own
NodeType == [k : Kind, x : Text, ty : UCType \cup LLType, n : Nat, outs : Seq(Text)]

Arity(e) ==
  IF e.k \in Unary \cup (Stmts \ {"asm", "decl_fn"}) THEN 1
  ELSE IF e.k \in Binary THEN 2
  ELSE IF e.k = "ternary" THEN 3
  ELSE IF e.k \in Leaf \cup {"decl_fn"} THEN 0
  ELSE e.n          \* the arguments of a call, the inputs of an asm block

\* What the parser and the maps of the generator make sure of.
LiteralType == {"i32", "double", "i8*"}
WellFormed(p) ==
  /\ p \in Seq(NodeType)
  /\ p # << >> /\ p[1].k \in Stmts
  /\ \A i \in DOMAIN p :
       /\ i > 1 => p[i].k \notin Stmts
       /\ p[i].k = "literal" => p[i].ty \in LiteralType
       /\ p[i].k \in {"alloc", "sizeof", "cast", "decl", "decl_fn", "return"} => p[i].ty \in UCType
       /\ p[i].k \in {"decl", "decl_fn"} => p[i].x \in DOMAIN LocalVars /\ p[i].ty = LocalVars[p[i].x]
       /\ p[i].k = "assign" => p[i].x \in DOMAIN LocalVars \cup DOMAIN GlobalVars
       /\ p[i].k = "assign_to" => i < Len(p) /\ (p[i + 1].k = "ident" =>
            p[i + 1].x \notin DOMAIN LocalVars \cup DOMAIN GlobalVars)
       /\ p[i].k = "decl_fn" => p[i].outs # << >>
       /\ p[i].k = "callptr" => p[i].x \in DOMAIN FnPtrs \cap DOMAIN LocalVars
ASSUME ProgramsAssumption == \A p \in Programs : WellFormed(p)
ASSUME MapsAssumption ==
  /\ LocalVars \in [DOMAIN LocalVars -> UCType] /\ DOMAIN LocalVars \subseteq Symbols
  /\ GlobalVars \in [DOMAIN GlobalVars -> UCType] /\ DOMAIN GlobalVars \subseteq Symbols
  /\ Externs \in [DOMAIN Externs -> UCType]
  /\ FnPtrs \in [DOMAIN FnPtrs -> LLType]
  /\ LeftTypes \subseteq LLType

VARIABLES
  prog,      \* the statement, in prefix notation
  next,      \* the node the next call of gen_expr is given
  stack,     \* the active calls, the innermost last
  lastType,  \* g->last_expr_type
  ntemps,    \* g->temp_counter
  nlabels,   \* g->label_counter
  code,      \* the instructions emitted
  failed     \* was an error reported?

vars == <<prog, next, stack, lastType, ntemps, nlabels, code, failed>>

(***************************************************************************)
(* Operands and instructions.  A temporary and a label are named by their  *)
(* numbers, a variable's storage by the variable.                          *)
(***************************************************************************)
Operand(kind, n, x) == [kind |-> kind, n |-> n, x |-> x]
Temp(n)   == Operand("temp", n, "")
Named(x)  == Operand("named", 0, x)      \* `%x`: a parameter
Local(x)  == Operand("local", 0, x)      \* `%x`: the alloca of a local
Global(x) == Operand("global", 0, x)     \* `@x`
Null      == Operand("null", 0, "")
Const(x)  == Operand("const", 0, x)

Arg(ty, v) == [ty |-> ty, v |-> v]
Ptr(v)     == Arg("i8*", v)

\* An instruction: its result (if any) and the type of it, its operands, the
\* labels it names, what it is about (an operation, a function, a constant).
Ins(op, res, ty, args, to, x) ==
  [op |-> op, res |-> res, ty |-> ty, args |-> args, to |-> to, x |-> x, at |-> 0]
Def(op, t, ty, args, x) == Ins(op, <<t>>, ty, args, << >>, x)
Do(op, args, x)         == Ins(op, << >>, "void", args, << >>, x)
Label(l)                == Ins("label", << >>, "void", << >>, <<l>>, "")
Br(l)                   == Ins("br", << >>, "void", << >>, <<l>>, "")
\* Mutant: the branch goes the other way.
CBrSwapped(at, v, l, m) == [Ins("cbr", << >>, "void", <<Arg("i1", v)>>, <<m, l>>, "") EXCEPT !.at = at]
\* The branch of the conditional expression at a node.
CBr(at, v, l, m)        == [Ins("cbr", << >>, "void", <<Arg("i1", v)>>, <<l, m>>, "") EXCEPT !.at = at]
Store(ty, v, a)         == Do("store", <<Arg(ty, v), Ptr(a)>>, "")
Load(t, ty, a)          == Def("load", t, ty, <<Ptr(a)>>, "")

\* The storage of a variable gen_expr knows, and the type in it.
Known(x)   == x \in DOMAIN LocalVars \cup DOMAIN GlobalVars
VarType(x) == llvm_type[IF x \in DOMAIN LocalVars THEN LocalVars[x] ELSE GlobalVars[x]]
Address(x) == IF x \in DOMAIN LocalVars THEN Local(x) ELSE Global(x)

-----------------------------------------------------------------------------
(***************************************************************************)
(* Calls.  A frame keeps the node, the values its operands have returned   *)
(* (each with the last_expr_type read right after it), the temporary taken *)
(* before the operands, the labels of a conditional expression, how many   *)
(* operands it has dealt with, and whether it wants an address.            *)
(***************************************************************************)
Frame(at, lv, res) ==
  [at |-> at, lv |-> lv, res |-> res, lbl |-> << >>, dealt |-> 0, vals |-> << >>]

Working   == stack # << >>
Top       == stack[Len(stack)]
Below     == SubSeq(stack, 1, Len(stack) - 1)
Op        == prog[Top.at]
Wants     == /\ Working /\ Len(Top.vals) < Arity(Op)
             /\ Op.k = "ternary" => Top.dealt = Len(Top.vals)
Visiting(kinds) == Wants /\ next \in DOMAIN prog /\ prog[next].k \in kinds
Complete(kinds) == Working /\ Op.k \in kinds /\ Len(Top.vals) = Arity(Op)
Node      == prog[next]
Value(i)  == Top.vals[i].v
Type(i)   == Top.vals[i].ty
\* Only the target of an assignment is generated for its address.
WantsAddress == Op.k = "assign_to" /\ Top.vals = << >>

Emit(s) == code' = code \o s
\* Mutant: one of several temporaries is not counted.
MkTempShort(n) == ntemps' = IF n > 1 THEN ntemps + n - 1 ELSE ntemps + n
\* n calls of mk_temp; they return ntemps, ..., ntemps + n - 1.
mk_temp(n) == ntemps' = ntemps + n

\* Mutant: the frame is about the operand.
EnterLate(lv, res) == stack' = Append(stack, Frame(next + 1, lv, res)) /\ next' = next + 1
\* A call with operands begins.
Enter(lv, res) == stack' = Append(stack, Frame(next, lv, res)) /\ next' = next + 1

\* gen_expr returns v to the last of the frames.
ReturnTo(frames, v, ty) ==
  /\ stack' = [frames EXCEPT ![Len(frames)].vals = Append(@, Arg(ty, v))]
  /\ lastType' = ty
ReturnLeaf(v, ty) == ReturnTo(stack, v, ty) /\ next' = next + 1
Return(v, ty)     == ReturnTo(Below, v, ty) /\ next' = next

\* uc_error_set: every active call returns at once.  (A system call forgets
\* the error of an argument; what it emits then is not modelled.)
Fail ==
  /\ failed' = TRUE
  /\ stack' = << >>
  /\ UNCHANGED <<prog, next, lastType, ntemps, nlabels, code>>

Init ==
  /\ prog \in Programs
  /\ next = 1
  /\ stack = << >>
  /\ lastType \in LeftTypes
  /\ ntemps = 0
  /\ nlabels = 0
  /\ code = << >>
  /\ failed = FALSE

\* gen_stmt is given the statement; a declaration has its storage allocated.
GenStmt ==
  /\ next = 1 /\ ~Working /\ ~failed
  /\ Enter(FALSE, 0)
  /\ IF prog[1].k \notin {"decl", "decl_fn"} THEN code' = code
     ELSE Emit(<<Ins("alloca", << >>, llvm_type[prog[1].ty], << >>, << >>, prog[1].x)>>)
  /\ UNCHANGED <<prog, lastType, ntemps, nlabels, failed>>

-----------------------------------------------------------------------------
(***************************************************************************)
(* Expressions without operands.                                           *)
(***************************************************************************)
\* UC_EXPR_LITERAL; sizeof (and alignof, which knows the same types), whose
\* operand is a name and is not generated; UC_EXPR_ALLOC.
GenLiteral ==
  /\ Visiting({"literal", "sizeof", "alloc"})
  /\ \/ /\ Node.k = "literal"
        /\ Emit(<<Def("const", ntemps, Node.ty, << >>, Node.x)>>)
        /\ ReturnLeaf(Temp(ntemps), Node.ty)
     \/ /\ Node.k = "sizeof"
        /\ Emit(<<Def("const", ntemps, "i32", << >>, SizeOf[Node.ty])>>)
        /\ ReturnLeaf(Temp(ntemps), "i32")
     \/ /\ Node.k = "alloc"
        /\ Emit(<<Def("call", ntemps, "i8*", <<Arg("i64", Const(AllocSize[Node.ty]))>>, "malloc")>>)
        /\ ReturnLeaf(Temp(ntemps), "i8*")
  /\ mk_temp(1)
  /\ UNCHANGED <<prog, nlabels, failed>>

\* UC_EXPR_IDENT, a local or global variable.
GenVariable ==
  /\ Visiting({"ident"}) /\ Known(Node.x)
  /\ Emit(<<Load(ntemps, VarType(Node.x), Address(Node.x))>>)
  /\ ReturnLeaf(Temp(ntemps), VarType(Node.x))
  /\ mk_temp(1)
  /\ UNCHANGED <<prog, nlabels, failed>>

\* UC_EXPR_IDENT, a parameter, and UC_EXPR_NULL: no code, and the type of the
\* last expression stays.
GenNamed ==
  /\ Visiting({"ident", "null"})
  /\ Node.k = "ident" => ~Known(Node.x)
  /\ ReturnLeaf(IF Node.k = "null" THEN Null ELSE Named(Node.x), lastType)
  /\ UNCHANGED <<prog, ntemps, nlabels, code, failed>>

\* Fields, elements and the other kinds without a case.
GenUnsupported == Visiting({"unsupported"}) /\ Fail

-----------------------------------------------------------------------------
(***************************************************************************)
(* Expressions with operands are entered ...                               *)
(***************************************************************************)
EnterPlain ==
  /\ Visiting((Unary \ {"assign"}) \cup Binary \cup {"ternary"} \cup Marked)
  /\ Node.k \in Marked => Node.n = 1
  /\ Enter(WantsAddress, 0)
  /\ UNCHANGED <<prog, lastType, ntemps, nlabels, code, failed>>

\* UC_EXPR_ASSIGN to a variable: its type becomes the type of the last
\* expression before the value is generated.
EnterAssign ==
  /\ Visiting({"assign"})
  /\ stack' = Append(stack, Frame(next, FALSE, 0))
  /\ lastType' = VarType(Node.x)
  /\ next' = next + 1
  /\ UNCHANGED <<prog, ntemps, nlabels, code, failed>>

\* UC_EXPR_CALL of a function: its result is named before the arguments.
SysArity == [strlen |-> 1, write |-> 3, read |-> 3]
EnterCall ==
  /\ Visiting(Calls \ {"callptr"})
  /\ Node.k \in DOMAIN SysArity => Node.n = SysArity[Node.k]
  /\ Enter(FALSE, ntemps)
  /\ mk_temp(1)
  /\ UNCHANGED <<prog, lastType, nlabels, code, failed>>

\* UC_EXPR_CALL through a pointer: the pointer is loaded before the arguments.
EnterCallPtr ==
  /\ Visiting({"callptr"})
  /\ Emit(<<Load(ntemps, "i8*", Local(Node.x))>>)
  /\ Enter(FALSE, ntemps)
  /\ mk_temp(1)
  /\ UNCHANGED <<prog, lastType, nlabels, failed>>

\* The wrong number of arguments for an intrinsic or a system call.
EnterWrongCount ==
  /\ Visiting(Marked \cup DOMAIN SysArity)
  /\ Node.n # IF Node.k \in Marked THEN 1 ELSE SysArity[Node.k]
  /\ Fail

-----------------------------------------------------------------------------
(***************************************************************************)
(* ... and finished when their operands are there.                         *)
(***************************************************************************)
\* Mutant: a comparison does not set the type.
BinaryTypeStale(k, last) == IF last = "i8*" THEN "i32" ELSE last
\* UC_EXPR_BINARY.  A comparison sets the type; arithmetic only replaces that
\* of a pointer.
BinaryType(k, last) ==
  IF k = "cmp" THEN "i1" ELSE IF last = "i8*" THEN "i32" ELSE last
FinishBinary ==
  /\ Complete({"arith", "cmp", "logic"})
  /\ Emit(<<Def(Op.k, ntemps, IF Op.k = "cmp" THEN "i1" ELSE "i32",
                <<Arg("i32", Value(1)), Arg("i32", Value(2))>>, Op.x)>>)
  /\ Return(Temp(ntemps), BinaryType(Op.k, lastType))
  /\ mk_temp(1)
  /\ UNCHANGED <<prog, nlabels, failed>>

\* Shifts and bitwise operators reach the default of the switch.
FinishBit == Complete({"bit"}) /\ Fail

\* UC_UN_NEG and UC_UN_NOT.
FinishSign ==
  /\ Complete({"neg", "not"})
  /\ Emit(<<Def(Op.k, ntemps, "i32", <<Arg("i32", Value(1))>>, "")>>)
  /\ Return(Temp(ntemps), lastType)
  /\ mk_temp(1)
  /\ UNCHANGED <<prog, nlabels, failed>>

\* UC_UN_DEREF: as a target its operand is the address, otherwise it is loaded.
FinishDeref ==
  /\ Complete({"deref"})
  /\ IF Top.lv THEN Return(Value(1), lastType) /\ code' = code
     ELSE /\ Emit(<<Load(ntemps, "i32", Value(1))>>)
          /\ Return(Temp(ntemps), lastType)
  /\ mk_temp(1)
  /\ UNCHANGED <<prog, nlabels, failed>>

\* UC_UN_ADDR_OF of a local; what was loaded from it is not used.
OnLocal == prog[Top.at + 1].k = "ident" /\ prog[Top.at + 1].x \in DOMAIN LocalVars
Subject == prog[Top.at + 1].x
FinishAddr ==
  /\ Complete({"addr"}) /\ OnLocal
  /\ Return(Local(Subject), "i8*")
  /\ mk_temp(1)
  /\ UNCHANGED <<prog, nlabels, code, failed>>

\* ++ and --, before and after, of a local.
IsInc == Op.x \in {"pre_inc", "post_inc"}
IsPre == Op.x \in {"pre_inc", "pre_dec"}
FinishInc ==
  /\ Complete({"inc"}) /\ OnLocal
  /\ LET ty  == VarType(Subject)
         res == ntemps  old == ntemps + 1  new == ntemps + 2
     IN  /\ Emit(<<Load(old, ty, Local(Subject)),
                   Def("step", new, ty, <<Arg(ty, Temp(old))>>, IF IsInc THEN "one_more" ELSE "one_less"),
                   Store(ty, Temp(new), Local(Subject)),
                   Def("copy", res, ty, <<Arg(ty, Temp(IF IsPre THEN new ELSE old))>>, "")>>)
         /\ Return(Temp(res), ty)
  /\ mk_temp(3)
  /\ UNCHANGED <<prog, nlabels, failed>>

FinishNotLocal == Complete({"addr", "inc"}) /\ ~OnLocal /\ Fail

\* UC_EXPR_ASSIGN.  The temporary it returns is never defined.
FinishAssign ==
  /\ Complete({"assign", "assign_to"})
  /\ Emit(<<IF Op.k = "assign" THEN Store(lastType, Value(1), Address(Op.x))
                               ELSE Store(lastType, Value(2), Value(1))>>)
  /\ Return(Temp(ntemps), lastType)
  /\ mk_temp(1)
  /\ UNCHANGED <<prog, nlabels, failed>>

(***************************************************************************)
(* UC_EXPR_TERNARY, after its condition, after the first value, and after  *)
(* the second.                                                             *)
(***************************************************************************)
Deal(lbl) == stack' = [stack EXCEPT ![Len(stack)].dealt = Len(Top.vals),
                                    ![Len(stack)].lbl = lbl]
TernaryAt(n) == Working /\ Op.k = "ternary" /\ Len(Top.vals) = n /\ Top.dealt < n

TernaryBranch ==
  /\ TernaryAt(1)
  /\ LET then == nlabels  els == nlabels + 1  join == nlabels + 2
     IN  Emit(<<CBr(Top.at, Value(1), then, els), Label(then)>>) /\ Deal(<<then, els, join>>)
  /\ nlabels' = nlabels + 3
  /\ UNCHANGED <<prog, next, lastType, ntemps, failed>>

TernaryElse ==
  /\ TernaryAt(2)
  /\ Emit(<<Br(Top.lbl[3]), Label(Top.lbl[2])>>)
  /\ Deal(Top.lbl)
  /\ UNCHANGED <<prog, next, lastType, ntemps, nlabels, failed>>

Phi(t, ty, v, w, l, m) == Ins("phi", <<t>>, ty, <<Arg(ty, v), Arg(ty, w)>>, <<l, m>>, "")

TernaryJoin ==
  /\ TernaryAt(3)
  /\ Emit(<<Br(Top.lbl[3]), Label(Top.lbl[3]),
            Phi(ntemps, lastType, Value(2), Value(3), Top.lbl[1], Top.lbl[2])>>)
  /\ Return(Temp(ntemps), lastType)
  /\ mk_temp(1)
  /\ UNCHANGED <<prog, nlabels, failed>>

(***************************************************************************)
(* Calls.                                                                  *)
(***************************************************************************)
CallIns(res, ret, args, f) ==
  IF ret = "void" THEN Do("call", args, f) ELSE Def("call", res, ret, args, f)

\* A direct call; the value of a void one is a temporary nothing defines.
FinishCall ==
  /\ Complete({"call"})
  /\ LET ret == CallRet(Op.x)
     IN  /\ Emit(<<CallIns(Top.res, ret, Top.vals, Op.x)>>)
         /\ Return(Temp(IF ret = "void" THEN ntemps ELSE Top.res), ret)
         /\ mk_temp(IF ret = "void" THEN 1 ELSE 0)
  /\ UNCHANGED <<prog, nlabels, failed>>

FinishCallPtr ==
  /\ Complete({"callptr"})
  /\ Emit(<<CallIns(ntemps, FnPtrs[Op.x], <<Ptr(Temp(Top.res))>> \o Top.vals, Op.x)>>)
  /\ Return(Temp(ntemps), FnPtrs[Op.x])
  /\ mk_temp(1)
  /\ UNCHANGED <<prog, nlabels, failed>>

\* gen_syscall_call: sys$strlen, sys$write (which widens an i32 length) and
\* sys$read.
FinishSys ==
  /\ Complete(DOMAIN SysArity)
  /\ LET widen == Op.k = "write" /\ lastType = "i32"
         size  == IF widen THEN Temp(ntemps) ELSE Value(3)
     IN  /\ Emit(IF Op.k = "strlen"
                 THEN <<Def("call", Top.res, "i64", <<Ptr(Value(1))>>, "strlen")>>
                 ELSE (IF widen THEN <<Def("sext", ntemps, "i64", <<Arg("i32", Value(3))>>, "")>>
                                ELSE << >>)
                      \o <<Def("call", Top.res, "i64",
                               <<Arg("i32", Value(1)), Ptr(Value(2)), Arg("i64", size)>>, Op.k)>>)
         /\ mk_temp(IF widen THEN 1 ELSE 0)
  /\ Return(Temp(Top.res), "i64")
  /\ UNCHANGED <<prog, nlabels, failed>>

\* emit_is_null_intrinsic, emit_mod_enter, emit_unmod_exit, emit_move_call,
\* emit_clone_call, emit_uc_abs_call: the type of the operand is fixed.
MarkedType == [is_null |-> "i1", mod |-> "void", unmod |-> "void",
               move |-> "i8*", clone |-> "i8*", abs_int |-> "i32"]
FinishMarked ==
  /\ Complete(Marked)
  /\ LET ret == MarkedType[Op.k]
         arg == <<Arg(IF Op.k = "abs_int" THEN "i32" ELSE "i8*", Value(1))>>
     IN  /\ Emit(<<IF Op.k = "is_null" THEN Def("is_null", ntemps, ret, arg, "")
                                       ELSE CallIns(ntemps, ret, arg, Op.k)>>)
         /\ Return(Temp(ntemps), ret)
  /\ mk_temp(1)
  /\ UNCHANGED <<prog, nlabels, failed>>

\* UC_EXPR_CAST: the instruction depends on the type of the last expression.
Starts == {"i1", "i32", "i64", "i8*"}     \* the types spelt with an "i" first
CastOp(src, dst) ==
  IF src = dst THEN "none"
  ELSE IF src = "i8*" /\ dst \in Starts THEN "ptrtoint"
  ELSE IF src \in Starts /\ dst = "i8*" THEN "inttoptr"
  ELSE IF src = "i32" /\ dst = "i64" THEN "sext"
  ELSE IF src = "i64" /\ dst = "i32" THEN "trunc"
  ELSE IF src \in Starts /\ dst \in {"float", "double"} THEN "sitofp"
  ELSE "bitcast"
FinishCast ==
  /\ Complete({"cast"})
  /\ LET dst == llvm_type[Op.ty]
         op  == CastOp(lastType, dst)
     IN  IF op = "none" THEN Return(Value(1), dst) /\ code' = code
         ELSE /\ Emit(<<Def(op, ntemps, dst, <<Arg(lastType, Value(1))>>, "")>>)
              /\ Return(Temp(ntemps), dst)
  /\ mk_temp(1)
  /\ UNCHANGED <<prog, nlabels, failed>>

-----------------------------------------------------------------------------
(***************************************************************************)
(* The statements that use a value.                                        *)
(***************************************************************************)
Finish(s, n) ==
  /\ Emit(s)
  /\ mk_temp(n)
  /\ stack' = << >>
  /\ UNCHANGED <<prog, next, lastType, nlabels, failed>>

\* UC_STMT_DECL: an i1 is widened and an i64 cut to fit an i32.
DeclOp(src, dst) ==
  IF src = "i1" /\ dst = "i32" THEN "zext"
  ELSE IF src = "i64" /\ dst = "i32" THEN "trunc" ELSE "mismatch"
FinishDecl ==
  /\ Complete({"decl"})
  /\ LET dst == llvm_type[Op.ty]
         op  == DeclOp(lastType, dst)
     IN  IF lastType = dst THEN Finish(<<Store(dst, Value(1), Local(Op.x))>>, 0)
         ELSE IF op = "mismatch" THEN Fail
         ELSE Finish(<<Def(op, ntemps, "i32", <<Arg(lastType, Value(1))>>, ""),
                       Store("i32", Temp(ntemps), Local(Op.x))>>, 1)

\* The address of a function is stored as it is (Op.outs names it).
FinishDeclFn ==
  Complete({"decl_fn"}) /\ Finish(<<Store("i8*", Global(Op.outs[1]), Local(Op.x))>>, 0)

\* UC_STMT_EXPR.
FinishEval == Complete({"eval"}) /\ Finish(<< >>, 0)

\* UC_STMT_RETURN, in a function that returns Op.ty.
FinishReturn ==
  /\ Complete({"return"})
  /\ Finish(<<IF Op.ty = "void" THEN Do("ret", << >>, "")
              ELSE Do("ret", <<Arg(llvm_type[Op.ty], Value(1))>>, "")>>, 0)

\* The condition of an if, a while or a for.
FinishCond == Complete({"cond"}) /\ Finish(<<Do("test", <<Arg("i1", Value(1))>>, "")>>, 0)

\* emit_free_call.
FinishFree ==
  /\ Complete({"free"})
  /\ Finish(<<Do("call", <<Ptr(Value(1))>>, "free"), Do("call", <<Ptr(Value(1))>>, "uc_free_mark")>>, 0)

\* emit_asm_block: the inputs are operands; one result, of the type of the
\* first output, is stored in every output.
AsmOuts    == Op.outs
AsmOutsOK  == \A i \in DOMAIN AsmOuts : Known(AsmOuts[i])
AsmResult  == IF Known(AsmOuts[1]) THEN VarType(AsmOuts[1]) ELSE "i32"
FinishAsm ==
  /\ Complete({"asm"})
  /\ IF AsmOuts = << >> THEN Finish(<<Do("asm", Top.vals, "")>>, 0)
     ELSE IF ~AsmOutsOK THEN Fail
     ELSE Finish(<<Def("asm", ntemps, AsmResult, Top.vals, "")>>
                 \o [i \in DOMAIN AsmOuts |->
                       Store(VarType(AsmOuts[i]), Temp(ntemps), Address(AsmOuts[i]))], 1)

Next ==
  \/ GenStmt \/ GenLiteral \/ GenVariable \/ GenNamed \/ GenUnsupported
  \/ EnterPlain \/ EnterAssign \/ EnterCall \/ EnterCallPtr \/ EnterWrongCount
  \/ FinishBinary \/ FinishBit \/ FinishSign \/ FinishDeref \/ FinishAddr \/ FinishInc
  \/ FinishNotLocal \/ FinishAssign \/ TernaryBranch \/ TernaryElse \/ TernaryJoin
  \/ FinishCall \/ FinishCallPtr \/ FinishSys \/ FinishMarked \/ FinishCast
  \/ FinishDecl \/ FinishDeclFn \/ FinishEval \/ FinishReturn \/ FinishCond \/ FinishFree \/ FinishAsm

Spec == Init /\ [][Next]_vars

-----------------------------------------------------------------------------
Opcode      == Kind \cup {"alloca", "const", "load", "store", "label", "br", "cbr", "phi", "step", "copy", "test", "ret",
                          "sext", "zext", "trunc", "ptrtoint", "inttoptr", "sitofp", "bitcast"}
OperandType == [kind : {"temp", "named", "local", "global", "null", "const"}, n : Nat, x : Text]
ArgType     == [ty : LLType, v : OperandType]
InsType     == [op : Opcode, res : Seq(Nat), ty : LLType, args : Seq(ArgType),
                to : Seq(Nat), x : Text, at : Nat]
FrameType   == [at : Nat, lv : BOOLEAN, res : Nat, lbl : Seq(Nat), dealt : Nat, vals : Seq(ArgType)]

\* Every variable has a value of its type; the frames are about nodes of the
\* statement.
TypeOK ==
  /\ WellFormed(prog)
  /\ next \in Nat
  /\ stack \in Seq(FrameType)
  /\ \A i \in DOMAIN stack : stack[i].at \in DOMAIN prog
  /\ lastType \in LLType
  /\ ntemps \in Nat
  /\ nlabels \in Nat
  /\ code \in Seq(InsType)
  /\ failed \in BOOLEAN

\* No temporary is defined by two instructions, although a call is given its
\* name before its arguments are generated and its definition emitted after
\* them.  (codegen.c: mk_temp and its callers.)
DefinedOnce ==
  \A i, j \in DOMAIN code : code[i].res # << >> /\ code[i].res = code[j].res => i = j

=============================================================================
