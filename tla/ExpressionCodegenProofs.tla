----------------------- MODULE ExpressionCodegenProofs -----------------------
(***************************************************************************)
(* For every statement, whatever its size: the generator's state is well   *)
(* typed, and no two instructions define the same temporary.               *)
(*                                                                         *)
(* A call takes the name of its result before its arguments are generated  *)
(* and defines it after them, so a name may be pending for a long time.    *)
(* The invariant says that the names of the instructions are below the     *)
(* counter, and that those of pending calls are too, are all different and *)
(* are not defined yet.                                                    *)
(***************************************************************************)
EXTENDS ExpressionCodegen, SequenceTheorems, TLAPS

-----------------------------------------------------------------------------
(***************************************************************************)
(* Types and operators.                                                    *)
(***************************************************************************)
LEMMA llvm_type_Type == \A t \in UCType : llvm_type[t] \in LLType
BY DEF llvm_type, LLType, UCType

LEMMA ExternRetType == \A t \in UCType : ExternRet[t] \in LLType
BY llvm_type_Type DEF ExternRet, LLType

LEMMA CallRetType == ASSUME NEW f PROVE CallRet(f) \in LLType
<1>1. CASE f \in DOMAIN BuiltinRet
  BY <1>1 DEF CallRet, BuiltinRet, LLType
<1>2. CASE f \notin DOMAIN BuiltinRet /\ f \in DOMAIN Externs
  <2>1. Externs[f] \in UCType
    BY <1>2, MapsAssumption
  <2> QED BY <1>2, <2>1, ExternRetType DEF CallRet
<1>3. CASE f \notin DOMAIN BuiltinRet /\ f \notin DOMAIN Externs
  BY <1>3 DEF CallRet, LLType
<1> QED BY <1>1, <1>2, <1>3

LEMMA VarTypes ==
  ASSUME NEW x, Known(x)
  PROVE  x \in Text /\ VarType(x) \in LLType /\ Address(x) \in OperandType
<1>1. CASE x \in DOMAIN LocalVars
  <2>1. x \in Text /\ LocalVars[x] \in UCType
    BY <1>1, MapsAssumption DEF Text
  <2> QED BY <1>1, <2>1, llvm_type_Type DEF VarType, Address, Local, Operand, OperandType
<1>2. CASE x \notin DOMAIN LocalVars /\ x \in DOMAIN GlobalVars
  <2>1. x \in Text /\ GlobalVars[x] \in UCType
    BY <1>2, MapsAssumption DEF Text
  <2> QED BY <1>2, <2>1, llvm_type_Type DEF VarType, Address, Global, Operand, OperandType
<1> QED BY <1>1, <1>2 DEF Known

LEMMA LocalTypes ==
  ASSUME NEW x \in DOMAIN LocalVars
  PROVE  x \in Text /\ VarType(x) \in LLType /\ Local(x) \in OperandType
<1>1. Known(x)
  BY DEF Known
<1> QED BY <1>1, VarTypes DEF Local, Operand, OperandType

LEMMA OwnSymbols ==
  /\ {"", "malloc", "free", "uc_free_mark", "one_more", "one_less", "0", "1", "2", "4", "8"} \subseteq Text
  /\ Kind \subseteq Text
BY DEF Text, Own

LEMMA LLTypes == {"void", "i1", "i32", "i64", "float", "double", "i8*"} \subseteq LLType
BY DEF LLType

LEMMA Opcodes ==
  /\ {"alloca", "const", "load", "store", "label", "br", "cbr", "phi", "step", "copy", "test", "ret",
      "sext", "zext", "trunc", "ptrtoint", "inttoptr", "sitofp", "bitcast"} \subseteq Opcode
  /\ Kind \subseteq Opcode
BY DEF Opcode

LEMMA KindNames ==
  /\ Leaf \cup Unary \cup Binary \cup Marked \cup Calls \cup Stmts \subseteq Kind
  /\ {"call", "callptr", "strlen", "write", "read", "asm", "free", "return", "is_null", "ternary"} \subseteq Kind
  /\ {"arith", "cmp", "logic", "neg", "not"} \subseteq Kind
BY DEF Kind, Leaf, Unary, Binary, Marked, Calls, Stmts

LEMMA OperandTypes ==
  /\ \A n \in Nat : Temp(n) \in OperandType
  /\ \A x \in Text : Named(x) \in OperandType /\ Local(x) \in OperandType
                       /\ Global(x) \in OperandType /\ Const(x) \in OperandType
  /\ Null \in OperandType
BY OwnSymbols DEF Temp, Named, Local, Global, Const, Null, Operand, OperandType

LEMMA ArgTypes == ASSUME NEW ty \in LLType, NEW v \in OperandType PROVE Arg(ty, v) \in ArgType
BY DEF Arg, ArgType

LEMMA PtrTypes == ASSUME NEW v \in OperandType PROVE Ptr(v) \in ArgType
BY LLTypes DEF Ptr, Arg, ArgType

-----------------------------------------------------------------------------
(***************************************************************************)
(* Instructions.                                                           *)
(***************************************************************************)
LEMMA DefTypes ==
  ASSUME NEW op \in Opcode, NEW t \in Nat, NEW ty \in LLType, NEW args \in Seq(ArgType), NEW x \in Text
  PROVE  Def(op, t, ty, args, x) \in InsType /\ Def(op, t, ty, args, x).res = <<t>>
BY DEF Def, Ins, InsType

LEMMA DoTypes ==
  ASSUME NEW op \in Opcode, NEW args \in Seq(ArgType), NEW x \in Text
  PROVE  Do(op, args, x) \in InsType /\ Do(op, args, x).res = << >>
BY LLTypes DEF Do, Ins, InsType

LEMMA StoreTypes ==
  ASSUME NEW ty \in LLType, NEW v \in OperandType, NEW a \in OperandType
  PROVE  Store(ty, v, a) \in InsType /\ Store(ty, v, a).res = << >>
<1>1. <<Arg(ty, v), Ptr(a)>> \in Seq(ArgType)
  BY ArgTypes, PtrTypes
<1> QED BY <1>1, DoTypes, Opcodes, OwnSymbols DEF Store

LEMMA LoadTypes ==
  ASSUME NEW t \in Nat, NEW ty \in LLType, NEW a \in OperandType
  PROVE  Load(t, ty, a) \in InsType /\ Load(t, ty, a).res = <<t>>
<1>1. <<Ptr(a)>> \in Seq(ArgType)
  BY PtrTypes
<1>2. "load" \in Opcode /\ "" \in Text
  BY Opcodes, OwnSymbols
<1> QED BY <1>1, <1>2, DefTypes DEF Load

\* What holds of every instruction without a result and with a label.
LEMMA JumpTypes ==
  ASSUME NEW op \in {"label", "br", "cbr"}, NEW args \in Seq(ArgType), NEW to \in Seq(Nat)
  PROVE  /\ Ins(op, << >>, "void", args, to, "") \in InsType
         /\ Ins(op, << >>, "void", args, to, "").res = << >>
<1>1. op \in Opcode /\ "" \in Text /\ "void" \in LLType
  BY Opcodes, OwnSymbols, LLTypes
<1>2. << >> \in Seq(Nat)
  OBVIOUS
<1> QED BY <1>1, <1>2 DEF Ins, InsType

LEMMA LabelTypes ==
  ASSUME NEW l \in Nat
  PROVE  Label(l) \in InsType /\ Label(l).res = << >> /\ Br(l) \in InsType /\ Br(l).res = << >>
<1>1. <<l>> \in Seq(Nat) /\ << >> \in Seq(ArgType)
  OBVIOUS
<1> QED BY <1>1, JumpTypes DEF Label, Br

LEMMA CBrTypes ==
  ASSUME NEW l \in Nat, NEW m \in Nat, NEW at \in Nat, NEW v \in OperandType
  PROVE  CBr(at, v, l, m) \in InsType /\ CBr(at, v, l, m).res = << >>
<1>1. "i1" \in LLType
  BY LLTypes
<1>2. <<Arg("i1", v)>> \in Seq(ArgType) /\ <<l, m>> \in Seq(Nat)
  BY <1>1, ArgTypes
<1> DEFINE c == Ins("cbr", << >>, "void", <<Arg("i1", v)>>, <<l, m>>, "")
<1>3. c \in InsType /\ c.res = << >>
  BY <1>2, JumpTypes
<1>4. CBr(at, v, l, m) = [c EXCEPT !.at = at]
  BY DEF CBr
<1> HIDE DEF c
<1> QED BY <1>3, <1>4 DEF InsType

LEMMA PhiTypes ==
  ASSUME NEW t \in Nat, NEW ty \in LLType, NEW v \in OperandType, NEW w \in OperandType,
         NEW l \in Nat, NEW m \in Nat
  PROVE  Phi(t, ty, v, w, l, m) \in InsType /\ Phi(t, ty, v, w, l, m).res = <<t>>
<1>1. <<Arg(ty, v), Arg(ty, w)>> \in Seq(ArgType)
  BY ArgTypes
<1>2. "phi" \in Opcode /\ "" \in Text
  BY Opcodes, OwnSymbols
<1>3. <<l, m>> \in Seq(Nat) /\ <<t>> \in Seq(Nat)
  OBVIOUS
<1> QED BY <1>1, <1>2, <1>3 DEF Phi, Ins, InsType

LEMMA CallInsTypes ==
  ASSUME NEW t \in Nat, NEW ret \in LLType, NEW args \in Seq(ArgType), NEW f \in Text
  PROVE  /\ CallIns(t, ret, args, f) \in InsType
         /\ ret = "void" => CallIns(t, ret, args, f).res = << >>
         /\ ret # "void" => CallIns(t, ret, args, f).res = <<t>>
<1>1. "call" \in Opcode
  BY Opcodes, KindNames
<1>2. Do("call", args, f) \in InsType /\ Do("call", args, f).res = << >>
  BY <1>1, DoTypes
<1>3. Def("call", t, ret, args, f) \in InsType /\ Def("call", t, ret, args, f).res = <<t>>
  BY <1>1, DefTypes
<1> QED BY <1>2, <1>3 DEF CallIns

-----------------------------------------------------------------------------
(***************************************************************************)
(* The inductive invariant.                                                *)
(***************************************************************************)
\* What holds of every frame: an intrinsic or a system call has its number of
\* arguments, a conditional expression is at most one value ahead of the
\* branches emitted for it.
FrameOK(f) ==
  /\ f \in FrameType /\ f.at \in DOMAIN prog
  /\ prog[f.at].k \in DOMAIN SysArity => prog[f.at].n = SysArity[prog[f.at].k]
  /\ prog[f.at].k \in Marked => prog[f.at].n = 1
  /\ prog[f.at].k = "ternary" => Len(f.vals) <= f.dealt + 1
  /\ f.dealt > 0 => Len(f.lbl) = 3

\* A frame that is waiting for its next operand has dealt with the others.
Waits(f) == prog[f.at].k = "ternary" => f.dealt = Len(f.vals)

StackOK(st) ==
  /\ st \in Seq(FrameType)
  /\ \A i \in 1..Len(st) : FrameOK(st[i]) /\ (i < Len(st) => Waits(st[i]))

\* The results of the instructions s are in the set R, and no two are equal.
ResultsIn(s, R) ==
  /\ s \in Seq(InsType)
  /\ \A i \in 1..Len(s) : s[i].res # << >> => \E t \in R : s[i].res = <<t>>
  /\ \A i, j \in 1..Len(s) : s[i].res # << >> /\ s[i].res = s[j].res => i = j

\* A call whose result is named and not yet defined.
Pending(f) == prog[f.at].k \in {"call"} \cup DOMAIN SysArity
Undefined(t, c) == \A j \in 1..Len(c) : c[j].res # <<t>>
Reserved(st, c, n) ==
  /\ \A i \in 1..Len(st) : Pending(st[i]) => st[i].res < n /\ Undefined(st[i].res, c)
  /\ \A i, j \in 1..Len(st) : Pending(st[i]) /\ Pending(st[j]) /\ st[i].res = st[j].res => i = j

IInv ==
  /\ TypeOK
  /\ StackOK(stack)
  /\ ResultsIn(code, 0..(ntemps - 1))
  /\ Reserved(stack, code, ntemps)

-----------------------------------------------------------------------------
(***************************************************************************)
(* What a step does to the code and to the frames.                         *)
(***************************************************************************)
LEMMA Ranges ==
  \A m, n \in Nat : m <= n => 0..(m - 1) \subseteq 0..(n - 1) /\ m..(n - 1) \subseteq 0..(n - 1)
OBVIOUS

LEMMA Singletons == \A t, u : <<t>> # << >> /\ (<<t>> = <<u>> => t = u)
<1> TAKE t, u
<1>1. Len(<<t>>) = 1 /\ Len(<< >>) = 0 /\ <<t>>[1] = t /\ <<u>>[1] = u
  OBVIOUS
<1> QED BY <1>1

LEMMA OnlyIn ==
  ASSUME NEW s, NEW R, ResultsIn(s, R), NEW t, t \notin R
  PROVE  Undefined(t, s)
<1> SUFFICES ASSUME NEW j \in 1..Len(s), s[j].res = <<t>> PROVE FALSE
  BY DEF Undefined
<1>1. PICK u \in R : s[j].res = <<u>>
  BY Singletons DEF ResultsIn
<1> QED BY <1>1, Singletons

LEMMA Concatenation ==
  ASSUME NEW c, NEW s, NEW R, NEW Q, ResultsIn(c, R), ResultsIn(s, Q),
         \A t \in Q : Undefined(t, c)
  PROVE  ResultsIn(c \o s, R \cup Q)
<1> DEFINE d == c \o s
<1>1. c \in Seq(InsType) /\ s \in Seq(InsType)
  BY DEF ResultsIn
<1>2. /\ d \in Seq(InsType) /\ Len(d) = Len(c) + Len(s)
      /\ Len(c) \in Nat /\ Len(s) \in Nat
      /\ \A i \in 1..Len(d) : d[i] = IF i <= Len(c) THEN c[i] ELSE s[i - Len(c)]
  BY <1>1, ConcatProperties, LenProperties
<1> HIDE DEF d
<1>3. ASSUME NEW i \in 1..Len(d)
      PROVE  \/ i \in 1..Len(c) /\ d[i] = c[i]
             \/ i - Len(c) \in 1..Len(s) /\ d[i] = s[i - Len(c)]
  BY <1>2
<1>4. \A i \in 1..Len(d) : d[i].res # << >> => \E t \in R \cup Q : d[i].res = <<t>>
  BY <1>3 DEF ResultsIn
<1>5. ASSUME NEW i \in 1..Len(c), NEW k \in 1..Len(s), s[k].res # << >>
      PROVE  c[i].res # s[k].res
  <2>1. PICK t \in Q : s[k].res = <<t>>
    BY <1>5 DEF ResultsIn
  <2> QED BY <2>1 DEF Undefined
<1>6. ASSUME NEW i \in 1..Len(d), NEW j \in 1..Len(d), d[i].res # << >>, d[i].res = d[j].res
      PROVE  i = j
  <2>1. CASE i \in 1..Len(c) /\ d[i] = c[i] /\ j \in 1..Len(c) /\ d[j] = c[j]
    BY <1>6, <2>1 DEF ResultsIn
  <2>2. CASE /\ i - Len(c) \in 1..Len(s) /\ d[i] = s[i - Len(c)]
             /\ j - Len(c) \in 1..Len(s) /\ d[j] = s[j - Len(c)]
    <3>1. i - Len(c) = j - Len(c)
      BY <1>6, <2>2 DEF ResultsIn
    <3> QED BY <3>1, <1>2
  <2>3. CASE i \in 1..Len(c) /\ d[i] = c[i] /\ j - Len(c) \in 1..Len(s) /\ d[j] = s[j - Len(c)]
    BY <1>6, <2>3, <1>5
  <2>4. CASE j \in 1..Len(c) /\ d[j] = c[j] /\ i - Len(c) \in 1..Len(s) /\ d[i] = s[i - Len(c)]
    BY <1>6, <2>4, <1>5
  <2> QED BY <1>3, <2>1, <2>2, <2>3, <2>4
<1> QED BY <1>2, <1>4, <1>6 DEF ResultsIn, d

\* The pending frames of a new stack were there before, in the same places.
Keeps(new, old) ==
  \A i \in 1..Len(new) : Pending(new[i]) =>
    i \in 1..Len(old) /\ Pending(old[i]) /\ new[i].res = old[i].res

\* The results a step may define: new ones, and those in `owed`, named before
\* and no longer pending after the step.
Owed(owed, new) ==
  /\ owed \subseteq 0..(ntemps - 1)
  /\ \A t \in owed : Undefined(t, code)
  /\ \A t \in owed : \A i \in 1..Len(new) : Pending(new[i]) => new[i].res # t

\* A step other than EnterCall.
StepTo(s, owed) ==
  /\ prog' = prog /\ next' \in Nat /\ lastType' \in LLType /\ nlabels' \in Nat
  /\ failed' \in BOOLEAN
  /\ ntemps' \in Nat /\ ntemps <= ntemps'
  /\ code' = code \o s
  /\ ResultsIn(s, owed \cup (ntemps..(ntemps' - 1)))
  /\ StackOK(stack') /\ Keeps(stack', stack) /\ Owed(owed, stack')

LEMMA Step == ASSUME IInv, NEW s, NEW owed, StepTo(s, owed) PROVE IInv'
<1> DEFINE new == owed \cup (ntemps..(ntemps' - 1))
<1>1. ntemps \in Nat /\ ntemps' \in Nat /\ ntemps <= ntemps' /\ owed \subseteq 0..(ntemps - 1)
  BY DEF IInv, TypeOK, StepTo, Owed
<1>2. ASSUME NEW t \in ntemps..(ntemps' - 1) PROVE Undefined(t, code)
  <2>1. t \notin 0..(ntemps - 1)
    BY <1>1
  <2>2. ResultsIn(code, 0..(ntemps - 1))
    BY DEF IInv
  <2> QED BY <2>1, <2>2, OnlyIn
<1>3. \A t \in new : Undefined(t, code)
  BY <1>2 DEF StepTo, Owed
<1>4. ResultsIn(code, 0..(ntemps - 1)) /\ ResultsIn(s, new)
  BY DEF IInv, StepTo
<1> HIDE DEF new
<1>5. ResultsIn(code', (0..(ntemps - 1)) \cup new)
  BY <1>3, <1>4, Concatenation DEF StepTo
<1>6. (0..(ntemps - 1)) \cup new \subseteq 0..(ntemps' - 1)
  <2>1. ntemps \in Nat /\ ntemps' \in Nat /\ ntemps <= ntemps'
    BY <1>1
  <2> QED BY <2>1, <1>1, Ranges DEF new
<1>7. ResultsIn(code', 0..(ntemps' - 1))
  BY <1>5, <1>6 DEF ResultsIn
<1>8. ASSUME NEW i \in 1..Len(stack'), Pending(stack'[i])
      PROVE  stack'[i].res < ntemps' /\ Undefined(stack'[i].res, code')
  <2>1. /\ i \in 1..Len(stack) /\ Pending(stack[i]) /\ stack'[i].res = stack[i].res
    BY <1>8 DEF StepTo, Keeps
  <2>2. stack[i].res < ntemps /\ Undefined(stack[i].res, code)
    BY <2>1 DEF IInv, Reserved
  <2>3. stack[i].res \in Nat
    BY <2>1 DEF IInv, StackOK, FrameOK, FrameType
  <2>4. stack[i].res \notin new
    BY <1>8, <2>1, <2>2, <2>3, <1>1 DEF new, StepTo, Owed
  <2>5. Undefined(stack[i].res, s)
    BY <2>4, <1>4, OnlyIn
  <2>6. s \in Seq(InsType) /\ code \in Seq(InsType)
    BY <1>4 DEF ResultsIn
  <2>7. ASSUME NEW j \in 1..Len(code') PROVE code'[j].res # <<stack[i].res>>
    <3>1. \/ j \in 1..Len(code) /\ code'[j] = code[j]
          \/ j - Len(code) \in 1..Len(s) /\ code'[j] = s[j - Len(code)]
      BY <2>6, ConcatProperties, LenProperties DEF StepTo
    <3> QED BY <3>1, <2>2, <2>5 DEF Undefined
  <2> QED BY <2>1, <2>2, <2>3, <2>7, <1>1 DEF Undefined
<1>9. ASSUME NEW i \in 1..Len(stack'), NEW j \in 1..Len(stack'), Pending(stack'[i]), Pending(stack'[j]),
             stack'[i].res = stack'[j].res
      PROVE  i = j
  BY <1>9 DEF StepTo, Keeps, IInv, Reserved
<1>10. Reserved(stack', code', ntemps')
  BY <1>8, <1>9 DEF Reserved
<1>11. prog' = prog
  BY DEF StepTo
<1>12. StackOK(stack)'
  BY <1>11 DEF StepTo, StackOK, FrameOK, Waits
<1>13. Reserved(stack, code, ntemps)'
  BY <1>10, <1>11 DEF Reserved, Pending, Undefined
<1>14. ResultsIn(code, 0..(ntemps - 1))'
  BY <1>7 DEF ResultsIn
<1>15. TypeOK'
  <2>1. \A i \in DOMAIN stack' : stack'[i].at \in DOMAIN prog'
    BY <1>12, LenProperties DEF StackOK, FrameOK
  <2>2. WellFormed(prog)'
    BY <1>11 DEF IInv, TypeOK, WellFormed
  <2> QED BY <2>1, <2>2, <1>1, <1>12, <1>14 DEF StepTo, TypeOK, StackOK, ResultsIn
<1> QED BY <1>12, <1>13, <1>14, <1>15 DEF IInv

-----------------------------------------------------------------------------
(***************************************************************************)
(* Frames.                                                                 *)
(***************************************************************************)
LEMMA NodeFacts ==
  ASSUME IInv, NEW i \in DOMAIN prog
  PROVE  /\ prog[i] \in NodeType
         /\ prog[i].x \in Text /\ prog[i].n \in Nat /\ prog[i].outs \in Seq(Text) /\ prog[i].k \in Kind
         /\ i \in Nat
<1>1. prog \in Seq(NodeType)
  BY DEF IInv, TypeOK, WellFormed
<1>2. prog[i] \in NodeType /\ i \in Nat
  BY <1>1, LenProperties
<1> QED BY <1>2 DEF NodeType

LEMMA TopFacts ==
  ASSUME IInv, Working
  PROVE  /\ Len(stack) \in Nat /\ Len(stack) > 0 /\ Len(stack) \in 1..Len(stack)
         /\ FrameOK(Top) /\ Top \in FrameType /\ Top.at \in DOMAIN prog
         /\ Top.res \in Nat /\ Top.lbl \in Seq(Nat) /\ Top.vals \in Seq(ArgType)
         /\ Len(Top.vals) \in Nat /\ Top.dealt \in Nat
<1>1. stack \in Seq(FrameType)
  BY DEF IInv, StackOK
<1>2. Len(stack) \in Nat /\ Len(stack) > 0
  BY <1>1, EmptySeq, LenProperties DEF Working
<1>3. FrameOK(Top)
  BY <1>2 DEF IInv, StackOK, Top
<1>4. Top \in FrameType /\ Top.at \in DOMAIN prog
  BY <1>3 DEF FrameOK
<1>5. Top.vals \in Seq(ArgType) /\ Top.res \in Nat /\ Top.lbl \in Seq(Nat) /\ Top.dealt \in Nat
  BY <1>4 DEF FrameType
<1> QED BY <1>2, <1>3, <1>4, <1>5, LenProperties

LEMMA ValueFacts ==
  ASSUME IInv, Working, NEW i \in 1..Len(Top.vals)
  PROVE  Value(i) \in OperandType /\ Type(i) \in LLType
<1>1. Top.vals[i] \in ArgType
  BY TopFacts, ElementOfSeq
<1> QED BY <1>1 DEF Value, Type, ArgType

\* Frames that all wait for an operand.
AllWait(st) == StackOK(st) /\ \A i \in 1..Len(st) : Waits(st[i])

LEMMA BelowWait ==
  ASSUME IInv, Working
  PROVE  /\ AllWait(Below) /\ Len(Below) = Len(stack) - 1
         /\ \A i \in 1..Len(Below) : i \in 1..Len(stack) /\ i # Len(stack) /\ Below[i] = stack[i]
<1>1. stack \in Seq(FrameType)
  BY DEF IInv, StackOK
<1>2. Len(stack) \in Nat /\ Len(stack) > 0
  BY TopFacts
<1> DEFINE n == Len(stack) - 1
<1>3. n \in Int /\ 1 \in Int /\ n >= 0 /\ \A i \in 1..n : stack[i] \in FrameType
  BY <1>1, <1>2, ElementOfSeq
<1>4. /\ Below \in Seq(FrameType)
      /\ Len(Below) = IF 1 <= n THEN n - 1 + 1 ELSE 0
      /\ \A i \in 1..n - 1 + 1 : Below[i] = stack[1 + i - 1]
  <2> HIDE DEF n
  <2>1. Below = SubSeq(stack, 1, n)
    BY DEF Below, n
  <2> QED BY <1>3, <2>1, SubSeqProperties
<1>6. Len(Below) = Len(stack) - 1
  <2>1. \A m \in Int : m >= 0 => (IF 1 <= m THEN m - 1 + 1 ELSE 0) = m
    OBVIOUS
  <2>2. Len(Below) = n
    <3> HIDE DEF n
    <3> QED BY <1>3, <1>4, <2>1
  <2> QED BY <2>2
<1>7. \A i \in 1..Len(Below) : i \in 1..Len(stack) /\ i # Len(stack) /\ i < Len(stack) /\ Below[i] = stack[i]
  BY <1>2, <1>4, <1>6
<1>5. \A i \in 1..Len(Below) : FrameOK(Below[i]) /\ Waits(Below[i])
  BY <1>7 DEF IInv, StackOK
<1> QED BY <1>4, <1>5, <1>6, <1>7 DEF AllWait, StackOK

LEMMA WantsWait == ASSUME IInv, Wants PROVE AllWait(stack)
<1>1. stack \in Seq(FrameType) /\ Len(stack) \in Nat
  BY TopFacts DEF IInv, StackOK, Wants
<1>2. Waits(stack[Len(stack)])
  BY DEF Wants, Waits, Top, Op
<1>3. ASSUME NEW i \in 1..Len(stack) PROVE Waits(stack[i])
  <2>1. i < Len(stack) \/ i = Len(stack)
    BY <1>1
  <2> QED BY <2>1, <1>2 DEF IInv, StackOK
<1> QED BY <1>3 DEF AllWait, IInv

LEMMA PushFrame ==
  ASSUME NEW st, AllWait(st), NEW f, FrameOK(f)
  PROVE  /\ StackOK(Append(st, f)) /\ Len(Append(st, f)) = Len(st) + 1 /\ Len(st) \in Nat
         /\ \A i \in 1..Len(st) : Append(st, f)[i] = st[i]
         /\ Append(st, f)[Len(st) + 1] = f
<1>1. st \in Seq(FrameType) /\ f \in FrameType
  BY DEF AllWait, StackOK, FrameOK
<1>2. Len(st) \in Nat
  BY <1>1, LenProperties
<1>3. /\ Append(st, f) \in Seq(FrameType) /\ Len(Append(st, f)) = Len(st) + 1
      /\ \A i \in 1..Len(st) : Append(st, f)[i] = st[i]
      /\ Append(st, f)[Len(st) + 1] = f
  BY <1>1, AppendProperties
<1>4. ASSUME NEW i \in 1..Len(Append(st, f))
      PROVE  FrameOK(Append(st, f)[i]) /\ (i < Len(Append(st, f)) => Waits(Append(st, f)[i]))
  <2>1. i \in 1..Len(st) \/ i = Len(st) + 1
    BY <1>2, <1>3
  <2> QED BY <2>1, <1>2, <1>3 DEF AllWait, StackOK
<1> QED BY <1>2, <1>3, <1>4 DEF StackOK

\* The last frame changes.
LEMMA ReplaceTop ==
  ASSUME NEW st, AllWait(st), st # << >>, NEW g, FrameOK(g)
  PROVE  LET new == [st EXCEPT ![Len(st)] = g]
         IN  /\ StackOK(new) /\ Len(new) = Len(st) /\ Len(st) \in Nat
             /\ new[Len(st)] = g /\ \A i \in 1..Len(st) : i # Len(st) => new[i] = st[i]
<1> DEFINE new == [st EXCEPT ![Len(st)] = g]
<1>1. st \in Seq(FrameType) /\ g \in FrameType
  BY DEF AllWait, StackOK, FrameOK
<1>2. Len(st) \in Nat /\ Len(st) \in 1..Len(st)
  BY <1>1, EmptySeq, LenProperties
<1>3. /\ new \in Seq(FrameType) /\ Len(new) = Len(st)
      /\ \A i \in 1..Len(st) : new[i] = IF i = Len(st) THEN g ELSE st[i]
  BY <1>1, <1>2, ExceptSeq
<1> HIDE DEF new
<1>4. ASSUME NEW i \in 1..Len(st) PROVE FrameOK(new[i]) /\ (i < Len(st) => Waits(new[i]))
  <2>1. CASE i = Len(st)
    BY <2>1, <1>2, <1>3
  <2>2. CASE i # Len(st)
    BY <2>2, <1>2, <1>3 DEF AllWait, StackOK
  <2> QED BY <2>1, <2>2
<1>5. StackOK(new)
  BY <1>3, <1>4 DEF StackOK
<1> QED BY <1>2, <1>3, <1>5 DEF new

\* A value is returned to the last of the frames.
Returned(new, st, v, ty) == new = [st EXCEPT ![Len(st)].vals = Append(@, Arg(ty, v))]
LEMMA ReturnFrames ==
  ASSUME NEW st, AllWait(st), NEW ty \in LLType, NEW v \in OperandType,
         NEW new, Returned(new, st, v, ty)
  PROVE  /\ StackOK(new) /\ Len(new) = Len(st) /\ Len(st) \in Nat
         /\ \A i \in 1..Len(st) : new[i].at = st[i].at /\ new[i].res = st[i].res
<1> DEFINE f == st[Len(st)]
           g == [f EXCEPT !.vals = Append(@, Arg(ty, v))]
<1>1. st \in Seq(FrameType) /\ Len(st) \in Nat
  BY LenProperties DEF AllWait, StackOK
<1>2. CASE st = << >>
  <2>1. new = << >>
    BY <1>2 DEF Returned
  <2> QED BY <1>2, <2>1 DEF AllWait
<1>3. CASE st # << >>
  <2>1. Len(st) \in 1..Len(st)
    BY <1>1, <1>3, EmptySeq
  <2>2. FrameOK(f) /\ Waits(f)
    BY <2>1 DEF AllWait, StackOK
  <2>3. f \in FrameType /\ f.vals \in Seq(ArgType) /\ Arg(ty, v) \in ArgType
    BY <2>2, ArgTypes DEF FrameOK, FrameType
  <2>4. Append(f.vals, Arg(ty, v)) \in Seq(ArgType) /\ Len(Append(f.vals, Arg(ty, v))) = Len(f.vals) + 1
    BY <2>3, AppendProperties
  <2>5. /\ g \in FrameType /\ g.at = f.at /\ g.res = f.res /\ g.lbl = f.lbl /\ g.dealt = f.dealt
        /\ Len(g.vals) = Len(f.vals) + 1
    BY <2>3, <2>4 DEF FrameType
  <2>6. f.dealt \in Nat /\ Len(f.vals) \in Nat
    BY <2>3, LenProperties DEF FrameType
  <2>7. FrameOK(g)
    BY <2>2, <2>5, <2>6 DEF FrameOK, Waits
  <2>8. new = [st EXCEPT ![Len(st)] = g]
    <3>1. \A m \in DOMAIN st : [st EXCEPT ![m].vals = Append(@, Arg(ty, v))]
                               = [st EXCEPT ![m] = [st[m] EXCEPT !.vals = Append(@, Arg(ty, v))]]
      OBVIOUS
    <3>2. Len(st) \in DOMAIN st
      BY <1>1, <2>1, LenProperties
    <3> QED BY <3>1, <3>2 DEF Returned
  <2> HIDE DEF g
  <2> HIDE DEF f
  <2>9. /\ StackOK(new) /\ Len(new) = Len(st)
        /\ new[Len(st)] = g /\ \A i \in 1..Len(st) : i # Len(st) => new[i] = st[i]
    <3> DEFINE r == [st EXCEPT ![Len(st)] = g]
    <3>1. FrameOK(g)
      BY <2>7
    <3>2. \A h : FrameOK(h) => StackOK([st EXCEPT ![Len(st)] = h])
      BY <1>3, ReplaceTop
    <3>3. \A h : FrameOK(h) => Len([st EXCEPT ![Len(st)] = h]) = Len(st)
      BY <1>3, ReplaceTop
    <3>4. \A h : FrameOK(h) => [st EXCEPT ![Len(st)] = h][Len(st)] = h
      BY <1>3, ReplaceTop
    <3>5. \A h : FrameOK(h) => \A i \in 1..Len(st) : i # Len(st) => [st EXCEPT ![Len(st)] = h][i] = st[i]
      BY <1>3, ReplaceTop
    <3>6. StackOK(r) /\ Len(r) = Len(st) /\ r[Len(st)] = g /\ \A i \in 1..Len(st) : i # Len(st) => r[i] = st[i]
      BY <3>1, <3>2, <3>3, <3>4, <3>5
    <3>7. new = r
      BY <2>8
    <3> HIDE DEF r
    <3> QED BY <3>6, <3>7
  <2> QED BY <1>1, <2>5, <2>9 DEF f
<1> QED BY <1>2, <1>3

\* A stack whose frames are those of an old one, up to their values, keeps them.
LEMMA SameKeeps ==
  ASSUME NEW new, NEW old, Len(new) <= Len(old), Len(new) \in Nat, Len(old) \in Nat,
         \A i \in 1..Len(new) : new[i].at = old[i].at /\ new[i].res = old[i].res
  PROVE  Keeps(new, old)
BY DEF Keeps, Pending

LEMMA NothingOwed == ASSUME NEW st PROVE Owed({}, st)
BY DEF Owed

-----------------------------------------------------------------------------
(***************************************************************************)
(* The kinds of steps.                                                     *)
(***************************************************************************)
LEMMA Silent ==
  ASSUME NEW s \in Seq(InsType), NEW R, \A i \in 1..Len(s) : s[i].res = << >>
  PROVE  ResultsIn(s, R)
BY DEF ResultsIn

LEMMA NoIns == \A R : ResultsIn(<< >>, R)
BY DEF ResultsIn

LEMMA OneIns ==
  ASSUME NEW ins \in InsType, NEW R, ins.res = << >> \/ \E t \in R : ins.res = <<t>>
  PROVE  ResultsIn(<<ins>>, R)
BY DEF ResultsIn

\* The rest of a step is typed and numbered: what all steps share.
Rest(n) ==
  /\ prog' = prog /\ next' \in Nat /\ lastType' \in LLType /\ nlabels' \in Nat
  /\ failed' \in BOOLEAN
  /\ n \in Nat /\ ntemps' = ntemps + n
NewTemps(n) == ntemps..(ntemps + n - 1)

LEMMA NewTempsFacts ==
  ASSUME IInv
  PROVE  /\ ntemps \in NewTemps(1) /\ ntemps \in Nat
         /\ ntemps \in NewTemps(3) /\ ntemps + 1 \in NewTemps(3) /\ ntemps + 2 \in NewTemps(3)
BY DEF IInv, TypeOK, NewTemps

\* A value is returned by a call with operands; `owed` holds its own result, if
\* that was named when the call began.
LEMMA ReturnStep ==
  ASSUME IInv, Working, NEW v \in OperandType, NEW ty \in LLType, ReturnTo(Below, v, ty),
         NEW n, Rest(n), NEW s, code' = code \o s, NEW owed,
         owed = {} \/ (Pending(Top) /\ owed = {Top.res}),
         ResultsIn(s, owed \cup NewTemps(n))
  PROVE  IInv'
<1>1. /\ AllWait(Below) /\ Len(Below) = Len(stack) - 1
      /\ \A i \in 1..Len(Below) : i \in 1..Len(stack) /\ i # Len(stack) /\ Below[i] = stack[i]
  BY BelowWait
<1>2. Returned(stack', Below, v, ty)
  BY DEF ReturnTo, Returned
<1>3. /\ StackOK(stack') /\ Len(stack') = Len(Below) /\ Len(Below) \in Nat
      /\ \A i \in 1..Len(Below) : stack'[i].at = Below[i].at /\ stack'[i].res = Below[i].res
  BY <1>1, <1>2, ReturnFrames
<1>4. Len(stack) \in Nat /\ Len(stack) \in 1..Len(stack) /\ Top.res \in Nat
  BY TopFacts
<1>5. \A i \in 1..Len(stack') :
        i \in 1..Len(stack) /\ i # Len(stack) /\ stack'[i].at = stack[i].at /\ stack'[i].res = stack[i].res
  BY <1>1, <1>3
<1>6. Keeps(stack', stack)
  BY <1>5 DEF Keeps, Pending
<1>7. Owed(owed, stack')
  <2>1. CASE owed = {}
    BY <2>1, NothingOwed
  <2>2. CASE Pending(Top) /\ owed = {Top.res}
    <3>1. Top.res < ntemps /\ Undefined(Top.res, code)
      BY <2>2, <1>4 DEF IInv, Reserved, Top
    <3>2. ASSUME NEW i \in 1..Len(stack'), Pending(stack'[i]) PROVE stack'[i].res # Top.res
      <4>1. Pending(stack[i]) /\ i \in 1..Len(stack) /\ i # Len(stack) /\ stack'[i].res = stack[i].res
        BY <3>2, <1>5 DEF Pending
      <4> QED BY <4>1, <2>2, <1>4 DEF IInv, Reserved, Top
    <3>3. Top.res \in 0..(ntemps - 1)
      BY <3>1, <1>4 DEF IInv, TypeOK
    <3> QED BY <2>2, <3>1, <3>2, <3>3 DEF Owed
  <2> QED BY <2>1, <2>2
<1>8. ntemps' \in Nat /\ ntemps <= ntemps' /\ ntemps' - 1 = ntemps + n - 1
  BY DEF Rest, IInv, TypeOK
<1>9. ResultsIn(s, owed \cup (ntemps..(ntemps' - 1)))
  BY <1>8 DEF NewTemps
<1>10. StepTo(s, owed)
  BY <1>3, <1>6, <1>7, <1>8, <1>9 DEF StepTo, Rest
<1> QED BY <1>10, Step

\* A value is returned by a call without operands.
LEMMA LeafStep ==
  ASSUME IInv, Wants, NEW v \in OperandType, NEW ty \in LLType, ReturnTo(stack, v, ty),
         NEW n, Rest(n), NEW s, code' = code \o s, ResultsIn(s, NewTemps(n))
  PROVE  IInv'
<1>1. AllWait(stack)
  BY WantsWait
<1>2. Returned(stack', stack, v, ty)
  BY DEF ReturnTo, Returned
<1>3. /\ StackOK(stack') /\ Len(stack') = Len(stack) /\ Len(stack) \in Nat
      /\ \A i \in 1..Len(stack) : stack'[i].at = stack[i].at /\ stack'[i].res = stack[i].res
  BY <1>1, <1>2, ReturnFrames
<1>4. Keeps(stack', stack)
  BY <1>3 DEF Keeps, Pending
<1>5. ntemps' \in Nat /\ ntemps <= ntemps' /\ ntemps' - 1 = ntemps + n - 1
  BY DEF Rest, IInv, TypeOK
<1>6. ResultsIn(s, {} \cup (ntemps..(ntemps' - 1)))
  BY <1>5 DEF NewTemps
<1>7. StepTo(s, {})
  BY <1>3, <1>4, <1>5, <1>6, NothingOwed DEF StepTo, Rest
<1> QED BY <1>7, Step

\* The calls end.
LEMMA EndStep ==
  ASSUME IInv, stack' = << >>, NEW n, Rest(n), NEW s, code' = code \o s, ResultsIn(s, NewTemps(n))
  PROVE  IInv'
<1>1. StackOK(stack') /\ Keeps(stack', stack)
  BY DEF StackOK, Keeps
<1>2. ntemps' \in Nat /\ ntemps <= ntemps' /\ ntemps' - 1 = ntemps + n - 1
  BY DEF Rest, IInv, TypeOK
<1>3. ResultsIn(s, {} \cup (ntemps..(ntemps' - 1)))
  BY <1>2 DEF NewTemps
<1>4. StepTo(s, {})
  BY <1>1, <1>2, <1>3, NothingOwed DEF StepTo, Rest
<1> QED BY <1>4, Step

LEMMA SameCode == IInv => code = code \o << >>
BY ConcatEmptySeq DEF IInv, TypeOK

LEMMA FailStep == IInv /\ Fail => IInv'
<1> SUFFICES ASSUME IInv, Fail PROVE IInv'
  OBVIOUS
<1>1. Rest(0) /\ stack' = << >> /\ code' = code
  BY DEF Rest, IInv, TypeOK, Fail
<1> QED BY <1>1, SameCode, NoIns, EndStep

LEMMA FinishStep ==
  ASSUME IInv, NEW s, NEW n \in Nat, Finish(s, n), ResultsIn(s, NewTemps(n))
  PROVE  IInv'
<1>1. Rest(n) /\ stack' = << >> /\ code' = code \o s
  BY DEF Rest, IInv, TypeOK, Finish, Emit, mk_temp
<1> QED BY <1>1, EndStep

\* A call with operands begins, which names no result of its own.
LEMMA PushStep ==
  ASSUME IInv, AllWait(stack), next \in DOMAIN prog, ~Pending([at |-> next]),
         prog[next].k \in Marked => prog[next].n = 1,
         NEW lv \in BOOLEAN, NEW res \in Nat, stack' = Append(stack, Frame(next, lv, res)),
         NEW n, Rest(n), NEW s, code' = code \o s, ResultsIn(s, NewTemps(n))
  PROVE  IInv'
<1> DEFINE f == Frame(next, lv, res)
<1>1. next \in Nat
  BY NodeFacts
<1>2. f \in FrameType /\ f.at = next /\ f.dealt = 0 /\ f.vals = << >>
  BY <1>1 DEF Frame, FrameType
<1>3. FrameOK(f)
  BY <1>2 DEF FrameOK, Pending
<1> HIDE DEF f
<1>4. /\ StackOK(stack') /\ Len(stack') = Len(stack) + 1 /\ Len(stack) \in Nat
      /\ \A i \in 1..Len(stack) : stack'[i] = stack[i]
      /\ stack'[Len(stack) + 1] = f
  BY <1>3, PushFrame DEF f
<1>5. ~Pending(f)
  BY <1>2 DEF Pending
<1>6. ASSUME NEW i \in 1..Len(stack'), Pending(stack'[i])
      PROVE  i \in 1..Len(stack) /\ Pending(stack[i]) /\ stack'[i].res = stack[i].res
  <2>1. i \in 1..Len(stack) \/ i = Len(stack) + 1
    BY <1>4
  <2> QED BY <2>1, <1>4, <1>5, <1>6
<1>7. Keeps(stack', stack)
  BY <1>6 DEF Keeps
<1>8. ntemps' \in Nat /\ ntemps <= ntemps' /\ ntemps' - 1 = ntemps + n - 1
  BY DEF Rest, IInv, TypeOK
<1>9. ResultsIn(s, {} \cup (ntemps..(ntemps' - 1)))
  BY <1>8 DEF NewTemps
<1>10. StepTo(s, {})
  BY <1>4, <1>7, <1>8, <1>9, NothingOwed DEF StepTo, Rest
<1> QED BY <1>10, Step

-----------------------------------------------------------------------------
(***************************************************************************)
(* Calls without operands, and calls that begin.                           *)
(***************************************************************************)
LEMMA NodeRules ==
  ASSUME IInv, NEW i \in DOMAIN prog
  PROVE  /\ prog[i].k = "literal" => prog[i].ty \in LLType
         /\ prog[i].k \in {"alloc", "sizeof", "cast", "decl", "decl_fn", "return"} => prog[i].ty \in UCType
         /\ prog[i].k = "assign" => Known(prog[i].x)
         /\ prog[i].k \in {"decl", "decl_fn"} => prog[i].x \in DOMAIN LocalVars
         /\ prog[i].k = "callptr" => prog[i].x \in DOMAIN LocalVars /\ prog[i].x \in DOMAIN FnPtrs
         /\ prog[i].k = "decl_fn" => prog[i].outs # << >>
<1>1. WellFormed(prog)
  BY DEF IInv, TypeOK
<1>2. LiteralType \subseteq LLType
  BY DEF LiteralType, LLType
<1> QED BY <1>1, <1>2 DEF WellFormed, Known

LEMMA VisitingFacts ==
  ASSUME IInv, NEW ks, Visiting(ks)
  PROVE  /\ Working /\ Wants /\ next \in DOMAIN prog /\ Node.k \in ks /\ AllWait(stack)
         /\ Node.x \in Text /\ Node.n \in Nat /\ Node.k \in Kind
         /\ next + 1 \in Nat
<1>1. Wants /\ next \in DOMAIN prog /\ Node.k \in ks /\ Working
  BY DEF Visiting, Wants, Node
<1>2. next \in Nat
  BY DEF IInv, TypeOK
<1> QED BY <1>1, <1>2, NodeFacts, WantsWait DEF Node

LEMMA GenStmtStep == IInv /\ GenStmt => IInv'
<1> SUFFICES ASSUME IInv, GenStmt PROVE IInv'
  OBVIOUS
<1>1. WellFormed(prog) /\ next = 1 /\ stack = << >>
  BY DEF IInv, TypeOK, GenStmt, Working
<1>2. prog \in Seq(NodeType) /\ prog # << >> /\ prog[1].k \in Stmts
  BY <1>1 DEF WellFormed
<1>3. next \in DOMAIN prog
  BY <1>1, <1>2, EmptySeq, LenProperties
<1>4. AllWait(stack)
  BY <1>1 DEF AllWait, StackOK
<1>5. ~Pending([at |-> next]) /\ prog[next].k \notin Marked
  BY <1>1, <1>2 DEF Pending, SysArity, Stmts, Marked
<1>6. stack' = Append(stack, Frame(next, FALSE, 0)) /\ next' = next + 1
  BY DEF GenStmt, Enter
<1>7. Rest(0)
  BY <1>6 DEF Rest, GenStmt, IInv, TypeOK
<1>8. CASE code' = code
  BY <1>3, <1>4, <1>5, <1>6, <1>7, <1>8, SameCode, NoIns, PushStep
<1>9. CASE code' # code
  <2> DEFINE ins == Ins("alloca", << >>, llvm_type[prog[1].ty], << >>, << >>, prog[1].x)
  <2>1. prog[1].k \in {"decl", "decl_fn"} /\ code' = code \o <<ins>>
    BY <1>9 DEF GenStmt, Emit
  <2>2. llvm_type[prog[1].ty] \in LLType /\ prog[1].x \in Text
    BY <2>1, <1>1, <1>3, NodeRules, NodeFacts, llvm_type_Type
  <2>3. "alloca" \in Opcode /\ << >> \in Seq(ArgType) /\ << >> \in Seq(Nat)
    BY Opcodes
  <2>4. ins \in InsType /\ ins.res = << >>
    BY <2>2, <2>3 DEF Ins, InsType
  <2> HIDE DEF ins
  <2>5. ResultsIn(<<ins>>, NewTemps(0))
    BY <2>4, OneIns
  <2> QED BY <1>3, <1>4, <1>5, <1>6, <1>7, <2>1, <2>5, PushStep
<1> QED BY <1>8, <1>9

LEMMA GenLiteralStep == IInv /\ GenLiteral => IInv'
<1> SUFFICES ASSUME IInv, GenLiteral PROVE IInv'
  OBVIOUS
<1>1. Wants /\ next \in DOMAIN prog /\ Node.x \in Text /\ next + 1 \in Nat
  BY VisitingFacts DEF GenLiteral
<1>2. ntemps \in Nat /\ ntemps \in NewTemps(1) /\ Temp(ntemps) \in OperandType
  BY NewTempsFacts, OperandTypes
<1>3. Opcode \subseteq Opcode /\ "const" \in Opcode /\ "call" \in Opcode /\ << >> \in Seq(ArgType)
  BY Opcodes, KindNames
<1>4. "i32" \in LLType /\ "i64" \in LLType /\ "i8*" \in LLType
  BY LLTypes
<1>5. ASSUME NEW ty \in LLType, NEW ins \in InsType, ins.res = <<ntemps>>,
             Emit(<<ins>>), ReturnLeaf(Temp(ntemps), ty)
      PROVE  IInv'
  <2>1. ResultsIn(<<ins>>, NewTemps(1))
    BY <1>5, <1>2, OneIns
  <2>2. Rest(1)
    BY <1>1, <1>5 DEF Rest, GenLiteral, IInv, TypeOK, mk_temp, ReturnLeaf, ReturnTo
  <2>3. ReturnTo(stack, Temp(ntemps), ty) /\ code' = code \o <<ins>>
    BY <1>5 DEF ReturnLeaf, Emit
  <2> QED BY <1>1, <1>2, <2>1, <2>2, <2>3, LeafStep
<1>6. CASE /\ Node.k = "literal"
           /\ Emit(<<Def("const", ntemps, Node.ty, << >>, Node.x)>>)
           /\ ReturnLeaf(Temp(ntemps), Node.ty)
  <2>1. Node.ty \in LLType
    BY <1>1, <1>6, NodeRules DEF Node
  <2> QED BY <1>1, <1>2, <1>3, <1>5, <1>6, <2>1, DefTypes
<1>7. CASE /\ Node.k = "sizeof"
           /\ Emit(<<Def("const", ntemps, "i32", << >>, SizeOf[Node.ty])>>)
           /\ ReturnLeaf(Temp(ntemps), "i32")
  <2>1. SizeOf[Node.ty] \in Text
    <3>1. Node.ty \in UCType
      BY <1>1, <1>7, NodeRules DEF Node
    <3> QED BY <3>1, OwnSymbols DEF SizeOf
  <2> QED BY <1>2, <1>3, <1>4, <1>5, <1>7, <2>1, DefTypes
<1>8. CASE /\ Node.k = "alloc"
           /\ Emit(<<Def("call", ntemps, "i8*", <<Arg("i64", Const(AllocSize[Node.ty]))>>, "malloc")>>)
           /\ ReturnLeaf(Temp(ntemps), "i8*")
  <2>1. AllocSize[Node.ty] \in Text /\ "malloc" \in Text
    <3>1. Node.ty \in UCType
      BY <1>1, <1>8, NodeRules DEF Node
    <3> QED BY <3>1, OwnSymbols DEF AllocSize
  <2>2. <<Arg("i64", Const(AllocSize[Node.ty]))>> \in Seq(ArgType)
    BY <1>4, <2>1, OperandTypes, ArgTypes
  <2> QED BY <1>2, <1>3, <1>4, <1>5, <1>8, <2>1, <2>2, DefTypes
<1> QED BY <1>6, <1>7, <1>8 DEF GenLiteral

LEMMA GenVariableStep == IInv /\ GenVariable => IInv'
<1> SUFFICES ASSUME IInv, GenVariable PROVE IInv'
  OBVIOUS
<1>1. Wants /\ next + 1 \in Nat /\ Known(Node.x)
  BY VisitingFacts DEF GenVariable
<1>2. ntemps \in Nat /\ ntemps \in NewTemps(1) /\ Temp(ntemps) \in OperandType
  BY NewTempsFacts, OperandTypes
<1>3. VarType(Node.x) \in LLType /\ Address(Node.x) \in OperandType
  BY <1>1, VarTypes
<1> DEFINE ins == Load(ntemps, VarType(Node.x), Address(Node.x))
<1>4. ins \in InsType /\ ins.res = <<ntemps>>
  BY <1>2, <1>3, LoadTypes
<1>5. code' = code \o <<ins>>
  BY DEF GenVariable, Emit
<1> HIDE DEF ins
<1>6. ResultsIn(<<ins>>, NewTemps(1))
  BY <1>2, <1>4, OneIns
<1>7. ReturnTo(stack, Temp(ntemps), VarType(Node.x))
  BY DEF GenVariable, ReturnLeaf
<1>8. Rest(1)
  BY <1>1, <1>3 DEF Rest, GenVariable, IInv, TypeOK, mk_temp, ReturnLeaf, ReturnTo
<1> QED BY <1>1, <1>2, <1>3, <1>5, <1>6, <1>7, <1>8, LeafStep

LEMMA GenNamedStep == IInv /\ GenNamed => IInv'
<1> SUFFICES ASSUME IInv, GenNamed PROVE IInv'
  OBVIOUS
<1>1. Wants /\ next + 1 \in Nat /\ Node.x \in Text
  BY VisitingFacts DEF GenNamed
<1> DEFINE v == IF Node.k = "null" THEN Null ELSE Named(Node.x)
<1>2. v \in OperandType
  BY <1>1, OperandTypes
<1>3. lastType \in LLType
  BY DEF IInv, TypeOK
<1>4. ReturnTo(stack, v, lastType)
  BY DEF GenNamed, ReturnLeaf
<1> HIDE DEF v
<1>5. Rest(0) /\ code' = code
  BY <1>1 DEF Rest, GenNamed, IInv, TypeOK, ReturnLeaf, ReturnTo
<1> QED BY <1>1, <1>2, <1>3, <1>4, <1>5, SameCode, NoIns, LeafStep

LEMMA EnterPlainStep == IInv /\ EnterPlain => IInv'
<1> SUFFICES ASSUME IInv, EnterPlain PROVE IInv'
  OBVIOUS
<1>1. /\ AllWait(stack) /\ next \in DOMAIN prog /\ next + 1 \in Nat
      /\ Node.k \in (Unary \ {"assign"}) \cup Binary \cup {"ternary"} \cup Marked
  BY VisitingFacts DEF EnterPlain
<1>2. ~Pending([at |-> next])
  BY <1>1 DEF Pending, SysArity, Unary, Binary, Marked, Node
<1>3. WantsAddress \in BOOLEAN
  BY DEF WantsAddress
<1>4. stack' = Append(stack, Frame(next, WantsAddress, 0)) /\ code' = code
  BY DEF EnterPlain, Enter
<1>5. prog[next].k \in Marked => prog[next].n = 1
  BY DEF EnterPlain, Node
<1>6. Rest(0)
  BY <1>1 DEF Rest, EnterPlain, Enter, IInv, TypeOK
<1> QED BY <1>1, <1>2, <1>3, <1>4, <1>5, <1>6, SameCode, NoIns, PushStep

LEMMA EnterAssignStep == IInv /\ EnterAssign => IInv'
<1> SUFFICES ASSUME IInv, EnterAssign PROVE IInv'
  OBVIOUS
<1>1. AllWait(stack) /\ next \in DOMAIN prog /\ next + 1 \in Nat /\ Node.k \in {"assign"}
  BY VisitingFacts DEF EnterAssign
<1>2. ~Pending([at |-> next]) /\ prog[next].k \notin Marked
  BY <1>1 DEF Pending, SysArity, Marked, Node
<1>3. VarType(Node.x) \in LLType
  BY <1>1, NodeRules, VarTypes DEF Node
<1>4. stack' = Append(stack, Frame(next, FALSE, 0)) /\ code' = code
  BY DEF EnterAssign
<1>5. Rest(0)
  BY <1>1, <1>3 DEF Rest, EnterAssign, IInv, TypeOK
<1> QED BY <1>1, <1>2, <1>4, <1>5, SameCode, NoIns, PushStep

LEMMA EnterCallPtrStep == IInv /\ EnterCallPtr => IInv'
<1> SUFFICES ASSUME IInv, EnterCallPtr PROVE IInv'
  OBVIOUS
<1>1. AllWait(stack) /\ next \in DOMAIN prog /\ next + 1 \in Nat /\ Node.k \in {"callptr"}
  BY VisitingFacts DEF EnterCallPtr
<1>2. ~Pending([at |-> next]) /\ prog[next].k \notin Marked
  BY <1>1 DEF Pending, SysArity, Marked, Node
<1>3. ntemps \in Nat /\ ntemps \in NewTemps(1)
  BY NewTempsFacts
<1>4. Local(Node.x) \in OperandType /\ "i8*" \in LLType
  BY <1>1, NodeRules, LocalTypes, LLTypes DEF Node
<1> DEFINE ins == Load(ntemps, "i8*", Local(Node.x))
<1>5. ins \in InsType /\ ins.res = <<ntemps>>
  BY <1>3, <1>4, LoadTypes
<1>6. stack' = Append(stack, Frame(next, FALSE, ntemps)) /\ code' = code \o <<ins>>
  BY DEF EnterCallPtr, Enter, Emit
<1> HIDE DEF ins
<1>7. ResultsIn(<<ins>>, NewTemps(1))
  BY <1>3, <1>5, OneIns
<1>8. Rest(1)
  BY <1>1 DEF Rest, EnterCallPtr, Enter, mk_temp, IInv, TypeOK
<1> QED BY <1>1, <1>2, <1>3, <1>6, <1>7, <1>8, PushStep

\* The result of a call is named: the name is new.
LEMMA EnterCallStep == IInv /\ EnterCall => IInv'
<1> SUFFICES ASSUME IInv, EnterCall PROVE IInv'
  OBVIOUS
<1> DEFINE f == Frame(next, FALSE, ntemps)
<1>1. AllWait(stack) /\ next \in DOMAIN prog /\ next \in Nat /\ Node.k \in Calls \ {"callptr"}
  BY VisitingFacts DEF EnterCall, IInv, TypeOK
<1>2. ntemps \in Nat /\ ntemps' = ntemps + 1
  BY DEF EnterCall, mk_temp, IInv, TypeOK
<1>3. f \in FrameType /\ f.at = next /\ f.dealt = 0 /\ f.vals = << >> /\ f.res = ntemps
  BY <1>1, <1>2 DEF Frame, FrameType
<1>4. prog[next].k \in DOMAIN SysArity => prog[next].n = SysArity[prog[next].k]
  BY DEF EnterCall, Node
<1>5. prog[next].k \notin Marked /\ prog[next].k # "ternary"
  BY <1>1 DEF Node, Calls, Marked
<1>7. stack' = Append(stack, f) /\ code' = code /\ prog' = prog
  BY DEF EnterCall, Enter
<1> HIDE DEF f
<1>6. FrameOK(f)
  BY <1>1, <1>3, <1>4, <1>5 DEF FrameOK
<1>8. /\ StackOK(stack') /\ Len(stack') = Len(stack) + 1 /\ Len(stack) \in Nat
      /\ \A i \in 1..Len(stack) : stack'[i] = stack[i]
      /\ stack'[Len(stack) + 1] = f
  BY <1>1, <1>6, <1>7, PushFrame
<1>9. Reserved(stack, code, ntemps) /\ ResultsIn(code, 0..(ntemps - 1))
  BY DEF IInv
<1>10. Undefined(ntemps, code)
  <2>1. ntemps \notin 0..(ntemps - 1)
    BY <1>2
  <2> QED BY <2>1, <1>9, OnlyIn
<1>11. \A i \in 1..Len(stack) : Pending(stack[i]) =>
         stack[i].res < ntemps /\ stack[i].res \in Nat /\ Undefined(stack[i].res, code)
  BY <1>9 DEF Reserved, IInv, StackOK, FrameOK, FrameType
<1>12. ASSUME NEW i \in 1..Len(stack'), Pending(stack'[i])
       PROVE  stack'[i].res < ntemps' /\ Undefined(stack'[i].res, code)
  <2>1. i \in 1..Len(stack) \/ i = Len(stack) + 1
    BY <1>8
  <2> QED BY <2>1, <1>2, <1>3, <1>8, <1>10, <1>11, <1>12
<1>13. ASSUME NEW i \in 1..Len(stack'), NEW j \in 1..Len(stack'), Pending(stack'[i]), Pending(stack'[j]),
              stack'[i].res = stack'[j].res
       PROVE  i = j
  <2>1. i \in 1..Len(stack) \/ i = Len(stack) + 1
    BY <1>8
  <2>2. j \in 1..Len(stack) \/ j = Len(stack) + 1
    BY <1>8
  <2>3. CASE i \in 1..Len(stack) /\ j \in 1..Len(stack)
    BY <2>3, <1>8, <1>9, <1>13 DEF Reserved
  <2>4. CASE i \in 1..Len(stack) /\ j = Len(stack) + 1
    BY <2>4, <1>2, <1>3, <1>8, <1>11, <1>13
  <2>5. CASE i = Len(stack) + 1 /\ j \in 1..Len(stack)
    BY <2>5, <1>2, <1>3, <1>8, <1>11, <1>13
  <2>6. CASE i = Len(stack) + 1 /\ j = Len(stack) + 1
    BY <2>6
  <2> QED BY <2>1, <2>2, <2>3, <2>4, <2>5, <2>6
<1>14. Reserved(stack', code', ntemps')
  BY <1>7, <1>12, <1>13 DEF Reserved
<1>15. Reserved(stack, code, ntemps)'
  BY <1>7, <1>14 DEF Reserved, Pending, Undefined
<1>16. StackOK(stack)'
  BY <1>7, <1>8 DEF StackOK, FrameOK, Waits
<1>17. ResultsIn(code, 0..(ntemps - 1))'
  <2>1. 0..(ntemps - 1) \subseteq 0..(ntemps' - 1)
    BY <1>2
  <2> QED BY <2>1, <1>7, <1>9 DEF ResultsIn
<1>18. TypeOK'
  <2>1. \A i \in DOMAIN stack' : stack'[i].at \in DOMAIN prog'
    BY <1>16, LenProperties DEF StackOK, FrameOK
  <2>2. WellFormed(prog)'
    BY <1>7 DEF IInv, TypeOK, WellFormed
  <2>3. stack' \in Seq(FrameType) /\ code' \in Seq(InsType)
    BY <1>8, <1>17 DEF StackOK, ResultsIn
  <2>4. next' \in Nat /\ lastType' \in LLType /\ nlabels' \in Nat /\ failed' \in BOOLEAN /\ ntemps' \in Nat
    BY <1>1, <1>2 DEF EnterCall, Enter, IInv, TypeOK
  <2> QED BY <2>1, <2>2, <2>3, <2>4 DEF TypeOK
<1> QED BY <1>15, <1>16, <1>17, <1>18 DEF IInv

-----------------------------------------------------------------------------
(***************************************************************************)
(* Calls whose operands are there.                                         *)
(***************************************************************************)
LEMMA Arities ==
  ASSUME NEW e
  PROVE  /\ e.k \in Unary \cup {"decl", "eval", "return", "cond", "free"} => Arity(e) = 1
         /\ e.k \in Binary => Arity(e) = 2
         /\ e.k \in Marked \cup Calls \cup {"asm"} => Arity(e) = e.n
<1>1. ASSUME e.k \in Unary \cup {"decl", "eval", "return", "cond", "free"} PROVE Arity(e) = 1
  BY <1>1 DEF Arity, Stmts
<1>2. ASSUME e.k \in Binary PROVE Arity(e) = 2
  BY <1>2 DEF Arity, Stmts, Unary, Binary
<1>3. ASSUME e.k \in Marked \cup Calls \cup {"asm"} PROVE Arity(e) = e.n
  BY <1>3 DEF Arity, Stmts, Unary, Binary, Marked, Calls, Leaf
<1> QED BY <1>1, <1>2, <1>3

LEMMA CompleteFacts ==
  ASSUME IInv, NEW ks, Complete(ks)
  PROVE  /\ Working /\ Op.k \in ks /\ Op.k \in Kind /\ Op.x \in Text /\ Op.outs \in Seq(Text)
         /\ Len(Top.vals) = Arity(Op) /\ Top.vals \in Seq(ArgType)
         /\ Arity(Op) > 0 /\ Arity(Op) \in Nat => Value(1) \in OperandType
         /\ Arity(Op) = 2 => Value(2) \in OperandType
         /\ ntemps \in Nat /\ lastType \in LLType /\ nlabels \in Nat /\ failed \in BOOLEAN /\ next \in Nat
<1>1. Working /\ Op.k \in ks /\ Len(Top.vals) = Arity(Op)
  BY DEF Complete
<1>2. Top.at \in DOMAIN prog /\ Top.vals \in Seq(ArgType)
  BY <1>1, TopFacts
<1>3. Op.k \in Kind /\ Op.x \in Text /\ Op.outs \in Seq(Text)
  BY <1>2, NodeFacts DEF Op
<1>4. ASSUME Arity(Op) > 0, Arity(Op) \in Nat PROVE Value(1) \in OperandType
  <2>1. 1 \in 1..Len(Top.vals)
    BY <1>1, <1>4
  <2> QED BY <1>1, <2>1, ValueFacts
<1>5. ASSUME Arity(Op) = 2 PROVE Value(2) \in OperandType
  <2>1. 2 \in 1..Len(Top.vals)
    BY <1>1, <1>5
  <2> QED BY <1>1, <2>1, ValueFacts
<1>6. ntemps \in Nat /\ lastType \in LLType /\ nlabels \in Nat /\ failed \in BOOLEAN /\ next \in Nat
  BY DEF IInv, TypeOK
<1> QED BY <1>1, <1>2, <1>3, <1>4, <1>5, <1>6

\* One instruction that defines the next temporary, which is the value.
LEMMA DefineStep ==
  ASSUME IInv, Working, NEW ins \in InsType, ins.res = <<ntemps>>, Emit(<<ins>>),
         NEW ty \in LLType, Return(Temp(ntemps), ty), mk_temp(1), UNCHANGED <<prog, nlabels, failed>>
  PROVE  IInv'
<1>1. ntemps \in Nat /\ ntemps \in NewTemps(1) /\ Temp(ntemps) \in OperandType
  BY NewTempsFacts, OperandTypes
<1>2. ResultsIn(<<ins>>, {} \cup NewTemps(1))
  BY <1>1, OneIns
<1>3. Rest(1)
  BY DEF Rest, IInv, TypeOK, Return, ReturnTo, mk_temp
<1>4. ReturnTo(Below, Temp(ntemps), ty) /\ code' = code \o <<ins>>
  BY DEF Return, Emit
<1> QED BY <1>1, <1>2, <1>3, <1>4, ReturnStep

\* Code without results, and any value.
LEMMA SilentStep ==
  ASSUME IInv, Working, NEW s \in Seq(InsType), \A i \in 1..Len(s) : s[i].res = << >>,
         code' = code \o s, NEW v \in OperandType, NEW ty \in LLType, Return(v, ty),
         mk_temp(1), UNCHANGED <<prog, nlabels, failed>>
  PROVE  IInv'
<1>1. ResultsIn(s, {} \cup NewTemps(1))
  BY Silent
<1>2. Rest(1)
  BY DEF Rest, IInv, TypeOK, Return, ReturnTo, mk_temp
<1>3. ReturnTo(Below, v, ty)
  BY DEF Return
<1> QED BY <1>1, <1>2, <1>3, ReturnStep

LEMMA NoCodeStep ==
  ASSUME IInv, Working, code' = code, NEW v \in OperandType, NEW ty \in LLType, Return(v, ty),
         mk_temp(1), UNCHANGED <<prog, nlabels, failed>>
  PROVE  IInv'
<1>1. code' = code \o << >> /\ ResultsIn(<< >>, {} \cup NewTemps(1))
  BY SameCode, NoIns
<1>2. Rest(1)
  BY DEF Rest, IInv, TypeOK, Return, ReturnTo, mk_temp
<1>3. ReturnTo(Below, v, ty)
  BY DEF Return
<1> QED BY <1>1, <1>2, <1>3, ReturnStep

LEMMA FinishBinaryStep == IInv /\ FinishBinary => IInv'
<1> SUFFICES ASSUME IInv, FinishBinary PROVE IInv'
  OBVIOUS
<1>1. Complete({"arith", "cmp", "logic"})
  BY DEF FinishBinary
<1>2. Working /\ Op.k \in {"arith", "cmp", "logic"} /\ Op.x \in Text /\ ntemps \in Nat /\ lastType \in LLType
  BY <1>1, CompleteFacts
<1>3. Arity(Op) = 2
  BY <1>2, Arities DEF Binary
<1>4. Value(1) \in OperandType /\ Value(2) \in OperandType
  BY <1>1, <1>3, CompleteFacts
<1>5. "i32" \in LLType /\ (IF Op.k = "cmp" THEN "i1" ELSE "i32") \in LLType
  BY LLTypes
<1>6. <<Arg("i32", Value(1)), Arg("i32", Value(2))>> \in Seq(ArgType)
  BY <1>4, <1>5, ArgTypes
<1>7. Op.k \in Opcode
  BY <1>2, Opcodes, KindNames
<1> DEFINE ins == Def(Op.k, ntemps, IF Op.k = "cmp" THEN "i1" ELSE "i32",
                      <<Arg("i32", Value(1)), Arg("i32", Value(2))>>, Op.x)
<1>8. ins \in InsType /\ ins.res = <<ntemps>>
  BY <1>2, <1>5, <1>6, <1>7, DefTypes
<1>9. Emit(<<ins>>) /\ Return(Temp(ntemps), BinaryType(Op.k, lastType)) /\ mk_temp(1)
      /\ UNCHANGED <<prog, nlabels, failed>>
  BY DEF FinishBinary
<1>10. BinaryType(Op.k, lastType) \in LLType
  BY <1>2, LLTypes DEF BinaryType
<1> HIDE DEF ins
<1> QED BY <1>2, <1>8, <1>9, <1>10, DefineStep

LEMMA FinishSignStep == IInv /\ FinishSign => IInv'
<1> SUFFICES ASSUME IInv, FinishSign PROVE IInv'
  OBVIOUS
<1>1. Complete({"neg", "not"})
  BY DEF FinishSign
<1>2. Working /\ Op.k \in {"neg", "not"} /\ ntemps \in Nat /\ lastType \in LLType
  BY <1>1, CompleteFacts
<1>3. Arity(Op) = 1
  BY <1>2, Arities DEF Unary
<1>4. Value(1) \in OperandType
  BY <1>1, <1>3, CompleteFacts
<1>5. "i32" \in LLType /\ "" \in Text /\ Op.k \in Opcode
  BY <1>2, LLTypes, OwnSymbols, Opcodes, KindNames
<1>6. <<Arg("i32", Value(1))>> \in Seq(ArgType)
  <2>1. Arg("i32", Value(1)) \in ArgType
    BY <1>4, <1>5, ArgTypes
  <2> QED BY <2>1
<1> DEFINE ins == Def(Op.k, ntemps, "i32", <<Arg("i32", Value(1))>>, "")
<1>7. ins \in InsType /\ ins.res = <<ntemps>>
  BY <1>2, <1>5, <1>6, DefTypes
<1>8. Emit(<<ins>>) /\ Return(Temp(ntemps), lastType) /\ mk_temp(1) /\ UNCHANGED <<prog, nlabels, failed>>
  BY DEF FinishSign
<1> HIDE DEF ins
<1> QED BY <1>2, <1>7, <1>8, DefineStep

LEMMA FinishDerefStep == IInv /\ FinishDeref => IInv'
<1> SUFFICES ASSUME IInv, FinishDeref PROVE IInv'
  OBVIOUS
<1>1. Complete({"deref"})
  BY DEF FinishDeref
<1>2. Working /\ Op.k \in {"deref"} /\ ntemps \in Nat /\ lastType \in LLType
  BY <1>1, CompleteFacts
<1>3. Arity(Op) = 1
  BY <1>2, Arities DEF Unary
<1>4. Value(1) \in OperandType
  BY <1>1, <1>3, CompleteFacts
<1>5. mk_temp(1) /\ UNCHANGED <<prog, nlabels, failed>>
  BY DEF FinishDeref
<1>6. CASE Return(Value(1), lastType) /\ code' = code
  BY <1>2, <1>4, <1>5, <1>6, NoCodeStep
<1>7. CASE Emit(<<Load(ntemps, "i32", Value(1))>>) /\ Return(Temp(ntemps), lastType)
  <2> DEFINE ins == Load(ntemps, "i32", Value(1))
  <2>1. ins \in InsType /\ ins.res = <<ntemps>>
    BY <1>2, <1>4, LLTypes, LoadTypes
  <2>2. Emit(<<ins>>) /\ Return(Temp(ntemps), lastType)
    BY <1>7
  <2> HIDE DEF ins
  <2> QED BY <1>2, <1>5, <2>1, <2>2, DefineStep
<1> QED BY <1>6, <1>7 DEF FinishDeref

LEMMA FinishAddrStep == IInv /\ FinishAddr => IInv'
<1> SUFFICES ASSUME IInv, FinishAddr PROVE IInv'
  OBVIOUS
<1>1. Working
  BY DEF FinishAddr, Complete
<1>2. Local(Subject) \in OperandType
  BY LocalTypes DEF FinishAddr, OnLocal, Subject
<1>3. Return(Local(Subject), "i8*") /\ mk_temp(1) /\ UNCHANGED <<prog, nlabels, failed>>
  BY DEF FinishAddr
<1>4. code' = code
  BY DEF FinishAddr
<1>5. "i8*" \in LLType
  BY LLTypes
<1> QED BY <1>1, <1>2, <1>3, <1>4, <1>5, NoCodeStep

\* The four instructions of an increment define three temporaries.
LEMMA FourIns ==
  ASSUME NEW a \in InsType, NEW b \in InsType, NEW c \in InsType, NEW d \in InsType, NEW R,
         NEW t \in R, NEW u \in R, NEW v \in R, t # u, t # v, u # v,
         a.res = <<t>>, b.res = <<u>>, c.res = << >>, d.res = <<v>>
  PROVE  ResultsIn(<<a, b, c, d>>, R)
<1> DEFINE s == <<a, b, c, d>>
<1>1. /\ s \in Seq(InsType) /\ Len(s) = 4
      /\ s[1] = a /\ s[2] = b /\ s[3] = c /\ s[4] = d
  OBVIOUS
<1> HIDE DEF s
<1>2. <<t>> # << >> /\ <<u>> # << >> /\ <<v>> # << >> /\ <<t>> # <<u>> /\ <<t>> # <<v>> /\ <<u>> # <<v>>
  BY Singletons
<1>3. 1..Len(s) = {1, 2, 3, 4}
  BY <1>1
<1>4. \A i \in {1, 2, 3, 4} : s[i].res # << >> => \E w \in R : s[i].res = <<w>>
  BY <1>1
<1>5. \A i, j \in {1, 2, 3, 4} : s[i].res # << >> /\ s[i].res = s[j].res => i = j
  BY <1>1, <1>2
<1> QED BY <1>1, <1>3, <1>4, <1>5 DEF ResultsIn, s

LEMMA FinishIncStep == IInv /\ FinishInc => IInv'
<1> SUFFICES ASSUME IInv, FinishInc PROVE IInv'
  OBVIOUS
<1> DEFINE ty == VarType(Subject)
           res == ntemps
           old == ntemps + 1
           new == ntemps + 2
           a == Load(old, ty, Local(Subject))
           b == Def("step", new, ty, <<Arg(ty, Temp(old))>>, IF IsInc THEN "one_more" ELSE "one_less")
           c == Store(ty, Temp(new), Local(Subject))
           d == Def("copy", res, ty, <<Arg(ty, Temp(IF IsPre THEN new ELSE old))>>, "")
<1>1. Working
  BY DEF FinishInc, Complete
<1>2. ty \in LLType /\ Local(Subject) \in OperandType
  BY LocalTypes DEF FinishInc, OnLocal, Subject
<1>3. ntemps \in Nat /\ res \in Nat /\ old \in Nat /\ new \in Nat
  BY NewTempsFacts
<1>4. Temp(res) \in OperandType /\ Temp(old) \in OperandType /\ Temp(new) \in OperandType
  BY <1>3, OperandTypes
<1>5. "one_more" \in Text /\ "one_less" \in Text /\ "" \in Text /\ "step" \in Opcode /\ "copy" \in Opcode
  BY OwnSymbols, Opcodes
<1>6. code' = code \o <<a, b, c, d>>
  BY DEF FinishInc, Emit
<1>7. ReturnTo(Below, Temp(res), ty)
  BY DEF FinishInc, Return
<1> HIDE DEF ty, old, new
<1>8. a \in InsType /\ a.res = <<old>>
  BY <1>2, <1>3, LoadTypes
<1>9. b \in InsType /\ b.res = <<new>>
  <2>1. <<Arg(ty, Temp(old))>> \in Seq(ArgType)
    BY <1>2, <1>4, ArgTypes
  <2> QED BY <1>2, <1>3, <1>5, <2>1, DefTypes
<1>10. c \in InsType /\ c.res = << >>
  BY <1>2, <1>4, StoreTypes
<1>11. d \in InsType /\ d.res = <<res>>
  <2>1. <<Arg(ty, Temp(IF IsPre THEN new ELSE old))>> \in Seq(ArgType)
    BY <1>2, <1>4, ArgTypes
  <2> QED BY <1>2, <1>3, <1>5, <2>1, DefTypes
<1>12. old \in NewTemps(3) /\ new \in NewTemps(3) /\ res \in NewTemps(3) /\ old # new /\ old # res /\ new # res
  BY <1>3, NewTempsFacts DEF old, new
<1> HIDE DEF a, b, c, d, res
<1>13. ResultsIn(<<a, b, c, d>>, {} \cup NewTemps(3))
  BY <1>8, <1>9, <1>10, <1>11, <1>12, FourIns
<1>14. Rest(3)
  <2>1. ntemps' = ntemps + 3 /\ next' = next /\ UNCHANGED <<prog, nlabels, failed>>
    BY DEF FinishInc, Return, mk_temp
  <2>2. lastType' \in LLType
    BY <1>2, <1>7 DEF ReturnTo
  <2> QED BY <2>1, <2>2 DEF Rest, IInv, TypeOK
<1> QED BY <1>1, <1>2, <1>4, <1>6, <1>7, <1>13, <1>14, ReturnStep

LEMMA FinishAssignStep == IInv /\ FinishAssign => IInv'
<1> SUFFICES ASSUME IInv, FinishAssign PROVE IInv'
  OBVIOUS
<1>1. Complete({"assign", "assign_to"})
  BY DEF FinishAssign
<1>2. Working /\ Op.k \in {"assign", "assign_to"} /\ ntemps \in Nat /\ lastType \in LLType /\ Op.k \in Kind
  BY <1>1, CompleteFacts
<1>3. Temp(ntemps) \in OperandType
  BY <1>2, OperandTypes
<1>4. Return(Temp(ntemps), lastType) /\ mk_temp(1) /\ UNCHANGED <<prog, nlabels, failed>>
  BY DEF FinishAssign
<1>5. ASSUME NEW v \in OperandType, NEW a \in OperandType, Emit(<<Store(lastType, v, a)>>) PROVE IInv'
  <2> DEFINE s == <<Store(lastType, v, a)>>
  <2>1. Store(lastType, v, a) \in InsType /\ Store(lastType, v, a).res = << >>
    BY <1>2, StoreTypes
  <2>2. s \in Seq(InsType) /\ (\A i \in 1..Len(s) : s[i].res = << >>) /\ code' = code \o s
    BY <1>5, <2>1 DEF Emit
  <2> HIDE DEF s
  <2> QED BY <1>2, <1>3, <1>4, <2>2, SilentStep
<1>6. CASE Op.k = "assign"
  <2>1. Arity(Op) = 1
    BY <1>6, Arities DEF Unary
  <2>2. Value(1) \in OperandType
    BY <1>1, <2>1, CompleteFacts
  <2>3. Known(Op.x)
    BY <1>2, <1>6, TopFacts, NodeRules DEF Op
  <2>4. Address(Op.x) \in OperandType
    BY <2>3, VarTypes
  <2>5. Emit(<<Store(lastType, Value(1), Address(Op.x))>>)
    BY <1>6 DEF FinishAssign
  <2> QED BY <2>2, <2>4, <2>5, <1>5
<1>7. CASE Op.k = "assign_to"
  <2>1. Arity(Op) = 2
    BY <1>7, Arities DEF Binary
  <2>2. Value(1) \in OperandType /\ Value(2) \in OperandType
    BY <1>1, <2>1, CompleteFacts
  <2>3. Emit(<<Store(lastType, Value(2), Value(1))>>)
    BY <1>7 DEF FinishAssign
  <2> QED BY <2>2, <2>3, <1>5
<1> QED BY <1>2, <1>6, <1>7

-----------------------------------------------------------------------------
(***************************************************************************)
(* The conditional expression.                                             *)
(***************************************************************************)
LEMMA TernaryFacts ==
  ASSUME IInv, NEW n \in {1, 2, 3}, TernaryAt(n)
  PROVE  /\ Working /\ Op.k = "ternary" /\ Len(Top.vals) = n /\ Top.dealt < n /\ Top.dealt \in Nat
         /\ Top.dealt + 1 >= n /\ Top.lbl \in Seq(Nat) /\ Top.at \in Nat
         /\ n > 1 => Len(Top.lbl) = 3 /\ Top.lbl[1] \in Nat /\ Top.lbl[2] \in Nat /\ Top.lbl[3] \in Nat
         /\ \A i \in 1..n : Value(i) \in OperandType
         /\ ntemps \in Nat /\ lastType \in LLType /\ nlabels \in Nat /\ failed \in BOOLEAN /\ next \in Nat
<1>1. Working /\ Op.k = "ternary" /\ Len(Top.vals) = n /\ Top.dealt < n
  BY DEF TernaryAt
<1>2. Top.dealt \in Nat /\ Top.lbl \in Seq(Nat) /\ FrameOK(Top) /\ Top.at \in DOMAIN prog
  BY <1>1, TopFacts
<1>3. Top.dealt + 1 >= n
  BY <1>1, <1>2 DEF FrameOK, Op
<1>4. ASSUME n > 1 PROVE Len(Top.lbl) = 3 /\ Top.lbl[1] \in Nat /\ Top.lbl[2] \in Nat /\ Top.lbl[3] \in Nat
  <2>1. Top.dealt > 0
    BY <1>2, <1>3, <1>4
  <2>2. Len(Top.lbl) = 3
    BY <1>2, <2>1 DEF FrameOK
  <2> QED BY <1>2, <2>2, ElementOfSeq
<1>5. \A i \in 1..n : Value(i) \in OperandType
  BY <1>1, ValueFacts
<1>6. Top.at \in Nat
  BY <1>2, NodeFacts
<1>7. ntemps \in Nat /\ lastType \in LLType /\ nlabels \in Nat /\ failed \in BOOLEAN /\ next \in Nat
  BY DEF IInv, TypeOK
<1> QED BY <1>1, <1>2, <1>3, <1>4, <1>5, <1>6, <1>7

\* The branches for the values so far are emitted.
LEMMA DealStep ==
  ASSUME IInv, Working, Op.k = "ternary", NEW lbl \in Seq(Nat), Len(lbl) = 3, Deal(lbl),
         NEW s \in Seq(InsType), \A i \in 1..Len(s) : s[i].res = << >>, code' = code \o s,
         nlabels' \in Nat, UNCHANGED <<prog, next, lastType, ntemps, failed>>
  PROVE  IInv'
<1> DEFINE g == [Top EXCEPT !.dealt = Len(Top.vals), !.lbl = lbl]
<1>1. /\ Len(stack) \in Nat /\ Len(stack) \in 1..Len(stack) /\ FrameOK(Top) /\ Top \in FrameType
      /\ Top.vals \in Seq(ArgType) /\ Len(Top.vals) \in Nat
  BY TopFacts
<1>2. g \in FrameType /\ g.at = Top.at /\ g.res = Top.res /\ g.vals = Top.vals /\ g.dealt = Len(Top.vals) /\ g.lbl = lbl
  BY <1>1 DEF FrameType
<1>3. stack' = [stack EXCEPT ![Len(stack)] = g]
  BY <1>1 DEF Deal, Top
<1> HIDE DEF g
<1>4. FrameOK(g)
  BY <1>1, <1>2 DEF FrameOK
<1>5. stack \in Seq(FrameType)
  BY DEF IInv, StackOK
<1>6. g \in FrameType
  BY <1>2
<1>7. /\ stack' \in Seq(FrameType) /\ Len(stack') = Len(stack)
      /\ \A i \in 1..Len(stack) : stack'[i] = IF i = Len(stack) THEN g ELSE stack[i]
  BY <1>1, <1>3, <1>5, <1>6, ExceptSeq
<1>8. ASSUME NEW i \in 1..Len(stack')
      PROVE  /\ FrameOK(stack'[i]) /\ (i < Len(stack') => Waits(stack'[i]))
             /\ stack'[i].at = stack[i].at /\ stack'[i].res = stack[i].res
  <2>1. i \in 1..Len(stack) /\ FrameOK(stack[i]) /\ (i < Len(stack) => Waits(stack[i]))
    BY <1>7 DEF IInv, StackOK
  <2>2. CASE i = Len(stack)
    BY <2>1, <2>2, <1>1, <1>2, <1>4, <1>7 DEF Top
  <2>3. CASE i # Len(stack)
    BY <2>1, <2>3, <1>1, <1>7
  <2> QED BY <2>2, <2>3
<1>9. StackOK(stack') /\ Keeps(stack', stack)
  BY <1>7, <1>8 DEF StackOK, Keeps, Pending
<1>10. ResultsIn(s, {} \cup (ntemps..(ntemps' - 1)))
  BY Silent
<1>11. StepTo(s, {})
  BY <1>9, <1>10, NothingOwed DEF StepTo, IInv, TypeOK
<1> QED BY <1>11, Step

LEMMA TwoSilent ==
  ASSUME NEW a \in InsType, NEW b \in InsType, a.res = << >>, b.res = << >>
  PROVE  <<a, b>> \in Seq(InsType) /\ \A i \in 1..Len(<<a, b>>) : <<a, b>>[i].res = << >>
<1> DEFINE s == <<a, b>>
<1>1. s \in Seq(InsType) /\ Len(s) = 2 /\ s[1] = a /\ s[2] = b
  OBVIOUS
<1> HIDE DEF s
<1>2. 1..Len(s) = {1, 2}
  BY <1>1
<1>3. \A i \in {1, 2} : s[i].res = << >>
  BY <1>1
<1>4. s \in Seq(InsType) /\ \A i \in 1..Len(s) : s[i].res = << >>
  BY <1>1, <1>2, <1>3
<1> QED BY <1>4 DEF s

LEMMA TernaryBranchStep == IInv /\ TernaryBranch => IInv'
<1> SUFFICES ASSUME IInv, TernaryBranch PROVE IInv'
  OBVIOUS
<1> DEFINE lbl == <<nlabels, nlabels + 1, nlabels + 2>>
           a == CBr(Top.at, Value(1), nlabels, nlabels + 1)
           b == Label(nlabels)
<1>1. TernaryAt(1)
  BY DEF TernaryBranch
<1>2. Working /\ Op.k = "ternary" /\ Top.at \in Nat /\ Value(1) \in OperandType /\ nlabels \in Nat
  BY <1>1, TernaryFacts
<1>3. nlabels + 1 \in Nat /\ nlabels + 2 \in Nat /\ nlabels + 3 \in Nat
  BY <1>2
<1>4. a \in InsType /\ a.res = << >> /\ b \in InsType /\ b.res = << >>
  BY <1>2, <1>3, CBrTypes, LabelTypes
<1>5. lbl \in Seq(Nat) /\ Len(lbl) = 3
  BY <1>2, <1>3
<1>6. Deal(lbl) /\ code' = code \o <<a, b>>
  BY DEF TernaryBranch, Emit
<1> HIDE DEF lbl, a, b
<1>7. nlabels' \in Nat /\ UNCHANGED <<prog, next, lastType, ntemps, failed>>
  BY <1>3 DEF TernaryBranch
<1>8. <<a, b>> \in Seq(InsType) /\ \A i \in 1..Len(<<a, b>>) : <<a, b>>[i].res = << >>
  BY <1>4, TwoSilent
<1> QED BY <1>2, <1>5, <1>6, <1>7, <1>8, DealStep

LEMMA TernaryElseStep == IInv /\ TernaryElse => IInv'
<1> SUFFICES ASSUME IInv, TernaryElse PROVE IInv'
  OBVIOUS
<1> DEFINE a == Br(Top.lbl[3])
           b == Label(Top.lbl[2])
<1>1. TernaryAt(2)
  BY DEF TernaryElse
<1>2. /\ Working /\ Op.k = "ternary" /\ nlabels \in Nat /\ Top.lbl \in Seq(Nat) /\ Len(Top.lbl) = 3
      /\ Top.lbl[2] \in Nat /\ Top.lbl[3] \in Nat
  BY <1>1, TernaryFacts
<1>3. a \in InsType /\ a.res = << >> /\ b \in InsType /\ b.res = << >>
  BY <1>2, LabelTypes
<1>4. Deal(Top.lbl) /\ code' = code \o <<a, b>> /\ UNCHANGED <<prog, next, lastType, ntemps, nlabels, failed>>
  BY DEF TernaryElse, Emit
<1> HIDE DEF a, b
<1>5. <<a, b>> \in Seq(InsType) /\ \A i \in 1..Len(<<a, b>>) : <<a, b>>[i].res = << >>
  BY <1>3, TwoSilent
<1>6. nlabels' \in Nat
  BY <1>2, <1>4
<1> QED BY <1>2, <1>4, <1>5, <1>6, DealStep

LEMMA TernaryJoinStep == IInv /\ TernaryJoin => IInv'
<1> SUFFICES ASSUME IInv, TernaryJoin PROVE IInv'
  OBVIOUS
<1> DEFINE a == Br(Top.lbl[3])
           b == Label(Top.lbl[3])
           c == Phi(ntemps, lastType, Value(2), Value(3), Top.lbl[1], Top.lbl[2])
<1>1. TernaryAt(3)
  BY DEF TernaryJoin
<1>2. /\ Working /\ Top.lbl[1] \in Nat /\ Top.lbl[2] \in Nat /\ Top.lbl[3] \in Nat
      /\ ntemps \in Nat /\ lastType \in LLType
  BY <1>1, TernaryFacts
<1>3. Value(2) \in OperandType /\ Value(3) \in OperandType
  <2>1. 2 \in 1..3 /\ 3 \in 1..3
    OBVIOUS
  <2> QED BY <1>1, <2>1, TernaryFacts
<1>4. a \in InsType /\ a.res = << >> /\ b \in InsType /\ b.res = << >>
  BY <1>2, LabelTypes
<1>5. c \in InsType /\ c.res = <<ntemps>>
  <2>1. ntemps \in Nat /\ lastType \in LLType
    BY <1>2
  <2>2. Top.lbl[1] \in Nat /\ Top.lbl[2] \in Nat
    BY <1>2
  <2>3. \A l, m \in Nat : \A v, w \in OperandType :
          /\ Phi(ntemps, lastType, v, w, l, m) \in InsType
          /\ Phi(ntemps, lastType, v, w, l, m).res = <<ntemps>>
    BY <2>1, PhiTypes
  <2> QED BY <2>2, <2>3, <1>3
<1>6. /\ code' = code \o <<a, b, c>> /\ ReturnTo(Below, Temp(ntemps), lastType)
      /\ ntemps' = ntemps + 1 /\ next' = next /\ UNCHANGED <<prog, nlabels, failed>>
  BY DEF TernaryJoin, Emit, Return, mk_temp
<1> HIDE DEF a, b, c
<1>7. Rest(1)
  BY <1>2, <1>6 DEF Rest, IInv, TypeOK, ReturnTo
<1>8. ResultsIn(<<a, b, c>>, {} \cup NewTemps(1))
  <2> DEFINE s == <<a, b, c>>
  <2>1. s \in Seq(InsType) /\ Len(s) = 3 /\ s[1] = a /\ s[2] = b /\ s[3] = c
    BY <1>4, <1>5
  <2> HIDE DEF s
  <2>2. 1..Len(s) = {1, 2, 3}
    BY <2>1
  <2>3. ntemps \in {} \cup NewTemps(1)
    BY NewTempsFacts
  <2>4. \A i \in {1, 2, 3} : s[i].res # << >> => \E w \in {} \cup NewTemps(1) : s[i].res = <<w>>
    BY <1>4, <1>5, <2>1, <2>3
  <2>5. \A i, j \in {1, 2, 3} : s[i].res # << >> /\ s[i].res = s[j].res => i = j
    BY <1>4, <1>5, <2>1, Singletons
  <2> QED BY <2>1, <2>2, <2>4, <2>5 DEF ResultsIn, s
<1>9. Temp(ntemps) \in OperandType
  BY <1>2, OperandTypes
<1> QED BY <1>2, <1>6, <1>7, <1>8, <1>9, ReturnStep

-----------------------------------------------------------------------------
(***************************************************************************)
(* Calls.                                                                  *)
(***************************************************************************)
LEMMA FinishCallStep == IInv /\ FinishCall => IInv'
<1> SUFFICES ASSUME IInv, FinishCall PROVE IInv'
  OBVIOUS
<1> DEFINE ret == CallRet(Op.x)
           ins == CallIns(Top.res, ret, Top.vals, Op.x)
           n == IF ret = "void" THEN 1 ELSE 0
           v == Temp(IF ret = "void" THEN ntemps ELSE Top.res)
<1>1. Complete({"call"})
  BY DEF FinishCall
<1>2. Working /\ Op.k \in {"call"} /\ Op.x \in Text /\ Top.vals \in Seq(ArgType) /\ ntemps \in Nat
  BY <1>1, CompleteFacts
<1>3. Top.res \in Nat
  BY <1>2, TopFacts
<1>4. ret \in LLType
  BY CallRetType
<1>5. /\ code' = code \o <<ins>> /\ ReturnTo(Below, v, ret) /\ ntemps' = ntemps + n /\ next' = next
      /\ UNCHANGED <<prog, nlabels, failed>>
  BY DEF FinishCall, Emit, Return, mk_temp
<1>6. v \in OperandType /\ n \in Nat
  BY <1>2, <1>3, OperandTypes
<1> HIDE DEF ret, v
<1>7. /\ ins \in InsType /\ (ret = "void" => ins.res = << >>) /\ (ret # "void" => ins.res = <<Top.res>>)
  BY <1>2, <1>3, <1>4, CallInsTypes
<1> HIDE DEF ins, n
<1>8. ResultsIn(<<ins>>, {Top.res} \cup NewTemps(n))
  BY <1>7, OneIns
<1>9. Rest(n)
  BY <1>4, <1>5, <1>6 DEF Rest, IInv, TypeOK, ReturnTo
<1>10. Pending(Top)
  BY <1>2 DEF Pending, Op
<1> QED BY <1>2, <1>4, <1>5, <1>6, <1>8, <1>9, <1>10, ReturnStep

LEMMA FinishCallPtrStep == IInv /\ FinishCallPtr => IInv'
<1> SUFFICES ASSUME IInv, FinishCallPtr PROVE IInv'
  OBVIOUS
<1> DEFINE ret == FnPtrs[Op.x]
           args == <<Ptr(Temp(Top.res))>> \o Top.vals
           ins == CallIns(ntemps, ret, args, Op.x)
<1>1. Complete({"callptr"})
  BY DEF FinishCallPtr
<1>2. Working /\ Op.k \in {"callptr"} /\ Op.x \in Text /\ Top.vals \in Seq(ArgType) /\ ntemps \in Nat
  BY <1>1, CompleteFacts
<1>3. Top.res \in Nat /\ Top.at \in DOMAIN prog
  BY <1>2, TopFacts
<1>4. ret \in LLType
  <2>1. Op.x \in DOMAIN FnPtrs
    BY <1>2, <1>3, NodeRules DEF Op
  <2> QED BY <2>1, MapsAssumption
<1>5. args \in Seq(ArgType)
  <2>1. <<Ptr(Temp(Top.res))>> \in Seq(ArgType)
    BY <1>3, OperandTypes, PtrTypes
  <2> QED BY <1>2, <2>1, ConcatProperties
<1>6. /\ code' = code \o <<ins>> /\ ReturnTo(Below, Temp(ntemps), ret) /\ ntemps' = ntemps + 1 /\ next' = next
      /\ UNCHANGED <<prog, nlabels, failed>>
  BY DEF FinishCallPtr, Emit, Return, mk_temp
<1> HIDE DEF ret, args
<1>7. ins \in InsType /\ (ret = "void" => ins.res = << >>) /\ (ret # "void" => ins.res = <<ntemps>>)
  BY <1>2, <1>4, <1>5, CallInsTypes
<1> HIDE DEF ins
<1>8. ntemps \in {} \cup NewTemps(1)
  BY NewTempsFacts
<1>9. ResultsIn(<<ins>>, {} \cup NewTemps(1))
  BY <1>7, <1>8, OneIns
<1>10. Rest(1)
  BY <1>4, <1>6 DEF Rest, IInv, TypeOK, ReturnTo
<1>11. Temp(ntemps) \in OperandType
  BY <1>2, OperandTypes
<1> QED BY <1>2, <1>4, <1>6, <1>9, <1>10, <1>11, ReturnStep

LEMMA FinishMarkedStep == IInv /\ FinishMarked => IInv'
<1> SUFFICES ASSUME IInv, FinishMarked PROVE IInv'
  OBVIOUS
<1> DEFINE ret == MarkedType[Op.k]
           arg == <<Arg(IF Op.k = "abs_int" THEN "i32" ELSE "i8*", Value(1))>>
           ins == IF Op.k = "is_null" THEN Def("is_null", ntemps, ret, arg, "")
                                      ELSE CallIns(ntemps, ret, arg, Op.k)
<1>1. Complete(Marked)
  BY DEF FinishMarked
<1>2. Working /\ Op.k \in Marked /\ Op.k \in Kind /\ ntemps \in Nat
  BY <1>1, CompleteFacts
<1>3. Op.n = 1
  BY <1>2, TopFacts DEF FrameOK, Op
<1>4. Value(1) \in OperandType
  <2>1. Arity(Op) = 1
    BY <1>2, <1>3, Arities
  <2> QED BY <1>1, <2>1, CompleteFacts
<1>5. ret \in LLType
  BY <1>2, LLTypes DEF MarkedType, Marked
<1>6. arg \in Seq(ArgType)
  <2>1. (IF Op.k = "abs_int" THEN "i32" ELSE "i8*") \in LLType
    BY LLTypes
  <2>2. Arg(IF Op.k = "abs_int" THEN "i32" ELSE "i8*", Value(1)) \in ArgType
    BY <1>4, <2>1, ArgTypes
  <2> QED BY <2>2
<1>7. Op.k \in Text /\ "" \in Text /\ "is_null" \in Opcode
  BY <1>2, OwnSymbols, Opcodes, KindNames
<1>8. code' = code \o <<ins>>
  BY DEF FinishMarked, Emit
<1>9. /\ ReturnTo(Below, Temp(ntemps), ret) /\ ntemps' = ntemps + 1 /\ next' = next
      /\ UNCHANGED <<prog, nlabels, failed>>
  BY DEF FinishMarked, Return, mk_temp
<1> HIDE DEF ret, arg
<1>10. ins \in InsType /\ (ins.res = << >> \/ ins.res = <<ntemps>>)
  <2>1. CASE Op.k = "is_null"
    BY <2>1, <1>2, <1>5, <1>6, <1>7, DefTypes
  <2>2. CASE Op.k # "is_null"
    BY <2>2, <1>2, <1>5, <1>6, <1>7, CallInsTypes
  <2> QED BY <2>1, <2>2
<1> HIDE DEF ins
<1>11. ntemps \in {} \cup NewTemps(1)
  BY NewTempsFacts
<1>12. ResultsIn(<<ins>>, {} \cup NewTemps(1))
  BY <1>10, <1>11, OneIns
<1>13. Rest(1)
  BY <1>5, <1>9 DEF Rest, IInv, TypeOK, ReturnTo
<1>14. Temp(ntemps) \in OperandType
  BY <1>2, OperandTypes
<1> QED BY <1>2, <1>5, <1>8, <1>9, <1>12, <1>13, <1>14, ReturnStep


\* The result named at the start, after the length was widened or not.
LEMMA FinishSysStep == IInv /\ FinishSys => IInv'
<1> SUFFICES ASSUME IInv, FinishSys PROVE IInv'
  OBVIOUS
<1> DEFINE widen == Op.k = "write" /\ lastType = "i32"
           size  == IF widen THEN Temp(ntemps) ELSE Value(3)
           n     == IF widen THEN 1 ELSE 0
           ext   == Def("sext", ntemps, "i64", <<Arg("i32", Value(3))>>, "")
           s     == IF widen THEN <<ext>> ELSE << >>
           call  == Def("call", Top.res, "i64",
                        <<Arg("i32", Value(1)), Ptr(Value(2)), Arg("i64", size)>>, Op.k)
           len   == Def("call", Top.res, "i64", <<Ptr(Value(1))>>, "strlen")
<1>1. Complete(DOMAIN SysArity)
  BY DEF FinishSys
<1>2. /\ Working /\ Op.k \in {"strlen", "write", "read"} /\ Op.k \in Kind /\ Top.vals \in Seq(ArgType)
      /\ ntemps \in Nat /\ Len(Top.vals) = Arity(Op)
  BY <1>1, CompleteFacts DEF SysArity
<1>3. Top.res \in Nat /\ FrameOK(Top)
  BY <1>2, TopFacts
<1>4. Op.n = SysArity[Op.k]
  BY <1>1, <1>3 DEF FrameOK, Op, Complete
<1>5. Arity(Op) = Op.n
  BY <1>2, Arities DEF Calls
<1>6. "i32" \in LLType /\ "i64" \in LLType /\ "call" \in Opcode /\ "sext" \in Opcode
      /\ "" \in Text /\ "strlen" \in Text /\ Op.k \in Text
  BY <1>2, LLTypes, Opcodes, OwnSymbols, KindNames
<1>7. Pending(Top)
  BY <1>1 DEF Pending, Op, Complete
<1>8. /\ ReturnTo(Below, Temp(Top.res), "i64") /\ ntemps' = ntemps + n /\ next' = next
      /\ UNCHANGED <<prog, nlabels, failed>>
  BY DEF FinishSys, Return, mk_temp
<1>9. code' = code \o (IF Op.k = "strlen" THEN <<len>> ELSE s \o <<call>>)
  BY DEF FinishSys, Emit
<1>10. n \in Nat
  OBVIOUS
<1>11. Rest(n)
  BY <1>6, <1>8, <1>10 DEF Rest, IInv, TypeOK, ReturnTo
<1>12. Temp(Top.res) \in OperandType /\ Temp(ntemps) \in OperandType
  BY <1>2, <1>3, OperandTypes
<1> DEFINE R == {Top.res} \cup NewTemps(n)
<1>13. ASSUME NEW t, code' = code \o t, ResultsIn(t, R) PROVE IInv'
  BY <1>2, <1>6, <1>7, <1>8, <1>11, <1>12, <1>13, ReturnStep
<1>14. CASE Op.k = "strlen"
  <2>1. Value(1) \in OperandType
    <3>1. 1 \in 1..Len(Top.vals)
      BY <1>2, <1>4, <1>5, <1>14 DEF SysArity
    <3> QED BY <1>2, <3>1, ValueFacts
  <2>2. <<Ptr(Value(1))>> \in Seq(ArgType)
    BY <2>1, PtrTypes
  <2>3. len \in InsType /\ len.res = <<Top.res>>
    <3>1. "call" \in Opcode /\ "strlen" \in Text /\ "i64" \in LLType /\ Top.res \in Nat
      BY <1>3, <1>6
    <3> QED BY <3>1, <2>2, DefTypes
  <2>4. code' = code \o <<len>> /\ Top.res \in R
    BY <1>9, <1>14
  <2> HIDE DEF len, R
  <2>5. ResultsIn(<<len>>, R)
    BY <2>3, <2>4, OneIns
  <2> QED BY <1>13, <2>4, <2>5
<1>15. CASE Op.k # "strlen"
  <2>1. Value(1) \in OperandType /\ Value(2) \in OperandType /\ Value(3) \in OperandType
    <3>1. 1 \in 1..Len(Top.vals) /\ 2 \in 1..Len(Top.vals) /\ 3 \in 1..Len(Top.vals)
      BY <1>2, <1>4, <1>5, <1>15 DEF SysArity
    <3> QED BY <1>2, <3>1, ValueFacts
  <2>2. size \in OperandType
    BY <1>12, <2>1
  <2>3. call \in InsType /\ call.res = <<Top.res>>
    <3> HIDE DEF size
    <3>1. <<Arg("i32", Value(1)), Ptr(Value(2)), Arg("i64", size)>> \in Seq(ArgType)
      <4>1. Arg("i32", Value(1)) \in ArgType /\ Ptr(Value(2)) \in ArgType
        BY <1>6, <2>1, ArgTypes, PtrTypes
      <4>2. Arg("i64", size) \in ArgType
        BY <1>6, <2>2, ArgTypes
      <4> QED BY <4>1, <4>2
    <3>2. "call" \in Opcode /\ Op.k \in Text /\ "i64" \in LLType /\ Top.res \in Nat
      BY <1>3, <1>6
    <3> QED BY <3>1, <3>2, DefTypes
  <2>4. ext \in InsType /\ ext.res = <<ntemps>>
    <3>1. <<Arg("i32", Value(3))>> \in Seq(ArgType)
      <4>1. Arg("i32", Value(3)) \in ArgType
        BY <1>6, <2>1, ArgTypes
      <4> QED BY <4>1
    <3> QED BY <1>2, <1>6, <3>1, DefTypes
  <2>5. code' = code \o (s \o <<call>>)
    BY <1>9, <1>15
  <2>6. ResultsIn(s, NewTemps(n))
    <3>1. CASE widen
      <4>1. ntemps \in NewTemps(n)
        BY <3>1, NewTempsFacts
      <4>2. ResultsIn(<<ext>>, NewTemps(n))
        <5> HIDE DEF ext, n
        <5> QED BY <2>4, <4>1, OneIns
      <4> QED BY <3>1, <4>2
    <3>2. CASE ~widen
      BY <3>2, NoIns
    <3> QED BY <3>1, <3>2
  <2>7. ResultsIn(<<call>>, {Top.res})
    <3> HIDE DEF call
    <3> QED BY <2>3, OneIns
  <2>8. Top.res \notin NewTemps(n)
    <3>1. Top.res < ntemps
      BY <1>7, <1>2, TopFacts DEF IInv, Reserved, Top
    <3> QED BY <3>1, <1>2, <1>3, <1>10 DEF NewTemps
  <2> HIDE DEF s, call, n, R
  <2>9. \A t \in {Top.res} : Undefined(t, s)
    BY <2>6, <2>8, OnlyIn
  <2>10. ResultsIn(s \o <<call>>, NewTemps(n) \cup {Top.res})
    BY <2>6, <2>7, <2>9, Concatenation
  <2>11. NewTemps(n) \cup {Top.res} = R
    BY DEF R
  <2>12. ResultsIn(s \o <<call>>, R)
    BY <2>10, <2>11
  <2> QED BY <1>13, <2>5, <2>12
<1> QED BY <1>14, <1>15

LEMMA CastOpType == ASSUME NEW src \in LLType, NEW dst \in LLType PROVE CastOp(src, dst) # "none" => CastOp(src, dst) \in Opcode
BY Opcodes DEF CastOp

LEMMA FinishCastStep == IInv /\ FinishCast => IInv'
<1> SUFFICES ASSUME IInv, FinishCast PROVE IInv'
  OBVIOUS
<1> DEFINE dst == llvm_type[Op.ty]
           op  == CastOp(lastType, dst)
           ins == Def(op, ntemps, dst, <<Arg(lastType, Value(1))>>, "")
<1>1. Complete({"cast"})
  BY DEF FinishCast
<1>2. Working /\ Op.k \in {"cast"} /\ ntemps \in Nat /\ lastType \in LLType
  BY <1>1, CompleteFacts
<1>3. Arity(Op) = 1
  BY <1>2, Arities DEF Unary
<1>4. Value(1) \in OperandType
  BY <1>1, <1>3, CompleteFacts
<1>5. dst \in LLType
  <2>1. Op.ty \in UCType
    BY <1>2, TopFacts, NodeRules DEF Op
  <2> QED BY <2>1, llvm_type_Type
<1>6. mk_temp(1) /\ UNCHANGED <<prog, nlabels, failed>>
  BY DEF FinishCast
<1> HIDE DEF dst
<1>7. CASE op = "none"
  <2>1. Return(Value(1), dst) /\ code' = code
    BY <1>7 DEF FinishCast, dst
  <2> QED BY <1>2, <1>4, <1>5, <1>6, <2>1, NoCodeStep
<1>8. CASE op # "none"
  <2>1. op \in Opcode /\ "" \in Text
    BY <1>2, <1>5, <1>8, CastOpType, OwnSymbols
  <2>2. <<Arg(lastType, Value(1))>> \in Seq(ArgType)
    BY <1>2, <1>4, ArgTypes
  <2>3. ins \in InsType /\ ins.res = <<ntemps>>
    BY <1>2, <1>5, <2>1, <2>2, DefTypes
  <2>4. Emit(<<ins>>) /\ Return(Temp(ntemps), dst)
    BY <1>8 DEF FinishCast, dst
  <2> HIDE DEF ins
  <2> QED BY <1>2, <1>5, <1>6, <2>3, <2>4, DefineStep
<1> QED BY <1>7, <1>8

-----------------------------------------------------------------------------
(***************************************************************************)
(* Statements.                                                             *)
(***************************************************************************)
LEMMA FinishOne ==
  ASSUME IInv, NEW ins \in InsType, ins.res = << >>, Finish(<<ins>>, 0)
  PROVE  IInv'
<1>1. ResultsIn(<<ins>>, NewTemps(0))
  BY OneIns
<1> QED BY <1>1, FinishStep

LEMMA FinishDeclStep == IInv /\ FinishDecl => IInv'
<1> SUFFICES ASSUME IInv, FinishDecl PROVE IInv'
  OBVIOUS
<1> DEFINE dst == llvm_type[Op.ty]
           op  == DeclOp(lastType, dst)
           a   == Def(op, ntemps, "i32", <<Arg(lastType, Value(1))>>, "")
           b   == Store("i32", Temp(ntemps), Local(Op.x))
           c   == Store(dst, Value(1), Local(Op.x))
<1>1. Complete({"decl"})
  BY DEF FinishDecl
<1>2. Working /\ Op.k \in {"decl"} /\ ntemps \in Nat /\ lastType \in LLType /\ Op.x \in Text
  BY <1>1, CompleteFacts
<1>3. Arity(Op) = 1
  BY <1>2, Arities
<1>4. Value(1) \in OperandType /\ Local(Op.x) \in OperandType /\ Temp(ntemps) \in OperandType
  BY <1>1, <1>2, <1>3, CompleteFacts, OperandTypes
<1>5. dst \in LLType
  <2>1. Op.ty \in UCType
    BY <1>2, TopFacts, NodeRules DEF Op
  <2> QED BY <2>1, llvm_type_Type
<1>6. "i32" \in LLType /\ "" \in Text /\ "zext" \in Opcode /\ "trunc" \in Opcode
  BY LLTypes, OwnSymbols, Opcodes
<1>7. \/ lastType = dst /\ Finish(<<c>>, 0)
      \/ Fail
      \/ op # "mismatch" /\ Finish(<<a, b>>, 1)
  BY DEF FinishDecl
<1> HIDE DEF dst
<1>8. CASE Finish(<<c>>, 0)
  <2>1. c \in InsType /\ c.res = << >>
    BY <1>4, <1>5, StoreTypes
  <2> HIDE DEF c
  <2> QED BY <1>8, <2>1, FinishOne
<1>9. CASE op # "mismatch" /\ Finish(<<a, b>>, 1)
  <2>1. op \in Opcode
    BY <1>6, <1>9 DEF DeclOp
  <2>2. <<Arg(lastType, Value(1))>> \in Seq(ArgType)
    BY <1>2, <1>4, ArgTypes
  <2>3. a \in InsType /\ a.res = <<ntemps>>
    BY <1>2, <1>6, <2>1, <2>2, DefTypes
  <2>4. b \in InsType /\ b.res = << >>
    BY <1>4, <1>6, StoreTypes
  <2> HIDE DEF a, b
  <2>5. ntemps \in NewTemps(1)
    BY NewTempsFacts
  <2>6. ResultsIn(<<a, b>>, NewTemps(1))
    <3> DEFINE s == <<a, b>>
    <3>1. s \in Seq(InsType) /\ Len(s) = 2 /\ s[1] = a /\ s[2] = b
      BY <2>3, <2>4
    <3> HIDE DEF s
    <3>2. 1..Len(s) = {1, 2}
      BY <3>1
    <3>3. \A i \in {1, 2} : s[i].res # << >> => \E t \in NewTemps(1) : s[i].res = <<t>>
      BY <2>3, <2>4, <2>5, <3>1
    <3>4. \A i, j \in {1, 2} : s[i].res # << >> /\ s[i].res = s[j].res => i = j
      BY <2>3, <2>4, <3>1, Singletons
    <3> QED BY <3>1, <3>2, <3>3, <3>4 DEF ResultsIn, s
  <2>7. Finish(<<a, b>>, 1)
    BY <1>9
  <2> QED BY <2>6, <2>7, FinishStep
<1> QED BY <1>7, <1>8, <1>9, FailStep

LEMMA FinishDeclFnStep == IInv /\ FinishDeclFn => IInv'
<1> SUFFICES ASSUME IInv, FinishDeclFn PROVE IInv'
  OBVIOUS
<1> DEFINE ins == Store("i8*", Global(Op.outs[1]), Local(Op.x))
<1>1. Complete({"decl_fn"})
  BY DEF FinishDeclFn
<1>2. Working /\ Op.k \in {"decl_fn"} /\ Op.x \in Text /\ Op.outs \in Seq(Text)
  BY <1>1, CompleteFacts
<1>3. Op.outs[1] \in Text
  <2>1. Op.outs # << >>
    BY <1>2, TopFacts, NodeRules DEF Op
  <2>2. 1 \in 1..Len(Op.outs)
    BY <1>2, <2>1, EmptySeq, LenProperties
  <2> QED BY <1>2, <2>2, ElementOfSeq
<1>4. "i8*" \in LLType
  BY LLTypes
<1>5. ins \in InsType /\ ins.res = << >>
  BY <1>2, <1>3, <1>4, OperandTypes, StoreTypes
<1>6. Finish(<<ins>>, 0)
  BY DEF FinishDeclFn
<1> HIDE DEF ins
<1> QED BY <1>5, <1>6, FinishOne

LEMMA FinishEvalStep == IInv /\ FinishEval => IInv'
<1> SUFFICES ASSUME IInv, FinishEval PROVE IInv'
  OBVIOUS
<1> QED BY NoIns, FinishStep DEF FinishEval

\* A statement that passes its value, as an i1 or another type, to one instruction.
LEMMA UseTypes ==
  ASSUME NEW op \in Opcode, NEW ty \in LLType, NEW v \in OperandType, NEW x \in Text
  PROVE  Do(op, <<Arg(ty, v)>>, x) \in InsType /\ Do(op, <<Arg(ty, v)>>, x).res = << >>
<1>1. <<Arg(ty, v)>> \in Seq(ArgType)
  <2>1. Arg(ty, v) \in ArgType
    BY ArgTypes
  <2> QED BY <2>1
<1> QED BY <1>1, DoTypes

LEMMA FinishReturnStep == IInv /\ FinishReturn => IInv'
<1> SUFFICES ASSUME IInv, FinishReturn PROVE IInv'
  OBVIOUS
<1> DEFINE ins == IF Op.ty = "void" THEN Do("ret", << >>, "")
                  ELSE Do("ret", <<Arg(llvm_type[Op.ty], Value(1))>>, "")
<1>1. Complete({"return"})
  BY DEF FinishReturn
<1>2. Working /\ Op.k \in {"return"}
  BY <1>1, CompleteFacts
<1>3. Arity(Op) = 1
  BY <1>2, Arities
<1>4. Value(1) \in OperandType
  BY <1>1, <1>3, CompleteFacts
<1>5. llvm_type[Op.ty] \in LLType
  <2>1. Op.ty \in UCType
    BY <1>2, TopFacts, NodeRules DEF Op
  <2> QED BY <2>1, llvm_type_Type
<1>6. "ret" \in Opcode /\ "" \in Text
  BY Opcodes, OwnSymbols
<1>7. ins \in InsType /\ ins.res = << >>
  <2>1. << >> \in Seq(ArgType)
    OBVIOUS
  <2>2. Do("ret", << >>, "") \in InsType /\ Do("ret", << >>, "").res = << >>
    BY <1>6, <2>1, DoTypes
  <2>3. /\ Do("ret", <<Arg(llvm_type[Op.ty], Value(1))>>, "") \in InsType
        /\ Do("ret", <<Arg(llvm_type[Op.ty], Value(1))>>, "").res = << >>
    BY <1>4, <1>5, <1>6, UseTypes
  <2> QED BY <2>2, <2>3
<1>8. Finish(<<ins>>, 0)
  BY DEF FinishReturn
<1> HIDE DEF ins
<1> QED BY <1>7, <1>8, FinishOne

LEMMA FinishCondStep == IInv /\ FinishCond => IInv'
<1> SUFFICES ASSUME IInv, FinishCond PROVE IInv'
  OBVIOUS
<1> DEFINE ins == Do("test", <<Arg("i1", Value(1))>>, "")
<1>1. Complete({"cond"})
  BY DEF FinishCond
<1>2. Op.k \in {"cond"}
  BY <1>1, CompleteFacts
<1>3. Arity(Op) = 1
  BY <1>2, Arities
<1>4. Value(1) \in OperandType
  BY <1>1, <1>3, CompleteFacts
<1>5. "test" \in Opcode /\ "" \in Text /\ "i1" \in LLType
  BY Opcodes, OwnSymbols, LLTypes
<1>6. ins \in InsType /\ ins.res = << >>
  BY <1>4, <1>5, UseTypes
<1>7. Finish(<<ins>>, 0)
  BY DEF FinishCond
<1> HIDE DEF ins
<1> QED BY <1>6, <1>7, FinishOne

LEMMA FinishFreeStep == IInv /\ FinishFree => IInv'
<1> SUFFICES ASSUME IInv, FinishFree PROVE IInv'
  OBVIOUS
<1> DEFINE a == Do("call", <<Ptr(Value(1))>>, "free")
           b == Do("call", <<Ptr(Value(1))>>, "uc_free_mark")
<1>1. Complete({"free"})
  BY DEF FinishFree
<1>2. Op.k \in {"free"}
  BY <1>1, CompleteFacts
<1>3. Arity(Op) = 1
  BY <1>2, Arities
<1>4. Value(1) \in OperandType
  BY <1>1, <1>3, CompleteFacts
<1>5. "call" \in Opcode /\ "free" \in Text /\ "uc_free_mark" \in Text /\ "i8*" \in LLType
  BY Opcodes, KindNames, OwnSymbols, LLTypes
<1>6. a \in InsType /\ a.res = << >> /\ b \in InsType /\ b.res = << >>
  BY <1>4, <1>5, UseTypes DEF Ptr
<1>7. Finish(<<a, b>>, 0)
  BY DEF FinishFree
<1> HIDE DEF a, b
<1>8. <<a, b>> \in Seq(InsType) /\ \A i \in 1..Len(<<a, b>>) : <<a, b>>[i].res = << >>
  BY <1>6, TwoSilent
<1>9. ResultsIn(<<a, b>>, NewTemps(0))
  BY <1>8, Silent
<1> QED BY <1>7, <1>9, FinishStep

LEMMA FinishAsmStep == IInv /\ FinishAsm => IInv'
<1> SUFFICES ASSUME IInv, FinishAsm PROVE IInv'
  OBVIOUS
<1>1. Complete({"asm"})
  BY DEF FinishAsm
<1>2. Top.vals \in Seq(ArgType) /\ Op.outs \in Seq(Text) /\ ntemps \in Nat
  BY <1>1, CompleteFacts
<1>3. "asm" \in Opcode /\ "" \in Text /\ "i32" \in LLType
  BY Opcodes, KindNames, OwnSymbols, LLTypes
<1>4. CASE AsmOuts = << >>
  <2>1. Finish(<<Do("asm", Top.vals, "")>>, 0)
    BY <1>4 DEF FinishAsm
  <2>2. Do("asm", Top.vals, "") \in InsType /\ Do("asm", Top.vals, "").res = << >>
    BY <1>2, <1>3, DoTypes
  <2> QED BY <2>1, <2>2, FinishOne
<1>5. CASE AsmOuts # << >> /\ ~AsmOutsOK
  BY <1>5, FailStep DEF FinishAsm
<1>6. CASE AsmOuts # << >> /\ AsmOutsOK
  <2> DEFINE ins == Def("asm", ntemps, AsmResult, Top.vals, "")
             st  == [i \in DOMAIN AsmOuts |-> Store(VarType(AsmOuts[i]), Temp(ntemps), Address(AsmOuts[i]))]
  <2>1. Finish(<<ins>> \o st, 1)
    BY <1>6 DEF FinishAsm
  <2>2. AsmOuts \in Seq(Text) /\ Len(AsmOuts) \in Nat /\ DOMAIN AsmOuts = 1..Len(AsmOuts)
    BY <1>2, LenProperties DEF AsmOuts
  <2>3. \A i \in 1..Len(AsmOuts) : VarType(AsmOuts[i]) \in LLType /\ Address(AsmOuts[i]) \in OperandType
    BY <1>6, <2>2, VarTypes DEF AsmOutsOK
  <2>4. AsmResult \in LLType
    BY <1>3, VarTypes DEF AsmResult
  <2>5. ins \in InsType /\ ins.res = <<ntemps>>
    BY <1>2, <1>3, <2>4, DefTypes
  <2>6. Temp(ntemps) \in OperandType /\ ntemps \in NewTemps(1)
    BY <1>2, OperandTypes, NewTempsFacts
  <2> HIDE DEF ins
  <2>7. ResultsIn(<<ins>>, NewTemps(1))
    BY <2>5, <2>6, OneIns
  <2>8. \A i \in 1..Len(AsmOuts) : st[i] \in InsType /\ st[i].res = << >>
    BY <2>2, <2>3, <2>6, StoreTypes
  <2>9. st \in Seq(InsType) /\ Len(st) = Len(AsmOuts)
    <3>1. st \in [1..Len(AsmOuts) -> InsType]
      BY <2>2, <2>8
    <3> HIDE DEF st
    <3> QED BY <2>2, <3>1
  <2> HIDE DEF st
  <2>10. ResultsIn(st, {})
    BY <2>8, <2>9, Silent
  <2>11. ResultsIn(<<ins>> \o st, NewTemps(1) \cup {})
    BY <2>7, <2>10, Concatenation
  <2>12. ResultsIn(<<ins>> \o st, NewTemps(1))
    BY <2>11
  <2> QED BY <2>1, <2>12, FinishStep
<1> QED BY <1>4, <1>5, <1>6

-----------------------------------------------------------------------------
(***************************************************************************)
(* The theorems.                                                           *)
(***************************************************************************)
LEMMA InitIInv == Init => IInv
<1> SUFFICES ASSUME Init PROVE IInv
  OBVIOUS
<1>1. WellFormed(prog)
  BY ProgramsAssumption DEF Init
<1>2. lastType \in LLType
  BY MapsAssumption DEF Init
<1>3. stack \in Seq(FrameType) /\ code \in Seq(InsType) /\ DOMAIN stack = {}
  BY DEF Init
<1>5. TypeOK
  BY <1>1, <1>2, <1>3 DEF Init, TypeOK
<1>4. StackOK(stack) /\ ResultsIn(code, 0..(ntemps - 1)) /\ Reserved(stack, code, ntemps)
  BY DEF Init, StackOK, ResultsIn, Reserved
<1> QED BY <1>4, <1>5 DEF IInv

LEMMA NextIInv == IInv /\ [Next]_vars => IInv'
<1> SUFFICES ASSUME IInv, [Next]_vars PROVE IInv'
  OBVIOUS
<1>1. CASE UNCHANGED vars
  BY <1>1 DEF vars, IInv, TypeOK, WellFormed, StackOK, FrameOK, Waits, ResultsIn, Reserved, Pending, Undefined
<1>2. CASE GenUnsupported \/ EnterWrongCount \/ FinishBit \/ FinishNotLocal
  BY <1>2, FailStep DEF GenUnsupported, EnterWrongCount, FinishBit, FinishNotLocal
<1>3. CASE \/ GenStmt \/ GenLiteral \/ GenVariable \/ GenNamed
           \/ EnterPlain \/ EnterAssign \/ EnterCall \/ EnterCallPtr
  BY <1>3, GenStmtStep, GenLiteralStep, GenVariableStep, GenNamedStep,
     EnterPlainStep, EnterAssignStep, EnterCallStep, EnterCallPtrStep
<1>4. CASE \/ FinishBinary \/ FinishSign \/ FinishDeref \/ FinishAddr \/ FinishInc \/ FinishAssign
           \/ TernaryBranch \/ TernaryElse \/ TernaryJoin
  BY <1>4, FinishBinaryStep, FinishSignStep, FinishDerefStep, FinishAddrStep, FinishIncStep,
     FinishAssignStep, TernaryBranchStep, TernaryElseStep, TernaryJoinStep
<1>5. CASE FinishCall \/ FinishCallPtr \/ FinishSys \/ FinishMarked \/ FinishCast
  BY <1>5, FinishCallStep, FinishCallPtrStep, FinishSysStep, FinishMarkedStep, FinishCastStep
<1>6. CASE \/ FinishDecl \/ FinishDeclFn \/ FinishEval \/ FinishReturn \/ FinishCond
           \/ FinishFree \/ FinishAsm
  BY <1>6, FinishDeclStep, FinishDeclFnStep, FinishEvalStep, FinishReturnStep, FinishCondStep,
     FinishFreeStep, FinishAsmStep
<1> QED BY <1>1, <1>2, <1>3, <1>4, <1>5, <1>6 DEF Next

\* Whatever the statement, the values, the frames and the instructions of the
\* generator have their types: no operand is missing when it is used.
\* (codegen.c: gen_expr and its callers.)
THEOREM TypeCorrect == Spec => []TypeOK
<1>1. IInv => TypeOK
  BY DEF IInv
<1> QED BY <1>1, InitIInv, NextIInv, PTL DEF Spec

\* Whatever the statement, no temporary is defined by two instructions: the
\* names of pending calls stay reserved until the calls are emitted.
\* (codegen.c: mk_temp and its callers.)
THEOREM TempsDefinedOnce == Spec => []DefinedOnce
<1>1. IInv => DefinedOnce
  <2> SUFFICES ASSUME IInv PROVE DefinedOnce
    OBVIOUS
  <2>1. code \in Seq(InsType) /\ ResultsIn(code, 0..(ntemps - 1))
    BY DEF IInv, TypeOK
  <2>2. DOMAIN code = 1..Len(code)
    BY <2>1, LenProperties
  <2> QED BY <2>1, <2>2 DEF DefinedOnce, ResultsIn
<1> QED BY <1>1, InitIInv, NextIInv, PTL DEF Spec

=============================================================================
