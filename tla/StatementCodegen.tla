-------------------------- MODULE StatementCodegen --------------------------
(***************************************************************************)
(* How the C compiler lowers the statements of one function to LLVM basic  *)
(* blocks (src-c/src/codegen.c: gen_func and gen_stmt).                    *)
(*                                                                         *)
(* gen_stmt is recursive: it emits the instructions that come before a     *)
(* child statement, generates the child, and emits what comes after it.    *)
(* The model keeps the C call stack as `todo`, the work that remains, and  *)
(* takes one step per call of gen_stmt and one per return to it.           *)
(*                                                                         *)
(* A function body is given in prefix notation: the sequence of its        *)
(* statement kinds in the order gen_stmt meets them.  A statement is named *)
(* by its position.  Expressions are opaque: one is evaluated (an Act or   *)
(* the condition of a CBr) or its generation fails, as gen_expr may.       *)
(***************************************************************************)
EXTENDS Naturals, Sequences, FiniteSets

CONSTANTS
  Programs,   \* the function bodies considered
  NoLabel     \* the else label of an if without else

(***************************************************************************)
(* Statement kinds and the number of child statements of each.  A kind     *)
(* that ends in "!" is the statement with an expression gen_expr fails on: *)
(* its condition, its value, or (for "for_step!") its step.  "forever" is  *)
(* a for without a condition, "skip" a block without statements, "seq" a   *)
(* block of two.                                                           *)
(***************************************************************************)
Leaf   == {"act", "ret", "break", "continue", "skip", "act!", "ret!"}
Unary  == {"if", "while", "for", "forever", "if!", "while!", "for!", "for_step!"}
Binary == {"if_else", "seq"}
Kind   == Leaf \cup Unary \cup Binary

\* The position after the statement that starts at i.
AfterStmt(p) ==
  LET after[i \in 1..Len(p)] ==
        CASE p[i] \in Unary  -> after[i + 1]
          [] p[i] \in Binary -> after[after[i + 1]]
          [] OTHER           -> i + 1
  IN  after

ASSUME ProgramsAssumption ==
  /\ NoLabel \notin Nat
  /\ \A p \in Programs :
       /\ p \in Seq(Kind) /\ p # << >>
       /\ AfterStmt(p) \in [1..Len(p) -> Nat \ {0}]
       /\ AfterStmt(p)[1] = Len(p) + 1
       /\ \A i \in 1..Len(p) : p[i] \notin Leaf => i < Len(p)

VARIABLES
  prog,      \* the function body, in prefix notation
  isVoid,    \* does the function return void?
  todo,      \* what the active calls of gen_stmt have left to do
  scopes,    \* g->loop_scopes, the innermost loop last
  nlabels,   \* g->label_counter
  code,      \* the instructions emitted
  failed,    \* has the generation of some expression failed?
  done       \* has gen_func returned?

vars == <<prog, isVoid, todo, scopes, nlabels, code, failed, done>>

-----------------------------------------------------------------------------
(***************************************************************************)
(* Instructions.  Labels are numbers: mk_label takes them from one counter *)
(* and the prefix it prints is only for reading.                           *)
(***************************************************************************)
Label(l)       == [op |-> "label", to |-> <<l>>,    at |-> 0]
Br(l)          == [op |-> "br",    to |-> <<l>>,    at |-> 0]
CBr(i, l, m)   == [op |-> "cbr",   to |-> <<l, m>>, at |-> i]
Ret(i)         == [op |-> "ret",   to |-> << >>,    at |-> i]
Act(i)         == [op |-> "act",   to |-> << >>,    at |-> i]
Step(i)        == [op |-> "step",  to |-> << >>,    at |-> i]

Instr == [op : {"label", "br", "cbr", "ret", "act", "step"},
          to : Seq(Nat), at : Nat]

IsTerminator(ins) == ins.op \in {"br", "cbr", "ret"}

(***************************************************************************)
(* What the active calls of gen_stmt have left to do: generate a child or  *)
(* a sibling ("stmt"), close a branch of an if, close a loop.              *)
(***************************************************************************)
Stmt(i)              == [task |-> "stmt",  at |-> i, lbl |-> << >>]
EndThen(i, els, end) == [task |-> "then",  at |-> i, lbl |-> <<els, end>>]
EndElse(end)         == [task |-> "else",  at |-> 0, lbl |-> <<end>>]
EndWhile(c, e)       == [task |-> "while", at |-> 0, lbl |-> <<c, e>>]
EndFor(i, c, s, e)   == [task |-> "for",   at |-> i, lbl |-> <<c, s, e>>]

Task == [task : {"stmt", "then", "else", "while", "for"},
         at : Nat, lbl : Seq(Nat \cup {NoLabel})]

\* The labels break and continue jump to.
LoopScope == [break_lbl : Nat, continue_lbl : Nat]
Scope(b, c) == [break_lbl |-> b, continue_lbl |-> c]

Emit(s)  == code' = code \o s
Rest     == Tail(todo)
Calling  == ~done /\ todo # << >> /\ Head(todo).task = "stmt"
\* The statement the call is given, and the children of statement i.
stmt      == Head(todo).at
First(i)  == i + 1
Second(i) == AfterStmt(prog)[i + 1]
Visiting(kinds) == Calling /\ stmt \in DOMAIN prog /\ prog[stmt] \in kinds
Returning(t) == ~done /\ todo # << >> /\ Head(todo).task = t

\* Mutant: the scope of a finished loop is kept.
PopForgets == scopes
pop_loop_scope     == SubSeq(scopes, 1, Len(scopes) - 1)
current_loop_scope == scopes[Len(scopes)]
\* Mutant: break and continue are exchanged.
PushSwaps(b, c) == Append(scopes, Scope(c, b))
push_loop_scope(b, c) == Append(scopes, Scope(b, c))

\* Mutant: one of the calls forgets to count.
MkLabelShort(n) == nlabels' = nlabels + n - 1
\* n calls of mk_label; they return nlabels, ..., nlabels + n - 1.
mk_label(n) == nlabels' = nlabels + n

(***************************************************************************)
(* The instructions gen_stmt emits around the children of an if or a loop. *)
(***************************************************************************)
\* Mutant: the else label is used although there is none.
IfHeadNoElse(i, then, els, end) == <<CBr(i, then, els), Label(then)>>
IfHead(i, then, els, end) ==
  <<CBr(i, then, IF els = NoLabel THEN end ELSE els), Label(then)>>

\* Mutants: the branch over the else is missing; it comes after the label.
ThenTailNoBranch(els, end) == <<Label(IF els = NoLabel THEN end ELSE els)>>
ThenTailLate(els, end) == <<Label(IF els = NoLabel THEN end ELSE els), Br(end)>>
ThenTail(els, end) == <<Br(end), Label(IF els = NoLabel THEN end ELSE els)>>

ElseTail(end) == <<Br(end), Label(end)>>

WhileHead(i, c, b, e) == <<Br(c), Label(c), CBr(i, b, e), Label(b)>>
\* Mutant: the end of the loop gets no label.
WhileTailNoEnd(c, e) == <<Br(c)>>
WhileTail(c, e) == <<Br(c), Label(e)>>

ForHead(i, c, b, e) == <<Act(i), Br(c), Label(c), CBr(i, b, e), Label(b)>>
ForTail(i, c, s, e) == <<Br(s), Label(s), Step(i), Br(c), Label(e)>>

-----------------------------------------------------------------------------
Init ==
  /\ prog \in Programs
  /\ isVoid \in BOOLEAN
  /\ todo = << Stmt(1) >>
  /\ scopes = << >>
  /\ nlabels = 0
  /\ code = << >>
  /\ failed = FALSE
  /\ done = FALSE

\* UC_STMT_EXPR, UC_STMT_DECL, UC_STMT_FREE.
GenAct ==
  /\ Visiting({"act"})
  /\ Emit(<<Act(stmt)>>)
  /\ todo' = Rest
  /\ UNCHANGED <<prog, isVoid, scopes, nlabels, failed, done>>

\* UC_STMT_RETURN.
GenRet ==
  /\ Visiting({"ret"})
  /\ Emit(<<Ret(stmt)>>)
  /\ todo' = Rest
  /\ UNCHANGED <<prog, isVoid, scopes, nlabels, failed, done>>

\* UC_STMT_BREAK and UC_STMT_CONTINUE: outside a loop, only a message.
GenJump ==
  /\ Visiting({"break", "continue"})
  /\ IF scopes = << >> THEN code' = code
     ELSE Emit(<<Br(IF prog[stmt] = "break" THEN current_loop_scope.break_lbl
                                            ELSE current_loop_scope.continue_lbl)>>)
  /\ todo' = Rest
  /\ UNCHANGED <<prog, isVoid, scopes, nlabels, failed, done>>

\* UC_STMT_BLOCK.
GenBlock ==
  /\ Visiting({"skip", "seq"})
  /\ todo' = IF prog[stmt] = "seq"
             THEN <<Stmt(First(stmt)), Stmt(Second(stmt))>> \o Rest
             ELSE Rest
  /\ UNCHANGED <<prog, isVoid, scopes, nlabels, code, failed, done>>

\* UC_STMT_IF, up to its then branch.
GenIf ==
  /\ Visiting({"if", "if_else"})
  /\ LET both == prog[stmt] = "if_else"
         then == nlabels
         els  == IF both THEN then + 1 ELSE NoLabel
         end  == IF both THEN then + 2 ELSE then + 1
     IN  /\ Emit(IfHead(stmt, then, els, end))
         /\ mk_label(IF both THEN 3 ELSE 2)
         /\ todo' = <<Stmt(First(stmt)), EndThen(stmt, els, end)>> \o Rest
  /\ UNCHANGED <<prog, isVoid, scopes, failed, done>>

\* After the then branch; its else branch, when there is one, comes next.
GenAfterThen ==
  /\ Returning("then")
  /\ LET els == Head(todo).lbl[1]
         end == Head(todo).lbl[2]
     IN  /\ Emit(ThenTail(els, end))
         /\ todo' = IF els = NoLabel THEN Rest
                    ELSE <<Stmt(Second(stmt)), EndElse(end)>> \o Rest
  /\ UNCHANGED <<prog, isVoid, scopes, nlabels, failed, done>>

\* After the else branch.
GenAfterElse ==
  /\ Returning("else")
  /\ LET end == Head(todo).lbl[1] IN Emit(ElseTail(end))
  /\ todo' = Rest
  /\ UNCHANGED <<prog, isVoid, scopes, nlabels, failed, done>>

\* UC_STMT_WHILE, up to its body.
GenWhile ==
  /\ Visiting({"while"})
  /\ LET c == nlabels  b == nlabels + 1  e == nlabels + 2
     IN  /\ Emit(WhileHead(stmt, c, b, e))
         /\ scopes' = push_loop_scope(e, c)
         /\ todo' = <<Stmt(First(stmt)), EndWhile(c, e)>> \o Rest
  /\ mk_label(3)
  /\ UNCHANGED <<prog, isVoid, failed, done>>

\* After the body of a while.
GenAfterWhile ==
  /\ Returning("while")
  /\ LET c == Head(todo).lbl[1]  e == Head(todo).lbl[2] IN Emit(WhileTail(c, e))
  /\ scopes' = pop_loop_scope
  /\ todo' = Rest
  /\ UNCHANGED <<prog, isVoid, nlabels, failed, done>>

\* UC_STMT_FOR, up to its body; the init statement is an Act.
GenFor ==
  /\ Visiting({"for", "forever", "for_step!"})
  /\ LET c == nlabels  b == nlabels + 1  s == nlabels + 2  e == nlabels + 3
     IN  /\ Emit(ForHead(stmt, c, b, e))
         /\ scopes' = push_loop_scope(e, s)
         /\ todo' = <<Stmt(First(stmt)), EndFor(stmt, c, s, e)>> \o Rest
  /\ mk_label(4)
  /\ UNCHANGED <<prog, isVoid, failed, done>>

\* After the body of a for: the step, the back edge, the end.  When the
\* generation of the step fails the loop is left unfinished.
GenAfterFor ==
  /\ Returning("for")
  /\ LET i == Head(todo).at
         c == Head(todo).lbl[1]  s == Head(todo).lbl[2]  e == Head(todo).lbl[3]
     IN  IF prog[i] = "for_step!"
         THEN /\ Emit(<<Br(s), Label(s)>>)
              /\ failed' = TRUE
         ELSE /\ Emit(ForTail(i, c, s, e))
              /\ UNCHANGED failed
  /\ scopes' = pop_loop_scope
  /\ todo' = Rest
  /\ UNCHANGED <<prog, isVoid, nlabels, done>>

(***************************************************************************)
(* The generation of an expression fails.  gen_stmt keeps the error in a   *)
(* local variable and returns: the statement, and the statements inside    *)
(* it, are left out of the code.                                           *)
(***************************************************************************)
GenFailure ==
  /\ Visiting({"act!", "ret!", "if!", "while!", "for!"})
  /\ LET n == nlabels IN
     \/ prog[stmt] = "while!" /\ Emit(<<Br(n), Label(n)>>) /\ mk_label(3)
     \/ prog[stmt] = "for!" /\ Emit(<<Act(stmt), Br(n), Label(n)>>) /\ mk_label(4)
     \/ prog[stmt] \in {"act!", "ret!", "if!"} /\ UNCHANGED <<code, nlabels>>
  /\ failed' = TRUE
  /\ todo' = Rest
  /\ UNCHANGED <<prog, isVoid, scopes, done>>

\* gen_func after the body: `ret void` for a void function whose body is
\* empty.
GenFuncEnd ==
  /\ ~done /\ todo = << >>
  /\ IF isVoid /\ prog = <<"skip">> THEN Emit(<<Ret(0)>>) ELSE code' = code
  /\ done' = TRUE
  /\ UNCHANGED <<prog, isVoid, todo, scopes, nlabels, failed>>

GenStmt ==
  \/ GenAct \/ GenRet \/ GenJump \/ GenBlock
  \/ GenIf \/ GenAfterThen \/ GenAfterElse
  \/ GenWhile \/ GenAfterWhile \/ GenFor \/ GenAfterFor
  \/ GenFailure

Next == GenStmt \/ GenFuncEnd

Spec == Init /\ [][Next]_vars

-----------------------------------------------------------------------------
(***************************************************************************)
(* Type correctness of the generator's state.                              *)
(***************************************************************************)
TypeOK ==
  /\ prog \in Seq(Kind)
  /\ isVoid \in BOOLEAN
  /\ todo \in Seq(Task)
  /\ scopes \in Seq(LoopScope)
  /\ nlabels \in Nat
  /\ code \in Seq(Instr)
  /\ failed \in BOOLEAN
  /\ done \in BOOLEAN

(***************************************************************************)
(* No two basic blocks of a function get the same label, although labels   *)
(* of the two branches of an if, and of nested loops, are taken from the   *)
(* counter long before they are emitted.                                   *)
(***************************************************************************)
LabelsDefinedOnce ==
  \A i, j \in 1..Len(code) :
    code[i].op = "label" /\ code[j].op = "label" /\ code[i].to = code[j].to => i = j

(***************************************************************************)
(* Every label a finished function jumps to is there: each construct emits *)
(* the labels it referred to, whatever is nested in it and wherever break  *)
(* and continue leave it.                                                  *)
(***************************************************************************)
TargetsDefined ==
  done /\ ~failed =>
    \A i \in 1..Len(code) : code[i].op # "label" =>
      \A n \in 1..Len(code[i].to) :
        \E j \in 1..Len(code) : code[j] = Label(code[i].to[n])

(***************************************************************************)
(* Control never runs into a label from above: the instruction before a    *)
(* label ends its basic block, as LLVM requires.                           *)
(***************************************************************************)
NoFallThrough ==
  \A i \in 1..Len(code) :
    code[i].op = "label" => i > 1 /\ IsTerminator(code[i - 1])

\* The tasks by their height on the stack, the first call's at the bottom, and
\* the loops among them: those whose bodies are being generated.
TaskAt(h)  == todo[Len(todo) + 1 - h]
OpenLoops  == {h \in 1..Len(todo) : TaskAt(h).task \in {"while", "for"}}
\* How many loops the body of the loop at height h is in.
Nesting(h) == Cardinality({g \in OpenLoops : g <= h})

\* The loop scope of the loop whose end is t.
ScopeOf(t) ==
  IF t.task = "while" THEN Scope(t.lbl[2], t.lbl[1]) ELSE Scope(t.lbl[3], t.lbl[2])

(***************************************************************************)
(* g->loop_scopes is exactly the loops being generated, innermost last, so *)
(* break and continue jump to the end and to the condition or step of the  *)
(* loop they are in; and after the function it is empty, although gen_func *)
(* does not reset it, also when the generation of some expression failed.  *)
(***************************************************************************)
ScopesMatchLoops ==
  /\ Len(scopes) = Cardinality(OpenLoops)
  /\ \A h \in OpenLoops : scopes[Nesting(h)] = ScopeOf(TaskAt(h))

=============================================================================
