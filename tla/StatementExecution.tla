------------------------- MODULE StatementExecution -------------------------
(***************************************************************************)
(* The code StatementCodegen emits, run against the statements it was      *)
(* generated from.  When the generator is done, the emitted instructions   *)
(* are executed by a program counter, and the source by the usual meaning  *)
(* of structured statements; conditions come out either way.  At every     *)
(* point where something can be observed - an expression evaluated, a      *)
(* condition tested, a return - the two must be about to do the same.      *)
(*                                                                         *)
(* The structured meaning is the language's (docs, chapter on control      *)
(* flow); the execution of the instructions is LLVM's.                     *)
(***************************************************************************)
EXTENDS StatementCodegen

VARIABLES
  pc,       \* the instruction about to be executed
  work,     \* what the source has left to do, the next thing first
  halted    \* has the function returned or run off its end?

allVars == <<vars, pc, work, halted>>

(***************************************************************************)
(* The source: a stack of statements, loop conditions and loop steps.      *)
(***************************************************************************)
Do(i)       == [part |-> "stmt", at |-> i]
Again(i)    == [part |-> "cond", at |-> i]
StepOf(i)   == [part |-> "step", at |-> i]
IsLoop(w)   == w.part # "stmt"

SourceIs(kinds) == work # << >> /\ Head(work).part = "stmt" /\ prog[Head(work).at] \in kinds
Here            == Head(work).at

\* What is left after leaving everything above the innermost loop.
LoopRest ==
  LET loops == {n \in 1..Len(work) : IsLoop(work[n])}
      first == CHOOSE n \in loops : \A m \in loops : n <= m
  IN  IF loops = {} THEN Tail(work) ELSE SubSeq(work, first, Len(work))
InLoop == \E n \in 1..Len(work) : IsLoop(work[n])

SourceQuiet == SourceIs({"seq", "skip", "while", "break", "continue"})

SourceMoves ==
  work' = CASE SourceIs({"seq"})      -> <<Do(First(Here)), Do(Second(Here))>> \o Tail(work)
            [] SourceIs({"skip"})     -> Tail(work)
            [] SourceIs({"while"})    -> <<Again(Here)>> \o Tail(work)
            [] SourceIs({"continue"}) -> LoopRest
            [] SourceIs({"break"})    -> IF InLoop THEN Tail(LoopRest) ELSE Tail(work)

\* What the source does next that can be seen.
SourceEvent ==
  CASE work = << >>                 -> [op |-> "end", at |-> 0]
    [] SourceIs({"act", "for", "forever"}) -> [op |-> "act", at |-> Here]
    [] SourceIs({"ret"})            -> [op |-> "ret", at |-> Here]
    [] SourceIs({"if", "if_else"})  -> [op |-> "cbr", at |-> Here]
    [] work # << >> /\ Head(work).part = "cond" -> [op |-> "cbr", at |-> Here]
    [] work # << >> /\ Head(work).part = "step" -> [op |-> "step", at |-> Here]

\* What is left after it, when the condition (if it is one) came out as b.
AfterEvent(b) ==
  CASE SourceIs({"for", "forever"}) -> <<Again(Here)>> \o Tail(work)
    [] SourceIs({"if"})      -> IF b THEN <<Do(First(Here))>> \o Tail(work) ELSE Tail(work)
    [] SourceIs({"if_else"}) -> <<Do(IF b THEN First(Here) ELSE Second(Here))>> \o Tail(work)
    [] Head(work).part = "cond" ->
         IF ~b THEN Tail(work)
         ELSE <<Do(First(Here)),
                IF prog[Here] = "while" THEN Again(Here) ELSE StepOf(Here)>> \o Tail(work)
    [] Head(work).part = "step" -> <<Again(Here)>> \o Tail(work)
    [] SourceIs({"ret"})     -> << >>
    [] OTHER                 -> Tail(work)

-----------------------------------------------------------------------------
(***************************************************************************)
(* The instructions.                                                       *)
(***************************************************************************)
Running   == done /\ ~failed /\ ~halted
AtCodeEnd == pc > Len(code)
CodeQuiet == ~AtCodeEnd /\ code[pc].op \in {"label", "br"}
Where(l)  == CHOOSE j \in 1..Len(code) : code[j] = Label(l)

\* The `ret void` gen_func adds to an empty body is the end of the source.
CodeEvent ==
  IF AtCodeEnd \/ code[pc] = Ret(0) THEN [op |-> "end", at |-> 0]
  ELSE [op |-> code[pc].op, at |-> code[pc].at]

ExecInit == Init /\ pc = 1 /\ work = <<Do(1)>> /\ halted = FALSE

Generate == Next /\ UNCHANGED <<pc, work, halted>>

\* A label, or an unconditional branch.
CodeMoves ==
  /\ Running /\ CodeQuiet
  /\ pc' = IF code[pc].op = "label" THEN pc + 1 ELSE Where(code[pc].to[1])
  /\ UNCHANGED <<vars, work, halted>>

\* A step of the source that cannot be seen.
SourceSteps ==
  /\ Running /\ ~CodeQuiet /\ SourceQuiet
  /\ SourceMoves
  /\ UNCHANGED <<vars, pc, halted>>

Settled == Running /\ ~CodeQuiet /\ ~SourceQuiet

\* Both do the same visible thing; a condition comes out as b, the missing
\* condition of a for (`br i1 1`) always as TRUE.
Both(b) ==
  /\ Settled /\ CodeEvent = SourceEvent
  /\ CodeEvent.op = "cbr" => (prog[CodeEvent.at] = "forever" => b)
  /\ CodeEvent.op # "cbr" => b
  /\ halted' = (CodeEvent.op \in {"end", "ret"})
  /\ work' = IF work = << >> THEN work ELSE AfterEvent(b)
  /\ pc' = CASE CodeEvent.op \in {"end", "ret"} -> pc
             [] CodeEvent.op = "cbr" -> Where(code[pc].to[IF b THEN 1 ELSE 2])
             [] OTHER -> pc + 1
  /\ UNCHANGED vars

ExecNext ==
  \/ Generate
  \/ CodeMoves
  \/ SourceSteps
  \/ \E b \in BOOLEAN : Both(b)

ExecSpec == ExecInit /\ [][ExecNext]_allVars

(***************************************************************************)
(* The generator and both executions are sequential; a step that is        *)
(* possible is taken.                                                      *)
(***************************************************************************)
ExecFairSpec == ExecSpec /\ WF_allVars(ExecNext)

-----------------------------------------------------------------------------
(***************************************************************************)
(* The emitted code does what the source says: at every visible point both *)
(* do the same, for every outcome of every condition, through any nesting  *)
(* of if, while, for, break, continue and return.                          *)
(***************************************************************************)
CodeFollowsSource == Settled => CodeEvent = SourceEvent

(***************************************************************************)
(* The code never gets lost between two visible points: it does not jump   *)
(* around without evaluating anything for ever.                            *)
(***************************************************************************)
CodeReachesEvent == (done /\ ~failed) ~> (Settled \/ halted)

=============================================================================
