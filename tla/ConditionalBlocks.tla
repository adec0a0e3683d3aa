-------------------------- MODULE ConditionalBlocks --------------------------
(***************************************************************************)
(* What conditional compilation promises: the meaning of a token stream    *)
(* with #ifdef / #ifndef / #endif and @ifdef / @if / @elif / @else / @end, *)
(* as one left-to-right scan that keeps a stack of open conditionals.  The *)
(* module says nothing about how the parser recurses or skips; it is the   *)
(* reference ConditionalCompilation is compared with.                      *)
(*                                                                         *)
(* A token is a record [kind, name]; a declaration is identified by its    *)
(* position in the stream.                                                 *)
(***************************************************************************)
EXTENDS Naturals, Sequences, SequencesExt

CONSTANT Holds(_)   \* is the condition of this header token true?

Opens(t)  == t.kind \in {"#ifdef", "#ifndef", "@ifdef", "@if", "@if defined"}
Elifs(t)  == t.kind \in {"@elif", "@elif defined"}
Closes(t) == t.kind \in {"#endif", "@end"}
Family(t) == IF t.kind \in {"#ifdef", "#ifndef", "#endif"} THEN "#" ELSE "@"

(***************************************************************************)
(* An open conditional: its family, whether the text around it is          *)
(* compiled, whether the current branch is, and whether some branch of it  *)
(* already was.                                                            *)
(***************************************************************************)
Block == [family : {"#", "@"}, outer : BOOLEAN, live : BOOLEAN, taken : BOOLEAN]

NewBlock(t, outer, cond) ==
  [family |-> Family(t), outer |-> outer,
   live |-> outer /\ cond, taken |-> cond]

\* The same conditional, in its next branch.
NextBranch(b, cond) ==
  [b EXCEPT !.live = b.outer /\ ~b.taken /\ cond, !.taken = @ \/ cond]

(***************************************************************************)
(* The scan: position, open conditionals, the declarations selected, and   *)
(* whether the stream has been found to be badly nested.                   *)
(***************************************************************************)
Start == [pos |-> 1, open |-> << >>, out |-> << >>, bad |-> FALSE]

\* The scan once the stream is found to be badly nested at p.
BadlyNested(p) == [pos |-> p, open |-> << >>, out |-> << >>, bad |-> TRUE]

Live(s)    == s.open = << >> \/ Last(s.open).live
Inside(s, t) == s.open # << >> /\ Last(s.open).family = Family(t)

\* A directive that closes or continues a conditional that is not open here.
Misplaced(s, t) ==
  (Closes(t) \/ Elifs(t) \/ t.kind = "@else") /\ ~Inside(s, t)

OpenAfter(s, t) ==
  IF Opens(t) THEN Append(s.open, NewBlock(t, Live(s), Live(s) /\ Holds(t)))
  ELSE IF Closes(t) THEN Front(s.open)
  ELSE IF Elifs(t) \/ t.kind = "@else"
    THEN [s.open EXCEPT ![Len(s.open)] = NextBranch(@, Elifs(t) => Holds(t))]
  ELSE s.open

OutAfter(s, t) ==
  IF t.kind = "decl" /\ Live(s) THEN Append(s.out, s.pos) ELSE s.out

Step(s, t) ==
  IF s.bad THEN s
  ELSE IF Misplaced(s, t) THEN BadlyNested(s.pos)
  ELSE [pos |-> s.pos + 1, open |-> OpenAfter(s, t), out |-> OutAfter(s, t), bad |-> FALSE]

(***************************************************************************)
(* The meaning of a whole stream: the scan after each of its tokens, and   *)
(* what the last one found.                                                *)
(***************************************************************************)
Scans(input) ==
  LET after[i \in 0..Len(input)] ==
        IF i = 0 THEN Start ELSE Step(after[i - 1], input[i])
  IN  after

Scan(input)       == Scans(input)[Len(input)]
WellNested(input) == ~Scan(input).bad /\ Scan(input).open = << >>
Selected(input)   == Scan(input).out

-----------------------------------------------------------------------------
(***************************************************************************)
(* The scan as a state machine, one token per step, for refinement.        *)
(***************************************************************************)
VARIABLES input, scan, verdict

vars == <<input, scan, verdict>>

Init == scan = Start /\ verdict = "none"

Advance ==
  /\ verdict = "none"
  /\ scan.pos <= Len(input)
  /\ scan' = Step(scan, input[scan.pos])
  /\ verdict' = IF scan'.bad THEN "rejected" ELSE "none"
  /\ UNCHANGED input

Finish ==
  /\ verdict = "none"
  /\ scan.pos > Len(input)
  /\ verdict' = IF scan.open = << >> THEN "accepted" ELSE "rejected"
  /\ scan' = IF scan.open = << >> THEN scan ELSE BadlyNested(scan.pos)
  /\ UNCHANGED input

Next == Advance \/ Finish

Spec == Init /\ [][Next]_vars

=============================================================================
