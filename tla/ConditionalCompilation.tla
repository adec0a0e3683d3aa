----------------------- MODULE ConditionalCompilation -----------------------
(***************************************************************************)
(* Conditional compilation in the C parser (src-c/src/parser.c): the       *)
(* @-family (@ifdef / @if / @elif / @else / @end) and the #-family         *)
(* (#ifdef / #ifndef / #endif), as uc_parser_parse, parse_top_level,       *)
(* parse_top_level_at_directive, parse_top_level_pound_directive and the   *)
(* two skip functions consume the token stream.                            *)
(*                                                                         *)
(* The C functions are mutually recursive; the model keeps their call      *)
(* stack, one frame per active directive function, and takes one step per  *)
(* iteration of their loops.  A declaration that is parsed and a directive *)
(* header (keyword, parentheses and macro name) are one token each.        *)
(***************************************************************************)
EXTENDS Naturals, Sequences, SequencesExt

CONSTANTS
  Inputs,   \* the token streams considered
  Host      \* the platform the compiler was built for

VARIABLES
  input,    \* the token stream; never changes
  pos,      \* position of p->current
  stack,    \* active directive functions, the innermost last
  decls,    \* p->declarations: positions of the declarations kept
  status    \* "parsing", or what uc_parser_parse returned

vars == <<input, pos, stack, decls, status>>

-----------------------------------------------------------------------------
(***************************************************************************)
(* The macro table.  The three operating systems and two architectures     *)
(* are always entered, with value "1" for the host and "0" for the others. *)
(***************************************************************************)
init_predefined_macros ==
  [TARGET_OS_LINUX      |-> IF Host.os = "linux"     THEN "1" ELSE "0",
   TARGET_OS_DARWIN     |-> IF Host.os = "darwin"    THEN "1" ELSE "0",
   TARGET_OS_WINDOWS    |-> IF Host.os = "windows"   THEN "1" ELSE "0",
   TARGET_ARCH_X86_64   |-> IF Host.arch = "x86_64"  THEN "1" ELSE "0",
   TARGET_ARCH_ARM64    |-> IF Host.arch = "aarch64" THEN "1" ELSE "0",
   TARGET_ULTRA_VERSION |-> "003003"]

\* The table is searched by name; the value is not looked at.
macro_is_defined(name) == name \in DOMAIN init_predefined_macros

\* The truth of an @ifdef(NAME), @if(NAME), @elif(NAME), #ifdef(NAME) or
\* #ifndef(NAME) header.
Truth(t) ==
  IF t.kind = "#ifndef" THEN ~macro_is_defined(t.name) ELSE macro_is_defined(t.name)

-----------------------------------------------------------------------------
AtHeader     == {"@ifdef", "@if", "@if defined"}
AtElif       == {"@elif", "@elif defined"}
AtCloser     == AtElif \cup {"@else", "@end"}
PoundHeader  == {"#ifdef", "#ifndef"}

TokenKind == {"decl", "import", "#endif"} \cup PoundHeader \cup AtHeader \cup AtCloser

Token == [kind : TokenKind, name : STRING]

ASSUME InputsAssumption == \A s \in Inputs : s \in Seq(Token)

\* The kind of p->current.
Cur == IF pos <= Len(input) THEN input[pos].kind ELSE "eof"

(***************************************************************************)
(* A frame of parse_top_level_at_directive ("@") is parsing a branch       *)
(* ("active"), in skip_pp_branch ("skip", with its depth counter), or in   *)
(* the loop over the rest of the chain ("tail").  A frame of               *)
(* parse_top_level_pound_directive ("#") is active or skipping.            *)
(***************************************************************************)
Frame == [family : {"@", "#"}, mode : {"active", "skip", "tail"},
          depth : Nat \ {0}, taken : BOOLEAN]

AtFrame(m, taken) == [family |-> "@", mode |-> m, depth |-> 1, taken |-> taken]
PoundFrame(m)     == [family |-> "#", mode |-> m, depth |-> 1, taken |-> m = "active"]

BranchMode(cond) == IF cond THEN "active" ELSE "skip"

Top == Last(stack)
In(family, mode) == stack # << >> /\ Top.family = family /\ Top.mode = mode

Parsing  == status = "parsing"

\* The next construct is read by parse_top_level, called by the main loop
\* or by a directive function that parses an active branch.
AtTopLevel == Parsing /\ (stack # << >> => Top.mode = "active")

SetTop(f) == stack' = [stack EXCEPT ![Len(stack)] = f]
Consume   == pos' = pos + 1
Stay      == pos' = pos

\* err_here, and the unwinding of every active call: uc_parser_parse frees
\* the declarations and returns NULL.
Reject ==
  /\ status' = "rejected"
  /\ decls' = << >>
  /\ stack' = << >>
  /\ UNCHANGED <<input, pos>>

-----------------------------------------------------------------------------
Init ==
  /\ input \in Inputs
  /\ pos = 1
  /\ stack = << >>
  /\ decls = << >>
  /\ status = "parsing"

\* Mutant: the declaration is pushed in front.
ParseDeclarationInFront ==
  /\ AtTopLevel /\ Cur = "decl"
  /\ decls' = <<pos>> \o decls
  /\ Consume
  /\ UNCHANGED <<input, stack, status>>

\* A declaration is parsed and pushed to p->declarations.
ParseDeclaration ==
  /\ AtTopLevel /\ Cur = "decl"
  /\ decls' = Append(decls, pos)
  /\ Consume
  /\ UNCHANGED <<input, stack, status>>

\* A construct that yields no declaration (#import, #include).
ParseImport ==
  /\ AtTopLevel /\ Cur = "import"
  /\ Consume
  /\ UNCHANGED <<input, stack, decls, status>>

\* parse_top_level_at_directive reads its header and takes the first branch
\* or starts to skip it.
OpenAt ==
  /\ AtTopLevel /\ Cur \in {"@ifdef", "@if"}
  /\ LET cond == Truth(input[pos])
     IN  stack' = Append(stack, AtFrame(BranchMode(cond), cond))
  /\ Consume
  /\ UNCHANGED <<input, decls, status>>

\* pp_condition_true wants '(' right after @if, and a name inside.
OpenAtMalformed ==
  /\ AtTopLevel /\ Cur = "@if defined"
  /\ Reject

\* parse_top_level_pound_directive reads its header.
OpenPound ==
  /\ AtTopLevel /\ Cur \in PoundHeader
  /\ stack' = Append(stack, PoundFrame(BranchMode(Truth(input[pos]))))
  /\ Consume
  /\ UNCHANGED <<input, decls, status>>

\* A closing directive met by parse_top_level while no function of its
\* family is parsing the branch.
Stray ==
  /\ AtTopLevel
  /\ \/ Cur \in AtCloser  /\ ~In("@", "active")
     \/ Cur = "#endif"    /\ ~In("#", "active")
  /\ Reject

\* The end of input: accepted by the main loop, an error in any directive.
EndOfInput ==
  /\ Parsing /\ Cur = "eof"
  /\ \/ /\ stack = << >>
        /\ status' = "accepted"
        /\ UNCHANGED <<input, pos, stack, decls>>
     \/ stack # << >> /\ Reject

-----------------------------------------------------------------------------
(***************************************************************************)
(* The @-family.                                                           *)
(***************************************************************************)
\* The branch being parsed ends; the token is left for the chain tail.
AtBranchEnds ==
  /\ Parsing /\ In("@", "active") /\ Cur \in AtCloser
  /\ SetTop([Top EXCEPT !.mode = "tail"])
  /\ UNCHANGED <<input, pos, decls, status>>

\* skip_pp_branch at depth 1: an @end is consumed, an @else or @elif is not.
AtSkipEnds ==
  /\ Parsing /\ In("@", "skip") /\ Top.depth = 1 /\ Cur \in AtCloser
  /\ SetTop([Top EXCEPT !.mode = "tail"])
  /\ IF Cur = "@end" THEN Consume ELSE Stay
  /\ UNCHANGED <<input, decls, status>>

\* skip_pp_branch over everything else; only its own family is counted.
AtSkip ==
  /\ Parsing /\ In("@", "skip") /\ Cur # "eof"
  /\ Top.depth = 1 => Cur \notin AtCloser
  /\ SetTop([Top EXCEPT !.depth = CASE Cur \in AtHeader -> @ + 1
                                    [] Cur = "@end"     -> @ - 1
                                    [] OTHER            -> @])
  /\ Consume
  /\ UNCHANGED <<input, decls, status>>

\* The chain tail: @end closes the conditional.
AtEnd ==
  /\ Parsing /\ In("@", "tail") /\ Cur = "@end"
  /\ stack' = Front(stack)
  /\ Consume
  /\ UNCHANGED <<input, decls, status>>

\* Mutants: the branches already taken are forgotten; the @else is looked at
\* but not consumed.
AtNextBranchForgetsTaken ==
  /\ Parsing /\ In("@", "tail") /\ Cur \in {"@else", "@elif"}
  /\ LET chosen == Cur = "@elif" => Truth(input[pos])
     IN  SetTop(AtFrame(BranchMode(chosen), chosen))
  /\ Consume
  /\ UNCHANGED <<input, decls, status>>
AtNextBranchStays ==
  /\ Parsing /\ In("@", "tail") /\ Cur \in {"@else", "@elif"}
  /\ LET chosen == ~Top.taken /\ (Cur = "@elif" => Truth(input[pos]))
     IN  SetTop(AtFrame(BranchMode(chosen), Top.taken \/ chosen))
  /\ Stay
  /\ UNCHANGED <<input, decls, status>>

\* The chain tail: an @else, or an @elif with its condition, starts a branch
\* that is parsed when its condition holds and none was parsed before.
AtNextBranch ==
  /\ Parsing /\ In("@", "tail") /\ Cur \in {"@else", "@elif"}
  /\ LET chosen == ~Top.taken /\ (Cur = "@elif" => Truth(input[pos]))
     IN  SetTop(AtFrame(BranchMode(chosen), Top.taken \/ chosen))
  /\ Consume
  /\ UNCHANGED <<input, decls, status>>

\* The chain tail: anything else is an error.
AtTailError ==
  /\ Parsing /\ In("@", "tail") /\ Cur \notin {"@end", "@else", "@elif", "eof"}
  /\ Reject

-----------------------------------------------------------------------------
(***************************************************************************)
(* The #-family.                                                           *)
(***************************************************************************)
\* #endif closes the conditional, parsed or skipped.
PoundEnd ==
  /\ Parsing /\ Cur = "#endif"
  /\ \/ In("#", "active")
     \/ In("#", "skip") /\ Top.depth = 1
  /\ stack' = Front(stack)
  /\ Consume
  /\ UNCHANGED <<input, decls, status>>

\* Mutants: the depth is not looked at; a nested #ifndef is not counted.
PoundSkipUnguarded ==
  /\ Parsing /\ In("#", "skip") /\ Cur # "eof"
  /\ SetTop([Top EXCEPT !.depth = CASE Cur \in PoundHeader -> @ + 1
                                    [] Cur = "#endif"      -> @ - 1
                                    [] OTHER               -> @])
  /\ Consume
  /\ UNCHANGED <<input, decls, status>>
PoundSkipMissesIfndef ==
  /\ Parsing /\ In("#", "skip") /\ Cur # "eof"
  /\ Cur = "#endif" => Top.depth > 1
  /\ SetTop([Top EXCEPT !.depth = CASE Cur = "#ifdef" -> @ + 1
                                    [] Cur = "#endif" -> @ - 1
                                    [] OTHER          -> @])
  /\ Consume
  /\ UNCHANGED <<input, decls, status>>

\* skip_pp_branch_pound; only its own family is counted.
PoundSkip ==
  /\ Parsing /\ In("#", "skip") /\ Cur # "eof"
  /\ Cur = "#endif" => Top.depth > 1
  /\ SetTop([Top EXCEPT !.depth = CASE Cur \in PoundHeader -> @ + 1
                                    [] Cur = "#endif"      -> @ - 1
                                    [] OTHER               -> @])
  /\ Consume
  /\ UNCHANGED <<input, decls, status>>

Next ==
  \/ ParseDeclaration \/ ParseImport
  \/ OpenAt \/ OpenAtMalformed \/ OpenPound \/ Stray \/ EndOfInput
  \/ AtBranchEnds \/ AtSkipEnds \/ AtSkip \/ AtEnd \/ AtNextBranch \/ AtTailError
  \/ PoundEnd \/ PoundSkip

Spec == Init /\ [][Next]_vars

\* The parser is sequential: while it can take a step, it does.
FairSpec == Spec /\ WF_vars(Next)

-----------------------------------------------------------------------------
(***************************************************************************)
(* The reference meaning of the input, with the parser's notion of a true  *)
(* condition, and the scan the parser has made so far, read off its stack: *)
(* a frame is one open conditional, and the innermost one, when it skips   *)
(* at depth d, is d of them.                                               *)
(***************************************************************************)
Levels == IF stack = << >> THEN 0 ELSE Len(stack) - 1 + Top.depth

BlockAt(k) ==
  LET f == IF k <= Len(stack) THEN stack[k] ELSE Top
  IN  [family |-> f.family, outer |-> k <= Len(stack),
       live |-> f.mode = "active", taken |-> f.mode = "active"]

AbstractBlocks == [k \in 1..Levels |-> BlockAt(k)]

AbstractScan ==
  [pos |-> pos, open |-> AbstractBlocks, out |-> decls, bad |-> status = "rejected"]

AbstractVerdict == IF Parsing THEN "none" ELSE status

Reference == INSTANCE ConditionalBlocks WITH
  Holds <- Truth, scan <- AbstractScan, verdict <- AbstractVerdict

-----------------------------------------------------------------------------
(***************************************************************************)
(* Type correctness of the parser's position, stack and result.            *)
(***************************************************************************)
TypeOK ==
  /\ input \in Seq(Token)
  /\ pos \in Nat \ {0}
  /\ stack \in Seq(Frame)
  /\ decls \in Seq(Nat)
  /\ status \in {"parsing", "accepted", "rejected"}

(***************************************************************************)
(* parse_top_level_pound_directive and skip_pp_branch_pound, with their    *)
(* recursion and their depth counter, implement the one-pass scan of       *)
(* ConditionalBlocks: step by step, for the #-family.                      *)
(***************************************************************************)
PoundRefinesBlocks == Reference!Spec

(***************************************************************************)
(* Whatever the parser accepts, it compiles right: if a well-nested stream *)
(* is accepted, exactly the declarations of the live branches are in the   *)
(* module.  (A skip that loses count of nesting, or a branch parsed after  *)
(* another was taken, would break this.)                                   *)
(***************************************************************************)
AcceptedIsRight ==
  status = "accepted" /\ Reference!WellNested(input) =>
    decls = Reference!Selected(input)

(***************************************************************************)
(* Declarations reach the module in source order and never twice, though   *)
(* several recursive calls push to the same parser-owned vector.           *)
(***************************************************************************)
DeclarationsInOrder ==
  \A i, j \in 1..Len(decls) : i < j => decls[i] < decls[j]

(***************************************************************************)
(* No token stream makes the mutually recursive loops run for ever.        *)
(***************************************************************************)
Terminates == <>(status # "parsing")

=============================================================================
