-------------------- MODULE ConditionalCompilationProofs --------------------
(***************************************************************************)
(* Theorems about ConditionalCompilation, for every set of token streams   *)
(* and every host.                                                         *)
(***************************************************************************)
EXTENDS ConditionalCompilation, SequenceTheorems, FiniteSetTheorems, SetInduction, TLAPS

LEMMA StackFacts ==
  ASSUME TypeOK, stack # << >>
  PROVE  /\ Len(stack) \in Nat \ {0}
         /\ Top \in Frame
         /\ Front(stack) \in Seq(Frame)
         /\ \A f \in Frame : [stack EXCEPT ![Len(stack)] = f] \in Seq(Frame)
<1>1. stack \in Seq(Frame) /\ Len(stack) \in Nat \ {0}
  BY EmptySeq DEF TypeOK
<1>2. Top \in Frame
  BY <1>1, ElementOfSeq DEF Top, Last
<1>3. Front(stack) \in Seq(Frame)
  <2>1. \A i \in 1..(Len(stack) - 1) : stack[i] \in Frame
    BY <1>1, ElementOfSeq
  <2> QED
    BY <1>1, <2>1, SubSeqProperties DEF Front
<1>4. ASSUME NEW f \in Frame PROVE [stack EXCEPT ![Len(stack)] = f] \in Seq(Frame)
  BY <1>1, <1>4, ExceptSeq
<1> QED
  BY <1>1, <1>2, <1>3, <1>4

(***************************************************************************)
(* The depth counters of the skip loops stay positive: a closing token is  *)
(* counted only above the first level.                                     *)
(***************************************************************************)
LEMMA SkipKeepsDepth ==
  ASSUME TypeOK, AtSkip \/ PoundSkip
  PROVE  stack' \in Seq(Frame)
<1>1. stack # << >>
  BY DEF AtSkip, PoundSkip, In
<1>2. Top \in Frame /\ Top.depth \in Nat \ {0}
  BY <1>1, StackFacts DEF Frame
<1>3. PICK d \in Nat \ {0} : stack' = [stack EXCEPT ![Len(stack)] = [Top EXCEPT !.depth = d]]
  <2>1. CASE AtSkip
    <3>1. Cur = "@end" => Top.depth > 1
      BY <1>2, <2>1 DEF AtSkip, AtCloser
    <3> DEFINE e == CASE Cur \in AtHeader -> Top.depth + 1
                      [] Cur = "@end" -> Top.depth - 1
                      [] OTHER -> Top.depth
    <3>2. e \in Nat \ {0}
      BY <1>2, <3>1
    <3>3. stack' = [stack EXCEPT ![Len(stack)] = [Top EXCEPT !.depth = e]]
      BY <2>1 DEF AtSkip, SetTop
    <3> HIDE DEF e
    <3> QED
      BY <3>2, <3>3
  <2>2. CASE PoundSkip
    <3>1. Cur = "#endif" => Top.depth > 1
      BY <2>2 DEF PoundSkip
    <3> DEFINE e == CASE Cur \in PoundHeader -> Top.depth + 1
                      [] Cur = "#endif" -> Top.depth - 1
                      [] OTHER -> Top.depth
    <3>2. e \in Nat \ {0}
      BY <1>2, <3>1
    <3>3. stack' = [stack EXCEPT ![Len(stack)] = [Top EXCEPT !.depth = e]]
      BY <2>2 DEF PoundSkip, SetTop
    <3> HIDE DEF e
    <3> QED
      BY <3>2, <3>3
  <2> QED
    BY <2>1, <2>2
<1>4. \A f \in Frame : \A e \in Nat \ {0} : [f EXCEPT !.depth = e] \in Frame
  BY DEF Frame
<1> QED
  BY <1>1, <1>2, <1>3, <1>4, StackFacts

LEMMA TypeStep == TypeOK /\ [Next]_vars => TypeOK'
<1> SUFFICES ASSUME TypeOK, [Next]_vars PROVE TypeOK'
  OBVIOUS
<1> USE DEF Consume, Stay
<1>1. CASE ParseDeclaration \/ ParseImport
  <2>1. pos \in Nat \ {0} /\ decls \in Seq(Nat)
    BY DEF TypeOK
  <2>2. Append(decls, pos) \in Seq(Nat)
    BY <2>1
  <2>3. pos' \in Nat \ {0} /\ decls' \in Seq(Nat)
    BY <1>1, <2>1, <2>2 DEF ParseDeclaration, ParseImport
  <2> QED
    BY <1>1, <2>3 DEF ParseDeclaration, ParseImport, TypeOK
<1>2. CASE OpenAt \/ OpenPound
  <2>1. \A c \in BOOLEAN : AtFrame(BranchMode(c), c) \in Frame
    BY DEF AtFrame, BranchMode, Frame
  <2>2. \A c \in BOOLEAN : PoundFrame(BranchMode(c)) \in Frame
    BY DEF PoundFrame, BranchMode, Frame
  <2>3. Truth(input[pos]) \in BOOLEAN
    <3>1. Truth(input[pos]) = TRUE \/ Truth(input[pos]) = FALSE
      BY DEF Truth, macro_is_defined
    <3> QED
      BY <3>1
  <2>4. PICK f \in Frame : stack' = Append(stack, f)
    BY <1>2, <2>1, <2>2, <2>3 DEF OpenAt, OpenPound
  <2>5. stack' \in Seq(Frame)
    BY <2>4 DEF TypeOK
  <2> QED
    BY <1>2, <2>5 DEF OpenAt, OpenPound, TypeOK
<1>3. CASE Reject
  BY <1>3, EmptySeq DEF Reject, TypeOK
<1>4. CASE EndOfInput /\ ~Reject
  BY <1>4 DEF EndOfInput, TypeOK
<1>5. CASE AtBranchEnds \/ AtSkipEnds
  <2>1. stack # << >> /\ stack' = [stack EXCEPT ![Len(stack)] = [Top EXCEPT !.mode = "tail"]]
    BY <1>5 DEF AtBranchEnds, AtSkipEnds, In, SetTop
  <2>2. [Top EXCEPT !.mode = "tail"] \in Frame
    <3>1. Top \in Frame
      BY <2>1, StackFacts
    <3> QED
      BY <3>1 DEF Frame
  <2>3. stack' \in Seq(Frame)
    BY <2>1, <2>2, StackFacts
  <2> QED
    BY <1>5, <2>3 DEF AtBranchEnds, AtSkipEnds, TypeOK
<1>6. CASE AtSkip \/ PoundSkip
  <2>1. stack' \in Seq(Frame)
    BY <1>6, SkipKeepsDepth
  <2> QED
    BY <1>6, <2>1 DEF AtSkip, PoundSkip, TypeOK
<1>7. CASE AtEnd \/ PoundEnd
  <2>1. stack # << >>
    BY <1>7 DEF AtEnd, PoundEnd, In
  <2> QED
    BY <1>7, <2>1, StackFacts DEF AtEnd, PoundEnd, TypeOK
<1>8. CASE AtNextBranch
  <2>1. stack # << >>
    BY <1>8 DEF AtNextBranch, In
  <2>2. Top \in Frame /\ Top.taken \in BOOLEAN
    BY <2>1, StackFacts DEF Frame
  <2>3. \A c, t \in BOOLEAN : AtFrame(BranchMode(c), t) \in Frame
    BY DEF AtFrame, BranchMode, Frame
  <2>4. PICK c, t \in BOOLEAN :
          stack' = [stack EXCEPT ![Len(stack)] = AtFrame(BranchMode(c), t)]
    BY <1>8, <2>2 DEF AtNextBranch, SetTop
  <2>5. stack' \in Seq(Frame)
    BY <2>1, <2>3, <2>4, StackFacts
  <2> QED
    BY <1>8, <2>5 DEF AtNextBranch, TypeOK
<1>9. CASE UNCHANGED vars
  BY <1>9 DEF vars, TypeOK
<1> QED
  BY <1>1, <1>2, <1>3, <1>4, <1>5, <1>6, <1>7, <1>8, <1>9
     DEF Next, OpenAtMalformed, Stray, AtTailError

LEMMA TypeInit == Init => TypeOK
  BY InputsAssumption, EmptySeq DEF Init, TypeOK

(***************************************************************************)
(* The parser's position, its call stack with the depth counters of the    *)
(* skip loops, and the declarations keep their types.                      *)
(***************************************************************************)
THEOREM TypeCorrect == Spec => []TypeOK
  BY TypeInit, TypeStep, PTL DEF Spec

-----------------------------------------------------------------------------
(***************************************************************************)
(* Declarations are pushed at the current token, which only moves forward: *)
(* all of them are behind it.                                              *)
(***************************************************************************)
DeclsBehind == \A i \in 1..Len(decls) : decls[i] < pos

Ordered == TypeOK /\ DeclsBehind /\ DeclarationsInOrder

LEMMA OrderedStep == Ordered /\ [Next]_vars => Ordered'
<1> SUFFICES ASSUME Ordered, [Next]_vars PROVE DeclsBehind' /\ DeclarationsInOrder'
  BY TypeStep DEF Ordered
<1>1. decls \in Seq(Nat) /\ pos \in Nat /\ Len(decls) \in Nat
      /\ \A i \in 1..Len(decls) : decls[i] \in Nat
  BY DEF Ordered, TypeOK
<1>2. CASE ParseDeclaration
  <2>1. decls' = Append(decls, pos) /\ pos' = pos + 1
    BY <1>2 DEF ParseDeclaration, Consume
  <2>2. /\ Len(decls') = Len(decls) + 1
        /\ \A i \in 1..Len(decls) : decls'[i] = decls[i]
        /\ decls'[Len(decls) + 1] = pos
    BY <1>1, <2>1
  <2>3. \A i \in 1..Len(decls) : decls[i] < pos
    BY DEF Ordered, DeclsBehind
  <2>4. DeclsBehind'
    BY <1>1, <2>1, <2>2, <2>3 DEF DeclsBehind
  <2>5. DeclarationsInOrder'
    <3>1. \A i, j \in 1..Len(decls) : i < j => decls[i] < decls[j]
      BY DEF Ordered, DeclarationsInOrder
    <3>2. ASSUME NEW i \in 1..(Len(decls) + 1), NEW j \in 1..(Len(decls) + 1), i < j
          PROVE  decls'[i] < decls'[j]
      <4>1. i \in 1..Len(decls)
        BY <1>1, <3>2
      <4>2. CASE j = Len(decls) + 1
        BY <2>2, <2>3, <4>1, <4>2
      <4>3. CASE j \in 1..Len(decls)
        BY <2>2, <3>1, <3>2, <4>1, <4>3
      <4> QED
        BY <1>1, <4>2, <4>3
    <3> QED
      BY <2>2, <3>2 DEF DeclarationsInOrder
  <2> QED
    BY <2>4, <2>5
<1>3. CASE Reject
  BY <1>3, EmptySeq DEF Reject, DeclsBehind, DeclarationsInOrder
<1>4. CASE decls' = decls /\ pos' \in {pos, pos + 1}
  BY <1>1, <1>4 DEF Ordered, DeclsBehind, DeclarationsInOrder
<1> QED
  BY <1>2, <1>3, <1>4
     DEF Next, vars, Consume, Stay, ParseImport, OpenAt, OpenPound, OpenAtMalformed,
         Stray, EndOfInput, AtBranchEnds, AtSkipEnds, AtSkip, AtEnd, AtNextBranch,
         AtTailError, PoundEnd, PoundSkip

(***************************************************************************)
(* Whatever the nesting of the directives, declarations are kept in source *)
(* order and none is kept twice.                                           *)
(***************************************************************************)
THEOREM DeclarationsOrdered == Spec => []DeclarationsInOrder
<1>1. Init => Ordered
  BY TypeInit, EmptySeq DEF Init, Ordered, DeclsBehind, DeclarationsInOrder
<1>2. Ordered => DeclarationsInOrder
  BY DEF Ordered
<1> QED
  BY <1>1, <1>2, OrderedStep, PTL DEF Spec

-----------------------------------------------------------------------------
(***************************************************************************)
(* The call stack: every frame but the innermost parses a branch, and only *)
(* skips count.                                                            *)
(***************************************************************************)
Shape ==
  /\ \A i \in 1..Len(stack) : i < Len(stack) => stack[i].mode = "active"
  /\ \A i \in 1..Len(stack) : stack[i].mode # "skip" => stack[i].depth = 1

\* How a step changes the stack.
LEMMA Pushed ==
  ASSUME TypeOK, NEW f \in Frame, stack' = Append(stack, f)
  PROVE  /\ Len(stack') = Len(stack) + 1 /\ Len(stack) \in Nat /\ stack' # << >>
         /\ Top' = f /\ stack'[Len(stack) + 1] = f
         /\ \A i \in 1..Len(stack) : stack'[i] = stack[i]
<1>1. stack \in Seq(Frame) /\ Len(stack) \in Nat
  BY DEF TypeOK
<1>2. /\ Len(stack') = Len(stack) + 1
      /\ stack'[Len(stack) + 1] = f
      /\ \A i \in 1..Len(stack) : stack'[i] = stack[i]
  BY <1>1
<1>3. stack' # << >>
  BY <1>1, <1>2
<1> QED
  BY <1>1, <1>2, <1>3 DEF Top, Last

LEMMA TopReplaced ==
  ASSUME TypeOK, stack # << >>, NEW f \in Frame, SetTop(f)
  PROVE  /\ Len(stack') = Len(stack) /\ Len(stack) \in Nat \ {0} /\ stack' # << >>
         /\ Top' = f /\ stack'[Len(stack)] = f
         /\ \A i \in 1..Len(stack) : i # Len(stack) => stack'[i] = stack[i]
<1>1. stack \in Seq(Frame) /\ Len(stack) \in Nat \ {0}
  BY EmptySeq DEF TypeOK
<1>2. /\ Len(stack') = Len(stack) /\ stack'[Len(stack)] = f
      /\ \A i \in 1..Len(stack) : i # Len(stack) => stack'[i] = stack[i]
  BY <1>1, ExceptSeq DEF SetTop
<1>3. stack' # << >>
  BY <1>1, <1>2
<1> QED
  BY <1>1, <1>2, <1>3 DEF Top, Last

LEMMA Popped ==
  ASSUME TypeOK, stack # << >>, stack' = Front(stack)
  PROVE  /\ Len(stack) \in Nat \ {0} /\ Len(stack') = Len(stack) - 1
         /\ \A i \in 1..(Len(stack) - 1) : stack'[i] = stack[i]
         /\ stack' = << >> <=> Len(stack) = 1
         /\ stack' # << >> => Top' = stack[Len(stack) - 1] /\ Len(stack) - 1 \in 1..Len(stack)
<1>1. stack \in Seq(Frame) /\ Len(stack) \in Nat \ {0}
  BY EmptySeq DEF TypeOK
<1>2. \A i \in 1..(Len(stack) - 1) : stack[i] \in Frame
  BY <1>1, ElementOfSeq
<1>3. /\ stack' \in Seq(Frame) /\ Len(stack') = Len(stack) - 1
      /\ \A i \in 1..(Len(stack) - 1) : stack'[i] = stack[i]
  <2> DEFINE u == SubSeq(stack, 1, Len(stack) - 1)
  <2>1. stack' = u
    BY DEF Front
  <2>2. /\ u \in Seq(Frame)
        /\ Len(u) = IF 1 <= Len(stack) - 1 THEN (Len(stack) - 1) - 1 + 1 ELSE 0
        /\ \A i \in 1..((Len(stack) - 1) - 1 + 1) : u[i] = stack[1 + i - 1]
    BY <1>1, <1>2, SubSeqProperties
  <2> HIDE DEF u
  <2>3. Len(u) = Len(stack) - 1
    <3>1. \A n \in Nat \ {0} : (IF 1 <= n - 1 THEN (n - 1) - 1 + 1 ELSE 0) = n - 1
      OBVIOUS
    <3> QED
      BY <1>1, <2>2, <3>1
  <2>4. ASSUME NEW i \in 1..(Len(stack) - 1) PROVE u[i] = stack[i]
    <3>1. i \in 1..((Len(stack) - 1) - 1 + 1) /\ 1 + i - 1 = i
      BY <1>1
    <3> QED
      BY <2>2, <3>1
  <2> QED
    BY <2>1, <2>2, <2>3, <2>4
<1>4. stack' = << >> <=> Len(stack) = 1
  BY <1>1, <1>3, EmptySeq
<1> QED
  BY <1>1, <1>3, <1>4 DEF Top, Last

LEMMA TopIn ==
  ASSUME TypeOK, stack # << >>
  PROVE  Len(stack) \in 1..Len(stack) /\ Top = stack[Len(stack)] /\ Top \in Frame
BY StackFacts DEF Top, Last

\* The frame a step puts on top.
LEMMA FrameFacts ==
  /\ \A c, t \in BOOLEAN :
       LET f == AtFrame(BranchMode(c), t)
       IN  /\ f \in Frame /\ f.family = "@" /\ f.depth = 1 /\ f.taken = t
           /\ f.mode = IF c THEN "active" ELSE "skip"
  /\ \A c \in BOOLEAN :
       LET f == PoundFrame(BranchMode(c))
       IN  /\ f \in Frame /\ f.family = "#" /\ f.depth = 1
           /\ f.mode = IF c THEN "active" ELSE "skip"
  /\ \A f \in Frame : LET g == [f EXCEPT !.mode = "tail"]
                      IN  /\ g \in Frame /\ g.family = f.family /\ g.depth = f.depth
                          /\ g.mode = "tail" /\ g.taken = f.taken
  /\ \A f \in Frame : \A d \in Nat \ {0} :
       LET g == [f EXCEPT !.depth = d]
       IN  /\ g \in Frame /\ g.family = f.family /\ g.depth = d
           /\ g.mode = f.mode /\ g.taken = f.taken
BY DEF AtFrame, PoundFrame, BranchMode, Frame

LEMMA TruthType == Truth(input[pos]) \in BOOLEAN
<1>1. Truth(input[pos]) = TRUE \/ Truth(input[pos]) = FALSE
  BY DEF Truth, macro_is_defined
<1> QED
  BY <1>1

\* The depth a skip continues with.
LEMMA SkipDepth ==
  ASSUME TypeOK, AtSkip \/ PoundSkip
  PROVE  \E d \in Nat \ {0} :
           /\ stack # << >> /\ SetTop([Top EXCEPT !.depth = d])
           /\ AtSkip => d = CASE Cur \in AtHeader -> Top.depth + 1
                              [] Cur = "@end"     -> Top.depth - 1
                              [] OTHER            -> Top.depth
           /\ PoundSkip => d = CASE Cur \in PoundHeader -> Top.depth + 1
                                 [] Cur = "#endif"      -> Top.depth - 1
                                 [] OTHER               -> Top.depth
<1>1. stack # << >>
  BY DEF AtSkip, PoundSkip, In
<1>2. Top.depth \in Nat \ {0}
  BY <1>1, StackFacts DEF Frame
<1>3. CASE AtSkip
  <2> DEFINE e == CASE Cur \in AtHeader -> Top.depth + 1
                    [] Cur = "@end" -> Top.depth - 1
                    [] OTHER -> Top.depth
  <2>1. Cur = "@end" => Top.depth > 1
    BY <1>2, <1>3 DEF AtSkip, AtCloser
  <2>2. e \in Nat \ {0}
    BY <1>2, <2>1
  <2>3. SetTop([Top EXCEPT !.depth = e])
    BY <1>3 DEF AtSkip
  <2>4. ~PoundSkip
    BY <1>3 DEF AtSkip, PoundSkip, In
  <2> HIDE DEF e
  <2>5. e = CASE Cur \in AtHeader -> Top.depth + 1
              [] Cur = "@end"     -> Top.depth - 1
              [] OTHER            -> Top.depth
    BY DEF e
  <2> QED
    BY <1>1, <2>2, <2>3, <2>4, <2>5
<1>4. CASE PoundSkip
  <2> DEFINE e == CASE Cur \in PoundHeader -> Top.depth + 1
                    [] Cur = "#endif" -> Top.depth - 1
                    [] OTHER -> Top.depth
  <2>1. Cur = "#endif" => Top.depth > 1
    BY <1>4 DEF PoundSkip
  <2>2. e \in Nat \ {0}
    BY <1>2, <2>1
  <2>3. SetTop([Top EXCEPT !.depth = e])
    BY <1>4 DEF PoundSkip
  <2>4. ~AtSkip
    BY <1>4 DEF AtSkip, PoundSkip, In
  <2> HIDE DEF e
  <2>5. e = CASE Cur \in PoundHeader -> Top.depth + 1
              [] Cur = "#endif"      -> Top.depth - 1
              [] OTHER               -> Top.depth
    BY DEF e
  <2> QED
    BY <1>1, <2>2, <2>3, <2>4, <2>5
<1> QED
  BY <1>3, <1>4

LEMMA ShapeStep == TypeOK /\ Shape /\ [Next]_vars => Shape'
<1> SUFFICES ASSUME TypeOK, Shape, [Next]_vars PROVE Shape'
  OBVIOUS
<1>1. ASSUME NEW f \in Frame, stack' = Append(stack, f), f.depth = 1,
             stack # << >> => Top.mode = "active"
      PROVE  Shape'
  <2>1. stack # << >> => stack[Len(stack)].mode = "active"
    BY <1>1 DEF Top, Last
  <2>2. ASSUME NEW i \in 1..Len(stack') PROVE i \in 1..Len(stack) \/ i = Len(stack) + 1
    BY <1>1, Pushed
  <2>3. \A i \in 1..Len(stack) : stack[i].mode = "active" /\ stack[i].depth = 1
    BY <2>1, EmptySeq DEF Shape, TypeOK
  <2> QED
    BY <1>1, <2>2, <2>3, Pushed DEF Shape
<1>2. ASSUME NEW f \in Frame, stack # << >>, SetTop(f), f.mode # "skip" => f.depth = 1
      PROVE  Shape'
  BY <1>2, TopReplaced DEF Shape
<1>3. ASSUME stack # << >>, stack' = Front(stack) PROVE Shape'
  BY <1>3, Popped DEF Shape
<1>4. CASE Reject
  BY <1>4, EmptySeq DEF Reject, Shape
<1>5. CASE stack' = stack
  BY <1>5 DEF Shape
<1>6. CASE OpenAt
  BY <1>1, <1>6, FrameFacts, TruthType DEF OpenAt, AtTopLevel
<1>7. CASE OpenPound
  BY <1>1, <1>7, FrameFacts, TruthType DEF OpenPound, AtTopLevel
<1>8. CASE AtBranchEnds \/ AtSkipEnds
  <2>1. /\ stack # << >> /\ SetTop([Top EXCEPT !.mode = "tail"])
        /\ Top.mode = "active" \/ Top.depth = 1
    BY <1>8 DEF AtBranchEnds, AtSkipEnds, In
  <2>2. Top \in Frame /\ Top.depth = 1
    BY <2>1, TopIn DEF Shape
  <2> DEFINE f == [Top EXCEPT !.mode = "tail"]
  <2>3. f \in Frame /\ f.depth = 1
    BY <2>2, FrameFacts
  <2> HIDE DEF f
  <2> QED
    BY <1>2, <2>1, <2>3 DEF f
<1>9. CASE AtSkip \/ PoundSkip
  <2>1. PICK d \in Nat \ {0} : stack # << >> /\ SetTop([Top EXCEPT !.depth = d])
    BY <1>9, SkipDepth
  <2>2. Top \in Frame /\ Top.mode = "skip"
    BY <1>9, <2>1, TopIn DEF AtSkip, PoundSkip, In
  <2> DEFINE f == [Top EXCEPT !.depth = d]
  <2>3. f \in Frame /\ f.mode = "skip"
    BY <2>2, FrameFacts
  <2> HIDE DEF f
  <2> QED
    BY <1>2, <2>1, <2>3 DEF f
<1>10. CASE AtEnd \/ PoundEnd
  BY <1>3, <1>10 DEF AtEnd, PoundEnd, In
<1>11. CASE AtNextBranch
  <2>1. Top.taken \in BOOLEAN /\ stack # << >>
    BY <1>11, TopIn DEF AtNextBranch, In, Frame
  <2>2. PICK c, t \in BOOLEAN : SetTop(AtFrame(BranchMode(c), t))
    BY <1>11, <2>1 DEF AtNextBranch
  <2> QED
    BY <1>2, <2>1, <2>2, FrameFacts
<1> QED
  BY <1>4, <1>5, <1>6, <1>7, <1>8, <1>9, <1>10, <1>11
     DEF Next, vars, ParseDeclaration, ParseImport, OpenAtMalformed, Stray, EndOfInput,
         AtTailError
Scan(p, o, d, b) == [pos |-> p, open |-> o, out |-> d, bad |-> b]

LEMMA FrontIsFront == \A q : Reference!Front(q) = Front(q) /\ Reference!Last(q) = Last(q)
  BY DEF Front, Reference!Front, Last, Reference!Last

LEMMA BlockFacts ==
  /\ \A t \in Token : \A o, c \in BOOLEAN :
       LET b == Reference!NewBlock(t, o, c)
       IN  /\ b \in Reference!Block /\ b.family = Reference!Family(t)
           /\ b.outer = o /\ b.live = (o /\ c) /\ b.taken = c
  /\ \A b \in Reference!Block : \A c \in BOOLEAN :
       LET n == Reference!NextBranch(b, c)
       IN  /\ n \in Reference!Block /\ n.family = b.family /\ n.outer = b.outer
           /\ n.live = (b.outer /\ ~b.taken /\ c) /\ n.taken = (b.taken \/ c)
<1>1. ASSUME NEW t \in Token, NEW o \in BOOLEAN, NEW c \in BOOLEAN
      PROVE  LET b == Reference!NewBlock(t, o, c)
             IN  /\ b \in Reference!Block /\ b.family = Reference!Family(t)
                 /\ b.outer = o /\ b.live = (o /\ c) /\ b.taken = c
  <2>1. Reference!Family(t) \in {"#", "@"}
    BY DEF Reference!Family
  <2> QED
    BY <2>1 DEF Reference!NewBlock, Reference!Block
<1>2. ASSUME NEW b \in Reference!Block, NEW c \in BOOLEAN
      PROVE  LET n == Reference!NextBranch(b, c)
             IN  /\ n \in Reference!Block /\ n.family = b.family /\ n.outer = b.outer
                 /\ n.live = (b.outer /\ ~b.taken /\ c) /\ n.taken = (b.taken \/ c)
  BY DEF Reference!NextBranch, Reference!Block
<1> QED
  BY <1>1, <1>2

LEMMA StepFacts ==
  ASSUME NEW s, NEW t \in Token, s.bad = FALSE
  PROVE  /\ t.kind \in {"decl", "import"} =>
              Reference!Step(s, t) = Scan(s.pos + 1, s.open, Reference!OutAfter(s, t), FALSE)
         /\ t.kind \in PoundHeader \cup AtHeader =>
              Reference!Step(s, t) =
                Scan(s.pos + 1,
                     Append(s.open, Reference!NewBlock(t, Reference!Live(s), Reference!Live(s) /\ Truth(t))),
                     s.out, FALSE)
         /\ t.kind \in {"#endif", "@end"} /\ Reference!Inside(s, t) =>
              Reference!Step(s, t) = Scan(s.pos + 1, Front(s.open), s.out, FALSE)
         /\ t.kind \in AtElif \cup {"@else"} /\ Reference!Inside(s, t) =>
              Reference!Step(s, t) =
                Scan(s.pos + 1,
                     [s.open EXCEPT ![Len(s.open)] =
                        Reference!NextBranch(s.open[Len(s.open)], Reference!Elifs(t) => Truth(t))],
                     s.out, FALSE)
         /\ t.kind \in AtCloser \cup {"#endif"} /\ ~Reference!Inside(s, t) =>
              Reference!Step(s, t) = Scan(s.pos, << >>, << >>, TRUE)
<1>1. /\ Reference!Opens(t) <=> t.kind \in PoundHeader \cup AtHeader
      /\ Reference!Closes(t) <=> t.kind \in {"#endif", "@end"}
      /\ Reference!Elifs(t) <=> t.kind \in AtElif
  BY DEF Reference!Opens, PoundHeader, AtHeader, Reference!Closes, Reference!Elifs, AtElif
<1>2. Reference!Step(s, t) =
        IF Reference!Misplaced(s, t) THEN Scan(s.pos, << >>, << >>, TRUE)
        ELSE Scan(s.pos + 1, Reference!OpenAfter(s, t), Reference!OutAfter(s, t), FALSE)
  BY DEF Reference!Step, Reference!BadlyNested, Scan
<1>3. Reference!Misplaced(s, t) <=> t.kind \in AtCloser \cup {"#endif"} /\ ~Reference!Inside(s, t)
  BY <1>1 DEF Reference!Misplaced, AtCloser
<1>4. /\ PoundHeader = {"#ifdef", "#ifndef"} /\ AtHeader = {"@ifdef", "@if", "@if defined"}
      /\ AtElif = {"@elif", "@elif defined"}
      /\ AtCloser = {"@elif", "@elif defined", "@else", "@end"}
  BY DEF PoundHeader, AtHeader, AtElif, AtCloser
<1>5. t.kind # "decl" => Reference!OutAfter(s, t) = s.out
  BY DEF Reference!OutAfter
<1>6. /\ t.kind \in {"decl", "import"} => Reference!OpenAfter(s, t) = s.open
      /\ t.kind \in PoundHeader \cup AtHeader =>
           Reference!OpenAfter(s, t) =
             Append(s.open, Reference!NewBlock(t, Reference!Live(s), Reference!Live(s) /\ Truth(t)))
      /\ t.kind \in {"#endif", "@end"} => Reference!OpenAfter(s, t) = Front(s.open)
      /\ t.kind \in AtElif \cup {"@else"} =>
           Reference!OpenAfter(s, t) =
             [s.open EXCEPT ![Len(s.open)] =
                Reference!NextBranch(s.open[Len(s.open)], Reference!Elifs(t) => Truth(t))]
  <2>1. ASSUME t.kind \in AtElif \cup {"@else"}
        PROVE  Reference!OpenAfter(s, t) =
                 [s.open EXCEPT ![Len(s.open)] =
                    Reference!NextBranch(s.open[Len(s.open)], Reference!Elifs(t) => Truth(t))]
    <3>1. ~Reference!Opens(t) /\ ~Reference!Closes(t) /\ (Reference!Elifs(t) \/ t.kind = "@else")
      BY <1>1, <1>4, <2>1
    <3> QED
      BY <3>1, Zenon DEF Reference!OpenAfter
  <2>2. ASSUME t.kind \in PoundHeader \cup AtHeader
        PROVE  Reference!OpenAfter(s, t) =
                 Append(s.open, Reference!NewBlock(t, Reference!Live(s), Reference!Live(s) /\ Truth(t)))
    BY <1>1, <2>2, Zenon DEF Reference!OpenAfter
  <2>3. ASSUME t.kind \in {"#endif", "@end"}
        PROVE  Reference!OpenAfter(s, t) = Front(s.open)
    <3>1. ~Reference!Opens(t) /\ Reference!Closes(t)
      BY <2>3 DEF Reference!Opens, Reference!Closes
    <3> QED
      BY <3>1, FrontIsFront, Zenon DEF Reference!OpenAfter
  <2>4. ASSUME t.kind \in {"decl", "import"}
        PROVE  Reference!OpenAfter(s, t) = s.open
    <3>1. ~Reference!Opens(t) /\ ~Reference!Closes(t) /\ ~(Reference!Elifs(t) \/ t.kind = "@else")
      BY <2>4 DEF Reference!Opens, Reference!Closes, Reference!Elifs
    <3> QED
      BY <3>1, Zenon DEF Reference!OpenAfter
  <2> QED
    BY <2>1, <2>2, <2>3, <2>4, Zenon
<1> QED
  BY <1>2, <1>3, <1>4, <1>5, <1>6

-----------------------------------------------------------------------------
(***************************************************************************)
(* The conditionals an abstract scan sees in the parser's stack.           *)
(***************************************************************************)
BlocksTyped ==
  /\ Levels \in Nat /\ Len(AbstractBlocks) = Levels
  /\ AbstractBlocks \in Seq(Reference!Block)
  /\ \A k \in 1..Levels : AbstractBlocks[k] = BlockAt(k) /\ BlockAt(k) \in Reference!Block
  /\ Levels = 0 <=> stack = << >>
  /\ stack # << >> => /\ Len(stack) \in 1..Levels /\ Levels = Len(stack) - 1 + Top.depth
                      /\ Levels \in 1..Levels

LEMMA BlocksType == TypeOK => BlocksTyped
<1> SUFFICES ASSUME TypeOK PROVE BlocksTyped
  OBVIOUS
<1>1. stack # << >> => /\ Len(stack) \in Nat \ {0} /\ Top \in Frame /\ Top.depth \in Nat \ {0}
                       /\ Levels = Len(stack) - 1 + Top.depth
  BY StackFacts DEF Levels, Frame
<1>2. stack = << >> => Levels = 0
  BY DEF Levels
<1>3. \A n, d \in Nat \ {0} : n - 1 + d \in Nat \ {0} /\ n \in 1..(n - 1 + d)
                              /\ n - 1 + d \in 1..(n - 1 + d)
  OBVIOUS
<1>4. Levels \in Nat /\ (Levels = 0 <=> stack = << >>)
  BY <1>1, <1>2, <1>3
<1>5. ASSUME NEW k \in 1..Levels PROVE BlockAt(k) \in Reference!Block
  <2>1. stack # << >> /\ Len(stack) \in Nat
    BY <1>1, <1>4, <1>5
  <2> DEFINE f == IF k <= Len(stack) THEN stack[k] ELSE Top
  <2>2. f \in Frame
    <3>1. k <= Len(stack) => stack[k] \in Frame
      BY <1>4, <2>1, ElementOfSeq DEF TypeOK
    <3> QED
      BY <1>1, <2>1, <3>1
  <2>3. f.family \in {"#", "@"} /\ (f.mode = "active") \in BOOLEAN /\ (k <= Len(stack)) \in BOOLEAN
    BY <1>4, <2>1, <2>2 DEF Frame
  <2>4. BlockAt(k) = [family |-> f.family, outer |-> k <= Len(stack),
                      live |-> f.mode = "active", taken |-> f.mode = "active"]
    BY DEF BlockAt
  <2> HIDE DEF f
  <2> QED
    BY <2>3, <2>4 DEF Reference!Block
<1>6. AbstractBlocks \in Seq(Reference!Block) /\ Len(AbstractBlocks) = Levels
      /\ \A k \in 1..Levels : AbstractBlocks[k] = BlockAt(k)
  BY <1>4, <1>5 DEF AbstractBlocks
<1> QED
  BY <1>1, <1>3, <1>4, <1>5, <1>6 DEF BlocksTyped

LEMMA BlocksTypeNext == TypeOK' => BlocksTyped'
  BY BlocksType, PTL

LEMMA BlocksAppended ==
  ASSUME TypeOK, TypeOK', NEW n \in Nat, Levels = n, Levels' = n + 1,
         \A k \in 1..n : BlockAt(k)' = BlockAt(k)
  PROVE  AbstractBlocks' = Append(AbstractBlocks, BlockAt(n + 1)')
<1> DEFINE u == AbstractBlocks  v == AbstractBlocks'  b == BlockAt(n + 1)'
           B == Reference!Block
<1>1. u \in Seq(B) /\ n \in Nat /\ Len(u) = n /\ \A k \in 1..n : u[k] = BlockAt(k)
  BY BlocksType DEF BlocksTyped
<1>2. v \in Seq(B) /\ Len(v) = n + 1 /\ \A k \in 1..(n + 1) : v[k] = BlockAt(k)' /\ BlockAt(k)' \in B
  BY BlocksTypeNext DEF BlocksTyped
<1>3. b \in B /\ v[n + 1] = b
  BY <1>1, <1>2
<1>4. \A k \in 1..n : v[k] = u[k]
  BY <1>1, <1>2
<1> HIDE DEF u, v, b, B
<1>5. Append(u, b) \in Seq(B) /\ Len(Append(u, b)) = n + 1
      /\ \A k \in 1..(n + 1) : Append(u, b)[k] = IF k = n + 1 THEN b ELSE u[k]
  BY <1>1, <1>3
<1>6. \A k \in 1..(n + 1) : v[k] = Append(u, b)[k]
  BY <1>1, <1>3, <1>4, <1>5
<1>7. v = Append(u, b)
  BY <1>2, <1>5, <1>6, SeqEqual
<1> QED
  BY <1>7 DEF u, v, b

LEMMA BlocksDropped ==
  ASSUME TypeOK, TypeOK', NEW n \in Nat \ {0}, Levels = n, Levels' = n - 1,
         \A k \in 1..(n - 1) : BlockAt(k)' = BlockAt(k)
  PROVE  AbstractBlocks' = Front(AbstractBlocks)
<1> DEFINE u == AbstractBlocks  v == AbstractBlocks'  B == Reference!Block
           w == SubSeq(u, 1, Len(u) - 1)
<1>1. u \in Seq(B) /\ n \in Nat \ {0} /\ Len(u) = n /\ \A k \in 1..n : u[k] = BlockAt(k)
  BY BlocksType DEF BlocksTyped
<1>2. v \in Seq(B) /\ Len(v) = n - 1 /\ \A k \in 1..(n - 1) : v[k] = BlockAt(k)'
  BY BlocksTypeNext DEF BlocksTyped
<1>3. Front(u) = w
  BY DEF Front
<1> HIDE DEF u, v, B
<1>4. \A k \in 1..(n - 1) : v[k] = u[k]
  BY <1>1, <1>2
<1>5. w \in Seq(B) /\ Len(w) = n - 1 /\ \A k \in 1..(n - 1) : w[k] = u[k]
  <2>1. \A k \in 1..(Len(u) - 1) : u[k] \in B
    BY <1>1, ElementOfSeq
  <2>2. /\ w \in Seq(B)
        /\ Len(w) = IF 1 <= Len(u) - 1 THEN (Len(u) - 1) - 1 + 1 ELSE 0
        /\ \A i \in 1..((Len(u) - 1) - 1 + 1) : w[i] = u[1 + i - 1]
    BY <1>1, <2>1, SubSeqProperties
  <2> HIDE DEF w
  <2>3. \A j \in Nat \ {0} : (IF 1 <= j - 1 THEN (j - 1) - 1 + 1 ELSE 0) = j - 1
    OBVIOUS
  <2>4. ASSUME NEW i \in 1..(n - 1) PROVE w[i] = u[i]
    <3>1. i \in 1..((Len(u) - 1) - 1 + 1) /\ 1 + i - 1 = i
      BY <1>1
    <3> QED
      BY <2>2, <3>1
  <2> QED
    BY <1>1, <2>2, <2>3, <2>4
<1> HIDE DEF w
<1>6. v = w
  BY <1>2, <1>4, <1>5, SeqEqual
<1> QED
  BY <1>3, <1>6 DEF u, v

LEMMA BlocksKept ==
  ASSUME TypeOK, Levels' = Levels, \A k \in 1..Levels : BlockAt(k)' = BlockAt(k)
  PROVE  AbstractBlocks' = AbstractBlocks
BY DEF AbstractBlocks

\* The innermost conditional the scan sees is the innermost frame.
LEMMA ScanTop ==
  ASSUME TypeOK
  PROVE  /\ Reference!Live(AbstractScan) <=> (stack # << >> => Top.mode = "active")
         /\ \A t : Reference!Inside(AbstractScan, t) <=>
                     stack # << >> /\ Top.family = Reference!Family(t)
<1>1. AbstractScan.open = AbstractBlocks
  BY DEF AbstractScan
<1>2. AbstractBlocks = << >> <=> stack = << >>
  BY BlocksType, EmptySeq DEF BlocksTyped
<1>3. ASSUME stack # << >>
      PROVE  Reference!Last(AbstractBlocks) = BlockAt(Levels) /\ BlockAt(Levels).family = Top.family
             /\ BlockAt(Levels).live = (Top.mode = "active")
  <2>1. Reference!Last(AbstractBlocks) = BlockAt(Levels)
    BY <1>3, BlocksType DEF BlocksTyped, Reference!Last
  <2>2. (IF Levels <= Len(stack) THEN stack[Levels] ELSE Top) = Top
    BY <1>3, BlocksType DEF BlocksTyped, Top, Last
  <2> QED
    BY <2>1, <2>2 DEF BlockAt
<1> QED
  BY <1>1, <1>2, <1>3 DEF Reference!Live, Reference!Inside

-----------------------------------------------------------------------------
(***************************************************************************)
(* The #-family: over a stream that has no directive of the @-family every *)
(* step of the parser is a step of the one-pass scan.                      *)
(***************************************************************************)
PoundKinds == {"decl", "import", "#endif"} \cup PoundHeader

PoundOnly == \A s \in Inputs : \A i \in 1..Len(s) : s[i].kind \in PoundKinds

PoundInv ==
  /\ TypeOK /\ Shape /\ input \in Inputs
  /\ \A i \in 1..Len(stack) : stack[i].family = "#"

LEMMA PoundToken ==
  ASSUME PoundOnly, PoundInv, Cur # "eof"
  PROVE  /\ pos <= Len(input) /\ input[pos] \in Token /\ Cur = input[pos].kind
         /\ Cur \in PoundKinds /\ Reference!Family(input[pos]) = (IF Cur \in {"#ifdef", "#ifndef", "#endif"} THEN "#" ELSE "@")
<1>1. pos <= Len(input) /\ Cur = input[pos].kind
  BY DEF Cur
<1>2. pos \in 1..Len(input)
  BY <1>1 DEF PoundInv, TypeOK
<1>3. input[pos] \in Token /\ Cur \in PoundKinds
  BY <1>1, <1>2, ElementOfSeq DEF PoundInv, TypeOK, PoundOnly
<1> QED
  BY <1>1, <1>3 DEF Reference!Family

LEMMA PoundFamily ==
  ASSUME PoundInv
  PROVE  /\ stack # << >> => Top.family = "#"
         /\ \A m : ~In("@", m)
<1>1. stack # << >> => Top.family = "#"
  BY TopIn DEF PoundInv
<1> QED
  BY <1>1 DEF In

LEMMA PoundInvStep == PoundOnly /\ PoundInv /\ [Next]_vars => PoundInv'
<1> SUFFICES ASSUME PoundOnly, PoundInv, [Next]_vars PROVE PoundInv'
  OBVIOUS
<1>1. TypeOK' /\ Shape'
  BY TypeStep, ShapeStep DEF PoundInv
<1> USE DEF PoundInv
<1>2. input' = input
  BY DEF Next, vars, Reject, ParseDeclaration, ParseImport, OpenAt, OpenPound,
         OpenAtMalformed, Stray, EndOfInput, AtBranchEnds, AtSkipEnds, AtSkip, AtEnd,
         AtNextBranch, AtTailError, PoundEnd, PoundSkip
<1>3. CASE OpenPound
  <2>1. PICK f \in Frame : stack' = Append(stack, f) /\ f.family = "#"
    BY <1>3, FrameFacts, TruthType DEF OpenPound
  <2>2. \A i \in 1..Len(stack') : stack'[i].family = "#"
    <3>1. ASSUME NEW i \in 1..Len(stack') PROVE i \in 1..Len(stack) \/ i = Len(stack) + 1
      BY <2>1, Pushed
    <3> QED
      BY <2>1, <3>1, Pushed
  <2> QED
    BY <1>1, <1>2, <2>2
<1>4. CASE PoundSkip
  <2>1. PICK d \in Nat \ {0} : stack # << >> /\ SetTop([Top EXCEPT !.depth = d])
    BY <1>4, SkipDepth
  <2> DEFINE f == [Top EXCEPT !.depth = d]
  <2>2. f \in Frame /\ f.family = "#"
    BY <2>1, TopIn, FrameFacts, PoundFamily
  <2> HIDE DEF f
  <2>3. \A i \in 1..Len(stack') : stack'[i].family = "#"
    BY <2>1, <2>2, TopReplaced DEF f
  <2> QED
    BY <1>1, <1>2, <2>3
<1>5. CASE PoundEnd
  <2>1. stack # << >> /\ stack' = Front(stack)
    BY <1>5 DEF PoundEnd, In
  <2>2. \A i \in 1..Len(stack') : stack'[i].family = "#"
    BY <2>1, Popped
  <2> QED
    BY <1>1, <1>2, <2>2
<1>6. CASE Reject
  BY <1>1, <1>2, <1>6, EmptySeq DEF Reject
<1>7. CASE stack' = stack
  BY <1>1, <1>2, <1>7
<1>8. ~OpenAt /\ ~AtBranchEnds /\ ~AtSkipEnds /\ ~AtSkip /\ ~AtEnd /\ ~AtNextBranch
  <2>1. ~OpenAt
    BY PoundToken DEF OpenAt, PoundKinds, PoundHeader
  <2> QED
    BY <2>1, PoundFamily DEF AtBranchEnds, AtSkipEnds, AtSkip, AtEnd, AtNextBranch
<1> QED
  BY <1>3, <1>4, <1>5, <1>6, <1>7, <1>8
     DEF Next, vars, ParseDeclaration, ParseImport, OpenAtMalformed, Stray, EndOfInput,
         AtTailError

\* A step that consumes a token the scan takes to the parser's next state.
LEMMA AdvanceMaps ==
  ASSUME PoundOnly, PoundInv, Parsing, Cur # "eof", input' = input,
         status' = "parsing" \/ status' = "rejected",
         Reference!Step(AbstractScan, input[pos]) =
           Scan(pos', AbstractBlocks', decls', status' = "rejected")
  PROVE  Reference!Next
<1>1. AbstractScan.pos = pos /\ pos <= Len(input)
  BY PoundToken DEF AbstractScan
<1>2. AbstractScan' = Reference!Step(AbstractScan, input[AbstractScan.pos])
  BY <1>1 DEF AbstractScan, Scan
<1>3. AbstractVerdict = "none"
  BY DEF AbstractVerdict
<1>4. AbstractScan'.bad = (status' = "rejected")
  BY DEF AbstractScan
<1>5. AbstractVerdict' = IF AbstractScan'.bad THEN "rejected" ELSE "none"
  BY <1>4 DEF AbstractVerdict, Parsing
<1> QED
  BY <1>1, <1>2, <1>3, <1>5 DEF Reference!Next, Reference!Advance

LEMMA PoundOpens ==
  ASSUME PoundOnly, PoundInv, PoundInv', OpenPound
  PROVE  Reference!Next
<1> USE DEF PoundInv
<1> DEFINE c == Truth(input[pos])  f == PoundFrame(BranchMode(c))  t == input[pos]
<1>n. PICK n \in Nat : n = Len(stack)
  BY DEF TypeOK
<1>0. c \in BOOLEAN
  BY TruthType
<1>1. f \in Frame /\ f.family = "#" /\ f.depth = 1 /\ (f.mode = "active") = c
  <2>1. f.mode = IF c THEN "active" ELSE "skip"
    BY <1>0, FrameFacts
  <2> QED
    BY <1>0, <2>1, FrameFacts
<1>2. stack' = Append(stack, f) /\ pos' = pos + 1 /\ decls' = decls /\ status' = status
      /\ Parsing /\ Cur \in PoundHeader /\ input' = input /\ (stack # << >> => Top.mode = "active")
  BY DEF OpenPound, Consume, AtTopLevel
<1>3. t \in Token /\ Cur # "eof" /\ Cur = t.kind /\ Reference!Family(t) = "#"
  BY <1>2, PoundToken DEF PoundHeader
<1> HIDE DEF c, f, t
<1>4. /\ Len(stack') = n + 1 /\ n \in Nat /\ Top' = f /\ stack' # << >>
      /\ \A i \in 1..n : stack'[i] = stack[i]
      /\ stack'[n + 1] = f
  BY <1>n, <1>1, <1>2, Pushed
<1>5. Levels = n
  <2>1. CASE stack = << >>
    BY <1>n, <2>1 DEF Levels
  <2>2. CASE stack # << >>
    <3>1. Top.depth = 1
      BY <1>2, <2>2, TopIn DEF Shape
    <3>2. n - 1 + 1 = n
      OBVIOUS
    <3> QED
      BY <1>n, <2>2, <3>1, <3>2 DEF Levels
  <2> QED
    BY <2>1, <2>2
<1>6. Levels' = n + 1
  <2>1. Levels' = Len(stack') - 1 + Top'.depth
    BY <1>4 DEF Levels
  <2>2. (n + 1) - 1 + 1 = n + 1
    BY <1>4
  <2> QED
    BY <1>1, <1>4, <2>1, <2>2
<1>7. ASSUME NEW k \in 1..n PROVE BlockAt(k)' = BlockAt(k)
  <2>1. k <= Len(stack) /\ k <= Len(stack') /\ stack'[k] = stack[k]
    BY <1>n, <1>4
  <2>2. (k <= Len(stack)) = (k <= Len(stack'))
    BY <2>1
  <2> QED
    BY <2>1, <2>2 DEF BlockAt
<1>8. BlockAt(n + 1)' = Reference!NewBlock(t, TRUE, c)
  <2>1. n + 1 <= Len(stack') /\ stack'[n + 1] = f
    BY <1>4
  <2>2. BlockAt(n + 1)' = [family |-> "#", outer |-> TRUE, live |-> c, taken |-> c]
    BY <1>1, <2>1 DEF BlockAt
  <2> QED
    BY <1>0, <1>3, <2>2 DEF Reference!NewBlock
<1>9. AbstractBlocks' = Append(AbstractBlocks, Reference!NewBlock(t, TRUE, c))
  BY <1>4, <1>5, <1>6, <1>7, <1>8, BlocksAppended
<1>10. Reference!Live(AbstractScan) = TRUE
  <2>1. Reference!Live(AbstractScan)
    BY <1>2, ScanTop
  <2>2. Reference!Live(AbstractScan) \in BOOLEAN
    BY DEF Reference!Live
  <2> QED
    BY <2>1, <2>2
<1>11. (Reference!Live(AbstractScan) /\ Truth(t)) = c
  BY <1>0, <1>10 DEF c, t
<1>12. Reference!Step(AbstractScan, t) = Scan(pos + 1, Append(AbstractBlocks, Reference!NewBlock(t, TRUE, c)), decls, FALSE)
  <2>1. AbstractScan.pos = pos /\ AbstractScan.open = AbstractBlocks /\ AbstractScan.out = decls /\ AbstractScan.bad = FALSE
    BY <1>2 DEF AbstractScan, Parsing
  <2>2. Reference!Step(AbstractScan, t) =
          Scan(pos + 1, Append(AbstractBlocks, Reference!NewBlock(t, Reference!Live(AbstractScan), Reference!Live(AbstractScan) /\ Truth(t))), decls, FALSE)
    BY <1>2, <1>3, <2>1, StepFacts
  <2> QED
    BY <1>10, <1>11, <2>2
<1>13. (status' = "rejected") = FALSE
  BY <1>2 DEF Parsing
<1> QED
  BY <1>2, <1>3, <1>9, <1>12, <1>13, AdvanceMaps DEF t, Parsing

\* What a token read by the scan leaves, when the innermost conditional
\* is skipped.
LEMMA PoundSkips ==
  ASSUME PoundOnly, PoundInv, PoundInv', PoundSkip
  PROVE  Reference!Next
<1> USE DEF PoundInv
<1> DEFINE t == input[pos]
<1>1. PICK d \in Nat \ {0} :
        /\ stack # << >> /\ SetTop([Top EXCEPT !.depth = d])
        /\ d = CASE Cur \in PoundHeader -> Top.depth + 1
                 [] Cur = "#endif"      -> Top.depth - 1
                 [] OTHER               -> Top.depth
  BY SkipDepth
<1>2. pos' = pos + 1 /\ decls' = decls /\ status' = status /\ input' = input /\ Parsing
      /\ Cur # "eof" /\ Top.mode = "skip" /\ Top.family = "#"
  BY DEF PoundSkip, In, Consume
<1>3. t \in Token /\ Cur = t.kind /\ Reference!Family(t) = (IF Cur \in PoundHeader \cup {"#endif"} THEN "#" ELSE "@")
      /\ Cur \in PoundKinds
  BY <1>2, PoundToken DEF PoundHeader
<1> HIDE DEF t
<1> DEFINE f == [Top EXCEPT !.depth = d]
<1>4. f \in Frame /\ f.family = "#" /\ f.mode = "skip" /\ f.depth = d /\ Top \in Frame
  BY <1>1, <1>2, TopIn, FrameFacts
<1> HIDE DEF f
<1>5. /\ Len(stack') = Len(stack) /\ Len(stack) \in Nat \ {0} /\ stack' # << >> /\ Top' = f
      /\ stack'[Len(stack)] = f /\ Top = stack[Len(stack)]
      /\ \A i \in 1..Len(stack) : i # Len(stack) => stack'[i] = stack[i]
  BY <1>1, <1>4, TopReplaced, TopIn DEF f
<1>6. PICK l \in Nat \ {0} : l = Levels /\ l = Len(stack) - 1 + Top.depth /\ l >= Len(stack)
  BY <1>1, BlocksType DEF BlocksTyped
<1>7. Levels' = Len(stack) - 1 + d
  BY <1>4, <1>5 DEF Levels
<1>8. ASSUME NEW k \in Nat \ {0} PROVE BlockAt(k)' = BlockAt(k)
  <2> DEFINE g == IF k <= Len(stack) THEN stack[k] ELSE Top
             h == IF k <= Len(stack') THEN stack'[k] ELSE Top'
  <2>1. h.family = g.family /\ h.mode = g.mode
    <3>1. CASE k < Len(stack)
      BY <1>5, <3>1
    <3>2. CASE k >= Len(stack)
      BY <1>2, <1>4, <1>5, <3>2
    <3> QED
      BY <1>5, <3>1, <3>2
  <2>2. BlockAt(k)' = [family |-> h.family, outer |-> k <= Len(stack'),
                       live |-> h.mode = "active", taken |-> h.mode = "active"]
    BY DEF BlockAt
  <2>3. BlockAt(k) = [family |-> g.family, outer |-> k <= Len(stack),
                      live |-> g.mode = "active", taken |-> g.mode = "active"]
    BY DEF BlockAt
  <2> HIDE DEF g, h
  <2> QED
    BY <1>5, <2>1, <2>2, <2>3
<1>9. AbstractScan.pos = pos /\ AbstractScan.open = AbstractBlocks /\ AbstractScan.out = decls /\ AbstractScan.bad = FALSE
  BY <1>2 DEF AbstractScan, Parsing
<1>10. Reference!Live(AbstractScan) = FALSE
  <2>1. ~Reference!Live(AbstractScan)
    BY <1>1, <1>2, ScanTop
  <2>2. Reference!Live(AbstractScan) \in BOOLEAN
    BY DEF Reference!Live
  <2> QED
    BY <2>1, <2>2
<1>11. Reference!Step(AbstractScan, t) = Scan(pos + 1, AbstractBlocks', decls, FALSE)
  <2>1. CASE Cur \in PoundHeader
    <3>1. Levels' = l + 1
      <4>1. d = Top.depth + 1
        BY <1>1, <2>1 DEF PoundHeader
      <4>2. Top.depth \in Nat
        BY <1>4 DEF Frame
      <4> QED
        BY <1>5, <1>6, <1>7, <4>1, <4>2
    <3>2. AbstractBlocks' = Append(AbstractBlocks, BlockAt(l + 1)')
      BY <1>6, <1>8, <3>1, BlocksAppended
    <3>3. BlockAt(l + 1)' = Reference!NewBlock(t, FALSE, FALSE)
      <4>1. ~(l + 1 <= Len(stack'))
        BY <1>5, <1>6
      <4>2. BlockAt(l + 1)' = [family |-> "#", outer |-> FALSE, live |-> FALSE, taken |-> FALSE]
        <5>1. (l + 1 <= Len(stack')) = FALSE /\ (Top'.mode = "active") = FALSE
          BY <1>4, <1>5, <4>1
        <5> QED
          BY <1>4, <1>5, <5>1 DEF BlockAt
      <4> QED
        BY <1>3, <2>1, <4>2 DEF Reference!NewBlock
    <3>4. (Reference!Live(AbstractScan) /\ Truth(t)) = FALSE
      BY <1>10
    <3>5. Reference!Step(AbstractScan, t) =
            Scan(pos + 1, Append(AbstractBlocks, Reference!NewBlock(t, Reference!Live(AbstractScan), Reference!Live(AbstractScan) /\ Truth(t))), decls, FALSE)
      BY <1>3, <1>9, <2>1, StepFacts
    <3> QED
      BY <1>10, <3>2, <3>3, <3>4, <3>5
  <2>2. CASE Cur = "#endif"
    <3>1. Levels' = l - 1
      <4>1. d = Top.depth - 1
        BY <1>1, <2>2 DEF PoundHeader
      <4>2. Top.depth \in Nat
        BY <1>4 DEF Frame
      <4> QED
        BY <1>5, <1>6, <1>7, <4>1, <4>2
    <3>2. AbstractBlocks' = Front(AbstractBlocks)
      BY <1>6, <1>8, <3>1, BlocksDropped
    <3>3. Reference!Inside(AbstractScan, t)
      BY <1>1, <1>2, <1>3, <2>2, ScanTop
    <3> QED
      BY <1>3, <1>9, <2>2, <3>2, <3>3, StepFacts
  <2>3. CASE Cur \in {"decl", "import"}
    <3>1. Levels' = l
      <4>1. d = Top.depth
        BY <1>1, <2>3 DEF PoundHeader
      <4> QED
        BY <1>6, <1>7, <4>1
    <3>2. AbstractBlocks' = AbstractBlocks
      BY <1>6, <1>8, <3>1, BlocksKept
    <3>3. Reference!OutAfter(AbstractScan, t) = decls
      BY <1>9, <1>10 DEF Reference!OutAfter
    <3> QED
      BY <1>3, <1>9, <2>3, <3>2, <3>3, StepFacts
  <2> QED
    BY <1>3, <2>1, <2>2, <2>3 DEF PoundKinds
<1>12. (status' = "rejected") = FALSE
  BY <1>2 DEF Parsing
<1> QED
  BY <1>2, <1>11, <1>12, AdvanceMaps DEF t, Parsing

LEMMA PoundCloses ==
  ASSUME PoundOnly, PoundInv, PoundInv', PoundEnd
  PROVE  Reference!Next
<1> USE DEF PoundInv
<1> DEFINE t == input[pos]
<1>1. /\ stack # << >> /\ stack' = Front(stack)
      /\ Top.mode # "skip" \/ Top.depth = 1
      /\ pos' = pos + 1 /\ decls' = decls /\ status' = status /\ input' = input /\ Parsing
      /\ Cur = "#endif" /\ Top.family = "#"
  BY DEF PoundEnd, In, Consume
<1>2. t \in Token /\ t.kind = "#endif" /\ Reference!Family(t) = "#"
  BY <1>1, PoundToken
<1> HIDE DEF t
<1>3. PICK n \in Nat \ {0} : n = Len(stack) /\ Len(stack') = n - 1
  BY <1>1, Popped
<1>4. Levels = n
  <2>1. Top.depth = 1
    BY <1>1, TopIn DEF Shape
  <2> QED
    BY <1>1, <1>3, <2>1 DEF Levels
<1>5. Levels' = n - 1
  <2>1. CASE stack' = << >>
    <3>1. n = 1
      BY <1>1, <1>3, <2>1, Popped
    <3> QED
      BY <2>1, <3>1 DEF Levels
  <2>2. CASE stack' # << >>
    <3>1. Top' = stack[n - 1] /\ n - 1 \in 1..n
      BY <1>1, <1>3, <2>2, Popped
    <3>2. stack[n - 1].mode = "active" /\ stack[n - 1].depth = 1
      BY <1>3, <3>1 DEF Shape
    <3> QED
      BY <1>3, <2>2, <3>1, <3>2 DEF Levels
  <2> QED
    BY <2>1, <2>2
<1>6. ASSUME NEW k \in 1..(n - 1) PROVE BlockAt(k)' = BlockAt(k)
  <2>1. k <= Len(stack) /\ k <= Len(stack') /\ stack'[k] = stack[k]
    BY <1>1, <1>3, Popped
  <2>2. (k <= Len(stack)) = (k <= Len(stack'))
    BY <2>1
  <2> QED
    BY <2>1, <2>2 DEF BlockAt
<1>7. AbstractBlocks' = Front(AbstractBlocks)
  BY <1>4, <1>5, <1>6, BlocksDropped
<1>8. Reference!Inside(AbstractScan, t)
  BY <1>1, <1>2, ScanTop
<1>9. AbstractScan.pos = pos /\ AbstractScan.open = AbstractBlocks /\ AbstractScan.out = decls /\ AbstractScan.bad = FALSE
  BY <1>1 DEF AbstractScan, Parsing
<1>10. Reference!Step(AbstractScan, t) = Scan(pos + 1, AbstractBlocks', decls, FALSE)
  BY <1>2, <1>7, <1>8, <1>9, StepFacts
<1>11. (status' = "rejected") = FALSE
  BY <1>1 DEF Parsing
<1> QED
  BY <1>1, <1>10, <1>11, AdvanceMaps DEF t, Parsing

LEMMA PoundReads ==
  ASSUME PoundOnly, PoundInv, ParseDeclaration \/ ParseImport
  PROVE  Reference!Next
<1> USE DEF PoundInv
<1> DEFINE t == input[pos]
<1>1. /\ pos' = pos + 1 /\ status' = status /\ input' = input /\ Parsing /\ stack' = stack
      /\ Cur \in {"decl", "import"} /\ (stack # << >> => Top.mode = "active")
      /\ decls' = IF Cur = "decl" THEN Append(decls, pos) ELSE decls
  BY DEF ParseDeclaration, ParseImport, Consume, AtTopLevel
<1>2. t \in Token /\ t.kind = Cur
  BY <1>1, PoundToken
<1> HIDE DEF t
<1>3. AbstractBlocks' = AbstractBlocks
  BY <1>1 DEF AbstractBlocks, Levels, BlockAt, Top, Last
<1>4. AbstractScan.pos = pos /\ AbstractScan.open = AbstractBlocks /\ AbstractScan.out = decls /\ AbstractScan.bad = FALSE
  BY <1>1 DEF AbstractScan, Parsing
<1>5. Reference!OutAfter(AbstractScan, t) = decls'
  <2>1. Reference!Live(AbstractScan)
    BY <1>1, ScanTop
  <2> QED
    BY <1>1, <1>2, <1>4, <2>1 DEF Reference!OutAfter
<1>6. Reference!Step(AbstractScan, t) = Scan(pos + 1, AbstractBlocks', decls', FALSE)
  BY <1>1, <1>2, <1>3, <1>4, <1>5, StepFacts
<1>7. (status' = "rejected") = FALSE
  BY <1>1 DEF Parsing
<1> QED
  BY <1>1, <1>6, <1>7, AdvanceMaps DEF t, Parsing

LEMMA PoundStops ==
  ASSUME PoundOnly, PoundInv, PoundInv', Stray \/ EndOfInput
  PROVE  Reference!Next
<1> USE DEF PoundInv
<1>1. ASSUME Reject
      PROVE  AbstractBlocks' = << >> /\ AbstractScan' = Scan(pos, << >>, << >>, TRUE)
             /\ AbstractVerdict' = "rejected"
  <2>1. stack' = << >> /\ decls' = << >> /\ status' = "rejected" /\ pos' = pos
    BY <1>1 DEF Reject
  <2>2. AbstractBlocks' = << >>
    <3>1. /\ Len(AbstractBlocks') = Levels' /\ AbstractBlocks' \in Seq(Reference!Block)
          /\ Levels' = 0 <=> stack' = << >>
      BY BlocksTypeNext DEF BlocksTyped
    <3> QED
      BY <2>1, <3>1, EmptySeq
  <2>3. AbstractScan' = [pos |-> pos', open |-> AbstractBlocks', out |-> decls', bad |-> status' = "rejected"]
    BY DEF AbstractScan
  <2>4. (status' = "rejected") = TRUE
    BY <2>1
  <2>5. AbstractVerdict' = "rejected"
    BY <2>1 DEF AbstractVerdict, Parsing
  <2> QED
    BY <2>1, <2>2, <2>3, <2>4, <2>5 DEF Scan
<1>2. AbstractScan.pos = pos /\ AbstractScan.open = AbstractBlocks /\ AbstractScan.bad = (status = "rejected")
  BY DEF AbstractScan
<1>3. AbstractBlocks = << >> <=> stack = << >>
  BY BlocksType, EmptySeq DEF BlocksTyped
<1>4. CASE Stray
  <2>1. Cur \in AtCloser \cup {"#endif"} /\ Cur # "eof" /\ AtTopLevel /\ Parsing /\ Reject
    BY <1>4 DEF Stray, AtCloser, AtElif, AtTopLevel
  <2>2. Cur = "#endif"
    BY <2>1, PoundToken DEF PoundKinds, PoundHeader, AtCloser, AtElif
  <2>3. stack = << >>
    BY <1>4, <2>2, PoundFamily DEF Stray, In, AtTopLevel, AtCloser, AtElif
  <2>4. input[pos] \in Token /\ input[pos].kind = "#endif"
    BY <2>1, <2>2, PoundToken
  <2>5. ~Reference!Inside(AbstractScan, input[pos])
    BY <2>3, ScanTop
  <2>6. AbstractScan.bad = FALSE
    BY <1>2, <2>1 DEF Parsing
  <2>7. Reference!Step(AbstractScan, input[pos]) = Scan(pos, << >>, << >>, TRUE)
    BY <1>2, <2>4, <2>5, <2>6, StepFacts
  <2>8. pos' = pos /\ decls' = << >> /\ (status' = "rejected") = TRUE /\ status' = "rejected" /\ input' = input
    BY <2>1 DEF Reject
  <2> QED
    BY <1>1, <2>1, <2>7, <2>8, AdvanceMaps
<1>5. CASE EndOfInput
  <2>1. Parsing /\ pos > Len(input) /\ AbstractVerdict = "none"
    <3>1. Parsing /\ Cur = "eof"
      BY <1>5 DEF EndOfInput
    <3>2. ~(pos <= Len(input))
      <4>1. ASSUME pos <= Len(input) PROVE FALSE
        <5>1. pos \in 1..Len(input)
          BY <4>1 DEF TypeOK
        <5>2. Cur \in PoundKinds
          BY <4>1, <5>1 DEF Cur, PoundOnly
        <5> QED
          BY <3>1, <5>2 DEF PoundKinds, PoundHeader
      <4> QED
        BY <4>1
    <3>3. pos \in Nat /\ Len(input) \in Nat
      BY DEF TypeOK
    <3> QED
      BY <3>1, <3>2, <3>3 DEF AbstractVerdict
  <2>2. CASE stack = << >> /\ status' = "accepted" /\ UNCHANGED <<input, pos, stack, decls>>
    <3>1. AbstractBlocks' = AbstractBlocks
      BY <2>2 DEF AbstractBlocks, Levels, BlockAt, Top, Last
    <3>2. (status' = "rejected") = (status = "rejected")
      BY <2>1, <2>2 DEF Parsing
    <3>3. AbstractScan' = AbstractScan
      BY <2>2, <3>1, <3>2 DEF AbstractScan
    <3>4. AbstractVerdict' = "accepted"
      BY <2>2 DEF AbstractVerdict, Parsing
    <3> QED
      BY <1>2, <1>3, <2>1, <2>2, <3>3, <3>4 DEF Reference!Next, Reference!Finish
  <2>3. CASE stack # << >> /\ Reject
    <3>1. Reference!BadlyNested(pos) = Scan(pos, << >>, << >>, TRUE)
      BY DEF Reference!BadlyNested, Scan
    <3> QED
      BY <1>1, <1>2, <1>3, <2>1, <2>3, <3>1 DEF Reference!Next, Reference!Finish, Reject
  <2> QED
    BY <1>5, <2>2, <2>3 DEF EndOfInput
<1> QED
  BY <1>4, <1>5

(***************************************************************************)
(* parse_top_level_pound_directive and skip_pp_branch_pound, with their    *)
(* recursion and their depth counter, implement the one-pass scan of       *)
(* ConditionalBlocks: for streams of any length and nesting of any depth,  *)
(* as long as no @-directive is in them.                                   *)
(***************************************************************************)
THEOREM PoundRefines == ASSUME PoundOnly PROVE Spec => PoundRefinesBlocks
<1>1. Init => PoundInv
  BY TypeInit, EmptySeq DEF Init, PoundInv, Shape
<1>2. Init => Reference!Init
  <2> SUFFICES ASSUME Init PROVE Reference!Init
    OBVIOUS
  <2>1. stack = << >> /\ pos = 1 /\ decls = << >> /\ status = "parsing"
    BY DEF Init
  <2>2. AbstractBlocks = << >>
    <3>1. TypeOK
      BY TypeInit
    <3> QED
      BY <2>1, <3>1, BlocksType, EmptySeq DEF BlocksTyped
  <2>3. (status = "rejected") = FALSE
    BY <2>1
  <2> QED
    BY <2>1, <2>2, <2>3 DEF Reference!Init, Reference!Start, AbstractScan, AbstractVerdict, Parsing
<1>3. PoundInv /\ PoundInv' /\ [Next]_vars => [Reference!Next]_(Reference!vars)
  <2> SUFFICES ASSUME PoundInv, PoundInv', [Next]_vars
               PROVE  Reference!Next \/ UNCHANGED Reference!vars
    OBVIOUS
  <2>1. CASE ParseDeclaration \/ ParseImport
    BY <2>1, PoundReads
  <2>2. CASE OpenPound
    BY <2>2, PoundOpens
  <2>3. CASE Stray \/ EndOfInput
    BY <2>3, PoundStops
  <2>4. CASE PoundEnd
    BY <2>4, PoundCloses
  <2>5. CASE PoundSkip
    BY <2>5, PoundSkips
  <2>6. CASE UNCHANGED vars
    <3>1. UNCHANGED <<input, pos, stack, decls, status>>
      BY <2>6 DEF vars
    <3>2. AbstractBlocks' = AbstractBlocks
      BY <3>1 DEF AbstractBlocks, Levels, BlockAt, Top, Last
    <3>3. AbstractScan' = AbstractScan /\ AbstractVerdict' = AbstractVerdict
      BY <3>1, <3>2 DEF AbstractScan, AbstractVerdict, Parsing
    <3> QED
      BY <3>1, <3>3 DEF Reference!vars
  <2>7. ~OpenAt /\ ~OpenAtMalformed
    BY PoundToken DEF OpenAt, OpenAtMalformed, PoundKinds, PoundHeader
  <2>8. ~AtBranchEnds /\ ~AtSkipEnds /\ ~AtSkip /\ ~AtEnd /\ ~AtNextBranch /\ ~AtTailError
    BY PoundFamily DEF AtBranchEnds, AtSkipEnds, AtSkip, AtEnd, AtNextBranch, AtTailError
  <2> QED
    BY <2>1, <2>2, <2>3, <2>4, <2>5, <2>6, <2>7, <2>8 DEF Next
<1> QED
  BY <1>1, <1>2, <1>3, PoundInvStep, PTL DEF Spec, PoundRefinesBlocks, Reference!Spec

Grown(q, q2, x) ==
  /\ Len(q2) = Len(q) + 1 /\ q2[Len(q) + 1] = x
  /\ \A i \in 1..Len(q) : q2[i] = q[i]
Cut(q, q2) ==
  /\ Len(q) # 0 /\ Len(q2) = Len(q) - 1
  /\ \A i \in 1..(Len(q) - 1) : q2[i] = q[i]
Changed(q, q2, x) ==
  /\ Len(q) # 0 /\ Len(q2) = Len(q) /\ q2[Len(q)] = x
  /\ \A i \in 1..(Len(q) - 1) : q2[i] = q[i]

-----------------------------------------------------------------------------
(***************************************************************************)
(* The scan of a stream exists, has a type at every position, and a stream *)
(* that turns out well nested was never badly nested before.               *)
(***************************************************************************)
ScanState == [pos : Nat, open : Seq(Reference!Block), out : Seq(Nat), bad : BOOLEAN]

LEMMA TruthBoolean == \A t : Truth(t) \in BOOLEAN
<1> SUFFICES ASSUME NEW t PROVE Truth(t) \in BOOLEAN
  OBVIOUS
<1>1. Truth(t) = TRUE \/ Truth(t) = FALSE
  BY DEF Truth, macro_is_defined
<1> QED
  BY <1>1

\* What one token does to the open conditionals.
LEMMA SeqSteps ==
  ASSUME NEW S, NEW q \in Seq(S)
  PROVE  /\ \A x \in S : Append(q, x) \in Seq(S) /\ Grown(q, Append(q, x), x)
         /\ q # << >> => /\ Front(q) \in Seq(S) /\ Cut(q, Front(q)) /\ Last(q) = q[Len(q)] /\ q[Len(q)] \in S
                         /\ \A x \in S : /\ [q EXCEPT ![Len(q)] = x] \in Seq(S)
                                         /\ Changed(q, [q EXCEPT ![Len(q)] = x], x)
<1>1. Len(q) \in Nat /\ (q # << >> => Len(q) \in Nat \ {0})
  BY EmptySeq
<1>2. ASSUME NEW x \in S PROVE Append(q, x) \in Seq(S) /\ Grown(q, Append(q, x), x)
  BY <1>1 DEF Grown
<1>3. ASSUME q # << >> PROVE Front(q) \in Seq(S) /\ Cut(q, Front(q))
  <2> DEFINE w == SubSeq(q, 1, Len(q) - 1)
  <2>1. \A k \in 1..(Len(q) - 1) : q[k] \in S
    BY <1>1, <1>3, ElementOfSeq
  <2>2. /\ w \in Seq(S)
        /\ Len(w) = IF 1 <= Len(q) - 1 THEN (Len(q) - 1) - 1 + 1 ELSE 0
        /\ \A i \in 1..((Len(q) - 1) - 1 + 1) : w[i] = q[1 + i - 1]
    BY <1>1, <1>3, <2>1, SubSeqProperties
  <2>3. Front(q) = w
    BY DEF Front
  <2> HIDE DEF w
  <2>4. \A j \in Nat \ {0} : (IF 1 <= j - 1 THEN (j - 1) - 1 + 1 ELSE 0) = j - 1
    OBVIOUS
  <2>5. ASSUME NEW i \in 1..(Len(q) - 1) PROVE w[i] = q[i]
    <3>1. i \in 1..((Len(q) - 1) - 1 + 1) /\ 1 + i - 1 = i
      BY <1>1, <1>3
    <3> QED
      BY <2>2, <3>1
  <2> QED
    BY <1>1, <1>3, <2>2, <2>3, <2>4, <2>5 DEF Cut
<1>4. ASSUME q # << >> PROVE Last(q) = q[Len(q)] /\ q[Len(q)] \in S
  BY <1>1, <1>4, ElementOfSeq DEF Last
<1>5. ASSUME q # << >>, NEW x \in S
      PROVE  [q EXCEPT ![Len(q)] = x] \in Seq(S) /\ Changed(q, [q EXCEPT ![Len(q)] = x], x)
  BY <1>1, <1>5, ExceptSeq DEF Changed
<1> QED
  BY <1>2, <1>3, <1>4, <1>5

LEMMA ScanLive ==
  ASSUME NEW s \in ScanState
  PROVE  /\ Reference!Live(s) \in BOOLEAN
         /\ Reference!Live(s) <=> (s.open # << >> => s.open[Len(s.open)].live)
         /\ \A t : Reference!Inside(s, t) <=>
                     s.open # << >> /\ s.open[Len(s.open)].family = Reference!Family(t)
BY DEF Reference!Live, Reference!Inside, Reference!Last

\* The scan after a token it does not stumble over.
OpenMoves(o, t, live, o2) ==
  /\ t.kind \in {"decl", "import"} => o2 = o
  /\ t.kind \in PoundHeader \cup AtHeader =>
       Grown(o, o2, Reference!NewBlock(t, live, live /\ Truth(t)))
  /\ t.kind \in {"#endif", "@end"} => o # << >> /\ o[Len(o)].family = Reference!Family(t) /\ Cut(o, o2)
  /\ t.kind \in AtElif \cup {"@else"} =>
       /\ o # << >> /\ o[Len(o)].family = "@"
       /\ Changed(o, o2, Reference!NextBranch(o[Len(o)], Reference!Elifs(t) => Truth(t)))

LEMMA StepMoves ==
  ASSUME NEW s \in ScanState, NEW t \in Token, s.bad = FALSE
  PROVE  LET n == Reference!Step(s, t)
         IN  /\ n \in ScanState
             /\ n.bad = FALSE => /\ n.pos = s.pos + 1 /\ n.out = Reference!OutAfter(s, t)
                                 /\ OpenMoves(s.open, t, Reference!Live(s), n.open)
<1>1. s.pos \in Nat /\ s.open \in Seq(Reference!Block) /\ s.out \in Seq(Nat)
  BY DEF ScanState
<1>3. Reference!OutAfter(s, t) \in Seq(Nat)
  BY <1>1 DEF Reference!OutAfter
<1>4. s.pos + 1 \in Nat /\ TRUE \in BOOLEAN /\ FALSE \in BOOLEAN
  BY <1>1
<1>5. t.kind # "decl" => Reference!OutAfter(s, t) = s.out
  BY DEF Reference!OutAfter
<1>6. CASE t.kind \in {"decl", "import"}
  <2>1. Reference!Step(s, t) = Scan(s.pos + 1, s.open, Reference!OutAfter(s, t), FALSE)
    BY <1>6, StepFacts
  <2>2. OpenMoves(s.open, t, Reference!Live(s), s.open)
    BY <1>6 DEF OpenMoves, PoundHeader, AtHeader, AtElif
  <2>20. /\ Scan(s.pos + 1, s.open, Reference!OutAfter(s, t), FALSE) \in ScanState
        /\ LET n == Scan(s.pos + 1, s.open, Reference!OutAfter(s, t), FALSE)
           IN  n.pos = s.pos + 1 /\ n.open = s.open /\ n.out = Reference!OutAfter(s, t) /\ n.bad = FALSE
    BY <1>1, <1>3, <1>4 DEF Scan, ScanState
  <2> QED
    BY <2>1, <2>2, <2>20
<1>7. CASE t.kind \in PoundHeader \cup AtHeader
  <2> DEFINE b == Reference!NewBlock(t, Reference!Live(s), Reference!Live(s) /\ Truth(t))
  <2>1. Reference!Step(s, t) = Scan(s.pos + 1, Append(s.open, b), s.out, FALSE)
    BY <1>7, StepFacts
  <2>2. b \in Reference!Block
    BY ScanLive, TruthBoolean, BlockFacts
  <2> HIDE DEF b
  <2>3. Append(s.open, b) \in Seq(Reference!Block) /\ Grown(s.open, Append(s.open, b), b)
    BY <1>1, <2>2, SeqSteps
  <2>4. OpenMoves(s.open, t, Reference!Live(s), Append(s.open, b))
    BY <1>7, <2>3 DEF OpenMoves, PoundHeader, AtHeader, AtElif, b
  <2>5. t.kind # "decl"
    BY <1>7 DEF PoundHeader, AtHeader
  <2>20. /\ Scan(s.pos + 1, Append(s.open, b), s.out, FALSE) \in ScanState
        /\ LET n == Scan(s.pos + 1, Append(s.open, b), s.out, FALSE)
           IN  n.pos = s.pos + 1 /\ n.open = Append(s.open, b) /\ n.out = s.out /\ n.bad = FALSE
    BY <1>1, <1>4, <2>3 DEF Scan, ScanState
  <2> QED
    BY <1>5, <2>1, <2>4, <2>5, <2>20
<1>8. ASSUME t.kind \in AtCloser \cup {"#endif"}, ~Reference!Inside(s, t)
      PROVE  Reference!Step(s, t) \in ScanState /\ Reference!Step(s, t).bad = TRUE
  <2>1. Reference!Step(s, t) = Scan(s.pos, << >>, << >>, TRUE)
    BY <1>8, StepFacts
  <2>2. << >> \in Seq(Reference!Block) /\ << >> \in Seq(Nat)
    OBVIOUS
  <2>20. /\ Scan(s.pos, << >>, << >>, TRUE) \in ScanState
        /\ LET n == Scan(s.pos, << >>, << >>, TRUE)
           IN  n.pos = s.pos /\ n.open = << >> /\ n.out = << >> /\ n.bad = TRUE
    BY <1>1, <1>4, <2>2 DEF Scan, ScanState
  <2> QED
    BY <2>1, <2>20
<1>9. ASSUME t.kind \in {"#endif", "@end"}, Reference!Inside(s, t)
      PROVE  LET n == Reference!Step(s, t)
             IN  /\ n \in ScanState
                 /\ n.pos = s.pos + 1 /\ n.out = Reference!OutAfter(s, t)
                 /\ OpenMoves(s.open, t, Reference!Live(s), n.open)
  <2>1. Reference!Step(s, t) = Scan(s.pos + 1, Front(s.open), s.out, FALSE)
    BY <1>9, StepFacts
  <2>2. s.open # << >> /\ s.open[Len(s.open)].family = Reference!Family(t)
    BY <1>9, ScanLive
  <2>3. Front(s.open) \in Seq(Reference!Block) /\ Cut(s.open, Front(s.open))
    BY <1>1, <2>2, SeqSteps
  <2>4. OpenMoves(s.open, t, Reference!Live(s), Front(s.open))
    BY <1>9, <2>2, <2>3 DEF OpenMoves, PoundHeader, AtHeader, AtElif
  <2>5. t.kind # "decl"
    BY <1>9
  <2>20. /\ Scan(s.pos + 1, Front(s.open), s.out, FALSE) \in ScanState
        /\ LET n == Scan(s.pos + 1, Front(s.open), s.out, FALSE)
           IN  n.pos = s.pos + 1 /\ n.open = Front(s.open) /\ n.out = s.out /\ n.bad = FALSE
    BY <1>1, <1>4, <2>3 DEF Scan, ScanState
  <2> QED
    BY <1>5, <2>1, <2>4, <2>5, <2>20
<1>10. ASSUME t.kind \in AtElif \cup {"@else"}, Reference!Inside(s, t)
      PROVE  LET n == Reference!Step(s, t)
             IN  /\ n \in ScanState
                 /\ n.pos = s.pos + 1 /\ n.out = Reference!OutAfter(s, t)
                 /\ OpenMoves(s.open, t, Reference!Live(s), n.open)
  <2> DEFINE b == Reference!NextBranch(s.open[Len(s.open)], Reference!Elifs(t) => Truth(t))
             u == [s.open EXCEPT ![Len(s.open)] = b]
  <2>1. Reference!Step(s, t) = Scan(s.pos + 1, u, s.out, FALSE)
    BY <1>10, StepFacts
  <2>2. s.open # << >> /\ s.open[Len(s.open)].family = Reference!Family(t)
    BY <1>10, ScanLive
  <2>3. s.open[Len(s.open)] \in Reference!Block
    BY <1>1, <2>2, SeqSteps
  <2>4. (Reference!Elifs(t) => Truth(t)) \in BOOLEAN
    OBVIOUS
  <2>5. b \in Reference!Block
    BY <2>3, <2>4, BlockFacts
  <2> HIDE DEF b
  <2>6. u \in Seq(Reference!Block) /\ Changed(s.open, u, b)
    BY <1>1, <2>2, <2>5, SeqSteps
  <2> HIDE DEF u
  <2>7. Reference!Family(t) = "@"
    BY <1>10 DEF Reference!Family, AtElif
  <2>8. OpenMoves(s.open, t, Reference!Live(s), u)
    BY <1>10, <2>2, <2>6, <2>7 DEF OpenMoves, PoundHeader, AtHeader, AtElif, b
  <2>9. t.kind # "decl"
    BY <1>10 DEF AtElif
  <2>20. /\ Scan(s.pos + 1, u, s.out, FALSE) \in ScanState
        /\ LET n == Scan(s.pos + 1, u, s.out, FALSE)
           IN  n.pos = s.pos + 1 /\ n.open = u /\ n.out = s.out /\ n.bad = FALSE
    BY <1>1, <1>4, <2>6 DEF Scan, ScanState
  <2> QED
    BY <1>5, <2>1, <2>8, <2>9, <2>20
<1>11. t.kind \in {"decl", "import"} \/ t.kind \in PoundHeader \cup AtHeader
       \/ t.kind \in AtCloser \cup {"#endif"}
  BY DEF Token, TokenKind
<1>12. t.kind \in AtCloser \cup {"#endif"} =>
         t.kind \in {"#endif", "@end"} \/ t.kind \in AtElif \cup {"@else"}
  BY DEF AtCloser
<1> QED
  BY <1>6, <1>7, <1>8, <1>9, <1>10, <1>11, <1>12

LEMMA ScanRecursion ==
  ASSUME NEW n \in Nat, NEW x \in ScanState, NEW F \in [ScanState \X (1..n) -> ScanState]
  PROVE  \E g \in [0..n -> ScanState] : g[0] = x /\ \A i \in 1..n : g[i] = F[<<g[i - 1], i>>]
<1>1. HasRun(ScanState, n, x, F)
  BY Run DEF IsStep
<1> QED BY <1>1 DEF HasRun

LEMMA ScansFacts ==
  ASSUME NEW s \in Seq(Token)
  PROVE  /\ Reference!Scans(s) \in [0..Len(s) -> ScanState]
         /\ Reference!Scans(s)[0] = Reference!Start
         /\ \A i \in 1..Len(s) : Reference!Scans(s)[i] = Reference!Step(Reference!Scans(s)[i - 1], s[i])
<1> DEFINE n == Len(s)
           F == [x \in ScanState \X (1..n) |-> Reference!Step(x[1], s[x[2]])]
           IsScan(g) == g = [i \in 0..n |-> IF i = 0 THEN Reference!Start
                                            ELSE Reference!Step(g[i - 1], s[i])]
<1>1. Reference!Start \in ScanState
  BY DEF Reference!Start, ScanState
<1>2. \A x \in ScanState, t \in Token : Reference!Step(x, t) \in ScanState
  <2> SUFFICES ASSUME NEW x \in ScanState, NEW t \in Token PROVE Reference!Step(x, t) \in ScanState
    OBVIOUS
  <2>1. CASE x.bad = TRUE
    BY <2>1 DEF Reference!Step
  <2>2. CASE x.bad = FALSE
    BY <2>2, StepMoves
  <2>3. x.bad \in BOOLEAN
    BY DEF ScanState
  <2> QED
    BY <2>1, <2>2, <2>3
<1>3. n \in Nat /\ \A i \in 1..n : s[i] \in Token
  BY ElementOfSeq
<1>4. F \in [ScanState \X (1..n) -> ScanState]
  BY <1>2, <1>3
<1>5. PICK g \in [0..n -> ScanState] :
        g[0] = Reference!Start /\ \A i \in 1..n : g[i] = F[<<g[i - 1], i>>]
  <2> HIDE DEF n, F
  <2> QED
    BY <1>1, <1>3, <1>4, ScanRecursion
<1>6. IsScan(g)
  <2>1. ASSUME NEW i \in 0..n, i # 0 PROVE F[<<g[i - 1], i>>] = Reference!Step(g[i - 1], s[i])
    <3>1. i - 1 \in 0..n /\ i \in 1..n
      BY <1>3, <2>1
    <3>2. g[i - 1] \in ScanState
      BY <3>1
    <3> QED
      BY <3>1, <3>2
  <2>2. \A i \in 0..n : g[i] = IF i = 0 THEN Reference!Start ELSE Reference!Step(g[i - 1], s[i])
    <3> HIDE DEF F
    <3> QED
      BY <1>3, <1>5, <2>1
  <2>3. g = [i \in 0..n |-> g[i]]
    BY <1>5
  <2> QED
    BY <2>2, <2>3
<1>7. Reference!Scans(s) = CHOOSE g2 : IsScan(g2)
  BY DEF Reference!Scans
<1> HIDE DEF IsScan
<1>8. IsScan(Reference!Scans(s))
  BY <1>6, <1>7
<1> DEFINE G == Reference!Scans(s)
<1> HIDE DEF G
<1>9. G = [i \in 0..n |-> IF i = 0 THEN Reference!Start ELSE Reference!Step(G[i - 1], s[i])]
  BY <1>8 DEF IsScan, G
<1>10. G[0] = Reference!Start /\ \A i \in 1..n : G[i] = Reference!Step(G[i - 1], s[i])
  BY <1>3, <1>9
<1>11. \A i \in Nat : i \in {j \in Nat : j <= n => G[j] \in ScanState}
  <2> DEFINE P == {j \in Nat : j <= n => G[j] \in ScanState}
  <2>1. 0 \in P
    BY <1>1, <1>10
  <2>2. ASSUME NEW j \in Nat, j \in P PROVE j + 1 \in P
    <3>1. ASSUME j + 1 <= n PROVE G[j + 1] \in ScanState
      <4>1. j <= n /\ j + 1 \in 1..n /\ (j + 1) - 1 = j
        BY <1>3, <2>2, <3>1
      <4>2. G[j] \in ScanState
        BY <2>2, <4>1
      <4> QED
        BY <1>2, <1>3, <1>10, <4>1, <4>2
    <3> QED
      BY <2>2, <3>1
  <2> HIDE DEF P
  <2>3. \A i \in Nat : i \in P
    BY <2>1, <2>2, SetInduct
  <2> QED
    BY <2>3 DEF P
<1>12. G \in [0..n -> ScanState]
  BY <1>3, <1>9, <1>11
<1> QED
  BY <1>10, <1>12 DEF G

LEMMA NeverBad ==
  ASSUME NEW s \in Seq(Token), Reference!WellNested(s)
  PROVE  \A i \in 0..Len(s) : Reference!Scans(s)[i].bad = FALSE
<1> DEFINE G == Reference!Scans(s)  n == Len(s)
           P == {j \in Nat : j <= n => G[n - j].bad = FALSE}
<1>1. /\ G \in [0..n -> ScanState] /\ n \in Nat
      /\ \A i \in 1..n : G[i] = Reference!Step(G[i - 1], s[i])
  BY ScansFacts
<1>2. G[n].bad = FALSE
  <2>1. ~G[n].bad /\ n \in 0..n
    BY <1>1 DEF Reference!WellNested, Reference!Scan
  <2>2. G[n] \in ScanState
    BY <1>1, <2>1
  <2> HIDE DEF G
  <2> QED
    BY <2>1, <2>2 DEF ScanState
<1> HIDE DEF G, n
<1>3. 0 \in P
  BY <1>1, <1>2
<1>4. ASSUME NEW j \in Nat, j \in P PROVE j + 1 \in P
  <2>1. ASSUME j + 1 <= n PROVE G[n - (j + 1)].bad = FALSE
    <3>1. n - j \in 1..n /\ (n - j) - 1 = n - (j + 1) /\ n - (j + 1) \in 0..n /\ j <= n
      BY <1>1, <1>4, <2>1
    <3>2. G[n - j].bad = FALSE
      BY <1>4, <3>1
    <3>3. G[n - (j + 1)].bad = TRUE => G[n - j] = G[n - (j + 1)]
      <4>1. G[n - j] = Reference!Step(G[n - (j + 1)], s[n - j])
        BY <1>1, <3>1
      <4> QED
        BY <4>1 DEF Reference!Step
    <3>4. G[n - (j + 1)] \in ScanState
      BY <1>1, <3>1
    <3>5. G[n - (j + 1)].bad \in BOOLEAN
      BY <3>4 DEF ScanState
    <3> QED
      BY <3>2, <3>3, <3>5
  <2>2. j + 1 \in Nat
    BY <1>4
  <2> QED
    BY <2>1, <2>2
<1> HIDE DEF P
<1>5. \A i \in Nat : i \in P
  BY <1>3, <1>4, SetInduct
<1> QED
  <2> SUFFICES ASSUME NEW i \in 0..n PROVE G[i].bad = FALSE
    BY DEF G, n
  <2>1. n - i \in Nat /\ n - i <= n /\ n - (n - i) = i
    BY <1>1
  <2> QED
    BY <1>5, <2>1 DEF P

-----------------------------------------------------------------------------
(***************************************************************************)
(* How many of q[m], ..., q[k] belong to one family; q is a stack of       *)
(* frames or of open conditionals.                                         *)
(***************************************************************************)
Count(q, fam, m, k) == Cardinality({i \in m..k : q[i].family = fam})

LEMMA CountType ==
  ASSUME NEW q, NEW fam, NEW m \in Nat, NEW k \in Nat
  PROVE  IsFiniteSet({i \in m..k : q[i].family = fam}) /\ Count(q, fam, m, k) \in Nat
<1> DEFINE T == {i \in m..k : q[i].family = fam}
<1>1. IsFiniteSet(m..k)
  <2>1. m \in Int /\ k \in Int
    OBVIOUS
  <2> QED
    BY <2>1, FS_Interval
<1>2. T \in SUBSET (m..k)
  OBVIOUS
<1>3. IsFiniteSet(T)
  BY <1>1, <1>2, FS_Subset
<1> QED
  BY <1>3, FS_CardinalityType DEF Count

LEMMA CountSame ==
  ASSUME NEW q, NEW r, NEW fam, NEW m \in Nat, NEW k \in Nat,
         \A i \in m..k : q[i].family = r[i].family
  PROVE  Count(q, fam, m, k) = Count(r, fam, m, k)
<1>1. {i \in m..k : q[i].family = fam} = {i \in m..k : r[i].family = fam}
  OBVIOUS
<1> QED
  BY <1>1 DEF Count

LEMMA CountNone ==
  ASSUME NEW q, NEW fam, NEW m \in Nat, NEW k \in Nat, k < m
  PROVE  Count(q, fam, m, k) = 0
<1>1. {i \in m..k : q[i].family = fam} = {}
  OBVIOUS
<1> QED
  BY <1>1, FS_EmptySet DEF Count

LEMMA CountSelf ==
  ASSUME NEW q, NEW m \in Nat
  PROVE  Count(q, q[m].family, m, m) = 1
<1>1. {i \in m..m : q[i].family = q[m].family} = {m}
  OBVIOUS
<1> QED
  BY <1>1, FS_Singleton DEF Count

LEMMA CountMore ==
  ASSUME NEW q, NEW fam, NEW m \in Nat, NEW k \in Nat, m <= k + 1
  PROVE  Count(q, fam, m, k + 1) =
           IF q[k + 1].family = fam THEN Count(q, fam, m, k) + 1 ELSE Count(q, fam, m, k)
<1> DEFINE T == {i \in m..k : q[i].family = fam}
           U == {i \in m..(k + 1) : q[i].family = fam}
<1>1. IsFiniteSet(T)
  BY CountType
<1>2. k + 1 \notin T
  OBVIOUS
<1>3. U = IF q[k + 1].family = fam THEN T \cup {k + 1} ELSE T
  OBVIOUS
<1> HIDE DEF T, U
<1>4. Cardinality(T \cup {k + 1}) = Cardinality(T) + 1
  BY <1>1, <1>2, FS_AddElement
<1> QED
  BY <1>3, <1>4 DEF Count, T, U

LEMMA CountMember ==
  ASSUME NEW q, NEW fam, NEW m \in Nat, NEW k \in Nat, NEW j \in m..k
  PROVE  q[j].family = fam => Count(q, fam, m, k) >= 1
<1> DEFINE T == {i \in m..k : q[i].family = fam}
<1>0. IsFiniteSet(T)
  BY CountType
<1> HAVE q[j].family = fam
<1>1. IsFiniteSet(T) /\ Cardinality(T) \in Nat
  BY <1>0, FS_CardinalityType
<1>2. j \in T
  OBVIOUS
<1> HIDE DEF T
<1>3. Cardinality(T) # 0
  BY <1>1, <1>2, FS_EmptySet
<1>4. Cardinality(T) >= 1
  BY <1>1, <1>3
<1> QED
  BY <1>4 DEF Count, T

\* Two ends of one family are at least two members.
LEMMA CountEnds ==
  ASSUME NEW q, NEW fam, NEW m \in Nat, NEW k \in Nat, m <= k,
         q[m].family = fam, q[k].family = fam, Count(q, fam, m, k) = 1
  PROVE  m = k
<1> SUFFICES ASSUME m # k PROVE FALSE
  OBVIOUS
<1>1. k - 1 \in Nat /\ (k - 1) + 1 = k /\ m \in m..(k - 1) /\ m <= (k - 1) + 1
  OBVIOUS
<1>2. Count(q, fam, m, k) = Count(q, fam, m, k - 1) + 1
  BY <1>1, CountMore
<1>3. Count(q, fam, m, k - 1) >= 1 /\ Count(q, fam, m, k - 1) \in Nat
  BY <1>1, CountMember, CountType
<1> QED
  BY <1>2, <1>3

LEMMA CountGrown ==
  ASSUME NEW q, NEW r, NEW x, Len(q) \in Nat, Grown(q, r, x), NEW fam,
         NEW m \in 1..(Len(q) + 1)
  PROVE  Count(r, fam, m, Len(r)) =
           IF x.family = fam THEN Count(q, fam, m, Len(q)) + 1 ELSE Count(q, fam, m, Len(q))
<1> DEFINE l == Len(q)
<1>1. m \in Nat /\ l \in Nat /\ m <= l + 1 /\ Len(r) = l + 1 /\ r[l + 1] = x
  BY DEF Grown
<1>2. \A i \in m..l : r[i].family = q[i].family
  BY <1>1 DEF Grown
<1> HIDE DEF l
<1>3. Count(r, fam, m, l) = Count(q, fam, m, l)
  BY <1>1, <1>2, CountSame
<1>4. Count(r, fam, m, l + 1) =
        IF r[l + 1].family = fam THEN Count(r, fam, m, l) + 1 ELSE Count(r, fam, m, l)
  BY <1>1, CountMore
<1> QED
  BY <1>1, <1>3, <1>4 DEF l

LEMMA CountCut ==
  ASSUME NEW q, NEW r, Len(q) \in Nat, Cut(q, r), NEW fam, NEW m \in 1..Len(q)
  PROVE  Count(q, fam, m, Len(q)) =
           IF q[Len(q)].family = fam THEN Count(r, fam, m, Len(r)) + 1
                                     ELSE Count(r, fam, m, Len(r))
<1>1. PICK l \in Nat : l + 1 = Len(q) /\ Len(r) = l
  <2>1. Len(q) - 1 \in Nat /\ (Len(q) - 1) + 1 = Len(q) /\ Len(r) = Len(q) - 1
    BY DEF Cut
  <2> QED
    BY <2>1
<1>2. m \in Nat /\ m <= l + 1
  BY <1>1
<1>3. \A i \in m..l : r[i].family = q[i].family
  BY <1>1, <1>2 DEF Cut
<1>4. Count(r, fam, m, l) = Count(q, fam, m, l)
  BY <1>2, <1>3, CountSame
<1>5. Count(q, fam, m, l + 1) =
        IF q[l + 1].family = fam THEN Count(q, fam, m, l) + 1 ELSE Count(q, fam, m, l)
  BY <1>2, CountMore
<1> QED
  BY <1>1, <1>4, <1>5

LEMMA CountChanged ==
  ASSUME NEW q, NEW r, NEW x, Len(q) \in Nat, Changed(q, r, x), NEW fam, NEW m \in 1..Len(q),
         x.family = q[Len(q)].family
  PROVE  Count(r, fam, m, Len(r)) = Count(q, fam, m, Len(q))
<1>1. Len(r) = Len(q) /\ m \in Nat /\ \A i \in m..Len(q) : r[i].family = q[i].family
  BY DEF Changed
<1> QED
  BY <1>1, CountSame

-----------------------------------------------------------------------------
(***************************************************************************)
(* The parser's stack st agrees with the conditionals o that are open at   *)
(* its token: each frame is a conditional whose text around is compiled;   *)
(* the innermost frame, when it skips, is in the first of the dead         *)
(* conditionals above it and counts those of its own family.               *)
(***************************************************************************)
SkipTop(st) == Len(st) > 0 /\ st[Len(st)].mode = "skip"

FrameIs(f, b) ==
  b.family = f.family /\ b.outer = TRUE /\ b.taken = f.taken /\ (f.mode = "active" => b.live = TRUE)

Skipping(st, o) ==
  /\ \A i \in Len(st)..Len(o) : o[i].live = FALSE
  /\ \A i \in (Len(st) + 1)..Len(o) : o[i].outer = FALSE
  /\ Count(o, st[Len(st)].family, Len(st), Len(o)) = st[Len(st)].depth

Matches(st, o) ==
  /\ Len(st) <= Len(o)
  /\ \A i \in 1..Len(st) : FrameIs(st[i], o[i])
  /\ ~SkipTop(st) => Len(o) = Len(st)
  /\ SkipTop(st) => Skipping(st, o)

(***************************************************************************)
(* skip_pp_branch leaves the chain tail waiting behind an @end it has      *)
(* consumed.  From then on more calls wait for an @end than the stream has *)
(* @-conditionals open (below the first one that a #-skip is in), and the  *)
(* parser cannot get back to its main loop before the stream ends.         *)
(***************************************************************************)
Waiting(st) ==
  Count(st, "@", 1, Len(st))
    + (IF SkipTop(st) /\ st[Len(st)].family = "@" THEN st[Len(st)].depth - 1 ELSE 0)

PoundSkipTop(st) == SkipTop(st) /\ st[Len(st)].family = "#"

Doomed(st, o) ==
  \E m \in 1..(Len(o) + 1) :
    /\ PoundSkipTop(st) => /\ m <= Len(o) /\ o[m].family = "#"
                           /\ Count(o, "#", m, Len(o)) = st[Len(st)].depth
    /\ ~PoundSkipTop(st) => m = Len(o) + 1
    /\ Count(o, "@", 1, m - 1) < Waiting(st)

LEMMA WaitingType ==
  ASSUME NEW st \in Seq(Frame)
  PROVE  /\ Count(st, "@", 1, Len(st)) \in Nat /\ Waiting(st) \in Nat
         /\ st # << >> => Len(st) \in 1..Len(st) /\ st[Len(st)] \in Frame /\ st[Len(st)].depth \in Nat \ {0}
<1>0. 1 \in Nat /\ Len(st) \in Nat
  OBVIOUS
<1>1. Len(st) \in Nat /\ Count(st, "@", 1, Len(st)) \in Nat
  BY <1>0, CountType
<1>2. st # << >> => Len(st) \in 1..Len(st) /\ st[Len(st)] \in Frame
  BY <1>1, EmptySeq, ElementOfSeq
<1>3. st # << >> => st[Len(st)].depth \in Nat \ {0}
  BY <1>2 DEF Frame
<1>4. SkipTop(st) => st # << >>
  BY EmptySeq DEF SkipTop
<1> QED
  BY <1>1, <1>2, <1>3, <1>4 DEF Waiting

\* Nothing is open when the parser is back in its main loop.
LEMMA NoneWaiting ==
  ASSUME NEW st \in Seq(Frame), st = << >>, NEW o \in Seq(Reference!Block)
  PROVE  ~Doomed(st, o)
<1>1. Len(st) = 0 /\ ~SkipTop(st)
  BY EmptySeq DEF SkipTop
<1>2. Waiting(st) = 0
  BY <1>1, CountNone DEF Waiting
<1>3. Len(o) \in Nat
  OBVIOUS
<1>4. ASSUME NEW m \in 1..(Len(o) + 1) PROVE ~(Count(o, "@", 1, m - 1) < 0)
  <2>1. m - 1 \in Nat
    BY <1>3
  <2>2. Count(o, "@", 1, m - 1) \in Nat
    BY <2>1, CountType
  <2> QED
    BY <2>2
<1> QED
  BY <1>2, <1>4 DEF Doomed

-----------------------------------------------------------------------------
(***************************************************************************)
(* How agreement survives each kind of step.                               *)
(***************************************************************************)
LEMMA MatchesOpen ==
  ASSUME NEW st \in Seq(Frame), NEW st2 \in Seq(Frame), NEW f \in Frame, Grown(st, st2, f),
         NEW o \in Seq(Reference!Block), NEW o2 \in Seq(Reference!Block),
         NEW b \in Reference!Block, Grown(o, o2, b),
         Matches(st, o), ~SkipTop(st), FrameIs(f, b), f.depth = 1,
         f.mode = "skip" => b.live = FALSE
  PROVE  Matches(st2, o2)
<1>1. PICK l \in Nat : l = Len(st) /\ l = Len(o) /\ Len(st2) = l + 1 /\ Len(o2) = l + 1
  BY DEF Grown, Matches
<1>2. st2[l + 1] = f /\ o2[l + 1] = b
  BY <1>1 DEF Grown
<1>3. ASSUME NEW i \in 1..Len(st2) PROVE FrameIs(st2[i], o2[i])
  <2>1. CASE i \in 1..l
    BY <1>1, <2>1 DEF Grown, Matches
  <2>2. CASE i = l + 1
    BY <1>2, <2>2
  <2> QED
    BY <1>1, <2>1, <2>2
<1>4. ASSUME f.mode = "skip" PROVE Skipping(st2, o2)
  <2>1. Count(o2, f.family, l + 1, l + 1) = 1
    <3>1. o2[l + 1].family = f.family /\ l + 1 \in Nat
      BY <1>2 DEF FrameIs
    <3> QED
      BY <3>1, CountSelf
  <2>2. \A i \in (l + 1)..(l + 1) : o2[i].live = FALSE
    BY <1>2, <1>4
  <2> QED
    BY <1>1, <1>2, <2>1, <2>2 DEF Skipping
<1>5. SkipTop(st2) <=> f.mode = "skip"
  BY <1>1, <1>2 DEF SkipTop
<1> QED
  BY <1>1, <1>3, <1>4, <1>5 DEF Matches

LEMMA MatchesNext ==
  ASSUME NEW st \in Seq(Frame), NEW st2 \in Seq(Frame), NEW f \in Frame, Changed(st, st2, f),
         NEW o \in Seq(Reference!Block), NEW o2 \in Seq(Reference!Block),
         NEW b \in Reference!Block, Changed(o, o2, b),
         Matches(st, o), ~SkipTop(st), FrameIs(f, b), f.depth = 1,
         f.mode = "skip" => b.live = FALSE
  PROVE  Matches(st2, o2)
<1>1. PICK l \in Nat \ {0} : l = Len(st) /\ l = Len(o) /\ Len(st2) = l /\ Len(o2) = l
  BY DEF Changed, Matches
<1>2. st2[l] = f /\ o2[l] = b
  BY <1>1 DEF Changed
<1>3. ASSUME NEW i \in 1..Len(st2) PROVE FrameIs(st2[i], o2[i])
  <2>1. CASE i \in 1..(l - 1)
    <3>1. st2[i] = st[i] /\ o2[i] = o[i] /\ i \in 1..Len(st)
      BY <1>1, <2>1 DEF Changed
    <3> QED
      BY <3>1 DEF Matches
  <2>2. CASE i = l
    BY <1>2, <2>2
  <2> QED
    BY <1>1, <2>1, <2>2
<1>4. ASSUME f.mode = "skip" PROVE Skipping(st2, o2)
  <2>1. Count(o2, f.family, l, l) = 1
    <3>1. o2[l].family = f.family /\ l \in Nat
      BY <1>2 DEF FrameIs
    <3> QED
      BY <3>1, CountSelf
  <2>2. \A i \in l..l : o2[i].live = FALSE
    BY <1>2, <1>4
  <2> QED
    BY <1>1, <1>2, <2>1, <2>2 DEF Skipping
<1>5. SkipTop(st2) <=> f.mode = "skip"
  BY <1>1, <1>2 DEF SkipTop
<1> QED
  BY <1>1, <1>3, <1>4, <1>5 DEF Matches

LEMMA MatchesTail ==
  ASSUME NEW st \in Seq(Frame), NEW st2 \in Seq(Frame), NEW f \in Frame, Changed(st, st2, f),
         NEW o \in Seq(Reference!Block), Matches(st, o), Len(o) = Len(st),
         f.mode = "tail", f.family = st[Len(st)].family, f.taken = st[Len(st)].taken
  PROVE  Matches(st2, o)
<1>1. PICK l \in Nat \ {0} : l = Len(st) /\ l = Len(o) /\ Len(st2) = l /\ st2[l] = f
  BY DEF Changed
<1>2. ASSUME NEW i \in 1..Len(st2) PROVE FrameIs(st2[i], o[i])
  <2>1. i \in 1..Len(st) /\ FrameIs(st[i], o[i])
    BY <1>1 DEF Matches
  <2>2. CASE i \in 1..(l - 1)
    BY <1>1, <2>1, <2>2 DEF Changed
  <2>3. CASE i = l
    BY <1>1, <2>1, <2>3 DEF FrameIs
  <2> QED
    BY <1>1, <2>2, <2>3
<1>3. ~SkipTop(st2)
  BY <1>1 DEF SkipTop
<1> QED
  BY <1>1, <1>2, <1>3 DEF Matches

LEMMA MatchesClose ==
  ASSUME NEW st \in Seq(Frame), NEW st2 \in Seq(Frame), Cut(st, st2),
         NEW o \in Seq(Reference!Block), NEW o2 \in Seq(Reference!Block), Cut(o, o2),
         Matches(st, o), Len(o) = Len(st), ~SkipTop(st2)
  PROVE  Matches(st2, o2)
<1>1. PICK l \in Nat \ {0} : l = Len(st) /\ l = Len(o) /\ Len(st2) = l - 1 /\ Len(o2) = l - 1
  BY DEF Cut
<1>2. ASSUME NEW i \in 1..Len(st2) PROVE FrameIs(st2[i], o2[i])
  <2>1. i \in 1..Len(st) /\ FrameIs(st[i], o[i])
    BY <1>1 DEF Matches
  <2> QED
    BY <1>1, <2>1 DEF Cut
<1> QED
  BY <1>1, <1>2 DEF Matches

(***************************************************************************)
(* What a token does to the conditionals around a skip, with the depth the *)
(* skip continues with.                                                    *)
(***************************************************************************)
SkipMoves(o, o2, fam, d, d2) ==
  \/ o2 = o /\ d2 = d
  \/ \E b \in Reference!Block :
       Grown(o, o2, b) /\ d2 = IF b.family = fam THEN d + 1 ELSE d
  \/ Cut(o, o2) /\ d2 = IF o[Len(o)].family = fam THEN d - 1 ELSE d
  \/ \E b \in Reference!Block :
       Changed(o, o2, b) /\ b.family = o[Len(o)].family /\ d2 = d

\* The conditional the token opened or continued is not compiled.
StaysDead(o, o2) ==
  o2 = o \/ Len(o2) < Len(o) \/ (o2[Len(o2)].live = FALSE /\ o2[Len(o2)].outer = FALSE)

\* The conditional the skip started in is the innermost one exactly when
\* no other of its family is open.
LEMMA SkipFloor ==
  ASSUME NEW st \in Seq(Frame), NEW o \in Seq(Reference!Block), Matches(st, o), SkipTop(st)
  PROVE  /\ Len(st) \in 1..Len(o)
         /\ o[Len(o)].family # st[Len(st)].family => Len(o) # Len(st)
         /\ st[Len(st)].depth # 1 => Len(o) # Len(st)
         /\ st[Len(st)].depth = 1 /\ o[Len(o)].family = st[Len(st)].family => Len(o) = Len(st)
<1> DEFINE fam == st[Len(st)].family
<1>1. PICK l \in Nat \ {0} : l = Len(st)
  BY DEF SkipTop
<1>2. PICK n \in Nat : n = Len(o) /\ l <= n
  BY <1>1 DEF Matches
<1>3. o[l].family = fam /\ Count(o, fam, l, n) = st[l].depth
  BY <1>1, <1>2 DEF Matches, FrameIs, Skipping
<1> HIDE DEF fam
<1>4. n = l => Count(o, fam, l, n) = 1
  BY <1>3, CountSelf
<1>5. Count(o, fam, l, n) = 1 /\ o[n].family = fam => l = n
  BY <1>2, <1>3, CountEnds
<1> QED
  BY <1>1, <1>2, <1>3, <1>4, <1>5 DEF fam

LEMMA MatchesSkip ==
  ASSUME NEW st \in Seq(Frame), NEW st2 \in Seq(Frame), NEW f \in Frame, Changed(st, st2, f),
         NEW o \in Seq(Reference!Block), NEW o2 \in Seq(Reference!Block),
         Matches(st, o), SkipTop(st),
         f.family = st[Len(st)].family, f.mode = "skip", f.taken = st[Len(st)].taken,
         SkipMoves(o, o2, f.family, st[Len(st)].depth, f.depth),
         o2 = o \/ Len(o2) > Len(o) \/ Len(o) # Len(st), StaysDead(o, o2)
  PROVE  Matches(st2, o2)
<1>1. PICK l \in Nat \ {0} : l = Len(st) /\ Len(st2) = l /\ st2[l] = f
  BY DEF Changed
<1>2. PICK n \in Nat : n = Len(o) /\ l <= n
  BY <1>1 DEF Matches
<1>3. SkipTop(st2)
  BY <1>1 DEF SkipTop
<1>4. /\ \A i \in l..n : o[i].live = FALSE
      /\ \A i \in (l + 1)..n : o[i].outer = FALSE
      /\ Count(o, f.family, l, n) = st[l].depth
  BY <1>1, <1>2 DEF Matches, Skipping
<1>5. \A i \in 1..l : FrameIs(st[i], o[i])
  BY <1>1 DEF Matches
<1>6. \A i \in 1..(l - 1) : st2[i] = st[i]
  BY <1>1 DEF Changed
<1>7. ASSUME Len(o2) \in Nat, l <= Len(o2), \A i \in 1..l : o2[i] = o[i],
             \A i \in l..Len(o2) : o2[i].live = FALSE,
             \A i \in (l + 1)..Len(o2) : o2[i].outer = FALSE,
             Count(o2, f.family, l, Len(o2)) = f.depth
      PROVE  Matches(st2, o2)
  <2>1. ASSUME NEW i \in 1..Len(st2) PROVE FrameIs(st2[i], o2[i])
    <3>1. i \in 1..l /\ FrameIs(st[i], o[i]) /\ o2[i] = o[i]
      BY <1>1, <1>5, <1>7
    <3>2. CASE i \in 1..(l - 1)
      BY <1>6, <3>1, <3>2
    <3>3. CASE i = l
      BY <1>1, <3>1, <3>3 DEF FrameIs
    <3> QED
      BY <1>1, <3>1, <3>2, <3>3
  <2> QED
    BY <1>1, <1>3, <1>7, <2>1 DEF Matches, Skipping
<1>8. CASE o2 = o /\ f.depth = st[Len(st)].depth
  BY <1>1, <1>2, <1>4, <1>7, <1>8
<1>9. ASSUME NEW b \in Reference!Block, Grown(o, o2, b),
             f.depth = IF b.family = f.family THEN st[Len(st)].depth + 1 ELSE st[Len(st)].depth
      PROVE  Matches(st2, o2)
  <2>1. Len(o2) = n + 1 /\ o2[n + 1] = b /\ \A i \in 1..n : o2[i] = o[i]
    BY <1>2, <1>9 DEF Grown
  <2>0. b.live = FALSE /\ b.outer = FALSE
    BY <1>2, <2>1 DEF StaysDead
  <2>2. Count(o2, f.family, l, n + 1) = IF b.family = f.family THEN Count(o, f.family, l, n) + 1
                                                               ELSE Count(o, f.family, l, n)
    <3>1. l \in 1..(Len(o) + 1) /\ Len(o) \in Nat
      BY <1>2
    <3>2. Count(o2, f.family, l, Len(o2)) =
            IF b.family = f.family THEN Count(o, f.family, l, Len(o)) + 1
                                   ELSE Count(o, f.family, l, Len(o))
      BY <1>9, <3>1, CountGrown
    <3> QED
      BY <1>2, <2>1, <3>2
  <2>3. Count(o2, f.family, l, Len(o2)) = f.depth
    BY <1>1, <1>4, <1>9, <2>1, <2>2
  <2>4. \A i \in l..Len(o2) : i = n + 1 \/ (i \in 1..n /\ i \in l..n)
    <3>1. \A i \in l..(n + 1) : i = n + 1 \/ (i \in 1..n /\ i \in l..n)
      OBVIOUS
    <3> QED
      BY <2>1, <3>1
  <2>5. \A i \in (l + 1)..Len(o2) : i = n + 1 \/ (i \in 1..n /\ i \in (l + 1)..n)
    <3>1. \A i \in (l + 1)..(n + 1) : i = n + 1 \/ (i \in 1..n /\ i \in (l + 1)..n)
      OBVIOUS
    <3> QED
      BY <2>1, <3>1
  <2>6. \A i \in l..Len(o2) : o2[i].live = FALSE
    BY <1>4, <2>0, <2>1, <2>4
  <2>7. \A i \in (l + 1)..Len(o2) : o2[i].outer = FALSE
    BY <1>4, <2>0, <2>1, <2>5
  <2>8. Len(o2) \in Nat /\ l <= Len(o2) /\ \A i \in 1..l : o2[i] = o[i]
    BY <1>2, <2>1
  <2> QED
    BY <1>7, <2>3, <2>6, <2>7, <2>8
<1>10. ASSUME Cut(o, o2),
              f.depth = IF o[Len(o)].family = f.family THEN st[Len(st)].depth - 1 ELSE st[Len(st)].depth
       PROVE  Matches(st2, o2)
  <2>1. Len(o2) = n - 1 /\ n # 0 /\ \A i \in 1..(n - 1) : o2[i] = o[i]
    BY <1>2, <1>10 DEF Cut
  <2>2. l <= n - 1
    <3>1. o2 # o
      BY <1>2, <2>1
    <3> QED
      BY <1>1, <1>2, <2>1, <3>1
  <2>3. Count(o, f.family, l, n) = IF o[n].family = f.family THEN Count(o2, f.family, l, n - 1) + 1
                                                             ELSE Count(o2, f.family, l, n - 1)
    <3>1. l \in 1..Len(o) /\ Len(o) \in Nat
      BY <1>2
    <3> QED
      BY <1>2, <1>10, <2>1, <3>1, CountCut
  <2>4. Count(o2, f.family, l, n - 1) \in Nat
    <3>1. n - 1 \in Nat
      BY <2>1
    <3> QED
      BY <3>1, CountType
  <2>5. Count(o2, f.family, l, Len(o2)) = f.depth
    BY <1>1, <1>2, <1>4, <1>10, <2>1, <2>3, <2>4
  <2>6. \A i \in l..Len(o2) : i \in 1..(n - 1) /\ i \in l..n
    BY <2>1
  <2>7. \A i \in l..Len(o2) : o2[i].live = FALSE
    BY <1>4, <2>1, <2>6
  <2>8. \A i \in (l + 1)..Len(o2) : o2[i].outer = FALSE
    <3>1. \A i \in (l + 1)..Len(o2) : i \in 1..(n - 1) /\ i \in (l + 1)..n
      BY <2>1
    <3> QED
      BY <1>4, <2>1, <3>1
  <2>9. \A i \in 1..l : o2[i] = o[i]
    BY <2>1, <2>2
  <2>10. Len(o2) \in Nat /\ l <= Len(o2)
    BY <2>1, <2>2
  <2> QED
    BY <1>7, <2>5, <2>7, <2>8, <2>9, <2>10
<1>11. ASSUME NEW b \in Reference!Block, Changed(o, o2, b), b.family = o[Len(o)].family,
              f.depth = st[Len(st)].depth
       PROVE  Matches(st2, o2)
  <2>1. Len(o2) = n /\ n # 0 /\ o2[n] = b /\ \A i \in 1..(n - 1) : o2[i] = o[i]
    BY <1>2, <1>11 DEF Changed
  <2>2. CASE o2 = o
    BY <1>1, <1>2, <1>4, <1>7, <1>11, <2>2
  <2>3. CASE o2 # o
    <3>1. n \in (l + 1)..n /\ l <= n - 1
      BY <1>1, <1>2, <2>1, <2>3
    <3>2. b.live = FALSE /\ b.outer = FALSE
      BY <1>2, <2>1, <2>3 DEF StaysDead
    <3>3. Count(o2, f.family, l, Len(o2)) = Count(o, f.family, l, Len(o))
      <4>1. l \in 1..Len(o) /\ Len(o) \in Nat
        BY <1>2
      <4> QED
        BY <1>11, <4>1, CountChanged
    <3>4. \A i \in l..Len(o2) : i = n \/ i \in 1..(n - 1)
      BY <2>1
    <3>5. \A i \in l..Len(o2) : o2[i].live = FALSE
      BY <1>4, <2>1, <3>2, <3>4
    <3>6. \A i \in (l + 1)..Len(o2) : o2[i].outer = FALSE
      BY <1>4, <2>1, <3>2, <3>4
    <3>7. \A i \in 1..l : o2[i] = o[i]
      BY <2>1, <3>1
    <3> QED
      BY <1>1, <1>2, <1>4, <1>7, <1>11, <2>1, <3>3, <3>5, <3>6, <3>7
  <2> QED
    BY <2>2, <2>3
<1> QED
  BY <1>8, <1>9, <1>10, <1>11 DEF SkipMoves

-----------------------------------------------------------------------------
(***************************************************************************)
(* How the surplus of waiting calls survives each kind of step.            *)
(***************************************************************************)
LEMMA WaitingFrames ==
  ASSUME NEW st \in Seq(Frame)
  PROVE  /\ ~SkipTop(st) => Waiting(st) = Count(st, "@", 1, Len(st))
         /\ PoundSkipTop(st) => Waiting(st) = Count(st, "@", 1, Len(st))
         /\ SkipTop(st) /\ ~PoundSkipTop(st) =>
              Waiting(st) = Count(st, "@", 1, Len(st)) + (st[Len(st)].depth - 1)
         /\ SkipTop(st) => Len(st) \in Nat \ {0} /\ st[Len(st)] \in Frame
                           /\ st[Len(st)].depth \in Nat \ {0}
<1>1. SkipTop(st) => /\ Len(st) \in Nat \ {0} /\ st[Len(st)] \in Frame
                     /\ st[Len(st)].depth \in Nat \ {0}
  BY EmptySeq, WaitingType DEF SkipTop
<1>2. Count(st, "@", 1, Len(st)) \in Nat
  BY WaitingType
<1>3. SkipTop(st) => st[Len(st)].family \in {"@", "#"}
  BY <1>1 DEF Frame
<1> QED
  BY <1>1, <1>2, <1>3 DEF Waiting, PoundSkipTop

\* The case in which no #-skip goes on.
LEMMA DoomedPlainly ==
  ASSUME NEW st \in Seq(Frame), NEW o \in Seq(Reference!Block), ~PoundSkipTop(st)
  PROVE  Doomed(st, o) <=> Count(o, "@", 1, Len(o)) < Waiting(st)
<1>1. Len(o) \in Nat
  OBVIOUS
<1>2. \A n \in Nat : n + 1 \in 1..(n + 1) /\ (n + 1) - 1 = n
  OBVIOUS
<1>3. Len(o) + 1 \in 1..(Len(o) + 1) /\ (Len(o) + 1) - 1 = Len(o)
  BY <1>1, <1>2
<1> QED
  BY <1>3 DEF Doomed

LEMMA DoomedOpen ==
  ASSUME NEW st \in Seq(Frame), NEW st2 \in Seq(Frame), NEW f \in Frame, Grown(st, st2, f),
         NEW o \in Seq(Reference!Block), NEW o2 \in Seq(Reference!Block),
         NEW b \in Reference!Block, Grown(o, o2, b),
         Doomed(st, o), ~SkipTop(st), b.family = f.family, f.depth = 1
  PROVE  Doomed(st2, o2)
<1>1. PICK l \in Nat, n \in Nat : l = Len(st) /\ n = Len(o)
  OBVIOUS
<1>2. Len(st2) = l + 1 /\ Len(o2) = n + 1 /\ st2[l + 1] = f /\ o2[n + 1] = b
      /\ \A i \in 1..n : o2[i] = o[i]
  BY <1>1 DEF Grown
<1>3. Count(o, "@", 1, n) < Count(st, "@", 1, l)
  BY <1>1, DoomedPlainly, WaitingFrames DEF PoundSkipTop
<1>4. Count(o, "@", 1, n) \in Nat /\ Count(st, "@", 1, l) \in Nat
  <2>1. 1 \in Nat
    OBVIOUS
  <2> QED
    BY <2>1, CountType
<1>5. Count(o2, "@", 1, n + 1) = IF b.family = "@" THEN Count(o, "@", 1, n) + 1 ELSE Count(o, "@", 1, n)
  <2>1. 1 \in 1..(Len(o) + 1) /\ Len(o) \in Nat
    BY <1>1
  <2>2. Count(o2, "@", 1, Len(o2)) = IF b.family = "@" THEN Count(o, "@", 1, Len(o)) + 1
                                                       ELSE Count(o, "@", 1, Len(o))
    BY <2>1, CountGrown
  <2> QED
    BY <1>1, <1>2, <2>2
<1>6. Count(st2, "@", 1, l + 1) = IF f.family = "@" THEN Count(st, "@", 1, l) + 1 ELSE Count(st, "@", 1, l)
  <2>1. 1 \in 1..(Len(st) + 1) /\ Len(st) \in Nat
    BY <1>1
  <2>2. Count(st2, "@", 1, Len(st2)) = IF f.family = "@" THEN Count(st, "@", 1, Len(st)) + 1
                                                         ELSE Count(st, "@", 1, Len(st))
    BY <2>1, CountGrown
  <2> QED
    BY <1>1, <1>2, <2>2
<1>7. CASE PoundSkipTop(st2)
  <2>1. f.family = "#"
    BY <1>2, <1>7 DEF PoundSkipTop
  <2>2. Count(o2, "#", n + 1, n + 1) = 1
    <3>1. n + 1 \in Nat /\ o2[n + 1].family = "#"
      BY <1>2, <2>1
    <3> QED
      BY <3>1, CountSelf
  <2>3. Count(o2, "@", 1, n) = Count(o, "@", 1, n)
    <3>1. 1 \in Nat /\ \A i \in 1..n : o2[i].family = o[i].family
      BY <1>2
    <3> QED
      BY <3>1, CountSame
  <2>4. Waiting(st2) = Count(st, "@", 1, l)
    BY <1>2, <1>6, <1>7, <2>1, WaitingFrames
  <2>5. n + 1 \in 1..((n + 1) + 1) /\ (n + 1) - 1 = n /\ n + 1 <= n + 1
    OBVIOUS
  <2> QED
    BY <1>2, <1>3, <1>7, <2>1, <2>2, <2>3, <2>4, <2>5 DEF Doomed
<1>8. CASE ~PoundSkipTop(st2)
  <2>1. Waiting(st2) = Count(st2, "@", 1, l + 1)
    <3>1. Count(st2, "@", 1, l + 1) \in Nat
      BY <1>4, <1>6
    <3> QED
      BY <1>2, <1>8, <3>1, WaitingFrames
  <2>2. Count(o2, "@", 1, n + 1) < Count(st2, "@", 1, l + 1)
    BY <1>3, <1>4, <1>5, <1>6
  <2> QED
    BY <1>2, <1>8, <2>1, <2>2, DoomedPlainly
<1> QED
  BY <1>7, <1>8

LEMMA DoomedChange ==
  ASSUME NEW st \in Seq(Frame), NEW st2 \in Seq(Frame), NEW f \in Frame, Changed(st, st2, f),
         NEW o \in Seq(Reference!Block), Doomed(st, o), ~SkipTop(st) \/ st[Len(st)].depth = 1,
         f.family = st[Len(st)].family, f.family = "@", f.depth = 1
  PROVE  Doomed(st2, o)
<1>1. Len(st) \in Nat \ {0} /\ st2[Len(st2)] = f /\ 1 \in 1..Len(st)
  BY DEF Changed
<1>2. ~PoundSkipTop(st) /\ ~PoundSkipTop(st2)
  BY <1>1 DEF PoundSkipTop
<1>3. Count(st2, "@", 1, Len(st2)) = Count(st, "@", 1, Len(st))
  <2>1. Len(st2) = Len(st) /\ 1 \in Nat /\ Len(st) \in Nat
    BY <1>1 DEF Changed
  <2>2. \A i \in 1..Len(st) : i = Len(st) \/ i \in 1..(Len(st) - 1)
    BY <1>1
  <2>3. \A i \in 1..(Len(st) - 1) : st2[i].family = st[i].family
    BY DEF Changed
  <2>4. st2[Len(st)].family = st[Len(st)].family
    BY <1>1, <2>1
  <2>5. \A i \in 1..Len(st) : st2[i].family = st[i].family
    BY <2>2, <2>3, <2>4
  <2>6. Count(st2, "@", 1, Len(st)) = Count(st, "@", 1, Len(st))
    BY <2>1, <2>5, CountSame
  <2> QED
    BY <2>1, <2>6
<1>4. Count(st, "@", 1, Len(st)) \in Nat
  BY WaitingType
<1>5. Waiting(st) = Count(st, "@", 1, Len(st)) /\ Waiting(st2) = Count(st2, "@", 1, Len(st2))
  BY <1>1, <1>2, <1>3, <1>4, WaitingFrames
<1> QED
  BY <1>2, <1>3, <1>5, DoomedPlainly

LEMMA DoomedNext ==
  ASSUME NEW st \in Seq(Frame), NEW o \in Seq(Reference!Block), NEW o2 \in Seq(Reference!Block),
         NEW b \in Reference!Block, Changed(o, o2, b), b.family = o[Len(o)].family,
         Doomed(st, o), ~PoundSkipTop(st)
  PROVE  Doomed(st, o2)
<1>1. 1 \in 1..Len(o) /\ Len(o) \in Nat
  BY DEF Changed
<1>2. Count(o2, "@", 1, Len(o2)) = Count(o, "@", 1, Len(o))
  BY <1>1, CountChanged
<1> QED
  BY <1>2, DoomedPlainly

\* skip_pp_branch consumes the @end of the conditional it skips.
LEMMA BecomesDoomed ==
  ASSUME NEW st \in Seq(Frame), NEW st2 \in Seq(Frame), NEW f \in Frame, Changed(st, st2, f),
         NEW o \in Seq(Reference!Block), NEW o2 \in Seq(Reference!Block), Cut(o, o2),
         o[Len(o)].family = "@", f.family = "@", f.mode = "tail",
         f.family = st[Len(st)].family, SkipTop(st), st[Len(st)].depth = 1,
         (Matches(st, o) /\ Len(o) = Len(st)) \/ Doomed(st, o)
  PROVE  Doomed(st2, o2)
<1>1. Len(st) \in Nat \ {0} /\ st2[Len(st2)] = f /\ 1 \in 1..Len(st) /\ 1 \in 1..Len(o) /\ Len(o) \in Nat
      /\ Len(o2) \in Nat
  BY DEF Changed, Cut
<1>2. ~PoundSkipTop(st) /\ ~SkipTop(st2) /\ ~PoundSkipTop(st2)
  BY <1>1 DEF PoundSkipTop, SkipTop
<1>3. Count(st2, "@", 1, Len(st2)) = Count(st, "@", 1, Len(st))
  BY <1>1, CountChanged
<1>4. Count(o, "@", 1, Len(o)) = Count(o2, "@", 1, Len(o2)) + 1
  BY <1>1, CountCut
<1>5. Count(st, "@", 1, Len(st)) \in Nat /\ Count(o2, "@", 1, Len(o2)) \in Nat
  <2>1. 1 \in Nat
    OBVIOUS
  <2> QED
    BY <1>1, <2>1, CountType
<1>6. Waiting(st) = Count(st, "@", 1, Len(st)) /\ Waiting(st2) = Count(st2, "@", 1, Len(st2))
  BY <1>2, <1>5, WaitingFrames
<1>7. Count(o, "@", 1, Len(o)) <= Count(st, "@", 1, Len(st))
  <2>1. CASE Matches(st, o) /\ Len(o) = Len(st)
    <3>1. \A i \in 1..Len(st) : o[i].family = st[i].family
      BY <2>1 DEF Matches, FrameIs
    <3>2. 1 \in Nat /\ Len(st) \in Nat
      BY <1>1
    <3>3. Count(o, "@", 1, Len(st)) = Count(st, "@", 1, Len(st))
      BY <3>1, <3>2, CountSame
    <3> QED
      BY <1>5, <2>1, <3>3
  <2>2. CASE Doomed(st, o)
    BY <1>2, <1>4, <1>5, <1>6, <2>2, DoomedPlainly
  <2> QED
    BY <2>1, <2>2
<1>8. Count(o2, "@", 1, Len(o2)) < Waiting(st2)
  BY <1>3, <1>4, <1>5, <1>6, <1>7
<1> QED
  BY <1>2, <1>8, DoomedPlainly

LEMMA DoomedClose ==
  ASSUME NEW st \in Seq(Frame), NEW st2 \in Seq(Frame), Cut(st, st2),
         NEW o \in Seq(Reference!Block), NEW o2 \in Seq(Reference!Block), Cut(o, o2),
         Doomed(st, o), ~SkipTop(st2), o[Len(o)].family = st[Len(st)].family,
         SkipTop(st) => st[Len(st)].depth = 1
  PROVE  Doomed(st2, o2)
<1>1. Len(st) \in Nat \ {0} /\ 1 \in 1..Len(st) /\ 1 \in 1..Len(o) /\ Len(o) \in Nat \ {0}
      /\ Len(o2) \in Nat /\ Len(o2) = Len(o) - 1 /\ Len(st2) \in Nat
  BY DEF Cut
<1>2. ~PoundSkipTop(st2)
  BY DEF PoundSkipTop
<1>3. Count(o, "@", 1, Len(o)) = IF o[Len(o)].family = "@" THEN Count(o2, "@", 1, Len(o2)) + 1
                                                           ELSE Count(o2, "@", 1, Len(o2))
  BY <1>1, CountCut
<1>4. Count(st, "@", 1, Len(st)) = IF st[Len(st)].family = "@" THEN Count(st2, "@", 1, Len(st2)) + 1
                                                               ELSE Count(st2, "@", 1, Len(st2))
  BY <1>1, CountCut
<1>5. Count(st2, "@", 1, Len(st2)) \in Nat /\ Count(o2, "@", 1, Len(o2)) \in Nat
      /\ Count(st, "@", 1, Len(st)) \in Nat
  <2>1. 1 \in Nat
    OBVIOUS
  <2> QED
    BY <1>1, <2>1, CountType
<1>6. Waiting(st) = Count(st, "@", 1, Len(st)) /\ Waiting(st2) = Count(st2, "@", 1, Len(st2))
  BY <1>2, <1>5, WaitingFrames
<1>7. CASE ~PoundSkipTop(st)
  <2>1. Count(o, "@", 1, Len(o)) < Count(st, "@", 1, Len(st))
    BY <1>6, <1>7, DoomedPlainly
  <2>2. Count(o2, "@", 1, Len(o2)) < Count(st2, "@", 1, Len(st2))
    BY <1>3, <1>4, <1>5, <2>1
  <2> QED
    BY <1>2, <1>6, <2>2, DoomedPlainly
<1>8. CASE PoundSkipTop(st)
  <2>1. PICK m \in 1..(Len(o) + 1) :
          /\ m <= Len(o) /\ o[m].family = "#" /\ Count(o, "#", m, Len(o)) = 1
          /\ Count(o, "@", 1, m - 1) < Waiting(st)
    BY <1>8 DEF Doomed, PoundSkipTop
  <2>2. m = Len(o)
    <3>1. o[Len(o)].family = "#" /\ m \in Nat
      BY <1>1, <1>8 DEF PoundSkipTop
    <3> QED
      BY <1>1, <2>1, <3>1, CountEnds
  <2>3. Count(o, "@", 1, Len(o2)) = Count(o2, "@", 1, Len(o2))
    <3>1. 1 \in Nat /\ \A i \in 1..Len(o2) : o[i].family = o2[i].family
      BY <1>1 DEF Cut
    <3> QED
      BY <1>1, <3>1, CountSame
  <2>4. Count(o2, "@", 1, Len(o2)) < Waiting(st)
    BY <1>1, <2>1, <2>2, <2>3
  <2>5. st[Len(st)].family # "@"
    BY <1>8 DEF PoundSkipTop
  <2>6. Waiting(st) = Waiting(st2)
    BY <1>4, <1>6, <2>5
  <2> QED
    BY <1>2, <2>4, <2>6, DoomedPlainly
<1> QED
  BY <1>7, <1>8

\* How a skipped token changes the number of open conditionals of a family.
LEMMA SkipCounts ==
  ASSUME NEW o \in Seq(Reference!Block), NEW o2 \in Seq(Reference!Block),
         NEW fam, NEW d \in Nat, NEW d2 \in Nat \ {0}, SkipMoves(o, o2, fam, d, d2),
         NEW m \in 1..(Len(o) + 1), m <= Len(o2) + 1
  PROVE  Count(o2, fam, m, Len(o2)) + d = Count(o, fam, m, Len(o)) + d2
<1>1. PICK n \in Nat, k \in Nat : n = Len(o) /\ k = Len(o2)
  OBVIOUS
<1>2. m \in Nat
  BY <1>1
<1>3. Count(o, fam, m, Len(o)) \in Nat /\ Count(o2, fam, m, Len(o2)) \in Nat
  <2>1. Count(o, fam, m, n) \in Nat /\ Count(o2, fam, m, k) \in Nat
    BY <1>2, CountType
  <2> QED
    BY <1>1, <2>1
<1>4. CASE o2 = o /\ d2 = d
  BY <1>3, <1>4
<1>5. ASSUME NEW b \in Reference!Block, Grown(o, o2, b), d2 = IF b.family = fam THEN d + 1 ELSE d
      PROVE  Count(o2, fam, m, Len(o2)) + d = Count(o, fam, m, Len(o)) + d2
  <2>1. Count(o2, fam, m, Len(o2)) =
          IF b.family = fam THEN Count(o, fam, m, Len(o)) + 1 ELSE Count(o, fam, m, Len(o))
    BY <1>1, <1>5, CountGrown
  <2> QED
    BY <1>3, <1>5, <2>1
<1>6. ASSUME Cut(o, o2), d2 = IF o[Len(o)].family = fam THEN d - 1 ELSE d
      PROVE  Count(o2, fam, m, Len(o2)) + d = Count(o, fam, m, Len(o)) + d2
  <2>1. m \in 1..Len(o)
    <3>1. k = n - 1 /\ n # 0
      BY <1>1, <1>6 DEF Cut
    <3> QED
      BY <1>1, <3>1
  <2>2. Count(o, fam, m, Len(o)) =
          IF o[Len(o)].family = fam THEN Count(o2, fam, m, Len(o2)) + 1 ELSE Count(o2, fam, m, Len(o2))
    BY <1>1, <1>6, <2>1, CountCut
  <2> QED
    BY <1>3, <1>6, <2>2
<1>7. ASSUME NEW b \in Reference!Block, Changed(o, o2, b), b.family = o[Len(o)].family, d2 = d
      PROVE  Count(o2, fam, m, Len(o2)) + d = Count(o, fam, m, Len(o)) + d2
  <2>1. n # 0 /\ k = n
    BY <1>1, <1>7 DEF Changed
  <2>2. CASE m \in 1..Len(o)
    <3>1. Count(o2, fam, m, Len(o2)) = Count(o, fam, m, Len(o))
      BY <1>1, <1>7, <2>2, CountChanged
    <3> QED
      BY <1>3, <1>7, <3>1
  <2>3. CASE m = n + 1
    <3>1. Count(o, fam, m, n) = 0 /\ Count(o2, fam, m, k) = 0
      BY <1>2, <2>1, <2>3, CountNone
    <3> QED
      BY <1>1, <1>3, <1>7, <3>1
  <2> QED
    BY <1>1, <2>2, <2>3
<1> QED
  BY <1>4, <1>5, <1>6, <1>7 DEF SkipMoves

\* A conditional below the innermost one keeps its family.
LEMMA SkipKeeps ==
  ASSUME NEW o \in Seq(Reference!Block), NEW o2 \in Seq(Reference!Block),
         NEW fam, NEW d \in Nat, NEW d2 \in Nat \ {0}, SkipMoves(o, o2, fam, d, d2)
  PROVE  /\ Len(o) \in Nat /\ Len(o2) \in Nat /\ Len(o2) + 1 >= Len(o)
         /\ \A i \in 1..Len(o) : i <= Len(o2) => o2[i].family = o[i].family
         /\ Len(o2) < Len(o) => d2 = IF o[Len(o)].family = fam THEN d - 1 ELSE d
<1>1. PICK n \in Nat, k \in Nat : n = Len(o) /\ k = Len(o2)
  OBVIOUS
<1>2. CASE o2 = o /\ d2 = d
  BY <1>1, <1>2
<1>3. ASSUME NEW b \in Reference!Block, Grown(o, o2, b)
      PROVE  k = n + 1 /\ \A i \in 1..n : o2[i].family = o[i].family
  BY <1>1, <1>3 DEF Grown
<1>4. ASSUME Cut(o, o2)
      PROVE  k = n - 1 /\ \A i \in 1..n : i <= k => o2[i].family = o[i].family
  <2>1. k = n - 1 /\ n # 0 /\ \A i \in 1..(n - 1) : o2[i] = o[i]
    BY <1>1, <1>4 DEF Cut
  <2> QED
    BY <2>1
<1>5. ASSUME NEW b \in Reference!Block, Changed(o, o2, b), b.family = o[Len(o)].family
      PROVE  k = n /\ \A i \in 1..n : o2[i].family = o[i].family
  <2>1. k = n /\ n # 0 /\ o2[n] = b /\ b.family = o[n].family /\ \A i \in 1..(n - 1) : o2[i] = o[i]
    BY <1>1, <1>5 DEF Changed
  <2>2. \A i \in 1..n : i = n \/ i \in 1..(n - 1)
    OBVIOUS
  <2> QED
    BY <2>1, <2>2
<1> QED
  BY <1>1, <1>2, <1>3, <1>4, <1>5 DEF SkipMoves

LEMMA DoomedSkip ==
  ASSUME NEW st \in Seq(Frame), NEW st2 \in Seq(Frame), NEW f \in Frame, Changed(st, st2, f),
         NEW o \in Seq(Reference!Block), NEW o2 \in Seq(Reference!Block),
         Doomed(st, o), SkipTop(st), f.family = st[Len(st)].family, f.mode = "skip",
         SkipMoves(o, o2, f.family, st[Len(st)].depth, f.depth)
  PROVE  Doomed(st2, o2)
<1> DEFINE d == st[Len(st)].depth
<1>1. /\ Len(st) \in Nat \ {0} /\ st2[Len(st2)] = f /\ 1 \in 1..Len(st) /\ Len(st2) = Len(st)
      /\ d \in Nat \ {0} /\ f.depth \in Nat \ {0} /\ f.family \in {"@", "#"}
  BY WaitingFrames DEF Changed, Frame
<1>2. SkipTop(st2)
  BY <1>1 DEF SkipTop
<1>3. Count(st2, "@", 1, Len(st2)) = Count(st, "@", 1, Len(st))
  BY <1>1, CountChanged
<1>4. Count(st, "@", 1, Len(st)) \in Nat
  BY WaitingType
<1>5. PICK n \in Nat, k \in Nat : n = Len(o) /\ k = Len(o2) /\ k + 1 >= n
  BY <1>1, SkipKeeps
<1>6. Count(o, "@", 1, n) \in Nat /\ Count(o2, "@", 1, k) \in Nat
  <2>1. 1 \in Nat
    OBVIOUS
  <2> QED
    BY <2>1, CountType
<1> HIDE DEF d
<1>7. SkipMoves(o, o2, f.family, d, f.depth)
  BY DEF d
<1>8. CASE f.family = "@"
  <2>1. ~PoundSkipTop(st) /\ ~PoundSkipTop(st2)
    BY <1>1, <1>8 DEF PoundSkipTop
  <2>2. Waiting(st) = Count(st, "@", 1, Len(st)) + (d - 1)
        /\ Waiting(st2) = Count(st2, "@", 1, Len(st2)) + (f.depth - 1)
    BY <1>1, <1>2, <2>1, WaitingFrames DEF d
  <2>3. Count(o, "@", 1, n) < Waiting(st)
    BY <1>5, <2>1, DoomedPlainly
  <2>4. Count(o2, "@", 1, k) + d = Count(o, "@", 1, n) + f.depth
    <3>1. 1 \in 1..(Len(o) + 1) /\ 1 <= Len(o2) + 1
      BY <1>5
    <3>2. Count(o2, f.family, 1, Len(o2)) + d = Count(o, f.family, 1, Len(o)) + f.depth
      BY <1>1, <1>7, <3>1, SkipCounts
    <3> QED
      BY <1>5, <1>8, <3>2
  <2>5. Count(o2, "@", 1, k) < Waiting(st2)
    BY <1>1, <1>3, <1>4, <1>6, <2>2, <2>3, <2>4
  <2> QED
    BY <1>5, <2>1, <2>5, DoomedPlainly
<1>9. CASE f.family = "#"
  <2>1. PoundSkipTop(st) /\ PoundSkipTop(st2)
    BY <1>1, <1>2, <1>9 DEF PoundSkipTop
  <2>2. PICK m \in 1..(n + 1) :
          /\ m <= n /\ o[m].family = "#" /\ Count(o, "#", m, n) = d
          /\ Count(o, "@", 1, m - 1) < Waiting(st)
    BY <1>5, <2>1 DEF Doomed, d
  <2>3. m \in Nat /\ m - 1 \in Nat /\ m \in 1..n
    BY <2>2
  <2>4. m <= k
    <3> SUFFICES ASSUME ~(m <= k) PROVE FALSE
      OBVIOUS
    <3>1. m = n /\ k < n
      BY <1>5, <2>2, <2>3
    <3>2. f.depth = d - 1
      <4>1. o[Len(o)].family = f.family /\ Len(o2) < Len(o)
        BY <1>5, <1>9, <2>2, <3>1
      <4> QED
        BY <1>1, <1>7, <4>1, SkipKeeps
    <3>3. Count(o, "#", n, n) = 1
      BY <2>2, <3>1, CountSelf
    <3> QED
      BY <1>1, <2>2, <3>1, <3>2, <3>3
  <2>5. o2[m].family = "#"
    BY <1>1, <1>5, <1>7, <2>2, <2>3, <2>4, SkipKeeps
  <2>6. Count(o2, "#", m, k) = f.depth
    <3>1. m \in 1..(Len(o) + 1) /\ m <= Len(o2) + 1
      BY <1>5, <2>3, <2>4
    <3>2. Count(o2, f.family, m, Len(o2)) + d = Count(o, f.family, m, Len(o)) + f.depth
      BY <1>1, <1>7, <3>1, SkipCounts
    <3>3. Count(o2, "#", m, k) \in Nat
      BY <2>3, CountType
    <3> QED
      BY <1>1, <1>5, <1>9, <2>2, <3>2, <3>3
  <2>7. Count(o2, "@", 1, m - 1) = Count(o, "@", 1, m - 1)
    <3>1. \A i \in 1..(m - 1) : i \in 1..n /\ i <= k
      BY <2>3, <2>4
    <3>2. 1 \in Nat /\ \A i \in 1..(m - 1) : o2[i].family = o[i].family
      BY <1>1, <1>5, <1>7, <3>1, SkipKeeps
    <3> QED
      BY <2>3, <3>2, CountSame
  <2>8. Waiting(st2) = Waiting(st)
    BY <1>3, <2>1, WaitingFrames
  <2>9. m \in 1..(k + 1)
    BY <2>3, <2>4
  <2> QED
    BY <1>1, <1>5, <2>1, <2>2, <2>4, <2>5, <2>6, <2>7, <2>8, <2>9 DEF Doomed
<1> QED
  BY <1>1, <1>8, <1>9

LEMMA OpenedBlock ==
  ASSUME NEW t \in Token, NEW live \in BOOLEAN, NEW c \in BOOLEAN
  PROVE  LET b == Reference!NewBlock(t, live, live /\ c)
         IN  /\ b \in Reference!Block /\ b.family = Reference!Family(t) /\ b.outer = live
             /\ b.live = (live /\ c) /\ b.taken = (live /\ c)
<1>1. Reference!Family(t) \in {"#", "@"}
  BY DEF Reference!Family
<1>2. CASE live = TRUE /\ c = TRUE
  BY <1>1, <1>2 DEF Reference!NewBlock, Reference!Block
<1>3. CASE ~(live /\ c)
  BY <1>1, <1>3 DEF Reference!NewBlock, Reference!Block
<1> QED
  BY <1>2, <1>3

LEMMA ContinuedBlock ==
  ASSUME NEW x \in Reference!Block, NEW c \in BOOLEAN
  PROVE  LET b == Reference!NextBranch(x, c)
         IN  /\ b \in Reference!Block /\ b.family = x.family /\ b.outer = x.outer
             /\ x.outer = FALSE => b.live = FALSE
BY BlockFacts DEF Reference!Block

-----------------------------------------------------------------------------
(***************************************************************************)
(* The scan up to the current token, and past it.                          *)
(***************************************************************************)
Here   == Reference!Scans(input)[pos - 1]
Beyond == Reference!Scans(input)[pos]

Agrees ==
  \/ Matches(stack, Here.open) /\ Here.out = decls
  \/ Doomed(stack, Here.open)

(***************************************************************************)
(* The inductive invariant: over a well-nested stream the parser agrees    *)
(* with the scan, or is doomed to reject.                                  *)
(***************************************************************************)
Follows ==
  Parsing /\ Reference!WellNested(input) =>
    pos <= Len(input) + 1 /\ Here.pos = pos /\ Agrees

AcceptInv == TypeOK /\ Shape /\ Follows /\ AcceptedIsRight

LEMMA HereFacts ==
  ASSUME TypeOK, Reference!WellNested(input), pos <= Len(input) + 1
  PROVE  Here \in ScanState /\ Here.bad = FALSE /\ Here.open \in Seq(Reference!Block)
<1>1. input \in Seq(Token) /\ pos - 1 \in 0..Len(input)
  BY DEF TypeOK
<1>2. Here \in ScanState /\ Here.bad = FALSE
  BY <1>1, ScansFacts, NeverBad DEF Here
<1> QED
  BY <1>2 DEF ScanState

LEMMA BeyondFacts ==
  ASSUME TypeOK, Reference!WellNested(input), pos <= Len(input) + 1, Cur # "eof"
  PROVE  /\ input[pos] \in Token /\ Cur = input[pos].kind /\ pos \in 1..Len(input)
         /\ Beyond \in ScanState /\ Beyond.open \in Seq(Reference!Block)
         /\ Beyond.pos = Here.pos + 1 /\ Beyond.out = Reference!OutAfter(Here, input[pos])
         /\ OpenMoves(Here.open, input[pos], Reference!Live(Here), Beyond.open)
<1>1. Cur = input[pos].kind /\ pos \in 1..Len(input)
  BY DEF Cur, TypeOK
<1>2. input \in Seq(Token) /\ pos \in 0..Len(input)
  BY <1>1 DEF TypeOK
<1>3. input[pos] \in Token
  BY <1>1, <1>2, ElementOfSeq
<1>4. Beyond \in ScanState /\ Beyond.bad = FALSE
  BY <1>2, ScansFacts, NeverBad DEF Beyond
<1>5. Beyond = Reference!Step(Here, input[pos])
  BY <1>1, <1>2, ScansFacts DEF Here, Beyond
<1>6. Beyond.open \in Seq(Reference!Block)
  BY <1>4 DEF ScanState
<1> QED
  BY <1>1, <1>3, <1>4, <1>5, <1>6, HereFacts, StepMoves

LEMMA Moved ==
  ASSUME TypeOK, input' = input
  PROVE  /\ pos' = pos + 1 => Here' = Beyond
         /\ pos' = pos => Here' = Here
<1>1. pos' = pos + 1 => pos' - 1 = pos
  BY DEF TypeOK
<1> QED
  BY <1>1 DEF Here, Beyond

\* While the innermost call parses a branch, the text is compiled.
LEMMA HereLive ==
  ASSUME TypeOK, Matches(stack, Here.open), Here \in ScanState, AtTopLevel
  PROVE  ~SkipTop(stack) /\ Reference!Live(Here) = TRUE
<1>1. ~SkipTop(stack)
  BY DEF SkipTop, AtTopLevel, Top, Last
<1>2. Len(Here.open) = Len(stack) /\ Here.open \in Seq(Reference!Block)
  BY <1>1 DEF Matches, ScanState
<1>3. Here.open # << >> => Here.open[Len(Here.open)].live
  <2> SUFFICES ASSUME Here.open # << >> PROVE Here.open[Len(Here.open)].live
    OBVIOUS
  <2>1. stack # << >> /\ Len(stack) \in 1..Len(stack)
    BY <1>2, EmptySeq, TopIn DEF TypeOK
  <2>2. stack[Len(stack)].mode = "active"
    BY <2>1 DEF AtTopLevel, Top, Last
  <2> QED
    BY <1>2, <2>1, <2>2 DEF Matches, FrameIs
<1> QED
  BY <1>1, <1>3, ScanLive

LEMMA AgreesRead ==
  ASSUME AcceptInv, Reference!WellNested(input), ParseDeclaration \/ ParseImport
  PROVE  Agrees'
<1> USE DEF AcceptInv
<1>1. /\ AtTopLevel /\ Parsing /\ Cur \in {"decl", "import"} /\ stack' = stack /\ input' = input
      /\ pos' = pos + 1 /\ decls' = IF Cur = "decl" THEN Append(decls, pos) ELSE decls
  BY DEF ParseDeclaration, ParseImport, AtTopLevel, Consume
<1>2. pos <= Len(input) + 1 /\ Here.pos = pos /\ Agrees
  BY <1>1 DEF Follows
<1>3. Here' = Beyond /\ Beyond.open = Here.open /\ Here \in ScanState
      /\ Beyond.out = Reference!OutAfter(Here, input[pos]) /\ Cur = input[pos].kind
  BY <1>1, <1>2, Moved, HereFacts, BeyondFacts DEF OpenMoves
<1>4. CASE Matches(stack, Here.open) /\ Here.out = decls
  <2>1. Reference!Live(Here)
    BY <1>1, <1>3, <1>4, HereLive
  <2>2. Beyond.out = decls'
    BY <1>1, <1>2, <1>3, <1>4, <2>1 DEF Reference!OutAfter
  <2> QED
    BY <1>1, <1>3, <1>4, <2>2 DEF Agrees
<1>5. CASE Doomed(stack, Here.open)
  BY <1>1, <1>3, <1>5 DEF Agrees
<1> QED
  BY <1>2, <1>4, <1>5 DEF Agrees

LEMMA AgreesOpen ==
  ASSUME AcceptInv, Reference!WellNested(input), OpenAt \/ OpenPound, TypeOK'
  PROVE  Agrees'
<1> USE DEF AcceptInv
<1> DEFINE t == input[pos]  c == Truth(t)
           f == IF Cur \in PoundHeader THEN PoundFrame(BranchMode(c)) ELSE AtFrame(BranchMode(c), c)
           live == Reference!Live(Here)
           b == Reference!NewBlock(t, live, live /\ c)
<1>1. /\ AtTopLevel /\ Parsing /\ Cur \in PoundHeader \cup {"@ifdef", "@if"}
      /\ stack' = Append(stack, f) /\ input' = input /\ pos' = pos + 1 /\ decls' = decls
  BY DEF OpenAt, OpenPound, AtTopLevel, Consume, PoundHeader
<1>2. pos <= Len(input) + 1 /\ Here.pos = pos /\ Agrees
  BY <1>1 DEF Follows
<1>3. Here' = Beyond /\ Here \in ScanState /\ Cur = t.kind /\ t \in Token /\ Cur # "decl"
      /\ Beyond.out = Reference!OutAfter(Here, t)
      /\ OpenMoves(Here.open, t, live, Beyond.open) /\ Cur \in PoundHeader \cup AtHeader
      /\ Here.open \in Seq(Reference!Block) /\ Beyond.open \in Seq(Reference!Block)
  BY <1>1, <1>2, Moved, HereFacts, BeyondFacts DEF PoundHeader, AtHeader
<1>4. Grown(Here.open, Beyond.open, b)
  BY <1>3 DEF OpenMoves
<1>5. c \in BOOLEAN /\ live \in BOOLEAN
  BY <1>3, TruthBoolean, ScanLive
<1>6. /\ f \in Frame /\ f.depth = 1 /\ f.mode = (IF c THEN "active" ELSE "skip") /\ f.taken = c
      /\ f.family = Reference!Family(t)
  <2>1. \A m : PoundFrame(m).taken = (m = "active") /\ PoundFrame(m).family = "#"
    BY DEF PoundFrame
  <2>2. CASE Cur \in PoundHeader
    <3>1. /\ f = PoundFrame(BranchMode(c)) /\ f \in Frame /\ f.depth = 1
          /\ f.mode = (IF c THEN "active" ELSE "skip")
      BY <1>5, <2>2, FrameFacts
    <3>2. (BranchMode(c) = "active") = c
      BY <1>5 DEF BranchMode
    <3>3. Reference!Family(t) = "#"
      BY <1>3, <2>2 DEF Reference!Family, PoundHeader
    <3> QED
      BY <2>1, <3>1, <3>2, <3>3
  <2>3. CASE Cur \notin PoundHeader
    <3>1. Reference!Family(t) = "@"
      BY <1>1, <1>3, <2>3 DEF Reference!Family, PoundHeader
    <3> QED
      BY <1>5, <2>3, <3>1, FrameFacts
  <2> QED
    BY <2>2, <2>3
<1>7. b \in Reference!Block /\ b.family = Reference!Family(t) /\ b.outer = live
      /\ b.live = (live /\ c) /\ b.taken = (live /\ c)
  <2> HIDE DEF live, c
  <2> QED
    BY <1>3, <1>5, OpenedBlock
<1> HIDE DEF f, b, c, live, t
<1>8. stack \in Seq(Frame) /\ stack' \in Seq(Frame) /\ Grown(stack, stack', f)
  BY <1>1, <1>6, SeqSteps DEF TypeOK
<1>9. ~SkipTop(stack)
  BY <1>1 DEF SkipTop, AtTopLevel, Top, Last
<1>10. CASE Matches(stack, Here.open) /\ Here.out = decls
  <2>1. live = TRUE
    BY <1>1, <1>3, <1>10, HereLive DEF live
  <2>2. b.outer = TRUE /\ b.live = c /\ b.taken = c
    BY <1>5, <1>7, <2>1
  <2>3. FrameIs(f, b)
    BY <1>5, <1>6, <1>7, <2>2 DEF FrameIs
  <2>4. f.mode = "skip" => b.live = FALSE
    BY <1>5, <1>6, <2>2
  <2>5. Matches(stack', Beyond.open)
    BY <1>3, <1>4, <1>6, <1>7, <1>8, <1>9, <1>10, <2>3, <2>4, MatchesOpen
  <2>6. Beyond.out = decls'
    BY <1>1, <1>3, <1>10 DEF Reference!OutAfter
  <2> QED
    BY <1>3, <2>5, <2>6 DEF Agrees
<1>11. CASE Doomed(stack, Here.open)
  <2>1. Doomed(stack', Beyond.open)
    BY <1>3, <1>4, <1>6, <1>7, <1>8, <1>9, <1>11, DoomedOpen
  <2> QED
    BY <1>3, <2>1 DEF Agrees
<1> QED
  BY <1>2, <1>10, <1>11 DEF Agrees

\* The family of the innermost conditional when an @-closer is read.
LEMMA AtInside ==
  ASSUME TypeOK, Reference!WellNested(input), pos <= Len(input) + 1, Cur \in AtCloser
  PROVE  /\ Here.open # << >> /\ Here.open[Len(Here.open)].family = "@"
         /\ Cur = "@end" => Cut(Here.open, Beyond.open)
<1>1. Cur # "eof" /\ Cur # "#endif"
  BY DEF AtCloser, AtElif
<1>2. /\ Cur = input[pos].kind
      /\ OpenMoves(Here.open, input[pos], Reference!Live(Here), Beyond.open)
  BY <1>1, BeyondFacts
<1>3. Reference!Family(input[pos]) = "@"
  BY <1>2 DEF Reference!Family, AtCloser, AtElif
<1> QED
  BY <1>2, <1>3 DEF OpenMoves, AtCloser

LEMMA TopFrame ==
  ASSUME TypeOK, stack # << >>
  PROVE  /\ stack \in Seq(Frame) /\ Len(stack) \in 1..Len(stack)
         /\ stack[Len(stack)] = Top /\ Top \in Frame
         /\ SkipTop(stack) <=> Top.mode = "skip"
<1>1. stack \in Seq(Frame) /\ Len(stack) \in 1..Len(stack) /\ stack[Len(stack)] = Top /\ Top \in Frame
  BY TopIn DEF TypeOK
<1>2. Len(stack) > 0
  BY <1>1
<1> QED
  BY <1>1, <1>2 DEF SkipTop

LEMMA AgreesBranchEnds ==
  ASSUME AcceptInv, Reference!WellNested(input), AtBranchEnds \/ AtSkipEnds, TypeOK'
  PROVE  Agrees'
<1> USE DEF AcceptInv
<1> DEFINE f == [Top EXCEPT !.mode = "tail"]
<1>1. /\ Parsing /\ Cur \in AtCloser /\ stack # << >> /\ SetTop(f) /\ Top.family = "@"
      /\ AtBranchEnds => Top.mode = "active" /\ pos' = pos
      /\ AtSkipEnds => /\ Top.mode = "skip" /\ Top.depth = 1
                       /\ pos' = IF Cur = "@end" THEN pos + 1 ELSE pos
      /\ input' = input /\ decls' = decls
  BY DEF AtBranchEnds, AtSkipEnds, In, Consume, Stay
<1>2. pos <= Len(input) + 1 /\ Here.pos = pos /\ Agrees
  BY <1>1 DEF Follows
<1>3. /\ stack \in Seq(Frame) /\ Len(stack) \in 1..Len(stack) /\ stack[Len(stack)] = Top
      /\ Top \in Frame /\ (SkipTop(stack) <=> Top.mode = "skip")
  BY <1>1, TopFrame
<1>4. f \in Frame /\ f.mode = "tail" /\ f.family = Top.family /\ f.taken = Top.taken /\ f.depth = Top.depth
  BY <1>3, FrameFacts
<1>5. Top.depth = 1
  BY <1>1, <1>3 DEF Shape
<1> HIDE DEF f
<1>6. stack' \in Seq(Frame) /\ Changed(stack, stack', f)
  BY <1>1, <1>3, <1>4, SeqSteps DEF TypeOK, SetTop
<1>7. Here \in ScanState /\ Here.open \in Seq(Reference!Block) /\ Here.open # << >>
      /\ Here.open[Len(Here.open)].family = "@" /\ (Cur = "@end" => Cut(Here.open, Beyond.open))
  BY <1>1, <1>2, HereFacts, AtInside
<1>8. Matches(stack, Here.open) => Len(Here.open) = Len(stack)
  <2> SUFFICES ASSUME Matches(stack, Here.open) PROVE Len(Here.open) = Len(stack)
    OBVIOUS
  <2>1. CASE ~SkipTop(stack)
    BY <2>1 DEF Matches
  <2>2. CASE SkipTop(stack)
    BY <1>1, <1>3, <1>5, <1>7, <2>2, SkipFloor
  <2> QED
    BY <2>1, <2>2
<1>9. CASE pos' = pos
  <2>1. Here' = Here
    BY <1>1, <1>9, Moved
  <2>2. Matches(stack, Here.open) => Matches(stack', Here.open)
    BY <1>3, <1>4, <1>6, <1>7, <1>8, MatchesTail
  <2>3. Doomed(stack, Here.open) => Doomed(stack', Here.open)
    BY <1>1, <1>3, <1>4, <1>5, <1>6, <1>7, DoomedChange
  <2> QED
    BY <1>1, <1>2, <2>1, <2>2, <2>3 DEF Agrees
<1>10. CASE pos' # pos
  <2>1. AtSkipEnds /\ Cur = "@end" /\ pos' = pos + 1 /\ SkipTop(stack)
    BY <1>1, <1>3, <1>10
  <2>2. Here' = Beyond /\ Beyond.open \in Seq(Reference!Block)
    BY <1>1, <1>2, <2>1, Moved, BeyondFacts
  <2>3. Doomed(stack', Beyond.open)
    BY <1>1, <1>2, <1>3, <1>4, <1>5, <1>6, <1>7, <1>8, <2>1, <2>2, BecomesDoomed DEF Agrees
  <2> QED
    BY <2>2, <2>3 DEF Agrees
<1> QED
  BY <1>9, <1>10

LEMMA AgreesClose ==
  ASSUME AcceptInv, Reference!WellNested(input), AtEnd \/ PoundEnd, TypeOK', Shape
  PROVE  Agrees'
<1> USE DEF AcceptInv
<1>1. /\ Parsing /\ stack # << >> /\ stack' = Front(stack) /\ pos' = pos + 1 /\ input' = input
      /\ decls' = decls
      /\ AtEnd => Cur = "@end" /\ Top.family = "@" /\ Top.mode = "tail"
      /\ PoundEnd => Cur = "#endif" /\ Top.family = "#" /\ (Top.mode = "skip" => Top.depth = 1)
  BY DEF AtEnd, PoundEnd, In, Consume
<1>2. pos <= Len(input) + 1 /\ Here.pos = pos /\ Agrees
  BY <1>1 DEF Follows
<1>3. /\ stack \in Seq(Frame) /\ Len(stack) \in 1..Len(stack) /\ stack[Len(stack)] = Top
      /\ Top \in Frame /\ (SkipTop(stack) <=> Top.mode = "skip")
  BY <1>1, TopFrame
<1>4. stack' \in Seq(Frame) /\ Cut(stack, stack')
  BY <1>1, <1>3, SeqSteps DEF TypeOK
<1>5. ~SkipTop(stack')
  <2> SUFFICES ASSUME Len(stack') > 0 PROVE stack'[Len(stack')].mode = "active"
    BY DEF SkipTop
  <2>1. PICK k \in Nat : k = Len(stack)
    BY <1>3
  <2>2. Len(stack') = k - 1 /\ k - 1 \in 1..(k - 1)
    BY <1>4, <2>1 DEF Cut
  <2>3. stack'[k - 1] = stack[k - 1]
    BY <1>4, <2>1, <2>2 DEF Cut
  <2>4. k - 1 \in 1..k /\ k - 1 < k
    BY <2>2
  <2>5. stack[k - 1].mode = "active"
    BY <2>1, <2>4 DEF Shape
  <2> QED
    BY <2>2, <2>3, <2>5
<1>6. /\ Here.open \in Seq(Reference!Block) /\ Beyond.open \in Seq(Reference!Block)
      /\ Here' = Beyond /\ Cur = input[pos].kind
      /\ Beyond.out = Reference!OutAfter(Here, input[pos])
      /\ OpenMoves(Here.open, input[pos], Reference!Live(Here), Beyond.open)
  BY <1>1, <1>2, Moved, HereFacts, BeyondFacts
<1>7. Here.open # << >> /\ Here.open[Len(Here.open)].family = Top.family /\ Cut(Here.open, Beyond.open)
  BY <1>1, <1>6 DEF OpenMoves, Reference!Family
<1>8. Matches(stack, Here.open) => Len(Here.open) = Len(stack)
  <2> SUFFICES ASSUME Matches(stack, Here.open) PROVE Len(Here.open) = Len(stack)
    OBVIOUS
  <2>1. CASE ~SkipTop(stack)
    BY <2>1 DEF Matches
  <2>2. CASE SkipTop(stack)
    <3>1. Top.depth = 1
      BY <1>1, <1>3, <2>2
    <3> QED
      BY <1>3, <1>6, <1>7, <2>2, <3>1, SkipFloor
  <2> QED
    BY <2>1, <2>2
<1>9. Matches(stack, Here.open) => Matches(stack', Beyond.open)
  BY <1>3, <1>4, <1>5, <1>6, <1>7, <1>8, MatchesClose
<1>10. Doomed(stack, Here.open) => Doomed(stack', Beyond.open)
  <2>1. SkipTop(stack) => stack[Len(stack)].depth = 1
    BY <1>1, <1>3
  <2> QED
    BY <1>3, <1>4, <1>5, <1>6, <1>7, <2>1, DoomedClose
<1>11. Beyond.out = Here.out
  BY <1>1, <1>6 DEF Reference!OutAfter
<1> QED
  BY <1>1, <1>2, <1>6, <1>9, <1>10, <1>11 DEF Agrees

LEMMA AgreesNext ==
  ASSUME AcceptInv, Reference!WellNested(input), AtNextBranch, TypeOK'
  PROVE  Agrees'
<1> USE DEF AcceptInv
<1> DEFINE t == input[pos]  c == Reference!Elifs(t) => Truth(t)
           chosen == ~Top.taken /\ (Cur = "@elif" => Truth(t))
           f == AtFrame(BranchMode(chosen), Top.taken \/ chosen)
           o == Here.open
           b == Reference!NextBranch(o[Len(o)], c)
<1>1. /\ Parsing /\ stack # << >> /\ Cur \in {"@else", "@elif"} /\ Top.family = "@" /\ Top.mode = "tail"
      /\ SetTop(f) /\ pos' = pos + 1 /\ input' = input /\ decls' = decls
  BY DEF AtNextBranch, In, Consume
<1>2. pos <= Len(input) + 1 /\ Here.pos = pos /\ Agrees
  BY <1>1 DEF Follows
<1>3. /\ stack \in Seq(Frame) /\ Len(stack) \in 1..Len(stack) /\ stack[Len(stack)] = Top
      /\ Top \in Frame /\ ~SkipTop(stack)
  BY <1>1, TopFrame
<1>4. /\ o \in Seq(Reference!Block) /\ Beyond.open \in Seq(Reference!Block)
      /\ Here' = Beyond /\ Cur = t.kind
      /\ Beyond.out = Reference!OutAfter(Here, t)
      /\ OpenMoves(o, t, Reference!Live(Here), Beyond.open)
  BY <1>1, <1>2, Moved, HereFacts, BeyondFacts
<1>5. o # << >> /\ o[Len(o)].family = "@" /\ Changed(o, Beyond.open, b)
  BY <1>1, <1>4 DEF OpenMoves, AtElif
<1>6. o[Len(o)] \in Reference!Block
  BY <1>4, <1>5, SeqSteps
<1>7. c \in BOOLEAN /\ chosen \in BOOLEAN /\ (Top.taken \/ chosen) \in BOOLEAN /\ Top.taken \in BOOLEAN
      /\ chosen = (~Top.taken /\ c)
  <2>1. Truth(t) \in BOOLEAN
    BY TruthBoolean
  <2>2. Reference!Elifs(t) <=> Cur = "@elif"
    BY <1>1, <1>4 DEF Reference!Elifs
  <2>3. Top.taken \in BOOLEAN
    BY <1>3 DEF Frame
  <2> QED
    BY <2>1, <2>2, <2>3
<1> HIDE DEF c, chosen
<1>8. /\ f \in Frame /\ f.family = "@" /\ f.depth = 1 /\ f.taken = (Top.taken \/ chosen)
      /\ f.mode = IF chosen THEN "active" ELSE "skip"
  BY <1>7, FrameFacts
<1>9. /\ b \in Reference!Block /\ b.family = o[Len(o)].family /\ b.outer = o[Len(o)].outer
      /\ b.live = (o[Len(o)].outer /\ ~o[Len(o)].taken /\ c) /\ b.taken = (o[Len(o)].taken \/ c)
  BY <1>6, <1>7, BlockFacts
<1> HIDE DEF f, b
<1>10. stack' \in Seq(Frame) /\ Changed(stack, stack', f)
  BY <1>1, <1>3, <1>8, SeqSteps DEF TypeOK, SetTop
<1>11. Matches(stack, o) => Matches(stack', Beyond.open)
  <2> SUFFICES ASSUME Matches(stack, o) PROVE Matches(stack', Beyond.open)
    OBVIOUS
  <2>1. Len(o) = Len(stack)
    BY <1>3 DEF Matches
  <2>2. FrameIs(Top, o[Len(o)])
    BY <1>3, <2>1 DEF Matches
  <2>3. b.outer = TRUE /\ b.live = (~Top.taken /\ c) /\ b.taken = (Top.taken \/ c)
    BY <1>9, <2>2 DEF FrameIs
  <2>4. b.live = chosen /\ b.taken = f.taken
    <3>1. (Top.taken \/ chosen) = (Top.taken \/ c)
      BY <1>7
    <3> QED
      BY <1>7, <1>8, <2>3, <3>1
  <2>5. FrameIs(f, b)
    BY <1>5, <1>7, <1>8, <1>9, <2>3, <2>4 DEF FrameIs
  <2>6. f.mode = "skip" => b.live = FALSE
    BY <1>7, <1>8, <2>4
  <2> HIDE DEF o
  <2> QED
    BY <1>3, <1>4, <1>5, <1>8, <1>9, <1>10, <2>5, <2>6, MatchesNext
<1>12. Doomed(stack, o) => Doomed(stack', Beyond.open)
  <2> SUFFICES ASSUME Doomed(stack, o) PROVE Doomed(stack', Beyond.open)
    OBVIOUS
  <2> HIDE DEF o
  <2>1. Doomed(stack', o)
    BY <1>1, <1>3, <1>4, <1>8, <1>10, DoomedChange
  <2>2. ~PoundSkipTop(stack')
    <3>1. stack'[Len(stack')] = f
      BY <1>3, <1>10 DEF Changed
    <3> QED
      BY <1>8, <3>1 DEF PoundSkipTop
  <2> QED
    BY <1>4, <1>5, <1>9, <1>10, <2>1, <2>2, DoomedNext
<1>13. Beyond.out = Here.out
  BY <1>1, <1>4 DEF Reference!OutAfter
<1> QED
  BY <1>1, <1>2, <1>4, <1>11, <1>12, <1>13 DEF Agrees

LEMMA AgreesSkip ==
  ASSUME AcceptInv, Reference!WellNested(input), AtSkip \/ PoundSkip, TypeOK'
  PROVE  Agrees'
<1> USE DEF AcceptInv
<1> DEFINE t == input[pos]  o == Here.open  o2 == Beyond.open  live == Reference!Live(Here)
<1>1. PICK d \in Nat \ {0} :
        /\ stack # << >> /\ SetTop([Top EXCEPT !.depth = d])
        /\ AtSkip => d = CASE Cur \in AtHeader -> Top.depth + 1
                           [] Cur = "@end"     -> Top.depth - 1
                           [] OTHER            -> Top.depth
        /\ PoundSkip => d = CASE Cur \in PoundHeader -> Top.depth + 1
                              [] Cur = "#endif"      -> Top.depth - 1
                              [] OTHER               -> Top.depth
  BY SkipDepth
<1> DEFINE f == [Top EXCEPT !.depth = d]
<1>2. /\ Parsing /\ Cur # "eof" /\ Top.mode = "skip" /\ pos' = pos + 1 /\ input' = input /\ decls' = decls
      /\ AtSkip => Top.family = "@" /\ (Top.depth = 1 => Cur \notin AtCloser)
      /\ PoundSkip => Top.family = "#" /\ (Cur = "#endif" => Top.depth > 1)
  BY DEF AtSkip, PoundSkip, In, Consume
<1>3. pos <= Len(input) + 1 /\ Here.pos = pos /\ Agrees
  BY <1>2 DEF Follows
<1>4. /\ stack \in Seq(Frame) /\ Len(stack) \in 1..Len(stack) /\ stack[Len(stack)] = Top
      /\ Top \in Frame /\ SkipTop(stack) /\ Top.depth \in Nat
  BY <1>1, <1>2, TopFrame DEF Frame
<1>5. /\ f \in Frame /\ f.depth = d /\ f.family = Top.family /\ f.mode = "skip" /\ f.taken = Top.taken
  BY <1>2, <1>4, FrameFacts
<1> HIDE DEF f
<1>6. stack' \in Seq(Frame) /\ Changed(stack, stack', f)
  BY <1>1, <1>4, <1>5, SeqSteps DEF TypeOK, SetTop, f
<1>7. /\ o \in Seq(Reference!Block) /\ o2 \in Seq(Reference!Block) /\ Here \in ScanState
      /\ Here' = Beyond /\ Cur = t.kind /\ t \in Token
      /\ Beyond.out = Reference!OutAfter(Here, t)
      /\ OpenMoves(o, t, live, o2)
  BY <1>2, <1>3, Moved, HereFacts, BeyondFacts
<1>8. /\ PoundHeader = {"#ifdef", "#ifndef"} /\ AtHeader = {"@ifdef", "@if", "@if defined"}
      /\ AtElif = {"@elif", "@elif defined"}
      /\ AtCloser = {"@elif", "@elif defined", "@else", "@end"}
  BY DEF PoundHeader, AtHeader, AtElif, AtCloser
<1>9. Reference!Family(t) = IF Cur \in PoundHeader \cup {"#endif"} THEN "#" ELSE "@"
  BY <1>7, <1>8 DEF Reference!Family
<1>10. live \in BOOLEAN /\ Truth(t) \in BOOLEAN /\ (live /\ Truth(t)) \in BOOLEAN
  BY <1>7, ScanLive, TruthBoolean
<1>11. Cur \in {"decl", "import"} \/ Cur \in PoundHeader \cup AtHeader \/ Cur \in {"#endif", "@end"}
       \/ Cur \in AtElif \cup {"@else"}
  BY <1>7 DEF Token, TokenKind, AtCloser
<1>12. \/ Cur \in PoundHeader \cup AtHeader
            /\ d = IF Reference!Family(t) = Top.family THEN Top.depth + 1 ELSE Top.depth
       \/ Cur \in {"#endif", "@end"}
            /\ d = IF Reference!Family(t) = Top.family THEN Top.depth - 1 ELSE Top.depth
       \/ Cur \in {"decl", "import"} \cup AtElif \cup {"@else"} /\ d = Top.depth
  <2>1. CASE AtSkip
    <3>1. CASE Cur \in AtHeader
      BY <1>1, <1>2, <1>8, <1>9, <2>1, <3>1
    <3>2. CASE Cur \in PoundHeader
      BY <1>1, <1>2, <1>8, <1>9, <2>1, <3>2
    <3>3. CASE Cur \in {"#endif", "@end"}
      BY <1>1, <1>2, <1>8, <1>9, <2>1, <3>3
    <3>4. CASE Cur \in {"decl", "import"} \cup AtElif \cup {"@else"}
      BY <1>1, <1>2, <1>8, <1>9, <2>1, <3>4
    <3> QED
      BY <1>11, <3>1, <3>2, <3>3, <3>4
  <2>2. CASE PoundSkip
    <3>1. CASE Cur \in AtHeader
      BY <1>1, <1>2, <1>8, <1>9, <2>2, <3>1
    <3>2. CASE Cur \in PoundHeader
      BY <1>1, <1>2, <1>8, <1>9, <2>2, <3>2
    <3>3. CASE Cur \in {"#endif", "@end"}
      BY <1>1, <1>2, <1>8, <1>9, <2>2, <3>3
    <3>4. CASE Cur \in {"decl", "import"} \cup AtElif \cup {"@else"}
      BY <1>1, <1>2, <1>8, <1>9, <2>2, <3>4
    <3> QED
      BY <1>11, <3>1, <3>2, <3>3, <3>4
  <2> QED
    BY <2>1, <2>2
<1> DEFINE nb == Reference!NewBlock(t, live, live /\ Truth(t))
           c == Reference!Elifs(t) => Truth(t)
           cb == Reference!NextBranch(o[Len(o)], c)
<1>13. nb \in Reference!Block /\ nb.family = Reference!Family(t) /\ nb.outer = live
       /\ (live = FALSE => nb.live = FALSE)
  <2> HIDE DEF live
  <2> QED
    BY <1>7, <1>10, BlockFacts
<1>14. o # << >> => /\ cb \in Reference!Block /\ cb.family = o[Len(o)].family
                    /\ cb.outer = o[Len(o)].outer
                    /\ (o[Len(o)].outer = FALSE => cb.live = FALSE)
  <2> SUFFICES ASSUME o # << >>
               PROVE  /\ cb \in Reference!Block /\ cb.family = o[Len(o)].family
                      /\ cb.outer = o[Len(o)].outer
                      /\ (o[Len(o)].outer = FALSE => cb.live = FALSE)
    OBVIOUS
  <2>1. o[Len(o)] \in Reference!Block
    BY <1>7, SeqSteps
  <2>2. c \in BOOLEAN
    OBVIOUS
  <2> HIDE DEF c, o
  <2> QED
    BY <2>1, <2>2, ContinuedBlock
<1> HIDE DEF nb, cb, c
<1>15. /\ Cur \in {"decl", "import"} => o2 = o
       /\ Cur \in PoundHeader \cup AtHeader => Grown(o, o2, nb)
       /\ Cur \in {"#endif", "@end"} => o # << >> /\ o[Len(o)].family = Reference!Family(t) /\ Cut(o, o2)
       /\ Cur \in AtElif \cup {"@else"} => o # << >> /\ o[Len(o)].family = "@" /\ Changed(o, o2, cb)
  BY <1>7 DEF OpenMoves, nb, cb, c
<1> HIDE DEF o, o2, live, t
<1>16. SkipMoves(o, o2, f.family, stack[Len(stack)].depth, f.depth)
  <2>1. CASE Cur \in PoundHeader \cup AtHeader
    <3>1. d = IF nb.family = f.family THEN Top.depth + 1 ELSE Top.depth
      BY <1>5, <1>8, <1>12, <1>13, <2>1
    <3> QED
      BY <1>4, <1>5, <1>13, <1>15, <2>1, <3>1 DEF SkipMoves
  <2>2. CASE Cur \in {"#endif", "@end"}
    <3>1. d = IF o[Len(o)].family = f.family THEN Top.depth - 1 ELSE Top.depth
      BY <1>5, <1>8, <1>12, <1>15, <2>2
    <3> QED
      BY <1>4, <1>5, <1>15, <2>2, <3>1 DEF SkipMoves
  <2>3. CASE Cur \in {"decl", "import"}
    <3>1. d = Top.depth
      BY <1>8, <1>12, <2>3
    <3> QED
      BY <1>4, <1>5, <1>15, <2>3, <3>1 DEF SkipMoves
  <2>4. CASE Cur \in AtElif \cup {"@else"}
    <3>1. d = Top.depth
      BY <1>8, <1>12, <2>4
    <3> QED
      BY <1>4, <1>5, <1>14, <1>15, <2>4, <3>1 DEF SkipMoves
  <2> QED
    BY <1>11, <2>1, <2>2, <2>3, <2>4
<1>17. Doomed(stack, o) => Doomed(stack', o2)
  BY <1>4, <1>5, <1>6, <1>7, <1>16, DoomedSkip
<1>18. Matches(stack, o) => Matches(stack', o2) /\ live = FALSE
  <2> SUFFICES ASSUME Matches(stack, o) PROVE Matches(stack', o2) /\ live = FALSE
    OBVIOUS
  <2>1. /\ Len(stack) \in 1..Len(o) /\ Len(o) \in Nat
        /\ o[Len(o)].family # Top.family => Len(o) # Len(stack)
        /\ Top.depth # 1 => Len(o) # Len(stack)
    BY <1>4, <1>7, SkipFloor
  <2>2. o # << >> /\ Len(o) \in Len(stack)..Len(o)
    BY <2>1, EmptySeq
  <2>3. o[Len(o)].live = FALSE /\ (Len(o) # Len(stack) => o[Len(o)].outer = FALSE)
    <3>1. Len(o) # Len(stack) => Len(o) \in (Len(stack) + 1)..Len(o)
      BY <1>4, <2>1
    <3> QED
      BY <1>4, <2>2, <3>1 DEF Matches, Skipping
  <2>4. live = FALSE
    BY <1>7, <1>10, <2>2, <2>3, ScanLive DEF live, o
  <2>5. Cur \in {"#endif", "@end"} \cup AtElif \cup {"@else"} => Len(o) # Len(stack)
    <3> SUFFICES ASSUME Cur \in {"#endif", "@end"} \cup AtElif \cup {"@else"}, Len(o) = Len(stack)
                 PROVE  FALSE
      OBVIOUS
    <3>1. o[Len(o)].family = Top.family /\ Top.depth = 1
      BY <2>1
    <3>2. CASE AtSkip
      <4>1. Cur = "#endif"
        BY <1>2, <1>8, <3>1, <3>2
      <4> QED
        BY <1>2, <1>8, <1>9, <1>15, <3>1, <3>2, <4>1
    <3>3. CASE PoundSkip
      <4>1. Cur # "#endif"
        BY <1>2, <3>1, <3>3
      <4> QED
        BY <1>2, <1>8, <1>9, <1>15, <3>1, <3>3, <4>1
    <3> QED
      BY <3>2, <3>3
  <2>6. (o2 = o \/ Len(o2) > Len(o) \/ Len(o) # Len(stack)) /\ StaysDead(o, o2)
    <3>1. CASE Cur \in PoundHeader \cup AtHeader
      <4>1. Len(o2) = Len(o) + 1 /\ o2[Len(o2)] = nb
        BY <1>15, <2>1, <3>1 DEF Grown
      <4> QED
        BY <1>10, <1>13, <2>1, <2>4, <4>1 DEF StaysDead
    <3>2. CASE Cur \in {"#endif", "@end"}
      <4>1. Len(o2) = Len(o) - 1
        BY <1>15, <3>2 DEF Cut
      <4> QED
        BY <2>1, <2>5, <3>2, <4>1 DEF StaysDead
    <3>3. CASE Cur \in {"decl", "import"}
      BY <1>15, <3>3 DEF StaysDead
    <3>4. CASE Cur \in AtElif \cup {"@else"}
      <4>1. Len(o) # Len(stack)
        BY <2>5, <3>4
      <4>2. Len(o2) = Len(o) /\ o2[Len(o2)] = cb
        BY <1>15, <3>4 DEF Changed
      <4> QED
        BY <1>14, <2>2, <2>3, <4>1, <4>2 DEF StaysDead
    <3> QED
      BY <1>11, <3>1, <3>2, <3>3, <3>4
  <2>7. Matches(stack', o2)
    BY <1>4, <1>5, <1>6, <1>7, <1>16, <2>6, MatchesSkip
  <2> QED
    BY <2>4, <2>7
<1>19. live = FALSE => Beyond.out = Here.out
  BY <1>7 DEF Reference!OutAfter, live
<1> QED
  BY <1>2, <1>3, <1>7, <1>17, <1>18, <1>19 DEF Agrees, o, o2

LEMMA NothingOpenMatches == Matches(<< >>, << >>)
<1> DEFINE e == << >>
<1>1. Len(e) = 0 /\ ~SkipTop(e)
  BY DEF SkipTop
<1>2. \A i \in 1..Len(e) : FALSE
  BY <1>1
<1> HIDE DEF e
<1>3. Matches(e, e)
  BY <1>1, <1>2 DEF Matches
<1> QED
  BY <1>3 DEF e

LEMMA AcceptInit == Init => AcceptInv
<1> SUFFICES ASSUME Init PROVE AcceptInv
  OBVIOUS
<1>1. TypeOK /\ pos = 1 /\ stack = << >> /\ decls = << >> /\ status = "parsing"
  BY TypeInit DEF Init
<1>2. input \in Seq(Token) /\ Len(input) \in Nat
  BY <1>1 DEF TypeOK
<1>3. Here = Reference!Start
  <2>1. pos - 1 = 0
    BY <1>1
  <2> QED
    BY <1>2, <2>1, ScansFacts DEF Here
<1>4. Here.pos = 1 /\ Here.open = << >> /\ Here.out = << >>
  BY <1>3 DEF Reference!Start
<1>5. pos <= Len(input) + 1
  BY <1>1, <1>2
<1>6. Agrees
  BY <1>1, <1>4, NothingOpenMatches DEF Agrees
<1>7. Shape
  BY <1>1, EmptySeq DEF Shape
<1> QED
  BY <1>1, <1>4, <1>5, <1>6, <1>7 DEF AcceptInv, Follows, AcceptedIsRight

\* A step that goes on parsing consumes the current token or none.
LEMMA OneTokenAtMost ==
  ASSUME TypeOK, [Next]_vars, Parsing, Parsing'
  PROVE  /\ input' = input
         /\ pos' = pos \/ (Cur # "eof" /\ pos' = pos + 1)
<1>1. CASE ParseDeclaration \/ ParseImport
  BY <1>1 DEF ParseDeclaration, ParseImport, Consume
<1>2. CASE OpenAt \/ OpenPound
  BY <1>2 DEF OpenAt, OpenPound, Consume, PoundHeader
<1>3. CASE AtBranchEnds \/ AtSkipEnds
  BY <1>3 DEF AtBranchEnds, AtSkipEnds, Consume, Stay
<1>4. CASE AtSkip \/ PoundSkip
  BY <1>4 DEF AtSkip, PoundSkip, Consume
<1>5. CASE AtEnd \/ PoundEnd
  BY <1>5 DEF AtEnd, PoundEnd, Consume
<1>6. CASE AtNextBranch
  BY <1>6 DEF AtNextBranch, Consume
<1>7. CASE OpenAtMalformed \/ Stray \/ EndOfInput \/ AtTailError
  BY <1>7 DEF OpenAtMalformed, Stray, EndOfInput, AtTailError, Reject, Parsing
<1>8. CASE UNCHANGED vars
  BY <1>8 DEF vars
<1> QED
  BY <1>1, <1>2, <1>3, <1>4, <1>5, <1>6, <1>7, <1>8 DEF Next

LEMMA AgreesStep ==
  ASSUME AcceptInv, [Next]_vars, TypeOK', Parsing, Parsing', Reference!WellNested(input)
  PROVE  Agrees'
<1>1. CASE ParseDeclaration \/ ParseImport
  BY <1>1, AgreesRead
<1>2. CASE OpenAt \/ OpenPound
  BY <1>2, AgreesOpen
<1>3. CASE AtBranchEnds \/ AtSkipEnds
  BY <1>3, AgreesBranchEnds
<1>4. CASE AtSkip \/ PoundSkip
  BY <1>4, AgreesSkip
<1>5. CASE AtEnd \/ PoundEnd
  BY <1>5, AgreesClose DEF AcceptInv
<1>6. CASE AtNextBranch
  BY <1>6, AgreesNext
<1>7. CASE OpenAtMalformed \/ Stray \/ EndOfInput \/ AtTailError
  BY <1>7 DEF OpenAtMalformed, Stray, EndOfInput, AtTailError, Reject, Parsing
<1>8. CASE UNCHANGED vars
  BY <1>8 DEF vars, AcceptInv, Follows, Agrees, Here
<1> QED
  BY <1>1, <1>2, <1>3, <1>4, <1>5, <1>6, <1>7, <1>8 DEF Next

\* Back in its main loop at the end of the input, the parser has what the
\* scan has.
LEMMA AcceptRight ==
  ASSUME AcceptInv, [Next]_vars, status' = "accepted", Reference!WellNested(input)
  PROVE  input' = input /\ decls' = Reference!Selected(input)
<1>1. CASE Parsing
  <2>1. status = "parsing" /\ status # "accepted"
    BY <1>1 DEF Parsing
  <2>2. EndOfInput /\ ~Reject
    <3>1. ~Reject
      BY DEF Reject
    <3>2. status' # status
      BY <2>1
    <3> QED
      BY <3>1, <3>2 DEF Next, vars, ParseDeclaration, ParseImport, OpenAt, OpenAtMalformed, OpenPound,
         Stray, AtBranchEnds, AtSkipEnds, AtSkip, AtEnd, AtNextBranch, AtTailError, PoundEnd, PoundSkip
  <2>3. Cur = "eof" /\ stack = << >> /\ input' = input /\ decls' = decls
    BY <2>2 DEF EndOfInput
  <2>4. /\ input \in Seq(Token) /\ pos \in Nat /\ Len(input) \in Nat /\ stack \in Seq(Frame)
        /\ pos <= Len(input) + 1 /\ Agrees /\ TypeOK
    BY <1>1 DEF AcceptInv, Follows, TypeOK
  <2>5. pos - 1 = Len(input)
    <3>1. pos <= Len(input) => pos \in 1..Len(input)
      BY <2>4 DEF TypeOK
    <3>2. pos <= Len(input) => input[pos].kind \in TokenKind
      <4> SUFFICES ASSUME pos <= Len(input) PROVE input[pos].kind \in TokenKind
        OBVIOUS
      <4>1. pos \in 1..Len(input)
        BY <3>1
      <4>2. input[pos] \in Token
        BY <2>4, <4>1, ElementOfSeq
      <4> QED
        BY <4>2 DEF Token
    <3>3. ~(pos <= Len(input))
      BY <2>3, <3>2 DEF Cur, TokenKind, PoundHeader, AtHeader, AtCloser, AtElif
    <3> QED
      BY <2>4, <3>3
  <2>6. Here = Reference!Scan(input)
    BY <2>5 DEF Here, Reference!Scan
  <2>7. Here.open \in Seq(Reference!Block)
    BY <2>4, HereFacts
  <2>8. ~Doomed(stack, Here.open)
    BY <2>3, <2>4, <2>7, NoneWaiting
  <2> QED
    BY <2>3, <2>4, <2>6, <2>8 DEF Agrees, Reference!Selected
<1>2. CASE ~Parsing
  <2>1. UNCHANGED vars
    BY <1>2 DEF Next, vars, ParseDeclaration, ParseImport, OpenAt, OpenAtMalformed, OpenPound,
         Stray, AtBranchEnds, AtSkipEnds, AtSkip, AtEnd, AtNextBranch, AtTailError, PoundEnd, PoundSkip,
         EndOfInput, AtTopLevel
  <2> QED
    BY <2>1 DEF vars, AcceptInv, AcceptedIsRight
<1> QED
  BY <1>1, <1>2

LEMMA AcceptStep == AcceptInv /\ [Next]_vars => AcceptInv'
<1> SUFFICES ASSUME AcceptInv, [Next]_vars PROVE AcceptInv'
  OBVIOUS
<1>1. TypeOK /\ Shape /\ TypeOK' /\ Shape'
  BY TypeStep, ShapeStep DEF AcceptInv
<1>2. input' = input
  BY DEF Next, vars, ParseDeclaration, ParseImport, OpenAt, OpenAtMalformed, OpenPound, Reject,
         Stray, AtBranchEnds, AtSkipEnds, AtSkip, AtEnd, AtNextBranch, AtTailError, PoundEnd, PoundSkip,
         EndOfInput
<1>3. Parsing' => Parsing
  BY DEF Next, vars, ParseDeclaration, ParseImport, OpenAt, OpenAtMalformed, OpenPound, Reject,
         Stray, AtBranchEnds, AtSkipEnds, AtSkip, AtEnd, AtNextBranch, AtTailError, PoundEnd, PoundSkip,
         EndOfInput, AtTopLevel, Parsing
<1>4. AcceptedIsRight'
  <2> SUFFICES ASSUME status' = "accepted", Reference!WellNested(input')
               PROVE  decls' = Reference!Selected(input')
    BY DEF AcceptedIsRight
  <2> QED
    BY <1>2, AcceptRight
<1>5. Follows'
  <2> SUFFICES ASSUME Parsing', Reference!WellNested(input)
               PROVE  pos' <= Len(input) + 1 /\ Here.pos' = pos' /\ Agrees'
    BY <1>2 DEF Follows
  <2>1. Parsing
    BY <1>3
  <2>2. pos <= Len(input) + 1 /\ Here.pos = pos
    BY <2>1 DEF AcceptInv, Follows
  <2>3. Agrees'
    BY <1>1, <2>1, AgreesStep
  <2>4. CASE pos' = pos
    BY <1>1, <1>2, <2>2, <2>3, <2>4, Moved
  <2>5. CASE pos' # pos
    <3>1. Cur # "eof" /\ pos' = pos + 1
      BY <1>1, <2>1, <2>5, OneTokenAtMost
    <3>2. Here' = Beyond /\ Beyond.pos = Here.pos + 1 /\ pos \in 1..Len(input)
      BY <1>1, <1>2, <2>2, <3>1, Moved, BeyondFacts
    <3>3. pos' <= Len(input) + 1
      BY <3>1, <3>2
    <3> QED
      BY <2>2, <2>3, <3>1, <3>2, <3>3
  <2> QED
    BY <2>4, <2>5
<1> QED
  BY <1>1, <1>4, <1>5 DEF AcceptInv

(***************************************************************************)
(* parse_top_level_at_directive, parse_top_level_pound_directive and the   *)
(* skip functions, for any token stream of any length and nesting, of      *)
(* either family or both: a well-nested stream that is accepted leaves     *)
(* exactly the declarations of its live branches in the module.            *)
(***************************************************************************)
THEOREM AcceptedRight == Spec => []AcceptedIsRight
<1>1. AcceptInv => AcceptedIsRight
  BY DEF AcceptInv
<1> QED
  BY <1>1, AcceptInit, AcceptStep, PTL DEF Spec

=============================================================================
