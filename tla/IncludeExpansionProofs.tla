----------------------- MODULE IncludeExpansionProofs -----------------------
(***************************************************************************)
(* Theorems about IncludeExpansion, for every set of paths and every file  *)
(* system: type correctness, the cycle protection of expand_includes, and  *)
(* what the buffer it returns holds.                                       *)
(***************************************************************************)
EXTENDS IncludeExpansion, SetInduction, SequenceTheorems, FiniteSetTheorems, TLAPS

(***************************************************************************)
(* Until preprocess_includes returns there is an active call.              *)
(***************************************************************************)
Active == ~done => stack # << >>

Shape == TypeOK /\ Active

(***************************************************************************)
(* What the typing of the state says of the innermost call.                *)
(***************************************************************************)
LEMMA TopFacts ==
  ASSUME Shape, ~done
  PROVE  /\ Len(stack) \in Nat \ {0}
         /\ Top \in Frame
         /\ disk[Top.path] \in Seq(Line) \cup {Unreadable}
<1>1. stack \in Seq(Frame) /\ stack # << >>
  BY DEF Shape, TypeOK, Active
<1>2. Len(stack) \in Nat \ {0}
  BY <1>1, EmptySeq
<1>3. Top \in Frame
  BY <1>1, <1>2 DEF Top
<1>4. disk[Top.path] \in Seq(Line) \cup {Unreadable}
  BY <1>3 DEF Shape, TypeOK, Frame
<1> QED
  BY <1>2, <1>3, <1>4

(***************************************************************************)
(* The path of a #include line the scanner looks at is a path.             *)
(***************************************************************************)
LEMMA LineFacts ==
  ASSUME Shape, Scanning("include")
  PROVE  ThisLine.path \in Paths
<1> DEFINE text == disk[Top.path]
<1>1. ~done /\ ~AtEnd /\ ThisLine.kind = "include"
  BY DEF Scanning
<1>2. Top \in Frame /\ text \in Seq(Line) \cup {Unreadable}
  BY <1>1, TopFacts
<1>3. text \in Seq(Line)
  <2>1. CASE text = Unreadable
    <3>1. Len(text) = 1 /\ text[1].kind = "unreadable"
      BY <2>1 DEF Unreadable
    <3>2. Top.next = 1
      BY <1>1, <1>2, <3>1 DEF AtEnd, Frame
    <3> QED
      BY <1>1, <3>1, <3>2 DEF ThisLine
  <2> QED
    BY <1>2, <2>1
<1>4. Top.next \in 1..Len(text)
  BY <1>1, <1>2, <1>3 DEF AtEnd, Frame
<1>5. ThisLine \in Line
  BY <1>3, <1>4, ElementOfSeq DEF ThisLine
<1> QED
  BY <1>1, <1>5 DEF Line, TextLine, BadLine, Include

(***************************************************************************)
(* Advancing the scanner, and the bookkeeping of a return, change only the *)
(* call that is innermost afterwards.                                      *)
(***************************************************************************)
LEMMA NextLineFacts ==
  ASSUME Shape, ~done
  PROVE  /\ NextLine \in Seq(Frame)
         /\ Len(NextLine) = Len(stack)
         /\ NextLine[Len(stack)] = [Top EXCEPT !.next = @ + 1]
         /\ \A i \in 1..(Len(stack) - 1) : NextLine[i] = stack[i]
<1> DEFINE f == [Top EXCEPT !.next = @ + 1]
<1>1. stack \in Seq(Frame) /\ Len(stack) \in 1..Len(stack) /\ Top \in Frame
  BY TopFacts DEF Shape, TypeOK
<1>2. f \in Frame
  <2>1. \A g \in Frame : [g EXCEPT !.next = @ + 1] \in Frame
    BY DEF Frame
  <2> QED
    BY <1>1, <2>1
<1>3. NextLine = [stack EXCEPT ![Len(stack)] = f]
  BY DEF NextLine, Top
<1> HIDE DEF f
<1>4. QED
  BY <1>1, <1>2, <1>3, ExceptSeq DEF f

LEMMA AppendFacts ==
  ASSUME NEW f \in Frame, NEW s \in Seq(Item)
  PROVE  /\ strbuf_append(f, s) \in Frame
         /\ strbuf_append(f, s).path = f.path
         /\ strbuf_append(f, s).next = f.next
         /\ strbuf_append(f, s).out = f.out \o s
         /\ strbuf_append(f, s).touched
  BY ConcatProperties DEF strbuf_append, Frame

LEMMA ReturnedFacts ==
  ASSUME Shape, NEW f \in Frame
  PROVE  Returned(f) \in Seq(Item)
<1>1. disk[f.path] \in Seq(Line) \cup {Unreadable}
  BY DEF Shape, TypeOK, Frame
<1>2. Len(disk[f.path]) \in Nat
  BY <1>1 DEF Unreadable
<1>3. RawCopy(f.path) \in Seq(Item)
  BY <1>2 DEF RawCopy, Item, Frame
<1> QED
  BY <1>3 DEF Returned, Frame

-----------------------------------------------------------------------------
(***************************************************************************)
(* What each kind of step does to the stack of calls.                      *)
(***************************************************************************)
Copied == [path |-> Top.path, line |-> Top.next, raw |-> FALSE]

LEMMA CopyFacts ==
  ASSUME Shape, CopyLine
  PROVE  /\ Copied \in Item
         /\ stack' \in Seq(Frame)
         /\ Len(stack') = Len(stack)
         /\ \A i \in 1..(Len(stack) - 1) : stack'[i] = stack[i]
         /\ stack'[Len(stack)].path = Top.path
         /\ stack'[Len(stack)].next = Top.next + 1
         /\ stack'[Len(stack)].out  = Top.out \o <<Copied>>
         /\ stack'[Len(stack)].touched
<1> DEFINE n == Len(stack)
           f == NextLine[n]
           g == strbuf_append(f, <<Copied>>)
<1>1. ~done /\ Top \in Frame /\ n \in Nat /\ n \in 1..n
  BY TopFacts DEF CopyLine, Scanning
<1>2. Copied \in Item
  BY <1>1 DEF Copied, Item, Frame
<1>3. f \in Frame /\ f = [Top EXCEPT !.next = @ + 1]
  BY <1>1, NextLineFacts, ElementOfSeq
<1>4. f.path = Top.path /\ f.next = Top.next + 1 /\ f.out = Top.out
  <2>1. \A h \in Frame : /\ [h EXCEPT !.next = @ + 1].path = h.path
                         /\ [h EXCEPT !.next = @ + 1].next = h.next + 1
                         /\ [h EXCEPT !.next = @ + 1].out  = h.out
    BY DEF Frame
  <2> QED
    BY <1>1, <1>3, <2>1
<1>5. stack' = [NextLine EXCEPT ![n] = g]
  BY DEF CopyLine, Copied
<1> HIDE DEF f
<1>6. <<Copied>> \in Seq(Item)
  BY <1>2
<1>7. /\ g \in Frame /\ g.path = Top.path /\ g.next = Top.next + 1
      /\ g.out = Top.out \o <<Copied>> /\ g.touched
  <2> DEFINE line == <<Copied>>
  <2>1. line \in Seq(Item) /\ f \in Frame
    BY <1>3, <1>6
  <2> HIDE DEF line
  <2>2. LET h == strbuf_append(f, line)
        IN  h \in Frame /\ h.path = f.path /\ h.next = f.next /\ h.out = f.out \o line /\ h.touched
    BY <2>1, AppendFacts
  <2> QED
    BY <1>4, <2>2 DEF line
<1> HIDE DEF g
<1>8. /\ stack' \in Seq(Frame) /\ Len(stack') = n
      /\ \A i \in 1..n : stack'[i] = IF i = n THEN g ELSE NextLine[i]
  BY <1>1, <1>5, <1>7, NextLineFacts, ExceptSeq
<1>9. \A i \in 1..(n - 1) : NextLine[i] = stack[i]
  BY <1>1, NextLineFacts
<1>10. stack'[n] = g /\ \A i \in 1..(n - 1) : stack'[i] = stack[i]
  BY <1>1, <1>8, <1>9
<1> QED
  BY <1>2, <1>7, <1>8, <1>10

Skip == DropLine \/ SkipSeen \/ SkipUnreadable

LEMMA SkipFacts ==
  ASSUME Shape, Skip
  PROVE  /\ stack' \in Seq(Frame)
         /\ Len(stack') = Len(stack)
         /\ \A i \in 1..(Len(stack) - 1) : stack'[i] = stack[i]
         /\ stack'[Len(stack)].path = Top.path
         /\ stack'[Len(stack)].next = Top.next + 1
         /\ stack'[Len(stack)].out  = Top.out
         /\ stack'[Len(stack)].touched = Top.touched
<1>1. ~done /\ stack' = NextLine
  BY DEF Skip, DropLine, SkipSeen, SkipUnreadable, Scanning
<1>2. Top \in Frame
  BY <1>1, TopFacts
<1>3. \A h \in Frame : /\ [h EXCEPT !.next = @ + 1].path = h.path
                       /\ [h EXCEPT !.next = @ + 1].next = h.next + 1
                       /\ [h EXCEPT !.next = @ + 1].out  = h.out
                       /\ [h EXCEPT !.next = @ + 1].touched = h.touched
  BY DEF Frame
<1> QED
  BY <1>1, <1>2, <1>3, NextLineFacts

LEMMA EnterFacts ==
  ASSUME Shape, EnterFile
  PROVE  /\ stack' \in Seq(Frame)
         /\ Len(stack') = Len(stack) + 1
         /\ \A i \in 1..(Len(stack) - 1) : stack'[i] = stack[i]
         /\ stack'[Len(stack)].path = Top.path
         /\ stack'[Len(stack)].next = Top.next + 1
         /\ stack'[Len(stack)].out  = Top.out
         /\ stack'[Len(stack)].touched = Top.touched
         /\ stack'[Len(stack) + 1] = Call(ThisLine.path)
         /\ ThisLine.path \in Paths
<1> DEFINE c == Call(ThisLine.path)
<1>1. ~done /\ ThisLine.path \in Paths
  BY LineFacts DEF EnterFile, Scanning
<1>2. c \in Frame
  BY <1>1, EmptySeq DEF Call, Frame
<1>3. stack' = Append(NextLine, c)
  BY DEF EnterFile
<1>4. Top \in Frame /\ Len(stack) \in Nat \ {0}
  BY <1>1, TopFacts
<1> HIDE DEF c
<1>5. /\ stack' \in Seq(Frame) /\ Len(stack') = Len(stack) + 1
      /\ \A i \in 1..Len(stack) : stack'[i] = NextLine[i]
      /\ stack'[Len(stack) + 1] = c
  BY <1>1, <1>2, <1>3, <1>4, NextLineFacts
<1>6. \A h \in Frame : /\ [h EXCEPT !.next = @ + 1].path = h.path
                       /\ [h EXCEPT !.next = @ + 1].next = h.next + 1
                       /\ [h EXCEPT !.next = @ + 1].out  = h.out
                       /\ [h EXCEPT !.next = @ + 1].touched = h.touched
  BY DEF Frame
<1>7. \A i \in 1..(Len(stack) - 1) : stack'[i] = stack[i]
  BY <1>1, <1>4, <1>5, NextLineFacts
<1>8. stack'[Len(stack)] = [Top EXCEPT !.next = @ + 1]
  BY <1>1, <1>4, <1>5, NextLineFacts
<1> QED
  BY <1>1, <1>4, <1>5, <1>6, <1>7, <1>8 DEF c

LEMMA ReturnFacts ==
  ASSUME Shape, ReturnToCaller
  PROVE  LET n == Len(stack) - 1 IN
         /\ n \in Nat \ {0}
         /\ stack' \in Seq(Frame)
         /\ Len(stack') = n
         /\ \A i \in 1..(n - 1) : stack'[i] = stack[i]
         /\ stack'[n].path = stack[n].path
         /\ stack'[n].next = stack[n].next
         /\ stack'[n].out  = stack[n].out \o Returned(Top)
         /\ stack'[n].touched
<1> DEFINE n == Len(stack) - 1
           f == strbuf_append(stack[n], Returned(Top))
<1>1. /\ ~done /\ Len(stack) \in Nat /\ n \in Nat \ {0} /\ Top \in Frame
      /\ n \in 1..Len(stack) /\ stack \in Seq(Frame)
  <2> HIDE DEF f
  <2>1. ~done /\ Len(stack) > 1
    BY DEF ReturnToCaller
  <2>2. Len(stack) \in Nat \ {0} /\ Top \in Frame
    BY <2>1, TopFacts
  <2>3. stack \in Seq(Frame)
    BY DEF Shape, TypeOK
  <2> QED
    BY <2>1, <2>2, <2>3
<1>2. stack[n] \in Frame
  BY <1>1, ElementOfSeq
<1>3. Returned(Top) \in Seq(Item)
  BY <1>1, ReturnedFacts
<1>4. /\ f \in Frame /\ f.path = stack[n].path /\ f.next = stack[n].next
      /\ f.out = stack[n].out \o Returned(Top) /\ f.touched
  BY <1>2, <1>3, AppendFacts
<1>5. stack' = PopTo(f)
  BY DEF ReturnToCaller
<1> HIDE DEF f
<1>6. stack' = [i \in 1..n |-> IF i = n THEN f ELSE stack[i]]
  BY <1>5 DEF PopTo
<1>7. stack' \in Seq(Frame) /\ Len(stack') = n
  <2>1. \A i \in 1..n : stack[i] \in Frame
    BY <1>1, ElementOfSeq
  <2> HIDE DEF n
  <2> QED
    BY <1>1, <1>4, <1>6, <2>1
<1>8. stack'[n] = f /\ \A i \in 1..(n - 1) : stack'[i] = stack[i]
  <2> HIDE DEF n
  <2> QED
    BY <1>1, <1>6
<1> QED
  BY <1>1, <1>4, <1>7, <1>8

-----------------------------------------------------------------------------
(***************************************************************************)
(* Typing is inductive, together with Active.                              *)
(***************************************************************************)
LEMMA ShapeInit == Init => Shape
<1> SUFFICES ASSUME Init PROVE Shape
  OBVIOUS
<1>1. Call(Root) \in Frame
  BY IncludeAssumption, EmptySeq DEF Call, Frame
<1>2. stack \in Seq(Frame) /\ stack # << >>
  BY <1>1 DEF Init
<1>3. result \in Seq(Item)
  BY EmptySeq DEF Init
<1> QED
  BY <1>2, <1>3, IncludeAssumption DEF Init, Shape, TypeOK, Active

LEMMA ShapeStep == Shape /\ [Next]_vars => Shape'
<1> SUFFICES ASSUME Shape, [Next]_vars PROVE Shape'
  OBVIOUS
<1>1. CASE CopyLine
  <2>1. stack' \in Seq(Frame) /\ stack' # << >>
    BY <1>1, CopyFacts, TopFacts, EmptySeq DEF CopyLine, Scanning
  <2> QED
    BY <1>1, <2>1 DEF CopyLine, Shape, TypeOK, Active
<1>2. CASE Skip
  <2>1. stack' \in Seq(Frame) /\ stack' # << >>
    BY <1>2, SkipFacts, TopFacts, EmptySeq
       DEF Skip, DropLine, SkipSeen, SkipUnreadable, Scanning
  <2> QED
    BY <1>2, <2>1 DEF Skip, DropLine, SkipSeen, SkipUnreadable, Shape, TypeOK, Active
<1>3. CASE EnterFile
  <2>1. stack' \in Seq(Frame) /\ stack' # << >>
    BY <1>3, EnterFacts, TopFacts, EmptySeq DEF EnterFile, Scanning
  <2>2. seen' \in SUBSET Paths
    BY <1>3, EnterFacts DEF EnterFile, includeset_add, Shape, TypeOK
  <2> QED
    BY <1>3, <2>1, <2>2 DEF EnterFile, Shape, TypeOK, Active
<1>4. CASE ReturnToCaller
  <2>1. stack' \in Seq(Frame) /\ stack' # << >>
    BY <1>4, ReturnFacts, EmptySeq
  <2> QED
    BY <1>4, <2>1 DEF ReturnToCaller, Shape, TypeOK, Active
<1>5. CASE ReturnToCompiler
  <2>1. Returned(Top) \in Seq(Item)
    BY <1>5, TopFacts, ReturnedFacts DEF ReturnToCompiler
  <2> QED
    BY <1>5, <2>1, EmptySeq DEF ReturnToCompiler, Shape, TypeOK, Active
<1>6. CASE UNCHANGED vars
  BY <1>6 DEF vars, Shape, TypeOK, Active
<1> QED
  BY <1>1, <1>2, <1>3, <1>4, <1>5, <1>6 DEF Next, Skip

(***************************************************************************)
(* The calls, the IncludeSet and the buffers keep their types.             *)
(***************************************************************************)
THEOREM TypeCorrect == Spec => []TypeOK
<1>1. Shape => TypeOK
  BY DEF Shape
<1> QED
  BY <1>1, ShapeInit, ShapeStep, PTL DEF Spec

-----------------------------------------------------------------------------
(***************************************************************************)
(* CyclesCut is inductive: a file is entered only when it is not marked,   *)
(* every file being expanded is marked, and nothing is unmarked before the *)
(* outermost call returns.                                                 *)
(***************************************************************************)
LEMMA CyclesCutStep == Shape /\ CyclesCut /\ [Next]_vars => CyclesCut'
<1> SUFFICES ASSUME Shape, CyclesCut, [Next]_vars PROVE CyclesCut'
  OBVIOUS
<1> DEFINE n == Len(stack)
<1>1. CASE EnterFile
  <2> DEFINE p == ThisLine.path
  <2>1. ~done /\ n \in Nat \ {0} /\ p \notin seen
    BY <1>1, TopFacts DEF EnterFile, Scanning, includeset_contains
  <2>2. seen' = seen \cup {p}
    BY <1>1 DEF EnterFile, includeset_add
  <2>3. Len(stack') = n + 1 /\ stack'[n + 1].path = p
    BY <1>1, EnterFacts DEF Call
  <2>4. \A i \in 1..n : stack'[i].path = stack[i].path
    BY <1>1, <2>1, EnterFacts DEF Top
  <2> HIDE DEF n, p
  <2>5. \A i \in 2..n : stack[i].path \in seen /\ stack[i].path # p
    BY <2>1 DEF CyclesCut, n
  <2>6. \A i \in 2..n : \A j \in 2..n : stack[i].path = stack[j].path => i = j
    BY DEF CyclesCut, n
  <2>7. SUFFICES ASSUME NEW i \in 2..(n + 1), NEW j \in 2..(n + 1)
                 PROVE  /\ stack'[i].path \in seen'
                        /\ stack'[i].path = stack'[j].path => i = j
    BY <2>3 DEF CyclesCut
  <2>8. CASE i = n + 1 /\ j = n + 1
    BY <2>2, <2>3, <2>8
  <2>9. CASE i = n + 1 /\ j \in 2..n
    BY <2>1, <2>2, <2>3, <2>4, <2>5, <2>9
  <2>10. CASE i \in 2..n /\ j = n + 1
    BY <2>1, <2>2, <2>3, <2>4, <2>5, <2>10
  <2>11. CASE i \in 2..n /\ j \in 2..n
    BY <2>1, <2>2, <2>4, <2>5, <2>6, <2>11
  <2> QED
    BY <2>1, <2>8, <2>9, <2>10, <2>11
<1>2. CASE CopyLine \/ Skip \/ ReturnToCaller
  <2>1. ~done /\ n \in Nat \ {0}
    BY <1>2, TopFacts DEF CopyLine, Skip, DropLine, SkipSeen, SkipUnreadable,
                          Scanning, ReturnToCaller
  <2>2. /\ Len(stack') \in Nat /\ Len(stack') <= n
        /\ \A i \in 1..Len(stack') : stack'[i].path = stack[i].path
    <3>1. CASE CopyLine
      BY <2>1, <3>1, CopyFacts DEF Top
    <3>2. CASE Skip
      BY <2>1, <3>2, SkipFacts DEF Top
    <3>3. CASE ReturnToCaller
      <4> DEFINE m == Len(stack) - 1
      <4>1. /\ m \in Nat \ {0} /\ Len(stack') = m
            /\ \A i \in 1..(m - 1) : stack'[i] = stack[i]
            /\ stack'[m].path = stack[m].path
        BY <3>3, ReturnFacts
      <4>2. \A i \in 1..m : i \in 1..(m - 1) \/ i = m
        BY <4>1
      <4> QED
        BY <2>1, <4>1, <4>2
    <3> QED
      BY <1>2, <3>1, <3>2, <3>3
  <2>3. seen' = seen
    BY <1>2 DEF CopyLine, Skip, DropLine, SkipSeen, SkipUnreadable, ReturnToCaller
  <2> QED
    BY <2>1, <2>2, <2>3 DEF CyclesCut
<1>3. CASE ReturnToCompiler
  BY <1>3, EmptySeq DEF ReturnToCompiler, CyclesCut
<1>4. CASE UNCHANGED vars
  BY <1>4 DEF vars, CyclesCut
<1> QED
  BY <1>1, <1>2, <1>3, <1>4 DEF Next, Skip

(***************************************************************************)
(* However the files include each other, every nested call of              *)
(* expand_includes scans a marked file and no two scan the same one.       *)
(***************************************************************************)
THEOREM CyclesAreCut == Spec => []CyclesCut
<1>1. Init => CyclesCut
  BY DEF Init, CyclesCut
<1> QED
  BY <1>1, ShapeInit, ShapeStep, CyclesCutStep, PTL DEF Spec

\* Distinct paths: no more nested calls than paths.
LEMMA DepthFromCycles ==
  ASSUME Shape, CyclesCut
  PROVE  DepthBounded
<1> DEFINE I == 2..Len(stack)  f == [i \in I |-> stack[i].path]
<1>1. stack \in Seq(Frame) /\ Len(stack) \in Nat
  BY DEF Shape, TypeOK
<1>2. f \in Injection(I, Paths)
  <2>1. f \in [I -> Paths]
    <3>1. \A i \in I : stack[i] \in Frame
      BY <1>1, ElementOfSeq
    <3> QED
      BY <3>1 DEF Frame
  <2>2. \A i, j \in I : f[i] = f[j] => i = j
    BY <1>1 DEF CyclesCut
  <2> QED
    BY <2>1, <2>2 DEF Injection, IsInjective
<1>3. IsFiniteSet(Paths) /\ Cardinality(Paths) \in Nat
  BY IncludeAssumption, FS_CardinalityType
<1>4. Cardinality(I) <= Cardinality(Paths)
  BY <1>2, <1>3, FS_Injection
<1>5. Cardinality(I) = IF 2 > Len(stack) THEN 0 ELSE Len(stack) - 1
  BY <1>1, FS_Interval
<1> QED
  BY <1>1, <1>3, <1>4, <1>5 DEF DepthBounded

(***************************************************************************)
(* The recursion of expand_includes is bounded by the number of paths: the *)
(* nested calls map one to one to the paths they scan.                     *)
(***************************************************************************)
THEOREM RecursionBounded == Spec => []DepthBounded
<1>1. Shape /\ CyclesCut => DepthBounded
  BY DepthFromCycles
<1>2. Init => CyclesCut
  BY DEF Init, CyclesCut
<1> QED
  BY <1>1, <1>2, ShapeInit, ShapeStep, CyclesCutStep, PTL DEF Spec

-----------------------------------------------------------------------------
(***************************************************************************)
(* MarkedNotLost needs two more facts: a call has copied every ordinary    *)
(* line it has scanned, and a buffer that was never appended to is empty   *)
(* (so that returning a copy of the input instead loses nothing).          *)
(***************************************************************************)
ScannedCopied ==
  \A i \in 1..Len(stack) : \A l \in 1..Len(disk[stack[i].path]) :
    l < stack[i].next /\ disk[stack[i].path][l].kind = "text"
      => CopiedTo(stack[i].path, l, stack[i].out)

UntouchedEmpty ==
  \A i \in 1..Len(stack) : ~stack[i].touched => stack[i].out = << >>

Kept == Shape /\ ScannedCopied /\ UntouchedEmpty /\ MarkedNotLost

\* Every ordinary line of p is in the buffer s.
AllCopied(p, s) ==
  \A l \in 1..Len(disk[p]) : disk[p][l].kind = "text" => CopiedTo(p, l, s)

LEMMA CopiedGrows ==
  ASSUME NEW s \in Seq(Item), NEW t \in Seq(Item), NEW p, NEW l,
         CopiedTo(p, l, s) \/ CopiedTo(p, l, t)
  PROVE  CopiedTo(p, l, s \o t)
<1> DEFINE it == [path |-> p, line |-> l, raw |-> FALSE]
<1> HIDE DEF it
<1>1. /\ Len(s) \in Nat /\ Len(t) \in Nat /\ Len(s \o t) = Len(s) + Len(t)
      /\ \A i \in 1..Len(s) + Len(t) :
           (s \o t)[i] = IF i <= Len(s) THEN s[i] ELSE t[i - Len(s)]
  BY ConcatProperties, LenProperties
<1>2. CASE \E k \in 1..Len(s) : s[k] = it
  <2>1. PICK k \in 1..Len(s) : s[k] = it
    BY <1>2
  <2>2. k \in 1..Len(s \o t) /\ (s \o t)[k] = it
    BY <1>1, <2>1
  <2> QED
    BY <2>2 DEF CopiedTo, it
<1>3. CASE \E k \in 1..Len(t) : t[k] = it
  <2>1. PICK k \in 1..Len(t) : t[k] = it
    BY <1>3
  <2>2. Len(s) + k \in 1..Len(s \o t) /\ (s \o t)[Len(s) + k] = it
    BY <1>1, <2>1
  <2> QED
    BY <2>2 DEF CopiedTo, it
<1> QED
  BY <1>2, <1>3 DEF CopiedTo, it

LEMMA CopiedLast ==
  ASSUME NEW s \in Seq(Item), NEW p, NEW l,
         [path |-> p, line |-> l, raw |-> FALSE] \in Item
  PROVE  CopiedTo(p, l, s \o << [path |-> p, line |-> l, raw |-> FALSE] >>)
<1> DEFINE it == [path |-> p, line |-> l, raw |-> FALSE]
<1> HIDE DEF it
<1>1. <<it>> \in Seq(Item) /\ 1 \in 1..Len(<<it>>) /\ <<it>>[1] = it
  BY DEF it
<1>2. CopiedTo(p, l, <<it>>)
  BY <1>1 DEF CopiedTo, it
<1>3. CopiedTo(p, l, s \o <<it>>)
  BY <1>1, <1>2, CopiedGrows
<1> QED
  BY <1>3 DEF it

(***************************************************************************)
(* What a finished call returns holds every ordinary line of its file, and *)
(* everything its buffer held.                                             *)
(***************************************************************************)
LEMMA ReturnedHolds ==
  ASSUME Kept, ~done, AtEnd
  PROVE  /\ AllCopied(Top.path, Returned(Top))
         /\ \A p, l : CopiedTo(p, l, Top.out) => CopiedTo(p, l, Returned(Top))
<1> DEFINE text == disk[Top.path]
<1>1. /\ Len(stack) \in 1..Len(stack) /\ Top \in Frame
      /\ text \in Seq(Line) \cup {Unreadable}
  BY TopFacts DEF Kept
<1>2. Len(text) \in Nat /\ Len(text) < Top.next
  BY <1>1 DEF AtEnd, Unreadable, Frame
<1>3. CASE Top.touched
  <2>1. AllCopied(Top.path, Top.out)
    BY <1>1, <1>2 DEF Kept, ScannedCopied, AllCopied, Top, Frame
  <2> QED
    BY <1>3, <2>1 DEF Returned
<1>4. CASE ~Top.touched
  <2>1. Top.out = << >>
    BY <1>1, <1>4 DEF Kept, UntouchedEmpty, Top
  <2>2. ASSUME NEW p, NEW l PROVE ~CopiedTo(p, l, Top.out)
    BY <2>1, EmptySeq DEF CopiedTo
  <2>3. ASSUME NEW l \in 1..Len(text), text[l].kind = "text"
        PROVE  CopiedTo(Top.path, l, RawCopy(Top.path))
    <3>1. Len(RawCopy(Top.path)) = Len(text)
      BY <1>2 DEF RawCopy
    <3>2. RawCopy(Top.path)[l] = [path |-> Top.path, line |-> l, raw |-> FALSE]
      BY <2>3 DEF RawCopy
    <3> QED
      BY <2>3, <3>1, <3>2 DEF CopiedTo
  <2> QED
    BY <1>4, <2>2, <2>3 DEF Returned, AllCopied
<1> QED
  BY <1>3, <1>4

(***************************************************************************)
(* No step loses a line that is in the buffer of an active call, until the *)
(* outermost call returns.                                                 *)
(***************************************************************************)
LEMMA LinesKept ==
  ASSUME Kept, Next, ~ReturnToCompiler,
         NEW p, NEW l,
         NEW i \in 1..Len(stack), CopiedTo(p, l, stack[i].out)
  PROVE  \E j \in 1..Len(stack') : CopiedTo(p, l, stack'[j].out)
<1> DEFINE n == Len(stack)
<1>1. ~done /\ n \in Nat \ {0} /\ Top \in Frame
  <2>1. ~done
    BY DEF Next, CopyLine, DropLine, SkipSeen, SkipUnreadable, EnterFile,
           ReturnToCaller, Scanning
  <2> QED
    BY <2>1, TopFacts DEF Kept
<1>2. CASE CopyLine
  <2>1. CASE i = n
    <3>1. Top.out \in Seq(Item) /\ <<Copied>> \in Seq(Item)
      BY <1>1, <1>2, CopyFacts DEF Kept, Frame
    <3>2. CopiedTo(p, l, Top.out \o <<Copied>>)
      BY <2>1, <3>1, CopiedGrows DEF Top
    <3>3. stack'[n].out = Top.out \o <<Copied>> /\ Len(stack') = n
      BY <1>2, CopyFacts DEF Kept
    <3>4. n \in 1..Len(stack')
      BY <1>1, <3>3
    <3> QED
      BY <3>2, <3>3, <3>4
  <2>2. CASE i # n
    BY <1>1, <1>2, <2>2, CopyFacts DEF Kept
  <2> QED
    BY <2>1, <2>2
<1>3. CASE Skip
  <2>1. Len(stack') = n /\ stack'[i].out = stack[i].out
    BY <1>1, <1>3, SkipFacts DEF Kept, Top
  <2> QED
    BY <2>1
<1>4. CASE EnterFile
  <2>1. Len(stack') = n + 1 /\ stack'[i].out = stack[i].out
    BY <1>1, <1>4, EnterFacts DEF Kept, Top
  <2> QED
    BY <1>1, <2>1
<1>5. CASE ReturnToCaller
  <2> DEFINE m == n - 1
  <2>1. /\ m \in Nat \ {0} /\ Len(stack') = m
        /\ \A j \in 1..(m - 1) : stack'[j] = stack[j]
        /\ stack'[m].out = stack[m].out \o Returned(Top)
    BY <1>5, ReturnFacts DEF Kept
  <2>2. stack[m].out \in Seq(Item) /\ Returned(Top) \in Seq(Item)
    <3>1. stack \in Seq(Frame) /\ m \in 1..Len(stack)
      BY <1>1, <2>1 DEF Kept, Shape, TypeOK
    <3>2. stack[m] \in Frame
      BY <3>1, ElementOfSeq
    <3> QED
      BY <1>1, <3>2, ReturnedFacts DEF Kept, Frame
  <2>3. CopiedTo(p, l, Top.out) => CopiedTo(p, l, Returned(Top))
    BY <1>1, <1>5, ReturnedHolds DEF ReturnToCaller
  <2>4. CASE i \in 1..(m - 1)
    <3>1. i \in 1..m /\ stack'[i] = stack[i]
      BY <2>1, <2>4
    <3> QED
      BY <2>1, <3>1
  <2>5. CASE i = m \/ i = n
    <3>1. CopiedTo(p, l, stack[m].out) \/ CopiedTo(p, l, Returned(Top))
      BY <2>3, <2>5 DEF Top
    <3>2. CopiedTo(p, l, stack'[m].out)
      BY <2>1, <2>2, <3>1, CopiedGrows
    <3>3. m \in 1..Len(stack')
      BY <2>1
    <3> QED
      BY <3>2, <3>3
  <2> QED
    BY <1>1, <2>1, <2>4, <2>5
<1> QED
  BY <1>2, <1>3, <1>4, <1>5 DEF Next, Skip

LEMMA ScannedCopiedStep == Kept /\ [Next]_vars => ScannedCopied' /\ UntouchedEmpty'
<1> SUFFICES ASSUME Kept, [Next]_vars PROVE ScannedCopied' /\ UntouchedEmpty'
  OBVIOUS
<1> DEFINE n == Len(stack)
<1> DEFINE Good(f) ==
      /\ \A l \in 1..Len(disk[f.path]) :
           l < f.next /\ disk[f.path][l].kind = "text" => CopiedTo(f.path, l, f.out)
      /\ ~f.touched => f.out = << >>
<1>1. \A i \in 1..n : Good(stack[i])
  BY DEF Kept, ScannedCopied, UntouchedEmpty
<1>2. disk' = disk
  BY DEF Next, vars, CopyLine, DropLine, SkipSeen, SkipUnreadable, EnterFile,
         ReturnToCaller, ReturnToCompiler
<1>3. SUFFICES \A i \in 1..Len(stack') : Good(stack'[i])
  BY <1>2 DEF ScannedCopied, UntouchedEmpty
<1>4. ASSUME ~done
      PROVE  n \in Nat \ {0} /\ Top \in Frame /\ Top = stack[n] /\ Good(Top)
  BY <1>1, <1>4, TopFacts DEF Kept, Top
<1> HIDE DEF Good
<1>5. CASE CopyLine
  <2>1. ~done /\ ThisLine.kind = "text"
    BY <1>5 DEF CopyLine, Scanning
  <2>2. Top.out \in Seq(Item) /\ <<Copied>> \in Seq(Item) /\ Top.next \in Nat
    BY <1>4, <1>5, <2>1, CopyFacts DEF Kept, Frame
  <2>3. Good(stack'[n])
    <3>1. SUFFICES ASSUME NEW l \in 1..Len(disk[Top.path]), l < Top.next + 1,
                          disk[Top.path][l].kind = "text"
                   PROVE  CopiedTo(Top.path, l, Top.out \o <<Copied>>)
      BY <1>5, CopyFacts DEF Kept, Good
    <3>2. CASE l < Top.next
      <4>1. CopiedTo(Top.path, l, Top.out)
        BY <1>4, <2>1, <3>1, <3>2 DEF Good
      <4> QED
        BY <2>2, <4>1, CopiedGrows
    <3>3. CASE l = Top.next
      <4>1. Copied \in Item
        BY <1>5, CopyFacts DEF Kept
      <4> QED
        BY <2>2, <3>3, <4>1, CopiedLast DEF Copied
    <3> QED
      BY <2>2, <3>1, <3>2, <3>3
  <2>4. Len(stack') = n /\ \A i \in 1..(n - 1) : stack'[i] = stack[i]
    BY <1>5, CopyFacts DEF Kept
  <2> QED
    BY <1>1, <1>4, <2>1, <2>3, <2>4
<1>6. CASE Skip \/ EnterFile
  <2>1. ~done /\ ThisLine.kind # "text"
    BY <1>6 DEF Skip, DropLine, SkipSeen, SkipUnreadable, EnterFile, Scanning
  <2>2. /\ \A i \in 1..(n - 1) : stack'[i] = stack[i]
        /\ stack'[n].path = Top.path /\ stack'[n].next = Top.next + 1
        /\ stack'[n].out = Top.out /\ stack'[n].touched = Top.touched
        /\ Len(stack') = n \/ (Len(stack') = n + 1 /\ stack'[n + 1] = Call(ThisLine.path))
    BY <1>6, SkipFacts, EnterFacts DEF Kept
  <2>3. Good(stack'[n])
    <3>1. Top.next \in Nat
      BY <1>4, <2>1 DEF Frame
    <3>2. ASSUME NEW l \in 1..Len(disk[Top.path]), l < Top.next + 1,
                 disk[Top.path][l].kind = "text"
          PROVE  CopiedTo(Top.path, l, Top.out)
      <4>1. l # Top.next
        BY <2>1, <3>2 DEF ThisLine
      <4>2. l < Top.next
        BY <3>1, <3>2, <4>1
      <4> QED
        BY <1>4, <2>1, <3>2, <4>2 DEF Good
    <3>3. ~Top.touched => Top.out = << >>
      BY <1>4, <2>1 DEF Good
    <3> QED
      BY <2>2, <3>2, <3>3 DEF Good
  <2>4. Good(Call(ThisLine.path))
    BY DEF Good, Call
  <2> QED
    BY <1>1, <1>4, <2>1, <2>2, <2>3, <2>4
<1>7. CASE ReturnToCaller
  <2> DEFINE m == n - 1
  <2>1. /\ m \in Nat \ {0} /\ Len(stack') = m
        /\ \A j \in 1..(m - 1) : stack'[j] = stack[j]
        /\ stack'[m].path = stack[m].path /\ stack'[m].next = stack[m].next
        /\ stack'[m].out = stack[m].out \o Returned(Top)
        /\ stack'[m].touched
    BY <1>7, ReturnFacts DEF Kept
  <2>2. m \in 1..n /\ ~done
    BY <1>4, <1>7, <2>1 DEF ReturnToCaller
  <2>3. stack[m].out \in Seq(Item) /\ Returned(Top) \in Seq(Item)
    <3>1. stack[m] \in Frame
      BY <2>2, ElementOfSeq DEF Kept, Shape, TypeOK
    <3> QED
      BY <1>4, <2>2, <3>1, ReturnedFacts DEF Kept, Frame
  <2>4. Good(stack'[m])
    BY <1>1, <2>1, <2>2, <2>3, CopiedGrows DEF Good
  <2> QED
    BY <1>1, <1>4, <2>1, <2>2, <2>4
<1>8. CASE ReturnToCompiler
  BY <1>8, EmptySeq DEF ReturnToCompiler
<1>9. CASE UNCHANGED vars
  BY <1>1, <1>9 DEF vars
<1> QED
  BY <1>5, <1>6, <1>7, <1>8, <1>9 DEF Next, Skip

LEMMA MarkedNotLostStep == Kept /\ [Next]_vars => MarkedNotLost'
<1> SUFFICES ASSUME Kept, [Next]_vars PROVE MarkedNotLost'
  OBVIOUS
<1> DEFINE n == Len(stack)
           Expanding(p)  == \E i \in 2..n : stack[i].path = p
           Expanding2(p) == \E i \in 2..Len(stack') : stack'[i].path = p
           Safe(p)  == \A l \in 1..Len(disk[p]) : disk[p][l].kind = "text" =>
                         \E i \in 1..n : CopiedTo(p, l, stack[i].out)
           Safe2(p) == \A l \in 1..Len(disk[p]) : disk[p][l].kind = "text" =>
                         \E i \in 1..Len(stack') : CopiedTo(p, l, stack'[i].out)
<1>1. \A p \in seen : Expanding(p) \/ Safe(p)
  BY DEF Kept, MarkedNotLost
<1>2. disk' = disk
  BY DEF Next, vars, CopyLine, DropLine, SkipSeen, SkipUnreadable, EnterFile,
         ReturnToCaller, ReturnToCompiler
<1>3. SUFFICES \A p \in seen' : Expanding2(p) \/ Safe2(p)
  BY <1>2 DEF MarkedNotLost
<1>4. ASSUME Next, ~ReturnToCompiler, NEW p, Safe(p) PROVE Safe2(p)
  BY <1>4, LinesKept
<1>5. ASSUME ~done PROVE n \in Nat \ {0} /\ Top \in Frame /\ Top = stack[n]
  BY <1>5, TopFacts DEF Kept, Top
<1> HIDE DEF Safe, Safe2
<1>6. CASE CopyLine \/ Skip \/ EnterFile
  <2>1. /\ ~done /\ Next /\ ~ReturnToCompiler
        /\ n <= Len(stack') /\ Len(stack') \in Nat
        /\ \A i \in 1..n : stack'[i].path = stack[i].path
    <3>1. ~done /\ Next
      BY <1>6 DEF Next, Skip, CopyLine, DropLine, SkipSeen, SkipUnreadable,
                  EnterFile, Scanning
    <3>2. stack' # << >>
      <4>1. n \in Nat \ {0} /\ (Len(stack') = n \/ Len(stack') = n + 1)
        BY <1>5, <1>6, <3>1, CopyFacts, SkipFacts, EnterFacts DEF Kept
      <4> QED
        BY <4>1, EmptySeq
    <3>3. ~ReturnToCompiler
      BY <3>2 DEF ReturnToCompiler
    <3>4. CASE CopyLine
      <4>1. /\ Len(stack') = n /\ stack'[n].path = Top.path
            /\ \A i \in 1..(n - 1) : stack'[i] = stack[i]
        BY <3>4, CopyFacts DEF Kept
      <4> QED
        BY <1>5, <3>1, <3>3, <4>1
    <3>5. CASE Skip
      BY <1>5, <3>1, <3>3, <3>5, SkipFacts DEF Kept
    <3>6. CASE EnterFile
      BY <1>5, <3>1, <3>3, <3>6, EnterFacts DEF Kept
    <3> QED
      BY <1>6, <3>4, <3>5, <3>6
  <2>2. ASSUME NEW p \in seen PROVE Expanding2(p) \/ Safe2(p)
    BY <1>1, <1>4, <1>5, <2>1, <2>2
  <2>3. CASE ~EnterFile
    <3>1. seen' = seen
      BY <1>6, <2>3 DEF CopyLine, Skip, DropLine, SkipSeen, SkipUnreadable
    <3> QED
      BY <2>2, <3>1
  <2>4. CASE EnterFile
    <3>1. seen' = seen \cup {ThisLine.path}
      BY <2>4 DEF EnterFile, includeset_add
    <3>2. Len(stack') = n + 1 /\ stack'[n + 1].path = ThisLine.path
      BY <2>4, EnterFacts DEF Kept, Call
    <3>3. Expanding2(ThisLine.path)
      BY <1>5, <2>1, <3>2
    <3> QED
      BY <2>2, <3>1, <3>3
  <2> QED
    BY <2>3, <2>4
<1>7. CASE ReturnToCaller
  <2> DEFINE m == n - 1
  <2>1. ~done /\ AtEnd /\ seen' = seen /\ Next
    BY <1>7 DEF ReturnToCaller, Next
  <2>2. /\ m \in Nat \ {0} /\ Len(stack') = m
        /\ \A i \in 1..m : stack'[i].path = stack[i].path
        /\ stack'[m].out = stack[m].out \o Returned(Top)
    <3>1. /\ m \in Nat \ {0} /\ Len(stack') = m
          /\ \A i \in 1..(m - 1) : stack'[i] = stack[i]
          /\ stack'[m].path = stack[m].path
          /\ stack'[m].out = stack[m].out \o Returned(Top)
      BY <1>7, ReturnFacts DEF Kept
    <3> QED
      BY <3>1
  <2>3. stack' # << >>
    BY <2>2, EmptySeq
  <2>4. ~ReturnToCompiler
    BY <2>3 DEF ReturnToCompiler
  <2>5. stack[m].out \in Seq(Item) /\ Returned(Top) \in Seq(Item)
    <3>1. m \in 1..Len(stack)
      BY <1>5, <2>1, <2>2
    <3>2. stack[m] \in Frame
      BY <3>1, ElementOfSeq DEF Kept, Shape, TypeOK
    <3> QED
      BY <1>5, <2>1, <3>2, ReturnedFacts DEF Kept, Frame
  <2>6. Safe2(Top.path)
    <3>1. SUFFICES ASSUME NEW l \in 1..Len(disk[Top.path]),
                          disk[Top.path][l].kind = "text"
                   PROVE  CopiedTo(Top.path, l, stack'[m].out)
      <4>1. m \in 1..Len(stack')
        BY <2>2
      <4> QED
        BY <4>1 DEF Safe2
    <3>2. CopiedTo(Top.path, l, Returned(Top))
      BY <2>1, <3>1, ReturnedHolds DEF AllCopied
    <3> QED
      BY <2>2, <2>5, <3>2, CopiedGrows
  <2>7. SUFFICES ASSUME NEW p \in seen PROVE Expanding2(p) \/ Safe2(p)
    BY <2>1
  <2>8. CASE Safe(p)
    BY <1>4, <2>1, <2>4, <2>8
  <2>9. CASE Expanding(p)
    <3>1. PICK i \in 2..n : stack[i].path = p
      BY <2>9
    <3>2. CASE i = n
      BY <1>5, <2>1, <2>6, <3>1, <3>2
    <3>3. CASE i # n
      <4>1. i \in 2..m /\ i \in 1..m
        BY <2>2, <3>1, <3>3
      <4> QED
        BY <2>2, <3>1, <4>1
    <3> QED
      BY <3>2, <3>3
  <2> QED
    BY <1>1, <2>7, <2>8, <2>9
<1>8. CASE ReturnToCompiler
  BY <1>8 DEF ReturnToCompiler
<1>9. CASE UNCHANGED vars
  BY <1>1, <1>9 DEF vars, Safe, Safe2
<1> QED
  BY <1>6, <1>7, <1>8, <1>9 DEF Next, Skip

LEMMA KeptInit == Init => Kept
<1> SUFFICES ASSUME Init PROVE Kept
  OBVIOUS
<1>1. Len(stack) = 1 /\ stack[1] = Call(Root)
  BY DEF Init
<1>2. ScannedCopied
  <2>1. \A i \in 1..Len(stack) : stack[i].next = 1
    BY <1>1 DEF Call
  <2> QED
    BY <2>1 DEF ScannedCopied
<1>3. UntouchedEmpty
  BY <1>1 DEF UntouchedEmpty, Call
<1>4. MarkedNotLost
  BY DEF Init, MarkedNotLost
<1> QED
  BY <1>2, <1>3, <1>4, ShapeInit DEF Kept

LEMMA KeptStep == Kept /\ [Next]_vars => Kept'
  BY ShapeStep, ScannedCopiedStep, MarkedNotLostStep DEF Kept

(***************************************************************************)
(* A file that is marked, and so will be skipped from now on, is being     *)
(* expanded or is already in the output: suppressing it loses nothing.     *)
(***************************************************************************)
THEOREM MarksLoseNothing == Spec => []MarkedNotLost
<1>1. Kept => MarkedNotLost
  BY DEF Kept
<1> QED
  BY <1>1, KeptInit, KeptStep, PTL DEF Spec

-----------------------------------------------------------------------------
(***************************************************************************)
(* The lines of an included file stay together: they are in the buffer of  *)
(* the call that expands it and, when it has returned, in one buffer, in   *)
(* the order of the file.                                                  *)
(***************************************************************************)
InOrder(s) ==
  \A k, l \in 1..Len(s) :
    k < l /\ s[k].path = s[l].path /\ s[k].path # Root => s[k].line < s[l].line

\* The included files that have lines in s.
Inlined(s) == {s[k].path : k \in 1..Len(s)} \ {Root}

Buffers ==
  \A i \in 1..Len(stack) :
    /\ InOrder(stack[i].out)
    /\ Inlined(stack[i].out) \subseteq seen
    /\ \A k \in 1..Len(stack[i].out) :
         stack[i].out[k].path = stack[i].path /\ stack[i].path # Root =>
           stack[i].out[k].line < stack[i].next

Apart ==
  \A i, j \in 1..Len(stack) : i # j =>
    /\ Inlined(stack[i].out) \cap Inlined(stack[j].out) = {}
    /\ stack[j].path \notin Inlined(stack[i].out)

\* The outermost call expands the root.
RootFirst == ~done => stack[1].path = Root

OrderInv ==
  Shape /\ CyclesCut /\ RootFirst /\ Buffers /\ Apart /\ InlinedOnceInOrder

LEMMA ConcatAt ==
  ASSUME NEW s \in Seq(Item), NEW t \in Seq(Item)
  PROVE  /\ s \o t \in Seq(Item) /\ Len(s) \in Nat /\ Len(t) \in Nat
         /\ Len(s \o t) = Len(s) + Len(t)
         /\ \A k \in 1..Len(s \o t) :
              \/ k \in 1..Len(s) /\ (s \o t)[k] = s[k]
              \/ k > Len(s) /\ k - Len(s) \in 1..Len(t) /\ (s \o t)[k] = t[k - Len(s)]
         /\ \A k \in 1..Len(s) : k \in 1..Len(s \o t) /\ (s \o t)[k] = s[k]
         /\ \A k \in 1..Len(t) : Len(s) + k \in 1..Len(s \o t) /\ (s \o t)[Len(s) + k] = t[k]
<1>1. /\ s \o t \in Seq(Item) /\ Len(s) \in Nat /\ Len(t) \in Nat /\ Len(s \o t) = Len(s) + Len(t)
      /\ \A i \in 1..Len(s) + Len(t) :
           (s \o t)[i] = IF i <= Len(s) THEN s[i] ELSE t[i - Len(s)]
  BY ConcatProperties, LenProperties
<1> DEFINE u == s \o t  m == Len(s)  n == Len(t)
<1> HIDE DEF u, m, n
<1>2. /\ m \in Nat /\ n \in Nat /\ Len(u) = m + n
      /\ \A i \in 1..(m + n) : u[i] = IF i <= m THEN s[i] ELSE t[i - m]
  BY <1>1 DEF u, m, n
<1>3. \A k \in 1..Len(u) : \/ k \in 1..m /\ u[k] = s[k]
                           \/ k > m /\ k - m \in 1..n /\ u[k] = t[k - m]
  BY <1>2
<1>4. \A k \in 1..m : k \in 1..Len(u) /\ u[k] = s[k]
  BY <1>2
<1>5. \A k \in 1..n : m + k \in 1..Len(u) /\ u[m + k] = t[k]
  BY <1>2
<1> QED
  BY <1>1, <1>3, <1>4, <1>5 DEF u, m, n

LEMMA ConcatInOrder ==
  ASSUME NEW s \in Seq(Item), NEW t \in Seq(Item), InOrder(s), InOrder(t),
         Inlined(s) \cap Inlined(t) = {}
  PROVE  InOrder(s \o t)
<1> DEFINE u == s \o t
<1>1. /\ Len(s) \in Nat /\ Len(t) \in Nat /\ Len(u) = Len(s) + Len(t)
      /\ \A k \in 1..Len(u) :
              \/ k \in 1..Len(s) /\ u[k] = s[k]
              \/ k > Len(s) /\ k - Len(s) \in 1..Len(t) /\ u[k] = t[k - Len(s)]
  BY ConcatAt
<1> HIDE DEF u
<1>2. SUFFICES ASSUME NEW k \in 1..Len(u), NEW l \in 1..Len(u),
                      k < l, u[k].path = u[l].path, u[k].path # Root
               PROVE  u[k].line < u[l].line
  BY DEF InOrder, u
<1>3. CASE k \in 1..Len(s) /\ u[k] = s[k] /\ l \in 1..Len(s) /\ u[l] = s[l]
  BY <1>2, <1>3 DEF InOrder
<1>4. CASE /\ k - Len(s) \in 1..Len(t) /\ u[k] = t[k - Len(s)]
           /\ l - Len(s) \in 1..Len(t) /\ u[l] = t[l - Len(s)]
  <2>1. k - Len(s) < l - Len(s)
    BY <1>1, <1>2
  <2> QED
    BY <1>2, <1>4, <2>1 DEF InOrder
<1>5. CASE /\ k \in 1..Len(s) /\ u[k] = s[k]
           /\ l - Len(s) \in 1..Len(t) /\ u[l] = t[l - Len(s)]
  <2>1. s[k].path \in Inlined(s) /\ t[l - Len(s)].path \in Inlined(t)
    BY <1>2, <1>5 DEF Inlined
  <2> QED
    BY <1>2, <1>5, <2>1
<1>6. ~(k > Len(s) /\ l \in 1..Len(s))
  BY <1>1, <1>2
<1> QED
  BY <1>1, <1>3, <1>4, <1>5, <1>6

LEMMA ConcatInlined ==
  ASSUME NEW s \in Seq(Item), NEW t \in Seq(Item)
  PROVE  Inlined(s \o t) = Inlined(s) \cup Inlined(t)
<1> DEFINE u == s \o t
<1>1. /\ \A k \in 1..Len(u) : \/ k \in 1..Len(s) /\ u[k] = s[k]
                              \/ k - Len(s) \in 1..Len(t) /\ u[k] = t[k - Len(s)]
      /\ \A k \in 1..Len(s) : k \in 1..Len(u) /\ u[k] = s[k]
      /\ \A k \in 1..Len(t) : Len(s) + k \in 1..Len(u) /\ u[Len(s) + k] = t[k]
  BY ConcatAt
<1> HIDE DEF u
<1>2. \A p \in Inlined(u) : p \in Inlined(s) \/ p \in Inlined(t)
  <2> SUFFICES ASSUME NEW k \in 1..Len(u), u[k].path # Root
               PROVE  u[k].path \in Inlined(s) \/ u[k].path \in Inlined(t)
    BY DEF Inlined
  <2>1. CASE k \in 1..Len(s) /\ u[k] = s[k]
    BY <2>1 DEF Inlined
  <2>2. CASE k - Len(s) \in 1..Len(t) /\ u[k] = t[k - Len(s)]
    BY <2>2 DEF Inlined
  <2> QED
    BY <1>1, <2>1, <2>2
<1>3. \A p \in Inlined(s) : p \in Inlined(u)
  BY <1>1 DEF Inlined
<1>4. \A p \in Inlined(t) : p \in Inlined(u)
  <2> SUFFICES ASSUME NEW k \in 1..Len(t), t[k].path # Root PROVE t[k].path \in Inlined(u)
    BY DEF Inlined
  <2>1. Len(s) + k \in 1..Len(u) /\ u[Len(s) + k].path = t[k].path
    BY <1>1
  <2> QED
    BY <2>1 DEF Inlined
<1> QED
  BY <1>2, <1>3, <1>4 DEF u

LEMMA OneLine ==
  ASSUME NEW x \in Item
  PROVE  <<x>> \in Seq(Item) /\ InOrder(<<x>>) /\ Inlined(<<x>>) = {x.path} \ {Root}
<1> DEFINE t == <<x>>
<1>1. t \in Seq(Item) /\ Len(t) = 1 /\ t[1] = x
  OBVIOUS
<1> HIDE DEF t
<1>2. \A k \in 1..Len(t) : k = 1
  BY <1>1
<1>3. InOrder(t)
  BY <1>2 DEF InOrder
<1>4. 1 \in 1..Len(t)
  BY <1>1
<1>5. Inlined(t) = {x.path} \ {Root}
  BY <1>1, <1>2, <1>4 DEF Inlined
<1> QED
  BY <1>1, <1>3, <1>5 DEF t

LEMMA AppendInOrder ==
  ASSUME NEW s \in Seq(Item), NEW x \in Item, InOrder(s),
         \A k \in 1..Len(s) : s[k].path = x.path /\ x.path # Root => s[k].line < x.line
  PROVE  InOrder(s \o <<x>>)
<1> DEFINE t == <<x>>  u == s \o t
<1>1. t \in Seq(Item) /\ Len(t) = 1 /\ t[1] = x
  OBVIOUS
<1> HIDE DEF t
<1>20. /\ Len(s) \in Nat /\ Len(u) = Len(s) + Len(t)
       /\ \A k \in 1..Len(u) :
              \/ k \in 1..Len(s) /\ u[k] = s[k]
              \/ k > Len(s) /\ k - Len(s) \in 1..Len(t) /\ u[k] = t[k - Len(s)]
  BY <1>1, ConcatAt
<1>2. /\ Len(s) \in Nat /\ Len(u) = Len(s) + 1
      /\ \A k \in 1..Len(u) :
              \/ k \in 1..Len(s) /\ u[k] = s[k]
              \/ k > Len(s) /\ k - Len(s) \in 1..1 /\ u[k] = t[k - Len(s)]
  BY <1>1, <1>20
<1> HIDE DEF u
<1>3. \A k \in 1..Len(u) : \/ k \in 1..Len(s) /\ u[k] = s[k]
                           \/ k = Len(s) + 1 /\ u[k] = x
  <2> SUFFICES ASSUME NEW k \in 1..Len(u), k > Len(s), k - Len(s) \in 1..1, u[k] = t[k - Len(s)]
               PROVE  k = Len(s) + 1 /\ u[k] = x
    BY <1>2
  <2>1. k - Len(s) = 1 /\ k = Len(s) + 1
    BY <1>2
  <2> QED
    BY <1>1, <2>1
<1>4. SUFFICES ASSUME NEW k \in 1..Len(u), NEW l \in 1..Len(u),
                      k < l, u[k].path = u[l].path, u[k].path # Root
               PROVE  u[k].line < u[l].line
  BY DEF InOrder, u, t
<1>5. k \in 1..Len(s) /\ u[k] = s[k]
  BY <1>2, <1>3, <1>4
<1>6. CASE l \in 1..Len(s) /\ u[l] = s[l]
  BY <1>4, <1>5, <1>6 DEF InOrder
<1>7. CASE u[l] = x
  BY <1>4, <1>5, <1>7
<1> QED
  BY <1>3, <1>6, <1>7

LEMMA RawInOrder ==
  ASSUME Shape, NEW f \in Frame
  PROVE  LET s == RawCopy(f.path)
         IN  s \in Seq(Item) /\ InOrder(s) /\ Inlined(s) \subseteq {f.path} \ {Root}
<1> DEFINE s == RawCopy(f.path)  n == Len(disk[f.path])
<1>1. disk[f.path] \in Seq(Line) \cup {Unreadable}
  BY DEF Shape, TypeOK, Frame
<1>2. n \in Nat
  BY <1>1 DEF Unreadable
<1>3. s \in Seq(Item)
  BY <1>2 DEF RawCopy, Item, Frame
<1>4. Len(s) = n /\ \A k \in 1..n : s[k].path = f.path /\ s[k].line = k
  BY <1>2 DEF RawCopy
<1> HIDE DEF s
<1>5. InOrder(s)
  BY <1>4 DEF InOrder
<1>6. Inlined(s) \subseteq {f.path} \ {Root}
  BY <1>4 DEF Inlined
<1> QED
  BY <1>3, <1>5, <1>6 DEF s

\* What a finished call returns is in order, and of the files its buffer had
\* lines of, or of its own.
LEMMA ReturnedInOrder ==
  ASSUME OrderInv, ~done
  PROVE  /\ Returned(Top) \in Seq(Item) /\ InOrder(Returned(Top))
         /\ Inlined(Returned(Top)) \subseteq Inlined(Top.out) \cup ({Top.path} \ {Root})
<1>1. Top \in Frame /\ Len(stack) \in 1..Len(stack) /\ Shape
  BY TopFacts DEF OrderInv
<1>2. Top.out \in Seq(Item) /\ InOrder(Top.out)
  BY <1>1 DEF OrderInv, Buffers, Top, Frame
<1>3. CASE Top.touched
  BY <1>2, <1>3 DEF Returned
<1>4. CASE ~Top.touched
  BY <1>1, <1>4, RawInOrder DEF Returned
<1> QED
  BY <1>3, <1>4

LEMMA RootFirstStep == Shape /\ RootFirst /\ [Next]_vars => RootFirst'
<1> SUFFICES ASSUME Shape, RootFirst, [Next]_vars, ~done' PROVE stack'[1].path = Root
  BY DEF RootFirst
<1>1. ~done
  BY DEF Next, vars, CopyLine, DropLine, SkipSeen, SkipUnreadable, EnterFile,
         ReturnToCaller, ReturnToCompiler
<1>2. Len(stack) \in Nat \ {0} /\ stack[1].path = Root /\ Top = stack[Len(stack)]
  BY <1>1, TopFacts DEF RootFirst, Top
<1>3. Len(stack) = 1 \/ 1 \in 1..(Len(stack) - 1)
  BY <1>2
<1>4. CASE CopyLine
  BY <1>2, <1>3, <1>4, CopyFacts
<1>5. CASE Skip
  BY <1>2, <1>3, <1>5, SkipFacts
<1>6. CASE EnterFile
  BY <1>2, <1>3, <1>6, EnterFacts
<1>7. CASE ReturnToCaller
  <2> DEFINE m == Len(stack) - 1
  <2>1. /\ m \in Nat \ {0} /\ \A i \in 1..(m - 1) : stack'[i] = stack[i]
        /\ stack'[m].path = stack[m].path
    BY <1>7, ReturnFacts
  <2> HIDE DEF m
  <2>2. m = 1 \/ 1 \in 1..(m - 1)
    BY <2>1
  <2> QED
    BY <1>2, <2>1, <2>2
<1>8. CASE ReturnToCompiler
  BY <1>8 DEF ReturnToCompiler
<1>9. CASE UNCHANGED vars
  BY <1>2, <1>9 DEF vars
<1> QED
  BY <1>4, <1>5, <1>6, <1>7, <1>8, <1>9 DEF Next, Skip

\* No two calls expand the same included file.
LEMMA OneExpansion ==
  ASSUME Shape, CyclesCut, RootFirst, ~done,
         NEW i \in 1..Len(stack), NEW j \in 1..Len(stack),
         stack[i].path = stack[j].path, stack[i].path # Root
  PROVE  i = j /\ stack[i].path \in seen
<1>1. Len(stack) \in Nat \ {0} /\ stack[1].path = Root
  BY TopFacts DEF RootFirst
<1>2. i \in 2..Len(stack) /\ j \in 2..Len(stack)
  BY <1>1
<1> QED
  BY <1>2 DEF CyclesCut

\* What Buffers says of one call.
BufferOK(f, marked) ==
  /\ InOrder(f.out)
  /\ Inlined(f.out) \subseteq marked
  /\ \A k \in 1..Len(f.out) :
       f.out[k].path = f.path /\ f.path # Root => f.out[k].line < f.next

LEMMA BuffersStep == OrderInv /\ [Next]_vars => Buffers'
<1> SUFFICES ASSUME OrderInv, [Next]_vars PROVE Buffers'
  OBVIOUS
<1> USE DEF OrderInv
<1> DEFINE n == Len(stack)
<1>1. \A i \in 1..n : BufferOK(stack[i], seen)
  BY DEF Buffers, BufferOK
<1>2. SUFFICES \A i \in 1..Len(stack') : BufferOK(stack'[i], seen')
  BY DEF Buffers, BufferOK
<1>3. ASSUME ~done
      PROVE  n \in Nat \ {0} /\ n \in 1..n /\ Top \in Frame /\ Top = stack[n] /\ BufferOK(Top, seen)
             /\ Top.out \in Seq(Item) /\ Top.next \in Nat
  BY <1>1, <1>3, TopFacts DEF Top, Frame
<1>4. CASE CopyLine
  <2>1. ~done /\ seen' = seen
    BY <1>4 DEF CopyLine, Scanning
  <2>2. /\ Copied \in Item /\ Len(stack') = n
        /\ \A i \in 1..(n - 1) : stack'[i] = stack[i]
        /\ stack'[n].path = Top.path /\ stack'[n].next = Top.next + 1
        /\ stack'[n].out = Top.out \o <<Copied>>
    BY <1>4, CopyFacts
  <2> DEFINE u == Top.out \o <<Copied>>
  <2>3. /\ Copied.path = Top.path /\ Copied.line = Top.next
        /\ <<Copied>> \in Seq(Item) /\ Inlined(<<Copied>>) = {Top.path} \ {Root}
    BY <2>2, OneLine DEF Copied
  <2>4. InOrder(u)
    BY <1>3, <2>1, <2>2, <2>3, AppendInOrder DEF BufferOK
  <2>5. Inlined(u) = Inlined(Top.out) \cup ({Top.path} \ {Root})
    BY <1>3, <2>1, <2>3, ConcatInlined
  <2>6. Inlined(u) \subseteq seen
    <3>1. Top.path # Root => Top.path \in seen
      BY <1>3, <2>1, OneExpansion
    <3> QED
      BY <1>3, <2>1, <2>5, <3>1 DEF BufferOK
  <2>7. ASSUME NEW k \in 1..Len(u), u[k].path = Top.path, Top.path # Root
        PROVE  u[k].line < Top.next + 1
    <3>1. (k \in 1..Len(Top.out) /\ u[k] = Top.out[k]) \/ u[k] = Copied
      <4> DEFINE t == <<Copied>>
      <4>1. Len(t) = 1 /\ t[1] = Copied /\ t \in Seq(Item)
        BY <2>3
      <4> HIDE DEF t
      <4>2. \/ k \in 1..Len(Top.out) /\ u[k] = Top.out[k]
            \/ k - Len(Top.out) \in 1..Len(t) /\ u[k] = t[k - Len(Top.out)]
        BY <1>3, <2>1, <2>7, <4>1, ConcatAt DEF t
      <4>3. k - Len(Top.out) \in 1..Len(t) => k - Len(Top.out) = 1
        BY <4>1
      <4> QED
        BY <4>1, <4>2, <4>3
    <3>2. CASE k \in 1..Len(Top.out) /\ u[k] = Top.out[k]
      <4>1. Top.out[k].line < Top.next /\ Top.out[k] \in Item
        BY <1>3, <2>1, <2>7, <3>2, ElementOfSeq DEF BufferOK
      <4> QED
        BY <1>3, <2>1, <3>2, <4>1 DEF Item
    <3>3. CASE u[k] = Copied
      BY <1>3, <2>1, <2>3, <3>3
    <3> QED
      BY <3>1, <3>2, <3>3
  <2>8. BufferOK(stack'[n], seen)
    BY <2>2, <2>4, <2>6, <2>7 DEF BufferOK
  <2>9. \A i \in 1..n : i \in 1..(n - 1) \/ i = n
    BY <1>3, <2>1
  <2> QED
    BY <1>1, <2>1, <2>2, <2>8, <2>9
<1>5. CASE Skip \/ EnterFile
  <2>1. ~done /\ seen \subseteq seen'
    BY <1>5 DEF Skip, DropLine, SkipSeen, SkipUnreadable, EnterFile, Scanning, includeset_add
  <2>2. /\ \A i \in 1..(n - 1) : stack'[i] = stack[i]
        /\ stack'[n].path = Top.path /\ stack'[n].next = Top.next + 1
        /\ stack'[n].out = Top.out
        /\ Len(stack') = n \/ (Len(stack') = n + 1 /\ stack'[n + 1].out = << >>)
    BY <1>5, SkipFacts, EnterFacts DEF Call
  <2>3. \A f : BufferOK(f, seen) => BufferOK(f, seen')
    BY <2>1 DEF BufferOK
  <2>4. BufferOK(stack'[n], seen')
    <3>1. \A k \in 1..Len(Top.out) : Top.out[k].line < Top.next => Top.out[k].line < Top.next + 1
      <4> SUFFICES ASSUME NEW k \in 1..Len(Top.out), Top.out[k].line < Top.next
                   PROVE  Top.out[k].line < Top.next + 1
        OBVIOUS
      <4>1. Top.out[k] \in Item
        BY <1>3, <2>1, ElementOfSeq
      <4> QED
        BY <1>3, <2>1, <4>1 DEF Item
    <3> QED
      BY <1>3, <2>1, <2>2, <3>1 DEF BufferOK
  <2>5. \A f : f.out = << >> => BufferOK(f, seen')
    BY EmptySeq DEF BufferOK, InOrder, Inlined
  <2>6. \A i \in 1..Len(stack') : i \in 1..(n - 1) \/ i = n \/ (i = n + 1 /\ Len(stack') = n + 1)
    BY <1>3, <2>1, <2>2
  <2>7. \A i \in 1..(n - 1) : i \in 1..n
    BY <1>3, <2>1
  <2> QED
    BY <1>1, <2>2, <2>3, <2>4, <2>5, <2>6, <2>7
<1>6. CASE ReturnToCaller
  <2> DEFINE m == n - 1  r == Returned(Top)
  <2>1. ~done /\ seen' = seen
    BY <1>6 DEF ReturnToCaller
  <2>2. /\ m \in Nat \ {0} /\ Len(stack') = m
        /\ \A i \in 1..(m - 1) : stack'[i] = stack[i]
        /\ stack'[m].path = stack[m].path /\ stack'[m].next = stack[m].next
        /\ stack'[m].out = stack[m].out \o r
    BY <1>6, ReturnFacts
  <2>3. r \in Seq(Item) /\ InOrder(r) /\ Inlined(r) \subseteq Inlined(Top.out) \cup ({Top.path} \ {Root})
    BY <2>1, ReturnedInOrder
  <2> HIDE DEF r, m
  <2>4. m \in 1..n /\ n \in 1..n /\ m # n /\ Top = stack[n]
    BY <1>3, <2>1, <2>2 DEF m
  <2>5. stack[m] \in Frame /\ stack[m].out \in Seq(Item) /\ BufferOK(stack[m], seen)
    <3>1. stack[m] \in Frame
      BY <2>4, ElementOfSeq DEF Shape, TypeOK
    <3> QED
      BY <1>1, <2>4, <3>1 DEF Frame
  <2>6. /\ Inlined(stack[m].out) \cap Inlined(Top.out) = {}
        /\ Top.path \notin Inlined(stack[m].out) /\ stack[m].path \notin Inlined(Top.out)
    BY <2>4 DEF Apart
  <2> DEFINE u == stack[m].out \o r
  <2>7. InOrder(u)
    BY <2>3, <2>5, <2>6, ConcatInOrder DEF BufferOK
  <2>8. Inlined(u) = Inlined(stack[m].out) \cup Inlined(r)
    BY <2>3, <2>5, ConcatInlined
  <2>9. Inlined(u) \subseteq seen
    <3>1. Top.path # Root => Top.path \in seen
      BY <2>1, <2>4, OneExpansion
    <3>2. Inlined(Top.out) \subseteq seen
      BY <1>3, <2>1 DEF BufferOK
    <3> QED
      BY <2>3, <2>5, <2>8, <3>1, <3>2 DEF BufferOK
  <2>10. ASSUME NEW k \in 1..Len(u), u[k].path = stack[m].path, stack[m].path # Root
         PROVE  u[k].line < stack[m].next
    <3>1. \/ k \in 1..Len(stack[m].out) /\ u[k] = stack[m].out[k]
          \/ k - Len(stack[m].out) \in 1..Len(r) /\ u[k] = r[k - Len(stack[m].out)]
      BY <2>3, <2>5, <2>10, ConcatAt
    <3>2. CASE k - Len(stack[m].out) \in 1..Len(r) /\ u[k] = r[k - Len(stack[m].out)]
      <4>1. stack[m].path \in Inlined(r)
        BY <2>10, <3>2 DEF Inlined
      <4>2. stack[m].path = Top.path
        BY <2>3, <2>6, <4>1
      <4> QED
        BY <2>1, <2>4, <2>10, <4>2, OneExpansion
    <3> QED
      BY <2>5, <2>10, <3>1, <3>2 DEF BufferOK
  <2>11. BufferOK(stack'[m], seen)
    BY <2>2, <2>7, <2>9, <2>10 DEF BufferOK
  <2>12. \A i \in 1..m : i \in 1..n /\ (i \in 1..(m - 1) \/ i = m)
    BY <2>2, <2>4
  <2> QED
    BY <1>1, <2>1, <2>2, <2>11, <2>12
<1>7. CASE ReturnToCompiler
  BY <1>7, EmptySeq DEF ReturnToCompiler
<1>8. CASE UNCHANGED vars
  BY <1>1, <1>8 DEF vars
<1> QED
  BY <1>4, <1>5, <1>6, <1>7, <1>8 DEF Next, Skip

LEMMA ApartStep == OrderInv /\ [Next]_vars => Apart'
<1> SUFFICES ASSUME OrderInv, [Next]_vars PROVE Apart'
  OBVIOUS
<1> USE DEF OrderInv
<1> DEFINE n == Len(stack)
           Own(p) == {p} \ {Root}
<1>1. \A i, j \in 1..n : i # j => /\ Inlined(stack[i].out) \cap Inlined(stack[j].out) = {}
                                  /\ stack[j].path \notin Inlined(stack[i].out)
  BY DEF Apart
<1>2. ASSUME ~done
      PROVE  n \in Nat \ {0} /\ n \in 1..n /\ Top \in Frame /\ Top = stack[n]
             /\ Top.out \in Seq(Item)
  BY <1>2, TopFacts DEF Top, Frame
<1>3. \A p : p \notin Inlined(<< >>)
  BY EmptySeq DEF Inlined
\* A call whose buffer gets lines of its own file only stays apart.
<1>4. ASSUME ~done, Len(stack') = n,
             \A i \in 1..n : /\ stack'[i].path = stack[i].path
                             /\ Inlined(stack'[i].out) \subseteq
                                  Inlined(stack[i].out) \cup Own(stack[i].path)
      PROVE  Apart'
  <2> SUFFICES ASSUME NEW i \in 1..n, NEW j \in 1..n, i # j
               PROVE  /\ Inlined(stack'[i].out) \cap Inlined(stack'[j].out) = {}
                      /\ stack'[j].path \notin Inlined(stack'[i].out)
    BY <1>4 DEF Apart
  <2>1. Own(stack[i].path) \cap Own(stack[j].path) = {} /\ stack[j].path \notin Own(stack[i].path)
    BY <1>4, OneExpansion
  <2>2. /\ Inlined(stack[i].out) \cap Inlined(stack[j].out) = {}
        /\ stack[j].path \notin Inlined(stack[i].out) /\ stack[i].path \notin Inlined(stack[j].out)
    BY <1>1
  <2>3. /\ Inlined(stack'[i].out) \subseteq Inlined(stack[i].out) \cup Own(stack[i].path)
        /\ Inlined(stack'[j].out) \subseteq Inlined(stack[j].out) \cup Own(stack[j].path)
        /\ stack'[j].path = stack[j].path
    BY <1>4
  <2> DEFINE a == Inlined(stack[i].out)  b == Inlined(stack[j].out)
             a2 == Inlined(stack'[i].out)  b2 == Inlined(stack'[j].out)
             p == stack[i].path  q == stack[j].path
  <2>4. /\ a2 \subseteq a \cup ({p} \ {Root}) /\ b2 \subseteq b \cup ({q} \ {Root}) /\ a \cap b = {}
        /\ q \notin a /\ p \notin b /\ q \notin {p} \ {Root} /\ stack'[j].path = q
    BY <2>1, <2>2, <2>3
  <2> HIDE DEF a, b, a2, b2, p, q
  <2>5. a2 \cap b2 = {} /\ q \notin a2
    BY <2>4
  <2> QED
    BY <2>4, <2>5 DEF a2, b2
<1>5. CASE CopyLine
  <2>1. ~done
    BY <1>5 DEF CopyLine, Scanning
  <2>2. /\ Copied \in Item /\ Len(stack') = n
        /\ \A i \in 1..(n - 1) : stack'[i] = stack[i]
        /\ stack'[n].path = Top.path
        /\ stack'[n].out = Top.out \o <<Copied>>
    BY <1>5, CopyFacts
  <2>3. <<Copied>> \in Seq(Item) /\ Inlined(<<Copied>>) = Own(Top.path)
    BY <2>2, OneLine DEF Copied
  <2>4. Inlined(stack'[n].out) = Inlined(Top.out) \cup Own(Top.path)
    BY <1>2, <2>1, <2>2, <2>3, ConcatInlined
  <2>5. \A i \in 1..n : i \in 1..(n - 1) \/ i = n
    BY <1>2, <2>1
  <2> QED
    BY <1>2, <1>4, <2>1, <2>2, <2>4, <2>5
<1>6. CASE Skip
  <2>1. ~done
    BY <1>6 DEF Skip, DropLine, SkipSeen, SkipUnreadable, Scanning
  <2>2. /\ Len(stack') = n /\ \A i \in 1..(n - 1) : stack'[i] = stack[i]
        /\ stack'[n].path = Top.path /\ stack'[n].out = Top.out
    BY <1>6, SkipFacts
  <2>3. \A i \in 1..n : i \in 1..(n - 1) \/ i = n
    BY <1>2, <2>1
  <2> QED
    BY <1>2, <1>4, <2>1, <2>2, <2>3
<1>7. CASE EnterFile
  <2> DEFINE p == ThisLine.path
  <2>1. ~done /\ p \notin seen
    BY <1>7 DEF EnterFile, Scanning, includeset_contains
  <2>2. /\ Len(stack') = n + 1 /\ \A i \in 1..(n - 1) : stack'[i] = stack[i]
        /\ stack'[n].path = Top.path /\ stack'[n].out = Top.out
        /\ stack'[n + 1].out = << >> /\ stack'[n + 1].path = p
    BY <1>7, EnterFacts DEF Call
  <2> HIDE DEF p
  <2>3. \A i \in 1..n : stack'[i].path = stack[i].path /\ stack'[i].out = stack[i].out
    <3>1. \A i \in 1..n : i \in 1..(n - 1) \/ i = n
      BY <1>2, <2>1
    <3> QED
      BY <1>2, <2>1, <2>2, <3>1
  <2>4. \A i \in 1..n : p \notin Inlined(stack[i].out)
    BY <2>1 DEF Buffers
  <2>5. \A i \in 1..(n + 1) : i \in 1..n \/ i = n + 1
    BY <1>2, <2>1
  <2>6. SUFFICES ASSUME NEW i \in 1..(n + 1), NEW j \in 1..(n + 1), i # j
                 PROVE  /\ Inlined(stack'[i].out) \cap Inlined(stack'[j].out) = {}
                        /\ stack'[j].path \notin Inlined(stack'[i].out)
    BY <2>2 DEF Apart
  <2>7. CASE i \in 1..n /\ j \in 1..n
    BY <1>1, <2>3, <2>6, <2>7
  <2>8. CASE i = n + 1
    BY <1>3, <2>2, <2>8
  <2>9. CASE i \in 1..n /\ j = n + 1
    BY <1>3, <2>2, <2>3, <2>4, <2>9
  <2> QED
    BY <2>5, <2>6, <2>7, <2>8, <2>9
<1>8. CASE ReturnToCaller
  <2> DEFINE m == n - 1  r == Returned(Top)
  <2>1. ~done /\ seen' = seen
    BY <1>8 DEF ReturnToCaller
  <2>2. /\ m \in Nat \ {0} /\ Len(stack') = m
        /\ \A i \in 1..(m - 1) : stack'[i] = stack[i]
        /\ stack'[m].path = stack[m].path
        /\ stack'[m].out = stack[m].out \o r
    BY <1>8, ReturnFacts
  <2>3. r \in Seq(Item) /\ Inlined(r) \subseteq Inlined(Top.out) \cup Own(Top.path)
    BY <2>1, ReturnedInOrder
  <2> HIDE DEF r, m
  <2>4. m \in 1..n /\ n \in 1..n /\ m # n /\ Top = stack[n] /\ \A i \in 1..m : i \in 1..n /\ i # n
    BY <1>2, <2>1, <2>2 DEF m
  <2>5. stack[m].out \in Seq(Item)
    <3>1. stack[m] \in Frame
      BY <2>4, ElementOfSeq DEF Shape, TypeOK
    <3> QED
      BY <3>1 DEF Frame
  <2>6. Inlined(stack'[m].out) = Inlined(stack[m].out) \cup Inlined(r)
    BY <2>2, <2>3, <2>5, ConcatInlined
  <2>7. \A i \in 1..m : i = m \/ stack'[i] = stack[i]
    BY <2>2
  <2>8. ASSUME NEW i \in 1..m, i # m
        PROVE  /\ Inlined(stack[i].out) \cap Inlined(stack'[m].out) = {}
               /\ stack[m].path \notin Inlined(stack[i].out)
               /\ stack[i].path \notin Inlined(stack'[m].out)
    <3>1. /\ Inlined(stack[i].out) \cap Inlined(stack[m].out) = {}
          /\ Inlined(stack[i].out) \cap Inlined(Top.out) = {}
          /\ Top.path \notin Inlined(stack[i].out) /\ stack[m].path \notin Inlined(stack[i].out)
          /\ stack[i].path \notin Inlined(stack[m].out) /\ stack[i].path \notin Inlined(Top.out)
      BY <1>1, <2>4, <2>8
    <3>2. stack[i].path \notin Own(Top.path)
      BY <2>1, <2>4, <2>8, OneExpansion
    <3> QED
      BY <2>3, <2>6, <3>1, <3>2
  <2>9. SUFFICES ASSUME NEW i \in 1..m, NEW j \in 1..m, i # j
                 PROVE  /\ Inlined(stack'[i].out) \cap Inlined(stack'[j].out) = {}
                        /\ stack'[j].path \notin Inlined(stack'[i].out)
    BY <2>2 DEF Apart
  <2>10. CASE i = m
    BY <2>2, <2>7, <2>8, <2>9, <2>10
  <2>11. CASE j = m
    BY <2>2, <2>7, <2>8, <2>9, <2>11
  <2>12. CASE i # m /\ j # m
    BY <1>1, <2>4, <2>7, <2>9, <2>12
  <2> QED
    BY <2>10, <2>11, <2>12
<1>9. CASE ReturnToCompiler
  BY <1>9, EmptySeq DEF ReturnToCompiler, Apart
<1>10. CASE UNCHANGED vars
  BY <1>1, <1>10 DEF vars, Apart
<1> QED
  BY <1>5, <1>6, <1>7, <1>8, <1>9, <1>10 DEF Next, Skip


LEMMA ResultStep == OrderInv /\ [Next]_vars => InlinedOnceInOrder'
<1> SUFFICES ASSUME OrderInv, [Next]_vars PROVE InOrder(result')
  BY DEF InlinedOnceInOrder, InOrder
<1>1. InOrder(result)
  BY DEF OrderInv, InlinedOnceInOrder, InOrder
<1>2. CASE ReturnToCompiler
  BY <1>2, ReturnedInOrder DEF ReturnToCompiler
<1>3. CASE ~ReturnToCompiler
  <2>1. result' = result
    BY <1>3 DEF Next, vars, CopyLine, DropLine, SkipSeen, SkipUnreadable, EnterFile, ReturnToCaller
  <2> QED
    BY <1>1, <2>1
<1> QED
  BY <1>2, <1>3

LEMMA OrderInit == Init => OrderInv
<1> SUFFICES ASSUME Init PROVE OrderInv
  OBVIOUS
<1>1. Len(stack) = 1 /\ stack[1] = Call(Root) /\ result = << >>
  BY DEF Init
<1>2. \A i \in 1..Len(stack) : i = 1 /\ stack[i].out = << >>
  BY <1>1 DEF Call
<1>3. CyclesCut /\ Apart
  BY <1>1, <1>2 DEF CyclesCut, Apart
<1>4. RootFirst
  BY <1>1 DEF RootFirst, Call
<1>5. Buffers /\ InlinedOnceInOrder
  BY <1>1, <1>2, EmptySeq DEF Buffers, InOrder, Inlined, InlinedOnceInOrder
<1> QED
  BY <1>3, <1>4, <1>5, ShapeInit DEF OrderInv

(***************************************************************************)
(* Whatever the files are and however they include each other, the lines   *)
(* of an included file are in the lexer's buffer in the order of the file, *)
(* none of them twice.                                                     *)
(***************************************************************************)
THEOREM LinesOnceInOrder == Spec => []InlinedOnceInOrder
<1>1. OrderInv /\ [Next]_vars => OrderInv'
  <2> SUFFICES ASSUME OrderInv, [Next]_vars PROVE OrderInv'
    OBVIOUS
  <2>1. Shape' /\ CyclesCut' /\ RootFirst'
    BY ShapeStep, CyclesCutStep, RootFirstStep DEF OrderInv
  <2> QED
    BY <2>1, BuffersStep, ApartStep, ResultStep DEF OrderInv
<1>2. OrderInv => InlinedOnceInOrder
  BY DEF OrderInv
<1> QED
  BY <1>1, <1>2, OrderInit, PTL DEF Spec

-----------------------------------------------------------------------------
(***************************************************************************)
(* Nothing is left out, because the readable files included by the lines a *)
(* call has scanned are marked, and so are those included by a marked file *)
(* that is not being expanded any more.                                    *)
(***************************************************************************)
IncludesMarked ==
  \A i \in 1..Len(stack) : \A l \in 1..Len(disk[stack[i].path]) :
    LET line == disk[stack[i].path][l]
    IN  l < stack[i].next /\ line.kind = "include" /\ Readable(line.path) => line.path \in seen

MarkedClosed ==
  \A p \in seen :
    \/ \E i \in 2..Len(stack) : stack[i].path = p
    \/ \A l \in 1..Len(disk[p]) :
         disk[p][l].kind = "include" /\ Readable(disk[p][l].path) => disk[p][l].path \in seen

\* The other half: only reachable files are marked, scanned and copied.
AllReachable(s) == \A k \in 1..Len(s) : s[k].path \in Reachable
OnlyReachable ==
  /\ seen \subseteq Reachable
  /\ \A i \in 1..Len(stack) : stack[i].path \in Reachable /\ AllReachable(stack[i].out)

CompleteInv ==
  Kept /\ RootFirst /\ IncludesMarked /\ MarkedClosed /\ OnlyReachable /\ Complete

\* The files the scanned lines of f include are in the set marked.
IncludesIn(f, marked) ==
  \A l \in 1..Len(disk[f.path]) :
    LET line == disk[f.path][l]
    IN  l < f.next /\ line.kind = "include" /\ Readable(line.path) => line.path \in marked

LEMMA IncludesMarkedStep == Shape /\ IncludesMarked /\ [Next]_vars => IncludesMarked'
<1> SUFFICES ASSUME Shape, IncludesMarked, [Next]_vars PROVE IncludesMarked'
  OBVIOUS
<1> DEFINE n == Len(stack)
<1>1. \A i \in 1..n : IncludesIn(stack[i], seen)
  BY DEF IncludesMarked, IncludesIn
<1>2. disk' = disk
  BY DEF Next, vars, CopyLine, DropLine, SkipSeen, SkipUnreadable, EnterFile,
         ReturnToCaller, ReturnToCompiler
<1>3. SUFFICES \A i \in 1..Len(stack') : IncludesIn(stack'[i], seen')
  BY <1>2 DEF IncludesMarked, IncludesIn, Readable
<1>4. ASSUME ~done
      PROVE  n \in Nat \ {0} /\ n \in 1..n /\ Top \in Frame /\ Top = stack[n]
             /\ IncludesIn(Top, seen) /\ Top.next \in Nat
  BY <1>1, <1>4, TopFacts DEF Top, Frame
<1>5. CASE CopyLine \/ Skip \/ EnterFile
  <2>1. /\ ~done /\ seen \subseteq seen'
        /\ ThisLine.kind = "include" /\ Readable(ThisLine.path) => ThisLine.path \in seen'
    BY <1>5 DEF CopyLine, Skip, DropLine, SkipSeen, SkipUnreadable, EnterFile, Scanning,
                includeset_contains, includeset_add
  <2>2. /\ \A i \in 1..(n - 1) : stack'[i] = stack[i]
        /\ stack'[n].path = Top.path /\ stack'[n].next = Top.next + 1
        /\ Len(stack') = n \/ (Len(stack') = n + 1 /\ stack'[n + 1].next = 1)
    BY <1>5, CopyFacts, SkipFacts, EnterFacts DEF Call
  <2>3. \A f : IncludesIn(f, seen) => IncludesIn(f, seen')
    BY <2>1 DEF IncludesIn
  <2>4. IncludesIn(stack'[n], seen')
    <3>1. SUFFICES ASSUME NEW l \in 1..Len(disk[Top.path]), l < Top.next + 1,
                          disk[Top.path][l].kind = "include", Readable(disk[Top.path][l].path)
                   PROVE  disk[Top.path][l].path \in seen'
      BY <2>2 DEF IncludesIn
    <3>2. CASE l < Top.next
      BY <1>4, <2>1, <3>1, <3>2 DEF IncludesIn
    <3>3. CASE l = Top.next
      BY <2>1, <3>1, <3>3 DEF ThisLine
    <3> QED
      BY <1>4, <2>1, <3>1, <3>2, <3>3
  <2>5. \A f : f.next = 1 => IncludesIn(f, seen')
    BY DEF IncludesIn
  <2>6. \A i \in 1..Len(stack') : i \in 1..(n - 1) \/ i = n \/ (i = n + 1 /\ Len(stack') = n + 1)
    BY <1>4, <2>1, <2>2
  <2>7. \A i \in 1..(n - 1) : i \in 1..n
    BY <1>4, <2>1
  <2> QED
    BY <1>1, <2>2, <2>3, <2>4, <2>5, <2>6, <2>7
<1>6. CASE ReturnToCaller
  <2> DEFINE m == n - 1
  <2>1. ~done /\ seen' = seen
    BY <1>6 DEF ReturnToCaller
  <2>2. /\ m \in Nat \ {0} /\ Len(stack') = m
        /\ \A i \in 1..(m - 1) : stack'[i] = stack[i]
        /\ stack'[m].path = stack[m].path /\ stack'[m].next = stack[m].next
    BY <1>6, ReturnFacts
  <2>3. \A i \in 1..m : i \in 1..n /\ (i \in 1..(m - 1) \/ i = m)
    BY <1>4, <2>1, <2>2
  <2> HIDE DEF m
  <2>4. \A i \in 1..m : stack'[i].path = stack[i].path /\ stack'[i].next = stack[i].next
    BY <2>2, <2>3
  <2> QED
    BY <1>1, <2>1, <2>2, <2>3, <2>4 DEF IncludesIn
<1>7. CASE ReturnToCompiler
  BY <1>7, EmptySeq DEF ReturnToCompiler
<1>8. CASE UNCHANGED vars
  BY <1>1, <1>8 DEF vars
<1> QED
  BY <1>5, <1>6, <1>7, <1>8 DEF Next, Skip

\* Every line of a finished call has been scanned.
LEMMA ScannedWhole ==
  ASSUME Shape, IncludesMarked, ~done, AtEnd
  PROVE  \A l \in 1..Len(disk[Top.path]) :
           disk[Top.path][l].kind = "include" /\ Readable(disk[Top.path][l].path)
             => disk[Top.path][l].path \in seen
<1>1. Len(stack) \in 1..Len(stack) /\ Top = stack[Len(stack)] /\ Top.next \in Nat
      /\ disk[Top.path] \in Seq(Line) \cup {Unreadable}
  BY TopFacts DEF Top, Frame
<1>2. Len(disk[Top.path]) \in Nat /\ Len(disk[Top.path]) < Top.next
  BY <1>1 DEF AtEnd, Unreadable
<1>3. \A l \in 1..Len(disk[Top.path]) : l < Top.next
  BY <1>1, <1>2
<1> QED
  BY <1>1, <1>3 DEF IncludesMarked

LEMMA MarkedClosedStep ==
  Shape /\ IncludesMarked /\ MarkedClosed /\ [Next]_vars => MarkedClosed'
<1> SUFFICES ASSUME Shape, IncludesMarked, MarkedClosed, [Next]_vars PROVE MarkedClosed'
  OBVIOUS
<1> DEFINE n == Len(stack)
           Expanding(p)  == \E i \in 2..n : stack[i].path = p
           Expanding2(p) == \E i \in 2..Len(stack') : stack'[i].path = p
           Closed(p, marked) ==
             \A l \in 1..Len(disk[p]) :
               disk[p][l].kind = "include" /\ Readable(disk[p][l].path) => disk[p][l].path \in marked
<1>1. \A p \in seen : Expanding(p) \/ Closed(p, seen)
  BY DEF MarkedClosed
<1>2. disk' = disk
  BY DEF Next, vars, CopyLine, DropLine, SkipSeen, SkipUnreadable, EnterFile,
         ReturnToCaller, ReturnToCompiler
<1>3. SUFFICES \A p \in seen' : Expanding2(p) \/ Closed(p, seen')
  BY <1>2 DEF MarkedClosed, Readable
<1>4. ASSUME ~done PROVE n \in Nat \ {0} /\ Top \in Frame /\ Top = stack[n]
  BY <1>4, TopFacts DEF Top
<1>5. \A p : seen \subseteq seen' /\ Closed(p, seen) => Closed(p, seen')
  OBVIOUS
<1> HIDE DEF Closed
<1>6. CASE CopyLine \/ Skip \/ EnterFile
  <2>1. ~done /\ seen \subseteq seen'
    BY <1>6 DEF CopyLine, Skip, DropLine, SkipSeen, SkipUnreadable, EnterFile, Scanning,
                includeset_add
  <2>2. /\ \A i \in 1..(n - 1) : stack'[i] = stack[i]
        /\ stack'[n].path = Top.path
        /\ Len(stack') = n \/ Len(stack') = n + 1
    BY <1>6, CopyFacts, SkipFacts, EnterFacts
  <2>3. \A i \in 2..n : i \in 2..Len(stack') /\ stack'[i].path = stack[i].path
    <3>1. \A i \in 2..n : i \in 2..Len(stack') /\ (i \in 1..(n - 1) \/ i = n)
      BY <1>4, <2>1, <2>2
    <3> QED
      BY <1>4, <2>1, <2>2, <3>1
  <2>4. \A p \in seen : Expanding2(p) \/ Closed(p, seen')
    BY <1>1, <1>5, <2>1, <2>3
  <2>5. CASE EnterFile
    <3>1. seen' = seen \cup {ThisLine.path} /\ Len(stack') = n + 1 /\ stack'[n + 1].path = ThisLine.path
      BY <2>5, EnterFacts DEF EnterFile, includeset_add, Call
    <3>2. n + 1 \in 2..Len(stack')
      BY <1>4, <2>1, <3>1
    <3> QED
      BY <2>4, <3>1, <3>2
  <2>6. CASE ~EnterFile
    <3>1. seen' = seen
      BY <1>6, <2>6 DEF CopyLine, Skip, DropLine, SkipSeen, SkipUnreadable
    <3> QED
      BY <2>4, <3>1
  <2> QED
    BY <2>5, <2>6
<1>7. CASE ReturnToCaller
  <2> DEFINE m == n - 1
  <2>1. ~done /\ AtEnd /\ seen' = seen
    BY <1>7 DEF ReturnToCaller
  <2>2. /\ m \in Nat \ {0} /\ Len(stack') = m
        /\ \A i \in 1..(m - 1) : stack'[i] = stack[i]
        /\ stack'[m].path = stack[m].path
    BY <1>7, ReturnFacts
  <2>3. Closed(Top.path, seen')
    BY <2>1, ScannedWhole DEF Closed
  <2>4. \A i \in 2..n : i = n \/ (i \in 2..m /\ (i \in 1..(m - 1) \/ i = m))
    BY <1>4, <2>1, <2>2
  <2> HIDE DEF m
  <2>5. \A i \in 2..n : i = n \/ (i \in 2..Len(stack') /\ stack'[i].path = stack[i].path)
    BY <2>2, <2>4
  <2> QED
    BY <1>1, <1>4, <2>1, <2>3, <2>5
<1>8. CASE ReturnToCompiler
  BY <1>8 DEF ReturnToCompiler
<1>9. CASE UNCHANGED vars
  BY <1>1, <1>9 DEF vars
<1> QED
  BY <1>6, <1>7, <1>8, <1>9 DEF Next, Skip

LEMMA DiskDomain ==
  ASSUME Shape, NEW p \in Paths
  PROVE  DOMAIN disk[p] = 1..Len(disk[p])
<1>1. disk[p] \in Seq(Line) \cup {Unreadable}
  BY DEF Shape, TypeOK
<1>2. CASE disk[p] = Unreadable
  BY <1>2 DEF Unreadable
<1> QED
  BY <1>1, <1>2

LEMMA ReachableGrows ==
  ASSUME Shape, NEW p \in Reachable, NEW l \in 1..Len(disk[p]),
         disk[p][l].kind = "include", Readable(disk[p][l].path), disk[p][l].path \in Paths
  PROVE  disk[p][l].path \in Reachable
<1>1. p \in Paths /\ l \in DOMAIN disk[p]
  BY DiskDomain DEF Reachable
<1>2. ASSUME NEW S \in SUBSET Paths, Root \in S, ClosedUnderInclusion(S)
      PROVE  disk[p][l].path \in S
  <2>1. p \in S
    BY <1>2 DEF Reachable
  <2> QED
    BY <1>1, <1>2, <2>1 DEF ClosedUnderInclusion
<1> QED
  BY <1>2 DEF Reachable

LEMMA ReturnedReachable ==
  ASSUME Shape, OnlyReachable, ~done
  PROVE  Returned(Top) \in Seq(Item) /\ AllReachable(Returned(Top))
<1>1. Top \in Frame /\ Len(stack) \in 1..Len(stack) /\ Top = stack[Len(stack)]
  BY TopFacts DEF Top
<1>2. Top.path \in Reachable /\ AllReachable(Top.out) /\ Top.path \in Paths
  BY <1>1 DEF OnlyReachable, Frame
<1>3. Len(disk[Top.path]) \in Nat
  BY <1>1, TopFacts DEF Unreadable
<1>4. AllReachable(RawCopy(Top.path))
  BY <1>2, <1>3 DEF AllReachable, RawCopy
<1> QED
  BY <1>1, <1>2, <1>4, ReturnedFacts DEF Returned

LEMMA ConcatReachable ==
  ASSUME NEW s \in Seq(Item), NEW t \in Seq(Item), AllReachable(s), AllReachable(t)
  PROVE  AllReachable(s \o t)
<1> SUFFICES ASSUME NEW k \in 1..Len(s \o t) PROVE (s \o t)[k].path \in Reachable
  BY DEF AllReachable
<1>1. \/ k \in 1..Len(s) /\ (s \o t)[k] = s[k]
      \/ k - Len(s) \in 1..Len(t) /\ (s \o t)[k] = t[k - Len(s)]
  BY ConcatAt
<1> QED
  BY <1>1 DEF AllReachable

LEMMA SameReachable ==
  ASSUME [Next]_vars
  PROVE  Reachable' = Reachable
<1>1. disk' = disk
  BY DEF Next, vars, CopyLine, DropLine, SkipSeen, SkipUnreadable, EnterFile,
         ReturnToCaller, ReturnToCompiler
<1> QED
  BY <1>1 DEF Reachable, ClosedUnderInclusion, Readable

LEMMA OnlyReachableStep == Shape /\ OnlyReachable /\ [Next]_vars => OnlyReachable'
<1> SUFFICES ASSUME Shape, OnlyReachable, [Next]_vars PROVE OnlyReachable'
  OBVIOUS
<1> DEFINE n == Len(stack)
           Good(f) == f.path \in Reachable /\ AllReachable(f.out)
<1>1. \A i \in 1..n : Good(stack[i])
  BY DEF OnlyReachable
<1>2. SUFFICES seen' \subseteq Reachable /\ \A i \in 1..Len(stack') : Good(stack'[i])
  BY SameReachable DEF OnlyReachable, AllReachable
<1>3. ASSUME ~done
      PROVE  n \in Nat \ {0} /\ n \in 1..n /\ Top \in Frame /\ Top = stack[n] /\ Good(Top)
             /\ Top.out \in Seq(Item)
  BY <1>1, <1>3, TopFacts DEF Top, Frame
<1>4. seen \subseteq Reachable
  BY DEF OnlyReachable
<1>5. ASSUME NEW f, f.path \in Reachable, f.out = << >> PROVE Good(f)
  BY <1>5, EmptySeq DEF AllReachable
<1> HIDE DEF Good
<1>6. CASE CopyLine
  <2>1. ~done /\ seen' = seen
    BY <1>6 DEF CopyLine, Scanning
  <2>2. /\ Copied \in Item /\ Len(stack') = n
        /\ \A i \in 1..(n - 1) : stack'[i] = stack[i]
        /\ stack'[n].path = Top.path
        /\ stack'[n].out = Top.out \o <<Copied>>
    BY <1>6, CopyFacts
  <2>3. <<Copied>> \in Seq(Item) /\ AllReachable(<<Copied>>)
    <3> DEFINE t == <<Copied>>
    <3>1. t \in Seq(Item) /\ Len(t) = 1 /\ t[1] = Copied
      BY <2>2
    <3>2. Copied.path \in Reachable
      BY <1>3, <2>1 DEF Good, Copied
    <3> HIDE DEF t
    <3>3. AllReachable(t)
      BY <3>1, <3>2 DEF AllReachable
    <3> QED
      BY <3>1, <3>3 DEF t
  <2>4. Good(stack'[n])
    BY <1>3, <2>1, <2>2, <2>3, ConcatReachable DEF Good
  <2>5. \A i \in 1..n : i \in 1..(n - 1) \/ i = n
    BY <1>3, <2>1
  <2> QED
    BY <1>1, <1>4, <2>1, <2>2, <2>4, <2>5
<1>7. CASE Skip
  <2>1. ~done /\ seen' = seen
    BY <1>7 DEF Skip, DropLine, SkipSeen, SkipUnreadable, Scanning
  <2>2. /\ Len(stack') = n /\ \A i \in 1..(n - 1) : stack'[i] = stack[i]
        /\ stack'[n].path = Top.path /\ stack'[n].out = Top.out
    BY <1>7, SkipFacts
  <2>3. Good(stack'[n])
    BY <1>3, <2>1, <2>2 DEF Good
  <2>5. \A i \in 1..n : i \in 1..(n - 1) \/ i = n
    BY <1>3, <2>1
  <2> QED
    BY <1>1, <1>4, <2>1, <2>2, <2>3, <2>5
<1>8. CASE EnterFile
  <2> DEFINE p == ThisLine.path
  <2>1. ~done /\ seen' = seen \cup {p} /\ ~AtEnd /\ ThisLine.kind = "include" /\ Readable(p)
    BY <1>8 DEF EnterFile, Scanning, includeset_add
  <2>2. /\ Len(stack') = n + 1 /\ \A i \in 1..(n - 1) : stack'[i] = stack[i]
        /\ stack'[n].path = Top.path /\ stack'[n].out = Top.out
        /\ stack'[n + 1].out = << >> /\ stack'[n + 1].path = p /\ p \in Paths
    BY <1>8, EnterFacts DEF Call
  <2>3. p \in Reachable
    <3>1. Top.next \in 1..Len(disk[Top.path])
      <4>1. Top.next \in Nat \ {0} /\ Len(disk[Top.path]) \in Nat
        BY <1>3, <2>1, TopFacts DEF Frame, Unreadable
      <4> QED
        BY <2>1, <4>1 DEF AtEnd
    <3> QED
      BY <1>3, <2>1, <2>2, <3>1, ReachableGrows DEF Good, ThisLine
  <2>4. Good(stack'[n]) /\ Good(stack'[n + 1])
    BY <1>3, <1>5, <2>1, <2>2, <2>3 DEF Good
  <2>5. \A i \in 1..(n + 1) : i \in 1..(n - 1) \/ i = n \/ i = n + 1
    BY <1>3, <2>1
  <2>6. \A i \in 1..(n - 1) : i \in 1..n
    BY <1>3, <2>1
  <2> QED
    BY <1>1, <1>4, <2>1, <2>2, <2>3, <2>4, <2>5, <2>6
<1>9. CASE ReturnToCaller
  <2> DEFINE m == n - 1  r == Returned(Top)
  <2>1. ~done /\ seen' = seen
    BY <1>9 DEF ReturnToCaller
  <2>2. /\ m \in Nat \ {0} /\ Len(stack') = m
        /\ \A i \in 1..(m - 1) : stack'[i] = stack[i]
        /\ stack'[m].path = stack[m].path /\ stack'[m].out = stack[m].out \o r
    BY <1>9, ReturnFacts
  <2>3. r \in Seq(Item) /\ AllReachable(r)
    BY <2>1, ReturnedReachable
  <2>4. \A i \in 1..m : i \in 1..n /\ (i \in 1..(m - 1) \/ i = m)
    BY <1>3, <2>1, <2>2
  <2>5. m \in 1..m
    BY <2>2
  <2> HIDE DEF r, m
  <2>6. stack[m] \in Frame /\ stack[m].out \in Seq(Item)
    <3>1. stack[m] \in Frame
      BY <2>4, <2>5, ElementOfSeq DEF Shape, TypeOK
    <3> QED
      BY <3>1 DEF Frame
  <2>7. Good(stack'[m])
    BY <1>1, <2>2, <2>3, <2>4, <2>5, <2>6, ConcatReachable DEF Good
  <2> QED
    BY <1>1, <1>4, <2>1, <2>2, <2>4, <2>7
<1>10. CASE ReturnToCompiler
  BY <1>10, EmptySeq DEF ReturnToCompiler
<1>11. CASE UNCHANGED vars
  BY <1>1, <1>4, <1>11 DEF vars
<1> QED
  BY <1>6, <1>7, <1>8, <1>9, <1>10, <1>11 DEF Next, Skip

\* What is marked when the outermost call is at its end is all there is.
LEMMA AllMarked ==
  ASSUME CompleteInv, ReturnToCompiler
  PROVE  /\ Top.path = Root /\ Reachable \subseteq {Root} \cup seen
         /\ \A p \in seen : ~\E i \in 2..Len(stack) : stack[i].path = p
<1> USE DEF CompleteInv, Kept
<1>1. ~done /\ AtEnd /\ Len(stack) = 1
  BY DEF ReturnToCompiler
<1>2. Top = stack[1] /\ Top.path = Root
  BY <1>1 DEF Top, RootFirst
<1>3. \A p \in seen : ~\E i \in 2..Len(stack) : stack[i].path = p
  BY <1>1
<1>4. {Root} \cup seen \in SUBSET Paths
  BY IncludeAssumption DEF Shape, TypeOK
<1>5. ClosedUnderInclusion({Root} \cup seen)
  <2> SUFFICES ASSUME NEW p \in {Root} \cup seen, NEW l \in DOMAIN disk[p],
                      disk[p][l].kind = "include", Readable(disk[p][l].path)
               PROVE  disk[p][l].path \in {Root} \cup seen
    BY DEF ClosedUnderInclusion
  <2>1. l \in 1..Len(disk[p])
    BY <1>4, DiskDomain
  <2>2. CASE p = Root
    BY <1>1, <1>2, <2>1, <2>2, ScannedWhole
  <2>3. CASE p \in seen
    BY <1>3, <2>1, <2>3 DEF MarkedClosed
  <2> QED
    BY <2>2, <2>3
<1> QED
  BY <1>2, <1>3, <1>4, <1>5 DEF Reachable

LEMMA CompleteStep == CompleteInv /\ [Next]_vars => Complete'
<1> SUFFICES ASSUME CompleteInv, [Next]_vars PROVE Complete'
  OBVIOUS
<1> USE DEF CompleteInv
<1>1. disk' = disk /\ Reachable' = Reachable
  BY SameReachable DEF Next, vars, CopyLine, DropLine, SkipSeen, SkipUnreadable, EnterFile,
         ReturnToCaller, ReturnToCompiler
<1>2. CASE ReturnToCompiler
  <2>1. ~done /\ AtEnd /\ result' = Returned(Top) /\ Len(stack) = 1 /\ Top = stack[1]
    BY <1>2 DEF ReturnToCompiler, Top
  <2>2. ASSUME NEW p \in Reachable, NEW l \in DOMAIN disk[p], disk[p][l].kind = "text"
        PROVE  CopiedTo(p, l, result')
    <3>1. p \in Paths /\ l \in 1..Len(disk[p])
      BY <2>2, DiskDomain DEF Reachable, Kept
    <3>2. CASE p = Root
      BY <1>2, <2>1, <2>2, <3>1, <3>2, AllMarked, ReturnedHolds DEF AllCopied
    <3>3. CASE p \in seen
      <4>1. \E i \in 1..Len(stack) : CopiedTo(p, l, stack[i].out)
        BY <1>2, <2>2, <3>1, <3>3, AllMarked DEF Kept, MarkedNotLost
      <4>2. CopiedTo(p, l, Top.out)
        BY <2>1, <4>1
      <4> QED
        BY <2>1, <4>2, ReturnedHolds
    <3> QED
      BY <1>2, <3>2, <3>3, AllMarked
  <2>3. result' \in Seq(Item) /\ AllReachable(result')
    BY <2>1, ReturnedReachable DEF Kept
  <2>4. \A k \in DOMAIN result' : result'[k].path \in Reachable
    BY <2>3 DEF AllReachable
  <2>5. ASSUME NEW p, NEW l, CopiedTo(p, l, result')
        PROVE  CopiedTo(p, l, result)'
    BY <2>5 DEF CopiedTo
  <2> QED
    BY <1>1, <2>2, <2>4, <2>5 DEF Complete
<1>3. CASE ~ReturnToCompiler
  <2>1. UNCHANGED <<done, result>>
    BY <1>3 DEF Next, vars, CopyLine, DropLine, SkipSeen, SkipUnreadable, EnterFile, ReturnToCaller
  <2> QED
    BY <1>1, <2>1 DEF Complete, CopiedTo
<1> QED
  BY <1>2, <1>3

LEMMA CompleteInit == Init => CompleteInv
<1> SUFFICES ASSUME Init PROVE CompleteInv
  OBVIOUS
<1>1. Len(stack) = 1 /\ stack[1] = Call(Root) /\ seen = {} /\ done = FALSE
  BY DEF Init
<1>2. \A i \in 1..Len(stack) : stack[i].next = 1 /\ stack[i].path = Root /\ stack[i].out = << >>
  BY <1>1 DEF Call
<1>3. RootFirst
  BY <1>1, <1>2 DEF RootFirst
<1>4. IncludesMarked
  BY <1>2 DEF IncludesMarked
<1>5. MarkedClosed /\ Complete
  BY <1>1 DEF MarkedClosed, Complete
<1>6. Root \in Reachable
  BY IncludeAssumption DEF Reachable
<1>7. OnlyReachable
  BY <1>1, <1>2, <1>6, EmptySeq DEF OnlyReachable, AllReachable
<1> QED
  BY <1>3, <1>4, <1>5, <1>7, KeptInit DEF CompleteInv

(***************************************************************************)
(* Whatever the files are and however they include each other, the lexer's *)
(* buffer has every ordinary line of every file reachable from the root,   *)
(* and lines of no other file.                                             *)
(***************************************************************************)
THEOREM NothingLeftOut == Spec => []Complete
<1>1. CompleteInv /\ [Next]_vars => CompleteInv'
  <2> SUFFICES ASSUME CompleteInv, [Next]_vars PROVE CompleteInv'
    OBVIOUS
  <2>1. Kept' /\ RootFirst'
    BY KeptStep, RootFirstStep DEF CompleteInv, Kept
  <2>2. IncludesMarked' /\ MarkedClosed' /\ OnlyReachable'
    BY IncludesMarkedStep, MarkedClosedStep, OnlyReachableStep DEF CompleteInv, Kept
  <2> QED
    BY <2>1, <2>2, CompleteStep DEF CompleteInv
<1>2. CompleteInv => Complete
  BY DEF CompleteInv
<1> QED
  BY <1>1, <1>2, CompleteInit, PTL DEF Spec

-----------------------------------------------------------------------------
(***************************************************************************)
(* Verbatim.  Gathers says that s is the first k lines of ss joined; what  *)
(* FlattenSeq computes is all of them joined.                              *)
(***************************************************************************)
Gathers(ss, k, s) ==
  \E g \in [0..k -> Seq(Item)] :
    g[0] = << >> /\ g[k] = s /\ \A i \in 1..k : g[i] = g[i - 1] \o ss[i]

Texts == Seq(Item)
LEMMA GathersNothing ==
  ASSUME NEW ss
  PROVE  Gathers(ss, 0, << >>)
<1> DEFINE g == [i \in 0..0 |-> << >>]
<1>1. g \in [0..0 -> Seq(Item)] /\ g[0] = << >> /\ 1..0 = {}
  BY EmptySeq
<1> HIDE DEF g
<1> QED
  BY <1>1 DEF Gathers

LEMMA GathersMore ==
  ASSUME NEW ss, NEW k \in Nat, NEW s, NEW m, m = k + 1,
         Gathers(ss, k, s), ss[m] \in Seq(Item)
  PROVE  s \in Seq(Item) /\ Gathers(ss, m, s \o ss[m])
<1>1. PICK g \in [0..k -> Seq(Item)] :
        g[0] = << >> /\ g[k] = s /\ \A i \in 1..k : g[i] = g[i - 1] \o ss[i]
  BY DEF Gathers
<1>2. k \in 0..k /\ s \in Seq(Item)
  BY <1>1
<1>3. PICK t : t = s \o ss[m]
  OBVIOUS
<1>4. t \in Seq(Item)
  BY <1>2, <1>3, ConcatProperties
<1> DEFINE f == [i \in 0..m |-> IF i = m THEN t ELSE g[i]]
<1>5. f \in [0..m -> Seq(Item)] /\ f[0] = << >> /\ f[m] = t
  BY <1>1, <1>4
<1>6. \A i \in 1..m : f[i] = f[i - 1] \o ss[i]
  <2> TAKE i \in 1..m
  <2>1. CASE i = m
    <3>1. f[i] = t /\ f[i - 1] = s
      BY <1>1, <2>1
    <3> HIDE DEF f
    <3> QED BY <1>3, <2>1, <3>1
  <2>2. CASE i # m
    <3>1. i \in 1..k /\ f[i] = g[i] /\ f[i - 1] = g[i - 1]
      BY <2>2
    <3> HIDE DEF f
    <3> QED BY <1>1, <3>1
  <2> QED BY <2>1, <2>2
<1> HIDE DEF f
<1>7. Gathers(ss, m, t)
  BY <1>5, <1>6 DEF Gathers
<1> QED
  BY <1>2, <1>3, <1>7

LEMMA GathersAll ==
  ASSUME NEW ss \in Seq(Seq(Item))
  PROVE  \E s \in Seq(Item) : Gathers(ss, Len(ss), s)
<1> DEFINE n == Len(ss)
           F == [x \in Texts \X (1..n) |-> x[1] \o ss[x[2]]]
<1>1. n \in Nat /\ \A i \in 1..n : ss[i] \in Seq(Item)
  BY ElementOfSeq
<1>2. F \in [Texts \X (1..n) -> Texts]
  BY <1>1, ConcatProperties DEF Texts
<1>3. PICK g \in [0..n -> Texts] : g[0] = << >> /\ \A i \in 1..n : g[i] = F[<<g[i - 1], i>>]
  <2>1. << >> \in Texts
    BY EmptySeq DEF Texts
  <2> HIDE DEF n, F
  <2>2. IsStep(Texts, n, F)
    BY <1>2 DEF IsStep
  <2>3. HasRun(Texts, n, << >>, F)
    BY <1>1, <2>1, <2>2, Run
  <2> QED BY <2>3 DEF HasRun
<1>4. ASSUME NEW i \in 1..n PROVE g[i] = g[i - 1] \o ss[i]
  <2>1. i - 1 \in 0..n
    BY <1>1
  <2>2. g[i - 1] \in Texts
    BY <2>1
  <2>3. F[<<g[i - 1], i>>] = g[i - 1] \o ss[i]
    BY <2>2
  <2> HIDE DEF F
  <2> QED BY <1>3, <2>3
<1>5. g \in [0..n -> Seq(Item)] /\ g[n] \in Seq(Item)
  BY <1>1 DEF Texts
<1> QED
  BY <1>3, <1>4, <1>5 DEF Gathers

LEMMA EmptyFirst == \A x \in Seq(Item) : << >> \o x = x /\ x \o << >> = x
BY ConcatEmptySeq

LEMMA GathersFlattens ==
  ASSUME NEW ss \in Seq(Seq(Item)), NEW s, Gathers(ss, Len(ss), s)
  PROVE  FlattenSeq(ss) = s /\ s \in Seq(Item)
<1> DEFINE n == Len(ss)
           Is(f) == f = [i \in 1..n |-> IF i = 1 THEN ss[i] ELSE f[i - 1] \o ss[i]]
<1>1. PICK g \in [0..n -> Seq(Item)] :
        g[0] = << >> /\ g[n] = s /\ \A i \in 1..n : g[i] = g[i - 1] \o ss[i]
  BY DEF Gathers
<1>2. n \in Nat /\ n \in 0..n /\ s \in Seq(Item)
  BY <1>1, LenProperties
<1>3. CASE n = 0
  <2>1. ss = << >> /\ s = << >>
    BY <1>1, <1>3, EmptySeq
  <2> QED BY <1>2, <1>3, <2>1 DEF FlattenSeq
<1>4. CASE n # 0
  <2>1. ASSUME NEW i \in 1..n PROVE g[i] = IF i = 1 THEN ss[i] ELSE g[i - 1] \o ss[i]
    <3>0. g[i] = g[i - 1] \o ss[i]
      BY <1>1
    <3>1. CASE i = 1
      <4>1. i - 1 = 0
        BY <3>1
      <4>2. ss[i] \in Seq(Item)
        BY ElementOfSeq
      <4>3. g[i - 1] = << >>
        BY <1>1, <4>1
      <4> QED BY <3>0, <3>1, <4>2, <4>3, EmptyFirst
    <3> QED BY <3>0, <3>1
  <2> DEFINE h == [i \in 1..n |-> g[i]]
  <2>2. Is(h)
    <3>1. \A i \in 1..n : h[i] = IF i = 1 THEN ss[i] ELSE h[i - 1] \o ss[i]
      <4> TAKE i \in 1..n
      <4>1. h[i] = g[i] /\ (i # 1 => h[i - 1] = g[i - 1])
        BY <1>2
      <4> HIDE DEF h
      <4> QED BY <2>1, <4>1
    <3> QED BY <3>1
  <2>3. FlattenSeq(ss) = (CHOOSE f : Is(f))[n]
    BY <1>4 DEF FlattenSeq
  <2>4. PICK f : f = (CHOOSE e : Is(e)) /\ Is(f)
    <3> HIDE DEF Is
    <3> QED BY <2>2
  <2>5. \A i \in 1..n : f[i] = IF i = 1 THEN ss[i] ELSE f[i - 1] \o ss[i]
    BY <2>4
  <2> DEFINE P == {i \in Nat : i \in 1..n => f[i] = g[i]}
  <2>6. 0 \in P
    OBVIOUS
  <2>7. ASSUME NEW i \in Nat, i \in P PROVE i + 1 \in P
    <3> SUFFICES ASSUME i + 1 \in 1..n PROVE f[i + 1] = g[i + 1]
      OBVIOUS
    <3>1. PICK j : j = i + 1
      OBVIOUS
    <3>2. j - 1 = i /\ j \in 1..n
      BY <3>1
    <3>3. CASE j = 1
      BY <2>1, <2>5, <3>1, <3>2, <3>3
    <3>4. CASE j # 1
      <4>1. f[i] = g[i]
        BY <2>7, <3>1, <3>2, <3>4
      <4> QED BY <2>1, <2>5, <3>1, <3>2, <3>4, <4>1
    <3> QED BY <3>3, <3>4
  <2> HIDE DEF P
  <2>8. \A i \in Nat : i \in P
    BY <2>6, <2>7, SetInduct
  <2>9. f[n] = g[n]
    <3>1. n \in Nat /\ n \in 1..n
      BY <1>2, <1>4
    <3> HIDE DEF n
    <3> QED BY <2>8, <3>1 DEF P
  <2> HIDE DEF n, Is
  <2> QED BY <1>1, <1>2, <2>3, <2>4, <2>9
<1> QED
  BY <1>3, <1>4

(***************************************************************************)
(* The texts of the files, by the depth of the inclusions in them.         *)
(***************************************************************************)
FileSystems == [Paths -> Seq(Line) \cup {Unreadable}]
Meanings == [Paths -> Texts]

Levels(d, T) ==
  /\ T \in [0..MaxDepth -> Meanings]
  /\ \A n \in 1..MaxDepth : \A p \in Paths : T[n][p] = FlattenSeq(LineTexts(d, p, T[n - 1]))
  /\ \A p \in Paths : Substitution(d, p) = T[MaxDepth][p]

LEMMA FileLines ==
  ASSUME NEW d \in FileSystems, NEW p \in Paths
  PROVE  /\ DOMAIN d[p] = 1..Len(d[p]) /\ Len(d[p]) \in Nat
         /\ \A i \in DOMAIN d[p] : d[p][i].kind = "include" => d[p][i].path \in Paths
<1>1. d[p] \in Seq(Line) \cup {Unreadable}
  BY DEF FileSystems
<1>2. CASE d[p] = Unreadable
  BY <1>2 DEF Unreadable
<1>3. CASE d[p] \in Seq(Line)
  <2>1. \A i \in 1..Len(d[p]) : d[p][i] \in Line
    BY <1>3, ElementOfSeq
  <2>2. \A x \in Line : x.kind = "include" => x.path \in Paths
    BY DEF Line, TextLine, BadLine, Include
  <2> QED BY <1>3, <2>1, <2>2, LenProperties
<1> QED BY <1>1, <1>2, <1>3

LEMMA LineTextsFacts ==
  ASSUME NEW d \in FileSystems, NEW p \in Paths, NEW sub \in Meanings
  PROVE  /\ LineTexts(d, p, sub) \in Seq(Seq(Item))
         /\ Len(LineTexts(d, p, sub)) = Len(d[p])
<1> DEFINE t == LineTexts(d, p, sub)
<1>1. DOMAIN d[p] = 1..Len(d[p]) /\ Len(d[p]) \in Nat
  BY FileLines
<1>2. DOMAIN t = 1..Len(d[p]) /\ t = [i \in 1..Len(d[p]) |-> t[i]]
  BY <1>1 DEF LineTexts
<1>3. ASSUME NEW i \in 1..Len(d[p]) PROVE t[i] \in Seq(Item)
  <2>1. CASE d[p][i].kind = "text"
    <3> DEFINE x == [path |-> p, line |-> i, raw |-> FALSE]
    <3>1. x \in Item
      BY <1>1 DEF Item
    <3>2. t[i] = <<x>>
      BY <1>1, <2>1 DEF LineTexts
    <3> HIDE DEF x
    <3> QED BY <3>1, <3>2
  <2>2. CASE d[p][i].kind = "include"
    <3>1. t[i] = sub[d[p][i].path]
      BY <1>1, <2>2 DEF LineTexts
    <3>2. d[p][i].path \in Paths
      BY <1>1, <2>2, FileLines
    <3> QED BY <3>1, <3>2 DEF Meanings, Texts
  <2>3. CASE d[p][i].kind \notin {"text", "include"}
    <3>1. t[i] = << >>
      BY <1>1, <2>3 DEF LineTexts
    <3> QED BY <3>1, EmptySeq
  <2> QED BY <2>1, <2>2, <2>3
<1> HIDE DEF t
<1>4. t \in [1..Len(d[p]) -> Seq(Item)]
  BY <1>2, <1>3
<1>5. t \in Seq(Seq(Item)) /\ Len(t) = Len(d[p])
  BY <1>1, <1>4
<1> QED BY <1>5 DEF t

\* What is gathered from all lines is the text.
LEMMA WholeText ==
  ASSUME NEW d \in FileSystems, NEW p \in Paths, NEW sub \in Meanings, NEW s,
         Gathers(LineTexts(d, p, sub), Len(d[p]), s)
  PROVE  FlattenSeq(LineTexts(d, p, sub)) = s /\ s \in Seq(Item)
BY LineTextsFacts, GathersFlattens

LEMMA Flattened ==
  ASSUME NEW d \in FileSystems, NEW p \in Paths, NEW sub \in Meanings
  PROVE  FlattenSeq(LineTexts(d, p, sub)) \in Texts
<1> PICK t : t = LineTexts(d, p, sub)
  OBVIOUS
<1>1. t \in Seq(Seq(Item))
  BY LineTextsFacts
<1>2. PICK s \in Seq(Item) : Gathers(t, Len(t), s)
  BY <1>1, GathersAll
<1> QED BY <1>1, <1>2, GathersFlattens DEF Texts

LEMMA LevelsExist ==
  ASSUME NEW d \in FileSystems
  PROVE  \E T : Levels(d, T)
<1> PICK n : n = MaxDepth
  OBVIOUS
<1>1. n \in Nat \ {0}
  BY IncludeAssumption, FS_CardinalityType DEF MaxDepth
<1> DEFINE Nothing == [q \in Paths |-> << >>]
           Deeper(sub) == [q \in Paths |-> FlattenSeq(LineTexts(d, q, sub))]
           F == [x \in Meanings \X (1..n) |-> Deeper(x[1])]
           Is(f) == f = [k \in 0..n |-> IF k = 0 THEN Nothing ELSE Deeper(f[k - 1])]
<1>2. \A sub \in Meanings : Deeper(sub) \in Meanings
  BY Flattened DEF Meanings
<1>3. Nothing \in Meanings
  BY EmptySeq DEF Meanings, Texts
<1> HIDE DEF Nothing, Deeper
<1>4. F \in [Meanings \X (1..n) -> Meanings]
  BY <1>2
<1>5. PICK g \in [0..n -> Meanings] : g[0] = Nothing /\ \A k \in 1..n : g[k] = F[<<g[k - 1], k>>]
  <2>1. n \in Nat
    BY <1>1
  <2> HIDE DEF F
  <2>2. IsStep(Meanings, n, F)
    BY <1>4 DEF IsStep
  <2>3. HasRun(Meanings, n, Nothing, F)
    BY <1>3, <2>1, <2>2, Run
  <2> QED BY <2>3 DEF HasRun
<1>6. ASSUME NEW k \in 1..n PROVE g[k] = Deeper(g[k - 1])
  <2>1. k - 1 \in 0..n
    BY <1>1
  <2>2. g[k - 1] \in Meanings
    BY <2>1
  <2>3. F[<<g[k - 1], k>>] = Deeper(g[k - 1])
    BY <2>2
  <2> HIDE DEF F
  <2> QED BY <1>5, <2>3
<1>7. Is(g)
  <2>1. \A k \in 0..n : g[k] = IF k = 0 THEN Nothing ELSE Deeper(g[k - 1])
    <3> TAKE k \in 0..n
    <3>1. k = 0 \/ k \in 1..n
      BY <1>1
    <3> QED BY <1>5, <1>6, <3>1
  <2>2. g = [k \in 0..n |-> g[k]]
    BY <1>5
  <2> QED BY <2>1, <2>2
<1>8. \A p : Substitution(d, p) = (CHOOSE f : Is(f))[n][p]
  BY DEF Substitution, Nothing, Deeper
<1>9. PICK f : f = (CHOOSE e : Is(e)) /\ Is(f)
  <2> HIDE DEF Is
  <2> QED BY <1>7
<1>10. \A k \in 0..n : f[k] = IF k = 0 THEN Nothing ELSE Deeper(f[k - 1])
  BY <1>9
<1> DEFINE P == {k \in Nat : k \in 0..n => f[k] = g[k]}
<1>11. 0 \in P
  BY <1>1, <1>5, <1>10
<1>12. ASSUME NEW k \in Nat, k \in P PROVE k + 1 \in P
  <2> SUFFICES ASSUME k + 1 \in 0..n PROVE f[k + 1] = g[k + 1]
    OBVIOUS
  <2> PICK j : j = k + 1
    OBVIOUS
  <2>1. j \in 1..n /\ j \in 0..n /\ j # 0 /\ j - 1 = k /\ f[k] = g[k]
    BY <1>1, <1>12
  <2> HIDE DEF Is
  <2> QED BY <1>6, <1>10, <2>1
<1> HIDE DEF P, Is
<1>13. \A k \in Nat : k \in P
  BY <1>11, <1>12, SetInduct
<1>14. n \in 0..n /\ f[n] = g[n]
  BY <1>1, <1>13 DEF P
<1>15. \A p \in Paths : Substitution(d, p) = g[n][p]
  BY <1>8, <1>9, <1>14
<1>16. ASSUME NEW k \in 1..n, NEW p \in Paths
       PROVE  g[k][p] = FlattenSeq(LineTexts(d, p, g[k - 1]))
  BY <1>6 DEF Deeper
<1> QED BY <1>5, <1>15, <1>16 DEF Levels

(***************************************************************************)
(* Call f, where the files it includes have the texts sub, has copied the  *)
(* text of its first k lines; and f waits for the expansion of p.          *)
(***************************************************************************)
Follows(d, f, sub, k) ==
  /\ d[f.path] \in Seq(Line)
  /\ k \in 0..Len(d[f.path])
  /\ Gathers(LineTexts(d, f.path, sub), k, f.out)
  /\ \A i \in 1..k : d[f.path][i] # BadLine => f.touched

Waits(d, f, p) ==
  f.next - 1 \in 1..Len(d[f.path]) /\ d[f.path][f.next - 1] = Include(p)

Substitutes(d, stk, T) ==
  \A h \in 1..Len(stk) :
    \/ h = Len(stk) /\ Follows(d, stk[h], T[MaxDepth - h], stk[h].next - 1)
    \/ /\ h # Len(stk) /\ Follows(d, stk[h], T[MaxDepth - h], stk[h].next - 2)
       /\ Waits(d, stk[h], stk[h + 1].path)

\* A marked file is included by a line that has been passed.
Passed(stk, marked, p, i) ==
  \/ \E h \in 1..Len(stk) : stk[h].path = p /\ i < stk[h].next
  \/ p \in marked /\ \A h \in 1..Len(stk) : stk[h].path # p

Fresh(d, stk, marked) ==
  \A q \in marked : \E p \in Reachable : \E i \in 1..Len(d[p]) :
    d[p][i] = Include(q) /\ Passed(stk, marked, p, i)

Bounds == Shape /\ CyclesCut /\ RootFirst /\ OnlyReachable

TreeInv ==
  TreeShaped /\ ~done =>
    /\ Fresh(disk, stack, seen)
    /\ \E T : Levels(disk, T) /\ Substitutes(disk, stack, T)

\* A call's next line, the m-th: f becomes g.
Copies(d, f, sub, m, g) ==
  /\ g.path = f.path /\ g.out = f.out \o LineTexts(d, f.path, sub)[m]
  /\ g.touched \/ (g.touched = f.touched /\ d[f.path][m] = BadLine)

LEMMA FollowsMore ==
  ASSUME NEW d \in FileSystems, NEW f \in Frame, NEW sub \in Meanings, NEW k,
         Follows(d, f, sub, k), NEW m, m = k + 1, m \in 1..Len(d[f.path]),
         NEW g, Copies(d, f, sub, m, g)
  PROVE  Follows(d, g, sub, m)
<1> USE DEF Copies
<1> PICK p : p = f.path
  OBVIOUS
<1> PICK t : t = LineTexts(d, p, sub)
  OBVIOUS
<1>1. p \in Paths /\ t \in Seq(Seq(Item)) /\ Len(t) = Len(d[p])
  BY LineTextsFacts DEF Frame
<1>2. /\ d[p] \in Seq(Line) /\ k \in Nat /\ Gathers(t, k, f.out)
      /\ \A i \in 1..k : d[p][i] # BadLine => f.touched
  BY DEF Follows
<1>3. m \in 1..Len(d[p]) /\ m \in 0..Len(d[p])
  BY <1>1, <1>2
<1>4. t[m] \in Seq(Item)
  BY <1>1, <1>3, ElementOfSeq
<1>5. Gathers(t, m, g.out)
  BY <1>2, <1>4, GathersMore
<1>6. \A i \in 1..m : d[p][i] # BadLine => g.touched
  <2> TAKE i \in 1..m
  <2>1. i = m \/ i \in 1..k
    BY <1>2
  <2> QED BY <1>2, <2>1
<1> QED BY <1>2, <1>3, <1>5, <1>6 DEF Follows

LEMMA FollowsSame ==
  ASSUME NEW d, NEW f, NEW sub, NEW k, NEW g, Follows(d, f, sub, k),
         g.path = f.path, g.out = f.out, g.touched = f.touched
  PROVE  Follows(d, g, sub, k)
BY DEF Follows

LEMMA FollowsStart ==
  ASSUME NEW d, NEW p, NEW sub, d[p] \in Seq(Line)
  PROVE  Follows(d, Call(p), sub, 0)
<1>1. Call(p).path = p /\ Call(p).out = << >>
  BY DEF Call
<1>2. 0 \in 0..Len(d[p]) /\ 1..0 = {}
  BY LenProperties
<1>3. Gathers(LineTexts(d, p, sub), 0, << >>)
  BY GathersNothing
<1> QED BY <1>1, <1>2, <1>3 DEF Follows

\* The text of one line.
LEMMA LineTextAt ==
  ASSUME NEW d \in FileSystems, NEW p \in Paths, NEW sub, NEW i \in 1..Len(d[p])
  PROVE  /\ d[p][i].kind = "text" =>
              LineTexts(d, p, sub)[i] = <<[path |-> p, line |-> i, raw |-> FALSE]>>
         /\ d[p][i].kind = "include" => LineTexts(d, p, sub)[i] = sub[d[p][i].path]
         /\ d[p][i].kind = "bad" => LineTexts(d, p, sub)[i] = << >>
<1>1. i \in DOMAIN d[p]
  BY FileLines
<1> QED BY <1>1 DEF LineTexts

\* A #include line of a reachable file, where the inclusions form a tree.
LEMMA TreeLine ==
  ASSUME Shape, TreeShaped, NEW p \in Reachable, NEW i \in 1..Len(disk[p]),
         disk[p][i].kind = "include", NEW q, q = disk[p][i].path
  PROVE  /\ q \in Reachable /\ q \in Paths /\ q # Root /\ Readable(q)
         /\ disk[q] \in Seq(Line) /\ disk[p][i] = Include(q)
         /\ \A o \in Reachable : \A j \in 1..Len(disk[o]) :
              disk[o][j] = Include(q) => o = p /\ j = i
<1>1. p \in Paths /\ disk \in FileSystems
  BY DEF Reachable, Shape, TypeOK, FileSystems
<1>2. i \in DOMAIN disk[p] /\ q \in Paths
  BY <1>1, FileLines
<1>3. q # Root /\ Readable(q)
  BY <1>2 DEF TreeShaped
<1>4. disk[q] \in Seq(Line)
  BY <1>1, <1>2, <1>3 DEF FileSystems, Readable
<1>5. disk[p][i] = Include(q)
  <2>1. disk[p] \in Seq(Line) \cup {Unreadable}
    BY <1>1 DEF FileSystems
  <2>2. disk[p] # Unreadable
    <3>1. CASE disk[p] = Unreadable
      <4>1. i = 1 /\ disk[p][i].kind = "unreadable"
        BY <3>1 DEF Unreadable
      <4> QED BY <4>1
    <3> QED BY <3>1
  <2>3. disk[p][i] \in Line
    BY <2>1, <2>2, ElementOfSeq
  <2> QED BY <2>3 DEF Line, TextLine, BadLine, Include
<1>6. ASSUME NEW o \in Reachable, NEW j \in 1..Len(disk[o]), disk[o][j] = Include(q)
      PROVE  o = p /\ j = i
  <2>1. j \in DOMAIN disk[o]
    BY <1>1, FileLines DEF Reachable
  <2>2. disk[o][j] = disk[p][i]
    BY <1>5, <1>6
  <2> QED BY <1>2, <2>1, <2>2 DEF TreeShaped
<1>7. q \in Reachable
  BY <1>2, <1>3, ReachableGrows
<1> QED BY <1>2, <1>3, <1>4, <1>5, <1>6, <1>7

LEMMA TopAtWork ==
  ASSUME Bounds, ~done, NEW T, Levels(disk, T), Substitutes(disk, stack, T)
  PROVE  /\ Len(stack) \in 1..MaxDepth /\ MaxDepth \in Nat
         /\ \A h \in 1..Len(stack) : T[MaxDepth - h] \in Meanings
         /\ Top \in Frame /\ Top = stack[Len(stack)] /\ Top.path \in Reachable
         /\ Follows(disk, Top, T[MaxDepth - Len(stack)], Top.next - 1)
         /\ disk \in FileSystems
<1>1. Len(stack) \in Nat \ {0} /\ Top \in Frame /\ Top = stack[Len(stack)] /\ stack \in Seq(Frame)
  BY TopFacts DEF Bounds, Top, Shape, TypeOK
<1>2. Cardinality(Paths) \in Nat
  BY IncludeAssumption, FS_CardinalityType
<1>3. Len(stack) \in 1..MaxDepth /\ MaxDepth \in Nat
  BY <1>1, <1>2, DepthFromCycles DEF Bounds, DepthBounded, MaxDepth
<1>4. \A h \in 1..Len(stack) : T[MaxDepth - h] \in Meanings
  <2> TAKE h \in 1..Len(stack)
  <2>1. MaxDepth - h \in 0..MaxDepth
    BY <1>1, <1>3
  <2> QED BY <2>1 DEF Levels
<1> PICK n : n = Len(stack)
  OBVIOUS
<1>5. n \in 1..n
  BY <1>1
<1>6. Follows(disk, stack[n], T[MaxDepth - n], stack[n].next - 1)
  BY <1>5 DEF Substitutes
<1>7. Top.path \in Reachable
  BY <1>1, <1>5 DEF Bounds, OnlyReachable
<1> QED BY <1>1, <1>3, <1>4, <1>6, <1>7 DEF Bounds, Shape, TypeOK, FileSystems

LEMMA LineAtWork ==
  ASSUME Bounds, ~done, ~AtEnd, disk[Top.path] \in Seq(Line), Top \in Frame
  PROVE  /\ Top.next \in 1..Len(disk[Top.path])
         /\ ThisLine = disk[Top.path][Top.next] /\ ThisLine \in Line
<1>1. Top.next \in Nat \ {0} /\ Len(disk[Top.path]) \in Nat
  BY LenProperties DEF Frame
<1>2. Top.next \in 1..Len(disk[Top.path])
  BY <1>1 DEF AtEnd
<1> QED BY <1>2, ElementOfSeq DEF ThisLine

\* No two calls scan the same file.
LEMMA Distinct ==
  ASSUME Bounds, TreeShaped, ~done, NEW T, Levels(disk, T), Substitutes(disk, stack, T),
         NEW h \in 1..Len(stack), NEW j \in 1..Len(stack), stack[h].path = stack[j].path
  PROVE  h = j
<1>1. Len(stack) \in Nat \ {0} /\ stack[1].path = Root
  BY TopFacts DEF Bounds, RootFirst
<1>2. ASSUME NEW g \in 1..Len(stack), stack[g].path = Root PROVE g = 1
  <2> SUFFICES ASSUME g # 1 PROVE FALSE
    OBVIOUS
  <2> PICK m : m = g - 1
    OBVIOUS
  <2>1. m \in 1..Len(stack) /\ m # Len(stack) /\ m + 1 = g
    BY <1>1
  <2>2. Waits(disk, stack[m], stack[g].path)
    BY <2>1 DEF Substitutes
  <2>3. PICK i \in 1..Len(disk[stack[m].path]) : disk[stack[m].path][i] = Include(Root)
    BY <1>2, <2>2 DEF Waits
  <2>4. stack[m].path \in Reachable
    BY <2>1 DEF Bounds, OnlyReachable
  <2>5. Include(Root).kind = "include" /\ Include(Root).path = Root
    BY DEF Include
  <2> QED BY <2>3, <2>4, <2>5, TreeLine DEF Bounds
<1>3. CASE stack[h].path = Root
  BY <1>2, <1>3
<1>4. CASE stack[h].path # Root
  BY <1>4, OneExpansion DEF Bounds
<1> QED BY <1>3, <1>4

\* Every included file is met for the first time, and can be read.
LEMMA MetFirst ==
  ASSUME Bounds, TreeShaped, NEW T, Levels(disk, T), Substitutes(disk, stack, T),
         Fresh(disk, stack, seen), Scanning("include")
  PROVE  ThisLine.path \notin seen /\ Readable(ThisLine.path)
<1> PICK p, i, q : p = Top.path /\ i = Top.next /\ q = ThisLine.path
  OBVIOUS
<1>1. ~done /\ ~AtEnd /\ ThisLine.kind = "include"
  BY DEF Scanning
<1>2. /\ Top \in Frame /\ Top = stack[Len(stack)] /\ p \in Reachable
      /\ Follows(disk, Top, T[MaxDepth - Len(stack)], Top.next - 1)
      /\ Len(stack) \in Nat \ {0}
  BY <1>1, TopAtWork
<1>3. i \in 1..Len(disk[p]) /\ ThisLine = disk[p][i]
  BY <1>1, <1>2, LineAtWork DEF Follows
<1>4. /\ Readable(q) /\ disk[p][i] = Include(q)
      /\ \A o \in Reachable : \A j \in 1..Len(disk[o]) : disk[o][j] = Include(q) => o = p /\ j = i
  <2>1. disk[p][i].kind = "include" /\ q = disk[p][i].path
    BY <1>1, <1>3
  <2>2. p \in Reachable /\ i \in 1..Len(disk[p]) /\ Shape
    BY <1>2, <1>3 DEF Bounds
  <2> QED BY <2>1, <2>2, TreeLine
<1>5. ASSUME q \in seen PROVE FALSE
  <2>1. PICK o \in Reachable : \E j \in 1..Len(disk[o]) :
          disk[o][j] = Include(q) /\ Passed(stack, seen, o, j)
    BY <1>5 DEF Fresh
  <2>2. Passed(stack, seen, p, i)
    BY <1>4, <2>1
  <2>3. Len(stack) \in 1..Len(stack)
    BY <1>2
  <2>4. PICK h \in 1..Len(stack) : stack[h].path = p /\ i < stack[h].next
    BY <1>2, <2>2, <2>3 DEF Passed
  <2>5. h = Len(stack)
    BY <1>1, <1>2, <2>3, <2>4, Distinct
  <2>6. i < i /\ i \in Nat
    BY <1>2, <1>3, <2>4, <2>5 DEF Frame
  <2> QED BY <2>6
<1> QED BY <1>4, <1>5

\* The calls below the n-th are not touched.
Agree(stk, new, n) ==
  new[n].path = stk[n].path /\ \A i \in 1..(n - 1) : new[i] = stk[i]
Lower(d, T, new, n) ==
  \A h \in 1..(n - 1) : /\ Follows(d, new[h], T[MaxDepth - h], new[h].next - 2)
                        /\ Waits(d, new[h], new[h + 1].path)

LEMMA Below ==
  ASSUME NEW d, NEW T, NEW stk, Substitutes(d, stk, T), NEW n \in 1..Len(stk), Len(stk) \in Nat,
         NEW new, Agree(stk, new, n)
  PROVE  Lower(d, T, new, n)
<1> SUFFICES ASSUME NEW h \in 1..(n - 1)
             PROVE  /\ Follows(d, new[h], T[MaxDepth - h], new[h].next - 2)
                    /\ Waits(d, new[h], new[h + 1].path)
  BY DEF Lower
<1> USE DEF Agree
<1>1. h \in 1..Len(stk) /\ h # Len(stk) /\ new[h] = stk[h]
  OBVIOUS
<1>2. Follows(d, stk[h], T[MaxDepth - h], stk[h].next - 2) /\ Waits(d, stk[h], stk[h + 1].path)
  BY <1>1 DEF Substitutes
<1>3. new[h + 1].path = stk[h + 1].path
  <2>1. h + 1 = n \/ h + 1 \in 1..(n - 1)
    OBVIOUS
  <2> QED BY <2>1
<1> QED BY <1>1, <1>2, <1>3

LEMMA SubstitutesTop ==
  ASSUME NEW d, NEW T, NEW stk, Substitutes(d, stk, T), NEW n \in 1..Len(stk), Len(stk) \in Nat,
         NEW new, Len(new) = n,
         Agree(stk, new, n),
         Follows(d, new[n], T[MaxDepth - n], new[n].next - 1)
  PROVE  Substitutes(d, new, T)
<1>1. \A h \in 1..(n - 1) : /\ Follows(d, new[h], T[MaxDepth - h], new[h].next - 2)
                            /\ Waits(d, new[h], new[h + 1].path)
  BY Below DEF Lower
<1>2. \A h \in 1..Len(new) : h = n \/ (h \in 1..(n - 1) /\ h # n)
  OBVIOUS
<1> QED BY <1>1, <1>2 DEF Substitutes

LEMMA SubstitutesEnter ==
  ASSUME NEW d, NEW T, NEW stk, Substitutes(d, stk, T), NEW n \in 1..Len(stk), Len(stk) \in Nat,
         NEW new, NEW m, m = n + 1, Len(new) = m,
         Agree(stk, new, n),
         Follows(d, new[n], T[MaxDepth - n], new[n].next - 2),
         Waits(d, new[n], new[m].path),
         Follows(d, new[m], T[MaxDepth - m], new[m].next - 1)
  PROVE  Substitutes(d, new, T)
<1>1. \A h \in 1..(n - 1) : /\ Follows(d, new[h], T[MaxDepth - h], new[h].next - 2)
                            /\ Waits(d, new[h], new[h + 1].path)
  BY Below DEF Lower
<1>2. \A h \in 1..Len(new) : h = m \/ (h = n /\ h # m) \/ (h \in 1..(n - 1) /\ h # m)
  OBVIOUS
<1> QED
  <2> SUFFICES ASSUME NEW h \in 1..Len(new)
               PROVE  \/ /\ h = Len(new)
                         /\ Follows(d, new[h], T[MaxDepth - h], new[h].next - 1)
                      \/ /\ h # Len(new)
                         /\ Follows(d, new[h], T[MaxDepth - h], new[h].next - 2)
                         /\ Waits(d, new[h], new[h + 1].path)
    BY DEF Substitutes
  <2>1. CASE h = m
    BY <2>1
  <2>2. CASE h = n /\ h # m
    BY <2>2
  <2>3. CASE h \in 1..(n - 1) /\ h # m
    BY <1>1, <2>3
  <2> QED BY <1>2, <2>1, <2>2, <2>3

LEMMA FreshTop ==
  ASSUME NEW d, NEW stk, NEW marked, Fresh(d, stk, marked), NEW new, Len(new) = Len(stk),
         \A h \in 1..Len(stk) : /\ new[h].path = stk[h].path
                                /\ stk[h].next \in Nat /\ new[h].next \in Nat
                                /\ stk[h].next <= new[h].next
  PROVE  Fresh(d, new, marked)
<1>1. ASSUME NEW p, NEW i \in Nat, Passed(stk, marked, p, i) PROVE Passed(new, marked, p, i)
  <2>1. CASE \E h \in 1..Len(stk) : stk[h].path = p /\ i < stk[h].next
    <3> PICK h \in 1..Len(stk) : stk[h].path = p /\ i < stk[h].next
      BY <2>1
    <3>1. new[h].path = p /\ i < new[h].next
      OBVIOUS
    <3> QED BY <3>1 DEF Passed
  <2>2. CASE p \in marked /\ \A h \in 1..Len(stk) : stk[h].path # p
    BY <2>2 DEF Passed
  <2> QED BY <1>1, <2>1, <2>2 DEF Passed
<1> QED BY <1>1 DEF Fresh

LEMMA FreshEnter ==
  ASSUME NEW d, NEW stk, NEW marked, Fresh(d, stk, marked),
         NEW n \in Nat \ {0}, Len(stk) = n, NEW m, m = n + 1, NEW new, Len(new) = m,
         \A h \in 1..n : /\ new[h].path = stk[h].path
                         /\ stk[h].next \in Nat /\ new[h].next \in Nat
                         /\ stk[h].next <= new[h].next,
         NEW q, q \notin marked, new[m].path = q,
         NEW i, i \in 1..Len(d[stk[n].path]), stk[n].path \in Reachable,
         d[stk[n].path][i] = Include(q), i < new[n].next
  PROVE  Fresh(d, new, marked \cup {q})
<1> PICK all : all = marked \cup {q}
  OBVIOUS
<1>1. \A h \in 1..m : h \in 1..n \/ h = m
  OBVIOUS
<1>2. ASSUME NEW p, NEW j \in Nat, Passed(stk, marked, p, j) PROVE Passed(new, all, p, j)
  <2>1. CASE \E h \in 1..n : stk[h].path = p /\ j < stk[h].next
    <3> PICK h \in 1..n : stk[h].path = p /\ j < stk[h].next
      BY <2>1
    <3>1. h \in 1..m /\ new[h].path = p /\ j < new[h].next
      OBVIOUS
    <3> QED BY <3>1 DEF Passed
  <2>2. CASE p \in marked /\ \A h \in 1..n : stk[h].path # p
    <3>1. \A h \in 1..m : new[h].path # p
      BY <1>1, <2>2
    <3> QED BY <2>2, <3>1 DEF Passed
  <2> QED BY <1>2, <2>1, <2>2 DEF Passed
<1>3. n \in 1..m
  OBVIOUS
<1>4. Passed(new, all, stk[n].path, i)
  <2>1. new[n].path = stk[n].path
    OBVIOUS
  <2> QED BY <1>3, <2>1 DEF Passed
<1>5. ASSUME NEW o \in all
      PROVE  \E p \in Reachable : \E j \in 1..Len(d[p]) : d[p][j] = Include(o) /\ Passed(new, all, p, j)
  <2>1. CASE o = q
    BY <1>4, <2>1
  <2>2. CASE o \in marked
    <3> PICK p \in Reachable : \E j \in 1..Len(d[p]) :
               d[p][j] = Include(o) /\ Passed(stk, marked, p, j)
      BY <2>2 DEF Fresh
    <3> PICK j \in 1..Len(d[p]) : d[p][j] = Include(o) /\ Passed(stk, marked, p, j)
      OBVIOUS
    <3>1. j \in Nat
      OBVIOUS
    <3>2. Passed(new, all, p, j)
      BY <1>2, <3>1
    <3> QED BY <3>2
  <2> QED BY <1>5, <2>1, <2>2
<1> QED BY <1>5 DEF Fresh

\* The innermost call, on a marked file that no other call scans, is gone.
Pops(stk, marked, new) ==
  LET m == Len(stk) IN
  /\ Len(new) \in Nat \ {0} /\ m = Len(new) + 1
  /\ stk[m].path \in marked
  /\ \A h \in 1..Len(new) : /\ new[h].path = stk[h].path /\ new[h].next = stk[h].next
                            /\ stk[h].path # stk[m].path

LEMMA FreshReturn ==
  ASSUME NEW d, NEW stk, NEW marked, Fresh(d, stk, marked),
         NEW new, Pops(stk, marked, new)
  PROVE  Fresh(d, new, marked)
<1> PICK n, m : n = Len(new) /\ m = Len(stk)
  OBVIOUS
<1>1. /\ n \in Nat \ {0} /\ m = n + 1
      /\ \A h \in 1..n : new[h].path = stk[h].path /\ new[h].next = stk[h].next
      /\ stk[m].path \in marked /\ \A h \in 1..n : stk[h].path # stk[m].path
  BY DEF Pops
<1> USE <1>1
<1>2. \A h \in 1..m : h \in 1..n \/ h = m
  OBVIOUS
<1>3. \A h \in 1..n : h \in 1..m
  OBVIOUS
<1>4. ASSUME NEW p, NEW i, Passed(stk, marked, p, i) PROVE Passed(new, marked, p, i)
  <2>1. CASE \E h \in 1..m : stk[h].path = p /\ i < stk[h].next
    <3> PICK h \in 1..m : stk[h].path = p /\ i < stk[h].next
      BY <2>1
    <3>1. CASE h \in 1..n
      BY <3>1 DEF Passed
    <3>2. CASE h = m
      <4>1. \A g \in 1..n : new[g].path # p
        BY <3>2
      <4> QED BY <3>2, <4>1 DEF Passed
    <3> QED BY <1>2, <3>1, <3>2
  <2>2. CASE p \in marked /\ \A h \in 1..m : stk[h].path # p
    BY <1>3, <2>2 DEF Passed
  <2> QED BY <1>4, <2>1, <2>2 DEF Passed
<1> QED BY <1>4 DEF Fresh

(***************************************************************************)
(* Each line scanned, each call and each return keeps that.                *)
(***************************************************************************)
TreeAtWork(T) ==
  /\ Bounds /\ TreeShaped /\ ~done
  /\ Levels(disk, T) /\ Substitutes(disk, stack, T) /\ Fresh(disk, stack, seen)

LEMMA AtLine ==
  ASSUME NEW T, TreeAtWork(T), ~AtEnd, NEW n, n = Len(stack), NEW f, f = Top,
         NEW sub, sub = T[MaxDepth - n]
  PROVE  /\ n \in 1..Len(stack) /\ n \in Nat \ {0} /\ stack \in Seq(Frame)
         /\ f \in Frame /\ f = stack[n] /\ f.path \in Reachable /\ f.path \in Paths
         /\ f.next \in 1..Len(disk[f.path]) /\ f.next \in Nat
         /\ ThisLine = disk[f.path][f.next] /\ ThisLine \in Line
         /\ sub \in Meanings /\ disk \in FileSystems
         /\ Follows(disk, f, sub, f.next - 1)
<1>1. Bounds /\ ~done /\ Levels(disk, T) /\ Substitutes(disk, stack, T)
  BY DEF TreeAtWork
<1>2. /\ n \in 1..MaxDepth /\ MaxDepth \in Nat
      /\ \A h \in 1..n : T[MaxDepth - h] \in Meanings
      /\ f \in Frame /\ f = stack[n] /\ f.path \in Reachable
      /\ Follows(disk, f, sub, f.next - 1)
      /\ disk \in FileSystems
  BY <1>1, TopAtWork
<1>3. n \in 1..n /\ n \in Nat \ {0} /\ sub \in Meanings
  BY <1>2
<1>4. f.next \in 1..Len(disk[f.path]) /\ ThisLine = disk[f.path][f.next] /\ ThisLine \in Line
  BY <1>1, <1>2, LineAtWork DEF Follows
<1>5. f.path \in Paths /\ f.next \in Nat /\ stack \in Seq(Frame)
  BY <1>1, <1>2 DEF Frame, Bounds, Shape, TypeOK
<1> QED BY <1>2, <1>3, <1>4, <1>5

\* A step that only moves the innermost call past a line.
LEMMA PastLine ==
  ASSUME NEW T, TreeAtWork(T), ~AtEnd, NEW n, n = Len(stack), NEW f, f = Top,
         NEW sub, sub = T[MaxDepth - n],
         NEW new \in Seq(Frame), Len(new) = n,
         \A i \in 1..(n - 1) : new[i] = stack[i],
         new[n].next = f.next + 1,
         Copies(disk, f, sub, f.next, new[n])
  PROVE  Substitutes(disk, new, T) /\ Fresh(disk, new, seen)
<1>1. /\ n \in 1..n /\ n \in Nat \ {0} /\ stack \in Seq(Frame)
      /\ f \in Frame /\ f = stack[n] /\ f.path \in Reachable
      /\ f.next \in 1..Len(disk[f.path]) /\ f.next \in Nat
      /\ ThisLine = disk[f.path][f.next]
      /\ sub \in Meanings /\ disk \in FileSystems
      /\ Follows(disk, f, sub, f.next - 1)
  BY AtLine
<1> PICK g, k, m : g = new[n] /\ k = f.next - 1 /\ m = f.next
  OBVIOUS
<1>2. g \in Frame /\ m = k + 1 /\ m <= Len(disk[f.path]) /\ g.next - 1 = m
  <2>1. g \in Frame
    BY <1>1, ElementOfSeq
  <2> QED BY <1>1, <2>1
<1>3. Follows(disk, g, sub, m)
  <2>1. Follows(disk, f, sub, k) /\ m \in 1..Len(disk[f.path]) /\ Copies(disk, f, sub, m, g)
    BY <1>1
  <2>2. m = k + 1
    BY <1>2
  <2> QED BY <1>1, <2>1, <2>2, FollowsMore
<1>4. Substitutes(disk, new, T)
  <2>1. Agree(stack, new, n)
    BY <1>1 DEF Agree, Copies
  <2>2. Follows(disk, new[n], T[MaxDepth - n], new[n].next - 1)
    BY <1>2, <1>3
  <2>3. Substitutes(disk, stack, T)
    BY DEF TreeAtWork
  <2> QED BY <1>1, <2>1, <2>2, <2>3, SubstitutesTop
<1>5. Fresh(disk, new, seen)
  <2>1. \A h \in 1..n : stack[h].next \in Nat /\ new[h].next \in Nat
    <3>1. \A h \in 1..n : stack[h] \in Frame /\ new[h] \in Frame
      BY <1>1, ElementOfSeq
    <3> QED BY <3>1 DEF Frame
  <2>2. \A h \in 1..n : new[h].path = stack[h].path /\ stack[h].next <= new[h].next
    <3> TAKE h \in 1..n
    <3>1. CASE h = n
      BY <1>1, <3>1 DEF Copies
    <3>2. CASE h # n
      <4>1. h \in 1..(n - 1)
        BY <1>1, <3>2
      <4>2. new[h] = stack[h]
        BY <4>1
      <4> QED BY <2>1, <4>2
    <3> QED BY <3>1, <3>2
  <2>3. Fresh(disk, stack, seen)
    BY DEF TreeAtWork
  <2> QED BY <2>1, <2>2, <2>3, FreshTop
<1> QED BY <1>4, <1>5

LEMMA TreeCopy ==
  ASSUME NEW T, TreeAtWork(T), CopyLine
  PROVE  Substitutes(disk, stack', T) /\ Fresh(disk, stack', seen)
<1> PICK n, f, sub, new : n = Len(stack) /\ f = Top /\ sub = T[MaxDepth - n] /\ new = stack'
  OBVIOUS
<1>1. ~AtEnd /\ ThisLine.kind = "text" /\ Shape
  BY DEF CopyLine, Scanning, TreeAtWork, Bounds
<1>2. /\ f.path \in Paths /\ f.next \in 1..Len(disk[f.path]) /\ ThisLine = disk[f.path][f.next]
      /\ disk \in FileSystems
  BY <1>1, AtLine
<1>3. /\ new \in Seq(Frame) /\ Len(new) = n
      /\ \A i \in 1..(n - 1) : new[i] = stack[i]
      /\ new[n].path = f.path /\ new[n].next = f.next + 1
      /\ new[n].out = f.out \o <<Copied>> /\ new[n].touched
  BY <1>1, CopyFacts
<1>4. LineTexts(disk, f.path, sub)[f.next] = <<Copied>>
  BY <1>1, <1>2, LineTextAt DEF Copied
<1>5. Copies(disk, f, sub, f.next, new[n])
  BY <1>3, <1>4 DEF Copies
<1>6. new[n].next = f.next + 1 /\ n = Len(stack) /\ f = Top /\ sub = T[MaxDepth - n]
  BY <1>3
<1>7. Substitutes(disk, new, T) /\ Fresh(disk, new, seen)
  BY <1>1, <1>3, <1>5, <1>6, PastLine
<1> QED BY <1>7

LEMMA TreeSkip ==
  ASSUME NEW T, TreeAtWork(T), Skip
  PROVE  Substitutes(disk, stack', T) /\ Fresh(disk, stack', seen)
<1> PICK n, f, sub, new : n = Len(stack) /\ f = Top /\ sub = T[MaxDepth - n] /\ new = stack'
  OBVIOUS
<1>1. ~AtEnd /\ Shape /\ ThisLine.kind \in {"bad", "include"}
  BY DEF Skip, DropLine, SkipSeen, SkipUnreadable, Scanning, TreeAtWork, Bounds
<1>2. ThisLine.kind = "bad"
  <2>1. CASE SkipSeen
    BY <2>1, MetFirst DEF SkipSeen, TreeAtWork, includeset_contains
  <2>2. CASE SkipUnreadable
    BY <2>2, MetFirst DEF SkipUnreadable, TreeAtWork
  <2>3. CASE DropLine
    BY <2>3 DEF DropLine, Scanning
  <2> QED BY <2>1, <2>2, <2>3 DEF Skip
<1>3. /\ f \in Frame /\ f.path \in Paths /\ f.next \in 1..Len(disk[f.path])
      /\ ThisLine = disk[f.path][f.next] /\ disk \in FileSystems /\ ThisLine \in Line
  BY <1>1, AtLine
<1>4. ThisLine = BadLine
  <2>1. \A x \in Line : x.kind = "bad" => x = BadLine
    BY DEF Line, TextLine, BadLine, Include
  <2> QED BY <1>2, <1>3, <2>1
<1>5. /\ new \in Seq(Frame) /\ Len(new) = n
      /\ \A i \in 1..(n - 1) : new[i] = stack[i]
      /\ new[n].path = f.path /\ new[n].next = f.next + 1
      /\ new[n].out = f.out /\ new[n].touched = f.touched
  BY <1>1, SkipFacts
<1>6. f.out \o << >> = f.out
  BY <1>3, EmptyFirst DEF Frame
<1>7. LineTexts(disk, f.path, sub)[f.next] = << >>
  BY <1>2, <1>3, LineTextAt
<1>8. Copies(disk, f, sub, f.next, new[n])
  BY <1>3, <1>4, <1>5, <1>6, <1>7 DEF Copies
<1>9. new[n].next = f.next + 1 /\ n = Len(stack) /\ f = Top /\ sub = T[MaxDepth - n]
  BY <1>5
<1>10. Substitutes(disk, new, T) /\ Fresh(disk, new, seen)
  BY <1>1, <1>5, <1>8, <1>9, PastLine
<1> QED BY <1>10

LEMMA TreeEnter ==
  ASSUME NEW T, TreeAtWork(T), EnterFile
  PROVE  Substitutes(disk, stack', T) /\ Fresh(disk, stack', seen')
<1> PICK n, f, new, q, m : n = Len(stack) /\ f = Top /\ new = stack' /\ q = ThisLine.path /\ m = n + 1
  OBVIOUS
<1> PICK sub : sub = T[MaxDepth - n]
  OBVIOUS
<1>1. ~AtEnd /\ ThisLine.kind = "include" /\ Shape /\ q \notin seen /\ seen' = seen \cup {q}
  BY DEF EnterFile, Scanning, TreeAtWork, Bounds, includeset_add, includeset_contains
<1>2. /\ n \in 1..Len(stack) /\ n \in Nat \ {0} /\ stack \in Seq(Frame)
      /\ f \in Frame /\ f = stack[n] /\ f.path \in Reachable
      /\ f.next \in 1..Len(disk[f.path]) /\ f.next \in Nat
      /\ ThisLine = disk[f.path][f.next]
      /\ Follows(disk, f, sub, f.next - 1)
  BY <1>1, AtLine
<1>3. disk[q] \in Seq(Line) /\ disk[f.path][f.next] = Include(q)
  <2> PICK p, i : p = f.path /\ i = f.next
    OBVIOUS
  <2>1. p \in Reachable /\ i \in 1..Len(disk[p]) /\ disk[p][i].kind = "include" /\ q = disk[p][i].path
    BY <1>1, <1>2
  <2>2. Shape /\ TreeShaped
    BY <1>1 DEF TreeAtWork
  <2>3. disk[q] \in Seq(Line) /\ disk[p][i] = Include(q)
    BY <2>1, <2>2, TreeLine
  <2> QED BY <2>3
<1>4. /\ new \in Seq(Frame) /\ Len(new) = m
      /\ \A i \in 1..(n - 1) : new[i] = stack[i]
      /\ new[n].path = f.path /\ new[n].next = f.next + 1
      /\ new[n].out = f.out /\ new[n].touched = f.touched
      /\ new[m] = Call(q)
  BY <1>1, EnterFacts
<1>5. new[m].path = q /\ new[m].next - 1 = 0 /\ new[n].next - 1 = f.next /\ new[n].next - 2 = f.next - 1
  BY <1>2, <1>4 DEF Call
<1>6. Substitutes(disk, new, T)
  <2>1. Agree(stack, new, n) /\ Substitutes(disk, stack, T) /\ Len(stack) \in Nat
    BY <1>2, <1>4 DEF Agree, TreeAtWork
  <2>2. Follows(disk, new[n], T[MaxDepth - n], new[n].next - 2)
    <3>1. Follows(disk, new[n], sub, f.next - 1)
      BY <1>2, <1>4, FollowsSame
    <3> QED BY <1>5, <3>1
  <2>3. Waits(disk, new[n], new[m].path)
    BY <1>2, <1>3, <1>4, <1>5 DEF Waits
  <2>4. Follows(disk, new[m], T[MaxDepth - m], new[m].next - 1)
    <3>1. Follows(disk, Call(q), T[MaxDepth - m], 0)
      BY <1>3, FollowsStart
    <3> QED BY <1>4, <1>5, <3>1
  <2>5. n \in 1..Len(stack) /\ m = n + 1 /\ Len(new) = m
    BY <1>2, <1>4
  <2> QED BY <2>1, <2>2, <2>3, <2>4, <2>5, SubstitutesEnter
<1>7. Fresh(disk, new, seen \cup {q})
  <2>1. \A h \in 1..n : stack[h].next \in Nat /\ new[h].next \in Nat
    <3>1. \A h \in 1..n : stack[h] \in Frame /\ new[h] \in Frame
      BY <1>2, <1>4, ElementOfSeq
    <3> QED BY <3>1 DEF Frame
  <2>2. \A h \in 1..n : new[h].path = stack[h].path /\ stack[h].next <= new[h].next
    <3> TAKE h \in 1..n
    <3>1. CASE h = n
      BY <1>2, <1>4, <3>1
    <3>2. CASE h # n
      <4>1. h \in 1..(n - 1)
        BY <1>2, <3>2
      <4>2. new[h] = stack[h]
        BY <1>4, <4>1
      <4> QED BY <2>1, <4>2
    <3> QED BY <3>1, <3>2
  <2>3. Fresh(disk, stack, seen)
    BY DEF TreeAtWork
  <2> PICK i : i = f.next
    OBVIOUS
  <2>4. i \in 1..Len(disk[stack[n].path]) /\ disk[stack[n].path][i] = Include(q)
        /\ stack[n].path \in Reachable
    BY <1>2, <1>3
  <2>5. i < new[n].next
    BY <1>2, <1>4
  <2>6. q \notin seen /\ new[m].path = q /\ Len(new) = m /\ Len(stack) = n /\ n \in Nat \ {0} /\ m = n + 1
    BY <1>1, <1>2, <1>4, <1>5
  <2> QED BY <2>1, <2>2, <2>3, <2>4, <2>5, <2>6, FreshEnter
<1> QED BY <1>1, <1>6, <1>7

\* What a call returns at its end is the text of its file.
LEMMA ReturnedText ==
  ASSUME NEW T, TreeAtWork(T), AtEnd, NEW f, f = Top,
         NEW m, m = MaxDepth - Len(stack) + 1
  PROVE  Returned(f) = T[m][f.path]
<1> PICK k : k = MaxDepth - Len(stack)
  OBVIOUS
<1>1. Bounds /\ ~done /\ TreeShaped /\ Levels(disk, T) /\ Substitutes(disk, stack, T)
  BY DEF TreeAtWork
<1>2. /\ Len(stack) \in 1..MaxDepth /\ MaxDepth \in Nat
      /\ T[k] \in Meanings /\ f \in Frame /\ f.path \in Reachable
      /\ Follows(disk, f, T[k], f.next - 1)
      /\ disk \in FileSystems
  <2>1. Len(stack) \in 1..Len(stack)
    BY <1>1, TopAtWork
  <2> QED BY <1>1, <2>1, TopAtWork
<1> PICK p : p = f.path
  OBVIOUS
<1>3. p \in Paths /\ p \in Reachable
  BY <1>2 DEF Frame
<1>4. f.next \in Nat /\ Len(disk[p]) \in Nat /\ f.next > Len(disk[p])
      /\ f.next - 1 \in 0..Len(disk[p]) /\ disk[p] \in Seq(Line)
  <2>1. f.next \in Nat
    BY <1>2 DEF Frame
  <2>2. f.next - 1 \in 0..Len(disk[p]) /\ disk[p] \in Seq(Line)
    BY <1>2 DEF Follows
  <2>3. f.next > Len(disk[p])
    BY DEF AtEnd
  <2> QED BY <2>1, <2>2, <2>3, LenProperties
<1>5. f.next - 1 = Len(disk[p])
  BY <1>4
<1>6. f.touched
  <2>1. PICK i \in DOMAIN disk[p] : disk[p][i] # BadLine
    BY <1>1, <1>3 DEF TreeShaped
  <2>2. i \in 1..(f.next - 1)
    BY <1>2, <1>3, <1>5, FileLines
  <2> QED BY <1>2, <2>1, <2>2 DEF Follows
<1>7. Gathers(LineTexts(disk, p, T[k]), Len(disk[p]), f.out)
  BY <1>2, <1>5 DEF Follows
<1>8. FlattenSeq(LineTexts(disk, p, T[k])) = f.out
  BY <1>2, <1>3, <1>7, WholeText
<1>9. m \in 1..MaxDepth /\ m - 1 = k
  BY <1>2
<1>10. T[m][p] = FlattenSeq(LineTexts(disk, p, T[m - 1]))
  BY <1>1, <1>3, <1>9 DEF Levels
<1>11. T[m][p] = f.out
  BY <1>8, <1>9, <1>10
<1> QED BY <1>6, <1>11 DEF Returned

LEMMA TreeReturn ==
  ASSUME NEW T, TreeAtWork(T), ReturnToCaller
  PROVE  Substitutes(disk, stack', T) /\ Fresh(disk, stack', seen)
<1> PICK n, f, new, m : n = Len(stack) - 1 /\ f = Top /\ new = stack' /\ m = Len(stack)
  OBVIOUS
<1>1. AtEnd /\ Shape /\ Bounds /\ ~done /\ TreeShaped /\ Substitutes(disk, stack, T) /\ Levels(disk, T)
      /\ Fresh(disk, stack, seen)
  BY DEF ReturnToCaller, TreeAtWork, Bounds
<1>2. /\ n \in Nat \ {0} /\ new \in Seq(Frame) /\ Len(new) = n
      /\ \A i \in 1..(n - 1) : new[i] = stack[i]
      /\ new[n].path = stack[n].path
      /\ new[n].next = stack[n].next
      /\ new[n].out  = stack[n].out \o Returned(f)
      /\ new[n].touched
  BY <1>1, ReturnFacts
<1>3. m = n + 1 /\ m \in Nat /\ n \in 1..Len(stack) /\ m \in 1..MaxDepth /\ MaxDepth \in Nat
  BY <1>1, <1>2, TopAtWork
<1>4. /\ disk \in FileSystems /\ f = stack[m] /\ T[MaxDepth - n] \in Meanings
  BY <1>1, <1>3, TopAtWork
<1>5. PICK c, i, sub : c = stack[n] /\ i = stack[n].next - 1 /\ sub = T[MaxDepth - n]
  OBVIOUS
<1>6. c \in Frame /\ Follows(disk, c, sub, c.next - 2) /\ Waits(disk, c, f.path)
  <2>1. n # Len(stack)
    BY <1>3
  <2>2. Follows(disk, stack[n], T[MaxDepth - n], stack[n].next - 2) /\ Waits(disk, stack[n], stack[n + 1].path)
    BY <1>1, <1>3, <2>1 DEF Substitutes
  <2>3. stack[n] \in Frame
    BY <1>1, <1>3, ElementOfSeq DEF Shape, TypeOK
  <2> QED BY <1>3, <1>4, <1>5, <2>2, <2>3
<1>7. /\ i \in 1..Len(disk[c.path]) /\ disk[c.path][i] = Include(f.path)
      /\ c.path \in Paths /\ c.next \in Nat
  BY <1>5, <1>6 DEF Waits, Frame
<1>8. Returned(f) = sub[f.path]
  <2> PICK j : j = MaxDepth - n
    OBVIOUS
  <2>1. j = MaxDepth - Len(stack) + 1
    BY <1>3
  <2>2. Returned(f) = T[j][f.path]
    BY <1>1, <2>1, ReturnedText
  <2>3. sub = T[j]
    BY <1>5
  <2> QED BY <2>2, <2>3
<1>9. LineTexts(disk, c.path, sub)[i] = sub[f.path]
  <2>1. disk[c.path][i].kind = "include" /\ disk[c.path][i].path = f.path
    BY <1>7 DEF Include
  <2>2. c.path \in Paths /\ i \in 1..Len(disk[c.path])
    BY <1>7
  <2> PICK p : p = c.path
    OBVIOUS
  <2>3. p \in Paths /\ i \in 1..Len(disk[p]) /\ disk[p][i].kind = "include"
    BY <2>1, <2>2
  <2>4. disk \in FileSystems
    BY <1>4
  <2>5. LineTexts(disk, p, sub)[i] = sub[disk[p][i].path]
    BY <2>3, <2>4, LineTextAt
  <2> QED BY <2>1, <2>5
<1>10. Copies(disk, c, sub, i, new[n])
  BY <1>2, <1>5, <1>8, <1>9 DEF Copies
<1>11. Follows(disk, new[n], sub, i)
  <2> PICK k : k = c.next - 2
    OBVIOUS
  <2>1. Follows(disk, c, sub, k) /\ i = k + 1 /\ sub \in Meanings
    BY <1>4, <1>5, <1>6, <1>7
  <2> QED BY <1>4, <1>6, <1>7, <1>10, <2>1, FollowsMore
<1>12. Substitutes(disk, new, T)
  <2>1. Agree(stack, new, n)
    BY <1>2 DEF Agree
  <2>2. Follows(disk, new[n], T[MaxDepth - n], new[n].next - 1)
    BY <1>2, <1>5, <1>11
  <2>3. Len(stack) \in Nat
    BY <1>3
  <2> QED BY <1>1, <1>2, <1>3, <2>1, <2>2, <2>3, SubstitutesTop
<1>13. Fresh(disk, new, seen)
  <2>1. \A h \in 1..n : new[h].path = stack[h].path /\ new[h].next = stack[h].next
    <3> TAKE h \in 1..n
    <3>1. h = n \/ h \in 1..(n - 1)
      BY <1>2
    <3> QED BY <1>2, <3>1
  <2>2. stack[m].path \in seen
    <3>1. m \in 2..Len(stack)
      BY <1>2, <1>3
    <3> QED BY <1>1, <3>1 DEF Bounds, CyclesCut
  <2>3. \A h \in 1..n : stack[h].path # stack[m].path
    <3> TAKE h \in 1..n
    <3>1. h \in 1..Len(stack) /\ m \in 1..Len(stack) /\ h # m
      BY <1>2, <1>3
    <3> QED BY <1>1, <3>1, Distinct
  <2>4. Len(stack) = m /\ m = n + 1
    BY <1>3
  <2>5. Pops(stack, seen, new)
    BY <1>2, <2>1, <2>2, <2>3, <2>4 DEF Pops
  <2> QED BY <1>1, <2>5, FreshReturn
<1> QED BY <1>12, <1>13

LEMMA SameTree ==
  ASSUME [Next]_vars
  PROVE  disk' = disk /\ (TreeShaped' <=> TreeShaped) /\ Reachable' = Reachable
<1>1. disk' = disk /\ Reachable' = Reachable
  BY SameReachable DEF Next, vars, CopyLine, DropLine, SkipSeen, SkipUnreadable, EnterFile,
         ReturnToCaller, ReturnToCompiler
<1> QED BY <1>1 DEF TreeShaped, Readable

LEMMA TreeStep == Bounds /\ TreeInv /\ [Next]_vars => TreeInv'
<1> SUFFICES ASSUME Bounds, TreeInv, [Next]_vars, TreeShaped', ~done'
             PROVE  Fresh(disk, stack, seen)' /\ (\E T : Levels(disk, T) /\ Substitutes(disk, stack, T))'
  BY DEF TreeInv
<1>1. TreeShaped /\ disk' = disk /\ Reachable' = Reachable
  BY SameTree
<1>2. ~done
  BY DEF Next, vars, CopyLine, DropLine, SkipSeen, SkipUnreadable, EnterFile,
         ReturnToCaller, ReturnToCompiler
<1>3. PICK T : Levels(disk, T) /\ Substitutes(disk, stack, T)
  BY <1>1, <1>2 DEF TreeInv
<1>4. TreeAtWork(T)
  BY <1>1, <1>2, <1>3 DEF TreeInv, TreeAtWork
<1>5. Substitutes(disk, stack', T) /\ Fresh(disk, stack', seen')
  <2>1. CASE CopyLine
    <3>1. seen' = seen
      BY <2>1 DEF CopyLine
    <3> QED BY <1>4, <2>1, <3>1, TreeCopy
  <2>2. CASE Skip
    <3>1. seen' = seen
      BY <2>2 DEF Skip, DropLine, SkipSeen, SkipUnreadable
    <3> QED BY <1>4, <2>2, <3>1, TreeSkip
  <2>3. CASE EnterFile
    BY <1>4, <2>3, TreeEnter
  <2>4. CASE ReturnToCaller
    <3>1. seen' = seen
      BY <2>4 DEF ReturnToCaller
    <3> QED BY <1>4, <2>4, <3>1, TreeReturn
  <2>5. CASE ReturnToCompiler
    BY <2>5 DEF ReturnToCompiler
  <2>6. CASE UNCHANGED vars
    BY <1>4, <2>6 DEF vars, TreeAtWork
  <2> QED BY <2>1, <2>2, <2>3, <2>4, <2>5, <2>6 DEF Next, Skip
<1>6. Levels(disk', T) /\ Substitutes(disk', stack', T)
  BY <1>1, <1>3, <1>5
<1>7. Fresh(disk, stack, seen)'
  BY <1>1, <1>5 DEF Fresh, Passed
<1> QED BY <1>6, <1>7

LEMMA TreeInit == Init => TreeInv
<1> SUFFICES ASSUME Init, TreeShaped
             PROVE  Fresh(disk, stack, seen) /\ \E T : Levels(disk, T) /\ Substitutes(disk, stack, T)
  BY DEF TreeInv
<1>1. /\ disk \in FileSystems /\ disk[Root] \in Seq(Line)
      /\ Len(stack) = 1 /\ stack[1] = Call(Root) /\ seen = {}
  BY IncludeAssumption DEF Init, FileSystems
<1>2. Fresh(disk, stack, seen)
  BY <1>1 DEF Fresh
<1>3. PICK T : Levels(disk, T)
  BY <1>1, LevelsExist
<1>4. Follows(disk, Call(Root), T[MaxDepth - 1], 0)
  BY <1>1, FollowsStart
<1>5. Call(Root).next - 1 = 0
  BY DEF Call
<1>6. Substitutes(disk, stack, T)
  <2>1. \A h \in 1..Len(stack) : h = 1 /\ h = Len(stack)
    BY <1>1
  <2>2. Follows(disk, stack[1], T[MaxDepth - 1], stack[1].next - 1)
    BY <1>1, <1>4, <1>5
  <2> QED BY <2>1, <2>2 DEF Substitutes
<1> QED BY <1>2, <1>3, <1>6

LEMMA VerbatimStep == Bounds /\ TreeInv /\ Verbatim /\ [Next]_vars => Verbatim'
<1> SUFFICES ASSUME Bounds, TreeInv, Verbatim, [Next]_vars, done', TreeShaped'
             PROVE  result' = Substitution(disk', Root)
  BY DEF Verbatim
<1>1. TreeShaped /\ disk' = disk
  BY SameTree
<1>2. CASE ReturnToCompiler
  <2>1. ~done /\ AtEnd /\ Len(stack) = 1 /\ result' = Returned(Top)
    BY <1>2 DEF ReturnToCompiler
  <2>2. PICK T : Levels(disk, T) /\ Substitutes(disk, stack, T)
    BY <1>1, <2>1 DEF TreeInv
  <2>3. TreeAtWork(T)
    BY <1>1, <2>1, <2>2 DEF TreeInv, TreeAtWork
  <2>4. MaxDepth \in Nat /\ Top = stack[1]
    BY <2>1, <2>2, TopAtWork
  <2>5. Top.path = Root
    BY <2>1, <2>4 DEF Bounds, RootFirst
  <2> PICK m : m = MaxDepth
    OBVIOUS
  <2>6. m = MaxDepth - Len(stack) + 1
    BY <2>1, <2>4
  <2>7. Returned(Top) = T[m][Top.path]
    BY <2>1, <2>3, <2>6, ReturnedText
  <2>8. Substitution(disk, Root) = T[MaxDepth][Root]
    BY <2>2, IncludeAssumption DEF Levels
  <2> QED BY <1>1, <2>1, <2>5, <2>7, <2>8
<1>3. CASE ~ReturnToCompiler
  <2>1. UNCHANGED <<done, result>>
    BY <1>3 DEF Next, vars, CopyLine, DropLine, SkipSeen, SkipUnreadable, EnterFile, ReturnToCaller
  <2> QED BY <1>1, <2>1 DEF Verbatim
<1> QED BY <1>2, <1>3

(***************************************************************************)
(* Where no file is reached twice, the lexer's buffer is the compiled file *)
(* with every #include line replaced by the content of the file it names,  *)
(* line by line, whatever the files hold and however deep they are nested. *)
(***************************************************************************)
THEOREM IncludesAreVerbatim == Spec => []Verbatim
<1>1. Init => Bounds /\ TreeInv /\ Verbatim
  <2> SUFFICES ASSUME Init PROVE Bounds /\ TreeInv /\ Verbatim
    OBVIOUS
  <2>1. Shape /\ RootFirst /\ OnlyReachable
    BY CompleteInit DEF CompleteInv, Kept
  <2>2. CyclesCut /\ Verbatim
    BY DEF Init, CyclesCut, Verbatim
  <2> QED BY <2>1, <2>2, TreeInit DEF Bounds
<1>2. Bounds /\ TreeInv /\ Verbatim /\ [Next]_vars => (Bounds /\ TreeInv /\ Verbatim)'
  <2> SUFFICES ASSUME Bounds, TreeInv, Verbatim, [Next]_vars PROVE (Bounds /\ TreeInv /\ Verbatim)'
    OBVIOUS
  <2>1. Shape' /\ CyclesCut' /\ RootFirst' /\ OnlyReachable'
    BY ShapeStep, CyclesCutStep, RootFirstStep, OnlyReachableStep DEF Bounds
  <2> QED BY <2>1, TreeStep, VerbatimStep DEF Bounds
<1> QED
  BY <1>1, <1>2, PTL DEF Spec

=============================================================================
