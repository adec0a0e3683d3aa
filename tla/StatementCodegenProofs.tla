----------------------- MODULE StatementCodegenProofs -----------------------
(***************************************************************************)
(* Proofs about StatementCodegen and StatementExecution, for function      *)
(* bodies of every size: labels are defined once, every jump of a finished *)
(* function has its target, no block is entered by falling into its label, *)
(* and the code does what the source says.                                 *)
(*                                                                         *)
(* gen_stmt emits the code of a statement in pieces: before, between and   *)
(* after its children.  The proofs say of every piece which labels it      *)
(* defines and jumps to, and of every pending task which labels it has     *)
(* promised to define; a step exchanges the promises of one task for       *)
(* labels and for promises of new tasks.                                   *)
(*                                                                         *)
(* The second half follows the pieces into the execution: every statement  *)
(* has a span of the code, its children's spans are inside it, and what    *)
(* the source has left to do is where the program counter is.              *)
(***************************************************************************)
EXTENDS StatementExecution, SequenceTheorems, FiniteSetTheorems, TLAPS

-----------------------------------------------------------------------------
(***************************************************************************)
(* Code.                                                                   *)
(***************************************************************************)
\* An instruction that is a label or a branch, is one of a number.
HasForm(x) ==
  /\ x.op = "label" => \E l \in Nat : x = Label(l)
  /\ x.op = "br" => \E l \in Nat : x = Br(l)
WellFormed(c) == \A i \in 1..Len(c) : HasForm(c[i])

\* The labels c defines.
LabelsOf(c) == {l \in Nat : \E i \in 1..Len(c) : c[i] = Label(l)}

\* No two of its instructions define the same one.
Once(c) ==
  \A i, j \in 1..Len(c) :
    c[i].op = "label" /\ c[j].op = "label" /\ c[i].to = c[j].to => i = j

\* Its labels only follow terminators.
NoFall(c) ==
  \A i \in 1..Len(c) : c[i].op = "label" => i > 1 /\ IsTerminator(c[i - 1])

\* Its jumps go to labels in J.
JumpsInto(c, J) ==
  \A i \in 1..Len(c) : c[i].op # "label" =>
    \A n \in 1..Len(c[i].to) : c[i].to[n] \in J

\* A well-formed piece of code, with labels D and jumps into J.
Piece(s, D, J) ==
  /\ s \in Seq(Instr)
  /\ WellFormed(s)
  /\ Once(s)
  /\ NoFall(s)
  /\ LabelsOf(s) = D
  /\ JumpsInto(s, J)

LEMMA InstrTypes ==
  /\ \A l \in Nat : Label(l) \in Instr /\ Br(l) \in Instr
  /\ \A i, l, m \in Nat : CBr(i, l, m) \in Instr
  /\ \A i \in Nat : Ret(i) \in Instr /\ Act(i) \in Instr /\ Step(i) \in Instr
<1>1. ASSUME NEW l \in Nat PROVE <<l>> \in Seq(Nat)
  OBVIOUS
<1>2. ASSUME NEW l \in Nat, NEW m \in Nat PROVE <<l, m>> \in Seq(Nat)
  OBVIOUS
<1>3. << >> \in Seq(Nat)
  OBVIOUS
<1>4. ASSUME NEW l \in Nat PROVE Label(l) \in Instr /\ Br(l) \in Instr
  BY <1>1 DEF Instr, Label, Br
<1>5. ASSUME NEW i \in Nat, NEW l \in Nat, NEW m \in Nat PROVE CBr(i, l, m) \in Instr
  BY <1>2 DEF Instr, CBr
<1>6. ASSUME NEW i \in Nat PROVE Ret(i) \in Instr /\ Act(i) \in Instr /\ Step(i) \in Instr
  BY <1>3 DEF Instr, Ret, Act, Step
<1> QED
  BY <1>4, <1>5, <1>6

(***************************************************************************)
(* What the instructions are, for a proof that does not look at their      *)
(* records.                                                                *)
(***************************************************************************)
LEMMA OpFacts ==
  /\ \A l \in Nat : Label(l).op = "label"
  /\ \A l \in Nat : Br(l).op # "label" /\ IsTerminator(Br(l))
  /\ \A i, l, m \in Nat : CBr(i, l, m).op # "label" /\ IsTerminator(CBr(i, l, m))
  /\ \A i \in Nat : Ret(i).op # "label" /\ IsTerminator(Ret(i))
  /\ \A i \in Nat : Act(i).op # "label" /\ Step(i).op # "label"
BY DEF Label, Br, CBr, Ret, Act, Step, IsTerminator

LEMMA FormFacts ==
  /\ \A l \in Nat : HasForm(Label(l)) /\ HasForm(Br(l))
  /\ \A i, l, m : HasForm(CBr(i, l, m))
  /\ \A i : HasForm(Ret(i)) /\ HasForm(Act(i)) /\ HasForm(Step(i))
BY DEF HasForm, Label, Br, CBr, Ret, Act, Step

LEMMA TargetFacts ==
  /\ \A l \in Nat : Len(Br(l).to) = 1 /\ Br(l).to[1] = l
  /\ \A i, l, m \in Nat : /\ Len(CBr(i, l, m).to) = 2
                          /\ CBr(i, l, m).to[1] = l /\ CBr(i, l, m).to[2] = m
  /\ \A i \in Nat : Len(Ret(i).to) = 0 /\ Len(Act(i).to) = 0 /\ Len(Step(i).to) = 0
BY DEF Br, CBr, Ret, Act, Step

LEMMA LabelInjective ==
  \A l, m \in Nat : Label(l) = Label(m) \/ Label(l).to = Label(m).to => l = m
<1> SUFFICES ASSUME NEW l \in Nat, NEW m \in Nat, Label(l) = Label(m) \/ Label(l).to = Label(m).to
             PROVE  l = m
  OBVIOUS
<1>1. <<l>> = <<m>>
  BY DEF Label
<1> QED
  BY <1>1

LEMMA NotLabel ==
  \A l \in Nat : \A i, m, n \in Nat :
    /\ Br(m) # Label(l) /\ CBr(i, m, n) # Label(l)
    /\ Ret(i) # Label(l) /\ Act(i) # Label(l) /\ Step(i) # Label(l)
BY DEF Label, Br, CBr, Ret, Act, Step

(***************************************************************************)
(* The pieces: one instruction that is no label; a terminator and the      *)
(* label after it; and what is put together from them.                     *)
(***************************************************************************)
LEMMA EmptyPiece == \A J : Piece(<< >>, {}, J)
BY EmptySeq DEF Piece, WellFormed, Once, NoFall, LabelsOf, JumpsInto

LEMMA PlainPiece ==
  ASSUME NEW x \in Instr, x.op # "label", NEW J,
         \A n \in 1..Len(x.to) : x.to[n] \in J, HasForm(x)
  PROVE  Piece(<<x>>, {}, J)
<1> DEFINE s == <<x>>
<1>1. s \in Seq(Instr) /\ Len(s) = 1 /\ s[1] = x
  OBVIOUS
<1> HIDE DEF s
<1>2. \A k \in 1..Len(s) : s[k] = x
  BY <1>1
<1>3. WellFormed(s) /\ Once(s) /\ NoFall(s)
  BY <1>2 DEF WellFormed, Once, NoFall
<1>4. LabelsOf(s) = {}
  BY <1>2, OpFacts DEF LabelsOf
<1>5. JumpsInto(s, J)
  BY <1>2 DEF JumpsInto
<1> QED
  BY <1>1, <1>3, <1>4, <1>5 DEF Piece, s

LEMMA BlockPiece ==
  ASSUME NEW x \in Instr, x.op # "label", IsTerminator(x), NEW J,
         \A n \in 1..Len(x.to) : x.to[n] \in J, HasForm(x),
         NEW l \in Nat
  PROVE  Piece(<<x, Label(l)>>, {l}, J)
<1> DEFINE s == <<x, Label(l)>>
<1>1. s \in Seq(Instr) /\ Len(s) = 2 /\ s[1] = x /\ s[2] = Label(l)
  BY InstrTypes
<1> HIDE DEF s
<1>2. \A k \in 1..Len(s) :
        \/ k = 1 /\ s[k] = x
        \/ k = 2 /\ s[k] = Label(l)
  BY <1>1
<1>3. ASSUME NEW k \in 1..Len(s), s[k].op = "label" PROVE k = 2
  <2>1. s[k] # x
    BY <1>3
  <2> QED
    BY <1>2, <2>1
<1>4. WellFormed(s)
  BY <1>2, FormFacts DEF WellFormed
<1>5. Once(s) /\ NoFall(s)
  BY <1>1, <1>3 DEF Once, NoFall
<1>6. LabelsOf(s) = {l}
  <2>1. \A m \in Nat : x # Label(m)
    BY OpFacts
  <2> QED
    BY <1>1, <1>2, <2>1, LabelInjective DEF LabelsOf
<1>7. JumpsInto(s, J)
  BY <1>1, <1>2, OpFacts DEF JumpsInto
<1> QED
  BY <1>1, <1>4, <1>5, <1>6, <1>7 DEF Piece, s

LEMMA PieceConcat ==
  ASSUME NEW s, NEW D, NEW J, Piece(s, D, J),
         NEW t, NEW E, NEW K, Piece(t, E, K),
         D \cap E = {}
  PROVE  Piece(s \o t, D \cup E, J \cup K)
<1> DEFINE u == s \o t
<1>1. s \in Seq(Instr) /\ t \in Seq(Instr)
  BY DEF Piece
<1>2. /\ u \in Seq(Instr) /\ Len(s) \in Nat /\ Len(t) \in Nat
      /\ Len(u) = Len(s) + Len(t)
      /\ \A k \in 1..Len(u) : u[k] = IF k <= Len(s) THEN s[k] ELSE t[k - Len(s)]
  BY <1>1, ConcatProperties
<1>3. /\ WellFormed(s) /\ Once(s) /\ NoFall(s) /\ LabelsOf(s) = D /\ JumpsInto(s, J)
      /\ WellFormed(t) /\ Once(t) /\ NoFall(t) /\ LabelsOf(t) = E /\ JumpsInto(t, K)
  BY DEF Piece
<1> HIDE DEF u
<1>4. \A k \in 1..Len(u) :
        \/ k \in 1..Len(s) /\ u[k] = s[k]
        \/ k - Len(s) \in 1..Len(t) /\ u[k] = t[k - Len(s)]
  BY <1>2
<1>5. /\ \A k \in 1..Len(s) : k \in 1..Len(u) /\ u[k] = s[k]
      /\ \A k \in 1..Len(t) : k + Len(s) \in 1..Len(u) /\ u[k + Len(s)] = t[k]
  BY <1>2
<1>6. WellFormed(u)
  BY <1>3, <1>4 DEF WellFormed
<1>7. LabelsOf(u) = D \cup E
  <2>1. \A l \in LabelsOf(u) : l \in LabelsOf(s) \cup LabelsOf(t)
    BY <1>4 DEF LabelsOf
  <2>2. \A l \in LabelsOf(s) \cup LabelsOf(t) : l \in LabelsOf(u)
    BY <1>5 DEF LabelsOf
  <2> QED
    BY <1>3, <2>1, <2>2
<1>8. Once(u)
  <2> SUFFICES ASSUME NEW i \in 1..Len(u), NEW j \in 1..Len(u),
                      u[i].op = "label", u[j].op = "label", u[i].to = u[j].to
               PROVE  i = j
    BY DEF Once
  <2>1. CASE i \in 1..Len(s) /\ u[i] = s[i] /\ j \in 1..Len(s) /\ u[j] = s[j]
    BY <1>3, <2>1 DEF Once
  <2>2. CASE /\ i - Len(s) \in 1..Len(t) /\ u[i] = t[i - Len(s)]
             /\ j - Len(s) \in 1..Len(t) /\ u[j] = t[j - Len(s)]
    <3>1. i - Len(s) = j - Len(s)
      BY <1>3, <2>2 DEF Once
    <3> QED
      BY <1>2, <3>1
  <2>3. ASSUME NEW p \in 1..Len(s), NEW q \in 1..Len(t), s[p].op = "label",
               t[q].op = "label", s[p].to = t[q].to
        PROVE  FALSE
    <3>1. PICK l \in Nat : s[p] = Label(l)
      BY <1>3, <2>3 DEF WellFormed, HasForm
    <3>2. PICK m \in Nat : t[q] = Label(m)
      BY <1>3, <2>3 DEF WellFormed, HasForm
    <3>3. l = m
      BY <2>3, <3>1, <3>2, LabelInjective
    <3>4. l \in D /\ l \in E
      BY <1>3, <2>3, <3>1, <3>2, <3>3 DEF LabelsOf
    <3> QED
      BY <3>4
  <2> QED
    BY <1>4, <2>1, <2>2, <2>3
<1>9. NoFall(u)
  <2> SUFFICES ASSUME NEW i \in 1..Len(u), u[i].op = "label"
               PROVE  i > 1 /\ IsTerminator(u[i - 1])
    BY DEF NoFall
  <2>1. CASE i \in 1..Len(s) /\ u[i] = s[i]
    <3>1. i > 1 /\ IsTerminator(s[i - 1])
      BY <1>3, <2>1 DEF NoFall
    <3>2. i - 1 \in 1..Len(s)
      BY <1>2, <2>1, <3>1
    <3>3. u[i - 1] = s[i - 1]
      BY <1>5, <3>2
    <3> QED
      BY <3>1, <3>3
  <2>2. CASE i - Len(s) \in 1..Len(t) /\ u[i] = t[i - Len(s)]
    <3>1. i - Len(s) > 1 /\ IsTerminator(t[(i - Len(s)) - 1])
      BY <1>3, <2>2 DEF NoFall
    <3>2. (i - Len(s)) - 1 \in 1..Len(t) /\ ((i - Len(s)) - 1) + Len(s) = i - 1
      BY <1>2, <2>2, <3>1
    <3>3. u[i - 1] = t[(i - Len(s)) - 1]
      BY <1>5, <3>2
    <3> QED
      BY <1>2, <3>1, <3>3
  <2> QED
    BY <1>4, <2>1, <2>2
<1>10. JumpsInto(u, J \cup K)
  BY <1>3, <1>4 DEF JumpsInto
<1> QED
  BY <1>2, <1>6, <1>7, <1>8, <1>9, <1>10 DEF Piece, u

LEMMA PieceWeaken ==
  ASSUME NEW s, NEW D, NEW J, Piece(s, D, J), NEW K, J \subseteq K
  PROVE  Piece(s, D, K)
BY DEF Piece, JumpsInto

-----------------------------------------------------------------------------
(***************************************************************************)
(* The pieces gen_stmt emits.                                              *)
(***************************************************************************)
LEMMA BranchPiece ==
  ASSUME NEW j \in Nat, NEW l \in Nat
  PROVE  Piece(<<Br(j), Label(l)>>, {l}, {j})
<1>1. Br(j) \in Instr /\ Br(j).op # "label" /\ IsTerminator(Br(j))
  BY InstrTypes, OpFacts
<1>2. \A n \in 1..Len(Br(j).to) : Br(j).to[n] \in {j}
  BY TargetFacts
<1> QED
  BY <1>1, <1>2, FormFacts, BlockPiece

LEMMA ConditionPiece ==
  ASSUME NEW i \in Nat, NEW j \in Nat, NEW k \in Nat, NEW l \in Nat
  PROVE  Piece(<<CBr(i, j, k), Label(l)>>, {l}, {j, k})
<1>1. CBr(i, j, k) \in Instr /\ CBr(i, j, k).op # "label" /\ IsTerminator(CBr(i, j, k))
  BY InstrTypes, OpFacts
<1>2. \A n \in 1..Len(CBr(i, j, k).to) : CBr(i, j, k).to[n] \in {j, k}
  <2>1. /\ Len(CBr(i, j, k).to) = 2
        /\ CBr(i, j, k).to[1] = j /\ CBr(i, j, k).to[2] = k
    BY TargetFacts
  <2> QED
    BY <2>1
<1> QED
  BY <1>1, <1>2, FormFacts, BlockPiece

LEMMA OpaquePiece ==
  ASSUME NEW i \in Nat, NEW x \in {Ret(i), Act(i), Step(i)}
  PROVE  Piece(<<x>>, {}, {})
<1>1. x \in Instr /\ x.op # "label" /\ Len(x.to) = 0
  BY InstrTypes, OpFacts, TargetFacts
<1>2. \A n \in 1..Len(x.to) : x.to[n] \in {}
  BY <1>1
<1> QED
  BY <1>1, <1>2, FormFacts, PlainPiece

LEMMA JumpPiece ==
  ASSUME NEW j \in Nat
  PROVE  Piece(<<Br(j)>>, {}, {j})
<1>1. Br(j) \in Instr /\ Br(j).op # "label"
  BY InstrTypes, OpFacts
<1>2. \A n \in 1..Len(Br(j).to) : Br(j).to[n] \in {j}
  BY TargetFacts
<1> QED
  BY <1>1, <1>2, FormFacts, PlainPiece

LEMMA WhileHeadPiece ==
  ASSUME NEW i \in Nat, NEW c \in Nat, NEW b \in Nat, NEW e \in Nat, c # b
  PROVE  Piece(WhileHead(i, c, b, e), {c, b}, {c, b, e})
<1>1. WhileHead(i, c, b, e) = <<Br(c), Label(c)>> \o <<CBr(i, b, e), Label(b)>>
  BY DEF WhileHead
<1>2. Piece(<<Br(c), Label(c)>>, {c}, {c})
  BY BranchPiece
<1>3. Piece(<<CBr(i, b, e), Label(b)>>, {b}, {b, e})
  BY ConditionPiece
<1>4. Piece(WhileHead(i, c, b, e), {c} \cup {b}, {c} \cup {b, e})
  BY <1>1, <1>2, <1>3, PieceConcat
<1>5. {c} \cup {b} = {c, b} /\ {c} \cup {b, e} = {c, b, e}
  OBVIOUS
<1> QED
  BY <1>4, <1>5

LEMMA ForHeadPiece ==
  ASSUME NEW i \in Nat, NEW c \in Nat, NEW b \in Nat, NEW e \in Nat, c # b
  PROVE  Piece(ForHead(i, c, b, e), {c, b}, {c, b, e})
<1>1. ForHead(i, c, b, e) = <<Act(i)>> \o WhileHead(i, c, b, e)
  BY DEF ForHead, WhileHead
<1>2. Piece(<<Act(i)>>, {}, {})
  BY OpaquePiece
<1>3. Piece(ForHead(i, c, b, e), {} \cup {c, b}, {} \cup {c, b, e})
  <2>1. Piece(WhileHead(i, c, b, e), {c, b}, {c, b, e})
    BY WhileHeadPiece
  <2>2. {} \cap {c, b} = {}
    OBVIOUS
  <2> QED
    BY <1>1, <1>2, <2>1, <2>2, PieceConcat
<1>4. {} \cup {c, b} = {c, b} /\ {} \cup {c, b, e} = {c, b, e}
  OBVIOUS
<1> QED
  BY <1>3, <1>4

LEMMA ForTailPiece ==
  ASSUME NEW i \in Nat, NEW c \in Nat, NEW s \in Nat, NEW e \in Nat, s # e
  PROVE  Piece(ForTail(i, c, s, e), {s, e}, {s, c})
<1>1. ForTail(i, c, s, e)
        = (<<Br(s), Label(s)>> \o <<Step(i)>>) \o <<Br(c), Label(e)>>
  BY DEF ForTail
<1>2. Piece(<<Br(s), Label(s)>> \o <<Step(i)>>, {s} \cup {}, {s} \cup {})
  BY BranchPiece, OpaquePiece, PieceConcat
<1>3. Piece(<<Br(c), Label(e)>>, {e}, {c})
  BY BranchPiece
<1>4. Piece(ForTail(i, c, s, e), ({s} \cup {}) \cup {e}, ({s} \cup {}) \cup {c})
  BY <1>1, <1>2, <1>3, PieceConcat
<1>5. ({s} \cup {}) \cup {e} = {s, e} /\ ({s} \cup {}) \cup {c} = {s, c}
  OBVIOUS
<1> QED
  BY <1>4, <1>5

LEMMA ForFailurePiece ==
  ASSUME NEW i \in Nat, NEW n \in Nat
  PROVE  Piece(<<Act(i), Br(n), Label(n)>>, {n}, {n})
<1>1. <<Act(i), Br(n), Label(n)>> = <<Act(i)>> \o <<Br(n), Label(n)>>
  OBVIOUS
<1>2. Piece(<<Act(i)>>, {}, {}) /\ Piece(<<Br(n), Label(n)>>, {n}, {n})
  BY OpaquePiece, BranchPiece
<1>3. Piece(<<Act(i)>> \o <<Br(n), Label(n)>>, {} \cup {n}, {} \cup {n})
  <2>1. {} \cap {n} = {}
    OBVIOUS
  <2> QED
    BY <1>2, <2>1, PieceConcat
<1>4. {} \cup {n} = {n}
  OBVIOUS
<1> QED
  BY <1>1, <1>3, <1>4

-----------------------------------------------------------------------------
(***************************************************************************)
(* Pending tasks.                                                          *)
(***************************************************************************)
\* The tasks gen_stmt leaves, with the labels they carry.
Shaped(t) ==
  \/ \E i \in Nat : t = Stmt(i)
  \/ \E i \in Nat, els \in Nat \cup {NoLabel}, end \in Nat :
       els # end /\ t = EndThen(i, els, end)
  \/ \E end \in Nat : t = EndElse(end)
  \/ \E c, e \in Nat : t = EndWhile(c, e)
  \/ \E i, c, s, e \in Nat : s # e /\ t = EndFor(i, c, s, e)

\* The labels a task will define, and those it will jump to besides.
Pending(t) ==
  IF t.task = "then" THEN {t.lbl[1], t.lbl[2]} \ {NoLabel}
  ELSE IF t.task = "else" THEN {t.lbl[1]}
  ELSE IF t.task = "while" THEN {t.lbl[2]}
  ELSE IF t.task = "for" THEN {t.lbl[2], t.lbl[3]}
  ELSE {}

Needs(t) == IF t.task \in {"while", "for"} THEN {t.lbl[1]} ELSE {}

AllPending(q) == UNION {Pending(q[k]) : k \in 1..Len(q)}

Tasks(q) ==
  /\ q \in Seq(Task)
  /\ \A k \in 1..Len(q) : Shaped(q[k])
  /\ \A j, k \in 1..Len(q) : j # k => Pending(q[j]) \cap Pending(q[k]) = {}

LEMMA TaskFacts ==
  /\ \A i \in Nat :
       LET t == Stmt(i)
       IN  t \in Task /\ Shaped(t) /\ Pending(t) = {} /\ Needs(t) = {}
  /\ \A i \in Nat, els \in Nat \cup {NoLabel}, end \in Nat :
       LET t == EndThen(i, els, end)
       IN  t \in Task /\ Pending(t) = {els, end} \ {NoLabel} /\ Needs(t) = {}
  /\ \A end \in Nat :
       LET t == EndElse(end)
       IN  t \in Task /\ Shaped(t) /\ Pending(t) = {end} /\ Needs(t) = {}
  /\ \A c, e \in Nat :
       LET t == EndWhile(c, e)
       IN  t \in Task /\ Shaped(t) /\ Pending(t) = {e} /\ Needs(t) = {c}
  /\ \A i, c, s, e \in Nat :
       LET t == EndFor(i, c, s, e)
       IN  t \in Task /\ Pending(t) = {s, e} /\ Needs(t) = {c}
<1>1. ASSUME NEW i \in Nat
      PROVE  LET t == Stmt(i)
             IN  t \in Task /\ Shaped(t) /\ Pending(t) = {} /\ Needs(t) = {}
  <2>1. << >> \in Seq(Nat \cup {NoLabel})
    OBVIOUS
  <2>2. Shaped(Stmt(i))
    BY DEF Shaped
  <2> QED
    BY <2>1, <2>2 DEF Stmt, Task, Pending, Needs
<1>2. ASSUME NEW i \in Nat, NEW els \in Nat \cup {NoLabel}, NEW end \in Nat
      PROVE  LET t == EndThen(i, els, end)
             IN  t \in Task /\ Pending(t) = {els, end} \ {NoLabel} /\ Needs(t) = {}
  <2>1. <<els, end>> \in Seq(Nat \cup {NoLabel})
    OBVIOUS
  <2> QED
    BY <2>1 DEF EndThen, Task, Pending, Needs
<1>3. ASSUME NEW end \in Nat
      PROVE  LET t == EndElse(end)
             IN  t \in Task /\ Shaped(t) /\ Pending(t) = {end} /\ Needs(t) = {}
  <2>1. <<end>> \in Seq(Nat \cup {NoLabel})
    OBVIOUS
  <2>2. EndElse(end) \in Task
    BY <2>1 DEF EndElse, Task
  <2>3. Shaped(EndElse(end))
    BY DEF Shaped
  <2> QED
    BY <2>2, <2>3 DEF EndElse, Pending, Needs
<1>4. ASSUME NEW c \in Nat, NEW e \in Nat
      PROVE  LET t == EndWhile(c, e)
             IN  t \in Task /\ Shaped(t) /\ Pending(t) = {e} /\ Needs(t) = {c}
  <2>1. <<c, e>> \in Seq(Nat \cup {NoLabel})
    OBVIOUS
  <2>2. EndWhile(c, e) \in Task
    BY <2>1 DEF EndWhile, Task
  <2>3. Shaped(EndWhile(c, e))
    BY DEF Shaped
  <2> QED
    BY <2>2, <2>3 DEF EndWhile, Pending, Needs
<1>5. ASSUME NEW i \in Nat, NEW c \in Nat, NEW s \in Nat, NEW e \in Nat
      PROVE  LET t == EndFor(i, c, s, e)
             IN  t \in Task /\ Pending(t) = {s, e} /\ Needs(t) = {c}
  <2>1. <<c, s, e>> \in Seq(Nat \cup {NoLabel})
    OBVIOUS
  <2> QED
    BY <2>1 DEF EndFor, Task, Pending, Needs
<1> QED
  BY <1>1, <1>2, <1>3, <1>4, <1>5

LEMMA AllPendingEmpty == AllPending(<< >>) = {}
BY DEF AllPending

\* The first task and the rest.
LEMMA TasksSplit ==
  ASSUME NEW q, Tasks(q), q # << >>
  PROVE  /\ Shaped(Head(q)) /\ Tasks(Tail(q))
         /\ AllPending(q) = Pending(Head(q)) \cup AllPending(Tail(q))
         /\ Pending(Head(q)) \cap AllPending(Tail(q)) = {}
         /\ \A k \in 1..Len(Tail(q)) : \E j \in 1..Len(q) : Tail(q)[k] = q[j]
<1> DEFINE r == Tail(q)
<1>1. q \in Seq(Task)
  BY DEF Tasks
<1>2. /\ r \in Seq(Task) /\ Len(q) \in Nat \ {0} /\ Len(r) = Len(q) - 1
      /\ \A k \in 1..Len(r) : r[k] = q[k + 1]
      /\ Head(q) = q[1]
  BY <1>1, HeadTailProperties, EmptySeq
<1>3. \A k \in 1..Len(r) : k + 1 \in 1..Len(q)
  BY <1>2
<1>4. \A k \in 1..Len(q) : k = 1 \/ (k - 1 \in 1..Len(r) /\ r[k - 1] = q[k])
  BY <1>2
<1>5. 1 \in 1..Len(q)
  BY <1>2
<1> HIDE DEF r
<1>6. Shaped(Head(q))
  BY <1>2, <1>5 DEF Tasks
<1>7. Tasks(r)
  <2>1. \A k \in 1..Len(r) : Shaped(r[k])
    BY <1>2, <1>3 DEF Tasks
  <2>2. ASSUME NEW j \in 1..Len(r), NEW k \in 1..Len(r), j # k
        PROVE  Pending(r[j]) \cap Pending(r[k]) = {}
    <3>1. j + 1 # k + 1 /\ j + 1 \in 1..Len(q) /\ k + 1 \in 1..Len(q)
      BY <1>2, <1>3, <2>2
    <3> QED
      BY <1>2, <3>1 DEF Tasks
  <2> QED
    BY <1>2, <2>1, <2>2 DEF Tasks
<1>8. AllPending(q) = Pending(Head(q)) \cup AllPending(r)
  <2>1. ASSUME NEW x \in AllPending(q) PROVE x \in Pending(Head(q)) \cup AllPending(r)
    <3>1. PICK k \in 1..Len(q) : x \in Pending(q[k])
      BY <2>1 DEF AllPending
    <3> QED
      BY <1>2, <1>4, <3>1 DEF AllPending
  <2>2. ASSUME NEW x \in AllPending(r) PROVE x \in AllPending(q)
    <3>1. PICK k \in 1..Len(r) : x \in Pending(r[k])
      BY <2>2 DEF AllPending
    <3>2. k + 1 \in 1..Len(q) /\ x \in Pending(q[k + 1])
      BY <1>2, <1>3, <3>1
    <3> QED
      BY <3>2 DEF AllPending
  <2>3. Pending(Head(q)) \subseteq AllPending(q)
    BY <1>2, <1>5 DEF AllPending
  <2> QED
    BY <2>1, <2>2, <2>3
<1>9. Pending(Head(q)) \cap AllPending(r) = {}
  <2> SUFFICES ASSUME NEW x \in Pending(Head(q)), x \in AllPending(r) PROVE FALSE
    OBVIOUS
  <2>1. PICK k \in 1..Len(r) : x \in Pending(r[k])
    BY DEF AllPending
  <2>2. k + 1 \in 1..Len(q) /\ k + 1 # 1 /\ x \in Pending(q[k + 1]) /\ x \in Pending(q[1])
    BY <1>2, <1>3, <2>1
  <2> QED
    BY <1>5, <2>2 DEF Tasks
<1>10. \A k \in 1..Len(r) : \E j \in 1..Len(q) : r[k] = q[j]
  BY <1>2, <1>3
<1> QED
  BY <1>6, <1>7, <1>8, <1>9, <1>10 DEF r

\* New tasks before the others.
LEMMA TasksConcat ==
  ASSUME NEW p, Tasks(p), NEW r, Tasks(r), AllPending(p) \cap AllPending(r) = {}
  PROVE  /\ Tasks(p \o r)
         /\ AllPending(p \o r) = AllPending(p) \cup AllPending(r)
         /\ \A k \in 1..Len(p \o r) :
              \/ \E j \in 1..Len(p) : (p \o r)[k] = p[j]
              \/ \E j \in 1..Len(r) : (p \o r)[k] = r[j]
<1> DEFINE u == p \o r
<1>1. p \in Seq(Task) /\ r \in Seq(Task)
  BY DEF Tasks
<1>2. /\ u \in Seq(Task) /\ Len(p) \in Nat /\ Len(r) \in Nat
      /\ Len(u) = Len(p) + Len(r)
      /\ \A k \in 1..Len(u) : u[k] = IF k <= Len(p) THEN p[k] ELSE r[k - Len(p)]
  BY <1>1, ConcatProperties
<1> HIDE DEF u
<1>3. \A k \in 1..Len(u) :
        \/ k \in 1..Len(p) /\ u[k] = p[k]
        \/ k - Len(p) \in 1..Len(r) /\ u[k] = r[k - Len(p)]
  BY <1>2
<1>4. /\ \A k \in 1..Len(p) : k \in 1..Len(u) /\ u[k] = p[k]
      /\ \A k \in 1..Len(r) : k + Len(p) \in 1..Len(u) /\ u[k + Len(p)] = r[k]
  BY <1>2
<1>5. \A k \in 1..Len(u) : Shaped(u[k])
  BY <1>3 DEF Tasks
<1>6. ASSUME NEW j \in 1..Len(u), NEW k \in 1..Len(u), j # k
      PROVE  Pending(u[j]) \cap Pending(u[k]) = {}
  <2>1. \A i \in 1..Len(p) : Pending(p[i]) \subseteq AllPending(p)
    BY DEF AllPending
  <2>2. \A i \in 1..Len(r) : Pending(r[i]) \subseteq AllPending(r)
    BY DEF AllPending
  <2>3. CASE j \in 1..Len(p) /\ u[j] = p[j] /\ k \in 1..Len(p) /\ u[k] = p[k]
    BY <1>6, <2>3 DEF Tasks
  <2>4. CASE /\ j - Len(p) \in 1..Len(r) /\ u[j] = r[j - Len(p)]
             /\ k - Len(p) \in 1..Len(r) /\ u[k] = r[k - Len(p)]
    <3>1. j - Len(p) # k - Len(p)
      BY <1>2, <1>6
    <3> QED
      BY <2>4, <3>1 DEF Tasks
  <2>5. CASE j \in 1..Len(p) /\ u[j] = p[j] /\ k - Len(p) \in 1..Len(r) /\ u[k] = r[k - Len(p)]
    <3>1. Pending(u[j]) \subseteq AllPending(p) /\ Pending(u[k]) \subseteq AllPending(r)
      BY <2>1, <2>2, <2>5
    <3> QED
      BY <3>1
  <2>6. CASE k \in 1..Len(p) /\ u[k] = p[k] /\ j - Len(p) \in 1..Len(r) /\ u[j] = r[j - Len(p)]
    <3>1. Pending(u[k]) \subseteq AllPending(p) /\ Pending(u[j]) \subseteq AllPending(r)
      BY <2>1, <2>2, <2>6
    <3> QED
      BY <3>1
  <2> QED
    BY <1>3, <2>3, <2>4, <2>5, <2>6
<1>7. AllPending(u) = AllPending(p) \cup AllPending(r)
  <2>1. ASSUME NEW x \in AllPending(u) PROVE x \in AllPending(p) \cup AllPending(r)
    <3>1. PICK k \in 1..Len(u) : x \in Pending(u[k])
      BY <2>1 DEF AllPending
    <3> QED
      BY <1>3, <3>1 DEF AllPending
  <2>2. ASSUME NEW x \in AllPending(p) PROVE x \in AllPending(u)
    <3>1. PICK k \in 1..Len(p) : x \in Pending(p[k])
      BY <2>2 DEF AllPending
    <3> QED
      BY <1>4, <3>1 DEF AllPending
  <2>3. ASSUME NEW x \in AllPending(r) PROVE x \in AllPending(u)
    <3>1. PICK k \in 1..Len(r) : x \in Pending(r[k])
      BY <2>3 DEF AllPending
    <3>2. k + Len(p) \in 1..Len(u) /\ x \in Pending(u[k + Len(p)])
      BY <1>4, <3>1
    <3> QED
      BY <3>2 DEF AllPending
  <2> QED
    BY <2>1, <2>2, <2>3
<1>8. \A k \in 1..Len(u) :
        (\E j \in 1..Len(p) : u[k] = p[j]) \/ (\E j \in 1..Len(r) : u[k] = r[j])
  BY <1>3
<1> QED
  BY <1>2, <1>5, <1>6, <1>7, <1>8 DEF Tasks, u

\* The lists of new tasks gen_stmt makes.
LEMMA NoTasks == Tasks(<< >>)
BY EmptySeq DEF Tasks

LEMMA OneThen ==
  ASSUME NEW i \in Nat, NEW t \in Task, Shaped(t)
  PROVE  /\ Tasks(<<Stmt(i), t>>) /\ AllPending(<<Stmt(i), t>>) = Pending(t)
         /\ \A k \in 1..Len(<<Stmt(i), t>>) : Needs(<<Stmt(i), t>>[k]) \subseteq Needs(t)
<1> DEFINE p == <<Stmt(i), t>>
<1>1. Stmt(i) \in Task /\ Shaped(Stmt(i)) /\ Pending(Stmt(i)) = {} /\ Needs(Stmt(i)) = {}
  BY TaskFacts
<1>2. p \in Seq(Task) /\ Len(p) = 2 /\ p[1] = Stmt(i) /\ p[2] = t
  BY <1>1
<1> HIDE DEF p
<1>3. \A k \in 1..Len(p) :
        \/ k = 1 /\ p[k] = Stmt(i)
        \/ k = 2 /\ p[k] = t
  BY <1>2
<1>4. \A k \in 1..Len(p) : Shaped(p[k])
  BY <1>1, <1>3
<1>5. ASSUME NEW j \in 1..Len(p), NEW k \in 1..Len(p), j # k
      PROVE  Pending(p[j]) \cap Pending(p[k]) = {}
  <2>1. p[j] = Stmt(i) \/ p[k] = Stmt(i)
    BY <1>3, <1>5
  <2> QED
    BY <1>1, <2>1
<1>6. AllPending(p) = Pending(t)
  <2>1. ASSUME NEW x \in AllPending(p) PROVE x \in Pending(t)
    BY <1>1, <1>3, <2>1 DEF AllPending
  <2>2. 2 \in 1..Len(p)
    BY <1>2
  <2>3. Pending(t) \subseteq AllPending(p)
    BY <1>2, <2>2 DEF AllPending
  <2> QED
    BY <2>1, <2>3
<1>7. \A k \in 1..Len(p) : Needs(p[k]) \subseteq Needs(t)
  BY <1>1, <1>3
<1> QED
  BY <1>2, <1>4, <1>5, <1>6, <1>7 DEF Tasks, p

-----------------------------------------------------------------------------
(***************************************************************************)
(* The labels of loop scopes.                                              *)
(***************************************************************************)
ScopeLabels(sc) == UNION {{sc[k].break_lbl, sc[k].continue_lbl} : k \in 1..Len(sc)}

LEMMA PushedScope ==
  ASSUME NEW sc \in Seq(LoopScope), NEW b \in Nat, NEW c \in Nat
  PROVE  /\ Append(sc, Scope(b, c)) \in Seq(LoopScope)
         /\ ScopeLabels(Append(sc, Scope(b, c))) \subseteq ScopeLabels(sc) \cup {b, c}
<1> DEFINE u == Append(sc, Scope(b, c))
<1>1. Scope(b, c) \in LoopScope /\ Scope(b, c).break_lbl = b /\ Scope(b, c).continue_lbl = c
  BY DEF Scope, LoopScope
<1>2. /\ u \in Seq(LoopScope) /\ Len(u) = Len(sc) + 1 /\ Len(sc) \in Nat
      /\ \A k \in 1..Len(sc) : u[k] = sc[k]
      /\ u[Len(sc) + 1] = Scope(b, c)
  BY <1>1, AppendProperties, LenProperties
<1> HIDE DEF u
<1>3. ASSUME NEW x \in ScopeLabels(u) PROVE x \in ScopeLabels(sc) \cup {b, c}
  <2>1. PICK k \in 1..Len(u) : x \in {u[k].break_lbl, u[k].continue_lbl}
    BY <1>3 DEF ScopeLabels
  <2>2. CASE k = Len(sc) + 1
    BY <1>1, <1>2, <2>1, <2>2
  <2>3. CASE k # Len(sc) + 1
    <3>1. k \in 1..Len(sc)
      BY <1>2, <2>3
    <3> QED
      BY <1>2, <2>1, <3>1 DEF ScopeLabels
  <2> QED
    BY <2>2, <2>3
<1> QED
  BY <1>2, <1>3 DEF u

LEMMA PoppedScope ==
  ASSUME NEW sc \in Seq(LoopScope)
  PROVE  /\ SubSeq(sc, 1, Len(sc) - 1) \in Seq(LoopScope)
         /\ ScopeLabels(SubSeq(sc, 1, Len(sc) - 1)) \subseteq ScopeLabels(sc)
<1> DEFINE u == SubSeq(sc, 1, Len(sc) - 1)
<1>1. Len(sc) \in Nat /\ \A k \in 1..(Len(sc) - 1) : k \in 1..Len(sc) /\ sc[k] \in LoopScope
  BY ElementOfSeq, LenProperties
<1>2. /\ u \in Seq(LoopScope)
      /\ Len(u) = IF 1 <= Len(sc) - 1 THEN (Len(sc) - 1) - 1 + 1 ELSE 0
      /\ \A k \in 1..((Len(sc) - 1) - 1 + 1) : u[k] = sc[1 + k - 1]
  BY <1>1, SubSeqProperties
<1> HIDE DEF u
<1>3. \A k \in 1..Len(u) : k \in 1..Len(sc) /\ u[k] = sc[k]
  BY <1>1, <1>2
<1>4. ASSUME NEW x \in ScopeLabels(u) PROVE x \in ScopeLabels(sc)
  <2>1. PICK k \in 1..Len(u) : x \in {u[k].break_lbl, u[k].continue_lbl}
    BY <1>4 DEF ScopeLabels
  <2>2. k \in 1..Len(sc) /\ x \in {sc[k].break_lbl, sc[k].continue_lbl}
    BY <1>3, <2>1
  <2> QED
    BY <2>2 DEF ScopeLabels
<1> QED
  BY <1>2, <1>4 DEF u

LEMMA TopScope ==
  ASSUME NEW sc \in Seq(LoopScope), sc # << >>
  PROVE  LET top == sc[Len(sc)]
         IN  /\ top.break_lbl \in Nat /\ top.continue_lbl \in Nat
             /\ top.break_lbl \in ScopeLabels(sc) /\ top.continue_lbl \in ScopeLabels(sc)
<1>1. Len(sc) \in 1..Len(sc)
  BY EmptySeq
<1>2. sc[Len(sc)] \in LoopScope
  BY <1>1, ElementOfSeq
<1>3. sc[Len(sc)].break_lbl \in Nat /\ sc[Len(sc)].continue_lbl \in Nat
  BY <1>2 DEF LoopScope
<1>4. /\ sc[Len(sc)].break_lbl \in ScopeLabels(sc)
      /\ sc[Len(sc)].continue_lbl \in ScopeLabels(sc)
  BY <1>1 DEF ScopeLabels
<1> QED
  BY <1>3, <1>4

-----------------------------------------------------------------------------
(***************************************************************************)
(* The inductive invariant.                                                *)
(***************************************************************************)
\* The labels the code defines or will define.
Known(c, q) == LabelsOf(c) \cup AllPending(q)

\* The code is well formed, and every label that is promised is promised
\* once, is not yet defined, and was taken from the counter.
Sound(c, q, n) ==
  /\ Piece(c, LabelsOf(c), Nat)
  /\ Tasks(q)
  /\ Known(c, q) \subseteq 0..(n - 1)
  /\ LabelsOf(c) \cap AllPending(q) = {}

\* Every label the code, a task or a loop scope refers to is defined or
\* promised.
Linked(c, q, sc) ==
  /\ JumpsInto(c, Known(c, q))
  /\ \A k \in 1..Len(q) : Needs(q[k]) \subseteq Known(c, q)
  /\ ScopeLabels(sc) \subseteq Known(c, q)

\* The if a task returns to is a statement with children of the function g.
Inside(t, g) == t.task = "then" => t.at + 1 \in 1..Len(g)

IInv ==
  /\ prog \in Programs
  /\ isVoid \in BOOLEAN
  /\ scopes \in Seq(LoopScope)
  /\ nlabels \in Nat
  /\ failed \in BOOLEAN
  /\ done \in BOOLEAN
  /\ Sound(code, todo, nlabels)
  /\ ~failed => Linked(code, todo, scopes)
  /\ \A k \in 1..Len(todo) : Inside(todo[k], prog)
  /\ done => todo = << >>

(***************************************************************************)
(* A step runs the first task: it emits a piece s with labels D and jumps  *)
(* J, leaves the tasks p in the place of the first one, and takes the      *)
(* labels n..m-1.  What it defines or promises was promised or is new.     *)
(***************************************************************************)
Exchange(q, s, D, J, p, n, m) ==
  /\ q # << >>
  /\ Piece(s, D, J) /\ J \subseteq Nat
  /\ Tasks(p)
  /\ n \in Nat /\ m \in Nat /\ n <= m
  /\ D \cup AllPending(p) \subseteq Pending(Head(q)) \cup n..(m - 1)
  /\ D \cap AllPending(p) = {}

\* No promise is lost, and the labels referred to are known.
Links(c, q, D, J, p, sc) ==
  /\ Pending(Head(q)) \subseteq D \cup AllPending(p)
  /\ LET K == Known(c, q) \cup D \cup AllPending(p)
     IN  /\ J \subseteq K
         /\ \A k \in 1..Len(p) : Needs(p[k]) \subseteq K
         /\ ScopeLabels(sc) \subseteq K

LEMMA SoundStep ==
  ASSUME NEW c, NEW q, NEW n, Sound(c, q, n),
         NEW s, NEW D, NEW J, NEW p, NEW m, Exchange(q, s, D, J, p, n, m)
  PROVE  /\ Sound(c \o s, p \o Tail(q), m)
         /\ LabelsOf(c \o s) = LabelsOf(c) \cup D
         /\ AllPending(p \o Tail(q)) = AllPending(p) \cup AllPending(Tail(q))
         /\ AllPending(p) \cap AllPending(Tail(q)) = {}
<1> DEFINE H == Pending(Head(q))
           R == AllPending(Tail(q))
           P == AllPending(p)
           C == LabelsOf(c)
<1>1. /\ q # << >> /\ Piece(s, D, J) /\ J \subseteq Nat /\ Tasks(p)
      /\ n \in Nat /\ m \in Nat /\ n <= m
      /\ D \cup P \subseteq H \cup n..(m - 1) /\ D \cap P = {}
  BY DEF Exchange
<1>2. /\ Tasks(Tail(q)) /\ AllPending(q) = H \cup R /\ H \cap R = {}
  BY <1>1, TasksSplit DEF Sound
<1>3. Piece(c, C, Nat) /\ C \subseteq 0..(n - 1) /\ H \subseteq 0..(n - 1) /\ R \subseteq 0..(n - 1)
  BY <1>2 DEF Sound, Known
<1>4. C \cap H = {} /\ C \cap R = {}
  BY <1>2 DEF Sound
<1>5. \A x \in C \cup H \cup R : x \notin n..(m - 1)
  <2> HIDE DEF H, R, C
  <2> QED
    BY <1>1, <1>3
<1>6. AllPending(p \o Tail(q)) = P \cup R /\ Tasks(p \o Tail(q)) /\ P \cap R = {}
  <2>1. P \cap R = {}
    <3> HIDE DEF H, R, P
    <3> QED
      BY <1>1, <1>2, <1>5
  <2> QED
    BY <1>1, <1>2, <2>1, TasksConcat
<1>7. C \cap D = {}
  <2> HIDE DEF H, C
  <2> QED
    BY <1>1, <1>4, <1>5
<1>8. Piece(c \o s, C \cup D, Nat \cup J)
  BY <1>1, <1>3, <1>7, PieceConcat
<1>9. LabelsOf(c \o s) = C \cup D /\ Piece(c \o s, LabelsOf(c \o s), Nat)
  <2>1. LabelsOf(c \o s) = C \cup D
    BY <1>8 DEF Piece
  <2>2. Nat \cup J \subseteq Nat
    BY <1>1
  <2> HIDE DEF C
  <2> QED
    BY <1>8, <2>1, <2>2, PieceWeaken
<1>10. (C \cup D) \cup (P \cup R) \subseteq 0..(m - 1)
  <2> HIDE DEF H, R, P, C
  <2>1. 0..(n - 1) \subseteq 0..(m - 1) /\ n..(m - 1) \subseteq 0..(m - 1)
    BY <1>1
  <2> QED
    BY <1>1, <1>3, <2>1
<1>11. (C \cup D) \cap (P \cup R) = {}
  <2> HIDE DEF H, R, P, C
  <2> QED
    BY <1>1, <1>2, <1>4, <1>5
<1> QED
  BY <1>6, <1>9, <1>10, <1>11 DEF Sound, Known

LEMMA LinkedStep ==
  ASSUME NEW c, NEW q, Tasks(q), q # << >>, c \in Seq(Instr), NEW sc, Linked(c, q, sc),
         NEW s, NEW D, NEW J, Piece(s, D, J),
         NEW p, Tasks(p), AllPending(p) \cap AllPending(Tail(q)) = {},
         LabelsOf(c \o s) = LabelsOf(c) \cup D,
         AllPending(p \o Tail(q)) = AllPending(p) \cup AllPending(Tail(q)),
         NEW sc2, Links(c, q, D, J, p, sc2)
  PROVE  Linked(c \o s, p \o Tail(q), sc2)
<1> DEFINE K == Known(c, q) \cup D \cup AllPending(p)
<1>1. /\ Pending(Head(q)) \subseteq D \cup AllPending(p)
      /\ J \subseteq K
      /\ \A k \in 1..Len(p) : Needs(p[k]) \subseteq K
      /\ ScopeLabels(sc2) \subseteq K
  BY DEF Links
<1>2. AllPending(q) = Pending(Head(q)) \cup AllPending(Tail(q)) /\ Tasks(Tail(q))
  BY TasksSplit
<1>3. K = Known(c \o s, p \o Tail(q))
  BY <1>1, <1>2 DEF Known
<1>4. Known(c, q) \subseteq K
  OBVIOUS
<1> HIDE DEF K
<1>5. JumpsInto(c \o s, K)
  <2>1. s \in Seq(Instr) /\ JumpsInto(s, J)
    BY DEF Piece
  <2>2. JumpsInto(s, K)
    BY <1>1, <2>1 DEF JumpsInto
  <2>3. JumpsInto(c, K)
    BY <1>4 DEF Linked, JumpsInto
  <2>4. /\ Len(c) \in Nat /\ Len(s) \in Nat /\ Len(c \o s) = Len(c) + Len(s)
        /\ \A k \in 1..(Len(c) + Len(s)) :
             (c \o s)[k] = IF k <= Len(c) THEN c[k] ELSE s[k - Len(c)]
    BY <2>1, ConcatProperties, LenProperties
  <2>5. \A k \in 1..Len(c \o s) :
          \/ k \in 1..Len(c) /\ (c \o s)[k] = c[k]
          \/ k - Len(c) \in 1..Len(s) /\ (c \o s)[k] = s[k - Len(c)]
    BY <2>4
  <2> QED
    BY <2>2, <2>3, <2>5 DEF JumpsInto
<1>6. \A k \in 1..Len(p \o Tail(q)) : Needs((p \o Tail(q))[k]) \subseteq K
  <2>1. \A k \in 1..Len(p \o Tail(q)) :
          \/ \E j \in 1..Len(p) : (p \o Tail(q))[k] = p[j]
          \/ \E j \in 1..Len(Tail(q)) : (p \o Tail(q))[k] = Tail(q)[j]
    BY <1>2, TasksConcat
  <2>2. \A j \in 1..Len(Tail(q)) : \E i \in 1..Len(q) : Tail(q)[j] = q[i]
    BY TasksSplit
  <2>3. \A i \in 1..Len(q) : Needs(q[i]) \subseteq K
    BY <1>4 DEF Linked
  <2> QED
    BY <1>1, <2>1, <2>2, <2>3
<1> QED
  BY <1>1, <1>3, <1>5, <1>6 DEF Linked

(***************************************************************************)
(* The same of the state: a step that runs the first task keeps IInv.      *)
(***************************************************************************)
LEMMA TaskStep ==
  ASSUME IInv, ~done,
         NEW s, NEW D, NEW J, NEW p, Exchange(todo, s, D, J, p, nlabels, nlabels'),
         ~failed' => Links(code, todo, D, J, p, scopes'),
         \A k \in 1..Len(p) : Inside(p[k], prog),
         code' = code \o s, todo' = p \o Tail(todo),
         prog' = prog, isVoid' = isVoid, done' = done,
         scopes' \in Seq(LoopScope), failed' \in BOOLEAN, failed => failed'
  PROVE  IInv'
<1>1. Sound(code, todo, nlabels)
  BY DEF IInv
<1>2. /\ Sound(code \o s, p \o Tail(todo), nlabels')
      /\ LabelsOf(code \o s) = LabelsOf(code) \cup D
      /\ AllPending(p \o Tail(todo)) = AllPending(p) \cup AllPending(Tail(todo))
      /\ AllPending(p) \cap AllPending(Tail(todo)) = {}
  BY <1>1, SoundStep
<1>3. /\ todo # << >> /\ Piece(s, D, J) /\ Tasks(p) /\ nlabels' \in Nat
      /\ Tasks(todo) /\ code \in Seq(Instr)
  BY <1>1 DEF Exchange, Sound, Piece
<1>4. ASSUME ~failed' PROVE Linked(code \o s, p \o Tail(todo), scopes')
  <2>1. Linked(code, todo, scopes) /\ Links(code, todo, D, J, p, scopes')
    BY <1>4 DEF IInv
  <2> QED
    BY <1>2, <1>3, <2>1, LinkedStep
<1>5. Sound(code', todo', nlabels') /\ (~failed' => Linked(code', todo', scopes'))
  BY <1>2, <1>4
<1>6. \A k \in 1..Len(todo') : Inside(todo'[k], prog')
  <2>1. \A k \in 1..Len(todo) : Inside(todo[k], prog)
    BY DEF IInv
  <2>2. \A k \in 1..Len(p \o Tail(todo)) :
          \/ \E j \in 1..Len(p) : (p \o Tail(todo))[k] = p[j]
          \/ \E j \in 1..Len(Tail(todo)) : (p \o Tail(todo))[k] = Tail(todo)[j]
    <3>1. Tasks(Tail(todo))
      BY <1>3, TasksSplit
    <3> QED
      BY <1>2, <1>3, <3>1, TasksConcat
  <2>3. \A k \in 1..Len(Tail(todo)) : \E j \in 1..Len(todo) : Tail(todo)[k] = todo[j]
    BY <1>3, TasksSplit
  <2> QED
    BY <2>1, <2>2, <2>3
<1> QED
  BY <1>3, <1>5, <1>6 DEF IInv

-----------------------------------------------------------------------------
(***************************************************************************)
(* The actions.                                                            *)
(***************************************************************************)
LEMMA Heads ==
  ASSUME NEW t, Shaped(t)
  PROVE  /\ t.task = "stmt" => \E i \in Nat : t = Stmt(i)
         /\ t.task = "then" =>
              \E i \in Nat, els \in Nat \cup {NoLabel}, end \in Nat :
                els # end /\ t = EndThen(i, els, end)
         /\ t.task = "else" => \E end \in Nat : t = EndElse(end)
         /\ t.task = "while" => \E c, e \in Nat : t = EndWhile(c, e)
         /\ t.task = "for" => \E i, c, x, e \in Nat : x # e /\ t = EndFor(i, c, x, e)
<1>1. \A i : Stmt(i).task = "stmt"
  BY DEF Stmt
<1>2. \A i, els, end : EndThen(i, els, end).task = "then"
  BY DEF EndThen
<1>3. \A end : EndElse(end).task = "else"
  BY DEF EndElse
<1>4. \A c, e : EndWhile(c, e).task = "while"
  BY DEF EndWhile
<1>5. \A i, c, x, e : EndFor(i, c, x, e).task = "for"
  BY DEF EndFor
<1>6. CASE \E i \in Nat : t = Stmt(i)
  BY <1>1, <1>6
<1>7. CASE \E i \in Nat, els \in Nat \cup {NoLabel}, end \in Nat :
             els # end /\ t = EndThen(i, els, end)
  BY <1>2, <1>7
<1>8. CASE \E end \in Nat : t = EndElse(end)
  BY <1>3, <1>8
<1>9. CASE \E c, e \in Nat : t = EndWhile(c, e)
  BY <1>4, <1>9
<1>10. CASE \E i, c, x, e \in Nat : x # e /\ t = EndFor(i, c, x, e)
  BY <1>5, <1>10
<1> QED
  BY <1>6, <1>7, <1>8, <1>9, <1>10 DEF Shaped

LEMMA InsideFacts ==
  ASSUME NEW g
  PROVE  /\ \A i : Inside(Stmt(i), g)
         /\ \A end : Inside(EndElse(end), g)
         /\ \A c, e : Inside(EndWhile(c, e), g)
         /\ \A i, c, x, e : Inside(EndFor(i, c, x, e), g)
         /\ \A i, els, end : i + 1 \in 1..Len(g) => Inside(EndThen(i, els, end), g)
BY DEF Inside, Stmt, EndElse, EndWhile, EndFor, EndThen

LEMMA InsideNone == \A g : \A k \in 1..Len(<< >>) : Inside(<< >>[k], g)
OBVIOUS

LEMMA InsideTwo ==
  ASSUME NEW g, NEW x, Inside(x, g), NEW y, Inside(y, g)
  PROVE  \A k \in 1..Len(<<x, y>>) : Inside(<<x, y>>[k], g)
<1> DEFINE p == <<x, y>>
<1>1. \A k \in 1..Len(p) : p[k] = x \/ p[k] = y
  OBVIOUS
<1> HIDE DEF p
<1>2. \A k \in 1..Len(p) : Inside(p[k], g)
  BY <1>1
<1> QED
  BY <1>2 DEF p

\* What holds when gen_stmt is called, and when it is returned to.
LEMMA AtCall ==
  ASSUME IInv, Calling
  PROVE  /\ ~done /\ todo # << >> /\ Pending(Head(todo)) = {}
         /\ stmt \in Nat /\ Head(todo) = Stmt(stmt) /\ nlabels \in Nat
         /\ code \in Seq(Instr) /\ todo \in Seq(Task) /\ Tail(todo) \in Seq(Task)
         /\ << >> \o Tail(todo) = Tail(todo) /\ code \o << >> = code
<1>1. ~done /\ todo # << >> /\ Head(todo).task = "stmt"
  BY DEF Calling
<1>2. Tasks(todo) /\ code \in Seq(Instr)
  BY DEF IInv, Sound, Piece
<1>3. PICK i \in Nat : Head(todo) = Stmt(i)
  BY <1>1, <1>2, TasksSplit, Heads
<1>4. Pending(Head(todo)) = {} /\ stmt = i
  <2>1. stmt = i
    BY <1>3 DEF stmt, Stmt
  <2>2. Pending(Stmt(i)) = {}
    BY TaskFacts
  <2> QED
    BY <1>3, <2>1, <2>2
<1>5. todo \in Seq(Task) /\ Tail(todo) \in Seq(Task)
  BY <1>1, <1>2, HeadTailProperties DEF Tasks
<1>6. nlabels \in Nat
  BY DEF IInv
<1> QED
  BY <1>1, <1>2, <1>3, <1>4, <1>5, <1>6, ConcatEmptySeq

\* The children of a statement that has some.
LEMMA Children ==
  ASSUME prog \in Programs, NEW i \in Nat, i \in DOMAIN prog, prog[i] \notin Leaf
  PROVE  i + 1 \in 1..Len(prog) /\ First(i) \in Nat \ {0} /\ Second(i) \in Nat \ {0}
<1>1. /\ prog \in Seq(Kind) /\ AfterStmt(prog) \in [1..Len(prog) -> Nat \ {0}]
      /\ \A k \in 1..Len(prog) : prog[k] \notin Leaf => k < Len(prog)
  BY ProgramsAssumption
<1>2. DOMAIN prog = 1..Len(prog) /\ Len(prog) \in Nat
  BY <1>1, LenProperties
<1>3. i + 1 \in 1..Len(prog)
  BY <1>1, <1>2
<1> QED
  BY <1>1, <1>3 DEF First, Second

LEMMA AfterThenTyped ==
  ASSUME IInv, Returning("then")
  PROVE  stmt + 1 \in 1..Len(prog) /\ Second(stmt) \in Nat \ {0}
<1>1. todo # << >> /\ todo \in Seq(Task) /\ Head(todo).task = "then"
  BY DEF IInv, Sound, Tasks, Returning
<1>2. 1 \in 1..Len(todo) /\ Head(todo) = todo[1]
  BY <1>1, EmptySeq
<1>3. stmt + 1 \in 1..Len(prog)
  BY <1>1, <1>2 DEF IInv, Inside, stmt
<1> QED
  BY <1>3, ProgramsAssumption DEF IInv, Second

LEMMA AtReturn ==
  ASSUME IInv, NEW t, Returning(t)
  PROVE  /\ ~done /\ todo # << >> /\ Head(todo).task = t /\ Shaped(Head(todo))
         /\ nlabels \in Nat /\ code \in Seq(Instr) /\ Tail(todo) \in Seq(Task)
         /\ << >> \o Tail(todo) = Tail(todo)
         /\ ~failed => Needs(Head(todo)) \subseteq Known(code, todo)
<1>1. ~done /\ todo # << >> /\ Head(todo).task = t
  BY DEF Returning
<1>2. Tasks(todo) /\ code \in Seq(Instr) /\ nlabels \in Nat
  BY DEF IInv, Sound, Piece
<1>3. Shaped(Head(todo))
  BY <1>1, <1>2, TasksSplit
<1>4. todo \in Seq(Task) /\ Tail(todo) \in Seq(Task) /\ 1 \in 1..Len(todo)
  BY <1>1, <1>2, HeadTailProperties, EmptySeq DEF Tasks
<1>5. ~failed => Needs(Head(todo)) \subseteq Known(code, todo)
  <2>1. Head(todo) = todo[1]
    BY <1>1, <1>4
  <2> QED
    BY <1>4, <2>1 DEF IInv, Linked
<1> QED
  BY <1>1, <1>2, <1>3, <1>4, <1>5, ConcatEmptySeq

\* A statement without children.
LEMMA LeafStep ==
  ASSUME IInv, Calling, NEW s, NEW J, Piece(s, {}, J), J \subseteq Nat,
         ~failed => J \subseteq Known(code, todo),
         code' = code \o s, todo' = Rest,
         UNCHANGED <<prog, isVoid, scopes, nlabels, failed, done>>
  PROVE  IInv'
<1>1. /\ ~done /\ todo # << >> /\ Pending(Head(todo)) = {}
      /\ nlabels \in Nat
      /\ todo' = << >> \o Tail(todo)
  BY AtCall DEF Rest
<1>2. nlabels' = nlabels /\ nlabels' \in Nat /\ nlabels <= nlabels'
  BY <1>1
<1>3. Exchange(todo, s, {}, J, << >>, nlabels, nlabels')
  BY <1>1, <1>2, NoTasks, AllPendingEmpty DEF Exchange
<1>4. ASSUME ~failed' PROVE Links(code, todo, {}, J, << >>, scopes')
  <2>1. ScopeLabels(scopes') \subseteq Known(code, todo)
    BY <1>4 DEF IInv, Linked
  <2>2. J \subseteq Known(code, todo)
    BY <1>4
  <2> QED
    BY <1>1, <2>1, <2>2, AllPendingEmpty DEF Links
<1>5. scopes' \in Seq(LoopScope) /\ failed' \in BOOLEAN
  BY <1>1 DEF IInv
<1> QED
  BY <1>1, <1>3, <1>4, <1>5, InsideNone, TaskStep

LEMMA GenActInv == IInv /\ GenAct => IInv'
<1> SUFFICES ASSUME IInv, GenAct PROVE IInv'
  OBVIOUS
<1>1. /\ Calling /\ code' = code \o <<Act(stmt)>> /\ todo' = Rest
      /\ UNCHANGED <<prog, isVoid, scopes, nlabels, failed, done>>
  BY DEF GenAct, Visiting, Emit
<1> DEFINE s == <<Act(stmt)>>
           J == {}
<1>2. Piece(s, {}, J)
  BY <1>1, AtCall, OpaquePiece
<1>3. J \subseteq Nat /\ J \subseteq Known(code, todo) /\ code' = code \o s
  BY <1>1
<1> HIDE DEF s, J
<1> QED
  BY <1>1, <1>2, <1>3, LeafStep

LEMMA GenRetInv == IInv /\ GenRet => IInv'
<1> SUFFICES ASSUME IInv, GenRet PROVE IInv'
  OBVIOUS
<1>1. /\ Calling /\ code' = code \o <<Ret(stmt)>> /\ todo' = Rest
      /\ UNCHANGED <<prog, isVoid, scopes, nlabels, failed, done>>
  BY DEF GenRet, Visiting, Emit
<1> DEFINE s == <<Ret(stmt)>>
           J == {}
<1>2. Piece(s, {}, J)
  BY <1>1, AtCall, OpaquePiece
<1>3. J \subseteq Nat /\ J \subseteq Known(code, todo) /\ code' = code \o s
  BY <1>1
<1> HIDE DEF s, J
<1> QED
  BY <1>1, <1>2, <1>3, LeafStep

LEMMA GenJumpInv == IInv /\ GenJump => IInv'
<1> SUFFICES ASSUME IInv, GenJump PROVE IInv'
  OBVIOUS
<1>1. /\ Calling /\ todo' = Rest
      /\ UNCHANGED <<prog, isVoid, scopes, nlabels, failed, done>>
  BY DEF GenJump, Visiting
<1>2. CASE scopes = << >>
  <2>1. code' = code \o << >>
    BY <1>1, <1>2, AtCall DEF GenJump
  <2> DEFINE J == {}
  <2>2. Piece(<< >>, {}, J) /\ J \subseteq Nat /\ J \subseteq Known(code, todo)
    BY EmptyPiece
  <2> HIDE DEF J
  <2> QED
    BY <1>1, <2>1, <2>2, LeafStep
<1>3. CASE scopes # << >>
  <2> DEFINE l == IF prog[stmt] = "break" THEN current_loop_scope.break_lbl
                                          ELSE current_loop_scope.continue_lbl
  <2>1. code' = code \o <<Br(l)>>
    BY <1>3 DEF GenJump, Emit
  <2>2. l \in Nat /\ l \in ScopeLabels(scopes)
    BY <1>3, TopScope DEF IInv, current_loop_scope
  <2> HIDE DEF l
  <2>3. Piece(<<Br(l)>>, {}, {l})
    BY <2>2, JumpPiece
  <2>4. ~failed => {l} \subseteq Known(code, todo)
    BY <2>2 DEF IInv, Linked
  <2> QED
    BY <1>1, <2>1, <2>2, <2>3, <2>4, LeafStep
<1> QED
  BY <1>2, <1>3

LEMMA TwoStmts ==
  ASSUME NEW i \in Nat, NEW j \in Nat
  PROVE  /\ Tasks(<<Stmt(i), Stmt(j)>>) /\ AllPending(<<Stmt(i), Stmt(j)>>) = {}
         /\ \A k \in 1..Len(<<Stmt(i), Stmt(j)>>) : Needs(<<Stmt(i), Stmt(j)>>[k]) = {}
<1> DEFINE t == Stmt(j)
<1>1. t \in Task /\ Shaped(t) /\ Pending(t) = {} /\ Needs(t) = {}
  BY TaskFacts
<1> HIDE DEF t
<1>2. Tasks(<<Stmt(i), t>>) /\ AllPending(<<Stmt(i), t>>) = Pending(t)
  BY <1>1, OneThen
<1>3. \A k \in 1..Len(<<Stmt(i), t>>) : Needs(<<Stmt(i), t>>[k]) \subseteq Needs(t)
  BY <1>1, OneThen
<1>4. /\ Tasks(<<Stmt(i), t>>) /\ AllPending(<<Stmt(i), t>>) = {}
      /\ \A k \in 1..Len(<<Stmt(i), t>>) : Needs(<<Stmt(i), t>>[k]) = {}
  BY <1>1, <1>2, <1>3
<1> QED
  BY <1>4 DEF t

LEMMA GenBlockInv == IInv /\ GenBlock => IInv'
<1> SUFFICES ASSUME IInv, GenBlock PROVE IInv'
  OBVIOUS
<1>1. /\ Calling /\ code' = code
      /\ UNCHANGED <<prog, isVoid, scopes, nlabels, failed, done>>
      /\ todo' = IF prog[stmt] = "seq" THEN <<Stmt(First(stmt)), Stmt(Second(stmt))>> \o Rest
                                        ELSE Rest
      /\ stmt \in DOMAIN prog
  BY DEF GenBlock, Visiting
<1>2. /\ ~done /\ todo # << >> /\ Pending(Head(todo)) = {}
      /\ nlabels \in Nat /\ code' = code \o << >>
  BY <1>1, AtCall
<1>3. CASE prog[stmt] # "seq"
  BY <1>1, <1>2, <1>3, EmptyPiece, LeafStep
<1>4. CASE prog[stmt] = "seq"
  <2> DEFINE p == <<Stmt(First(stmt)), Stmt(Second(stmt))>>
  <2>1. todo' = p \o Tail(todo)
    BY <1>1, <1>4 DEF Rest
  <2>2. Tasks(p) /\ AllPending(p) = {} /\ \A k \in 1..Len(p) : Needs(p[k]) = {}
    <3>1. prog \in Programs /\ stmt \in Nat /\ prog[stmt] \notin Leaf
      BY <1>1, <1>4, AtCall DEF IInv, Leaf
    <3>2. First(stmt) \in Nat /\ Second(stmt) \in Nat
      BY <1>1, <3>1, Children
    <3> QED
      BY <3>2, TwoStmts
  <2>6. \A k \in 1..Len(p) : Inside(p[k], prog)
    BY InsideFacts, InsideTwo
  <2> HIDE DEF p
  <2>3. Exchange(todo, << >>, {}, {}, p, nlabels, nlabels')
    BY <1>1, <1>2, <2>2, EmptyPiece DEF Exchange
  <2>4. ASSUME ~failed' PROVE Links(code, todo, {}, {}, p, scopes')
    <3>1. ScopeLabels(scopes') \subseteq Known(code, todo)
      BY <1>1, <2>4 DEF IInv, Linked
    <3> QED
      BY <1>2, <2>2, <3>1 DEF Links
  <2>5. scopes' \in Seq(LoopScope) /\ failed' \in BOOLEAN
    BY <1>1, <1>2 DEF IInv
  <2> QED
    BY <1>1, <1>2, <2>1, <2>3, <2>4, <2>5, <2>6, TaskStep
<1> QED
  BY <1>3, <1>4

LEMMA GenIfInv == IInv /\ GenIf => IInv'
<1> SUFFICES ASSUME IInv, GenIf PROVE IInv'
  OBVIOUS
<1> DEFINE both == prog[stmt] = "if_else"
           then == nlabels
           els  == IF both THEN then + 1 ELSE NoLabel
           end  == IF both THEN then + 2 ELSE then + 1
           to   == IF els = NoLabel THEN end ELSE els
           s    == IfHead(stmt, then, els, end)
           p    == <<Stmt(First(stmt)), EndThen(stmt, els, end)>>
<1>1. /\ Calling /\ code' = code \o s
      /\ UNCHANGED <<prog, isVoid, scopes, failed, done>>
      /\ nlabels' = nlabels + (IF both THEN 3 ELSE 2)
      /\ todo' = p \o Tail(todo)
      /\ stmt \in DOMAIN prog /\ prog[stmt] \in {"if", "if_else"}
  BY DEF GenIf, Visiting, Emit, mk_label, Rest
<1>2. /\ ~done /\ todo # << >> /\ Pending(Head(todo)) = {}
      /\ stmt \in Nat /\ nlabels \in Nat
  BY <1>1, AtCall
<1>10. First(stmt) \in Nat /\ stmt + 1 \in 1..Len(prog)
  <2>1. prog \in Programs /\ prog[stmt] \notin Leaf
    BY <1>1 DEF IInv, Leaf
  <2> QED
    BY <1>1, <1>2, <2>1, Children
<1>11. \A k \in 1..Len(p) : Inside(p[k], prog)
  <2> HIDE DEF els, end
  <2> QED
    BY <1>10, InsideFacts, InsideTwo
<1>3. /\ els \in Nat \cup {NoLabel} /\ end \in Nat /\ els # end /\ to \in Nat
      /\ nlabels' \in Nat /\ nlabels <= nlabels'
      /\ {then} \cup ({els, end} \ {NoLabel}) \subseteq nlabels..(nlabels' - 1)
      /\ {then} \cap ({els, end} \ {NoLabel}) = {}
      /\ to \in {els, end} \ {NoLabel}
  <2>1. NoLabel \notin Nat
    BY ProgramsAssumption
  <2>2. CASE both
    <3>1. /\ els = nlabels + 1 /\ end = nlabels + 2 /\ nlabels' = nlabels + 3
          /\ nlabels + 1 \in Nat /\ nlabels + 2 \in Nat
      BY <1>1, <1>2, <2>2
    <3>2. els # NoLabel /\ end # NoLabel /\ to = els
      BY <2>1, <3>1
    <3> HIDE DEF els, end, to, both
    <3> QED
      BY <1>2, <3>1, <3>2
  <2>3. CASE ~both
    <3>1. /\ els = NoLabel /\ end = nlabels + 1 /\ nlabels' = nlabels + 2
          /\ nlabels + 1 \in Nat
      BY <1>1, <1>2, <2>3
    <3>2. end # NoLabel /\ to = end /\ els # end
      BY <2>1, <3>1
    <3> HIDE DEF els, end, to, both
    <3>3. {els, end} \ {NoLabel} = {end}
      BY <3>1, <3>2
    <3> QED
      BY <1>2, <3>1, <3>2, <3>3
  <2> QED
    BY <2>2, <2>3
<1>4. Piece(s, {then}, {then, to})
  BY <1>2, <1>3, ConditionPiece DEF IfHead
<1>5. /\ Tasks(p) /\ AllPending(p) = {els, end} \ {NoLabel}
      /\ \A k \in 1..Len(p) : Needs(p[k]) = {}
  <2> DEFINE t == EndThen(stmt, els, end)
  <2> HIDE DEF els, end
  <2>1. t \in Task /\ Pending(t) = {els, end} \ {NoLabel} /\ Needs(t) = {} /\ Shaped(t)
    BY <1>2, <1>3, TaskFacts DEF Shaped
  <2> HIDE DEF t
  <2> DEFINE f == First(stmt)
  <2>3. f \in Nat
    BY <1>10
  <2> HIDE DEF f
  <2>2. /\ Tasks(<<Stmt(f), t>>) /\ AllPending(<<Stmt(f), t>>) = Pending(t)
        /\ \A k \in 1..Len(<<Stmt(f), t>>) : Needs(<<Stmt(f), t>>[k]) \subseteq Needs(t)
    BY <2>1, <2>3, OneThen
  <2> QED
    BY <2>1, <2>2 DEF t, f
<1>6. then \in Nat
  BY <1>2
<1> HIDE DEF then, els, end, to, s, p
<1>7. Exchange(todo, s, {then}, {then, to}, p, nlabels, nlabels')
  <2>1. {then, to} \subseteq Nat
    BY <1>3, <1>6
  <2> QED
    BY <1>2, <1>3, <1>4, <1>5, <2>1 DEF Exchange
<1>8. ASSUME ~failed' PROVE Links(code, todo, {then}, {then, to}, p, scopes')
  <2>1. ScopeLabels(scopes') \subseteq Known(code, todo)
    BY <1>1, <1>8 DEF IInv, Linked
  <2> QED
    BY <1>2, <1>3, <1>5, <2>1 DEF Links
<1>9. scopes' \in Seq(LoopScope) /\ failed' \in BOOLEAN
  BY <1>1, <1>2 DEF IInv
<1> QED
  BY <1>1, <1>2, <1>7, <1>8, <1>9, <1>11, TaskStep

LEMMA GenAfterThenInv == IInv /\ GenAfterThen => IInv'
<1> SUFFICES ASSUME IInv, GenAfterThen PROVE IInv'
  OBVIOUS
<1>1. Returning("then") /\ UNCHANGED <<prog, isVoid, scopes, nlabels, failed, done>>
  BY DEF GenAfterThen
<1>2. /\ ~done /\ todo # << >> /\ Head(todo).task = "then" /\ Shaped(Head(todo))
      /\ nlabels \in Nat /\ << >> \o Tail(todo) = Tail(todo)
  BY <1>1, AtReturn
<1>3. PICK i \in Nat, els \in Nat \cup {NoLabel}, end \in Nat :
        els # end /\ Head(todo) = EndThen(i, els, end)
  BY <1>2, Heads
<1>4. /\ Head(todo).lbl[1] = els /\ Head(todo).lbl[2] = end /\ stmt = i
      /\ Pending(Head(todo)) = {els, end} \ {NoLabel}
  <2>1. Head(todo).lbl[1] = els /\ Head(todo).lbl[2] = end /\ stmt = i
    BY <1>3 DEF EndThen, stmt
  <2>2. Pending(EndThen(i, els, end)) = {els, end} \ {NoLabel}
    BY TaskFacts
  <2> QED
    BY <1>3, <2>1, <2>2
<1>5. /\ code' = code \o ThenTail(els, end)
      /\ todo' = IF els = NoLabel THEN Rest
                 ELSE <<Stmt(Second(i)), EndElse(end)>> \o Rest
  BY <1>4 DEF GenAfterThen, Emit
<1>6. /\ scopes' \in Seq(LoopScope) /\ failed' \in BOOLEAN
      /\ nlabels' \in Nat /\ nlabels <= nlabels'
  BY <1>1 DEF IInv
<1>7. ~failed' => ScopeLabels(scopes') \subseteq Known(code, todo)
  BY <1>1 DEF IInv, Linked
<1>8. CASE els = NoLabel
  <2> DEFINE s == ThenTail(els, end)
  <2>1. Piece(s, {end}, {end}) /\ todo' = << >> \o Tail(todo)
    BY <1>2, <1>5, <1>8, BranchPiece DEF ThenTail, Rest
  <2>2. Pending(Head(todo)) = {end}
    BY <1>3, <1>4, <1>8
  <2> HIDE DEF s
  <2>3. Exchange(todo, s, {end}, {end}, << >>, nlabels, nlabels')
    BY <1>2, <1>6, <2>1, <2>2, NoTasks, AllPendingEmpty DEF Exchange
  <2>4. ASSUME ~failed' PROVE Links(code, todo, {end}, {end}, << >>, scopes')
    BY <1>7, <2>2, <2>4, AllPendingEmpty DEF Links
  <2>5. code' = code \o s
    BY <1>5 DEF s
  <2> QED
    BY <1>1, <1>2, <1>6, <2>1, <2>3, <2>4, <2>5, InsideNone, TaskStep
<1>9. CASE els # NoLabel
  <2> DEFINE s == ThenTail(els, end)
             p == <<Stmt(Second(i)), EndElse(end)>>
  <2>7. Second(i) \in Nat
    BY <1>1, <1>4, AfterThenTyped
  <2>8. \A k \in 1..Len(p) : Inside(p[k], prog)
    BY InsideFacts, InsideTwo
  <2>1. els \in Nat /\ Piece(s, {els}, {end}) /\ todo' = p \o Tail(todo)
    BY <1>3, <1>5, <1>9, BranchPiece DEF ThenTail, Rest
  <2>2. Pending(Head(todo)) = {els, end}
    BY <1>3, <1>4, <1>9, ProgramsAssumption
  <2>3. Tasks(p) /\ AllPending(p) = {end} /\ \A k \in 1..Len(p) : Needs(p[k]) = {}
    <3> DEFINE t == EndElse(end)
    <3>1. t \in Task /\ Pending(t) = {end} /\ Needs(t) = {} /\ Shaped(t)
      BY <1>3, TaskFacts
    <3> HIDE DEF t
    <3> DEFINE f == Second(i)
    <3>3. f \in Nat
      BY <2>7
    <3> HIDE DEF f
    <3>2. /\ Tasks(<<Stmt(f), t>>) /\ AllPending(<<Stmt(f), t>>) = Pending(t)
          /\ \A k \in 1..Len(<<Stmt(f), t>>) : Needs(<<Stmt(f), t>>[k]) \subseteq Needs(t)
      BY <3>1, <3>3, OneThen
    <3> QED
      BY <3>1, <3>2 DEF t, f
  <2> HIDE DEF s, p
  <2>4. Exchange(todo, s, {els}, {end}, p, nlabels, nlabels')
    BY <1>2, <1>3, <1>6, <2>1, <2>2, <2>3 DEF Exchange
  <2>5. ASSUME ~failed' PROVE Links(code, todo, {els}, {end}, p, scopes')
    BY <1>7, <2>2, <2>3, <2>5 DEF Links
  <2>6. code' = code \o s
    BY <1>5 DEF s
  <2> QED
    BY <1>1, <1>2, <1>6, <2>1, <2>4, <2>5, <2>6, <2>8, TaskStep
<1> QED
  BY <1>8, <1>9

LEMMA GenAfterElseInv == IInv /\ GenAfterElse => IInv'
<1> SUFFICES ASSUME IInv, GenAfterElse PROVE IInv'
  OBVIOUS
<1>1. Returning("else") /\ UNCHANGED <<prog, isVoid, scopes, nlabels, failed, done>>
  BY DEF GenAfterElse
<1>2. /\ ~done /\ todo # << >> /\ Head(todo).task = "else" /\ Shaped(Head(todo))
      /\ nlabels \in Nat /\ << >> \o Tail(todo) = Tail(todo)
  BY <1>1, AtReturn
<1>3. PICK end \in Nat : Head(todo) = EndElse(end)
  BY <1>2, Heads
<1>4. Head(todo).lbl[1] = end /\ Pending(Head(todo)) = {end}
  <2>1. Head(todo).lbl[1] = end
    BY <1>3 DEF EndElse
  <2>2. Pending(EndElse(end)) = {end}
    BY TaskFacts
  <2> QED
    BY <1>3, <2>1, <2>2
<1> DEFINE s == ElseTail(end)
<1>5. code' = code \o s /\ todo' = << >> \o Tail(todo)
  BY <1>2, <1>4 DEF GenAfterElse, Emit, Rest
<1>6. Piece(s, {end}, {end})
  BY BranchPiece DEF ElseTail
<1> HIDE DEF s
<1>7. /\ scopes' \in Seq(LoopScope) /\ failed' \in BOOLEAN
      /\ nlabels' \in Nat /\ nlabels <= nlabels'
  BY <1>1 DEF IInv
<1>8. Exchange(todo, s, {end}, {end}, << >>, nlabels, nlabels')
  BY <1>2, <1>4, <1>6, <1>7, NoTasks, AllPendingEmpty DEF Exchange
<1>9. ASSUME ~failed' PROVE Links(code, todo, {end}, {end}, << >>, scopes')
  <2>1. ScopeLabels(scopes') \subseteq Known(code, todo)
    BY <1>1, <1>9 DEF IInv, Linked
  <2> QED
    BY <1>4, <2>1, AllPendingEmpty DEF Links
<1> QED
  BY <1>1, <1>2, <1>5, <1>7, <1>8, <1>9, InsideNone, TaskStep

LEMMA GenWhileInv == IInv /\ GenWhile => IInv'
<1> SUFFICES ASSUME IInv, GenWhile PROVE IInv'
  OBVIOUS
<1> DEFINE c == nlabels
           b == nlabels + 1
           e == nlabels + 2
           s == WhileHead(stmt, c, b, e)
           t == EndWhile(c, e)
           f == First(stmt)
           p == <<Stmt(f), t>>
<1>1. /\ Calling /\ code' = code \o s
      /\ UNCHANGED <<prog, isVoid, failed, done>>
      /\ nlabels' = nlabels + 3
      /\ scopes' = Append(scopes, Scope(e, c))
      /\ todo' = p \o Tail(todo)
  BY DEF GenWhile, Visiting, Emit, mk_label, push_loop_scope, Rest
<1>11. f \in Nat
  BY <1>1, AtCall DEF First
<1>12. \A k \in 1..Len(p) : Inside(p[k], prog)
  <2> HIDE DEF f
  <2> QED
    BY InsideFacts, InsideTwo
<1>2. /\ ~done /\ todo # << >> /\ Pending(Head(todo)) = {}
      /\ stmt \in Nat /\ nlabels \in Nat
  BY <1>1, AtCall
<1>3. /\ c \in Nat /\ b \in Nat /\ e \in Nat /\ c # b /\ e # c /\ e # b
      /\ nlabels' \in Nat /\ nlabels <= nlabels'
      /\ {c, b} \cup {e} \subseteq nlabels..(nlabels' - 1)
  BY <1>1, <1>2
<1>4. Piece(s, {c, b}, {c, b, e})
  BY <1>2, <1>3, WhileHeadPiece
<1> HIDE DEF c, b, e, s, f
<1>5. t \in Task /\ Shaped(t) /\ Pending(t) = {e} /\ Needs(t) = {c}
  BY <1>3, TaskFacts
<1> HIDE DEF t
<1>6. /\ Tasks(p) /\ AllPending(p) = {e}
      /\ \A k \in 1..Len(p) : Needs(p[k]) \subseteq {c}
  BY <1>5, <1>11, OneThen
<1>7. /\ scopes' \in Seq(LoopScope)
      /\ ScopeLabels(scopes') \subseteq ScopeLabels(scopes) \cup {e, c}
  BY <1>1, <1>3, PushedScope DEF IInv
<1> HIDE DEF p
<1>8. Exchange(todo, s, {c, b}, {c, b, e}, p, nlabels, nlabels')
  BY <1>2, <1>3, <1>4, <1>6 DEF Exchange
<1>9. ASSUME ~failed' PROVE Links(code, todo, {c, b}, {c, b, e}, p, scopes')
  <2>1. ScopeLabels(scopes') \subseteq Known(code, todo) \cup {e, c}
    BY <1>1, <1>7, <1>9 DEF IInv, Linked
  <2> QED
    BY <1>2, <1>6, <2>1 DEF Links
<1>10. failed' \in BOOLEAN
  BY <1>1, <1>2 DEF IInv
<1> QED
  BY <1>1, <1>2, <1>7, <1>8, <1>9, <1>10, <1>12, TaskStep

LEMMA GenAfterWhileInv == IInv /\ GenAfterWhile => IInv'
<1> SUFFICES ASSUME IInv, GenAfterWhile PROVE IInv'
  OBVIOUS
<1>1. /\ Returning("while") /\ scopes' = SubSeq(scopes, 1, Len(scopes) - 1)
      /\ UNCHANGED <<prog, isVoid, nlabels, failed, done>>
  BY DEF GenAfterWhile, pop_loop_scope
<1>2. /\ ~done /\ todo # << >> /\ Head(todo).task = "while" /\ Shaped(Head(todo))
      /\ nlabels \in Nat /\ << >> \o Tail(todo) = Tail(todo)
      /\ ~failed => Needs(Head(todo)) \subseteq Known(code, todo)
  BY <1>1, AtReturn
<1>3. PICK c, e \in Nat : Head(todo) = EndWhile(c, e)
  BY <1>2, Heads
<1>4. /\ Head(todo).lbl[1] = c /\ Head(todo).lbl[2] = e
      /\ Pending(Head(todo)) = {e} /\ Needs(Head(todo)) = {c}
  <2>1. Head(todo).lbl[1] = c /\ Head(todo).lbl[2] = e
    BY <1>3 DEF EndWhile
  <2>2. Pending(EndWhile(c, e)) = {e} /\ Needs(EndWhile(c, e)) = {c}
    BY TaskFacts
  <2> QED
    BY <1>3, <2>1, <2>2
<1> DEFINE s == WhileTail(c, e)
<1>5. code' = code \o s /\ todo' = << >> \o Tail(todo)
  BY <1>2, <1>4 DEF GenAfterWhile, Emit, Rest
<1>6. Piece(s, {e}, {c})
  BY BranchPiece DEF WhileTail
<1> HIDE DEF s
<1>7. /\ scopes' \in Seq(LoopScope)
      /\ ScopeLabels(scopes') \subseteq ScopeLabels(scopes)
  BY <1>1, PoppedScope DEF IInv
<1>8. /\ failed' \in BOOLEAN
      /\ nlabels' \in Nat /\ nlabels <= nlabels'
  BY <1>1 DEF IInv
<1>9. Exchange(todo, s, {e}, {c}, << >>, nlabels, nlabels')
  BY <1>2, <1>4, <1>6, <1>8, NoTasks, AllPendingEmpty DEF Exchange
<1>10. ASSUME ~failed' PROVE Links(code, todo, {e}, {c}, << >>, scopes')
  <2>1. ScopeLabels(scopes') \subseteq Known(code, todo)
    BY <1>1, <1>7, <1>10 DEF IInv, Linked
  <2>2. {c} \subseteq Known(code, todo)
    BY <1>1, <1>2, <1>4, <1>10
  <2> QED
    BY <1>4, <2>1, <2>2, AllPendingEmpty DEF Links
<1> QED
  BY <1>1, <1>2, <1>5, <1>7, <1>8, <1>9, <1>10, InsideNone, TaskStep

LEMMA GenForInv == IInv /\ GenFor => IInv'
<1> SUFFICES ASSUME IInv, GenFor PROVE IInv'
  OBVIOUS
<1> DEFINE c == nlabels
           b == nlabels + 1
           x == nlabels + 2
           e == nlabels + 3
           s == ForHead(stmt, c, b, e)
           t == EndFor(stmt, c, x, e)
           f == First(stmt)
           p == <<Stmt(f), t>>
<1>1. /\ Calling /\ code' = code \o s
      /\ UNCHANGED <<prog, isVoid, failed, done>>
      /\ nlabels' = nlabels + 4
      /\ scopes' = Append(scopes, Scope(e, x))
      /\ todo' = p \o Tail(todo)
  BY DEF GenFor, Visiting, Emit, mk_label, push_loop_scope, Rest
<1>11. f \in Nat
  BY <1>1, AtCall DEF First
<1>12. \A k \in 1..Len(p) : Inside(p[k], prog)
  <2> HIDE DEF f
  <2> QED
    BY InsideFacts, InsideTwo
<1>2. /\ ~done /\ todo # << >> /\ Pending(Head(todo)) = {}
      /\ stmt \in Nat /\ nlabels \in Nat
  BY <1>1, AtCall
<1>3. /\ c \in Nat /\ b \in Nat /\ x \in Nat /\ e \in Nat
      /\ c # b /\ x # e /\ {c, b} \cap {x, e} = {}
      /\ nlabels' \in Nat /\ nlabels <= nlabels'
      /\ {c, b} \cup {x, e} \subseteq nlabels..(nlabels' - 1)
  BY <1>1, <1>2
<1>4. Piece(s, {c, b}, {c, b, e})
  BY <1>2, <1>3, ForHeadPiece
<1> HIDE DEF c, b, x, e, s, f
<1>5. t \in Task /\ Shaped(t) /\ Pending(t) = {x, e} /\ Needs(t) = {c}
  <2>1. t \in Task /\ Pending(t) = {x, e} /\ Needs(t) = {c}
    BY <1>2, <1>3, TaskFacts
  <2>2. Shaped(t)
    BY <1>2, <1>3 DEF Shaped
  <2> QED
    BY <2>1, <2>2
<1> HIDE DEF t
<1>6. /\ Tasks(p) /\ AllPending(p) = {x, e}
      /\ \A k \in 1..Len(p) : Needs(p[k]) \subseteq {c}
  BY <1>5, <1>11, OneThen
<1>7. /\ scopes' \in Seq(LoopScope)
      /\ ScopeLabels(scopes') \subseteq ScopeLabels(scopes) \cup {e, x}
  BY <1>1, <1>3, PushedScope DEF IInv
<1> HIDE DEF p
<1>8. Exchange(todo, s, {c, b}, {c, b, e}, p, nlabels, nlabels')
  BY <1>2, <1>3, <1>4, <1>6 DEF Exchange
<1>9. ASSUME ~failed' PROVE Links(code, todo, {c, b}, {c, b, e}, p, scopes')
  <2>1. ScopeLabels(scopes') \subseteq Known(code, todo) \cup {e, x}
    BY <1>1, <1>7, <1>9 DEF IInv, Linked
  <2> QED
    BY <1>2, <1>6, <2>1 DEF Links
<1>10. failed' \in BOOLEAN
  BY <1>1, <1>2 DEF IInv
<1> QED
  BY <1>1, <1>2, <1>7, <1>8, <1>9, <1>10, <1>12, TaskStep

LEMMA GenAfterForInv == IInv /\ GenAfterFor => IInv'
<1> SUFFICES ASSUME IInv, GenAfterFor PROVE IInv'
  OBVIOUS
<1>1. /\ Returning("for") /\ scopes' = SubSeq(scopes, 1, Len(scopes) - 1)
      /\ UNCHANGED <<prog, isVoid, nlabels, done>>
  BY DEF GenAfterFor, pop_loop_scope
<1>2. /\ ~done /\ todo # << >> /\ Head(todo).task = "for" /\ Shaped(Head(todo))
      /\ nlabels \in Nat /\ << >> \o Tail(todo) = Tail(todo)
      /\ ~failed => Needs(Head(todo)) \subseteq Known(code, todo)
  BY <1>1, AtReturn
<1>3. PICK i, c, x, e \in Nat : x # e /\ Head(todo) = EndFor(i, c, x, e)
  BY <1>2, Heads
<1>4. /\ Head(todo).at = i /\ Head(todo).lbl[1] = c
      /\ Head(todo).lbl[2] = x /\ Head(todo).lbl[3] = e
      /\ Pending(Head(todo)) = {x, e} /\ Needs(Head(todo)) = {c}
  <2>1. /\ Head(todo).at = i /\ Head(todo).lbl[1] = c
        /\ Head(todo).lbl[2] = x /\ Head(todo).lbl[3] = e
    BY <1>3 DEF EndFor
  <2>2. Pending(EndFor(i, c, x, e)) = {x, e} /\ Needs(EndFor(i, c, x, e)) = {c}
    BY TaskFacts
  <2> QED
    BY <1>3, <2>1, <2>2
<1>5. /\ todo' = << >> \o Tail(todo)
      /\ \/ code' = code \o <<Br(x), Label(x)>> /\ failed' = TRUE
         \/ code' = code \o ForTail(i, c, x, e) /\ failed' = failed
  BY <1>2, <1>4 DEF GenAfterFor, Emit, Rest
<1>6. /\ scopes' \in Seq(LoopScope)
      /\ ScopeLabels(scopes') \subseteq ScopeLabels(scopes)
  BY <1>1, PoppedScope DEF IInv
<1>7. nlabels' \in Nat /\ nlabels <= nlabels'
  BY <1>1 DEF IInv
<1>8. CASE code' = code \o <<Br(x), Label(x)>> /\ failed' = TRUE
  <2> DEFINE s == <<Br(x), Label(x)>>
  <2>1. Piece(s, {x}, {x}) /\ code' = code \o s
    BY <1>8, BranchPiece
  <2> HIDE DEF s
  <2>2. Exchange(todo, s, {x}, {x}, << >>, nlabels, nlabels')
    BY <1>2, <1>4, <1>7, <2>1, NoTasks, AllPendingEmpty DEF Exchange
  <2>3. failed' \in BOOLEAN /\ (failed => failed')
        /\ (~failed' => Links(code, todo, {x}, {x}, << >>, scopes'))
    BY <1>8
  <2> QED
    BY <1>1, <1>2, <1>5, <1>6, <1>7, <2>1, <2>2, <2>3, InsideNone, TaskStep
<1>9. CASE code' = code \o ForTail(i, c, x, e) /\ failed' = failed
  <2> DEFINE s == ForTail(i, c, x, e)
  <2>1. Piece(s, {x, e}, {x, c}) /\ code' = code \o s
    BY <1>3, <1>9, ForTailPiece
  <2> HIDE DEF s
  <2>2. Exchange(todo, s, {x, e}, {x, c}, << >>, nlabels, nlabels')
    BY <1>2, <1>4, <1>7, <2>1, NoTasks, AllPendingEmpty DEF Exchange
  <2>3. ASSUME ~failed' PROVE Links(code, todo, {x, e}, {x, c}, << >>, scopes')
    <3>1. ScopeLabels(scopes') \subseteq Known(code, todo)
      BY <1>6, <1>9, <2>3 DEF IInv, Linked
    <3>2. {c} \subseteq Known(code, todo)
      BY <1>2, <1>4, <1>9, <2>3
    <3> QED
      BY <1>4, <3>1, <3>2, AllPendingEmpty DEF Links
  <2>4. failed' \in BOOLEAN /\ (failed => failed')
    BY <1>9 DEF IInv
  <2> QED
    BY <1>1, <1>2, <1>5, <1>6, <1>7, <2>1, <2>2, <2>3, <2>4, InsideNone, TaskStep
<1> QED
  BY <1>5, <1>8, <1>9

LEMMA GenFailureInv == IInv /\ GenFailure => IInv'
<1> SUFFICES ASSUME IInv, GenFailure PROVE IInv'
  OBVIOUS
<1>1. /\ Calling /\ failed' = TRUE /\ todo' = Rest
      /\ UNCHANGED <<prog, isVoid, scopes, done>>
  BY DEF GenFailure, Visiting
<1>2. /\ ~done /\ todo # << >> /\ Pending(Head(todo)) = {}
      /\ stmt \in Nat /\ nlabels \in Nat
      /\ todo' = << >> \o Tail(todo) /\ code \o << >> = code
  BY <1>1, AtCall DEF Rest
<1>4. scopes' \in Seq(LoopScope) /\ failed' \in BOOLEAN /\ (failed => failed')
  BY <1>1 DEF IInv
<1>5. \/ /\ code' = code \o <<Br(nlabels), Label(nlabels)>>
         /\ nlabels' = nlabels + 3
      \/ /\ code' = code \o <<Act(stmt), Br(nlabels), Label(nlabels)>>
         /\ nlabels' = nlabels + 4
      \/ code' = code \o << >> /\ nlabels' = nlabels
  BY <1>2 DEF GenFailure, Emit, mk_label
<1>6. PICK s, D, J : Exchange(todo, s, D, J, << >>, nlabels, nlabels') /\ code' = code \o s
  <2> DEFINE n == nlabels
  <2>1. CASE code' = code \o <<Br(n), Label(n)>> /\ nlabels' = n + 3
    <3>1. Piece(<<Br(n), Label(n)>>, {n}, {n})
      BY <1>2, BranchPiece
    <3>2. nlabels' \in Nat /\ n <= nlabels' /\ n \in n..(nlabels' - 1)
      BY <1>2, <2>1
    <3>3. Exchange(todo, <<Br(n), Label(n)>>, {n}, {n}, << >>, n, nlabels')
      BY <1>2, <3>1, <3>2, NoTasks, AllPendingEmpty DEF Exchange
    <3> QED
      BY <2>1, <3>3
  <2>2. CASE code' = code \o <<Act(stmt), Br(n), Label(n)>> /\ nlabels' = n + 4
    <3>1. Piece(<<Act(stmt), Br(n), Label(n)>>, {n}, {n})
      BY <1>2, ForFailurePiece
    <3>2. nlabels' \in Nat /\ n <= nlabels' /\ n \in n..(nlabels' - 1)
      BY <1>2, <2>2
    <3>3. Exchange(todo, <<Act(stmt), Br(n), Label(n)>>, {n}, {n}, << >>, n, nlabels')
      BY <1>2, <3>1, <3>2, NoTasks, AllPendingEmpty DEF Exchange
    <3> QED
      BY <2>2, <3>3
  <2>3. CASE code' = code \o << >> /\ nlabels' = n
    <3>1. Exchange(todo, << >>, {}, {}, << >>, n, nlabels')
      BY <1>2, <2>3, NoTasks, AllPendingEmpty, EmptyPiece DEF Exchange
    <3> QED
      BY <2>3, <3>1
  <2> QED
    BY <1>5, <2>1, <2>2, <2>3
<1>7. ~failed' => Links(code, todo, D, J, << >>, scopes')
  BY <1>1
<1> QED
  BY <1>1, <1>2, <1>4, <1>6, <1>7, InsideNone, TaskStep

(***************************************************************************)
(* gen_func appends at most one `ret` to the code of the body.             *)
(***************************************************************************)
LEMMA GenFuncEndInv == IInv /\ GenFuncEnd => IInv'
<1> SUFFICES ASSUME IInv, GenFuncEnd PROVE IInv'
  OBVIOUS
<1>1. /\ todo = << >> /\ done' = TRUE
      /\ UNCHANGED <<prog, isVoid, todo, scopes, nlabels, failed>>
      /\ code' = code \o <<Ret(0)>> \/ code' = code
  BY DEF GenFuncEnd, Emit
<1>2. Sound(code, todo, nlabels) /\ AllPending(todo) = {}
  BY <1>1, AllPendingEmpty DEF IInv
<1>3. CASE code' = code
  BY <1>1, <1>3 DEF IInv
<1>4. CASE code' = code \o <<Ret(0)>>
  <2> DEFINE s == <<Ret(0)>>
             C == LabelsOf(code)
  <2>1. Piece(s, {}, {})
    BY OpaquePiece
  <2> HIDE DEF s
  <2>2. Piece(code, C, Nat) /\ C \cap {} = {}
    BY <1>2 DEF Sound
  <2>3. Piece(code \o s, C \cup {}, Nat \cup {})
    BY <2>1, <2>2, PieceConcat
  <2>4. Piece(code \o s, C, Nat) /\ LabelsOf(code \o s) = C
    BY <2>3 DEF Piece
  <2>5. Sound(code \o s, todo, nlabels)
    BY <1>2, <2>4 DEF Sound, Known
  <2>6. ASSUME ~failed PROVE Linked(code \o s, todo, scopes)
    <3> DEFINE K == Known(code, todo)
    <3>1. JumpsInto(code, K) /\ Linked(code, todo, scopes)
      BY <2>6 DEF IInv, Linked
    <3> HIDE DEF K
    <3>2. Piece(code, C, K)
      BY <2>2, <3>1 DEF Piece
    <3>3. Piece(code \o s, C \cup {}, K \cup {})
      BY <2>1, <2>2, <3>2, PieceConcat
    <3>4. JumpsInto(code \o s, K)
      BY <3>3 DEF Piece
    <3> QED
      BY <2>4, <3>1, <3>4 DEF Linked, Known, K
  <2>7. Sound(code', todo', nlabels') /\ (~failed' => Linked(code', todo', scopes'))
    BY <1>1, <1>4, <2>5, <2>6 DEF s
  <2> QED
    BY <1>1, <2>7 DEF IInv
<1> QED
  BY <1>1, <1>3, <1>4

-----------------------------------------------------------------------------
LEMMA InitIInv == Init => IInv
<1> SUFFICES ASSUME Init PROVE IInv
  OBVIOUS
<1>1. /\ code = << >> /\ todo = << Stmt(1) >> /\ scopes = << >> /\ nlabels = 0
      /\ prog \in Programs /\ isVoid \in BOOLEAN
      /\ failed = FALSE /\ done = FALSE
  BY DEF Init
<1> DEFINE t == Stmt(1)
<1>2. t \in Task /\ Shaped(t) /\ Pending(t) = {} /\ Needs(t) = {} /\ Inside(t, prog)
  BY TaskFacts, InsideFacts
<1>3. /\ Tasks(todo) /\ AllPending(todo) = {}
      /\ \A k \in 1..Len(todo) : Needs(todo[k]) = {} /\ Inside(todo[k], prog)
  <2>1. todo \in Seq(Task) /\ Len(todo) = 1 /\ todo[1] = t
    BY <1>1, <1>2
  <2>2. \A k \in 1..Len(todo) : k = 1 /\ todo[k] = t
    BY <2>1
  <2> HIDE DEF t
  <2>3. Tasks(todo)
    BY <1>2, <2>1, <2>2 DEF Tasks
  <2>4. AllPending(todo) = {}
    BY <1>2, <2>2 DEF AllPending
  <2> QED
    BY <1>2, <2>2, <2>3, <2>4
<1>4. /\ Piece(code, {}, Nat) /\ Piece(code, {}, {}) /\ LabelsOf(code) = {}
  BY <1>1, EmptyPiece DEF Piece
<1>5. Sound(code, todo, nlabels)
  BY <1>3, <1>4 DEF Sound, Known
<1>6. scopes \in Seq(LoopScope) /\ ScopeLabels(scopes) = {}
  BY <1>1, EmptySeq DEF ScopeLabels
<1>7. Linked(code, todo, scopes)
  BY <1>3, <1>4, <1>6 DEF Linked, Known, Piece
<1>8. nlabels \in Nat
  BY <1>1
<1>9. failed \in BOOLEAN /\ done \in BOOLEAN /\ ~done /\ prog \in Programs /\ isVoid \in BOOLEAN
  BY <1>1
<1> QED
  BY <1>3, <1>5, <1>6, <1>7, <1>8, <1>9 DEF IInv

LEMMA NextIInv == IInv /\ [Next]_vars => IInv'
<1> SUFFICES ASSUME IInv, [Next]_vars PROVE IInv'
  OBVIOUS
<1>1. CASE UNCHANGED vars
  BY <1>1 DEF vars, IInv
<1>2. CASE Next
  BY <1>2, GenActInv, GenRetInv, GenJumpInv, GenBlockInv, GenIfInv, GenAfterThenInv,
     GenAfterElseInv, GenWhileInv, GenAfterWhileInv, GenForInv, GenAfterForInv,
     GenFailureInv, GenFuncEndInv
     DEF Next, GenStmt
<1> QED
  BY <1>1, <1>2

THEOREM Invariance == Spec => []IInv
<1>1. Init => IInv
  BY InitIInv
<1>2. IInv /\ [Next]_vars => IInv'
  BY NextIInv
<1> QED
  BY <1>1, <1>2, PTL DEF Spec

(***************************************************************************)
(* The state of gen_stmt has its type in every reachable state.            *)
(***************************************************************************)
THEOREM TypeCorrect == Spec => []TypeOK
<1>1. IInv => TypeOK
  <2> SUFFICES ASSUME IInv PROVE TypeOK
    OBVIOUS
  <2>1. prog \in Seq(Kind)
    BY ProgramsAssumption DEF IInv
  <2>2. todo \in Seq(Task) /\ code \in Seq(Instr)
    BY DEF IInv, Sound, Tasks, Piece
  <2> QED
    BY <2>1, <2>2 DEF IInv, TypeOK
<1> QED
  BY Invariance, <1>1, PTL

(***************************************************************************)
(* mk_label and the order in which gen_stmt emits labels never give two    *)
(* blocks of a function the same label, also after a failed expression.    *)
(***************************************************************************)
THEOREM LabelsUnique == Spec => []LabelsDefinedOnce
<1>1. IInv => LabelsDefinedOnce
  BY DEF IInv, LabelsDefinedOnce, Sound, Piece, Once
<1> QED
  BY Invariance, <1>1, PTL

(***************************************************************************)
(* gen_stmt ends every block before it starts the next.                    *)
(***************************************************************************)
THEOREM BlocksClosed == Spec => []NoFallThrough
<1>1. IInv => NoFallThrough
  BY DEF IInv, NoFallThrough, Sound, Piece, NoFall
<1> QED
  BY Invariance, <1>1, PTL

(***************************************************************************)
(* gen_func leaves no jump without its target when no expression failed.   *)
(***************************************************************************)
THEOREM JumpsHaveTargets == Spec => []TargetsDefined
<1>1. IInv => TargetsDefined
  <2> SUFFICES ASSUME IInv, done, ~failed,
                      NEW i \in 1..Len(code), code[i].op # "label",
                      NEW n \in 1..Len(code[i].to)
               PROVE  \E j \in 1..Len(code) : code[j] = Label(code[i].to[n])
    BY DEF TargetsDefined
  <2>1. AllPending(todo) = {} /\ Linked(code, todo, scopes)
    BY AllPendingEmpty DEF IInv
  <2>2. code[i].to[n] \in LabelsOf(code)
    BY <2>1 DEF Linked, Known, JumpsInto
  <2> QED
    BY <2>2 DEF LabelsOf
<1> QED
  BY Invariance, <1>1, PTL

-----------------------------------------------------------------------------
(***************************************************************************)
(* The loop scopes.  A step takes the first task off the list and puts up  *)
(* to two in its place, so the heights of the others do not change.        *)
(***************************************************************************)
\* The loops of a list of tasks, and whether sc has their scopes.
LoopTask(t)    == t.task \in {"while", "for"}
Height(t, h) == t[Len(t) + 1 - h]
LoopsOf(t)   == {h \in 1..Len(t) : LoopTask(Height(t, h))}
UpTo(t, h)   == {g \in LoopsOf(t) : g <= h}
InTune(t, sc) ==
  /\ Len(sc) = Cardinality(LoopsOf(t))
  /\ \A h \in LoopsOf(t) : sc[Cardinality(UpTo(t, h))] = ScopeOf(Height(t, h))

\* Cardinalities of the loops up to a height.
LEMMA LoopCounts ==
  ASSUME NEW t \in Seq(Task)
  PROVE  /\ IsFiniteSet(LoopsOf(t)) /\ Cardinality(LoopsOf(t)) \in Nat
         /\ \A h \in LoopsOf(t) : Cardinality(UpTo(t, h)) \in 1..Cardinality(LoopsOf(t))
<1>1. IsFiniteSet(1..Len(t))
  BY LenProperties, FS_Interval
<1>2. IsFiniteSet(LoopsOf(t))
  BY <1>1, FS_Subset DEF LoopsOf
<1>3. ASSUME NEW h \in LoopsOf(t)
      PROVE  Cardinality(UpTo(t, h)) \in 1..Cardinality(LoopsOf(t))
  <2>1. UpTo(t, h) \subseteq LoopsOf(t) /\ h \in UpTo(t, h)
    BY LenProperties DEF UpTo, LoopsOf
  <2>2. IsFiniteSet(UpTo(t, h)) /\ Cardinality(UpTo(t, h)) <= Cardinality(LoopsOf(t))
    BY <1>2, <2>1, FS_Subset
  <2>3. Cardinality(UpTo(t, h)) \in Nat /\ Cardinality(UpTo(t, h)) # 0
    BY <2>1, <2>2, FS_CardinalityType, FS_EmptySet
  <2> QED
    BY <1>2, <2>2, <2>3, FS_CardinalityType
<1> QED
  BY <1>2, <1>3, FS_CardinalityType

\* What is below the first element keeps its height.
LEMMA HeightsKept ==
  ASSUME NEW T, NEW t \in Seq(T), t # << >>, NEW p \in Seq(T)
  PROVE  /\ p \o Tail(t) \in Seq(T) /\ Len(t) \in Nat \ {0}
         /\ Len(p \o Tail(t)) = Len(p) + Len(t) - 1
         /\ \A h \in 1..(Len(t) - 1) : Height(p \o Tail(t), h) = Height(t, h)
         /\ Height(t, Len(t)) = Head(t)
         /\ \A h \in Len(t)..Len(p \o Tail(t)) :
              Height(p \o Tail(t), h) = p[Len(p \o Tail(t)) + 1 - h]
<1> DEFINE u == p \o Tail(t)
<1>1. /\ Len(t) \in Nat \ {0} /\ Tail(t) \in Seq(T) /\ Len(Tail(t)) = Len(t) - 1
      /\ \A i \in 1..(Len(t) - 1) : Tail(t)[i] = t[i + 1]
  BY EmptySeq, HeadTailProperties
<1>2. /\ u \in Seq(T) /\ Len(u) = Len(p) + (Len(t) - 1) /\ Len(p) \in Nat
      /\ \A i \in 1..Len(u) : u[i] = IF i <= Len(p) THEN p[i] ELSE Tail(t)[i - Len(p)]
  BY <1>1, ConcatProperties, LenProperties
<1> HIDE DEF u
<1>3. ASSUME NEW h \in 1..(Len(t) - 1) PROVE Height(u, h) = Height(t, h)
  <2>1. Len(u) + 1 - h \in 1..Len(u) /\ ~(Len(u) + 1 - h <= Len(p))
    BY <1>1, <1>2
  <2>2. (Len(u) + 1 - h) - Len(p) \in 1..(Len(t) - 1) /\ (Len(u) + 1 - h) - Len(p) + 1 = Len(t) + 1 - h
    BY <1>1, <1>2
  <2>3. u[Len(u) + 1 - h] = Tail(t)[(Len(u) + 1 - h) - Len(p)]
    BY <1>2, <2>1
  <2>4. Tail(t)[(Len(u) + 1 - h) - Len(p)] = t[Len(t) + 1 - h]
    BY <1>1, <2>2
  <2> QED
    BY <2>3, <2>4 DEF Height
<1>4. Height(t, Len(t)) = Head(t)
  BY <1>1 DEF Height
<1>5. \A h \in Len(t)..Len(u) : Height(u, h) = p[Len(u) + 1 - h]
  BY <1>1, <1>2 DEF Height
<1>6. Len(u) = Len(p) + Len(t) - 1
  BY <1>1, <1>2
<1> QED
  BY <1>1, <1>2, <1>3, <1>4, <1>5, <1>6 DEF u

LEMMA HeightsStay ==
  ASSUME NEW t \in Seq(Task), t # << >>, NEW p \in Seq(Task)
  PROVE  /\ p \o Tail(t) \in Seq(Task) /\ Len(t) \in Nat \ {0}
         /\ Len(p \o Tail(t)) = Len(p) + Len(t) - 1
         /\ \A h \in 1..(Len(t) - 1) : Height(p \o Tail(t), h) = Height(t, h)
         /\ Height(t, Len(t)) = Head(t)
         /\ \A h \in Len(t)..Len(p \o Tail(t)) :
              Height(p \o Tail(t), h) = p[Len(p \o Tail(t)) + 1 - h]
BY HeightsKept

\* A task that is no loop is replaced by some that are none.
LEMMA NoLoopTuned ==
  ASSUME NEW t \in Seq(Task), t # << >>, NEW p \in Seq(Task), NEW sc, InTune(t, sc),
         ~LoopTask(Head(t)), \A i \in 1..Len(p) : ~LoopTask(p[i])
  PROVE  InTune(p \o Tail(t), sc)
<1> DEFINE u == p \o Tail(t)
<1>0. u = p \o Tail(t) /\ Len(p) \in Nat
  BY LenProperties
<1> HIDE DEF u
<1>1. /\ u \in Seq(Task) /\ Len(t) \in Nat \ {0} /\ Len(u) = Len(p) + Len(t) - 1
      /\ \A h \in 1..(Len(t) - 1) : Height(u, h) = Height(t, h)
      /\ Height(t, Len(t)) = Head(t)
      /\ \A h \in Len(t)..Len(u) : Height(u, h) = p[Len(u) + 1 - h]
  BY <1>0, HeightsStay
<1>2. \A h \in Len(t)..Len(u) : Len(u) + 1 - h \in 1..Len(p)
  BY <1>0, <1>1
<1>3. \A h \in Len(t)..Len(u) : ~LoopTask(Height(u, h))
  BY <1>1, <1>2
<1>4. LoopsOf(u) = LoopsOf(t)
  <2>1. ASSUME NEW h \in LoopsOf(u) PROVE h \in LoopsOf(t)
    BY <1>0, <1>1, <1>3 DEF LoopsOf
  <2>2. ASSUME NEW h \in LoopsOf(t) PROVE h \in LoopsOf(u)
    BY <1>0, <1>1 DEF LoopsOf
  <2> QED
    BY <2>1, <2>2
<1>5. \A h \in LoopsOf(t) : UpTo(u, h) = UpTo(t, h) /\ Height(u, h) = Height(t, h)
  BY <1>1, <1>4 DEF UpTo, LoopsOf
<1>6. InTune(u, sc)
  BY <1>4, <1>5 DEF InTune
<1> QED
  BY <1>6 DEF u

\* A task that is no loop is replaced by the body of a loop and its end.
LEMMA LoopPushed ==
  ASSUME NEW t \in Seq(Task), t # << >>, NEW x \in Task, NEW y \in Task,
         NEW sc \in Seq(LoopScope), InTune(t, sc),
         ~LoopTask(Head(t)), ~LoopTask(x), LoopTask(y), ScopeOf(y) \in LoopScope
  PROVE  InTune(<<x, y>> \o Tail(t), Append(sc, ScopeOf(y)))
<1> DEFINE p == <<x, y>>
           u == p \o Tail(t)
           n == Len(t)
           sd == Append(sc, ScopeOf(y))
<1>1. p \in Seq(Task) /\ Len(p) = 2 /\ p[1] = x /\ p[2] = y
  OBVIOUS
<1> HIDE DEF p
<1>2. /\ u \in Seq(Task) /\ n \in Nat \ {0} /\ Len(u) = n + 1
      /\ \A h \in 1..(n - 1) : Height(u, h) = Height(t, h)
      /\ Height(t, n) = Head(t)
      /\ Height(u, n) = y /\ Height(u, n + 1) = x
  <2>0. u = p \o Tail(t)
    OBVIOUS
  <2> HIDE DEF u
  <2>1. /\ u \in Seq(Task) /\ n \in Nat \ {0} /\ Len(u) = Len(p) + n - 1
        /\ \A h \in 1..(n - 1) : Height(u, h) = Height(t, h)
        /\ Height(t, n) = Head(t)
        /\ \A h \in n..Len(u) : Height(u, h) = p[Len(u) + 1 - h]
    BY <1>1, <2>0, HeightsStay
  <2>2. Len(u) = n + 1 /\ n \in n..Len(u) /\ n + 1 \in n..Len(u)
    BY <1>1, <2>1
  <2>3. Height(u, n) = p[2] /\ Height(u, n + 1) = p[1]
    BY <2>1, <2>2
  <2> QED
    BY <1>1, <2>1, <2>2, <2>3
<1>3. /\ sd \in Seq(LoopScope) /\ Len(sd) = Len(sc) + 1 /\ Len(sc) \in Nat
      /\ \A k \in 1..Len(sc) : sd[k] = sc[k]
      /\ sd[Len(sc) + 1] = ScopeOf(y)
  BY AppendProperties, LenProperties
<1> HIDE DEF u, n, sd
<1>4. \A h \in LoopsOf(t) : h \in 1..(n - 1)
  BY <1>2 DEF LoopsOf, n
<1>5. LoopsOf(u) = LoopsOf(t) \cup {n}
  <2>1. ASSUME NEW h \in LoopsOf(u) PROVE h \in LoopsOf(t) \cup {n}
    <3>1. h \in 1..(n + 1) /\ h # n + 1 /\ LoopTask(Height(u, h))
      BY <1>2, <2>1 DEF LoopsOf
    <3>2. CASE h \in 1..(n - 1)
      BY <1>2, <3>1, <3>2 DEF LoopsOf, n
    <3> QED
      BY <1>2, <3>1, <3>2
  <2>2. ASSUME NEW h \in LoopsOf(t) PROVE h \in LoopsOf(u)
    BY <1>2, <1>4, <2>2 DEF LoopsOf
  <2>3. n \in LoopsOf(u)
    BY <1>2 DEF LoopsOf
  <2> QED
    BY <2>1, <2>2, <2>3
<1>6. n \notin LoopsOf(t) /\ n \in Nat
  BY <1>2, <1>4
<1>7. /\ Cardinality(LoopsOf(t)) = Len(sc)
      /\ Cardinality(LoopsOf(u)) = Len(sc) + 1
  <2>1. Cardinality(LoopsOf(t)) = Len(sc)
    BY DEF InTune
  <2>2. IsFiniteSet(LoopsOf(t))
    BY LoopCounts
  <2>3. Cardinality(LoopsOf(t) \cup {n}) = Cardinality(LoopsOf(t)) + 1
    BY <1>6, <2>2, FS_AddElement
  <2> QED
    BY <1>5, <2>1, <2>3
<1>8. \A h \in LoopsOf(t) : /\ Cardinality(UpTo(t, h)) \in 1..Len(sc)
                            /\ sc[Cardinality(UpTo(t, h))] = ScopeOf(Height(t, h))
  BY <1>7, LoopCounts DEF InTune
<1>9. \A h \in LoopsOf(t) : UpTo(u, h) = UpTo(t, h) /\ Height(u, h) = Height(t, h)
  BY <1>2, <1>4, <1>5 DEF UpTo
<1>10. UpTo(u, n) = LoopsOf(u)
  BY <1>2, <1>4, <1>5 DEF UpTo
<1>11. ASSUME NEW h \in LoopsOf(u)
       PROVE  sd[Cardinality(UpTo(u, h))] = ScopeOf(Height(u, h))
  <2>1. CASE h \in LoopsOf(t)
    BY <1>3, <1>8, <1>9, <2>1
  <2>2. CASE h = n
    BY <1>2, <1>3, <1>7, <1>10, <2>2
  <2> QED
    BY <1>5, <2>1, <2>2
<1>12. InTune(u, sd)
  BY <1>3, <1>7, <1>11 DEF InTune
<1> QED
  BY <1>12 DEF u, p, sd

\* The end of a loop is done.
LEMMA LoopPopped ==
  ASSUME NEW t \in Seq(Task), t # << >>, NEW sc \in Seq(LoopScope), InTune(t, sc),
         LoopTask(Head(t))
  PROVE  InTune(Tail(t), SubSeq(sc, 1, Len(sc) - 1))
<1> DEFINE u == Tail(t)
           n == Len(t)
           sd == SubSeq(sc, 1, Len(sc) - 1)
<1>1. /\ u \in Seq(Task) /\ n \in Nat \ {0} /\ Len(u) = n - 1
      /\ \A h \in 1..(n - 1) : Height(u, h) = Height(t, h)
      /\ Height(t, n) = Head(t)
  <2>1. << >> \in Seq(Task) /\ Len(<< >>) = 0 /\ u \in Seq(Task) /\ u = << >> \o u
    BY EmptySeq, HeadTailProperties, ConcatEmptySeq
  <2>2. n \in Nat /\ u = << >> \o Tail(t)
    BY <2>1, LenProperties
  <2> DEFINE e == << >>
  <2>3. e \in Seq(Task) /\ Len(e) = 0 /\ u = e \o Tail(t)
    BY <2>1, <2>2
  <2> HIDE DEF e, u
  <2>4. /\ u \in Seq(Task) /\ Len(t) \in Nat \ {0} /\ Len(u) = Len(e) + Len(t) - 1
        /\ \A h \in 1..(Len(t) - 1) : Height(u, h) = Height(t, h)
        /\ Height(t, Len(t)) = Head(t)
    BY <2>3, HeightsStay
  <2> QED
    BY <2>2, <2>3, <2>4
<1> HIDE DEF u, n
<1>2. n \in LoopsOf(t)
  BY <1>1 DEF LoopsOf, n
<1>3. LoopsOf(u) = LoopsOf(t) \ {n}
  <2>1. ASSUME NEW h \in LoopsOf(u) PROVE h \in LoopsOf(t) \ {n}
    BY <1>1, <2>1 DEF LoopsOf, n
  <2>2. ASSUME NEW h \in LoopsOf(t) \ {n} PROVE h \in LoopsOf(u)
    BY <1>1, <2>2 DEF LoopsOf, n
  <2> QED
    BY <2>1, <2>2
<1>4. /\ Cardinality(LoopsOf(t)) = Len(sc) /\ Len(sc) \in Nat
      /\ Cardinality(LoopsOf(u)) = Len(sc) - 1
  BY <1>2, <1>3, LoopCounts, LenProperties, FS_RemoveElement DEF InTune
<1>5. Len(sc) - 1 \in Nat
  BY <1>1, <1>4, LoopCounts
<1>6. /\ Len(sd) = Len(sc) - 1
      /\ \A k \in 1..(Len(sc) - 1) : sd[k] = sc[k]
  <2>1. \A k \in 1..(Len(sc) - 1) : sc[k] \in LoopScope
    BY <1>4, ElementOfSeq
  <2>2. /\ Len(sd) = IF 1 <= Len(sc) - 1 THEN (Len(sc) - 1) - 1 + 1 ELSE 0
        /\ \A k \in 1..((Len(sc) - 1) - 1 + 1) : sd[k] = sc[1 + k - 1]
    BY <1>5, <2>1, SubSeqProperties
  <2> QED
    BY <1>4, <1>5, <2>2
<1> HIDE DEF sd
<1>7. ASSUME NEW h \in LoopsOf(u)
      PROVE  sd[Cardinality(UpTo(u, h))] = ScopeOf(Height(u, h))
  <2>1. h \in LoopsOf(t) /\ h \in 1..(n - 1)
    BY <1>1, <1>3 DEF LoopsOf
  <2>2. UpTo(u, h) = UpTo(t, h)
    BY <1>1, <1>3, <2>1 DEF UpTo
  <2>3. Cardinality(UpTo(u, h)) \in 1..(Len(sc) - 1)
    BY <1>1, <1>4, LoopCounts
  <2>4. sc[Cardinality(UpTo(t, h))] = ScopeOf(Height(t, h))
    BY <2>1 DEF InTune
  <2> QED
    BY <1>1, <1>6, <2>1, <2>2, <2>3, <2>4
<1>8. InTune(u, sd)
  BY <1>4, <1>6, <1>7 DEF InTune
<1> QED
  BY <1>8 DEF u, sd

LEMMA TuneInv == IInv /\ ScopesMatchLoops /\ [Next]_vars => ScopesMatchLoops'
<1> SUFFICES ASSUME IInv, ScopesMatchLoops, [Next]_vars PROVE ScopesMatchLoops'
  OBVIOUS
<1>1. (InTune(todo, scopes) <=> ScopesMatchLoops) /\ (InTune(todo', scopes') <=> ScopesMatchLoops')
  BY DEF InTune, ScopesMatchLoops, LoopsOf, UpTo, Height, LoopTask, OpenLoops, Nesting, TaskAt
<1>2. InTune(todo, scopes) /\ todo \in Seq(Task) /\ scopes \in Seq(LoopScope)
  BY <1>1 DEF IInv, Sound, Tasks
<1> SUFFICES InTune(todo', scopes')
  BY <1>1
<1>3. CASE todo' = todo /\ scopes' = scopes
  BY <1>2, <1>3
\* A task that is no loop, replaced by no, one or two such tasks.
<1>4. ASSUME todo # << >>, ~LoopTask(Head(todo)), scopes' = scopes,
             NEW p \in Seq(Task), \A i \in 1..Len(p) : ~LoopTask(p[i]), todo' = p \o Rest
      PROVE  InTune(todo', scopes')
  BY <1>2, <1>4, NoLoopTuned DEF Rest
<1>5. /\ \A i \in Nat : Stmt(i) \in Task /\ ~LoopTask(Stmt(i))
      /\ \A i \in Nat, els \in Nat \cup {NoLabel}, end \in Nat :
           /\ EndThen(i, els, end) \in Task /\ ~LoopTask(EndThen(i, els, end))
           /\ EndElse(end) \in Task /\ ~LoopTask(EndElse(end))
      /\ \A i, c, e, x \in Nat :
           /\ EndWhile(c, e) \in Task /\ LoopTask(EndWhile(c, e))
           /\ ScopeOf(EndWhile(c, e)) = Scope(e, c)
           /\ EndFor(i, c, x, e) \in Task /\ LoopTask(EndFor(i, c, x, e))
           /\ ScopeOf(EndFor(i, c, x, e)) = Scope(e, x)
      /\ \A c, e \in Nat : Scope(e, c) \in LoopScope
  <2>1. \A i, els, end : EndThen(i, els, end).task = "then" /\ EndElse(end).task = "else"
    BY DEF EndThen, EndElse
  <2>2. \A c, e : /\ EndWhile(c, e).task = "while"
                  /\ EndWhile(c, e).lbl[1] = c /\ EndWhile(c, e).lbl[2] = e
    BY DEF EndWhile
  <2>3. \A i, c, x, e : /\ EndFor(i, c, x, e).task = "for"
                        /\ EndFor(i, c, x, e).lbl[2] = x /\ EndFor(i, c, x, e).lbl[3] = e
    BY DEF EndFor
  <2>4. \A i : Stmt(i).task = "stmt"
    BY DEF Stmt
  <2>5. \A c, e \in Nat : Scope(e, c) \in LoopScope
    BY DEF Scope, LoopScope
  <2>6. /\ \A i \in Nat : Stmt(i) \in Task
        /\ \A i \in Nat, els \in Nat \cup {NoLabel}, end \in Nat : EndThen(i, els, end) \in Task
        /\ \A end \in Nat : EndElse(end) \in Task
        /\ \A c, e \in Nat : EndWhile(c, e) \in Task
        /\ \A i, c, x, e \in Nat : EndFor(i, c, x, e) \in Task
    BY TaskFacts
  <2>7. \A c, e : /\ LoopTask(EndWhile(c, e))
                  /\ ScopeOf(EndWhile(c, e)) = Scope(e, c)
    BY <2>2 DEF LoopTask, ScopeOf
  <2>8. \A i, c, x, e : /\ LoopTask(EndFor(i, c, x, e))
                        /\ ScopeOf(EndFor(i, c, x, e)) = Scope(e, x)
    BY <2>3 DEF LoopTask, ScopeOf
  <2>9. /\ \A i : ~LoopTask(Stmt(i))
        /\ \A i, els, end : ~LoopTask(EndThen(i, els, end)) /\ ~LoopTask(EndElse(end))
    BY <2>1, <2>4 DEF LoopTask
  <2> QED
    BY <2>5, <2>6, <2>7, <2>8, <2>9
<1>6. ASSUME todo # << >>, ~LoopTask(Head(todo)), scopes' = scopes, todo' = Rest
      PROVE  InTune(todo', scopes')
  <2> DEFINE p == << >>
  <2>1. p \in Seq(Task) /\ Len(p) = 0 /\ todo' = p \o Rest
    BY <1>2, <1>6, EmptySeq, HeadTailProperties, ConcatEmptySeq DEF Rest
  <2> HIDE DEF p
  <2>2. \A i \in 1..Len(p) : ~LoopTask(p[i])
    BY <2>1
  <2> QED
    BY <1>4, <1>6, <2>1, <2>2
<1>7. Calling => /\ todo # << >> /\ ~LoopTask(Head(todo)) /\ nlabels \in Nat
                 /\ stmt \in Nat /\ First(stmt) \in Nat
  BY AtCall DEF Calling, LoopTask, First
<1>8. CASE GenAct \/ GenRet \/ GenJump \/ GenFailure
  <2>1. Calling /\ todo' = Rest /\ scopes' = scopes
    BY <1>8 DEF GenAct, GenRet, GenJump, GenFailure, Visiting
  <2> QED
    BY <1>6, <1>7, <2>1
<1>9. CASE GenBlock
  <2>1. /\ Calling /\ scopes' = scopes /\ stmt \in DOMAIN prog
        /\ \/ todo' = Rest
           \/ prog[stmt] = "seq" /\ todo' = <<Stmt(First(stmt)), Stmt(Second(stmt))>> \o Rest
    BY <1>9 DEF GenBlock, Visiting
  <2>2. CASE todo' = Rest
    BY <1>6, <1>7, <2>1, <2>2
  <2>3. CASE prog[stmt] = "seq" /\ todo' = <<Stmt(First(stmt)), Stmt(Second(stmt))>> \o Rest
    <3> DEFINE f == Stmt(First(stmt))
               g == Stmt(Second(stmt))
               p == <<f, g>>
    <3>1. prog \in Programs /\ stmt \in Nat /\ prog[stmt] \notin Leaf
      BY <1>7, <2>1, <2>3 DEF IInv, Leaf
    <3>2. First(stmt) \in Nat /\ Second(stmt) \in Nat
      BY <2>1, <3>1, Children
    <3>3. f \in Task /\ ~LoopTask(f) /\ g \in Task /\ ~LoopTask(g)
      BY <1>5, <3>2
    <3> HIDE DEF f, g
    <3>4. p \in Seq(Task) /\ \A i \in 1..Len(p) : ~LoopTask(p[i])
      BY <3>3
    <3> HIDE DEF p
    <3>5. todo' = p \o Rest
      BY <2>3 DEF p, f, g
    <3> QED
      BY <1>4, <1>7, <2>1, <3>4, <3>5
  <2> QED
    BY <2>1, <2>2, <2>3
<1>10. CASE GenIf
  <2>1. PICK els \in Nat \cup {NoLabel}, end \in Nat :
          /\ Calling /\ scopes' = scopes
          /\ todo' = <<Stmt(First(stmt)), EndThen(stmt, els, end)>> \o Rest
    <3>1. Calling
      BY <1>10 DEF GenIf, Visiting
    <3>2. nlabels \in Nat /\ nlabels + 1 \in Nat /\ nlabels + 2 \in Nat
      BY <1>7, <3>1
    <3> QED
      BY <1>10, <3>1, <3>2 DEF GenIf
  <2> DEFINE f == Stmt(First(stmt))
             g == EndThen(stmt, els, end)
             p == <<f, g>>
  <2>2. f \in Task /\ ~LoopTask(f) /\ g \in Task /\ ~LoopTask(g)
    BY <1>5, <1>7, <2>1
  <2> HIDE DEF f, g
  <2>3. p \in Seq(Task) /\ \A i \in 1..Len(p) : ~LoopTask(p[i])
    BY <2>2
  <2> HIDE DEF p
  <2>4. todo' = p \o Rest
    BY <2>1 DEF p, f, g
  <2> QED
    BY <1>4, <1>7, <2>1, <2>3, <2>4
<1>11. CASE GenAfterThen
  <2>1. /\ Returning("then") /\ scopes' = scopes
        /\ todo' = IF Head(todo).lbl[1] = NoLabel THEN Rest
                   ELSE <<Stmt(Second(stmt)), EndElse(Head(todo).lbl[2])>> \o Rest
    BY <1>11 DEF GenAfterThen
  <2>2. todo # << >> /\ ~LoopTask(Head(todo)) /\ Shaped(Head(todo))
    BY <2>1, AtReturn DEF LoopTask
  <2>3. Head(todo).lbl[2] \in Nat
    <3>1. PICK i \in Nat, els \in Nat \cup {NoLabel}, end \in Nat :
            Head(todo) = EndThen(i, els, end)
      <4>1. Head(todo).task = "then"
        BY <2>1 DEF Returning
      <4> QED
        BY <2>2, <4>1, Heads
    <3> QED
      BY <3>1 DEF EndThen
  <2>4. CASE Head(todo).lbl[1] = NoLabel
    BY <1>6, <2>1, <2>2, <2>4
  <2>5. CASE Head(todo).lbl[1] # NoLabel
    <3> DEFINE f == Stmt(Second(stmt))
               g == EndElse(Head(todo).lbl[2])
               p == <<f, g>>
    <3>1. f \in Task /\ ~LoopTask(f) /\ g \in Task /\ ~LoopTask(g)
      <4>1. Second(stmt) \in Nat
        BY <2>1, AfterThenTyped
      <4> QED
        BY <1>5, <2>3, <4>1
    <3> HIDE DEF f, g
    <3>2. p \in Seq(Task) /\ \A i \in 1..Len(p) : ~LoopTask(p[i])
      BY <3>1
    <3> HIDE DEF p
    <3>3. todo' = p \o Rest
      BY <2>1, <2>5 DEF p, f, g
    <3> QED
      BY <1>4, <2>1, <2>2, <3>2, <3>3
  <2> QED
    BY <2>4, <2>5
<1>12. CASE GenAfterElse
  <2>1. Returning("else") /\ scopes' = scopes /\ todo' = Rest
    BY <1>12 DEF GenAfterElse
  <2>2. todo # << >> /\ ~LoopTask(Head(todo))
    BY <2>1 DEF Returning, LoopTask
  <2> QED
    BY <1>6, <2>1, <2>2
<1>13. CASE GenWhile
  <2> DEFINE c == nlabels
             e == nlabels + 2
             y == EndWhile(c, e)
             f == Stmt(First(stmt))
  <2>1. Calling /\ scopes' = Append(scopes, Scope(e, c)) /\ todo' = <<f, y>> \o Rest
    BY <1>13 DEF GenWhile, Visiting, push_loop_scope
  <2>2. c \in Nat /\ e \in Nat
    BY <1>7, <2>1
  <2>3. y \in Task /\ LoopTask(y) /\ ScopeOf(y) = Scope(e, c) /\ ScopeOf(y) \in LoopScope
    <3> HIDE DEF c, e
    <3> QED
      BY <1>5, <2>2
  <2>4. f \in Task /\ ~LoopTask(f)
    BY <1>5, <1>7, <2>1
  <2> HIDE DEF c, e, y, f
  <2> QED
    BY <1>2, <1>7, <2>1, <2>3, <2>4, LoopPushed DEF Rest
<1>14. CASE GenFor
  <2> DEFINE c == nlabels
             x == nlabels + 2
             e == nlabels + 3
             y == EndFor(stmt, c, x, e)
             f == Stmt(First(stmt))
  <2>1. Calling /\ scopes' = Append(scopes, Scope(e, x)) /\ todo' = <<f, y>> \o Rest
    BY <1>14 DEF GenFor, Visiting, push_loop_scope
  <2>2. c \in Nat /\ x \in Nat /\ e \in Nat /\ stmt \in Nat
    BY <1>7, <2>1
  <2>3. y \in Task /\ LoopTask(y) /\ ScopeOf(y) = Scope(e, x) /\ ScopeOf(y) \in LoopScope
    <3> HIDE DEF c, x, e
    <3> QED
      BY <1>5, <2>2
  <2>4. f \in Task /\ ~LoopTask(f)
    BY <1>5, <1>7, <2>1
  <2> HIDE DEF c, x, e, y, f
  <2> QED
    BY <1>2, <1>7, <2>1, <2>3, <2>4, LoopPushed DEF Rest
<1>15. CASE GenAfterWhile \/ GenAfterFor
  <2>1. /\ Returning("while") \/ Returning("for")
        /\ scopes' = SubSeq(scopes, 1, Len(scopes) - 1) /\ todo' = Tail(todo)
    BY <1>15 DEF GenAfterWhile, GenAfterFor, pop_loop_scope, Rest
  <2>2. todo # << >> /\ LoopTask(Head(todo))
    BY <2>1 DEF Returning, LoopTask
  <2> QED
    BY <1>2, <2>1, <2>2, LoopPopped
<1>16. CASE GenFuncEnd
  BY <1>3, <1>16 DEF GenFuncEnd
<1>17. CASE UNCHANGED vars
  BY <1>3, <1>17 DEF vars
<1> QED
  BY <1>8, <1>9, <1>10, <1>11, <1>12, <1>13, <1>14, <1>15, <1>16, <1>17 DEF Next, GenStmt

LEMMA InitScopes == Init => ScopesMatchLoops
<1> SUFFICES ASSUME Init PROVE ScopesMatchLoops
  OBVIOUS
<1>1. todo = <<Stmt(1)>> /\ scopes = << >> /\ Stmt(1).task = "stmt"
  BY DEF Init, Stmt
<1>2. Len(todo) = 1 /\ todo[1] = Stmt(1) /\ Len(scopes) = 0
  BY <1>1
<1>3. OpenLoops = {}
  BY <1>1, <1>2 DEF OpenLoops, TaskAt
<1> QED
  BY <1>2, <1>3, FS_EmptySet DEF ScopesMatchLoops

(***************************************************************************)
(* The stack of loop scopes is the loops being generated, in their order,  *)
(* wherever break, continue and failed expressions leave them.             *)
(***************************************************************************)
THEOREM ScopesAreLoops == Spec => []ScopesMatchLoops
<1>1. Init => ScopesMatchLoops
  BY InitScopes
<1> QED
  BY <1>1, Invariance, TuneInv, PTL DEF Spec

-----------------------------------------------------------------------------
(***************************************************************************)
(* Where the code of the statements is.  A span says that statement `at`   *)
(* is compiled to the instructions from `from` up to but not including     *)
(* `to`, where break and continue jump to `brk` and `cont`.  A position    *)
(* the generator has not reached is the level of the task that will reach  *)
(* it: -h, when the h tasks at the bottom of the stack are left.           *)
(***************************************************************************)
Spans == [at : Nat \ {0}, from : Int, to : Int,
          brk : Nat \cup {NoLabel}, cont : Nat \cup {NoLabel}]
Span(i, y, x, b, k) == [at |-> i, from |-> y, to |-> x, brk |-> b, cont |-> k]

\* The position at which the tasks up to height h are what is left.
Lev(c, q, h) == IF h = Len(q) THEN Len(c) + 1 ELSE 0 - h

\* b and k are the labels of the innermost loop below height h.
InScope(q, h, b, k) ==
  \/ b = NoLabel /\ k = NoLabel /\ \A g \in 1..(h - 1) : ~LoopTask(Height(q, g))
  \/ /\ b \in Nat /\ k \in Nat
     /\ \E g \in 1..(h - 1) :
          /\ LoopTask(Height(q, g)) /\ ScopeOf(Height(q, g)) = Scope(b, k)
          /\ \A m \in (g + 1)..(h - 1) : ~LoopTask(Height(q, m))

\* The code from y to x is what task t will emit.
Awaits(c, q, t, y, x, b, k) ==
  \E h \in 1..Len(q) : /\ Height(q, h) = t
                       /\ y = Lev(c, q, h) /\ x = Lev(c, q, h - 1)
                       /\ InScope(q, h, b, k)

At(c, y, ins) == y \in 1..Len(c) /\ c[y] = ins

Later(g, i) == AfterStmt(g)[i + 1]

(***************************************************************************)
(* The code of a statement, by its kind: what is emitted is there, its     *)
(* children have spans, and what is not yet emitted is awaited.            *)
(***************************************************************************)
LaidLeaf(c, g, r) ==
  \/ g[r.at] = "act" /\ At(c, r.from, Act(r.at)) /\ r.to = r.from + 1
  \/ g[r.at] = "ret" /\ At(c, r.from, Ret(r.at)) /\ r.to = r.from + 1
  \/ g[r.at] = "skip" /\ r.to = r.from
  \/ g[r.at] \in {"break", "continue"} /\ r.brk = NoLabel /\ r.to = r.from
  \/ g[r.at] = "break" /\ r.brk \in Nat /\ At(c, r.from, Br(r.brk))
  \/ /\ g[r.at] = "continue" /\ r.brk \in Nat /\ r.cont \in Nat
     /\ At(c, r.from, Br(r.cont))

LaidSeq(R, g, r) ==
  /\ g[r.at] = "seq"
  /\ \E y \in Int : /\ Span(r.at + 1, r.from, y, r.brk, r.cont) \in R
                    /\ Span(Later(g, r.at), y, r.to, r.brk, r.cont) \in R

LaidIf(R, c, q, g, r) ==
  /\ g[r.at] = "if"
  /\ \E t \in Nat, m \in Nat, y \in Int :
       /\ At(c, r.from, CBr(r.at, t, m)) /\ At(c, r.from + 1, Label(t))
       /\ Span(r.at + 1, r.from + 2, y, r.brk, r.cont) \in R
       /\ \/ Awaits(c, q, EndThen(r.at, NoLabel, m), y, r.to, r.brk, r.cont)
          \/ At(c, y, Br(m)) /\ At(c, y + 1, Label(m)) /\ r.to = y + 2

LaidElse(R, c, q, g, r, m, y) ==
  \E z \in Int :
    /\ Span(Later(g, r.at), y, z, r.brk, r.cont) \in R
    /\ \/ Awaits(c, q, EndElse(m), z, r.to, r.brk, r.cont)
       \/ At(c, z, Br(m)) /\ At(c, z + 1, Label(m)) /\ r.to = z + 2

LaidIfElse(R, c, q, g, r) ==
  /\ g[r.at] = "if_else"
  /\ \E t \in Nat, l \in Nat, m \in Nat, y \in Int :
       /\ At(c, r.from, CBr(r.at, t, l)) /\ At(c, r.from + 1, Label(t))
       /\ Span(r.at + 1, r.from + 2, y, r.brk, r.cont) \in R
       /\ \/ Awaits(c, q, EndThen(r.at, l, m), y, r.to, r.brk, r.cont)
          \/ /\ At(c, y, Br(m)) /\ At(c, y + 1, Label(l))
             /\ LaidElse(R, c, q, g, r, m, y + 2)

LaidWhile(R, c, q, g, r) ==
  /\ g[r.at] = "while"
  /\ \E l \in Nat, b \in Nat, e \in Nat, y \in Int :
       /\ At(c, r.from, Br(l)) /\ At(c, r.from + 1, Label(l))
       /\ At(c, r.from + 2, CBr(r.at, b, e)) /\ At(c, r.from + 3, Label(b))
       /\ Span(r.at + 1, r.from + 4, y, e, l) \in R
       /\ \/ Awaits(c, q, EndWhile(l, e), y, r.to, r.brk, r.cont)
          \/ At(c, y, Br(l)) /\ At(c, y + 1, Label(e)) /\ r.to = y + 2

LaidFor(R, c, q, g, r) ==
  /\ g[r.at] \in {"for", "forever", "for_step!"}
  /\ \E l \in Nat, b \in Nat, s \in Nat, e \in Nat, y \in Int :
       /\ At(c, r.from, Act(r.at)) /\ At(c, r.from + 1, Br(l))
       /\ At(c, r.from + 2, Label(l))
       /\ At(c, r.from + 3, CBr(r.at, b, e)) /\ At(c, r.from + 4, Label(b))
       /\ Span(r.at + 1, r.from + 5, y, e, s) \in R
       /\ \/ Awaits(c, q, EndFor(r.at, l, s, e), y, r.to, r.brk, r.cont)
          \/ /\ g[r.at] # "for_step!"
             /\ At(c, y, Br(s)) /\ At(c, y + 1, Label(s)) /\ At(c, y + 2, Step(r.at))
             /\ At(c, y + 3, Br(l)) /\ At(c, y + 4, Label(e)) /\ r.to = y + 5

Laid(R, c, q, g, r) ==
  \/ LaidLeaf(c, g, r) \/ LaidSeq(R, g, r) \/ LaidIf(R, c, q, g, r)
  \/ LaidIfElse(R, c, q, g, r) \/ LaidWhile(R, c, q, g, r) \/ LaidFor(R, c, q, g, r)

Open(c, q, r) == Awaits(c, q, Stmt(r.at), r.from, r.to, r.brk, r.cont)

\* Every span is right, and the function's body has one.
Layout(R, c, q, g) ==
  /\ R \subseteq Spans
  /\ \A r \in R : Open(c, q, r) \/ Laid(R, c, q, g, r)
  /\ Span(1, 1, Lev(c, q, 0), NoLabel, NoLabel) \in R

-----------------------------------------------------------------------------
(***************************************************************************)
(* A step of the generator keeps what is right.  Some levels become        *)
(* positions: mv maps the old ones to the new.                             *)
(***************************************************************************)
Moved(mv, r) == Span(r.at, mv[r.from], mv[r.to], r.brk, r.cont)

\* The level below the first task, where its code ends.
Below(q) == 0 - (Len(q) - 1)

Carries(mv, R, c, q, S, d, p) ==
  /\ mv \in [Int -> Int] /\ \A y \in Int : y >= 1 => mv[y] = y
  /\ \A y, ins : At(c, y, ins) => At(d, y, ins)
  /\ \A i, b, k : \A y, x \in Int : Span(i, y, x, b, k) \in R => Span(i, mv[y], mv[x], b, k) \in S
  /\ \A t, b, k : \A y, x \in Int :
       Awaits(c, q, t, y, x, b, k) =>
         \/ Awaits(d, p, t, mv[y], mv[x], b, k)
         \/ t = Head(q) /\ y = Len(c) + 1 /\ x = Below(q) /\ InScope(q, Len(q), b, k)

\* What the first task emits when it closes a statement ends at x.
Closes(q, S, d, p, g, y, x) ==
  /\ \A i, m \in Nat : Head(q) = EndThen(i, NoLabel, m) =>
       At(d, y, Br(m)) /\ At(d, y + 1, Label(m)) /\ x = y + 2
  /\ \A i, l, m \in Nat : Head(q) = EndThen(i, l, m) =>
       /\ At(d, y, Br(m)) /\ At(d, y + 1, Label(l))
       /\ \A b, k \in Nat \cup {NoLabel} : InScope(q, Len(q), b, k) =>
            \E z \in Int : /\ Span(Later(g, i), y + 2, z, b, k) \in S
                           /\ Awaits(d, p, EndElse(m), z, x, b, k)
  /\ \A m \in Nat : Head(q) = EndElse(m) =>
       At(d, y, Br(m)) /\ At(d, y + 1, Label(m)) /\ x = y + 2
  /\ \A l, e \in Nat : Head(q) = EndWhile(l, e) =>
       At(d, y, Br(l)) /\ At(d, y + 1, Label(e)) /\ x = y + 2
  /\ \A i, l, s, e \in Nat : Head(q) = EndFor(i, l, s, e) =>
       /\ g[i] # "for_step!"
       /\ At(d, y, Br(s)) /\ At(d, y + 1, Label(s)) /\ At(d, y + 2, Step(i))
       /\ At(d, y + 3, Br(l)) /\ At(d, y + 4, Label(e)) /\ x = y + 5

\* A step from code c and tasks q to d and p.
Advances(mv, R, c, q, S, d, p, g) ==
  /\ R \subseteq Spans /\ Len(c) \in Nat /\ Below(q) \in Int
  /\ Carries(mv, R, c, q, S, d, p)
  /\ Closes(q, S, d, p, g, Len(c) + 1, mv[Below(q)])

LEMMA SpanFields ==
  /\ \A r \in Spans : /\ r = Span(r.at, r.from, r.to, r.brk, r.cont)
                      /\ r.at \in Nat \ {0} /\ r.from \in Int /\ r.to \in Int
                      /\ r.brk \in Nat \cup {NoLabel} /\ r.cont \in Nat \cup {NoLabel}
  /\ \A i, y, x, b, k : LET r == Span(i, y, x, b, k)
                        IN  r.at = i /\ r.from = y /\ r.to = x /\ r.brk = b /\ r.cont = k
  /\ \A i \in Nat \ {0} : \A y, x \in Int : \A b, k \in Nat \cup {NoLabel} :
       Span(i, y, x, b, k) \in Spans
BY DEF Span, Spans

LEMMA AtIn ==
  ASSUME NEW c, Len(c) \in Nat, NEW y, NEW ins, At(c, y, ins)
  PROVE  y \in Int /\ y >= 1
BY DEF At

LEMMA AdvanceFacts ==
  ASSUME NEW mv, NEW R, NEW c, NEW q, NEW S, NEW d, NEW p, NEW g,
         Advances(mv, R, c, q, S, d, p, g)
  PROVE  /\ \A y, ins : At(c, y, ins) => At(d, y, ins) /\ y \in Int /\ y >= 1 /\ mv[y] = y
         /\ \A i, b, k : \A y, x \in Int :
              Span(i, y, x, b, k) \in R => Span(i, mv[y], mv[x], b, k) \in S
         /\ \A y \in Int : mv[y] \in Int /\ (y >= 1 => mv[y] = y)
<1>1. Len(c) \in Nat /\ Carries(mv, R, c, q, S, d, p)
  BY DEF Advances
<1>2. ASSUME NEW y, NEW ins, At(c, y, ins)
      PROVE  At(d, y, ins) /\ y \in Int /\ y >= 1 /\ mv[y] = y
  <2>1. y \in Int /\ y >= 1
    BY <1>1, <1>2, AtIn
  <2> QED
    BY <1>1, <1>2, <2>1 DEF Carries
<1>3. \A y \in Int : mv[y] \in Int /\ (y >= 1 => mv[y] = y)
  BY <1>1 DEF Carries
<1> QED
  BY <1>1, <1>2, <1>3 DEF Carries

LEMMA MovedFacts ==
  ASSUME NEW R, R \subseteq Spans, NEW r \in R, NEW mv
  PROVE  LET u == Moved(mv, r)
         IN  /\ u.at = r.at /\ u.from = mv[r.from] /\ u.to = mv[r.to]
             /\ u.brk = r.brk /\ u.cont = r.cont
             /\ r.at \in Nat \ {0} /\ r.from \in Int /\ r.to \in Int
             /\ r.brk \in Nat \cup {NoLabel} /\ r.cont \in Nat \cup {NoLabel}
<1>1. r \in Spans
  OBVIOUS
<1>2. /\ r.at \in Nat \ {0} /\ r.from \in Int /\ r.to \in Int
      /\ r.brk \in Nat \cup {NoLabel} /\ r.cont \in Nat \cup {NoLabel}
  BY <1>1 DEF Spans
<1>3. LET u == Moved(mv, r)
      IN  /\ u.at = r.at /\ u.from = mv[r.from] /\ u.to = mv[r.to]
          /\ u.brk = r.brk /\ u.cont = r.cont
  BY DEF Moved, Span
<1> QED
  BY <1>2, <1>3

LEMMA LeafCarried ==
  ASSUME NEW mv, NEW R, NEW c, NEW q, NEW S, NEW d, NEW p, NEW g,
         Advances(mv, R, c, q, S, d, p, g), NEW r \in R, LaidLeaf(c, g, r)
  PROVE  LaidLeaf(d, g, Moved(mv, r))
<1> DEFINE u == Moved(mv, r)
<1>1. /\ u.at = r.at /\ u.from = mv[r.from] /\ u.to = mv[r.to]
      /\ u.brk = r.brk /\ u.cont = r.cont
      /\ r.from \in Int /\ r.to \in Int
  BY MovedFacts DEF Advances
<1>2. /\ \A y, ins : At(c, y, ins) => At(d, y, ins) /\ y \in Int /\ y >= 1 /\ mv[y] = y
      /\ \A y \in Int : mv[y] \in Int /\ (y >= 1 => mv[y] = y)
  BY AdvanceFacts
<1> SUFFICES LaidLeaf(d, g, u)
  OBVIOUS
<1> HIDE DEF u
<1>3. ASSUME NEW x, At(c, r.from, x), r.to = r.from + 1
      PROVE  At(d, u.from, x) /\ u.to = u.from + 1
  BY <1>1, <1>2, <1>3
<1>4. ASSUME NEW x, At(c, r.from, x) PROVE At(d, u.from, x)
  BY <1>1, <1>2, <1>4
<1>5. CASE g[r.at] = "act" /\ At(c, r.from, Act(r.at)) /\ r.to = r.from + 1
  BY <1>1, <1>3, <1>5 DEF LaidLeaf
<1>6. CASE g[r.at] = "ret" /\ At(c, r.from, Ret(r.at)) /\ r.to = r.from + 1
  BY <1>1, <1>3, <1>6 DEF LaidLeaf
<1>7. CASE g[r.at] = "skip" /\ r.to = r.from
  BY <1>1, <1>7 DEF LaidLeaf
<1>8. CASE g[r.at] \in {"break", "continue"} /\ r.brk = NoLabel /\ r.to = r.from
  BY <1>1, <1>8 DEF LaidLeaf
<1>9. CASE g[r.at] = "break" /\ r.brk \in Nat /\ At(c, r.from, Br(r.brk))
  BY <1>1, <1>4, <1>9 DEF LaidLeaf
<1>10. CASE g[r.at] = "continue" /\ r.brk \in Nat /\ r.cont \in Nat /\ At(c, r.from, Br(r.cont))
  BY <1>1, <1>4, <1>10 DEF LaidLeaf
<1> QED
  BY <1>5, <1>6, <1>7, <1>8, <1>9, <1>10 DEF LaidLeaf

LEMMA SeqCarried ==
  ASSUME NEW mv, NEW R, NEW c, NEW q, NEW S, NEW d, NEW p, NEW g,
         Advances(mv, R, c, q, S, d, p, g), NEW r \in R, LaidSeq(R, g, r)
  PROVE  LaidSeq(S, g, Moved(mv, r))
<1> DEFINE u == Moved(mv, r)
<1>1. /\ u.at = r.at /\ u.from = mv[r.from] /\ u.to = mv[r.to]
      /\ u.brk = r.brk /\ u.cont = r.cont
      /\ r.from \in Int /\ r.to \in Int
  BY MovedFacts DEF Advances
<1> HIDE DEF u
<1>2. PICK y \in Int : /\ Span(r.at + 1, r.from, y, r.brk, r.cont) \in R
                       /\ Span(Later(g, r.at), y, r.to, r.brk, r.cont) \in R
  BY DEF LaidSeq
<1>3. /\ mv[y] \in Int
      /\ Span(r.at + 1, mv[r.from], mv[y], r.brk, r.cont) \in S
      /\ Span(Later(g, r.at), mv[y], mv[r.to], r.brk, r.cont) \in S
  BY <1>1, <1>2, AdvanceFacts
<1>4. LaidSeq(S, g, u)
  BY <1>1, <1>3 DEF LaidSeq
<1> QED
  BY <1>4 DEF u

\* What is awaited is still awaited, or it is what the first task emits.
LEMMA AwaitsCarried ==
  ASSUME NEW mv, NEW R, NEW c, NEW q, NEW S, NEW d, NEW p, NEW g,
         Advances(mv, R, c, q, S, d, p, g),
         NEW t, NEW y \in Int, NEW x \in Int, NEW b, NEW k, Awaits(c, q, t, y, x, b, k)
  PROVE  \/ Awaits(d, p, t, mv[y], mv[x], b, k)
         \/ /\ t = Head(q) /\ y = Len(c) + 1 /\ x = Below(q) /\ InScope(q, Len(q), b, k)
            /\ mv[y] = y /\ mv[x] = mv[Below(q)]
<1>1. \/ Awaits(d, p, t, mv[y], mv[x], b, k)
      \/ t = Head(q) /\ y = Len(c) + 1 /\ x = Below(q) /\ InScope(q, Len(q), b, k)
  BY DEF Advances, Carries
<1>2. y = Len(c) + 1 => mv[y] = y
  <2>1. Len(c) \in Nat
    BY DEF Advances
  <2>2. \A z \in Int : z >= 1 => mv[z] = z
    BY AdvanceFacts
  <2> QED
    BY <2>1, <2>2
<1> QED
  BY <1>1, <1>2

LEMMA IfCarried ==
  ASSUME NEW mv, NEW R, NEW c, NEW q, NEW S, NEW d, NEW p, NEW g,
         Advances(mv, R, c, q, S, d, p, g), NEW r \in R, LaidIf(R, c, q, g, r)
  PROVE  LaidIf(S, d, p, g, Moved(mv, r))
<1> DEFINE u == Moved(mv, r)
<1>1. /\ u.at = r.at /\ u.from = mv[r.from] /\ u.to = mv[r.to]
      /\ u.brk = r.brk /\ u.cont = r.cont
      /\ r.at \in Nat /\ r.from \in Int /\ r.to \in Int
  BY MovedFacts DEF Advances
<1> SUFFICES LaidIf(S, d, p, g, u)
  OBVIOUS
<1> HIDE DEF u
<1>2. PICK t \in Nat, m \in Nat, y \in Int :
        /\ At(c, r.from, CBr(r.at, t, m)) /\ At(c, r.from + 1, Label(t))
        /\ Span(r.at + 1, r.from + 2, y, r.brk, r.cont) \in R
        /\ \/ Awaits(c, q, EndThen(r.at, NoLabel, m), y, r.to, r.brk, r.cont)
           \/ At(c, y, Br(m)) /\ At(c, y + 1, Label(m)) /\ r.to = y + 2
  BY DEF LaidIf
<1>3. /\ u.from = r.from /\ At(d, u.from, CBr(r.at, t, m)) /\ At(d, u.from + 1, Label(t))
      /\ mv[y] \in Int /\ Span(r.at + 1, u.from + 2, mv[y], r.brk, r.cont) \in S
  <2>1. /\ mv[r.from] = r.from /\ r.from >= 1
        /\ At(d, r.from, CBr(r.at, t, m)) /\ At(d, r.from + 1, Label(t))
    BY <1>2, AdvanceFacts
  <2>2. mv[r.from + 2] = r.from + 2 /\ r.from + 2 \in Int /\ mv[y] \in Int
    BY <1>1, <2>1, AdvanceFacts
  <2>3. Span(r.at + 1, mv[r.from + 2], mv[y], r.brk, r.cont) \in S
    BY <1>2, <2>2, AdvanceFacts
  <2> QED
    BY <1>1, <2>1, <2>2, <2>3
<1> DEFINE t0 == EndThen(r.at, NoLabel, m)
<1>4. \/ Awaits(d, p, t0, mv[y], u.to, u.brk, u.cont)
      \/ At(d, mv[y], Br(m)) /\ At(d, mv[y] + 1, Label(m)) /\ u.to = mv[y] + 2
  <2>1. CASE Awaits(c, q, t0, y, r.to, r.brk, r.cont)
    <3> HIDE DEF t0
    <3>1. \/ Awaits(d, p, t0, mv[y], mv[r.to], r.brk, r.cont)
          \/ t0 = Head(q) /\ y = Len(c) + 1 /\ mv[y] = y /\ mv[r.to] = mv[Below(q)]
      BY <1>1, <2>1, AwaitsCarried
    <3>2. CASE t0 = Head(q) /\ y = Len(c) + 1 /\ mv[y] = y /\ mv[r.to] = mv[Below(q)]
      <4>1. At(d, y, Br(m)) /\ At(d, y + 1, Label(m)) /\ mv[Below(q)] = y + 2
        BY <1>1, <3>2 DEF Advances, Closes, t0
      <4> QED
        BY <1>1, <3>2, <4>1
    <3> QED
      BY <1>1, <3>1, <3>2
  <2>2. CASE At(c, y, Br(m)) /\ At(c, y + 1, Label(m)) /\ r.to = y + 2
    <3>1. At(d, y, Br(m)) /\ At(d, y + 1, Label(m)) /\ mv[y] = y /\ y >= 1
      BY <2>2, AdvanceFacts
    <3>2. mv[y + 2] = y + 2
      BY <3>1, AdvanceFacts
    <3> QED
      BY <1>1, <2>2, <3>1, <3>2
  <2> QED
    BY <1>2, <2>1, <2>2
<1>5. g[u.at] = "if"
  BY <1>1 DEF LaidIf
<1> QED
  BY <1>1, <1>3, <1>4, <1>5 DEF LaidIf

LEMMA ElseCarried ==
  ASSUME NEW mv, NEW R, NEW c, NEW q, NEW S, NEW d, NEW p, NEW g,
         Advances(mv, R, c, q, S, d, p, g), NEW r \in R,
         NEW m \in Nat, NEW y \in Int, y >= 1, LaidElse(R, c, q, g, r, m, y)
  PROVE  LaidElse(S, d, p, g, Moved(mv, r), m, y)
<1> DEFINE u == Moved(mv, r)
<1>1. /\ u.at = r.at /\ u.from = mv[r.from] /\ u.to = mv[r.to]
      /\ u.brk = r.brk /\ u.cont = r.cont
      /\ r.at \in Nat /\ r.from \in Int /\ r.to \in Int
  BY MovedFacts DEF Advances
<1> SUFFICES LaidElse(S, d, p, g, u, m, y)
  OBVIOUS
<1> HIDE DEF u
<1>2. PICK z \in Int :
        /\ Span(Later(g, r.at), y, z, r.brk, r.cont) \in R
        /\ \/ Awaits(c, q, EndElse(m), z, r.to, r.brk, r.cont)
           \/ At(c, z, Br(m)) /\ At(c, z + 1, Label(m)) /\ r.to = z + 2
  BY DEF LaidElse
<1>3. mv[z] \in Int /\ Span(Later(g, r.at), y, mv[z], r.brk, r.cont) \in S
  <2>1. mv[y] = y /\ mv[z] \in Int
    BY AdvanceFacts
  <2>2. Span(Later(g, r.at), mv[y], mv[z], r.brk, r.cont) \in S
    BY <1>2, AdvanceFacts
  <2> QED
    BY <2>1, <2>2
<1> DEFINE t0 == EndElse(m)
<1>4. \/ Awaits(d, p, t0, mv[z], u.to, u.brk, u.cont)
      \/ At(d, mv[z], Br(m)) /\ At(d, mv[z] + 1, Label(m)) /\ u.to = mv[z] + 2
  <2>1. CASE Awaits(c, q, t0, z, r.to, r.brk, r.cont)
    <3> HIDE DEF t0
    <3>1. \/ Awaits(d, p, t0, mv[z], mv[r.to], r.brk, r.cont)
          \/ t0 = Head(q) /\ z = Len(c) + 1 /\ mv[z] = z /\ mv[r.to] = mv[Below(q)]
      BY <1>1, <2>1, AwaitsCarried
    <3>2. CASE t0 = Head(q) /\ z = Len(c) + 1 /\ mv[z] = z /\ mv[r.to] = mv[Below(q)]
      <4>1. At(d, z, Br(m)) /\ At(d, z + 1, Label(m)) /\ mv[Below(q)] = z + 2
        BY <1>1, <3>2 DEF Advances, Closes, t0
      <4> QED
        BY <1>1, <3>2, <4>1
    <3> QED
      BY <1>1, <3>1, <3>2
  <2>2. CASE At(c, z, Br(m)) /\ At(c, z + 1, Label(m)) /\ r.to = z + 2
    <3>1. At(d, z, Br(m)) /\ At(d, z + 1, Label(m)) /\ mv[z] = z /\ z >= 1
      BY <2>2, AdvanceFacts
    <3>2. mv[z + 2] = z + 2
      BY <3>1, AdvanceFacts
    <3> QED
      BY <1>1, <2>2, <3>1, <3>2
  <2> QED
    BY <1>2, <2>1, <2>2
<1> QED
  BY <1>1, <1>3, <1>4 DEF LaidElse

LEMMA IfElseCarried ==
  ASSUME NEW mv, NEW R, NEW c, NEW q, NEW S, NEW d, NEW p, NEW g,
         Advances(mv, R, c, q, S, d, p, g), NEW r \in R, LaidIfElse(R, c, q, g, r)
  PROVE  LaidIfElse(S, d, p, g, Moved(mv, r))
<1> DEFINE u == Moved(mv, r)
<1>1. /\ u.at = r.at /\ u.from = mv[r.from] /\ u.to = mv[r.to]
      /\ u.brk = r.brk /\ u.cont = r.cont
      /\ r.at \in Nat /\ r.from \in Int /\ r.to \in Int
      /\ r.brk \in Nat \cup {NoLabel} /\ r.cont \in Nat \cup {NoLabel}
  BY MovedFacts DEF Advances
<1>6. \A m \in Nat, y \in Int :
        y >= 1 /\ LaidElse(R, c, q, g, r, m, y) => LaidElse(S, d, p, g, u, m, y)
  BY ElseCarried
<1> SUFFICES LaidIfElse(S, d, p, g, u)
  OBVIOUS
<1> HIDE DEF u
<1>2. PICK t \in Nat, l \in Nat, m \in Nat, y \in Int :
        /\ At(c, r.from, CBr(r.at, t, l)) /\ At(c, r.from + 1, Label(t))
        /\ Span(r.at + 1, r.from + 2, y, r.brk, r.cont) \in R
        /\ \/ Awaits(c, q, EndThen(r.at, l, m), y, r.to, r.brk, r.cont)
           \/ /\ At(c, y, Br(m)) /\ At(c, y + 1, Label(l))
              /\ LaidElse(R, c, q, g, r, m, y + 2)
  BY DEF LaidIfElse
<1>3. /\ u.from = r.from /\ At(d, u.from, CBr(r.at, t, l)) /\ At(d, u.from + 1, Label(t))
      /\ mv[y] \in Int /\ Span(r.at + 1, u.from + 2, mv[y], r.brk, r.cont) \in S
  <2>1. /\ mv[r.from] = r.from /\ r.from >= 1
        /\ At(d, r.from, CBr(r.at, t, l)) /\ At(d, r.from + 1, Label(t))
    BY <1>2, AdvanceFacts
  <2>2. mv[r.from + 2] = r.from + 2 /\ r.from + 2 \in Int /\ mv[y] \in Int
    BY <1>1, <2>1, AdvanceFacts
  <2>3. Span(r.at + 1, mv[r.from + 2], mv[y], r.brk, r.cont) \in S
    BY <1>2, <2>2, AdvanceFacts
  <2> QED
    BY <1>1, <2>1, <2>2, <2>3
<1> DEFINE t0 == EndThen(r.at, l, m)
<1>4. \/ Awaits(d, p, t0, mv[y], u.to, u.brk, u.cont)
      \/ At(d, mv[y], Br(m)) /\ At(d, mv[y] + 1, Label(l)) /\ LaidElse(S, d, p, g, u, m, mv[y] + 2)
  <2>1. CASE Awaits(c, q, t0, y, r.to, r.brk, r.cont)
    <3> HIDE DEF t0
    <3>1. \/ Awaits(d, p, t0, mv[y], mv[r.to], r.brk, r.cont)
          \/ /\ t0 = Head(q) /\ y = Len(c) + 1 /\ mv[y] = y /\ mv[r.to] = mv[Below(q)]
             /\ InScope(q, Len(q), r.brk, r.cont)
      BY <1>1, <2>1, AwaitsCarried
    <3>2. CASE /\ t0 = Head(q) /\ y = Len(c) + 1 /\ mv[y] = y /\ mv[r.to] = mv[Below(q)]
               /\ InScope(q, Len(q), r.brk, r.cont)
      <4>1. /\ At(d, y, Br(m)) /\ At(d, y + 1, Label(l))
            /\ \A b, k \in Nat \cup {NoLabel} : InScope(q, Len(q), b, k) =>
                 \E z \in Int : /\ Span(Later(g, r.at), y + 2, z, b, k) \in S
                                /\ Awaits(d, p, EndElse(m), z, mv[Below(q)], b, k)
        BY <1>1, <3>2 DEF Advances, Closes, t0
      <4>2. LaidElse(S, d, p, g, u, m, y + 2)
        BY <1>1, <3>2, <4>1 DEF LaidElse
      <4> QED
        BY <3>2, <4>1, <4>2
    <3> QED
      BY <1>1, <3>1, <3>2
  <2>2. CASE At(c, y, Br(m)) /\ At(c, y + 1, Label(l)) /\ LaidElse(R, c, q, g, r, m, y + 2)
    <3>1. At(d, y, Br(m)) /\ At(d, y + 1, Label(l)) /\ mv[y] = y /\ y >= 1
      BY <2>2, AdvanceFacts
    <3>2. LaidElse(S, d, p, g, u, m, y + 2)
      BY <1>6, <2>2, <3>1
    <3> QED
      BY <3>1, <3>2
  <2> QED
    BY <1>2, <2>1, <2>2
<1>5. g[u.at] = "if_else"
  BY <1>1 DEF LaidIfElse
<1> QED
  BY <1>1, <1>3, <1>4, <1>5 DEF LaidIfElse

LEMMA WhileCarried ==
  ASSUME NEW mv, NEW R, NEW c, NEW q, NEW S, NEW d, NEW p, NEW g,
         Advances(mv, R, c, q, S, d, p, g), NEW r \in R, LaidWhile(R, c, q, g, r)
  PROVE  LaidWhile(S, d, p, g, Moved(mv, r))
<1> DEFINE u == Moved(mv, r)
<1>1. /\ u.at = r.at /\ u.from = mv[r.from] /\ u.to = mv[r.to]
      /\ u.brk = r.brk /\ u.cont = r.cont
      /\ r.at \in Nat /\ r.from \in Int /\ r.to \in Int
  BY MovedFacts DEF Advances
<1> SUFFICES LaidWhile(S, d, p, g, u)
  OBVIOUS
<1> HIDE DEF u
<1>2. PICK l \in Nat, b \in Nat, e \in Nat, y \in Int :
        /\ At(c, r.from, Br(l)) /\ At(c, r.from + 1, Label(l))
        /\ At(c, r.from + 2, CBr(r.at, b, e)) /\ At(c, r.from + 3, Label(b))
        /\ Span(r.at + 1, r.from + 4, y, e, l) \in R
        /\ \/ Awaits(c, q, EndWhile(l, e), y, r.to, r.brk, r.cont)
           \/ At(c, y, Br(l)) /\ At(c, y + 1, Label(e)) /\ r.to = y + 2
  BY DEF LaidWhile
<1>3. /\ u.from = r.from /\ At(d, u.from, Br(l)) /\ At(d, u.from + 1, Label(l))
      /\ At(d, u.from + 2, CBr(r.at, b, e)) /\ At(d, u.from + 3, Label(b))
      /\ mv[y] \in Int /\ Span(r.at + 1, u.from + 4, mv[y], e, l) \in S
  <2>1. /\ mv[r.from] = r.from /\ r.from >= 1
        /\ At(d, r.from, Br(l)) /\ At(d, r.from + 1, Label(l))
        /\ At(d, r.from + 2, CBr(r.at, b, e)) /\ At(d, r.from + 3, Label(b))
    BY <1>2, AdvanceFacts
  <2>2. mv[r.from + 4] = r.from + 4 /\ r.from + 4 \in Int /\ mv[y] \in Int
    BY <1>1, <2>1, AdvanceFacts
  <2>3. Span(r.at + 1, mv[r.from + 4], mv[y], e, l) \in S
    BY <1>2, <2>2, AdvanceFacts
  <2> QED
    BY <1>1, <2>1, <2>2, <2>3
<1> DEFINE t0 == EndWhile(l, e)
<1>4. \/ Awaits(d, p, t0, mv[y], u.to, u.brk, u.cont)
      \/ At(d, mv[y], Br(l)) /\ At(d, mv[y] + 1, Label(e)) /\ u.to = mv[y] + 2
  <2>1. CASE Awaits(c, q, t0, y, r.to, r.brk, r.cont)
    <3> HIDE DEF t0
    <3>1. \/ Awaits(d, p, t0, mv[y], mv[r.to], r.brk, r.cont)
          \/ t0 = Head(q) /\ y = Len(c) + 1 /\ mv[y] = y /\ mv[r.to] = mv[Below(q)]
      BY <1>1, <2>1, AwaitsCarried
    <3>2. CASE t0 = Head(q) /\ y = Len(c) + 1 /\ mv[y] = y /\ mv[r.to] = mv[Below(q)]
      <4>1. At(d, y, Br(l)) /\ At(d, y + 1, Label(e)) /\ mv[Below(q)] = y + 2
        BY <1>1, <3>2 DEF Advances, Closes, t0
      <4> QED
        BY <1>1, <3>2, <4>1
    <3> QED
      BY <1>1, <3>1, <3>2
  <2>2. CASE At(c, y, Br(l)) /\ At(c, y + 1, Label(e)) /\ r.to = y + 2
    <3>1. At(d, y, Br(l)) /\ At(d, y + 1, Label(e)) /\ mv[y] = y /\ y >= 1
      BY <2>2, AdvanceFacts
    <3>2. mv[y + 2] = y + 2
      BY <3>1, AdvanceFacts
    <3> QED
      BY <1>1, <2>2, <3>1, <3>2
  <2> QED
    BY <1>2, <2>1, <2>2
<1>5. g[u.at] = "while"
  BY <1>1 DEF LaidWhile
<1> QED
  BY <1>1, <1>3, <1>4, <1>5 DEF LaidWhile

LEMMA ForCarried ==
  ASSUME NEW mv, NEW R, NEW c, NEW q, NEW S, NEW d, NEW p, NEW g,
         Advances(mv, R, c, q, S, d, p, g), NEW r \in R, LaidFor(R, c, q, g, r)
  PROVE  LaidFor(S, d, p, g, Moved(mv, r))
<1> DEFINE u == Moved(mv, r)
<1>1. /\ u.at = r.at /\ u.from = mv[r.from] /\ u.to = mv[r.to]
      /\ u.brk = r.brk /\ u.cont = r.cont
      /\ r.at \in Nat /\ r.from \in Int /\ r.to \in Int
  BY MovedFacts DEF Advances
<1> SUFFICES LaidFor(S, d, p, g, u)
  OBVIOUS
<1> HIDE DEF u
<1>2. PICK l \in Nat, b \in Nat, s \in Nat, e \in Nat, y \in Int :
        /\ At(c, r.from, Act(r.at)) /\ At(c, r.from + 1, Br(l))
        /\ At(c, r.from + 2, Label(l))
        /\ At(c, r.from + 3, CBr(r.at, b, e)) /\ At(c, r.from + 4, Label(b))
        /\ Span(r.at + 1, r.from + 5, y, e, s) \in R
        /\ \/ Awaits(c, q, EndFor(r.at, l, s, e), y, r.to, r.brk, r.cont)
           \/ /\ g[r.at] # "for_step!"
              /\ At(c, y, Br(s)) /\ At(c, y + 1, Label(s)) /\ At(c, y + 2, Step(r.at))
              /\ At(c, y + 3, Br(l)) /\ At(c, y + 4, Label(e)) /\ r.to = y + 5
  BY DEF LaidFor
<1>3. /\ u.from = r.from /\ At(d, u.from, Act(r.at)) /\ At(d, u.from + 1, Br(l))
      /\ At(d, u.from + 2, Label(l))
      /\ At(d, u.from + 3, CBr(r.at, b, e)) /\ At(d, u.from + 4, Label(b))
      /\ mv[y] \in Int /\ Span(r.at + 1, u.from + 5, mv[y], e, s) \in S
  <2>1. /\ mv[r.from] = r.from /\ r.from >= 1
        /\ At(d, r.from, Act(r.at)) /\ At(d, r.from + 1, Br(l))
        /\ At(d, r.from + 2, Label(l))
        /\ At(d, r.from + 3, CBr(r.at, b, e)) /\ At(d, r.from + 4, Label(b))
    BY <1>2, AdvanceFacts
  <2>2. mv[r.from + 5] = r.from + 5 /\ r.from + 5 \in Int /\ mv[y] \in Int
    BY <1>1, <2>1, AdvanceFacts
  <2>3. Span(r.at + 1, mv[r.from + 5], mv[y], e, s) \in S
    BY <1>2, <2>2, AdvanceFacts
  <2> QED
    BY <1>1, <2>1, <2>2, <2>3
<1> DEFINE t0 == EndFor(r.at, l, s, e)
<1>4. \/ Awaits(d, p, t0, mv[y], u.to, u.brk, u.cont)
      \/ /\ g[u.at] # "for_step!"
         /\ At(d, mv[y], Br(s)) /\ At(d, mv[y] + 1, Label(s)) /\ At(d, mv[y] + 2, Step(r.at))
         /\ At(d, mv[y] + 3, Br(l)) /\ At(d, mv[y] + 4, Label(e)) /\ u.to = mv[y] + 5
  <2>1. CASE Awaits(c, q, t0, y, r.to, r.brk, r.cont)
    <3> HIDE DEF t0
    <3>1. \/ Awaits(d, p, t0, mv[y], mv[r.to], r.brk, r.cont)
          \/ t0 = Head(q) /\ y = Len(c) + 1 /\ mv[y] = y /\ mv[r.to] = mv[Below(q)]
      BY <1>1, <2>1, AwaitsCarried
    <3>2. CASE t0 = Head(q) /\ y = Len(c) + 1 /\ mv[y] = y /\ mv[r.to] = mv[Below(q)]
      <4>1. /\ g[r.at] # "for_step!"
            /\ At(d, y, Br(s)) /\ At(d, y + 1, Label(s)) /\ At(d, y + 2, Step(r.at))
            /\ At(d, y + 3, Br(l)) /\ At(d, y + 4, Label(e)) /\ mv[Below(q)] = y + 5
        BY <1>1, <3>2 DEF Advances, Closes, t0
      <4> QED
        BY <1>1, <3>2, <4>1
    <3> QED
      BY <1>1, <3>1, <3>2
  <2>2. CASE /\ g[r.at] # "for_step!"
             /\ At(c, y, Br(s)) /\ At(c, y + 1, Label(s)) /\ At(c, y + 2, Step(r.at))
             /\ At(c, y + 3, Br(l)) /\ At(c, y + 4, Label(e)) /\ r.to = y + 5
    <3>1. /\ At(d, y, Br(s)) /\ At(d, y + 1, Label(s)) /\ At(d, y + 2, Step(r.at))
          /\ At(d, y + 3, Br(l)) /\ At(d, y + 4, Label(e)) /\ mv[y] = y /\ y >= 1
      BY <2>2, AdvanceFacts
    <3>2. mv[y + 5] = y + 5
      BY <3>1, AdvanceFacts
    <3> QED
      BY <1>1, <2>2, <3>1, <3>2
  <2> QED
    BY <1>2, <2>1, <2>2
<1>5. g[u.at] \in {"for", "forever", "for_step!"}
  BY <1>1 DEF LaidFor
<1> QED
  BY <1>1, <1>3, <1>4, <1>5 DEF LaidFor

\* What is laid out stays laid out.
LEMMA LaidCarried ==
  ASSUME NEW mv, NEW R, NEW c, NEW q, NEW S, NEW d, NEW p, NEW g,
         Advances(mv, R, c, q, S, d, p, g), NEW r \in R, Laid(R, c, q, g, r)
  PROVE  Laid(S, d, p, g, Moved(mv, r))
BY LeafCarried, SeqCarried, IfCarried, IfElseCarried, WhileCarried, ForCarried DEF Laid

-----------------------------------------------------------------------------
(***************************************************************************)
(* The two kinds of steps: the first task is done, or two take its place.  *)
(***************************************************************************)
LEMMA ScopeStays ==
  ASSUME NEW q, NEW u, NEW h \in Nat, \A m \in 1..(h - 1) : Height(u, m) = Height(q, m),
         NEW b, NEW k, InScope(q, h, b, k)
  PROVE  InScope(u, h, b, k)
<1>1. CASE b = NoLabel /\ k = NoLabel /\ \A m \in 1..(h - 1) : ~LoopTask(Height(q, m))
  BY <1>1 DEF InScope
<1>2. CASE b \in Nat /\ k \in Nat /\ \E g \in 1..(h - 1) :
                    /\ LoopTask(Height(q, g)) /\ ScopeOf(Height(q, g)) = Scope(b, k)
                    /\ \A m \in (g + 1)..(h - 1) : ~LoopTask(Height(q, m))
  <2>1. PICK g \in 1..(h - 1) :
          /\ LoopTask(Height(q, g)) /\ ScopeOf(Height(q, g)) = Scope(b, k)
          /\ \A m \in (g + 1)..(h - 1) : ~LoopTask(Height(q, m))
    BY <1>2
  <2>2. LoopTask(Height(u, g)) /\ ScopeOf(Height(u, g)) = Scope(b, k)
    BY <2>1
  <2>3. \A m \in (g + 1)..(h - 1) : m \in 1..(h - 1)
    OBVIOUS
  <2>4. \A m \in (g + 1)..(h - 1) : ~LoopTask(Height(u, m))
    BY <2>1, <2>3
  <2> QED
    BY <1>2, <2>2, <2>4 DEF InScope
<1> QED
  BY <1>1, <1>2 DEF InScope

\* The levels below the first task.
Relevels(mv, c, q, d, u) ==
  /\ mv \in [Int -> Int] /\ \A y \in Int : y >= 1 => mv[y] = y
  /\ \A h \in 0..(Len(q) - 1) : mv[Lev(c, q, h)] = Lev(d, u, h)

LEMMA AwaitsStay ==
  ASSUME NEW c, Len(c) \in Nat, NEW d, NEW q \in Seq(Task), q # << >>,
         NEW p \in Seq(Task), NEW mv, Relevels(mv, c, q, d, p \o Tail(q)),
         NEW t, NEW b, NEW k, NEW y \in Int, NEW x \in Int, Awaits(c, q, t, y, x, b, k)
  PROVE  \/ Awaits(d, p \o Tail(q), t, mv[y], mv[x], b, k)
         \/ t = Head(q) /\ y = Len(c) + 1 /\ x = Below(q) /\ InScope(q, Len(q), b, k)
<1> DEFINE u == p \o Tail(q)
<1>1. /\ Len(q) \in Nat \ {0} /\ Len(p) \in Nat /\ Len(u) = Len(p) + Len(q) - 1
      /\ \A h \in 1..(Len(q) - 1) : Height(u, h) = Height(q, h)
      /\ Height(q, Len(q)) = Head(q)
  BY HeightsStay, LenProperties
<1>2. \A h \in 0..(Len(q) - 1) : mv[Lev(c, q, h)] = Lev(d, u, h)
  BY DEF Relevels
<1> SUFFICES \/ Awaits(d, u, t, mv[y], mv[x], b, k)
             \/ t = Head(q) /\ y = Len(c) + 1 /\ x = Below(q) /\ InScope(q, Len(q), b, k)
  OBVIOUS
<1> HIDE DEF u
<1>3. PICK h \in 1..Len(q) : /\ Height(q, h) = t
                             /\ y = Lev(c, q, h) /\ x = Lev(c, q, h - 1)
                             /\ InScope(q, h, b, k)
  BY DEF Awaits
<1>4. CASE h = Len(q)
  <2>1. y = Len(c) + 1 /\ x = Below(q)
    BY <1>1, <1>3, <1>4 DEF Lev, Below
  <2> QED
    BY <1>1, <1>3, <1>4, <2>1
<1>5. CASE h # Len(q)
  <2>1. h \in 1..(Len(q) - 1) /\ h \in 0..(Len(q) - 1) /\ h - 1 \in 0..(Len(q) - 1)
        /\ h \in 1..Len(u) /\ h \in Nat
    BY <1>1, <1>5
  <2>2. mv[y] = Lev(d, u, h) /\ mv[x] = Lev(d, u, h - 1) /\ Height(u, h) = t
    BY <1>1, <1>2, <1>3, <2>1
  <2>3. \A m \in 1..(h - 1) : Height(u, m) = Height(q, m)
    BY <1>1, <2>1
  <2>4. InScope(u, h, b, k)
    BY <1>3, <2>1, <2>3, ScopeStays
  <2> QED
    BY <2>1, <2>2, <2>4 DEF Awaits
<1> QED
  BY <1>4, <1>5

LEMMA AtStays ==
  ASSUME NEW c \in Seq(Instr), NEW s \in Seq(Instr)
  PROVE  /\ \A y, ins : At(c, y, ins) => At(c \o s, y, ins)
         /\ \A k \in 1..Len(s) : At(c \o s, Len(c) + k, s[k])
<1> DEFINE d == c \o s
<1>1. /\ Len(c) \in Nat /\ Len(s) \in Nat /\ Len(d) = Len(c) + Len(s)
      /\ \A k \in 1..Len(d) : d[k] = IF k <= Len(c) THEN c[k] ELSE s[k - Len(c)]
  BY ConcatProperties
<1> HIDE DEF d
<1>2. \A y, ins : At(c, y, ins) => At(d, y, ins)
  BY <1>1 DEF At
<1>3. ASSUME NEW k \in 1..Len(s) PROVE At(d, Len(c) + k, s[k])
  <2>1. Len(c) + k \in 1..Len(d) /\ ~(Len(c) + k <= Len(c)) /\ (Len(c) + k) - Len(c) = k
    BY <1>1
  <2> QED
    BY <1>1, <2>1 DEF At
<1> QED
  BY <1>2, <1>3 DEF d

\* The first task is done: the code goes on below it.
Reach(c, q, s) == [y \in Int |-> IF y = Below(q) THEN Len(c) + Len(s) + 1 ELSE y]

LEMMA PopRelevels ==
  ASSUME NEW c \in Seq(Instr), NEW s \in Seq(Instr), NEW q \in Seq(Task), q # << >>,
         NEW p \in Seq(Task), Len(p) = 0
  PROVE  Relevels(Reach(c, q, s), c, q, c \o s, p \o Tail(q))
<1> DEFINE u == p \o Tail(q)
           d == c \o s
           mv == Reach(c, q, s)
<1>1. /\ Len(q) \in Nat \ {0} /\ Len(u) = Len(q) - 1
      /\ Len(c) \in Nat /\ Len(s) \in Nat /\ Len(d) = Len(c) + Len(s)
  BY HeightsStay, ConcatProperties, LenProperties
<1> HIDE DEF u, d
<1>2. Below(q) \in Int /\ Below(q) < 1
  BY <1>1 DEF Below
<1>3. mv \in [Int -> Int] /\ \A y \in Int : mv[y] = IF y = Below(q) THEN Len(d) + 1 ELSE y
  BY <1>1 DEF Reach
<1> HIDE DEF mv
<1>4. ASSUME NEW h \in 0..(Len(q) - 1) PROVE mv[Lev(c, q, h)] = Lev(d, u, h)
  <2>1. Lev(c, q, h) = 0 - h /\ 0 - h \in Int
    BY <1>1 DEF Lev
  <2>2. CASE h = Len(q) - 1
    BY <1>1, <1>3, <2>1, <2>2 DEF Lev, Below
  <2>3. CASE h # Len(q) - 1
    <3>1. 0 - h # Below(q)
      BY <1>1, <2>3 DEF Below
    <3> QED
      BY <1>1, <1>3, <2>1, <2>3, <3>1 DEF Lev
  <2> QED
    BY <2>2, <2>3
<1>5. Relevels(mv, c, q, d, u)
  BY <1>2, <1>3, <1>4 DEF Relevels
<1> QED
  BY <1>5 DEF mv, u, d

LEMMA PushRelevels ==
  ASSUME NEW c \in Seq(Instr), NEW d, NEW q \in Seq(Task), q # << >>,
         NEW p \in Seq(Task), Len(p) = 2
  PROVE  Relevels([y \in Int |-> y], c, q, d, p \o Tail(q))
<1> DEFINE u == p \o Tail(q)
           mv == [y \in Int |-> y]
<1>1. Len(q) \in Nat \ {0} /\ Len(u) = Len(q) + 1
  <2>1. Len(q) \in Nat \ {0} /\ Len(u) = Len(p) + Len(q) - 1
    BY HeightsStay
  <2> HIDE DEF u
  <2> QED
    BY <2>1
<1> HIDE DEF u
<1>2. mv \in [Int -> Int] /\ \A y \in Int : mv[y] = y
  OBVIOUS
<1> HIDE DEF mv
<1>3. ASSUME NEW h \in 0..(Len(q) - 1) PROVE mv[Lev(c, q, h)] = Lev(d, u, h)
  BY <1>1, <1>2 DEF Lev
<1>4. Relevels(mv, c, q, d, u)
  BY <1>2, <1>3 DEF Relevels
<1> QED
  BY <1>4 DEF mv, u

\* The tasks that take the place of the first, and their scopes.
LEMMA PushedAwaits ==
  ASSUME NEW d, NEW q \in Seq(Task), q # << >>, NEW x \in Task, NEW z \in Task,
         NEW p, p = <<x, z>>
  PROVE  /\ \A b, k : InScope(q, Len(q), b, k) =>
              /\ Awaits(d, p \o Tail(q), z, 0 - Len(q), Below(q), b, k)
              /\ ~LoopTask(z) => Awaits(d, p \o Tail(q), x, Len(d) + 1, 0 - Len(q), b, k)
         /\ \A b, k \in Nat : LoopTask(z) /\ ScopeOf(z) = Scope(b, k) =>
              Awaits(d, p \o Tail(q), x, Len(d) + 1, 0 - Len(q), b, k)
<1> DEFINE u == p \o Tail(q)
           n == Len(q)
<1>1. p \in Seq(Task) /\ Len(p) = 2 /\ p[1] = x /\ p[2] = z
  OBVIOUS
<1>2. /\ n \in Nat \ {0} /\ Len(u) = n + 1
      /\ \A h \in 1..(n - 1) : Height(u, h) = Height(q, h)
      /\ Height(u, n) = z /\ Height(u, n + 1) = x
  <2>1. /\ n \in Nat \ {0} /\ Len(u) = Len(p) + n - 1
        /\ \A h \in 1..(n - 1) : Height(u, h) = Height(q, h)
        /\ \A h \in n..Len(u) : Height(u, h) = p[Len(u) + 1 - h]
    BY <1>1, HeightsStay
  <2> HIDE DEF u
  <2>2. Len(u) = n + 1 /\ n \in n..Len(u) /\ n + 1 \in n..Len(u)
    BY <1>1, <2>1
  <2>3. Height(u, n) = p[2] /\ Height(u, n + 1) = p[1]
    BY <2>1, <2>2
  <2> QED
    BY <1>1, <2>1, <2>2, <2>3
<1> HIDE DEF u
<1>3. /\ Lev(d, u, n + 1) = Len(d) + 1 /\ Lev(d, u, n) = 0 - n
      /\ Lev(d, u, n - 1) = Below(q) /\ n \in 1..Len(u) /\ n + 1 \in 1..Len(u)
      /\ (n + 1) - 1 = n
  BY <1>2 DEF Lev, Below
<1>4. ASSUME NEW b, NEW k, InScope(q, n, b, k)
      PROVE  /\ Awaits(d, u, z, 0 - n, Below(q), b, k)
             /\ ~LoopTask(z) => Awaits(d, u, x, Len(d) + 1, 0 - n, b, k)
  <2>1. InScope(u, n, b, k)
    BY <1>2, <1>4, ScopeStays
  <2>2. Awaits(d, u, z, 0 - n, Below(q), b, k)
    BY <1>2, <1>3, <2>1 DEF Awaits
  <2>3. ASSUME ~LoopTask(z) PROVE InScope(u, n + 1, b, k)
    <3>1. CASE b = NoLabel /\ k = NoLabel /\ \A m \in 1..(n - 1) : ~LoopTask(Height(u, m))
      <4>1. \A m \in 1..((n + 1) - 1) : ~LoopTask(Height(u, m))
        BY <1>2, <2>3, <3>1
      <4> QED
        BY <3>1, <4>1 DEF InScope
    <3>2. CASE b \in Nat /\ k \in Nat /\ \E g \in 1..(n - 1) :
                        /\ LoopTask(Height(u, g)) /\ ScopeOf(Height(u, g)) = Scope(b, k)
                        /\ \A m \in (g + 1)..(n - 1) : ~LoopTask(Height(u, m))
      <4>1. PICK g \in 1..(n - 1) :
              /\ LoopTask(Height(u, g)) /\ ScopeOf(Height(u, g)) = Scope(b, k)
              /\ \A m \in (g + 1)..(n - 1) : ~LoopTask(Height(u, m))
        BY <3>2
      <4>2. \A m \in (g + 1)..((n + 1) - 1) : m = n \/ m \in (g + 1)..(n - 1)
        BY <1>2
      <4>3. \A m \in (g + 1)..((n + 1) - 1) : ~LoopTask(Height(u, m))
        BY <1>2, <2>3, <4>1, <4>2
      <4>4. g \in 1..((n + 1) - 1)
        BY <1>2
      <4> QED
        BY <3>2, <4>1, <4>3, <4>4 DEF InScope
    <3> QED
      BY <2>1, <3>1, <3>2 DEF InScope
  <2>4. ~LoopTask(z) => Awaits(d, u, x, Len(d) + 1, 0 - n, b, k)
    BY <1>2, <1>3, <2>3 DEF Awaits
  <2> QED
    BY <2>2, <2>4
<1>5. ASSUME NEW b \in Nat, NEW k \in Nat, LoopTask(z), ScopeOf(z) = Scope(b, k)
      PROVE  Awaits(d, u, x, Len(d) + 1, 0 - n, b, k)
  <2>1. \A m \in (n + 1)..((n + 1) - 1) : ~LoopTask(Height(u, m))
    BY <1>2
  <2>2. n \in 1..((n + 1) - 1)
    BY <1>2
  <2>3. InScope(u, n + 1, b, k)
    BY <1>2, <1>5, <2>1, <2>2 DEF InScope
  <2> QED
    BY <1>2, <1>3, <2>3 DEF Awaits
<1> QED
  BY <1>4, <1>5 DEF u, n

(***************************************************************************)
(* A step that emits s, and leaves the tasks p in the place of the first.  *)
(***************************************************************************)
\* What the first task emits lays out the statement it was called for.
Opens(q, S, d, p, g, y, x) ==
  \A i \in Nat : \A b, k \in Nat \cup {NoLabel} :
    Head(q) = Stmt(i) /\ InScope(q, Len(q), b, k) => Laid(S, d, p, g, Span(i, y, x, b, k))

LEMMA LayoutStep ==
  ASSUME NEW c \in Seq(Instr), NEW s \in Seq(Instr), NEW q \in Seq(Task), q # << >>,
         NEW p \in Seq(Task), NEW mv, Relevels(mv, c, q, c \o s, p \o Tail(q)),
         NEW g, NEW R, Layout(R, c, q, g), NEW S, S \subseteq Spans,
         \A r \in R : Moved(mv, r) \in S,
         \A r \in S : (\E o \in R : r = Moved(mv, o)) \/ Open(c \o s, p \o Tail(q), r),
         Closes(q, S, c \o s, p \o Tail(q), g, Len(c) + 1, mv[Below(q)]),
         Opens(q, S, c \o s, p \o Tail(q), g, Len(c) + 1, mv[Below(q)])
  PROVE  Layout(S, c \o s, p \o Tail(q), g)
<1> DEFINE d == c \o s
           u == p \o Tail(q)
<1>1. /\ R \subseteq Spans /\ \A r \in R : Open(c, q, r) \/ Laid(R, c, q, g, r)
      /\ Span(1, 1, Lev(c, q, 0), NoLabel, NoLabel) \in R
  BY DEF Layout
<1>2. Len(c) \in Nat /\ Len(q) \in Nat \ {0} /\ Below(q) \in Int
  BY EmptySeq, LenProperties DEF Below
<1>3. /\ mv \in [Int -> Int] /\ \A y \in Int : y >= 1 => mv[y] = y
      /\ mv[Lev(c, q, 0)] = Lev(d, u, 0)
  <2>1. Relevels(mv, c, q, d, u) /\ 0 \in 0..(Len(q) - 1)
    BY <1>2
  <2> HIDE DEF d, u
  <2> QED
    BY <2>1 DEF Relevels
<1>4. Advances(mv, R, c, q, S, d, u, g)
  <2>1. \A y, ins : At(c, y, ins) => At(d, y, ins)
    BY AtStays
  <2>2. ASSUME NEW i, NEW b, NEW k, NEW y \in Int, NEW x \in Int, Span(i, y, x, b, k) \in R
        PROVE  Span(i, mv[y], mv[x], b, k) \in S
    <3> DEFINE r == Span(i, y, x, b, k)
    <3>1. Moved(mv, r) \in S
      BY <2>2
    <3>2. r.at = i /\ r.from = y /\ r.to = x /\ r.brk = b /\ r.cont = k
      BY DEF Span
    <3> HIDE DEF r
    <3> QED
      BY <3>1, <3>2 DEF Moved
  <2>3. \A t, b, k : \A y, x \in Int :
          Awaits(c, q, t, y, x, b, k) =>
            \/ Awaits(d, u, t, mv[y], mv[x], b, k)
            \/ t = Head(q) /\ y = Len(c) + 1 /\ x = Below(q) /\ InScope(q, Len(q), b, k)
    BY <1>2, AwaitsStay
  <2> HIDE DEF d, u
  <2>4. Carries(mv, R, c, q, S, d, u)
    BY <1>3, <2>1, <2>2, <2>3 DEF Carries
  <2> QED
    BY <1>1, <1>2, <2>4 DEF Advances, d, u
<1>5. ASSUME NEW o \in R PROVE Open(d, u, Moved(mv, o)) \/ Laid(S, d, u, g, Moved(mv, o))
  <2>1. CASE Laid(R, c, q, g, o)
    BY <1>4, <2>1, LaidCarried
  <2>2. CASE Open(c, q, o)
    <3> DEFINE v == Moved(mv, o)
    <3>1. /\ v.at = o.at /\ v.from = mv[o.from] /\ v.to = mv[o.to]
          /\ v.brk = o.brk /\ v.cont = o.cont
          /\ o.at \in Nat /\ o.from \in Int /\ o.to \in Int
          /\ o.brk \in Nat \cup {NoLabel} /\ o.cont \in Nat \cup {NoLabel}
      BY <1>1, MovedFacts
    <3> DEFINE t == Stmt(o.at)
    <3>2. \/ Awaits(d, u, t, mv[o.from], mv[o.to], o.brk, o.cont)
          \/ /\ t = Head(q) /\ o.from = Len(c) + 1 /\ InScope(q, Len(q), o.brk, o.cont)
             /\ mv[o.from] = o.from /\ mv[o.to] = mv[Below(q)]
      <4>1. Awaits(c, q, t, o.from, o.to, o.brk, o.cont)
        BY <2>2 DEF Open
      <4> HIDE DEF t, d, u
      <4> QED
        BY <1>4, <3>1, <4>1, AwaitsCarried
    <3>3. CASE Awaits(d, u, t, mv[o.from], mv[o.to], o.brk, o.cont)
      <4> HIDE DEF v, d, u
      <4>1. Open(d, u, v)
        BY <3>1, <3>3 DEF Open
      <4> QED
        BY <4>1 DEF v
    <3>4. CASE /\ t = Head(q) /\ o.from = Len(c) + 1 /\ InScope(q, Len(q), o.brk, o.cont)
               /\ mv[o.from] = o.from /\ mv[o.to] = mv[Below(q)]
      <4>1. v = Span(o.at, Len(c) + 1, mv[Below(q)], o.brk, o.cont)
        BY <3>4 DEF Moved
      <4>2. Laid(S, d, u, g, Span(o.at, Len(c) + 1, mv[Below(q)], o.brk, o.cont))
        BY <3>1, <3>4 DEF Opens
      <4> QED
        BY <4>1, <4>2
    <3> QED
      BY <3>2, <3>3, <3>4
  <2> QED
    BY <1>1, <2>1, <2>2
<1>6. Span(1, 1, Lev(d, u, 0), NoLabel, NoLabel) \in S
  <2> DEFINE r == Span(1, 1, Lev(c, q, 0), NoLabel, NoLabel)
  <2>1. Moved(mv, r) \in S
    BY <1>1
  <2>2. r.at = 1 /\ r.from = 1 /\ r.to = Lev(c, q, 0) /\ r.brk = NoLabel /\ r.cont = NoLabel
    BY DEF Span
  <2> HIDE DEF r
  <2>3. mv[1] = 1
    BY <1>3
  <2> QED
    BY <1>3, <2>1, <2>2, <2>3 DEF Moved
<1> HIDE DEF d, u
<1>7. \A r \in S : Open(d, u, r) \/ Laid(S, d, u, g, r)
  BY <1>5 DEF d, u
<1>8. Layout(S, d, u, g)
  BY <1>6, <1>7 DEF Layout
<1> QED
  BY <1>8 DEF d, u

LEMMA LayoutPop ==
  ASSUME NEW c \in Seq(Instr), NEW s \in Seq(Instr), NEW q \in Seq(Task), q # << >>,
         NEW g, NEW R, Layout(R, c, q, g),
         \A S : Closes(q, S, c \o s, Tail(q), g, Len(c) + 1, Len(c) + Len(s) + 1),
         \A S : Opens(q, S, c \o s, Tail(q), g, Len(c) + 1, Len(c) + Len(s) + 1)
  PROVE  \E S : Layout(S, c \o s, Tail(q), g)
<1> DEFINE p == << >>
           mv == Reach(c, q, s)
           S == {Moved(mv, r) : r \in R}
<1>1. p \in Seq(Task) /\ Len(p) = 0 /\ p \o Tail(q) = Tail(q)
  BY EmptySeq, HeadTailProperties, ConcatEmptySeq
<1> HIDE DEF p
<1>2. Relevels(mv, c, q, c \o s, p \o Tail(q))
  BY <1>1, PopRelevels
<1>3. mv[Below(q)] = Len(c) + Len(s) + 1
  <2>1. Below(q) \in Int
    BY LenProperties DEF Below
  <2> QED
    BY <2>1 DEF Reach
<1>4. S \subseteq Spans
  <2> SUFFICES ASSUME NEW r \in R PROVE Moved(mv, r) \in Spans
    OBVIOUS
  <2>1. /\ r.at \in Nat \ {0} /\ r.from \in Int /\ r.to \in Int
        /\ r.brk \in Nat \cup {NoLabel} /\ r.cont \in Nat \cup {NoLabel}
    BY MovedFacts DEF Layout
  <2>2. mv[r.from] \in Int /\ mv[r.to] \in Int
    BY <1>2, <2>1 DEF Relevels
  <2> HIDE DEF mv
  <2> QED
    BY <2>1, <2>2, SpanFields DEF Moved
<1> HIDE DEF mv
<1>5. /\ \A r \in R : Moved(mv, r) \in S
      /\ \A r \in S : \E o \in R : r = Moved(mv, o)
  OBVIOUS
<1> HIDE DEF S
<1>6. /\ Closes(q, S, c \o s, p \o Tail(q), g, Len(c) + 1, mv[Below(q)])
      /\ Opens(q, S, c \o s, p \o Tail(q), g, Len(c) + 1, mv[Below(q)])
  BY <1>1, <1>3
<1>7. Layout(S, c \o s, p \o Tail(q), g)
  BY <1>1, <1>2, <1>4, <1>5, <1>6, LayoutStep
<1> QED
  BY <1>1, <1>7

LEMMA LayoutPush ==
  ASSUME NEW c \in Seq(Instr), NEW s \in Seq(Instr), NEW q \in Seq(Task), q # << >>,
         NEW p \in Seq(Task), Len(p) = 2,
         NEW g, NEW R, Layout(R, c, q, g), NEW T, T \subseteq Spans,
         \A r \in T : Open(c \o s, p \o Tail(q), r),
         Closes(q, R \cup T, c \o s, p \o Tail(q), g, Len(c) + 1, Below(q)),
         Opens(q, R \cup T, c \o s, p \o Tail(q), g, Len(c) + 1, Below(q))
  PROVE  Layout(R \cup T, c \o s, p \o Tail(q), g)
<1> DEFINE mv == [y \in Int |-> y]
           S == R \cup T
<1>1. Relevels(mv, c, q, c \o s, p \o Tail(q))
  BY PushRelevels
<1>2. \A y \in Int : mv[y] = y
  OBVIOUS
<1>3. mv[Below(q)] = Below(q)
  BY <1>2, LenProperties DEF Below
<1>4. R \subseteq Spans
  BY DEF Layout
<1> HIDE DEF mv
<1>5. ASSUME NEW r \in R PROVE Moved(mv, r) = r
  <2>1. r = Span(r.at, r.from, r.to, r.brk, r.cont) /\ r.from \in Int /\ r.to \in Int
    BY <1>4, SpanFields
  <2>2. mv[r.from] = r.from /\ mv[r.to] = r.to
    BY <1>2, <2>1
  <2> QED
    BY <2>1, <2>2 DEF Moved
<1>6. S \subseteq Spans
  BY <1>4
<1>7. /\ \A r \in R : Moved(mv, r) \in S
      /\ \A r \in S : (\E o \in R : r = Moved(mv, o)) \/ Open(c \o s, p \o Tail(q), r)
  <2>1. \A r \in S : r \in R \/ r \in T
    OBVIOUS
  <2>2. \A r \in R : r \in S
    OBVIOUS
  <2> QED
    BY <1>5, <2>1, <2>2
<1>8. /\ Closes(q, S, c \o s, p \o Tail(q), g, Len(c) + 1, mv[Below(q)])
      /\ Opens(q, S, c \o s, p \o Tail(q), g, Len(c) + 1, mv[Below(q)])
  BY <1>3
<1> HIDE DEF S
<1>9. Layout(S, c \o s, p \o Tail(q), g)
  BY <1>1, <1>6, <1>7, <1>8, LayoutStep
<1> QED
  BY <1>9 DEF S

-----------------------------------------------------------------------------
(***************************************************************************)
(* The actions of the generator, by what the first task is.                *)
(***************************************************************************)
LEMMA TaskKinds ==
  /\ \A i : Stmt(i).task = "stmt"
  /\ \A i, l, m : EndThen(i, l, m).task = "then"
  /\ \A m : EndElse(m).task = "else"
  /\ \A l, e : EndWhile(l, e).task = "while"
  /\ \A i, l, s, e : EndFor(i, l, s, e).task = "for"
BY DEF Stmt, EndThen, EndElse, EndWhile, EndFor

LEMMA TaskInjective ==
  /\ \A i, j : Stmt(i) = Stmt(j) => i = j
  /\ \A i, l, m, i2, l2, m2 : EndThen(i, l, m) = EndThen(i2, l2, m2) => i = i2 /\ l = l2 /\ m = m2
  /\ \A m, m2 : EndElse(m) = EndElse(m2) => m = m2
  /\ \A l, e, l2, e2 : EndWhile(l, e) = EndWhile(l2, e2) => l = l2 /\ e = e2
  /\ \A i, l, s, e, i2, l2, s2, e2 :
       EndFor(i, l, s, e) = EndFor(i2, l2, s2, e2) => i = i2 /\ l = l2 /\ s = s2 /\ e = e2
<1>1. \A i, j : Stmt(i) = Stmt(j) => i = j
  BY DEF Stmt
<1>2. \A i, l, m, i2, l2, m2 : EndThen(i, l, m) = EndThen(i2, l2, m2) => i = i2 /\ l = l2 /\ m = m2
  BY DEF EndThen
<1>3. \A m, m2 : EndElse(m) = EndElse(m2) => m = m2
  BY DEF EndElse
<1>4. \A l, e, l2, e2 : EndWhile(l, e) = EndWhile(l2, e2) => l = l2 /\ e = e2
  BY DEF EndWhile
<1>5. \A i, l, s, e, i2, l2, s2, e2 :
        EndFor(i, l, s, e) = EndFor(i2, l2, s2, e2) => i = i2 /\ l = l2 /\ s = s2 /\ e = e2
  BY DEF EndFor
<1> QED
  BY <1>1, <1>2, <1>3, <1>4, <1>5

LEMMA NothingCloses ==
  ASSUME NEW q, Head(q).task = "stmt"
  PROVE  \A S, d, p, g, y, x : Closes(q, S, d, p, g, y, x)
<1>1. /\ \A i, l, m : Head(q) # EndThen(i, l, m)
      /\ \A m : Head(q) # EndElse(m)
      /\ \A l, e : Head(q) # EndWhile(l, e)
      /\ \A i, l, s, e : Head(q) # EndFor(i, l, s, e)
  BY TaskKinds
<1> QED
  BY <1>1 DEF Closes

LEMMA NothingOpens ==
  ASSUME NEW q, Head(q).task # "stmt"
  PROVE  \A S, d, p, g, y, x : Opens(q, S, d, p, g, y, x)
BY TaskKinds DEF Opens

\* A statement without children.
LEMMA LeafLays ==
  ASSUME NEW c \in Seq(Instr), NEW s \in Seq(Instr), NEW q \in Seq(Task), q # << >>,
         NEW j, Head(q) = Stmt(j), NEW g, NEW R, Layout(R, c, q, g),
         \A b, k \in Nat \cup {NoLabel} : InScope(q, Len(q), b, k) =>
           LaidLeaf(c \o s, g, Span(j, Len(c) + 1, Len(c) + Len(s) + 1, b, k))
  PROVE  \E S : Layout(S, c \o s, Tail(q), g)
<1>1. \A S, d, p, y, x : Closes(q, S, d, p, g, y, x)
  BY TaskKinds, NothingCloses
<1> DEFINE d == c \o s
           y == Len(c) + 1
           x == Len(c) + Len(s) + 1
<1>2. \A b, k \in Nat \cup {NoLabel} : InScope(q, Len(q), b, k) => LaidLeaf(d, g, Span(j, y, x, b, k))
  OBVIOUS
<1> HIDE DEF d, y, x
<1>3. \A S : Opens(q, S, d, Tail(q), g, y, x)
  BY <1>2, TaskInjective DEF Opens, Laid
<1>4. \A S : Closes(q, S, d, Tail(q), g, y, x)
  BY <1>1
<1> QED
  BY <1>3, <1>4, LayoutPop DEF d, y, x

\* The end of a statement.
LEMMA EndLays ==
  ASSUME NEW c \in Seq(Instr), NEW s \in Seq(Instr), NEW q \in Seq(Task), q # << >>,
         Head(q).task # "stmt", NEW g, NEW R, Layout(R, c, q, g),
         \A S : Closes(q, S, c \o s, Tail(q), g, Len(c) + 1, Len(c) + Len(s) + 1)
  PROVE  \E S : Layout(S, c \o s, Tail(q), g)
<1>1. \A S : Opens(q, S, c \o s, Tail(q), g, Len(c) + 1, Len(c) + Len(s) + 1)
  BY NothingOpens
<1> QED
  BY <1>1, LayoutPop

\* The spans of a child from y to x, in the scopes of its parent.
Child(q, j, y, x) ==
  {r \in Spans : r.at = j /\ r.from = y /\ r.to = x /\ InScope(q, Len(q), r.brk, r.cont)}

LEMMA ChildFacts ==
  ASSUME NEW q, NEW j \in Nat \ {0}, NEW y \in Int, NEW x \in Int
  PROVE  /\ Child(q, j, y, x) \subseteq Spans
         /\ \A b, k \in Nat \cup {NoLabel} :
              InScope(q, Len(q), b, k) => Span(j, y, x, b, k) \in Child(q, j, y, x)
<1> SUFFICES ASSUME NEW b \in Nat \cup {NoLabel}, NEW k \in Nat \cup {NoLabel},
                    InScope(q, Len(q), b, k)
             PROVE  Span(j, y, x, b, k) \in Child(q, j, y, x)
  BY DEF Child
<1> DEFINE r == Span(j, y, x, b, k)
<1>1. r \in Spans /\ r.at = j /\ r.from = y /\ r.to = x /\ r.brk = b /\ r.cont = k
  BY DEF Span, Spans
<1> HIDE DEF r
<1> QED
  BY <1>1 DEF Child, r

\* The scopes of the generator are those of the innermost loop.
LEMMA ScopeTop ==
  ASSUME NEW q \in Seq(Task), q # << >>, ~LoopTask(Head(q)),
         NEW sc \in Seq(LoopScope), InTune(q, sc), NEW b, NEW k, InScope(q, Len(q), b, k)
  PROVE  /\ sc = << >> => b = NoLabel
         /\ sc # << >> => b \in Nat /\ k \in Nat /\ sc[Len(sc)] = Scope(b, k)
<1> DEFINE n == Len(q)
<1>1. n \in Nat \ {0} /\ Height(q, n) = Head(q)
  <2>1. << >> \in Seq(Task) /\ n \in Nat
    BY EmptySeq, LenProperties
  <2> QED
    BY <2>1, HeightsStay
<1>2. Len(sc) = Cardinality(LoopsOf(q)) /\ Len(sc) \in Nat
  BY LenProperties DEF InTune
<1>3. \A h \in LoopsOf(q) : h \in 1..(n - 1)
  BY <1>1 DEF LoopsOf
<1>4. CASE b = NoLabel /\ k = NoLabel /\ \A m \in 1..(n - 1) : ~LoopTask(Height(q, m))
  <2>1. LoopsOf(q) = {}
    BY <1>3, <1>4 DEF LoopsOf
  <2>2. Len(sc) = 0
    BY <1>2, <2>1, FS_EmptySet
  <2>3. sc = << >>
    BY <2>2, EmptySeq
  <2> QED
    BY <1>4, <2>3
<1>5. CASE b \in Nat /\ k \in Nat /\ \E g \in 1..(n - 1) :
                    /\ LoopTask(Height(q, g)) /\ ScopeOf(Height(q, g)) = Scope(b, k)
                    /\ \A m \in (g + 1)..(n - 1) : ~LoopTask(Height(q, m))
  <2>1. PICK g \in 1..(n - 1) :
          /\ LoopTask(Height(q, g)) /\ ScopeOf(Height(q, g)) = Scope(b, k)
          /\ \A m \in (g + 1)..(n - 1) : ~LoopTask(Height(q, m))
    BY <1>5
  <2>2. g \in LoopsOf(q)
    BY <1>1, <2>1 DEF LoopsOf
  <2>3. \A h \in LoopsOf(q) : h <= g
    <3>1. ASSUME NEW h \in LoopsOf(q), ~(h <= g) PROVE FALSE
      <4>1. h \in (g + 1)..(n - 1) /\ LoopTask(Height(q, h))
        BY <1>1, <1>3, <3>1 DEF LoopsOf
      <4> QED
        BY <2>1, <4>1
    <3> QED
      BY <3>1
  <2>4. UpTo(q, g) = LoopsOf(q)
    BY <2>3 DEF UpTo
  <2>5. sc[Len(sc)] = Scope(b, k)
    BY <1>2, <2>1, <2>2, <2>4 DEF InTune
  <2>6. sc # << >>
    <3>1. Len(sc) \in 1..Len(sc)
      BY <1>2, <2>2, <2>4, LoopCounts
    <3> QED
      BY <3>1, EmptySeq
  <2> QED
    BY <1>5, <2>5, <2>6
<1> QED
  BY <1>4, <1>5 DEF InScope, n

-----------------------------------------------------------------------------
(***************************************************************************)
(* The invariant: while the generator runs the code and the tasks have a   *)
(* layout; when it is done every statement is laid out.                    *)
(***************************************************************************)
Finished(R, c, g) ==
  /\ R \subseteq Spans
  /\ \A r \in R : Laid(R, c, << >>, g, r)
  /\ \E x \in Int : /\ Span(1, 1, x, NoLabel, NoLabel) \in R
                    /\ x = Len(c) + 1 \/ At(c, x, Ret(0))

LaidOut ==
  ~failed => /\ ~done => \E R : Layout(R, code, todo, prog)
             /\ done => \E R : Finished(R, code, prog)

\* What an action has to show, when it takes the first task.
LEMMA TakesTask ==
  ASSUME IInv, LaidOut, ~done, todo # << >>, done' = done, failed' = failed, prog' = prog,
         \A R : ~failed /\ Layout(R, code, todo, prog) => \E S : Layout(S, code', todo', prog)
  PROVE  LaidOut'
BY DEF LaidOut

LEMMA InitLaidOut == Init => LaidOut
<1> SUFFICES ASSUME Init PROVE LaidOut
  OBVIOUS
<1>1. code = << >> /\ todo = <<Stmt(1)>> /\ ~done
  BY DEF Init
<1> DEFINE c == << >>
           t == Stmt(1)
           q == <<t>>
           r == Span(1, 1, 0, NoLabel, NoLabel)
<1>2. Len(c) = 0 /\ Len(q) = 1 /\ q[1] = t
  OBVIOUS
<1>3. r.at = 1 /\ r.from = 1 /\ r.to = 0 /\ r.brk = NoLabel /\ r.cont = NoLabel /\ r \in Spans
  BY DEF Span, Spans
<1> HIDE DEF c, q, r
<1>4. Lev(c, q, 1) = 1 /\ Lev(c, q, 0) = 0
  BY <1>2 DEF Lev
<1>5. Open(c, q, r)
  <2>1. Height(q, 1) = t
    BY <1>2 DEF Height
  <2>2. InScope(q, 1, NoLabel, NoLabel)
    BY DEF InScope
  <2>3. 1 \in 1..Len(q) /\ Lev(c, q, 1 - 1) = 0
    BY <1>2, <1>4
  <2> QED
    BY <1>3, <1>4, <2>1, <2>2, <2>3 DEF Open, Awaits
<1>6. Layout({r}, c, q, prog)
  BY <1>3, <1>4, <1>5 DEF Layout, r
<1> QED
  BY <1>1, <1>6 DEF LaidOut, c, q

\* A statement without children is laid out by what it emits.
LEMMA LeafTakes ==
  ASSUME IInv, LaidOut, Calling, NEW s \in Seq(Instr), code' = code \o s, todo' = Rest,
         UNCHANGED <<prog, failed, done>>,
         \A b, k \in Nat \cup {NoLabel} : ~failed /\ InScope(todo, Len(todo), b, k) =>
           LaidLeaf(code \o s, prog, Span(stmt, Len(code) + 1, Len(code) + Len(s) + 1, b, k))
  PROVE  LaidOut'
<1>1. /\ ~done /\ todo # << >> /\ Head(todo) = Stmt(stmt)
      /\ code \in Seq(Instr) /\ todo \in Seq(Task)
  BY AtCall
<1>2. PICK j : j = stmt
  OBVIOUS
<1>3. ASSUME NEW R, ~failed, Layout(R, code, todo, prog)
      PROVE  \E S : Layout(S, code \o s, Tail(todo), prog)
  <2>1. Head(todo) = Stmt(j)
    BY <1>1, <1>2
  <2>2. \A b, k \in Nat \cup {NoLabel} : InScope(todo, Len(todo), b, k) =>
          LaidLeaf(code \o s, prog, Span(j, Len(code) + 1, Len(code) + Len(s) + 1, b, k))
    BY <1>2, <1>3
  <2> QED
    BY <1>1, <1>3, <2>1, <2>2, LeafLays
<1>4. ASSUME NEW R, ~failed, Layout(R, code, todo, prog)
      PROVE  \E S : Layout(S, code', todo', prog)
  BY <1>3, <1>4 DEF Rest
<1> QED
  BY <1>1, <1>4, TakesTask

LEMMA GenActLaid == IInv /\ LaidOut /\ GenAct => LaidOut'
<1> SUFFICES ASSUME IInv, LaidOut, GenAct PROVE LaidOut'
  OBVIOUS
<1>1. /\ Calling /\ prog[stmt] = "act" /\ code' = code \o <<Act(stmt)>> /\ todo' = Rest
      /\ UNCHANGED <<prog, failed, done>>
  BY DEF GenAct, Visiting, Emit
<1>2. stmt \in Nat /\ code \in Seq(Instr)
  BY <1>1, AtCall
<1> DEFINE s == <<Act(stmt)>>
<1>3. s \in Seq(Instr) /\ Len(s) = 1 /\ s[1] = Act(stmt) /\ 1 \in 1..Len(s)
  BY <1>2, InstrTypes
<1>4. code' = code \o s
  BY <1>1
<1> HIDE DEF s
<1>5. At(code \o s, Len(code) + 1, Act(stmt))
  BY <1>2, <1>3, AtStays
<1>6. ASSUME NEW b, NEW k
      PROVE  LaidLeaf(code \o s, prog, Span(stmt, Len(code) + 1, Len(code) + Len(s) + 1, b, k))
  BY <1>1, <1>3, <1>5 DEF LaidLeaf, Span
<1> QED
  BY <1>1, <1>3, <1>4, <1>6, LeafTakes

LEMMA GenRetLaid == IInv /\ LaidOut /\ GenRet => LaidOut'
<1> SUFFICES ASSUME IInv, LaidOut, GenRet PROVE LaidOut'
  OBVIOUS
<1>1. /\ Calling /\ prog[stmt] = "ret" /\ code' = code \o <<Ret(stmt)>> /\ todo' = Rest
      /\ UNCHANGED <<prog, failed, done>>
  BY DEF GenRet, Visiting, Emit
<1>2. stmt \in Nat /\ code \in Seq(Instr)
  BY <1>1, AtCall
<1> DEFINE s == <<Ret(stmt)>>
<1>3. s \in Seq(Instr) /\ Len(s) = 1 /\ s[1] = Ret(stmt) /\ 1 \in 1..Len(s)
  BY <1>2, InstrTypes
<1>4. code' = code \o s
  BY <1>1
<1> HIDE DEF s
<1>5. At(code \o s, Len(code) + 1, Ret(stmt))
  BY <1>2, <1>3, AtStays
<1>6. ASSUME NEW b, NEW k
      PROVE  LaidLeaf(code \o s, prog, Span(stmt, Len(code) + 1, Len(code) + Len(s) + 1, b, k))
  BY <1>1, <1>3, <1>5 DEF LaidLeaf, Span
<1> QED
  BY <1>1, <1>3, <1>4, <1>6, LeafTakes

LEMMA GenJumpLaid == IInv /\ ScopesMatchLoops /\ LaidOut /\ GenJump => LaidOut'
<1> SUFFICES ASSUME IInv, ScopesMatchLoops, LaidOut, GenJump PROVE LaidOut'
  OBVIOUS
<1>1. /\ Calling /\ prog[stmt] \in {"break", "continue"} /\ todo' = Rest
      /\ scopes = << >> => code' = code
      /\ scopes # << >> /\ prog[stmt] = "break" =>
           code' = code \o <<Br(scopes[Len(scopes)].break_lbl)>>
      /\ scopes # << >> /\ prog[stmt] = "continue" =>
           code' = code \o <<Br(scopes[Len(scopes)].continue_lbl)>>
      /\ UNCHANGED <<prog, failed, done>>
  BY DEF GenJump, Visiting, Emit, current_loop_scope
<1>2. /\ stmt \in Nat /\ code \in Seq(Instr) /\ code \o << >> = code
      /\ todo # << >> /\ todo \in Seq(Task) /\ Head(todo) = Stmt(stmt)
      /\ scopes \in Seq(LoopScope)
  BY <1>1, AtCall DEF IInv
<1>3. ~LoopTask(Head(todo)) /\ InTune(todo, scopes)
  <2>1. InTune(todo, scopes) <=> ScopesMatchLoops
    BY DEF InTune, ScopesMatchLoops, LoopsOf, UpTo, Height, LoopTask, OpenLoops, Nesting, TaskAt
  <2> QED
    BY <1>2, <2>1, TaskKinds DEF LoopTask
<1>4. ASSUME NEW b, NEW k, InScope(todo, Len(todo), b, k)
      PROVE  /\ scopes = << >> => b = NoLabel
             /\ scopes # << >> => b \in Nat /\ k \in Nat /\ scopes[Len(scopes)] = Scope(b, k)
  BY <1>2, <1>3, <1>4, ScopeTop
<1>5. CASE scopes = << >>
  <2> DEFINE s == << >>
  <2>1. s \in Seq(Instr) /\ Len(s) = 0 /\ code' = code \o s
    BY <1>1, <1>2, <1>5
  <2> HIDE DEF s
  <2>2. Len(code) \in Nat
    BY <1>2, LenProperties
  <2>3. ASSUME NEW b, NEW k, InScope(todo, Len(todo), b, k)
        PROVE  LaidLeaf(code \o s, prog, Span(stmt, Len(code) + 1, Len(code) + Len(s) + 1, b, k))
    <3>1. b = NoLabel
      BY <1>4, <1>5, <2>3
    <3>2. Len(code) + Len(s) + 1 = Len(code) + 1
      BY <2>1, <2>2
    <3> QED
      BY <1>1, <3>1, <3>2 DEF LaidLeaf, Span
  <2> QED
    BY <1>1, <2>1, <2>3, LeafTakes
<1>6. ASSUME NEW l \in Nat, scopes # << >>, code' = code \o <<Br(l)>>,
             \/ prog[stmt] = "break" /\ l = scopes[Len(scopes)].break_lbl
             \/ prog[stmt] = "continue" /\ l = scopes[Len(scopes)].continue_lbl
      PROVE  LaidOut'
  <2> DEFINE s == <<Br(l)>>
  <2>1. s \in Seq(Instr) /\ Len(s) = 1 /\ s[1] = Br(l) /\ 1 \in 1..Len(s) /\ code' = code \o s
    BY <1>6, InstrTypes
  <2> HIDE DEF s
  <2>2. At(code \o s, Len(code) + 1, Br(l))
    BY <1>2, <2>1, AtStays
  <2>3. ASSUME NEW b, NEW k, InScope(todo, Len(todo), b, k)
        PROVE  LaidLeaf(code \o s, prog, Span(stmt, Len(code) + 1, Len(code) + Len(s) + 1, b, k))
    <3>1. b \in Nat /\ k \in Nat /\ scopes[Len(scopes)] = Scope(b, k)
      BY <1>4, <1>6, <2>3
    <3>2. \/ prog[stmt] = "break" /\ l = b
          \/ prog[stmt] = "continue" /\ l = k
      BY <1>6, <3>1 DEF Scope
    <3> QED
      BY <2>2, <3>1, <3>2 DEF LaidLeaf, Span
  <2> QED
    BY <1>1, <2>1, <2>3, LeafTakes
<1>7. CASE scopes # << >>
  <2>1. Len(scopes) \in 1..Len(scopes)
    BY <1>2, <1>7, EmptySeq, LenProperties
  <2>2. scopes[Len(scopes)] \in LoopScope
    BY <1>2, <2>1, ElementOfSeq
  <2>3. scopes[Len(scopes)].break_lbl \in Nat /\ scopes[Len(scopes)].continue_lbl \in Nat
    BY <2>2 DEF LoopScope
  <2> QED
    BY <1>1, <1>6, <1>7, <2>3
<1> QED
  BY <1>5, <1>7

\* A first task that leaves two in its place.
LEMMA PushTakes ==
  ASSUME IInv, LaidOut, ~done, todo # << >>, NEW s \in Seq(Instr), code' = code \o s,
         NEW p \in Seq(Task), Len(p) = 2, todo' = p \o Tail(todo),
         UNCHANGED <<prog, failed, done>>,
         NEW T, T \subseteq Spans, \A r \in T : Open(code \o s, p \o Tail(todo), r),
         \A R : /\ Closes(todo, R \cup T, code \o s, p \o Tail(todo), prog,
                          Len(code) + 1, Below(todo))
                /\ Opens(todo, R \cup T, code \o s, p \o Tail(todo), prog,
                         Len(code) + 1, Below(todo))
  PROVE  LaidOut'
<1>1. code \in Seq(Instr) /\ todo \in Seq(Task)
  BY DEF IInv, Sound, Piece, Tasks
<1>2. ASSUME NEW R, ~failed, Layout(R, code, todo, prog)
      PROVE  Layout(R \cup T, code \o s, p \o Tail(todo), prog)
  BY <1>1, <1>2, LayoutPush
<1>3. ASSUME NEW R, ~failed, Layout(R, code, todo, prog)
      PROVE  \E S : Layout(S, code', todo', prog)
  BY <1>2, <1>3
<1> QED
  BY <1>3, TakesTask

\* The spans of the children are open when their tasks are there.
LEMMA ChildOpen ==
  ASSUME NEW q, NEW j, NEW y, NEW x, NEW d, NEW u,
         \A b, k : InScope(q, Len(q), b, k) => Awaits(d, u, Stmt(j), y, x, b, k)
  PROVE  \A r \in Child(q, j, y, x) : Open(d, u, r)
BY DEF Child, Open

LEMMA GenBlockLaid == IInv /\ LaidOut /\ GenBlock => LaidOut'
<1> SUFFICES ASSUME IInv, LaidOut, GenBlock PROVE LaidOut'
  OBVIOUS
<1>1. /\ Calling /\ prog[stmt] \in {"skip", "seq"} /\ code' = code
      /\ prog[stmt] = "skip" => todo' = Rest
      /\ prog[stmt] = "seq" => todo' = <<Stmt(First(stmt)), Stmt(Second(stmt))>> \o Tail(todo)
      /\ stmt \in DOMAIN prog
      /\ UNCHANGED <<prog, failed, done>>
  BY DEF GenBlock, Visiting, Rest
<1>2. /\ stmt \in Nat /\ code \in Seq(Instr) /\ code \o << >> = code /\ ~done
      /\ todo # << >> /\ todo \in Seq(Task) /\ Head(todo) = Stmt(stmt)
  BY <1>1, AtCall
<1> DEFINE s == << >>
<1>3. s \in Seq(Instr) /\ Len(s) = 0 /\ code' = code \o s
  BY <1>1, <1>2
<1> HIDE DEF s
<1>4. Len(code) \in Nat /\ Len(todo) \in Nat /\ Below(todo) \in Int
  BY <1>2, LenProperties DEF Below
<1>5. CASE prog[stmt] = "skip"
  <2>1. ASSUME NEW b, NEW k
        PROVE  LaidLeaf(code \o s, prog, Span(stmt, Len(code) + 1, Len(code) + Len(s) + 1, b, k))
    <3>1. Len(code) + Len(s) + 1 = Len(code) + 1
      BY <1>3, <1>4
    <3> QED
      BY <1>5, <3>1 DEF LaidLeaf, Span
  <2> QED
    BY <1>1, <1>3, <1>5, <2>1, LeafTakes
<1>6. CASE prog[stmt] = "seq"
  <2>1. PICK i \in Nat : i = stmt
    BY <1>2
  <2>2. First(i) = i + 1 /\ Second(i) = Later(prog, i) /\ First(i) \in Nat \ {0} /\ Second(i) \in Nat \ {0}
    <3>1. prog \in Programs /\ prog[i] \notin Leaf
      BY <1>6, <2>1 DEF IInv, Leaf
    <3> QED
      BY <1>1, <2>1, <3>1, Children DEF First, Second, Later
  <2> DEFINE t1 == Stmt(First(i))
             t2 == Stmt(Second(i))
             p == <<t1, t2>>
             m == 0 - Len(todo)
             d == code \o s
             u == p \o Tail(todo)
             T == Child(todo, First(i), Len(d) + 1, m) \cup Child(todo, Second(i), m, Below(todo))
  <2>3. t1 \in Task /\ t2 \in Task /\ ~LoopTask(t2)
    BY <2>2, TaskFacts, TaskKinds DEF LoopTask
  <2>4. p \in Seq(Task) /\ Len(p) = 2 /\ todo' = u
    BY <1>1, <1>6, <2>1, <2>3
  <2>5. \A b, k : InScope(todo, Len(todo), b, k) =>
           /\ Awaits(d, u, t2, m, Below(todo), b, k)
           /\ Awaits(d, u, t1, Len(d) + 1, m, b, k)
    <3> HIDE DEF t1, t2
    <3> QED
      BY <1>2, <2>3, PushedAwaits
  <2>6. Len(d) = Len(code) /\ Len(d) + 1 \in Int /\ m \in Int
    <3>1. Len(d) = Len(code)
      BY <1>2, <1>3
    <3> QED
      BY <1>4, <3>1
  <2> HIDE DEF p, d, u, m
  <2>7. T \subseteq Spans /\ \A r \in T : Open(d, u, r)
    <3>1. \A r \in Child(todo, First(i), Len(d) + 1, m) : Open(d, u, r)
      BY <2>5, ChildOpen
    <3>2. \A r \in Child(todo, Second(i), m, Below(todo)) : Open(d, u, r)
      BY <2>5, ChildOpen
    <3> QED
      BY <1>4, <2>2, <2>6, <3>1, <3>2, ChildFacts
  <2>8. ASSUME NEW b \in Nat \cup {NoLabel}, NEW k \in Nat \cup {NoLabel},
               InScope(todo, Len(todo), b, k)
        PROVE  /\ Span(i + 1, Len(code) + 1, m, b, k) \in T
               /\ Span(Later(prog, i), m, Below(todo), b, k) \in T
    <3>1. Span(First(i), Len(d) + 1, m, b, k) \in T
      BY <2>2, <2>6, <2>8, ChildFacts
    <3>2. Span(Second(i), m, Below(todo), b, k) \in T
      BY <1>4, <2>2, <2>6, <2>8, ChildFacts
    <3> QED
      BY <2>2, <2>6, <3>1, <3>2
  <2> HIDE DEF T
  <2>9. ASSUME NEW R
        PROVE  Opens(todo, R \cup T, d, u, prog, Len(code) + 1, Below(todo))
    <3> SUFFICES ASSUME NEW b \in Nat \cup {NoLabel}, NEW k \in Nat \cup {NoLabel},
                        InScope(todo, Len(todo), b, k)
                 PROVE  Laid(R \cup T, d, u, prog, Span(i, Len(code) + 1, Below(todo), b, k))
      BY <1>2, <2>1, TaskInjective DEF Opens
    <3> DEFINE r == Span(i, Len(code) + 1, Below(todo), b, k)
    <3>1. r.at = i /\ r.from = Len(code) + 1 /\ r.to = Below(todo) /\ r.brk = b /\ r.cont = k
      BY DEF Span
    <3> HIDE DEF r
    <3>2. LaidSeq(R \cup T, prog, r)
      BY <1>6, <2>1, <2>6, <2>8, <3>1 DEF LaidSeq
    <3> QED
      BY <3>2 DEF Laid, r
  <2>10. \A R : Closes(todo, R \cup T, d, u, prog, Len(code) + 1, Below(todo))
    BY <1>2, TaskKinds, NothingCloses
  <2> QED
    BY <1>1, <1>2, <1>3, <2>4, <2>7, <2>9, <2>10, PushTakes DEF d, u
<1> QED
  BY <1>1, <1>5, <1>6

\* A statement with a child that stays in the scopes it is in.
LEMMA BranchTakes ==
  ASSUME IInv, LaidOut, Calling, stmt \in DOMAIN prog, prog[stmt] \notin Leaf,
         NEW s \in Seq(Instr), code' = code \o s,
         NEW t \in Task, ~LoopTask(t), todo' = <<Stmt(First(stmt)), t>> \o Rest,
         UNCHANGED <<prog, failed, done>>,
         \A R, u, b, k : \A y, x \in Int :
           /\ Span(stmt + 1, Len(code) + Len(s) + 1, y, b, k) \in R
           /\ Awaits(code \o s, u, t, y, x, b, k)
           => Laid(R, code \o s, u, prog, Span(stmt, Len(code) + 1, x, b, k))
  PROVE  LaidOut'
<1>1. /\ stmt \in Nat /\ code \in Seq(Instr) /\ ~done
      /\ todo # << >> /\ todo \in Seq(Task) /\ Head(todo) = Stmt(stmt)
  BY AtCall
<1>2. Len(code) \in Nat /\ Len(s) \in Nat /\ Len(todo) \in Nat /\ Below(todo) \in Int
  BY <1>1, LenProperties DEF Below
<1>3. PICK i \in Nat : i = stmt
  BY <1>1
<1>4. First(i) = i + 1 /\ First(i) \in Nat \ {0}
  BY DEF First
<1> DEFINE t1 == Stmt(First(i))
           p == <<t1, t>>
           m == 0 - Len(todo)
           d == code \o s
           u == p \o Tail(todo)
           T == Child(todo, First(i), Len(d) + 1, m)
<1>5. t1 \in Task
  BY <1>4, TaskFacts
<1>6. p \in Seq(Task) /\ Len(p) = 2 /\ todo' = u
  BY <1>3, <1>5 DEF Rest
<1>7. \A b, k : InScope(todo, Len(todo), b, k) =>
         /\ Awaits(d, u, t, m, Below(todo), b, k)
         /\ Awaits(d, u, t1, Len(d) + 1, m, b, k)
  <2> HIDE DEF t1
  <2> QED
    BY <1>1, <1>5, PushedAwaits
<1>8. Len(d) = Len(code) + Len(s) /\ Len(d) + 1 \in Int /\ m \in Int
  <2>1. Len(d) = Len(code) + Len(s)
    BY <1>1, ConcatProperties
  <2> QED
    BY <1>2, <2>1
<1>9. d = code \o s
  OBVIOUS
<1> HIDE DEF p, d, u, m
<1>10. T \subseteq Spans /\ \A r \in T : Open(d, u, r)
  BY <1>4, <1>7, <1>8, ChildFacts, ChildOpen
<1>11. ASSUME NEW b \in Nat \cup {NoLabel}, NEW k \in Nat \cup {NoLabel},
              InScope(todo, Len(todo), b, k)
       PROVE  Span(i + 1, Len(code) + Len(s) + 1, m, b, k) \in T
  <2>1. Span(First(i), Len(d) + 1, m, b, k) \in T
    BY <1>4, <1>8, <1>11, ChildFacts
  <2> QED
    BY <1>4, <1>8, <2>1
<1> HIDE DEF T
<1>12. ASSUME NEW R
       PROVE  Opens(todo, R \cup T, d, u, prog, Len(code) + 1, Below(todo))
  <2> SUFFICES ASSUME NEW b \in Nat \cup {NoLabel}, NEW k \in Nat \cup {NoLabel},
                      InScope(todo, Len(todo), b, k)
               PROVE  Laid(R \cup T, d, u, prog, Span(i, Len(code) + 1, Below(todo), b, k))
    BY <1>1, <1>3, TaskInjective DEF Opens
  <2>1. Span(i + 1, Len(code) + Len(s) + 1, m, b, k) \in R \cup T
    BY <1>11
  <2>2. Awaits(d, u, t, m, Below(todo), b, k)
    BY <1>7
  <2> QED
    BY <1>2, <1>3, <1>8, <1>9, <2>1, <2>2
<1>13. \A R : Closes(todo, R \cup T, d, u, prog, Len(code) + 1, Below(todo))
  BY <1>1, TaskKinds, NothingCloses
<1> QED
  BY <1>1, <1>6, <1>10, <1>12, <1>13, PushTakes DEF d, u

\* A loop, with a child in the scope of the loop.
LEMMA LoopTakes ==
  ASSUME IInv, LaidOut, Calling, stmt \in DOMAIN prog, prog[stmt] \notin Leaf,
         NEW s \in Seq(Instr), code' = code \o s, NEW e \in Nat, NEW l \in Nat,
         NEW t \in Task, LoopTask(t), ScopeOf(t) = Scope(e, l),
         todo' = <<Stmt(First(stmt)), t>> \o Rest,
         UNCHANGED <<prog, failed, done>>,
         \A R, u, b, k : \A y, x \in Int :
           /\ Span(stmt + 1, Len(code) + Len(s) + 1, y, e, l) \in R
           /\ Awaits(code \o s, u, t, y, x, b, k)
           => Laid(R, code \o s, u, prog, Span(stmt, Len(code) + 1, x, b, k))
  PROVE  LaidOut'
<1>1. /\ stmt \in Nat /\ code \in Seq(Instr) /\ ~done
      /\ todo # << >> /\ todo \in Seq(Task) /\ Head(todo) = Stmt(stmt)
  BY AtCall
<1>2. Len(code) \in Nat /\ Len(s) \in Nat /\ Len(todo) \in Nat /\ Below(todo) \in Int
  BY <1>1, LenProperties DEF Below
<1>3. PICK i \in Nat : i = stmt
  BY <1>1
<1>4. First(i) = i + 1 /\ First(i) \in Nat \ {0}
  BY DEF First
<1> DEFINE t1 == Stmt(First(i))
           p == <<t1, t>>
           m == 0 - Len(todo)
           d == code \o s
           u == p \o Tail(todo)
           r1 == Span(First(i), Len(d) + 1, m, e, l)
           T == {r1}
<1>5. t1 \in Task
  BY <1>4, TaskFacts
<1>6. p \in Seq(Task) /\ Len(p) = 2 /\ todo' = u
  BY <1>3, <1>5 DEF Rest
<1>7. /\ \A b, k : InScope(todo, Len(todo), b, k) => Awaits(d, u, t, m, Below(todo), b, k)
      /\ Awaits(d, u, t1, Len(d) + 1, m, e, l)
  <2> HIDE DEF t1
  <2> QED
    BY <1>1, <1>5, PushedAwaits
<1>8. Len(d) = Len(code) + Len(s) /\ Len(d) + 1 \in Int /\ m \in Int
  <2>1. Len(d) = Len(code) + Len(s)
    BY <1>1, ConcatProperties
  <2> QED
    BY <1>2, <2>1
<1>9. d = code \o s
  OBVIOUS
<1> HIDE DEF p, d, u, m
<1>10. T \subseteq Spans /\ \A r \in T : Open(d, u, r)
  <2>1. r1.at = First(i) /\ r1.from = Len(d) + 1 /\ r1.to = m /\ r1.brk = e /\ r1.cont = l
        /\ r1 \in Spans
    BY <1>4, <1>8 DEF Span, Spans
  <2> HIDE DEF r1
  <2>2. Open(d, u, r1)
    BY <1>7, <2>1 DEF Open
  <2> QED
    BY <2>1, <2>2
<1>11. Span(i + 1, Len(code) + Len(s) + 1, m, e, l) \in T
  BY <1>4, <1>8
<1> HIDE DEF T
<1>12. ASSUME NEW R
       PROVE  Opens(todo, R \cup T, d, u, prog, Len(code) + 1, Below(todo))
  <2> SUFFICES ASSUME NEW b \in Nat \cup {NoLabel}, NEW k \in Nat \cup {NoLabel},
                      InScope(todo, Len(todo), b, k)
               PROVE  Laid(R \cup T, d, u, prog, Span(i, Len(code) + 1, Below(todo), b, k))
    BY <1>1, <1>3, TaskInjective DEF Opens
  <2>1. Span(i + 1, Len(code) + Len(s) + 1, m, e, l) \in R \cup T
    BY <1>11
  <2>2. Awaits(d, u, t, m, Below(todo), b, k)
    BY <1>7
  <2> QED
    BY <1>2, <1>3, <1>8, <1>9, <2>1, <2>2
<1>13. \A R : Closes(todo, R \cup T, d, u, prog, Len(code) + 1, Below(todo))
  BY <1>1, TaskKinds, NothingCloses
<1> QED
  BY <1>1, <1>6, <1>10, <1>12, <1>13, PushTakes DEF d, u

LEMMA GenIfLaid == IInv /\ LaidOut /\ GenIf => LaidOut'
<1> SUFFICES ASSUME IInv, LaidOut, GenIf PROVE LaidOut'
  OBVIOUS
<1> DEFINE both == prog[stmt] = "if_else"
           l == nlabels
           els  == IF both THEN l + 1 ELSE NoLabel
           end  == IF both THEN l + 2 ELSE l + 1
           to   == IF els = NoLabel THEN end ELSE els
           s    == <<CBr(stmt, l, to), Label(l)>>
           t    == EndThen(stmt, els, end)
<1>1. /\ Calling /\ code' = code \o s
      /\ prog[stmt] \in {"if", "if_else"} /\ stmt \in DOMAIN prog
      /\ UNCHANGED <<prog, failed, done>>
      /\ todo' = <<Stmt(First(stmt)), t>> \o Rest
  BY DEF GenIf, Visiting, Emit, IfHead
<1>2. /\ stmt \in Nat /\ code \in Seq(Instr) /\ l \in Nat /\ prog[stmt] \notin Leaf
  BY <1>1, AtCall DEF Leaf
<1>3. els \in Nat \cup {NoLabel} /\ end \in Nat /\ to \in Nat
  BY <1>2
<1>4. t \in Task /\ ~LoopTask(t)
  BY <1>2, <1>3, TaskFacts, TaskKinds DEF LoopTask
<1>5. s \in Seq(Instr) /\ Len(s) = 2 /\ s[1] = CBr(stmt, l, to) /\ s[2] = Label(l)
      /\ 1 \in 1..Len(s) /\ 2 \in 1..Len(s)
  <2>1. CBr(stmt, l, to) \in Instr /\ Label(l) \in Instr
    BY <1>2, <1>3, InstrTypes
  <2> QED
    BY <2>1
<1>6. /\ \/ prog[stmt] = "if" /\ els = NoLabel /\ to = end
         \/ prog[stmt] = "if_else" /\ els \in Nat /\ to = els
  <2>1. NoLabel \notin Nat /\ l + 1 \in Nat
    BY <1>2, ProgramsAssumption
  <2>2. CASE prog[stmt] = "if_else"
    BY <2>1, <2>2
  <2>3. CASE prog[stmt] = "if"
    BY <2>1, <2>3
  <2> QED
    BY <1>1, <2>2, <2>3
<1> HIDE DEF s, els, end, to, l
<1>7. At(code \o s, Len(code) + 1, CBr(stmt, l, to)) /\ At(code \o s, Len(code) + 2, Label(l))
  BY <1>2, <1>5, AtStays
<1>8. Len(code) \in Nat /\ (Len(code) + 1) + 1 = Len(code) + 2
      /\ (Len(code) + 1) + 2 = Len(code) + Len(s) + 1
  BY <1>2, <1>5, LenProperties
<1>9. ASSUME NEW R, NEW u, NEW b, NEW k, NEW y \in Int, NEW x \in Int,
             Span(stmt + 1, Len(code) + Len(s) + 1, y, b, k) \in R,
             Awaits(code \o s, u, t, y, x, b, k)
      PROVE  Laid(R, code \o s, u, prog, Span(stmt, Len(code) + 1, x, b, k))
  <2> DEFINE r == Span(stmt, Len(code) + 1, x, b, k)
             d == code \o s
  <2>1. r.at = stmt /\ r.from = Len(code) + 1 /\ r.to = x /\ r.brk = b /\ r.cont = k
    BY DEF Span
  <2>2. /\ At(d, r.from, CBr(r.at, l, to)) /\ At(d, r.from + 1, Label(l))
        /\ Span(r.at + 1, r.from + 2, y, r.brk, r.cont) \in R
        /\ Awaits(d, u, EndThen(r.at, els, end), y, r.to, r.brk, r.cont)
    BY <1>7, <1>8, <1>9, <2>1
  <2> HIDE DEF r, d
  <2>3. CASE prog[stmt] = "if" /\ els = NoLabel /\ to = end
    <3>1. LaidIf(R, d, u, prog, r)
      BY <1>2, <1>3, <2>1, <2>2, <2>3 DEF LaidIf
    <3> QED
      BY <3>1 DEF Laid, r, d
  <2>4. CASE prog[stmt] = "if_else" /\ els \in Nat /\ to = els
    <3>1. LaidIfElse(R, d, u, prog, r)
      BY <1>2, <1>3, <2>1, <2>2, <2>4 DEF LaidIfElse
    <3> QED
      BY <3>1 DEF Laid, r, d
  <2> QED
    BY <1>6, <2>3, <2>4
<1> HIDE DEF t
<1> QED
  BY <1>1, <1>2, <1>4, <1>5, <1>9, BranchTakes

LEMMA GenWhileLaid == IInv /\ LaidOut /\ GenWhile => LaidOut'
<1> SUFFICES ASSUME IInv, LaidOut, GenWhile PROVE LaidOut'
  OBVIOUS
<1> DEFINE l == nlabels
           b0 == nlabels + 1
           e == nlabels + 2
           s == <<Br(l), Label(l), CBr(stmt, b0, e), Label(b0)>>
           t == EndWhile(l, e)
<1>1. /\ Calling /\ code' = code \o s
      /\ prog[stmt] = "while" /\ stmt \in DOMAIN prog
      /\ UNCHANGED <<prog, failed, done>>
      /\ todo' = <<Stmt(First(stmt)), t>> \o Rest
  BY DEF GenWhile, Visiting, Emit, WhileHead
<1>2. /\ stmt \in Nat /\ code \in Seq(Instr) /\ prog[stmt] \notin Leaf
      /\ l \in Nat /\ b0 \in Nat /\ e \in Nat
  BY <1>1, AtCall DEF Leaf
<1> HIDE DEF l, b0, e
<1>3. t \in Task /\ LoopTask(t) /\ ScopeOf(t) = Scope(e, l)
  <2>1. t \in Task /\ t.task = "while" /\ t.lbl[1] = l /\ t.lbl[2] = e
    BY <1>2, TaskFacts DEF EndWhile
  <2> QED
    BY <2>1 DEF LoopTask, ScopeOf
<1>4. /\ s \in Seq(Instr) /\ Len(s) = 4
      /\ s[1] = Br(l) /\ s[2] = Label(l) /\ s[3] = CBr(stmt, b0, e) /\ s[4] = Label(b0)
      /\ 1 \in 1..Len(s) /\ 2 \in 1..Len(s) /\ 3 \in 1..Len(s) /\ 4 \in 1..Len(s)
  <2>1. Br(l) \in Instr /\ Label(l) \in Instr /\ CBr(stmt, b0, e) \in Instr /\ Label(b0) \in Instr
    BY <1>2, InstrTypes
  <2> QED
    BY <2>1
<1> HIDE DEF s
<1>5. /\ At(code \o s, Len(code) + 1, Br(l)) /\ At(code \o s, Len(code) + 2, Label(l))
      /\ At(code \o s, Len(code) + 3, CBr(stmt, b0, e)) /\ At(code \o s, Len(code) + 4, Label(b0))
  BY <1>2, <1>4, AtStays
<1>6. Len(code) \in Nat /\ (Len(code) + 1) + 1 = Len(code) + 2
      /\ (Len(code) + 1) + 2 = Len(code) + 3 /\ (Len(code) + 1) + 3 = Len(code) + 4
      /\ (Len(code) + 1) + 4 = Len(code) + Len(s) + 1
  BY <1>2, <1>4, LenProperties
<1>7. ASSUME NEW R, NEW u, NEW b, NEW k, NEW y \in Int, NEW x \in Int,
             Span(stmt + 1, Len(code) + Len(s) + 1, y, e, l) \in R,
             Awaits(code \o s, u, t, y, x, b, k)
      PROVE  Laid(R, code \o s, u, prog, Span(stmt, Len(code) + 1, x, b, k))
  <2> DEFINE r == Span(stmt, Len(code) + 1, x, b, k)
             d == code \o s
  <2>1. r.at = stmt /\ r.from = Len(code) + 1 /\ r.to = x /\ r.brk = b /\ r.cont = k
    BY DEF Span
  <2>2. /\ At(d, r.from, Br(l)) /\ At(d, r.from + 1, Label(l))
        /\ At(d, r.from + 2, CBr(r.at, b0, e)) /\ At(d, r.from + 3, Label(b0))
        /\ Span(r.at + 1, r.from + 4, y, e, l) \in R
        /\ Awaits(d, u, EndWhile(l, e), y, r.to, r.brk, r.cont)
    BY <1>5, <1>6, <1>7, <2>1
  <2> HIDE DEF r, d
  <2>3. LaidWhile(R, d, u, prog, r)
    BY <1>1, <1>2, <2>1, <2>2 DEF LaidWhile
  <2> QED
    BY <2>3 DEF Laid, r, d
<1> HIDE DEF t
<1> QED
  BY <1>1, <1>2, <1>3, <1>4, <1>7, LoopTakes

LEMMA GenForLaid == IInv /\ LaidOut /\ GenFor => LaidOut'
<1> SUFFICES ASSUME IInv, LaidOut, GenFor PROVE LaidOut'
  OBVIOUS
<1> DEFINE l == nlabels
           b0 == nlabels + 1
           w == nlabels + 2
           e == nlabels + 3
           s == <<Act(stmt), Br(l), Label(l), CBr(stmt, b0, e), Label(b0)>>
           t == EndFor(stmt, l, w, e)
<1>1. /\ Calling /\ code' = code \o s
      /\ prog[stmt] \in {"for", "forever", "for_step!"} /\ stmt \in DOMAIN prog
      /\ UNCHANGED <<prog, failed, done>>
      /\ todo' = <<Stmt(First(stmt)), t>> \o Rest
  BY DEF GenFor, Visiting, Emit, ForHead
<1>2. /\ stmt \in Nat /\ code \in Seq(Instr) /\ prog[stmt] \notin Leaf
      /\ l \in Nat /\ b0 \in Nat /\ w \in Nat /\ e \in Nat
  <2>1. stmt \in Nat /\ code \in Seq(Instr) /\ nlabels \in Nat
    BY <1>1, AtCall
  <2>2. prog[stmt] \notin Leaf
    BY <1>1 DEF Leaf
  <2> QED
    BY <2>1, <2>2
<1> HIDE DEF l, b0, w, e
<1>3. t \in Task /\ LoopTask(t) /\ ScopeOf(t) = Scope(e, w)
  <2>1. t \in Task /\ t.task = "for" /\ t.lbl[2] = w /\ t.lbl[3] = e
    BY <1>2, TaskFacts DEF EndFor
  <2> QED
    BY <2>1 DEF LoopTask, ScopeOf
<1>4. /\ s \in Seq(Instr) /\ Len(s) = 5
      /\ s[1] = Act(stmt) /\ s[2] = Br(l) /\ s[3] = Label(l)
      /\ s[4] = CBr(stmt, b0, e) /\ s[5] = Label(b0)
      /\ 1 \in 1..Len(s) /\ 2 \in 1..Len(s) /\ 3 \in 1..Len(s) /\ 4 \in 1..Len(s)
      /\ 5 \in 1..Len(s)
  <2>1. /\ Act(stmt) \in Instr /\ Br(l) \in Instr /\ Label(l) \in Instr
        /\ CBr(stmt, b0, e) \in Instr /\ Label(b0) \in Instr
    BY <1>2, InstrTypes
  <2> QED
    BY <2>1
<1> HIDE DEF s
<1>5. /\ At(code \o s, Len(code) + 1, Act(stmt)) /\ At(code \o s, Len(code) + 2, Br(l))
      /\ At(code \o s, Len(code) + 3, Label(l)) /\ At(code \o s, Len(code) + 4, CBr(stmt, b0, e))
      /\ At(code \o s, Len(code) + 5, Label(b0))
  BY <1>2, <1>4, AtStays
<1>6. Len(code) \in Nat /\ (Len(code) + 1) + 1 = Len(code) + 2
      /\ (Len(code) + 1) + 2 = Len(code) + 3 /\ (Len(code) + 1) + 3 = Len(code) + 4
      /\ (Len(code) + 1) + 4 = Len(code) + 5 /\ (Len(code) + 1) + 5 = Len(code) + Len(s) + 1
  BY <1>2, <1>4, LenProperties
<1>7. ASSUME NEW R, NEW u, NEW b, NEW k, NEW y \in Int, NEW x \in Int,
             Span(stmt + 1, Len(code) + Len(s) + 1, y, e, w) \in R,
             Awaits(code \o s, u, t, y, x, b, k)
      PROVE  Laid(R, code \o s, u, prog, Span(stmt, Len(code) + 1, x, b, k))
  <2> DEFINE r == Span(stmt, Len(code) + 1, x, b, k)
             d == code \o s
  <2>1. r.at = stmt /\ r.from = Len(code) + 1 /\ r.to = x /\ r.brk = b /\ r.cont = k
    BY DEF Span
  <2>2. /\ At(d, r.from, Act(r.at)) /\ At(d, r.from + 1, Br(l)) /\ At(d, r.from + 2, Label(l))
        /\ At(d, r.from + 3, CBr(r.at, b0, e)) /\ At(d, r.from + 4, Label(b0))
        /\ Span(r.at + 1, r.from + 5, y, e, w) \in R
        /\ Awaits(d, u, EndFor(r.at, l, w, e), y, r.to, r.brk, r.cont)
    BY <1>5, <1>6, <1>7, <2>1
  <2> HIDE DEF r, d
  <2>3. LaidFor(R, d, u, prog, r)
    BY <1>1, <1>2, <2>1, <2>2 DEF LaidFor
  <2> QED
    BY <2>3 DEF Laid, r, d
<1> HIDE DEF t
<1> QED
  BY <1>1, <1>2, <1>3, <1>4, <1>7, LoopTakes

\* A first task that closes a statement.
LEMMA EndTakes ==
  ASSUME IInv, LaidOut, ~done, todo # << >>, Head(todo).task # "stmt",
         NEW s \in Seq(Instr), code' = code \o s, todo' = Rest,
         UNCHANGED <<prog, failed, done>>,
         \A S : Closes(todo, S, code \o s, Tail(todo), prog,
                       Len(code) + 1, Len(code) + Len(s) + 1)
  PROVE  LaidOut'
<1>1. code \in Seq(Instr) /\ todo \in Seq(Task)
  BY DEF IInv, Sound, Piece, Tasks
<1>2. ASSUME NEW R, ~failed, Layout(R, code, todo, prog)
      PROVE  \E S : Layout(S, code \o s, Tail(todo), prog)
  BY <1>1, <1>2, EndLays
<1>3. ASSUME NEW R, ~failed, Layout(R, code, todo, prog)
      PROVE  \E S : Layout(S, code', todo', prog)
  BY <1>2, <1>3 DEF Rest
<1> QED
  BY <1>3, TakesTask

LEMMA GenAfterElseLaid == IInv /\ LaidOut /\ GenAfterElse => LaidOut'
<1> SUFFICES ASSUME IInv, LaidOut, GenAfterElse PROVE LaidOut'
  OBVIOUS
<1>1. Returning("else")
  BY DEF GenAfterElse
<1>2. /\ ~done /\ todo # << >> /\ Head(todo).task = "else" /\ Shaped(Head(todo))
      /\ code \in Seq(Instr)
  BY <1>1, AtReturn
<1>3. PICK m \in Nat : Head(todo) = EndElse(m)
  BY <1>2, Heads
<1> DEFINE s == <<Br(m), Label(m)>>
<1>4. code' = code \o s /\ todo' = Rest /\ UNCHANGED <<prog, failed, done>>
  <2>1. Head(todo).lbl[1] = m
    BY <1>3 DEF EndElse
  <2> QED
    BY <2>1 DEF GenAfterElse, Emit, ElseTail
<1>5. s \in Seq(Instr) /\ Len(s) = 2 /\ s[1] = Br(m) /\ s[2] = Label(m)
      /\ 1 \in 1..Len(s) /\ 2 \in 1..Len(s)
  <2>1. Br(m) \in Instr /\ Label(m) \in Instr
    BY InstrTypes
  <2> QED
    BY <2>1
<1> HIDE DEF s
<1> DEFINE d == code \o s
           y == Len(code) + 1
           x == Len(code) + Len(s) + 1
<1>6. At(d, y, Br(m)) /\ At(d, y + 1, Label(m)) /\ x = y + 2
  <2>1. At(d, Len(code) + 1, Br(m)) /\ At(d, Len(code) + 2, Label(m))
    BY <1>2, <1>5, AtStays
  <2>2. Len(code) \in Nat
    BY <1>2, LenProperties
  <2>3. y + 1 = Len(code) + 2 /\ x = y + 2
    BY <1>5, <2>2
  <2> QED
    BY <2>1, <2>3
<1> HIDE DEF d, y, x
<1>7. ASSUME NEW S PROVE Closes(todo, S, d, Tail(todo), prog, y, x)
  <2>1. /\ \A i, l, n : Head(todo) # EndThen(i, l, n)
        /\ \A l, e : Head(todo) # EndWhile(l, e)
        /\ \A i, l, w, e : Head(todo) # EndFor(i, l, w, e)
    BY <1>2, TaskKinds
  <2>2. \A n \in Nat : Head(todo) = EndElse(n) => n = m
    BY <1>3, TaskInjective
  <2> QED
    BY <1>6, <2>1, <2>2 DEF Closes
<1> QED
  BY <1>2, <1>4, <1>5, <1>7, EndTakes DEF d, y, x

LEMMA GenAfterWhileLaid == IInv /\ LaidOut /\ GenAfterWhile => LaidOut'
<1> SUFFICES ASSUME IInv, LaidOut, GenAfterWhile PROVE LaidOut'
  OBVIOUS
<1>1. Returning("while")
  BY DEF GenAfterWhile
<1>2. /\ ~done /\ todo # << >> /\ Head(todo).task = "while" /\ Shaped(Head(todo))
      /\ code \in Seq(Instr)
  BY <1>1, AtReturn
<1>3. PICK l \in Nat, e \in Nat : Head(todo) = EndWhile(l, e)
  BY <1>2, Heads
<1> DEFINE s == <<Br(l), Label(e)>>
<1>4. code' = code \o s /\ todo' = Rest /\ UNCHANGED <<prog, failed, done>>
  <2>1. Head(todo).lbl[1] = l /\ Head(todo).lbl[2] = e
    BY <1>3 DEF EndWhile
  <2> QED
    BY <2>1 DEF GenAfterWhile, Emit, WhileTail
<1>5. s \in Seq(Instr) /\ Len(s) = 2 /\ s[1] = Br(l) /\ s[2] = Label(e)
      /\ 1 \in 1..Len(s) /\ 2 \in 1..Len(s)
  <2>1. Br(l) \in Instr /\ Label(e) \in Instr
    BY InstrTypes
  <2> QED
    BY <2>1
<1> HIDE DEF s
<1> DEFINE d == code \o s
           y == Len(code) + 1
           x == Len(code) + Len(s) + 1
<1>6. At(d, y, Br(l)) /\ At(d, y + 1, Label(e)) /\ x = y + 2
  <2>1. At(d, Len(code) + 1, Br(l)) /\ At(d, Len(code) + 2, Label(e))
    BY <1>2, <1>5, AtStays
  <2>2. Len(code) \in Nat
    BY <1>2, LenProperties
  <2>3. y + 1 = Len(code) + 2 /\ x = y + 2
    BY <1>5, <2>2
  <2> QED
    BY <2>1, <2>3
<1> HIDE DEF d, y, x
<1>7. ASSUME NEW S PROVE Closes(todo, S, d, Tail(todo), prog, y, x)
  <2>1. /\ \A i, k, n : Head(todo) # EndThen(i, k, n)
        /\ \A n : Head(todo) # EndElse(n)
        /\ \A i, k, w, n : Head(todo) # EndFor(i, k, w, n)
    BY <1>2, TaskKinds
  <2>2. \A k, n \in Nat : Head(todo) = EndWhile(k, n) => k = l /\ n = e
    BY <1>3, TaskInjective
  <2> QED
    BY <1>6, <2>1, <2>2 DEF Closes
<1> QED
  BY <1>2, <1>4, <1>5, <1>7, EndTakes DEF d, y, x

LEMMA GenAfterForLaid == IInv /\ LaidOut /\ GenAfterFor => LaidOut'
<1> SUFFICES ASSUME IInv, LaidOut, GenAfterFor PROVE LaidOut'
  OBVIOUS
<1>1. Returning("for")
  BY DEF GenAfterFor
<1>2. /\ ~done /\ todo # << >> /\ Head(todo).task = "for" /\ Shaped(Head(todo))
      /\ code \in Seq(Instr)
  BY <1>1, AtReturn
<1>3. PICK i \in Nat, l \in Nat, w \in Nat, e \in Nat : Head(todo) = EndFor(i, l, w, e)
  BY <1>2, Heads
<1> DEFINE s == <<Br(w), Label(w), Step(i), Br(l), Label(e)>>
<1>4. /\ todo' = Rest /\ UNCHANGED <<prog, done>>
      /\ prog[i] = "for_step!" => failed' = TRUE
      /\ prog[i] # "for_step!" => code' = code \o s /\ failed' = failed
  <2>1. /\ Head(todo).at = i /\ Head(todo).lbl[1] = l
        /\ Head(todo).lbl[2] = w /\ Head(todo).lbl[3] = e
    BY <1>3 DEF EndFor
  <2> QED
    BY <2>1 DEF GenAfterFor, Emit, ForTail
<1>5. /\ s \in Seq(Instr) /\ Len(s) = 5
      /\ s[1] = Br(w) /\ s[2] = Label(w) /\ s[3] = Step(i) /\ s[4] = Br(l) /\ s[5] = Label(e)
      /\ 1 \in 1..Len(s) /\ 2 \in 1..Len(s) /\ 3 \in 1..Len(s) /\ 4 \in 1..Len(s)
      /\ 5 \in 1..Len(s)
  <2>1. /\ Br(w) \in Instr /\ Label(w) \in Instr /\ Step(i) \in Instr
        /\ Br(l) \in Instr /\ Label(e) \in Instr
    BY InstrTypes
  <2> QED
    BY <2>1
<1> HIDE DEF s
<1> DEFINE d == code \o s
           y == Len(code) + 1
           x == Len(code) + Len(s) + 1
<1>6. /\ At(d, y, Br(w)) /\ At(d, y + 1, Label(w)) /\ At(d, y + 2, Step(i))
      /\ At(d, y + 3, Br(l)) /\ At(d, y + 4, Label(e)) /\ x = y + 5
  <2>1. /\ At(d, Len(code) + 1, Br(w)) /\ At(d, Len(code) + 2, Label(w))
        /\ At(d, Len(code) + 3, Step(i)) /\ At(d, Len(code) + 4, Br(l))
        /\ At(d, Len(code) + 5, Label(e))
    BY <1>2, <1>5, AtStays
  <2>2. Len(code) \in Nat
    BY <1>2, LenProperties
  <2>3. /\ y + 1 = Len(code) + 2 /\ y + 2 = Len(code) + 3 /\ y + 3 = Len(code) + 4
        /\ y + 4 = Len(code) + 5 /\ x = y + 5
    BY <1>5, <2>2
  <2> QED
    BY <2>1, <2>3
<1> HIDE DEF d, y, x
<1>7. CASE prog[i] = "for_step!"
  BY <1>4, <1>7 DEF LaidOut
<1>8. ASSUME prog[i] # "for_step!", NEW S
      PROVE  Closes(todo, S, d, Tail(todo), prog, y, x)
  <2>1. /\ \A j, k, n : Head(todo) # EndThen(j, k, n)
        /\ \A n : Head(todo) # EndElse(n)
        /\ \A k, n : Head(todo) # EndWhile(k, n)
    BY <1>2, TaskKinds
  <2>2. \A j, k, v, n \in Nat : Head(todo) = EndFor(j, k, v, n) => j = i /\ k = l /\ v = w /\ n = e
    BY <1>3, TaskInjective
  <2>3. \A j, k, v, n \in Nat : Head(todo) = EndFor(j, k, v, n) =>
          /\ prog[j] # "for_step!"
          /\ At(d, y, Br(v)) /\ At(d, y + 1, Label(v)) /\ At(d, y + 2, Step(j))
          /\ At(d, y + 3, Br(k)) /\ At(d, y + 4, Label(n)) /\ x = y + 5
    BY <1>6, <1>8, <2>2
  <2> QED
    BY <2>1, <2>3 DEF Closes
<1>9. CASE prog[i] # "for_step!"
  BY <1>2, <1>4, <1>5, <1>8, <1>9, EndTakes DEF d, y, x
<1> QED
  BY <1>7, <1>9

LEMMA GenFailureLaid == IInv /\ LaidOut /\ GenFailure => LaidOut'
BY DEF GenFailure, LaidOut

LEMMA GenAfterThenLaid == IInv /\ LaidOut /\ GenAfterThen => LaidOut'
<1> SUFFICES ASSUME IInv, LaidOut, GenAfterThen PROVE LaidOut'
  OBVIOUS
<1>1. Returning("then") /\ UNCHANGED <<prog, failed, done>>
  BY DEF GenAfterThen
<1>2. /\ ~done /\ todo # << >> /\ Head(todo).task = "then" /\ Shaped(Head(todo))
      /\ code \in Seq(Instr) /\ todo \in Seq(Task)
  BY <1>1, AtReturn DEF IInv, Sound, Tasks
<1>3. PICK i \in Nat, els \in Nat \cup {NoLabel}, end \in Nat : Head(todo) = EndThen(i, els, end)
  BY <1>2, Heads
<1>4. Head(todo).lbl[1] = els /\ Head(todo).lbl[2] = end /\ stmt = i
  BY <1>3 DEF EndThen, stmt
<1>5. /\ \A n : Head(todo) # EndElse(n)
      /\ \A l, e : Head(todo) # EndWhile(l, e)
      /\ \A j, l, w, e : Head(todo) # EndFor(j, l, w, e)
      /\ \A j, l, n : Head(todo) = EndThen(j, l, n) => j = i /\ l = els /\ n = end
  BY <1>2, <1>3, TaskKinds, TaskInjective
<1>6. NoLabel \notin Nat
  BY ProgramsAssumption
<1> DEFINE to == IF els = NoLabel THEN end ELSE els
           s == <<Br(end), Label(to)>>
<1>7. /\ code' = code \o s
      /\ els = NoLabel => todo' = Rest
      /\ els # NoLabel => todo' = <<Stmt(Second(i)), EndElse(end)>> \o Tail(todo)
  BY <1>4 DEF GenAfterThen, Emit, ThenTail, Rest
<1>8. s \in Seq(Instr) /\ Len(s) = 2 /\ s[1] = Br(end) /\ s[2] = Label(to)
      /\ 1 \in 1..Len(s) /\ 2 \in 1..Len(s)
  <2>1. Br(end) \in Instr /\ Label(to) \in Instr
    BY InstrTypes
  <2> QED
    BY <2>1
<1>9. (els = NoLabel => to = end) /\ (els # NoLabel => to = els /\ els \in Nat)
  OBVIOUS
<1> HIDE DEF s, to
<1> DEFINE d == code \o s
           y == Len(code) + 1
           x == Len(code) + Len(s) + 1
<1>10. At(d, y, Br(end)) /\ At(d, y + 1, Label(to)) /\ x = y + 2 /\ y \in Int
  <2>1. At(d, Len(code) + 1, Br(end)) /\ At(d, Len(code) + 2, Label(to))
    BY <1>2, <1>8, AtStays
  <2>2. Len(code) \in Nat
    BY <1>2, LenProperties
  <2>3. y + 1 = Len(code) + 2 /\ x = y + 2 /\ y \in Int
    BY <1>8, <2>2
  <2> QED
    BY <2>1, <2>3
<1>11. Len(d) + 1 = y + 2 /\ Len(d) + 1 \in Int
  <2>1. Len(code) \in Nat /\ Len(d) = Len(code) + Len(s)
    BY <1>2, <1>8, ConcatProperties, LenProperties
  <2> QED
    BY <1>8, <2>1
<1>12. y = Len(code) + 1 /\ d = code \o s /\ x = Len(code) + Len(s) + 1
  OBVIOUS
<1> HIDE DEF d, y, x
<1>13. CASE els = NoLabel
  <2>1. ASSUME NEW S PROVE Closes(todo, S, d, Tail(todo), prog, y, x)
    <3>1. \A j, n \in Nat : Head(todo) = EndThen(j, NoLabel, n) =>
             At(d, y, Br(n)) /\ At(d, y + 1, Label(n)) /\ x = y + 2
      BY <1>5, <1>9, <1>10, <1>13
    <3>2. \A j, l, n \in Nat : Head(todo) # EndThen(j, l, n)
      BY <1>5, <1>6, <1>13
    <3> QED
      BY <1>5, <3>1, <3>2 DEF Closes
  <2> QED
    BY <1>1, <1>2, <1>7, <1>8, <1>12, <1>13, <2>1, EndTakes
<1>14. CASE els # NoLabel
  <2>1. Second(i) \in Nat \ {0} /\ Second(i) = Later(prog, i)
    BY <1>1, <1>4, AfterThenTyped DEF Second, Later
  <2> DEFINE t1 == Stmt(Second(i))
             t2 == EndElse(end)
             p == <<t1, t2>>
             u == p \o Tail(todo)
             m == 0 - Len(todo)
             T == Child(todo, Second(i), Len(d) + 1, m)
  <2>2. t1 \in Task /\ t2 \in Task /\ ~LoopTask(t2)
    BY <2>1, TaskFacts, TaskKinds DEF LoopTask
  <2>3. p \in Seq(Task) /\ Len(p) = 2 /\ todo' = p \o Tail(todo)
    BY <1>7, <1>14, <2>2
  <2>4. \A b, k : InScope(todo, Len(todo), b, k) =>
           /\ Awaits(d, u, t2, m, Below(todo), b, k)
           /\ Awaits(d, u, t1, Len(d) + 1, m, b, k)
    <3> HIDE DEF t1, t2
    <3> QED
      BY <1>2, <2>2, PushedAwaits
  <2>5. m \in Int
    BY <1>2, LenProperties
  <2>6. u = p \o Tail(todo)
    OBVIOUS
  <2> HIDE DEF p, u, m
  <2>7. T \subseteq Spans /\ \A r \in T : Open(d, u, r)
    BY <1>11, <2>1, <2>4, <2>5, ChildFacts, ChildOpen
  <2>8. ASSUME NEW b \in Nat \cup {NoLabel}, NEW k \in Nat \cup {NoLabel},
               InScope(todo, Len(todo), b, k)
        PROVE  Span(Later(prog, i), y + 2, m, b, k) \in T
    <3>1. Span(Second(i), Len(d) + 1, m, b, k) \in T
      BY <1>11, <2>1, <2>5, <2>8, ChildFacts
    <3> QED
      BY <1>11, <2>1, <3>1
  <2> HIDE DEF T
  <2>9. ASSUME NEW R PROVE Closes(todo, R \cup T, d, u, prog, y, Below(todo))
    <3>1. \A j, l, n \in Nat : Head(todo) = EndThen(j, l, n) =>
            j = i /\ At(d, y, Br(n)) /\ At(d, y + 1, Label(l)) /\ n = end
      BY <1>5, <1>9, <1>10, <1>14
    <3>2. ASSUME NEW b \in Nat \cup {NoLabel}, NEW k \in Nat \cup {NoLabel},
                 InScope(todo, Len(todo), b, k)
          PROVE  \E z \in Int : /\ Span(Later(prog, i), y + 2, z, b, k) \in R \cup T
                                /\ Awaits(d, u, EndElse(end), z, Below(todo), b, k)
      BY <2>4, <2>5, <2>8, <3>2
    <3>3. \A j, n : Head(todo) # EndThen(j, NoLabel, n)
      BY <1>5, <1>14
    <3>4. \A j, l, n \in Nat : Head(todo) = EndThen(j, l, n) =>
            /\ At(d, y, Br(n)) /\ At(d, y + 1, Label(l))
            /\ \A b, k \in Nat \cup {NoLabel} : InScope(todo, Len(todo), b, k) =>
                 \E z \in Int : /\ Span(Later(prog, j), y + 2, z, b, k) \in R \cup T
                                /\ Awaits(d, u, EndElse(n), z, Below(todo), b, k)
      BY <3>1, <3>2
    <3> QED
      BY <1>5, <3>3, <3>4 DEF Closes
  <2>10. \A R : Opens(todo, R \cup T, d, u, prog, y, Below(todo))
    BY <1>2, NothingOpens
  <2> QED
    BY <1>1, <1>2, <1>7, <1>8, <1>12, <2>3, <2>6, <2>7, <2>9, <2>10, PushTakes
<1> QED
  BY <1>13, <1>14

\* At the end nothing is open, and nothing is awaited.
LEMMA AllFinished ==
  ASSUME NEW c, NEW d, NEW g, NEW R, Layout(R, c, << >>, g), Len(c) \in Nat,
         \A y, ins : At(c, y, ins) => At(d, y, ins),
         Len(d) = Len(c) \/ At(d, Len(c) + 1, Ret(0))
  PROVE  Finished(R, d, g)
<1> DEFINE q == << >>
<1>1. Len(q) = 0
  OBVIOUS
<1> HIDE DEF q
<1>2. /\ \A u, t, y, x, b, k : ~Awaits(u, q, t, y, x, b, k)
      /\ \A u, r : ~Open(u, q, r)
  BY <1>1 DEF Awaits, Open
<1>3. Lev(c, q, 0) = Len(c) + 1
  BY <1>1 DEF Lev
<1>4. /\ R \subseteq Spans /\ \A r \in R : Open(c, q, r) \/ Laid(R, c, q, g, r)
      /\ Span(1, 1, Lev(c, q, 0), NoLabel, NoLabel) \in R
  BY DEF Layout, q
<1>5. ASSUME NEW r \in R PROVE Laid(R, d, q, g, r)
  <2>1. Laid(R, c, q, g, r)
    BY <1>2, <1>4
  <2>2. LaidLeaf(c, g, r) => LaidLeaf(d, g, r)
    BY DEF LaidLeaf
  <2>3. LaidIf(R, c, q, g, r) => LaidIf(R, d, q, g, r)
    BY <1>2 DEF LaidIf
  <2>4. LaidIfElse(R, c, q, g, r) => LaidIfElse(R, d, q, g, r)
    BY <1>2 DEF LaidIfElse, LaidElse
  <2>5. LaidWhile(R, c, q, g, r) => LaidWhile(R, d, q, g, r)
    BY <1>2 DEF LaidWhile
  <2>6. LaidFor(R, c, q, g, r) => LaidFor(R, d, q, g, r)
    BY <1>2 DEF LaidFor
  <2> QED
    BY <2>1, <2>2, <2>3, <2>4, <2>5, <2>6 DEF Laid
<1>6. Len(c) + 1 \in Int /\ (Len(c) + 1 = Len(d) + 1 \/ At(d, Len(c) + 1, Ret(0)))
  OBVIOUS
<1> QED
  BY <1>3, <1>4, <1>5, <1>6 DEF Finished, q

LEMMA GenFuncEndLaid == IInv /\ LaidOut /\ GenFuncEnd => LaidOut'
<1> SUFFICES ASSUME IInv, LaidOut, GenFuncEnd PROVE LaidOut'
  OBVIOUS
<1>1. /\ ~done /\ todo = << >> /\ done' = TRUE /\ UNCHANGED <<prog, failed>>
      /\ code' = code \o <<Ret(0)>> \/ code' = code
  BY DEF GenFuncEnd, Emit
<1>2. code \in Seq(Instr)
  BY DEF IInv, Sound, Piece
<1>3. PICK d : d = code'
  OBVIOUS
<1>4. Len(code) \in Nat
  BY <1>2, LenProperties
<1>5. /\ \A y, ins : At(code, y, ins) => At(d, y, ins)
      /\ Len(d) = Len(code) \/ At(d, Len(code) + 1, Ret(0))
  <2>1. CASE code' = code
    BY <1>3, <2>1
  <2>2. CASE code' = code \o <<Ret(0)>>
    <3> DEFINE s == <<Ret(0)>>
    <3>1. s \in Seq(Instr) /\ 1 \in 1..Len(s) /\ s[1] = Ret(0)
      BY InstrTypes
    <3> HIDE DEF s
    <3>2. /\ \A y, ins : At(code, y, ins) => At(code \o s, y, ins)
          /\ At(code \o s, Len(code) + 1, Ret(0))
      BY <1>2, <3>1, AtStays
    <3> QED
      BY <1>3, <2>2, <3>2 DEF s
  <2> QED
    BY <1>1, <2>1, <2>2
<1>6. ASSUME ~failed PROVE \E R : Finished(R, d, prog)
  <2>1. PICK R : Layout(R, code, << >>, prog)
    BY <1>1, <1>6 DEF LaidOut
  <2> QED
    BY <1>4, <1>5, <2>1, AllFinished
<1> QED
  BY <1>1, <1>3, <1>6 DEF LaidOut

LEMMA NextLaid == IInv /\ ScopesMatchLoops /\ LaidOut /\ [Next]_vars => LaidOut'
<1> SUFFICES ASSUME IInv, ScopesMatchLoops, LaidOut, [Next]_vars PROVE LaidOut'
  OBVIOUS
<1>1. CASE UNCHANGED vars
  BY <1>1 DEF vars, LaidOut
<1> QED
  BY <1>1, GenActLaid, GenRetLaid, GenJumpLaid, GenBlockLaid, GenIfLaid, GenAfterThenLaid,
     GenAfterElseLaid, GenWhileLaid, GenAfterWhileLaid, GenForLaid, GenAfterForLaid,
     GenFailureLaid, GenFuncEndLaid DEF Next, GenStmt

-----------------------------------------------------------------------------
(***************************************************************************)
(* Running the code between two visible points.  Positions are the same    *)
(* when moving over labels and branches does not tell them apart: no set   *)
(* that every move keeps contains one of them only.                        *)
(***************************************************************************)
Moves(c, p, o) ==
  \/ o = p + 1 /\ \E l \in Nat : At(c, p, Label(l))
  \/ \E l \in Nat : At(c, p, Br(l)) /\ At(c, o, Label(l))

Kept(c, S) == \A p, o \in Int : Moves(c, p, o) => (p \in S <=> o \in S)

Same(c, p, o) == \A S \in SUBSET Int : Kept(c, S) => (p \in S <=> o \in S)

Still(c, p) == \A o : ~Moves(c, p, o)

\* Label l is there, and leads to p.
Leads(c, l, p) == \E o \in Int : At(c, o, Label(l)) /\ Same(c, o, p)

LEMMA SameLaws ==
  ASSUME NEW c
  PROVE  /\ \A p : Same(c, p, p)
         /\ \A p, o : Same(c, p, o) => Same(c, o, p)
         /\ \A p, o, z : Same(c, p, o) /\ Same(c, o, z) => Same(c, p, z)
BY DEF Same

LEMMA MovesSame ==
  ASSUME NEW c, NEW p \in Int, NEW o \in Int, Moves(c, p, o)
  PROVE  Same(c, p, o)
BY DEF Same, Kept

LEMMA PastLabel ==
  ASSUME NEW c, Len(c) \in Nat, NEW p, NEW l \in Nat, At(c, p, Label(l))
  PROVE  p \in Int /\ Same(c, p, p + 1) /\ Leads(c, l, p + 1)
<1>1. p \in Int /\ p + 1 \in Int
  BY AtIn
<1>2. Moves(c, p, p + 1)
  BY DEF Moves
<1>3. Same(c, p, p + 1)
  BY <1>1, <1>2, MovesSame
<1> QED
  BY <1>1, <1>3 DEF Leads

LEMMA LabelLeads ==
  ASSUME NEW c, Len(c) \in Nat, NEW p \in Int, NEW z \in Int, z = p + 1,
         NEW l \in Nat, At(c, p, Label(l))
  PROVE  Leads(c, l, z) /\ Same(c, p, z)
BY PastLabel

LEMMA PastBranch ==
  ASSUME NEW c, Len(c) \in Nat, NEW p, NEW l \in Nat, At(c, p, Br(l)), NEW z, Leads(c, l, z)
  PROVE  p \in Int /\ Same(c, p, z)
<1>1. PICK o \in Int : At(c, o, Label(l)) /\ Same(c, o, z)
  BY DEF Leads
<1>2. p \in Int
  BY AtIn
<1>3. Moves(c, p, o)
  BY <1>1 DEF Moves
<1>4. Same(c, p, o)
  BY <1>1, <1>2, <1>3, MovesSame
<1> QED
  BY <1>1, <1>2, <1>4, SameLaws

\* Where an instruction that can be seen, or the end of the code, stands still.
LEMMA StillAt ==
  ASSUME NEW c, NEW p
  PROVE  /\ \A i, l, m : At(c, p, CBr(i, l, m)) => Still(c, p)
         /\ \A i : At(c, p, Ret(i)) \/ At(c, p, Act(i)) \/ At(c, p, Step(i)) => Still(c, p)
         /\ p \notin 1..Len(c) => Still(c, p)
<1>1. /\ \A l : Label(l).op = "label" /\ Br(l).op = "br"
      /\ \A i, l, m : CBr(i, l, m).op = "cbr"
      /\ \A i : Ret(i).op = "ret" /\ Act(i).op = "act" /\ Step(i).op = "step"
  BY DEF Label, Br, CBr, Ret, Act, Step
<1>2. \A o : Moves(c, p, o) => p \in 1..Len(c) /\ c[p].op \in {"label", "br"}
  BY <1>1 DEF Moves, At
<1>3. \A x : At(c, p, x) /\ x.op \notin {"label", "br"} => Still(c, p)
  BY <1>2 DEF Still, At
<1> QED
  BY <1>1, <1>2, <1>3 DEF Still

\* No label is there twice, so a move is the only one.
LEMMA OneMove ==
  ASSUME NEW c, Once(c), NEW p, NEW o, NEW z, Moves(c, p, o), Moves(c, p, z)
  PROVE  o = z
<1>1. \A l, m : At(c, p, Label(l)) => ~At(c, p, Br(m))
  BY DEF At, Label, Br
<1>2. ASSUME NEW l \in Nat, NEW m \in Nat, At(c, p, Br(l)), At(c, p, Br(m)) PROVE l = m
  <2>1. Br(l) = Br(m)
    BY <1>2 DEF At
  <2> QED
    BY <2>1 DEF Br
<1>3. ASSUME NEW l \in Nat, At(c, o, Label(l)), At(c, z, Label(l)) PROVE o = z
  <2>1. /\ o \in 1..Len(c) /\ z \in 1..Len(c) /\ c[o] = Label(l) /\ c[z] = Label(l)
    BY <1>3 DEF At
  <2>2. c[o].op = "label" /\ c[z].op = "label" /\ c[o].to = c[z].to
    BY <2>1 DEF Label
  <2> QED
    BY <2>1, <2>2 DEF Once
<1> QED
  BY <1>1, <1>2, <1>3 DEF Moves

\* A position the code stands still at is the same as no other such position.
LEMMA StillSame ==
  ASSUME NEW c, Once(c), NEW p \in Int, NEW o \in Int,
         Still(c, p), Still(c, o), Same(c, p, o)
  PROVE  p = o
<1> DEFINE Ahead(S) == \A x, y \in Int : x \in S /\ Moves(c, x, y) => y \in S
           F == {x \in Int : \A S \in SUBSET Int : x \in S /\ Ahead(S) => p \in S}
<1>1. Kept(c, F)
  <2> SUFFICES ASSUME NEW x \in Int, NEW y \in Int, Moves(c, x, y)
               PROVE  x \in F <=> y \in F
    BY DEF Kept
  <2>1. ASSUME x \in F PROVE y \in F
    <3> SUFFICES ASSUME NEW S \in SUBSET Int, y \in S, Ahead(S) PROVE p \in S
      OBVIOUS
    <3> DEFINE U == S \cup {x}
    <3>1. Ahead(U)
      BY OneMove
    <3>2. p \in U
      BY <2>1, <3>1
    <3>3. p # x
      BY DEF Still
    <3> QED
      BY <3>2, <3>3
  <2>2. ASSUME y \in F PROVE x \in F
    BY <2>2
  <2> QED
    BY <2>1, <2>2
<1>2. p \in F
  OBVIOUS
<1>3. o \in F
  <2>1. F \in SUBSET Int
    OBVIOUS
  <2> HIDE DEF F
  <2> QED
    BY <1>1, <1>2, <2>1 DEF Same
<1>4. Ahead({o})
  BY DEF Still
<1>5. p \in {o}
  BY <1>3, <1>4
<1> QED
  BY <1>5

-----------------------------------------------------------------------------
(***************************************************************************)
(* The finished code of each statement, as the execution sees it.          *)
(***************************************************************************)
Plain == {"act", "ret", "skip", "break", "continue"}
Loops == {"for", "forever"}

LEMMA LaidKinds ==
  ASSUME NEW R, NEW c, NEW g, NEW r, Laid(R, c, << >>, g, r)
  PROVE  /\ g[r.at] \in Plain \cup Loops \cup {"seq", "if", "if_else", "while"}
         /\ g[r.at] \in Plain => LaidLeaf(c, g, r)
         /\ g[r.at] = "seq" => LaidSeq(R, g, r)
         /\ g[r.at] = "if" => LaidIf(R, c, << >>, g, r)
         /\ g[r.at] = "if_else" => LaidIfElse(R, c, << >>, g, r)
         /\ g[r.at] = "while" => LaidWhile(R, c, << >>, g, r)
         /\ g[r.at] \in Loops => LaidFor(R, c, << >>, g, r)
<1>1. LaidLeaf(c, g, r) => g[r.at] \in Plain
  BY DEF LaidLeaf, Plain
<1>2. LaidSeq(R, g, r) => g[r.at] = "seq"
  BY DEF LaidSeq
<1>3. LaidIf(R, c, << >>, g, r) => g[r.at] = "if"
  BY DEF LaidIf
<1>4. LaidIfElse(R, c, << >>, g, r) => g[r.at] = "if_else"
  BY DEF LaidIfElse
<1>5. LaidWhile(R, c, << >>, g, r) => g[r.at] = "while"
  BY DEF LaidWhile
<1>6. LaidFor(R, c, << >>, g, r) => g[r.at] \in Loops
  <2> DEFINE q == << >>
  <2>1. Len(q) = 0
    OBVIOUS
  <2> HIDE DEF q
  <2>2. \A t, y, x, b, k : ~Awaits(c, q, t, y, x, b, k)
    BY <2>1 DEF Awaits
  <2>3. LaidFor(R, c, q, g, r) => g[r.at] \in Loops
    BY <2>2 DEF LaidFor, Loops
  <2> QED
    BY <2>3 DEF q
<1>7. /\ "seq" \notin Plain \cup Loops /\ "if" \notin Plain \cup Loops
      /\ "if_else" \notin Plain \cup Loops /\ "while" \notin Plain \cup Loops
      /\ Plain \cap Loops = {}
      /\ "seq" # "if" /\ "seq" # "if_else" /\ "seq" # "while"
      /\ "if" # "if_else" /\ "if" # "while" /\ "if_else" # "while"
  BY DEF Plain, Loops
<1> HIDE DEF Plain, Loops
<1> QED
  BY <1>1, <1>2, <1>3, <1>4, <1>5, <1>6, <1>7 DEF Laid

LEMMA NoneAwaited == \A c, t, y, x, b, k : ~Awaits(c, << >>, t, y, x, b, k)
<1> DEFINE q == << >>
<1>1. Len(q) = 0
  OBVIOUS
<1> HIDE DEF q
<1>2. \A c, t, y, x, b, k : ~Awaits(c, q, t, y, x, b, k)
  BY <1>1 DEF Awaits
<1> QED
  BY <1>2 DEF q

\* A branch to a label that is next.
LEMMA BranchOver ==
  ASSUME NEW c, Len(c) \in Nat, NEW y \in Int, NEW l \in Nat, NEW m \in Nat,
         At(c, y, Br(l)), At(c, y + 1, Label(m))
  PROVE  /\ Leads(c, m, y + 2)
         /\ l = m => Same(c, y, y + 2)
<1>1. Leads(c, m, (y + 1) + 1) /\ (y + 1) + 1 = y + 2
  BY PastLabel
<1> QED
  BY <1>1, PastBranch

LEMMA IfRuns ==
  ASSUME NEW R, NEW c, Len(c) \in Nat, NEW g, NEW r \in Spans, LaidIf(R, c, << >>, g, r)
  PROVE  \E t \in Nat, m \in Nat, y \in Int :
           /\ At(c, r.from, CBr(r.at, t, m)) /\ Leads(c, t, r.from + 2) /\ Leads(c, m, r.to)
           /\ Span(r.at + 1, r.from + 2, y, r.brk, r.cont) \in R /\ Same(c, y, r.to)
<1>1. PICK t \in Nat, m \in Nat, y \in Int :
        /\ At(c, r.from, CBr(r.at, t, m)) /\ At(c, r.from + 1, Label(t))
        /\ Span(r.at + 1, r.from + 2, y, r.brk, r.cont) \in R
        /\ At(c, y, Br(m)) /\ At(c, y + 1, Label(m)) /\ r.to = y + 2
  BY NoneAwaited DEF LaidIf
<1>2. Leads(c, t, r.from + 2)
  <2>1. r.from \in Int
    BY SpanFields
  <2>2. r.from + 1 \in Int /\ r.from + 2 \in Int /\ r.from + 2 = (r.from + 1) + 1
    BY <2>1
  <2> QED
    BY <1>1, <2>2, LabelLeads
<1>3. Leads(c, m, r.to) /\ Same(c, y, r.to)
  BY <1>1, BranchOver
<1> QED
  BY <1>1, <1>2, <1>3

LEMMA IfElseRuns ==
  ASSUME NEW R, NEW c, Len(c) \in Nat, NEW g, NEW r \in Spans, LaidIfElse(R, c, << >>, g, r)
  PROVE  \E t \in Nat, l \in Nat, y \in Int, v \in Int, z \in Int :
           /\ At(c, r.from, CBr(r.at, t, l)) /\ Leads(c, t, r.from + 2) /\ Leads(c, l, v)
           /\ Span(r.at + 1, r.from + 2, y, r.brk, r.cont) \in R /\ Same(c, y, r.to)
           /\ Span(Later(g, r.at), v, z, r.brk, r.cont) \in R /\ Same(c, z, r.to)
<1>1. PICK t \in Nat, l \in Nat, m \in Nat, y \in Int :
        /\ At(c, r.from, CBr(r.at, t, l)) /\ At(c, r.from + 1, Label(t))
        /\ Span(r.at + 1, r.from + 2, y, r.brk, r.cont) \in R
        /\ At(c, y, Br(m)) /\ At(c, y + 1, Label(l))
        /\ LaidElse(R, c, << >>, g, r, m, y + 2)
  BY NoneAwaited DEF LaidIfElse
<1>2. PICK z \in Int :
        /\ Span(Later(g, r.at), y + 2, z, r.brk, r.cont) \in R
        /\ At(c, z, Br(m)) /\ At(c, z + 1, Label(m)) /\ r.to = z + 2
  BY <1>1, NoneAwaited DEF LaidElse
<1>3. Leads(c, t, r.from + 2)
  <2>1. r.from \in Int
    BY SpanFields
  <2>2. r.from + 1 \in Int /\ r.from + 2 \in Int /\ r.from + 2 = (r.from + 1) + 1
    BY <2>1
  <2> QED
    BY <1>1, <2>2, LabelLeads
<1>4. Leads(c, m, r.to) /\ Same(c, z, r.to)
  BY <1>2, BranchOver
<1>5. Leads(c, l, y + 2) /\ y + 2 \in Int
  BY <1>1, BranchOver
<1>6. Same(c, y, r.to)
  BY <1>1, <1>4, PastBranch
<1> QED
  BY <1>1, <1>2, <1>3, <1>4, <1>5, <1>6

LEMMA WhileRuns ==
  ASSUME NEW R, NEW c, Len(c) \in Nat, NEW g, NEW r \in Spans, LaidWhile(R, c, << >>, g, r)
  PROVE  \E l \in Nat, b \in Nat, e \in Nat, y \in Int :
           /\ Same(c, r.from, r.from + 2) /\ At(c, r.from + 2, CBr(r.at, b, e))
           /\ Leads(c, b, r.from + 4) /\ Leads(c, e, r.to) /\ Leads(c, l, r.from + 2)
           /\ Span(r.at + 1, r.from + 4, y, e, l) \in R /\ Same(c, y, r.from + 2)
<1>1. PICK l \in Nat, b \in Nat, e \in Nat, y \in Int :
        /\ At(c, r.from, Br(l)) /\ At(c, r.from + 1, Label(l))
        /\ At(c, r.from + 2, CBr(r.at, b, e)) /\ At(c, r.from + 3, Label(b))
        /\ Span(r.at + 1, r.from + 4, y, e, l) \in R
        /\ At(c, y, Br(l)) /\ At(c, y + 1, Label(e)) /\ r.to = y + 2
  BY NoneAwaited DEF LaidWhile
<1>2. r.from \in Int
  BY SpanFields
<1>3. Leads(c, l, r.from + 2) /\ Same(c, r.from, r.from + 2)
  BY <1>1, <1>2, BranchOver
<1>4. Leads(c, b, r.from + 4)
  <2>1. r.from + 3 \in Int /\ r.from + 4 \in Int /\ r.from + 4 = (r.from + 3) + 1
    BY <1>2
  <2> QED
    BY <1>1, <2>1, LabelLeads
<1>5. Leads(c, e, r.to)
  BY <1>1, BranchOver
<1>6. Same(c, y, r.from + 2)
  BY <1>1, <1>3, PastBranch
<1> QED
  BY <1>1, <1>3, <1>4, <1>5, <1>6

LEMMA ForRuns ==
  ASSUME NEW R, NEW c, Len(c) \in Nat, NEW g, NEW r \in Spans, LaidFor(R, c, << >>, g, r)
  PROVE  \E s \in Nat, b \in Nat, e \in Nat, y \in Int, v \in Int :
           /\ At(c, r.from, Act(r.at)) /\ Same(c, r.from + 1, r.from + 3)
           /\ At(c, r.from + 3, CBr(r.at, b, e))
           /\ Leads(c, b, r.from + 5) /\ Leads(c, e, r.to) /\ Leads(c, s, v)
           /\ Span(r.at + 1, r.from + 5, y, e, s) \in R /\ Same(c, y, v)
           /\ At(c, v, Step(r.at)) /\ Same(c, v + 1, r.from + 3)
<1>1. PICK l \in Nat, b \in Nat, s \in Nat, e \in Nat, y \in Int :
        /\ At(c, r.from, Act(r.at)) /\ At(c, r.from + 1, Br(l))
        /\ At(c, r.from + 2, Label(l))
        /\ At(c, r.from + 3, CBr(r.at, b, e)) /\ At(c, r.from + 4, Label(b))
        /\ Span(r.at + 1, r.from + 5, y, e, s) \in R
        /\ At(c, y, Br(s)) /\ At(c, y + 1, Label(s)) /\ At(c, y + 2, Step(r.at))
        /\ At(c, y + 3, Br(l)) /\ At(c, y + 4, Label(e)) /\ r.to = y + 5
  BY NoneAwaited DEF LaidFor
<1>2. r.from \in Int
  BY SpanFields
<1>3. Leads(c, l, r.from + 3)
  <2>1. r.from + 2 \in Int /\ r.from + 3 \in Int /\ r.from + 3 = (r.from + 2) + 1
    BY <1>2
  <2> QED
    BY <1>1, <2>1, LabelLeads
<1>4. Same(c, r.from + 1, r.from + 3) /\ Same(c, y + 3, r.from + 3)
  BY <1>1, <1>3, PastBranch
<1>5. Leads(c, b, r.from + 5)
  <2>1. r.from + 4 \in Int /\ r.from + 5 \in Int /\ r.from + 5 = (r.from + 4) + 1
    BY <1>2
  <2> QED
    BY <1>1, <2>1, LabelLeads
<1>6. Leads(c, e, (y + 4) + 1) /\ (y + 4) + 1 = r.to
  BY <1>1, PastLabel
<1>7. Leads(c, s, y + 2) /\ Same(c, y, y + 2)
  BY <1>1, BranchOver
<1>8. y + 2 \in Int /\ (y + 2) + 1 = y + 3
  OBVIOUS
<1> QED
  BY <1>1, <1>3, <1>4, <1>5, <1>6, <1>7, <1>8

-----------------------------------------------------------------------------
(***************************************************************************)
(* Where the code of what the source has left to do is.  K[h] is the       *)
(* position at which the code goes on when h things are left.              *)
(***************************************************************************)
Work == [part : {"stmt", "cond", "step"}, at : Nat]

\* The code of w, which is statement r.at or a part of it, starts at z.
Entry(c, g, r, w, z) ==
  \/ w.part = "stmt" /\ Same(c, z, r.from)
  \/ w.part = "cond" /\ g[r.at] = "while" /\ Same(c, z, r.from + 2)
  \/ w.part = "cond" /\ g[r.at] \in Loops /\ Same(c, z, r.from + 3)
  \/ /\ w.part = "step" /\ g[r.at] \in Loops
     /\ \E y \in Int : /\ At(c, y, Step(r.at)) /\ Same(c, z, y)
                       /\ Same(c, y + 1, r.from + 3)

\* b and k lead to the end and to the next round of the loop that h is in.
Around(c, w, K, h, b, k) ==
  \/ b = NoLabel /\ \A m \in 1..(h - 1) : ~IsLoop(Height(w, m))
  \/ /\ b \in Nat /\ k \in Nat
     /\ \E m \in 1..(h - 1) :
          /\ IsLoop(Height(w, m)) /\ \A j \in (m + 1)..(h - 1) : ~IsLoop(Height(w, j))
          /\ Leads(c, k, K[m]) /\ Leads(c, b, K[m - 1])

\* The code of x starts at z, and goes on as what is below height h.
Fits(R, c, g, w, K, h, x, z) ==
  \E r \in R : /\ r.at = x.at /\ Entry(c, g, r, x, z)
               /\ Same(c, r.to, K[h - 1]) /\ Around(c, w, K, h, r.brk, r.cont)

Placed(R, c, g, w, K, h) == Fits(R, c, g, w, K, h, Height(w, h), K[h])

Stack(R, c, g, w, K) ==
  /\ w \in Seq(Work) /\ K \in [Nat -> Int]
  /\ K[0] = Len(c) + 1 \/ At(c, K[0], Ret(0))
  /\ \A h \in 1..Len(w) : Placed(R, c, g, w, K, h)

\* What is left of the source has its code, and the code is about to run it.
Runs(R, c, g, w, p) ==
  \E K : Stack(R, c, g, w, K) /\ p \in 1..(Len(c) + 1) /\ Same(c, p, K[Len(w)])

LEMMA AroundStays ==
  ASSUME NEW c, NEW w, NEW K, NEW v, NEW L, NEW h \in Nat,
         \A m \in 1..(h - 1) : Height(v, m) = Height(w, m),
         \A m \in 0..(h - 1) : L[m] = K[m],
         NEW b, NEW k, Around(c, w, K, h, b, k)
  PROVE  Around(c, v, L, h, b, k)
<1>1. CASE b = NoLabel /\ \A m \in 1..(h - 1) : ~IsLoop(Height(w, m))
  BY <1>1 DEF Around
<1>2. CASE b \in Nat /\ k \in Nat /\ \E m \in 1..(h - 1) :
          /\ IsLoop(Height(w, m)) /\ \A j \in (m + 1)..(h - 1) : ~IsLoop(Height(w, j))
          /\ Leads(c, k, K[m]) /\ Leads(c, b, K[m - 1])
  <2>1. PICK m \in 1..(h - 1) :
          /\ IsLoop(Height(w, m)) /\ \A j \in (m + 1)..(h - 1) : ~IsLoop(Height(w, j))
          /\ Leads(c, k, K[m]) /\ Leads(c, b, K[m - 1])
    BY <1>2
  <2>2. \A j \in (m + 1)..(h - 1) : j \in 1..(h - 1)
    OBVIOUS
  <2>3. m \in 0..(h - 1) /\ m - 1 \in 0..(h - 1)
    OBVIOUS
  <2>4. L[m] = K[m] /\ L[m - 1] = K[m - 1]
    BY <2>3
  <2>5. \A j \in (m + 1)..(h - 1) : ~IsLoop(Height(v, j))
    BY <2>1, <2>2
  <2>6. IsLoop(Height(v, m)) /\ Leads(c, k, L[m]) /\ Leads(c, b, L[m - 1])
    BY <2>1, <2>4
  <2> QED
    BY <1>2, <2>5, <2>6 DEF Around
<1> QED
  BY <1>1, <1>2 DEF Around

LEMMA FitsStays ==
  ASSUME NEW R, NEW c, NEW g, NEW w, NEW K, NEW v, NEW L, NEW h \in Nat, h >= 1,
         \A m \in 1..(h - 1) : Height(v, m) = Height(w, m),
         \A m \in 0..(h - 1) : L[m] = K[m],
         NEW x, NEW z, Fits(R, c, g, w, K, h, x, z)
  PROVE  Fits(R, c, g, v, L, h, x, z)
<1>1. PICK r \in R : /\ r.at = x.at /\ Entry(c, g, r, x, z)
                     /\ Same(c, r.to, K[h - 1]) /\ Around(c, w, K, h, r.brk, r.cont)
  BY DEF Fits
<1>2. Around(c, v, L, h, r.brk, r.cont)
  BY <1>1, AroundStays
<1>3. L[h - 1] = K[h - 1]
  OBVIOUS
<1> QED
  BY <1>1, <1>2, <1>3 DEF Fits

LEMMA PlacedStays ==
  ASSUME NEW R, NEW c, NEW g, NEW w, NEW K, NEW v, NEW L, NEW h \in Nat, h >= 1,
         \A m \in 1..h : Height(v, m) = Height(w, m), \A m \in 0..h : L[m] = K[m],
         Placed(R, c, g, w, K, h)
  PROVE  Placed(R, c, g, v, L, h)
<1>1. /\ h \in 1..h /\ h \in 0..h
      /\ \A m \in 1..(h - 1) : m \in 1..h
      /\ \A m \in 0..(h - 1) : m \in 0..h
  OBVIOUS
<1>2. Height(v, h) = Height(w, h) /\ L[h] = K[h]
  BY <1>1
<1>3. /\ \A m \in 1..(h - 1) : Height(v, m) = Height(w, m)
      /\ \A m \in 0..(h - 1) : L[m] = K[m]
  BY <1>1
<1>4. Fits(R, c, g, v, L, h, Height(w, h), K[h])
  BY <1>3, FitsStays DEF Placed
<1> QED
  BY <1>2, <1>4 DEF Placed

\* Some things are done with: m of them are left.
LEMMA StackCut ==
  ASSUME NEW R, NEW c, NEW g, NEW w, NEW K, Stack(R, c, g, w, K),
         NEW m \in 0..Len(w), NEW v \in Seq(Work), Len(v) = m,
         \A h \in 1..m : Height(v, h) = Height(w, h)
  PROVE  Stack(R, c, g, v, K)
<1>1. Len(w) \in Nat
  BY LenProperties DEF Stack
<1>2. ASSUME NEW h \in 1..m PROVE Placed(R, c, g, v, K, h)
  <2>1. h \in 1..Len(w) /\ h \in Nat /\ h >= 1 /\ \A j \in 1..h : j \in 1..m
    BY <1>1
  <2>2. Placed(R, c, g, w, K, h)
    BY <2>1 DEF Stack
  <2>3. \A j \in 1..h : Height(v, j) = Height(w, j)
    BY <2>1
  <2> QED
    BY <2>1, <2>2, <2>3, PlacedStays
<1> QED
  BY <1>2 DEF Stack

\* On the m lowest things, one more to do.
LEMMA StackOn ==
  ASSUME NEW R, NEW c, NEW g, NEW w, NEW K, Stack(R, c, g, w, K),
         NEW m \in 0..Len(w), NEW n, n = m + 1, NEW v \in Seq(Work), Len(v) = n,
         \A h \in 1..m : Height(v, h) = Height(w, h),
         NEW x, x = Height(v, n), NEW z \in Int, Fits(R, c, g, w, K, n, x, z)
  PROVE  \E L : Stack(R, c, g, v, L) /\ L[n] = z /\ \A h \in 0..m : L[h] = K[h]
<1> DEFINE L == [K EXCEPT ![n] = z]
<1>1. Len(w) \in Nat /\ m \in Nat /\ n \in Nat /\ n = m + 1 /\ K \in [Nat -> Int]
  BY LenProperties DEF Stack
<1>2. L \in [Nat -> Int] /\ L[n] = z /\ \A h \in 0..m : L[h] = K[h]
  BY <1>1
<1> SUFFICES Stack(R, c, g, v, L)
  BY <1>2
<1> HIDE DEF L
<1>3. ASSUME NEW h \in 1..m PROVE Placed(R, c, g, v, L, h)
  <2>1. /\ h \in 1..Len(w) /\ h \in Nat /\ h >= 1 /\ \A j \in 1..h : j \in 1..m
        /\ \A j \in 0..h : j \in 0..m
    BY <1>1
  <2>2. Placed(R, c, g, w, K, h)
    BY <2>1 DEF Stack
  <2>3. (\A j \in 1..h : Height(v, j) = Height(w, j)) /\ \A j \in 0..h : L[j] = K[j]
    BY <1>2, <2>1
  <2> QED
    BY <2>1, <2>2, <2>3, PlacedStays
<1>4. Placed(R, c, g, v, L, n)
  <2>1. n - 1 = m /\ n >= 1
    BY <1>1
  <2>2. /\ \A j \in 1..(n - 1) : Height(v, j) = Height(w, j)
        /\ \A j \in 0..(n - 1) : L[j] = K[j]
    BY <1>2, <2>1
  <2>3. Fits(R, c, g, v, L, n, x, z)
    BY <1>1, <2>1, <2>2, FitsStays
  <2> QED
    BY <1>2, <2>3 DEF Placed
<1>5. \A h \in 1..Len(v) : h \in 1..m \/ h = n
  BY <1>1
<1>6. L[0] = Len(c) + 1 \/ At(c, L[0], Ret(0))
  <2>1. 0 \in 0..m
    BY <1>1
  <2> QED
    BY <1>2, <2>1 DEF Stack
<1> QED
  BY <1>2, <1>3, <1>4, <1>5, <1>6 DEF Stack

LEMMA StackTop ==
  ASSUME NEW R, NEW c, NEW g, NEW w, NEW K, Stack(R, c, g, w, K),
         NEW n \in 1..(Len(w) + 1), NEW v \in Seq(Work), Len(v) = n,
         \A h \in 1..(n - 1) : Height(v, h) = Height(w, h),
         NEW x, x = Height(v, n), NEW z \in Int, Fits(R, c, g, w, K, n, x, z)
  PROVE  \E L : Stack(R, c, g, v, L) /\ L[n] = z /\ \A h \in 0..(n - 1) : L[h] = K[h]
<1>1. Len(w) \in Nat
  BY LenProperties DEF Stack
<1>2. PICK m : m = n - 1
  OBVIOUS
<1>3. m \in 0..Len(w) /\ n = m + 1
  BY <1>1, <1>2
<1>4. \A h \in 1..m : Height(v, h) = Height(w, h)
  BY <1>2
<1>5. \E L : Stack(R, c, g, v, L) /\ L[n] = z /\ \A h \in 0..m : L[h] = K[h]
  BY <1>3, <1>4, StackOn
<1> QED
  BY <1>2, <1>5

LEMMA TopOfStack ==
  ASSUME NEW R, NEW c, NEW g, NEW w, NEW K, Stack(R, c, g, w, K), w # << >>
  PROVE  /\ Len(w) \in Nat \ {0} /\ w \in Seq(Work) /\ Head(w) \in Work
         /\ K[Len(w)] \in Int /\ K[Len(w) - 1] \in Int
         /\ Fits(R, c, g, w, K, Len(w), Head(w), K[Len(w)])
<1>1. w \in Seq(Work) /\ K \in [Nat -> Int]
  BY DEF Stack
<1>2. Len(w) \in Nat \ {0} /\ Height(w, Len(w)) = Head(w)
  BY <1>1, EmptySeq, HeightsKept
<1>3. Len(w) \in 1..Len(w) /\ Len(w) - 1 \in Nat
  BY <1>2
<1>4. Placed(R, c, g, w, K, Len(w))
  BY <1>3 DEF Stack
<1> QED
  BY <1>1, <1>2, <1>3, <1>4, HeadTailProperties DEF Placed

LEMMA WorkHeights ==
  ASSUME NEW w \in Seq(Work), w # << >>
  PROVE  /\ Tail(w) \in Seq(Work) /\ Len(Tail(w)) = Len(w) - 1
         /\ \A h \in 1..(Len(w) - 1) : Height(Tail(w), h) = Height(w, h)
         /\ \A x \in Work :
              /\ <<x>> \o Tail(w) \in Seq(Work) /\ Len(<<x>> \o Tail(w)) = Len(w)
              /\ \A h \in 1..(Len(w) - 1) : Height(<<x>> \o Tail(w), h) = Height(w, h)
              /\ Height(<<x>> \o Tail(w), Len(w)) = x
         /\ \A x, y \in Work :
              /\ <<x, y>> \o Tail(w) \in Seq(Work) /\ Len(<<x, y>> \o Tail(w)) = Len(w) + 1
              /\ \A h \in 1..(Len(w) - 1) : Height(<<x, y>> \o Tail(w), h) = Height(w, h)
              /\ Height(<<x, y>> \o Tail(w), Len(w)) = y
              /\ Height(<<x, y>> \o Tail(w), Len(w) + 1) = x
<1> DEFINE n == Len(w)
<1>1. n \in Nat \ {0}
  BY HeightsKept, EmptySeq
<1>2. /\ Tail(w) \in Seq(Work) /\ Len(Tail(w)) = n - 1
      /\ \A h \in 1..(n - 1) : Height(Tail(w), h) = Height(w, h)
  <2> DEFINE p == << >>
             u == p \o Tail(w)
  <2>1. p \in Seq(Work) /\ Len(p) = 0 /\ u = Tail(w) /\ Tail(w) \in Seq(Work)
    BY EmptySeq, HeadTailProperties, ConcatEmptySeq
  <2> HIDE DEF p
  <2>2. Len(u) = Len(p) + n - 1 /\ \A h \in 1..(n - 1) : Height(u, h) = Height(w, h)
    BY <2>1, HeightsKept
  <2> HIDE DEF u
  <2> QED
    BY <1>1, <2>1, <2>2
<1>3. ASSUME NEW x \in Work
      PROVE  /\ <<x>> \o Tail(w) \in Seq(Work) /\ Len(<<x>> \o Tail(w)) = n
             /\ \A h \in 1..(n - 1) : Height(<<x>> \o Tail(w), h) = Height(w, h)
             /\ Height(<<x>> \o Tail(w), n) = x
  <2> DEFINE p == <<x>>
             u == p \o Tail(w)
  <2>1. p \in Seq(Work) /\ Len(p) = 1 /\ p[1] = x
    OBVIOUS
  <2> HIDE DEF p
  <2>2. /\ u \in Seq(Work) /\ Len(u) = Len(p) + n - 1
        /\ \A h \in 1..(n - 1) : Height(u, h) = Height(w, h)
        /\ \A h \in n..Len(u) : Height(u, h) = p[Len(u) + 1 - h]
    BY <2>1, HeightsKept
  <2> HIDE DEF u
  <2>3. Len(u) = n /\ n \in n..Len(u) /\ Len(u) + 1 - n = 1
    BY <1>1, <2>1, <2>2
  <2>4. Height(u, n) = x
    BY <2>1, <2>2, <2>3
  <2> QED
    BY <2>2, <2>3, <2>4 DEF u, p
<1>4. ASSUME NEW x \in Work, NEW y \in Work
      PROVE  /\ <<x, y>> \o Tail(w) \in Seq(Work) /\ Len(<<x, y>> \o Tail(w)) = n + 1
             /\ \A h \in 1..(n - 1) : Height(<<x, y>> \o Tail(w), h) = Height(w, h)
             /\ Height(<<x, y>> \o Tail(w), n) = y
             /\ Height(<<x, y>> \o Tail(w), n + 1) = x
  <2> DEFINE p == <<x, y>>
             u == p \o Tail(w)
  <2>1. p \in Seq(Work) /\ Len(p) = 2 /\ p[1] = x /\ p[2] = y
    OBVIOUS
  <2> HIDE DEF p
  <2>2. /\ u \in Seq(Work) /\ Len(u) = Len(p) + n - 1
        /\ \A h \in 1..(n - 1) : Height(u, h) = Height(w, h)
        /\ \A h \in n..Len(u) : Height(u, h) = p[Len(u) + 1 - h]
    BY <2>1, HeightsKept
  <2> HIDE DEF u
  <2>3. Len(u) = n + 1 /\ n \in n..Len(u) /\ n + 1 \in n..Len(u)
        /\ Len(u) + 1 - n = 2 /\ Len(u) + 1 - (n + 1) = 1
    BY <1>1, <2>1, <2>2
  <2>4. Height(u, n) = y /\ Height(u, n + 1) = x
    BY <2>1, <2>2, <2>3
  <2> QED
    BY <2>2, <2>3, <2>4 DEF u, p
<1> QED
  BY <1>2, <1>3, <1>4

\* The first thing is done with.
LEMMA RunsRest ==
  ASSUME NEW R, NEW c, NEW g, NEW w, NEW K, Stack(R, c, g, w, K), w # << >>,
         NEW p \in 1..(Len(c) + 1), Same(c, p, K[Len(w) - 1])
  PROVE  Runs(R, c, g, Tail(w), p)
<1>1. w \in Seq(Work) /\ Len(w) \in Nat \ {0}
  BY TopOfStack
<1>2. /\ Tail(w) \in Seq(Work) /\ Len(Tail(w)) = Len(w) - 1 /\ Len(w) - 1 \in 0..Len(w)
      /\ \A h \in 1..(Len(w) - 1) : Height(Tail(w), h) = Height(w, h)
  BY <1>1, WorkHeights
<1>3. Stack(R, c, g, Tail(w), K)
  BY <1>2, StackCut
<1> QED
  BY <1>2, <1>3 DEF Runs

\* Something else takes the place of the first.
LEMMA RunsInstead ==
  ASSUME NEW R, NEW c, NEW g, NEW w, NEW K, Stack(R, c, g, w, K), w # << >>,
         NEW x \in Work, NEW z \in Int, Fits(R, c, g, w, K, Len(w), x, z),
         NEW p \in 1..(Len(c) + 1), Same(c, p, z)
  PROVE  Runs(R, c, g, <<x>> \o Tail(w), p)
<1>1. w \in Seq(Work) /\ Len(w) \in 1..(Len(w) + 1)
  BY TopOfStack
<1>2. PICK v : v = <<x>> \o Tail(w)
  OBVIOUS
<1>3. /\ v \in Seq(Work) /\ Len(v) = Len(w) /\ x = Height(v, Len(w))
      /\ \A h \in 1..(Len(w) - 1) : Height(v, h) = Height(w, h)
  BY <1>1, <1>2, WorkHeights
<1>4. \E L : Stack(R, c, g, v, L) /\ L[Len(w)] = z
  BY <1>1, <1>3, StackTop
<1>5. Runs(R, c, g, v, p)
  BY <1>3, <1>4 DEF Runs
<1> QED
  BY <1>2, <1>5

\* Two things take the place of the first.
LEMMA RunsBoth ==
  ASSUME NEW R, NEW c, NEW g, NEW w, NEW K, Stack(R, c, g, w, K), w # << >>,
         NEW y \in Work, NEW s \in R, s.at = y.at, NEW z \in Int, Entry(c, g, s, y, z),
         Same(c, s.to, K[Len(w) - 1]), Around(c, w, K, Len(w), s.brk, s.cont),
         NEW x \in Work, NEW r \in R, r.at = x.at, NEW a \in Int, Entry(c, g, r, x, a),
         Same(c, r.to, z),
         \/ ~IsLoop(y) /\ r.brk = s.brk /\ r.cont = s.cont
         \/ /\ IsLoop(y) /\ r.brk \in Nat /\ r.cont \in Nat
            /\ Leads(c, r.cont, z) /\ Leads(c, r.brk, K[Len(w) - 1]),
         NEW p \in 1..(Len(c) + 1), Same(c, p, a)
  PROVE  Runs(R, c, g, <<x, y>> \o Tail(w), p)
<1> DEFINE u == <<y>> \o Tail(w)
           v == <<x, y>> \o Tail(w)
           m == Len(w) - 1
<1>1. w \in Seq(Work) /\ Len(w) \in Nat \ {0}
  BY TopOfStack
<1>2. m \in 0..Len(w) /\ m + 1 = Len(w) /\ m \in Nat
  BY <1>1
<1>3. /\ u \in Seq(Work) /\ Len(u) = Len(w)
      /\ \A h \in 1..m : Height(u, h) = Height(w, h)
      /\ y = Height(u, Len(w))
  BY <1>1, WorkHeights
<1>4. /\ v \in Seq(Work) /\ Len(v) = Len(w) + 1
      /\ \A h \in 1..m : Height(v, h) = Height(w, h)
      /\ Height(v, Len(w)) = y /\ Height(v, Len(w) + 1) = x
  BY <1>1, WorkHeights
<1> HIDE DEF u, v
<1>5. K[m] = K[Len(w) - 1] /\ Len(w) = m + 1
  BY <1>2
<1> HIDE DEF m
<1>6. Around(c, w, K, m + 1, s.brk, s.cont) /\ Fits(R, c, g, w, K, Len(w), y, z)
  BY <1>5 DEF Fits
<1>7. PICK L : Stack(R, c, g, u, L) /\ L[Len(w)] = z /\ \A h \in 0..m : L[h] = K[h]
  <2>1. Len(w) \in 1..(Len(w) + 1) /\ Len(w) - 1 = m
    BY <1>1, <1>2, <1>5
  <2>2. \A h \in 1..(Len(w) - 1) : Height(u, h) = Height(w, h)
    BY <1>3, <2>1
  <2>3. \E L : Stack(R, c, g, u, L) /\ L[Len(w)] = z /\ \A h \in 0..(Len(w) - 1) : L[h] = K[h]
    BY <1>3, <1>6, <2>1, <2>2, StackTop
  <2> QED
    BY <2>1, <2>3
<1>8. Around(c, u, L, m + 2, r.brk, r.cont)
  <2>1. (m + 2) - 1 = m + 1 /\ (m + 1) - 1 = m /\ m \in 0..m
    BY <1>2
  <2>2. CASE ~IsLoop(y) /\ r.brk = s.brk /\ r.cont = s.cont
    <3>1. /\ \A j \in 1..((m + 1) - 1) : Height(u, j) = Height(w, j)
          /\ \A j \in 0..((m + 1) - 1) : L[j] = K[j]
      BY <1>3, <1>7, <2>1
    <3>2. Around(c, u, L, m + 1, r.brk, r.cont)
      BY <1>2, <1>6, <2>2, <3>1, AroundStays
    <3>3. ~IsLoop(Height(u, m + 1))
      BY <1>3, <1>5, <2>2
    <3>4. CASE r.brk = NoLabel /\ \A j \in 1..((m + 1) - 1) : ~IsLoop(Height(u, j))
      <4>1. \A j \in 1..((m + 2) - 1) : j = m + 1 \/ j \in 1..((m + 1) - 1)
        BY <1>2
      <4>2. \A j \in 1..((m + 2) - 1) : ~IsLoop(Height(u, j))
        BY <3>3, <3>4, <4>1
      <4> QED
        BY <3>4, <4>2 DEF Around
    <3>5. CASE /\ r.brk \in Nat /\ r.cont \in Nat
               /\ \E j \in 1..((m + 1) - 1) :
                    /\ IsLoop(Height(u, j))
                    /\ \A i \in (j + 1)..((m + 1) - 1) : ~IsLoop(Height(u, i))
                    /\ Leads(c, r.cont, L[j]) /\ Leads(c, r.brk, L[j - 1])
      <4>1. PICK j \in 1..((m + 1) - 1) :
                    /\ IsLoop(Height(u, j))
                    /\ \A i \in (j + 1)..((m + 1) - 1) : ~IsLoop(Height(u, i))
                    /\ Leads(c, r.cont, L[j]) /\ Leads(c, r.brk, L[j - 1])
        BY <3>5
      <4>2. /\ j \in 1..((m + 2) - 1)
            /\ \A i \in (j + 1)..((m + 2) - 1) : i = m + 1 \/ i \in (j + 1)..((m + 1) - 1)
        BY <1>2
      <4>3. \A i \in (j + 1)..((m + 2) - 1) : ~IsLoop(Height(u, i))
        BY <3>3, <4>1, <4>2
      <4> QED
        BY <3>5, <4>1, <4>2, <4>3 DEF Around
    <3> QED
      BY <3>2, <3>4, <3>5 DEF Around
  <2>3. CASE /\ IsLoop(y) /\ r.brk \in Nat /\ r.cont \in Nat
             /\ Leads(c, r.cont, z) /\ Leads(c, r.brk, K[Len(w) - 1])
    <3>1. /\ m + 1 \in 1..((m + 2) - 1) /\ IsLoop(Height(u, m + 1))
          /\ \A i \in ((m + 1) + 1)..((m + 2) - 1) : ~IsLoop(Height(u, i))
      BY <1>2, <1>3, <1>5, <2>3
    <3>2. L[m] = K[Len(w) - 1]
      BY <1>5, <1>7, <2>1
    <3>3. Leads(c, r.cont, L[m + 1]) /\ Leads(c, r.brk, L[(m + 1) - 1])
      BY <1>5, <1>7, <2>1, <2>3, <3>2
    <3> QED
      BY <2>3, <3>1, <3>3 DEF Around
  <2> QED
    BY <2>2, <2>3
<1>9. /\ Len(w) \in 0..Len(u) /\ Len(v) = m + 2 /\ m + 2 = Len(w) + 1
      /\ \A h \in 1..Len(w) : h = Len(w) \/ h \in 1..m
  BY <1>2, <1>3, <1>4, <1>5
<1>10. \A h \in 1..Len(w) : Height(v, h) = Height(u, h)
  BY <1>3, <1>4, <1>9
<1>11. x = Height(v, m + 2) /\ Fits(R, c, g, u, L, m + 2, x, a)
  <2>1. (m + 2) - 1 = Len(w)
    BY <1>2, <1>5
  <2> QED
    BY <1>4, <1>7, <1>8, <1>9, <2>1 DEF Fits
<1>12. PICK M : Stack(R, c, g, v, M) /\ M[m + 2] = a
  BY <1>4, <1>7, <1>9, <1>10, <1>11, StackOn
<1>13. Runs(R, c, g, v, p)
  BY <1>9, <1>12 DEF Runs
<1> QED
  BY <1>13 DEF v

-----------------------------------------------------------------------------
(***************************************************************************)
(* The thing the source does next, and the code that is about to do it.    *)
(***************************************************************************)
Ready(R, c, g, w, K, p) ==
  /\ Len(c) \in Nat /\ Once(c) /\ Finished(R, c, g)
  /\ Stack(R, c, g, w, K) /\ p \in 1..(Len(c) + 1) /\ Same(c, p, K[Len(w)])

\* r is the span of the first thing in w, and it is at p.
AtFirst(R, c, g, w, K, p, r) ==
  /\ w # << >> /\ Head(w).at = r.at /\ Entry(c, g, r, Head(w), p)
  /\ Same(c, r.to, K[Len(w) - 1]) /\ Around(c, w, K, Len(w), r.brk, r.cont)

LEMMA EntryMoves ==
  ASSUME NEW c, NEW g, NEW r, NEW x, NEW z, NEW p, Entry(c, g, r, x, z), Same(c, p, z)
  PROVE  Entry(c, g, r, x, p)
BY SameLaws DEF Entry

LEMMA FirstThing ==
  ASSUME NEW R, NEW c, NEW g, NEW w, NEW K, NEW p, Ready(R, c, g, w, K, p), w # << >>
  PROVE  \E r \in R : AtFirst(R, c, g, w, K, p, r)
<1>1. Fits(R, c, g, w, K, Len(w), Head(w), K[Len(w)])
  BY TopOfStack DEF Ready
<1>2. PICK r \in R : /\ r.at = Head(w).at /\ Entry(c, g, r, Head(w), K[Len(w)])
                     /\ Same(c, r.to, K[Len(w) - 1]) /\ Around(c, w, K, Len(w), r.brk, r.cont)
  BY <1>1 DEF Fits
<1>3. Entry(c, g, r, Head(w), p)
  BY <1>2, EntryMoves DEF Ready
<1> QED
  BY <1>2, <1>3 DEF AtFirst

LEMMA FirstFacts ==
  ASSUME NEW R, NEW c, NEW g, NEW w, NEW K, NEW p, Ready(R, c, g, w, K, p),
         NEW r \in R, AtFirst(R, c, g, w, K, p, r)
  PROVE  /\ r \in Spans /\ r.at \in Nat \ {0} /\ r.from \in Int /\ r.to \in Int
         /\ r.brk \in Nat \cup {NoLabel} /\ r.cont \in Nat \cup {NoLabel}
         /\ Laid(R, c, << >>, g, r) /\ Len(c) \in Nat /\ Once(c)
         /\ Stack(R, c, g, w, K) /\ w # << >> /\ p \in Int /\ p \in 1..(Len(c) + 1)
         /\ w \in Seq(Work) /\ Len(w) \in Nat \ {0} /\ K[Len(w) - 1] \in Int
<1>1. r \in Spans /\ Laid(R, c, << >>, g, r)
  BY DEF Ready, Finished
<1>2. w # << >> /\ Stack(R, c, g, w, K)
  BY DEF AtFirst, Ready
<1>3. w \in Seq(Work) /\ Len(w) \in Nat \ {0} /\ K[Len(w) - 1] \in Int
  BY <1>2, TopOfStack
<1>4. Len(c) \in Nat /\ Once(c) /\ p \in 1..(Len(c) + 1)
  BY DEF Ready
<1>5. p \in Int
  BY <1>4
<1>6. /\ r.at \in Nat \ {0} /\ r.from \in Int /\ r.to \in Int
      /\ r.brk \in Nat \cup {NoLabel} /\ r.cont \in Nat \cup {NoLabel}
  BY <1>1 DEF Spans
<1> QED
  BY <1>1, <1>2, <1>3, <1>4, <1>5, <1>6

LEMMA ThingsAre ==
  ASSUME NEW i \in Nat
  PROVE  /\ Do(i) \in Work /\ Do(i).at = i /\ Do(i).part = "stmt" /\ ~IsLoop(Do(i))
         /\ Again(i) \in Work /\ Again(i).at = i /\ Again(i).part = "cond" /\ IsLoop(Again(i))
         /\ StepOf(i) \in Work /\ StepOf(i).at = i /\ StepOf(i).part = "step" /\ IsLoop(StepOf(i))
BY DEF Work, Do, Again, StepOf, IsLoop

\* The first thing is done with when the code is at the end of its span.
LEMMA FirstDone ==
  ASSUME NEW R, NEW c, NEW g, NEW w, NEW K, NEW p, Ready(R, c, g, w, K, p),
         NEW r \in R, AtFirst(R, c, g, w, K, p, r),
         NEW o \in 1..(Len(c) + 1), Same(c, o, r.to)
  PROVE  Runs(R, c, g, Tail(w), o)
<1>1. Same(c, o, K[Len(w) - 1])
  BY SameLaws DEF AtFirst
<1> QED
  BY <1>1, RunsRest, FirstFacts

\* The label of a branch is where the branch leads to.
LEMMA LeadsSame ==
  ASSUME NEW c, Once(c), NEW l \in Nat, NEW z, Leads(c, l, z), NEW o, At(c, o, Label(l))
  PROVE  Same(c, o, z)
<1>1. PICK y \in Int : At(c, y, Label(l)) /\ Same(c, y, z)
  BY DEF Leads
<1>2. /\ o \in 1..Len(c) /\ y \in 1..Len(c) /\ c[o] = Label(l) /\ c[y] = Label(l)
  BY <1>1 DEF At
<1>3. c[o].op = "label" /\ c[y].op = "label" /\ c[o].to = c[y].to
  BY <1>2 DEF Label
<1>4. o = y
  BY <1>2, <1>3 DEF Once
<1> QED
  BY <1>1, <1>4

\* A child takes the place of its statement.
LEMMA ChildNext ==
  ASSUME NEW R, NEW c, NEW g, NEW w, NEW K, NEW p, Ready(R, c, g, w, K, p),
         NEW r \in R, AtFirst(R, c, g, w, K, p, r),
         NEW i, NEW y \in Int, NEW z \in Int, Span(i, y, z, r.brk, r.cont) \in R,
         Same(c, z, r.to), NEW o \in 1..(Len(c) + 1), Same(c, o, y)
  PROVE  Runs(R, c, g, <<Do(i)>> \o Tail(w), o)
<1>1. PICK s \in R : s = Span(i, y, z, r.brk, r.cont)
  OBVIOUS
<1>2. s.at = i /\ s.from = y /\ s.to = z /\ s.brk = r.brk /\ s.cont = r.cont
  BY <1>1 DEF Span
<1>3. i \in Nat
  <2>1. s \in Spans
    BY DEF Ready, Finished
  <2>2. s.at \in Nat
    BY <2>1 DEF Spans
  <2> QED
    BY <1>2, <2>2
<1>4. Do(i) \in Work /\ Do(i).at = i /\ Do(i).part = "stmt"
  BY <1>3, ThingsAre
<1>5. Entry(c, g, s, Do(i), y)
  BY <1>2, <1>4, SameLaws DEF Entry
<1>6. Same(c, s.to, K[Len(w) - 1]) /\ Around(c, w, K, Len(w), s.brk, s.cont)
  BY <1>2, SameLaws DEF AtFirst
<1>7. Fits(R, c, g, w, K, Len(w), Do(i), y)
  BY <1>2, <1>4, <1>5, <1>6 DEF Fits
<1>8. Stack(R, c, g, w, K) /\ w # << >>
  BY FirstFacts
<1> QED
  BY <1>4, <1>7, <1>8, RunsInstead

\* A part of a loop takes the place of the loop, or of another part of it.
LEMMA PartNext ==
  ASSUME NEW R, NEW c, NEW g, NEW w, NEW K, NEW p, Ready(R, c, g, w, K, p),
         NEW r \in R, AtFirst(R, c, g, w, K, p, r),
         NEW x \in Work, x.at = r.at, NEW z \in Int, Entry(c, g, r, x, z),
         NEW o \in 1..(Len(c) + 1), Same(c, o, z)
  PROVE  Runs(R, c, g, <<x>> \o Tail(w), o)
<1>1. Fits(R, c, g, w, K, Len(w), x, z)
  BY DEF Fits, AtFirst
<1>2. Stack(R, c, g, w, K) /\ w # << >>
  BY FirstFacts
<1> QED
  BY <1>1, <1>2, RunsInstead

\* The body of a loop comes, and then the part y of it.
LEMMA BodyNext ==
  ASSUME NEW R, NEW c, NEW g, NEW w, NEW K, NEW p, Ready(R, c, g, w, K, p),
         NEW r \in R, AtFirst(R, c, g, w, K, p, r),
         NEW y \in Work, y.at = r.at, IsLoop(y), NEW z \in Int, Entry(c, g, r, y, z),
         NEW i, NEW a \in Int, NEW b \in Int, NEW e \in Nat, NEW l \in Nat,
         Span(i, a, b, e, l) \in R, Same(c, b, z), Leads(c, l, z), Leads(c, e, r.to),
         NEW o \in 1..(Len(c) + 1), Same(c, o, a)
  PROVE  Runs(R, c, g, <<Do(i), y>> \o Tail(w), o)
<1>1. PICK s \in R : s = Span(i, a, b, e, l)
  OBVIOUS
<1>2. s.at = i /\ s.from = a /\ s.to = b /\ s.brk = e /\ s.cont = l
  BY <1>1 DEF Span
<1>3. i \in Nat
  <2>1. s \in Spans
    BY DEF Ready, Finished
  <2>2. s.at \in Nat
    BY <2>1 DEF Spans
  <2> QED
    BY <1>2, <2>2
<1>4. Do(i) \in Work /\ s.at = Do(i).at /\ Do(i).part = "stmt"
  BY <1>2, <1>3, ThingsAre
<1>5. Entry(c, g, s, Do(i), a)
  BY <1>2, <1>4, SameLaws DEF Entry
<1>6. Same(c, r.to, K[Len(w) - 1]) /\ Around(c, w, K, Len(w), r.brk, r.cont)
  BY DEF AtFirst
<1>7. Leads(c, s.cont, z) /\ Leads(c, s.brk, K[Len(w) - 1]) /\ Same(c, s.to, z)
      /\ s.brk \in Nat /\ s.cont \in Nat
  BY <1>2, <1>6, SameLaws DEF Leads
<1>8. Stack(R, c, g, w, K) /\ w # << >>
  BY FirstFacts
<1> QED
  BY <1>4, <1>5, <1>6, <1>7, <1>8, RunsBoth

-----------------------------------------------------------------------------
(***************************************************************************)
(* Steps of the source that cannot be seen.                                *)
(***************************************************************************)
LEMMA SeqQuiet ==
  ASSUME NEW R, NEW c, NEW g, NEW w, NEW K, NEW p, Ready(R, c, g, w, K, p),
         w # << >>, Head(w).part = "stmt", g[Head(w).at] = "seq"
  PROVE  Runs(R, c, g, <<Do(Head(w).at + 1), Do(Later(g, Head(w).at))>> \o Tail(w), p)
<1>1. PICK r \in R : AtFirst(R, c, g, w, K, p, r)
  BY FirstThing
<1>2. Head(w).at = r.at /\ Same(c, p, r.from)
  BY <1>1 DEF AtFirst, Entry
<1>3. LaidSeq(R, g, r)
  BY <1>1, <1>2, FirstFacts, LaidKinds
<1>4. PICK y \in Int : /\ Span(r.at + 1, r.from, y, r.brk, r.cont) \in R
                       /\ Span(Later(g, r.at), y, r.to, r.brk, r.cont) \in R
  BY <1>3 DEF LaidSeq
<1>5. PICK u \in R : u = Span(r.at + 1, r.from, y, r.brk, r.cont)
  BY <1>4
<1>6. PICK s \in R : s = Span(Later(g, r.at), y, r.to, r.brk, r.cont)
  BY <1>4
<1>7. /\ u.at = r.at + 1 /\ u.from = r.from /\ u.to = y /\ u.brk = r.brk /\ u.cont = r.cont
      /\ s.at = Later(g, r.at) /\ s.from = y /\ s.to = r.to
      /\ s.brk = r.brk /\ s.cont = r.cont
  BY <1>5, <1>6 DEF Span
<1>8. u.at \in Nat /\ s.at \in Nat
  <2>1. u \in Spans /\ s \in Spans
    BY DEF Ready, Finished
  <2> QED
    BY <2>1 DEF Spans
<1>9. /\ Do(u.at) \in Work /\ u.at = Do(u.at).at /\ Do(u.at).part = "stmt"
      /\ Do(s.at) \in Work /\ s.at = Do(s.at).at /\ Do(s.at).part = "stmt"
      /\ ~IsLoop(Do(s.at))
  BY <1>8, ThingsAre
<1>10. /\ Entry(c, g, u, Do(u.at), r.from) /\ Entry(c, g, s, Do(s.at), y)
       /\ Same(c, u.to, y)
  BY <1>7, <1>9, SameLaws DEF Entry
<1>11. Same(c, s.to, K[Len(w) - 1]) /\ Around(c, w, K, Len(w), s.brk, s.cont)
  BY <1>1, <1>7 DEF AtFirst
<1>12. u.brk = s.brk /\ u.cont = s.cont
  BY <1>7
<1>13. Stack(R, c, g, w, K) /\ r.from \in Int /\ p \in 1..(Len(c) + 1)
  BY <1>1, FirstFacts
<1>14. Runs(R, c, g, <<Do(u.at), Do(s.at)>> \o Tail(w), p)
  BY <1>2, <1>9, <1>10, <1>11, <1>12, <1>13, RunsBoth
<1> QED
  BY <1>2, <1>7, <1>14

LEMMA SkipQuiet ==
  ASSUME NEW R, NEW c, NEW g, NEW w, NEW K, NEW p, Ready(R, c, g, w, K, p),
         w # << >>, Head(w).part = "stmt", g[Head(w).at] = "skip"
  PROVE  Runs(R, c, g, Tail(w), p)
<1>1. PICK r \in R : AtFirst(R, c, g, w, K, p, r)
  BY FirstThing
<1>2. Head(w).at = r.at /\ Same(c, p, r.from)
  BY <1>1 DEF AtFirst, Entry
<1>3. "skip" \in Plain
  BY DEF Plain
<1>4. LaidLeaf(c, g, r) /\ g[r.at] = "skip"
  BY <1>1, <1>2, <1>3, FirstFacts, LaidKinds
<1>5. r.to = r.from
  BY <1>4 DEF LaidLeaf
<1>6. p \in 1..(Len(c) + 1)
  BY DEF Ready
<1> QED
  BY <1>1, <1>2, <1>5, <1>6, FirstDone

LEMMA WhileQuiet ==
  ASSUME NEW R, NEW c, NEW g, NEW w, NEW K, NEW p, Ready(R, c, g, w, K, p),
         w # << >>, Head(w).part = "stmt", g[Head(w).at] = "while"
  PROVE  Runs(R, c, g, <<Again(Head(w).at)>> \o Tail(w), p)
<1>1. PICK r \in R : AtFirst(R, c, g, w, K, p, r)
  BY FirstThing
<1>2. Head(w).at = r.at /\ Same(c, p, r.from) /\ g[r.at] = "while"
  BY <1>1 DEF AtFirst, Entry
<1>3. LaidWhile(R, c, << >>, g, r)
  BY <1>1, <1>2, FirstFacts, LaidKinds
<1>4. r \in Spans /\ Len(c) \in Nat /\ r.from \in Int /\ r.at \in Nat /\ p \in 1..(Len(c) + 1)
  BY <1>1, FirstFacts
<1>5. Same(c, r.from, r.from + 2)
  BY <1>3, <1>4, WhileRuns
<1>6. PICK z \in Int : z = r.from + 2
  BY <1>4
<1>7. Again(r.at) \in Work /\ Again(r.at).at = r.at /\ Again(r.at).part = "cond"
  BY <1>4, ThingsAre
<1>8. Entry(c, g, r, Again(r.at), z) /\ Same(c, p, z)
  BY <1>2, <1>5, <1>6, <1>7, SameLaws DEF Entry
<1> QED
  BY <1>1, <1>2, <1>4, <1>7, <1>8, PartNext

\* v is the m lowest things of w.
CutTo(w, m, v) ==
  v \in Seq(Work) /\ Len(v) = m /\ \A h \in 1..m : Height(v, h) = Height(w, h)

\* Height m is the innermost loop in w.
Innermost(w, m) ==
  /\ m \in 1..Len(w) /\ IsLoop(Height(w, m))
  /\ \A j \in (m + 1)..Len(w) : ~IsLoop(Height(w, j))

LEMMA RunsCut ==
  ASSUME NEW R, NEW c, NEW g, NEW w, NEW K, Stack(R, c, g, w, K), NEW m \in 0..Len(w),
         NEW v, CutTo(w, m, v), NEW p \in 1..(Len(c) + 1), Same(c, p, K[m])
  PROVE  Runs(R, c, g, v, p)
<1>1. v \in Seq(Work) /\ Len(v) = m /\ \A h \in 1..m : Height(v, h) = Height(w, h)
  BY DEF CutTo
<1>2. Stack(R, c, g, v, K)
  BY <1>1, StackCut
<1> QED
  BY <1>1, <1>2 DEF Runs

LEMMA JumpQuiet ==
  ASSUME NEW R, NEW c, NEW g, NEW w, NEW K, NEW p, Ready(R, c, g, w, K, p),
         w # << >>, Head(w).part = "stmt", g[Head(w).at] \in {"break", "continue"}
  PROVE  \/ /\ \A j \in 1..Len(w) : ~IsLoop(Height(w, j))
            /\ Runs(R, c, g, Tail(w), p)
         \/ \E m : /\ Innermost(w, m)
                   /\ g[Head(w).at] = "continue" =>
                        \A v : CutTo(w, m, v) => Runs(R, c, g, v, p)
                   /\ g[Head(w).at] = "break" =>
                        \A v : CutTo(w, m - 1, v) => Runs(R, c, g, v, p)
<1>1. PICK r \in R : AtFirst(R, c, g, w, K, p, r)
  BY FirstThing
<1>2. /\ Head(w).at = r.at /\ Same(c, p, r.from)
      /\ Same(c, r.to, K[Len(w) - 1]) /\ Around(c, w, K, Len(w), r.brk, r.cont)
  BY <1>1 DEF AtFirst, Entry
<1>3. g[r.at] \in {"break", "continue"} /\ g[r.at] \in Plain
  BY <1>2 DEF Plain
<1>4. LaidLeaf(c, g, r)
  BY <1>1, <1>3, FirstFacts, LaidKinds
<1>5. /\ w \in Seq(Work) /\ Len(w) \in Nat \ {0} /\ Stack(R, c, g, w, K)
      /\ p \in 1..(Len(c) + 1) /\ Len(c) \in Nat /\ p \in Int
  BY <1>1, FirstFacts
<1>6. Height(w, Len(w)) = Head(w) /\ ~IsLoop(Head(w))
  BY <1>5, EmptySeq, HeightsKept DEF IsLoop
<1>7. NoLabel \notin Nat
  BY ProgramsAssumption
<1>8. CASE r.brk = NoLabel /\ r.to = r.from
  <2>1. \A j \in 1..(Len(w) - 1) : ~IsLoop(Height(w, j))
    BY <1>2, <1>7, <1>8 DEF Around
  <2>2. \A j \in 1..Len(w) : j = Len(w) \/ j \in 1..(Len(w) - 1)
    BY <1>5
  <2>3. \A j \in 1..Len(w) : ~IsLoop(Height(w, j))
    BY <1>6, <2>1, <2>2
  <2>4. Runs(R, c, g, Tail(w), p)
    BY <1>1, <1>2, <1>5, <1>8, FirstDone
  <2> QED
    BY <2>3, <2>4
<1>9. CASE /\ r.brk \in Nat
           /\ g[r.at] = "break" => At(c, r.from, Br(r.brk))
           /\ g[r.at] = "continue" => At(c, r.from, Br(r.cont))
  <2>1. PICK m \in 1..(Len(w) - 1) :
           /\ IsLoop(Height(w, m)) /\ \A j \in (m + 1)..(Len(w) - 1) : ~IsLoop(Height(w, j))
           /\ Leads(c, r.cont, K[m]) /\ Leads(c, r.brk, K[m - 1])
    BY <1>2, <1>7, <1>9 DEF Around
  <2>2. r.cont \in Nat
    BY <1>2, <1>7, <1>9 DEF Around
  <2>3. \A j \in (m + 1)..Len(w) : j = Len(w) \/ j \in (m + 1)..(Len(w) - 1)
    BY <1>5
  <2>4. Innermost(w, m)
    BY <1>5, <1>6, <2>1, <2>3 DEF Innermost
  <2>5. m \in 0..Len(w) /\ m - 1 \in 0..Len(w)
    BY <1>5
  <2>6. ASSUME g[r.at] = "continue", NEW v, CutTo(w, m, v) PROVE Runs(R, c, g, v, p)
    <3>1. Same(c, r.from, K[m])
      BY <1>5, <1>9, <2>1, <2>2, <2>6, PastBranch
    <3>2. Same(c, p, K[m])
      BY <1>2, <3>1, SameLaws
    <3> QED
      BY <1>5, <2>5, <2>6, <3>2, RunsCut
  <2>7. ASSUME g[r.at] = "break", NEW v, CutTo(w, m - 1, v) PROVE Runs(R, c, g, v, p)
    <3>1. Same(c, r.from, K[m - 1])
      BY <1>5, <1>9, <2>1, <2>7, PastBranch
    <3>2. Same(c, p, K[m - 1])
      BY <1>2, <3>1, SameLaws
    <3> QED
      BY <1>5, <2>5, <2>7, <3>2, RunsCut
  <2> QED
    BY <1>2, <2>4, <2>6, <2>7
<1> QED
  BY <1>3, <1>4, <1>8, <1>9 DEF LaidLeaf

LEMMA LoopRestCuts ==
  ASSUME work \in Seq(Work), NEW m, Innermost(work, m)
  PROVE  InLoop /\ CutTo(work, m, LoopRest) /\ CutTo(work, m - 1, Tail(LoopRest))
<1> DEFINE loops == {k \in 1..Len(work) : IsLoop(work[k])}
<1>1. PICK n : n = Len(work)
  OBVIOUS
<1>2. n \in Nat
  BY <1>1, LenProperties
<1>3. PICK f : f = n + 1 - m
  OBVIOUS
<1>4. /\ m \in 1..n /\ f \in 1..n /\ IsLoop(work[f])
      /\ \A j \in (m + 1)..n : ~IsLoop(work[n + 1 - j])
  BY <1>1, <1>2, <1>3 DEF Innermost, Height
<1>5. ASSUME NEW k \in loops PROVE f <= k
  <2>1. k \in 1..n /\ IsLoop(work[k])
    BY <1>1
  <2>2. CASE k < f
    <3>1. n + 1 - k \in (m + 1)..n /\ n + 1 - (n + 1 - k) = k
      BY <1>2, <1>3, <1>4, <2>1, <2>2
    <3>2. ~IsLoop(work[k])
      BY <1>4, <3>1
    <3> QED
      BY <2>1, <3>2
  <2> QED
    BY <1>4, <2>1, <2>2
<1>6. f \in loops
  BY <1>1, <1>4
<1>7. \A k \in loops : (\A j \in loops : k <= j) => k = f
  <2> SUFFICES ASSUME NEW k \in loops, \A j \in loops : k <= j PROVE k = f
    OBVIOUS
  <2>1. k <= f /\ f <= k
    BY <1>5, <1>6
  <2>2. k \in 1..n
    BY <1>1
  <2> QED
    BY <1>4, <2>1, <2>2
<1>8. (CHOOSE k \in loops : \A j \in loops : k <= j) = f
  <2> HIDE DEF loops
  <2> QED
    BY <1>5, <1>6, <1>7
<1>9. LoopRest = SubSeq(work, f, n)
  <2>1. loops # {}
    BY <1>6
  <2> QED
    BY <1>1, <1>8, <2>1 DEF LoopRest
<1>10. InLoop
  BY <1>1, <1>4 DEF InLoop
<1>11. PICK u : u = LoopRest
  OBVIOUS
<1>12. /\ u \in Seq(Work) /\ Len(u) = m /\ \A i \in 1..m : u[i] = work[f + i - 1]
  <2>1. /\ SubSeq(work, f, n) \in Seq(Work) /\ Len(SubSeq(work, f, n)) = n - f + 1
        /\ \A i \in 1..(n - f + 1) : SubSeq(work, f, n)[i] = work[f + i - 1]
    BY <1>1, <1>2, <1>4, SubSeqProperties
  <2>2. n - f + 1 = m
    BY <1>2, <1>3, <1>4
  <2> QED
    BY <1>9, <1>11, <2>1, <2>2
<1>13. \A h \in 1..m : Height(u, h) = Height(work, h)
  <2> SUFFICES ASSUME NEW h \in 1..m PROVE Height(u, h) = Height(work, h)
    OBVIOUS
  <2>1. m + 1 - h \in 1..m /\ f + (m + 1 - h) - 1 = n + 1 - h
    BY <1>2, <1>3, <1>4
  <2> QED
    BY <1>1, <1>12, <2>1 DEF Height
<1>14. u # << >>
  BY <1>4, <1>12
<1>15. /\ Tail(u) \in Seq(Work) /\ Len(Tail(u)) = m - 1
       /\ \A h \in 1..(m - 1) : Height(Tail(u), h) = Height(u, h)
  BY <1>12, <1>14, WorkHeights
<1>16. \A h \in 1..(m - 1) : h \in 1..m
  BY <1>4
<1> QED
  BY <1>10, <1>11, <1>12, <1>13, <1>15, <1>16 DEF CutTo

LEMMA NoLoopRest ==
  ASSUME work \in Seq(Work), \A j \in 1..Len(work) : ~IsLoop(Height(work, j))
  PROVE  ~InLoop /\ LoopRest = Tail(work)
<1>1. Len(work) \in Nat
  BY LenProperties
<1>2. ASSUME NEW k \in 1..Len(work) PROVE ~IsLoop(work[k])
  <2>1. Len(work) + 1 - k \in 1..Len(work) /\ Len(work) + 1 - (Len(work) + 1 - k) = k
    BY <1>1
  <2> QED
    BY <2>1 DEF Height
<1> QED
  BY <1>2 DEF InLoop, LoopRest

-----------------------------------------------------------------------------
(***************************************************************************)
(* Steps that can be seen: where the code stands still, it is about to do  *)
(* what the source does next, and goes on as the source does.              *)
(***************************************************************************)
Forks(R, c, g, p, i, yes, no) ==
  \E t \in Nat, m \in Nat :
    /\ At(c, p, CBr(i, t, m))
    /\ \A o : At(c, o, Label(t)) => Runs(R, c, g, yes, o)
    /\ \A o : At(c, o, Label(m)) => Runs(R, c, g, no, o)

LEMMA AfterAt ==
  ASSUME NEW c, Len(c) \in Nat, NEW p, NEW ins, At(c, p, ins)
  PROVE  p \in 1..(Len(c) + 1) /\ p + 1 \in 1..(Len(c) + 1) /\ p \in Int
BY DEF At

LEMMA ActEvent ==
  ASSUME NEW R, NEW c, NEW g, NEW w, NEW K, NEW p, Ready(R, c, g, w, K, p), Still(c, p),
         w # << >>, Head(w).part = "stmt", g[Head(w).at] = "act"
  PROVE  At(c, p, Act(Head(w).at)) /\ Runs(R, c, g, Tail(w), p + 1)
<1>1. PICK r \in R : AtFirst(R, c, g, w, K, p, r)
  BY FirstThing
<1>2. Head(w).at = r.at /\ Same(c, p, r.from) /\ g[r.at] = "act"
  BY <1>1 DEF AtFirst, Entry
<1>3. "act" \in Plain
  BY DEF Plain
<1>4. LaidLeaf(c, g, r)
  BY <1>1, <1>2, <1>3, FirstFacts, LaidKinds
<1>5. At(c, r.from, Act(r.at)) /\ r.to = r.from + 1
  BY <1>2, <1>4 DEF LaidLeaf
<1>6. Once(c) /\ Len(c) \in Nat /\ p \in Int /\ r.from \in Int
  BY <1>1, FirstFacts
<1>7. p = r.from
  BY <1>2, <1>5, <1>6, StillAt, StillSame
<1>8. p + 1 \in 1..(Len(c) + 1) /\ Same(c, p + 1, r.to)
  BY <1>5, <1>6, <1>7, AfterAt, SameLaws
<1>9. Runs(R, c, g, Tail(w), p + 1)
  BY <1>1, <1>8, FirstDone
<1> QED
  BY <1>2, <1>5, <1>7, <1>9

LEMMA RetEvent ==
  ASSUME NEW R, NEW c, NEW g, NEW w, NEW K, NEW p, Ready(R, c, g, w, K, p), Still(c, p),
         w # << >>, Head(w).part = "stmt", g[Head(w).at] = "ret"
  PROVE  At(c, p, Ret(Head(w).at)) /\ Head(w).at \in Nat \ {0}
<1>1. PICK r \in R : AtFirst(R, c, g, w, K, p, r)
  BY FirstThing
<1>2. Head(w).at = r.at /\ Same(c, p, r.from) /\ g[r.at] = "ret"
  BY <1>1 DEF AtFirst, Entry
<1>3. "ret" \in Plain
  BY DEF Plain
<1>4. LaidLeaf(c, g, r)
  BY <1>1, <1>2, <1>3, FirstFacts, LaidKinds
<1>5. At(c, r.from, Ret(r.at))
  BY <1>2, <1>4 DEF LaidLeaf
<1>6. Once(c) /\ p \in Int /\ r.from \in Int /\ r.at \in Nat \ {0}
  BY <1>1, FirstFacts
<1>7. p = r.from
  BY <1>2, <1>5, <1>6, StillAt, StillSame
<1> QED
  BY <1>2, <1>5, <1>6, <1>7

LEMMA ForEvent ==
  ASSUME NEW R, NEW c, NEW g, NEW w, NEW K, NEW p, Ready(R, c, g, w, K, p), Still(c, p),
         w # << >>, Head(w).part = "stmt", g[Head(w).at] \in Loops
  PROVE  /\ At(c, p, Act(Head(w).at))
         /\ Runs(R, c, g, <<Again(Head(w).at)>> \o Tail(w), p + 1)
<1>1. PICK r \in R : AtFirst(R, c, g, w, K, p, r)
  BY FirstThing
<1>2. Head(w).at = r.at /\ Same(c, p, r.from) /\ g[r.at] \in Loops
  BY <1>1 DEF AtFirst, Entry
<1>3. LaidFor(R, c, << >>, g, r)
  BY <1>1, <1>2, FirstFacts, LaidKinds
<1>4. r \in Spans /\ Once(c) /\ Len(c) \in Nat /\ p \in Int /\ r.from \in Int /\ r.at \in Nat
  BY <1>1, FirstFacts
<1>5. At(c, r.from, Act(r.at)) /\ Same(c, r.from + 1, r.from + 3)
  BY <1>3, <1>4, ForRuns
<1>6. p = r.from
  BY <1>2, <1>4, <1>5, StillAt, StillSame
<1>7. PICK z \in Int : z = r.from + 3
  BY <1>4
<1>8. Again(r.at) \in Work /\ Again(r.at).at = r.at /\ Again(r.at).part = "cond"
  BY <1>4, ThingsAre
<1>9. Entry(c, g, r, Again(r.at), z) /\ Same(c, p + 1, z)
  BY <1>2, <1>5, <1>6, <1>7, <1>8, SameLaws DEF Entry
<1>10. p + 1 \in 1..(Len(c) + 1)
  BY <1>4, <1>5, <1>6, AfterAt
<1>11. Runs(R, c, g, <<Again(r.at)>> \o Tail(w), p + 1)
  BY <1>1, <1>8, <1>9, <1>10, PartNext
<1> QED
  BY <1>2, <1>5, <1>6, <1>11

LEMMA StepEvent ==
  ASSUME NEW R, NEW c, NEW g, NEW w, NEW K, NEW p, Ready(R, c, g, w, K, p), Still(c, p),
         w # << >>, Head(w).part = "step"
  PROVE  /\ At(c, p, Step(Head(w).at))
         /\ Runs(R, c, g, <<Again(Head(w).at)>> \o Tail(w), p + 1)
<1>1. PICK r \in R : AtFirst(R, c, g, w, K, p, r)
  BY FirstThing
<1>2. /\ Head(w).at = r.at /\ g[r.at] \in Loops
      /\ \E y \in Int : /\ At(c, y, Step(r.at)) /\ Same(c, p, y)
                        /\ Same(c, y + 1, r.from + 3)
  BY <1>1 DEF AtFirst, Entry
<1>3. PICK y \in Int : /\ At(c, y, Step(r.at)) /\ Same(c, p, y)
                       /\ Same(c, y + 1, r.from + 3)
  BY <1>2
<1>4. Once(c) /\ Len(c) \in Nat /\ p \in Int /\ r.from \in Int /\ r.at \in Nat
  BY <1>1, FirstFacts
<1>5. p = y
  BY <1>3, <1>4, StillAt, StillSame
<1>6. PICK z \in Int : z = r.from + 3
  BY <1>4
<1>7. Again(r.at) \in Work /\ Again(r.at).at = r.at /\ Again(r.at).part = "cond"
  BY <1>4, ThingsAre
<1>8. Entry(c, g, r, Again(r.at), z) /\ Same(c, p + 1, z)
  BY <1>2, <1>3, <1>5, <1>6, <1>7, SameLaws DEF Entry
<1>9. p + 1 \in 1..(Len(c) + 1)
  BY <1>3, <1>4, <1>5, AfterAt
<1>10. Runs(R, c, g, <<Again(r.at)>> \o Tail(w), p + 1)
  BY <1>1, <1>7, <1>8, <1>9, PartNext
<1> QED
  BY <1>2, <1>3, <1>5, <1>10

LEMMA IfEvent ==
  ASSUME NEW R, NEW c, NEW g, NEW w, NEW K, NEW p, Ready(R, c, g, w, K, p), Still(c, p),
         w # << >>, Head(w).part = "stmt", g[Head(w).at] = "if"
  PROVE  Forks(R, c, g, p, Head(w).at, <<Do(Head(w).at + 1)>> \o Tail(w), Tail(w))
<1>1. PICK r \in R : AtFirst(R, c, g, w, K, p, r)
  BY FirstThing
<1>2. Head(w).at = r.at /\ Same(c, p, r.from) /\ g[r.at] = "if"
  BY <1>1 DEF AtFirst, Entry
<1>3. LaidIf(R, c, << >>, g, r)
  BY <1>1, <1>2, FirstFacts, LaidKinds
<1>4. r \in Spans /\ Once(c) /\ Len(c) \in Nat /\ p \in Int /\ r.from \in Int
  BY <1>1, FirstFacts
<1>5. PICK t \in Nat, m \in Nat, y \in Int :
        /\ At(c, r.from, CBr(r.at, t, m)) /\ Leads(c, t, r.from + 2) /\ Leads(c, m, r.to)
        /\ Span(r.at + 1, r.from + 2, y, r.brk, r.cont) \in R /\ Same(c, y, r.to)
  BY <1>3, <1>4, IfRuns
<1>6. p = r.from
  BY <1>2, <1>4, <1>5, StillAt, StillSame
<1>7. PICK z \in Int : z = r.from + 2
  BY <1>4
<1>8. PICK i : i = r.at + 1
  OBVIOUS
<1>9. Leads(c, t, z) /\ Span(i, z, y, r.brk, r.cont) \in R
  BY <1>5, <1>7, <1>8
<1>10. ASSUME NEW o, At(c, o, Label(t)) PROVE Runs(R, c, g, <<Do(i)>> \o Tail(w), o)
  <2>1. o \in 1..(Len(c) + 1) /\ Same(c, o, z)
    BY <1>4, <1>9, <1>10, AfterAt, LeadsSame
  <2> QED
    BY <1>1, <1>5, <1>9, <2>1, ChildNext
<1>11. ASSUME NEW o, At(c, o, Label(m)) PROVE Runs(R, c, g, Tail(w), o)
  <2>1. o \in 1..(Len(c) + 1) /\ Same(c, o, r.to)
    BY <1>4, <1>5, <1>11, AfterAt, LeadsSame
  <2> QED
    BY <1>1, <2>1, FirstDone
<1>12. At(c, p, CBr(r.at, t, m))
  BY <1>5, <1>6
<1>13. Forks(R, c, g, p, r.at, <<Do(i)>> \o Tail(w), Tail(w))
  BY <1>10, <1>11, <1>12 DEF Forks
<1> QED
  BY <1>2, <1>8, <1>13

LEMMA IfElseEvent ==
  ASSUME NEW R, NEW c, NEW g, NEW w, NEW K, NEW p, Ready(R, c, g, w, K, p), Still(c, p),
         w # << >>, Head(w).part = "stmt", g[Head(w).at] = "if_else"
  PROVE  Forks(R, c, g, p, Head(w).at, <<Do(Head(w).at + 1)>> \o Tail(w),
               <<Do(Later(g, Head(w).at))>> \o Tail(w))
<1>1. PICK r \in R : AtFirst(R, c, g, w, K, p, r)
  BY FirstThing
<1>2. Head(w).at = r.at /\ Same(c, p, r.from) /\ g[r.at] = "if_else"
  BY <1>1 DEF AtFirst, Entry
<1>3. LaidIfElse(R, c, << >>, g, r)
  BY <1>1, <1>2, FirstFacts, LaidKinds
<1>4. r \in Spans /\ Once(c) /\ Len(c) \in Nat /\ p \in Int /\ r.from \in Int
  BY <1>1, FirstFacts
<1>5. PICK t \in Nat, l \in Nat, y \in Int, v \in Int, x \in Int :
        /\ At(c, r.from, CBr(r.at, t, l)) /\ Leads(c, t, r.from + 2) /\ Leads(c, l, v)
        /\ Span(r.at + 1, r.from + 2, y, r.brk, r.cont) \in R /\ Same(c, y, r.to)
        /\ Span(Later(g, r.at), v, x, r.brk, r.cont) \in R /\ Same(c, x, r.to)
  BY <1>3, <1>4, IfElseRuns
<1>6. p = r.from
  BY <1>2, <1>4, <1>5, StillAt, StillSame
<1>7. PICK z \in Int : z = r.from + 2
  BY <1>4
<1>8. PICK i : i = r.at + 1
  OBVIOUS
<1>9. Leads(c, t, z) /\ Span(i, z, y, r.brk, r.cont) \in R
  BY <1>5, <1>7, <1>8
<1>10. ASSUME NEW o, At(c, o, Label(t)) PROVE Runs(R, c, g, <<Do(i)>> \o Tail(w), o)
  <2>1. o \in 1..(Len(c) + 1) /\ Same(c, o, z)
    BY <1>4, <1>9, <1>10, AfterAt, LeadsSame
  <2> QED
    BY <1>1, <1>5, <1>9, <2>1, ChildNext
<1>11. PICK j : j = Later(g, r.at)
  OBVIOUS
<1>12. Span(j, v, x, r.brk, r.cont) \in R
  BY <1>5, <1>11
<1>13. ASSUME NEW o, At(c, o, Label(l)) PROVE Runs(R, c, g, <<Do(j)>> \o Tail(w), o)
  <2>1. o \in 1..(Len(c) + 1) /\ Same(c, o, v)
    BY <1>4, <1>5, <1>13, AfterAt, LeadsSame
  <2> QED
    BY <1>1, <1>5, <1>12, <2>1, ChildNext
<1>14. At(c, p, CBr(r.at, t, l))
  BY <1>5, <1>6
<1>15. Forks(R, c, g, p, r.at, <<Do(i)>> \o Tail(w), <<Do(j)>> \o Tail(w))
  BY <1>10, <1>13, <1>14 DEF Forks
<1> QED
  BY <1>2, <1>8, <1>11, <1>15

LEMMA WhileEvent ==
  ASSUME NEW R, NEW c, NEW g, NEW w, NEW K, NEW p, Ready(R, c, g, w, K, p), Still(c, p),
         w # << >>, Head(w).part = "cond", g[Head(w).at] = "while"
  PROVE  Forks(R, c, g, p, Head(w).at,
               <<Do(Head(w).at + 1), Again(Head(w).at)>> \o Tail(w), Tail(w))
<1>1. PICK r \in R : AtFirst(R, c, g, w, K, p, r)
  BY FirstThing
<1>2. Head(w).at = r.at /\ Same(c, p, r.from + 2) /\ g[r.at] = "while"
  <2>1. "while" \notin Loops
    BY DEF Loops
  <2> QED
    BY <1>1, <2>1 DEF AtFirst, Entry
<1>3. LaidWhile(R, c, << >>, g, r)
  BY <1>1, <1>2, FirstFacts, LaidKinds
<1>4. r \in Spans /\ Once(c) /\ Len(c) \in Nat /\ p \in Int /\ r.from \in Int /\ r.at \in Nat
  BY <1>1, FirstFacts
<1>5. PICK l \in Nat, b \in Nat, e \in Nat, y \in Int :
        /\ At(c, r.from + 2, CBr(r.at, b, e))
        /\ Leads(c, b, r.from + 4) /\ Leads(c, e, r.to) /\ Leads(c, l, r.from + 2)
        /\ Span(r.at + 1, r.from + 4, y, e, l) \in R /\ Same(c, y, r.from + 2)
  BY <1>3, <1>4, WhileRuns
<1>6. PICK z \in Int : z = r.from + 2
  BY <1>4
<1>7. PICK a \in Int : a = r.from + 4
  BY <1>4
<1>8. PICK i : i = r.at + 1
  OBVIOUS
<1>9. /\ At(c, z, CBr(r.at, b, e)) /\ Leads(c, b, a) /\ Leads(c, l, z)
      /\ Span(i, a, y, e, l) \in R /\ Same(c, y, z) /\ Same(c, p, z)
  BY <1>2, <1>5, <1>6, <1>7, <1>8
<1>10. p = z
  BY <1>4, <1>9, StillAt, StillSame
<1>11. /\ Again(r.at) \in Work /\ Again(r.at).at = r.at /\ Again(r.at).part = "cond"
       /\ IsLoop(Again(r.at))
  BY <1>4, ThingsAre
<1>12. Entry(c, g, r, Again(r.at), z)
  BY <1>2, <1>6, <1>11, SameLaws DEF Entry
<1>13. ASSUME NEW o, At(c, o, Label(b))
       PROVE  Runs(R, c, g, <<Do(i), Again(r.at)>> \o Tail(w), o)
  <2>1. o \in 1..(Len(c) + 1) /\ Same(c, o, a)
    BY <1>4, <1>9, <1>13, AfterAt, LeadsSame
  <2> QED
    BY <1>1, <1>5, <1>9, <1>11, <1>12, <2>1, BodyNext
<1>14. ASSUME NEW o, At(c, o, Label(e)) PROVE Runs(R, c, g, Tail(w), o)
  <2>1. o \in 1..(Len(c) + 1) /\ Same(c, o, r.to)
    BY <1>4, <1>5, <1>14, AfterAt, LeadsSame
  <2> QED
    BY <1>1, <2>1, FirstDone
<1>15. Forks(R, c, g, p, r.at, <<Do(i), Again(r.at)>> \o Tail(w), Tail(w))
  BY <1>9, <1>10, <1>13, <1>14 DEF Forks
<1> QED
  BY <1>2, <1>8, <1>15

LEMMA ForCondEvent ==
  ASSUME NEW R, NEW c, NEW g, NEW w, NEW K, NEW p, Ready(R, c, g, w, K, p), Still(c, p),
         w # << >>, Head(w).part = "cond", g[Head(w).at] # "while"
  PROVE  Forks(R, c, g, p, Head(w).at,
               <<Do(Head(w).at + 1), StepOf(Head(w).at)>> \o Tail(w), Tail(w))
<1>1. PICK r \in R : AtFirst(R, c, g, w, K, p, r)
  BY FirstThing
<1>2. Head(w).at = r.at /\ Same(c, p, r.from + 3) /\ g[r.at] \in Loops
  BY <1>1 DEF AtFirst, Entry
<1>3. LaidFor(R, c, << >>, g, r)
  BY <1>1, <1>2, FirstFacts, LaidKinds
<1>4. r \in Spans /\ Once(c) /\ Len(c) \in Nat /\ p \in Int /\ r.from \in Int /\ r.at \in Nat
  BY <1>1, FirstFacts
<1>5. PICK s \in Nat, b \in Nat, e \in Nat, y \in Int, v \in Int :
        /\ At(c, r.from + 3, CBr(r.at, b, e))
        /\ Leads(c, b, r.from + 5) /\ Leads(c, e, r.to) /\ Leads(c, s, v)
        /\ Span(r.at + 1, r.from + 5, y, e, s) \in R /\ Same(c, y, v)
        /\ At(c, v, Step(r.at)) /\ Same(c, v + 1, r.from + 3)
  BY <1>3, <1>4, ForRuns
<1>6. PICK z \in Int : z = r.from + 3
  BY <1>4
<1>7. PICK a \in Int : a = r.from + 5
  BY <1>4
<1>8. PICK i : i = r.at + 1
  OBVIOUS
<1>9. /\ At(c, z, CBr(r.at, b, e)) /\ Leads(c, b, a)
      /\ Span(i, a, y, e, s) \in R /\ Same(c, p, z)
  BY <1>2, <1>5, <1>6, <1>7, <1>8
<1>10. p = z
  BY <1>4, <1>9, StillAt, StillSame
<1>11. /\ StepOf(r.at) \in Work /\ StepOf(r.at).at = r.at /\ StepOf(r.at).part = "step"
       /\ IsLoop(StepOf(r.at))
  BY <1>4, ThingsAre
<1>12. Entry(c, g, r, StepOf(r.at), v)
  BY <1>2, <1>5, <1>11, SameLaws DEF Entry
<1>13. ASSUME NEW o, At(c, o, Label(b))
       PROVE  Runs(R, c, g, <<Do(i), StepOf(r.at)>> \o Tail(w), o)
  <2>1. o \in 1..(Len(c) + 1) /\ Same(c, o, a)
    BY <1>4, <1>5, <1>9, <1>13, AfterAt, LeadsSame
  <2> QED
    BY <1>1, <1>5, <1>9, <1>11, <1>12, <2>1, BodyNext
<1>14. ASSUME NEW o, At(c, o, Label(e)) PROVE Runs(R, c, g, Tail(w), o)
  <2>1. o \in 1..(Len(c) + 1) /\ Same(c, o, r.to)
    BY <1>4, <1>5, <1>14, AfterAt, LeadsSame
  <2> QED
    BY <1>1, <2>1, FirstDone
<1>15. Forks(R, c, g, p, r.at, <<Do(i), StepOf(r.at)>> \o Tail(w), Tail(w))
  BY <1>9, <1>10, <1>13, <1>14 DEF Forks
<1> QED
  BY <1>2, <1>8, <1>15

-----------------------------------------------------------------------------
(***************************************************************************)
(* The two executions, in step.                                            *)
(***************************************************************************)
InStep ==
  /\ ~done => pc = 1 /\ work = <<Do(1)>>
  /\ Running => \E R : Finished(R, code, prog) /\ Runs(R, code, prog, work, pc)

ExecInv == IInv /\ ScopesMatchLoops /\ LaidOut /\ InStep

LEMMA CodeFacts ==
  ASSUME IInv
  PROVE  code \in Seq(Instr) /\ Len(code) \in Nat /\ Once(code)
<1>1. code \in Seq(Instr) /\ Once(code)
  BY DEF IInv, Sound, Piece
<1> QED
  BY <1>1, LenProperties

LEMMA RunsReady ==
  ASSUME IInv, NEW R, Finished(R, code, prog), Runs(R, code, prog, work, pc)
  PROVE  \E K : Ready(R, code, prog, work, K, pc)
BY CodeFacts DEF Runs, Ready

\* A branch finds its label.
LEMMA Found ==
  ASSUME IInv, done, ~failed, NEW i \in 1..Len(code), code[i].op # "label",
         NEW n \in 1..Len(code[i].to)
  PROVE  /\ At(code, Where(code[i].to[n]), Label(code[i].to[n]))
         /\ code[i].to[n] \in Nat
<1>1. AllPending(todo) = {} /\ Linked(code, todo, scopes)
  BY AllPendingEmpty DEF IInv
<1>2. code[i].to[n] \in LabelsOf(code)
  BY <1>1 DEF Linked, Known, JumpsInto
<1>3. \E j \in 1..Len(code) : code[j] = Label(code[i].to[n])
  BY <1>2 DEF LabelsOf
<1> QED
  BY <1>2, <1>3 DEF Where, At, LabelsOf

LEMMA SettledStill ==
  ASSUME ~CodeQuiet, pc \in Int, Len(code) \in Nat
  PROVE  Still(code, pc)
<1>1. CASE AtCodeEnd
  <2>1. pc \notin 1..Len(code)
    BY <1>1 DEF AtCodeEnd
  <2> QED
    BY <2>1, StillAt
<1>2. CASE ~AtCodeEnd
  <2>1. code[pc].op \notin {"label", "br"}
    BY <1>2 DEF CodeQuiet
  <2>2. \A l : Label(l).op = "label" /\ Br(l).op = "br"
    BY DEF Label, Br
  <2> QED
    BY <2>1, <2>2 DEF Still, Moves, At
<1> QED
  BY <1>1, <1>2

\* The kinds of the first thing that is left.
LEMMA FirstKinds ==
  ASSUME NEW R, NEW c, NEW g, NEW w, NEW K, NEW p, Ready(R, c, g, w, K, p), w # << >>
  PROVE  /\ Head(w).part \in {"stmt", "cond", "step"} /\ Head(w).at \in Nat
         /\ Head(w).part = "stmt" =>
              g[Head(w).at] \in {"act", "ret", "skip", "break", "continue", "for", "forever",
                                 "seq", "if", "if_else", "while"}
         /\ Head(w).part = "cond" => g[Head(w).at] \in {"while", "for", "forever"}
<1>1. PICK r \in R : AtFirst(R, c, g, w, K, p, r)
  BY FirstThing
<1>2. Head(w).at = r.at /\ Entry(c, g, r, Head(w), p)
  BY <1>1 DEF AtFirst
<1>3. Laid(R, c, << >>, g, r)
  BY <1>1, FirstFacts
<1>4. g[r.at] \in Plain \cup Loops \cup {"seq", "if", "if_else", "while"}
  BY <1>3, LaidKinds
<1>5. Head(w) \in Work
  BY TopOfStack DEF Ready
<1>6. Head(w).part = "cond" => g[r.at] \in {"while", "for", "forever"}
  BY <1>2 DEF Entry, Loops
<1> QED
  BY <1>2, <1>4, <1>5, <1>6 DEF Plain, Loops, Work

\* What the source does next, by the first thing.
LEMMA SourceEvents ==
  /\ work = << >> => SourceEvent = [op |-> "end", at |-> 0]
  /\ work # << >> =>
     /\ Head(work).part = "stmt" =>
        /\ prog[Head(work).at] \in {"act", "for", "forever"} =>
             SourceEvent = [op |-> "act", at |-> Head(work).at]
        /\ prog[Head(work).at] = "ret" => SourceEvent = [op |-> "ret", at |-> Head(work).at]
        /\ prog[Head(work).at] \in {"if", "if_else"} =>
             SourceEvent = [op |-> "cbr", at |-> Head(work).at]
     /\ Head(work).part = "cond" => SourceEvent = [op |-> "cbr", at |-> Head(work).at]
     /\ Head(work).part = "step" => SourceEvent = [op |-> "step", at |-> Head(work).at]
BY DEF SourceEvent, SourceIs, Here

LEMMA AfterEvents ==
  ASSUME NEW b \in BOOLEAN, work # << >>
  PROVE  /\ Head(work).part = "stmt" =>
            /\ prog[Head(work).at] \in {"for", "forever"} =>
                 AfterEvent(b) = <<Again(Head(work).at)>> \o Tail(work)
            /\ prog[Head(work).at] = "if" =>
                 /\ b => AfterEvent(b) = <<Do(Head(work).at + 1)>> \o Tail(work)
                 /\ ~b => AfterEvent(b) = Tail(work)
            /\ prog[Head(work).at] = "if_else" =>
                 /\ b => AfterEvent(b) = <<Do(Head(work).at + 1)>> \o Tail(work)
                 /\ ~b => AfterEvent(b) = <<Do(Later(prog, Head(work).at))>> \o Tail(work)
            /\ prog[Head(work).at] = "act" => AfterEvent(b) = Tail(work)
         /\ Head(work).part = "cond" =>
            /\ ~b => AfterEvent(b) = Tail(work)
            /\ b /\ prog[Head(work).at] = "while" => AfterEvent(b) =
                 <<Do(Head(work).at + 1), Again(Head(work).at)>> \o Tail(work)
            /\ b /\ prog[Head(work).at] # "while" => AfterEvent(b) =
                 <<Do(Head(work).at + 1), StepOf(Head(work).at)>> \o Tail(work)
         /\ Head(work).part = "step" =>
              AfterEvent(b) = <<Again(Head(work).at)>> \o Tail(work)
BY DEF AfterEvent, SourceIs, Here, First, Second, Later

LEMMA CodeEvents ==
  ASSUME NEW ins, At(code, pc, ins), Len(code) \in Nat
  PROVE  /\ pc \in 1..Len(code) /\ code[pc] = ins
         /\ ins # Ret(0) => CodeEvent = [op |-> ins.op, at |-> ins.at]
BY DEF At, CodeEvent, AtCodeEnd

LEMMA ForkGoes ==
  ASSUME IInv, done, ~failed, NEW R, NEW i, NEW yes, NEW no,
         Forks(R, code, prog, pc, i, yes, no)
  PROVE  /\ CodeEvent = [op |-> "cbr", at |-> i]
         /\ Runs(R, code, prog, yes, Where(code[pc].to[1]))
         /\ Runs(R, code, prog, no, Where(code[pc].to[2]))
<1>1. PICK t \in Nat, m \in Nat :
        /\ At(code, pc, CBr(i, t, m))
        /\ \A o : At(code, o, Label(t)) => Runs(R, code, prog, yes, o)
        /\ \A o : At(code, o, Label(m)) => Runs(R, code, prog, no, o)
  BY DEF Forks
<1>2. PICK ins : ins = CBr(i, t, m)
  OBVIOUS
<1>3. /\ ins.op = "cbr" /\ ins.at = i /\ Len(ins.to) = 2 /\ ins.to[1] = t /\ ins.to[2] = m
      /\ ins # Ret(0)
  BY <1>2 DEF CBr, Ret
<1>4. At(code, pc, ins)
  BY <1>1, <1>2
<1>5. /\ pc \in 1..Len(code) /\ code[pc] = ins
      /\ CodeEvent = [op |-> "cbr", at |-> i]
  BY <1>3, <1>4, CodeEvents, CodeFacts
<1>6. /\ 1 \in 1..Len(code[pc].to) /\ code[pc].to[1] = t
      /\ 2 \in 1..Len(code[pc].to) /\ code[pc].to[2] = m
      /\ code[pc].op # "label"
  BY <1>3, <1>5
<1>7. At(code, Where(t), Label(t))
  BY <1>5, <1>6, Found
<1>8. At(code, Where(m), Label(m))
  BY <1>5, <1>6, Found
<1> QED
  BY <1>1, <1>5, <1>6, <1>7, <1>8

\* At a visible point both do the same, and go on alike.
Alike(R) ==
  /\ CodeEvent = SourceEvent
  /\ work # << >> => \A b \in BOOLEAN :
       /\ CodeEvent.op = "cbr" /\ b => Runs(R, code, prog, AfterEvent(b), Where(code[pc].to[1]))
       /\ CodeEvent.op = "cbr" /\ ~b => Runs(R, code, prog, AfterEvent(b), Where(code[pc].to[2]))
       /\ CodeEvent.op \notin {"end", "ret", "cbr"} =>
            Runs(R, code, prog, AfterEvent(b), pc + 1)

LEMMA AlikeFork ==
  ASSUME IInv, done, ~failed, NEW R, work # << >>, NEW i, NEW yes, NEW no,
         Forks(R, code, prog, pc, i, yes, no), SourceEvent = [op |-> "cbr", at |-> i],
         \A b \in BOOLEAN : (b => AfterEvent(b) = yes) /\ (~b => AfterEvent(b) = no)
  PROVE  Alike(R)
<1>1. /\ CodeEvent = [op |-> "cbr", at |-> i]
      /\ Runs(R, code, prog, yes, Where(code[pc].to[1]))
      /\ Runs(R, code, prog, no, Where(code[pc].to[2]))
  BY ForkGoes
<1>2. CodeEvent = SourceEvent /\ CodeEvent.op = "cbr"
  BY <1>1
<1>3. ASSUME NEW b \in BOOLEAN
      PROVE  /\ b => Runs(R, code, prog, AfterEvent(b), Where(code[pc].to[1]))
             /\ ~b => Runs(R, code, prog, AfterEvent(b), Where(code[pc].to[2]))
  <2>1. CASE b
    <3>1. AfterEvent(b) = yes
      BY <2>1
    <3> QED
      BY <1>1, <2>1, <3>1
  <2>2. CASE ~b
    <3>1. AfterEvent(b) = no
      BY <2>2
    <3> QED
      BY <1>1, <2>2, <3>1
  <2> QED
    BY <2>1, <2>2
<1> QED
  BY <1>2, <1>3 DEF Alike

LEMMA AlikePlain ==
  ASSUME IInv, NEW R, work # << >>, NEW ins, At(code, pc, ins), ins # Ret(0),
         SourceEvent = [op |-> ins.op, at |-> ins.at], ins.op # "cbr",
         ins.op = "ret" \/ \A b \in BOOLEAN : Runs(R, code, prog, AfterEvent(b), pc + 1)
  PROVE  Alike(R)
<1>1. CodeEvent = [op |-> ins.op, at |-> ins.at]
  BY CodeEvents, CodeFacts
<1>2. CodeEvent = SourceEvent /\ CodeEvent.op = ins.op
  BY <1>1
<1> QED
  BY <1>2 DEF Alike

LEMMA AlikeEnd ==
  ASSUME IInv, NEW R, NEW K, Ready(R, code, prog, work, K, pc), Still(code, pc),
         work = << >>
  PROVE  Alike(R)
<1>1. /\ K \in [Nat -> Int]
      /\ K[0] = Len(code) + 1 \/ At(code, K[0], Ret(0))
      /\ pc \in 1..(Len(code) + 1) /\ Len(code) \in Nat /\ Once(code)
      /\ Same(code, pc, K[Len(work)])
  BY DEF Ready, Stack
<1>2. Len(work) = 0
  BY <1>1
<1>3. Still(code, K[0])
  <2>1. CASE K[0] = Len(code) + 1
    <3>1. K[0] \notin 1..Len(code)
      BY <1>1, <2>1
    <3> QED
      BY <3>1, StillAt
  <2> QED
    BY <1>1, <2>1, StillAt
<1>4. pc \in Int /\ K[0] \in Int /\ Same(code, pc, K[0])
  BY <1>1, <1>2
<1>5. pc = K[0]
  BY <1>1, <1>3, <1>4, StillSame
<1>6. pc > Len(code) \/ code[pc] = Ret(0)
  BY <1>1, <1>4, <1>5 DEF At
<1>7. CodeEvent = [op |-> "end", at |-> 0]
  BY <1>6 DEF CodeEvent, AtCodeEnd
<1>8. SourceEvent = [op |-> "end", at |-> 0]
  BY SourceEvents
<1> QED
  BY <1>7, <1>8 DEF Alike

LEMMA VisibleAlike ==
  ASSUME IInv, done, ~failed, NEW R, NEW K, Ready(R, code, prog, work, K, pc),
         ~CodeQuiet, ~SourceQuiet
  PROVE  Alike(R)
<1>1. Still(code, pc)
  <2>1. pc \in Int /\ Len(code) \in Nat
    BY CodeFacts DEF Ready
  <2> QED
    BY <2>1, SettledStill
<1>2. CASE work = << >>
  BY <1>1, <1>2, AlikeEnd
<1>3. CASE work # << >>
  <2>1. PICK i : i = Head(work).at
    OBVIOUS
  <2>2. /\ Head(work).part \in {"stmt", "cond", "step"} /\ i \in Nat
        /\ Head(work).part = "stmt" =>
             prog[i] \in {"act", "ret", "skip", "break", "continue", "for", "forever",
                          "seq", "if", "if_else", "while"}
        /\ Head(work).part = "cond" => prog[i] \in {"while", "for", "forever"}
    BY <1>3, <2>1, FirstKinds
  <2>3. Head(work).part = "stmt" => prog[i] \in {"act", "ret", "for", "forever", "if", "if_else"}
    BY <1>3, <2>1, <2>2 DEF SourceQuiet, SourceIs
  <2>4. /\ Act(i).op = "act" /\ Act(i).at = i /\ Act(i) # Ret(0)
        /\ Step(i).op = "step" /\ Step(i).at = i /\ Step(i) # Ret(0)
        /\ Ret(i).op = "ret" /\ Ret(i).at = i /\ (i # 0 => Ret(i) # Ret(0))
    BY DEF Act, Step, Ret
  <2>5. CASE Head(work).part = "stmt" /\ prog[i] = "act"
    <3>1. At(code, pc, Act(i)) /\ Runs(R, code, prog, Tail(work), pc + 1)
      BY <1>1, <1>3, <2>1, <2>5, ActEvent
    <3>2. /\ SourceEvent = [op |-> "act", at |-> i]
          /\ \A b \in BOOLEAN : AfterEvent(b) = Tail(work)
      BY <1>3, <2>1, <2>5, SourceEvents, AfterEvents
    <3>3. \A b \in BOOLEAN : Runs(R, code, prog, AfterEvent(b), pc + 1)
      BY <3>1, <3>2
    <3> QED
      BY <1>3, <2>4, <3>1, <3>2, <3>3, AlikePlain
  <2>6. CASE Head(work).part = "stmt" /\ prog[i] = "ret"
    <3>1. At(code, pc, Ret(i)) /\ i # 0
      BY <1>1, <1>3, <2>1, <2>6, RetEvent
    <3>2. SourceEvent = [op |-> "ret", at |-> i]
      BY <1>3, <2>1, <2>6, SourceEvents
    <3> QED
      BY <1>3, <2>4, <3>1, <3>2, AlikePlain
  <2>7. CASE Head(work).part = "stmt" /\ prog[i] \in {"for", "forever"}
    <3>1. At(code, pc, Act(i)) /\ Runs(R, code, prog, <<Again(i)>> \o Tail(work), pc + 1)
      BY <1>1, <1>3, <2>1, <2>7, ForEvent DEF Loops
    <3>2. /\ SourceEvent = [op |-> "act", at |-> i]
          /\ \A b \in BOOLEAN : AfterEvent(b) = <<Again(i)>> \o Tail(work)
      BY <1>3, <2>1, <2>7, SourceEvents, AfterEvents
    <3>3. \A b \in BOOLEAN : Runs(R, code, prog, AfterEvent(b), pc + 1)
      BY <3>1, <3>2
    <3> QED
      BY <1>3, <2>4, <3>1, <3>2, <3>3, AlikePlain
  <2>8. CASE Head(work).part = "step"
    <3>1. At(code, pc, Step(i)) /\ Runs(R, code, prog, <<Again(i)>> \o Tail(work), pc + 1)
      BY <1>1, <1>3, <2>1, <2>8, StepEvent
    <3>2. /\ SourceEvent = [op |-> "step", at |-> i]
          /\ \A b \in BOOLEAN : AfterEvent(b) = <<Again(i)>> \o Tail(work)
      BY <1>3, <2>1, <2>8, SourceEvents, AfterEvents
    <3>3. \A b \in BOOLEAN : Runs(R, code, prog, AfterEvent(b), pc + 1)
      BY <3>1, <3>2
    <3> QED
      BY <1>3, <2>4, <3>1, <3>2, <3>3, AlikePlain
  <2>9. CASE Head(work).part = "stmt" /\ prog[i] = "if"
    <3>1. Forks(R, code, prog, pc, i, <<Do(i + 1)>> \o Tail(work), Tail(work))
      BY <1>1, <1>3, <2>1, <2>9, IfEvent
    <3>2. /\ SourceEvent = [op |-> "cbr", at |-> i]
          /\ \A b \in BOOLEAN : /\ b => AfterEvent(b) = <<Do(i + 1)>> \o Tail(work)
                                /\ ~b => AfterEvent(b) = Tail(work)
      BY <1>3, <2>1, <2>9, SourceEvents, AfterEvents
    <3> QED
      BY <1>3, <3>1, <3>2, AlikeFork
  <2>10. CASE Head(work).part = "stmt" /\ prog[i] = "if_else"
    <3>1. Forks(R, code, prog, pc, i, <<Do(i + 1)>> \o Tail(work),
                <<Do(Later(prog, i))>> \o Tail(work))
      BY <1>1, <1>3, <2>1, <2>10, IfElseEvent
    <3>2. /\ SourceEvent = [op |-> "cbr", at |-> i]
          /\ \A b \in BOOLEAN : /\ b => AfterEvent(b) = <<Do(i + 1)>> \o Tail(work)
                                /\ ~b => AfterEvent(b) = <<Do(Later(prog, i))>> \o Tail(work)
      BY <1>3, <2>1, <2>10, SourceEvents, AfterEvents
    <3> QED
      BY <1>3, <3>1, <3>2, AlikeFork
  <2>11. CASE Head(work).part = "cond" /\ prog[i] = "while"
    <3>1. Forks(R, code, prog, pc, i, <<Do(i + 1), Again(i)>> \o Tail(work), Tail(work))
      BY <1>1, <1>3, <2>1, <2>11, WhileEvent
    <3>2. /\ SourceEvent = [op |-> "cbr", at |-> i]
          /\ \A b \in BOOLEAN : /\ b => AfterEvent(b) = <<Do(i + 1), Again(i)>> \o Tail(work)
                                /\ ~b => AfterEvent(b) = Tail(work)
      BY <1>3, <2>1, <2>11, SourceEvents, AfterEvents
    <3> QED
      BY <1>3, <3>1, <3>2, AlikeFork
  <2>12. CASE Head(work).part = "cond" /\ prog[i] # "while"
    <3>1. Forks(R, code, prog, pc, i, <<Do(i + 1), StepOf(i)>> \o Tail(work), Tail(work))
      BY <1>1, <1>3, <2>1, <2>12, ForCondEvent
    <3>2. /\ SourceEvent = [op |-> "cbr", at |-> i]
          /\ \A b \in BOOLEAN : /\ b => AfterEvent(b) = <<Do(i + 1), StepOf(i)>> \o Tail(work)
                                /\ ~b => AfterEvent(b) = Tail(work)
      BY <1>3, <2>1, <2>12, SourceEvents, AfterEvents
    <3> QED
      BY <1>3, <3>1, <3>2, AlikeFork
  <2> QED
    BY <2>2, <2>3, <2>5, <2>6, <2>7, <2>8, <2>9, <2>10, <2>11, <2>12
<1> QED
  BY <1>2, <1>3

LEMMA StartRuns ==
  ASSUME NEW R, NEW c, NEW g, Len(c) \in Nat, Finished(R, c, g)
  PROVE  Runs(R, c, g, <<Do(1)>>, 1)
<1>1. PICK x \in Int : /\ Span(1, 1, x, NoLabel, NoLabel) \in R
                       /\ x = Len(c) + 1 \/ At(c, x, Ret(0))
  BY DEF Finished
<1>2. PICK r \in R : r = Span(1, 1, x, NoLabel, NoLabel)
  BY <1>1
<1>3. r.at = 1 /\ r.from = 1 /\ r.to = x /\ r.brk = NoLabel /\ r.cont = NoLabel
  BY <1>2 DEF Span
<1>4. PICK K : K = [h \in Nat |-> IF h = 0 THEN x ELSE 1]
  OBVIOUS
<1>5. K \in [Nat -> Int] /\ K[0] = x /\ K[1] = 1
  BY <1>4
<1>6. PICK w : w = <<Do(1)>>
  OBVIOUS
<1>7. Do(1) \in Work /\ Do(1).at = 1 /\ Do(1).part = "stmt"
  BY ThingsAre
<1>8. w \in Seq(Work) /\ Len(w) = 1 /\ w[1] = Do(1)
  BY <1>6, <1>7
<1>9. Height(w, 1) = Do(1)
  BY <1>8 DEF Height
<1>10. Entry(c, g, r, Do(1), 1) /\ Same(c, r.to, K[0])
  BY <1>3, <1>5, <1>7, SameLaws DEF Entry
<1>11. Around(c, w, K, 1, r.brk, r.cont)
  BY <1>3 DEF Around
<1>12. Fits(R, c, g, w, K, 1, Do(1), 1)
  <2>1. 1 - 1 = 0
    OBVIOUS
  <2> QED
    BY <1>3, <1>7, <1>10, <1>11, <2>1 DEF Fits
<1>13. Placed(R, c, g, w, K, 1)
  BY <1>5, <1>9, <1>12 DEF Placed
<1>14. Stack(R, c, g, w, K)
  BY <1>1, <1>5, <1>8, <1>13 DEF Stack
<1>15. 1 \in 1..(Len(c) + 1) /\ Same(c, 1, K[Len(w)])
  BY <1>5, <1>8, SameLaws
<1>16. Runs(R, c, g, w, 1)
  BY <1>14, <1>15 DEF Runs
<1> QED
  BY <1>6, <1>16

\* A move of the code stays at the same thing.
LEMMA MoveRuns ==
  ASSUME NEW R, NEW c, NEW g, NEW w, NEW K, NEW p, Ready(R, c, g, w, K, p),
         NEW o, Moves(c, p, o)
  PROVE  Runs(R, c, g, w, o)
<1>1. p \in Int /\ Len(c) \in Nat /\ p \in 1..(Len(c) + 1)
  BY DEF Ready
<1>2. o \in 1..(Len(c) + 1)
  BY <1>1 DEF Moves, At
<1>3. o \in Int
  BY <1>2
<1>4. Same(c, p, o)
  BY <1>1, <1>3, MovesSame
<1>5. Same(c, o, K[Len(w)]) /\ Stack(R, c, g, w, K)
  BY <1>4, SameLaws DEF Ready
<1> QED
  BY <1>2, <1>5 DEF Runs

LEMMA CodeMovesRuns ==
  ASSUME IInv, done, ~failed, CodeQuiet, pc \in Int, pc >= 1,
         NEW o, o = IF code[pc].op = "label" THEN pc + 1 ELSE Where(code[pc].to[1])
  PROVE  Moves(code, pc, o)
<1>1. pc \in 1..Len(code) /\ code[pc].op \in {"label", "br"}
  BY CodeFacts DEF CodeQuiet, AtCodeEnd
<1>2. HasForm(code[pc])
  BY <1>1 DEF IInv, Sound, Piece, WellFormed
<1>3. CASE code[pc].op = "label"
  <2>1. PICK l \in Nat : code[pc] = Label(l)
    BY <1>2, <1>3 DEF HasForm
  <2>2. o = pc + 1
    BY <1>3
  <2> QED
    BY <1>1, <2>1, <2>2 DEF Moves, At
<1>4. CASE code[pc].op = "br"
  <2>1. PICK l \in Nat : code[pc] = Br(l)
    BY <1>2, <1>4 DEF HasForm
  <2>2. Len(code[pc].to) = 1 /\ code[pc].to[1] = l
    BY <2>1, TargetFacts
  <2>3. 1 \in 1..Len(code[pc].to) /\ code[pc].op # "label"
    BY <1>4, <2>2
  <2>4. At(code, Where(l), Label(l))
    BY <1>1, <2>2, <2>3, Found
  <2>5. o = Where(l)
    BY <1>4, <2>2
  <2> QED
    BY <1>1, <2>1, <2>4, <2>5 DEF Moves, At
<1> QED
  BY <1>1, <1>3, <1>4

\* What the source has left after a step that cannot be seen.
LEMMA SourceMoved ==
  ASSUME NEW u, SourceMoves, u = work', work # << >>, Head(work).part = "stmt"
  PROVE  /\ prog[Head(work).at] = "seq" =>
              u = <<Do(Head(work).at + 1), Do(Later(prog, Head(work).at))>> \o Tail(work)
         /\ prog[Head(work).at] = "skip" => u = Tail(work)
         /\ prog[Head(work).at] = "while" => u = <<Again(Head(work).at)>> \o Tail(work)
         /\ prog[Head(work).at] = "continue" => u = LoopRest
         /\ prog[Head(work).at] = "break" => u = IF InLoop THEN Tail(LoopRest) ELSE Tail(work)
BY DEF SourceMoves, SourceIs, Here, First, Second, Later

LEMMA SourceStepsRuns ==
  ASSUME NEW R, NEW K, Ready(R, code, prog, work, K, pc),
         SourceQuiet, NEW u, SourceMoves, u = work'
  PROVE  Runs(R, code, prog, u, pc)
<1>1. /\ work # << >> /\ Head(work).part = "stmt"
      /\ prog[Head(work).at] \in {"seq", "skip", "while", "break", "continue"}
  BY DEF SourceQuiet, SourceIs
<1>2. CASE prog[Head(work).at] = "seq"
  <2>1. u = <<Do(Head(work).at + 1), Do(Later(prog, Head(work).at))>> \o Tail(work)
    BY <1>1, <1>2, SourceMoved
  <2>2. Runs(R, code, prog, <<Do(Head(work).at + 1), Do(Later(prog, Head(work).at))>> \o Tail(work), pc)
    BY <1>1, <1>2, SeqQuiet
  <2> QED
    BY <2>1, <2>2
<1>3. CASE prog[Head(work).at] = "skip"
  <2>1. u = Tail(work)
    BY <1>1, <1>3, SourceMoved
  <2>2. Runs(R, code, prog, Tail(work), pc)
    BY <1>1, <1>3, SkipQuiet
  <2> QED
    BY <2>1, <2>2
<1>4. CASE prog[Head(work).at] = "while"
  <2>1. u = <<Again(Head(work).at)>> \o Tail(work)
    BY <1>1, <1>4, SourceMoved
  <2>2. Runs(R, code, prog, <<Again(Head(work).at)>> \o Tail(work), pc)
    BY <1>1, <1>4, WhileQuiet
  <2> QED
    BY <2>1, <2>2
<1>5. CASE prog[Head(work).at] \in {"break", "continue"}
  <2>1. work \in Seq(Work)
    BY DEF Ready, Stack
  <2>2. CASE /\ \A j \in 1..Len(work) : ~IsLoop(Height(work, j))
             /\ Runs(R, code, prog, Tail(work), pc)
    <3>1. ~InLoop /\ LoopRest = Tail(work)
      BY <2>1, <2>2, NoLoopRest
    <3>2. u = Tail(work)
      BY <1>1, <1>5, <3>1, SourceMoved
    <3> QED
      BY <2>2, <3>2
  <2>3. ASSUME NEW m, Innermost(work, m),
               prog[Head(work).at] = "continue" =>
                 \A v : CutTo(work, m, v) => Runs(R, code, prog, v, pc),
               prog[Head(work).at] = "break" =>
                 \A v : CutTo(work, m - 1, v) => Runs(R, code, prog, v, pc)
        PROVE  Runs(R, code, prog, u, pc)
    <3>1. InLoop /\ CutTo(work, m, LoopRest) /\ CutTo(work, m - 1, Tail(LoopRest))
      BY <2>1, <2>3, LoopRestCuts
    <3>2. CASE prog[Head(work).at] = "continue"
      <4>1. u = LoopRest
        BY <1>1, <3>2, SourceMoved
      <4> QED
        BY <2>3, <3>1, <3>2, <4>1
    <3>3. CASE prog[Head(work).at] = "break"
      <4>1. u = Tail(LoopRest)
        BY <1>1, <3>1, <3>3, SourceMoved
      <4> QED
        BY <2>3, <3>1, <3>3, <4>1
    <3> QED
      BY <1>5, <3>2, <3>3
  <2> QED
    BY <1>1, <1>5, <2>2, <2>3, JumpQuiet
<1> QED
  BY <1>1, <1>2, <1>3, <1>4, <1>5

\* Both executions stay in step, whoever moves.
LEMMA KeepsStep ==
  ASSUME done, done' = done, failed' = failed, code' = code, prog' = prog,
         NEW R, Finished(R, code, prog),
         ~failed /\ ~halted' => Runs(R, code, prog, work', pc')
  PROVE  InStep'
BY DEF InStep, Running

LEMMA GenerateInStep ==
  ASSUME IInv, InStep, IInv', LaidOut', Generate
  PROVE  InStep'
<1>1. ~done
  BY DEF Generate, Next, GenStmt, GenAct, GenRet, GenJump, GenBlock, GenIf, GenAfterThen,
     GenAfterElse, GenWhile, GenAfterWhile, GenFor, GenAfterFor, GenFailure, GenFuncEnd,
     Visiting, Calling, Returning
<1>2. pc = 1 /\ work = <<Do(1)>> /\ pc' = pc /\ work' = work
  BY <1>1 DEF InStep, Generate
<1>3. ASSUME Running' PROVE \E R : Finished(R, code', prog') /\ Runs(R, code', prog', work', pc')
  <2>1. done' /\ ~failed'
    BY <1>3 DEF Running
  <2>2. PICK R : Finished(R, code', prog')
    BY <2>1 DEF LaidOut
  <2>3. Len(code') \in Nat
    BY CodeFacts
  <2>4. Runs(R, code', prog', <<Do(1)>>, 1)
    BY <2>2, <2>3, StartRuns
  <2> QED
    BY <1>2, <2>2, <2>4
<1> QED
  BY <1>2, <1>3 DEF InStep

LEMMA MovesInStep ==
  ASSUME IInv, InStep, CodeMoves \/ SourceSteps \/ \E b \in BOOLEAN : Both(b)
  PROVE  InStep' /\ UNCHANGED vars
<1>1. Running /\ UNCHANGED vars
  BY DEF CodeMoves, SourceSteps, Both, Settled
<1>2. /\ done /\ ~failed /\ done' = done /\ failed' = failed /\ code' = code /\ prog' = prog
  BY <1>1 DEF Running, vars
<1>3. PICK R : Finished(R, code, prog) /\ Runs(R, code, prog, work, pc)
  BY <1>1 DEF InStep
<1>4. PICK K : Ready(R, code, prog, work, K, pc)
  BY <1>3, RunsReady
<1>5. CASE CodeMoves
  <2>1. PICK o : o = pc'
    OBVIOUS
  <2>2. /\ CodeQuiet /\ work' = work
        /\ o = IF code[pc].op = "label" THEN pc + 1 ELSE Where(code[pc].to[1])
    BY <1>5, <2>1 DEF CodeMoves
  <2>3. pc \in Int /\ pc >= 1
    BY <1>4, CodeFacts DEF Ready
  <2>4. Moves(code, pc, o)
    BY <1>2, <2>2, <2>3, CodeMovesRuns
  <2>5. Runs(R, code, prog, work, o)
    BY <1>4, <2>4, MoveRuns
  <2> QED
    BY <1>1, <1>2, <1>3, <2>1, <2>2, <2>5, KeepsStep
<1>6. CASE SourceSteps
  <2>1. PICK u : u = work'
    OBVIOUS
  <2>2. SourceQuiet /\ SourceMoves /\ pc' = pc
    BY <1>6 DEF SourceSteps
  <2>3. Runs(R, code, prog, u, pc)
    BY <1>4, <2>1, <2>2, SourceStepsRuns
  <2> QED
    BY <1>1, <1>2, <1>3, <2>1, <2>2, <2>3, KeepsStep
<1>7. ASSUME NEW b \in BOOLEAN, Both(b) PROVE InStep'
  <2>1. Settled /\ halted' = (CodeEvent.op \in {"end", "ret"})
    BY <1>7 DEF Both
  <2>2. Alike(R)
    BY <1>2, <1>4, <2>1, VisibleAlike DEF Settled
  <2>3. CASE CodeEvent.op \in {"end", "ret"}
    <3>1. halted'
      BY <2>1, <2>3
    <3> QED
      BY <1>2, <1>3, <3>1, KeepsStep
  <2>4. CASE CodeEvent.op \notin {"end", "ret"}
    <3>1. work # << >>
      <4>1. work = << >> => SourceEvent.op = "end"
        BY SourceEvents
      <4>2. CodeEvent = SourceEvent
        BY <2>2 DEF Alike
      <4> QED
        BY <2>4, <4>1, <4>2
    <3>2. work' = AfterEvent(b)
      BY <1>7, <3>1 DEF Both
    <3>3. CASE CodeEvent.op = "cbr"
      <4>1. pc' = Where(code[pc].to[IF b THEN 1 ELSE 2])
        BY <1>7, <2>4, <3>3 DEF Both
      <4>2. Runs(R, code, prog, AfterEvent(b), pc')
        <5>1. CASE b
          <6>1. pc' = Where(code[pc].to[1])
            BY <4>1, <5>1
          <6>2. Runs(R, code, prog, AfterEvent(b), Where(code[pc].to[1]))
            BY <2>2, <3>1, <3>3, <5>1 DEF Alike
          <6> QED
            BY <6>1, <6>2
        <5>2. CASE ~b
          <6>1. pc' = Where(code[pc].to[2])
            BY <4>1, <5>2
          <6>2. Runs(R, code, prog, AfterEvent(b), Where(code[pc].to[2]))
            BY <2>2, <3>1, <3>3, <5>2 DEF Alike
          <6> QED
            BY <6>1, <6>2
        <5> QED
          BY <5>1, <5>2
      <4> QED
        BY <1>2, <1>3, <3>2, <4>2, KeepsStep
    <3>4. CASE CodeEvent.op # "cbr"
      <4>1. pc' = pc + 1
        BY <1>7, <2>4, <3>4 DEF Both
      <4>2. Runs(R, code, prog, AfterEvent(b), pc + 1)
        BY <2>2, <2>4, <3>1, <3>4 DEF Alike
      <4> QED
        BY <1>2, <1>3, <3>2, <4>1, <4>2, KeepsStep
    <3> QED
      BY <3>3, <3>4
  <2> QED
    BY <2>3, <2>4
<1> QED
  BY <1>1, <1>5, <1>6, <1>7

LEMMA ExecStep == ExecInv /\ [ExecNext]_allVars => ExecInv'
<1> SUFFICES ASSUME ExecInv, [ExecNext]_allVars PROVE ExecInv'
  OBVIOUS
<1>1. IInv /\ ScopesMatchLoops /\ LaidOut /\ InStep
  BY DEF ExecInv
<1>2. CASE Generate
  <2>1. [Next]_vars
    BY <1>2 DEF Generate
  <2>2. IInv' /\ ScopesMatchLoops' /\ LaidOut'
    BY <1>1, <2>1, NextIInv, TuneInv, NextLaid
  <2>3. InStep'
    BY <1>1, <1>2, <2>2, GenerateInStep
  <2> QED
    BY <2>2, <2>3 DEF ExecInv
<1>3. CASE CodeMoves \/ SourceSteps \/ \E b \in BOOLEAN : Both(b)
  <2>1. InStep' /\ UNCHANGED vars
    BY <1>1, <1>3, MovesInStep
  <2>2. [Next]_vars
    BY <2>1
  <2>3. IInv' /\ ScopesMatchLoops' /\ LaidOut'
    BY <1>1, <2>2, NextIInv, TuneInv, NextLaid
  <2> QED
    BY <2>1, <2>3 DEF ExecInv
<1>4. CASE UNCHANGED allVars
  <2>1. [Next]_vars
    BY <1>4 DEF allVars
  <2>2. IInv' /\ ScopesMatchLoops' /\ LaidOut'
    BY <1>1, <2>1, NextIInv, TuneInv, NextLaid
  <2>3. InStep'
    BY <1>1, <1>4 DEF InStep, Running, allVars, vars
  <2> QED
    BY <2>2, <2>3 DEF ExecInv
<1> QED
  BY <1>2, <1>3, <1>4 DEF ExecNext

(***************************************************************************)
(* The code gen_func leaves, when no expression failed, is where the spans *)
(* say: every statement has its instructions, its children's between them, *)
(* and its break and continue the labels of the loop around it.            *)
(***************************************************************************)
THEOREM CodeIsLaidOut == Spec => []LaidOut
<1>1. Init => IInv /\ ScopesMatchLoops /\ LaidOut
  BY InitIInv, InitScopes, InitLaidOut
<1>2. IInv /\ ScopesMatchLoops /\ LaidOut /\ [Next]_vars
        => (IInv /\ ScopesMatchLoops /\ LaidOut)'
  BY NextIInv, TuneInv, NextLaid
<1> QED
  BY <1>1, <1>2, PTL DEF Spec

(***************************************************************************)
(* The code gen_stmt and gen_func emit does what the source says, for      *)
(* function bodies of every size and nesting and every outcome of their    *)
(* conditions: where the code is about to do something that can be seen,   *)
(* the source is about to do the same.                                     *)
(***************************************************************************)
THEOREM CodeDoesWhatSourceSays == ExecSpec => []CodeFollowsSource
<1>1. ExecInit => ExecInv
  <2> SUFFICES ASSUME ExecInit PROVE ExecInv
    OBVIOUS
  <2>1. Init /\ pc = 1 /\ work = <<Do(1)>>
    BY DEF ExecInit
  <2>2. ~done
    BY <2>1 DEF Init
  <2>3. InStep
    BY <2>1, <2>2 DEF InStep, Running
  <2> QED
    BY <2>1, <2>3, InitIInv, InitScopes, InitLaidOut DEF ExecInv
<1>2. ExecInv /\ [ExecNext]_allVars => ExecInv'
  BY ExecStep
<1>3. ExecInv => CodeFollowsSource
  <2> SUFFICES ASSUME ExecInv, Settled PROVE CodeEvent = SourceEvent
    BY DEF CodeFollowsSource
  <2>1. IInv /\ InStep /\ Running /\ ~CodeQuiet /\ ~SourceQuiet
    BY DEF ExecInv, Settled
  <2>2. PICK R : Finished(R, code, prog) /\ Runs(R, code, prog, work, pc)
    BY <2>1 DEF InStep
  <2>3. PICK K : Ready(R, code, prog, work, K, pc)
    BY <2>1, <2>2, RunsReady
  <2>4. Alike(R)
    BY <2>1, <2>3, VisibleAlike DEF Running
  <2> QED
    BY <2>4 DEF Alike
<1> QED
  BY <1>1, <1>2, <1>3, PTL DEF ExecSpec

=============================================================================
