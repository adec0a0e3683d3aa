---------------------------- MODULE LexingProofs ----------------------------
(***************************************************************************)
(* Proofs about the lexer (src-c/src/lexer.c): whatever the text, every    *)
(* token has its kind, its place and the position a reader counts, is the  *)
(* longest lexeme at its place and has the value it means; nothing but     *)
(* blanks and comments lies between two tokens, and the lexeme of a        *)
(* string literal of any length stays in its buffer.                       *)
(*                                                                         *)
(* The scanning loops of the lexer are recursive functions of the model;   *)
(* each is shown to exist by recursion along its turns, and its invariant  *)
(* is proved by induction on the turns (SetInduction).                     *)
(***************************************************************************)
EXTENDS Lexing, SequenceTheorems, SetInduction, TLAPS

Text == src \in Seq(STRING)

LEMMA TextFacts == Text => Size \in Nat /\ DOMAIN src = 1..Size /\ \A i \in 1..Size : src[i] \in STRING
BY ElementOfSeq DEF Text, Size

\* The least of some places.
LEMMA LeastPlace ==
  ASSUME NEW T, T \subseteq Nat, T # {}
  PROVE  /\ Min(T) \in T /\ \A k \in T : Min(T) <= k
BY LeastElement DEF Min

(***************************************************************************)
(* Positions.                                                              *)
(***************************************************************************)
LEMMA NewlinesNext ==
  ASSUME Text, NEW i \in 1..Size
  PROVE  Newlines(i + 1) = IF src[i] = "\n" THEN Newlines(i) \cup {i} ELSE Newlines(i)
<1>1. Size \in Nat /\ i \in Nat /\ (i + 1) - 1 = i /\ i \notin 1..i - 1 /\ 1..i = (1..i - 1) \cup {i}
  BY TextFacts
<1> QED BY <1>1 DEF Newlines

LEMMA NewlinesFinite ==
  ASSUME NEW i \in Nat
  PROVE  IsFiniteSet(Newlines(i)) /\ Cardinality(Newlines(i)) \in Nat
<1>1. IsFiniteSet(1..i - 1)
  <2>1. 1 \in Int /\ i - 1 \in Int
    OBVIOUS
  <2> QED BY <2>1, FS_Interval
<1>2. Newlines(i) \subseteq 1..i - 1
  BY DEF Newlines
<1> QED BY <1>1, <1>2, FS_Subset, FS_CardinalityType

LEMMA LineNext ==
  ASSUME Text, NEW i \in 1..Size
  PROVE  LineOf(i + 1) = IF src[i] = "\n" THEN LineOf(i) + 1 ELSE LineOf(i)
<1>1. i \in Nat /\ i \notin Newlines(i)
  BY TextFacts DEF Newlines
<1>2. IsFiniteSet(Newlines(i)) /\ Cardinality(Newlines(i)) \in Nat
  BY <1>1, NewlinesFinite
<1>3. Cardinality(Newlines(i) \cup {i}) = Cardinality(Newlines(i)) + 1
  BY <1>1, <1>2, FS_AddElement
<1>4. PICK c \in Nat : c = Cardinality(Newlines(i))
  BY <1>2
<1>5. 1 + (c + 1) = (1 + c) + 1
  OBVIOUS
<1> QED BY <1>3, <1>4, <1>5, NewlinesNext DEF LineOf

LEMMA MaxIs == \A T, m : T \subseteq Int /\ m \in T /\ (\A k \in T : k <= m) => Max(T) = m
<1> SUFFICES ASSUME NEW T, NEW m, T \subseteq Int, m \in T, \A k \in T : k <= m PROVE Max(T) = m
  OBVIOUS
<1> DEFINE x == CHOOSE x \in T : \A y \in T : x >= y
<1>1. \E y \in T : \A k \in T : y >= k
  OBVIOUS
<1>2. x \in T /\ \A k \in T : x >= k
  BY <1>1
<1> HIDE DEF x
<1>3. x = m
  BY <1>2
<1> QED BY <1>3 DEF x, Max

LEMMA MaxOf ==
  ASSUME NEW n \in Nat, NEW T, T \subseteq 0..n, T # {}
  PROVE  Max(T) \in T /\ \A k \in T : k <= Max(T)
<1> DEFINE U == {n - m : m \in T}
<1>1. U \subseteq Nat /\ U # {}
  <2>1. \A m \in T : n - m \in Nat
    OBVIOUS
  <2>2. U # {}
    OBVIOUS
  <2> QED BY <2>1, <2>2
<1>2. PICK u \in U : \A v \in U : u <= v
  <2> HIDE DEF U
  <2> QED BY <1>1, LeastElement
<1>3. PICK k \in T : u = n - k
  BY <1>2
<1>4. \A m \in T : n - k <= n - m
  BY <1>2, <1>3
<1>5. T \subseteq Int /\ \A m \in T : m <= k
  BY <1>4
<1>6. Max(T) = k
  BY <1>5, MaxIs
<1> QED BY <1>5, <1>6

LEMMA ColumnNext ==
  ASSUME Text, NEW i \in 1..Size
  PROVE  ColumnOf(i + 1) = IF src[i] = "\n" THEN 1 ELSE ColumnOf(i) + 1
<1> DEFINE T == {0} \cup Newlines(i)
           U == {0} \cup Newlines(i + 1)
<1>1. Size \in Nat /\ i \in Nat /\ i - 1 \in Nat /\ T \subseteq 0..i - 1 /\ T # {} /\ T \subseteq Int
  BY TextFacts DEF Newlines
<1>2. ColumnOf(i) = i - Max(T) /\ ColumnOf(i + 1) = (i + 1) - Max(U)
  BY DEF ColumnOf
<1>3. CASE src[i] = "\n"
  <2>1. U = T \cup {i}
    BY <1>3, NewlinesNext
  <2>2. U \subseteq Int /\ i \in U /\ \A m \in U : m <= i
    BY <1>1, <2>1
  <2> HIDE DEF U
  <2>3. Max(U) = i
    BY <2>2, MaxIs
  <2>4. (i + 1) - i = 1
    BY <1>1
  <2> QED BY <1>2, <1>3, <2>3, <2>4
<1>4. CASE src[i] # "\n"
  <2>1. U = T
    BY <1>4, NewlinesNext
  <2> HIDE DEF T, U
  <2>4. Max(T) \in T
    BY <1>1, MaxOf
  <2>5. Max(T) \in Int
    BY <1>1, <2>4
  <2>2. PICK z \in Int : z = Max(T)
    BY <2>5
  <2>3. (i + 1) - z = (i - z) + 1
    BY <1>1
  <2> QED BY <1>2, <1>4, <2>1, <2>2, <2>3
<1> QED BY <1>3, <1>4

At(i) == [pos |-> i, line |-> LineOf(i), column |-> ColumnOf(i)]

LEMMA AtStart == Text => 1 \in 1..Size + 1 /\ At(1) = [pos |-> 1, line |-> 1, column |-> 1]
<1> SUFFICES ASSUME Text PROVE 1 \in 1..Size + 1 /\ At(1) = [pos |-> 1, line |-> 1, column |-> 1]
  OBVIOUS
<1>1. Newlines(1) = {}
  BY DEF Newlines
<1>2. LineOf(1) = 1 /\ ColumnOf(1) = 1
  <2>1. Cardinality({}) = 0
    BY FS_EmptySet
  <2>2. Max({0}) = 0
    BY MaxIs
  <2>3. {0} \cup {} = {0}
    OBVIOUS
  <2> QED BY <1>1, <2>1, <2>2, <2>3 DEF LineOf, ColumnOf
<1>3. 1 \in 1..Size + 1
  BY TextFacts
<1> QED BY <1>2, <1>3 DEF At

LEMMA Advanced ==
  ASSUME Text, NEW i \in 1..Size + 1
  PROVE  advance_one(At(i)) = IF i = Size + 1 THEN At(i) ELSE At(i + 1)
<1>1. Size \in Nat /\ i \in Nat
  BY TextFacts
<1>2. CASE i = Size + 1
  BY <1>1, <1>2 DEF advance_one, At
<1>3. CASE i # Size + 1
  <2>1. i \in 1..Size /\ ~(i > Size)
    BY <1>1, <1>3
  <2> QED BY <1>3, <2>1, LineNext, ColumnNext DEF advance_one, At
<1> QED BY <1>2, <1>3

\* advance_one, repeated, leads to its place, but no further than the end.
LEMMA ToPlace ==
  ASSUME Text, NEW p \in 1..Size + 1, NEW i \in Nat, p <= i
  PROVE  To(At(p), i) = At(IF i <= Size + 1 THEN i ELSE Size + 1)
<1> DEFINE k     == i - p
           Clip(n) == IF p + n <= Size + 1 THEN p + n ELSE Size + 1
           Is(g) == g = [n \in 0..k |-> IF n = 0 THEN At(p) ELSE advance_one(g[n - 1])]
           f     == [n \in 0..k |-> At(Clip(n))]
<1>1. Size \in Nat /\ p \in Nat /\ i \in Nat /\ k \in Nat /\ Clip(0) = p
      /\ Clip(k) = IF i <= Size + 1 THEN i ELSE Size + 1
  BY TextFacts
<1>2. \A n \in Nat : Clip(n) \in 1..Size + 1
  BY <1>1
<1>3. ASSUME NEW n \in 0..k, n # 0
      PROVE  n - 1 \in 0..k /\ advance_one(At(Clip(n - 1))) = At(Clip(n))
  <2>1. n - 1 \in 0..k /\ Clip(n - 1) \in 1..Size + 1
    BY <1>1, <1>2, <1>3
  <2>2. Clip(n) = IF Clip(n - 1) = Size + 1 THEN Clip(n - 1) ELSE Clip(n - 1) + 1
    BY <1>1, <1>3
  <2> HIDE DEF Clip
  <2> QED BY <2>1, <2>2, Advanced
<1> HIDE DEF Clip
<1>4. Is(f)
  <2>1. \A n \in 0..k : f[n] = IF n = 0 THEN At(p) ELSE advance_one(f[n - 1])
    <3> TAKE n \in 0..k
    <3>1. CASE n = 0
      BY <1>1, <3>1
    <3>2. CASE n # 0
      <4>1. n - 1 \in 0..k /\ f[n - 1] = At(Clip(n - 1)) /\ f[n] = At(Clip(n))
        BY <1>3, <3>2
      <4> QED BY <1>3, <3>2, <4>1
    <3> QED BY <3>1, <3>2
  <2>2. f = [n \in 0..k |-> f[n]]
    OBVIOUS
  <2> HIDE DEF f
  <2> QED BY <2>1, <2>2
<1>5. PICK g : g = (CHOOSE h : Is(h)) /\ Is(g)
  <2> HIDE DEF Is, f
  <2> QED BY <1>4
<1>7. g[0] = At(p) /\ \A n \in 0..k : n # 0 => g[n] = advance_one(g[n - 1])
  <2>1. 0 \in 0..k
    BY <1>1
  <2>2. g = [n \in 0..k |-> IF n = 0 THEN At(p) ELSE advance_one(g[n - 1])]
    BY <1>5
  <2> HIDE DEF k
  <2> QED BY <2>1, <2>2
<1>6. To(At(p), i) = g[k]
  <2>1. At(p).pos = p
    BY DEF At
  <2>2. CASE p = i
    <3>1. k = 0 /\ To(At(p), i) = At(p)
      BY <1>1, <2>1, <2>2 DEF To
    <3> HIDE DEF k
    <3> QED BY <1>7, <3>1
  <2>3. CASE p # i
    <3>1. ~(i <= p)
      BY <1>1, <2>3
    <3> QED BY <1>5, <2>1, <3>1 DEF To
  <2> QED BY <2>2, <2>3
<1> DEFINE P == {n \in Nat : n <= k => g[n] = At(Clip(n))}
<1> HIDE DEF k
<1>8. 0 \in P
  BY <1>1, <1>7
<1>9. ASSUME NEW n \in Nat, n \in P PROVE n + 1 \in P
  <2> SUFFICES ASSUME n + 1 <= k PROVE g[n + 1] = At(Clip(n + 1))
    OBVIOUS
  <2>1. n + 1 \in 0..k /\ n + 1 # 0 /\ (n + 1) - 1 = n /\ g[n] = At(Clip(n))
    BY <1>1, <1>9
  <2>2. g[n + 1] = advance_one(g[n])
    BY <1>7, <2>1
  <2>3. advance_one(At(Clip((n + 1) - 1))) = At(Clip(n + 1))
    BY <1>3, <2>1
  <2> QED BY <2>1, <2>2, <2>3
<1>10. \A n \in Nat : n \in P
  <2> HIDE DEF P
  <2> QED BY <1>8, <1>9, SetInduct
<1>11. g[k] = At(Clip(k))
  BY <1>1, <1>10
<1> QED BY <1>1, <1>2, <1>6, <1>11

LEMMA PastFacts ==
  ASSUME Text, NEW S, NEW i \in 1..Size + 1
  PROVE  /\ Past(i, S) \in i..Size + 1
         /\ \A k \in i..Past(i, S) - 1 : k \in 1..Size /\ src[k] \in S
         /\ Past(i, S) <= Size => src[Past(i, S)] \notin S
<1> DEFINE T == {k \in i..Size + 1 : k > Size \/ src[k] \notin S}
<1>1. Size \in Nat /\ Size + 1 \in T /\ T \subseteq Nat
  BY TextFacts
<1>2. Min(T) \in T /\ \A k \in T : Min(T) <= k
  <2> HIDE DEF T
  <2> QED BY <1>1, LeastPlace
<1>3. ASSUME NEW k \in i..Min(T) - 1 PROVE k \in 1..Size /\ src[k] \in S
  <2>1. Min(T) \in Nat /\ Min(T) <= Size + 1
    BY <1>1, <1>2
  <2>2. k \in 1..Size /\ k \in i..Size + 1 /\ ~(k > Size) /\ ~(Min(T) <= k)
    <3> HIDE DEF T
    <3> QED BY <1>1, <2>1
  <2>3. k \notin T
    BY <1>2, <2>2
  <2> QED BY <2>2, <2>3
<1>4. Min(T) <= Size => src[Min(T)] \notin S
  BY <1>1, <1>2
<1> QED BY <1>2, <1>3, <1>4 DEF Past

LEMMA LineEndFacts ==
  ASSUME Text, NEW i \in 1..Size
  PROVE  /\ LineEnd(i) \in i..Size + 1
         /\ \A k \in i..LineEnd(i) - 1 : src[k] # "\n"
         /\ LineEnd(i) <= Size => src[LineEnd(i)] = "\n"
<1> DEFINE T == {k \in i..Size + 1 : k > Size \/ src[k] = "\n"}
<1>1. Size \in Nat /\ Size + 1 \in T /\ T \subseteq Nat
  BY TextFacts
<1>2. Min(T) \in T /\ \A k \in T : Min(T) <= k
  <2> HIDE DEF T
  <2> QED BY <1>1, LeastPlace
<1>3. ASSUME NEW k \in i..Min(T) - 1 PROVE src[k] # "\n"
  <2>1. Min(T) \in Nat /\ Min(T) <= Size + 1
    BY <1>1, <1>2
  <2>2. k \in i..Size + 1 /\ ~(Min(T) <= k)
    <3> HIDE DEF T
    <3> QED BY <1>1, <2>1
  <2>3. k \notin T
    BY <1>2, <2>2
  <2> QED BY <2>2, <2>3
<1>4. Min(T) <= Size => src[Min(T)] = "\n"
  BY <1>1, <1>2
<1> QED BY <1>2, <1>3, <1>4 DEF LineEnd

\* The end of a comment whose inside starts at i is after its first closing,
\* or there is none.
LEMMA CommentEndFacts ==
  ASSUME Text, NEW i \in 1..Size - 1
  PROVE  /\ CommentEnd(i + 2) \in i + 2..Size + 1
         /\ \/ BlockComment(i, CommentEnd(i + 2) - 1) \/ src[i] # "/" \/ src[i + 1] # "*"
            \/ ClosingStar(i) = {} /\ CommentEnd(i + 2) >= Size
<1> DEFINE T == {k \in i + 2..Size : k = Size \/ (src[k] = "*" /\ src[k + 1] = "/")}
<1>1. Size \in Nat /\ i \in Nat
  BY TextFacts
<1>2. CASE i + 2 >= Size
  <2>1. ClosingStar(i) = {}
    BY <1>1, <1>2 DEF ClosingStar
  <2>2. CommentEnd(i + 2) = i + 2
    BY <1>2 DEF CommentEnd
  <2> QED BY <1>1, <1>2, <2>1, <2>2
<1>3. CASE ~(i + 2 >= Size)
  <2>1. Size \in T /\ T \subseteq Nat
    BY <1>1, <1>3
  <2>2. Min(T) \in T /\ \A k \in T : Min(T) <= k
    <3> HIDE DEF T
    <3> QED BY <2>1, LeastPlace
  <2>3. CommentEnd(i + 2) = IF Min(T) = Size THEN Size ELSE Min(T) + 2
    BY <1>3 DEF CommentEnd
  <2>4. ClosingStar(i) \subseteq T
    BY <1>1 DEF ClosingStar
  <2>5. CASE Min(T) = Size
    <3>1. ASSUME NEW k \in ClosingStar(i) PROVE FALSE
      <4>1. k \in T /\ k \in i + 2..Size - 1
        BY <2>4 DEF ClosingStar
      <4>2. Size <= k
        BY <2>2, <2>5, <4>1
      <4> QED BY <1>1, <4>1, <4>2
    <3> QED BY <1>1, <1>3, <2>3, <2>5, <3>1
  <2>6. CASE Min(T) # Size
    <3>1. PICK m \in Nat : m = Min(T)
      BY <2>1, <2>2
    <3>2. m \in i + 2..Size /\ m # Size /\ src[m] = "*" /\ src[m + 1] = "/"
      BY <2>2, <2>6, <3>1
    <3>3. m \in ClosingStar(i)
      BY <1>1, <3>2 DEF ClosingStar
    <3>4. \A k \in ClosingStar(i) : k >= m
      <4>1. \A k \in ClosingStar(i) : m <= k /\ k \in Nat
        BY <2>1, <2>2, <2>4, <3>1
      <4> QED BY <4>1
    <3>5. CommentEnd(i + 2) = m + 2 /\ (m + 2) - 1 = m + 1 /\ (m + 1) - 1 = m /\ m + 1 >= i + 3
      BY <1>1, <2>3, <2>6, <3>1, <3>2
    <3>6. m + 2 \in i + 2..Size + 1
      BY <1>1, <3>2
    <3>7. src[i] = "/" /\ src[i + 1] = "*" => BlockComment(i, m + 1)
      BY <3>3, <3>4, <3>5 DEF BlockComment
    <3> QED BY <3>5, <3>6, <3>7
  <2> QED BY <2>5, <2>6
<1> QED BY <1>2, <1>3

\* Whether a comment that is never closed starts at k.
OpenAt(k) == src[k] = "/" /\ src[k + 1] = "*" /\ ClosingStar(k) = {}

\* A turn passes a blank or a comment, or the rest of the text from a comment
\* that is never closed.
LEMMA SkipOne ==
  ASSUME Text, NEW i \in 1..Size + 1
  PROVE  /\ skip_one(i) \in i..Size + 1
         /\ i = Size + 1 => skip_one(i) = i
         /\ skip_one(i) # i => Piece(i, skip_one(i) - 1) \/ (OpenAt(i) /\ skip_one(i) >= i + 2 /\ skip_one(i) >= Size)
<1>1. Size \in Nat /\ i \in Nat
  BY TextFacts
<1>2. CASE i > Size
  BY <1>1, <1>2 DEF skip_one
<1>3. CASE ~(i > Size) /\ src[i] \in Blank
  <2>1. skip_one(i) = i + 1 /\ (i + 1) - 1 = i
    BY <1>1, <1>3 DEF skip_one
  <2> QED BY <1>1, <1>3, <2>1 DEF Piece
<1>4. CASE ~(i > Size) /\ src[i] \notin Blank /\ src[i] = "/" /\ Has(i + 1, "/")
  <2>1. i \in 1..Size /\ i + 1 <= Size /\ src[i + 1] = "/" /\ skip_one(i) = LineEnd(i)
    BY <1>1, <1>4 DEF skip_one, Has
  <2>2. PICK e \in i..Size + 1 : e = LineEnd(i)
    BY <2>1, LineEndFacts
  <2>3. (\A k \in i..e - 1 : src[k] # "\n") /\ (e <= Size => src[e] = "\n")
    BY <2>1, <2>2, LineEndFacts
  <2>4. e # i /\ e # i + 1
    <3>1. i <= Size /\ i + 1 <= Size
      BY <1>1, <2>1
    <3> QED BY <1>4, <2>1, <2>3, <3>1
  <2>5. e - 1 > i /\ (e - 1) + 1 = e /\ (e - 1 = Size \/ e <= Size)
    BY <1>1, <2>2, <2>4
  <2>6. LineComment(i, e - 1)
    BY <1>4, <2>1, <2>3, <2>5 DEF LineComment
  <2>7. i # Size + 1
    BY <1>1, <1>4
  <2> QED BY <2>1, <2>2, <2>6, <2>7 DEF Piece
<1>5. CASE ~(i > Size) /\ src[i] \notin Blank /\ src[i] = "/" /\ ~Has(i + 1, "/") /\ Has(i + 1, "*")
  <2>1. i \in 1..Size - 1 /\ src[i + 1] = "*" /\ skip_one(i) = CommentEnd(i + 2)
    BY <1>1, <1>5 DEF skip_one, Has
  <2>2. PICK e \in i + 2..Size + 1 : e = CommentEnd(i + 2)
    BY <2>1, CommentEndFacts
  <2>3. BlockComment(i, e - 1) \/ (ClosingStar(i) = {} /\ e >= Size)
    BY <1>5, <2>1, <2>2, CommentEndFacts
  <2>4. e \in i..Size + 1 /\ e >= i + 2 /\ i # Size + 1
    BY <1>1, <2>1
  <2> QED BY <1>5, <2>1, <2>2, <2>3, <2>4 DEF Piece, OpenAt
<1>6. CASE ~(i > Size) /\ src[i] \notin Blank /\ ~(src[i] = "/" /\ (Has(i + 1, "/") \/ Has(i + 1, "*")))
  <2>1. skip_one(i) = i
    BY <1>6 DEF skip_one
  <2> QED BY <1>1, <2>1
<1> QED BY <1>2, <1>3, <1>4, <1>5, <1>6

LEMMA SkippedIs ==
  ASSUME Text, NEW p \in 1..Size + 1
  PROVE  \E s : /\ s[0] = p /\ skip_whitespace_and_comments(p) = s[Size]
                /\ \A n \in 1..Size : s[n] = skip_one(s[n - 1])
                /\ \A n \in 0..Size : s[n] \in 1..Size + 1
<1> DEFINE Is(g) == g = [n \in 0..Size |-> IF n = 0 THEN p ELSE skip_one(g[n - 1])]
<1>0. PICK S, m, F : S = 1..Size + 1 /\ m = Size /\ F = [x \in S \X (1..m) |-> skip_one(x[1])]
  OBVIOUS
<1>1. Size \in Nat /\ 0 \in 0..Size /\ p \in S /\ m \in Nat
  BY <1>0, TextFacts
<1>2. \A x \in S : skip_one(x) \in S
  <2> TAKE x \in S
  <2>1. x \in 1..Size + 1
    BY <1>0
  <2>2. skip_one(x) \in x..Size + 1
    BY <2>1, SkipOne
  <2> QED BY <1>0, <1>1, <2>1, <2>2
<1>3. F \in [S \X (1..m) -> S]
  BY <1>0, <1>2
<1>4. HasRun(S, m, p, F)
  BY <1>1, <1>3, Run DEF IsStep
<1>5. PICK g \in [0..m -> S] : g[0] = p /\ \A i \in 1..m : g[i] = F[<<g[i - 1], i>>]
  BY <1>4 DEF HasRun
<1>6. Is(g)
  <2>1. \A n \in 0..Size : g[n] = IF n = 0 THEN p ELSE skip_one(g[n - 1])
    <3> TAKE n \in 0..Size
    <3>1. CASE n = 0
      BY <1>5, <3>1
    <3>2. CASE n # 0
      <4>1. n \in 1..m /\ n - 1 \in 0..m
        BY <1>0, <1>1, <3>2
      <4>2. g[n - 1] \in S
        BY <4>1
      <4>3. F[<<g[n - 1], n>>] = skip_one(g[n - 1])
        BY <1>0, <4>1, <4>2
      <4> QED BY <1>5, <3>2, <4>1, <4>3
    <3> QED BY <3>1, <3>2
  <2>2. g = [n \in 0..Size |-> g[n]]
    BY <1>0, <1>5
  <2> QED BY <2>1, <2>2
<1>7. PICK s : s = (CHOOSE h : Is(h)) /\ Is(s)
  <2> HIDE DEF Is
  <2> QED BY <1>6
<1>8. skip_whitespace_and_comments(p) = s[Size]
  BY <1>7 DEF skip_whitespace_and_comments
<1>9. s[0] = p /\ \A n \in 1..Size : s[n] = skip_one(s[n - 1])
  <2>1. s = [n \in 0..Size |-> IF n = 0 THEN p ELSE skip_one(s[n - 1])]
    BY <1>7
  <2>2. \A n \in 1..Size : n \in 0..Size /\ n # 0
    BY <1>1
  <2>3. 0 \in 0..Size
    BY <1>1
  <2> QED BY <2>1, <2>2, <2>3
<1> DEFINE P == {n \in Nat : n <= Size => s[n] \in S}
<1>10. 0 \in P
  BY <1>1, <1>9
<1>11. ASSUME NEW n \in Nat, n \in P PROVE n + 1 \in P
  <2> SUFFICES ASSUME n + 1 <= Size PROVE s[n + 1] \in S
    OBVIOUS
  <2>1. n + 1 \in 1..Size /\ (n + 1) - 1 = n /\ s[n] \in S
    BY <1>1, <1>11
  <2> QED BY <1>2, <1>9, <2>1
<1>12. \A n \in Nat : n \in P
  <2> HIDE DEF P
  <2> QED BY <1>10, <1>11, SetInduct
<1>13. \A n \in 0..Size : s[n] \in 1..Size + 1
  BY <1>0, <1>1, <1>12
<1> QED BY <1>8, <1>9, <1>13

LEMMA SkipFacts ==
  ASSUME Text, NEW i \in 1..Size + 1
  PROVE  LET e == skip_whitespace_and_comments(i)
         IN  /\ e \in i..Size + 1 /\ skip_one(e) = e
             /\ Skippable(i, e - 1) \/ LeftOpen(i, e - 1)
<1> DEFINE e == skip_whitespace_and_comments(i)
<1>1. PICK s : /\ s[0] = i /\ e = s[Size]
               /\ \A n \in 1..Size : s[n] = skip_one(s[n - 1])
               /\ \A n \in 0..Size : s[n] \in 1..Size + 1
  BY SkippedIs
<1>2. Size \in Nat /\ i \in Nat
  BY TextFacts
<1>3. \A n \in 0..Size : s[n] \in Nat
  BY <1>1, <1>2
<1> HIDE DEF e
<1>4. ASSUME NEW n \in 1..Size
      PROVE  /\ n - 1 \in 0..Size /\ n \in 0..Size /\ s[n - 1] \in 1..Size + 1 /\ s[n] \in s[n - 1]..Size + 1
             /\ s[n] = skip_one(s[n - 1])
             /\ s[n] # s[n - 1] => Piece(s[n - 1], s[n] - 1) \/ (OpenAt(s[n - 1]) /\ s[n] >= s[n - 1] + 2 /\ s[n] >= Size)
  <2>1. n - 1 \in 0..Size /\ n \in 0..Size
    BY <1>2
  <2>2. s[n - 1] \in 1..Size + 1 /\ s[n] = skip_one(s[n - 1])
    BY <1>1, <2>1
  <2> QED BY <2>1, <2>2, SkipOne
\* The turns do not go back.
<1> DEFINE Up == {n \in Nat : n <= Size => \A m \in 0..n : s[m] <= s[n]}
<1>5. 0 \in Up
  BY <1>2, <1>3
<1>6. ASSUME NEW n \in Nat, n \in Up PROVE n + 1 \in Up
  <2> SUFFICES ASSUME n + 1 <= Size, NEW m \in 0..n + 1 PROVE s[m] <= s[n + 1]
    OBVIOUS
  <2>1. n + 1 \in 1..Size /\ (n + 1) - 1 = n /\ n <= Size /\ n \in 0..Size
    BY <1>2
  <2>2. s[n + 1] \in s[n]..Size + 1 /\ s[n] \in Nat /\ s[n + 1] \in Nat
    <3>1. n + 1 \in 0..Size
      BY <2>1
    <3> QED BY <1>3, <1>4, <2>1, <3>1
  <2>3. s[n] <= s[n + 1]
    BY <2>2
  <2>4. CASE m = n + 1
    BY <2>2, <2>4
  <2>5. CASE m # n + 1
    <3>0. m \in Nat /\ m <= n + 1 /\ n \in Nat
      OBVIOUS
    <3>3. m <= n
      BY <2>5, <3>0
    <3>1. m \in 0..n /\ m \in 0..Size
      BY <1>2, <2>1, <3>0, <3>3
    <3>2. s[m] <= s[n] /\ s[m] \in Nat
      BY <1>3, <1>6, <2>1, <3>1
    <3> QED BY <2>2, <2>3, <3>2
  <2> QED BY <2>4, <2>5
<1>7. \A n \in 0..Size : \A m \in 0..n : s[m] <= s[n]
  <2>1. \A n \in Nat : n \in Up
    <3> HIDE DEF Up
    <3> QED BY <1>5, <1>6, SetInduct
  <2> QED BY <1>2, <2>1
\* A turn that is not the last moves on.
<1> DEFINE Done == {n \in Nat : n <= Size => skip_one(s[n]) = s[n] \/ s[n] >= i + n}
<1>8. 0 \in Done
  BY <1>1, <1>2
<1>9. ASSUME NEW n \in Nat, n \in Done PROVE n + 1 \in Done
  <2> SUFFICES ASSUME n + 1 <= Size PROVE skip_one(s[n + 1]) = s[n + 1] \/ s[n + 1] >= i + (n + 1)
    OBVIOUS
  <2>1. n + 1 \in 1..Size /\ (n + 1) - 1 = n /\ n <= Size /\ n \in 0..Size /\ n + 1 \in 0..Size
    BY <1>2
  <2>2. s[n + 1] = skip_one(s[n]) /\ s[n + 1] \in s[n]..Size + 1 /\ s[n] \in Nat /\ s[n + 1] \in Nat
    BY <1>3, <1>4, <2>1
  <2>3. CASE skip_one(s[n]) = s[n]
    BY <2>2, <2>3
  <2>4. CASE skip_one(s[n]) # s[n]
    <3>1. s[n] >= i + n
      BY <1>9, <2>1, <2>4
    <3>2. s[n + 1] >= s[n] + 1
      BY <2>2, <2>4
    <3> QED BY <1>2, <2>2, <3>1, <3>2
  <2> QED BY <2>3, <2>4
<1>10. \A n \in Nat : n \in Done
  <2> HIDE DEF Done
  <2> QED BY <1>8, <1>9, SetInduct
<1>11. e \in i..Size + 1 /\ skip_one(e) = e
  <2>1. Size \in 0..Size /\ 0 \in 0..Size
    BY <1>2
  <2>2. e \in 1..Size + 1 /\ i <= e
    BY <1>1, <1>7, <2>1
  <2>3. skip_one(e) = e \/ e >= i + Size
    BY <1>1, <1>2, <1>10
  <2>4. CASE e >= i + Size
    <3>1. e = Size + 1
      BY <1>2, <2>2, <2>4
    <3> QED BY <2>2, <3>1, SkipOne
  <2>5. e \in i..Size + 1
    BY <1>2, <2>2
  <2> QED BY <2>3, <2>4, <2>5
\* What the first N turns pass falls into pieces if each of them passes one.
<1>12. ASSUME NEW N \in 0..Size, \A n \in 1..N : s[n] # s[n - 1] => Piece(s[n - 1], s[n] - 1)
       PROVE  Skippable(i, s[N] - 1)
  <2> DEFINE d    == s[N]
             cuts == {s[n] : n \in 0..N}
  <2>0. N \in Nat /\ N <= Size /\ d \in Nat /\ d = s[N] /\ \A n \in 0..N : n \in 0..Size /\ n \in Nat /\ n <= N
    BY <1>2, <1>3
  <2> HIDE DEF d
  <2>1. (d - 1) + 1 = d
    BY <2>0
  <2>2. cuts \subseteq i..d
    <3> SUFFICES ASSUME NEW n \in 0..N PROVE s[n] \in i..d
      OBVIOUS
    <3>1. 0 \in 0..n /\ n \in 0..N /\ n \in 0..Size /\ N \in 0..Size
      BY <1>2, <2>0
    <3>2. i <= s[n] /\ s[n] <= d /\ s[n] \in Nat
      BY <1>1, <1>3, <1>7, <2>0, <3>1
    <3> QED BY <1>2, <2>0, <3>2
  <2>3. {i, d} \subseteq cuts
    BY <1>1, <1>2, <2>0
  <2>4. ASSUME NEW a \in cuts, NEW b \in cuts, a < b, cuts \cap a + 1..b - 1 = {}
        PROVE  Piece(a, b - 1)
    <3>1. PICK n \in 0..N : a = s[n]
      OBVIOUS
    <3> DEFINE Leads == {m \in 0..N : s[m] = b}
    <3>2. Leads \subseteq Nat /\ Leads # {}
      BY <2>0
    <3>3. PICK m \in Leads : \A k \in Leads : m <= k
      <4> HIDE DEF Leads
      <4> QED BY <3>2, LeastElement
    <3>4. m \in 0..N /\ m \in 0..Size /\ n \in 0..Size /\ s[m] = b /\ a \in Nat /\ b \in Nat
      BY <1>3, <2>0, <3>1, <3>3
    <3>5. m > n
      <4> SUFFICES ASSUME m <= n PROVE FALSE
        BY <1>2, <3>4
      <4>1. m \in 0..n
        BY <1>2, <3>4
      <4>2. b <= a
        BY <1>7, <3>1, <3>4, <4>1
      <4> QED BY <2>4, <3>4, <4>2
    <3>6. m \in 1..N /\ m \in 1..Size /\ m - 1 \in 0..N /\ m - 1 \in 0..Size /\ n \in 0..m - 1 /\ ~(m <= m - 1)
      BY <1>2, <2>0, <3>4, <3>5
    <3>7. s[m - 1] # b
      BY <3>3, <3>6
    <3>8. s[m - 1] \in Nat /\ a <= s[m - 1] /\ s[m - 1] <= b
      <4>1. s[m] \in s[m - 1]..Size + 1
        BY <1>4, <3>6
      <4>2. a <= s[m - 1]
        BY <1>7, <3>1, <3>6
      <4>3. s[m - 1] \in Nat
        BY <1>3, <3>6
      <4> QED BY <3>4, <4>1, <4>2, <4>3
    <3>9. s[m - 1] \in cuts
      BY <3>6
    <3>10. s[m - 1] = a
      <4> SUFFICES ASSUME s[m - 1] # a PROVE FALSE
        OBVIOUS
      <4>1. s[m - 1] \in a + 1..b - 1
        BY <3>4, <3>7, <3>8
      <4> HIDE DEF cuts
      <4> QED BY <2>4, <3>9, <4>1
    <3> QED BY <1>12, <3>4, <3>6, <3>7, <3>10
  <2>5. cuts \in SUBSET (i..(d - 1) + 1) /\ {i, (d - 1) + 1} \subseteq cuts
    BY <2>1, <2>2, <2>3
  <2> HIDE DEF cuts
  <2>6. Skippable(i, d - 1)
    BY <2>4, <2>5 DEF Skippable
  <2> QED BY <2>0, <2>6
<1>13. CASE \E n \in 1..Size : s[n] # s[n - 1] /\ ~Piece(s[n - 1], s[n] - 1)
  <2> DEFINE Opens == {n \in 1..Size : s[n] # s[n - 1] /\ ~Piece(s[n - 1], s[n] - 1)}
  <2>1. Opens \subseteq Nat /\ Opens # {}
    BY <1>2, <1>13
  <2>2. PICK n \in Opens : \A k \in Opens : n <= k
    <3> HIDE DEF Opens
    <3> QED BY <2>1, LeastElement
  <2>3. PICK a : a = s[n - 1]
    OBVIOUS
  <2>4. n \in 1..Size /\ OpenAt(a) /\ s[n] >= a + 2 /\ s[n] >= Size
    BY <1>4, <2>2, <2>3
  <2>5. Skippable(i, a - 1)
    <3>1. n - 1 \in 0..Size /\ \A k \in 1..n - 1 : k \in 1..Size /\ ~(n <= k)
      BY <1>2, <2>4
    <3>2. \A k \in 1..n - 1 : s[k] # s[k - 1] => Piece(s[k - 1], s[k] - 1)
      BY <2>2, <3>1
    <3> QED BY <1>12, <2>3, <3>1, <3>2
  <2>6. a \in Nat /\ s[n] \in Nat /\ e \in Nat /\ i <= a /\ s[n] <= e
    <3>1. n - 1 \in 0..Size /\ n \in 0..Size /\ Size \in 0..Size /\ 0 \in 0..n - 1
      BY <1>2, <2>4
    <3> QED BY <1>1, <1>3, <1>7, <2>3, <3>1
  <2>7. a \in i..(e - 1) - 1 /\ e - 1 >= Size - 1
    BY <1>2, <2>4, <2>6
  <2>8. LeftOpen(i, e - 1)
    BY <2>4, <2>5, <2>7 DEF LeftOpen, OpenAt
  <2> QED BY <1>11, <2>8 DEF e
<1>14. CASE \A n \in 1..Size : s[n] # s[n - 1] => Piece(s[n - 1], s[n] - 1)
  <2>1. Size \in 0..Size
    BY <1>2
  <2>2. Skippable(i, e - 1)
    BY <1>1, <1>12, <1>14, <2>1
  <2> QED BY <1>11, <2>2 DEF e
<1> QED BY <1>13, <1>14

(***************************************************************************)
(* String literals.                                                        *)
(***************************************************************************)
\* Everything a literal of the text can mean.
Meanings == {src[i] : i \in 1..Size} \cup {Decoded(src[i]) : i \in 1..Size}
              \cup {Byte(src[p[1]], src[p[2]]) : p \in (1..Size) \X (1..Size)}
\* A buffer that holds what has been written to it.
Held    == {b \in [len : Nat, cap : Nat, over : {FALSE}] : b.len <= b.cap /\ b.cap >= 4}
Buffers == [len : Nat, cap : Nat, over : BOOLEAN]
\* The states of the loop from p on.
Loops(p) == [i : p..Size + 1, raw : Held, val : Buffers, text : Seq(Meanings), closed : BOOLEAN]

Buf(len, cap) == [len |-> len, cap |-> cap, over |-> FALSE]

LEMMA Grows ==
  ASSUME NEW len \in Nat, NEW cap \in Nat, NEW n \in Nat
  PROVE  /\ n > cap => Grow(Buf(len, cap), n) = Buf(len, 2 * cap)
         /\ ~(n > cap) => Grow(Buf(len, cap), n) = Buf(len, cap)
<1>1. CASE n > cap
  BY <1>1 DEF Grow, Buf
<1>2. CASE ~(n > cap)
  BY <1>2 DEF Grow, Buf
<1> QED BY <1>1, <1>2

LEMMA Writes ==
  ASSUME NEW len \in Nat, NEW cap \in Nat, NEW n \in Nat, ~(len + n > cap)
  PROVE  Write(Buf(len, cap), n) = Buf(len + n, cap)
BY DEF Write, Buf

LEMMA BufferType ==
  ASSUME NEW b \in Buffers, NEW n \in Nat
  PROVE  Grow(b, n) \in Buffers /\ Write(b, n) \in Buffers
<1>1. b.len \in Nat /\ b.cap \in Nat /\ b.over \in BOOLEAN /\ 2 * b.cap \in Nat /\ b.len + n \in Nat
  BY DEF Buffers
<1>2. Grow(b, n) \in Buffers
  <2>1. CASE n > b.cap
    <3>1. [b EXCEPT !.cap = 2 * @] \in Buffers
      BY <1>1 DEF Buffers
    <3> QED BY <2>1, <3>1 DEF Grow
  <2>2. CASE ~(n > b.cap)
    BY <2>2 DEF Grow
  <2> QED BY <2>1, <2>2
<1>3. Write(b, n) \in Buffers
  <2>1. (IF b.len + n > b.cap THEN TRUE ELSE b.over) \in BOOLEAN
    BY <1>1
  <2>2. \A o \in BOOLEAN : [len |-> b.len + n, cap |-> b.cap, over |-> o] \in Buffers
    BY <1>1 DEF Buffers
  <2> QED BY Zenon, <2>1, <2>2 DEF Write
<1> QED BY <1>2, <1>3

\* Room for n more characters, which are then written within the buffer.
Room(b, n) == \E len, cap \in Nat : b = Buf(len, cap) /\ b.len = len /\ len + n <= cap /\ cap >= 4

LEMMA RoomHeld ==
  ASSUME NEW b
  PROVE  b \in Held <=> Room(b, 0)
<1>1. ASSUME b \in Held PROVE Room(b, 0)
  <2>1. PICK len \in Nat, cap \in Nat : b = Buf(len, cap) /\ b.len = len /\ len <= cap /\ cap >= 4
    BY <1>1 DEF Held, Buf
  <2>2. len + 0 <= cap
    BY <2>1
  <2> QED BY <2>1, <2>2 DEF Room
<1>2. ASSUME Room(b, 0) PROVE b \in Held
  <2>1. PICK len \in Nat, cap \in Nat : b = Buf(len, cap) /\ b.len = len /\ len + 0 <= cap /\ cap >= 4
    BY <1>2 DEF Room
  <2>2. len <= cap
    BY <2>1
  <2> QED BY <2>1, <2>2 DEF Held, Buf
<1> QED BY <1>1, <1>2

\* Growing a buffer that k more characters fit in for n > k of them makes room
\* for k + 3 or n.
LEMMA RoomGrown ==
  ASSUME NEW b, NEW k \in Nat, Room(b, k), NEW n \in Nat, NEW needed \in Nat, needed >= b.len + n, n <= k + 4
  PROVE  Room(Grow(b, needed), n)
<1>1. PICK len \in Nat, cap \in Nat : b = Buf(len, cap) /\ b.len = len /\ len + k <= cap /\ cap >= 4
  BY DEF Room
<1>2. CASE needed > cap
  <2>1. Grow(Buf(len, cap), needed) = Buf(len, 2 * cap)
    BY <1>2, Grows
  <2>2. 2 * cap \in Nat /\ len + n <= 2 * cap /\ 2 * cap >= 4
    BY <1>1
  <2>3. Buf(len, 2 * cap).len = len
    BY DEF Buf
  <2> QED BY <1>1, <2>1, <2>2, <2>3 DEF Room
<1>3. CASE ~(needed > cap)
  <2>1. Grow(Buf(len, cap), needed) = Buf(len, cap)
    BY <1>3, Grows
  <2>2. len + n <= cap
    BY <1>1, <1>3
  <2>3. Buf(len, cap).len = len
    BY DEF Buf
  <2> QED BY <1>1, <2>1, <2>2, <2>3 DEF Room
<1> QED BY <1>2, <1>3

LEMMA RoomWritten ==
  ASSUME NEW b, NEW k \in Nat, Room(b, k), NEW n \in Nat, n <= k
  PROVE  Room(Write(b, n), k - n) /\ b.len \in Nat /\ Write(b, n).len = b.len + n
<1>1. PICK len \in Nat, cap \in Nat : b = Buf(len, cap) /\ b.len = len /\ len + k <= cap /\ cap >= 4
  BY DEF Room
<1>2. ~(len + n > cap) /\ len + n \in Nat /\ (len + n) + (k - n) <= cap
  BY <1>1
<1>3. Write(Buf(len, cap), n) = Buf(len + n, cap)
  BY <1>2, Writes
<1>4. Buf(len + n, cap).len = len + n
  BY DEF Buf
<1> QED BY <1>1, <1>2, <1>3, <1>4 DEF Room

\* The lexeme is grown for what a turn writes to it.
LEMMA RawHeld ==
  ASSUME NEW b \in Held
  PROVE  LET raw == Grow(b, b.len + 2)
         IN  Write(raw, 1) \in Held /\ Write(raw, 2) \in Held /\ HexLexeme(raw) \in Held
<1> DEFINE raw == Grow(b, b.len + 2)
<1>1. Room(b, 0) /\ b.len \in Nat
  BY RoomHeld DEF Held
<1>2. Room(raw, 2)
  <2>1. b.len + 2 \in Nat /\ 2 <= 0 + 4
    BY <1>1
  <2> QED BY <1>1, <2>1, RoomGrown
<1> HIDE DEF raw
<1>3. \A x : Room(x, 1) => Room(x, 0)
  <2> SUFFICES ASSUME NEW x, Room(x, 1) PROVE Room(x, 0)
    OBVIOUS
  <2>1. PICK len \in Nat, cap \in Nat : x = Buf(len, cap) /\ x.len = len /\ len + 1 <= cap /\ cap >= 4
    BY DEF Room
  <2>2. len + 0 <= cap
    BY <2>1
  <2> QED BY <2>1, <2>2 DEF Room
<1>4. Room(Write(raw, 1), 1) /\ Write(raw, 1).len = raw.len + 1 /\ raw.len \in Nat
  <2>1. 2 - 1 = 1 /\ 1 <= 2
    OBVIOUS
  <2> QED BY <1>2, <2>1, RoomWritten
<1>5. Room(Write(raw, 2), 0)
  <2>1. 2 - 2 = 0 /\ 2 <= 2
    OBVIOUS
  <2> QED BY <1>2, <2>1, RoomWritten
<1>6. Room(Grow(Write(raw, 1), raw.len + 5), 3)
  <2>1. raw.len + 5 \in Nat /\ raw.len + 5 >= Write(raw, 1).len + 3 /\ 3 <= 1 + 4
    BY <1>4
  <2> QED BY <1>4, <2>1, RoomGrown
<1>7. Room(HexLexeme(raw), 0)
  <2>1. 3 - 3 = 0 /\ 3 <= 3
    OBVIOUS
  <2> QED BY <1>6, <2>1, RoomWritten DEF HexLexeme
<1> QED BY <1>3, <1>4, <1>5, <1>7, RoomHeld DEF raw

LEMMA TurnType ==
  ASSUME Text, NEW p \in Nat, NEW s \in Loops(p), s.i <= Size, p >= 1
  PROVE  StringTurn(s) \in Loops(p) /\ StringTurn(s).i > s.i
<1> DEFINE i   == s.i
           raw == Grow(s.raw, s.raw.len + 2)
           val == Grow(s.val, s.val.len + 2)
<1>1. Size \in Nat /\ i \in Nat /\ i \in 1..Size /\ i \in p..Size + 1
  BY TextFacts DEF Loops
<1>2. s.raw \in Held /\ s.val \in Buffers /\ s.text \in Seq(Meanings) /\ s.closed \in BOOLEAN
  BY DEF Loops
<1>3. Write(raw, 1) \in Held /\ Write(raw, 2) \in Held /\ HexLexeme(raw) \in Held
  BY <1>2, RawHeld
<1>4. val \in Buffers /\ Write(val, 1) \in Buffers /\ Write(s.val, 1) \in Buffers
  <2>1. s.val.len + 2 \in Nat
    BY <1>2 DEF Buffers
  <2>2. val \in Buffers
    BY <1>2, <2>1, BufferType
  <2> HIDE DEF val
  <2> QED BY <1>2, <2>2, BufferType
<1>5. \A m \in Meanings : Append(s.text, m) \in Seq(Meanings)
  BY <1>2, AppendProperties
<1>6. ASSUME NEW j \in p..Size + 1, NEW r \in Held, NEW v \in Buffers, NEW x \in Seq(Meanings), NEW c \in BOOLEAN
      PROVE  String(j, r, v, x, c) \in Loops(p) /\ String(j, r, v, x, c).i = j
  BY DEF String, Loops
<1> DEFINE t == StringTurn(s)
<1>12. ASSUME NEW j \in p..Size + 1, j > i, NEW r \in Held, NEW v \in Buffers, NEW x \in Seq(Meanings),
              t = String(j, r, v, x, TRUE) \/ t = String(j, r, v, x, FALSE)
       PROVE  t \in Loops(p) /\ t.i > i
  <2> HIDE DEF t
  <2>1. CASE t = String(j, r, v, x, TRUE)
    BY Zenon, <1>6, <1>12, <2>1
  <2>2. CASE t = String(j, r, v, x, FALSE)
    BY Zenon, <1>6, <1>12, <2>2
  <2> QED BY <1>12, <2>1, <2>2
<1> HIDE DEF raw, val, i
<1>7. CASE src[i] = "\""
  <2>1. StringTurn(s) = String(i + 1, Write(raw, 1), s.val, s.text, TRUE)
    BY <1>7 DEF StringTurn, raw, i
  <2>2. i + 1 \in p..Size + 1 /\ i + 1 > i
    BY <1>1
  <2> QED BY <1>2, <1>3, <1>12, <2>1, <2>2 DEF i
<1>8. CASE src[i] # "\"" /\ src[i] # "\\"
  <2>1. StringTurn(s) = String(i + 1, Write(raw, 1), Write(s.val, 1), Append(s.text, src[i]), FALSE)
    BY <1>8 DEF StringTurn, raw, i
  <2>2. i + 1 \in p..Size + 1 /\ i + 1 > i
    BY <1>1
  <2>3. src[i] \in Meanings
    BY <1>1 DEF Meanings
  <2> QED BY <1>3, <1>4, <1>5, <1>12, <2>1, <2>2, <2>3 DEF i
<1>9. CASE src[i] = "\\" /\ i = Size
  <2>1. StringTurn(s) = String(i + 1, Write(raw, 1), s.val, s.text, FALSE)
    BY <1>9 DEF StringTurn, raw, i
  <2>2. i + 1 \in p..Size + 1 /\ i + 1 > i
    BY <1>1
  <2> QED BY <1>2, <1>3, <1>12, <2>1, <2>2 DEF i
<1>10. CASE src[i] = "\\" /\ i # Size /\ IsHexEscape(i + 1)
  <2>1. StringTurn(s) = String(i + 4, HexLexeme(raw), Write(val, 1),
                               Append(s.text, Byte(src[i + 2], src[i + 3])), FALSE)
    BY <1>10 DEF StringTurn, raw, val, i
  <2>2. i + 4 \in p..Size + 1 /\ i + 4 > i /\ i + 2 \in 1..Size /\ i + 3 \in 1..Size
    BY <1>1, <1>10 DEF IsHexEscape
  <2>3. Byte(src[i + 2], src[i + 3]) \in Meanings
    <3>1. <<i + 2, i + 3>> \in (1..Size) \X (1..Size)
      BY <2>2
    <3> QED BY <3>1 DEF Meanings
  <2> QED BY <1>3, <1>4, <1>5, <1>12, <2>1, <2>2, <2>3 DEF i
<1>11. CASE src[i] = "\\" /\ i # Size /\ ~IsHexEscape(i + 1)
  <2>1. StringTurn(s) = String(i + 2, Write(raw, 2), Write(val, 1), Append(s.text, Decoded(src[i + 1])), FALSE)
    BY <1>11 DEF StringTurn, raw, val, i
  <2>2. i + 2 \in p..Size + 1 /\ i + 2 > i /\ i + 1 \in 1..Size
    BY <1>1, <1>11
  <2>3. Decoded(src[i + 1]) \in Meanings
    BY <2>2 DEF Meanings
  <2> QED BY <1>3, <1>4, <1>5, <1>12, <2>1, <2>2, <2>3 DEF i
<1> QED BY <1>7, <1>8, <1>9, <1>10, <1>11

Stopped(s) == s.closed \/ s.i > Size

\* The turns of the loop, and that it has stopped after the last of them.
LEMMA LoopIs ==
  ASSUME Text, NEW p \in 1..Size + 1, NEW start \in Loops(p)
  PROVE  \E s : /\ s[0] = start /\ StringLoop(start) = s[Size]
                /\ \A n \in 1..Size : s[n] = IF Stopped(s[n - 1]) THEN s[n - 1] ELSE StringTurn(s[n - 1])
                /\ \A n \in 0..Size : s[n] \in Loops(p)
                /\ Stopped(s[Size])
<1> DEFINE Turn(s) == IF s.closed \/ s.i > Size THEN s ELSE StringTurn(s)
           Is(g) == g = [n \in 0..Size |-> IF n = 0 THEN start ELSE Turn(g[n - 1])]
<1>0. PICK S, m, F : S = Loops(p) /\ m = Size /\ F = [x \in S \X (1..m) |-> Turn(x[1])]
  OBVIOUS
<1>1. Size \in Nat /\ 0 \in 0..Size /\ start \in S /\ m \in Nat /\ p \in Nat /\ p >= 1
  BY <1>0, TextFacts
<1>2. \A x \in S : Turn(x) \in S /\ Turn(x) = (IF Stopped(x) THEN x ELSE StringTurn(x)) /\ x.i \in Nat
                   /\ (~Stopped(x) => Turn(x).i > x.i)
  <2> TAKE x \in S
  <2>1. x \in Loops(p)
    BY <1>0
  <2>2. x.i \in p..Size + 1
    BY <2>1 DEF Loops
  <2>3. CASE Stopped(x)
    BY <1>1, <2>2, <2>3 DEF Stopped
  <2>4. CASE ~Stopped(x)
    <3>1. x.i <= Size /\ Turn(x) = StringTurn(x) /\ x.i \in Nat
      BY <1>1, <2>2, <2>4 DEF Stopped
    <3> QED BY <1>0, <1>1, <2>1, <2>4, <3>1, TurnType
  <2> QED BY <2>3, <2>4
<1> HIDE DEF Turn
<1>3. F \in [S \X (1..m) -> S]
  BY <1>0, <1>2
<1>4. HasRun(S, m, start, F)
  BY <1>1, <1>3, Run DEF IsStep
<1>5. PICK g \in [0..m -> S] : g[0] = start /\ \A i \in 1..m : g[i] = F[<<g[i - 1], i>>]
  BY <1>4 DEF HasRun
<1>6. Is(g)
  <2>1. \A n \in 0..Size : g[n] = IF n = 0 THEN start ELSE Turn(g[n - 1])
    <3> TAKE n \in 0..Size
    <3>1. CASE n = 0
      BY <1>5, <3>1
    <3>2. CASE n # 0
      <4>1. n \in 1..m /\ n - 1 \in 0..m
        BY <1>0, <1>1, <3>2
      <4>2. g[n - 1] \in S
        BY <4>1
      <4>3. F[<<g[n - 1], n>>] = Turn(g[n - 1])
        BY <1>0, <4>1, <4>2
      <4> QED BY <1>5, <3>2, <4>1, <4>3
    <3> QED BY <3>1, <3>2
  <2>2. g = [n \in 0..Size |-> g[n]]
    BY <1>0, <1>5
  <2> QED BY <2>1, <2>2
<1>7. PICK s : s = (CHOOSE h : Is(h)) /\ Is(s)
  <2> HIDE DEF Is
  <2> QED BY <1>6
<1>8. StringLoop(start) = s[Size]
  BY <1>7 DEF StringLoop, Turn
<1>9. s[0] = start /\ \A n \in 1..Size : s[n] = Turn(s[n - 1])
  <2>1. s = [n \in 0..Size |-> IF n = 0 THEN start ELSE Turn(s[n - 1])]
    BY <1>7
  <2>2. \A n \in 1..Size : n \in 0..Size /\ n # 0
    BY <1>1
  <2>3. 0 \in 0..Size
    BY <1>1
  <2> QED BY <2>1, <2>2, <2>3
<1> DEFINE P == {n \in Nat : n <= Size => s[n] \in S /\ (Stopped(s[n]) \/ s[n].i >= p + n)}
<1>10. 0 \in P
  <2>1. start.i \in p..Size + 1
    BY DEF Loops
  <2>2. start.i >= p + 0
    BY <1>1, <2>1
  <2> QED BY <1>1, <1>9, <2>2
<1>11. ASSUME NEW n \in Nat, n \in P PROVE n + 1 \in P
  <2> SUFFICES ASSUME n + 1 <= Size
               PROVE  s[n + 1] \in S /\ (Stopped(s[n + 1]) \/ s[n + 1].i >= p + (n + 1))
    OBVIOUS
  <2>1. n + 1 \in 1..Size /\ (n + 1) - 1 = n /\ s[n] \in S /\ (Stopped(s[n]) \/ s[n].i >= p + n)
    BY <1>1, <1>11
  <2>2. s[n + 1] = Turn(s[n]) /\ s[n + 1] \in S /\ s[n].i \in Nat /\ s[n + 1].i \in Nat
    BY <1>2, <1>9, <2>1
  <2>3. CASE Stopped(s[n])
    <3>1. s[n + 1] = s[n]
      BY <1>2, <2>1, <2>2, <2>3
    <3> QED BY <2>2, <2>3, <3>1
  <2>4. CASE ~Stopped(s[n])
    <3>1. s[n + 1].i > s[n].i /\ s[n].i >= p + n
      BY <1>2, <2>1, <2>2, <2>4
    <3>2. s[n + 1].i >= p + (n + 1)
      BY <1>1, <2>2, <3>1
    <3> QED BY <2>2, <3>2
  <2> QED BY <2>3, <2>4
<1>12. \A n \in Nat : n \in P
  <2> HIDE DEF P
  <2> QED BY <1>10, <1>11, SetInduct
<1>13. \A n \in 0..Size : s[n] \in Loops(p)
  BY <1>0, <1>1, <1>12
<1>14. \A n \in 1..Size : s[n] = IF Stopped(s[n - 1]) THEN s[n - 1] ELSE StringTurn(s[n - 1])
  <2>1. \A n \in 1..Size : n - 1 \in 0..Size
    BY <1>1
  <2> QED BY <1>0, <1>2, <1>9, <1>13, <2>1
<1>15. Stopped(s[Size])
  <2>1. Stopped(s[Size]) \/ s[Size].i >= p + Size
    BY <1>1, <1>12
  <2>2. s[Size].i \in Nat
    BY <1>1, <1>2, <1>12
  <2>3. s[Size].i >= p + Size => s[Size].i > Size
    BY <1>1, <2>2
  <2> QED BY <2>1, <2>3 DEF Stopped
<1> QED BY <1>8, <1>9, <1>13, <1>14, <1>15

(***************************************************************************)
(* Numbers.                                                                *)
(***************************************************************************)
LEMMA DigitType == \A c \in Hex : DigitValue(c) \in 0..15
<1>1. /\ Low[1] = "0" /\ Low[2] = "1" /\ Low[3] = "2" /\ Low[4] = "3" /\ Low[5] = "4" /\ Low[6] = "5"
      /\ Low[7] = "6" /\ Low[8] = "7" /\ Low[9] = "8" /\ Low[10] = "9" /\ Low[11] = "a" /\ Low[12] = "b"
      /\ Low[13] = "c" /\ Low[14] = "d" /\ Low[15] = "e" /\ Low[16] = "f"
      /\ High[11] = "A" /\ High[12] = "B" /\ High[13] = "C" /\ High[14] = "D" /\ High[15] = "E"
      /\ High[16] = "F"
  BY DEF Low, High
<1> SUFFICES ASSUME NEW c \in Hex PROVE \E n \in 0..15 : c \in {Low[n + 1], High[n + 1]}
  BY DEF DigitValue
<1>2. \E m \in 1..16 : c = Low[m] \/ c = High[m]
  <2>1. CASE c \in {"0", "1", "2", "3", "4"}
    BY <1>1, <2>1
  <2>2. CASE c \in {"5", "6", "7", "8", "9"}
    BY <1>1, <2>2
  <2>3. CASE c \in {"a", "b", "c", "d", "e", "f"}
    BY <1>1, <2>3
  <2>4. CASE c \in {"A", "B", "C", "D", "E", "F"}
    BY <1>1, <2>4
  <2> QED BY <2>1, <2>2, <2>3, <2>4 DEF Hex, Digit, HexLow, HexHigh
<1>3. PICK m \in 1..16 : c = Low[m] \/ c = High[m]
  BY <1>2
<1>4. m - 1 \in 0..15 /\ (m - 1) + 1 = m
  OBVIOUS
<1> QED BY <1>3, <1>4

Values == -Half..Largest
LEMMA WrappedType == \A n \in Int : Wrapped(n) \in Values
<1> SUFFICES ASSUME NEW n \in Int PROVE Wrapped(n) \in Values
  OBVIOUS
<1>1. Half \in Nat \ {0} /\ 2 * Half \in Nat \ {0}
  BY SizesAssumption
<1>2. PICK m \in Nat, h \in Nat : m = (n + Half) % (2 * Half) /\ h = Half /\ m < 2 * h
  <2>1. \A a \in Int, b \in Nat \ {0} : a % b \in 0..b - 1
    OBVIOUS
  <2>2. (n + Half) % (2 * Half) \in 0..2 * Half - 1
    BY <1>1, <2>1
  <2> QED BY <1>1, <2>2
<1>3. m - h \in -h..h - 1
  BY <1>2
<1> QED BY <1>2, <1>3 DEF Wrapped, Values, Largest

LEMMA SaturatedType == \A n \in Nat : Saturated(n) \in 0..Largest
BY SizesAssumption DEF Saturated, Largest

\* A recursion over the places from a to b that stays in S at every step.
Stays(S, a, b, F) == \A x \in S : \A k \in a..b : F[<<x, k>>] \in S
HasRunOver(S, zero, a, b, F) ==
  \E g : /\ g = [k \in a - 1..b |-> IF k = a - 1 THEN zero ELSE F[<<g[k - 1], k>>]]
         /\ \A k \in a - 1..b : g[k] \in S
LEMMA OverPlaces ==
  ASSUME NEW S, NEW zero \in S, NEW a \in Nat, NEW b \in Nat, a >= 1, b >= a - 1,
         NEW F, Stays(S, a, b, F)
  PROVE  HasRunOver(S, zero, a, b, F)
<1> DEFINE n == b - (a - 1)
           G == [y \in S \X (1..n) |-> F[<<y[1], (a - 1) + y[2]>>]]
<1>1. n \in Nat /\ \A i \in 1..n : (a - 1) + i \in a..b
  OBVIOUS
<1>2. IsStep(S, n, G)
  <2> DEFINE Succ(y) == F[<<y[1], (a - 1) + y[2]>>]
  <2>1. ASSUME NEW y \in S \X (1..n) PROVE Succ(y) \in S
    <3>1. y[1] \in S /\ (a - 1) + y[2] \in a..b
      BY <1>1
    <3> QED BY <3>1 DEF Stays
  <2> HIDE DEF Succ
  <2>2. [y \in S \X (1..n) |-> Succ(y)] \in [S \X (1..n) -> S]
    BY <2>1
  <2>3. G \in [S \X (1..n) -> S]
    BY <2>2 DEF Succ
  <2> QED BY <2>3 DEF IsStep
<1>3. PICK h \in [0..n -> S] : h[0] = zero /\ \A i \in 1..n : h[i] = G[<<h[i - 1], i>>]
  <2> HIDE DEF n, G
  <2>1. HasRun(S, n, zero, G)
    BY <1>1, <1>2, Run
  <2> QED BY <2>1 DEF HasRun
<1> DEFINE g == [k \in a - 1..b |-> h[k - (a - 1)]]
<1>4. ASSUME NEW k \in a - 1..b
      PROVE  g[k] \in S /\ g[k] = IF k = a - 1 THEN zero ELSE F[<<g[k - 1], k>>]
  <2> DEFINE i == k - (a - 1)
  <2>1. i \in 0..n /\ g[k] = h[i]
    OBVIOUS
  <2>2. CASE k = a - 1
    BY <1>3, <2>1, <2>2
  <2>3. CASE k # a - 1
    <3>1. i \in 1..n /\ i - 1 \in 0..n /\ k - 1 \in a - 1..b /\ (k - 1) - (a - 1) = i - 1 /\ (a - 1) + i = k
      BY <2>3
    <3>2. g[k - 1] = h[i - 1] /\ h[i - 1] \in S
      BY <3>1
    <3> HIDE DEF g, n
    <3>3. G[<<h[i - 1], i>>] = F[<<h[i - 1], k>>]
      <4> HIDE DEF i
      <4> QED BY <3>1, <3>2
    <3> HIDE DEF G, i
    <3> QED BY <1>3, <2>1, <2>3, <3>1, <3>2, <3>3
  <2> QED BY <2>2, <2>3
<1>5. g = [k \in a - 1..b |-> g[k]]
  OBVIOUS
<1> HIDE DEF g
<1>6. [k \in a - 1..b |-> g[k]] = [k \in a - 1..b |-> IF k = a - 1 THEN zero ELSE F[<<g[k - 1], k>>]]
  BY <1>4
<1> QED BY <1>4, <1>5, <1>6 DEF HasRunOver

LEMMA AlongPlaces ==
  ASSUME NEW S, NEW a \in Nat, NEW b \in Nat, a >= 1, b >= a - 1,
         NEW f, f[a - 1] \in S, \A k \in a..b : f[k - 1] \in S => f[k] \in S
  PROVE  f[b] \in S
<1> DEFINE P == {n \in Nat : (a - 1) + n <= b => f[(a - 1) + n] \in S}
<1>1. 0 \in P
  <2>1. (a - 1) + 0 = a - 1
    OBVIOUS
  <2> QED BY <2>1
<1>2. ASSUME NEW n \in Nat, n \in P PROVE n + 1 \in P
  <2> SUFFICES ASSUME (a - 1) + (n + 1) <= b PROVE f[(a - 1) + (n + 1)] \in S
    OBVIOUS
  <2>1. PICK k \in a..b : k = (a - 1) + (n + 1) /\ k - 1 = (a - 1) + n
    OBVIOUS
  <2>2. f[(a - 1) + n] \in S
    BY <1>2
  <2> QED BY <2>1, <2>2
<1>3. \A n \in Nat : n \in P
  <2> HIDE DEF P
  <2> QED BY <1>1, <1>2, SetInduct
<1>4. b - (a - 1) \in Nat /\ (a - 1) + (b - (a - 1)) = b
  OBVIOUS
<1> QED BY <1>3, <1>4

LEMMA ShiftIs ==
  ASSUME NEW a \in Nat, NEW b \in Nat, a >= 1, b >= a - 1, NEW base \in Nat, \A k \in a..b : src[k] \in Hex
  PROVE  \E f : /\ Shift(a, b, base) = f[b] /\ f[a - 1] = 0 /\ f[b] \in Values
                /\ \A k \in a..b : f[k] = Wrapped(f[k - 1] * base + DigitValue(src[k]))
<1> DEFINE Step(x, k) == Wrapped(x * base + DigitValue(src[k]))
           Is(g) == g = [k \in a - 1..b |-> IF k = a - 1 THEN 0 ELSE Step(g[k - 1], k)]
           F == [y \in Values \X (a..b) |-> Step(y[1], y[2])]
<1>1. \A x \in Values : \A k \in a..b : Step(x, k) \in Values
  <2> TAKE x \in Values
  <2> TAKE k \in a..b
  <2>1. PICK d \in Int, y \in Int : d = DigitValue(src[k]) /\ y = x
    BY DigitType, SizesAssumption DEF Values, Largest
  <2>2. y * base + d \in Int
    OBVIOUS
  <2> QED BY <2>1, <2>2, WrappedType
<1>2. 0 \in Values
  BY SizesAssumption DEF Values, Largest
<1> HIDE DEF Step
<1>3. \A x \in Values : \A k \in a..b : F[<<x, k>>] = Step(x, k)
  OBVIOUS
<1>4. PICK g : /\ g = [k \in a - 1..b |-> IF k = a - 1 THEN 0 ELSE F[<<g[k - 1], k>>]]
               /\ \A k \in a - 1..b : g[k] \in Values
  <2>1. Stays(Values, a, b, F)
    BY <1>1, <1>3 DEF Stays
  <2> HIDE DEF F
  <2> QED BY <1>2, <2>1, OverPlaces DEF HasRunOver
<1> HIDE DEF F
<1>5. Is(g)
  <2>1. ASSUME NEW k \in a - 1..b, k # a - 1
        PROVE  F[<<g[k - 1], k>>] = Step(g[k - 1], k)
    <3>1. k - 1 \in a - 1..b /\ k \in a..b
      BY <2>1
    <3> QED BY <1>3, <1>4, <3>1
  <2>2. [k \in a - 1..b |-> IF k = a - 1 THEN 0 ELSE F[<<g[k - 1], k>>]]
          = [k \in a - 1..b |-> IF k = a - 1 THEN 0 ELSE Step(g[k - 1], k)]
    BY <2>1
  <2> QED BY <1>4, <2>2
<1>6. PICK f : f = (CHOOSE h : Is(h)) /\ Is(f)
  <2> HIDE DEF Is
  <2> QED BY <1>5
<1>7. Shift(a, b, base) = f[b]
  BY <1>6 DEF Shift, Step
<1>8. f[a - 1] = 0 /\ \A k \in a..b : f[k] = Step(f[k - 1], k)
  <2>1. f = [k \in a - 1..b |-> IF k = a - 1 THEN 0 ELSE Step(f[k - 1], k)]
    BY <1>6
  <2>2. a - 1 \in a - 1..b /\ \A k \in a..b : k \in a - 1..b /\ k # a - 1
    OBVIOUS
  <2> QED BY <2>1, <2>2
<1>9. \A k \in a..b : f[k - 1] \in Values => f[k] \in Values
  BY <1>1, <1>8
<1>10. f[b] \in Values
  BY <1>2, <1>8, <1>9, AlongPlaces
<1> QED BY <1>7, <1>8, <1>10 DEF Step

LEMMA strtollIs ==
  ASSUME NEW a \in Nat, NEW b \in Nat, a >= 1, b >= a - 1, \A k \in a..b : src[k] \in Digit
  PROVE  \E f : /\ strtoll(a, b) = f[b] /\ f[a - 1] = 0 /\ f[b] \in Values
                /\ \A k \in a..b : f[k] = Saturated(f[k - 1] * 10 + DigitValue(src[k]))
<1> DEFINE S == 0..Largest
           Step(x, k) == Saturated(x * 10 + DigitValue(src[k]))
           Is(g) == g = [k \in a - 1..b |-> IF k = a - 1 THEN 0 ELSE Step(g[k - 1], k)]
           F == [y \in S \X (a..b) |-> Step(y[1], y[2])]
<1>0. S \subseteq Values /\ S \subseteq Nat /\ 0 \in S
  BY SizesAssumption DEF Values, Largest
<1>1. \A x \in S : \A k \in a..b : Step(x, k) \in S
  <2> TAKE x \in S
  <2> TAKE k \in a..b
  <2>1. src[k] \in Hex
    BY DEF Hex
  <2>2. PICK d \in Nat, y \in Nat : d = DigitValue(src[k]) /\ y = x
    BY <1>0, <2>1, DigitType
  <2>3. y * 10 + d \in Nat
    OBVIOUS
  <2> QED BY <2>2, <2>3, SaturatedType
<1> HIDE DEF Step, S
<1>3. \A x \in S : \A k \in a..b : F[<<x, k>>] = Step(x, k)
  OBVIOUS
<1>4. PICK g : /\ g = [k \in a - 1..b |-> IF k = a - 1 THEN 0 ELSE F[<<g[k - 1], k>>]]
               /\ \A k \in a - 1..b : g[k] \in S
  <2>1. Stays(S, a, b, F)
    BY <1>1, <1>3 DEF Stays
  <2> HIDE DEF F
  <2> QED BY <1>0, <2>1, OverPlaces DEF HasRunOver
<1> HIDE DEF F
<1>5. Is(g)
  <2>1. ASSUME NEW k \in a - 1..b, k # a - 1
        PROVE  F[<<g[k - 1], k>>] = Step(g[k - 1], k)
    <3>1. k - 1 \in a - 1..b /\ k \in a..b
      BY <2>1
    <3> QED BY <1>3, <1>4, <3>1
  <2>2. [k \in a - 1..b |-> IF k = a - 1 THEN 0 ELSE F[<<g[k - 1], k>>]]
          = [k \in a - 1..b |-> IF k = a - 1 THEN 0 ELSE Step(g[k - 1], k)]
    BY <2>1
  <2> QED BY <1>4, <2>2
<1>6. PICK f : f = (CHOOSE h : Is(h)) /\ Is(f)
  <2> HIDE DEF Is
  <2> QED BY <1>5
<1>7. strtoll(a, b) = f[b]
  BY <1>6 DEF strtoll, Step
<1>8. f[a - 1] = 0 /\ \A k \in a..b : f[k] = Step(f[k - 1], k)
  <2>1. f = [k \in a - 1..b |-> IF k = a - 1 THEN 0 ELSE Step(f[k - 1], k)]
    BY <1>6
  <2>2. a - 1 \in a - 1..b /\ \A k \in a..b : k \in a - 1..b /\ k # a - 1
    OBVIOUS
  <2> QED BY <2>1, <2>2
<1>9. \A k \in a..b : f[k - 1] \in S => f[k] \in S
  BY <1>1, <1>8
<1>10. f[b] \in S
  BY <1>0, <1>8, <1>9, AlongPlaces
<1> QED BY <1>0, <1>7, <1>8, <1>10 DEF Step


\* The number digits stand for.
Numbers(f, a, b, base) ==
  /\ f[a - 1] = 0 /\ \A k \in a - 1..b : f[k] \in Nat
  /\ \A k \in a..b : f[k] = base * f[k - 1] + DigitValue(src[k])
LEMMA DigitsIs ==
  ASSUME NEW a \in Nat, NEW b \in Nat, a >= 1, b >= a - 1, NEW base \in Nat, \A k \in a..b : src[k] \in Hex
  PROVE  \E f : Digits(a, b, base) = f[b] /\ Numbers(f, a, b, base)
<1> DEFINE Step(x, k) == base * x + DigitValue(src[k])
           Is(g) == g = [k \in a - 1..b |-> IF k = a - 1 THEN 0 ELSE Step(g[k - 1], k)]
           F == [y \in Nat \X (a..b) |-> Step(y[1], y[2])]
<1>1. \A x \in Nat : \A k \in a..b : Step(x, k) \in Nat
  <2> TAKE x \in Nat
  <2> TAKE k \in a..b
  <2>1. PICK d \in Nat : d = DigitValue(src[k])
    BY DigitType
  <2>2. base * x + d \in Nat
    OBVIOUS
  <2> QED BY <2>1, <2>2
<1> HIDE DEF Step
<1>3. \A x \in Nat : \A k \in a..b : F[<<x, k>>] = Step(x, k)
  OBVIOUS
<1>4. PICK g : /\ g = [k \in a - 1..b |-> IF k = a - 1 THEN 0 ELSE F[<<g[k - 1], k>>]]
               /\ \A k \in a - 1..b : g[k] \in Nat
  <2>1. PICK S, zero : S = Nat /\ zero = 0 /\ zero \in S
    OBVIOUS
  <2>2. Stays(S, a, b, F)
    BY <1>1, <1>3, <2>1 DEF Stays
  <2> HIDE DEF F
  <2>3. HasRunOver(S, zero, a, b, F)
    BY <2>1, <2>2, OverPlaces
  <2> QED BY <2>1, <2>3 DEF HasRunOver
<1> HIDE DEF F
<1>5. Is(g)
  <2>1. ASSUME NEW k \in a - 1..b, k # a - 1
        PROVE  F[<<g[k - 1], k>>] = Step(g[k - 1], k)
    <3>1. k - 1 \in a - 1..b /\ k \in a..b
      BY <2>1
    <3> QED BY <1>3, <1>4, <3>1
  <2>2. [k \in a - 1..b |-> IF k = a - 1 THEN 0 ELSE F[<<g[k - 1], k>>]]
          = [k \in a - 1..b |-> IF k = a - 1 THEN 0 ELSE Step(g[k - 1], k)]
    BY <2>1
  <2> QED BY <1>4, <2>2
<1>6. PICK f : f = (CHOOSE h : Is(h)) /\ Is(f)
  <2> HIDE DEF Is
  <2> QED BY <1>5
<1>7. Digits(a, b, base) = f[b]
  BY <1>6 DEF Digits, Step
<1>8. f[a - 1] = 0 /\ \A k \in a..b : f[k] = Step(f[k - 1], k)
  <2>1. f = [k \in a - 1..b |-> IF k = a - 1 THEN 0 ELSE Step(f[k - 1], k)]
    BY <1>6
  <2>2. a - 1 \in a - 1..b /\ \A k \in a..b : k \in a - 1..b /\ k # a - 1
    OBVIOUS
  <2> QED BY <2>1, <2>2
<1>9. \A m \in a - 1..b : f[m] \in Nat
  <2> TAKE m \in a - 1..b
  <2>1. m \in Nat /\ m >= a - 1 /\ \A k \in a..m : k \in a..b
    OBVIOUS
  <2>2. \A k \in a..m : f[k - 1] \in Nat => f[k] \in Nat
    BY <1>1, <1>8, <2>1
  <2>3. f[a - 1] \in Nat
    BY <1>8
  <2> QED BY <2>1, <2>2, <2>3, AlongPlaces
<1> QED BY <1>7, <1>8, <1>9 DEF Step, Numbers

\* Numbers that differ by a multiple of the number of values.
Same(x, y) == \E q \in Int : y = (2 * Half) * q + x

LEMMA WrappedSame == \A n \in Int : Same(Wrapped(n), n)
<1> SUFFICES ASSUME NEW n \in Int PROVE Same(Wrapped(n), n)
  OBVIOUS
<1>1. PICK h \in Nat \ {0} : h = Half
  BY SizesAssumption
<1>2. PICK m \in Nat \ {0} : m = 2 * h
  BY <1>1
<1>3. PICK q \in Int : n + h = m * q + ((n + h) % m)
  <2>1. \A a \in Int : \A b \in Nat \ {0} : a \div b \in Int /\ a = b * (a \div b) + (a % b)
    OBVIOUS
  <2>2. n + h \in Int
    OBVIOUS
  <2> QED BY <2>1, <2>2
<1>4. PICK r \in Int : r = (n + h) % m
  OBVIOUS
<1>5. Wrapped(n) = r - h
  BY <1>1, <1>2, <1>4 DEF Wrapped
<1>6. n = m * q + (r - h)
  <2>1. PICK c \in Int : c = m * q
    OBVIOUS
  <2> QED BY <1>3, <1>4, <2>1
<1> QED BY <1>1, <1>2, <1>5, <1>6 DEF Same

\* One more digit keeps them so.
LEMMA SameGrows ==
  ASSUME NEW x \in Int, NEW y \in Int, Same(x, y), NEW base \in {2, 16}, NEW d \in Int
  PROVE  Same(Wrapped(x * base + d), base * y + d)
<1>1. PICK m \in Nat : m = 2 * Half
  BY SizesAssumption
<1>2. PICK q \in Int : y = m * q + x
  BY <1>1 DEF Same
<1>3. PICK v \in Int : v = x * base + d
  OBVIOUS
<1>4. PICK w \in Int : w = Wrapped(v)
  BY WrappedType, SizesAssumption DEF Values, Largest
<1>5. PICK p \in Int : v = m * p + w
  BY <1>1, <1>3, <1>4, WrappedSame DEF Same
<1>6. PICK r \in Int : r = base * q + p
  OBVIOUS
<1>7. base * y + d = m * r + w
  <2>1. PICK c \in Int, e \in Int : c = m * q /\ e = m * p
    OBVIOUS
  <2>2. CASE base = 2
    <3>1. m * r = 2 * c + e
      BY <1>6, <2>1, <2>2
    <3> QED BY <1>2, <1>3, <1>5, <2>1, <2>2, <3>1
  <2>3. CASE base = 16
    <3>1. m * r = 16 * c + e
      BY <1>6, <2>1, <2>3
    <3> QED BY <1>2, <1>3, <1>5, <2>1, <2>3, <3>1
  <2> QED BY <2>2, <2>3
<1> QED BY <1>1, <1>3, <1>4, <1>7 DEF Same

LEMMA SameLowBits ==
  ASSUME NEW x \in Values, NEW y \in Nat, Same(x, y)
  PROVE  /\ y <= Largest => x = y
         /\ x % (2 * Half) = y % (2 * Half)
<1>1. PICK h \in Nat \ {0} : h = Half
  BY SizesAssumption
<1>2. PICK m \in Nat \ {0} : m = 2 * h
  BY <1>1
<1>3. PICK q \in Int : y = m * q + x
  BY <1>1, <1>2 DEF Same
<1>4. PICK c \in Int : c = m * q
  OBVIOUS
<1>5. x \in Int /\ x >= 0 - h /\ x <= h - 1
  BY <1>1 DEF Values, Largest
<1>6. ASSUME y <= h - 1 PROVE x = y
  <2>1. c <= m - 1 /\ c >= 0 - (m - 1)
    BY <1>2, <1>3, <1>4, <1>5, <1>6
  <2>2. q = 0 \/ q >= 1 \/ q <= -1
    OBVIOUS
  <2>3. ASSUME q >= 1 PROVE FALSE
    <3>1. m * q >= m
      BY <2>3
    <3> QED BY <1>4, <2>1, <3>1
  <2>4. ASSUME q <= -1 PROVE FALSE
    <3>1. m * q <= 0 - m
      BY <2>4
    <3> QED BY <1>4, <2>1, <3>1
  <2>5. q = 0 /\ m * q = 0
    BY <2>2, <2>3, <2>4
  <2> QED BY <1>3, <1>5, <2>5
<1>7. x % m = y % m
  <2>1. \A a \in Int : \A b \in Nat \ {0} :
          a \div b \in Int /\ (a % b) \in 0..b - 1 /\ a = b * (a \div b) + (a % b)
    OBVIOUS
  <2>2. PICK p \in Int : x = m * p + (x % m)
    BY <1>5, <2>1
  <2>3. PICK r \in 0..m - 1 : r = x % m
    BY <1>5, <2>1
  <2>4. \A b \in Nat \ {0} : \A k \in Int : \A t \in 0..b - 1 : (b * k + t) % b = t
    OBVIOUS
  <2>5. y = m * (p + q) + r
    <3>1. m * (p + q) = m * p + m * q
      OBVIOUS
    <3>2. PICK e \in Int : e = m * p
      OBVIOUS
    <3> QED BY <1>3, <1>4, <1>5, <2>2, <2>3, <3>1, <3>2
  <2>6. p + q \in Int
    OBVIOUS
  <2> QED BY <2>3, <2>4, <2>5, <2>6
<1> QED BY <1>1, <1>2, <1>6, <1>7 DEF Largest

\* Reading on to the end after a digit too many changes nothing.
LEMMA SaturatedGrows ==
  ASSUME NEW y \in Nat, NEW d \in Nat
  PROVE  Saturated(Saturated(y) * 10 + d) = Saturated(10 * y + d)
BY SizesAssumption DEF Saturated, Largest

\* A relation between the numbers two readings give holds along all of a text.
LEMMA AlongDigits ==
  ASSUME NEW a \in Nat, NEW b \in Nat, a >= 1, b >= a - 1, NEW K, a - 1 \in K,
         \A k \in a..b : k - 1 \in K => k \in K
  PROVE  b \in K
<1> DEFINE f == [k \in a - 1..b |-> k]
<1>1. f[a - 1] = a - 1 /\ f[b] = b /\ \A k \in a..b : f[k - 1] = k - 1 /\ f[k] = k
  OBVIOUS
<1> HIDE DEF f
<1>2. f[a - 1] \in K /\ \A k \in a..b : f[k - 1] \in K => f[k] \in K
  BY <1>1
<1> QED BY <1>1, <1>2, AlongPlaces

LEMMA ShiftFacts ==
  ASSUME NEW a \in Nat, NEW b \in Nat, a >= 1, b >= a - 1, NEW base \in {2, 16}, \A k \in a..b : src[k] \in Hex
  PROVE  /\ Shift(a, b, base) \in Values
         /\ Digits(a, b, base) <= Largest => Shift(a, b, base) = Digits(a, b, base)
         /\ Shift(a, b, base) % (2 * Half) = Digits(a, b, base) % (2 * Half)
<1>1. base \in Nat
  OBVIOUS
<1>2. PICK f : Digits(a, b, base) = f[b] /\ Numbers(f, a, b, base)
  BY <1>1, DigitsIs
<1>3. PICK g : /\ Shift(a, b, base) = g[b] /\ g[a - 1] = 0 /\ g[b] \in Values
               /\ \A k \in a..b : g[k] = Wrapped(g[k - 1] * base + DigitValue(src[k]))
  <2>1. PICK n \in Nat : n = base
    BY <1>1
  <2>2. \E g : /\ Shift(a, b, n) = g[b] /\ g[a - 1] = 0 /\ g[b] \in Values
               /\ \A k \in a..b : g[k] = Wrapped(g[k - 1] * n + DigitValue(src[k]))
    BY ShiftIs
  <2> QED BY <2>1, <2>2
<1> DEFINE K == {k \in a - 1..b : g[k] \in Int /\ Same(g[k], f[k])}
<1>4. a - 1 \in K
  <2>1. PICK m \in Int : m = 2 * Half
    BY SizesAssumption
  <2>2. 0 = m * 0 + 0 /\ 0 \in Int
    OBVIOUS
  <2>3. Same(0, 0)
    BY <2>1, <2>2 DEF Same
  <2> QED BY <1>2, <1>3, <2>3 DEF Numbers
<1>5. ASSUME NEW k \in a..b, k - 1 \in K PROVE k \in K
  <2>1. PICK x \in Int, y \in Int, d \in Int : x = g[k - 1] /\ y = f[k - 1] /\ d = DigitValue(src[k])
    <3>1. k - 1 \in a - 1..b
      OBVIOUS
    <3> QED BY <1>2, <1>5, <3>1, DigitType DEF Numbers
  <2>2. Same(x, y)
    BY <1>5, <2>1
  <2>3. g[k] = Wrapped(x * base + d) /\ f[k] = base * y + d
    BY <1>2, <1>3, <2>1 DEF Numbers
  <2>4. Wrapped(x * base + d) \in Int
    <3>1. x * base + d \in Int
      OBVIOUS
    <3> QED BY <3>1, WrappedType, SizesAssumption DEF Values, Largest
  <2>5. Same(Wrapped(x * base + d), base * y + d)
    BY <2>2, SameGrows
  <2>6. k \in a - 1..b
    OBVIOUS
  <2> QED BY <2>3, <2>4, <2>5, <2>6
<1>6. Same(g[b], f[b]) /\ f[b] \in Nat
  <2>1. b \in K
    <3> HIDE DEF K
    <3> QED BY <1>4, <1>5, AlongDigits
  <2> QED BY <1>2, <2>1 DEF Numbers
<1> QED BY <1>2, <1>3, <1>6, SameLowBits

LEMMA strtollFacts ==
  ASSUME NEW a \in Nat, NEW b \in Nat, a >= 1, b >= a - 1, \A k \in a..b : src[k] \in Digit
  PROVE  strtoll(a, b) \in Values /\ strtoll(a, b) = Saturated(Digits(a, b, 10)) /\ Digits(a, b, 10) \in Nat
<1>1. \A k \in a..b : src[k] \in Hex
  BY DEF Hex
<1>2. PICK f : Digits(a, b, 10) = f[b] /\ Numbers(f, a, b, 10)
  <2>1. PICK base \in Nat : base = 10
    OBVIOUS
  <2> QED BY <1>1, <2>1, DigitsIs
<1>3. PICK g : /\ strtoll(a, b) = g[b] /\ g[a - 1] = 0 /\ g[b] \in Values
               /\ \A k \in a..b : g[k] = Saturated(g[k - 1] * 10 + DigitValue(src[k]))
  BY strtollIs
<1> DEFINE K == {k \in a - 1..b : g[k] = Saturated(f[k])}
<1>4. a - 1 \in K
  <2>1. Saturated(0) = 0
    BY SizesAssumption DEF Saturated, Largest
  <2> QED BY <1>2, <1>3, <2>1 DEF Numbers
<1>5. ASSUME NEW k \in a..b, k - 1 \in K PROVE k \in K
  <2>1. PICK y \in Nat, d \in Nat : y = f[k - 1] /\ d = DigitValue(src[k])
    <3>1. k - 1 \in a - 1..b /\ src[k] \in Hex
      BY <1>1
    <3>2. f[k - 1] \in Nat /\ DigitValue(src[k]) \in Nat
      BY <1>2, <3>1, DigitType DEF Numbers
    <3> QED BY <3>2
  <2>2. g[k] = Saturated(Saturated(y) * 10 + d) /\ f[k] = 10 * y + d
    BY <1>2, <1>3, <1>5, <2>1 DEF Numbers
  <2>3. g[k] = Saturated(10 * y + d) /\ k \in a - 1..b
    BY <2>2, SaturatedGrows
  <2> QED BY <2>2, <2>3
<1>6. g[b] = Saturated(f[b]) /\ f[b] \in Nat
  <2>1. b \in K
    <3> HIDE DEF K
    <3> QED BY <1>4, <1>5, AlongDigits
  <2> QED BY <1>2, <2>1 DEF Numbers
<1> QED BY <1>2, <1>3, <1>6

(***************************************************************************)
(* Lexemes.                                                                *)
(***************************************************************************)
\* No lexeme that starts at i is longer than the one that ends at last.
Best(i, last) == Lexeme(i, last) /\ \A j \in last + 1..Size : ~Lexeme(i, j)

\* The first character of a lexeme tells which lexeme it can be.
NumberRead(i, j) == OwnNumber(i, j) \/ (j > i /\ src[i] \in Digit /\ Pointed(i, j))
CharRead(i, j)   == CharLexeme(i, j) \/ OwnChar(i, j)

LEMMA PointedStarts ==
  ASSUME NEW i \in Nat, NEW j, j > i, Pointed(i, j)
  PROVE  src[i] \in Digit \cup {"."}
<1>1. PICK k \in i..j : src[k] = "." /\ All(i, k - 1, Digit)
  BY DEF Pointed
<1>2. k = i \/ i \in i..k - 1
  OBVIOUS
<1> QED BY <1>1, <1>2 DEF All

LEMMA LetterStarts ==
  ASSUME NEW i \in Nat, NEW j, src[i] \in is_ident_start
  PROVE  Lexeme(i, j) <=> OwnWord(i, j)
<1>1. src[i] \notin Digit \cup {"\"", "'", "#", "@", "."} /\ src[i] \notin DOMAIN Follow
  BY DEF is_ident_start, Alpha, HexLow, HexHigh, Digit, Follow
<1>2. /\ ~IntLexeme(i, j) /\ ~StringLexeme(i, j) /\ ~CharLexeme(i, j) /\ ~DirectiveLexeme(i, j)
      /\ ~OwnNumber(i, j) /\ ~OwnChar(i, j) /\ ~OwnDirective(i, j)
  BY <1>1 DEF IntLexeme, StringLexeme, CharLexeme, DirectiveLexeme, OwnNumber, OwnChar, OwnDirective, Digit
<1>3. ~OperatorLexeme(i, j)
  BY <1>1 DEF OperatorLexeme, Follow
<1>4. ~FloatLexeme(i, j)
  BY <1>1, PointedStarts DEF FloatLexeme
<1>5. WordLexeme(i, j) => OwnWord(i, j)
  BY DEF WordLexeme, OwnWord, All, is_ident_cont
<1> QED BY <1>2, <1>3, <1>4, <1>5 DEF Lexeme, ReferenceLexeme, OwnLexeme

LEMMA DigitStarts ==
  ASSUME NEW i \in Nat, NEW j \in Nat, src[i] \in Digit
  PROVE  Lexeme(i, j) <=> NumberRead(i, j)
<1>1. src[i] \notin is_ident_start \cup {"\"", "'", "#", "@", "."} /\ src[i] \notin DOMAIN Follow
  BY DEF is_ident_start, Alpha, HexLow, HexHigh, Digit, Follow
<1>2. /\ ~WordLexeme(i, j) /\ ~StringLexeme(i, j) /\ ~CharLexeme(i, j) /\ ~DirectiveLexeme(i, j)
      /\ ~OwnWord(i, j) /\ ~OwnChar(i, j) /\ ~OwnDirective(i, j)
  BY <1>1 DEF WordLexeme, StringLexeme, CharLexeme, DirectiveLexeme, OwnWord, OwnChar, OwnDirective
<1>3. ~OperatorLexeme(i, j)
  BY <1>1 DEF OperatorLexeme, Follow
<1>4. IntLexeme(i, j) => OwnNumber(i, j)
  <2>1. ASSUME src[i] = "0", All(i, j, OctalDigit) PROVE OwnNumber(i, j)
    <3>1. OctalDigit \subseteq Digit /\ "0" \in Digit
      BY DEF OctalDigit, Digit
    <3>2. All(i, j, Digit)
      BY <2>1, <3>1 DEF All
    <3> QED BY <2>1, <3>1, <3>2 DEF OwnNumber
  <2>2. j > i + 1 => j > i
    OBVIOUS
  <2>3. ASSUME src[i] \in Digit \ {"0"}, All(i, j, Digit) PROVE OwnNumber(i, j)
    BY <2>3 DEF OwnNumber
  <2> QED BY <2>1, <2>2, <2>3 DEF IntLexeme, OwnNumber
<1>5. FloatLexeme(i, j) <=> j > i /\ src[i] \in Digit /\ Pointed(i, j)
  BY DEF FloatLexeme
<1>6. ~Missed(i, j)
  BY <1>1 DEF Missed
<1> QED BY <1>2, <1>3, <1>4, <1>5, <1>6 DEF Lexeme, ReferenceLexeme, OwnLexeme, NumberRead

LEMMA MarkStarts ==
  ASSUME NEW i \in Nat, NEW j, NEW c, c \in {"\"", "'", "#", "@"}, src[i] = c
  PROVE  Lexeme(i, j) <=> StringLexeme(i, j) \/ CharRead(i, j) \/ DirectiveLexeme(i, j) \/ OwnDirective(i, j)
<1>1. src[i] \notin is_ident_start \cup Digit \cup {"."} /\ src[i] \notin DOMAIN Follow
  BY DEF is_ident_start, Alpha, HexLow, HexHigh, Digit, Follow
<1>2. ~WordLexeme(i, j) /\ ~IntLexeme(i, j) /\ ~OwnWord(i, j) /\ ~OwnNumber(i, j)
  BY <1>1 DEF WordLexeme, IntLexeme, OwnWord, OwnNumber, Digit
<1>3. ~OperatorLexeme(i, j)
  BY <1>1 DEF OperatorLexeme, Follow
<1>4. ~FloatLexeme(i, j)
  BY <1>1, PointedStarts DEF FloatLexeme
<1> QED BY <1>2, <1>3, <1>4 DEF Lexeme, ReferenceLexeme, OwnLexeme, Missed, CharRead

LEMMA QuoteStarts ==
  ASSUME NEW i \in Nat, NEW j, src[i] = "\""
  PROVE  Lexeme(i, j) <=> StringLexeme(i, j)
<1>1. ~CharRead(i, j) /\ ~DirectiveLexeme(i, j) /\ ~OwnDirective(i, j)
  BY DEF CharRead, CharLexeme, OwnChar, DirectiveLexeme, OwnDirective
<1>2. PICK c : c \in {"\"", "'", "#", "@"} /\ src[i] = c
  OBVIOUS
<1>3. Lexeme(i, j) <=> StringLexeme(i, j) \/ CharRead(i, j) \/ DirectiveLexeme(i, j) \/ OwnDirective(i, j)
  BY <1>2, MarkStarts
<1> QED BY <1>1, <1>3

LEMMA ApostropheStarts ==
  ASSUME NEW i \in Nat, NEW j, src[i] = "'"
  PROVE  Lexeme(i, j) <=> CharRead(i, j)
<1>1. ~StringLexeme(i, j) /\ ~DirectiveLexeme(i, j) /\ ~OwnDirective(i, j)
  BY DEF StringLexeme, DirectiveLexeme, OwnDirective
<1>2. PICK c : c \in {"\"", "'", "#", "@"} /\ src[i] = c
  OBVIOUS
<1>3. Lexeme(i, j) <=> StringLexeme(i, j) \/ CharRead(i, j) \/ DirectiveLexeme(i, j) \/ OwnDirective(i, j)
  BY <1>2, MarkStarts
<1> QED BY <1>1, <1>3

\* The names of the directives are letters.
PoundNames ==
  {<<"i", "m", "p", "o", "r", "t">>, <<"i", "n", "c", "l", "u", "d", "e">>, <<"d", "e", "f", "i", "n", "e">>,
   <<"m", "o", "d", "l", "a", "w">>, <<"i", "f", "d", "e", "f">>, <<"i", "f", "n", "d", "e", "f">>,
   <<"i", "f">>, <<"e", "l", "i", "f">>, <<"e", "l", "s", "e">>, <<"e", "n", "d">>,
   <<"e", "n", "d", "i", "f">>, <<"e", "r", "r", "o", "r">>, <<"w", "a", "r", "n", "i", "n", "g">>}
LEMMA Letters == ASSUME NEW name \in PoundNames PROVE name \in Seq(Alpha)
<1>1. {"i", "m", "p", "o", "r", "t", "n", "c", "l", "u", "d", "e", "f", "a", "w", "s", "g"} \subseteq Alpha
  BY DEF Alpha, HexLow
<1>2. /\ <<"i", "m", "p", "o", "r", "t">> \in Seq(Alpha) /\ <<"i", "n", "c", "l", "u", "d", "e">> \in Seq(Alpha)
      /\ <<"d", "e", "f", "i", "n", "e">> \in Seq(Alpha)
  BY <1>1
<1>3. /\ <<"m", "o", "d", "l", "a", "w">> \in Seq(Alpha) /\ <<"i", "f", "d", "e", "f">> \in Seq(Alpha)
      /\ <<"i", "f", "n", "d", "e", "f">> \in Seq(Alpha)
  BY <1>1
<1>4. <<"i", "f">> \in Seq(Alpha) /\ <<"e", "l", "i", "f">> \in Seq(Alpha) /\ <<"e", "l", "s", "e">> \in Seq(Alpha)
  BY <1>1
<1>5. <<"e", "n", "d">> \in Seq(Alpha) /\ <<"e", "n", "d", "i", "f">> \in Seq(Alpha)
  BY <1>1
<1>6. <<"e", "r", "r", "o", "r">> \in Seq(Alpha) /\ <<"w", "a", "r", "n", "i", "n", "g">> \in Seq(Alpha)
  BY <1>1
<1> QED BY Zenon, <1>2, <1>3, <1>4, <1>5, <1>6 DEF PoundNames

LEMMA DirectiveStarts ==
  ASSUME Text, NEW i \in 1..Size, NEW j \in i..Size, src[i] \in {"#", "@"}
  PROVE  Lexeme(i, j) <=> OwnDirective(i, j)
<1>0. Size \in Nat /\ i \in Nat
  BY TextFacts
<1>1. ~StringLexeme(i, j) /\ ~CharRead(i, j)
  BY DEF StringLexeme, CharRead, CharLexeme, OwnChar
<1>2. PICK c : c \in {"\"", "'", "#", "@"} /\ src[i] = c
  OBVIOUS
<1>3. Lexeme(i, j) <=> StringLexeme(i, j) \/ CharRead(i, j) \/ DirectiveLexeme(i, j) \/ OwnDirective(i, j)
  BY <1>0, <1>2, MarkStarts
<1>4. ASSUME DirectiveLexeme(i, j) PROVE OwnDirective(i, j)
  <2> DEFINE name == SubSeq(src, i + 1, j)
  <2>1. name \in PoundNames /\ src[i] = "#"
    BY Zenon, <1>4 DEF DirectiveLexeme, PoundNames
  <2>2. src \in Seq(STRING) /\ i + 1 \in 1..Size + 1 /\ j \in (i + 1) - 1..Size
    BY <1>0 DEF Text
  <2>3. Len(name) = j - (i + 1) + 1 /\ \A m \in 1..j - (i + 1) + 1 : name[m] = src[(i + 1) + m - 1]
    BY <2>2, SubSeqProperties DEF Size
  <2> HIDE DEF name
  <2>4. ASSUME NEW k \in i + 1..j PROVE src[k] \in Alpha
    <3>1. PICK m : m = k - i
      OBVIOUS
    <3>2. m \in 1..j - (i + 1) + 1 /\ (i + 1) + m - 1 = k
      BY <1>0, <3>1
    <3>3. name[m] = src[k] /\ m \in 1..Len(name)
      BY <2>3, <3>2
    <3> QED BY <2>1, <3>3, Letters, ElementOfSeq
  <2> QED BY <2>1, <2>4 DEF OwnDirective, All
<1> QED BY <1>1, <1>3, <1>4

\* What may follow a character in an operator of two.
Pairs ==
  {<<"+", "+">>, <<"-", "-">>, <<"-", ">">>, <<":", ":">>, <<"&", "&">>, <<"|", "|">>, <<"<", "<">>,
   <<">", ">">>, <<"<", "=">>, <<">", "=">>, <<"=", "=">>, <<"!", "=">>, <<"+", "=">>, <<"-", "=">>,
   <<"*", "=">>, <<"/", "=">>, <<"%", "=">>, <<"&", "=">>, <<"|", "=">>, <<"^", "=">>}

LEMMA OperatorStarts ==
  ASSUME NEW i \in Nat, NEW j, src[i] \in DOMAIN Follow
  PROVE  Lexeme(i, j) <=> OperatorLexeme(i, j)
<1>1. src[i] \notin is_ident_start \cup Digit \cup {"\"", "'", "#", "@"}
  BY DEF is_ident_start, Alpha, HexLow, HexHigh, Digit, Follow
<1>2. /\ ~WordLexeme(i, j) /\ ~IntLexeme(i, j) /\ ~StringLexeme(i, j) /\ ~CharLexeme(i, j)
      /\ ~DirectiveLexeme(i, j)
      /\ ~OwnWord(i, j) /\ ~OwnNumber(i, j) /\ ~OwnChar(i, j) /\ ~OwnDirective(i, j)
  BY <1>1 DEF WordLexeme, IntLexeme, StringLexeme, CharLexeme, DirectiveLexeme, OwnWord, OwnNumber, OwnChar,
              OwnDirective, Digit
\* What would be a number is missed, and a point alone is no number.
<1>3. FloatLexeme(i, j) => Missed(i, j)
  BY <1>1, PointedStarts DEF FloatLexeme, Missed
<1>4. OperatorLexeme(i, j) => ~Missed(i, j)
  <2>1. ASSUME OperatorLexeme(i, j), src[i] = "." PROVE j = i
    <3>1. <<src[i], src[j]>> \notin Pairs
      BY <2>1 DEF Pairs
    <3>2. <<src[i], src[i + 1], src[j]>> \notin {<<"<", "<", "=">>, <<">", ">", "=">>}
      BY <2>1
    <3> QED BY <2>1, <3>1, <3>2 DEF OperatorLexeme, Pairs
  <2>2. ~(i > i)
    OBVIOUS
  <2> QED BY <2>1, <2>2 DEF Missed, FloatLexeme
<1> QED BY <1>2, <1>3, <1>4 DEF Lexeme, ReferenceLexeme, OwnLexeme

LEMMA WordBest ==
  ASSUME Text, NEW i \in 1..Size, src[i] \in is_ident_start
  PROVE  Best(i, WordEnd(i))
<1>1. Size \in Nat /\ i \in Nat /\ i \in 1..Size + 1
  BY TextFacts
<1>2. PICK e \in i..Size + 1 : /\ e = Past(i, is_ident_cont)
                               /\ \A k \in i..e - 1 : src[k] \in is_ident_cont
                               /\ e <= Size => src[e] \notin is_ident_cont
  BY <1>1, PastFacts
<1>3. WordEnd(i) = e - 1 /\ (e - 1) + 1 = e
  BY <1>1, <1>2 DEF WordEnd
<1>4. OwnWord(i, e - 1)
  BY <1>2 DEF OwnWord, All
<1>5. ASSUME NEW j \in e..Size PROVE ~OwnWord(i, j)
  <2>1. e \in i..j /\ e <= Size
    BY <1>1
  <2> QED BY <1>2, <2>1 DEF OwnWord, All
<1> QED BY <1>1, <1>3, <1>4, <1>5, LetterStarts DEF Best

LEMMA FollowIs == \A c \in DOMAIN Follow : \A d : d \in Follow[c] <=> <<c, d>> \in Pairs
<1> SUFFICES ASSUME NEW c \in DOMAIN Follow, NEW d PROVE d \in Follow[c] <=> <<c, d>> \in Pairs
  OBVIOUS
<1>1. Follow[c] = IF c \in {"+", "&", "|"} THEN {c, "="} ELSE IF c = "-" THEN {"-", "=", ">"}
                  ELSE IF c \in {"<", ">"} THEN {"=", c} ELSE IF c = ":" THEN {":"}
                  ELSE IF c \in {"*", "/", "%", "=", "!", "^"} THEN {"="} ELSE {}
  BY DEF Follow
<1>2. CASE c \in {"+", "&", "|"}
  BY <1>1, <1>2 DEF Pairs
<1>3. CASE c = "-"
  BY <1>1, <1>3 DEF Pairs
<1>4. CASE c \in {"<", ">"}
  BY <1>1, <1>4 DEF Pairs
<1>5. CASE c = ":"
  BY <1>1, <1>5 DEF Pairs
<1>6. CASE c \in {"*", "/", "%", "=", "!", "^"}
  BY <1>1, <1>6 DEF Pairs
<1>7. CASE c \notin {"+", "&", "|", "-", "<", ">", ":", "*", "/", "%", "=", "!", "^"}
  BY <1>1, <1>7 DEF Pairs
<1> QED BY <1>2, <1>3, <1>4, <1>5, <1>6, <1>7

LEMMA OperatorLexemeIs ==
  ASSUME NEW i \in Nat, NEW j \in Nat, src[i] \in DOMAIN Follow
  PROVE  OperatorLexeme(i, j) <=>
           \/ j = i
           \/ j = i + 1 /\ src[j] \in Follow[src[i]]
           \/ j = i + 2 /\ src[i] \in {"<", ">"} /\ src[i + 1] = src[i] /\ src[j] = "="
<1>1. \A d : d \in Follow[src[i]] <=> <<src[i], d>> \in Pairs
  BY FollowIs
<1>2. j = i + 2 => (<<src[i], src[i + 1], src[j]>> \in {<<"<", "<", "=">>, <<">", ">", "=">>}
                      <=> src[i] \in {"<", ">"} /\ src[i + 1] = src[i] /\ src[j] = "=")
  OBVIOUS
<1>3. src[i] \in {"+", "-", "*", "/", "%", "=", "!", "<", ">", "&", "|", "^", "~", "(", ")",
                  "{", "}", "[", "]", ",", ";", ":", ".", "?"}
  BY DEF Follow
<1> QED BY <1>1, <1>2, <1>3 DEF OperatorLexeme, Pairs

LEMMA OperatorBest ==
  ASSUME Text, NEW i \in 1..Size, src[i] \in DOMAIN Follow
  PROVE  Best(i, OperatorEnd(i))
<1>1. Size \in Nat /\ i \in Nat
  BY TextFacts
<1> DEFINE Two   == i + 1 <= Size /\ src[i + 1] \in Follow[src[i]]
           Three == /\ i + 2 <= Size /\ src[i] \in {"<", ">"} /\ src[i + 1] = src[i]
                    /\ src[i + 2] = "="
<1>2. \A j \in i..Size : OperatorLexeme(i, j) <=> \/ j = i
                                                  \/ j = i + 1 /\ Two
                                                  \/ j = i + 2 /\ Three
  <2> TAKE j \in i..Size
  <2>1. j \in Nat
    BY <1>1
  <2> QED BY <1>1, <2>1, OperatorLexemeIs
<1>3. Three => Two
  <2>1. src[i] \in {"<", ">"} => Follow[src[i]] = {"=", src[i]}
    BY DEF Follow
  <2> QED BY <1>1, <2>1
<1>4. OperatorEnd(i) = IF ~Two THEN i ELSE IF Three THEN i + 2 ELSE i + 1
  BY <1>1 DEF OperatorEnd, Has
<1>5. Two => i + 1 \in i..Size
  BY <1>1
<1>6. Three => i + 2 \in i..Size
  BY <1>1
<1> HIDE DEF Two, Three
<1> DEFINE last == OperatorEnd(i)
<1>7. last \in i..Size /\ OperatorLexeme(i, last)
  BY <1>1, <1>2, <1>3, <1>4, <1>5, <1>6
<1>8. \A j \in last + 1..Size : ~OperatorLexeme(i, j)
  <2>1. CASE Three
    BY <1>1, <1>2, <1>3, <1>4, <2>1
  <2>2. CASE Two /\ ~Three
    BY <1>1, <1>2, <1>4, <2>2
  <2>3. CASE ~Two
    BY <1>1, <1>2, <1>3, <1>4, <2>3
  <2> QED BY <2>1, <2>2, <2>3
<1> QED BY <1>1, <1>7, <1>8, OperatorStarts DEF Best

LEMMA PoundBest ==
  ASSUME Text, NEW i \in 1..Size, src[i] = "#"
  PROVE  Best(i, Past(i + 1, Alpha) - 1)
<1>1. Size \in Nat /\ i \in Nat /\ i + 1 \in 1..Size + 1
  BY TextFacts
<1>2. PICK e \in i + 1..Size + 1 : /\ e = Past(i + 1, Alpha)
                                   /\ \A k \in i + 1..e - 1 : src[k] \in Alpha
                                   /\ e <= Size => src[e] \notin Alpha
  BY <1>1, PastFacts
<1>3. OwnDirective(i, e - 1)
  BY <1>2 DEF OwnDirective, All
<1>4. ASSUME NEW j \in e..Size PROVE ~OwnDirective(i, j)
  <2>1. e \in i + 1..j /\ e <= Size
    BY <1>1
  <2>2. src[i] # "@"
    OBVIOUS
  <2> QED BY <1>2, <2>1, <2>2 DEF OwnDirective, All
<1>5. (e - 1) + 1 = e /\ e - 1 \in i..Size /\ \A j \in e..Size : j \in i..Size
  BY <1>1
<1>6. \A j \in i..Size : Lexeme(i, j) <=> OwnDirective(i, j)
  BY DirectiveStarts
<1> QED BY <1>2, <1>3, <1>4, <1>5, <1>6 DEF Best

\* The names of the directives are words.
LEMMA AtNames ==
  ASSUME NEW name \in uc_keyword_at_lookup
  PROVE  name \in Seq(is_ident_cont)
<1>1. {"i", "f", "d", "e", "l", "s", "n"} \subseteq is_ident_cont
  BY DEF is_ident_cont, is_ident_start, Alpha, HexLow
<1>2. <<"i", "f", "d", "e", "f">> \in Seq(is_ident_cont) /\ <<"i", "f">> \in Seq(is_ident_cont)
  BY <1>1
<1>3. <<"e", "l", "s", "e">> \in Seq(is_ident_cont) /\ <<"e", "l", "i", "f">> \in Seq(is_ident_cont)
  BY <1>1
<1>4. <<"e", "n", "d">> \in Seq(is_ident_cont)
  BY <1>1
<1>5. CASE name \in {<<"i", "f", "d", "e", "f">>, <<"i", "f">>}
  BY <1>2, <1>5
<1>6. CASE name \in {<<"e", "l", "s", "e">>, <<"e", "l", "i", "f">>}
  BY <1>3, <1>6
<1>7. CASE name = <<"e", "n", "d">>
  BY <1>4, <1>7
<1> QED BY <1>5, <1>6, <1>7 DEF uc_keyword_at_lookup

LEMMA AtBest ==
  ASSUME Text, NEW i \in 1..Size, src[i] = "@",
         SubSeq(src, i + 1, Past(i + 1, is_ident_cont) - 1) \in uc_keyword_at_lookup
  PROVE  Best(i, Past(i + 1, is_ident_cont) - 1)
<1>1. Size \in Nat /\ i \in Nat /\ i + 1 \in 1..Size + 1
  BY TextFacts
<1>2. PICK e \in i + 1..Size + 1 : /\ e = Past(i + 1, is_ident_cont)
                                   /\ e <= Size => src[e] \notin is_ident_cont
  BY <1>1, PastFacts
<1>3. OwnDirective(i, e - 1)
  BY <1>2 DEF OwnDirective
<1>4. ASSUME NEW j \in e..Size PROVE ~OwnDirective(i, j)
  <2> SUFFICES ASSUME SubSeq(src, i + 1, j) \in uc_keyword_at_lookup PROVE FALSE
    BY DEF OwnDirective
  <2> DEFINE name == SubSeq(src, i + 1, j)
             k == e - i
  <2>1. name \in Seq(is_ident_cont)
    BY AtNames
  <2>2. src \in Seq(STRING) /\ i + 1 \in 1..Size + 1 /\ j \in (i + 1) - 1..Size
    BY <1>1 DEF Text
  <2>3. Len(name) = j - (i + 1) + 1 /\ \A m \in 1..j - (i + 1) + 1 : name[m] = src[(i + 1) + m - 1]
    BY <2>2, SubSeqProperties DEF Size
  <2>4. k \in 1..j - (i + 1) + 1 /\ (i + 1) + k - 1 = e /\ e <= Size
    BY <1>1
  <2> HIDE DEF name, k
  <2>5. name[k] = src[e] /\ k \in 1..Len(name)
    BY <2>3, <2>4
  <2>6. name[k] \in is_ident_cont
    BY <2>1, <2>5, ElementOfSeq
  <2> QED BY <1>2, <2>4, <2>5, <2>6
<1>5. (e - 1) + 1 = e /\ e - 1 \in i..Size /\ \A j \in e..Size : j \in i..Size
  BY <1>1
<1>6. \A j \in i..Size : Lexeme(i, j) <=> OwnDirective(i, j)
  BY DirectiveStarts
<1> QED BY <1>2, <1>3, <1>4, <1>5, <1>6 DEF Best

(***************************************************************************)
(* Numbers.                                                                *)
(***************************************************************************)
\* All of a decimal number is digits, but for its point and its mark.
LEMMA OnlyMarks ==
  ASSUME NEW i \in Nat, NEW j \in Nat, NEW k \in i..j, src[k] \notin Digit \cup {".", "e", "E"}
  PROVE  /\ ~All(i, j, Digit) /\ ~Pointed(i, j)
         /\ ~\E m \in i + 1..j : /\ src[m] \in {"e", "E"} /\ All(m + 1, j, Digit)
                                 /\ All(i, m - 1, Digit) \/ Pointed(i, m - 1)
<1>1. ASSUME NEW a, NEW b, k \in a..b PROVE ~All(a, b, Digit)
  BY <1>1 DEF All
<1>2. ASSUME NEW b \in Nat, k \in i..b PROVE ~Pointed(i, b)
  <2> SUFFICES ASSUME NEW p \in i..b, src[p] = ".", All(i, p - 1, Digit), All(p + 1, b, Digit) PROVE FALSE
    BY DEF Pointed
  <2>1. k \in i..p - 1 \/ k = p \/ k \in p + 1..b
    BY <1>2
  <2> QED BY <1>1, <2>1
<1>3. ASSUME NEW m \in i + 1..j, src[m] \in {"e", "E"}, All(m + 1, j, Digit),
             All(i, m - 1, Digit) \/ Pointed(i, m - 1)
      PROVE  FALSE
  <2>1. k \in i..m - 1 \/ k = m \/ k \in m + 1..j
    OBVIOUS
  <2>2. m - 1 \in Nat
    OBVIOUS
  <2> QED BY <1>1, <1>2, <1>3, <2>1, <2>2
<1> QED BY <1>1, <1>2, <1>3

LEMMA PrefixedBest ==
  ASSUME Text, NEW i \in 1..Size, i + 1 <= Size, src[i] = "0", NEW digits,
         \/ src[i + 1] \in {"x", "X"} /\ digits = Hex
         \/ src[i + 1] \in {"b", "B"} /\ digits = {"0", "1"}
  PROVE  Best(i, Past(i + 2, digits) - 1)
<1>1. Size \in Nat /\ i \in Nat /\ i + 2 \in 1..Size + 1 /\ src[i] \in Digit
  BY TextFacts DEF Digit
<1>2. PICK e \in i + 2..Size + 1 : /\ e = Past(i + 2, digits)
                                   /\ \A k \in i + 2..e - 1 : src[k] \in digits
                                   /\ e <= Size => src[e] \notin digits
  BY <1>1, PastFacts
<1>3. e - 1 > i /\ (e - 1) + 1 = e
  BY <1>1
<1>4. NumberRead(i, e - 1)
  BY <1>2, <1>3 DEF NumberRead, OwnNumber, All
<1>5. src[i + 1] \notin Digit \cup {".", "e", "E"}
  BY DEF Digit
<1>6. ASSUME NEW j \in e..Size PROVE ~NumberRead(i, j)
  <2>1. e \in i + 2..j /\ e <= Size /\ i + 1 \in i..j /\ j \in Nat
    BY <1>1
  <2>2. ~All(i + 2, j, digits)
    BY <1>2, <2>1 DEF All
  <2> QED BY <1>1, <1>5, <2>1, <2>2, OnlyMarks DEF NumberRead, OwnNumber
<1>7. \A j \in Nat : Lexeme(i, j) <=> NumberRead(i, j)
  BY <1>1, DigitStarts
<1> QED BY <1>2, <1>3, <1>4, <1>6, <1>7 DEF Best

LEMMA DecimalBest ==
  ASSUME Text, NEW i \in 1..Size, src[i] \in Digit,
         ~(src[i] = "0" /\ i + 1 <= Size /\ src[i + 1] \in {"x", "X", "b", "B"})
  PROVE  Best(i, DecimalEnd(i))
<1> DEFINE Marks == {"e", "E"}
<1>1. Size \in Nat /\ i \in Nat /\ i \in 1..Size + 1
  BY TextFacts
<1>2. "." \notin Digit /\ "e" \notin Digit /\ "E" \notin Digit /\ "." \notin Marks
  BY DEF Digit
\* The point, if there is one, what follows its digits, and the end.
<1>3. PICK p \in i + 1..Size + 1 : /\ p = Past(i, Digit)
                                   /\ \A k \in i..p - 1 : src[k] \in Digit
                                   /\ p <= Size => src[p] \notin Digit
  <2>1. PICK e \in i..Size + 1 : /\ e = Past(i, Digit)
                                 /\ \A k \in i..e - 1 : src[k] \in Digit
                                 /\ e <= Size => src[e] \notin Digit
    BY <1>1, PastFacts
  <2>2. e # i
    BY <1>1, <2>1
  <2>3. e \in i + 1..Size + 1
    BY <1>1, <2>2
  <2> QED BY <2>1, <2>3
<1>4. PICK r \in p..Size + 1 : /\ r = IF Has(p, ".") THEN Past(p + 1, Digit) ELSE p
                               /\ Has(p, ".") => r > p /\ \A k \in p + 1..r - 1 : src[k] \in Digit
                               /\ ~Has(p, ".") => r = p
                               /\ r <= Size => src[r] \notin Digit
  <2>1. CASE Has(p, ".")
    <3>1. p + 1 \in 1..Size + 1
      BY <1>1, <2>1 DEF Has
    <3>2. PICK e \in p + 1..Size + 1 : /\ e = Past(p + 1, Digit)
                                       /\ \A k \in p + 1..e - 1 : src[k] \in Digit
                                       /\ e <= Size => src[e] \notin Digit
      BY <3>1, PastFacts
    <3>3. e \in p..Size + 1 /\ e > p
      BY <1>1
    <3> QED BY <2>1, <3>2, <3>3
  <2>2. CASE ~Has(p, ".")
    <3>1. p \in p..Size + 1
      BY <1>1
    <3> QED BY <1>3, <2>2, <3>1
  <2> QED BY <2>1, <2>2
<1> DEFINE Mark == r <= Size /\ src[r] \in Marks
<1>5. PICK e \in r..Size + 1 : /\ DecimalEnd(i) = e - 1
                               /\ Mark => e > r /\ \A k \in r + 1..e - 1 : src[k] \in Digit
                               /\ ~Mark => e = r
                               /\ e <= Size => src[e] \notin Digit
  <2>1. DecimalEnd(i) = IF Mark THEN Past(r + 1, Digit) - 1 ELSE r - 1
    BY <1>3, <1>4 DEF DecimalEnd, Has
  <2>2. CASE Mark
    <3>1. r + 1 \in 1..Size + 1
      BY <1>1, <2>2
    <3>2. PICK e \in r + 1..Size + 1 : /\ e = Past(r + 1, Digit)
                                       /\ \A k \in r + 1..e - 1 : src[k] \in Digit
                                       /\ e <= Size => src[e] \notin Digit
      BY <3>1, PastFacts
    <3>3. e \in r..Size + 1 /\ e > r
      BY <1>1
    <3> QED BY <2>1, <2>2, <3>2, <3>3
  <2>3. CASE ~Mark
    <3>1. r \in r..Size + 1
      BY <1>1
    <3> QED BY <1>4, <2>1, <2>3, <3>1
  <2> QED BY <2>2, <2>3
<1>6. /\ p \in Nat /\ r \in Nat /\ e \in Nat /\ i < p /\ p <= r /\ r <= e /\ e <= Size + 1 /\ (e - 1) + 1 = e
      /\ e - 1 \in Nat /\ i <= e - 1
  BY <1>1
\* What comes before the mark, or is all of it.
<1>7. All(i, r - 1, Digit) \/ Pointed(i, r - 1)
  <2>1. CASE Has(p, ".")
    <3>1. p \in i..r - 1
      BY <1>4, <1>6, <2>1
    <3>2. src[p] = "." /\ All(i, p - 1, Digit) /\ All(p + 1, r - 1, Digit)
      BY <1>3, <1>4, <2>1 DEF Has, All
    <3> QED BY <3>1, <3>2 DEF Pointed
  <2>2. CASE ~Has(p, ".")
    BY <1>3, <1>4, <2>2 DEF All
  <2> QED BY <2>1, <2>2
<1>8. NumberRead(i, e - 1)
  <2>1. CASE Mark
    <3>1. r \in i + 1..e - 1 /\ src[r] \in Marks /\ All(r + 1, e - 1, Digit)
      BY <1>5, <1>6, <2>1 DEF All
    <3> QED BY <1>7, <3>1 DEF NumberRead, OwnNumber
  <2>2. CASE ~Mark /\ All(i, r - 1, Digit)
    BY <1>5, <2>2 DEF NumberRead, OwnNumber
  <2>3. CASE ~Mark /\ Pointed(i, r - 1) /\ ~All(i, r - 1, Digit)
    <3>1. e = r
      BY <1>5, <2>3
    <3>2. r - 1 # i
      <4>1. ASSUME r - 1 = i PROVE All(i, r - 1, Digit)
        BY <4>1, <1>1 DEF All
      <4> QED BY <2>3, <4>1
    <3>3. e - 1 > i
      BY <1>6, <3>1, <3>2
    <3> QED BY <2>3, <3>1, <3>3 DEF NumberRead
  <2> QED BY <1>7, <2>1, <2>2, <2>3
\* The end is not a digit: a longer number has its point or its mark there.
<1>9. ASSUME NEW j \in e..Size PROVE ~NumberRead(i, j)
  <2>1. j \in Nat /\ e <= Size /\ e \in i..j /\ src[e] \notin Digit /\ j > i
    BY <1>1, <1>5, <1>6
  <2>2. ~(src[i] = "0" /\ src[i + 1] \in {"x", "X"}) /\ ~(src[i] = "0" /\ src[i + 1] \in {"b", "B"})
    <3>1. i + 1 <= Size
      BY <1>1, <2>1
    <3> QED BY <3>1
  <2>3. ~All(i, j, Digit)
    BY <2>1 DEF All
  <2>4. Mark => r \in i..e - 1 /\ src[r] \notin Digit /\ src[r] # "."
    BY <1>2, <1>5, <1>6
  <2>5. ASSUME NEW b \in Nat, e \in i..b PROVE ~Pointed(i, b)
    <3> SUFFICES ASSUME NEW k \in i..b, src[k] = ".", All(i, k - 1, Digit), All(k + 1, b, Digit) PROVE FALSE
      BY DEF Pointed
    <3>1. e = k
      <4>1. e \in i..k - 1 \/ e = k \/ e \in k + 1..b
        BY <1>6, <2>5
      <4> QED BY <2>1, <4>1 DEF All
    <3>2. CASE Mark
      BY <2>4, <3>1, <3>2 DEF All
    <3>3. CASE ~Mark /\ Has(p, ".")
      <4>1. p \in i..k - 1 /\ src[p] = "."
        BY <1>4, <1>5, <1>6, <3>1, <3>3 DEF Has
      <4> QED BY <1>2, <4>1 DEF All
    <3>4. CASE ~Mark /\ ~Has(p, ".")
      <4>1. k = p
        BY <1>4, <1>5, <3>1, <3>4
      <4> QED BY <2>1, <3>1, <3>4, <4>1 DEF Has
    <3> QED BY <3>2, <3>3, <3>4
  <2>6. ASSUME NEW k \in i + 1..j, src[k] \in Marks, All(k + 1, j, Digit),
               All(i, k - 1, Digit) \/ Pointed(i, k - 1)
        PROVE  FALSE
    <3>1. e \in i..k - 1 \/ e = k \/ e \in k + 1..j
      BY <1>6, <2>1
    <3>2. k - 1 \in Nat
      BY <1>1
    <3>3. e = k
      BY <2>1, <2>5, <2>6, <3>1, <3>2 DEF All
    <3>4. Mark
      BY <1>5, <1>6, <2>1, <2>6, <3>3
    <3>5. r \in i..k - 1 /\ src[r] \notin Digit \cup {"."}
      BY <2>4, <3>3, <3>4
    <3>6. ~All(i, k - 1, Digit)
      BY <3>5 DEF All
    <3>7. ~Pointed(i, k - 1)
      <4> SUFFICES ASSUME NEW m \in i..k - 1, src[m] = ".", All(i, m - 1, Digit), All(m + 1, k - 1, Digit) PROVE FALSE
        BY DEF Pointed
      <4>1. r \in i..m - 1 \/ r = m \/ r \in m + 1..k - 1
        BY <3>5, <1>6
      <4> QED BY <3>5, <4>1 DEF All
    <3> QED BY <2>6, <3>6, <3>7
  <2>7. ~Pointed(i, j)
    BY <2>1, <2>5
  <2> QED BY <2>2, <2>3, <2>6, <2>7 DEF NumberRead, OwnNumber
<1>10. \A j \in Nat : Lexeme(i, j) <=> NumberRead(i, j)
  BY <1>1, DigitStarts
<1> QED BY <1>5, <1>6, <1>8, <1>9, <1>10 DEF Best

(***************************************************************************)
(* Character and string literals.                                          *)
(***************************************************************************)
LEMMA CharBest ==
  ASSUME Text, NEW i \in 1..Size, src[i] = "'", NEW body, NEW last,
         body = IF i + 1 > Size \/ Has(i + 1, "'") THEN 0 ELSE IF Has(i + 1, "\\") /\ i + 1 < Size THEN 2 ELSE 1,
         last = IF Has((i + 1) + body, "'") THEN (i + 1) + body ELSE (i + 1) + body - 1
  PROVE  /\ Lexeme(i, last) \/ \A j \in i..last : ~Lexeme(i, j)
         /\ \A j \in last + 1..Size : ~Lexeme(i, j)
<1>1. Size \in Nat /\ i \in Nat
  BY TextFacts
<1>2. \A j : Lexeme(i, j) <=> CharRead(i, j)
  BY <1>1, ApostropheStarts
<1>3. \A j \in i..Size : CharRead(i, j) <=>
        /\ src[j] = "'"
        /\ j = i + 1 \/ (j = i + 2 /\ src[i + 1] \notin {"'", "\\"}) \/ (j = i + 3 /\ src[i + 1] = "\\")
  BY <1>1 DEF CharRead, CharLexeme, OwnChar
<1>4. CASE i + 1 > Size
  <2>1. body = 0 /\ last = i /\ i + 1 > Size
    BY <1>1, <1>4 DEF Has
  <2>2. \A j \in i..last : j \in i..Size /\ j # i + 1 /\ j # i + 2 /\ j # i + 3
    BY <1>1, <2>1
  <2> QED BY <1>1, <1>3, <2>1, <2>2
<1>5. CASE i + 1 <= Size /\ src[i + 1] = "'"
  <2>1. body = 0 /\ last = i + 1
    BY <1>1, <1>5 DEF Has
  <2>2. i + 1 \in i..Size /\ \A j \in last + 1..Size : j \in i..Size /\ j # i + 1
    BY <1>1, <1>5, <2>1
  <2>3. CharRead(i, i + 1)
    BY <1>3, <1>5, <2>2
  <2>4. \A j \in last + 1..Size : ~CharRead(i, j)
    BY <1>3, <1>5, <2>2
  <2> QED BY <1>2, <2>1, <2>3, <2>4
<1>6. CASE i + 1 <= Size /\ src[i + 1] # "'" /\ (src[i + 1] # "\\" \/ i + 1 = Size)
  <2>1. body = 1 /\ last = IF Has(i + 2, "'") THEN i + 2 ELSE i + 1
    BY <1>1, <1>6 DEF Has
  <2>2. CASE Has(i + 2, "'")
    <3>1. i + 2 <= Size /\ src[i + 2] = "'" /\ i + 2 \in i..Size /\ src[i + 1] # "\\" /\ last = i + 2
      BY <1>1, <1>6, <2>1, <2>2 DEF Has
    <3>2. CharRead(i, i + 2)
      BY <1>3, <1>6, <3>1
    <3>3. \A j \in last + 1..Size : j \in i..Size /\ j # i + 1 /\ j # i + 2
      BY <1>1, <3>1
    <3>4. \A j \in last + 1..Size : ~CharRead(i, j)
      BY <1>3, <3>1, <3>3
    <3> QED BY <1>2, <3>1, <3>2, <3>4
  <2>3. CASE ~Has(i + 2, "'")
    <3>1. last = i + 1 /\ \A j \in i..Size : j = i + 2 => src[j] # "'"
      BY <1>1, <2>1, <2>3 DEF Has
    <3>2. \A j \in i..Size : j = i + 3 => src[i + 1] # "\\"
      BY <1>1, <1>6
    <3>3. \A j \in i..Size : ~CharRead(i, j)
      BY <1>3, <1>6, <3>1, <3>2
    <3>4. \A j \in i..last : j \in i..Size
      BY <1>1, <1>6, <3>1
    <3>5. \A j \in last + 1..Size : j \in i..Size
      BY <1>1, <1>6, <3>1
    <3> QED BY <1>2, <3>3, <3>4, <3>5
  <2> QED BY <2>2, <2>3
<1>7. CASE i + 1 <= Size /\ src[i + 1] # "'" /\ src[i + 1] = "\\" /\ i + 1 # Size
  <2>1. body = 2 /\ last = IF Has(i + 3, "'") THEN i + 3 ELSE i + 2
    BY <1>1, <1>7 DEF Has
  <2>2. CASE Has(i + 3, "'")
    <3>1. src[i + 3] = "'" /\ i + 3 \in i..Size /\ last = i + 3
      BY <1>1, <2>1, <2>2 DEF Has
    <3>2. CharRead(i, i + 3)
      BY <1>3, <1>7, <3>1
    <3>3. \A j \in last + 1..Size : j \in i..Size /\ j # i + 1 /\ j # i + 3
      BY <1>1, <3>1
    <3>4. \A j \in last + 1..Size : ~CharRead(i, j)
      BY <1>3, <1>7, <3>3
    <3> QED BY <1>2, <3>1, <3>2, <3>4
  <2>3. CASE ~Has(i + 3, "'")
    <3>1. last = i + 2 /\ \A j \in i..Size : j = i + 3 => src[j] # "'"
      BY <1>1, <2>1, <2>3 DEF Has
    <3>2. \A j \in i..Size : ~CharRead(i, j)
      BY <1>3, <1>7, <3>1
    <3>3. \A j \in i..last : j \in i..Size
      BY <1>1, <1>7, <3>1
    <3>4. \A j \in last + 1..Size : j \in i..Size
      BY <1>1, <1>7, <3>1
    <3> QED BY <1>2, <3>2, <3>3, <3>4
  <2> QED BY <2>2, <2>3
<1> QED BY <1>1, <1>4, <1>5, <1>6, <1>7

\* The run of backslashes before i starts after m.
RunFrom(m, i) == (m < 1 \/ src[m] # "\\") /\ \A k \in m + 1..i - 1 : src[k] = "\\"

LEMMA RunExists ==
  ASSUME NEW i \in Nat, i >= 1
  PROVE  \E m \in 0..i - 1 : RunFrom(m, i)
<1> DEFINE T == {k \in 0..i - 1 : k < 1 \/ src[k] # "\\"}
<1>1. i - 1 \in Nat /\ T \subseteq 0..i - 1 /\ 0 \in T
  OBVIOUS
<1>2. Max(T) \in T /\ \A k \in T : k <= Max(T)
  <2> HIDE DEF T
  <2> QED BY <1>1, MaxOf
<1>3. PICK m \in 0..i - 1 : m = Max(T)
  BY <1>1, <1>2
<1>4. ASSUME NEW k \in m + 1..i - 1 PROVE src[k] = "\\"
  <2>1. k \in 0..i - 1 /\ ~(k <= m) /\ ~(k < 1)
    OBVIOUS
  <2>2. k \notin T
    BY <1>2, <1>3, <2>1
  <2> QED BY <2>1, <2>2
<1> QED BY <1>2, <1>3, <1>4 DEF RunFrom

LEMMA EscapedIs ==
  ASSUME NEW i \in Nat, i >= 1, NEW m \in 0..i - 1, RunFrom(m, i)
  PROVE  Escaped(i) <=> (i - 1 - m) % 2 = 1
<1>1. ASSUME Escaped(i) PROVE (i - 1 - m) % 2 = 1
  <2>1. PICK k \in 0..i - 2 : /\ k % 2 = 0 /\ All(i - 1 - k, i - 1, {"\\"})
                              /\ i - 2 - k < 1 \/ src[i - 2 - k] # "\\"
    BY <1>1 DEF Escaped
  <2>2. ~(i - 2 - k > m)
    <3> SUFFICES ASSUME i - 2 - k > m PROVE FALSE
      OBVIOUS
    <3>1. i - 2 - k \in m + 1..i - 1 /\ ~(i - 2 - k < 1)
      OBVIOUS
    <3> QED BY <2>1, <3>1 DEF RunFrom
  <2>3. ~(i - 2 - k < m)
    <3> SUFFICES ASSUME i - 2 - k < m PROVE FALSE
      OBVIOUS
    <3>1. m \in i - 1 - k..i - 1 /\ ~(m < 1)
      OBVIOUS
    <3> QED BY <2>1, <3>1 DEF RunFrom, All
  <2>4. i - 1 - m = k + 1
    BY <2>2, <2>3
  <2>5. (k + 1) % 2 = 1
    BY <2>1
  <2> QED BY <2>4, <2>5
<1>2. ASSUME (i - 1 - m) % 2 = 1 PROVE Escaped(i)
  <2>1. i - 1 - m # 0
    BY <1>2
  <2>2. PICK k \in 0..i - 2 : k = i - 2 - m
    BY <2>1
  <2>3. k % 2 = 0
    <3>1. k + 1 = i - 1 - m
      BY <2>2
    <3>2. (k + 1) % 2 = 1
      BY <1>2, <3>1
    <3> QED BY <3>2
  <2>4. i - 2 - k = m /\ i - 1 - k = m + 1
    BY <2>2
  <2>5. All(i - 1 - k, i - 1, {"\\"})
    BY <2>4 DEF RunFrom, All
  <2> QED BY <2>3, <2>4, <2>5 DEF Escaped, RunFrom
<1> QED BY <1>1, <1>2

\* A character is escaped when a backslash that is not escaped is before it.
LEMMA EscapedNext ==
  ASSUME NEW i \in Nat, i >= 1
  PROVE  Escaped(i + 1) <=> src[i] = "\\" /\ ~Escaped(i)
<1>1. CASE src[i] # "\\"
  <2>1. RunFrom(i, i + 1) /\ i \in 0..(i + 1) - 1 /\ i + 1 \in Nat /\ i + 1 >= 1
    BY <1>1 DEF RunFrom
  <2>2. Escaped(i + 1) <=> ((i + 1) - 1 - i) % 2 = 1
    BY <2>1, EscapedIs
  <2>3. (i + 1) - 1 - i = 0 /\ 0 % 2 = 0
    OBVIOUS
  <2> QED BY <1>1, <2>2, <2>3
<1>2. CASE src[i] = "\\"
  <2>1. PICK m \in 0..i - 1 : RunFrom(m, i)
    BY RunExists
  <2>2. RunFrom(m, i + 1)
    <3>1. \A k \in m + 1..(i + 1) - 1 : k = i \/ k \in m + 1..i - 1
      OBVIOUS
    <3> QED BY <1>2, <2>1, <3>1 DEF RunFrom
  <2>3. m \in 0..(i + 1) - 1 /\ i + 1 \in Nat /\ i + 1 >= 1
    OBVIOUS
  <2>4. Escaped(i) <=> (i - 1 - m) % 2 = 1
    BY <2>1, EscapedIs
  <2>5. Escaped(i + 1) <=> ((i + 1) - 1 - m) % 2 = 1
    BY <2>2, <2>3, EscapedIs
  <2>6. PICK n \in Nat : n = i - 1 - m /\ (i + 1) - 1 - m = n + 1
    OBVIOUS
  <2>7. n % 2 = 1 <=> (n + 1) % 2 # 1
    OBVIOUS
  <2> QED BY <1>2, <2>4, <2>5, <2>6, <2>7
<1> QED BY <1>1, <1>2

(***************************************************************************)
(* What a string literal means.                                            *)
(***************************************************************************)
\* The characters and escapes between the quote at f and q start here.
Units(f, q) == {i \in f + 1..q - 1 : ~Escaped(i) /\ ~HexTail(f, i)}
Rank(f, q, u) == Cardinality({k \in Units(f, q) : k <= u})
Collected(f, q, text) ==
  Len(text) = Cardinality(Units(f, q)) /\ \A u \in Units(f, q) : text[Rank(f, q, u)] = Unit(u)

\* What the loop has read before its place, or before the closing quote.
ReadTo(s) == IF s.closed THEN s.i - 1 ELSE s.i
Reads(f, q, text) ==
  /\ \A k \in f + 1..q - 1 : ~Closing(k)
  /\ q <= Size => ~Escaped(q) /\ ~HexTail(f, q) /\ Collected(f, q, text)
QuoteAt(i)   == src[i] = "\""
Closes(f, s) == s.closed => ReadTo(s) \in f + 1..Size /\ QuoteAt(ReadTo(s))

LEMMA UnitsFinite ==
  ASSUME NEW f \in Nat, NEW q \in Nat
  PROVE  /\ IsFiniteSet(Units(f, q)) /\ Cardinality(Units(f, q)) \in Nat
         /\ \A u : /\ IsFiniteSet({k \in Units(f, q) : k <= u})
                   /\ Rank(f, q, u) \in 0..Cardinality(Units(f, q))
<1>1. IsFiniteSet(f + 1..q - 1)
  <2>1. f + 1 \in Int /\ q - 1 \in Int
    OBVIOUS
  <2> QED BY <2>1, FS_Interval
<1>2. Units(f, q) \subseteq f + 1..q - 1
  BY DEF Units
<1>3. IsFiniteSet(Units(f, q)) /\ Cardinality(Units(f, q)) \in Nat
  BY <1>1, <1>2, FS_Subset, FS_CardinalityType
<1>4. ASSUME NEW u
      PROVE  /\ IsFiniteSet({k \in Units(f, q) : k <= u})
             /\ Rank(f, q, u) \in 0..Cardinality(Units(f, q))
  <2> DEFINE T == {k \in Units(f, q) : k <= u}
  <2>1. T \subseteq Units(f, q)
    OBVIOUS
  <2> HIDE DEF T
  <2>2. IsFiniteSet(T) /\ Cardinality(T) \in Nat /\ Cardinality(T) <= Cardinality(Units(f, q))
    BY <1>3, <2>1, FS_Subset, FS_CardinalityType
  <2> QED BY <1>3, <2>2 DEF T, Rank
<1> QED BY <1>3, <1>4

LEMMA RankPositive ==
  ASSUME NEW f \in Nat, NEW q \in Nat, NEW u \in Units(f, q)
  PROVE  Rank(f, q, u) \in 1..Cardinality(Units(f, q))
<1> DEFINE T == {k \in Units(f, q) : k <= u}
<1>1. u \in T
  BY DEF Units
<1>2. IsFiniteSet(T) /\ Rank(f, q, u) = Cardinality(T) /\ Cardinality(T) \in 0..Cardinality(Units(f, q))
  BY UnitsFinite DEF Rank
<1> HIDE DEF T
<1>3. Cardinality(T) # 0
  BY <1>1, <1>2, FS_EmptySet
<1>4. Cardinality(Units(f, q)) \in Nat
  BY UnitsFinite
<1> QED BY <1>2, <1>3, <1>4

\* One more unit.
LEMMA CollectsOne ==
  ASSUME NEW f \in Nat, NEW q \in Nat, NEW r \in Nat, NEW S, NEW text \in Seq(S), NEW x \in S,
         Units(f, r) = Units(f, q) \cup {q}, Collected(f, q, text), x = Unit(q)
  PROVE  Collected(f, r, Append(text, x))
<1> DEFINE U == Units(f, q)
           V == Units(f, r)
           new == Append(text, x)
<1>1. \A u \in U : u \in Nat /\ u < q
  BY DEF Units
<1>2. IsFiniteSet(U) /\ Cardinality(U) \in Nat
  BY UnitsFinite
<1>3. PICK n \in Nat : n = Cardinality(U)
  BY <1>2
<1>4. V = U \cup {q} /\ q \notin U
  BY <1>1
<1>5. Len(text) = n /\ \A u \in U : text[Rank(f, q, u)] = Unit(u)
  BY <1>3 DEF Collected
<1>6. Len(new) = n + 1 /\ new[n + 1] = x /\ \A k \in 1..n : new[k] = text[k]
  BY <1>5, AppendProperties
<1>7. Cardinality(V) = n + 1
  <2> HIDE DEF U, V
  <2> QED BY <1>2, <1>3, <1>4, FS_AddElement
<1>8. ASSUME NEW u \in U PROVE new[Rank(f, r, u)] = Unit(u)
  <2>1. {k \in V : k <= u} = {k \in U : k <= u}
    <3>1. u \in Nat /\ u < q
      BY <1>1
    <3>2. ~(q <= u)
      BY <3>1
    <3> HIDE DEF U, V
    <3> QED BY <1>4, <3>2
  <2>2. Rank(f, r, u) = Rank(f, q, u)
    BY <2>1 DEF Rank
  <2>3. Rank(f, q, u) \in 1..n
    BY <1>3, RankPositive
  <2> QED BY <1>5, <1>6, <2>2, <2>3
<1>9. new[Rank(f, r, q)] = Unit(q)
  <2>1. {k \in V : k <= q} = V
    <3>1. \A k \in V : k <= q
      BY <1>1, <1>4
    <3> HIDE DEF V
    <3> QED BY <3>1
  <2>2. Rank(f, r, q) = n + 1
    BY <1>7, <2>1 DEF Rank
  <2> QED BY <1>6, <2>2
<1>10. \A u \in V : new[Rank(f, r, u)] = Unit(u)
  <2> HIDE DEF U, V, new
  <2> QED BY <1>4, <1>8, <1>9
<1> QED BY <1>6, <1>7, <1>10 DEF Collected

\* What a step from q to r reads, which is not a quote unless it is escaped.
LEMMA ReadsOne ==
  ASSUME Text, NEW f \in Nat, NEW q \in f + 1..Size, NEW r \in q + 1..Size + 1, NEW text \in Seq(Meanings),
         NEW x \in Meanings, Reads(f, q, text), x = Unit(q),
         \A k \in q..r - 1 : ~Closing(k),
         \A k \in q + 1..r - 1 : Escaped(k) \/ HexTail(f, k),
         ~Escaped(r), ~HexTail(f, r)
  PROVE  Reads(f, r, Append(text, x))
<1>1. Size \in Nat /\ q \in Nat /\ r \in Nat /\ q <= Size /\ q < r
  BY TextFacts
<1>2. ~Escaped(q) /\ ~HexTail(f, q) /\ Collected(f, q, text)
  BY <1>1 DEF Reads
<1>3. ASSUME NEW k \in f + 1..r - 1 PROVE ~Closing(k)
  <2>1. k \in f + 1..q - 1 \/ k \in q..r - 1
    BY <1>1
  <2> QED BY <2>1 DEF Reads
<1>4. Units(f, r) = Units(f, q) \cup {q}
  <2>1. ASSUME NEW k \in f + 1..r - 1 PROVE k \in f + 1..q - 1 \/ k = q \/ k \in q + 1..r - 1
    BY <1>1
  <2>2. \A k \in f + 1..q - 1 : k \in f + 1..r - 1
    BY <1>1
  <2>3. q \in f + 1..r - 1
    BY <1>1
  <2> QED BY <1>2, <2>1, <2>2, <2>3 DEF Units
<1>5. Collected(f, r, Append(text, x))
  BY <1>1, <1>2, <1>4, CollectsOne
<1> QED BY <1>3, <1>5 DEF Reads

LEMMA TurnReads ==
  ASSUME Text, NEW f \in 1..Size, NEW s \in Loops(f + 1), ~Stopped(s), Reads(f, ReadTo(s), s.text)
  PROVE  /\ Reads(f, ReadTo(StringTurn(s)), StringTurn(s).text)
         /\ Closes(f, StringTurn(s))
<1> DEFINE i   == s.i
           raw == Grow(s.raw, s.raw.len + 2)
           val == Grow(s.val, s.val.len + 2)
<1>1. Size \in Nat /\ f \in Nat /\ i \in f + 1..Size /\ i \in Nat /\ i \in 1..Size /\ i >= 1
  BY TextFacts DEF Loops, Stopped
<1>2. s.text \in Seq(Meanings) /\ s.closed = FALSE
  BY DEF Loops, Stopped
<1>3. ReadTo(s) = i
  BY <1>2 DEF ReadTo
<1>4. Reads(f, i, s.text) /\ ~Escaped(i) /\ ~HexTail(f, i)
  BY <1>1, <1>3 DEF Reads
<1> DEFINE t    == StringTurn(s)
           Goal == Reads(f, ReadTo(t), t.text) /\ Closes(f, t)
<1>5. ASSUME NEW j, NEW r, NEW v, NEW x, t = String(j, r, v, x, FALSE), Reads(f, j, x)
      PROVE  Goal
  <2> HIDE DEF t
  <2>1. ReadTo(t) = j /\ t.text = x /\ t.closed = FALSE
    BY <1>5 DEF ReadTo, String
  <2> QED BY Zenon, <1>5, <2>1 DEF Closes
<1>6. ASSUME NEW j, NEW r, NEW v, NEW x, t = String(j, r, v, x, TRUE), Reads(f, j - 1, x),
             j - 1 \in f + 1..Size, QuoteAt(j - 1)
      PROVE  Goal
  <2> HIDE DEF t
  <2>1. ReadTo(t) = j - 1 /\ t.text = x
    BY <1>6 DEF ReadTo, String
  <2> QED BY <1>6, <2>1 DEF Closes
<1> SUFFICES Goal
  OBVIOUS
<1> HIDE DEF raw, val, i, Goal
<1>7. CASE src[i] = "\""
  <2>1. StringTurn(s) = String(i + 1, Write(raw, 1), s.val, s.text, TRUE)
    BY <1>7 DEF StringTurn, raw, i
  <2>2. (i + 1) - 1 = i
    BY <1>1
  <2>3. Reads(f, (i + 1) - 1, s.text) /\ (i + 1) - 1 \in f + 1..Size /\ QuoteAt((i + 1) - 1)
    BY <1>1, <1>4, <1>7, <2>2 DEF QuoteAt
  <2> QED BY Zenon, <1>6, <2>1, <2>3
<1>8. CASE src[i] # "\"" /\ src[i] # "\\"
  <2>1. StringTurn(s) = String(i + 1, Write(raw, 1), Write(s.val, 1), Append(s.text, src[i]), FALSE)
    BY <1>8 DEF StringTurn, raw, i
  <2>2. ~Escaped(i + 1)
    BY <1>1, <1>8, EscapedNext
  <2>3. ~HexTail(f, i + 1)
    <3>1. (i + 1) - 1 = i /\ (i + 1) - 2 = i - 1
      BY <1>1
    <3> QED BY <1>4, <3>1 DEF HexTail
  <2>4. src[i] \in Meanings /\ src[i] = Unit(i)
    BY <1>1, <1>8 DEF Meanings, Unit
  <2>7. ~Closing(i)
    BY <1>8 DEF Closing
  <2>5. /\ i + 1 \in i + 1..Size + 1
        /\ \A k \in i..(i + 1) - 1 : k = i
        /\ \A k \in i + 1..(i + 1) - 1 : FALSE
    BY <1>1
  <2>6. Reads(f, i + 1, Append(s.text, src[i]))
    BY <1>1, <1>2, <1>4, <2>2, <2>3, <2>4, <2>5, <2>7, ReadsOne
  <2> QED BY Zenon, <1>5, <2>1, <2>6
<1>9. CASE src[i] = "\\" /\ i = Size
  <2>1. StringTurn(s) = String(i + 1, Write(raw, 1), s.val, s.text, FALSE)
    BY <1>9 DEF StringTurn, raw, i
  <2>2. ASSUME NEW k \in f + 1..(i + 1) - 1 PROVE ~Closing(k)
    <3>1. k \in f + 1..i - 1 \/ k = i
      BY <1>1
    <3> QED BY <1>4, <1>9, <3>1 DEF Reads, Closing
  <2>3. ~(i + 1 <= Size)
    BY <1>1, <1>9
  <2>4. Reads(f, i + 1, s.text)
    BY <2>2, <2>3 DEF Reads
  <2> QED BY Zenon, <1>5, <2>1, <2>4
<1>10. CASE src[i] = "\\" /\ i # Size /\ IsHexEscape(i + 1)
  <2>1. StringTurn(s) = String(i + 4, HexLexeme(raw), Write(val, 1),
                               Append(s.text, Byte(src[i + 2], src[i + 3])), FALSE)
    BY <1>10 DEF StringTurn, raw, val, i
  <2>0. (i + 1) + 1 = i + 2 /\ (i + 1) + 2 = i + 3 /\ (i + 2) + 1 = i + 3 /\ (i + 3) + 1 = i + 4
    BY <1>1
  <2>2. /\ i + 2 \in 1..Size /\ i + 3 \in 1..Size /\ src[i + 1] = "x"
        /\ src[i + 2] \in Hex /\ src[i + 3] \in Hex
    BY <1>1, <1>10, <2>0 DEF IsHexEscape, Has
  <2>3. src[i + 2] \notin {"\\", "\""} /\ src[i + 3] \notin {"\\", "\""}
    BY <2>2 DEF Hex, Digit, HexLow, HexHigh
  <2>4. Escaped(i + 1)
    BY <1>1, <1>4, <1>10, EscapedNext
  <2>5. ~Escaped(i + 2) /\ ~Escaped(i + 3) /\ ~Escaped(i + 4)
    <3>1. \A k \in {i + 1, i + 2, i + 3} : k \in Nat /\ k >= 1
      BY <1>1
    <3> QED BY <2>0, <2>2, <2>3, <3>1, EscapedNext
  <2>6. HexTail(f, i + 2) /\ HexTail(f, i + 3)
    <3>1. i + 1 > f /\ (i + 2) - 1 = i + 1 /\ (i + 3) - 2 = i + 1
      BY <1>1
    <3> QED BY <1>10, <2>2, <2>4, <3>1 DEF HexTail
  <2>7. ~HexTail(f, i + 4)
    <3>1. (i + 4) - 1 = i + 3 /\ (i + 4) - 2 = i + 2
      BY <1>1
    <3> QED BY <2>5, <3>1 DEF HexTail
  <2>8. Byte(src[i + 2], src[i + 3]) \in Meanings /\ Byte(src[i + 2], src[i + 3]) = Unit(i)
    <3>1. <<i + 2, i + 3>> \in (1..Size) \X (1..Size)
      BY <2>2
    <3> QED BY <1>10, <3>1 DEF Meanings, Unit
  <2>9. /\ i + 4 \in i + 1..Size + 1
        /\ \A k \in i..(i + 4) - 1 : k = i \/ k = i + 1 \/ k = i + 2 \/ k = i + 3
        /\ \A k \in i + 1..(i + 4) - 1 : k = i + 1 \/ k = i + 2 \/ k = i + 3
    BY <1>1, <2>2
  <2>10. \A k \in i..(i + 4) - 1 : ~Closing(k)
    <3>1. ~Closing(i) /\ ~Closing(i + 1) /\ ~Closing(i + 2) /\ ~Closing(i + 3)
      BY <1>10, <2>2, <2>3 DEF Closing
    <3> QED BY <2>9, <3>1
  <2>11. \A k \in i + 1..(i + 4) - 1 : Escaped(k) \/ HexTail(f, k)
    BY <2>4, <2>6, <2>9
  <2>12. Reads(f, i + 4, Append(s.text, Byte(src[i + 2], src[i + 3])))
    BY <1>1, <1>2, <1>4, <2>5, <2>7, <2>8, <2>9, <2>10, <2>11, ReadsOne
  <2> QED BY Zenon, <1>5, <2>1, <2>12
<1>11. CASE src[i] = "\\" /\ i # Size /\ ~IsHexEscape(i + 1)
  <2>1. StringTurn(s) = String(i + 2, Write(raw, 2), Write(val, 1), Append(s.text, Decoded(src[i + 1])), FALSE)
    BY <1>11 DEF StringTurn, raw, val, i
  <2>2. (i + 1) + 1 = i + 2 /\ i + 1 \in Nat /\ i + 1 >= 1 /\ i + 1 \in 1..Size
    BY <1>1, <1>11
  <2>3. Escaped(i + 1) /\ ~Escaped(i + 2)
    BY <1>1, <1>4, <1>11, <2>2, EscapedNext
  <2>4. ~HexTail(f, i + 2)
    <3>1. (i + 2) - 1 = i + 1 /\ (i + 2) - 2 = i
      BY <1>1
    <3> QED BY <1>4, <1>11, <3>1 DEF HexTail
  <2>5. Decoded(src[i + 1]) \in Meanings /\ Decoded(src[i + 1]) = Unit(i)
    BY <1>11, <2>2 DEF Meanings, Unit, Decoded
  <2>6. /\ i + 2 \in i + 1..Size + 1
        /\ \A k \in i..(i + 2) - 1 : k = i \/ k = i + 1
        /\ \A k \in i + 1..(i + 2) - 1 : k = i + 1
    BY <1>1, <2>2
  <2>7. \A k \in i..(i + 2) - 1 : ~Closing(k)
    <3>1. ~Closing(i) /\ ~Closing(i + 1)
      BY <1>11, <2>3 DEF Closing
    <3> QED BY <2>6, <3>1
  <2>8. Reads(f, i + 2, Append(s.text, Decoded(src[i + 1])))
    BY <1>1, <1>2, <1>4, <2>3, <2>4, <2>5, <2>6, <2>7, ReadsOne
  <2> QED BY Zenon, <1>5, <2>1, <2>8
<1> QED BY <1>1, <1>7, <1>8, <1>9, <1>10, <1>11 DEF i

\* Where the loop starts.
Opened(f) == String(f + 1, Write(Buffer(0), 1), Buffer(0), << >>, FALSE)

LEMMA QuoteFacts ==
  /\ \A i : QuoteAt(i) => src[i] # "\\"
  /\ \A i \in Nat : \A j : QuoteAt(i) => (Lexeme(i, j) <=> StringLexeme(i, j))
  /\ \A i : Closing(i) <=> QuoteAt(i) /\ ~Escaped(i)
  /\ \A i, j : StringLexeme(i, j) <=>
       j > i /\ QuoteAt(i) /\ Closing(j) /\ \A k \in i + 1..j - 1 : ~Closing(k)
<1>1. ASSUME NEW i, QuoteAt(i) PROVE src[i] # "\\"
  BY <1>1 DEF QuoteAt
<1>2. ASSUME NEW i \in Nat, NEW j, QuoteAt(i) PROVE Lexeme(i, j) <=> StringLexeme(i, j)
  BY <1>2, QuoteStarts DEF QuoteAt
<1>3. \A i : Closing(i) <=> QuoteAt(i) /\ ~Escaped(i)
  BY Zenon DEF QuoteAt, Closing
<1>4. ASSUME NEW i, NEW j
      PROVE  StringLexeme(i, j) <=>
               j > i /\ QuoteAt(i) /\ Closing(j) /\ \A k \in i + 1..j - 1 : ~Closing(k)
  BY Zenon DEF QuoteAt, StringLexeme
<1> QED BY <1>1, <1>2, <1>3, <1>4

LEMMA OpenedFacts ==
  ASSUME Text, NEW f \in 1..Size, QuoteAt(f)
  PROVE  /\ Opened(f) \in Loops(f + 1)
         /\ Reads(f, ReadTo(Opened(f)), Opened(f).text) /\ Closes(f, Opened(f))
<1> DEFINE o == Opened(f)
<1>1. Size \in Nat /\ f \in Nat /\ f + 1 \in f + 1..Size + 1 /\ f >= 1 /\ f + 1 \in Nat
  BY TextFacts
<1>2. Buffer(0) \in Buffers
  BY SizesAssumption DEF Buffer, Buffers
<1>3. Write(Buffer(0), 1) \in Held
  <2>1. Buffer(0) = Buf(0, InitialCap) /\ InitialCap \in Nat /\ InitialCap >= 4
    BY SizesAssumption DEF Buffer, Buf
  <2>2. Write(Buf(0, InitialCap), 1) = Buf(0 + 1, InitialCap)
    <3>1. ~(0 + 1 > InitialCap) /\ 0 \in Nat /\ 1 \in Nat
      BY <2>1
    <3> QED BY <2>1, <3>1, Writes
  <2>3. Buf(0 + 1, InitialCap) \in Held
    BY <2>1 DEF Buf, Held
  <2> QED BY <2>1, <2>2, <2>3
<1>4. << >> \in Seq(Meanings)
  OBVIOUS
<1>5. o \in Loops(f + 1)
  <2>1. ASSUME NEW r \in Held, NEW v \in Buffers, NEW x \in Seq(Meanings)
        PROVE  String(f + 1, r, v, x, FALSE) \in Loops(f + 1)
    BY <1>1 DEF String, Loops
  <2> QED BY <1>2, <1>3, <1>4, <2>1 DEF Opened
<1>6. ReadTo(o) = f + 1 /\ o.text = << >> /\ o.closed = FALSE
  BY DEF Opened, String, ReadTo
<1>7. ~Escaped(f + 1)
  BY <1>1, EscapedNext, QuoteFacts
<1>8. ~HexTail(f, f + 1)
  <2>1. ~((f + 1) - 1 > f) /\ ~((f + 1) - 2 > f)
    BY <1>1
  <2> QED BY <2>1 DEF HexTail
<1>9. \A k \in f + 1..(f + 1) - 1 : FALSE
  BY <1>1
<1>10. Collected(f, f + 1, << >>)
  <2>1. Units(f, f + 1) = {}
    BY <1>9 DEF Units
  <2>2. Cardinality({}) = 0 /\ Len(<< >>) = 0
    BY FS_EmptySet
  <2> QED BY <2>1, <2>2 DEF Collected
<1>11. Reads(f, f + 1, << >>)
  BY <1>7, <1>8, <1>9, <1>10 DEF Reads
<1> HIDE DEF o
<1>12. Closes(f, o)
  BY Zenon, <1>6 DEF Closes
<1> QED BY <1>5, <1>6, <1>11, <1>12 DEF o

\* The loop ends after its literal, whose lexeme has stayed in its buffer and
\* whose value is what it means.
LEMMA LoopFacts ==
  ASSUME Text, NEW f \in 1..Size, QuoteAt(f)
  PROVE  LET s == StringLoop(Opened(f))
         IN  /\ s.i \in f + 1..Size + 1 /\ s.raw.over = FALSE
             /\ s.closed => Best(f, s.i - 1) /\ Collected(f, s.i - 1, s.text)
<1>1. Size \in Nat /\ f \in Nat /\ f + 1 \in 1..Size + 1
  BY TextFacts
<1>2. PICK w : /\ w[0] = Opened(f) /\ StringLoop(Opened(f)) = w[Size]
               /\ \A n \in 1..Size : w[n] = IF Stopped(w[n - 1]) THEN w[n - 1] ELSE StringTurn(w[n - 1])
               /\ \A n \in 0..Size : w[n] \in Loops(f + 1)
  BY <1>1, OpenedFacts, LoopIs
<1> DEFINE Fine(n) == Reads(f, ReadTo(w[n]), w[n].text) /\ Closes(f, w[n])
           P == {n \in Nat : n <= Size => Fine(n)}
<1>3. 0 \in P
  BY <1>2, OpenedFacts
<1>4. ASSUME NEW n \in Nat, n \in P PROVE n + 1 \in P
  <2> SUFFICES ASSUME n + 1 <= Size PROVE Fine(n + 1)
    OBVIOUS
  <2>1. n + 1 \in 1..Size /\ (n + 1) - 1 = n /\ n <= Size /\ n \in 0..Size
    BY <1>1
  <2>2. w[n + 1] = (IF Stopped(w[n]) THEN w[n] ELSE StringTurn(w[n])) /\ w[n] \in Loops(f + 1)
    BY <1>2, <2>1
  <2>3. Fine(n)
    BY <1>4, <2>1
  <2>4. CASE Stopped(w[n])
    BY <2>2, <2>3, <2>4
  <2>5. CASE ~Stopped(w[n])
    BY <2>2, <2>3, <2>5, TurnReads
  <2> QED BY <2>4, <2>5
<1>5. PICK s : s = w[Size]
  OBVIOUS
<1>6. s \in Loops(f + 1) /\ Reads(f, ReadTo(s), s.text) /\ Closes(f, s)
  <2>1. \A n \in Nat : n \in P
    <3> HIDE DEF P
    <3> QED BY <1>3, <1>4, SetInduct
  <2>2. Size \in Nat /\ Size <= Size /\ Size \in 0..Size
    BY <1>1
  <2>3. Fine(Size)
    BY <2>1, <2>2
  <2> QED BY <1>2, <1>5, <2>2, <2>3
<1>7. s.i \in f + 1..Size + 1 /\ s.raw.over = FALSE
  BY <1>6 DEF Loops, Held
<1>8. ASSUME s.closed PROVE Best(f, s.i - 1) /\ Collected(f, s.i - 1, s.text)
  <2>1. PICK q : q = s.i - 1
    OBVIOUS
  <2>2. q \in f + 1..Size /\ QuoteAt(q) /\ Reads(f, q, s.text)
    BY <1>6, <1>8, <2>1 DEF Closes, ReadTo
  <2>3. ~Escaped(q) /\ Collected(f, q, s.text) /\ \A k \in f + 1..q - 1 : ~Closing(k)
    BY <1>1, <2>2 DEF Reads
  <2>4. Closing(q)
    BY <2>2, <2>3, QuoteFacts
  <2>5. StringLexeme(f, q)
    BY <1>1, <2>2, <2>3, <2>4, QuoteFacts
  <2>6. ASSUME NEW j \in q + 1..Size, StringLexeme(f, j) PROVE FALSE
    <3>1. q \in f + 1..j - 1
      BY <1>1, <2>2
    <3> QED BY <2>4, <2>6, <3>1, QuoteFacts
  <2>7. Best(f, q)
    BY <1>1, <2>5, <2>6, QuoteFacts DEF Best
  <2> QED BY <2>1, <2>3, <2>7
<1> QED BY <1>2, <1>5, <1>7, <1>8

(***************************************************************************)
(* The inductive invariant.                                                *)
(***************************************************************************)
\* A token is the longest lexeme at its place and has the value it means.
Says(t) ==
  /\ t.kind \notin {"Error", "Eof"} => Longest(t)
  /\ t.kind = "String" => MeansString(t)
  /\ t.kind = "Int" /\ ~Octal(t) => MeansInteger(t)
TokenRight(t) ==
  /\ t.kind \in Kinds
  /\ t.first \in 1..Size + 1 /\ t.last \in t.first - 1..Size
  /\ t.num \in Values
  /\ t.kind # "Error" => t.line = LineOf(t.first) /\ t.column = ColumnOf(t.first)
  /\ Says(t)

Gap(i, j) == Skippable(i, j) \/ LeftOpen(i, j)

Listed      == tokens \in Seq({tokens[n] : n \in 1..Len(tokens)})
Placed      == at.pos \in 1..Size + 1 /\ at = At(at.pos)
TokensRight == \A n \in 1..Len(tokens) : TokenRight(tokens[n]) /\ Gap(GapStart(n), tokens[n].first - 1)
AtGap       == ~Ended => at.pos = GapStart(Len(tokens) + 1)

IInv == Text /\ Listed /\ over \subseteq {"val"} /\ Placed /\ TokensRight /\ AtGap

LEMMA InitIInv == Init => IInv
<1> SUFFICES ASSUME Init PROVE IInv
  OBVIOUS
<1>1. Text
  BY TextsAssumption DEF Init, Text
<1>2. tokens = << >> /\ Len(tokens) = 0
  BY DEF Init
<1>3. Listed
  BY <1>2 DEF Listed
<1>4. Placed
  BY <1>1, AtStart DEF Init, Placed, At
<1>5. TokensRight
  BY <1>2 DEF TokensRight
<1>6. AtGap
  BY <1>2 DEF Init, AtGap, GapStart
<1> QED BY <1>1, <1>3, <1>4, <1>5, <1>6 DEF Init, IInv

LEMMA LinePlace ==
  ASSUME Text, NEW i \in 1..Size + 1
  PROVE  LineOf(i) \in 1..Size + 1 /\ ColumnOf(i) \in 1..Size + 1
<1>1. Size \in Nat /\ i \in Nat /\ i - 1 \in Nat
  BY TextFacts
<1>2. LineOf(i) \in 1..Size + 1
  <2>1. IsFiniteSet(1..i - 1) /\ Cardinality(1..i - 1) = i - 1
    <3>1. 1 \in Int /\ i - 1 \in Int
      BY <1>1
    <3>2. Cardinality(1..i - 1) = IF 1 > i - 1 THEN 0 ELSE (i - 1) - 1 + 1
      BY <3>1, FS_Interval
    <3> QED BY <1>1, <3>1, <3>2, FS_Interval
  <2>2. Newlines(i) \subseteq 1..i - 1
    BY DEF Newlines
  <2>3. Cardinality(Newlines(i)) <= i - 1
    BY <2>1, <2>2, FS_Subset
  <2>4. PICK c \in Nat : c = Cardinality(Newlines(i))
    BY <1>1, NewlinesFinite
  <2>5. 1 + c \in 1..Size + 1
    BY <1>1, <2>3, <2>4
  <2> QED BY <2>4, <2>5 DEF LineOf
<1>3. ColumnOf(i) \in 1..Size + 1
  <2> DEFINE T == {0} \cup Newlines(i)
  <2>1. T \subseteq 0..i - 1 /\ T # {}
    BY <1>1 DEF Newlines
  <2>2. Max(T) \in 0..i - 1
    <3> HIDE DEF T
    <3> QED BY <1>1, <2>1, MaxOf
  <2>3. PICK m \in 0..i - 1 : m = Max(T)
    BY <2>2
  <2>4. i - m \in 1..Size + 1
    BY <1>1
  <2> QED BY <2>3, <2>4 DEF ColumnOf
<1> QED BY <1>2, <1>3

LEMMA InvTypeOK == IInv => TypeOK
<1> SUFFICES ASSUME IInv PROVE TypeOK
  OBVIOUS
<1>1. Text /\ Placed /\ TokensRight /\ over \subseteq {"raw", "val"}
  BY DEF IInv
<1>2. at.pos \in 1..Size + 1 /\ at.line = LineOf(at.pos) /\ at.column = ColumnOf(at.pos)
  BY <1>1 DEF Placed, At
<1>3. at.line \in 1..Size + 1 /\ at.column \in 1..Size + 1
  BY <1>1, <1>2, LinePlace
<1>4. \A n \in 1..Len(tokens) : /\ tokens[n].kind \in Kinds
                                /\ tokens[n].first \in 1..Size + 1 /\ tokens[n].last \in 0..Size
                                /\ tokens[n].num \in -Half..Largest
  <2> TAKE n \in 1..Len(tokens)
  <2>1. TokenRight(tokens[n]) /\ Size \in Nat
    BY <1>1, TextFacts DEF TokensRight
  <2> QED BY <2>1 DEF TokenRight, Values
<1> QED BY <1>1, <1>2, <1>3, <1>4 DEF TypeOK

(***************************************************************************)
(* A step appends one right token, which starts where the next token of    *)
(* the text does, and goes on after it unless it is the last.              *)
(***************************************************************************)
LEMMA StartFacts ==
  ASSUME IInv, ~Ended
  PROVE  /\ First \in at.pos..Size + 1 /\ First \in 1..Size + 1 /\ Start = At(First)
         /\ skip_one(First) = First
         /\ Gap(GapStart(Len(tokens) + 1), First - 1)
<1> DEFINE e == skip_whitespace_and_comments(at.pos)
<1>1. Text /\ at.pos \in 1..Size + 1 /\ at = At(at.pos) /\ at.pos = GapStart(Len(tokens) + 1)
  BY DEF IInv, Placed, AtGap
<1>2. Size \in Nat
  BY <1>1, TextFacts
<1>3. e \in at.pos..Size + 1 /\ skip_one(e) = e /\ Gap(at.pos, e - 1)
  BY <1>1, SkipFacts DEF Gap
<1> HIDE DEF e
<1>4. e \in Nat /\ at.pos <= e /\ e <= Size + 1
  BY <1>1, <1>2, <1>3
<1>5. To(At(at.pos), e) = At(e)
  BY <1>1, <1>4, ToPlace
<1>6. Start = At(e)
  BY <1>1, <1>5 DEF Start, e
<1>7. First = e
  BY <1>6 DEF First, At
<1>8. e \in 1..Size + 1
  BY <1>1, <1>2, <1>4
<1> QED BY <1>1, <1>3, <1>6, <1>7, <1>8

LEMMA SameLexemes ==
  ASSUME src' = src
  PROVE  \A t : Longest(t)' <=> Longest(t)
<1>1. Size' = Size
  BY DEF Size
<1>2. \A i : Escaped(i)' <=> Escaped(i)
  BY DEF Escaped, All
<1>3. ASSUME NEW i PROVE Closing(i)' <=> Closing(i)
  BY <1>2 DEF Closing
<1>4. ASSUME NEW i, NEW j PROVE StringLexeme(i, j)' <=> StringLexeme(i, j)
  BY <1>3 DEF StringLexeme
<1>5. \A i, j : (WordLexeme(i, j)' <=> WordLexeme(i, j)) /\ (OwnWord(i, j)' <=> OwnWord(i, j))
  BY DEF WordLexeme, OwnWord, All
<1>6. \A i, j : Pointed(i, j)' <=> Pointed(i, j)
  BY DEF Pointed, All
<1>7. ASSUME NEW i, NEW j
      PROVE  /\ (IntLexeme(i, j)' <=> IntLexeme(i, j))
             /\ (FloatLexeme(i, j)' <=> FloatLexeme(i, j))
             /\ (OwnNumber(i, j)' <=> OwnNumber(i, j))
  <2>1. IntLexeme(i, j)' <=> IntLexeme(i, j)
    BY DEF IntLexeme, All
  <2>2. FloatLexeme(i, j)' <=> FloatLexeme(i, j)
    BY <1>6 DEF FloatLexeme
  <2>3. OwnNumber(i, j)' <=> OwnNumber(i, j)
    BY <1>6 DEF OwnNumber, All
  <2> QED BY <2>1, <2>2, <2>3
<1>8. ASSUME NEW i, NEW j
      PROVE  /\ (CharLexeme(i, j)' <=> CharLexeme(i, j))
             /\ (OwnChar(i, j)' <=> OwnChar(i, j))
             /\ (DirectiveLexeme(i, j)' <=> DirectiveLexeme(i, j))
             /\ (OwnDirective(i, j)' <=> OwnDirective(i, j))
  BY DEF CharLexeme, OwnChar, DirectiveLexeme, OwnDirective, All
<1>9. \A i, j : OperatorLexeme(i, j)' <=> OperatorLexeme(i, j)
  BY DEF OperatorLexeme
<1>10. ASSUME NEW i, NEW j PROVE Lexeme(i, j)' <=> Lexeme(i, j)
  <2>1. ReferenceLexeme(i, j)' <=> ReferenceLexeme(i, j)
    BY <1>4, <1>5, <1>7, <1>8, <1>9 DEF ReferenceLexeme
  <2>2. OwnLexeme(i, j)' <=> OwnLexeme(i, j)
    BY <1>5, <1>7, <1>8 DEF OwnLexeme
  <2>3. Missed(i, j)' <=> Missed(i, j)
    BY <1>7 DEF Missed
  <2> QED BY <2>1, <2>2, <2>3 DEF Lexeme
<1> QED BY <1>1, <1>10 DEF Longest

LEMMA SameValues ==
  ASSUME src' = src
  PROVE  /\ \A t : MeansString(t)' <=> MeansString(t)
         /\ \A t : (Octal(t)' <=> Octal(t)) /\ (MeansInteger(t)' <=> MeansInteger(t))
<1>1. Size' = Size
  BY DEF Size
<1>2. \A i : Escaped(i)' <=> Escaped(i)
  BY DEF Escaped, All
<1>3. \A i : IsHexEscape(i)' <=> IsHexEscape(i)
  BY <1>1 DEF IsHexEscape, Has
<1>4. \A f, i : HexTail(f, i)' <=> HexTail(f, i)
  BY <1>2, <1>3 DEF HexTail
<1>5. \A t : UnitStarts(t)' = UnitStarts(t)
  BY <1>2, <1>4 DEF UnitStarts
<1>6. \A i : Unit(i)' = Unit(i)
  BY <1>3 DEF Unit
<1>7. \A t : MeansString(t)' <=> MeansString(t)
  BY <1>5, <1>6 DEF MeansString
<1>8. \A i, j, b : Digits(i, j, b)' = Digits(i, j, b)
  BY DEF Digits
<1>9. \A t : Octal(t)' <=> Octal(t)
  BY DEF Octal, All
<1>10. \A t : Base(t)' = Base(t)
  BY <1>9 DEF Base
<1>11. \A t : IntegerOf(t)' = IntegerOf(t)
  BY <1>8, <1>10 DEF IntegerOf
<1>12. \A t : MeansInteger(t)' <=> MeansInteger(t)
  BY <1>10, <1>11 DEF MeansInteger
<1> QED BY <1>7, <1>9, <1>12

LEMMA SameText ==
  ASSUME src' = src
  PROVE  /\ Text' = Text /\ Size' = Size
         /\ \A i : At(i)' = At(i)
         /\ \A i, j : Gap(i, j)' <=> Gap(i, j)
         /\ \A t : TokenRight(t)' <=> TokenRight(t)
<1>1. Text' = Text /\ Size' = Size
  BY DEF Text, Size
<1>2. \A i : LineOf(i)' = LineOf(i) /\ ColumnOf(i)' = ColumnOf(i)
  BY DEF LineOf, ColumnOf, Newlines
<1>3. \A i : At(i)' = At(i)
  BY <1>2 DEF At
<1>4. \A i, j : Skippable(i, j)' <=> Skippable(i, j)
  BY DEF Skippable, Piece, LineComment, BlockComment, ClosingStar, Size
<1>5. \A i, j : LeftOpen(i, j)' <=> LeftOpen(i, j)
  BY <1>4 DEF LeftOpen, ClosingStar, Size
<1>6. \A t : Says(t)' <=> Says(t)
  BY SameLexemes, SameValues DEF Says
<1>7. \A t : TokenRight(t)' <=> TokenRight(t)
  BY <1>1, <1>2, <1>6 DEF TokenRight
<1> QED BY <1>1, <1>3, <1>4, <1>5, <1>7 DEF Gap

LEMMA Appended ==
  ASSUME Listed, NEW t, tokens' = Append(tokens, t)
  PROVE  /\ Listed' /\ Len(tokens) \in Nat /\ Len(tokens') = Len(tokens) + 1
         /\ tokens'[Len(tokens) + 1] = t
         /\ \A n \in 1..Len(tokens) : tokens'[n] = tokens[n]
<1> DEFINE S == {tokens[n] : n \in 1..Len(tokens)}
           U == S \cup {t}
<1>1. tokens \in Seq(S)
  BY DEF Listed
<1>2. \A n \in 1..Len(tokens) : tokens[n] \in S
  OBVIOUS
<1> HIDE DEF S
<1>3. tokens \in Seq(U) /\ Len(tokens) \in Nat
  <2>1. Len(tokens) \in Nat /\ tokens \in [1..Len(tokens) -> S]
    BY <1>1, LenProperties
  <2>2. tokens \in [1..Len(tokens) -> U]
    BY <2>1
  <2> HIDE DEF U
  <2> QED BY <2>1, <2>2, SeqDef
<1>4. t \in U
  OBVIOUS
<1> HIDE DEF U
<1>5. /\ tokens' \in Seq(U) /\ Len(tokens') = Len(tokens) + 1
      /\ \A n \in 1..Len(tokens) : tokens'[n] = tokens[n]
      /\ tokens'[Len(tokens) + 1] = t
  BY <1>3, <1>4, AppendProperties
<1>6. Listed'
  <2> DEFINE V == {tokens'[n] : n \in 1..Len(tokens')}
  <2>1. Len(tokens') \in Nat /\ tokens' \in [1..Len(tokens') -> U]
    BY <1>5, LenProperties
  <2>2. tokens' \in [1..Len(tokens') -> V]
    BY <2>1
  <2> HIDE DEF V
  <2>3. tokens' \in Seq(V)
    BY <2>1, <2>2, SeqDef
  <2> QED BY <2>3 DEF Listed, V
<1> QED BY <1>3, <1>5, <1>6

LEMMA StepKeeps ==
  ASSUME IInv, ~Ended, NEW t, NEW j \in 1..Size + 1,
         TokenRight(t), t.first = First, t.kind \notin {"Eof", "Error"} => j = t.last + 1,
         tokens' = Append(tokens, t), at' = At(j), src' = src, over' \subseteq {"val"}
  PROVE  IInv'
<1> DEFINE m == Len(tokens)
<1>1. /\ Listed' /\ m \in Nat /\ Len(tokens') = m + 1 /\ tokens'[m + 1] = t
      /\ \A n \in 1..m : tokens'[n] = tokens[n]
  BY Appended DEF IInv
<1>2. /\ Text' = Text /\ Size' = Size
      /\ \A i : At(i)' = At(i)
      /\ \A i, k : Gap(i, k)' <=> Gap(i, k)
      /\ \A x : TokenRight(x)' <=> TokenRight(x)
  BY SameText
<1> HIDE DEF m
<1>3. \A n \in 1..m + 1 : GapStart(n)' = GapStart(n)
  <2> TAKE n \in 1..m + 1
  <2>1. n # 1 => n - 1 \in 1..m
    BY <1>1
  <2> QED BY <1>1, <2>1 DEF GapStart
<1>4. TokensRight'
  <2>1. ASSUME NEW n \in 1..m + 1
        PROVE  TokenRight(tokens'[n]) /\ Gap(GapStart(n), tokens'[n].first - 1)
    <3>1. CASE n = m + 1
      <4>1. Gap(GapStart(m + 1), First - 1)
        BY StartFacts DEF m
      <4> QED BY <1>1, <3>1, <4>1
    <3>2. CASE n # m + 1
      <4>1. n \in 1..m
        BY <1>1, <3>2
      <4> QED BY <1>1, <4>1 DEF IInv, TokensRight, m
    <3> QED BY <3>1, <3>2
  <2> SUFFICES ASSUME NEW n \in 1..m + 1
               PROVE  (TokenRight(tokens[n]) /\ Gap(GapStart(n), tokens[n].first - 1))'
    BY <1>1 DEF TokensRight
  <2>2. PICK x, g : x = tokens'[n] /\ g = GapStart(n)'
    OBVIOUS
  <2>3. TokenRight(x)' /\ Gap(g, x.first - 1)'
    BY <1>2, <1>3, <2>1, <2>2
  <2> QED BY <2>2, <2>3
<1>5. Placed'
  <2>1. at'.pos = j /\ at' = At(j)'
    BY <1>2 DEF At
  <2> QED BY <1>2, <2>1 DEF Placed
<1>6. AtGap'
  <2> SUFFICES ASSUME ~Ended' PROVE (at.pos = GapStart(Len(tokens) + 1))'
    BY DEF AtGap
  <2>1. PICK k \in Nat : k = m
    BY <1>1
  <2>2. tokens' # << >> /\ Len(tokens') = k + 1 /\ tokens'[k + 1] = t
    <3>1. Len(tokens') # 0
      BY <1>1
    <3> QED BY <1>1, <2>1, <3>1
  <2>3. t.kind \notin {"Eof", "Error"}
    BY <2>2 DEF Ended
  <2>4. (k + 1) + 1 # 1 /\ ((k + 1) + 1) - 1 = k + 1
    OBVIOUS
  <2>5. (GapStart(Len(tokens) + 1))' = t.last + 1
    BY <2>2, <2>4 DEF GapStart
  <2>6. at'.pos = j
    BY DEF At
  <2> QED BY <2>3, <2>5, <2>6
<1>7. over' \subseteq {"val"} /\ Text'
  BY <1>2 DEF IInv
<1> QED BY <1>1, <1>4, <1>5, <1>6, <1>7 DEF IInv

(***************************************************************************)
(* The tokens of the actions.                                              *)
(***************************************************************************)
LEMMA TokenIs ==
  ASSUME NEW kind, NEW i, NEW last
  PROVE  LET t == Token(kind, At(i), last)
         IN  /\ t.kind = kind /\ t.first = i /\ t.last = last /\ t.num = 0
             /\ t.line = LineOf(i) /\ t.column = ColumnOf(i)
             /\ \A v : LET u == [t EXCEPT !.text = v]
                       IN  /\ u.kind = kind /\ u.first = i /\ u.last = last /\ u.num = 0 /\ u.text = v
                           /\ u.line = LineOf(i) /\ u.column = ColumnOf(i)
             /\ \A v : LET u == [t EXCEPT !.num = v]
                       IN  /\ u.kind = kind /\ u.first = i /\ u.last = last /\ u.num = v
                           /\ u.line = LineOf(i) /\ u.column = ColumnOf(i)
BY DEF Token, At

LEMMA ZeroValue == 0 \in Values
BY SizesAssumption DEF Values, Largest

LEMMA KindsAre ==
  /\ {"Ident", "Int", "Float", "String", "Char", "Operator", "At", "Pound", "Eof", "Error"} \subseteq Kinds
  /\ uc_keyword_lookup \subseteq Kinds
  /\ \A name : PoundKind(name) \in Kinds \ {"Int", "String", "Eof", "Error"}
  /\ {"Int", "String", "Eof", "Error"} \cap uc_keyword_lookup = {}
<1> DEFINE P == {"#import", "#include", "#define", "#ifdef", "#ifndef", "#endif", "Pound"}
<1>1. \A name : PoundKind(name) \in P
  BY DEF PoundKind
<1>2. P \subseteq Kinds
  BY DEF Kinds
<1>3. {"Int", "String", "Eof", "Error"} \cap P = {}
  OBVIOUS
<1> HIDE DEF P
<1>4. {"Int", "String", "Eof", "Error"} \cap uc_keyword_lookup = {}
  BY DEF uc_keyword_lookup
<1> QED BY <1>1, <1>2, <1>3, <1>4 DEF Kinds

\* The longest lexeme of another kind than these has no value to be wrong, and
\* an error or the end of the text means nothing.
LEMMA SaysSo ==
  ASSUME NEW t
  PROVE  /\ t.kind \notin {"Int", "String"} /\ Best(t.first, t.last) => Says(t)
         /\ t.kind \in {"Error", "Eof"} => Says(t)
BY DEF Says, Longest, Best

\* A right token from the start of the next one to `last`, after which the
\* lexer goes on unless it ends there.
LEMMA TokenKeeps ==
  ASSUME IInv, ~Ended, NEW t, NEW last \in First - 1..Size, NEW j \in 1..Size + 1,
         t.kind \in Kinds, t.first = First, t.last = last, t.num \in Values, Says(t),
         t.kind # "Error" => t.line = LineOf(First) /\ t.column = ColumnOf(First),
         t.kind \notin {"Eof", "Error"} => j = last + 1,
         Return(t, At(j)), over' \subseteq {"val"}
  PROVE  IInv'
<1>1. First \in 1..Size + 1
  BY StartFacts
<1>2. TokenRight(t)
  BY <1>1 DEF TokenRight
<1> QED BY <1>2, StepKeeps DEF Return

\* After the token.
LEMMA EndIs ==
  ASSUME IInv, ~Ended, NEW i \in Nat, First <= i
  PROVE  To(Start, i) = At(IF i <= Size + 1 THEN i ELSE Size + 1)
<1>1. Text /\ First \in 1..Size + 1 /\ Start = At(First)
  BY StartFacts DEF IInv
<1> QED BY <1>1, ToPlace

LEMMA PlainKeeps ==
  ASSUME IInv, ~Ended, NEW t, NEW last \in First - 1..Size,
         t.kind \in Kinds, t.first = First, t.last = last, t.num \in Values, Says(t),
         t.line = LineOf(First), t.column = ColumnOf(First),
         Return(t, To(Start, last + 1)), over' = over
  PROVE  IInv'
<1>1. Size \in Nat /\ First \in 1..Size + 1 /\ over \subseteq {"val"}
  BY StartFacts, TextFacts DEF IInv
<1>2. last + 1 \in 1..Size + 1 /\ last + 1 \in Nat /\ First <= last + 1 /\ last + 1 <= Size + 1
  BY <1>1
<1>3. To(Start, last + 1) = At(last + 1)
  BY <1>2, EndIs
<1> QED BY <1>1, <1>2, <1>3, TokenKeeps

LEMMA EofKeeps == ASSUME IInv, ScanEof PROVE IInv'
<1>1. ~Ended /\ First > Size /\ Return(Token("Eof", Start, First - 1), Start) /\ over' = over
  BY DEF ScanEof
<1>2. Size \in Nat /\ First \in 1..Size + 1 /\ Start = At(First) /\ over \subseteq {"val"}
  BY <1>1, StartFacts, TextFacts DEF IInv
<1>3. PICK t : t = Token("Eof", At(First), First - 1)
  OBVIOUS
<1>4. /\ t.kind = "Eof" /\ t.first = First /\ t.last = First - 1 /\ t.num = 0
      /\ t.line = LineOf(First) /\ t.column = ColumnOf(First)
  BY <1>3, TokenIs
<1>5. First - 1 \in First - 1..Size
  BY <1>1, <1>2
<1>6. Return(t, At(First))
  BY <1>1, <1>2, <1>3
<1>7. Says(t)
  BY <1>4, SaysSo
<1> QED BY <1>1, <1>2, <1>4, <1>5, <1>6, <1>7, TokenKeeps, ZeroValue, KindsAre

LEMMA PoundKeeps == ASSUME IInv, scan_preprocessor PROVE IInv'
<1> DEFINE last == Past(First + 1, Alpha) - 1
           kind == PoundKind(Spelt(First + 1, last))
<1>1. /\ ~Ended /\ First <= Size /\ src[First] = "#" /\ over' = over
      /\ Return(Token(kind, Start, last), To(Start, last + 1))
  BY DEF scan_preprocessor, Starts, Plain
<1>2. Text /\ Size \in Nat /\ First \in 1..Size + 1 /\ Start = At(First)
  BY <1>1, StartFacts, TextFacts DEF IInv
<1>3. First + 1 \in 1..Size + 1 /\ First \in Nat
  BY <1>1, <1>2
<1>4. last \in First - 1..Size
  <2>1. PICK e \in First + 1..Size + 1 : e = Past(First + 1, Alpha)
    BY <1>2, <1>3, PastFacts
  <2>2. e - 1 \in First - 1..Size
    BY <1>2, <1>3
  <2> QED BY <2>1, <2>2
<1>5. kind \in Kinds /\ kind \notin {"Int", "String"}
  BY KindsAre
<1>8. Best(First, last)
  BY <1>1, <1>2, PoundBest
<1> HIDE DEF last, kind
<1> DEFINE t == Token(kind, At(First), last)
<1>6. /\ t.kind = kind /\ t.first = First /\ t.last = last /\ t.num = 0
      /\ t.line = LineOf(First) /\ t.column = ColumnOf(First)
  BY TokenIs
<1>9. Says(t)
  BY <1>5, <1>6, <1>8, SaysSo
<1>7. Return(t, To(Start, last + 1))
  BY <1>1, <1>2
<1> HIDE DEF t
<1> QED BY <1>1, <1>4, <1>5, <1>6, <1>7, <1>9, PlainKeeps, ZeroValue

LEMMA IdentifierKeeps == ASSUME IInv, scan_identifier PROVE IInv'
<1> DEFINE last == WordEnd(First)
           word == Spelt(First, last)
           kind == IF word \in uc_keyword_lookup THEN word ELSE "Ident"
<1>1. /\ ~Ended /\ First <= Size /\ src[First] \in is_ident_start /\ over' = over
      /\ Return(Token(kind, Start, last), To(Start, last + 1))
  BY DEF scan_identifier, Starts, Plain
<1>2. Text /\ Size \in Nat /\ First \in 1..Size + 1 /\ First \in Nat /\ Start = At(First)
  BY <1>1, StartFacts, TextFacts DEF IInv
<1>4. last \in First - 1..Size
  <2>1. PICK e \in First..Size + 1 : e = Past(First, is_ident_cont)
    BY <1>2, PastFacts
  <2>2. e - 1 \in First - 1..Size
    BY <1>2
  <2> QED BY <2>1, <2>2 DEF WordEnd
<1>5. kind \in Kinds /\ kind \notin {"Int", "String"}
  BY KindsAre
<1>8. Best(First, last)
  BY <1>1, <1>2, WordBest
<1> HIDE DEF last, kind
<1> DEFINE t == Token(kind, At(First), last)
<1>6. /\ t.kind = kind /\ t.first = First /\ t.last = last /\ t.num = 0
      /\ t.line = LineOf(First) /\ t.column = ColumnOf(First)
  BY TokenIs
<1>9. Says(t)
  BY <1>5, <1>6, <1>8, SaysSo
<1>7. Return(t, To(Start, last + 1))
  BY <1>1, <1>2
<1> HIDE DEF t
<1> QED BY <1>1, <1>4, <1>5, <1>6, <1>7, <1>9, PlainKeeps, ZeroValue

LEMMA OperatorKeeps == ASSUME IInv, scan_operator PROVE IInv'
<1> DEFINE last == OperatorEnd(First)
           text == OperatorKind(SubSeq(src, First, last))
<1>1. /\ ~Ended /\ First <= Size /\ src[First] \in DOMAIN Follow /\ over' = over
      /\ Return([Token("Operator", Start, last) EXCEPT !.text = text], To(Start, last + 1))
  BY DEF scan_operator, Starts
<1>2. Text /\ Size \in Nat /\ First \in 1..Size + 1 /\ First \in Nat /\ Start = At(First)
  BY <1>1, StartFacts, TextFacts DEF IInv
<1>4. last \in First - 1..Size
  <2>1. CASE First + 1 > Size \/ src[First + 1] \notin Follow[src[First]]
    BY <1>1, <1>2, <2>1 DEF OperatorEnd
  <2>2. CASE /\ ~(First + 1 > Size \/ src[First + 1] \notin Follow[src[First]])
             /\ Has(First + 2, "=")
    BY <1>1, <1>2, <2>2 DEF OperatorEnd, Has
  <2>3. CASE /\ ~(First + 1 > Size \/ src[First + 1] \notin Follow[src[First]])
             /\ ~Has(First + 2, "=")
    BY <1>1, <1>2, <2>3 DEF OperatorEnd
  <2> QED BY <2>1, <2>2, <2>3
<1>8. Best(First, last)
  BY <1>1, <1>2, OperatorBest
<1> HIDE DEF last, text
<1> DEFINE t == [Token("Operator", At(First), last) EXCEPT !.text = text]
<1>6. /\ t.kind = "Operator" /\ t.first = First /\ t.last = last /\ t.num = 0
      /\ t.line = LineOf(First) /\ t.column = ColumnOf(First)
  BY TokenIs
<1>9. Says(t)
  BY <1>6, <1>8, SaysSo
<1>7. Return(t, To(Start, last + 1))
  BY <1>1, <1>2
<1> HIDE DEF t
<1> QED BY <1>1, <1>4, <1>6, <1>7, <1>9, PlainKeeps, ZeroValue, KindsAre

LEMMA UnknownKeeps == ASSUME IInv, unknown_character PROVE IInv'
<1>1. /\ ~Ended /\ First <= Size /\ over' = over
      /\ Return([Token("Error", Start, First) EXCEPT !.column = @ - 1], advance_one(Start))
  BY DEF unknown_character
<1>2. /\ Text /\ Size \in Nat /\ First \in 1..Size + 1 /\ First \in Nat /\ Start = At(First)
      /\ over \subseteq {"val"}
  BY <1>1, StartFacts, TextFacts DEF IInv
<1>3. advance_one(Start) = At(First + 1) /\ First + 1 \in 1..Size + 1 /\ First \in First - 1..Size
  BY <1>1, <1>2, Advanced
<1> DEFINE t == [Token("Error", At(First), First) EXCEPT !.column = @ - 1]
<1>4. t.kind = "Error" /\ t.first = First /\ t.last = First /\ t.num = 0
  BY DEF Token, At
<1>5. Return(t, At(First + 1))
  BY <1>1, <1>2, <1>3
<1> HIDE DEF t
<1>6. Says(t)
  BY <1>4, SaysSo
<1> QED BY <1>1, <1>2, <1>3, <1>4, <1>5, <1>6, TokenKeeps, ZeroValue, KindsAre

LEMMA AtKeeps == ASSUME IInv, scan_at_directive PROVE IInv'
<1> DEFINE last == Past(First + 1, is_ident_cont) - 1
           name == SubSeq(src, First + 1, last)
           kind == IF name \in uc_keyword_at_lookup THEN "At" ELSE "Error"
           t    == Token("Error", At(First), First)
           u    == [Token(kind, At(First), last) EXCEPT !.text = name]
<1>1. /\ ~Ended /\ First <= Size /\ src[First] = "@" /\ over' = over
      /\ \/ Return(Token("Error", Start, First), To(Start, First + 2))
         \/ Return([Token(kind, Start, last) EXCEPT !.text = name], To(Start, last + 1))
  BY DEF scan_at_directive, Starts
<1>2. /\ Text /\ Size \in Nat /\ First \in 1..Size + 1 /\ First \in Nat /\ Start = At(First)
      /\ over \subseteq {"val"}
  BY <1>1, StartFacts, TextFacts DEF IInv
<1>3. First + 1 \in 1..Size + 1
  BY <1>1, <1>2
<1>4. last \in First - 1..Size
  <2>1. PICK e \in First + 1..Size + 1 : e = Past(First + 1, is_ident_cont)
    BY <1>2, <1>3, PastFacts
  <2>2. e - 1 \in First - 1..Size
    BY <1>2, <1>3
  <2> QED BY <2>1, <2>2
<1>5. kind \in Kinds /\ kind \notin {"Int", "String"}
  BY KindsAre
<1>11. kind # "Error" => Best(First, last)
  BY <1>1, <1>2, AtBest
<1> HIDE DEF last, kind
<1>6. /\ u.kind = kind /\ u.first = First /\ u.last = last /\ u.num = 0
      /\ u.line = LineOf(First) /\ u.column = ColumnOf(First)
  BY TokenIs
<1>7. t.kind = "Error" /\ t.first = First /\ t.last = First /\ t.num = 0
  BY TokenIs
<1>8. Return(t, To(Start, First + 2)) \/ Return(u, To(Start, last + 1))
  BY <1>1, <1>2
<1> HIDE DEF t, u
<1>12. Says(t) /\ Says(u)
  BY <1>5, <1>6, <1>7, <1>11, SaysSo
<1>9. ASSUME Return(t, To(Start, First + 2)) PROVE IInv'
  <2>1. PICK j \in 1..Size + 1 : To(Start, First + 2) = At(j)
    <3>1. First + 2 \in Nat /\ First <= First + 2
      BY <1>2
    <3>2. (IF First + 2 <= Size + 1 THEN First + 2 ELSE Size + 1) \in 1..Size + 1
      BY <1>2
    <3> QED BY <1>1, <3>1, <3>2, EndIs
  <2>2. First \in First - 1..Size
    BY <1>1, <1>2
  <2> QED BY <1>1, <1>2, <1>7, <1>9, <2>1, <1>12, <2>2, TokenKeeps, ZeroValue, KindsAre
<1>10. ASSUME Return(u, To(Start, last + 1)) PROVE IInv'
  BY <1>1, <1>4, <1>5, <1>6, <1>10, <1>12, PlainKeeps, ZeroValue
<1> QED BY <1>8, <1>9, <1>10

LEMMA PrefixedKeeps ==
  ASSUME IInv, ~Ended, First <= Size, over' = over, NEW base \in {2, 16}, NEW digits, digits \subseteq Hex,
         \/ Prefixed({"x", "X"}) /\ base = 16 /\ digits = Hex
         \/ Prefixed({"b", "B"}) /\ base = 2 /\ digits = {"0", "1"},
         scan_prefixed(base, digits)
  PROVE  IInv'
<1> DEFINE last == Past(First + 2, digits) - 1
           num  == Shift(First + 2, last, base)
           t    == [Token("Int", At(First), last) EXCEPT !.num = num]
<1>1. Text /\ Size \in Nat /\ First \in 1..Size + 1 /\ First \in Nat /\ Start = At(First)
  BY StartFacts, TextFacts DEF IInv
<1>2. First + 1 <= Size /\ First + 2 \in 1..Size + 1
  BY <1>1 DEF Prefixed
<1>3. PICK e \in First + 2..Size + 1 : e = Past(First + 2, digits) /\ \A k \in First + 2..e - 1 : src[k] \in digits
  BY <1>1, <1>2, PastFacts
<1>4. last \in First - 1..Size /\ last \in Nat /\ last >= (First + 2) - 1 /\ e - 1 = last
  BY <1>1, <1>3
<1>5. \A k \in First + 2..last : src[k] \in Hex
  BY <1>3, <1>4
<1>6. /\ num \in Values
      /\ Digits(First + 2, last, base) <= Largest => num = Digits(First + 2, last, base)
      /\ num % (2 * Half) = Digits(First + 2, last, base) % (2 * Half)
  <2>1. First + 2 \in Nat /\ First + 2 >= 1
    BY <1>1
  <2> HIDE DEF last
  <2> QED BY <1>4, <1>5, <2>1, ShiftFacts
<1>9. Best(First, last)
  <2>1. /\ First \in 1..Size /\ First + 1 <= Size /\ src[First] = "0"
        /\ \/ src[First + 1] \in {"x", "X"} /\ digits = Hex
           \/ src[First + 1] \in {"b", "B"} /\ digits = {"0", "1"}
    BY <1>1, <1>2 DEF Prefixed
  <2> QED BY <1>1, <2>1, PrefixedBest
<1>10. /\ First + 1 <= Size /\ last # First /\ base \notin {8, 10} /\ src[First] = "0"
       /\ IF src[First + 1] \in {"x", "X"} THEN base = 16 ELSE src[First + 1] \in {"b", "B"} /\ base = 2
  <2>1. last # First
    BY <1>1, <1>4
  <2> QED BY <1>1, <2>1 DEF Prefixed
<1>7. Return(t, To(Start, last + 1))
  BY <1>1 DEF scan_prefixed
<1> HIDE DEF last, num
<1>8. /\ t.kind = "Int" /\ t.first = First /\ t.last = last /\ t.num = num
      /\ t.line = LineOf(First) /\ t.column = ColumnOf(First)
  BY TokenIs
<1> HIDE DEF t
<1>11. Base(t) = base /\ IntegerOf(t) = Digits(First + 2, last, base)
  <2>1. Base(t) = base
    BY <1>8, <1>10 DEF Base
  <2> QED BY <1>8, <1>10, <2>1 DEF IntegerOf
<1>13. MeansInteger(t)
  BY <1>6, <1>8, <1>10, <1>11 DEF MeansInteger
<1>12. Says(t)
  BY <1>8, <1>9, <1>13 DEF Says, Longest, Best
<1> QED BY <1>4, <1>6, <1>7, <1>8, <1>12, PlainKeeps, KindsAre

LEMMA DecimalEndFacts ==
  ASSUME Text, NEW i \in 1..Size, src[i] \in Digit
  PROVE  DecimalEnd(i) \in i..Size
<1> DEFINE point == Past(i, Digit)
           rest  == IF Has(point, ".") THEN Past(point + 1, Digit) ELSE point
<1>1. Size \in Nat /\ i \in Nat /\ i \in 1..Size + 1
  BY TextFacts
<1>2. point \in i + 1..Size + 1
  <2>1. PICK e \in i..Size + 1 : e = point /\ (e <= Size => src[e] \notin Digit)
    BY <1>1, PastFacts
  <2>2. e # i
    BY <1>1, <2>1
  <2> QED BY <1>1, <2>1, <2>2
<1> HIDE DEF point
<1>3. ASSUME NEW j \in i + 1..Size + 1, j <= Size PROVE Past(j + 1, Digit) \in i + 1..Size + 1
  <2>1. j + 1 \in 1..Size + 1
    BY <1>1, <1>3
  <2>2. PICK e \in j + 1..Size + 1 : e = Past(j + 1, Digit)
    BY <2>1, PastFacts
  <2>3. e \in i + 1..Size + 1
    BY <1>1
  <2> QED BY <2>2, <2>3
<1>4. rest \in i + 1..Size + 1
  BY <1>2, <1>3 DEF Has
<1>5. DecimalEnd(i) = IF Has(rest, "e") \/ Has(rest, "E") THEN Past(rest + 1, Digit) - 1 ELSE rest - 1
  BY DEF DecimalEnd, point
<1> HIDE DEF rest
<1>6. PICK e \in i + 1..Size + 1 : DecimalEnd(i) = e - 1
  <2>1. CASE Has(rest, "e") \/ Has(rest, "E")
    BY <1>3, <1>4, <1>5, <2>1 DEF Has
  <2>2. CASE ~(Has(rest, "e") \/ Has(rest, "E"))
    BY <1>4, <1>5, <2>2
  <2> QED BY <2>1, <2>2
<1>7. e - 1 \in i..Size
  BY <1>1
<1> QED BY <1>6, <1>7

LEMMA DecimalKeeps ==
  ASSUME IInv, ~Ended, First <= Size, over' = over, src[First] \in Digit,
         ~Prefixed({"x", "X", "b", "B"}), scan_decimal
  PROVE  IInv'
<1> DEFINE last == DecimalEnd(First)
           num  == strtoll(First, last)
           t    == [Token("Int", At(First), last) EXCEPT !.num = num]
           u    == Token("Float", At(First), last)
<1>1. /\ Text /\ Size \in Nat /\ First \in 1..Size + 1 /\ First \in Nat /\ First \in 1..Size
      /\ Start = At(First)
  BY StartFacts, TextFacts DEF IInv
<1>2. PICK e \in First..Size : e = last
  BY <1>1, DecimalEndFacts
<1>3. e \in First - 1..Size /\ e \in Nat /\ e >= First - 1 /\ First >= 1
  BY <1>1
<1>4. \/ (\A k \in First..last : src[k] \in Digit) /\ Return(t, To(Start, last + 1))
      \/ Return(u, To(Start, last + 1))
  BY <1>1 DEF scan_decimal, Plain
<1>7. ~(src[First] = "0" /\ First + 1 <= Size /\ src[First + 1] \in {"x", "X", "b", "B"})
  BY DEF Prefixed
<1>8. Best(First, last)
  BY <1>1, <1>7, DecimalBest
<1> HIDE DEF last, num
<1>5. ASSUME \A k \in First..last : src[k] \in Digit, Return(t, To(Start, last + 1)) PROVE IInv'
  <2>1. num \in Values /\ num = Saturated(Digits(First, last, 10)) /\ Digits(First, last, 10) \in Nat
    BY <1>1, <1>2, <1>3, <1>5, strtollFacts DEF num
  <2>2. /\ t.kind = "Int" /\ t.first = First /\ t.last = last /\ t.num = num
        /\ t.line = LineOf(First) /\ t.column = ColumnOf(First)
    BY TokenIs
  <2> HIDE DEF t
  <2>3. ASSUME ~Octal(t) PROVE Base(t) = 10
    <3>1. ASSUME last # First PROVE src[First + 1] \notin {"x", "X"} /\ src[First + 1] \notin {"b", "B"}
      <4>1. First + 1 \in First..last
        BY <1>1, <1>2, <3>1
      <4>2. src[First + 1] \in Digit
        BY <1>5, <4>1
      <4> QED BY <4>2 DEF Digit
    <3> QED BY <2>2, <2>3, <3>1 DEF Base
  <2>5. ASSUME ~Octal(t) PROVE MeansInteger(t)
    <3>1. IntegerOf(t) = Digits(First, last, 10)
      BY <2>2, <2>3, <2>5 DEF IntegerOf
    <3>2. PICK n \in Nat, l \in Int : n = Digits(First, last, 10) /\ l = Largest
      BY <2>1, SizesAssumption DEF Largest
    <3>3. num = IF n > l THEN l ELSE n
      BY <2>1, <3>2 DEF Saturated
    <3>4. n <= l \/ n > l
      OBVIOUS
    <3> QED BY <2>2, <2>3, <2>5, <3>1, <3>2, <3>3, <3>4 DEF MeansInteger
  <2>4. Says(t)
    BY <1>8, <2>2, <2>5 DEF Says, Longest, Best
  <2> QED BY <1>2, <1>3, <1>5, <2>1, <2>2, <2>4, PlainKeeps, KindsAre
<1>6. ASSUME Return(u, To(Start, last + 1)) PROVE IInv'
  <2>1. /\ u.kind = "Float" /\ u.first = First /\ u.last = last /\ u.num = 0
        /\ u.line = LineOf(First) /\ u.column = ColumnOf(First)
    BY TokenIs
  <2> HIDE DEF u
  <2>2. Says(u)
    BY <1>8, <2>1, SaysSo
  <2> QED BY <1>2, <1>3, <1>6, <2>1, <2>2, PlainKeeps, KindsAre, ZeroValue
<1> QED BY <1>4, <1>5, <1>6

LEMMA NumberKeeps == ASSUME IInv, scan_number PROVE IInv'
<1>1. ~Ended /\ First <= Size /\ src[First] \in Digit /\ over' = over
  BY DEF scan_number, Starts
<1>2. Hex \subseteq Hex /\ {"0", "1"} \subseteq Hex /\ 16 \in {2, 16} /\ 2 \in {2, 16}
  BY DEF Hex, Digit
<1>3. CASE Prefixed({"x", "X"}) /\ scan_prefixed(16, Hex)
  BY <1>1, <1>2, <1>3, PrefixedKeeps
<1>4. CASE Prefixed({"b", "B"}) /\ scan_prefixed(2, {"0", "1"})
  BY <1>1, <1>2, <1>4, PrefixedKeeps
<1>5. CASE ~Prefixed({"x", "X", "b", "B"}) /\ scan_decimal
  BY <1>1, <1>5, DecimalKeeps
<1> QED BY <1>3, <1>4, <1>5 DEF scan_number

LEMMA CharKeeps == ASSUME IInv, scan_char PROVE IInv'
<1> DEFINE i      == First + 1
           escape == Has(i, "\\")
           body   == IF i > Size \/ Has(i, "'") THEN 0 ELSE IF escape /\ i < Size THEN 2 ELSE 1
           value  == IF body = 0 \/ (escape /\ body = 1) THEN << >>
                     ELSE IF escape THEN <<Decoded(src[i + 1])>> ELSE <<src[i]>>
           last   == IF Has(i + body, "'") THEN i + body ELSE i + body - 1
           t      == [Token("Char", At(First), last) EXCEPT !.text = value]
<1>1. /\ ~Ended /\ First <= Size /\ src[First] = "'" /\ over' = over
      /\ Return([Token("Char", Start, last) EXCEPT !.text = value], To(Start, last + 1))
  BY DEF scan_char, Starts
<1>2. Text /\ Size \in Nat /\ First \in 1..Size + 1 /\ First \in Nat /\ Start = At(First)
  BY <1>1, StartFacts, TextFacts DEF IInv
<1>3. body \in 0..2 /\ i + body <= Size + 1
  BY <1>1, <1>2 DEF Has
<1>7. /\ Lexeme(First, last) \/ \A j \in First..last : ~Lexeme(First, j)
      /\ \A j \in last + 1..Size : ~Lexeme(First, j)
  BY <1>1, <1>2, CharBest
<1> HIDE DEF body
<1>4. last \in First - 1..Size
  BY <1>1, <1>2, <1>3 DEF Has
<1>5. Return(t, To(Start, last + 1))
  BY <1>1, <1>2
<1> HIDE DEF last, value
<1>6. /\ t.kind = "Char" /\ t.first = First /\ t.last = last /\ t.num = 0
      /\ t.line = LineOf(First) /\ t.column = ColumnOf(First)
  BY TokenIs
<1> HIDE DEF t
<1>8. Says(t)
  BY <1>6, <1>7 DEF Says, Longest
<1> QED BY <1>1, <1>4, <1>5, <1>6, <1>8, PlainKeeps, ZeroValue, KindsAre

LEMMA StringKeeps == ASSUME IInv, scan_string PROVE IInv'
<1> DEFINE s   == StringLoop(Opened(First))
           end == To(Start, s.i)
           t   == [Token("String", Start, s.i - 1) EXCEPT !.text = s.text]
           u   == [Token("Error", Start, s.i - 1) EXCEPT !.line = end.line,
                                                         !.column = end.column - s.raw.len]
<1>1. /\ ~Ended /\ First <= Size
      /\ Return(IF s.closed THEN t ELSE u, end)
      /\ over' = over \cup (IF s.raw.over THEN {"raw"} ELSE {}) \cup (IF s.val.over THEN {"val"} ELSE {})
      /\ QuoteAt(First)
  BY DEF scan_string, Starts, Opened, QuoteAt
<1>2. /\ Text /\ Size \in Nat /\ First \in 1..Size + 1 /\ First \in Nat /\ Start = At(First)
      /\ over \subseteq {"val"}
  BY <1>1, StartFacts, TextFacts DEF IInv
<1>3. First \in 1..Size
  BY <1>1, <1>2
<1>4. /\ s.i \in First + 1..Size + 1 /\ s.raw.over = FALSE
      /\ s.closed => Best(First, s.i - 1) /\ Collected(First, s.i - 1, s.text)
  BY <1>1, <1>2, <1>3, LoopFacts
<1> HIDE DEF s
<1>5. over' \subseteq {"val"}
  BY <1>1, <1>2, <1>4
<1>6. PICK j \in First + 1..Size + 1 : s.i = j
  BY <1>4
<1>7. j \in Nat /\ First <= j /\ j <= Size + 1 /\ j \in 1..Size + 1 /\ j - 1 \in First - 1..Size /\ (j - 1) + 1 = j
  BY <1>2, <1>6
<1>8. end = At(j)
  BY <1>1, <1>6, <1>7, EndIs
<1> HIDE DEF end
<1>9. /\ t.kind = "String" /\ t.first = First /\ t.last = j - 1 /\ t.num = 0 /\ t.text = s.text
      /\ t.line = LineOf(First) /\ t.column = ColumnOf(First)
  BY <1>2, <1>6, TokenIs
<1>10. u.kind = "Error" /\ u.first = First /\ u.last = j - 1 /\ u.num = 0
  BY <1>2, <1>6 DEF Token, At
<1> HIDE DEF t, u
<1>11. CASE s.closed
  <2>1. Return(t, At(j))
    BY <1>1, <1>8, <1>11
  <2>2. MeansString(t)
    <3>1. Collected(First, j - 1, t.text)
      BY <1>4, <1>6, <1>9, <1>11
    <3>2. UnitStarts(t) = Units(First, j - 1)
      BY <1>9 DEF UnitStarts, Units
    <3> QED BY <3>1, <3>2 DEF MeansString, Collected, Rank
  <2>3. Says(t)
    BY <1>4, <1>6, <1>9, <1>11, <2>2 DEF Says, Longest, Best
  <2> QED BY <1>1, <1>5, <1>7, <1>9, <2>1, <2>3, TokenKeeps, ZeroValue, KindsAre
<1>12. CASE ~s.closed
  <2>1. Return(u, At(j))
    BY <1>1, <1>8, <1>12
  <2>2. Says(u)
    BY <1>10, SaysSo
  <2> QED BY <1>1, <1>5, <1>7, <1>10, <2>1, <2>2, TokenKeeps, ZeroValue, KindsAre
<1> QED BY <1>11, <1>12

LEMMA NextIInv == IInv /\ [Next]_vars => IInv'
<1> SUFFICES ASSUME IInv, [Next]_vars PROVE IInv'
  OBVIOUS
<1>1. CASE UNCHANGED vars
  <2>1. src' = src /\ at' = at /\ tokens' = tokens /\ over' = over
    BY <1>1 DEF vars
  <2>2. Text' /\ Listed' /\ over' \subseteq {"val"}
    BY <2>1 DEF IInv, Text, Listed
  <2>3. /\ Size' = Size
        /\ \A i : At(i)' = At(i)
        /\ \A i, k : Gap(i, k)' <=> Gap(i, k)
        /\ \A x : TokenRight(x)' <=> TokenRight(x)
    BY <2>1, SameText
  <2>4. Placed'
    BY <2>1, <2>3 DEF IInv, Placed
  <2>5. \A n : GapStart(n)' = GapStart(n)
    BY <2>1 DEF GapStart
  <2>6. TokensRight'
    BY <2>1, <2>3, <2>5 DEF IInv, TokensRight
  <2>7. AtGap'
    BY <2>1, <2>5 DEF IInv, AtGap, Ended
  <2> QED BY <2>2, <2>4, <2>6, <2>7 DEF IInv
<1>2. CASE Next
  BY <1>2, EofKeeps, PoundKeeps, AtKeeps, IdentifierKeeps, OperatorKeeps, NumberKeeps, StringKeeps,
     CharKeeps, UnknownKeeps DEF Next
<1> QED BY <1>1, <1>2

\* What holds between two calls of uc_lexer_next, whatever the text: the
\* position is that of its place, every token has its kind and its place, and
\* only blanks and comments lie between one token and the next.
THEOREM Invariant == Spec => []IInv
BY InitIInv, NextIInv, PTL DEF Spec

\* Whatever the text, a token has a kind of the lexer, a place in the text and
\* a value an integer literal can have, and the position stays in the text.
THEOREM TypeCorrect == Spec => []TypeOK
BY Invariant, InvTypeOK, PTL

\* The lexeme of a string literal of any length, whatever mixture of plain
\* characters and escapes it is made of, stays in the buffer scan_string grows.
THEOREM RawNeverOverflows == Spec => []RawFits
<1>1. IInv => RawFits
  BY DEF IInv, RawFits
<1> QED BY <1>1, Invariant, PTL

\* Whatever the text and the comments in it, the line and the column a token
\* is reported with are those a reader counts.
THEOREM PositionsCorrect == Spec => []PositionsRight
<1>1. IInv => PositionsRight
  BY DEF IInv, TokensRight, TokenRight, PositionsRight, Good
<1> QED BY <1>1, Invariant, PTL

\* Whatever the text, what the lexer skips before a token is blanks and whole
\* comments, unless a block comment was never closed.
THEOREM LosesNothing == Spec => []NothingLost
<1>1. IInv => NothingLost
  BY DEF IInv, TokensRight, Gap, NothingLost
<1> QED BY <1>1, Invariant, PTL

\* Whatever the text, a token is the longest lexeme at its place, of those of the
\* reference but for numbers that start with their point, and of those the lexer
\* adds (OwnLexeme); or a character literal without its closing quote.
THEOREM LongestLexemes == Spec => []LongestToken
<1>1. IInv => LongestToken
  BY DEF IInv, TokensRight, TokenRight, Says, LongestToken, Good
<1> QED BY <1>1, Invariant, PTL

\* Whatever the text, a string literal has the value its characters and escapes
\* mean.  An integer literal that is not octal has that of its digits in its
\* base; if the word does not hold it, a decimal one the largest value and one
\* with a prefix its low bits.
THEOREM ValuesCorrect == Spec => []ValuesRight
<1>1. IInv => ValuesRight
  BY DEF IInv, TokensRight, TokenRight, Says, ValuesRight
<1> QED BY <1>1, Invariant, PTL
=============================================================================
