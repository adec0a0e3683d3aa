------------------------- MODULE BuildPipelineProofs -------------------------
(***************************************************************************)
(* Proofs about BuildPipeline, for any builds and any scenarios: its type  *)
(* invariant, that gcc gets the code of the build's own units              *)
(* (LinkInputsOwn), that the exit code tells the truth (OwnOutcome), and   *)
(* that no intermediate file is left behind (TempsRemoved).                *)
(***************************************************************************)
EXTENDS BuildPipeline, SequenceTheorems, TLAPS

\* What a file or an llc can hold.
Content ==
  {Absent, Empty, Damaged}
    \cup UNION {{Code(b, k) : k \in 1..Main(b)} : b \in Builds}

\* The i-th file the cleanup of b removes, of any number of them.
TrashAt(b, i) == IF i % 2 = 1 THEN LlFile(b, (i + 1) \div 2) ELSE SFile(b, i \div 2)

Typed ==
  /\ job \in Scenarios
  /\ tmp \in [TmpFiles -> Content]
  /\ exe \in [Outputs -> Seq(Content)]
  /\ pc \in [Builds -> Labels]
  /\ cur \in [Builds -> Nat]
  /\ open \in [Builds -> TmpFiles \cup {NoFile}]
  /\ held \in [Builds -> Content \ {Empty}]
  /\ got \in [Builds -> Seq(Content)]
  /\ gone \in [Builds -> Nat]
  /\ rc \in [Builds -> 0..2]

\* How far b has come: the unit it is at, the units behind it, the file it
\* may have open, and how much of its trash is gone.
Progress(b) ==
  /\ cur[b] <= Main(b)
  /\ pc[b] = "start" => cur[b] = 0
  /\ pc[b] \in {"unit", "write", "llc", "emit"} => cur[b] >= 1
  /\ \A k \in 1..cur[b] :
       k < cur[b] \/ pc[b] \notin {"unit", "crashed"} => k \in Resolved(b)
  /\ pc[b] = "link" => cur[b] = Main(b)
  /\ Len(got[b]) <= Main(b)
  /\ pc[b] \in {"start", "unit", "write", "llc", "emit"} => got[b] = << >>
  /\ gone[b] <= 2 * cur[b]
  /\ pc[b] \notin {"cleanup", "returned"} => gone[b] = 0 /\ rc[b] = 0
  /\ pc[b] = "returned" /\ ~job[b].keep => gone[b] = 2 * cur[b]
  /\ open[b] # NoFile =>
       \/ pc[b] = "write" /\ open[b] = LlFile(b, cur[b])
       \/ pc[b] = "emit" /\ open[b] = SFile(b, cur[b])

\* The files of a build whose names are its own.
OwnFiles(b) ==
  /\ pc[b] = "write" => open[b] = LlFile(b, cur[b]) /\ tmp[open[b]] = Empty
  /\ pc[b] = "llc" => tmp[LlFile(b, cur[b])] = Code(b, cur[b])
  /\ pc[b] = "emit" => /\ open[b] = SFile(b, cur[b]) /\ tmp[open[b]] = Empty
                       /\ held[b] = Code(b, cur[b])
  /\ pc[b] \in {"unit", "write", "llc", "emit", "link"} =>
       \A k \in 1..cur[b] :
         k < cur[b] \/ pc[b] = "link" => tmp[SFile(b, k)] = Code(b, k)
  /\ \A i \in 1..Len(got[b]) : got[b][i] = OwnCode(b)[i]
  /\ exe[job[b].output] =
       IF pc[b] \in {"cleanup", "returned"} /\ rc[b] = 0 THEN OwnCode(b) ELSE << >>

\* Every file there is, is one that some build has still to remove.
Claimed ==
  \A f \in TmpFiles : tmp[f] # Absent =>
    \E b \in Builds : \E i \in (gone[b] + 1)..(2 * cur[b]) : f = TrashAt(b, i)

IInv ==
  /\ Typed
  /\ \A b \in Builds : Progress(b)
  /\ \A b \in Builds : NoClash(b) => OwnFiles(b)
  /\ Claimed

-----------------------------------------------------------------------------
(***************************************************************************)
(* Units and their files.                                                  *)
(***************************************************************************)
\* A sequence is one over its elements.
LEMMA SequenceSeq ==
  ASSUME NEW s, IsSequence(s)
  PROVE  \E S : s \in Seq(S)
<1> DEFINE S == {s[i] : i \in 1..Len(s)}
<1>1. [i \in 1..Len(s) |-> s[i]] \in [1..Len(s) -> S]
  OBVIOUS
<1>2. s \in [1..Len(s) -> S]
  BY <1>1 DEF IsSequence
<1>3. s \in Seq(S)
  BY <1>2, SeqDef DEF IsSequence
<1> QED BY <1>3

\* The units of a build are its imports, as many as are allowed, and the
\* main one.
LEMMA UnitsShape ==
  ASSUME job \in Scenarios, NEW b \in Builds
  PROVE  /\ Main(b) \in Nat /\ Main(b) >= 1
         /\ Units(b)[Main(b)] = job[b].main
         /\ \A k \in 1..Main(b) : k # Main(b) =>
              /\ k \in 1..Len(job[b].imports)
              /\ Units(b)[k] = job[b].imports[k]
<1> DEFINE s == job[b].imports
           n == Min2(Len(s), UC_BUILD_MAX_IMPORTS)
<1>1. IsSequence(s)
  BY BuildsAssumption
<1>2. PICK S : s \in Seq(S)
  BY <1>1, SequenceSeq
<1>3. Len(s) \in Nat /\ n \in Nat /\ n <= Len(s)
  BY <1>1, BuildsAssumption DEF IsSequence, Min2
<1>4. \A i \in 1..n : s[i] \in S
  BY <1>2, <1>3
<1>5. /\ ImportsOf(b) \in Seq(S)
      /\ Len(ImportsOf(b)) = n
      /\ \A i \in 1..n : ImportsOf(b)[i] = s[i]
  <2> HIDE DEF n, s
  <2>1. /\ SubSeq(s, 1, n) \in Seq(S)
        /\ Len(SubSeq(s, 1, n)) = IF 1 <= n THEN n - 1 + 1 ELSE 0
        /\ \A i \in 1..(n - 1 + 1) : SubSeq(s, 1, n)[i] = s[1 + i - 1]
    BY <1>3, <1>4, SubSeqProperties
  <2>2. ImportsOf(b) = SubSeq(s, 1, n)
    BY DEF ImportsOf, n, s
  <2> QED BY <2>1, <2>2, <1>3
<1>6. PICK T : ImportsOf(b) \in Seq(T) /\ job[b].main \in T
  <2>1. ImportsOf(b) \in Seq(S \cup {job[b].main})
    BY <1>5, SeqMonotonic
  <2> QED BY <2>1
<1> HIDE DEF n, s
<1>7. /\ Len(Units(b)) = n + 1
      /\ Units(b)[n + 1] = job[b].main
      /\ \A i \in 1..n : Units(b)[i] = s[i]
  BY <1>3, <1>5, <1>6 DEF Units
<1> QED BY <1>3, <1>7 DEF Main, s

\* What is computed from the job of a step stays as it is.
LEMMA NamesStay ==
  ASSUME job' = job
  PROVE  /\ TmpFiles' = TmpFiles /\ Outputs' = Outputs /\ Content' = Content
         /\ \A b \in Builds :
              /\ Main(b)' = Main(b) /\ Units(b)' = Units(b)
              /\ Resolved(b)' = Resolved(b) /\ FilesOf(b)' = FilesOf(b)
              /\ OwnCode(b)' = OwnCode(b) /\ NoClash(b)' = NoClash(b)
         /\ \A b, k : /\ LlFile(b, k)' = LlFile(b, k) /\ SFile(b, k)' = SFile(b, k)
                      /\ Code(b, k)' = Code(b, k) /\ TrashAt(b, k)' = TrashAt(b, k)
<1>1. \A b : Units(b)' = Units(b)
  BY DEF Units, ImportsOf
<1>2. \A b : Main(b)' = Main(b)
  BY <1>1 DEF Main
<1>3. \A b, k : Base(b, k)' = Base(b, k)
  BY <1>1, <1>2 DEF Base, extract_module_name
<1>4. \A b, k : LlFile(b, k)' = LlFile(b, k) /\ SFile(b, k)' = SFile(b, k)
  BY <1>3 DEF LlFile, SFile
<1>5. \A b, k : TrashAt(b, k)' = TrashAt(b, k)
  BY <1>4 DEF TrashAt
<1>6. \A b, k : Code(b, k)' = Code(b, k)
  BY <1>1, <1>2 DEF Code, Role
<1>7. \A b : Resolved(b)' = Resolved(b)
  BY <1>1, <1>2 DEF Resolved
<1>8. \A b : FilesOf(b)' = FilesOf(b)
  BY <1>4, <1>7 DEF FilesOf
<1>9. TmpFiles' = TmpFiles
  BY <1>8 DEF TmpFiles
<1>10. Outputs' = Outputs
  BY DEF Outputs
<1>11. Content' = Content
  BY <1>2, <1>6 DEF Content, Absent, Empty, Damaged
<1>12. \A b : OwnCode(b)' = OwnCode(b)
  BY <1>2, <1>6 DEF OwnCode, LinkOrder
<1>13. \A b : NoClash(b)' = NoClash(b)
  BY <1>1, <1>2, <1>7, <1>8 DEF NoClash
<1> QED BY <1>1, <1>2, <1>4, <1>5, <1>6, <1>7, <1>8, <1>9, <1>10, <1>11, <1>12, <1>13

\* A unit's files are files of its build, and of /tmp.
LEMMA FilesThere ==
  ASSUME NEW b \in Builds, NEW k \in Resolved(b)
  PROVE  /\ LlFile(b, k) \in FilesOf(b) /\ SFile(b, k) \in FilesOf(b)
         /\ LlFile(b, k) \in TmpFiles /\ SFile(b, k) \in TmpFiles
BY DEF FilesOf, TmpFiles

\* The kinds of files are told apart.
LEMMA KindsDiffer ==
  \A b, c, k, m :
    /\ LlFile(b, k) # SFile(c, m) /\ LlFile(b, k) # NoFile /\ SFile(b, k) # NoFile
    /\ LlFile(b, k) = LlFile(c, m) <=> Base(b, k) = Base(c, m)
    /\ SFile(b, k) = SFile(c, m) <=> Base(b, k) = Base(c, m)
BY DEF LlFile, SFile, NoFile

\* The second piece of the base of an import's files is its number.
LEMMA ImportBase ==
  ASSUME job \in Scenarios, NEW b \in Builds, NEW k \in Resolved(b), k # Main(b)
  PROVE  Base(b, k)[2] = k - 1
<1>1. k \in 1..Main(b) /\ Units(b)[k] # NoUnit
  BY DEF Resolved
<1>2. k \in 1..Len(job[b].imports) /\ Units(b)[k] = job[b].imports[k]
  BY <1>1, UnitsShape
<1> DEFINE s == Units(b)[k].stem
<1>3. IsSequence(s)
  BY <1>1, <1>2, BuildsAssumption
<1>4. PICK S : s \in Seq(S)
  BY <1>3, SequenceSeq
<1> DEFINE T == S \cup {"imp", k - 1}
<1>5. s \in Seq(T) /\ <<"imp", k - 1>> \in Seq(T)
  BY <1>4, SeqMonotonic
<1> HIDE DEF s, T
<1>6. (<<"imp", k - 1>> \o s)[2] = k - 1
  <2>1. Len(s) \in Nat
    BY <1>5, LenProperties
  <2>2. 2 \in 1..(Len(<<"imp", k - 1>>) + Len(s)) /\ Len(<<"imp", k - 1>>) = 2
    BY <2>1
  <2>3. <<"imp", k - 1>>[2] = k - 1
    OBVIOUS
  <2> QED BY <1>5, <2>2, <2>3, ConcatProperties
<1>7. Base(b, k) = <<"imp", k - 1>> \o s
  BY <1>2 DEF Base, extract_module_name, s
<1> QED BY <1>6, <1>7

\* The units of a build whose names are its own have files of their own.
LEMMA BasesDiffer ==
  ASSUME job \in Scenarios, NEW b \in Builds, NoClash(b),
         NEW k \in Resolved(b), NEW m \in Resolved(b), Base(b, k) = Base(b, m)
  PROVE  k = m
<1>1. k \in Nat /\ m \in Nat
  BY UnitsShape DEF Resolved
<1>2. CASE k # Main(b) /\ m # Main(b)
  BY <1>1, <1>2, ImportBase
<1>3. ASSUME NEW i \in Resolved(b), i # Main(b) PROVE Base(b, i) # Base(b, Main(b))
  <2>1. Base(b, i) = <<"imp", i - 1>> \o Units(b)[i].stem
    BY <1>3 DEF Base, extract_module_name
  <2>2. Base(b, Main(b)) = job[b].main.stem
    BY UnitsShape DEF Base, extract_module_name
  <2> QED BY <1>3, <2>1, <2>2 DEF NoClash
<1> QED BY <1>2, <1>3

\* The cleanup removes the .ll and the .s file of one unit after the other.
LEMMA TrashFiles ==
  ASSUME NEW b
  PROVE  /\ \A k \in Nat : /\ TrashAt(b, 2 * k - 1) = LlFile(b, k)
                           /\ TrashAt(b, 2 * k) = SFile(b, k)
         /\ cur[b] \in Nat => /\ Len(Trash(b)) = 2 * cur[b]
                              /\ \A i \in 1..(2 * cur[b]) : Trash(b)[i] = TrashAt(b, i)
<1>1. \A k \in Nat : /\ (2 * k - 1) % 2 = 1 /\ ((2 * k - 1) + 1) \div 2 = k
                     /\ (2 * k) % 2 = 0 /\ (2 * k) \div 2 = k
  OBVIOUS
<1>2. \A k \in Nat : /\ TrashAt(b, 2 * k - 1) = LlFile(b, k)
                     /\ TrashAt(b, 2 * k) = SFile(b, k)
  BY <1>1 DEF TrashAt
<1>3. ASSUME cur[b] \in Nat PROVE Len(Trash(b)) = 2 * cur[b]
  BY <1>3 DEF Trash
<1>4. ASSUME cur[b] \in Nat
      PROVE  \A i \in 1..(2 * cur[b]) : Trash(b)[i] = TrashAt(b, i)
  BY DEF Trash, TrashAt
<1> QED BY <1>2, <1>3, <1>4

\* The kinds of contents are told apart.
LEMMA Kinds ==
  /\ Absent \in Content /\ Empty \in Content /\ Damaged \in Content
  /\ \A b \in Builds : \A k \in 1..Main(b) : Code(b, k) \in Content
  /\ \A b, k : /\ Code(b, k) # Absent /\ Code(b, k) # Empty /\ Code(b, k) # Damaged
               /\ Compiled(Code(b, k)) = Code(b, k)
  /\ Absent # Empty /\ Absent # Damaged /\ Empty # Damaged
  /\ \A c \in Content : /\ c.is \in {"absent", "empty", "damaged", "code"}
                        /\ c.is = "empty" => c = Empty
                        /\ Compiled(c) \in Content \ {Empty, Absent}
<1>1. \A b \in Builds : \A k \in 1..Main(b) : Code(b, k) \in Content
  BY DEF Content
<1>2. \A b, k : Code(b, k).is = "code"
  BY DEF Code
<1>3. Absent.is = "absent" /\ Empty.is = "empty" /\ Damaged.is = "damaged"
  BY DEF Absent, Empty, Damaged
<1>4. Absent \in Content /\ Empty \in Content /\ Damaged \in Content
  BY DEF Content
<1>5. \A c \in Content : c \in {Absent, Empty, Damaged} \/ c.is = "code"
  BY <1>2 DEF Content
<1> QED BY <1>1, <1>2, <1>3, <1>4, <1>5 DEF Compiled

-----------------------------------------------------------------------------
(***************************************************************************)
(* The invariant holds at the start.                                       *)
(***************************************************************************)
LEMMA InitIInv == Init => IInv
<1> SUFFICES ASSUME Init PROVE IInv
  OBVIOUS
<1> USE DEF Init
<1>1. Typed
  BY Kinds DEF Typed, Labels
<1>2. ASSUME NEW b \in Builds PROVE Progress(b)
  BY UnitsShape DEF Progress
<1>3. ASSUME NEW b \in Builds PROVE OwnFiles(b)
  <2>1. job[b].output \in Outputs
    BY DEF Outputs
  <2>2. exe[job[b].output] = << >>
    BY <2>1
  <2>3. pc[b] = "start" /\ got[b] = << >>
    OBVIOUS
  <2> QED BY <2>2, <2>3 DEF OwnFiles
<1>4. Claimed
  BY DEF Claimed
<1> QED BY <1>1, <1>2, <1>3, <1>4 DEF IInv

-----------------------------------------------------------------------------
(***************************************************************************)
(* What a step of b leaves alone.                                          *)
(***************************************************************************)
\* No step changes what is built.
LEMMA JobStays == ASSUME NEW b \in Builds, BuildStep(b) PROVE job' = job
BY DEF BuildStep, ReadMain, Crash, GenerateFails, OpenLl, WriteLl, LlcReads,
  LlcFails, LlcWrites, GccReads, GccLinks, GccFails, Remove, Return

\* The file that is removed next is one of the build's own.
LEMMA RemovesOwn ==
  ASSUME Typed, NEW b \in Builds, Progress(b), At(b, "cleanup"),
         gone[b] < Len(Trash(b)),
         \A k \in 1..cur[b] : k \in Resolved(b)
  PROVE  /\ gone[b] + 1 \in 1..(2 * cur[b])
         /\ Trash(b)[gone[b] + 1] = TrashAt(b, gone[b] + 1)
         /\ Trash(b)[gone[b] + 1] \in FilesOf(b)
<1>1. cur[b] \in Nat /\ gone[b] \in Nat
  BY DEF Typed
<1> DEFINE i == gone[b] + 1
<1>2. i \in 1..(2 * cur[b]) /\ Trash(b)[i] = TrashAt(b, i)
  <2>1. Len(Trash(b)) = 2 * cur[b] /\ \A n \in 1..(2 * cur[b]) : Trash(b)[n] = TrashAt(b, n)
    BY <1>1, TrashFiles
  <2>2. i \in 1..(2 * cur[b])
    BY <1>1, <2>1
  <2> QED BY <2>1, <2>2
<1>3. \/ i % 2 = 1 /\ (i + 1) \div 2 \in 1..cur[b]
      \/ i % 2 = 0 /\ i \div 2 \in 1..cur[b]
  <2>1. \A n, m \in Nat : n \in 1..(2 * m) =>
          \/ n % 2 = 1 /\ (n + 1) \div 2 \in 1..m
          \/ n % 2 = 0 /\ n \div 2 \in 1..m
    OBVIOUS
  <2>2. i \in Nat
    BY <1>1
  <2> HIDE DEF i
  <2> QED BY <1>1, <1>2, <2>1, <2>2
<1>4. TrashAt(b, i) \in FilesOf(b)
  BY <1>3, FilesThere DEF TrashAt
<1> QED BY <1>2, <1>4

\* Of the other builds a step of b changes at most what they have open, when
\* it removes that file.
LEMMA OthersStay ==
  ASSUME Typed, NEW b \in Builds, Progress(b), BuildStep(b), NEW c \in Builds, c # b
  PROVE  /\ pc'[c] = pc[c] /\ cur'[c] = cur[c] /\ held'[c] = held[c]
         /\ got'[c] = got[c] /\ gone'[c] = gone[c] /\ rc'[c] = rc[c]
         /\ \/ open'[c] = open[c]
            \/ open[c] \in FilesOf(b) /\ open'[c] = NoFile
<1>1. CASE Remove(b)
  <2>1. Trash(b)[gone[b] + 1] \in FilesOf(b)
    BY <1>1, RemovesOwn DEF Remove, At, Progress
  <2> QED BY <1>1, <2>1 DEF Remove, Typed
<1>2. CASE ~Remove(b)
  BY <1>2 DEF BuildStep, ReadMain, Crash, GenerateFails, OpenLl, WriteLl, LlcReads,
    LlcFails, LlcWrites, GccReads, GccLinks, GccFails, Return, Typed, Fail, Go
<1> QED BY <1>1, <1>2

\* The file a build has open is one of its own.
LEMMA OpensOwn ==
  ASSUME Typed, NEW b \in Builds, Progress(b), open[b] # NoFile
  PROVE  open[b] \in FilesOf(b)
<1>1. pc[b] \in {"write", "emit"} /\ cur[b] \in Nat
  BY DEF Progress, Typed
<1>2. cur[b] \in 1..cur[b]
  BY <1>1 DEF Progress
<1>3. cur[b] \in Resolved(b)
  BY <1>1, <1>2 DEF Progress
<1> QED BY <1>3, FilesThere DEF Progress

\* Writing to the open file.
LEMMA WriteFiles ==
  ASSUME Typed, NEW b \in Builds, Progress(b), NEW c \in Content, Write(b, c)
  PROVE  /\ tmp' \in [TmpFiles -> Content]
         /\ \A f \in TmpFiles : f # open[b] => tmp'[f] = tmp[f]
         /\ open[b] # NoFile /\ tmp[open[b]] = Empty => tmp'[open[b]] = c
<1>1. open[b] # NoFile => open[b] \in TmpFiles
  BY DEF Typed
<1>2. CASE open[b] = NoFile
  BY <1>2, KindsDiffer DEF Write, Typed
<1>3. CASE open[b] # NoFile
  <2>1. PICK d \in {c} \cup (IF tmp[open[b]] = Empty THEN {} ELSE {Damaged}) :
          tmp' = [tmp EXCEPT ![open[b]] = d]
    BY <1>3 DEF Write
  <2>2. d \in Content /\ (tmp[open[b]] = Empty => d = c)
    BY <2>1, Kinds
  <2> QED BY <1>1, <1>3, <2>1, <2>2 DEF Typed
<1> QED BY <1>2, <1>3

\* A step of b changes files and executables of b only.
LEMMA FilesStay ==
  ASSUME Typed, NEW b \in Builds, Progress(b), BuildStep(b)
  PROVE  /\ \A f \in TmpFiles : f \notin FilesOf(b) => tmp'[f] = tmp[f]
         /\ \A o \in Outputs : o # job[b].output => exe'[o] = exe[o]
<1>1. \A f \in TmpFiles : f \notin FilesOf(b) => tmp'[f] = tmp[f]
  <2> SUFFICES ASSUME NEW f \in TmpFiles, f \notin FilesOf(b) PROVE tmp'[f] = tmp[f]
    OBVIOUS
  <2>1. CASE OpenLl(b)
    <3>1. cur[b] \in Resolved(b)
      BY <2>1, UnitsShape DEF OpenLl, At, Progress, Resolved, Typed
    <3>2. f # LlFile(b, cur[b])
      BY <3>1, FilesThere
    <3> QED BY <2>1, <3>2 DEF OpenLl, Typed
  <2>2. CASE LlcReads(b)
    <3>1. cur[b] \in Resolved(b)
      BY <2>2 DEF LlcReads, At, Progress, Typed
    <3>2. f # SFile(b, cur[b])
      BY <3>1, FilesThere
    <3> QED BY <2>2, <3>2 DEF LlcReads, Typed
  <2>3. CASE WriteLl(b) \/ LlcWrites(b)
    BY <2>3, OpensOwn DEF WriteLl, LlcWrites, Write, Typed
  <2>4. CASE Remove(b)
    <3>1. Trash(b)[gone[b] + 1] \in FilesOf(b)
      BY <2>4, RemovesOwn DEF Remove, At, Progress
    <3> QED BY <2>4, <3>1 DEF Remove, Typed
  <2>5. CASE tmp' = tmp
    BY <2>5
  <2> QED
    BY <2>1, <2>2, <2>3, <2>4, <2>5 DEF BuildStep, ReadMain, Crash, GenerateFails,
      LlcFails, GccReads, GccLinks, GccFails, Return
<1>2. \A o \in Outputs : o # job[b].output => exe'[o] = exe[o]
  BY DEF BuildStep, ReadMain, Crash, GenerateFails, OpenLl, WriteLl, LlcReads,
    LlcFails, LlcWrites, GccReads, GccLinks, GccFails, Remove, Return, Typed
<1> QED BY <1>1, <1>2

-----------------------------------------------------------------------------
(***************************************************************************)
(* Types.                                                                  *)
(***************************************************************************)
LEMMA StepTyped ==
  ASSUME Typed, NEW b \in Builds, Progress(b), BuildStep(b)
  PROVE  Typed'
<1>1. job' = job
  BY JobStays
<1>2. TmpFiles' = TmpFiles /\ Outputs' = Outputs /\ Content' = Content
  BY <1>1, NamesStay
<1>3. \A k \in Resolved(b) : Code(b, k) \in Content
  BY Kinds DEF Resolved
<1>4. CASE ReadMain(b)
  <2>1. cur' \in [Builds -> Nat]
    <3>1. cur' = [cur EXCEPT ![b] = 1] \/ cur' = cur
      BY <1>4 DEF ReadMain
    <3> QED BY <3>1 DEF Typed
  <2>2. pc' \in [Builds -> Labels]
    BY <1>4 DEF ReadMain, Typed, Go, Labels
  <2>3. rc' \in [Builds -> 0..2]
    <3>1. rc' = [rc EXCEPT ![b] = 1] \/ rc' = rc
      BY <1>4 DEF ReadMain
    <3>2. 1 \in 0..2 /\ rc \in [Builds -> 0..2]
      BY DEF Typed
    <3> QED BY <3>1, <3>2
  <2> QED BY <1>1, <1>2, <1>4, <2>1, <2>2, <2>3 DEF ReadMain, Typed
<1>5. CASE Crash(b)
  BY <1>1, <1>2, <1>5 DEF Crash, Typed, Go, Labels
<1>6. CASE GenerateFails(b)
  BY <1>1, <1>2, <1>6 DEF GenerateFails, Typed, Fail, Go, Labels
<1>7. CASE OpenLl(b)
  <2>1. cur[b] \in Resolved(b)
    BY <1>7, UnitsShape DEF OpenLl, At, Progress, Resolved, Typed
  <2>2. LlFile(b, cur[b]) \in TmpFiles /\ Empty \in Content
    BY <2>1, FilesThere, Kinds
  <2> QED BY <1>1, <1>2, <1>7, <2>2 DEF OpenLl, Typed, Go, Labels
<1>8. CASE WriteLl(b)
  <2>1. Code(b, cur[b]) \in Content
    BY <1>3, <1>8 DEF WriteLl, At, Progress, Typed
  <2>2. tmp' \in [TmpFiles -> Content]
    BY <1>8, <2>1, WriteFiles DEF WriteLl
  <2> QED BY <1>1, <1>2, <1>8, <2>2 DEF WriteLl, Typed, Go, Labels
<1>9. CASE LlcReads(b)
  <2>1. cur[b] \in Resolved(b)
    BY <1>9 DEF LlcReads, At, Progress, Typed
  <2>2. LlFile(b, cur[b]) \in TmpFiles /\ SFile(b, cur[b]) \in TmpFiles /\ Empty \in Content
    BY <2>1, FilesThere, Kinds
  <2>3. Compiled(tmp[LlFile(b, cur[b])]) \in Content \ {Empty}
    BY <2>2, Kinds DEF Typed
  <2> QED BY <1>1, <1>2, <1>9, <2>2, <2>3 DEF LlcReads, Typed, Go, Labels
<1>10. CASE LlcFails(b)
  BY <1>1, <1>2, <1>10 DEF LlcFails, Typed, Fail, Go, Labels
<1>11. CASE LlcWrites(b)
  <2>1. held[b] \in Content
    BY DEF Typed
  <2>2. tmp' \in [TmpFiles -> Content]
    BY <1>11, <2>1, WriteFiles DEF LlcWrites
  <2>3. pc' \in [Builds -> Labels]
    BY <1>11 DEF LlcWrites, Typed, Go, Labels
  <2>4. cur' \in [Builds -> Nat]
    <3>1. cur' = [cur EXCEPT ![b] = cur[b] + 1] \/ cur' = cur
      BY <1>11 DEF LlcWrites
    <3>2. cur[b] + 1 \in Nat
      BY DEF Typed
    <3> QED BY <3>1, <3>2 DEF Typed
  <2> QED BY <1>1, <1>2, <1>11, <2>2, <2>3, <2>4 DEF LlcWrites, Typed
<1>12. CASE GccReads(b)
  <2> DEFINE f == SFile(b, LinkOrder(b)[Len(got[b]) + 1])
  <2>1. Len(got[b]) \in Nat
    BY DEF Typed
  <2>2. LinkOrder(b)[Len(got[b]) + 1] \in 1..Main(b)
    <3>1. Main(b) \in Nat /\ Main(b) >= 1 /\ Len(got[b]) + 1 \in 1..Main(b)
      BY <1>12, <2>1, UnitsShape DEF GccReads, Typed
    <3> QED BY <3>1 DEF LinkOrder
  <2>3. f \in TmpFiles
    BY <1>12, <2>2, FilesThere, UnitsShape DEF GccReads, At, Progress
  <2>4. Compiled(tmp[f]) \in Content
    BY <2>3, Kinds DEF Typed
  <2> HIDE DEF f
  <2>5. got' = [got EXCEPT ![b] = Append(@, Compiled(tmp[f]))]
    BY <1>12 DEF GccReads, f
  <2>6. got' \in [Builds -> Seq(Content)]
    BY <2>4, <2>5 DEF Typed
  <2> QED BY <1>1, <1>2, <1>12, <2>6 DEF GccReads, Typed
<1>13. CASE GccLinks(b)
  BY <1>1, <1>2, <1>13 DEF GccLinks, Typed, Go, Labels
<1>14. CASE GccFails(b)
  BY <1>1, <1>2, <1>14 DEF GccFails, Typed, Fail, Go, Labels
<1>15. CASE Remove(b)
  <2> DEFINE f == Trash(b)[gone[b] + 1]
  <2>1. tmp' = [tmp EXCEPT ![f] = Absent]
    BY <1>15 DEF Remove
  <2>2. tmp' \in [TmpFiles -> Content]
    BY <2>1, Kinds DEF Typed
  <2>3. open' \in [Builds -> TmpFiles \cup {NoFile}]
    BY <1>15 DEF Remove, Typed
  <2>4. gone' \in [Builds -> Nat]
    BY <1>15 DEF Remove, Typed
  <2> QED BY <1>1, <1>2, <1>15, <2>2, <2>3, <2>4 DEF Remove, Typed
<1>16. CASE Return(b)
  BY <1>1, <1>2, <1>16 DEF Return, Typed, Go, Labels
<1> QED
  BY <1>4, <1>5, <1>6, <1>7, <1>8, <1>9, <1>10, <1>11, <1>12, <1>13, <1>14, <1>15, <1>16
  DEF BuildStep

-----------------------------------------------------------------------------
(***************************************************************************)
(* Progress.                                                               *)
(***************************************************************************)
\* The build itself.
LEMMA OwnProgress ==
  ASSUME Typed, NEW b \in Builds, Progress(b), BuildStep(b)
  PROVE  Progress(b)'
<1>1. /\ Main(b)' = Main(b) /\ Resolved(b)' = Resolved(b) /\ job' = job
      /\ \A k : LlFile(b, k)' = LlFile(b, k) /\ SFile(b, k)' = SFile(b, k)
  BY JobStays, NamesStay
<1>2. /\ Main(b) \in Nat /\ Main(b) >= 1 /\ cur[b] \in Nat /\ gone[b] \in Nat
      /\ Len(got[b]) \in Nat
  BY UnitsShape DEF Typed
<1>3. CASE ReadMain(b)
  <2>1. /\ pc[b] = "start" /\ got'[b] = got[b] /\ gone'[b] = gone[b] /\ open'[b] = open[b]
        /\ \/ pc'[b] = "unit" /\ cur'[b] = 1 /\ rc'[b] = rc[b]
           \/ pc'[b] = "returned" /\ cur'[b] = cur[b]
    <3>1. \/ pc' = [pc EXCEPT ![b] = "unit"] /\ cur' = [cur EXCEPT ![b] = 1] /\ rc' = rc
          \/ pc' = [pc EXCEPT ![b] = "returned"] /\ cur' = cur
      BY <1>3 DEF ReadMain, Go
    <3> QED BY <1>3, <3>1 DEF ReadMain, Typed, At
  <2> QED BY <1>1, <1>2, <2>1 DEF Progress
<1>4. CASE Crash(b)
  <2>1. /\ pc[b] = "unit" /\ pc'[b] = "crashed"
        /\ UNCHANGED <<cur, got, gone, rc, open>>
    BY <1>4 DEF Crash, Typed, At, Go
  <2> QED BY <1>1, <1>2, <2>1 DEF Progress
<1>5. CASE GenerateFails(b)
  <2>1. /\ pc[b] = "unit" /\ pc'[b] = "cleanup" /\ Units(b)[cur[b]] # NoUnit
        /\ UNCHANGED <<cur, got, gone, open>>
    BY <1>5 DEF GenerateFails, Typed, At, Go, Fail
  <2>2. cur[b] \in Resolved(b)
    BY <1>2, <2>1 DEF Progress, Resolved
  <2> QED BY <1>1, <1>2, <2>1, <2>2 DEF Progress
<1>6. CASE OpenLl(b)
  <2>1. /\ pc[b] = "unit" /\ pc'[b] = "write" /\ Units(b)[cur[b]] # NoUnit
        /\ open'[b] = LlFile(b, cur[b])
        /\ UNCHANGED <<cur, got, gone, rc>>
    BY <1>6 DEF OpenLl, Typed, At, Go
  <2>2. cur[b] \in Resolved(b)
    BY <1>2, <2>1 DEF Progress, Resolved
  <2> QED BY <1>1, <1>2, <2>1, <2>2 DEF Progress
<1>7. CASE WriteLl(b)
  <2>1. /\ pc[b] = "write" /\ pc'[b] = "llc" /\ open'[b] = NoFile
        /\ UNCHANGED <<cur, got, gone, rc>>
    BY <1>7 DEF WriteLl, Typed, At, Go
  <2> QED BY <1>1, <1>2, <2>1 DEF Progress, NoFile
<1>8. CASE LlcReads(b)
  <2>1. /\ pc[b] = "llc" /\ pc'[b] = "emit" /\ open'[b] = SFile(b, cur[b])
        /\ UNCHANGED <<cur, got, gone, rc>>
    BY <1>8 DEF LlcReads, Typed, At, Go
  <2> QED BY <1>1, <1>2, <2>1 DEF Progress
<1>9. CASE LlcFails(b)
  <2>1. /\ pc[b] = "llc" /\ pc'[b] = "cleanup" /\ UNCHANGED <<cur, got, gone, open>>
    BY <1>9 DEF LlcFails, Typed, At, Go, Fail
  <2> QED BY <1>1, <1>2, <2>1 DEF Progress
<1>10. CASE LlcWrites(b)
  <2>1. /\ pc[b] = "emit" /\ open'[b] = NoFile /\ UNCHANGED <<got, gone, rc>>
        /\ \/ cur[b] < Main(b) /\ pc'[b] = "unit" /\ cur'[b] = cur[b] + 1
           \/ cur[b] = Main(b) /\ pc'[b] = "link" /\ cur'[b] = cur[b]
    <3>1. \/ /\ cur[b] < Main(b)
             /\ pc' = [pc EXCEPT ![b] = "unit"] /\ cur' = [cur EXCEPT ![b] = cur[b] + 1]
          \/ /\ ~(cur[b] < Main(b)) /\ pc' = [pc EXCEPT ![b] = "link"] /\ cur' = cur
      BY <1>10 DEF LlcWrites, Go
    <3>2. cur[b] <= Main(b)
      BY DEF Progress
    <3> QED BY <1>2, <1>10, <3>1, <3>2 DEF LlcWrites, Typed, At
  <2>2. NoFile' = NoFile
    BY DEF NoFile
  <2> QED BY <1>1, <1>2, <2>1, <2>2 DEF Progress
<1>11. CASE GccReads(b)
  <2>1. /\ pc[b] = "link" /\ Len(got[b]) < Main(b)
        /\ \E x : got' = [got EXCEPT ![b] = Append(@, x)]
        /\ UNCHANGED <<pc, cur, gone, rc, open>>
    BY <1>11 DEF GccReads, At
  <2>2. PICK x : got' = [got EXCEPT ![b] = Append(got[b], x)]
    BY <2>1
  <2>3. Len(Append(got[b], x)) = Len(got[b]) + 1
    BY DEF Typed
  <2>4. got'[b] = Append(got[b], x)
    BY <2>2 DEF Typed
  <2> QED BY <1>1, <1>2, <2>1, <2>3, <2>4 DEF Progress
<1>12. CASE GccLinks(b)
  <2>1. /\ pc[b] = "link" /\ pc'[b] = "cleanup" /\ UNCHANGED <<cur, got, gone, open>>
    BY <1>12 DEF GccLinks, Typed, At, Go
  <2> QED BY <1>1, <1>2, <2>1 DEF Progress
<1>13. CASE GccFails(b)
  <2>1. /\ pc[b] = "link" /\ pc'[b] = "cleanup" /\ UNCHANGED <<cur, got, gone, open>>
    BY <1>13 DEF GccFails, Typed, At, Go, Fail
  <2> QED BY <1>1, <1>2, <2>1 DEF Progress
<1>14. CASE Remove(b)
  <2>1. /\ pc[b] = "cleanup" /\ gone[b] < Len(Trash(b)) /\ gone'[b] = gone[b] + 1
        /\ UNCHANGED <<pc, cur, got>>
        /\ open'[b] = open[b] \/ open'[b] = NoFile
    BY <1>14 DEF Remove, Typed, At
  <2>2. Len(Trash(b)) = 2 * cur[b]
    BY <1>2, TrashFiles
  <2>3. open'[b] = NoFile
    BY <2>1 DEF Progress
  <2> QED BY <1>1, <1>2, <2>1, <2>2, <2>3 DEF Progress, NoFile
<1>15. CASE Return(b)
  <2>1. /\ pc[b] = "cleanup" /\ pc'[b] = "returned" /\ UNCHANGED <<cur, got, gone, open>>
        /\ ~job[b].keep => gone[b] = Len(Trash(b))
    BY <1>15 DEF Return, Typed, At, Go
  <2>2. Len(Trash(b)) = 2 * cur[b]
    BY <1>2, TrashFiles
  <2> QED BY <1>1, <1>2, <2>1, <2>2 DEF Progress
<1> QED
  BY <1>3, <1>4, <1>5, <1>6, <1>7, <1>8, <1>9, <1>10, <1>11, <1>12, <1>13, <1>14, <1>15
  DEF BuildStep

\* The others.
LEMMA OthersProgress ==
  ASSUME Typed, NEW b \in Builds, Progress(b), BuildStep(b),
         NEW c \in Builds, c # b, Progress(c)
  PROVE  Progress(c)'
<1>1. /\ Main(c)' = Main(c) /\ Resolved(c)' = Resolved(c) /\ job' = job
      /\ \A k : LlFile(c, k)' = LlFile(c, k) /\ SFile(c, k)' = SFile(c, k)
  BY JobStays, NamesStay
<1>2. /\ pc'[c] = pc[c] /\ cur'[c] = cur[c] /\ got'[c] = got[c]
      /\ gone'[c] = gone[c] /\ rc'[c] = rc[c]
      /\ open'[c] = open[c] \/ open'[c] = NoFile
  BY OthersStay
<1>3. NoFile' = NoFile
  BY DEF NoFile
<1> QED BY <1>1, <1>2, <1>3 DEF Progress

-----------------------------------------------------------------------------
(***************************************************************************)
(* The files of a build whose names are its own.                           *)
(***************************************************************************)
\* What the build itself does.
LEMMA OwnStep ==
  ASSUME Typed, NEW b \in Builds, Progress(b), NoClash(b), OwnFiles(b), BuildStep(b)
  PROVE  OwnFiles(b)'
<1>1. /\ job' = job /\ OwnCode(b)' = OwnCode(b) /\ Empty' = Empty
      /\ \A k : /\ LlFile(b, k)' = LlFile(b, k) /\ SFile(b, k)' = SFile(b, k)
                /\ Code(b, k)' = Code(b, k)
  BY JobStays, NamesStay DEF Empty
<1>2. /\ Main(b) \in Nat /\ Main(b) >= 1 /\ cur[b] \in Nat /\ Len(got[b]) \in Nat
      /\ job[b].output \in Outputs
  BY UnitsShape DEF Typed, Outputs
<1>3. \A k \in Resolved(b) : LlFile(b, k) \in TmpFiles /\ SFile(b, k) \in TmpFiles
  BY FilesThere
<1>4. \A k, m \in Resolved(b) : SFile(b, k) = SFile(b, m) => k = m
  <2> TAKE k, m \in Resolved(b)
  <2> HAVE SFile(b, k) = SFile(b, m)
  <2>1. Base(b, k) = Base(b, m)
    BY DEF SFile
  <2>2. job \in Scenarios
    BY DEF Typed
  <2> QED BY <2>1, <2>2, BasesDiffer
<1>5. \A k \in 1..cur[b] : k < cur[b] => k \in Resolved(b)
  BY DEF Progress
<1>6. CASE ReadMain(b)
  <2>1. /\ pc[b] = "start" /\ got' = got /\ exe' = exe
        /\ \/ pc'[b] = "unit" /\ cur'[b] = 1
           \/ pc'[b] = "returned" /\ rc'[b] = 1
    <3>1. \/ pc' = [pc EXCEPT ![b] = "unit"] /\ cur' = [cur EXCEPT ![b] = 1]
          \/ pc' = [pc EXCEPT ![b] = "returned"] /\ rc' = [rc EXCEPT ![b] = 1]
      BY <1>6 DEF ReadMain, Go
    <3> QED BY <1>6, <3>1 DEF ReadMain, Typed, At
  <2> QED BY <1>1, <2>1 DEF OwnFiles
<1>7. CASE Crash(b)
  <2>1. pc[b] = "unit" /\ pc'[b] = "crashed" /\ UNCHANGED <<got, exe>>
    BY <1>7 DEF Crash, Typed, At, Go
  <2> QED BY <1>1, <2>1 DEF OwnFiles
<1>8. CASE GenerateFails(b)
  <2>1. /\ pc[b] = "unit" /\ pc'[b] = "cleanup" /\ rc'[b] # 0
        /\ UNCHANGED <<got, exe>>
    BY <1>8 DEF GenerateFails, Typed, At, Go, Fail
  <2> QED BY <1>1, <2>1 DEF OwnFiles
<1>9. CASE OpenLl(b)
  <2>1. /\ pc[b] = "unit" /\ Units(b)[cur[b]] # NoUnit /\ pc'[b] = "write"
        /\ open'[b] = LlFile(b, cur[b])
        /\ tmp' = [tmp EXCEPT ![LlFile(b, cur[b])] = Empty]
        /\ UNCHANGED <<cur, got, exe>>
    BY <1>9 DEF OpenLl, Typed, At, Go
  <2>2. cur[b] \in Resolved(b)
    BY <1>2, <2>1 DEF Progress, Resolved
  <2>3. tmp'[open'[b]] = Empty
    BY <1>3, <2>1, <2>2 DEF Typed
  <2>4. \A k \in 1..cur[b] : k < cur[b] => tmp'[SFile(b, k)] = Code(b, k)
    <3> SUFFICES ASSUME NEW k \in 1..cur[b], k < cur[b]
                 PROVE  tmp'[SFile(b, k)] = Code(b, k)
      OBVIOUS
    <3>1. tmp[SFile(b, k)] = Code(b, k)
      BY <2>1 DEF OwnFiles
    <3>2. SFile(b, k) \in TmpFiles /\ SFile(b, k) # LlFile(b, cur[b])
      BY <1>3, <1>5, KindsDiffer
    <3> QED BY <2>1, <3>1, <3>2 DEF Typed
  <2> QED BY <1>1, <2>1, <2>3, <2>4 DEF OwnFiles
<1>10. CASE WriteLl(b)
  <2>1. /\ pc[b] = "write" /\ pc'[b] = "llc" /\ Write(b, Code(b, cur[b]))
        /\ UNCHANGED <<cur, got, exe>>
    BY <1>10 DEF WriteLl, Typed, At, Go
  <2>2. cur[b] \in Resolved(b)
    BY <1>2, <2>1 DEF Progress
  <2>3. open[b] = LlFile(b, cur[b]) /\ tmp[open[b]] = Empty /\ open[b] # NoFile
    BY <2>1, KindsDiffer DEF OwnFiles
  <2>4. Code(b, cur[b]) \in Content
    BY <2>2, Kinds DEF Resolved
  <2>5. tmp'[LlFile(b, cur[b])] = Code(b, cur[b])
    BY <2>1, <2>3, <2>4, WriteFiles
  <2>6. \A k \in 1..cur[b] : k < cur[b] => tmp'[SFile(b, k)] = Code(b, k)
    <3> SUFFICES ASSUME NEW k \in 1..cur[b], k < cur[b]
                 PROVE  tmp'[SFile(b, k)] = Code(b, k)
      OBVIOUS
    <3>1. tmp[SFile(b, k)] = Code(b, k)
      BY <2>1 DEF OwnFiles
    <3>2. SFile(b, k) \in TmpFiles /\ SFile(b, k) # open[b]
      BY <1>3, <1>5, <2>3, KindsDiffer
    <3> QED BY <2>1, <2>4, <3>1, <3>2, WriteFiles
  <2> QED BY <1>1, <2>1, <2>5, <2>6 DEF OwnFiles
<1>11. CASE LlcReads(b)
  <2>1. /\ pc[b] = "llc" /\ pc'[b] = "emit" /\ open'[b] = SFile(b, cur[b])
        /\ tmp' = [tmp EXCEPT ![SFile(b, cur[b])] = Empty]
        /\ held'[b] = Compiled(tmp[LlFile(b, cur[b])])
        /\ UNCHANGED <<cur, got, exe>>
    BY <1>11 DEF LlcReads, Typed, At, Go
  <2>2. cur[b] \in Resolved(b)
    BY <1>2, <2>1 DEF Progress
  <2>3. held'[b] = Code(b, cur[b])
    BY <2>1, Kinds DEF OwnFiles
  <2>4. tmp'[open'[b]] = Empty
    BY <1>3, <2>1, <2>2 DEF Typed
  <2>5. \A k \in 1..cur[b] : k < cur[b] => tmp'[SFile(b, k)] = Code(b, k)
    <3> SUFFICES ASSUME NEW k \in 1..cur[b], k < cur[b]
                 PROVE  tmp'[SFile(b, k)] = Code(b, k)
      OBVIOUS
    <3>1. tmp[SFile(b, k)] = Code(b, k)
      BY <2>1 DEF OwnFiles
    <3>2. SFile(b, k) \in TmpFiles /\ SFile(b, k) # SFile(b, cur[b])
      BY <1>2, <1>3, <1>4, <1>5, <2>2
    <3> QED BY <2>1, <3>1, <3>2 DEF Typed
  <2> QED BY <1>1, <2>1, <2>3, <2>4, <2>5 DEF OwnFiles
<1>12. CASE LlcFails(b)
  <2>1. /\ pc[b] = "llc" /\ pc'[b] = "cleanup" /\ rc'[b] # 0 /\ UNCHANGED <<got, exe>>
    BY <1>12 DEF LlcFails, Typed, At, Go, Fail
  <2> QED BY <1>1, <2>1 DEF OwnFiles
<1>13. CASE LlcWrites(b)
  <2>1. /\ pc[b] = "emit" /\ Write(b, held[b]) /\ UNCHANGED <<got, exe>>
        /\ \/ cur[b] < Main(b) /\ pc'[b] = "unit" /\ cur'[b] = cur[b] + 1
           \/ ~(cur[b] < Main(b)) /\ pc'[b] = "link" /\ cur'[b] = cur[b]
    <3>1. \/ /\ cur[b] < Main(b)
             /\ pc' = [pc EXCEPT ![b] = "unit"] /\ cur' = [cur EXCEPT ![b] = cur[b] + 1]
          \/ /\ ~(cur[b] < Main(b)) /\ pc' = [pc EXCEPT ![b] = "link"] /\ cur' = cur
      BY <1>13 DEF LlcWrites, Go
    <3> QED BY <1>13, <3>1 DEF LlcWrites, Typed, At
  <2>2. cur[b] \in Resolved(b)
    BY <1>2, <2>1 DEF Progress
  <2>3. /\ open[b] = SFile(b, cur[b]) /\ tmp[open[b]] = Empty /\ open[b] # NoFile
        /\ held[b] = Code(b, cur[b])
    BY <2>1, KindsDiffer DEF OwnFiles
  <2>4. held[b] \in Content
    BY DEF Typed
  <2>5. tmp'[SFile(b, cur[b])] = Code(b, cur[b])
    BY <2>1, <2>3, <2>4, WriteFiles
  <2>6. \A k \in 1..cur[b] : tmp'[SFile(b, k)] = Code(b, k)
    <3> SUFFICES ASSUME NEW k \in 1..cur[b], k # cur[b]
                 PROVE  tmp'[SFile(b, k)] = Code(b, k)
      BY <2>5
    <3>1. k < cur[b]
      BY <1>2
    <3>2. tmp[SFile(b, k)] = Code(b, k)
      BY <2>1, <3>1 DEF OwnFiles
    <3>3. SFile(b, k) \in TmpFiles /\ SFile(b, k) # open[b]
      BY <1>3, <1>4, <1>5, <2>2, <2>3, <3>1
    <3> QED BY <2>1, <2>4, <3>2, <3>3, WriteFiles
  <2>7. \A k \in 1..cur'[b] : k < cur'[b] \/ pc'[b] = "link" => tmp'[SFile(b, k)] = Code(b, k)
    BY <1>2, <2>1, <2>6
  <2> QED BY <1>1, <2>1, <2>7 DEF OwnFiles
<1>14. CASE GccReads(b)
  <2> DEFINE n == Len(got[b]) + 1
             k == LinkOrder(b)[n]
  <2>1. /\ pc[b] = "link" /\ n \in 1..Main(b)
        /\ got' = [got EXCEPT ![b] = Append(@, Compiled(tmp[SFile(b, k)]))]
        /\ UNCHANGED <<pc, tmp, cur, exe, rc>>
    BY <1>2, <1>14 DEF GccReads, At
  <2>2. cur[b] = Main(b)
    BY <2>1 DEF Progress
  <2>3. k \in 1..Main(b) /\ OwnCode(b)[n] = Code(b, k)
    <3> HIDE DEF n
    <3> QED BY <1>2, <2>1 DEF LinkOrder, OwnCode
  <2>4. tmp[SFile(b, k)] = Code(b, k)
    <3> HIDE DEF k
    <3> QED BY <2>1, <2>2, <2>3 DEF OwnFiles
  <2>5. got'[b] = Append(got[b], Code(b, k))
    <3> HIDE DEF k
    <3> QED BY <2>1, <2>4, Kinds DEF Typed
  <2>6. got[b] \in Seq(Content)
    BY DEF Typed
  <2>7. \A i \in 1..Len(got'[b]) : got'[b][i] = OwnCode(b)[i]
    <3>1. \A i \in 1..Len(got[b]) : got[b][i] = OwnCode(b)[i]
      BY DEF OwnFiles
    <3> HIDE DEF k
    <3>2. /\ Len(got'[b]) = Len(got[b]) + 1
          /\ \A i \in 1..Len(got[b]) : got'[b][i] = got[b][i]
          /\ got'[b][Len(got[b]) + 1] = Code(b, k)
      BY <2>5, <2>6
    <3> QED BY <1>2, <2>3, <3>1, <3>2
  <2> HIDE DEF n, k
  <2>8. \A i \in 1..cur[b] : tmp[SFile(b, i)] = Code(b, i)
    BY <2>1 DEF OwnFiles
  <2>9. exe[job[b].output] = << >>
    BY <2>1 DEF OwnFiles
  <2> QED BY <1>1, <2>1, <2>7, <2>8, <2>9 DEF OwnFiles
<1>15. CASE GccLinks(b)
  <2>1. /\ pc[b] = "link" /\ Len(got[b]) = Main(b) /\ pc'[b] = "cleanup"
        /\ exe' = [exe EXCEPT ![job[b].output] = got[b]]
        /\ UNCHANGED <<got, rc>>
    BY <1>15 DEF GccLinks, Typed, At, Go
  <2>2. got[b] = OwnCode(b)
    <3>1. got[b] \in [1..Main(b) -> Content] /\ DOMAIN got[b] = 1..Main(b)
      BY <2>1, LenProperties DEF Typed
    <3>2. \A i \in 1..Main(b) : got[b][i] = OwnCode(b)[i]
      BY <2>1 DEF OwnFiles
    <3>3. OwnCode(b) = [i \in 1..Main(b) |-> OwnCode(b)[i]]
      BY DEF OwnCode
    <3>4. got[b] = [i \in 1..Main(b) |-> got[b][i]]
      BY <3>1
    <3> QED BY <3>2, <3>3, <3>4
  <2>3. rc[b] = 0
    BY <2>1 DEF Progress
  <2>4. exe'[job[b].output] = got[b]
    BY <1>2, <2>1 DEF Typed
  <2>5. \A i \in 1..Len(got[b]) : got[b][i] = OwnCode(b)[i]
    BY DEF OwnFiles
  <2> QED BY <1>1, <2>1, <2>2, <2>3, <2>4, <2>5 DEF OwnFiles
<1>16. CASE GccFails(b)
  <2>1. /\ pc[b] = "link" /\ pc'[b] = "cleanup" /\ rc'[b] # 0 /\ UNCHANGED <<got, exe>>
    BY <1>16 DEF GccFails, Typed, At, Go, Fail
  <2> QED BY <1>1, <2>1 DEF OwnFiles
<1>17. CASE Remove(b)
  <2>1. pc[b] = "cleanup" /\ UNCHANGED <<pc, got, exe, rc>>
    BY <1>17 DEF Remove, At
  <2> QED BY <1>1, <2>1 DEF OwnFiles
<1>18. CASE Return(b)
  <2>1. pc[b] = "cleanup" /\ pc'[b] = "returned" /\ UNCHANGED <<got, exe, rc>>
    BY <1>18 DEF Return, Typed, At, Go
  <2> QED BY <1>1, <2>1 DEF OwnFiles
<1> QED
  BY <1>6, <1>7, <1>8, <1>9, <1>10, <1>11, <1>12, <1>13, <1>14, <1>15, <1>16, <1>17, <1>18
  DEF BuildStep

\* What the others do.
LEMMA OthersStep ==
  ASSUME Typed, NEW b \in Builds, Progress(b), BuildStep(b),
         NEW c \in Builds, c # b, Progress(c), NoClash(c), OwnFiles(c)
  PROVE  OwnFiles(c)'
<1>1. /\ job' = job /\ OwnCode(c)' = OwnCode(c) /\ Empty' = Empty
      /\ \A k : /\ LlFile(c, k)' = LlFile(c, k) /\ SFile(c, k)' = SFile(c, k)
                /\ Code(c, k)' = Code(c, k)
  BY JobStays, NamesStay DEF Empty
<1>2. /\ pc'[c] = pc[c] /\ cur'[c] = cur[c] /\ held'[c] = held[c]
      /\ got'[c] = got[c] /\ rc'[c] = rc[c]
  BY OthersStay
<1>3. \A f \in FilesOf(c) : f \in TmpFiles /\ f \notin FilesOf(b)
  BY DEF NoClash, TmpFiles
<1>4. open'[c] = open[c]
  <2>1. open[c] # NoFile => open[c] \notin FilesOf(b)
    BY <1>3, OpensOwn
  <2> QED BY <2>1, OthersStay
<1>5. \A f \in FilesOf(c) : tmp'[f] = tmp[f]
  BY <1>3, FilesStay
<1>6. exe'[job[c].output] = exe[job[c].output]
  <2>1. job[c].output \in Outputs /\ job[c].output # job[b].output
    BY DEF Outputs, NoClash
  <2> QED BY <2>1, FilesStay
<1>7. cur[c] \in Nat
  BY DEF Typed
<1>8. \A k \in 1..cur[c] :
        k < cur[c] \/ pc[c] \notin {"unit", "crashed"} =>
          /\ tmp'[LlFile(c, k)] = tmp[LlFile(c, k)]
          /\ tmp'[SFile(c, k)] = tmp[SFile(c, k)]
  BY <1>5, FilesThere DEF Progress
<1>9. /\ pc[c] \in {"write", "llc", "emit"} => cur[c] \in 1..cur[c]
      /\ pc[c] \in {"write", "emit"} /\ open[c] # NoFile => tmp'[open[c]] = tmp[open[c]]
  BY <1>5, <1>7, OpensOwn DEF Progress
<1>10. \A k : LlFile(c, k) # NoFile /\ SFile(c, k) # NoFile
  BY KindsDiffer
<1> QED BY <1>1, <1>2, <1>4, <1>6, <1>8, <1>9, <1>10 DEF OwnFiles

-----------------------------------------------------------------------------
(***************************************************************************)
(* What there is in /tmp, some build will remove.                          *)
(***************************************************************************)
\* The two files of the unit in work are on the list of those to remove.
LEMMA CurrentOnList ==
  ASSUME Typed, NEW b \in Builds, Progress(b), pc[b] \in {"unit", "write", "llc", "emit"}
  PROVE  /\ \E i \in (gone[b] + 1)..(2 * cur[b]) : LlFile(b, cur[b]) = TrashAt(b, i)
         /\ \E i \in (gone[b] + 1)..(2 * cur[b]) : SFile(b, cur[b]) = TrashAt(b, i)
<1>1. cur[b] \in Nat /\ cur[b] >= 1 /\ gone[b] = 0
  BY DEF Typed, Progress
<1>2. 2 * cur[b] - 1 \in 1..(2 * cur[b]) /\ 2 * cur[b] \in 1..(2 * cur[b])
  BY <1>1
<1>3. /\ LlFile(b, cur[b]) = TrashAt(b, 2 * cur[b] - 1)
      /\ SFile(b, cur[b]) = TrashAt(b, 2 * cur[b])
  BY <1>1, TrashFiles
<1> QED BY <1>1, <1>2, <1>3

LEMMA StepClaimed ==
  ASSUME Typed, NEW b \in Builds, \A c \in Builds : Progress(c), Claimed, BuildStep(b)
  PROVE  Claimed'
<1>1. /\ TmpFiles' = TmpFiles /\ Absent' = Absent
      /\ \A c, i : TrashAt(c, i)' = TrashAt(c, i)
  BY JobStays, NamesStay DEF Absent
<1>2. \A c \in Builds : cur[c] \in Nat /\ gone[c] \in Nat
  BY DEF Typed
<1>3. \A c \in Builds : c # b => cur'[c] = cur[c] /\ gone'[c] = gone[c]
  BY OthersStay
<1>4. Progress(b)
  OBVIOUS
<1> SUFFICES ASSUME NEW f \in TmpFiles, tmp'[f] # Absent
             PROVE  \E c \in Builds : \E i \in (gone'[c] + 1)..(2 * cur'[c]) : f = TrashAt(c, i)
  BY <1>1 DEF Claimed
\* A file that was there is claimed still.
<1>5. ASSUME cur'[b] \in Nat, cur'[b] >= cur[b], gone'[b] = gone[b], tmp[f] # Absent
      PROVE  \E c \in Builds : \E i \in (gone'[c] + 1)..(2 * cur'[c]) : f = TrashAt(c, i)
  <2>1. PICK c \in Builds : \E i \in (gone[c] + 1)..(2 * cur[c]) : f = TrashAt(c, i)
    BY <1>5 DEF Claimed
  <2>2. PICK i \in (gone[c] + 1)..(2 * cur[c]) : f = TrashAt(c, i)
    BY <2>1
  <2>3. i \in (gone'[c] + 1)..(2 * cur'[c])
    <3>1. CASE c = b
      BY <1>2, <1>5, <2>2, <3>1
    <3>2. CASE c # b
      BY <1>3, <2>2, <3>2
    <3> QED BY <3>1, <3>2
  <2> QED BY <2>2, <2>3
\* A file that is new is one of the unit in work.
<1>6. ASSUME pc[b] \in {"unit", "write", "llc", "emit"}, cur'[b] \in Nat, cur'[b] >= cur[b],
             gone'[b] = gone[b], f \in {LlFile(b, cur[b]), SFile(b, cur[b])}
      PROVE  \E c \in Builds : \E i \in (gone'[c] + 1)..(2 * cur'[c]) : f = TrashAt(c, i)
  <2>1. PICK i \in (gone[b] + 1)..(2 * cur[b]) : f = TrashAt(b, i)
    BY <1>4, <1>6, CurrentOnList
  <2>2. i \in (gone'[b] + 1)..(2 * cur'[b])
    BY <1>2, <1>6, <2>1
  <2> QED BY <2>1, <2>2
<1>7. CASE Remove(b)
  <2>1. /\ gone[b] < Len(Trash(b)) /\ gone' = [gone EXCEPT ![b] = @ + 1] /\ cur' = cur
        /\ tmp' = [tmp EXCEPT ![Trash(b)[gone[b] + 1]] = Absent]
        /\ Trash(b)[gone[b] + 1] = TrashAt(b, gone[b] + 1)
    BY <1>4, <1>7, RemovesOwn DEF Remove, At, Progress
  <2>2. f # TrashAt(b, gone[b] + 1) /\ tmp[f] # Absent
    BY <2>1 DEF Typed
  <2>3. PICK c \in Builds : \E i \in (gone[c] + 1)..(2 * cur[c]) : f = TrashAt(c, i)
    BY <2>2 DEF Claimed
  <2>4. PICK i \in (gone[c] + 1)..(2 * cur[c]) : f = TrashAt(c, i)
    BY <2>3
  <2>5. i \in (gone'[c] + 1)..(2 * cur'[c])
    <3>1. CASE c = b
      <4>1. i # gone[b] + 1 /\ gone'[b] = gone[b] + 1
        BY <2>1, <2>2, <2>4, <3>1 DEF Typed
      <4> QED BY <1>2, <2>1, <2>4, <3>1, <4>1
    <3>2. CASE c # b
      BY <1>3, <2>4, <3>2
    <3> QED BY <3>1, <3>2
  <2> QED BY <2>4, <2>5
<1>8. CASE OpenLl(b)
  <2>1. /\ pc[b] = "unit" /\ UNCHANGED <<cur, gone>>
        /\ tmp' = [tmp EXCEPT ![LlFile(b, cur[b])] = Empty]
    BY <1>8 DEF OpenLl, At
  <2>2. f = LlFile(b, cur[b]) \/ tmp[f] # Absent
    BY <2>1 DEF Typed
  <2> QED BY <1>2, <1>5, <1>6, <2>1, <2>2
<1>9. CASE LlcReads(b)
  <2>1. /\ pc[b] = "llc" /\ UNCHANGED <<cur, gone>>
        /\ tmp' = [tmp EXCEPT ![SFile(b, cur[b])] = Empty]
    BY <1>9 DEF LlcReads, At
  <2>2. f = SFile(b, cur[b]) \/ tmp[f] # Absent
    BY <2>1 DEF Typed
  <2> QED BY <1>2, <1>5, <1>6, <2>1, <2>2
<1>10. CASE WriteLl(b) \/ LlcWrites(b)
  <2>1. /\ pc[b] \in {"write", "emit"} /\ gone' = gone
        /\ \E x : Write(b, x)
        /\ cur' = cur \/ cur' = [cur EXCEPT ![b] = cur[b] + 1]
    BY <1>10 DEF WriteLl, LlcWrites, At
  <2>2. cur'[b] \in Nat /\ cur'[b] >= cur[b] /\ gone'[b] = gone[b]
    BY <1>2, <2>1 DEF Typed
  <2>3. tmp' = tmp \/ \E x : tmp' = [tmp EXCEPT ![open[b]] = x] /\ open[b] # NoFile
    BY <2>1 DEF Write
  <2>4. tmp[f] # Absent \/ f \in {LlFile(b, cur[b]), SFile(b, cur[b])}
    BY <1>4, <2>3 DEF Typed, Progress
  <2> QED BY <1>5, <1>6, <2>1, <2>2, <2>4
<1>11. CASE ReadMain(b)
  <2>1. /\ pc[b] = "start" /\ tmp' = tmp /\ gone' = gone
        /\ cur' = cur \/ cur' = [cur EXCEPT ![b] = 1]
    BY <1>11 DEF ReadMain, At
  <2>2. cur[b] = 0
    BY <1>4, <2>1 DEF Progress
  <2>3. cur'[b] \in Nat /\ cur'[b] >= cur[b]
    BY <2>1, <2>2 DEF Typed
  <2> QED BY <1>5, <2>1, <2>3
<1>12. CASE UNCHANGED <<tmp, cur, gone>>
  BY <1>2, <1>5, <1>12
<1> QED
  BY <1>7, <1>8, <1>9, <1>10, <1>11, <1>12 DEF BuildStep, Crash, GenerateFails, LlcFails,
    GccReads, GccLinks, GccFails, Return

-----------------------------------------------------------------------------
(***************************************************************************)
(* The invariant.                                                          *)
(***************************************************************************)
LEMMA NextIInv == IInv /\ [Next]_vars => IInv'
<1> SUFFICES ASSUME IInv, [Next]_vars PROVE IInv'
  OBVIOUS
<1>1. CASE UNCHANGED vars
  <2>1. job' = job
    BY <1>1 DEF vars
  <2>2. Typed'
    BY <1>1, <2>1, NamesStay DEF IInv, Typed, vars
  <2>3. ASSUME NEW b \in Builds PROVE Progress(b)'
    BY <1>1, <2>1, NamesStay DEF IInv, Progress, vars, NoFile
  <2>4. ASSUME NEW b \in Builds, NoClash(b)' PROVE OwnFiles(b)'
    BY <1>1, <2>1, <2>4, NamesStay DEF IInv, OwnFiles, vars, Empty
  <2>5. Claimed'
    BY <1>1, <2>1, NamesStay DEF IInv, Claimed, vars, Absent
  <2> QED BY <2>2, <2>3, <2>4, <2>5 DEF IInv
<1>2. ASSUME NEW b \in Builds, BuildStep(b) PROVE IInv'
  <2>1. Typed /\ Claimed /\ \A c \in Builds : Progress(c) /\ (NoClash(c) => OwnFiles(c))
    BY DEF IInv
  <2>2. \A c \in Builds : NoClash(c)' = NoClash(c)
    BY <1>2, JobStays, NamesStay
  <2>3. Typed'
    BY <1>2, <2>1, StepTyped
  <2>4. ASSUME NEW c \in Builds PROVE Progress(c)'
    BY <1>2, <2>1, OwnProgress, OthersProgress
  <2>5. ASSUME NEW c \in Builds, NoClash(c)' PROVE OwnFiles(c)'
    BY <1>2, <2>1, <2>2, <2>5, OwnStep, OthersStep
  <2>6. Claimed'
    BY <1>2, <2>1, StepClaimed
  <2> QED BY <2>3, <2>4, <2>5, <2>6 DEF IInv
<1> QED BY <1>1, <1>2 DEF Next

THEOREM Invariance == Spec => []IInv
BY InitIInv, NextIInv, PTL DEF Spec

(***************************************************************************)
(* The files and every build's progress have their types.                  *)
(***************************************************************************)
THEOREM TypeCorrect == Spec => []TypeOK
<1>1. IInv => TypeOK
  <2> SUFFICES ASSUME IInv PROVE TypeOK
    OBVIOUS
  <2>1. Typed /\ \A b \in Builds : Progress(b)
    BY DEF IInv
  <2>2. \A f \in TmpFiles : tmp[f].is \in {"absent", "empty", "damaged", "code"}
    BY <2>1, Kinds DEF Typed
  <2>3. ASSUME NEW b \in Builds
        PROVE  /\ cur[b] \in 0..Main(b) /\ open[b] \in FilesOf(b) \cup {NoFile}
               /\ held[b].is \in {"absent", "damaged", "code"}
               /\ Len(got[b]) <= Main(b) /\ gone[b] <= 2 * cur[b] /\ rc[b] \in 0..2
    <3>1. cur[b] \in 0..Main(b) /\ Len(got[b]) <= Main(b) /\ gone[b] <= 2 * cur[b]
      BY <2>1, UnitsShape DEF Typed, Progress
    <3>2. open[b] \in FilesOf(b) \cup {NoFile}
      BY <2>1, OpensOwn
    <3>3. held[b].is \in {"absent", "damaged", "code"} /\ rc[b] \in 0..2
      BY <2>1, Kinds DEF Typed
    <3> QED BY <3>1, <3>2, <3>3
  <2>4. /\ job \in Scenarios /\ DOMAIN tmp = TmpFiles /\ DOMAIN exe = Outputs
        /\ pc \in [Builds -> Labels]
    BY <2>1 DEF Typed
  <2> QED BY <2>2, <2>3, <2>4 DEF TypeOK
<1> QED BY <1>1, Invariance, PTL

(***************************************************************************)
(* However many builds run at once, and whatever they do in /tmp, gcc is   *)
(* given the code of the build's own units, each complete and in its       *)
(* place, when the build's file names are its own.                         *)
(***************************************************************************)
THEOREM LinksOwnUnits == Spec => []LinkInputsOwn
<1>1. IInv => LinkInputsOwn
  BY DEF IInv, OwnFiles, LinkInputsOwn
<1> QED BY <1>1, Invariance, PTL

(***************************************************************************)
(* Such a build returns 0 exactly when its executable was linked from its  *)
(* own units; otherwise there is none.                                     *)
(***************************************************************************)
THEOREM ExitCodeTellsTruth == Spec => []OwnOutcome
<1>1. IInv => OwnOutcome
  BY DEF IInv, OwnFiles, OwnOutcome
<1> QED BY <1>1, Invariance, PTL

(***************************************************************************)
(* When every build has returned, each of them without --keep, nothing is  *)
(* left in /tmp, though builds may share files and remove each other's.    *)
(***************************************************************************)
THEOREM NothingLeftBehind == Spec => []TempsRemoved
<1>1. IInv => TempsRemoved
  <2> SUFFICES ASSUME IInv, \A b \in Builds : pc[b] = "returned" /\ ~job[b].keep,
                      NEW f \in TmpFiles, tmp[f] # Absent
               PROVE  FALSE
    BY DEF TempsRemoved
  <2>1. PICK b \in Builds : \E i \in (gone[b] + 1)..(2 * cur[b]) : f = TrashAt(b, i)
    BY DEF IInv, Claimed
  <2>2. gone[b] = 2 * cur[b]
    BY DEF IInv, Progress
  <2>3. cur[b] \in Nat
    BY DEF IInv, Typed
  <2>4. (gone[b] + 1)..(2 * cur[b]) = {}
    BY <2>2, <2>3
  <2> QED BY <2>1, <2>4
<1> QED BY <1>1, Invariance, PTL

=============================================================================
