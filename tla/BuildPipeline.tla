---------------------------- MODULE BuildPipeline ----------------------------
(***************************************************************************)
(* `--build` of the C compiler (src-c/src/main.c: run_build): every        *)
(* imported translation unit and then the main one is compiled to a .ll    *)
(* file, llc makes a .s file of it, gcc links the .s files, and the        *)
(* intermediate files are removed.  They live in /tmp under names made of  *)
(* the unit's stem, so builds that run at the same time share them.        *)
(*                                                                         *)
(* Each build is a process; its steps are the operations on the shared     *)
(* files.  Opening a file truncates it, writing follows in a second step,  *)
(* and a file removed in between keeps its writer but loses its name.  llc *)
(* and gcc are external: they read, then write, and may fail.              *)
(***************************************************************************)
EXTENDS Naturals, Sequences

CONSTANTS
  Builds,                \* compiler processes running at the same time
  Scenarios,             \* what they build: functions from Builds to jobs
  NoUnit,                \* an #import path_join cannot resolve
  UC_BUILD_MAX_IMPORTS

IsSequence(s) == Len(s) \in Nat /\ s = [i \in 1..Len(s) |-> s[i]]

\* The imports of a job are a sequence of units, the stem of a unit is a
\* sequence of pieces.
ASSUME BuildsAssumption ==
  /\ UC_BUILD_MAX_IMPORTS \in Nat
  /\ \A j \in Scenarios : \A b \in Builds :
       /\ IsSequence(j[b].imports)
       /\ IsSequence(j[b].main.stem)
       /\ \A i \in 1..Len(j[b].imports) :
            j[b].imports[i] # NoUnit => IsSequence(j[b].imports[i].stem)

VARIABLES
  job,      \* the scenario
  tmp,      \* the intermediate files: their names in /tmp and contents
  exe,      \* the executables
  pc,       \* what each build does next
  cur,      \* the unit it compiles, imports first, the main one last
  open,     \* the file it (or its llc) writes, while that has a name
  held,     \* what its llc has read
  got,      \* what its gcc has read
  gone,     \* how many of its files the cleanup has removed
  rc        \* its exit code

vars == <<job, tmp, exe, pc, cur, open, held, got, gone, rc>>

-----------------------------------------------------------------------------
(***************************************************************************)
(* Units and file names.  A unit is a source file [dir, stem]; a job is    *)
(* [main, imports, keep, output].  A stem is a sequence of pieces of a     *)
(* name: a main unit called imp0_x.uc has the stem <<"imp", 0, "x">>,      *)
(* which is also the base of the files of the first import when that is    *)
(* called x.uc.                                                            *)
(***************************************************************************)
extract_module_name(u) == u.stem

Min2(m, n) == IF m < n THEN m ELSE n

\* The imports that are compiled: the others are cut off with a message.
ImportsOf(b) ==
  SubSeq(job[b].imports, 1, Min2(Len(job[b].imports), UC_BUILD_MAX_IMPORTS))
Units(b)  == Append(ImportsOf(b), job[b].main)
Main(b)   == Len(Units(b))
Role(b, k) == IF k = Main(b) THEN "main" ELSE "import"

\* Mutant: the number of the import is not part of the name.
BaseNoIndex(b, k) == extract_module_name(Units(b)[k])
\* "/tmp/uc_build_<stem>" and "/tmp/uc_build_imp<i>_<stem>", i from 0.
Base(b, k) ==
  LET stem == extract_module_name(Units(b)[k])
  IN  IF k = Main(b) THEN stem ELSE <<"imp", k - 1>> \o stem

LlFile(b, k) == <<Base(b, k), "ll">>
SFile(b, k)  == <<Base(b, k), "s">>
Resolved(b)  == {k \in 1..Main(b) : Units(b)[k] # NoUnit}
FilesOf(b)   == {LlFile(b, k) : k \in Resolved(b)} \cup {SFile(b, k) : k \in Resolved(b)}
TmpFiles     == UNION {FilesOf(b) : b \in Builds}
Outputs      == {job[b].output : b \in Builds}

(***************************************************************************)
(* Contents: what unit a file was compiled from, and whether with or       *)
(* without the builtins; empty; or damaged, when two builds wrote to it or *)
(* it was made from a file that was not complete.                          *)
(***************************************************************************)
Absent  == [is |-> "absent"]
Empty   == [is |-> "empty"]
Damaged == [is |-> "damaged"]
Code(b, k) == [is |-> "code", unit |-> Units(b)[k], role |-> Role(b, k)]
NoFile  == << << >>, "none" >>

\* What a reader of c makes of it.
Compiled(c) == IF c.is = "code" THEN c ELSE Damaged

\* Writing c to the open file of b: another writer may have been there.
Write(b, c) ==
  IF open[b] = NoFile THEN tmp' = tmp
  ELSE \E d \in {c} \cup (IF tmp[open[b]] = Empty THEN {} ELSE {Damaged}) :
         tmp' = [tmp EXCEPT ![open[b]] = d]

\* What gcc links: the main .s first, then the imports.
LinkOrder(b) == [k \in 1..Main(b) |-> IF k = 1 THEN Main(b) ELSE k - 1]
OwnCode(b)   == [k \in 1..Main(b) |-> Code(b, LinkOrder(b)[k])]

\* The files the cleanup of b removes, in order: those whose names it has
\* formed, created or not.
Trash(b) ==
  [i \in 1..(2 * cur[b]) |-> IF i % 2 = 1 THEN LlFile(b, (i + 1) \div 2)
                                          ELSE SFile(b, i \div 2)]

At(b, label)  == pc[b] = label
Go(b, label)  == pc' = [pc EXCEPT ![b] = label]
\* rc = r; goto cleanup
Fail(b, r) == Go(b, "cleanup") /\ rc' = [rc EXCEPT ![b] = r]

-----------------------------------------------------------------------------
Init ==
  /\ job \in Scenarios
  /\ tmp = [f \in TmpFiles |-> Absent]
  /\ exe = [o \in Outputs |-> << >>]
  /\ pc = [b \in Builds |-> "start"]
  /\ cur = [b \in Builds |-> 0]
  /\ open = [b \in Builds |-> NoFile]
  /\ held = [b \in Builds |-> Absent]
  /\ got = [b \in Builds |-> << >>]
  /\ gone = [b \in Builds |-> 0]
  /\ rc = [b \in Builds |-> 0]

\* The main source is read and its #imports are collected, or it cannot be.
ReadMain(b) ==
  /\ At(b, "start")
  /\ \/ /\ Go(b, "unit")
        /\ cur' = [cur EXCEPT ![b] = 1]
        /\ UNCHANGED rc
     \/ /\ Go(b, "returned")
        /\ rc' = [rc EXCEPT ![b] = 1]
        /\ UNCHANGED cur
  /\ UNCHANGED <<job, tmp, exe, open, held, got, gone>>

\* extract_module_name(NULL): the process dies, nothing is cleaned up.
Crash(b) ==
  /\ At(b, "unit") /\ Units(b)[cur[b]] = NoUnit
  /\ Go(b, "crashed")
  /\ UNCHANGED <<job, tmp, exe, cur, open, held, got, gone, rc>>

\* generate_ir fails, or the .ll file cannot be opened.
GenerateFails(b) ==
  /\ At(b, "unit") /\ Units(b)[cur[b]] # NoUnit
  /\ \E r \in {1, 2} : Fail(b, r)
  /\ UNCHANGED <<job, tmp, exe, cur, open, held, got, gone>>

\* generate_ir succeeds and fopen truncates the .ll file.
OpenLl(b) ==
  /\ At(b, "unit") /\ Units(b)[cur[b]] # NoUnit
  /\ tmp' = [tmp EXCEPT ![LlFile(b, cur[b])] = Empty]
  /\ open' = [open EXCEPT ![b] = LlFile(b, cur[b])]
  /\ Go(b, "write")
  /\ UNCHANGED <<job, exe, cur, held, got, gone, rc>>

\* fputs and fclose.
WriteLl(b) ==
  /\ At(b, "write")
  /\ Write(b, Code(b, cur[b]))
  /\ open' = [open EXCEPT ![b] = NoFile]
  /\ Go(b, "llc")
  /\ UNCHANGED <<job, exe, cur, held, got, gone, rc>>

\* llc reads the .ll file and opens the .s file.
LlcReads(b) ==
  /\ At(b, "llc") /\ tmp[LlFile(b, cur[b])] # Absent
  /\ held' = [held EXCEPT ![b] = Compiled(tmp[LlFile(b, cur[b])])]
  /\ tmp' = [tmp EXCEPT ![SFile(b, cur[b])] = Empty]
  /\ open' = [open EXCEPT ![b] = SFile(b, cur[b])]
  /\ Go(b, "emit")
  /\ UNCHANGED <<job, exe, cur, got, gone, rc>>

\* llc finds no file, or refuses what it finds.
LlcFails(b) ==
  /\ At(b, "llc")
  /\ Fail(b, 1)
  /\ UNCHANGED <<job, tmp, exe, cur, open, held, got, gone>>

\* Mutants: the loop over the imports does not advance; it goes one too far.
LlcWritesAgain(b) ==
  /\ At(b, "emit")
  /\ Write(b, held[b])
  /\ open' = [open EXCEPT ![b] = NoFile]
  /\ IF cur[b] < Main(b) THEN Go(b, "unit") ELSE Go(b, "link")
  /\ UNCHANGED <<job, exe, cur, held, got, gone, rc>>
LlcWritesPast(b) ==
  /\ At(b, "emit")
  /\ Write(b, held[b])
  /\ open' = [open EXCEPT ![b] = NoFile]
  /\ IF cur[b] <= Main(b)
     THEN Go(b, "unit") /\ cur' = [cur EXCEPT ![b] = @ + 1]
     ELSE Go(b, "link") /\ UNCHANGED cur
  /\ UNCHANGED <<job, exe, held, got, gone, rc>>

\* llc writes the .s file; on to the next unit, or to gcc.
LlcWrites(b) ==
  /\ At(b, "emit")
  /\ Write(b, held[b])
  /\ open' = [open EXCEPT ![b] = NoFile]
  /\ IF cur[b] < Main(b)
     THEN Go(b, "unit") /\ cur' = [cur EXCEPT ![b] = @ + 1]
     ELSE Go(b, "link") /\ UNCHANGED cur
  /\ UNCHANGED <<job, exe, held, got, gone, rc>>

\* gcc reads the next .s file.
GccReads(b) ==
  /\ At(b, "link") /\ Len(got[b]) < Main(b)
  /\ LET f == SFile(b, LinkOrder(b)[Len(got[b]) + 1])
     IN  /\ tmp[f] # Absent
         /\ got' = [got EXCEPT ![b] = Append(@, Compiled(tmp[f]))]
  /\ UNCHANGED <<job, tmp, exe, pc, cur, open, held, gone, rc>>

\* gcc writes the executable, unless some symbol is defined twice because
\* it was given the same code twice.
GccLinks(b) ==
  /\ At(b, "link") /\ Len(got[b]) = Main(b)
  /\ \A i, j \in 1..Main(b) : got[b][i] = got[b][j] /\ got[b][i].is = "code" => i = j
  /\ exe' = [exe EXCEPT ![job[b].output] = got[b]]
  /\ Go(b, "cleanup")
  /\ UNCHANGED <<job, tmp, cur, open, held, got, gone, rc>>

\* Mutant: the exit code of gcc is not passed on.
GccFailsUnnoticed(b) ==
  /\ At(b, "link")
  /\ Go(b, "cleanup")
  /\ UNCHANGED <<job, tmp, exe, cur, open, held, got, gone, rc>>

\* gcc finds no file, or undefined or duplicate symbols.
GccFails(b) ==
  /\ At(b, "link")
  /\ Fail(b, 1)
  /\ UNCHANGED <<job, tmp, exe, cur, open, held, got, gone>>

\* Mutant: only the .ll files are removed.
RemoveOnlyLl(b) ==
  /\ At(b, "cleanup") /\ ~job[b].keep /\ gone[b] < Len(Trash(b))
  /\ LET f == LlFile(b, 1 + gone[b] \div 2)
     IN  /\ tmp' = [tmp EXCEPT ![f] = Absent]
         /\ open' = [c \in Builds |-> IF open[c] = f THEN NoFile ELSE open[c]]
  /\ gone' = [gone EXCEPT ![b] = @ + 1]
  /\ UNCHANGED <<job, exe, pc, cur, held, got, rc>>

\* remove() of the next file; who has it open writes to a nameless file.
Remove(b) ==
  /\ At(b, "cleanup") /\ ~job[b].keep /\ gone[b] < Len(Trash(b))
  /\ LET f == Trash(b)[gone[b] + 1]
     IN  /\ tmp' = [tmp EXCEPT ![f] = Absent]
         /\ open' = [c \in Builds |-> IF open[c] = f THEN NoFile ELSE open[c]]
  /\ gone' = [gone EXCEPT ![b] = @ + 1]
  /\ UNCHANGED <<job, exe, pc, cur, held, got, rc>>

\* run_build returns.
Return(b) ==
  /\ At(b, "cleanup")
  /\ ~job[b].keep => gone[b] = Len(Trash(b))
  /\ Go(b, "returned")
  /\ UNCHANGED <<job, tmp, exe, cur, open, held, got, gone, rc>>

BuildStep(b) ==
  \/ ReadMain(b)
  \/ Crash(b) \/ GenerateFails(b) \/ OpenLl(b) \/ WriteLl(b)
  \/ LlcReads(b) \/ LlcFails(b) \/ LlcWrites(b)
  \/ GccReads(b) \/ GccLinks(b) \/ GccFails(b)
  \/ Remove(b) \/ Return(b)

Next == \E b \in Builds : BuildStep(b)

Spec == Init /\ [][Next]_vars

\* A process keeps running, and the llc and gcc it waits for come back.
FairSpec == Spec /\ \A b \in Builds : WF_vars(BuildStep(b))

-----------------------------------------------------------------------------
Labels == {"start", "unit", "write", "llc", "emit", "link", "cleanup",
           "returned", "crashed"}

(***************************************************************************)
(* Type correctness of the files and of every build's progress.            *)
(***************************************************************************)
TypeOK ==
  /\ job \in Scenarios
  /\ DOMAIN tmp = TmpFiles
  /\ \A f \in TmpFiles : tmp[f].is \in {"absent", "empty", "damaged", "code"}
  /\ DOMAIN exe = Outputs
  /\ pc \in [Builds -> Labels]
  /\ \A b \in Builds :
       /\ cur[b] \in 0..Main(b)
       /\ open[b] \in FilesOf(b) \cup {NoFile}
       /\ held[b].is \in {"absent", "damaged", "code"}
       /\ Len(got[b]) <= Main(b)
       /\ gone[b] <= 2 * cur[b]
       /\ rc[b] \in 0..2

(***************************************************************************)
(* The names of b are its own: no other build uses one of them or the same *)
(* output, and its main unit is not called imp<i>_<stem of its import i>.  *)
(***************************************************************************)
NoClash(b) ==
  /\ \A c \in Builds \ {b} :
       FilesOf(b) \cap FilesOf(c) = {} /\ job[b].output # job[c].output
  /\ \A k \in Resolved(b) \ {Main(b)} :
       job[b].main.stem # <<"imp", k - 1>> \o Units(b)[k].stem

(***************************************************************************)
(* What gcc reads for a build whose names are its own is the code of that  *)
(* build's units, each complete, the main one first and the imports in     *)
(* their order, whatever other builds do in /tmp meanwhile and although    *)
(* two imports may have the same stem (the number of the import is part of *)
(* the name).                                                              *)
(***************************************************************************)
LinkInputsOwn ==
  \A b \in Builds : NoClash(b) =>
    \A i \in 1..Len(got[b]) : got[b][i] = OwnCode(b)[i]

(***************************************************************************)
(* The exit code tells the truth: a build whose names are its own returns  *)
(* 0 exactly when its executable was linked, from its own units;           *)
(* otherwise there is no executable.                                       *)
(***************************************************************************)
OwnOutcome ==
  \A b \in Builds : pc[b] = "returned" /\ NoClash(b) =>
    exe[job[b].output] = IF rc[b] = 0 THEN OwnCode(b) ELSE << >>

(***************************************************************************)
(* Nothing is left in /tmp by builds without --keep, failed or not, though *)
(* they share files and remove each other's; a build that dies on an       *)
(* #import it cannot resolve is the exception.                             *)
(***************************************************************************)
TempsRemoved ==
  (\A b \in Builds : pc[b] = "returned" /\ ~job[b].keep)
    => \A f \in TmpFiles : tmp[f] = Absent

(***************************************************************************)
(* Whatever the builds do to each other's files, every one comes to an end.*)
(***************************************************************************)
AllReturn == \A b \in Builds : <>(pc[b] \in {"returned", "crashed"})

=============================================================================
