-------------------------- MODULE IncludeExpansion --------------------------
(***************************************************************************)
(* The source-copy #include preprocessor of the C compiler                 *)
(* (src-c/src/main.c: preprocess_includes and expand_includes).            *)
(*                                                                         *)
(* expand_includes is recursive: a call scans one buffer line by line,     *)
(* copies ordinary lines to its output buffer, and for a #include line     *)
(* reads the file, marks it in the IncludeSet `seen` shared by all calls,  *)
(* expands it in a nested call and appends what that call returns.  The    *)
(* model keeps the C call stack as a sequence of frames, one per active    *)
(* call, and takes one step per line scanned.                              *)
(*                                                                         *)
(* A path is a spelling path_join can return.  A file is a sequence of     *)
(* lines; what an ordinary line says does not matter, only where it comes  *)
(* from.  Allocation failures are left out.                                *)
(***************************************************************************)
EXTENDS Naturals, Sequences, FiniteSets, SequencesExt

CONSTANTS
  Paths,   \* the paths #include lines can resolve to
  Root,    \* the path of the file being compiled
  NoPath,  \* the path field of a line that is not a usable #include
  Disks    \* the file systems considered: functions from Paths to contents

Unreadable == << [kind |-> "unreadable", path |-> NoPath] >>

(***************************************************************************)
(* Lines: ordinary text; `#include "p"`; and a #include line the scanner   *)
(* reports and drops (unterminated, angle brackets, or a path that         *)
(* path_join cannot resolve).                                              *)
(***************************************************************************)
TextLine   == [kind |-> "text", path |-> NoPath]
BadLine    == [kind |-> "bad",  path |-> NoPath]
Include(p) == [kind |-> "include", path |-> p]
Line       == {TextLine, BadLine} \cup {Include(p) : p \in Paths}

ASSUME IncludeAssumption ==
  /\ IsFiniteSet(Paths)
  /\ Root \in Paths
  /\ NoPath \notin Paths
  /\ \A d \in Disks :
       /\ d \in [Paths -> Seq(Line) \cup {Unreadable}]
       /\ d[Root] # Unreadable

VARIABLES
  disk,    \* contents of every path; never written by the compiler
  stack,   \* active calls of expand_includes, the innermost last
  seen,    \* IncludeSet: the paths already inlined or being inlined
  diags,   \* the kinds of message printed on stderr
  done,    \* has preprocess_includes returned?
  result   \* the buffer it returned

vars == <<disk, stack, seen, diags, done, result>>

(***************************************************************************)
(* A line of output remembers the line of source it is a copy of; `raw`    *)
(* marks a #include line that was copied unexpanded.                       *)
(***************************************************************************)
Item == [path : Paths, line : Nat, raw : BOOLEAN]

(***************************************************************************)
(* One active call: the file it scans, the next line, the output buffer,   *)
(* and whether that buffer was ever appended to (`out' is still NULL in    *)
(* the C code otherwise, even when the file had #include lines).           *)
(***************************************************************************)
Frame == [path : Paths, next : Nat \ {0}, out : Seq(Item), touched : BOOLEAN]

\* Mutant: the scan starts one line early.
CallStartsEarly(p) == [path |-> p, next |-> 0, out |-> << >>, touched |-> FALSE]
\* A call of expand_includes on the text of p.
Call(p) == [path |-> p, next |-> 1, out |-> << >>, touched |-> FALSE]

Top       == stack[Len(stack)]
AtEnd     == Top.next > Len(disk[Top.path])
ThisLine  == disk[Top.path][Top.next]
Readable(p) == disk[p] # Unreadable

\* The scanner is about to look at a line of kind k.
Scanning(k) == ~done /\ ~AtEnd /\ ThisLine.kind = k

\* Mutant: the rest of the line and the line after it are consumed.
NextLineSkipsTwo == [stack EXCEPT ![Len(stack)].next = @ + 2]
\* Advance the innermost call past the line it looks at.
NextLine == [stack EXCEPT ![Len(stack)].next = @ + 1]

\* The caller's half of a return: the innermost call is gone and the call
\* below it becomes f.
PopTo(f) ==
  [i \in 1..(Len(stack) - 1) |-> IF i = Len(stack) - 1 THEN f ELSE stack[i]]

\* Mutant: the new bytes are copied over the old ones.
AppendOverwrites(f, items) == [f EXCEPT !.out = items, !.touched = TRUE]
\* Mutant: the new bytes are copied before the old ones.
AppendPrepends(f, items) == [f EXCEPT !.out = items \o @, !.touched = TRUE]
\* strbuf_append: appending nothing still allocates the buffer.
strbuf_append(f, items) == [f EXCEPT !.out = @ \o items, !.touched = TRUE]

\* Mutant: a path is never marked.
AddForgets(s, p) == s
\* includeset_add and includeset_contains.
includeset_add(s, p) == s \cup {p}
includeset_contains(s, p) == p \in s

\* The whole buffer of file p, copied without expansion.
RawCopy(p) ==
  [i \in 1..Len(disk[p]) |->
     [path |-> p, line |-> i, raw |-> disk[p][i].kind # "text"]]

\* What a call returns: its output buffer, or a copy of its input when
\* nothing was ever appended.
Returned(f) == IF f.touched THEN f.out ELSE RawCopy(f.path)

-----------------------------------------------------------------------------
(***************************************************************************)
(* preprocess_includes starts the outermost call with an empty IncludeSet: *)
(* the file being compiled is not in it.                                   *)
(***************************************************************************)
Init ==
  /\ disk \in Disks
  /\ stack = << Call(Root) >>
  /\ seen = {}
  /\ diags = {}
  /\ done = FALSE
  /\ result = << >>

\* An ordinary line is copied.
CopyLine ==
  /\ Scanning("text")
  /\ LET item == [path |-> Top.path, line |-> Top.next, raw |-> FALSE]
     IN  stack' = [NextLine EXCEPT ![Len(stack)] = strbuf_append(@, <<item>>)]
  /\ UNCHANGED <<disk, seen, diags, done, result>>

\* Mutant: the dropped line is not consumed.
DropLineStays ==
  /\ Scanning("bad")
  /\ stack' = stack
  /\ diags' = diags \cup {"bad"}
  /\ UNCHANGED <<disk, seen, done, result>>

\* A malformed or unsupported #include line is reported and dropped.
DropLine ==
  /\ Scanning("bad")
  /\ stack' = NextLine
  /\ diags' = diags \cup {"bad"}
  /\ UNCHANGED <<disk, seen, done, result>>

\* "Already inlined: emit nothing."
SkipSeen ==
  /\ Scanning("include")
  /\ includeset_contains(seen, ThisLine.path)
  /\ stack' = NextLine
  /\ UNCHANGED <<disk, seen, diags, done, result>>

\* A file that cannot be read is reported and dropped; it is not marked.
SkipUnreadable ==
  /\ Scanning("include")
  /\ ~includeset_contains(seen, ThisLine.path)
  /\ ~Readable(ThisLine.path)
  /\ stack' = NextLine
  /\ diags' = diags \cup {"unreadable"}
  /\ UNCHANGED <<disk, seen, done, result>>

\* A readable file is marked, then expanded in a nested call.
EnterFile ==
  /\ Scanning("include")
  /\ ~includeset_contains(seen, ThisLine.path)
  /\ Readable(ThisLine.path)
  /\ seen' = includeset_add(seen, ThisLine.path)
  /\ stack' = Append(NextLine, Call(ThisLine.path))
  /\ UNCHANGED <<disk, diags, done, result>>

\* Mutant: a file is marked only while it is being expanded.
ReturnUnmarks ==
  /\ ~done /\ AtEnd
  /\ Len(stack) > 1
  /\ stack' = PopTo(strbuf_append(stack[Len(stack) - 1], Returned(Top)))
  /\ seen' = seen \ {Top.path}
  /\ UNCHANGED <<disk, diags, done, result>>

\* A nested call returns and its caller appends the expansion.
ReturnToCaller ==
  /\ ~done /\ AtEnd
  /\ Len(stack) > 1
  /\ stack' = PopTo(strbuf_append(stack[Len(stack) - 1], Returned(Top)))
  /\ UNCHANGED <<disk, seen, diags, done, result>>

\* The outermost call returns; preprocess_includes frees the IncludeSet.
ReturnToCompiler ==
  /\ ~done /\ AtEnd
  /\ Len(stack) = 1
  /\ result' = Returned(Top)
  /\ done' = TRUE
  /\ stack' = << >>
  /\ seen' = {}
  /\ UNCHANGED <<disk, diags>>

Next ==
  \/ CopyLine
  \/ DropLine
  \/ SkipSeen
  \/ SkipUnreadable
  \/ EnterFile
  \/ ReturnToCaller
  \/ ReturnToCompiler

Spec == Init /\ [][Next]_vars

\* The preprocessor is a sequential loop: while it can take a step, it does.
FairSpec == Spec /\ WF_vars(Next)

-----------------------------------------------------------------------------
(***************************************************************************)
(* The state of every call, the set and the result are of the shapes the   *)
(* C code gives them.                                                      *)
(***************************************************************************)
TypeOK ==
  /\ disk \in [Paths -> Seq(Line) \cup {Unreadable}]
  /\ stack \in Seq(Frame)
  /\ seen \in SUBSET Paths
  /\ diags \in SUBSET {"bad", "unreadable"}
  /\ done \in BOOLEAN
  /\ result \in Seq(Item)

(***************************************************************************)
(* Cycle protection, while it works: every nested call scans a file that   *)
(* is marked in `seen`, and no two nested calls scan the same path, however *)
(* the files include each other.                                           *)
(***************************************************************************)
CyclesCut ==
  \A i \in 2..Len(stack) :
    /\ stack[i].path \in seen
    /\ \A j \in 2..Len(stack) : stack[i].path = stack[j].path => i = j

(***************************************************************************)
(* Cycle protection, what it is for: the C recursion (each level of which  *)
(* has a 1 KB buffer on the C stack) is never deeper than the number of    *)
(* paths, plus the outermost call.                                         *)
(***************************************************************************)
DepthBounded == Len(stack) <= Cardinality(Paths) + 1

\* The line i of p has been copied to the output buffer s.
CopiedTo(p, i, s) ==
  \E k \in 1..Len(s) : s[k] = [path |-> p, line |-> i, raw |-> FALSE]

(***************************************************************************)
(* Marking a path in `seen` suppresses every later inclusion of it, so a   *)
(* marked file must not be lost: it is being expanded by an active nested  *)
(* call, or every ordinary line of it is already in the buffer of some     *)
(* active call.                                                            *)
(***************************************************************************)
MarkedNotLost ==
  \A p \in seen :
    \/ \E i \in 2..Len(stack) : stack[i].path = p
    \/ \A l \in 1..Len(disk[p]) :
         disk[p][l].kind = "text" =>
           \E i \in 1..Len(stack) : CopiedTo(p, l, stack[i].out)

(***************************************************************************)
(* "Source copy", once: in the buffer given to the lexer the lines of an   *)
(* included file appear in the order they have in the file, none of them   *)
(* twice, although several files may include it.                           *)
(***************************************************************************)
InlinedOnceInOrder ==
  \A k, l \in 1..Len(result) :
    k < l /\ result[k].path = result[l].path /\ result[k].path # Root
      => result[k].line < result[l].line

\* The set S of paths contains the readable files its files include.
ClosedUnderInclusion(S) ==
  \A p \in S : \A i \in DOMAIN disk[p] :
    LET line == disk[p][i]
    IN  line.kind = "include" /\ Readable(line.path) => line.path \in S

\* The files the root includes, directly or through others: the least set
\* that contains the root and is closed under inclusion.
Reachable ==
  {p \in Paths : \A S \in SUBSET Paths : Root \in S /\ ClosedUnderInclusion(S) => p \in S}

(***************************************************************************)
(* Nothing is left out: when the expansion is over, every ordinary line of *)
(* every file reachable from the root is in the buffer given to the lexer, *)
(* whatever order the files were met in and whichever inclusions were      *)
(* suppressed as already seen; and no line of any other file is.           *)
(***************************************************************************)
Complete ==
  done =>
    /\ \A p \in Reachable : \A l \in DOMAIN disk[p] :
         disk[p][l].kind = "text" => CopiedTo(p, l, result)
    /\ \A k \in DOMAIN result : result[k].path \in Reachable

(***************************************************************************)
(* #include as the specification defines it (section 9.2): the content of  *)
(* the file "verbatim" in the place of the line, without any `seen` set.   *)
(* The lines of p in file system d, where the text of included files is    *)
(* sub.                                                                    *)
(***************************************************************************)
LineTexts(d, p, sub) ==
  [i \in DOMAIN d[p] |->
    CASE d[p][i].kind = "text"    -> <<[path |-> p, line |-> i, raw |-> FALSE]>>
      [] d[p][i].kind = "include" -> sub[d[p][i].path]
      [] OTHER                    -> << >>]

\* Files that do not include each other in a circle are nested no deeper
\* than there are paths.
MaxDepth == Cardinality(Paths) + 1

Substitution(d, p) ==
  LET text[depth \in 0..MaxDepth] ==
        IF depth = 0 THEN [q \in Paths |-> << >>]
        ELSE [q \in Paths |-> FlattenSeq(LineTexts(d, q, text[depth - 1]))]
  IN  text[MaxDepth][p]

(***************************************************************************)
(* No reachable file is included twice, nor the root at all; each of them  *)
(* can be read, and has a line that is not dropped (the one exception of   *)
(* the code: a file without any is returned as it is).                     *)
(***************************************************************************)
TreeShaped ==
  /\ \A p \in Reachable : \A i \in DOMAIN disk[p] :
       disk[p][i].kind = "include" =>
         /\ disk[p][i].path # Root
         /\ Readable(disk[p][i].path)
         /\ \A o \in Reachable : \A j \in DOMAIN disk[o] :
              disk[o][j] = disk[p][i] => o = p /\ j = i
  /\ \A p \in Reachable : \E i \in DOMAIN disk[p] : disk[p][i] # BadLine

(***************************************************************************)
(* Where cycle protection has nothing to do, expand_includes is plain      *)
(* textual substitution: same lines, same order, nothing added.            *)
(***************************************************************************)
Verbatim == done /\ TreeShaped => result = Substitution(disk, Root)

\* Mutual inclusion does not hang the compiler: preprocess_includes returns.
Terminates == <>done

=============================================================================
