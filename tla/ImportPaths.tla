----------------------------- MODULE ImportPaths -----------------------------
(***************************************************************************)
(* The path arithmetic of the build driver (src-c/src/main.c): how the     *)
(* path written in an #import becomes the path that is opened.  A path is  *)
(* [root, segs]: whether it starts with a separator, and its segments, of  *)
(* which "." and ".." are two.  Repeated and trailing separators, which    *)
(* the code skips, are left out; a file is named by its stem.              *)
(***************************************************************************)
EXTENDS Integers, Sequences, SequencesExt

CONSTANTS
  Names,    \* of files and directories
  NoPath    \* path_join returned NULL

Segments == Names \cup {".", ".."}
Paths    == [root : BOOLEAN, segs : Seq(Segments)]
ASSUME NoPathAssumption == NoPath \notin Paths

Path(root, segs) == [root |-> root, segs |-> segs]

EmptyPath == Path(FALSE, << >>)
Dot       == Path(FALSE, <<".">>)

\* "foo.uc" -> ".", "/foo.uc" -> "/", otherwise without the last segment.
path_dirname(path) ==
  IF ~path.root /\ Len(path.segs) = 1 THEN Dot ELSE Path(path.root, Front(path.segs))

\* Mutant: the whole of a lone component stays.
PopKeepsLast(path) ==
  IF Len(path.segs) <= 1 THEN path ELSE Path(path.root, Front(path.segs))
\* Cut the text at its last separator: the leading one is a separator too,
\* so that "/a" and "/" become the empty path and lose their root.
Pop(path) ==
  IF path = EmptyPath THEN NoPath
  ELSE IF Len(path.segs) <= 1 THEN EmptyPath ELSE Path(path.root, Front(path.segs))

JoinSegment(path, seg) ==
  IF path = NoPath \/ seg = "." THEN path
  ELSE IF seg = ".." THEN Pop(path) ELSE Path(path.root, Append(path.segs, seg))

\* The text after each segment of the relative path.
Joins(base, segs) ==
  LET joined[n \in 0..Len(segs)] == IF n = 0 THEN base ELSE JoinSegment(joined[n - 1], segs[n])
  IN  joined

path_join(base_dir, rel) ==
  LET base   == IF base_dir = Dot THEN EmptyPath ELSE base_dir
      joined == Joins(base, rel.segs)[Len(rel.segs)]
  IN  IF rel.root THEN rel ELSE IF joined = EmptyPath THEN Dot ELSE joined

\* The stem of the last segment; uc_codegen_add_imported_module agrees.
extract_module_name(path) == Last(path.segs)

-----------------------------------------------------------------------------
(***************************************************************************)
(* What the operating system makes of a path in the directory cwd, itself  *)
(* the sequence of names from the root.                                    *)
(***************************************************************************)
Move(at, seg) ==
  CASE seg = "."  -> at
    [] seg = ".." -> IF at = << >> THEN at ELSE Front(at)
    [] OTHER      -> Append(at, seg)
Walk(from, segs) ==
  LET at[n \in 0..Len(segs)] == IF n = 0 THEN from ELSE Move(at[n - 1], segs[n])
  IN  at
Located(cwd, path) == Walk(IF path.root THEN << >> ELSE cwd, path.segs)[Len(path.segs)]

\* How far a walk is below where it starts, and whether it is ever further
\* above it than height.
Down(seg) == CASE seg = "." -> 0 [] seg = ".." -> -1 [] OTHER -> 1
Depths(segs) ==
  LET depth[n \in 0..Len(segs)] == IF n = 0 THEN 0 ELSE depth[n - 1] + Down(segs[n])
  IN  depth
ClimbsAbove(segs, height) == \E n \in 0..Len(segs) : Depths(segs)[n] + height < 0
=============================================================================
