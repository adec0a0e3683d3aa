------------------------- MODULE MCIncludeExpansion -------------------------
(***************************************************************************)
(* The instance of IncludeExpansion that TLC checks: a file r being        *)
(* compiled and two files a and b it can include, with every content of up *)
(* to three, two and one lines; a and b may also be unreadable.            *)
(***************************************************************************)
EXTENDS IncludeExpansion

CONSTANTS r, a, b

MCPaths == {r, a, b}

MaxLines == (r :> 3) @@ (a :> 2) @@ (b :> 1)

MCDisks ==
  {d \in [MCPaths -> BoundedSeq(Line, 3) \cup {Unreadable}] :
     \A p \in MCPaths :
       IF d[p] = Unreadable THEN p # r ELSE Len(d[p]) <= MaxLines[p]}

=============================================================================
