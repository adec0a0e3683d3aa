-------------------------- MODULE MCSymbolLinking ---------------------------
(***************************************************************************)
(* Builds for TLC: programs of a main file and one or two imported ones    *)
(* over few names, and one program under every combination of paths.       *)
(***************************************************************************)
EXTENDS SymbolLinking

Unit(imports, included, decls) == [imports |-> imports, included |-> included, decls |-> decls]
Ident(n)    == [is |-> "ident", name |-> n]
Field(m, n) == [is |-> "field", module |-> m, name |-> n]
Builtin(n)  == [is |-> "builtin", name |-> n]
Fn(is, n, calls) == [is |-> is, name |-> n, calls |-> calls]
Decl0(is, n)     == [is |-> is, name |-> n]
Var(is, n, int)  == [is |-> is, name |-> n, integer |-> int]

UpTo(S, n) == UNION {[1..k -> S] : k \in 0..n}

-----------------------------------------------------------------------------
(* Programs: main file p in /w, which imports m and perhaps n, out of      *)
(* numbered parts; the part 0 is none.                                     *)

MainCalls == << {Ident("f")}, {Ident("puts")}, {Field("m", "f")}, {Field("m", "g")},
                {Field("n", "f")}, {Builtin("abs_int")}, {Builtin("move")}, {Builtin("free")},
                {Builtin("mod")}, {Ident("f"), Field("m", "f")} >>
MainDecls == << Fn("func", "f", {}), Fn("func", "f", {Field("m", "f")}), Fn("export", "f", {}),
                Fn("export", "uc_abs", {}), Fn("func", "uc_abs", {}), Fn("func", "malloc", {}),
                Decl0("extern", "puts"), Decl0("extern", "f"), Decl0("proto", "f"),
                Var("global", "f", TRUE), Var("constant", "g", TRUE), Var("constant", "s", FALSE),
                Decl0("other", "s") >>
LibDecls  == << Fn("func", "f", {}), Fn("export", "f", {}), Fn("export", "g", {Ident("f")}),
                Fn("export", "g", {Field("n", "f")}), Fn("func", "g", {Builtin("abs_int")}),
                Fn("export", "g", {Builtin("alloc")}), Fn("export", "uc_abs", {}),
                Fn("func", "malloc", {}), Fn("func", "main", {}), Decl0("extern", "malloc"),
                Decl0("extern", "f"), Var("global", "g", TRUE), Var("constant", "f", TRUE), Var("global", "p", FALSE) >>
SecondLibs == << <<Fn("export", "f", {})>>, <<Fn("export", "g", {})>> >>

M == Path(FALSE, <<"m">>)
N == Path(FALSE, <<"n">>)
B == Path(FALSE, <<"b">>)  \* there is no such file
Imports  == << <<M>>, <<M, N>>, <<M, M>>, << >>, <<N>>, <<M, N, B>> >>
Included == << << >>, << >>,   << >>,   <<M>>, <<M>>, << >> >>

Part(parts, i) == IF i = 0 THEN << >> ELSE <<parts[i]>>

\* The main file's calls, its other declaration, the imports, m's one or two
\* declarations, and n; an import of m, if there is none, is in an included
\* text.  Of three imports the last is one too many.
Programs ==
  LET main == (0..Len(MainCalls)) \X (0..Len(MainDecls))
      libs == 0..Len(LibDecls)
  IN  (main \X {1} \X (libs \X libs) \X {1})
        \cup (main \X {2} \X ({0} \X libs) \X (1..Len(SecondLibs)))
        \cup (main \X {3, 4, 5, 6} \X ({0} \X libs) \X {1})

MainText(m) ==
  <<Fn("func", "main", IF m[1] = 0 THEN {} ELSE MainCalls[m[1]])>> \o Part(MainDecls, m[2])
LibText(l)  == Part(LibDecls, l[1]) \o Part(LibDecls, l[2])

ProgramJobs == [cwd : {<<"w">>}, main : {Path(FALSE, <<"p">>)}, program : Programs]
ProgramFiles(p) ==
  (<<"w", "p">> :> Unit(Imports[p[2]], Included[p[2]], MainText(p[1]))) @@
  (<<"w", "m">> :> Unit(<<N>>, << >>, LibText(p[3]))) @@
  (<<"w", "n">> :> Unit(<< >>, << >>, SecondLibs[p[4]]))

-----------------------------------------------------------------------------
(* Paths: p and m at any place, the compiler started anywhere, and a file  *)
(* m in every directory; the program is the path p imports.                *)

Steps   == {"a", "b", ".", ".."}
PathJobs ==
  [cwd : {<< >>, <<"a">>, <<"a", "b">>},
   main : {Path(root, Append(segs, "p")) : root \in BOOLEAN, segs \in UpTo(Steps, 2)},
   program : {Path(FALSE, Append(segs, "m")) : segs \in UpTo(Steps, 3)}
               \cup {Path(TRUE, <<"m">>), Path(TRUE, <<"a", "m">>)}]
PathFiles(j) ==
  (Located(j.cwd, j.main) :> Unit(<<j.program>>, << >>, <<Fn("func", "main", {Field("m", "f")})>>)) @@
  [l \in {Append(d, "m") : d \in UpTo({"a", "b"}, 2)} |-> Unit(<< >>, << >>, <<Fn("export", "f", {})>>)]

MCNames == {"w", "p", "m", "n", "a", "b"}
MCJobs == ProgramJobs \cup PathJobs
MCFileSystem(j) == IF j.cwd = <<"w">> THEN ProgramFiles(j.program) ELSE PathFiles(j)

\* Two programs that call f of m: one whose m does not export it, and one where
\* the import of m was included and the module n has an f as well.
MCDisputed == {j \in ProgramJobs :
  \/ j.program = << <<3, 0>>, 1, <<0, 1>>, 1>>
  \/ j.program = << <<3, 0>>, 5, <<0, 2>>, 1>>}

\* Programs that import a library with a uc_abs, like lib/math.uc.
MCMathJobs == {j \in ProgramJobs : "uc_abs" \in {d.name : d \in ToSet(LibText(j.program[3]))}}
=============================================================================
