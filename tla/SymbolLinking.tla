---------------------------- MODULE SymbolLinking ----------------------------
(***************************************************************************)
(* Which names the translation units of one build give their symbols, and  *)
(* what gcc then makes of them (src-c/src/codegen.c: mangle_name,          *)
(* gen_toplevel, uc_codegen_generate; src-c/src/main.c: scan_imports,      *)
(* run_build).  The imported units are compiled first, with skip_builtins, *)
(* then the main unit.  A source file is [imports, included, decls]: the   *)
(* #imports of its own text, those that an #include brought in, and its    *)
(* top-level declarations; the body of a function is the set of its calls. *)
(*                                                                         *)
(* A symbol is <<name>>, or <<module, name>> for @module$name.  llc and    *)
(* gcc are external and run without fault.  Of their rules, those on names *)
(* are here (LlcAccepts, Links), and the one on initialisers               *)
(* (InitialisersFit); what they ask of the body of a function is met:      *)
(* ExpressionExecution says when.                                          *)
(***************************************************************************)
EXTENDS ImportPaths, FiniteSets

CONSTANTS
  MaxImports,    \* UC_BUILD_MAX_IMPORTS
  Jobs,          \* builds: [cwd, main, program], the last whatever tells them apart
  FileSystem(_)  \* the files a build finds: a function from locations

VARIABLES
  job,        \* the build
  files,      \* its files
  unit,       \* the unit compiled: the imports in order, then the main one
  pc,         \* "open", "gen", "link", "built" or "failed"
  pos,        \* the next declaration of the unit
  items,      \* the symbols its output introduces so far
  refs,       \* the symbols its calls use: [call, sym]
  declared,   \* g->declared_externals
  objs        \* the units llc has accepted

vars == <<job, files, unit, pc, pos, items, refs, declared, objs>>

-----------------------------------------------------------------------------
(* run_build: the units and their files.  Locations are absolute.          *)

MainFile == files[Located(job.cwd, job.main)]
\* Imports beyond the size of the arrays are cut off, and the build goes on.
import_n == IF Len(MainFile.imports) > MaxImports THEN MaxImports ELSE Len(MainFile.imports)
MainUnit == import_n + 1
IsMain   == unit = MainUnit

\* The imports of the main file are compiled, no others: not those of an
\* #included text and not the imports of imports.
UnitPath(k) ==
  IF k = MainUnit THEN job.main ELSE path_join(path_dirname(job.main), MainFile.imports[k])
UnitLocation == Located(job.cwd, UnitPath(unit))
Opens == UnitPath(unit) # NoPath /\ UnitLocation \in DOMAIN files
File  == files[UnitLocation]

-----------------------------------------------------------------------------
(* Names.                                                                  *)

Functions == {"func", "export"}
Variables == {"global", "constant"}

\* Mutant: imported units fill it too.
LocalFuncsEverywhere == {d.name : d \in {e \in ToSet(File.decls) : e.is = "func"}}
\* Filled from plain definitions only, and only for the main unit.
local_funcs == IF IsMain THEN {d.name : d \in {e \in ToSet(File.decls) : e.is = "func"}} ELSE {}

imported_modules ==
  {extract_module_name(p) : p \in ToSet(File.imports) \cup ToSet(File.included)}

mangle_name(name, is_local) ==
  IF is_local /\ name # "main" THEN <<extract_module_name(UnitPath(unit)), name>> ELSE <<name>>

\* The symbols of the built-in forms.
RuntimeCalls ==
  [abs_int |-> {"uc_abs"}, move |-> {"uc_own_move"}, clone |-> {"clone"}, alloc |-> {"malloc"},
   free |-> {"free", "uc_free_mark"}, mod |-> {"uc_borrow_mod_enter"}, sys_write |-> {"write"}]

\* Mutant: a call through a module is mangled like a call by name.
SymbolsOfFieldMangled(c) ==
  IF c.is = "builtin" THEN {<<n>> : n \in RuntimeCalls[c.name]}
                      ELSE {mangle_name(c.name, c.name \in local_funcs)}
SymbolsOf(c) ==
  CASE c.is = "ident"   -> {mangle_name(c.name, c.name \in local_funcs)}
    [] c.is = "field"   -> {<<c.name>>}
    [] c.is = "builtin" -> {<<n>> : n \in RuntimeCalls[c.name]}

-----------------------------------------------------------------------------
(***************************************************************************)
(* A build starts with a main file that can be read; a parsed file is a    *)
(* list of declarations of the kinds gen_toplevel tells apart.             *)
(***************************************************************************)
Calls == [is : {"ident"}, name : STRING] \cup [is : {"field"}, module : STRING, name : STRING]
           \cup [is : {"builtin"}, name : DOMAIN RuntimeCalls]
Decls == [is : Functions, name : STRING, calls : SUBSET Calls]
           \cup [is : {"proto", "extern", "other"}, name : STRING]
           \cup [is : Variables, name : STRING, integer : BOOLEAN]  \* of an integer type

\* Who defines what no file does, and what is only declared.
Runtime == <<"the runtime">>
Libc    == <<"libc">>
Nobody  == << >>

ASSUME MaxImportsAssumption == MaxImports \in Nat
ASSUME FilesAssumption ==
  \A j \in Jobs :
    /\ j.cwd \in Seq(Names) /\ j.main \in Paths /\ j.main.segs # << >>
    /\ Located(j.cwd, j.main) \in DOMAIN FileSystem(j)
    /\ {Runtime, Libc} \cap DOMAIN FileSystem(j) = {}
    /\ \A l \in DOMAIN FileSystem(j) : /\ FileSystem(j)[l].imports \in Seq(Paths)
                                       /\ FileSystem(j)[l].decls \in Seq(Decls)

-----------------------------------------------------------------------------
(* Generated text.                                                         *)

Item(is, sym, of) == [is |-> is, sym |-> sym, of |-> of]

\* What get_builtins_decls and get_builtins_defs introduce.
HeaderDeclares == {"strlen", "write", "read", "malloc", "free"}
HeaderDefines  == {"uc_own_move", "uc_free_mark", "clone"}
DefinesAbs == \E d \in ToSet(File.decls) : d.is \in Functions /\ d.name = "uc_abs"
Builtins ==
  IF ~IsMain THEN {}
  ELSE {Item("declare", <<n>>, Nobody) : n \in HeaderDeclares}
         \cup {Item("define", <<n>>, <<Runtime, n>>) :
                 n \in HeaderDefines \cup (IF DefinesAbs THEN {} ELSE {"uc_abs"})}

-----------------------------------------------------------------------------
(* The tools.  A name may be introduced once in a unit and has to be to be *)
(* used; across units it may be defined once and has to be.                *)

LlcAccepts(header, text, used) ==
  /\ \A i, j \in DOMAIN text : text[i].sym = text[j].sym => i = j
  /\ \A h \in header : \A i \in (header \ {h}) \cup ToSet(text) : i.sym # h.sym
  /\ \A r \in used : \E i \in header \cup ToSet(text) : i.sym = r.sym

\* An integer initialises nothing else: not a pointer, not a float.
InitialisersFit(file) == \A d \in ToSet(file.decls) : d.is \in Variables => d.integer

\* A private constant is not visible to the linker.
Strong(obj)   == {i \in obj.items : i.is \in {"define", "global"}}
Defines(obj, sym) == \E i \in Strong(obj) : i.sym = sym
LibcSymbols   == {<<n>> : n \in HeaderDeclares \cup {"puts"}}

\* What a use of sym in obj reaches: its own symbol, or another unit's, or
\* the C library's.
Reached(obj, sym) ==
  LET own == {i \in obj.items : i.sym = sym /\ i.is # "declare"}
      far == UNION {{i \in Strong(o) : i.sym = sym} : o \in ToSet(objs)}
  IN  CASE own # {} -> {i.of : i \in own}
        [] own = {} /\ far # {} -> {i.of : i \in far}
        [] OTHER    -> IF sym \in LibcSymbols THEN {<<Libc, sym[1]>>} ELSE {}

Links ==
  /\ \A j, k \in DOMAIN objs : j # k => \A i \in Strong(objs[j]) : ~Defines(objs[k], i.sym)
  /\ \A o \in ToSet(objs) : \A r \in o.refs : Reached(o, r.sym) # {}
  /\ \E o \in ToSet(objs) : Defines(o, <<"main">>)

-----------------------------------------------------------------------------
Init ==
  /\ job \in Jobs /\ files = FileSystem(job)
  /\ unit = 1 /\ pc = "open" /\ pos = 1
  /\ items = << >> /\ refs = {} /\ declared = {} /\ objs = << >>

\* Mutant: the position of the last unit is kept.
OpenUnitKeepsPos ==
  /\ pc = "open"
  /\ pc' = IF Opens THEN "gen" ELSE "failed"
  /\ pos' = pos /\ items' = << >> /\ refs' = {} /\ declared' = {}
  /\ UNCHANGED <<job, files, unit, objs>>
\* generate_ir reads the file; a path that is NULL or has no file ends the
\* build.
OpenUnit ==
  /\ pc = "open"
  /\ pc' = IF Opens THEN "gen" ELSE "failed"
  /\ pos' = 1 /\ items' = << >> /\ refs' = {} /\ declared' = {}
  /\ UNCHANGED <<job, files, unit, objs>>

Decl == File.decls[pos]
Generating(kinds) == pc = "gen" /\ pos <= Len(File.decls) /\ Decl.is \in kinds

Emit(new) ==
  /\ items' = items \o new
  /\ pos' = pos + 1
  /\ UNCHANGED <<job, files, unit, pc, objs>>

\* gen_func, exported or not; a call through an imported module declares
\* its symbol, once in a unit.
GenFunc ==
  /\ Generating(Functions)
  /\ refs' = refs \cup UNION {{[call |-> c, sym |-> s] : s \in SymbolsOf(c)} : c \in Decl.calls}
  /\ declared' = declared \cup
       {<<c.name>> : c \in {d \in Decl.calls : d.is = "field" /\ d.module \in imported_modules}}
  /\ Emit(<<Item("define", mangle_name(Decl.name, Decl.name \in local_funcs),
                 <<UnitLocation, Decl.name>>)>>)

\* UC_TL_FUNC_DECL: the symbol is not mangled, whoever defines it.
GenFuncDecl ==
  /\ Generating({"proto"})
  /\ Emit(<<Item("declare", mangle_name(Decl.name, FALSE), Nobody)>>)
  /\ UNCHANGED <<refs, declared>>

\* UC_TL_EXTERN: what the header declares is left out, also in a unit that
\* has no header.
GenExtern ==
  /\ Generating({"extern"})
  /\ Emit(IF Decl.name \in HeaderDeclares THEN << >>
          ELSE <<Item("declare", mangle_name(Decl.name, FALSE), Nobody)>>)
  /\ UNCHANGED <<refs, declared>>

\* UC_TL_VAR_DECL and UC_TL_CONST_DECL: whatever the type, the initialiser is
\* the integer the source's is folded to, or 0.
GenGlobal ==
  /\ Generating(Variables)
  /\ Emit(<<Item(Decl.is, <<Decl.name>>, <<UnitLocation, Decl.name>>)>>)
  /\ UNCHANGED <<refs, declared>>

\* Structs, imports, and every export that is not of a function with body.
SkipDecl ==
  /\ Generating({"other"})
  /\ Emit(<< >>)
  /\ UNCHANGED <<refs, declared>>

\* The rest of uc_codegen_generate, then llc.
FinishUnit ==
  LET header == Builtins \cup {Item("declare", s, Nobody) : s \in declared}
  IN  /\ pc = "gen" /\ pos > Len(File.decls)
      /\ IF LlcAccepts(header, items, refs) /\ InitialisersFit(File) /\ \A b \in Builtins : b.sym \notin declared
         THEN /\ objs' = Append(objs, [file |-> UnitLocation, items |-> header \cup ToSet(items), refs |-> refs])
              /\ pc' = IF IsMain THEN "link" ELSE "open"
              /\ unit' = IF IsMain THEN unit ELSE unit + 1
         ELSE pc' = "failed" /\ UNCHANGED <<objs, unit>>
      /\ UNCHANGED <<job, files, pos, items, refs, declared>>

LinkUnits ==
  /\ pc = "link"
  /\ pc' = IF Links THEN "built" ELSE "failed"
  /\ UNCHANGED <<job, files, unit, pos, items, refs, declared, objs>>

Next ==
  \/ OpenUnit
  \/ GenFunc \/ GenFuncDecl \/ GenExtern \/ GenGlobal \/ SkipDecl
  \/ FinishUnit
  \/ LinkUnits

Spec == Init /\ [][Next]_vars

-----------------------------------------------------------------------------
(* What the source means.                                                  *)

Named(file, kinds) == {d.name : d \in {e \in ToSet(file.decls) : e.is \in kinds}}

\* The file an #import in the file at loc names.
Imported(loc, path) == Located(Front(loc), path)

\* abs_int is whoever provides uc_abs; no-one provides for mod.
RuntimeMeaning(n) ==
  CASE n = "uc_abs"          -> {<<l, n>> : l \in {Runtime} \cup DOMAIN files}
    [] n \in HeaderDeclares -> {<<Libc, n>>}
    [] n \in HeaderDefines  -> {<<Runtime, n>>}
    [] OTHER                -> {}

\* The definitions call r of the file at loc may mean; a call by name means
\* the file's own function, one through a module an exported function of
\* an imported file with that stem.
Meaning(loc, r) ==
  LET file == files[loc]
      c    == r.call
      from == {Imported(loc, p) : p \in {q \in ToSet(file.imports) \cup ToSet(file.included) :
                                           extract_module_name(q) = c.module}}
  IN  CASE c.is = "ident"      -> {<<loc, n>> : n \in {c.name} \cap Named(file, Functions)}
        [] c.is = "field"      -> {<<l, c.name>> : l \in {k \in from \cap DOMAIN files :
                                                   c.name \in Named(files[k], {"export"})}}
        [] c.is = "builtin"    -> RuntimeMeaning(r.sym[1])

ImportUnits == 1..(MainUnit - 1)
FileOf(k)   == files[Located(job.cwd, UnitPath(k))]
AllOpen     == \A k \in ImportUnits :
                 UnitPath(k) # NoPath /\ Located(job.cwd, UnitPath(k)) \in DOMAIN files

\* The names unit k gives to the linker unmangled.
Bare(k) ==
  Named(FileOf(k), {"export", "global"} \cup (IF k = MainUnit THEN {} ELSE {"func"}))
    \cup (Named(FileOf(k), Functions) \cap {"main"})

\* The names unit k finds in other units, and those it shall not define.
Foreign(k)  == UNION {Bare(j) : j \in (1..MainUnit) \ {k}}
Reserved    == HeaderDeclares \cup HeaderDefines \cup {"uc_abs"}

\* Call c of unit k finds what it means within the limits of the scheme.
Resolved(k, c) ==
  LET file == FileOf(k)
      ext  == Named(file, {"extern", "proto"})
  IN  \/ /\ c.is = "ident"
         /\ \/ c.name \in Named(file, Functions)
            \/ c.name \in ext \cap (Foreign(k) \cup {"puts"})
            \/ c.name \in ext \cap HeaderDeclares /\ k = MainUnit
      \/ /\ c.is = "field"
         /\ c.name \in Foreign(k) \ (ext \cup Named(file, {"constant"}))
         /\ c.module \in {extract_module_name(p) : p \in ToSet(file.imports) \cup ToSet(file.included)}
      \/ c.is = "builtin" /\ k = MainUnit /\ c.name # "mod"

\* Unit k has every name once and none of the runtime's, variables of integer
\* types, and finds what it calls.
WithinLimits(k) ==
  LET decls == FileOf(k).decls
      named == {i \in DOMAIN decls : decls[i].is # "other"}
  IN  /\ \A i, j \in named : decls[i].name = decls[j].name => i = j
      /\ InitialisersFit(FileOf(k))
      /\ Reserved \cap (Bare(k) \cup Named(FileOf(k), {"proto", "constant"})) = {}
      /\ Named(FileOf(k), {"extern"}) \cap Reserved \subseteq HeaderDeclares
      /\ k = MainUnit => ~("uc_abs" \in Named(FileOf(k), {"func"}))
      /\ \A d \in ToSet(decls) : d.is \in Functions => \A c \in d.calls : Resolved(k, c)

\* A program within the limits of the scheme: every import that is compiled has
\* its file, unmangled names are unique and not the runtime's, imported units
\* do without the runtime, global variables and constants are integers, and
\* what a unit calls is in a unit that is compiled (one whose #import was cut
\* off, or came with an #include, is not).
Modular ==
  /\ AllOpen
  /\ "main" \in Named(MainFile, Functions)
  /\ \A j, k \in 1..MainUnit : j # k => Bare(j) \cap Bare(k) = {}
  /\ \A k \in 1..MainUnit : WithinLimits(k)

-----------------------------------------------------------------------------
(***************************************************************************)
(* Properties.                                                             *)
(***************************************************************************)
Sources == DOMAIN files

TypeOK ==
  /\ pc \in {"open", "gen", "link", "built", "failed"}
  /\ unit \in 1..MainUnit
  /\ pos \in 1..(IF pc = "gen" THEN Len(File.decls) + 1 ELSE pos)
  /\ Len(objs) \in {unit - 1, unit}
  /\ \A o \in ToSet(objs) : o.file \in Sources

\* A program that was built calls the right functions: a call by name the
\* function of its own file, a call through a module one that an imported
\* file of that name exports (if that file was compiled), a built-in form
\* the runtime's or the C library's, whatever other units call theirs;
\* provided no imported file defines a name of the runtime or the C library
\* itself, which would replace theirs (mangle_name, gen_expr, run_build).
RuntimeUntouched ==
  \A k \in ImportUnits : Named(FileOf(k), Functions \cup Variables)
                           \cap (HeaderDeclares \cup HeaderDefines) = {}
CallsReachMeaning ==
  pc = "built" /\ RuntimeUntouched =>
    LET compiled == {o.file : o \in ToSet(objs)} \cup {Runtime, Libc} IN
    \A o \in ToSet(objs) : \A r \in o.refs :
      LET meant == {d \in Meaning(o.file, r) : d[1] \in compiled}
      IN  meant # {} => Reached(o, r.sym) \subseteq meant

\* No name and no initialiser keeps a modular program from being built: llc
\* finds every name introduced once in every unit and gcc every name defined
\* once across units, although plain functions of the main unit may be called
\* like those of imported ones (local_funcs, skip_builtins,
\* declared_externals).
ModularProgramsLink == Modular => pc # "failed"

\* The file opened for an #import is the one its path names, seen from the
\* directory of the main file, when that is given by names.  An import is
\* refused exactly when it climbs above the directory the compiler runs in;
\* from an absolute directory, all is well unless a ".." leads to the root,
\* which path_join forgets (path_dirname, path_join).
ImportsFound ==
  ~IsMain =>
    LET dir    == path_dirname(job.main)
        rel    == MainFile.imports[unit]
        start  == Located(job.cwd, dir)
        depth  == IF dir = Dot THEN 0 ELSE Len(dir.segs)
        right  == UnitPath(unit) # NoPath /\ UnitLocation = Located(start, rel)
        backAtRoot == \E n \in DOMAIN rel.segs :
                        rel.segs[n] = ".." /\ Located(start, Path(FALSE, SubSeq(rel.segs, 1, n))) = << >>
        refused    == ClimbsAbove(rel.segs, depth) /\ ~dir.root
    IN  \/ IF refused /\ ~rel.root THEN UnitPath(unit) = NoPath ELSE right
        \/ ~rel.root /\ dir # Dot /\ ToSet(dir.segs) \cap {".", ".."} # {}
        \/ ~rel.root /\ dir.root /\ backAtRoot

\* What is called through a module is a function that an imported file of that
\* name exports (9.4 and 9.5 of the language reference).
ExportsCalled ==
  pc = "built" =>
    \A o \in ToSet(objs) : \A r \in o.refs :
      r.call.is = "field" => Reached(o, r.sym) \subseteq Meaning(o.file, r)

\* The main unit is the only provider of the runtime's functions: the link
\* never fails because one of them is defined twice (the comment at
\* uc_codegen_generate).
SoleProvider ==
  \A j, k \in DOMAIN objs :
    j # k => \A i \in Strong(objs[j]) : i.of[1] = Runtime => ~Defines(objs[k], i.sym)
=============================================================================
