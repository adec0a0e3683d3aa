------------------------ MODULE SymbolLinkingProofs ------------------------
(***************************************************************************)
(* For every program, of any number of units: once the link succeeds,      *)
(* every call reaches a function its source means; and a program within    *)
(* the limits of the naming scheme is built.                               *)
(*                                                                         *)
(* The units do not see each other while they are compiled; what they      *)
(* agree on is how a file and its role give its functions symbols.  The    *)
(* invariant says of every object, and of the unit in work, which symbols  *)
(* it introduces and uses, in terms of its source alone.                   *)
(***************************************************************************)
EXTENDS SymbolLinking, SequenceTheorems, SetInduction, TLAPS

-----------------------------------------------------------------------------
(***************************************************************************)
(* The symbols of unit k.                                                  *)
(***************************************************************************)
Loc(k)    == Located(job.cwd, UnitPath(k))
Module(k) == extract_module_name(UnitPath(k))
Locals(k) ==
  IF k = MainUnit THEN {d.name : d \in {e \in ToSet(FileOf(k).decls) : e.is = "func"}} ELSE {}
Symbol(k, name) == IF name \in Locals(k) /\ name # "main" THEN <<Module(k), name>> ELSE <<name>>
Modules(k) ==
  {extract_module_name(p) : p \in ToSet(FileOf(k).imports) \cup ToSet(FileOf(k).included)}
Uses(k, c) ==
  CASE c.is = "ident"   -> {Symbol(k, c.name)}
    [] c.is = "field"   -> {<<c.name>>}
    [] c.is = "builtin" -> {<<n>> : n \in RuntimeCalls[c.name]}

Declaration(name) == Item("declare", <<name>>, Nobody)
Definition(k, d)  == Item("define", Symbol(k, d.name), <<Loc(k), d.name>>)
Shim(name)        == Item("define", <<name>>, <<Runtime, name>>)

\* What an item of unit k can be, other than a declaration.
FromText(k, i) ==
  \E d \in ToSet(FileOf(k).decls) :
    /\ d.is \in Functions \cup Variables
    /\ i.of = <<Loc(k), d.name>>
    /\ i.sym = <<d.name>> \/ (k = MainUnit /\ i.sym = <<Module(k), d.name>>)
FromHeader(k, i) == k = MainUnit /\ \E name \in HeaderDefines \cup {"uc_abs"} : i = Shim(name)

\* Uses of unit k; a call through an imported module has its declaration.
RefOK(k, r, declares) ==
  /\ r.call \in Calls
  /\ r.sym \in Uses(k, r.call)
  /\ r.call.is = "field" /\ r.call.module \in Modules(k) => <<r.call.name>> \in declares

(***************************************************************************)
(* The invariant.                                                          *)
(***************************************************************************)
IsSeq(s) == s \in Seq(ToSet(s))

ObjectOK(k, o) ==
  /\ o.file = Loc(k) /\ Loc(k) \in DOMAIN files
  /\ \A i, j \in o.items : i.sym = j.sym => i = j
  /\ \A i \in o.items : i.is = "declare" \/ FromText(k, i) \/ FromHeader(k, i)
  /\ k = MainUnit => /\ \A name \in HeaderDeclares : Declaration(name) \in o.items
                     /\ \A name \in HeaderDefines : Shim(name) \in o.items
  /\ \A d \in ToSet(FileOf(k).decls) : d.is \in Functions => Definition(k, d) \in o.items
  /\ \A d, e \in ToSet(FileOf(k).decls) :
       d.is \in Functions /\ e.is \in Functions /\ d.name = e.name => d = e
  /\ \A r \in o.refs : RefOK(k, r, {i.sym : i \in {j \in o.items : j.is = "declare"}})

Text == FileOf(unit).decls
\* Two functions of the unit have the same name: their symbol is there twice.
SameFunction(n, m) ==
  /\ n # m /\ Text[n].name = Text[m].name
  /\ Text[n].is \in Functions /\ Text[m].is \in Functions
Twice(text) == \E i, j \in DOMAIN text : i # j /\ text[i].sym = text[j].sym
UnitOK ==
  /\ Loc(unit) \in DOMAIN files
  /\ pos \in 1..(Len(Text) + 1)
  /\ IsSeq(items)
  /\ \A i \in ToSet(items) : i.is = "declare" \/ FromText(unit, i)
  /\ \A n \in 1..(pos - 1) : Text[n].is \in Functions => Definition(unit, Text[n]) \in ToSet(items)
  /\ \A n, m \in 1..(pos - 1) : SameFunction(n, m) => Twice(items)
  /\ \A r \in refs : RefOK(unit, r, declared)

IInv ==
  /\ job \in Jobs /\ files = FileSystem(job)
  /\ unit \in 1..MainUnit /\ pos \in Nat \ {0}
  /\ pc \in {"open", "gen", "link", "built", "failed"}
  /\ IsSeq(objs) /\ Len(objs) \in {unit - 1, unit}
  /\ pc \in {"open", "gen"} => Len(objs) = unit - 1
  /\ pc \in {"link", "built"} => Len(objs) = MainUnit
  /\ \A k \in 1..Len(objs) : ObjectOK(k, objs[k])
  /\ pc = "gen" => UnitOK
  /\ pc = "built" => Links

-----------------------------------------------------------------------------
(***************************************************************************)
(* Sequences, and what does not change.                                    *)
(***************************************************************************)
LEMMA OwnElements ==
  ASSUME NEW S, NEW s \in Seq(S)
  PROVE  IsSeq(s)
<1>1. Len(s) \in Nat /\ DOMAIN s = 1..Len(s)
  OBVIOUS
<1>2. \A k \in 1..Len(s) : s[k] \in ToSet(s)
  BY <1>1 DEF ToSet
<1>3. s \in Seq(ToSet(s))
  BY <1>1, <1>2
<1> QED BY <1>3 DEF IsSeq

LEMMA Appended ==
  ASSUME NEW s, NEW e, IsSeq(s)
  PROVE  /\ IsSeq(Append(s, e)) /\ Len(s) \in Nat
         /\ Len(Append(s, e)) = Len(s) + 1
         /\ \A k \in 1..Len(s) : Append(s, e)[k] = s[k]
         /\ Append(s, e)[Len(s) + 1] = e
<1> DEFINE S == ToSet(s) \cup {e}
           t == Append(s, e)
<1>1. s \in Seq(S) /\ e \in S
  BY DEF IsSeq
<1>2. /\ t \in Seq(S) /\ Len(s) \in Nat /\ Len(t) = Len(s) + 1
      /\ \A k \in 1..Len(s) : t[k] = s[k]
      /\ t[Len(s) + 1] = e
  BY <1>1
<1> HIDE DEF S
<1>3. IsSeq(t)
  BY <1>2, OwnElements
<1> QED BY <1>2, <1>3

LEMMA Joined ==
  ASSUME NEW s, NEW t, IsSeq(s), IsSeq(t)
  PROVE  /\ IsSeq(s \o t) /\ ToSet(s \o t) = ToSet(s) \cup ToSet(t)
         /\ \A i \in DOMAIN s : i \in DOMAIN (s \o t) /\ (s \o t)[i] = s[i]
         /\ \A e \in ToSet(t) : \E i \in DOMAIN (s \o t) : i \notin DOMAIN s /\ (s \o t)[i] = e
<1> DEFINE S == ToSet(s) \cup ToSet(t)
           u == s \o t
<1>1. s \in Seq(S) /\ t \in Seq(S)
  BY DEF IsSeq
<1>2. /\ u \in Seq(S) /\ Len(s) \in Nat /\ Len(t) \in Nat /\ Len(u) = Len(s) + Len(t)
      /\ \A k \in 1..Len(s) : u[k] = s[k]
      /\ \A k \in 1..Len(t) : u[Len(s) + k] = t[k]
  BY <1>1
<1>3. IsSeq(u)
  <2> HIDE DEF S, u
  <2> QED BY <1>2, OwnElements
<1>4. ToSet(u) \subseteq S
  BY <1>2 DEF ToSet
<1>5. ToSet(s) \subseteq ToSet(u)
  <2>1. DOMAIN s = 1..Len(s) /\ DOMAIN u = 1..Len(u)
    BY <1>1, <1>2
  <2> QED BY <1>2, <2>1 DEF ToSet
<1>6. ToSet(t) \subseteq ToSet(u)
  <2>1. DOMAIN t = 1..Len(t) /\ DOMAIN u = 1..Len(u)
    BY <1>1, <1>2
  <2>2. \A k \in 1..Len(t) : Len(s) + k \in 1..Len(u)
    BY <1>2
  <2> QED BY <1>2, <2>1, <2>2 DEF ToSet
<1>7. DOMAIN s = 1..Len(s) /\ DOMAIN t = 1..Len(t) /\ DOMAIN u = 1..Len(u)
  BY <1>1, <1>2
<1>8. \A i \in DOMAIN s : i \in DOMAIN u /\ u[i] = s[i]
  BY <1>2, <1>7
<1>9. ASSUME NEW e \in ToSet(t) PROVE \E i \in DOMAIN u : i \notin DOMAIN s /\ u[i] = e
  <2>1. PICK k \in 1..Len(t) : e = t[k]
    BY <1>7 DEF ToSet
  <2>2. Len(s) + k \in DOMAIN u /\ Len(s) + k \notin DOMAIN s /\ u[Len(s) + k] = e
    BY <1>2, <1>7, <2>1
  <2> QED BY <2>2
<1> QED BY <1>3, <1>4, <1>5, <1>6, <1>8, <1>9

LEMMA ShortSeqs ==
  /\ IsSeq(<< >>) /\ ToSet(<< >>) = {}
  /\ \A e : IsSeq(<<e>>) /\ ToSet(<<e>>) = {e}
<1>1. IsSeq(<< >>) /\ ToSet(<< >>) = {}
  <2>1. DOMAIN << >> = {} /\ \A S : << >> \in Seq(S)
    OBVIOUS
  <2> QED BY <2>1 DEF IsSeq, ToSet
<1>2. ASSUME NEW e PROVE IsSeq(<<e>>) /\ ToSet(<<e>>) = {e}
  <2>1. <<e>> \in Seq({e}) /\ Len(<<e>>) = 1 /\ <<e>>[1] = e
    OBVIOUS
  <2>2. ToSet(<<e>>) = {e}
    BY <2>1 DEF ToSet
  <2> QED BY <2>1, <2>2 DEF IsSeq
<1> QED BY <1>1, <1>2

\* The build and its files stay as they are, and with them all that is said
\* of units and objects.
LEMMA SameFiles ==
  ASSUME job' = job, files' = files
  PROVE  /\ MainUnit' = MainUnit
         /\ \A k : /\ Loc(k)' = Loc(k) /\ FileOf(k)' = FileOf(k) /\ UnitPath(k)' = UnitPath(k)
                   /\ Module(k)' = Module(k) /\ Locals(k)' = Locals(k) /\ Modules(k)' = Modules(k)
BY DEF MainUnit, import_n, MainFile, Loc, FileOf, UnitPath, Module, Locals, Modules

LEMMA SameNames ==
  ASSUME job' = job, files' = files
  PROVE  /\ \A k, name : Symbol(k, name)' = Symbol(k, name)
         /\ \A k, d : Definition(k, d)' = Definition(k, d)
         /\ \A k, c : Uses(k, c)' = Uses(k, c)
         /\ \A k, i : FromText(k, i)' = FromText(k, i)
         /\ \A k, i : FromHeader(k, i)' = FromHeader(k, i)
         /\ \A k, r, s : RefOK(k, r, s)' = RefOK(k, r, s)
<1>1. \A k, name : Symbol(k, name)' = Symbol(k, name)
  BY SameFiles DEF Symbol
<1>2. \A k, d : Definition(k, d)' = Definition(k, d)
  BY SameFiles, <1>1 DEF Definition
<1>3. \A k, c : Uses(k, c)' = Uses(k, c)
  BY <1>1 DEF Uses
<1>4. \A k, i : FromText(k, i)' = FromText(k, i)
  BY SameFiles DEF FromText
<1>5. \A k, i : FromHeader(k, i)' = FromHeader(k, i)
  BY SameFiles DEF FromHeader
<1>6. \A k, r, s : RefOK(k, r, s)' = RefOK(k, r, s)
  BY SameFiles, <1>3 DEF RefOK
<1> QED BY <1>1, <1>2, <1>3, <1>4, <1>5, <1>6

LEMMA SameObjects ==
  ASSUME job' = job, files' = files
  PROVE  \A k, o : ObjectOK(k, o)' = ObjectOK(k, o)
BY SameFiles, SameNames DEF ObjectOK

LEMMA SameUnit ==
  ASSUME UNCHANGED <<job, files, unit, pos, items, refs, declared>>
  PROVE  UnitOK' = UnitOK
BY SameFiles, SameNames DEF UnitOK, Text, SameFunction, Twice

LEMMA SameLinks == UNCHANGED objs => Links' = Links
BY DEF Links, Reached, Strong, Defines

-----------------------------------------------------------------------------
(***************************************************************************)
(* The generator's names are those of the unit in work.                    *)
(***************************************************************************)
LEMMA ThisUnit ==
  /\ UnitLocation = Loc(unit) /\ File = FileOf(unit) /\ File.decls = Text
  /\ IsMain <=> unit = MainUnit
  /\ \A name : mangle_name(name, name \in local_funcs) = Symbol(unit, name)
  /\ \A name : mangle_name(name, FALSE) = <<name>>
  /\ \A c : SymbolsOf(c) = Uses(unit, c)
  /\ imported_modules = Modules(unit)
<1>1. /\ UnitLocation = Loc(unit) /\ File = FileOf(unit) /\ File.decls = Text
      /\ IsMain <=> unit = MainUnit
      /\ imported_modules = Modules(unit)
  BY DEF UnitLocation, Loc, File, FileOf, Text, IsMain, imported_modules, Modules
<1>2. local_funcs = Locals(unit)
  BY <1>1 DEF local_funcs, Locals
<1>3. \A name : /\ mangle_name(name, name \in local_funcs) = Symbol(unit, name)
                /\ mangle_name(name, FALSE) = <<name>>
  BY <1>2 DEF mangle_name, Symbol, Module
<1>4. \A c : SymbolsOf(c) = Uses(unit, c)
  BY <1>3 DEF SymbolsOf, Uses
<1> QED BY <1>1, <1>3, <1>4

LEMMA Parsed ==
  ASSUME IInv, NEW k, Loc(k) \in DOMAIN files
  PROVE  /\ FileOf(k).decls \in Seq(Decls)
         /\ DOMAIN FileOf(k).decls = 1..Len(FileOf(k).decls) /\ Len(FileOf(k).decls) \in Nat
<1>1. FileOf(k).decls \in Seq(Decls)
  BY FilesAssumption DEF IInv, FileOf, Loc
<1> QED BY <1>1

\* Every unit but the main one is an import of the main file.
LEMMA Compiling ==
  ASSUME job \in Jobs, files = FileSystem(job)
  PROVE  MainUnit \in Nat \ {0} /\ MainUnit - 1 <= Len(MainFile.imports) /\ Len(MainFile.imports) \in Nat
<1>1. MainFile.imports \in Seq(Paths)
  BY FilesAssumption DEF MainFile
<1>2. Len(MainFile.imports) \in Nat
  BY <1>1
<1> QED BY <1>2, MaxImportsAssumption DEF MainUnit, import_n

LEMMA Units == IInv => MainUnit \in Nat
BY Compiling DEF IInv

-----------------------------------------------------------------------------
(***************************************************************************)
(* The steps.                                                              *)
(***************************************************************************)
LEMMA InitIInv == Init => IInv
<1> SUFFICES ASSUME Init PROVE IInv
  OBVIOUS
<1>1. job \in Jobs /\ files = FileSystem(job)
  BY DEF Init
<1>2. 1 \in 1..MainUnit
  BY <1>1, Compiling
<1>3. IsSeq(objs) /\ Len(objs) = 0
  BY ShortSeqs DEF Init
<1> QED BY <1>1, <1>2, <1>3 DEF Init, IInv

LEMMA OpenUnitStep == IInv /\ OpenUnit => IInv'
<1> SUFFICES ASSUME IInv, OpenUnit PROVE IInv'
  OBVIOUS
<1>1. UNCHANGED <<job, files, unit, objs>> /\ pc = "open" /\ pc' \in {"gen", "failed"} /\ pos' = 1
  BY DEF OpenUnit
<1>2. pc' = "gen" => UnitOK'
  <2> SUFFICES ASSUME pc' = "gen" PROVE UnitOK'
    OBVIOUS
  <2>1. Loc(unit) \in DOMAIN files
    BY DEF OpenUnit, Opens, UnitLocation, Loc
  <2>2. /\ pos' = 1 /\ items' = << >> /\ refs' = {} /\ declared' = {}
    BY DEF OpenUnit
  <2>3. Len(Text) \in Nat
    BY <2>1, Parsed DEF Text
  <2>4. Text' = Text /\ Loc(unit)' = Loc(unit)
    BY <1>1, SameFiles DEF Text, Loc, UnitPath
  <2> QED BY <1>1, <2>1, <2>2, <2>3, <2>4, ShortSeqs DEF UnitOK
<1>3. \A k \in 1..Len(objs) : ObjectOK(k, objs[k])'
  BY <1>1, SameObjects DEF IInv
<1> QED BY <1>1, <1>2, <1>3, SameFiles DEF IInv

\* A declaration adds to the text.
LEMMA GenStep ==
  ASSUME IInv, pc = "gen", pos <= Len(Text),
         UNCHANGED <<job, files, unit, pc, objs>>, pos' = pos + 1,
         NEW new, IsSeq(new), items' = items \o new,
         \A i \in ToSet(new) : i.is = "declare" \/ FromText(unit, i),
         Text[pos].is \in Functions => Definition(unit, Text[pos]) \in ToSet(new),
         \A r \in refs' : RefOK(unit, r, declared')
  PROVE  IInv'
<1>1. UnitOK
  BY DEF IInv
<1>2. IsSeq(items') /\ ToSet(items') = ToSet(items) \cup ToSet(new)
  BY <1>1, Joined DEF UnitOK
<1>3. Text' = Text /\ Loc(unit)' = Loc(unit) /\ Len(Text) \in Nat
  BY <1>1, SameFiles, Parsed DEF Text, UnitOK, FileOf, Loc, UnitPath, MainFile, MainUnit, import_n
<1>4. \A i \in ToSet(items') : i.is = "declare" \/ FromText(unit, i)
  BY <1>1, <1>2 DEF UnitOK
<1>5. \A n \in 1..(pos' - 1) : Text[n].is \in Functions => Definition(unit, Text[n]) \in ToSet(items')
  <2> SUFFICES ASSUME NEW n \in 1..(pos' - 1), Text[n].is \in Functions
               PROVE  Definition(unit, Text[n]) \in ToSet(items')
    OBVIOUS
  <2>1. n \in 1..(pos - 1) \/ n = pos
    BY <1>1 DEF UnitOK
  <2> QED BY <1>1, <1>2, <2>1 DEF UnitOK
<1>6. \A n : Definition(unit, Text[n])' = Definition(unit, Text[n])
  BY <1>3, SameNames
<1>7. \A i : FromText(unit, i)' = FromText(unit, i)
  BY SameNames
<1>8. \A n, m \in 1..(pos' - 1) : SameFunction(n, m) => Twice(items')
  <2>1. \A i \in DOMAIN items : i \in DOMAIN items' /\ items'[i] = items[i]
    BY <1>1, Joined DEF UnitOK
  <2>2. Twice(items) => Twice(items')
    BY <2>1 DEF Twice
  <2>3. ASSUME NEW n \in 1..(pos - 1), SameFunction(n, pos) PROVE Twice(items')
    <3>1. /\ Definition(unit, Text[n]) \in ToSet(items)
          /\ Definition(unit, Text[pos]) \in ToSet(new)
      BY <1>1, <2>3 DEF UnitOK, SameFunction
    <3>2. Definition(unit, Text[n]).sym = Definition(unit, Text[pos]).sym
      BY <2>3 DEF SameFunction, Definition, Item
    <3>3. PICK i \in DOMAIN items : items[i] = Definition(unit, Text[n])
      BY <3>1 DEF ToSet
    <3>4. \A e \in ToSet(new) : \E j \in DOMAIN (items \o new) : j \notin DOMAIN items /\ (items \o new)[j] = e
      <4>1. IsSeq(items)
        BY <1>1 DEF UnitOK
      <4> QED BY <4>1, Joined
    <3>5. PICK j \in DOMAIN items' : j \notin DOMAIN items /\ items'[j] = Definition(unit, Text[pos])
      BY <3>1, <3>4
    <3> QED BY <2>1, <3>2, <3>3, <3>5 DEF Twice
  <2> SUFFICES ASSUME NEW n \in 1..(pos' - 1), NEW m \in 1..(pos' - 1), SameFunction(n, m)
               PROVE  Twice(items')
    OBVIOUS
  <2>4. /\ n \in 1..(pos - 1) \/ n = pos
        /\ m \in 1..(pos - 1) \/ m = pos
        /\ n # m
    BY <1>1 DEF UnitOK, SameFunction
  <2>5. SameFunction(m, n)
    BY DEF SameFunction
  <2> QED BY <1>1, <2>2, <2>3, <2>4, <2>5 DEF UnitOK
<1>9. \A n, m : SameFunction(n, m)' = SameFunction(n, m)
  BY <1>3 DEF SameFunction
<1>10. Twice(items)' = Twice(items')
  BY DEF Twice
<1>11. UnitOK'
  BY <1>1, <1>2, <1>3, <1>4, <1>5, <1>6, <1>7, <1>8, <1>9, <1>10, SameNames DEF UnitOK
<1>12. \A k \in 1..Len(objs) : ObjectOK(k, objs[k])'
  BY SameObjects DEF IInv
<1> QED BY <1>11, <1>12, SameFiles DEF IInv

LEMMA Generated ==
  ASSUME IInv, NEW kinds, Generating(kinds)
  PROVE  /\ pc = "gen" /\ pos \in 1..Len(Text) /\ Decl = Text[pos]
         /\ Decl \in ToSet(FileOf(unit).decls) /\ Decl.is \in kinds
         /\ Decl.is \in Functions => Decl.calls \subseteq Calls
         /\ \A r \in refs : RefOK(unit, r, declared)
<1>1. UnitOK
  BY DEF IInv, Generating
<1>2. DOMAIN FileOf(unit).decls = 1..Len(FileOf(unit).decls)
  BY <1>1, Parsed DEF UnitOK
<1>3. pc = "gen" /\ pos \in 1..Len(Text) /\ Decl = Text[pos] /\ Decl.is \in kinds
  BY <1>1, <1>2, ThisUnit DEF Generating, Decl, UnitOK, Text
<1>4. Decl \in Decls
  BY <1>1, <1>2, <1>3, Parsed DEF UnitOK, Text
<1>5. Decl.is \in Functions => Decl.calls \subseteq Calls
  BY <1>4 DEF Decls, Functions, Variables
<1> QED BY <1>1, <1>2, <1>3, <1>5 DEF UnitOK, Text, ToSet

LEMMA GenFuncStep == IInv /\ GenFunc => IInv'
<1> SUFFICES ASSUME IInv, GenFunc PROVE IInv'
  OBVIOUS
<1> DEFINE def == Definition(unit, Decl)
<1>1. /\ pc = "gen" /\ pos \in 1..Len(Text) /\ Decl = Text[pos]
      /\ Decl \in ToSet(FileOf(unit).decls) /\ Decl.is \in Functions
      /\ Decl.calls \subseteq Calls
      /\ \A r \in refs : RefOK(unit, r, declared)
  BY Generated DEF GenFunc
<1>2. /\ UNCHANGED <<job, files, unit, pc, objs>> /\ pos' = pos + 1
      /\ items' = items \o <<def>>
  BY ThisUnit DEF GenFunc, Emit, Definition
<1>3. FromText(unit, def)
  <2>1. def.of = <<Loc(unit), Decl.name>> /\ def.sym = Symbol(unit, Decl.name)
    BY DEF Definition, Item
  <2>2. def.sym = <<Decl.name>> \/ (unit = MainUnit /\ def.sym = <<Module(unit), Decl.name>>)
    BY <2>1 DEF Symbol, Locals
  <2> QED BY <1>1, <2>1, <2>2 DEF FromText
<1>4. \A r \in refs' : RefOK(unit, r, declared')
  <2>1. declared \subseteq declared'
    BY DEF GenFunc
  <2>2. \A r \in refs : RefOK(unit, r, declared')
    BY <1>1, <2>1 DEF RefOK
  <2>3. ASSUME NEW c \in Decl.calls, NEW sym \in SymbolsOf(c)
        PROVE  RefOK(unit, [call |-> c, sym |-> sym], declared')
    <3>1. sym \in Uses(unit, c)
      BY <2>3, ThisUnit
    <3>2. c.is = "field" /\ c.module \in Modules(unit) => <<c.name>> \in declared'
      BY <2>3, ThisUnit DEF GenFunc
    <3> QED BY <1>1, <3>1, <3>2 DEF RefOK
  <2>4. refs' = refs \cup UNION {{[call |-> c, sym |-> sym] : sym \in SymbolsOf(c)} : c \in Decl.calls}
    BY DEF GenFunc
  <2>5. ASSUME NEW r \in refs', r \notin refs PROVE RefOK(unit, r, declared')
    <3>1. PICK c \in Decl.calls : r \in {[call |-> c, sym |-> sym] : sym \in SymbolsOf(c)}
      BY <2>4, <2>5
    <3>2. PICK sym \in SymbolsOf(c) : r = [call |-> c, sym |-> sym]
      BY <3>1
    <3>3. RefOK(unit, [call |-> c, sym |-> sym], declared')
      BY <2>3
    <3> QED BY <3>2, <3>3
  <2> QED BY <2>2, <2>5
<1>5. IsSeq(<<def>>) /\ ToSet(<<def>>) = {def}
  BY ShortSeqs
<1>6. Definition(unit, Text[pos]) \in ToSet(<<def>>)
  BY <1>1, <1>5
<1>7. \A i \in ToSet(<<def>>) : i.is = "declare" \/ FromText(unit, i)
  BY <1>3, <1>5
<1>8. pos <= Len(Text)
  BY <1>1
<1> HIDE DEF def
<1> QED BY <1>1, <1>2, <1>4, <1>5, <1>6, <1>7, <1>8, GenStep

\* The declarations that are not of functions use nothing.
LEMMA GenOther ==
  ASSUME IInv, NEW kinds, Generating(kinds), kinds \cap Functions = {}, UNCHANGED <<refs, declared>>,
         NEW new, IsSeq(new), Emit(new), \A i \in ToSet(new) : i.is = "declare" \/ FromText(unit, i)
  PROVE  IInv'
<1>1. /\ pc = "gen" /\ pos \in 1..Len(Text) /\ ~(Text[pos].is \in Functions)
      /\ \A r \in refs : RefOK(unit, r, declared)
  BY Generated
<1> QED BY <1>1, GenStep DEF Emit

LEMMA GenFuncDeclStep == IInv /\ GenFuncDecl => IInv'
<1> SUFFICES ASSUME IInv, GenFuncDecl PROVE IInv'
  OBVIOUS
<1> DEFINE item == Item("declare", mangle_name(Decl.name, FALSE), Nobody)
<1>1. Generating({"proto"}) /\ Emit(<<item>>) /\ UNCHANGED <<refs, declared>>
  BY DEF GenFuncDecl
<1>2. item.is = "declare" /\ {"proto"} \cap Functions = {}
  BY DEF Item, Functions
<1> QED BY <1>1, <1>2, GenOther, ShortSeqs

LEMMA GenExternStep == IInv /\ GenExtern => IInv'
<1> SUFFICES ASSUME IInv, GenExtern PROVE IInv'
  OBVIOUS
<1> DEFINE item == Item("declare", mangle_name(Decl.name, FALSE), Nobody)
<1>1. Generating({"extern"}) /\ (Emit(<< >>) \/ Emit(<<item>>)) /\ UNCHANGED <<refs, declared>>
  BY DEF GenExtern
<1>2. item.is = "declare" /\ {"extern"} \cap Functions = {}
  BY DEF Item, Functions
<1> QED BY <1>1, <1>2, GenOther, ShortSeqs

LEMMA GenGlobalStep == IInv /\ GenGlobal => IInv'
<1> SUFFICES ASSUME IInv, GenGlobal PROVE IInv'
  OBVIOUS
<1> DEFINE item  == Item(Decl.is, <<Decl.name>>, <<UnitLocation, Decl.name>>)
           kinds == Variables
<1>1. Generating(kinds) /\ Emit(<<item>>) /\ UNCHANGED <<refs, declared>>
  BY DEF GenGlobal
<1>2. Decl \in ToSet(FileOf(unit).decls) /\ Decl.is \in kinds
  BY <1>1, Generated
<1>3. item.of = <<Loc(unit), Decl.name>> /\ item.sym = <<Decl.name>>
  BY ThisUnit DEF Item
<1>4. FromText(unit, item)
  BY <1>2, <1>3 DEF FromText
<1>5. kinds \cap Functions = {}
  BY DEF Functions, Variables
<1> QED BY <1>1, <1>4, <1>5, GenOther, ShortSeqs

LEMMA SkipDeclStep == IInv /\ SkipDecl => IInv'
<1> SUFFICES ASSUME IInv, SkipDecl PROVE IInv'
  OBVIOUS
<1>1. {"other"} \cap Functions = {}
  BY DEF Functions
<1> QED BY <1>1, GenOther, ShortSeqs DEF SkipDecl

LEMMA FinishUnitStep == IInv /\ FinishUnit => IInv'
<1> SUFFICES ASSUME IInv, FinishUnit PROVE IInv'
  OBVIOUS
<1> DEFINE externs == {Item("declare", s, Nobody) : s \in declared}
           header  == Builtins \cup externs
           obj     == [file |-> UnitLocation, items |-> header \cup ToSet(items), refs |-> refs]
<1>1. /\ pc = "gen" /\ pos > Len(Text) /\ UnitOK
      /\ UNCHANGED <<job, files, pos>>
  BY ThisUnit DEF FinishUnit, IInv
<1>2. CASE pc' = "failed"
  <2>1. UNCHANGED <<objs, unit>>
    BY <1>2 DEF FinishUnit
  <2>2. \A k \in 1..Len(objs) : ObjectOK(k, objs[k])'
    BY <1>1, <2>1, SameObjects DEF IInv
  <2> QED BY <1>1, <1>2, <2>1, <2>2, SameFiles DEF IInv
<1>3. CASE pc' # "failed"
  <2>1. /\ LlcAccepts(header, items, refs)
        /\ objs' = Append(objs, obj)
        /\ pc' = IF IsMain THEN "link" ELSE "open"
        /\ unit' = IF IsMain THEN unit ELSE unit + 1
    BY <1>3 DEF FinishUnit
  <2>2. /\ obj.file = Loc(unit) /\ obj.items = header \cup ToSet(items) /\ obj.refs = refs
    BY ThisUnit
  <2>3. \A i, j \in obj.items : i.sym = j.sym => i = j
    <3>1. \A h \in header : \A i \in (header \ {h}) \cup ToSet(items) : i.sym # h.sym
      BY <2>1 DEF LlcAccepts
    <3>2. \A i, j \in ToSet(items) : i.sym = j.sym => i = j
      BY <2>1 DEF LlcAccepts, ToSet
    <3> QED BY <2>2, <3>1, <3>2
  <2>4. \A i \in Builtins : /\ unit = MainUnit
                            /\ i.is = "declare" \/ FromHeader(unit, i)
    BY ThisUnit DEF Builtins, FromHeader, Shim, Item
  <2>5. \A i \in externs : i.is = "declare"
    BY DEF Item
  <2>6. \A i \in obj.items : i.is = "declare" \/ FromText(unit, i) \/ FromHeader(unit, i)
    BY <1>1, <2>2, <2>4, <2>5 DEF UnitOK
  <2>7. unit = MainUnit => /\ \A name \in HeaderDeclares : Declaration(name) \in obj.items
                           /\ \A name \in HeaderDefines : Shim(name) \in obj.items
    BY <2>2, ThisUnit DEF Builtins, Declaration, Shim
  <2>8. \A d \in ToSet(FileOf(unit).decls) : d.is \in Functions => Definition(unit, d) \in obj.items
    <3> SUFFICES ASSUME NEW d \in ToSet(FileOf(unit).decls), d.is \in Functions
                 PROVE  Definition(unit, d) \in obj.items
      OBVIOUS
    <3>1. DOMAIN Text = 1..Len(Text) /\ Len(Text) \in Nat
      BY <1>1, Parsed DEF UnitOK, Text
    <3>2. PICK n \in 1..Len(Text) : d = Text[n]
      BY <3>1 DEF Text, ToSet
    <3>3. n \in 1..(pos - 1)
      BY <1>1, <3>1 DEF UnitOK
    <3> QED BY <1>1, <2>2, <3>2, <3>3 DEF UnitOK
  <2>9. \A r \in obj.refs : RefOK(unit, r, {i.sym : i \in {j \in obj.items : j.is = "declare"}})
    <3>1. ASSUME NEW s \in declared PROVE s \in {i.sym : i \in {j \in obj.items : j.is = "declare"}}
      <4>1. Item("declare", s, Nobody) \in obj.items
        BY <2>2
      <4>2. Item("declare", s, Nobody).is = "declare" /\ Item("declare", s, Nobody).sym = s
        BY DEF Item
      <4> QED BY <4>1, <4>2
    <3> QED BY <1>1, <2>2, <3>1 DEF UnitOK, RefOK
  <2>16. ASSUME NEW d \in ToSet(FileOf(unit).decls), NEW e \in ToSet(FileOf(unit).decls),
                d.is \in Functions, e.is \in Functions, d.name = e.name
         PROVE  d = e
    <3>1. DOMAIN Text = 1..Len(Text) /\ Len(Text) \in Nat
      BY <1>1, Parsed DEF UnitOK, Text
    <3>2. PICK n \in 1..Len(Text) : d = Text[n]
      BY <3>1 DEF Text, ToSet
    <3>3. PICK m \in 1..Len(Text) : e = Text[m]
      BY <3>1 DEF Text, ToSet
    <3>4. n \in 1..(pos - 1) /\ m \in 1..(pos - 1)
      BY <1>1, <3>1 DEF UnitOK
    <3>5. ~Twice(items)
      BY <2>1 DEF LlcAccepts, Twice
    <3>6. ~SameFunction(n, m)
      BY <1>1, <3>4, <3>5 DEF UnitOK
    <3> QED BY <2>16, <3>2, <3>3, <3>6 DEF SameFunction
  <2>10. ObjectOK(unit, obj)
    BY <1>1, <2>2, <2>3, <2>6, <2>7, <2>8, <2>9, <2>16 DEF ObjectOK, UnitOK
  <2> HIDE DEF obj
  <2>11. /\ IsSeq(objs') /\ Len(objs) = unit - 1 /\ Len(objs') = unit /\ unit \in 1..MainUnit
         /\ \A k \in 1..Len(objs) : objs'[k] = objs[k]
         /\ objs'[unit] = obj
    BY <1>1, <2>1, Appended, Units DEF IInv
  <2>12. \A k \in 1..Len(objs') : ObjectOK(k, objs'[k])
    <3> SUFFICES ASSUME NEW k \in 1..unit PROVE ObjectOK(k, objs'[k])
      BY <2>11
    <3>1. CASE k = unit
      BY <2>10, <2>11, <3>1
    <3>2. CASE k # unit
      <4>1. k \in 1..Len(objs)
        BY <2>11, <3>2
      <4> QED BY <2>11, <4>1 DEF IInv
    <3> QED BY <3>1, <3>2
  <2>13. (\A k \in 1..Len(objs) : ObjectOK(k, objs[k]))'
    BY <1>1, <2>12, SameObjects
  <2>14. CASE unit = MainUnit
    <3>1. pc' = "link" /\ unit' = unit
      BY <2>1, <2>14, ThisUnit
    <3> QED BY <1>1, <2>11, <2>13, <2>14, <3>1, SameFiles DEF IInv
  <2>15. CASE unit # MainUnit
    <3>1. pc' = "open" /\ unit' = unit + 1 /\ unit' \in 1..MainUnit
      BY <2>1, <2>11, <2>15, ThisUnit, Units
    <3> QED BY <1>1, <2>11, <2>13, <3>1, SameFiles DEF IInv
  <2> QED BY <2>14, <2>15
<1> QED BY <1>2, <1>3

LEMMA LinkUnitsStep == IInv /\ LinkUnits => IInv'
<1> SUFFICES ASSUME IInv, LinkUnits PROVE IInv'
  OBVIOUS
<1>1. /\ UNCHANGED <<job, files, unit, objs, pos>> /\ pc = "link"
      /\ pc' = IF Links THEN "built" ELSE "failed"
  BY DEF LinkUnits
<1>2. \A k \in 1..Len(objs) : ObjectOK(k, objs[k])'
  BY <1>1, SameObjects DEF IInv
<1> QED BY <1>1, <1>2, SameFiles, SameLinks DEF IInv

LEMMA NextIInv == IInv /\ [Next]_vars => IInv'
<1> SUFFICES ASSUME IInv, [Next]_vars PROVE IInv'
  OBVIOUS
<1>1. CASE UNCHANGED vars
  <2>1. UnitOK' = UnitOK /\ Links' = Links
    BY <1>1, SameUnit, SameLinks DEF vars
  <2>2. \A k \in 1..Len(objs) : ObjectOK(k, objs[k])'
    BY <1>1, SameObjects DEF IInv, vars
  <2> QED BY <1>1, <2>1, <2>2, SameFiles DEF IInv, vars
<1>2. CASE Next
  BY <1>2, OpenUnitStep, GenFuncStep, GenFuncDeclStep, GenExternStep, GenGlobalStep, SkipDeclStep,
     FinishUnitStep, LinkUnitsStep DEF Next
<1> QED BY <1>1, <1>2

-----------------------------------------------------------------------------
(***************************************************************************)
(* What a use of a symbol reaches in a program that was built.             *)
(***************************************************************************)
Compiled == {o.file : o \in ToSet(objs)} \cup {Runtime, Libc}
Meant(o, r) == {d \in Meaning(o.file, r) : d[1] \in Compiled}
\* The definitions of a symbol in unit k.
Own(k, sym) == {i \in objs[k].items : i.sym = sym /\ i.is # "declare"}

LEMMA Objects ==
  ASSUME IInv, pc = "built"
  PROVE  /\ MainUnit \in 1..Len(objs) /\ Len(objs) = MainUnit /\ MainUnit \in Nat
         /\ \A o \in ToSet(objs) : \E k \in 1..MainUnit : o = objs[k]
         /\ \A k \in 1..MainUnit : /\ objs[k] \in ToSet(objs) /\ ObjectOK(k, objs[k])
                                   /\ files[objs[k].file] = FileOf(k)
                                   /\ objs[k].file \in Compiled
<1>1. Len(objs) = MainUnit /\ MainUnit \in Nat /\ MainUnit \in 1..MainUnit /\ DOMAIN objs = 1..Len(objs)
  BY Units DEF IInv, IsSeq
<1>2. \A o \in ToSet(objs) : \E k \in 1..MainUnit : o = objs[k]
  BY <1>1 DEF ToSet
<1>3. \A k \in 1..MainUnit : objs[k] \in ToSet(objs) /\ ObjectOK(k, objs[k])
  BY <1>1 DEF ToSet, IInv
<1>4. \A k \in 1..MainUnit : files[objs[k].file] = FileOf(k) /\ objs[k].file \in Compiled
  BY <1>3 DEF ObjectOK, Loc, FileOf, Compiled
<1> QED BY <1>1, <1>2, <1>3, <1>4

\* The symbol is the unit's own, or else another unit's, or the C library's.
LEMMA ReachedIs ==
  ASSUME NEW o, NEW sym
  PROVE  LET own == {i \in o.items : i.sym = sym /\ i.is # "declare"}
             far == UNION {{i \in Strong(p) : i.sym = sym} : p \in ToSet(objs)}
         IN  /\ own # {} => Reached(o, sym) = {i.of : i \in own}
             /\ own = {} /\ far # {} => Reached(o, sym) = {i.of : i \in far}
             /\ own = {} /\ far = {} =>
                  Reached(o, sym) = IF sym \in LibcSymbols THEN {<<Libc, sym[1]>>} ELSE {}
<1> DEFINE own == {i \in o.items : i.sym = sym /\ i.is # "declare"}
           far == UNION {{i \in Strong(p) : i.sym = sym} : p \in ToSet(objs)}
           ours   == {i.of : i \in own}
           theirs == {i.of : i \in far}
           libc   == IF sym \in LibcSymbols THEN {<<Libc, sym[1]>>} ELSE {}
<1>1. Reached(o, sym) = CASE own # {} -> ours [] own = {} /\ far # {} -> theirs [] OTHER -> libc
  BY Zenon DEF Reached
<1> HIDE DEF own, far, ours, theirs, libc
<1>2. /\ own # {} => Reached(o, sym) = ours
      /\ own = {} /\ far # {} => Reached(o, sym) = theirs
      /\ own = {} /\ far = {} => Reached(o, sym) = libc
  BY <1>1
<1> QED BY <1>2 DEF own, far, ours, theirs, libc

\* What is reached is a definition of some unit, if any unit has one.
LEMMA Reach ==
  ASSUME IInv, pc = "built", NEW k \in 1..MainUnit, NEW sym, NEW d \in Reached(objs[k], sym)
  PROVE  \/ \E j \in 1..MainUnit : \E i \in Own(j, sym) : d = i.of
         \/ sym \in LibcSymbols /\ d = <<Libc, sym[1]>> /\ Own(k, sym) = {}
<1> DEFINE o   == objs[k]
           own == {i \in o.items : i.sym = sym /\ i.is # "declare"}
           far == UNION {{i \in Strong(p) : i.sym = sym} : p \in ToSet(objs)}
<1>1. own = Own(k, sym)
  BY DEF Own
<1>2. \A i \in far : \E j \in 1..MainUnit : i \in Own(j, sym)
  <2> SUFFICES ASSUME NEW p \in ToSet(objs), NEW i \in Strong(p), i.sym = sym
               PROVE  \E j \in 1..MainUnit : i \in Own(j, sym)
    OBVIOUS
  <2>1. PICK j \in 1..MainUnit : p = objs[j]
    BY Objects
  <2> QED BY <2>1 DEF Own, Strong
<1>3. CASE own # {}
  <2>1. d \in {i.of : i \in own}
    BY <1>3, ReachedIs
  <2> QED BY <1>1, <2>1
<1>4. CASE own = {} /\ far # {}
  <2>1. d \in {i.of : i \in far}
    BY <1>4, ReachedIs
  <2> QED BY <1>2, <2>1
<1>5. CASE own = {} /\ far = {}
  <2>1. d \in IF sym \in LibcSymbols THEN {<<Libc, sym[1]>>} ELSE {}
    BY <1>5, ReachedIs
  <2> QED BY <1>1, <1>5, <2>1
<1> QED BY <1>3, <1>4, <1>5

\* A call by name: the unit has a function with that symbol and nothing else.
LEMMA IdentReaches ==
  ASSUME IInv, pc = "built", NEW k \in 1..MainUnit, NEW r \in objs[k].refs,
         r.call.is = "ident", Meant(objs[k], r) # {}
  PROVE  Reached(objs[k], r.sym) \subseteq Meant(objs[k], r)
<1> DEFINE o == objs[k]
           name == r.call.name
<1>1. /\ ObjectOK(k, o) /\ files[o.file] = FileOf(k) /\ o.file = Loc(k) /\ Loc(k) \in Compiled
  BY Objects DEF ObjectOK
<1>2. r.sym = Symbol(k, name)
  BY <1>1 DEF ObjectOK, RefOK, Uses
<1>3. Meaning(o.file, r) = {<<Loc(k), n>> : n \in {name} \cap Named(FileOf(k), Functions)}
  BY <1>1 DEF Meaning
<1>4. name \in Named(FileOf(k), Functions)
  BY <1>3 DEF Meant
<1>5. PICK d \in ToSet(FileOf(k).decls) : d.is \in Functions /\ d.name = name
  BY <1>4 DEF Named
<1> DEFINE def == Definition(k, d)
<1>6. def \in o.items /\ def.is = "define" /\ def.sym = r.sym /\ def.of = <<Loc(k), name>>
  BY <1>1, <1>2, <1>5 DEF ObjectOK, Definition, Item
<1> HIDE DEF def
<1>7. Own(k, r.sym) = {def}
  BY <1>1, <1>6 DEF Own, ObjectOK
<1>8. Reached(o, r.sym) = {<<Loc(k), name>>}
  <2>1. {i \in o.items : i.sym = r.sym /\ i.is # "declare"} = {def}
    BY <1>7 DEF Own
  <2> DEFINE own == {i \in o.items : i.sym = r.sym /\ i.is # "declare"}
  <2>2. own # {}
    BY <2>1
  <2>3. Reached(o, r.sym) = {i.of : i \in own}
    BY <2>2, ReachedIs
  <2> QED BY <1>6, <2>1, <2>3
<1>9. <<Loc(k), name>> \in Meant(o, r)
  <2>1. <<Loc(k), name>> \in Meaning(o.file, r) /\ <<Loc(k), name>>[1] = Loc(k)
    BY <1>3, <1>4
  <2> QED BY <1>1, <2>1 DEF Meant
<1> QED BY <1>8, <1>9

\* The symbol of an exported function is its name.
LEMMA ExportedSymbol ==
  ASSUME IInv, pc = "built", NEW k \in 1..MainUnit,
         NEW d \in ToSet(FileOf(k).decls), d.is = "export"
  PROVE  Definition(k, d) = Item("define", <<d.name>>, <<Loc(k), d.name>>) /\ Definition(k, d) \in objs[k].items
<1>1. ObjectOK(k, objs[k])
  BY Objects
<1>2. d.name \notin Locals(k)
  <2> SUFFICES ASSUME NEW e \in ToSet(FileOf(k).decls), e.is = "func", e.name = d.name PROVE FALSE
    BY DEF Locals
  <2>1. e = d
    BY <1>1 DEF ObjectOK, Functions
  <2> QED BY <2>1
<1>3. Symbol(k, d.name) = <<d.name>>
  BY <1>2 DEF Symbol
<1> QED BY <1>1, <1>3 DEF Definition, ObjectOK, Functions

\* Only one unit defines what other units can see.
LEMMA OneProvider ==
  ASSUME IInv, pc = "built", NEW j \in 1..MainUnit, NEW k \in 1..MainUnit,
         NEW a \in Strong(objs[j]), NEW b \in Strong(objs[k]), a.sym = b.sym
  PROVE  a = b
<1>1. j = k
  <2>1. Links /\ j \in DOMAIN objs /\ k \in DOMAIN objs
    BY Objects DEF IInv, IsSeq
  <2> QED BY <2>1 DEF Links, Defines
<1>2. ObjectOK(k, objs[k])
  BY Objects
<1> QED BY <1>1, <1>2 DEF Strong, ObjectOK

\* A call through a module: the caller has the symbol declared, and one
\* unit exports it.
LEMMA FieldReaches ==
  ASSUME IInv, pc = "built", NEW k \in 1..MainUnit, NEW r \in objs[k].refs,
         r.call.is = "field", Meant(objs[k], r) # {}
  PROVE  Reached(objs[k], r.sym) \subseteq Meant(objs[k], r)
<1> DEFINE o == objs[k]
           name == r.call.name
           paths == {q \in ToSet(FileOf(k).imports) \cup ToSet(FileOf(k).included) :
                       extract_module_name(q) = r.call.module}
           from == {Imported(o.file, p) : p \in paths}
           exporters == {l \in from \cap DOMAIN files : name \in Named(files[l], {"export"})}
<1>1. ObjectOK(k, o) /\ files[o.file] = FileOf(k) /\ o.file = Loc(k)
  BY Objects DEF ObjectOK
<1>2. r.sym = <<name>>
  BY <1>1 DEF ObjectOK, RefOK, Uses
<1>3. Meaning(o.file, r) = {<<l, name>> : l \in exporters}
  BY <1>1 DEF Meaning
<1>4. PICK l \in exporters : l \in Compiled
  BY <1>3 DEF Meant
<1>5. r.call.module \in Modules(k)
  <2>1. PICK p \in paths : l = Imported(o.file, p)
    BY <1>4
  <2> QED BY <2>1 DEF Modules
<1>6. PICK decl \in o.items : decl.is = "declare" /\ decl.sym = r.sym
  BY <1>1, <1>2, <1>5 DEF ObjectOK, RefOK
<1>7. \A i \in o.items : i.sym = r.sym => i.is = "declare"
  BY <1>1, <1>6 DEF ObjectOK
<1>8. l \notin {Runtime, Libc}
  BY <1>4, FilesAssumption DEF IInv
<1>9. PICK j \in 1..MainUnit : l = objs[j].file
  BY <1>4, <1>8, Objects DEF Compiled
<1>10. files[l] = FileOf(j) /\ l = Loc(j)
  BY <1>9, Objects DEF ObjectOK
<1>11. PICK d \in ToSet(FileOf(j).decls) : d.is = "export" /\ d.name = name
  BY <1>4, <1>10 DEF Named
<1> DEFINE def == Definition(j, d)
<1>12. def \in Strong(objs[j]) /\ def.sym = r.sym /\ def.of = <<l, name>>
  BY <1>2, <1>10, <1>11, ExportedSymbol DEF Strong, Item
<1> HIDE DEF def
<1>13. UNION {{i \in Strong(p) : i.sym = r.sym} : p \in ToSet(objs)} = {def}
  <2>1. ASSUME NEW p \in ToSet(objs), NEW i \in Strong(p), i.sym = r.sym PROVE i = def
    <3>1. PICK m \in 1..MainUnit : p = objs[m]
      BY Objects
    <3> QED BY <1>12, <2>1, <3>1, OneProvider
  <2>2. objs[j] \in ToSet(objs)
    BY Objects
  <2> QED BY <1>12, <2>1, <2>2
<1>14. Reached(o, r.sym) = {<<l, name>>}
  <2>1. {i \in o.items : i.sym = r.sym /\ i.is # "declare"} = {}
    BY <1>7
  <2>2. Reached(o, r.sym) = {i.of : i \in {def}}
    BY <1>13, <2>1, ReachedIs
  <2> QED BY <1>12, <2>2
<1>15. <<l, name>> \in Meant(o, r)
  <2>1. <<l, name>> \in Meaning(o.file, r) /\ <<l, name>>[1] = l
    BY <1>3, <1>4
  <2> QED BY <1>4, <2>1 DEF Meant
<1> QED BY <1>14, <1>15

\* Who defines a symbol that is a name: the file of the unit, under that
\* name, or the runtime.
LEMMA Definers ==
  ASSUME IInv, pc = "built", NEW k \in 1..MainUnit, NEW n, NEW i \in Own(k, <<n>>)
  PROVE  \/ /\ i.of = <<Loc(k), n>> /\ Loc(k) \in DOMAIN files
            /\ n \in Named(FileOf(k), Functions \cup Variables)
         \/ k = MainUnit /\ i.of = <<Runtime, n>>
<1>1. i \in objs[k].items /\ i.sym = <<n>> /\ i.is # "declare"
  BY DEF Own
<1>2. ObjectOK(k, objs[k])
  BY Objects
<1>3. CASE FromText(k, i)
  <2>1. PICK d \in ToSet(FileOf(k).decls) :
          /\ d.is \in Functions \cup Variables
          /\ i.of = <<Loc(k), d.name>>
          /\ i.sym = <<d.name>> \/ i.sym = <<Module(k), d.name>>
    BY <1>3 DEF FromText
  <2>2. \A a, b, c : <<a>> # <<b, c>>
    <3> TAKE a, b, c
    <3>1. Len(<<a>>) = 1 /\ Len(<<b, c>>) = 2
      OBVIOUS
    <3> QED BY <3>1
  <2>3. d.name = n
    BY <1>1, <2>1, <2>2
  <2> QED BY <1>2, <2>1, <2>3 DEF Named, ObjectOK
<1>4. CASE FromHeader(k, i)
  <2>1. PICK name : i = Shim(name) /\ k = MainUnit
    BY <1>4 DEF FromHeader
  <2>2. name = n
    BY <1>1, <2>1 DEF Shim, Item
  <2> QED BY <2>1, <2>2 DEF Shim, Item
<1> QED BY <1>1, <1>2, <1>3, <1>4 DEF ObjectOK

\* A built-in form: the runtime is in the main unit, and no imported file
\* takes its names.
LEMMA BuiltinReaches ==
  ASSUME IInv, pc = "built", RuntimeUntouched, NEW k \in 1..MainUnit, NEW r \in objs[k].refs,
         r.call.is = "builtin", Meant(objs[k], r) # {}
  PROVE  Reached(objs[k], r.sym) \subseteq Meant(objs[k], r)
<1> SUFFICES ASSUME NEW d \in Reached(objs[k], r.sym) PROVE d \in Meant(objs[k], r)
  OBVIOUS
<1>1. PICK n : r.sym = <<n>>
  <2>1. r.sym \in {<<n>> : n \in RuntimeCalls[r.call.name]}
    BY Objects DEF ObjectOK, RefOK, Uses
  <2> QED BY <2>1
<1>2. Meaning(objs[k].file, r) = RuntimeMeaning(n)
  BY <1>1 DEF Meaning
<1>3. Runtime \in Compiled /\ Libc \in Compiled /\ \A j \in 1..MainUnit : Loc(j) \in Compiled
  BY Objects DEF Compiled, ObjectOK
<1>4. \A l : <<l, n>>[1] = l
  OBVIOUS
<1>5. ASSUME NEW j \in 1..MainUnit, NEW i \in Own(j, <<n>>), n \in HeaderDeclares \cup HeaderDefines
      PROVE  j = MainUnit
  <2> SUFFICES ASSUME n \in Named(FileOf(j), Functions \cup Variables), j # MainUnit
               PROVE  FALSE
    BY <1>5, Definers
  <2>1. j \in ImportUnits
    BY Objects DEF ImportUnits
  <2> QED BY <1>5, <2>1 DEF RuntimeUntouched
<1>6. CASE n = "uc_abs"
  <2>1. Meaning(objs[k].file, r) = {<<l, n>> : l \in {Runtime} \cup DOMAIN files}
    BY <1>2, <1>6 DEF RuntimeMeaning, HeaderDeclares, HeaderDefines
  <2>2. <<n>> \notin LibcSymbols
    BY <1>6 DEF LibcSymbols, HeaderDeclares
  <2>3. PICK j \in 1..MainUnit : \E i \in Own(j, <<n>>) : d = i.of
    BY <1>1, <2>2, Reach
  <2>4. PICK l \in {Runtime} \cup DOMAIN files : d = <<l, n>> /\ l \in Compiled
    BY <1>3, <2>3, Definers
  <2> QED BY <1>4, <2>1, <2>4 DEF Meant
<1>7. CASE n \in HeaderDeclares
  <2>1. Meaning(objs[k].file, r) = {<<Libc, n>>}
    BY <1>2, <1>7 DEF RuntimeMeaning, HeaderDeclares, HeaderDefines
  <2>2. Own(MainUnit, <<n>>) = {}
    <3>1. ObjectOK(MainUnit, objs[MainUnit]) /\ Declaration(n) \in objs[MainUnit].items
      BY <1>7, Objects DEF ObjectOK
    <3>2. Declaration(n).is = "declare" /\ Declaration(n).sym = <<n>>
      BY DEF Declaration, Item
    <3> QED BY <3>1, <3>2 DEF Own, ObjectOK
  <2>3. d = <<Libc, n>>
    <3>1. ~ \E j \in 1..MainUnit : \E i \in Own(j, <<n>>) : d = i.of
      BY <1>5, <1>7, <2>2
    <3>2. d = <<Libc, r.sym[1]>>
      <4>1. \A j \in 1..MainUnit : \A i \in Own(j, r.sym) : d # i.of
        BY <1>1, <3>1
      <4> DEFINE sym == r.sym
      <4>2. \/ \E j \in 1..MainUnit : \E i \in Own(j, sym) : d = i.of
            \/ sym \in LibcSymbols /\ d = <<Libc, sym[1]>> /\ Own(k, sym) = {}
        BY Reach
      <4> QED BY <4>1, <4>2
    <3> QED BY <1>1, <3>2
  <2> QED BY <1>3, <1>4, <2>1, <2>3 DEF Meant
<1>8. CASE n \in HeaderDefines
  <2>1. Meaning(objs[k].file, r) = {<<Runtime, n>>}
    BY <1>2, <1>8 DEF RuntimeMeaning, HeaderDeclares, HeaderDefines
  <2>2. Own(MainUnit, <<n>>) = {Shim(n)}
    <3>1. ObjectOK(MainUnit, objs[MainUnit]) /\ Shim(n) \in objs[MainUnit].items
      BY <1>8, Objects DEF ObjectOK
    <3>2. Shim(n).is = "define" /\ Shim(n).sym = <<n>>
      BY DEF Shim, Item
    <3> QED BY <3>1, <3>2 DEF Own, ObjectOK
  <2>3. <<n>> \notin LibcSymbols
    BY <1>8 DEF LibcSymbols, HeaderDeclares, HeaderDefines
  <2>4. d = <<Runtime, n>>
    <3>1. PICK j \in 1..MainUnit : \E i \in Own(j, <<n>>) : d = i.of
      BY <1>1, <2>3, Reach
    <3>2. d = Shim(n).of
      BY <1>5, <1>8, <2>2, <3>1
    <3> QED BY <3>2 DEF Shim, Item
  <2> QED BY <1>3, <1>4, <2>1, <2>4 DEF Meant
<1>9. CASE ~(n = "uc_abs" \/ n \in HeaderDeclares \/ n \in HeaderDefines)
  <2>1. RuntimeMeaning(n) = {}
    BY <1>9 DEF RuntimeMeaning
  <2> QED BY <1>2, <2>1 DEF Meant
<1> QED BY <1>6, <1>7, <1>8, <1>9

LEMMA IInvCallsReachMeaning == IInv => CallsReachMeaning
<1> SUFFICES ASSUME IInv, pc = "built", RuntimeUntouched,
                    NEW o \in ToSet(objs), NEW r \in o.refs, Meant(o, r) # {}
             PROVE  Reached(o, r.sym) \subseteq Meant(o, r)
  BY DEF CallsReachMeaning, Compiled, Meant
<1>1. PICK k \in 1..MainUnit : o = objs[k]
  BY Objects
<1>2. r.call \in Calls
  BY <1>1, Objects DEF ObjectOK, RefOK
<1>3. r.call.is \in {"ident", "field", "builtin"}
  BY <1>2 DEF Calls
<1> QED BY <1>1, <1>3, IdentReaches, FieldReaches, BuiltinReaches

LEMMA IInvTypeOK == IInv => TypeOK
<1> SUFFICES ASSUME IInv PROVE TypeOK
  OBVIOUS
<1>1. ASSUME pc = "gen" PROVE pos \in 1..(Len(File.decls) + 1)
  BY <1>1, ThisUnit DEF IInv, UnitOK
<1>2. \A o \in ToSet(objs) : o.file \in Sources
  <2> SUFFICES ASSUME NEW o \in ToSet(objs) PROVE o.file \in Sources
    OBVIOUS
  <2>1. DOMAIN objs = 1..Len(objs)
    BY DEF IInv, IsSeq
  <2>2. PICK k \in 1..Len(objs) : o = objs[k]
    BY <2>1 DEF ToSet
  <2> QED BY <2>2 DEF IInv, ObjectOK, Sources
<1>3. pos \in 1..pos
  BY DEF IInv
<1> QED BY <1>1, <1>2, <1>3 DEF IInv, TypeOK

-----------------------------------------------------------------------------
(***************************************************************************)
(* Programs within the limits of the naming scheme.  What a unit of one    *)
(* introduces is exactly what its source says, which the limits make       *)
(* different from what any other declaration or unit introduces.           *)
(***************************************************************************)
\* The symbols declaration d of unit k and the runtime's header introduce.
Introduced(k, d) ==
  IF d.is \in Functions THEN {Definition(k, d)}
  ELSE IF d.is \in Variables THEN {Item(d.is, <<d.name>>, <<Loc(k), d.name>>)}
  ELSE IF d.is = "proto" \/ (d.is = "extern" /\ d.name \notin HeaderDeclares) THEN {Declaration(d.name)}
  ELSE {}
Header(k) ==
  IF k # MainUnit THEN {}
  ELSE {Declaration(n) : n \in HeaderDeclares} \cup {Shim(n) : n \in HeaderDefines \cup {"uc_abs"}}

\* Some function of unit k has call c.
Has(k, c) == \E d \in ToSet(FileOf(k).decls) : d.is \in Functions /\ c \in d.calls

ModularUnit ==
  /\ ToSet(items) = UNION {Introduced(unit, Text[n]) : n \in 1..(pos - 1)}
  /\ ~Twice(items)
  /\ \A r \in refs : Has(unit, r.call)
  /\ \A s \in declared : \E d \in ToSet(Text) :
       d.is \in Functions /\ \E c \in d.calls : c.is = "field" /\ s = <<c.name>>

ModularObject(k, o) ==
  /\ Header(k) \subseteq o.items
  /\ \A d \in ToSet(FileOf(k).decls) : Introduced(k, d) \subseteq o.items
  /\ \A i \in Strong(o) : i \in Header(k) \/ \E d \in ToSet(FileOf(k).decls) : i \in Introduced(k, d)
  /\ \A r \in o.refs : Has(k, r.call)

ModularInv ==
  Modular => /\ pc # "failed"
             /\ pc = "gen" => ModularUnit
             /\ \A k \in 1..Len(objs) : ModularObject(k, objs[k])

LEMMA Lengths == \A a, b, c : <<a>> # <<b, c>>
<1> TAKE a, b, c
<1>1. Len(<<a>>) = 1 /\ Len(<<b, c>>) = 2
  OBVIOUS
<1> QED BY <1>1

LEMMA NoMoreThanOne == \A a, b : <<a>> = <<b>> => a = b
<1> TAKE a, b
<1> SUFFICES ASSUME <<a>> = <<b>> PROVE a = b
  OBVIOUS
<1>1. <<a>>[1] = a /\ <<b>>[1] = b
  OBVIOUS
<1> QED BY <1>1

LEMMA Seconds == \A a, b, c, d : <<a, b>> = <<c, d>> => b = d
<1> TAKE a, b, c, d
<1> SUFFICES ASSUME <<a, b>> = <<c, d>> PROVE b = d
  OBVIOUS
<1>1. <<a, b>>[2] = b /\ <<c, d>>[2] = d
  OBVIOUS
<1> QED BY <1>1

\* The main file is the file of the main unit.
LEMMA MainIs == UnitPath(MainUnit) = job.main /\ FileOf(MainUnit) = MainFile
BY DEF UnitPath, FileOf, MainFile

\* Modular programs stay modular.
LEMMA StaysModular ==
  ASSUME job' = job, files' = files
  PROVE  /\ Modular' = Modular
         /\ \A k : Header(k)' = Header(k)
         /\ \A k, d : Introduced(k, d)' = Introduced(k, d)
         /\ \A k, c : Has(k, c)' = Has(k, c)
         /\ \A k, o : ModularObject(k, o)' = ModularObject(k, o)
<1>1. \A k : Header(k)' = Header(k)
  BY SameFiles DEF Header
<1>2. \A k, d : Introduced(k, d)' = Introduced(k, d)
  BY SameFiles, SameNames DEF Introduced
<1>3. \A k, c : Has(k, c)' = Has(k, c)
  BY SameFiles DEF Has
<1>4. \A k, o : ModularObject(k, o)' = ModularObject(k, o)
  BY <1>1, <1>2, <1>3, SameFiles DEF ModularObject
<1>5. \A k : Bare(k)' = Bare(k)
  BY SameFiles DEF Bare
<1>6. \A k : Foreign(k)' = Foreign(k)
  BY SameFiles, <1>5 DEF Foreign
<1>7. \A k, c : Resolved(k, c)' = Resolved(k, c)
  BY SameFiles, <1>6 DEF Resolved
<1>8. \A k : WithinLimits(k)' = WithinLimits(k)
  BY SameFiles, <1>5, <1>7 DEF WithinLimits
<1>9. AllOpen' = AllOpen
  BY SameFiles DEF AllOpen, ImportUnits
<1>10. MainFile' = MainFile
  BY DEF MainFile
<1>11. Modular' = Modular
  BY SameFiles, <1>5, <1>8, <1>9, <1>10 DEF Modular
<1> QED BY <1>1, <1>2, <1>3, <1>4, <1>11

\* A declaration has the symbol of its name, mangled only when it is of a
\* plain function of the main unit, which is then not one of its bare names.
LEMMA IntroducedSymbol ==
  ASSUME NEW k, NEW d, NEW i \in Introduced(k, d)
  PROVE  /\ d.is \in Functions \cup Variables \cup {"proto", "extern"}
         /\ i.sym = <<d.name>> \/ (k = MainUnit /\ d.is \in Functions /\ i.sym = <<Module(k), d.name>>)
         /\ d.is \in Functions => i = Definition(k, d) /\ i.is = "define" /\ i.sym = Symbol(k, d.name)
         /\ d.is \in Variables => i.is = d.is /\ i.sym = <<d.name>>
         /\ d.is \in {"proto", "extern"} => i = Declaration(d.name) /\ i.is = "declare" /\ i.sym = <<d.name>>
         /\ d.is = "extern" => d.name \notin HeaderDeclares
<1>1. CASE d.is \in Functions
  <2>1. i = Definition(k, d) /\ d.is \notin Variables \cup {"proto", "extern"}
    BY <1>1 DEF Introduced, Functions, Variables
  <2>2. i.is = "define" /\ i.sym = Symbol(k, d.name)
    BY <2>1 DEF Definition, Item
  <2>3. Symbol(k, d.name) = <<d.name>> \/ (k = MainUnit /\ Symbol(k, d.name) = <<Module(k), d.name>>)
    BY DEF Symbol, Locals
  <2> QED BY <1>1, <2>1, <2>2, <2>3
<1>2. CASE d.is \in Variables
  <2>1. i = Item(d.is, <<d.name>>, <<Loc(k), d.name>>) /\ d.is \notin Functions \cup {"proto", "extern"}
    BY <1>2 DEF Introduced, Functions, Variables
  <2> QED BY <1>2, <2>1 DEF Item
<1>3. CASE d.is \notin Functions /\ d.is \notin Variables
  <2>1. i = Declaration(d.name) /\ (d.is = "proto" \/ (d.is = "extern" /\ d.name \notin HeaderDeclares))
    BY <1>3 DEF Introduced
  <2> QED BY <1>3, <2>1 DEF Declaration, Item
<1> QED BY <1>1, <1>2, <1>3

\* The declarations of a unit of a modular program, by their names.
LEMMA ByName ==
  ASSUME IInv, Modular, NEW k \in 1..MainUnit, Loc(k) \in DOMAIN files
  PROVE  LET decls == FileOf(k).decls IN
         /\ \A n, m \in 1..Len(decls) :
              decls[n].is # "other" /\ decls[m].is # "other" /\ decls[n].name = decls[m].name => n = m
         /\ \A d, e \in ToSet(decls) : d.is # "other" /\ e.is # "other" /\ d.name = e.name => d = e
<1> DEFINE decls == FileOf(k).decls
<1>1. DOMAIN decls = 1..Len(decls)
  BY Parsed
<1>2. WithinLimits(k)
  BY DEF Modular
<1>3. \A n, m \in DOMAIN decls :
        decls[n].is # "other" /\ decls[m].is # "other" /\ decls[n].name = decls[m].name => n = m
  BY <1>2 DEF WithinLimits
<1>4. ASSUME NEW d \in ToSet(decls), NEW e \in ToSet(decls), d.is # "other", e.is # "other", d.name = e.name
      PROVE  d = e
  <2>1. PICK n \in DOMAIN decls : d = decls[n]
    BY DEF ToSet
  <2>2. PICK m \in DOMAIN decls : e = decls[m]
    BY DEF ToSet
  <2> QED BY <1>3, <1>4, <2>1, <2>2
<1> QED BY <1>1, <1>3, <1>4

\* Two declarations of a unit introduce different symbols.
LEMMA Distinct ==
  ASSUME IInv, Modular, NEW k \in 1..MainUnit, Loc(k) \in DOMAIN files,
         NEW n \in 1..Len(FileOf(k).decls), NEW m \in 1..Len(FileOf(k).decls),
         NEW i \in Introduced(k, FileOf(k).decls[n]), NEW j \in Introduced(k, FileOf(k).decls[m]),
         i.sym = j.sym
  PROVE  n = m
<1> DEFINE d == FileOf(k).decls[n]
           e == FileOf(k).decls[m]
<1>1. d.is # "other" /\ (i.sym = <<d.name>> \/ i.sym = <<Module(k), d.name>>)
  BY IntroducedSymbol DEF Functions, Variables
<1>2. e.is # "other" /\ (j.sym = <<e.name>> \/ j.sym = <<Module(k), e.name>>)
  BY IntroducedSymbol DEF Functions, Variables
<1>3. d.name = e.name
  <2> HIDE DEF d, e
  <2> QED BY <1>1, <1>2, Lengths, NoMoreThanOne, Seconds
<1> QED BY <1>1, <1>2, <1>3, ByName

\* What the linker sees of a unit under a bare name is one of its bare
\* names: a plain function of the main unit is mangled, but for main.
LEMMA BareNames ==
  ASSUME IInv, Modular, NEW k \in 1..MainUnit, Loc(k) \in DOMAIN files,
         NEW d \in ToSet(FileOf(k).decls)
  PROVE  /\ \A i \in Introduced(k, d) :
              d.is \in Functions \cup {"global"} /\ i.sym = <<d.name>> => d.name \in Bare(k)
         /\ \A name \in Bare(k) : \E e \in ToSet(FileOf(k).decls) :
              /\ e.name = name /\ e.is \in Functions \cup {"global"}
              /\ \E i \in Introduced(k, e) : i.sym = <<name>> /\ i.is \in {"define", "global"}
<1>1. \A e, f \in ToSet(FileOf(k).decls) : e.is # "other" /\ f.is # "other" /\ e.name = f.name => e = f
  BY ByName
<1>2. ASSUME NEW i \in Introduced(k, d), d.is \in Functions \cup {"global"}, i.sym = <<d.name>>
      PROVE  d.name \in Bare(k)
  <2>1. CASE d.is \in {"export", "global"} \/ (d.is = "func" /\ k # MainUnit)
    BY <2>1 DEF Bare, Named
  <2>2. CASE d.is = "func" /\ k = MainUnit
    <3>1. Symbol(k, d.name) = <<d.name>>
      BY <1>2, <2>2, IntroducedSymbol DEF Functions
    <3>2. d.name \in Locals(k)
      BY <2>2 DEF Locals
    <3>3. d.name = "main"
      BY <3>1, <3>2, Lengths DEF Symbol
    <3> QED BY <2>2, <3>3 DEF Bare, Named, Functions
  <2> QED BY <1>2, <2>1, <2>2 DEF Functions
<1>3. ASSUME NEW name \in Bare(k)
      PROVE  \E e \in ToSet(FileOf(k).decls) :
              /\ e.name = name /\ e.is \in Functions \cup {"global"}
              /\ \E i \in Introduced(k, e) : i.sym = <<name>> /\ i.is \in {"define", "global"}
  <2>1. PICK e \in ToSet(FileOf(k).decls) :
          /\ e.name = name
          /\ \/ e.is \in {"export", "global"} \/ (e.is = "func" /\ k # MainUnit)
             \/ e.is \in Functions /\ name = "main"
    BY DEF Bare, Named
  <2>2. CASE e.is \in Functions
    <3>1. Symbol(k, name) = <<name>>
      <4> SUFFICES ASSUME name \in Locals(k), name # "main" PROVE FALSE
        BY DEF Symbol
      <4>1. PICK f \in ToSet(FileOf(k).decls) : f.is = "func" /\ f.name = name /\ k = MainUnit
        BY DEF Locals
      <4>2. e = f
        BY <1>1, <2>1, <2>2, <4>1 DEF Functions
      <4> QED BY <2>1, <4>1, <4>2
    <3>2. Introduced(k, e) = {Definition(k, e)}
      BY <2>2 DEF Introduced
    <3>3. Definition(k, e).sym = <<name>> /\ Definition(k, e).is = "define"
      BY <2>1, <3>1 DEF Definition, Item
    <3> QED BY <2>1, <2>2, <3>2, <3>3
  <2>3. CASE e.is = "global"
    <3> DEFINE i == Item(e.is, <<e.name>>, <<Loc(k), e.name>>)
    <3>1. Introduced(k, e) = {i}
      BY <2>3 DEF Introduced, Functions, Variables
    <3>2. i.sym = <<name>> /\ i.is = "global"
      BY <2>1, <2>3 DEF Item
    <3> HIDE DEF i
    <3> QED BY <2>1, <2>3, <3>1, <3>2
  <2> QED BY <2>1, <2>2, <2>3 DEF Functions
<1> QED BY <1>2, <1>3

\* The runtime's names are its header's alone.
LEMMA HeaderItems ==
  ASSUME NEW k, NEW h \in Header(k)
  PROVE  /\ k = MainUnit
         /\ \E n \in Reserved : /\ h.sym = <<n>>
                                /\ n \in HeaderDeclares => h = Declaration(n)
                                /\ n \notin HeaderDeclares => h = Shim(n)
<1>1. /\ k = MainUnit
      /\ h \in {Declaration(n) : n \in HeaderDeclares} \cup {Shim(n) : n \in HeaderDefines \cup {"uc_abs"}}
  BY DEF Header
<1>2. CASE h \in {Declaration(n) : n \in HeaderDeclares}
  <2>1. PICK n \in HeaderDeclares : h = Declaration(n)
    BY <1>2
  <2> QED BY <1>1, <2>1 DEF Declaration, Item, Reserved
<1>3. CASE h \in {Shim(n) : n \in HeaderDefines \cup {"uc_abs"}}
  <2>1. PICK n \in HeaderDefines \cup {"uc_abs"} : h = Shim(n)
    BY <1>3
  <2>2. n \notin HeaderDeclares /\ n \in Reserved
    BY DEF HeaderDeclares, HeaderDefines, Reserved
  <2> QED BY <1>1, <2>1, <2>2 DEF Shim, Item
<1> QED BY <1>1, <1>2, <1>3

LEMMA NoNameReserved ==
  ASSUME IInv, Modular, NEW k \in 1..MainUnit, Loc(k) \in DOMAIN files,
         NEW d \in ToSet(FileOf(k).decls), NEW i \in Introduced(k, d), NEW n \in Reserved
  PROVE  i.sym # <<n>>
<1> SUFFICES ASSUME i.sym = <<n>> PROVE FALSE
  OBVIOUS
<1>1. d.name = n
  BY IntroducedSymbol, Lengths, NoMoreThanOne
<1>2. WithinLimits(k)
  BY DEF Modular
<1>3. /\ Reserved \cap (Bare(k) \cup Named(FileOf(k), {"proto", "constant"})) = {}
      /\ Named(FileOf(k), {"extern"}) \cap Reserved \subseteq HeaderDeclares
  BY <1>2 DEF WithinLimits
<1>4. CASE d.is \in Functions \cup {"global"}
  BY <1>1, <1>3, <1>4, BareNames
<1>5. CASE d.is \in {"proto", "constant"}
  BY <1>1, <1>3, <1>5 DEF Named
<1>6. CASE d.is = "extern"
  <2>1. d.name \in Named(FileOf(k), {"extern"})
    BY <1>6 DEF Named
  <2> QED BY <1>1, <1>3, <1>6, <2>1, IntroducedSymbol
<1> QED BY <1>4, <1>5, <1>6, IntroducedSymbol DEF Variables

\* A modular main unit leaves uc_abs to the runtime.
LEMMA ThisHeader == IInv /\ Modular /\ Loc(unit) \in DOMAIN files => Builtins = Header(unit)
<1> SUFFICES ASSUME IInv, Modular, Loc(unit) \in DOMAIN files PROVE Builtins = Header(unit)
  OBVIOUS
<1>1. CASE unit = MainUnit
  <2>1. ~DefinesAbs
    <3> SUFFICES ASSUME NEW d \in ToSet(FileOf(unit).decls), d.is \in Functions, d.name = "uc_abs" PROVE FALSE
      BY ThisUnit DEF DefinesAbs
    <3>1. WithinLimits(unit) /\ unit \in 1..MainUnit
      BY DEF Modular, IInv
    <3>2. "uc_abs" \notin Bare(unit) /\ "uc_abs" \notin Named(FileOf(unit), {"func"})
      BY <1>1, <3>1 DEF WithinLimits, Reserved
    <3>3. d.is = "export" \/ d.is = "func"
      BY DEF Functions
    <3> QED BY <3>2, <3>3 DEF Bare, Named
  <2> QED BY <1>1, <2>1, ThisUnit DEF Builtins, Header, Declaration, Shim
<1>2. CASE unit # MainUnit
  BY <1>2, ThisUnit DEF Builtins, Header
<1> QED BY <1>1, <1>2

\* A call is resolved, by name, by module or by the runtime.
LEMMA CallResolved ==
  ASSUME Modular, NEW k \in 1..MainUnit, NEW c, Has(k, c)
  PROVE  Resolved(k, c)
<1>1. PICK d \in ToSet(FileOf(k).decls) : d.is \in Functions /\ c \in d.calls
  BY DEF Has
<1>2. WithinLimits(k)
  BY DEF Modular
<1> QED BY <1>1, <1>2 DEF WithinLimits

\* A symbol declared for calls through modules is another unit's, and no
\* declaration of the unit introduces it.
LEMMA DeclaredIsForeign ==
  ASSUME IInv, Modular, pc = "gen", ModularUnit, NEW s \in declared
  PROVE  /\ \E n \in Foreign(unit) : s = <<n>>
         /\ \A d \in ToSet(Text) : \A i \in Introduced(unit, d) : i.sym # s
         /\ \A h \in Header(unit) : h.sym # s
<1>1. unit \in 1..MainUnit /\ Loc(unit) \in DOMAIN files
  BY DEF IInv, UnitOK
<1>2. PICK d \in ToSet(Text) : d.is \in Functions /\ \E c \in d.calls : c.is = "field" /\ s = <<c.name>>
  BY DEF ModularUnit
<1> PICK c \in d.calls : c.is = "field" /\ s = <<c.name>>
  BY <1>2
<1>3. Resolved(unit, c)
  BY <1>1, <1>2, CallResolved DEF Has, Text
<1>4. c.name \in Foreign(unit) /\ c.name \notin Named(FileOf(unit), {"extern", "proto", "constant"})
  BY <1>2, <1>3 DEF Resolved, Named
<1>5. PICK j \in (1..MainUnit) \ {unit} : c.name \in Bare(j)
  BY <1>4 DEF Foreign
<1>6. c.name \notin Bare(unit)
  BY <1>1, <1>5 DEF Modular
<1>7. ASSUME NEW e \in ToSet(Text), NEW i \in Introduced(unit, e), i.sym = s PROVE FALSE
  <2>1. e.name = c.name /\ i.sym = <<e.name>>
    BY <1>2, <1>7, IntroducedSymbol, Lengths, NoMoreThanOne
  <2>2. CASE e.is \in Functions \cup {"global"}
    BY <1>1, <1>6, <2>1, <2>2, BareNames DEF Text
  <2>3. CASE e.is \in {"extern", "proto", "constant"}
    BY <1>4, <2>1, <2>3 DEF Named, Text
  <2> QED BY <2>2, <2>3, IntroducedSymbol DEF Variables
<1>8. WithinLimits(j)
  BY <1>5 DEF Modular
<1>9. c.name \notin Reserved
  BY <1>5, <1>8 DEF WithinLimits
<1>10. \A h \in Header(unit) : h.sym # s
  BY <1>2, <1>9, HeaderItems, NoMoreThanOne
<1> QED BY <1>2, <1>4, <1>7, <1>10

-----------------------------------------------------------------------------
\* Adding at most one item, with a symbol that was not there.
LEMMA StillOnce ==
  ASSUME NEW s, NEW t, IsSeq(s), ~Twice(s),
         t = << >> \/ \E e : t = <<e>> /\ \A i \in ToSet(s) : i.sym # e.sym
  PROVE  ~Twice(s \o t)
<1>1. CASE t = << >>
  <2>1. s \o t = s
    BY <1>1 DEF IsSeq
  <2> QED BY <2>1
<1>2. CASE t # << >>
  <2>1. PICK e : t = <<e>> /\ \A i \in ToSet(s) : i.sym # e.sym
    BY <1>2
  <2> DEFINE u == s \o t
             S == ToSet(s) \cup {e}
  <2>2. s \in Seq(S) /\ t \in Seq(S) /\ Len(t) = 1 /\ t[1] = e
    BY <2>1 DEF IsSeq
  <2> HIDE DEF S
  <2>3. /\ Len(s) \in Nat /\ DOMAIN s = 1..Len(s)
        /\ DOMAIN u = 1..(Len(s) + 1)
        /\ \A n \in 1..Len(s) : u[n] = s[n]
        /\ u[Len(s) + 1] = e
    <3> s \in Seq(S) /\ t \in Seq(S)
      BY <2>2
    <3>1. /\ u \in Seq(S) /\ Len(s) \in Nat /\ Len(u) = Len(s) + Len(t)
          /\ \A n \in 1..Len(s) : u[n] = s[n]
          /\ \A n \in 1..Len(t) : u[Len(s) + n] = t[n]
      OBVIOUS
    <3>2. Len(u) = Len(s) + 1 /\ u[Len(s) + 1] = e
      BY <2>2, <3>1
    <3>3. DOMAIN s = 1..Len(s) /\ DOMAIN u = 1..Len(u)
      BY <2>2, <3>1
    <3> QED BY <3>1, <3>2, <3>3
  <2> HIDE DEF u
  <2> SUFFICES ASSUME NEW i \in DOMAIN u, NEW j \in DOMAIN u, i # j, u[i].sym = u[j].sym PROVE FALSE
    BY DEF Twice, u
  <2>4. \A n \in 1..Len(s) : u[n] \in ToSet(s)
    BY <2>3 DEF ToSet
  <2>5. (i \in 1..Len(s) \/ i = Len(s) + 1) /\ (j \in 1..Len(s) \/ j = Len(s) + 1)
    BY <2>3
  <2>6. CASE i \in 1..Len(s) /\ j \in 1..Len(s)
    BY <2>3, <2>6 DEF Twice
  <2>7. CASE ~(i \in 1..Len(s) /\ j \in 1..Len(s))
    BY <2>1, <2>3, <2>4, <2>5, <2>7
  <2> QED BY <2>6, <2>7
<1> QED BY <1>1, <1>2

\* A declaration of a modular unit adds what it introduces.
LEMMA ModularGen ==
  ASSUME IInv, ModularInv, Modular, pc = "gen", pos <= Len(Text),
         UNCHANGED <<job, files, unit, pc, objs>>, pos' = pos + 1,
         NEW new, new = << >> \/ (\E e : new = <<e>>), ToSet(new) = Introduced(unit, Text[pos]),
         items' = items \o new,
         \A r \in refs' : r \in refs \/ Has(unit, r.call),
         \A s \in declared' : s \in declared \/ \E d \in ToSet(Text) :
            d.is \in Functions /\ \E c \in d.calls : c.is = "field" /\ s = <<c.name>>
  PROVE  ModularInv'
<1>1. UnitOK /\ ModularUnit /\ unit \in 1..MainUnit
  BY DEF IInv, ModularInv
<1>2. IsSeq(new) /\ IsSeq(items)
  BY <1>1, ShortSeqs DEF UnitOK
<1>3. ToSet(items') = ToSet(items) \cup Introduced(unit, Text[pos])
  BY <1>2, Joined
<1>4. Loc(unit) \in DOMAIN files /\ Len(Text) \in Nat /\ DOMAIN Text = 1..Len(Text) /\ pos \in 1..Len(Text)
  <2>1. Loc(unit) \in DOMAIN files /\ pos \in 1..(Len(Text) + 1)
    BY <1>1 DEF UnitOK
  <2>2. Len(Text) \in Nat /\ DOMAIN Text = 1..Len(Text)
    BY <2>1, Parsed DEF Text
  <2> QED BY <2>1, <2>2
<1>5. 1..(pos' - 1) = (1..(pos - 1)) \cup {pos}
  BY <1>4
<1>6. ToSet(items') = UNION {Introduced(unit, Text[n]) : n \in 1..(pos' - 1)}
  <2>1. ToSet(items) = UNION {Introduced(unit, Text[n]) : n \in 1..(pos - 1)}
    BY <1>1 DEF ModularUnit
  <2> QED BY <1>3, <1>5, <2>1
<1>7. ~Twice(items')
  <2>1. ASSUME NEW e, new = <<e>>, NEW i \in ToSet(items), i.sym = e.sym PROVE FALSE
    <3>1. e \in Introduced(unit, Text[pos])
      BY <2>1, ShortSeqs
    <3>2. PICK n \in 1..(pos - 1) : i \in Introduced(unit, Text[n])
      BY <1>1 DEF ModularUnit
    <3>3. n \in 1..Len(Text) /\ n # pos
      BY <1>4
    <3> QED BY <1>1, <1>4, <2>1, <3>1, <3>2, <3>3, Distinct DEF Text
  <2>2. new = << >> \/ \E e : new = <<e>> /\ \A i \in ToSet(items) : i.sym # e.sym
    BY <2>1
  <2>3. ~Twice(items)
    BY <1>1 DEF ModularUnit
  <2> QED BY <1>2, <2>2, <2>3, StillOnce
<1>8. Text' = Text
  BY SameFiles DEF Text
<1>9. ModularUnit'
  <2>1. \A d : Introduced(unit, d)' = Introduced(unit, d)
    BY StaysModular
  <2>2. \A c : Has(unit, c)' = Has(unit, c)
    BY StaysModular
  <2>3. Twice(items)' = Twice(items')
    BY DEF Twice
  <2>4. (ToSet(items) = UNION {Introduced(unit, Text[n]) : n \in 1..(pos - 1)})'
    BY <1>6, <1>8, <2>1
  <2>5. \A r \in refs' : Has(unit, r.call)'
    BY <1>1, <2>2 DEF ModularUnit
  <2>6. \A s \in declared' : \E d \in ToSet(Text') :
          d.is \in Functions /\ \E c \in d.calls : c.is = "field" /\ s = <<c.name>>
    BY <1>1, <1>8 DEF ModularUnit
  <2> QED BY <1>7, <2>3, <2>4, <2>5, <2>6 DEF ModularUnit
<1>10. \A k \in 1..Len(objs) : ModularObject(k, objs[k])'
  BY StaysModular DEF ModularInv
<1> QED BY <1>9, <1>10 DEF ModularInv

LEMMA ModularInit == Init => ModularInv
<1> SUFFICES ASSUME Init PROVE ModularInv
  OBVIOUS
<1>1. pc = "open" /\ Len(objs) = 0
  BY DEF Init
<1>2. 1..Len(objs) = {}
  BY <1>1
<1> QED BY <1>1, <1>2 DEF ModularInv

LEMMA ModularOpen == IInv /\ ModularInv /\ Modular /\ OpenUnit => ModularInv'
<1> SUFFICES ASSUME IInv, ModularInv, Modular, OpenUnit PROVE ModularInv'
  OBVIOUS
<1>1. /\ UNCHANGED <<job, files, unit, objs>> /\ pos' = 1
      /\ items' = << >> /\ refs' = {} /\ declared' = {}
      /\ pc' = IF Opens THEN "gen" ELSE "failed"
  BY DEF OpenUnit
<1>2. Opens
  <2>1. CASE unit = MainUnit
    <3>1. UnitPath(unit) = job.main /\ UnitLocation = Located(job.cwd, job.main)
      BY <2>1, MainIs DEF UnitLocation
    <3>2. job.main # NoPath /\ Located(job.cwd, job.main) \in DOMAIN files
      BY FilesAssumption, NoPathAssumption DEF IInv
    <3> QED BY <3>1, <3>2 DEF Opens
  <2>2. CASE unit # MainUnit
    <3>1. unit \in ImportUnits
      BY <2>2, Units DEF IInv, ImportUnits
    <3> QED BY <3>1 DEF Modular, AllOpen, Opens, UnitLocation
  <2> QED BY <2>1, <2>2
<1>3. (ToSet(items) = UNION {Introduced(unit, Text[n]) : n \in 1..(pos - 1)})'
  <2>1. 1..(pos' - 1) = {}
    BY <1>1
  <2>2. ToSet(items') = {}
    BY <1>1, ShortSeqs
  <2> QED BY <2>1, <2>2
<1>4. ~Twice(items)'
  <2>1. DOMAIN items' = {}
    BY <1>1
  <2> QED BY <2>1 DEF Twice
<1>5. ModularUnit'
  BY <1>1, <1>3, <1>4 DEF ModularUnit
<1>6. \A k \in 1..Len(objs) : ModularObject(k, objs[k])'
  BY <1>1, StaysModular DEF ModularInv
<1> QED BY <1>1, <1>2, <1>5, <1>6 DEF ModularInv

LEMMA ModularFunc == IInv /\ ModularInv /\ Modular /\ GenFunc => ModularInv'
<1> SUFFICES ASSUME IInv, ModularInv, Modular, GenFunc PROVE ModularInv'
  OBVIOUS
<1> DEFINE def == Definition(unit, Decl)
<1>1. /\ pc = "gen" /\ pos \in 1..Len(Text) /\ Decl = Text[pos]
      /\ Decl \in ToSet(FileOf(unit).decls) /\ Decl.is \in Functions
  BY Generated DEF GenFunc
<1>2. /\ UNCHANGED <<job, files, unit, pc, objs>> /\ pos' = pos + 1
      /\ items' = items \o <<def>>
  BY ThisUnit DEF GenFunc, Emit, Definition
<1>3. ToSet(<<def>>) = Introduced(unit, Text[pos])
  BY <1>1, ShortSeqs DEF Introduced
<1>4. \A r \in refs' : r \in refs \/ Has(unit, r.call)
  <2> SUFFICES ASSUME NEW r \in refs', r \notin refs PROVE Has(unit, r.call)
    OBVIOUS
  <2>1. refs' = refs \cup UNION {{[call |-> c, sym |-> sym] : sym \in SymbolsOf(c)} : c \in Decl.calls}
    BY DEF GenFunc
  <2>2. PICK c \in Decl.calls : r \in {[call |-> c, sym |-> sym] : sym \in SymbolsOf(c)}
    BY <2>1
  <2>3. r.call = c
    BY <2>2
  <2> QED BY <1>1, <2>3 DEF Has
<1>5. \A s \in declared' : s \in declared \/ \E d \in ToSet(Text) :
        d.is \in Functions /\ \E c \in d.calls : c.is = "field" /\ s = <<c.name>>
  <2> SUFFICES ASSUME NEW s \in declared', s \notin declared
               PROVE  \E c \in Decl.calls : c.is = "field" /\ s = <<c.name>>
    BY <1>1 DEF Text
  <2> QED BY DEF GenFunc
<1>6. pos <= Len(Text)
  BY <1>1
<1> HIDE DEF def
<1> QED BY <1>1, <1>2, <1>3, <1>4, <1>5, <1>6, ModularGen

\* The declarations that are not of functions use nothing.
LEMMA ModularOther ==
  ASSUME IInv, ModularInv, Modular, NEW kinds, Generating(kinds), UNCHANGED <<refs, declared>>,
         NEW new, Emit(new), new = << >> \/ (\E e : new = <<e>>), ToSet(new) = Introduced(unit, Text[pos])
  PROVE  ModularInv'
<1>1. pc = "gen" /\ pos <= Len(Text)
  BY Generated
<1>2. UNCHANGED <<job, files, unit, pc, objs>> /\ pos' = pos + 1 /\ items' = items \o new
  BY DEF Emit
<1>3. /\ \A r \in refs' : r \in refs \/ Has(unit, r.call)
      /\ \A s \in declared' : s \in declared \/ \E d \in ToSet(Text) :
           d.is \in Functions /\ \E c \in d.calls : c.is = "field" /\ s = <<c.name>>
  OBVIOUS
<1> QED BY <1>1, <1>2, <1>3, ModularGen

LEMMA ModularFuncDecl == IInv /\ ModularInv /\ Modular /\ GenFuncDecl => ModularInv'
<1> SUFFICES ASSUME IInv, ModularInv, Modular, GenFuncDecl PROVE ModularInv'
  OBVIOUS
<1> DEFINE item == Declaration(Decl.name)
<1>1. Generating({"proto"}) /\ Emit(<<item>>) /\ UNCHANGED <<refs, declared>>
  BY ThisUnit DEF GenFuncDecl, Declaration
<1>2. Decl = Text[pos] /\ Decl.is = "proto"
  BY <1>1, Generated
<1>3. ToSet(<<item>>) = Introduced(unit, Text[pos])
  BY <1>2, ShortSeqs DEF Introduced, Functions, Variables
<1> HIDE DEF item
<1> QED BY <1>1, <1>3, ModularOther

LEMMA ModularExtern == IInv /\ ModularInv /\ Modular /\ GenExtern => ModularInv'
<1> SUFFICES ASSUME IInv, ModularInv, Modular, GenExtern PROVE ModularInv'
  OBVIOUS
<1> DEFINE item == Declaration(Decl.name)
<1>1. /\ Generating({"extern"}) /\ UNCHANGED <<refs, declared>>
      /\ Emit(IF Decl.name \in HeaderDeclares THEN << >> ELSE <<item>>)
  BY ThisUnit DEF GenExtern, Declaration
<1>2. Decl = Text[pos] /\ Decl.is = "extern"
  BY <1>1, Generated
<1> HIDE DEF item
<1>3. CASE Decl.name \in HeaderDeclares
  <2>1. Emit(<< >>)
    BY <1>1, <1>3
  <2>2. ToSet(<< >>) = Introduced(unit, Text[pos])
    BY <1>2, <1>3, ShortSeqs DEF Introduced, Functions, Variables
  <2> QED BY <1>1, <2>1, <2>2, ModularOther
<1>4. CASE Decl.name \notin HeaderDeclares
  <2>1. Emit(<<item>>)
    BY <1>1, <1>4
  <2>2. ToSet(<<item>>) = Introduced(unit, Text[pos])
    BY <1>2, <1>4, ShortSeqs DEF Introduced, Functions, Variables, item
  <2> QED BY <1>1, <2>1, <2>2, ModularOther
<1> QED BY <1>3, <1>4

LEMMA ModularGlobal == IInv /\ ModularInv /\ Modular /\ GenGlobal => ModularInv'
<1> SUFFICES ASSUME IInv, ModularInv, Modular, GenGlobal PROVE ModularInv'
  OBVIOUS
<1> DEFINE item == Item(Decl.is, <<Decl.name>>, <<Loc(unit), Decl.name>>)
<1>1. Generating(Variables) /\ Emit(<<item>>) /\ UNCHANGED <<refs, declared>>
  BY ThisUnit DEF GenGlobal
<1>2. Decl = Text[pos] /\ Decl.is \in Variables
  BY <1>1, Generated
<1>3. ToSet(<<item>>) = Introduced(unit, Text[pos])
  BY <1>2, ShortSeqs DEF Introduced, Functions, Variables
<1> HIDE DEF item
<1> QED BY <1>1, <1>3, ModularOther

LEMMA ModularSkip == IInv /\ ModularInv /\ Modular /\ SkipDecl => ModularInv'
<1> SUFFICES ASSUME IInv, ModularInv, Modular, SkipDecl PROVE ModularInv'
  OBVIOUS
<1>1. Generating({"other"}) /\ Emit(<< >>) /\ UNCHANGED <<refs, declared>>
  BY DEF SkipDecl
<1>2. Decl = Text[pos] /\ Decl.is = "other"
  BY <1>1, Generated
<1>3. ToSet(<< >>) = Introduced(unit, Text[pos])
  BY <1>2, ShortSeqs DEF Introduced, Functions, Variables
<1> QED BY <1>1, <1>3, ModularOther

\* The text of a finished unit is what its declarations introduce.
LEMMA WholeText ==
  ASSUME IInv, ModularInv, Modular, pc = "gen", pos > Len(Text)
  PROVE  /\ unit \in 1..MainUnit /\ Loc(unit) \in DOMAIN files /\ ModularUnit /\ UnitOK
         /\ \A i \in ToSet(items) : \E d \in ToSet(Text) : i \in Introduced(unit, d)
         /\ \A d \in ToSet(Text) : Introduced(unit, d) \subseteq ToSet(items)
<1>1. unit \in 1..MainUnit /\ UnitOK /\ ModularUnit /\ Loc(unit) \in DOMAIN files
  BY DEF IInv, ModularInv, UnitOK
<1>2. Len(Text) \in Nat /\ DOMAIN Text = 1..Len(Text) /\ 1..(pos - 1) = DOMAIN Text
  <2>1. Len(Text) \in Nat /\ DOMAIN Text = 1..Len(Text)
    BY <1>1, Parsed DEF Text
  <2>2. pos \in 1..(Len(Text) + 1)
    BY <1>1 DEF UnitOK
  <2> QED BY <2>1, <2>2
<1>3. ToSet(items) = UNION {Introduced(unit, Text[n]) : n \in DOMAIN Text}
  BY <1>1, <1>2 DEF ModularUnit
<1>4. ASSUME NEW i \in ToSet(items) PROVE \E d \in ToSet(Text) : i \in Introduced(unit, d)
  <2>1. PICK n \in DOMAIN Text : i \in Introduced(unit, Text[n])
    BY <1>3
  <2> QED BY <2>1 DEF ToSet
<1>5. ASSUME NEW d \in ToSet(Text) PROVE Introduced(unit, d) \subseteq ToSet(items)
  <2>1. PICK n \in DOMAIN Text : d = Text[n]
    BY DEF ToSet
  <2> QED BY <1>3, <2>1
<1> QED BY <1>1, <1>4, <1>5

\* A call of a modular unit uses what the unit introduces, its header
\* included: a function of its own, a declaration or a form of the runtime.
LEMMA UsesIntroduced ==
  ASSUME IInv, ModularInv, Modular, pc = "gen", pos > Len(Text), NEW r \in refs
  PROVE  \/ \E d \in ToSet(Text) : \E i \in Introduced(unit, d) : i.sym = r.sym
         \/ \E i \in Header(unit) : i.sym = r.sym
         \/ r.sym \in declared
<1> DEFINE c == r.call
<1>1. unit \in 1..MainUnit /\ Loc(unit) \in DOMAIN files /\ ModularUnit /\ UnitOK
  BY WholeText
<1>2. r.sym \in Uses(unit, c) /\ RefOK(unit, r, declared) /\ c \in Calls
  BY <1>1 DEF UnitOK, RefOK
<1>3. Resolved(unit, c)
  BY <1>1, CallResolved DEF ModularUnit
<1>5. CASE c.is = "ident"
  <2>1. r.sym = Symbol(unit, c.name)
    BY <1>2, <1>5 DEF Uses
  <2>2. CASE c.name \in Named(FileOf(unit), Functions)
    <3>1. PICK d \in ToSet(Text) : d.is \in Functions /\ d.name = c.name
      BY <2>2 DEF Named, Text
    <3>2. Introduced(unit, d) = {Definition(unit, d)} /\ Definition(unit, d).sym = r.sym
      BY <2>1, <3>1 DEF Introduced, Definition, Item
    <3> QED BY <3>1, <3>2
  <2>3. CASE c.name \notin Named(FileOf(unit), Functions)
    <3>1. r.sym = <<c.name>>
      <4>1. c.name \notin Locals(unit)
        BY <2>3 DEF Locals, Named, Functions
      <4> QED BY <2>1, <4>1 DEF Symbol
    <3>2. PICK d \in ToSet(Text) : d.is \in {"extern", "proto"} /\ d.name = c.name
      BY <1>3, <1>5, <2>3 DEF Resolved, Named, Text
    <3>3. CASE d.is = "proto" \/ c.name \notin HeaderDeclares
      <4>1. Introduced(unit, d) = {Declaration(c.name)} /\ Declaration(c.name).sym = r.sym
        BY <3>1, <3>2, <3>3 DEF Introduced, Functions, Variables, Declaration, Item
      <4> QED BY <3>2, <4>1
    <3>4. CASE c.name \in HeaderDeclares
      <4>1. unit = MainUnit
        <5> SUFFICES ASSUME c.name \in Foreign(unit) \cup {"puts"} PROVE FALSE
          BY <1>3, <1>5, <2>3 DEF Resolved
        <5>1. PICK j \in 1..MainUnit : c.name \in Bare(j)
          BY <3>4 DEF HeaderDeclares, Foreign
        <5>2. WithinLimits(j)
          BY DEF Modular
        <5> QED BY <3>4, <5>1, <5>2 DEF WithinLimits, Reserved
      <4>2. Declaration(c.name) \in Header(unit) /\ Declaration(c.name).sym = r.sym
        BY <3>1, <3>4, <4>1 DEF Header, Declaration, Item
      <4> QED BY <4>2
    <3> QED BY <3>2, <3>3, <3>4
  <2> QED BY <2>2, <2>3
<1>6. CASE c.is = "field"
  <2>1. r.sym = <<c.name>> /\ c.module \in Modules(unit)
    BY <1>2, <1>3, <1>6 DEF Uses, Resolved, Modules
  <2> QED BY <1>2, <1>6, <2>1 DEF RefOK
<1>7. CASE c.is = "builtin"
  <2>1. unit = MainUnit /\ c.name # "mod" /\ c.name \in DOMAIN RuntimeCalls
    BY <1>2, <1>3, <1>7 DEF Resolved, Calls
  <2>2. PICK n \in RuntimeCalls[c.name] : r.sym = <<n>>
    BY <1>2, <1>7 DEF Uses
  <2>3. n \in HeaderDeclares \cup HeaderDefines \cup {"uc_abs"}
    BY <2>1, <2>2 DEF RuntimeCalls, HeaderDeclares, HeaderDefines
  <2>4. CASE n \in HeaderDeclares
    <3>1. Declaration(n) \in Header(unit) /\ Declaration(n).sym = r.sym
      BY <2>1, <2>2, <2>4 DEF Header, Declaration, Item
    <3> QED BY <3>1
  <2>5. CASE n \in HeaderDefines \cup {"uc_abs"}
    <3>1. Shim(n) \in Header(unit) /\ Shim(n).sym = r.sym
      BY <2>1, <2>2, <2>5 DEF Header, Shim, Item
    <3> QED BY <3>1
  <2> QED BY <2>3, <2>4, <2>5
<1> QED BY <1>2, <1>5, <1>6, <1>7 DEF Calls

LEMMA ModularAccepted ==
  ASSUME IInv, ModularInv, Modular, pc = "gen", pos > Len(Text)
  PROVE  /\ LlcAccepts(Builtins \cup {Item("declare", s, Nobody) : s \in declared}, items, refs)
         /\ \A b \in Builtins : b.sym \notin declared
        /\ InitialisersFit(File)
<1> DEFINE externs == {Item("declare", s, Nobody) : s \in declared}
           header  == Header(unit) \cup externs
<1>1. unit \in 1..MainUnit /\ Loc(unit) \in DOMAIN files /\ ModularUnit /\ UnitOK
  BY WholeText
<1>2. Builtins = Header(unit)
  BY <1>1, ThisHeader
<1>3. \A b \in Builtins : b.sym \notin declared
  BY <1>1, <1>2, DeclaredIsForeign
<1>4. \A e \in externs : e.sym \in declared /\ e = Item("declare", e.sym, Nobody)
  BY DEF Item
<1>5. \A s \in declared : \E e \in externs : e.sym = s
  <2> TAKE s \in declared
  <2>1. Item("declare", s, Nobody) \in externs /\ Item("declare", s, Nobody).sym = s
    BY DEF Item
  <2> QED BY <2>1
<1> HIDE DEF externs
<1>6. \A i, j \in DOMAIN items : items[i].sym = items[j].sym => i = j
  BY <1>1 DEF ModularUnit, Twice
<1>7. ASSUME NEW g \in Header(unit), NEW h \in Header(unit), g.sym = h.sym PROVE g = h
  <2>1. PICK n \in Reserved : g.sym = <<n>> /\ (n \in HeaderDeclares => g = Declaration(n))
                                            /\ (n \notin HeaderDeclares => g = Shim(n))
    BY HeaderItems
  <2>2. PICK m \in Reserved : h.sym = <<m>> /\ (m \in HeaderDeclares => h = Declaration(m))
                                            /\ (m \notin HeaderDeclares => h = Shim(m))
    BY HeaderItems
  <2> QED BY <1>7, <2>1, <2>2, NoMoreThanOne
<1>8. ASSUME NEW h \in header, NEW i \in (header \ {h}) \cup ToSet(items), i.sym = h.sym PROVE FALSE
  <2>1. CASE i \in ToSet(items)
    <3>1. PICK d \in ToSet(Text) : i \in Introduced(unit, d)
      BY <2>1, WholeText
    <3>2. CASE h \in Header(unit)
      <4>1. PICK n \in Reserved : h.sym = <<n>>
        BY <3>2, HeaderItems
      <4> QED BY <1>1, <1>8, <3>1, <4>1, NoNameReserved DEF Text
    <3>3. CASE h \in externs
      BY <1>1, <1>4, <1>8, <3>1, <3>3, DeclaredIsForeign
    <3> QED BY <3>2, <3>3
  <2>2. CASE i \in header \ {h}
    <3>1. CASE h \in Header(unit) /\ i \in Header(unit)
      BY <1>7, <1>8, <2>2, <3>1
    <3>2. CASE h \in externs /\ i \in externs
      BY <1>4, <1>8, <2>2, <3>2
    <3>3. CASE (h \in Header(unit) /\ i \in externs) \/ (h \in externs /\ i \in Header(unit))
      BY <1>1, <1>4, <1>8, <3>3, DeclaredIsForeign
    <3> QED BY <2>2, <3>1, <3>2, <3>3
  <2> QED BY <1>8, <2>1, <2>2
<1>9. \A r \in refs : \E i \in header \cup ToSet(items) : i.sym = r.sym
  <2> TAKE r \in refs
  <2>1. \A d \in ToSet(Text) : Introduced(unit, d) \subseteq ToSet(items)
    BY WholeText
  <2> QED BY <1>5, <2>1, UsesIntroduced
<1>10. LlcAccepts(header, items, refs)
  BY <1>6, <1>8, <1>9 DEF LlcAccepts
<1>12. InitialisersFit(File)
  BY <1>1, ThisUnit DEF Modular, WithinLimits
<1>11. header = Builtins \cup {Item("declare", s, Nobody) : s \in declared}
  BY <1>2 DEF externs
<1> QED BY <1>3, <1>10, <1>11, <1>12

LEMMA ModularFinish == IInv /\ ModularInv /\ Modular /\ FinishUnit => ModularInv'
<1> SUFFICES ASSUME IInv, ModularInv, Modular, FinishUnit PROVE ModularInv'
  OBVIOUS
<1> DEFINE externs == {Item("declare", s, Nobody) : s \in declared}
           obj     == [file |-> UnitLocation, items |-> Builtins \cup externs \cup ToSet(items), refs |-> refs]
<1>1. /\ pc = "gen" /\ pos > Len(Text) /\ UNCHANGED <<job, files, pos>>
  BY ThisUnit DEF FinishUnit
<1>2. /\ LlcAccepts(Builtins \cup externs, items, refs)
      /\ \A b \in Builtins : b.sym \notin declared
      /\ InitialisersFit(File)
  BY <1>1, ModularAccepted
<1>3. objs' = Append(objs, obj) /\ pc' \in {"link", "open"}
  BY <1>2 DEF FinishUnit
<1>4. /\ unit \in 1..MainUnit /\ Loc(unit) \in DOMAIN files /\ ModularUnit
      /\ \A i \in ToSet(items) : \E d \in ToSet(Text) : i \in Introduced(unit, d)
      /\ \A d \in ToSet(Text) : Introduced(unit, d) \subseteq ToSet(items)
  BY <1>1, WholeText
<1>5. ModularObject(unit, obj)
  <2>1. Builtins = Header(unit)
    BY <1>4, ThisHeader
  <2>2. obj.items = Header(unit) \cup externs \cup ToSet(items) /\ obj.refs = refs
    BY <2>1
  <2>3. \A i \in externs : i.is = "declare"
    BY DEF Item
  <2> HIDE DEF obj, externs
  <2>4. \A i \in Strong(obj) : i \in Header(unit) \/ \E d \in ToSet(FileOf(unit).decls) : i \in Introduced(unit, d)
    BY <1>4, <2>2, <2>3 DEF Strong, Text
  <2>5. \A d \in ToSet(FileOf(unit).decls) : Introduced(unit, d) \subseteq obj.items
    BY <1>4, <2>2 DEF Text
  <2>6. \A r \in obj.refs : Has(unit, r.call)
    BY <1>4, <2>2 DEF ModularUnit
  <2> QED BY <2>2, <2>4, <2>5, <2>6 DEF ModularObject
<1> HIDE DEF obj
<1>6. /\ Len(objs) = unit - 1 /\ Len(objs') = unit
      /\ \A k \in 1..Len(objs) : objs'[k] = objs[k]
      /\ objs'[unit] = obj
  BY <1>1, <1>3, <1>4, Appended DEF IInv
<1>7. \A k \in 1..Len(objs') : ModularObject(k, objs'[k])
  <2> SUFFICES ASSUME NEW k \in 1..unit PROVE ModularObject(k, objs'[k])
    BY <1>6
  <2>1. CASE k = unit
    BY <1>5, <1>6, <2>1
  <2>2. CASE k # unit
    <3>1. k \in 1..Len(objs)
      BY <1>4, <1>6, <2>2
    <3> QED BY <1>6, <3>1 DEF ModularInv
  <2> QED BY <2>1, <2>2
<1>8. (\A k \in 1..Len(objs) : ModularObject(k, objs[k]))'
  BY <1>1, <1>7, StaysModular
<1> QED BY <1>3, <1>8 DEF ModularInv

-----------------------------------------------------------------------------
\* What two units show the linker has different names.
LEMMA StrongNames ==
  ASSUME IInv, Modular, NEW k \in 1..MainUnit, Loc(k) \in DOMAIN files,
         NEW o, ModularObject(k, o), NEW i \in Strong(o)
  PROVE  \/ \E n \in Bare(k) : i.sym = <<n>>
         \/ k = MainUnit /\ \E n \in Reserved : i.sym = <<n>>
         \/ k = MainUnit /\ \E m, n : i.sym = <<m, n>>
<1>1. CASE i \in Header(k)
  BY <1>1, HeaderItems
<1>2. CASE \E d \in ToSet(FileOf(k).decls) : i \in Introduced(k, d)
  <2>1. PICK d \in ToSet(FileOf(k).decls) : i \in Introduced(k, d)
    BY <1>2
  <2>2. i.is \in {"define", "global"}
    BY DEF Strong
  <2>3. d.is \in Functions \cup {"global"}
    BY <2>1, <2>2, IntroducedSymbol DEF Variables
  <2>4. CASE i.sym = <<d.name>>
    BY <2>1, <2>3, <2>4, BareNames
  <2>5. CASE i.sym # <<d.name>>
    BY <2>1, <2>5, IntroducedSymbol
  <2> QED BY <2>4, <2>5
<1> QED BY <1>1, <1>2 DEF ModularObject

LEMMA ModularLinks == IInv /\ ModularInv /\ Modular /\ pc = "link" => Links
<1> SUFFICES ASSUME IInv, ModularInv, Modular, pc = "link" PROVE Links
  OBVIOUS
<1>1. /\ MainUnit \in Nat /\ MainUnit \in 1..MainUnit /\ Len(objs) = MainUnit /\ DOMAIN objs = 1..MainUnit
  BY Units DEF IInv, IsSeq
<1>2. \A k \in 1..MainUnit : /\ ModularObject(k, objs[k]) /\ ObjectOK(k, objs[k]) /\ Loc(k) \in DOMAIN files
                             /\ objs[k] \in ToSet(objs)
  BY <1>1 DEF IInv, ModularInv, ObjectOK, ToSet
<1>3. \A o \in ToSet(objs) : \E k \in 1..MainUnit : o = objs[k]
  BY <1>1 DEF ToSet
<1>4. ASSUME NEW j \in 1..MainUnit, NEW k \in 1..MainUnit, j # k,
             NEW a \in Strong(objs[j]), NEW b \in Strong(objs[k]), a.sym = b.sym
      PROVE  FALSE
  <2>1. \A m, n \in 1..MainUnit : m # n => Bare(m) \cap Bare(n) = {}
    BY DEF Modular
  <2>2. \A m \in 1..MainUnit : Reserved \cap Bare(m) = {}
    BY DEF Modular, WithinLimits
  <2>3. \/ \E n \in Bare(j) : a.sym = <<n>>
        \/ j = MainUnit /\ \E n \in Reserved : a.sym = <<n>>
        \/ j = MainUnit /\ \E m, n : a.sym = <<m, n>>
    BY <1>2, StrongNames
  <2>4. \/ \E n \in Bare(k) : b.sym = <<n>>
        \/ k = MainUnit /\ \E n \in Reserved : b.sym = <<n>>
        \/ k = MainUnit /\ \E m, n : b.sym = <<m, n>>
    BY <1>2, StrongNames
  <2>5. CASE (\E n \in Bare(j) : a.sym = <<n>>) /\ (\E n \in Bare(k) : b.sym = <<n>>)
    BY <1>4, <2>1, <2>5, NoMoreThanOne
  <2>6. CASE (\E n \in Bare(j) : a.sym = <<n>>) /\ ~(\E n \in Bare(k) : b.sym = <<n>>)
    BY <1>4, <2>2, <2>4, <2>6, NoMoreThanOne, Lengths
  <2>7. CASE ~(\E n \in Bare(j) : a.sym = <<n>>) /\ (\E n \in Bare(k) : b.sym = <<n>>)
    BY <1>4, <2>2, <2>3, <2>7, NoMoreThanOne, Lengths
  <2> QED BY <1>4, <2>3, <2>4, <2>5, <2>6, <2>7
<1>5. \A j, k \in DOMAIN objs : j # k => \A i \in Strong(objs[j]) : ~Defines(objs[k], i.sym)
  BY <1>1, <1>4 DEF Defines
<1>6. ASSUME NEW k \in 1..MainUnit, NEW name \in Bare(k)
      PROVE  \E i \in Strong(objs[k]) : i.sym = <<name>>
  <2>1. PICK d \in ToSet(FileOf(k).decls) : TRUE
    <3>1. \E e \in ToSet(FileOf(k).decls) : e.name = name
      BY DEF Bare, Named
    <3> QED BY <3>1
  <2>2. PICK e \in ToSet(FileOf(k).decls) :
          \E i \in Introduced(k, e) : i.sym = <<name>> /\ i.is \in {"define", "global"}
    BY <1>2, <2>1, BareNames
  <2>3. PICK i \in Introduced(k, e) : i.sym = <<name>> /\ i.is \in {"define", "global"}
    BY <2>2
  <2> QED BY <1>2, <2>3 DEF ModularObject, Strong
<1>7. \E o \in ToSet(objs) : Defines(o, <<"main">>)
  <2>1. "main" \in Bare(MainUnit)
    BY MainIs DEF Modular, Bare
  <2>2. Defines(objs[MainUnit], <<"main">>)
    BY <1>1, <1>6, <2>1 DEF Defines
  <2> QED BY <1>1, <1>2, <2>2
<1>8. ASSUME NEW k \in 1..MainUnit, NEW r \in objs[k].refs
      PROVE  \/ \E i \in objs[k].items : i.sym = r.sym /\ i.is # "declare"
             \/ \E p \in ToSet(objs) : \E i \in Strong(p) : i.sym = r.sym
             \/ r.sym \in LibcSymbols
  <2> DEFINE c == r.call
  <2>1. Resolved(k, c) /\ r.sym \in Uses(k, c) /\ c \in Calls
    BY <1>2, CallResolved DEF ModularObject, ObjectOK, RefOK
  <2>2. ASSUME NEW n \in Foreign(k), r.sym = <<n>>
        PROVE  \E p \in ToSet(objs) : \E i \in Strong(p) : i.sym = r.sym
    <3>1. PICK j \in 1..MainUnit : n \in Bare(j)
      BY DEF Foreign
    <3> QED BY <1>2, <1>6, <2>2, <3>1
  <2>3. ASSUME NEW n \in HeaderDeclares \cup {"puts"}, r.sym = <<n>> PROVE r.sym \in LibcSymbols
    BY <2>3 DEF LibcSymbols
  <2>4. CASE c.is = "ident"
    <3>1. r.sym = Symbol(k, c.name)
      BY <2>1, <2>4 DEF Uses
    <3>2. CASE c.name \in Named(FileOf(k), Functions)
      <4>1. PICK d \in ToSet(FileOf(k).decls) : d.is \in Functions /\ d.name = c.name
        BY <3>2 DEF Named
      <4>2. Definition(k, d) \in objs[k].items
        BY <1>2, <4>1 DEF ObjectOK
      <4>3. Definition(k, d).sym = r.sym /\ Definition(k, d).is = "define"
        BY <3>1, <4>1 DEF Definition, Item
      <4> QED BY <4>2, <4>3
    <3>3. CASE c.name \notin Named(FileOf(k), Functions)
      <4>1. r.sym = <<c.name>>
        <5>1. c.name \notin Locals(k)
          BY <3>3 DEF Locals, Named, Functions
        <5> QED BY <3>1, <5>1 DEF Symbol
      <4>2. c.name \in Foreign(k) \/ c.name \in HeaderDeclares \cup {"puts"}
        BY <2>1, <2>4, <3>3 DEF Resolved
      <4> QED BY <2>2, <2>3, <4>1, <4>2
    <3> QED BY <3>2, <3>3
  <2>5. CASE c.is = "field"
    <3>1. r.sym = <<c.name>> /\ c.name \in Foreign(k)
      BY <2>1, <2>5 DEF Uses, Resolved
    <3> QED BY <2>2, <3>1
  <2>6. CASE c.is = "builtin"
    <3>1. k = MainUnit /\ c.name # "mod" /\ c.name \in DOMAIN RuntimeCalls
      BY <2>1, <2>6 DEF Resolved, Calls
    <3>2. PICK n \in RuntimeCalls[c.name] : r.sym = <<n>>
      BY <2>1, <2>6 DEF Uses
    <3>3. n \in HeaderDeclares \cup HeaderDefines \cup {"uc_abs"}
      BY <3>1, <3>2 DEF RuntimeCalls, HeaderDeclares, HeaderDefines
    <3>4. CASE n \in HeaderDefines \cup {"uc_abs"}
      <4>1. Shim(n) \in objs[k].items
        BY <1>2, <3>1, <3>4 DEF Header, ModularObject
      <4>2. Shim(n).sym = r.sym /\ Shim(n).is = "define"
        BY <3>2 DEF Shim, Item
      <4> QED BY <4>1, <4>2
    <3> QED BY <2>3, <3>2, <3>3, <3>4
  <2> QED BY <2>1, <2>4, <2>5, <2>6 DEF Calls
<1>9. ASSUME NEW o \in ToSet(objs), NEW r \in o.refs PROVE Reached(o, r.sym) # {}
  <2> DEFINE sym == r.sym
             own == {i \in o.items : i.sym = sym /\ i.is # "declare"}
             far == UNION {{i \in Strong(p) : i.sym = sym} : p \in ToSet(objs)}
  <2>1. own # {} \/ far # {} \/ sym \in LibcSymbols
    <3>1. PICK k \in 1..MainUnit : o = objs[k]
      BY <1>3
    <3> QED BY <1>8, <3>1
  <2>2. /\ own # {} => Reached(o, sym) = {i.of : i \in own}
        /\ own = {} /\ far # {} => Reached(o, sym) = {i.of : i \in far}
        /\ own = {} /\ far = {} => Reached(o, sym) = IF sym \in LibcSymbols THEN {<<Libc, sym[1]>>} ELSE {}
    BY ReachedIs
  <2> HIDE DEF own, far
  <2>3. \A S : S # {} => {i.of : i \in S} # {}
    OBVIOUS
  <2> QED BY <2>1, <2>2, <2>3
<1> QED BY <1>5, <1>7, <1>9 DEF Links

LEMMA ModularLinkUnits == IInv /\ ModularInv /\ Modular /\ LinkUnits => ModularInv'
<1> SUFFICES ASSUME IInv, ModularInv, Modular, LinkUnits PROVE ModularInv'
  OBVIOUS
<1>1. UNCHANGED <<job, files, objs>> /\ pc' = "built"
  BY ModularLinks DEF LinkUnits
<1>2. \A k \in 1..Len(objs) : ModularObject(k, objs[k])'
  BY <1>1, StaysModular DEF ModularInv
<1> QED BY <1>1, <1>2 DEF ModularInv

LEMMA ModularNext == IInv /\ ModularInv /\ [Next]_vars => ModularInv'
<1> SUFFICES ASSUME IInv, ModularInv, [Next]_vars PROVE ModularInv'
  OBVIOUS
<1>1. Modular' = Modular
  <2>1. UNCHANGED <<job, files>>
    BY DEF Next, vars, OpenUnit, GenFunc, GenFuncDecl, GenExtern, GenGlobal, SkipDecl, Emit,
           FinishUnit, LinkUnits
  <2> QED BY <2>1, StaysModular
<1>2. CASE ~Modular
  BY <1>1, <1>2 DEF ModularInv
<1>3. CASE Modular /\ UNCHANGED vars
  <2>1. \A k \in 1..Len(objs) : ModularObject(k, objs[k])'
    BY <1>3, StaysModular DEF ModularInv, vars
  <2>2. ModularUnit' = ModularUnit
    BY <1>3, SameFiles, StaysModular DEF ModularUnit, vars, Text, Twice
  <2> QED BY <1>3, <2>1, <2>2 DEF ModularInv, vars
<1>4. CASE Modular /\ Next
  BY <1>4, ModularOpen, ModularFunc, ModularFuncDecl, ModularExtern, ModularGlobal, ModularSkip,
     ModularFinish, ModularLinkUnits DEF Next
<1> QED BY <1>2, <1>3, <1>4

-----------------------------------------------------------------------------
(***************************************************************************)
(* Paths.                                                                  *)
(***************************************************************************)
Plain(s) == \A k \in 1..Len(s) : s[k] \notin {".", ".."}

LEMMA Fronts ==
  ASSUME NEW s \in Seq(Segments), s # << >>
  PROVE  /\ Front(s) \in Seq(Segments) /\ Len(s) \in Nat \ {0} /\ Len(Front(s)) = Len(s) - 1
         /\ \A k \in 1..(Len(s) - 1) : Front(s)[k] = s[k]
<1>1. Len(s) \in Nat \ {0} /\ \A k \in 1..Len(s) : s[k] \in Segments
  BY EmptySeq, ElementOfSeq
<1>2. PICK n \in Nat : n = Len(s) - 1
  BY <1>1
<1>3. 1 \in Int /\ n \in Int /\ \A k \in 1..n : s[k] \in Segments
  BY <1>1, <1>2
<1>4. /\ SubSeq(s, 1, n) \in Seq(Segments)
      /\ Len(SubSeq(s, 1, n)) = IF 1 <= n THEN n - 1 + 1 ELSE 0
      /\ \A k \in 1..(n - 1 + 1) : SubSeq(s, 1, n)[k] = s[1 + k - 1]
  BY <1>3, SubSeqProperties
<1>5. Len(SubSeq(s, 1, n)) = n
  BY <1>2, <1>4
<1>6. \A k \in 1..n : SubSeq(s, 1, n)[k] = s[k]
  <2> TAKE k \in 1..n
  <2>1. k \in 1..(n - 1 + 1) /\ 1 + k - 1 = k
    BY <1>2
  <2> QED BY <1>4, <2>1
<1>7. Front(s) = SubSeq(s, 1, n)
  BY <1>2 DEF Front
<1> QED BY <1>1, <1>2, <1>4, <1>5, <1>6, <1>7

\* The places of a concatenation.
LEMMA Places ==
  ASSUME NEW c \in Seq(Segments), NEW s \in Seq(Segments)
  PROVE  /\ c \o s \in Seq(Segments) /\ Len(c) \in Nat /\ Len(s) \in Nat /\ Len(c \o s) = Len(c) + Len(s)
         /\ \A k \in 1..Len(c) : (c \o s)[k] = c[k]
         /\ \A k \in 1..Len(s) : (c \o s)[Len(c) + k] = s[k]
OBVIOUS

\* Two sequences that agree before and after some place.
LEMMA SamePlaces ==
  ASSUME NEW a \in Seq(Segments), NEW b \in Seq(Segments), NEW l \in Nat, NEW m \in Nat,
         Len(a) = l + m, Len(b) = l + m, \A k \in 1..l : a[k] = b[k],
         \A k \in 1..m : a[l + k] = b[l + k]
  PROVE  a = b
<1>1. \A k \in 1..(l + m) : a[k] = b[k]
  <2> TAKE k \in 1..(l + m)
  <2>1. CASE k <= l
    BY <2>1
  <2>2. CASE k > l
    <3>1. k - l \in 1..m /\ l + (k - l) = k
      BY <2>2
    <3>2. a[l + (k - l)] = b[l + (k - l)]
      BY <3>1
    <3> QED BY <3>1, <3>2
  <2> QED BY <2>1, <2>2
<1> QED BY <1>1, SeqEqual

LEMMA OneSeq == ASSUME NEW S, NEW e \in S PROVE <<e>> \in Seq(S)
OBVIOUS

\* What is put before a sequence stays when its end changes.
LEMMA Prefixed ==
  ASSUME NEW c \in Seq(Segments), NEW s \in Seq(Segments)
  PROVE  /\ c \o s \in Seq(Segments)
         /\ \A x \in Segments : Append(c \o s, x) = c \o Append(s, x)
         /\ s # << >> => c \o s # << >> /\ Front(c \o s) = c \o Front(s)
<1>1. c \o s \in Seq(Segments) /\ Len(c) \in Nat /\ Len(s) \in Nat /\ Len(c \o s) = Len(c) + Len(s)
  BY Places
<1>2. ASSUME NEW x \in Segments PROVE Append(c \o s, x) = c \o Append(s, x)
  <2>1. Append(s, x) = s \o <<x>> /\ Append(c \o s, x) = (c \o s) \o <<x>> /\ <<x>> \in Seq(Segments)
    <3>1. <<x>> \in Seq(Segments) /\ Append(s, x) = s \o <<x>>
      <4>1. <<x>> \in Seq(Segments)
        BY OneSeq
      <4>2. Append(s, x) = s \o <<x>>
        BY AppendIsConcat
      <4> QED BY <4>1, <4>2
    <3> DEFINE cs == c \o s
    <3>2. cs \in Seq(Segments)
      BY <1>1
    <3> HIDE DEF cs
    <3>3. Append(cs, x) = cs \o <<x>>
      BY <3>2, AppendIsConcat
    <3> QED BY <3>1, <3>3 DEF cs
  <2> QED BY <2>1, ConcatAssociative
<1>3. ASSUME s # << >> PROVE c \o s # << >> /\ Front(c \o s) = c \o Front(s)
  <2>1. /\ Len(s) \in Nat \ {0} /\ Front(s) \in Seq(Segments) /\ Len(Front(s)) = Len(s) - 1
        /\ \A k \in 1..(Len(s) - 1) : Front(s)[k] = s[k]
    BY <1>3, Fronts
  <2>2. c \o s # << >>
    BY <1>1, <2>1
  <2> DEFINE cs == c \o s
             cf == c \o Front(s)
  <2>3. /\ cf \in Seq(Segments) /\ Len(cf) = Len(c) + Len(Front(s))
        /\ \A k \in 1..Len(c) : cf[k] = c[k]
        /\ \A k \in 1..Len(Front(s)) : cf[Len(c) + k] = Front(s)[k]
    BY <2>1, Places
  <2>4. /\ cs \in Seq(Segments) /\ cs # << >> /\ Len(cs) = Len(c) + Len(s)
        /\ \A k \in 1..Len(c) : cs[k] = c[k]
        /\ \A k \in 1..Len(s) : cs[Len(c) + k] = s[k]
    BY <1>1, <2>2, Places
  <2> HIDE DEF cs, cf
  <2>5. /\ Front(cs) \in Seq(Segments) /\ Len(Front(cs)) = Len(cs) - 1
        /\ \A k \in 1..(Len(cs) - 1) : Front(cs)[k] = cs[k]
    BY <2>4, Fronts
  <2>6. PICK m \in Nat : m = Len(s) - 1
    BY <2>1
  <2>7. Len(cf) = Len(c) + m /\ Len(Front(cs)) = Len(c) + m
    BY <1>1, <2>1, <2>3, <2>4, <2>5, <2>6
  <2>8. \A k \in 1..Len(c) : Front(cs)[k] = cf[k]
    <3> TAKE k \in 1..Len(c)
    <3>1. k \in 1..(Len(cs) - 1)
      BY <1>1, <2>1, <2>4
    <3> QED BY <2>3, <2>4, <2>5, <3>1
  <2>9. \A k \in 1..m : Front(cs)[Len(c) + k] = cf[Len(c) + k]
    <3> TAKE k \in 1..m
    <3>1. Len(c) + k \in 1..(Len(cs) - 1) /\ k \in 1..Len(s) /\ k \in 1..(Len(s) - 1)
      BY <1>1, <2>1, <2>4, <2>6
    <3>2. Front(cs)[Len(c) + k] = cs[Len(c) + k]
      BY <2>5, <3>1
    <3> QED BY <2>1, <2>3, <2>4, <3>1, <3>2
  <2>10. Front(cs) = cf
    <3> DEFINE f == Front(cs)
    <3>1. f \in Seq(Segments) /\ Len(f) = Len(c) + m /\ cf \in Seq(Segments) /\ Len(c) \in Nat
      BY <1>1, <2>3, <2>5, <2>7
    <3>2. /\ \A k \in 1..Len(c) : f[k] = cf[k]
          /\ \A k \in 1..m : f[Len(c) + k] = cf[Len(c) + k]
      BY <2>8, <2>9
    <3> HIDE DEF f
    <3> QED BY <2>7, <3>1, <3>2, SamePlaces DEF f
  <2> QED BY <2>2, <2>10 DEF cs, cf
<1> QED BY <1>1, <1>2, <1>3

LEMMA PlainMoves ==
  ASSUME NEW s \in Seq(Segments), Plain(s)
  PROVE  /\ \A x \in Segments \ {".", ".."} : Plain(Append(s, x))
         /\ s # << >> => Plain(Front(s))
<1>1. Len(s) \in Nat
  OBVIOUS
<1>2. ASSUME NEW x \in Segments \ {".", ".."} PROVE Plain(Append(s, x))
  <2>1. /\ Len(Append(s, x)) = Len(s) + 1
        /\ \A k \in 1..Len(s) : Append(s, x)[k] = s[k]
        /\ Append(s, x)[Len(s) + 1] = x
    BY AppendProperties
  <2> QED BY <1>1, <2>1 DEF Plain
<1>3. ASSUME s # << >> PROVE Plain(Front(s))
  <2>1. Len(Front(s)) = Len(s) - 1 /\ \A k \in 1..(Len(s) - 1) : Front(s)[k] = s[k]
    BY <1>3, Fronts
  <2> QED BY <1>1, <2>1 DEF Plain
<1> QED BY <1>2, <1>3

-----------------------------------------------------------------------------
(* The recursive functions.                                                *)
LEMMA JoinSegmentType ==
  \A path \in Paths \cup {NoPath}, seg \in Segments : JoinSegment(path, seg) \in Paths \cup {NoPath}
<1> TAKE path \in Paths \cup {NoPath}, seg \in Segments
<1>1. CASE path = NoPath \/ seg = "."
  BY <1>1 DEF JoinSegment
<1>2. CASE path # NoPath /\ seg # "." /\ seg # ".."
  BY <1>2, AppendProperties DEF JoinSegment, Path, Paths
<1>3. CASE path # NoPath /\ seg = ".."
  <2>1. path \in Paths
    BY <1>3
  <2>2. JoinSegment(path, seg) = Pop(path)
    BY <1>3 DEF JoinSegment
  <2>3. EmptyPath \in Paths
    BY DEF EmptyPath, Path, Paths
  <2>4. ASSUME ~(Len(path.segs) <= 1) PROVE Path(path.root, Front(path.segs)) \in Paths
    <3>1. path.segs \in Seq(Segments) /\ path.segs # << >> /\ path.root \in BOOLEAN
      BY <2>1, <2>4 DEF Paths
    <3> QED BY <3>1, Fronts DEF Path, Paths
  <2> QED BY <2>2, <2>3, <2>4 DEF Pop
<1> QED BY <1>1, <1>2, <1>3

Joinable == Paths \cup {NoPath}
LEMMA PathRecursion ==
  ASSUME NEW n \in Nat, NEW x \in Joinable, NEW F \in [Joinable \X (1..n) -> Joinable]
  PROVE  \E g \in [0..n -> Joinable] : g[0] = x /\ \A i \in 1..n : g[i] = F[<<g[i - 1], i>>]
<1>1. HasRun(Joinable, n, x, F)
  BY Run DEF IsStep
<1> QED BY <1>1 DEF HasRun

LEMMA JoinsFacts ==
  ASSUME NEW base \in Paths, NEW segs \in Seq(Segments)
  PROVE  /\ Joins(base, segs) \in [0..Len(segs) -> Joinable]
         /\ Joins(base, segs)[0] = base
         /\ \A i \in 1..Len(segs) : Joins(base, segs)[i] = JoinSegment(Joins(base, segs)[i - 1], segs[i])
<1> DEFINE S == Joinable
           n == Len(segs)
           F == [x \in S \X (1..n) |-> JoinSegment(x[1], segs[x[2]])]
           Is(g) == g = [i \in 0..n |-> IF i = 0 THEN base ELSE JoinSegment(g[i - 1], segs[i])]
<1>1. n \in Nat /\ \A i \in 1..n : segs[i] \in Segments
  BY ElementOfSeq
<1>2. F \in [S \X (1..n) -> S]
  BY <1>1, JoinSegmentType DEF Joinable
<1>3. PICK g \in [0..n -> S] : g[0] = base /\ \A i \in 1..n : g[i] = F[<<g[i - 1], i>>]
  <2>1. base \in Joinable
    BY DEF Joinable
  <2> HIDE DEF n, F
  <2> QED BY <1>1, <1>2, <2>1, PathRecursion
<1>4. ASSUME NEW i \in 1..n PROVE i - 1 \in 0..n /\ F[<<g[i - 1], i>>] = JoinSegment(g[i - 1], segs[i])
  <2>1. i - 1 \in 0..n
    BY <1>1
  <2>2. g[i - 1] \in S
    BY <2>1
  <2> QED BY <2>1, <2>2
<1>5. Is(g)
  <2>1. \A i \in 0..n : g[i] = IF i = 0 THEN base ELSE JoinSegment(g[i - 1], segs[i])
    <3> TAKE i \in 0..n
    <3>1. CASE i = 0
      BY <1>3, <3>1
    <3>2. CASE i # 0
      <4>1. i \in 1..n
        BY <1>1, <3>2
      <4> HIDE DEF F
      <4> QED BY <1>3, <1>4, <3>2, <4>1
    <3> QED BY <3>1, <3>2
  <2>2. g = [i \in 0..n |-> g[i]]
    BY <1>3
  <2> QED BY <2>1, <2>2
<1>6. Joins(base, segs) = CHOOSE h : Is(h)
  BY DEF Joins
<1>7. PICK j : j = Joins(base, segs) /\ Is(j)
  <2> HIDE DEF Is
  <2> QED BY <1>5, <1>6
<1>8. j[0] = base /\ DOMAIN j = 0..n /\ \A i \in 1..n : j[i] = JoinSegment(j[i - 1], segs[i])
  BY <1>1, <1>7
<1> DEFINE P == {i \in Nat : i <= n => j[i] \in S}
<1>9. 0 \in P
  BY <1>8 DEF Joinable
<1>10. ASSUME NEW i \in Nat, i \in P PROVE i + 1 \in P
  <2> SUFFICES ASSUME i + 1 <= n PROVE j[i + 1] \in S
    OBVIOUS
  <2>1. i + 1 \in 1..n /\ (i + 1) - 1 = i /\ j[i] \in S
    BY <1>1, <1>10
  <2>2. j[i + 1] = JoinSegment(j[i], segs[i + 1]) /\ segs[i + 1] \in Segments
    BY <1>1, <1>8, <2>1
  <2> QED BY <2>1, <2>2, JoinSegmentType DEF Joinable
<1>11. \A i \in Nat : i \in P
  <2> HIDE DEF P
  <2> QED BY <1>9, <1>10, SetInduct
<1>12. \A i \in 0..n : j[i] \in S
  BY <1>1, <1>11
<1>13. j \in [0..n -> S]
  <2>1. j = [i \in 0..n |-> j[i]]
    BY <1>7
  <2> QED BY <1>12, <2>1
<1> QED BY <1>7, <1>8, <1>13

LEMMA MoveType == \A at \in Seq(Segments), seg \in Segments : Move(at, seg) \in Seq(Segments)
<1> TAKE at \in Seq(Segments), seg \in Segments
<1>1. CASE seg = "."
  BY <1>1 DEF Move
<1>2. CASE seg = ".."
  <2>1. at # << >> => Front(at) \in Seq(Segments)
    BY Fronts
  <2> QED BY <1>2, <2>1 DEF Move
<1>3. CASE seg # "." /\ seg # ".."
  <2>1. Append(at, seg) \in Seq(Segments)
    BY AppendProperties
  <2> QED BY <1>3, <2>1 DEF Move
<1> QED BY <1>1, <1>2, <1>3

Place == Seq(Segments)
LEMMA PlaceRecursion ==
  ASSUME NEW n \in Nat, NEW x \in Place, NEW F \in [Place \X (1..n) -> Place]
  PROVE  \E g \in [0..n -> Place] : g[0] = x /\ \A i \in 1..n : g[i] = F[<<g[i - 1], i>>]
<1>1. HasRun(Place, n, x, F)
  BY Run DEF IsStep
<1> QED BY <1>1 DEF HasRun

LEMMA WalkFacts ==
  ASSUME NEW from \in Seq(Segments), NEW segs \in Seq(Segments)
  PROVE  /\ Walk(from, segs)[0] = from
         /\ \A i \in 0..Len(segs) : Walk(from, segs)[i] \in Seq(Segments)
         /\ \A i \in 1..Len(segs) : Walk(from, segs)[i] = Move(Walk(from, segs)[i - 1], segs[i])
<1> DEFINE n == Len(segs)
           F == [x \in Place \X (1..n) |-> Move(x[1], segs[x[2]])]
           Is(g) == g = [i \in 0..n |-> IF i = 0 THEN from ELSE Move(g[i - 1], segs[i])]
<1>1. n \in Nat /\ \A i \in 1..n : segs[i] \in Segments
  BY ElementOfSeq
<1>2. F \in [Place \X (1..n) -> Place]
  BY <1>1, MoveType DEF Place
<1>3. PICK g \in [0..n -> Place] : g[0] = from /\ \A i \in 1..n : g[i] = F[<<g[i - 1], i>>]
  <2>1. from \in Place
    BY DEF Place
  <2> HIDE DEF n, F
  <2> QED BY <1>1, <1>2, <2>1, PlaceRecursion
<1>4. ASSUME NEW i \in 1..n PROVE i - 1 \in 0..n /\ F[<<g[i - 1], i>>] = Move(g[i - 1], segs[i])
  <2>1. i - 1 \in 0..n
    BY <1>1
  <2>2. g[i - 1] \in Place
    BY <2>1
  <2> QED BY <2>1, <2>2
<1>5. Is(g)
  <2>1. \A i \in 0..n : g[i] = IF i = 0 THEN from ELSE Move(g[i - 1], segs[i])
    <3> TAKE i \in 0..n
    <3>1. CASE i = 0
      BY <1>3, <3>1
    <3>2. CASE i # 0
      <4>1. i \in 1..n
        BY <1>1, <3>2
      <4> HIDE DEF F
      <4> QED BY <1>3, <1>4, <3>2, <4>1
    <3> QED BY <3>1, <3>2
  <2>2. g = [i \in 0..n |-> g[i]]
    BY <1>3
  <2> QED BY <2>1, <2>2
<1>6. Walk(from, segs) = CHOOSE h : Is(h)
  BY DEF Walk
<1>7. PICK w : w = Walk(from, segs) /\ Is(w)
  <2> HIDE DEF Is
  <2> QED BY <1>5, <1>6
<1>8. w[0] = from /\ \A i \in 1..n : w[i] = Move(w[i - 1], segs[i])
  BY <1>1, <1>7
<1> DEFINE P == {i \in Nat : i <= n => w[i] \in Seq(Segments)}
<1>9. 0 \in P
  BY <1>8
<1>10. ASSUME NEW i \in Nat, i \in P PROVE i + 1 \in P
  <2> SUFFICES ASSUME i + 1 <= n PROVE w[i + 1] \in Seq(Segments)
    OBVIOUS
  <2>1. i + 1 \in 1..n /\ (i + 1) - 1 = i /\ w[i] \in Seq(Segments)
    BY <1>1, <1>10
  <2>2. w[i + 1] = Move(w[i], segs[i + 1]) /\ segs[i + 1] \in Segments
    BY <1>1, <1>8, <2>1
  <2> QED BY <2>1, <2>2, MoveType
<1>11. \A i \in Nat : i \in P
  <2> HIDE DEF P
  <2> QED BY <1>9, <1>10, SetInduct
<1>12. \A i \in 0..n : w[i] \in Seq(Segments)
  BY <1>1, <1>11
<1> QED BY <1>7, <1>8, <1>12

Level == Int
LEMMA LevelRecursion ==
  ASSUME NEW n \in Nat, NEW x \in Level, NEW F \in [Level \X (1..n) -> Level]
  PROVE  \E g \in [0..n -> Level] : g[0] = x /\ \A i \in 1..n : g[i] = F[<<g[i - 1], i>>]
<1>1. HasRun(Level, n, x, F)
  BY Run DEF IsStep
<1> QED BY <1>1 DEF HasRun

LEMMA DepthsFacts ==
  ASSUME NEW segs \in Seq(Segments)
  PROVE  /\ Depths(segs)[0] = 0
         /\ \A i \in 0..Len(segs) : Depths(segs)[i] \in Int
         /\ \A i \in 1..Len(segs) : Depths(segs)[i] = Depths(segs)[i - 1] + Down(segs[i])
<1> DEFINE n == Len(segs)
           F == [x \in Level \X (1..n) |-> x[1] + Down(segs[x[2]])]
           Is(g) == g = [i \in 0..n |-> IF i = 0 THEN 0 ELSE g[i - 1] + Down(segs[i])]
<1>1. n \in Nat /\ \A seg : Down(seg) \in Int
  BY DEF Down
<1>2. F \in [Level \X (1..n) -> Level]
  BY <1>1 DEF Level
<1>3. PICK g \in [0..n -> Level] : g[0] = 0 /\ \A i \in 1..n : g[i] = F[<<g[i - 1], i>>]
  <2>1. 0 \in Level
    BY DEF Level
  <2> HIDE DEF n, F
  <2> QED BY <1>1, <1>2, <2>1, LevelRecursion
<1>4. ASSUME NEW i \in 1..n PROVE i - 1 \in 0..n /\ F[<<g[i - 1], i>>] = g[i - 1] + Down(segs[i])
  <2>1. i - 1 \in 0..n
    BY <1>1
  <2>2. g[i - 1] \in Level
    BY <2>1
  <2> QED BY <2>1, <2>2
<1>5. Is(g)
  <2>1. \A i \in 0..n : g[i] = IF i = 0 THEN 0 ELSE g[i - 1] + Down(segs[i])
    <3> TAKE i \in 0..n
    <3>1. CASE i = 0
      BY <1>3, <3>1
    <3>2. CASE i # 0
      <4>1. i \in 1..n
        BY <1>1, <3>2
      <4> HIDE DEF F
      <4> QED BY <1>3, <1>4, <3>2, <4>1
    <3> QED BY <3>1, <3>2
  <2>2. g = [i \in 0..n |-> g[i]]
    BY <1>3
  <2> QED BY <2>1, <2>2
<1>6. Depths(segs) = CHOOSE h : Is(h)
  BY DEF Depths
<1>7. PICK w : w = Depths(segs) /\ Is(w)
  <2> HIDE DEF Is
  <2> QED BY <1>5, <1>6
<1>8. w[0] = 0 /\ \A i \in 1..n : w[i] = w[i - 1] + Down(segs[i])
  BY <1>1, <1>7
<1> DEFINE P == {i \in Nat : i <= n => w[i] \in Int}
<1>9. 0 \in P
  BY <1>8
<1>10. ASSUME NEW i \in Nat, i \in P PROVE i + 1 \in P
  <2> SUFFICES ASSUME i + 1 <= n PROVE w[i + 1] \in Int
    OBVIOUS
  <2>1. i + 1 \in 1..n /\ (i + 1) - 1 = i /\ w[i] \in Int
    BY <1>1, <1>10
  <2>2. w[i + 1] = w[i] + Down(segs[i + 1])
    BY <1>1, <1>8, <2>1
  <2> QED BY <1>1, <2>1, <2>2
<1>11. \A i \in Nat : i \in P
  <2> HIDE DEF P
  <2> QED BY <1>9, <1>10, SetInduct
<1>12. \A i \in 0..n : w[i] \in Int
  BY <1>1, <1>11
<1> QED BY <1>7, <1>8, <1>12

LEMMA MovePlain ==
  \A at, seg : seg \notin {".", ".."} => Move(at, seg) = Append(at, seg)
BY DEF Move

\* A sequence up to place i + 1.
LEMMA NextPrefix ==
  ASSUME NEW s \in Seq(Segments), NEW i \in Nat, i + 1 <= Len(s)
  PROVE  /\ SubSeq(s, 1, i) \in Seq(Segments) /\ s[i + 1] \in Segments
         /\ SubSeq(s, 1, i + 1) = Append(SubSeq(s, 1, i), s[i + 1])
<1>1. PICK n \in Nat : n = Len(s)
  OBVIOUS
<1>2. /\ 1 \in 1..Len(s) /\ i + 1 \in 1..Len(s) /\ (i + 1) - 1 = i /\ i \in Int /\ 1 \in Int
      /\ \A k \in 1..i : k \in 1..Len(s)
  BY <1>1
<1>3. \A k \in 1..Len(s) : s[k] \in Segments
  BY ElementOfSeq
<1>4. SubSeq(s, 1, i) \in Seq(Segments)
  BY <1>2, <1>3, SubSeqProperties
<1>5. SubSeq(s, 1, i + 1) = SubSeq(s, 1, (i + 1) - 1) \o <<s[i + 1]>>
  BY <1>2, SubSeqRecursiveSecond
<1> DEFINE t == SubSeq(s, 1, i)
           x == s[i + 1]
<1>6. SubSeq(s, 1, i + 1) = t \o <<x>> /\ x \in Segments /\ t \in Seq(Segments)
  BY <1>2, <1>3, <1>4, <1>5
<1>7. Append(t, x) = t \o <<x>>
  <2> HIDE DEF t, x
  <2> QED BY <1>6, AppendIsConcat
<1> QED BY <1>6, <1>7

\* Names only: the walk appends them.
LEMMA PlainWalk ==
  ASSUME NEW from \in Seq(Segments), NEW segs \in Seq(Segments), Plain(segs)
  PROVE  Walk(from, segs)[Len(segs)] = from \o segs
<1> DEFINE w == Walk(from, segs)
           n == Len(segs)
           Came(i) == from \o SubSeq(segs, 1, i)
           P == {i \in Nat : i <= n => w[i] = Came(i)}
<1>1. n \in Nat /\ \A i \in 1..n : segs[i] \in Segments \ {".", ".."}
  BY ElementOfSeq DEF Plain
<1>2. w[0] = from /\ \A i \in 1..n : w[i] = Move(w[i - 1], segs[i])
  BY WalkFacts
<1>3. Came(0) = from
  <2>1. SubSeq(segs, 1, 0) = << >>
    BY SubSeqEmpty
  <2>2. from \o << >> = from
    BY ConcatEmptySeq
  <2> QED BY <2>1, <2>2
<1>4. ASSUME NEW i \in Nat, i + 1 <= n
      PROVE  Came(i + 1) = Append(Came(i), segs[i + 1])
  <2> DEFINE t == SubSeq(segs, 1, i)
             x == segs[i + 1]
  <2>1. t \in Seq(Segments) /\ x \in Segments /\ SubSeq(segs, 1, i + 1) = Append(t, x)
    BY <1>4, NextPrefix
  <2> HIDE DEF t, x
  <2>2. Append(from \o t, x) = from \o Append(t, x)
    BY <2>1, Prefixed
  <2> QED BY <2>1, <2>2 DEF t, x
<1>5. Came(n) = from \o segs
  BY SubSeqFull
<1> HIDE DEF w, n, Came
<1>6. 0 \in P
  BY <1>2, <1>3
<1>7. ASSUME NEW i \in Nat, i \in P PROVE i + 1 \in P
  <2> SUFFICES ASSUME i + 1 <= n PROVE w[i + 1] = Came(i + 1)
    OBVIOUS
  <2>1. i + 1 \in 1..n /\ (i + 1) - 1 = i /\ w[i] = Came(i)
    BY <1>1, <1>7
  <2>2. w[i + 1] = Move(w[i], segs[i + 1]) /\ segs[i + 1] \notin {".", ".."}
    BY <1>1, <1>2, <2>1
  <2> QED BY <1>4, <2>1, <2>2, MovePlain
<1>8. n \in P
  <2> HIDE DEF P
  <2> QED BY <1>1, <1>6, <1>7, SetInduct
<1> QED BY <1>1, <1>5, <1>8 DEF w, n

\* One segment, from a directory given by names.
LEMMA OneJoin ==
  ASSUME NEW c \in Seq(Segments), NEW t \in Seq(Segments), Plain(t), NEW x \in Segments, NEW root \in BOOLEAN
  PROVE  LET joined == JoinSegment(Path(root, t), x)
             at     == Move(c \o t, x)
         IN  /\ x = ".." /\ t = << >> /\ ~root => joined = NoPath
             /\ ~(x = ".." /\ (t = << >> \/ (root /\ Len(t) = 1))) =>
                  \E u \in Seq(Segments) : /\ joined = Path(root, u) /\ Plain(u)
                                         /\ at = c \o u /\ Len(u) = Len(t) + Down(x)
<1> DEFINE p == Path(root, t)
           v == c \o t
           l == Len(t)
           Is(u) == JoinSegment(p, x) = Path(root, u) /\ Plain(u) /\ Move(v, x) = c \o u /\ Len(u) = l + Down(x)
<1>1. p \in Paths /\ p # NoPath /\ p.root = root /\ p.segs = t
  BY NoPathAssumption DEF Path, Paths
<1>2. l \in Nat
  OBVIOUS
<1>3. CASE x = "."
  <2>1. JoinSegment(p, x) = p /\ Move(v, x) = v /\ Down(x) = 0
    BY <1>3 DEF JoinSegment, Move, Down
  <2>2. l = l + 0
    BY <1>2
  <2>3. Is(t)
    BY <2>1, <2>2
  <2> QED BY <1>3, <2>3
<1>4. CASE x = ".." /\ t = << >>
  <2>1. ~root => JoinSegment(p, x) = NoPath
    BY <1>1, <1>4 DEF JoinSegment, Pop, EmptyPath
  <2> QED BY <1>4, <2>1
<1>5. CASE x = ".." /\ t # << >> /\ ~(root /\ l = 1)
  <2>1. /\ l \in Nat \ {0} /\ Front(t) \in Seq(Segments) /\ Len(Front(t)) = l - 1 /\ Plain(Front(t))
    BY <1>5, Fronts, PlainMoves
  <2>2. v # << >> /\ Front(v) = c \o Front(t)
    BY <1>5, Prefixed
  <2>3. Move(v, x) = Front(v) /\ JoinSegment(p, x) = Pop(p) /\ Down(x) = -1
    BY <1>1, <1>5, <2>2 DEF Move, JoinSegment, Down
  <2>4. p # EmptyPath
    BY <1>1, <1>5 DEF EmptyPath, Path
  <2>5. Pop(p) = Path(root, Front(t))
    <3>1. CASE l <= 1
      <4>1. l = 1 /\ ~root
        BY <1>5, <2>1, <3>1
      <4>2. Len(Front(t)) = 0
        BY <2>1, <4>1
      <4>3. Front(t) = << >>
        BY <2>1, <4>2, EmptySeq
      <4> QED BY <1>1, <2>4, <4>1, <4>3 DEF Pop, EmptyPath
    <3>2. CASE ~(l <= 1)
      BY <1>1, <2>4, <3>2 DEF Pop
    <3> QED BY <3>1, <3>2
  <2>6. l + -1 = l - 1
    BY <1>2
  <2>7. Is(Front(t))
    BY <2>1, <2>2, <2>3, <2>5, <2>6
  <2> QED BY <1>5, <2>1, <2>7
<1>6. CASE x # "." /\ x # ".."
  <2>1. JoinSegment(p, x) = Path(root, Append(t, x)) /\ Move(v, x) = Append(v, x) /\ Down(x) = 1
    BY <1>1, <1>6 DEF JoinSegment, Move, Down
  <2>2. /\ Append(t, x) \in Seq(Segments) /\ Len(Append(t, x)) = l + 1 /\ Plain(Append(t, x))
        /\ Append(v, x) = c \o Append(t, x)
    <3>1. Append(t, x) \in Seq(Segments) /\ Len(Append(t, x)) = l + 1
      BY AppendProperties
    <3>2. Plain(Append(t, x))
      BY <1>6, PlainMoves
    <3>3. Append(v, x) = c \o Append(t, x)
      BY Prefixed
    <3> QED BY <3>1, <3>2, <3>3
  <2>3. Is(Append(t, x))
    BY <2>1, <2>2
  <2> QED BY <1>6, <2>2, <2>3
<1>7. CASE x = ".." /\ root /\ l = 1
  <2>1. t # << >>
    BY <1>7
  <2> QED BY <1>7, <2>1
<1> QED BY <1>3, <1>4, <1>5, <1>6, <1>7

\* From a relative directory given by names, path_join goes where the walk
\* goes, as long as the walk does not climb above cwd.
LEMMA RelativeJoins ==
  ASSUME NEW cwd \in Seq(Segments), NEW dir \in Seq(Segments), NEW segs \in Seq(Segments), Plain(dir)
  PROVE  LET end == Len(segs)
         IN  /\ ClimbsAbove(segs, Len(dir)) => Joins(Path(FALSE, dir), segs)[end] = NoPath
             /\ ~ClimbsAbove(segs, Len(dir)) =>
                  \E t \in Seq(Segments) : /\ Joins(Path(FALSE, dir), segs)[end] = Path(FALSE, t) /\ Plain(t)
                                         /\ Walk(cwd \o dir, segs)[end] = cwd \o t
<1> DEFINE base  == Path(FALSE, dir)
           j     == Joins(base, segs)
           w     == Walk(cwd \o dir, segs)
           d     == Depths(segs)
           n     == Len(segs)
           h     == Len(dir)
           On(i, t) == j[i] = Path(FALSE, t) /\ Plain(t) /\ Len(t) = h + d[i] /\ w[i] = cwd \o t
           In(i) == \E t \in Seq(Segments) : On(i, t)
           Out(i) == \E m \in 0..i : d[m] + h < 0
           P == {i \in Nat : i <= n => IF Out(i) THEN j[i] = NoPath ELSE In(i)}
<1>1. n \in Nat /\ h \in Nat /\ \A i \in 1..n : segs[i] \in Segments
  BY ElementOfSeq
<1>2. base \in Paths /\ cwd \o dir \in Seq(Segments)
  <2>1. base \in Paths
    BY DEF Path, Paths
  <2>2. cwd \o dir \in Seq(Segments)
    BY Places
  <2> QED BY <2>1, <2>2
<1>3. /\ j[0] = base /\ \A i \in 1..n : j[i] = JoinSegment(j[i - 1], segs[i])
      /\ w[0] = cwd \o dir /\ \A i \in 1..n : w[i] = Move(w[i - 1], segs[i])
      /\ d[0] = 0 /\ (\A i \in 0..n : d[i] \in Int) /\ \A i \in 1..n : d[i] = d[i - 1] + Down(segs[i])
  <2> HIDE DEF base
  <2>1. j[0] = base /\ \A i \in 1..n : j[i] = JoinSegment(j[i - 1], segs[i])
    BY <1>2, JoinsFacts
  <2>2. w[0] = cwd \o dir /\ \A i \in 1..n : w[i] = Move(w[i - 1], segs[i])
    BY <1>2, WalkFacts
  <2>3. d[0] = 0 /\ (\A i \in 0..n : d[i] \in Int) /\ \A i \in 1..n : d[i] = d[i - 1] + Down(segs[i])
    BY DepthsFacts
  <2> QED BY <2>1, <2>2, <2>3
<1>4. On(0, dir)
  <2>1. h = h + 0
    BY <1>1
  <2> QED BY <1>3, <2>1
<1>5. Out(n) <=> ClimbsAbove(segs, Len(dir))
  BY DEF ClimbsAbove
<1>6. ASSUME NEW t \in Seq(Segments), NEW x \in Segments, Plain(t)
      PROVE  /\ x = ".." /\ t = << >> => JoinSegment(Path(FALSE, t), x) = NoPath
             /\ ~(x = ".." /\ t = << >>) =>
                  \E u \in Seq(Segments) : /\ JoinSegment(Path(FALSE, t), x) = Path(FALSE, u) /\ Plain(u)
                                         /\ Move(cwd \o t, x) = cwd \o u /\ Len(u) = Len(t) + Down(x)
  BY <1>6, OneJoin
<1>7. ASSUME NEW t \in Seq(Segments)
      PROVE  Path(FALSE, t) # NoPath /\ Len(t) \in Nat /\ (t = << >> => Len(t) = 0) /\ (Len(t) = 0 => t = << >>)
  <2>1. Path(FALSE, t) \in Paths
    BY DEF Path, Paths
  <2>2. Len(t) = 0 => t = << >>
    BY EmptySeq
  <2>3. Path(FALSE, t) # NoPath
    BY <2>1, NoPathAssumption
  <2>4. Len(t) \in Nat /\ (t = << >> => Len(t) = 0)
    OBVIOUS
  <2> QED BY <2>2, <2>3, <2>4
<1>8. Down("..") = -1 /\ \A x : Down(x) \in Int /\ (x # ".." => Down(x) >= 0)
  BY DEF Down
<1>9. JoinSegment(NoPath, "") = NoPath /\ \A x : JoinSegment(NoPath, x) = NoPath
  BY DEF JoinSegment
<1> HIDE DEF base, j, w, d, n, h
<1>10. 0 \in P
  <2>1. ~Out(0)
    BY <1>1, <1>3
  <2>2. In(0)
    BY <1>4
  <2> HIDE DEF Out, In
  <2> QED BY <2>1, <2>2
<1>11. ASSUME NEW i \in Nat, i \in P PROVE i + 1 \in P
  <2> SUFFICES ASSUME i + 1 <= n PROVE IF Out(i + 1) THEN j[i + 1] = NoPath ELSE In(i + 1)
    <3> HIDE DEF In, Out
    <3> QED OBVIOUS
  <2>1. PICK x \in Segments : x = segs[i + 1]
    <3>1. i + 1 \in 1..n
      BY <1>1
    <3> QED BY <1>1, <3>1
  <2>2. /\ i <= n
        /\ j[i + 1] = JoinSegment(j[i], x) /\ w[i + 1] = Move(w[i], x)
        /\ d[i + 1] = d[i] + Down(x) /\ d[i] \in Int /\ d[i + 1] \in Int
    <3>1. i + 1 \in 1..n /\ i \in 0..n /\ i + 1 \in 0..n /\ (i + 1) - 1 = i
      BY <1>1
    <3> QED BY <1>1, <1>3, <2>1, <3>1
  <2>3. Out(i + 1) <=> Out(i) \/ d[i + 1] + h < 0
    <3>1. 0..(i + 1) = (0..i) \cup {i + 1}
      OBVIOUS
    <3> QED BY <3>1
  <2>4. IF Out(i) THEN j[i] = NoPath ELSE In(i)
    BY <1>11, <2>2
  <2>5. CASE Out(i)
    BY <1>9, <2>2, <2>3, <2>4, <2>5
  <2>6. CASE ~Out(i)
    <3>1. PICK t \in Seq(Segments) : On(i, t)
      BY <2>4, <2>6
    <3> DEFINE l == Len(t)
    <3>2. l \in Nat /\ l = h + d[i] /\ d[i + 1] + h = l + Down(x) /\ Down(x) \in Int
      <4>1. l \in Nat /\ l = h + d[i] /\ Down(x) \in Int
        BY <1>7, <1>8, <3>1
      <4>2. d[i + 1] = d[i] + Down(x) /\ d[i] \in Int /\ d[i + 1] \in Int
        BY <2>2
      <4>3. h \in Nat
        BY <1>1
      <4>5. PICK a \in Int : a = d[i]
        BY <4>2
      <4>6. PICK y \in Int : y = Down(x)
        BY <4>1
      <4>7. PICK b \in Int : b = d[i + 1]
        BY <4>2
      <4>8. PICK k \in Nat : k = l
        BY <4>1
      <4> HIDE DEF l
      <4>9. k = h + a /\ b = a + y
        BY <4>1, <4>2, <4>5, <4>6, <4>7, <4>8
      <4>4. b + h = k + y
        BY <4>9, <4>3
      <4> QED BY <4>1, <4>4, <4>6, <4>7, <4>8
    <3>3. CASE x = ".." /\ t = << >>
      <4>1. j[i + 1] = NoPath
        BY <1>6, <2>2, <3>1, <3>3
      <4>2. l = 0
        BY <1>7, <3>3
      <4>3. d[i + 1] + h < 0
        <5> HIDE DEF l
        <5> QED BY <1>8, <3>2, <3>3, <4>2
      <4>4. Out(i + 1)
        BY <2>3, <4>3
      <4> QED BY <4>1, <4>4
    <3>4. CASE ~(x = ".." /\ t = << >>)
      <4>1. PICK u \in Seq(Segments) : /\ JoinSegment(Path(FALSE, t), x) = Path(FALSE, u) /\ Plain(u)
                                     /\ Move(cwd \o t, x) = cwd \o u /\ Len(u) = Len(t) + Down(x)
        BY <1>6, <3>1, <3>4
      <4>2. l + Down(x) >= 0
        <5>1. l = 0 => x # ".."
          BY <1>7, <3>4
        <5>2. Down(x) >= -1 /\ (x # ".." => Down(x) >= 0)
          BY <1>8
        <5> HIDE DEF l
        <5> QED BY <3>2, <5>1, <5>2
      <4>3. ~(d[i + 1] + h < 0) /\ l + Down(x) = h + d[i + 1]
        <5>1. d[i + 1] = d[i] + Down(x) /\ d[i] \in Int /\ d[i + 1] \in Int
          BY <2>2
        <5> HIDE DEF l
        <5>2. d[i + 1] + h = l + Down(x) /\ h \in Nat /\ d[i + 1] \in Int
          BY <1>1, <3>2, <5>1
        <5>5. PICK b \in Int : b = d[i + 1]
          BY <5>1
        <5> HIDE DEF l
        <5>9. PICK k \in Nat : k = l
          BY <3>2
        <5>10. PICK z \in Int : z = Down(x)
          BY <3>2
        <5>7. k + z >= 0 /\ b + h = k + z
          BY <4>2, <5>2, <5>5, <5>9, <5>10
        <5>8. ~(b + h < 0) /\ k + z = h + b
          BY <5>2, <5>7
        <5> QED BY <5>5, <5>8, <5>9, <5>10
      <4>4. On(i + 1, u)
        <5>1. j[i + 1] = Path(FALSE, u)
          BY <2>2, <3>1, <4>1
        <5>2. w[i + 1] = cwd \o u
          BY <2>2, <3>1, <4>1
        <5>3. Len(u) = h + d[i + 1]
          BY <4>1, <4>3
        <5> QED BY <4>1, <5>1, <5>2, <5>3
      <4>5. In(i + 1) /\ ~Out(i + 1)
        <5>1. In(i + 1)
          BY <4>4
        <5>2. ~Out(i + 1)
          <6> HIDE DEF Out
          <6> QED BY <2>3, <2>6, <4>3
        <5> QED BY <5>1, <5>2
      <4> HIDE DEF In, Out
      <4> QED BY <4>5
    <3> QED BY <3>3, <3>4
  <2> HIDE DEF In, Out
  <2> QED BY <2>5, <2>6
<1>12. n \in P
  <2> HIDE DEF P
  <2> QED BY <1>1, <1>10, <1>11, SetInduct
<1>13. IF Out(n) THEN j[n] = NoPath ELSE In(n)
  <2> HIDE DEF In, Out
  <2> QED BY <1>1, <1>12
<1>14. ~Out(n) => \E t \in Seq(Segments) : j[n] = Path(FALSE, t) /\ Plain(t) /\ w[n] = cwd \o t
  BY <1>13
<1>15. Out(n) => j[n] = NoPath
  BY <1>13
<1> HIDE DEF In, Out, P
<1> QED BY <1>5, <1>14, <1>15 DEF j, w, n, h, base

\* From an absolute directory given by names it does unless a ".." leads to
\* the root.
LEMMA AbsoluteJoins ==
  ASSUME NEW dir \in Seq(Segments), NEW segs \in Seq(Segments), Plain(dir),
         \A n \in 1..Len(segs) : segs[n] = ".." => Walk(dir, segs)[n] # << >>
  PROVE  \E t \in Seq(Segments) : /\ Joins(Path(TRUE, dir), segs)[Len(segs)] = Path(TRUE, t) /\ Plain(t)
                                /\ Walk(dir, segs)[Len(segs)] = t
<1> DEFINE base  == Path(TRUE, dir)
           j     == Joins(base, segs)
           w     == Walk(dir, segs)
           n     == Len(segs)
           On(i, t) == j[i] = Path(TRUE, t) /\ Plain(t) /\ w[i] = t
           P == {i \in Nat : i <= n => \E t \in Seq(Segments) : On(i, t)}
<1>1. n \in Nat /\ \A i \in 1..n : segs[i] \in Segments /\ (segs[i] = ".." => w[i] # << >>)
  BY ElementOfSeq
<1>2. base \in Paths
  BY DEF Path, Paths
<1>3. /\ j[0] = base /\ \A i \in 1..n : j[i] = JoinSegment(j[i - 1], segs[i])
      /\ w[0] = dir /\ \A i \in 1..n : w[i] = Move(w[i - 1], segs[i])
  <2> HIDE DEF base
  <2>1. j[0] = base /\ \A i \in 1..n : j[i] = JoinSegment(j[i - 1], segs[i])
    BY <1>2, JoinsFacts
  <2>2. w[0] = dir /\ \A i \in 1..n : w[i] = Move(w[i - 1], segs[i])
    BY WalkFacts
  <2> QED BY <2>1, <2>2
<1>4. On(0, dir)
  BY <1>3
<1>5. ASSUME NEW t \in Seq(Segments), NEW x \in Segments, Plain(t),
             x = ".." => Move(t, x) # << >>
      PROVE  \E u \in Seq(Segments) : /\ JoinSegment(Path(TRUE, t), x) = Path(TRUE, u) /\ Plain(u)
                                    /\ Move(t, x) = u
  <2>1. << >> \o t = t /\ << >> \in Seq(Segments)
    BY ConcatEmptySeq, EmptySeq
  <2>2. ~(x = ".." /\ (t = << >> \/ Len(t) = 1))
    <3> SUFFICES ASSUME x = "..", t = << >> \/ Len(t) = 1 PROVE Move(t, x) = << >>
      BY <1>5
    <3>1. Move(t, x) = IF t = << >> THEN t ELSE Front(t)
      BY DEF Move
    <3>2. CASE t # << >>
      <4>1. Len(t) = 1 /\ Front(t) \in Seq(Segments) /\ Len(Front(t)) = Len(t) - 1
        BY <3>2, Fronts
      <4>2. Len(Front(t)) = 0
        BY <4>1
      <4>3. Front(t) = << >>
        BY <4>1, <4>2, EmptySeq
      <4> QED BY <3>1, <3>2, <4>3
    <3> QED BY <3>1, <3>2
  <2>3. PICK u \in Seq(Segments) : /\ JoinSegment(Path(TRUE, t), x) = Path(TRUE, u) /\ Plain(u)
                                 /\ Move(<< >> \o t, x) = << >> \o u
    <3> DEFINE c == << >>
    <3>1. c \in Seq(Segments)
      BY <2>1
    <3> HIDE DEF c
    <3>2. \E u \in Seq(Segments) : /\ JoinSegment(Path(TRUE, t), x) = Path(TRUE, u) /\ Plain(u)
                                 /\ Move(c \o t, x) = c \o u
      BY <1>5, <2>2, <3>1, OneJoin
    <3> QED BY <3>2 DEF c
  <2>4. << >> \o u = u
    BY ConcatEmptySeq
  <2> QED BY <2>1, <2>3, <2>4
<1> HIDE DEF base, j, w, n
<1>6. 0 \in P
  BY <1>4
<1>7. ASSUME NEW i \in Nat, i \in P PROVE i + 1 \in P
  <2> SUFFICES ASSUME i + 1 <= n PROVE \E t \in Seq(Segments) : On(i + 1, t)
    <3> HIDE DEF On
    <3> QED OBVIOUS
  <2>1. i + 1 \in 1..n /\ i <= n /\ (i + 1) - 1 = i
    BY <1>1
  <2>2. PICK x \in Segments : x = segs[i + 1]
    BY <1>1, <2>1
  <2>3. j[i + 1] = JoinSegment(j[i], x) /\ w[i + 1] = Move(w[i], x) /\ (x = ".." => w[i + 1] # << >>)
    BY <1>1, <1>3, <2>1, <2>2
  <2>4. PICK t \in Seq(Segments) : On(i, t)
    BY <1>7, <2>1
  <2>5. PICK u \in Seq(Segments) : /\ JoinSegment(Path(TRUE, t), x) = Path(TRUE, u) /\ Plain(u)
                                 /\ Move(t, x) = u
    BY <1>5, <2>3, <2>4
  <2>6. On(i + 1, u)
    BY <2>3, <2>4, <2>5
  <2> QED BY <2>6
<1>8. n \in P
  <2> HIDE DEF P
  <2> QED BY <1>1, <1>6, <1>7, SetInduct
<1>9. PICK t \in Seq(Segments) : On(n, t)
  <2> HIDE DEF On
  <2> QED BY <1>1, <1>8
<1> QED BY <1>9 DEF j, w, n, base

\* Where the walk is after the first m segments.
LEMMA WalkPrefix ==
  ASSUME NEW from \in Seq(Segments), NEW segs \in Seq(Segments), NEW m \in 1..Len(segs)
  PROVE  /\ SubSeq(segs, 1, m) \in Seq(Segments)
         /\ Walk(from, SubSeq(segs, 1, m))[Len(SubSeq(segs, 1, m))] = Walk(from, segs)[m]
<1> DEFINE head == SubSeq(segs, 1, m)
           w == Walk(from, segs)
           v == Walk(from, head)
           n == Len(segs)
           P == {i \in Nat : i <= m => v[i] = w[i]}
<1>1. n \in Nat /\ m \in Nat /\ m <= n /\ m \in 1..n
  OBVIOUS
<1>2. head \in Seq(Segments) /\ Len(head) = m /\ \A i \in 1..m : head[i] = segs[i]
  <2>1. \A i \in 1..m : segs[i] \in Segments
    BY ElementOfSeq, <1>1
  <2>2. 1 \in Int /\ m \in Int
    BY <1>1
  <2>3. /\ head \in Seq(Segments) /\ Len(head) = IF 1 <= m THEN m - 1 + 1 ELSE 0
        /\ \A i \in 1..(m - 1 + 1) : head[i] = segs[1 + i - 1]
    BY <2>1, <2>2, SubSeqProperties
  <2>4. m - 1 + 1 = m /\ 1 <= m
    BY <1>1
  <2>5. \A i \in 1..m : 1 + i - 1 = i
    BY <1>1
  <2> QED BY <2>3, <2>4, <2>5
<1>3. w[0] = from /\ \A i \in 1..n : w[i] = Move(w[i - 1], segs[i])
  BY WalkFacts
<1>4. v[0] = from /\ \A i \in 1..m : v[i] = Move(v[i - 1], head[i])
  <2> HIDE DEF head
  <2> QED BY <1>2, WalkFacts
<1> HIDE DEF head, w, v, n
<1>5. 0 \in P
  BY <1>3, <1>4
<1>6. ASSUME NEW i \in Nat, i \in P PROVE i + 1 \in P
  <2> SUFFICES ASSUME i + 1 <= m PROVE v[i + 1] = w[i + 1]
    OBVIOUS
  <2>1. i + 1 \in 1..m /\ i + 1 \in 1..n /\ (i + 1) - 1 = i /\ v[i] = w[i]
    BY <1>1, <1>6
  <2>2. v[i + 1] = Move(v[i], head[i + 1]) /\ w[i + 1] = Move(w[i], segs[i + 1])
    BY <1>3, <1>4, <2>1
  <2> QED BY <1>2, <2>1, <2>2
<1>7. m \in P
  <2> HIDE DEF P
  <2> QED BY <1>1, <1>5, <1>6, SetInduct
<1> QED BY <1>1, <1>2, <1>7 DEF head, w, v

LEMMA LocatedFacts ==
  ASSUME NEW cwd \in Seq(Segments), NEW path \in Paths
  PROVE  /\ Located(cwd, path) \in Seq(Segments)
         /\ path.root => \A other : Located(other, path) = Located(cwd, path)
         /\ Plain(path.segs) =>
              Located(cwd, path) = IF path.root THEN path.segs ELSE cwd \o path.segs
<1> DEFINE from == IF path.root THEN << >> ELSE cwd
           s    == path.segs
<1>1. s \in Seq(Segments) /\ path.root \in BOOLEAN
  BY DEF Paths
<1>2. from \in Seq(Segments)
  <2>1. << >> \in Seq(Segments)
    BY EmptySeq
  <2> QED BY <2>1
<1>3. Located(cwd, path) = Walk(from, s)[Len(s)]
  BY DEF Located
<1>4. path.root => \A other : Located(other, path) = Located(cwd, path)
  BY DEF Located
<1>5. Located(cwd, path) \in Seq(Segments)
  <2>1. Len(s) \in 0..Len(s)
    <3>1. PICK n \in Nat : n = Len(s)
      BY <1>1
    <3> QED BY <3>1
  <2>2. \A i \in 0..Len(s) : Walk(from, s)[i] \in Seq(Segments)
    <3> HIDE DEF from, s
    <3> QED BY <1>1, <1>2, WalkFacts
  <2> QED BY <1>3, <2>1, <2>2
<1>6. ASSUME Plain(s) PROVE Located(cwd, path) = IF path.root THEN s ELSE cwd \o s
  <2>1. Walk(from, s)[Len(s)] = from \o s
    <3> HIDE DEF from, s
    <3> QED BY <1>1, <1>2, <1>6, PlainWalk
  <2>2. << >> \o s = s
    <3> HIDE DEF s
    <3> QED BY <1>1, ConcatEmptySeq
  <2> HIDE DEF s
  <2> QED BY <1>1, <1>3, <2>1, <2>2
<1> QED BY <1>4, <1>5, <1>6

LEMMA AtDot ==
  /\ Dot \in Paths
  /\ \A at \in Seq(Segments) : Located(at, Dot) = at
<1> DEFINE one == <<".">>
<1>1. one \in Seq(Segments) /\ Len(one) = 1 /\ one[1] = "."
  <2>1. PICK e \in Segments : e = "."
    BY DEF Segments
  <2>2. <<e>> \in Seq(Segments)
    BY OneSeq
  <2> QED BY <2>1, <2>2
<1>2. Dot = Path(FALSE, one) /\ Dot \in Paths
  BY <1>1 DEF Dot, Path, Paths
<1>3. ASSUME NEW at \in Seq(Segments) PROVE Located(at, Dot) = at
  <2>1. Located(at, Dot) = Walk(at, one)[Len(one)]
    BY <1>2 DEF Located, Path
  <2> HIDE DEF one
  <2>2. Walk(at, one)[0] = at /\ \A i \in 1..Len(one) : Walk(at, one)[i] = Move(Walk(at, one)[i - 1], one[i])
    BY <1>1, WalkFacts
  <2>3. 1 \in 1..Len(one) /\ 1 - 1 = 0
    BY <1>1
  <2>4. Walk(at, one)[1] = Move(at, ".")
    BY <1>1, <2>2, <2>3
  <2> QED BY <1>1, <2>1, <2>4 DEF Move
<1> QED BY <1>2, <1>3

\* From the directory of a file, path_join arrives where the path leads.
LEMMA JoinedFromDirectory ==
  ASSUME NEW cwd \in Seq(Segments), NEW root \in BOOLEAN, NEW dir \in Seq(Segments), Plain(dir),
         NEW rel \in Paths, ~rel.root
  PROVE  LET start  == IF root THEN dir ELSE cwd \o dir
             joined == Joins(Path(root, dir), rel.segs)[Len(rel.segs)]
             path   == IF joined = EmptyPath THEN Dot ELSE joined
         IN  /\ ~root /\ ClimbsAbove(rel.segs, Len(dir)) => path = NoPath
             /\ \/ ~root /\ ~ClimbsAbove(rel.segs, Len(dir))
                \/ root /\ \A n \in 1..Len(rel.segs) :
                             rel.segs[n] = ".." => Walk(dir, rel.segs)[n] # << >>
                => path # NoPath /\ Located(cwd, path) = Located(start, rel)
<1> DEFINE segs  == rel.segs
           start == IF root THEN dir ELSE cwd \o dir
           joined == Joins(Path(root, dir), segs)[Len(segs)]
           path   == IF joined = EmptyPath THEN Dot ELSE joined
           end    == Walk(start, segs)[Len(segs)]
           Above  == ClimbsAbove(segs, Len(dir))
           Stays  == \A n \in 1..Len(segs) : segs[n] = ".." => Walk(dir, segs)[n] # << >>
<1>1. segs \in Seq(Segments)
  BY DEF Paths
<1>2. Located(start, rel) = end
  BY DEF Located
<1>3. EmptyPath = Path(FALSE, << >>) /\ EmptyPath # NoPath /\ Dot # NoPath
  <2>1. EmptyPath \in Paths
    BY EmptySeq DEF EmptyPath, Path, Paths
  <2>2. Dot \in Paths
    BY AtDot
  <2> QED BY <2>1, <2>2, NoPathAssumption DEF EmptyPath
<1>4. Located(cwd, Dot) = cwd
  BY AtDot
<1>5. ASSUME NEW t \in Seq(Segments), Plain(t), joined = Path(root, t), end = IF root THEN t ELSE cwd \o t
      PROVE  path # NoPath /\ Located(cwd, path) = end
  <2>1. Path(root, t) \in Paths /\ Path(root, t).root = root /\ Path(root, t).segs = t
    BY DEF Path, Paths
  <2>2. Path(root, t) # NoPath
    BY <2>1, NoPathAssumption
  <2> HIDE DEF end, joined
  <2>3. CASE joined = EmptyPath
    <3>1. ~root /\ t = << >>
      BY <1>5, <2>1, <2>3 DEF EmptyPath, Path
    <3>2. cwd \o << >> = cwd
      BY ConcatEmptySeq
    <3>3. end = cwd
      BY <1>5, <3>1, <3>2
    <3> QED BY <1>3, <1>4, <2>3, <3>3
  <2>4. CASE joined # EmptyPath
    <3> DEFINE p == Path(root, t)
    <3>1. path = p
      BY <1>5, <2>4
    <3>2. p \in Paths /\ p.root = root /\ p.segs = t /\ p # NoPath
      BY <2>1, <2>2
    <3> HIDE DEF p
    <3>3. Located(cwd, p) = IF root THEN t ELSE cwd \o t
      BY <1>5, <3>2, LocatedFacts
    <3> QED BY <1>5, <3>1, <3>2, <3>3
  <2> QED BY <2>3, <2>4
<1>6. ASSUME ~root PROVE /\ Above => joined = NoPath
                         /\ ~Above => \E t \in Seq(Segments) : /\ joined = Path(root, t) /\ Plain(t)
                                                             /\ end = cwd \o t
  <2>1. root = FALSE /\ start = cwd \o dir
    BY <1>6
  <2> HIDE DEF segs
  <2>2. /\ Above => Joins(Path(FALSE, dir), segs)[Len(segs)] = NoPath
        /\ ~Above => \E t \in Seq(Segments) :
                      /\ Joins(Path(FALSE, dir), segs)[Len(segs)] = Path(FALSE, t) /\ Plain(t)
                      /\ Walk(cwd \o dir, segs)[Len(segs)] = cwd \o t
    BY <1>1, RelativeJoins
  <2> HIDE DEF start, Above
  <2> QED BY <2>1, <2>2
<1>7. ASSUME root, Stays PROVE \E t \in Seq(Segments) : joined = Path(root, t) /\ Plain(t) /\ end = t
  <2>1. root = TRUE /\ start = dir
    BY <1>7
  <2> HIDE DEF segs, start
  <2> QED BY <1>1, <1>7, <2>1, AbsoluteJoins
<1>8. ~root /\ Above => path = NoPath
  <2> HIDE DEF joined, Above
  <2> QED BY <1>3, <1>6
<1>9. (~root /\ ~Above) \/ (root /\ Stays) => path # NoPath /\ Located(cwd, path) = end
  <2> HIDE DEF joined, end, Above, Stays, path
  <2> QED BY <1>5, <1>6, <1>7
<1> HIDE DEF end, Above, Stays, joined
<1> QED BY <1>2, <1>8, <1>9 DEF Above, Stays, joined

LEMMA DirectoryOf ==
  ASSUME NEW main \in Paths, main.segs # << >>
  PROVE  path_dirname(main) \in Paths
<1>1. main.root \in BOOLEAN /\ main.segs \in Seq(Segments)
  BY DEF Paths
<1>2. Front(main.segs) \in Seq(Segments)
  BY <1>1, Fronts
<1> QED BY <1>1, <1>2, AtDot DEF path_dirname, Path, Paths

LEMMA JoinedPath ==
  ASSUME NEW cwd \in Seq(Segments), NEW dir \in Paths, NEW rel \in Paths
  PROVE  LET start      == Located(cwd, dir)
             depth      == IF dir = Dot THEN 0 ELSE Len(dir.segs)
             path       == path_join(dir, rel)
             right      == path # NoPath /\ Located(cwd, path) = Located(start, rel)
             backAtRoot == \E n \in DOMAIN rel.segs :
                             rel.segs[n] = ".." /\ Located(start, Path(FALSE, SubSeq(rel.segs, 1, n))) = << >>
             refused    == ClimbsAbove(rel.segs, depth) /\ ~dir.root
         IN  \/ IF refused /\ ~rel.root THEN path = NoPath ELSE right
             \/ ~rel.root /\ dir # Dot /\ ToSet(dir.segs) \cap {".", ".."} # {}
             \/ ~rel.root /\ dir.root /\ backAtRoot
<1> DEFINE start      == Located(cwd, dir)
           depth      == IF dir = Dot THEN 0 ELSE Len(dir.segs)
           path       == path_join(dir, rel)
           right      == path # NoPath /\ Located(cwd, path) = Located(start, rel)
           segs       == rel.segs
           backAtRoot == \E n \in DOMAIN segs :
                           segs[n] = ".." /\ Located(start, Path(FALSE, SubSeq(segs, 1, n))) = << >>
           Above      == ClimbsAbove(segs, depth)
           Stays      == \A n \in 1..Len(segs) : segs[n] = ".." => Walk(dir.segs, segs)[n] # << >>
           base       == IF dir = Dot THEN EmptyPath ELSE dir
<1> SUFFICES \/ IF Above /\ ~dir.root /\ ~rel.root THEN path = NoPath ELSE right
             \/ ~rel.root /\ dir # Dot /\ ToSet(dir.segs) \cap {".", ".."} # {}
             \/ ~rel.root /\ dir.root /\ backAtRoot
  OBVIOUS
<1>1. segs \in Seq(Segments) /\ rel.root \in BOOLEAN /\ dir.root \in BOOLEAN /\ dir.segs \in Seq(Segments)
  BY DEF Paths
<1>2. CASE rel.root
  <2>1. path = rel /\ rel # NoPath
    BY <1>2, NoPathAssumption DEF path_join
  <2>2. Located(start, rel) = Located(cwd, rel)
    BY <1>2, LocatedFacts
  <2> QED BY <1>2, <2>1, <2>2
<1>3. CASE ~rel.root /\ dir = Dot
  <2>1. << >> \in Seq(Segments) /\ Len(<< >>) = 0 /\ Plain(<< >>) /\ cwd \o << >> = cwd
    BY EmptySeq, ConcatEmptySeq DEF Plain
  <2>2. base = Path(FALSE, << >>) /\ depth = 0 /\ dir.root = FALSE
    BY <1>3 DEF EmptyPath, Dot, Path
  <2>3. start = cwd
    BY <1>3, AtDot
  <2> DEFINE joined == Joins(base, segs)[Len(segs)]
  <2>4. path = IF joined = EmptyPath THEN Dot ELSE joined
    BY <1>3 DEF path_join
  <2> DEFINE none == << >>
  <2>5. none \in Seq(Segments) /\ Len(none) = depth /\ Plain(none) /\ cwd \o none = start /\ base = Path(FALSE, none)
    BY <2>1, <2>2, <2>3
  <2> HIDE DEF none, base, depth, start
  <2>6. /\ Above => path = NoPath
        /\ ~Above => right
    BY <1>3, <2>4, <2>5, JoinedFromDirectory
  <2> HIDE DEF Above, right, path
  <2> QED BY <1>3, <2>2, <2>6
<1>4. CASE ~rel.root /\ dir # Dot /\ ToSet(dir.segs) \cap {".", ".."} = {}
  <2>1. Plain(dir.segs)
    BY <1>4 DEF ToSet, Plain
  <2>2. base = Path(dir.root, dir.segs) /\ depth = Len(dir.segs)
    BY <1>1, <1>4 DEF Path, Paths
  <2>3. start = IF dir.root THEN dir.segs ELSE cwd \o dir.segs
    BY <2>1, LocatedFacts
  <2> DEFINE joined == Joins(base, segs)[Len(segs)]
  <2>4. path = IF joined = EmptyPath THEN Dot ELSE joined
    BY <1>4 DEF path_join
  <2> DEFINE s == dir.segs
             r == dir.root
  <2>5. /\ s \in Seq(Segments) /\ Len(s) = depth /\ Plain(s) /\ r \in BOOLEAN
        /\ start = (IF r THEN s ELSE cwd \o s) /\ base = Path(r, s)
    BY <1>1, <2>1, <2>2, <2>3
  <2>6. r /\ ~Stays => backAtRoot
    <3> SUFFICES ASSUME r, NEW n \in 1..Len(segs), segs[n] = "..", Walk(s, segs)[n] = << >>
                 PROVE  backAtRoot
      OBVIOUS
    <3> DEFINE head == SubSeq(segs, 1, n)
    <3> HIDE DEF segs, s
    <3>1. head \in Seq(Segments) /\ Walk(s, head)[Len(head)] = << >>
      BY <1>1, <2>5, WalkPrefix
    <3>2. Located(start, Path(FALSE, head)) = Walk(start, head)[Len(head)]
      BY DEF Located, Path
    <3>3. n \in DOMAIN segs /\ start = s
      BY <1>1, <2>5
    <3> HIDE DEF start
    <3> QED BY <3>1, <3>2, <3>3
  <2> HIDE DEF s, r, base, depth, start
  <2>7. /\ ~r /\ Above => path = NoPath
        /\ (~r /\ ~Above) \/ (r /\ Stays) => right
    BY <1>4, <2>4, <2>5, JoinedFromDirectory DEF s
  <2> HIDE DEF Above, right, path, Stays, backAtRoot
  <2> QED BY <1>4, <2>6, <2>7 DEF r
<1> QED BY <1>2, <1>3, <1>4

LEMMA Widened == ASSUME NEW S, NEW T, S \subseteq T, NEW s \in Seq(S) PROVE s \in Seq(T)
OBVIOUS

LEMMA IInvImportsFound == IInv => ImportsFound
<1> SUFFICES ASSUME IInv, ~IsMain PROVE ImportsFound
  BY DEF ImportsFound
<1> DEFINE dir  == path_dirname(job.main)
           rel  == MainFile.imports[unit]
           cwd  == job.cwd
<1>1. job \in Jobs /\ files = FileSystem(job) /\ unit \in 1..MainUnit
  BY DEF IInv
<1>2. cwd \in Seq(Segments)
  <2>1. cwd \in Seq(Names) /\ Names \subseteq Segments
    BY <1>1, FilesAssumption DEF Segments
  <2> HIDE DEF cwd
  <2> QED BY <2>1, Widened
<1>3. job.main \in Paths /\ job.main.segs # << >>
  BY <1>1, FilesAssumption
<1>4. dir \in Paths
  BY <1>3, DirectoryOf
<1>5. MainFile.imports \in Seq(Paths)
  BY <1>1, FilesAssumption DEF MainFile
<1>6. unit \in 1..Len(MainFile.imports)
  <2>1. /\ MainUnit \in Nat \ {0} /\ MainUnit - 1 <= Len(MainFile.imports)
        /\ Len(MainFile.imports) \in Nat
    BY <1>1, Compiling
  <2>2. unit \in 1..MainUnit /\ unit # MainUnit
    BY <1>1 DEF IsMain
  <2> QED BY <2>1, <2>2
<1>7. rel \in Paths
  BY <1>5, <1>6, ElementOfSeq
<1>8. UnitPath(unit) = path_join(dir, rel)
  BY DEF UnitPath, IsMain
<1> HIDE DEF dir, rel, cwd
<1>9. LET start      == Located(cwd, dir)
          depth      == IF dir = Dot THEN 0 ELSE Len(dir.segs)
          path       == path_join(dir, rel)
          right      == path # NoPath /\ Located(cwd, path) = Located(start, rel)
          backAtRoot == \E n \in DOMAIN rel.segs :
                          rel.segs[n] = ".." /\ Located(start, Path(FALSE, SubSeq(rel.segs, 1, n))) = << >>
          refused    == ClimbsAbove(rel.segs, depth) /\ ~dir.root
      IN  \/ IF refused /\ ~rel.root THEN path = NoPath ELSE right
          \/ ~rel.root /\ dir # Dot /\ ToSet(dir.segs) \cap {".", ".."} # {}
          \/ ~rel.root /\ dir.root /\ backAtRoot
  BY <1>2, <1>4, <1>7, JoinedPath
<1> QED BY <1>8, <1>9 DEF ImportsFound, UnitLocation, dir, rel, cwd

-----------------------------------------------------------------------------
\* Builds of any size keep their types: the unit is one of the build's, the
\* position one of its text's, an object that of a file there is.
THEOREM TypeCorrect == Spec => []TypeOK
BY InitIInv, NextIInv, IInvTypeOK, PTL DEF Spec

\* In every program that was built, out of any number of units: a call by
\* name reaches the function of its own file, a call through a module one
\* that a file of that name exports, a built-in form the runtime's or the C
\* library's, whatever the other units call theirs (mangle_name, gen_expr
\* and gen_toplevel in codegen.c, run_build in main.c).
THEOREM BuiltProgramsCallWhatTheyMean == Spec => []CallsReachMeaning
BY InitIInv, NextIInv, IInvCallsReachMeaning, PTL DEF Spec

\* No name and no initialiser keeps a program within the limits of the scheme
\* from being built, however many declarations it has and however many of
\* its imports the arrays hold: the units find their files, llc finds every
\* name of a unit introduced once and every name used introduced, gcc every
\* name defined once across units, also when a plain function of the main
\* unit is called like one of an imported unit (local_funcs,
\* declared_externals and skip_builtins in codegen.c, run_build in main.c).
\* The bodies of functions are taken to be accepted, and the tools to run.
THEOREM ModularProgramsBuild == Spec => []ModularProgramsLink
<1>1. IInv /\ ModularInv /\ [Next]_vars => (IInv /\ ModularInv)'
  BY NextIInv, ModularNext
<1>2. ModularInv => ModularProgramsLink
  BY DEF ModularInv, ModularProgramsLink
<1> QED BY InitIInv, ModularInit, <1>1, <1>2, PTL DEF Spec

\* Wherever the compiler is started and whatever the paths: an #import in a
\* main file whose directory is given by names opens the file its path
\* names from there, and is refused exactly when it climbs above the
\* directory the compiler runs in, except from an absolute directory with a
\* ".." that leads to the root (path_dirname and path_join in main.c).
THEOREM ImportsAreFound == Spec => []ImportsFound
BY InitIInv, NextIInv, IInvImportsFound, PTL DEF Spec
=============================================================================
