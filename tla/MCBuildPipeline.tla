-------------------------- MODULE MCBuildPipeline --------------------------
(***************************************************************************)
(* Two builds at a time: every pair of a job of One and a job of Two.      *)
(* Between them the jobs have two imports of the same stem, a main unit    *)
(* named like the other's, imports named alike, a main unit whose name is  *)
(* the file name of an import (of the other build, and its own), --keep,   *)
(* more imports than are allowed and an import that cannot be resolved.    *)
(***************************************************************************)
EXTENDS BuildPipeline

CONSTANTS one, two

File(d, s) == [dir |-> d, stem |-> <<s>>]
Imp0x      == [dir |-> "d", stem |-> <<"imp", 0, "x">>]

Job(m, i, k, o) == [main |-> m, imports |-> i, keep |-> k, output |-> o]

One == {Job(File("d", "x"), << File("d", "y"), File("e", "y") >>, FALSE, "x"),
        Job(File("d", "z"), << File("d", "x") >>, TRUE, "z"),
        Job(Imp0x, << File("e", "x") >>, FALSE, "w")}

Two == {Job(File("e", "x"), << >>, FALSE, "e_x"),
        Job(File("e", "v"), << File("e", "x") >>, FALSE, "v"),
        Job(File("e", "y"), << NoUnit >>, TRUE, "y"),
        Job(File("e", "u"), << File("e", "s"), File("e", "t"), File("e", "r") >>,
            FALSE, "u")}

MCScenarios == {[b \in {one, two} |-> IF b = one THEN i ELSE j] : i \in One, j \in Two}

=============================================================================
