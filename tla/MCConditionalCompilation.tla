---------------------- MODULE MCConditionalCompilation ----------------------
(***************************************************************************)
(* The token streams TLC checks ConditionalCompilation on.  X86 is the     *)
(* architecture of the host, so TARGET_ARCH_X86_64 is a defined macro and  *)
(* NEVER_DEFINED (the name the parser's tests use) is not.                 *)
(***************************************************************************)
EXTENDS ConditionalCompilation

LinuxX86 == [os |-> "linux", arch |-> "x86_64"]

Defined   == "TARGET_ARCH_X86_64"
Undefined == "NEVER_DEFINED"

Plain(k)     == {[kind |-> k, name |-> ""]}
Headers(K, N) == [kind : K, name : N]

PoundTokens ==
  Plain("decl") \cup Plain("import") \cup Plain("#endif")
    \cup Headers({"#ifdef"}, {Defined, Undefined}) \cup Headers({"#ifndef"}, {Defined})

AtTokens ==
  Plain("decl") \cup Plain("@else") \cup Plain("@end")
    \cup Headers({"@ifdef", "@elif"}, {Defined, Undefined})

MixedTokens ==
  Plain("decl") \cup Plain("@else") \cup Plain("@end") \cup Plain("#endif")
    \cup Headers({"@ifdef", "#ifdef"}, {Defined, Undefined})
    \cup Headers({"@if", "@if defined", "@elif defined"}, {Defined})

PoundInputs   == BoundedSeq(PoundTokens, 6)
MixedInputs   == BoundedSeq(AtTokens, 6) \cup BoundedSeq(MixedTokens, 4)
=============================================================================
