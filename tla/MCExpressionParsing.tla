------------------------- MODULE MCExpressionParsing -------------------------
(***************************************************************************)
(* Token sequences for TLC: all short sequences over the tokens that       *)
(* compete with each other, and longer ones that alternate operands and    *)
(* operators.                                                              *)
(***************************************************************************)
EXTENDS ExpressionParsing, FiniteSets, SequencesExt

UpTo(S, n) == UNION {[1..k -> S] : k \in 1..n}

\* Operands joined by n operators of S.
Chains(S, n) == {<<"a">> \o FlattenSeq([k \in 1..n |-> <<s[k], "b">>]) : s \in [1..n -> S]}

MCInputs == {s \o <<";">> : s \in
  UpTo({"a", "+", "*", "(", ")", "-"}, 5)
    \cup UpTo({"a", "=", "+=", "?", ":"}, 6)
    \cup UpTo({"(", ")", "int", "*", "a", "void"}, 5)
    \cup UpTo({"alloc", "move", "unique", "(", ")", "int", "*"}, 5)
    \cup UpTo({"a", "(", ")", ",", "sizeof"}, 6)
    \cup UpTo({"a", "[", "]", ".", "->", "++", "+="}, 5)
    \cup UpTo({"a", "::", "(", ")", "&", "+=", "sys"}, 5)
    \cup UpTo({"a", ";", "!", "1", "--"}, 4)
    \cup UpTo({"mod", "Point", "(", ")", "a", "="}, 5)
    \cup {<<"a", "=", f, "(">> \o s : f \in {"int", "cast", "sizeof", "alloc"},
             s \in UpTo({"int", "*", "a", ")", ",", "Point"}, 4)}
    \cup Chains(UNION {Ladder[n] : n \in 1..Len(Ladder)}, 2)
    \cup Chains({"=", "+=", "?", ":", "&"}, 5)
    \cup Chains({"||", "&", "==", "<", "<<", "-", "/", "=", "?", ":"}, 4)}

\* Statements that the compiler reads otherwise than the reference, or rejects.
MCDisputed == {s \o <<";">> : s \in
  {<<"a", "=", "b", "?", "a", ":", "b">>, <<"a", "[", "b", "]", "+=", "1">>, <<"a", "=", "int", "(", "b", ")">>,
   <<"a", "=", "sizeof", "(", "int", "*", ")">>, <<"a", "=", "alloc", "(", "int", ",", "b", ")">>,
   <<"a", "=", "alloc", "(", "Point", ")">>, << >>}}
=============================================================================
