------------------------------ MODULE MCLexing ------------------------------
(***************************************************************************)
(* Texts for TLC: every short text over alphabets chosen for one scanner   *)
(* or comment form each, and longer literals made of a few pieces.         *)
(***************************************************************************)
EXTENDS Lexing, SequencesExt

UpTo(S, n) == UNION {[1..k -> S] : k \in 1..n}

MCTexts ==
  UpTo({"/", "*", "\n", "a", " "}, 6)
    \cup UpTo({"0", "1", "8", "b", "x", "X", "e", "."}, 5)
    \cup UpTo({"+", "-", "=", "<", ">", "&"}, 4) \cup UpTo({"|", "^", "!", "*", "%", ":", "?"}, 3)
    \cup UpTo({"a", "s", "i", "f", "$", "_", "1", "@", "#"}, 4)
    \cup UpTo({"'", "\\", "n", " ", "\""}, 5)
    \cup {<<"\"">> \o s \o <<"\"">> : s \in UpTo({"\"", "\\", "x", "4"}, 6)}
    \cup {<<"\"">> \o FlattenSeq(s) \o <<"\"">> :
            s \in UpTo({<<"a">>, <<"\\", "n">>, <<"\\", "x", "4", "A">>}, 7)}
    \cup {<<"\n">> \o s \o <<"~">> : s \in UpTo({"a", "'", "\n", "$"}, 4)}
    \cup {<<"#", "i", "n", "c", "l", "u", "d", "e">>, <<"@", "e", "l", "i", "f", "1">>,
          <<"@", "e", "n", "d", "\n", "@", "i", "f", "d", "e", "f">>}

\* One string literal of n plain characters, for the buffer size of the code.
PlainString(n) == <<"\"">> \o [k \in 1..n |-> "a"] \o <<"\"">>
MCLongTexts == {PlainString(n) : n \in 30..34}

\* Texts that the lexer reads otherwise than the reference: .1, 011 and &=.
MCDisputed == {<<".", "1">>, <<"0", "1", "1">>, <<"&", "=">>}
=============================================================================
