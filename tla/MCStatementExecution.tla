------------------------ MODULE MCStatementExecution ------------------------
(***************************************************************************)
(* Function bodies for TLC: every body of up to MaxAll statements of any   *)
(* kind, and every body of up to MaxCore statements of the kinds control   *)
(* flow is made of.                                                        *)
(***************************************************************************)
EXTENDS StatementExecution, FiniteSets

CONSTANTS MaxAll, MaxCore

CoreKinds == {"act", "ret", "break", "continue", "if", "if_else", "while", "for", "seq"}

\* The statements of exactly n kinds drawn from K, in prefix notation.
RECURSIVE Bodies(_, _)
Bodies(K, n) ==
  (IF n = 1 THEN {<<k>> : k \in K \cap Leaf} ELSE {})
  \cup (IF n > 1 THEN {<<k>> \o s : k \in K \cap Unary, s \in Bodies(K, n - 1)} ELSE {})
  \cup UNION {{<<k>> \o s \o t : k \in K \cap Binary, s \in Bodies(K, m),
                                 t \in Bodies(K, n - 1 - m)} : m \in 1..(n - 2)}

MCPrograms ==
  UNION {Bodies(Kind, n) : n \in 1..MaxAll}
    \cup UNION {Bodies(CoreKinds, n) : n \in 1..MaxCore}

=============================================================================
