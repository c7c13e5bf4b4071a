---------------------------- MODULE MCDumbServer ----------------------------
(* The Rust server on small instances.                                     *)
EXTENDS DumbServer, TLC

\* At second 3.
MCFields == {[colon |-> FALSE, num |-> 3]}

\* DEFAULT_EXPIRE_TIME after the first use.
DefaultFields == {[colon |-> FALSE, num |-> Unparsable]}

Symmetry == Permutations(Ids) \cup Permutations(Handlers)

=============================================================================
