---------------------------- MODULE MCCodeServer ----------------------------
(* The C code server on small instances.                                   *)
EXTENDS CodeServer, TLC

\* Expiry two seconds after first use, by default, at a fixed second, and never.
MCFields ==
    {[colon |-> TRUE, num |-> 2], [colon |-> FALSE, num |-> Unparsable],
     [colon |-> FALSE, num |-> 3], [colon |-> FALSE, num |-> 0]}

Symmetry == Permutations(Ids)

=============================================================================
