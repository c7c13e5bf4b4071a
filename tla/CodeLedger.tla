----------------------------- MODULE CodeLedger -----------------------------
(***************************************************************************)
(* What a code server promises, whatever its implementation: the list of   *)
(* the payloads it has handed out only grows, by entries that              *)
(*   - spend a request id of their user that no earlier entry has spent,   *)
(*   - carry the deadline that the first use of that edition of the code   *)
(*     fixed (dumb.h: "the code will expire DEFAULT_EXPIRE_TIME seconds    *)
(*     after being used for the first time"), and                          *)
(*   - were checked before that deadline.                                  *)
(* An edition is one content of a code file, as an administrator wrote it. *)
(***************************************************************************)
EXTENDS Integers, Sequences

VARIABLE grants

SameCode(g, h) == g.slot = h.slot /\ g.edition = h.edition

SameRequest(g, h) == g.user = h.user /\ g.id = h.id

InTime(g) == g.until = 0 \/ g.at < g.until

Admissible(g, ledger) ==
    /\ InTime(g)
    /\ \A i \in 1..Len(ledger) :
          /\ ~SameRequest(ledger[i], g)
          /\ SameCode(ledger[i], g) => ledger[i].until = g.until

Init == grants = << >>

Grant(g) == Admissible(g, grants) /\ grants' = Append(grants, g)

\* The record granted is the one the step appends.
Next == /\ Len(grants') = Len(grants) + 1
        /\ Grant(grants'[Len(grants) + 1])

Spec == Init /\ [][Next]_grants

=============================================================================
