----------------------------- MODULE LogArchive -----------------------------
(***************************************************************************)
(* What log upload promises: a log begins on the device, gets a copy on    *)
(* the server, and only then leaves the device.  A log is never on neither *)
(* side, and what the server has it keeps.  The one exception is a log     *)
(* that is torn: the unfinished output of a gzip still at work was         *)
(* uploaded and removed as if it were the log.                             *)
(***************************************************************************)
CONSTANT Logs

VARIABLE place

Places == {"unborn", "device", "both", "server", "torn"}

Init == place = [l \in Logs |-> "unborn"]

Moves(l, from, to) == place[l] \in from /\ place' = [place EXCEPT ![l] = to]

Begin(l) == Moves(l, {"unborn"}, "device")

Store(l) == Moves(l, {"device", "torn"}, "both") \/ Moves(l, {"torn"}, "server")

Remove(l) == Moves(l, {"both"}, "server")

\* A gzip that was at work when its log was removed puts a copy back.
Reappear(l) == Moves(l, {"server"}, "both")

Tear(l) == Moves(l, {"device"}, "torn")

Next == \E l \in Logs : \/ Begin(l) \/ Store(l) \/ Remove(l)
                         \/ Reappear(l) \/ Tear(l)

Spec == Init /\ [][Next]_place

=============================================================================
