------------------------------ MODULE NoValue ------------------------------
(* Nil, the value of what is not there: no file, no result, nothing read.   *)
CONSTANT Nil

=============================================================================
