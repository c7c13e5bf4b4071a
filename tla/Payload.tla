------------------------------ MODULE Payload ------------------------------
(***************************************************************************)
(* The expiry field and the signature of struct DUMB_PAYLOAD (dumb.h), as  *)
(* the functions of dumbpayload.c read and write them.                     *)
(*                                                                         *)
(* The 16 characters of the expire field are abstracted to what the parser *)
(* of dumbpayload.c tells apart: whether they begin with ':', and the      *)
(* number the rest of them denotes.  dp_get_expire answers -1 both for a   *)
(* text that is no number and for the text "-1", so Unparsable, the number *)
(* of a text that is none, is -1 here too.                                 *)
(***************************************************************************)
EXTENDS Integers

CONSTANT DEFAULT_EXPIRE_TIME

ASSUME DefaultExpireAssumption == DEFAULT_EXPIRE_TIME \in Nat \ {0}

Unparsable == -1

ExpireField == [colon : BOOLEAN, num : Int]

\* The field as dp_set_expire prints it: digits, no prefix.
dp_set_expire(e) == [colon |-> FALSE, num |-> e]

dp_get_expire(f) == IF f.colon THEN Unparsable ELSE f.num

\* The field dp_get_expire_or_set leaves behind when it runs at time now; the
\* value it returns is the num of that field.
dp_get_expire_or_set(f, now) ==
    IF dp_get_expire(f) # Unparsable THEN f
    ELSE IF f.colon /\ f.num # Unparsable THEN dp_set_expire(now + f.num)
    ELSE dp_set_expire(now + DEFAULT_EXPIRE_TIME)

\* The comparison of dp_is_expired and dp_is_expired_compare: 0 is "never".
ExpiredAt(e, now) == e # 0 /\ e <= now

\* A field that no longer depends on when it is used.
IsAbsolute(f) == ~f.colon /\ f.num # Unparsable

-----------------------------------------------------------------------------
(* A whole payload: expire field, command, data (for a composite the       *)
(* sequence of its parts), whether the data_size field agrees with the     *)
(* size of the file, and the signature, which is the tuple of what was     *)
(* signed, or empty.  Only the holder of the private key makes one.        *)

Body(p) == [expire |-> p.expire, command |-> p.command, data |-> p.data,
            fits |-> p.fits]

dp_sign(p) == [p EXCEPT !.sig = <<Body(p)>>]

dp_validate_size(p) == p.fits

dp_verify(p) == dp_validate_size(p) /\ p.sig = <<Body(p)>>

=============================================================================
