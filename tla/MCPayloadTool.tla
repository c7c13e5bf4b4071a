---------------------------- MODULE MCPayloadTool ---------------------------
EXTENDS PayloadTool

CONSTANTS x, y, fw, ok

New(t) == [tool |-> t, op |-> "new"]
Sign(t) == [tool |-> t, op |-> "sign"]
Expire(t, f) == [tool |-> t, op |-> "expire", expire |-> f]
Raw(t, c) == [tool |-> t, op |-> "raw", command |-> c]
Set(t, c, d) == [tool |-> t, op |-> "set", command |-> c, data |-> d]
SetTo(t, d) == [tool |-> t, op |-> "data", data |-> d]

Tools == {"c", "rust"}
Absolute == dp_set_expire(5)
Relative == [colon |-> TRUE, num |-> 1]

MCCommandLines ==
    UNION {{New(t), Sign(t), Expire(t, Absolute), Set(t, fw, <<x, y>>),
            Set(t, ok, << >>)} : t \in Tools}
    \cup {Expire("rust", Relative), SetTo("rust", <<y>>), Raw("c", ok),
          SetTo("c", <<y>>), Raw("rust", ok)}

\* A code made with the C tool.
MadeInC == {New("c"), Set("c", fw, <<x, y>>), Sign("c")}

=============================================================================
