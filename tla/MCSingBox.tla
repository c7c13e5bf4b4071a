------------------------------ MODULE MCSingBox -----------------------------
EXTENDS SingBox

CONSTANTS a, b, s

MCEdits == {<<"add", a>>, <<"add", a, b>>, <<"del", a>>, <<"del", b, a>>}

=============================================================================
