-------------------------- MODULE MCCallerSession --------------------------
(* One connection on small instances; strings of up to two letters.        *)
EXTENDS CallerSession

\* Up to one argument more than the handler takes, one of them too long.
MCArguments == {<< >>, <<1>>, <<2, 0>>, <<1, 1, 1>>, <<1, 3>>}

\* What do_command writes and returns: ok, notok, get_name, a failed fork.
MCCommands == {[msgs |-> << >>, ret |-> 0], [msgs |-> << >>, ret |-> 1],
               [msgs |-> <<2, 2, 2>>, ret |-> 0], [msgs |-> <<2>>, ret |-> -1]}

Sockets == [client |-> 12, handler |-> 3]

=============================================================================
