--------------------------- MODULE CallerSession ---------------------------
(***************************************************************************)
(* One connection between a caller (caller/client.c) and the handler the   *)
(* daemon forked for it (daemon/handler.c), byte by byte: both directions  *)
(* of the socket hold a bounded number of bytes, reads and writes block,   *)
(* and either process may die at any time.                                 *)
(*                                                                         *)
(* A string travels as its length and its bytes, so a string is its length *)
(* here and every byte of it the same letter.                              *)
(***************************************************************************)
EXTENDS Integers, Sequences, SequencesExt

CONSTANTS
    Arguments,      \* what a caller may be asked to send: sequences of lengths
    Commands,       \* what do_command may do: [msgs |-> lengths, ret |-> int]
    Capacity,       \* bytes the socket holds on their way to each process
    MAX_ARGS,
    MAX_STRING

EPIPE == 32
E2BIG == 7
ENOMEM == 12
EPROTO == 71
EOVERFLOW == 75
KILLED == 128       \* exit status of a process a signal ended, as a shell has it

VersionString == 1
Message == 2        \* the daemon's own messages, "too many arguments" ...

Procs == {"client", "handler"}

\* The handler may answer while the client still sends arguments it will not
\* read: the longest such answer (ArgumentLength's) must fit the socket.
ASSUME CapacityAssumption ==
    Capacity["handler"] >= 1 /\ Capacity["client"] >= 10 + Message

\* The length of a string that is not empty: an unsigned short.
Lengths == 1..65535

\* command.h: "do not write an empty string, empty string signals 'finish'".
ASSUME CommandsAssumption ==
    \A c \in Commands : c.msgs \in Seq(Lengths) /\ c.ret \in Int

Peer(p) == IF p = "client" THEN "handler" ELSE "client"

VARIABLES
    argv,           \* the caller's arguments
    version,        \* the two sides have the same version
    buf,            \* buf[p]: bytes on their way to p
    stage,          \* of each process; "exited" closes its end of the socket
    pending,        \* bytes its write_all still has to write
    want, got,      \* bytes its read_all is to read, and has read
    args,           \* arguments the handler still has to read
    hret,           \* what handler() is to return, Unset before
    exit            \* exit status of the client, Unset before

ioVars == <<buf, pending, want, got>>
callVars == <<argv, version, buf, stage, pending, want, got, args, hret, exit>>

Unset == -2

\* write_ushort and write_string: (unsigned short), then network byte order.
Ushort(n) == <<(n % 65536) \div 256, n % 256>>
String(len) == Ushort(len) \o [i \in 1..len |-> 120]
Strings(lens) == FlattenSeq([i \in 1..Len(lens) |-> String(lens[i])])

\* read_ushort of the bytes read.
Word(p) == 256 * got[p][1] + got[p][2]

CallInit ==
    /\ argv \in Arguments
    /\ version \in BOOLEAN
    /\ buf = [p \in Procs |-> << >>]
    /\ stage = [client |-> "hello", handler |-> "version string"]
    /\ pending = [p \in Procs |-> << >>]
    /\ want = [client |-> 0, handler |-> 2]
    /\ got = [p \in Procs |-> << >>]
    /\ args = 0
    /\ hret = Unset /\ exit = Unset

-----------------------------------------------------------------------------
(* Input and output: write_all and read_all of common.c.                   *)

Gone(p) == stage[p] = "exited"

Exit(p, status) ==
    /\ stage' = [stage EXCEPT ![p] = "exited"]
    /\ exit' = IF p = "client" THEN status % 256 ELSE exit

\* The next byte.  No SIGPIPE handler: writing to a closed socket is the end.
Write(p) ==
    /\ ~Gone(p) /\ pending[p] # << >>
    /\ \/ /\ ~Gone(Peer(p)) /\ Len(buf[Peer(p)]) < Capacity[Peer(p)]
          /\ buf' = [buf EXCEPT ![Peer(p)] = Append(@, Head(pending[p]))]
          /\ pending' = [pending EXCEPT ![p] = Tail(@)]
          /\ UNCHANGED <<stage, exit>>
       \/ Gone(Peer(p)) /\ Exit(p, KILLED) /\ UNCHANGED <<buf, pending>>
    /\ UNCHANGED <<argv, version, want, got, args, hret>>

Reading(p) == ~Gone(p) /\ pending[p] = << >> /\ Len(got[p]) < want[p]

\* Mutant of Read: read_all takes the end of the file for a short read.
ReadForever(p) ==
    /\ Reading(p) /\ buf[p] # << >>
    /\ got' = [got EXCEPT ![p] = Append(@, Head(buf[p]))]
    /\ buf' = [buf EXCEPT ![p] = Tail(@)]
    /\ UNCHANGED <<argv, version, stage, pending, want, args, hret, exit>>

\* The next byte; at the end of the file read_all fails, and so does its
\* caller (the handler would first write a message, which kills it).
Read(p) ==
    /\ Reading(p)
    /\ \/ /\ buf[p] # << >>
          /\ got' = [got EXCEPT ![p] = Append(@, Head(buf[p]))]
          /\ buf' = [buf EXCEPT ![p] = Tail(@)]
          /\ UNCHANGED <<stage, exit>>
       \/ /\ buf[p] = << >> /\ Gone(Peer(p))
          /\ Exit(p, EPIPE)
          /\ UNCHANGED <<buf, got>>
    /\ UNCHANGED <<argv, version, pending, want, args, hret>>

\* Nothing left to write, everything read: p may go on.
At(p, label) ==
    /\ stage[p] = label
    /\ pending[p] = << >> /\ Len(got[p]) = want[p]

\* Write bytes, then read n bytes and go on at label.
Await(p, bytes, n, label) ==
    /\ pending' = [pending EXCEPT ![p] = bytes]
    /\ want' = [want EXCEPT ![p] = n]
    /\ got' = [got EXCEPT ![p] = << >>]
    /\ stage' = [stage EXCEPT ![p] = label]
    /\ UNCHANGED buf

\* Out of memory, kill(1), the user's ^C.
Die(p) ==
    /\ ~Gone(p)
    /\ Exit(p, KILLED)
    /\ UNCHANGED <<argv, version, ioVars, args, hret>>

-----------------------------------------------------------------------------
(* client()                                                                *)

Hello ==
    /\ At("client", "hello")
    /\ Await("client", String(VersionString) \o Ushort(4)
                \o Ushort(IF version THEN 2 ELSE 1) \o Ushort(0), 2, "feedback")
    /\ UNCHANGED <<argv, version, args, hret, exit>>

\* The first argument that write_string refuses as too long, or 0.
FirstTooLong == SelectInSeq(argv, LAMBDA len : len >= MAX_STRING)

Feedback ==
    /\ At("client", "feedback")
    /\ \/ /\ Word("client") # 0
          /\ Exit("client", Word("client"))
          /\ UNCHANGED ioVars
       \/ /\ Word("client") = 0 /\ FirstTooLong = 0
          /\ Await("client", Ushort(Len(argv)) \o Strings(argv), 2, "message")
          /\ UNCHANGED exit
       \/ /\ Word("client") = 0 /\ FirstTooLong # 0
          /\ Await("client", Ushort(Len(argv))
                \o Strings(SubSeq(argv, 1, FirstTooLong - 1)), 0, "overflow")
          /\ UNCHANGED exit
    /\ UNCHANGED <<argv, version, args, hret>>

Overflow ==
    /\ At("client", "overflow")
    /\ Exit("client", EOVERFLOW)
    /\ UNCHANGED <<argv, version, ioVars, args, hret>>

\* malloc_read_string's body, unless the string is empty: then the return
\* code is next.
AfterLength(len) ==
    IF len = 0 THEN Await("client", << >>, 2, "return code")
               ELSE Await("client", << >>, len, "body")

MessageLength ==
    /\ At("client", "message")
    /\ \/ /\ Word("client") < MAX_STRING
          /\ AfterLength(Word("client"))
          /\ UNCHANGED exit
       \/ /\ Word("client") >= MAX_STRING
          /\ Exit("client", EOVERFLOW)
          /\ UNCHANGED ioVars
    /\ UNCHANGED <<argv, version, args, hret>>

MessageBody ==
    /\ At("client", "body")
    /\ Await("client", << >>, 2, "message")
    /\ UNCHANGED <<argv, version, args, hret, exit>>

ReturnCode ==
    /\ At("client", "return code")
    /\ Exit("client", Word("client"))
    /\ UNCHANGED <<argv, version, ioVars, args, hret>>

Client == Hello \/ Feedback \/ Overflow \/ MessageLength \/ MessageBody
          \/ ReturnCode

-----------------------------------------------------------------------------
(* handler()                                                               *)

\* Write the bytes and leave with r.
Leave(bytes, r) ==
    /\ Await("handler", bytes, 0, "leave")
    /\ hret' = r

VersionLength ==
    /\ At("handler", "version string")
    /\ Await("handler", << >>, Word("handler") + 6, "version")
    /\ UNCHANGED <<argv, version, args, hret, exit>>

\* The three version numbers, all equal to the daemon's or not.
Version ==
    /\ At("handler", "version")
    /\ \/ /\ SubSeq(got["handler"], want["handler"] - 5, want["handler"])
                = Ushort(4) \o Ushort(2) \o Ushort(0)
          /\ Await("handler", Ushort(0), 2, "argc")
          /\ UNCHANGED hret
       \/ /\ SubSeq(got["handler"], want["handler"] - 5, want["handler"])
                # Ushort(4) \o Ushort(2) \o Ushort(0)
          /\ Leave(Ushort(EPROTO), EPROTO)
    /\ UNCHANGED <<argv, version, args, exit>>

Argc ==
    /\ At("handler", "argc")
    /\ LET argc == Word("handler") IN
       \/ /\ argc = 0
          /\ Leave(String(Message) \o String(0) \o Ushort(0), 0)
          /\ UNCHANGED args
       \/ /\ argc > MAX_ARGS
          /\ Leave(String(Message) \o Ushort(E2BIG), E2BIG)
          /\ UNCHANGED args
       \/ /\ argc \in 1..MAX_ARGS
          /\ Await("handler", << >>, 2, "argument")
          /\ args' = argc
          /\ UNCHANGED hret
       \/ /\ argc \in 1..MAX_ARGS
          /\ Leave(String(Message) \o String(0) \o Ushort(ENOMEM), ENOMEM)
          /\ UNCHANGED args
    /\ UNCHANGED <<argv, version, exit>>

\* A failed allocation writes its end of messages and its code twice.
ArgumentLength ==
    /\ At("handler", "argument")
    /\ \/ /\ Await("handler", << >>, Word("handler"), "argument body")
          /\ UNCHANGED hret
       \/ Leave(String(Message) \o String(0) \o Ushort(ENOMEM)
                   \o String(0) \o Ushort(ENOMEM), ENOMEM)
    /\ UNCHANGED <<argv, version, args, exit>>

ArgumentBody ==
    /\ At("handler", "argument body")
    /\ args' = args - 1
    /\ IF args' > 0 THEN Await("handler", << >>, 2, "argument")
                    ELSE Await("handler", << >>, 0, "command")
    /\ UNCHANGED <<argv, version, hret, exit>>

\* Mutant of Ending: err, the result of the write before, in place of ret.
EndingErr(r) == String(0) \o Ushort(0)

\* The empty string, then the return code.
Ending(r) == String(0) \o Ushort(r)

\* do_command, all of whose output goes through write_string.
DoCommand ==
    /\ At("handler", "command")
    /\ \E c \in Commands : Leave(Strings(c.msgs) \o Ending(c.ret), c.ret)
    /\ UNCHANGED <<argv, version, args, exit>>

Left ==
    /\ At("handler", "leave")
    /\ Exit("handler", hret)
    /\ UNCHANGED <<argv, version, ioVars, args, hret>>

Handler == VersionLength \/ Version \/ Argc \/ ArgumentLength \/ ArgumentBody
           \/ DoCommand \/ Left

-----------------------------------------------------------------------------

CallStep(p) ==
    \/ Write(p) \/ Read(p)
    \/ p = "client" /\ Client
    \/ p = "handler" /\ Handler

CallNext == \E p \in Procs : CallStep(p) \/ Die(p)

\* Two processes the kernel schedules; do_command is taken to return.
CallSpec ==
    /\ CallInit /\ [][CallNext]_callVars
    /\ \A p \in Procs : WF_callVars(CallStep(p))

-----------------------------------------------------------------------------
(* Properties.                                                             *)

\* handler.c and client.c, the messages up to the empty string, then the
\* return code: a client that got as far as the return code exits with the
\* code of the command, in the eight bits an exit status has; and wherever a
\* client exits with 0, whoever died meanwhile, its command returned that.
ExitIsReturn ==
    [][/\ exit' \notin {exit, KILLED}
       /\ At("client", "return code") \/ exit' = 0
       => exit' = hret % 256]_callVars

\* No exchange, however small the socket buffers are, leaves the client
\* waiting for ever.
ClientEnds == <>(exit # Unset)

=============================================================================
