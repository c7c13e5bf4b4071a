---------------------------- MODULE PayloadTool -----------------------------
(***************************************************************************)
(* One payload file under the tools that edit it, server/src/dumb-main.c   *)
(* ("c") and dumbtool ("rust"), while the C server serves it               *)
(* (dp_malloc_check_load).  A tool run loads the file, edits its copy and  *)
(* writes it back, in place or after truncation; it may be killed, and the *)
(* disk may be full, at any of its steps.                                  *)
(*                                                                         *)
(* A file is Nil or a sequence of blocks: the header (signature, expire,   *)
(* command, data_size in blocks) and blocks of data.  A file without its   *)
(* whole header is empty here: no program tells the two apart.             *)
(***************************************************************************)
EXTENDS Payload, Sequences, SequencesExt

CONSTANTS
    Commands,       \* command fields
    Blocks,         \* blocks of data
    CommandLines,   \* [tool, op, ...]: what a tool may be asked to do
    Times,          \* the times at which the server may be asked
    MaxRuns,        \* bound: runs of a tool
    MaxServed,      \* bound: requests to the server
    Nil

\* struct DUMB_PAYLOAD without its data; a signature is a tuple, see Payload.
Bodies == [expire : ExpireField, command : Commands \cup {Nil},
           data : Seq(Blocks), fits : BOOLEAN]
Headers == [sig : Seq(Bodies), command : Commands \cup {Nil}, size : Nat,
            expire : ExpireField]

Ops == {"new", "expire", "raw", "sign", "data", "set"}

ASSUME CommandLinesAssumption ==
    \A c \in CommandLines :
        /\ c.tool \in {"c", "rust"} /\ c.op \in Ops
        /\ c.op = "expire" => c.expire \in ExpireField
        /\ c.op \in {"raw", "set"} => c.command \in Commands
        /\ c.op \in {"data", "set"} => c.data \in Seq(Blocks)
ASSUME TimesAssumption == Times \subseteq Nat
ASSUME NilAssumption == Nil # 0 /\ Nil \notin Seq(Headers \cup Blocks)

VARIABLES
    file,           \* the payload file
    pc, line,       \* the tool: its step and its command line
    buf, off,       \* its payload, and how much of that is written
    rc,             \* the status of the last run, Nil if it has none
    mem,            \* the payload the server has loaded, or Nil
    runs, served,   \* counted against their bounds
    before,         \* history: the file as the last run found it
    overlap,        \* history: a tool and the server wrote over each other
    signed,         \* history: a sign returned 0, and the payload could last
    unsized,        \* history: the C tool has written data since the Rust one
    whole           \* history: command and data of every complete edit

toolVars == <<pc, line, buf, off, rc, runs>>
history == <<before, overlap, signed, unsized, whole>>
vars == <<file, pc, line, buf, off, rc, mem, runs, served, before, overlap,
          signed, unsized, whole>>

Init ==
    /\ file = Nil /\ pc = "idle" /\ line = Nil /\ buf = << >> /\ off = 0
    /\ rc = Nil /\ mem = Nil /\ runs = 0 /\ served = 0
    /\ before = Nil /\ overlap = FALSE /\ signed = FALSE /\ unsized = FALSE
    /\ whole = {}

-----------------------------------------------------------------------------
(* Payloads as blocks.                                                     *)

Data(p) == Tail(p)

\* Mutant of Fits: a payload that is shorter than it says will do.
FitsAtMost(p) == Len(p) - 1 <= p[1].size

\* dp_validate_size
Fits(p) == Len(p) - 1 = p[1].size

AsPayload(p) == [expire |-> p[1].expire, command |-> p[1].command,
                 data |-> Data(p), fits |-> Fits(p), sig |-> p[1].sig]

Signed(p) == [p EXCEPT ![1].sig = dp_sign(AsPayload(p)).sig]

Verifies(p) == dp_verify(AsPayload(p))

Content(p) == <<p[1].command, Data(p)>>

\* new_payload, dp_create_new: the expiry is no number, the data are empty.
dp_create_new == <<[sig |-> << >>, command |-> Nil, size |-> 0,
                    expire |-> [colon |-> FALSE, num |-> Unparsable]]>>

\* dp_set_data keeps the size field, which set_data and the loops over fwrite
\* of the C tool never touch.
SetData(p, c) ==
    <<[p[1] EXCEPT !.size = IF c.tool = "rust" THEN Len(c.data) ELSE @]>>
    \o c.data

\* The payload that the command line c makes of p.
Edit(p, c) ==
    CASE c.op = "new"    -> dp_create_new
      [] c.op = "expire" -> [p EXCEPT ![1].expire = c.expire]
      [] c.op = "raw"    -> [p EXCEPT ![1].command = c.command]
      [] c.op = "sign"   -> Signed(p)
      [] c.op = "data"   -> SetData(p, c)
      [] c.op = "set"    -> [SetData(p, c) EXCEPT ![1].command = c.command]

\* What write_all does to a file that is not truncated.
Overlay(f, p) ==
    IF f = Nil THEN p ELSE p \o SubSeq(f, Len(p) + 1, Len(f))

-----------------------------------------------------------------------------
(* A run of a tool.                                                        *)

Begin(c) ==
    /\ pc = "idle" /\ runs < MaxRuns /\ ~overlap
    /\ pc' = "load" /\ line' = c /\ rc' = Nil
    /\ runs' = runs + 1
    /\ before' = file
    /\ signed' = FALSE
    /\ UNCHANGED <<file, buf, off, mem, served, overlap, unsized, whole>>

Exit(status) ==
    /\ pc' = "idle" /\ rc' = status /\ off' = 0
    /\ UNCHANGED <<line, buf, runs>>

\* dp_malloc_load asks for a header, read_from_file for the size as well.
Loads == /\ file \notin {Nil, << >>}
         /\ line.tool = "rust" => Fits(file)

\* cmdset.rs, set_command: no write follows.
WritesNothing(c) == c.tool = "rust" /\ c.op = "set" /\ c.data = << >>

Load ==
    /\ pc = "load"
    /\ \/ /\ line.op = "new" \/ Loads
          /\ ~WritesNothing(line)
          /\ buf' = Edit(file, line) /\ pc' = "open"
          /\ whole' = whole \cup {Content(buf')}
          /\ UNCHANGED <<line, off, rc, runs>>
       \/ Loads /\ WritesNothing(line) /\ Exit(0) /\ UNCHANGED whole
       \/ line.op # "new" /\ ~Loads /\ Exit(1) /\ UNCHANGED whole
    /\ UNCHANGED <<file, mem, served, before, overlap, signed, unsized>>

\* open without O_TRUNC, then one write of the whole payload.
InPlace(c) == c.tool = "c" /\ c.op \in {"new", "expire", "raw", "sign"}

Unsizes(c) ==
    IF c.op \in {"set", "data"} THEN c.tool = "c"
    ELSE IF c.op = "new" THEN FALSE ELSE unsized

Written ==
    /\ overlap' = (overlap \/ mem # Nil)
    /\ unsized' = Unsizes(line)
    /\ UNCHANGED <<mem, served, before, whole>>

\* The run signs a payload whose size and expiry are those it will be used with.
Lasting == line.op = "sign" /\ Fits(buf) /\ IsAbsolute(buf[1].expire)

WriteInPlace ==
    /\ pc = "open" /\ InPlace(line)
    /\ file' = Overlay(file, buf)
    /\ Exit(0)
    /\ signed' = Lasting
    /\ Written

\* fopen "w", O_TRUNC
Open ==
    /\ pc = "open" /\ ~InPlace(line)
    /\ file' = << >>
    /\ pc' = "write"
    /\ Written
    /\ UNCHANGED <<line, buf, off, rc, runs, signed>>

\* The next block, at the position of the file descriptor.
Write ==
    /\ pc = "write" /\ off < Len(buf)
    /\ file' = SubSeq(file, 1, off) \o <<buf[off + 1]>>
                                    \o SubSeq(file, off + 2, Len(file))
    /\ off' = off + 1
    /\ UNCHANGED <<pc, line, buf, rc, runs, mem, served, history>>

Close ==
    /\ pc = "write" /\ off = Len(buf)
    /\ Exit(0)
    /\ signed' = Lasting
    /\ UNCHANGED <<file, mem, served, before, overlap, unsized, whole>>

\* Mutant of Statuses: nobody looks at what write_all returns.
StatusesUnchecked(c) == {0}

\* What a run returns when blocks could not be written.  The C tool checks
\* most of its fwrites but none of its fcloses, which write what is buffered.
Statuses(c) == IF c.tool = "c" THEN {0, 1} ELSE {1}

\* The file cannot be opened, its argument cannot be read, or the disk is
\* full.
WriteFails ==
    /\ \/ pc = "open" /\ Exit(1)
       \/ /\ pc = "write" /\ off < Len(buf)
          /\ \E status \in Statuses(line) : Exit(status)
    /\ UNCHANGED <<file, mem, served, history>>

Killed ==
    /\ pc # "idle"
    /\ Exit(Nil)
    /\ UNCHANGED <<file, mem, served, history>>

-----------------------------------------------------------------------------
(* The C server: dp_malloc_check_load.                                     *)

\* Mutant of Activated: every expiry is counted from its use.
ActivatedAlways(p, now) ==
    [p EXCEPT ![1].expire = dp_set_expire(now + @.num)]

\* dp_is_expired leaves the expiry in its absolute form behind.
Activated(p, now) == [p EXCEPT ![1].expire = dp_get_expire_or_set(@, now)]

\* Bound: no request once the writes have overlapped.
ServerLoad(now) ==
    /\ mem = Nil /\ served < MaxServed /\ ~overlap
    /\ file \notin {Nil, << >>}
    /\ LET p == Activated(file, now)
       IN /\ ~ExpiredAt(p[1].expire.num, now)
          /\ mem' = p
    /\ served' = served + 1
    /\ UNCHANGED <<file, toolVars, history>>

\* The payload goes back to the file, unsigned; signed it goes to the device.
ServerWrite ==
    /\ mem # Nil
    /\ file' = Overlay(file, mem)
    /\ mem' = Nil
    /\ overlap' = (overlap \/ pc # "idle")
    /\ before' = IF pc = "idle" THEN file' ELSE before
    /\ UNCHANGED <<toolVars, served, signed, unsized, whole>>

ServerFails ==
    /\ mem # Nil
    /\ mem' = Nil
    /\ UNCHANGED <<file, toolVars, served, history>>

Next ==
    \/ \E c \in CommandLines : Begin(c)
    \/ Load \/ WriteInPlace \/ Open \/ Write \/ Close \/ WriteFails \/ Killed
    \/ \E now \in Times : ServerLoad(now)
    \/ ServerWrite \/ ServerFails

Spec == Init /\ [][Next]_vars

-----------------------------------------------------------------------------
(* Properties.                                                             *)

\* dumbpayload.c:358, dumb-tool-cmd-set.c:130: whatever stops a run, the file is
\* what the run found or a leading part of the new payload, never old and new
\* mixed, and the Rust tool returns 0 only with the new payload complete.  Out
\* of this are the C tool's new, which does not truncate, and a server that
\* writes back what it loaded before the run.
WholeOrCut ==
    LET c == line IN
    ~overlap /\ file # before /\ ~(c.tool = "c" /\ c.op = "new") =>
        /\ IsPrefix(file, buf)
        /\ pc = "idle" /\ rc = 0 /\ c.tool = "rust" => file = buf

\* dumb-main.c, help of composite: "make sure they're signed"; dp_load.c:115.
\* A payload signed with an absolute expiry and the right size stays good in
\* its file however often the server uses the file, until it is edited.
SignedStaysGood == signed /\ ~overlap => Verifies(file)

\* dp_load.c:94 serves whatever has a header, also in the middle of an edit.
\* What a device accepts is still command and data of one complete edit, as
\* long as data are written by the tool that keeps data_size.
AcceptedIsWhole ==
    mem # Nil /\ ~overlap /\ ~unsized /\ Verifies(Signed(mem)) =>
        Content(mem) \in whole

\* dumb.h:60, data_size is "the size of the data": a payload that a run has
\* written to its end, and returned 0 for, has the size its header names.
SizeIsThatOfData == pc = "idle" /\ rc = 0 /\ file = buf => Fits(file)

=============================================================================
