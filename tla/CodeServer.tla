----------------------------- MODULE CodeServer -----------------------------
(***************************************************************************)
(* The C code server (server/src/dumb_handler.c, server/src/dp_load.c):    *)
(* libmicrohttpd runs it with one polling thread, so one connection is     *)
(* handled at a time, but time passes, administrators rewrite or remove    *)
(* code files, requests arrive late, twice or never, and the process may   *)
(* die between any two of the handler's file operations.                   *)
(*                                                                         *)
(* A request is what a device signed in daemon/secret_code.c: user, request *)
(* id, time of signing, and the code asked for.                            *)
(***************************************************************************)
EXTENDS Payload, Sequences

CONSTANTS
    Users,          \* users with a public key file on the server
    Global,         \* the directory of the codes for everyone
    Codes,
    Ids,            \* request ids a user's device may draw
    Fields,         \* expire fields an administrator may write
    MaxClock,       \* bound: last second of the run
    MaxEdition,     \* bound: number of contents given to one code file
    Nil             \* no file, no request, no payload in memory

ASSUME GlobalAssumption == Global \notin Users
ASSUME FieldsAssumption == Fields \subseteq ExpireField
ASSUME BoundsAssumption == MaxClock \in Nat /\ MaxEdition \in Nat

\* A code file is named by its directory (the user's, or the global one) and
\* the code.
Slots == (Users \cup {Global}) \X Codes

\* A code file or payload: its content (command and data, which the server
\* never looks at) as an edition number, and its expire field.
File == [edition : Nat, expire : ExpireField]

Request == [user : Users, id : Ids, time : Int, code : Codes]

\* The payload in memory between dp_load.c's read and the response, the file
\* it came from and the second in which its expiry was last compared.
Memory == [slot : Slots, edition : Nat, expire : ExpireField, at : Int]

ASSUME NilAssumption == Nil \notin File \cup Request \cup Memory

VARIABLES
    clock,          \* time(NULL) on the server
    codeFile,       \* the code files on disk
    edition,        \* contents each code file has been given so far
    requestFile,    \* the request-<id> files on disk, as <<user, id>>
    wire,           \* for each <<user, id>>, the signed request, or Nil
    pc,             \* where the handler stands, "idle" between connections
    req,            \* the request being handled
    mem,            \* payload and size of dp_malloc_check_load
    linked,         \* codefd still is the file that its path names
    reply,          \* status of the last answer
    grants          \* history: every payload answered with 200

diskVars == <<codeFile, edition, requestFile>>
connVars == <<pc, req, mem, linked>>
vars == <<clock, codeFile, edition, requestFile, wire, pc, req, mem, linked,
          reply, grants>>

Init ==
    /\ clock = 1
    /\ codeFile = [s \in Slots |-> Nil]
    /\ edition = [s \in Slots |-> 0]
    /\ requestFile = {}
    /\ wire = [x \in Users \X Ids |-> Nil]
    /\ pc = "idle" /\ req = Nil /\ mem = Nil /\ linked = FALSE
    /\ reply = "none"
    /\ grants = << >>

-----------------------------------------------------------------------------
(* The environment.                                                        *)

Tick ==
    /\ clock < MaxClock
    /\ clock' = clock + 1
    /\ UNCHANGED <<diskVars, wire, connVars, reply, grants>>

\* A device signs a request with a fresh random id; the network may deliver
\* it any number of times from then on.
SignRequest(u, i, c) ==
    /\ wire[<<u, i>>] = Nil
    /\ wire' = [wire EXCEPT ![<<u, i>>] =
                   [user |-> u, id |-> i, time |-> clock, code |-> c]]
    /\ UNCHANGED <<clock, diskVars, connVars, reply, grants>>

\* An administrator writes a code file: O_TRUNC on the file that is there, or
\* a new file.
Publish(s, f) ==
    /\ edition[s] < MaxEdition
    /\ edition' = [edition EXCEPT ![s] = @ + 1]
    /\ codeFile' = [codeFile EXCEPT ![s] =
                       [edition |-> edition[s] + 1, expire |-> f]]
    /\ UNCHANGED <<clock, requestFile, wire, connVars, reply, grants>>

\* An administrator removes it; a handler that has it open keeps the inode.
Withdraw(s) ==
    /\ codeFile[s] # Nil
    /\ codeFile' = [codeFile EXCEPT ![s] = Nil]
    /\ linked' = (linked /\ ~(mem # Nil /\ mem.slot = s))
    /\ UNCHANGED <<clock, edition, requestFile, wire, pc, req, mem, reply,
                   grants>>

-----------------------------------------------------------------------------
(* The handler.                                                            *)

Answer(status) ==
    /\ reply' = status
    /\ pc' = "idle" /\ req' = Nil /\ mem' = Nil /\ linked' = FALSE

\* request_id_verify's freshness test; a time in the future passes.
Fresh(r) == r.time + DEFAULT_EXPIRE_TIME >= clock

\* dumb_handler up to request_id_verify, for a request that lacks a parameter
\* or holds a forbidden character, names a user without a public key, or is
\* not signed with that key: 404, nothing touched.
RejectMalformed ==
    /\ pc = "idle"
    /\ Answer("404")
    /\ UNCHANGED <<clock, diskVars, wire, grants>>

\* The same for a well-formed request: 404 when it is stale.
Receive(x) ==
    /\ pc = "idle"
    /\ wire[x] # Nil
    /\ \/ /\ Fresh(wire[x])
          /\ pc' = "claim" /\ req' = wire[x]
          /\ UNCHANGED <<mem, linked, reply>>
       \/ ~Fresh(wire[x]) /\ Answer("404")
    /\ UNCHANGED <<clock, diskVars, wire, grants>>

\* Mutant of IdUnused: O_EXCL left out.
IdUnusedNoExcl == TRUE

IdUnused == <<req.user, req.id>> \notin requestFile

\* open(request-<id>, O_CREAT | O_EXCL): fails if the id has been used, or
\* for want of space, descriptors or rights.
ClaimId ==
    /\ pc = "claim"
    /\ \/ /\ IdUnused
          /\ requestFile' = requestFile \cup {<<req.user, req.id>>}
          /\ pc' = "load"
          /\ UNCHANGED <<req, mem, linked, reply>>
       \/ Answer("404") /\ UNCHANGED requestFile
    /\ UNCHANGED <<clock, codeFile, edition, wire, grants>>

\* The user's own file hides the global one.
SlotFor(u, c) == IF codeFile[<<u, c>>] # Nil THEN <<u, c>> ELSE <<Global, c>>

\* dp_malloc_check_load: open and read the code file, and let
\* dp_get_expire_or_set fix the expiry in the copy read.  No file, a file
\* shorter than a payload header, or a failed read is 404.
LoadCode ==
    /\ pc = "load"
    /\ LET s == SlotFor(req.user, req.code) IN
       \/ /\ codeFile[s] # Nil
          /\ mem' = [slot |-> s, edition |-> codeFile[s].edition, at |-> clock,
                     expire |-> dp_get_expire_or_set(codeFile[s].expire, clock)]
          /\ linked' = TRUE
          /\ pc' = "check"
          /\ UNCHANGED <<req, reply>>
       \/ Answer("404")
    /\ UNCHANGED <<clock, diskVars, wire, grants>>

\* Mutant of StillValid: the expiry of a code that has one is not compared.
StillValidUnchecked == TRUE

\* dp_is_expired reads the clock again for the comparison.
StillValid == ~ExpiredAt(mem.expire.num, clock)

CheckExpired ==
    /\ pc = "check"
    /\ \/ /\ StillValid
          /\ mem' = [mem EXCEPT !.at = clock]
          /\ pc' = "write"
          /\ UNCHANGED <<req, linked, reply>>
       \/ ~StillValid /\ Answer("404")
    /\ UNCHANGED <<clock, diskVars, wire, grants>>

\* Mutant of WrittenBack: the write forgotten, as in the Rust server.
WrittenBackNot == codeFile

\* Mutant of WrittenBack: everything in memory, not just what was read.
WrittenBackRaw == [codeFile EXCEPT ![mem.slot] = mem]

\* The disk once the payload has been written over the open file.
WrittenBack ==
    IF linked
    THEN [codeFile EXCEPT ![mem.slot] =
             [edition |-> mem.edition, expire |-> mem.expire]]
    ELSE codeFile

\* Write the payload, expiry fixed, not yet signed, over the file.  A failure
\* may come before or after the header is on disk.
WriteBack ==
    /\ pc = "write"
    /\ \/ /\ codeFile' = WrittenBack
          /\ pc' = "respond"
          /\ UNCHANGED <<req, mem, linked, reply>>
       \/ codeFile' \in {codeFile, WrittenBack} /\ Answer("404")
    /\ UNCHANGED <<clock, edition, requestFile, wire, grants>>

GrantOf(r, m) == [user |-> r.user, id |-> r.id, slot |-> m.slot,
                  edition |-> m.edition, until |-> m.expire.num, at |-> m.at]

\* Sign the payload, log it in the request file, queue it; 404 if signing
\* fails.
Respond ==
    /\ pc = "respond"
    /\ \/ grants' = Append(grants, GrantOf(req, mem)) /\ Answer("200")
       \/ Answer("404") /\ UNCHANGED grants
    /\ UNCHANGED <<clock, diskVars, wire>>

\* The process dies and is started again: what is on disk stays.
Crash ==
    /\ pc # "idle"
    /\ Answer("none")
    /\ UNCHANGED <<clock, diskVars, wire, grants>>

Handle == ClaimId \/ LoadCode \/ CheckExpired \/ WriteBack \/ Respond

Next ==
    \/ Tick
    \/ \E u \in Users, i \in Ids, c \in Codes : SignRequest(u, i, c)
    \/ \E s \in Slots, f \in Fields : Publish(s, f)
    \/ \E s \in Slots : Withdraw(s)
    \/ RejectMalformed
    \/ \E x \in Users \X Ids : Receive(x)
    \/ Handle
    \/ Crash

Spec == Init /\ [][Next]_vars

-----------------------------------------------------------------------------
(* Properties.                                                             *)

Grants == [user : Users, id : Ids, slot : Slots, edition : Nat, until : Int,
           at : Int]

\* The values the variables range over.
TypeOK ==
    /\ clock \in Int
    /\ codeFile \in [Slots -> File \cup {Nil}]
    /\ edition \in [Slots -> Nat]
    /\ requestFile \subseteq Users \X Ids
    /\ wire \in [Users \X Ids -> Request \cup {Nil}]
    /\ pc \in {"idle", "claim", "load", "check", "write", "respond"}
    /\ req \in Request \cup {Nil}
    /\ mem \in Memory \cup {Nil}
    /\ linked \in BOOLEAN
    /\ reply \in {"none", "200", "404"}
    /\ grants \in Seq(Grants)

Granted == {grants[i] : i \in 1..Len(grants)}

\* dumb_handler.c, "request id already used": no request id of a user is ever
\* answered with a payload twice, however often its request is delivered and
\* wherever the server dies.
IdServedOnce ==
    \A i, j \in 1..Len(grants) :
        i # j => <<grants[i].user, grants[i].id>>
                     # <<grants[j].user, grants[j].id>>

\* dumb.h, DEFAULT_EXPIRE_TIME: the first use of a code fixes its deadline.
\* All payloads of one content of a code file carry the same deadline, and
\* every one of them was found valid before the deadline of every other.
OneWindowPerEdition ==
    \A g, h \in Granted :
        g.slot = h.slot /\ g.edition = h.edition =>
            /\ g.until = h.until
            /\ g.until # 0 => g.at < h.until

\* dp_load.c, the write before the signature: whoever reads the disk after a
\* payload has been handed out, a restarted server included, finds the
\* deadline that it carries, as long as that content is on disk at all.
DeadlineOnDisk ==
    \A g \in Granted :
        codeFile[g.slot] # Nil /\ codeFile[g.slot].edition = g.edition =>
            codeFile[g.slot].expire = dp_set_expire(g.until)

\* The server implements the ledger of CodeLedger.
Ledger == INSTANCE CodeLedger WITH grants <- grants
LedgerSpec == Ledger!Spec

-----------------------------------------------------------------------------
(* The inductive invariant behind them: what holds between the steps of    *)
(* the handler.                                                            *)

Loaded == pc \in {"check", "write", "respond"}

\* The handler has a request while it works and a payload once it has read it.
HandlerInv ==
    /\ pc # "idle" => req \in Request
    /\ Loaded => mem \in Memory

\* A payload is handed out only for an id that its file on disk keeps spent,
\* and the id the handler has claimed has not been answered.
SpentInv ==
    /\ \A i \in 1..Len(grants) : <<grants[i].user, grants[i].id>> \in requestFile
    /\ pc \in {"load", "check", "write", "respond"} =>
          /\ <<req.user, req.id>> \in requestFile
          /\ \A i \in 1..Len(grants) :
                <<grants[i].user, grants[i].id>> # <<req.user, req.id>>

\* Nothing bears the number of an edition still to be written.
EditionInv ==
    /\ \A s \in Slots : codeFile[s] # Nil => codeFile[s].edition <= edition[s]
    /\ \A i \in 1..Len(grants) : grants[i].edition <= edition[grants[i].slot]
    /\ Loaded => mem.edition <= edition[mem.slot]

\* The payload in memory has a fixed deadline, the one of all payloads handed
\* out from the same edition, and once checked it is alive.
MemoryInv ==
    Loaded =>
        /\ ~mem.expire.colon
        /\ mem.at >= 1
        /\ pc # "check" => mem.expire.num = 0 \/ mem.at < mem.expire.num
        /\ \A i \in 1..Len(grants) :
              grants[i].slot = mem.slot /\ grants[i].edition = mem.edition =>
                  mem.expire.num = grants[i].until

\* A file that has been replaced behind the handler's back is another edition.
LinkInv ==
    Loaded /\ ~linked =>
        codeFile[mem.slot] = Nil \/ codeFile[mem.slot].edition # mem.edition

\* Written back: the disk has the deadline that the response will carry.
WrittenInv ==
    pc = "respond" /\ codeFile[mem.slot] # Nil
        /\ codeFile[mem.slot].edition = mem.edition =>
            codeFile[mem.slot].expire = mem.expire

AliveInv ==
    \A i \in 1..Len(grants) :
        /\ grants[i].at >= 1
        /\ grants[i].until = 0 \/ grants[i].at < grants[i].until

WindowInv ==
    \A i, j \in 1..Len(grants) :
        grants[i].slot = grants[j].slot /\ grants[i].edition = grants[j].edition
            => grants[i].until = grants[j].until

DiskInv ==
    \A i \in 1..Len(grants) :
        codeFile[grants[i].slot] # Nil
            /\ codeFile[grants[i].slot].edition = grants[i].edition =>
                codeFile[grants[i].slot].expire = dp_set_expire(grants[i].until)

\* The conjunction, inductive for CodeServer: between any two file operations
\* of dumb_handler.c and dp_load.c, and after a crash there, the disk, the
\* handler and the payloads handed out agree.
IInv ==
    /\ TypeOK /\ clock >= 1
    /\ HandlerInv /\ SpentInv /\ EditionInv /\ MemoryInv /\ LinkInv /\ WrittenInv
    /\ AliveInv /\ WindowInv /\ DiskInv /\ IdServedOnce

=============================================================================
