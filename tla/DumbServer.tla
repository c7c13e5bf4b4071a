----------------------------- MODULE DumbServer -----------------------------
(***************************************************************************)
(* The Rust server (dumbtool/src/bin/dumbserver): axum on tokio's          *)
(* multi-threaded runtime runs any number of handlers at once.  They share *)
(* the request id table (two separate calls, exists and insert, no         *)
(* transaction around them), the code files, which this server only reads, *)
(* and the process and the event table of EventLog.                        *)
(***************************************************************************)
EXTENDS Payload, Sequences, FiniteSets, EventLog

CONSTANTS
    Handlers,       \* tasks that may run at the same time
    Users,
    Global,
    Codes,
    Ids,
    Fields,         \* expire fields of the code files
    MaxClock,       \* bound: last second of the run
    MaxReceived,    \* bound: deliveries of requests
    Nil

ASSUME GlobalAssumption == Global \notin Users
ASSUME FieldsAssumption == Fields \subseteq ExpireField

Slots == (Users \cup {Global}) \X Codes

Kinds == {"code", "upload"}

Request == [user : Users, id : Ids, time : Int, code : Codes, kind : Kinds]

VARIABLES
    clock,
    codeFile,       \* expire field of each code file, or Nil
    wire,           \* for each <<user, id>>, the signed request, or Nil
    received,       \* deliveries so far
    requestTable,   \* REQUEST_ID_TABLE: the <<user, id>> inserted
    pc, req, mem,   \* of each handler
    seen,           \* history: grants there were when the handler began
    grants          \* history: every payload returned with 200

envVars == <<clock, codeFile, wire, proc, starts, ui>>
taskVars == <<pc, req, mem, seen>>
vars == <<clock, codeFile, wire, received, requestTable, pc, req,
          mem, seen, grants, proc, starts, ui, stored, length, poisoned,
          cleared>>

Init ==
    /\ clock = 1
    /\ codeFile \in [Slots -> Fields \cup {Nil}]
    /\ wire = [x \in Users \X Ids |-> Nil]
    /\ received = 0
    /\ requestTable = {}
    /\ LogInit
    /\ pc = [h \in Handlers |-> "idle"]
    /\ req = [h \in Handlers |-> Nil]
    /\ mem = [h \in Handlers |-> Nil]
    /\ seen = [h \in Handlers |-> 0]
    /\ grants = << >>

-----------------------------------------------------------------------------

Tick ==
    /\ clock < MaxClock
    /\ clock' = clock + 1
    /\ UNCHANGED <<codeFile, wire, received, requestTable, procVars,
                   logVars, taskVars, grants>>

SignRequest(u, i, c, k) ==
    /\ wire[<<u, i>>] = Nil
    /\ wire' = [wire EXCEPT ![<<u, i>>] =
                   [user |-> u, id |-> i, time |-> clock, code |-> c,
                    kind |-> k]]
    /\ UNCHANGED <<clock, codeFile, received, requestTable, procVars,
                   logVars, taskVars, grants>>

Goto(h, label) == pc' = [pc EXCEPT ![h] = label]

\* The handler returns, or its task dies with a panic.
Done(h) ==
    /\ Goto(h, "idle")
    /\ req' = [req EXCEPT ![h] = Nil]
    /\ mem' = [mem EXCEPT ![h] = Nil]
    /\ seen' = [seen EXCEPT ![h] = 0]

\* Refuse the request of h, leaving an event.
Refuse(h) == Done(h) /\ Dispatch("other")

\* A request axum cannot parse leaves no event; forbidden characters and an
\* unknown user do.
RejectMalformed(h) ==
    /\ proc = "up" /\ pc[h] = "idle"
    /\ received < MaxReceived
    /\ received' = received + 1
    /\ Dispatch("other") \/ UNCHANGED logVars
    /\ UNCHANGED <<envVars, requestTable, taskVars, grants>>

\* dumbcode and dumbpost up to REQUEST_ID_TABLE.exists, well-formed request.
Receive(h, x) ==
    /\ proc = "up" /\ pc[h] = "idle"
    /\ received < MaxReceived
    /\ wire[x] # Nil
    /\ received' = received + 1
    /\ Goto(h, "exists")
    /\ req' = [req EXCEPT ![h] = wire[x]]
    /\ seen' = [seen EXCEPT ![h] = Len(grants)]
    /\ UNCHANGED <<envVars, requestTable, logVars, mem, grants>>

RequestId(h) == <<req[h].user, req[h].id>>

\* Mutant of Exists: the table is not consulted.
ExistsNever(h) == FALSE

\* RequestIdTable::exists
Exists(h) == RequestId(h) \in requestTable

CheckExists(h) ==
    /\ pc[h] = "exists"
    /\ \/ /\ ~Exists(h)
          /\ Goto(h, "verify")
          /\ UNCHANGED <<req, mem, seen, logVars>>
       \/ Refuse(h)               \* it is there, or the table cannot be read
    /\ UNCHANGED <<envVars, received, requestTable, grants>>

Fresh(r) == r.time + DEFAULT_EXPIRE_TIME >= clock

VerifyRequest(h) ==
    /\ pc[h] = "verify"
    /\ \/ /\ Fresh(req[h])
          /\ Goto(h, "insert")
          /\ UNCHANGED <<req, mem, seen, logVars>>
       \/ ~Fresh(req[h]) /\ Refuse(h)
    /\ UNCHANGED <<envVars, received, requestTable, grants>>

\* RequestIdTable::insert succeeds whether or not the key is there.
InsertId(h) ==
    /\ pc[h] = "insert"
    /\ \/ /\ requestTable' = requestTable \cup {RequestId(h)}
          /\ Goto(h, IF req[h].kind = "code" THEN "load" ELSE "store")
          /\ UNCHANGED <<req, mem, seen, logVars>>
       \/ Refuse(h) /\ UNCHANGED requestTable
    /\ UNCHANGED <<envVars, received, grants>>

SlotFor(u, c) == IF codeFile[<<u, c>>] # Nil THEN <<u, c>> ELSE <<Global, c>>

\* Read the code file, fix the expiry in the copy read, compare it, sign the
\* copy.  The file is not written.
LoadCode(h) ==
    /\ pc[h] = "load"
    /\ LET s == SlotFor(req[h].user, req[h].code)
           f == dp_get_expire_or_set(codeFile[s], clock)
           usable == codeFile[s] # Nil /\ ~ExpiredAt(f.num, clock) IN
       \/ /\ usable
          /\ mem' = [mem EXCEPT ![h] = [slot |-> s, until |-> f.num,
                                        at |-> clock]]
          /\ Goto(h, "log")
          /\ UNCHANGED <<req, seen, logVars>>
       \/ Refuse(h)               \* it is not, or cannot be read or signed
    /\ UNCHANGED <<envVars, received, requestTable, grants>>

\* Mutant of LogCode: an event that cannot be pushed is passed over.
LogCodeLenient(h) ==
    /\ pc[h] = "log"
    /\ Pushed("code") \/ Panicked("code")
    /\ Goto(h, "return")
    /\ UNCHANGED <<envVars, received, requestTable, req, mem, seen,
                   grants>>

\* Event::code(...).dispatch()
LogCode(h) ==
    /\ pc[h] = "log"
    /\ \/ Pushed("code") /\ Goto(h, "return") /\ UNCHANGED <<req, mem, seen>>
       \/ Panicked("code") /\ Done(h)
    /\ UNCHANGED <<envVars, received, requestTable, grants>>

ReturnCode(h) ==
    /\ pc[h] = "return"
    /\ grants' = Append(grants,
                   [user |-> req[h].user, id |-> req[h].id,
                    slot |-> mem[h].slot, edition |-> 1,
                    until |-> mem[h].until, at |-> mem[h].at,
                    seen |-> seen[h]])
    /\ Done(h)
    /\ UNCHANGED <<envVars, received, requestTable, logVars>>

\* dumbupload: write the body to a file with a fresh name, which LogUpload
\* follows further.
StoreUpload(h) ==
    /\ pc[h] = "store"
    /\ \/ /\ Goto(h, "logUpload")
          /\ UNCHANGED <<req, mem, seen, logVars>>
       \/ Refuse(h)
    /\ UNCHANGED <<envVars, received, requestTable, grants>>

LogUpload(h) ==
    /\ pc[h] = "logUpload"
    /\ Refuse(h)
    /\ UNCHANGED <<envVars, received, requestTable, grants>>

NoTasks ==
    /\ pc' = [h \in Handlers |-> "idle"]
    /\ req' = [h \in Handlers |-> Nil]
    /\ mem' = [h \in Handlers |-> Nil]
    /\ seen' = [h \in Handlers |-> 0]

\* The process dies; the database and the files stay.
Crash ==
    /\ Killed
    /\ NoTasks
    /\ UNCHANGED <<clock, codeFile, wire, received, requestTable,
                   grants>>

\* Graceful shutdown waits for the handlers.
Drained ==
    /\ \A h \in Handlers : pc[h] = "idle"
    /\ Finish
    /\ UNCHANGED <<clock, codeFile, wire, received, requestTable,
                   taskVars, grants>>

\* What the process, its UI and the tool do beside the tasks.
Process ==
    /\ LogNext
    /\ UNCHANGED <<clock, codeFile, wire, received, requestTable,
                   taskVars, grants>>

Step(h) ==
    \/ CheckExists(h) \/ VerifyRequest(h) \/ InsertId(h) \/ LoadCode(h)
    \/ LogCode(h) \/ ReturnCode(h) \/ StoreUpload(h) \/ LogUpload(h)

Next ==
    \/ Tick
    \/ \E u \in Users, i \in Ids, c \in Codes, k \in Kinds :
          SignRequest(u, i, c, k)
    \/ \E h \in Handlers : RejectMalformed(h)
    \/ \E h \in Handlers, x \in Users \X Ids : Receive(h, x)
    \/ \E h \in Handlers : Step(h)
    \/ Crash
    \/ Drained
    \/ Process

Spec == Init /\ [][Next]_vars

-----------------------------------------------------------------------------
(* Properties.                                                             *)

Active(labels) == {h \in Handlers : pc[h] \in labels}

\* server.rs, exists before insert: two payloads returned for one request id
\* were asked for by handlers that ran at the same time; a request that
\* arrives after its id was answered is refused, across restarts too.
DuplicateOnlyIfConcurrent ==
    \A i, j \in 1..Len(grants) :
        i < j /\ grants[i].user = grants[j].user /\ grants[i].id = grants[j].id
            => grants[j].seen < i

\* dumbcode.rs, Event::code before Ok: every payload returned is in the event
\* table, whatever panics or dies meanwhile.
AuditBeforeGrant ==
    Len(grants) + Cardinality(Active({"return"})) <= CodeEvents + cleared

\* server.rs:96, "tried to make a duplicate request": no request id is
\* answered with a payload twice.
IdServedOnce ==
    \A i, j \in 1..Len(grants) :
        i # j => <<grants[i].user, grants[i].id>>
                     # <<grants[j].user, grants[j].id>>

\* dumb.h:38, "by default, the code will expire DEFAULT_EXPIRE_TIME seconds
\* after being used for the first time": all payloads returned for a code file
\* carry one deadline.
OneWindowPerCode ==
    \A i, j \in 1..Len(grants) :
        grants[i].slot = grants[j].slot => grants[i].until = grants[j].until

=============================================================================
