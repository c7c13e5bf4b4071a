-------------------------- MODULE DumbServerProofs --------------------------
(* Theorems about DumbServer and EventLog, for any number of handlers,     *)
(* users, request ids and codes, and any bounds.                           *)
EXTENDS DumbServer, FiniteSetTheorems, SequenceTheorems, TLAPS

-----------------------------------------------------------------------------
(* The inductive invariant.                                                *)

Labels == {"idle", "exists", "verify", "insert", "load", "log", "return",
           "store", "logUpload"}

Memory == [slot : Slots, until : Int, at : Int]

Grants == [user : Users, id : Ids, slot : Slots, edition : {1}, until : Int,
           at : Int, seen : Nat]

\* A handler that runs has a request; once the code is loaded it has a payload.
TypeOK ==
    /\ clock \in Int
    /\ codeFile \in [Slots -> Fields \cup {Nil}]
    /\ wire \in [Users \X Ids -> Request \cup {Nil}]
    /\ pc \in [Handlers -> Labels]
    /\ req \in [Handlers -> Request \cup {Nil}]
    /\ mem \in [Handlers -> Memory \cup {Nil}]
    /\ seen \in [Handlers -> Nat]
    /\ grants \in Seq(Grants)
    /\ \A h \in Handlers :
          /\ pc[h] # "idle" => req[h] \in Request
          /\ pc[h] \in {"log", "return"} => mem[h] \in Memory

\* Handlers run only while the process does.
ProcInv == \A h \in Handlers : pc[h] # "idle" => proc \in {"up", "closing"}

\* The next key is that of no event, unless the mutex is poisoned.
LogInv ==
    /\ stored \in Seq(Events)
    /\ length \in Nat /\ cleared \in Nat
    /\ Opened /\ ~poisoned => length = Len(stored)

Id(g) == <<g.user, g.id>>

\* The ids answered, and those of the handlers about to answer, are in the
\* table; a handler that found its id missing answers none of the grants there
\* were when it began.
TableInv ==
    /\ \A i \in 1..Len(grants) : Id(grants[i]) \in requestTable
    /\ \A h \in Handlers :
          /\ pc[h] \in {"load", "log", "return"} => RequestId(h) \in requestTable
          /\ seen[h] <= Len(grants)
          /\ pc[h] \notin {"idle", "exists"} =>
                \A i \in 1..seen[h] : Id(grants[i]) # RequestId(h)

AuditInv == IsFiniteSet(Active({"return"})) /\ AuditBeforeGrant

IInv == /\ TypeOK /\ ProcInv /\ LogInv /\ TableInv /\ AuditInv
        /\ DuplicateOnlyIfConcurrent

LEMMA InvInit == Init => IInv
<1> SUFFICES ASSUME Init PROVE IInv
  OBVIOUS
<1>1. TypeOK
  BY DEF Init, TypeOK, Labels
<1>2. ProcInv /\ TableInv /\ DuplicateOnlyIfConcurrent
  BY DEF Init, ProcInv, TableInv, DuplicateOnlyIfConcurrent
<1>3. LogInv
  BY DEF Init, LogInit, LogInv, Opened
<1>4. Active({"return"}) = {} /\ CodeKeys = {}
  BY DEF Init, LogInit, Active, CodeKeys
<1>5. AuditInv
  <2>1. IsFiniteSet({}) /\ Cardinality({}) = 0
    BY FS_EmptySet
  <2>2. Len(grants) = 0 /\ cleared = 0
    BY DEF Init, LogInit
  <2>3. QED
    BY <1>4, <2>1, <2>2 DEF AuditInv, AuditBeforeGrant, CodeEvents
<1>6. QED
  BY <1>1, <1>2, <1>3, <1>5 DEF IInv

-----------------------------------------------------------------------------
(* The event log.                                                          *)

LEMMA InsertedAtEnd ==
    ASSUME LogInv, Opened, ~poisoned, NEW k \in Events
    PROVE  Inserted(k) = Append(stored, k)
<1>1. stored \in Seq(Events) /\ length = Len(stored) /\ Len(stored) \in Nat
  BY DEF LogInv
<1>2. SubSeq(stored, 1, length) = stored
  BY <1>1, SubSeqFull
<1>3. SubSeq(stored, length + 2, Len(stored)) = << >>
  BY <1>1, SubSeqEmpty
<1>4. <<k>> \o << >> = <<k>> /\ stored \o <<k>> = Append(stored, k)
  BY <1>1, AppendIsConcat, ConcatEmptySeq
<1>5. (stored \o <<k>>) \o << >> = stored \o <<k>>
  BY <1>1, ConcatEmptySeq
<1>6. QED
  BY <1>2, <1>3, <1>4, <1>5 DEF Inserted

\* What Event::dispatch does to the table while it is open.
LEMMA DispatchStored ==
    ASSUME LogInv, Opened, NEW k \in Events, Dispatch(k)
    PROVE  /\ stored' = stored \/ stored' = Append(stored, k)
           /\ stored' \in Seq(Events) /\ length' \in Nat /\ cleared' = cleared
           /\ ~poisoned' => Pushed(k) /\ length' = Len(stored')
<1>1. CASE Pushed(k)
  BY <1>1, InsertedAtEnd DEF Pushed, LogInv
<1>2. CASE Panicked(k)
  <2>1. poisoned'
    BY <1>2, Zenon DEF Panicked, Poisons
  <2>2. QED
    BY <1>2, <2>1, InsertedAtEnd DEF Panicked, LogInv
<1>3. QED
  BY <1>1, <1>2 DEF Dispatch

LEMMA DispatchLog ==
    ASSUME LogInv, Opened, NEW k \in Events, Dispatch(k)
    PROVE  LogInv'
  BY DispatchStored DEF LogInv

\* The event a handler leaves, if it leaves one.
LEMMA HandlerLog ==
    ASSUME ProcInv, NEW h \in Handlers, Step(h)
    PROVE  /\ Opened /\ UNCHANGED proc
           /\ UNCHANGED logVars \/ \E k \in Events : Dispatch(k)
<1>1. pc[h] # "idle"
  BY DEF Step, CheckExists, VerifyRequest, InsertId, LoadCode, LogCode,
         ReturnCode, StoreUpload, LogUpload
<1>2. Opened
  BY <1>1 DEF ProcInv, Opened
<1>3. UNCHANGED proc
  BY DEF Step, CheckExists, VerifyRequest, InsertId, LoadCode, LogCode,
         ReturnCode, StoreUpload, LogUpload, envVars
<1>4. UNCHANGED logVars \/ \E k \in Events : Dispatch(k)
  BY DEF Step, CheckExists, VerifyRequest, InsertId, LoadCode, LogCode,
         ReturnCode, StoreUpload, LogUpload, Refuse, Dispatch, Events
<1>5. QED
  BY <1>2, <1>3, <1>4

LEMMA CodeEventsNat == LogInv => IsFiniteSet(CodeKeys) /\ CodeEvents \in Nat
<1> SUFFICES ASSUME LogInv PROVE IsFiniteSet(CodeKeys) /\ CodeEvents \in Nat
  OBVIOUS
<1>1. CodeKeys \in SUBSET (1..Len(stored)) /\ Len(stored) \in Nat
  BY DEF CodeKeys, LogInv
<1>2. IsFiniteSet(1..Len(stored))
  BY <1>1, FS_Interval
<1>3. IsFiniteSet(CodeKeys)
  BY <1>1, <1>2, FS_Subset
<1>4. QED
  BY <1>3, FS_CardinalityType DEF CodeEvents

\* An event more is a code event more, if it is one.
LEMMA CodeEventsAppend ==
    ASSUME LogInv, NEW k \in Events, stored' = Append(stored, k)
    PROVE  CodeEvents' = IF k = "code" THEN CodeEvents + 1 ELSE CodeEvents
<1> DEFINE n == Len(stored) + 1
<1>1. stored \in Seq(Events) /\ Len(stored) \in Nat
  BY DEF LogInv
<1>2. /\ Len(stored') = n /\ stored'[n] = k
      /\ \A i \in 1..Len(stored) : stored'[i] = stored[i]
  BY <1>1
<1>3. CodeKeys' = IF k = "code" THEN CodeKeys \cup {n} ELSE CodeKeys
  BY <1>1, <1>2 DEF CodeKeys
<1>4. n \notin CodeKeys
  BY <1>1 DEF CodeKeys
<1>5. IsFiniteSet(CodeKeys)
  BY CodeEventsNat
<1> HIDE DEF n
<1>6. QED
  BY <1>3, <1>4, <1>5, FS_AddElement DEF CodeEvents

\* No step but Clear takes an event away or moves it, and that one only while
\* the process is down.
LEMMA LogSteps ==
    ASSUME ProcInv, LogInv, [Next]_vars
    PROVE  /\ LogInv'
           /\ \/ /\ \/ stored' = stored
                    \/ \E k \in Events : stored' = Append(stored, k)
                 /\ cleared' = cleared
              \/ proc = "down" /\ stored' = << >> /\ cleared' = cleared + CodeEvents
<1> DEFINE Good ==
           /\ LogInv'
           /\ \/ /\ \/ stored' = stored
                    \/ \E k \in Events : stored' = Append(stored, k)
                 /\ cleared' = cleared
              \/ proc = "down" /\ stored' = << >> /\ cleared' = cleared + CodeEvents
<1> SUFFICES Good
  OBVIOUS
<1>1. CASE UNCHANGED <<proc, stored, length, poisoned, cleared>>
  BY <1>1 DEF LogInv, Opened
<1>2. ASSUME NEW k \in Events, Opened, Dispatch(k) PROVE Good
  BY <1>2, DispatchStored, DispatchLog
<1>3. CASE Tick
  BY <1>1, <1>3 DEF Tick, procVars, logVars
<1>4. ASSUME NEW u \in Users, NEW i \in Ids, NEW c \in Codes, NEW k \in Kinds,
             SignRequest(u, i, c, k)
      PROVE  Good
  BY <1>1, <1>4 DEF SignRequest, procVars, logVars
<1>5. ASSUME NEW h \in Handlers, RejectMalformed(h) PROVE Good
  BY <1>1, <1>2, <1>5 DEF RejectMalformed, envVars, logVars, Opened, Events
<1>6. ASSUME NEW h \in Handlers, NEW x \in Users \X Ids, Receive(h, x) PROVE Good
  BY <1>1, <1>6 DEF Receive, envVars, logVars
<1>7. ASSUME NEW h \in Handlers, Step(h) PROVE Good
  BY <1>1, <1>2, <1>7, HandlerLog DEF logVars
<1>8. CASE Crash
  BY <1>8 DEF Crash, Killed, Exited, logVars, LogInv, Opened
<1>9. CASE Drained
  BY <1>2, <1>9 DEF Drained, Finish, Opened, Events
<1>10. CASE Process
  <2>1. CASE Launch
    BY <2>1 DEF Launch, LogInv, Opened
  <2>2. CASE OpenTables
    BY <2>2 DEF OpenTables, OpenedLength, LogInv, Opened
  <2>3. CASE Serve
    BY <1>2, <2>3 DEF Serve, Dispatch, Opened, Events
  <2>4. CASE Shutdown
    BY <2>4 DEF Shutdown, logVars, LogInv, Opened
  <2>5. CASE UiReads
    BY <2>5 DEF UiReads, LogInv, Opened
  <2>6. CASE UiEnds
    BY <2>6 DEF UiEnds, logVars, LogInv, Opened
  <2>7. CASE Clear
    <3>1. CodeEvents \in Nat
      BY CodeEventsNat
    <3>2. QED
      BY <2>7, <3>1 DEF Clear, procVars, LogInv, Opened
  <2>8. QED
    BY <1>10, <2>1, <2>2, <2>3, <2>4, <2>5, <2>6, <2>7 DEF Process, LogNext
<1>11. CASE UNCHANGED vars
  BY <1>1, <1>11 DEF vars
<1>12. QED
  BY <1>3, <1>4, <1>5, <1>6, <1>7, <1>8, <1>9, <1>10, <1>11 DEF Next

\* The code events there have been never become fewer.
LEMMA EventsGrow ==
    ASSUME ProcInv, LogInv, [Next]_vars
    PROVE  /\ CodeEvents' \in Nat /\ cleared' \in Nat
           /\ CodeEvents' + cleared' >= CodeEvents + cleared
<1>1. CodeEvents \in Nat /\ cleared \in Nat
  BY CodeEventsNat DEF LogInv
<1>2. CASE stored' = stored /\ cleared' = cleared
  BY <1>1, <1>2 DEF CodeEvents, CodeKeys
<1>3. ASSUME NEW k \in Events, stored' = Append(stored, k), cleared' = cleared
      PROVE  /\ CodeEvents' \in Nat /\ cleared' \in Nat
             /\ CodeEvents' + cleared' >= CodeEvents + cleared
  BY <1>1, <1>3, CodeEventsAppend
<1>4. CASE stored' = << >> /\ cleared' = cleared + CodeEvents
  <2>1. CodeKeys' = {}
    BY <1>4 DEF CodeKeys
  <2>2. Cardinality({}) = 0
    BY FS_EmptySet
  <2>3. QED
    BY <1>1, <1>4, <2>1, <2>2 DEF CodeEvents
<1>5. QED
  BY <1>2, <1>3, <1>4, LogSteps

-----------------------------------------------------------------------------
(* Types, and the process under its handlers.                              *)

\* A handler that ends, and one that goes on with what it has.
LEMMA TypeDone ==
    ASSUME TypeOK, ProcInv, NEW h \in Handlers, Done(h),
           UNCHANGED <<envVars, grants>>
    PROVE  TypeOK' /\ ProcInv'
  BY DEF TypeOK, ProcInv, Labels, Done, Goto, envVars

LEMMA TypeGoto ==
    ASSUME TypeOK, ProcInv, NEW h \in Handlers, pc[h] # "idle",
           NEW label \in Labels, Goto(h, label),
           label \in {"log", "return"} => mem[h] \in Memory,
           UNCHANGED <<envVars, req, mem, seen, grants>>
    PROVE  TypeOK' /\ ProcInv'
  BY DEF TypeOK, ProcInv, Goto, envVars

LEMMA TypeNext == TypeOK /\ ProcInv /\ [Next]_vars => TypeOK' /\ ProcInv'
<1> SUFFICES ASSUME TypeOK, ProcInv, [Next]_vars PROVE TypeOK' /\ ProcInv'
  OBVIOUS
<1> USE DEF TypeOK, Labels, ProcInv, Goto, Done, Refuse, procVars, taskVars,
            envVars
<1>1. CASE Tick
  BY <1>1 DEF Tick
<1>2. ASSUME NEW u \in Users, NEW i \in Ids, NEW c \in Codes, NEW k \in Kinds,
             SignRequest(u, i, c, k)
      PROVE  TypeOK' /\ ProcInv'
  BY <1>2 DEF SignRequest, Request
<1>3. ASSUME NEW h \in Handlers, RejectMalformed(h) PROVE TypeOK' /\ ProcInv'
  BY <1>3 DEF RejectMalformed
<1>4. ASSUME NEW h \in Handlers, NEW x \in Users \X Ids, Receive(h, x)
      PROVE  TypeOK' /\ ProcInv'
  <2>1. wire[x] \in Request /\ Len(grants) \in Nat
    BY <1>4 DEF Receive
  <2>2. QED
    BY <1>4, <2>1 DEF Receive
<1>5. ASSUME NEW h \in Handlers, CheckExists(h) PROVE TypeOK' /\ ProcInv'
  BY <1>5, TypeDone, TypeGoto DEF CheckExists
<1>6. ASSUME NEW h \in Handlers, VerifyRequest(h) PROVE TypeOK' /\ ProcInv'
  BY <1>6, TypeDone, TypeGoto DEF VerifyRequest
<1>7. ASSUME NEW h \in Handlers, InsertId(h) PROVE TypeOK' /\ ProcInv'
  BY <1>7, TypeDone, TypeGoto DEF InsertId
<1>8. ASSUME NEW h \in Handlers, LoadCode(h) PROVE TypeOK' /\ ProcInv'
  <2>1. CASE Refuse(h)
    BY <1>8, <2>1 DEF LoadCode
  <2>2. CASE ~Refuse(h)
    <3> DEFINE s == SlotFor(req[h].user, req[h].code)
               f == dp_get_expire_or_set(codeFile[s], clock)
    <3>1. /\ codeFile[s] # Nil
          /\ mem' = [mem EXCEPT ![h] = [slot |-> s, until |-> f.num,
                                        at |-> clock]]
          /\ Goto(h, "log")
          /\ UNCHANGED <<req, seen>>
      BY <1>8, <2>2 DEF LoadCode
    <3>2. s \in Slots
      BY <1>8 DEF LoadCode, SlotFor, Slots, Request
    <3>3. f.num \in Int
      BY <3>1, <3>2, FieldsAssumption, DefaultExpireAssumption
      DEF dp_get_expire_or_set, dp_get_expire, dp_set_expire, ExpireField
    <3> HIDE DEF s, f
    <3>4. [slot |-> s, until |-> f.num, at |-> clock] \in Memory
      BY <3>2, <3>3 DEF Memory
    <3>5. QED
      BY <1>8, <3>1, <3>4 DEF LoadCode
  <2>3. QED
    BY <2>1, <2>2
<1>9. ASSUME NEW h \in Handlers, LogCode(h) PROVE TypeOK' /\ ProcInv'
  BY <1>9, TypeDone, TypeGoto DEF LogCode
<1>10. ASSUME NEW h \in Handlers, ReturnCode(h) PROVE TypeOK' /\ ProcInv'
  <2> DEFINE g == [user |-> req[h].user, id |-> req[h].id,
                   slot |-> mem[h].slot, edition |-> 1,
                   until |-> mem[h].until, at |-> mem[h].at,
                   seen |-> seen[h]]
  <2>1. g \in Grants
    BY <1>10 DEF ReturnCode, Request, Memory, Grants
  <2>2. grants' = Append(grants, g)
    BY <1>10 DEF ReturnCode
  <2> HIDE DEF g
  <2>3. grants' \in Seq(Grants)
    BY <2>1, <2>2
  <2>4. QED
    BY <1>10, <2>3 DEF ReturnCode
<1>11. ASSUME NEW h \in Handlers, StoreUpload(h) PROVE TypeOK' /\ ProcInv'
  BY <1>11, TypeDone, TypeGoto DEF StoreUpload
<1>12. ASSUME NEW h \in Handlers, LogUpload(h) PROVE TypeOK' /\ ProcInv'
  BY <1>12, TypeDone, TypeGoto DEF LogUpload
<1>13. CASE Crash
  BY <1>13 DEF Crash, NoTasks
<1>14. CASE Drained
  BY <1>14 DEF Drained
<1>15. CASE Process
  BY <1>15 DEF Process, LogNext, Launch, OpenTables, Serve, Exited, Shutdown,
               UiReads, UiEnds, Clear
<1>16. CASE UNCHANGED vars
  BY <1>16 DEF vars
<1>17. QED
  BY <1>1, <1>2, <1>3, <1>4, <1>5, <1>6, <1>7, <1>8, <1>9, <1>10, <1>11,
     <1>12, <1>13, <1>14, <1>15, <1>16 DEF Next, Step

-----------------------------------------------------------------------------
(* Request ids.                                                            *)

IdInv == TableInv /\ DuplicateOnlyIfConcurrent

\* Steps that grant nothing and let no handler past its look at the table.
LEMMA IdFrame ==
    ASSUME TypeOK, TypeOK', IdInv, UNCHANGED grants,
           requestTable \subseteq requestTable',
           \A t \in Handlers :
               \/ /\ pc'[t] \in {"idle", "exists"}
                  /\ seen'[t] \in {0, seen[t], Len(grants)}
               \/ /\ req'[t] = req[t] /\ seen'[t] = seen[t]
                  /\ pc[t] \notin {"idle", "exists"}
                  /\ pc'[t] \in {"load", "log", "return"} =>
                        \/ pc[t] \in {"load", "log", "return"}
                        \/ RequestId(t) \in requestTable'
    PROVE  IdInv'
<1>1. Len(grants) \in Nat /\ \A t \in Handlers : seen[t] \in Nat
  BY DEF TypeOK
<1>2. DuplicateOnlyIfConcurrent'
  BY DEF IdInv, DuplicateOnlyIfConcurrent
<1>3. \A i \in 1..Len(grants') : Id(grants'[i]) \in requestTable'
  BY DEF IdInv, TableInv
<1>4. ASSUME NEW t \in Handlers
      PROVE  /\ pc'[t] \in {"load", "log", "return"} =>
                   RequestId(t)' \in requestTable'
             /\ seen'[t] <= Len(grants')
             /\ pc'[t] \notin {"idle", "exists"} =>
                   \A i \in 1..seen'[t] : Id(grants'[i]) # RequestId(t)'
  <2>1. CASE /\ pc'[t] \in {"idle", "exists"}
             /\ seen'[t] \in {0, seen[t], Len(grants)}
    BY <1>1, <2>1 DEF IdInv, TableInv
  <2>2. CASE /\ req'[t] = req[t] /\ seen'[t] = seen[t]
             /\ pc[t] \notin {"idle", "exists"}
             /\ pc'[t] \in {"load", "log", "return"} =>
                   \/ pc[t] \in {"load", "log", "return"}
                   \/ RequestId(t) \in requestTable'
    <3>1. RequestId(t)' = RequestId(t)
      BY <2>2 DEF RequestId
    <3>2. QED
      BY <2>2, <3>1 DEF IdInv, TableInv
  <2>3. QED
    BY <2>1, <2>2
<1>5. QED
  BY <1>2, <1>3, <1>4 DEF IdInv, TableInv, Id

LEMMA IdNext ==
    TypeOK /\ ProcInv /\ IdInv /\ [Next]_vars => IdInv'
<1> SUFFICES ASSUME TypeOK, ProcInv, IdInv, [Next]_vars PROVE IdInv'
  OBVIOUS
<1> TypeOK'
  BY TypeNext
<1>1. CASE UNCHANGED <<grants, requestTable, pc, req, seen>>
  BY <1>1, IdFrame
<1>2. ASSUME NEW h \in Handlers, Done(h), UNCHANGED <<grants, requestTable>>
      PROVE  IdInv'
  <2>1. /\ pc'[h] = "idle" /\ seen'[h] = 0
        /\ \A t \in Handlers \ {h} : pc'[t] = pc[t] /\ req'[t] = req[t]
                                     /\ seen'[t] = seen[t]
    BY <1>2 DEF Done, Goto, TypeOK
  <2>2. QED
    BY <1>2, <2>1, IdFrame
<1>3. ASSUME NEW h \in Handlers, NEW label \in Labels, Goto(h, label),
             pc[h] \notin {"idle", "exists"},
             label \in {"load", "log", "return"} =>
                \/ pc[h] \in {"load", "log", "return"}
                \/ RequestId(h) \in requestTable',
             requestTable \subseteq requestTable',
             UNCHANGED <<grants, req, seen>>
      PROVE  IdInv'
  BY <1>3, IdFrame DEF Goto, TypeOK
<1>4. ASSUME NEW h \in Handlers, NEW x \in Users \X Ids, Receive(h, x)
      PROVE  IdInv'
  BY <1>4, IdFrame DEF Receive, Goto, TypeOK
<1>5. ASSUME NEW h \in Handlers, CheckExists(h) PROVE IdInv'
  <2>1. CASE ~Exists(h) /\ Goto(h, "verify") /\ UNCHANGED <<req, mem, seen>>
    <3>1. UNCHANGED <<requestTable, grants, req, seen>>
      BY <1>5, <2>1 DEF CheckExists
    <3>2. /\ pc'[h] = "verify"
          /\ \A t \in Handlers \ {h} : pc'[t] = pc[t]
      BY <2>1 DEF Goto, TypeOK
    <3>3. \A i \in 1..Len(grants) : Id(grants[i]) # RequestId(h)
      BY <2>1 DEF Exists, IdInv, TableInv
    <3>4. seen[h] \in Nat /\ Len(grants) \in Nat /\ seen[h] <= Len(grants)
      BY DEF TypeOK, IdInv, TableInv
    <3>5. TableInv'
      BY <3>1, <3>2, <3>3, <3>4 DEF IdInv, TableInv, RequestId, Id
    <3>6. QED
      BY <3>1, <3>5 DEF IdInv, DuplicateOnlyIfConcurrent
  <2>2. CASE Refuse(h)
    BY <1>2, <1>5, <2>2 DEF CheckExists, Refuse
  <2>3. QED
    BY <1>5, <2>1, <2>2 DEF CheckExists
<1>6. ASSUME NEW h \in Handlers, VerifyRequest(h) PROVE IdInv'
  BY <1>2, <1>3, <1>6 DEF VerifyRequest, Refuse, Labels
<1>7. ASSUME NEW h \in Handlers, InsertId(h) PROVE IdInv'
  BY <1>2, <1>3, <1>7 DEF InsertId, Refuse, Labels
<1>8. ASSUME NEW h \in Handlers, LoadCode(h) PROVE IdInv'
  BY <1>2, <1>3, <1>8 DEF LoadCode, Refuse, Labels
<1>9. ASSUME NEW h \in Handlers, LogCode(h) PROVE IdInv'
  BY <1>2, <1>3, <1>9 DEF LogCode, Labels
<1>10. ASSUME NEW h \in Handlers, ReturnCode(h) PROVE IdInv'
  <2> DEFINE n == Len(grants) + 1
  <2>1. /\ Len(grants) \in Nat /\ Len(grants') = n
        /\ \A i \in 1..Len(grants) : grants'[i] = grants[i]
        /\ grants'[n].user = req[h].user /\ grants'[n].id = req[h].id
        /\ grants'[n].seen = seen[h]
    BY <1>10 DEF ReturnCode, TypeOK
  <2>2. /\ UNCHANGED requestTable
        /\ pc'[h] = "idle" /\ seen'[h] = 0
        /\ \A t \in Handlers \ {h} : pc'[t] = pc[t] /\ req'[t] = req[t]
                                     /\ seen'[t] = seen[t]
    BY <1>10 DEF ReturnCode, Done, Goto, TypeOK
  <2>3. /\ pc[h] = "return" /\ RequestId(h) \in requestTable
        /\ seen[h] \in Nat
        /\ \A i \in 1..seen[h] : Id(grants[i]) # RequestId(h)
    BY <1>10 DEF ReturnCode, IdInv, TableInv, TypeOK
  <2>4. \A i \in 1..Len(grants') : Id(grants'[i]) \in requestTable'
    BY <2>1, <2>2, <2>3 DEF IdInv, TableInv, Id, RequestId
  <2>5. \A t \in Handlers : seen[t] \in Nat /\ seen[t] <= Len(grants)
    BY DEF TypeOK, IdInv, TableInv
  <2>6. TableInv'
    <3>1. ASSUME NEW t \in Handlers \ {h}
          PROVE  /\ pc'[t] \in {"load", "log", "return"} =>
                       RequestId(t)' \in requestTable'
                 /\ seen'[t] <= Len(grants')
                 /\ pc'[t] \notin {"idle", "exists"} =>
                       \A i \in 1..seen'[t] : Id(grants'[i]) # RequestId(t)'
      <4>1. RequestId(t)' = RequestId(t)
        BY <2>2 DEF RequestId
      <4>2. \A i \in 1..seen[t] : grants'[i] = grants[i]
        BY <2>1, <2>5
      <4>3. QED
        BY <2>1, <2>2, <2>5, <4>1, <4>2 DEF IdInv, TableInv
    <3>2. QED
      BY <2>1, <2>2, <2>4, <3>1 DEF TableInv, Id
  <2>7. ASSUME NEW i \in 1..Len(grants'), NEW j \in 1..Len(grants'), i < j,
               grants'[i].user = grants'[j].user, grants'[i].id = grants'[j].id
        PROVE  grants'[j].seen < i
    <3>1. CASE j = n
      <4>1. Id(grants[i]) = RequestId(h)
        BY <2>1, <2>7, <3>1 DEF Id, RequestId
      <4>2. QED
        BY <2>1, <2>3, <2>7, <3>1, <4>1
    <3>2. CASE j # n
      BY <2>1, <2>7, <3>2 DEF IdInv, DuplicateOnlyIfConcurrent
    <3>3. QED
      BY <3>1, <3>2
  <2>8. QED
    BY <2>6, <2>7 DEF IdInv, DuplicateOnlyIfConcurrent
<1>11. ASSUME NEW h \in Handlers, StoreUpload(h) PROVE IdInv'
  BY <1>2, <1>3, <1>11 DEF StoreUpload, Refuse, Labels
<1>12. ASSUME NEW h \in Handlers, LogUpload(h) PROVE IdInv'
  BY <1>2, <1>12 DEF LogUpload, Refuse
<1>13. CASE Crash
  BY <1>13, IdFrame DEF Crash, NoTasks
<1>14. QED
  BY <1>1, <1>4, <1>5, <1>6, <1>7, <1>8, <1>9, <1>10, <1>11, <1>12, <1>13
  DEF Next, Step, Tick, SignRequest, RejectMalformed, Drained, Process, vars,
      taskVars

-----------------------------------------------------------------------------
(* The audit.                                                              *)

Returning == Active({"return"})

\* Every step but the two between which the grant lies.
LEMMA AuditFrame ==
    ASSUME TypeOK, ProcInv, LogInv, AuditInv, [Next]_vars,
           UNCHANGED grants, Returning' \subseteq Returning
    PROVE  AuditInv'
<1>1. IsFiniteSet(Returning') /\ Cardinality(Returning') <= Cardinality(Returning)
  BY FS_Subset DEF AuditInv, Returning
<1>2. Cardinality(Returning) \in Nat /\ Cardinality(Returning') \in Nat
  BY <1>1, FS_CardinalityType DEF AuditInv, Returning
<1>3. /\ CodeEvents' + cleared' >= CodeEvents + cleared
      /\ CodeEvents' \in Nat /\ cleared' \in Nat
  BY EventsGrow
<1>4. CodeEvents \in Nat /\ cleared \in Nat /\ Len(grants) \in Nat
  BY CodeEventsNat DEF LogInv, TypeOK
<1>5. Len(grants) + Cardinality(Returning) <= CodeEvents + cleared
  BY DEF AuditInv, AuditBeforeGrant, Returning
<1>6. Len(grants') = Len(grants)
  OBVIOUS
<1>7. Len(grants') + Cardinality(Returning') <= CodeEvents' + cleared'
  <2>1. \A n, a, b, x, y \in Nat :
           b <= a /\ n + a <= x /\ y >= x => n + b <= y
    OBVIOUS
  <2>2. CodeEvents + cleared \in Nat
    BY <1>4
  <2>3. CodeEvents' + cleared' \in Nat
    <3>1. \A x, y \in Nat : x + y \in Nat
      OBVIOUS
    <3>2. QED
      BY <1>3, <3>1, Zenon
  <2>4. QED
    BY <1>1, <1>2, <1>3, <1>4, <1>5, <1>6, <2>1, <2>2, <2>3
<1>8. QED
  BY <1>1, <1>7 DEF AuditInv, AuditBeforeGrant, Returning

LEMMA AuditNext ==
    TypeOK /\ ProcInv /\ LogInv /\ AuditInv /\ [Next]_vars => AuditInv'
<1> SUFFICES ASSUME TypeOK, ProcInv, LogInv, AuditInv, [Next]_vars
             PROVE  AuditInv'
  OBVIOUS
<1>1. /\ CodeEvents \in Nat /\ cleared \in Nat /\ Len(grants) \in Nat
      /\ IsFiniteSet(Returning) /\ Cardinality(Returning) \in Nat
  BY CodeEventsNat, FS_CardinalityType DEF LogInv, TypeOK, AuditInv, Returning
<1>2. CASE UNCHANGED <<grants, pc>>
  BY <1>2, AuditFrame DEF Returning, Active
<1>3. ASSUME NEW h \in Handlers, NEW label \in Labels, Goto(h, label),
             label # "return", UNCHANGED grants
      PROVE  AuditInv'
  BY <1>3, AuditFrame DEF Goto, Returning, Active, TypeOK
<1>4. ASSUME NEW h \in Handlers, NEW x \in Users \X Ids, Receive(h, x)
      PROVE  AuditInv'
  BY <1>3, <1>4 DEF Receive, Labels
<1>5. ASSUME NEW h \in Handlers,
             CheckExists(h) \/ VerifyRequest(h) \/ InsertId(h) \/ LoadCode(h)
             \/ StoreUpload(h) \/ LogUpload(h)
      PROVE  AuditInv'
  BY <1>3, <1>5 DEF CheckExists, VerifyRequest, InsertId, LoadCode, StoreUpload,
                    LogUpload, Refuse, Done, Labels
<1>6. ASSUME NEW h \in Handlers, LogCode(h) PROVE AuditInv'
  <2>1. CASE Panicked("code") /\ Done(h)
    BY <1>3, <1>6, <2>1 DEF LogCode, Done, Labels
  <2>2. CASE Pushed("code") /\ Goto(h, "return")
    <3>1. Opened /\ UNCHANGED grants /\ pc[h] = "log"
      BY <1>6 DEF LogCode, ProcInv, Opened
    <3>2. stored' = Append(stored, "code") /\ cleared' = cleared
      BY <2>2, <3>1, InsertedAtEnd DEF Pushed, Events
    <3>3. CodeEvents' = CodeEvents + 1
      BY <3>2, CodeEventsAppend DEF Events
    <3>4. Returning' = Returning \cup {h} /\ h \notin Returning
      BY <2>2, <3>1 DEF Goto, Returning, Active, TypeOK
    <3>5. /\ IsFiniteSet(Returning')
          /\ Cardinality(Returning') = Cardinality(Returning) + 1
      BY <1>1, <3>4, FS_AddElement
    <3>6. QED
      BY <1>1, <3>1, <3>2, <3>3, <3>5 DEF AuditInv, AuditBeforeGrant, Returning
  <2>3. QED
    BY <1>6, <2>1, <2>2 DEF LogCode
<1>7. ASSUME NEW h \in Handlers, ReturnCode(h) PROVE AuditInv'
  <2>1. Len(grants') = Len(grants) + 1
    BY <1>7 DEF ReturnCode, TypeOK
  <2>2. Returning' = Returning \ {h} /\ h \in Returning
    BY <1>7 DEF ReturnCode, Done, Goto, Returning, Active, TypeOK
  <2>3. /\ IsFiniteSet(Returning')
        /\ Cardinality(Returning') = Cardinality(Returning) - 1
    BY <1>1, <2>2, FS_RemoveElement
  <2>4. CodeEvents' = CodeEvents /\ cleared' = cleared
    BY <1>7 DEF ReturnCode, logVars, CodeEvents, CodeKeys
  <2>5. QED
    BY <1>1, <2>1, <2>3, <2>4 DEF AuditInv, AuditBeforeGrant, Returning
<1>8. CASE Crash
  BY <1>8, AuditFrame DEF Crash, NoTasks, Returning, Active
<1>9. QED
  BY <1>2, <1>4, <1>5, <1>6, <1>7, <1>8
  DEF Next, Step, Tick, SignRequest, RejectMalformed, Drained, Process, vars,
      taskVars

-----------------------------------------------------------------------------
(* The theorems.                                                           *)

\* server.rs, dumbcode.rs, events.rs: what the handlers know of the request
\* table and the event table agrees with the tables after every step.
THEOREM Inductive == Spec => []IInv
<1>1. IInv /\ [Next]_vars => IInv'
  BY TypeNext, LogSteps, IdNext, AuditNext DEF IInv, IdInv
<1>2. QED
  BY InvInit, <1>1, PTL DEF Spec

\* server.rs, where exists and insert are two steps: only handlers that ran at
\* the same time answer the same request id.
THEOREM DuplicatesConcurrent == Spec => []DuplicateOnlyIfConcurrent
<1>1. IInv => DuplicateOnlyIfConcurrent
  BY DEF IInv
<1>2. QED
  BY <1>1, Inductive, PTL

\* dumbcode.rs, events.rs: every payload returned is in the event table, or was
\* until it was cleared.
THEOREM GrantsAudited == Spec => []AuditBeforeGrant
<1>1. IInv => AuditBeforeGrant
  BY DEF IInv, AuditInv
<1>2. QED
  BY <1>1, Inductive, PTL

\* tables.rs, EventsTable::push: while the process lives, the event table only
\* grows at its end, whatever tasks panic with its mutex.
THEOREM EventsStay == Spec => EventsKept
<1>1. IInv /\ [Next]_vars =>
         [(proc # "down") => IsPrefix(stored, stored')]_<<stored, proc>>
  <2> SUFFICES ASSUME IInv, [Next]_vars, proc # "down"
               PROVE  IsPrefix(stored, stored')
    OBVIOUS
  <2>1. stored \in Seq(Events)
    BY DEF IInv, LogInv
  <2>2. CASE stored' = stored
    BY <2>1, <2>2 DEF IsPrefix
  <2>3. ASSUME NEW k \in Events, stored' = Append(stored, k)
        PROVE  IsPrefix(stored, stored')
    <3>1. Len(stored') = Len(stored) + 1 /\ Len(stored) \in Nat
      BY <2>1, <2>3
    <3>2. SubSeq(stored \o <<k>>, 1, Len(stored)) = SubSeq(stored, 1, Len(stored))
      BY <2>1, <3>1, SubSeqOfConcat1
    <3>3. stored' = stored \o <<k>>
      BY <2>1, <2>3, AppendIsConcat
    <3>4. QED
      BY <3>1, <3>2, <3>3 DEF IsPrefix
  <2>4. QED
    BY <2>2, <2>3, LogSteps DEF IInv
<1>2. QED
  BY <1>1, Inductive, PTL DEF Spec, EventsKept

=============================================================================
