-------------------------- MODULE CodeServerProofs --------------------------
(* Theorems about CodeServer, for every value of its constants.            *)
EXTENDS CodeServer, TLAPS

USE NilAssumption, DefaultExpireAssumption, FieldsAssumption

-----------------------------------------------------------------------------
(* The expire field.                                                       *)

\* dp_get_expire_or_set always leaves digits behind, never the ':' prefix.
LEMMA ActivationIsDigits ==
    ASSUME NEW f \in ExpireField, NEW now \in Int
    PROVE  /\ dp_get_expire_or_set(f, now) \in ExpireField
           /\ ~dp_get_expire_or_set(f, now).colon
  BY DEF dp_get_expire_or_set, dp_get_expire, dp_set_expire, ExpireField,
         Unparsable

\* dp_get_expire_or_set leaves a deadline that is already fixed alone.
LEMMA ActivationOnce ==
    ASSUME NEW e \in Int, NEW now \in Int, e # Unparsable
    PROVE  dp_get_expire_or_set(dp_set_expire(e), now) = dp_set_expire(e)
  BY DEF dp_get_expire_or_set, dp_get_expire, dp_set_expire, Unparsable

-----------------------------------------------------------------------------
(* Type correctness.                                                       *)

TypeInv == TypeOK /\ HandlerInv

USE DEF Answer

LEMMA TypeInit == Init => TypeInv
<1> SUFFICES ASSUME Init PROVE TypeInv
  OBVIOUS
<1>1. edition \in [Slots -> Nat] /\ codeFile \in [Slots -> File \cup {Nil}]
  BY DEF Init
<1>2. wire \in [Users \X Ids -> Request \cup {Nil}]
  BY DEF Init
<1>3. grants \in Seq(Grants) /\ clock \in Int
  BY DEF Init
<1>4. linked \in BOOLEAN
  BY Zenon DEF Init
<1>5. QED
  BY <1>1, <1>2, <1>3, <1>4 DEF Init, TypeInv, TypeOK, HandlerInv, Loaded

LEMMA TypeNext == TypeInv /\ [Next]_vars => TypeInv'
<1> SUFFICES ASSUME TypeInv, [Next]_vars PROVE TypeInv'
  OBVIOUS
<1> USE DEF TypeInv, TypeOK, HandlerInv, Loaded
<1>1. CASE Tick
  BY <1>1 DEF Tick, diskVars, connVars
<1>2. ASSUME NEW u \in Users, NEW i \in Ids, NEW c \in Codes,
             SignRequest(u, i, c)
      PROVE TypeInv'
  BY <1>2 DEF SignRequest, diskVars, connVars, Request
<1>3. ASSUME NEW s \in Slots, NEW f \in Fields, Publish(s, f)
      PROVE TypeInv'
  BY <1>3 DEF Publish, connVars, File
<1>4. ASSUME NEW s \in Slots, Withdraw(s)
      PROVE TypeInv'
  BY <1>4 DEF Withdraw
<1>5. CASE RejectMalformed
  BY <1>5 DEF RejectMalformed, diskVars
<1>6. ASSUME NEW x \in Users \X Ids, Receive(x)
      PROVE TypeInv'
  BY <1>6 DEF Receive, diskVars
<1>7. CASE ClaimId
  <2>1. <<req.user, req.id>> \in Users \X Ids
    BY <1>7 DEF ClaimId, Request
  <2>2. QED
    BY <1>7, <2>1 DEF ClaimId
<1>8. CASE LoadCode
  <2>1. PICK s \in Slots : s = SlotFor(req.user, req.code)
    BY <1>8 DEF LoadCode, SlotFor, Slots, Request
  <2>2. CASE Answer("404")
    BY <1>8, <2>2 DEF LoadCode, diskVars
  <2>3. CASE ~Answer("404")
    <3>1. codeFile[s] \in File
      BY <1>8, <2>1, <2>3 DEF LoadCode
    <3>2. mem' \in Memory
      <4>1. dp_get_expire_or_set(codeFile[s].expire, clock) \in ExpireField
        BY <3>1, ActivationIsDigits DEF File
      <4>2. QED
        BY <1>8, <2>1, <2>3, <3>1, <4>1 DEF LoadCode, File, Memory
    <3>3. QED
      BY <1>8, <2>1, <2>3, <3>2 DEF LoadCode, diskVars
  <2>4. QED
    BY <2>2, <2>3
<1>9. CASE CheckExpired
  <2>1. mem \in Memory /\ [mem EXCEPT !.at = clock] \in Memory
    BY <1>9 DEF CheckExpired, Memory
  <2>2. QED
    BY <1>9, <2>1 DEF CheckExpired, diskVars
<1>10. CASE WriteBack
  <2>1. WrittenBack \in [Slots -> File \cup {Nil}]
    <3>1. mem \in Memory
      BY <1>10 DEF WriteBack
    <3>2. [edition |-> mem.edition, expire |-> mem.expire] \in File
      BY <3>1 DEF Memory, File
    <3>3. QED
      BY <3>1, <3>2 DEF WrittenBack, Memory
  <2>2. QED
    BY <1>10, <2>1 DEF WriteBack
<1>11. CASE Respond
  <2>1. GrantOf(req, mem) \in Grants
    BY <1>11 DEF Respond, GrantOf, Grants, Memory, Request, ExpireField
  <2>2. Append(grants, GrantOf(req, mem)) \in Seq(Grants)
    BY <2>1
  <2>3. grants' \in Seq(Grants)
    BY <1>11, <2>2 DEF Respond
  <2>4. QED
    BY <1>11, <2>3 DEF Respond, diskVars
<1>12. CASE Crash
  BY <1>12 DEF Crash, diskVars
<1>13. CASE UNCHANGED vars
  BY <1>13 DEF vars
<1>14. QED
  BY <1>1, <1>2, <1>3, <1>4, <1>5, <1>6, <1>7, <1>8, <1>9, <1>10, <1>11,
     <1>12, <1>13 DEF Next, Handle

\* Every variable of the C server keeps its type: whatever the order of
\* requests, edits and crashes, the handler never holds half a request or half
\* a payload (dumb_handler.c, dp_load.c).
THEOREM TypeCorrect == Spec => []TypeOK
<1>1. TypeInv => TypeOK
  BY DEF TypeInv
<1>2. QED
  BY <1>1, TypeInit, TypeNext, PTL DEF Spec

-----------------------------------------------------------------------------
(* The inductive invariant.                                                *)

LEMMA InvInit == Init => IInv
<1> SUFFICES ASSUME Init PROVE IInv
  OBVIOUS
<1>1. TypeInv
  BY TypeInit
<1>2. Len(grants) = 0
  BY DEF Init
<1>3. QED
  BY <1>1, <1>2 DEF Init, IInv, TypeInv, TypeOK, SpentInv, EditionInv, MemoryInv,
     LinkInv, WrittenInv, AliveInv, WindowInv, DiskInv, IdServedOnce, Loaded

Invs == /\ clock >= 1
        /\ SpentInv /\ EditionInv /\ MemoryInv /\ LinkInv /\ WrittenInv
        /\ AliveInv /\ WindowInv /\ DiskInv /\ IdServedOnce

LEMMA GrantTypes ==
    ASSUME TypeOK
    PROVE  \A i \in 1..Len(grants) :
               /\ grants[i].slot \in Slots /\ grants[i].edition \in Nat
               /\ grants[i].until \in Int /\ grants[i].at \in Int
<1>1. \A i \in 1..Len(grants) : grants[i] \in Grants
  BY DEF TypeOK
<1>2. QED
  BY <1>1 DEF Grants

LEMMA MemoryTypes ==
    ASSUME TypeInv, Loaded
    PROVE  /\ mem.slot \in Slots /\ mem.edition \in Nat /\ mem.at \in Int
           /\ mem.expire \in ExpireField /\ mem.expire.num \in Int
  BY DEF TypeInv, HandlerInv, Memory, ExpireField

LEMMA FileTypes ==
    ASSUME TypeOK, NEW s \in Slots, codeFile[s] # Nil
    PROVE  codeFile[s].edition \in Nat /\ codeFile[s].expire \in ExpireField
<1>1. codeFile[s] \in File
  BY DEF TypeOK
<1>2. QED
  BY <1>1 DEF File

\* A new content of a code file bears a number that nothing else bears.
LEMMA PublishInv ==
    ASSUME TypeInv, Invs, NEW s \in Slots, NEW f \in Fields, Publish(s, f)
    PROVE  Invs'
<1>1. UNCHANGED <<clock, requestFile, pc, req, mem, linked, grants>>
  BY DEF Publish, connVars
<1>2. /\ codeFile'[s] = [edition |-> edition[s] + 1, expire |-> f]
      /\ edition'[s] = edition[s] + 1
      /\ edition[s] \in Nat
      /\ \A t \in Slots : t # s => codeFile'[t] = codeFile[t]
                                   /\ edition'[t] = edition[t]
  BY DEF Publish, TypeInv, TypeOK
<1>3. codeFile'[s].edition = edition[s] + 1
  BY <1>2
<1>4. SpentInv' /\ MemoryInv' /\ AliveInv' /\ WindowInv' /\ IdServedOnce'
  BY <1>1 DEF Invs, SpentInv, MemoryInv, AliveInv, WindowInv, IdServedOnce, Loaded
<1>5. EditionInv'
  <2>1. \A t \in Slots : codeFile'[t] # Nil => codeFile'[t].edition <= edition'[t]
    BY <1>2, <1>3 DEF Invs, EditionInv
  <2>2. \A i \in 1..Len(grants) : grants[i].edition <= edition'[grants[i].slot]
    BY <1>2, GrantTypes DEF Invs, EditionInv, TypeInv
  <2>3. Loaded => mem.edition <= edition'[mem.slot]
    BY <1>2, MemoryTypes DEF Invs, EditionInv
  <2>4. QED
    BY <1>1, <2>1, <2>2, <2>3 DEF EditionInv, Loaded
<1>6. Loaded => codeFile'[mem.slot] = codeFile[mem.slot]
                \/ codeFile'[mem.slot].edition # mem.edition
  BY <1>2, <1>3, MemoryTypes DEF Invs, EditionInv
<1>7. LinkInv' /\ WrittenInv'
  BY <1>1, <1>6 DEF Invs, LinkInv, WrittenInv, Loaded
<1>8. \A i \in 1..Len(grants) :
         \/ codeFile'[grants[i].slot] = codeFile[grants[i].slot]
         \/ codeFile'[grants[i].slot].edition # grants[i].edition
  BY <1>2, <1>3, GrantTypes DEF Invs, EditionInv, TypeInv
<1>9. DiskInv'
  BY <1>1, <1>8 DEF Invs, DiskInv
<1>10. QED
  BY <1>1, <1>4, <1>5, <1>7, <1>9 DEF Invs

\* Reading a file whose deadline has been announced yields that deadline.
LEMMA LoadInv ==
    ASSUME TypeInv, Invs, LoadCode
    PROVE  Invs'
<1>1. UNCHANGED <<clock, codeFile, edition, requestFile, grants>>
  BY DEF LoadCode, diskVars
<1>2. CASE pc' = "idle"
  BY <1>1, <1>2 DEF Invs, SpentInv, EditionInv, MemoryInv, LinkInv, WrittenInv,
     AliveInv, WindowInv, DiskInv, IdServedOnce, Loaded
<1>3. CASE pc' # "idle"
  <2> DEFINE s == SlotFor(req.user, req.code)
             e == dp_get_expire_or_set(codeFile[s].expire, clock)
  <2>1. s \in Slots
    BY DEF LoadCode, SlotFor, Slots, Request, TypeInv, HandlerInv
  <2>2. /\ codeFile[s] # Nil /\ req' = req /\ linked' /\ pc = "load"
        /\ mem' = [slot |-> s, edition |-> codeFile[s].edition, at |-> clock,
                   expire |-> e]
        /\ pc' = "check"
    BY <1>3 DEF LoadCode
  <2>3. /\ mem'.slot = s /\ mem'.edition = codeFile[s].edition
        /\ mem'.at = clock /\ mem'.expire = e
    BY <2>2
  <2> HIDE DEF s
  <2>4. ~e.colon
    BY <2>1, <2>2, FileTypes, ActivationIsDigits DEF TypeInv, TypeOK
  <2>5. ASSUME NEW i \in 1..Len(grants), grants[i].slot = s,
               grants[i].edition = codeFile[s].edition
        PROVE  e.num = grants[i].until
    <3>1. codeFile[s].expire = dp_set_expire(grants[i].until)
      BY <2>2, <2>5 DEF Invs, DiskInv
    <3>2. grants[i].until \in Int /\ grants[i].until # Unparsable
      BY GrantTypes DEF Invs, AliveInv, Unparsable, TypeInv
    <3>3. e = dp_set_expire(grants[i].until)
      BY <3>1, <3>2, ActivationOnce DEF TypeInv, TypeOK
    <3>4. QED
      BY <3>3 DEF dp_set_expire
  <2> HIDE DEF e
  <2>6. SpentInv' /\ WrittenInv' /\ AliveInv' /\ WindowInv' /\ DiskInv'
        /\ IdServedOnce' /\ LinkInv'
    BY <1>1, <2>2 DEF Invs, SpentInv, WrittenInv, AliveInv, WindowInv, DiskInv,
       IdServedOnce, LinkInv
  <2>7. EditionInv'
    BY <1>1, <2>1, <2>2, <2>3 DEF Invs, EditionInv
  <2>8. MemoryInv'
    BY <1>1, <2>2, <2>3, <2>4, <2>5 DEF Invs, MemoryInv
  <2>9. QED
    BY <1>1, <2>6, <2>7, <2>8 DEF Invs
<1>4. QED
  BY <1>2, <1>3

LEMMA CheckInv ==
    ASSUME TypeInv, Invs, CheckExpired
    PROVE  Invs'
<1>1. UNCHANGED <<clock, codeFile, edition, requestFile, grants>>
  BY DEF CheckExpired, diskVars
<1>2. CASE pc' = "idle"
  BY <1>1, <1>2 DEF Invs, SpentInv, EditionInv, MemoryInv, LinkInv, WrittenInv,
     AliveInv, WindowInv, DiskInv, IdServedOnce, Loaded
<1>3. CASE pc' # "idle"
  <2>1. /\ pc = "check" /\ pc' = "write" /\ UNCHANGED <<req, linked>>
        /\ StillValid
        /\ mem' = [mem EXCEPT !.at = clock]
    BY <1>3 DEF CheckExpired
  <2>2. mem.expire.num = 0 \/ clock < mem.expire.num
    BY <2>1, MemoryTypes DEF StillValid, ExpiredAt, TypeInv, TypeOK, Loaded
  <2>3. /\ mem'.slot = mem.slot /\ mem'.edition = mem.edition
        /\ mem'.expire = mem.expire /\ mem'.at = clock
    BY <2>1 DEF Memory, TypeInv, HandlerInv, Loaded
  <2>4. QED
    BY <1>1, <2>1, <2>2, <2>3 DEF Invs, SpentInv, EditionInv, MemoryInv, LinkInv,
       WrittenInv, AliveInv, WindowInv, DiskInv, IdServedOnce, Loaded
<1>4. QED
  BY <1>2, <1>3

\* Writing back never contradicts what has been announced: the payload in
\* memory carries the announced deadline already.
LEMMA WriteInv ==
    ASSUME TypeInv, Invs, WriteBack
    PROVE  Invs'
<1> DEFINE new == [edition |-> mem.edition, expire |-> mem.expire]
<1>1. /\ UNCHANGED <<clock, edition, requestFile, grants>>
      /\ pc = "write"
      /\ pc' = "idle" \/ (/\ pc' = "respond" /\ UNCHANGED <<req, mem, linked>>
                          /\ codeFile' = WrittenBack)
  BY DEF WriteBack
<1>2. codeFile' = codeFile \/ codeFile' = WrittenBack
  BY DEF WriteBack
<1>3. mem.expire = dp_set_expire(mem.expire.num)
  BY <1>1, MemoryTypes DEF dp_set_expire, ExpireField, Invs, MemoryInv, Loaded
<1>4. mem.slot \in Slots /\ codeFile \in [Slots -> File \cup {Nil}]
  BY <1>1, MemoryTypes DEF Loaded, TypeInv, TypeOK
<1>5. CASE codeFile' = codeFile
  <2>1. SpentInv' /\ AliveInv' /\ WindowInv' /\ IdServedOnce' /\ DiskInv'
    BY <1>1, <1>5 DEF Invs, SpentInv, AliveInv, WindowInv, IdServedOnce, DiskInv
  <2>2. EditionInv' /\ MemoryInv' /\ LinkInv'
    BY <1>1, <1>5 DEF Invs, EditionInv, MemoryInv, LinkInv, Loaded
  <2>3. WrittenInv'
    BY <1>1, <1>2, <1>4, <1>5 DEF Invs, WrittenInv, WrittenBack, LinkInv, Loaded
  <2>4. QED
    BY <1>1, <2>1, <2>2, <2>3 DEF Invs
<1>6. CASE codeFile' # codeFile
  <2>1. linked /\ codeFile' = [codeFile EXCEPT ![mem.slot] = new]
    BY <1>2, <1>6 DEF WrittenBack
  <2>2. codeFile'[mem.slot] = new
    BY <1>4, <2>1
  <2>3. \A t \in Slots : t # mem.slot => codeFile'[t] = codeFile[t]
    BY <1>4, <2>1
  <2>4. new.edition = mem.edition /\ new.expire = mem.expire
    OBVIOUS
  <2> HIDE DEF new
  <2>5. SpentInv' /\ AliveInv' /\ WindowInv' /\ IdServedOnce' /\ MemoryInv'
    BY <1>1 DEF Invs, SpentInv, AliveInv, WindowInv, IdServedOnce, MemoryInv, Loaded
  <2>6. WrittenInv' /\ LinkInv'
    BY <1>1, <2>1, <2>2, <2>4 DEF WrittenInv, LinkInv, Loaded
  <2>7. EditionInv'
    BY <1>1, <1>4, <2>2, <2>3, <2>4 DEF Invs, EditionInv, Loaded
  <2>8. DiskInv'
    <3>1. SUFFICES ASSUME NEW i \in 1..Len(grants),
                          codeFile'[grants[i].slot] # Nil,
                          codeFile'[grants[i].slot].edition = grants[i].edition
                   PROVE  codeFile'[grants[i].slot].expire
                             = dp_set_expire(grants[i].until)
      BY <1>1 DEF DiskInv
    <3>2. CASE grants[i].slot = mem.slot
      BY <1>1, <1>3, <2>2, <2>4, <3>1, <3>2 DEF Invs, MemoryInv, Loaded
    <3>3. CASE grants[i].slot # mem.slot
      BY <2>3, <3>1, <3>3, GrantTypes DEF Invs, DiskInv, TypeInv
    <3>4. QED
      BY <3>2, <3>3
  <2>9. QED
    BY <1>1, <2>5, <2>6, <2>7, <2>8 DEF Invs
<1>7. QED
  BY <1>5, <1>6

\* Handing the payload out spends the claimed id and announces the deadline
\* that is on disk.
LEMMA RespondInv ==
    ASSUME TypeInv, Invs, Respond
    PROVE  Invs'
<1>1. UNCHANGED <<clock, codeFile, edition, requestFile>> /\ pc' = "idle"
      /\ pc = "respond"
  BY DEF Respond, diskVars
<1>2. CASE UNCHANGED grants
  BY <1>1, <1>2 DEF Invs, SpentInv, EditionInv, MemoryInv, LinkInv, WrittenInv,
     AliveInv, WindowInv, DiskInv, IdServedOnce, Loaded
<1>3. CASE grants' = Append(grants, GrantOf(req, mem))
  <2> DEFINE g == GrantOf(req, mem)
             n == Len(grants)
  <2>1. /\ g.user = req.user /\ g.id = req.id /\ g.slot = mem.slot
        /\ g.edition = mem.edition /\ g.until = mem.expire.num /\ g.at = mem.at
    BY DEF GrantOf
  <2>2. grants \in Seq(Grants)
    BY DEF TypeInv, TypeOK
  <2> HIDE DEF g
  <2>3. /\ n \in Nat /\ Len(grants') = n + 1 /\ grants'[n + 1] = g
        /\ \A i \in 1..n : grants'[i] = grants[i]
    BY <1>3, <2>2 DEF g
  <2>4. \A i \in 1..Len(grants') : i \in 1..n \/ i = n + 1
    BY <2>3
  <2>5. mem.expire = dp_set_expire(mem.expire.num)
    BY <1>1, MemoryTypes DEF dp_set_expire, ExpireField, Invs, MemoryInv, Loaded
  <2>6. \A i \in 1..n : <<grants[i].user, grants[i].id>> # <<g.user, g.id>>
    BY <1>1, <2>1 DEF Invs, SpentInv
  <2>7. SpentInv'
    BY <1>1, <2>1, <2>3, <2>4 DEF Invs, SpentInv
  <2>8. IdServedOnce'
    BY <2>3, <2>4, <2>6 DEF Invs, IdServedOnce
  <2>9. EditionInv' /\ AliveInv'
    BY <1>1, <2>1, <2>3, <2>4 DEF Invs, EditionInv, AliveInv, MemoryInv, Loaded
  <2>10. \A i \in 1..n : grants[i].slot = g.slot /\ grants[i].edition = g.edition
                           => grants[i].until = g.until
    BY <1>1, <2>1 DEF Invs, MemoryInv, Loaded
  <2>11. WindowInv'
    BY <2>3, <2>4, <2>10 DEF Invs, WindowInv
  <2>12. DiskInv'
    BY <1>1, <2>1, <2>3, <2>4, <2>5 DEF Invs, DiskInv, WrittenInv
  <2>13. MemoryInv' /\ LinkInv' /\ WrittenInv'
    BY <1>1 DEF MemoryInv, LinkInv, WrittenInv, Loaded
  <2>14. QED
    BY <1>1, <2>7, <2>8, <2>9, <2>11, <2>12, <2>13 DEF Invs
<1>4. QED
  BY <1>2, <1>3 DEF Respond

LEMMA InvNext == IInv /\ [Next]_vars => IInv'
<1> SUFFICES ASSUME IInv, [Next]_vars PROVE IInv'
  OBVIOUS
<1>0. TypeInv /\ TypeInv' /\ Invs
  BY TypeNext DEF IInv, TypeInv, Invs
<1> SUFFICES Invs'
  BY <1>0 DEF IInv, TypeInv, Invs
<1>1. ASSUME NEW s \in Slots, NEW f \in Fields, Publish(s, f)
      PROVE  Invs'
  BY <1>0, <1>1, PublishInv
<1>2. CASE LoadCode
  BY <1>0, <1>2, LoadInv
<1>3. CASE CheckExpired
  BY <1>0, <1>3, CheckInv
<1>4. CASE WriteBack
  BY <1>0, <1>4, WriteInv
<1>5. CASE Respond
  BY <1>0, <1>5, RespondInv
<1> USE DEF Invs, SpentInv, EditionInv, MemoryInv, LinkInv, WrittenInv,
     AliveInv, WindowInv, DiskInv, IdServedOnce, Loaded, TypeInv, TypeOK, HandlerInv
<1>6. CASE Tick
  BY <1>0, <1>6 DEF Tick, diskVars, connVars
<1>7. ASSUME NEW u \in Users, NEW i \in Ids, NEW c \in Codes,
             SignRequest(u, i, c)
      PROVE  Invs'
  BY <1>0, <1>7 DEF SignRequest, diskVars, connVars
<1>8. ASSUME NEW s \in Slots, Withdraw(s)
      PROVE  Invs'
  BY <1>0, <1>8 DEF Withdraw, Grants, Memory
<1>9. CASE RejectMalformed
  BY <1>0, <1>9 DEF RejectMalformed, diskVars
<1>10. ASSUME NEW x \in Users \X Ids, Receive(x)
       PROVE  Invs'
  BY <1>0, <1>10 DEF Receive, diskVars
<1>11. CASE ClaimId
  BY <1>0, <1>11 DEF ClaimId, IdUnused
<1>12. CASE Crash
  BY <1>0, <1>12 DEF Crash, diskVars
<1>13. CASE UNCHANGED vars
  BY <1>0, <1>13 DEF vars
<1>14. QED
  BY <1>1, <1>2, <1>3, <1>4, <1>5, <1>6, <1>7, <1>8, <1>9, <1>10, <1>11,
     <1>12, <1>13 DEF Next, Handle

\* The disk, the handler and the payloads handed out agree after every step of
\* dumb_handler.c and dp_load.c.
THEOREM Inductive == Spec => []IInv
  BY InvInit, InvNext, PTL DEF Spec

\* dumb_handler.c: no request id is ever answered with a payload twice.
THEOREM ServedOnce == Spec => []IdServedOnce
<1>1. IInv => IdServedOnce
  BY DEF IInv
<1>2. QED
  BY <1>1, Inductive, PTL

\* dumb.h, DEFAULT_EXPIRE_TIME: the first use of a code fixes its deadline for
\* every later one.
THEOREM OneWindow == Spec => []OneWindowPerEdition
<1>1. IInv => OneWindowPerEdition
  BY DEF IInv, WindowInv, AliveInv, OneWindowPerEdition, Granted
<1>2. QED
  BY <1>1, Inductive, PTL

\* dp_load.c: an announced deadline is on disk, so it survives a crash.
THEOREM OnDisk == Spec => []DeadlineOnDisk
<1>1. IInv => DeadlineOnDisk
  BY DEF IInv, DiskInv, DeadlineOnDisk, Granted
<1>2. QED
  BY <1>1, Inductive, PTL

-----------------------------------------------------------------------------
(* Refinement.                                                             *)

LEMMA LedgerStep == IInv /\ [Next]_vars => [Ledger!Next]_grants
<1> SUFFICES ASSUME IInv, [Next]_vars PROVE [Ledger!Next]_grants
  OBVIOUS
<1>1. CASE Respond
  <2>1. CASE UNCHANGED grants
    BY <2>1
  <2>2. CASE grants' = Append(grants, GrantOf(req, mem))
    <3> DEFINE g == GrantOf(req, mem)
               n == Len(grants)
    <3>1. /\ g.user = req.user /\ g.id = req.id /\ g.slot = mem.slot
          /\ g.edition = mem.edition /\ g.until = mem.expire.num
          /\ g.at = mem.at
      BY DEF GrantOf
    <3>2. grants \in Seq(Grants) /\ pc = "respond"
      BY <1>1 DEF IInv, TypeOK, Respond
    <3> HIDE DEF g
    <3>3. n \in Nat /\ Len(grants') = n + 1 /\ grants'[n + 1] = g
      BY <2>2, <3>2 DEF g
    <3>4. g.until = 0 \/ g.at < g.until
      BY <3>1, <3>2 DEF IInv, MemoryInv, Loaded
    <3>5. \A i \in 1..n : ~(grants[i].user = g.user /\ grants[i].id = g.id)
      BY <3>1, <3>2 DEF IInv, SpentInv
    <3>6. \A i \in 1..n :
             grants[i].slot = g.slot /\ grants[i].edition = g.edition
                => grants[i].until = g.until
      BY <3>1, <3>2 DEF IInv, MemoryInv, Loaded
    <3>7. Ledger!Admissible(g, grants)
      BY <3>4, <3>5, <3>6 DEF Ledger!Admissible, Ledger!InTime,
         Ledger!SameRequest, Ledger!SameCode
    <3>8. QED
      BY <2>2, <3>3, <3>7 DEF Ledger!Next, Ledger!Grant, g
  <2>3. QED
    BY <1>1, <2>1, <2>2 DEF Respond
<1>2. CASE ~Respond
  <2>1. UNCHANGED grants
    BY <1>2 DEF Next, Handle, vars, Tick, SignRequest, Publish, Withdraw,
       RejectMalformed, Receive, ClaimId, LoadCode, CheckExpired, WriteBack, Crash
  <2>2. QED
    BY <2>1
<1>3. QED
  BY <1>1, <1>2

\* The C server implements CodeLedger: each payload handed out spends a new
\* request id, carries its code's one deadline and was checked before it.
THEOREM ImplementsLedger == Spec => LedgerSpec
<1>1. Init => Ledger!Init
  BY DEF Init, Ledger!Init
<1>2. QED
  BY <1>1, LedgerStep, Inductive, PTL DEF Spec, LedgerSpec, Ledger!Spec

=============================================================================
