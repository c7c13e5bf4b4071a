--------------------------- MODULE LogUploadProofs ---------------------------
(* Theorems about LogUpload, for any number of logs: what upload_data       *)
(* returns, the socket of the daemon, and the refinement of LogArchive.     *)
EXTENDS LogUpload, NaturalsInduction, WellFoundedInduction, SequenceTheorems,
        TLAPS

-----------------------------------------------------------------------------
(* The inductive invariant.                                                *)

Born == 1..born

BornEntries == Born \X Kinds

Called == {"prepare", "stat", "read", "post"}

\* Nothing is about a log that is not born.
TypeOK ==
    /\ born \in 0..MaxLogs
    /\ logDir \subseteq Born /\ plain \subseteq Born
    /\ whole \subseteq Born /\ torn \subseteq Born
    /\ sb \in {"off", "gzip", "run"} /\ sbLog \in Born \cup {Untracked}
    /\ gz \in [Logs -> {"none", "part", "full"}]
    /\ zip \in [Logs -> {"no", "begin", "write", "unlink"}]
    /\ \A l \in Logs : l > born => gz[l] = "none" /\ zip[l] = "no"
    /\ script \in {"wait", "loop", "call", "rm"} /\ todo \subseteq BornEntries
    /\ script \in {"call", "rm"} => todo # {}
    /\ pc \in Called \cup {"idle", "done"}
    /\ args \in Seq(BornEntries)
    /\ pc \in Called => args # << >>

\* What is asked for is what is stored under the request id and what is left.
StoredInv ==
    /\ pc \in Called => /\ asked = sent \cup {args[i] : i \in DOMAIN args}
                        /\ ret = "none"
    /\ ZeroMeansStored

\* The script is at the first path of todo until that is dealt with.
UploadedInv == /\ seen \in {"part", "full"}
               /\ Path[2] = "log" => seen = "full"
               /\ seen = "full" => Path[1] \in whole

CallInv ==
    /\ pc \in {"read", "post"} => /\ seen \in {"part", "full"}
                                  /\ File[2] = "log" => seen = "full"
    /\ script \in {"loop", "rm"} => pc = "idle"
    /\ script = "call" => /\ pc # "idle"
                          /\ pc \in Called => args = <<Path>>
                          /\ ret = "0" => UploadedInv
    /\ script = "rm" => UploadedInv

\* A log is gzipped once, and its gzip unlinks only what is in the .gz, or on
\* the server, or torn.
Safe == whole \cup torn

ZipInv ==
    /\ sbLog \notin logDir
    /\ sb = "gzip" => sbLog # Untracked
    /\ \A l \in Logs :
          /\ l \in logDir \/ (sbLog = l /\ sb # "gzip") =>
                gz[l] = "none" /\ zip[l] = "no"
          /\ zip[l] = "begin" => gz[l] = "none"
          /\ zip[l] = "write" => gz[l] \in {"part", "full"} \/ l \in Safe
          /\ zip[l] = "unlink" => gz[l] = "full" \/ l \in Safe

NoneLost == \A l \in Born : l \in Safe \/ OnDevice(l)

IInv == /\ TypeOK /\ StoredInv /\ CallInv /\ ZipInv /\ NoneLost
        /\ StaleOnlyByDeath

LEMMA InvInit == Init => IInv
<1> SUFFICES ASSUME Init PROVE IInv
  OBVIOUS
<1>1. ~sock
  BY Zenon DEF Init
<1>2. TypeOK
  BY MaxLogsAssumption DEF Init, TypeOK, Untracked, Logs, Called
<1>3. StoredInv /\ CallInv
  BY DEF Init, StoredInv, ZeroMeansStored, CallInv, Called
<1>4. ZipInv /\ NoneLost
  BY DEF Init, ZipInv, NoneLost, Born, Untracked, Logs
<1>5. QED
  BY <1>1, <1>2, <1>3, <1>4 DEF IInv, StaleOnlyByDeath

-----------------------------------------------------------------------------
(* The first path of the glob.                                             *)

LEMMA HasLeast ==
    ASSUME NEW S, S \subseteq Nat, S # {}
    PROVE  \E x \in S : \A y \in S : x <= y
<1> DEFINE R == {ss \in Nat \X Nat : ss[1] < ss[2]}
<1>1. R = OpToRel(<, Nat)
  BY DEF OpToRel
<1>2. IsWellFoundedOn(R, Nat)
  BY <1>1, NatLessThanWellFounded
<1>3. PICK x \in S : \A y \in S : ~(<<y, x>> \in R)
  BY <1>2, WFMin
<1>4. ASSUME NEW y \in S PROVE x <= y
  <2>1. y \in Nat /\ x \in Nat
    OBVIOUS
  <2>2. ~(y < x)
    BY <1>3, <2>1
  <2>3. QED
    BY <2>1, <2>2
<1>5. QED
  BY <1>4

LEMMA PathFirst ==
    ASSUME TypeOK, todo # {}
    PROVE  Path \in todo
<1> DEFINE Key(e) == 2 * e[1] + (IF e[2] = "log" THEN 0 ELSE 1)
           Keys == {Key(e) : e \in todo}
<1>1. \A e \in todo : e[1] \in Nat /\ e[2] \in {"log", "gz"}
  BY DEF TypeOK, BornEntries, Born, Kinds
<1>2. Keys \subseteq Nat /\ Keys # {}
  BY <1>1
<1>3. PICK k \in Keys : \A m \in Keys : k <= m
  BY <1>2, HasLeast
<1>4. PICK e \in todo : k = Key(e)
  OBVIOUS
<1>5. ASSUME NEW f \in todo
      PROVE  e[1] < f[1] \/ (e[1] = f[1] /\ (e[2] = "log" \/ f[2] = "gz"))
  <2>1. Key(e) <= Key(f)
    BY <1>3, <1>4
  <2>2. QED
    BY <1>1, <2>1
<1>6. QED
  BY <1>5 DEF Path

-----------------------------------------------------------------------------
(* Types.                                                                  *)

LEMMA Birth ==
    ASSUME TypeOK, Begun
    PROVE  /\ born' \in 0..MaxLogs /\ born <= born'
           /\ NewLog \in Born' \cup {Untracked}
           /\ NewLog # Untracked => NewLog \in Logs /\ NewLog = born + 1
           /\ NewLog = Untracked => born' = born
           /\ NewLog # Untracked => born' = born + 1
           /\ Born \subseteq Born'
  BY MaxLogsAssumption DEF TypeOK, Begun, NewLog, Untracked, Born, Logs

\* Only what is born is in a directory.
LEMMA ExistsBorn ==
    ASSUME TypeOK, NEW e \in Entries, Exists(e)
    PROVE  e \in BornEntries
  BY DEF TypeOK, Entries, Exists, Kinds, Born, BornEntries, Logs

\* The file a handler is at, and the ones before it.
LEMMA FileBorn ==
    ASSUME TypeOK, pc \in Called
    PROVE  File \in BornEntries /\ File[1] \in Born /\ Len(args) \in Nat \ {0}
<1>1. Len(args) \in Nat \ {0} /\ args \in Seq(BornEntries)
  BY DEF TypeOK
<1>2. File \in BornEntries
  BY <1>1 DEF File
<1>3. QED
  BY <1>1, <1>2 DEF BornEntries

LEMMA StoresBorn ==
    ASSUME TypeOK, pc \in Called, Stores
    PROVE  whole' \subseteq Born
  BY FileBorn DEF Stores, TypeOK

LEMMA Shortened ==
    ASSUME TypeOK, pc \in Called, NEW rest, rest = SubSeq(args, 1, Len(args) - 1)
    PROVE  /\ rest \in Seq(BornEntries)
           /\ Len(args) # 1 => rest # << >>
           /\ DOMAIN args = DOMAIN rest \cup {Len(args)}
           /\ \A i \in DOMAIN rest : rest[i] = args[i]
<1>1. Len(args) \in Nat \ {0} /\ args \in Seq(BornEntries)
  BY FileBorn DEF TypeOK
<1>2. /\ rest \in Seq(BornEntries) /\ Len(rest) = Len(args) - 1
      /\ \A i \in 1..Len(args) - 1 : rest[i] = args[i]
  <2> DEFINE n == Len(args) - 1
  <2>1. n \in 0..Len(args) /\ 1 \in 1..Len(args) + 1 /\ n - 1 + 1 = n
    BY <1>1
  <2>2. /\ SubSeq(args, 1, n) \in Seq(BornEntries)
        /\ Len(SubSeq(args, 1, n)) = IF 1 <= n THEN n - 1 + 1 ELSE 0
        /\ \A i \in 1..n - 1 + 1 : SubSeq(args, 1, n)[i] = args[1 + i - 1]
    BY <1>1, <2>1, SubSeqProperties
  <2>3. QED
    BY <1>1, <2>1, <2>2
<1>3. DOMAIN rest = 1..Len(args) - 1 /\ DOMAIN args = 1..Len(args)
  BY <1>1, <1>2
<1>4. Len(args) # 1 => rest # << >>
  <2>1. Len(args) # 1 => Len(rest) # 0
    BY <1>1, <1>2
  <2>2. Len(<< >>) = 0
    OBVIOUS
  <2>3. QED
    BY <2>1, <2>2, Zenon
<1>5. 1..Len(args) = (1..Len(args) - 1) \cup {Len(args)}
  BY <1>1
<1>6. QED
  BY <1>2, <1>3, <1>4, <1>5

LEMMA BirthType ==
    ASSUME TypeOK, Begun,
           logDir' \in {logDir, {NewLog} \ {Untracked}},
           sb' = "run" \/ UNCHANGED sb, sbLog' \in {sbLog, NewLog},
           UNCHANGED <<plain, gz, zip, script, todo, pc, args, whole, torn>>
    PROVE  TypeOK'
<1>1. BornEntries \subseteq BornEntries'
  BY Birth DEF BornEntries
<1>2. args' \in Seq(BornEntries')
  BY <1>1 DEF TypeOK
<1>3. \A l \in Logs : l > born' => gz'[l] = "none" /\ zip'[l] = "no"
  BY Birth DEF TypeOK, Logs
<1>4. QED
  BY <1>1, <1>2, <1>3, Birth DEF TypeOK

LEMMA TypeNext == TypeOK /\ [Next]_vars => TypeOK'
<1> SUFFICES ASSUME TypeOK, [Next]_vars PROVE TypeOK'
  OBVIOUS
<1>L. Born \subseteq Logs
  BY MaxLogsAssumption DEF TypeOK, Born, Logs
<1>1. ASSUME NEW l \in Logs, Rotate(l) PROVE TypeOK'
  BY <1>1, <1>L DEF Rotate, TypeOK, Born, BornEntries, sbVars, scriptVars,
                    handlerVars, serverVars
<1>2. CASE StartDaemon
  <2>1. /\ Begun /\ logDir' = {NewLog} \ {Untracked}
        /\ UNCHANGED <<sb, sbLog, plain, gz, zip, script, todo, pc, args, whole,
                       torn>>
    BY <1>2 DEF StartDaemon, sbVars, fileVars, scriptVars, handlerVars,
                serverVars
  <2>2. QED
    BY <2>1, BirthType
<1>3. CASE Listen \/ StartFails \/ DaemonDies
  BY <1>3 DEF Listen, StartFails, DaemonDies, TypeOK, Born, BornEntries, sbVars,
              fileVars, scriptVars, handlerVars, serverVars
<1>4. CASE StartSingBox
  <2>1. UNCHANGED <<logDir, gz, script, todo, pc, args, whole, torn>>
    BY <1>4 DEF StartSingBox, scriptVars, handlerVars, serverVars
  <2>2. CASE sbLog # Untracked
    <3>1. sbLog \in Born /\ sbLog \in Logs
      BY <1>L, <2>2 DEF TypeOK
    <3>2. /\ sb' = "gzip" /\ plain' = plain \cup {sbLog}
          /\ zip' = [zip EXCEPT ![sbLog] = "begin"] /\ UNCHANGED <<born, sbLog>>
      BY <1>4, <2>2 DEF StartSingBox
    <3>3. /\ zip' \in [Logs -> {"no", "begin", "write", "unlink"}]
          /\ \A l \in Logs : l > born => zip'[l] = "no"
      BY <3>1, <3>2 DEF TypeOK, Born
    <3>4. QED
      BY <2>1, <3>1, <3>2, <3>3 DEF TypeOK, Born, BornEntries
  <2>3. CASE sbLog = Untracked
    <3>1. /\ Begun /\ sbLog' = NewLog /\ sb' = "run" /\ UNCHANGED <<plain, zip>>
      BY <1>4, <2>3 DEF StartSingBox
    <3>2. QED
      BY <2>1, <3>1, BirthType
  <2>4. QED
    BY <2>2, <2>3
<1>5. CASE SingBoxZipped
  <2>1. /\ Begun /\ sbLog' = NewLog /\ sb' = "run"
        /\ UNCHANGED <<logDir, plain, gz, zip, script, todo, pc, args, whole,
                       torn>>
    BY <1>5 DEF SingBoxZipped, fileVars, scriptVars, handlerVars, serverVars
  <2>2. QED
    BY <2>1, BirthType
<1>6. CASE StopSingBox
  BY <1>6, <1>L DEF StopSingBox, TypeOK, Born, BornEntries, deviceVars,
                    scriptVars, handlerVars, serverVars
<1>7. ASSUME NEW l \in Logs, Zip(l) PROVE TypeOK'
  BY <1>7, <1>L DEF Zip, TypeOK, Born, BornEntries, deviceVars, sbVars,
                    scriptVars, handlerVars, serverVars
<1>8. CASE HandlerStep \/ HandlerDies
  BY <1>8 DEF HandlerStep, Prepare, Stat, ReadFile, HandlerDies, Return, Goto,
              TypeOK, Called, Born, BornEntries, deviceVars, sbVars, fileVars,
              scriptVars, serverVars
<1>9. CASE Posted
  <2>1. whole' \subseteq Born
    BY <1>9, StoresBorn DEF Posted, Called
  <2>2. /\ args' \in Seq(BornEntries) /\ pc' \in {"stat", "done"}
        /\ pc' = "stat" => args' # << >>
    BY <1>9, Shortened DEF Posted, Return, Goto, Called
  <2>3. QED
    BY <1>9, <2>1, <2>2 DEF Posted, TypeOK, Called, Born, BornEntries,
         deviceVars, sbVars, fileVars, scriptVars
<1>10. CASE PostFails
  <2>1. whole' \subseteq Born
    BY <1>10, StoresBorn DEF PostFails, Called, TypeOK, serverVars
  <2>2. QED
    BY <1>10, <2>1 DEF PostFails, Return, Goto, TypeOK, Called, Born,
         BornEntries, deviceVars, sbVars, fileVars, scriptVars
<1>11. ASSUME NEW e \in Entries, NEW f \in Entries, UserCalls(e, f)
       PROVE  TypeOK'
  <2>1. <<e, f>> \in Seq(BornEntries)
    BY <1>11, ExistsBorn DEF UserCalls
  <2>2. QED
    BY <1>11, <2>1 DEF UserCalls, Connect, Goto, TypeOK, Called, Born,
                       BornEntries, deviceVars, sbVars, fileVars, scriptVars
<1>12. CASE UserReturns
  BY <1>12 DEF UserReturns, Hangup, Goto, TypeOK, Called, Born, BornEntries, deviceVars,
               sbVars, fileVars, scriptVars
<1>13. CASE Glob
  BY <1>13 DEF Glob, TypeOK, Born, BornEntries, Entries, Exists, Kinds, Logs,
               deviceVars, sbVars, fileVars, handlerVars, serverVars
<1>14. CASE NextPath
  <2>1. Path \in BornEntries
    BY <1>14, PathFirst DEF NextPath, TypeOK
  <2>2. <<Path>> \in Seq(BornEntries)
    BY <2>1
  <2>3. CASE Connect(<<Path>>) /\ script' = "call" /\ UNCHANGED todo
    BY <1>14, <2>2, <2>3 DEF NextPath, Connect, Goto, TypeOK, Called, Born,
         BornEntries, deviceVars, sbVars, fileVars
  <2>4. CASE todo' = Rest /\ UNCHANGED <<script, handlerVars>>
    BY <1>14, <2>4 DEF NextPath, Rest, TypeOK, Born, BornEntries, deviceVars,
         sbVars, fileVars, handlerVars
  <2>5. QED
    BY <1>14, <2>3, <2>4 DEF NextPath
<1>15. CASE ScriptExits
  BY <1>15 DEF ScriptExits, TypeOK, Born, BornEntries, deviceVars,
               sbVars, fileVars, handlerVars, serverVars
<1>16. CASE CallReturns
  BY <1>16 DEF CallReturns, Hangup, Goto, Rest, TypeOK, Called, Born, BornEntries,
               deviceVars, sbVars, fileVars
<1>17. CASE Remove
  <2>1. Path \in BornEntries
    BY <1>17, PathFirst DEF Remove, TypeOK
  <2>2. Path[1] \in Born /\ Path[1] \in Logs
    BY <1>L, <2>1 DEF BornEntries
  <2>3. QED
    BY <1>17, <2>2 DEF Remove, Rest, TypeOK, Born, BornEntries, deviceVars,
                       sbVars, serverVars
<1>18. CASE Reboot
  BY <1>18 DEF Reboot, TypeOK, Called, Born, BornEntries, Untracked
<1>19. CASE UNCHANGED vars
  BY <1>19 DEF vars, TypeOK, Born, BornEntries
<1>20. QED
  BY <1>1, <1>2, <1>3, <1>4, <1>5, <1>6, <1>7, <1>8, <1>9, <1>10, <1>11,
     <1>12, <1>13, <1>14, <1>15, <1>16, <1>17, <1>18, <1>19 DEF Next, ScriptStep

-----------------------------------------------------------------------------
(* The socket.                                                             *)

LEMMA SocketNext == StaleOnlyByDeath /\ [Next]_vars => StaleOnlyByDeath'
<1> SUFFICES ASSUME StaleOnlyByDeath, [Next]_vars PROVE StaleOnlyByDeath'
  OBVIOUS
<1>1. CASE UNCHANGED <<daemon, sock, killed>>
  BY <1>1 DEF StaleOnlyByDeath
<1>2. CASE StartDaemon
  <2>1. CASE sock
    BY <1>2, <2>1 DEF StartDaemon, StaleOnlyByDeath
  <2>2. CASE ~sock
    BY <1>2, <2>2 DEF StartDaemon, StaleOnlyByDeath
  <2>3. QED
    BY <2>1, <2>2
<1>3. CASE Listen
  BY <1>3 DEF Listen, StaleOnlyByDeath
<1>4. CASE StartFails
  <2>1. ~sock'
    BY <1>4, Zenon DEF StartFails, SocketLeft
  <2>2. QED
    BY <2>1 DEF StaleOnlyByDeath
<1>5. CASE DaemonDies
  <2>1. killed'
    BY <1>5, Zenon DEF DaemonDies
  <2>2. QED
    BY <2>1 DEF StaleOnlyByDeath
<1>6. CASE Reboot
  <2>1. ~sock'
    BY <1>6, Zenon DEF Reboot
  <2>2. QED
    BY <2>1 DEF StaleOnlyByDeath
<1>7. QED
  BY <1>1, <1>2, <1>3, <1>4, <1>5, <1>6
  DEF Next, Rotate, StartSingBox, SingBoxZipped, StopSingBox, Zip, HandlerStep,
      Prepare, Stat, ReadFile, Posted, PostFails, HandlerDies, UserCalls,
      UserReturns, ScriptStep, Glob, NextPath, CallReturns, Remove, ScriptExits,
      vars, deviceVars

-----------------------------------------------------------------------------
(* What is stored under the request id.                                    *)

LEMMA StoredNext == TypeOK /\ StoredInv /\ [Next]_vars => StoredInv'
<1> SUFFICES ASSUME TypeOK, StoredInv, [Next]_vars PROVE StoredInv'
  OBVIOUS
<1>1. CASE UNCHANGED <<pc, args, asked, sent, ret>>
  BY <1>1 DEF StoredInv, ZeroMeansStored
<1>2. ASSUME pc \in Called, NEW label \in Called, Goto(label),
             UNCHANGED <<args, asked, sent, ret>>
      PROVE  StoredInv'
  BY <1>2 DEF Goto, StoredInv, ZeroMeansStored
<1>3. CASE pc' = "done" /\ ret' = "err"
  BY <1>3 DEF StoredInv, ZeroMeansStored, Called
<1>4. CASE HandlerStep \/ HandlerDies
  BY <1>2, <1>3, <1>4 DEF HandlerStep, Prepare, Stat, ReadFile, HandlerDies,
       Return, Goto, Failure, Called, serverVars
<1>5. CASE Posted
  <2> DEFINE rest == SubSeq(args, 1, Len(args) - 1)
  <2>1. /\ pc = "post" /\ args' = rest /\ sent' = sent \cup {File}
        /\ UNCHANGED asked
    BY <1>5 DEF Posted, Stores
  <2>2. /\ DOMAIN args = DOMAIN rest \cup {Len(args)}
        /\ \A i \in DOMAIN rest : rest[i] = args[i]
    BY <2>1, Shortened DEF Called
  <2>3. /\ ret = "none" /\ Len(args) \in Nat \ {0}
        /\ asked = sent \cup {args[i] : i \in DOMAIN args}
    BY <2>1, FileBorn DEF StoredInv, Called
  <2> HIDE DEF rest
  <2>4. asked' = sent' \cup {args'[i] : i \in DOMAIN args'}
    BY <2>1, <2>2, <2>3 DEF File
  <2>5. CASE Len(args) = 1
    <3>1. pc' = "done" /\ ret' = "0"
      BY <1>5, <2>5 DEF Posted, Return, Goto
    <3>2. args[1] = File /\ DOMAIN args = {1}
      BY <2>5 DEF File, TypeOK
    <3>3. sent' = asked'
      BY <2>1, <2>3, <3>2
    <3>4. QED
      BY <3>1, <3>3 DEF StoredInv, ZeroMeansStored, Called
  <2>6. CASE Len(args) # 1
    <3>1. pc' = "stat" /\ ret' = ret
      BY <1>5, <2>6 DEF Posted, Return, Goto
    <3>2. QED
      BY <2>3, <2>4, <3>1 DEF StoredInv, ZeroMeansStored, Called
  <2>7. QED
    BY <2>5, <2>6
<1>6. CASE PostFails
  BY <1>3, <1>6 DEF PostFails, Return, Goto, Failure
<1>7. ASSUME NEW files, Connect(files) PROVE StoredInv'
  BY <1>7 DEF Connect, Goto, StoredInv, ZeroMeansStored, Called
<1>8. CASE pc' = "idle" /\ ret' = "none"
  BY <1>8 DEF StoredInv, ZeroMeansStored, Called
<1>9. CASE NextPath
  BY <1>1, <1>7, <1>9 DEF NextPath, handlerVars
<1>10. ASSUME NEW e \in Entries, NEW f \in Entries, UserCalls(e, f)
       PROVE  StoredInv'
  BY <1>7, <1>10 DEF UserCalls
<1>11. CASE UserReturns \/ CallReturns \/ Reboot
  BY <1>8, <1>11 DEF UserReturns, CallReturns, Hangup, Reboot, Goto
<1>12. QED
  BY <1>1, <1>4, <1>5, <1>6, <1>9, <1>10, <1>11
  DEF Next, Rotate, StartDaemon, Listen, StartFails, DaemonDies, StartSingBox,
      SingBoxZipped, StopSingBox, Zip, ScriptStep, Glob, Remove, ScriptExits,
      vars, handlerVars, serverVars

-----------------------------------------------------------------------------
(* The script and its call.                                                *)

LEMMA CallNext == TypeOK /\ StoredInv /\ CallInv /\ [Next]_vars => CallInv'
<1> SUFFICES ASSUME TypeOK, StoredInv, CallInv, [Next]_vars PROVE CallInv'
  OBVIOUS
<1>1. CASE UNCHANGED <<pc, seen, args, script, todo, ret, whole>>
  BY <1>1 DEF CallInv, UploadedInv, File, Path
<1>2. ASSUME pc \in Called, pc' = "done", ret' = "err",
             UNCHANGED <<script, todo>>
      PROVE  CallInv'
  BY <1>2 DEF CallInv, Called
<1>3. CASE Prepare
  BY <1>2, <1>3 DEF Prepare, Return, Goto, Failure, Called, CallInv, UploadedInv,
       StoredInv, scriptVars, serverVars, Path
<1>4. CASE Stat
  <2>1. CASE Return(Failure)
    BY <1>2, <1>4, <2>1 DEF Stat, Return, Goto, Failure, Called, scriptVars
  <2>2. CASE Exists(File) /\ seen' = Content(File) /\ pc' = "read"
             /\ UNCHANGED ret
    <3>1. pc = "stat" /\ UNCHANGED <<args, script, todo, whole>>
      BY <1>4 DEF Stat, scriptVars, serverVars
    <3>2. seen' \in {"part", "full"} /\ (File[2] = "log" => seen' = "full")
      <4>1. File \in BornEntries /\ File[1] \in Logs
        BY <3>1, FileBorn, MaxLogsAssumption DEF Called, Born, Logs, TypeOK
      <4>2. QED
        BY <2>2, <4>1 DEF Exists, Content, TypeOK
    <3>3. ret = "none" /\ File' = File /\ Path' = Path
      BY <3>1 DEF StoredInv, Called, File, Path
    <3>4. QED
      BY <2>2, <3>1, <3>2, <3>3 DEF CallInv, Called
  <2>3. QED
    BY <1>4, <2>1, <2>2 DEF Stat, Goto
<1>5. CASE ReadFile
  BY <1>2, <1>5 DEF ReadFile, Return, Goto, Failure, Called, CallInv, UploadedInv,
       StoredInv, scriptVars, serverVars, Path, File
<1>6. CASE HandlerDies \/ PostFails
  BY <1>2, <1>6 DEF HandlerDies, PostFails, Return, Goto, Failure, Called,
       scriptVars
<1>7. CASE Posted
  <2>1. pc = "post" /\ pc' \in {"done", "stat"} /\ UNCHANGED <<script, todo, seen>>
    BY <1>7 DEF Posted, Return, Goto, scriptVars
  <2>2. CASE script # "call"
    BY <2>1, <2>2 DEF CallInv, TypeOK
  <2>3. CASE script = "call"
    <3>1. args = <<Path>> /\ File = Path
      <4>1. args = <<Path>>
        BY <2>1, <2>3 DEF CallInv, Called
      <4>2. Len(args) = 1 /\ args[1] = Path
        BY <4>1
      <4>3. QED
        BY <4>1, <4>2 DEF File
    <3>2. pc' = "done"
      BY <1>7, <3>1 DEF Posted, Return, Goto
    <3>3. whole' = IF seen = "full" THEN whole \cup {Path[1]} ELSE whole
      BY <1>7, <3>1 DEF Posted, Stores
    <3>4. seen \in {"part", "full"} /\ (Path[2] = "log" => seen = "full")
      BY <2>1, <3>1 DEF CallInv
    <3>5. Path' = Path
      BY <2>1 DEF Path
    <3>6. UploadedInv'
      BY <2>1, <3>3, <3>4, <3>5 DEF UploadedInv
    <3>7. QED
      BY <2>1, <2>3, <3>2, <3>6 DEF CallInv, Called
  <2>4. QED
    BY <2>2, <2>3
<1>8. ASSUME NEW e \in Entries, NEW f \in Entries, UserCalls(e, f)
      PROVE  CallInv'
  BY <1>8 DEF UserCalls, Connect, Goto, scriptVars, CallInv
<1>9. CASE UserReturns
  BY <1>9 DEF UserReturns, Hangup, Goto, scriptVars, CallInv
<1>10. CASE Glob
  BY <1>10 DEF Glob, CallInv, handlerVars
<1>11. CASE NextPath
  <2>1. CASE Connect(<<Path>>) /\ script' = "call" /\ UNCHANGED todo
    BY <2>1 DEF Connect, Goto, CallInv, Path
  <2>2. CASE UNCHANGED <<script, handlerVars>>
    BY <1>11, <2>2 DEF NextPath, CallInv, handlerVars
  <2>3. QED
    BY <1>11, <2>1, <2>2 DEF NextPath
<1>12. CASE ScriptExits
  BY <1>12 DEF ScriptExits, CallInv, handlerVars
<1>13. CASE CallReturns
  <2>1. pc' = "idle" /\ UNCHANGED <<seen, whole>> /\ script = "call"
    BY <1>13 DEF CallReturns, Hangup, Goto
  <2>2. CASE Uploaded /\ script' = "rm" /\ UNCHANGED todo
    <3>1. UploadedInv
      BY <2>1, <2>2 DEF CallInv, Uploaded
    <3>2. UploadedInv'
      BY <2>1, <2>2, <3>1 DEF UploadedInv, Path
    <3>3. QED
      BY <2>1, <2>2, <3>2 DEF CallInv
  <2>3. CASE script' = "loop"
    BY <2>1, <2>3 DEF CallInv
  <2>4. QED
    BY <1>13, <2>2, <2>3 DEF CallReturns
<1>14. CASE Remove
  BY <1>14 DEF Remove, CallInv
<1>15. CASE Reboot
  BY <1>15 DEF Reboot, CallInv
<1>16. QED
  BY <1>1, <1>3, <1>4, <1>5, <1>6, <1>7, <1>8, <1>9, <1>10, <1>11, <1>12,
     <1>13, <1>14, <1>15
  DEF Next, Rotate, StartDaemon, Listen, StartFails, DaemonDies, StartSingBox,
      SingBoxZipped, StopSingBox, Zip, ScriptStep, HandlerStep, vars,
      handlerVars, serverVars, scriptVars

-----------------------------------------------------------------------------
(* The files and their gzips.                                              *)

\* Steps that touch no log.
filesOfLogs == <<born, logDir, sb, sbLog, plain, gz, zip, whole, torn>>

LEMMA ZipNext ==
    TypeOK /\ CallInv /\ ZipInv /\ [Next]_vars => ZipInv'
<1> SUFFICES ASSUME TypeOK, CallInv, ZipInv, [Next]_vars PROVE ZipInv'
  OBVIOUS
<1>L. Born \subseteq Logs /\ Untracked \notin Logs
  BY MaxLogsAssumption DEF TypeOK, Born, Logs, Untracked
<1>1. CASE UNCHANGED filesOfLogs
  BY <1>1 DEF filesOfLogs, ZipInv, Safe
<1>2. CASE /\ UNCHANGED <<born, logDir, sb, sbLog, plain, gz, zip, torn>>
           /\ whole \subseteq whole'
  BY <1>2 DEF ZipInv, Safe
<1>3. ASSUME NEW l \in Logs, Rotate(l) PROVE ZipInv'
  <2>1. /\ l \in logDir /\ logDir' = logDir \ {l}
        /\ zip' = [zip EXCEPT ![l] = "begin"]
        /\ UNCHANGED <<sb, sbLog, gz, whole, torn>>
    BY <1>3 DEF Rotate, sbVars, serverVars
  <2>2. QED
    BY <2>1 DEF ZipInv, Safe, TypeOK
<1>4. CASE StartDaemon
  <2>1. /\ Begun /\ logDir' = {NewLog} \ {Untracked}
        /\ UNCHANGED <<sb, sbLog, gz, zip, whole, torn>>
    BY <1>4 DEF StartDaemon, sbVars, fileVars, serverVars
  <2>2. NewLog # Untracked => /\ gz[NewLog] = "none" /\ zip[NewLog] = "no"
                              /\ NewLog # sbLog
    BY <2>1, Birth DEF TypeOK, Born
  <2>3. QED
    BY <2>1, <2>2 DEF ZipInv, Safe
<1>5. CASE StartSingBox
  <2>1. UNCHANGED <<logDir, gz, whole, torn>> /\ sb = "off"
    BY <1>5 DEF StartSingBox, serverVars
  <2>2. CASE sbLog # Untracked
    <3>1. /\ sb' = "gzip" /\ zip' = [zip EXCEPT ![sbLog] = "begin"]
          /\ UNCHANGED sbLog /\ sbLog \in Logs
      BY <1>5, <1>L, <2>2 DEF StartSingBox, TypeOK
    <3>2. QED
      BY <2>1, <2>2, <3>1 DEF ZipInv, Safe, TypeOK
  <2>3. CASE sbLog = Untracked
    <3>1. Begun /\ sb' = "run" /\ sbLog' = NewLog /\ UNCHANGED zip
      BY <1>5, <2>3 DEF StartSingBox
    <3>2. NewLog # Untracked => /\ gz[NewLog] = "none" /\ zip[NewLog] = "no"
                                /\ NewLog \notin logDir
      BY <3>1, Birth DEF TypeOK, Born
    <3>3. Untracked \notin logDir
      BY <1>L DEF TypeOK
    <3>4. QED
      BY <1>L, <2>1, <3>1, <3>2, <3>3 DEF ZipInv, Safe
  <2>4. QED
    BY <2>2, <2>3
<1>6. CASE SingBoxZipped
  <2>1. /\ Begun /\ sb' = "run" /\ sbLog' = NewLog
        /\ UNCHANGED <<logDir, gz, zip, whole, torn>>
    BY <1>6 DEF SingBoxZipped, fileVars, serverVars
  <2>2. NewLog # Untracked => /\ gz[NewLog] = "none" /\ zip[NewLog] = "no"
                              /\ NewLog \notin logDir
    BY <2>1, Birth DEF TypeOK, Born
  <2>3. Untracked \notin logDir
    BY <1>L DEF TypeOK
  <2>4. QED
    BY <1>L, <2>1, <2>2, <2>3 DEF ZipInv, Safe
<1>7. CASE StopSingBox
  <2>1. Untracked \notin logDir
    BY <1>L DEF TypeOK
  <2>2. QED
    BY <1>7, <1>L, <2>1 DEF StopSingBox, ZipInv, Safe, TypeOK, deviceVars,
                            serverVars
<1>8. ASSUME NEW l \in Logs, Zip(l) PROVE ZipInv'
  <2>1. UNCHANGED <<logDir, sb, sbLog, whole, torn>>
    BY <1>8 DEF Zip, deviceVars, sbVars, serverVars
  <2>2. /\ zip[l] # "no"
        /\ gz' = [gz EXCEPT ![l] = gz'[l]] /\ zip' = [zip EXCEPT ![l] = zip'[l]]
        /\ \/ zip'[l] = "write" /\ gz'[l] = "part"
           \/ zip'[l] = "unlink" /\ (gz'[l] = "full" \/ l \in Safe)
           \/ zip'[l] = "no"
    BY <1>8 DEF Zip, ZipInv, TypeOK
  <2>3. QED
    BY <2>1, <2>2 DEF ZipInv, Safe, TypeOK
<1>9. CASE Remove
  <2>1. /\ UNCHANGED <<logDir, sb, sbLog, zip, whole>> /\ UploadedInv
        /\ torn' = IF Tears(Path) THEN torn \cup {Path[1]} ELSE torn
        /\ gz' = IF Path[2] = "gz" THEN [gz EXCEPT ![Path[1]] = "none"] ELSE gz
    BY <1>9 DEF Remove, deviceVars, sbVars, serverVars, CallInv
  <2>2. Path[2] = "gz" /\ zip[Path[1]] # "no" => Path[1] \in Safe'
    BY <2>1 DEF UploadedInv, Tears, Safe
  <2>3. Safe \subseteq Safe'
    BY <2>1 DEF Safe
  <2>4. QED
    BY <2>1, <2>2, <2>3 DEF ZipInv, TypeOK
<1>10. CASE Reboot
  BY <1>10, <1>L DEF Reboot, ZipInv, Safe, TypeOK
<1>11. CASE Posted \/ PostFails
  BY <1>2, <1>11 DEF Posted, PostFails, Stores, deviceVars, sbVars, fileVars,
                     serverVars
<1>12. QED
  BY <1>1, <1>3, <1>4, <1>5, <1>6, <1>7, <1>8, <1>9, <1>10, <1>11
  DEF Next, Listen, StartFails, DaemonDies, HandlerStep, Prepare, Stat, ReadFile,
      HandlerDies, UserCalls, UserReturns, ScriptStep, Glob, NextPath,
      CallReturns, ScriptExits, vars, deviceVars, sbVars, fileVars, serverVars,
      filesOfLogs

-----------------------------------------------------------------------------
(* Refinement of LogArchive.                                               *)

places == [l \in Logs |-> PlaceOf(l)]

\* The step leaves l where it is.
Stays(l) ==
    /\ l > born' <=> l > born
    /\ l \in whole' <=> l \in whole
    /\ l \in torn' <=> l \in torn
    /\ OnDevice(l)' <=> OnDevice(l)

\* The ways in which a step may move l.
Changes(l) ==
    \/ /\ l = born + 1 /\ l <= born' /\ OnDevice(l)' /\ l \notin Safe'
    \/ /\ l \in Born /\ born' = born /\ l \in whole' \ whole
       /\ OnDevice(l)' <=> OnDevice(l)
    \/ /\ l \in Born /\ born' = born /\ l \in whole /\ l \in whole'
    \/ /\ l \in Born /\ born' = born /\ l \notin whole /\ l \notin whole'
       /\ l \in torn'

LEMMA PlaceStays ==
    ASSUME TypeOK, TypeOK', NEW l \in Logs, Stays(l)
    PROVE  PlaceOf(l)' = PlaceOf(l)
<1>1. l \in Int /\ born \in Int /\ born' \in Int
  BY DEF TypeOK, Logs
<1>2. QED
  BY <1>1 DEF PlaceOf, Stays

\* Each of these ways is one of LogArchive's.
LEMMA PlaceChanges ==
    ASSUME TypeOK, TypeOK', NoneLost, NEW l \in Logs, Changes(l)
    PROVE  \/ PlaceOf(l)' = PlaceOf(l)
           \/ PlaceOf(l) = "unborn" /\ PlaceOf(l)' = "device"
           \/ PlaceOf(l) \in {"device", "torn"} /\ PlaceOf(l)' = "both"
           \/ PlaceOf(l) = "torn" /\ PlaceOf(l)' = "server"
           \/ PlaceOf(l) = "both" /\ PlaceOf(l)' = "server"
           \/ PlaceOf(l) = "server" /\ PlaceOf(l)' = "both"
           \/ PlaceOf(l) = "device" /\ PlaceOf(l)' = "torn"
<1>1. l \in Int /\ born \in Int /\ born' \in Int
  BY DEF TypeOK, Logs
<1>2. CASE l = born + 1 /\ l <= born' /\ OnDevice(l)' /\ l \notin Safe'
  <2>1. PlaceOf(l) = "unborn"
    BY <1>1, <1>2 DEF PlaceOf
  <2>2. PlaceOf(l)' = "device"
    BY <1>1, <1>2 DEF PlaceOf, Safe
  <2>3. QED
    BY <2>1, <2>2
<1>3. CASE l \in Born /\ born' = born
  <2>1. l <= born /\ ~(l > born) /\ l <= born' /\ ~(l > born')
    BY <1>1, <1>3 DEF Born
  <2>2. l \in Safe \/ OnDevice(l)
    BY <1>3 DEF NoneLost
  <2>3. PlaceOf(l) = IF l \in whole
                     THEN IF OnDevice(l) THEN "both" ELSE "server"
                     ELSE IF l \in torn THEN "torn" ELSE "device"
    BY <2>1, <2>2 DEF PlaceOf, Safe
  <2>4. l \in Safe' =>
        PlaceOf(l)' = IF l \in whole'
                      THEN IF OnDevice(l)' THEN "both" ELSE "server"
                      ELSE "torn"
    BY <2>1 DEF PlaceOf, Safe
  <2>5. l \in Safe'
    BY <1>1, <1>3, <2>1 DEF Changes, Safe
  <2> HIDE DEF Safe
  <2>6. QED
    BY <1>1, <1>3, <2>1, <2>2, <2>3, <2>4, <2>5 DEF Changes, Safe
<1>4. QED
  BY <1>2, <1>3 DEF Changes

LEMMA AllStay ==
    ASSUME TypeOK, TypeOK', NoneLost, \A l \in Logs : Stays(l)
    PROVE  NoneLost' /\ UNCHANGED places
<1>1. places' = places
  BY PlaceStays DEF places
<1>2. ASSUME NEW l \in Born' PROVE l \in Safe' \/ OnDevice(l)'
  <2>1. l \in Logs /\ l \in Born
    BY MaxLogsAssumption DEF TypeOK, Born, Logs, Stays
  <2>2. QED
    BY <2>1 DEF NoneLost, Stays, Safe
<1>3. QED
  BY <1>1, <1>2 DEF NoneLost

LEMMA OneChanges ==
    ASSUME TypeOK, TypeOK', NoneLost, NEW l \in Logs, Changes(l),
           \A m \in Logs \ {l} : Stays(m)
    PROVE  NoneLost' /\ [Archive!Next]_places
<1>1. ASSUME NEW m \in Born' PROVE m \in Safe' \/ OnDevice(m)'
  <2>1. m \in Logs
    BY MaxLogsAssumption DEF TypeOK, Born, Logs
  <2>2. CASE m = l
    BY <2>2 DEF Changes, Safe
  <2>3. CASE m # l
    <3>1. m \in Born
      BY <2>1, <2>3 DEF TypeOK, Born, Logs, Stays
    <3>2. QED
      BY <2>1, <2>3, <3>1 DEF NoneLost, Stays, Safe
  <2>4. QED
    BY <2>2, <2>3
<1>2. \A m \in Logs \ {l} : PlaceOf(m)' = PlaceOf(m)
  BY PlaceStays
<1>3. places[l] = PlaceOf(l) /\ places' = [places EXCEPT ![l] = PlaceOf(l)']
  BY <1>2 DEF places
<1>4. CASE PlaceOf(l)' = PlaceOf(l)
  <2>1. UNCHANGED places
    BY <1>2, <1>4 DEF places
  <2>2. QED
    BY <1>1, <2>1 DEF NoneLost
<1>5. CASE PlaceOf(l)' # PlaceOf(l)
  <2>1. \/ Archive!Begin(l) \/ Archive!Store(l) \/ Archive!Remove(l)
        \/ Archive!Reappear(l) \/ Archive!Tear(l)
    BY <1>3, <1>5, PlaceChanges
    DEF places, Archive!Begin, Archive!Store, Archive!Remove, Archive!Reappear,
        Archive!Tear, Archive!Moves
  <2>2. Archive!Next
    BY <2>1 DEF Archive!Next
  <2>3. QED
    BY <1>1, <2>2 DEF NoneLost
<1>6. QED
  BY <1>4, <1>5

LEMMA ArchiveNext ==
    ASSUME TypeOK, StoredInv, CallInv, ZipInv, NoneLost, [Next]_vars
    PROVE  NoneLost' /\ [Archive!Next]_places
<1> DEFINE Good == NoneLost' /\ [Archive!Next]_places
<1> SUFFICES Good
  OBVIOUS
<1>T. TypeOK'
  BY TypeNext
<1>L. Born \subseteq Logs /\ Untracked \notin Logs
  BY MaxLogsAssumption DEF TypeOK, Born, Logs, Untracked
<1>S. ASSUME \A l \in Logs : Stays(l) PROVE Good
  BY <1>S, <1>T, AllStay
<1>C. ASSUME NEW l \in Logs, Changes(l), \A m \in Logs \ {l} : Stays(m)
      PROVE  Good
  BY <1>C, <1>T, OneChanges
<1> HIDE DEF Good
<1>1. CASE UNCHANGED filesOfLogs
  BY <1>1, <1>S DEF filesOfLogs, Stays, OnDevice
<1>2. ASSUME NEW l \in Logs, Rotate(l) PROVE Good
  BY <1>2, <1>S DEF Rotate, Stays, OnDevice, sbVars, serverVars
<1>3. ASSUME Begun, UNCHANGED <<plain, gz, whole, torn>>,
             \/ logDir = {} /\ logDir' = {NewLog} \ {Untracked}
                /\ UNCHANGED <<sb, sbLog>>
             \/ sbLog' = NewLog /\ sb' = "run" /\ UNCHANGED logDir
                /\ (sbLog = Untracked \/ sb = "gzip")
      PROVE  Good
  <2>1. \A m \in Logs : m # NewLog => Stays(m)
    <3>1. \A m \in Logs : m # NewLog => (m > born' <=> m > born)
      BY <1>3, Birth DEF TypeOK, Logs
    <3>2. \A m \in Logs : m # NewLog => (OnDevice(m)' <=> OnDevice(m))
      BY <1>3, <1>L DEF OnDevice
    <3>3. QED
      BY <1>3, <3>1, <3>2 DEF Stays
  <2>2. CASE NewLog = Untracked
    BY <1>L, <1>S, <2>1, <2>2
  <2>3. CASE NewLog # Untracked
    <3>1. PICK l \in Logs : l = NewLog /\ l = born + 1 /\ born' = born + 1
      BY <1>3, <2>3, Birth
    <3>2. OnDevice(l)'
      BY <1>3, <2>3, <3>1 DEF OnDevice
    <3>3. l \notin Safe'
      BY <1>3, <3>1 DEF Safe, TypeOK, Born
    <3>4. Changes(l)
      BY <3>1, <3>2, <3>3 DEF Changes, TypeOK
    <3>5. QED
      BY <1>C, <2>1, <3>1, <3>4
  <2>4. QED
    BY <2>2, <2>3
<1>4. CASE StartDaemon
  BY <1>3, <1>4 DEF StartDaemon, sbVars, fileVars, serverVars
<1>5. CASE StartSingBox
  <2>1. CASE sbLog # Untracked
    BY <1>5, <1>S, <2>1 DEF StartSingBox, Stays, OnDevice, serverVars
  <2>2. CASE sbLog = Untracked
    BY <1>3, <1>5, <2>2 DEF StartSingBox, serverVars
  <2>3. QED
    BY <2>1, <2>2
<1>6. CASE SingBoxZipped
  BY <1>3, <1>6 DEF SingBoxZipped, fileVars, serverVars
<1>7. CASE StopSingBox
  BY <1>7, <1>L, <1>S DEF StopSingBox, Stays, OnDevice, deviceVars, serverVars
<1>8. ASSUME NEW l \in Logs, Zip(l) PROVE Good
  <2>1. UNCHANGED <<born, logDir, sb, sbLog, whole, torn>>
    BY <1>8 DEF Zip, deviceVars, sbVars, serverVars
  <2>2. \A m \in Logs \ {l} : Stays(m)
    BY <1>8, <2>1 DEF Zip, Stays, OnDevice, TypeOK
  <2>3. l \in Born
    BY <1>8 DEF Zip, TypeOK, Born, Logs
  <2>4. CASE l \in Safe
    BY <1>C, <2>1, <2>2, <2>3, <2>4 DEF Changes, Safe
  <2>5. CASE l \notin Safe
    <3>1. OnDevice(l)
      BY <2>3, <2>5 DEF NoneLost
    <3>2. OnDevice(l)'
      BY <1>8, <2>1, <2>5, <3>1 DEF Zip, OnDevice, ZipInv, TypeOK
    <3>3. QED
      BY <1>S, <2>1, <2>2, <3>1, <3>2 DEF Stays
  <2>6. QED
    BY <2>4, <2>5
<1>9. ASSUME pc \in Called, Stores,
             UNCHANGED <<born, logDir, sb, sbLog, plain, gz, torn>>
      PROVE  Good
  <2>1. PICK l \in Logs : l = File[1] /\ l \in Born
    BY <1>9, <1>L, FileBorn
  <2>2. \A m \in Logs : OnDevice(m)' <=> OnDevice(m)
    BY <1>9 DEF OnDevice
  <2>3. CASE whole' = whole
    BY <1>9, <1>S, <2>2, <2>3 DEF Stays
  <2>4. CASE whole' # whole
    <3>1. whole' = whole \cup {l}
      BY <1>9, <2>1, <2>4 DEF Stores
    <3>2. \A m \in Logs \ {l} : Stays(m)
      BY <1>9, <2>2, <3>1 DEF Stays
    <3>3. Changes(l)
      BY <1>9, <2>1, <2>2, <3>1 DEF Changes
    <3>4. QED
      BY <1>C, <2>1, <3>2, <3>3
  <2>5. QED
    BY <2>3, <2>4
<1>10. CASE Posted
  BY <1>9, <1>10 DEF Posted, Called, deviceVars, sbVars, fileVars
<1>11. CASE PostFails
  <2>1. CASE Stores
    BY <1>9, <1>11, <2>1 DEF PostFails, Called, deviceVars, sbVars, fileVars
  <2>2. CASE UNCHANGED whole
    BY <1>1, <1>11, <2>2 DEF PostFails, filesOfLogs, deviceVars, sbVars, fileVars
  <2>3. QED
    BY <1>11, <2>1, <2>2 DEF PostFails, serverVars
<1>12. CASE Remove
  <2>1. Path \in BornEntries /\ script = "rm"
    BY <1>12, PathFirst DEF Remove, TypeOK
  <2>2. PICK l \in Logs : l = Path[1] /\ l \in Born /\ Path[2] \in {"log", "gz"}
    BY <1>L, <2>1 DEF BornEntries, Kinds
  <2>3. /\ UNCHANGED <<born, logDir, sb, sbLog, whole>>
        /\ plain' = IF Path[2] = "log" THEN plain \ {l} ELSE plain
        /\ gz' = IF Path[2] = "gz" THEN [gz EXCEPT ![l] = "none"] ELSE gz
        /\ torn' = IF Tears(Path) THEN torn \cup {l} ELSE torn
    BY <1>12, <2>2 DEF Remove, deviceVars, sbVars, serverVars
  <2>4. UploadedInv
    BY <2>1 DEF CallInv
  <2>5. \A m \in Logs \ {l} : Stays(m)
    BY <2>2, <2>3 DEF Stays, OnDevice, TypeOK
  <2>6. CASE l \in whole \/ l \in torn'
    BY <1>C, <2>2, <2>3, <2>5, <2>6 DEF Changes
  <2>7. CASE l \notin whole /\ l \notin torn'
    <3>1. Path[2] = "gz" /\ gz[l] # "full"
      BY <2>2, <2>3, <2>4, <2>7 DEF UploadedInv, Tears
    <3>2. Stays(l)
      BY <2>2, <2>3, <2>7, <3>1 DEF Stays, OnDevice, TypeOK
    <3>3. QED
      BY <1>S, <2>5, <3>2
  <2>8. QED
    BY <2>6, <2>7
<1>13. CASE Reboot
  BY <1>13, <1>L, <1>S DEF Reboot, Stays, OnDevice
<1>14. QED
  BY <1>1, <1>2, <1>4, <1>5, <1>6, <1>7, <1>8, <1>10, <1>11, <1>12, <1>13
  DEF Next, Listen, StartFails, DaemonDies, HandlerStep, Prepare, Stat, ReadFile,
      HandlerDies, UserCalls, UserReturns, ScriptStep, Glob, NextPath,
      CallReturns, ScriptExits, vars, deviceVars, sbVars, fileVars, serverVars,
      filesOfLogs

-----------------------------------------------------------------------------
(* The theorems.                                                           *)

\* dumbosd-wrapper.sh, dumbos-log-upload.sh, command.c: the logs, their gzips, the
\* script and its handler agree after every step of any of them.
THEOREM Inductive == Spec => []IInv
<1>1. IInv /\ [Next]_vars => IInv'
  BY TypeNext, SocketNext, StoredNext, CallNext, ZipNext, ArchiveNext DEF IInv
<1>2. QED
  BY InvInit, <1>1, PTL DEF Spec

\* command.c, cmd_upload_data: it returns 0 only for files that are all stored.
THEOREM ZeroStored == Spec => []ZeroMeansStored
<1>1. IInv => ZeroMeansStored
  BY DEF IInv, StoredInv
<1>2. QED
  BY <1>1, Inductive, PTL

\* daemon.c, start_daemon: only the death of a daemon leaves a socket that blocks
\* the next one.
THEOREM SocketByDeath == Spec => []StaleOnlyByDeath
<1>1. IInv => StaleOnlyByDeath
  BY DEF IInv
<1>2. QED
  BY <1>1, Inductive, PTL

\* The device, its scripts and the server implement LogArchive: no log leaves
\* the device that the server has not got, unless it was torn.
THEOREM ImplementsArchive == Spec => ArchiveSpec
<1>1. Init => Archive!Init
  <2> SUFFICES ASSUME Init PROVE Archive!Init
    OBVIOUS
  <2>1. \A l \in Logs : PlaceOf(l) = "unborn"
    BY DEF Init, Logs, PlaceOf
  <2>2. QED
    BY <2>1 DEF Archive!Init
<1>2. IInv /\ [Next]_vars => [Archive!Next]_places
  BY ArchiveNext DEF IInv
<1>3. QED
  BY <1>1, <1>2, Inductive, PTL DEF Spec, ArchiveSpec, Archive!Spec, places

=============================================================================
