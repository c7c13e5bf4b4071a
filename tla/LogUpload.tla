----------------------------- MODULE LogUpload ------------------------------
(***************************************************************************)
(* The way of a log from the device to the server.  dumbosd-wrapper.sh and *)
(* sing-box-wrapper.sh move logs of earlier starts to one directory and    *)
(* gzip them there; dumbos-log-upload.sh, which init runs every hour,      *)
(* uploads each file of that directory with `dumbos upload_data` and       *)
(* removes it if that returned 0; cmd_upload_data (daemon/command.c) signs *)
(* one request id and posts its files one by one; the server stores a      *)
(* body if the id is new.  The daemon may die and be started again, the    *)
(* device may reboot, answers may get lost.                                *)
(***************************************************************************)
EXTENDS Integers, Sequences, FiniteSets

CONSTANT
    MaxLogs         \* bound: logs that are followed; later ones are left out

ASSUME MaxLogsAssumption == MaxLogs \in Nat

Logs == 1..MaxLogs

Untracked == 0      \* a log after the last one that is followed

Kinds == {"log", "gz"}

\* A file of the directory: a log, or the output of its gzip.
Entries == Logs \X Kinds

VARIABLES
    born,           \* logs begun so far
    daemon,         \* dumbosd: "down", "bound" or "up"
    sock,           \* the path of the socket exists
    killed,         \* history: a daemon died with its socket since the boot
    logDir,         \* logs of dumbosd that are not rotated yet
    sb, sbLog,      \* the sing-box service, and its log
    plain,          \* logs in the directory of old logs ...
    gz,             \* ... and the state of their .gz: "none", "part", "full"
    zip,            \* gzip of each log: "no", "begin", "write", "unlink"
    script, todo,   \* dumbos-log-upload.sh, and the rest of its glob
    pc, args, seen, \* upload_data: where it stands, files left, content
    ret,            \*   what it returned: "none", "0" or "err"
    spent,          \*   its request id is in the server's table
    asked, sent,    \*   history: its files; the files stored under that id
    whole,          \* history: logs the server has complete
    torn            \* history: see LogArchive

deviceVars == <<born, daemon, sock, killed, logDir>>
sbVars == <<sb, sbLog>>
fileVars == <<plain, gz, zip>>
scriptVars == <<script, todo>>
handlerVars == <<pc, args, seen, ret, asked>>
serverVars == <<spent, sent, whole>>
vars == <<born, daemon, sock, killed, logDir, sb, sbLog, plain, gz, zip,
          script, todo, pc, args, seen, ret, asked, spent, sent, whole, torn>>

Init ==
    /\ born = 0
    /\ daemon = "down" /\ sock = FALSE /\ killed = FALSE
    /\ logDir = {} /\ sb = "off" /\ sbLog = Untracked
    /\ plain = {}
    /\ gz = [l \in Logs |-> "none"] /\ zip = [l \in Logs |-> "no"]
    /\ script = "wait" /\ todo = {}
    /\ pc = "idle"
    /\ args = << >>
    /\ seen = "none"
    /\ ret = "none"
    /\ asked = {}
    /\ spent = FALSE
    /\ sent = {}
    /\ whole = {} /\ torn = {}

-----------------------------------------------------------------------------
(* Rotation                                                                *)

NewLog == IF born < MaxLogs THEN born + 1 ELSE Untracked

Begun == born' = IF born < MaxLogs THEN born + 1 ELSE born

\* dumbosd-wrapper.sh: move a log of an earlier start, gzip it in the
\* background.
Rotate(l) ==
    /\ daemon = "down" /\ l \in logDir
    /\ logDir' = logDir \ {l}
    /\ plain' = plain \cup {l}
    /\ zip' = [zip EXCEPT ![l] = "begin"]
    /\ UNCHANGED <<born, daemon, sock, killed, sbVars, gz, scriptVars,
                   handlerVars, serverVars, torn>>

\* ... then open a log of its own and become dumbosd.  bind fails if the path
\* of the socket exists; init then starts the wrapper again.
StartDaemon ==
    /\ daemon = "down" /\ logDir = {}
    /\ daemon' = IF sock THEN "down" ELSE "bound"
    /\ sock' = TRUE
    /\ Begun
    /\ logDir' = {NewLog} \ {Untracked}
    /\ UNCHANGED <<killed, sbVars, fileVars, scriptVars, handlerVars,
                   serverVars, torn>>

\* sing-box-wrapper.sh without arguments: move the log of the last start and
\* wait for its gzip, then begin a log and become sing-box.
StartSingBox ==
    /\ sb = "off"
    /\ \/ /\ sbLog # Untracked
          /\ sb' = "gzip"
          /\ plain' = plain \cup {sbLog}
          /\ zip' = [zip EXCEPT ![sbLog] = "begin"]
          /\ UNCHANGED <<born, sbLog>>
       \/ /\ sbLog = Untracked
          /\ sb' = "run"
          /\ Begun
          /\ sbLog' = NewLog
          /\ UNCHANGED <<plain, zip>>
    /\ UNCHANGED <<daemon, sock, killed, logDir, gz, scriptVars, handlerVars,
                   serverVars, torn>>

SingBoxZipped ==
    /\ sb = "gzip" /\ zip[sbLog] = "no"
    /\ sb' = "run"
    /\ Begun
    /\ sbLog' = NewLog
    /\ UNCHANGED <<daemon, sock, killed, logDir, fileVars, scriptVars,
                   handlerVars, serverVars, torn>>

\* init kills the process group of the service, a gzip in the foreground
\* included; the log that was being zipped is no longer in its place.
StopSingBox ==
    /\ sb # "off"
    /\ sb' = "off"
    /\ \/ sb = "gzip" /\ zip' = [zip EXCEPT ![sbLog] = "no"]
                      /\ sbLog' = Untracked
       \/ sb = "run" /\ UNCHANGED <<zip, sbLog>>
    /\ UNCHANGED <<deviceVars, plain, gz, scriptVars, handlerVars, serverVars,
                   torn>>

\* gzip: create the output, write it, unlink the input.  What is written to an
\* output that was unlinked meanwhile is gone.
Zip(l) ==
    /\ \/ /\ zip[l] = "begin"
          /\ gz' = [gz EXCEPT ![l] = "part"]
          /\ zip' = [zip EXCEPT ![l] = "write"]
          /\ UNCHANGED plain
       \/ /\ zip[l] = "write"
          /\ gz' = [gz EXCEPT ![l] = IF @ = "part" THEN "full" ELSE @]
          /\ zip' = [zip EXCEPT ![l] = "unlink"]
          /\ UNCHANGED plain
       \/ /\ zip[l] = "unlink"
          /\ plain' = plain \ {l}
          /\ zip' = [zip EXCEPT ![l] = "no"]
          /\ UNCHANGED gz
    /\ UNCHANGED <<deviceVars, sbVars, scriptVars, handlerVars, serverVars,
                   torn>>

-----------------------------------------------------------------------------
(* The daemon                                                              *)

Listen ==
    /\ daemon = "bound"
    /\ daemon' = "up"
    /\ UNCHANGED <<born, sock, killed, logDir, sbVars, fileVars, scriptVars,
                   handlerVars, serverVars, torn>>

\* Mutant of SocketLeft: the error paths forget the socket.
SocketLeftAlways == TRUE

\* After a failed chown, chmod or listen the path is unlinked.
SocketLeft == FALSE

StartFails ==
    /\ daemon = "bound"
    /\ daemon' = "down"
    /\ sock' = SocketLeft
    /\ UNCHANGED <<born, killed, logDir, sbVars, fileVars, scriptVars,
                   handlerVars, serverVars, torn>>

\* The daemon dies; its handlers live on.
DaemonDies ==
    /\ daemon \in {"bound", "up"}
    /\ daemon' = "down"
    /\ killed' = TRUE
    /\ UNCHANGED <<born, sock, logDir, sbVars, fileVars, scriptVars,
                   handlerVars, serverVars, torn>>

\* /dev and all processes are gone, the files stay.
Reboot ==
    /\ daemon' = "down" /\ sock' = FALSE /\ killed' = FALSE
    /\ sb' = "off"
    /\ sbLog' = IF sb = "gzip" THEN Untracked ELSE sbLog
    /\ zip' = [l \in Logs |-> "no"]
    /\ script' = "wait" /\ todo' = {}
    /\ pc' = "idle"
    /\ args' = << >>
    /\ seen' = "none"
    /\ ret' = "none"
    /\ asked' = {}
    /\ spent' = FALSE
    /\ sent' = {}
    /\ UNCHANGED <<born, logDir, plain, gz, whole, torn>>

-----------------------------------------------------------------------------
(* cmd_upload_data                                                         *)

Exists(e) == IF e[2] = "log" THEN e[1] \in plain ELSE gz[e[1]] # "none"

Content(e) == IF e[2] = "log" THEN "full" ELSE gz[e[1]]

Goto(label) == pc' = label

Return(r) == Goto("done") /\ ret' = r

\* Mutant of Failure: the label fail returns err, which is 0.
Failure0 == "0"

\* The label fail returns errno, which whatever failed has set.
Failure == "err"

\* A client connects; the daemon forks a handler for it.
Connect(files) ==
    /\ daemon = "up"
    /\ Goto("prepare")
    /\ args' = files
    /\ asked' = {files[i] : i \in DOMAIN files}
    /\ seen' = "none"
    /\ ret' = "none"
    /\ spent' = FALSE
    /\ sent' = {}

\* Network time, user, request id, signature and URL, once for all files.
Prepare ==
    /\ pc = "prepare"
    /\ \/ Goto("stat") /\ UNCHANGED ret
       \/ Return(Failure)
    /\ UNCHANGED <<deviceVars, sbVars, fileVars, scriptVars, args, seen,
                   asked, serverVars, torn>>

File == args[Len(args)]

Stat ==
    /\ pc = "stat"
    /\ \/ /\ Exists(File)
          /\ seen' = Content(File)
          /\ Goto("read") /\ UNCHANGED ret
       \/ ~Exists(File) /\ Return(Failure) /\ UNCHANGED seen
    /\ UNCHANGED <<deviceVars, sbVars, fileVars, scriptVars, args, asked,
                   serverVars, torn>>

\* As many bytes as stat has said.  A failed open is noticed by read, unless
\* the file was empty.
ReadFile ==
    /\ pc = "read"
    /\ \/ /\ Exists(File) \/ seen = "part"
          /\ Goto("post")
          /\ UNCHANGED ret
       \/ Return(Failure)
    /\ UNCHANGED <<deviceVars, sbVars, fileVars, scriptVars, args, seen,
                   asked, serverVars, torn>>

\* The server stores the body under an id it has not seen.
Stores ==
    /\ ~spent
    /\ spent' = TRUE
    /\ sent' = sent \cup {File}
    /\ whole' = IF seen = "full" THEN whole \cup {File[1]} ELSE whole

\* post_buffer returned 0: on to the file before this one, if there is one.
Posted ==
    /\ pc = "post"
    /\ Stores
    /\ args' = SubSeq(args, 1, Len(args) - 1)
    /\ IF Len(args) = 1 THEN Return("0")
                        ELSE Goto("stat") /\ UNCHANGED ret
    /\ UNCHANGED <<deviceVars, sbVars, fileVars, scriptVars, seen, asked,
                   torn>>

\* It failed: no connection, a refusal (the id is spent or too old, the server
\* has no such route), an error after the id was spent or even after the body
\* was stored, or an answer that was lost.  post_buffer sets no timeout: this
\* may take for ever.
PostFails ==
    /\ pc = "post"
    /\ \/ UNCHANGED serverVars
       \/ spent' = TRUE /\ UNCHANGED <<sent, whole>>
       \/ Stores
    /\ Return(Failure)
    /\ UNCHANGED <<deviceVars, sbVars, fileVars, scriptVars, args, seen,
                   asked, torn>>

\* The handler is killed and the client reads the end of the stream.
HandlerDies ==
    /\ pc \in {"prepare", "stat", "read", "post"}
    /\ Return("err")
    /\ UNCHANGED <<deviceVars, sbVars, fileVars, scriptVars, args, seen,
                   asked, serverVars, torn>>

\* The client has read the return code.
Hangup ==
    /\ pc = "done"
    /\ Goto("idle")
    /\ args' = << >>
    /\ ret' = "none"
    /\ asked' = {}
    /\ spent' = FALSE
    /\ sent' = {}

\* Someone uploads two files with one command.  Bound: not while the script
\* runs; commands share nothing but the files, which this one leaves alone.
UserCalls(e, f) ==
    /\ script = "wait" /\ pc = "idle"
    /\ e # f /\ Exists(e) /\ Exists(f)
    /\ Connect(<<e, f>>)
    /\ UNCHANGED <<deviceVars, sbVars, fileVars, scriptVars, whole, torn>>

UserReturns ==
    /\ script = "wait" /\ Hangup
    /\ seen' = "none"
    /\ UNCHANGED <<deviceVars, sbVars, fileVars, scriptVars, whole, torn>>

-----------------------------------------------------------------------------
(* dumbos-log-upload.sh                                                    *)

\* The glob is expanded once, when the loop begins.
Glob ==
    /\ script = "wait" /\ pc = "idle"
    /\ script' = "loop"
    /\ todo' = {e \in Entries : Exists(e)}
    /\ UNCHANGED <<deviceVars, sbVars, fileVars, handlerVars, serverVars, torn>>

\* In the order of the names: x.log comes before x.log.gz.
Path == CHOOSE e \in todo : \A f \in todo :
            \/ e[1] < f[1]
            \/ e[1] = f[1] /\ (e[2] = "log" \/ f[2] = "gz")

\* Mutant of Rest: the loop does not advance after a failure.
RestSame == todo

\* The paths after this one.
Rest == todo \ {Path}

\* Pass over a path that is gone, or that cannot be uploaded as no daemon
\* accepts the connection; upload the others.
NextPath ==
    /\ script = "loop" /\ todo # {}
    /\ \/ /\ Exists(Path)
          /\ Connect(<<Path>>)
          /\ script' = "call"
          /\ UNCHANGED todo
       \/ /\ ~Exists(Path) \/ daemon # "up"
          /\ todo' = Rest
          /\ UNCHANGED <<script, handlerVars, spent, sent>>
    /\ UNCHANGED <<deviceVars, sbVars, fileVars, whole, torn>>

ScriptExits ==
    /\ script = "loop" /\ todo = {}
    /\ script' = "wait"
    /\ UNCHANGED <<deviceVars, sbVars, fileVars, todo, handlerVars, serverVars,
                   torn>>

\* Mutant of Uploaded: the status of upload_data is ignored.
UploadedAnyway == TRUE

\* dumbos exits with what the handler returned.
Uploaded == ret = "0"

CallReturns ==
    /\ script = "call" /\ Hangup
    /\ \/ Uploaded /\ script' = "rm" /\ UNCHANGED todo
       \/ ~Uploaded /\ script' = "loop" /\ todo' = Rest
    /\ UNCHANGED <<deviceVars, sbVars, fileVars, seen, whole, torn>>

\* What was uploaded of the .gz was unfinished and its gzip was at work.
Tears(e) ==
    e[2] = "gz" /\ seen = "part"
       /\ (zip[e[1]] # "no" \/ gz[e[1]] = "full")

Remove ==
    /\ script = "rm"
    /\ plain' = IF Path[2] = "log" THEN plain \ {Path[1]} ELSE plain
    /\ gz' = IF Path[2] = "gz" THEN [gz EXCEPT ![Path[1]] = "none"] ELSE gz
    /\ torn' = IF Tears(Path) THEN torn \cup {Path[1]} ELSE torn
    /\ script' = "loop" /\ todo' = Rest
    /\ seen' = "none"
    /\ UNCHANGED <<deviceVars, sbVars, zip, pc, args, ret, asked, serverVars>>

-----------------------------------------------------------------------------

ScriptStep == Glob \/ NextPath \/ CallReturns \/ Remove \/ ScriptExits

\* Everything of a handler but the answer to a POST.
HandlerStep == Prepare \/ Stat \/ ReadFile

Next ==
    \/ \E l \in Logs : Rotate(l)
    \/ StartDaemon \/ Listen \/ StartFails \/ DaemonDies
    \/ StartSingBox \/ SingBoxZipped \/ StopSingBox
    \/ \E l \in Logs : Zip(l)
    \/ HandlerStep
    \/ Posted
    \/ PostFails
    \/ HandlerDies
    \/ \E e, f \in Entries : UserCalls(e, f)
    \/ UserReturns
    \/ ScriptStep
    \/ Reboot

Fairness == WF_vars(ScriptStep) /\ WF_vars(HandlerStep)

Spec == Init /\ [][Next]_vars /\ Fairness

-----------------------------------------------------------------------------
(* Properties.                                                             *)

OnDevice(l) == \/ l \in logDir \cup plain
               \/ sbLog = l /\ sb # "gzip"
               \/ gz[l] = "full"

PlaceOf(l) ==
    CASE l > born -> "unborn"
      [] l <= born /\ l \in whole /\ OnDevice(l) -> "both"
      [] l <= born /\ l \in whole /\ ~OnDevice(l) -> "server"
      [] l <= born /\ l \notin whole /\ l \in torn -> "torn"
      [] l <= born /\ l \notin whole /\ l \notin torn ->
            IF OnDevice(l) THEN "device" ELSE "lost"

Archive == INSTANCE LogArchive WITH place <- [l \in Logs |-> PlaceOf(l)]

\* dumbos-log-upload.sh, `upload_data && rm`, with the rotation and gzip of
\* both wrappers, crashes, reboots and lost answers: a log leaves the device
\* only when the server has all of it, unless it was torn.
ArchiveSpec == Archive!Spec

\* command.c:293, one request id for all files: upload_data returns 0 only if
\* the server has stored every file of this very call.
ZeroMeansStored ==
    ret = "0" => sent = asked

\* daemon.c:130 to 160: the socket is a live daemon's, or that of one that was
\* killed; a start that failed does not block the next one.
StaleOnlyByDeath == sock => daemon \in {"bound", "up"} \/ killed

\* dumbos-log-upload.sh: the script ends again and again, whatever fails; the
\* only place where it can wait for ever is the answer to a POST.
ScriptEnds == []<>(script = "wait") \/ <>[](pc = "post")

=============================================================================
