----------------------------- MODULE SecretCode -----------------------------
(***************************************************************************)
(* A secret code dialled on the device: daemon/secret_code.c and           *)
(* daemon/payload_cmd.c, run by one forked handler per connection, talking *)
(* over a network that delays and loses to a code server that keeps the    *)
(* promises of CodeLedger.                                                 *)
(*                                                                         *)
(* A handler asks for the network time, signs a request with it, downloads *)
(* the payload and handles it: expiry, signature, command.  A composite    *)
(* payload is handled part by part, in order, until one fails.  todo is    *)
(* what is left of it: handling a composite replaces it by its parts.      *)
(***************************************************************************)
EXTENDS Payload, Sequences, FiniteSets, SequencesExt

CONSTANTS
    Sessions,       \* connections, each one "code" command
    Codes,
    Files,          \* payloads an administrator puts into a code file
    Parts,          \* payloads inside of composite ones, at any depth
    MaxLive,        \* bound: handlers running at the same time
    MaxClock,       \* bound: last second of the run
    NotFound,       \* the answer 404
    Nil

\* p has the fields of struct DUMB_PAYLOAD, and if it is a composite its data
\* are payloads.
IsPayload(p) ==
    /\ p = [expire |-> p.expire, command |-> p.command, data |-> p.data,
            fits |-> p.fits, sig |-> p.sig]
    /\ p.expire \in ExpireField
    /\ p.command \in STRING
    /\ p.command = "composite" => p.data \in Seq(Parts)

ASSUME PayloadsAssumption == \A p \in Files \cup Parts : IsPayload(p)

ASSUME NilAssumption == Nil # "0"

\* The commands that are one call of another program, or none: their result
\* is that program's.
SingleStep == {"wifi-enable", "wifi-disable", "oem-unlock", "oem-lock",
               "fw-allow", "fw-deny", "fw-tmp-add", "fw-flush", "singboxadd",
               "singboxdel", "export-files", "import-files"}

VARIABLES
    clock,          \* network time, also the server's
    codeFile,       \* code files on the server, or Nil
    pc, code,       \* of each handler: where it stands, the code dialled
    connected,      \* the caller still holds its end of the socket
    net_time,       \* the time saved before the request was signed
    sent,           \* the request has left the device
    answer,         \* what the server answered: a payload, NotFound, Nil
    todo,           \* payloads still to be handled
    ret,            \* what secret_code returned, or Nil
    ran,            \* history: commands that succeeded, in order
    refused,        \* history: the payload refused and why, or Nil
    dev, adb,       \* global settings development_settings_enabled, adb_enabled
    tmpApk,         \* content of <tmpdir>/tmp.apk, or Nil
    installs,       \* history: <<apk in the payload, apk that pm installed>>
    overlapped      \* history: two handlers were in the middle of a command that
                    \* changes the device in several steps

serverVars == <<clock, codeFile>>
deviceVars == <<dev, adb, tmpApk, installs, overlapped>>
requestVars == <<code, net_time, sent, answer>>
vars == <<clock, codeFile, pc, code, connected, net_time, sent, answer, todo,
          ret, ran, refused, dev, adb, tmpApk, installs, overlapped>>

Init ==
    /\ clock = 1
    /\ codeFile \in [Codes -> Files \cup {Nil}]
    /\ pc = [s \in Sessions |-> "idle"]
    /\ code = [s \in Sessions |-> Nil]
    /\ connected = [s \in Sessions |-> FALSE]
    /\ net_time = [s \in Sessions |-> 0]
    /\ sent = [s \in Sessions |-> FALSE]
    /\ answer = [s \in Sessions |-> Nil]
    /\ todo = [s \in Sessions |-> << >>]
    /\ ret = [s \in Sessions |-> Nil]
    /\ ran = [s \in Sessions |-> << >>]
    /\ refused = [s \in Sessions |-> Nil]
    /\ dev = FALSE /\ adb = FALSE
    /\ tmpApk = Nil /\ installs = {}
    /\ overlapped = FALSE

Live == {s \in Sessions : pc[s] \notin {"idle", "done", "killed"}}

-----------------------------------------------------------------------------
(* Time, callers, the server.                                              *)

Tick ==
    /\ clock < MaxClock
    /\ clock' = clock + 1
    /\ UNCHANGED <<codeFile, pc, connected, requestVars, todo, ret, ran,
                   refused, deviceVars>>

\* A caller connects and sends "code <c>"; the daemon forks a handler.
Dial(s, c) ==
    /\ pc[s] = "idle"
    /\ Cardinality(Live) < MaxLive
    /\ pc' = [pc EXCEPT ![s] = "time"]
    /\ code' = [code EXCEPT ![s] = c]
    /\ connected' = [connected EXCEPT ![s] = TRUE]
    /\ UNCHANGED <<serverVars, net_time, sent, answer, todo, ret, ran, refused,
                   deviceVars>>

\* The caller goes away.
Hangup(s) ==
    /\ s \in Live
    /\ connected[s]
    /\ connected' = [connected EXCEPT ![s] = FALSE]
    /\ UNCHANGED <<serverVars, pc, requestVars, todo, ret, ran, refused,
                   deviceVars>>

\* The server handles the request of s, once, at any time after it was sent,
\* even when the device no longer waits: as CodeServer does, it fixes the
\* expiry on disk and signs what it answers.
Serve(s) ==
    /\ sent[s] /\ answer[s] = Nil
    /\ LET c == code[s]
           fixed == [codeFile[c] EXCEPT !.expire =
                        dp_get_expire_or_set(codeFile[c].expire, clock)]
           granted == /\ net_time[s] + DEFAULT_EXPIRE_TIME >= clock
                      /\ codeFile[c] # Nil
                      /\ ~ExpiredAt(fixed.expire.num, clock) IN
       \/ /\ granted
          /\ codeFile' = [codeFile EXCEPT ![c] = fixed]
          /\ answer' = [answer EXCEPT ![s] = dp_sign(fixed)]
       \/ /\ ~granted
          /\ answer' = [answer EXCEPT ![s] = NotFound]
          /\ UNCHANGED codeFile
    /\ UNCHANGED <<clock, pc, code, connected, net_time, sent, todo, ret, ran,
                   refused, deviceVars>>

-----------------------------------------------------------------------------
(* The handler.                                                            *)

Goto(s, label) == pc' = [pc EXCEPT ![s] = label]

\* The message that goes with an error is left out: a caller that is gone can
\* only make the write of it the handler's end.
Return(s, err) == Goto(s, "done") /\ ret' = [ret EXCEPT ![s] = err]

\* The head of todo has been executed.
Succeeded(s) ==
    /\ Goto(s, "check")
    /\ ran' = [ran EXCEPT ![s] = Append(@, Head(todo[s]).command)]
    /\ todo' = [todo EXCEPT ![s] = Tail(@)]

\* Argument checks, then get_network_time.
GetTime(s) ==
    /\ pc[s] = "time"
    /\ \/ /\ net_time' = [net_time EXCEPT ![s] = clock]
          /\ Goto(s, "request")
          /\ UNCHANGED ret
       \/ Return(s, "ECOMM") /\ UNCHANGED net_time
    /\ UNCHANGED <<serverVars, code, connected, sent, answer, todo, ran,
                   refused, deviceVars>>

\* User data, request id, signature, URL; then "downloading..." to the caller
\* and the request to the server.  When the URL cannot be built, secret_code
\* returns the err of the call before, which is 0.
SendRequest(s) ==
    /\ pc[s] = "request"
    /\ \/ /\ connected[s]
          /\ sent' = [sent EXCEPT ![s] = TRUE]
          /\ Goto(s, "download")
          /\ UNCHANGED ret
       \/ \E err \in {"ENOENT", "ENOMEM", "0"} :
             Return(s, err) /\ UNCHANGED sent
    /\ UNCHANGED <<serverVars, code, connected, net_time, answer, todo, ran,
                   refused, deviceVars>>

\* download_url answers with a payload; FAILONERROR makes a 404 EPROTO.
Receive(s) ==
    /\ pc[s] = "download"
    /\ answer[s] # Nil
    /\ \/ /\ answer[s] # NotFound
          /\ todo' = [todo EXCEPT ![s] = <<answer[s]>>]
          /\ Goto(s, "check")
          /\ UNCHANGED ret
       \/ answer[s] = NotFound /\ Return(s, "EPROTO") /\ UNCHANGED todo
    /\ UNCHANGED <<serverVars, requestVars, connected, ran, refused, deviceVars>>

\* Mutant of Timeout: no CURLOPT_TIMEOUT_MS.
TimeoutNever(s) == FALSE /\ UNCHANGED vars

\* CURLOPT_TIMEOUT_MS, a broken connection, or a body too short to be one.
Timeout(s) ==
    /\ pc[s] = "download"
    /\ Return(s, "ETIMEDOUT")
    /\ UNCHANGED <<serverVars, requestVars, connected, todo, ran, refused,
                   deviceVars>>

\* Mutant of CompareTime: the time at which the payload is handled.
CompareTimeNow(s) == clock

\* "save and use that time to calculate expiry"
CompareTime(s) == net_time[s]

\* handle_one_payload up to the dispatch.  dp_is_expired_compare may rewrite
\* the expire field, with the device's own clock, before the signature is
\* checked.
CheckPayload(s) ==
    /\ pc[s] = "check" /\ todo[s] # << >>
    /\ connected[s]
    /\ \E now \in 0..MaxClock :
       LET p == Head(todo[s])
           q == [p EXCEPT !.expire = dp_get_expire_or_set(p.expire, now)]
           verdict == IF ExpiredAt(q.expire.num, CompareTime(s))
                      THEN "EKEYEXPIRED"
                      ELSE IF ~dp_verify(q) THEN "EBADMSG" ELSE "ok" IN
       \/ /\ verdict = "ok"
          /\ todo' = [todo EXCEPT ![s] = <<q>> \o Tail(@)]
          /\ Goto(s, "run")
          /\ UNCHANGED <<ret, refused>>
       \/ /\ verdict # "ok"
          /\ refused' = [refused EXCEPT ![s] = [payload |-> p, why |-> verdict]]
          /\ Return(s, verdict)
          /\ UNCHANGED todo
    /\ UNCHANGED <<serverVars, requestVars, connected, ran, deviceVars>>

\* Nothing left: every part has succeeded.
Finish(s) ==
    /\ pc[s] = "check" /\ todo[s] = << >>
    /\ Return(s, "0")
    /\ UNCHANGED <<serverVars, requestVars, connected, todo, ran, refused,
                   deviceVars>>

\* No SIGPIPE handler: the first write to a caller that is gone kills the
\* handler.  Those writes precede the download and every dispatch.
Sigpipe(s) ==
    /\ ~connected[s]
    /\ pc[s] \in {"request", "check"}
    /\ Goto(s, "killed")
    /\ UNCHANGED <<serverVars, requestVars, connected, todo, ret, ran, refused,
                   deviceVars>>

Command(s) == Head(todo[s]).command
Data(s) == Head(todo[s]).data

\* payload_cmd_composite
RunComposite(s) ==
    /\ pc[s] = "run" /\ Command(s) = "composite"
    /\ todo' = [todo EXCEPT ![s] = Data(s) \o Tail(@)]
    /\ Goto(s, "check")
    /\ UNCHANGED <<serverVars, requestVars, connected, ret, ran, refused,
                   deviceVars>>

\* Mutant of RunFails: a composite goes on with its next part.
RunFailsOn(s) == Goto(s, "check")
                 /\ todo' = [todo EXCEPT ![s] = Tail(@)]
                 /\ UNCHANGED ret

\* The error of a part is the error of the whole.
RunFails(s) == Return(s, "EXIT") /\ UNCHANGED todo

\* script_helper, payload_cmd_firewall_flush, set_wifi_enabled, set_oem_lock,
\* payload_cmd_files_export and _import, seen from here; their own steps are
\* those of the programs they call.
RunSingle(s) ==
    /\ pc[s] = "run" /\ Command(s) \in SingleStep
    /\ \/ Succeeded(s) /\ UNCHANGED ret
       \/ RunFails(s) /\ UNCHANGED ran
    /\ UNCHANGED <<serverVars, requestVars, connected, refused, deviceVars>>

RunOk(s) ==
    /\ pc[s] = "run" /\ Command(s) = "ok"
    /\ Succeeded(s)
    /\ UNCHANGED <<serverVars, requestVars, connected, ret, refused, deviceVars>>

\* install-path, and every command the daemon does not know.
RunUnknown(s) ==
    /\ pc[s] = "run"
    /\ Command(s) \notin SingleStep \cup
          {"composite", "ok", "adb-enable", "adb-disable", "install-this"}
    /\ Return(s, "ENOSYS")
    /\ UNCHANGED <<serverVars, requestVars, connected, todo, ran, refused,
                   deviceVars>>

Busy == {s \in Sessions : pc[s] \in {"adb", "write", "pm"}}

NoteOverlap == overlapped' = (overlapped \/ \E s, t \in Busy' : s # t)

\* Mutant of AdbFirst: the order of the two settings swapped.
AdbFirstSwapped(s) == IF Command(s) = "adb-enable"
                      THEN adb' = TRUE /\ UNCHANGED dev
                      ELSE dev' = FALSE /\ UNCHANGED adb

\* set_adb_enabled: the developer options are switched on before adb and off
\* after it.
AdbFirst(s) == IF Command(s) = "adb-enable"
               THEN dev' = TRUE /\ UNCHANGED adb
               ELSE adb' = FALSE /\ UNCHANGED dev
AdbSecond(s) == IF Command(s) = "adb-enable"
                THEN adb' = TRUE /\ UNCHANGED dev
                ELSE dev' = FALSE /\ UNCHANGED adb

RunAdb(s) ==
    /\ Command(s) \in {"adb-enable", "adb-disable"}
    /\ \/ /\ pc[s] = "run"
          /\ AdbFirst(s)
          /\ Goto(s, "adb")
          /\ UNCHANGED <<todo, ret, ran>>
       \/ /\ pc[s] = "adb"
          /\ AdbSecond(s)
          /\ Succeeded(s)
          /\ UNCHANGED ret
       \/ /\ pc[s] \in {"run", "adb"}
          /\ RunFails(s)
          /\ UNCHANGED <<ran, dev, adb>>
    /\ NoteOverlap
    /\ UNCHANGED <<serverVars, requestVars, connected, refused, tmpApk, installs>>

\* Mutant of OpenedApk: O_EXCL in place of O_TRUNC, its failure passed over.
OpenedApkExcl(s) == IF tmpApk = Nil THEN Data(s) ELSE tmpApk

\* <tmpdir>/tmp.apk after open with O_TRUNC and write_all.
OpenedApk(s) == Data(s)

\* payload_cmd_install_this: reload the firewall, write tmp.apk, let pm
\* install that path, unlink it.
RunInstall(s) ==
    /\ Command(s) = "install-this"
    /\ \/ /\ pc[s] = "run"
          /\ Goto(s, "write")
          /\ UNCHANGED <<todo, ret, ran, tmpApk, installs>>
       \/ /\ pc[s] = "write"
          /\ tmpApk' = OpenedApk(s)
          /\ Goto(s, "pm")
          /\ UNCHANGED <<todo, ret, ran, installs>>
       \/ /\ pc[s] = "pm"
          /\ tmpApk # Nil
          /\ installs' = installs \cup {<<Data(s), tmpApk>>}
          /\ tmpApk' = Nil
          /\ Succeeded(s)
          /\ UNCHANGED ret
       \/ /\ pc[s] \in {"run", "write", "pm"}
          /\ RunFails(s)
          /\ tmpApk' \in CASE pc[s] = "run" -> {tmpApk}
                            [] pc[s] = "write" -> {tmpApk, Nil}
                            [] pc[s] = "pm" -> {Nil}
          /\ UNCHANGED <<ran, installs>>
    /\ NoteOverlap
    /\ UNCHANGED <<serverVars, requestVars, connected, refused, dev, adb>>

\* Power goes; files and settings stay.
Reboot ==
    /\ Live # {}
    /\ pc' = [s \in Sessions |-> IF s \in Live THEN "killed" ELSE pc[s]]
    /\ connected' = [s \in Sessions |-> FALSE]
    /\ UNCHANGED <<serverVars, requestVars, todo, ret, ran, refused, deviceVars>>

\* What the handler of s does next, its own end included.
Step(s) ==
    \/ GetTime(s) \/ SendRequest(s) \/ Receive(s) \/ Timeout(s)
    \/ CheckPayload(s) \/ Finish(s) \/ Sigpipe(s)
    \/ /\ pc[s] \in {"run", "adb", "write", "pm"}
       /\ \/ RunComposite(s) \/ RunSingle(s) \/ RunOk(s) \/ RunUnknown(s)
          \/ RunAdb(s) \/ RunInstall(s)

Next ==
    \/ Tick
    \/ \E s \in Sessions, c \in Codes : Dial(s, c)
    \/ \E s \in Sessions : Hangup(s) \/ Serve(s) \/ Step(s)
    \/ Reboot

\* A handler is a process the kernel schedules; its downloads have timeouts
\* and the programs it runs are taken to end.  Nothing is assumed of the
\* server, the network or the caller.
Spec == Init /\ [][Next]_vars /\ \A s \in Sessions : WF_vars(Step(s))

-----------------------------------------------------------------------------
(* Properties.                                                             *)

\* The payload that the server signed for s.
Master(s) == answer[s]

\* The commands that a list of payloads stands for, in order, and those of one
\* payload: a composite stands for its parts.
Commands[ps \in Seq(Parts)] ==
    IF ps = << >> THEN << >>
    ELSE (IF Head(ps).command = "composite" THEN Commands[Head(ps).data]
          ELSE <<Head(ps).command>>) \o Commands[Tail(ps)]

CommandsOf(p) ==
    IF p.command = "composite" THEN Commands[p.data] ELSE <<p.command>>

\* The parts of a composite from the i-th on.
PartsFrom(p, i) == SubSeq(p.data, i, Len(p.data))

\* A payload is finite, and so no composite contains itself, at any depth:
\* the recursion of Commands comes to its end on each, and yields what its
\* definition says.
ASSUME CommandsAssumption ==
    \A p \in {q \in Files \cup Parts : q.command = "composite"} :
        \A i \in 1..(Len(p.data) + 1) :
            LET ps == PartsFrom(p, i) IN
            /\ Commands[ps] \in Seq(STRING)
            /\ Commands[ps] = IF ps = << >> THEN << >>
                              ELSE CommandsOf(Head(ps)) \o Commands[Tail(ps)]

\* p is not over before m is.
Outlives(p, m) ==
    p.expire.num = 0 \/ (m.expire.num # 0 /\ p.expire.num >= m.expire.num)

\* secret_code.c, "in case download takes a long time and it expires
\* meanwhile": once the server has granted a code, neither the payload nor a
\* part of it that is signed, fixed in time and outlives it is refused,
\* however late the answer comes and however long the parts before it take.
GrantedCodeAccepted ==
    \A s \in Sessions :
        refused[s] # Nil =>
            LET p == refused[s].payload IN
            ~(dp_verify(p) /\ IsAbsolute(p.expire) /\ Outlives(p, Master(s)))

\* payload_cmd.c, payload_cmd_composite: the commands of a code are executed
\* in order, the rest of them left out after the first that fails, and the
\* handler reports 0 for a code it received only if it executed them all.
CodeRunsInOrder ==
    \A s \in Sessions :
        /\ ran[s] # << >> => IsPrefix(ran[s], CommandsOf(Master(s)))
        /\ ret[s] = "0" /\ sent[s] => ran[s] = CommandsOf(Master(s))

\* util.c, set_adb_enabled: adb is never on with the developer options off,
\* also after a failed call or a handler killed in between, as long as no two
\* handlers changed the device at the same time.
AdbNeedsDev == adb => dev \/ overlapped

\* dumb.h, CODE_CMD_INSTALLTHIS, "install package given in data": what pm
\* installs is what the payload holds, whatever an earlier handler left in
\* tmp.apk, as long as no two were at it at the same time.
InstallsGivenApk == (\A i \in installs : i[1] = i[2]) \/ overlapped

\* The same, however many handlers are at it.
InstallsGivenApkAtOnce == \A i \in installs : i[1] = i[2]

\* dumb.h:52, "a string ":<integer>" will be interpreted as expiring <integer>
\* seconds after use": no payload whose signature is good is refused for its
\* signature, whatever its expiry is counted from.
GoodSignatureAccepted ==
    \A s \in Sessions :
        refused[s] # Nil /\ refused[s].why = "EBADMSG" =>
            ~dp_verify(refused[s].payload)

\* curl.c, "Do not let a daemon hang forever": every handler ends.
HandlerEnds ==
    \A s \in Sessions : s \in Live ~> s \notin Live

=============================================================================
