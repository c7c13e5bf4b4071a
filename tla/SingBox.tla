------------------------------ MODULE SingBox -------------------------------
(***************************************************************************)
(* firewall/sing-box-wrapper.sh: called with arguments it edits the        *)
(* whitelist of domains through a temporary file of a fixed name and       *)
(* restarts the service sing-box; without arguments it is that service,    *)
(* which compiles the whitelist into a configuration and becomes sing-box. *)
(* Handlers of the daemon call it side by side.  Any step may fail or be   *)
(* killed, and the device may reboot.                                      *)
(*                                                                         *)
(* A file of domains is a set of lines, or Nil if there is no such file;   *)
(* sort -u and grep -x make order and repetition irrelevant.               *)
(***************************************************************************)
EXTENDS Integers, Sequences, FiniteSets

CONSTANTS
    Domains,        \* domains of payloads
    System,         \* domains of /system/etc/sing-box-whitelist
    Runs,           \* processes that edit
    Edits,          \* command lines: <<verb, domain, ...>>
    MaxEdits,       \* bound: edits that are started
    MaxFaults,      \* bound: failures, kills and reboots
    Nil

Verbs == {"add", "del"}

\* What a file of domains may hold.
Lines == Domains \cup Verbs

ASSUME EditsAssumption ==
    \A e \in Edits : /\ e \in Seq(Lines) /\ Len(e) > 1 /\ Head(e) \in Verbs
                     /\ \A i \in 2..Len(e) : e[i] \in Domains
ASSUME DomainsAssumption == Verbs \cap Domains = {}
ASSUME NilAssumption == \A lines \in SUBSET Lines : lines # Nil

VARIABLES
    whitelist,      \* $allowlist
    tmp, tmptmp,    \* $allowlisttmp, $allowlisttmp.tmp
    pc, argv, left, \* each run: its step, command line, words still to do
    sb,             \* the service: "off" or where its script stands
    log,            \* there is a log of an earlier start
    conftmp, conf,  \* $singboxconfigtmp, $singboxconfig: domains in them
    booted,         \* sys.boot_completed
    edits, faults,  \* counted against their bounds
    intended,       \* history: the domains that complete edits make
    overlap,        \* history: two edits ran at the same time
    cut             \* history: an edit failed between its mv and its start

fileVars == <<whitelist, tmp, tmptmp>>
runVars == <<pc, argv, left>>
sbVars == <<sb, log, conftmp, conf>>
counters == <<edits, faults>>
history == <<intended, overlap, cut>>
vars == <<whitelist, tmp, tmptmp, pc, argv, left, sb, log, conftmp, conf,
          booted, edits, faults, intended, overlap, cut>>

Idle == [r \in Runs |-> "idle"]
NoWords == [r \in Runs |-> << >>]

Init ==
    /\ whitelist = Nil /\ tmp = Nil /\ tmptmp = Nil
    /\ pc = Idle /\ argv = NoWords /\ left = NoWords
    /\ sb = "off" /\ log = FALSE /\ conftmp = Nil /\ conf = Nil
    /\ booted = FALSE
    /\ edits = 0 /\ faults = 0
    /\ intended = {} /\ overlap = FALSE /\ cut = FALSE

Goto(r, label) == pc' = [pc EXCEPT ![r] = label]

Live == {r \in Runs : pc[r] # "idle"}

-----------------------------------------------------------------------------
(* sing-box-wrapper.sh add | del domain ...                                *)

\* Mutant of Words: the verb is shifted out before the loop.
WordsShifted(e) == Tail(e)

\* The loop is over "$@", the verb included.
Words(e) == e

\* cp "$allowlist" "$allowlisttmp"
Copied == whitelist

\* Mutant of Steps: sing-box is restarted before the whitelist is in place.
StepsRestartFirst == <<"stop", "start", "mv", "exit">>

\* What follows the loop.
Steps == <<"mv", "stop", "start", "exit">>

After(label) == Steps[1 + CHOOSE i \in DOMAIN Steps : Steps[i] = label]

\* script_helper runs the script, unless the payload has no data.  Bound: once
\* edits have overlapped no other is started.
Start(r, e) ==
    /\ pc[r] = "idle" /\ edits < MaxEdits /\ ~overlap
    /\ Goto(r, "cp")
    /\ argv' = [argv EXCEPT ![r] = e]
    /\ left' = [left EXCEPT ![r] = Words(e)]
    /\ edits' = edits + 1
    /\ overlap' = (overlap \/ Live # {})
    /\ UNCHANGED <<fileVars, sbVars, booted, faults, intended, cut>>

\* The script ends, at its end or as set -e asks when a command failed.
Exit(r) ==
    /\ Goto(r, "idle")
    /\ argv' = [argv EXCEPT ![r] = << >>]
    /\ left' = [left EXCEPT ![r] = << >>]

Copy(r) ==
    /\ pc[r] = "cp"
    /\ \/ /\ whitelist # Nil
          /\ tmp' = Copied
          /\ Goto(r, "loop") /\ UNCHANGED <<argv, left>>
       \/ whitelist = Nil /\ Exit(r) /\ UNCHANGED tmp
    /\ UNCHANGED <<whitelist, tmptmp, sbVars, booted, counters, history>>

Verb(r) == Head(argv[r])
Domain(r) == Head(left[r])

\* The next word, if there is one.
Shift(r) ==
    /\ left' = [left EXCEPT ![r] = Tail(@)]
    /\ Goto(r, IF Tail(left[r]) = << >> THEN Head(Steps) ELSE "loop")

\* Mutant of Echo: the domain goes straight to the whitelist.
EchoInPlace(r) ==
    /\ pc[r] = "loop" /\ Verb(r) = "add"
    /\ whitelist' = (IF whitelist = Nil THEN {} ELSE whitelist) \cup {Domain(r)}
    /\ Shift(r)
    /\ UNCHANGED <<tmp, tmptmp, argv, sbVars, booted, counters, history>>

\* echo "$domain" >>"$allowlisttmp", which creates the file if need be.
Echo(r) ==
    /\ pc[r] = "loop" /\ Verb(r) = "add"
    /\ tmp' = (IF tmp = Nil THEN {} ELSE tmp) \cup {Domain(r)}
    /\ Shift(r)
    /\ UNCHANGED <<whitelist, tmptmp, argv, sbVars, booted, counters, history>>

\* grep -v returns 1 if it has selected no line, 2 if there is no file.
Grep(r) ==
    /\ pc[r] = "loop" /\ Verb(r) = "del"
    /\ tmptmp' = IF tmp = Nil THEN {} ELSE tmp \ {Domain(r)}
    /\ \/ tmptmp' # {} /\ Goto(r, "mvtmp") /\ UNCHANGED <<argv, left>>
       \/ tmptmp' = {} /\ Exit(r)
    /\ UNCHANGED <<whitelist, tmp, sbVars, booted, counters, history>>

\* mv "$allowlisttmp.tmp" "$allowlisttmp"
MoveTmp(r) ==
    /\ pc[r] = "mvtmp"
    /\ \/ /\ tmptmp # Nil
          /\ tmp' = tmptmp /\ tmptmp' = Nil
          /\ Shift(r) /\ UNCHANGED argv
       \/ tmptmp = Nil /\ Exit(r) /\ UNCHANGED <<tmp, tmptmp>>
    /\ UNCHANGED <<whitelist, sbVars, booted, counters, history>>

Continue(r, label) ==
    IF After(label) = "exit"
    THEN Exit(r)
    ELSE Goto(r, After(label)) /\ UNCHANGED <<argv, left>>

Edited(set, e) ==
    LET named == {e[i] : i \in 2..Len(e)} IN
    IF Head(e) = "add" THEN set \cup named ELSE set \ named

\* mv "$allowlisttmp" "$allowlist"
Move(r) ==
    /\ pc[r] = "mv"
    /\ \/ /\ tmp # Nil
          /\ whitelist' = tmp /\ tmp' = Nil
          /\ intended' = Edited(intended, argv[r])
          /\ Continue(r, "mv")
       \/ tmp = Nil /\ Exit(r) /\ UNCHANGED <<whitelist, tmp, intended>>
    /\ UNCHANGED <<tmptmp, sbVars, booted, counters, overlap, cut>>

\* init kills the service, wherever it is.
Stop(r) ==
    /\ pc[r] = "stop"
    /\ sb' = "off"
    /\ Continue(r, "stop")
    /\ UNCHANGED <<fileVars, log, conftmp, conf, booted, counters, history>>

\* init starts it, if it is off.
Started == sb' = IF sb = "off" THEN "begin" ELSE sb

StartService(r) ==
    /\ pc[r] = "start"
    /\ Started
    /\ Continue(r, "start")
    /\ UNCHANGED <<fileVars, log, conftmp, conf, booted, counters, history>>

Fault == faults < MaxFaults /\ faults' = faults + 1

\* A step fails or its process is killed; a cp or grep has done a part.
Dies(r) ==
    /\ r \in Live /\ Fault
    /\ \/ /\ pc[r] = "cp" /\ whitelist # Nil
          /\ tmp' \in SUBSET whitelist /\ UNCHANGED tmptmp
       \/ /\ pc[r] = "loop" /\ Verb(r) = "del" /\ tmp # Nil
          /\ tmptmp' \in SUBSET (tmp \ {Domain(r)}) /\ UNCHANGED tmp
       \/ UNCHANGED <<tmp, tmptmp>>
    /\ Exit(r)
    /\ cut' = (cut \/ pc[r] \in {"stop", "start"})
    /\ UNCHANGED <<whitelist, sbVars, booted, edits, intended, overlap>>

-----------------------------------------------------------------------------
(* The service                                                             *)

\* Move the log of the last start and gzip it.  If gzip fails the script ends
\* and init starts it again, with the log out of its way.
RotateLog ==
    /\ sb = "begin" /\ log
    /\ log' = FALSE
    /\ sb' \in {"touch", "begin"}
    /\ UNCHANGED <<fileVars, runVars, conftmp, conf, booted, counters, history>>

\* A whitelist, if there is none, and a log.
Touch ==
    /\ \/ sb = "begin" /\ ~log
       \/ sb = "touch"
    /\ whitelist' = IF whitelist = Nil THEN {} ELSE whitelist
    /\ log' = TRUE
    /\ sb' = "lines"
    /\ UNCHANGED <<tmp, tmptmp, runVars, conftmp, conf, booted, counters,
                   history>>

\* cat "$allowlist" "$sysallowlist" | sort -u
WriteLines ==
    /\ sb = "lines"
    /\ conftmp' = whitelist \cup System
    /\ sb' = "mvconf"
    /\ UNCHANGED <<fileVars, runVars, log, conf, booted, counters, history>>

\* The configuration is in its place and sing-box runs with it.
Exec ==
    /\ sb = "mvconf"
    /\ conf' = conftmp /\ conftmp' = Nil
    /\ sb' = "run"
    /\ cut' = (cut /\ whitelist \cup System # conftmp)
    /\ UNCHANGED <<fileVars, runVars, log, booted, counters, intended, overlap>>

\* The script or sing-box dies; init starts the script again.
ServiceDies ==
    /\ sb # "off" /\ Fault
    /\ sb' = "begin"
    /\ UNCHANGED <<fileVars, runVars, log, conftmp, conf, booted, edits,
                   history>>

-----------------------------------------------------------------------------

BootCompleted ==
    /\ ~booted
    /\ booted' = TRUE
    /\ Started
    /\ UNCHANGED <<fileVars, runVars, log, conftmp, conf, counters, history>>

Reboot ==
    /\ Fault
    /\ pc' = Idle /\ argv' = NoWords /\ left' = NoWords
    /\ sb' = "off" /\ booted' = FALSE /\ cut' = FALSE
    /\ UNCHANGED <<fileVars, log, conftmp, conf, edits, intended, overlap>>

Step(r) == \/ Copy(r) \/ Echo(r) \/ Grep(r) \/ MoveTmp(r) \/ Move(r)
           \/ Stop(r) \/ StartService(r)

Service == RotateLog \/ Touch \/ WriteLines \/ Exec

Next ==
    \/ \E r \in Runs, e \in Edits : Start(r, e)
    \/ \E r \in Runs : Step(r)
    \/ \E r \in Runs : Dies(r)
    \/ Service
    \/ ServiceDies
    \/ BootCompleted
    \/ Reboot

Fairness == /\ \A r \in Runs : WF_vars(Step(r))
            /\ WF_vars(Service) /\ WF_vars(BootCompleted)

Spec == Init /\ [][Next]_vars /\ Fairness

-----------------------------------------------------------------------------
(* Properties.                                                             *)

Listed == IF whitelist = Nil THEN {} ELSE whitelist \cap Domains

\* sing-box-wrapper.sh:27 to 39, dumb.h "add domain(s) to sing-box whitelist",
\* "remove domain(s)": the whitelist holds what the edits that came to their
\* mv have made of it, each as a whole; an edit that failed or was killed
\* before that has no effect, nor have the temporary files it left.  Edits
\* that overlap share these files and are excluded.
EditsAtomic == ~overlap => Listed = intended

\* sing-box-wrapper.sh:34, where grep's status ends the script if no line is
\* left: a del fails that way only when nothing of what it names was listed.
\* What makes this true is that add has put its own verb into the list.
DelRemoves ==
    [][\A r \in Runs :
          ~overlap /\ pc[r] = "loop" /\ pc'[r] = "idle" /\ faults' = faults =>
              Listed \cap {argv[r][i] : i \in 2..Len(argv[r])} = {}]_vars

\* sing-box-wrapper.sh:41 and :53, dumbosd.rc: in the end sing-box runs with
\* what the whitelist says, however edits, failures of the service and boots
\* interleave, unless an edit failed between its mv and its start.
InEffectAtLast ==
    <>[](cut \/ (sb = "run" /\ conf = whitelist \cup System))

=============================================================================
