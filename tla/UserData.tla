------------------------------ MODULE UserData ------------------------------
(***************************************************************************)
(* How a device gets its user: the command setname (daemon/command.c) of   *)
(* handlers that run side by side, and init, which copies the file they    *)
(* leave to the persist partition and back at every boot (dumbosd.rc).     *)
(* init executes one command after the other; the daemon runs before       *)
(* sys.boot_completed is set.  /dev is lost at a reboot.                   *)
(***************************************************************************)
EXTENDS NoValue, Integers, Sequences, FiniteSets

CONSTANTS
    Users,          \* contents that are user data, with the magic
    Junk,           \* any other content, a file cut short included
    Sessions        \* handlers; bound: as many setnames in one boot

ASSUME ContentAssumption == {Junk, Nil} \cap Users = {} /\ Junk # Nil

Content == Users \cup {Junk}

\* race: a setname found no user while another user, or the one of the persist
\* partition, was still on its way.  copy: a copy of init failed.
Faults == {"race", "copy"}

VARIABLES
    newFile,        \* /dev/dumbos-userdata-new
    devFile,        \* /dev/dumbos-userdata
    persistFile,    \* /mnt/vendor/persist/dumbos_user
    booted,         \* sys.boot_completed is 1
    queue,          \* commands init has still to execute
    copying,        \* content read by the copy init is executing, or Nil
    pc, data,       \* of each setname: where it stands, its argument
    lockText,       \* owner info on the lock screen, or Nil
    faults,         \* history: what went wrong since the last boot, of Faults
    spoilt          \* history: something went wrong once

files == <<newFile, devFile, persistFile>>
initVars == <<booted, queue, copying>>
sessionVars == <<pc, data>>
history == <<faults, spoilt>>
vars == <<newFile, devFile, persistFile, booted, queue, copying, pc, data,
          lockText, faults, spoilt>>

Init ==
    /\ newFile = Nil /\ devFile = Nil
    /\ persistFile \in Users \cup {Nil}
    /\ booted = FALSE /\ queue = << >> /\ copying = Nil
    /\ pc = [s \in Sessions |-> "idle"]
    /\ data = [s \in Sessions |-> Nil]
    /\ lockText = Nil
    /\ faults = {} /\ spoilt = FALSE

Fault(f) == faults' = faults \cup {f} /\ spoilt' = TRUE

-----------------------------------------------------------------------------
(* init                                                                    *)

\* Mutant of NewUserCommands: the copies the other way round.
NewUserCommandsSwapped == <<"new_to_dev", "new_to_persist">>

\* on property:dumbos.newuser=1
NewUserCommands == <<"new_to_persist", "new_to_dev">>

\* Mutant of BootCommands: no copy at boot.
BootCommandsNone == << >>

\* on property:sys.boot_completed=1
BootCommands == <<"persist_to_dev">>

BootCompleted ==
    /\ ~booted
    /\ booted' = TRUE
    /\ queue' = queue \o BootCommands
    /\ UNCHANGED <<files, copying, sessionVars, lockText, history>>

Source(command) == IF command = "persist_to_dev" THEN persistFile ELSE newFile

\* What the target of a command becomes.
Put(command, content) ==
    IF command = "new_to_persist"
    THEN persistFile' = content /\ UNCHANGED <<newFile, devFile>>
    ELSE devFile' = content /\ UNCHANGED <<newFile, persistFile>>

\* init's copy reads the whole source, then opens the target with O_TRUNC ...
BeginCopy ==
    /\ queue # << >> /\ copying = Nil
    /\ Source(Head(queue)) # Nil
    /\ copying' = Source(Head(queue))
    /\ Put(Head(queue), Junk)
    /\ UNCHANGED <<queue, booted, sessionVars, lockText, history>>

\* ... and writes it.
EndCopy ==
    /\ copying # Nil
    /\ Put(Head(queue), copying)
    /\ copying' = Nil
    /\ queue' = Tail(queue)
    /\ UNCHANGED <<booted, sessionVars, lockText, history>>

\* There is nothing to copy; init goes on with the next command.
NothingToCopy ==
    /\ queue # << >> /\ copying = Nil
    /\ Source(Head(queue)) = Nil
    /\ queue' = Tail(queue)
    /\ UNCHANGED <<files, copying, booted, sessionVars, lockText, history>>

\* The source cannot be read or the target not be opened, which leaves it as it
\* was, or the write fails, which leaves it cut short.  init goes on.
CopyFails ==
    /\ queue # << >>
    /\ copying # Nil \/ Source(Head(queue)) # Nil
    /\ copying' = Nil
    /\ queue' = Tail(queue)
    /\ Fault("copy")
    /\ UNCHANGED <<files, booted, sessionVars, lockText>>

InitStep == BeginCopy \/ EndCopy \/ NothingToCopy \/ CopyFails

Reboot ==
    /\ newFile' = Nil /\ devFile' = Nil
    /\ booted' = FALSE /\ queue' = << >> /\ copying' = Nil
    /\ pc' = [s \in Sessions |-> "idle"]
    /\ data' = [s \in Sessions |-> Nil]
    /\ faults' = {}
    /\ UNCHANGED <<persistFile, lockText, spoilt>>

-----------------------------------------------------------------------------
(* cmd_setname                                                             *)

Goto(s, label) == pc' = [pc EXCEPT ![s] = label]

\* Its handler ends, with the error or 0.
Return(s) == Goto(s, "done")

\* A caller asks for setname; its argument is the hexadecimal form of d.
\* Nothing checks yet that d is user data.
Start(s, d) ==
    /\ pc[s] = "idle"
    /\ Goto(s, "check")
    /\ data' = [data EXCEPT ![s] = d]
    /\ UNCHANGED <<files, initVars, lockText, history>>

\* Mutant of NoUserFile: "continuing anyway", as in debug mode.
NoUserFileDebug == TRUE

\* dumbos_alloc_get_user leaves ENOENT in errno.
NoUserFile == devFile = Nil

\* Handlers that found no user and have not set the property yet.
PastCheck == {s \in Sessions : pc[s] \in {"open", "write", "setprop"}}

\* Whether a user is still on its way to /dev.
OnItsWay == ~booted \/ queue # << >> \/ PastCheck # {}

\* Anything but "no such file", a lack of memory included, ends the command.
CheckUser(s) ==
    /\ pc[s] = "check"
    /\ \/ /\ NoUserFile
          /\ Goto(s, "open")
          /\ IF OnItsWay THEN Fault("race") ELSE UNCHANGED history
       \/ Return(s) /\ UNCHANGED history                   \* EUSERS
    /\ UNCHANGED <<files, initVars, data, lockText>>

\* fopen(..., "wb") empties the file.
OpenNew(s) ==
    /\ pc[s] = "open"
    /\ \/ newFile' = Junk /\ Goto(s, "write")
       \/ Return(s) /\ UNCHANGED newFile
    /\ UNCHANGED <<devFile, persistFile, initVars, data, lockText, history>>

\* A short fwrite ends the command; what fwrite leaves in its buffer is written
\* by fclose, whose result is ignored.
WriteNew(s) ==
    /\ pc[s] = "write"
    /\ \/ newFile' \in {data[s], Junk} /\ Goto(s, "setprop")
       \/ Return(s) /\ UNCHANGED newFile
    /\ UNCHANGED <<devFile, persistFile, initVars, data, lockText, history>>

\* setprop dumbos.newuser 1: init takes note of it, also if it was 1 before.
SetProp(s) ==
    /\ pc[s] = "setprop"
    /\ \/ queue' = queue \o NewUserCommands /\ Return(s)
       \/ Return(s) /\ UNCHANGED queue
    /\ UNCHANGED <<files, booted, copying, data, lockText, history>>

\* The handler is killed, by SIGPIPE when its caller has gone.
SetnameDies(s) ==
    /\ pc[s] \notin {"idle", "done"}
    /\ Return(s)
    /\ UNCHANGED <<files, initVars, data, lockText, history>>

Step(s) ==
    CheckUser(s) \/ OpenNew(s) \/ WriteNew(s) \/ SetProp(s) \/ SetnameDies(s)

\* maybe_set_lockscreen_text, called by cmd_get_username and by every start of
\* the daemon: one transaction on locksettings.db.
SetLockText ==
    /\ devFile \in Users
    /\ lockText' = devFile
    /\ UNCHANGED <<files, initVars, sessionVars, history>>

Next ==
    \/ BootCompleted \/ InitStep \/ Reboot \/ SetLockText
    \/ \E s \in Sessions, d \in Content : Start(s, d)
    \/ \E s \in Sessions : Step(s)

\* init goes on with its queue and sets sys.boot_completed in the end.
Spec == Init /\ [][Next]_vars /\ WF_vars(BootCompleted)
             /\ WF_vars(InitStep)

-----------------------------------------------------------------------------
(* Properties.                                                             *)

\* command.c, "sets the DumbOS user data, only if it's not already set": a
\* user on the persist partition is never replaced.
UserKept == [][(persistFile \in Users) => (persistFile' = persistFile)]_vars

\* cmd_setname's check: a user on the persist partition is replaced, or cut
\* short, only when a setname passed the check before init had brought that
\* user to /dev or beside another setname, or when one of init's copies failed.
ReplacedOnlyByRace ==
    [][(persistFile \in Users /\ persistFile' # persistFile) => (faults # {})]_vars

\* dumbosd.rc, persist before /dev: unless setnames raced or a copy failed,
\* the user that the daemon works with, or has shown on the lock screen, is
\* the one that is there after a reboot.
UserSurvives ==
    /\ faults = {} => (devFile \in Users => persistFile = devFile)
    /\ ~spoilt => (lockText # Nil => persistFile = lockText)

\* dumbosd.rc, copy at sys.boot_completed: a device that has a user comes up
\* with that user, and a new user takes effect, unless it is switched off,
\* setnames race or a copy fails.
UserTakesEffect ==
    \A u \in Users :
        persistFile = u /\ booted ~> devFile = u \/ ~booted \/ faults # {}

=============================================================================
