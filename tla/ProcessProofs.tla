--------------------------- MODULE ProcessProofs ----------------------------
(* Theorems about the four places where one process works for another: the *)
(* copies of init (UserData), the program that execv_wrapper runs          *)
(* (ExecWrapper), the child of a file export (MountCopy) and the handler   *)
(* of a connection (CallerSession).  Each is a system of its own, for      *)
(* every value of its constants.                                           *)
EXTENDS UserData, ExecWrapper, MountCopy, CallerSession, FiniteSetTheorems,
        NaturalsInduction, WellFoundedInduction, SequenceTheorems, TLAPS

-----------------------------------------------------------------------------
(* UserData: any number of handlers, at any time.  As long as no setname   *)
(* has raced with another or with the boot and no copy has failed, init's  *)
(* place in its commands says what is in the files; a reboot starts this   *)
(* anew.                                                                   *)

Labels == {"idle", "check", "open", "write", "setprop", "done"}

TypeOK ==
    /\ newFile \in Content \cup {Nil}
    /\ devFile \in Content \cup {Nil}
    /\ persistFile \in Content \cup {Nil}
    /\ copying \in Content \cup {Nil}
    /\ lockText \in Users \cup {Nil}
    /\ pc \in [Sessions -> Labels] /\ data \in [Sessions -> Content \cup {Nil}]
    /\ \A s \in Sessions : pc[s] \notin {"idle", "done"} => data[s] \in Content

\* At most one setname has passed the check and not ended, and it works on a
\* device without a user while init is idle.
LiveInv ==
    /\ \A s, t \in PastCheck : s = t
    /\ PastCheck # {} => booted /\ queue = << >> /\ copying = Nil /\ devFile = Nil
    /\ \A s \in Sessions : pc[s] = "setprop" => newFile # Nil

\* Where init stands between one boot and the next, and what that says of the
\* files: idle before the boot is completed and after it, about to copy at boot
\* and copying, then the same for the two copies of a new user.
StageInv ==
    \/ ~booted /\ queue = << >> /\ copying = Nil /\ devFile = Nil
    \/ booted /\ queue = << >> /\ copying = Nil /\ devFile = persistFile
    \/ booted /\ queue = BootCommands /\ copying = Nil /\ devFile = Nil
    \/ booted /\ queue = BootCommands /\ copying = persistFile /\ copying # Nil
       /\ devFile = Junk
    \/ booted /\ queue = NewUserCommands /\ copying = Nil /\ newFile # Nil
       /\ devFile = Nil /\ persistFile = Nil
    \/ booted /\ queue = NewUserCommands /\ copying = newFile /\ newFile # Nil
       /\ devFile = Nil /\ persistFile = Junk
    \/ booted /\ queue = <<"new_to_dev">> /\ copying = Nil /\ newFile # Nil
       /\ devFile = Nil /\ persistFile = newFile
    \/ booted /\ queue = <<"new_to_dev">> /\ copying = newFile /\ newFile # Nil
       /\ devFile = Junk /\ persistFile = newFile

Clean == LiveInv /\ StageInv

IInv ==
    /\ TypeOK
    /\ faults = {} => Clean
    /\ ~spoilt => faults = {} /\ (lockText # Nil => persistFile = lockText)

LEMMA InitCommands ==
    /\ BootCommands # << >> /\ NewUserCommands # << >>
    /\ <<"new_to_dev">> # << >>
    /\ BootCommands # NewUserCommands
    /\ BootCommands # <<"new_to_dev">> /\ NewUserCommands # <<"new_to_dev">>
    /\ Head(BootCommands) = "persist_to_dev" /\ Tail(BootCommands) = << >>
    /\ Head(NewUserCommands) = "new_to_persist"
    /\ Tail(NewUserCommands) = <<"new_to_dev">>
    /\ Head(<<"new_to_dev">>) = "new_to_dev" /\ Tail(<<"new_to_dev">>) = << >>
    /\ << >> \o BootCommands = BootCommands
    /\ << >> \o NewUserCommands = NewUserCommands
  BY DEF BootCommands, NewUserCommands

\* Only while something has gone wrong can a step replace a user.
LEMMA PersistKept ==
    ASSUME IInv, [Next]_vars, persistFile \in Users, persistFile' # persistFile
    PROVE  faults # {}
<1> SUFFICES ASSUME faults = {} PROVE FALSE
  OBVIOUS
<1>1. StageInv
  BY DEF IInv, Clean
<1>2. CASE BeginCopy
  BY <1>1, <1>2, InitCommands, ContentAssumption DEF BeginCopy, Put, StageInv
<1>3. CASE EndCopy
  BY <1>1, <1>3, InitCommands, ContentAssumption DEF EndCopy, Put, StageInv
<1>4. CASE NothingToCopy \/ CopyFails
  BY <1>4 DEF NothingToCopy, CopyFails, files
<1>5. CASE BootCompleted \/ Reboot \/ SetLockText
  BY <1>5 DEF BootCompleted, Reboot, SetLockText, files
<1>6. CASE \E s \in Sessions, d \in Content : Start(s, d)
  BY <1>6 DEF Start, files
<1>7. CASE \E s \in Sessions : Step(s)
  BY <1>7 DEF Step, CheckUser, OpenNew, WriteNew, SetProp, SetnameDies, files
<1>8. QED
  BY <1>2, <1>3, <1>4, <1>5, <1>6, <1>7 DEF Next, InitStep, vars

LEMMA InvInit == Init => IInv
<1> SUFFICES ASSUME Init PROVE IInv
  OBVIOUS
<1>1. ~booted /\ ~spoilt
  BY Zenon DEF Init
<1>2. PastCheck = {}
  BY DEF Init, PastCheck
<1>3. QED
  BY <1>1, <1>2, ContentAssumption
     DEF Init, IInv, TypeOK, Labels, Content, Clean, LiveInv, StageInv

LEMMA TypeNext == ASSUME IInv, [Next]_vars PROVE TypeOK'
<1> USE ContentAssumption DEF IInv, TypeOK, Content, Labels
<1>1. CASE InitStep
  BY <1>1 DEF InitStep, BeginCopy, EndCopy, NothingToCopy, CopyFails, Source, Put,
     files, sessionVars
<1>2. CASE BootCompleted \/ Reboot \/ SetLockText \/ UNCHANGED vars
  BY <1>2 DEF BootCompleted, Reboot, SetLockText, files, initVars, sessionVars, vars
<1>3. ASSUME NEW s \in Sessions, NEW d \in Content, Start(s, d) PROVE TypeOK'
  BY <1>3 DEF Start, Goto, files, initVars
<1>4. ASSUME NEW s \in Sessions, Step(s) PROVE TypeOK'
  BY <1>4 DEF Step, CheckUser, OpenNew, WriteNew, SetProp, SetnameDies, Goto, Return, files,
     initVars
<1>5. QED
  BY <1>1, <1>2, <1>3, <1>4 DEF Next

\* The history only forgets at a reboot.
LEMMA HistoryNext ==
    ASSUME IInv, [Next]_vars
    PROVE  /\ ~spoilt' => ~spoilt /\ faults' = {}
           /\ faults' = {} => faults = {} \/ Reboot
<1>1. CASE CopyFails
  BY <1>1 DEF CopyFails, Fault
<1>2. CASE \E s \in Sessions : CheckUser(s)
  BY <1>2 DEF CheckUser, Fault, history, IInv
<1>3. CASE Reboot
  BY <1>3 DEF Reboot
<1>4. CASE UNCHANGED history
  BY <1>4 DEF history, IInv
<1>5. QED
  BY <1>1, <1>2, <1>3, <1>4 DEF Next, InitStep, Step, BootCompleted, BeginCopy,
     EndCopy, NothingToCopy, SetLockText, Start, OpenNew, WriteNew, SetProp, SetnameDies,
     vars, history

\* What a step of init or of the lock screen leaves alone.
LEMMA SessionsKept ==
    ASSUME UNCHANGED sessionVars
    PROVE  PastCheck' = PastCheck /\ pc' = pc
  BY DEF PastCheck, sessionVars

LEMMA CleanBegin == ASSUME IInv, Clean, BeginCopy PROVE Clean'
<1> USE InitCommands, ContentAssumption
<1>1. booted' = booted /\ PastCheck = {} /\ PastCheck' = {} /\ pc' = pc
  BY SessionsKept DEF BeginCopy, Clean, LiveInv
<1>2. booted
  BY DEF BeginCopy, Clean, StageInv
<1>3. StageInv'
  BY <1>1, <1>2 DEF BeginCopy, IInv, TypeOK, Content, Clean, StageInv, Source, Put
<1>4. \A s \in Sessions : pc'[s] # "setprop"
  BY <1>1 DEF PastCheck
<1>5. QED
  BY <1>1, <1>3, <1>4 DEF Clean, LiveInv

LEMMA CleanEnd == ASSUME IInv, Clean, EndCopy \/ NothingToCopy PROVE Clean'
<1> USE InitCommands, ContentAssumption
<1>1. booted' = booted /\ PastCheck = {} /\ PastCheck' = {} /\ pc' = pc
  BY SessionsKept DEF EndCopy, NothingToCopy, Clean, LiveInv
<1>2. booted
  BY DEF EndCopy, NothingToCopy, Clean, StageInv
<1>3. StageInv'
  <2>1. CASE EndCopy
    <3>1. booted'
      BY <1>1, <1>2
    <3>2. copying # Nil /\ Put(Head(queue), copying) /\ copying' = Nil
          /\ queue' = Tail(queue)
      BY <2>1 DEF EndCopy
    <3>3. QED
      BY <1>2, <3>1, <3>2 DEF Clean, StageInv, Put
  <2>2. CASE NothingToCopy
    BY <1>1, <1>2, <2>2 DEF NothingToCopy, Clean, StageInv, Source, files
  <2>3. QED
    BY <2>1, <2>2
<1>4. \A s \in Sessions : pc'[s] # "setprop"
  BY <1>1 DEF PastCheck
<1>5. QED
  BY <1>1, <1>3, <1>4 DEF Clean, LiveInv

LEMMA CleanBoot == ASSUME IInv, Clean, BootCompleted PROVE Clean'
<1>1. booted' /\ ~booted
  BY Zenon DEF BootCompleted
<1>2. queue = << >> /\ queue' = BootCommands /\ copying = Nil /\ devFile = Nil
  BY <1>1, InitCommands DEF BootCompleted, Clean, StageInv
<1>3. PastCheck = {} /\ PastCheck' = {} /\ pc' = pc
  BY <1>1, SessionsKept DEF BootCompleted, Clean, LiveInv
<1>4. \A s \in Sessions : pc'[s] # "setprop"
  BY <1>3 DEF PastCheck
<1>5. QED
  BY <1>1, <1>2, <1>3, <1>4 DEF Clean, LiveInv, StageInv, BootCompleted, files

LEMMA CleanReboot == ASSUME Reboot PROVE Clean'
<1>1. ~booted'
  BY Zenon DEF Reboot
<1>2. PastCheck' = {}
  BY DEF Reboot, PastCheck
<1>3. QED
  BY <1>1, <1>2 DEF Reboot, Clean, LiveInv, StageInv

LEMMA CleanKept ==
    ASSUME Clean, UNCHANGED <<files, initVars>>,
           PastCheck' \subseteq PastCheck,
           \A s \in Sessions : pc'[s] = "setprop" => pc[s] = "setprop"
    PROVE  Clean'
<1>1. booted' = booted
  BY DEF initVars
<1>2. QED
  BY <1>1 DEF Clean, LiveInv, StageInv, files, initVars

\* A step of a setname that adds no fault: its check passes only while nobody
\* else's user is on its way.
LEMMA CleanStep ==
    ASSUME IInv, Clean, NEW s \in Sessions, Step(s), faults' = {}
    PROVE  Clean'
<1> USE InitCommands, ContentAssumption DEF IInv, TypeOK, Labels
<1>1. CASE SetnameDies(s)
  BY <1>1, CleanKept DEF SetnameDies, Return, Goto, PastCheck
<1>2. CASE CheckUser(s)
  <2>1. CASE Return(s)
    BY <1>2, <2>1, CleanKept DEF CheckUser, Return, Goto, PastCheck
  <2>2. CASE NoUserFile /\ Goto(s, "open") /\ ~OnItsWay
    <3>1. booted /\ booted' = booted /\ queue = << >> /\ PastCheck = {}
      BY <1>2, <2>2 DEF CheckUser, OnItsWay, initVars
    <3>2. PastCheck' = {s} /\ \A x \in Sessions : pc'[x] # "setprop"
      BY <2>2, <3>1 DEF Goto, PastCheck
    <3>3. copying = Nil /\ devFile = Nil
      BY <2>2, <3>1 DEF Clean, StageInv, NoUserFile
    <3>4. QED
      BY <1>2, <3>1, <3>2, <3>3
         DEF CheckUser, Clean, LiveInv, StageInv, files, initVars
  <2>3. QED
    BY <1>2, <2>1, <2>2 DEF CheckUser, Fault
<1>3. CASE OpenNew(s) \/ WriteNew(s)
  <2>1. PastCheck = {s}
    BY <1>3 DEF OpenNew, WriteNew, PastCheck, Clean, LiveInv
  <2>2. booted /\ booted' = booted /\ queue = << >> /\ copying = Nil /\ devFile = Nil
    BY <1>3, <2>1 DEF OpenNew, WriteNew, Clean, LiveInv, initVars
  <2>3. PastCheck' \subseteq {s}
    BY <1>3, <2>1 DEF OpenNew, WriteNew, Return, Goto, PastCheck
  <2>4. \A x \in Sessions : pc'[x] = "setprop" => newFile' # Nil
    <3>1. ASSUME NEW x \in Sessions, pc'[x] = "setprop" PROVE x = s
      BY <2>3, <3>1 DEF PastCheck
    <3>2. CASE OpenNew(s)
      BY <3>1, <3>2 DEF OpenNew, Return, Goto
    <3>3. CASE WriteNew(s)
      BY <3>1, <3>3 DEF WriteNew, Return, Goto, Content
    <3>4. QED
      BY <1>3, <3>2, <3>3
  <2>5. devFile = persistFile
    BY <2>2 DEF Clean, StageInv
  <2>6. QED
    BY <1>3, <2>2, <2>3, <2>4, <2>5
       DEF OpenNew, WriteNew, Clean, LiveInv, StageInv, initVars
<1>4. CASE SetProp(s)
  <2>1. PastCheck = {s} /\ newFile # Nil
    BY <1>4 DEF SetProp, PastCheck, Clean, LiveInv
  <2>2. booted /\ booted' = booted /\ queue = << >> /\ copying = Nil /\ devFile = Nil
    BY <1>4, <2>1 DEF SetProp, Clean, LiveInv
  <2>3. PastCheck' = {} /\ \A x \in Sessions : pc'[x] # "setprop"
    BY <1>4, <2>1 DEF SetProp, Return, Goto, PastCheck
  <2>4. devFile = persistFile
    BY <2>2 DEF Clean, StageInv
  <2>5. queue' = NewUserCommands \/ queue' = << >>
    BY <1>4, <2>2 DEF SetProp
  <2>6. QED
    BY <1>4, <2>1, <2>2, <2>3, <2>4, <2>5
       DEF SetProp, Clean, LiveInv, StageInv, files
<1>5. QED
  BY <1>1, <1>2, <1>3, <1>4 DEF Step

LEMMA CleanNext == ASSUME IInv, [Next]_vars, faults' = {} PROVE Clean'
<1>1. faults = {} \/ Reboot
  BY HistoryNext
<1>2. CASE Reboot
  BY <1>2, CleanReboot
<1>3. CASE faults = {}
  <2>1. Clean
    BY <1>3 DEF IInv
  <2>2. CASE UNCHANGED vars
    BY <2>1, <2>2, CleanKept DEF vars, files, initVars, PastCheck
  <2>3. CASE SetLockText
    BY <2>1, <2>3, CleanKept, SessionsKept DEF SetLockText
  <2>4. ASSUME NEW s \in Sessions, NEW d \in Content, Start(s, d) PROVE Clean'
    BY <2>1, <2>4, CleanKept DEF Start, Goto, PastCheck, IInv, TypeOK, Labels
  <2>5. ~CopyFails
    BY DEF CopyFails, Fault
  <2>6. QED
    BY <1>2, <2>1, <2>2, <2>3, <2>4, <2>5, CleanBegin, CleanEnd, CleanBoot,
       CleanStep DEF Next, InitStep
<1>4. QED
  BY <1>1, <1>2, <1>3

\* What is on the lock screen was in /dev, and stays on the persist partition.
LEMMA LockNext ==
    ASSUME IInv, [Next]_vars, ~spoilt', lockText' # Nil
    PROVE  persistFile' = lockText'
<1>1. ~spoilt /\ faults = {}
  BY HistoryNext DEF IInv
<1>2. CASE SetLockText
  <2>1. persistFile = devFile
    BY <1>1, <1>2, ContentAssumption DEF SetLockText, IInv, Clean, StageInv
  <2>2. QED
    BY <1>2, <2>1 DEF SetLockText, files
<1>3. CASE lockText' = lockText
  <2>1. persistFile = lockText /\ lockText \in Users
    BY <1>1, <1>3 DEF IInv, TypeOK
  <2>2. QED
    BY <1>1, <1>3, <2>1, PersistKept
<1>4. QED
  BY <1>2, <1>3 DEF Next, InitStep, Step, BootCompleted, BeginCopy, EndCopy,
     NothingToCopy, CopyFails, Reboot, Start, CheckUser, OpenNew, WriteNew,
     SetProp, SetnameDies, vars

LEMMA InvNext == IInv /\ [Next]_vars => IInv'
<1> SUFFICES ASSUME IInv, [Next]_vars PROVE IInv'
  OBVIOUS
<1>1. TypeOK' /\ (faults' = {} => Clean')
  BY TypeNext, CleanNext
<1>2. ~spoilt' => faults' = {} /\ (lockText' # Nil => persistFile' = lockText')
  BY HistoryNext, LockNext
<1>3. QED
  BY <1>1, <1>2 DEF IInv

\* For any number of handlers: unless setnames raced or a copy failed since the
\* boot, the user that the daemon works with is the one on the persist partition,
\* wherever the power goes in init's copies; and, if that never happened, so is
\* the user on the lock screen.
THEOREM Survives == Spec => []UserSurvives
<1>1. IInv => UserSurvives
  BY ContentAssumption DEF IInv, Clean, StageInv, UserSurvives
<1>2. QED
  BY <1>1, InvNext, InvInit, PTL DEF Spec

\* For any number of handlers: nothing but a setname that raced with another or
\* with the boot, or a copy of init that failed, ever lets a user on the persist
\* partition be replaced, after any number of reboots.
THEOREM Kept == Spec => ReplacedOnlyByRace
<1>1. IInv /\ [Next]_vars =>
         [(persistFile \in Users /\ persistFile' # persistFile) => (faults # {})]_vars
  BY PersistKept
<1>2. QED
  BY <1>1, InvNext, InvInit, PTL DEF Spec, ReplacedOnlyByRace

-----------------------------------------------------------------------------
(* ExecWrapper: the inductive invariant.                                   *)

WrapperTypeOK ==
    /\ wpc \in {"pipe", "fork", "close", "read", "wait", "done"}
    /\ wcpc \in {"none", "exec", "report", "_exit", "program", "ended"}
    /\ writers \subseteq {"parent", "child"}
    /\ n \in {"none", "errno", "eof", "fail"}
    /\ exec_errno = [parent |-> exec_errno.parent, child |-> exec_errno.child]
    /\ zombie \in BOOLEAN

\* The child exists from fork on, and holds the write end until it executes the
\* program or ends.
ChildInv ==
    /\ wpc \in {"pipe", "fork"} => wcpc = "none"
    /\ wpc \in {"close", "read", "wait"} => wcpc # "none"
    /\ wcpc \in {"exec", "report", "_exit"} => "child" \in writers

\* What the child has written is the errno of its execv, and by the time it
\* exits by itself it has written it.
PipeInv ==
    /\ wcpc \in {"none", "exec", "program"} => exec_errno.child = Nil
    /\ wcpc \in {"none", "exec", "report", "program"} => wpipe = Nil
    /\ wcpc = "_exit" => wpipe = exec_errno.child
    /\ wpipe # Nil => wpipe = exec_errno.child

\* How the child ended is known, and it stays a zombie until waitpid.
EndInv ==
    /\ wcpc = "ended" =>
          /\ status.by \in {"exit", "signal"} /\ status.code \in Nat
          /\ status.by = "exit" => wpipe = exec_errno.child
          /\ zombie = (wpc # "done")
    /\ zombie => wcpc = "ended"

\* The parent knows the errno, or nobody can write one any more.
ReadInv ==
    /\ wpc \in {"pipe", "fork", "close", "read"} => n = "none" /\ wret = Nil
    /\ wpc = "wait" => n # "none" /\ wret = Nil
    /\ n = "errno" => wpipe # Nil /\ exec_errno.parent = wpipe
    /\ n = "eof" => wpipe = Nil /\ "child" \notin writers

\* What execv_wrapper returned.
ReturnInv ==
    wpc = "done" =>
        \/ wcpc = "none" /\ wret = -1
        \/ wcpc = "ended" /\ n = "fail" /\ wret = -1
        \/ wcpc = "ended" /\ n = "errno" /\ wret = -1 /\ werrno = wpipe
        \/ wcpc = "ended" /\ n = "eof" /\ wret = Result(status)

WrapperInv ==
    WrapperTypeOK /\ ChildInv /\ PipeInv /\ EndInv /\ ReadInv /\ ReturnInv

LEMMA WrapperInvInit == WrapperInit => WrapperInv
<1> SUFFICES ASSUME WrapperInit PROVE WrapperInv
  OBVIOUS
<1>1. zombie \in BOOLEAN /\ ~zombie
  BY Zenon DEF WrapperInit
<1>2. QED
  BY <1>1 DEF WrapperInit, WrapperInv, WrapperTypeOK, ChildInv, PipeInv,
     EndInv, ReadInv, ReturnInv

LEMMA WrapperInvNext ==
    ASSUME WrapperInv, [WrapperNext]_wrapperVars
    PROVE  WrapperInv'
<1> USE DEF WrapperInv, WrapperTypeOK, ChildInv, PipeInv, EndInv, ReadInv,
            ReturnInv
<1>1. CASE Exec
  BY <1>1 DEF Exec, ExecCloses
<1>2. CASE Report
  BY <1>2 DEF Report
<1>3. CASE ExitChild
  <2>1. PICK s : /\ s.by \in {"exit", "signal"} /\ s.code \in Nat
                 /\ s.by = "exit" => wcpc \in {"_exit", "program"}
                 /\ Ends(s)
    <3>1. CASE wcpc = "_exit" /\ Ends([by |-> "exit", code |-> 127])
      BY <3>1
    <3>2. ASSUME NEW x \in Statuses, wcpc = "program",
                 Ends([by |-> "exit", code |-> x])
          PROVE  \E s : /\ s.by \in {"exit", "signal"} /\ s.code \in Nat
                        /\ s.by = "exit" => wcpc \in {"_exit", "program"}
                        /\ Ends(s)
      BY <3>2, NumbersAssumption
    <3>3. ASSUME NEW x \in Signals, Ends([by |-> "signal", code |-> x])
          PROVE  \E s : /\ s.by \in {"exit", "signal"} /\ s.code \in Nat
                        /\ s.by = "exit" => wcpc \in {"_exit", "program"}
                        /\ Ends(s)
      BY <3>3, NumbersAssumption
    <3>4. QED
      BY <1>3, <3>1, <3>2, <3>3 DEF ExitChild
  <2>2. wcpc \in {"exec", "report", "_exit", "program"}
    BY <1>3 DEF ExitChild
  <2>3. QED
    BY <1>3, <2>1, <2>2
       DEF ExitChild, Ends, SigchldDefault
<1>4. CASE MakePipe
  BY <1>4 DEF MakePipe, WrapperReturn, childVars
<1>5. CASE Fork
  BY <1>5 DEF Fork, WrapperReturn
<1>6. CASE CloseWriteEnd
  BY <1>6 DEF CloseWriteEnd, ClosesWriteEnd, childVars
<1>7. CASE ReadPipe
  BY <1>7 DEF ReadPipe
<1>8. CASE ReadFails
  BY <1>8 DEF ReadFails, childVars
<1>9. CASE Wait
  BY <1>9 DEF Wait, Reapable, WrapperReturn, childVars
<1>10. CASE UNCHANGED wrapperVars
  BY <1>10 DEF wrapperVars
<1>11. QED
  BY <1>1, <1>2, <1>3, <1>4, <1>5, <1>6, <1>7, <1>8, <1>9, <1>10
     DEF WrapperNext, WrapperParent, WrapperChild

LEMMA WrapperInductive == WrapperSpec => []WrapperInv
<1>1. WrapperInv /\ [WrapperNext]_wrapperVars => WrapperInv'
  BY WrapperInvNext
<1>2. QED
  BY <1>1, WrapperInvInit, PTL DEF WrapperSpec

-----------------------------------------------------------------------------
(* ExecWrapper: the properties.                                            *)

\* A result of execv_wrapper that is no error is how the program ended, for
\* every interleaving of parent and child and every kill: the end of the file
\* in the pipe is never taken for a success of execv that did not happen.
THEOREM ResultCorrect == WrapperSpec => []ResultIsPrograms
<1>1. WrapperInv => ResultIsPrograms
  BY DEF WrapperInv, WrapperTypeOK, PipeInv, EndInv, ReadInv, ReturnInv,
     ResultIsPrograms
<1>2. QED
  BY <1>1, WrapperInductive, PTL

\* A failed execv is reported with its errno if the child lived to write it,
\* and nothing else is taken for one, unless read failed.
THEOREM ErrorReported == WrapperSpec => []ExecErrorReported
<1>1. WrapperInv => ExecErrorReported
  <2> SUFFICES ASSUME WrapperInv, wret # Nil, wcpc = "ended", n # "fail"
               PROVE  IF wpipe # Nil THEN wret = -1 /\ werrno = exec_errno.child
                                    ELSE wret # -1
    BY DEF ExecErrorReported
  <2>1. Result(status) # -1
    BY DEF WrapperInv, EndInv, Result
  <2>2. QED
    BY <2>1 DEF WrapperInv, WrapperTypeOK, PipeInv, ReadInv, ReturnInv
<1>2. QED
  BY <1>1, WrapperInductive, PTL

\* execv_wrapper never returns with its child unreaped.
THEOREM ChildReaped == WrapperSpec => []NoZombie
<1>1. WrapperInv => NoZombie
  BY DEF WrapperInv, WrapperTypeOK, EndInv, ReturnInv, NoZombie
<1>2. QED
  BY <1>1, WrapperInductive, PTL

-----------------------------------------------------------------------------
(* MountCopy: the inductive invariant.                                     *)

\* The labels of child_main before its label out.
Working == {"private", "mount", "measure", "copy", "sync"}

CopyTypeOK ==
    /\ src \in (SUBSET Files) \cup {Nil}
    /\ mpc \in {"find", "try", "wait", "done"}
    /\ dev \in 1..Len(Devices)
    /\ cpc \in Working \cup {"none", "out", "send", "exited", "killed"}
    /\ rc \in {0, -1}
    /\ copied \in [1..Len(Devices) -> SUBSET Files]
    /\ left \subseteq Files /\ kept \subseteq Files

\* The parent goes on only after its child, and with the child goes the mount.
MountInv ==
    /\ mpc # "wait" => cpc \in {"none", "exited", "killed"}
    /\ mounted => cpc \in {"measure", "copy", "sync", "out", "send"}

\* What the child has to say of its work, once it has some.
StatusInv ==
    /\ cpc \in Working => rc = -1
    /\ cpc \in {"out", "send"} /\ rc = -1 =>
          saved = cause /\ cause \in Errors
    /\ mpc = "wait" /\ cpc = "exited" =>
          /\ pipe \in Status
          /\ pipe.rc = rc
          /\ rc = -1 => pipe.err = cause /\ cause \in Errors
    /\ mpc = "wait" /\ cpc # "exited" => pipe = Nil

\* Every file that was there all the time is copied or still to be visited,
\* and with rc = 0 none is to be visited.
CopyInv ==
    /\ cpc = "copy" => kept \subseteq left \cup copied[dev]
    /\ cpc = "sync" => kept \subseteq copied[dev]
    /\ mpc = "wait" /\ cpc \notin Working /\ rc = 0 =>
          kept \subseteq copied[dev]
    /\ mret = "0" => mpc = "done" /\ kept \subseteq copied[dev]

CopyIInv ==
    CopyTypeOK /\ MountInv /\ StatusInv /\ CopyInv /\ ErrnoIsTheCause

LEMMA CopyInvInit == ASSUME CopyInit PROVE CopyIInv
<1> USE DevicesAssumption, NilAssumption
<1>1. ~mounted
  BY Zenon DEF CopyInit
<1>2. mret # "0"
  BY DEF CopyInit
<1>3. QED
  BY <1>1, <1>2 DEF CopyInit, CopyIInv, CopyTypeOK, MountInv, StatusInv,
     CopyInv,
     ErrnoIsTheCause, Working

LEMMA CopyInvNext ==
    ASSUME CopyIInv, [CopyNext]_copyVars
    PROVE  CopyIInv'
<1> USE DevicesAssumption, NilAssumption
        DEF CopyIInv, CopyTypeOK, MountInv, StatusInv, CopyInv, Working,
            ErrnoIsTheCause, userVars, parentVars,
            statusVars, treeVars
<1>1. CASE Change
  BY <1>1 DEF Change
<1>2. CASE Hangup
  BY <1>2 DEF Hangup
<1>3. CASE MountPrivate
  BY <1>3 DEF MountPrivate, Fail, Errors
<1>4. CASE Mount
  BY <1>4 DEF Mount, Fail, Errors
<1>5. CASE Measure
  BY <1>5 DEF Measure, Fail, Printed, Errors
<1>6. ASSUME NEW f \in left, CopyFile(f) PROVE CopyIInv'
  BY <1>6 DEF CopyFile, Fail, Errors
<1>7. CASE Copied
  BY <1>7 DEF Copied, Printed
<1>8. CASE Sync
  BY <1>8 DEF Sync
<1>9. CASE Umount
  BY <1>9 DEF Umount, UmountFailed, Errors
<1>10. CASE SendStatus
  BY <1>10 DEF SendStatus, Status
<1>11. CASE Killed
  BY <1>11 DEF Killed
<1>12. CASE FindDrive
  BY <1>12 DEF FindDrive
<1>13. CASE Clone
  BY <1>13 DEF Clone, TryFails
<1>14. CASE WaitChild
  <2> USE <1>14 DEF WaitChild, Reaped
  <2>1. CASE pipe # Nil /\ pipe.rc = 0 /\ cpc = "exited"
    BY <2>1 DEF TryFails, Status
  <2>2. CASE pipe # Nil /\ (pipe.rc # 0 \/ cpc # "exited")
    <3>1. cpc = "exited" /\ rc = -1 /\ pipe.err = cause /\ cause \in Errors
      BY <2>2 DEF Status
    <3>2. TryFails(cause)
      BY <2>2, <3>1
    <3>3. cause # "0"
      BY <3>1 DEF Errors
    <3>4. QED
      BY <3>1, <3>2, <3>3 DEF TryFails
  <2>3. CASE pipe = Nil
    <3>1. cpc = "killed"
      BY <2>3
    <3>2. TryFails("ECHILD")
      BY <2>3, <3>1
    <3>3. QED
      BY <3>1, <3>2 DEF TryFails
  <2>4. QED
    BY <2>1, <2>2, <2>3
<1>15. CASE UNCHANGED copyVars
  BY <1>15 DEF copyVars
<1>16. QED
  BY <1>1, <1>2, <1>3, <1>4, <1>5, <1>6, <1>7, <1>8, <1>9, <1>10, <1>11, <1>12,
     <1>13, <1>14, <1>15 DEF CopyNext, Child, Parent

LEMMA CopyInductive == CopySpec => []CopyIInv
<1>1. CopyInit => CopyIInv
  BY CopyInvInit
<1>2. CopyIInv /\ [CopyNext]_copyVars => CopyIInv'
  BY CopyInvNext
<1>3. QED
  BY <1>1, <1>2, PTL DEF CopySpec

-----------------------------------------------------------------------------
(* MountCopy: the properties.                                              *)

\* The command returns 0 only with every file that stayed in its place copied
\* to one device, whatever the user deletes or creates meanwhile, the tries
\* before left behind, and the child met.
THEOREM CopyComplete == CopySpec => []DoneMeansCopied
<1>1. CopyIInv => DoneMeansCopied
  BY DEF CopyIInv, CopyInv, DoneMeansCopied
<1>2. QED
  BY <1>1, CopyInductive, PTL

\* The drive is released whenever the parent goes on, for a child that was
\* killed and for an umount2 that failed, as the mount ends with its namespace.
THEOREM DriveReleased == CopySpec => []ReleasedOnReturn
<1>1. CopyIInv => ReleasedOnReturn
  BY DEF CopyIInv, CopyTypeOK, MountInv, ReleasedOnReturn
<1>2. QED
  BY <1>1, CopyInductive, PTL

\* The errno of a failed try is the first error of its child, not one of
\* umount2 or of the sync after it.
THEOREM CauseReported == CopySpec => []ErrnoIsTheCause
<1>1. CopyIInv => ErrnoIsTheCause
  BY DEF CopyIInv
<1>2. QED
  BY <1>1, CopyInductive, PTL

-----------------------------------------------------------------------------
(* CallerSession: how the bytes on their way to the client are cut into    *)
(* strings, whatever part of them is still in the handler, in the socket   *)
(* or in the client.  First the concatenation of a sequence of sequences.  *)

LEMMA HasLeast ==
    ASSUME NEW S, S \subseteq Nat, S # {}
    PROVE  \E x \in S : \A y \in S : x <= y
<1> DEFINE R == {ss \in Nat \X Nat : ss[1] < ss[2]}
<1>1. R = OpToRel(<, Nat)
  BY DEF OpToRel
<1>2. IsWellFoundedOn(R, Nat)
  BY <1>1, NatLessThanWellFounded
<1>3. PICK x \in S : \A y \in S : ~(<<y, x>> \in R)
  BY <1>2, WFMin
<1>4. ASSUME NEW y \in S PROVE x <= y
  <2>1. y \in Nat /\ x \in Nat
    OBVIOUS
  <2>2. ~(y < x)
    BY <1>3, <2>1
  <2>3. QED
    BY <2>1, <2>2
<1>5. QED
  BY <1>4

\* f[i] is what the first i sequences of seqs make, for i up to k.
Joins(f, seqs, k, S) ==
    /\ f \in [1..k -> Seq(S)]
    /\ f[1] = seqs[1]
    /\ \A i \in 2..k : f[i] = f[i - 1] \o seqs[i]

LEMMA JoinsOne ==
    ASSUME NEW S, NEW seqs \in Seq(Seq(S)), seqs # << >>
    PROVE  \E f : Joins(f, seqs, 1, S)
<1> DEFINE f == [i \in 1..1 |-> seqs[1]]
<1>1. seqs[1] \in Seq(S)
  OBVIOUS
<1>2. Joins(f, seqs, 1, S)
  BY <1>1 DEF Joins
<1>3. QED
  BY <1>2

LEMMA JoinsNext ==
    ASSUME NEW S, NEW seqs \in Seq(Seq(S)), NEW k \in Nat, k >= 2,
           k <= Len(seqs),
           NEW f, Joins(f, seqs, k - 1, S)
    PROVE  \E g : Joins(g, seqs, k, S)
<1> DEFINE g == [i \in 1..k |-> IF i < k THEN f[i] ELSE f[k - 1] \o seqs[k]]
<1>1. k - 1 \in 1..(k - 1) /\ 1 \in 1..(k - 1) /\ seqs[k] \in Seq(S)
  OBVIOUS
<1>2. f \in [1..(k - 1) -> Seq(S)] /\ f[1] = seqs[1]
  BY Zenon DEF Joins
<1>3. f[k - 1] \in Seq(S)
  BY <1>1, <1>2
<1>4. f[k - 1] \o seqs[k] \in Seq(S)
  BY <1>1, <1>3, ConcatProperties
<1>5. g \in [1..k -> Seq(S)] /\ g[1] = seqs[1]
  BY <1>2, <1>4
<1>6. ASSUME NEW i \in 2..k PROVE g[i] = g[i - 1] \o seqs[i]
  <2>1. g[i - 1] = f[i - 1]
    BY <1>1
  <2>2. CASE i = k
    <3>1. g[i] = f[k - 1] \o seqs[k]
      <4>1. i \in 1..k /\ ~(i < k)
        BY <2>2
      <4>2. QED
        BY <4>1, Zenon
    <3> HIDE DEF g
    <3>2. QED
      BY <2>1, <2>2, <3>1, Zenon
  <2>3. CASE i # k
    <3>1. i \in 2..(k - 1) /\ g[i] = f[i]
      BY <2>3
    <3> HIDE DEF g
    <3>2. QED
      BY <2>1, <3>1, Zenon DEF Joins
  <2>4. QED
    BY <2>2, <2>3
<1> HIDE DEF g
<1>7. Joins(g, seqs, k, S)
  BY <1>5, <1>6 DEF Joins
<1>8. QED
  BY <1>7

LEMMA JoinsAll ==
    ASSUME NEW S, NEW seqs \in Seq(Seq(S)), seqs # << >>
    PROVE  \E f : Joins(f, seqs, Len(seqs), S)
<1> DEFINE Bad == {k \in 1..Len(seqs) : ~\E f : Joins(f, seqs, k, S)}
<1>1. Len(seqs) \in Nat /\ Len(seqs) >= 1
  OBVIOUS
<1>2. SUFFICES ASSUME Bad # {} PROVE FALSE
  BY <1>1
<1>3. Bad \subseteq Nat
  BY <1>1
<1>4. PICK k \in Bad : \A j \in Bad : k <= j
  BY <1>2, <1>3, HasLeast
<1>5. k \in Nat /\ k >= 1 /\ k <= Len(seqs) /\ ~\E f : Joins(f, seqs, k, S)
  BY <1>1
<1>6. k # 1
  BY <1>5, JoinsOne
<1>7. k - 1 \in 1..Len(seqs) /\ ~(k <= k - 1) /\ k >= 2
  BY <1>1, <1>5, <1>6
<1>8. k - 1 \notin Bad
  <2> HIDE DEF Bad
  <2>1. QED
    BY <1>4, <1>7, Zenon
<1>9. PICK f : Joins(f, seqs, k - 1, S)
  BY <1>7, <1>8, Zenon
<1>10. QED
  BY <1>5, <1>7, <1>9, JoinsNext

LEMMA Flattened ==
    ASSUME NEW S, NEW seqs \in Seq(Seq(S)), seqs # << >>
    PROVE  \E f : Joins(f, seqs, Len(seqs), S)
           /\ FlattenSeq(seqs) = f[Len(seqs)]
<1> DEFINE len == Len(seqs)
           flatten[i \in 1..Len(seqs)] ==
               IF i = 1 THEN seqs[i] ELSE flatten[i - 1] \o seqs[i]
<1>1. len \in Nat /\ len >= 1 /\ Len(seqs) # 0
  OBVIOUS
<1>2. FlattenSeq(seqs) = flatten[len]
  BY <1>1, Zenon DEF FlattenSeq
<1>3. PICK f : Joins(f, seqs, len, S)
  BY JoinsAll
<1>4. f = [i \in 1..len |-> IF i = 1 THEN seqs[i] ELSE f[i - 1] \o seqs[i]]
  <2>1. \A i \in 1..len : f[i] = IF i = 1 THEN seqs[i] ELSE f[i - 1] \o seqs[i]
    <3> TAKE i \in 1..len
    <3>1. i = 1 \/ (i # 1 /\ i \in 2..len)
      BY <1>1
    <3>2. QED
      BY <1>3, <3>1, Zenon DEF Joins
  <2>2. f = [i \in 1..len |-> f[i]]
    BY <1>3, Zenon DEF Joins
  <2>3. QED
    BY <2>1, <2>2, Zenon
<1>5. flatten = [i \in 1..len |-> IF i = 1 THEN seqs[i] ELSE flatten[i - 1] \o seqs[i]]
  BY <1>4, Zenon
<1> HIDE DEF flatten
<1>6. \A i \in 1..len : flatten[i] = IF i = 1 THEN seqs[i] ELSE flatten[i - 1] \o seqs[i]
  BY <1>5, Zenon
<1> DEFINE Bad == {i \in 1..len : flatten[i] # f[i]}
<1>7. Bad = {}
  <2>1. SUFFICES ASSUME Bad # {} PROVE FALSE
    OBVIOUS
  <2>2. Bad \subseteq Nat
    BY <1>1
  <2>3. PICK k \in Bad : \A j \in Bad : k <= j
    BY <2>1, <2>2, HasLeast
  <2>4. k \in 1..len /\ flatten[k] # f[k]
    OBVIOUS
  <2>5. k # 1
    BY <1>1, <1>6, <2>4, <1>3 DEF Joins
  <2>6. k \in 2..len /\ k - 1 \in 1..len /\ k - 1 \notin Bad
    BY <1>1, <2>3, <2>4, <2>5
  <2>7. flatten[k - 1] = f[k - 1]
    BY <2>6
  <2>8. f[k] = f[k - 1] \o seqs[k]
    BY <1>3, <2>6, Zenon DEF Joins
  <2>9. QED
    BY <1>6, <2>4, <2>5, <2>7, <2>8, Zenon
<1>8. flatten[len] = f[len]
  BY <1>1, <1>7
<1>9. QED
  BY <1>2, <1>3, <1>8

-----------------------------------------------------------------------------
(* Bytes that are well cut.                                                *)

\* The unsigned short at i, in network byte order.
WordAt(s, i) == 256 * s[i] + s[i + 1]

\* Strings of s begin at the places in C, and at the one after each of them,
\* up to an empty one: the return code r follows that.  A string may go on
\* after the end of s, but an empty one is there with its code.
Cuts(C, s, r) ==
    /\ C \subseteq Nat \ {0}
    /\ \A c \in C : c + 1 <= Len(s) =>
         IF WordAt(s, c) = 0
         THEN c + 3 <= Len(s) /\ s[c + 2] = Ushort(r)[1]
              /\ s[c + 3] = Ushort(r)[2]
         ELSE c + 2 + WordAt(s, c) \in C

\* A reader of s that expects a string at k can only come to the code r.
WellFrom(s, k, r) == \E C : k \in C /\ Cuts(C, s, r)

Bytes == Seq(Nat)

LEMMA UshortType ==
    ASSUME NEW len \in Int
    PROVE  /\ Ushort(len) \in Bytes /\ Len(Ushort(len)) = 2
           /\ Ushort(len)[2] = len % 256
<1>1. len % 65536 \in Nat /\ len % 256 \in Nat /\ (len % 65536) \div 256 \in Nat
  OBVIOUS
<1>2. QED
  BY <1>1 DEF Ushort, Bytes

LEMMA WordOf ==
    ASSUME NEW len \in Lengths
    PROVE  WordAt(Ushort(len), 1) = len /\ len \in Nat /\ len \in Int /\ len # 0
<1>1. len \in Nat /\ len # 0 /\ len < 65536
  BY DEF Lengths
<1>2. 256 * ((len % 65536) \div 256) + (len % 256) = len
  BY <1>1
<1>3. Ushort(len)[1] = (len % 65536) \div 256 /\ Ushort(len)[2] = len % 256
      /\ 1 + 1 = 2
  BY DEF Ushort
<1>4. WordAt(Ushort(len), 1) = len
  BY <1>2, <1>3 DEF WordAt
<1>5. QED
  BY <1>1, <1>4

\* One string on.
LEMMA Follow ==
    ASSUME NEW s \in Bytes, NEW k, NEW r, WellFrom(s, k, r)
    PROVE  /\ k \in Nat \ {0}
           /\ k + 1 <= Len(s) =>
                IF WordAt(s, k) = 0
                THEN k + 3 <= Len(s) /\ s[k + 2] = Ushort(r)[1]
                     /\ s[k + 3] = Ushort(r)[2]
                ELSE WellFrom(s, k + 2 + WordAt(s, k), r)
  BY DEF WellFrom, Cuts

LEMMA Together ==
    ASSUME NEW p \in Bytes, NEW s \in Bytes
    PROVE  p \o s \in Bytes /\ Len(p \o s) = Len(p) + Len(s)
  BY DEF Bytes

LEMMA InFront ==
    ASSUME NEW p \in Bytes, NEW s \in Bytes, NEW i \in 1..Len(p)
    PROVE  (p \o s)[i] = p[i]
  BY DEF Bytes

LEMMA Behind ==
    ASSUME NEW p \in Bytes, NEW s \in Bytes, NEW i \in 1..Len(s)
    PROVE  (p \o s)[i + Len(p)] = s[i]
  BY DEF Bytes

LEMMA WordBehind ==
    ASSUME NEW p \in Bytes, NEW s \in Bytes, NEW c \in Nat \ {0},
           c + 1 <= Len(s)
    PROVE  WordAt(p \o s, c + Len(p)) = WordAt(s, c) /\ WordAt(s, c) \in Nat
<1>1. Len(p) \in Nat /\ Len(s) \in Nat
  BY DEF Bytes
<1>2. /\ c \in 1..Len(s) /\ c + 1 \in 1..Len(s)
      /\ (c + Len(p)) + 1 = (c + 1) + Len(p)
  BY <1>1
<1>3. (p \o s)[c + Len(p)] = s[c]
  BY <1>2, Behind
<1>4. (p \o s)[(c + Len(p)) + 1] = s[c + 1]
  <2>1. (p \o s)[(c + 1) + Len(p)] = s[c + 1]
    BY <1>2, Behind
  <2>2. QED
    BY <2>1, <1>2, Zenon
<1>5. s[c] \in Nat /\ s[c + 1] \in Nat
  BY <1>2 DEF Bytes
<1>6. WordAt(s, c) \in Nat
  BY <1>5 DEF WordAt
<1>7. QED
  BY <1>3, <1>4, <1>6, Zenon DEF WordAt

\* Bytes in front of s move its cuts.
LEMMA WellShift ==
    ASSUME NEW p \in Bytes, NEW s \in Bytes, NEW k, NEW r, WellFrom(s, k, r)
    PROVE  WellFrom(p \o s, k + Len(p), r)
<1>1. PICK C : k \in C /\ Cuts(C, s, r)
  BY DEF WellFrom
<1> DEFINE len == Len(p)
           D == {c + len : c \in C}
<1>2. len \in Nat /\ C \subseteq Nat \ {0} /\ Len(s) \in Nat
  BY <1>1 DEF Cuts, Bytes
<1>3. Len(p \o s) = len + Len(s)
      /\ \A i \in 1..Len(s) : (p \o s)[i + len] = s[i]
  BY DEF Bytes
<1>4. D \subseteq Nat \ {0}
  BY <1>2
<1>5. ASSUME NEW c \in C, (c + len) + 1 <= Len(p \o s)
      PROVE  IF WordAt(p \o s, c + len) = 0
             THEN /\ (c + len) + 3 <= Len(p \o s)
                  /\ (p \o s)[(c + len) + 2] = Ushort(r)[1]
                  /\ (p \o s)[(c + len) + 3] = Ushort(r)[2]
             ELSE (c + len) + 2 + WordAt(p \o s, c + len) \in D
  <2>1. c \in Nat \ {0} /\ c + 1 <= Len(s) /\ c \in 1..Len(s)
        /\ c + 1 \in 1..Len(s)
    BY <1>2, <1>3, <1>5
  <2> HIDE DEF D
  <2>2. WordAt(p \o s, c + len) = WordAt(s, c) /\ WordAt(s, c) \in Nat
    BY <1>5, <2>1, WordBehind, Zenon
  <2>3. CASE WordAt(s, c) = 0
    <3>1. c + 3 <= Len(s) /\ s[c + 2] = Ushort(r)[1] /\ s[c + 3] = Ushort(r)[2]
      BY <1>1, <2>1, <2>3, Zenon DEF Cuts
    <3>2. /\ c + 2 \in 1..Len(s) /\ c + 3 \in 1..Len(s)
          /\ (c + len) + 2 = (c + 2) + len /\ (c + len) + 3 = (c + 3) + len
          /\ (c + len) + 3 <= Len(p \o s)
      BY <1>2, <1>3, <2>1, <3>1
    <3>3. QED
      BY <1>3, <2>2, <2>3, <3>1, <3>2, Zenon
  <2>4. CASE WordAt(s, c) # 0
    <3>1. c + 2 + WordAt(s, c) \in C
      BY <1>1, <2>1, <2>4, Zenon DEF Cuts
    <3>3. (c + len) + 2 + WordAt(s, c) = (c + 2 + WordAt(s, c)) + len
      BY <1>2, <2>1, <2>2
    <3>4. QED
      BY <2>2, <2>4, <3>1, <3>3, Zenon DEF D
  <2>5. QED
    BY <2>3, <2>4
<1>6. Cuts(D, p \o s, r)
  BY <1>4, <1>5, Zenon DEF Cuts
<1>7. k + len \in D
  BY <1>1
<1>8. QED
  BY <1>6, <1>7, Zenon DEF WellFrom

\* So does dropping bytes in front of it.
LEMMA WellDrop ==
    ASSUME NEW p \in Bytes, NEW s \in Bytes, NEW k, NEW r, k > Len(p),
           WellFrom(p \o s, k, r)
    PROVE  WellFrom(s, k - Len(p), r)
<1>1. PICK C : k \in C /\ Cuts(C, p \o s, r)
  BY DEF WellFrom
<1> DEFINE len == Len(p)
           D == {c \in Nat \ {0} : c + len \in C}
<1>2. len \in Nat /\ C \subseteq Nat \ {0} /\ Len(s) \in Nat
  BY <1>1 DEF Cuts, Bytes
<1>3. Len(p \o s) = len + Len(s)
      /\ \A i \in 1..Len(s) : (p \o s)[i + len] = s[i]
  BY DEF Bytes
<1>5. ASSUME NEW c \in D, c + 1 <= Len(s)
      PROVE  IF WordAt(s, c) = 0
             THEN /\ c + 3 <= Len(s)
                  /\ s[c + 2] = Ushort(r)[1]
                  /\ s[c + 3] = Ushort(r)[2]
             ELSE c + 2 + WordAt(s, c) \in D
  <2>1. /\ c \in Nat \ {0} /\ c + len \in C /\ c \in 1..Len(s)
           /\ c + 1 \in 1..Len(s)
        /\ (c + len) + 1 <= Len(p \o s)
    BY <1>2, <1>3, <1>5
  <2> HIDE DEF D
  <2>2. WordAt(p \o s, c + len) = WordAt(s, c) /\ WordAt(s, c) \in Nat
    BY <1>5, <2>1, WordBehind, Zenon
  <2>3. CASE WordAt(s, c) = 0
    <3>1. /\ (c + len) + 3 <= Len(p \o s)
          /\ (p \o s)[(c + len) + 2] = Ushort(r)[1]
          /\ (p \o s)[(c + len) + 3] = Ushort(r)[2]
      BY <1>1, <2>1, <2>2, <2>3, Zenon DEF Cuts
    <3>2. /\ c + 2 \in 1..Len(s) /\ c + 3 \in 1..Len(s) /\ c + 3 <= Len(s)
          /\ (c + len) + 2 = (c + 2) + len /\ (c + len) + 3 = (c + 3) + len
      <4>1. (c + len) + 3 <= len + Len(s)
        BY <1>3, <3>1, Zenon
      <4>2. QED
        BY <1>2, <2>1, <4>1
    <3>3. QED
      BY <1>3, <2>3, <3>1, <3>2, Zenon
  <2>4. CASE WordAt(s, c) # 0
    <3>1. (c + len) + 2 + WordAt(s, c) \in C
      BY <1>1, <2>1, <2>2, <2>4, Zenon DEF Cuts
    <3>3. (c + len) + 2 + WordAt(s, c) = (c + 2 + WordAt(s, c)) + len
          /\ c + 2 + WordAt(s, c) \in Nat \ {0}
      BY <1>2, <2>1, <2>2
    <3>4. QED
      BY <2>4, <3>1, <3>3, Zenon DEF D
  <2>5. QED
    BY <2>3, <2>4
<1>6. Cuts(D, s, r)
  <2>1. D \subseteq Nat \ {0}
    OBVIOUS
  <2>2. QED
    BY <2>1, <1>5, Zenon DEF Cuts
<1>7. k - len \in D
  <2>1. k - len \in Nat \ {0} /\ (k - len) + len = k
    BY <1>1, <1>2
  <2>2. QED
    BY <1>1, <2>1, Zenon
<1>8. QED
  BY <1>6, <1>7, Zenon DEF WellFrom

\* A length without its string, as the handler's E2BIG is read.
LEMMA WellLength ==
    ASSUME NEW len \in Lengths, NEW r
    PROVE  WellFrom(Ushort(len), 1, r)
<1>1. len \in Nat /\ len \in Int /\ len # 0 /\ WordAt(Ushort(len), 1) = len
  BY WordOf, Zenon
<1>2. Len(Ushort(len)) = 2
  BY <1>1, UshortType, Zenon
<1>3. Cuts({1, 3 + len}, Ushort(len), r)
  <2>1. {1, 3 + len} \subseteq Nat \ {0}
    BY <1>1
  <2>2. 1 + 2 + len = 3 + len /\ ~((3 + len) + 1 <= 2)
    BY <1>1
  <2>3. QED
    BY <1>1, <1>2, <2>1, <2>2, Zenon DEF Cuts
<1>4. QED
  BY <1>3, Zenon DEF WellFrom

\* A string in front of well cut bytes.
LEMMA WellMessage ==
    ASSUME NEW len \in Lengths, NEW s \in Bytes, NEW r, WellFrom(s, 1, r)
    PROVE  String(len) \in Bytes /\ WellFrom(String(len) \o s, 1, r)
<1> DEFINE t == String(len) \o s
           u == Ushort(len)
           letters == [i \in 1..len |-> 120]
<1>1. len \in Nat /\ len \in Int /\ len # 0 /\ WordAt(u, 1) = len
  BY WordOf, Zenon
<1>2. letters \in Bytes /\ Len(letters) = len
  BY <1>1 DEF Bytes
<1>3. u \in Bytes /\ Len(u) = 2
  BY <1>1, UshortType, Zenon
<1>4. String(len) = u \o letters
  BY Zenon DEF String
<1> HIDE DEF letters, u
<1>5. /\ u \o letters \in Bytes /\ Len(u \o letters) = 2 + len
      /\ (u \o letters)[1] = u[1] /\ (u \o letters)[2] = u[2]
  <2>1. 1 \in 1..Len(u) /\ 2 \in 1..Len(u)
    BY <1>3
  <2>2. QED
    BY <1>2, <1>3, <2>1, Together, InFront, Zenon
<1>6. /\ String(len) \in Bytes /\ Len(String(len)) = 2 + len
      /\ String(len)[1] = u[1] /\ String(len)[2] = u[2]
  BY <1>4, <1>5, Zenon
<1>7. t \in Bytes /\ Len(t) = 2 + len + Len(s) /\ t[1] = u[1] /\ t[2] = u[2]
  <2>1. 1 \in 1..Len(String(len)) /\ 2 \in 1..Len(String(len))
    BY <1>1, <1>6
  <2>2. QED
    BY <1>6, <2>1, Together, InFront, Zenon
<1>8. WordAt(t, 1) = len
  <2>1. 1 + 1 = 2
    OBVIOUS
  <2>2. QED
    BY <1>1, <1>7, <2>1, Zenon DEF WordAt
<1>9. WellFrom(t, 3 + len, r)
  <2>1. WellFrom(t, 1 + Len(String(len)), r)
    BY <1>6, WellShift, Zenon
  <2>2. 1 + Len(String(len)) = 3 + len
    BY <1>1, <1>6
  <2>3. QED
    BY <2>1, <2>2, Zenon
<1> HIDE DEF t
<1>10. PICK C : 3 + len \in C /\ Cuts(C, t, r)
  BY <1>9, Zenon DEF WellFrom
<1>11. Cuts(C \cup {1}, t, r)
  <2>1. C \cup {1} \subseteq Nat \ {0}
    BY <1>10 DEF Cuts
  <2>2. 1 + 2 + len = 3 + len
    BY <1>1
  <2>3. QED
    BY <1>1, <1>8, <1>10, <2>1, <2>2, Zenon DEF Cuts
<1>12. QED
  BY <1>6, <1>11, Zenon DEF WellFrom, t

\* The empty string and the return code, whatever follows.
LEMMA WellEnding ==
    ASSUME NEW r \in Int, NEW x \in Bytes
    PROVE  String(0) \o Ushort(r) \o x \in Bytes
           /\ WellFrom(String(0) \o Ushort(r) \o x, 1, r)
<1> DEFINE u == Ushort(r)
           t == String(0) \o u \o x
<1>1. u \in Bytes /\ Len(u) = 2
  BY UshortType, Zenon
<1>2. String(0) \in Bytes /\ Len(String(0)) = 2 /\ String(0)[1] = 0
      /\ String(0)[2] = 0
  <2>1. Ushort(0) = <<0, 0>>
    BY DEF Ushort
  <2>2. [i \in 1..0 |-> 120] = << >>
    OBVIOUS
  <2>3. String(0) = <<0, 0>> \o << >>
    BY <2>1, <2>2, Zenon DEF String
  <2>4. <<0, 0>> \o << >> = <<0, 0>>
    OBVIOUS
  <2>5. <<0, 0>> \in Bytes
    BY DEF Bytes
  <2>6. QED
    BY <2>3, <2>4, <2>5
<1> DEFINE z == String(0)
<1> HIDE DEF u, z
<1>3. /\ z \o u \o x \in Bytes /\ Len(z \o u \o x) >= 4
      /\ (z \o u \o x)[1] = 0 /\ (z \o u \o x)[2] = 0
      /\ (z \o u \o x)[3] = u[1] /\ (z \o u \o x)[4] = u[2]
  <2>1. z \in Bytes /\ Len(z) = 2 /\ z[1] = 0 /\ z[2] = 0
    BY <1>2, Zenon DEF z
  <2>2. z \o u \in Bytes /\ Len(z \o u) = 4
    <3>1. z \o u \in Bytes /\ Len(z \o u) = 2 + 2
      BY <1>1, <2>1, Together, Zenon
    <3>2. QED
      BY <3>1
  <2>3. /\ (z \o u)[1] = 0 /\ (z \o u)[2] = 0
        /\ (z \o u)[3] = u[1] /\ (z \o u)[4] = u[2]
    <3>1. /\ 1 \in 1..Len(z) /\ 2 \in 1..Len(z) /\ 1 \in 1..Len(u)
             /\ 2 \in 1..Len(u)
          /\ 1 + Len(z) = 3 /\ 2 + Len(z) = 4
      BY <1>1, <2>1
    <3>2. (z \o u)[1 + Len(z)] = u[1] /\ (z \o u)[2 + Len(z)] = u[2]
      BY <1>1, <2>1, <3>1, Behind, Zenon
    <3>3. QED
      BY <1>1, <2>1, <3>1, <3>2, InFront, Zenon
  <2>4. \A i \in 1..4 : (z \o u \o x)[i] = (z \o u)[i]
    BY <2>2, InFront, Zenon
  <2>5. 1 \in 1..4 /\ 2 \in 1..4 /\ 3 \in 1..4 /\ 4 \in 1..4
    OBVIOUS
  <2>6. z \o u \o x \in Bytes /\ Len(z \o u \o x) >= 4
    <3>1. Len(x) \in Nat
      BY DEF Bytes
    <3>2. z \o u \o x \in Bytes /\ Len(z \o u \o x) = 4 + Len(x)
      BY <2>2, Together, Zenon
    <3>3. QED
      BY <3>1, <3>2
  <2>7. QED
    BY <2>3, <2>4, <2>5, <2>6, Zenon
<1>4. t \in Bytes /\ Len(t) >= 4 /\ t[1] = 0 /\ t[2] = 0 /\ t[3] = u[1]
      /\ t[4] = u[2]
  BY <1>3, Zenon DEF z
<1> HIDE DEF t
<1>5. WordAt(t, 1) = 0 /\ 1 + 3 = 4 /\ 1 + 2 = 3 /\ 4 <= Len(t)
  BY <1>4 DEF WordAt
<1>6. Cuts({1}, t, r)
  <2>1. {1} \subseteq Nat \ {0}
    OBVIOUS
  <2>2. QED
    BY <1>4, <1>5, <2>1, Zenon DEF Cuts, u
<1>7. QED
  BY <1>4, <1>6, Zenon DEF WellFrom, t, u

LEMMA BytesAssociative ==
    \A a, b, c \in Bytes : (a \o b) \o c = a \o (b \o c)
  BY ConcatAssociative DEF Bytes

\* What do_command writes, in front of well cut bytes.
LEMMA WellMessages ==
    ASSUME NEW lens \in Seq(Lengths),
           NEW r, NEW t \in Bytes, WellFrom(t, 1, r)
    PROVE  Strings(lens) \o t \in Bytes /\ WellFrom(Strings(lens) \o t, 1, r)
<1> DEFINE seqs == [i \in 1..Len(lens) |-> String(lens[i])]
<1>1. Len(lens) \in Nat /\ \A i \in 1..Len(lens) : lens[i] \in Lengths
  OBVIOUS
<1>2. \A i \in 1..Len(lens) : lens[i] \in Lengths
  BY <1>1, Zenon
<1>3. \A i \in 1..Len(lens) : String(lens[i]) \in Bytes
  BY <1>2, WellMessage, Zenon
<1>4. seqs \in Seq(Bytes) /\ Len(seqs) = Len(lens)
  BY <1>1, <1>3
<1>5. Strings(lens) = FlattenSeq(seqs)
  BY Zenon DEF Strings
<1>6. CASE lens = << >>
  <2>1. Len(seqs) = 0 /\ seqs = << >>
    BY <1>4, <1>6
  <2>2. FlattenSeq(seqs) = << >>
    <3> HIDE DEF seqs
    <3>1. QED
      BY <2>1, Zenon DEF FlattenSeq
  <2>3. << >> \o t = t
    BY DEF Bytes
  <2>4. QED
    BY <1>5, <2>2, <2>3, Zenon
<1>7. CASE lens # << >>
  <2>1. Len(lens) >= 1 /\ seqs # << >>
    BY <1>1, <1>4, <1>7
  <2>2. PICK f : Joins(f, seqs, Len(lens), Nat)
             /\ FlattenSeq(seqs) = f[Len(lens)]
    <3> HIDE DEF seqs
    <3>1. QED
      BY <1>4, <2>1, Flattened DEF Bytes
  <2> DEFINE P(k) == \A x \in Bytes : WellFrom(x, 1, r) =>
                        f[k] \o x \in Bytes /\ WellFrom(f[k] \o x, 1, r)
             Bad == {k \in 1..Len(lens) : ~P(k)}
  <2>3. \A i \in 1..Len(lens) : seqs[i] = String(lens[i])
    OBVIOUS
  <2>4. f[1] = seqs[1] /\ \A i \in 2..Len(lens) : f[i] = f[i - 1] \o seqs[i]
    BY <2>2, Zenon DEF Joins
  <2>5. \A i \in 1..Len(lens) : f[i] \in Bytes
    BY <2>2, Zenon DEF Joins, Bytes
  <2> HIDE DEF seqs
  <2>6. \A i \in 1..Len(lens) : \A x \in Bytes : WellFrom(x, 1, r) =>
           seqs[i] \in Bytes /\ seqs[i] \o x \in Bytes
           /\ WellFrom(seqs[i] \o x, 1, r)
    BY <1>2, <2>3, WellMessage, Together, Zenon
  <2>7. 1 \in 1..Len(lens) /\ Len(lens) \in 1..Len(lens)
    BY <1>1, <2>1
  <2>8. P(1)
    BY <2>4, <2>6, <2>7, Zenon
  <2>9. ASSUME NEW k \in 2..Len(lens), P(k - 1) PROVE P(k)
    <3>1. k \in 1..Len(lens) /\ k - 1 \in 1..Len(lens)
      BY <1>1
    <3> SUFFICES ASSUME NEW x \in Bytes, WellFrom(x, 1, r)
                 PROVE  f[k] \o x \in Bytes /\ WellFrom(f[k] \o x, 1, r)
      BY Zenon
    <3>2. seqs[k] \in Bytes /\ seqs[k] \o x \in Bytes
          /\ WellFrom(seqs[k] \o x, 1, r)
      BY <2>6, <3>1, Zenon
    <3>3. f[k - 1] \o (seqs[k] \o x) \in Bytes
          /\ WellFrom(f[k - 1] \o (seqs[k] \o x), 1, r)
      BY <2>9, <3>2, Zenon
    <3>4. (f[k - 1] \o seqs[k]) \o x = f[k - 1] \o (seqs[k] \o x)
      <4>1. f[k - 1] \in Bytes
        BY <2>5, <3>1, Zenon
      <4>2. QED
        BY <3>2, <4>1, BytesAssociative, Zenon
    <3>5. QED
      BY <2>4, <3>3, <3>4, Zenon
  <2> HIDE DEF P
  <2>10. Bad = {}
    <3>1. SUFFICES ASSUME Bad # {} PROVE FALSE
      OBVIOUS
    <3>2. Bad \subseteq Nat
      BY <1>1
    <3>3. PICK k \in Bad : \A j \in Bad : k <= j
      BY <3>1, <3>2, HasLeast
    <3>4. k \in 1..Len(lens) /\ ~P(k)
      OBVIOUS
    <3>5. k # 1
      BY <2>8, <3>4, Zenon
    <3>6. k \in 2..Len(lens) /\ k - 1 \in 1..Len(lens) /\ ~(k <= k - 1)
      BY <1>1, <3>4, <3>5
    <3>7. k - 1 \notin Bad
      <4> HIDE DEF Bad
      <4>1. QED
        BY <3>3, <3>6, Zenon
    <3>8. P(k - 1)
      BY <3>6, <3>7, Zenon
    <3>9. QED
      BY <2>9, <3>4, <3>6, <3>8, Zenon
  <2>11. P(Len(lens))
    BY <2>7, <2>10, Zenon
  <2>12. QED
    BY <1>5, <2>2, <2>11, Zenon DEF P
<1>8. QED
  BY <1>6, <1>7

-----------------------------------------------------------------------------
(* The inductive invariant.                                                *)

\* What the client finds when it waits for the daemon's feedback: nothing
\* yet, EPROTO, or 0 and a well cut reply.
Answer(s, r) ==
    \/ s = << >> \/ s = Ushort(EPROTO)
    \/ Len(s) >= 2 /\ WordAt(s, 1) = 0 /\ WellFrom(s, 3, r)

\* The handler reads the caller's version, its arguments and its command.
Greeting(hd) == hd \in {"version string", "version"}
Taking(hd) == hd \in {"argc", "argument", "argument body", "command"}

\* The client at cl has g of w bytes, the handler is at hd and is to return r,
\* and s is all that it has written and the client has not taken yet.
ReplyOk(cl, hd, g, w, s, r) ==
    /\ Greeting(hd) =>
         s = << >> /\ cl \in {"hello", "feedback", "exited"}
    /\ Taking(hd) =>
         /\ cl \in {"hello", "feedback", "message", "overflow", "exited"}
         /\ cl \in {"hello", "feedback"} => s = Ushort(0)
         /\ cl = "message" => s = << >>
    /\ cl = "hello" => g = << >> /\ w = 0
    /\ cl \in {"feedback", "message", "return code"} => w = 2
    /\ cl \in {"hello", "feedback"} => Answer(s, r)
    /\ cl = "message" => WellFrom(s, 1, r)
    /\ cl = "body" => w \in Nat /\ WellFrom(s, w + 1, r)
    /\ cl = "return code" =>
         Len(s) >= 2 /\ s[1] = Ushort(r)[1] /\ s[2] = Ushort(r)[2]

\* Read, in the socket, still to be written.
Coming == got["client"] \o (buf["client"] \o pending["handler"])

ReplyTypes ==
    /\ DOMAIN stage = Procs /\ DOMAIN buf = Procs /\ DOMAIN pending = Procs
    /\ DOMAIN want = Procs /\ DOMAIN got = Procs
    /\ got["client"] \in Bytes /\ buf["client"] \in Bytes
    /\ pending["handler"] \in Bytes
    /\ hret \in Int

ReplyInv ==
    /\ ReplyTypes
    /\ ReplyOk(stage["client"], stage["handler"], got["client"],
               want["client"], Coming, hret)

\* A byte taken from the front of p and put at the end of b.
LEMMA PassOn ==
    ASSUME NEW b \in Bytes, NEW p \in Bytes, p # << >>
    PROVE  /\ Append(b, Head(p)) \in Bytes /\ Tail(p) \in Bytes
           /\ Append(b, Head(p)) \o Tail(p) = b \o p
<1>1. Head(p) \in Nat /\ Tail(p) \in Bytes
  BY DEF Bytes
<1>2. Append(b, Head(p)) \in Bytes /\ <<Head(p)>> \in Bytes
  BY <1>1 DEF Bytes
<1>3. Append(b, Head(p)) = b \o <<Head(p)>>
  BY <1>1 DEF Bytes
<1>4. <<Head(p)>> \o Tail(p) = p
  BY <1>1 DEF Bytes
<1>5. (b \o <<Head(p)>>) \o Tail(p) = b \o (<<Head(p)>> \o Tail(p))
  BY <1>1, <1>2, BytesAssociative, Zenon
<1>6. QED
  BY <1>1, <1>2, <1>3, <1>4, <1>5, Zenon

LEMMA ComingType ==
    ASSUME ReplyTypes
    PROVE  /\ Coming \in Bytes
           /\ buf["client"] \o pending["handler"] \in Bytes
           /\ Len(got["client"]) \in Nat
<1>1. /\ got["client"] \in Bytes /\ buf["client"] \in Bytes
      /\ pending["handler"] \in Bytes
  BY Zenon DEF ReplyTypes
<1>2. Len(got["client"]) \in Nat
  BY <1>1 DEF Bytes
<1>3. QED
  BY <1>1, <1>2, Together, Zenon DEF Coming

LEMMA CallInitReply == CallInit => ReplyInv
<1> SUFFICES ASSUME CallInit PROVE ReplyInv
  OBVIOUS
<1>1. /\ stage["client"] = "hello" /\ stage["handler"] = "version string"
      /\ got["client"] = << >> /\ want["client"] = 0
      /\ buf["client"] = << >> /\ pending["handler"] = << >>
  <2>1. stage["client"] = "hello" /\ stage["handler"] = "version string"
    BY DEF CallInit
  <2>2. want["client"] = 0
    BY DEF CallInit
  <2>3. QED
    BY <2>1, <2>2, Zenon DEF CallInit, Procs
<1>2. /\ DOMAIN stage = Procs /\ DOMAIN buf = Procs /\ DOMAIN pending = Procs
      /\ DOMAIN want = Procs /\ DOMAIN got = Procs
  BY DEF CallInit, Procs
<1>3. hret \in Int /\ << >> \in Bytes /\ << >> \o (<< >> \o << >>) = << >>
  <2>1. hret = -2
    BY DEF CallInit, Unset
  <2>2. << >> \in Bytes /\ << >> \o (<< >> \o << >>) = << >>
    BY DEF Bytes
  <2>3. QED
    BY <2>1, <2>2
<1>4. Coming = << >>
  BY <1>1, <1>3, Zenon DEF Coming
<1>5. ReplyTypes
  BY <1>1, <1>2, <1>3, Zenon DEF ReplyTypes
<1>6. QED
  BY <1>1, <1>4, <1>5, Zenon DEF ReplyInv, ReplyOk, Answer, Greeting, Taking

LEMMA ClientAwaits ==
    ASSUME ReplyTypes, NEW bytes, NEW len, NEW label,
           Await("client", bytes, len, label), hret' = hret
    PROVE  /\ ReplyTypes'
           /\ stage'["client"] = label /\ stage'["handler"] = stage["handler"]
           /\ got'["client"] = << >> /\ want'["client"] = len
           /\ Coming' = buf["client"] \o pending["handler"]
<1>1. /\ DOMAIN stage' = Procs /\ DOMAIN buf' = Procs /\ DOMAIN pending' = Procs
      /\ DOMAIN want' = Procs /\ DOMAIN got' = Procs
  BY Zenon DEF ReplyTypes, Await
<1>2. /\ stage'["client"] = label /\ stage'["handler"] = stage["handler"]
      /\ got'["client"] = << >> /\ want'["client"] = len
      /\ buf' = buf /\ pending'["handler"] = pending["handler"]
  BY DEF ReplyTypes, Await, Procs
<1>3. << >> \in Bytes
  BY DEF Bytes
<1>4. << >> \o (buf["client"] \o pending["handler"]) = buf["client"] \o pending["handler"]
  BY ComingType DEF Bytes
<1>5. Coming' = buf["client"] \o pending["handler"]
  BY <1>2, <1>4, Zenon DEF Coming
<1>6. QED
  BY <1>1, <1>2, <1>3, <1>5, Zenon DEF ReplyTypes

LEMMA HandlerAwaits ==
    ASSUME ReplyTypes, pending["handler"] = << >>,
           NEW bytes \in Bytes, NEW len, NEW label,
           Await("handler", bytes, len, label), hret' \in Int
    PROVE  /\ ReplyTypes'
           /\ stage'["client"] = stage["client"] /\ stage'["handler"] = label
           /\ got'["client"] = got["client"] /\ want'["client"] = want["client"]
           /\ Coming' = Coming \o bytes
<1>1. /\ DOMAIN stage' = Procs /\ DOMAIN buf' = Procs /\ DOMAIN pending' = Procs
      /\ DOMAIN want' = Procs /\ DOMAIN got' = Procs
  BY Zenon DEF ReplyTypes, Await
<1>2. /\ stage'["client"] = stage["client"] /\ stage'["handler"] = label
      /\ got'["client"] = got["client"] /\ want'["client"] = want["client"]
      /\ buf' = buf /\ pending'["handler"] = bytes
  BY DEF ReplyTypes, Await, Procs
<1>3. got["client"] \in Bytes /\ buf["client"] \in Bytes
  BY Zenon DEF ReplyTypes
<1>4. buf["client"] \o << >> = buf["client"]
  BY <1>3 DEF Bytes
<1>5. got["client"] \o (buf["client"] \o bytes) = (got["client"] \o buf["client"]) \o bytes
  BY <1>3, BytesAssociative, Zenon
<1>6. Coming' = Coming \o bytes
  BY <1>2, <1>4, <1>5, Zenon DEF Coming
<1>7. QED
  BY <1>1, <1>2, <1>3, <1>6, Zenon DEF ReplyTypes

-----------------------------------------------------------------------------
(* ReplyOk from one value to the next.                                     *)

\* The client exits; the handler leaves or dies.
LEMMA OkExits ==
    ASSUME NEW cl, NEW hd, NEW g, NEW w, NEW s, NEW r,
           ReplyOk(cl, hd, g, w, s, r)
    PROVE  /\ ReplyOk("exited", hd, g, w, s, r)
           /\ ReplyOk(cl, "exited", g, w, s, r)
  BY Zenon DEF ReplyOk, Greeting, Taking

\* The client has the feedback 0 and sends its arguments.
LEMMA OkFeedback ==
    ASSUME NEW hd, NEW s \in Bytes, NEW g \in Bytes, NEW r, NEW w,
           Len(g) = w, WordAt(g, 1) = 0,
           ReplyOk("feedback", hd, g, w, g \o s, r)
    PROVE  /\ ReplyOk("message", hd, << >>, 2, s, r)
           /\ ReplyOk("overflow", hd, << >>, 0, s, r)
<1> DEFINE t == g \o s
<1>1. Len(g) = 2 /\ Answer(t, r)
  BY Zenon DEF ReplyOk
<1>2. /\ t \in Bytes /\ Len(t) = 2 + Len(s) /\ t[1] = g[1] /\ t[2] = g[2]
      /\ Len(s) \in Nat
  <2>1. 1 \in 1..Len(g) /\ 2 \in 1..Len(g)
    BY <1>1
  <2>2. Len(s) \in Nat
    BY DEF Bytes
  <2>3. QED
    BY <1>1, <2>1, <2>2, Together, InFront, Zenon
<1> HIDE DEF t
<1>3. WordAt(t, 1) = 0
  <2>1. 1 + 1 = 2
    OBVIOUS
  <2>2. QED
    BY <1>2, <2>1, Zenon DEF WordAt
<1>4. t # << >>
  BY <1>2 DEF Bytes
<1>5. t # Ushort(EPROTO)
  <2>1. EPROTO \in Lengths
    BY DEF EPROTO, Lengths
  <2>2. QED
    BY <1>3, <2>1, WordOf, Zenon
<1>6. WellFrom(t, 3, r)
  BY <1>1, <1>4, <1>5, Zenon DEF Answer
<1>7. WellFrom(s, 1, r)
  <2>1. 3 > Len(g) /\ 3 - Len(g) = 1
    BY <1>1
  <2>2. WellFrom(s, 3 - Len(g), r)
    BY <1>6, <2>1, WellDrop, Zenon DEF t
  <2>3. QED
    BY <2>1, <2>2, Zenon
<1>8. ~Greeting(hd)
  BY <1>4, Zenon DEF ReplyOk, t
<1>9. Taking(hd) => s = << >>
  <2>1. SUFFICES ASSUME t = Ushort(0) PROVE s = << >>
    BY Zenon DEF ReplyOk, t
  <2>2. Len(t) = 2
    BY <2>1, UshortType
  <2>3. Len(s) = 0
    <3>1. Len(s) \in Nat /\ 2 = 2 + Len(s)
      BY <1>2, <2>2, Zenon
    <3>2. QED
      BY <3>1
  <2>4. QED
    BY <2>3 DEF Bytes
<1>10. QED
  BY <1>7, <1>8, <1>9, Zenon DEF ReplyOk

\* A length: the body of the string is next, or the return code.
LEMMA OkMessage ==
    ASSUME NEW hd, NEW s \in Bytes, NEW g \in Bytes, NEW r, NEW w,
           Len(g) = w, ReplyOk("message", hd, g, w, g \o s, r)
    PROVE  /\ WordAt(g, 1) = 0 => ReplyOk("return code", hd, << >>, 2, s, r)
           /\ WordAt(g, 1) # 0 => ReplyOk("body", hd, << >>, WordAt(g, 1), s, r)
<1> DEFINE t == g \o s
           len == WordAt(g, 1)
<1>1. Len(g) = 2 /\ WellFrom(t, 1, r)
  BY Zenon DEF ReplyOk
<1>2. /\ t \in Bytes /\ Len(t) = 2 + Len(s) /\ t[1] = g[1] /\ t[2] = g[2]
      /\ Len(s) \in Nat /\ len \in Nat
  <2>1. 1 \in 1..Len(g) /\ 2 \in 1..Len(g)
    BY <1>1
  <2>2. Len(s) \in Nat
    BY DEF Bytes
  <2>3. g[1] \in Nat /\ g[2] \in Nat /\ 1 + 1 = 2
    BY <2>1 DEF Bytes
  <2>4. len \in Nat
    BY <2>3 DEF WordAt
  <2>5. QED
    BY <1>1, <2>1, <2>2, <2>4, Together, InFront, Zenon
<1> HIDE DEF t
<1>3. WordAt(t, 1) = len
  <2>1. 1 + 1 = 2
    OBVIOUS
  <2>2. QED
    BY <1>2, <2>1, Zenon DEF WordAt
<1> HIDE DEF len
<1>4. t # << >> /\ 1 + 1 <= Len(t)
  BY <1>2 DEF Bytes
<1>5. ~Greeting(hd) /\ ~Taking(hd)
  BY <1>4, Zenon DEF ReplyOk, t
<1>6. IF len = 0
      THEN 1 + 3 <= Len(t) /\ t[1 + 2] = Ushort(r)[1] /\ t[1 + 3] = Ushort(r)[2]
      ELSE WellFrom(t, 1 + 2 + len, r)
  BY <1>1, <1>2, <1>3, <1>4, Follow, Zenon
<1>7. CASE len = 0
  <2>1. 4 <= Len(t) /\ t[3] = Ushort(r)[1] /\ t[4] = Ushort(r)[2]
    <3>1. 1 + 3 = 4 /\ 1 + 2 = 3
      OBVIOUS
    <3>2. QED
      BY <1>6, <1>7, <3>1, Zenon
  <2>2. /\ Len(s) >= 2 /\ 1 \in 1..Len(s) /\ 2 \in 1..Len(s)
        /\ 1 + Len(g) = 3 /\ 2 + Len(g) = 4
    BY <1>1, <1>2, <2>1
  <2>3. t[1 + Len(g)] = s[1] /\ t[2 + Len(g)] = s[2]
    BY <2>2, Behind, Zenon DEF t
  <2>4. QED
    BY <1>5, <1>7, <2>1, <2>2, <2>3, Zenon DEF ReplyOk, len
<1>8. CASE len # 0
  <2>1. 1 + 2 + len > Len(g) /\ (1 + 2 + len) - Len(g) = len + 1
    BY <1>1, <1>2
  <2>2. WellFrom(s, (1 + 2 + len) - Len(g), r)
    BY <1>6, <1>8, <2>1, WellDrop, Zenon DEF t
  <2>3. WellFrom(s, len + 1, r)
    BY <2>1, <2>2, Zenon
  <2>4. QED
    BY <1>2, <1>5, <1>8, <2>3, Zenon DEF ReplyOk, len
<1>9. QED
  BY <1>7, <1>8

\* A body: the next length follows.
LEMMA OkBody ==
    ASSUME NEW hd, NEW s \in Bytes, NEW g \in Bytes, NEW r, NEW w,
           Len(g) = w, ReplyOk("body", hd, g, w, g \o s, r)
    PROVE  ReplyOk("message", hd, << >>, 2, s, r)
<1>1. w \in Nat /\ WellFrom(g \o s, w + 1, r)
  BY Zenon DEF ReplyOk
<1>2. w + 1 > Len(g) /\ (w + 1) - Len(g) = 1
  BY <1>1
<1>3. WellFrom(s, (w + 1) - Len(g), r)
  BY <1>1, <1>2, WellDrop, Zenon
<1>4. WellFrom(s, 1, r)
  BY <1>2, <1>3, Zenon
<1>5. QED
  BY <1>4, Zenon DEF ReplyOk

\* The handler goes on reading.
LEMMA OkReads ==
    ASSUME NEW cl, NEW hd, NEW ha, NEW g, NEW w, NEW s, NEW r,
           ReplyOk(cl, hd, g, w, s, r),
           (Greeting(hd) /\ Greeting(ha)) \/ (Taking(hd) /\ Taking(ha))
    PROVE  ReplyOk(cl, ha, g, w, s, r)
<1>1. ~(Greeting(hd) /\ Taking(hd)) /\ ~(Greeting(ha) /\ Taking(ha))
  BY DEF Greeting, Taking
<1>2. QED
  BY <1>1, Zenon DEF ReplyOk

\* The handler answers the version.
LEMMA OkVersion ==
    ASSUME NEW cl, NEW g, NEW w, NEW r \in Int, NEW s,
           ReplyOk(cl, "version", g, w, s, r)
    PROVE  /\ ReplyOk(cl, "argc", g, w, s \o Ushort(0), r)
           /\ ReplyOk(cl, "leave", g, w, s \o Ushort(EPROTO), EPROTO)
<1>1. s = << >> /\ cl \in {"hello", "feedback", "exited"}
  BY Zenon DEF ReplyOk, Greeting
<1>2. 0 \in Int /\ EPROTO \in Int
  BY DEF EPROTO
<1>3. << >> \o Ushort(0) = Ushort(0) /\ << >> \o Ushort(EPROTO) = Ushort(EPROTO)
  BY <1>2, UshortType DEF Bytes
<1>4. Answer(Ushort(0), r)
  <2>1. Len(Ushort(0)) = 2 /\ Ushort(0) \in Bytes
    BY <1>2, UshortType, Zenon
  <2>2. WordAt(Ushort(0), 1) = 0
    BY DEF WordAt, Ushort
  <2>3. Cuts({3}, Ushort(0), r)
    <3>1. {3} \subseteq Nat \ {0} /\ ~(3 + 1 <= 2)
      OBVIOUS
    <3>2. QED
      BY <2>1, <3>1, Zenon DEF Cuts
  <2>4. Len(Ushort(0)) >= 2
    BY <2>1
  <2>5. QED
    BY <2>2, <2>3, <2>4, Zenon DEF Answer, WellFrom
<1>5. ReplyOk(cl, "argc", g, w, Ushort(0), r)
  BY <1>1, <1>4, Zenon DEF ReplyOk, Greeting, Taking
<1>6. ReplyOk(cl, "leave", g, w, Ushort(EPROTO), EPROTO)
  BY <1>1, Zenon DEF ReplyOk, Answer, Greeting, Taking
<1>7. QED
  BY <1>1, <1>3, <1>5, <1>6, Zenon

\* The handler writes its reply, all of it at once for its write_all.
LEMMA OkLeave ==
    ASSUME NEW cl, NEW hd, Taking(hd),
           NEW g, NEW w, NEW s, NEW q,
           ReplyOk(cl, hd, g, w, s, q),
           NEW bytes \in Bytes, NEW r \in Int, WellFrom(bytes, 1, r)
    PROVE  ReplyOk(cl, "leave", g, w, s \o bytes, r)
<1>1. CASE cl \in {"hello", "feedback"}
  <2>1. s = Ushort(0)
    BY <1>1, Zenon DEF ReplyOk
  <2>2. s \in Bytes /\ Len(s) = 2 /\ s[1] = 0 /\ s[2] = 0
    <3>1. s = <<0, 0>>
      BY <2>1 DEF Ushort
    <3>2. QED
      BY <3>1 DEF Bytes
  <2>3. Len(bytes) \in Nat /\ 1 \in 1..Len(s) /\ 2 \in 1..Len(s)
    BY <2>2 DEF Bytes
  <2>4. /\ (s \o bytes)[1] = 0 /\ (s \o bytes)[2] = 0
        /\ Len(s \o bytes) = 2 + Len(bytes)
    BY <2>2, <2>3, Together, InFront, Zenon
  <2>5. Len(s \o bytes) >= 2
    BY <2>3, <2>4
  <2>6. WordAt(s \o bytes, 1) = 0
    <3>1. 1 + 1 = 2 /\ 256 * 0 + 0 = 0
      OBVIOUS
    <3>2. QED
      BY <2>4, <3>1, Zenon DEF WordAt
  <2>7. WellFrom(s \o bytes, 3, r)
    <3>1. WellFrom(s \o bytes, 1 + Len(s), r)
      BY <2>2, WellShift, Zenon
    <3>2. 1 + Len(s) = 3
      BY <2>2
    <3>3. QED
      BY <3>1, <3>2, Zenon
  <2>8. QED
    BY <1>1, <2>5, <2>6, <2>7, Zenon DEF ReplyOk, Answer, Greeting, Taking
<1>2. CASE cl = "message"
  <2>1. s = << >> /\ w = 2
    BY <1>2, Zenon DEF ReplyOk
  <2>2. << >> \o bytes = bytes
    BY DEF Bytes
  <2>3. QED
    BY <1>2, <2>1, <2>2, Zenon DEF ReplyOk, Greeting, Taking
<1>3. CASE cl \in {"overflow", "exited"}
  BY <1>3, Zenon DEF ReplyOk, Greeting, Taking
<1>4. QED
  BY <1>1, <1>2, <1>3, Zenon DEF ReplyOk

-----------------------------------------------------------------------------
(* Every step keeps it.                                                    *)

\* The end of a process leaves the bytes alone.
LEMMA ReplyExit ==
    ASSUME ReplyInv, NEW p \in Procs, NEW code, Exit(p, code),
           UNCHANGED <<buf, pending, want, got, hret>>
    PROVE  ReplyInv'
<1>1. ReplyTypes' /\ Coming' = Coming
  BY Zenon DEF ReplyInv, ReplyTypes, Coming, Exit
<1>2. \/ stage'["client"] = "exited" /\ stage'["handler"] = stage["handler"]
      \/ stage'["client"] = stage["client"] /\ stage'["handler"] = "exited"
  BY DEF ReplyInv, ReplyTypes, Exit, Procs
<1>3. QED
  BY <1>1, <1>2, OkExits, Zenon DEF ReplyInv

\* A byte on its way.
LEMMA ReplyWrite ==
    ASSUME ReplyInv, NEW p \in Procs, Write(p)
    PROVE  ReplyInv'
<1>1. CASE Exit(p, KILLED) /\ UNCHANGED <<buf, pending>>
  <2>1. UNCHANGED <<buf, pending, want, got, hret>>
    BY <1>1, Zenon DEF Write
  <2>2. QED
    BY <1>1, <2>1, ReplyExit, Zenon
<1>2. CASE /\ buf' = [buf EXCEPT ![Peer(p)] = Append(@, Head(pending[p]))]
           /\ pending' = [pending EXCEPT ![p] = Tail(@)]
           /\ UNCHANGED <<stage, exit>>
  <2>1. pending[p] # << >> /\ want' = want /\ got' = got /\ hret' = hret
        /\ stage' = stage
    BY <1>2, Zenon DEF Write
  <2>2. DOMAIN buf' = Procs /\ DOMAIN pending' = Procs
    BY <1>2, Zenon DEF ReplyInv, ReplyTypes
  <2>3. CASE p = "client"
    <3>1. buf'["client"] = buf["client"]
          /\ pending'["handler"] = pending["handler"]
      BY <1>2, <2>3 DEF ReplyInv, ReplyTypes, Procs, Peer
    <3>2. QED
      BY <2>1, <2>2, <3>1, Zenon DEF ReplyInv, ReplyTypes, Coming
  <2>4. CASE p = "handler"
    <3>1. /\ buf'["client"] = Append(buf["client"], Head(pending["handler"]))
          /\ pending'["handler"] = Tail(pending["handler"])
      BY <1>2, <2>4 DEF ReplyInv, ReplyTypes, Procs, Peer
    <3>2. buf["client"] \in Bytes /\ pending["handler"] \in Bytes
      BY Zenon DEF ReplyInv, ReplyTypes
    <3>3. /\ buf'["client"] \in Bytes /\ pending'["handler"] \in Bytes
          /\ buf'["client"] \o pending'["handler"] = buf["client"] \o pending["handler"]
      BY <2>1, <2>4, <3>1, <3>2, PassOn, Zenon
    <3>4. QED
      BY <2>1, <2>2, <3>3, Zenon DEF ReplyInv, ReplyTypes, Coming
  <2>5. QED
    BY <2>3, <2>4 DEF Procs
<1>3. QED
  BY <1>1, <1>2, Zenon DEF Write

LEMMA ReplyRead ==
    ASSUME ReplyInv, NEW p \in Procs, Read(p)
    PROVE  ReplyInv'
<1>1. CASE Exit(p, EPIPE) /\ UNCHANGED <<buf, got>>
  <2>1. UNCHANGED <<buf, pending, want, got, hret>>
    BY <1>1, Zenon DEF Read
  <2>2. QED
    BY <1>1, <2>1, ReplyExit, Zenon
<1>2. CASE /\ buf[p] # << >>
           /\ got' = [got EXCEPT ![p] = Append(@, Head(buf[p]))]
           /\ buf' = [buf EXCEPT ![p] = Tail(@)]
           /\ UNCHANGED <<stage, exit>>
  <2>1. /\ pending' = pending /\ want' = want /\ hret' = hret /\ stage' = stage
        /\ Len(got[p]) < want[p]
    BY <1>2, Zenon DEF Read, Reading
  <2>2. DOMAIN buf' = Procs /\ DOMAIN got' = Procs
    BY <1>2, Zenon DEF ReplyInv, ReplyTypes
  <2>3. CASE p = "handler"
    <3>1. buf'["client"] = buf["client"] /\ got'["client"] = got["client"]
      BY <1>2, <2>3 DEF ReplyInv, ReplyTypes, Procs
    <3>2. QED
      BY <2>1, <2>2, <3>1, Zenon DEF ReplyInv, ReplyTypes, Coming
  <2>4. CASE p = "client"
    <3>1. /\ got'["client"] = Append(got["client"], Head(buf["client"]))
          /\ buf'["client"] = Tail(buf["client"])
      BY <1>2, <2>4 DEF ReplyInv, ReplyTypes, Procs
    <3>2. /\ got["client"] \in Bytes /\ buf["client"] \in Bytes
          /\ pending["handler"] \in Bytes
      BY Zenon DEF ReplyInv, ReplyTypes
    <3>3. /\ got'["client"] \in Bytes /\ buf'["client"] \in Bytes
          /\ got'["client"] \o buf'["client"] = got["client"] \o buf["client"]
      <4>1. buf["client"] # << >>
        BY <1>2, <2>4, Zenon
      <4>2. QED
        BY <3>1, <3>2, <4>1, PassOn, Zenon
    <3>4. Coming' = Coming
      <4>1. (got'["client"] \o buf'["client"]) \o pending["handler"]
              = got'["client"] \o (buf'["client"] \o pending["handler"])
        BY <3>2, <3>3, BytesAssociative, Zenon
      <4>2. (got["client"] \o buf["client"]) \o pending["handler"]
              = got["client"] \o (buf["client"] \o pending["handler"])
        BY <3>2, BytesAssociative, Zenon
      <4>3. QED
        BY <2>1, <3>3, <4>1, <4>2, Zenon DEF Coming
    <3>5. stage["client"] # "hello"
      <4>1. Len(got["client"]) \in Nat /\ Len(got["client"]) < want["client"]
        BY <2>1, <2>4, <3>2 DEF Bytes
      <4>2. want["client"] # 0
        BY <4>1
      <4>3. QED
        BY <4>2, Zenon DEF ReplyInv, ReplyOk
    <3>6. ReplyTypes'
      BY <2>1, <2>2, <3>2, <3>3, Zenon DEF ReplyInv, ReplyTypes
    <3>7. QED
      BY <2>1, <3>4, <3>5, <3>6, Zenon DEF ReplyInv, ReplyOk
  <2>5. QED
    BY <2>3, <2>4 DEF Procs
<1>3. QED
  BY <1>1, <1>2, Zenon DEF Read

\* client()
LEMMA ReplyClient ==
    ASSUME ReplyInv, Client
    PROVE  ReplyInv'
<1> DEFINE rest == buf["client"] \o pending["handler"]
           g == got["client"]
<1>1. /\ ReplyTypes /\ hret' = hret /\ rest \in Bytes /\ g \in Bytes
         /\ Coming = g \o rest
      /\ ReplyOk(stage["client"], stage["handler"], g, want["client"], g \o rest, hret)
  <2>1. hret' = hret
    BY Zenon DEF Client, Hello, Feedback, Overflow, MessageLength,
       MessageBody, ReturnCode
  <2>2. QED
    BY <2>1, ComingType, Zenon DEF ReplyInv, ReplyTypes, Coming
<1>2. Word("client") = WordAt(g, 1)
  <2>1. 1 + 1 = 2
    OBVIOUS
  <2>2. QED
    BY <2>1, Zenon DEF Word, WordAt
<1> HIDE DEF rest, g
<1>3. ASSUME NEW bytes, NEW len, NEW label, Await("client", bytes, len, label),
             ReplyOk(label, stage["handler"], << >>, len, rest, hret)
      PROVE  ReplyInv'
  BY <1>1, <1>3, ClientAwaits, Zenon DEF ReplyInv, rest
<1>4. ASSUME NEW code, Exit("client", code), UNCHANGED ioVars
      PROVE  ReplyInv'
  <2>1. "client" \in Procs
    BY DEF Procs
  <2>2. QED
    BY <1>1, <1>4, <2>1, ReplyExit, Zenon DEF ioVars
<1>5. CASE Hello
  <2>1. stage["client"] = "hello"
    BY <1>5, Zenon DEF Hello, At
  <2>2. g = << >>
    BY <1>1, <2>1, Zenon DEF ReplyOk
  <2>3. g \o rest = rest
    BY <1>1, <2>2 DEF Bytes
  <2>4. ReplyOk("feedback", stage["handler"], << >>, 2, rest, hret)
    BY <1>1, <2>1, <2>3, Zenon DEF ReplyOk
  <2>5. QED
    BY <1>3, <1>5, <2>4, Zenon DEF Hello
<1>6. CASE Feedback
  <2>1. stage["client"] = "feedback" /\ Len(g) = want["client"]
    BY <1>6, Zenon DEF Feedback, At, g
  <2>2. CASE Word("client") # 0
    BY <1>4, <1>6, <2>2, Zenon DEF Feedback
  <2>3. CASE Word("client") = 0
    <3>1. /\ ReplyOk("message", stage["handler"], << >>, 2, rest, hret)
          /\ ReplyOk("overflow", stage["handler"], << >>, 0, rest, hret)
      BY <1>1, <1>2, <2>1, <2>3, OkFeedback, Zenon
    <3>2. QED
      BY <1>3, <1>6, <2>3, <3>1, Zenon DEF Feedback
  <2>4. QED
    BY <2>2, <2>3
<1>7. CASE Overflow
  BY <1>4, <1>7, Zenon DEF Overflow
<1>8. CASE MessageLength
  <2>1. stage["client"] = "message" /\ Len(g) = want["client"]
    BY <1>8, Zenon DEF MessageLength, At, g
  <2>2. CASE Exit("client", EOVERFLOW) /\ UNCHANGED ioVars
    BY <1>4, <2>2, Zenon
  <2>3. CASE AfterLength(Word("client"))
    BY <1>1, <1>2, <1>3, <2>1, <2>3, OkMessage, Zenon DEF AfterLength
  <2>4. QED
    BY <1>8, <2>2, <2>3, Zenon DEF MessageLength
<1>9. CASE MessageBody
  <2>1. stage["client"] = "body" /\ Len(g) = want["client"]
    BY <1>9, Zenon DEF MessageBody, At, g
  <2>2. ReplyOk("message", stage["handler"], << >>, 2, rest, hret)
    BY <1>1, <2>1, OkBody, Zenon
  <2>3. QED
    BY <1>3, <1>9, <2>2, Zenon DEF MessageBody
<1>10. CASE ReturnCode
  BY <1>4, <1>10, Zenon DEF ReturnCode
<1>11. QED
  BY <1>5, <1>6, <1>7, <1>8, <1>9, <1>10, Zenon DEF Client

\* The handler's own answers.
LEMMA WellAnswers ==
    ASSUME NEW r \in Int
    PROVE  /\ String(Message) \o String(0) \o Ushort(r) \in Bytes
           /\ WellFrom(String(Message) \o String(0) \o Ushort(r), 1, r)
           /\ String(Message) \o String(0) \o Ushort(r) \o String(0) \o Ushort(r) \in Bytes
           /\ WellFrom(String(Message) \o String(0) \o Ushort(r)
                          \o String(0) \o Ushort(r), 1, r)
<1> DEFINE m == String(Message)
           z == String(0)
           u == Ushort(r)
<1>1. << >> \in Bytes /\ u \in Bytes
  BY UshortType DEF Bytes
<1>2. Message \in Lengths /\ EPROTO \in Lengths
  BY DEF Message, EPROTO, Lengths
<1>3. z \o u \o << >> \in Bytes /\ WellFrom(z \o u \o << >>, 1, r)
  BY <1>1, WellEnding, Zenon
<1>4. z \in Bytes
  <2>1. z = <<0, 0>>
    <3>1. Ushort(0) = <<0, 0>> /\ [i \in 1..0 |-> 120] = << >>
          /\ <<0, 0>> \o << >> = <<0, 0>>
      BY DEF Ushort
    <3>2. QED
      BY <3>1, Zenon DEF String
  <2>2. <<0, 0>> \in Bytes
    BY DEF Bytes
  <2>3. QED
    BY <2>1, <2>2, Zenon
<1>5. m \in Bytes
  BY <1>1, <1>2, <1>3, WellMessage, Zenon
<1> HIDE DEF m, z, u
<1>6. z \o u \in Bytes /\ z \o u \o << >> = z \o u
  <2>1. z \o u \in Bytes
    BY <1>1, <1>4, Together, Zenon
  <2>2. QED
    BY <2>1 DEF Bytes
<1>7. WellFrom(z \o u, 1, r)
  BY <1>3, <1>6, Zenon DEF z, u
<1>8. m \o (z \o u) \in Bytes /\ WellFrom(m \o (z \o u), 1, r)
      /\ m \o (z \o u) = m \o z \o u
  BY <1>1, <1>2, <1>4, <1>5, <1>6, <1>7, WellMessage, Together,
     BytesAssociative, Zenon DEF m
<1>9. z \o u \o (z \o u) \in Bytes /\ WellFrom(z \o u \o (z \o u), 1, r)
  BY <1>6, WellEnding, Zenon DEF z, u
<1>10. m \o (z \o u \o (z \o u)) \in Bytes
       /\ WellFrom(m \o (z \o u \o (z \o u)), 1, r)
  BY <1>2, <1>5, <1>9, WellMessage, Together, Zenon DEF m
<1>11. m \o (z \o u \o (z \o u)) = m \o z \o u \o z \o u
  <2>1. m \o ((z \o u) \o (z \o u)) = (m \o (z \o u)) \o (z \o u)
    BY <1>5, <1>6, BytesAssociative, Zenon
  <2>2. (m \o (z \o u)) \o (z \o u) = ((m \o (z \o u)) \o z) \o u
    BY <1>1, <1>4, <1>8, BytesAssociative, Zenon
  <2>3. QED
    BY <1>8, <2>1, <2>2, Zenon
<1>12. QED
  BY <1>8, <1>10, <1>11, Zenon DEF m, z, u

\* handler()
LEMMA ReplyHandler ==
    ASSUME ReplyInv, Handler
    PROVE  ReplyInv'
<1> DEFINE g == got["client"]
           hd == stage["handler"]
<1>1. /\ ReplyTypes /\ hret \in Int /\ Coming \in Bytes
      /\ ReplyOk(stage["client"], hd, g, want["client"], Coming, hret)
      /\ << >> \in Bytes /\ Coming \o << >> = Coming
  <2>1. ReplyTypes /\ hret \in Int /\ Coming \in Bytes
    BY ComingType, Zenon DEF ReplyInv, ReplyTypes
  <2>2. << >> \in Bytes /\ Coming \o << >> = Coming
    BY <2>1 DEF Bytes
  <2>3. QED
    BY <2>1, <2>2, Zenon DEF ReplyInv
<1> HIDE DEF g, hd
<1>2. ASSUME NEW bytes \in Bytes, NEW len, NEW label,
             pending["handler"] = << >>,
             Await("handler", bytes, len, label), hret' \in Int,
             ReplyOk(stage["client"], label, g, want["client"], Coming \o bytes, hret')
      PROVE  ReplyInv'
  BY <1>1, <1>2, HandlerAwaits, Zenon DEF ReplyInv, g
<1>3. ASSUME NEW len, NEW label, pending["handler"] = << >>,
             Await("handler", << >>, len, label), hret' = hret,
             (Greeting(hd) /\ Greeting(label)) \/ (Taking(hd) /\ Taking(label))
      PROVE  ReplyInv'
  <2>1. ReplyOk(stage["client"], label, g, want["client"], Coming, hret)
    BY <1>1, <1>3, OkReads, Zenon
  <2>2. QED
    BY <1>1, <1>2, <1>3, <2>1, Zenon
<1>4. ASSUME NEW bytes \in Bytes, NEW r \in Int, WellFrom(bytes, 1, r),
             pending["handler"] = << >>, Leave(bytes, r), Taking(hd)
      PROVE  ReplyInv'
  <2>1. ReplyOk(stage["client"], "leave", g, want["client"], Coming \o bytes, r)
    BY <1>1, <1>4, OkLeave, Zenon
  <2>2. QED
    BY <1>2, <1>4, <2>1, Zenon DEF Leave
<1>5. CASE VersionLength
  <2>1. hd = "version string" /\ pending["handler"] = << >>
    BY <1>5, Zenon DEF VersionLength, At, hd
  <2>2. Greeting(hd) /\ Greeting("version")
    BY <2>1 DEF Greeting
  <2>3. PICK len : Await("handler", << >>, len, "version") /\ hret' = hret
    BY <1>5, Zenon DEF VersionLength
  <2>4. QED
    BY <1>3, <2>1, <2>2, <2>3, Zenon
<1>6. CASE Version
  <2>1. hd = "version" /\ pending["handler"] = << >>
    BY <1>6, Zenon DEF Version, At, hd
  <2>2. /\ ReplyOk(stage["client"], "argc", g, want["client"], Coming \o Ushort(0), hret)
        /\ ReplyOk(stage["client"], "leave", g, want["client"],
                   Coming \o Ushort(EPROTO), EPROTO)
    BY <1>1, <2>1, OkVersion, Zenon
  <2>3. EPROTO \in Int /\ Ushort(EPROTO) \in Bytes /\ Ushort(0) \in Bytes
    <3>1. 0 \in Int /\ EPROTO \in Int
      BY DEF EPROTO
    <3>2. QED
      BY <3>1, UshortType, Zenon
  <2>4. CASE Await("handler", Ushort(0), 2, "argc") /\ UNCHANGED hret
    BY <1>1, <1>2, <2>1, <2>2, <2>3, <2>4, Zenon
  <2>5. CASE Leave(Ushort(EPROTO), EPROTO)
    BY <1>2, <2>1, <2>2, <2>3, <2>5, Zenon DEF Leave
  <2>6. QED
    BY <1>6, <2>4, <2>5, Zenon DEF Version
<1>7. CASE Argc
  <2>1. hd = "argc" /\ pending["handler"] = << >>
    BY <1>7, Zenon DEF Argc, At, hd
  <2>2. Taking(hd) /\ Taking("argument")
    BY <2>1 DEF Taking
  <2>3. 0 \in Int /\ E2BIG \in Int /\ ENOMEM \in Int /\ E2BIG \in Lengths
        /\ Message \in Lengths
    BY DEF E2BIG, ENOMEM, Message, Lengths
  <2>4. CASE Leave(String(Message) \o String(0) \o Ushort(0), 0)
    BY <1>4, <2>1, <2>2, <2>3, <2>4, WellAnswers, Zenon
  <2>5. CASE Leave(String(Message) \o Ushort(E2BIG), E2BIG)
    <3>1. Ushort(E2BIG) \in Bytes /\ WellFrom(Ushort(E2BIG), 1, E2BIG)
      BY <2>3, UshortType, WellLength, Zenon
    <3>2. /\ String(Message) \o Ushort(E2BIG) \in Bytes
          /\ WellFrom(String(Message) \o Ushort(E2BIG), 1, E2BIG)
      BY <2>3, <3>1, WellMessage, Together, Zenon
    <3>3. QED
      BY <1>4, <2>1, <2>2, <2>3, <2>5, <3>2, Zenon
  <2>6. CASE Await("handler", << >>, 2, "argument") /\ UNCHANGED hret
    BY <1>3, <2>1, <2>2, <2>6, Zenon
  <2>7. CASE Leave(String(Message) \o String(0) \o Ushort(ENOMEM), ENOMEM)
    BY <1>4, <2>1, <2>2, <2>3, <2>7, WellAnswers, Zenon
  <2>8. QED
    BY <1>7, <2>4, <2>5, <2>6, <2>7, Zenon DEF Argc
<1>8. CASE ArgumentLength
  <2>1. hd = "argument" /\ pending["handler"] = << >>
    BY <1>8, Zenon DEF ArgumentLength, At, hd
  <2>2. Taking(hd) /\ Taking("argument body") /\ ENOMEM \in Int
    BY <2>1 DEF Taking, ENOMEM
  <2>3. CASE Await("handler", << >>, Word("handler"), "argument body")
             /\ UNCHANGED hret
    BY <1>3, <2>1, <2>2, <2>3, Zenon
  <2>4. CASE Leave(String(Message) \o String(0) \o Ushort(ENOMEM)
                      \o String(0) \o Ushort(ENOMEM), ENOMEM)
    BY <1>4, <2>1, <2>2, <2>4, WellAnswers, Zenon
  <2>5. QED
    BY <1>8, <2>3, <2>4, Zenon DEF ArgumentLength
<1>9. CASE ArgumentBody
  <2>1. hd = "argument body" /\ pending["handler"] = << >> /\ hret' = hret
    BY <1>9, Zenon DEF ArgumentBody, At, hd
  <2>2. Taking(hd) /\ Taking("argument") /\ Taking("command")
    BY <2>1 DEF Taking
  <2>3. \/ Await("handler", << >>, 2, "argument")
        \/ Await("handler", << >>, 0, "command")
    BY <1>9, Zenon DEF ArgumentBody
  <2>4. QED
    BY <1>3, <2>1, <2>2, <2>3, Zenon
<1>10. CASE DoCommand
  <2>1. hd = "command" /\ pending["handler"] = << >>
    BY <1>10, Zenon DEF DoCommand, At, hd
  <2>2. Taking(hd)
    BY <2>1 DEF Taking
  <2>3. PICK c \in Commands : Leave(Strings(c.msgs) \o Ending(c.ret), c.ret)
    BY <1>10, Zenon DEF DoCommand
  <2>4. c.msgs \in Seq(Lengths) /\ c.ret \in Int
    BY CommandsAssumption, Zenon
  <2>5. Ending(c.ret) \in Bytes /\ WellFrom(Ending(c.ret), 1, c.ret)
    <3>1. /\ String(0) \o Ushort(c.ret) \o << >> \in Bytes
          /\ WellFrom(String(0) \o Ushort(c.ret) \o << >>, 1, c.ret)
      BY <1>1, <2>4, WellEnding, Zenon
    <3>2. String(0) \o Ushort(c.ret) \in Bytes
      <4>1. 0 \in Int
        OBVIOUS
      <4>2. [i \in 1..0 |-> 120] \in Bytes
        BY DEF Bytes
      <4>3. QED
        BY <2>4, <4>1, <4>2, UshortType, Together, Zenon DEF String
    <3>3. \A x \in Bytes : x \o << >> = x
      BY DEF Bytes
    <3>4. QED
      BY <3>1, <3>2, <3>3, Zenon DEF Ending
  <2>6. /\ Strings(c.msgs) \o Ending(c.ret) \in Bytes
        /\ WellFrom(Strings(c.msgs) \o Ending(c.ret), 1, c.ret)
    BY <2>4, <2>5, WellMessages, Zenon
  <2>7. QED
    BY <1>4, <2>1, <2>2, <2>3, <2>4, <2>6, Zenon
<1>11. CASE Left
  <2>1. "handler" \in Procs
    BY DEF Procs
  <2>2. QED
    BY <1>11, <2>1, ReplyExit, Zenon DEF Left, ioVars
<1>12. QED
  BY <1>5, <1>6, <1>7, <1>8, <1>9, <1>10, <1>11, Zenon DEF Handler

LEMMA CallNextReply == ReplyInv /\ [CallNext]_callVars => ReplyInv'
<1> SUFFICES ASSUME ReplyInv, [CallNext]_callVars PROVE ReplyInv'
  OBVIOUS
<1>1. CASE UNCHANGED callVars
  BY <1>1, Zenon DEF callVars, ReplyInv, ReplyTypes, Coming
<1>2. CASE CallNext
  <2>1. PICK p \in Procs : CallStep(p) \/ Die(p)
    BY <1>2, Zenon DEF CallNext
  <2>2. CASE Die(p)
    BY <2>2, ReplyExit, Zenon DEF Die, ioVars
  <2>3. QED
    BY <2>1, <2>2, ReplyWrite, ReplyRead, ReplyClient, ReplyHandler, Zenon
       DEF CallStep
<1>3. QED
  BY <1>1, <1>2

LEMMA LowByte ==
    ASSUME NEW a \in Nat, NEW r \in Int
    PROVE  (256 * a + (r % 256)) % 256 = r % 256
  OBVIOUS

\* The client ends with the return code, or with 0.
Returns ==
    /\ exit' \notin {exit, KILLED}
    /\ At("client", "return code") \/ exit' = 0

\* Such an end is the one of ReturnCode, after the two bytes of hret.
LEMMA ExitStep ==
    ASSUME ReplyInv, CallNext, Returns
    PROVE  exit' = hret % 256
<1> DEFINE g == got["client"]
           rest == buf["client"] \o pending["handler"]
<1>1. /\ hret \in Int /\ g \in Bytes /\ rest \in Bytes
      /\ ReplyOk(stage["client"], stage["handler"], g, want["client"], g \o rest, hret)
  BY ComingType, Zenon DEF ReplyInv, ReplyTypes, Coming
<1>2. Word("client") = WordAt(g, 1)
  <2>1. 1 + 1 = 2
    OBVIOUS
  <2>2. QED
    BY <2>1, Zenon DEF Word, WordAt
<1>3. EPIPE % 256 # 0 /\ EOVERFLOW % 256 # 0 /\ KILLED % 256 = KILLED
  BY DEF EPIPE, EOVERFLOW, KILLED
<1>4. PICK p \in Procs : CallStep(p) \/ Die(p)
  BY Zenon DEF CallNext
<1>5. \A code : Exit(p, code) => p = "client" /\ exit' = code % 256
  BY Zenon DEF Exit, Returns
<1>6. ~Die(p)
  BY <1>3, <1>5, Zenon DEF Die, Returns
<1>7. ~Write(p)
  BY <1>3, <1>5, Zenon DEF Write, Returns
<1>8. ~Read(p)
  <2>1. SUFFICES ASSUME Read(p) PROVE FALSE
    OBVIOUS
  <2>2. Exit(p, EPIPE)
    BY <2>1, Zenon DEF Read, Returns
  <2>3. p = "client" /\ exit' # 0
    BY <1>3, <1>5, <2>2, Zenon
  <2>4. Len(g) = want["client"] /\ Len(g) < want["client"] /\ Len(g) \in Nat
    <3>1. Len(g) \in Nat
      BY <1>1 DEF Bytes
    <3>2. QED
      BY <2>1, <2>3, <3>1, Zenon DEF Read, Reading, At, Returns
  <2>5. QED
    BY <2>4
<1>9. ~Handler
  BY Zenon DEF Handler, VersionLength, Version, Argc, ArgumentLength,
     ArgumentBody,
               DoCommand, Left, Exit, Returns
<1>10. Client
  BY <1>4, <1>6, <1>7, <1>8, <1>9, Zenon DEF CallStep
<1>11. \A code : Exit("client", code) => exit' = code % 256
  BY Zenon DEF Exit
<1> HIDE DEF g, rest
<1>12. ASSUME Len(g) = 2
       PROVE  /\ g[1] \in Nat /\ g[2] \in Nat
              /\ g[1] = (g \o rest)[1] /\ g[2] = (g \o rest)[2]
              /\ WordAt(g, 1) = 256 * g[1] + g[2]
              /\ WordAt(g \o rest, 1) = WordAt(g, 1)
  <2>1. 1 \in 1..Len(g) /\ 2 \in 1..Len(g) /\ 1 + 1 = 2
    BY <1>12
  <2>2. g[1] = (g \o rest)[1] /\ g[2] = (g \o rest)[2]
    BY <1>1, <2>1, InFront, Zenon
  <2>3. g[1] \in Nat /\ g[2] \in Nat
    BY <1>1, <2>1 DEF Bytes
  <2>4. QED
    BY <2>1, <2>2, <2>3, Zenon DEF WordAt
<1>13. ~Feedback
  <2>1. SUFFICES ASSUME Feedback PROVE FALSE
    OBVIOUS
  <2>2. /\ stage["client"] = "feedback" /\ Len(g) = want["client"]
        /\ Exit("client", Word("client")) /\ Word("client") # 0
    BY <2>1, Zenon DEF Feedback, At, g, Returns
  <2>3. exit' = WordAt(g, 1) % 256 /\ WordAt(g, 1) # 0
    BY <1>2, <1>11, <2>2, Zenon
  <2>4. exit' = 0
    BY <2>2, Zenon DEF At, Returns
  <2>5. Len(g) = 2 /\ Answer(g \o rest, hret)
    BY <1>1, <2>2, Zenon DEF ReplyOk
  <2>6. WordAt(g \o rest, 1) = WordAt(g, 1) /\ Len(g \o rest) # 0
    <3>1. Len(rest) \in Nat /\ Len(g \o rest) = 2 + Len(rest)
      <4>1. Len(rest) \in Nat
        BY <1>1 DEF Bytes
      <4>2. QED
        BY <1>1, <2>5, <4>1, Together, Zenon
    <3>2. Len(g \o rest) # 0
      BY <3>1
    <3>3. QED
      BY <1>12, <2>5, <3>2, Zenon
  <2>7. g \o rest = Ushort(EPROTO)
    <3>1. Len(<< >>) = 0
      OBVIOUS
    <3>2. QED
      BY <2>3, <2>5, <2>6, <3>1, Zenon DEF Answer
  <2>8. WordAt(Ushort(EPROTO), 1) = EPROTO
    <3>1. EPROTO \in Lengths
      BY DEF EPROTO, Lengths
    <3>2. QED
      BY <3>1, WordOf, Zenon
  <2>9. exit' = EPROTO % 256
    BY <2>3, <2>6, <2>7, <2>8, Zenon
  <2>10. QED
    BY <2>4, <2>9 DEF EPROTO
<1>14. CASE ReturnCode
  <2>1. stage["client"] = "return code" /\ Len(g) = want["client"]
        /\ Exit("client", Word("client"))
    BY <1>14, Zenon DEF ReturnCode, At, g
  <2>2. exit' = WordAt(g, 1) % 256
    BY <1>2, <1>11, <2>1, Zenon
  <2>3. Len(g) = 2 /\ (g \o rest)[2] = Ushort(hret)[2]
    BY <1>1, <2>1, Zenon DEF ReplyOk
  <2>4. Ushort(hret)[2] = hret % 256
    BY <1>1, UshortType, Zenon
  <2>5. /\ g[1] \in Nat /\ g[2] = hret % 256
        /\ WordAt(g, 1) = 256 * g[1] + g[2]
    BY <1>12, <2>3, <2>4, Zenon
  <2>6. (256 * g[1] + g[2]) % 256 = hret % 256
    BY <1>1, <2>5, LowByte
  <2>7. QED
    BY <2>2, <2>5, <2>6
<1>15. ~Overflow /\ ~(MessageLength /\ Exit("client", EOVERFLOW))
  <2>1. SUFFICES ASSUME Exit("client", EOVERFLOW), ~At("client", "return code")
                 PROVE  FALSE
    BY Zenon DEF Overflow, MessageLength, At
  <2>2. QED
    BY <1>3, <1>11, <2>1, Zenon DEF Returns
<1>16. QED
  BY <1>10, <1>13, <1>14, <1>15, Zenon
     DEF Client, Hello, MessageLength, MessageBody, Returns

\* handler.c and client.c: a client that reads as far as the return code, or
\* that exits with 0, exits with what its handler is to return, whatever the
\* arguments, the commands, the sizes of the socket's buffers and the deaths.
THEOREM ExitCode == CallSpec => ExitIsReturn
<1>1. ReplyInv /\ [CallNext]_callVars =>
        [/\ exit' \notin {exit, KILLED}
         /\ At("client", "return code") \/ exit' = 0
         => exit' = hret % 256]_callVars
  BY ExitStep, Zenon DEF Returns
<1>2. QED
  BY <1>1, CallInitReply, CallNextReply, PTL DEF CallSpec, ExitIsReturn

=============================================================================
