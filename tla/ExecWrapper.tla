---------------------------- MODULE ExecWrapper ----------------------------
(***************************************************************************)
(* execv_wrapper (exec_wrapper.c), through which the daemon runs every     *)
(* other program: parent and child share a pipe whose write end execv      *)
(* closes, so that the parent reads the errno of a failed execv or the end *)
(* of the file.  The child may be killed anywhere.  System calls that      *)
(* return EINTR are repeated by the code and left out here.                *)
(***************************************************************************)
EXTENDS NoValue, Integers

CONSTANTS
    Statuses,       \* exit statuses of the program
    Errnos,         \* errors of execv
    Signals

ASSUME NumbersAssumption ==
    Statuses \subseteq 0..255 /\ Errnos \subseteq Nat \ {0}
    /\ Signals \subseteq 1..64

EIO == 5
ECHILD == 10
EAGAIN == 11
EMFILE == 24

VARIABLES
    wpc, wcpc,      \* of the parent and of the child
    writers,        \* processes that hold the write end of the pipe
    wpipe,          \* the errno in the pipe, or Nil
    n,              \* what the parent's read returned: "none", "errno", "eof", "fail"
    exec_errno,     \* errno of the child's execv, then what the parent read
    status,         \* how the child ended, Nil before
    zombie,         \* it has ended and nobody has waited for it
    wret, werrno    \* result of execv_wrapper, Nil before

childVars == <<wcpc, exec_errno, status>>
wrapperVars == <<wpc, wcpc, writers, wpipe, n, exec_errno, status, zombie, wret,
                 werrno>>

WrapperInit ==
    /\ wpc = "pipe" /\ wcpc = "none"
    /\ writers = {} /\ wpipe = Nil /\ n = "none"
    /\ exec_errno = [parent |-> Nil, child |-> Nil]
    /\ status = Nil /\ zombie = FALSE
    /\ wret = Nil /\ werrno = Nil

WrapperReturn(r, e) == wpc' = "done" /\ wret' = r /\ werrno' = e

-----------------------------------------------------------------------------
(* The child.                                                              *)

\* Mutant of SigchldDefault: a handler that inherits the daemon's SIG_IGN.
SigchldIgnored == FALSE

\* handler() undoes the daemon's signal(SIGCHLD, SIG_IGN): a child that ends
\* waits to be reaped.
SigchldDefault == TRUE

Ends(s) ==
    /\ wcpc' = "ended" /\ status' = s
    /\ writers' = writers \ {"child"}
    /\ zombie' = SigchldDefault

\* The write ends left after a successful execv.
ExecCloses == writers \ {"child"}

Exec ==
    /\ wcpc = "exec"
    /\ \/ /\ wcpc' = "program" /\ writers' = ExecCloses
          /\ UNCHANGED exec_errno
       \/ \E e \in Errnos :
             /\ exec_errno' = [exec_errno EXCEPT !.child = e]
             /\ wcpc' = "report" /\ UNCHANGED writers
    /\ UNCHANGED <<wpc, wpipe, n, status, zombie, wret, werrno>>

\* Mutant of Report: nothing is written to the pipe.
ReportNothing ==
    /\ wcpc = "report"
    /\ wcpc' = "_exit"
    /\ UNCHANGED <<wpc, writers, wpipe, n, exec_errno, status, zombie, wret,
                   werrno>>

Report ==
    /\ wcpc = "report"
    /\ wpipe' = exec_errno.child
    /\ wcpc' = "_exit"
    /\ UNCHANGED <<wpc, writers, n, exec_errno, status, zombie, wret, werrno>>

ExitChild ==
    /\ \/ wcpc = "_exit" /\ Ends([by |-> "exit", code |-> 127])
       \/ wcpc = "program" /\ \E x \in Statuses : Ends([by |-> "exit", code |-> x])
       \/ /\ wcpc \in {"exec", "report", "_exit", "program"}
          /\ \E x \in Signals : Ends([by |-> "signal", code |-> x])
    /\ UNCHANGED <<wpc, wpipe, n, exec_errno, wret, werrno>>

WrapperChild == Exec \/ Report \/ ExitChild

-----------------------------------------------------------------------------
(* The parent.                                                             *)

MakePipe ==
    /\ wpc = "pipe"
    /\ \/ writers' = {"parent"} /\ wpc' = "fork" /\ UNCHANGED <<wret, werrno>>
       \/ WrapperReturn(-1, EMFILE) /\ UNCHANGED writers
    /\ UNCHANGED <<childVars, wpipe, n, zombie>>

Fork ==
    /\ wpc = "fork"
    /\ \/ wcpc' = "exec" /\ writers' = {"parent", "child"} /\ wpc' = "close"
          /\ UNCHANGED <<wret, werrno>>
       \/ WrapperReturn(-1, EAGAIN) /\ writers' = {} /\ UNCHANGED wcpc
    /\ UNCHANGED <<wpipe, n, exec_errno, status, zombie>>

\* Mutant of ClosesWriteEnd: the parent keeps its own write end.
ClosesWriteEndNot == writers

ClosesWriteEnd == writers \ {"parent"}

CloseWriteEnd ==
    /\ wpc = "close"
    /\ writers' = ClosesWriteEnd
    /\ wpc' = "read"
    /\ UNCHANGED <<childVars, wpipe, n, zombie, wret, werrno>>

ReadPipe ==
    /\ wpc = "read"
    /\ \/ /\ wpipe # Nil
          /\ exec_errno' = [exec_errno EXCEPT !.parent = wpipe]
          /\ n' = "errno"
       \/ wpipe = Nil /\ writers = {} /\ n' = "eof" /\ UNCHANGED exec_errno
    /\ wpc' = "wait"
    /\ UNCHANGED <<wcpc, writers, wpipe, status, zombie, wret, werrno>>

ReadFails ==
    /\ wpc = "read"
    /\ n' = "fail"
    /\ wpc' = "wait"
    /\ UNCHANGED <<childVars, writers, wpipe, zombie, wret, werrno>>

Result(s) == IF s.by = "exit" THEN s.code ELSE 128 + s.code

\* Mutant of Reapable: a failed execv is returned without waitpid.
ReapableErrno == wcpc = "ended" \/ n = "errno"

\* When waitpid returns.
Reapable == wcpc = "ended"

\* waitpid: without a zombie to reap it fails once the child has ended.
Wait ==
    /\ wpc = "wait" /\ Reapable
    /\ \/ n = "fail" /\ WrapperReturn(-1, EIO)
       \/ n = "errno" /\ zombie /\ WrapperReturn(-1, exec_errno.parent)
       \/ n = "eof" /\ zombie /\ WrapperReturn(Result(status), Nil)
       \/ n # "fail" /\ ~zombie /\ WrapperReturn(-1, ECHILD)
    /\ zombie' = FALSE
    /\ UNCHANGED <<childVars, writers, wpipe, n>>

WrapperParent == MakePipe \/ Fork \/ CloseWriteEnd \/ ReadPipe \/ Wait

WrapperNext == WrapperParent \/ ReadFails \/ WrapperChild

\* Two processes the kernel schedules; programs are taken to end.  No failure
\* of read is counted on.
WrapperSpec == WrapperInit /\ [][WrapperNext]_wrapperVars
               /\ WF_wrapperVars(WrapperParent) /\ WF_wrapperVars(WrapperChild)

-----------------------------------------------------------------------------
(* Properties.                                                             *)

\* exec_wrapper.c, "child exit status, or 128 + signal number": a result that
\* is no error is how the child ended, and 0 in particular means that execv
\* succeeded and the program exited with 0.
ResultIsPrograms ==
    wret # Nil /\ wret # -1 =>
        /\ wret = Result(status)
        /\ status.by = "exit" => exec_errno.child = Nil

\* exec_wrapper.c, "If execv() fails, errno is set to the error from execv()":
\* a child that lived to report it is reported, and nothing else is taken for
\* a failure of execv, unless the pipe could not be read.
ExecErrorReported ==
    wret # Nil /\ wcpc = "ended" /\ n # "fail" =>
        IF wpipe # Nil THEN wret = -1 /\ werrno = exec_errno.child ELSE wret # -1

\* exec_wrapper.c, "We have to reap the child before returning": no zombie is
\* left behind.
NoZombie == wpc = "done" => ~zombie /\ wcpc \in {"none", "ended"}

\* exec_wrapper.c, FD_CLOEXEC and the close of the write end in the parent:
\* neither process waits for the other for ever, and the end of the file
\* reaches the parent.
WrapperEnds == <>(wpc = "done")

=============================================================================
