----------------------------- MODULE MountCopy -----------------------------
(***************************************************************************)
(* export-files and import-files: payload_cmd.c tries three names for the  *)
(* partition of a removable drive; for each, daemon/mount_copy_ns.c clones *)
(* a child into a mount namespace of its own that mounts, measures, copies, *)
(* syncs and unmounts, and reports through a pipe.  Meanwhile the user     *)
(* changes the files, the caller hangs up and the child may be killed.     *)
(*                                                                         *)
(* A tree is the set of the files in it; the copy visits them in the order *)
(* of readdir, which is any.  The names are those of export-files.         *)
(***************************************************************************)
EXTENDS NoValue, Integers, Sequences, FiniteSets

CONSTANTS
    Files,          \* files that may be under /sdcard/
    Devices,        \* the block devices to be tried, a sequence
    MaxChanges      \* bound: files deleted or created during the run

ASSUME DevicesAssumption == Devices \in Seq(STRING) /\ Len(Devices) > 0

\* The errors child_main may end with, and the status it sends.
Errors == {"EPERM", "ENOENT", "EINVAL", "EIO", "ENOSPC", "EBUSY"}
Status == [rc : {0, -1}, err : Errors \cup {Nil}]

ASSUME NilAssumption == Nil \notin Errors \cup Status \cup {"0"}

VARIABLES
    present,        \* devices that can be mounted
    src,            \* files under /sdcard/, or Nil if it is not there
    changes,        \* changes made by the user so far
    connected,      \* the caller still holds its end of the socket
    mpc, dev,       \* of the parent: where it stands, index of the device
    errno,          \* of the parent after a failed try
    mret,           \* what the command returned, or Nil
    cpc,            \* of the child
    mounted,        \* the child's namespace has the drive mounted
    rc, saved,      \* its rc and saved_errno
    pipe,           \* the status it sent, or Nil
    left,           \* files copy_tree has still to visit
    kept,           \* history: files there since the copy began
    copied,         \* files on each device, in the export of this command
    cause           \* history: the error that ended the child's work, or Nil

userVars == <<present, src, changes, connected>>
parentVars == <<mpc, dev, errno, mret>>
statusVars == <<rc, saved, cause>>
treeVars == <<left, kept, copied>>
copyVars == <<present, src, changes, connected, mpc, dev, errno, mret, cpc,
              mounted, rc, saved, pipe, left, kept, copied, cause>>

CopyInit ==
    /\ present \in SUBSET (1..Len(Devices))
    /\ src \in (SUBSET Files) \cup {Nil}
    /\ changes = 0 /\ connected = TRUE
    /\ mpc = "find" /\ dev = 1 /\ errno = Nil /\ mret = Nil
    /\ cpc = "none" /\ mounted = FALSE
    /\ rc = -1 /\ saved = Nil /\ cause = Nil /\ pipe = Nil
    /\ left = {} /\ kept = {} /\ copied = [d \in 1..Len(Devices) |-> {}]

-----------------------------------------------------------------------------
(* The user.                                                               *)

Change ==
    /\ changes < MaxChanges /\ src # Nil
    /\ changes' = changes + 1
    /\ \E f \in Files :
       \/ f \in src /\ src' = src \ {f} /\ kept' = kept \ {f} /\ UNCHANGED left
       \/ /\ f \notin src /\ src' = src \cup {f}
          /\ left' = left \/ (cpc = "copy" /\ left' = left \cup {f})
          /\ UNCHANGED kept
    /\ UNCHANGED <<present, connected, parentVars, cpc, mounted, statusVars,
                   pipe, copied>>

Hangup ==
    /\ connected
    /\ connected' = FALSE
    /\ UNCHANGED <<present, src, changes, parentVars, cpc, mounted, statusVars,
                   pipe, treeVars>>

-----------------------------------------------------------------------------
(* child_main                                                              *)

\* goto out with saved_errno = e
Fail(e) ==
    /\ cpc' = "out"
    /\ saved' = e /\ cause' = e
    /\ UNCHANGED rc

\* print_progress with force writes to the caller: SIGPIPE if it is gone.
Printed(label) == connected /\ cpc' = label /\ UNCHANGED statusVars

MountPrivate ==
    /\ cpc = "private"
    /\ \/ cpc' = "mount" /\ UNCHANGED statusVars
       \/ Fail("EPERM")
    /\ UNCHANGED <<userVars, parentVars, mounted, pipe, treeVars>>

Mount ==
    /\ cpc = "mount"
    /\ \/ /\ dev \in present
          /\ mounted' = TRUE
          /\ cpc' = "measure"
          /\ UNCHANGED statusVars
       \/ dev \notin present /\ Fail("ENOENT") /\ UNCHANGED mounted
       \/ Fail("EINVAL") /\ UNCHANGED mounted
    /\ UNCHANGED <<userVars, parentVars, pipe, treeVars>>

\* measure_tree, then copy_tree up to its first file.
Measure ==
    /\ cpc = "measure"
    /\ \/ /\ src # Nil
          /\ Printed("copy")
          /\ left' = src /\ kept' = src /\ UNCHANGED copied
       \/ src = Nil /\ Fail("ENOENT") /\ UNCHANGED treeVars
       \/ Fail("EIO") /\ UNCHANGED treeVars
    /\ UNCHANGED <<userVars, parentVars, mounted, pipe>>

\* Mutant of CopyFile: the loop over a directory ends at a file that has gone,
\* with rc still 0.
CopyFileSkip(f) ==
    /\ cpc = "copy" /\ f \in left
    /\ \/ f \in src /\ left' = left \ {f}
          /\ copied' = [copied EXCEPT ![dev] = @ \cup {f}]
       \/ f \notin src /\ left' = {} /\ UNCHANGED copied
    /\ UNCHANGED <<userVars, parentVars, cpc, statusVars, mounted, pipe, kept>>

\* One entry of copy_tree: the first failure ends the copy.
CopyFile(f) ==
    /\ cpc = "copy" /\ f \in left
    /\ \/ /\ f \in src
          /\ copied' = [copied EXCEPT ![dev] = @ \cup {f}]
          /\ left' = left \ {f}
          /\ UNCHANGED <<cpc, statusVars>>
       \/ f \notin src /\ Fail("ENOENT") /\ UNCHANGED <<copied, left>>
       \/ Fail("ENOSPC") /\ UNCHANGED <<copied, left>>
    /\ UNCHANGED <<userVars, parentVars, mounted, pipe, kept>>

Copied ==
    /\ cpc = "copy" /\ left = {}
    /\ Printed("sync")
    /\ UNCHANGED <<userVars, parentVars, mounted, pipe, treeVars>>

\* sync_destination_filesystem: its failure is logged, rc becomes 0 all the
\* same.
Sync ==
    /\ cpc = "sync"
    /\ saved' \in {saved, "EIO"}
    /\ rc' = 0 /\ cpc' = "out"
    /\ UNCHANGED <<userVars, parentVars, mounted, cause, pipe, treeVars>>

\* Mutant of UmountFailed: the error of umount2 hides the one before it.
UmountFailedAlways == rc' = -1 /\ saved' = "EBUSY"
                      /\ cause' = IF rc = 0 THEN "EBUSY" ELSE cause

\* umount2 failed: an error of its own only if there was none before.
UmountFailed ==
    IF rc = 0 THEN rc' = -1 /\ saved' = "EBUSY" /\ cause' = "EBUSY"
              ELSE UNCHANGED statusVars

Umount ==
    /\ cpc = "out"
    /\ \/ mounted' = FALSE /\ UNCHANGED statusVars
       \/ mounted /\ UmountFailed /\ UNCHANGED mounted
    /\ cpc' = "send"
    /\ UNCHANGED <<userVars, parentVars, pipe, treeVars>>

\* The namespace goes with its last process, and the mount with it.
SendStatus ==
    /\ cpc = "send"
    /\ pipe' = IF rc = 0 THEN [rc |-> 0, err |-> Nil] ELSE [rc |-> -1, err |-> saved]
    /\ cpc' = "exited" /\ mounted' = FALSE
    /\ UNCHANGED <<userVars, parentVars, statusVars, treeVars>>

\* A signal: SIGPIPE from print_progress, or any other.
Killed ==
    /\ cpc \notin {"none", "exited", "killed"}
    /\ cpc' = "killed" /\ mounted' = FALSE
    /\ UNCHANGED <<userVars, parentVars, statusVars, pipe, treeVars>>

Child == \/ MountPrivate \/ Mount \/ Measure \/ (\E f \in left : CopyFile(f))
         \/ Copied \/ Sync \/ Umount \/ SendStatus \/ Killed

-----------------------------------------------------------------------------
(* try_mount_copy and mount_copy_unmount_ns                                *)

\* find_removable_blockdev: a drive may be there and none of its names work.
FindDrive ==
    /\ mpc = "find"
    /\ \/ mpc' = "try" /\ UNCHANGED mret
       \/ present = {} /\ mpc' = "done" /\ mret' = "ENODEV"
    /\ UNCHANGED <<userVars, dev, errno, cpc, mounted, statusVars, pipe, treeVars>>

\* The next device, or the errno of the last as the result of the command.
TryFails(e) ==
    /\ errno' = e
    /\ IF dev < Len(Devices)
       THEN mpc' = "try" /\ dev' = dev + 1 /\ UNCHANGED mret
       ELSE mpc' = "done" /\ mret' = e /\ UNCHANGED dev

\* pipe2, mmap, clone.
Clone ==
    /\ mpc = "try"
    /\ \/ /\ cpc' = "private" /\ mpc' = "wait"
          /\ rc' = -1 /\ saved' = Nil /\ cause' = Nil /\ pipe' = Nil
          /\ UNCHANGED <<dev, errno, mret>>
       \/ /\ TryFails("ENOMEM")
          /\ cpc' = "none" /\ cause' = Nil
          /\ UNCHANGED <<rc, saved, pipe>>
    /\ UNCHANGED <<userVars, mounted, treeVars>>

\* Mutant of Reaped: waitpid with WNOHANG.
ReapedAtOnce == cpc # "none"

\* Mutant of Reaped: waiting for WIFEXITED.
ReapedIfExited == cpc = "exited"

\* waitpid has returned.
Reaped == cpc \in {"exited", "killed"}

\* Nothing in the pipe: read_all meets the end of the file.
WaitChild ==
    /\ mpc = "wait" /\ Reaped
    /\ \/ /\ pipe # Nil /\ pipe.rc = 0 /\ cpc = "exited"
          /\ mpc' = "done" /\ mret' = "0"
          /\ UNCHANGED <<dev, errno>>
       \/ /\ pipe # Nil /\ (pipe.rc # 0 \/ cpc # "exited")
          /\ TryFails(IF pipe.err # Nil THEN pipe.err ELSE "EIO")
       \/ /\ pipe = Nil
          /\ TryFails(IF cpc = "killed" THEN "ECHILD" ELSE "EIO")
    /\ UNCHANGED <<userVars, cpc, mounted, statusVars, pipe, treeVars>>

Parent == FindDrive \/ Clone \/ WaitChild

CopyNext == Change \/ Hangup \/ Child \/ Parent

\* Parent and child are processes the kernel schedules; the caller reads what
\* it is sent or hangs up.
CopySpec == CopyInit /\ [][CopyNext]_copyVars
            /\ WF_copyVars(Child) /\ WF_copyVars(Parent)

-----------------------------------------------------------------------------
(* Properties.                                                             *)

\* mount_copy_ns.c, "Returns 0 on success": a command that returned 0 has, on
\* one device, every file that was there for the whole of the copy, whatever
\* the tries before left on others and whatever changed meanwhile.
DoneMeansCopied == mret = "0" => kept \subseteq copied[dev]

\* mount_copy_ns.c, "unmount, and wait for completion": whenever the parent
\* goes on, no process has the drive mounted, be the child killed or umount2
\* refused.
ReleasedOnReturn == mpc # "wait" => ~mounted

\* mount_copy_ns.c, "sets errno to the child's reported error where possible":
\* after a failed try whose child lived to report, errno is the first error
\* it met.
ErrnoIsTheCause ==
    mpc # "wait" /\ cpc = "exited" /\ mret # "0" => errno = cause

\* Every command ends, whatever the caller does.
CommandEnds == <>(mpc = "done")

=============================================================================
