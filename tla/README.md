# A verification project for DumbOS

DumbOS turns an Android phone into one whose owner cannot change it by himself:
what the phone may do is changed by *codes*, signed payloads that a server hands
out and a root daemon on the phone executes. This directory holds TLA+ modules
for the parts of that system, TLC configurations that check them on small
instances, and TLAPS proofs about eleven of them. Paths below are relative to
`src/`.

## 1. Inventory

| Component | Source | State | Operations |
|---|---|---|---|
| payload format | `dumbpayload.c`, `dumb.h` | expire field, command, data, signature | sign, verify, activate the expiry, compare it |
| code server in C | `server/src/` (`main.c`, `dumb_handler.c`, `dp_load.c`), `requestid.c` | code files, one file per spent request id | answer a request for a code |
| code server in Rust | `dumbtool/src/bin/dumbserver/`, `tables.rs`, `events.rs`, `dumb.rs` | code files (read only), request id table, event table behind a mutex | answer a request for a code, store an upload |
| code command | `daemon/secret_code.c`, `payload_cmd.c`, `util.c`, `curl.c` | settings, `tmp.apk`, installed packages | ask for a code, check it, execute it part by part |
| socket protocol | `daemon/daemon.c`, `handler.c`, `caller/`, `common.c` | two socket buffers | handshake, arguments, feedback, return code |
| firewall | `firewall/*.sh`, `daemon/payload_cmd.c` | whitelist file, chain `oem_out`, uids | allow, deny, allow-temp, flush, reload, install |
| user data | `daemon/command.c`, `dumbosd.rc`, `lockscreentext.c` | three files, init's queue, lock screen text | setname, init's copies, get-username |
| export and import | `daemon/mount_copy_ns.c`, `payload_cmd.c` | mount namespace, trees, errno | mount, copy, sync, unmount, report |
| program execution | `exec_wrapper.c` | pipe, child process | run a program, report why it could not be run |
| sing-box wrapper | `firewall/sing-box-wrapper.sh`, `dumbosd.rc` | whitelist and its two temporary files, configuration, service state | add, del, compile the configuration, start and stop the service |
| log upload | `daemon/command.c`, `daemon/curl.c`, `dumbosd-wrapper.sh`, `dumbos-log-upload.sh`, `daemon/daemon.c` | logs in use, logs moved away and their gzip, the socket's path | rotate, gzip, start, upload, remove |
| event log and server UI | `dumbtool/src/events.rs`, `tables.rs`, `dumbtool/src/bin/dumbserver/ui` | event table, its count, its mutex | append, read, clear, draw |
| payload tools | `server/src/dumb-main.c`, `dumb-tool-cmd-set.c`, `dumbtool/src/bin/dumbtool`, `dumbpayload.c` | one payload file | new, sign, set expiry, command and data |
| cryptography, policy, build | `ed25519.c`, `sepolicy/`, `Android.bp` | none | none |

**How they interact.** A caller connects to the daemon's socket; the daemon
forks a handler for it, so handlers run side by side and share everything on the
device. For the command `code` a handler asks the network for the time, signs a
request (user, fresh id, time), downloads the payload and executes it. A server
spends the request id, reads the code file, fixes a relative expiry at the first
use, signs and answers. Payload commands call programs through `execv_wrapper`:
`pm`, `settings`, the firewall scripts. `setname` leaves a file to init, which
copies it to the persist partition, and back at every boot. Wrapper scripts move
the logs of earlier starts to one directory and gzip them there while an hourly
script uploads that directory through the daemon to the server. An edit of the
sing-box whitelist restarts a service of init. On the server, an administrator's
tool rewrites payload files in place while the server reads them and writes
activated ones back; the Rust server's UI is a thread of the same process and
shares the event table with the request handlers.

**What is hard.** Crashes between the file operations of a server; requests
delivered twice, late or never; answers that come after the deadline; handlers
and scripts that interleave without locks; programs that fail in the middle of a
sequence; callers that hang up (no process handles SIGPIPE); init as a second,
slower actor; pipes and sockets on which two processes wait for each other. The
full list, each item at its line with the properties that would catch it, is
`hazards` in `PROJECT.json`.

**What correctness means.** *Servers*: an id is answered once; a code has one
window, fixed by its first use, also for whoever reads the disk after a crash;
what is answered is on record. *Device*: a code granted in time is not refused
for being slow; parts run in order; a handler ends. *Protocol*: the caller exits
with the command's result. *Firewall*: what passes is what the whitelist says.
*User data*: set once, survives boots. *Copy*: 0 means complete, the drive is
released. *Execution*: the result is the program's.
*Logs*: a log leaves the device only for the server, whole. *Event log*: what was
recorded stays. *sing-box*: a failed edit changes nothing, a complete one takes
effect. *Tools*: a payload file is one edit's work or recognisably cut short.

## 2. Modules

| Module | What it models |
|---|---|
| `Payload` | the operators of `dumbpayload.c`: expire fields (an optional `:`, a number or `Unparsable`), `dp_get_expire_or_set`, comparison, signatures as records of what they cover |
| `CodeLedger` | abstract: a list of payloads handed out that grows only by admissible entries |
| `CodeServer` | the C server; one action per file operation of `dumb_handler` and `dp_malloc_check_load`, and administrators, the clock, redelivery and crashes |
| `DumbServer` | the Rust server; handlers are concurrent tasks, `exists` and `insert` are separate steps, a failed event panics and poisons the mutex; extends `EventLog`, and so is composed with the UI |
| `SecretCode` | handlers of the code command, composed with a server that keeps `CodeLedger`'s promises and a network that delays and loses |
| `CallerSession` | client and handler, byte by byte over bounded buffers |
| `Firewall` | scripts as processes, any number at once, one external command a step, each of which may fail |
| `UserData` | `cmd_setname` in concurrent handlers at any time, init's queue of copies and their failures, reboots |
| `MountCopy` | parent and cloned child of `mount_copy_unmount_ns`, the tries of `try_mount_copy` |
| `ExecWrapper` | parent and child of `execv_wrapper` |
| `EventLog` | the event table with its count, mutex and poisoning, the UI thread, and the tool that clears the table |
| `LogArchive` | abstract: a log is on the device until the server has all of it, unless it was torn |
| `LogUpload` | rotation, gzip, the daemon's start on its socket, the hourly script, `cmd_upload_data` and the server's answer |
| `SingBox` | edits of the whitelist, the service that compiles it, failures, kills and reboots |
| `PayloadTool` | every command of both tools that changes a payload file, as file operations, beside the C server |
| `NoValue` | `Nil`, the value of what has none, shared by modules that are proved about together |
| `CodeServerProofs`, `DumbServerProofs`, `SecretCodeProofs`, `FirewallProofs`, `LogUploadProofs`, `SingBoxProofs`, `PayloadToolProofs` | the TLAPS proofs about the module of that name, see section 4 |
| `ProcessProofs` | the TLAPS proofs about `UserData`, `ExecWrapper`, `MountCopy` and `CallerSession`, four systems that do not interact; their definitions have distinct names (`WrapperInit`, `CopyInit`, `CallInit`) so that one module can extend them |
| `MC*` | small sets of values for TLC |

The correspondence of every definition to its lines is `map` in `PROJECT.json`.
In `CodeServer`, `pc` walks through `claim` (the `O_EXCL` open), `load`, `check`
(`dp_is_expired`), `write` (the write back) and `respond`; `mem` is the payload
between read and answer, `linked` says whether the open descriptor still is the
file its path names, and `edition` numbers the contents an administrator has
given a file. In `Firewall`, `faults` collects what has gone wrong since the chain
was flushed: `"flush"`, `Reject`, `Sbox` or the uid (that of root included) for a
call of iptables that failed, and `"overlap"` for scripts side by side; `last` is
the run that began last and `reloaded` the packages it had found when it came to
its end. A script goes where the code sends it: past a failed `-I` of a rule with
a message (`dumbos-firewall.sh:60`, `:66`), to `die` after a failed `-F` or
`-A REJECT` (`:33`, `:34`), out by `set -e` after a failed jump (`:70`), and on
whatever happens in `dumbos-firewall-init.sh`. In `UserData`, `faults` says
whether since the boot setnames have raced (`"race"`) or a copy of init has failed
(`"copy"`), and `spoilt` whether that ever happened. Variables whose declaration says "history" record what the
properties speak of; no guard of the code's actions reads them, only bounds on
what is asked for. The definitions whose comment starts with "Mutant of" are
faulty variants of the one that follows; nothing uses them, and each is there to
show that a property can fail.

`SecretCode` and `CallerSession` meet in what a caller sees: `SecretCode` reduces
the socket to "still connected", `CallerSession` reduces the command to what it
writes and returns. `Firewall` and `MountCopy` detail commands that are one step
in `SecretCode`. `LogUpload` reduces the server to the table `DumbServer` has;
`LogArchive` is its refinement `ArchiveSpec`, as `CodeLedger` is `CodeServer`'s.

In `LogUpload` a log is a number, `plain` and `gz` are its two possible files,
and `zip` is where its gzip stands; `torn` collects logs of which an unfinished
gzip output was uploaded and removed. In `SingBox` each edit is a walk through
the lines of the script, with `tmp` and `tmptmp` for the files of fixed name that
all edits share. In `PayloadTool` the file is a header and a sequence of blocks,
so that it can be cut after the header or inside the data; `before` is the file
as the last run found it and `whole` the contents complete edits have made.

## 3. Runs

| Run | Checks | Bounds | Distinct states |
|---|---|---|---|
| `code_server` | `TypeOK`, `IdServedOnce`, `OneWindowPerEdition`, `DeadlineOnDisk`, `IInv`, `LedgerSpec` | one user, one code in two places, two ids, four kinds of expiry, two contents a file, three seconds, default expiry one second | 2.4 million |
| `dumb_server` | `DuplicateOnlyIfConcurrent`, `AuditBeforeGrant`, `EventsKept` | two tasks, two ids, three deliveries, two starts of the process, three seconds | 3.5 million |
| `dumb_server_duplicate` | violates `IdServedOnce` | two tasks, one id | |
| `secret_code` | `GrantedCodeAccepted`, `CodeRunsInOrder`, `AdbNeedsDev`, `InstallsGivenApk`, `HandlerEnds` | two handlers, six codes (composites, nested, unsigned part, part that expires, unknown command, wrong size, two packages), three seconds | 300 thousand |
| `caller_session` | `ExitIsReturn`, `ClientEnds` | up to three arguments, one too long; buffers of 3 and 12 bytes | 7 thousand |
| `firewall` | `OnlyListedPass`, `ListedPass`, `OnlyRootAndTempsAround` | two apps, two uids, every kind of request, the script at boot beside handlers that follow each other, one failed call since the flush, one rule of `oem_sbox` missing or none, fewer than four rules when an allow-temp begins | 6.0 million |
| `user_data` | `UserSurvives`, `ReplacedOnlyByRace`, `UserTakesEffect` | two users, junk, two setnames a boot at any time, any number of reboots and failures | 110 thousand |
| `mount_copy` | `DoneMeansCopied`, `ReleasedOnReturn`, `ErrnoIsTheCause`, `CommandEnds` | two files, three device names, one change of the tree | 220 thousand |
| `exec_wrapper` | `ResultIsPrograms`, `ExecErrorReported`, `NoZombie`, `WrapperEnds` | four exit statuses, two errnos, two signals | 121 (all there are) |
| `log_upload` | `ZeroMeansStored`, `StaleOnlyByDeath`, `ArchiveSpec`, `ScriptEnds` | two logs followed, any number of restarts, reboots and uploads, requests of one or two files | 710 thousand |
| `sing_box` | `EditsAtomic`, `DelRemoves`, `InEffectAtLast` | two scripts, two domains and one of the system, three edits of four kinds, one failure or kill | 1.1 million |
| `payload_tool` | `WholeOrCut`, `SignedStaysGood`, `AcceptedIsWhole` | 15 command lines of both tools, four runs, two requests to the server, data of at most two blocks | 815 thousand |

**Why the bounds are enough to be interesting.** Two ids let a code be used twice
and a request be repeated; three seconds let a request, a relative and a fixed
expiry each run out with a use before and after; two contents let the file
change behind the handler. Two handlers, or a script at boot and a handler, are
the smallest number that can race. One failed call is what a rule's place depends
on; more are in the proofs, which have no bound. Two apps let one be let through
while the other is not, and one be installed with the uid of the other.
Buffers of three bytes make every write of the client block, and twelve are the
longest answer a handler may have to leave unread (`CapacityAssumption`; real
buffers are far larger than both). Two files let a copy be half done, three
names are all the code tries. Two logs are a log being zipped while another is
rotated or uploaded; what comes after them is not followed but restarts and
uploads go on. Three edits are one that fails, one beside it and one that
repairs; one fault of each kind at any line is what a single accident does. Four
runs of a tool are new, set, sign and one that spoils it, and two blocks of data
are the least that can be cut in the middle. Symmetry is used only in runs without liveness,
over ids, tasks, uids and script runs, none of which the modules order or name.
Deadlock is not checked where the processes of a run end, or where the clock and
the deliveries are bounded; `Firewall`, `UserData` and `LogUpload` can always be
rebooted and have it checked.

**Fairness.** Only of processes the kernel schedules: each handler in
`SecretCode` (curl has connect and total timeouts, so a download ends; the
programs it runs are taken to end), both ends in `CallerSession`, parent and
child in `MountCopy` and `ExecWrapper`, init in `UserData`, the hourly script and
its handler in `LogUpload` (but not the answer to a post: `post_buffer` has no
timeout, so `ScriptEnds` allows waiting for one for ever), each edit, the
service and the end of a boot in `SingBox` (init restarts the service). None for
servers, networks, callers, users, reboots or kills. `CodeServer`, `DumbServer`,
`Firewall` and `PayloadTool` are checked for safety only.

### Where code and documentation part

`dumb_server_duplicate` is the `finding` of `PROJECT.json`: `server.rs` looks an
id up and inserts it in two steps, so two overlapping deliveries both get the
payload. `DuplicateOnlyIfConcurrent` shows that this is the only way.

Eight more sentences of the repository are stated as properties that the code does
not have. Each has a configuration of its own, outside the list of runs, with
which TLC finds the counterexample; the passing property beside it says what is
true instead. Each is for the `MC` module its name begins with, the one of the
user for `UserData`: `tlc -config MCFirewallRoot.cfg MCFirewall`.

| Configuration | Property | The sentence | What the code does | What holds |
|---|---|---|---|---|
| `MCDumbServerWindow` | `OneWindowPerCode` | `dumb.h:38`, "the code will expire DEFAULT_EXPIRE_TIME seconds after being used for the first time" | `dumbcode.rs:109` fixes the expiry in memory and never writes it back: each use starts it again | |
| `MCSecretCodePart` | `GoodSignatureAccepted` | `dumb.h:52`, ":<integer>" is "expiring <integer> seconds after use" | `dp_is_expired_compare` (`secret_code.c:39`) rewrites the expiry of a part before `dp_verify` (`:45`) checks it: the part is refused as forged | `GrantedCodeAccepted`, of parts with an absolute expiry |
| `MCSecretCodeInstall` | `InstallsGivenApkAtOnce` | `dumb.h:81`, "install package given in data" | two handlers at once share `tmp.apk` (`payload_cmd.c:102`) | `InstallsGivenApk` |
| `MCFirewallOverlap` | `OnlyListedPassAtOnce` | `dumb.h:104`, "add, remove, or flush list of internet-enabled apps. will reload firewall" | a reload that read the list before a deny (`dumbos-firewall.sh:42`) inserts the app after the deny's flush | `OnlyListedPass` |
| `MCFirewallRoot` | `NoneAroundWithoutRoot` | `dumbos-firewall-init.sh:21`, "Block all other non-root outgoing traffic"; `dumbos-firewall.sh:14`, of the uids that "can bypass sing-box" | after a failed rule of root (`:66`) position 2 (`:70`) is behind the rule of an app | `OnlyRootAndTempsAround` |
| `MCFirewallStolen` | `UidNotStolen` | `payload_cmd.c:69`, "to prevent stealing UID of previously allowed but uninstalled app" | an app removed after the reload (`:72`) and before `pm install` leaves its uid, which has a rule, to the new one | `OnlyListedPass` |
| `MCUserDataReplaced` | `UserKept` | `command.c:67`, "sets the DumbOS user data, only if it's not already set" | `command.c:180` looks for the copy in `/dev`, which init makes only at `sys.boot_completed` | `ReplacedOnlyByRace` |
| `MCPayloadToolSize` | `SizeIsThatOfData` | `dumb.h:60`, "the size of the data" | `set_data` (`dumb-tool-cmd-set.c:118`) leaves `data_size` as it was | `AcceptedIsWhole`, of data the Rust tool wrote |

`MCFirewallAtOnce.cfg` is outside the list as well: three scripts at once that
allow and deny one app, for which `ListedPass` and `OnlyRootAndTempsAround` hold
(2.0 million states; the theorems of section 4 cover any number of scripts).

The properties of the passing runs are qualified where TLC or the reading of the
code showed that more does not hold:

* `OnlyListedPass`, `ListedPass` and `OnlyRootAndTempsAround` each name the
  failures since the last flush that they do not survive, and hold under all
  others. Of listed apps: only the failed insertion of their own rule. Of what
  gets around `oem_sbox`: REJECT, the rule of root and the jump. Of what passes
  at all: the flush, REJECT, and scripts side by side.
* `UserSurvives`, `ReplacedOnlyByRace` and `UserTakesEffect` name two things that
  they do not survive: a `setname` past its check while a user is still on its way
  to `/dev`, and a copy of init that failed.
* `InstallsGivenApk` and `AdbNeedsDev` except `overlapped` states: two handlers
  share `tmp.apk` (`payload_cmd.c:102`) and the two settings of adb.
* `CodeRunsInOrder` speaks of codes that were asked for: if the URL cannot be
  built, `secret_code.c:187` returns the 0 of the call before.
* `ExitIsReturn` is checked with commands that write no empty string, as
  `command.h:6` asks; `secret_code.c:60` writes the payload's command, which may
  be empty, and the client then takes a length for the return code.
* `OnlyRootAndTempsAround` exempts apps of allow-temp: their rule comes before
  the jump to `oem_sbox` (`firewallctl.sh:105`).
* Nothing is claimed of the 0 of `firewallctl.sh:173`, which ignores the status
  of the reload, nor of the sync in `mount_copy_ns.c:478`, whose failure is only
  logged, nor of which of three failed tries is reported (`payload_cmd.c:226`:
  the last, usually `ENOENT`).
* Nothing is claimed of `EUSERS`: after data that is no user data `setname` is
  refused as if there were a user (`command.c:181`). As the result of `fclose` is
  ignored (`command.c:212`), a file cut short can be such data; on the persist
  partition it keeps every later `setname` from setting a user.
* `ArchiveSpec` exempts `torn` logs: the glob of `dumbos-log-upload.sh:11` takes
  the unfinished output of a gzip at work like any other file. `x.log` comes
  before `x.log.gz`, so usually the log itself has been uploaded by then; if that
  upload failed and the next one succeeds, the output is removed half written,
  and gzip goes on to remove the log.
* `StaleOnlyByDeath`: the socket of a daemon that died makes every later start
  fail until the next boot (`daemon.c:130`), and each of these starts rotates a
  log; the property says that nothing else does.
* `ZeroMeansStored`: a command with two files always fails at the second, whose
  request id is spent (`command.c:293`); the answer is taken to be the server's,
  as `post_buffer` takes every status below 400 for success. The C server has no
  route for uploads and answers 404.
* `EditsAtomic` excludes `overlap`: all edits use one temporary name
  (`sing-box-wrapper.sh:27`), and two at the same time lose domains or the list.
  `InEffectAtLast` excludes `cut`: an edit killed between `mv` and `start` leaves
  the service stopped or with the old list. The loop over `"$@"` writes the verb
  itself into the list, which is what keeps `del` from failing at the last domain.
* `AcceptedIsWhole` excludes `unsized`: a payload with data the C tool has set is
  refused for its size, and with the size of an earlier edit a cut file may fit.
* `WholeOrCut` and `SignedStaysGood` exclude `overlap`: the server's write back
  of the payload it had read goes over an edit made in between. `SignedStaysGood`
  speaks of payloads that need no activation: activating a relative expiry
  changes what the signature covers.
* Four commands of the Rust tool (`cmdset.rs:7`: ok, file-export, file-import,
  firewall-flush) return Ok and write nothing (`WritesNothing`). The C tool's
  `new` opens without `O_TRUNC` (`dumb-main.c:78`), so old data stays, and it
  does not look at the results of `fwrite` and `fclose`, so it returns 0 on a
  full disk.

## 4. Proofs

TLC shows a property for a few files, tasks or edits; the theorems show it for
any number of them, for all values of the constants that satisfy the named
assumptions, and without the bounds. Every proof has the same shape: an
invariant `IInv` that contains or implies the properties, the lemma that `Init`
establishes it, one lemma or step per action that can disturb one of its parts,
and a theorem or lemma `Inductive` (`Spec => []IInv`) from which the properties
follow. Each `IInv` was an invariant of the run's model for TLC before it was
proved, except `OrderInv` and `ReplyInv` below, which quantify over all sequences
or all sets of places and so are only proved. None of the properties is
inductive as it stands; what each `IInv` adds is said below.

**`CodeServerProofs`**: `TypeCorrect`, `ServedOnce`, `OneWindow`, `OnDisk`, and
`ImplementsLedger`, the refinement of `CodeLedger`. Assumed: `Nil` is none of
the values, the global directory is no user's, the bounds and the default expiry
are numbers. The properties speak of payloads handed out; whether the next one
is right depends on what the handler carries in memory and on the disk.
`SpentInv`: the file of every answered id is on disk and the id the handler has
claimed is not among them. `EditionInv`: nothing bears the number of a content
still to be written, so a new content shares nothing with payloads of old ones.
`MemoryInv`: the payload in memory has the deadline of all payloads of its
content; when it is read, this comes from `DiskInv` (what is on disk is what was
handed out, and activating a fixed deadline changes nothing, lemma
`ActivationOnce`). `LinkInv`: a file replaced behind the handler has another
edition, so writing to the old descriptor does no harm. `WrittenInv`: before the
answer, the disk has the deadline the answer will carry.

**`DumbServerProofs`**: `DuplicatesConcurrent`, `GrantsAudited`, and the action
property `EventsStay`. Assumed: the global directory is no user's, expire fields
are fields, the default expiry is a number. `TableInv` is the reason why only
concurrent handlers duplicate an answer: every id answered or about to be is in
the table, and a handler past `exists` has the id of none of the answers there
were when it began. `LogInv` says that, unless the mutex is poisoned, the count
is the number of stored events, so `push` never overwrites one. `AuditInv`
counts the handlers between their event and their answer; `CodeEvents` is the
cardinality of a set of keys, and the lemmas say how a push and a clear change
it.

**`SecretCodeProofs`**: `GrantedAccepted`, `AdbWithDev`, `GivenApkInstalled`,
`CodeInOrder`. Assumed: the payloads of code files, and the parts of composite
ones at any depth (constant `Parts`), have the fields of `struct DUMB_PAYLOAD`;
`Nil` is not the status `"0"`; and `CommandsAssumption`, the equations of the
recursive function `Commands` that lists the commands of a sequence of payloads,
at the suffixes of every composite's data. Those hold for payloads of finite
depth; TLC evaluates them, and the prover, which has no induction over data,
takes them as given. `RequestInv` ties the server's clock to the handler's idea
of the time: the payload a handler holds was alive when, at the earliest, the
request was signed, and that is the time it is compared with. `CommandInv` and
`DeviceInv` say what a handler in the middle of a command has done to the two
settings and to `tmp.apk`, as long as no other was there. `OrderInv`, for
`CodeInOrder`: the commands that have run, followed by those that the payloads
still to be handled stand for (`StandFor`), are what the code stands for;
opening a composite replaces it by its parts, which stand for the same
(`CompositeStandsFor`, `ConcatStandsFor`).

**`ProcessProofs`**, four systems.

* `UserData`: `Survives` and the action property `Kept` (`ReplacedOnlyByRace`),
  for any number of handlers that call `setname` at any time, before
  `sys.boot_completed` too, copies that fail, kills and reboots. Assumed: `Nil`
  and junk are no users. The invariant is conditional, as the properties are:
  while `faults` is empty, `StageInv` lists where init stands between two boots
  and what that says of the three files, and `LiveInv` says that at most one
  `setname` is past its check, with init idle and no user in `/dev`; while
  `spoilt` is false, `faults` is empty and the lock screen shows the user of the
  persist partition. A reboot empties `faults`, so the first part must hold again
  at boot whatever the persist partition has by then.
* `ExecWrapper`: `ResultCorrect`, `ErrorReported`, `ChildReaped`, for all exit
  statuses (0..255), errnos and signals (1..64). `PipeInv` and `ReadInv` say that
  the parent sees the end of the file only when no process can write an errno
  any more; `EndInv` how the child ended; `ReturnInv` lists the ways to return.
* `MountCopy`: `CopyComplete`, `DriveReleased`, `CauseReported`, for any set of
  files and any sequence of devices. Assumed: there is a device name, and `Nil`
  is no error. `CopyInv`: every file that was there all the time is copied or
  still to be visited. `StatusInv` follows the first error through `saved_errno`
  and the pipe; `MountInv`: the mount lives no longer than its child, and the
  parent waits for that.
* `CallerSession`: the action property `ExitCode`, for any arguments, commands,
  buffer sizes and deaths of either process. Assumed: a command writes strings
  that are not empty and fit an `unsigned short`, and returns an int
  (`CommandsAssumption`, what `command.h:6` asks of every command). The property
  is about two bytes that the client reads in the end; `ReplyInv` says what is
  right about all that come before. `Coming` is what the client has read of its
  current string, what is in the socket and what the handler has still to write,
  so that reading and writing leave it as it is. `WellFrom(s, k, r)`: whoever
  expects a string at byte `k` of `s` and goes from string to string can only
  come to an empty one that is followed by the code `r`. It is a set of places
  closed under "the next string" (`Cuts`), and putting bytes in front or taking
  them away moves the set (`WellShift`, `WellDrop`). The handler's replies are
  well cut (`WellMessages`, `WellEnding`), its double report of a failed
  allocation and its `E2BIG`, which lacks the empty string, included: the client
  takes that one for a length, and never comes to a return code.

**`FirewallProofs`**: `ListedOnly`, `AllListed`, `TempsOnlyAround`, for any apps,
uids and requests, any number of scripts at once, failures of every call and
reboots; nothing is assumed of how scripts take turns. Assumed: the uids of apps
are not root's and no target of a rule, the default list names apps, and requests
have the arguments of their command. A chain is read rule by rule, so the proof
is about where rules stand: lemmas say what prepending, appending and inserting
at position 2 do to that (`HasPrepend`, `ChainAppend`, `ChainSecond`), and
`PassesRule` and `RulePasses` connect it with what passes. `Base` has the types,
the jobs of the scripts, and that no two apps share a uid; then there is a part
of the invariant for each property.

* `ListInv`, for `AllListed`: nothing but jumps comes after a REJECT, so a rule
  that is there counts; and for the run that began last, every package of the list
  it has read is still to be inserted, has its rule, or failed (`LastInv`, `EndInv`
  after its end). Other runs only add rules, as whoever flushes becomes the last;
  and whoever changes the whitelist behind that run is still to flush (`Pending`).
* `AroundOK`, for `TempsOnlyAround`: unless REJECT, the rule of root or the jump
  failed, a rule of an app that allow-temp did not insert is the first of the chain
  only while some run is still to insert the rule of root, and stands before every
  jump only while some run is still to insert that rule or its jump. Scripts may
  interleave freely: a jump put at position 2 behind the rule of an app is followed
  by another run's rule of root and its jump.
* `SeqOK`, for `ListedOnly`: unless the flush or REJECT failed or scripts
  overlapped, at most one run is live and every rule is for a listed app, or the
  flush that removes it is awaited.

**`LogUploadProofs`**: `ZeroStored`, `SocketByDeath`, and `ImplementsArchive`,
the refinement of `LogArchive`, for any number of logs. Assumed: `MaxLogs` is a
number. `ZipInv`: a log is zipped once, and its gzip unlinks only what is in the
`.gz`, on the server or torn. `CallInv`: the script, its handler and the file the
handler has read are about the same path, and a return code 0 means that what
was read is on the server; so `rm` removes what `NoneLost` can do without. The
first path of the glob is the least one; that there is one is lemma `HasLeast`.

**`SingBoxProofs`**: `EditsWhole` and the action property `DelSound`, for any
command lines, processes, edits and faults. Assumed: a command line is `add` or
`del` and at least one domain, and no domain is the word `add` or `del`.
`AtWork`: the temporary file of an edit that is alone is the whitelist with the
words gone through added or taken away, the verb included. `VerbKept`: a list
with a domain has the line `add`. It is what makes `DelSound` true: a `del`
never takes that line away, so `grep` ends it only if there was no domain.

**`PayloadToolProofs`**: `FileWholeOrCut`, `SignedLasts`, `AcceptedComplete`, for
any command lines and payloads of any length. Assumed: command lines have the
arguments of their operation, times are numbers, `Nil` is no file and not 0.
`RunOK`: during a run the file is untouched, or the blocks written so far.
`MemOK`: what the server holds is a leading part of the file, its expiry apart,
also while the file grows; so writing it back changes the header only
(`OverlayLeading`), and nothing at all if the expiry is absolute. `FileOK`: a
file whose size is right is one complete edit; a cut one has the header's size
only when it is not cut (`WriteStep`), and the `new` of the C tool over old data
never has (`OverlayNew`). All of it is claimed only until tool and server write
over each other.

The `Inductive` of `CodeServer` is also a property of its run. Left to TLC is
liveness (`HandlerEnds`, `ClientEnds`, `UserTakesEffect`, `CommandEnds`,
`WrapperEnds`, `ScriptEnds`, `InEffectAtLast`), which this prover does not
reach. Every other property of a passing run has a theorem.

## 5. Abstractions and what is not modelled

* A signature is a record of the payload it covers, or `<< >>`; keys are never
  wrong. Commands and data of a payload are opaque to the servers.
* In `CodeServer` the open of a personal code file fails only if there is none;
  reading and writing back a file are one step each, and a failed write leaves
  the old content or the new one. Failed allocations end in the same answers as
  other failures.
* `SecretCode`'s server answers a request at most once and keeps what
  `CodeLedger` promises; its clock is the network's.
* The signature of a request covers user, id and time, not the code
  (`requestid.c:32`, `:64`); in `CodeServer` the code is part of what is delivered
  again, and no property depends on that.
* `EventLog` has the panic of a push that fails; a panic of the `println!` after a
  push that succeeded is left out.
* IPv4 and IPv6 are one chain: a call that succeeded for one family and failed for
  the other counts as a failure with or without its effect. Package names are well
  formed.
* init's `copy` reads the source, truncates the target and writes; a copy that
  fails leaves the target as it was or cut short, and init goes on.
* `SecretCode` writes `tmp.apk`, and `PayloadTool` overwrites a file of the same
  length in place (`WriteInPlace`), in one step that happens or does not.
* System calls that return EINTR are repeated by the code and left out.
* In `LogUpload` names of logs are unique, and a closed file survives a power
  failure. Handlers and gzips live on when the daemon dies, though init kills the
  process group of a service it restarts: the model has more behaviours than the
  device. What a handler still writes to a log that was rotated is not followed.
* In `SingBox` the lists and the configuration are sets of domains; in
  `PayloadTool` one tool runs at a time, and a request comes at any of `Times`.
* Not modelled, each because it keeps no state of its own or is a single call:
  the widgets and the user screen of the UI, the creation of users and keys
  (`new-user`, `mkkey`), `setpin`, the wifi, OEM and shell commands, the option
  parsing of `daemon/main.c`, the static routes of the C server's `main.c`.
  Cryptography is a library; policy and build files have no behaviour. Writing a
  command longer than its field (`set-cmd-raw`) is undefined and left out.

## 6. Plan

All components with state of their own are modelled, in the order of importance:
`Payload`, `CodeServer` with its ledger and proofs, `DumbServer` with
`EventLog`, `SecretCode`, `CallerSession`, `Firewall`, `UserData`, `MountCopy`,
`ExecWrapper`, `LogUpload` with its archive, `SingBox`, `PayloadTool`. The safety
properties of all passing runs are proved. Next:

1. A check of `SecretCode`'s server against `CodeServer`.
2. The creation of users, beside a server that looks for their files.
