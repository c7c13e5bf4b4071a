------------------------------ MODULE Firewall ------------------------------
(***************************************************************************)
(* The per-app firewall: the chain oem_out of iptables, the whitelist file *)
(* of apps, and what rewrites them: dumbos-firewall.sh (reload),           *)
(* dumbos-firewallctl.sh (allow, deny, allow-temp) and the payload         *)
(* commands fw-flush and install-this, which call them.  Every line of the *)
(* scripts that touches shared state is a step; scripts started by         *)
(* different handlers of the daemon, by init at boot and by the user's own *)
(* removal of apps interleave.                                             *)
(*                                                                         *)
(* IPv4 and IPv6 have a chain each and are given the same rules in turn:   *)
(* one chain stands for either.  Every call of iptables may fail, by       *)
(* itself or because the call for the other family failed before it; what  *)
(* fails is recorded until the chain is flushed, for the properties.  What *)
(* a script returns is left out where nothing acts on it.                  *)
(***************************************************************************)
EXTENDS Integers, Sequences, FiniteSets

CONSTANTS
    Apps,           \* packages
    Uids,           \* uids pm may give to an app
    Root,           \* uid 0
    Default,        \* packages of /system/etc/dumbos-firewall.conf
    Removable,      \* packages the user may uninstall
    Runs,           \* script runs; bound: as many at the same time
    Boot,           \* the run of dumbos-firewall-init.sh
    Requests,       \* what handlers are asked: [do |-> ..., apps |-> <<...>>]
    MaxRules,       \* bound: rules in the chain when an allow-temp is asked for
    MaxFaults,      \* bound: failures of iptables between two flushes
    SboxOutcomes,   \* bound: which rules oem_sbox may end up with
    Nil

ASSUME RunsAssumption == Boot \in Runs
ASSUME DefaultAssumption == Default \subseteq Apps

Reject == "REJECT"
Sbox == "oem_sbox"

\* No app has uid 0, and every request but fw-flush names an app.
ASSUME UidsAssumption ==
    /\ Root \notin Uids
    /\ {Reject, Sbox, Nil, "flush", "overlap"} \cap (Uids \cup {Root}) = {}
    /\ Nil \notin Runs \cup {Reject, Sbox}
ASSUME RequestsAssumption ==
    /\ Requests \subseteq
          [do : {"allow", "deny", "allow-temp", "fw-flush", "install-this"},
           apps : Seq(Apps)]
    /\ \A q \in Requests : q.do # "fw-flush" => q.apps # << >>

VARIABLES
    uid,            \* uid of each installed package, or Nil
    conf,           \* lines of /data/local/tmp/dumb/dumbos-firewall.conf
    chain,          \* oem_out: Reject, a jump to Sbox, or the uid to RETURN
    sbox,           \* oem_sbox: which of its rules are there, of SboxRules
    pc,             \* of each run
    job,            \* the request it carries out
    tmp,            \* its TMPFILE: the filtered whitelist of a deny
    packages,       \* PACKAGES, then what of it is still to be inserted
    listing,        \* its copy of pm list packages
    temps,          \* history: <<app, uid>> let through by allow-temp, ...
    faults,         \* history: what failed, or went on side by side, ...
    last,           \* history: the run that last began to set up the chain
    reloaded        \* history: its listing once it has come to its end, or Nil
                    \* ... since the chain was flushed

runVars == <<pc, job, tmp, packages, listing>>
history == <<temps, faults, last, reloaded>>
vars == <<uid, conf, chain, sbox, pc, job, tmp, packages, listing, temps, faults,
          last, reloaded>>

SboxRules == {"root", "tun0", "drop"}

NoJob == [do |-> "init", apps |-> << >>]

\* The device boots: the chains are empty until init runs its script.
Init ==
    /\ uid \in [Apps -> Uids \cup {Nil}]
    /\ \A a, b \in Apps : a # b /\ uid[a] # Nil => uid[a] # uid[b]
    /\ conf \in SUBSET Apps
    /\ chain = << >> /\ sbox = {}
    /\ pc = [r \in Runs |-> IF r = Boot THEN "init" ELSE "idle"]
    /\ job = [r \in Runs |-> NoJob]
    /\ tmp = [r \in Runs |-> {}]
    /\ packages = [r \in Runs |-> {}]
    /\ listing = [r \in Runs |-> [a \in Apps |-> Nil]]
    /\ temps = {} /\ faults = {} /\ last = Nil /\ reloaded = Nil

Live == {r \in Runs : pc[r] \notin {"idle", "end"}}

Goto(r, label) == pc' = [pc EXCEPT ![r] = label]

-----------------------------------------------------------------------------
(* The user and the daemon.                                                *)

\* What goes wrong is noted for the properties.
Note(new) == faults' = faults \cup new
Fails(what) == /\ Cardinality(faults \ {"overlap"}) < MaxFaults
               /\ Note({what})

\* The user removes an app, perhaps while another is being installed.
Uninstall(a) ==
    /\ a \in Removable /\ uid[a] # Nil
    /\ uid' = [uid EXCEPT ![a] = Nil]
    /\ Note(IF \E r \in Live : job[r].do = "install-this" THEN {"overlap"} ELSE {})
    /\ UNCHANGED <<conf, chain, sbox, runVars, temps, last, reloaded>>

\* Mutant of FirstStep: install-this without the reload.
FirstStepUnguarded(q) == CASE q.do \in {"allow", "deny", "allow-temp"} -> "app"
                           [] q.do = "fw-flush" -> "unlink"
                           [] q.do = "install-this" -> "install"

\* Where the script or command a payload asks for begins.
FirstStep(q) == CASE q.do \in {"allow", "deny", "allow-temp"} -> "app"
                  [] q.do = "fw-flush" -> "unlink"
                  [] q.do = "install-this" -> "flush"

\* A handler of the daemon starts a script or a command, perhaps beside others.
Start(r, q) ==
    /\ pc[r] = "idle"
    /\ q.do = "allow-temp" => Len(chain) < MaxRules
    /\ Goto(r, FirstStep(q))
    /\ job' = [job EXCEPT ![r] = q]
    /\ Note(IF Live # {} THEN {"overlap"} ELSE {})
    /\ UNCHANGED <<uid, conf, chain, sbox, tmp, packages, listing, temps, last,
                   reloaded>>

-----------------------------------------------------------------------------
(* dumbos-firewallctl.sh                                                   *)

App(r) == Head(job[r].apps)

\* The next app of the command line, or the reload that ends the script
\* unless the policy is allow-temp.
NextApp(r) ==
    /\ job' = [job EXCEPT ![r].apps = Tail(@)]
    /\ Goto(r, IF Tail(job[r].apps) # << >> THEN "app"
               ELSE IF job[r].do = "allow-temp" THEN "end" ELSE "flush")

\* RETURN_CODE=1, and the loop goes on.
AppFails(r) ==
    /\ NextApp(r)
    /\ UNCHANGED <<uid, conf, chain, sbox, tmp, packages, listing, history>>

\* add_package: the line is appended unless grep finds it.
AddPackage(r) ==
    /\ pc[r] = "app" /\ job[r].do = "allow"
    /\ \/ /\ conf' = conf \cup {App(r)}
          /\ NextApp(r)
          /\ UNCHANGED <<uid, chain, sbox, tmp, packages, listing, history>>
       \/ AppFails(r)

\* remove_package: the other lines go to TMPFILE ...
FilterPackage(r) ==
    /\ pc[r] = "app" /\ job[r].do = "deny"
    /\ \/ /\ App(r) \in conf
          /\ tmp' = [tmp EXCEPT ![r] = conf \ {App(r)}]
          /\ Goto(r, "mv")
          /\ UNCHANGED <<uid, conf, chain, sbox, job, packages, listing, history>>
       \/ AppFails(r)

\* ... which then takes the place of the whitelist.
MovePackages(r) ==
    /\ pc[r] = "mv"
    /\ \/ /\ conf' = tmp[r]
          /\ tmp' = [tmp EXCEPT ![r] = {}]
          /\ NextApp(r)
          /\ UNCHANGED <<uid, chain, sbox, packages, listing, history>>
       \/ AppFails(r)

\* Mutant of Inserted: -A in place of -I.
InsertedLast(u) == Append(chain, u)

\* iptables -I oem_out --uid-owner u -j RETURN
Inserted(u) == <<u>> \o chain

\* add_package_temp: pm list packages, and grep for the app ...
FindTemp(r) ==
    /\ pc[r] = "app" /\ job[r].do = "allow-temp"
    /\ \/ /\ uid[App(r)] # Nil
          /\ listing' = [listing EXCEPT ![r] = uid]
          /\ Goto(r, "temp")
          /\ UNCHANGED <<uid, conf, chain, sbox, job, tmp, packages, history>>
       \/ AppFails(r)

\* ... then the rule, which may be there and the script fail all the same, for
\* the other family.
AddPackageTemp(r) ==
    /\ pc[r] = "temp"
    /\ \/ /\ chain' = Inserted(listing[r][App(r)])
          /\ temps' = temps \cup {<<App(r), listing[r][App(r)]>>}
          /\ NextApp(r)
          /\ UNCHANGED <<uid, conf, sbox, tmp, packages, listing, faults, last,
                         reloaded>>
       \/ AppFails(r)

\* payload_cmd_firewall_flush
UnlinkConf(r) ==
    /\ pc[r] = "unlink"
    /\ \/ conf' = {} /\ Goto(r, "flush")
       \/ Goto(r, "end") /\ UNCHANGED conf
    /\ UNCHANGED <<uid, chain, sbox, job, tmp, packages, listing, history>>

-----------------------------------------------------------------------------
(* dumbos-firewall-init.sh, without set -e: whatever fails, it goes on.    *)

\* iptables -F; the run is the last to have begun with the chain.
Flushed(r) ==
    /\ chain' = << >> /\ temps' = {}
    /\ faults' = IF Live = {r} THEN {} ELSE {"overlap"}
    /\ last' = r /\ reloaded' = Nil
FlushFails(r) ==
    /\ UNCHANGED <<chain, temps>> /\ Fails("flush")
    /\ last' = r /\ reloaded' = Nil

InitFlush(r) ==
    /\ pc[r] = "init"
    /\ Flushed(r) \/ FlushFails(r)
    /\ Goto(r, "init reject")
    /\ UNCHANGED <<uid, conf, sbox, job, tmp, packages, listing>>

\* Mutant of Closes: -I in place of -A.
ClosesFirst == chain' = <<Reject>> \o chain /\ UNCHANGED faults

\* iptables -A oem_out -j REJECT
Closes == chain' = Append(chain, Reject) /\ UNCHANGED faults
ClosingFails == UNCHANGED chain /\ Fails(Reject)

InitReject(r) ==
    /\ pc[r] = "init reject"
    /\ Closes \/ ClosingFails
    /\ Goto(r, "init sbox")
    /\ UNCHANGED <<uid, conf, sbox, job, tmp, packages, listing, temps, last,
                   reloaded>>

\* oem_sbox gets the rules that can be appended.  Seven seconds later the
\* script becomes the reload.
InitSbox(r) ==
    /\ pc[r] = "init sbox"
    /\ sbox' \in SboxOutcomes
    /\ Goto(r, "flush")
    /\ UNCHANGED <<uid, conf, chain, job, tmp, packages, listing, history>>

-----------------------------------------------------------------------------
(* dumbos-firewall.sh                                                      *)

\* The script ends: well, or with die or set -e.  firewallctl ignores which;
\* install-this goes on only after a reload that ended well.
Reloaded(r) == Goto(r, IF job[r].do = "install-this" THEN "install" ELSE "end")
Dies(r) == Goto(r, "end")

Flush(r) ==
    /\ pc[r] = "flush"
    /\ \/ Flushed(r) /\ Goto(r, "reject")
       \/ FlushFails(r) /\ Dies(r)
    /\ UNCHANGED <<uid, conf, sbox, job, tmp, packages, listing>>

AppendReject(r) ==
    /\ pc[r] = "reject"
    /\ \/ Closes /\ Goto(r, "read")
       \/ ClosingFails /\ Dies(r)
    /\ UNCHANGED <<uid, conf, sbox, job, tmp, packages, listing, temps, last,
                   reloaded>>

\* cat of the two whitelists.
Whitelist == Default \cup conf

ReadPackages(r) ==
    /\ pc[r] = "read"
    /\ \/ /\ packages' = [packages EXCEPT ![r] = Whitelist]
          /\ Goto(r, "list")
       \/ Dies(r) /\ UNCHANGED packages
    /\ UNCHANGED <<uid, conf, chain, sbox, job, tmp, listing, history>>

\* pm list packages into the run's own file.
ListPackages(r) ==
    /\ pc[r] = "list"
    /\ \/ /\ listing' = [listing EXCEPT ![r] = uid]
          /\ Goto(r, "insert")
       \/ Dies(r) /\ UNCHANGED listing
    /\ UNCHANGED <<uid, conf, chain, sbox, job, tmp, packages, history>>

\* firewall_allow: the script goes on if it fails.
Allow(u) ==
    \/ chain' = Inserted(u) /\ UNCHANGED faults
    \/ UNCHANGED chain /\ Fails(u)

\* One package of PACKAGES; one that is not installed is passed over.
InsertPackage(r, a) ==
    /\ pc[r] = "insert" /\ a \in packages[r]
    /\ packages' = [packages EXCEPT ![r] = @ \ {a}]
    /\ IF listing[r][a] # Nil THEN Allow(listing[r][a])
       ELSE UNCHANGED <<chain, faults>>
    /\ UNCHANGED <<uid, conf, sbox, pc, job, tmp, listing, temps, last, reloaded>>

\* set -e: an echo that fails, on a full disk, ends the script between rules.
EchoFails(r) ==
    /\ pc[r] = "insert"
    /\ Fails(Sbox)
    /\ Dies(r)
    /\ UNCHANGED <<uid, conf, chain, sbox, job, tmp, packages, listing, temps, last,
                   reloaded>>

\* Mutant of InsertRoot: its rule left out.
InsertRootNot(r) ==
    /\ pc[r] = "insert" /\ packages[r] = {}
    /\ Goto(r, "sbox")
    /\ UNCHANGED <<uid, conf, chain, sbox, job, tmp, packages, listing, history>>

\* ALLOWED_UIDS
InsertRoot(r) ==
    /\ pc[r] = "insert" /\ packages[r] = {}
    /\ Allow(Root)
    /\ Goto(r, "sbox")
    /\ UNCHANGED <<uid, conf, sbox, job, tmp, packages, listing, temps, last,
                   reloaded>>

\* iptables -I oem_out 2 -j oem_sbox; there is no place 2 in an empty chain.
\* The script may still die after it: on the other family, or on rm.
InsertSbox(r) ==
    /\ pc[r] = "sbox"
    /\ \/ /\ chain # << >>
          /\ chain' = <<Head(chain), Sbox>> \o Tail(chain)
          /\ reloaded' = IF r = last THEN listing[r] ELSE reloaded
          /\ Reloaded(r) \/ Dies(r)
          /\ UNCHANGED faults
       \/ /\ IF chain = << >> THEN Note({Sbox}) ELSE Fails(Sbox)
          /\ Dies(r)
          /\ UNCHANGED <<chain, reloaded>>
    /\ UNCHANGED <<uid, conf, sbox, job, tmp, packages, listing, temps, last>>

Reload(r) == \/ Flush(r) \/ AppendReject(r) \/ ReadPackages(r) \/ ListPackages(r)
             \/ \E a \in Apps : InsertPackage(r, a)
             \/ EchoFails(r) \/ InsertRoot(r) \/ InsertSbox(r)

-----------------------------------------------------------------------------
(* payload_cmd_install_this, after the reload: pm gives the package a uid  *)
(* that no package has.                                                    *)

InstallPackage(r) ==
    /\ pc[r] = "install"
    /\ \/ \E u \in Uids \ {uid[a] : a \in Apps} :
             uid[App(r)] = Nil /\ uid' = [uid EXCEPT ![App(r)] = u]
       \/ UNCHANGED uid
    /\ Goto(r, "end")
    /\ UNCHANGED <<conf, chain, sbox, job, tmp, packages, listing, history>>

\* A run is over; another may use its slot.
Retire(r) ==
    /\ pc[r] = "end"
    /\ Goto(r, "idle")
    /\ tmp' = [tmp EXCEPT ![r] = {}]
    /\ packages' = [packages EXCEPT ![r] = {}]
    /\ listing' = [listing EXCEPT ![r] = [a \in Apps |-> Nil]]
    /\ job' = [job EXCEPT ![r] = NoJob]
    /\ UNCHANGED <<uid, conf, chain, sbox, history>>

Step(r) == \/ AddPackage(r) \/ FilterPackage(r) \/ MovePackages(r)
           \/ FindTemp(r) \/ AddPackageTemp(r) \/ UnlinkConf(r)
           \/ InitFlush(r) \/ InitReject(r) \/ InitSbox(r) \/ Reload(r)
           \/ InstallPackage(r) \/ Retire(r)

\* Power goes; the apps and the whitelist stay.
Reboot ==
    /\ chain' = << >> /\ sbox' = {}
    /\ pc' = [r \in Runs |-> IF r = Boot THEN "init" ELSE "idle"]
    /\ job' = [r \in Runs |-> NoJob]
    /\ tmp' = [r \in Runs |-> {}]
    /\ packages' = [r \in Runs |-> {}]
    /\ listing' = [r \in Runs |-> [a \in Apps |-> Nil]]
    /\ temps' = {} /\ faults' = {} /\ last' = Nil /\ reloaded' = Nil
    /\ UNCHANGED <<uid, conf>>

Next ==
    \/ \E a \in Apps : Uninstall(a)
    \/ \E r \in Runs \ {Boot}, q \in Requests : Start(r, q)
    \/ \E r \in Runs : Step(r)
    \/ Reboot

Spec == Init /\ [][Next]_vars

-----------------------------------------------------------------------------
(* What the chain does to a packet of uid u, sent through sing-box's tun0  *)
(* or not: the first rule that ends the traversal decides, and a packet    *)
(* that reaches the end of the chain passes.                               *)

SboxDrops(u, tun) ==
    /\ "drop" \in sbox
    /\ u = Root => "root" \notin sbox
    /\ tun => "tun0" \notin sbox

Passes(u, tun) ==
    LET ends(i) == \/ chain[i] \in {u, Reject}
                   \/ chain[i] = Sbox /\ SboxDrops(u, tun)
    IN  \A i \in 1..Len(chain) :
            ends(i) /\ (\A j \in 1..(i - 1) : ~ends(j)) => chain[i] = u

-----------------------------------------------------------------------------
(* Properties.  Each names the failures that it does not survive.          *)

Quiet == Live = {}

Failed(what) == faults \cap what # {}

Listed(a) == a \in Whitelist \/ <<a, uid[a]>> \in temps

OnlyListed == \A a \in Apps : uid[a] # Nil /\ Passes(uid[a], TRUE) => Listed(a)

LetThrough(u) == \E b \in Apps : <<b, u>> \in temps

OnlyTempsAround ==
    \A a \in Apps : uid[a] # Nil /\ Passes(uid[a], FALSE) => LetThrough(uid[a])

\* dumb.h, "add, remove, or flush list of internet-enabled apps", and
\* payload_cmd.c, "to prevent stealing UID of previously allowed but
\* uninstalled app": when no script is running, an app passes only if it is on
\* the whitelist or was let through since the last reload, unless that reload
\* could not flush or close the chain or another script ran beside it; its
\* other failures, and those of scripts before it, do not matter.
OnlyListedPass == Quiet /\ ~Failed({"flush", "overlap", Reject}) => OnlyListed

\* firewallctl's help, "adds the target app to the firewall whitelist": once the
\* last reload to begin has come to its end and no script is running, root
\* passes, and every app on the whitelist that it found passes through
\* sing-box, whatever other scripts did at the same time, unless the insertion
\* of the rule itself failed or oem_sbox lacks the rule that lets it through.
ListedPass ==
    Quiet /\ reloaded # Nil =>
        /\ Root \notin faults /\ ~SboxDrops(Root, FALSE) => Passes(Root, FALSE)
        /\ \A a \in Whitelist :
              /\ reloaded[a] # Nil /\ reloaded[a] = uid[a]
              /\ uid[a] \notin faults /\ ~SboxDrops(uid[a], TRUE)
              => Passes(uid[a], TRUE)

\* dumbos-firewall-init.sh, "Block all other non-root outgoing traffic": when
\* no script is running, no app passes other than through tun0, apart from
\* those let through by allow-temp, whatever scripts ran at the same time,
\* unless since the flush REJECT, the rule of root or the jump to oem_sbox
\* could not be inserted, or oem_sbox has no DROP.
OnlyRootAndTempsAround ==
    Quiet /\ ~Failed({Reject, Root, Sbox}) /\ "drop" \in sbox => OnlyTempsAround

\* The same of the code that has no failure but two scripts at once ...
OnlyListedPassAtOnce == Quiet /\ faults \subseteq {"overlap"} => OnlyListed

\* ... and of a reload that ran alone and reported nothing but "allow failed"
\* for root.
NoneAroundWithoutRoot ==
    Quiet /\ faults \subseteq {Root} /\ "drop" \in sbox => OnlyTempsAround

\* payload_cmd.c, "to prevent stealing UID of previously allowed but uninstalled
\* app": pm gives an app no uid that has a rule.
UidNotStolen ==
    [][\A a \in Apps : uid[a] = Nil /\ uid'[a] # Nil =>
          \A i \in 1..Len(chain) : chain[i] # uid'[a]]_vars

=============================================================================
