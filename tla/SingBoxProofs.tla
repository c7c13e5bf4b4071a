---------------------------- MODULE SingBoxProofs ----------------------------
(* Theorems about SingBox, for any domains, command lines and processes, any *)
(* number of edits and of faults.                                            *)
EXTENDS SingBox, TLAPS

-----------------------------------------------------------------------------
(* The inductive invariant.                                                *)

TypeOK ==
    /\ whitelist \in {Nil} \cup SUBSET Lines
    /\ tmp \in {Nil} \cup SUBSET Lines /\ tmptmp \in {Nil} \cup SUBSET Lines
    /\ pc \in [Runs -> {"idle", "cp", "loop", "mvtmp", "mv", "stop", "start"}]
    /\ argv \in [Runs -> Edits \cup {<< >>}]
    /\ left \in [Runs -> Seq(Lines)]
    /\ \A r \in Runs :
          /\ pc[r] # "idle" => argv[r] \in Edits
          /\ pc[r] \in {"cp", "loop", "mvtmp"} => left[r] # << >>

\* The words of e that have been gone through when rest are left.
Past(e, rest) == {e[i] : i \in 1..Len(e) - Len(rest)}

\* What a file of domains becomes by the words of e gone through.
Worked(lines, e, rest) ==
    IF Head(e) = "add" THEN lines \cup Past(e, rest) ELSE lines \ Past(e, rest)

\* r is alone: its words left are the end of its command line, and until it has
\* moved it into place, $allowlisttmp is the whitelist with the other words
\* added or taken away.
AtWork(r) ==
    pc[r] \in {"cp", "loop", "mvtmp", "mv"} =>
        /\ Len(left[r]) <= Len(argv[r])
        /\ \A i \in 1..Len(left[r]) :
              left[r][i] = argv[r][Len(argv[r]) - Len(left[r]) + i]
        /\ pc[r] = "cp" => left[r] = argv[r]
        /\ pc[r] = "mv" => left[r] = << >>
        /\ pc[r] # "cp" => /\ whitelist # Nil
                           /\ tmp = Worked(whitelist, argv[r], left[r])
        /\ pc[r] = "mvtmp" => /\ Verb(r) = "del"
                              /\ tmptmp = tmp \ {Domain(r)}

\* Where there is a domain there is the verb that came with it.
VerbKept == Listed # {} => "add" \in whitelist

AloneInv ==
    ~overlap => /\ \A r, s \in Runs : pc[r] # "idle" /\ pc[s] # "idle" => r = s
                /\ \A r \in Runs : AtWork(r)
                /\ VerbKept
                /\ Listed = intended

FaultsOK == faults \in Nat

IInv == TypeOK /\ FaultsOK /\ AloneInv

LEMMA InvInit == Init => IInv
<1> SUFFICES ASSUME Init PROVE IInv
  OBVIOUS
<1>1. TypeOK
  BY DEF Init, TypeOK, Idle, NoWords
<1>2. Listed = {} /\ intended = {}
  BY DEF Init, Listed
<1>3. AloneInv
  BY <1>2 DEF Init, AloneInv, AtWork, VerbKept, Idle
<1>4. QED
  BY <1>1, <1>3 DEF IInv, FaultsOK, Init

-----------------------------------------------------------------------------
(* The order of the steps after the loop.                                  *)

LEMMA StepsOrder == /\ Head(Steps) = "mv" /\ After("mv") = "stop"
                    /\ After("stop") = "start" /\ After("start") = "exit"
<1>1. /\ Steps[1] = "mv" /\ Steps[2] = "stop" /\ Steps[3] = "start"
      /\ Steps[4] = "exit" /\ Head(Steps) = "mv" /\ DOMAIN Steps = {1, 2, 3, 4}
  BY DEF Steps
<1>2. /\ (CHOOSE i \in DOMAIN Steps : Steps[i] = "mv") = 1
      /\ (CHOOSE i \in DOMAIN Steps : Steps[i] = "stop") = 2
      /\ (CHOOSE i \in DOMAIN Steps : Steps[i] = "start") = 3
  BY <1>1
<1>3. QED
  BY <1>1, <1>2 DEF After

-----------------------------------------------------------------------------
(* Types.                                                                  *)

Files == {Nil} \cup SUBSET Lines

LEMMA ExitType ==
    ASSUME TypeOK, NEW r \in Runs, Exit(r),
           whitelist' \in Files, tmp' \in Files, tmptmp' \in Files
    PROVE  TypeOK'
<1>1. << >> \in Seq(Lines)
  OBVIOUS
<1>2. QED
  BY <1>1 DEF TypeOK, Files, Exit, Goto

LEMMA GotoType ==
    ASSUME TypeOK, NEW r \in Runs, pc[r] # "idle",
           NEW label \in {"loop", "mvtmp", "mv", "stop", "start"},
           Goto(r, label), label \in {"loop", "mvtmp"} => left[r] # << >>,
           UNCHANGED <<argv, left>>,
           whitelist' \in Files, tmp' \in Files, tmptmp' \in Files
    PROVE  TypeOK'
  BY DEF TypeOK, Files, Goto

LEMMA ShiftType ==
    ASSUME TypeOK, NEW r \in Runs, pc[r] \in {"loop", "mvtmp"}, Shift(r),
           UNCHANGED argv,
           whitelist' \in Files, tmp' \in Files, tmptmp' \in Files
    PROVE  TypeOK'
<1>1. Tail(left[r]) \in Seq(Lines)
  BY DEF TypeOK
<1>2. \/ pc' = [pc EXCEPT ![r] = "mv"]
      \/ pc' = [pc EXCEPT ![r] = "loop"] /\ Tail(left[r]) # << >>
  BY StepsOrder DEF Shift, Goto
<1>3. left' = [left EXCEPT ![r] = Tail(left[r])]
  BY DEF Shift
<1>4. QED
  BY <1>1, <1>2, <1>3 DEF TypeOK, Files

LEMMA DomainType ==
    ASSUME TypeOK, NEW r \in Runs, pc[r] \in {"loop", "mvtmp"}
    PROVE  Domain(r) \in Lines
  BY DEF TypeOK, Domain

LEMMA TypeNext == TypeOK /\ [Next]_vars => TypeOK'
<1> SUFFICES ASSUME TypeOK, [Next]_vars PROVE TypeOK'
  OBVIOUS
<1>F. whitelist \in Files /\ tmp \in Files /\ tmptmp \in Files
  BY DEF TypeOK, Files
<1>1. ASSUME NEW r \in Runs, NEW e \in Edits, Start(r, e) PROVE TypeOK'
  <2>1. e \in Seq(Lines) /\ e # << >>
    BY EditsAssumption
  <2>2. QED
    BY <1>1, <2>1 DEF Start, Words, Goto, TypeOK, fileVars
<1>2. ASSUME NEW r \in Runs, Copy(r) PROVE TypeOK'
  <2>1. pc[r] = "cp" /\ left[r] # << >> /\ UNCHANGED <<whitelist, tmptmp>>
    BY <1>2 DEF Copy, TypeOK
  <2>2. QED
    BY <1>2, <1>F, <2>1, ExitType, GotoType DEF Copy, Copied
<1>3. ASSUME NEW r \in Runs, Echo(r) PROVE TypeOK'
  <2>1. tmp' \in Files
    BY <1>3, <1>F, DomainType DEF Echo, Files
  <2>2. QED
    BY <1>3, <1>F, <2>1, ShiftType DEF Echo
<1>4. ASSUME NEW r \in Runs, Grep(r) PROVE TypeOK'
  <2>1. tmptmp' \in Files
    BY <1>4, <1>F DEF Grep, Files
  <2>2. pc[r] = "loop" /\ left[r] # << >> /\ UNCHANGED <<whitelist, tmp>>
    BY <1>4 DEF Grep, TypeOK
  <2>3. QED
    BY <1>4, <1>F, <2>1, <2>2, ExitType, GotoType DEF Grep
<1>5. ASSUME NEW r \in Runs, MoveTmp(r) PROVE TypeOK'
  <2>1. whitelist' \in Files /\ tmp' \in Files /\ tmptmp' \in Files
    BY <1>5, <1>F DEF MoveTmp, Files
  <2>2. QED
    BY <1>5, <2>1, ExitType, ShiftType DEF MoveTmp
<1>6. ASSUME NEW r \in Runs, Move(r) PROVE TypeOK'
  <2>1. whitelist' \in Files /\ tmp' \in Files /\ tmptmp' \in Files
    BY <1>6, <1>F DEF Move, Files
  <2>2. QED
    BY <1>6, <2>1, StepsOrder, ExitType, GotoType DEF Move, Continue
<1>7. ASSUME NEW r \in Runs, Stop(r) \/ StartService(r) PROVE TypeOK'
  BY <1>7, <1>F, StepsOrder, ExitType, GotoType
  DEF Stop, StartService, Continue, fileVars
<1>8. ASSUME NEW r \in Runs, Dies(r) PROVE TypeOK'
  <2>1. UNCHANGED whitelist /\ Exit(r)
    BY <1>8 DEF Dies
  <2>2. tmp' \in Files /\ tmptmp' \in Files
    BY <1>8, <1>F DEF Dies, Files
  <2>3. QED
    BY <1>F, <2>1, <2>2, ExitType
<1>9. CASE Touch
  BY <1>9 DEF Touch, TypeOK, runVars
<1>10. CASE Reboot
  BY <1>10 DEF Reboot, TypeOK, Idle, NoWords, fileVars
<1>11. CASE UNCHANGED <<whitelist, tmp, tmptmp, pc, argv, left>>
  BY <1>11 DEF TypeOK
<1>12. QED
  BY <1>1, <1>2, <1>3, <1>4, <1>5, <1>6, <1>7, <1>8, <1>9, <1>10, <1>11
  DEF Next, Step, Service, RotateLog, WriteLines, Exec, ServiceDies,
      BootCompleted, vars, fileVars, runVars

-----------------------------------------------------------------------------
(* The words gone through.                                                 *)

\* rest is the end of the command line e.
EndOf(rest, e) ==
    /\ Len(rest) <= Len(e)
    /\ \A i \in 1..Len(rest) : rest[i] = e[Len(e) - Len(rest) + i]

LEMMA PastShift ==
    ASSUME NEW e \in Seq(Lines), NEW rest \in Seq(Lines),
           rest # << >>, EndOf(rest, e)
    PROVE  /\ EndOf(Tail(rest), e)
           /\ Past(e, Tail(rest)) = Past(e, rest) \cup {Head(rest)}
<1>1. /\ Tail(rest) \in Seq(Lines) /\ Len(Tail(rest)) = Len(rest) - 1
      /\ \A i \in 1..Len(rest) - 1 : Tail(rest)[i] = rest[i + 1]
      /\ Head(rest) = rest[1] /\ Len(rest) \in Nat /\ Len(rest) > 0
      /\ Len(e) \in Nat
  OBVIOUS
<1>2. EndOf(Tail(rest), e)
  BY <1>1 DEF EndOf
<1>3. Head(rest) = e[Len(e) - Len(rest) + 1]
  BY <1>1 DEF EndOf
<1>4. 1..Len(e) - Len(Tail(rest))
        = (1..Len(e) - Len(rest)) \cup {Len(e) - Len(rest) + 1}
  BY <1>1 DEF EndOf
<1>5. QED
  BY <1>2, <1>3, <1>4 DEF Past

LEMMA PastNone == ASSUME NEW e \in Seq(Lines) PROVE Past(e, e) = {}
<1>1. 1..Len(e) - Len(e) = {}
  OBVIOUS
<1>2. QED
  BY <1>1 DEF Past

LEMMA PastAll ==
    ASSUME NEW e \in Edits
    PROVE  Past(e, << >>) = {Head(e)} \cup {e[i] : i \in 2..Len(e)}
<1>1. e \in Seq(Lines) /\ Len(e) > 1
  BY EditsAssumption
<1>2. Head(e) = e[1] /\ 1..Len(e) - Len(<< >>) = {1} \cup 2..Len(e)
  BY <1>1
<1>3. QED
  BY <1>2 DEF Past

\* A del never goes through the word add, a line that only an add can write.
LEMMA DelWords ==
    ASSUME NEW e \in Edits, Head(e) # "add", NEW i \in 1..Len(e)
    PROVE  e[i] # "add"
<1>1. e \in Seq(Lines) /\ Len(e) > 1 /\ Head(e) \in Verbs
  BY EditsAssumption
<1>2. CASE i = 1
  BY <1>1, <1>2
<1>3. CASE i # 1
  <2>1. i \in 2..Len(e)
    BY <1>1, <1>3
  <2>2. e[i] \in Domains
    BY <2>1, EditsAssumption
  <2>3. QED
    BY <2>2, DomainsAssumption DEF Verbs
<1>4. QED
  BY <1>2, <1>3

-----------------------------------------------------------------------------
(* Edits that are alone.                                                   *)

\* A step of r leaves the other processes idle.
LEMMA AloneStep ==
    ASSUME TypeOK, AloneInv, NEW r \in Runs, pc[r] # "idle",
           NEW label, pc' = [pc EXCEPT ![r] = label],
           UNCHANGED overlap,
           ~overlap => AtWork(r)' /\ VerbKept' /\ Listed' = intended'
    PROVE  AloneInv'
<1> SUFFICES ASSUME ~overlap' PROVE
      /\ (\A s, t \in Runs : pc[s] # "idle" /\ pc[t] # "idle" => s = t)'
      /\ (\A s \in Runs : AtWork(s))' /\ VerbKept' /\ (Listed = intended)'
  BY DEF AloneInv
<1>1. ~overlap /\ \A s \in Runs : s # r => pc[s] = "idle"
  BY DEF AloneInv
<1>2. \A s \in Runs : s # r => pc'[s] = "idle"
  BY <1>1 DEF TypeOK
<1>3. \A s \in Runs : AtWork(s)'
  <2> TAKE s \in Runs
  <2>1. CASE s = r
    BY <1>1, <2>1
  <2>2. CASE s # r
    BY <1>2, <2>2 DEF AtWork
  <2>3. QED
    BY <2>1, <2>2
<1>4. QED
  BY <1>1, <1>2, <1>3

\* A process that ends before its mv, or after it, takes nothing along.
LEMMA AloneExit ==
    ASSUME TypeOK, AloneInv, NEW r \in Runs, pc[r] # "idle", Exit(r),
           UNCHANGED <<whitelist, overlap, intended>>
    PROVE  AloneInv'
<1>1. pc' = [pc EXCEPT ![r] = "idle"] /\ pc'[r] = "idle"
  BY DEF Exit, Goto, TypeOK
<1>2. AtWork(r)'
  BY <1>1 DEF AtWork
<1>3. Listed' = Listed
  BY DEF Listed
<1>4. ~overlap => VerbKept' /\ Listed' = intended'
  BY <1>3 DEF AloneInv, VerbKept
<1>5. QED
  BY <1>1, <1>2, <1>4, AloneStep

\* Past its mv a process has nothing to do with the files.
LEMMA AloneGoto ==
    ASSUME TypeOK, AloneInv, NEW r \in Runs, pc[r] # "idle",
           NEW label \in {"stop", "start"}, Goto(r, label),
           UNCHANGED <<whitelist, overlap, intended>>
    PROVE  AloneInv'
<1>1. pc' = [pc EXCEPT ![r] = label] /\ pc'[r] = label
  BY DEF Goto, TypeOK
<1>2. AtWork(r)'
  BY <1>1 DEF AtWork
<1>3. Listed' = Listed
  BY DEF Listed
<1>4. ~overlap => VerbKept' /\ Listed' = intended'
  BY <1>3 DEF AloneInv, VerbKept
<1>5. QED
  BY <1>1, <1>2, <1>4, AloneStep

\* The end of a turn of the loop.
LEMMA AloneShift ==
    ASSUME TypeOK, AloneInv, NEW r \in Runs, pc[r] \in {"loop", "mvtmp"},
           Shift(r), UNCHANGED <<argv, whitelist, overlap, intended>>,
           ~overlap => tmp' = IF Verb(r) = "add" THEN tmp \cup {Domain(r)}
                                                 ELSE tmp \ {Domain(r)}
    PROVE  AloneInv'
<1>1. PICK label \in {"loop", "mv"} :
         /\ pc' = [pc EXCEPT ![r] = label] /\ pc'[r] = label
         /\ label = "mv" => Tail(left[r]) = << >>
  <2>1. \/ pc' = [pc EXCEPT ![r] = "mv"] /\ Tail(left[r]) = << >>
        \/ pc' = [pc EXCEPT ![r] = "loop"]
    BY StepsOrder DEF Shift, Goto
  <2>2. QED
    BY <2>1 DEF TypeOK
<1>2. left'[r] = Tail(left[r])
  BY DEF Shift, TypeOK
<1>3. ASSUME ~overlap PROVE AtWork(r)'
  <2>1. AtWork(r)
    BY <1>3 DEF AloneInv
  <2>2. /\ argv[r] \in Edits /\ left[r] \in Seq(Lines) /\ left[r] # << >>
        /\ argv[r] \in Seq(Lines)
    BY EditsAssumption DEF TypeOK
  <2>3. EndOf(left[r], argv[r]) /\ whitelist # Nil
        /\ tmp = Worked(whitelist, argv[r], left[r])
    BY <2>1 DEF AtWork, EndOf
  <2>4. /\ EndOf(Tail(left[r]), argv[r])
        /\ Past(argv[r], Tail(left[r])) = Past(argv[r], left[r]) \cup {Domain(r)}
    BY <2>2, <2>3, PastShift DEF Domain
  <2>5. tmp' = Worked(whitelist, argv[r], Tail(left[r]))
    BY <1>3, <2>3, <2>4 DEF Worked, Verb
  <2>6. (tmp = Worked(whitelist, argv[r], left[r]))'
    BY <1>2, <2>5 DEF Worked, Past
  <2>7. (/\ Len(left[r]) <= Len(argv[r])
         /\ \A i \in 1..Len(left[r]) :
               left[r][i] = argv[r][Len(argv[r]) - Len(left[r]) + i])'
    BY <1>2, <2>4 DEF EndOf
  <2>8. QED
    BY <1>1, <1>2, <2>3, <2>6, <2>7 DEF AtWork
<1>4. Listed' = Listed
  BY DEF Listed
<1>5. ~overlap => VerbKept' /\ Listed' = intended'
  BY <1>4 DEF AloneInv, VerbKept
<1>6. QED
  BY <1>1, <1>3, <1>5, AloneStep

LEMMA AloneStart ==
    ASSUME TypeOK, AloneInv, NEW r \in Runs, NEW e \in Edits, Start(r, e)
    PROVE  AloneInv'
<1>1. CASE Live # {}
  BY <1>1 DEF Start, AloneInv
<1>2. CASE Live = {}
  <2>1. ~overlap /\ \A s \in Runs : pc[s] = "idle"
    BY <1>2 DEF Start, Live
  <2>2. /\ pc'[r] = "cp" /\ left'[r] = e /\ argv'[r] = e
        /\ \A s \in Runs : s # r => pc'[s] = "idle"
    BY <2>1 DEF Start, Goto, Words, TypeOK
  <2>3. e \in Seq(Lines)
    BY EditsAssumption
  <2>4. AtWork(r)'
    BY <2>2, <2>3 DEF AtWork
  <2>5. \A s \in Runs : AtWork(s)'
    <3> TAKE s \in Runs
    <3>1. CASE s = r
      BY <2>4, <3>1
    <3>2. CASE s # r
      BY <2>2, <3>2 DEF AtWork
    <3>3. QED
      BY <3>1, <3>2
  <2>6. Listed' = Listed /\ UNCHANGED <<whitelist, intended>>
    BY DEF Start, Listed, fileVars
  <2>7. VerbKept' /\ Listed' = intended'
    BY <2>1, <2>6 DEF AloneInv, VerbKept
  <2>8. QED
    BY <2>2, <2>5, <2>7 DEF AloneInv
<1>3. QED
  BY <1>1, <1>2

LEMMA AloneCopy ==
    ASSUME TypeOK, AloneInv, NEW r \in Runs, Copy(r)
    PROVE  AloneInv'
<1>1. pc[r] = "cp" /\ UNCHANGED <<whitelist, overlap, intended>>
  BY DEF Copy, history
<1>2. CASE Exit(r)
  BY <1>1, <1>2, AloneExit
<1>3. CASE /\ whitelist # Nil /\ tmp' = Copied
           /\ Goto(r, "loop") /\ UNCHANGED <<argv, left>>
  <2>1. pc' = [pc EXCEPT ![r] = "loop"] /\ pc'[r] = "loop"
    BY <1>3 DEF Goto, TypeOK
  <2>2. argv[r] \in Edits /\ argv[r] \in Seq(Lines)
    BY <1>1, EditsAssumption DEF TypeOK
  <2>3. ASSUME ~overlap PROVE AtWork(r)'
    <3>1. AtWork(r) /\ left[r] = argv[r]
      BY <1>1, <2>3 DEF AloneInv, AtWork
    <3>2. Past(argv[r], left[r]) = {}
      BY <2>2, <3>1, PastNone
    <3>3. whitelist = Worked(whitelist, argv[r], left[r])
      <4>1. whitelist \in SUBSET Lines
        BY <1>3 DEF TypeOK
      <4>2. QED
        BY <3>2, <4>1 DEF Worked
    <3>4. (tmp = Worked(whitelist, argv[r], left[r]))'
      BY <1>1, <1>3, <3>3 DEF Worked, Past, Copied
    <3>5. QED
      BY <1>1, <1>3, <2>1, <3>1, <3>4 DEF AtWork
  <2>4. Listed' = Listed
    BY <1>1 DEF Listed
  <2>5. ~overlap => VerbKept' /\ Listed' = intended'
    BY <1>1, <2>4 DEF AloneInv, VerbKept
  <2>6. QED
    BY <1>1, <2>1, <2>3, <2>5, AloneStep
<1>4. QED
  BY <1>2, <1>3 DEF Copy

LEMMA AloneEcho ==
    ASSUME TypeOK, AloneInv, NEW r \in Runs, Echo(r)
    PROVE  AloneInv'
<1>1. /\ pc[r] = "loop" /\ Verb(r) = "add" /\ Shift(r)
      /\ UNCHANGED <<argv, whitelist, overlap, intended>>
      /\ tmp' = (IF tmp = Nil THEN {} ELSE tmp) \cup {Domain(r)}
  BY DEF Echo, history
<1>2. ~overlap => tmp # Nil
  <2> SUFFICES ASSUME ~overlap PROVE tmp # Nil
    OBVIOUS
  <2>1. whitelist # Nil /\ tmp = whitelist \cup Past(argv[r], left[r])
    BY <1>1 DEF AloneInv, AtWork, Worked, Verb
  <2>2. argv[r] \in Edits /\ Past(argv[r], left[r]) \in SUBSET Lines
    <3>1. argv[r] \in Edits /\ left[r] \in Seq(Lines)
      BY <1>1 DEF TypeOK
    <3>2. argv[r] \in Seq(Lines) /\ Len(left[r]) \in Nat
      BY <3>1, EditsAssumption
    <3>3. QED
      BY <3>1, <3>2 DEF Past
  <2>3. tmp \in SUBSET Lines
    BY <2>1, <2>2 DEF TypeOK
  <2>4. QED
    BY <2>3, NilAssumption
<1>3. QED
  BY <1>1, <1>2, AloneShift

LEMMA AloneGrep ==
    ASSUME TypeOK, AloneInv, NEW r \in Runs, Grep(r)
    PROVE  AloneInv'
<1>1. /\ pc[r] = "loop" /\ Verb(r) = "del"
      /\ UNCHANGED <<tmp, whitelist, overlap, intended>>
      /\ tmptmp' = IF tmp = Nil THEN {} ELSE tmp \ {Domain(r)}
  BY DEF Grep, history
<1>2. CASE Exit(r)
  BY <1>1, <1>2, AloneExit
<1>3. CASE Goto(r, "mvtmp") /\ UNCHANGED <<argv, left>>
  <2>1. pc' = [pc EXCEPT ![r] = "mvtmp"] /\ pc'[r] = "mvtmp"
    BY <1>3 DEF Goto, TypeOK
  <2>2. ASSUME ~overlap PROVE AtWork(r)'
    <3>1. AtWork(r)
      BY <2>2 DEF AloneInv
    <3>2. tmp # Nil
      <4>1. whitelist # Nil /\ tmp = whitelist \ Past(argv[r], left[r])
        BY <1>1, <3>1 DEF AtWork, Worked, Verb
      <4>2. tmp \in SUBSET Lines
        BY <4>1 DEF TypeOK
      <4>3. QED
        BY <4>2, NilAssumption
    <3>3. (tmptmp = tmp \ {Domain(r)})' /\ (Verb(r) = "del")'
      BY <1>1, <1>3, <3>2 DEF Domain, Verb
    <3>4. (tmp = Worked(whitelist, argv[r], left[r]))'
      BY <1>1, <1>3, <3>1 DEF AtWork, Worked, Past
    <3>5. QED
      BY <1>1, <1>3, <2>1, <3>1, <3>3, <3>4 DEF AtWork
  <2>3. Listed' = Listed
    BY <1>1 DEF Listed
  <2>4. ~overlap => VerbKept' /\ Listed' = intended'
    BY <1>1, <2>3 DEF AloneInv, VerbKept
  <2>5. QED
    BY <1>1, <2>1, <2>2, <2>4, AloneStep
<1>4. QED
  BY <1>2, <1>3 DEF Grep

LEMMA AloneMoveTmp ==
    ASSUME TypeOK, AloneInv, NEW r \in Runs, MoveTmp(r)
    PROVE  AloneInv'
<1>1. pc[r] = "mvtmp" /\ UNCHANGED <<whitelist, overlap, intended>>
  BY DEF MoveTmp, history
<1>2. CASE Exit(r)
  BY <1>1, <1>2, AloneExit
<1>3. CASE tmp' = tmptmp /\ Shift(r) /\ UNCHANGED argv
  <2>1. ~overlap => Verb(r) # "add" /\ tmptmp = tmp \ {Domain(r)}
    BY <1>1 DEF AloneInv, AtWork
  <2>2. QED
    BY <1>1, <1>3, <2>1, AloneShift
<1>4. QED
  BY <1>2, <1>3 DEF MoveTmp

\* mv puts the whole edit in place.
LEMMA AloneMove ==
    ASSUME TypeOK, AloneInv, NEW r \in Runs, Move(r)
    PROVE  AloneInv'
<1>1. pc[r] = "mv" /\ UNCHANGED overlap
  BY DEF Move
<1>2. CASE Exit(r) /\ UNCHANGED <<whitelist, intended>>
  BY <1>1, <1>2, AloneExit
<1>3. CASE /\ whitelist' = tmp /\ intended' = Edited(intended, argv[r])
           /\ Continue(r, "mv")
  <2>1. pc' = [pc EXCEPT ![r] = "stop"] /\ pc'[r] = "stop"
    BY <1>3, StepsOrder DEF Continue, Goto, TypeOK
  <2>2. AtWork(r)'
    BY <2>1 DEF AtWork
  <2>3. ASSUME ~overlap PROVE VerbKept' /\ Listed' = intended'
    <3> DEFINE e == argv[r]
               named == {e[i] : i \in 2..Len(e)}
    <3>1. e \in Edits
      BY <1>1 DEF TypeOK
    <3>2. /\ whitelist # Nil /\ whitelist \in SUBSET Lines
          /\ tmp = Worked(whitelist, e, << >>)
          /\ Listed = intended /\ VerbKept
      BY <1>1, <2>3 DEF AloneInv, AtWork, TypeOK
    <3>3. Head(e) \in Verbs /\ named \subseteq Domains /\ Head(e) \notin Domains
      BY <3>1, EditsAssumption, DomainsAssumption
    <3>4. Past(e, << >>) = {Head(e)} \cup named
      BY <3>1, PastAll
    <3>5. Listed = whitelist \cap Domains
      BY <3>2 DEF Listed
    <3>6. tmp \in SUBSET Lines
      BY <3>2, <3>3, <3>4 DEF Worked, Lines
    <3>7. Listed' = tmp \cap Domains
      BY <1>3, <3>6, NilAssumption DEF Listed
    <3> HIDE DEF e, named
    <3>8. CASE Head(e) = "add"
      <4>1. tmp = whitelist \cup {"add"} \cup named
        BY <3>2, <3>4, <3>8 DEF Worked
      <4>2. intended' = intended \cup named
        BY <1>3, <3>8 DEF Edited, e, named
      <4>3. Listed' = intended'
        BY <3>2, <3>3, <3>5, <3>7, <3>8, <4>1, <4>2
      <4>4. QED
        BY <1>3, <4>1, <4>3 DEF VerbKept
    <3>9. CASE Head(e) # "add"
      <4>1. tmp = whitelist \ ({Head(e)} \cup named)
        BY <3>2, <3>4, <3>9 DEF Worked
      <4>2. intended' = intended \ named
        BY <1>3, <3>9 DEF Edited, e, named
      <4>3. Listed' = intended'
        BY <3>2, <3>3, <3>5, <3>7, <4>1, <4>2
      <4>4. "add" \notin {Head(e)} \cup named
        BY <3>3, <3>9, DomainsAssumption DEF Verbs
      <4>5. Listed' # {} => "add" \in tmp
        BY <3>2, <3>5, <3>7, <4>1, <4>4 DEF VerbKept
      <4>6. QED
        BY <1>3, <4>3, <4>5 DEF VerbKept
    <3>10. QED
      BY <3>8, <3>9
  <2>4. QED
    BY <1>1, <2>1, <2>2, <2>3, AloneStep
<1>4. QED
  BY <1>2, <1>3 DEF Move

\* A step that leaves files, runs and history alone.
LEMMA AloneFrame ==
    ASSUME AloneInv,
           UNCHANGED <<whitelist, tmp, tmptmp, pc, argv, left, intended, overlap>>
    PROVE  AloneInv'
<1>1. Listed' = Listed
  BY DEF Listed
<1>2. VerbKept => VerbKept'
  BY <1>1 DEF VerbKept
<1>3. ASSUME NEW r \in Runs, AtWork(r) PROVE AtWork(r)'
  <2>1. /\ (tmp = Worked(whitelist, argv[r], left[r]))
             => (tmp = Worked(whitelist, argv[r], left[r]))'
        /\ Verb(r)' = Verb(r) /\ Domain(r)' = Domain(r)
    BY DEF Worked, Past, Verb, Domain
  <2>2. QED
    BY <1>3, <2>1 DEF AtWork
<1>4. QED
  BY <1>1, <1>2, <1>3 DEF AloneInv

LEMMA AloneTouch ==
    ASSUME TypeOK, AloneInv, Touch
    PROVE  AloneInv'
<1>1. UNCHANGED <<tmp, tmptmp, pc, argv, left, overlap, intended>>
  BY DEF Touch, runVars, history
<1>2. CASE whitelist # Nil
  <2>1. whitelist' = whitelist
    BY <1>2 DEF Touch
  <2>2. QED
    BY <1>1, <2>1, AloneFrame
<1>3. CASE whitelist = Nil
  <2>1. whitelist' = {}
    BY <1>3 DEF Touch
  <2>2. Listed = {} /\ Listed' = {}
    BY <1>3, <2>1 DEF Listed
  <2>3. ~overlap => \A r \in Runs : pc[r] \notin {"loop", "mvtmp", "mv"}
    BY <1>3 DEF AloneInv, AtWork
  <2>4. ASSUME ~overlap, NEW r \in Runs PROVE AtWork(r)'
    <3>1. AtWork(r) /\ pc'[r] = pc[r] /\ pc[r] \notin {"loop", "mvtmp", "mv"}
      BY <1>1, <2>3, <2>4 DEF AloneInv
    <3>2. QED
      BY <1>1, <3>1 DEF AtWork
  <2>5. QED
    BY <1>1, <2>2, <2>4 DEF AloneInv, VerbKept
<1>4. QED
  BY <1>2, <1>3

LEMMA AloneReboot ==
    ASSUME TypeOK, AloneInv, Reboot
    PROVE  AloneInv'
<1>1. /\ \A r \in Runs : pc'[r] = "idle"
      /\ UNCHANGED <<whitelist, overlap, intended>>
  BY DEF Reboot, Idle, fileVars
<1>2. \A r \in Runs : AtWork(r)'
  BY <1>1 DEF AtWork
<1>3. Listed' = Listed
  BY <1>1 DEF Listed
<1>4. QED
  BY <1>1, <1>2, <1>3 DEF AloneInv, VerbKept

LEMMA AloneNext == TypeOK /\ AloneInv /\ [Next]_vars => AloneInv'
<1> SUFFICES ASSUME TypeOK, AloneInv, [Next]_vars PROVE AloneInv'
  OBVIOUS
<1>1. ASSUME NEW r \in Runs, Stop(r) \/ StartService(r) PROVE AloneInv'
  <2>1. /\ pc[r] # "idle" /\ UNCHANGED <<whitelist, overlap, intended>>
        /\ Exit(r) \/ Goto(r, "start")
    BY <1>1, StepsOrder DEF Stop, StartService, Continue, fileVars, history
  <2>2. QED
    BY <2>1, AloneExit, AloneGoto
<1>2. ASSUME NEW r \in Runs, Dies(r) PROVE AloneInv'
  BY <1>2, AloneExit DEF Dies, Live
<1>3. CASE UNCHANGED <<whitelist, tmp, tmptmp, pc, argv, left, intended, overlap>>
  BY <1>3, AloneFrame
<1>4. QED
  BY <1>1, <1>2, <1>3, AloneStart, AloneCopy, AloneEcho, AloneGrep,
     AloneMoveTmp, AloneMove, AloneTouch, AloneReboot
  DEF Next, Step, Service, RotateLog, WriteLines, Exec, ServiceDies,
      BootCompleted, vars, fileVars, runVars, history

LEMMA FaultsNext == FaultsOK /\ [Next]_vars => FaultsOK'
  BY DEF FaultsOK, Next, Start, Step, Copy, Echo, Grep, MoveTmp, Move, Stop,
         StartService, Dies, Fault, Service, RotateLog, Touch, WriteLines,
         Exec, ServiceDies, BootCompleted, Reboot, vars, counters

-----------------------------------------------------------------------------

\* The type of the files, of the runs and of the words they have left, and what
\* an edit that is alone has in its temporary files, hold in every state.
THEOREM Inductive == Spec => []IInv
<1>1. IInv /\ [Next]_vars => IInv'
  BY TypeNext, AloneNext, FaultsNext DEF IInv
<1>2. QED
  BY InvInit, <1>1, PTL DEF Spec

\* sing-box-wrapper.sh:27 to 39: for any number of edits, of processes and of
\* faults, an edit that is alone takes effect as a whole or not at all.
THEOREM EditsWhole == Spec => []EditsAtomic
<1>1. IInv => EditsAtomic
  BY DEF IInv, AloneInv, EditsAtomic
<1>2. QED
  BY Inductive, <1>1, PTL

\* sing-box-wrapper.sh:34: a del that grep's status ends had nothing to remove.
THEOREM DelSound == Spec => DelRemoves
<1> DEFINE Sound(r) ==
      ~overlap /\ pc[r] = "loop" /\ pc'[r] = "idle" /\ faults' = faults =>
          Listed \cap {argv[r][i] : i \in 2..Len(argv[r])} = {}
<1>1. IInv /\ [Next]_vars => [\A r \in Runs : Sound(r)]_vars
  <2> SUFFICES ASSUME IInv, Next, NEW r \in Runs, ~overlap, pc[r] = "loop",
                      pc'[r] = "idle", faults' = faults
               PROVE  Listed = {}
    BY DEF vars
  <2>1. TypeOK /\ faults \in Nat /\ AtWork(r) /\ VerbKept
    BY DEF IInv, AloneInv, FaultsOK
  <2>2. ~Fault
    BY <2>1 DEF Fault
  <2>3. ASSUME NEW s \in Runs, NEW e \in Edits, Start(s, e) PROVE FALSE
    BY <2>1, <2>3 DEF Start, Goto, TypeOK
  <2>4. ASSUME NEW s \in Runs, Step(s) PROVE Grep(r) /\ Exit(r)
    <3>1. s = r
      BY <2>1, <2>4 DEF TypeOK, Step, Copy, Echo, Grep, MoveTmp, Move, Stop,
         StartService, Continue, Shift, Exit, Goto
    <3>2. ~Shift(r) /\ ~Goto(r, "mvtmp")
      BY <2>1, StepsOrder DEF Shift, Goto, TypeOK
    <3>3. QED
      BY <2>4, <3>1, <3>2 DEF Step, Copy, Echo, Grep, MoveTmp, Move, Stop,
         StartService
  <2>5. Grep(r) /\ Exit(r)
    BY <2>2, <2>3, <2>4 DEF Next, Dies, ServiceDies, Reboot, Service,
       RotateLog, Touch, WriteLines, Exec, BootCompleted, runVars
  <2>6. /\ argv[r] \in Edits /\ argv[r] \in Seq(Lines)
        /\ left[r] \in Seq(Lines) /\ left[r] # << >>
    BY <2>1, EditsAssumption DEF TypeOK
  <2>7. /\ Head(argv[r]) # "add" /\ EndOf(left[r], argv[r])
        /\ whitelist # Nil /\ tmp = whitelist \ Past(argv[r], left[r])
    BY <2>1, <2>5 DEF Grep, Verb, AtWork, Worked, EndOf
  <2>8. tmp # Nil
    <3>1. tmp \in SUBSET Lines
      BY <2>1, <2>7 DEF TypeOK
    <3>2. QED
      BY <3>1, NilAssumption
  <2>9. tmp \ {Domain(r)} = {}
    <3>1. ~Goto(r, "mvtmp")
      BY <2>1 DEF Goto, TypeOK
    <3>2. QED
      BY <2>5, <2>8, <3>1 DEF Grep
  <2>10. "add" \notin Past(argv[r], Tail(left[r]))
    <3>1. Len(Tail(left[r])) \in Nat /\ Len(argv[r]) \in Nat
      BY <2>6
    <3>2. \A i \in 1..Len(argv[r]) - Len(Tail(left[r])) : i \in 1..Len(argv[r])
      BY <3>1
    <3>3. \A i \in 1..Len(argv[r]) : argv[r][i] # "add"
      BY <2>6, <2>7, DelWords
    <3>4. QED
      BY <3>2, <3>3 DEF Past
  <2>11. "add" \notin Past(argv[r], left[r]) /\ "add" # Domain(r)
    BY <2>6, <2>7, <2>10, PastShift DEF Domain
  <2>12. "add" \notin whitelist
    BY <2>7, <2>9, <2>11
  <2>13. QED
    BY <2>1, <2>12 DEF VerbKept
<1>2. QED
  BY Inductive, <1>1, PTL DEF Spec, DelRemoves

=============================================================================
