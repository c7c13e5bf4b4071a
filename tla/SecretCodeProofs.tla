-------------------------- MODULE SecretCodeProofs --------------------------
(* Theorems about SecretCode, for every set of handlers, codes and         *)
(* payloads, composites of any depth, and any bound of the clock.          *)
EXTENDS SecretCode, SequenceTheorems, TLAPS

-----------------------------------------------------------------------------
(* The payloads that can be on their way: those of the code files and      *)
(* their parts, with another expire field or another signature.            *)

Made == Files \cup Parts

Bodies == [expire : ExpireField, command : {p.command : p \in Made},
           data : {p.data : p \in Made}, fits : {p.fits : p \in Made}]

Signatures == {p.sig : p \in Made} \cup {<<b>> : b \in Bodies}

Composites == {p \in Made : p.command = "composite"}

Payloads ==
    {p \in [expire : ExpireField, command : {p.command : p \in Made},
            data : {p.data : p \in Made}, fits : {p.fits : p \in Made},
            sig : Signatures] :
        p.command = "composite" => p.data \in {q.data : q \in Composites}}

\* What an administrator makes, and every part of it, is one.
LEMMA MadeIsPayload == Made \subseteq Payloads
<1> SUFFICES ASSUME NEW p \in Made PROVE p \in Payloads
  OBVIOUS
<1>1. IsPayload(p)
  BY PayloadsAssumption DEF Made
<1>2. p = [expire |-> p.expire, command |-> p.command, data |-> p.data,
           fits |-> p.fits, sig |-> p.sig]
  BY <1>1 DEF IsPayload
<1>3. QED
  BY <1>1, <1>2 DEF IsPayload, Payloads, Signatures, Composites

\* The data of a composite are parts.
LEMMA CompositeData ==
    ASSUME NEW p \in Payloads, p.command = "composite"
    PROVE  p.data \in Seq(Parts)
<1>1. PICK q \in Composites : p.data = q.data
  BY DEF Payloads
<1>2. QED
  BY <1>1, PayloadsAssumption DEF Composites, Made, IsPayload

\* dp_get_expire_or_set changes the expire field and nothing else.
LEMMA ActivatedPayload ==
    ASSUME NEW p \in Payloads, NEW now \in Int,
           NEW q, q = [p EXCEPT !.expire = dp_get_expire_or_set(p.expire, now)]
    PROVE  /\ q \in Payloads
           /\ q.command = p.command /\ q.data = p.data
           /\ IsAbsolute(p.expire) => q = p
<1>1. dp_get_expire_or_set(p.expire, now) \in ExpireField
  BY DefaultExpireAssumption
     DEF Payloads, dp_get_expire_or_set, dp_set_expire, dp_get_expire,
         ExpireField, Unparsable
<1>2. IsAbsolute(p.expire) => dp_get_expire_or_set(p.expire, now) = p.expire
  BY DEF dp_get_expire_or_set, dp_get_expire, IsAbsolute
<1>3. QED
  BY <1>1, <1>2 DEF Payloads

\* So does dp_sign with the signature.
LEMMA SignedPayload ==
    ASSUME NEW p \in Payloads
    PROVE  dp_sign(p) \in Payloads /\ dp_sign(p).expire = p.expire
<1>1. Body(p) \in Bodies
  BY DEF Body, Bodies, Payloads
<1>2. <<Body(p)>> \in Signatures
  BY <1>1 DEF Signatures
<1>3. QED
  BY <1>2 DEF dp_sign, Payloads

-----------------------------------------------------------------------------
(* The inductive invariant.                                                *)

Labels == {"idle", "time", "request", "download", "check", "run", "adb",
           "write", "pm", "done", "killed"}

TypeOK ==
    /\ clock \in Int
    /\ codeFile \in [Codes -> Payloads \cup {Nil}]
    /\ pc \in [Sessions -> Labels]
    /\ code \in [Sessions -> Codes \cup {Nil}]
    /\ net_time \in [Sessions -> Int]
    /\ sent \in [Sessions -> BOOLEAN]
    /\ answer \in [Sessions -> Payloads \cup {Nil, NotFound}]
    /\ todo \in [Sessions -> Seq(Payloads)]
    /\ DOMAIN refused = Sessions
    /\ \A s \in Sessions :
          /\ sent[s] \/ pc[s] # "idle" => code[s] \in Codes
          /\ pc[s] \in {"run", "adb", "write", "pm"} => todo[s] # << >>

\* The server has answered only what was asked, with a payload that was not
\* over at a time when the request had been signed; and only such a payload is
\* handled or refused.
Granted(s) == answer[s] \notin {Nil, NotFound}

RequestInv ==
    \A s \in Sessions :
        /\ net_time[s] <= clock
        /\ sent[s] => pc[s] \notin {"idle", "time", "request"}
        /\ answer[s] # Nil => sent[s]
        /\ Granted(s) =>
              answer[s].expire.num = 0 \/ answer[s].expire.num > net_time[s]
        /\ todo[s] # << >> \/ refused[s] # Nil => Granted(s)

\* A handler in the middle of a command is at the command it took up.
CommandInv ==
    \A s \in Sessions :
        /\ pc[s] = "adb" => Command(s) \in {"adb-enable", "adb-disable"}
        /\ pc[s] \in {"write", "pm"} => Command(s) = "install-this"

\* If no two were at it, the device is as that handler has made it.
DeviceInv ==
    ~overlapped =>
        /\ \A s, t \in Sessions : s \in Busy /\ t \in Busy => s = t
        /\ \A s \in Sessions :
              /\ pc[s] = "adb" => IF Command(s) = "adb-enable" THEN dev ELSE ~adb
              /\ pc[s] = "pm" => tmpApk = Data(s)

IInv == /\ TypeOK /\ RequestInv /\ CommandInv /\ DeviceInv
        /\ GrantedCodeAccepted /\ AdbNeedsDev /\ InstallsGivenApk

LEMMA InvInit == Init => IInv
<1> SUFFICES ASSUME Init PROVE IInv
  OBVIOUS
<1>1. ~adb /\ ~overlapped /\ \A s \in Sessions : ~sent[s]
  BY Zenon DEF Init
<1>2. TypeOK
  BY MadeIsPayload DEF Init, TypeOK, Made, Labels
<1>3. RequestInv /\ CommandInv /\ DeviceInv
  BY <1>1 DEF Init, RequestInv, CommandInv, DeviceInv, Granted, Busy
<1>4. GrantedCodeAccepted /\ AdbNeedsDev /\ InstallsGivenApk
  BY <1>1 DEF Init, GrantedCodeAccepted, AdbNeedsDev, InstallsGivenApk
<1>5. QED
  BY <1>2, <1>3, <1>4 DEF IInv

\* The payload a handler is at, and what is left after it.
LEMMA AtPayload ==
    ASSUME TypeOK, NEW s \in Sessions, todo[s] # << >>
    PROVE  Head(todo[s]) \in Payloads /\ Tail(todo[s]) \in Seq(Payloads)
  BY DEF TypeOK

LEMMA TypeNext == TypeOK /\ [Next]_vars => TypeOK'
<1> SUFFICES ASSUME TypeOK, [Next]_vars PROVE TypeOK'
  OBVIOUS
<1> USE DEF TypeOK, Labels, Goto, Return, serverVars, deviceVars, requestVars
<1>1. CASE Tick
  BY <1>1 DEF Tick
<1>2. ASSUME NEW s \in Sessions, NEW c \in Codes, Dial(s, c) PROVE TypeOK'
  BY <1>2 DEF Dial
<1>3. ASSUME NEW s \in Sessions, Hangup(s) PROVE TypeOK'
  BY <1>3 DEF Hangup
<1>4. ASSUME NEW s \in Sessions, Serve(s) PROVE TypeOK'
  <2>1. CASE answer' = [answer EXCEPT ![s] = NotFound] /\ UNCHANGED codeFile
    BY <1>4, <2>1 DEF Serve
  <2>2. CASE ~(answer' = [answer EXCEPT ![s] = NotFound] /\ UNCHANGED codeFile)
    <3> DEFINE c == code[s]
               fixed == [codeFile[c] EXCEPT !.expire =
                            dp_get_expire_or_set(codeFile[c].expire, clock)]
    <3>1. /\ codeFile[c] # Nil
          /\ codeFile' = [codeFile EXCEPT ![c] = fixed]
          /\ answer' = [answer EXCEPT ![s] = dp_sign(fixed)]
      BY <1>4, <2>2 DEF Serve
    <3>2. c \in Codes
      BY <1>4 DEF Serve
    <3>3. fixed \in Payloads
      BY <3>1, <3>2, ActivatedPayload
    <3>4. dp_sign(fixed) \in Payloads
      BY <3>3, SignedPayload
    <3> HIDE DEF fixed
    <3>5. QED
      BY <1>4, <3>1, <3>2, <3>3, <3>4 DEF Serve
  <2>3. QED
    BY <2>1, <2>2
<1>5. ASSUME NEW s \in Sessions, GetTime(s) PROVE TypeOK'
  <2>1. CASE net_time' = [net_time EXCEPT ![s] = clock] /\ Goto(s, "request")
    BY <1>5, <2>1 DEF GetTime
  <2>2. CASE Return(s, "ECOMM") /\ UNCHANGED net_time
    BY <1>5, <2>2 DEF GetTime
  <2>3. QED
    BY <1>5, <2>1, <2>2 DEF GetTime
<1>6. ASSUME NEW s \in Sessions, SendRequest(s) PROVE TypeOK'
  <2>1. sent' \in [Sessions -> BOOLEAN]
    BY <1>6, Zenon DEF SendRequest
  <2>2. QED
    BY <1>6, <2>1 DEF SendRequest
<1>7. ASSUME NEW s \in Sessions, Receive(s) PROVE TypeOK'
  <2>1. CASE answer[s] = NotFound
    BY <1>7, <2>1 DEF Receive
  <2>2. CASE answer[s] # NotFound
    <3>1. <<answer[s]>> \in Seq(Payloads) /\ <<answer[s]>> # << >>
      BY <1>7, <2>2 DEF Receive
    <3>2. todo' = [todo EXCEPT ![s] = <<answer[s]>>] /\ Goto(s, "check")
      BY <1>7, <2>2 DEF Receive
    <3>3. todo' \in [Sessions -> Seq(Payloads)] /\ pc' \in [Sessions -> Labels]
      BY <3>1, <3>2
    <3>4. QED
      BY <1>7, <3>1, <3>2, <3>3 DEF Receive
  <2>3. QED
    BY <2>1, <2>2
<1>8. ASSUME NEW s \in Sessions, Timeout(s) PROVE TypeOK'
  BY <1>8 DEF Timeout
<1>9. ASSUME NEW s \in Sessions, CheckPayload(s) PROVE TypeOK'
  <2>1. CASE UNCHANGED todo
    BY <1>9, <2>1 DEF CheckPayload
  <2>2. CASE ~UNCHANGED todo
    <3>1. PICK now \in 0..MaxClock :
             LET p == Head(todo[s])
                 q == [p EXCEPT !.expire = dp_get_expire_or_set(p.expire, now)]
             IN todo' = [todo EXCEPT ![s] = <<q>> \o Tail(@)]
      BY <1>9, <2>2 DEF CheckPayload
    <3> DEFINE p == Head(todo[s])
               q == [p EXCEPT !.expire = dp_get_expire_or_set(p.expire, now)]
    <3>2. p \in Payloads /\ Tail(todo[s]) \in Seq(Payloads)
      BY <1>9, AtPayload DEF CheckPayload
    <3>3. q \in Payloads
      BY <3>2, ActivatedPayload
    <3>4. todo' = [todo EXCEPT ![s] = <<q>> \o Tail(todo[s])]
      BY <3>1
    <3> HIDE DEF q
    <3>5. /\ <<q>> \o Tail(todo[s]) \in Seq(Payloads)
          /\ <<q>> \o Tail(todo[s]) # << >>
      BY <3>2, <3>3
    <3>6. UNCHANGED <<refused, serverVars, requestVars>> /\ Goto(s, "run")
      BY <1>9, <2>2 DEF CheckPayload
    <3>7. todo' \in [Sessions -> Seq(Payloads)] /\ pc' \in [Sessions -> Labels]
      BY <3>4, <3>5, <3>6
    <3>8. QED
      BY <1>9, <3>4, <3>5, <3>6, <3>7 DEF CheckPayload
  <2>3. QED
    BY <2>1, <2>2
<1>10. ASSUME NEW s \in Sessions, Finish(s) PROVE TypeOK'
  BY <1>10 DEF Finish
<1>11. ASSUME NEW s \in Sessions, Sigpipe(s) PROVE TypeOK'
  BY <1>11 DEF Sigpipe
<1>12. ASSUME NEW s \in Sessions, RunComposite(s) PROVE TypeOK'
  <2>1. Head(todo[s]) \in Payloads /\ Tail(todo[s]) \in Seq(Payloads)
    BY <1>12, AtPayload DEF RunComposite
  <2>2. Data(s) \in Seq(Payloads)
    <3>1. Data(s) \in Seq(Parts)
      BY <1>12, <2>1, CompositeData DEF RunComposite, Command, Data
    <3>2. Parts \subseteq Payloads
      BY MadeIsPayload DEF Made
    <3>3. QED
      BY <3>1, <3>2
  <2>3. Data(s) \o Tail(todo[s]) \in Seq(Payloads)
    BY <2>1, <2>2
  <2>4. QED
    BY <1>12, <2>3 DEF RunComposite
<1>13. ASSUME NEW s \in Sessions, RunSingle(s) PROVE TypeOK'
  <2>1. CASE Succeeded(s)
    BY <1>13, <2>1, AtPayload DEF RunSingle, Succeeded
  <2>2. CASE RunFails(s)
    BY <1>13, <2>2 DEF RunSingle, RunFails
  <2>3. QED
    BY <1>13, <2>1, <2>2 DEF RunSingle
<1>14. ASSUME NEW s \in Sessions, RunOk(s) PROVE TypeOK'
  BY <1>14, AtPayload DEF RunOk, Succeeded
<1>15. ASSUME NEW s \in Sessions, RunUnknown(s) PROVE TypeOK'
  BY <1>15 DEF RunUnknown
<1>16. ASSUME NEW s \in Sessions, RunAdb(s) PROVE TypeOK'
  <2>1. CASE Succeeded(s)
    BY <1>16, <2>1, AtPayload DEF RunAdb, Succeeded
  <2>2. CASE RunFails(s)
    BY <1>16, <2>2 DEF RunAdb, RunFails
  <2>3. CASE ~Succeeded(s) /\ ~RunFails(s)
    BY <1>16, <2>3 DEF RunAdb
  <2>4. QED
    BY <2>1, <2>2, <2>3
<1>17. ASSUME NEW s \in Sessions, RunInstall(s) PROVE TypeOK'
  <2>1. CASE Succeeded(s)
    BY <1>17, <2>1, AtPayload DEF RunInstall, Succeeded
  <2>2. CASE RunFails(s)
    BY <1>17, <2>2 DEF RunInstall, RunFails
  <2>3. CASE ~Succeeded(s) /\ ~RunFails(s)
    BY <1>17, <2>3 DEF RunInstall
  <2>4. QED
    BY <2>1, <2>2, <2>3
<1>18. CASE Reboot
  BY <1>18 DEF Reboot, Live
<1>19. CASE UNCHANGED vars
  BY <1>19 DEF vars
<1>20. QED
  BY <1>1, <1>2, <1>3, <1>4, <1>5, <1>6, <1>7, <1>8, <1>9, <1>10, <1>11,
     <1>12, <1>13, <1>14, <1>15, <1>16, <1>17, <1>18, <1>19 DEF Next, Step

-----------------------------------------------------------------------------
(* Requests, answers and what is refused.                                  *)

AnswerInv == RequestInv /\ GrantedCodeAccepted

\* What most steps leave alone: no request, no answer, no refusal, and nothing
\* to do where there was nothing.
LEMMA AnswerFrame ==
    ASSUME TypeOK, TypeOK', AnswerInv, clock' = clock,
           UNCHANGED <<net_time, sent, answer, refused>>,
           \A t \in Sessions :
               /\ pc'[t] \in {"idle", "time", "request"} => pc'[t] = pc[t]
               /\ todo'[t] # << >> => todo[t] # << >>
    PROVE  AnswerInv'
  BY DEF AnswerInv, RequestInv, Granted, GrantedCodeAccepted, Master

LEMMA AnswerNext == TypeOK /\ AnswerInv /\ [Next]_vars => AnswerInv'
<1> SUFFICES ASSUME TypeOK, AnswerInv, [Next]_vars PROVE AnswerInv'
  OBVIOUS
<1> TypeOK'
  BY TypeNext
<1> USE DEF Goto, Return, serverVars, requestVars
<1>1. CASE Tick
  BY <1>1 DEF Tick, TypeOK, AnswerInv, RequestInv, Granted,
              GrantedCodeAccepted, Master
<1>2. ASSUME NEW s \in Sessions, NEW c \in Codes, Dial(s, c) PROVE AnswerInv'
  BY <1>2 DEF Dial, TypeOK, AnswerInv, RequestInv, Granted,
              GrantedCodeAccepted, Master
<1>3. ASSUME NEW s \in Sessions, Hangup(s) PROVE AnswerInv'
  BY <1>3, AnswerFrame DEF Hangup
<1>4. ASSUME NEW s \in Sessions, Serve(s) PROVE AnswerInv'
  <2>1. /\ sent[s] /\ answer[s] = Nil
        /\ UNCHANGED <<clock, pc, net_time, sent, todo, refused>>
    BY <1>4 DEF Serve
  <2>2. todo[s] = << >> /\ refused[s] = Nil
    BY <2>1 DEF AnswerInv, RequestInv, Granted
  <2>3. \A t \in Sessions \ {s} : answer'[t] = answer[t]
    BY <1>4 DEF Serve, TypeOK
  <2>4. answer'[s] \notin {Nil, NotFound} =>
           answer'[s].expire.num = 0 \/ answer'[s].expire.num > net_time[s]
    <3> SUFFICES ASSUME answer'[s] \notin {Nil, NotFound}
                 PROVE  answer'[s].expire.num = 0
                        \/ answer'[s].expire.num > net_time[s]
      OBVIOUS
    <3> DEFINE c == code[s]
               fixed == [codeFile[c] EXCEPT !.expire =
                            dp_get_expire_or_set(codeFile[c].expire, clock)]
    <3>1. /\ codeFile[c] # Nil
          /\ ~ExpiredAt(fixed.expire.num, clock)
          /\ answer' = [answer EXCEPT ![s] = dp_sign(fixed)]
      BY <1>4 DEF Serve, TypeOK
    <3>2. fixed \in Payloads
      BY <1>4, <3>1, ActivatedPayload DEF Serve, TypeOK
    <3> HIDE DEF fixed
    <3>3. answer'[s].expire = fixed.expire
      BY <3>1, <3>2, SignedPayload DEF TypeOK
    <3>4. fixed.expire.num \in Int
      BY <3>2 DEF Payloads, ExpireField
    <3>5. net_time[s] <= clock /\ net_time[s] \in Int /\ clock \in Int
      BY DEF TypeOK, AnswerInv, RequestInv
    <3>6. QED
      BY <3>1, <3>3, <3>4, <3>5 DEF ExpiredAt
  <2>5. RequestInv'
    BY <2>1, <2>2, <2>3, <2>4 DEF AnswerInv, RequestInv, Granted
  <2>6. GrantedCodeAccepted'
    BY <2>1, <2>2, <2>3 DEF AnswerInv, GrantedCodeAccepted, Master
  <2>7. QED
    BY <2>5, <2>6 DEF AnswerInv
<1>5. ASSUME NEW s \in Sessions, GetTime(s) PROVE AnswerInv'
  <2>1. answer[s] = Nil /\ ~sent[s]
    BY <1>5 DEF GetTime, TypeOK, AnswerInv, RequestInv
  <2>2. CASE net_time' = [net_time EXCEPT ![s] = clock] /\ Goto(s, "request")
    <3>1. /\ UNCHANGED <<clock, sent, answer, todo, refused>>
          /\ net_time'[s] <= clock
          /\ \A t \in Sessions \ {s} : net_time'[t] = net_time[t]
                                      /\ pc'[t] = pc[t]
      BY <1>5, <2>2 DEF GetTime, TypeOK
    <3>2. QED
      BY <2>1, <3>1 DEF AnswerInv, RequestInv, Granted, GrantedCodeAccepted,
                        Master
  <2>3. CASE Return(s, "ECOMM") /\ UNCHANGED net_time
    BY <1>5, <2>3, AnswerFrame DEF GetTime, TypeOK
  <2>4. QED
    BY <1>5, <2>2, <2>3 DEF GetTime
<1>6. ASSUME NEW s \in Sessions, SendRequest(s) PROVE AnswerInv'
  BY <1>6 DEF SendRequest, TypeOK, AnswerInv, RequestInv, Granted,
              GrantedCodeAccepted, Master
<1>7. ASSUME NEW s \in Sessions, Receive(s) PROVE AnswerInv'
  BY <1>7 DEF Receive, TypeOK, AnswerInv, RequestInv, Granted,
              GrantedCodeAccepted, Master
<1>8. ASSUME NEW s \in Sessions, Timeout(s) PROVE AnswerInv'
  BY <1>8, AnswerFrame DEF Timeout, TypeOK
<1>9. ASSUME NEW s \in Sessions, CheckPayload(s) PROVE AnswerInv'
  <2>1. /\ UNCHANGED <<clock, net_time, sent, answer>>
        /\ pc[s] = "check" /\ todo[s] # << >>
        /\ pc'[s] \in {"run", "done"}
        /\ \A t \in Sessions \ {s} : /\ pc'[t] = pc[t] /\ todo'[t] = todo[t]
                                     /\ refused'[t] = refused[t]
    BY <1>9 DEF CheckPayload, TypeOK
  <2>2. RequestInv'
    BY <2>1 DEF AnswerInv, RequestInv, Granted
  <2>3. CASE UNCHANGED refused
    BY <2>1, <2>2, <2>3 DEF AnswerInv, GrantedCodeAccepted, Master
  <2>4. CASE ~UNCHANGED refused
    <3>1. PICK now \in 0..MaxClock :
             LET p == Head(todo[s])
                 q == [p EXCEPT !.expire = dp_get_expire_or_set(p.expire, now)]
                 verdict == IF ExpiredAt(q.expire.num, CompareTime(s))
                            THEN "EKEYEXPIRED"
                            ELSE IF ~dp_verify(q) THEN "EBADMSG" ELSE "ok" IN
             /\ verdict # "ok"
             /\ refused' = [refused EXCEPT ![s] = [payload |-> p, why |-> verdict]]
      BY <1>9, <2>4 DEF CheckPayload
    <3> DEFINE p == Head(todo[s])
               q == [p EXCEPT !.expire = dp_get_expire_or_set(p.expire, now)]
               m == answer[s]
    <3>2. p \in Payloads
      BY <1>9, AtPayload DEF CheckPayload
    <3>3. q \in Payloads /\ (IsAbsolute(p.expire) => q = p)
      BY <3>2, ActivatedPayload
    <3>4. refused'[s].payload = p
      BY <3>1 DEF TypeOK
    <3>5. ExpiredAt(q.expire.num, net_time[s]) \/ ~dp_verify(q)
      BY <3>1 DEF CompareTime
    <3> HIDE DEF q
    <3>6. /\ m \in Payloads
          /\ m.expire.num = 0 \/ m.expire.num > net_time[s]
          /\ net_time[s] \in Int
      BY <2>1 DEF TypeOK, AnswerInv, RequestInv, Granted
    <3>7. p.expire.num \in Int /\ m.expire.num \in Int
      BY <3>2, <3>6 DEF Payloads, ExpireField
    <3>8. ~(dp_verify(p) /\ IsAbsolute(p.expire) /\ Outlives(p, m))
      BY <3>3, <3>5, <3>6, <3>7 DEF ExpiredAt, Outlives
    <3>9. GrantedCodeAccepted'
      BY <2>1, <3>4, <3>8 DEF AnswerInv, GrantedCodeAccepted, Master
    <3>10. QED
      BY <2>2, <3>9 DEF AnswerInv
  <2>5. QED
    BY <2>3, <2>4
<1>10. ASSUME NEW s \in Sessions, Finish(s) PROVE AnswerInv'
  BY <1>10, AnswerFrame DEF Finish, TypeOK
<1>11. ASSUME NEW s \in Sessions, Sigpipe(s) PROVE AnswerInv'
  BY <1>11, AnswerFrame DEF Sigpipe, TypeOK
<1>12. ASSUME NEW s \in Sessions, RunComposite(s) PROVE AnswerInv'
  BY <1>12, AnswerFrame DEF RunComposite, TypeOK
<1>13. ASSUME NEW s \in Sessions, RunSingle(s) PROVE AnswerInv'
  BY <1>13, AnswerFrame DEF RunSingle, Succeeded, RunFails, TypeOK
<1>14. ASSUME NEW s \in Sessions, RunOk(s) PROVE AnswerInv'
  BY <1>14, AnswerFrame DEF RunOk, Succeeded, TypeOK
<1>15. ASSUME NEW s \in Sessions, RunUnknown(s) PROVE AnswerInv'
  BY <1>15, AnswerFrame DEF RunUnknown, TypeOK
<1>16. ASSUME NEW s \in Sessions, RunAdb(s) PROVE AnswerInv'
  BY <1>16, AnswerFrame DEF RunAdb, Succeeded, RunFails, TypeOK
<1>17. ASSUME NEW s \in Sessions, RunInstall(s) PROVE AnswerInv'
  BY <1>17, AnswerFrame DEF RunInstall, Succeeded, RunFails, TypeOK
<1>18. CASE Reboot
  BY <1>18, AnswerFrame DEF Reboot, TypeOK
<1>19. CASE UNCHANGED vars
  BY <1>19, AnswerFrame DEF vars
<1>20. QED
  BY <1>1, <1>2, <1>3, <1>4, <1>5, <1>6, <1>7, <1>8, <1>9, <1>10, <1>11,
     <1>12, <1>13, <1>14, <1>15, <1>16, <1>17, <1>18, <1>19 DEF Next, Step

-----------------------------------------------------------------------------
(* The device.                                                             *)

EffectInv == CommandInv /\ DeviceInv /\ AdbNeedsDev /\ InstallsGivenApk

\* Steps that are no part of a command that changes the device.
LEMMA EffectFrame ==
    ASSUME TypeOK, TypeOK', EffectInv, UNCHANGED deviceVars,
           \A t \in Sessions : pc'[t] \in {"adb", "write", "pm"} =>
               pc'[t] = pc[t] /\ todo'[t] = todo[t]
    PROVE  EffectInv'
  BY DEF EffectInv, CommandInv, DeviceInv, AdbNeedsDev, InstallsGivenApk, Busy,
         Command, Data, deviceVars

LEMMA EffectNext == TypeOK /\ EffectInv /\ [Next]_vars => EffectInv'
<1> SUFFICES ASSUME TypeOK, EffectInv, [Next]_vars PROVE EffectInv'
  OBVIOUS
<1> TypeOK'
  BY TypeNext
<1> USE DEF Goto, Return
<1>1. CASE Tick
  BY <1>1, EffectFrame DEF Tick
<1>2. ASSUME NEW s \in Sessions, NEW c \in Codes, Dial(s, c) PROVE EffectInv'
  BY <1>2, EffectFrame DEF Dial, TypeOK
<1>3. ASSUME NEW s \in Sessions, Hangup(s) PROVE EffectInv'
  BY <1>3, EffectFrame DEF Hangup
<1>4. ASSUME NEW s \in Sessions, Serve(s) PROVE EffectInv'
  BY <1>4, EffectFrame DEF Serve
<1>5. ASSUME NEW s \in Sessions, GetTime(s) PROVE EffectInv'
  BY <1>5, EffectFrame DEF GetTime, TypeOK
<1>6. ASSUME NEW s \in Sessions, SendRequest(s) PROVE EffectInv'
  BY <1>6, EffectFrame DEF SendRequest, TypeOK
<1>7. ASSUME NEW s \in Sessions, Receive(s) PROVE EffectInv'
  BY <1>7, EffectFrame DEF Receive, TypeOK
<1>8. ASSUME NEW s \in Sessions, Timeout(s) PROVE EffectInv'
  BY <1>8, EffectFrame DEF Timeout, TypeOK
<1>9. ASSUME NEW s \in Sessions, CheckPayload(s) PROVE EffectInv'
  BY <1>9, EffectFrame DEF CheckPayload, TypeOK
<1>10. ASSUME NEW s \in Sessions, Finish(s) PROVE EffectInv'
  BY <1>10, EffectFrame DEF Finish, TypeOK
<1>11. ASSUME NEW s \in Sessions, Sigpipe(s) PROVE EffectInv'
  BY <1>11, EffectFrame DEF Sigpipe, TypeOK
<1>12. ASSUME NEW s \in Sessions, RunComposite(s) PROVE EffectInv'
  BY <1>12, EffectFrame DEF RunComposite, TypeOK
<1>13. ASSUME NEW s \in Sessions, RunSingle(s) PROVE EffectInv'
  BY <1>13, EffectFrame DEF RunSingle, Succeeded, RunFails, TypeOK
<1>14. ASSUME NEW s \in Sessions, RunOk(s) PROVE EffectInv'
  BY <1>14, EffectFrame DEF RunOk, Succeeded, TypeOK
<1>15. ASSUME NEW s \in Sessions, RunUnknown(s) PROVE EffectInv'
  BY <1>15, EffectFrame DEF RunUnknown, TypeOK
<1>16. ASSUME NEW s \in Sessions, RunAdb(s) PROVE EffectInv'
  <2>1. /\ Command(s) \in {"adb-enable", "adb-disable"}
        /\ NoteOverlap /\ UNCHANGED <<tmpApk, installs>>
        /\ \A t \in Sessions \ {s} : pc'[t] = pc[t] /\ todo'[t] = todo[t]
    BY <1>16 DEF RunAdb, Succeeded, RunFails, TypeOK
  <2>2. \/ pc[s] = "run" /\ AdbFirst(s) /\ pc'[s] = "adb" /\ todo'[s] = todo[s]
        \/ pc[s] = "adb" /\ AdbSecond(s) /\ pc'[s] = "check"
        \/ UNCHANGED <<dev, adb>> /\ pc'[s] = "done"
    BY <1>16 DEF RunAdb, Succeeded, RunFails, TypeOK
  <2>3. CommandInv'
    BY <2>1, <2>2 DEF EffectInv, CommandInv, Command
  <2>4. CASE overlapped'
    BY <2>1, <2>3, <2>4 DEF EffectInv, DeviceInv, AdbNeedsDev, InstallsGivenApk
  <2>5. CASE ~overlapped'
    <3>1. ~overlapped /\ \A t, u \in Busy' : t = u
      BY <2>1, <2>5 DEF NoteOverlap
    <3>2. InstallsGivenApk'
      BY <2>1, <3>1 DEF EffectInv, InstallsGivenApk
    <3>3. CASE pc[s] = "run" /\ AdbFirst(s) /\ pc'[s] = "adb"
               /\ todo'[s] = todo[s]
      <4>1. \A t \in Sessions \ {s} : pc'[t] \notin {"adb", "write", "pm"}
        BY <3>1, <3>3 DEF Busy
      <4>2. DeviceInv'
        BY <2>1, <3>1, <3>3, <4>1 DEF DeviceInv, AdbFirst, Command, Busy
      <4>3. AdbNeedsDev'
        BY <3>1, <3>3 DEF EffectInv, AdbNeedsDev, AdbFirst
      <4>4. QED
        BY <2>3, <3>2, <4>2, <4>3 DEF EffectInv
    <3>4. CASE pc[s] = "adb" /\ AdbSecond(s) /\ pc'[s] = "check"
      <4>1. /\ IF Command(s) = "adb-enable" THEN dev ELSE ~adb
            /\ \A t \in Sessions \ {s} : pc'[t] \notin {"adb", "write", "pm"}
        BY <2>1, <3>1, <3>4 DEF EffectInv, DeviceInv, Busy
      <4>2. DeviceInv'
        BY <3>1, <3>4, <4>1 DEF DeviceInv, Busy
      <4>3. AdbNeedsDev'
        BY <3>1, <3>4, <4>1 DEF EffectInv, AdbNeedsDev, AdbSecond
      <4>4. QED
        BY <2>3, <3>2, <4>2, <4>3 DEF EffectInv
    <3>5. CASE UNCHANGED <<dev, adb>> /\ pc'[s] = "done"
      <4>1. DeviceInv'
        BY <2>1, <3>1, <3>5 DEF EffectInv, DeviceInv, Busy, Command, Data
      <4>2. AdbNeedsDev'
        BY <3>1, <3>5 DEF EffectInv, AdbNeedsDev
      <4>3. QED
        BY <2>3, <3>2, <4>1, <4>2 DEF EffectInv
    <3>6. QED
      BY <2>2, <3>3, <3>4, <3>5
  <2>6. QED
    BY <2>4, <2>5
<1>17. ASSUME NEW s \in Sessions, RunInstall(s) PROVE EffectInv'
  <2>1. /\ Command(s) = "install-this"
        /\ NoteOverlap /\ UNCHANGED <<dev, adb>>
        /\ \A t \in Sessions \ {s} : pc'[t] = pc[t] /\ todo'[t] = todo[t]
    BY <1>17 DEF RunInstall, Succeeded, RunFails, TypeOK
  <2>2. \/ pc[s] = "run" /\ pc'[s] = "write" /\ todo'[s] = todo[s]
           /\ UNCHANGED <<tmpApk, installs>>
        \/ pc[s] = "write" /\ pc'[s] = "pm" /\ todo'[s] = todo[s]
           /\ tmpApk' = Data(s) /\ UNCHANGED installs
        \/ pc[s] = "pm" /\ pc'[s] = "check"
           /\ installs' = installs \cup {<<Data(s), tmpApk>>}
        \/ pc[s] = "run" /\ pc'[s] = "done" /\ UNCHANGED <<tmpApk, installs>>
        \/ pc[s] \in {"write", "pm"} /\ pc'[s] = "done" /\ UNCHANGED installs
    BY <1>17 DEF RunInstall, Succeeded, RunFails, OpenedApk, TypeOK
  <2>3. CommandInv'
    BY <2>1, <2>2 DEF EffectInv, CommandInv, Command
  <2>4. CASE overlapped'
    BY <2>1, <2>3, <2>4 DEF EffectInv, DeviceInv, AdbNeedsDev, InstallsGivenApk
  <2>5. CASE ~overlapped'
    <3>1. ~overlapped /\ \A t, u \in Busy' : t = u
      BY <2>1, <2>5 DEF NoteOverlap
    <3>2. AdbNeedsDev'
      BY <2>1, <3>1 DEF EffectInv, AdbNeedsDev
    <3>3. CASE pc[s] \in {"write", "pm"} \/ pc'[s] \in {"write", "pm"}
      <4>1. \A t \in Sessions \ {s} : pc'[t] \notin {"adb", "write", "pm"}
        BY <2>1, <3>1, <3>3 DEF EffectInv, DeviceInv, Busy
      <4>2. DeviceInv'
        BY <2>1, <2>2, <3>1, <4>1 DEF DeviceInv, Busy, Data
      <4>3. InstallsGivenApk'
        BY <2>2, <3>1 DEF EffectInv, DeviceInv, InstallsGivenApk
      <4>4. QED
        BY <2>3, <3>2, <4>2, <4>3 DEF EffectInv
    <3>4. CASE pc[s] = "run" /\ pc'[s] = "done" /\ UNCHANGED <<tmpApk, installs>>
      <4>1. DeviceInv'
        BY <2>1, <3>1, <3>4 DEF EffectInv, DeviceInv, Busy, Command, Data
      <4>2. InstallsGivenApk'
        BY <3>1, <3>4 DEF EffectInv, InstallsGivenApk
      <4>3. QED
        BY <2>3, <3>2, <4>1, <4>2 DEF EffectInv
    <3>5. QED
      BY <2>2, <3>3, <3>4
  <2>6. QED
    BY <2>4, <2>5
<1>18. CASE Reboot
  BY <1>18, EffectFrame DEF Reboot, Live, TypeOK
<1>19. CASE UNCHANGED vars
  BY <1>19, EffectFrame DEF vars, deviceVars
<1>20. QED
  BY <1>1, <1>2, <1>3, <1>4, <1>5, <1>6, <1>7, <1>8, <1>9, <1>10, <1>11,
     <1>12, <1>13, <1>14, <1>15, <1>16, <1>17, <1>18, <1>19 DEF Next, Step

-----------------------------------------------------------------------------
(* The order of the commands.                                              *)

LEMMA NamesAssociative ==
    \A a, b, c \in Seq(STRING) : (a \o b) \o c = a \o (b \o c)
  BY ConcatAssociative

\* What one payload stands for is a sequence of names of commands.
LEMMA CommandsType ==
    ASSUME NEW p \in Payloads
    PROVE  CommandsOf(p) \in Seq(STRING)
<1>1. CASE p.command = "composite"
  <2>1. PICK q \in Composites : p.data = q.data
    BY <1>1 DEF Payloads
  <2>2. q.data \in Seq(Parts)
    BY <2>1, PayloadsAssumption DEF Composites, Made, IsPayload
  <2>3. PartsFrom(q, 1) = q.data /\ 1 \in 1..(Len(q.data) + 1)
    BY <2>2 DEF PartsFrom
  <2>4. Commands[q.data] \in Seq(STRING)
    BY <2>1, <2>3, CommandsAssumption DEF Composites, Made
  <2>5. QED
    BY <1>1, <2>1, <2>4 DEF CommandsOf
<1>2. CASE p.command # "composite"
  <2>1. p.command \in STRING
    BY PayloadsAssumption DEF Payloads, Made, IsPayload
  <2>2. QED
    BY <1>2, <2>1 DEF CommandsOf
<1>3. QED
  BY <1>1, <1>2

\* rest[i] is what the payloads of ps stand for from the i-th on.
Unfolds(rest, ps) ==
    /\ rest \in [1..(Len(ps) + 1) -> Seq(STRING)]
    /\ rest[Len(ps) + 1] = << >>
    /\ \A i \in 1..Len(ps) : rest[i] = CommandsOf(ps[i]) \o rest[i + 1]

\* The payloads of ps stand for the commands cs.
StandFor(ps, cs) == \E rest : Unfolds(rest, ps) /\ rest[1] = cs

LEMMA StandForType ==
    ASSUME NEW ps \in Seq(Payloads), NEW cs, StandFor(ps, cs)
    PROVE  cs \in Seq(STRING) /\ (ps = << >> => cs = << >>)
<1>1. PICK rest : Unfolds(rest, ps) /\ rest[1] = cs
  BY DEF StandFor
<1>2. 1 \in 1..(Len(ps) + 1) /\ (ps = << >> => Len(ps) + 1 = 1)
  OBVIOUS
<1>3. QED
  BY <1>1, <1>2, Zenon DEF Unfolds

\* The parts of a composite stand for what it stands for.
LEMMA CompositeStandsFor ==
    ASSUME NEW p \in Payloads, p.command = "composite"
    PROVE  StandFor(p.data, CommandsOf(p))
<1>1. PICK q \in Composites : p.data = q.data
  BY DEF Payloads
<1>2. q.data \in Seq(Parts) /\ Len(q.data) \in Nat
  BY <1>1, PayloadsAssumption DEF Composites, Made, IsPayload
<1> DEFINE n == Len(q.data)
           rest == [i \in 1..(n + 1) |-> Commands[PartsFrom(q, i)]]
<1>3. \A i \in 1..(n + 1) :
         /\ Commands[PartsFrom(q, i)] \in Seq(STRING)
         /\ Commands[PartsFrom(q, i)] =
               IF PartsFrom(q, i) = << >> THEN << >>
               ELSE CommandsOf(Head(PartsFrom(q, i)))
                    \o Commands[Tail(PartsFrom(q, i))]
  BY <1>1, CommandsAssumption DEF Composites, Made
<1>4. PartsFrom(q, n + 1) = << >> /\ PartsFrom(q, 1) = q.data
  BY <1>2, SubSeqEmpty, SubSeqFull DEF PartsFrom
<1>5. ASSUME NEW i \in 1..n
      PROVE  /\ PartsFrom(q, i) # << >>
             /\ Head(PartsFrom(q, i)) = q.data[i]
             /\ Tail(PartsFrom(q, i)) = PartsFrom(q, i + 1)
  <2>1. i \in 1..Len(q.data) /\ Len(q.data) \in i..Len(q.data)
    BY <1>2
  <2>2. /\ Head(PartsFrom(q, i)) = q.data[i]
        /\ Tail(PartsFrom(q, i)) = PartsFrom(q, i + 1)
    BY <1>2, <2>1, HeadTailOfSubSeq DEF PartsFrom
  <2>3. Len(PartsFrom(q, i)) = n - i + 1
    BY <1>2, <2>1 DEF PartsFrom
  <2>4. QED
    BY <1>2, <2>2, <2>3
<1>6. Unfolds(rest, q.data)
  <2>1. rest[n + 1] = << >>
    BY <1>2, <1>3, <1>4
  <2>2. ASSUME NEW i \in 1..n
        PROVE  rest[i] = CommandsOf(q.data[i]) \o rest[i + 1]
    <3>1. i \in 1..(n + 1) /\ i + 1 \in 1..(n + 1)
      BY <1>2
    <3>2. /\ rest[i] = Commands[PartsFrom(q, i)]
          /\ rest[i + 1] = Commands[PartsFrom(q, i + 1)]
      BY <3>1
    <3>3. QED
      BY <1>3, <1>5, <3>1, <3>2
  <2>3. rest \in [1..(n + 1) -> Seq(STRING)]
    BY <1>3
  <2>4. QED
    BY <2>1, <2>2, <2>3 DEF Unfolds
<1>7. rest[1] = CommandsOf(p)
  BY <1>1, <1>2, <1>4 DEF CommandsOf
<1>8. QED
  BY <1>1, <1>6, <1>7 DEF StandFor

\* The first payload done, or a list put in front of the others.
LEMMA TailStandsFor ==
    ASSUME NEW ps \in Seq(Payloads), ps # << >>, NEW cs, StandFor(ps, cs)
    PROVE  \E ds : StandFor(Tail(ps), ds) /\ cs = CommandsOf(Head(ps)) \o ds
<1>0. PICK rest : Unfolds(rest, ps) /\ rest[1] = cs
  BY DEF StandFor
<1> DEFINE n == Len(ps)
           more == [i \in 1..n |-> rest[i + 1]]
<1>1. /\ n \in Nat /\ n >= 1 /\ Len(Tail(ps)) = n - 1
      /\ Head(ps) = ps[1]
      /\ \A i \in 1..(n - 1) : Tail(ps)[i] = ps[i + 1]
  BY HeadTailProperties
<1>2. /\ rest \in [1..(n + 1) -> Seq(STRING)]
      /\ rest[n + 1] = << >>
      /\ \A i \in 1..n : rest[i] = CommandsOf(ps[i]) \o rest[i + 1]
  BY <1>0 DEF Unfolds
<1> HIDE DEF n
<1>3. \A i \in 1..(n - 1) : more[i] = CommandsOf(Tail(ps)[i]) \o more[i + 1]
  <2> TAKE i \in 1..(n - 1)
  <2>1. /\ i + 1 \in 1..n
        /\ more[i] = rest[i + 1] /\ more[i + 1] = rest[(i + 1) + 1]
    BY <1>1
  <2> HIDE DEF more
  <2>2. QED
    BY <1>1, <1>2, <2>1, Zenon
<1>4. more \in [1..(n - 1 + 1) -> Seq(STRING)] /\ more[n - 1 + 1] = << >>
  BY <1>1, <1>2
<1>5. rest[1] = CommandsOf(Head(ps)) \o more[1]
  <2>1. 1 \in 1..n /\ more[1] = rest[1 + 1]
    BY <1>1
  <2> HIDE DEF more
  <2>2. QED
    BY <1>1, <1>2, <2>1, Zenon
<1> HIDE DEF more
<1>6. Unfolds(more, Tail(ps))
  BY <1>1, <1>3, <1>4 DEF Unfolds
<1>7. StandFor(Tail(ps), more[1])
  BY <1>6 DEF StandFor
<1>8. QED
  BY <1>0, <1>5, <1>7, Zenon

LEMMA ConcatStandsFor ==
    ASSUME NEW ps \in Seq(Payloads), NEW qs \in Seq(Payloads),
           NEW cs, StandFor(ps, cs), NEW ds, StandFor(qs, ds)
    PROVE  StandFor(ps \o qs, cs \o ds)
<1>a. PICK first : Unfolds(first, ps) /\ first[1] = cs
  BY DEF StandFor
<1>b. PICK second : Unfolds(second, qs) /\ second[1] = ds
  BY DEF StandFor
<1> DEFINE m == Len(ps)
           n == Len(qs)
           both == [i \in 1..(m + n + 1) |->
                       IF i <= m THEN first[i] \o second[1] ELSE second[i - m]]
<1>1. /\ m \in Nat /\ n \in Nat /\ Len(ps \o qs) = m + n
      /\ \A i \in 1..m : ps[i] \in Payloads /\ (ps \o qs)[i] = ps[i]
      /\ \A i \in (m + 1)..(m + n) : (ps \o qs)[i] = qs[i - m]
  BY ConcatProperties
<1>2. /\ \A i \in 1..(m + 1) : first[i] \in Seq(STRING)
      /\ first[m + 1] = << >>
      /\ \A i \in 1..m : first[i] = CommandsOf(ps[i]) \o first[i + 1]
  BY <1>a DEF Unfolds
<1>3. /\ \A i \in 1..(n + 1) : second[i] \in Seq(STRING)
      /\ second[n + 1] = << >>
      /\ \A i \in 1..n : second[i] = CommandsOf(qs[i]) \o second[i + 1]
  BY <1>b DEF Unfolds
<1> HIDE DEF m, n
<1>4. second[1] \in Seq(STRING)
  BY <1>1, <1>3
<1>5. first[m + 1] \o second[1] = second[1]
  BY <1>2, <1>4, ConcatEmptySeq
<1>6. \A i \in 1..(m + 1) : both[i] = first[i] \o second[1]
  <2>1. ASSUME NEW i \in 1..m PROVE both[i] = first[i] \o second[1]
    <3>1. i \in 1..(m + n + 1) /\ i <= m
      BY <1>1
    <3>2. QED
      BY <3>1, Zenon
  <2>2. both[m + 1] = second[1]
    BY <1>1
  <2>3. \A i \in 1..(m + 1) : i \in 1..m \/ i = m + 1
    BY <1>1
  <2> HIDE DEF both
  <2>4. QED
    BY <1>5, <2>1, <2>2, <2>3, Zenon
<1>7. \A i \in (m + 1)..(m + n + 1) : both[i] = second[i - m]
  BY <1>1
<1>8. both \in [1..(m + n + 1) -> Seq(STRING)]
  <2>1. ASSUME NEW i \in 1..(m + n + 1)
        PROVE  (IF i <= m THEN first[i] \o second[1] ELSE second[i - m])
                  \in Seq(STRING)
    <3>1. CASE i <= m
      BY <1>1, <1>2, <1>4, <3>1, ConcatProperties
    <3>2. CASE ~(i <= m)
      BY <1>1, <1>3, <3>2
    <3>3. QED
      BY <3>1, <3>2
  <2>2. QED
    BY <2>1
<1> HIDE DEF both
<1>9. ASSUME NEW i \in 1..m
      PROVE  both[i] = CommandsOf((ps \o qs)[i]) \o both[i + 1]
  <2>1. i \in 1..(m + 1) /\ i + 1 \in 1..(m + 1)
    BY <1>1
  <2>2. /\ both[i] = first[i] \o second[1]
        /\ both[i + 1] = first[i + 1] \o second[1]
    BY <1>6, <2>1
  <2>3. CommandsOf(ps[i]) \in Seq(STRING) /\ first[i + 1] \in Seq(STRING)
    BY <1>1, <1>2, <2>1, CommandsType
  <2>4. (CommandsOf(ps[i]) \o first[i + 1]) \o second[1]
           = CommandsOf(ps[i]) \o (first[i + 1] \o second[1])
    BY <1>4, <2>3, NamesAssociative, Zenon
  <2>5. QED
    BY <1>1, <1>2, <2>2, <2>4
<1>10. ASSUME NEW i \in (m + 1)..(m + n)
      PROVE  both[i] = CommandsOf((ps \o qs)[i]) \o both[i + 1]
  <2>1. /\ i \in (m + 1)..(m + n + 1) /\ i + 1 \in (m + 1)..(m + n + 1)
        /\ i - m \in 1..n /\ (i + 1) - m = (i - m) + 1
    BY <1>1
  <2>2. both[i] = second[i - m] /\ both[i + 1] = second[(i - m) + 1]
    BY <1>7, <2>1
  <2>3. QED
    BY <1>1, <1>3, <2>1, <2>2
<1>11. both[m + n + 1] = << >>
  <2>1. m + n + 1 \in (m + 1)..(m + n + 1) /\ (m + n + 1) - m = n + 1
    BY <1>1
  <2>2. QED
    BY <1>3, <1>7, <2>1
<1>12. Unfolds(both, ps \o qs)
  <2>1. \A i \in 1..(m + n) : both[i] = CommandsOf((ps \o qs)[i]) \o both[i + 1]
    <3> TAKE i \in 1..(m + n)
    <3>1. i \in 1..m \/ i \in (m + 1)..(m + n)
      BY <1>1
    <3>2. QED
      BY <1>9, <1>10, <3>1
  <2>2. QED
    BY <1>1, <1>8, <1>11, <2>1 DEF Unfolds
<1>13. both[1] = first[1] \o second[1]
  <2>1. 1 \in 1..(m + 1)
    BY <1>1
  <2>2. QED
    BY <1>6, <2>1, Zenon
<1>14. QED
  BY <1>a, <1>b, <1>12, <1>13, Zenon DEF StandFor

LEMMA OneStandsFor ==
    ASSUME NEW p \in Payloads
    PROVE  StandFor(<<p>>, CommandsOf(p))
<1> DEFINE rest == [i \in 1..2 |-> IF i = 1 THEN CommandsOf(p) ELSE << >>]
<1>1. CommandsOf(p) \in Seq(STRING)
  BY CommandsType
<1>2. /\ rest \in [1..2 -> Seq(STRING)]
      /\ rest[1] = CommandsOf(p) /\ rest[2] = << >>
  BY <1>1
<1> HIDE DEF rest
<1>3. rest[1] = CommandsOf(p) \o rest[2]
  BY <1>1, <1>2, ConcatEmptySeq
<1>4. Len(<<p>>) = 1 /\ <<p>>[1] = p
  OBVIOUS
<1>5. Unfolds(rest, <<p>>)
  <2>1. \A i \in 1..1 : i = 1
    OBVIOUS
  <2>2. 1 + 1 = 2
    OBVIOUS
  <2>3. QED
    BY <1>2, <1>3, <1>4, <2>1, <2>2, Zenon DEF Unfolds
<1>6. QED
  BY <1>2, <1>5 DEF StandFor

\* An expire field that was rewritten changes nothing of it.
LEMMA ActivatedStandsFor ==
    ASSUME NEW ps \in Seq(Payloads), ps # << >>, NEW q \in Payloads,
           q.command = Head(ps).command, q.data = Head(ps).data,
           NEW cs, StandFor(ps, cs)
    PROVE  StandFor(<<q>> \o Tail(ps), cs)
<1>1. /\ Len(<<q>> \o Tail(ps)) = Len(ps)
      /\ (<<q>> \o Tail(ps))[1] = q
      /\ \A i \in 2..Len(ps) : (<<q>> \o Tail(ps))[i] = ps[i]
  OBVIOUS
<1>2. CommandsOf(q) = CommandsOf(ps[1])
  BY DEF CommandsOf
<1>3. ASSUME NEW i \in 1..Len(ps)
      PROVE  CommandsOf((<<q>> \o Tail(ps))[i]) = CommandsOf(ps[i])
  <2>1. i = 1 \/ i \in 2..Len(ps)
    OBVIOUS
  <2>2. QED
    BY <1>1, <1>2, <2>1, Zenon
<1>4. QED
  BY <1>1, <1>3, Zenon DEF StandFor, Unfolds

LEMMA PrefixOfConcat == \A a, b \in Seq(STRING) : IsPrefix(a, a \o b)
<1> SUFFICES ASSUME NEW a \in Seq(STRING), NEW b \in Seq(STRING)
             PROVE  IsPrefix(a, a \o b)
  OBVIOUS
<1>1. Len(a) \in Nat /\ Len(a) <= Len(a \o b)
  BY ConcatProperties
<1>2. CASE a = << >>
  BY <1>1, <1>2, SubSeqEmpty DEF IsPrefix
<1>3. CASE a # << >>
  <2>1. 1 \in 1..Len(a) /\ Len(a) \in 1..Len(a)
    BY <1>1, <1>3
  <2>2. SubSeq(a \o b, 1, Len(a)) = SubSeq(a, 1, Len(a))
    BY <2>1, SubSeqOfConcat1
  <2>3. QED
    BY <1>1, <2>2 DEF IsPrefix
<1>4. QED
  BY <1>2, <1>3

\* A handler at a payload has done some of the commands its code stands for, and
\* what it has still to handle stands for the others.
Early == {"idle", "time", "request", "download"}
Active == {"check", "run", "adb", "write", "pm"}

OrderInv ==
    /\ ran \in [Sessions -> Seq(STRING)]
    /\ DOMAIN ret = Sessions
    /\ \A s \in Sessions :
          /\ pc[s] \in Early => ran[s] = << >>
          /\ pc[s] # "done" => ret[s] = Nil
          /\ pc[s] \in Active =>
                /\ Granted(s)
                /\ \E cs : /\ StandFor(todo[s], cs)
                           /\ ran[s] \o cs = CommandsOf(Master(s))
          /\ ran[s] # << >> \/ (ret[s] = "0" /\ sent[s]) => Granted(s)
    /\ CodeRunsInOrder

\* Steps that do not advance in the list.
LEMMA OrderFrame ==
    ASSUME TypeOK, TypeOK', OrderInv, UNCHANGED <<answer, ran>>,
           DOMAIN ret' = Sessions,
           \A t \in Sessions :
               /\ pc'[t] \in Early => pc[t] \in Early
               /\ pc'[t] # "done" => pc[t] # "done" /\ ret'[t] = ret[t]
               /\ pc'[t] \in Active => pc[t] \in Active /\ todo'[t] = todo[t]
               /\ ret'[t] = "0" /\ sent'[t] => ret[t] = "0" /\ sent[t]
    PROVE  OrderInv'
<1>1. CodeRunsInOrder'
  BY DEF OrderInv, CodeRunsInOrder, Master
<1>2. QED
  BY <1>1 DEF OrderInv, Granted, Master

\* Steps that do.
LEMMA OrderAdvance ==
    ASSUME TypeOK, TypeOK', OrderInv, NEW s \in Sessions,
           UNCHANGED <<answer, sent, ret>>, Granted(s),
           pc[s] # "done", pc'[s] \in Active,
           \A t \in Sessions \ {s} :
               pc'[t] = pc[t] /\ todo'[t] = todo[t] /\ ran'[t] = ran[t],
           ran' \in [Sessions -> Seq(STRING)],
           NEW cs, StandFor(todo'[s], cs),
           ran'[s] \o cs = CommandsOf(Master(s))
    PROVE  OrderInv'
<1>1. cs \in Seq(STRING)
  BY StandForType DEF TypeOK
<1>2. IsPrefix(ran'[s], CommandsOf(Master(s)))
  BY <1>1, PrefixOfConcat
<1>3. ret'[s] # "0"
  BY NilAssumption DEF OrderInv
<1>4. CodeRunsInOrder'
  BY <1>2, <1>3 DEF OrderInv, CodeRunsInOrder, Master
<1>5. ASSUME NEW t \in Sessions
      PROVE  (/\ pc[t] \in Early => ran[t] = << >>
              /\ pc[t] # "done" => ret[t] = Nil
              /\ pc[t] \in Active =>
                    /\ Granted(t)
                    /\ \E ds : /\ StandFor(todo[t], ds)
                               /\ ran[t] \o ds = CommandsOf(Master(t))
              /\ ran[t] # << >> \/ (ret[t] = "0" /\ sent[t]) => Granted(t))'
  <2>1. CASE t = s
    <3>1. pc'[s] \notin Early /\ ret'[s] = Nil
      BY DEF OrderInv, Early, Active
    <3>2. Granted(s)' /\ Master(s)' = Master(s)
      BY DEF Granted, Master
    <3>3. QED
      BY <2>1, <3>1, <3>2, Zenon
  <2>2. CASE t # s
    <3>1. /\ pc'[t] = pc[t] /\ todo'[t] = todo[t] /\ ran'[t] = ran[t]
          /\ ret'[t] = ret[t] /\ sent'[t] = sent[t]
          /\ Granted(t)' = Granted(t) /\ Master(t)' = Master(t)
      BY <2>2 DEF Granted, Master
    <3>2. QED
      BY <3>1, Zenon DEF OrderInv
  <2>3. QED
    BY <2>1, <2>2
<1>6. QED
  BY <1>4, <1>5, Zenon DEF OrderInv

\* A command that succeeded goes from the list to those that ran.
LEMMA OrderSucceeded ==
    ASSUME TypeOK, TypeOK', OrderInv, NEW s \in Sessions,
           pc[s] \in {"run", "adb", "pm"}, Command(s) # "composite",
           Succeeded(s), UNCHANGED <<answer, sent, ret>>
    PROVE  OrderInv'
<1> DEFINE c == Head(todo[s]).command
<1>1. /\ Head(todo[s]) \in Payloads /\ todo[s] \in Seq(Payloads)
      /\ todo[s] # << >>
  BY AtPayload DEF TypeOK
<1>2. PICK cs : /\ StandFor(todo[s], cs)
                /\ ran[s] \o cs = CommandsOf(Master(s))
  BY DEF OrderInv, Active
<1>3. PICK ds : /\ StandFor(Tail(todo[s]), ds)
                /\ cs = CommandsOf(Head(todo[s])) \o ds
  BY <1>1, <1>2, TailStandsFor
<1>4. CommandsOf(Head(todo[s])) = <<c>> /\ <<c>> \in Seq(STRING)
  BY <1>1, CommandsType DEF CommandsOf, Command
<1>5. ds \in Seq(STRING)
  <2>1. Tail(todo[s]) \in Seq(Payloads)
    BY <1>1
  <2>2. QED
    BY <1>3, <2>1, StandForType
<1>6. /\ ran[s] \in Seq(STRING) /\ c \in STRING
      /\ todo'[s] = Tail(todo[s]) /\ pc'[s] = "check"
      /\ ran'[s] = Append(ran[s], c)
      /\ ran' \in [Sessions -> Seq(STRING)]
      /\ \A t \in Sessions \ {s} :
            pc'[t] = pc[t] /\ todo'[t] = todo[t] /\ ran'[t] = ran[t]
  <2>1. c \in STRING
    BY <1>1, PayloadsAssumption DEF Payloads, Made, IsPayload
  <2>2. ran \in [Sessions -> Seq(STRING)]
    BY DEF OrderInv
  <2> HIDE DEF c
  <2>3. ran' = [ran EXCEPT ![s] = Append(@, c)]
    BY Zenon DEF Succeeded, c
  <2>4. ran' \in [Sessions -> Seq(STRING)] /\ ran'[s] = Append(ran[s], c)
    BY <2>1, <2>2, <2>3
  <2>5. QED
    BY <2>1, <2>2, <2>3, <2>4 DEF Succeeded, Goto, TypeOK
<1> HIDE DEF c
<1>7. ran'[s] = ran[s] \o <<c>>
  BY <1>6, AppendIsConcat
<1>8. ran'[s] \o ds = CommandsOf(Master(s))
  <2>1. (ran[s] \o <<c>>) \o ds = ran[s] \o (<<c>> \o ds)
    BY <1>4, <1>5, <1>6, NamesAssociative, Zenon
  <2>2. cs = <<c>> \o ds
    BY <1>3, <1>4, Zenon
  <2>3. QED
    BY <1>2, <1>7, <2>1, <2>2, Zenon
<1>9. Granted(s) /\ pc[s] # "done" /\ pc'[s] \in Active
  BY <1>6 DEF OrderInv, Active
<1>10. StandFor(todo'[s], ds)
  BY <1>3, <1>6
<1>11. QED
  BY <1>6, <1>8, <1>9, <1>10, OrderAdvance

LEMMA OrderInit == Init => OrderInv
<1> SUFFICES ASSUME Init PROVE OrderInv
  OBVIOUS
<1>1. \A s \in Sessions : ~sent[s]
  BY Zenon DEF Init
<1>2. QED
  BY <1>1 DEF Init, OrderInv, CodeRunsInOrder, Early, Active

LEMMA OrderNext == TypeOK /\ RequestInv /\ OrderInv /\ [Next]_vars => OrderInv'
<1> SUFFICES ASSUME TypeOK, RequestInv, OrderInv, [Next]_vars PROVE OrderInv'
  OBVIOUS
<1> TypeOK'
  BY TypeNext
<1>0. /\ DOMAIN ret = Sessions
      /\ \A t \in Sessions : pc[t] # "done" => ret[t] # "0"
  BY NilAssumption DEF OrderInv
<1> USE DEF Goto, Return, requestVars
<1>1. CASE Tick
  BY <1>0, <1>1, OrderFrame DEF Tick
<1>2. ASSUME NEW s \in Sessions, NEW c \in Codes, Dial(s, c) PROVE OrderInv'
  BY <1>0, <1>2, OrderFrame DEF Dial, TypeOK, Early, Active
<1>3. ASSUME NEW s \in Sessions, Hangup(s) PROVE OrderInv'
  BY <1>0, <1>3, OrderFrame DEF Hangup
<1>4. ASSUME NEW s \in Sessions, Serve(s) PROVE OrderInv'
  <2>1. /\ sent[s] /\ answer[s] = Nil
        /\ UNCHANGED <<pc, sent, todo, ret, ran>>
        /\ \A t \in Sessions \ {s} : answer'[t] = answer[t]
    BY <1>4 DEF Serve, TypeOK
  <2>2. ~Granted(s)
    BY <2>1 DEF Granted
  <2>3. pc[s] \notin Active /\ ran[s] = << >> /\ ret[s] # "0"
    BY <2>1, <2>2 DEF OrderInv
  <2>4. \A t \in Sessions \ {s} : Granted(t)' = Granted(t)
                                  /\ Master(t)' = Master(t)
    BY <2>1 DEF Granted, Master
  <2>5. CodeRunsInOrder'
    BY <2>1, <2>3, <2>4 DEF OrderInv, CodeRunsInOrder
  <2>6. QED
    BY <2>1, <2>3, <2>4, <2>5 DEF OrderInv
<1>5. ASSUME NEW s \in Sessions, GetTime(s) PROVE OrderInv'
  BY <1>0, <1>5, OrderFrame DEF GetTime, TypeOK, Early, Active
<1>6. ASSUME NEW s \in Sessions, SendRequest(s) PROVE OrderInv'
  <2>1. ~sent[s]
    BY <1>6 DEF SendRequest, RequestInv
  <2>2. /\ UNCHANGED <<answer, ran, todo>> /\ DOMAIN ret' = Sessions
        /\ pc[s] = "request" /\ pc'[s] \in {"download", "done"}
        /\ \A t \in Sessions \ {s} :
              pc'[t] = pc[t] /\ ret'[t] = ret[t] /\ sent'[t] = sent[t]
    BY <1>0, <1>6 DEF SendRequest, TypeOK
  <2>3. \/ sent'[s] = sent[s] /\ pc'[s] = "done"
        \/ ret'[s] = ret[s]
    BY <1>6 DEF SendRequest, TypeOK
  <2>4. \A t \in Sessions : ret'[t] = "0" /\ sent'[t] => ret[t] = "0" /\ sent[t]
    BY <1>0, <2>1, <2>2, <2>3
  <2>5. pc'[s] # "done" => ret'[s] = ret[s]
    BY <2>3
  <2>6. QED
    BY <2>2, <2>4, <2>5, OrderFrame DEF Early, Active
<1>7. ASSUME NEW s \in Sessions, Receive(s) PROVE OrderInv'
  <2>1. CASE answer[s] = NotFound
    BY <1>0, <1>7, <2>1, OrderFrame DEF Receive, TypeOK, Early, Active
  <2>2. CASE answer[s] # NotFound
    <3>1. /\ answer[s] \in Payloads /\ Granted(s)
          /\ ran[s] = << >> /\ ran \in [Sessions -> Seq(STRING)]
      BY <1>7, <2>2 DEF Receive, TypeOK, Granted, OrderInv, Early
    <3>2. /\ todo'[s] = <<answer[s]>> /\ pc[s] = "download" /\ pc'[s] = "check"
          /\ UNCHANGED <<answer, sent, ret, ran>>
          /\ \A t \in Sessions \ {s} : pc'[t] = pc[t] /\ todo'[t] = todo[t]
      BY <1>7, <2>2 DEF Receive, TypeOK
    <3>3. StandFor(todo'[s], CommandsOf(answer[s]))
      BY <3>1, <3>2, OneStandsFor
    <3>4. ran'[s] \o CommandsOf(answer[s]) = CommandsOf(Master(s))
      BY <3>1, <3>2, CommandsType, ConcatEmptySeq DEF Master
    <3>5. QED
      BY <3>1, <3>2, <3>3, <3>4, OrderAdvance DEF Active
  <2>3. QED
    BY <2>1, <2>2
<1>8. ASSUME NEW s \in Sessions, Timeout(s) PROVE OrderInv'
  BY <1>0, <1>8, OrderFrame DEF Timeout, TypeOK, Early, Active
<1>9. ASSUME NEW s \in Sessions, CheckPayload(s) PROVE OrderInv'
  <2>1. CASE UNCHANGED todo /\ pc'[s] = "done"
    <3>1. /\ UNCHANGED <<answer, sent, ran>> /\ DOMAIN ret' = Sessions
          /\ ret'[s] # "0"
          /\ \A t \in Sessions \ {s} : pc'[t] = pc[t] /\ ret'[t] = ret[t]
      BY <1>0, <1>9, <2>1 DEF CheckPayload, TypeOK
    <3>2. QED
      BY <2>1, <3>1, OrderFrame DEF Early, Active
  <2>2. CASE ~(UNCHANGED todo /\ pc'[s] = "done")
    <3>1. PICK now \in 0..MaxClock :
             LET p == Head(todo[s])
                 q == [p EXCEPT !.expire = dp_get_expire_or_set(p.expire, now)]
             IN todo' = [todo EXCEPT ![s] = <<q>> \o Tail(@)]
      BY <1>9, <2>2 DEF CheckPayload, TypeOK
    <3> DEFINE p == Head(todo[s])
               q == [p EXCEPT !.expire = dp_get_expire_or_set(p.expire, now)]
    <3>2. /\ UNCHANGED <<answer, sent, ret, ran>>
          /\ pc[s] = "check" /\ pc'[s] = "run" /\ todo[s] # << >>
          /\ \A t \in Sessions \ {s} : pc'[t] = pc[t] /\ todo'[t] = todo[t]
      BY <1>9, <2>2 DEF CheckPayload, TypeOK
    <3>3. p \in Payloads /\ todo[s] \in Seq(Payloads)
      BY <3>2, AtPayload DEF TypeOK
    <3>4. q \in Payloads /\ q.command = p.command /\ q.data = p.data
      BY <3>3, ActivatedPayload
    <3>5. todo'[s] = <<q>> \o Tail(todo[s])
      BY <3>1 DEF TypeOK
    <3> HIDE DEF q
    <3>6. PICK cs : /\ StandFor(todo[s], cs)
                    /\ ran[s] \o cs = CommandsOf(Master(s))
      BY <3>2 DEF OrderInv, Active
    <3>7. StandFor(todo'[s], cs)
      BY <3>2, <3>3, <3>4, <3>5, <3>6, ActivatedStandsFor
    <3>8. Granted(s) /\ ran \in [Sessions -> Seq(STRING)]
      BY <3>2 DEF OrderInv, Active
    <3>9. QED
      BY <3>2, <3>6, <3>7, <3>8, OrderAdvance DEF Active
  <2>3. QED
    BY <2>1, <2>2
<1>10. ASSUME NEW s \in Sessions, Finish(s) PROVE OrderInv'
  <2>1. /\ pc[s] = "check" /\ todo[s] = << >> /\ pc'[s] = "done"
        /\ UNCHANGED <<answer, sent, ran, todo>> /\ DOMAIN ret' = Sessions
        /\ \A t \in Sessions \ {s} : pc'[t] = pc[t] /\ ret'[t] = ret[t]
    BY <1>0, <1>10 DEF Finish, TypeOK
  <2>2. PICK cs : /\ StandFor(todo[s], cs)
                  /\ ran[s] \o cs = CommandsOf(Master(s))
    BY <2>1 DEF OrderInv, Active
  <2>3. cs = << >>
    BY <2>1, <2>2, StandForType DEF TypeOK
  <2>4. Granted(s) /\ ran[s] = CommandsOf(Master(s))
    BY <2>1, <2>2, <2>3, ConcatEmptySeq DEF OrderInv, Active
  <2>5. \A t \in Sessions : Granted(t)' = Granted(t) /\ Master(t)' = Master(t)
    BY <2>1 DEF Granted, Master
  <2>6. CodeRunsInOrder'
    BY <2>1, <2>4, <2>5 DEF OrderInv, CodeRunsInOrder
  <2>7. QED
    BY <2>1, <2>4, <2>5, <2>6 DEF OrderInv, Early, Active
<1>11. ASSUME NEW s \in Sessions, Sigpipe(s) PROVE OrderInv'
  BY <1>0, <1>11, OrderFrame DEF Sigpipe, TypeOK, Early, Active
<1>12. ASSUME NEW s \in Sessions, RunComposite(s) PROVE OrderInv'
  <2>1. /\ pc[s] = "run" /\ pc'[s] = "check" /\ Command(s) = "composite"
        /\ todo'[s] = Data(s) \o Tail(todo[s])
        /\ UNCHANGED <<answer, sent, ret, ran>>
        /\ \A t \in Sessions \ {s} : pc'[t] = pc[t] /\ todo'[t] = todo[t]
    BY <1>12 DEF RunComposite, TypeOK
  <2>2. /\ todo[s] # << >> /\ todo[s] \in Seq(Payloads)
        /\ Head(todo[s]) \in Payloads /\ Tail(todo[s]) \in Seq(Payloads)
    BY <2>1, AtPayload DEF TypeOK
  <2>3. Data(s) \in Seq(Payloads)
    <3>1. Data(s) \in Seq(Parts) /\ Parts \subseteq Payloads
      BY <2>1, <2>2, CompositeData, MadeIsPayload DEF Command, Data, Made
    <3>2. QED
      BY <3>1
  <2>4. PICK cs : /\ StandFor(todo[s], cs)
                  /\ ran[s] \o cs = CommandsOf(Master(s))
    BY <2>1 DEF OrderInv, Active
  <2>5. PICK ds : /\ StandFor(Tail(todo[s]), ds)
                  /\ cs = CommandsOf(Head(todo[s])) \o ds
    BY <2>2, <2>4, TailStandsFor
  <2>6. StandFor(Data(s), CommandsOf(Head(todo[s])))
    BY <2>1, <2>2, CompositeStandsFor DEF Command, Data
  <2>7. StandFor(todo'[s], cs)
    BY <2>1, <2>2, <2>3, <2>5, <2>6, ConcatStandsFor, Zenon
  <2>8. ran'[s] \o cs = CommandsOf(Master(s))
    BY <2>1, <2>4
  <2>9. Granted(s) /\ ran' \in [Sessions -> Seq(STRING)]
    BY <2>1 DEF OrderInv, Active
  <2>10. QED
    BY <2>1, <2>7, <2>8, <2>9, OrderAdvance DEF Active
<1>13. ASSUME NEW s \in Sessions, RunSingle(s) PROVE OrderInv'
  <2>1. CASE Succeeded(s) /\ UNCHANGED ret
    BY <1>13, <2>1, OrderSucceeded DEF RunSingle, SingleStep
  <2>2. CASE RunFails(s) /\ UNCHANGED ran
    BY <1>0, <1>13, <2>2, OrderFrame
       DEF RunSingle, RunFails, TypeOK, Early, Active
  <2>3. QED
    BY <1>13, <2>1, <2>2 DEF RunSingle
<1>14. ASSUME NEW s \in Sessions, RunOk(s) PROVE OrderInv'
  BY <1>14, OrderSucceeded DEF RunOk
<1>15. ASSUME NEW s \in Sessions, RunUnknown(s) PROVE OrderInv'
  BY <1>0, <1>15, OrderFrame DEF RunUnknown, TypeOK, Early, Active
<1>16. ASSUME NEW s \in Sessions, RunAdb(s) PROVE OrderInv'
  <2>1. CASE pc[s] = "adb" /\ Succeeded(s) /\ UNCHANGED ret
    BY <1>16, <2>1, OrderSucceeded DEF RunAdb
  <2>2. CASE ~(pc[s] = "adb" /\ Succeeded(s) /\ UNCHANGED ret)
    BY <1>0, <1>16, <2>2, OrderFrame DEF RunAdb, RunFails, TypeOK, Early, Active
  <2>3. QED
    BY <2>1, <2>2
<1>17. ASSUME NEW s \in Sessions, RunInstall(s) PROVE OrderInv'
  <2>1. CASE pc[s] = "pm" /\ Succeeded(s) /\ UNCHANGED ret
    BY <1>17, <2>1, OrderSucceeded DEF RunInstall
  <2>2. CASE ~(pc[s] = "pm" /\ Succeeded(s) /\ UNCHANGED ret)
    BY <1>0, <1>17, <2>2, OrderFrame
       DEF RunInstall, RunFails, TypeOK, Early, Active
  <2>3. QED
    BY <2>1, <2>2
<1>18. CASE Reboot
  BY <1>0, <1>18, OrderFrame DEF Reboot, Live, TypeOK, Early, Active
<1>19. CASE UNCHANGED vars
  BY <1>0, <1>19, OrderFrame DEF vars
<1>20. QED
  BY <1>1, <1>2, <1>3, <1>4, <1>5, <1>6, <1>7, <1>8, <1>9, <1>10, <1>11,
     <1>12, <1>13, <1>14, <1>15, <1>16, <1>17, <1>18, <1>19 DEF Next, Step

-----------------------------------------------------------------------------
(* The theorems.                                                           *)

\* secret_code.c, payload_cmd.c: what a handler has downloaded, what it knows of
\* the time and what it has done to the device agree after every step.
THEOREM Inductive == Spec => []IInv
<1>1. IInv /\ [Next]_vars => IInv'
  BY TypeNext, AnswerNext, EffectNext DEF IInv, AnswerInv, EffectInv
<1>2. QED
  BY InvInit, <1>1, PTL DEF Spec

\* secret_code.c: a granted code is not refused for the time its download and
\* its parts take.
THEOREM GrantedAccepted == Spec => []GrantedCodeAccepted
<1>1. IInv => GrantedCodeAccepted
  BY DEF IInv
<1>2. QED
  BY <1>1, Inductive, PTL

\* payload_cmd.c, payload_cmd_composite: the commands of a code, composites in
\* it included, are executed in order, none after one that failed, and 0 is
\* reported only when all were.
THEOREM CodeInOrder == Spec => []CodeRunsInOrder
<1>1. IInv /\ OrderInv /\ [Next]_vars => OrderInv'
  BY OrderNext DEF IInv
<1>2. OrderInv => CodeRunsInOrder
  BY DEF OrderInv
<1>3. QED
  BY <1>1, <1>2, OrderInit, Inductive, PTL DEF Spec

\* payload_cmd.c: adb is on only with the developer options, unless two handlers
\* met.
THEOREM AdbWithDev == Spec => []AdbNeedsDev
<1>1. IInv => AdbNeedsDev
  BY DEF IInv
<1>2. QED
  BY <1>1, Inductive, PTL

\* payload_cmd.c, tmp.apk: pm installs the apk of the payload, unless two
\* handlers met.
THEOREM GivenApkInstalled == Spec => []InstallsGivenApk
<1>1. IInv => InstallsGivenApk
  BY DEF IInv
<1>2. QED
  BY <1>1, Inductive, PTL

=============================================================================
