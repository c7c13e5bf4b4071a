-------------------------- MODULE PayloadToolProofs --------------------------
(* Theorems about PayloadTool, for any command lines, any payloads and any   *)
(* number of runs and requests.                                              *)
EXTENDS PayloadTool, SequenceTheorems, TLAPS

-----------------------------------------------------------------------------
(* The inductive invariant.  Nothing is claimed of a file that a tool and    *)
(* the server have written over each other.                                  *)

IsPayload(p) ==
    /\ p \in Seq(Headers \cup Blocks) /\ p # << >>
    /\ p[1] \in Headers
    /\ \A i \in 2..Len(p) : p[i] \in Blocks

TypeOK ==
    /\ pc \in {"idle", "load", "open", "write"}
    /\ pc # "idle" => line \in CommandLines
    /\ off \in Nat /\ (pc # "write" => off = 0)
    /\ file \notin {Nil, << >>} => IsPayload(file)
    /\ pc \in {"open", "write"} => IsPayload(buf)
    /\ mem # Nil => IsPayload(mem)

\* What a run has in its memory once it has edited its payload.
BufOK ==
    /\ Content(buf) \in whole
    /\ line.op = "new" => buf = dp_create_new
    /\ line.tool = "rust" => Fits(buf)
    /\ line.op = "sign" /\ Fits(buf) => Verifies(buf)

\* Where the file stands during a run: untouched up to its open, then the blocks
\* written so far.
RunOK ==
    /\ pc \in {"load", "open"} => file = before
    /\ pc \in {"open", "write"} => BufOK
    /\ pc = "open" /\ line.op \in {"expire", "raw", "sign"} =>
          file \notin {Nil, << >>} /\ Len(buf) = Len(file)
    /\ pc = "write" => /\ off <= Len(buf) /\ file = SubSeq(buf, 1, off)
                       /\ ~unsized => Fits(buf)

\* And after it.
EndOK ==
    pc = "idle" /\ file # before /\ ~(line.tool = "c" /\ line.op = "new") =>
        /\ IsPrefix(file, buf)
        /\ rc = 0 /\ line.tool = "rust" => file = buf

SignedOK ==
    signed => /\ pc = "idle" /\ file \notin {Nil, << >>}
              /\ Verifies(file) /\ IsAbsolute(file[1].expire)

\* A file whose size is right is one complete edit.
FileOK ==
    ~unsized /\ file \notin {Nil, << >>} /\ Fits(file) => Content(file) \in whole

\* What the server has loaded is a leading part of the file, its expiry apart.
LeadingPart(m, f) ==
    /\ Len(m) <= Len(f)
    /\ \A i \in 2..Len(m) : m[i] = f[i]
    /\ m[1] = [f[1] EXCEPT !.expire = m[1].expire]
    /\ IsAbsolute(f[1].expire) => m[1].expire = f[1].expire

MemOK ==
    mem # Nil => /\ file \notin {Nil, << >>} /\ LeadingPart(mem, file)
                 /\ ~unsized /\ Fits(mem) => Content(mem) \in whole

Inv == TypeOK /\ RunOK /\ EndOK /\ SignedOK /\ FileOK /\ MemOK

IInv == ~overlap => Inv

LEMMA InvInit == Init => IInv
  BY DEF Init, IInv, Inv, TypeOK, RunOK, EndOK, SignedOK, FileOK, MemOK

-----------------------------------------------------------------------------
(* Payloads as sequences of blocks.                                        *)

LEMMA PayloadFacts ==
    ASSUME NEW p, IsPayload(p)
    PROVE  /\ p \in Seq(Headers \cup Blocks) /\ Len(p) \in Nat /\ Len(p) > 0
           /\ DOMAIN p = 1..Len(p)
           /\ p[1] \in Headers /\ p[1].size \in Nat
           /\ p[1].expire \in ExpireField
           /\ p[1].command \in Commands \cup {Nil}
           /\ p # Nil /\ p # << >>
  BY NilAssumption DEF IsPayload, Headers

\* An edit of the header alone.
WithHeader(p, h) == [p EXCEPT ![1] = h]

LEMMA HeaderEdit ==
    ASSUME NEW p, IsPayload(p), NEW h \in Headers, NEW q, q = WithHeader(p, h)
    PROVE  /\ IsPayload(q) /\ Len(q) = Len(p) /\ q[1] = h
           /\ \A i \in 2..Len(p) : q[i] = p[i]
           /\ Data(q) = Data(p)
<1>1. /\ p \in Seq(Headers \cup Blocks) /\ Len(p) \in Nat /\ Len(p) > 0
      /\ DOMAIN p = 1..Len(p)
  BY PayloadFacts
<1>2. /\ q \in Seq(Headers \cup Blocks) /\ Len(q) = Len(p) /\ q[1] = h
      /\ \A i \in 2..Len(p) : q[i] = p[i]
  BY <1>1 DEF WithHeader
<1>3. q # << >>
  BY <1>1, <1>2
<1>4. Data(q) = Data(p)
  <2>1. /\ Tail(q) \in Seq(Headers \cup Blocks) /\ Tail(p) \in Seq(Headers \cup Blocks)
        /\ Len(Tail(q)) = Len(p) - 1 /\ Len(Tail(p)) = Len(p) - 1
        /\ \A i \in 1..Len(p) - 1 : Tail(q)[i] = q[i + 1] /\ Tail(p)[i] = p[i + 1]
    BY <1>1, <1>2, <1>3
  <2>2. \A i \in 1..Len(p) - 1 : Tail(q)[i] = Tail(p)[i]
    BY <1>1, <1>2, <2>1
  <2>3. QED
    BY <2>1, <2>2, SeqEqual DEF Data
<1>5. QED
  BY <1>2, <1>3, <1>4 DEF IsPayload

LEMMA DataType ==
    ASSUME NEW p, IsPayload(p)
    PROVE  Data(p) \in Seq(Blocks)
<1>1. /\ Tail(p) \in Seq(Headers \cup Blocks) /\ Len(Tail(p)) = Len(p) - 1
      /\ \A i \in 1..Len(p) - 1 : Tail(p)[i] = p[i + 1]
      /\ Len(p) \in Nat
  BY DEF IsPayload
<1>2. \A i \in 1..Len(Tail(p)) : Tail(p)[i] \in Blocks
  BY <1>1 DEF IsPayload
<1>3. /\ Len(Tail(p)) \in Nat
      /\ Tail(p) \in [1..Len(Tail(p)) -> Headers \cup Blocks]
  BY <1>1, LenProperties
<1>4. Tail(p) \in [1..Len(Tail(p)) -> Blocks]
  BY <1>2, <1>3
<1>5. QED
  BY <1>3, <1>4, SeqDef DEF Data

\* dp_sign changes nothing but the signature, and a payload that is signed is
\* good if its size is.
LEMMA SignedFacts ==
    ASSUME NEW p, IsPayload(p)
    PROVE  /\ IsPayload(Signed(p)) /\ Len(Signed(p)) = Len(p)
           /\ Fits(Signed(p)) <=> Fits(p)
           /\ Fits(p) => Verifies(Signed(p))
<1> DEFINE b == Body(AsPayload(p))
<1>a. PICK h : h = [p[1] EXCEPT !.sig = <<b>>]
  OBVIOUS
<1>b. PICK q : q = WithHeader(p, h)
  OBVIOUS
<1>1. b = [expire |-> p[1].expire, command |-> p[1].command,
           data |-> Data(p), fits |-> Fits(p)]
  BY DEF Body, AsPayload
<1>2. b \in Bodies
  <2>1. Fits(p) \in BOOLEAN
    BY DEF Fits
  <2>2. QED
    BY <1>1, <2>1, PayloadFacts, DataType DEF Bodies
<1>3. dp_sign(AsPayload(p)).sig = <<b>>
  BY DEF dp_sign, AsPayload
<1>4. Signed(p) = q
  BY <1>a, <1>b, <1>3, PayloadFacts DEF Signed, WithHeader
<1> HIDE DEF b
<1>5. /\ h \in Headers /\ h.sig = <<b>> /\ h.size = p[1].size
      /\ h.expire = p[1].expire /\ h.command = p[1].command
  <2>1. <<b>> \in Seq(Bodies)
    BY <1>2
  <2>2. QED
    BY <1>a, <2>1, PayloadFacts DEF Headers
<1>6. IsPayload(q) /\ Len(q) = Len(p) /\ q[1] = h /\ Data(q) = Data(p)
  BY <1>b, <1>5, HeaderEdit
<1>7. Fits(q) <=> Fits(p)
  BY <1>5, <1>6 DEF Fits
<1>8. ASSUME Fits(p) PROVE Verifies(q)
  <2>1. Fits(q) = Fits(p)
    BY <1>5, <1>6, Zenon DEF Fits
  <2>2. Body(AsPayload(q)) = b
    BY <1>1, <1>5, <1>6, <2>1 DEF Body, AsPayload
  <2>3. AsPayload(q).fits = Fits(q) /\ AsPayload(q).sig = q[1].sig
    BY DEF AsPayload
  <2>4. QED
    BY <1>5, <1>6, <1>7, <1>8, <2>2, <2>3 DEF Verifies, dp_verify, dp_validate_size
<1>9. QED
  BY <1>4, <1>6, <1>7, <1>8

LEMMA NewFacts == IsPayload(dp_create_new) /\ Len(dp_create_new) = 1
                  /\ dp_create_new[1].size = 0 /\ Fits(dp_create_new)
<1> DEFINE h == [sig |-> << >>, command |-> Nil, size |-> 0,
                 expire |-> [colon |-> FALSE, num |-> Unparsable]]
<1>1. h \in Headers /\ h.size = 0
  <2>1. [colon |-> FALSE, num |-> Unparsable] \in ExpireField
    BY DEF ExpireField, Unparsable
  <2>2. << >> \in Seq(Bodies)
    OBVIOUS
  <2>3. QED
    BY <2>1, <2>2 DEF Headers
<1> HIDE DEF h
<1>2. dp_create_new = <<h>>
  BY DEF dp_create_new, h
<1>3. QED
  BY <1>1, <1>2 DEF IsPayload, Fits

LEMMA SetDataFacts ==
    ASSUME NEW p, IsPayload(p), NEW c \in CommandLines, c.op \in {"data", "set"},
           c.tool = "rust" => Fits(p)
    PROVE  /\ IsPayload(SetData(p, c))
           /\ c.tool = "rust" => Fits(SetData(p, c))
<1> DEFINE h == [p[1] EXCEPT !.size = IF c.tool = "rust" THEN Len(c.data)
                                                        ELSE p[1].size]
           q == <<h>> \o c.data
<1>1. c.data \in Seq(Blocks) /\ Len(c.data) \in Nat
  BY CommandLinesAssumption
<1>2. h \in Headers /\ (c.tool = "rust" => h.size = Len(c.data))
  BY <1>1, PayloadFacts DEF Headers
<1>3. SetData(p, c) = q
  BY DEF SetData
<1> HIDE DEF h
<1>4. /\ q \in Seq(Headers \cup Blocks) /\ Len(q) = 1 + Len(c.data) /\ q[1] = h
      /\ \A i \in 2..Len(q) : q[i] = c.data[i - 1]
  BY <1>1, <1>2
<1> HIDE DEF q
<1>5. IsPayload(q)
  <2>1. \A i \in 2..Len(q) : i - 1 \in 1..Len(c.data)
    BY <1>1, <1>4
  <2>2. \A i \in 2..Len(q) : q[i] \in Blocks
    BY <1>1, <1>4, <2>1
  <2>3. QED
    BY <1>1, <1>2, <1>4, <2>2 DEF IsPayload
<1>6. c.tool = "rust" => Fits(q)
  BY <1>1, <1>2, <1>4 DEF Fits
<1>7. QED
  BY <1>3, <1>5, <1>6

\* What the command line c makes of p.
LEMMA EditFacts ==
    ASSUME NEW p, NEW c \in CommandLines,
           c.op # "new" => IsPayload(p) /\ (c.tool = "rust" => Fits(p))
    PROVE  /\ IsPayload(Edit(p, c))
           /\ c.op = "new" => Edit(p, c) = dp_create_new
           /\ c.tool = "rust" => Fits(Edit(p, c))
           /\ c.op = "sign" /\ Fits(Edit(p, c)) => Verifies(Edit(p, c))
           /\ c.op \in {"expire", "raw", "sign"} => Len(Edit(p, c)) = Len(p)
<1>1. CASE c.op = "new"
  <2>1. Edit(p, c) = dp_create_new
    BY <1>1 DEF Edit
  <2>2. QED
    BY <1>1, <2>1, NewFacts
<1>2. CASE c.op = "expire"
  <2>a. PICK h : h = [p[1] EXCEPT !.expire = c.expire]
    OBVIOUS
  <2>b. PICK q : q = WithHeader(p, h)
    OBVIOUS
  <2>1. Edit(p, c) = [p EXCEPT ![1].expire = c.expire]
    BY <1>2 DEF Edit
  <2>2. Edit(p, c) = q
    BY <1>2, <2>a, <2>b, <2>1, PayloadFacts DEF WithHeader
  <2>3. h \in Headers /\ h.size = p[1].size
    BY <1>2, <2>a, PayloadFacts, CommandLinesAssumption DEF Headers
  <2>4. IsPayload(q) /\ Len(q) = Len(p) /\ q[1] = h
    BY <1>2, <2>b, <2>3, HeaderEdit
  <2>5. QED
    BY <1>2, <2>2, <2>3, <2>4 DEF Fits
<1>3. CASE c.op = "raw"
  <2>a. PICK h : h = [p[1] EXCEPT !.command = c.command]
    OBVIOUS
  <2>b. PICK q : q = WithHeader(p, h)
    OBVIOUS
  <2>1. Edit(p, c) = [p EXCEPT ![1].command = c.command]
    BY <1>3 DEF Edit
  <2>2. Edit(p, c) = q
    BY <1>3, <2>a, <2>b, <2>1, PayloadFacts DEF WithHeader
  <2>3. h \in Headers /\ h.size = p[1].size
    BY <1>3, <2>a, PayloadFacts, CommandLinesAssumption DEF Headers
  <2>4. IsPayload(q) /\ Len(q) = Len(p) /\ q[1] = h
    BY <1>3, <2>b, <2>3, HeaderEdit
  <2>5. QED
    BY <1>3, <2>2, <2>3, <2>4 DEF Fits
<1>4. CASE c.op = "sign"
  <2>1. Edit(p, c) = Signed(p)
    BY <1>4 DEF Edit
  <2>2. QED
    BY <1>4, <2>1, SignedFacts
<1>5. CASE c.op = "data"
  <2>1. Edit(p, c) = SetData(p, c)
    BY <1>5 DEF Edit
  <2>2. QED
    BY <1>5, <2>1, SetDataFacts
<1>6. CASE c.op = "set"
  <2>r. PICK r : r = SetData(p, c)
    OBVIOUS
  <2>a. PICK h : h = [r[1] EXCEPT !.command = c.command]
    OBVIOUS
  <2>b. PICK q : q = WithHeader(r, h)
    OBVIOUS
  <2>1. Edit(p, c) = [r EXCEPT ![1].command = c.command]
    BY <1>6, <2>r DEF Edit
  <2>2. IsPayload(r) /\ (c.tool = "rust" => Fits(r))
    BY <1>6, <2>r, SetDataFacts
  <2>3. Edit(p, c) = q
    BY <2>a, <2>b, <2>1, <2>2, PayloadFacts DEF WithHeader
  <2>4. h \in Headers /\ h.size = r[1].size
    BY <1>6, <2>a, <2>2, PayloadFacts, CommandLinesAssumption DEF Headers
  <2>5. IsPayload(q) /\ Len(q) = Len(r) /\ q[1] = h
    BY <2>b, <2>2, <2>4, HeaderEdit
  <2>6. QED
    BY <1>6, <2>2, <2>3, <2>4, <2>5 DEF Fits
<1>7. QED
  BY <1>1, <1>2, <1>3, <1>4, <1>5, <1>6, CommandLinesAssumption DEF Ops

-----------------------------------------------------------------------------
(* What writes make of a file.                                             *)

\* The first n blocks of b.
LEMMA CutFacts ==
    ASSUME NEW b, IsPayload(b), NEW n \in 0..Len(b), NEW f, f = SubSeq(b, 1, n)
    PROVE  /\ f \in Seq(Headers \cup Blocks) /\ Len(f) = n
           /\ \A i \in 1..n : f[i] = b[i]
           /\ n = 0 => f = << >>
           /\ n # 0 => IsPayload(f)
           /\ n = Len(b) => f = b
           /\ IsPrefix(f, b)
<1>1. /\ b \in Seq(Headers \cup Blocks) /\ Len(b) \in Nat /\ Len(b) > 0
      /\ b[1] \in Headers
  BY PayloadFacts
<1>2. /\ f \in Seq(Headers \cup Blocks) /\ Len(f) = n
      /\ \A i \in 1..n : f[i] = b[i]
  BY <1>1
<1>3. n = 0 => f = << >>
  BY <1>2
<1>4. n # 0 => IsPayload(f)
  <2> SUFFICES ASSUME n # 0 PROVE IsPayload(f)
    OBVIOUS
  <2>1. f # << >> /\ f[1] \in Headers
    BY <1>1, <1>2
  <2>2. \A i \in 2..Len(f) : f[i] \in Blocks
    BY <1>1, <1>2 DEF IsPayload
  <2>3. QED
    BY <1>2, <2>1, <2>2 DEF IsPayload
<1>5. n = Len(b) => f = b
  BY <1>1, <1>2, SeqEqual
<1>6. IsPrefix(f, b)
  <2>1. SubSeq(f, 1, n) = f
    BY <1>1, <1>2
  <2>2. QED
    BY <1>1, <1>2, <2>1 DEF IsPrefix
<1>7. QED
  BY <1>2, <1>3, <1>4, <1>5, <1>6

\* The next block of b.
LEMMA CutGrows ==
    ASSUME NEW b, IsPayload(b), NEW n \in Nat, n < Len(b), NEW f,
           f = SubSeq(b, 1, n)
    PROVE  SubSeq(f, 1, n) \o <<b[n + 1]>> \o SubSeq(f, n + 2, Len(f))
             = SubSeq(b, 1, n + 1)
<1>1. /\ b \in Seq(Headers \cup Blocks) /\ Len(b) \in Nat
      /\ n \in 0..Len(b) /\ n + 1 \in 0..Len(b)
  BY PayloadFacts
<1>2. /\ f \in Seq(Headers \cup Blocks) /\ Len(f) = n
      /\ \A i \in 1..n : f[i] = b[i]
  BY <1>1, CutFacts
<1>3. PICK g : g = SubSeq(b, 1, n + 1)
  OBVIOUS
<1>4. /\ g \in Seq(Headers \cup Blocks) /\ Len(g) = n + 1
      /\ \A i \in 1..n + 1 : g[i] = b[i]
  BY <1>1, <1>3, CutFacts
<1>5. SubSeq(f, 1, n) = f /\ SubSeq(f, n + 2, Len(f)) = << >>
  BY <1>1, <1>2
<1>6. PICK k : k = f \o <<b[n + 1]>>
  OBVIOUS
<1>7. b[n + 1] \in Headers \cup Blocks
  BY <1>1
<1>8. /\ k \in Seq(Headers \cup Blocks) /\ Len(k) = n + 1
      /\ \A i \in 1..n + 1 : k[i] = b[i]
  BY <1>1, <1>2, <1>6, <1>7
<1>9. k = g
  BY <1>4, <1>8, SeqEqual
<1>10. k \o << >> = k
  BY <1>8
<1>11. QED
  BY <1>3, <1>5, <1>6, <1>9, <1>10

\* A payload of the length of the file replaces it.
LEMMA OverlaySame ==
    ASSUME NEW f, IsPayload(f), NEW p, IsPayload(p), Len(p) = Len(f)
    PROVE  Overlay(f, p) = p
<1>1. /\ f \in Seq(Headers \cup Blocks) /\ p \in Seq(Headers \cup Blocks)
      /\ f # Nil /\ Len(f) \in Nat
  BY PayloadFacts
<1>2. SubSeq(f, Len(p) + 1, Len(f)) = << >>
  BY <1>1
<1>3. p \o << >> = p
  BY <1>1
<1>4. QED
  BY <1>1, <1>2, <1>3 DEF Overlay

\* new in place: the old data stay, and then the size is wrong.
LEMMA OverlayNew ==
    ASSUME NEW f, f \notin {Nil, << >>} => IsPayload(f), NEW q,
           q = Overlay(f, dp_create_new)
    PROVE  IsPayload(q) /\ (Fits(q) => q = dp_create_new)
<1>1. PICK p : p = dp_create_new
  OBVIOUS
<1>2. /\ p \in Seq(Headers \cup Blocks) /\ IsPayload(p) /\ Len(p) = 1
      /\ p[1].size = 0 /\ p[1] \in Headers
  BY <1>1, NewFacts, PayloadFacts
<1>3. CASE f = Nil
  BY <1>1, <1>2, <1>3 DEF Overlay
<1>4. CASE f = << >>
  <2>1. q = p
    <3>1. Len(f) = 0 /\ SubSeq(f, Len(p) + 1, Len(f)) = << >>
      BY <1>2, <1>4
    <3>2. p \o << >> = p
      BY <1>2
    <3>3. QED
      BY <1>1, <3>1, <3>2 DEF Overlay
  <2>2. QED
    BY <1>1, <1>2, <2>1
<1>5. CASE f \notin {Nil, << >>}
  <2>1. /\ f \in Seq(Headers \cup Blocks) /\ Len(f) \in Nat /\ Len(f) > 0
        /\ \A i \in 2..Len(f) : f[i] \in Blocks
    BY <1>5, PayloadFacts DEF IsPayload
  <2>2. PICK t : t = SubSeq(f, 2, Len(f))
    OBVIOUS
  <2>3. /\ t \in Seq(Headers \cup Blocks) /\ Len(t) = Len(f) - 1
        /\ \A i \in 1..Len(t) : t[i] = f[i + 1]
    BY <2>1, <2>2
  <2>4. q = p \o t
    BY <1>1, <1>2, <1>5, <2>2 DEF Overlay
  <2>5. /\ q \in Seq(Headers \cup Blocks) /\ Len(q) = Len(f) /\ q[1] = p[1]
        /\ \A i \in 2..Len(q) : q[i] = t[i - 1]
    <3>1. /\ q \in Seq(Headers \cup Blocks) /\ Len(q) = Len(p) + Len(t)
          /\ \A i \in 1..Len(p) + Len(t) :
                q[i] = IF i <= Len(p) THEN p[i] ELSE t[i - Len(p)]
      <4>1. p \in Seq(Headers \cup Blocks) /\ t \in Seq(Headers \cup Blocks)
        BY <1>2, <2>3
      <4>2. QED
        BY <2>4, <4>1
    <3>2. Len(q) = Len(f) /\ Len(p) + Len(t) = Len(f)
      BY <1>2, <2>1, <2>3, <3>1
    <3>3. QED
      BY <1>2, <2>1, <3>1, <3>2
  <2>6. \A i \in 2..Len(q) : q[i] = f[i]
    BY <2>1, <2>3, <2>5
  <2>7. IsPayload(q)
    <3>1. q # << >>
      BY <2>1, <2>5
    <3>2. QED
      BY <1>2, <2>1, <2>5, <2>6, <3>1 DEF IsPayload
  <2>8. ASSUME Fits(q) PROVE q = p
    <3>1. Len(q) = 1
      BY <1>2, <2>1, <2>5, <2>8 DEF Fits
    <3>2. \A i \in 1..Len(q) : q[i] = p[i]
      BY <2>5, <3>1
    <3>3. QED
      BY <1>2, <2>5, <3>1, <3>2, SeqEqual
  <2>9. QED
    BY <1>1, <2>7, <2>8
<1>6. QED
  BY <1>3, <1>4, <1>5

\* A leading part with another expiry changes the header.
LEMMA OverlayLeading ==
    ASSUME NEW f, IsPayload(f), NEW m, IsPayload(m), LeadingPart(m, f)
    PROVE  Overlay(f, m) = WithHeader(f, m[1])
<1>1. /\ f \in Seq(Headers \cup Blocks) /\ Len(f) \in Nat /\ f # Nil
      /\ m \in Seq(Headers \cup Blocks) /\ Len(m) \in Nat /\ Len(m) > 0
      /\ m[1] \in Headers /\ Len(m) <= Len(f)
  BY PayloadFacts DEF LeadingPart
<1>2. PICK g : g = WithHeader(f, m[1])
  OBVIOUS
<1>3. /\ g \in Seq(Headers \cup Blocks) /\ Len(g) = Len(f) /\ g[1] = m[1]
      /\ \A i \in 2..Len(f) : g[i] = f[i]
  BY <1>1, <1>2, HeaderEdit, PayloadFacts
<1>4. PICK t : t = SubSeq(f, Len(m) + 1, Len(f))
  OBVIOUS
<1>5. /\ t \in Seq(Headers \cup Blocks) /\ Len(t) = Len(f) - Len(m)
      /\ \A i \in 1..Len(t) : t[i] = f[i + Len(m)]
  BY <1>1, <1>4
<1>6. PICK q : q = m \o t
  OBVIOUS
<1>7. /\ q \in Seq(Headers \cup Blocks) /\ Len(q) = Len(f)
      /\ \A i \in 1..Len(m) : q[i] = m[i]
      /\ \A i \in Len(m) + 1..Len(f) : q[i] = t[i - Len(m)]
  BY <1>1, <1>5, <1>6
<1>8. \A i \in Len(m) + 1..Len(f) : q[i] = f[i]
  <2> TAKE i \in Len(m) + 1..Len(f)
  <2>1. i - Len(m) \in 1..Len(t) /\ (i - Len(m)) + Len(m) = i
    BY <1>1, <1>5
  <2>2. QED
    BY <1>5, <1>7, <2>1
<1>9. \A i \in 1..Len(f) : q[i] = g[i]
  <2> TAKE i \in 1..Len(f)
  <2>1. CASE i = 1
    BY <1>1, <1>3, <1>7, <2>1
  <2>2. CASE i \in 2..Len(m)
    BY <1>1, <1>3, <1>7, <2>2 DEF LeadingPart
  <2>3. CASE i \in Len(m) + 1..Len(f)
    BY <1>1, <1>3, <1>8, <2>3
  <2>4. QED
    BY <1>1, <2>1, <2>2, <2>3
<1>10. q = g
  BY <1>3, <1>7, <1>9, SeqEqual
<1>11. QED
  BY <1>1, <1>2, <1>4, <1>6, <1>10 DEF Overlay

-----------------------------------------------------------------------------
(* The steps of a run.                                                     *)

LEMMA BeginStep ==
    ASSUME Inv, NEW c \in CommandLines, Begin(c)
    PROVE  Inv'
<1>1. /\ pc = "idle" /\ pc' = "load" /\ line' = c /\ before' = file /\ ~signed'
      /\ UNCHANGED <<file, buf, off, mem, unsized, whole>>
  BY DEF Begin
<1>2. TypeOK'
  BY <1>1 DEF Inv, TypeOK
<1>3. RunOK' /\ EndOK' /\ SignedOK'
  BY <1>1 DEF RunOK, EndOK, SignedOK
<1>4. FileOK' /\ MemOK'
  BY <1>1 DEF Inv, FileOK, MemOK
<1>5. QED
  BY <1>2, <1>3, <1>4 DEF Inv

\* A run that ends without success, or has not touched the file.
LEMMA ExitStep ==
    ASSUME Inv, pc # "idle", pc' = "idle", off' = 0,
           UNCHANGED <<file, line, buf, mem, before, signed, unsized, whole>>,
           rc' # 0 \/ pc # "write" \/ line.tool = "c"
    PROVE  Inv'
<1>1. TypeOK'
  BY DEF Inv, TypeOK
<1>2. RunOK' /\ SignedOK'
  BY DEF Inv, RunOK, SignedOK
<1>3. EndOK'
  <2>1. CASE pc = "write"
    <3>1. IsPayload(buf) /\ off \in 0..Len(buf) /\ file = SubSeq(buf, 1, off)
      BY <2>1, PayloadFacts DEF Inv, TypeOK, RunOK
    <3>2. IsPrefix(file, buf)
      BY <3>1, CutFacts
    <3>3. line'.tool = "rust" => rc' # 0
      BY <2>1
    <3>4. QED
      BY <3>2, <3>3 DEF EndOK
  <2>2. CASE pc # "write"
    BY <2>2 DEF Inv, TypeOK, RunOK, EndOK
  <2>3. QED
    BY <2>1, <2>2
<1>4. FileOK' /\ MemOK'
  BY DEF Inv, FileOK, MemOK
<1>5. QED
  BY <1>1, <1>2, <1>3, <1>4 DEF Inv

LEMMA LoadStep ==
    ASSUME Inv, Load
    PROVE  Inv'
<1>1. /\ pc = "load" /\ line \in CommandLines /\ file = before /\ off = 0
      /\ UNCHANGED <<file, mem, before, signed, unsized>>
  BY DEF Inv, TypeOK, RunOK, Load
<1>2. CASE /\ line.op = "new" \/ Loads
           /\ buf' = Edit(file, line) /\ pc' = "open"
           /\ whole' = whole \cup {Content(buf')}
           /\ UNCHANGED <<line, off, rc, runs>>
  <2>1. line.op # "new" => /\ file \notin {Nil, << >>} /\ IsPayload(file)
                           /\ line.tool = "rust" => Fits(file)
    BY <1>2 DEF Loads, Inv, TypeOK
  <2>2. PICK q : q = Edit(file, line)
    OBVIOUS
  <2>3. /\ IsPayload(q)
        /\ line.op = "new" => q = dp_create_new
        /\ line.tool = "rust" => Fits(q)
        /\ line.op = "sign" /\ Fits(q) => Verifies(q)
        /\ line.op \in {"expire", "raw", "sign"} => Len(q) = Len(file)
    BY <1>1, <2>1, <2>2, EditFacts
  <2>4. buf' = q /\ Content(q) \in whole' /\ whole \subseteq whole'
    BY <1>2, <2>2
  <2>5. TypeOK'
    BY <1>1, <1>2, <2>3, <2>4 DEF Inv, TypeOK
  <2>6. BufOK'
    BY <1>2, <2>3, <2>4 DEF BufOK
  <2>7. RunOK'
    BY <1>1, <1>2, <2>1, <2>3, <2>4, <2>6 DEF RunOK
  <2>8. EndOK' /\ SignedOK'
    BY <1>1, <1>2 DEF Inv, EndOK, SignedOK
  <2>9. FileOK' /\ MemOK'
    BY <1>1, <2>4 DEF Inv, FileOK, MemOK
  <2>10. QED
    BY <2>5, <2>7, <2>8, <2>9 DEF Inv
<1>3. CASE (Exit(0) \/ Exit(1)) /\ UNCHANGED whole
  BY <1>1, <1>3, ExitStep DEF Exit
<1>4. QED
  BY <1>2, <1>3 DEF Load

LEMMA WriteInPlaceStep ==
    ASSUME Inv, WriteInPlace, ~overlap'
    PROVE  Inv'
<1>1. /\ pc = "open" /\ line \in CommandLines /\ IsPayload(buf) /\ BufOK
      /\ line.tool = "c" /\ line.op \in {"new", "expire", "raw", "sign"}
      /\ pc' = "idle" /\ off' = 0 /\ file' = Overlay(file, buf)
      /\ signed' = Lasting
      /\ UNCHANGED <<line, buf, mem, whole>>
  BY DEF Inv, TypeOK, RunOK, WriteInPlace, InPlace, Exit, Written
<1>2. mem = Nil /\ mem' = Nil
  BY DEF WriteInPlace, Written
<1>3. CASE line.op = "new"
  <2>1. buf = dp_create_new
    BY <1>1, <1>3 DEF BufOK
  <2>2. PICK q : q = Overlay(file, buf)
    OBVIOUS
  <2>3. IsPayload(q) /\ (Fits(q) => q = buf)
    BY <2>1, <2>2, OverlayNew DEF Inv, TypeOK
  <2>4. file' = q
    BY <1>1, <2>2
  <2>5. TypeOK'
    BY <1>1, <1>2, <2>3, <2>4 DEF TypeOK
  <2>6. RunOK' /\ EndOK' /\ MemOK'
    BY <1>1, <1>2, <1>3 DEF RunOK, EndOK, MemOK
  <2>7. SignedOK'
    BY <1>1, <1>3 DEF SignedOK, Lasting
  <2>8. FileOK'
    BY <1>1, <2>3, <2>4 DEF FileOK, BufOK
  <2>9. QED
    BY <2>5, <2>6, <2>7, <2>8 DEF Inv
<1>4. CASE line.op # "new"
  <2>1. IsPayload(file) /\ Len(buf) = Len(file)
    BY <1>1, <1>4 DEF Inv, TypeOK, RunOK
  <2>2. file' = buf
    BY <1>1, <2>1, OverlaySame
  <2>3. TypeOK'
    BY <1>1, <1>2, <2>2 DEF TypeOK
  <2>4. RunOK' /\ MemOK'
    BY <1>1, <1>2 DEF RunOK, MemOK
  <2>5. EndOK'
    <3>1. IsPrefix(buf, buf)
      BY <1>1, PayloadFacts DEF IsPrefix
    <3>2. QED
      BY <1>1, <2>2, <3>1 DEF EndOK
  <2>6. SignedOK'
    BY <1>1, <2>2, PayloadFacts DEF SignedOK, Lasting, BufOK
  <2>7. FileOK'
    BY <1>1, <2>2 DEF FileOK, BufOK
  <2>8. QED
    BY <2>3, <2>4, <2>5, <2>6, <2>7 DEF Inv
<1>5. QED
  BY <1>3, <1>4

LEMMA OpenStep ==
    ASSUME Inv, Open, ~overlap'
    PROVE  Inv'
<1>1. /\ pc = "open" /\ line \in CommandLines /\ IsPayload(buf) /\ BufOK
      /\ ~InPlace(line) /\ off = 0 /\ pc' = "write" /\ file' = << >>
      /\ ~signed /\ unsized' = Unsizes(line)
      /\ UNCHANGED <<line, buf, off, mem, whole, signed>>
  BY DEF Inv, TypeOK, RunOK, SignedOK, Open, Written
<1>2. mem = Nil /\ mem' = Nil
  BY DEF Open, Written
<1>3. TypeOK'
  BY <1>1, <1>2 DEF TypeOK
<1>4. ~unsized' => Fits(buf)
  <2>1. line.tool = "c" => line.op \in {"data", "set"}
    BY <1>1, CommandLinesAssumption DEF InPlace, Ops
  <2>2. line.tool = "c" => unsized'
    BY <1>1, <2>1 DEF Unsizes
  <2>3. line.tool # "c" => Fits(buf)
    BY <1>1, CommandLinesAssumption DEF BufOK
  <2>4. QED
    BY <2>2, <2>3
<1>5. SubSeq(buf, 1, 0) = << >> /\ Len(buf) \in Nat
  BY <1>1, PayloadFacts
<1>6. BufOK'
  BY <1>1 DEF BufOK
<1>7. RunOK'
  BY <1>1, <1>4, <1>5, <1>6 DEF RunOK
<1>8. EndOK' /\ SignedOK' /\ FileOK' /\ MemOK'
  BY <1>1, <1>2 DEF EndOK, SignedOK, FileOK, MemOK
<1>9. QED
  BY <1>3, <1>7, <1>8 DEF Inv

LEMMA WriteStep ==
    ASSUME Inv, Write
    PROVE  Inv'
<1>1. /\ pc = "write" /\ line \in CommandLines /\ IsPayload(buf) /\ BufOK
      /\ off \in Nat /\ off < Len(buf) /\ Len(buf) \in Nat
      /\ file = SubSeq(buf, 1, off) /\ (~unsized => Fits(buf)) /\ ~signed
      /\ off' = off + 1
      /\ UNCHANGED <<pc, line, buf, mem, before, signed, unsized, whole>>
  BY PayloadFacts DEF Inv, TypeOK, RunOK, SignedOK, Write, history
<1>2. PICK f : f = SubSeq(buf, 1, off + 1)
  OBVIOUS
<1>3. file' = f
  BY <1>1, <1>2, CutGrows DEF Write
<1>4. off \in 0..Len(buf) /\ off + 1 \in 0..Len(buf) /\ off + 1 # 0
  BY <1>1
<1>5. /\ IsPayload(f) /\ Len(f) = off + 1
      /\ \A i \in 1..off + 1 : f[i] = buf[i]
      /\ off + 1 = Len(buf) => f = buf
  <2>1. PICK n \in 0..Len(buf) : n = off + 1
    BY <1>4
  <2>2. f = SubSeq(buf, 1, n) /\ n # 0
    BY <1>2, <1>4, <2>1
  <2>3. /\ IsPayload(f) /\ Len(f) = n /\ \A i \in 1..n : f[i] = buf[i]
        /\ n = Len(buf) => f = buf
    <3>1. IsPayload(buf) /\ n \in 0..Len(buf)
      BY <1>1, <2>1
    <3>2. n # 0 => IsPayload(f)
      BY <2>2, <3>1, CutFacts
    <3>3. Len(f) = n /\ (n = Len(buf) => f = buf)
      BY <2>2, <3>1, CutFacts
    <3>4. \A i \in 1..n : f[i] = buf[i]
      BY <2>2, <3>1, CutFacts
    <3>5. QED
      BY <2>2, <3>2, <3>3, <3>4
  <2>4. QED
    BY <2>1, <2>3
<1>6. TypeOK'
  BY <1>1, <1>3, <1>5 DEF Inv, TypeOK
<1>7. BufOK'
  BY <1>1 DEF BufOK
<1>8. RunOK'
  BY <1>1, <1>2, <1>3, <1>7 DEF RunOK
<1>9. EndOK' /\ SignedOK'
  BY <1>1 DEF EndOK, SignedOK
<1>10. FileOK'
  <2> SUFFICES ASSUME ~unsized, Fits(f) PROVE Content(f) \in whole
    BY <1>1, <1>3 DEF FileOK
  <2>1. f[1] = buf[1] /\ buf[1].size \in Nat
    BY <1>1, <1>5, PayloadFacts
  <2>2. off + 1 = Len(buf)
    BY <1>1, <1>5, <2>1 DEF Fits
  <2>3. QED
    BY <1>1, <1>5, <2>2 DEF BufOK
<1>11. MemOK'
  <2> SUFFICES ASSUME mem # Nil
               PROVE  /\ f \notin {Nil, << >>} /\ LeadingPart(mem, f)
                      /\ ~unsized /\ Fits(mem) => Content(mem) \in whole
    BY <1>1, <1>3 DEF MemOK
  <2>1. /\ file \notin {Nil, << >>} /\ LeadingPart(mem, file)
        /\ ~unsized /\ Fits(mem) => Content(mem) \in whole
        /\ IsPayload(mem)
    BY DEF Inv, TypeOK, MemOK
  <2>2. off # 0 /\ Len(file) = off /\ \A i \in 1..off : file[i] = buf[i]
    BY <1>1, <1>4, <2>1, CutFacts
  <2>3. \A i \in 1..off : file[i] = f[i]
    BY <1>1, <1>5, <2>2
  <2>4. LeadingPart(mem, f)
    <3>1. file[1] = f[1] /\ Len(mem) \in Nat
      <4>1. 1 \in 1..off
        BY <1>4, <2>2
      <4>2. Len(mem) \in Nat
        BY <2>1, PayloadFacts
      <4>3. QED
        BY <2>3, <4>1, <4>2
    <3>2. \A i \in 2..Len(mem) : i \in 1..off
      <4>1. Len(mem) <= off /\ off \in Nat
        BY <1>1, <2>1, <2>2 DEF LeadingPart
      <4>2. QED
        BY <3>1, <4>1
    <3>3. Len(mem) <= Len(f)
      BY <1>1, <1>5, <2>1, <2>2, <3>1 DEF LeadingPart
    <3>4. QED
      BY <2>1, <2>3, <3>1, <3>2, <3>3 DEF LeadingPart
  <2>5. QED
    BY <1>5, <2>1, <2>4, PayloadFacts
<1>12. QED
  BY <1>6, <1>8, <1>9, <1>10, <1>11 DEF Inv

LEMMA CloseStep ==
    ASSUME Inv, Close
    PROVE  Inv'
<1>1. /\ pc = "write" /\ IsPayload(buf) /\ BufOK /\ off = Len(buf)
      /\ off \in 0..Len(buf) /\ file = SubSeq(buf, 1, off)
      /\ pc' = "idle" /\ off' = 0 /\ signed' = Lasting
      /\ UNCHANGED <<file, line, buf, mem, before, unsized, whole>>
  BY PayloadFacts DEF Inv, TypeOK, RunOK, Close, Exit
<1>2. file = buf /\ IsPrefix(file, buf)
  BY <1>1, CutFacts
<1>3. TypeOK'
  BY <1>1 DEF Inv, TypeOK
<1>4. RunOK' /\ EndOK'
  BY <1>1, <1>2 DEF RunOK, EndOK
<1>5. SignedOK'
  BY <1>1, <1>2, PayloadFacts DEF SignedOK, Lasting, BufOK
<1>6. FileOK' /\ MemOK'
  BY <1>1 DEF Inv, FileOK, MemOK
<1>7. QED
  BY <1>3, <1>4, <1>5, <1>6 DEF Inv

LEMMA FailStep ==
    ASSUME Inv, WriteFails \/ Killed
    PROVE  Inv'
<1>1. UNCHANGED <<file, line, buf, mem, before, signed, unsized, whole>>
  BY DEF WriteFails, Killed, Exit, history
<1>2. CASE Killed
  BY <1>1, <1>2, ExitStep, NilAssumption DEF Killed, Exit
<1>3. CASE pc = "open" /\ Exit(1)
  BY <1>1, <1>3, ExitStep DEF Exit
<1>4. CASE pc = "write" /\ \E status \in Statuses(line) : Exit(status)
  <2>1. line.tool # "c" => rc' = 1
    BY <1>4 DEF Statuses, Exit
  <2>2. QED
    BY <1>1, <1>4, <2>1, ExitStep DEF Exit
<1>5. QED
  BY <1>2, <1>3, <1>4 DEF WriteFails

-----------------------------------------------------------------------------
(* The steps of the server.                                                *)

\* An expiry that is absolute stays, any other becomes a field.
LEMMA ExpireSet ==
    ASSUME NEW e \in ExpireField, NEW now \in Times
    PROVE  /\ dp_get_expire_or_set(e, now) \in ExpireField
           /\ IsAbsolute(e) => dp_get_expire_or_set(e, now) = e
<1>1. now \in Nat /\ DEFAULT_EXPIRE_TIME \in Nat
  BY TimesAssumption, DefaultExpireAssumption
<1>2. e.num \in Int /\ now + e.num \in Int /\ now + DEFAULT_EXPIRE_TIME \in Int
  BY <1>1 DEF ExpireField
<1>3. \A n \in Int : dp_set_expire(n) \in ExpireField
  BY DEF dp_set_expire, ExpireField
<1>4. QED
  BY <1>2, <1>3
  DEF dp_get_expire_or_set, dp_get_expire, IsAbsolute, Unparsable

LEMMA ServerLoadStep ==
    ASSUME Inv, NEW now \in Times, ServerLoad(now)
    PROVE  Inv'
<1>1. /\ file \notin {Nil, << >>} /\ IsPayload(file)
      /\ mem' = Activated(file, now)
      /\ UNCHANGED <<file, pc, line, buf, off, rc>>
      /\ UNCHANGED <<before, signed, unsized, whole>>
  BY DEF Inv, TypeOK, ServerLoad, toolVars, history
<1>2. PICK e : e = dp_get_expire_or_set(file[1].expire, now)
  OBVIOUS
<1>3. e \in ExpireField /\ (IsAbsolute(file[1].expire) => e = file[1].expire)
  BY <1>1, <1>2, ExpireSet, PayloadFacts
<1>4. PICK h : h = [file[1] EXCEPT !.expire = e]
  OBVIOUS
<1>5. /\ h \in Headers /\ h.size = file[1].size /\ h.expire = e
      /\ h.command = file[1].command
  BY <1>1, <1>3, <1>4, PayloadFacts DEF Headers
<1>6. PICK m : m = WithHeader(file, h)
  OBVIOUS
<1>7. mem' = m
  BY <1>1, <1>2, <1>4, <1>6, PayloadFacts DEF Activated, WithHeader
<1>8. /\ IsPayload(m) /\ Len(m) = Len(file) /\ m[1] = h
      /\ \A i \in 2..Len(file) : m[i] = file[i]
      /\ Data(m) = Data(file)
  BY <1>1, <1>5, <1>6, HeaderEdit
<1>9. Len(file) \in Nat
  BY <1>1, PayloadFacts
<1>10. LeadingPart(m, file)
  BY <1>3, <1>4, <1>5, <1>8, <1>9 DEF LeadingPart
<1>11. (Fits(m) <=> Fits(file)) /\ Content(m) = Content(file)
  BY <1>5, <1>8 DEF Fits, Content
<1>12. TypeOK'
  BY <1>1, <1>7, <1>8 DEF Inv, TypeOK
<1>13. BufOK => BufOK'
  BY <1>1 DEF BufOK
<1>14. RunOK'
  BY <1>1, <1>13 DEF Inv, RunOK
<1>15. EndOK' /\ SignedOK' /\ FileOK'
  BY <1>1 DEF Inv, EndOK, SignedOK, FileOK
<1>16. MemOK'
  BY <1>1, <1>7, <1>10, <1>11 DEF Inv, FileOK, MemOK
<1>17. QED
  BY <1>12, <1>14, <1>15, <1>16 DEF Inv

LEMMA ServerWriteStep ==
    ASSUME Inv, ServerWrite, ~overlap'
    PROVE  Inv'
<1>1. /\ pc = "idle" /\ mem' = Nil /\ before' = file'
      /\ file' = Overlay(file, mem)
      /\ UNCHANGED <<pc, line, buf, off, rc>>
      /\ UNCHANGED <<signed, unsized, whole>>
  BY DEF ServerWrite, toolVars
<1>2. /\ IsPayload(mem) /\ IsPayload(file) /\ LeadingPart(mem, file)
      /\ file \notin {Nil, << >>}
  BY DEF Inv, TypeOK, MemOK, ServerWrite
<1>3. PICK h : h = mem[1]
  OBVIOUS
<1>4. PICK q : q = WithHeader(file, h)
  OBVIOUS
<1>5. file' = q
  BY <1>1, <1>2, <1>3, <1>4, OverlayLeading
<1>6. /\ h \in Headers /\ h.size = file[1].size /\ h.command = file[1].command
      /\ IsAbsolute(file[1].expire) => h = file[1]
  <2>1. /\ h \in Headers /\ file[1] \in Headers
        /\ h = [file[1] EXCEPT !.expire = h.expire]
        /\ IsAbsolute(file[1].expire) => h.expire = file[1].expire
    BY <1>2, <1>3, PayloadFacts DEF LeadingPart
  <2>2. QED
    BY <2>1 DEF Headers
<1>7. IsPayload(q) /\ Len(q) = Len(file) /\ q[1] = h /\ Data(q) = Data(file)
  BY <1>2, <1>4, <1>6, HeaderEdit
<1>8. (Fits(q) <=> Fits(file)) /\ Content(q) = Content(file)
  BY <1>6, <1>7 DEF Fits, Content
<1>9. IsAbsolute(file[1].expire) => q = file
  BY <1>2, <1>4, <1>6, PayloadFacts DEF WithHeader
<1>10. TypeOK'
  BY <1>1, <1>5, <1>7 DEF Inv, TypeOK
<1>11. RunOK' /\ EndOK' /\ MemOK'
  BY <1>1 DEF RunOK, EndOK, MemOK
<1>12. SignedOK'
  BY <1>1, <1>5, <1>9 DEF Inv, SignedOK
<1>13. FileOK'
  BY <1>1, <1>2, <1>5, <1>8 DEF Inv, FileOK
<1>14. QED
  BY <1>10, <1>11, <1>12, <1>13 DEF Inv

LEMMA ServerFailsStep ==
    ASSUME Inv, ServerFails
    PROVE  Inv'
<1>1. /\ mem' = Nil /\ UNCHANGED <<file, pc, line, buf, off, rc>>
      /\ UNCHANGED <<before, signed, unsized, whole>>
  BY DEF ServerFails, toolVars, history
<1>2. BufOK => BufOK'
  BY <1>1 DEF BufOK
<1>3. TypeOK' /\ RunOK'
  BY <1>1, <1>2 DEF Inv, TypeOK, RunOK
<1>4. EndOK' /\ SignedOK' /\ FileOK' /\ MemOK'
  BY <1>1 DEF Inv, EndOK, SignedOK, FileOK, MemOK
<1>5. QED
  BY <1>3, <1>4 DEF Inv

LEMMA InvNext == IInv /\ [Next]_vars => IInv'
<1> SUFFICES ASSUME IInv, [Next]_vars, ~overlap' PROVE Inv'
  BY DEF IInv
<1>1. ~overlap
  BY DEF Next, Begin, Load, WriteInPlace, Open, Write, Close, WriteFails,
         Killed, ServerLoad, ServerWrite, ServerFails, Written, history, vars
<1>2. Inv
  BY <1>1 DEF IInv
<1>3. CASE UNCHANGED vars
  <2>1. UNCHANGED <<file, pc, line, buf, off, rc, mem>>
        /\ UNCHANGED <<before, signed, unsized, whole>>
    BY <1>3 DEF vars
  <2>2. BufOK => BufOK'
    BY <2>1 DEF BufOK
  <2>3. TypeOK' /\ RunOK'
    BY <1>2, <2>1, <2>2 DEF Inv, TypeOK, RunOK
  <2>4. EndOK' /\ SignedOK' /\ FileOK' /\ MemOK'
    BY <1>2, <2>1 DEF Inv, EndOK, SignedOK, FileOK, MemOK
  <2>5. QED
    BY <2>3, <2>4 DEF Inv
<1>4. QED
  BY <1>2, <1>3, BeginStep, LoadStep, WriteInPlaceStep, OpenStep, WriteStep,
     CloseStep, FailStep, ServerLoadStep, ServerWriteStep, ServerFailsStep
  DEF Next

-----------------------------------------------------------------------------

\* Where file, tool and server stand as long as they have not written over each
\* other holds in every state.
THEOREM Inductive == Spec => []IInv
<1>1. QED
  BY InvInit, InvNext, PTL DEF Spec

\* dumbpayload.c:358, dumb-tool-cmd-set.c:130: whatever stops a run, the file is
\* what the run found or a leading part of the new payload.
THEOREM FileWholeOrCut == Spec => []WholeOrCut
<1>1. IInv => WholeOrCut
  <2> SUFFICES ASSUME Inv, file # before, ~(line.tool = "c" /\ line.op = "new")
               PROVE  /\ IsPrefix(file, buf)
                      /\ pc = "idle" /\ rc = 0 /\ line.tool = "rust" => file = buf
    BY DEF IInv, WholeOrCut
  <2>1. CASE pc = "write"
    <3>1. IsPayload(buf) /\ off \in 0..Len(buf) /\ file = SubSeq(buf, 1, off)
      BY <2>1, PayloadFacts DEF Inv, TypeOK, RunOK
    <3>2. QED
      BY <2>1, <3>1, CutFacts
  <2>2. CASE pc = "idle"
    BY <2>2 DEF Inv, EndOK
  <2>3. QED
    BY <2>1, <2>2 DEF Inv, TypeOK, RunOK
<1>2. QED
  BY Inductive, <1>1, PTL

\* dp_load.c:115: the server's writes leave a payload good that was signed with
\* an absolute expiry and the right size.
THEOREM SignedLasts == Spec => []SignedStaysGood
<1>1. IInv => SignedStaysGood
  BY DEF IInv, Inv, SignedOK, SignedStaysGood
<1>2. QED
  BY Inductive, <1>1, PTL

\* dp_load.c:94: what a device accepts of a file served at any moment of an edit
\* is one complete edit, if the Rust tool wrote the data.
THEOREM AcceptedComplete == Spec => []AcceptedIsWhole
<1>1. IInv => AcceptedIsWhole
  <2> SUFFICES ASSUME Inv, mem # Nil, ~unsized, Verifies(Signed(mem))
               PROVE  Content(mem) \in whole
    BY DEF IInv, AcceptedIsWhole
  <2>1. Fits(Signed(mem))
    <3>1. AsPayload(Signed(mem)).fits = Fits(Signed(mem))
      BY DEF AsPayload
    <3>2. QED
      BY <3>1 DEF Verifies, dp_verify, dp_validate_size
  <2>2. Fits(mem)
    BY <2>1, SignedFacts DEF Inv, TypeOK
  <2>3. QED
    BY <2>2 DEF Inv, MemOK
<1>2. QED
  BY Inductive, <1>1, PTL

=============================================================================
