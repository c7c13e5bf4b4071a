--------------------------- MODULE FirewallProofs ---------------------------
(* Theorems about Firewall, for every set of apps, uids, requests and      *)
(* scripts that run at the same time, whatever fails in them and whatever  *)
(* the user removes meanwhile.                                             *)
EXTENDS Firewall, NaturalsInduction, WellFoundedInduction, TLAPS

-----------------------------------------------------------------------------
(* Chains.                                                                 *)

Rules == Uids \cup {Root, Reject, Sbox}

Has(c, x) == \E i \in 1..Len(c) : c[i] = x

\* Nothing but jumps comes after a rule that rejects.
RejectLast(c) ==
    \A i, j \in 1..Len(c) : i < j /\ c[i] = Reject => c[j] \in {Reject, Sbox}

\* There is a rule for u that does not come after a jump to oem_sbox.
Around(c, u) ==
    \E i \in 1..Len(c) : c[i] = u /\ \A j \in 1..(i - 1) : c[j] # Sbox

Prepend(u, c) == <<u>> \o c

\* iptables -I 2
Second(c) == <<Head(c), Sbox>> \o Tail(c)

-----------------------------------------------------------------------------
(* The inductive invariant: what is always so, then a part for each of the *)
(* three properties.                                                       *)

Labels == {"idle", "init", "init reject", "init sbox", "app", "mv", "temp",
           "unlink", "flush", "reject", "read", "list", "insert", "sbox",
           "install", "end"}

Jobs == [do : {"init", "allow", "deny", "allow-temp", "fw-flush", "install-this"},
         apps : Seq(Apps)]

TypeOK ==
    /\ uid \in [Apps -> Uids \cup {Nil}]
    /\ conf \subseteq Apps
    /\ chain \in Seq(Rules)
    /\ pc \in [Runs -> Labels]
    /\ job \in [Runs -> Jobs]
    /\ tmp \in [Runs -> SUBSET Apps]
    /\ packages \in [Runs -> SUBSET Apps]
    /\ listing \in [Runs -> [Apps -> Uids \cup {Nil}]]
    /\ last \in Runs \cup {Nil}
    /\ reloaded \in [Apps -> Uids \cup {Nil}] \cup {Nil}

UidsDistinct == \A a, b \in Apps : uid[a] # Nil /\ uid[a] = uid[b] => a = b

\* What a run has to do.
JobInv(r) ==
    /\ pc[r] = "app" => job[r].do \in {"allow", "deny", "allow-temp"}
    /\ pc[r] = "mv" => job[r].do = "deny"
    /\ pc[r] = "temp" =>
          job[r].do = "allow-temp" /\ listing[r][App(r)] # Nil
    /\ pc[r] \in {"app", "mv", "temp", "install"} => job[r].apps # << >>
    /\ job[r].do = "install-this" => job[r].apps # << >>
    /\ pc[r] = "install" => job[r].do = "install-this"

Base == TypeOK /\ UidsDistinct /\ \A r \in Runs : JobInv(r)

\* For ListedPass.  A run that may add to the whitelist, and will then flush.
Pending(r) ==
    \/ pc[r] = "flush"
    \/ pc[r] \in {"app", "mv"} /\ job[r].do \in {"allow", "deny"}

SomePending == \E r \in Runs : Pending(r)

\* An app of the listing l has its rule, or its rule could not be inserted.
Served(l, a) == l[a] = Nil \/ Has(chain, l[a]) \/ l[a] \in faults

RootServed == Has(chain, Root) \/ Root \in faults

\* The last run to begin serves the whole whitelist, or it will not be the last.
LastInv ==
    /\ last # Nil /\ pc[last] = "list" =>
          SomePending \/ Whitelist \subseteq packages[last]
    /\ last # Nil /\ pc[last] \in {"insert", "sbox"} =>
          \/ SomePending
          \/ \A a \in Whitelist : a \in packages[last] \/ Served(listing[last], a)
    /\ last # Nil /\ pc[last] = "sbox" => packages[last] = {} /\ RootServed

EndInv ==
    reloaded # Nil =>
        /\ RootServed
        /\ SomePending \/ \A a \in Whitelist : Served(reloaded, a)

ListInv == RejectLast(chain) /\ LastInv /\ EndInv

\* For OnlyRootAndTempsAround.  An open chain is about to be closed; the rule of
\* an app stands before the jump, or first, only while some run is about to
\* insert the jump, or the rule of root.
SomeAt(labels) == \E r \in Runs : pc[r] \in labels

AroundInv ==
    /\ Has(chain, Reject) \/ SomeAt({"init", "init reject", "reject"})
    /\ Len(chain) > 0 /\ chain[1] \in Uids =>
          LetThrough(chain[1]) \/ SomeAt({"insert"})
    /\ \A u \in Uids :
          Around(chain, u) => LetThrough(u) \/ SomeAt({"insert", "sbox"})

AroundOK == ~Failed({Reject, Root, Sbox}) => AroundInv

\* For OnlyListedPass.  A run that may change the whitelist, and will then flush.
Waiting(r) ==
    \/ pc[r] \in {"init", "init reject", "init sbox", "mv", "flush"}
    \/ pc[r] = "app" /\ job[r].do # "allow-temp"

OneLive == \A r, t \in Live : r = t

RulesListed == \A a \in Apps : uid[a] # Nil /\ Has(chain, uid[a]) => Listed(a)

\* Nobody has taken over a uid of the listing of r.
Fresh(r) ==
    \A a, b \in Apps : listing[r][a] # Nil /\ listing[r][a] = uid[b] => a = b

\* Every rule that install-this leaves is the rule of an app that is installed.
RunInv(r) ==
    /\ pc[r] \in {"list", "insert"} => packages[r] \subseteq Whitelist
    /\ pc[r] \in {"insert", "temp"} => Fresh(r)
    /\ job[r].do = "install-this" /\ pc[r] = "insert" => listing[r] = uid
    /\ /\ job[r].do = "install-this"
       /\ pc[r] \in {"reject", "read", "list", "insert", "sbox", "install"}
       => \A u \in Uids : Has(chain, u) => \E a \in Apps : uid[a] = u

\* The one script that runs, if any, may leave the chain as it is, once it no
\* longer waits for its flush.
SeqRun(r) ==
    /\ RunInv(r)
    /\ ~Waiting(r) => RulesListed
    /\ ~Waiting(r) /\ pc[r] # "reject" => Has(chain, Reject)

SeqInv ==
    /\ OneLive
    /\ \A r \in Runs : RunInv(r)
    /\ (\A r \in Runs : ~Waiting(r)) => RulesListed
    /\ (\A r \in Runs : ~Waiting(r) /\ pc[r] # "reject") => Has(chain, Reject)

SeqOK == ~Failed({"flush", "overlap", Reject}) => SeqInv

IInv == Base /\ ListInv /\ AroundOK /\ SeqOK

-----------------------------------------------------------------------------
(* Facts about chains.                                                     *)

LEMMA PrependFacts ==
    ASSUME NEW c \in Seq(Rules), NEW u \in Rules
    PROVE  /\ Prepend(u, c) \in Seq(Rules)
           /\ Len(c) \in Nat /\ Len(Prepend(u, c)) = Len(c) + 1
           /\ Prepend(u, c)[1] = u
           /\ \A i \in 1..Len(c) : Prepend(u, c)[i + 1] = c[i]
           /\ Prepend(u, c) # << >>
           /\ Head(Prepend(u, c)) = u /\ Tail(Prepend(u, c)) = c
  BY DEF Prepend

LEMMA HasPrepend ==
    ASSUME NEW c \in Seq(Rules), NEW u \in Rules, NEW x
    PROVE  Has(Prepend(u, c), x) <=> x = u \/ Has(c, x)
<1> DEFINE d == Prepend(u, c)
<1> HIDE DEF d
<1>1. /\ Len(d) = Len(c) + 1 /\ d[1] = u /\ Len(c) \in Nat
      /\ \A i \in 1..Len(c) : d[i + 1] = c[i]
  BY PrependFacts DEF d
<1>2. ASSUME NEW i \in 1..Len(c), c[i] = x PROVE Has(d, x)
  <2>1. i + 1 \in 1..Len(d) /\ d[i + 1] = x
    BY <1>1, <1>2
  <2>2. QED
    BY <2>1 DEF Has
<1>3. ASSUME x = u PROVE Has(d, x)
  <2>1. 1 \in 1..Len(d)
    BY <1>1
  <2>2. QED
    BY <1>1, <1>3, <2>1 DEF Has
<1>4. ASSUME NEW i \in 1..Len(d), d[i] = x, x # u PROVE Has(c, x)
  <2>1. i - 1 \in 1..Len(c) /\ d[(i - 1) + 1] = c[i - 1] /\ (i - 1) + 1 = i
    BY <1>1, <1>4
  <2>2. QED
    BY <1>4, <2>1 DEF Has
<1>5. QED
  BY <1>2, <1>3, <1>4 DEF Has, d

LEMMA RejectLastPrepend ==
    ASSUME NEW c \in Seq(Rules), NEW u \in Rules \ {Reject}, RejectLast(c)
    PROVE  RejectLast(Prepend(u, c))
<1> DEFINE d == Prepend(u, c)
<1> HIDE DEF d
<1>1. /\ Len(d) = Len(c) + 1 /\ d[1] = u /\ Len(c) \in Nat
      /\ \A i \in 1..Len(c) : d[i + 1] = c[i]
  BY PrependFacts DEF d
<1>2. ASSUME NEW i \in 1..Len(d), NEW j \in 1..Len(d), i < j, d[i] = Reject
      PROVE  d[j] \in {Reject, Sbox}
  <2>1. i # 1
    BY <1>1, <1>2
  <2>2. /\ i - 1 \in 1..Len(c) /\ j - 1 \in 1..Len(c) /\ i - 1 < j - 1
        /\ (i - 1) + 1 = i /\ (j - 1) + 1 = j
    BY <1>1, <1>2, <2>1
  <2>3. d[i] = c[i - 1] /\ d[j] = c[j - 1]
    BY <1>1, <2>2
  <2>4. QED
    BY <1>2, <2>2, <2>3 DEF RejectLast
<1>3. QED
  BY <1>2 DEF RejectLast, d

LEMMA AroundPrepend ==
    ASSUME NEW c \in Seq(Rules), NEW u \in Rules, NEW x, Around(Prepend(u, c), x),
           x # u
    PROVE  u # Sbox /\ Around(c, x)
<1> DEFINE d == Prepend(u, c)
<1> HIDE DEF d
<1>1. /\ Len(d) = Len(c) + 1 /\ d[1] = u /\ Len(c) \in Nat
      /\ \A i \in 1..Len(c) : d[i + 1] = c[i]
  BY PrependFacts DEF d
<1>2. PICK i \in 1..Len(d) : d[i] = x /\ \A j \in 1..(i - 1) : d[j] # Sbox
  BY DEF Around, d
<1>3. i # 1
  BY <1>1, <1>2
<1>4. i - 1 \in 1..Len(c) /\ d[(i - 1) + 1] = c[i - 1] /\ (i - 1) + 1 = i
      /\ 1 \in 1..(i - 1)
  BY <1>1, <1>3
<1>5. ASSUME NEW j \in 1..((i - 1) - 1) PROVE c[j] # Sbox
  <2>1. j \in 1..Len(c) /\ j + 1 \in 1..(i - 1) /\ d[j + 1] = c[j]
    BY <1>1, <1>4
  <2>2. QED
    BY <1>2, <2>1
<1>6. u # Sbox
  BY <1>1, <1>2, <1>4
<1>7. QED
  BY <1>2, <1>4, <1>5, <1>6 DEF Around

LEMMA AppendFacts ==
    ASSUME NEW c \in Seq(Rules)
    PROVE  /\ Append(c, Reject) \in Seq(Rules)
           /\ Len(c) \in Nat /\ Len(Append(c, Reject)) = Len(c) + 1
           /\ Append(c, Reject)[Len(c) + 1] = Reject
           /\ \A i \in 1..Len(c) : Append(c, Reject)[i] = c[i]
  BY DEF Rules

LEMMA ChainAppend ==
    ASSUME NEW c \in Seq(Rules), NEW d, d = Append(c, Reject)
    PROVE  /\ d \in Seq(Rules) /\ Len(d) > 0
           /\ \A x : Has(d, x) <=> x = Reject \/ Has(c, x)
           /\ RejectLast(c) => RejectLast(d)
           /\ \A u : u # Reject /\ Around(d, u) => Around(c, u)
           /\ IF Len(c) > 0 THEN d[1] = c[1] ELSE d[1] = Reject
<1>1. /\ d \in Seq(Rules) /\ Len(d) = Len(c) + 1 /\ Len(c) \in Nat
      /\ d[Len(c) + 1] = Reject
      /\ \A i \in 1..Len(c) : d[i] = c[i]
  BY AppendFacts
<1>2. \A i \in 1..Len(d) : i = Len(c) + 1 \/ i \in 1..Len(c)
  BY <1>1
<1>3. Len(c) + 1 \in 1..Len(d) /\ \A i \in 1..Len(c) : i \in 1..Len(d)
  BY <1>1
<1>4. \A x : Has(d, x) <=> x = Reject \/ Has(c, x)
  BY <1>1, <1>2, <1>3 DEF Has
<1>5. ASSUME RejectLast(c), NEW i \in 1..Len(d), NEW j \in 1..Len(d), i < j,
             d[i] = Reject
      PROVE  d[j] \in {Reject, Sbox}
  <2>1. i \in 1..Len(c)
    BY <1>1, <1>5
  <2>2. CASE j \in 1..Len(c)
    BY <1>1, <1>5, <2>1, <2>2 DEF RejectLast
  <2>3. QED
    BY <1>1, <1>2, <2>2
<1>6. ASSUME NEW u, u # Reject, Around(d, u) PROVE Around(c, u)
  <2>1. PICK i \in 1..Len(d) : d[i] = u /\ \A j \in 1..(i - 1) : d[j] # Sbox
    BY <1>6 DEF Around
  <2>2. i \in 1..Len(c)
    BY <1>1, <1>2, <1>6, <2>1
  <2>3. \A j \in 1..(i - 1) : j \in 1..Len(c)
    BY <1>1, <2>2
  <2>4. QED
    BY <1>1, <2>1, <2>2, <2>3 DEF Around
<1>7. IF Len(c) > 0 THEN d[1] = c[1] ELSE d[1] = Reject
  BY <1>1
<1>8. QED
  BY <1>1, <1>4, <1>5, <1>6, <1>7 DEF RejectLast

LEMMA SecondFacts ==
    ASSUME NEW c \in Seq(Rules), c # << >>, NEW d, d = Second(c)
    PROVE  /\ d \in Seq(Rules)
           /\ Len(c) \in Nat /\ Len(c) > 0 /\ Len(d) = Len(c) + 1
           /\ d[1] = c[1] /\ d[2] = Sbox
           /\ \A i \in 2..Len(c) : d[i + 1] = c[i]
<1> DEFINE t == Tail(c)
<1>1. t \in Seq(Rules) /\ Len(c) \in Nat /\ Len(c) > 0 /\ Len(t) = Len(c) - 1
      /\ Head(c) = c[1] /\ c[1] \in Rules /\ \A i \in 1..Len(t) : t[i] = c[i + 1]
  OBVIOUS
<1> HIDE DEF t
<1>2. d = <<c[1], Sbox>> \o t /\ <<c[1], Sbox>> \in Seq(Rules)
      /\ Len(<<c[1], Sbox>>) = 2
  BY <1>1 DEF Second, t, Rules
<1>3. d \in Seq(Rules) /\ Len(d) = 2 + Len(t) /\ d[1] = c[1] /\ d[2] = Sbox
  BY <1>1, <1>2
<1>4. ASSUME NEW i \in 2..Len(c) PROVE d[i + 1] = c[i]
  <2>1. i - 1 \in 1..Len(t) /\ (i - 1) + 1 = i /\ i + 1 = 2 + (i - 1)
    BY <1>1
  <2>2. \A k \in 1..Len(t) : d[2 + k] = t[k]
    BY <1>1, <1>2
  <2>3. QED
    BY <1>1, <2>1, <2>2
<1>5. QED
  BY <1>1, <1>3, <1>4

LEMMA ChainSecond ==
    ASSUME NEW c \in Seq(Rules), c # << >>, NEW d, d = Second(c)
    PROVE  /\ d \in Seq(Rules) /\ Len(d) > 0 /\ d[1] = c[1]
           /\ \A x : Has(d, x) <=> x = Sbox \/ Has(c, x)
           /\ RejectLast(c) => RejectLast(d)
           /\ \A u : u # Sbox /\ Around(d, u) => u = c[1]
<1>1. /\ d \in Seq(Rules)
      /\ Len(c) \in Nat /\ Len(c) > 0 /\ Len(d) = Len(c) + 1
      /\ d[1] = c[1] /\ d[2] = Sbox
      /\ \A i \in 2..Len(c) : d[i + 1] = c[i]
  BY SecondFacts
<1>2. \A i \in 1..Len(d) : i = 1 \/ i = 2 \/ (i - 1 \in 2..Len(c) /\ d[i] = c[i - 1])
  <2>1. ASSUME NEW i \in 1..Len(d), i # 1, i # 2
        PROVE  i - 1 \in 2..Len(c) /\ (i - 1) + 1 = i
    BY <1>1, <2>1
  <2>2. QED
    BY <1>1, <2>1
<1>3. \A x : Has(d, x) <=> x = Sbox \/ Has(c, x)
  <2>1. 1 \in 1..Len(d) /\ 2 \in 1..Len(d) /\ 1 \in 1..Len(c)
        /\ \A i \in 2..Len(c) : i \in 1..Len(c) /\ i + 1 \in 1..Len(d)
    BY <1>1
  <2>2. \A i \in 1..Len(c) : i = 1 \/ i \in 2..Len(c)
    BY <1>1
  <2>3. ASSUME NEW x, Has(d, x), x # Sbox PROVE Has(c, x)
    <3>1. PICK i \in 1..Len(d) : d[i] = x
      BY <2>3 DEF Has
    <3>2. CASE i = 1
      BY <1>1, <2>1, <3>1, <3>2 DEF Has
    <3>3. CASE i - 1 \in 2..Len(c) /\ d[i] = c[i - 1]
      BY <2>1, <3>1, <3>3 DEF Has
    <3>4. QED
      BY <1>1, <1>2, <2>3, <3>1, <3>2, <3>3
  <2>4. ASSUME NEW x, Has(c, x) PROVE Has(d, x)
    <3>1. PICK i \in 1..Len(c) : c[i] = x
      BY <2>4 DEF Has
    <3>2. CASE i = 1
      BY <1>1, <2>1, <3>1, <3>2 DEF Has
    <3>3. CASE i \in 2..Len(c)
      BY <1>1, <2>1, <3>1, <3>3 DEF Has
    <3>4. QED
      BY <2>2, <3>2, <3>3
  <2>5. Has(d, Sbox)
    BY <1>1, <2>1 DEF Has
  <2>6. QED
    BY <2>3, <2>4, <2>5
<1>4. ASSUME RejectLast(c), NEW i \in 1..Len(d), NEW j \in 1..Len(d), i < j,
             d[i] = Reject
      PROVE  d[j] \in {Reject, Sbox}
  <2>1. i # 2
    BY <1>1, <1>4 DEF Reject, Sbox
  <2>2. CASE j = 2
    BY <1>1, <2>2
  <2>3. CASE j # 2
    <3>1. j - 1 \in 2..Len(c) /\ d[j] = c[j - 1]
      BY <1>1, <1>2, <1>4, <2>3
    <3>2. PICK k \in 1..Len(c) : k < j - 1 /\ c[k] = Reject
      <4>1. CASE i = 1
        <5>1. 1 \in 1..Len(c) /\ 1 < j - 1
          BY <1>1, <3>1
        <5>2. QED
          BY <1>1, <1>4, <4>1, <5>1
      <4>2. CASE i # 1
        <5>1. i - 1 \in 2..Len(c) /\ d[i] = c[i - 1]
          BY <1>2, <2>1, <4>2
        <5>2. i - 1 \in 1..Len(c) /\ i - 1 < j - 1
          BY <1>1, <1>4, <5>1
        <5>3. QED
          BY <1>4, <5>1, <5>2
      <4>3. QED
        BY <4>1, <4>2
    <3>3. j - 1 \in 1..Len(c)
      BY <1>1, <3>1
    <3>4. QED
      BY <1>4, <3>1, <3>2, <3>3 DEF RejectLast
  <2>4. QED
    BY <2>2, <2>3
<1>5. ASSUME NEW u, u # Sbox, Around(d, u) PROVE u = c[1]
  <2>1. PICK i \in 1..Len(d) : d[i] = u /\ \A j \in 1..(i - 1) : d[j] # Sbox
    BY <1>5 DEF Around
  <2>2. i = 1
    <3>1. i # 2
      BY <1>1, <1>5, <2>1
    <3>2. i > 2 => 2 \in 1..(i - 1)
      BY <1>1
    <3>3. QED
      BY <1>1, <2>1, <3>1, <3>2
  <2>3. QED
    BY <1>1, <2>1, <2>2
<1>6. QED
  BY <1>1, <1>3, <1>4, <1>5 DEF RejectLast

-----------------------------------------------------------------------------
(* Who passes.                                                             *)

LEMMA HasLeast ==
    ASSUME NEW S, S \subseteq Nat, S # {}
    PROVE  \E x \in S : \A y \in S : x <= y
<1> DEFINE R == {ss \in Nat \X Nat : ss[1] < ss[2]}
<1>1. R = OpToRel(<, Nat)
  BY DEF OpToRel
<1>2. IsWellFoundedOn(R, Nat)
  BY <1>1, NatLessThanWellFounded
<1>3. PICK x \in S : \A y \in S : ~(<<y, x>> \in R)
  BY <1>2, WFMin
<1>4. ASSUME NEW y \in S PROVE x <= y
  <2>1. y \in Nat /\ x \in Nat
    OBVIOUS
  <2>2. ~(y < x)
    BY <1>3, <2>1
  <2>3. QED
    BY <2>1, <2>2
<1>5. QED
  BY <1>4

LEMMA UidFacts ==
    /\ Reject # Sbox /\ Root \notin {Reject, Sbox, Nil} /\ Root \notin Uids
    /\ \A u \in Uids : u \notin {Root, Reject, Sbox, Nil}
    /\ Uids \subseteq Rules /\ {Root, Reject, Sbox} \subseteq Rules
  BY UidsAssumption DEF Reject, Sbox, Rules

\* In a chain with a rule that rejects, who passes has a rule, and one that comes
\* before every jump that drops.
LEMMA PassesRule ==
    ASSUME chain \in Seq(Rules), Has(chain, Reject), NEW u \in Uids, NEW tun,
           Passes(u, tun)
    PROVE  \E i \in 1..Len(chain) :
              /\ chain[i] = u
              /\ \A j \in 1..(i - 1) : ~(chain[j] = Sbox /\ SboxDrops(u, tun))
<1> DEFINE E(i) == \/ chain[i] \in {u, Reject}
                   \/ chain[i] = Sbox /\ SboxDrops(u, tun)
           S == {i \in 1..Len(chain) : E(i)}
<1>1. Len(chain) \in Nat
  OBVIOUS
<1>2. S \subseteq Nat /\ S # {}
  BY <1>1 DEF Has
<1>3. PICK i \in S : \A j \in S : i <= j
  BY <1>2, HasLeast
<1>4. \A j \in 1..(i - 1) : ~E(j)
  <2> SUFFICES ASSUME NEW j \in 1..(i - 1), E(j) PROVE FALSE
    OBVIOUS
  <2>1. i \in 1..Len(chain) /\ j \in 1..Len(chain) /\ j < i
    BY <1>1
  <2>2. j \in S
    BY <2>1
  <2>3. i <= j
    BY <1>3, <2>2
  <2>4. QED
    BY <1>1, <2>1, <2>3
<1>5. i \in 1..Len(chain) /\ E(i)
  OBVIOUS
<1>6. chain[i] = u
  BY <1>4, <1>5 DEF Passes
<1>7. QED
  BY <1>4, <1>5, <1>6

\* Where nothing but jumps follows a rule that rejects, who has a rule passes,
\* unless oem_sbox drops it.
LEMMA RulePasses ==
    ASSUME chain \in Seq(Rules), RejectLast(chain), NEW u \in Uids \cup {Root},
           Has(chain, u), NEW tun, ~SboxDrops(u, tun)
    PROVE  Passes(u, tun)
<1> USE UidFacts
<1>1. Len(chain) \in Nat /\ u \notin {Reject, Sbox}
  OBVIOUS
<1>2. PICK k \in 1..Len(chain) : chain[k] = u
  BY DEF Has
<1> SUFFICES ASSUME NEW i \in 1..Len(chain), chain[i] = Reject,
                    \A j \in 1..(i - 1) : chain[j] # u
             PROVE  FALSE
  BY DEF Passes
<1>3. i < k
  <2>1. k \notin 1..(i - 1) /\ k # i
    BY <1>1, <1>2
  <2>2. QED
    BY <1>1, <1>2, <2>1
<1>4. QED
  BY <1>1, <1>2, <1>3 DEF RejectLast

-----------------------------------------------------------------------------
(* One step of one run: what each part of the invariant needs of it.       *)

LEMMA BaseStep ==
    ASSUME Base, NEW r \in Runs, NEW l \in Labels, pc' = [pc EXCEPT ![r] = l],
           job' \in [Runs -> Jobs], listing' \in [Runs -> [Apps -> Uids \cup {Nil}]],
           \A t \in Runs \ {r} : job'[t] = job[t] /\ listing'[t] = listing[t],
           uid' \in [Apps -> Uids \cup {Nil}], UidsDistinct', conf' \subseteq Apps,
           chain' \in Seq(Rules), tmp' \in [Runs -> SUBSET Apps],
           packages' \in [Runs -> SUBSET Apps], last' \in Runs \cup {Nil},
           reloaded' \in [Apps -> Uids \cup {Nil}] \cup {Nil}, JobInv(r)'
    PROVE  Base'
<1>1. TypeOK'
  BY DEF Base, TypeOK
<1>2. ASSUME NEW t \in Runs PROVE JobInv(t)'
  <2>1. CASE t = r
    BY <2>1
  <2>2. CASE t # r
    BY <2>2 DEF Base, TypeOK, JobInv, App
  <2>3. QED
    BY <2>1, <2>2
<1>3. QED
  BY <1>1, <1>2 DEF Base

LEMMA PendingKept ==
    ASSUME Base, NEW r \in Runs, NEW l \in Labels, pc' = [pc EXCEPT ![r] = l],
           \A t \in Runs \ {r} : job'[t] = job[t], Pending(r) => Pending(r)'
    PROVE  SomePending => SomePending'
<1> SUFFICES ASSUME NEW t \in Runs, Pending(t) PROVE SomePending'
  BY DEF SomePending
<1>1. CASE t = r
  BY <1>1 DEF SomePending
<1>2. CASE t # r
  BY <1>2 DEF Base, TypeOK, Pending, SomePending
<1>3. QED
  BY <1>1, <1>2

\* Rules and faults are only added.
Grows ==
    /\ \A x \in Uids \cup {Root} : Has(chain, x) => Has(chain', x)
    /\ faults \subseteq faults'

LEMMA RuleKept ==
    ASSUME Grows, NEW u \in Uids \cup {Nil, Root},
           u = Nil \/ Has(chain, u) \/ u \in faults
    PROVE  u = Nil \/ Has(chain', u) \/ u \in faults'
  BY DEF Grows

LEMMA RootKept == ASSUME Grows, RootServed PROVE RootServed'
  BY DEF Grows, RootServed

LEMMA LastKept ==
    ASSUME Base, Base', LastInv, Grows, last' = last,
           SomePending => SomePending', SomePending' \/ conf' \subseteq conf,
           last # Nil /\ pc'[last] \in {"list", "insert", "sbox"} =>
              /\ pc'[last] = pc[last] /\ packages'[last] = packages[last]
              /\ listing'[last] = listing[last]
    PROVE  LastInv'
<1> SUFFICES ASSUME last # Nil, pc'[last] \in {"list", "insert", "sbox"}
             PROVE  LastInv'
  BY DEF LastInv
<1>1. /\ last \in Runs /\ listing[last] \in [Apps -> Uids \cup {Nil}]
      /\ Whitelist \subseteq Apps
      /\ pc'[last] = pc[last] /\ packages'[last] = packages[last]
      /\ listing'[last] = listing[last]
  BY DefaultAssumption DEF Base, TypeOK, Whitelist
<1>2. SomePending' \/ (~SomePending /\ Whitelist' \subseteq Whitelist)
  BY DEF Whitelist
<1>3. \A a \in Apps : Served(listing[last], a) => Served(listing[last], a)'
  BY <1>1, RuleKept DEF Served
<1>4. QED
  BY <1>1, <1>2, <1>3, RootKept DEF LastInv

LEMMA EndKept ==
    ASSUME Base, EndInv, Grows, UNCHANGED reloaded, SomePending => SomePending',
           SomePending' \/ conf' \subseteq conf
    PROVE  EndInv'
<1> SUFFICES ASSUME reloaded # Nil PROVE EndInv'
  BY DEF EndInv
<1>1. RootServed'
  BY RootKept DEF EndInv
<1>2. CASE SomePending'
  BY <1>1, <1>2 DEF EndInv
<1>3. CASE ~SomePending'
  <2>1. Whitelist' \subseteq Whitelist /\ \A a \in Whitelist : Served(reloaded, a)
    BY <1>3 DEF Whitelist, EndInv
  <2>2. reloaded \in [Apps -> Uids \cup {Nil}] /\ Whitelist \subseteq Apps
    BY DefaultAssumption DEF Base, TypeOK, Whitelist
  <2>3. \A a \in Apps : Served(reloaded, a) => Served(reloaded, a)'
    BY <2>2, RuleKept DEF Served
  <2>4. QED
    BY <1>1, <2>1, <2>2, <2>3 DEF EndInv
<1>4. QED
  BY <1>2, <1>3

\* No later run but the one that flushes.
LEMMA ListStep ==
    ASSUME Base, Base', ListInv, NEW r \in Runs, NEW l \in Labels,
           pc' = [pc EXCEPT ![r] = l], Grows, UNCHANGED last,
           \A t \in Runs \ {r} : /\ job'[t] = job[t] /\ packages'[t] = packages[t]
                                 /\ listing'[t] = listing[t],
           RejectLast(chain'),
           Pending(r) => Pending(r)', Pending(r)' \/ conf' \subseteq conf,
           r = last => LastInv', UNCHANGED reloaded \/ EndInv'
    PROVE  ListInv'
<1>1. SomePending => SomePending'
  BY PendingKept
<1>2. SomePending' \/ conf' \subseteq conf
  BY DEF SomePending
<1>3. LastInv'
  <2>1. CASE r = last
    BY <2>1
  <2>2. CASE r # last
    <3>1. last # Nil => pc'[last] = pc[last] /\ packages'[last] = packages[last]
                        /\ listing'[last] = listing[last]
      BY <2>2 DEF Base, TypeOK
    <3>2. QED
      BY <1>1, <1>2, <3>1, LastKept DEF ListInv
  <2>3. QED
    BY <2>1, <2>2
<1>4. EndInv'
  BY <1>1, <1>2, EndKept DEF ListInv
<1>5. QED
  BY <1>3, <1>4 DEF ListInv

LEMMA FailedKept ==
    ASSUME faults \subseteq faults', NEW S, Failed(S) PROVE Failed(S)'
  BY DEF Failed

Hurried == {"init", "init reject", "reject", "insert", "sbox"}

LEMMA AtKept ==
    ASSUME Base, NEW r \in Runs, NEW l \in Labels, pc' = [pc EXCEPT ![r] = l],
           NEW L, pc[r] \in L => l \in L
    PROVE  SomeAt(L) => SomeAt(L)'
  BY DEF Base, TypeOK, SomeAt

LEMMA LetThroughKept ==
    ASSUME temps \subseteq temps', NEW u, LetThrough(u) PROVE LetThrough(u)'
  BY DEF LetThrough

LEMMA AroundStep ==
    ASSUME Base, AroundOK, NEW r \in Runs, NEW l \in Labels,
           pc' = [pc EXCEPT ![r] = l], UNCHANGED <<chain, temps>>,
           faults \subseteq faults', pc[r] \in Hurried => l = pc[r]
    PROVE  AroundOK'
<1> SUFFICES ASSUME AroundInv PROVE AroundInv'
  BY FailedKept DEF AroundOK
<1>1. /\ SomeAt({"init", "init reject", "reject"}) =>
            SomeAt({"init", "init reject", "reject"})'
      /\ SomeAt({"insert"}) => SomeAt({"insert"})'
      /\ SomeAt({"insert", "sbox"}) => SomeAt({"insert", "sbox"})'
  BY AtKept DEF Hurried
<1>2. \A u : LetThrough(u) => LetThrough(u)'
  BY LetThroughKept
<1>3. QED
  BY <1>1, <1>2 DEF AroundInv, Has, Around

\* While no two scripts run at once, the others have ended.
LEMMA Others ==
    ASSUME Base, OneLive, NEW r \in Live
    PROVE  \A t \in Runs \ {r} : pc[t] \in {"idle", "end"}
  BY DEF OneLive, Live

LEMMA SeqFrom ==
    ASSUME NEW r \in Runs, \A t \in Runs \ {r} : pc'[t] \in {"idle", "end"},
           SeqRun(r)'
    PROVE  SeqInv'
<1>1. OneLive'
  BY DEF OneLive, Live
<1>2. \A t \in Runs : RunInv(t)'
  BY DEF RunInv, SeqRun
<1>3. QED
  BY <1>1, <1>2 DEF SeqInv, SeqRun

LEMMA SeqOf ==
    ASSUME Base, SeqInv, NEW r \in Live
    PROVE  SeqRun(r)
<1>1. \A t \in Runs \ {r} : pc[t] \in {"idle", "end"}
  BY Others DEF SeqInv
<1>2. \A t \in Runs \ {r} : ~Waiting(t) /\ pc[t] # "reject"
  BY <1>1 DEF Waiting
<1>3. QED
  BY <1>2 DEF SeqInv, SeqRun, Live

LEMMA SeqStep ==
    ASSUME Base, SeqOK, NEW r \in Live, NEW l \in Labels,
           pc' = [pc EXCEPT ![r] = l], faults \subseteq faults',
           SeqRun(r) => SeqRun(r)'
    PROVE  SeqOK'
<1> SUFFICES ASSUME SeqInv PROVE SeqInv'
  BY FailedKept DEF SeqOK
<1>1. r \in Runs /\ SeqRun(r)'
  BY SeqOf DEF Live
<1>2. \A t \in Runs \ {r} : pc'[t] \in {"idle", "end"}
  BY Others DEF SeqInv, Base, TypeOK
<1>3. QED
  BY <1>1, <1>2, SeqFrom

\* A step of a live run that leaves the chain and what is noted of it alone.
LEMMA QuietStep ==
    ASSUME IInv, Base', NEW r \in Live, NEW l \in Labels,
           pc' = [pc EXCEPT ![r] = l], UNCHANGED <<chain, history>>,
           \A t \in Runs \ {r} : /\ job'[t] = job[t] /\ packages'[t] = packages[t]
                                 /\ listing'[t] = listing[t],
           pc[r] \notin Hurried,
           Pending(r) => Pending(r)', Pending(r)' \/ conf' \subseteq conf,
           r = last => LastInv', SeqRun(r) => SeqRun(r)'
    PROVE  IInv'
<1>1. r \in Runs /\ UNCHANGED <<chain, temps, faults, last, reloaded>>
  BY DEF Live, history
<1>2. Grows /\ RejectLast(chain')
  BY <1>1 DEF Grows, IInv, ListInv
<1>3. ListInv'
  BY <1>1, <1>2, ListStep DEF IInv
<1>4. AroundOK'
  BY <1>1, AroundStep DEF IInv
<1>5. SeqOK'
  BY <1>1, SeqStep DEF IInv
<1>6. QED
  BY <1>3, <1>4, <1>5 DEF IInv

\* A step that neither ends a reload nor takes it further.
LEMMA NotLast ==
    ASSUME Base, NEW r \in Runs, NEW l \in Labels, pc' = [pc EXCEPT ![r] = l],
           UNCHANGED last, l \notin {"list", "insert", "sbox"}
    PROVE  r = last => LastInv'
  BY DEF Base, TypeOK, LastInv

\* A run that leaves its reload to come, or that has ended.
LEMMA SeqWaits ==
    ASSUME NEW r \in Runs, Waiting(r)',
           pc'[r] \notin {"list", "insert", "temp", "reject", "read", "sbox", "install"}
    PROVE  SeqRun(r)'
  BY DEF SeqRun, RunInv

LEMMA SeqKept ==
    ASSUME NEW r \in Runs, SeqRun(r), ~Waiting(r), pc[r] # "reject",
           UNCHANGED <<uid, conf, chain, temps>>, RunInv(r)'
    PROVE  SeqRun(r)'
  BY DEF SeqRun, RulesListed, Listed, Whitelist, Has

-----------------------------------------------------------------------------
(* dumbos-firewallctl.sh.                                                  *)

LEMMA AppType ==
    ASSUME Base, NEW r \in Runs, pc[r] \in {"app", "mv", "temp", "install"}
    PROVE  App(r) \in Apps
  BY DEF Base, TypeOK, Jobs, JobInv, App

LEMMA NextAppFacts ==
    ASSUME Base, NEW r \in Runs, NextApp(r), pc[r] \in {"app", "mv", "temp"}
    PROVE  /\ job' \in [Runs -> Jobs]
           /\ job'[r].do = job[r].do
           /\ job'[r].do \in {"allow", "deny", "allow-temp"}
           /\ \A t \in Runs \ {r} : job'[t] = job[t]
           /\ \E l \in {"app", "flush", "end"} :
                 /\ pc' = [pc EXCEPT ![r] = l] /\ pc'[r] = l
                 /\ l = "app" => job'[r].apps # << >>
                 /\ l = "end" <=> l # "app" /\ job[r].do = "allow-temp"
<1>1. job[r] \in Jobs /\ Tail(job[r].apps) \in Seq(Apps)
      /\ job[r].do \in {"allow", "deny", "allow-temp"}
  BY DEF Base, TypeOK, Jobs, JobInv
<1>2. job' = [job EXCEPT ![r].apps = Tail(job[r].apps)]
  BY DEF NextApp
<1>3. /\ job' \in [Runs -> Jobs]
      /\ job'[r].do = job[r].do /\ job'[r].apps = Tail(job[r].apps)
      /\ \A t \in Runs \ {r} : job'[t] = job[t]
  BY <1>1, <1>2 DEF Base, TypeOK, Jobs
<1>4. QED
  BY <1>1, <1>3 DEF NextApp, Goto, Base, TypeOK

\* The next app, after what allow and deny do, or after a failure.
LEMMA InvNextApp ==
    ASSUME IInv, NEW r \in Runs, pc[r] \in {"app", "mv", "temp"}, NextApp(r),
           UNCHANGED <<uid, chain, packages, listing, history>>,
           conf' \subseteq Apps, tmp' \in [Runs -> SUBSET Apps],
           job[r].do = "allow-temp" => UNCHANGED conf
    PROVE  IInv'
<1>1. PICK l \in {"app", "flush", "end"} :
            /\ pc' = [pc EXCEPT ![r] = l] /\ pc'[r] = l
            /\ l = "app" => job'[r].apps # << >>
            /\ l = "end" <=> l # "app" /\ job[r].do = "allow-temp"
  BY NextAppFacts DEF IInv
<1>2. /\ job' \in [Runs -> Jobs] /\ job'[r].do = job[r].do
      /\ job'[r].do \in {"allow", "deny", "allow-temp"}
      /\ \A t \in Runs \ {r} : job'[t] = job[t]
  BY NextAppFacts DEF IInv
<1>3. l \in Labels /\ r \in Live /\ pc[r] \notin Hurried
  BY DEF Labels, Live, Hurried
<1>4. Base'
  <2>1. JobInv(r)'
    BY <1>1, <1>2 DEF JobInv
  <2>2. UidsDistinct'
    BY DEF IInv, Base, UidsDistinct
  <2>3. QED
    BY <1>1, <1>2, <1>3, <2>1, <2>2, BaseStep DEF IInv, Base, TypeOK, history
<1>5. Pending(r)' \/ (~Pending(r) /\ UNCHANGED conf)
  BY <1>1, <1>2 DEF Pending, IInv, Base, JobInv
<1>6. ASSUME SeqRun(r) PROVE SeqRun(r)'
  <2>1. CASE job[r].do = "allow-temp"
    <3>1. ~Waiting(r) /\ RunInv(r)'
      BY <1>1, <1>2, <2>1 DEF Waiting, RunInv, IInv, Base, JobInv
    <3>2. QED
      BY <1>6, <2>1, <3>1, SeqKept DEF history
  <2>2. CASE job[r].do # "allow-temp"
    BY <1>1, <1>2, <2>2, SeqWaits DEF Waiting
  <2>3. QED
    BY <2>1, <2>2
<1>7. r = last => LastInv'
  BY <1>1, <1>3, NotLast DEF IInv, history
<1>8. QED
  BY <1>1, <1>2, <1>3, <1>4, <1>5, <1>6, <1>7, QuietStep

LEMMA InvAppFails ==
    ASSUME IInv, NEW r \in Runs, pc[r] \in {"app", "mv", "temp"}, AppFails(r)
    PROVE  IInv'
  BY InvNextApp DEF AppFails, IInv, Base, TypeOK

LEMMA InvAddPackage == ASSUME IInv, NEW r \in Runs, AddPackage(r) PROVE IInv'
<1>1. CASE AppFails(r)
  BY <1>1, InvAppFails DEF AddPackage
<1>2. CASE ~AppFails(r)
  <2>1. App(r) \in Apps /\ conf \subseteq Apps /\ tmp \in [Runs -> SUBSET Apps]
    BY AppType DEF AddPackage, IInv, Base, TypeOK
  <2>2. QED
    BY <1>2, <2>1, InvNextApp DEF AddPackage
<1>3. QED
  BY <1>1, <1>2

LEMMA InvFilterPackage ==
    ASSUME IInv, NEW r \in Runs, FilterPackage(r)
    PROVE  IInv'
<1>1. CASE AppFails(r)
  BY <1>1, InvAppFails DEF FilterPackage
<1>2. CASE ~AppFails(r)
  <2>1. /\ pc[r] = "app" /\ job[r].do = "deny"
        /\ tmp' = [tmp EXCEPT ![r] = conf \ {App(r)}]
        /\ pc' = [pc EXCEPT ![r] = "mv"]
        /\ UNCHANGED <<uid, conf, chain, job, packages, listing, history>>
    BY <1>2 DEF FilterPackage, Goto
  <2>2. "mv" \in Labels /\ pc'[r] = "mv" /\ r \in Live /\ pc[r] \notin Hurried
    BY <2>1 DEF Labels, Live, Hurried, IInv, Base, TypeOK
  <2>3. Base'
    <3>1. JobInv(r)' /\ UidsDistinct'
      BY <2>1, <2>2 DEF IInv, Base, JobInv, UidsDistinct
    <3>2. QED
      BY <2>1, <2>2, <3>1, BaseStep DEF IInv, Base, TypeOK, history
  <2>4. Pending(r)' /\ SeqRun(r)'
    BY <2>1, <2>2, SeqWaits DEF Pending, Waiting
  <2>5. r = last => LastInv'
    BY <2>1, <2>2, NotLast DEF IInv, history
  <2>6. QED
    BY <2>1, <2>2, <2>3, <2>4, <2>5, QuietStep
<1>3. QED
  BY <1>1, <1>2

LEMMA InvMovePackages ==
    ASSUME IInv, NEW r \in Runs, MovePackages(r)
    PROVE  IInv'
<1>1. CASE AppFails(r)
  BY <1>1, InvAppFails DEF MovePackages
<1>2. CASE ~AppFails(r)
  <2>1. tmp[r] \subseteq Apps /\ tmp \in [Runs -> SUBSET Apps]
        /\ job[r].do # "allow-temp"
    BY DEF MovePackages, IInv, Base, TypeOK, JobInv
  <2>2. QED
    BY <1>2, <2>1, InvNextApp DEF MovePackages
<1>3. QED
  BY <1>1, <1>2

LEMMA InvFindTemp == ASSUME IInv, NEW r \in Runs, FindTemp(r) PROVE IInv'
<1>1. CASE AppFails(r)
  BY <1>1, InvAppFails DEF FindTemp
<1>2. CASE ~AppFails(r)
  <2>1. /\ pc[r] = "app" /\ job[r].do = "allow-temp" /\ uid[App(r)] # Nil
        /\ listing' = [listing EXCEPT ![r] = uid]
        /\ pc' = [pc EXCEPT ![r] = "temp"]
        /\ UNCHANGED <<uid, conf, chain, job, tmp, packages, history>>
    BY <1>2 DEF FindTemp, Goto
  <2>2. "temp" \in Labels /\ pc'[r] = "temp" /\ r \in Live /\ pc[r] \notin Hurried
        /\ listing'[r] = uid
    BY <2>1 DEF Labels, Live, Hurried, IInv, Base, TypeOK
  <2>3. Base'
    <3>1. JobInv(r)' /\ UidsDistinct'
      BY <2>1, <2>2 DEF IInv, Base, JobInv, UidsDistinct, App
    <3>2. QED
      BY <2>1, <2>2, <3>1, BaseStep DEF IInv, Base, TypeOK, history
  <2>4. ~Pending(r)
    BY <2>1 DEF Pending
  <2>5. ASSUME SeqRun(r) PROVE SeqRun(r)'
    <3>1. Fresh(r)'
      BY <2>1, <2>2 DEF Fresh, IInv, Base, UidsDistinct
    <3>2. ~Waiting(r) /\ RunInv(r)'
      BY <2>1, <2>2, <3>1 DEF Waiting, RunInv
    <3>3. QED
      BY <2>1, <2>5, <3>2, SeqKept DEF history
  <2>6. r = last => LastInv'
    BY <2>1, <2>2, NotLast DEF IInv, history
  <2>7. QED
    BY <2>1, <2>2, <2>3, <2>4, <2>5, <2>6, QuietStep DEF IInv, Base, TypeOK
<1>3. QED
  BY <1>1, <1>2

LEMMA InvUnlinkConf == ASSUME IInv, NEW r \in Runs, UnlinkConf(r) PROVE IInv'
<1>1. PICK l \in {"flush", "end"} : pc' = [pc EXCEPT ![r] = l]
                                    /\ (l = "end" => UNCHANGED conf)
  BY DEF UnlinkConf, Goto
<1>2. /\ pc[r] = "unlink" /\ conf' \subseteq conf
      /\ UNCHANGED <<uid, chain, job, tmp, packages, listing, history>>
  BY DEF UnlinkConf
<1>3. l \in Labels /\ pc'[r] = l /\ r \in Live /\ pc[r] \notin Hurried
  BY <1>1, <1>2 DEF Labels, Live, Hurried, IInv, Base, TypeOK
<1>4. Base'
  <2>1. JobInv(r)' /\ UidsDistinct'
    BY <1>1, <1>2, <1>3 DEF IInv, Base, JobInv, UidsDistinct
  <2>2. QED
    BY <1>1, <1>2, <1>3, <2>1, BaseStep DEF IInv, Base, TypeOK, history
<1>5. ~Pending(r)
  BY <1>2 DEF Pending
<1>6. ASSUME SeqRun(r) PROVE SeqRun(r)'
  <2>1. CASE l = "flush"
    BY <1>3, <2>1, SeqWaits DEF Waiting
  <2>2. CASE l = "end"
    <3>1. ~Waiting(r) /\ RunInv(r)'
      BY <1>2, <1>3, <2>2 DEF Waiting, RunInv
    <3>2. QED
      BY <1>1, <1>2, <1>6, <2>2, <3>1, SeqKept DEF history
  <2>3. QED
    BY <2>1, <2>2
<1>7. r = last => LastInv'
  BY <1>1, <1>2, <1>3, NotLast DEF IInv, history
<1>8. QED
  BY <1>1, <1>2, <1>3, <1>4, <1>5, <1>6, <1>7, QuietStep

\* A rule for u, put in front of the chain.
LEMMA PrependKeeps ==
    ASSUME Base, ListInv, NEW u \in Uids \cup {Root}, chain' = Inserted(u),
           faults \subseteq faults'
    PROVE  /\ chain' \in Seq(Rules) /\ Grows /\ RejectLast(chain')
           /\ Len(chain') > 0 /\ chain'[1] = u
           /\ \A x : Has(chain', x) <=> x = u \/ Has(chain, x)
           /\ \A x : Around(chain', x) /\ x # u => Around(chain, x)
<1>1. chain' = Prepend(u, chain) /\ chain \in Seq(Rules) /\ u \in Rules \ {Reject}
  BY UidFacts DEF Inserted, Prepend, Base, TypeOK
<1>2. chain' \in Seq(Rules) /\ Len(chain') > 0 /\ chain'[1] = u
  <2>1. /\ Prepend(u, chain) \in Seq(Rules) /\ Len(chain) \in Nat
        /\ Len(Prepend(u, chain)) = Len(chain) + 1 /\ Prepend(u, chain)[1] = u
    BY <1>1, PrependFacts
  <2>2. Len(chain) + 1 > 0
    BY <2>1
  <2>3. QED
    BY <1>1, <2>1, <2>2
<1>3. RejectLast(chain')
  BY <1>1, RejectLastPrepend DEF ListInv
<1>4. \A x : Has(chain', x) <=> x = u \/ Has(chain, x)
  BY <1>1, HasPrepend
<1>5. \A x : Around(chain', x) /\ x # u => Around(chain, x)
  BY <1>1, AroundPrepend
<1>6. QED
  BY <1>2, <1>3, <1>4, <1>5 DEF Grows

LEMMA InvAddPackageTemp ==
    ASSUME IInv, NEW r \in Runs, AddPackageTemp(r)
    PROVE  IInv'
<1>1. CASE AppFails(r)
  BY <1>1, InvAppFails DEF AddPackageTemp
<1>2. CASE ~AppFails(r)
  <2>0. PICK u : u = listing[r][App(r)]
    OBVIOUS
  <2>1. /\ pc[r] = "temp" /\ chain' = Inserted(u)
        /\ temps' = temps \cup {<<App(r), u>>} /\ NextApp(r)
        /\ UNCHANGED <<uid, conf, tmp, packages, listing, faults, last, reloaded>>
    BY <1>2, <2>0 DEF AddPackageTemp
  <2>2. App(r) \in Apps /\ u \in Uids /\ job[r].do = "allow-temp"
    BY <2>0, <2>1, AppType DEF IInv, Base, TypeOK, JobInv
  <2>3. PICK l \in {"app", "flush", "end"} :
            /\ pc' = [pc EXCEPT ![r] = l] /\ pc'[r] = l
            /\ l = "app" => job'[r].apps # << >>
            /\ l = "end" <=> l # "app" /\ job[r].do = "allow-temp"
    BY <2>1, NextAppFacts DEF IInv
  <2>4. /\ job' \in [Runs -> Jobs] /\ job'[r].do = "allow-temp"
        /\ \A t \in Runs \ {r} : job'[t] = job[t]
    BY <2>1, <2>2, NextAppFacts DEF IInv
  <2>5. l \in {"app", "end"} /\ l \in Labels /\ r \in Live /\ pc[r] \notin Hurried
    BY <2>1, <2>2, <2>3 DEF Labels, Live, Hurried
  <2>6. /\ chain' \in Seq(Rules) /\ Grows /\ RejectLast(chain')
        /\ \A x : Has(chain', x) <=> x = u \/ Has(chain, x)
        /\ \A x : Around(chain', x) /\ x # u => Around(chain, x)
        /\ chain'[1] = u
    BY <2>1, <2>2, PrependKeeps DEF IInv
  <2>7. Base'
    <3>1. JobInv(r)' /\ UidsDistinct'
      BY <2>1, <2>3, <2>4, <2>5 DEF IInv, Base, JobInv, UidsDistinct
    <3>2. QED
      BY <2>1, <2>3, <2>4, <2>5, <2>6, <3>1, BaseStep DEF IInv, Base, TypeOK
  <2>8. ListInv'
    <3>1. ~Pending(r)
      BY <2>1, <2>2 DEF Pending
    <3>2. r = last => LastInv'
      BY <2>1, <2>3, <2>5, NotLast DEF IInv
    <3>3. QED
      BY <2>1, <2>3, <2>4, <2>5, <2>6, <2>7, <3>1, <3>2, ListStep DEF IInv
  <2>9. AroundOK'
    <3> SUFFICES ASSUME AroundInv PROVE AroundInv'
      BY <2>1 DEF IInv, AroundOK, Failed
    <3>1. /\ SomeAt({"init", "init reject", "reject"}) =>
                SomeAt({"init", "init reject", "reject"})'
          /\ SomeAt({"insert", "sbox"}) => SomeAt({"insert", "sbox"})'
      BY <2>1, <2>3, <2>5, AtKept DEF IInv
    <3>2. LetThrough(u)' /\ \A x : LetThrough(x) => LetThrough(x)'
      BY <2>1, <2>2, LetThroughKept DEF LetThrough
    <3>3. QED
      BY <2>6, <3>1, <3>2 DEF AroundInv
  <2>10. SeqOK'
    <3>1. ASSUME SeqRun(r) PROVE SeqRun(r)'
      <4>1. RunInv(r)' /\ ~Waiting(r)
        BY <2>1, <2>2, <2>3, <2>5 DEF RunInv, Waiting
      <4>2. ASSUME NEW a \in Apps, uid[a] = u PROVE a = App(r)
        BY <2>0, <2>1, <2>2, <3>1, <4>2, UidFacts DEF SeqRun, RunInv, Fresh
      <4>3. RulesListed'
        BY <2>1, <2>6, <3>1, <4>1, <4>2
           DEF SeqRun, RulesListed, Listed, Whitelist
      <4>4. Has(chain', Reject)
        BY <2>1, <2>6, <3>1, <4>1 DEF SeqRun
      <4>5. QED
        BY <4>1, <4>3, <4>4 DEF SeqRun
    <3>2. QED
      BY <2>1, <2>3, <2>5, <3>1, SeqStep DEF IInv
  <2>11. QED
    BY <2>7, <2>8, <2>9, <2>10 DEF IInv
<1>3. QED
  BY <1>1, <1>2

-----------------------------------------------------------------------------
(* Flushing and closing the chain.                                         *)

LEMMA EmptyChain ==
    /\ << >> \in Seq(Rules) /\ ~(Len(<< >>) > 0) /\ RejectLast(<< >>)
    /\ \A x : ~Has(<< >>, x) /\ ~Around(<< >>, x)
  BY DEF RejectLast, Has, Around

\* A run begins with the chain, whether it could flush it or not.
LEMMA ListBegun ==
    ASSUME IInv, NEW r \in Runs, NEW l \in Labels, pc' = [pc EXCEPT ![r] = l],
           l \notin {"list", "insert", "sbox"}, Flushed(r) \/ FlushFails(r)
    PROVE  ListInv'
<1>1. last' = r /\ reloaded' = Nil /\ RejectLast(chain')
  BY EmptyChain DEF IInv, ListInv, Flushed, FlushFails
<1>2. pc'[r] = l
  BY DEF IInv, Base, TypeOK
<1>3. QED
  BY <1>1, <1>2 DEF ListInv, LastInv, EndInv

LEMMA AroundFlushed ==
    ASSUME IInv, NEW r \in Runs, Flushed(r), pc'[r] \in {"init reject", "reject"}
    PROVE  AroundOK'
<1>1. SomeAt({"init", "init reject", "reject"})'
  BY DEF SomeAt
<1>2. chain' = << >>
  BY DEF Flushed
<1>3. ~(Len(chain') > 0)
  BY <1>2, EmptyChain, Zenon
<1>4. \A u : ~Around(chain', u)
  <2>1. \A u : ~Around(<< >>, u)
    BY EmptyChain
  <2>2. QED
    BY <1>2, <2>1
<1>5. AroundInv'
  BY <1>1, <1>3, <1>4, Zenon DEF AroundInv
<1>6. QED
  BY <1>5 DEF AroundOK

\* Without a failure the run is alone.
LEMMA SeqBegun ==
    ASSUME IInv, NEW r \in Runs, NEW l \in Labels, pc' = [pc EXCEPT ![r] = l],
           Flushed(r), SeqRun(r)'
    PROVE  SeqOK'
<1> SUFFICES ASSUME Live = {r} PROVE SeqInv'
  BY DEF Flushed, SeqOK, Failed
<1>1. \A t \in Runs \ {r} : pc'[t] \in {"idle", "end"}
  BY DEF Live, IInv, Base, TypeOK
<1>2. QED
  BY <1>1, SeqFrom

LEMMA SeqSpoilt ==
    ASSUME NEW what \in {"flush", Reject}, Fails(what) PROVE SeqOK'
  BY DEF Fails, Note, SeqOK, Failed

LEMMA InvInitFlush == ASSUME IInv, NEW r \in Runs, InitFlush(r) PROVE IInv'
<1>1. /\ pc[r] = "init" /\ pc' = [pc EXCEPT ![r] = "init reject"]
      /\ UNCHANGED <<uid, conf, job, tmp, packages, listing>>
      /\ Flushed(r) \/ FlushFails(r)
  BY DEF InitFlush, Goto
<1>2. "init reject" \in Labels /\ pc'[r] = "init reject"
  BY <1>1 DEF Labels, IInv, Base, TypeOK
<1>3. Base'
  <2>1. JobInv(r)' /\ UidsDistinct'
    BY <1>1, <1>2 DEF IInv, Base, JobInv, UidsDistinct
  <2>2. chain' \in Seq(Rules) /\ last' = r /\ reloaded' = Nil
    BY <1>1, EmptyChain DEF Flushed, FlushFails, IInv, Base, TypeOK
  <2>3. QED
    BY <1>1, <1>2, <2>1, <2>2, BaseStep DEF IInv, Base, TypeOK
<1>4. ListInv'
  BY <1>1, <1>2, ListBegun
<1>5. AroundOK'
  <2>1. CASE Flushed(r)
    BY <1>2, <2>1, AroundFlushed
  <2>2. CASE FlushFails(r)
    <3>1. UNCHANGED <<chain, temps>> /\ faults \subseteq faults'
      BY <2>2 DEF FlushFails, Fails, Note
    <3> SUFFICES ASSUME AroundInv PROVE AroundInv'
      BY <3>1, FailedKept DEF IInv, AroundOK
    <3>2. SomeAt({"init", "init reject", "reject"})'
      BY <1>2 DEF SomeAt
    <3>3. /\ SomeAt({"insert"}) => SomeAt({"insert"})'
          /\ SomeAt({"insert", "sbox"}) => SomeAt({"insert", "sbox"})'
      BY <1>1, <1>2, AtKept DEF IInv
    <3>4. \A u : LetThrough(u) => LetThrough(u)'
      BY <3>1, LetThroughKept
    <3>5. QED
      BY <3>1, <3>2, <3>3, <3>4 DEF AroundInv
  <2>3. QED
    BY <1>1, <2>1, <2>2
<1>6. SeqOK'
  <2>1. SeqRun(r)'
    BY <1>2, SeqWaits DEF Waiting
  <2>2. CASE Flushed(r)
    BY <1>1, <1>2, <2>1, <2>2, SeqBegun
  <2>3. QED
    BY <1>1, <2>2, SeqSpoilt DEF FlushFails
<1>7. QED
  BY <1>3, <1>4, <1>5, <1>6 DEF IInv

LEMMA InvFlush == ASSUME IInv, NEW r \in Runs, Flush(r) PROVE IInv'
<1>1. PICK l \in {"reject", "end"} :
            /\ pc' = [pc EXCEPT ![r] = l]
            /\ (l = "reject" /\ Flushed(r)) \/ (l = "end" /\ FlushFails(r))
  <2>1. \/ pc' = [pc EXCEPT ![r] = "reject"] /\ Flushed(r)
        \/ pc' = [pc EXCEPT ![r] = "end"] /\ FlushFails(r)
    BY DEF Flush, Goto, Dies
  <2>2. QED
    BY <2>1
<1>2. /\ pc[r] = "flush" /\ l \in Labels /\ pc'[r] = l
      /\ UNCHANGED <<uid, conf, job, tmp, packages, listing>>
  BY <1>1 DEF Flush, Labels, IInv, Base, TypeOK
<1>3. Base'
  <2>1. JobInv(r)' /\ UidsDistinct'
    BY <1>1, <1>2 DEF IInv, Base, JobInv, UidsDistinct
  <2>2. chain' \in Seq(Rules) /\ last' = r /\ reloaded' = Nil
    BY <1>1, EmptyChain DEF Flushed, FlushFails, IInv, Base, TypeOK
  <2>3. QED
    BY <1>1, <1>2, <2>1, <2>2, BaseStep DEF IInv, Base, TypeOK
<1>4. ListInv'
  BY <1>1, <1>2, ListBegun
<1>5. CASE Flushed(r) /\ l = "reject"
  <2>1. AroundOK'
    BY <1>2, <1>5, AroundFlushed
  <2>2. SeqRun(r)'
    BY <1>2, <1>5, EmptyChain DEF SeqRun, RunInv, RulesListed, Flushed, Waiting
  <2>3. SeqOK'
    BY <1>1, <1>2, <1>5, <2>2, SeqBegun
  <2>4. QED
    BY <1>3, <1>4, <2>1, <2>3 DEF IInv
<1>6. CASE FlushFails(r) /\ l = "end"
  <2>1. UNCHANGED <<chain, temps>> /\ faults \subseteq faults'
    BY <1>6 DEF FlushFails, Fails, Note
  <2>2. AroundOK'
    BY <1>1, <1>2, <2>1, AroundStep DEF IInv, Hurried
  <2>3. SeqOK'
    BY <1>6, SeqSpoilt DEF FlushFails
  <2>4. QED
    BY <1>3, <1>4, <2>2, <2>3 DEF IInv
<1>7. QED
  BY <1>1, <1>5, <1>6

LEMMA AppendKeeps ==
    ASSUME Base, ListInv, Closes
    PROVE  /\ chain' \in Seq(Rules) /\ Grows /\ RejectLast(chain')
           /\ Has(chain', Reject) /\ \A u \in Uids : Has(chain', u) => Has(chain, u)
           /\ \A u \in Uids : Around(chain', u) => Around(chain, u)
           /\ chain'[1] \in Uids => Len(chain) > 0 /\ chain[1] = chain'[1]
<1>1. chain' = Append(chain, Reject) /\ chain \in Seq(Rules) /\ faults' = faults
      /\ Len(chain) \in Nat
  BY DEF Closes, Base, TypeOK
<1>2. /\ chain' \in Seq(Rules)
      /\ \A x : Has(chain', x) <=> x = Reject \/ Has(chain, x)
      /\ RejectLast(chain) => RejectLast(chain')
      /\ \A u : u # Reject /\ Around(chain', u) => Around(chain, u)
      /\ IF Len(chain) > 0 THEN chain'[1] = chain[1] ELSE chain'[1] = Reject
  BY <1>1, ChainAppend
<1>3. QED
  BY <1>1, <1>2, UidFacts DEF Grows, ListInv

LEMMA AroundClosed ==
    ASSUME IInv, NEW r \in Runs, NEW l \in Labels, pc' = [pc EXCEPT ![r] = l],
           pc[r] \in {"init reject", "reject"}, Closes, UNCHANGED temps
    PROVE  AroundOK'
<1>1. /\ Has(chain', Reject)
      /\ \A u \in Uids : Around(chain', u) => Around(chain, u)
      /\ chain'[1] \in Uids => Len(chain) > 0 /\ chain[1] = chain'[1]
      /\ faults' = faults
  BY AppendKeeps DEF IInv, Closes
<1> SUFFICES ASSUME AroundInv PROVE AroundInv'
  BY <1>1 DEF IInv, AroundOK, Failed
<1>2. /\ SomeAt({"insert"}) => SomeAt({"insert"})'
      /\ SomeAt({"insert", "sbox"}) => SomeAt({"insert", "sbox"})'
  BY AtKept DEF IInv
<1>3. \A u : LetThrough(u) => LetThrough(u)'
  BY LetThroughKept
<1>4. QED
  BY <1>1, <1>2, <1>3 DEF AroundInv

\* A failure that no longer leaves apps without a way around.
LEMMA AroundSpoilt ==
    ASSUME NEW what \in {Reject, Root, Sbox}, Fails(what) \/ Note({what})
    PROVE  AroundOK' /\ faults \subseteq faults'
  BY DEF Fails, Note, AroundOK, Failed

LEMMA InvInitReject == ASSUME IInv, NEW r \in Runs, InitReject(r) PROVE IInv'
<1>1. /\ pc[r] = "init reject" /\ pc' = [pc EXCEPT ![r] = "init sbox"]
      /\ UNCHANGED <<uid, conf, job, tmp, packages, listing, temps, last, reloaded>>
      /\ Closes \/ ClosingFails
  BY DEF InitReject, Goto
<1>2. "init sbox" \in Labels /\ pc'[r] = "init sbox" /\ r \in Live
  BY <1>1 DEF Labels, Live, IInv, Base, TypeOK
<1>3. chain' \in Seq(Rules) /\ Grows /\ RejectLast(chain')
  <2>1. CASE Closes
    BY <2>1, AppendKeeps DEF IInv
  <2>2. CASE ClosingFails
    BY <2>2 DEF ClosingFails, Fails, Note, Grows, IInv, Base, TypeOK, ListInv
  <2>3. QED
    BY <1>1, <2>1, <2>2
<1>4. Base'
  <2>1. JobInv(r)' /\ UidsDistinct'
    BY <1>1, <1>2 DEF IInv, Base, JobInv, UidsDistinct
  <2>2. QED
    BY <1>1, <1>2, <1>3, <2>1, BaseStep DEF IInv, Base, TypeOK
<1>5. ListInv'
  <2>1. ~Pending(r) /\ (r = last => LastInv')
    BY <1>1, <1>2, NotLast DEF Pending, IInv
  <2>2. QED
    BY <1>1, <1>2, <1>3, <1>4, <2>1, ListStep DEF IInv
<1>6. AroundOK'
  BY <1>1, <1>2, AroundClosed, AroundSpoilt DEF ClosingFails
<1>7. SeqOK'
  <2>1. SeqRun(r)'
    BY <1>2, SeqWaits DEF Waiting
  <2>2. QED
    BY <1>1, <1>2, <1>3, <2>1, SeqStep DEF Grows, IInv
<1>8. QED
  BY <1>4, <1>5, <1>6, <1>7 DEF IInv

LEMMA InvInitSbox == ASSUME IInv, NEW r \in Runs, InitSbox(r) PROVE IInv'
<1>1. /\ pc[r] = "init sbox" /\ pc' = [pc EXCEPT ![r] = "flush"]
      /\ UNCHANGED <<uid, conf, chain, job, tmp, packages, listing, history>>
  BY DEF InitSbox, Goto
<1>2. /\ "flush" \in Labels /\ pc'[r] = "flush" /\ r \in Live
      /\ pc[r] \notin Hurried
  BY <1>1 DEF Labels, Live, Hurried, IInv, Base, TypeOK
<1>3. Base'
  <2>1. JobInv(r)' /\ UidsDistinct'
    BY <1>1, <1>2 DEF IInv, Base, JobInv, UidsDistinct
  <2>2. QED
    BY <1>1, <1>2, <2>1, BaseStep DEF IInv, Base, TypeOK, history
<1>4. Pending(r)' /\ SeqRun(r)'
  BY <1>2, SeqWaits DEF Pending, Waiting
<1>5. r = last => LastInv'
  BY <1>1, <1>2, NotLast DEF IInv, history
<1>6. QED
  BY <1>1, <1>2, <1>3, <1>4, <1>5, QuietStep

LEMMA InvAppendReject == ASSUME IInv, NEW r \in Runs, AppendReject(r) PROVE IInv'
<1>1. PICK l \in {"read", "end"} :
            /\ pc' = [pc EXCEPT ![r] = l]
            /\ (l = "read" /\ Closes) \/ (l = "end" /\ ClosingFails)
  <2>1. \/ pc' = [pc EXCEPT ![r] = "read"] /\ Closes
        \/ pc' = [pc EXCEPT ![r] = "end"] /\ ClosingFails
    BY DEF AppendReject, Goto, Dies
  <2>2. QED
    BY <2>1
<1>2. /\ pc[r] = "reject" /\ l \in Labels /\ pc'[r] = l /\ r \in Live
      /\ UNCHANGED <<uid, conf, job, tmp, packages, listing, temps, last, reloaded>>
  BY <1>1 DEF AppendReject, Labels, Live, IInv, Base, TypeOK
<1>3. chain' \in Seq(Rules) /\ Grows /\ RejectLast(chain')
  <2>1. CASE Closes
    BY <2>1, AppendKeeps DEF IInv
  <2>2. CASE ClosingFails
    BY <2>2 DEF ClosingFails, Fails, Note, Grows, IInv, Base, TypeOK, ListInv
  <2>3. QED
    BY <1>1, <2>1, <2>2
<1>4. Base'
  <2>1. JobInv(r)' /\ UidsDistinct'
    BY <1>1, <1>2 DEF IInv, Base, JobInv, UidsDistinct
  <2>2. QED
    BY <1>1, <1>2, <1>3, <2>1, BaseStep DEF IInv, Base, TypeOK
<1>5. ListInv'
  <2>1. ~Pending(r) /\ (r = last => LastInv')
    BY <1>1, <1>2, NotLast DEF Pending, IInv
  <2>2. QED
    BY <1>1, <1>2, <1>3, <1>4, <2>1, ListStep DEF IInv
<1>6. AroundOK'
  BY <1>1, <1>2, AroundClosed, AroundSpoilt DEF ClosingFails
<1>7. SeqOK'
  <2>1. CASE ClosingFails
    BY <2>1, SeqSpoilt DEF ClosingFails
  <2>2. CASE Closes /\ l = "read"
    <3>1. Has(chain', Reject) /\ \A u \in Uids : Has(chain', u) => Has(chain, u)
      BY <2>2, AppendKeeps DEF IInv
    <3>2. ASSUME SeqRun(r) PROVE SeqRun(r)'
      <4>1. RulesListed /\ RunInv(r)
        BY <1>2, <3>2 DEF SeqRun, Waiting
      <4>2. \A a \in Apps : uid[a] # Nil => uid[a] \in Uids
        BY DEF IInv, Base, TypeOK
      <4>3. RulesListed'
        BY <1>2, <3>1, <4>1, <4>2 DEF RulesListed, Listed, Whitelist
      <4>4. RunInv(r)'
        BY <1>2, <2>2, <3>1, <4>1 DEF RunInv
      <4>5. QED
        BY <3>1, <4>3, <4>4 DEF SeqRun
    <3>3. QED
      BY <1>1, <1>2, <1>3, <3>2, SeqStep DEF Grows, IInv
  <2>3. QED
    BY <1>1, <2>1, <2>2
<1>8. QED
  BY <1>4, <1>5, <1>6, <1>7 DEF IInv

-----------------------------------------------------------------------------
(* The rest of the reload.                                                 *)

LEMMA InvReadPackages == ASSUME IInv, NEW r \in Runs, ReadPackages(r) PROVE IInv'
<1>1. PICK l \in {"list", "end"} :
            /\ pc' = [pc EXCEPT ![r] = l]
            /\ packages' = IF l = "list" THEN [packages EXCEPT ![r] = Whitelist]
                           ELSE packages
  <2>1. \/ /\ pc' = [pc EXCEPT ![r] = "list"]
           /\ packages' = [packages EXCEPT ![r] = Whitelist]
        \/ pc' = [pc EXCEPT ![r] = "end"] /\ packages' = packages
    BY DEF ReadPackages, Goto, Dies
  <2>2. QED
    BY <2>1
<1>2. /\ pc[r] = "read" /\ l \in Labels /\ pc'[r] = l /\ r \in Live
      /\ pc[r] \notin Hurried
      /\ UNCHANGED <<uid, conf, chain, job, tmp, listing, history>>
  BY <1>1 DEF ReadPackages, Labels, Live, Hurried, IInv, Base, TypeOK
<1>3. /\ Whitelist \subseteq Apps /\ packages' \in [Runs -> SUBSET Apps]
      /\ l = "list" => packages'[r] = Whitelist
      /\ \A t \in Runs \ {r} : packages'[t] = packages[t]
  BY <1>1, DefaultAssumption DEF Whitelist, IInv, Base, TypeOK
<1>4. Base'
  <2>1. JobInv(r)' /\ UidsDistinct'
    BY <1>1, <1>2 DEF IInv, Base, JobInv, UidsDistinct
  <2>2. QED
    BY <1>1, <1>2, <1>3, <2>1, BaseStep DEF IInv, Base, TypeOK, history
<1>5. ~Pending(r) /\ UNCHANGED Whitelist
  BY <1>2 DEF Pending, Whitelist
<1>6. r = last => LastInv'
  BY <1>1, <1>2, <1>3, <1>5 DEF LastInv, history
<1>7. ASSUME SeqRun(r) PROVE SeqRun(r)'
  <2>1. ~Waiting(r) /\ RunInv(r)'
    BY <1>1, <1>2, <1>3, <1>5, <1>7 DEF Waiting, RunInv, SeqRun
  <2>2. QED
    BY <1>2, <1>7, <2>1, SeqKept DEF history
<1>8. QED
  BY <1>1, <1>2, <1>3, <1>4, <1>5, <1>6, <1>7, QuietStep

LEMMA InvListPackages == ASSUME IInv, NEW r \in Runs, ListPackages(r) PROVE IInv'
<1>1. PICK l \in {"insert", "end"} :
            /\ pc' = [pc EXCEPT ![r] = l]
            /\ listing' = IF l = "insert" THEN [listing EXCEPT ![r] = uid]
                          ELSE listing
  <2>1. \/ /\ pc' = [pc EXCEPT ![r] = "insert"]
           /\ listing' = [listing EXCEPT ![r] = uid]
        \/ pc' = [pc EXCEPT ![r] = "end"] /\ listing' = listing
    BY DEF ListPackages, Goto, Dies
  <2>2. QED
    BY <2>1
<1>2. /\ pc[r] = "list" /\ l \in Labels /\ pc'[r] = l /\ r \in Live
      /\ pc[r] \notin Hurried
      /\ UNCHANGED <<uid, conf, chain, job, tmp, packages, history>>
  BY <1>1 DEF ListPackages, Labels, Live, Hurried, IInv, Base, TypeOK
<1>3. /\ listing' \in [Runs -> [Apps -> Uids \cup {Nil}]]
      /\ l = "insert" => listing'[r] = uid
      /\ \A t \in Runs \ {r} : listing'[t] = listing[t]
  BY <1>1 DEF IInv, Base, TypeOK
<1>4. Base'
  <2>1. JobInv(r)' /\ UidsDistinct'
    BY <1>1, <1>2 DEF IInv, Base, JobInv, UidsDistinct
  <2>2. QED
    BY <1>1, <1>2, <1>3, <2>1, BaseStep DEF IInv, Base, TypeOK, history
<1>5. ~Pending(r) /\ UNCHANGED Whitelist /\ r \in Runs
  BY <1>2 DEF Pending, Whitelist
<1>6. ASSUME r = last PROVE LastInv'
  <2>1. SomePending => SomePending'
    BY <1>1, <1>2, <1>5, PendingKept DEF IInv
  <2>2. r # Nil /\ last' = last
    BY <1>2, UidsAssumption DEF history
  <2>3. SomePending' \/ Whitelist' \subseteq packages'[r]
    BY <1>2, <1>5, <1>6, <2>1, <2>2 DEF IInv, ListInv, LastInv
  <2>4. QED
    BY <1>2, <1>6, <2>2, <2>3 DEF LastInv
<1>7. ASSUME SeqRun(r) PROVE SeqRun(r)'
  <2>1. l = "insert" => Fresh(r)'
    BY <1>2, <1>3 DEF Fresh, IInv, Base, UidsDistinct
  <2>2. ~Waiting(r) /\ RunInv(r)'
    BY <1>1, <1>2, <1>3, <1>5, <1>7, <2>1 DEF Waiting, RunInv, SeqRun
  <2>3. QED
    BY <1>2, <1>7, <2>2, SeqKept DEF history
<1>8. QED
  BY <1>1, <1>2, <1>3, <1>4, <1>5, <1>6, <1>7, QuietStep

LEMMA AllowKeeps ==
    ASSUME IInv, NEW u \in Uids \cup {Root}, Allow(u)
    PROVE  /\ chain' \in Seq(Rules) /\ Grows /\ RejectLast(chain')
           /\ Has(chain', u) \/ u \in faults'
           /\ \A x : Has(chain', x) => x = u \/ Has(chain, x)
           /\ Has(chain, Reject) => Has(chain', Reject)
<1>1. CASE chain' = Inserted(u) /\ UNCHANGED faults
  BY <1>1, PrependKeeps DEF IInv
<1>2. CASE UNCHANGED chain /\ Fails(u)
  BY <1>2 DEF Fails, Note, Grows, IInv, Base, TypeOK, ListInv
<1>3. QED
  BY <1>1, <1>2 DEF Allow

LEMMA InvInsertPackage ==
    ASSUME IInv, NEW r \in Runs, NEW a \in Apps, InsertPackage(r, a)
    PROVE  IInv'
<1>1. /\ pc[r] = "insert" /\ a \in packages[r]
      /\ packages' = [packages EXCEPT ![r] = packages[r] \ {a}]
      /\ UNCHANGED <<uid, conf, pc, job, tmp, listing, temps, last, reloaded>>
  BY DEF InsertPackage
<1>2. PICK u : u = listing[r][a]
  OBVIOUS
<1>3. u \in Uids \cup {Nil} /\ (u = Nil => UNCHANGED <<chain, faults>>)
      /\ (u # Nil => u \in Uids \cup {Root} /\ Allow(u))
  BY <1>2 DEF InsertPackage, IInv, Base, TypeOK
<1>4. /\ pc' = [pc EXCEPT ![r] = "insert"] /\ "insert" \in Labels /\ r \in Live
      /\ pc'[r] = "insert"
  BY <1>1 DEF Labels, Live, IInv, Base, TypeOK
<1>5. /\ packages' \in [Runs -> SUBSET Apps] /\ packages'[r] = packages[r] \ {a}
      /\ \A t \in Runs \ {r} : packages'[t] = packages[t]
  BY <1>1 DEF IInv, Base, TypeOK
<1>6. /\ chain' \in Seq(Rules) /\ Grows /\ RejectLast(chain')
      /\ u = Nil \/ Has(chain', u) \/ u \in faults'
      /\ \A x : Has(chain', x) => x = u \/ Has(chain, x)
      /\ Has(chain, Reject) => Has(chain', Reject)
  <2>1. CASE u = Nil
    BY <1>3, <2>1 DEF Grows, IInv, Base, TypeOK, ListInv
  <2>2. CASE u # Nil
    BY <1>3, <2>2, AllowKeeps
  <2>3. QED
    BY <2>1, <2>2
<1>7. Base'
  <2>1. JobInv(r)' /\ UidsDistinct'
    BY <1>1 DEF IInv, Base, JobInv, UidsDistinct, App
  <2>2. QED
    BY <1>1, <1>4, <1>5, <1>6, <2>1, BaseStep DEF IInv, Base, TypeOK
<1>8. ListInv'
  <2>1. ~Pending(r)
    BY <1>1 DEF Pending
  <2>2. ASSUME r = last PROVE LastInv'
    <3>1. /\ r # Nil /\ last' = last /\ UNCHANGED Whitelist
          /\ Whitelist \subseteq Apps /\ listing' = listing
          /\ listing[r] \in [Apps -> Uids \cup {Nil}]
      BY <1>1, UidsAssumption, DefaultAssumption
         DEF Whitelist, IInv, Base, TypeOK
    <3>2. SomePending => SomePending'
      BY <1>1, <1>4, <2>1, PendingKept DEF IInv
    <3>3. ASSUME NEW b \in Whitelist, b \in packages[r] \/ Served(listing[r], b)
          PROVE  b \in packages'[r] \/ Served(listing[r], b)'
      <4>1. CASE b = a
        BY <1>1, <1>2, <1>6, <4>1 DEF Served
      <4>2. CASE b # a /\ b \in packages[r]
        BY <1>5, <4>2
      <4>3. CASE Served(listing[r], b)
        BY <1>6, <3>1, <4>3, RuleKept DEF Served
      <4>4. QED
        BY <3>3, <4>1, <4>2, <4>3
    <3>4. \/ SomePending'
          \/ \A b \in Whitelist' : b \in packages'[r] \/ Served(listing[r], b)'
      BY <1>1, <2>2, <3>1, <3>2, <3>3 DEF IInv, ListInv, LastInv
    <3>5. QED
      BY <1>4, <2>2, <3>1, <3>4 DEF LastInv
  <2>3. QED
    BY <1>1, <1>4, <1>5, <1>6, <1>7, <2>1, <2>2, ListStep DEF IInv
<1>9. AroundOK'
  <2>1. CASE UNCHANGED chain
    BY <1>1, <1>4, <1>6, <2>1, AroundStep DEF IInv, Grows
  <2>2. CASE u \in Uids /\ chain' = Inserted(u) /\ UNCHANGED faults
    <3> SUFFICES ASSUME AroundInv PROVE AroundInv'
      BY <2>2 DEF IInv, AroundOK, Failed
    <3>1. SomeAt({"insert"})' /\ SomeAt({"insert", "sbox"})'
      BY <1>4 DEF SomeAt
    <3>2. SomeAt({"init", "init reject", "reject"}) =>
             SomeAt({"init", "init reject", "reject"})'
      BY <1>1 DEF SomeAt
    <3>3. QED
      BY <1>6, <3>1, <3>2, Zenon DEF AroundInv
  <2>3. QED
    BY <1>3, <2>1, <2>2 DEF Allow
<1>10. SeqOK'
  <2>1. ASSUME SeqRun(r) PROVE SeqRun(r)'
    <3>1. /\ RunInv(r) /\ RulesListed /\ Has(chain, Reject)
          /\ packages[r] \subseteq Whitelist /\ Fresh(r)
      BY <1>1, <2>1 DEF SeqRun, Waiting, RunInv
    <3>2. ASSUME NEW b \in Apps, u # Nil, uid[b] = u PROVE b = a /\ a \in Whitelist
      BY <1>1, <1>2, <3>1, <3>2 DEF Fresh
    <3>3. RulesListed'
      BY <1>1, <1>6, <3>1, <3>2 DEF RulesListed, Listed, Whitelist
    <3>4. Fresh(r)' /\ packages'[r] \subseteq Whitelist'
      BY <1>1, <1>5, <3>1 DEF Fresh, Whitelist
    <3>5. ASSUME job[r].do = "install-this", NEW x \in Uids, Has(chain', x)
          PROVE  \E b \in Apps : uid[b] = x
      <4>1. listing[r] = uid
        BY <1>1, <3>1, <3>5 DEF RunInv
      <4>2. CASE x = u
        BY <1>2, <4>1, <4>2
      <4>3. CASE Has(chain, x)
        BY <1>1, <3>1, <3>5, <4>3 DEF RunInv
      <4>4. QED
        BY <1>6, <3>5, <4>2, <4>3
    <3>6. RunInv(r)'
      BY <1>1, <1>4, <3>1, <3>4, <3>5 DEF RunInv
    <3>7. QED
      BY <1>6, <3>1, <3>3, <3>6 DEF SeqRun
  <2>2. QED
    BY <1>4, <1>6, <2>1, SeqStep DEF IInv, Grows
<1>11. QED
  BY <1>7, <1>8, <1>9, <1>10 DEF IInv

LEMMA InvEchoFails == ASSUME IInv, NEW r \in Runs, EchoFails(r) PROVE IInv'
<1>1. /\ pc[r] = "insert" /\ pc' = [pc EXCEPT ![r] = "end"] /\ Fails(Sbox)
      /\ UNCHANGED <<uid, conf, chain, job, tmp, packages, listing, temps, last,
                     reloaded>>
  BY DEF EchoFails, Dies, Goto
<1>2. "end" \in Labels /\ pc'[r] = "end" /\ r \in Live
  BY <1>1 DEF Labels, Live, IInv, Base, TypeOK
<1>3. AroundOK' /\ faults \subseteq faults'
  BY <1>1, AroundSpoilt
<1>4. Base'
  <2>1. JobInv(r)' /\ UidsDistinct'
    BY <1>1, <1>2 DEF IInv, Base, JobInv, UidsDistinct
  <2>2. QED
    BY <1>1, <1>2, <2>1, BaseStep DEF IInv, Base, TypeOK
<1>5. ListInv'
  <2>1. ~Pending(r) /\ (r = last => LastInv')
    BY <1>1, <1>2, NotLast DEF Pending, IInv
  <2>2. Grows /\ RejectLast(chain')
    BY <1>1, <1>3 DEF Grows, IInv, ListInv
  <2>3. QED
    BY <1>1, <1>2, <1>4, <2>1, <2>2, ListStep DEF IInv
<1>6. SeqOK'
  <2>1. ASSUME SeqRun(r) PROVE SeqRun(r)'
    <3>1. ~Waiting(r) /\ RunInv(r)'
      BY <1>1, <1>2 DEF Waiting, RunInv
    <3>2. QED
      BY <1>1, <2>1, <3>1, SeqKept
  <2>2. QED
    BY <1>1, <1>2, <1>3, <2>1, SeqStep DEF IInv
<1>7. QED
  BY <1>3, <1>4, <1>5, <1>6 DEF IInv

LEMMA InvInsertRoot == ASSUME IInv, NEW r \in Runs, InsertRoot(r) PROVE IInv'
<1>1. /\ pc[r] = "insert" /\ packages[r] = {} /\ Allow(Root)
      /\ pc' = [pc EXCEPT ![r] = "sbox"]
      /\ UNCHANGED <<uid, conf, job, tmp, packages, listing, temps, last, reloaded>>
  BY DEF InsertRoot, Goto
<1>2. "sbox" \in Labels /\ pc'[r] = "sbox" /\ r \in Live
  BY <1>1 DEF Labels, Live, IInv, Base, TypeOK
<1>3. /\ chain' \in Seq(Rules) /\ Grows /\ RejectLast(chain')
      /\ RootServed'
      /\ \A x : Has(chain', x) => x = Root \/ Has(chain, x)
      /\ Has(chain, Reject) => Has(chain', Reject)
  BY <1>1, AllowKeeps DEF RootServed
<1>4. Base'
  <2>1. JobInv(r)' /\ UidsDistinct'
    BY <1>1, <1>2 DEF IInv, Base, JobInv, UidsDistinct
  <2>2. QED
    BY <1>1, <1>2, <1>3, <2>1, BaseStep DEF IInv, Base, TypeOK
<1>5. ListInv'
  <2>1. ~Pending(r)
    BY <1>1 DEF Pending
  <2>2. ASSUME r = last PROVE LastInv'
    <3>1. /\ r # Nil /\ last' = last /\ UNCHANGED Whitelist
          /\ Whitelist \subseteq Apps /\ listing' = listing /\ packages' = packages
          /\ listing[r] \in [Apps -> Uids \cup {Nil}]
      BY <1>1, UidsAssumption, DefaultAssumption
         DEF Whitelist, IInv, Base, TypeOK
    <3>2. SomePending => SomePending'
      BY <1>1, <1>2, <2>1, PendingKept DEF IInv
    <3>3. \A b \in Apps : Served(listing[r], b) => Served(listing[r], b)'
      BY <1>3, <3>1, RuleKept DEF Served
    <3>4. SomePending' \/ \A b \in Whitelist : Served(listing[r], b)'
      BY <1>1, <2>2, <3>1, <3>2, <3>3 DEF IInv, ListInv, LastInv
    <3>5. QED
      BY <1>1, <1>2, <1>3, <2>2, <3>1, <3>4 DEF LastInv
  <2>3. QED
    BY <1>1, <1>2, <1>3, <1>4, <2>1, <2>2, ListStep DEF IInv
<1>6. AroundOK'
  <2>1. CASE Fails(Root)
    BY <2>1, AroundSpoilt
  <2>2. CASE chain' = Inserted(Root) /\ UNCHANGED faults
    <3> SUFFICES ASSUME AroundInv PROVE AroundInv'
      BY <2>2 DEF IInv, AroundOK, Failed
    <3>1. SomeAt({"insert", "sbox"})'
      BY <1>2 DEF SomeAt
    <3>2. SomeAt({"init", "init reject", "reject"}) =>
             SomeAt({"init", "init reject", "reject"})'
      BY <1>1, <1>2, AtKept DEF IInv
    <3>3. chain'[1] \notin Uids
      BY <2>2, PrependKeeps, UidFacts DEF IInv
    <3>4. QED
      BY <1>3, <3>1, <3>2, <3>3, Zenon DEF AroundInv
  <2>3. QED
    BY <1>1, <2>1, <2>2 DEF Allow
<1>7. SeqOK'
  <2>1. ASSUME SeqRun(r) PROVE SeqRun(r)'
    <3>1. RunInv(r) /\ RulesListed /\ Has(chain, Reject)
      BY <1>1, <2>1 DEF SeqRun, Waiting
    <3>2. \A x \in Uids : Has(chain', x) => Has(chain, x)
      BY <1>3, UidFacts
    <3>3. \A b \in Apps : uid[b] # Nil => uid[b] \in Uids
      BY DEF IInv, Base, TypeOK
    <3>4. RulesListed'
      BY <1>1, <3>1, <3>2, <3>3 DEF RulesListed, Listed, Whitelist
    <3>5. RunInv(r)'
      BY <1>1, <1>2, <3>1, <3>2 DEF RunInv
    <3>6. QED
      BY <1>3, <3>1, <3>4, <3>5 DEF SeqRun
  <2>2. QED
    BY <1>1, <1>2, <1>3, <2>1, SeqStep DEF IInv, Grows
<1>8. QED
  BY <1>4, <1>5, <1>6, <1>7 DEF IInv

\* The jump goes in, and the chain keeps its head.
LEMMA SecondKeeps ==
    ASSUME IInv, chain # << >>, chain' = <<Head(chain), Sbox>> \o Tail(chain),
           UNCHANGED faults
    PROVE  /\ chain' \in Seq(Rules) /\ Grows /\ RejectLast(chain')
           /\ Len(chain) > 0 /\ chain'[1] = chain[1]
           /\ \A x : Has(chain', x) <=> x = Sbox \/ Has(chain, x)
           /\ \A u \in Uids : Around(chain', u) => u = chain[1]
<1>1. chain \in Seq(Rules) /\ chain' = Second(chain)
  BY DEF Second, IInv, Base, TypeOK
<1>2. Len(chain) > 0
  BY <1>1, SecondFacts
<1>3. /\ chain' \in Seq(Rules) /\ Len(chain') > 0 /\ chain'[1] = chain[1]
      /\ \A x : Has(chain', x) <=> x = Sbox \/ Has(chain, x)
      /\ RejectLast(chain) => RejectLast(chain')
      /\ \A u : u # Sbox /\ Around(chain', u) => u = chain[1]
  BY <1>1, ChainSecond, Zenon
<1>4. QED
  BY <1>2, <1>3, UidFacts DEF Grows, IInv, ListInv

LEMMA InvInsertSbox == ASSUME IInv, NEW r \in Runs, InsertSbox(r) PROVE IInv'
<1>1. PICK l \in {"install", "end"} :
            /\ pc' = [pc EXCEPT ![r] = l]
            /\ l = "install" => job[r].do = "install-this"
  <2>1. \/ pc' = [pc EXCEPT ![r] = "end"]
        \/ pc' = [pc EXCEPT ![r] = "install"] /\ job[r].do = "install-this"
    BY DEF InsertSbox, Reloaded, Dies, Goto
  <2>2. QED
    BY <2>1
<1>2. /\ pc[r] = "sbox" /\ l \in Labels /\ pc'[r] = l /\ r \in Live
      /\ UNCHANGED <<uid, conf, job, tmp, packages, listing, temps, last>>
  BY <1>1 DEF InsertSbox, Labels, Live, IInv, Base, TypeOK
<1>3. \/ /\ chain # << >> /\ chain' = <<Head(chain), Sbox>> \o Tail(chain)
         /\ reloaded' = (IF r = last THEN listing[r] ELSE reloaded)
         /\ UNCHANGED faults
      \/ /\ Note({Sbox}) \/ Fails(Sbox)
         /\ UNCHANGED <<chain, reloaded>>
  BY DEF InsertSbox
<1>4. /\ chain' \in Seq(Rules) /\ Grows /\ RejectLast(chain')
      /\ \A x \in Uids \cup {Reject} : Has(chain', x) <=> Has(chain, x)
  <2>1. CASE chain # << >> /\ chain' = <<Head(chain), Sbox>> \o Tail(chain)
             /\ UNCHANGED faults
    BY <2>1, SecondKeeps, UidFacts
  <2>2. CASE (Note({Sbox}) \/ Fails(Sbox)) /\ UNCHANGED chain
    BY <2>2 DEF Note, Fails, Grows, IInv, Base, TypeOK, ListInv
  <2>3. QED
    BY <1>3, <2>1, <2>2
<1>5. Base'
  <2>1. JobInv(r)' /\ UidsDistinct'
    BY <1>1, <1>2 DEF IInv, Base, JobInv, UidsDistinct
  <2>2. reloaded' \in [Apps -> Uids \cup {Nil}] \cup {Nil}
    BY <1>3 DEF IInv, Base, TypeOK
  <2>3. QED
    BY <1>1, <1>2, <1>4, <2>1, <2>2, BaseStep DEF IInv, Base, TypeOK
<1>6. ListInv'
  <2>1. ~Pending(r) /\ (r = last => LastInv')
    BY <1>1, <1>2, NotLast DEF Pending, IInv
  <2>2. ASSUME r = last, reloaded' = listing[r] PROVE EndInv'
    <3>1. /\ r # Nil /\ UNCHANGED Whitelist /\ Whitelist \subseteq Apps
          /\ listing[r] \in [Apps -> Uids \cup {Nil}]
      BY <1>2, UidsAssumption, DefaultAssumption DEF Whitelist, IInv, Base, TypeOK
    <3>2. SomePending => SomePending'
      BY <1>1, <1>2, <2>1, PendingKept DEF IInv
    <3>3. RootServed'
      BY <1>2, <1>4, <2>2, <3>1, RootKept DEF IInv, ListInv, LastInv
    <3>4. \A b \in Apps : Served(listing[r], b) => Served(reloaded, b)'
      BY <1>4, <2>2, <3>1, RuleKept DEF Served
    <3>5. SomePending \/ \A b \in Whitelist : Served(listing[r], b)
      BY <1>2, <2>2, <3>1 DEF IInv, ListInv, LastInv
    <3>6. QED
      BY <3>1, <3>2, <3>3, <3>4, <3>5 DEF EndInv
  <2>3. UNCHANGED reloaded \/ EndInv'
    BY <1>3, <2>2
  <2>4. QED
    BY <1>1, <1>2, <1>4, <1>5, <2>1, <2>3, ListStep DEF IInv
<1>7. AroundOK'
  <2>1. CASE Note({Sbox}) \/ Fails(Sbox)
    BY <2>1, AroundSpoilt
  <2>2. CASE chain # << >> /\ chain' = <<Head(chain), Sbox>> \o Tail(chain)
             /\ UNCHANGED faults
    <3> SUFFICES ASSUME AroundInv PROVE AroundInv'
      BY <2>2 DEF IInv, AroundOK, Failed
    <3>1. /\ Len(chain) > 0 /\ chain'[1] = chain[1]
          /\ \A u \in Uids : Around(chain', u) => u = chain[1]
      BY <2>2, SecondKeeps
    <3>2. /\ SomeAt({"init", "init reject", "reject"}) =>
                SomeAt({"init", "init reject", "reject"})'
          /\ SomeAt({"insert"}) => SomeAt({"insert"})'
      BY <1>1, <1>2, AtKept DEF IInv
    <3>3. SomeAt({"insert"})' => SomeAt({"insert", "sbox"})'
      BY DEF SomeAt
    <3>4. \A u : LetThrough(u) => LetThrough(u)'
      BY <1>2, LetThroughKept
    <3>5. chain[1] \in Uids => LetThrough(chain[1]) \/ SomeAt({"insert"})
      BY <3>1 DEF AroundInv
    <3>6. ASSUME NEW u \in Uids, u = chain[1]
          PROVE  LetThrough(u)' \/ SomeAt({"insert"})'
      BY <3>2, <3>4, <3>5, <3>6
    <3>7. chain'[1] \in Uids => (LetThrough(chain[1]) \/ SomeAt({"insert"}))'
      BY <3>1, <3>6
    <3>8. \A u \in Uids : Around(chain', u) =>
             LetThrough(u)' \/ SomeAt({"insert", "sbox"})'
      BY <3>1, <3>3, <3>6
    <3>9. (Has(chain, Reject) \/ SomeAt({"init", "init reject", "reject"}))'
      BY <1>4, <3>2 DEF AroundInv
    <3>10. QED
      BY <3>7, <3>8, <3>9, Zenon DEF AroundInv
  <2>3. QED
    BY <1>3, <2>1, <2>2
<1>8. SeqOK'
  <2>1. ASSUME SeqRun(r) PROVE SeqRun(r)'
    <3>1. RunInv(r) /\ RulesListed /\ Has(chain, Reject)
      BY <1>2, <2>1 DEF SeqRun, Waiting
    <3>2. \A b \in Apps : uid[b] # Nil => uid[b] \in Uids
      BY DEF IInv, Base, TypeOK
    <3>3. RulesListed'
      BY <1>2, <1>4, <3>1, <3>2 DEF RulesListed, Listed, Whitelist
    <3>4. RunInv(r)'
      BY <1>1, <1>2, <1>4, <3>1 DEF RunInv
    <3>5. QED
      BY <1>4, <3>1, <3>3, <3>4 DEF SeqRun
  <2>2. QED
    BY <1>1, <1>2, <1>4, <2>1, SeqStep DEF IInv, Grows
<1>9. QED
  BY <1>5, <1>6, <1>7, <1>8 DEF IInv

-----------------------------------------------------------------------------
(* The handler, the user and the device.                                   *)

LEMMA InvInstallPackage ==
    ASSUME IInv, NEW r \in Runs, InstallPackage(r)
    PROVE  IInv'
<1>1. /\ pc[r] = "install" /\ pc' = [pc EXCEPT ![r] = "end"]
      /\ UNCHANGED <<conf, chain, job, tmp, packages, listing, history>>
  BY DEF InstallPackage, Goto
<1>2. /\ "end" \in Labels /\ pc'[r] = "end" /\ r \in Live /\ pc[r] \notin Hurried
      /\ App(r) \in Apps /\ job[r].do = "install-this"
  BY <1>1, AppType DEF Labels, Live, Hurried, IInv, Base, TypeOK, JobInv
<1>3. \/ UNCHANGED uid
      \/ \E u \in Uids : /\ \A b \in Apps : uid[b] # u
                         /\ uid' = [uid EXCEPT ![App(r)] = u]
  BY DEF InstallPackage
<1>4. uid' \in [Apps -> Uids \cup {Nil}] /\ UidsDistinct'
  <2>1. CASE UNCHANGED uid
    BY <2>1 DEF IInv, Base, TypeOK, UidsDistinct
  <2>2. ASSUME NEW u \in Uids, \A b \in Apps : uid[b] # u,
               uid' = [uid EXCEPT ![App(r)] = u]
        PROVE  uid' \in [Apps -> Uids \cup {Nil}] /\ UidsDistinct'
    BY <1>2, <2>2 DEF IInv, Base, TypeOK, UidsDistinct
  <2>3. QED
    BY <1>3, <2>1, <2>2
<1>5. Base'
  <2>1. JobInv(r)'
    BY <1>1, <1>2 DEF IInv, Base, JobInv
  <2>2. QED
    BY <1>1, <1>2, <1>4, <2>1, BaseStep DEF IInv, Base, TypeOK, history
<1>6. ~Pending(r) /\ (r = last => LastInv')
  BY <1>1, <1>2, NotLast DEF Pending, IInv, history
<1>7. ASSUME SeqRun(r) PROVE SeqRun(r)'
  <2>1. /\ RulesListed /\ Has(chain, Reject) /\ RunInv(r)'
        /\ \A u \in Uids : Has(chain, u) => \E b \in Apps : uid[b] = u
    BY <1>1, <1>2, <1>7 DEF SeqRun, Waiting, RunInv
  <2>2. CASE UNCHANGED uid
    BY <1>1, <2>1, <2>2 DEF SeqRun, RulesListed, Listed, Whitelist, history
  <2>3. ASSUME NEW u \in Uids, \A b \in Apps : uid[b] # u,
               uid' = [uid EXCEPT ![App(r)] = u]
        PROVE  RulesListed'
    <3>1. ~Has(chain, u)
      BY <2>1, <2>3
    <3>2. \A b \in Apps : uid'[b] = u \/ uid'[b] = uid[b]
      BY <2>3 DEF IInv, Base, TypeOK
    <3>3. QED
      BY <1>1, <2>1, <3>1, <3>2
         DEF RulesListed, Listed, Whitelist, history
  <2>4. QED
    BY <1>1, <1>3, <2>1, <2>2, <2>3 DEF SeqRun
<1>8. QED
  BY <1>1, <1>2, <1>5, <1>6, <1>7, QuietStep

\* Where the runs that do something go on as they were.
LEMMA SeqIdle ==
    ASSUME Base, SeqOK, NEW r \in Runs, pc[r] \in {"idle", "end"}, 
           pc' = [pc EXCEPT ![r] = "idle"], UNCHANGED <<uid, conf, chain, history>>,
           \A t \in Runs \ {r} : /\ job'[t] = job[t] /\ packages'[t] = packages[t]
                                 /\ listing'[t] = listing[t]
    PROVE  SeqOK'
<1> SUFFICES ASSUME SeqInv PROVE SeqInv'
  BY DEF SeqOK, Failed, history
<1>1. \A t \in Runs : pc'[t] = IF t = r THEN "idle" ELSE pc[t]
  BY DEF Base, TypeOK
<1>2. OneLive'
  BY <1>1 DEF SeqInv, OneLive, Live
<1>3. ASSUME NEW t \in Runs PROVE RunInv(t)'
  <2>1. CASE t = r
    BY <1>1, <2>1 DEF RunInv
  <2>2. CASE t # r
    BY <1>1, <2>2 DEF SeqInv, RunInv, Fresh, Whitelist
  <2>3. QED
    BY <2>1, <2>2
<1>4. ASSUME NEW t \in Runs PROVE (Waiting(t)' <=> Waiting(t))
                                  /\ (pc'[t] = "reject" <=> pc[t] = "reject")
  <2>1. CASE t = r
    <3>1. pc'[t] = "idle"
      BY <1>1, <2>1
    <3>2. QED
      BY <2>1, <3>1 DEF Waiting
  <2>2. CASE t # r
    <3>1. pc'[t] = pc[t] /\ job'[t] = job[t]
      BY <1>1, <2>2
    <3>2. QED
      BY <3>1 DEF Waiting
  <2>3. QED
    BY <2>1, <2>2
<1>5. RulesListed' <=> RulesListed
  BY DEF RulesListed, Listed, Whitelist, history
<1>6. QED
  BY <1>2, <1>3, <1>4, <1>5 DEF SeqInv

LEMMA NoJobType == NoJob \in Jobs /\ NoJob.do = "init"
<1>1. << >> \in Seq(Apps)
  OBVIOUS
<1>2. QED
  BY <1>1 DEF NoJob, Jobs

LEMMA InvRetire == ASSUME IInv, NEW r \in Runs, Retire(r) PROVE IInv'
<1>1. /\ pc[r] = "end" /\ pc' = [pc EXCEPT ![r] = "idle"]
      /\ tmp' = [tmp EXCEPT ![r] = {}] /\ packages' = [packages EXCEPT ![r] = {}]
      /\ listing' = [listing EXCEPT ![r] = [a \in Apps |-> Nil]]
      /\ job' = [job EXCEPT ![r] = NoJob]
      /\ UNCHANGED <<uid, conf, chain, history>>
  BY DEF Retire, Goto
<1>2. /\ "idle" \in Labels /\ pc'[r] = "idle" /\ pc[r] \notin Hurried
      /\ NoJob \in Jobs /\ NoJob.do = "init" /\ job'[r] = NoJob
  <2>1. NoJob \in Jobs /\ NoJob.do = "init"
    BY NoJobType
  <2>2. job'[r] = NoJob
    BY <1>1 DEF IInv, Base, TypeOK
  <2>3. "idle" \in Labels /\ pc'[r] = "idle" /\ pc[r] \notin Hurried
    BY <1>1 DEF Labels, Hurried, IInv, Base, TypeOK
  <2>4. QED
    BY <2>1, <2>2, <2>3
<1>3. /\ job' \in [Runs -> Jobs] /\ tmp' \in [Runs -> SUBSET Apps]
      /\ packages' \in [Runs -> SUBSET Apps]
      /\ listing' \in [Runs -> [Apps -> Uids \cup {Nil}]]
      /\ \A t \in Runs \ {r} : /\ job'[t] = job[t] /\ packages'[t] = packages[t]
                               /\ listing'[t] = listing[t]
  BY <1>1, <1>2 DEF IInv, Base, TypeOK
<1>4. Base'
  <2>1. JobInv(r)' /\ UidsDistinct'
    BY <1>1, <1>2 DEF IInv, Base, JobInv, UidsDistinct
  <2>2. QED
    BY <1>1, <1>2, <1>3, <2>1, BaseStep DEF IInv, Base, TypeOK, history
<1>5. ListInv'
  <2>1. ~Pending(r) /\ (r = last => LastInv')
    BY <1>1, <1>2, NotLast DEF Pending, IInv, history
  <2>2. Grows /\ RejectLast(chain')
    BY <1>1 DEF Grows, IInv, ListInv, history
  <2>3. QED
    BY <1>1, <1>2, <1>3, <1>4, <2>1, <2>2, ListStep DEF IInv, history
<1>6. AroundOK'
  BY <1>1, <1>2, AroundStep DEF IInv, history
<1>7. SeqOK'
  BY <1>1, <1>3, SeqIdle DEF IInv
<1>8. QED
  BY <1>4, <1>5, <1>6, <1>7 DEF IInv

LEMMA InvStart ==
    ASSUME IInv, NEW r \in Runs, NEW q \in Requests, Start(r, q)
    PROVE  IInv'
<1>1. /\ pc[r] = "idle" /\ pc' = [pc EXCEPT ![r] = FirstStep(q)]
      /\ job' = [job EXCEPT ![r] = q] /\ faults \subseteq faults'
      /\ UNCHANGED <<uid, conf, chain, tmp, packages, listing, temps, last, reloaded>>
  BY DEF Start, Goto, Note
<1>2. /\ q \in Jobs /\ (q.do # "fw-flush" => q.apps # << >>)
      /\ q.do \in {"allow", "deny", "allow-temp", "fw-flush", "install-this"}
  BY RequestsAssumption DEF Jobs
<1>3. PICK l \in {"app", "unlink", "flush"} :
            /\ l = FirstStep(q)
            /\ l = "app" => q.do \in {"allow", "deny", "allow-temp"}
  BY <1>2 DEF FirstStep
<1>4. /\ l \in Labels /\ pc' = [pc EXCEPT ![r] = l] /\ pc'[r] = l
      /\ pc[r] \notin Hurried
      /\ job'[r] = q /\ job' \in [Runs -> Jobs]
      /\ \A t \in Runs \ {r} : job'[t] = job[t]
  <2>1. l \in Labels /\ pc[r] \notin Hurried
    BY <1>1, <1>3 DEF Labels, Hurried
  <2>2. pc' = [pc EXCEPT ![r] = l] /\ pc'[r] = l
    BY <1>1, <1>3 DEF IInv, Base, TypeOK
  <2>3. /\ job'[r] = q /\ job' \in [Runs -> Jobs]
        /\ \A t \in Runs \ {r} : job'[t] = job[t]
    BY <1>1, <1>2 DEF IInv, Base, TypeOK
  <2>4. QED
    BY <2>1, <2>2, <2>3
<1>5. Base'
  <2>1. JobInv(r)' /\ UidsDistinct'
    BY <1>1, <1>2, <1>3, <1>4 DEF IInv, Base, JobInv, UidsDistinct
  <2>2. QED
    BY <1>1, <1>4, <2>1, BaseStep DEF IInv, Base, TypeOK
<1>6. ListInv'
  <2>1. ~Pending(r) /\ (r = last => LastInv')
    BY <1>1, <1>3, <1>4, NotLast DEF Pending, IInv
  <2>2. Grows /\ RejectLast(chain')
    BY <1>1 DEF Grows, IInv, ListInv
  <2>3. QED
    BY <1>1, <1>4, <1>5, <2>1, <2>2, ListStep DEF IInv
<1>7. AroundOK'
  BY <1>1, <1>4, AroundStep DEF IInv
<1>8. SeqOK'
  <2> SUFFICES ASSUME ~Failed({"flush", "overlap", Reject})' PROVE SeqInv'
    BY DEF SeqOK
  <2>1. Live = {} /\ SeqInv
    BY <1>1, FailedKept DEF Start, Note, Failed, IInv, SeqOK
  <2>2. \A t \in Runs : pc[t] \in {"idle", "end"}
    BY <2>1 DEF Live
  <2>3. RulesListed /\ Has(chain, Reject)
    BY <2>1, <2>2 DEF SeqInv, Waiting
  <2>4. RulesListed' /\ Has(chain', Reject)
    BY <1>1, <2>3 DEF RulesListed, Listed, Whitelist
  <2>5. SeqRun(r)'
    BY <1>3, <1>4, <2>4 DEF SeqRun, RunInv
  <2>6. \A t \in Runs \ {r} : pc'[t] \in {"idle", "end"}
    BY <1>4, <2>2 DEF IInv, Base, TypeOK
  <2>7. QED
    BY <2>5, <2>6, SeqFrom
<1>9. QED
  BY <1>5, <1>6, <1>7, <1>8 DEF IInv

LEMMA InvUninstall == ASSUME IInv, NEW a \in Apps, Uninstall(a) PROVE IInv'
<1>1. /\ uid' = [uid EXCEPT ![a] = Nil] /\ faults \subseteq faults'
      /\ UNCHANGED <<conf, chain, pc, job, tmp, packages, listing, temps, last,
                     reloaded>>
  BY DEF Uninstall, Note, runVars
<1>2. /\ uid' \in [Apps -> Uids \cup {Nil}]
      /\ \A b \in Apps : uid'[b] # Nil => uid'[b] = uid[b]
  BY <1>1 DEF IInv, Base, TypeOK
<1>3. Base'
  <2>1. TypeOK' /\ UidsDistinct'
    BY <1>1, <1>2 DEF IInv, Base, TypeOK, UidsDistinct
  <2>2. \A t \in Runs : JobInv(t)'
    BY <1>1 DEF IInv, Base, JobInv, App
  <2>3. QED
    BY <2>1, <2>2 DEF Base
<1>4. ListInv'
  <2>1. Grows /\ RejectLast(chain')
    BY <1>1 DEF Grows, IInv, ListInv
  <2>2. SomePending' <=> SomePending
    BY <1>1 DEF SomePending, Pending
  <2>3. LastInv'
    BY <1>1, <1>3, <2>1, <2>2, LastKept DEF IInv, ListInv
  <2>4. EndInv'
    BY <1>1, <2>1, <2>2, EndKept DEF IInv, ListInv
  <2>5. QED
    BY <2>1, <2>3, <2>4 DEF ListInv
<1>5. AroundOK'
  <2>1. AroundInv => AroundInv'
    BY <1>1 DEF AroundInv, SomeAt, LetThrough
  <2>2. QED
    BY <1>1, <2>1, FailedKept DEF IInv, AroundOK
<1>6. SeqOK'
  <2> SUFFICES ASSUME ~Failed({"flush", "overlap", Reject})' PROVE SeqInv'
    BY DEF SeqOK
  <2>1. SeqInv /\ \A t \in Live : job[t].do # "install-this"
    BY <1>1, FailedKept DEF Uninstall, Note, Failed, IInv, SeqOK
  <2>2. OneLive' /\ \A t \in Runs : Waiting(t)' <=> Waiting(t)
    BY <1>1, <2>1 DEF SeqInv, OneLive, Live, Waiting
  <2>3. ASSUME NEW t \in Runs PROVE RunInv(t)'
    <3>1. RunInv(t)
      BY <2>1 DEF SeqInv
    <3>2. pc[t] \notin {"idle", "end"} => job[t].do # "install-this"
      BY <2>1 DEF Live
    <3>3. Fresh(t) => Fresh(t)'
      BY <1>1, <1>2 DEF Fresh
    <3>4. QED
      BY <1>1, <3>1, <3>2, <3>3 DEF RunInv, Whitelist
  <2>4. RulesListed => RulesListed'
    BY <1>1, <1>2 DEF RulesListed, Listed, Whitelist
  <2>5. QED
    BY <1>1, <2>1, <2>2, <2>3, <2>4 DEF SeqInv
<1>7. QED
  BY <1>3, <1>4, <1>5, <1>6 DEF IInv

\* At boot, and at the start.
AtBoot ==
    /\ uid \in [Apps -> Uids \cup {Nil}] /\ UidsDistinct /\ conf \subseteq Apps
    /\ chain = << >>
    /\ pc = [r \in Runs |-> IF r = Boot THEN "init" ELSE "idle"]
    /\ job = [r \in Runs |-> NoJob]
    /\ tmp = [r \in Runs |-> {}]
    /\ packages = [r \in Runs |-> {}]
    /\ listing = [r \in Runs |-> [a \in Apps |-> Nil]]
    /\ temps = {} /\ faults = {} /\ last = Nil /\ reloaded = Nil

LEMMA BootIInv == ASSUME AtBoot PROVE IInv
<1>1. /\ pc \in [Runs -> Labels] /\ pc[Boot] = "init" /\ Boot \in Runs
      /\ \A r \in Runs : pc[r] = IF r = Boot THEN "init" ELSE "idle"
  BY RunsAssumption DEF AtBoot, Labels
<1>2. chain \in Seq(Rules) /\ RejectLast(chain) /\ ~(Len(chain) > 0)
      /\ \A x : ~Has(chain, x) /\ ~Around(chain, x)
  BY EmptyChain DEF AtBoot
<1>3. Base
  <2>1. job \in [Runs -> Jobs] /\ \A r \in Runs : job[r].do = "init"
    BY NoJobType DEF AtBoot
  <2>2. TypeOK
    BY <1>1, <1>2, <2>1 DEF AtBoot, TypeOK
  <2>3. \A r \in Runs : JobInv(r)
    BY <1>1, <2>1 DEF JobInv
  <2>4. QED
    BY <2>2, <2>3 DEF Base, AtBoot
<1>4. ListInv
  BY <1>2 DEF ListInv, LastInv, EndInv, AtBoot
<1>5. AroundOK
  <2>1. SomeAt({"init", "init reject", "reject"})
    BY <1>1 DEF SomeAt
  <2>2. QED
    BY <1>2, <2>1, Zenon DEF AroundOK, AroundInv
<1>6. SeqOK
  <2>1. OneLive /\ Waiting(Boot)
    BY <1>1 DEF OneLive, Live, Waiting
  <2>2. \A r \in Runs : RunInv(r)
    BY <1>1 DEF RunInv
  <2>3. QED
    BY <1>1, <2>1, <2>2 DEF SeqOK, SeqInv
<1>7. QED
  BY <1>3, <1>4, <1>5, <1>6 DEF IInv

LEMMA InvInit == Init => IInv
  BY BootIInv DEF Init, AtBoot, UidsDistinct

LEMMA InvReboot == ASSUME IInv, Reboot PROVE IInv'
<1>1. AtBoot'
  BY DEF Reboot, AtBoot, IInv, Base, TypeOK, UidsDistinct
<1>2. QED
  BY <1>1, BootIInv, PTL

LEMMA InvNext == ASSUME IInv, [Next]_vars PROVE IInv'
<1>1. ASSUME NEW r \in Runs, Step(r) PROVE IInv'
  <2>1. CASE Reload(r)
    BY <2>1, InvFlush, InvAppendReject, InvReadPackages, InvListPackages,
       InvInsertPackage, InvEchoFails, InvInsertRoot, InvInsertSbox DEF Reload
  <2>2. CASE ~Reload(r)
    BY <1>1, <2>2, InvAddPackage, InvFilterPackage, InvMovePackages, InvFindTemp,
       InvAddPackageTemp, InvUnlinkConf, InvInitFlush, InvInitReject, InvInitSbox,
       InvInstallPackage, InvRetire DEF Step
  <2>3. QED
    BY <2>1, <2>2
<1>2. CASE UNCHANGED vars
  <2>1. Base'
    BY <1>2 DEF vars, IInv, Base, TypeOK, UidsDistinct, JobInv, App
  <2>2. ListInv'
    BY <1>2 DEF vars, IInv, ListInv, LastInv, EndInv, SomePending, Pending, Served,
       RootServed, Whitelist
  <2>3. AroundOK'
    BY <1>2 DEF vars, IInv, AroundOK, AroundInv, SomeAt, LetThrough, Failed
  <2>4. SeqOK'
    <3>1. OneLive' <=> OneLive
      BY <1>2 DEF vars, OneLive, Live
    <3>2. \A r \in Runs : (RunInv(r)' <=> RunInv(r)) /\ (Waiting(r)' <=> Waiting(r))
      BY <1>2 DEF vars, RunInv, Fresh, Waiting, Whitelist
    <3>3. RulesListed' <=> RulesListed
      BY <1>2 DEF vars, RulesListed, Listed, Whitelist
    <3>4. SeqInv => SeqInv'
      BY <1>2, <3>1, <3>2, <3>3 DEF vars, SeqInv
    <3>5. QED
      BY <1>2, <3>4, FailedKept DEF vars, IInv, SeqOK
  <2>5. QED
    BY <2>1, <2>2, <2>3, <2>4 DEF IInv
<1>3. QED
  BY <1>1, <1>2, InvUninstall, InvStart, InvReboot DEF Next

LEMMA Inductive == Spec => []IInv
<1>1. IInv /\ [Next]_vars => IInv'
  BY InvNext
<1>2. QED
  BY <1>1, InvInit, PTL DEF Spec

-----------------------------------------------------------------------------
(* The theorems.                                                           *)

\* When no script is running, an app passes only if it is on the whitelist or
\* was let through since the last reload, unless that reload could not flush or
\* close the chain or another script ran beside it: whatever else fails in it,
\* and whatever failed in the scripts before it.
THEOREM ListedOnly == Spec => []OnlyListedPass
<1>1. ASSUME IInv PROVE OnlyListedPass
  <2> SUFFICES ASSUME Quiet, ~Failed({"flush", "overlap", Reject}),
                      NEW a \in Apps, uid[a] # Nil, Passes(uid[a], TRUE)
               PROVE  Listed(a)
    BY DEF OnlyListedPass, OnlyListed
  <2>1. \A r \in Runs : ~Waiting(r) /\ pc[r] # "reject"
    BY DEF Quiet, Live, Waiting
  <2>2. RulesListed /\ Has(chain, Reject)
    BY <1>1, <2>1 DEF IInv, SeqOK, SeqInv
  <2>3. uid[a] \in Uids /\ chain \in Seq(Rules)
    BY <1>1 DEF IInv, Base, TypeOK
  <2>4. PICK i \in 1..Len(chain) : chain[i] = uid[a]
    BY <2>2, <2>3, PassesRule
  <2>5. QED
    BY <2>2, <2>4 DEF RulesListed, Has
<1>2. QED
  BY <1>1, Inductive, PTL

\* Once the last reload to begin has come to its end and no script is running,
\* root passes and every app of the whitelist that it found passes through
\* sing-box, however many scripts ran at the same time, unless the insertion of
\* the rule itself failed or oem_sbox drops the packet.
THEOREM AllListed == Spec => []ListedPass
<1>1. ASSUME IInv PROVE ListedPass
  <2> SUFFICES ASSUME Quiet, reloaded # Nil PROVE ListedPass
    BY DEF ListedPass
  <2>1. ~SomePending
    BY DEF Quiet, Live, SomePending, Pending
  <2>2. /\ chain \in Seq(Rules) /\ RejectLast(chain) /\ RootServed
        /\ \A a \in Whitelist : Served(reloaded, a)
        /\ Whitelist \subseteq Apps /\ uid \in [Apps -> Uids \cup {Nil}]
    BY <1>1, <2>1, DefaultAssumption
       DEF IInv, Base, TypeOK, ListInv, EndInv, Whitelist
  <2>3. Root \notin faults /\ ~SboxDrops(Root, FALSE) => Passes(Root, FALSE)
    BY <2>2, RulePasses DEF RootServed
  <2>4. ASSUME NEW a \in Whitelist, reloaded[a] # Nil, reloaded[a] = uid[a],
               uid[a] \notin faults, ~SboxDrops(uid[a], TRUE)
        PROVE  Passes(uid[a], TRUE)
    <3>1. uid[a] \in Uids \cup {Root} /\ Has(chain, uid[a])
      BY <2>2, <2>4 DEF Served
    <3>2. QED
      BY <2>2, <2>4, <3>1, RulePasses
  <2>5. QED
    BY <2>3, <2>4 DEF ListedPass
<1>2. QED
  BY <1>1, Inductive, PTL

\* When no script is running, no app passes other than through tun0, apart from
\* those let through by allow-temp, however many scripts ran at the same time,
\* unless the REJECT, the rule of root or the jump to oem_sbox could not be
\* inserted, or oem_sbox has no DROP.
THEOREM TempsOnlyAround == Spec => []OnlyRootAndTempsAround
<1>1. ASSUME IInv PROVE OnlyRootAndTempsAround
  <2> SUFFICES ASSUME Quiet, ~Failed({Reject, Root, Sbox}), "drop" \in sbox,
                      NEW a \in Apps, uid[a] # Nil, Passes(uid[a], FALSE)
               PROVE  LetThrough(uid[a])
    BY DEF OnlyRootAndTempsAround, OnlyTempsAround
  <2>1. /\ ~SomeAt({"init", "init reject", "reject"})
        /\ ~SomeAt({"insert", "sbox"})
    BY DEF Quiet, Live, SomeAt
  <2>2. /\ Has(chain, Reject)
        /\ \A u \in Uids : Around(chain, u) => LetThrough(u)
    BY <1>1, <2>1 DEF IInv, AroundOK, AroundInv
  <2>3. uid[a] \in Uids /\ chain \in Seq(Rules)
    BY <1>1 DEF IInv, Base, TypeOK
  <2>4. SboxDrops(uid[a], FALSE)
    BY <2>3, UidFacts DEF SboxDrops
  <2>5. PICK i \in 1..Len(chain) :
              chain[i] = uid[a] /\ \A j \in 1..(i - 1) : chain[j] # Sbox
    BY <2>2, <2>3, <2>4, PassesRule
  <2>6. QED
    BY <2>2, <2>3, <2>5 DEF Around
<1>2. QED
  BY <1>1, Inductive, PTL

=============================================================================
