-------------------------- MODULE LdrManagerProofs --------------------------
(***************************************************************************)
(* What manager and driver interface of a farm server do without moving a   *)
(* task from or to a client: choose, ask the source, schedule quits, stop   *)
(* and continue.  Calm says what holds at any time of a callback, also in   *)
(* the middle of one, and Sound what holds between two callbacks; here      *)
(* every member function that keeps tasks where they are is shown to keep   *)
(* the members calm.  The lists are counted, so the first lemmas are about  *)
(* how often an element occurs in a list.                                   *)
(***************************************************************************)
EXTENDS LdrServerProps, SequenceTheorems, FiniteSetTheorems, WellFoundedInduction, TLAPS

Kinds   == {"render", "filter"}
Results == {"unset", "ok", "failed"}
Runs    == {"Running", "Stopping", "Stopped", "Continuing"}
Stages  == {"ToBeRendered", "ToBeFiltered", "TaskDone"}
Actions == {"ANone", "AConnect", "AGetTask", "ADoneTask", "ADisconnect"}

\* What the interface knows of a client, and all members.
ClientRecord ==
  [st : {"gone", "connecting", "up", "closed"}, counted : BOOLEAN, jobs : Int,
   sending : Frames \cup {NoTask}, noMore : BOOLEAN, quit : BOOLEAN,
   run : Runs, pend : Nat, keep : {"unsent", "none", "running"}]

Server ==
  [todo : Seq(Frames), proc : Seq(Frames), done : Seq(Frames),
   stage : [Frames -> Stages],
   rtes : [Frames -> Results], ftes : [Frames -> Results],
   ldrc : [Frames -> Clients \cup {Nobody}], parts : [Frames -> SUBSET Kinds],
   recalled : SUBSET Frames, sfs : Frames \cup {NoTask},
   free : Clients \cup {Nobody},
   list : Seq(Clients), cl : [Clients -> ClientRecord],
   recon : [Clients -> 0..2], trigger : BOOLEAN, noRecon : BOOLEAN,
   started : BOOLEAN, shallQuit : BOOLEAN,
   dsmt : BOOLEAN, sq : 0..2, sqa : 0..1, kill : BOOLEAN, caught : 0..2,
   toldIf : BOOLEAN, toldTs : BOOLEAN, tight : BOOLEAN, ess : Runs,
   connected : BOOLEAN, pending : Actions, tsgod : Actions,
   tdaf : BOOLEAN, next : Nat \ {0}, srcDone : Frames \cup {NoTask},
   tid0 : BOOLEAN, quitStep : 0..5,
   crash : {"none", "assert", "clients", "leftover"}]

\* How often t occurs in the queues and on its way back.
Places(s, t) ==
  Listed(s.todo, t) + Listed(s.proc, t) + Listed(s.done, t) + Times(s.srcDone = t)

\* What was done of task t is what its stage says.
Sane(s, t) ==
  /\ s.stage[t] = "ToBeRendered" =>
       t \in RenderFrames /\ s.rtes[t] # "ok" /\ s.ftes[t] # "ok"
  /\ s.stage[t] = "ToBeFiltered" =>
       /\ t \in FilterFrames /\ s.ftes[t] # "ok"
       /\ t \in RenderFrames => s.rtes[t] = "ok"
  /\ s.stage[t] = "TaskDone" /\ t < s.next => AllParts(s, t)

\* A client has the parts of the task that are to be done.
Lent(s, t) ==
  /\ s.ldrc[t] # Nobody <=> Listed(s.proc, t) > 0
  /\ s.ldrc[t] = Nobody <=> s.parts[t] = {}
  /\ "render" \in s.parts[t] => s.stage[t] = "ToBeRendered"
  /\ "filter" \in s.parts[t] =>
       t \in FilterFrames /\ (s.stage[t] = "ToBeFiltered" \/ "render" \in s.parts[t])

Fine(s, t) ==
  /\ Places(s, t) <= 1
  /\ t >= s.next => Places(s, t) = 0 /\ s.rtes[t] = "unset" /\ s.ftes[t] = "unset"
  /\ Listed(s.todo, t) > 0 \/ Listed(s.proc, t) > 0 => s.stage[t] # "TaskDone"
  /\ Sane(s, t)

\* The interface counts the jobs of its clients and lists who is there.
Client(s, c) ==
  /\ s.cl[c].jobs = Cardinality(Held(s, c)) /\ s.cl[c].jobs <= ClientHigh
  /\ s.cl[c].jobs > 0 => s.cl[c].st = "up"
  /\ s.cl[c].st = "up" => s.cl[c].counted
  /\ s.cl[c].counted => s.cl[c].st \in {"up", "closed"} /\ s.started
  /\ s.cl[c].st # "gone" <=> c \in ToSet(s.list)
  /\ s.recon[c] # 0 => s.cl[c].st = "gone"

\* The task that shall be started waits for it, and there is a client.
Chosen(s) ==
  /\ s.free # Nobody => s.cl[s.free].counted
  /\ s.sfs # NoTask =>
       /\ Listed(s.todo, s.sfs) > 0 /\ s.started /\ ~s.dsmt
       /\ s.sq > 0 => Processed(s, s.sfs)
  /\ ~s.started => s.proc = <<>> /\ s.quitStep = 0

\* Stopping and continuing: the answers that are due, and the common state.
Settled(s, c) ==
  /\ s.cl[c].st = "up" =>
       /\ s.cl[c].pend > 0 <=> s.cl[c].run \in {"Stopping", "Continuing"}
       /\ s.ess \in {"Stopping", "Stopped"} => s.cl[c].run \in {"Stopping", "Stopped"}
       /\ s.ess \in {"Running", "Continuing"} => s.cl[c].run \in {"Running", "Continuing"}
       /\ s.ess \in {"Running", "Stopped"} => s.cl[c].pend = 0
  /\ s.cl[c].st = "connecting" => s.cl[c].run = "Running" /\ s.cl[c].pend = 0

\* The exchange with the source.
Talk(s) ==
  /\ s.pending = "AConnect" => ~s.connected
  /\ s.pending \in {"AGetTask", "ADoneTask"} => s.connected
  /\ s.pending = "ADisconnect" => s.connected \/ s.toldTs
  /\ s.srcDone # NoTask <=> s.pending = "ADoneTask"

Empty(s) == s.todo = <<>> /\ s.done = <<>>

\* Nothing is left, or nothing goes on any more.
Over(s) ==
  /\ s.shallQuit = s.toldIf /\ (s.toldIf => s.noRecon /\ ~s.trigger)
  /\ s.toldTs =>
       /\ Empty(s) /\ s.proc = <<>> /\ s.list = <<>> /\ Quitting(s)
       /\ ~s.connected /\ s.toldIf /\ s.pending \in {"ANone", "ADisconnect"}
  /\ s.quitStep > 0 =>
       /\ s.proc = <<>> /\ ~s.connected /\ s.pending = "ANone" /\ ~MustConnect(s)

\* Only a user who continues what he has stopped makes the program work before
\* the first client is there; it may then quit with tasks in hand.
Early(s) ==
  "CONT" \notin Signals =>
    /\ s.quitStep > 0 => Empty(s)
    /\ ~s.started =>
         /\ Empty(s) /\ ~s.connected /\ s.pending \in {"ANone", "ADisconnect"}
         /\ s.ess \in {"Running", "Stopped"}

\* What the manager sees to at any time.
Calm(s) ==
  /\ s \in Server /\ s.crash # "assert"
  /\ Chosen(s) /\ Talk(s) /\ Over(s) /\ Early(s)
  /\ \A c \in Clients : /\ s.cl[c].st = "up" => s.cl[c].counted
                        /\ s.cl[c].counted => s.started

Sound(s) ==
  /\ Calm(s)
  /\ ~s.started => s.list # <<>>
  /\ \A t \in Frames : Fine(s, t) /\ Lent(s, t)
  /\ \A c \in Clients : Client(s, c) /\ Settled(s, c)

\* From s to r no task gets lost and no client gets or returns one.
Still(s, r) ==
  /\ r.proc = s.proc /\ r.ldrc = s.ldrc /\ r.parts = s.parts
  /\ r.stage = s.stage /\ r.rtes = s.rtes /\ r.ftes = s.ftes
  /\ r.next = s.next /\ r.list = s.list /\ r.recon = s.recon
  /\ r.started = s.started
  /\ \A t \in Frames : /\ Places(r, t) = Places(s, t)
                       /\ Listed(r.todo, t) <= Listed(s.todo, t)
  /\ \A c \in Clients : /\ r.cl[c].st = s.cl[c].st
                        /\ r.cl[c].counted = s.cl[c].counted
                        /\ r.cl[c].jobs = s.cl[c].jobs

\* Nor does it matter for stopping and continuing.
Tame(s, r) ==
  /\ Still(s, r) /\ r.ess = s.ess
  /\ \A c \in Clients : r.cl[c].run = s.cl[c].run /\ r.cl[c].pend = s.cl[c].pend

\* What no exchange with the source and no order to clients changes.
Rest(s, r) ==
  /\ r.proc = s.proc /\ r.stage = s.stage /\ r.rtes = s.rtes /\ r.ftes = s.ftes
  /\ r.ldrc = s.ldrc /\ r.parts = s.parts /\ r.list = s.list
  /\ r.recon = s.recon /\ r.trigger = s.trigger /\ r.noRecon = s.noRecon
  /\ r.started = s.started /\ r.shallQuit = s.shallQuit /\ r.toldIf = s.toldIf
  /\ r.ess = s.ess /\ r.next = s.next
  /\ \A c \in Clients :
       /\ r.cl[c].st = s.cl[c].st /\ r.cl[c].counted = s.cl[c].counted
       /\ r.cl[c].jobs = s.cl[c].jobs
       /\ r.cl[c].run = s.cl[c].run /\ r.cl[c].pend = s.cl[c].pend

\* The same for all that matters to the manager but the choice.
Alike(s, r) ==
  /\ Rest(s, r)
  /\ r.todo = s.todo /\ r.done = s.done /\ r.srcDone = s.srcDone
  /\ r.dsmt = s.dsmt /\ r.sq = s.sq /\ r.sqa = s.sqa /\ r.tdaf = s.tdaf
  /\ r.toldTs = s.toldTs /\ r.connected = s.connected
  /\ r.pending = s.pending /\ r.quitStep = s.quitStep

----------------------------------------------------------------------------
(* Lists *)

\* A set of numbers has a least member.
LEMMA NatMin ==
  ASSUME NEW T \in SUBSET Nat, T # {}
  PROVE  \E n \in T : \A m \in T : n <= m
<1>1. \E n \in T : \A m \in T : <<m, n>> \notin OpToRel(<, Nat)
  BY NatLessThanWellFounded, WFMin
<1>2. PICK n \in T : \A m \in T : <<m, n>> \notin OpToRel(<, Nat)
  BY <1>1
<1>3. \A m \in T : ~(m < n)
  BY <1>2 DEF OpToRel
<1> QED
  BY <1>3

\* A count is a number; it is positive for the members of the list only.
LEMMA ListedType ==
  ASSUME NEW S, NEW q \in Seq(S), NEW t
  PROVE  /\ IsFiniteSet({i \in DOMAIN q : q[i] = t})
         /\ Listed(q, t) \in Nat
         /\ Listed(q, t) > 0 <=> \E i \in DOMAIN q : q[i] = t
         /\ Listed(q, t) > 0 <=> t \in ToSet(q)
<1> DEFINE at == {i \in DOMAIN q : q[i] = t}
<1>1. IsFiniteSet(DOMAIN q)
  BY FS_Interval, LenProperties
<1>2. IsFiniteSet(at) /\ Cardinality(at) \in Nat /\ (Cardinality(at) = 0 <=> at = {})
  BY <1>1, FS_Subset, FS_CardinalityType, FS_EmptySet
<1> QED
  BY <1>2 DEF Listed, ToSet

\* Nothing occurs in the empty list, and a list of one holds it once.
LEMMA ListedFew ==
  ASSUME NEW t, NEW u
  PROVE  /\ Listed(<<>>, t) = 0
         /\ Listed(<<u>>, t) = IF t = u THEN 1 ELSE 0
<1>1. {i \in DOMAIN <<>> : <<>>[i] = t} = {}
  OBVIOUS
<1>2. {i \in DOMAIN <<u>> : <<u>>[i] = t} = IF t = u THEN {1} ELSE {}
  OBVIOUS
<1> QED
  BY <1>1, <1>2, FS_EmptySet, FS_Singleton DEF Listed

\* Occurrences add up when lists are joined.
LEMMA ListedConcat ==
  ASSUME NEW S, NEW p \in Seq(S), NEW q \in Seq(S), NEW t
  PROVE  Listed(p \o q, t) = Listed(p, t) + Listed(q, t)
<1> DEFINE n  == Len(p)
           P  == {i \in DOMAIN p : p[i] = t}
           Q  == {i \in DOMAIN q : q[i] = t}
           Q2 == {i \in DOMAIN (p \o q) : i > n /\ (p \o q)[i] = t}
           f  == [i \in Q |-> i + n]
<1>1. /\ n \in Nat /\ Len(q) \in Nat
      /\ DOMAIN p = 1..n /\ DOMAIN q = 1..Len(q)
      /\ DOMAIN (p \o q) = 1..(n + Len(q))
      /\ \A i \in 1..(n + Len(q)) :
           (p \o q)[i] = IF i <= n THEN p[i] ELSE q[i - n]
  BY LenProperties, ConcatProperties
<1>2. IsFiniteSet(P) /\ IsFiniteSet(Q)
  BY ListedType
<1>3. f \in Bijection(Q, Q2)
  <2>1. \A i \in Q : i + n \in Q2
    <3> SUFFICES ASSUME NEW i \in Q PROVE i + n \in Q2
      OBVIOUS
    <3>1. i \in 1..Len(q) /\ q[i] = t
      BY <1>1
    <3>2. i + n \in 1..(n + Len(q)) /\ i + n > n /\ (i + n) - n = i
      BY <1>1, <3>1
    <3>3. (p \o q)[i + n] = q[i]
      BY <1>1, <3>2
    <3> QED
      BY <1>1, <3>1, <3>2, <3>3
  <2>2. \A j \in Q2 : j - n \in Q /\ (j - n) + n = j
    <3> SUFFICES ASSUME NEW j \in Q2 PROVE j - n \in Q /\ (j - n) + n = j
      OBVIOUS
    <3>1. j \in 1..(n + Len(q)) /\ j > n /\ (p \o q)[j] = t
      BY <1>1
    <3>2. j - n \in 1..Len(q) /\ q[j - n] = t /\ (j - n) + n = j
      BY <1>1, <3>1
    <3> QED
      BY <1>1, <3>2
  <2>3. \A i, j \in Q : i + n = j + n => i = j
    BY <1>1
  <2> HIDE DEF n, Q, Q2
  <2>4. f \in [Q -> Q2] /\ DOMAIN f = Q
    BY <2>1
  <2>5. IsInjective(f)
    BY <2>3, <2>4 DEF IsInjective
  <2>6. \A j \in Q2 : \E i \in Q : f[i] = j
    BY <2>2
  <2> QED
    BY <2>4, <2>5, <2>6 DEF Bijection, Injection, Surjection
<1>4. IsFiniteSet(Q2) /\ Cardinality(Q2) = Cardinality(Q)
  <2>1. ExistsBijection(Q, Q2)
    BY <1>3 DEF ExistsBijection
  <2> HIDE DEF Q, Q2
  <2> QED
    BY <1>2, <2>1, FS_Bijection
<1>5. {i \in DOMAIN (p \o q) : (p \o q)[i] = t} = P \cup Q2
  BY <1>1
<1>6. P \cap Q2 = {}
  BY <1>1
<1> HIDE DEF P, Q, Q2
<1>7. Cardinality(P \cup Q2) = Cardinality(P) + Cardinality(Q2) - Cardinality({})
  BY <1>2, <1>4, <1>6, FS_Union
<1>8. Cardinality(P) \in Nat /\ Cardinality(Q2) \in Nat /\ Cardinality({}) = 0
  BY <1>2, <1>4, FS_CardinalityType, FS_EmptySet
<1>9. Cardinality(P \cup Q2) = Cardinality(P) + Cardinality(Q)
  BY <1>4, <1>7, <1>8
<1> QED
  BY <1>5, <1>9 DEF Listed, P, Q

\* Appending and prepending add one occurrence.
LEMMA ListedAppend ==
  ASSUME NEW S, NEW q \in Seq(S), NEW u \in S, NEW t
  PROVE  /\ Append(q, u) \in Seq(S)
         /\ Listed(Append(q, u), t) = Listed(q, t) + (IF t = u THEN 1 ELSE 0)
<1>1. <<u>> \in Seq(S)
  OBVIOUS
<1>2. Append(q, u) = q \o <<u>> /\ Append(q, u) \in Seq(S)
  BY AppendIsConcat
<1>3. Listed(q \o <<u>>, t) = Listed(q, t) + Listed(<<u>>, t)
  BY <1>1, ListedConcat
<1>4. Listed(<<u>>, t) = IF t = u THEN 1 ELSE 0
  BY ListedFew
<1> QED
  BY <1>2, <1>3, <1>4

LEMMA ListedPrepend ==
  ASSUME NEW S, NEW q \in Seq(S), NEW u \in S, NEW t
  PROVE  /\ <<u>> \o q \in Seq(S)
         /\ Listed(<<u>> \o q, t) = Listed(q, t) + (IF t = u THEN 1 ELSE 0)
<1>1. <<u>> \in Seq(S)
  OBVIOUS
<1>2. <<u>> \o q \in Seq(S)
  BY <1>1, ConcatProperties
<1>3. Listed(<<u>> \o q, t) = Listed(<<u>>, t) + Listed(q, t)
  BY <1>1, ListedConcat
<1>4. Listed(q, t) \in Nat /\ Listed(<<u>>, t) = IF t = u THEN 1 ELSE 0
  BY ListedFew, ListedType
<1> QED
  BY <1>2, <1>3, <1>4

\* Taking the first element away takes one occurrence away.
LEMMA ListedTail ==
  ASSUME NEW S, NEW q \in Seq(S), q # <<>>, NEW t
  PROVE  /\ Head(q) \in S /\ Tail(q) \in Seq(S)
         /\ Listed(q, t) = Listed(Tail(q), t) + (IF t = Head(q) THEN 1 ELSE 0)
<1>1. Head(q) \in S /\ Tail(q) \in Seq(S)
  BY HeadTailProperties
<1>2. q = <<Head(q)>> \o Tail(q)
  OBVIOUS
<1>3. Listed(<<Head(q)>> \o Tail(q), t) = Listed(Tail(q), t) + (IF t = Head(q) THEN 1 ELSE 0)
  <2> DEFINE u == Head(q)
             p == Tail(q)
  <2>1. u \in S /\ p \in Seq(S)
    BY <1>1
  <2> HIDE DEF u, p
  <2>2. Listed(<<u>> \o p, t) = Listed(p, t) + (IF t = u THEN 1 ELSE 0)
    BY <2>1, ListedPrepend
  <2> QED
    BY <2>2 DEF u, p
<1> QED
  BY <1>1, <1>2, <1>3

\* A task that occurs once has one place.
LEMMA ListedOnce ==
  ASSUME NEW S, NEW q \in Seq(S), NEW i \in DOMAIN q, NEW j \in DOMAIN q,
         q[i] = q[j], Listed(q, q[i]) <= 1
  PROVE  i = j
<1> DEFINE at == {k \in DOMAIN q : q[k] = q[i]}
<1> SUFFICES ASSUME i # j PROVE FALSE
  OBVIOUS
<1>1. IsFiniteSet(at) /\ {i, j} \subseteq at
  BY ListedType
<1>2. IsFiniteSet({i}) /\ Cardinality({i}) = 1
  BY FS_Singleton
<1>3. Cardinality({i} \cup {j}) = 2
  <2> DEFINE I == {i}
  <2>1. IsFiniteSet(I) /\ Cardinality(I) = 1 /\ j \notin I
    BY <1>2
  <2> HIDE DEF I
  <2>2. Cardinality(I \cup {j}) = Cardinality(I) + 1
    BY <2>1, FS_AddElement
  <2>3. Cardinality(I \cup {j}) = 2
    BY <2>1, <2>2
  <2>4. I \cup {j} = {i} \cup {j}
    BY DEF I
  <2> QED
    BY <2>3, <2>4
<1>4. {i} \cup {j} = {i, j}
  OBVIOUS
<1>5. Cardinality({i, j}) <= Cardinality(at) /\ Cardinality(at) \in Nat
  BY <1>1, FS_Subset, FS_CardinalityType
<1>6. Cardinality(at) <= 1
  BY DEF Listed
<1> QED
  BY <1>3, <1>4, <1>5, <1>6

\* Only() goes through the list from the front.
LEMMA OnlyIs ==
  ASSUME NEW S, NEW q \in Seq(S), NEW P
  PROVE  \E f : /\ Only(q, P) = f[Len(q)] /\ f[0] = <<>>
                /\ \A i \in 1..Len(q) :
                     f[i] = IF q[i] \in P THEN Append(f[i - 1], q[i]) ELSE f[i - 1]
<1> DEFINE D(g, n) ==
             [i \in 0..n |-> IF i = 0 THEN <<>>
                ELSE IF q[i] \in P THEN Append(g[i - 1], q[i]) ELSE g[i - 1]]
           T == {n \in Nat : ~\E g : g = D(g, n)}
<1>1. T = {}
  <2> SUFFICES ASSUME T # {} PROVE FALSE
    OBVIOUS
  <2>1. PICK n \in T : \A m \in T : n <= m
    BY NatMin
  <2>2. n # 0
    <3> DEFINE g == [i \in 0..0 |-> <<>>]
    <3>1. g = D(g, 0)
      OBVIOUS
    <3> QED
      BY <3>1
  <2>3. n - 1 \in Nat /\ n - 1 \notin T
    <3>1. n \in Nat /\ n - 1 \in Nat /\ ~(n <= n - 1)
      BY <2>2
    <3> HIDE DEF T
    <3> QED
      BY <2>1, <3>1
  <2>4. PICK g : g = D(g, n - 1)
    BY <2>3
  <2> DEFINE e == IF q[n] \in P THEN Append(g[n - 1], q[n]) ELSE g[n - 1]
             h == [i \in 0..n |-> IF i < n THEN g[i] ELSE e]
  <2>5. h = D(h, n)
    <3>1. \A i \in 0..n : h[i] = D(h, n)[i]
      <4> SUFFICES ASSUME NEW i \in 0..n PROVE h[i] = D(h, n)[i]
        OBVIOUS
      <4> HIDE DEF e
      <4>1. CASE i = 0
        BY <2>2, <2>3, <2>4, <4>1
      <4>2. CASE i # 0 /\ i < n
        <5>1. i \in 0..(n - 1) /\ i - 1 \in 0..n /\ i - 1 < n
          BY <2>3, <4>2
        <5>2. h[i] = g[i] /\ h[i - 1] = g[i - 1]
          BY <5>1, <4>2
        <5>3. g[i] = D(g, n - 1)[i]
          BY <2>4
        <5> QED
          BY <4>2, <5>1, <5>2, <5>3
      <4>3. CASE i = n
        <5>1. n - 1 \in 0..n /\ n - 1 < n /\ n \in 0..n
          BY <2>1, <2>2
        <5>2. h[n] = e /\ h[n - 1] = g[n - 1]
          BY <5>1
        <5> QED
          BY <2>2, <4>3, <5>1, <5>2 DEF e
      <4> QED
        BY <4>1, <4>2, <4>3
    <3> HIDE DEF e
    <3> QED
      BY <3>1
  <2> QED
    BY <2>1, <2>5
<1> DEFINE f == CHOOSE f : f = D(f, Len(q))
<1>2. Len(q) \in Nat
  BY LenProperties
<1>3. \E g : g = D(g, Len(q))
  BY <1>1, <1>2
<1>4. f = D(f, Len(q))
  BY <1>3
<1>5. Only(q, P) = f[Len(q)]
  BY DEF Only
<1> HIDE DEF f
<1>6. f[0] = <<>>
  BY <1>2, <1>4
<1>7. ASSUME NEW i \in 1..Len(q)
      PROVE  f[i] = IF q[i] \in P THEN Append(f[i - 1], q[i]) ELSE f[i - 1]
  <2>1. i \in 0..Len(q) /\ i # 0
    BY <1>2
  <2>2. f[i] = D(f, Len(q))[i]
    BY <1>4
  <2> QED
    BY <2>1, <2>2
<1> QED
  BY <1>5, <1>6, <1>7

\* Only() keeps what is in the set, as often as it occurs.
LEMMA ListedOnly ==
  ASSUME NEW S, NEW q \in Seq(S), NEW P, NEW t
  PROVE  /\ Only(q, P) \in Seq(S)
         /\ Listed(Only(q, P), t) = IF t \in P THEN Listed(q, t) ELSE 0
<1>1. PICK f : /\ Only(q, P) = f[Len(q)] /\ f[0] = <<>>
               /\ \A i \in 1..Len(q) :
                    f[i] = IF q[i] \in P THEN Append(f[i - 1], q[i]) ELSE f[i - 1]
  BY OnlyIs
<1> DEFINE Good(i) ==
             /\ f[i] \in Seq(S) /\ SubSeq(q, 1, i) \in Seq(S)
             /\ Listed(f[i], t) = IF t \in P THEN Listed(SubSeq(q, 1, i), t) ELSE 0
           T == {i \in 0..Len(q) : ~Good(i)}
<1>2. Len(q) \in Nat /\ SubSeq(q, 1, Len(q)) = q
  BY LenProperties, SubSeqFull
<1>3. T = {}
  <2> SUFFICES ASSUME T # {} PROVE FALSE
    OBVIOUS
  <2>1. PICK n \in T : \A m \in T : n <= m
    <3>1. T \in SUBSET Nat
      BY <1>2
    <3> HIDE DEF T
    <3> QED
      BY <3>1, NatMin
  <2>2. n # 0
    <3>1. SubSeq(q, 1, 0) = <<>>
      BY SubSeqEmpty
    <3>2. <<>> \in Seq(S)
      OBVIOUS
    <3>3. Listed(<<>>, t) = 0
      BY ListedFew
    <3>4. Good(0)
      BY <1>1, <3>1, <3>2, <3>3
    <3> QED
      BY <3>4
  <2>3. n \in 1..Len(q) /\ n - 1 \in 0..Len(q) /\ n - 1 \notin T
    <3>1. n \in 1..Len(q) /\ n - 1 \in 0..Len(q) /\ ~(n <= n - 1)
      BY <1>2, <2>2
    <3> HIDE DEF T
    <3> QED
      BY <2>1, <3>1
  <2>4. Good(n - 1)
    BY <2>3
  <2>5. q[n] \in S
    BY <2>3, ElementOfSeq
  <2>6. SubSeq(q, 1, n) = Append(SubSeq(q, 1, n - 1), q[n])
    <3>1. SubSeq(q, 1, n) = SubSeq(q, 1, n - 1) \o <<q[n]>>
      <4>1. 1 \in 1..Len(q)
        BY <1>2, <2>3
      <4> QED
        BY <2>3, <4>1, SubSeqRecursiveSecond
    <3> QED
      BY <2>4, <2>5, <3>1, AppendIsConcat
  <2> DEFINE p == SubSeq(q, 1, n - 1)
             a == f[n - 1]
  <2>7. p \in Seq(S) /\ a \in Seq(S) /\ Listed(a, t) = IF t \in P THEN Listed(p, t) ELSE 0
    BY <2>4
  <2>8. SubSeq(q, 1, n) = Append(p, q[n]) /\ f[n] = IF q[n] \in P THEN Append(a, q[n]) ELSE a
    BY <1>1, <2>3, <2>6
  <2> HIDE DEF p, a
  <2>9. /\ Append(p, q[n]) \in Seq(S) /\ Append(a, q[n]) \in Seq(S)
        /\ Listed(Append(p, q[n]), t) = Listed(p, t) + (IF t = q[n] THEN 1 ELSE 0)
        /\ Listed(Append(a, q[n]), t) = Listed(a, t) + (IF t = q[n] THEN 1 ELSE 0)
    <3> DEFINE u == q[n]
    <3>1. u \in S
      BY <2>5
    <3> HIDE DEF u
    <3>2. p \in Seq(S) /\ a \in Seq(S)
      BY <2>7
    <3>3. /\ Append(p, u) \in Seq(S)
          /\ Listed(Append(p, u), t) = Listed(p, t) + (IF t = u THEN 1 ELSE 0)
      BY <3>1, <3>2, ListedAppend
    <3>4. /\ Append(a, u) \in Seq(S)
          /\ Listed(Append(a, u), t) = Listed(a, t) + (IF t = u THEN 1 ELSE 0)
      BY <3>1, <3>2, ListedAppend
    <3> QED
      BY <3>3, <3>4 DEF u
  <2>10. Listed(p, t) \in Nat
    BY <2>7, ListedType
  <2>11. Good(n)
    <3> DEFINE b == SubSeq(q, 1, n)
               d == f[n]
    <3>1. b = Append(p, q[n]) /\ d = IF q[n] \in P THEN Append(a, q[n]) ELSE a
      BY <2>8
    <3> HIDE DEF b, d
    <3>2. b \in Seq(S) /\ d \in Seq(S)
      BY <2>7, <2>9, <3>1
    <3>3. Listed(d, t) = IF t \in P THEN Listed(b, t) ELSE 0
      <4>1. CASE q[n] \in P
        BY <2>7, <2>9, <2>10, <3>1, <4>1
      <4>2. CASE q[n] \notin P
        BY <2>7, <2>9, <2>10, <3>1, <4>2
      <4> QED
        BY <4>1, <4>2
    <3> QED
      BY <3>2, <3>3 DEF b, d
  <2> QED
    BY <2>1, <2>11
<1>4. Good(Len(q))
  BY <1>2, <1>3
<1> QED
  BY <1>1, <1>2, <1>4

\* Nothing is left of nothing.
LEMMA OnlyNothing ==
  ASSUME NEW q \in Seq({}), NEW R
  PROVE  q = <<>> /\ Only(q, R) = <<>> /\ Without(q, R) = <<>>
<1>1. q = <<>> /\ Len(q) = 0
  BY EmptySeq, LenProperties
<1>2. ASSUME NEW P PROVE Only(q, P) = <<>>
  <2>1. PICK f : Only(q, P) = f[Len(q)] /\ f[0] = <<>>
    BY OnlyIs
  <2> QED
    BY <1>1, <2>1
<1> QED
  BY <1>1, <1>2 DEF Without

\* A list without x holds everything else as often as before.
LEMMA ListedWithout ==
  ASSUME NEW S, NEW q \in Seq(S), NEW x, NEW t
  PROVE  /\ Without(q, x) \in Seq(S)
         /\ Listed(Without(q, x), t) = IF t = x THEN 0 ELSE Listed(q, t)
<1> DEFINE P == ToSet(q) \ {x}
<1>1. /\ Only(q, P) \in Seq(S)
      /\ Listed(Only(q, P), t) = IF t \in P THEN Listed(q, t) ELSE 0
  <2> HIDE DEF P
  <2> QED
    BY ListedOnly
<1>2. Listed(q, t) \in Nat /\ (Listed(q, t) > 0 <=> t \in ToSet(q))
  BY ListedType
<1> QED
  BY <1>1, <1>2 DEF Without

LEMMA ToSetWithout ==
  ASSUME NEW S, NEW q \in Seq(S), NEW x
  PROVE  ToSet(Without(q, x)) = ToSet(q) \ {x}
<1> DEFINE r == Without(q, x)
<1>1. r \in Seq(S)
  BY ListedWithout
<1>2. \A t : t \in ToSet(r) <=> t \in ToSet(q) /\ t # x
  <2> SUFFICES ASSUME NEW t PROVE t \in ToSet(r) <=> t \in ToSet(q) /\ t # x
    OBVIOUS
  <2>1. Listed(r, t) = IF t = x THEN 0 ELSE Listed(q, t)
    BY ListedWithout
  <2>2. Listed(q, t) > 0 <=> t \in ToSet(q)
    BY ListedType
  <2> HIDE DEF r
  <2>3. Listed(r, t) > 0 <=> t \in ToSet(r)
    BY <1>1, ListedType
  <2> QED
    BY <2>1, <2>2, <2>3
<1> HIDE DEF r
<1>3. ToSet(r) = ToSet(q) \ {x}
  BY <1>2
<1> QED
  BY <1>3 DEF r

LEMMA ToSetAppend ==
  ASSUME NEW S, NEW q \in Seq(S), NEW x \in S
  PROVE  ToSet(Append(q, x)) = ToSet(q) \cup {x} /\ Append(q, x) \in Seq(S)
<1> DEFINE r == Append(q, x)
<1>1. r \in Seq(S)
  BY ListedAppend
<1>2. \A t : t \in ToSet(r) <=> t \in ToSet(q) \/ t = x
  <2> SUFFICES ASSUME NEW t PROVE t \in ToSet(r) <=> t \in ToSet(q) \/ t = x
    OBVIOUS
  <2>1. Listed(r, t) = Listed(q, t) + (IF t = x THEN 1 ELSE 0)
    BY ListedAppend
  <2>2. Listed(q, t) \in Nat /\ (Listed(q, t) > 0 <=> t \in ToSet(q))
    BY ListedType
  <2> HIDE DEF r
  <2>3. Listed(r, t) > 0 <=> t \in ToSet(r)
    BY <1>1, ListedType
  <2> QED
    BY <2>1, <2>2, <2>3
<1> HIDE DEF r
<1>3. ToSet(r) = ToSet(q) \cup {x}
  BY <1>2
<1> QED
  BY <1>1, <1>3 DEF r

\* FirstOf() finds a member of the list that is in the set.
LEMMA FirstOfIs ==
  ASSUME NEW q \in Seq(Frames), NEW P
  PROVE  /\ FirstOf(q, P) \in Frames \cup {NoTask}
         /\ FirstOf(q, P) # NoTask =>
              FirstOf(q, P) \in P /\ Listed(q, FirstOf(q, P)) > 0
<1> DEFINE I == {i \in 1..Len(q) : q[i] \in P}
<1>1. FirstOf(q, P) = IF (IF I # {} THEN Min(I) ELSE 0) = 0 THEN NoTask
                      ELSE q[IF I # {} THEN Min(I) ELSE 0]
  BY DEF FirstOf, SelectInSeq
<1>2. ASSUME I # {} PROVE Min(I) \in I
  <2>1. I \in SUBSET Nat
    BY LenProperties
  <2> HIDE DEF I
  <2>2. \E n \in I : \A m \in I : n <= m
    BY <1>2, <2>1, NatMin
  <2> QED
    BY <2>2 DEF Min
<1> DEFINE n == Min(I)
<1>3. CASE I = {}
  BY <1>1, <1>3
<1>4. CASE I # {}
  <2>1. n \in 1..Len(q) /\ q[n] \in P /\ n # 0
    BY <1>2, <1>4, LenProperties
  <2>2. FirstOf(q, P) = q[n]
    BY <1>1, <1>4, <2>1
  <2> HIDE DEF n
  <2>3. q[n] \in Frames /\ n \in DOMAIN q
    BY <2>1, ElementOfSeq, LenProperties
  <2>4. Listed(q, q[n]) > 0
    BY <2>3, ListedType
  <2> QED
    BY <2>1, <2>2, <2>3, <2>4
<1> QED
  BY <1>3, <1>4

\* There is a best one, and of equals a first.
LEMMA BestExists ==
  ASSUME NEW n \in Nat, NEW D \in SUBSET (1..n), D # {}, NEW p,
         \A i \in D : p[i] \in Int
  PROVE  \E i \in D : \A j \in D : p[j] < p[i] \/ (p[j] = p[i] /\ i <= j)
<1> DEFINE Best(E) == \E i \in E : \A j \in E : p[j] < p[i] \/ (p[j] = p[i] /\ i <= j)
           Till(k) == {i \in D : i <= k}
           T == {k \in Nat : Till(k) # {} /\ ~Best(Till(k))}
<1>0. \A i \in D : i \in Nat /\ i >= 1 /\ i <= n
  OBVIOUS
<1>1. T = {}
  <2> SUFFICES ASSUME T # {} PROVE FALSE
    OBVIOUS
  <2>1. PICK k \in T : \A m \in T : k <= m
    BY NatMin
  <2>2. k \in Nat /\ Till(k) # {} /\ ~Best(Till(k))
    OBVIOUS
  <2>3. k \in D /\ k # 0
    <3>1. CASE k = 0
      <4>1. \A i \in D : ~(i <= k)
        BY <1>0, <3>1
      <4>2. Till(k) = {}
        BY <4>1
      <4> QED
        BY <2>2, <4>2
    <3>2. CASE k # 0 /\ k \notin D
      <4>1. k - 1 \in Nat /\ Till(k - 1) = Till(k)
        <5>1. k - 1 \in Nat
          BY <2>2, <3>2
        <5>2. \A i \in D : i <= k - 1 <=> i <= k
          BY <1>0, <2>2, <3>2
        <5> QED
          BY <5>1, <5>2
      <4>2. k - 1 \in T
        BY <2>2, <4>1
      <4>3. ~(k <= k - 1)
        BY <2>2
      <4> HIDE DEF T
      <4> QED
        BY <2>1, <4>2, <4>3
    <3> QED
      BY <3>1, <3>2
  <2>4. k - 1 \in Nat /\ Till(k) = Till(k - 1) \cup {k} /\ k - 1 \notin T
    <3>1. k - 1 \in Nat /\ ~(k <= k - 1) /\ Till(k) = Till(k - 1) \cup {k}
      <4>1. k - 1 \in Nat /\ ~(k <= k - 1)
        BY <2>2, <2>3
      <4>2. \A i \in D : i <= k <=> i <= k - 1 \/ i = k
        BY <1>0, <2>2, <2>3
      <4> QED
        BY <2>3, <4>1, <4>2
    <3> HIDE DEF T
    <3> QED
      BY <2>1, <3>1
  <2>5. CASE Till(k - 1) = {}
    <3>1. Till(k) = {k}
      BY <2>4, <2>5
    <3>2. Best({k})
      BY <2>2, <2>3
    <3> QED
      BY <2>2, <3>1, <3>2
  <2>6. CASE Till(k - 1) # {}
    <3>1. PICK i \in Till(k - 1) :
            \A j \in Till(k - 1) : p[j] < p[i] \/ (p[j] = p[i] /\ i <= j)
      BY <2>4, <2>6
    <3>2. i \in D /\ i <= k - 1 /\ p[i] \in Int /\ p[k] \in Int
      BY <2>3, <3>1
    <3>3. CASE p[i] >= p[k]
      <4>1. \A j \in Till(k) : p[j] < p[i] \/ (p[j] = p[i] /\ i <= j)
        BY <1>0, <2>2, <2>3, <2>4, <3>1, <3>2, <3>3
      <4> QED
        BY <2>2, <2>4, <4>1
    <3>4. CASE p[i] < p[k]
      <4>1. \A j \in Till(k) : p[j] < p[k] \/ (p[j] = p[k] /\ k <= j)
        BY <1>0, <2>2, <2>3, <2>4, <3>1, <3>2, <3>4
      <4> QED
        BY <2>2, <2>4, <4>1
    <3> QED
      BY <3>2, <3>3, <3>4
  <2> QED
    BY <2>5, <2>6
<1>2. Till(n) = D
  BY <1>0
<1>3. ~(Till(n) # {} /\ ~Best(Till(n)))
  BY <1>1
<1> QED
  BY <1>2, <1>3

LEMMA BestOfIs ==
  ASSUME NEW S, NEW q \in Seq(S), NEW p, DOMAIN p \subseteq DOMAIN q,
         \A i \in DOMAIN p : p[i] \in Int
  PROVE  BestOf(q, p) = Nobody \/ \E i \in DOMAIN p : BestOf(q, p) = q[i]
<1>1. CASE DOMAIN p = {}
  BY <1>1 DEF BestOf
<1>2. CASE DOMAIN p # {}
  <2>1. Len(q) \in Nat /\ DOMAIN p \in SUBSET (1..Len(q))
    BY LenProperties
  <2>2. \E i \in DOMAIN p : \A j \in DOMAIN p : p[j] < p[i] \/ (p[j] = p[i] /\ i <= j)
    BY <1>2, <2>1, BestExists
  <2> QED
    BY <1>2, <2>2 DEF BestOf
<1> QED
  BY <1>1, <1>2

----------------------------------------------------------------------------
(* The members and their types *)

\* The members have the types their declarations give them.
LEMMA Read ==
  ASSUME NEW s \in Server
  PROVE
    /\ s.todo \in Seq(Frames)
    /\ s.proc \in Seq(Frames)
    /\ s.done \in Seq(Frames)
    /\ s.stage \in [Frames -> Stages]
    /\ s.rtes \in [Frames -> Results]
    /\ s.ftes \in [Frames -> Results]
    /\ s.ldrc \in [Frames -> Clients \cup {Nobody}]
    /\ s.parts \in [Frames -> SUBSET Kinds]
    /\ s.recalled \in SUBSET Frames
    /\ s.sfs \in Frames \cup {NoTask}
    /\ s.free \in Clients \cup {Nobody}
    /\ s.list \in Seq(Clients)
    /\ s.cl \in [Clients -> ClientRecord]
    /\ s.recon \in [Clients -> 0..2]
    /\ s.trigger \in BOOLEAN
    /\ s.noRecon \in BOOLEAN
    /\ s.started \in BOOLEAN
    /\ s.shallQuit \in BOOLEAN
    /\ s.dsmt \in BOOLEAN
    /\ s.sq \in 0..2
    /\ s.sqa \in 0..1
    /\ s.kill \in BOOLEAN
    /\ s.caught \in 0..2
    /\ s.toldIf \in BOOLEAN
    /\ s.toldTs \in BOOLEAN
    /\ s.tight \in BOOLEAN
    /\ s.ess \in Runs
    /\ s.connected \in BOOLEAN
    /\ s.pending \in Actions
    /\ s.tsgod \in Actions
    /\ s.tdaf \in BOOLEAN
    /\ s.next \in Nat \ {0}
    /\ s.srcDone \in Frames \cup {NoTask}
    /\ s.tid0 \in BOOLEAN
    /\ s.quitStep \in 0..5
    /\ s.crash \in {"none", "assert", "clients", "leftover"}
  BY DEF Server

\* A member may be replaced by any value of its type.
LEMMA Write ==
  ASSUME NEW s \in Server
  PROVE
    /\ \A v \in Seq(Frames) : [s EXCEPT !.todo = v] \in Server
    /\ \A v \in Seq(Frames) : [s EXCEPT !.proc = v] \in Server
    /\ \A v \in Seq(Frames) : [s EXCEPT !.done = v] \in Server
    /\ \A v \in [Frames -> Stages] : [s EXCEPT !.stage = v] \in Server
    /\ \A v \in [Frames -> Results] : [s EXCEPT !.rtes = v] \in Server
    /\ \A v \in [Frames -> Results] : [s EXCEPT !.ftes = v] \in Server
    /\ \A v \in [Frames -> Clients \cup {Nobody}] : [s EXCEPT !.ldrc = v] \in Server
    /\ \A v \in [Frames -> SUBSET Kinds] : [s EXCEPT !.parts = v] \in Server
    /\ \A v \in SUBSET Frames : [s EXCEPT !.recalled = v] \in Server
    /\ \A v \in Frames \cup {NoTask} : [s EXCEPT !.sfs = v] \in Server
    /\ \A v \in Clients \cup {Nobody} : [s EXCEPT !.free = v] \in Server
    /\ \A v \in Seq(Clients) : [s EXCEPT !.list = v] \in Server
    /\ \A v \in [Clients -> ClientRecord] : [s EXCEPT !.cl = v] \in Server
    /\ \A v \in [Clients -> 0..2] : [s EXCEPT !.recon = v] \in Server
    /\ \A v \in BOOLEAN : [s EXCEPT !.trigger = v] \in Server
    /\ \A v \in BOOLEAN : [s EXCEPT !.noRecon = v] \in Server
    /\ \A v \in BOOLEAN : [s EXCEPT !.started = v] \in Server
    /\ \A v \in BOOLEAN : [s EXCEPT !.shallQuit = v] \in Server
    /\ \A v \in BOOLEAN : [s EXCEPT !.dsmt = v] \in Server
    /\ \A v \in 0..2 : [s EXCEPT !.sq = v] \in Server
    /\ \A v \in 0..1 : [s EXCEPT !.sqa = v] \in Server
    /\ \A v \in BOOLEAN : [s EXCEPT !.kill = v] \in Server
    /\ \A v \in 0..2 : [s EXCEPT !.caught = v] \in Server
    /\ \A v \in BOOLEAN : [s EXCEPT !.toldIf = v] \in Server
    /\ \A v \in BOOLEAN : [s EXCEPT !.toldTs = v] \in Server
    /\ \A v \in BOOLEAN : [s EXCEPT !.tight = v] \in Server
    /\ \A v \in Runs : [s EXCEPT !.ess = v] \in Server
    /\ \A v \in BOOLEAN : [s EXCEPT !.connected = v] \in Server
    /\ \A v \in Actions : [s EXCEPT !.pending = v] \in Server
    /\ \A v \in Actions : [s EXCEPT !.tsgod = v] \in Server
    /\ \A v \in BOOLEAN : [s EXCEPT !.tdaf = v] \in Server
    /\ \A v \in Nat \ {0} : [s EXCEPT !.next = v] \in Server
    /\ \A v \in Frames \cup {NoTask} : [s EXCEPT !.srcDone = v] \in Server
    /\ \A v \in BOOLEAN : [s EXCEPT !.tid0 = v] \in Server
    /\ \A v \in 0..5 : [s EXCEPT !.quitStep = v] \in Server
    /\ \A v \in {"none", "assert", "clients", "leftover"} : [s EXCEPT !.crash = v] \in Server
<1>1. \A v \in Seq(Frames) : [s EXCEPT !.todo = v] \in Server
  BY ZenonT(60) DEF Server
<1>2. \A v \in Seq(Frames) : [s EXCEPT !.proc = v] \in Server
  BY ZenonT(60) DEF Server
<1>3. \A v \in Seq(Frames) : [s EXCEPT !.done = v] \in Server
  BY ZenonT(60) DEF Server
<1>4. \A v \in [Frames -> Stages] : [s EXCEPT !.stage = v] \in Server
  BY ZenonT(60) DEF Server
<1>5. \A v \in [Frames -> Results] : [s EXCEPT !.rtes = v] \in Server
  BY ZenonT(60) DEF Server
<1>6. \A v \in [Frames -> Results] : [s EXCEPT !.ftes = v] \in Server
  BY ZenonT(60) DEF Server
<1>7. \A v \in [Frames -> Clients \cup {Nobody}] : [s EXCEPT !.ldrc = v] \in Server
  BY ZenonT(60) DEF Server
<1>8. \A v \in [Frames -> SUBSET Kinds] : [s EXCEPT !.parts = v] \in Server
  BY ZenonT(60) DEF Server
<1>9. \A v \in SUBSET Frames : [s EXCEPT !.recalled = v] \in Server
  BY ZenonT(60) DEF Server
<1>10. \A v \in Frames \cup {NoTask} : [s EXCEPT !.sfs = v] \in Server
  BY ZenonT(60) DEF Server
<1>11. \A v \in Clients \cup {Nobody} : [s EXCEPT !.free = v] \in Server
  BY ZenonT(60) DEF Server
<1>12. \A v \in Seq(Clients) : [s EXCEPT !.list = v] \in Server
  BY ZenonT(60) DEF Server
<1>13. \A v \in [Clients -> ClientRecord] : [s EXCEPT !.cl = v] \in Server
  BY ZenonT(60) DEF Server
<1>14. \A v \in [Clients -> 0..2] : [s EXCEPT !.recon = v] \in Server
  BY ZenonT(60) DEF Server
<1>15. \A v \in BOOLEAN : [s EXCEPT !.trigger = v] \in Server
  BY ZenonT(60) DEF Server
<1>16. \A v \in BOOLEAN : [s EXCEPT !.noRecon = v] \in Server
  BY ZenonT(60) DEF Server
<1>17. \A v \in BOOLEAN : [s EXCEPT !.started = v] \in Server
  BY ZenonT(60) DEF Server
<1>18. \A v \in BOOLEAN : [s EXCEPT !.shallQuit = v] \in Server
  BY ZenonT(60) DEF Server
<1>19. \A v \in BOOLEAN : [s EXCEPT !.dsmt = v] \in Server
  BY ZenonT(60) DEF Server
<1>20. \A v \in 0..2 : [s EXCEPT !.sq = v] \in Server
  BY ZenonT(60) DEF Server
<1>21. \A v \in 0..1 : [s EXCEPT !.sqa = v] \in Server
  BY ZenonT(60) DEF Server
<1>22. \A v \in BOOLEAN : [s EXCEPT !.kill = v] \in Server
  BY ZenonT(60) DEF Server
<1>23. \A v \in 0..2 : [s EXCEPT !.caught = v] \in Server
  BY ZenonT(60) DEF Server
<1>24. \A v \in BOOLEAN : [s EXCEPT !.toldIf = v] \in Server
  BY ZenonT(60) DEF Server
<1>25. \A v \in BOOLEAN : [s EXCEPT !.toldTs = v] \in Server
  BY ZenonT(60) DEF Server
<1>26. \A v \in BOOLEAN : [s EXCEPT !.tight = v] \in Server
  BY ZenonT(60) DEF Server
<1>27. \A v \in Runs : [s EXCEPT !.ess = v] \in Server
  BY ZenonT(60) DEF Server
<1>28. \A v \in BOOLEAN : [s EXCEPT !.connected = v] \in Server
  BY ZenonT(60) DEF Server
<1>29. \A v \in Actions : [s EXCEPT !.pending = v] \in Server
  BY ZenonT(60) DEF Server
<1>30. \A v \in Actions : [s EXCEPT !.tsgod = v] \in Server
  BY ZenonT(60) DEF Server
<1>31. \A v \in BOOLEAN : [s EXCEPT !.tdaf = v] \in Server
  BY ZenonT(60) DEF Server
<1>32. \A v \in Nat \ {0} : [s EXCEPT !.next = v] \in Server
  BY ZenonT(60) DEF Server
<1>33. \A v \in Frames \cup {NoTask} : [s EXCEPT !.srcDone = v] \in Server
  BY ZenonT(60) DEF Server
<1>34. \A v \in BOOLEAN : [s EXCEPT !.tid0 = v] \in Server
  BY ZenonT(60) DEF Server
<1>35. \A v \in 0..5 : [s EXCEPT !.quitStep = v] \in Server
  BY ZenonT(60) DEF Server
<1>36. \A v \in {"none", "assert", "clients", "leftover"} : [s EXCEPT !.crash = v] \in Server
  BY ZenonT(60) DEF Server
<1> QED
  BY <1>1, <1>2, <1>3, <1>4, <1>5, <1>6, <1>7, <1>8, <1>9, <1>10, <1>11,
     <1>12, <1>13, <1>14, <1>15, <1>16, <1>17, <1>18, <1>19, <1>20, <1>21,
     <1>22, <1>23, <1>24, <1>25, <1>26, <1>27, <1>28, <1>29, <1>30, <1>31,
     <1>32, <1>33, <1>34, <1>35, <1>36

\* What is written can be read.
LEMMA Written ==
  ASSUME NEW s \in Server, NEW v
  PROVE
    /\ [s EXCEPT !.todo = v].todo = v
    /\ [s EXCEPT !.proc = v].proc = v
    /\ [s EXCEPT !.done = v].done = v
    /\ [s EXCEPT !.stage = v].stage = v
    /\ [s EXCEPT !.rtes = v].rtes = v
    /\ [s EXCEPT !.ftes = v].ftes = v
    /\ [s EXCEPT !.ldrc = v].ldrc = v
    /\ [s EXCEPT !.parts = v].parts = v
    /\ [s EXCEPT !.recalled = v].recalled = v
    /\ [s EXCEPT !.sfs = v].sfs = v
    /\ [s EXCEPT !.free = v].free = v
    /\ [s EXCEPT !.list = v].list = v
    /\ [s EXCEPT !.cl = v].cl = v
    /\ [s EXCEPT !.recon = v].recon = v
    /\ [s EXCEPT !.trigger = v].trigger = v
    /\ [s EXCEPT !.noRecon = v].noRecon = v
    /\ [s EXCEPT !.started = v].started = v
    /\ [s EXCEPT !.shallQuit = v].shallQuit = v
    /\ [s EXCEPT !.dsmt = v].dsmt = v
    /\ [s EXCEPT !.sq = v].sq = v
    /\ [s EXCEPT !.sqa = v].sqa = v
    /\ [s EXCEPT !.kill = v].kill = v
    /\ [s EXCEPT !.caught = v].caught = v
    /\ [s EXCEPT !.toldIf = v].toldIf = v
    /\ [s EXCEPT !.toldTs = v].toldTs = v
    /\ [s EXCEPT !.tight = v].tight = v
    /\ [s EXCEPT !.ess = v].ess = v
    /\ [s EXCEPT !.connected = v].connected = v
    /\ [s EXCEPT !.pending = v].pending = v
    /\ [s EXCEPT !.tsgod = v].tsgod = v
    /\ [s EXCEPT !.tdaf = v].tdaf = v
    /\ [s EXCEPT !.next = v].next = v
    /\ [s EXCEPT !.srcDone = v].srcDone = v
    /\ [s EXCEPT !.tid0 = v].tid0 = v
    /\ [s EXCEPT !.quitStep = v].quitStep = v
    /\ [s EXCEPT !.crash = v].crash = v
  BY DEF Server

----------------------------------------------------------------------------
(* What the manager does without moving a task *)

\* The places of a task are a number.
LEMMA PlacesType ==
  ASSUME NEW s \in Server, NEW t
  PROVE  /\ Listed(s.todo, t) \in Nat /\ Listed(s.proc, t) \in Nat
         /\ Listed(s.done, t) \in Nat /\ Times(s.srcDone = t) \in {0, 1}
         /\ Places(s, t) \in Nat
<1>1. Listed(s.todo, t) \in Nat
  BY Read, ListedType
<1>2. Listed(s.proc, t) \in Nat
  BY Read, ListedType
<1>3. Listed(s.done, t) \in Nat
  BY Read, ListedType
<1>4. Times(s.srcDone = t) \in {0, 1}
  BY DEF Times
<1> QED
  BY <1>1, <1>2, <1>3, <1>4 DEF Places

\* Members are tame to themselves, and tame steps make a tame step.
LEMMA StillSelf ==
  ASSUME NEW s \in Server PROVE Still(s, s) /\ Tame(s, s)
<1>1. \A t \in Frames : Listed(s.todo, t) \in Nat
  BY PlacesType
<1> QED
  BY <1>1 DEF Still, Tame

LEMMA StillTrans ==
  ASSUME NEW s \in Server, NEW r \in Server, NEW q \in Server,
         Still(s, r), Still(r, q)
  PROVE  Still(s, q)
<1>1. \A t \in Frames : /\ Listed(s.todo, t) \in Nat /\ Listed(r.todo, t) \in Nat
                        /\ Listed(q.todo, t) \in Nat
  BY PlacesType
<1> QED
  BY <1>1 DEF Still

LEMMA TameTrans ==
  ASSUME NEW s \in Server, NEW r \in Server, NEW q \in Server,
         Tame(s, r), Tame(r, q)
  PROVE  Tame(s, q)
<1>1. Still(s, q)
  BY StillTrans DEF Tame
<1> QED
  BY <1>1 DEF Tame

\* Where only the lists of the manager change, what matters is that none of
\* them loses a task.
LEMMA RestTame ==
  ASSUME NEW s \in Server, NEW r \in Server, Rest(s, r),
         \A t \in Frames : Places(r, t) = Places(s, t),
         \A t \in Frames : Listed(r.todo, t) <= Listed(s.todo, t)
  PROVE  Tame(s, r)
  BY DEF Rest, Still, Tame

\* What the exchange depends on.
LEMMA SameMustConnect ==
  ASSUME NEW s, NEW r,
         r.todo = s.todo, r.done = s.done, r.proc = s.proc, r.stage = s.stage,
         r.dsmt = s.dsmt, r.sq = s.sq, r.sqa = s.sqa, r.tdaf = s.tdaf,
         Halted(r) = Halted(s)
  PROVE  /\ MustConnect(r) = MustConnect(s) /\ CanDoneTask(r) = CanDoneTask(s)
         /\ SpecialDone(r) = SpecialDone(s)
<1>1. SpecialDone(r) = SpecialDone(s)
  <2>1. \A t \in Frames : Processed(r, t) = Processed(s, t)
    BY DEF Processed
  <2>2. {t \in Frames : r.dsmt \/ (r.sq > 0 /\ ~Processed(r, t))} =
          {t \in Frames : s.dsmt \/ (s.sq > 0 /\ ~Processed(s, t))}
    BY <2>1
  <2> QED
    BY <2>2 DEF SpecialDone
<1>2. CanDoneTask(r) = CanDoneTask(s)
  BY <1>1 DEF CanDoneTask
<1>3. Quitting(r) = Quitting(s) /\ Idle(r) = Idle(s)
  BY DEF Quitting, Idle
<1> QED
  BY <1>1, <1>2, <1>3 DEF MustConnect

\* What is alike is as calm, when the choice is.
LEMMA AlikeRest ==
  ASSUME NEW s, Calm(s), NEW r \in Server, Alike(s, r), r.crash # "assert",
         Chosen(r)
  PROVE  Calm(r) /\ Tame(s, r)
<1> s \in Server
  BY DEF Calm
<1>1. MustConnect(r) = MustConnect(s)
  <2>1. Halted(r) = Halted(s)
    BY DEF Alike, Rest, Halted
  <2> QED
    BY <2>1, SameMustConnect DEF Alike, Rest
<1>2. Talk(r)
  BY DEF Alike, Rest, Calm, Talk
<1>3. Over(r)
  BY <1>1 DEF Alike, Rest, Calm, Over, Empty, Quitting
<1>4. Early(r)
  BY DEF Alike, Rest, Calm, Early, Empty
<1>5. \A c \in Clients : /\ r.cl[c].st = "up" => r.cl[c].counted
                         /\ r.cl[c].counted => r.started
  BY DEF Alike, Rest, Calm
<1>6. Still(s, r)
  <2>1. \A t \in Frames : Places(r, t) = Places(s, t) /\ Listed(s.todo, t) \in Nat
    BY PlacesType DEF Alike, Rest, Places
  <2> QED
    BY <2>1 DEF Alike, Rest, Still
<1>7. Tame(s, r)
  BY <1>6 DEF Alike, Rest, Tame
<1> QED
  BY <1>2, <1>3, <1>4, <1>5, <1>7 DEF Calm

LEMMA AlikeCalm ==
  ASSUME NEW s, Calm(s), NEW r \in Server, Alike(s, r), r.crash # "assert",
         r.sfs = s.sfs \/ r.sfs = NoTask, r.free = s.free \/ r.free = Nobody
  PROVE  Calm(r) /\ Tame(s, r)
<1>1. \A t : Processed(r, t) = Processed(s, t)
  BY DEF Alike, Rest, Processed
<1>2. r.free # Nobody => r.cl[r.free].counted
  <2>1. r.free # Nobody => r.free \in Clients /\ r.free = s.free
    BY Read
  <2> QED
    BY <2>1 DEF Alike, Rest, Calm, Chosen
<1>3. Chosen(r)
  BY <1>1, <1>2 DEF Alike, Rest, Calm, Chosen
<1> QED
  BY <1>3, AlikeRest

\* Small steps of the manager.
LEMMA ReSchedCalm ==
  ASSUME NEW s, Calm(s)
  PROVE  Calm(ReSched(s)) /\ Tame(s, ReSched(s))
<1>1. s \in Server /\ ReSched(s) \in Server
  BY Write DEF Calm, ReSched
<1>2. Alike(s, ReSched(s)) /\ ReSched(s).crash = s.crash
  BY DEF Alike, Rest, ReSched
<1>3. ReSched(s).sfs = s.sfs /\ ReSched(s).free = s.free /\ s.crash # "assert"
  BY DEF Calm, ReSched
<1> QED
  BY <1>1, <1>2, <1>3, AlikeCalm

LEMMA KillScheduledCalm ==
  ASSUME NEW s, Calm(s)
  PROVE  /\ Calm(KillScheduledForStart(s)) /\ Tame(s, KillScheduledForStart(s))
         /\ Alike(s, KillScheduledForStart(s))
         /\ KillScheduledForStart(s).sfs = NoTask
<1> DEFINE r == KillScheduledForStart(s)
<1>1. s \in Server /\ r \in Server /\ r.sfs = NoTask
  <2>1. s \in Server
    BY DEF Calm
  <2>2. r \in Server
    BY <2>1, Write DEF KillScheduledForStart
  <2>3. r.sfs = NoTask
    BY <2>1, Written DEF KillScheduledForStart
  <2> QED
    BY <2>1, <2>2, <2>3
<1>2. Alike(s, r) /\ r.crash = s.crash /\ r.free = s.free /\ s.crash # "assert"
  BY DEF Alike, Rest, Calm, KillScheduledForStart
<1> HIDE DEF r
<1>3. Calm(r) /\ Tame(s, r)
  BY <1>1, <1>2, AlikeCalm
<1> QED
  BY <1>1, <1>2, <1>3 DEF r

\* The program may end, but not on an assertion.
LEMMA DieCalm ==
  ASSUME NEW s, Calm(s), NEW how \in {"clients", "leftover"}
  PROVE  Calm(Die(s, how)) /\ Tame(s, Die(s, how))
<1> DEFINE r == [s EXCEPT !.crash = how]
<1>1. s \in Server /\ r \in Server /\ r.crash = how
  <2>1. s \in Server
    BY DEF Calm
  <2>2. r \in Server
    BY <2>1, Write
  <2>3. r.crash = how
    BY <2>1, Written
  <2> QED
    BY <2>1, <2>2, <2>3
<1>2. Alike(s, r) /\ r.sfs = s.sfs /\ r.free = s.free
  BY DEF Alike, Rest
<1> HIDE DEF r
<1>3. Calm(r) /\ Tame(s, r)
  BY <1>1, <1>2, AlikeCalm
<1>4. Calm(s) /\ Tame(s, s)
  BY <1>1, StillSelf
<1> QED
  BY <1>3, <1>4 DEF Die, r

\* Orders to the clients.
LEMMA GiveBackCalm ==
  ASSUME NEW s, Calm(s), NEW may \in {"none", "running"}
  PROVE  LET r == ScheduleGiveBackTasks(s, may)
         IN  Calm(r) /\ Tame(s, r) /\ Alike(s, r) /\ r.sfs = s.sfs
<1> DEFINE told == {c \in Clients :
                      /\ s.cl[c].st = "up" /\ s.cl[c].jobs > 0
                      /\ \/ s.cl[c].keep = "unsent"
                         \/ s.cl[c].keep = "running" /\ may = "none"}
           cl == [c \in Clients |-> IF c \in told
                    THEN [s.cl[c] EXCEPT !.keep = may] ELSE s.cl[c]]
           a == [s EXCEPT !.cl = cl]
           r == [a EXCEPT !.recalled = @ \cup {t \in Frames : s.ldrc[t] \in told}]
<1>1. s \in Server /\ s.crash # "assert"
  BY DEF Calm
<1>2. /\ cl \in [Clients -> ClientRecord]
      /\ \A c \in Clients :
           /\ cl[c].st = s.cl[c].st /\ cl[c].counted = s.cl[c].counted
           /\ cl[c].jobs = s.cl[c].jobs
           /\ cl[c].run = s.cl[c].run /\ cl[c].pend = s.cl[c].pend
  <2> HIDE DEF told
  <2>1. ASSUME NEW c \in Clients
        PROVE  /\ cl[c] \in ClientRecord
               /\ cl[c].st = s.cl[c].st /\ cl[c].counted = s.cl[c].counted
               /\ cl[c].jobs = s.cl[c].jobs
               /\ cl[c].run = s.cl[c].run /\ cl[c].pend = s.cl[c].pend
    <3>1. s.cl[c] \in ClientRecord
      BY <1>1, Read
    <3>2. cl[c] = IF c \in told THEN [s.cl[c] EXCEPT !.keep = may] ELSE s.cl[c]
      OBVIOUS
    <3> HIDE DEF cl
    <3> QED
      BY <3>1, <3>2 DEF ClientRecord
  <2> QED
    BY <2>1
<1> HIDE DEF told, cl
<1>3. a \in Server /\ a.cl = cl
  <2>1. a \in Server
    BY <1>1, <1>2, Write
  <2>2. a.cl = cl
    BY <1>1, Written
  <2> QED
    BY <2>1, <2>2
<1>4. r \in Server
  <2>1. a.recalled \cup {t \in Frames : s.ldrc[t] \in told} \in SUBSET Frames
    BY <1>3, Read
  <2> HIDE DEF a
  <2> QED
    BY <1>3, <2>1, Write
<1>5. /\ r.cl = a.cl /\ r.crash = s.crash /\ r.sfs = s.sfs /\ r.free = s.free
  OBVIOUS
<1>6. Alike(s, r)
  BY <1>2, <1>3, <1>5 DEF Alike, Rest
<1>7. r = ScheduleGiveBackTasks(s, may)
  BY DEF ScheduleGiveBackTasks, told, cl
<1> HIDE DEF a, r
<1>8. Calm(r) /\ Tame(s, r)
  BY <1>1, <1>4, <1>5, <1>6, AlikeCalm
<1> QED
  BY <1>5, <1>6, <1>7, <1>8

LEMMA TermAllJobsCalm ==
  ASSUME NEW s, Calm(s)
  PROVE  Calm(KillJobs(s)) /\ Tame(s, KillJobs(s)) /\ KillJobs(s).sfs = s.sfs
         /\ KillJobs(s).cl = s.cl
<1> DEFINE a == [s EXCEPT !.recalled = @ \cup {t \in Frames : s.ldrc[t] \in Up(s)}]
           r == [a EXCEPT !.kill = FALSE]
<1>1. s \in Server /\ s.crash # "assert"
  BY DEF Calm
<1>2. a \in Server
  <2>1. s.recalled \cup {t \in Frames : s.ldrc[t] \in Up(s)} \in SUBSET Frames
    BY <1>1, Read
  <2> QED
    BY <1>1, <2>1, Write
<1>3. r \in Server
  BY <1>2, Write
<1>4. Alike(s, r) /\ r.crash = s.crash /\ r.sfs = s.sfs /\ r.free = s.free /\ r.cl = s.cl
  BY DEF Alike, Rest
<1>5. KillJobs(s) \in {s, r}
  BY DEF KillJobs, TermAllJobs
<1> HIDE DEF r
<1>6. Calm(r) /\ Tame(s, r)
  BY <1>1, <1>3, <1>4, AlikeCalm
<1>7. Tame(s, s)
  BY <1>1, StillSelf
<1> QED
  BY <1>4, <1>5, <1>6, <1>7

----------------------------------------------------------------------------
(* The choice of a task and of a client *)

\* Who can do some part of a task is a client that is counted, and wants one.
LEMMA FitIs ==
  ASSUME NEW s, NEW t, NEW c
  PROVE  /\ Fit(s, t, c) \in {0, 1, 2}
         /\ Fit(s, t, c) > 0 => CanDoTask(s, c) /\ Parts(s, t, c) # {}
         /\ CanDoTask(s, c) => c # Nobody /\ s.cl[c].counted /\ s.cl[c].jobs < ClientHigh
  BY DEF Fit, CanDoTask

\* The client found for a task is there and can do some of it.
LEMMA FindClientIs ==
  ASSUME NEW s \in Server, NEW t
  PROVE  LET c == FindClientForTask(s, t)
         IN  c # Nobody => /\ c \in Clients /\ c \in ToSet(s.list) /\ c \notin Closed(s)
                           /\ Fit(s, t, c) > 0
<1> DEFINE D == {i \in DOMAIN s.list :
                   /\ s.list[i] \notin Closed(s) /\ Fit(s, t, s.list[i]) > 0
                   /\ s.tight => s.cl[s.list[i]].jobs < CJobs[s.list[i]]}
           p == [i \in D |-> Points(s, t, s.list[i])]
<1>1. s.list \in Seq(Clients)
  BY Read
<1>2. \A i \in DOMAIN s.list : s.list[i] \in Clients /\ s.list[i] \in ToSet(s.list)
  BY <1>1, ElementOfSeq DEF ToSet
<1>3. ASSUME NEW i \in D PROVE p[i] \in Int
  <2> DEFINE c == s.list[i]
  <2>1. c \in Clients
    BY <1>2
  <2>2. p[i] = Points(s, t, c)
    OBVIOUS
  <2>3. Fit(s, t, c) \in {0, 1, 2}
    BY FitIs
  <2>4. s.cl[c] \in ClientRecord
    BY <2>1, Read
  <2>5. s.cl[c].jobs \in Int
    BY <2>4 DEF ClientRecord
  <2>6. CJobs[c] \in Nat \ {0}
    BY <2>1, FarmAssumption
  <2> HIDE DEF c, p, D
  <2>7. Spare(s, c, 200) \in Int /\ Spare(s, c, 50) \in Int
    BY <2>5, <2>6 DEF Spare
  <2>8. Spare(s, c, IF s.tight THEN 200 ELSE 50) \in Int
    BY <2>7
  <2> QED
    BY <2>2, <2>3, <2>8 DEF Points
<1>4. FindClientForTask(s, t) = BestOf(s.list, p)
  BY DEF FindClientForTask
<1>5. BestOf(s.list, p) = Nobody \/ \E i \in D : BestOf(s.list, p) = s.list[i]
  <2>1. DOMAIN p = D /\ D \subseteq DOMAIN s.list
    OBVIOUS
  <2> HIDE DEF p, D
  <2> QED
    BY <1>1, <1>3, <2>1, BestOfIs
<1> QED
  BY <1>2, <1>4, <1>5

\* The first task in todo of a set, that may be started.
LEMMA FirstTodoIs ==
  ASSUME NEW s \in Server, NEW S
  PROVE  LET t == FirstTodo(s, S)
         IN  t # NoTask => /\ t \in Frames /\ t \in S /\ Startable(s, t)
                           /\ Listed(s.todo, t) > 0
<1> DEFINE P == {t \in S : Startable(s, t)}
<1>1. s.todo \in Seq(Frames)
  BY Read
<1>2. /\ FirstOf(s.todo, P) \in Frames \cup {NoTask}
      /\ FirstOf(s.todo, P) # NoTask =>
           FirstOf(s.todo, P) \in P /\ Listed(s.todo, FirstOf(s.todo, P)) > 0
  <2> HIDE DEF P
  <2> QED
    BY <1>1, FirstOfIs
<1> QED
  BY <1>2 DEF FirstTodo

\* What may be started, for the interface at the moment.
Wanted(s, t) ==
  t # NoTask => /\ t \in Frames /\ Startable(s, t) /\ Listed(s.todo, t) > 0
                /\ s.started

LEMMA FreeCalm ==
  ASSUME NEW s, Calm(s), NEW c \in Clients, s.cl[c].counted
  PROVE  LET r == [s EXCEPT !.free = c]
         IN  Calm(r) /\ Tame(s, r) /\ Alike(s, r) /\ r.sfs = s.sfs
<1> DEFINE r == [s EXCEPT !.free = c]
<1>1. s \in Server /\ r \in Server
  BY Write DEF Calm
<1>2. r.free = c
  BY <1>1, Written
<1>3. Alike(s, r) /\ r.sfs = s.sfs /\ r.crash = s.crash
  BY DEF Alike, Rest
<1> HIDE DEF r
<1>4. Chosen(r)
  <2>1. r.cl[r.free].counted
    BY <1>2, <1>3 DEF Alike, Rest
  <2>2. \A t : Processed(r, t) = Processed(s, t)
    BY <1>3 DEF Alike, Rest, Processed
  <2> QED
    BY <1>3, <2>1, <2>2 DEF Alike, Rest, Calm, Chosen
<1>5. Calm(r) /\ Tame(s, r)
  BY <1>1, <1>3, <1>4, AlikeRest DEF Calm
<1> QED
  BY <1>3, <1>5 DEF r

\* A choice of a task changes nothing but free_client and orders.
LEMMA GetTaskToStartIs ==
  ASSUME NEW s, Calm(s)
  PROVE  LET g == GetTaskToStart(s)
         IN  /\ Wanted(s, g.task)
             /\ Calm(g.s) /\ Tame(s, g.s) /\ Alike(s, g.s) /\ g.s.sfs = s.sfs
<1> DEFINE mine == IF s.tight THEN NoTask ELSE FindTaskForClient(s, s.free)
           best == [t \in Frames |-> FindClientForTask(s, t)]
           t    == FirstWithClient(s, best)
           Good(g) == /\ Wanted(s, g.task)
                      /\ Calm(g.s) /\ Tame(s, g.s) /\ Alike(s, g.s) /\ g.s.sfs = s.sfs
<1>1. s \in Server
  BY DEF Calm
<1>2. \A c \in Clients : s.cl[c].counted => s.started
  BY DEF Calm
<1>3. Alike(s, s) /\ Tame(s, s)
  BY <1>1, StillSelf DEF Alike, Rest
<1>4. Wanted(s, mine)
  <2> SUFFICES ASSUME mine # NoTask PROVE Wanted(s, mine)
    BY DEF Wanted
  <2> DEFINE full == {u \in Range(s.todo) : Fit(s, u, s.free) = 2 /\ Startable(s, u)}
             S == IF full # {} THEN full
                  ELSE {u \in Frames : Fit(s, u, s.free) = 1}
  <2>1. mine = FirstTodo(s, S)
    BY DEF FindTaskForClient
  <2>2. \A u \in S : Fit(s, u, s.free) > 0
    OBVIOUS
  <2> HIDE DEF S
  <2>3. mine \in Frames /\ mine \in S /\ Startable(s, mine) /\ Listed(s.todo, mine) > 0
    BY <1>1, <2>1, FirstTodoIs
  <2>4. s.free # Nobody /\ s.cl[s.free].counted
    BY <2>2, <2>3, FitIs
  <2>5. s.started
    BY <1>1, <1>2, <2>4, Read
  <2> QED
    BY <2>3, <2>5 DEF Wanted
<1>5. t # NoTask => /\ Wanted(s, t) /\ best[t] \in Clients /\ s.cl[best[t]].counted
  <2> SUFFICES ASSUME t # NoTask
               PROVE  Wanted(s, t) /\ best[t] \in Clients /\ s.cl[best[t]].counted
    OBVIOUS
  <2> DEFINE S == {u \in Frames : best[u] # Nobody}
  <2>1. t = FirstTodo(s, S)
    BY DEF FirstWithClient
  <2>2. \A u \in S : u \in Frames /\ FindClientForTask(s, u) # Nobody
    OBVIOUS
  <2> HIDE DEF S
  <2>3. t \in Frames /\ t \in S /\ Startable(s, t) /\ Listed(s.todo, t) > 0
    BY <1>1, <2>1, FirstTodoIs
  <2>4. best[t] = FindClientForTask(s, t) /\ best[t] # Nobody
    BY <2>2, <2>3
  <2>5. best[t] \in Clients /\ Fit(s, t, best[t]) > 0
    BY <1>1, <2>4, FindClientIs
  <2>6. s.cl[best[t]].counted
    BY <2>5, FitIs
  <2> HIDE DEF t, best
  <2> QED
    BY <1>2, <2>3, <2>5, <2>6 DEF Wanted
<1> DEFINE n == [s EXCEPT !.free = Nobody]
<1>6. Calm(n) /\ Tame(s, n) /\ Alike(s, n) /\ n.sfs = s.sfs
  <2>1. n \in Server
    BY <1>1, Write
  <2>2. n.free = Nobody
    BY <1>1, Written
  <2>3. Alike(s, n) /\ n.sfs = s.sfs /\ n.crash = s.crash
    BY DEF Alike, Rest
  <2> HIDE DEF n
  <2> QED
    BY <2>1, <2>2, <2>3, AlikeCalm DEF Calm
<1>7. LET a == TakeAway(n) IN Calm(a) /\ Tame(s, a) /\ Alike(s, a) /\ a.sfs = s.sfs
  <2> DEFINE b == ScheduleGiveBackTasks(n, "none")
  <2>1. TakeAway(n) \in {n, b}
    BY DEF TakeAway
  <2> HIDE DEF n
  <2>2. Calm(b) /\ Tame(n, b) /\ Alike(n, b) /\ b.sfs = n.sfs
    BY <1>6, GiveBackCalm
  <2> HIDE DEF b
  <2>3. Tame(s, b) /\ Alike(s, b) /\ b.sfs = s.sfs
    BY <1>1, <1>6, <2>2, TameTrans DEF Calm, Alike, Rest
  <2> QED
    BY <1>6, <2>1, <2>2, <2>3
<1>8. Good(TaskWithBest(s, t, best))
  <2> HIDE DEF t, best
  <2>1. CASE t = NoTask
    <3>1. TaskWithBest(s, t, best) = [task |-> NoTask, s |-> TakeAway(n)]
      BY <2>1 DEF TaskWithBest
    <3>2. Wanted(s, NoTask)
      BY DEF Wanted
    <3> HIDE DEF n
    <3> QED
      BY <1>7, <3>1, <3>2
  <2>2. CASE t # NoTask
    <3> DEFINE r == [s EXCEPT !.free = best[t]]
    <3>1. TaskWithBest(s, t, best) = [task |-> t, s |-> r]
      BY <2>2 DEF TaskWithBest
    <3>2. Calm(r) /\ Tame(s, r) /\ Alike(s, r) /\ r.sfs = s.sfs
      <4> DEFINE b == best[t]
      <4>1. b \in Clients /\ s.cl[b].counted
        BY <1>5, <2>2
      <4> HIDE DEF b
      <4>2. LET q == [s EXCEPT !.free = b]
            IN  Calm(q) /\ Tame(s, q) /\ Alike(s, q) /\ q.sfs = s.sfs
        BY <4>1, FreeCalm
      <4> QED
        BY <4>2 DEF b
    <3> HIDE DEF r
    <3> QED
      BY <1>5, <2>2, <3>1, <3>2
  <2> QED
    BY <2>1, <2>2
<1>9. mine # NoTask => Good([task |-> mine, s |-> s])
  <2> HIDE DEF mine
  <2> QED
    BY <1>3, <1>4
<1>10. GetTaskToStart(s) = IF mine # NoTask THEN [task |-> mine, s |-> s]
                           ELSE TaskWithBest(s, t, best)
  BY DEF GetTaskToStart, TaskFor, TaskForAnybody
<1> QED
  BY <1>8, <1>9, <1>10

\* A task that is scheduled for start waits in todo.
LEMMA CheckStartTasksCalm ==
  ASSUME NEW s, Calm(s)
  PROVE  LET r == CheckStartTasks(s)
         IN  Calm(r) /\ Tame(s, r) /\ Alike(s, r)
<1> DEFINE g == GetTaskToStart(s)
           a == [g.s EXCEPT !.sfs = g.task]
<1>1. s \in Server /\ Alike(s, s) /\ Tame(s, s)
  BY StillSelf DEF Calm, Alike, Rest
<1>2. CASE s.dsmt \/ Halted(s) \/ s.sfs # NoTask
  BY <1>1, <1>2 DEF CheckStartTasks
<1>3. CASE ~(s.dsmt \/ Halted(s) \/ s.sfs # NoTask)
  <2>1. /\ Wanted(s, g.task)
        /\ Calm(g.s) /\ Tame(s, g.s) /\ Alike(s, g.s) /\ g.s.sfs = s.sfs
    BY GetTaskToStartIs
  <2>2. CheckStartTasks(s) = IF g.task = NoTask THEN g.s ELSE ReSched(a)
    BY <1>3 DEF CheckStartTasks, ScheduleForStart
  <2> HIDE DEF g
  <2>3. ASSUME g.task # NoTask
        PROVE  Calm(a) /\ Tame(s, a) /\ Alike(s, a)
    <3> DEFINE b == g.s
    <3>1. g.task \in Frames
      BY <2>1, <2>3 DEF Wanted
    <3>2. b \in Server
      BY <2>1 DEF Calm
    <3>3. a \in Server
      BY <3>1, <3>2, Write
    <3>4. a.sfs = g.task
      BY <3>2, Written
    <3>5. Alike(b, a) /\ a.crash = b.crash /\ a.free = b.free
      BY DEF Alike, Rest
    <3> HIDE DEF a, b
    <3>6. Alike(s, a)
      BY <2>1, <3>5 DEF Alike, Rest, b
    <3>7. Chosen(a)
      <4>1. Startable(s, a.sfs) /\ Listed(s.todo, a.sfs) > 0 /\ s.started
        BY <2>1, <2>3, <3>4 DEF Wanted
      <4>2. \A t : Processed(a, t) = Processed(s, t)
        BY <3>6 DEF Alike, Rest, Processed
      <4>3. a.sq > 0 => Processed(a, a.sfs)
        <5>1. a.sq \in 0..2 /\ a.sq = s.sq
          BY <3>3, <3>6, Read DEF Alike, Rest
        <5> QED
          BY <4>1, <4>2, <5>1 DEF Startable
      <4>4. a.free # Nobody => a.cl[a.free].counted
        <5>1. a.free # Nobody => a.free \in Clients
          BY <3>3, Read
        <5> QED
          BY <2>1, <3>5, <5>1 DEF Alike, Rest, Calm, Chosen, b
      <4> QED
        BY <1>3, <3>6, <4>1, <4>3, <4>4 DEF Alike, Rest, Calm, Chosen
    <3>8. Calm(a) /\ Tame(s, a)
      BY <2>1, <3>3, <3>5, <3>6, <3>7, AlikeRest DEF Calm, b
    <3> QED
      BY <3>6, <3>8
  <2> HIDE DEF a
  <2>4. ASSUME g.task # NoTask
        PROVE  LET r == ReSched(a) IN Calm(r) /\ Tame(s, r) /\ Alike(s, r)
    <3>1. Calm(a) /\ Tame(s, a) /\ Alike(s, a)
      BY <2>3, <2>4
    <3>2. Calm(ReSched(a)) /\ Tame(a, ReSched(a))
      BY <3>1, ReSchedCalm
    <3>3. Alike(a, ReSched(a))
      BY DEF Alike, Rest, ReSched
    <3> DEFINE r == ReSched(a)
    <3> HIDE DEF r
    <3>4. Alike(s, r)
      BY <3>1, <3>3 DEF Alike, Rest, r
    <3>5. Tame(s, r)
      BY <1>1, <3>1, <3>2, TameTrans DEF Calm, r
    <3> QED
      BY <3>2, <3>4, <3>5 DEF r
  <2> QED
    BY <2>1, <2>2, <2>4
<1> QED
  BY <1>2, <1>3

----------------------------------------------------------------------------
(* The exchange with the source *)

\* Who quits and has nothing in hand needs no connection.
LEMMA NothingToReturn ==
  ASSUME NEW s \in Server, Empty(s)
  PROVE  /\ ~CanDoneTask(s)
         /\ Quitting(s) => ~MustConnect(s)
<1> DEFINE P == {t \in Frames : s.dsmt \/ (s.sq > 0 /\ ~Processed(s, t))}
<1>1. SpecialDone(s) = NoTask
  <2>1. FirstOf(s.todo, P) = NoTask
    <3>1. s.todo \in Seq(Frames)
      BY Read
    <3> HIDE DEF P
    <3>2. FirstOf(s.todo, P) # NoTask => Listed(s.todo, FirstOf(s.todo, P)) > 0
      BY <3>1, FirstOfIs
    <3>3. Listed(<<>>, FirstOf(s.todo, P)) = 0
      BY ListedFew
    <3> QED
      BY <3>2, <3>3 DEF Empty
  <2> QED
    BY <2>1 DEF SpecialDone
<1>2. ~CanDoneTask(s)
  BY <1>1 DEF CanDoneTask, Empty
<1>3. Len(s.done) = 0 /\ DoneHigh \in Nat \ {0}
  BY FarmAssumption DEF Empty
<1> QED
  BY <1>2, <1>3 DEF MustConnect, Empty

\* While there is a connection the program is at work.
LEMMA ConnectedIs ==
  ASSUME NEW s, Calm(s), s.connected
  PROVE  s.quitStep = 0 /\ ~s.toldTs /\ ("CONT" \notin Signals => s.started)
<1>1. s.quitStep \in 0..5
  BY Read DEF Calm
<1> QED
  BY <1>1 DEF Calm, Over, Early

\* The manager looks whether it needs the source; it never asks twice.
LEMMA CheckExchangeCalm ==
  ASSUME NEW s, Calm(s), "CONT" \in Signals \/ s.started \/ Quitting(s)
  PROVE  LET r == CheckStartExchange(s)
         IN  /\ Calm(r) /\ Tame(s, r)
             /\ r \in {s, [s EXCEPT !.pending = "AConnect"]}
             /\ s.connected => r = s
<1> DEFINE a == [s EXCEPT !.pending = "AConnect"]
<1>1. s \in Server /\ Tame(s, s)
  BY StillSelf DEF Calm
<1>2. CASE ~(MayConnect(s) /\ MustConnect(s))
  BY <1>1, <1>2 DEF CheckStartExchange
<1>3. CASE MayConnect(s) /\ MustConnect(s)
  <2>1. ~s.connected /\ s.pending # "AConnect"
    BY <1>3 DEF MayConnect
  <2>2. ~s.toldTs
    <3>1. s.toldTs => Empty(s) /\ Quitting(s)
      BY DEF Calm, Over
    <3> QED
      BY <1>1, <1>3, <3>1, NothingToReturn
  <2>3. s.pending = "ANone"
    <3>1. s.pending \in Actions
      BY <1>1, Read
    <3> QED
      BY <2>1, <2>2, <3>1 DEF Actions, Calm, Talk
  <2>4. s.quitStep = 0
    <3>1. s.quitStep \in 0..5
      BY <1>1, Read
    <3> QED
      BY <1>3, <3>1 DEF Calm, Over
  <2>5. "CONT" \notin Signals => s.started
    <3>1. "CONT" \notin Signals /\ ~s.started => Empty(s)
      BY DEF Calm, Early
    <3> QED
      BY <1>1, <1>3, <3>1, NothingToReturn
  <2>6. CheckStartExchange(s) = a
    BY <1>3, <2>3 DEF CheckStartExchange, Ask, Check
  <2>7. a \in Server
    BY <1>1, Write DEF Actions
  <2>8. a.pending = "AConnect"
    BY <1>1, Written
  <2>9. /\ Rest(s, a) /\ a.todo = s.todo /\ a.done = s.done
        /\ a.srcDone = s.srcDone /\ a.dsmt = s.dsmt /\ a.sq = s.sq
        /\ a.toldTs = s.toldTs /\ a.connected = s.connected
        /\ a.quitStep = s.quitStep /\ a.crash = s.crash
        /\ a.sfs = s.sfs /\ a.free = s.free /\ a.cl = s.cl
    BY DEF Rest
  <2> HIDE DEF a
  <2>10. Chosen(a)
    <3>1. \A t : Processed(a, t) = Processed(s, t)
      BY <2>9 DEF Processed, Rest
    <3> QED
      BY <2>9, <3>1 DEF Calm, Chosen, Rest
  <2>11. Talk(a)
    BY <2>1, <2>3, <2>8, <2>9 DEF Calm, Talk
  <2>12. Over(a) /\ Early(a)
    BY <2>2, <2>4, <2>5, <2>9 DEF Calm, Over, Early, Rest
  <2>13. Calm(a)
    BY <2>7, <2>9, <2>10, <2>11, <2>12 DEF Calm, Rest
  <2>14. \A t \in Frames : Places(a, t) = Places(s, t) /\ Listed(s.todo, t) \in Nat
    BY <1>1, <2>9, PlacesType DEF Places, Rest
  <2>15. Tame(s, a)
    <3>1. \A t \in Frames : Listed(a.todo, t) <= Listed(s.todo, t)
      BY <2>9, <2>14
    <3> QED
      BY <1>1, <2>7, <2>9, <2>14, <3>1, RestTame
  <2>16. CheckStartExchange(s) \in {s, [s EXCEPT !.pending = "AConnect"]}
    BY <2>6 DEF a
  <2> QED
    BY <2>1, <2>6, <2>13, <2>15, <2>16
<1> QED
  BY <1>2, <1>3

\* A task that goes back to the source is on its way there.
LEMMA GiveBackCalmly ==
  ASSUME NEW s, Calm(s), s.connected, s.pending = "ANone",
         NEW r \in Server, Rest(s, r), NEW u \in Frames,
         r.connected, r.pending = "ADoneTask", r.srcDone = u,
         r.sq = s.sq, r.sqa = s.sqa, r.dsmt = s.dsmt, r.toldTs = s.toldTs,
         r.quitStep = s.quitStep, r.crash = s.crash, r.free = s.free,
         r.sfs = s.sfs \/ r.sfs = NoTask,
         r.sfs # NoTask => Listed(r.todo, r.sfs) = Listed(s.todo, r.sfs),
         \A t \in Frames : Listed(r.todo, t) <= Listed(s.todo, t),
         \A t \in Frames : Listed(r.todo, t) + Listed(r.done, t) + Times(u = t)
                             = Listed(s.todo, t) + Listed(s.done, t)
  PROVE  Calm(r) /\ Tame(s, r)
<1>1. s \in Server
  BY DEF Calm
<1>2. s.quitStep = 0 /\ ~s.toldTs /\ ("CONT" \notin Signals => s.started)
  BY ConnectedIs
<1>3. s.srcDone = NoTask
  BY DEF Calm, Talk
<1>4. \A t \in Frames : Places(r, t) = Places(s, t)
  <2> SUFFICES ASSUME NEW t \in Frames PROVE Places(r, t) = Places(s, t)
    OBVIOUS
  <2>1. /\ Listed(s.todo, t) \in Nat /\ Listed(s.proc, t) \in Nat
        /\ Listed(s.done, t) \in Nat
    BY <1>1, PlacesType
  <2>2. /\ Listed(r.todo, t) \in Nat /\ Listed(r.done, t) \in Nat
        /\ Times(r.srcDone = t) \in {0, 1}
    BY PlacesType
  <2>3. Times(s.srcDone = t) = 0
    BY <1>3 DEF Times, NoTask, Frames
  <2>4. r.proc = s.proc
    BY DEF Rest
  <2>5. Listed(r.todo, t) + Listed(r.done, t) + Times(u = t)
          = Listed(s.todo, t) + Listed(s.done, t)
    OBVIOUS
  <2> QED
    BY <2>1, <2>2, <2>3, <2>4, <2>5 DEF Places
<1>5. Tame(s, r)
  BY <1>1, <1>4, RestTame
<1>6. Chosen(r)
  <2>1. \A t : Processed(r, t) = Processed(s, t)
    BY DEF Processed, Rest
  <2>2. r.free # Nobody => r.cl[r.free].counted
    <3>1. r.free # Nobody => r.free \in Clients
      BY Read
    <3> QED
      BY <3>1 DEF Calm, Chosen, Rest
  <2> QED
    BY <2>1, <2>2 DEF Calm, Chosen, Rest
<1>7. Talk(r)
  BY Read DEF Talk, NoTask, Frames
<1>8. Over(r) /\ Early(r)
  BY <1>2 DEF Calm, Over, Early, Rest
<1>9. Calm(r)
  BY <1>6, <1>7, <1>8 DEF Calm, Rest
<1> QED
  BY <1>5, <1>9

\* Another request that moves no task.
LEMMA RequestCalmly ==
  ASSUME NEW s, Calm(s), s.connected, s.pending = "ANone",
         NEW r \in Server, Rest(s, r), r.todo = s.todo, r.done = s.done,
         r.connected, r.pending \in {"AGetTask", "ADisconnect"},
         r.srcDone = s.srcDone, r.sq = s.sq, r.sqa = s.sqa, r.dsmt = s.dsmt,
         r.toldTs = s.toldTs, r.quitStep = s.quitStep, r.crash = s.crash,
         r.free = s.free, r.sfs = s.sfs
  PROVE  Calm(r) /\ Tame(s, r)
<1>1. s \in Server
  BY DEF Calm
<1>2. s.quitStep = 0 /\ ~s.toldTs /\ ("CONT" \notin Signals => s.started)
  BY ConnectedIs
<1>3. s.srcDone = NoTask
  BY DEF Calm, Talk
<1>4. \A t \in Frames : Places(r, t) = Places(s, t) /\ Listed(s.todo, t) \in Nat
  BY <1>1, PlacesType DEF Places, Rest
<1>5. Tame(s, r)
  <2>1. \A t \in Frames : Listed(r.todo, t) <= Listed(s.todo, t)
    BY <1>4
  <2> QED
    BY <1>1, <1>4, <2>1, RestTame
<1>6. Chosen(r)
  <2>1. \A t : Processed(r, t) = Processed(s, t)
    BY DEF Processed, Rest
  <2>2. r.free # Nobody => r.cl[r.free].counted
    <3>1. r.free # Nobody => r.free \in Clients
      BY Read
    <3> QED
      BY <3>1 DEF Calm, Chosen, Rest
  <2> QED
    BY <2>1, <2>2 DEF Calm, Chosen, Rest
<1>7. Talk(r)
  BY <1>3 DEF Talk
<1>8. Over(r) /\ Early(r)
  BY <1>2 DEF Calm, Over, Early, Rest
<1>9. Calm(r)
  BY <1>6, <1>7, <1>8 DEF Calm, Rest
<1> QED
  BY <1>5, <1>9

\* What is given back unprocessed waited in todo.
LEMMA SpecialIs ==
  ASSUME NEW s \in Server
  PROVE  SpecialDone(s) # NoTask =>
           SpecialDone(s) \in Frames /\ Listed(s.todo, SpecialDone(s)) > 0
<1> DEFINE P == {t \in Frames : s.dsmt \/ (s.sq > 0 /\ ~Processed(s, t))}
<1>1. s.todo \in Seq(Frames)
  BY Read
<1>2. /\ FirstOf(s.todo, P) \in Frames \cup {NoTask}
      /\ FirstOf(s.todo, P) # NoTask => Listed(s.todo, FirstOf(s.todo, P)) > 0
  <2> HIDE DEF P
  <2> QED
    BY <1>1, FirstOfIs
<1> QED
  BY <1>2 DEF SpecialDone

\* The next request of a connection.
LEMMA GetOrDoneCalm ==
  ASSUME NEW s, Calm(s), s.connected, s.pending = "ANone",
         \A t \in Frames : Places(s, t) <= 1
  PROVE  LET r == GetOrDoneTask(s)
         IN  Calm(r) /\ Tame(s, r)
<1> DEFINE get  == CanGetTask(s) /\ (s.tsgod = "ADoneTask" \/ ~CanDoneTask(s))
           give == CanDoneTask(s) /\ ~get
           next == IF get THEN "AGetTask" ELSE IF give THEN "ADoneTask" ELSE "ANone"
           r == [s EXCEPT !.tsgod = next]
<1>1. s \in Server /\ s.srcDone = NoTask
  BY DEF Calm, Talk
<1>2. next \in Actions
  BY DEF Actions
<1> HIDE DEF next
<1>3. r \in Server
  BY <1>1, <1>2, Write
<1>4. /\ Rest(s, r) /\ r.todo = s.todo /\ r.done = s.done
      /\ r.srcDone = s.srcDone /\ r.sq = s.sq /\ r.sqa = s.sqa
      /\ r.dsmt = s.dsmt /\ r.toldTs = s.toldTs
      /\ r.connected /\ r.pending = s.pending
      /\ r.quitStep = s.quitStep /\ r.crash = s.crash /\ r.free = s.free
      /\ r.sfs = s.sfs
  <2>1. Rest(s, r)
    BY DEF Rest
  <2>2. /\ r.todo = s.todo /\ r.done = s.done
        /\ r.srcDone = s.srcDone /\ r.sq = s.sq /\ r.sqa = s.sqa
        /\ r.dsmt = s.dsmt /\ r.toldTs = s.toldTs /\ r.pending = s.pending
        /\ r.quitStep = s.quitStep /\ r.crash = s.crash /\ r.free = s.free
        /\ r.sfs = s.sfs
    OBVIOUS
  <2>3. r.connected
    OBVIOUS
  <2> QED
    BY <2>1, <2>2, <2>3
<1>5. GetOrDoneTask(s) =
        CASE get -> Ask(r, "AGetTask")
          [] give -> IF s.done # <<>> THEN GiveBackDone(r) ELSE GiveBackSpecial(r)
          [] ~get /\ ~give -> Ask(r, "ADisconnect")
  BY DEF GetOrDoneTask, Check, next
<1> HIDE DEF r
<1>6. ASSUME NEW act \in {"AGetTask", "ADisconnect"}
      PROVE  LET a == Ask(r, act) IN Calm(a) /\ Tame(s, a)
  <2> DEFINE a == [r EXCEPT !.pending = act]
  <2>1. Ask(r, act) = a
    BY <1>4 DEF Ask, Check
  <2>2. a \in Server
    BY <1>3, <1>6, Write DEF Actions
  <2>3. a.pending = act
    BY <1>3, Written
  <2>4. /\ Rest(r, a) /\ a.todo = r.todo /\ a.done = r.done
        /\ a.srcDone = r.srcDone /\ a.sq = r.sq /\ a.sqa = r.sqa
        /\ a.dsmt = r.dsmt /\ a.toldTs = r.toldTs
        /\ a.quitStep = r.quitStep /\ a.crash = r.crash /\ a.free = r.free
        /\ a.sfs = r.sfs
    BY DEF Rest
  <2>40. a.connected
    BY <1>4
  <2> HIDE DEF a
  <2>5. Rest(s, a)
    BY <1>4, <2>4 DEF Rest
  <2>6. Calm(a) /\ Tame(s, a)
    BY <1>4, <1>6, <2>2, <2>3, <2>4, <2>5, <2>40, RequestCalmly
  <2> QED
    BY <2>1, <2>6
<1>7. ASSUME s.done # <<>>
      PROVE  LET a == GiveBackDone(r) IN Calm(a) /\ Tame(s, a)
  <2> DEFINE u == Head(s.done)
             b == [r EXCEPT !.done = Tail(s.done)]
             d == [b EXCEPT !.srcDone = u]
             a == [d EXCEPT !.pending = "ADoneTask"]
  <2>1. s.done \in Seq(Frames) /\ s.todo \in Seq(Frames)
    BY <1>1, Read
  <2>2. u \in Frames /\ Tail(s.done) \in Seq(Frames)
    BY <1>7, <2>1, ListedTail
  <2>3. b \in Server /\ b.done = Tail(s.done)
    <3>1. b \in Server
      BY <1>3, <2>2, Write
    <3>2. b.done = Tail(s.done)
      BY <1>3, Written
    <3> QED
      BY <3>1, <3>2
  <2>4. d \in Server /\ d.srcDone = u
    <3> HIDE DEF b, u
    <3>1. d \in Server
      BY <2>2, <2>3, Write
    <3>2. d.srcDone = u
      BY <2>3, Written
    <3> QED
      BY <3>1, <3>2
  <2>5. a \in Server /\ a.pending = "ADoneTask"
    <3> HIDE DEF d
    <3>1. a \in Server
      BY <2>4, Write DEF Actions
    <3>2. a.pending = "ADoneTask"
      BY <2>4, Written
    <3> QED
      BY <3>1, <3>2
  <2>6. GiveBackDone(r) = a
    <3>1. d = [r EXCEPT !.done = Tail(@), !.srcDone = Head(r.done)]
      BY <1>4
    <3>2. d.pending = "ANone"
      BY <1>4
    <3> HIDE DEF d
    <3>3. Ask(d, "ADoneTask") = a
      BY <3>2 DEF Ask, Check
    <3> QED
      BY <3>1, <3>3 DEF GiveBackDone
  <2>7. /\ Rest(r, a) /\ a.todo = r.todo /\ a.done = b.done
        /\ a.srcDone = d.srcDone /\ a.sq = r.sq /\ a.sqa = r.sqa
        /\ a.dsmt = r.dsmt /\ a.toldTs = r.toldTs
        /\ a.quitStep = r.quitStep /\ a.crash = r.crash /\ a.free = r.free
        /\ a.sfs = r.sfs
    BY DEF Rest
  <2>40. a.connected
    BY <1>4
  <2>8. \A t \in Frames : Listed(s.done, t) = Listed(Tail(s.done), t) + Times(u = t)
    BY <1>7, <2>1, ListedTail DEF Times
  <2> HIDE DEF u, b, d, a
  <2>9. ASSUME NEW t \in Frames
        PROVE  /\ Listed(a.todo, t) <= Listed(s.todo, t)
               /\ Listed(a.todo, t) + Listed(a.done, t) + Times(u = t)
                    = Listed(s.todo, t) + Listed(s.done, t)
    <3>1. Listed(s.done, t) = Listed(a.done, t) + Times(u = t) /\ a.todo = s.todo
      BY <1>4, <2>3, <2>7, <2>8
    <3>2. Listed(s.todo, t) \in Nat /\ Times(u = t) \in {0, 1}
      BY <1>1, PlacesType DEF Times
    <3>3. Listed(a.done, t) \in Nat
      BY <2>5, PlacesType
    <3> QED
      BY <3>1, <3>2, <3>3
  <2>10. Rest(s, a)
    BY <1>4, <2>7 DEF Rest
  <2>11. a.todo = s.todo /\ a.srcDone = u
    BY <1>4, <2>4, <2>7
  <2>12. /\ a.connected /\ a.sq = s.sq /\ a.sqa = s.sqa
         /\ a.dsmt = s.dsmt /\ a.toldTs = s.toldTs /\ a.quitStep = s.quitStep
         /\ a.crash = s.crash /\ a.free = s.free /\ a.sfs = s.sfs
    BY <1>4, <2>7, <2>40
  <2>13. a \in Server /\ a.pending = "ADoneTask"
    BY <2>5
  <2>14. Calm(a) /\ Tame(s, a)
    BY <2>2, <2>9, <2>10, <2>11, <2>12, <2>13, GiveBackCalmly
  <2> QED
    BY <2>6, <2>14
<1>8. ASSUME SpecialDone(s) # NoTask
      PROVE  LET a == GiveBackSpecial(r) IN Calm(a) /\ Tame(s, a)
  <2> DEFINE u == SpecialDone(s)
             f == IF s.sfs = u THEN NoTask ELSE s.sfs
             b == [r EXCEPT !.todo = Without(s.todo, u)]
             d == [b EXCEPT !.srcDone = u]
             e == [d EXCEPT !.tdaf = FALSE]
             g == [e EXCEPT !.sfs = f]
             a == [g EXCEPT !.pending = "ADoneTask"]
  <2>1. s.todo \in Seq(Frames)
    BY <1>1, Read
  <2>2. u \in Frames /\ Listed(s.todo, u) > 0
    BY <1>1, <1>8, SpecialIs
  <2>3. SpecialDone(r) = u
    <3>1. \A t \in Frames : Processed(r, t) = Processed(s, t)
      BY <1>4 DEF Processed, Rest
    <3>2. {t \in Frames : r.dsmt \/ (r.sq > 0 /\ ~Processed(r, t))} =
            {t \in Frames : s.dsmt \/ (s.sq > 0 /\ ~Processed(s, t))}
      BY <1>4, <3>1
    <3> QED
      BY <1>4, <3>2 DEF SpecialDone
  <2> HIDE DEF u
  <2>4. \A t \in Frames : Without(s.todo, u) \in Seq(Frames)
          /\ Listed(Without(s.todo, u), t) = IF t = u THEN 0 ELSE Listed(s.todo, t)
    BY <2>1, ListedWithout
  <2>5. b \in Server /\ b.todo = Without(s.todo, u)
    <3>1. Without(s.todo, u) \in Seq(Frames)
      BY <2>2, <2>4
    <3>2. b \in Server
      BY <1>3, <3>1, Write
    <3>3. b.todo = Without(s.todo, u)
      BY <1>3, Written
    <3> QED
      BY <3>2, <3>3
  <2>6. d \in Server /\ d.srcDone = u
    <3> HIDE DEF b
    <3>1. d \in Server
      BY <2>2, <2>5, Write
    <3>2. d.srcDone = u
      BY <2>5, Written
    <3> QED
      BY <3>1, <3>2
  <2>7. e \in Server
    <3> HIDE DEF d
    <3> QED
      BY <2>6, Write
  <2>8. g \in Server /\ g.sfs = f
    <3>1. f \in Frames \cup {NoTask}
      BY <1>1, Read
    <3> HIDE DEF e, f
    <3>2. g \in Server
      BY <2>7, <3>1, Write
    <3>3. g.sfs = f
      BY <2>7, Written
    <3> QED
      BY <3>2, <3>3
  <2>9. a \in Server /\ a.pending = "ADoneTask"
    <3> HIDE DEF g
    <3>1. a \in Server
      BY <2>8, Write DEF Actions
    <3>2. a.pending = "ADoneTask"
      BY <2>8, Written
    <3> QED
      BY <3>1, <3>2
  <2>10. GiveBackSpecial(r) = a
    <3>1. g = [r EXCEPT !.todo = Without(@, u), !.srcDone = u, !.tdaf = FALSE,
                        !.sfs = IF @ = u THEN NoTask ELSE @]
      BY <1>4
    <3>2. g.pending = "ANone"
      BY <1>4
    <3> HIDE DEF g
    <3>3. Ask(g, "ADoneTask") = a
      BY <3>2 DEF Ask, Check
    <3> QED
      BY <2>3, <3>1, <3>3 DEF GiveBackSpecial
  <2>11. /\ Rest(r, a) /\ a.todo = b.todo /\ a.done = r.done
         /\ a.srcDone = d.srcDone /\ a.sq = r.sq /\ a.sqa = r.sqa
         /\ a.dsmt = r.dsmt /\ a.toldTs = r.toldTs
         /\ a.quitStep = r.quitStep /\ a.crash = r.crash /\ a.free = r.free
         /\ a.sfs = g.sfs
    BY DEF Rest
  <2>40. a.connected
    BY <1>4
  <2>12. (a.sfs = s.sfs /\ a.sfs # u) \/ a.sfs = NoTask
    BY <2>2, <2>8, <2>11 DEF NoTask, Frames
  <2> HIDE DEF b, d, e, f, g, a
  <2>13. ASSUME NEW t \in Frames
         PROVE  /\ Listed(a.todo, t) = IF t = u THEN 0 ELSE Listed(s.todo, t)
                /\ Listed(a.todo, t) <= Listed(s.todo, t)
                /\ Listed(a.todo, t) + Listed(a.done, t) + Times(u = t)
                     = Listed(s.todo, t) + Listed(s.done, t)
    <3>1. Listed(a.todo, t) = IF t = u THEN 0 ELSE Listed(s.todo, t)
      BY <2>4, <2>5, <2>11
    <3>2. /\ Listed(s.todo, t) \in Nat /\ Listed(s.done, t) \in Nat
          /\ Listed(s.proc, t) \in Nat /\ Times(s.srcDone = t) \in {0, 1}
      BY <1>1, PlacesType
    <3>3. Listed(s.todo, t) <= 1
      BY <3>2 DEF Places
    <3>4. t = u => Listed(s.todo, t) = 1
      BY <2>2, <3>2, <3>3
    <3>5. a.done = s.done
      BY <1>4, <2>11
    <3> QED
      BY <3>1, <3>2, <3>4, <3>5 DEF Times
  <2>14. Rest(s, a)
    BY <1>4, <2>11 DEF Rest
  <2>15. a.srcDone = u
    BY <2>6, <2>11
  <2>16. a.sfs # NoTask => Listed(a.todo, a.sfs) = Listed(s.todo, a.sfs)
    <3>1. a.sfs # NoTask => a.sfs \in Frames
      BY <2>9, Read
    <3> QED
      BY <2>12, <2>13, <3>1
  <2>17. /\ a.connected /\ a.sq = s.sq /\ a.sqa = s.sqa
         /\ a.dsmt = s.dsmt /\ a.toldTs = s.toldTs /\ a.quitStep = s.quitStep
         /\ a.crash = s.crash /\ a.free = s.free
    BY <1>4, <2>11, <2>40
  <2>18. a \in Server /\ a.pending = "ADoneTask" /\ (a.sfs = s.sfs \/ a.sfs = NoTask)
    BY <2>9, <2>12
  <2>19. Calm(a) /\ Tame(s, a)
    BY <2>2, <2>13, <2>14, <2>15, <2>16, <2>17, <2>18, GiveBackCalmly
  <2> QED
    BY <2>10, <2>19
<1>9. give /\ s.done = <<>> => SpecialDone(s) # NoTask
  BY DEF CanDoneTask
<1>10. CASE get
  BY <1>5, <1>6, <1>10
<1>11. CASE give
  BY <1>5, <1>7, <1>8, <1>9, <1>11
<1>12. CASE ~get /\ ~give
  BY <1>5, <1>6, <1>12
<1> QED
  BY <1>10, <1>11, <1>12

\* What still waits is regarded as done if it is rendered; no task gets lost.
LEMMA DontStartCalm ==
  ASSUME NEW s, Calm(s), s.quitStep = 0
  PROVE  LET r == DontStartMoreTasks(s)
         IN  /\ Calm(r) /\ Tame(s, r) /\ r.dsmt /\ r.sfs = NoTask
             /\ r.connected = s.connected /\ r.pending = s.pending
             /\ r.quitStep = 0 /\ r.sq = s.sq
<1> DEFINE k == KillScheduledForStart(s)
           g == ScheduleGiveBackTasks(k, "none")
           d == [g EXCEPT !.dsmt = TRUE]
           e == [d EXCEPT !.todo = Only(s.todo, Frames \ Rendered(s))]
           r == [e EXCEPT !.done = s.done \o Only(s.todo, Rendered(s))]
<1>1. s \in Server /\ s.todo \in Seq(Frames) /\ s.done \in Seq(Frames)
  BY Read DEF Calm
<1>2. Calm(k) /\ Alike(s, k) /\ k.sfs = NoTask
  BY KillScheduledCalm
<1> HIDE DEF k
<1>3. Calm(g) /\ Alike(k, g) /\ g.sfs = NoTask
  BY <1>2, GiveBackCalm
<1> HIDE DEF g
<1>4. Alike(s, g) /\ g \in Server
  BY <1>2, <1>3 DEF Alike, Rest, Calm
<1>5. DontStartMoreTasks(s) = r
  <2>1. g.todo = s.todo /\ g.done = s.done
    BY <1>4 DEF Alike
  <2>2. r = [g EXCEPT !.dsmt = TRUE,
                      !.todo = Only(@, Frames \ Rendered(s)),
                      !.done = @ \o Only(s.todo, Rendered(s))]
    BY <2>1
  <2> HIDE DEF r
  <2> QED
    BY <2>2 DEF DontStartMoreTasks, g, k
<1>6. /\ Only(s.todo, Frames \ Rendered(s)) \in Seq(Frames)
      /\ \A t : Listed(Only(s.todo, Frames \ Rendered(s)), t) =
                  IF t \in Frames \ Rendered(s) THEN Listed(s.todo, t) ELSE 0
  <2> DEFINE P == Frames \ Rendered(s)
  <2> HIDE DEF P
  <2>1. \A t : /\ Only(s.todo, P) \in Seq(Frames)
               /\ Listed(Only(s.todo, P), t) = IF t \in P THEN Listed(s.todo, t) ELSE 0
    BY <1>1, ListedOnly
  <2> QED
    BY <2>1 DEF P
<1>7. /\ Only(s.todo, Rendered(s)) \in Seq(Frames)
      /\ \A t : Listed(Only(s.todo, Rendered(s)), t) =
                  IF t \in Rendered(s) THEN Listed(s.todo, t) ELSE 0
  <2> DEFINE P == Rendered(s)
  <2> HIDE DEF P
  <2>1. \A t : /\ Only(s.todo, P) \in Seq(Frames)
               /\ Listed(Only(s.todo, P), t) = IF t \in P THEN Listed(s.todo, t) ELSE 0
    BY <1>1, ListedOnly
  <2> QED
    BY <2>1 DEF P
<1>8. /\ s.done \o Only(s.todo, Rendered(s)) \in Seq(Frames)
      /\ \A t : Listed(s.done \o Only(s.todo, Rendered(s)), t) =
                  Listed(s.done, t) + Listed(Only(s.todo, Rendered(s)), t)
  <2> DEFINE q == Only(s.todo, Rendered(s))
  <2>1. q \in Seq(Frames)
    BY <1>7
  <2> HIDE DEF q
  <2>2. s.done \o q \in Seq(Frames)
    BY <1>1, <2>1, ConcatProperties
  <2>3. \A t : Listed(s.done \o q, t) = Listed(s.done, t) + Listed(q, t)
    BY <1>1, <2>1, ListedConcat
  <2> QED
    BY <2>2, <2>3 DEF q
<1>9. d \in Server /\ d.dsmt = TRUE
  <2>1. d \in Server
    BY <1>4, Write
  <2>2. d.dsmt = TRUE
    BY <1>4, Written
  <2> QED
    BY <2>1, <2>2
<1>10. e \in Server /\ e.todo = Only(s.todo, Frames \ Rendered(s))
  <2> HIDE DEF d
  <2>1. e \in Server
    BY <1>6, <1>9, Write
  <2>2. e.todo = Only(s.todo, Frames \ Rendered(s))
    BY <1>9, Written
  <2> QED
    BY <2>1, <2>2
<1>11. r \in Server /\ r.done = s.done \o Only(s.todo, Rendered(s))
  <2> HIDE DEF e
  <2>1. r \in Server
    BY <1>8, <1>10, Write
  <2>2. r.done = s.done \o Only(s.todo, Rendered(s))
    BY <1>10, Written
  <2> QED
    BY <2>1, <2>2
<1>12. r.todo = e.todo /\ r.dsmt = d.dsmt /\ Rest(g, r)
  BY DEF Rest
<1>13. /\ r.srcDone = g.srcDone /\ r.sq = g.sq /\ r.sqa = g.sqa
       /\ r.toldTs = g.toldTs /\ r.connected = g.connected
       /\ r.pending = g.pending /\ r.quitStep = g.quitStep
       /\ r.crash = g.crash /\ r.free = g.free /\ r.sfs = g.sfs
  OBVIOUS
<1> HIDE DEF d, e, r
<1>14. /\ Rest(s, r) /\ r.srcDone = s.srcDone /\ r.sq = s.sq /\ r.sqa = s.sqa
       /\ r.toldTs = s.toldTs /\ r.connected = s.connected
       /\ r.pending = s.pending /\ r.quitStep = s.quitStep
  BY <1>4, <1>12, <1>13 DEF Alike, Rest
<1>15. ASSUME NEW t \in Frames
       PROVE  /\ Listed(r.todo, t) <= Listed(s.todo, t)
              /\ Places(r, t) = Places(s, t)
  <2>1. Listed(r.todo, t) = IF t \in Frames \ Rendered(s) THEN Listed(s.todo, t) ELSE 0
    BY <1>6, <1>10, <1>12
  <2>2. Listed(r.done, t) = Listed(s.done, t)
                              + (IF t \in Rendered(s) THEN Listed(s.todo, t) ELSE 0)
    BY <1>7, <1>8, <1>11
  <2>3. /\ Listed(s.todo, t) \in Nat /\ Listed(s.proc, t) \in Nat
        /\ Listed(s.done, t) \in Nat /\ Times(s.srcDone = t) \in {0, 1}
    BY <1>1, PlacesType
  <2>4. r.proc = s.proc /\ r.srcDone = s.srcDone
    BY <1>14 DEF Rest
  <2> QED
    BY <2>1, <2>2, <2>3, <2>4 DEF Places
<1>16. Tame(s, r)
  BY <1>1, <1>11, <1>14, <1>15, RestTame
<1>17. Empty(s) => Empty(r)
  <2> SUFFICES ASSUME Empty(s) PROVE Empty(r)
    OBVIOUS
  <2> DEFINE q == s.todo
  <2>1. q \in Seq({}) /\ s.done = <<>>
    BY DEF Empty
  <2> HIDE DEF q
  <2>2. \A P : Only(q, P) = <<>>
    BY <2>1, OnlyNothing
  <2>3. r.todo = <<>> /\ r.done = <<>> \o <<>>
    BY <1>10, <1>11, <1>12, <2>1, <2>2 DEF q
  <2> QED
    BY <2>3 DEF Empty
<1>18. Chosen(r)
  <2>1. r.free # Nobody => r.cl[r.free].counted
    <3>1. r.free # Nobody => r.free \in Clients
      BY <1>11, Read
    <3> QED
      BY <1>3, <1>12, <1>13, <3>1 DEF Calm, Chosen, Rest
  <2> QED
    BY <1>3, <1>13, <1>14, <2>1 DEF Calm, Chosen, Rest
<1>19. Talk(r)
  BY <1>14 DEF Calm, Talk
<1>20. Over(r) /\ Early(r)
  BY <1>14, <1>17 DEF Calm, Over, Early, Rest, Quitting
<1>21. Calm(r)
  BY <1>3, <1>11, <1>13, <1>14, <1>18, <1>19, <1>20 DEF Calm, Rest
<1> QED
  BY <1>3, <1>5, <1>9, <1>12, <1>13, <1>14, <1>16, <1>21

----------------------------------------------------------------------------
(* Quitting *)

\* Quit may be scheduled when nothing is chosen that may not be done then.
LEMMA QuitCalm ==
  ASSUME NEW s, Calm(s), NEW r \in Server, Rest(s, r), s.quitStep = 0,
         r.todo = s.todo, r.done = s.done, r.srcDone = s.srcDone,
         r.dsmt = s.dsmt, r.sq >= s.sq, r.sqa = s.sqa, r.toldTs = s.toldTs,
         r.connected = s.connected, r.pending = s.pending, r.quitStep = s.quitStep,
         r.crash = s.crash, r.free = s.free, r.sfs = s.sfs \/ r.sfs = NoTask,
         r.sfs # NoTask => Processed(s, r.sfs)
  PROVE  Calm(r) /\ Tame(s, r)
<1>1. s \in Server
  BY DEF Calm
<1>2. Chosen(r)
  <2>1. \A t : Processed(r, t) = Processed(s, t)
    BY DEF Processed, Rest
  <2>2. r.free # Nobody => r.cl[r.free].counted
    <3>1. r.free # Nobody => r.free \in Clients
      BY Read
    <3> QED
      BY <3>1 DEF Calm, Chosen, Rest
  <2> QED
    BY <2>1, <2>2 DEF Calm, Chosen, Rest
<1>3. Quitting(s) => Quitting(r)
  <2>1. s.sq \in 0..2 /\ r.sq \in 0..2
    BY <1>1, Read
  <2> QED
    BY <2>1 DEF Quitting
<1>4. Over(r) /\ Early(r)
  BY <1>3 DEF Calm, Over, Early, Empty, Rest
<1>5. Talk(r)
  BY DEF Calm, Talk
<1>6. Calm(r)
  BY <1>2, <1>4, <1>5 DEF Calm, Rest
<1>7. \A t \in Frames : /\ Places(r, t) = Places(s, t)
                        /\ Listed(r.todo, t) <= Listed(s.todo, t)
  <2>1. \A t \in Frames : Listed(s.todo, t) \in Nat
    BY <1>1, PlacesType
  <2> QED
    BY <2>1 DEF Places, Rest
<1> QED
  BY <1>1, <1>6, <1>7, RestTame

\* Scheduling a quit, and trying again.
LEMMA SqCalm ==
  ASSUME NEW s, Calm(s), s.quitStep = 0, NEW v \in 0..2, v >= s.sq,
         s.sfs # NoTask => Processed(s, s.sfs)
  PROVE  LET r == ReSched([s EXCEPT !.sq = v]) IN Calm(r) /\ Tame(s, r)
<1> DEFINE a == [s EXCEPT !.sq = v]
<1>1. s \in Server
  BY DEF Calm
<1>2. a \in Server
  BY <1>1, Write
<1>3. a.sq = v
  BY <1>1, Written
<1>4. Rest(s, a)
  BY DEF Rest
<1>5. /\ a.todo = s.todo /\ a.done = s.done /\ a.srcDone = s.srcDone
      /\ a.dsmt = s.dsmt /\ a.sqa = s.sqa /\ a.toldTs = s.toldTs
      /\ a.connected = s.connected /\ a.pending = s.pending
      /\ a.quitStep = s.quitStep /\ a.crash = s.crash /\ a.free = s.free
      /\ a.sfs = s.sfs
  OBVIOUS
<1> HIDE DEF a
<1>6. a.sq >= s.sq
  BY <1>3
<1>7. Calm(a) /\ Tame(s, a)
  BY <1>2, <1>4, <1>5, <1>6, QuitCalm
<1>8. Calm(ReSched(a)) /\ Tame(a, ReSched(a))
  BY <1>7, ReSchedCalm
<1>9. Tame(s, ReSched(a))
  BY <1>1, <1>2, <1>7, <1>8, TameTrans DEF Calm
<1> QED
  BY <1>8, <1>9 DEF a

LEMMA ScheduleQuitCalm ==
  ASSUME NEW s, Calm(s), s.quitStep = 0
  PROVE  Calm(ScheduleQuit(s)) /\ Tame(s, ScheduleQuit(s))
<1> DEFINE f == IF s.sfs # NoTask /\ ~Processed(s, s.sfs) THEN NoTask ELSE s.sfs
           a == [s EXCEPT !.sq = Larger(s.sq, 1)]
           b == [a EXCEPT !.sfs = f]
           g == ScheduleGiveBackTasks(b, "running")
<1>1. s \in Server /\ s.sq \in 0..2 /\ s.sfs \in Frames \cup {NoTask}
  BY Read DEF Calm
<1>2. Larger(s.sq, 1) \in 0..2 /\ Larger(s.sq, 1) >= s.sq
  BY <1>1 DEF Larger
<1>3. a \in Server /\ a.sq = Larger(s.sq, 1)
  <2>1. a \in Server
    BY <1>1, <1>2, Write
  <2>2. a.sq = Larger(s.sq, 1)
    BY <1>1, Written
  <2> QED
    BY <2>1, <2>2
<1>4. b \in Server /\ b.sfs = f
  <2>1. f \in Frames \cup {NoTask}
    BY <1>1
  <2> HIDE DEF a, f
  <2>2. b \in Server
    BY <1>3, <2>1, Write
  <2>3. b.sfs = f
    BY <1>3, Written
  <2> QED
    BY <2>2, <2>3
<1>5. Rest(s, b) /\ b.sq = a.sq
  BY DEF Rest
<1>6. /\ b.todo = s.todo /\ b.done = s.done /\ b.srcDone = s.srcDone
      /\ b.dsmt = s.dsmt /\ b.sqa = s.sqa /\ b.toldTs = s.toldTs
      /\ b.connected = s.connected /\ b.pending = s.pending
      /\ b.quitStep = s.quitStep /\ b.crash = s.crash /\ b.free = s.free
  OBVIOUS
<1>7. ScheduleQuit(s) = ReSched(g)
  BY DEF ScheduleQuit
<1>8. b.sfs = s.sfs \/ b.sfs = NoTask
  BY <1>4
<1>9. b.sfs # NoTask => Processed(s, b.sfs)
  BY <1>4
<1> HIDE DEF a, b, g
<1>10. b.sq >= s.sq
  BY <1>2, <1>3, <1>5
<1>11. Calm(b) /\ Tame(s, b)
  BY <1>4, <1>5, <1>6, <1>8, <1>9, <1>10, QuitCalm
<1>12. Calm(g) /\ Tame(b, g)
  BY <1>11, GiveBackCalm DEF g
<1>13. Calm(ReSched(g)) /\ Tame(g, ReSched(g))
  BY <1>12, ReSchedCalm
<1>14. Tame(s, g)
  BY <1>1, <1>11, <1>12, TameTrans DEF Calm
<1>15. Tame(s, ReSched(g))
  BY <1>1, <1>12, <1>13, <1>14, TameTrans DEF Calm
<1> QED
  BY <1>7, <1>13, <1>15

LEMMA ScheduleKillCalm ==
  ASSUME NEW s, Calm(s), s.quitStep = 0
  PROVE  Calm(ScheduleKill(s)) /\ Tame(s, ScheduleKill(s))
<1> DEFINE d == DontStartMoreTasks(s)
           a == [d EXCEPT !.sq = 2]
           b == [a EXCEPT !.kill = TRUE]
<1>1. s \in Server
  BY DEF Calm
<1>2. Calm(d) /\ Tame(s, d) /\ d.sfs = NoTask /\ d.quitStep = 0
  BY DontStartCalm
<1>3. ScheduleKill(s) = ReSched(b)
  BY DEF ScheduleKill
<1> HIDE DEF d
<1>4. d \in Server /\ d.sq \in 0..2
  BY <1>2, Read DEF Calm
<1>5. a \in Server
  <2>1. 2 \in 0..2
    OBVIOUS
  <2> QED
    BY <1>4, <2>1, Write
<1>6. a.sq = 2
  BY <1>4, Written
<1>7. b \in Server
  BY <1>5, Write
<1>8. Rest(d, b) /\ b.sq = a.sq
  BY DEF Rest
<1>9. /\ b.todo = d.todo /\ b.done = d.done /\ b.srcDone = d.srcDone
      /\ b.dsmt = d.dsmt /\ b.sqa = d.sqa /\ b.toldTs = d.toldTs
      /\ b.connected = d.connected /\ b.pending = d.pending
      /\ b.quitStep = d.quitStep /\ b.crash = d.crash /\ b.free = d.free
      /\ b.sfs = d.sfs
  OBVIOUS
<1> HIDE DEF a, b
<1>10. b.sq >= d.sq
  BY <1>4, <1>6, <1>8
<1>11. Calm(b) /\ Tame(d, b)
  BY <1>2, <1>7, <1>8, <1>9, <1>10, QuitCalm
<1>12. Calm(ReSched(b)) /\ Tame(b, ReSched(b))
  BY <1>11, ReSchedCalm
<1>13. Tame(s, b)
  BY <1>1, <1>2, <1>4, <1>7, <1>11, TameTrans
<1>14. Tame(s, ReSched(b))
  BY <1>1, <1>7, <1>12, <1>13, TameTrans DEF Calm
<1> QED
  BY <1>3, <1>12, <1>14

\* The number of clients has changed.
LEMMA NewJobsCalm ==
  ASSUME NEW s, Calm(s), NEW changed \in BOOLEAN
  PROVE  LET r == CheckStartNewJobs(s, changed) IN Calm(r) /\ Tame(s, r)
<1> DEFINE k == KillScheduledForStart(s)
           v == IF Idle(s) /\ Quitting(s) THEN k.sq ELSE 2
           a == ReSched([k EXCEPT !.sq = v])
           c == CheckStartTasks(s)
           q == ReSched([c EXCEPT !.sq = Larger(c.sq, c.sqa)])
<1>1. s \in Server /\ Tame(s, s)
  BY StillSelf DEF Calm
<1>2. Calm(k) /\ Tame(s, k) /\ Alike(s, k) /\ k.sfs = NoTask
  BY KillScheduledCalm
<1>3. Calm(c) /\ Tame(s, c) /\ Alike(s, c)
  BY CheckStartTasksCalm
<1>4. CheckStartNewJobs(s, changed) = s \/ s.quitStep = 0
  BY <1>1, Read DEF CheckStartNewJobs
<1>5. CheckStartNewJobs(s, changed) \in {s, a, c, q}
  BY DEF CheckStartNewJobs, QuitIfAllStarted
<1>6. CheckStartNewJobs(s, changed) = q => c.sfs = NoTask \/ q = s \/ q = a \/ q = c
  BY DEF CheckStartNewJobs, QuitIfAllStarted
<1> HIDE DEF k, c
<1>7. s.quitStep = 0 => Calm(a) /\ Tame(s, a)
  <2> SUFFICES ASSUME s.quitStep = 0 PROVE Calm(a) /\ Tame(s, a)
    OBVIOUS
  <2>1. k \in Server /\ k.sq \in 0..2
    BY <1>2, Read DEF Calm
  <2>2. v \in 0..2 /\ v >= k.sq
    BY <2>1
  <2>3. k.quitStep = 0
    BY <1>2 DEF Alike
  <2> HIDE DEF v
  <2>4. Calm(a) /\ Tame(k, a)
    BY <1>2, <2>2, <2>3, SqCalm
  <2> HIDE DEF a
  <2> QED
    BY <1>1, <1>2, <2>1, <2>4, TameTrans DEF Calm
<1>8. s.quitStep = 0 /\ c.sfs = NoTask => Calm(q) /\ Tame(s, q)
  <2> SUFFICES ASSUME s.quitStep = 0, c.sfs = NoTask PROVE Calm(q) /\ Tame(s, q)
    OBVIOUS
  <2> DEFINE w == Larger(c.sq, c.sqa)
  <2>1. c \in Server /\ c.sq \in 0..2 /\ c.sqa \in 0..1
    BY <1>3, Read DEF Calm
  <2>2. w \in 0..2 /\ w >= c.sq
    BY <2>1 DEF Larger
  <2>3. c.quitStep = 0
    BY <1>3 DEF Alike
  <2> HIDE DEF w
  <2>4. Calm(q) /\ Tame(c, q)
    BY <1>3, <2>2, <2>3, SqCalm DEF w
  <2> HIDE DEF q
  <2> QED
    BY <1>1, <1>3, <2>1, <2>4, TameTrans DEF Calm
<1> HIDE DEF a, q
<1>9. Calm(s)
  OBVIOUS
<1> QED
  BY <1>1, <1>3, <1>4, <1>5, <1>6, <1>7, <1>8, <1>9

LEMMA TellManagerCalm ==
  ASSUME NEW s, Calm(s), NEW changed \in BOOLEAN
  PROVE  LET r == TellManager(s, changed) IN Calm(r) /\ Tame(s, r)
  BY NewJobsCalm, StillSelf DEF TellManager, Calm

\* The last steps of the program: nothing is to be done.
Leaving(s) ==
  /\ s.started /\ s.proc = <<>> /\ ~s.connected /\ s.pending = "ANone"
  /\ ~MustConnect(s) /\ ("CONT" \notin Signals => Empty(s))

LEMMA QuitStepCalm ==
  ASSUME NEW s, Calm(s), Leaving(s), NEW v \in 0..5
  PROVE  LET r == [s EXCEPT !.quitStep = v]
         IN  Calm(r) /\ Tame(s, r)
<1> DEFINE r == [s EXCEPT !.quitStep = v]
<1>1. s \in Server
  BY DEF Calm
<1>2. r \in Server
  BY <1>1, Write
<1>3. Rest(s, r)
  BY DEF Rest
<1>4. /\ r.todo = s.todo /\ r.done = s.done /\ r.srcDone = s.srcDone
      /\ r.dsmt = s.dsmt /\ r.sq = s.sq /\ r.sqa = s.sqa /\ r.toldTs = s.toldTs
      /\ r.pending = s.pending /\ r.tdaf = s.tdaf
      /\ r.crash = s.crash /\ r.free = s.free /\ r.sfs = s.sfs
  OBVIOUS
<1>5. ~r.connected
  BY DEF Leaving
<1> HIDE DEF r
<1>6. ~MustConnect(r)
  <2>1. Halted(r) = Halted(s)
    BY <1>3 DEF Halted, Rest
  <2> QED
    BY <1>3, <1>4, <2>1, SameMustConnect DEF Leaving, Rest
<1>7. Chosen(r)
  <2>1. \A t : Processed(r, t) = Processed(s, t)
    BY <1>3 DEF Processed, Rest
  <2>2. r.free # Nobody => r.cl[r.free].counted
    <3>1. r.free # Nobody => r.free \in Clients
      BY <1>2, Read
    <3> QED
      BY <1>3, <1>4, <3>1 DEF Calm, Chosen, Rest
  <2> QED
    BY <1>3, <1>4, <2>1, <2>2 DEF Calm, Chosen, Leaving, Rest
<1>8. Talk(r)
  BY <1>4, <1>5 DEF Calm, Leaving, Talk
<1>9. Over(r) /\ Early(r)
  BY <1>3, <1>4, <1>5, <1>6 DEF Calm, Leaving, Over, Early, Empty, Quitting, Rest
<1>10. Calm(r)
  BY <1>2, <1>3, <1>4, <1>7, <1>8, <1>9 DEF Calm, Rest
<1>11. \A t \in Frames : /\ Places(r, t) = Places(s, t)
                         /\ Listed(r.todo, t) <= Listed(s.todo, t)
  <2>1. \A t \in Frames : Listed(s.todo, t) \in Nat
    BY <1>1, PlacesType
  <2> QED
    BY <1>3, <1>4, <2>1 DEF Places, Rest
<1>12. Tame(s, r)
  BY <1>1, <1>2, <1>3, <1>11, RestTame
<1> QED
  BY <1>10, <1>12 DEF r

LEMMA ActuallyQuitCalm ==
  ASSUME NEW s, Calm(s), Leaving(s), s.quitStep = 0
  PROVE  Calm(ActuallyQuit(s)) /\ Tame(s, ActuallyQuit(s))
<1> DEFINE a == [s EXCEPT !.quitStep = 1]
<1>1. ActuallyQuit(s) = ReSched(a)
  BY DEF ActuallyQuit, Check
<1>2. Calm(a) /\ Tame(s, a)
  <2>1. 1 \in 0..5
    OBVIOUS
  <2> QED
    BY <2>1, QuitStepCalm
<1> HIDE DEF a
<1>3. Calm(ReSched(a)) /\ Tame(a, ReSched(a))
  BY <1>2, ReSchedCalm
<1>4. Tame(s, ReSched(a))
  BY <1>2, <1>3, TameTrans DEF Calm
<1> QED
  BY <1>1, <1>3, <1>4

LEMMA QuittingNowDoneCalm ==
  ASSUME NEW s, Calm(s)
  PROVE  Calm(QuittingNowDone(s)) /\ Tame(s, QuittingNowDone(s))
  BY ReSchedCalm, DieCalm, StillSelf DEF QuittingNowDone, Calm

\* The first client is there, or there will be none.
LEMMA StartProcessingCalm ==
  ASSUME NEW s, Calm(s), s.started, s.quitStep = 0, s.proc = <<>>, ~s.toldTs,
         "CONT" \notin Signals => Empty(s)
  PROVE  Calm(StartProcessing(s)) /\ Tame(s, StartProcessing(s))
<1>1. CASE MayConnect(s) /\ ~MustConnect(s)
  <2>1. ~s.connected /\ s.pending # "AConnect"
    BY <1>1 DEF MayConnect
  <2>2. s.pending = "ANone"
    <3>1. s.pending \in Actions
      BY Read DEF Calm
    <3> QED
      BY <2>1, <3>1 DEF Actions, Calm, Talk
  <2> QED
    BY <1>1, <2>1, <2>2, ActuallyQuitCalm DEF Leaving, StartProcessing
<1>2. CASE ~(MayConnect(s) /\ ~MustConnect(s))
  BY <1>2, CheckExchangeCalm DEF StartProcessing
<1> QED
  BY <1>1, <1>2

LEMMA StartFailedCalm ==
  ASSUME NEW s, Calm(s), s.quitStep = 0, s.sfs = NoTask
  PROVE  Calm(StartFailed(s)) /\ Tame(s, StartFailed(s))
<1> DEFINE g == ScheduleGiveBackTasks(s, "running")
           r == IF s.todo # <<>> \/ s.proc # <<>> THEN g ELSE s
<1>1. Calm(g) /\ Tame(s, g) /\ Alike(s, g) /\ g.sfs = s.sfs
  BY GiveBackCalm
<1>2. Tame(s, s) /\ s \in Server
  BY StillSelf DEF Calm
<1> HIDE DEF g
<1>3. Calm(r) /\ Tame(s, r) /\ r.sfs = NoTask /\ r.quitStep = 0
  BY <1>1, <1>2 DEF Alike
<1>4. StartFailed(s) = ReSched([r EXCEPT !.sq = 2])
  BY DEF StartFailed, g
<1> HIDE DEF r
<1>5. r \in Server /\ r.sq \in 0..2 /\ 2 \in 0..2 /\ 2 >= r.sq
  BY <1>3, Read DEF Calm
<1>6. Calm(StartFailed(s)) /\ Tame(r, StartFailed(s))
  BY <1>3, <1>4, <1>5, SqCalm
<1> QED
  BY <1>2, <1>3, <1>6, TameTrans DEF Calm

----------------------------------------------------------------------------
(* Stop and continue *)

\* The common state may change as long as it does not wake who quits.
LEMMA EssCalm ==
  ASSUME NEW s, Calm(s), NEW ess \in Runs,
         s.quitStep = 0 \/ (Halted(s) <=> ess \in {"Stopping", "Stopped"}),
         "CONT" \in Signals \/ s.started \/ ess \in {"Running", "Stopped"}
  PROVE  Calm([s EXCEPT !.ess = ess])
<1> DEFINE r == [s EXCEPT !.ess = ess]
<1>1. s \in Server
  BY DEF Calm
<1>2. r \in Server
  BY <1>1, Write
<1>3. r.ess = ess
  BY <1>1, Written
<1>4. /\ r.todo = s.todo /\ r.proc = s.proc /\ r.done = s.done
      /\ r.srcDone = s.srcDone /\ r.stage = s.stage /\ r.list = s.list
      /\ r.trigger = s.trigger /\ r.noRecon = s.noRecon
      /\ r.started = s.started /\ r.shallQuit = s.shallQuit
      /\ r.dsmt = s.dsmt /\ r.sq = s.sq /\ r.sqa = s.sqa /\ r.tdaf = s.tdaf
      /\ r.toldIf = s.toldIf /\ r.toldTs = s.toldTs
      /\ r.connected = s.connected /\ r.pending = s.pending
      /\ r.quitStep = s.quitStep /\ r.crash = s.crash /\ r.cl = s.cl
      /\ r.free = s.free /\ r.sfs = s.sfs
  OBVIOUS
<1> HIDE DEF r
<1>5. s.quitStep = 0 \/ MustConnect(r) = MustConnect(s)
  <2> SUFFICES ASSUME s.quitStep # 0 PROVE MustConnect(r) = MustConnect(s)
    OBVIOUS
  <2>1. Halted(r) = Halted(s)
    BY <1>3 DEF Halted
  <2> QED
    BY <1>4, <2>1, SameMustConnect
<1>6. Chosen(r)
  <2>1. \A t : Processed(r, t) = Processed(s, t)
    BY <1>4 DEF Processed
  <2> QED
    BY <1>4, <2>1 DEF Calm, Chosen
<1>7. Talk(r)
  BY <1>4 DEF Calm, Talk
<1>8. Over(r)
  BY <1>4, <1>5 DEF Calm, Over, Empty, Quitting
<1>9. Early(r)
  BY <1>3, <1>4 DEF Calm, Early, Empty
<1>10. Calm(r)
  BY <1>2, <1>4, <1>6, <1>7, <1>8, <1>9 DEF Calm
<1> QED
  BY <1>10 DEF r

LEMMA ChangeEssCalm ==
  ASSUME NEW s, Calm(s), NEW ess \in Runs,
         s.quitStep = 0 \/ (Halted(s) <=> ess \in {"Stopping", "Stopped"}),
         "CONT" \in Signals \/ s.started \/ ess = "Stopped"
  PROVE  LET r == ChangeExecStopStatus(s, ess)
         IN  /\ Calm(r) /\ Still(s, r) /\ r.ess = ess
             /\ \A c \in Clients : r.cl[c].run = s.cl[c].run /\ r.cl[c].pend = s.cl[c].pend
<1> DEFINE a == [s EXCEPT !.ess = ess]
           r == ChangeExecStopStatus(s, ess)
           e == CheckStartExchange(a)
           c == CheckStartTasks(e)
<1>1. s \in Server
  BY DEF Calm
<1>2. Calm(a)
  BY EssCalm
<1>3. a \in Server /\ a.ess = ess
  BY <1>1, <1>2, Written DEF Calm
<1>4. a.started = s.started
  OBVIOUS
<1>5. Still(s, a) /\ \A d \in Clients : a.cl[d].run = s.cl[d].run /\ a.cl[d].pend = s.cl[d].pend
  <2>1. \A t \in Frames : Listed(s.todo, t) \in Nat
    BY <1>1, PlacesType
  <2> QED
    BY <2>1 DEF Still, Places
<1>6. r = CASE ess \in {"Continuing", "Running"} -> ReSched(c)
            [] ess = "Stopping" -> KillScheduledForStart(a)
            [] ess = "Stopped"  -> a
  BY DEF ChangeExecStopStatus
<1> HIDE DEF a, r
<1>7. Calm(r) /\ Tame(a, r)
  <2>1. CASE ess \in {"Continuing", "Running"}
    <3>1. Calm(e) /\ Tame(a, e)
      BY <1>2, <1>4, <2>1, CheckExchangeCalm
    <3> HIDE DEF e
    <3>2. Calm(c) /\ Tame(e, c)
      BY <3>1, CheckStartTasksCalm
    <3> HIDE DEF c
    <3>3. Calm(ReSched(c)) /\ Tame(c, ReSched(c))
      BY <3>2, ReSchedCalm
    <3>4. Tame(a, c)
      BY <1>3, <3>1, <3>2, TameTrans DEF Calm
    <3>5. Tame(a, ReSched(c))
      BY <1>3, <3>2, <3>3, <3>4, TameTrans DEF Calm
    <3>6. r = ReSched(c)
      BY <1>6, <2>1
    <3> QED
      BY <3>3, <3>5, <3>6
  <2>2. CASE ess = "Stopping"
    <3>1. r = KillScheduledForStart(a)
      BY <1>6, <2>2
    <3> QED
      BY <1>2, <3>1, KillScheduledCalm
  <2>3. CASE ess = "Stopped"
    <3>1. r = a
      BY <1>6, <2>3
    <3> QED
      BY <1>2, <1>3, <3>1, StillSelf
  <2> QED
    BY <2>1, <2>2, <2>3 DEF Runs
<1>8. Still(s, r)
  BY <1>1, <1>3, <1>5, <1>7, StillTrans DEF Calm, Tame
<1>9. r.ess = ess /\ \A d \in Clients : r.cl[d].run = s.cl[d].run /\ r.cl[d].pend = s.cl[d].pend
  BY <1>3, <1>5, <1>7 DEF Tame
<1> QED
  BY <1>7, <1>8, <1>9 DEF r

\* The user stops or continues the program: all clients are told.
LEMMA HandleStopContCalm ==
  ASSUME NEW s, Calm(s), s.quitStep = 0, \A c \in Clients : Settled(s, c),
         NEW stop \in BOOLEAN, ~stop => "CONT" \in Signals
  PROVE  LET r == HandleStopCont(s, stop)
         IN  Calm(r) /\ Still(s, r) /\ \A c \in Clients : Settled(r, c)
<1> DEFINE will == IF stop THEN "Stopping" ELSE "Continuing"
           ess == IF Up(s) = {} THEN IF stop THEN "Stopped" ELSE "Running"
                  ELSE IF stop THEN "Stopping" ELSE "Continuing"
           cl == [c \in Clients |-> IF c \in Up(s)
                    THEN [s.cl[c] EXCEPT !.pend = @ + 1, !.run = will]
                    ELSE s.cl[c]]
           a == [s EXCEPT !.cl = cl]
           r == ChangeExecStopStatus(a, ess)
<1>1. s \in Server
  BY DEF Calm
<1>2. will \in Runs /\ ess \in Runs
  BY DEF Runs
<1>3. HandleStopCont(s, stop) = r
  BY DEF HandleStopCont, StopContTasks
<1>4. ASSUME NEW c \in Clients
      PROVE  /\ cl[c] \in ClientRecord
             /\ cl[c].st = s.cl[c].st /\ cl[c].counted = s.cl[c].counted
             /\ cl[c].jobs = s.cl[c].jobs
             /\ s.cl[c].st = "up" => cl[c].pend > 0 /\ cl[c].run = will
             /\ s.cl[c].st # "up" => cl[c].pend = s.cl[c].pend /\ cl[c].run = s.cl[c].run
  <2>1. s.cl[c] \in ClientRecord
    BY <1>1, Read
  <2>2. c \in Up(s) <=> s.cl[c].st = "up"
    BY DEF Up
  <2> DEFINE k == s.cl[c]
             m == [k EXCEPT !.pend = k.pend + 1]
             n == [m EXCEPT !.run = will]
  <2>3. cl[c] = IF c \in Up(s) THEN n ELSE k
    OBVIOUS
  <2> HIDE DEF cl, will, ess, k
  <2>4. k \in ClientRecord
    BY <2>1 DEF k
  <2>5. m \in ClientRecord /\ m.pend = k.pend + 1 /\ k.pend \in Nat
    BY <2>4 DEF ClientRecord
  <2>6. m.st = k.st /\ m.counted = k.counted /\ m.jobs = k.jobs
    OBVIOUS
  <2> HIDE DEF m
  <2>7. n \in ClientRecord /\ n.run = will
    BY <1>2, <2>5 DEF ClientRecord
  <2>8. n.st = m.st /\ n.counted = m.counted /\ n.jobs = m.jobs /\ n.pend = m.pend
    OBVIOUS
  <2> HIDE DEF n
  <2> QED
    BY <2>2, <2>3, <2>4, <2>5, <2>6, <2>7, <2>8 DEF k
<1>5. cl \in [Clients -> ClientRecord]
  BY <1>4
<1> HIDE DEF cl
<1>6. a \in Server
  BY <1>1, <1>5, Write
<1>7. a.cl = cl
  BY <1>1, Written
<1>8. /\ a.todo = s.todo /\ a.proc = s.proc /\ a.done = s.done
      /\ a.srcDone = s.srcDone /\ a.stage = s.stage /\ a.list = s.list
      /\ a.rtes = s.rtes /\ a.ftes = s.ftes /\ a.ldrc = s.ldrc
      /\ a.parts = s.parts /\ a.next = s.next /\ a.recon = s.recon
      /\ a.trigger = s.trigger /\ a.noRecon = s.noRecon
      /\ a.started = s.started /\ a.shallQuit = s.shallQuit
      /\ a.dsmt = s.dsmt /\ a.sq = s.sq /\ a.sqa = s.sqa /\ a.tdaf = s.tdaf
      /\ a.toldIf = s.toldIf /\ a.toldTs = s.toldTs /\ a.ess = s.ess
      /\ a.connected = s.connected /\ a.pending = s.pending
      /\ a.quitStep = s.quitStep /\ a.crash = s.crash
      /\ a.free = s.free /\ a.sfs = s.sfs
  OBVIOUS
<1> HIDE DEF a
<1>9. Calm(a)
  <2>1. Chosen(a)
    <3>1. \A t : Processed(a, t) = Processed(s, t)
      BY <1>8 DEF Processed
    <3>2. a.free # Nobody => a.cl[a.free].counted
      <4>1. a.free # Nobody => a.free \in Clients
        BY <1>6, Read
      <4> QED
        BY <1>4, <1>7, <1>8, <4>1 DEF Calm, Chosen
    <3> QED
      BY <1>8, <3>1, <3>2 DEF Calm, Chosen
  <2>2. Talk(a)
    BY <1>8 DEF Calm, Talk
  <2>3. Over(a)
    BY <1>8 DEF Calm, Over, Empty, Quitting
  <2>4. Early(a)
    BY <1>8 DEF Calm, Early, Empty
  <2>5. \A c \in Clients : /\ a.cl[c].st = "up" => a.cl[c].counted
                           /\ a.cl[c].counted => a.started
    BY <1>4, <1>7, <1>8 DEF Calm
  <2> QED
    BY <1>6, <1>8, <2>1, <2>2, <2>3, <2>4, <2>5 DEF Calm
<1>10. Still(s, a)
  <2>1. \A t \in Frames : Listed(s.todo, t) \in Nat
    BY <1>1, PlacesType
  <2>2. \A t \in Frames : Places(a, t) = Places(s, t)
    BY <1>8 DEF Places
  <2> QED
    BY <1>4, <1>7, <1>8, <2>1, <2>2 DEF Still
<1>11. "CONT" \in Signals \/ a.started \/ ess = "Stopped"
  <2>1. ASSUME Up(s) # {} PROVE s.started
    BY <2>1 DEF Calm, Up
  <2> QED
    BY <1>8, <2>1
<1> HIDE DEF ess
<1>12. /\ Calm(r) /\ Still(a, r) /\ r.ess = ess
       /\ \A c \in Clients : r.cl[c].run = a.cl[c].run /\ r.cl[c].pend = a.cl[c].pend
  BY <1>2, <1>8, <1>9, <1>11, ChangeEssCalm
<1> HIDE DEF r
<1>13. Still(s, r)
  BY <1>1, <1>6, <1>10, <1>12, StillTrans DEF Calm
<1>14. ASSUME NEW c \in Clients PROVE Settled(r, c)
  <2>0. s.cl[c].st = r.cl[c].st
    BY <1>13 DEF Still
  <2>5. r.cl[c].st = "connecting" => r.cl[c].run = "Running" /\ r.cl[c].pend = 0
    BY <1>4, <1>7, <1>12, <2>0 DEF Settled
  <2> SUFFICES ASSUME r.cl[c].st = "up" PROVE Settled(r, c)
    BY <2>5 DEF Settled
  <2>1. s.cl[c].st = "up"
    BY <2>0
  <2>2. r.cl[c].pend > 0 /\ r.cl[c].run = will
    BY <1>4, <1>7, <1>12, <2>1
  <2>3. Up(s) # {}
    BY <2>1 DEF Up
  <2>4. r.ess = will
    BY <1>12, <2>3 DEF ess
  <2> QED
    BY <2>2, <2>4 DEF Settled
<1> QED
  BY <1>3, <1>12, <1>13, <1>14

\* The interface looks whether all its clients have stopped or go on.
LEMMA CheckExecStopCalm ==
  ASSUME NEW s, Calm(s), \A c \in Clients : Settled(s, c)
  PROVE  LET r == CheckExecStopStatusChange(s)
         IN  Calm(r) /\ Still(s, r) /\ \A c \in Clients : Settled(r, c)
<1> DEFINE live  == {c \in Up(s) : s.cl[c].counted}
           moves == \E c \in live : s.cl[c].pend > 0
           has(run) == \E c \in live : s.cl[c].pend = 0 /\ s.cl[c].run = run
           r == CheckExecStopStatusChange(s)
<1>1. s \in Server /\ s.ess \in Runs
  BY Read DEF Calm
<1>2. live = {c \in Clients : s.cl[c].st = "up"}
  BY DEF Calm, Up
<1>3. \A c \in Clients : s.cl[c].pend \in Nat /\ s.cl[c].run \in Runs
  <2> SUFFICES ASSUME NEW c \in Clients PROVE s.cl[c].pend \in Nat /\ s.cl[c].run \in Runs
    OBVIOUS
  <2>1. s.cl[c] \in ClientRecord
    BY <1>1, Read
  <2> QED
    BY <2>1 DEF ClientRecord
<1>4. Still(s, s)
  BY <1>1, StillSelf
<1>5. "CONT" \notin Signals => s.started \/ s.ess \in {"Running", "Stopped"}
  BY DEF Calm, Early
<1>6. CASE s.ess = "Stopping"
  <2>1. ~has("Running") /\ ~has("Continuing")
    BY <1>2, <1>6 DEF Settled
  <2>2. r = IF ~has("Stopping") /\ ~moves THEN ChangeExecStopStatus(s, "Stopped") ELSE s
    BY <1>6, <2>1 DEF CheckExecStopStatusChange, Check
  <2>3. CASE ~moves /\ ~has("Stopping")
    <3> DEFINE q == ChangeExecStopStatus(s, "Stopped")
    <3>1. /\ Calm(q) /\ Still(s, q) /\ q.ess = "Stopped"
          /\ \A c \in Clients : q.cl[c].run = s.cl[c].run /\ q.cl[c].pend = s.cl[c].pend
      BY <1>6, ChangeEssCalm DEF Halted, Runs
    <3>2. r = q
      BY <2>2, <2>3
    <3> HIDE DEF q, r
    <3>3. ASSUME NEW c \in Clients PROVE Settled(q, c)
      <4>3. q.cl[c].st = s.cl[c].st /\ Settled(s, c)
        BY <3>1 DEF Still
      <4>4. q.cl[c].st = "connecting" => q.cl[c].run = "Running" /\ q.cl[c].pend = 0
        BY <3>1, <4>3 DEF Settled
      <4> SUFFICES ASSUME q.cl[c].st = "up" PROVE Settled(q, c)
        BY <4>4 DEF Settled
      <4>1. s.cl[c].st = "up" /\ Settled(s, c)
        BY <4>3
      <4>2. s.cl[c].pend = 0
        BY <1>2, <1>3, <2>3, <4>1
      <4> QED
        BY <1>6, <3>1, <4>1, <4>2 DEF Settled
    <3> QED
      BY <3>1, <3>2, <3>3 DEF r
  <2>4. CASE ~(~moves /\ ~has("Stopping"))
    BY <1>4, <2>2, <2>4
  <2> QED
    BY <2>3, <2>4
<1>7. CASE s.ess = "Continuing"
  <2>1. ~has("Stopped") /\ ~has("Stopping")
    BY <1>2, <1>7 DEF Settled
  <2>2. r = IF ~has("Continuing") /\ ~moves THEN ChangeExecStopStatus(s, "Running")
            ELSE IF has("Running") THEN ChangeExecStopStatus(s, "Continuing") ELSE s
    BY <1>7, <2>1 DEF CheckExecStopStatusChange, Check
  <2>3. "CONT" \in Signals \/ s.started
    BY <1>5, <1>7
  <2>4. CASE ~moves /\ ~has("Continuing")
    <3> DEFINE q == ChangeExecStopStatus(s, "Running")
    <3>1. /\ Calm(q) /\ Still(s, q) /\ q.ess = "Running"
          /\ \A c \in Clients : q.cl[c].run = s.cl[c].run /\ q.cl[c].pend = s.cl[c].pend
      BY <1>7, <2>3, ChangeEssCalm DEF Halted, Runs
    <3>2. r = q
      BY <2>2, <2>4
    <3> HIDE DEF q, r
    <3>3. ASSUME NEW c \in Clients PROVE Settled(q, c)
      <4>3. q.cl[c].st = s.cl[c].st /\ Settled(s, c)
        BY <3>1 DEF Still
      <4>4. q.cl[c].st = "connecting" => q.cl[c].run = "Running" /\ q.cl[c].pend = 0
        BY <3>1, <4>3 DEF Settled
      <4> SUFFICES ASSUME q.cl[c].st = "up" PROVE Settled(q, c)
        BY <4>4 DEF Settled
      <4>1. s.cl[c].st = "up" /\ Settled(s, c)
        BY <4>3
      <4>2. s.cl[c].pend = 0
        BY <1>2, <1>3, <2>4, <4>1
      <4> QED
        BY <1>7, <3>1, <4>1, <4>2 DEF Settled
    <3> QED
      BY <3>1, <3>2, <3>3 DEF r
  <2>5. CASE ~(~moves /\ ~has("Continuing")) /\ has("Running")
    <3> DEFINE q == ChangeExecStopStatus(s, "Continuing")
    <3>1. /\ Calm(q) /\ Still(s, q) /\ q.ess = "Continuing"
          /\ \A c \in Clients : q.cl[c].run = s.cl[c].run /\ q.cl[c].pend = s.cl[c].pend
      BY <1>7, <2>3, ChangeEssCalm DEF Halted, Runs
    <3>2. r = q
      BY <2>2, <2>5
    <3> HIDE DEF q, r
    <3>3. ASSUME NEW c \in Clients PROVE Settled(q, c)
      <4>1. q.cl[c].st = s.cl[c].st /\ Settled(s, c)
        BY <3>1 DEF Still
      <4> QED
        BY <1>7, <3>1, <4>1 DEF Settled
    <3> QED
      BY <3>1, <3>2, <3>3 DEF r
  <2>6. CASE ~(~moves /\ ~has("Continuing")) /\ ~has("Running")
    BY <1>4, <2>2, <2>6
  <2> QED
    BY <2>4, <2>5, <2>6
<1>8. CASE s.ess \in {"Stopped", "Running"}
  <2>1. ~moves /\ ~has("Stopping") /\ ~has("Continuing")
    BY <1>2, <1>3, <1>8 DEF Settled
  <2>2. ~has(IF s.ess = "Running" THEN "Stopped" ELSE "Running")
    BY <1>2, <1>8 DEF Settled
  <2>3. r = s
    BY <1>8, <2>1, <2>2 DEF CheckExecStopStatusChange, Check
  <2> QED
    BY <1>4, <2>3
<1> QED
  BY <1>1, <1>6, <1>7, <1>8 DEF Runs

=============================================================================
