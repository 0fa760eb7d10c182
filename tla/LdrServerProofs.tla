--------------------------- MODULE LdrServerProofs ---------------------------
(***************************************************************************)
(* What holds of a farm server in every run: any number of clients and      *)
(* frames, any thresholds, losses and signals.  A callback takes sound      *)
(* members (module LdrManagerProofs) to sound members, and it is careful:   *)
(* no task is lost or doubled, and none but the schedule timer lends one.   *)
(* One lemma per callback; the inductive invariant FarmInv adds the         *)
(* account of what the source handed out and what it was told.              *)
(***************************************************************************)
EXTENDS LdrManagerProofs

\* From s to r no task is lost or doubled, a client may lose but never get one,
\* and what was done of a task that is not in hand stays.
Careful(s, r) ==
  /\ r.next = s.next
  /\ \A t \in Frames :
       /\ Places(r, t) = Places(s, t)
       /\ r.ldrc[t] \in {s.ldrc[t], Nobody}
       /\ Places(s, t) = 0 => r.rtes[t] = s.rtes[t] /\ r.ftes[t] = s.ftes[t]

LEMMA CarefulTrans ==
  ASSUME NEW s, NEW r, NEW q, Careful(s, r), Careful(r, q)
  PROVE  Careful(s, q)
  BY DEF Careful

\* Steps that move no task leave everything sound.
LEMMA StillSound ==
  ASSUME NEW s, Sound(s), NEW r, Calm(r), Still(s, r),
         \A c \in Clients : Settled(r, c)
  PROVE  Sound(r) /\ Careful(s, r)
<1>1. s \in Server /\ r \in Server
  BY DEF Sound, Calm
<1>2. ASSUME NEW t \in Frames PROVE Fine(r, t) /\ Lent(r, t)
  <2>1. Fine(s, t) /\ Lent(s, t)
    BY DEF Sound
  <2>2. /\ Places(r, t) = Places(s, t) /\ Listed(r.todo, t) <= Listed(s.todo, t)
        /\ r.proc = s.proc /\ r.stage = s.stage /\ r.rtes = s.rtes
        /\ r.ftes = s.ftes /\ r.next = s.next /\ r.ldrc = s.ldrc
        /\ r.parts = s.parts
    BY DEF Still
  <2>3. Listed(r.todo, t) \in Nat /\ Listed(s.todo, t) \in Nat
    BY <1>1, PlacesType
  <2>4. Sane(r, t)
    BY <2>1, <2>2 DEF Fine, Sane, AllParts
  <2>5. Fine(r, t)
    BY <2>1, <2>2, <2>3, <2>4 DEF Fine
  <2>6. Lent(r, t)
    BY <2>1, <2>2 DEF Lent
  <2> QED
    BY <2>5, <2>6
<1>3. ASSUME NEW c \in Clients PROVE Client(r, c)
  <2>1. Client(s, c)
    BY DEF Sound
  <2>2. /\ r.cl[c].st = s.cl[c].st /\ r.cl[c].counted = s.cl[c].counted
        /\ r.cl[c].jobs = s.cl[c].jobs /\ r.ldrc = s.ldrc /\ r.list = s.list
        /\ r.recon = s.recon /\ r.started = s.started
    BY DEF Still
  <2>3. Held(r, c) = Held(s, c)
    BY <2>2 DEF Held
  <2> QED
    BY <2>1, <2>2, <2>3 DEF Client
<1>4. ~r.started => r.list # <<>>
  BY DEF Sound, Still
<1>5. Careful(s, r)
  BY DEF Careful, Still
<1> QED
  BY <1>2, <1>3, <1>4, <1>5 DEF Sound

LEMMA TameSound ==
  ASSUME NEW s, Sound(s), NEW r, Calm(r), Tame(s, r)
  PROVE  Sound(r) /\ Careful(s, r)
<1>1. ASSUME NEW c \in Clients PROVE Settled(r, c)
  <2>1. Settled(s, c)
    BY DEF Sound
  <2>2. /\ r.cl[c].run = s.cl[c].run /\ r.cl[c].pend = s.cl[c].pend
        /\ r.ess = s.ess /\ r.cl[c].st = s.cl[c].st
    BY DEF Tame, Still
  <2> QED
    BY <2>1, <2>2 DEF Settled
<1> QED
  BY <1>1, StillSound DEF Tame

----------------------------------------------------------------------------
(* Tasks come back from their clients *)

\* A task in processing means that everything is in full swing.
LEMMA InProcessing ==
  ASSUME NEW s, Calm(s), NEW t \in Frames, Listed(s.proc, t) > 0
  PROVE  s.started /\ s.quitStep = 0 /\ ~s.toldTs /\ s.proc # <<>>
<1>1. s.proc # <<>>
  <2>1. Listed(<<>>, t) = 0
    BY ListedFew
  <2> QED
    BY <2>1
<1>2. s.quitStep \in 0..5
  BY Read DEF Calm
<1> QED
  BY <1>1, <1>2 DEF Calm, Chosen, Over

\* The manager does not mind if only tasks move that are not chosen.
LEMMA MovedCalm ==
  ASSUME NEW s, Calm(s), NEW r \in Server,
         s.started, s.quitStep = 0, ~s.toldTs,
         r.started, r.quitStep = 0, ~r.toldTs, r.crash = s.crash,
         r.list = s.list, r.trigger = s.trigger, r.noRecon = s.noRecon,
         r.shallQuit = s.shallQuit, r.toldIf = s.toldIf,
         r.dsmt = s.dsmt, r.sq = s.sq, r.sqa = s.sqa,
         r.connected = s.connected, r.pending = s.pending, r.srcDone = s.srcDone,
         r.free = s.free, r.sfs = s.sfs,
         \A c \in Clients : r.cl[c].st = s.cl[c].st /\ r.cl[c].counted = s.cl[c].counted,
         s.sfs # NoTask => /\ Listed(r.todo, s.sfs) > 0
                           /\ r.stage[s.sfs] = s.stage[s.sfs]
  PROVE  Calm(r)
<1>1. Chosen(r)
  <2>1. r.free # Nobody => r.cl[r.free].counted
    <3>1. r.free # Nobody => r.free \in Clients
      BY Read
    <3> QED
      BY <3>1 DEF Calm, Chosen
  <2>2. r.sfs # NoTask => /\ Listed(r.todo, r.sfs) > 0 /\ r.started /\ ~r.dsmt
                          /\ r.sq > 0 => Processed(r, r.sfs)
    BY DEF Calm, Chosen, Processed
  <2> QED
    BY <2>1, <2>2 DEF Chosen
<1>2. Talk(r)
  BY DEF Calm, Talk
<1>3. Over(r)
  BY DEF Calm, Over
<1>4. Early(r)
  BY DEF Early
<1> QED
  BY <1>1, <1>2, <1>3, <1>4 DEF Calm

\* From s to r task t has left its client's hands; the client's count aside.
Back(s, r, t) ==
  /\ r.ldrc = [s.ldrc EXCEPT ![t] = Nobody] /\ r.parts = [s.parts EXCEPT ![t] = {}]
  /\ r.next = s.next /\ r.list = s.list /\ r.recon = s.recon
  /\ r.started = s.started /\ r.ess = s.ess
  /\ \A u \in Frames :
       /\ Listed(r.proc, u) = IF u = t THEN 0 ELSE Listed(s.proc, u)
       /\ Places(r, u) = Places(s, u)
       /\ u # t => /\ r.stage[u] = s.stage[u] /\ r.rtes[u] = s.rtes[u]
                   /\ r.ftes[u] = s.ftes[u] /\ Listed(r.todo, u) <= Listed(s.todo, u)
  /\ \A c \in Clients :
       /\ r.cl[c].st = s.cl[c].st /\ r.cl[c].counted = s.cl[c].counted
       /\ r.cl[c].run = s.cl[c].run /\ r.cl[c].pend = s.cl[c].pend
  /\ Sane(r, t)
  /\ Listed(r.todo, t) > 0 => r.stage[t] # "TaskDone"

LEMMA BackTame ==
  ASSUME NEW s \in Server, NEW r \in Server, NEW q \in Server, NEW t \in Frames,
         Back(s, r, t), Tame(r, q)
  PROVE  Back(s, q, t)
<1>1. \A u \in Frames : /\ Listed(r.todo, u) \in Nat /\ Listed(q.todo, u) \in Nat
                        /\ Listed(s.todo, u) \in Nat
  BY PlacesType
<1>2. Sane(q, t)
  BY DEF Back, Tame, Still, Sane, AllParts
<1>3. Listed(q.todo, t) > 0 => q.stage[t] # "TaskDone"
  BY <1>1 DEF Back, Tame, Still
<1>4. \A u \in Frames :
       /\ Listed(q.proc, u) = IF u = t THEN 0 ELSE Listed(s.proc, u)
       /\ Places(q, u) = Places(s, u)
  BY DEF Back, Tame, Still
<1>5. ASSUME NEW u \in Frames, u # t
      PROVE  /\ q.stage[u] = s.stage[u] /\ q.rtes[u] = s.rtes[u]
             /\ q.ftes[u] = s.ftes[u] /\ Listed(q.todo, u) <= Listed(s.todo, u)
  BY <1>1, <1>5 DEF Back, Tame, Still
<1> QED
  BY <1>2, <1>3, <1>4, <1>5 DEF Back, Tame, Still

\* With one job less of the client that had it all is sound again.
LEMMA BackSound ==
  ASSUME NEW s, Sound(s), NEW r, Calm(r), NEW t \in Frames, s.ldrc[t] # Nobody,
         Back(s, r, t),
         \A c \in Clients : r.cl[c].jobs = s.cl[c].jobs - (IF c = s.ldrc[t] THEN 1 ELSE 0)
  PROVE  Sound(r) /\ Careful(s, r)
<1>1. s \in Server /\ r \in Server
  BY DEF Sound, Calm
<1>2. /\ s.ldrc \in [Frames -> Clients \cup {Nobody}]
      /\ s.parts \in [Frames -> SUBSET Kinds]
  BY <1>1, Read
<1>3. Listed(s.proc, t) > 0
  BY DEF Sound, Lent
<1>4. \A u \in Frames :
        /\ r.ldrc[u] = IF u = t THEN Nobody ELSE s.ldrc[u]
        /\ r.parts[u] = IF u = t THEN {} ELSE s.parts[u]
  BY <1>2 DEF Back
<1>5. \A u \in Frames : /\ Listed(r.todo, u) \in Nat /\ Listed(r.proc, u) \in Nat
                        /\ Listed(s.todo, u) \in Nat /\ Listed(s.proc, u) \in Nat
                        /\ Listed(s.done, u) \in Nat /\ Times(s.srcDone = u) \in {0, 1}
  BY <1>1, PlacesType
<1>6. Places(s, t) > 0
  BY <1>3, <1>5 DEF Places
<1>7. ASSUME NEW u \in Frames PROVE Fine(r, u) /\ Lent(r, u)
  <2>1. Fine(s, u) /\ Lent(s, u)
    BY DEF Sound
  <2>2. CASE u = t
    <3>1. /\ Places(r, t) = Places(s, t) /\ Sane(r, t) /\ r.next = s.next
          /\ Listed(r.proc, t) = 0
          /\ Listed(r.todo, t) > 0 => r.stage[t] # "TaskDone"
      BY DEF Back
    <3>2. ~(t >= s.next) /\ Places(s, t) <= 1
      BY <1>6, <2>1, <2>2 DEF Fine
    <3>3. Fine(r, t)
      BY <1>5, <3>1, <3>2 DEF Fine
    <3>4. Lent(r, t)
      BY <1>4, <3>1 DEF Lent
    <3> QED
      BY <2>2, <3>3, <3>4
  <2>3. CASE u # t
    <3>1. /\ Places(r, u) = Places(s, u) /\ Listed(r.todo, u) <= Listed(s.todo, u)
          /\ Listed(r.proc, u) = Listed(s.proc, u)
          /\ r.stage[u] = s.stage[u] /\ r.rtes[u] = s.rtes[u]
          /\ r.ftes[u] = s.ftes[u] /\ r.next = s.next
      BY <2>3 DEF Back
    <3>2. r.ldrc[u] = s.ldrc[u] /\ r.parts[u] = s.parts[u]
      BY <1>4, <2>3
    <3>3. Sane(r, u)
      BY <2>1, <3>1 DEF Fine, Sane, AllParts
    <3>4. Fine(r, u)
      BY <1>5, <2>1, <3>1, <3>3 DEF Fine
    <3>5. Lent(r, u)
      BY <2>1, <3>1, <3>2 DEF Lent
    <3> QED
      BY <3>4, <3>5
  <2> QED
    BY <2>2, <2>3
<1>8. ASSUME NEW c \in Clients PROVE Client(r, c) /\ Settled(r, c)
  <2>1. Client(s, c) /\ Settled(s, c)
    BY DEF Sound
  <2>2. /\ r.cl[c].st = s.cl[c].st /\ r.cl[c].counted = s.cl[c].counted
        /\ r.cl[c].run = s.cl[c].run /\ r.cl[c].pend = s.cl[c].pend
        /\ r.list = s.list /\ r.recon = s.recon /\ r.started = s.started
        /\ r.ess = s.ess
    BY DEF Back
  <2>3. r.cl[c].jobs = s.cl[c].jobs - (IF c = s.ldrc[t] THEN 1 ELSE 0)
    OBVIOUS
  <2>4. /\ IsFiniteSet(Held(s, c)) /\ Cardinality(Held(s, c)) \in Nat
        /\ Held(r, c) = Held(s, c) \ {t}
        /\ t \in Held(s, c) <=> c = s.ldrc[t]
    <3>1. IsFiniteSet(Frames)
      <4>1. 1 \in Int /\ NFrames \in Int
        BY FarmAssumption
      <4> QED
        BY <4>1, FS_Interval DEF Frames
    <3>2. Held(s, c) \in SUBSET Frames
      BY DEF Held
    <3>3. IsFiniteSet(Held(s, c)) /\ Cardinality(Held(s, c)) \in Nat
      BY <3>1, <3>2, FS_Subset, FS_CardinalityType
    <3>4. Held(r, c) = Held(s, c) \ {t}
      <4>1. c # Nobody
        BY DEF Clients, Nobody
      <4> QED
        BY <1>4, <4>1 DEF Held
    <3>5. t \in Held(s, c) <=> c = s.ldrc[t]
      BY DEF Held
    <3> QED
      BY <3>3, <3>4, <3>5
  <2>5. Cardinality(Held(r, c)) = Cardinality(Held(s, c)) - (IF c = s.ldrc[t] THEN 1 ELSE 0)
    <3>1. Cardinality(Held(s, c) \ {t}) = IF t \in Held(s, c) THEN Cardinality(Held(s, c)) - 1
                                          ELSE Cardinality(Held(s, c))
      BY <2>4, FS_RemoveElement
    <3>2. CASE c = s.ldrc[t]
      BY <2>4, <3>1, <3>2
    <3>3. CASE c # s.ldrc[t]
      BY <2>4, <3>1, <3>3
    <3> QED
      BY <3>2, <3>3
  <2>6. ClientHigh \in Nat
    BY FarmAssumption
  <2>7. s.cl[c].jobs = Cardinality(Held(s, c))
    BY <2>1 DEF Client
  <2>8. Client(r, c)
    BY <2>1, <2>2, <2>3, <2>4, <2>5, <2>6, <2>7 DEF Client
  <2>9. Settled(r, c)
    BY <2>1, <2>2 DEF Settled
  <2> QED
    BY <2>8, <2>9
<1>9. ~r.started => r.list # <<>>
  BY DEF Sound, Back
<1>10. Careful(s, r)
  BY <1>4, <1>6 DEF Careful, Back
<1> QED
  BY <1>7, <1>8, <1>9, <1>10 DEF Sound

\* From s to r task t is off its client, but it is still in processing.
Off(s, r, t) ==
  /\ r \in Server
  /\ r.todo = s.todo /\ r.proc = s.proc /\ r.done = s.done
  /\ r.srcDone = s.srcDone /\ r.next = s.next /\ r.list = s.list
  /\ r.recon = s.recon /\ r.trigger = s.trigger /\ r.noRecon = s.noRecon
  /\ r.started = s.started /\ r.shallQuit = s.shallQuit /\ r.dsmt = s.dsmt
  /\ r.sq = s.sq /\ r.sqa = s.sqa /\ r.toldIf = s.toldIf /\ r.toldTs = s.toldTs
  /\ r.ess = s.ess /\ r.connected = s.connected /\ r.pending = s.pending
  /\ r.quitStep = s.quitStep /\ r.crash = s.crash
  /\ r.free = s.free /\ r.sfs = s.sfs
  /\ r.ldrc = [s.ldrc EXCEPT ![t] = Nobody] /\ r.parts = [s.parts EXCEPT ![t] = {}]
  /\ \A u \in Frames \ {t} : /\ r.stage[u] = s.stage[u] /\ r.rtes[u] = s.rtes[u]
                             /\ r.ftes[u] = s.ftes[u]
  /\ \A c \in Clients :
       /\ r.cl[c].st = s.cl[c].st /\ r.cl[c].counted = s.cl[c].counted
       /\ r.cl[c].run = s.cl[c].run /\ r.cl[c].pend = s.cl[c].pend
  /\ Sane(r, t)

\* All but the manager's lists is the same.
Shifted(s, r) ==
  /\ r.srcDone = s.srcDone /\ r.next = s.next /\ r.list = s.list
  /\ r.recon = s.recon /\ r.trigger = s.trigger /\ r.noRecon = s.noRecon
  /\ r.started = s.started /\ r.shallQuit = s.shallQuit /\ r.dsmt = s.dsmt
  /\ r.sq = s.sq /\ r.sqa = s.sqa /\ r.toldIf = s.toldIf /\ r.toldTs = s.toldTs
  /\ r.ess = s.ess /\ r.connected = s.connected /\ r.pending = s.pending
  /\ r.quitStep = s.quitStep /\ r.crash = s.crash
  /\ r.free = s.free /\ r.sfs = s.sfs /\ r.cl = s.cl
  /\ r.ldrc = s.ldrc /\ r.parts = s.parts
  /\ r.stage = s.stage /\ r.rtes = s.rtes /\ r.ftes = s.ftes

\* Then it moves to one of the lists.
LEMMA ShiftedBack ==
  ASSUME NEW s, Sound(s), NEW t \in Frames, Listed(s.proc, t) > 0,
         NEW a, Off(s, a, t), NEW r \in Server, Shifted(a, r),
         r.proc = Without(s.proc, t),
         \A u \in Frames : /\ Listed(r.todo, u) + Listed(r.done, u) =
                                Listed(s.todo, u) + Listed(s.done, u) + (IF u = t THEN 1 ELSE 0)
                           /\ u # t => Listed(r.todo, u) = Listed(s.todo, u),
         Listed(r.todo, t) > 0 => r.stage[t] # "TaskDone"
  PROVE  Calm(r) /\ Back(s, r, t)
<1>1. s \in Server /\ Calm(s)
  BY DEF Sound, Calm
<1>2. \A u \in Frames :
        /\ Listed(r.todo, u) \in Nat /\ Listed(r.proc, u) \in Nat
        /\ Listed(r.done, u) \in Nat /\ Times(r.srcDone = u) \in {0, 1}
        /\ Listed(s.todo, u) \in Nat /\ Listed(s.proc, u) \in Nat
        /\ Listed(s.done, u) \in Nat /\ Times(s.srcDone = u) \in {0, 1}
  BY <1>1, PlacesType
<1>3. \A u \in Frames : Listed(r.proc, u) = IF u = t THEN 0 ELSE Listed(s.proc, u)
  <2>1. s.proc \in Seq(Frames)
    BY <1>1, Read
  <2> QED
    BY <2>1, ListedWithout
<1>4. Listed(s.proc, t) = 1 /\ Listed(s.todo, t) = 0
  <2>1. Places(s, t) <= 1
    BY DEF Sound, Fine
  <2> QED
    BY <1>2, <2>1 DEF Places
<1>5. r.srcDone = s.srcDone
  BY DEF Off, Shifted
<1>6. \A u \in Frames : Places(r, u) = Places(s, u)
  <2> SUFFICES ASSUME NEW u \in Frames PROVE Places(r, u) = Places(s, u)
    OBVIOUS
  <2>1. CASE u = t
    BY <1>2, <1>3, <1>4, <1>5, <2>1 DEF Places
  <2>2. CASE u # t
    BY <1>2, <1>3, <1>5, <2>2 DEF Places
  <2> QED
    BY <2>1, <2>2
<1>7. s.started /\ s.quitStep = 0 /\ ~s.toldTs
  BY <1>1, InProcessing
<1>8. /\ r.started /\ r.quitStep = 0 /\ ~r.toldTs
  BY <1>7 DEF Off, Shifted
<1>9. \A c \in Clients :
       /\ r.cl[c].st = s.cl[c].st /\ r.cl[c].counted = s.cl[c].counted
       /\ r.cl[c].run = s.cl[c].run /\ r.cl[c].pend = s.cl[c].pend
  BY DEF Off, Shifted
<1>10. \A u \in Frames \ {t} : /\ r.stage[u] = s.stage[u] /\ r.rtes[u] = s.rtes[u]
                               /\ r.ftes[u] = s.ftes[u]
  BY DEF Off, Shifted
<1>11. s.sfs # NoTask => /\ Listed(r.todo, s.sfs) > 0
                         /\ r.stage[s.sfs] = s.stage[s.sfs]
  <2> SUFFICES ASSUME s.sfs # NoTask
               PROVE  Listed(r.todo, s.sfs) > 0 /\ r.stage[s.sfs] = s.stage[s.sfs]
    OBVIOUS
  <2>1. Listed(s.todo, s.sfs) > 0 /\ s.sfs \in Frames
    BY <1>1, Read DEF Calm, Chosen
  <2>2. s.sfs # t
    BY <1>4, <2>1
  <2> QED
    BY <1>10, <2>1, <2>2
<1>12. Calm(r)
  <2>1. /\ r.crash = s.crash
        /\ r.list = s.list /\ r.trigger = s.trigger /\ r.noRecon = s.noRecon
        /\ r.shallQuit = s.shallQuit /\ r.toldIf = s.toldIf
        /\ r.dsmt = s.dsmt /\ r.sq = s.sq /\ r.sqa = s.sqa
        /\ r.connected = s.connected /\ r.pending = s.pending
        /\ r.free = s.free /\ r.sfs = s.sfs
    BY DEF Off, Shifted
  <2> QED
    BY <1>1, <1>5, <1>7, <1>8, <1>9, <1>11, <2>1, MovedCalm
<1>13. Sane(r, t)
  BY DEF Off, Shifted, Sane, AllParts
<1>14. Back(s, r, t)
  <2>1. /\ r.ldrc = [s.ldrc EXCEPT ![t] = Nobody] /\ r.parts = [s.parts EXCEPT ![t] = {}]
        /\ r.next = s.next /\ r.list = s.list /\ r.recon = s.recon
        /\ r.started = s.started /\ r.ess = s.ess
    BY DEF Off, Shifted
  <2>2. \A u \in Frames : u # t =>
          /\ r.stage[u] = s.stage[u] /\ r.rtes[u] = s.rtes[u]
          /\ r.ftes[u] = s.ftes[u] /\ Listed(r.todo, u) <= Listed(s.todo, u)
    BY <1>2, <1>10
  <2> QED
    BY <1>3, <1>6, <1>9, <1>13, <2>1, <2>2 DEF Back
<1> QED
  BY <1>12, <1>14

\* The task has left, and the rest is calm.
Home(s, a, r, t) ==
  /\ Calm(r) /\ Back(s, r, t)
  /\ \A c \in Clients : r.cl[c].jobs = a.cl[c].jobs

LEMMA HomeTame ==
  ASSUME NEW s \in Server, NEW a, NEW r, NEW q, NEW t \in Frames, Home(s, a, r, t),
         Calm(q), Tame(r, q)
  PROVE  Home(s, a, q, t)
<1>1. Back(s, q, t)
  BY BackTame DEF Home, Calm
<1> QED
  BY <1>1 DEF Home, Tame, Still

\* In todo again.
LEMMA BackToTodoHome ==
  ASSUME NEW s, Sound(s), NEW t \in Frames, Listed(s.proc, t) > 0,
         NEW a, Off(s, a, t), a.stage[t] # "TaskDone"
  PROVE  Home(s, a, BackToTodo(a, t), t)
<1> DEFINE p == Without(a.proc, t)
           q == <<t>> \o a.todo
           b == [a EXCEPT !.proc = p]
           r == [b EXCEPT !.todo = q]
<1>1. a \in Server /\ s \in Server
  BY DEF Off, Sound, Calm
<1>2. a.proc = s.proc /\ a.todo = s.todo /\ a.done = s.done
  BY DEF Off
<1>3. s.todo \in Seq(Frames) /\ s.proc \in Seq(Frames)
  BY <1>1, Read
<1>4. p \in Seq(Frames) /\ p = Without(s.proc, t)
  BY <1>2, <1>3, ListedWithout
<1>5. q \in Seq(Frames) /\ \A u : Listed(q, u) = Listed(s.todo, u) + (IF u = t THEN 1 ELSE 0)
  BY <1>2, <1>3, ListedPrepend
<1>6. BackToTodo(a, t) = IF r.dsmt THEN DontStartMoreTasks(r) ELSE r
  <2>1. [a EXCEPT !.proc = Without(@, t), !.todo = <<t>> \o @] = r
    OBVIOUS
  <2>2. a.dsmt = r.dsmt
    OBVIOUS
  <2> HIDE DEF r
  <2> QED
    BY <2>1, <2>2 DEF BackToTodo
<1> HIDE DEF p, q
<1>7. b \in Server
  BY <1>1, <1>4, Write
<1>8. b.proc = p
  BY <1>1, Written
<1>9. r \in Server
  BY <1>5, <1>7, Write
<1>10. r.todo = q
  BY <1>7, Written
<1>11. r.proc = p /\ r.done = s.done
  BY <1>2, <1>8
<1>12. Shifted(a, r)
  BY DEF Shifted
<1>13. r.stage[t] # "TaskDone"
  OBVIOUS
<1> HIDE DEF b, r
<1>14. Calm(r) /\ Back(s, r, t)
  <2>1. \A u \in Frames : Listed(s.todo, u) \in Nat /\ Listed(s.done, u) \in Nat
    BY <1>1, PlacesType
  <2>2. \A u \in Frames : /\ Listed(r.todo, u) + Listed(r.done, u) =
                                Listed(s.todo, u) + Listed(s.done, u) + (IF u = t THEN 1 ELSE 0)
                          /\ u # t => Listed(r.todo, u) = Listed(s.todo, u)
    BY <1>5, <1>10, <1>11, <2>1
  <2> QED
    BY <1>4, <1>9, <1>11, <1>12, <1>13, <2>2, ShiftedBack
<1>15. Home(s, a, r, t)
  BY <1>12, <1>14 DEF Home, Shifted
<1>16. r.quitStep = 0
  <2>1. s.quitStep = 0
    BY InProcessing DEF Sound
  <2> QED
    BY <1>12, <2>1 DEF Off, Shifted
<1> DEFINE d == DontStartMoreTasks(r)
<1>17. Calm(d) /\ Tame(r, d)
  BY <1>14, <1>16, DontStartCalm
<1> HIDE DEF d
<1>18. Home(s, a, d, t)
  BY <1>1, <1>15, <1>17, HomeTame
<1> QED
  BY <1>6, <1>15, <1>18 DEF d

\* Regarded as done: start others, and see the source.
LEMMA ToDoneHome ==
  ASSUME NEW s, Sound(s), NEW t \in Frames, Listed(s.proc, t) > 0,
         NEW a, Off(s, a, t)
  PROVE  LET r == ToDone(a, t)
         IN  Home(s, a, r, t) /\ r.quitStep = 0
<1> DEFINE p == Without(a.proc, t)
           q == Append(a.done, t)
           b == [a EXCEPT !.proc = p]
           r == [b EXCEPT !.done = q]
           d == CheckStartTasks(r)
           e == CheckStartExchange(d)
<1>1. a \in Server /\ s \in Server
  BY DEF Off, Sound, Calm
<1>2. a.proc = s.proc /\ a.todo = s.todo /\ a.done = s.done
  BY DEF Off
<1>3. s.done \in Seq(Frames) /\ s.proc \in Seq(Frames)
  BY <1>1, Read
<1>4. p \in Seq(Frames) /\ p = Without(s.proc, t)
  BY <1>2, <1>3, ListedWithout
<1>5. q \in Seq(Frames) /\ \A u : Listed(q, u) = Listed(s.done, u) + (IF u = t THEN 1 ELSE 0)
  BY <1>2, <1>3, ListedAppend
<1>6. ToDone(a, t) = e
  <2>1. [a EXCEPT !.proc = Without(@, t), !.done = Append(@, t)] = r
    OBVIOUS
  <2> HIDE DEF r
  <2> QED
    BY <2>1 DEF ToDone
<1> HIDE DEF p, q
<1>7. b \in Server
  BY <1>1, <1>4, Write
<1>8. b.proc = p
  BY <1>1, Written
<1>9. r \in Server
  BY <1>5, <1>7, Write
<1>10. r.done = q
  BY <1>7, Written
<1>11. r.proc = p /\ r.todo = s.todo
  BY <1>2, <1>8
<1>12. Shifted(a, r)
  BY DEF Shifted
<1> HIDE DEF b, r
<1>13. \A u \in Frames : Listed(s.todo, u) \in Nat /\ Listed(s.done, u) \in Nat
  BY <1>1, PlacesType
<1>14. Listed(r.todo, t) = 0
  <2>1. Places(s, t) <= 1
    BY DEF Sound, Fine
  <2>2. /\ Listed(s.proc, t) \in Nat /\ Listed(s.todo, t) \in Nat
        /\ Listed(s.done, t) \in Nat /\ Times(s.srcDone = t) \in {0, 1}
    BY <1>1, PlacesType
  <2> QED
    BY <1>11, <2>1, <2>2 DEF Places
<1>15. Calm(r) /\ Back(s, r, t)
  <2>1. \A u \in Frames : /\ Listed(r.todo, u) + Listed(r.done, u) =
                                Listed(s.todo, u) + Listed(s.done, u) + (IF u = t THEN 1 ELSE 0)
                          /\ u # t => Listed(r.todo, u) = Listed(s.todo, u)
    BY <1>5, <1>10, <1>11, <1>13
  <2> QED
    BY <1>4, <1>9, <1>11, <1>12, <1>14, <2>1, ShiftedBack
<1>16. Home(s, a, r, t)
  BY <1>12, <1>15 DEF Home, Shifted
<1>17. r.quitStep = 0 /\ r.started
  <2>1. s.quitStep = 0 /\ s.started
    BY InProcessing DEF Sound
  <2> QED
    BY <1>12, <2>1 DEF Off, Shifted
<1>18. Calm(d) /\ Tame(r, d) /\ Alike(r, d)
  BY <1>15, CheckStartTasksCalm
<1> HIDE DEF d
<1>19. d.started /\ d.quitStep = 0
  BY <1>17, <1>18 DEF Alike, Rest
<1>20. Calm(e) /\ Tame(d, e) /\ e \in {d, [d EXCEPT !.pending = "AConnect"]}
  BY <1>18, <1>19, CheckExchangeCalm
<1> HIDE DEF e
<1>21. e.quitStep = 0
  <2>1. [d EXCEPT !.pending = "AConnect"].quitStep = d.quitStep
    OBVIOUS
  <2> QED
    BY <1>19, <1>20, <2>1
<1>22. Home(s, a, d, t)
  BY <1>1, <1>16, <1>18, HomeTame
<1>23. Home(s, a, e, t)
  BY <1>1, <1>20, <1>22, HomeTame
<1> QED
  BY <1>6, <1>21, <1>23

\* What is tried again in another connection.
LEMMA TdafCalm ==
  ASSUME NEW s, Calm(s), s.quitStep = 0, NEW v \in BOOLEAN
  PROVE  Calm([s EXCEPT !.tdaf = v]) /\ Tame(s, [s EXCEPT !.tdaf = v])
<1> DEFINE r == [s EXCEPT !.tdaf = v]
<1>1. s \in Server
  BY DEF Calm
<1>2. r \in Server
  BY <1>1, Write
<1>3. Rest(s, r)
  BY DEF Rest
<1>4. /\ r.todo = s.todo /\ r.done = s.done /\ r.srcDone = s.srcDone
      /\ r.dsmt = s.dsmt /\ r.sq = s.sq /\ r.sqa = s.sqa /\ r.toldTs = s.toldTs
      /\ r.connected = s.connected /\ r.pending = s.pending
      /\ r.quitStep = s.quitStep /\ r.crash = s.crash
      /\ r.free = s.free /\ r.sfs = s.sfs
  OBVIOUS
<1>5. s.sfs # NoTask => /\ Listed(r.todo, s.sfs) > 0
                        /\ r.stage[s.sfs] = s.stage[s.sfs]
  BY DEF Calm, Chosen
<1> HIDE DEF r
<1>6. s.sq \in 0..2
  BY <1>1, Read
<1>7. r.sfs # NoTask => Processed(r, r.sfs) = Processed(s, s.sfs)
  BY <1>3, <1>4 DEF Processed, Rest
<1>8. Calm(r)
  <2>1. Chosen(r)
    <3>1. r.free # Nobody => r.free \in Clients
      BY <1>2, Read
    <3>2. r.free # Nobody => r.cl[r.free].counted
      BY <1>3, <1>4, <3>1 DEF Calm, Chosen, Rest
    <3> QED
      BY <1>3, <1>4, <1>7, <3>2 DEF Calm, Chosen, Rest
  <2>2. Talk(r)
    BY <1>4 DEF Calm, Talk
  <2>3. Over(r)
    BY <1>3, <1>4 DEF Calm, Over, Empty, Quitting, Rest
  <2>4. Early(r)
    BY <1>3, <1>4 DEF Calm, Early, Empty, Rest
  <2> QED
    BY <1>2, <1>3, <1>4, <2>1, <2>2, <2>3, <2>4 DEF Calm, Rest
<1>9. Tame(s, r)
  <2>1. \A t \in Frames : Listed(s.todo, t) \in Nat
    BY <1>1, PlacesType
  <2>2. \A t \in Frames : /\ Places(r, t) = Places(s, t)
                          /\ Listed(r.todo, t) <= Listed(s.todo, t)
    BY <1>3, <1>4, <2>1 DEF Places, Rest
  <2> QED
    BY <1>1, <1>2, <1>3, <2>2, RestTame
<1> QED
  BY <1>8, <1>9 DEF r

\* Failed, done, done in part, or not done at all.
LEMMA FailedHome ==
  ASSUME NEW s, Sound(s), NEW t \in Frames, Listed(s.proc, t) > 0,
         NEW a, Off(s, a, t)
  PROVE  Home(s, a, HandleFailedTask(a, t), t)
<1> DEFINE r == ToDone(a, t)
           q == [r EXCEPT !.tdaf = r.tdaf \/ a.connected]
<1>1. Home(s, a, r, t) /\ r.quitStep = 0
  BY ToDoneHome
<1>2. a.quitStep = 0 /\ s \in Server
  BY InProcessing DEF Off, Sound, Calm
<1>3. HandleFailedTask(a, t) = q
  BY <1>2 DEF HandleFailedTask
<1> HIDE DEF r
<1>4. r.tdaf \in BOOLEAN /\ a.connected \in BOOLEAN
  BY <1>1, Read DEF Home, Calm, Off
<1>5. (r.tdaf \/ a.connected) \in BOOLEAN
  OBVIOUS
<1>6. Calm(q) /\ Tame(r, q)
  BY <1>1, <1>5, TdafCalm DEF Home
<1> QED
  BY <1>1, <1>2, <1>3, <1>6, HomeTame

LEMMA SuccessHome ==
  ASSUME NEW s, Sound(s), NEW t \in Frames, Listed(s.proc, t) > 0,
         NEW a, Off(s, a, t)
  PROVE  Home(s, a, HandleSuccessfulJob(a, t), t)
<1>1. a.quitStep = 0 /\ s \in Server
  BY InProcessing DEF Off, Sound, Calm
<1>2. CASE a.stage[t] = "TaskDone"
  BY <1>1, <1>2, ToDoneHome DEF HandleSuccessfulJob
<1>3. CASE a.stage[t] # "TaskDone"
  <2> DEFINE b == BackToTodo(a, t)
             c == CheckStartTasks(b)
  <2>1. HandleSuccessfulJob(a, t) = c
    BY <1>1, <1>3 DEF HandleSuccessfulJob
  <2>2. Home(s, a, b, t)
    BY <1>3, BackToTodoHome
  <2> HIDE DEF b
  <2>3. Calm(c) /\ Tame(b, c)
    BY <2>2, CheckStartTasksCalm DEF Home
  <2> QED
    BY <1>1, <2>1, <2>2, <2>3, HomeTame
<1> QED
  BY <1>2, <1>3

LEMMA PutBackHome ==
  ASSUME NEW s, Sound(s), NEW t \in Frames, Listed(s.proc, t) > 0,
         NEW a, Off(s, a, t), a.stage[t] # "TaskDone"
  PROVE  Home(s, a, PutBackTask(a, t), t)
<1> DEFINE b == BackToTodo(a, t)
           c == CheckStartExchange(b)
<1>1. s \in Server /\ s.started
  BY InProcessing DEF Sound, Calm
<1>2. Check(a, ~AllParts(a, t)) = a
  <2>1. a.stage[t] \in Stages
    BY Read DEF Off
  <2>2. Sane(a, t)
    BY DEF Off
  <2>3. ~AllParts(a, t)
    BY <2>1, <2>2 DEF Sane, AllParts, Stages
  <2> QED
    BY <2>3 DEF Check
<1>3. PutBackTask(a, t) = IF ~NotFailed(a, t) THEN HandleFailedTask(a, t)
                          ELSE IF a.sq > 0 THEN c ELSE b
  BY <1>2 DEF PutBackTask
<1>4. Home(s, a, b, t)
  BY BackToTodoHome
<1>5. b.started
  BY <1>1, <1>4 DEF Home, Back
<1> HIDE DEF b
<1>6. Calm(c) /\ Tame(b, c)
  BY <1>4, <1>5, CheckExchangeCalm DEF Home
<1> HIDE DEF c
<1>7. Home(s, a, c, t)
  BY <1>1, <1>4, <1>6, HomeTame
<1> QED
  BY <1>3, <1>4, <1>7, FailedHome

\* What a client has to say of a task takes the task off it.
LEMMA ParseDoneOff ==
  ASSUME NEW s, Sound(s), NEW t \in Frames, s.ldrc[t] # Nobody,
         NEW o \in Outcomes(s, t)
  PROVE  LET a == ParseDoneComplete(s, t, o)
         IN  /\ Off(s, a, t)
             /\ o.filter # "ok" /\ o.render # "ok" => a.stage[t] # "TaskDone"
             /\ \A c \in Clients :
                  a.cl[c].jobs = s.cl[c].jobs - (IF c = s.ldrc[t] THEN 1 ELSE 0)
<1> DEFINE c == s.ldrc[t]
           has == s.parts[t]
           rt == IF "render" \in has THEN o.render ELSE s.rtes[t]
           ft == IF "filter" \in has THEN o.filter ELSE s.ftes[t]
           st == CASE o.filter = "ok" -> "TaskDone"
                   [] o.filter # "ok" /\ o.render = "ok"
                        -> IF t \in FilterFrames THEN "ToBeFiltered" ELSE "TaskDone"
                   [] o.filter # "ok" /\ o.render # "ok" -> s.stage[t]
           k == [s.cl[c] EXCEPT !.jobs = @ - 1]
           a1 == [s EXCEPT !.rtes = [s.rtes EXCEPT ![t] = rt]]
           a2 == [a1 EXCEPT !.ftes = [s.ftes EXCEPT ![t] = ft]]
           a3 == [a2 EXCEPT !.stage = [s.stage EXCEPT ![t] = st]]
           a4 == [a3 EXCEPT !.cl = [s.cl EXCEPT ![c] = k]]
           a5 == [a4 EXCEPT !.ldrc = [s.ldrc EXCEPT ![t] = Nobody]]
           a6 == [a5 EXCEPT !.parts = [s.parts EXCEPT ![t] = {}]]
           a7 == [a6 EXCEPT !.recalled = s.recalled \ {t}]
<1> DEFINE a == [s EXCEPT !.rtes[t] = rt, !.ftes[t] = ft, !.stage[t] = st,
                   !.cl[c].jobs = @ - 1,
                   !.ldrc[t] = Nobody, !.parts[t] = {}, !.recalled = @ \ {t}]
<1>1. s \in Server
  BY DEF Sound, Calm
<1>2. /\ s.rtes \in [Frames -> Results] /\ s.ftes \in [Frames -> Results]
      /\ s.stage \in [Frames -> Stages] /\ s.cl \in [Clients -> ClientRecord]
      /\ s.ldrc \in [Frames -> Clients \cup {Nobody}]
      /\ s.parts \in [Frames -> SUBSET Kinds] /\ s.recalled \in SUBSET Frames
  BY <1>1, Read
<1>3. c \in Clients /\ has \subseteq Kinds
  BY <1>2
<1>4. Listed(s.proc, t) > 0 /\ Fine(s, t) /\ Lent(s, t)
  BY DEF Sound, Lent
<1>5. /\ o.render \in Results /\ o.filter \in Results
      /\ "render" \notin has => o.render = "unset"
      /\ "filter" \notin has => o.filter = "unset"
      /\ has = {"render", "filter"} /\ o.render # "ok" => o.filter = "unset"
  BY DEF Outcomes, Results
<1>6. /\ "render" \in has => s.stage[t] = "ToBeRendered"
      /\ "filter" \in has =>
           t \in FilterFrames /\ (s.stage[t] = "ToBeFiltered" \/ "render" \in has)
      /\ s.stage[t] # "TaskDone"
  BY <1>4 DEF Lent, Fine
<1>7. s.stage[t] = "ToBeRendered" \/ s.stage[t] = "ToBeFiltered"
  BY <1>2, <1>6 DEF Stages
<1>8. rt \in Results /\ ft \in Results /\ st \in Stages
  BY <1>2, <1>5 DEF Stages
\* What the stage says is what was done.
<1>9. /\ st = "ToBeRendered" => t \in RenderFrames /\ rt # "ok" /\ ft # "ok"
      /\ st = "ToBeFiltered" =>
           /\ t \in FilterFrames /\ ft # "ok"
           /\ t \in RenderFrames => rt = "ok"
      /\ st = "TaskDone" =>
           /\ t \in RenderFrames => rt = "ok"
           /\ t \in FilterFrames => ft = "ok"
  <2>1. /\ s.stage[t] = "ToBeRendered" =>
             t \in RenderFrames /\ s.rtes[t] # "ok" /\ s.ftes[t] # "ok"
        /\ s.stage[t] = "ToBeFiltered" =>
             /\ t \in FilterFrames /\ s.ftes[t] # "ok"
             /\ t \in RenderFrames => s.rtes[t] = "ok"
    BY <1>4 DEF Fine, Sane
  <2>2. CASE o.filter = "ok"
    <3>1. "filter" \in has /\ t \in FilterFrames /\ ft = "ok" /\ st = "TaskDone"
      BY <1>5, <1>6, <2>2
    <3>2. t \in RenderFrames => rt = "ok"
      <4>1. CASE "render" \in has
        <5>1. has = {"render", "filter"}
          BY <1>3, <3>1, <4>1 DEF Kinds
        <5> QED
          BY <1>5, <2>2, <4>1, <5>1
      <4>2. CASE "render" \notin has
        BY <1>6, <2>1, <3>1, <4>2
      <4> QED
        BY <4>1, <4>2
    <3> HIDE DEF rt, ft, st
    <3> QED
      BY <3>1, <3>2
  <2>3. CASE o.filter # "ok" /\ o.render = "ok"
    <3>1. "render" \in has /\ rt = "ok"
      BY <1>5, <2>3
    <3>2. ft # "ok"
      BY <1>6, <2>1, <2>3, <3>1
    <3>3. st = IF t \in FilterFrames THEN "ToBeFiltered" ELSE "TaskDone"
      BY <2>3
    <3> HIDE DEF rt, ft, st
    <3> QED
      BY <3>1, <3>2, <3>3
  <2>4. CASE o.filter # "ok" /\ o.render # "ok"
    <3>1. st = s.stage[t]
      BY <2>4
    <3>2. s.stage[t] = "ToBeRendered" => rt # "ok" /\ ft # "ok"
      BY <2>1, <2>4
    <3>3. s.stage[t] = "ToBeFiltered" =>
            /\ ft # "ok"
            /\ t \in RenderFrames => rt = "ok"
      BY <1>6, <2>1, <2>4
    <3> HIDE DEF rt, ft, st, has, c, k, a, a1, a2, a3, a4, a5, a6, a7
    <3>4. CASE s.stage[t] = "ToBeRendered"
      <4>1. st = "ToBeRendered" /\ t \in RenderFrames /\ rt # "ok" /\ ft # "ok"
        BY <2>1, <3>1, <3>2, <3>4
      <4> QED
        BY <4>1
    <3>5. CASE s.stage[t] = "ToBeFiltered"
      <4>1. /\ st = "ToBeFiltered" /\ t \in FilterFrames /\ ft # "ok"
            /\ t \in RenderFrames => rt = "ok"
        BY <2>1, <3>1, <3>3, <3>5
      <4> QED
        BY <4>1
    <3> QED
      BY <1>7, <3>4, <3>5
  <2> QED
    BY <2>2, <2>3, <2>4
<1>10. o.filter # "ok" /\ o.render # "ok" => st # "TaskDone"
  BY <1>6
<1>11. k \in ClientRecord /\ k.jobs = s.cl[c].jobs - 1
       /\ k.st = s.cl[c].st /\ k.counted = s.cl[c].counted
       /\ k.run = s.cl[c].run /\ k.pend = s.cl[c].pend
  <2> DEFINE k0 == s.cl[c]
  <2>1. k0 \in ClientRecord
    BY <1>2, <1>3
  <2> HIDE DEF k0
  <2>2. [k0 EXCEPT !.jobs = @ - 1] \in ClientRecord /\ [k0 EXCEPT !.jobs = @ - 1].jobs = k0.jobs - 1
    BY <2>1 DEF ClientRecord
  <2>3. k = [k0 EXCEPT !.jobs = @ - 1]
    BY DEF k0
  <2> QED
    BY <2>2, <2>3 DEF k0
<1>12. ParseDoneComplete(s, t, o) = a
  BY DEF ParseDoneComplete
<1>13. a = a7
  <2> DEFINE b == [s EXCEPT !.rtes = [s.rtes EXCEPT ![t] = rt],
                     !.ftes = [s.ftes EXCEPT ![t] = ft],
                     !.stage = [s.stage EXCEPT ![t] = st],
                     !.cl = [s.cl EXCEPT ![c] = k],
                     !.ldrc = [s.ldrc EXCEPT ![t] = Nobody],
                     !.parts = [s.parts EXCEPT ![t] = {}],
                     !.recalled = s.recalled \ {t}]
  <2> HIDE DEF rt, ft, st
  <2>1. a = b
    OBVIOUS
  <2>2. b = a7
    OBVIOUS
  <2> QED
    BY <2>1, <2>2
<1> DEFINE vr == [s.rtes EXCEPT ![t] = rt]
           vf == [s.ftes EXCEPT ![t] = ft]
           vs == [s.stage EXCEPT ![t] = st]
           vc == [s.cl EXCEPT ![c] = k]
           vl == [s.ldrc EXCEPT ![t] = Nobody]
           vp == [s.parts EXCEPT ![t] = {}]
<1> HIDE DEF rt, ft, st, k, a
<1>14. vr \in [Frames -> Results] /\ vf \in [Frames -> Results] /\ vs \in [Frames -> Stages]
  BY <1>2, <1>8
<1>15. vl \in [Frames -> Clients \cup {Nobody}] /\ vp \in [Frames -> SUBSET Kinds]
  BY <1>2
<1>16. vc \in [Clients -> ClientRecord]
  BY <1>2, <1>11
<1>17. /\ vr[t] = rt /\ vf[t] = ft /\ vs[t] = st
       /\ \A u \in Frames \ {t} : /\ vs[u] = s.stage[u] /\ vr[u] = s.rtes[u]
                                  /\ vf[u] = s.ftes[u]
  BY <1>2
<1>18. \A d \in Clients : vc[d] = IF d = c THEN k ELSE s.cl[d]
  BY <1>2
<1> HIDE DEF vr, vf, vs, vc
<1>19. a1 \in Server
  BY <1>1, <1>14, Write DEF vr
<1>20. a2 \in Server
  BY <1>14, <1>19, Write DEF vf
<1>21. a3 \in Server
  BY <1>14, <1>20, Write DEF vs
<1>22. a4 \in Server
  BY <1>16, <1>21, Write DEF vc
<1>23. a5 \in Server
  BY <1>15, <1>22, Write
<1>24. a6 \in Server
  BY <1>15, <1>23, Write
<1>25. a7 \in Server
  <2>1. s.recalled \ {t} \in SUBSET Frames
    BY <1>2
  <2> QED
    BY <1>24, <2>1, Write
<1>26. a1.rtes = vr
  BY <1>1, Written DEF vr
<1>27. a2.ftes = vf
  BY <1>19, Written DEF vf
<1>28. a3.stage = vs
  BY <1>20, Written DEF vs
<1>29. a4.cl = vc
  BY <1>21, Written DEF vc
<1>30. a5.ldrc = vl
  BY <1>22, Written
<1>31. a6.parts = vp
  BY <1>23, Written
<1> HIDE DEF vl, vp
<1>32. /\ a7.rtes = vr /\ a7.ftes = vf /\ a7.stage = vs /\ a7.cl = vc
       /\ a7.ldrc = vl /\ a7.parts = vp
  BY <1>26, <1>27, <1>28, <1>29, <1>30, <1>31
<1>33. /\ a7.todo = s.todo /\ a7.proc = s.proc /\ a7.done = s.done
       /\ a7.srcDone = s.srcDone /\ a7.next = s.next /\ a7.list = s.list
       /\ a7.recon = s.recon /\ a7.trigger = s.trigger /\ a7.noRecon = s.noRecon
       /\ a7.started = s.started /\ a7.shallQuit = s.shallQuit /\ a7.dsmt = s.dsmt
       /\ a7.sq = s.sq /\ a7.sqa = s.sqa /\ a7.toldIf = s.toldIf /\ a7.toldTs = s.toldTs
       /\ a7.ess = s.ess /\ a7.connected = s.connected /\ a7.pending = s.pending
       /\ a7.quitStep = s.quitStep /\ a7.crash = s.crash
       /\ a7.free = s.free /\ a7.sfs = s.sfs
  OBVIOUS
<1> HIDE DEF a7
<1>34. \A d \in Clients :
         /\ a7.cl[d].st = s.cl[d].st /\ a7.cl[d].counted = s.cl[d].counted
         /\ a7.cl[d].run = s.cl[d].run /\ a7.cl[d].pend = s.cl[d].pend
         /\ a7.cl[d].jobs = s.cl[d].jobs - (IF d = c THEN 1 ELSE 0)
  <2> SUFFICES ASSUME NEW d \in Clients
               PROVE  /\ vc[d].st = s.cl[d].st /\ vc[d].counted = s.cl[d].counted
                      /\ vc[d].run = s.cl[d].run /\ vc[d].pend = s.cl[d].pend
                      /\ vc[d].jobs = s.cl[d].jobs - (IF d = c THEN 1 ELSE 0)
    BY <1>32
  <2>1. CASE d = c
    BY <1>11, <1>18, <2>1
  <2>2. CASE d # c
    <3>1. s.cl[d].jobs \in Int
      <4>1. s.cl[d] \in ClientRecord
        BY <1>2
      <4> QED
        BY <4>1 DEF ClientRecord
    <3> QED
      BY <1>18, <2>2, <3>1
  <2> QED
    BY <2>1, <2>2
<1>35. Sane(a7, t)
  BY <1>9, <1>17, <1>32 DEF Sane, AllParts
<1>36. Off(s, a7, t)
  BY <1>17, <1>25, <1>32, <1>33, <1>34, <1>35 DEF Off, vl, vp
<1> QED
  BY <1>10, <1>12, <1>13, <1>17, <1>32, <1>34, <1>36

\* A client reports what it did of a task.
LEMMA ReportSound ==
  ASSUME NEW s, Sound(s), NEW t \in Frames, s.ldrc[t] # Nobody,
         NEW o \in Outcomes(s, t)
  PROVE  LET r == HandleTaskTermination(ParseDoneComplete(s, t, o), t,
                    {o[k] : k \in s.parts[t]})
         IN  Sound(r) /\ Careful(s, r)
<1> DEFINE a == ParseDoneComplete(s, t, o)
           did == {o[k] : k \in s.parts[t]}
           r == HandleTaskTermination(a, t, did)
<1>1. /\ Off(s, a, t)
      /\ o.filter # "ok" /\ o.render # "ok" => a.stage[t] # "TaskDone"
      /\ \A c \in Clients :
           a.cl[c].jobs = s.cl[c].jobs - (IF c = s.ldrc[t] THEN 1 ELSE 0)
  BY ParseDoneOff
<1>2. Listed(s.proc, t) > 0 /\ s.parts[t] # {}
  BY DEF Sound, Lent
<1>3. s.parts[t] \subseteq {"render", "filter"}
  <2>1. s.parts \in [Frames -> SUBSET Kinds]
    BY Read DEF Sound, Calm
  <2> QED
    BY <2>1 DEF Kinds
<1>4. /\ o.render \in Results /\ o.filter \in Results
      /\ "render" \notin s.parts[t] => o.render = "unset"
      /\ "filter" \notin s.parts[t] => o.filter = "unset"
  BY DEF Outcomes, Results
<1>5. /\ o["render"] = o.render /\ o["filter"] = o.filter
  OBVIOUS
<1>6. did # {} /\ did \subseteq Results
  BY <1>2, <1>3, <1>4, <1>5
<1>7. did = {"unset"} => o.filter # "ok" /\ o.render # "ok"
  <2>1. \A k \in s.parts[t] : o[k] \in did
    OBVIOUS
  <2> HIDE DEF did
  <2> QED
    BY <1>4, <1>5, <2>1
<1> HIDE DEF a, did
<1>8. Home(s, a, r, t)
  <2>1. CASE "failed" \in did
    <3>1. r = HandleFailedTask(a, t)
      BY <2>1 DEF HandleTaskTermination
    <3> QED
      BY <1>1, <1>2, <3>1, FailedHome
  <2>2. CASE "failed" \notin did /\ "ok" \in did
    <3>1. r = HandleSuccessfulJob(a, t)
      BY <2>2 DEF HandleTaskTermination
    <3> QED
      BY <1>1, <1>2, <3>1, SuccessHome
  <2>3. CASE "failed" \notin did /\ "ok" \notin did
    <3>1. did = {"unset"}
      BY <1>6, <2>3 DEF Results
    <3>2. r = PutBackTask(a, t)
      BY <2>3, <3>1 DEF HandleTaskTermination
    <3> QED
      BY <1>1, <1>2, <1>7, <3>1, <3>2, PutBackHome
  <2> QED
    BY <2>1, <2>2, <2>3
<1> HIDE DEF r
<1>9. \A c \in Clients : r.cl[c].jobs = s.cl[c].jobs - (IF c = s.ldrc[t] THEN 1 ELSE 0)
  BY <1>1, <1>8 DEF Home
<1>10. Sound(r) /\ Careful(s, r)
  BY <1>8, <1>9, BackSound DEF Home
<1> QED
  BY <1>10 DEF r, a, did

\* What the interface writes down of its clients does not disturb the manager.
LEMMA ClientsCalm ==
  ASSUME NEW s, Calm(s), NEW cl \in [Clients -> ClientRecord],
         \A c \in Clients : /\ cl[c].counted = s.cl[c].counted
                            /\ cl[c].st = "up" => cl[c].counted
  PROVE  Calm([s EXCEPT !.cl = cl]) /\ [s EXCEPT !.cl = cl].cl = cl
<1> DEFINE r == [s EXCEPT !.cl = cl]
<1>1. s \in Server
  BY DEF Calm
<1>2. r \in Server
  BY <1>1, Write
<1>3. r.cl = cl
  BY <1>1, Written
<1>4. /\ r.todo = s.todo /\ r.proc = s.proc /\ r.done = s.done
      /\ r.srcDone = s.srcDone /\ r.stage = s.stage /\ r.list = s.list
      /\ r.trigger = s.trigger /\ r.noRecon = s.noRecon
      /\ r.started = s.started /\ r.shallQuit = s.shallQuit
      /\ r.dsmt = s.dsmt /\ r.sq = s.sq /\ r.sqa = s.sqa /\ r.tdaf = s.tdaf
      /\ r.toldIf = s.toldIf /\ r.toldTs = s.toldTs
      /\ r.connected = s.connected /\ r.pending = s.pending
      /\ r.quitStep = s.quitStep /\ r.crash = s.crash /\ r.ess = s.ess
      /\ r.free = s.free /\ r.sfs = s.sfs
  OBVIOUS
<1> HIDE DEF r
<1>5. MustConnect(r) = MustConnect(s)
  <2>1. Halted(r) = Halted(s)
    BY <1>4 DEF Halted
  <2> QED
    BY <1>4, <2>1, SameMustConnect
<1>6. Chosen(r)
  <2>1. \A t : Processed(r, t) = Processed(s, t)
    BY <1>4 DEF Processed
  <2>2. r.free # Nobody => r.cl[r.free].counted
    <3>1. r.free # Nobody => r.free \in Clients
      BY <1>2, Read
    <3> QED
      BY <1>3, <1>4, <3>1 DEF Calm, Chosen
  <2> QED
    BY <1>4, <2>1, <2>2 DEF Calm, Chosen
<1>7. Talk(r)
  BY <1>4 DEF Calm, Talk
<1>8. Over(r)
  BY <1>4, <1>5 DEF Calm, Over, Empty, Quitting
<1>9. Early(r)
  BY <1>4 DEF Calm, Early, Empty
<1>10. Calm(r)
  BY <1>2, <1>3, <1>4, <1>6, <1>7, <1>8, <1>9 DEF Calm
<1> QED
  BY <1>3, <1>10 DEF r

\* A task is taken off a client that is gone, and put back.
LEMMA DisownSound ==
  ASSUME NEW s, Sound(s), NEW t \in Frames, s.ldrc[t] # Nobody
  PROVE  LET r == Disown(t, s)
         IN  /\ Sound(r) /\ Careful(s, r)
             /\ r.ldrc = [s.ldrc EXCEPT ![t] = Nobody]
             /\ \A c \in Clients : r.cl[c].st = s.cl[c].st
<1> DEFINE c == s.ldrc[t]
           vl == [s.ldrc EXCEPT ![t] = Nobody]
           vp == [s.parts EXCEPT ![t] = {}]
           a1 == [s EXCEPT !.ldrc = vl]
           a2 == [a1 EXCEPT !.parts = vp]
           a == [a2 EXCEPT !.recalled = s.recalled \ {t}]
           b == PutBackTask(a, t)
           cl == [b.cl EXCEPT ![c] = [b.cl[c] EXCEPT !.jobs = b.cl[c].jobs - 1]]
           r == [b EXCEPT !.cl = cl]
<1>1. s \in Server
  BY DEF Sound, Calm
<1>2. /\ s.ldrc \in [Frames -> Clients \cup {Nobody}]
      /\ s.parts \in [Frames -> SUBSET Kinds] /\ s.recalled \in SUBSET Frames
      /\ s.cl \in [Clients -> ClientRecord]
  BY <1>1, Read
<1>3. c \in Clients
  BY <1>2
<1>4. Listed(s.proc, t) > 0 /\ Fine(s, t)
  BY DEF Sound, Lent
<1>5. s.stage[t] # "TaskDone"
  BY <1>4 DEF Fine
<1>6. vl \in [Frames -> Clients \cup {Nobody}] /\ vp \in [Frames -> SUBSET Kinds]
  BY <1>2
<1>7. [s EXCEPT !.ldrc[t] = Nobody, !.parts[t] = {}, !.recalled = @ \ {t}] = a
  OBVIOUS
<1>8. Disown(t, s) = r
  <2>1. Disown(t, s) = [PutBackTask([s EXCEPT !.ldrc[t] = Nobody, !.parts[t] = {},
                                       !.recalled = @ \ {t}], t)
                          EXCEPT !.cl[c].jobs = @ - 1]
    BY DEF Disown
  <2>2. Disown(t, s) = [PutBackTask(a, t) EXCEPT !.cl[c].jobs = @ - 1]
    BY <1>7, <2>1
  <2> HIDE DEF a, c
  <2> QED
    BY <2>2
<1> HIDE DEF vl, vp
<1>9. a1 \in Server
  BY <1>1, <1>6, Write
<1>10. a2 \in Server
  BY <1>6, <1>9, Write
<1>11. a \in Server
  <2>1. s.recalled \ {t} \in SUBSET Frames
    BY <1>2
  <2> QED
    BY <1>10, <2>1, Write
<1>12. a1.ldrc = vl
  BY <1>1, Written
<1>13. a2.parts = vp
  BY <1>9, Written
<1>14. a.ldrc = vl /\ a.parts = vp
  BY <1>12, <1>13
<1>15. /\ a.todo = s.todo /\ a.proc = s.proc /\ a.done = s.done
       /\ a.srcDone = s.srcDone /\ a.next = s.next /\ a.list = s.list
       /\ a.recon = s.recon /\ a.trigger = s.trigger /\ a.noRecon = s.noRecon
       /\ a.started = s.started /\ a.shallQuit = s.shallQuit /\ a.dsmt = s.dsmt
       /\ a.sq = s.sq /\ a.sqa = s.sqa /\ a.toldIf = s.toldIf /\ a.toldTs = s.toldTs
       /\ a.ess = s.ess /\ a.connected = s.connected /\ a.pending = s.pending
       /\ a.quitStep = s.quitStep /\ a.crash = s.crash
       /\ a.free = s.free /\ a.sfs = s.sfs /\ a.cl = s.cl
       /\ a.stage = s.stage /\ a.rtes = s.rtes /\ a.ftes = s.ftes
  OBVIOUS
<1> HIDE DEF a, a1, a2
<1>16. Off(s, a, t)
  <2>1. Sane(a, t)
    BY <1>4, <1>15 DEF Fine, Sane, AllParts
  <2> QED
    BY <1>11, <1>14, <1>15, <2>1 DEF Off, vl, vp
<1>17. Home(s, a, b, t)
  BY <1>4, <1>5, <1>15, <1>16, PutBackHome
<1> HIDE DEF b
<1>18. b \in Server /\ b.cl \in [Clients -> ClientRecord]
  BY <1>17, Read DEF Home, Calm
<1>19. ASSUME NEW d \in Clients
       PROVE  /\ cl[d] \in ClientRecord
              /\ cl[d].st = b.cl[d].st /\ cl[d].counted = b.cl[d].counted
              /\ cl[d].run = b.cl[d].run /\ cl[d].pend = b.cl[d].pend
              /\ cl[d].jobs = b.cl[d].jobs - (IF d = c THEN 1 ELSE 0)
  <2> DEFINE k0 == b.cl[c]
             k == [k0 EXCEPT !.jobs = k0.jobs - 1]
  <2>1. k0 \in ClientRecord /\ b.cl[d] \in ClientRecord
    BY <1>3, <1>18
  <2>2. cl[d] = IF d = c THEN k ELSE b.cl[d]
    BY <1>18
  <2> HIDE DEF k0
  <2>3. /\ k \in ClientRecord /\ k.jobs = k0.jobs - 1
        /\ k.st = k0.st /\ k.counted = k0.counted /\ k.run = k0.run /\ k.pend = k0.pend
    BY <2>1 DEF ClientRecord
  <2> HIDE DEF k, cl
  <2>4. b.cl[d].jobs \in Int
    BY <2>1 DEF ClientRecord
  <2>5. CASE d = c
    BY <2>2, <2>3, <2>5 DEF k0
  <2>6. CASE d # c
    BY <2>1, <2>2, <2>4, <2>6
  <2> QED
    BY <2>5, <2>6
<1>20. cl \in [Clients -> ClientRecord]
  BY <1>19, <1>18
<1> HIDE DEF cl
<1>21. Calm(r) /\ r.cl = cl
  <2>1. \A d \in Clients : /\ cl[d].counted = b.cl[d].counted
                           /\ cl[d].st = "up" => cl[d].counted
    BY <1>17, <1>19 DEF Home, Calm
  <2> QED
    BY <1>17, <1>20, <2>1, ClientsCalm DEF Home
<1>22. /\ r.ldrc = b.ldrc /\ r.parts = b.parts /\ r.next = b.next /\ r.list = b.list
       /\ r.recon = b.recon /\ r.started = b.started /\ r.ess = b.ess
       /\ r.proc = b.proc /\ r.todo = b.todo /\ r.done = b.done /\ r.srcDone = b.srcDone
       /\ r.stage = b.stage /\ r.rtes = b.rtes /\ r.ftes = b.ftes
  OBVIOUS
<1> HIDE DEF r
<1>23. Back(s, r, t)
  <2>1. Back(s, b, t)
    BY <1>17 DEF Home
  <2>2. \A d \in Clients :
          /\ r.cl[d].st = s.cl[d].st /\ r.cl[d].counted = s.cl[d].counted
          /\ r.cl[d].run = s.cl[d].run /\ r.cl[d].pend = s.cl[d].pend
    BY <1>19, <1>21, <2>1 DEF Back
  <2>3. \A u \in Frames : Places(r, u) = Places(b, u)
    BY <1>22 DEF Places
  <2>4. Sane(r, t)
    BY <1>22, <2>1 DEF Back, Sane, AllParts
  <2> QED
    BY <1>22, <2>1, <2>2, <2>3, <2>4 DEF Back
<1>24. \A d \in Clients : r.cl[d].jobs = s.cl[d].jobs - (IF d = s.ldrc[t] THEN 1 ELSE 0)
  BY <1>15, <1>17, <1>19, <1>21 DEF Home
<1>25. Sound(r) /\ Careful(s, r)
  BY <1>21, <1>23, <1>24, BackSound
<1>26. r.ldrc = [s.ldrc EXCEPT ![t] = Nobody] /\ \A d \in Clients : r.cl[d].st = s.cl[d].st
  BY <1>23 DEF Back
<1> QED
  BY <1>8, <1>25, <1>26

\* The function DisownAll() is defined with.
LEMMA DisownAllIs ==
  ASSUME NEW S, NEW q \in Seq(S), NEW s
  PROVE  \E f : /\ DisownAll(s, q) = f[Len(q)] /\ f[0] = s
                /\ \A i \in 1..Len(q) : f[i] = Disown(q[Len(q) + 1 - i], f[i - 1])
<1> DEFINE D(g, n) ==
             [i \in 0..n |-> IF i = 0 THEN s
                             ELSE Disown(q[Len(q) + 1 - i], g[i - 1])]
           T == {n \in Nat : ~\E g : g = D(g, n)}
<1>1. T = {}
  <2> SUFFICES ASSUME T # {} PROVE FALSE
    OBVIOUS
  <2>1. PICK n \in T : \A m \in T : n <= m
    BY NatMin
  <2>2. n # 0
    <3> DEFINE g == [i \in 0..0 |-> s]
    <3>1. g = D(g, 0)
      OBVIOUS
    <3> QED
      BY <3>1
  <2>3. n - 1 \in Nat /\ n - 1 \notin T
    <3>1. n \in Nat /\ n - 1 \in Nat /\ ~(n <= n - 1)
      BY <2>2
    <3> HIDE DEF T
    <3> QED
      BY <2>1, <3>1
  <2>4. PICK g : g = D(g, n - 1)
    BY <2>3
  <2> DEFINE e == Disown(q[Len(q) + 1 - n], g[n - 1])
             h == [i \in 0..n |-> IF i < n THEN g[i] ELSE e]
  <2>5. h = D(h, n)
    <3>1. \A i \in 0..n : h[i] = D(h, n)[i]
      <4> SUFFICES ASSUME NEW i \in 0..n PROVE h[i] = D(h, n)[i]
        OBVIOUS
      <4> HIDE DEF e
      <4>1. CASE i = 0
        BY <2>2, <2>3, <2>4, <4>1
      <4>2. CASE i # 0 /\ i < n
        <5>1. i \in 0..(n - 1) /\ i - 1 \in 0..n /\ i - 1 < n
          BY <2>3, <4>2
        <5>2. h[i] = g[i] /\ h[i - 1] = g[i - 1]
          BY <5>1, <4>2
        <5>3. g[i] = D(g, n - 1)[i]
          BY <2>4
        <5> QED
          BY <4>2, <5>1, <5>2, <5>3
      <4>3. CASE i = n
        <5>1. n - 1 \in 0..n /\ n - 1 < n /\ n \in 0..n
          BY <2>1, <2>2
        <5>2. h[n] = e /\ h[n - 1] = g[n - 1]
          BY <5>1
        <5> QED
          BY <2>2, <4>3, <5>1, <5>2 DEF e
      <4> QED
        BY <4>1, <4>2, <4>3
    <3> HIDE DEF e
    <3> QED
      BY <3>1
  <2> QED
    BY <2>1, <2>5
<1> DEFINE f == CHOOSE f : f = D(f, Len(q))
<1>2. Len(q) \in Nat
  BY LenProperties
<1>3. \E g : g = D(g, Len(q))
  BY <1>1, <1>2
<1>4. f = D(f, Len(q))
  BY <1>3
<1>5. DisownAll(s, q) = f[Len(q)]
  BY DEF DisownAll
<1> HIDE DEF f
<1>6. f[0] = s
  BY <1>2, <1>4
<1>7. ASSUME NEW i \in 1..Len(q)
      PROVE  f[i] = Disown(q[Len(q) + 1 - i], f[i - 1])
  <2>1. i \in 0..Len(q) /\ i # 0
    BY <1>2
  <2>2. f[i] = D(f, Len(q))[i]
    BY <1>4
  <2> QED
    BY <2>1, <2>2
<1> QED
  BY <1>5, <1>6, <1>7

LEMMA DisownAllSound ==
  ASSUME NEW s, Sound(s), NEW c \in Clients
  PROVE  LET r == DisownAll(s, Only(s.proc, Held(s, c)))
         IN  /\ Sound(r) /\ Careful(s, r) /\ Held(r, c) = {}
             /\ \A d \in Clients : r.cl[d].st = s.cl[d].st
<1> DEFINE q == Only(s.proc, Held(s, c))
           n == Len(q)
           Gone(i, t) == \E j \in 1..n : j > n - i /\ q[j] = t
<1>1. s \in Server /\ s.proc \in Seq(Frames) /\ s.ldrc \in [Frames -> Clients \cup {Nobody}]
  BY Read DEF Sound, Calm
<1>2. q \in Seq(Frames) /\ \A t : Listed(q, t) = IF t \in Held(s, c) THEN Listed(s.proc, t) ELSE 0
  <2> DEFINE H == Held(s, c)
  <2> HIDE DEF H
  <2>0. s.proc \in Seq(Frames)
    BY <1>1
  <2>1. \A t : /\ Only(s.proc, H) \in Seq(Frames)
               /\ Listed(Only(s.proc, H), t) = IF t \in H THEN Listed(s.proc, t) ELSE 0
    <3> HIDE DEF q, n, Gone
    <3> DEFINE p == s.proc
    <3> HIDE DEF p
    <3>1. p \in Seq(Frames)
      BY <2>0 DEF p
    <3>2. \A P, t : /\ Only(p, P) \in Seq(Frames)
               /\ Listed(Only(p, P), t) = IF t \in P THEN Listed(p, t) ELSE 0
      BY <3>1, ListedOnly
    <3> QED
      BY <3>2 DEF p
  <2> QED
    BY <2>1 DEF H
<1>3. c # Nobody
  BY DEF Clients, Nobody
<1>4. \A t \in Frames : /\ Listed(s.proc, t) \in Nat /\ Listed(s.proc, t) <= 1
                        /\ s.ldrc[t] = c => Listed(s.proc, t) > 0
  <2> SUFFICES ASSUME NEW t \in Frames
               PROVE  /\ Listed(s.proc, t) \in Nat /\ Listed(s.proc, t) <= 1
                      /\ s.ldrc[t] = c => Listed(s.proc, t) > 0
    OBVIOUS
  <2>1. Places(s, t) <= 1 /\ Lent(s, t)
    BY DEF Sound, Fine
  <2>2. /\ Listed(s.todo, t) \in Nat /\ Listed(s.proc, t) \in Nat
        /\ Listed(s.done, t) \in Nat /\ Times(s.srcDone = t) \in {0, 1}
    BY <1>1, PlacesType
  <2> QED
    BY <1>3, <2>1, <2>2 DEF Places, Lent
<1> HIDE DEF q
<1>5. n \in Nat /\ DOMAIN q = 1..n
  BY <1>2, LenProperties
<1>6. \A i \in 1..n : q[i] \in Frames /\ Listed(q, q[i]) <= 1 /\ s.ldrc[q[i]] = c
  <2> SUFFICES ASSUME NEW i \in 1..n
               PROVE  q[i] \in Frames /\ Listed(q, q[i]) <= 1 /\ s.ldrc[q[i]] = c
    OBVIOUS
  <2>1. q[i] \in Frames
    BY <1>2, <1>5, ElementOfSeq
  <2>2. Listed(q, q[i]) > 0
    BY <1>2, <1>5, ListedType
  <2>3. q[i] \in Held(s, c)
    BY <1>2, <2>2
  <2> QED
    BY <1>2, <1>4, <2>1, <2>3 DEF Held
<1>7. \A i, j \in 1..n : q[i] = q[j] => i = j
  <2> SUFFICES ASSUME NEW i \in DOMAIN q, NEW j \in DOMAIN q, q[i] = q[j]
               PROVE  i = j
    BY <1>5
  <2> QED
    BY <1>2, <1>5, <1>6, ListedOnce
<1>8. \A t \in Held(s, c) : \E j \in 1..n : q[j] = t
  <2> SUFFICES ASSUME NEW t \in Held(s, c) PROVE \E j \in 1..n : q[j] = t
    OBVIOUS
  <2>1. Listed(q, t) > 0
    BY <1>2, <1>4 DEF Held
  <2> QED
    BY <1>2, <1>5, <2>1, ListedType
<1>9. PICK f : /\ DisownAll(s, q) = f[n] /\ f[0] = s
               /\ \A i \in 1..n : f[i] = Disown(q[n + 1 - i], f[i - 1])
  BY <1>2, DisownAllIs
<1> DEFINE P(i) == /\ Sound(f[i]) /\ Careful(s, f[i])
                   /\ \A d \in Clients : f[i].cl[d].st = s.cl[d].st
                   /\ \A t \in Frames : f[i].ldrc[t] = IF Gone(i, t) THEN Nobody ELSE s.ldrc[t]
           T == {i \in Nat : i <= n /\ ~P(i)}
<1>10. T = {}
  <2> SUFFICES ASSUME T # {} PROVE FALSE
    OBVIOUS
  <2> HIDE DEF P
  <2>1. T \in SUBSET Nat
    OBVIOUS
  <2> HIDE DEF T
  <2>2. PICK i \in T : \A m \in T : i <= m
    BY <2>1, NatMin
  <2>3. i \in Nat /\ i <= n /\ ~P(i)
    BY <2>2 DEF T
  <2>4. i # 0
    <3> SUFFICES ASSUME i = 0 PROVE FALSE
      OBVIOUS
    <3>1. \A t : ~Gone(0, t)
      BY <1>5
    <3>2. Careful(s, s)
      BY DEF Careful
    <3>3. P(0)
      BY <1>9, <3>1, <3>2 DEF P
    <3> QED
      BY <2>3, <3>3
  <2>5. i - 1 \in Nat /\ i \in 1..n /\ i - 1 < i /\ i - 1 <= n
    BY <1>5, <2>3, <2>4
  <2>6. P(i - 1)
    <3>1. i - 1 \notin T
      BY <2>2, <2>3, <2>5
    <3> QED
      BY <2>5, <3>1 DEF T
  <2> DEFINE k == n + 1 - i
             t == q[k]
             g == f[i - 1]
  <2>7. k \in 1..n /\ \A j \in 1..n : j > n - i <=> j = k \/ j > n - (i - 1)
    BY <1>5, <2>5
  <2>8. t \in Frames /\ s.ldrc[t] = c
    BY <1>6, <2>7
  <2>9. ~Gone(i - 1, t)
    <3> SUFFICES ASSUME NEW j \in 1..n, j > n - (i - 1), q[j] = t PROVE FALSE
      OBVIOUS
    <3>1. j = k
      BY <1>7, <2>7
    <3> QED
      BY <1>5, <2>5, <3>1
  <2>10. \A u : Gone(i, u) <=> (u = t \/ Gone(i - 1, u))
    BY <2>7
  <2> HIDE DEF Gone, k, t
  <2>11. f[i] = Disown(t, g)
    BY <1>9, <2>5 DEF t, k
  <2>12. /\ Sound(g) /\ Careful(s, g)
         /\ \A d \in Clients : g.cl[d].st = s.cl[d].st
         /\ \A u \in Frames : g.ldrc[u] = IF Gone(i - 1, u) THEN Nobody ELSE s.ldrc[u]
    BY <2>6 DEF P
  <2> HIDE DEF g
  <2>13. g.ldrc[t] # Nobody
    BY <1>3, <2>8, <2>9, <2>12
  <2>14. /\ Sound(f[i]) /\ Careful(g, f[i])
         /\ f[i].ldrc = [g.ldrc EXCEPT ![t] = Nobody]
         /\ \A d \in Clients : f[i].cl[d].st = g.cl[d].st
    <3> DEFINE h == Disown(t, g)
    <3>1. /\ Sound(h) /\ Careful(g, h)
          /\ h.ldrc = [g.ldrc EXCEPT ![t] = Nobody]
          /\ \A d \in Clients : h.cl[d].st = g.cl[d].st
      BY <2>8, <2>12, <2>13, DisownSound
    <3>2. f[i] = h
      BY <2>11
    <3> HIDE DEF h
    <3> QED
      BY <3>1, <3>2
  <2>15. Careful(s, f[i])
    BY <2>12, <2>14, CarefulTrans
  <2>16. g.ldrc \in [Frames -> Clients \cup {Nobody}]
    BY <2>12, Read DEF Sound, Calm
  <2>17. \A u \in Frames : f[i].ldrc[u] = IF Gone(i, u) THEN Nobody ELSE s.ldrc[u]
    BY <2>8, <2>10, <2>12, <2>14, <2>16
  <2>18. P(i)
    BY <2>12, <2>14, <2>15, <2>17 DEF P
  <2> QED
    BY <2>3, <2>18
<1>11. P(n)
  BY <1>5, <1>10
<1>12. Held(f[n], c) = {}
  <2> SUFFICES ASSUME NEW t \in Frames, f[n].ldrc[t] = c PROVE FALSE
    BY DEF Held
  <2>1. s.ldrc[t] = c /\ ~Gone(n, t)
    BY <1>3, <1>11
  <2>2. PICK j \in 1..n : q[j] = t
    BY <1>8, <2>1 DEF Held
  <2> QED
    BY <1>5, <2>1, <2>2
<1> QED
  BY <1>9, <1>11, <1>12 DEF q

----------------------------------------------------------------------------
(* Clients go, answer and obey *)

\* Clients may close and settle.
LEMMA ClientsSound ==
  ASSUME NEW s, Sound(s), NEW cl \in [Clients -> ClientRecord],
         \A c \in Clients :
           /\ cl[c].counted = s.cl[c].counted /\ cl[c].jobs = s.cl[c].jobs
           /\ \/ cl[c].st = s.cl[c].st
              \/ /\ cl[c].st = "closed" /\ s.cl[c].st \in {"up", "connecting"}
                 /\ s.cl[c].jobs = 0,
         \A c \in Clients : Settled([s EXCEPT !.cl = cl], c)
  PROVE  LET r == [s EXCEPT !.cl = cl]
         IN  Sound(r) /\ Careful(s, r) /\ r.cl = cl
<1> DEFINE r == [s EXCEPT !.cl = cl]
<1>1. Calm(s) /\ s \in Server
  BY DEF Sound, Calm
<1>2. \A c \in Clients : /\ cl[c].counted = s.cl[c].counted
                         /\ cl[c].st = "up" => cl[c].counted
  BY <1>1 DEF Calm
<1>3. Calm(r) /\ r.cl = cl
  BY <1>1, <1>2, ClientsCalm
<1>4. /\ r.ldrc = s.ldrc /\ r.parts = s.parts /\ r.next = s.next /\ r.list = s.list
      /\ r.recon = s.recon /\ r.started = s.started /\ r.ess = s.ess
      /\ r.proc = s.proc /\ r.todo = s.todo /\ r.done = s.done /\ r.srcDone = s.srcDone
      /\ r.stage = s.stage /\ r.rtes = s.rtes /\ r.ftes = s.ftes
  OBVIOUS
<1>5. \A c \in Clients : Settled(r, c)
  OBVIOUS
<1> HIDE DEF r
<1>6. ASSUME NEW t \in Frames
      PROVE  Fine(r, t) /\ Lent(r, t) /\ Places(r, t) = Places(s, t)
  <2>1. Places(r, t) = Places(s, t)
    BY <1>4 DEF Places
  <2>2. Fine(s, t) /\ Lent(s, t)
    BY DEF Sound
  <2>3. Fine(r, t)
    BY <1>4, <2>1, <2>2 DEF Fine, Sane, AllParts
  <2>4. Lent(r, t)
    BY <1>4, <2>2 DEF Lent
  <2> QED
    BY <2>1, <2>3, <2>4
<1>7. ASSUME NEW c \in Clients PROVE Client(r, c)
  <2>1. Client(s, c)
    BY DEF Sound
  <2>2. Held(r, c) = Held(s, c)
    BY <1>4 DEF Held
  <2>3. /\ cl[c].counted = s.cl[c].counted /\ cl[c].jobs = s.cl[c].jobs
        /\ \/ cl[c].st = s.cl[c].st
           \/ /\ cl[c].st = "closed" /\ s.cl[c].st \in {"up", "connecting"}
              /\ s.cl[c].jobs = 0
    OBVIOUS
  <2>4. CASE cl[c].st = s.cl[c].st
    BY <1>3, <1>4, <2>1, <2>2, <2>3, <2>4 DEF Client
  <2>5. CASE cl[c].st = "closed" /\ s.cl[c].st \in {"up", "connecting"} /\ s.cl[c].jobs = 0
    BY <1>3, <1>4, <2>1, <2>2, <2>3, <2>5 DEF Client
  <2> QED
    BY <2>3, <2>4, <2>5
<1>8. ~r.started => r.list # <<>>
  BY <1>4 DEF Sound
<1>9. Careful(s, r)
  BY <1>4, <1>6 DEF Careful
<1>10. Sound(r)
  BY <1>3, <1>5, <1>6, <1>7, <1>8 DEF Sound
<1> QED
  BY <1>3, <1>9, <1>10 DEF r

\* A client without tasks may go.
LEMMA DeleteMeSound ==
  ASSUME NEW s, Sound(s), NEW c \in Clients, s.cl[c].st \in {"up", "connecting"},
         Held(s, c) = {}
  PROVE  LET r == DeleteMe(s, c) IN Sound(r) /\ Careful(s, r)
<1> DEFINE k == [s.cl[c] EXCEPT !.st = "closed"]
           cl == [s.cl EXCEPT ![c] = k]
           r == [s EXCEPT !.cl = cl]
<1>1. s \in Server /\ s.cl \in [Clients -> ClientRecord]
  BY Read DEF Sound, Calm
<1>2. s.cl[c].jobs = 0
  BY FS_EmptySet DEF Sound, Client
<1>3. DeleteMe(s, c) = r
  BY <1>2 DEF DeleteMe, Check
<1>4. ASSUME NEW d \in Clients
      PROVE  /\ cl[d] \in ClientRecord
             /\ cl[d].counted = s.cl[d].counted /\ cl[d].jobs = s.cl[d].jobs
             /\ cl[d].run = s.cl[d].run /\ cl[d].pend = s.cl[d].pend
             /\ cl[d].st = IF d = c THEN "closed" ELSE s.cl[d].st
  <2> DEFINE k0 == s.cl[c]
  <2>1. cl[d] = IF d = c THEN [k0 EXCEPT !.st = "closed"] ELSE s.cl[d]
    BY <1>1
  <2>2. k0 \in ClientRecord /\ s.cl[d] \in ClientRecord
    BY <1>1
  <2> HIDE DEF k0, cl
  <2>3. [k0 EXCEPT !.st = "closed"] \in ClientRecord /\ [k0 EXCEPT !.st = "closed"].st = "closed"
    BY <2>2 DEF ClientRecord
  <2> QED
    BY <2>1, <2>2, <2>3 DEF k0
<1>5. cl \in [Clients -> ClientRecord]
  BY <1>1, <1>4
<1> HIDE DEF cl
<1>6. r.cl = cl
  BY <1>1, Written
<1>7. r.ess = s.ess
  OBVIOUS
<1>8. \A d \in Clients : Settled(r, d)
  <2> SUFFICES ASSUME NEW d \in Clients PROVE Settled(r, d)
    OBVIOUS
  <2>1. Settled(s, d)
    BY DEF Sound
  <2> QED
    BY <1>4, <1>6, <1>7, <2>1 DEF Settled
<1>9. Sound(r) /\ Careful(s, r)
  BY <1>2, <1>4, <1>5, <1>8, ClientsSound
<1> QED
  BY <1>3, <1>9

\* A client that disconnects leaves its tasks behind.
LEMMA DisconnectedSound ==
  ASSUME NEW s, Sound(s), NEW c \in Clients, s.cl[c].st \in {"up", "connecting"}
  PROVE  LET r == ClientDisconnected(s, c) IN Sound(r) /\ Careful(s, r)
<1> DEFINE v == IF s.free = c THEN Nobody ELSE s.free
           a == [s EXCEPT !.free = v]
           b == DisownAll(a, Only(a.proc, Held(a, c)))
           r == DeleteMe(b, c)
<1>1. s \in Server /\ s.free \in Clients \cup {Nobody} /\ Calm(s)
  BY Read DEF Sound, Calm
<1>2. v \in Clients \cup {Nobody}
  BY <1>1
<1>3. a.proc = s.proc /\ Held(a, c) = Held(s, c)
  BY DEF Held
<1>4. ClientDisconnected(s, c) = r
  BY <1>3 DEF ClientDisconnected
<1> HIDE DEF v
<1>5. a \in Server /\ a.free = v
  BY <1>1, <1>2, Write, Written
<1>6. Alike(s, a) /\ a.crash = s.crash /\ a.sfs = s.sfs
  BY DEF Alike, Rest
<1> HIDE DEF a
<1>7. Calm(a) /\ Tame(s, a)
  BY <1>1, <1>5, <1>6, AlikeCalm DEF Calm, v
<1>8. Sound(a) /\ Careful(s, a)
  BY <1>7, TameSound
<1>9. /\ Sound(b) /\ Careful(a, b) /\ Held(b, c) = {}
      /\ \A d \in Clients : b.cl[d].st = a.cl[d].st
  BY <1>8, DisownAllSound
<1> HIDE DEF b
<1>10. b.cl[c].st \in {"up", "connecting"}
  BY <1>7, <1>9 DEF Tame, Still
<1>11. Sound(r) /\ Careful(b, r)
  BY <1>9, <1>10, DeleteMeSound
<1> HIDE DEF r
<1>12. Careful(s, r)
  BY <1>8, <1>9, <1>11, CarefulTrans
<1> QED
  BY <1>4, <1>11, <1>12

\* The connection may be given up because of a file of one of the tasks.
LEMMA MarkSound ==
  ASSUME NEW s, Sound(s), NEW t, t # NoTask => t \in Frames /\ s.ldrc[t] # Nobody
  PROVE  LET r == MarkTaskFailed(s, t)
         IN  Sound(r) /\ Careful(s, r) /\ r.cl = s.cl
<1>1. CASE t = NoTask
  <2>1. Careful(s, s)
    BY DEF Careful
  <2> QED
    BY <1>1, <2>1 DEF MarkTaskFailed
<1>2. CASE t # NoTask
  <2> DEFINE rt == IF "render" \in s.parts[t] THEN "failed" ELSE s.rtes[t]
             ft == IF "filter" \in s.parts[t] THEN "failed" ELSE s.ftes[t]
             vr == [s.rtes EXCEPT ![t] = rt]
             vf == [s.ftes EXCEPT ![t] = ft]
             a == [s EXCEPT !.rtes = vr]
             r == [a EXCEPT !.ftes = vf]
  <2>1. s \in Server /\ Calm(s) /\ t \in Frames
    BY <1>2 DEF Sound, Calm
  <2>2. s.rtes \in [Frames -> Results] /\ s.ftes \in [Frames -> Results]
    BY <2>1, Read
  <2>3. MarkTaskFailed(s, t) = r
    BY <1>2 DEF MarkTaskFailed
  <2>4. /\ rt \in Results /\ ft \in Results
        /\ rt = s.rtes[t] \/ ("render" \in s.parts[t] /\ rt # "ok")
        /\ ft = s.ftes[t] \/ ("filter" \in s.parts[t] /\ ft # "ok")
    BY <2>1, <2>2 DEF Results
  <2> HIDE DEF rt, ft
  <2>5. vr \in [Frames -> Results] /\ vf \in [Frames -> Results]
    BY <2>2, <2>4
  <2>6. \A u \in Frames : /\ vr[u] = IF u = t THEN rt ELSE s.rtes[u]
                          /\ vf[u] = IF u = t THEN ft ELSE s.ftes[u]
    BY <2>2
  <2> HIDE DEF vr, vf
  <2>7. a \in Server
    BY <2>1, <2>5, Write
  <2>8. a.rtes = vr
    BY <2>1, Written
  <2>9. r \in Server
    BY <2>5, <2>7, Write
  <2>10. r.ftes = vf
    BY <2>7, Written
  <2>11. r.rtes = vr
    BY <2>8
  <2>12. /\ r.todo = s.todo /\ r.proc = s.proc /\ r.done = s.done
         /\ r.srcDone = s.srcDone /\ r.next = s.next /\ r.list = s.list
         /\ r.recon = s.recon /\ r.trigger = s.trigger /\ r.noRecon = s.noRecon
         /\ r.started = s.started /\ r.shallQuit = s.shallQuit /\ r.dsmt = s.dsmt
         /\ r.sq = s.sq /\ r.sqa = s.sqa /\ r.toldIf = s.toldIf /\ r.toldTs = s.toldTs
         /\ r.ess = s.ess /\ r.connected = s.connected /\ r.pending = s.pending
         /\ r.quitStep = s.quitStep /\ r.crash = s.crash /\ r.tdaf = s.tdaf
         /\ r.free = s.free /\ r.sfs = s.sfs /\ r.cl = s.cl
         /\ r.stage = s.stage /\ r.ldrc = s.ldrc /\ r.parts = s.parts
    OBVIOUS
  <2> HIDE DEF a, r
  <2>13. Listed(s.proc, t) > 0 /\ Fine(s, t) /\ Lent(s, t)
    BY <1>2 DEF Sound, Lent
  <2>14. s.started /\ s.quitStep = 0 /\ ~s.toldTs
    BY <2>1, <2>13, InProcessing
  <2>15. Calm(r)
    <3>1. s.sfs # NoTask => Listed(r.todo, s.sfs) > 0 /\ r.stage[s.sfs] = s.stage[s.sfs]
      BY <2>1, <2>12 DEF Calm, Chosen
    <3>2. r.started /\ r.quitStep = 0 /\ ~r.toldTs
      BY <2>12, <2>14
    <3>3. \A c \in Clients : r.cl[c].st = s.cl[c].st /\ r.cl[c].counted = s.cl[c].counted
      BY <2>12
    <3> QED
      BY <2>1, <2>9, <2>12, <2>14, <3>1, <3>2, <3>3, MovedCalm
  <2>16. \A u : Places(r, u) = Places(s, u)
    BY <2>12 DEF Places
  <2>17. ASSUME NEW u \in Frames PROVE Fine(r, u) /\ Lent(r, u)
    <3>1. Fine(s, u) /\ Lent(s, u)
      BY DEF Sound
    <3>2. Lent(r, u)
      BY <2>12, <3>1 DEF Lent
    <3>3. CASE u # t
      <4>1. r.rtes[u] = s.rtes[u] /\ r.ftes[u] = s.ftes[u]
        BY <2>6, <2>10, <2>11, <3>3
      <4>2. Fine(r, u)
        BY <2>12, <2>16, <3>1, <4>1 DEF Fine, Sane, AllParts
      <4> QED
        BY <3>2, <4>2
    <3>4. CASE u = t
      <4>1. r.rtes[t] = rt /\ r.ftes[t] = ft
        BY <2>1, <2>6, <2>10, <2>11
      <4>2. s.stage[t] # "TaskDone"
        BY <2>13 DEF Fine
      <4>3. "render" \in s.parts[t] => s.stage[t] = "ToBeRendered"
        BY <2>13 DEF Lent
      <4>4. Sane(r, t)
        BY <2>4, <2>12, <2>13, <4>1, <4>2, <4>3 DEF Fine, Sane
      <4>5. ~(t >= s.next)
        <5>1. /\ Listed(s.todo, t) \in Nat /\ Listed(s.proc, t) \in Nat
              /\ Listed(s.done, t) \in Nat /\ Times(s.srcDone = t) \in {0, 1}
          BY <2>1, PlacesType
        <5>2. Places(s, t) # 0
          BY <2>13, <5>1 DEF Places
        <5> QED
          BY <2>13, <5>2 DEF Fine
      <4>6. Fine(r, t)
        BY <2>12, <2>13, <2>16, <4>4, <4>5 DEF Fine
      <4> QED
        BY <3>2, <3>4, <4>6
    <3> QED
      BY <3>3, <3>4
  <2>18. ASSUME NEW c \in Clients PROVE Client(r, c) /\ Settled(r, c)
    <3>1. Client(s, c) /\ Settled(s, c)
      BY DEF Sound
    <3>2. Held(r, c) = Held(s, c)
      BY <2>12 DEF Held
    <3> QED
      BY <2>12, <3>1, <3>2 DEF Client, Settled
  <2>19. ~r.started => r.list # <<>>
    BY <2>12 DEF Sound
  <2>20. Sound(r)
    BY <2>15, <2>17, <2>18, <2>19 DEF Sound
  <2>21. Careful(s, r)
    <3>1. Places(s, t) # 0
      <4>1. /\ Listed(s.todo, t) \in Nat /\ Listed(s.proc, t) \in Nat
            /\ Listed(s.done, t) \in Nat /\ Times(s.srcDone = t) \in {0, 1}
        BY <2>1, PlacesType
      <4> QED
        BY <2>13, <4>1 DEF Places
    <3>2. \A u \in Frames : u # t => r.rtes[u] = s.rtes[u] /\ r.ftes[u] = s.ftes[u]
      BY <2>6, <2>10, <2>11
    <3> QED
      BY <2>12, <2>16, <3>1, <3>2 DEF Careful
  <2> QED
    BY <2>3, <2>12, <2>20, <2>21
<1> QED
  BY <1>1, <1>2

\* A client has taken the task it was sent.
LEMMA LaunchResultSound ==
  ASSUME NEW s, Sound(s), NEW c \in Clients, s.cl[c].st = "up"
  PROVE  LET r == TaskLaunchResult(s, c) IN Sound(r) /\ Careful(s, r)
<1> DEFINE k == s.cl[c]
           m == [k EXCEPT !.keep = "unsent"]
           n == [m EXCEPT !.sending = NoTask]
           cl == [s.cl EXCEPT ![c] = n]
           a == [s EXCEPT !.cl = cl]
           d == CheckStartTasks(a)
           e == CheckStartExchange(d)
<1>1. s \in Server /\ s.cl \in [Clients -> ClientRecord] /\ s.started
  BY Read DEF Sound, Calm
<1>2. TaskLaunchResult(s, c) = e
  <2>1. [s EXCEPT !.cl[c].keep = "unsent", !.cl[c].sending = NoTask] = a
    <3>1. [s EXCEPT !.cl[c].keep = "unsent", !.cl[c].sending = NoTask] =
            [s EXCEPT !.cl = [[s.cl EXCEPT ![c] = m] EXCEPT ![c] = [@ EXCEPT !.sending = NoTask]]]
      OBVIOUS
    <3>2. [s.cl EXCEPT ![c] = m][c] = m
      BY <1>1
    <3>3. [[s.cl EXCEPT ![c] = m] EXCEPT ![c] = [@ EXCEPT !.sending = NoTask]] = cl
      <4>1. n = [[s.cl EXCEPT ![c] = m][c] EXCEPT !.sending = NoTask]
        BY <3>2
      <4> HIDE DEF m, n
      <4>2. [[s.cl EXCEPT ![c] = m] EXCEPT ![c] = n] = [s.cl EXCEPT ![c] = n]
        BY <1>1
      <4> QED
        BY <4>1, <4>2
    <3> QED
      BY <3>1, <3>3
  <2> HIDE DEF a
  <2> QED
    BY <2>1 DEF TaskLaunchResult, LaunchingTaskDone
<1>3. n \in ClientRecord /\ n.st = k.st /\ n.counted = k.counted /\ n.jobs = k.jobs
      /\ n.run = k.run /\ n.pend = k.pend
  <2>1. k \in ClientRecord
    BY <1>1
  <2> HIDE DEF k
  <2>2. m \in ClientRecord
    BY <2>1 DEF ClientRecord
  <2>3. m.st = k.st /\ m.counted = k.counted /\ m.jobs = k.jobs
        /\ m.run = k.run /\ m.pend = k.pend
    OBVIOUS
  <2> HIDE DEF m
  <2>4. n \in ClientRecord
    BY <2>2 DEF ClientRecord
  <2> QED
    BY <2>3, <2>4
<1> HIDE DEF n
<1>4. \A x \in Clients : cl[x] = IF x = c THEN n ELSE s.cl[x]
  BY <1>1
<1>5. cl \in [Clients -> ClientRecord]
  BY <1>1, <1>3
<1> HIDE DEF cl
<1>6. \A x \in Clients :
        /\ cl[x].st = s.cl[x].st /\ cl[x].counted = s.cl[x].counted /\ cl[x].jobs = s.cl[x].jobs
        /\ cl[x].run = s.cl[x].run /\ cl[x].pend = s.cl[x].pend
  BY <1>3, <1>4
<1>7. a.cl = cl /\ a.ess = s.ess
  BY <1>1, Written
<1>8. \A x \in Clients : Settled(a, x)
  BY <1>6, <1>7 DEF Settled, Sound
<1>9. Sound(a) /\ Careful(s, a)
  BY <1>5, <1>6, <1>8, ClientsSound
<1>10. a.started = s.started
  OBVIOUS
<1> HIDE DEF a
<1>11. Calm(d) /\ Tame(a, d)
  BY <1>9, CheckStartTasksCalm DEF Sound
<1> HIDE DEF d
<1>12. Sound(d) /\ Careful(a, d)
  BY <1>9, <1>11, TameSound
<1>13. d.started = TRUE
  BY <1>1, <1>10, <1>11 DEF Tame, Still
<1>14. Calm(e) /\ Tame(d, e)
  BY <1>11, <1>13, CheckExchangeCalm
<1> HIDE DEF e
<1>15. Sound(e) /\ Careful(d, e)
  BY <1>12, <1>14, TameSound
<1>16. Careful(s, e)
  BY <1>9, <1>12, <1>15, CarefulTrans
<1> QED
  BY <1>2, <1>15, <1>16


\* A client answers that it was stopped or goes on.
LEMMA ResponseSound ==
  ASSUME NEW s, Sound(s), NEW c \in Clients, s.cl[c].st = "up", s.cl[c].pend > 0
  PROVE  LET r == HandleControlCommandResponse(s, c) IN Sound(r) /\ Careful(s, r)
<1> DEFINE k == s.cl[c]
           r == HandleControlCommandResponse(s, c)
<1>1. s \in Server /\ s.cl \in [Clients -> ClientRecord] /\ Calm(s)
  BY Read DEF Sound, Calm
<1>2. k \in ClientRecord /\ k.pend \in Nat /\ k.run \in Runs
  <2>1. k \in ClientRecord
    BY <1>1
  <2> QED
    BY <2>1 DEF ClientRecord
<1>3. k.run \in {"Stopping", "Continuing"} /\ k.st = "up" /\ k.pend > 0
  BY DEF Sound, Settled
<1>4. CASE k.pend > 1
  <2> DEFINE m == [k EXCEPT !.pend = k.pend - 1]
             cl == [s.cl EXCEPT ![c] = m]
             a == [s EXCEPT !.cl = cl]
  <2>1. r = a
    BY <1>4 DEF HandleControlCommandResponse
  <2> HIDE DEF k
  <2>2. /\ m \in ClientRecord /\ m.pend = k.pend - 1
        /\ m.st = k.st /\ m.counted = k.counted /\ m.jobs = k.jobs /\ m.run = k.run
    <3>1. k.pend - 1 \in Nat
      BY <1>2, <1>4
    <3> QED
      BY <1>2, <3>1 DEF ClientRecord
  <2> HIDE DEF m
  <2>3. \A x \in Clients : cl[x] = IF x = c THEN m ELSE s.cl[x]
    BY <1>1
  <2>4. cl \in [Clients -> ClientRecord]
    BY <1>1, <2>2
  <2> HIDE DEF cl
  <2>5. \A x \in Clients :
          /\ cl[x].st = s.cl[x].st /\ cl[x].counted = s.cl[x].counted
          /\ cl[x].jobs = s.cl[x].jobs
    BY <2>2, <2>3 DEF k
  <2>6. a.cl = cl /\ a.ess = s.ess
    BY <1>1, Written
  <2>7. \A x \in Clients : Settled(a, x)
    <3> SUFFICES ASSUME NEW x \in Clients PROVE Settled(a, x)
      OBVIOUS
    <3>1. Settled(s, x)
      BY DEF Sound
    <3>2. CASE x # c
      BY <2>3, <2>6, <3>1, <3>2 DEF Settled
    <3>3. CASE x = c
      BY <1>2, <1>3, <1>4, <2>2, <2>3, <2>6, <3>1, <3>3 DEF Settled, k
    <3> QED
      BY <3>2, <3>3
  <2>8. Sound(a) /\ Careful(s, a)
    BY <2>4, <2>5, <2>7, ClientsSound
  <2> QED
    BY <2>1, <2>8
<1>5. CASE ~(k.pend > 1)
  <2> DEFINE run == IF k.run = "Stopping" THEN "Stopped" ELSE "Running"
             m == [k EXCEPT !.pend = 0]
             n == [m EXCEPT !.run = run]
             bc == [s.cl EXCEPT ![c] = m]
             b == [s EXCEPT !.cl = bc]
             cl == [s.cl EXCEPT ![c] = n]
             a == [s EXCEPT !.cl = cl]
             e == CheckExecStopStatusChange(a)
  <2>1. r = CheckExecStopStatusChange(Settle(b, c))
    BY <1>5 DEF HandleControlCommandResponse
  <2> HIDE DEF k
  <2>2. /\ m \in ClientRecord /\ m.pend = 0
        /\ m.st = k.st /\ m.counted = k.counted /\ m.jobs = k.jobs /\ m.run = k.run
    <3>1. 0 \in Nat
      OBVIOUS
    <3> QED
      BY <1>2, <3>1 DEF ClientRecord
  <2> HIDE DEF m
  <2>3. /\ n \in ClientRecord /\ n.run = run
        /\ n.st = m.st /\ n.counted = m.counted /\ n.jobs = m.jobs /\ n.pend = m.pend
    <3>1. run \in Runs
      BY DEF Runs
    <3> HIDE DEF run
    <3> QED
      BY <2>2, <3>1 DEF ClientRecord
  <2>4. Settle(b, c) = a
    <3>1. b.cl = bc /\ bc[c] = m
      BY <1>1, Written
    <3> HIDE DEF b
    <3>2. b.cl[c].run = k.run
      BY <2>2, <3>1
    <3>3. Check(b, b.cl[c].run \in {"Stopping", "Continuing"}) = b
      BY <1>3, <3>2 DEF Check
    <3>4. Settle(b, c) = [b EXCEPT !.cl[c].run = IF @ = "Stopping" THEN "Stopped" ELSE "Running"]
      BY <3>3 DEF Settle
    <3>5. [b EXCEPT !.cl[c].run = IF @ = "Stopping" THEN "Stopped" ELSE "Running"]
            = [b EXCEPT !.cl = [b.cl EXCEPT ![c] = [b.cl[c] EXCEPT !.run = run]]]
      BY <3>2
    <3>6. [b.cl EXCEPT ![c] = [b.cl[c] EXCEPT !.run = run]] = [bc EXCEPT ![c] = n]
      BY <3>1
    <3> HIDE DEF n
    <3>7. [bc EXCEPT ![c] = n] = cl
      BY <1>1
    <3>8. [b EXCEPT !.cl = cl] = a
      <4> HIDE DEF cl, bc
      <4> QED
        BY DEF b
    <3> QED
      BY <3>4, <3>5, <3>6, <3>7, <3>8
  <2> HIDE DEF n
  <2>5. \A x \in Clients : cl[x] = IF x = c THEN n ELSE s.cl[x]
    BY <1>1
  <2>6. cl \in [Clients -> ClientRecord]
    BY <1>1, <2>3
  <2> HIDE DEF cl
  <2>7. \A x \in Clients :
          /\ cl[x].st = s.cl[x].st /\ cl[x].counted = s.cl[x].counted
          /\ cl[x].jobs = s.cl[x].jobs
    BY <2>2, <2>3, <2>5 DEF k
  <2>8. a.cl = cl /\ a.ess = s.ess
    BY <1>1, Written
  <2>9. \A x \in Clients : Settled(a, x)
    <3> SUFFICES ASSUME NEW x \in Clients PROVE Settled(a, x)
      OBVIOUS
    <3>1. Settled(s, x)
      BY DEF Sound
    <3>2. CASE x # c
      BY <2>5, <2>8, <3>1, <3>2 DEF Settled
    <3>3. CASE x = c
      <4>1. n.pend = 0 /\ n.st = "up" /\ a.cl[c] = n
        BY <1>3, <2>2, <2>3, <2>5, <2>8
      <4>2. /\ n.run \in {"Stopped", "Running"}
            /\ k.run = "Stopping" <=> n.run = "Stopped"
        BY <1>3, <2>3
      <4>3. s.ess \in Runs
        BY <1>1, Read
      <4> QED
        BY <1>3, <2>8, <3>1, <3>3, <4>1, <4>2, <4>3 DEF Settled, k, Runs
    <3> QED
      BY <3>2, <3>3
  <2>10. Sound(a) /\ Careful(s, a)
    BY <2>6, <2>7, <2>9, ClientsSound
  <2> HIDE DEF a
  <2>11. Calm(e) /\ Still(a, e) /\ \A x \in Clients : Settled(e, x)
    BY <2>10, CheckExecStopCalm DEF Sound
  <2> HIDE DEF e
  <2>12. Sound(e) /\ Careful(a, e)
    BY <2>10, <2>11, StillSound
  <2>13. Careful(s, e)
    BY <2>10, <2>12, CarefulTrans
  <2>14. r = e
    BY <2>1, <2>4 DEF e
  <2> HIDE DEF r
  <2>15. Sound(r) /\ Careful(s, r)
    BY <2>12, <2>13, <2>14
  <2> QED
    BY <2>15 DEF r
<1> QED
  BY <1>4, <1>5

\* The tasks stay with whom they are; lists may have been sorted out.
Kept(s, r) ==
  /\ r.proc = s.proc /\ r.ldrc = s.ldrc /\ r.parts = s.parts
  /\ r.stage = s.stage /\ r.rtes = s.rtes /\ r.ftes = s.ftes /\ r.next = s.next
  /\ \A t \in Frames : /\ Places(r, t) = Places(s, t)
                       /\ Listed(r.todo, t) <= Listed(s.todo, t)

LEMMA KeptTrans ==
  ASSUME NEW s \in Server, NEW r \in Server, NEW q \in Server, Kept(s, r), Kept(r, q)
  PROVE  Kept(s, q)
<1>1. \A t \in Frames : /\ Listed(s.todo, t) \in Nat /\ Listed(r.todo, t) \in Nat
                        /\ Listed(q.todo, t) \in Nat
  BY PlacesType
<1> QED
  BY <1>1 DEF Kept

LEMMA KeptTasks ==
  ASSUME NEW s, Sound(s), NEW r \in Server, Kept(s, r)
  PROVE  /\ \A t \in Frames : Fine(r, t) /\ Lent(r, t)
         /\ \A c \in Clients : Held(r, c) = Held(s, c)
         /\ Careful(s, r)
<1>1. s \in Server
  BY DEF Sound, Calm
<1>2. ASSUME NEW t \in Frames PROVE Fine(r, t) /\ Lent(r, t)
  <2>1. Fine(s, t) /\ Lent(s, t)
    BY DEF Sound
  <2>2. /\ Places(r, t) = Places(s, t) /\ Listed(r.todo, t) <= Listed(s.todo, t)
        /\ Listed(r.todo, t) \in Nat /\ Listed(s.todo, t) \in Nat
    BY <1>1, PlacesType DEF Kept
  <2>3. Sane(r, t)
    BY <2>1 DEF Kept, Fine, Sane, AllParts
  <2>4. Fine(r, t)
    BY <2>1, <2>2, <2>3 DEF Kept, Fine
  <2>5. Lent(r, t)
    BY <2>1 DEF Kept, Lent
  <2> QED
    BY <2>4, <2>5
<1>3. Careful(s, r)
  BY DEF Kept, Careful
<1>4. \A c \in Clients : Held(r, c) = Held(s, c)
  BY DEF Kept, Held
<1> QED
  BY <1>2, <1>3, <1>4

\* The interface forgets a client that may be the last.
LEMMA TriggerCalm ==
  ASSUME NEW s, Calm(s), NEW c \in Clients
  PROVE  LET r == TriggerReconnect(s, c)
         IN  /\ Calm(r) /\ Kept(s, r) /\ r.list = s.list /\ r.cl = s.cl
             /\ r.ess = s.ess /\ r.started = s.started
             /\ \A d \in Clients : d # c => r.recon[d] = s.recon[d]
<1>1. s \in Server
  BY DEF Calm
<1>2. CASE s.noRecon
  BY <1>1, <1>2, PlacesType DEF TriggerReconnect, Kept
<1>3. CASE ~s.noRecon
  <2> DEFINE v == IF s.trigger THEN 2 ELSE 1
             w == [s.recon EXCEPT ![c] = v]
             a == [s EXCEPT !.recon = w]
             r == [a EXCEPT !.trigger = TRUE]
  <2>1. TriggerReconnect(s, c) = r
    BY <1>3 DEF TriggerReconnect
  <2>2. s.recon \in [Clients -> 0..2]
    BY <1>1, Read
  <2>3. v \in 0..2
    OBVIOUS
  <2> HIDE DEF v
  <2>4. w \in [Clients -> 0..2] /\ \A d \in Clients : d # c => w[d] = s.recon[d]
    BY <2>2, <2>3
  <2> HIDE DEF w
  <2>5. a \in Server
    BY <1>1, <2>4, Write
  <2>6. a.recon = w
    BY <1>1, Written
  <2>7. r \in Server
    <3>1. TRUE \in BOOLEAN
      OBVIOUS
    <3> QED
      BY <2>5, <3>1, Write
  <2>8. r.recon = w
    BY <2>6
  <2>9. /\ r.todo = s.todo /\ r.proc = s.proc /\ r.done = s.done
        /\ r.srcDone = s.srcDone /\ r.stage = s.stage /\ r.list = s.list
        /\ r.rtes = s.rtes /\ r.ftes = s.ftes /\ r.next = s.next
        /\ r.ldrc = s.ldrc /\ r.parts = s.parts /\ r.cl = s.cl
        /\ r.noRecon = s.noRecon
        /\ r.started = s.started /\ r.shallQuit = s.shallQuit
        /\ r.dsmt = s.dsmt /\ r.sq = s.sq /\ r.sqa = s.sqa /\ r.tdaf = s.tdaf
        /\ r.toldIf = s.toldIf /\ r.toldTs = s.toldTs
        /\ r.connected = s.connected /\ r.pending = s.pending
        /\ r.quitStep = s.quitStep /\ r.crash = s.crash /\ r.ess = s.ess
        /\ r.free = s.free /\ r.sfs = s.sfs
    OBVIOUS
  <2> HIDE DEF a, r
  <2>10. MustConnect(r) = MustConnect(s)
    <3>1. Halted(r) = Halted(s)
      BY <2>9 DEF Halted
    <3> QED
      BY <2>9, <3>1, SameMustConnect
  <2>11. Chosen(r)
    <3>1. \A t : Processed(r, t) = Processed(s, t)
      BY <2>9 DEF Processed
    <3> QED
      BY <2>9, <3>1 DEF Calm, Chosen
  <2>12. Over(r)
    BY <1>3, <2>9, <2>10 DEF Calm, Over, Empty, Quitting
  <2>13. Talk(r) /\ Early(r)
    BY <2>9 DEF Calm, Talk, Early, Empty
  <2>14. Calm(r)
    BY <2>7, <2>9, <2>11, <2>12, <2>13 DEF Calm
  <2>15. Kept(s, r)
    <3>1. \A t \in Frames : Places(r, t) = Places(s, t) /\ Listed(s.todo, t) \in Nat
      BY <1>1, <2>9, PlacesType DEF Places
    <3> QED
      BY <2>9, <3>1 DEF Kept
  <2> QED
    BY <2>1, <2>4, <2>8, <2>9, <2>14, <2>15
<1> QED
  BY <1>2, <1>3

\* From now on the program is at work.
LEMMA StartedCalm ==
  ASSUME NEW s, Calm(s)
  PROVE  LET r == [s EXCEPT !.started = TRUE]
         IN  /\ Calm(r) /\ Kept(s, r) /\ r.list = s.list /\ r.cl = s.cl
             /\ r.ess = s.ess /\ r.started /\ r.recon = s.recon
             /\ r.quitStep = s.quitStep /\ r.sfs = s.sfs
<1> DEFINE r == [s EXCEPT !.started = TRUE]
<1>1. s \in Server
  BY DEF Calm
<1>2. r \in Server
  <2>1. TRUE \in BOOLEAN
    OBVIOUS
  <2> QED
    BY <1>1, <2>1, Write
<1>3. r.started = TRUE
  BY <1>1, Written
<1>4. /\ r.todo = s.todo /\ r.proc = s.proc /\ r.done = s.done
      /\ r.srcDone = s.srcDone /\ r.stage = s.stage /\ r.list = s.list
      /\ r.rtes = s.rtes /\ r.ftes = s.ftes /\ r.next = s.next
      /\ r.ldrc = s.ldrc /\ r.parts = s.parts /\ r.cl = s.cl /\ r.recon = s.recon
      /\ r.trigger = s.trigger /\ r.noRecon = s.noRecon
      /\ r.shallQuit = s.shallQuit
      /\ r.dsmt = s.dsmt /\ r.sq = s.sq /\ r.sqa = s.sqa /\ r.tdaf = s.tdaf
      /\ r.toldIf = s.toldIf /\ r.toldTs = s.toldTs
      /\ r.connected = s.connected /\ r.pending = s.pending
      /\ r.quitStep = s.quitStep /\ r.crash = s.crash /\ r.ess = s.ess
      /\ r.free = s.free /\ r.sfs = s.sfs
  OBVIOUS
<1> HIDE DEF r
<1>5. MustConnect(r) = MustConnect(s)
  <2>1. Halted(r) = Halted(s)
    BY <1>4 DEF Halted
  <2> QED
    BY <1>4, <2>1, SameMustConnect
<1>6. Chosen(r)
  <2>1. \A t : Processed(r, t) = Processed(s, t)
    BY <1>4 DEF Processed
  <2> QED
    BY <1>3, <1>4, <2>1 DEF Calm, Chosen
<1>7. Over(r)
  BY <1>4, <1>5 DEF Calm, Over, Empty, Quitting
<1>8. Talk(r) /\ Early(r)
  BY <1>3, <1>4 DEF Calm, Talk, Early, Empty
<1>9. Calm(r)
  BY <1>2, <1>3, <1>4, <1>6, <1>7, <1>8 DEF Calm
<1>10. Kept(s, r)
  <2>1. \A t \in Frames : Places(r, t) = Places(s, t) /\ Listed(s.todo, t) \in Nat
    BY <1>1, <1>4, PlacesType DEF Places
  <2> QED
    BY <1>4, <2>1 DEF Kept
<1> QED
  BY <1>3, <1>4, <1>9, <1>10 DEF r

LEMMA LastClientCalm ==
  ASSUME NEW s, Calm(s)
  PROVE  LET r == CheckLastClient(s)
         IN  /\ Calm(r) /\ Kept(s, r) /\ r.list = s.list /\ r.recon = s.recon
             /\ r.ess = s.ess /\ (~r.started => r.list # <<>>)
             /\ \A c \in Clients :
                  /\ r.cl[c].st = s.cl[c].st /\ r.cl[c].counted = s.cl[c].counted
                  /\ r.cl[c].jobs = s.cl[c].jobs
                  /\ r.cl[c].run = s.cl[c].run /\ r.cl[c].pend = s.cl[c].pend
<1> DEFINE f == [s EXCEPT !.started = TRUE]
           g == StartFailed(f)
           q == QuittingNowDone(s)
<1>1. s \in Server
  BY DEF Calm
<1>2. CASE s.started /\ s.shallQuit /\ Counted(s) = {}
  <2>1. CheckLastClient(s) = q
    BY <1>2 DEF CheckLastClient
  <2>2. Calm(q) /\ Tame(s, q)
    BY QuittingNowDoneCalm
  <2> HIDE DEF q
  <2> QED
    BY <1>2, <2>1, <2>2 DEF Tame, Still, Kept
<1>3. CASE ~s.started /\ s.list = <<>>
  <2>1. CheckLastClient(s) = g
    BY <1>3 DEF CheckLastClient
  <2>2. /\ Calm(f) /\ Kept(s, f) /\ f.list = s.list /\ f.cl = s.cl
        /\ f.ess = s.ess /\ f.started /\ f.recon = s.recon
        /\ f.quitStep = s.quitStep /\ f.sfs = s.sfs
    BY StartedCalm
  <2> HIDE DEF f
  <2>3. f.quitStep = 0 /\ f.sfs = NoTask
    BY <1>3, <2>2 DEF Calm, Chosen
  <2>4. Calm(g) /\ Tame(f, g)
    BY <2>2, <2>3, StartFailedCalm
  <2> HIDE DEF g
  <2>5. Kept(f, g)
    BY <2>4 DEF Tame, Still, Kept
  <2>6. Kept(s, g)
    BY <1>1, <2>2, <2>4, <2>5, KeptTrans DEF Calm
  <2>7. g.started
    BY <2>2, <2>4 DEF Tame, Still
  <2>8. /\ g.list = s.list /\ g.recon = s.recon /\ g.ess = s.ess
        /\ \A c \in Clients :
             /\ g.cl[c].st = s.cl[c].st /\ g.cl[c].counted = s.cl[c].counted
             /\ g.cl[c].jobs = s.cl[c].jobs
             /\ g.cl[c].run = s.cl[c].run /\ g.cl[c].pend = s.cl[c].pend
    BY <2>2, <2>4 DEF Tame, Still
  <2> QED
    BY <2>1, <2>4, <2>6, <2>7, <2>8
<1>4. CASE ~(s.started /\ s.shallQuit /\ Counted(s) = {}) /\ ~(~s.started /\ s.list = <<>>)
  <2>1. CheckLastClient(s) = s
    BY <1>4 DEF CheckLastClient
  <2>2. Kept(s, s)
    BY <1>1, PlacesType DEF Kept
  <2> QED
    BY <1>4, <2>1, <2>2
<1> QED
  BY <1>2, <1>3, <1>4

\* What UnregisterLDRClient() first makes of a client being deleted: it is in no
\* list and not counted any more.
Unlisted(s, c) == [s EXCEPT !.list = Without(@, c), !.free = Nobody,
                            !.cl[c].counted = FALSE]


\* The interface takes a client that is closed from its list.
LEMMA UnlistCalm ==
  ASSUME NEW s, Sound(s), NEW c \in Clients, s.cl[c].st = "closed",
         NEW x, x = Unlisted(s, c)
  PROVE  /\ Calm(x) /\ Kept(s, x) /\ ToSet(x.list) = ToSet(s.list) \ {c}
         /\ x.recon = s.recon /\ x.ess = s.ess /\ x.started = s.started
         /\ x.cl[c].st = "closed" /\ ~x.cl[c].counted
         /\ \A d \in Clients : d # c => x.cl[d] = s.cl[d]
<1> DEFINE L == Without(s.list, c)
           k0 == s.cl[c]
           k == [k0 EXCEPT !.counted = FALSE]
           cl == [s.cl EXCEPT ![c] = k]
           a == [s EXCEPT !.list = L]
           b == [a EXCEPT !.free = Nobody]
           r == [b EXCEPT !.cl = cl]
<1>1. x = r
  BY DEF Unlisted
<1>2. /\ s \in Server /\ s.cl \in [Clients -> ClientRecord] /\ s.list \in Seq(Clients)
      /\ s.crash # "assert"
  BY Read DEF Sound, Calm
<1>3. L \in Seq(Clients) /\ ToSet(L) = ToSet(s.list) \ {c}
  BY <1>2, ListedWithout, ToSetWithout
<1>4. /\ k \in ClientRecord /\ k.st = "closed" /\ ~k.counted
  <2>1. k0 \in ClientRecord /\ k0.st = "closed"
    BY <1>2
  <2> HIDE DEF k0
  <2>2. k \in ClientRecord
    BY <2>1 DEF ClientRecord
  <2>3. k.st = "closed" /\ k.counted = FALSE
    BY <2>1 DEF ClientRecord
  <2> QED
    BY <2>2, <2>3
<1> HIDE DEF L, k
<1>5. /\ cl \in [Clients -> ClientRecord] /\ cl[c] = k
      /\ \A d \in Clients : d # c => cl[d] = s.cl[d]
  BY <1>2, <1>4
<1> HIDE DEF cl
<1>6. a \in Server
  BY <1>2, <1>3, Write
<1>7. a.list = L
  BY <1>2, Written
<1>8. b \in Server
  <2>1. Nobody \in Clients \cup {Nobody}
    OBVIOUS
  <2> QED
    BY <1>6, <2>1, Write
<1>9. b.free = Nobody
  BY <1>6, Written
<1>10. r \in Server
  BY <1>5, <1>8, Write
<1>11. r.cl = cl
  BY <1>8, Written
<1>12. r.list = L /\ r.free = Nobody
  BY <1>7, <1>9
<1>13. /\ r.todo = s.todo /\ r.proc = s.proc /\ r.done = s.done
       /\ r.srcDone = s.srcDone /\ r.stage = s.stage
       /\ r.rtes = s.rtes /\ r.ftes = s.ftes /\ r.next = s.next
       /\ r.ldrc = s.ldrc /\ r.parts = s.parts /\ r.recon = s.recon
       /\ r.trigger = s.trigger /\ r.noRecon = s.noRecon
       /\ r.started = s.started /\ r.shallQuit = s.shallQuit
       /\ r.dsmt = s.dsmt /\ r.sq = s.sq /\ r.sqa = s.sqa /\ r.tdaf = s.tdaf
       /\ r.toldIf = s.toldIf /\ r.toldTs = s.toldTs
       /\ r.connected = s.connected /\ r.pending = s.pending
       /\ r.quitStep = s.quitStep /\ r.crash = s.crash /\ r.ess = s.ess
       /\ r.sfs = s.sfs
  OBVIOUS
<1> HIDE DEF a, b, r
<1>14. MustConnect(r) = MustConnect(s)
  <2>1. Halted(r) = Halted(s)
    BY <1>13 DEF Halted
  <2> QED
    BY <1>13, <2>1, SameMustConnect
<1>15. Chosen(r)
  <2>1. \A t : Processed(r, t) = Processed(s, t)
    BY <1>13 DEF Processed
  <2> QED
    BY <1>12, <1>13, <2>1 DEF Sound, Calm, Chosen
<1>16. Over(r)
  <2>1. ~s.toldTs
    <3>1. c \in ToSet(s.list)
      BY DEF Sound, Client
    <3>2. ToSet(<<>>) = {}
      BY DEF ToSet
    <3> QED
      BY <3>1, <3>2 DEF Sound, Calm, Over
  <2> QED
    BY <1>13, <1>14, <2>1 DEF Sound, Calm, Over
<1>17. Talk(r) /\ Early(r)
  BY <1>13 DEF Sound, Calm, Talk, Early, Empty
<1>18. \A d \in Clients : /\ r.cl[d].st = "up" => r.cl[d].counted
                          /\ r.cl[d].counted => r.started
  <2> SUFFICES ASSUME NEW d \in Clients
               PROVE  /\ r.cl[d].st = "up" => r.cl[d].counted
                      /\ r.cl[d].counted => r.started
    OBVIOUS
  <2>1. CASE d = c
    BY <1>4, <1>5, <1>11, <2>1
  <2>2. CASE d # c
    BY <1>5, <1>11, <1>13, <2>2 DEF Sound, Calm
  <2> QED
    BY <2>1, <2>2
<1>19. Calm(r)
  BY <1>2, <1>10, <1>13, <1>15, <1>16, <1>17, <1>18 DEF Calm
<1>20. Kept(s, r)
  <2>1. \A t \in Frames : Places(r, t) = Places(s, t) /\ Listed(s.todo, t) \in Nat
    BY <1>2, <1>13, PlacesType DEF Places
  <2> QED
    BY <1>13, <2>1 DEF Kept
<1> QED
  BY <1>1, <1>3, <1>4, <1>5, <1>11, <1>12, <1>13, <1>19, <1>20

LEMMA HeldFinite ==
  ASSUME NEW s, NEW c
  PROVE  IsFiniteSet(Held(s, c))
<1>1. NFrames \in Nat
  BY FarmAssumption
<1>2. IsFiniteSet(Frames)
  BY <1>1, FS_Interval DEF Frames
<1>3. Held(s, c) \subseteq Frames
  BY DEF Held
<1> QED
  BY <1>2, <1>3, FS_Subset

\* Who is not connected holds nothing.
LEMMA NoJobs ==
  ASSUME NEW s, Sound(s), NEW c \in Clients, s.cl[c].st # "up"
  PROVE  Cardinality(Held(s, c)) = 0
<1>1. Client(s, c) /\ s.cl[c].jobs \in Int
  <2>1. s.cl[c] \in ClientRecord
    BY Read DEF Sound, Calm
  <2> QED
    BY <2>1 DEF Sound, ClientRecord
<1>2. ~(s.cl[c].jobs > 0)
  BY <1>1 DEF Client
<1>3. Cardinality(Held(s, c)) \in Nat
  BY HeldFinite, FS_CardinalityType
<1> QED
  BY <1>1, <1>2, <1>3 DEF Client

\* The destructor of a client.
LEMMA UnregisterSound ==
  ASSUME NEW s, Sound(s), NEW c \in Clients, s.cl[c].st = "closed"
  PROVE  LET r == UnregisterLDRClient(s, c)
         IN  Sound(r) /\ Careful(s, r)
             /\ \A d \in Clients : r.cl[d].st = IF d = c THEN "gone" ELSE s.cl[d].st
<1> DEFINE a == [s EXCEPT !.list = Without(@, c), !.free = Nobody,
                          !.cl[c].counted = FALSE]
           b == TellManager(a, s.cl[c].counted)
           d == CheckExecStopStatusChange(b)
           e == TriggerReconnect(d, c)
           g == CheckLastClient(e)
           cl == [g.cl EXCEPT ![c] = NoClient]
           r == [g EXCEPT !.cl = cl]
<1>1. UnregisterLDRClient(s, c) = r
  BY DEF UnregisterLDRClient
<1>2. s \in Server /\ s.cl[c].counted \in BOOLEAN
  <2>1. s \in Server /\ s.cl[c] \in ClientRecord
    BY Read DEF Sound, Calm
  <2> QED
    BY <2>1 DEF ClientRecord
<1>3. /\ Calm(a) /\ Kept(s, a) /\ ToSet(a.list) = ToSet(s.list) \ {c}
      /\ a.recon = s.recon /\ a.ess = s.ess /\ a.started = s.started
      /\ a.cl[c].st = "closed" /\ ~a.cl[c].counted
      /\ \A x \in Clients : x # c => a.cl[x] = s.cl[x]
  <2>1. a = Unlisted(s, c)
    BY DEF Unlisted
  <2> HIDE DEF a, b, d, e, g, cl, r
  <2> QED
    BY <2>1, UnlistCalm
<1> HIDE DEF a
<1>4. Calm(b) /\ Tame(a, b)
  BY <1>2, <1>3, TellManagerCalm
<1> HIDE DEF b
<1>5. \A x \in Clients : Settled(b, x)
  <2> SUFFICES ASSUME NEW x \in Clients PROVE Settled(b, x)
    OBVIOUS
  <2>1. Settled(a, x)
    <3>1. Settled(s, x)
      BY DEF Sound
    <3>2. CASE x = c
      BY <1>3, <3>2 DEF Settled
    <3>3. CASE x # c
      BY <1>3, <3>1, <3>3 DEF Settled
    <3> QED
      BY <3>2, <3>3
  <2> QED
    BY <1>4, <2>1 DEF Tame, Still, Settled
<1>6. Calm(d) /\ Still(b, d) /\ \A x \in Clients : Settled(d, x)
  BY <1>4, <1>5, CheckExecStopCalm
<1> HIDE DEF d
<1>7. /\ Calm(e) /\ Kept(d, e) /\ e.list = d.list /\ e.cl = d.cl
      /\ e.ess = d.ess /\ e.started = d.started
      /\ \A x \in Clients : x # c => e.recon[x] = d.recon[x]
  BY <1>6, TriggerCalm
<1> HIDE DEF e
<1>8. /\ Calm(g) /\ Kept(e, g) /\ g.list = e.list /\ g.recon = e.recon
      /\ g.ess = e.ess /\ (~g.started => g.list # <<>>)
      /\ \A x \in Clients :
           /\ g.cl[x].st = e.cl[x].st /\ g.cl[x].counted = e.cl[x].counted
           /\ g.cl[x].jobs = e.cl[x].jobs
           /\ g.cl[x].run = e.cl[x].run /\ g.cl[x].pend = e.cl[x].pend
  BY <1>7, LastClientCalm
<1> HIDE DEF g
<1>9. g.cl \in [Clients -> ClientRecord] /\ g \in Server
  BY <1>8, Read DEF Calm
<1>10. /\ cl \in [Clients -> ClientRecord] /\ cl[c] = NoClient
       /\ \A x \in Clients : x # c => cl[x] = g.cl[x]
  <2>1. NoClient \in ClientRecord
    BY DEF NoClient, ClientRecord, Runs
  <2> QED
    BY <1>9, <2>1
<1>11. NoClient.st = "gone" /\ NoClient.counted = FALSE /\ NoClient.jobs = 0
  BY DEF NoClient
<1> HIDE DEF cl
<1>12. /\ ~g.cl[c].counted
       /\ \A x \in Clients : x # c =>
            /\ g.cl[x].st = s.cl[x].st /\ g.cl[x].counted = s.cl[x].counted
            /\ g.cl[x].jobs = s.cl[x].jobs /\ g.recon[x] = s.recon[x]
  BY <1>3, <1>4, <1>6, <1>7, <1>8 DEF Tame, Still
<1>13. Calm(r) /\ r.cl = cl
  <2>1. \A x \in Clients : /\ cl[x].counted = g.cl[x].counted
                           /\ cl[x].st = "up" => cl[x].counted
    <3> SUFFICES ASSUME NEW x \in Clients
                 PROVE  cl[x].counted = g.cl[x].counted /\ (cl[x].st = "up" => cl[x].counted)
      OBVIOUS
    <3>1. g.cl[c].counted = FALSE
      <4>1. g.cl[c] \in ClientRecord
        BY <1>9
      <4> QED
        BY <1>12, <4>1 DEF ClientRecord
    <3>2. CASE x = c
      BY <1>10, <1>11, <3>1, <3>2
    <3>3. CASE x # c
      BY <1>8, <1>10, <3>3 DEF Calm
    <3> QED
      BY <3>2, <3>3
  <2> QED
    BY <1>8, <1>10, <2>1, ClientsCalm
<1>14. /\ r.todo = g.todo /\ r.proc = g.proc /\ r.done = g.done
       /\ r.srcDone = g.srcDone /\ r.stage = g.stage
       /\ r.rtes = g.rtes /\ r.ftes = g.ftes /\ r.next = g.next
       /\ r.ldrc = g.ldrc /\ r.parts = g.parts
       /\ r.list = g.list /\ r.recon = g.recon /\ r.ess = g.ess /\ r.started = g.started
  OBVIOUS
<1> HIDE DEF r
<1>15. Kept(g, r)
  <2>1. \A t \in Frames : Places(r, t) = Places(g, t) /\ Listed(g.todo, t) \in Nat
    BY <1>9, <1>14, PlacesType DEF Places
  <2> QED
    BY <1>14, <2>1 DEF Kept
<1>16. Kept(s, r)
  <2>1. Kept(a, b) /\ Kept(b, d)
    BY <1>4, <1>6 DEF Tame, Still, Kept
  <2>2. a \in Server /\ b \in Server /\ d \in Server /\ e \in Server /\ r \in Server
    BY <1>3, <1>4, <1>6, <1>7, <1>13 DEF Calm
  <2>3. Kept(s, b)
    BY <1>2, <1>3, <2>1, <2>2, KeptTrans
  <2>4. Kept(s, d)
    BY <1>2, <2>1, <2>2, <2>3, KeptTrans
  <2>5. Kept(s, e)
    BY <1>2, <1>7, <2>2, <2>4, KeptTrans
  <2>6. Kept(s, g)
    BY <1>2, <1>8, <1>9, <2>2, <2>5, KeptTrans
  <2> QED
    BY <1>2, <1>9, <1>15, <2>2, <2>6, KeptTrans
<1>17. /\ \A t \in Frames : Fine(r, t) /\ Lent(r, t)
       /\ \A x \in Clients : Held(r, x) = Held(s, x)
       /\ Careful(s, r)
  BY <1>13, <1>16, KeptTasks DEF Calm
<1>18. ToSet(r.list) = ToSet(s.list) \ {c}
  BY <1>3, <1>4, <1>6, <1>7, <1>8, <1>14 DEF Tame, Still
<1>19. ASSUME NEW x \in Clients PROVE Client(r, x) /\ Settled(r, x)
  <2>1. Client(s, x)
    BY DEF Sound
  <2>2. /\ r.cl[x].st = "up" => r.cl[x].counted
        /\ r.cl[x].counted => r.started
    BY <1>13 DEF Calm
  <2>3. CASE x = c
    <3>1. Cardinality(Held(s, c)) = 0
      BY NoJobs
    <3>2. ClientHigh \in Nat
      BY FarmAssumption
    <3> QED
      BY <1>10, <1>11, <1>13, <1>17, <1>18, <2>3, <3>1, <3>2 DEF Client, Settled
  <2>4. CASE x # c
    <3>1. /\ r.cl[x].st = s.cl[x].st /\ r.cl[x].counted = s.cl[x].counted
          /\ r.cl[x].jobs = s.cl[x].jobs /\ r.recon[x] = s.recon[x]
      BY <1>10, <1>12, <1>13, <1>14, <2>4
    <3>2. Client(r, x)
      BY <1>17, <1>18, <2>1, <2>2, <2>4, <3>1 DEF Client
    <3>3. Settled(d, x)
      BY <1>6
    <3>4. r.cl[x].run = d.cl[x].run /\ r.cl[x].pend = d.cl[x].pend /\ r.ess = d.ess
          /\ r.cl[x].st = d.cl[x].st
      BY <1>7, <1>8, <1>10, <1>13, <1>14, <2>4
    <3> QED
      BY <3>2, <3>3, <3>4 DEF Settled
  <2> QED
    BY <2>3, <2>4
<1>20. ~r.started => r.list # <<>>
  BY <1>8, <1>14
<1>21. Sound(r)
  BY <1>13, <1>17, <1>19, <1>20 DEF Sound
<1>22. \A x \in Clients : r.cl[x].st = IF x = c THEN "gone" ELSE s.cl[x].st
  BY <1>10, <1>11, <1>12, <1>13
<1> QED
  BY <1>1, <1>17, <1>21, <1>22

\* The interface may note that a client is there once the work has begun.
LEMMA ComeCalm ==
  ASSUME NEW s, Calm(s), NEW cl \in [Clients -> ClientRecord],
         \A c \in Clients : /\ s.cl[c].counted => cl[c].counted
                            /\ cl[c].counted => s.started
                            /\ cl[c].st = "up" => cl[c].counted
  PROVE  LET r == [s EXCEPT !.cl = cl]
         IN  /\ Calm(r) /\ Kept(s, r) /\ r.cl = cl /\ r.list = s.list
             /\ r.recon = s.recon /\ r.ess = s.ess /\ r.started = s.started
             /\ r.quitStep = s.quitStep /\ r.toldTs = s.toldTs
             /\ r.todo = s.todo /\ r.done = s.done
<1> DEFINE r == [s EXCEPT !.cl = cl]
<1>1. s \in Server
  BY DEF Calm
<1>2. r \in Server
  BY <1>1, Write
<1>3. r.cl = cl
  BY <1>1, Written
<1>4. /\ r.todo = s.todo /\ r.proc = s.proc /\ r.done = s.done
      /\ r.srcDone = s.srcDone /\ r.stage = s.stage /\ r.list = s.list
      /\ r.rtes = s.rtes /\ r.ftes = s.ftes /\ r.next = s.next
      /\ r.ldrc = s.ldrc /\ r.parts = s.parts /\ r.recon = s.recon
      /\ r.trigger = s.trigger /\ r.noRecon = s.noRecon
      /\ r.started = s.started /\ r.shallQuit = s.shallQuit
      /\ r.dsmt = s.dsmt /\ r.sq = s.sq /\ r.sqa = s.sqa /\ r.tdaf = s.tdaf
      /\ r.toldIf = s.toldIf /\ r.toldTs = s.toldTs
      /\ r.connected = s.connected /\ r.pending = s.pending
      /\ r.quitStep = s.quitStep /\ r.crash = s.crash /\ r.ess = s.ess
      /\ r.free = s.free /\ r.sfs = s.sfs
  OBVIOUS
<1> HIDE DEF r
<1>5. MustConnect(r) = MustConnect(s)
  <2>1. Halted(r) = Halted(s)
    BY <1>4 DEF Halted
  <2> QED
    BY <1>4, <2>1, SameMustConnect
<1>6. Chosen(r)
  <2>1. \A t : Processed(r, t) = Processed(s, t)
    BY <1>4 DEF Processed
  <2>2. r.free # Nobody => r.cl[r.free].counted
    <3>1. r.free # Nobody => r.free \in Clients
      BY <1>2, Read
    <3> QED
      BY <1>3, <1>4, <3>1 DEF Calm, Chosen
  <2> QED
    BY <1>4, <2>1, <2>2 DEF Calm, Chosen
<1>7. Talk(r)
  BY <1>4 DEF Calm, Talk
<1>8. Over(r)
  BY <1>4, <1>5 DEF Calm, Over, Empty, Quitting
<1>9. Early(r)
  BY <1>4 DEF Calm, Early, Empty
<1>10. Calm(r)
  BY <1>2, <1>3, <1>4, <1>6, <1>7, <1>8, <1>9 DEF Calm
<1>11. Kept(s, r)
  <2>1. \A t \in Frames : Places(r, t) = Places(s, t) /\ Listed(s.todo, t) \in Nat
    BY <1>1, <1>4, PlacesType DEF Places
  <2> QED
    BY <1>4, <2>1 DEF Kept
<1> QED
  BY <1>3, <1>4, <1>10, <1>11 DEF r

\* The first client starts the work, the others change the number of jobs.
LEMMA FirstOrNextCalm ==
  ASSUME NEW s, Sound(s), NEW c \in Clients, s.cl[c].st = "connecting",
         NEW cl \in [Clients -> ClientRecord], cl[c].st = "up", cl[c].counted,
         \A d \in Clients : d # c => cl[d] = s.cl[d]
  PROVE  LET r == FirstOrNext([s EXCEPT !.cl = cl])
         IN  /\ Calm(r) /\ Kept(s, r) /\ r.list = s.list /\ r.recon = s.recon
             /\ r.ess = s.ess /\ r.started
             /\ \A d \in Clients :
                  /\ r.cl[d].st = cl[d].st /\ r.cl[d].counted = cl[d].counted
                  /\ r.cl[d].jobs = cl[d].jobs
                  /\ r.cl[d].run = cl[d].run /\ r.cl[d].pend = cl[d].pend
<1> DEFINE a == [s EXCEPT !.cl = cl]
           r == FirstOrNext(a)
<1>1. s \in Server /\ Calm(s)
  BY DEF Sound, Calm
<1>2. \A d \in Clients : /\ s.cl[d].counted => cl[d].counted
                         /\ cl[d].st = "up" => cl[d].counted
                         /\ d # c => (cl[d].counted => s.started)
  BY <1>1 DEF Calm
<1>3. a.started = s.started
  OBVIOUS
<1>4. ASSUME NEW b, Calm(b), Kept(s, b), b.cl = cl, b.list = s.list,
             b.recon = s.recon, b.ess = s.ess, b.started, Calm(r), Tame(b, r)
      PROVE  /\ Calm(r) /\ Kept(s, r) /\ r.list = s.list /\ r.recon = s.recon
             /\ r.ess = s.ess /\ r.started
             /\ \A d \in Clients :
                  /\ r.cl[d].st = cl[d].st /\ r.cl[d].counted = cl[d].counted
                  /\ r.cl[d].jobs = cl[d].jobs
                  /\ r.cl[d].run = cl[d].run /\ r.cl[d].pend = cl[d].pend
  <2> HIDE DEF r
  <2>1. Kept(b, r)
    BY <1>4 DEF Tame, Still, Kept
  <2>2. Kept(s, r)
    BY <1>1, <1>4, <2>1, KeptTrans DEF Calm
  <2> QED
    BY <1>4, <2>2 DEF Tame, Still
<1>5. CASE s.started
  <2>1. /\ Calm(a) /\ Kept(s, a) /\ a.cl = cl /\ a.list = s.list
        /\ a.recon = s.recon /\ a.ess = s.ess /\ a.started = s.started
    <3>1. \A d \in Clients : cl[d].counted => s.started
      BY <1>5
    <3> QED
      BY <1>1, <1>2, <3>1, ComeCalm
  <2>2. r = TellManager(a, TRUE)
    BY <1>3, <1>5 DEF FirstOrNext
  <2> HIDE DEF a
  <2>3. Calm(r) /\ Tame(a, r)
    BY <2>1, <2>2, TellManagerCalm
  <2> HIDE DEF r
  <2>4. a.started
    BY <1>3, <1>5
  <2> QED
    BY <1>4, <2>1, <2>3, <2>4 DEF r, a
<1>6. CASE ~s.started
  <2> DEFINE e == [s EXCEPT !.started = TRUE]
             b == [e EXCEPT !.cl = cl]
  <2>1. /\ Calm(e) /\ Kept(s, e) /\ e.list = s.list /\ e.cl = s.cl
        /\ e.ess = s.ess /\ e.started /\ e.recon = s.recon
        /\ e.quitStep = s.quitStep /\ e.sfs = s.sfs
    BY <1>1, StartedCalm
  <2>2. r = StartProcessing(b)
    <3>1. [a EXCEPT !.started = TRUE] = b
      OBVIOUS
    <3> HIDE DEF a, b
    <3> QED
      BY <1>3, <1>6, <3>1 DEF FirstOrNext
  <2>3. e.proc = s.proc /\ e.toldTs = s.toldTs /\ e.todo = s.todo /\ e.done = s.done
    OBVIOUS
  <2> HIDE DEF e
  <2>4. /\ Calm(b) /\ Kept(e, b) /\ b.cl = cl /\ b.list = e.list
        /\ b.recon = e.recon /\ b.ess = e.ess /\ b.started = e.started
        /\ b.quitStep = e.quitStep /\ b.toldTs = e.toldTs
        /\ b.todo = e.todo /\ b.done = e.done
    <3>1. \A d \in Clients : /\ e.cl[d].counted => cl[d].counted
                             /\ cl[d].counted => e.started
                             /\ cl[d].st = "up" => cl[d].counted
      BY <1>2, <2>1
    <3> QED
      BY <2>1, <3>1, ComeCalm
  <2> HIDE DEF b
  <2>5. s.proc = <<>> /\ s.quitStep = 0
    BY <1>1, <1>6 DEF Calm, Chosen
  <2>6. ~s.toldTs
    <3>1. c \in ToSet(s.list)
      BY DEF Sound, Client
    <3>2. ToSet(<<>>) = {}
      BY DEF ToSet
    <3> QED
      BY <1>1, <3>1, <3>2 DEF Calm, Over
  <2>7. "CONT" \notin Signals => Empty(b)
    BY <1>1, <1>6, <2>3, <2>4 DEF Calm, Early, Empty
  <2>8. Calm(r) /\ Tame(b, r)
    <3>1. b.proc = <<>>
      BY <2>3, <2>4, <2>5 DEF Kept
    <3>2. b.started /\ b.quitStep = 0 /\ ~b.toldTs
      BY <2>1, <2>3, <2>4, <2>5, <2>6
    <3> QED
      BY <2>2, <2>4, <2>7, <3>1, <3>2, StartProcessingCalm
  <2>9. Kept(s, b)
    BY <1>1, <2>1, <2>4, KeptTrans DEF Calm
  <2>10. b.started
    BY <2>1, <2>4
  <2> HIDE DEF r
  <2> QED
    BY <1>4, <2>1, <2>4, <2>8, <2>9, <2>10 DEF r
<1> QED
  BY <1>5, <1>6

\* A client is there; it has to stop if the others have to.
LEMMA ConnectedSound ==
  ASSUME NEW s, Sound(s), NEW c \in Clients, s.cl[c].st = "connecting",
         s.ess # "Stopped"
  PROVE  LET r == SuccessfullyConnected(s, c) IN Sound(r) /\ Careful(s, r)
<1> DEFINE k0 == s.cl[c]
           k1 == [k0 EXCEPT !.st = "up"]
           k == [k1 EXCEPT !.counted = TRUE]
           cl == [s.cl EXCEPT ![c] = k]
           a == [s EXCEPT !.cl = cl]
           d == FirstOrNext(a)
           r == TellHalted(d, c)
<1>1. s \in Server /\ s.cl \in [Clients -> ClientRecord]
  BY Read DEF Sound, Calm
<1>2. SuccessfullyConnected(s, c) = r
  <2>1. [s EXCEPT !.cl[c].st = "up", !.cl[c].counted = TRUE] =
          [s EXCEPT !.cl = [[s.cl EXCEPT ![c] = k1] EXCEPT ![c] = [@ EXCEPT !.counted = TRUE]]]
    OBVIOUS
  <2>2. [s.cl EXCEPT ![c] = k1][c] = k1
    BY <1>1
  <2>3. [[s.cl EXCEPT ![c] = k1] EXCEPT ![c] = [@ EXCEPT !.counted = TRUE]] = cl
    <3>1. k = [[s.cl EXCEPT ![c] = k1][c] EXCEPT !.counted = TRUE]
      BY <2>2
    <3> HIDE DEF k, k1
    <3>2. [[s.cl EXCEPT ![c] = k1] EXCEPT ![c] = k] = [s.cl EXCEPT ![c] = k]
      BY <1>1
    <3> QED
      BY <3>1, <3>2
  <2> HIDE DEF cl
  <2>4. [s EXCEPT !.cl[c].st = "up", !.cl[c].counted = TRUE] = a
    BY <2>1, <2>3
  <2> HIDE DEF a
  <2> QED
    BY <2>4 DEF SuccessfullyConnected
<1>3. /\ k \in ClientRecord /\ k.st = "up" /\ k.counted /\ k.jobs = k0.jobs
      /\ k.run = k0.run /\ k.pend = k0.pend
  <2>1. k0 \in ClientRecord
    BY <1>1
  <2> HIDE DEF k0
  <2>2. k1 \in ClientRecord /\ k1.st = "up"
    BY <2>1 DEF ClientRecord
  <2>3. k1.jobs = k0.jobs /\ k1.run = k0.run /\ k1.pend = k0.pend
    OBVIOUS
  <2> HIDE DEF k1
  <2>4. k \in ClientRecord /\ k.counted = TRUE
    BY <2>2 DEF ClientRecord
  <2> QED
    BY <2>2, <2>3, <2>4
<1> HIDE DEF k
<1>4. /\ cl \in [Clients -> ClientRecord] /\ cl[c] = k
      /\ \A x \in Clients : x # c => cl[x] = s.cl[x]
  BY <1>1, <1>3
<1> HIDE DEF cl
<1>5. /\ Calm(d) /\ Kept(s, d) /\ d.list = s.list /\ d.recon = s.recon
      /\ d.ess = s.ess /\ d.started
      /\ \A x \in Clients :
           /\ d.cl[x].st = cl[x].st /\ d.cl[x].counted = cl[x].counted
           /\ d.cl[x].jobs = cl[x].jobs
           /\ d.cl[x].run = cl[x].run /\ d.cl[x].pend = cl[x].pend
  BY <1>3, <1>4, FirstOrNextCalm
<1> HIDE DEF d
<1>6. k.run = "Running" /\ k.pend = 0
  BY <1>3 DEF Sound, Settled
<1>7. /\ \A t \in Frames : Fine(d, t) /\ Lent(d, t)
      /\ \A x \in Clients : Held(d, x) = Held(s, x)
      /\ Careful(s, d)
  BY <1>5, KeptTasks DEF Calm
<1>8. \A x \in Clients : Client(d, x)
  <2> SUFFICES ASSUME NEW x \in Clients PROVE Client(d, x)
    OBVIOUS
  <2>1. Client(s, x)
    BY DEF Sound
  <2>2. CASE x = c
    BY <1>3, <1>4, <1>5, <1>7, <2>1, <2>2 DEF Client
  <2>3. CASE x # c
    BY <1>4, <1>5, <1>7, <2>1, <2>3 DEF Client
  <2> QED
    BY <2>2, <2>3
<1>9. \A x \in Clients : x # c => Settled(d, x)
  BY <1>4, <1>5 DEF Sound, Settled
<1>10. CASE ~Halted(d)
  <2>1. r = d
    BY <1>10 DEF TellHalted
  <2>2. Settled(d, c)
    BY <1>3, <1>4, <1>5, <1>6, <1>10 DEF Settled, Halted
  <2>3. Sound(d)
    BY <1>5, <1>7, <1>8, <1>9, <2>2 DEF Sound
  <2> QED
    BY <1>2, <1>7, <2>1, <2>3
<1>11. CASE Halted(d)
  <2> DEFINE m0 == d.cl[c]
             m1 == [m0 EXCEPT !.pend = m0.pend + 1]
             m == [m1 EXCEPT !.run = "Stopping"]
             dc == [d.cl EXCEPT ![c] = m]
             q == [d EXCEPT !.cl = dc]
  <2>1. d.cl \in [Clients -> ClientRecord] /\ d \in Server
    BY <1>5, Read DEF Calm
  <2>2. r = q
    <3>1. r = [d EXCEPT !.cl[c].pend = @ + 1, !.cl[c].run = "Stopping"]
      BY <1>11 DEF TellHalted, QueueStopCont
    <3>2. [d EXCEPT !.cl[c].pend = @ + 1, !.cl[c].run = "Stopping"] =
            [d EXCEPT !.cl = [[d.cl EXCEPT ![c] = m1] EXCEPT ![c] = [@ EXCEPT !.run = "Stopping"]]]
      OBVIOUS
    <3>3. [d.cl EXCEPT ![c] = m1][c] = m1
      BY <2>1
    <3>4. [[d.cl EXCEPT ![c] = m1] EXCEPT ![c] = [@ EXCEPT !.run = "Stopping"]] = dc
      <4>1. m = [[d.cl EXCEPT ![c] = m1][c] EXCEPT !.run = "Stopping"]
        BY <3>3
      <4> HIDE DEF m, m1
      <4>2. [[d.cl EXCEPT ![c] = m1] EXCEPT ![c] = m] = [d.cl EXCEPT ![c] = m]
        BY <2>1
      <4> QED
        BY <4>1, <4>2
    <3> HIDE DEF dc, r
    <3> QED
      BY <3>1, <3>2, <3>4
  <2>3. /\ m \in ClientRecord /\ m.pend = 1 /\ m.run = "Stopping"
        /\ m.st = "up" /\ m.counted = m0.counted /\ m.jobs = m0.jobs
    <3>1. m0 \in ClientRecord /\ m0.pend = 0 /\ m0.st = "up"
      BY <1>3, <1>4, <1>5, <1>6, <2>1
    <3> HIDE DEF m0
    <3>2. m1 \in ClientRecord /\ m1.pend = 1
      BY <3>1 DEF ClientRecord
    <3>3. m1.st = m0.st /\ m1.counted = m0.counted /\ m1.jobs = m0.jobs
      OBVIOUS
    <3> HIDE DEF m1
    <3>4. "Stopping" \in Runs
      BY DEF Runs
    <3>5. m \in ClientRecord /\ m.run = "Stopping"
      BY <3>2, <3>4 DEF ClientRecord
    <3> QED
      BY <3>1, <3>2, <3>3, <3>5
  <2> HIDE DEF m
  <2>4. /\ dc \in [Clients -> ClientRecord] /\ dc[c] = m
        /\ \A x \in Clients : x # c => dc[x] = d.cl[x]
    BY <2>1, <2>3
  <2> HIDE DEF dc
  <2>5. Calm(q) /\ q.cl = dc
    <3>1. \A x \in Clients : /\ dc[x].counted = d.cl[x].counted
                             /\ dc[x].st = "up" => dc[x].counted
      <4> SUFFICES ASSUME NEW x \in Clients
                   PROVE  dc[x].counted = d.cl[x].counted /\ (dc[x].st = "up" => dc[x].counted)
        OBVIOUS
      <4>1. CASE x = c
        BY <1>3, <1>4, <1>5, <2>3, <2>4, <4>1
      <4>2. CASE x # c
        BY <1>5, <2>4, <4>2 DEF Calm
      <4> QED
        BY <4>1, <4>2
    <3> QED
      BY <1>5, <2>4, <3>1, ClientsCalm
  <2>6. /\ q.todo = d.todo /\ q.proc = d.proc /\ q.done = d.done
        /\ q.srcDone = d.srcDone /\ q.stage = d.stage
        /\ q.rtes = d.rtes /\ q.ftes = d.ftes /\ q.next = d.next
        /\ q.ldrc = d.ldrc /\ q.parts = d.parts
        /\ q.list = d.list /\ q.recon = d.recon /\ q.ess = d.ess /\ q.started = d.started
    OBVIOUS
  <2> HIDE DEF q
  <2>7. Kept(d, q)
    <3>1. \A t \in Frames : Places(q, t) = Places(d, t) /\ Listed(d.todo, t) \in Nat
      BY <2>1, <2>6, PlacesType DEF Places
    <3> QED
      BY <2>6, <3>1 DEF Kept
  <2>8. Kept(s, q)
    BY <1>1, <1>5, <2>1, <2>5, <2>7, KeptTrans DEF Calm
  <2>9. /\ \A t \in Frames : Fine(q, t) /\ Lent(q, t)
        /\ \A x \in Clients : Held(q, x) = Held(s, x)
        /\ Careful(s, q)
    BY <2>5, <2>8, KeptTasks DEF Calm
  <2>10. ASSUME NEW x \in Clients PROVE Client(q, x) /\ Settled(q, x)
    <3>1. Client(d, x)
      BY <1>8
    <3>2. CASE x = c
      <4>1. q.cl[c].jobs = d.cl[c].jobs /\ q.cl[c].st = d.cl[c].st
            /\ q.cl[c].counted = d.cl[c].counted
        BY <1>3, <1>4, <1>5, <2>3, <2>4, <2>5
      <4>2. Client(q, c)
        BY <1>7, <2>6, <2>9, <3>1, <3>2, <4>1 DEF Client
      <4>3. q.ess = "Stopping"
        BY <1>5, <1>11, <2>6 DEF Halted
      <4> QED
        BY <2>3, <2>4, <2>5, <3>2, <4>2, <4>3 DEF Settled
    <3>3. CASE x # c
      BY <1>7, <1>9, <2>4, <2>5, <2>6, <2>9, <3>1, <3>3 DEF Client, Settled
    <3> QED
      BY <3>2, <3>3
  <2>11. Sound(q)
    BY <1>5, <2>5, <2>6, <2>9, <2>10 DEF Sound
  <2> HIDE DEF r
  <2> QED
    BY <1>2, <2>2, <2>9, <2>11
<1> QED
  BY <1>10, <1>11

\* The clients in numerical order, of them some.
LEMMA AgainIs ==
  ASSUME NEW S \in SUBSET Clients
  PROVE  LET q == Only([c \in Clients |-> c], S)
         IN  q \in Seq(Clients) /\ ToSet(q) = S
<1> DEFINE p == [c \in Clients |-> c]
           q == Only(p, S)
<1>1. p \in Seq(Clients)
  <2>1. NClients \in Nat
    BY FarmAssumption
  <2> QED
    BY <2>1 DEF Clients
<1>2. \A c \in Clients : Listed(p, c) > 0
  <2> SUFFICES ASSUME NEW c \in Clients PROVE Listed(p, c) > 0
    OBVIOUS
  <2>1. c \in DOMAIN p /\ p[c] = c
    OBVIOUS
  <2> HIDE DEF p
  <2> QED
    BY <1>1, <2>1, ListedType
<1> HIDE DEF p
<1>3. q \in Seq(Clients)
  BY <1>1, ListedOnly
<1>4. \A c \in Clients : c \in ToSet(q) <=> c \in S
  <2> SUFFICES ASSUME NEW c \in Clients PROVE c \in ToSet(q) <=> c \in S
    OBVIOUS
  <2>1. Listed(q, c) = IF c \in S THEN Listed(p, c) ELSE 0
    BY <1>1, ListedOnly
  <2> HIDE DEF q
  <2>2. Listed(q, c) > 0 <=> c \in ToSet(q)
    BY <1>3, ListedType
  <2> QED
    BY <1>2, <2>1, <2>2
<1> HIDE DEF q
<1>5. ToSet(q) \subseteq Clients
  BY <1>3, LenProperties DEF ToSet
<1>6. ToSet(q) = S
  BY <1>4, <1>5
<1> QED
  BY <1>3, <1>6 DEF q, p

\* The connections lost some time ago are tried again.
LEMMA ReconnectSound ==
  ASSUME NEW s, Sound(s), s.trigger
  PROVE  LET again == {c \in Clients : s.recon[c] = 1}
             r == [s EXCEPT
                !.recon = [c \in Clients |-> IF @[c] = 2 THEN 1 ELSE 0],
                !.cl = [c \in Clients |-> IF c \in again THEN Connecting ELSE @[c]],
                !.list = @ \o Only([c \in Clients |-> c], again),
                !.trigger = \E c \in Clients : s.recon[c] = 2]
         IN  Sound(r) /\ Careful(s, r) /\ Closed(r) = Closed(s)
<1> DEFINE again == {c \in Clients : s.recon[c] = 1}
           rec == [c \in Clients |-> IF s.recon[c] = 2 THEN 1 ELSE 0]
           cl == [c \in Clients |-> IF c \in again THEN Connecting ELSE s.cl[c]]
           more == Only([c \in Clients |-> c], again)
           L == s.list \o more
           tr == \E c \in Clients : s.recon[c] = 2
           a == [s EXCEPT !.recon = rec]
           b == [a EXCEPT !.cl = cl]
           d == [b EXCEPT !.list = L]
           r == [d EXCEPT !.trigger = tr]
<1>1. [s EXCEPT
         !.recon = [c \in Clients |-> IF @[c] = 2 THEN 1 ELSE 0],
         !.cl = [c \in Clients |-> IF c \in again THEN Connecting ELSE @[c]],
         !.list = @ \o more,
         !.trigger = tr] = r
  <2> HIDE DEF more, tr, again
  <2> QED
    OBVIOUS
<1>2. /\ s \in Server /\ s.cl \in [Clients -> ClientRecord] /\ s.list \in Seq(Clients)
      /\ s.recon \in [Clients -> 0..2] /\ s.crash # "assert" /\ Calm(s)
  BY Read DEF Sound, Calm
<1>3. more \in Seq(Clients) /\ ToSet(more) = again
  <2>1. again \in SUBSET Clients
    OBVIOUS
  <2> HIDE DEF again
  <2> QED
    BY <2>1, AgainIs
<1> HIDE DEF more
<1>4. L \in Seq(Clients) /\ ToSet(L) = ToSet(s.list) \cup again
  <2>1. L \in Seq(Clients)
    BY <1>2, <1>3
  <2>2. \A c : c \in ToSet(L) <=> c \in ToSet(s.list) \/ c \in ToSet(more)
    <3> SUFFICES ASSUME NEW c PROVE c \in ToSet(L) <=> c \in ToSet(s.list) \/ c \in ToSet(more)
      OBVIOUS
    <3>1. Listed(L, c) = Listed(s.list, c) + Listed(more, c)
      BY <1>2, <1>3, ListedConcat
    <3> HIDE DEF L
    <3>2. /\ Listed(L, c) > 0 <=> c \in ToSet(L)
          /\ Listed(s.list, c) > 0 <=> c \in ToSet(s.list)
          /\ Listed(more, c) > 0 <=> c \in ToSet(more)
          /\ Listed(s.list, c) \in Nat /\ Listed(more, c) \in Nat
      BY <1>2, <1>3, <2>1, ListedType
    <3> QED
      BY <3>1, <3>2
  <2> HIDE DEF L, again
  <2> QED
    BY <1>3, <2>1, <2>2
<1>5. s.list # <<>> => L # <<>>
  <2>1. Len(L) = Len(s.list) + Len(more)
    BY <1>2, <1>3, ConcatProperties
  <2>2. Len(s.list) \in Nat /\ Len(more) \in Nat /\ (s.list # <<>> => Len(s.list) # 0)
    BY <1>2, <1>3, EmptySeq, LenProperties
  <2>3. Len(<<>>) = 0
    OBVIOUS
  <2> HIDE DEF L
  <2> QED
    BY <2>1, <2>2, <2>3
<1> HIDE DEF L
<1>6. /\ Connecting \in ClientRecord /\ Connecting.st = "connecting"
      /\ Connecting.counted = FALSE /\ Connecting.jobs = 0
      /\ Connecting.run = "Running" /\ Connecting.pend = 0
  <2>1. NoClient \in ClientRecord
    BY DEF NoClient, ClientRecord, Runs
  <2>2. Connecting \in ClientRecord
    BY <2>1 DEF Connecting, ClientRecord
  <2>3. Connecting.st = "connecting"
    BY <2>1 DEF Connecting, ClientRecord
  <2>4. /\ Connecting.counted = NoClient.counted /\ Connecting.jobs = NoClient.jobs
        /\ Connecting.run = NoClient.run /\ Connecting.pend = NoClient.pend
    BY DEF Connecting
  <2>5. /\ NoClient.counted = FALSE /\ NoClient.jobs = 0
        /\ NoClient.run = "Running" /\ NoClient.pend = 0
    BY DEF NoClient
  <2> QED
    BY <2>2, <2>3, <2>4, <2>5
<1>7. /\ cl \in [Clients -> ClientRecord]
      /\ \A c \in again : cl[c] = Connecting
      /\ \A c \in Clients \ again : cl[c] = s.cl[c]
  BY <1>2, <1>6
<1> HIDE DEF cl
<1>8. /\ rec \in [Clients -> 0..2]
      /\ \A c \in again : rec[c] = 0
      /\ \A c \in Clients : rec[c] # 0 => s.recon[c] = 2
  BY <1>2
<1>9. again \subseteq Clients /\ \A c \in again : s.recon[c] # 0
  OBVIOUS
<1> HIDE DEF rec, again
<1>10. tr \in BOOLEAN
  OBVIOUS
<1> HIDE DEF tr
<1>11. a \in Server
  BY <1>2, <1>8, Write
<1>12. a.recon = rec
  BY <1>2, Written
<1>13. b \in Server
  BY <1>7, <1>11, Write
<1>14. b.cl = cl
  BY <1>11, Written
<1>15. d \in Server
  BY <1>4, <1>13, Write
<1>16. d.list = L
  BY <1>13, Written
<1>17. r \in Server
  BY <1>10, <1>15, Write
<1>18. r.recon = rec /\ r.cl = cl /\ r.list = L
  BY <1>12, <1>14, <1>16
<1>19. /\ r.todo = s.todo /\ r.proc = s.proc /\ r.done = s.done
       /\ r.srcDone = s.srcDone /\ r.stage = s.stage
       /\ r.rtes = s.rtes /\ r.ftes = s.ftes /\ r.next = s.next
       /\ r.ldrc = s.ldrc /\ r.parts = s.parts /\ r.noRecon = s.noRecon
       /\ r.started = s.started /\ r.shallQuit = s.shallQuit
       /\ r.dsmt = s.dsmt /\ r.sq = s.sq /\ r.sqa = s.sqa /\ r.tdaf = s.tdaf
       /\ r.toldIf = s.toldIf /\ r.toldTs = s.toldTs
       /\ r.connected = s.connected /\ r.pending = s.pending
       /\ r.quitStep = s.quitStep /\ r.crash = s.crash /\ r.ess = s.ess
       /\ r.free = s.free /\ r.sfs = s.sfs
  OBVIOUS
<1> HIDE DEF a, b, d, r
<1>20. ~s.toldIf /\ ~s.toldTs
  BY <1>2 DEF Calm, Over
<1>21. \A c \in again : s.cl[c].st = "gone" /\ ~s.cl[c].counted
  BY <1>9 DEF Sound, Client
<1>22. MustConnect(r) = MustConnect(s)
  <2>1. Halted(r) = Halted(s)
    BY <1>19 DEF Halted
  <2> QED
    BY <1>19, <2>1, SameMustConnect
<1>23. Chosen(r)
  <2>1. \A t : Processed(r, t) = Processed(s, t)
    BY <1>19 DEF Processed
  <2>2. r.free # Nobody => r.cl[r.free].counted
    <3>1. r.free # Nobody => r.free \in Clients /\ s.cl[r.free].counted
      BY <1>2, <1>17, <1>19, Read DEF Calm, Chosen
    <3> QED
      BY <1>7, <1>18, <1>21, <3>1
  <2> QED
    BY <1>2, <1>19, <2>1, <2>2 DEF Calm, Chosen
<1>24. Over(r)
  BY <1>2, <1>19, <1>20, <1>22 DEF Calm, Over
<1>25. Talk(r) /\ Early(r)
  BY <1>2, <1>19 DEF Calm, Talk, Early, Empty
<1>26. \A c \in Clients : /\ r.cl[c].st = "up" => r.cl[c].counted
                          /\ r.cl[c].counted => r.started
  BY <1>2, <1>6, <1>7, <1>18, <1>19 DEF Calm
<1>27. Calm(r)
  BY <1>2, <1>17, <1>19, <1>23, <1>24, <1>25, <1>26 DEF Calm
<1>28. Kept(s, r)
  <2>1. \A t \in Frames : Places(r, t) = Places(s, t) /\ Listed(s.todo, t) \in Nat
    BY <1>2, <1>19, PlacesType DEF Places
  <2> QED
    BY <1>19, <2>1 DEF Kept
<1>29. /\ \A t \in Frames : Fine(r, t) /\ Lent(r, t)
       /\ \A x \in Clients : Held(r, x) = Held(s, x)
       /\ Careful(s, r)
  BY <1>17, <1>28, KeptTasks
<1>30. ASSUME NEW x \in Clients PROVE Client(r, x) /\ Settled(r, x)
  <2>1. Client(s, x) /\ Settled(s, x)
    BY DEF Sound
  <2>2. CASE x \in again
    <3>1. Cardinality(Held(s, x)) = 0
      BY <1>21, <2>2, NoJobs
    <3>2. ClientHigh \in Nat
      BY FarmAssumption
    <3> QED
      BY <1>4, <1>6, <1>7, <1>8, <1>18, <1>29, <2>2, <3>1, <3>2 DEF Client, Settled
  <2>3. CASE x \notin again
    <3>1. r.cl[x] = s.cl[x] /\ (r.recon[x] # 0 => s.recon[x] # 0)
      BY <1>7, <1>8, <1>18, <2>3
    <3>2. x \in ToSet(r.list) <=> x \in ToSet(s.list)
      BY <1>4, <1>18, <2>3
    <3> QED
      BY <1>19, <1>29, <2>1, <3>1, <3>2 DEF Client, Settled
  <2> QED
    BY <2>2, <2>3
<1>31. ~r.started => r.list # <<>>
  BY <1>5, <1>18, <1>19 DEF Sound
<1>32. Sound(r)
  BY <1>27, <1>29, <1>30, <1>31 DEF Sound
<1>33. Closed(r) = Closed(s)
  <2>1. \A c \in Clients : r.cl[c].st = "closed" <=> s.cl[c].st = "closed"
    BY <1>6, <1>7, <1>18, <1>21
  <2> QED
    BY <2>1 DEF Closed
<1> QED
  BY <1>1, <1>29, <1>32, <1>33 DEF more, tr, again

----------------------------------------------------------------------------
(* The schedule timer *)

\* The manager is at work, and has chosen nothing.
AtWork(s) == s.started /\ s.quitStep = 0 /\ s.sfs = NoTask /\ s.free = Nobody

\* What a client is given waits for it, and nobody has it.
LEMMA LendSound ==
  ASSUME NEW s, Sound(s), NEW t \in Frames, Listed(s.todo, t) > 0, AtWork(s),
         NEW c \in Clients, s.cl[c].st = "up", Fit(s, t, c) > 0
  PROVE  LET r == Lend(s, t, c)
         IN  /\ Sound(r) /\ s.ldrc[t] = Nobody
             /\ r.next = s.next /\ r.rtes = s.rtes /\ r.ftes = s.ftes
             /\ r.quitStep = s.quitStep
             /\ \A u \in Frames : /\ Places(r, u) = Places(s, u)
                                  /\ u # t => r.ldrc[u] = s.ldrc[u]
             /\ "render" \in r.parts[t] => s.rtes[t] # "ok"
             /\ "filter" \in r.parts[t] => s.ftes[t] # "ok"
             /\ \A x \in Clients : r.cl[x].st = s.cl[x].st
<1> DEFINE P == Parts(s, t, c)
           vl == [s.ldrc EXCEPT ![t] = c]
           vp == [s.parts EXCEPT ![t] = P]
           k0 == s.cl[c]
           k1 == [k0 EXCEPT !.jobs = k0.jobs + 1]
           k == [k1 EXCEPT !.sending = t]
           cl == [s.cl EXCEPT ![c] = k]
           L == Append(Without(s.list, c), c)
           T == Without(s.todo, t)
           Q == Append(s.proc, t)
           a1 == [s EXCEPT !.ldrc = vl]
           a2 == [a1 EXCEPT !.parts = vp]
           a3 == [a2 EXCEPT !.cl = cl]
           a4 == [a3 EXCEPT !.list = L]
           a5 == [a4 EXCEPT !.todo = T]
           r == [a5 EXCEPT !.proc = Q]
<1>1. /\ s \in Server /\ s.cl \in [Clients -> ClientRecord] /\ s.list \in Seq(Clients)
      /\ s.ldrc \in [Frames -> Clients \cup {Nobody}]
      /\ s.parts \in [Frames -> SUBSET Kinds]
      /\ s.todo \in Seq(Frames) /\ s.proc \in Seq(Frames)
      /\ s.crash # "assert" /\ Calm(s)
  BY Read DEF Sound, Calm
<1>2. Lend(s, t, c) = r
  <2>1. Lend(s, t, c) =
          [s EXCEPT !.ldrc[t] = c, !.parts[t] = P,
             !.cl[c].jobs = @ + 1, !.cl[c].sending = t,
             !.list = L, !.todo = T, !.proc = Q]
    BY Zenon DEF Lend
  <2> DEFINE x == [s EXCEPT !.ldrc[t] = c, !.parts[t] = P]
             y == [x EXCEPT !.cl[c].jobs = @ + 1, !.cl[c].sending = t]
  <2> HIDE DEF P, L, T, Q
  <2>2. [s EXCEPT !.ldrc[t] = c, !.parts[t] = P,
           !.cl[c].jobs = @ + 1, !.cl[c].sending = t,
           !.list = L, !.todo = T, !.proc = Q] =
          [y EXCEPT !.list = L, !.todo = T, !.proc = Q]
    OBVIOUS
  <2>3. x = a2
    OBVIOUS
  <2>4. x.cl = s.cl
    OBVIOUS
  <2> HIDE DEF x
  <2>5. y = [x EXCEPT !.cl = [[x.cl EXCEPT ![c] = [x.cl[c] EXCEPT !.jobs = x.cl[c].jobs + 1]]
                               EXCEPT ![c] = [@ EXCEPT !.sending = t]]]
    OBVIOUS
  <2> HIDE DEF y
  <2>6. [s.cl EXCEPT ![c] = k1][c] = k1
    BY <1>1
  <2>7. [[s.cl EXCEPT ![c] = k1] EXCEPT ![c] = [@ EXCEPT !.sending = t]] = cl
    <3>1. k = [[s.cl EXCEPT ![c] = k1][c] EXCEPT !.sending = t]
      BY <2>6
    <3> HIDE DEF k, k1
    <3>2. [[s.cl EXCEPT ![c] = k1] EXCEPT ![c] = k] = [s.cl EXCEPT ![c] = k]
      BY <1>1
    <3> QED
      BY <3>1, <3>2
  <2> HIDE DEF cl, a2
  <2>8. y = a3
    BY <2>3, <2>4, <2>5, <2>7
  <2> HIDE DEF a3
  <2>9. [a3 EXCEPT !.list = L, !.todo = T, !.proc = Q] = r
    OBVIOUS
  <2> HIDE DEF r
  <2> QED
    BY <2>1, <2>2, <2>8, <2>9
<1>3. /\ CanDoTask(s, c) /\ P # {} /\ s.cl[c].jobs < ClientHigh
      /\ P \subseteq Kinds
  BY FitIs DEF Parts, Kinds
<1>4. /\ "render" \in P => s.stage[t] = "ToBeRendered"
      /\ "filter" \in P =>
           t \in FilterFrames /\ (s.stage[t] = "ToBeFiltered" \/ c \in CanRender)
      /\ s.stage[t] = "ToBeRendered" /\ c \in CanRender => "render" \in P
  BY DEF Parts
<1> HIDE DEF P
<1>5. vl \in [Frames -> Clients \cup {Nobody}] /\ vp \in [Frames -> SUBSET Kinds]
  BY <1>1, <1>3
<1>6. /\ vl[t] = c /\ vp[t] = P
      /\ \A u \in Frames : u # t => vl[u] = s.ldrc[u] /\ vp[u] = s.parts[u]
  BY <1>1
<1>7. /\ k \in ClientRecord /\ k.jobs = k0.jobs + 1 /\ k.st = k0.st
      /\ k.counted = k0.counted /\ k.run = k0.run /\ k.pend = k0.pend
      /\ k0.jobs \in Int
  <2>1. k0 \in ClientRecord
    BY <1>1
  <2> HIDE DEF k0
  <2>2. k0.jobs \in Int /\ k0.jobs + 1 \in Int
    BY <2>1 DEF ClientRecord
  <2>3. k1 \in ClientRecord /\ k1.jobs = k0.jobs + 1
    BY <2>1, <2>2 DEF ClientRecord
  <2>4. /\ k1.st = k0.st /\ k1.counted = k0.counted
        /\ k1.run = k0.run /\ k1.pend = k0.pend
    OBVIOUS
  <2> HIDE DEF k1
  <2>5. t \in Frames \cup {NoTask}
    OBVIOUS
  <2>6. k \in ClientRecord
    BY <2>3, <2>5 DEF ClientRecord
  <2>7. /\ k.jobs = k1.jobs /\ k.st = k1.st /\ k.counted = k1.counted
        /\ k.run = k1.run /\ k.pend = k1.pend
    OBVIOUS
  <2> HIDE DEF k
  <2> QED
    BY <2>2, <2>3, <2>4, <2>6, <2>7
<1> HIDE DEF vl, vp, k
<1>8. /\ cl \in [Clients -> ClientRecord] /\ cl[c] = k
      /\ \A x \in Clients : x # c => cl[x] = s.cl[x]
  BY <1>1, <1>7
<1> HIDE DEF cl
<1>9. Client(s, c) /\ c \in ToSet(s.list)
  BY DEF Sound, Client
<1>10. L \in Seq(Clients) /\ ToSet(L) = ToSet(s.list)
  <2> DEFINE W == Without(s.list, c)
  <2>1. W \in Seq(Clients) /\ ToSet(W) = ToSet(s.list) \ {c}
    BY <1>1, ListedWithout, ToSetWithout
  <2> HIDE DEF W
  <2>2. ToSet(Append(W, c)) = ToSet(W) \cup {c} /\ Append(W, c) \in Seq(Clients)
    BY <2>1, ToSetAppend
  <2> QED
    BY <1>9, <2>1, <2>2 DEF W
<1>11. /\ T \in Seq(Frames)
       /\ \A u : Listed(T, u) = IF u = t THEN 0 ELSE Listed(s.todo, u)
  BY <1>1, ListedWithout
<1>12. /\ Q \in Seq(Frames)
       /\ \A u : Listed(Q, u) = Listed(s.proc, u) + (IF u = t THEN 1 ELSE 0)
  BY <1>1, ListedAppend
<1> HIDE DEF L, T, Q
<1>13. a1 \in Server
  BY <1>1, <1>5, Write
<1>14. a1.ldrc = vl
  BY <1>1, Written
<1>15. a2 \in Server
  BY <1>5, <1>13, Write
<1>16. a2.parts = vp
  BY <1>13, Written
<1>17. a3 \in Server
  BY <1>8, <1>15, Write
<1>18. a3.cl = cl
  BY <1>15, Written
<1>19. a4 \in Server
  BY <1>10, <1>17, Write
<1>20. a4.list = L
  BY <1>17, Written
<1>21. a5 \in Server
  BY <1>11, <1>19, Write
<1>22. a5.todo = T
  BY <1>19, Written
<1>23. r \in Server
  BY <1>12, <1>21, Write
<1>24. r.proc = Q
  BY <1>21, Written
<1>25. r.ldrc = vl /\ r.parts = vp /\ r.cl = cl /\ r.list = L /\ r.todo = T
  BY <1>14, <1>16, <1>18, <1>20, <1>22
<1>26. /\ r.done = s.done /\ r.srcDone = s.srcDone /\ r.stage = s.stage
       /\ r.rtes = s.rtes /\ r.ftes = s.ftes /\ r.next = s.next
       /\ r.recon = s.recon /\ r.trigger = s.trigger /\ r.noRecon = s.noRecon
       /\ r.started = s.started /\ r.shallQuit = s.shallQuit
       /\ r.toldIf = s.toldIf /\ r.toldTs = s.toldTs
       /\ r.connected = s.connected /\ r.pending = s.pending
       /\ r.quitStep = s.quitStep /\ r.crash = s.crash /\ r.ess = s.ess
       /\ r.free = s.free /\ r.sfs = s.sfs
  OBVIOUS
<1> HIDE DEF a1, a2, a3, a4, a5, r
<1>27. Fine(s, t) /\ Lent(s, t)
  BY DEF Sound
<1>28. /\ Listed(s.todo, t) = 1 /\ Listed(s.proc, t) = 0
       /\ Places(s, t) = 1
  <2>1. /\ Listed(s.todo, t) \in Nat /\ Listed(s.proc, t) \in Nat
        /\ Listed(s.done, t) \in Nat /\ Times(s.srcDone = t) \in {0, 1}
    BY <1>1, PlacesType
  <2> QED
    BY <1>27, <2>1 DEF Fine, Places
<1>29. s.ldrc[t] = Nobody
  BY <1>27, <1>28 DEF Lent
<1>30. ~s.toldTs
  <2>1. Listed(<<>>, t) = 0
    BY ListedFew
  <2> QED
    BY <1>1, <1>28, <2>1 DEF Calm, Over, Empty
<1>31. Calm(r)
  <2>1. Chosen(r)
    BY <1>26 DEF Chosen, AtWork
  <2>2. Talk(r)
    BY <1>1, <1>26 DEF Calm, Talk
  <2>3. Over(r)
    BY <1>1, <1>26, <1>30 DEF Calm, Over, AtWork
  <2>4. Early(r)
    BY <1>26 DEF Early, AtWork
  <2>5. ASSUME NEW x \in Clients
        PROVE  /\ r.cl[x].st = "up" => r.cl[x].counted
               /\ r.cl[x].counted => r.started
    <3>1. r.cl[x].st = s.cl[x].st /\ r.cl[x].counted = s.cl[x].counted
      BY <1>7, <1>8, <1>25
    <3> QED
      BY <1>1, <1>26, <3>1 DEF Calm
  <2> QED
    BY <1>1, <1>23, <1>26, <2>1, <2>2, <2>3, <2>4, <2>5 DEF Calm
<1>32. ASSUME NEW u \in Frames PROVE Places(r, u) = Places(s, u)
  <2>1. /\ Listed(s.todo, u) \in Nat /\ Listed(s.proc, u) \in Nat
        /\ Listed(s.done, u) \in Nat /\ Times(s.srcDone = u) \in {0, 1}
    BY <1>1, PlacesType
  <2>2. /\ Listed(r.todo, u) = IF u = t THEN 0 ELSE Listed(s.todo, u)
        /\ Listed(r.proc, u) = Listed(s.proc, u) + (IF u = t THEN 1 ELSE 0)
    BY <1>11, <1>12, <1>24, <1>25
  <2> QED
    BY <1>26, <1>28, <2>1, <2>2 DEF Places
<1>33. s.stage[t] # "TaskDone"
  BY <1>27 DEF Fine
<1>34. s.stage[t] \in {"ToBeRendered", "ToBeFiltered"}
  <2>1. s.stage[t] \in Stages
    BY <1>1, Read
  <2> QED
    BY <1>33, <2>1 DEF Stages
<1>35. ASSUME NEW u \in Frames PROVE Fine(r, u) /\ Lent(r, u)
  <2>1. Fine(s, u) /\ Lent(s, u)
    BY DEF Sound
  <2>2. /\ Listed(r.todo, u) = IF u = t THEN 0 ELSE Listed(s.todo, u)
        /\ Listed(r.proc, u) = Listed(s.proc, u) + (IF u = t THEN 1 ELSE 0)
        /\ Listed(s.proc, u) \in Nat
    BY <1>1, <1>11, <1>12, <1>24, <1>25, PlacesType
  <2>3. Sane(r, u)
    BY <1>26, <2>1 DEF Fine, Sane, AllParts
  <2>4. CASE u = t
    <3>1. Fine(r, t)
      BY <1>26, <1>27, <1>32, <1>33, <2>3, <2>4 DEF Fine
    <3>2. Listed(r.proc, t) > 0 /\ r.ldrc[t] = c /\ r.parts[t] = P /\ c # Nobody
      BY <1>6, <1>25, <1>28, <2>2, <2>4 DEF Clients, Nobody
    <3>3. Lent(r, t)
      BY <1>3, <1>4, <1>26, <1>34, <3>2 DEF Lent
    <3> QED
      BY <2>4, <3>1, <3>3
  <2>5. CASE u # t
    <3>1. /\ Listed(r.todo, u) = Listed(s.todo, u) /\ Listed(r.proc, u) = Listed(s.proc, u)
          /\ r.ldrc[u] = s.ldrc[u] /\ r.parts[u] = s.parts[u]
      BY <1>6, <1>25, <2>2, <2>5
    <3>2. Fine(r, u)
      BY <1>26, <1>32, <2>1, <2>3, <3>1 DEF Fine
    <3>3. Lent(r, u)
      BY <1>26, <2>1, <3>1 DEF Lent
    <3> QED
      BY <3>2, <3>3
  <2> QED
    BY <2>4, <2>5
<1>36. ASSUME NEW x \in Clients PROVE Client(r, x) /\ Settled(r, x)
  <2>1. Client(s, x) /\ Settled(s, x)
    BY DEF Sound
  <2>2. /\ r.cl[x].st = s.cl[x].st /\ r.cl[x].counted = s.cl[x].counted
        /\ r.cl[x].run = s.cl[x].run /\ r.cl[x].pend = s.cl[x].pend
    BY <1>7, <1>8, <1>25
  <2>3. Settled(r, x)
    BY <1>26, <2>1, <2>2 DEF Settled
  <2>4. x \in ToSet(r.list) <=> x \in ToSet(s.list)
    BY <1>10, <1>25
  <2>5. CASE x = c
    <3>1. Held(r, c) = Held(s, c) \cup {t} /\ t \notin Held(s, c)
      BY <1>6, <1>25, <1>29 DEF Held, Nobody, Clients
    <3>2. IsFiniteSet(Held(s, c))
      BY HeldFinite
    <3> DEFINE H == Held(s, c)
    <3> HIDE DEF H
    <3>3. Cardinality(H \cup {t}) = Cardinality(H) + 1
      <4>1. IsFiniteSet(H) /\ t \notin H
        BY <3>1, <3>2 DEF H
      <4>2. Cardinality(H \cup {t}) = IF t \in H THEN Cardinality(H) ELSE Cardinality(H) + 1
        BY <4>1, FS_AddElement
      <4> QED
        BY <4>1, <4>2
    <3>4. r.cl[c].jobs = s.cl[c].jobs + 1
      BY <1>7, <1>8, <1>25
    <3>5. ClientHigh \in Nat /\ s.cl[c].jobs \in Int
      BY <1>7, FarmAssumption
    <3>6. r.cl[c].jobs = Cardinality(Held(r, c))
      BY <1>9, <3>1, <3>3, <3>4 DEF Client, H
    <3>7. r.cl[c].jobs <= ClientHigh
      BY <1>3, <3>4, <3>5
    <3>8. Client(r, c)
      BY <1>26, <2>1, <2>2, <2>4, <2>5, <3>6, <3>7 DEF Client
    <3> QED
      BY <2>3, <2>5, <3>8
  <2>6. CASE x # c
    <3>1. Held(r, x) = Held(s, x)
      BY <1>6, <1>25, <1>29, <2>6 DEF Held, Nobody, Clients
    <3>2. r.cl[x].jobs = s.cl[x].jobs
      BY <1>8, <1>25, <2>6
    <3>3. Client(r, x)
      BY <1>26, <2>1, <2>2, <2>4, <3>1, <3>2 DEF Client
    <3> QED
      BY <2>3, <3>3
  <2> QED
    BY <2>5, <2>6
<1>37. Sound(r)
  BY <1>26, <1>31, <1>35, <1>36 DEF Sound, AtWork
<1>38. /\ "render" \in r.parts[t] => s.rtes[t] # "ok"
       /\ "filter" \in r.parts[t] => s.ftes[t] # "ok"
  BY <1>4, <1>6, <1>25, <1>27, <1>34 DEF Fine, Sane
<1>39. \A u \in Frames : u # t => r.ldrc[u] = s.ldrc[u]
  BY <1>6, <1>25
<1>40. \A x \in Clients : r.cl[x].st = s.cl[x].st
  BY <1>7, <1>8, <1>25
<1> QED
  BY <1>2, <1>26, <1>29, <1>32, <1>37, <1>38, <1>39, <1>40

\* What is lent of task t in a step from s to r may be, and is not done yet.
Wants(s, r, t) ==
  /\ ~s.dsmt /\ (s.sq = 0 \/ Processed(s, t))
  /\ "render" \in r.parts[t] => s.rtes[t] # "ok"
  /\ "filter" \in r.parts[t] => s.ftes[t] # "ok"

\* No task is lost or doubled from s to r, and only what is wanted is lent.
Proper(s, r) ==
  /\ r.next = s.next
  /\ \A t \in Frames :
       /\ Places(r, t) = Places(s, t)
       /\ Places(s, t) = 0 => r.rtes[t] = s.rtes[t] /\ r.ftes[t] = s.ftes[t]
       /\ s.ldrc[t] = Nobody /\ r.ldrc[t] # Nobody => Wants(s, r, t)

LEMMA CarefulProper ==
  ASSUME NEW s, NEW r, Careful(s, r)
  PROVE  Proper(s, r)
  BY DEF Careful, Proper

LEMMA ProperKept ==
  ASSUME NEW s, NEW r, NEW q, Proper(s, r), Kept(r, q)
  PROVE  Proper(s, q)
  BY DEF Proper, Kept, Wants

LEMMA KeptProper ==
  ASSUME NEW s, NEW r, NEW q, Kept(s, r), Proper(r, q), r.dsmt = s.dsmt, r.sq = s.sq
  PROVE  Proper(s, q)
<1>1. \A t : Processed(r, t) = Processed(s, t)
  BY DEF Kept, Processed
<1> QED
  BY <1>1 DEF Proper, Kept, Wants

\* The task that was chosen goes to a client that can do some of it.
LEMMA LaunchSound ==
  ASSUME NEW s, Sound(s), Closed(s) = {}, s.quitStep = 0
  PROVE  LET r == LaunchScheduled(s)
         IN  Sound(r) /\ Proper(s, r) /\ r.quitStep = 0
<1> DEFINE t == s.sfs
           a == [s EXCEPT !.sfs = NoTask, !.free = Nobody]
           c == IF Fit(s, s.sfs, s.free) > 0 THEN s.free
                ELSE IF s.tight THEN Nobody ELSE FindClientForTask(s, s.sfs)
           l == LaunchTask(a, t, c)
           r == CheckStartTasks(l)
<1>1. s \in Server /\ Calm(s)
  BY DEF Sound, Calm
<1>2. Kept(s, s) /\ Proper(s, s)
  BY <1>1, PlacesType DEF Kept, Proper
<1>3. CASE s.sfs = NoTask
  BY <1>2, <1>3 DEF LaunchScheduled
<1>4. CASE s.sfs # NoTask
  <2>1. LaunchScheduled(s) = r
    BY <1>4 DEF LaunchScheduled
  <2>2. /\ t \in Frames /\ Listed(s.todo, t) > 0 /\ s.started = TRUE /\ ~s.dsmt
        /\ s.sq > 0 => Processed(s, t)
    <3>1. t \in Frames \cup {NoTask} /\ s.started \in BOOLEAN
      BY <1>1, Read
    <3> QED
      BY <1>1, <1>4, <3>1 DEF Calm, Chosen
  <2>3. a \in Server /\ a.sfs = NoTask /\ a.free = Nobody
    <3> DEFINE a1 == [s EXCEPT !.sfs = NoTask]
    <3>1. NoTask \in Frames \cup {NoTask} /\ Nobody \in Clients \cup {Nobody}
      OBVIOUS
    <3>2. a1 \in Server
      BY <1>1, <3>1, Write
    <3>3. a1.sfs = NoTask
      BY <1>1, Written
    <3>4. a = [a1 EXCEPT !.free = Nobody]
      OBVIOUS
    <3> HIDE DEF a, a1
    <3>5. a \in Server
      BY <3>1, <3>2, <3>4, Write
    <3>6. a.free = Nobody
      BY <3>2, <3>4, Written
    <3>7. a.sfs = NoTask
      BY <3>3, <3>4
    <3> QED
      BY <3>5, <3>6, <3>7
  <2>4. Alike(s, a) /\ a.crash = s.crash
    BY DEF Alike, Rest
  <2>5. a.cl = s.cl /\ a.stage = s.stage /\ a.list = s.list
    OBVIOUS
  <2> HIDE DEF a
  <2>6. Calm(a) /\ Tame(s, a)
    BY <1>1, <2>3, <2>4, AlikeCalm DEF Calm
  <2>7. Sound(a)
    BY <2>6, TameSound
  <2>8. Kept(s, a) /\ a.dsmt = s.dsmt /\ a.sq = s.sq
    BY <2>4, <2>6 DEF Tame, Still, Kept, Alike
  <2>9. Sound(l) /\ Proper(a, l) /\ l.quitStep = 0
    <3>1. CASE c = Nobody
      <4>1. l = a
        BY <3>1 DEF LaunchTask
      <4>2. Proper(a, a)
        BY DEF Proper
      <4>3. a.quitStep = 0
        BY <2>4 DEF Alike
      <4> QED
        BY <2>7, <4>1, <4>2, <4>3
    <3>2. CASE c # Nobody
      <4>1. c \in Clients /\ Fit(s, t, c) > 0
        <5>1. s.free \in Clients \cup {Nobody}
          BY <1>1, Read
        <5>2. c = s.free => Fit(s, t, c) > 0 \/ c = FindClientForTask(s, t)
          BY <3>2
        <5>3. c = s.free \/ c = FindClientForTask(s, t)
          BY <3>2
        <5>4. c = FindClientForTask(s, t) => c \in Clients /\ Fit(s, t, c) > 0
          <6> HIDE DEF t, c
          <6> QED
            BY <1>1, <3>2, FindClientIs
        <5> HIDE DEF c
        <5> QED
          BY <3>2, <5>1, <5>2, <5>3, <5>4
      <4> HIDE DEF c
      <4>2. s.cl[c].counted
        BY <4>1, FitIs
      <4>3. s.cl[c].st = "up"
        <5>1. s.cl[c].st \in {"up", "closed"}
          BY <4>1, <4>2 DEF Sound, Client
        <5>2. c \notin Closed(s)
          OBVIOUS
        <5> QED
          BY <4>1, <5>1, <5>2 DEF Closed
      <4>4. Fit(a, t, c) > 0
        BY <2>5, <4>1 DEF Fit, CanDoTask, Parts
      <4>5. AtWork(a) /\ a.started
        BY <2>2, <2>3, <2>4 DEF AtWork, Alike, Rest
      <4>6. Listed(a.todo, t) > 0
        BY <2>2, <2>4 DEF Alike
      <4>7. l = Lend(a, t, c)
        BY <3>2 DEF LaunchTask
      <4> HIDE DEF l, t
      <4>8. /\ Sound(l) /\ a.ldrc[t] = Nobody
            /\ l.next = a.next /\ l.rtes = a.rtes /\ l.ftes = a.ftes
            /\ l.quitStep = a.quitStep
            /\ \A u \in Frames : /\ Places(l, u) = Places(a, u)
                                 /\ u # t => l.ldrc[u] = a.ldrc[u]
            /\ "render" \in l.parts[t] => a.rtes[t] # "ok"
            /\ "filter" \in l.parts[t] => a.ftes[t] # "ok"
        <5>1. a.cl[c].st = "up"
          BY <2>5, <4>3
        <5> QED
          BY <2>2, <2>7, <4>1, <4>4, <4>5, <4>6, <4>7, <5>1, LendSound
      <4>9. Wants(a, l, t)
        <5>1. ~a.dsmt /\ a.stage = s.stage
          BY <2>2, <2>5, <2>8
        <5>2. a.sq = 0 \/ Processed(a, t)
          <6>1. s.sq \in 0..2
            BY <1>1, Read
          <6>2. Processed(a, t) = Processed(s, t)
            BY <2>5 DEF Processed
          <6> QED
            BY <2>2, <2>8, <6>1, <6>2
        <5> QED
          BY <4>8, <5>1, <5>2 DEF Wants
      <4>10. Proper(a, l)
        BY <4>8, <4>9 DEF Proper
      <4>11. l.quitStep = 0
        BY <4>5, <4>8 DEF AtWork
      <4> QED
        BY <4>8, <4>10, <4>11
    <3> QED
      BY <3>1, <3>2
  <2> HIDE DEF l
  <2>10. Calm(r) /\ Tame(l, r) /\ Alike(l, r)
    BY <2>9, CheckStartTasksCalm DEF Sound
  <2> HIDE DEF r
  <2>11. Sound(r)
    BY <2>9, <2>10, TameSound
  <2>12. Proper(s, l)
    BY <2>8, <2>9, KeptProper
  <2>13. Kept(l, r)
    BY <2>10 DEF Tame, Still, Kept
  <2>14. Proper(s, r)
    BY <2>12, <2>13, ProperKept
  <2>15. r.quitStep = 0
    BY <2>9, <2>10 DEF Alike
  <2> QED
    BY <2>1, <2>11, <2>14, <2>15
<1> QED
  BY <1>3, <1>4

\* The interface is told to quit when nothing is left to be done: it tells the
\* clients, and calls back at once if there are none.
LEMMA PleaseQuitSound ==
  ASSUME NEW s, Sound(s), s.quitStep = 0, Quitting(s), Idle(s), s.toldIf = FALSE
  PROVE  LET r == [PleaseQuit(s) EXCEPT !.toldIf = TRUE]
         IN  Sound(r) /\ Kept(s, r)
<1> DEFINE n(k) == CASE k.st = "connecting" -> [k EXCEPT !.st = "closed"]
                     [] k.st = "up" -> [k EXCEPT !.quit = TRUE, !.noMore = TRUE]
                     [] OTHER -> k
           cl == [c \in Clients |-> n(s.cl[c])]
           a1 == [s EXCEPT !.noRecon = TRUE]
           a2 == [a1 EXCEPT !.trigger = FALSE]
           a3 == [a2 EXCEPT !.shallQuit = TRUE]
           a == [a3 EXCEPT !.cl = cl]
           z == [a EXCEPT !.toldIf = TRUE]
           r == [PleaseQuit(s) EXCEPT !.toldIf = TRUE]
<1>1. /\ s \in Server /\ s.cl \in [Clients -> ClientRecord] /\ Calm(s)
      /\ s.crash # "assert"
  BY Read DEF Sound, Calm
<1>2. r = z \/ r = ReSched(z)
  <2>1. ~s.shallQuit
    BY <1>1 DEF Calm, Over
  <2>2. PleaseQuit(s) = IF s.list = <<>> THEN QuittingNowDone(a) ELSE a
    <3>1. a = [s EXCEPT !.noRecon = TRUE, !.trigger = FALSE, !.shallQuit = TRUE,
                 !.cl = [c \in Clients |->
                   CASE s.cl[c].st = "connecting" -> [s.cl[c] EXCEPT !.st = "closed"]
                     [] s.cl[c].st = "up" -> [s.cl[c] EXCEPT !.quit = TRUE, !.noMore = TRUE]
                     [] OTHER -> s.cl[c]]]
      OBVIOUS
    <3> HIDE DEF a
    <3> QED
      BY <2>1, <3>1 DEF PleaseQuit
  <2>3. a.quitStep = s.quitStep /\ a.sq = s.sq /\ a.sqa = s.sqa /\ a.todo = s.todo
        /\ a.proc = s.proc
    OBVIOUS
  <2> HIDE DEF a
  <2>4. QuittingNowDone(a) = ReSched(a)
    BY <2>3 DEF QuittingNowDone, Quitting, Idle
  <2>5. [ReSched(a) EXCEPT !.toldIf = TRUE] = ReSched(z)
    BY DEF ReSched
  <2> HIDE DEF z
  <2> QED
    BY <2>2, <2>4, <2>5 DEF z
<1>3. ASSUME NEW k \in ClientRecord
      PROVE  /\ n(k) \in ClientRecord /\ n(k).counted = k.counted /\ n(k).jobs = k.jobs
             /\ n(k).run = k.run /\ n(k).pend = k.pend
             /\ n(k).st = IF k.st = "connecting" THEN "closed" ELSE k.st
  <2>1. CASE k.st = "connecting"
    <3> DEFINE m == [k EXCEPT !.st = "closed"]
    <3>1. n(k) = m
      BY <2>1
    <3> HIDE DEF n
    <3>2. m \in ClientRecord /\ m.st = "closed"
      BY DEF ClientRecord
    <3>3. m.counted = k.counted /\ m.jobs = k.jobs /\ m.run = k.run /\ m.pend = k.pend
      OBVIOUS
    <3> HIDE DEF m
    <3> QED
      BY <2>1, <3>1, <3>2, <3>3
  <2>2. CASE k.st = "up"
    <3> DEFINE m == [k EXCEPT !.quit = TRUE, !.noMore = TRUE]
    <3>1. n(k) = m
      BY <2>2
    <3> HIDE DEF n
    <3>2. m \in ClientRecord
      BY DEF ClientRecord
    <3>3. m.counted = k.counted /\ m.jobs = k.jobs /\ m.run = k.run /\ m.pend = k.pend
          /\ m.st = k.st
      OBVIOUS
    <3> HIDE DEF m
    <3> QED
      BY <2>2, <3>1, <3>2, <3>3
  <2>3. CASE k.st # "connecting" /\ k.st # "up"
    BY <2>3
  <2> QED
    BY <2>1, <2>2, <2>3
<1>4. ASSUME NEW c \in Clients
      PROVE  /\ cl[c] \in ClientRecord
             /\ cl[c].counted = s.cl[c].counted /\ cl[c].jobs = s.cl[c].jobs
             /\ cl[c].run = s.cl[c].run /\ cl[c].pend = s.cl[c].pend
             /\ cl[c].st = IF s.cl[c].st = "connecting" THEN "closed" ELSE s.cl[c].st
  <2>1. cl[c] = n(s.cl[c]) /\ s.cl[c] \in ClientRecord
    BY <1>1
  <2> HIDE DEF n, cl
  <2> QED
    BY <1>3, <2>1
<1>5. cl \in [Clients -> ClientRecord]
  <2> HIDE DEF n
  <2> QED
    BY <1>4
<1> HIDE DEF cl
<1>6. TRUE \in BOOLEAN /\ FALSE \in BOOLEAN
  OBVIOUS
<1>7. a1 \in Server
  BY <1>1, <1>6, Write
<1>8. a1.noRecon = TRUE
  BY <1>1, Written
<1>9. a2 \in Server
  BY <1>6, <1>7, Write
<1>10. a2.trigger = FALSE
  BY <1>7, Written
<1>11. a3 \in Server
  BY <1>6, <1>9, Write
<1>12. a3.shallQuit = TRUE
  BY <1>9, Written
<1>13. a \in Server
  BY <1>5, <1>11, Write
<1>14. a.cl = cl
  BY <1>11, Written
<1>15. z \in Server
  BY <1>6, <1>13, Write
<1>16. z.toldIf = TRUE
  BY <1>13, Written
<1>17. z.noRecon = TRUE /\ z.trigger = FALSE /\ z.shallQuit = TRUE /\ z.cl = cl
  BY <1>8, <1>10, <1>12, <1>14
<1>18. /\ z.todo = s.todo /\ z.proc = s.proc /\ z.done = s.done
       /\ z.srcDone = s.srcDone /\ z.stage = s.stage /\ z.list = s.list
       /\ z.rtes = s.rtes /\ z.ftes = s.ftes /\ z.next = s.next
       /\ z.ldrc = s.ldrc /\ z.parts = s.parts /\ z.recon = s.recon
       /\ z.started = s.started
       /\ z.dsmt = s.dsmt /\ z.sq = s.sq /\ z.sqa = s.sqa /\ z.tdaf = s.tdaf
       /\ z.toldTs = s.toldTs
       /\ z.connected = s.connected /\ z.pending = s.pending
       /\ z.quitStep = s.quitStep /\ z.crash = s.crash /\ z.ess = s.ess
       /\ z.free = s.free /\ z.sfs = s.sfs
  OBVIOUS
<1> HIDE DEF a1, a2, a3, a, z
<1>19. ~s.toldTs
  BY <1>1 DEF Calm, Over
<1>20. Chosen(z)
  <2>1. \A t : Processed(z, t) = Processed(s, t)
    BY <1>18 DEF Processed
  <2>2. z.free # Nobody => z.cl[z.free].counted
    <3>1. z.free # Nobody => z.free \in Clients
      BY <1>15, Read
    <3> QED
      BY <1>1, <1>4, <1>17, <1>18, <3>1 DEF Calm, Chosen
  <2> QED
    BY <1>1, <1>18, <2>1, <2>2 DEF Calm, Chosen
<1>21. Over(z)
  <2>1. z.shallQuit = z.toldIf /\ z.noRecon /\ ~z.trigger
    BY <1>16, <1>17
  <2>2. ~z.toldTs
    BY <1>18, <1>19
  <2>3. z.quitStep = 0
    BY <1>18
  <2> QED
    BY <2>1, <2>2, <2>3 DEF Over
<1>22. Talk(z) /\ Early(z)
  BY <1>1, <1>18 DEF Calm, Talk, Early, Empty
<1>23. \A c \in Clients : /\ z.cl[c].st = "up" => z.cl[c].counted
                          /\ z.cl[c].counted => z.started
  BY <1>1, <1>4, <1>17, <1>18 DEF Calm
<1>24. Calm(z)
  BY <1>1, <1>15, <1>18, <1>20, <1>21, <1>22, <1>23 DEF Calm
<1>25. Kept(s, z)
  <2>1. \A t \in Frames : Places(z, t) = Places(s, t) /\ Listed(s.todo, t) \in Nat
    BY <1>1, <1>18, PlacesType DEF Places
  <2> QED
    BY <1>18, <2>1 DEF Kept
<1>26. /\ \A t \in Frames : Fine(z, t) /\ Lent(z, t)
       /\ \A x \in Clients : Held(z, x) = Held(s, x)
  BY <1>15, <1>25, KeptTasks
<1>27. ASSUME NEW x \in Clients PROVE Client(z, x) /\ Settled(z, x)
  <2>1. Client(s, x) /\ Settled(s, x)
    BY DEF Sound
  <2>2. /\ z.cl[x].counted = s.cl[x].counted /\ z.cl[x].jobs = s.cl[x].jobs
        /\ z.cl[x].run = s.cl[x].run /\ z.cl[x].pend = s.cl[x].pend
        /\ z.cl[x].st = IF s.cl[x].st = "connecting" THEN "closed" ELSE s.cl[x].st
    BY <1>4, <1>17
  <2>3. Client(z, x)
    BY <1>18, <1>26, <2>1, <2>2 DEF Client
  <2>4. Settled(z, x)
    BY <1>18, <2>1, <2>2 DEF Settled
  <2> QED
    BY <2>3, <2>4
<1>28. Sound(z)
  BY <1>18, <1>24, <1>26, <1>27 DEF Sound
<1>29. Calm(ReSched(z)) /\ Tame(z, ReSched(z))
  BY <1>24, ReSchedCalm
<1>30. Sound(ReSched(z))
  BY <1>28, <1>29, TameSound
<1>31. Kept(s, ReSched(z))
  <2>1. Kept(z, ReSched(z))
    BY <1>29 DEF Tame, Still, Kept
  <2> QED
    BY <1>1, <1>15, <1>25, <1>29, <2>1, KeptTrans DEF Calm
<1> HIDE DEF r
<1>32. Sound(r) /\ Kept(s, r)
  BY <1>2, <1>25, <1>28, <1>30, <1>31
<1> QED
  BY <1>32 DEF r

\* When the interface is done the task source is told to quit.
LEMMA TellSourceCalm ==
  ASSUME NEW s, Calm(s), s.quitStep = 0, AllGone(s), Quitting(s), s.toldIf, s.started
  PROVE  LET r == Ask([s EXCEPT !.toldTs = TRUE], "ADisconnect")
         IN  Calm(r) /\ Tame(s, r)
<1> DEFINE a == [s EXCEPT !.toldTs = TRUE]
           r == [a EXCEPT !.pending = "ADisconnect"]
<1>1. s \in Server /\ s.pending = "ANone" /\ s.srcDone = NoTask /\ s.crash # "assert"
  <2>1. s \in Server /\ s.pending = "ANone" /\ s.crash # "assert"
    BY DEF Calm, AllGone
  <2> QED
    BY <2>1 DEF Calm, Talk
<1>2. Ask(a, "ADisconnect") = r
  <2>1. a.pending = "ANone"
    BY <1>1
  <2> HIDE DEF a
  <2> QED
    BY <2>1 DEF Ask, Check
<1>3. a \in Server
  <2>1. TRUE \in BOOLEAN
    OBVIOUS
  <2> QED
    BY <1>1, <2>1, Write
<1>4. a.toldTs = TRUE
  BY <1>1, Written
<1>5. r \in Server
  <2>1. "ADisconnect" \in Actions
    BY DEF Actions
  <2> QED
    BY <1>3, <2>1, Write
<1>6. r.pending = "ADisconnect"
  BY <1>3, Written
<1>7. r.toldTs = TRUE
  BY <1>4
<1>8. /\ r.todo = s.todo /\ r.proc = s.proc /\ r.done = s.done
      /\ r.srcDone = s.srcDone /\ r.stage = s.stage /\ r.list = s.list
      /\ r.rtes = s.rtes /\ r.ftes = s.ftes /\ r.next = s.next
      /\ r.ldrc = s.ldrc /\ r.parts = s.parts /\ r.recon = s.recon /\ r.cl = s.cl
      /\ r.trigger = s.trigger /\ r.noRecon = s.noRecon /\ r.shallQuit = s.shallQuit
      /\ r.dsmt = s.dsmt /\ r.sq = s.sq /\ r.sqa = s.sqa
      /\ r.connected = s.connected
      /\ r.quitStep = s.quitStep /\ r.crash = s.crash /\ r.ess = s.ess
      /\ r.free = s.free /\ r.sfs = s.sfs
  OBVIOUS
<1>9. r.toldIf /\ r.started
  OBVIOUS
<1> HIDE DEF a, r
<1>10. /\ s.list = <<>> /\ s.todo = <<>> /\ s.proc = <<>> /\ s.done = <<>>
       /\ ~s.connected
  BY DEF AllGone, Idle
<1>11. Chosen(r)
  <2>1. \A t : Processed(r, t) = Processed(s, t)
    BY <1>8 DEF Processed
  <2> QED
    BY <1>8, <1>9, <2>1 DEF Calm, Chosen
<1>12. Talk(r)
  BY <1>1, <1>6, <1>7, <1>8 DEF Talk
<1>13. Over(r)
  <2>1. Empty(r) /\ r.proc = <<>> /\ r.list = <<>> /\ Quitting(r) /\ ~r.connected
    BY <1>8, <1>10 DEF Empty, Quitting
  <2>2. r.shallQuit = r.toldIf /\ r.noRecon /\ ~r.trigger
    <3>1. s.shallQuit /\ s.noRecon /\ ~s.trigger
      BY DEF Calm, Over
    <3>2. r.shallQuit /\ r.noRecon /\ ~r.trigger
      BY <1>8, <3>1
    <3>3. r.shallQuit \in BOOLEAN /\ r.toldIf \in BOOLEAN
      BY <1>5, Read
    <3> QED
      BY <1>9, <3>2, <3>3
  <2>3. r.quitStep = 0
    BY <1>8
  <2> QED
    BY <1>6, <1>9, <2>1, <2>2, <2>3 DEF Over
<1>14. Early(r)
  BY <1>8, <1>9 DEF Early
<1>15. \A c \in Clients : /\ r.cl[c].st = "up" => r.cl[c].counted
                          /\ r.cl[c].counted => r.started
  BY <1>8, <1>9 DEF Calm
<1>16. Calm(r)
  BY <1>1, <1>5, <1>8, <1>11, <1>12, <1>13, <1>14, <1>15 DEF Calm
<1>17. Tame(s, r)
  <2>1. \A t \in Frames : Places(r, t) = Places(s, t) /\ Listed(s.todo, t) \in Nat
    BY <1>1, <1>8, PlacesType DEF Places
  <2>2. r.started = s.started
    <3>1. r.started \in BOOLEAN /\ s.started \in BOOLEAN
      BY <1>1, <1>5, Read
    <3> QED
      BY <1>9, <3>1
  <2>3. Still(s, r)
    BY <1>8, <2>1, <2>2 DEF Still
  <2> QED
    BY <1>8, <2>3 DEF Tame
<1> QED
  BY <1>2, <1>16, <1>17 DEF a

\* The order of quitting.
LEMMA GoOnSound ==
  ASSUME NEW s, Sound(s), s.quitStep = 0
  PROVE  LET r == GoOnQuitting(s)
         IN  Sound(r) /\ Kept(s, r)
<1> DEFINE r == GoOnQuitting(s)
<1>1. s \in Server /\ Calm(s) /\ s.toldIf \in BOOLEAN
  BY Read DEF Sound, Calm
<1>2. ASSUME NEW q, Calm(q), Tame(s, q) PROVE Sound(q) /\ Kept(s, q)
  BY <1>2, TameSound DEF Tame, Still, Kept
<1>3. CASE ~Quitting(s)
  <2>1. r = s
    BY <1>3 DEF GoOnQuitting
  <2> QED
    BY <1>1, <1>2, <2>1, StillSelf
<1>4. CASE Quitting(s) /\ Idle(s) /\ ~s.toldIf
  <2>1. r = [PleaseQuit(s) EXCEPT !.toldIf = TRUE]
    BY <1>4 DEF GoOnQuitting
  <2>2. s.toldIf = FALSE
    BY <1>1, <1>4
  <2> QED
    BY <1>4, <2>1, <2>2, PleaseQuitSound
<1>5. CASE Quitting(s) /\ ~(Idle(s) /\ ~s.toldIf) /\ AllGone(s)
  <2>1. s.started /\ s.toldIf
    BY <1>5 DEF Sound, AllGone
  <2>2. CASE s.toldTs
    <3>1. r = ActuallyQuit(s)
      BY <1>5, <2>2 DEF GoOnQuitting
    <3>2. Empty(s)
      BY <1>5 DEF AllGone, Idle, Empty
    <3>3. Leaving(s)
      <4>1. ~MustConnect(s)
        BY <1>1, <1>5, <3>2, NothingToReturn
      <4> QED
        BY <1>5, <2>1, <3>2, <4>1 DEF Leaving, AllGone, Idle
    <3>4. Calm(r) /\ Tame(s, r)
      BY <1>1, <3>1, <3>3, ActuallyQuitCalm
    <3> HIDE DEF r
    <3>5. Sound(r) /\ Kept(s, r)
      BY <1>2, <3>4
    <3> QED
      BY <3>5 DEF r
  <2>3. CASE ~s.toldTs
    <3>1. r = Ask([s EXCEPT !.toldTs = TRUE], "ADisconnect")
      BY <1>5, <2>3 DEF GoOnQuitting
    <3>2. Calm(r) /\ Tame(s, r)
      BY <1>1, <1>5, <2>1, <3>1, TellSourceCalm
    <3> HIDE DEF r
    <3>3. Sound(r) /\ Kept(s, r)
      BY <1>2, <3>2
    <3> QED
      BY <3>3 DEF r
  <2> QED
    BY <2>2, <2>3
<1>6. CASE Quitting(s) /\ ~(Idle(s) /\ ~s.toldIf) /\ ~AllGone(s) /\ ~s.connected
  <2>1. r = CheckStartExchange(s)
    BY <1>6 DEF GoOnQuitting
  <2>2. Calm(r) /\ Tame(s, r)
    BY <1>1, <1>6, <2>1, CheckExchangeCalm
  <2> HIDE DEF r
  <2>3. Sound(r) /\ Kept(s, r)
    BY <1>2, <2>2
  <2> QED
    BY <2>3 DEF r
<1>7. CASE /\ Quitting(s) /\ ~(Idle(s) /\ ~s.toldIf) /\ ~AllGone(s) /\ s.connected
           /\ s.pending = "ANone"
  <2>1. r = GetOrDoneTask(s)
    BY <1>7 DEF GoOnQuitting
  <2>2. \A t \in Frames : Places(s, t) <= 1
    BY DEF Sound, Fine
  <2>3. Calm(r) /\ Tame(s, r)
    BY <1>1, <1>7, <2>1, <2>2, GetOrDoneCalm
  <2> HIDE DEF r
  <2>4. Sound(r) /\ Kept(s, r)
    BY <1>2, <2>3
  <2> QED
    BY <2>4 DEF r
<1>8. CASE /\ Quitting(s) /\ ~(Idle(s) /\ ~s.toldIf) /\ ~AllGone(s) /\ s.connected
           /\ s.pending # "ANone"
  <2>1. r = s
    BY <1>8 DEF GoOnQuitting
  <2> QED
    BY <1>1, <1>2, <2>1, StillSelf
<1> QED
  BY <1>3, <1>4, <1>5, <1>6, <1>7, <1>8

\* On the way out: source and interface are deleted.
LEMMA CountdownSound ==
  ASSUME NEW s, Sound(s), s.quitStep > 0, s.quitStep < 5
  PROVE  LET r == QuitCountdown(s)
         IN  Sound(r) /\ Kept(s, r)
<1> DEFINE d == Die(s, "clients")
           a == IF s.quitStep = 2 THEN DestructCleanup(s) ELSE s
           v == a.quitStep + 1
           r == [a EXCEPT !.quitStep = v]
<1>1. s \in Server /\ Calm(s) /\ s.quitStep \in 0..5
  BY Read DEF Sound, Calm
<1>2. QuitCountdown(s) = r
  BY DEF QuitCountdown
<1>3. Calm(d) /\ Tame(s, d)
  BY <1>1, DieCalm
<1>4. d.quitStep = s.quitStep
  BY DEF Die
<1> HIDE DEF d
<1>5. Calm(s) /\ Tame(s, s)
  BY <1>1, StillSelf
<1>6. a = s \/ a = d
  <2>1. s.pending = "ANone"
    BY <1>1 DEF Calm, Over
  <2> QED
    BY <2>1 DEF DestructCleanup, Check, d
<1> HIDE DEF a
<1>7. Calm(a) /\ Tame(s, a) /\ a.quitStep = s.quitStep
  BY <1>3, <1>4, <1>5, <1>6
<1>8. v \in 0..5
  BY <1>1, <1>7
<1> HIDE DEF v
<1>9. Leaving(a)
  <2>1. a.quitStep > 0
    BY <1>7
  <2>2. a.started
    <3>1. a.quitStep # 0
      BY <1>1, <1>7
    <3> QED
      BY <1>7, <3>1 DEF Calm, Chosen
  <2> QED
    BY <1>7, <2>1, <2>2 DEF Leaving, Calm, Over, Early
<1>10. Calm(r) /\ Tame(a, r)
  BY <1>7, <1>8, <1>9, QuitStepCalm
<1> HIDE DEF r
<1>11. Tame(s, r)
  BY <1>1, <1>7, <1>10, TameTrans DEF Calm
<1>12. Sound(r) /\ Kept(s, r)
  BY <1>10, <1>11, TameSound DEF Tame, Still, Kept
<1> QED
  BY <1>2, <1>12

\* The whole timer.
LEMMA ScheduleSound ==
  ASSUME NEW s, Sound(s), Closed(s) = {}, s.quitStep < 5
  PROVE  LET r == Schedule(s)
         IN  Sound(r) /\ Proper(s, r)
<1>1. s \in Server /\ Calm(s) /\ s.quitStep \in 0..5 /\ Proper(s, s)
  BY Read DEF Sound, Calm, Proper
<1>2. CASE s.quitStep > 0
  <2> DEFINE r == QuitCountdown(s)
  <2>1. Schedule(s) = r
    BY <1>2 DEF Schedule
  <2>2. Sound(r) /\ Kept(s, r)
    BY <1>2, CountdownSound
  <2> HIDE DEF r
  <2>3. Proper(s, r)
    BY <1>1, <2>2, ProperKept
  <2> QED
    BY <2>1, <2>2, <2>3
<1>3. CASE ~(s.quitStep > 0)
  <2> DEFINE a == [s EXCEPT !.tid0 = FALSE]
             k == KillJobs(a)
             l == LaunchScheduled(k)
             r == GoOnQuitting(l)
  <2>1. Schedule(s) = r
    BY <1>3 DEF Schedule
  <2>2. a \in Server
    <3>1. FALSE \in BOOLEAN
      OBVIOUS
    <3> QED
      BY <1>1, <3>1, Write
  <2>3. Alike(s, a) /\ a.sfs = s.sfs /\ a.free = s.free /\ a.crash = s.crash /\ a.cl = s.cl
    BY DEF Alike, Rest
  <2> HIDE DEF a
  <2>4. Calm(a) /\ Tame(s, a)
    BY <1>1, <2>2, <2>3, AlikeCalm DEF Calm
  <2>5. Calm(k) /\ Tame(a, k) /\ k.cl = a.cl
    BY <2>4, TermAllJobsCalm
  <2>6. k.dsmt = a.dsmt /\ k.sq = a.sq /\ k.quitStep = a.quitStep
    BY DEF KillJobs, TermAllJobs
  <2> HIDE DEF k
  <2>7. Tame(s, k)
    BY <1>1, <2>2, <2>4, <2>5, TameTrans DEF Calm
  <2>8. Sound(k)
    BY <2>5, <2>7, TameSound
  <2>9. k.dsmt = s.dsmt /\ k.sq = s.sq /\ k.quitStep = 0 /\ Closed(k) = {}
    <3>1. k.cl = s.cl
      BY <2>3, <2>5
    <3>2. Closed(k) = Closed(s)
      BY <3>1 DEF Closed
    <3>3. s.quitStep = 0
      BY <1>1, <1>3
    <3> QED
      BY <2>3, <2>6, <3>2, <3>3 DEF Alike
  <2>10. Sound(l) /\ Proper(k, l) /\ l.quitStep = 0
    BY <2>8, <2>9, LaunchSound
  <2> HIDE DEF l
  <2>11. Sound(r) /\ Kept(l, r)
    BY <2>10, GoOnSound
  <2> HIDE DEF r
  <2>12. Kept(s, k)
    BY <2>7 DEF Tame, Still, Kept
  <2>13. Proper(s, l)
    BY <2>9, <2>10, <2>12, KeptProper
  <2>14. Proper(s, r)
    BY <2>11, <2>13, ProperKept
  <2> QED
    BY <2>1, <2>11, <2>14
<1> QED
  BY <1>2, <1>3

----------------------------------------------------------------------------
(* Answers of the source *)

\* Who has no request under way may be answered no more; all else is as before.
LEMMA AnswerCalm ==
  ASSUME NEW s, Calm(s), s.quitStep = 0, NEW r \in Server, Rest(s, r),
         r.todo = s.todo, r.done = s.done, r.srcDone = NoTask,
         r.dsmt = s.dsmt, r.sq = s.sq, r.sqa >= s.sqa, r.toldTs = s.toldTs,
         r.pending = "ANone", r.quitStep = s.quitStep, r.crash = s.crash,
         r.free = s.free, r.sfs = s.sfs,
         r.connected => ~s.toldTs /\ ("CONT" \notin Signals => s.started)
  PROVE  /\ Calm(r)
         /\ s.srcDone = NoTask => Tame(s, r)
<1>1. s \in Server /\ s.sqa \in 0..1 /\ r.sqa \in 0..1 /\ s.crash # "assert"
  BY Read DEF Calm
<1>2. Chosen(r)
  <2>1. \A t : Processed(r, t) = Processed(s, t)
    BY DEF Rest, Processed
  <2>2. r.free # Nobody => r.cl[r.free].counted
    <3>1. r.free # Nobody => r.free \in Clients
      BY Read
    <3> QED
      BY <3>1 DEF Rest, Calm, Chosen
  <2> QED
    BY <2>1, <2>2 DEF Rest, Calm, Chosen
<1>3. Talk(r)
  BY DEF Talk
<1>4. Over(r)
  <2>1. r.shallQuit = r.toldIf /\ (r.toldIf => r.noRecon /\ ~r.trigger)
    BY DEF Rest, Calm, Over
  <2>2. r.toldTs =>
          /\ Empty(r) /\ r.proc = <<>> /\ r.list = <<>> /\ Quitting(r)
          /\ ~r.connected /\ r.toldIf
    BY <1>1 DEF Rest, Calm, Over, Empty, Quitting
  <2>3. ~(r.quitStep > 0)
    OBVIOUS
  <2> QED
    BY <2>1, <2>2, <2>3 DEF Over
<1>5. Early(r)
  BY DEF Rest, Calm, Early, Empty
<1>6. Calm(r)
  BY <1>1, <1>2, <1>3, <1>4, <1>5 DEF Rest, Calm
<1>7. s.srcDone = NoTask => Tame(s, r)
  <2> SUFFICES ASSUME s.srcDone = NoTask PROVE Tame(s, r)
    OBVIOUS
  <2>1. \A t \in Frames : Places(r, t) = Places(s, t) /\ Listed(s.todo, t) \in Nat
    BY <1>1, PlacesType DEF Rest, Places
  <2> QED
    BY <2>1, RestTame, <1>1
<1> QED
  BY <1>6, <1>7

\* Nobody leaves in a step that moves nothing.
LEMMA ClosedSame ==
  ASSUME NEW s, NEW r, Still(s, r)
  PROVE  Closed(r) = Closed(s)
BY DEF Still, Closed

\* Connected: the first request.
LEMMA TSConnectedSound ==
  ASSUME NEW s, Sound(s), s.quitStep = 0, s.pending = "AConnect"
  PROVE  LET r == TSConnected(s)
         IN  Sound(r) /\ Careful(s, r) /\ Closed(r) = Closed(s)
<1> DEFINE a1 == [s EXCEPT !.pending = "ANone"]
           a2 == [a1 EXCEPT !.connected = TRUE]
           a == [a2 EXCEPT !.tsgod = "ANone"]
           r == GetOrDoneTask(a)
<1>1. s \in Server /\ Calm(s)
  BY DEF Sound, Calm
<1>2. TSConnected(s) = r
  BY DEF TSConnected, Answered
<1>3. "ANone" \in Actions /\ TRUE \in BOOLEAN
  BY DEF Actions
<1>4. a1 \in Server
  BY <1>1, <1>3, Write
<1>5. a1.pending = "ANone"
  BY <1>1, Written
<1>6. a2 \in Server
  BY <1>3, <1>4, Write
<1>7. a2.connected = TRUE
  BY <1>4, Written
<1>8. a \in Server
  BY <1>3, <1>6, Write
<1>9. a.pending = "ANone" /\ a.connected
  BY <1>5, <1>7
<1>10. /\ Rest(s, a) /\ a.todo = s.todo /\ a.done = s.done /\ a.srcDone = s.srcDone
       /\ a.dsmt = s.dsmt /\ a.sq = s.sq /\ a.sqa = s.sqa /\ a.toldTs = s.toldTs
       /\ a.quitStep = s.quitStep /\ a.crash = s.crash
       /\ a.free = s.free /\ a.sfs = s.sfs
  BY DEF Rest
<1> HIDE DEF a1, a2, a
<1>11. s.srcDone = NoTask /\ ~s.toldTs /\ ("CONT" \notin Signals => s.started)
  BY <1>1 DEF Calm, Talk, Over, Early
<1>12. a.sqa >= s.sqa
  <2>1. s.sqa \in 0..1
    BY <1>1, Read
  <2> QED
    BY <1>10, <2>1
<1>13. Calm(a) /\ Tame(s, a)
  BY <1>1, <1>8, <1>9, <1>10, <1>11, <1>12, AnswerCalm
<1>14. Sound(a) /\ Careful(s, a)
  BY <1>13, TameSound
<1>15. \A t \in Frames : Places(a, t) <= 1
  BY <1>14 DEF Sound, Fine
<1>16. Calm(r) /\ Tame(a, r)
  BY <1>9, <1>13, <1>15, GetOrDoneCalm
<1> HIDE DEF r
<1>17. Sound(r) /\ Careful(a, r)
  BY <1>14, <1>16, TameSound
<1>18. Careful(s, r)
  BY <1>14, <1>17, CarefulTrans
<1>19. Closed(r) = Closed(s)
  BY <1>13, <1>16, ClosedSame DEF Tame
<1> QED
  BY <1>2, <1>17, <1>18, <1>19

\* No more tasks: quit when the last one is done.
LEMMA TSNoMoreSound ==
  ASSUME NEW s, Sound(s), s.quitStep = 0, s.pending = "AGetTask"
  PROVE  LET r == TSNoMoreTasks(s)
         IN  Sound(r) /\ Careful(s, r) /\ Closed(r) = Closed(s)
<1> DEFINE v == Larger(s.sqa, 1)
           a1 == [s EXCEPT !.pending = "ANone"]
           a2 == [a1 EXCEPT !.sqa = v]
           a3 == [a2 EXCEPT !.tight = TRUE]
           r == [a3 EXCEPT !.tid0 = TRUE]
<1>1. s \in Server /\ Calm(s) /\ s.sqa \in 0..1
  BY Read DEF Sound, Calm
<1>2. TSNoMoreTasks(s) = r
  BY DEF TSNoMoreTasks, Answered, ReSched
<1>3. "ANone" \in Actions /\ TRUE \in BOOLEAN
  BY DEF Actions
<1>4. v \in 0..1 /\ v >= s.sqa
  BY <1>1 DEF Larger
<1> HIDE DEF v
<1>5. a1 \in Server
  BY <1>1, <1>3, Write
<1>6. a1.pending = "ANone"
  BY <1>1, Written
<1>7. a2 \in Server
  BY <1>4, <1>5, Write
<1>8. a2.sqa = v
  BY <1>5, Written
<1>9. a3 \in Server
  BY <1>3, <1>7, Write
<1>10. r \in Server
  BY <1>3, <1>9, Write
<1>11. r.pending = "ANone" /\ r.sqa = v
  BY <1>6, <1>8
<1>12. /\ Rest(s, r) /\ r.todo = s.todo /\ r.done = s.done /\ r.srcDone = s.srcDone
       /\ r.dsmt = s.dsmt /\ r.sq = s.sq /\ r.toldTs = s.toldTs
       /\ r.quitStep = s.quitStep /\ r.crash = s.crash /\ r.connected = s.connected
       /\ r.free = s.free /\ r.sfs = s.sfs
  BY DEF Rest
<1> HIDE DEF a1, a2, a3, r
<1>13. s.srcDone = NoTask /\ s.connected
  BY <1>1 DEF Calm, Talk
<1>14. ~s.toldTs /\ ("CONT" \notin Signals => s.started)
  BY <1>1, <1>13, ConnectedIs
<1>15. Calm(r) /\ Tame(s, r)
  BY <1>1, <1>4, <1>10, <1>11, <1>12, <1>13, <1>14, AnswerCalm
<1>16. Closed(r) = Closed(s)
  BY <1>15, ClosedSame DEF Tame
<1> QED
  BY <1>2, <1>15, <1>16, TameSound

\* Disconnected: quitting goes on.
LEMMA TSDisconnectedSound ==
  ASSUME NEW s, Sound(s), s.quitStep = 0, s.pending = "ADisconnect"
  PROVE  LET r == TSDisconnected(s)
         IN  Sound(r) /\ Careful(s, r) /\ Closed(r) = Closed(s)
<1> DEFINE a1 == [s EXCEPT !.pending = "ANone"]
           a == [a1 EXCEPT !.connected = FALSE]
           r == TSDisconnected(s)
<1>1. s \in Server /\ Calm(s) /\ s.sqa \in 0..1
  BY Read DEF Sound, Calm
<1>2. r = a \/ r = ReSched(a)
  BY DEF TSDisconnected, Answered
<1>3. "ANone" \in Actions /\ FALSE \in BOOLEAN
  BY DEF Actions
<1>4. a1 \in Server
  BY <1>1, <1>3, Write
<1>5. a1.pending = "ANone"
  BY <1>1, Written
<1>6. a \in Server
  BY <1>3, <1>4, Write
<1>7. a.connected = FALSE
  BY <1>4, Written
<1>8. a.pending = "ANone"
  BY <1>5
<1>9. /\ Rest(s, a) /\ a.todo = s.todo /\ a.done = s.done /\ a.srcDone = s.srcDone
      /\ a.dsmt = s.dsmt /\ a.sq = s.sq /\ a.sqa = s.sqa /\ a.toldTs = s.toldTs
      /\ a.quitStep = s.quitStep /\ a.crash = s.crash
      /\ a.free = s.free /\ a.sfs = s.sfs
  BY DEF Rest
<1> HIDE DEF a1, a, r
<1>10. s.srcDone = NoTask /\ a.sqa >= s.sqa
  BY <1>1, <1>9 DEF Calm, Talk
<1>11. Calm(a) /\ Tame(s, a)
  BY <1>1, <1>6, <1>7, <1>8, <1>9, <1>10, AnswerCalm
<1>12. Calm(ReSched(a)) /\ Tame(a, ReSched(a))
  BY <1>11, ReSchedCalm
<1>13. Tame(s, ReSched(a))
  BY <1>1, <1>6, <1>11, <1>12, TameTrans DEF Calm
<1>14. Sound(r) /\ Careful(s, r)
  BY <1>2, <1>11, <1>12, <1>13, TameSound
<1>15. Closed(r) = Closed(s)
  BY <1>2, <1>11, <1>13, ClosedSame DEF Tame
<1> QED
  BY <1>14, <1>15 DEF r

\* The source has taken a task back.
LEMMA TSTookDoneSound ==
  ASSUME NEW s, Sound(s), s.quitStep = 0, s.pending = "ADoneTask"
  PROVE  LET r == TSTookDone([s EXCEPT !.srcDone = NoTask])
         IN  /\ Sound(r) /\ s.srcDone \in Frames
             /\ r.next = s.next /\ r.rtes = s.rtes /\ r.ftes = s.ftes
             /\ r.ldrc = s.ldrc /\ Closed(r) = Closed(s)
             /\ \A t \in Frames : Places(r, t) + Times(s.srcDone = t) = Places(s, t)
<1> DEFINE a1 == [s EXCEPT !.srcDone = NoTask]
           a == [a1 EXCEPT !.pending = "ANone"]
           r == GetOrDoneTask(a)
<1>1. s \in Server /\ Calm(s) /\ s.sqa \in 0..1
  BY Read DEF Sound, Calm
<1>2. TSTookDone(a1) = r
  BY DEF TSTookDone, Answered
<1>3. "ANone" \in Actions /\ NoTask \in Frames \cup {NoTask}
  BY DEF Actions
<1>4. a1 \in Server
  BY <1>1, <1>3, Write
<1>5. a1.srcDone = NoTask
  BY <1>1, Written
<1>6. a \in Server
  BY <1>3, <1>4, Write
<1>7. a.pending = "ANone"
  BY <1>4, Written
<1>8. a.srcDone = NoTask
  BY <1>5
<1>9. /\ Rest(s, a) /\ a.todo = s.todo /\ a.done = s.done
      /\ a.dsmt = s.dsmt /\ a.sq = s.sq /\ a.sqa = s.sqa /\ a.toldTs = s.toldTs
      /\ a.quitStep = s.quitStep /\ a.crash = s.crash /\ a.connected = s.connected
      /\ a.free = s.free /\ a.sfs = s.sfs /\ a.cl = s.cl
  BY DEF Rest
<1>10. TSTookDone([s EXCEPT !.srcDone = NoTask]) = r
  BY <1>2
<1> HIDE DEF a1, a
<1>11. s.connected /\ s.srcDone \in Frames /\ a.sqa >= s.sqa
  <2>1. s.srcDone \in Frames \cup {NoTask}
    BY <1>1, Read
  <2> QED
    BY <1>1, <1>9, <2>1 DEF Calm, Talk
<1>12. ~s.toldTs /\ ("CONT" \notin Signals => s.started)
  BY <1>1, <1>11, ConnectedIs
<1>13. Calm(a)
  BY <1>1, <1>6, <1>7, <1>8, <1>9, <1>11, <1>12, AnswerCalm
<1>14. \A t \in Frames : /\ Places(a, t) + Times(s.srcDone = t) = Places(s, t)
                         /\ Places(a, t) <= 1 /\ Places(a, t) \in Nat
                         /\ Times(s.srcDone = t) \in {0, 1}
  <2> SUFFICES ASSUME NEW t \in Frames
               PROVE  /\ Places(a, t) + Times(s.srcDone = t) = Places(s, t)
                      /\ Places(a, t) <= 1 /\ Places(a, t) \in Nat
                      /\ Times(s.srcDone = t) \in {0, 1}
    OBVIOUS
  <2>1. /\ Listed(s.todo, t) \in Nat /\ Listed(s.proc, t) \in Nat
        /\ Listed(s.done, t) \in Nat /\ Times(s.srcDone = t) \in {0, 1}
    BY <1>1, PlacesType
  <2>2. Places(a, t) = Listed(s.todo, t) + Listed(s.proc, t) + Listed(s.done, t)
    <3>1. Times(a.srcDone = t) = 0
      BY <1>8 DEF Times, Frames, NoTask
    <3> QED
      BY <1>9, <2>1, <3>1 DEF Places, Rest
  <2>3. Places(s, t) <= 1
    BY DEF Sound, Fine
  <2> QED
    BY <2>1, <2>2, <2>3 DEF Places
<1>15. ASSUME NEW t \in Frames PROVE Fine(a, t) /\ Lent(a, t)
  <2>1. Fine(s, t) /\ Lent(s, t)
    BY DEF Sound
  <2>2. Places(s, t) = 0 => Places(a, t) = 0
    BY <1>14
  <2>3. Sane(a, t)
    BY <1>9, <2>1 DEF Rest, Fine, Sane, AllParts
  <2>4. Fine(a, t)
    BY <1>9, <1>14, <2>1, <2>2, <2>3 DEF Rest, Fine
  <2>5. Lent(a, t)
    BY <1>9, <2>1 DEF Rest, Lent
  <2> QED
    BY <2>4, <2>5
<1>16. ASSUME NEW c \in Clients PROVE Client(a, c) /\ Settled(a, c)
  <2>1. Client(s, c) /\ Settled(s, c)
    BY DEF Sound
  <2>2. Held(a, c) = Held(s, c)
    BY <1>9 DEF Rest, Held
  <2> QED
    BY <1>9, <2>1, <2>2 DEF Rest, Client, Settled
<1>17. ~a.started => a.list # <<>>
  BY <1>9 DEF Rest, Sound
<1>18. Sound(a)
  BY <1>13, <1>15, <1>16, <1>17 DEF Sound
<1>19. a.connected
  BY <1>9, <1>11
<1>20. Calm(r) /\ Tame(a, r)
  BY <1>7, <1>13, <1>14, <1>19, GetOrDoneCalm
<1> HIDE DEF r
<1>21. Sound(r)
  BY <1>18, <1>20, TameSound
<1>22. /\ r.next = s.next /\ r.rtes = s.rtes /\ r.ftes = s.ftes /\ r.ldrc = s.ldrc
       /\ \A t \in Frames : Places(r, t) + Times(s.srcDone = t) = Places(s, t)
  BY <1>9, <1>14, <1>20 DEF Tame, Still, Rest
<1>23. Closed(r) = Closed(s)
  <2>1. Closed(r) = Closed(a)
    BY <1>20, ClosedSame DEF Tame
  <2> QED
    BY <1>9, <2>1 DEF Closed
<1> QED
  BY <1>10, <1>11, <1>21, <1>22, <1>23

\* A task the source hands out waits in todo.
LEMMA FreshSound ==
  ASSUME NEW s, Sound(s), s.pending = "AGetTask", s.next <= NFrames
  PROVE  LET t == s.next
             r == [[s EXCEPT !.next = @ + 1, !.pending = "ANone"] EXCEPT
                     !.todo = Append(@, t),
                     !.stage[t] = IF t \in RenderFrames THEN "ToBeRendered"
                                  ELSE "ToBeFiltered"]
         IN  /\ Sound(r) /\ t \in Frames /\ r.connected /\ r.pending = "ANone"
             /\ r.quitStep = 0
             /\ r.next = s.next + 1 /\ r.rtes = s.rtes /\ r.ftes = s.ftes
             /\ r.ldrc = s.ldrc /\ r.cl = s.cl
             /\ \A u \in Frames : Places(r, u) = Places(s, u) + Times(u = t)
<1> DEFINE t == s.next
           n == t + 1
           T == Append(s.todo, t)
           v == IF t \in RenderFrames THEN "ToBeRendered" ELSE "ToBeFiltered"
           vs == [s.stage EXCEPT ![t] = v]
           a1 == [s EXCEPT !.next = n]
           a2 == [a1 EXCEPT !.pending = "ANone"]
           a3 == [a2 EXCEPT !.todo = T]
           r == [a3 EXCEPT !.stage = vs]
<1>1. /\ s \in Server /\ Calm(s) /\ s.next \in Nat \ {0} /\ s.todo \in Seq(Frames)
      /\ s.stage \in [Frames -> Stages] /\ s.crash # "assert"
  BY Read DEF Sound, Calm
<1>2. [[s EXCEPT !.next = @ + 1, !.pending = "ANone"] EXCEPT
          !.todo = Append(@, t),
          !.stage[t] = IF t \in RenderFrames THEN "ToBeRendered"
                       ELSE "ToBeFiltered"] = r
  OBVIOUS
<1>3. t \in Frames /\ NFrames \in Nat
  BY <1>1, FarmAssumption DEF Frames
<1>4. /\ v \in Stages /\ v # "TaskDone"
      /\ v = "ToBeRendered" => t \in RenderFrames
      /\ v = "ToBeFiltered" => t \in FilterFrames /\ t \notin RenderFrames
  BY <1>3, FarmAssumption DEF Stages
<1>5. n \in Nat \ {0}
  BY <1>1
<1>6. s.connected /\ s.srcDone = NoTask
  BY <1>1 DEF Calm, Talk
<1>7. s.quitStep = 0 /\ ~s.toldTs /\ ("CONT" \notin Signals => s.started)
  BY <1>1, <1>6, ConnectedIs
<1> HIDE DEF v, t, n
<1>8. /\ T \in Seq(Frames)
      /\ \A u : Listed(T, u) = Listed(s.todo, u) + (IF u = t THEN 1 ELSE 0)
  BY <1>1, <1>3, ListedAppend
<1>9. vs \in [Frames -> Stages] /\ vs[t] = v /\ \A u \in Frames : u # t => vs[u] = s.stage[u]
  BY <1>1, <1>3, <1>4
<1> HIDE DEF T, vs
<1>10. "ANone" \in Actions
  BY DEF Actions
<1>11. a1 \in Server
  BY <1>1, <1>5, Write
<1>12. a1.next = n
  BY <1>1, Written
<1>13. a2 \in Server
  BY <1>10, <1>11, Write
<1>14. a2.pending = "ANone"
  BY <1>11, Written
<1>15. a3 \in Server
  BY <1>8, <1>13, Write
<1>16. a3.todo = T
  BY <1>13, Written
<1>17. r \in Server
  BY <1>9, <1>15, Write
<1>18. r.stage = vs
  BY <1>15, Written
<1>19. r.next = n /\ r.pending = "ANone" /\ r.todo = T
  BY <1>12, <1>14, <1>16
<1>20. /\ r.proc = s.proc /\ r.done = s.done /\ r.srcDone = s.srcDone
       /\ r.rtes = s.rtes /\ r.ftes = s.ftes /\ r.ldrc = s.ldrc /\ r.parts = s.parts
       /\ r.list = s.list /\ r.recon = s.recon /\ r.cl = s.cl
       /\ r.trigger = s.trigger /\ r.noRecon = s.noRecon
       /\ r.started = s.started /\ r.shallQuit = s.shallQuit
       /\ r.dsmt = s.dsmt /\ r.sq = s.sq /\ r.sqa = s.sqa /\ r.tdaf = s.tdaf
       /\ r.toldIf = s.toldIf /\ r.toldTs = s.toldTs /\ r.connected = s.connected
       /\ r.quitStep = s.quitStep /\ r.crash = s.crash /\ r.ess = s.ess
       /\ r.free = s.free /\ r.sfs = s.sfs
  OBVIOUS
<1> HIDE DEF a1, a2, a3, r
<1>21. Fine(s, t) /\ Lent(s, t)
  BY <1>3 DEF Sound
<1>22. Places(s, t) = 0 /\ s.rtes[t] = "unset" /\ s.ftes[t] = "unset"
  <2>1. t >= s.next
    BY <1>1 DEF t
  <2> QED
    BY <1>21, <2>1 DEF Fine
<1>23. ASSUME NEW u \in Frames PROVE Places(r, u) = Places(s, u) + Times(u = t)
  <2>1. /\ Listed(s.todo, u) \in Nat /\ Listed(s.proc, u) \in Nat
        /\ Listed(s.done, u) \in Nat /\ Times(s.srcDone = u) \in {0, 1}
    BY <1>1, PlacesType
  <2>2. Listed(r.todo, u) = Listed(s.todo, u) + Times(u = t)
    BY <1>8, <1>19 DEF Times
  <2>3. Times(u = t) \in {0, 1}
    BY DEF Times
  <2> QED
    BY <1>20, <2>1, <2>2, <2>3 DEF Places
<1>24. Listed(s.todo, t) = 0 /\ Listed(s.proc, t) = 0
  <2>1. /\ Listed(s.todo, t) \in Nat /\ Listed(s.proc, t) \in Nat
        /\ Listed(s.done, t) \in Nat /\ Times(s.srcDone = t) \in {0, 1}
    BY <1>1, PlacesType
  <2>2. Places(s, t) = 0
    BY <1>22
  <2>3. Listed(s.todo, t) + Listed(s.proc, t) + Listed(s.done, t)
          + Times(s.srcDone = t) = 0
    BY <2>2 DEF Places
  <2> DEFINE a == Listed(s.todo, t)
             b == Listed(s.proc, t)
             d == Listed(s.done, t)
             e == Times(s.srcDone = t)
  <2>4. a \in Nat /\ b \in Nat /\ d \in Nat /\ e \in Nat /\ a + b + d + e = 0
    BY <2>1, <2>3
  <2> HIDE DEF a, b, d, e
  <2>5. a = 0 /\ b = 0
    BY <2>4
  <2> QED
    BY <2>5 DEF a, b
<1>25. Chosen(r)
  <2>1. r.sfs # NoTask => /\ Listed(r.todo, r.sfs) > 0 /\ r.started /\ ~r.dsmt
                          /\ r.sq > 0 => Processed(r, r.sfs)
    <3> SUFFICES ASSUME r.sfs # NoTask
                 PROVE  /\ Listed(r.todo, r.sfs) > 0 /\ r.started /\ ~r.dsmt
                        /\ r.sq > 0 => Processed(r, r.sfs)
      OBVIOUS
    <3> DEFINE f == s.sfs
    <3>1. f \in Frames /\ r.sfs = f
      <4>1. f \in Frames \cup {NoTask}
        BY <1>1, Read
      <4> QED
        BY <1>20, <4>1
    <3>2. /\ Listed(s.todo, f) > 0 /\ s.started /\ ~s.dsmt
          /\ s.sq > 0 => Processed(s, f)
      BY <1>1, <3>1, <1>20 DEF Calm, Chosen
    <3> HIDE DEF f
    <3>3. f # t
      BY <1>24, <3>2
    <3>4. Listed(r.todo, f) > 0
      <4>1. Listed(T, f) = Listed(s.todo, f) + 0
        BY <1>8, <3>3
      <4>2. Listed(s.todo, f) \in Nat
        BY <1>1, PlacesType
      <4> QED
        BY <1>19, <3>2, <4>1, <4>2
    <3>5. Processed(r, f) = Processed(s, f)
      BY <1>9, <1>18, <3>1, <3>3 DEF Processed
    <3> QED
      BY <1>20, <3>1, <3>2, <3>4, <3>5
  <2>2. r.free # Nobody => r.cl[r.free].counted
    BY <1>1, <1>20 DEF Calm, Chosen
  <2>3. ~r.started => r.proc = <<>> /\ r.quitStep = 0
    BY <1>1, <1>20 DEF Calm, Chosen
  <2> QED
    BY <2>1, <2>2, <2>3 DEF Chosen
<1>26. Talk(r)
  BY <1>6, <1>19, <1>20 DEF Talk
<1>27. Over(r)
  BY <1>1, <1>7, <1>20 DEF Calm, Over
<1>28. Early(r)
  BY <1>7, <1>20 DEF Early
<1>29. \A c \in Clients : /\ r.cl[c].st = "up" => r.cl[c].counted
                          /\ r.cl[c].counted => r.started
  BY <1>1, <1>20 DEF Calm
<1>30. Calm(r)
  BY <1>1, <1>17, <1>20, <1>25, <1>26, <1>27, <1>28, <1>29 DEF Calm
<1>31. ASSUME NEW u \in Frames PROVE Fine(r, u) /\ Lent(r, u)
  <2>1. Fine(s, u) /\ Lent(s, u)
    BY DEF Sound
  <2>2. CASE u = t
    <3>1. Places(r, t) = 1
      BY <1>3, <1>22, <1>23 DEF Times
    <3>2. r.rtes[t] = "unset" /\ r.ftes[t] = "unset" /\ r.stage[t] = v
      BY <1>9, <1>18, <1>20, <1>22
    <3>3. ~(t >= r.next)
      BY <1>1, <1>19 DEF t, n
    <3>4. Sane(r, t)
      BY <1>4, <3>2 DEF Sane
    <3>5. Fine(r, t)
      BY <1>4, <3>1, <3>2, <3>3, <3>4 DEF Fine
    <3>6. Lent(r, t)
      BY <1>20, <1>21, <1>24 DEF Lent
    <3> QED
      BY <2>2, <3>5, <3>6
  <2>3. CASE u # t
    <3>1. Places(r, u) = Places(s, u)
      <4>1. Times(u = t) = 0 /\ Places(s, u) \in Nat
        BY <1>1, <2>3, PlacesType DEF Times
      <4> QED
        BY <1>23, <4>1
    <3>2. r.stage[u] = s.stage[u] /\ Listed(r.todo, u) = Listed(s.todo, u)
      <4>1. Listed(T, u) = Listed(s.todo, u) + 0
        BY <1>8, <2>3
      <4>2. Listed(s.todo, u) \in Nat
        BY <1>1, PlacesType
      <4>3. vs[u] = s.stage[u]
        BY <1>9, <2>3
      <4> QED
        BY <1>18, <1>19, <4>1, <4>2, <4>3
    <3>3. u \in Nat /\ (u >= r.next => u >= s.next) /\ (u < r.next => u < s.next)
      BY <1>1, <1>3, <1>19, <2>3 DEF t, n, Frames
    <3>4. Sane(r, u)
      BY <1>20, <2>1, <3>2, <3>3 DEF Fine, Sane, AllParts
    <3>5. Fine(r, u)
      BY <1>20, <2>1, <3>1, <3>2, <3>3, <3>4 DEF Fine
    <3>6. Lent(r, u)
      BY <1>20, <2>1, <3>2 DEF Lent
    <3> QED
      BY <3>5, <3>6
  <2> QED
    BY <2>2, <2>3
<1>32. ASSUME NEW c \in Clients PROVE Client(r, c) /\ Settled(r, c)
  <2>1. Client(s, c) /\ Settled(s, c)
    BY DEF Sound
  <2>2. Held(r, c) = Held(s, c)
    BY <1>20 DEF Held
  <2> QED
    BY <1>20, <2>1, <2>2 DEF Client, Settled
<1>33. ~r.started => r.list # <<>>
  BY <1>20 DEF Sound
<1>34. Sound(r)
  BY <1>30, <1>31, <1>32, <1>33 DEF Sound
<1>35. /\ r.connected /\ r.quitStep = 0 /\ r.next = s.next + 1
  BY <1>6, <1>7, <1>19, <1>20 DEF n, t
<1> QED
  BY <1>2, <1>3, <1>19, <1>20, <1>23, <1>34, <1>35 DEF t

LEMMA TSGotTaskSound ==
  ASSUME NEW s, Sound(s), s.pending = "AGetTask", s.next <= NFrames
  PROVE  LET r == TSGotTask([s EXCEPT !.next = @ + 1], s.next)
         IN  /\ Sound(r) /\ s.next \in Frames
             /\ r.next = s.next + 1 /\ r.rtes = s.rtes /\ r.ftes = s.ftes
             /\ r.ldrc = s.ldrc /\ Closed(r) = Closed(s)
             /\ \A u \in Frames : Places(r, u) = Places(s, u) + Times(u = s.next)
<1> DEFINE t == s.next
           b == [s EXCEPT !.next = @ + 1]
           a == [[s EXCEPT !.next = @ + 1, !.pending = "ANone"] EXCEPT
                   !.todo = Append(@, t),
                   !.stage[t] = IF t \in RenderFrames THEN "ToBeRendered"
                                ELSE "ToBeFiltered"]
           d == DontStartMoreTasks(a)
           x == CheckStartExchange(d)
           k == CheckStartTasks(a)
           f == TakeFreshTask(Answered(b), t)
           r == GetOrDoneTask(f)
<1>1. TSGotTask(b, t) = r
  BY DEF TSGotTask
<1>2. /\ Sound(a) /\ t \in Frames /\ a.connected /\ a.pending = "ANone"
      /\ a.quitStep = 0
      /\ a.next = s.next + 1 /\ a.rtes = s.rtes /\ a.ftes = s.ftes
      /\ a.ldrc = s.ldrc /\ a.cl = s.cl
      /\ \A u \in Frames : Places(a, u) = Places(s, u) + Times(u = t)
  BY FreshSound
<1>3. f = x \/ f = k
  <2>1. Answered(b) = [s EXCEPT !.next = @ + 1, !.pending = "ANone"]
    BY DEF Answered
  <2>2. f = x \/ f = k
    BY <2>1 DEF TakeFreshTask
  <2> QED
    BY <2>2
<1> HIDE DEF a
<1>4. a \in Server /\ Calm(a)
  BY <1>2 DEF Sound, Calm
<1>5. Calm(k) /\ Tame(a, k) /\ k.connected /\ k.pending = "ANone"
  <2>1. Calm(k) /\ Tame(a, k) /\ Alike(a, k)
    BY <1>4, CheckStartTasksCalm
  <2> HIDE DEF k
  <2> QED
    BY <1>2, <2>1 DEF Alike
<1>6. Calm(x) /\ Tame(a, x) /\ x.connected /\ x.pending = "ANone"
  <2>1. /\ Calm(d) /\ Tame(a, d)
        /\ d.connected = a.connected /\ d.pending = a.pending
    BY <1>2, <1>4, DontStartCalm
  <2> HIDE DEF d
  <2>2. d.connected
    BY <1>2, <2>1
  <2>3. "CONT" \in Signals \/ d.started
    BY <2>1, <2>2, ConnectedIs
  <2>4. Calm(x) /\ Tame(d, x) /\ x = d
    BY <2>1, <2>2, <2>3, CheckExchangeCalm
  <2> HIDE DEF x
  <2> QED
    BY <1>2, <2>1, <2>2, <2>4
<1> HIDE DEF x, k, f
<1>7. Calm(f) /\ Tame(a, f) /\ f.connected /\ f.pending = "ANone"
  BY <1>3, <1>5, <1>6
<1>8. \A u \in Frames : Places(f, u) <= 1
  <2>1. Sound(f)
    BY <1>2, <1>7, TameSound
  <2> QED
    BY <2>1 DEF Sound, Fine
<1>9. Calm(r) /\ Tame(f, r)
  BY <1>7, <1>8, GetOrDoneCalm
<1> HIDE DEF r
<1>10. Tame(a, r)
  BY <1>4, <1>7, <1>9, TameTrans DEF Calm
<1>11. Sound(r)
  BY <1>2, <1>9, <1>10, TameSound
<1>12. /\ r.next = s.next + 1 /\ r.rtes = s.rtes /\ r.ftes = s.ftes
       /\ r.ldrc = s.ldrc
       /\ \A u \in Frames : Places(r, u) = Places(s, u) + Times(u = t)
  BY <1>2, <1>10 DEF Tame, Still
<1>13. Closed(r) = Closed(s)
  <2>1. Closed(r) = Closed(a)
    BY <1>10, ClosedSame DEF Tame
  <2> QED
    BY <1>2, <2>1 DEF Closed
<1> QED
  BY <1>1, <1>2, <1>11, <1>12, <1>13

----------------------------------------------------------------------------
(* Signals *)

\* The signal is counted.
LEMMA CaughtCalm ==
  ASSUME NEW s, Calm(s), NEW v \in 0..2
  PROVE  LET r == [s EXCEPT !.caught = v] IN Calm(r) /\ Tame(s, r)
<1> DEFINE r == [s EXCEPT !.caught = v]
<1>1. s \in Server /\ r \in Server
  BY Write DEF Calm
<1>2. Alike(s, r) /\ r.crash = s.crash
  BY DEF Alike, Rest
<1>3. r.sfs = s.sfs /\ r.free = s.free /\ s.crash # "assert"
  BY DEF Calm
<1> HIDE DEF r
<1>4. Calm(r) /\ Tame(s, r)
  BY <1>1, <1>2, <1>3, AlikeCalm
<1> QED
  BY <1>4 DEF r

\* An order of the user that moves nothing, and the count of the signals.
LEMMA OrderSound ==
  ASSUME NEW s, Sound(s), NEW a, Calm(a), Tame(s, a), NEW v \in 0..2
  PROVE  LET r == [a EXCEPT !.caught = v]
         IN  Sound(r) /\ Careful(s, r) /\ Closed(r) = Closed(s)
<1> DEFINE r == [a EXCEPT !.caught = v]
<1>1. s \in Server /\ a \in Server
  BY DEF Sound, Calm
<1>2. Calm(r) /\ Tame(a, r)
  BY CaughtCalm
<1> HIDE DEF r
<1>3. Tame(s, r)
  BY <1>1, <1>2, TameTrans DEF Calm
<1>4. Sound(r) /\ Careful(s, r) /\ Closed(r) = Closed(s)
  BY <1>2, <1>3, TameSound, ClosedSame DEF Tame
<1> QED
  BY <1>4 DEF r

\* The first SIGINT, and what kills.
LEMMA InterruptSound ==
  ASSUME NEW s, Sound(s), s.quitStep = 0, s.caught < 2
  PROVE  LET r == [(IF s.caught = 0 THEN ScheduleQuit(s) ELSE ScheduleKill(s))
                     EXCEPT !.caught = @ + 1]
         IN  Sound(r) /\ Careful(s, r) /\ Closed(r) = Closed(s)
<1> DEFINE a == IF s.caught = 0 THEN ScheduleQuit(s) ELSE ScheduleKill(s)
           v == a.caught + 1
           r == [a EXCEPT !.caught = v]
<1>1. Calm(s) /\ s \in Server
  BY DEF Sound, Calm
<1>2. Calm(a) /\ Tame(s, a)
  BY <1>1, ScheduleQuitCalm, ScheduleKillCalm
<1>3. a.caught = s.caught
  BY DEF ScheduleQuit, ScheduleKill, ReSched, ScheduleGiveBackTasks,
         DontStartMoreTasks, KillScheduledForStart
<1>4. s.caught \in 0..2
  BY <1>1, Read
<1>5. v \in 0..2
  BY <1>3, <1>4
<1> HIDE DEF a
<1>6. [a EXCEPT !.caught = @ + 1] = r
  OBVIOUS
<1> HIDE DEF v
<1>7. Sound(r) /\ Careful(s, r) /\ Closed(r) = Closed(s)
  BY <1>2, <1>5, OrderSound
<1> HIDE DEF r
<1> QED
  BY <1>6, <1>7 DEF a

LEMMA TerminateSound ==
  ASSUME NEW s, Sound(s), s.quitStep = 0
  PROVE  LET r == [ScheduleKill(s) EXCEPT !.caught = 2]
         IN  Sound(r) /\ Careful(s, r) /\ Closed(r) = Closed(s)
<1> DEFINE a == ScheduleKill(s)
           v == 2
           r == [a EXCEPT !.caught = v]
<1>1. Calm(a) /\ Tame(s, a)
  BY ScheduleKillCalm DEF Sound
<1>2. v \in 0..2
  OBVIOUS
<1> HIDE DEF a, v
<1>3. Sound(r) /\ Careful(s, r) /\ Closed(r) = Closed(s)
  BY <1>1, <1>2, OrderSound
<1> QED
  BY <1>3 DEF a, v

\* Stop and continue.
LEMMA StopContSound ==
  ASSUME NEW s, Sound(s), s.quitStep = 0, NEW stop \in BOOLEAN,
         ~stop => "CONT" \in Signals
  PROVE  LET r == HandleStopCont(s, stop)
         IN  Sound(r) /\ Careful(s, r) /\ Closed(r) = Closed(s)
<1> DEFINE r == HandleStopCont(s, stop)
<1>1. Calm(s) /\ \A c \in Clients : Settled(s, c)
  BY DEF Sound
<1>2. Calm(r) /\ Still(s, r) /\ \A c \in Clients : Settled(r, c)
  BY <1>1, HandleStopContCalm
<1> HIDE DEF r
<1>3. Sound(r) /\ Careful(s, r) /\ Closed(r) = Closed(s)
  BY <1>2, StillSound, ClosedSame
<1> QED
  BY <1>3 DEF r

----------------------------------------------------------------------------
(* The invariant *)

Verdicts == {"no", "complete", "partly", "untouched", "unrendered", "unfiltered"}

\* A frame the source has handed out is in one place or reported, and what is
\* reported as complete has all its parts.
Booked(s, rep) ==
  /\ s.next <= NFrames + 1 /\ rep \in [Frames -> Verdicts]
  /\ \A t \in Frames :
       /\ Places(s, t) + Times(rep[t] # "no") = Times(t < s.next)
       /\ rep[t] = "complete" => AllParts(s, t)

\* The inductive invariant.  When the manager's timer fires all clients that
\* called DeleteMe() are deleted.
FarmInv ==
  /\ Sound(ldr) /\ Booked(ldr, reported)
  /\ turn = "manager" => Closed(ldr) = {}

\* What is lent in a step from s to r is wanted.
Lending(s, r) ==
  \A t \in Frames : s.ldrc[t] = Nobody /\ r.ldrc[t] # Nobody => Wants(s, r, t)

LEMMA ProperBooked ==
  ASSUME NEW s, Sound(s), NEW rep, Booked(s, rep), NEW r, Proper(s, r)
  PROVE  Booked(r, rep) /\ Lending(s, r)
<1>1. r.next = s.next /\ Lending(s, r)
  BY DEF Proper, Lending
<1>2. ASSUME NEW t \in Frames
      PROVE  /\ Places(r, t) + Times(rep[t] # "no") = Times(t < r.next)
             /\ rep[t] = "complete" => AllParts(r, t)
  <2>1. /\ Places(s, t) + Times(rep[t] # "no") = Times(t < s.next)
        /\ rep[t] = "complete" => AllParts(s, t)
    BY DEF Booked
  <2>2. Places(r, t) = Places(s, t)
    BY DEF Proper
  <2>3. Places(s, t) \in Nat
    BY PlacesType DEF Sound, Calm
  <2>4. rep[t] # "no" => Places(s, t) = 0
    BY <2>1, <2>3 DEF Times
  <2>5. Places(s, t) = 0 => r.rtes[t] = s.rtes[t] /\ r.ftes[t] = s.ftes[t]
    BY DEF Proper
  <2>6. rep[t] = "complete" => AllParts(r, t)
    BY <2>1, <2>4, <2>5 DEF AllParts
  <2> QED
    BY <1>1, <2>1, <2>2, <2>6
<1>3. r.next <= NFrames + 1 /\ rep \in [Frames -> Verdicts]
  BY <1>1 DEF Booked
<1> QED
  BY <1>1, <1>2, <1>3 DEF Booked

\* A step that reports nothing keeps the invariant.
LEMMA Keeps ==
  ASSUME FarmInv, NEW r, ldr' = r, Sound(r), Proper(ldr, r), reported' = reported,
         turn' = "manager" => Closed(r) = {}
  PROVE  FarmInv' /\ Lending(ldr, ldr')
<1>1. Booked(r, reported) /\ Lending(ldr, r)
  BY ProperBooked DEF FarmInv
<1> QED
  BY <1>1 DEF FarmInv

\* The program starts with an empty list of everything but clients.
LEMMA StartTyped == Start \in Server
<1>1. /\ <<>> \in Seq(Frames)
      /\ [t \in Frames |-> "TaskDone"] \in [Frames -> Stages]
      /\ [t \in Frames |-> "unset"] \in [Frames -> Results]
      /\ [t \in Frames |-> Nobody] \in [Frames -> Clients \cup {Nobody}]
      /\ [t \in Frames |-> {}] \in [Frames -> SUBSET Kinds]
      /\ {} \in SUBSET Frames
  BY DEF Stages, Results, Kinds
<1>2. [i \in 1..NClients |-> i] \in Seq(Clients)
  BY FarmAssumption DEF Clients
<1>3. [c \in Clients |-> Connecting] \in [Clients -> ClientRecord]
  <2>1. NoClient \in ClientRecord
    BY DEF NoClient, ClientRecord, Runs
  <2>2. Connecting \in ClientRecord
    BY <2>1 DEF Connecting, ClientRecord
  <2> QED
    BY <2>2
<1>4. [c \in Clients |-> 0] \in [Clients -> 0..2]
  OBVIOUS
<1>5. "Running" \in Runs /\ "ANone" \in Actions /\ Reconnects \in BOOLEAN
  BY FarmAssumption DEF Runs, Actions
<1>6. 1 \in Nat \ {0} /\ 0 \in 0..5 /\ 0 \in 0..2 /\ 0 \in 0..1
  OBVIOUS
<1> QED
  BY <1>1, <1>2, <1>3, <1>4, <1>5, <1>6 DEF Start, Server

LEMMA StartSound ==
  /\ Sound(Start) /\ Closed(Start) = {}
  /\ \A t \in Frames : Places(Start, t) = 0
<1> DEFINE s == Start
<1>1. s \in Server
  BY StartTyped
<1>2. /\ s.todo = <<>> /\ s.proc = <<>> /\ s.done = <<>> /\ s.srcDone = NoTask
      /\ s.next = 1 /\ s.sfs = NoTask /\ s.free = Nobody /\ ~s.started
      /\ s.quitStep = 0 /\ s.pending = "ANone" /\ ~s.connected /\ ~s.toldTs
      /\ ~s.toldIf /\ ~s.shallQuit /\ s.ess = "Running" /\ s.crash = "none"
      /\ s.list = [i \in 1..NClients |-> i]
  BY DEF Start
<1>3. ASSUME NEW c \in Clients
      PROVE  /\ s.cl[c].st = "connecting" /\ ~s.cl[c].counted /\ s.cl[c].jobs = 0
             /\ s.cl[c].run = "Running" /\ s.cl[c].pend = 0 /\ s.recon[c] = 0
  BY DEF Start, Connecting, NoClient
<1>4. ASSUME NEW t \in Frames
      PROVE  /\ s.stage[t] = "TaskDone" /\ s.rtes[t] = "unset" /\ s.ftes[t] = "unset"
             /\ s.ldrc[t] = Nobody /\ s.parts[t] = {}
  BY DEF Start
<1> HIDE DEF s
<1>5. ASSUME NEW t \in Frames
      PROVE  /\ Places(s, t) = 0 /\ Listed(s.todo, t) = 0 /\ Listed(s.proc, t) = 0
             /\ t \in Nat /\ t >= 1
  <2>1. t # NoTask /\ t \in Nat /\ t >= 1
    BY FarmAssumption DEF Frames, NoTask
  <2>2. Listed(<<>>, t) = 0
    BY ListedFew
  <2>3. Times(s.srcDone = t) = 0
    BY <1>2, <2>1 DEF Times
  <2> QED
    BY <1>2, <2>1, <2>2, <2>3 DEF Places
<1>6. ASSUME NEW t \in Frames PROVE Fine(s, t) /\ Lent(s, t)
  <2>1. Sane(s, t)
    BY <1>2, <1>4, <1>5 DEF Sane
  <2>2. Fine(s, t)
    BY <1>4, <1>5, <2>1 DEF Fine
  <2>3. Lent(s, t)
    BY <1>4, <1>5 DEF Lent
  <2> QED
    BY <2>2, <2>3
<1>7. ToSet(s.list) = Clients
  BY <1>2 DEF ToSet, Clients
<1>8. ASSUME NEW c \in Clients PROVE Client(s, c) /\ Settled(s, c)
  <2>1. Held(s, c) = {}
    BY <1>4 DEF Held, Clients, Nobody
  <2>2. Cardinality(Held(s, c)) = 0
    BY <2>1, FS_EmptySet
  <2>3. ClientHigh \in Nat
    BY FarmAssumption
  <2>4. Client(s, c)
    BY <1>3, <1>7, <2>2, <2>3 DEF Client
  <2>5. Settled(s, c)
    BY <1>3 DEF Settled
  <2> QED
    BY <2>4, <2>5
<1>9. s.list # <<>>
  BY <1>2, FarmAssumption
<1>10. Chosen(s) /\ Talk(s) /\ Over(s) /\ Early(s)
  <2>1. Chosen(s)
    BY <1>2 DEF Chosen
  <2>2. Talk(s)
    BY <1>2 DEF Talk
  <2>3. Over(s)
    <3>1. s.shallQuit \in BOOLEAN /\ s.toldIf \in BOOLEAN
      BY <1>1, Read
    <3>2. s.shallQuit = s.toldIf
      BY <1>2, <3>1
    <3> QED
      BY <1>2, <3>2 DEF Over
  <2>4. Early(s)
    BY <1>2 DEF Early, Empty
  <2> QED
    BY <2>1, <2>2, <2>3, <2>4
<1>11. Calm(s)
  BY <1>1, <1>2, <1>3, <1>10 DEF Calm
<1>12. Sound(s)
  BY <1>6, <1>8, <1>9, <1>11 DEF Sound
<1>13. Closed(s) = {}
  BY <1>3 DEF Closed
<1> QED
  BY <1>5, <1>12, <1>13 DEF s

\* Events on the connections.
LEMMA EventKeeps ==
  ASSUME FarmInv, NEW r, Event(r), Sound(r), Careful(ldr, r)
  PROVE  FarmInv' /\ Lending(ldr, ldr')
<1>1. ldr' = r /\ reported' = reported /\ turn' = "fds"
  BY DEF Event
<1>2. Proper(ldr, r)
  BY CarefulProper
<1> QED
  BY <1>1, <1>2, Keeps

\* What the clients do: each callback works on its own.
LEMMA ClientsKeep ==
  ASSUME FarmInv, NEW c \in Clients,
         \/ ClientConnects(c) \/ ClientFails(c) \/ ClientAccepts(c)
         \/ ClientResponds(c) \/ ClientQuits(c) \/ ClientIsLost(c)
  PROVE  FarmInv' /\ Lending(ldr, ldr')
<1>1. Sound(ldr)
  BY DEF FarmInv
<1>2. CASE ClientConnects(c)
  <2> DEFINE r == SuccessfullyConnected(ldr, c)
  <2>1. ldr.cl[c].st = "connecting" /\ ldr.ess # "Stopped" /\ Event(r)
    BY <1>2 DEF ClientConnects, Event, Running
  <2>2. Sound(r) /\ Careful(ldr, r)
    BY <1>1, <2>1, ConnectedSound
  <2> HIDE DEF r
  <2> QED
    BY <2>1, <2>2, EventKeeps
<1>3. CASE ClientFails(c)
  <2> DEFINE r == ClientDisconnected(ldr, c)
  <2>1. ldr.cl[c].st \in {"up", "connecting"} /\ Event(r)
    BY <1>3 DEF ClientFails
  <2>2. Sound(r) /\ Careful(ldr, r)
    BY <1>1, <2>1, DisconnectedSound
  <2> HIDE DEF r
  <2> QED
    BY <2>1, <2>2, EventKeeps
<1>4. CASE ClientAccepts(c)
  <2> DEFINE r == TaskLaunchResult(ldr, c)
  <2>1. ldr.cl[c].st = "up" /\ Event(r)
    BY <1>4 DEF ClientAccepts
  <2>2. Sound(r) /\ Careful(ldr, r)
    BY <1>1, <2>1, LaunchResultSound
  <2> HIDE DEF r
  <2> QED
    BY <2>1, <2>2, EventKeeps
<1>5. CASE ClientResponds(c)
  <2> DEFINE r == HandleControlCommandResponse(ldr, c)
  <2>1. ldr.cl[c].st = "up" /\ ldr.cl[c].pend > 0 /\ Event(r)
    BY <1>5 DEF ClientResponds
  <2>2. Sound(r) /\ Careful(ldr, r)
    BY <1>1, <2>1, ResponseSound
  <2> HIDE DEF r
  <2> QED
    BY <2>1, <2>2, EventKeeps
<1>6. CASE ClientQuits(c)
  <2> DEFINE r == ClientDisconnected(ldr, c)
  <2>1. ldr.cl[c].st \in {"up", "connecting"} /\ Event(r)
    BY <1>6 DEF ClientQuits
  <2>2. Sound(r) /\ Careful(ldr, r)
    BY <1>1, <2>1, DisconnectedSound
  <2> HIDE DEF r
  <2> QED
    BY <2>1, <2>2, EventKeeps
<1>7. CASE ClientIsLost(c)
  <2>1. PICK t \in Held(ldr, c) \cup {NoTask} :
               Event(ClientDisconnected(MarkTaskFailed(ldr, t), c))
    BY <1>7 DEF ClientIsLost
  <2> DEFINE a == MarkTaskFailed(ldr, t)
             r == ClientDisconnected(a, c)
  <2>2. t # NoTask => t \in Frames /\ ldr.ldrc[t] # Nobody
    BY <2>1 DEF Held, Clients, Nobody
  <2>3. Sound(a) /\ Careful(ldr, a) /\ a.cl = ldr.cl
    BY <1>1, <2>2, MarkSound
  <2>4. Event(r) /\ ldr.cl[c].st = "up"
    BY <1>7, <2>1 DEF ClientIsLost
  <2> HIDE DEF a
  <2>5. Sound(r) /\ Careful(a, r)
    BY <2>3, <2>4, DisconnectedSound
  <2> HIDE DEF r
  <2>6. Careful(ldr, r)
    BY <2>3, <2>5, CarefulTrans
  <2> QED
    BY <2>4, <2>5, <2>6, EventKeeps
<1> QED
  BY <1>2, <1>3, <1>4, <1>5, <1>6, <1>7

LEMMA ReportsKeep ==
  ASSUME FarmInv, NEW t \in Frames, ClientReports(t)
  PROVE  FarmInv' /\ Lending(ldr, ldr')
<1>1. PICK o \in Outcomes(ldr, t) :
        Event(HandleTaskTermination(ParseDoneComplete(ldr, t, o), t,
                {o[k] : k \in ldr.parts[t]}))
  BY DEF ClientReports
<1> DEFINE r == HandleTaskTermination(ParseDoneComplete(ldr, t, o), t,
                  {o[k] : k \in ldr.parts[t]})
<1>2. Sound(ldr) /\ ldr.ldrc[t] # Nobody /\ Event(r)
  BY <1>1 DEF FarmInv, ClientReports
<1>3. Sound(r) /\ Careful(ldr, r)
  BY <1>2, ReportSound
<1> HIDE DEF r
<1> QED
  BY <1>2, <1>3, EventKeeps

\* The main loop deletes clients and makes new ones; its timers fire only when
\* there is nobody to delete.
LEMMA TidyUpKeeps ==
  ASSUME FarmInv, NEW c \in Clients, TidyUp(c)
  PROVE  FarmInv' /\ Lending(ldr, ldr')
<1> DEFINE r == UnregisterLDRClient(ldr, c)
<1>1. Sound(ldr) /\ ldr.cl[c].st = "closed"
  BY DEF FarmInv, TidyUp, Closed
<1>2. ldr' = r /\ reported' = reported /\ turn' # "manager"
  BY DEF TidyUp
<1>3. Sound(r) /\ Careful(ldr, r)
  BY <1>1, UnregisterSound
<1> HIDE DEF r
<1>4. Proper(ldr, r)
  BY <1>3, CarefulProper
<1> QED
  BY <1>2, <1>3, <1>4, Keeps

LEMMA ReconnectKeeps ==
  ASSUME FarmInv, Reconnect
  PROVE  FarmInv' /\ Lending(ldr, ldr')
<1> DEFINE again == {c \in Clients : ldr.recon[c] = 1}
           r == [ldr EXCEPT
             !.recon = [c \in Clients |-> IF @[c] = 2 THEN 1 ELSE 0],
             !.cl = [c \in Clients |-> IF c \in again THEN Connecting ELSE @[c]],
             !.list = @ \o Only([c \in Clients |-> c], again),
             !.trigger = \E c \in Clients : ldr.recon[c] = 2]
<1>1. Sound(ldr) /\ ldr.trigger /\ Closed(ldr) = {}
  BY DEF FarmInv, Reconnect, TimersAreDue
<1>2. ldr' = r /\ reported' = reported
  BY DEF Reconnect
<1>3. Sound(r) /\ Careful(ldr, r) /\ Closed(r) = Closed(ldr)
  BY <1>1, ReconnectSound
<1> HIDE DEF r
<1>4. Proper(ldr, r)
  BY <1>3, CarefulProper
<1> QED
  BY <1>1, <1>2, <1>3, <1>4, Keeps

LEMMA ScheduleKeeps ==
  ASSUME FarmInv, ManagerSchedules
  PROVE  FarmInv' /\ Lending(ldr, ldr')
<1> DEFINE r == Schedule(ldr)
<1>1. Sound(ldr) /\ Closed(ldr) = {} /\ ldr.quitStep < 5
  BY DEF FarmInv, ManagerSchedules, Running, Alive, TimersAreDue
<1>2. ldr' = r /\ reported' = reported /\ turn' # "manager"
  BY DEF ManagerSchedules
<1>3. Sound(r) /\ Proper(ldr, r)
  BY <1>1, ScheduleSound
<1> HIDE DEF r
<1> QED
  BY <1>2, <1>3, Keeps

\* Answers of the source, as far as they are heard.
LEMMA AnswersKeep ==
  ASSUME FarmInv,
         SourceConnects \/ SourceHasNoMore \/ SourceDisconnects
  PROVE  FarmInv' /\ Lending(ldr, ldr')
<1>1. Sound(ldr) /\ Calm(ldr)
  BY DEF FarmInv, Sound
<1>2. ASSUME NEW action, action # "ANone", NEW r, SourceAnswers(action, r),
             reported' = reported,
             ldr.quitStep = 0 /\ ldr.pending = action
               => Sound(r) /\ Careful(ldr, r) /\ Closed(r) = Closed(ldr)
      PROVE  FarmInv' /\ Lending(ldr, ldr')
  <2>1. Closed(ldr) = {} /\ ldr.pending = action
    BY <1>2 DEF SourceAnswers, TimersAreDue
  <2>2. ldr.quitStep = 0
    <3>1. ldr.quitStep \in 0..5
      BY <1>1, Read DEF Calm
    <3>2. ~(ldr.quitStep > 0)
      BY <1>1, <1>2, <2>1 DEF Calm, Over
    <3> QED
      BY <3>1, <3>2
  <2>3. ldr' = r
    BY <1>2, <2>2 DEF SourceAnswers
  <2>4. Sound(r) /\ Proper(ldr, r) /\ Closed(r) = {}
    BY <1>2, <2>1, <2>2, CarefulProper
  <2> QED
    BY <1>2, <2>3, <2>4, Keeps
<1>3. CASE SourceConnects
  <2> DEFINE r == TSConnected(ldr)
  <2>1. SourceAnswers("AConnect", r) /\ reported' = reported
    BY <1>3 DEF SourceConnects
  <2>2. ldr.quitStep = 0 /\ ldr.pending = "AConnect"
          => Sound(r) /\ Careful(ldr, r) /\ Closed(r) = Closed(ldr)
    BY <1>1, TSConnectedSound
  <2> HIDE DEF r
  <2> QED
    BY <1>2, <2>1, <2>2
<1>4. CASE SourceHasNoMore
  <2> DEFINE r == TSNoMoreTasks(ldr)
  <2>1. SourceAnswers("AGetTask", r) /\ reported' = reported
    BY <1>4 DEF SourceHasNoMore
  <2>2. ldr.quitStep = 0 /\ ldr.pending = "AGetTask"
          => Sound(r) /\ Careful(ldr, r) /\ Closed(r) = Closed(ldr)
    BY <1>1, TSNoMoreSound
  <2> HIDE DEF r
  <2> QED
    BY <1>2, <2>1, <2>2
<1>5. CASE SourceDisconnects
  <2> DEFINE r == TSDisconnected(ldr)
  <2>1. SourceAnswers("ADisconnect", r) /\ reported' = reported
    BY <1>5 DEF SourceDisconnects
  <2>2. ldr.quitStep = 0 /\ ldr.pending = "ADisconnect"
          => Sound(r) /\ Careful(ldr, r) /\ Closed(r) = Closed(ldr)
    BY <1>1, TSDisconnectedSound
  <2> HIDE DEF r
  <2> QED
    BY <1>2, <2>1, <2>2
<1> QED
  BY <1>3, <1>4, <1>5

\* A request that is under way: the program does not quit.
LEMMA AnswerIs ==
  ASSUME FarmInv, NEW action, action # "ANone", NEW r, SourceAnswers(action, r)
  PROVE  /\ ldr' = r /\ ldr.pending = action /\ ldr.quitStep = 0
         /\ Closed(ldr) = {} /\ Sound(ldr) /\ ldr \in Server
<1>1. Sound(ldr) /\ Calm(ldr) /\ ldr \in Server
  BY DEF FarmInv, Sound, Calm
<1>2. Closed(ldr) = {} /\ ldr.pending = action
  BY DEF SourceAnswers, TimersAreDue
<1>3. ldr.quitStep \in 0..5
  BY <1>1, Read
<1>4. ~(ldr.quitStep > 0)
  BY <1>1, <1>2 DEF Calm, Over
<1>5. ldr.quitStep = 0
  BY <1>3, <1>4
<1> QED
  BY <1>1, <1>2, <1>5 DEF SourceAnswers

\* A frame that is handed out is in one place from then on.
LEMMA HandOutKeeps ==
  ASSUME FarmInv, SourceHandsOut
  PROVE  FarmInv' /\ Lending(ldr, ldr')
<1> DEFINE n == ldr.next
           r == TSGotTask([ldr EXCEPT !.next = @ + 1], n)
<1>1. SourceAnswers("AGetTask", r) /\ reported' = reported /\ n <= NFrames
  BY DEF SourceHandsOut
<1>2. /\ ldr' = r /\ ldr.pending = "AGetTask" /\ Closed(ldr) = {} /\ Sound(ldr)
      /\ ldr \in Server
  BY <1>1, AnswerIs
<1>3. /\ Sound(r) /\ n \in Frames
      /\ r.next = n + 1 /\ r.rtes = ldr.rtes /\ r.ftes = ldr.ftes
      /\ r.ldrc = ldr.ldrc /\ Closed(r) = Closed(ldr)
      /\ \A t \in Frames : Places(r, t) = Places(ldr, t) + Times(t = n)
  BY <1>1, <1>2, TSGotTaskSound
<1> HIDE DEF r
<1>4. NFrames \in Nat
  BY FarmAssumption
<1>5. ASSUME NEW t \in Frames
      PROVE  /\ Places(r, t) + Times(reported[t] # "no") = Times(t < r.next)
             /\ reported[t] = "complete" => AllParts(r, t)
  <2>1. /\ Places(ldr, t) + Times(reported[t] # "no") = Times(t < n)
        /\ reported[t] = "complete" => AllParts(ldr, t)
    BY DEF FarmInv, Booked
  <2>2. Places(ldr, t) \in Nat
    BY <1>2, PlacesType
  <2>3. t \in Nat /\ n \in Nat
    BY <1>3, <1>4 DEF Frames
  <2>4. Places(r, t) = Places(ldr, t) + Times(t = n) /\ r.next = n + 1
    BY <1>3
  <2> HIDE DEF n
  <2>5. Places(r, t) + Times(reported[t] # "no") = Times(t < r.next)
    BY <2>1, <2>2, <2>3, <2>4 DEF Times
  <2>6. reported[t] = "complete" => AllParts(r, t)
    BY <1>3, <2>1 DEF AllParts
  <2> QED
    BY <2>5, <2>6
<1>6. r.next <= NFrames + 1
  BY <1>1, <1>3, <1>4 DEF Frames
<1>7. Booked(r, reported)
  BY <1>5, <1>6 DEF FarmInv, Booked
<1>8. Lending(ldr, r)
  BY <1>3 DEF Lending
<1> QED
  BY <1>1, <1>2, <1>3, <1>7, <1>8 DEF FarmInv

\* A frame that was taken back is reported; as complete, if it is done.
LEMMA TakeBackKeeps ==
  ASSUME FarmInv, SourceTakesBack
  PROVE  FarmInv' /\ Lending(ldr, ldr')
<1> DEFINE u == ldr.srcDone
           v == Verdict(ldr, u)
           rep == [reported EXCEPT ![u] = v]
           r == TSTookDone([ldr EXCEPT !.srcDone = NoTask])
<1>1. SourceAnswers("ADoneTask", r) /\ reported' = rep
  BY DEF SourceTakesBack
<1>2. /\ ldr' = r /\ ldr.pending = "ADoneTask" /\ Closed(ldr) = {} /\ Sound(ldr)
      /\ ldr \in Server /\ ldr.quitStep = 0
  BY <1>1, AnswerIs
<1>3. /\ Sound(r) /\ u \in Frames
      /\ r.next = ldr.next /\ r.rtes = ldr.rtes /\ r.ftes = ldr.ftes
      /\ r.ldrc = ldr.ldrc /\ Closed(r) = Closed(ldr)
      /\ \A t \in Frames : Places(r, t) + Times(u = t) = Places(ldr, t)
  BY <1>2, TSTookDoneSound
<1>4. Booked(ldr, reported)
  BY DEF FarmInv
<1>5. u < ldr.next /\ reported[u] = "no"
  <2>1. Places(ldr, u) + Times(reported[u] # "no") = Times(u < ldr.next)
    BY <1>3, <1>4 DEF Booked
  <2>2. Places(r, u) + 1 = Places(ldr, u)
    BY <1>3 DEF Times
  <2>3. Places(r, u) \in Nat
    BY <1>3, PlacesType DEF Sound, Calm
  <2> QED
    BY <2>1, <2>2, <2>3 DEF Times
<1>6. v \in Verdicts /\ v # "no" /\ (v = "complete" => AllParts(ldr, u))
  <2>1. ldr.stage[u] \in Stages /\ ldr.rtes[u] \in Results /\ ldr.ftes[u] \in Results
    <3>1. /\ ldr.stage \in [Frames -> Stages] /\ ldr.rtes \in [Frames -> Results]
          /\ ldr.ftes \in [Frames -> Results]
      BY <1>2, Read
    <3> QED
      BY <1>3, <3>1
  <2>2. Sane(ldr, u)
    BY <1>2, <1>3 DEF Sound, Fine
  <2>3. ldr.stage[u] = "TaskDone" => AllParts(ldr, u)
    BY <1>5, <2>2 DEF Sane
  <2>4. /\ ldr.stage[u] = "TaskDone" => v = "complete"
        /\ ldr.stage[u] # "TaskDone" =>
             v \in {"partly", "untouched", "unrendered", "unfiltered"}
    BY DEF Verdict, NotFailed, Processed
  <2> HIDE DEF v
  <2> QED
    BY <2>3, <2>4 DEF Verdicts
<1> HIDE DEF v
<1>7. /\ rep \in [Frames -> Verdicts] /\ rep[u] = v
      /\ \A t \in Frames : t # u => rep[t] = reported[t]
  <2>1. reported \in [Frames -> Verdicts]
    BY <1>4 DEF Booked
  <2> QED
    BY <1>3, <1>6, <2>1
<1> HIDE DEF r, rep
<1>8. ASSUME NEW t \in Frames
      PROVE  /\ Places(r, t) + Times(rep[t] # "no") = Times(t < r.next)
             /\ rep[t] = "complete" => AllParts(r, t)
  <2>1. /\ Places(ldr, t) + Times(reported[t] # "no") = Times(t < ldr.next)
        /\ reported[t] = "complete" => AllParts(ldr, t)
    BY <1>4 DEF Booked
  <2>2. AllParts(r, t) = AllParts(ldr, t)
    BY <1>3 DEF AllParts
  <2>3. Places(r, t) + Times(u = t) = Places(ldr, t) /\ r.next = ldr.next
    BY <1>3
  <2>4. Places(r, t) \in Nat
    BY <1>3, PlacesType DEF Sound, Calm
  <2> HIDE DEF u
  <2>5. CASE t = u
    <3>1. rep[t] # "no" /\ (rep[t] = "complete" => AllParts(ldr, t))
      BY <1>6, <1>7, <2>5
    <3>2. reported[t] = "no"
      BY <1>5, <2>5
    <3>3. Times(rep[t] # "no") = 1 /\ Times(reported[t] # "no") = 0 /\ Times(u = t) = 1
      BY <2>5, <3>1, <3>2 DEF Times
    <3> QED
      BY <2>1, <2>2, <2>3, <2>4, <3>1, <3>3
  <2>6. CASE t # u
    <3>1. rep[t] = reported[t] /\ Times(u = t) = 0
      BY <1>7, <2>6 DEF Times
    <3> QED
      BY <2>1, <2>2, <2>3, <2>4, <3>1
  <2> QED
    BY <2>5, <2>6
<1>9. Booked(r, rep)
  BY <1>3, <1>4, <1>7, <1>8 DEF Booked
<1>10. Lending(ldr, r)
  BY <1>3 DEF Lending
<1> QED
  BY <1>1, <1>2, <1>3, <1>9, <1>10 DEF FarmInv

\* Signals move no task; on the way out they are ignored.
LEMMA SignalsKeep ==
  ASSUME FarmInv, UserInterrupts \/ UserTerminates \/ UserStops \/ UserContinues
  PROVE  FarmInv' /\ Lending(ldr, ldr')
<1>1. Sound(ldr) /\ Proper(ldr, ldr) /\ ldr.quitStep \in 0..5
  BY Read DEF FarmInv, Sound, Calm, Proper
<1>2. ASSUME NEW sig, NEW r, Signal(sig, r),
             ldr.quitStep = 0 => Sound(r) /\ Careful(ldr, r) /\ Closed(r) = Closed(ldr)
      PROVE  FarmInv' /\ Lending(ldr, ldr')
  <2>1. /\ turn' = turn /\ reported' = reported
        /\ ldr' = IF ldr.quitStep > 0 THEN ldr ELSE r
    BY <1>2 DEF Signal, OnSignal
  <2>2. turn = "manager" => Closed(ldr) = {}
    BY DEF FarmInv
  <2>3. CASE ldr.quitStep > 0
    BY <1>1, <2>1, <2>2, <2>3, Keeps
  <2>4. CASE ~(ldr.quitStep > 0)
    <3>1. ldr' = r /\ Sound(r) /\ Proper(ldr, r) /\ Closed(r) = Closed(ldr)
      BY <1>1, <1>2, <2>1, <2>4, CarefulProper
    <3> QED
      BY <2>1, <2>2, <3>1, Keeps
  <2> QED
    BY <2>3, <2>4
<1>3. CASE UserInterrupts
  <2> DEFINE r == [(IF ldr.caught = 0 THEN ScheduleQuit(ldr) ELSE ScheduleKill(ldr))
                     EXCEPT !.caught = @ + 1]
  <2>1. Signal("INT", r) /\ ldr.caught < 2
    BY <1>3 DEF UserInterrupts
  <2>2. ldr.quitStep = 0 => Sound(r) /\ Careful(ldr, r) /\ Closed(r) = Closed(ldr)
    BY <1>1, <2>1, InterruptSound
  <2> HIDE DEF r
  <2> QED
    BY <1>2, <2>1, <2>2
<1>4. CASE UserTerminates
  <2> DEFINE r == [ScheduleKill(ldr) EXCEPT !.caught = 2]
  <2>1. Signal("TERM", r)
    BY <1>4 DEF UserTerminates
  <2>2. ldr.quitStep = 0 => Sound(r) /\ Careful(ldr, r) /\ Closed(r) = Closed(ldr)
    BY <1>1, TerminateSound
  <2> HIDE DEF r
  <2> QED
    BY <1>2, <2>1, <2>2
<1>5. CASE UserStops
  <2> DEFINE r == HandleStopCont(ldr, TRUE)
  <2>1. Signal("TSTP", r)
    BY <1>5 DEF UserStops
  <2>2. ldr.quitStep = 0 => Sound(r) /\ Careful(ldr, r) /\ Closed(r) = Closed(ldr)
    BY <1>1, StopContSound
  <2> HIDE DEF r
  <2> QED
    BY <1>2, <2>1, <2>2
<1>6. CASE UserContinues
  <2> DEFINE r == HandleStopCont(ldr, FALSE)
  <2>1. Signal("CONT", r) /\ "CONT" \in Signals
    BY <1>6 DEF UserContinues, Signal
  <2>2. ldr.quitStep = 0 => Sound(r) /\ Careful(ldr, r) /\ Closed(r) = Closed(ldr)
    BY <1>1, <2>1, StopContSound
  <2> HIDE DEF r
  <2> QED
    BY <1>2, <2>1, <2>2
<1> QED
  BY <1>3, <1>4, <1>5, <1>6

----------------------------------------------------------------------------
(* The theorems *)

LEMMA InitFarm == Init => FarmInv
<1> SUFFICES ASSUME Init PROVE FarmInv
  OBVIOUS
<1>1. ldr = Start /\ turn = "fds" /\ reported = [t \in Frames |-> "no"]
  BY DEF Init
<1>2. Sound(ldr) /\ Closed(ldr) = {} /\ \A t \in Frames : Places(ldr, t) = 0
  BY <1>1, StartSound
<1>3. ldr.next = 1
  BY <1>1 DEF Start
<1>4. NFrames \in Nat
  BY FarmAssumption
<1>5. reported \in [Frames -> Verdicts]
  BY <1>1 DEF Verdicts
<1>6. ASSUME NEW t \in Frames
      PROVE  /\ Places(ldr, t) + Times(reported[t] # "no") = Times(t < ldr.next)
             /\ reported[t] = "complete" => AllParts(ldr, t)
  <2>1. reported[t] = "no" /\ ~(t < 1)
    BY <1>1, <1>4 DEF Frames
  <2> QED
    BY <1>2, <1>3, <2>1 DEF Times
<1>7. Booked(ldr, reported)
  BY <1>3, <1>4, <1>5, <1>6 DEF Booked
<1> QED
  BY <1>2, <1>7 DEF FarmInv

LEMMA NextFarm ==
  ASSUME FarmInv, [Next]_farm
  PROVE  FarmInv' /\ Lending(ldr, ldr')
<1>1. CASE ClientEvents
  BY <1>1, ClientsKeep DEF ClientEvents
<1>2. CASE \E t \in Frames : ClientReports(t)
  BY <1>2, ReportsKeep
<1>3. CASE MainLoop
  BY <1>3, TidyUpKeeps, AnswersKeep, HandOutKeeps, TakeBackKeeps, ScheduleKeeps
     DEF MainLoop
<1>4. CASE Reconnect
  BY <1>4, ReconnectKeeps
<1>5. CASE UserInterrupts \/ UserTerminates \/ UserStops \/ UserContinues
  BY <1>5, SignalsKeep
<1>6. CASE UNCHANGED farm
  <2>1. ldr' = ldr /\ turn' = turn /\ reported' = reported
    BY <1>6 DEF farm
  <2>2. Sound(ldr) /\ Proper(ldr, ldr) /\ (turn = "manager" => Closed(ldr) = {})
    BY DEF FarmInv, Proper
  <2> QED
    BY <2>1, <2>2, Keeps
<1> QED
  BY <1>1, <1>2, <1>3, <1>4, <1>5, <1>6 DEF Next

\* The invariant holds in every state of the server.
THEOREM FarmInvariant == Spec => []FarmInv
<1>1. Init => FarmInv
  BY InitFarm
<1>2. FarmInv /\ [Next]_farm => FarmInv'
  BY NextFarm
<1> QED
  BY <1>1, <1>2, PTL DEF Spec

\* ServerTyped (class TaskDriverInterface_LDR): every member has its type, and
\* free_client never dangles: who is counted is still in the list.
THEOREM ServerIsTyped == Spec => []ServerTyped
<1>1. FarmInv => ServerTyped
  <2> SUFFICES ASSUME FarmInv PROVE ServerTyped
    OBVIOUS
  <2>1. ldr \in Server /\ Chosen(ldr) /\ \A c \in Clients : Client(ldr, c)
    BY DEF FarmInv, Sound, Calm
  <2>2. /\ ldr.todo \in Seq(Frames) /\ ldr.proc \in Seq(Frames)
        /\ ldr.done \in Seq(Frames) /\ ldr.list \in Seq(Clients)
        /\ ldr.sfs \in Frames \cup {NoTask} /\ ldr.srcDone \in Frames \cup {NoTask}
        /\ ldr.sq \in 0..2 /\ ldr.sqa \in 0..1 /\ ldr.quitStep \in 0..5
        /\ ldr.ess \in Runs /\ ldr.free \in Clients \cup {Nobody}
        /\ ldr.stage \in [Frames -> Stages] /\ ldr.cl \in [Clients -> ClientRecord]
    BY <2>1, Read
  <2>3. ldr.free \in ToSet(ldr.list) \cup {Nobody}
    <3> SUFFICES ASSUME ldr.free # Nobody PROVE ldr.free \in ToSet(ldr.list)
      OBVIOUS
    <3>1. ldr.free \in Clients /\ ldr.cl[ldr.free].counted
      BY <2>1, <2>2 DEF Chosen
    <3> QED
      BY <2>1, <3>1 DEF Client
  <2>4. ASSUME NEW c \in Clients
        PROVE  ldr.cl[c].jobs \in 0..ClientHigh /\ ldr.cl[c].pend \in Nat
    <3>1. ldr.cl[c] \in ClientRecord
      BY <2>2
    <3>2. ldr.cl[c].pend \in Nat
      BY <3>1 DEF ClientRecord
    <3>3. ldr.cl[c].jobs = Cardinality(Held(ldr, c)) /\ ldr.cl[c].jobs <= ClientHigh
      BY <2>1 DEF Client
    <3>4. Cardinality(Held(ldr, c)) \in Nat
      BY HeldFinite, FS_CardinalityType
    <3>5. ClientHigh \in Nat
      BY FarmAssumption
    <3> QED
      BY <3>2, <3>3, <3>4, <3>5
  <2>5. reported \in [Frames -> Verdicts]
    BY DEF FarmInv, Booked
  <2> QED
    BY <2>2, <2>3, <2>4, <2>5 DEF ServerTyped, Runs, Stages, Verdicts
<1> QED
  BY <1>1, FarmInvariant, PTL

\* LentToOneClient: no frame is lost or doubled between source, queues, clients
\* and reports, whatever clients, main loop and user do at the same time.
THEOREM FramesAreConserved == Spec => []LentToOneClient
<1>1. FarmInv => LentToOneClient
  <2> SUFFICES ASSUME FarmInv PROVE LentToOneClient
    OBVIOUS
  <2>1. ldr \in Server /\ Sound(ldr)
    BY DEF FarmInv, Sound, Calm
  <2>2. ASSUME NEW t \in Frames
        PROVE  /\ Listed(ldr.todo \o ldr.proc \o ldr.done, t) + Times(ldr.srcDone = t)
                    + Times(reported[t] # "no") = Times(t < ldr.next)
               /\ ldr.ldrc[t] # Nobody <=> Listed(ldr.proc, t) = 1
    <3> DEFINE q == ldr.todo \o ldr.proc
    <3>1. /\ ldr.todo \in Seq(Frames) /\ ldr.proc \in Seq(Frames)
          /\ ldr.done \in Seq(Frames)
      BY <2>1, Read
    <3>2. q \in Seq(Frames) /\ Listed(q, t) = Listed(ldr.todo, t) + Listed(ldr.proc, t)
      BY <3>1, ListedConcat, ConcatProperties
    <3> HIDE DEF q
    <3>3. Listed(q \o ldr.done, t) = Listed(q, t) + Listed(ldr.done, t)
      BY <3>1, <3>2, ListedConcat
    <3>4. Listed(q \o ldr.done, t) + Times(ldr.srcDone = t) = Places(ldr, t)
      BY <3>2, <3>3 DEF Places
    <3>5. Places(ldr, t) + Times(reported[t] # "no") = Times(t < ldr.next)
      BY DEF FarmInv, Booked
    <3>6. /\ Listed(ldr.todo, t) \in Nat /\ Listed(ldr.proc, t) \in Nat
          /\ Listed(ldr.done, t) \in Nat /\ Times(ldr.srcDone = t) \in {0, 1}
      BY <2>1, PlacesType
    <3>7. Places(ldr, t) <= 1 /\ (ldr.ldrc[t] # Nobody <=> Listed(ldr.proc, t) > 0)
      BY <2>1 DEF Sound, Fine, Lent
    <3>8. Listed(ldr.proc, t) <= 1
      BY <3>6, <3>7 DEF Places
    <3>9. ldr.ldrc[t] # Nobody <=> Listed(ldr.proc, t) = 1
      BY <3>6, <3>7, <3>8
    <3> QED
      BY <3>4, <3>5, <3>9 DEF q
  <2>3. \A c \in Clients : /\ ldr.cl[c].jobs = Cardinality(Held(ldr, c))
                           /\ ldr.cl[c].jobs > 0 => ldr.cl[c].st = "up"
    BY <2>1 DEF Sound, Client
  <2> QED
    BY <2>2, <2>3 DEF LentToOneClient
<1> QED
  BY <1>1, FarmInvariant, PTL

\* ServerAssertionsHold: no assertion of manager or interface fails, with any
\* number of clients and frames and all signals.
THEOREM NoServerAssertionFails == Spec => []ServerAssertionsHold
<1>1. FarmInv => ServerAssertionsHold
  BY DEF FarmInv, Sound, Calm, ServerAssertionsHold
<1> QED
  BY <1>1, FarmInvariant, PTL

\* A frame is reported as complete only if all its parts are; with every signal.
THEOREM CompleteIsTrue ==
  Spec => [](\A t \in Frames : reported[t] = "complete" => AllParts(ldr, t))
<1>1. FarmInv => \A t \in Frames : reported[t] = "complete" => AllParts(ldr, t)
  BY DEF FarmInv, Booked
<1> QED
  BY <1>1, FarmInvariant, PTL

\* EverythingIsReported: a server whose user does not send SIGCONT leaves only
\* when every frame it was given is reported.
THEOREM LeavesNothingBehind ==
  ASSUME "CONT" \notin Signals
  PROVE  Spec => []EverythingIsReported
<1>1. FarmInv => EverythingIsReported
  <2> SUFFICES ASSUME FarmInv PROVE EverythingIsReported
    OBVIOUS
  <2>1. ldr \in Server /\ Sound(ldr) /\ Calm(ldr) /\ Booked(ldr, reported)
    BY DEF FarmInv, Sound, Calm
  <2>2. ASSUME ldr.quitStep >= 3, NEW t \in 1..(ldr.next - 1)
        PROVE  reported[t] # "no"
    <3>1. ldr.next \in Nat /\ ldr.next <= NFrames + 1 /\ ldr.quitStep \in 0..5
      BY <2>1, Read DEF Booked
    <3>2. NFrames \in Nat
      BY FarmAssumption
    <3>3. t \in Frames /\ t < ldr.next /\ ldr.quitStep > 0 /\ t # NoTask
      BY <2>2, <3>1, <3>2 DEF Frames, NoTask
    <3>4. /\ ldr.todo = <<>> /\ ldr.done = <<>> /\ ldr.proc = <<>>
          /\ ldr.pending = "ANone"
      BY <2>1, <3>3 DEF Calm, Early, Over, Empty
    <3>5. ldr.srcDone = NoTask
      BY <2>1, <3>4 DEF Calm, Talk
    <3>6. Listed(<<>>, t) = 0
      BY ListedFew
    <3>7. Times(ldr.srcDone = t) = 0
      BY <3>3, <3>5 DEF Times
    <3>8. Places(ldr, t) = 0
      BY <3>4, <3>6, <3>7 DEF Places
    <3>9. Places(ldr, t) + Times(reported[t] # "no") = Times(t < ldr.next)
      BY <2>1, <3>3 DEF Booked
    <3> QED
      BY <3>3, <3>8, <3>9 DEF Times
  <2> QED
    BY <2>1, <2>2 DEF EverythingIsReported, Booked
<1> QED
  BY <1>1, FarmInvariant, PTL

\* OnlyWantedWorkIsLent: the task that was chosen is looked at again before it
\* is lent, so no order to quit comes too late, and no part is done twice.
THEOREM NothingUnwantedIsLent == Spec => OnlyWantedWorkIsLent
<1> DEFINE A == \A t \in Frames :
              ldr.ldrc[t] = Nobody /\ ldr'.ldrc[t] # Nobody =>
                /\ ~ldr.dsmt /\ (ldr.sq = 0 \/ Processed(ldr, t))
                /\ "render" \in ldr'.parts[t] => ldr.rtes[t] # "ok"
                /\ "filter" \in ldr'.parts[t] => ldr.ftes[t] # "ok"
<1>1. FarmInv /\ [Next]_farm => A
  BY NextFarm DEF Lending, Wants
<1> HIDE DEF A
<1>2. Spec => [][A]_farm
  BY <1>1, FarmInvariant, PTL DEF Spec
<1> QED
  BY <1>2 DEF A, OnlyWantedWorkIsLent

=============================================================================
