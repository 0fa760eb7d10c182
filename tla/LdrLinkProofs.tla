---------------------------- MODULE LdrLinkProofs ----------------------------
(***************************************************************************)
(* Server and client never lose track of each other (modules LdrLink and    *)
(* LdrLinkProps): every step of either end, and of the network, keeps the   *)
(* invariant of module LdrEndsProofs.  Reading everything the client has    *)
(* written brings the server to where the client believes it to be.         *)
(***************************************************************************)
EXTENDS LdrEndsProofs

----------------------------------------------------------------------------
(* The two ends *)

Sound(s, k, tc, ts, c) ==
  /\ Linked(s, k, tc, ts, s.open /\ k.open /\ ~c)
  /\ c \in BOOLEAN
  /\ (~s.open \/ c) => ts = <<>>
  /\ (~k.open \/ c) => tc = <<>>

\* What the client does for itself is nothing to the connection.
LEMMA GivenStays ==
  ASSUME NEW k, NEW n, Same(k, n), k.open, NEW tc, Given(k, tc)
  PROVE  Given(n, tc)
<1>1. /\ n.tri.task = k.tri.task /\ n.tri.resp = k.tri.resp
      /\ k.tri.task = NoTask => Own(n) = Own(k)
      /\ \/ n.tri.act = k.tri.act /\ n.tri.n = k.tri.n
         \/ /\ k.tri.act \in {"FileReq", "Complete", "Response"}
            /\ n.tri.act \in {"FileReq", "Complete", "Response"}
  BY DEF Same
<1> QED
  BY <1>1 DEF Given

\* Both ends are as far as they were.
LEMMA InStepStays ==
  ASSUME NEW s, NEW k, NEW n, Same(k, n), k.open, NEW tc, NEW ts, InStep(s, k, tc, ts)
  PROVE  InStep(s, n, tc, ts)
<1>1. /\ n.tri.task = k.tri.task /\ n.tri.resp = k.tri.resp
      /\ \/ n.tri.act = k.tri.act /\ n.tri.n = k.tri.n
         \/ /\ k.tri.act \in {"FileReq", "Complete", "Response"}
            /\ n.tri.act \in {"FileReq", "Complete", "Response"}
  BY DEF Same
<1> QED
  BY <1>1 DEF InStep

\* What the client does for itself keeps the two ends sound.
LEMMA ClientStays ==
  ASSUME NEW s, NEW k, NEW tc, NEW ts, NEW c, Sound(s, k, tc, ts, c),
         NEW n \in ClientRecord, ClientSane(n), Same(k, n)
  PROVE  Sound(s, n, tc, ts, c)
<1> DEFINE live == s.open /\ k.open /\ ~c
<1>1. Linked(s, k, tc, ts, live) /\ n.open = k.open
  BY DEF Sound, Same
<1>2. ASSUME k.open PROVE Linked(s, n, tc, ts, live)
  <2>1. /\ Then(n) = Then(k) /\ Has(n) = Has(k)
        /\ \A r \in Seq(Orders) : Owing(k.send, r) => Owing(n.send, r)
    BY <1>2 DEF Same
  <2>2. Reports(s, n, ts, live)
    BY <1>1, <2>1 DEF Linked, Reports
  <2>3. \A q : Owes(k, tc, q) => Owes(n, tc, q)
    <3> SUFFICES ASSUME NEW q, Owes(k, tc, q) PROVE Owes(n, tc, q)
      OBVIOUS
    <3>1. q[1] \in Seq(Orders)
      <4>1. Len(tc) \in Nat
        BY <1>1 DEF Linked
      <4>2. 1 \in 1..(Len(tc) + 1)
        BY <4>1
      <4> QED
        BY <4>2 DEF Owes
    <3> QED
      BY <2>1, <3>1 DEF Owes
  <2>4. Answered(s, n, tc, ts, live)
    BY <1>1, <2>3 DEF Linked, Answered
  <2>5. Given(n, tc)
    BY <1>1, <1>2, GivenStays DEF Linked
  <2>6. live => InStep(s, n, tc, ts)
    BY <1>1, <1>2, InStepStays DEF Linked
  <2>7. live => Located(s, n, tc, ts)
    BY <1>1, <2>1 DEF Linked, Located
  <2> QED
    BY <1>1, <2>2, <2>4, <2>5, <2>6, <2>7 DEF Linked
<1>3. ASSUME ~k.open PROVE Linked(s, n, tc, ts, live)
  <2>1. tc = <<>> /\ ~live
    BY <1>3 DEF Sound
  <2>2. Given(n, tc)
    BY <2>1 DEF Given
  <2>3. Answered(s, n, tc, ts, live) /\ Reports(s, n, ts, live)
    BY <1>1, <1>3, <2>1 DEF Linked, Answered, Reports
  <2> QED
    BY <1>1, <2>1, <2>2, <2>3 DEF Linked
<1> QED
  BY <1>1, <1>2, <1>3 DEF Sound

\* What the server is about to write is nothing to the connection yet.
LEMMA ServerStays ==
  ASSUME NEW s, NEW k, NEW tc, NEW ts, NEW c, Sound(s, k, tc, ts, c),
         NEW n \in ServerRecord, ServerSane(n), Facing(s, n)
  PROVE  Sound(n, k, tc, ts, c)
<1> DEFINE live == s.open /\ k.open /\ ~c
<1>1. Linked(s, k, tc, ts, live) /\ n.open = s.open
  BY DEF Sound, Facing
<1>2. Now(n) = Now(s) /\ n.list = s.list /\ n.wait = s.wait /\ n.tri = s.tri
  BY DEF Facing, Now
<1>9. n.quit = 3 => s.quit = 3
  BY DEF Facing
<1>3. Reports(n, k, ts, live)
  <2>1. \A p : Views(s, ts, p) => Views(n, ts, p)
    BY <1>2 DEF Views, Assigned
  <2> QED
    BY <1>1, <2>1 DEF Linked, Reports
<1>4. Answered(n, k, tc, ts, live)
  <2>1. \A w : Waits(s, ts, w) => Waits(n, ts, w)
    BY <1>2 DEF Waits
  <2> QED
    BY <1>1, <1>2, <1>9, <2>1 DEF Linked, Answered
<1>5. Asked(n, ts)
  BY <1>1, <1>2 DEF Linked, Asked
<1>6. live => InStep(n, k, tc, ts)
  BY <1>1, <1>2 DEF Linked, InStep
<1>7. live => Located(n, k, tc, ts)
  BY <1>1, <1>2 DEF Linked, Located, Leaving
<1>8. Linked(n, k, tc, ts, live)
  BY <1>1, <1>3, <1>4, <1>5, <1>6, <1>7 DEF Linked
<1> QED
  BY <1>1, <1>8 DEF Sound

\* An empty channel.
LEMMA NothingThere ==
  /\ <<>> \in Seq(Packets) /\ Len(<<>>) = 0 /\ DOMAIN <<>> = {} /\ 1..Len(<<>>) = {}
  /\ 1..(Len(<<>>) + 1) = {1}
OBVIOUS

\* The server throws the client out.
LEMMA ServerLeaves ==
  ASSUME NEW s, NEW k, NEW tc, NEW ts, NEW c, Sound(s, k, tc, ts, c),
         NEW n \in ServerRecord, ServerSane(n), ~n.open, n.quit = 0
  PROVE  Sound(n, k, tc, <<>>, c)
<1> DEFINE live == n.open /\ k.open /\ ~c
<1>1. Linked(s, k, tc, ts, s.open /\ k.open /\ ~c)
  BY DEF Sound
<1>2. Reports(n, k, <<>>, live) /\ Asked(n, <<>>)
  BY NothingThere DEF Reports, Asked
<1>3. Answered(n, k, tc, <<>>, live)
  BY NothingThere DEF Answered
<1>4. Linked(n, k, tc, <<>>, live)
  BY <1>1, <1>2, <1>3, NothingThere DEF Linked
<1> QED
  BY <1>4 DEF Sound

\* The client closes its end.
LEMMA ClientLeaves ==
  ASSUME NEW s, NEW k, NEW tc, NEW ts, NEW c, Sound(s, k, tc, ts, c),
         NEW n \in ClientRecord, ClientSane(n), ~n.open
  PROVE  Sound(s, n, <<>>, ts, c)
<1> DEFINE live == s.open /\ n.open /\ ~c
<1>1. Linked(s, k, tc, ts, s.open /\ k.open /\ ~c)
  BY DEF Sound
<1>2. Reports(s, n, ts, live)
  BY <1>1 DEF Linked, Reports
<1>3. Given(n, <<>>)
  BY NothingThere DEF Given
<1>4. Answered(s, n, <<>>, ts, live)
  BY <1>1 DEF Linked, Answered
<1>5. Linked(s, n, <<>>, ts, live)
  BY <1>1, <1>2, <1>3, <1>4, NothingThere DEF Linked
<1> QED
  BY <1>5 DEF Sound

\* With nothing on its way the server sees what it knows.
LEMMA NothingSaid ==
  ASSUME NEW s \in ServerRecord, s.tdi.task \in Assigned(s) \cup {NoTask}
  PROVE  Views(s, <<>>, <<Now(s)>>) /\ Waits(s, <<>>, <<s.wait>>) /\ Asked(s, <<>>)
<1>1. <<Now(s)>>[1] = Now(s) /\ Now(s).tdi = s.tdi /\ <<s.wait>>[1] = s.wait
  BY DEF Now
<1>4. s.tdi \in Getting
  BY ServerRead
<1>2. Views(s, <<>>, <<Now(s)>>)
  BY <1>1, <1>4, NothingThere DEF Views
<1>3. Waits(s, <<>>, <<s.wait>>)
  BY <1>1, NothingThere, ServerRead DEF Waits
<1> QED
  BY <1>2, <1>3, NothingThere DEF Asked

\* The connection breaks.
LEMMA BreakSound ==
  ASSUME NEW s, NEW k, NEW tc, NEW ts, Sound(s, k, tc, ts, FALSE), s.open, k.open
  PROVE  Sound(s, k, <<>>, <<>>, TRUE)
<1> DEFINE live == s.open /\ k.open /\ ~TRUE
<1>1. Linked(s, k, tc, ts, s.open /\ k.open /\ ~FALSE)
  BY DEF Sound
<1>2. s \in ServerRecord /\ ts \in Seq(Packets)
  BY <1>1 DEF Linked
<1>3. PICK p : Views(s, ts, p)
  BY <1>1 DEF Linked, Reports
<1>4. s.tdi.task \in Assigned(s) \cup {NoTask}
  <2>1. p[1] = Now(s) /\ p[1].tdi = s.tdi
    BY <1>3 DEF Views, Now
  <2>2. 1 \in 1..(Len(ts) + 1)
    BY <1>2
  <2> QED
    BY <1>3, <2>1, <2>2 DEF Views
<1>5. Views(s, <<>>, <<Now(s)>>) /\ Waits(s, <<>>, <<s.wait>>) /\ Asked(s, <<>>)
  BY <1>2, <1>4, NothingSaid
<1>6. Reports(s, k, <<>>, live)
  BY <1>5 DEF Reports
<1>7. s.quit # 3
  BY <1>1 DEF Linked, Answered
<1>8. Answered(s, k, <<>>, <<>>, live)
  BY <1>5, <1>7, NothingThere DEF Answered
<1>9. Given(k, <<>>)
  BY NothingThere DEF Given
<1>10. Linked(s, k, <<>>, <<>>, live)
  BY <1>1, <1>5, <1>6, <1>8, <1>9, NothingThere DEF Linked
<1> QED
  BY <1>10 DEF Sound

\* A connection is set up.
LEMMA ConnectSound ==
  ASSUME NEW s, NEW k, NEW c, Sound(s, k, <<>>, <<>>, c), ~s.open, ~k.open, k.srec = 0,
         NEW r, r = Connected(s), NEW n, n = ServerHasNowAuthenticated(k)
  PROVE  Sound(r, n, <<>>, <<>>, FALSE)
<1>1. s \in ServerRecord /\ k \in ClientRecord /\ ServerSane(s) /\ ClientSane(k)
  BY DEF Sound, Linked
<1>2. /\ r \in ServerRecord /\ ServerSane(r) /\ r.open /\ r.auth = 1 /\ r.quit = 0
      /\ r.tri = NoTri /\ r.tdi = NoTdi /\ r.wait = <<>>
      /\ \A t \in Tasks : r.list[t] # "proc"
  BY <1>1, ConnectedSane
<1>3. k.open = FALSE
  BY <1>1, ClientRead
<1>4. n \in ClientRecord /\ ClientSane(n) /\ n.open /\ Own(n) = {}
  BY <1>1, <1>3, AuthenticatedSane
<1>5. n.tri = FreeTri /\ n.tdi = FreeTdi /\ n.send = <<>> /\ n.out = NowConnected
  BY <1>1, <1>3, AuthenticatedSane
<1>6. /\ FreeTri.task = NoTask /\ FreeTri.act = "None" /\ FreeTdi.act = "None"
      /\ NoTri.task = NoTask /\ NoTri.state = "None" /\ NoTdi.task = NoTask
      /\ NowConnected.cmd = "NowConnected"
  BY Saying DEF FreeTri, FreeTdi, NoTri, NoTdi
<1>7. Now(r) = Then(n)
  BY <1>2, <1>5, <1>6 DEF Now, Then
<1>8. Views(r, <<>>, <<Now(r)>>) /\ Waits(r, <<>>, <<r.wait>>) /\ Asked(r, <<>>)
  BY <1>2, <1>6, NothingSaid
<1>9. Reports(r, n, <<>>, TRUE)
  <2>1. <<Now(r)>>[Len(<<>>) + 1] = Then(n)
    BY <1>7
  <2> QED
    BY <1>8, <2>1 DEF Reports
<1>10. Answered(r, n, <<>>, <<>>, TRUE)
  <2>1. Owing(<<>>, <<>>)
    <3>1. 0 \in Nat /\ Len(<<>>) = 0 + Len(<<>>) /\ 1..0 = {} /\ 1..Len(<<>>) = {}
      OBVIOUS
    <3> QED
      BY <3>1 DEF Owing
  <2> DEFINE e == <<>>  q == <<e>>
  <2>2. q[1] = e /\ e \in Seq(Orders) /\ q[Len(<<>>) + 1] = q[1]
    OBVIOUS
  <2> HIDE DEF q
  <2>3. Owes(n, <<>>, q)
    BY <1>5, <2>1, <2>2, NothingThere DEF Owes
  <2>4. q[Len(<<>>) + 1] = <<r.wait>>[Len(<<>>) + 1]
    BY <1>2, <2>2
  <2>5. \E w, x : Waits(r, <<>>, w) /\ Owes(n, <<>>, x) /\ x[Len(<<>>) + 1] = w[Len(<<>>) + 1]
    BY <1>8, <2>3, <2>4
  <2>6. /\ r.quit # 3
        /\ \A i \in DOMAIN <<>> : FALSE
    BY <1>2, NothingThere
  <2> QED
    BY <2>5, <2>6 DEF Answered
<1>11. Given(n, <<>>) /\ InStep(r, n, <<>>, <<>>)
  <2>1. Given(n, <<>>)
    BY NothingThere DEF Given
  <2>2. Silent(<<>>)
    BY NothingThere DEF Silent
  <2>3. r.tri.state = "None" /\ n.tri.task = NoTask
    BY <1>2, <1>5, <1>6
  <2> QED
    BY <2>1, <2>2, <2>3 DEF InStep
<1>12. Located(r, n, <<>>, <<>>)
  <2>1. Has(n) = {}
    BY <1>4, <1>5, <1>6, OwnType
  <2>2. \A t \in Tasks : ~Leaving(r, <<>>, t) /\ ~Returning(<<>>, t)
    BY <1>2, <1>6, NothingThere DEF Leaving, Returning
  <2> QED
    BY <1>2, <2>1, <2>2 DEF Located
<1>13. Linked(r, n, <<>>, <<>>, TRUE)
  BY <1>2, <1>4, <1>8, <1>9, <1>10, <1>11, <1>12, NothingThere DEF Linked
<1>14. (r.open /\ n.open /\ ~FALSE) <=> TRUE
  BY <1>2, <1>4
<1> QED
  BY <1>2, <1>4, <1>13, <1>14 DEF Sound

----------------------------------------------------------------------------
(* What each end does for itself *)

\* More tasks are lent: what the server hears remains the same.
LEMMA LendingHeard ==
  ASSUME NEW s, NEW n, NEW k, NEW ts, NEW live, Reports(s, k, ts, live),
         n.open = s.open, Now(n) = Now(s), Assigned(s) \subseteq Assigned(n)
  PROVE  Reports(n, k, ts, live)
<1>1. \A p : Views(s, ts, p) => Views(n, ts, p)
  BY DEF Views
<1> QED
  BY <1>1 DEF Reports

\* The orders that wait are the same.
LEMMA WaitingHeard ==
  ASSUME NEW s, NEW n, NEW k, NEW tc, NEW ts, NEW live, Answered(s, k, tc, ts, live),
         n.open = s.open, n.wait = s.wait, n.quit = 3 => s.quit = 3
  PROVE  Answered(n, k, tc, ts, live)
<1>1. \A w : Waits(s, ts, w) => Waits(n, ts, w)
  BY DEF Waits
<1> QED
  BY <1>1 DEF Answered

\* A task is lent.
LEMMA LaunchSound ==
  ASSUME NEW s, NEW k, NEW tc, NEW ts, NEW c, Sound(s, k, tc, ts, c), s.open = TRUE,
         NEW t \in Tasks, s.list[t] = "todo", CanDoTask(s), NEW n, n = SendTaskToClient(s, t)
  PROVE  Sound(n, k, tc, ts, c)
<1> DEFINE live == s.open /\ k.open /\ ~c
<1>1. Linked(s, k, tc, ts, live) /\ s \in ServerRecord /\ ServerSane(s)
  BY DEF Sound, Linked
<1>2. s \in ServerRecord /\ ServerSane(s)
  BY <1>1
<1>10. n \in ServerRecord /\ ServerSane(n) /\ Lending(s, t, n)
  BY <1>2, LendingSane
<1>3. /\ n \in ServerRecord /\ ServerSane(n)
      /\ n.open = s.open /\ n.auth = s.auth /\ n.quit = s.quit /\ n.tdi = s.tdi
      /\ n.wait = s.wait
      /\ s.tri.state = "None" /\ n.tri.task = t /\ n.tri.state = "SendTaskRequest"
      /\ n.list[t] = "proc" /\ \A u \in Tasks : u # t => n.list[u] = s.list[u]
  BY <1>10 DEF Lending
<1>4. Reports(n, k, ts, live)
  <2>1. Now(n) = Now(s) /\ Assigned(s) \subseteq Assigned(n)
    BY <1>3 DEF Now, Assigned
  <2>2. Reports(s, k, ts, live)
    BY <1>1 DEF Linked
  <2> QED
    BY <1>3, <2>1, <2>2, LendingHeard
<1>5. Answered(n, k, tc, ts, live)
  <2>1. Answered(s, k, tc, ts, live)
    BY <1>1 DEF Linked
  <2> QED
    BY <1>3, <2>1, WaitingHeard
<1>6. Asked(n, ts)
  BY <1>1, <1>3 DEF Linked, Asked
<1>7. ASSUME live PROVE InStep(n, k, tc, ts) /\ Located(n, k, tc, ts)
  <2>1. InStep(s, k, tc, ts) /\ Located(s, k, tc, ts)
    BY <1>1, <1>7 DEF Linked
  <2>2. k.tri.task = NoTask /\ Silent(tc)
    BY <1>3, <2>1 DEF InStep
  <2>3. InStep(n, k, tc, ts)
    BY <1>3, <2>2 DEF InStep
  <2>4. ASSUME NEW u \in Tasks
        PROVE  /\ n.list[u] = "proc" <=> Leaving(n, tc, u) \/ u \in Has(k) \/ Returning(ts, u)
               /\ Leaving(n, tc, u) => u \notin Has(k) /\ ~Returning(ts, u)
               /\ Returning(ts, u) => u \notin Has(k)
    <3>1. /\ s.list[u] = "proc" <=> Leaving(s, tc, u) \/ u \in Has(k) \/ Returning(ts, u)
          /\ Leaving(s, tc, u) => u \notin Has(k) /\ ~Returning(ts, u)
          /\ Returning(ts, u) => u \notin Has(k)
      BY <2>1 DEF Located
    <3>2. CASE u = t
      <4>1. Leaving(n, tc, u)
        BY <1>3, <3>2 DEF Leaving
      <4> QED
        BY <1>3, <3>1, <3>2, <4>1
    <3>3. CASE u # t
      <4>1. Leaving(n, tc, u) <=> Leaving(s, tc, u)
        BY <1>3, <3>3 DEF Leaving
      <4> QED
        BY <1>3, <3>1, <3>3, <4>1
    <3> QED
      BY <3>2, <3>3
  <2>5. Located(n, k, tc, ts)
    BY <2>4 DEF Located
  <2> QED
    BY <2>3, <2>5
<1>8. Linked(n, k, tc, ts, live)
  BY <1>1, <1>3, <1>4, <1>5, <1>6, <1>7 DEF Linked
<1> QED
  BY <1>3, <1>8 DEF Sound

\* A command is queued.
LEMMA OrderSound ==
  ASSUME NEW s, NEW k, NEW tc, NEW ts, NEW c, Sound(s, k, tc, ts, c), s.open = TRUE,
         s.quit = 0,
         NEW x \in Orders, NEW n, n = SendControlRequest(s, x)
  PROVE  Sound(n, k, tc, ts, c)
<1>1. s \in ServerRecord /\ ServerSane(s)
  BY DEF Sound, Linked
<1>2. s \in ServerRecord /\ ServerSane(s)
  BY <1>1
<1>3. n \in ServerRecord /\ ServerSane(n) /\ Facing(s, n)
  BY <1>2, OrderingSane
<1> QED
  BY <1>3, ServerStays

\* The server gives its client up.
LEMMA ServerLostSound ==
  ASSUME NEW s, NEW k, NEW tc, NEW ts, NEW c, Sound(s, k, tc, ts, c),
         NEW w \in Ends, w # "protocol", NEW n, n = KickMe(s, w)
  PROVE  Sound(n, k, tc, <<>>, c)
<1>1. s \in ServerRecord
  BY DEF Sound, Linked
<1>2. n \in ServerRecord /\ ServerSane(n) /\ ~n.open /\ n.quit = 0
  BY <1>1, KickedSane
<1> QED
  BY <1>2, ServerLeaves

\* The client gives its server up.
LEMMA ClientLostSound ==
  ASSUME NEW s, NEW k, NEW tc, NEW ts, NEW c, Sound(s, k, tc, ts, c), k.open,
         NEW w \in Ends, w # "protocol", NEW n, n = ConnClose(k, w)
  PROVE  Sound(s, n, <<>>, ts, c)
<1>1. k \in ClientRecord /\ Managing(k)
  BY DEF Sound, Linked, ClientSane
<1>2. k.open = TRUE
  BY <1>1, ClientRead
<1>3. n \in ClientRecord /\ ClientSane(n) /\ ~n.open
  BY <1>1, <1>2, ConnCloseSane
<1> QED
  BY <1>3, ClientLeaves

\* A step of the client's own.
LEMMA OwnSound ==
  ASSUME NEW s, NEW k, NEW tc, NEW ts, NEW c, Sound(s, k, tc, ts, c), NEW n,
         \/ n = ScheduledSend(k) \/ n = TimerNotify(k) \/ n = Schedule(k)
         \/ k.todo # <<>> /\ n = JobStarted(k)
         \/ \E t \in k.proc : \E v \in {"ok", "failed"} : n = JobDone(k, t, v)
  PROVE  Sound(s, n, tc, ts, c)
<1>1. k \in ClientRecord /\ ClientSane(k)
  BY DEF Sound, Linked
<1>2. n \in ClientRecord /\ ClientSane(n) /\ Same(k, n)
  <2> DEFINE done == n \in ClientRecord /\ ClientSane(n) /\ Same(k, n)
  <2>1. CASE n = ScheduledSend(k)
    BY <1>1, <2>1, ScheduledSendSane
  <2>2. CASE n = TimerNotify(k)
    BY <1>1, <2>2, TimerNotifySane
  <2>3. CASE n = Schedule(k)
    BY <1>1, <2>3, ScheduleSane
  <2>4. CASE k.todo # <<>> /\ n = JobStarted(k)
    BY <1>1, <2>4, JobStartedSane
  <2>5. CASE \E t \in k.proc : \E v \in {"ok", "failed"} : n = JobDone(k, t, v)
    BY <1>1, <2>5, JobDoneSane
  <2> QED
    BY <2>1, <2>2, <2>3, <2>4, <2>5
<1> QED
  BY <1>2, ClientStays

----------------------------------------------------------------------------
(* One packet more in a channel *)

\* d is tc and p.
Longer(tc, p, d) ==
  /\ Len(d) = Len(tc) + 1 /\ DOMAIN d = 1..(Len(tc) + 1) /\ d[Len(tc) + 1] = p
  /\ \A i \in 1..Len(tc) : d[i] = tc[i]

\* A channel to which a packet is added.
LEMMA Extended ==
  ASSUME NEW S, NEW tc \in Seq(S), NEW p \in S, NEW d, d = Append(tc, p)
  PROVE  /\ d \in Seq(S) /\ Longer(tc, p, d) /\ Len(tc) \in Nat /\ DOMAIN tc = 1..Len(tc)
         /\ d # <<>>
<1>1. d \in Seq(S) /\ Len(d) = Len(tc) + 1 /\ Len(tc) \in Nat /\ DOMAIN tc = 1..Len(tc)
  OBVIOUS
<1>2. DOMAIN d = 1..Len(d) /\ d # <<>>
  BY <1>1
<1>3. d[Len(tc) + 1] = p /\ \A i \in 1..Len(tc) : d[i] = tc[i]
  BY AppendProperties
<1> QED
  BY <1>1, <1>2, <1>3 DEF Longer

\* The orders owed, and those that wait, with one packet more.
OwedThen(k, tc, p, d, q) ==
  \E r : /\ Owes(k, d, r)
         /\ p.cmd = "ControlRequest" => r[Len(d) + 1] = Append(q[Len(tc) + 1], p.what)
         /\ p.cmd # "ControlRequest" => r[Len(d) + 1] = q[Len(tc) + 1]

WaitThen(n, ts, w, x) ==
  \E v : Waits(n, ts, v) /\ v[Len(ts) + 1] = Append(w[Len(ts) + 1], x)

\* A packet more for the client: an order more to answer, if it is one.
LEMMA OwesMore ==
  ASSUME NEW k, NEW tc \in Seq(Packets), NEW p \in Packets, NEW d, d = Append(tc, p),
         NEW q, Owes(k, tc, q), p.cmd = "ControlRequest" => p.what \in Orders
  PROVE  OwedThen(k, tc, p, d, q)
<1> DEFINE n == Len(tc)
           x == IF p.cmd = "ControlRequest" THEN Append(q[n + 1], p.what) ELSE q[n + 1]
           r == [i \in 1..(n + 2) |-> IF i = n + 2 THEN x ELSE q[i]]
<1>1. n \in Nat /\ Len(d) = n + 1 /\ d[n + 1] = p /\ \A i \in 1..n : d[i] = tc[i]
  BY Extended DEF Longer
<1>2. \A i \in 1..(n + 1) : q[i] \in Seq(Orders)
  BY DEF Owes
<1>3. q[n + 1] \in Seq(Orders)
  BY <1>1, <1>2
<1>4. x \in Seq(Orders)
  BY <1>3
<1>5. \A i \in 1..(n + 1) : i \in 1..(n + 2) /\ i # n + 2
  BY <1>1
<1>6. \A i \in 1..(n + 1) : r[i] = q[i]
  BY <1>5
<1>7. r[n + 2] = x
  <2>1. n + 2 \in 1..(n + 2)
    BY <1>1
  <2> QED
    BY <2>1
<1> HIDE DEF r
<1>8. r[1] = q[1]
  BY <1>1, <1>6
<1>9. \A i \in 1..(n + 2) : r[i] \in Seq(Orders)
  <2>1. \A i \in 1..(n + 2) : i = n + 2 \/ i \in 1..(n + 1)
    BY <1>1
  <2> QED
    BY <2>1, <1>2, <1>4, <1>6, <1>7
<1>10. ASSUME NEW i \in 1..(n + 1)
       PROVE  r[i + 1] = IF d[i].cmd = "ControlRequest" THEN Append(r[i], d[i].what) ELSE r[i]
  <2>1. CASE i = n + 1
    <3>1. i + 1 = n + 2 /\ r[i] = q[n + 1] /\ d[i] = p
      BY <2>1, <1>1, <1>6
    <3> QED
      BY <3>1, <1>7
  <2>2. CASE i # n + 1
    <3>1. i \in 1..n /\ i + 1 \in 1..(n + 1)
      BY <2>2, <1>1
    <3>2. q[i + 1] = IF tc[i].cmd = "ControlRequest" THEN Append(q[i], tc[i].what) ELSE q[i]
      BY <3>1 DEF Owes
    <3>3. r[i + 1] = q[i + 1] /\ r[i] = q[i] /\ d[i] = tc[i]
      BY <3>1, <1>1, <1>6
    <3> QED
      BY <3>2, <3>3
  <2> QED
    BY <2>1, <2>2
<1>11. Len(d) = n + 1 /\ Len(d) + 1 = n + 2
  BY <1>1
<1> HIDE DEF n, x
<1>12. Owing(k.send, r[1])
  BY <1>8 DEF Owes
<1>13. Owes(k, d, r)
  BY <1>9, <1>10, <1>11, <1>12 DEF Owes
<1>14. r[Len(d) + 1] = x
  BY <1>7, <1>11
<1> QED
  BY <1>13, <1>14 DEF x, n, OwedThen

\* One order more that waits.
LEMMA WaitsMore ==
  ASSUME NEW s, NEW ts \in Seq(Packets), NEW w, Waits(s, ts, w), NEW x \in Orders,
         NEW n, n.wait = Append(s.wait, x)
  PROVE  WaitThen(n, ts, w, x)
<1> DEFINE l == Len(ts)
           v == [i \in 1..(l + 1) |-> Append(w[i], x)]
<1>1. l \in Nat
  OBVIOUS
<1>2. \A i \in 1..(l + 1) : v[i] = Append(w[i], x)
  OBVIOUS
<1> HIDE DEF v
<1>3. w[1] = s.wait /\ \A i \in 1..(l + 1) : w[i] \in Seq(Orders)
  BY DEF Waits
<1>4. ASSUME NEW i \in 1..(l + 1) PROVE v[i] \in Seq(Orders)
  <2>1. w[i] \in Seq(Orders) /\ v[i] = Append(w[i], x)
    BY <1>2, <1>3
  <2> DEFINE y == w[i]
  <2> HIDE DEF y
  <2>2. y \in Seq(Orders) => Append(y, x) \in Seq(Orders)
    OBVIOUS
  <2> QED
    BY <2>1, <2>2 DEF y
<1>5. v[1] = n.wait
  <2>1. 1 \in 1..(l + 1)
    BY <1>1
  <2> QED
    BY <2>1, <1>2, <1>3
<1>6. ASSUME NEW i \in 1..l
      PROVE  IF ts[i].cmd = "ControlResponse" /\ ts[i].what # NoMoreTasks
             THEN v[i] # <<>> /\ ts[i].what = Head(v[i]) /\ v[i + 1] = Tail(v[i])
             ELSE v[i + 1] = v[i]
  <2>1. i \in 1..(l + 1) /\ i + 1 \in 1..(l + 1)
    BY <1>1
  <2>2. IF ts[i].cmd = "ControlResponse" /\ ts[i].what # NoMoreTasks
        THEN w[i] # <<>> /\ ts[i].what = Head(w[i]) /\ w[i + 1] = Tail(w[i])
        ELSE w[i + 1] = w[i]
    BY DEF Waits
  <2>3. v[i] = Append(w[i], x) /\ v[i + 1] = Append(w[i + 1], x) /\ w[i] \in Seq(Orders)
    BY <2>1, <1>2, <1>3
  <2>4. w[i] # <<>> => /\ Append(w[i], x) # <<>> /\ Head(Append(w[i], x)) = Head(w[i])
                       /\ Tail(Append(w[i], x)) = Append(Tail(w[i]), x)
    <3> DEFINE y == w[i]
    <3>1. y \in Seq(Orders)
      BY <2>3
    <3> HIDE DEF y
    <3> SUFFICES y # <<>> => /\ Append(y, x) # <<>> /\ Head(Append(y, x)) = Head(y)
                             /\ Tail(Append(y, x)) = Append(Tail(y), x)
      BY DEF y
    <3> QED
      BY <3>1
  <2> QED
    BY <2>2, <2>3, <2>4
<1>7. Waits(n, ts, v)
  BY <1>4, <1>5, <1>6 DEF Waits
<1>8. l + 1 \in 1..(l + 1)
  BY <1>1
<1> QED
  BY <1>2, <1>7, <1>8 DEF WaitThen

\* A packet that is no order is written.
LEMMA AnsweredGiving ==
  ASSUME NEW s, NEW k, NEW tc \in Seq(Packets), NEW ts, NEW live,
         Answered(s, k, tc, ts, live), NEW p \in Packets, p.cmd # "ControlRequest",
         NEW n, n.open = s.open, n.wait = s.wait, n.quit = s.quit,
         NEW d, \/ d = Append(tc, p) \/ d = tc
  PROVE  Answered(n, k, d, ts, live)
<1>1. \A q : Owes(k, tc, q) => \E r : Owes(k, d, r) /\ r[Len(d) + 1] = q[Len(tc) + 1]
  <2>1. CASE d = Append(tc, p)
    <3> SUFFICES ASSUME NEW q, Owes(k, tc, q)
                 PROVE  \E r : Owes(k, d, r) /\ r[Len(d) + 1] = q[Len(tc) + 1]
      OBVIOUS
    <3>1. OwedThen(k, tc, p, d, q)
      BY <2>1, OwesMore
    <3> QED
      BY <3>1 DEF OwedThen
  <2>2. CASE d = tc
    BY <2>2
  <2> QED
    BY <2>1, <2>2
<1>2. Answered(s, k, d, ts, live)
  BY <1>1 DEF Answered
<1> QED
  BY <1>2, WaitingHeard

\* An order is written.
LEMMA AnsweredOrdering ==
  ASSUME NEW s, NEW k, NEW tc \in Seq(Packets), NEW ts \in Seq(Packets), NEW live,
         Answered(s, k, tc, ts, live), NEW p \in Packets, p.cmd = "ControlRequest",
         p.what \in Orders,
         NEW n, n.open = s.open, n.wait = Append(s.wait, p.what), n.quit = 3 => s.quit = 3,
         NEW d, \/ d = Append(tc, p)
                \/ d = tc /\ ~live
  PROVE  Answered(n, k, d, ts, live)
<1>1. ASSUME s.open
      PROVE  \E v : /\ Waits(n, ts, v)
                    /\ live => \E q : Owes(k, d, q) /\ q[Len(d) + 1] = v[Len(ts) + 1]
  <2>1. PICK w : /\ Waits(s, ts, w)
                 /\ live => \E q : Owes(k, tc, q) /\ q[Len(tc) + 1] = w[Len(ts) + 1]
    BY <1>1 DEF Answered
  <2>4. Waits(s, ts, w)
    BY <2>1
  <2>5. WaitThen(n, ts, w, p.what)
    BY <2>4, WaitsMore
  <2>2. PICK v : Waits(n, ts, v) /\ v[Len(ts) + 1] = Append(w[Len(ts) + 1], p.what)
    BY <2>5 DEF WaitThen
  <2>3. ASSUME live PROVE \E q : Owes(k, d, q) /\ q[Len(d) + 1] = v[Len(ts) + 1]
    <3>1. PICK q : Owes(k, tc, q) /\ q[Len(tc) + 1] = w[Len(ts) + 1]
      BY <2>1, <2>3
    <3>2. d = Append(tc, p)
      BY <2>3
    <3>4. Owes(k, tc, q)
      BY <3>1
    <3>5. OwedThen(k, tc, p, d, q)
      BY <3>2, <3>4, OwesMore
    <3>3. PICK r : Owes(k, d, r) /\ r[Len(d) + 1] = Append(q[Len(tc) + 1], p.what)
      BY <3>5 DEF OwedThen
    <3> QED
      BY <2>2, <3>1, <3>3
  <2> QED
    BY <2>2, <2>3
<1> QED
  BY <1>1 DEF Answered

\* What the client is given when the task comes.
LEMMA GivenTask ==
  ASSUME NEW k, NEW tc \in Seq(Packets), Given(k, tc), Silent(tc),
         k.tri.task = NoTask, k.tri.act # "FileRecvB",
         NEW p \in Packets, p.cmd = "TaskRequest", p.task \notin Own(k) \cup {NoTask},
         NEW d, d = Append(tc, p)
  PROVE  Given(k, d)
<1> DEFINE l == Len(tc)
<1>1. l \in Nat /\ DOMAIN tc = 1..l /\ Len(d) = l + 1 /\ DOMAIN d = 1..(l + 1)
      /\ d[l + 1] = p
  BY Extended DEF Longer
<1>2. \A i \in 1..l : d[i] = tc[i] /\ ~Gives(d[i])
  BY <1>1, Extended DEF Longer, Silent
<1>3. \A j \in 1..(l + 1) : Gives(d[j]) => j = l + 1
  <2>1. \A j \in 1..(l + 1) : j = l + 1 \/ j \in 1..l
    BY <1>1
  <2> QED
    BY <2>1, <1>2
<1>4. ASSUME NEW i \in 1..l
      PROVE  d[i].cmd = "ControlRequest" /\ d[i].what \in Orders
  BY <1>1, <1>2 DEF Given
<1>5. \A i \in 1..(l + 1) : i = l + 1 \/ i \in 1..l
  BY <1>1
<1> HIDE DEF l
<1> QED
  BY <1>1, <1>3, <1>4, <1>5 DEF Given, Gives

\* When the header of a file comes.
LEMMA GivenHeader ==
  ASSUME NEW k, NEW tc \in Seq(Packets), Given(k, tc), Silent(tc),
         k.tri.act = "FileRecvH", NEW p \in Packets, p.cmd = "FileDownload",
         p.task = k.tri.task, p.n = k.tri.n, NEW d, d = Append(tc, p)
  PROVE  Given(k, d)
<1> DEFINE l == Len(tc)
<1>1. l \in Nat /\ DOMAIN tc = 1..l /\ Len(d) = l + 1 /\ DOMAIN d = 1..(l + 1)
      /\ d[l + 1] = p
  BY Extended DEF Longer
<1>2. \A i \in 1..l : d[i] = tc[i] /\ ~Gives(d[i])
  BY <1>1, Extended DEF Longer, Silent
<1>3. \A j \in 1..(l + 1) : Gives(d[j]) => j = l + 1
  <2>1. \A j \in 1..(l + 1) : j = l + 1 \/ j \in 1..l
    BY <1>1
  <2> QED
    BY <2>1, <1>2
<1>4. ASSUME NEW i \in 1..l
      PROVE  d[i].cmd = "ControlRequest" /\ d[i].what \in Orders
  BY <1>1, <1>2 DEF Given
<1>5. \A i \in 1..(l + 1) : i = l + 1 \/ i \in 1..l
  BY <1>1
<1>6. ~(l + 1 < Len(d))
  BY <1>1
<1> HIDE DEF l
<1> QED
  BY <1>1, <1>3, <1>4, <1>5, <1>6 DEF Given, Gives

\* When a body comes whose header was read.
LEMMA GivenBody ==
  ASSUME NEW k, k.tri.act = "FileRecvB", NEW p \in Packets, p.cmd = "FileBody",
         NEW d, d = Append(<<>>, p)
  PROVE  Given(k, d)
<1>1. DOMAIN d = 1..1 /\ d[1] = p /\ Len(d) = 1
  OBVIOUS
<1>2. \A i \in 1..1 : i = 1
  OBVIOUS
<1> QED
  BY <1>1, <1>2 DEF Given, Gives

\* Headers and bodies that are on their way.
LEMMA LastHeader ==
  ASSUME NEW k, NEW tc \in Seq(Packets), Given(k, tc), tc # <<>>,
         tc[Len(tc)].cmd = "FileDownload"
  PROVE  \A i \in DOMAIN tc : Gives(tc[i]) => i = Len(tc)
<1> DEFINE l == Len(tc)
<1>1. l \in Nat /\ l \in DOMAIN tc /\ DOMAIN tc = 1..l
  <2>1. l \in Nat /\ DOMAIN tc = 1..l /\ l # 0
    OBVIOUS
  <2> QED
    BY <2>1
<1>2. \A j \in DOMAIN tc : Gives(tc[j]) => j \in {l, l + 1}
  BY <1>1 DEF Given
<1> QED
  BY <1>1, <1>2

\* When a body follows its header.
LEMMA GivenBodyToo ==
  ASSUME NEW k, NEW tc \in Seq(Packets), Given(k, tc), tc # <<>>,
         tc[Len(tc)].cmd = "FileDownload", k.tri.act = "FileRecvH",
         NEW p \in Packets, p.cmd = "FileBody", NEW d, d = Append(tc, p)
  PROVE  Given(k, d)
<1> DEFINE l == Len(tc)
<1>1. l \in Nat /\ DOMAIN tc = 1..l /\ Len(d) = l + 1 /\ DOMAIN d = 1..(l + 1)
      /\ d[l + 1] = p
  BY Extended DEF Longer
<1>2. \A i \in 1..l : d[i] = tc[i]
  BY <1>1, Extended DEF Longer
<1>3. \A i \in 1..l : Gives(tc[i]) => i = l
  BY <1>1, LastHeader
<1>4. l \in 1..l /\ l # 0
  <2>1. l # 0
    OBVIOUS
  <2> QED
    BY <1>1, <2>1
<1>5. \A j \in 1..(l + 1) : Gives(d[j]) => j \in {l, l + 1}
  <2>1. \A j \in 1..(l + 1) : j = l + 1 \/ j \in 1..l
    BY <1>1
  <2> QED
    BY <2>1, <1>2, <1>3
<1>6. d[l].cmd = "FileDownload" /\ d[l].task = k.tri.task /\ d[l].n = k.tri.n
  BY <1>1, <1>2, <1>4 DEF Given
<1>7. ASSUME NEW i \in 1..l, i # l
      PROVE  d[i].cmd = "ControlRequest" /\ d[i].what \in Orders
  <2>1. ~Gives(tc[i])
    BY <1>3, <1>7
  <2> QED
    BY <2>1, <1>1, <1>2 DEF Given
<1>12. l \in Nat
  BY <1>1
<1>8. ASSUME NEW i \in 1..(l + 1) PROVE i = l + 1 \/ i = l \/ (i \in 1..l /\ i # l)
  BY <1>12
<1>9. ~(l + 1 < Len(d)) /\ l + 1 # 1 /\ (l + 1) - 1 = l
  BY <1>1, <1>4
<1> HIDE DEF l
<1>10. ASSUME NEW i \in 1..(l + 1)
       PROVE
       /\ \/ Gives(d[i])
          \/ d[i].cmd = "ControlRequest" /\ d[i].what \in Orders
       /\ d[i].cmd = "TaskRequest" => FALSE
       /\ d[i].cmd = "FileDownload" => i = l
       /\ d[i].cmd = "FileBody" => i = l + 1
  BY <1>1, <1>6, <1>7, <1>8 DEF Gives
<1>11. ASSUME NEW i \in 1..(l + 1)
       PROVE
       /\ d[i].cmd = "FileDownload" =>
            /\ k.tri.act = "FileRecvH" /\ d[i].task = k.tri.task /\ d[i].n = k.tri.n
            /\ i < Len(d) => d[i + 1].cmd = "FileBody"
            /\ \A j \in DOMAIN d : Gives(d[j]) => j \in {i, i + 1}
       /\ d[i].cmd = "FileBody" =>
            IF i = 1 THEN k.tri.act = "FileRecvB" ELSE d[i - 1].cmd = "FileDownload"
  BY <1>1, <1>5, <1>6, <1>9, <1>10
<1> QED
  BY <1>1, <1>10, <1>11 DEF Given

\* When an order comes: never between a header and its body.
LEMMA GivenOrder ==
  ASSUME NEW k, NEW tc \in Seq(Packets), Given(k, tc),
         tc # <<>> => tc[Len(tc)].cmd # "FileDownload",
         k.tri.act = "FileRecvB" => tc # <<>>,
         NEW p \in Packets, p.cmd = "ControlRequest", p.what \in Orders,
         NEW d, d = Append(tc, p)
  PROVE  Given(k, d)
<1> DEFINE l == Len(tc)
<1>1. l \in Nat /\ DOMAIN tc = 1..l /\ Len(d) = l + 1 /\ DOMAIN d = 1..(l + 1)
      /\ d[l + 1] = p
  BY Extended DEF Longer
<1>2. \A i \in 1..l : d[i] = tc[i]
  BY <1>1, Extended DEF Longer
<1>3. tc # <<>> <=> l # 0
  OBVIOUS
<1>4. ~Gives(p)
  BY DEF Gives
<1>5. \A i \in 1..(l + 1) : Gives(d[i]) => i \in 1..l /\ Gives(tc[i])
  <2>1. \A i \in 1..(l + 1) : i = l + 1 \/ i \in 1..l
    BY <1>1
  <2> QED
    BY <2>1, <1>1, <1>2, <1>4
<1>6. \A i \in 1..l : tc[i].cmd = "FileDownload" => i < l
  <2> SUFFICES ASSUME NEW i \in 1..l, tc[i].cmd = "FileDownload" PROVE i < l
    OBVIOUS
  <2>1. i \in Nat /\ i <= l /\ l # 0
    BY <1>1
  <2>2. i # l
    BY <1>3, <2>1
  <2>3. l \in Nat
    BY <1>1
  <2> HIDE DEF l
  <2> QED
    BY <2>1, <2>2, <2>3
<1> HIDE DEF l
<1>7. ASSUME NEW i \in 1..l
      PROVE
       /\ \/ Gives(d[i])
          \/ d[i].cmd = "ControlRequest" /\ d[i].what \in Orders
       /\ d[i].cmd = "TaskRequest" =>
            /\ k.tri.task = NoTask /\ d[i].task \notin Own(k) \cup {NoTask}
            /\ \A j \in DOMAIN d : Gives(d[j]) => j = i
       /\ d[i].cmd = "FileDownload" =>
            /\ k.tri.act = "FileRecvH" /\ d[i].task = k.tri.task /\ d[i].n = k.tri.n
            /\ i < Len(d) => d[i + 1].cmd = "FileBody"
            /\ \A j \in DOMAIN d : Gives(d[j]) => j \in {i, i + 1}
       /\ d[i].cmd = "FileBody" =>
            IF i = 1 THEN k.tri.act = "FileRecvB" ELSE d[i - 1].cmd = "FileDownload"
  <2>1. d[i] = tc[i]
    BY <1>2
  <2>2. /\ \/ Gives(d[i])
           \/ d[i].cmd = "ControlRequest" /\ d[i].what \in Orders
        /\ d[i].cmd = "TaskRequest" =>
            /\ k.tri.task = NoTask /\ d[i].task \notin Own(k) \cup {NoTask}
            /\ \A j \in DOMAIN d : Gives(d[j]) => j = i
    BY <1>1, <1>5, <2>1 DEF Given
  <2>3. ASSUME d[i].cmd = "FileDownload"
        PROVE  /\ k.tri.act = "FileRecvH" /\ d[i].task = k.tri.task /\ d[i].n = k.tri.n
               /\ d[i + 1].cmd = "FileBody"
               /\ \A j \in DOMAIN d : Gives(d[j]) => j \in {i, i + 1}
    <3>1. i < l /\ l = Len(tc)
      BY <1>6, <2>1, <2>3 DEF l
    <3>2. tc[i + 1].cmd = "FileBody" /\ i + 1 \in 1..l
      BY <1>1, <2>1, <2>3, <3>1 DEF Given
    <3>3. d[i + 1].cmd = "FileBody"
      BY <1>2, <3>2
    <3>4. /\ k.tri.act = "FileRecvH" /\ d[i].task = k.tri.task /\ d[i].n = k.tri.n
          /\ \A j \in DOMAIN d : Gives(d[j]) => j \in {i, i + 1}
      BY <1>1, <1>5, <2>1, <2>3 DEF Given
    <3> QED
      BY <3>3, <3>4
  <2>4. ASSUME d[i].cmd = "FileBody"
        PROVE  IF i = 1 THEN k.tri.act = "FileRecvB" ELSE d[i - 1].cmd = "FileDownload"
    <3>1. IF i = 1 THEN k.tri.act = "FileRecvB" ELSE tc[i - 1].cmd = "FileDownload"
      BY <1>1, <2>1, <2>4 DEF Given
    <3>2. i # 1 => i - 1 \in 1..l
      BY <1>1
    <3> QED
      BY <3>1, <3>2, <1>2
  <2> QED
    BY <2>2, <2>3, <2>4
<1>8. \A i \in 1..(l + 1) : i = l + 1 \/ i \in 1..l
  BY <1>1
<1>9. k.tri.act = "FileRecvB" =>
        d[1].cmd = "FileBody" /\ \A j \in DOMAIN d : Gives(d[j]) => j = 1
  <2>1. k.tri.act = "FileRecvB" => 1 \in 1..l
    BY <1>1, <1>3
  <2> QED
    BY <2>1, <1>1, <1>2, <1>5 DEF Given
<1> QED
  BY <1>1, <1>7, <1>8, <1>9 DEF Given

----------------------------------------------------------------------------
(* The server writes *)

\* How far both are, state by state.
Underway(s, k, tc, ts) ==
  \/ /\ \E i \in DOMAIN tc : tc[i].cmd = "TaskRequest" /\ tc[i].task = s.tri.task
     /\ Quiet(ts)
  \/ /\ k.tri.task = s.tri.task /\ k.tri.act \in {"FileReq", "Complete", "Response"}
     /\ k.tri.resp = "Accepted" /\ Silent(tc) /\ Quiet(ts)
  \/ /\ k.tri.task = s.tri.task /\ k.tri.act = "FileRecvH" /\ Silent(tc)
     /\ \E i \in DOMAIN ts : ts[i].cmd = "FileRequest" /\ ts[i].n = k.tri.n
  \/ /\ k.tri.task = s.tri.task /\ k.tri.act \in {"FileRecvH", "FileRecvB"}
     /\ Comes(tc, "FileBody") /\ Quiet(ts)
  \/ k.tri.task = NoTask /\ Silent(tc) /\ Comes(ts, "TaskResponse")

\* How far both ends are, case by case as implications.
LEMMA InStepIs ==
  ASSUME NEW s \in ServerRecord, NEW k, NEW tc, NEW ts
  PROVE  InStep(s, k, tc, ts) <=>
           /\ s.tri.state \in {"None", "SendTaskRequest"} => k.tri.task = NoTask /\ Silent(tc)
           /\ s.tri.state = "WaitForResponse" => Underway(s, k, tc, ts)
           /\ s.tri.state = "SendFileDownloadH" =>
                /\ k.tri.task = s.tri.task /\ k.tri.act = "FileRecvH" /\ k.tri.n = s.tri.n
                /\ Silent(tc)
           /\ s.tri.state = "SendFileDownloadB" =>
                /\ k.tri.task = s.tri.task
                /\ \/ k.tri.act = "FileRecvB" /\ tc = <<>>
                   \/ /\ k.tri.act = "FileRecvH" /\ tc # <<>>
                      /\ tc[Len(tc)].cmd = "FileDownload"
<1> DEFINE a1 == k.tri.task = NoTask /\ Silent(tc)
           a2 == Underway(s, k, tc, ts)
           a3 == /\ k.tri.task = s.tri.task /\ k.tri.act = "FileRecvH" /\ k.tri.n = s.tri.n
                 /\ Silent(tc)
           a4 == /\ k.tri.task = s.tri.task
                 /\ \/ k.tri.act = "FileRecvB" /\ tc = <<>>
                    \/ /\ k.tri.act = "FileRecvH" /\ tc # <<>>
                       /\ tc[Len(tc)].cmd = "FileDownload"
           x == s.tri.state
<1>1. x \in {"None", "SendTaskRequest", "WaitForResponse", "SendFileDownloadH",
             "SendFileDownloadB"}
  BY ServerRead DEF Sending
<1>2. InStep(s, k, tc, ts) =
        CASE x \in {"None", "SendTaskRequest"} -> a1
          [] x = "WaitForResponse" -> a2
          [] x = "SendFileDownloadH" -> a3
          [] x = "SendFileDownloadB" -> a4
  BY DEF InStep, Underway
<1>3. a1 \in BOOLEAN /\ a2 \in BOOLEAN /\ a3 \in BOOLEAN /\ a4 \in BOOLEAN
  BY DEF Underway
<1> HIDE DEF a1, a2, a3, a4, x
<1>4. InStep(s, k, tc, ts) <=>
        /\ x \in {"None", "SendTaskRequest"} => a1
        /\ x = "WaitForResponse" => a2
        /\ x = "SendFileDownloadH" => a3
        /\ x = "SendFileDownloadB" => a4
  BY <1>1, <1>2, <1>3
<1> QED
  BY <1>4 DEF a1, a2, a3, a4, x

\* A packet that hands over a task: what of the invariant is to be shown.
LEMMA GiveSound ==
  ASSUME NEW s, NEW k, NEW tc, NEW ts, NEW c, Sound(s, k, tc, ts, c), s.open = TRUE,
         NEW m \in ServerRecord, ServerSane(m), Aside(s, m), NEW d \in Seq(Packets),
         Answered(m, k, d, ts, s.open /\ k.open /\ ~c), Asked(m, ts), Given(k, d),
         s.open /\ k.open /\ ~c => InStep(m, k, d, ts) /\ Located(m, k, d, ts),
         ~k.open \/ c => d = <<>>
  PROVE  Sound(m, k, d, ts, c)
<1> DEFINE live == s.open /\ k.open /\ ~c
<1>1. Linked(s, k, tc, ts, live)
  BY DEF Sound
<1>2. m.open = s.open /\ Now(m) = Now(s) /\ Assigned(m) = Assigned(s)
  BY DEF Aside, Now, Assigned
<1>3. Reports(m, k, ts, live)
  <2>1. Reports(s, k, ts, live)
    BY <1>1 DEF Linked
  <2> QED
    BY <1>2, <2>1, LendingHeard
<1>4. Linked(m, k, d, ts, live)
  BY <1>1, <1>3 DEF Linked
<1> QED
  BY <1>2, <1>4 DEF Sound

\* A client that receives no task.
LEMMA NotReceiving ==
  ASSUME NEW k \in ClientRecord, ClientSane(k), k.tri.task = NoTask
  PROVE  k.tri.act = "None" /\ k.tri.resp = "none"
<1>1. k.tri.resp \in {"none", "Accepted", "TooManyTasks"}
  BY ClientRead DEF Taking
<1>2. k.tri.resp = "none"
  BY <1>1 DEF ClientSane, Talking, Receiving
<1>3. k.tri = FreeTri
  BY <1>2 DEF ClientSane, Talking, Receiving
<1> QED
  BY <1>2, <1>3 DEF FreeTri

\* Nothing comes from the server but what is due.
LEMMA NothingAsked ==
  ASSUME NEW s, NEW ts, Asked(s, ts), s.tri.state # "WaitForResponse"
  PROVE  Quiet(ts) /\ \A n : Asked(n, ts)
  BY DEF Asked, Quiet

\* The request for a task has been written.
LEMMA TaskSound ==
  ASSUME NEW s, NEW k, NEW tc, NEW ts, NEW c, Sound(s, k, tc, ts, c), s.open = TRUE,
         s.out.cmd = "TaskRequest", NEW m, m = ServerSent(s),
         NEW d, \/ k.open /\ ~c /\ d = Append(tc, s.out)
                \/ (~k.open \/ c) /\ d = tc
  PROVE  m \in ServerRecord /\ ServerSane(m) /\ m.open /\ Sound(m, k, d, ts, c)
<1> DEFINE live == s.open /\ k.open /\ ~c
<1>1. /\ s \in ServerRecord /\ ServerSane(s) /\ k \in ClientRecord /\ ClientSane(k)
      /\ tc \in Seq(Packets) /\ ts \in Seq(Packets) /\ Asked(s, ts) /\ Given(k, tc)
      /\ Answered(s, k, tc, ts, live)
      /\ live => InStep(s, k, tc, ts) /\ Located(s, k, tc, ts)
      /\ ~k.open \/ c => tc = <<>>
  BY DEF Sound, Linked
<1>2. s.tri.state = "SendTaskRequest" /\ s.out.task = s.tri.task /\ s.tri.task \in Tasks
  <2>1. s.tri.state = "SendTaskRequest" /\ s.out = TaskRequest(s.tri.task)
    BY <1>1, ServerOutSays
  <2>2. s.tri.task \in Held /\ s.tri.task # NoTask
    BY <1>1, <2>1, ServerRead DEF Sending, ServerSane
  <2> QED
    BY <2>1, <2>2, Saying DEF Held
<1>3. s.out \in Packets
  BY <1>1, ServerRead
<1>4. /\ m \in ServerRecord /\ ServerSane(m) /\ Aside(s, m)
      /\ m.wait = s.wait /\ m.quit = s.quit
      /\ m.tri.task = s.tri.task /\ m.tri.state = "WaitForResponse"
  BY <1>1, GaveTask
<1>5. m.open = s.open
  BY <1>4 DEF Aside
<1>6. d \in Seq(Packets) /\ (d = Append(tc, s.out) \/ d = tc)
  BY <1>1, <1>3, Extended
<1>7. Answered(m, k, d, ts, live)
  BY <1>1, <1>3, <1>4, <1>5, <1>6, AnsweredGiving
<1>8. Quiet(ts) /\ Asked(m, ts)
  BY <1>1, <1>2, NothingAsked
<1>9. ASSUME live PROVE Given(k, d) /\ InStep(m, k, d, ts) /\ Located(m, k, d, ts)
  <2>1. d = Append(tc, s.out)
    BY <1>9
  <2>2. k.tri.task = NoTask /\ Silent(tc)
    BY <1>1, <1>2, <1>9, InStepIs
  <2>3. k.tri.act # "FileRecvB"
    BY <1>1, <2>2, NotReceiving
  <2>4. s.out.task \notin Own(k) \cup {NoTask}
    <3>1. Leaving(s, tc, s.tri.task)
      BY <1>2 DEF Leaving
    <3>2. s.tri.task \notin Has(k) /\ s.tri.task # NoTask
      BY <1>1, <1>2, <1>9, <3>1, Nothing DEF Located
    <3> QED
      BY <1>1, <1>2, <3>2, OwnType
  <2>5. Given(k, d)
    BY <1>1, <1>3, <2>1, <2>2, <2>3, <2>4, GivenTask
  <2>6. /\ Len(tc) \in Nat /\ DOMAIN tc = 1..Len(tc) /\ DOMAIN d = 1..(Len(tc) + 1)
        /\ d[Len(tc) + 1] = s.out /\ \A i \in 1..Len(tc) : d[i] = tc[i]
    BY <1>1, <1>3, <2>1, Extended DEF Longer
  <2>7. /\ Len(tc) + 1 \in DOMAIN d
        /\ \A i \in DOMAIN d : i = Len(tc) + 1 \/ i \in 1..Len(tc)
    BY <2>6
  <2>8. InStep(m, k, d, ts)
    <3>1. \E i \in DOMAIN d : d[i].cmd = "TaskRequest" /\ d[i].task = m.tri.task
      BY <1>2, <1>4, <2>6, <2>7
    <3> QED
      BY <1>4, <1>8, <3>1, InStepIs DEF Underway
  <2>9. \A t \in Tasks : Leaving(m, d, t) <=> Leaving(s, tc, t)
    <3>1. \A i \in 1..Len(tc) : tc[i].cmd # "TaskRequest"
      BY <2>2, <2>6 DEF Silent, Gives
    <3>2. ASSUME NEW t \in Tasks PROVE Leaving(s, tc, t) <=> t = s.tri.task
      BY <1>2, <2>6, <3>1 DEF Leaving
    <3>3. ASSUME NEW t \in Tasks PROVE Leaving(m, d, t) <=> t = s.tri.task
      <4>1. \A i \in DOMAIN d : d[i].cmd = "TaskRequest" => i = Len(tc) + 1
        BY <2>6, <2>7, <3>1
      <4>2. Leaving(m, d, t) <=> s.out.task = t
        BY <1>4, <2>6, <2>7, <4>1 DEF Leaving
      <4> QED
        BY <4>2, <1>2
    <3> QED
      BY <3>2, <3>3
  <2>10. Located(m, k, d, ts)
    BY <1>1, <1>4, <1>9, <2>9 DEF Located, Aside
  <2> QED
    BY <2>5, <2>8, <2>10
<1>10. Given(k, d) /\ (~k.open \/ c => d = <<>>)
  BY <1>1, <1>9
<1> QED
  BY <1>4, <1>5, <1>6, <1>7, <1>8, <1>9, <1>10, GiveSound

\* What was not a task request and no task of it remains so.
LEMMA LeavingStays ==
  ASSUME NEW s, NEW m, NEW tc \in Seq(Packets), NEW p \in Packets, p.cmd # "TaskRequest",
         NEW d, d = Append(tc, p) \/ d = tc, m.tri.task = s.tri.task,
         m.tri.state = "SendTaskRequest" <=> s.tri.state = "SendTaskRequest"
  PROVE  \A t : Leaving(m, d, t) <=> Leaving(s, tc, t)
<1>1. CASE d = tc
  BY <1>1 DEF Leaving
<1>2. CASE d = Append(tc, p)
  <2>1. /\ Len(tc) \in Nat /\ DOMAIN tc = 1..Len(tc) /\ DOMAIN d = 1..(Len(tc) + 1)
        /\ d[Len(tc) + 1] = p /\ \A i \in 1..Len(tc) : d[i] = tc[i]
    BY <1>2, Extended DEF Longer
  <2>2. /\ Len(tc) + 1 \in DOMAIN d
        /\ \A i \in DOMAIN d : i = Len(tc) + 1 \/ i \in 1..Len(tc)
        /\ \A i \in 1..Len(tc) : i \in DOMAIN d
    BY <2>1
  <2>3. \A t : (\E i \in DOMAIN d : d[i].cmd = "TaskRequest" /\ d[i].task = t)
                 <=> (\E i \in DOMAIN tc : tc[i].cmd = "TaskRequest" /\ tc[i].task = t)
    BY <2>1, <2>2
  <2> QED
    BY <2>3 DEF Leaving
<1> QED
  BY <1>1, <1>2

\* Tasks stay where they were when none leaves or returns.
LEMMA LocatedStays ==
  ASSUME NEW s, NEW m, NEW k, NEW tc, NEW d, NEW ts, Located(s, k, tc, ts),
         m.list = s.list, \A t : Leaving(m, d, t) <=> Leaving(s, tc, t)
  PROVE  Located(m, k, d, ts)
BY DEF Located

\* The header of a file is written.
LEMMA HeaderSound ==
  ASSUME NEW s, NEW k, NEW tc, NEW ts, NEW c, Sound(s, k, tc, ts, c), s.open = TRUE,
         s.out.cmd = "FileDownload", NEW m, m = ServerSent(s),
         NEW d, \/ k.open /\ ~c /\ d = Append(tc, s.out)
                \/ (~k.open \/ c) /\ d = tc
  PROVE  m \in ServerRecord /\ ServerSane(m) /\ m.open /\ Sound(m, k, d, ts, c)
<1> DEFINE live == s.open /\ k.open /\ ~c
<1>1. /\ s \in ServerRecord /\ ServerSane(s) /\ k \in ClientRecord /\ ClientSane(k)
      /\ tc \in Seq(Packets) /\ ts \in Seq(Packets) /\ Asked(s, ts) /\ Given(k, tc)
      /\ Answered(s, k, tc, ts, live)
      /\ live => InStep(s, k, tc, ts) /\ Located(s, k, tc, ts)
      /\ ~k.open \/ c => tc = <<>>
  BY DEF Sound, Linked
<1>2. s.tri.state = "SendFileDownloadH" /\ s.out.task = s.tri.task /\ s.out.n = s.tri.n
  <2>1. s.tri.state = "SendFileDownloadH" /\ s.out = FileDownload(s.tri.task, s.tri.n)
    BY <1>1, ServerOutSays
  <2> QED
    BY <2>1, Saying
<1>3. s.out \in Packets
  BY <1>1, ServerRead
<1>4. /\ m \in ServerRecord /\ ServerSane(m) /\ Aside(s, m)
      /\ m.wait = s.wait /\ m.quit = s.quit
      /\ m.tri.task = s.tri.task /\ m.tri.state = "SendFileDownloadB"
  BY <1>1, GaveHeader
<1>5. m.open = s.open
  BY <1>4 DEF Aside
<1>6. d \in Seq(Packets) /\ (d = Append(tc, s.out) \/ d = tc)
  BY <1>1, <1>3, Extended
<1>7. Answered(m, k, d, ts, live)
  BY <1>1, <1>3, <1>4, <1>5, <1>6, AnsweredGiving
<1>8. Asked(m, ts)
  BY <1>1, <1>2, NothingAsked
<1>9. ASSUME live PROVE Given(k, d) /\ InStep(m, k, d, ts) /\ Located(m, k, d, ts)
  <2>1. d = Append(tc, s.out)
    BY <1>9
  <2>2. /\ k.tri.task = s.tri.task /\ k.tri.act = "FileRecvH" /\ k.tri.n = s.tri.n
        /\ Silent(tc)
    BY <1>1, <1>2, <1>9, InStepIs
  <2>3. Given(k, d)
    BY <1>1, <1>2, <1>3, <2>1, <2>2, GivenHeader
  <2>4. d # <<>> /\ d[Len(d)] = s.out
    BY <1>1, <1>3, <2>1, Extended DEF Longer
  <2>5. InStep(m, k, d, ts)
    BY <1>4, <2>2, <2>4, InStepIs
  <2>6. \A t : Leaving(m, d, t) <=> Leaving(s, tc, t)
    BY <1>1, <1>2, <1>3, <1>4, <1>6, LeavingStays
  <2>7. Located(m, k, d, ts)
    BY <1>1, <1>4, <1>9, <2>6, LocatedStays DEF Aside
  <2> QED
    BY <2>3, <2>5, <2>7
<1>10. Given(k, d) /\ (~k.open \/ c => d = <<>>)
  BY <1>1, <1>9
<1> QED
  BY <1>4, <1>5, <1>6, <1>7, <1>8, <1>9, <1>10, GiveSound

\* Its body is written.
LEMMA BodySound ==
  ASSUME NEW s, NEW k, NEW tc, NEW ts, NEW c, Sound(s, k, tc, ts, c), s.open = TRUE,
         s.out.cmd = "FileBody", NEW m, m = ServerSent(s),
         NEW d, \/ k.open /\ ~c /\ d = Append(tc, s.out)
                \/ (~k.open \/ c) /\ d = tc
  PROVE  m \in ServerRecord /\ ServerSane(m) /\ m.open /\ Sound(m, k, d, ts, c)
<1> DEFINE live == s.open /\ k.open /\ ~c
<1>1. /\ s \in ServerRecord /\ ServerSane(s) /\ k \in ClientRecord /\ ClientSane(k)
      /\ tc \in Seq(Packets) /\ ts \in Seq(Packets) /\ Asked(s, ts) /\ Given(k, tc)
      /\ Answered(s, k, tc, ts, live)
      /\ live => InStep(s, k, tc, ts) /\ Located(s, k, tc, ts)
      /\ ~k.open \/ c => tc = <<>>
  BY DEF Sound, Linked
<1>2. s.tri.state = "SendFileDownloadB"
  BY <1>1, ServerOutSays
<1>3. s.out \in Packets
  BY <1>1, ServerRead
<1>4. /\ m \in ServerRecord /\ ServerSane(m) /\ Aside(s, m)
      /\ m.wait = s.wait /\ m.quit = s.quit
      /\ m.tri.task = s.tri.task /\ m.tri.state = "WaitForResponse"
  BY <1>1, GaveBody
<1>5. m.open = s.open
  BY <1>4 DEF Aside
<1>6. d \in Seq(Packets) /\ (d = Append(tc, s.out) \/ d = tc)
  BY <1>1, <1>3, Extended
<1>7. Answered(m, k, d, ts, live)
  BY <1>1, <1>3, <1>4, <1>5, <1>6, AnsweredGiving
<1>8. Quiet(ts) /\ Asked(m, ts)
  BY <1>1, <1>2, NothingAsked
<1>9. ASSUME live PROVE Given(k, d) /\ InStep(m, k, d, ts) /\ Located(m, k, d, ts)
  <2>1. d = Append(tc, s.out)
    BY <1>9
  <2>2. /\ k.tri.task = s.tri.task
        /\ \/ k.tri.act = "FileRecvB" /\ tc = <<>>
           \/ /\ k.tri.act = "FileRecvH" /\ tc # <<>>
              /\ tc[Len(tc)].cmd = "FileDownload"
    BY <1>1, <1>2, <1>9, InStepIs
  <2>3. Given(k, d)
    <3>1. CASE k.tri.act = "FileRecvB" /\ tc = <<>>
      BY <1>3, <2>1, <3>1, GivenBody
    <3>2. CASE k.tri.act = "FileRecvH" /\ tc # <<>> /\ tc[Len(tc)].cmd = "FileDownload"
      BY <1>1, <1>3, <2>1, <3>2, GivenBodyToo
    <3> QED
      BY <2>2, <3>1, <3>2
  <2>4. Comes(d, "FileBody")
    <3>1. /\ DOMAIN d = 1..(Len(tc) + 1) /\ d[Len(tc) + 1] = s.out /\ Len(tc) \in Nat
      BY <1>1, <1>3, <2>1, Extended DEF Longer
    <3>2. Len(tc) + 1 \in DOMAIN d
      BY <3>1
    <3> QED
      BY <3>1, <3>2 DEF Comes
  <2>5. InStep(m, k, d, ts)
    BY <1>4, <1>8, <2>2, <2>4, InStepIs DEF Underway
  <2>6. \A t : Leaving(m, d, t) <=> Leaving(s, tc, t)
    BY <1>1, <1>2, <1>3, <1>4, <1>6, LeavingStays
  <2>7. Located(m, k, d, ts)
    BY <1>1, <1>4, <1>9, <2>6, LocatedStays DEF Aside
  <2> QED
    BY <2>3, <2>5, <2>7
<1>10. Given(k, d) /\ (~k.open \/ c => d = <<>>)
  BY <1>1, <1>9
<1> QED
  BY <1>4, <1>5, <1>6, <1>7, <1>8, <1>9, <1>10, GiveSound

\* No body is due when the server may write an order.
LEMMA NoBodyDue ==
  ASSUME NEW s \in ServerRecord, NEW k \in ClientRecord, NEW tc \in Seq(Packets), NEW ts,
         ClientSane(k), Given(k, tc), InStep(s, k, tc, ts),
         s.tri.state # "SendFileDownloadB"
  PROVE  /\ tc # <<>> => tc[Len(tc)].cmd # "FileDownload"
         /\ k.tri.act = "FileRecvB" => tc # <<>>
<1>1. s.tri.state \in {"None", "SendTaskRequest", "WaitForResponse", "SendFileDownloadH"}
  BY ServerRead DEF Sending
<1>2. \/ k.tri.task = NoTask /\ Silent(tc)
      \/ Underway(s, k, tc, ts)
      \/ k.tri.act = "FileRecvH" /\ Silent(tc)
  BY <1>1, InStepIs
<1>3. tc # <<>> => Len(tc) \in DOMAIN tc /\ DOMAIN tc = 1..Len(tc)
  OBVIOUS
<1>4. ASSUME tc # <<>>, tc[Len(tc)].cmd = "FileDownload" PROVE FALSE
  <2>1. \A i \in DOMAIN tc : Gives(tc[i]) => i = Len(tc)
    BY <1>4, LastHeader
  <2>2. ~Silent(tc)
    BY <1>3, <1>4 DEF Silent, Gives
  <2>3. \A i \in DOMAIN tc : tc[i].cmd \notin {"TaskRequest", "FileBody"}
    BY <1>4, <2>1 DEF Gives
  <2>4. ~Comes(tc, "FileBody")
    BY <2>3 DEF Comes
  <2> QED
    BY <1>2, <2>2, <2>3, <2>4 DEF Underway
<1>5. ASSUME k.tri.act = "FileRecvB", tc = <<>> PROVE FALSE
  <2>1. k.tri.task # NoTask
    BY <1>5, NotReceiving
  <2>2. DOMAIN tc = {}
    BY <1>5
  <2>3. ~Comes(tc, "FileBody") /\ ~\E i \in DOMAIN tc : tc[i].cmd = "TaskRequest"
    BY <2>2 DEF Comes
  <2> QED
    BY <1>2, <1>5, <2>1, <2>3 DEF Underway
<1> QED
  BY <1>4, <1>5

\* An order is written.
LEMMA OrderWritten ==
  ASSUME NEW s, NEW k, NEW tc, NEW ts, NEW c, Sound(s, k, tc, ts, c), s.open = TRUE,
         s.out.cmd = "ControlRequest", NEW m, m = ServerSent(s),
         NEW d, \/ k.open /\ ~c /\ d = Append(tc, s.out)
                \/ (~k.open \/ c) /\ d = tc
  PROVE  m \in ServerRecord /\ ServerSane(m) /\ m.open /\ Sound(m, k, d, ts, c)
<1> DEFINE live == s.open /\ k.open /\ ~c
<1>1. /\ s \in ServerRecord /\ ServerSane(s) /\ k \in ClientRecord /\ ClientSane(k)
      /\ tc \in Seq(Packets) /\ ts \in Seq(Packets) /\ Asked(s, ts) /\ Given(k, tc)
      /\ Answered(s, k, tc, ts, live)
      /\ live => InStep(s, k, tc, ts) /\ Located(s, k, tc, ts)
      /\ ~k.open \/ c => tc = <<>>
  BY DEF Sound, Linked
<1>2. s.tri.state # "SendFileDownloadB"
  <2>1. ~s.lock
    BY <1>1, ServerOutSays
  <2> QED
    BY <1>1, <2>1 DEF ServerSane, ServerOut
<1>3. s.out \in Packets
  BY <1>1, ServerRead
<1>4. /\ m \in ServerRecord /\ ServerSane(m) /\ Aside(s, m) /\ m.tri = s.tri
      /\ s.out.what \in Orders /\ m.wait = Append(s.wait, s.out.what)
      /\ m.quit = 3 => s.quit = 3
  BY <1>1, GaveOrder
<1>5. m.open = s.open
  BY <1>4 DEF Aside
<1>6. d \in Seq(Packets) /\ (d = Append(tc, s.out) \/ d = tc)
  BY <1>1, <1>3, Extended
<1>7. Answered(m, k, d, ts, live)
  <2>1. d = Append(tc, s.out) \/ (d = tc /\ ~live)
    BY <1>6
  <2> QED
    BY <1>1, <1>3, <1>4, <1>5, <2>1, AnsweredOrdering
<1>8. Asked(m, ts)
  BY <1>1, <1>4 DEF Asked
<1>9. ASSUME live PROVE Given(k, d) /\ InStep(m, k, d, ts) /\ Located(m, k, d, ts)
  <2>1. d = Append(tc, s.out)
    BY <1>9
  <2>2. /\ tc # <<>> => tc[Len(tc)].cmd # "FileDownload"
        /\ k.tri.act = "FileRecvB" => tc # <<>>
    BY <1>1, <1>2, <1>9, NoBodyDue
  <2>3. Given(k, d)
    BY <1>1, <1>3, <1>4, <2>1, <2>2, GivenOrder
  <2>4. /\ Len(tc) \in Nat /\ DOMAIN tc = 1..Len(tc) /\ DOMAIN d = 1..(Len(tc) + 1)
        /\ d[Len(tc) + 1] = s.out /\ \A i \in 1..Len(tc) : d[i] = tc[i]
    BY <1>1, <1>3, <2>1, Extended DEF Longer
  <2>5. /\ \A i \in DOMAIN d : i = Len(tc) + 1 \/ i \in DOMAIN tc
        /\ \A i \in DOMAIN tc : i \in DOMAIN d /\ d[i] = tc[i]
    BY <2>4
  <2>6. /\ Silent(tc) => Silent(d)
        /\ Comes(tc, "FileBody") => Comes(d, "FileBody")
        /\ \A t : (\E i \in DOMAIN tc : tc[i].cmd = "TaskRequest" /\ tc[i].task = t)
             => \E i \in DOMAIN d : d[i].cmd = "TaskRequest" /\ d[i].task = t
    BY <2>4, <2>5 DEF Silent, Gives, Comes
  <2>7. InStep(m, k, d, ts)
    <3>1. /\ s.tri.state \in {"None", "SendTaskRequest"} => k.tri.task = NoTask /\ Silent(tc)
          /\ s.tri.state = "WaitForResponse" => Underway(s, k, tc, ts)
          /\ s.tri.state = "SendFileDownloadH" =>
               /\ k.tri.task = s.tri.task /\ k.tri.act = "FileRecvH" /\ k.tri.n = s.tri.n
               /\ Silent(tc)
      BY <1>1, <1>9, InStepIs
    <3>2. Underway(s, k, tc, ts) => Underway(m, k, d, ts)
      <4>1. m.tri.task = s.tri.task
        BY <1>4
      <4>2. (\E i \in DOMAIN tc : tc[i].cmd = "TaskRequest" /\ tc[i].task = s.tri.task)
              => \E i \in DOMAIN d : d[i].cmd = "TaskRequest" /\ d[i].task = s.tri.task
        BY <2>6
      <4>3. (Silent(tc) => Silent(d)) /\ (Comes(tc, "FileBody") => Comes(d, "FileBody"))
        BY <2>6
      <4> QED
        BY <4>1, <4>2, <4>3 DEF Underway
    <3> QED
      BY <1>2, <1>4, <2>6, <3>1, <3>2, InStepIs
  <2>8. \A t : Leaving(m, d, t) <=> Leaving(s, tc, t)
    BY <1>1, <1>3, <1>4, <1>6, LeavingStays
  <2>9. Located(m, k, d, ts)
    BY <1>1, <1>4, <1>9, <2>8, LocatedStays DEF Aside
  <2> QED
    BY <2>3, <2>7, <2>9
<1>10. Given(k, d) /\ (~k.open \/ c => d = <<>>)
  BY <1>1, <1>9
<1> QED
  BY <1>4, <1>5, <1>6, <1>7, <1>8, <1>9, <1>10, GiveSound

\* Whatever the server writes, and what it goes on to.
LEMMA ServerWritesSound ==
  ASSUME NEW s, NEW k, NEW tc, NEW ts, NEW c, Sound(s, k, tc, ts, c), s.open = TRUE,
         s.out # NoPacket, NEW n, n = ServerSends(ServerSent(s)),
         NEW d, \/ k.open /\ ~c /\ d = Append(tc, s.out)
                \/ (~k.open \/ c) /\ d = tc
  PROVE  Sound(n, k, d, ts, c) /\ n.tes = s.tes
<1> DEFINE m == ServerSent(s)
<1>1. m = ServerSent(s) /\ n = ServerSends(m)
  OBVIOUS
<1> HIDE DEF m
<1>2. s \in ServerRecord /\ ServerSane(s)
  BY DEF Sound, Linked
<1>3. s.out.cmd \in {"TaskRequest", "FileDownload", "FileBody", "ControlRequest"}
  BY <1>2, ServerOutSays
<1>4. m \in ServerRecord /\ ServerSane(m) /\ m.open /\ Sound(m, k, d, ts, c)
  <2>1. CASE s.out.cmd = "TaskRequest"
    BY <1>1, <2>1, TaskSound
  <2>2. CASE s.out.cmd = "FileDownload"
    BY <1>1, <2>2, HeaderSound
  <2>3. CASE s.out.cmd = "FileBody"
    BY <1>1, <2>3, BodySound
  <2>4. CASE s.out.cmd = "ControlRequest"
    BY <1>1, <2>4, OrderWritten
  <2> QED
    BY <1>3, <2>1, <2>2, <2>3, <2>4
<1>5. m.tes = s.tes
  BY <1>1, <1>2, <1>3, GaveTask, GaveHeader, GaveBody, GaveOrder DEF Aside
<1>9. m.open = TRUE
  BY <1>4, ServerRead
<1>6. n \in ServerRecord /\ ServerSane(n) /\ Kept(m, n)
  BY <1>1, <1>4, <1>9, ServerSendsSane
<1>7. Facing(m, n)
  BY <1>6 DEF Kept, Facing
<1>8. Sound(n, k, d, ts, c)
  BY <1>4, <1>6, <1>7, ServerStays
<1> QED
  BY <1>5, <1>6, <1>8 DEF Kept

----------------------------------------------------------------------------
(* The server reads *)

\* ts is p and r.
Shorter(ts, p, r) ==
  /\ Len(ts) = Len(r) + 1 /\ DOMAIN ts = 1..(Len(r) + 1) /\ DOMAIN r = 1..Len(r)
  /\ ts[1] = p /\ \A i \in 1..Len(r) : r[i] = ts[i + 1]
  /\ Len(r) \in Nat

\* A channel from which a packet is read.
LEMMA Shortened ==
  ASSUME NEW S, NEW ts \in Seq(S), ts # <<>>, NEW p, p = Head(ts), NEW r, r = Tail(ts)
  PROVE  /\ p \in S /\ r \in Seq(S) /\ Shorter(ts, p, r)
<1>1. /\ p \in S /\ r \in Seq(S) /\ Len(r) = Len(ts) - 1 /\ p = ts[1]
      /\ \A i \in 1..(Len(ts) - 1) : r[i] = ts[i + 1]
  BY Popped
<1>2. Len(ts) \in Nat /\ Len(r) \in Nat /\ DOMAIN ts = 1..Len(ts) /\ DOMAIN r = 1..Len(r)
  BY <1>1
<1> QED
  BY <1>1, <1>2 DEF Shorter

\* Hearing depends on the report and the greeting.
LEMMA HearsSame ==
  ASSUME NEW x, NEW z, NEW p, NEW y, Hears(x, p, y), z.tdi = x.tdi, z.auth = x.auth
  PROVE  Hears(z, p, y)
BY DEF Hears

\* The first packet is read: what comes then is heard as before.
LEMMA ReadReports ==
  ASSUME NEW s, NEW k, NEW ts \in Seq(Packets), ts # <<>>, NEW live,
         NEW v, Views(s, ts, v), live => v[Len(ts) + 1] = Then(k),
         NEW r, r = Tail(ts), NEW m \in ServerRecord, m.tdi = v[2].tdi, m.auth = v[2].auth,
         \A j \in 2..(Len(ts) + 1) : v[j].tdi.task \in Assigned(m) \cup {NoTask}
  PROVE  Reports(m, k, r, live)
<1> DEFINE l == Len(r)
           u == [i \in 1..(l + 1) |-> IF i = 1 THEN Now(m) ELSE v[i + 1]]
<1>1. /\ r \in Seq(Packets) /\ l \in Nat /\ Len(ts) = l + 1
      /\ \A i \in 1..l : r[i] = ts[i + 1]
  BY Shortened DEF Shorter
<1>2. \A i \in 1..(l + 1) : u[i] = IF i = 1 THEN Now(m) ELSE v[i + 1]
  OBVIOUS
<1> HIDE DEF u
<1>3. 1 \in 1..(l + 1)
  BY <1>1
<1>4. u[1] = Now(m)
  BY <1>2, <1>3
<1>5. ASSUME NEW i \in 1..(l + 1) PROVE u[i].tdi = v[i + 1].tdi /\ u[i].auth = v[i + 1].auth
  <2>1. CASE i = 1
    <3>1. i + 1 = 2 /\ u[i] = Now(m)
      BY <2>1, <1>4
    <3>2. Now(m).tdi = m.tdi /\ Now(m).auth = m.auth
      BY DEF Now
    <3> QED
      BY <3>1, <3>2
  <2>2. CASE i # 1
    BY <2>2, <1>2
  <2> QED
    BY <2>1, <2>2
<1>6. ASSUME NEW i \in 1..l PROVE Hears(u[i], r[i], u[i + 1])
  <2>1. i \in 1..(l + 1) /\ i + 1 \in 1..(l + 1) /\ i + 1 # 1 /\ i + 1 \in 1..Len(ts)
    BY <1>1
  <2>2. u[i + 1] = v[(i + 1) + 1] /\ r[i] = ts[i + 1]
    BY <2>1, <1>1, <1>2
  <2>3. Hears(v[i + 1], ts[i + 1], v[(i + 1) + 1])
    BY <2>1 DEF Views
  <2>4. u[i].tdi = v[i + 1].tdi /\ u[i].auth = v[i + 1].auth
    BY <2>1, <1>5
  <2> QED
    BY <2>2, <2>3, <2>4, HearsSame
<1>7. ASSUME NEW i \in 1..(l + 1)
      PROVE  u[i].tdi \in Getting /\ u[i].tdi.task \in Assigned(m) \cup {NoTask}
  <2>1. i + 1 \in 2..(Len(ts) + 1) /\ i + 1 \in 1..(Len(ts) + 1)
    BY <1>1
  <2>2. v[i + 1].tdi \in Getting
    BY <2>1 DEF Views
  <2>3. u[i].tdi = v[i + 1].tdi
    BY <1>5
  <2> QED
    BY <2>1, <2>2, <2>3
<1>8. ASSUME NEW i \in 1..l, r[i].cmd = "DoneComplete", NEW j \in (i + 1)..(l + 1)
      PROVE  u[j].tdi.task # r[i].task
  <2>1. i + 1 \in 1..Len(ts) /\ j + 1 \in ((i + 1) + 1)..(Len(ts) + 1) /\ j \in 1..(l + 1)
    BY <1>1
  <2>2. r[i] = ts[i + 1]
    BY <1>1
  <2>3. v[j + 1].tdi.task # r[i].task
    BY <1>8, <2>1, <2>2 DEF Views
  <2>4. u[j].tdi = v[j + 1].tdi
    BY <2>1, <1>5
  <2> QED
    BY <2>3, <2>4
<1>9. Views(m, r, u)
  BY <1>4, <1>6, <1>7, <1>8 DEF Views
<1>10. ASSUME live PROVE u[Len(r) + 1] = Then(k)
  <2>1. v[l + 2] = Then(k)
    <3>1. Len(ts) + 1 = l + 2
      BY <1>1
    <3> QED
      BY <1>10, <3>1
  <2>2. l + 1 \in 1..(l + 1)
    BY <1>1
  <2>3. CASE l + 1 = 1
    <3>1. u[l + 1] = Now(m) /\ v[2] = Then(k)
      BY <2>1, <2>3, <1>1, <1>4
    <3>2. Now(m) = Then(k)
      <4>1. m.tdi = Then(k).tdi /\ m.auth = Then(k).auth
        BY <3>1
      <4> QED
        BY <4>1 DEF Now, Then
    <3> QED
      BY <3>1, <3>2
  <2>4. CASE l + 1 # 1
    <3>1. u[l + 1] = v[(l + 1) + 1] /\ (l + 1) + 1 = l + 2
      BY <2>2, <2>4, <1>1, <1>2
    <3> QED
      BY <2>1, <3>1
  <2> QED
    BY <2>3, <2>4
<1> QED
  BY <1>9, <1>10 DEF Reports

\* The answers that come then are those the rest of the orders wait for.
LEMMA ReadAnswers ==
  ASSUME NEW s, NEW k, NEW tc, NEW ts \in Seq(Packets), ts # <<>>, NEW live,
         Answered(s, k, tc, ts, live), s.open = TRUE, NEW p, p = Head(ts),
         NEW r, r = Tail(ts), NEW m,
         m.wait = IF p.cmd = "ControlResponse" /\ p.what # NoMoreTasks
                  THEN Tail(s.wait) ELSE s.wait,
         m.quit = 3 => p.cmd = "ControlResponse" /\ p.what = "ClientQuit"
  PROVE  Answered(m, k, tc, r, live)
<1> DEFINE l == Len(r)
<1>1. /\ p \in Packets /\ r \in Seq(Packets) /\ l \in Nat /\ Len(ts) = l + 1 /\ ts[1] = p
      /\ \A i \in 1..l : r[i] = ts[i + 1]
      /\ DOMAIN ts = 1..(l + 1) /\ DOMAIN r = 1..l
  BY Shortened DEF Shorter
<1>2. PICK w : /\ Waits(s, ts, w)
               /\ live => \E q : Owes(k, tc, q) /\ q[Len(tc) + 1] = w[Len(ts) + 1]
  BY DEF Answered
<1> DEFINE u == [i \in 1..(l + 1) |-> w[i + 1]]
<1>3. \A i \in 1..(l + 1) : u[i] = w[i + 1]
  OBVIOUS
<1> HIDE DEF u
<1>4. Waits(m, r, u)
  <2>1. u[1] = m.wait
    <3>1. 1 \in 1..Len(ts) /\ 1 \in 1..(l + 1)
      BY <1>1
    <3>2. /\ w[1] = s.wait
          /\ IF ts[1].cmd = "ControlResponse" /\ ts[1].what # NoMoreTasks
             THEN w[1] # <<>> /\ ts[1].what = Head(w[1]) /\ w[1 + 1] = Tail(w[1])
             ELSE w[1 + 1] = w[1]
      BY <1>2, <3>1 DEF Waits
    <3>3. u[1] = w[1 + 1]
      BY <1>3, <3>1
    <3> QED
      BY <3>2, <3>3, <1>1
  <2>2. \A i \in 1..(l + 1) : u[i] \in Seq(Orders)
    <3>1. \A i \in 1..(l + 1) : i + 1 \in 1..(Len(ts) + 1)
      BY <1>1
    <3> QED
      BY <3>1, <1>2, <1>3 DEF Waits
  <2>3. ASSUME NEW i \in 1..l
        PROVE  IF r[i].cmd = "ControlResponse" /\ r[i].what # NoMoreTasks
               THEN u[i] # <<>> /\ r[i].what = Head(u[i]) /\ u[i + 1] = Tail(u[i])
               ELSE u[i + 1] = u[i]
    <3>1. i + 1 \in 1..Len(ts) /\ i \in 1..(l + 1) /\ i + 1 \in 1..(l + 1)
      BY <1>1
    <3>2. r[i] = ts[i + 1] /\ u[i] = w[i + 1] /\ u[i + 1] = w[(i + 1) + 1]
      BY <3>1, <1>1, <1>3
    <3>3. IF ts[i + 1].cmd = "ControlResponse" /\ ts[i + 1].what # NoMoreTasks
          THEN /\ w[i + 1] # <<>> /\ ts[i + 1].what = Head(w[i + 1])
               /\ w[(i + 1) + 1] = Tail(w[i + 1])
          ELSE w[(i + 1) + 1] = w[i + 1]
      BY <3>1, <1>2 DEF Waits
    <3> QED
      BY <3>2, <3>3
  <2> QED
    BY <2>1, <2>2, <2>3 DEF Waits
<1>5. u[Len(r) + 1] = w[Len(ts) + 1]
  <2>1. l + 1 \in 1..(l + 1) /\ (l + 1) + 1 = Len(ts) + 1
    BY <1>1
  <2> QED
    BY <2>1, <1>3
<1>6. ASSUME NEW i \in DOMAIN r, r[i].cmd = "ControlResponse", r[i].what = "ClientQuit"
      PROVE  i = Len(r) /\ ~k.open
  <2>1. i + 1 \in DOMAIN ts /\ r[i] = ts[i + 1]
    BY <1>1
  <2>2. i + 1 = Len(ts) /\ ~k.open
    BY <1>6, <2>1 DEF Answered
  <2> QED
    BY <2>2, <1>1
<1>7. ASSUME m.quit = 3 PROVE r = <<>> /\ ~k.open
  <2>1. 1 \in DOMAIN ts /\ ts[1].cmd = "ControlResponse" /\ ts[1].what = "ClientQuit"
    BY <1>1, <1>7
  <2>2. 1 = Len(ts) /\ ~k.open
    BY <2>1 DEF Answered
  <2>3. Len(r) = 0
    BY <2>2, <1>1
  <2> QED
    BY <2>2, <2>3, <1>1
<1> QED
  BY <1>2, <1>4, <1>5, <1>6, <1>7 DEF Answered

\* A channel without its first packet.
LEMMA RestOf1 ==
  ASSUME NEW ts \in Seq(Packets), ts # <<>>, NEW p, p = Head(ts), NEW r, r = Tail(ts)
  PROVE  /\ \A i \in DOMAIN r : i + 1 \in DOMAIN ts /\ r[i] = ts[i + 1] /\ i \in Nat
         /\ \A i \in DOMAIN ts : ts[i] = p \/ \E j \in DOMAIN r : r[j] = ts[i]
         /\ 1 \in DOMAIN ts /\ ts[1] = p
<1>1. /\ Len(ts) = Len(r) + 1 /\ DOMAIN ts = 1..(Len(r) + 1) /\ DOMAIN r = 1..Len(r)
      /\ ts[1] = p /\ \A i \in 1..Len(r) : r[i] = ts[i + 1]
      /\ Len(r) \in Nat
  BY Shortened DEF Shorter
<1>2. \A i \in DOMAIN r : i + 1 \in DOMAIN ts /\ r[i] = ts[i + 1] /\ i \in Nat
  BY <1>1
<1>3. \A i \in DOMAIN ts : ts[i] = p \/ \E j \in DOMAIN r : r[j] = ts[i]
  <2> SUFFICES ASSUME NEW i \in DOMAIN ts, i # 1 PROVE \E j \in DOMAIN r : r[j] = ts[i]
    BY <1>1
  <2>1. i - 1 \in DOMAIN r /\ (i - 1) + 1 = i
    BY <1>1
  <2> QED
    BY <2>1, <1>1
<1>4. 1 \in DOMAIN ts
  BY <1>1
<1> QED
  BY <1>1, <1>2, <1>3, <1>4

\* It is quiet if the channel was,
LEMMA RestQuiet ==
  ASSUME NEW ts \in Seq(Packets), ts # <<>>, Quiet(ts), NEW r, r = Tail(ts)
  PROVE  Quiet(r)
BY RestOf1 DEF Quiet

\* what comes is still to come,
LEMMA RestComes ==
  ASSUME NEW ts \in Seq(Packets), ts # <<>>, NEW p, p = Head(ts), NEW r, r = Tail(ts),
         NEW x, x # p.cmd, Comes(ts, x)
  PROVE  Comes(r, x)
<1>1. InQueue(ts) = {p} \cup InQueue(r)
  BY Popped
<1>2. PICK y \in InQueue(ts) : y.cmd = x
  BY DEF Comes, InQueue
<1>3. y \in InQueue(r)
  BY <1>1, <1>2
<1> QED
  BY <1>2, <1>3 DEF Comes, InQueue

Requested(ch, n) == \E i \in DOMAIN ch : ch[i].cmd = "FileRequest" /\ ch[i].n = n

\* A request for a file that is not the first packet is in the rest.
LEMMA RestRequest ==
  ASSUME NEW ts \in Seq(Packets), ts # <<>>, NEW p, p = Head(ts), p.cmd # "FileRequest",
         NEW r, r = Tail(ts), NEW n, Requested(ts, n)
  PROVE  Requested(r, n)
<1>1. InQueue(ts) = {p} \cup InQueue(r)
  BY Popped
<1>2. PICK y \in InQueue(ts) : y.cmd = "FileRequest" /\ y.n = n
  BY DEF InQueue, Requested
<1>3. y \in InQueue(r)
  BY <1>1, <1>2
<1> QED
  BY <1>2, <1>3 DEF InQueue, Requested

\* and so are the tasks.
LEMMA RestReturning ==
  ASSUME NEW ts \in Seq(Packets), ts # <<>>, NEW p, p = Head(ts), NEW r, r = Tail(ts),
         NEW t
  PROVE  /\ Returning(r, t) => Returning(ts, t)
         /\ Returning(ts, t) => Returning(r, t) \/ (p.cmd = "DoneComplete" /\ p.task = t)
<1>1. ASSUME Returning(r, t) PROVE Returning(ts, t)
  <2>1. PICK i \in DOMAIN r : r[i].cmd = "DoneComplete" /\ r[i].task = t
    BY <1>1 DEF Returning
  <2>2. i + 1 \in DOMAIN ts /\ r[i] = ts[i + 1]
    BY RestOf1
  <2> QED
    BY <2>1, <2>2 DEF Returning
<1>2. ASSUME Returning(ts, t)
      PROVE  Returning(r, t) \/ (p.cmd = "DoneComplete" /\ p.task = t)
  <2>1. PICK i \in DOMAIN ts : ts[i].cmd = "DoneComplete" /\ ts[i].task = t
    BY <1>2 DEF Returning
  <2>2. ts[i] = p \/ \E j \in DOMAIN r : r[j] = ts[i]
    BY RestOf1
  <2> QED
    BY <2>1, <2>2 DEF Returning
<1> QED
  BY <1>1, <1>2

\* A packet about something else.
LEMMA AskedStill ==
  ASSUME NEW s, NEW ts \in Seq(Packets), ts # <<>>, Asked(s, ts), NEW r, r = Tail(ts),
         NEW m, m.tri = s.tri
  PROVE  Asked(m, r)
<1>1. \A i \in DOMAIN r : i + 1 \in DOMAIN ts /\ r[i] = ts[i + 1] /\ i \in Nat
  BY Shortened DEF Shorter
<1>2. ASSUME NEW i \in DOMAIN r, NEW j \in DOMAIN r, Asks(r[i]), Asks(r[j])
      PROVE  j = i
  <2>1. j + 1 = i + 1
    BY <1>1, <1>2 DEF Asked
  <2> QED
    BY <1>1, <2>1
<1>3. ASSUME NEW i \in DOMAIN r, Asks(r[i])
      PROVE  /\ m.tri.state = "WaitForResponse" /\ m.tri.task = r[i].task
             /\ r[i].cmd = "TaskResponse" => r[i].what = "Accepted"
  BY <1>1, <1>3 DEF Asked
<1> QED
  BY <1>2, <1>3 DEF Asked

\* A packet that asks is the only one.
Alone(ts, p) == \A i \in DOMAIN ts : Asks(ts[i]) => ts[i] = p

\* A packet that asks finds the server waiting for it, and is alone.
LEMMA AskedOnce ==
  ASSUME NEW s, NEW ts \in Seq(Packets), ts # <<>>, Asked(s, ts), NEW p, p = Head(ts),
         Asks(p)
  PROVE  /\ s.tri.state = "WaitForResponse" /\ s.tri.task = p.task
         /\ p.cmd = "TaskResponse" => p.what = "Accepted"
         /\ Alone(ts, p) /\ ~Quiet(ts)
<1>1. /\ DOMAIN ts = 1..Len(ts) /\ 1 \in DOMAIN ts /\ ts[1] = p
  BY Shortened DEF Shorter
<1>3. /\ s.tri.state = "WaitForResponse" /\ s.tri.task = p.task
      /\ p.cmd = "TaskResponse" => p.what = "Accepted"
      /\ \A j \in DOMAIN ts : Asks(ts[j]) => j = 1
  BY <1>1 DEF Asked
<1> QED
  BY <1>1, <1>3 DEF Quiet, Alone

\* After it there is none.
LEMMA AskedNoMore ==
  ASSUME NEW s, NEW ts \in Seq(Packets), ts # <<>>, Asked(s, ts), NEW p, p = Head(ts),
         Asks(p), NEW r, r = Tail(ts), NEW m
  PROVE  Asked(m, r)
<1>1. /\ Len(ts) = Len(r) + 1 /\ DOMAIN ts = 1..(Len(r) + 1) /\ DOMAIN r = 1..Len(r)
      /\ ts[1] = p /\ \A i \in 1..Len(r) : r[i] = ts[i + 1]
      /\ Len(r) \in Nat
  BY Shortened DEF Shorter
<1>2. 1 \in DOMAIN ts
  BY <1>1
<1>3. \A j \in DOMAIN ts : Asks(ts[j]) => j = 1
  BY <1>1, <1>2 DEF Asked
<1>4. \A i \in DOMAIN r : i + 1 \in DOMAIN ts /\ r[i] = ts[i + 1] /\ i + 1 # 1
  BY <1>1
<1>5. \A i \in DOMAIN r : ~Asks(r[i])
  BY <1>3, <1>4
<1> QED
  BY <1>5 DEF Asked

\* What asks nothing leaves both as far as they are.
LEMMA InStepStill ==
  ASSUME NEW s \in ServerRecord, NEW m \in ServerRecord, NEW k, NEW tc,
         NEW ts \in Seq(Packets), ts # <<>>, InStep(s, k, tc, ts), NEW p, p = Head(ts),
         ~Asks(p), NEW r, r = Tail(ts), m.tri = s.tri
  PROVE  InStep(m, k, tc, r)
<1>1. p.cmd # "FileRequest" /\ p.cmd # "TaskResponse"
  BY DEF Asks
<1>2. /\ Quiet(ts) => Quiet(r)
      /\ Comes(ts, "TaskResponse") => Comes(r, "TaskResponse")
  BY <1>1, RestQuiet, RestComes
<1>3. Underway(s, k, tc, ts) => Underway(m, k, tc, r)
  <2>1. ASSUME \E i \in DOMAIN ts : ts[i].cmd = "FileRequest" /\ ts[i].n = k.tri.n
        PROVE  \E i \in DOMAIN r : r[i].cmd = "FileRequest" /\ r[i].n = k.tri.n
    <3>1. Requested(ts, k.tri.n)
      BY <2>1 DEF Requested
    <3>2. Requested(r, k.tri.n)
      BY <1>1, <3>1, RestRequest
    <3> QED
      BY <3>2 DEF Requested
  <2>2. /\ Quiet(ts) => Quiet(r)
        /\ Comes(ts, "TaskResponse") => Comes(r, "TaskResponse")
    BY <1>2
  <2> QED
    BY <2>1, <2>2 DEF Underway
<1> QED
  BY <1>3, InStepIs

\* Tasks stay where they were when a packet is read that ends no report.
LEMMA LocatedStill ==
  ASSUME NEW s, NEW m, NEW k, NEW tc, NEW ts \in Seq(Packets), ts # <<>>,
         Located(s, k, tc, ts), NEW p, p = Head(ts), p.cmd # "DoneComplete",
         NEW r, r = Tail(ts), m.list = s.list,
         \/ m.tri = s.tri
         \/ s.tri.state # "SendTaskRequest" /\ m.tri.state # "SendTaskRequest"
  PROVE  Located(m, k, tc, r)
<1>1. \A t : Returning(r, t) <=> Returning(ts, t)
  BY RestReturning
<1>2. \A t : Leaving(m, tc, t) <=> Leaving(s, tc, t)
  BY DEF Leaving
<1> QED
  BY <1>1, <1>2 DEF Located

\* A packet that the server has read: what of the invariant is to be shown.
LEMMA ReadSound ==
  ASSUME NEW s, NEW k, NEW tc, NEW ts, NEW c, Sound(s, k, tc, ts, c), s.open = TRUE,
         ts # <<>>, NEW r, r = Tail(ts), NEW m \in ServerRecord, ServerSane(m), m.open,
         Reports(m, k, r, s.open /\ k.open /\ ~c),
         Answered(m, k, tc, r, s.open /\ k.open /\ ~c), Asked(m, r),
         s.open /\ k.open /\ ~c => InStep(m, k, tc, r) /\ Located(m, k, tc, r)
  PROVE  Sound(m, k, tc, r, c)
<1> DEFINE live == s.open /\ k.open /\ ~c
<1>1. Linked(s, k, tc, ts, live) /\ ~c
  BY DEF Sound
<1>2. r \in Seq(Packets)
  BY <1>1 DEF Linked
<1>3. m.open = s.open
  BY <1>1, ServerRead DEF Linked
<1>4. Linked(m, k, tc, r, live)
  BY <1>1, <1>2 DEF Linked
<1> QED
  BY <1>1, <1>3, <1>4 DEF Sound

\* What lies ahead: the views v, of which the last is the client's.
Ahead(s, k, ts, c, v) ==
  Views(s, ts, v) /\ (s.open /\ k.open /\ ~c => v[Len(ts) + 1] = Then(k))

\* What the server is to expect of the first packet.
LEMMA AheadIs ==
  ASSUME NEW s, NEW k, NEW tc, NEW ts, NEW c, Sound(s, k, tc, ts, c), s.open = TRUE,
         ts # <<>>, NEW p, p = Head(ts), NEW v, Ahead(s, k, ts, c, v)
  PROVE  /\ Expected(s, p, v[2]) /\ v[2].tdi \in Getting /\ p \in Packets
         /\ \A j \in 1..(Len(ts) + 1) : v[j].tdi.task \in Assigned(s) \cup {NoTask}
         /\ \A j \in 2..(Len(ts) + 1) : v[j].tdi.task \in Assigned(s) \cup {NoTask}
         /\ v[2].tdi.task \in Assigned(s) \cup {NoTask}
         /\ s.tdi.task \in Assigned(s) \cup {NoTask}
         /\ ts \in Seq(Packets) /\ Len(ts) \in Nat /\ ts[1] = p
<1>1. s \in ServerRecord /\ ServerSane(s) /\ ts \in Seq(Packets)
  BY DEF Sound, Linked
<1>2. p \in Packets /\ ts[1] = p /\ Len(ts) \in Nat /\ 1 \in 1..Len(ts)
      /\ 1 \in 1..(Len(ts) + 1) /\ 2 \in 1..(Len(ts) + 1) /\ 1 + 1 = 2
  BY <1>1, Shortened DEF Shorter
<1>3. /\ v[1] = Now(s) /\ Hears(v[1], ts[1], v[1 + 1]) /\ v[2].tdi \in Getting
      /\ \A j \in 1..(Len(ts) + 1) : v[j].tdi.task \in Assigned(s) \cup {NoTask}
  BY <1>2 DEF Ahead, Views
<1>4. s.auth \in {1, 2}
  BY <1>1 DEF ServerSane
<1>5. s.quit # 3
  BY DEF Sound, Linked, Answered
<1>6. Expected(s, p, v[2])
  BY <1>2, <1>3, <1>4, <1>5 DEF Expected
<1>7. s.tdi.task \in Assigned(s) \cup {NoTask}
  <2>1. v[1].tdi = s.tdi
    BY <1>3 DEF Now
  <2> QED
    BY <1>2, <1>3, <2>1
<1>8. \A j \in 2..(Len(ts) + 1) : j \in 1..(Len(ts) + 1)
  BY <1>2
<1> QED
  BY <1>1, <1>2, <1>3, <1>6, <1>7, <1>8

\* A packet about neither the task being sent nor the end of a report.
LEMMA StandingSound ==
  ASSUME NEW s, NEW k, NEW tc, NEW ts, NEW c, Sound(s, k, tc, ts, c), s.open = TRUE,
         ts # <<>>, NEW p, p = Head(ts), NEW v, Ahead(s, k, ts, c, v),
         ~Asks(p), p.cmd # "DoneComplete",
         NEW r, r = Tail(ts), NEW m \in ServerRecord, ServerSane(m), m.open,
         m.tri = s.tri, m.list = s.list, m.tdi = v[2].tdi, m.auth = v[2].auth,
         m.wait = IF p.cmd = "ControlResponse" /\ p.what # NoMoreTasks
                  THEN Tail(s.wait) ELSE s.wait,
         m.quit = 3 => p.cmd = "ControlResponse" /\ p.what = "ClientQuit"
  PROVE  Sound(m, k, tc, r, c)
<1> DEFINE live == s.open /\ k.open /\ ~c
<1>1. /\ Linked(s, k, tc, ts, live) /\ s \in ServerRecord /\ ts \in Seq(Packets)
      /\ Asked(s, ts) /\ Answered(s, k, tc, ts, live)
  BY DEF Sound, Linked
<1>2. Assigned(m) = Assigned(s)
  BY DEF Assigned
<1>3. \A j \in 2..(Len(ts) + 1) : v[j].tdi.task \in Assigned(m) \cup {NoTask}
  BY <1>2, AheadIs
<1>4. Views(s, ts, v) /\ (live => v[Len(ts) + 1] = Then(k))
  BY DEF Ahead
<1>5. Reports(m, k, r, live)
  BY <1>1, <1>3, <1>4, ReadReports
<1>6. Answered(m, k, tc, r, live)
  BY <1>1, ReadAnswers
<1>7. Asked(m, r)
  BY <1>1, AskedStill
<1>8. ASSUME live PROVE InStep(m, k, tc, r) /\ Located(m, k, tc, r)
  <2>1. InStep(s, k, tc, ts) /\ Located(s, k, tc, ts)
    BY <1>1, <1>8 DEF Linked
  <2>2. InStep(m, k, tc, r)
    BY <1>1, <2>1, InStepStill
  <2>3. Located(m, k, tc, r)
    BY <1>1, <2>1, LocatedStill
  <2> QED
    BY <2>2, <2>3
<1> QED
  BY <1>5, <1>6, <1>7, <1>8, ReadSound

\* The task of the report is not lent any more.
Released(s, p, m) ==
  m.list[p.task] # "proc" /\ \A u \in Tasks : u # p.task => m.list[u] = s.list[u]

\* The end of a report.
LEMMA CompleteSound ==
  ASSUME NEW s, NEW k, NEW tc, NEW ts, NEW c, Sound(s, k, tc, ts, c), s.open = TRUE,
         ts # <<>>, NEW p, p = Head(ts), NEW v, Ahead(s, k, ts, c, v),
         p.cmd = "DoneComplete",
         NEW r, r = Tail(ts), NEW m \in ServerRecord, ServerSane(m), m.open,
         m.tri = s.tri, Released(s, p, m),
         m.tdi = v[2].tdi, m.auth = v[2].auth, m.wait = s.wait, m.quit = s.quit
  PROVE  Sound(m, k, tc, r, c)
<1> USE DEF Released
<1> DEFINE live == s.open /\ k.open /\ ~c
<1>1. /\ Linked(s, k, tc, ts, live) /\ s \in ServerRecord /\ ts \in Seq(Packets)
      /\ Asked(s, ts) /\ Answered(s, k, tc, ts, live)
  BY DEF Sound, Linked
<1>11. \A j \in 2..(Len(ts) + 1) : v[j].tdi.task \in Assigned(s) \cup {NoTask}
  BY AheadIs
<1>12. ts[1] = p /\ Len(ts) \in Nat
  BY <1>1, Shortened DEF Shorter
<1>2. /\ \A j \in 2..(Len(ts) + 1) : v[j].tdi.task \in Assigned(s) \cup {NoTask}
      /\ ts[1] = p /\ Len(ts) \in Nat
  BY <1>11, <1>12
<1>10. s.quit # 3
  BY <1>1 DEF Answered
<1>3. Views(s, ts, v) /\ (live => v[Len(ts) + 1] = Then(k))
  BY DEF Ahead
<1>4. \A j \in 2..(Len(ts) + 1) : v[j].tdi.task # p.task
  <2>1. 1 \in 1..Len(ts) /\ 1 + 1 = 2
    BY <1>1, Shortened DEF Shorter
  <2> QED
    BY <1>2, <1>3, <2>1 DEF Views
<1>5. \A j \in 2..(Len(ts) + 1) : v[j].tdi.task \in Assigned(m) \cup {NoTask}
  BY <1>2, <1>4 DEF Assigned
<1>6. Reports(m, k, r, live)
  BY <1>1, <1>3, <1>5, ReadReports
<1>7. Answered(m, k, tc, r, live)
  BY <1>1, <1>10, ReadAnswers
<1>8. Asked(m, r)
  BY <1>1, AskedStill
<1>9. ASSUME live PROVE InStep(m, k, tc, r) /\ Located(m, k, tc, r)
  <2>1. InStep(s, k, tc, ts) /\ Located(s, k, tc, ts)
    BY <1>1, <1>9 DEF Linked
  <2>2. InStep(m, k, tc, r)
    BY <1>1, <2>1, InStepStill DEF Asks
  <2>3. \A t : Leaving(m, tc, t) <=> Leaving(s, tc, t)
    BY DEF Leaving
  <2>4. Returning(ts, p.task)
    <3>1. 1 \in DOMAIN ts
      BY <1>1, RestOf1
    <3> QED
      BY <1>2, <3>1 DEF Returning
  <2>5. ~Returning(r, p.task)
    <3> SUFFICES ASSUME NEW i \in DOMAIN r, r[i].cmd = "DoneComplete", r[i].task = p.task
                 PROVE  FALSE
      BY DEF Returning
    <3>1. i + 1 \in 1..Len(ts) /\ i + 1 \in 2..(Len(ts) + 1) /\ r[i] = ts[i + 1]
      BY <1>1, Shortened DEF Shorter
    <3>2. Hears(v[i + 1], ts[i + 1], v[(i + 1) + 1])
      BY <1>3, <3>1 DEF Views
    <3>3. v[i + 1].tdi.task = p.task
      BY <3>1, <3>2 DEF Hears
    <3> QED
      BY <1>4, <3>1, <3>3
  <2>6. ASSUME NEW t \in Tasks
        PROVE  /\ m.list[t] = "proc" <=> Leaving(m, tc, t) \/ t \in Has(k) \/ Returning(r, t)
               /\ Leaving(m, tc, t) => t \notin Has(k) /\ ~Returning(r, t)
               /\ Returning(r, t) => t \notin Has(k)
    <3>1. /\ s.list[t] = "proc" <=> Leaving(s, tc, t) \/ t \in Has(k) \/ Returning(ts, t)
          /\ Leaving(s, tc, t) => t \notin Has(k) /\ ~Returning(ts, t)
          /\ Returning(ts, t) => t \notin Has(k)
      BY <2>1 DEF Located
    <3>2. CASE t = p.task
      BY <2>3, <2>4, <2>5, <3>1, <3>2
    <3>3. CASE t # p.task
      <4>1. Returning(r, t) <=> Returning(ts, t)
        BY <1>1, <3>3, RestReturning
      <4> QED
        BY <2>3, <3>1, <3>3, <4>1
    <3> QED
      BY <3>2, <3>3
  <2>7. Located(m, k, tc, r)
    BY <2>6 DEF Located
  <2> QED
    BY <2>2, <2>7
<1> QED
  BY <1>6, <1>7, <1>8, <1>9, ReadSound

\* A packet about the task being sent.
LEMMA AsideSound ==
  ASSUME NEW s, NEW k, NEW tc, NEW ts, NEW c, Sound(s, k, tc, ts, c), s.open = TRUE,
         ts # <<>>, NEW p, p = Head(ts), NEW v, Ahead(s, k, ts, c, v), Asks(p),
         NEW r, r = Tail(ts), NEW m \in ServerRecord, ServerSane(m), m.open,
         Aside(s, m), m.tdi = v[2].tdi, m.auth = v[2].auth, m.wait = s.wait,
         m.quit = s.quit,
         \/ /\ p.cmd = "FileRequest" /\ m.tri.task = s.tri.task
            /\ m.tri.state = "SendFileDownloadH" /\ m.tri.n = p.n
         \/ p.cmd = "TaskResponse" /\ m.tri = NoTri
  PROVE  Sound(m, k, tc, r, c)
<1> DEFINE live == s.open /\ k.open /\ ~c
<1>1. /\ Linked(s, k, tc, ts, live) /\ s \in ServerRecord /\ ts \in Seq(Packets)
      /\ Asked(s, ts) /\ Answered(s, k, tc, ts, live)
  BY DEF Sound, Linked
<1>2. m.list = s.list /\ Assigned(m) = Assigned(s)
  BY DEF Assigned, Aside
<1>10. \A j \in 2..(Len(ts) + 1) : v[j].tdi.task \in Assigned(s) \cup {NoTask}
  BY AheadIs
<1>3. (\A j \in 2..(Len(ts) + 1) : v[j].tdi.task \in Assigned(m) \cup {NoTask}) /\ s.quit # 3
  BY <1>1, <1>2, <1>10 DEF Answered
<1>4. Views(s, ts, v) /\ (live => v[Len(ts) + 1] = Then(k))
  BY DEF Ahead
<1>5. Reports(m, k, r, live)
  BY <1>1, <1>3, <1>4, ReadReports
<1>6. Answered(m, k, tc, r, live)
  <2>1. p.cmd # "ControlResponse"
    BY DEF Asks
  <2> QED
    BY <1>1, <1>3, <2>1, ReadAnswers
<1>11. s.tri.state = "WaitForResponse" /\ ~Quiet(ts) /\ Alone(ts, p)
  BY <1>1, AskedOnce
<1>12. Asked(m, r)
  BY <1>1, AskedNoMore
<1>7. /\ s.tri.state = "WaitForResponse" /\ ~Quiet(ts) /\ Asked(m, r)
      /\ \A i \in DOMAIN ts : Asks(ts[i]) => ts[i] = p
  BY <1>11, <1>12 DEF Alone
<1>8. NoTri.task = NoTask /\ NoTri.state = "None"
  BY DEF NoTri
<1>9. ASSUME live PROVE InStep(m, k, tc, r) /\ Located(m, k, tc, r)
  <2>1. InStep(s, k, tc, ts) /\ Located(s, k, tc, ts)
    BY <1>1, <1>9 DEF Linked
  <2>2. Underway(s, k, tc, ts)
    BY <1>1, <1>7, <2>1, InStepIs
  <2>3. \/ /\ k.tri.task = s.tri.task /\ k.tri.act = "FileRecvH" /\ Silent(tc)
           /\ \E i \in DOMAIN ts : ts[i].cmd = "FileRequest" /\ ts[i].n = k.tri.n
        \/ k.tri.task = NoTask /\ Silent(tc) /\ Comes(ts, "TaskResponse")
    BY <1>7, <2>2 DEF Underway
  <2>4. InStep(m, k, tc, r)
    <3>1. CASE p.cmd = "FileRequest"
      <4>1. ~Comes(ts, "TaskResponse")
        BY <1>7, <3>1 DEF Comes, Asks
      <4>2. /\ k.tri.task = s.tri.task /\ k.tri.act = "FileRecvH" /\ Silent(tc)
            /\ p.n = k.tri.n
        BY <1>7, <2>3, <4>1 DEF Asks
      <4> QED
        BY <3>1, <4>2, InStepIs
    <3>2. CASE p.cmd = "TaskResponse"
      <4>1. ~\E i \in DOMAIN ts : ts[i].cmd = "FileRequest" /\ ts[i].n = k.tri.n
        BY <1>7, <3>2 DEF Asks
      <4>2. k.tri.task = NoTask /\ Silent(tc)
        BY <2>3, <4>1
      <4>3. m.tri.state = "None"
        BY <1>8, <3>2
      <4> QED
        BY <4>2, <4>3, InStepIs
    <3> QED
      BY <3>1, <3>2
  <2>5. m.tri.state # "SendTaskRequest" /\ p.cmd # "DoneComplete"
    BY <1>8 DEF Asks
  <2>6. Located(m, k, tc, r)
    BY <1>1, <1>2, <1>7, <2>1, <2>5, LocatedStill
  <2> QED
    BY <2>4, <2>6
<1> QED
  BY <1>5, <1>6, <1>7, <1>9, ReadSound

\* A verdict "ok" is there when its files are.
Rewarded(s, m) == \A u \in Tasks : m.tes[u] = "ok" /\ s.tes[u] # "ok" => s.tdi.got = Uploads[u]

\* What parsing a packet must come to: m, with the packets r left to be read.
Advanced(s, m, k, tc, r, c) ==
  /\ m \in ServerRecord /\ ServerSane(m) /\ Rewarded(s, m)
  /\ m.open => Sound(m, k, tc, r, c)
  /\ ~m.open => m.quit = 0

\* What is known when a packet is parsed.
LEMMA ParsingIs ==
  ASSUME NEW s, NEW k, NEW tc, NEW ts, NEW c, Sound(s, k, tc, ts, c), s.open = TRUE,
         ts # <<>>, NEW p, p = Head(ts), NEW v, Ahead(s, k, ts, c, v)
  PROVE  /\ s \in ServerRecord /\ ServerSane(s) /\ p \in Packets
         /\ Expected(s, p, v[2]) /\ v[2].tdi \in Getting
<1>1. s \in ServerRecord /\ ServerSane(s)
  BY DEF Sound, Linked
<1>2. Expected(s, p, v[2]) /\ v[2].tdi \in Getting /\ p \in Packets
  BY AheadIs
<1> QED
  BY <1>1, <1>2

\* The task of a report is one that is lent.
LEMMA ReportedIsLent ==
  ASSUME NEW s, NEW k, NEW tc, NEW ts, NEW c, Sound(s, k, tc, ts, c), s.open = TRUE,
         ts # <<>>, NEW p, p = Head(ts), NEW v, Ahead(s, k, ts, c, v),
         p.cmd \in {"TaskDone", "FileUpload", "DoneComplete"}
  PROVE  p.task \in Tasks /\ s.list[p.task] = "proc"
<1>1. Expected(s, p, v[2])
  BY AheadIs
<1>2. v[2].tdi.task \in Assigned(s) \cup {NoTask}
  BY AheadIs
<1>3. s.tdi.task \in Assigned(s) \cup {NoTask}
  BY AheadIs
<1>4. Hears(Now(s), p, v[2]) /\ Now(s).tdi = s.tdi
  BY <1>1 DEF Expected, Now
<1>5. p.task # NoTask /\ p.task \in Assigned(s) \cup {NoTask}
  <2>1. CASE p.cmd = "TaskDone"
    <3>2. /\ p.task # NoTask
          /\ v[2].tdi = [task |-> p.task, state |-> "WaitForResp", save |-> p.what, got |-> 0]
      BY <1>4, <2>1 DEF Hears
    <3>1. p.task # NoTask /\ v[2].tdi.task = p.task
      BY <3>2
    <3> QED
      BY <1>2, <3>1
  <2>2. CASE p.cmd = "FileUpload"
    <3>1. p.task # NoTask /\ s.tdi.task = p.task
      BY <1>4, <2>2 DEF Hears
    <3> QED
      BY <1>3, <3>1
  <2>3. CASE p.cmd = "DoneComplete"
    <3>1. p.task # NoTask /\ s.tdi.task = p.task
      BY <1>4, <2>3 DEF Hears
    <3> QED
      BY <1>3, <3>1
  <2> QED
    BY <2>1, <2>2, <2>3
<1> QED
  BY <1>5 DEF Assigned

\* An answer is the one that is waited for.
LEMMA AnswerIsDue ==
  ASSUME NEW s, NEW k, NEW tc, NEW ts, NEW c, Sound(s, k, tc, ts, c), s.open = TRUE,
         ts # <<>>, NEW p, p = Head(ts), p.cmd = "ControlResponse", p.what # NoMoreTasks
  PROVE  s.wait # <<>> /\ p.what = Head(s.wait)
<1> DEFINE live == s.open /\ k.open /\ ~c
<1>1. ts \in Seq(Packets) /\ Answered(s, k, tc, ts, live)
  BY DEF Sound, Linked
<1>2. 1 \in 1..Len(ts) /\ ts[1] = p
  BY <1>1, Shortened DEF Shorter
<1>3. PICK w : Waits(s, ts, w)
  BY <1>1 DEF Answered
<1> QED
  BY <1>2, <1>3 DEF Waits

\* Packets that leave the list and the task being sent alone.
LEMMA PlainAdvances ==
  ASSUME NEW s, NEW k, NEW tc, NEW ts, NEW c, Sound(s, k, tc, ts, c), s.open = TRUE,
         ts # <<>>, NEW p, p = Head(ts), NEW v, Ahead(s, k, ts, c, v),
         NEW r, r = Tail(ts), NEW m \in ServerRecord, ServerSane(m), m.open = s.open,
         Standing(s, m), m.tdi = v[2].tdi, m.auth = v[2].auth,
         p.cmd \in {"NowConnected", "TaskDone", "FileUpload", "FileBody", "ControlResponse"},
         m.wait = IF p.cmd = "ControlResponse" /\ p.what # NoMoreTasks
                  THEN Tail(s.wait) ELSE s.wait,
         m.quit = 3 => p.cmd = "ControlResponse" /\ p.what = "ClientQuit"
  PROVE  Advanced(s, m, k, tc, r, c)
<1>1. m.open /\ m.tri = s.tri /\ m.list = s.list /\ m.tes = s.tes
  BY DEF Standing
<1>2. ~Asks(p) /\ p.cmd # "DoneComplete"
  BY DEF Asks
<1>3. Sound(m, k, tc, r, c)
  BY <1>1, <1>2, StandingSound
<1> QED
  BY <1>1, <1>3 DEF Advanced, Rewarded

\* A fault ends the connection.
LEMMA FaultAdvances ==
  ASSUME NEW s, NEW k, NEW tc, NEW r, NEW c, NEW m \in ServerRecord, ServerSane(m),
         Faulted(s, m)
  PROVE  Advanced(s, m, k, tc, r, c)
BY DEF Advanced, Rewarded, Faulted

\* What leaves the list and the task being sent alone.
LEMMA FollowingAdvances ==
  ASSUME NEW s, NEW k, NEW tc, NEW ts, NEW c, Sound(s, k, tc, ts, c), s.open = TRUE,
         ts # <<>>, NEW p, p = Head(ts), NEW v, Ahead(s, k, ts, c, v),
         NEW r, r = Tail(ts), NEW m \in ServerRecord, ServerSane(m),
         p.cmd \in {"NowConnected", "TaskDone", "FileUpload", "FileBody"},
         NEW y, y = v[2], Following(s, m, y)
  PROVE  Advanced(s, m, k, tc, r, c)
<1>1. s.quit # 3
  <2>1. Expected(s, p, v[2])
    BY ParsingIs
  <2> QED
    BY <2>1 DEF Expected
<1>2. /\ m.open = s.open /\ Standing(s, m) /\ m.wait = s.wait /\ m.quit = s.quit
      /\ m.tdi = v[2].tdi /\ m.auth = v[2].auth
  BY DEF Following
<1>3. p.cmd # "ControlResponse"
  OBVIOUS
<1> QED
  BY <1>1, <1>2, <1>3, PlainAdvances

\* The greeting.
LEMMA GreetingAdvances ==
  ASSUME NEW s, NEW k, NEW tc, NEW ts, NEW c, Sound(s, k, tc, ts, c), s.open = TRUE,
         ts # <<>>, NEW p, p = Head(ts), NEW v, Ahead(s, k, ts, c, v),
         NEW r, r = Tail(ts), NEW m, p.cmd = "NowConnected", m = ParseNowConnected(s)
  PROVE  Advanced(s, m, k, tc, r, c)
<1> DEFINE y == v[2]
<1>1. s \in ServerRecord /\ ServerSane(s) /\ p \in Packets /\ Expected(s, p, y)
  BY ParsingIs
<1>2. y = v[2]
  OBVIOUS
<1> HIDE DEF y
<1>3. m \in ServerRecord /\ ServerSane(m) /\ Following(s, m, y)
  BY <1>1, HeardGreeting
<1> QED
  BY <1>2, <1>3, FollowingAdvances

\* The beginning of a report.
LEMMA ReportAdvances ==
  ASSUME NEW s, NEW k, NEW tc, NEW ts, NEW c, Sound(s, k, tc, ts, c), s.open = TRUE,
         ts # <<>>, NEW p, p = Head(ts), NEW v, Ahead(s, k, ts, c, v),
         NEW r, r = Tail(ts), NEW m, p.cmd = "TaskDone", m = ParseTaskDone(s, p)
  PROVE  Advanced(s, m, k, tc, r, c)
<1> DEFINE y == v[2]
<1>1. /\ s \in ServerRecord /\ ServerSane(s) /\ p \in Packets /\ Expected(s, p, y)
      /\ y.tdi \in Getting
  BY ParsingIs
<1>2. y = v[2]
  OBVIOUS
<1>3. s.list[p.task] = "proc"
  BY ReportedIsLent
<1> HIDE DEF y
<1>4. m \in ServerRecord /\ ServerSane(m) /\ Following(s, m, y)
  BY <1>1, <1>3, HeardReport
<1> QED
  BY <1>2, <1>4, FollowingAdvances

\* The body of a file.
LEMMA BodyAdvances ==
  ASSUME NEW s, NEW k, NEW tc, NEW ts, NEW c, Sound(s, k, tc, ts, c), s.open = TRUE,
         ts # <<>>, NEW p, p = Head(ts), NEW v, Ahead(s, k, ts, c, v),
         NEW r, r = Tail(ts), NEW m, p.cmd = "FileBody", m = UploadDone(s)
  PROVE  Advanced(s, m, k, tc, r, c)
<1> DEFINE y == v[2]
<1>1. /\ s \in ServerRecord /\ ServerSane(s) /\ p \in Packets /\ Expected(s, p, y)
      /\ y.tdi \in Getting
  BY ParsingIs
<1>2. y = v[2]
  OBVIOUS
<1> HIDE DEF y
<1>4. m \in ServerRecord /\ ServerSane(m) /\ Following(s, m, y)
  BY <1>1, HeardBody
<1> QED
  BY <1>2, <1>4, FollowingAdvances

\* The header of a file.
LEMMA UploadAdvances ==
  ASSUME NEW s, NEW k, NEW tc, NEW ts, NEW c, Sound(s, k, tc, ts, c), s.open = TRUE,
         ts # <<>>, NEW p, p = Head(ts), NEW v, Ahead(s, k, ts, c, v),
         NEW r, r = Tail(ts), NEW fault \in BOOLEAN, p.cmd = "FileUpload",
         NEW m, m = ParseFileUpload(s, p, fault)
  PROVE  Advanced(s, m, k, tc, r, c)
<1> DEFINE y == v[2]
<1>1. /\ s \in ServerRecord /\ ServerSane(s) /\ p \in Packets /\ Expected(s, p, y)
      /\ y.tdi \in Getting
  BY ParsingIs
<1>2. y = v[2]
  OBVIOUS
<1>3. p.task \in Tasks
  BY ReportedIsLent
<1> HIDE DEF y
<1>4. m \in ServerRecord /\ ServerSane(m) /\ (Faulted(s, m) \/ Following(s, m, y))
  BY <1>1, <1>3, HeardHeader
<1>5. CASE Faulted(s, m)
  BY <1>4, <1>5, FaultAdvances
<1>6. CASE Following(s, m, y)
  BY <1>2, <1>4, <1>6, FollowingAdvances
<1> QED
  BY <1>4, <1>5, <1>6

\* An answer.
LEMMA AnswerAdvances ==
  ASSUME NEW s, NEW k, NEW tc, NEW ts, NEW c, Sound(s, k, tc, ts, c), s.open = TRUE,
         ts # <<>>, NEW p, p = Head(ts), NEW v, Ahead(s, k, ts, c, v),
         NEW r, r = Tail(ts), p.cmd = "ControlResponse",
         NEW m, m = ParseControlResponse(s, p)
  PROVE  Advanced(s, m, k, tc, r, c)
<1> DEFINE y == v[2]
<1>1. s \in ServerRecord /\ ServerSane(s) /\ p \in Packets /\ Expected(s, p, y)
  BY ParsingIs
<1>2. p.what # NoMoreTasks => s.wait # <<>> /\ p.what = Head(s.wait)
  BY AnswerIsDue
<1>3. y = v[2]
  OBVIOUS
<1> HIDE DEF y
<1>4. m \in ServerRecord /\ ServerSane(m) /\ Resolving(s, p, m, y)
  BY <1>1, <1>2, HeardAnswer
<1>5. /\ m.open = s.open /\ Standing(s, m) /\ m.tdi = v[2].tdi /\ m.auth = v[2].auth
      /\ m.wait = IF p.cmd = "ControlResponse" /\ p.what # NoMoreTasks
                  THEN Tail(s.wait) ELSE s.wait
      /\ m.quit = 3 => p.cmd = "ControlResponse" /\ p.what = "ClientQuit"
  BY <1>3, <1>4 DEF Resolving
<1> QED
  BY <1>4, <1>5, PlainAdvances

\* The end of a report.
LEMMA CompleteAdvances ==
  ASSUME NEW s, NEW k, NEW tc, NEW ts, NEW c, Sound(s, k, tc, ts, c), s.open = TRUE,
         ts # <<>>, NEW p, p = Head(ts), NEW v, Ahead(s, k, ts, c, v),
         NEW r, r = Tail(ts), p.cmd = "DoneComplete",
         NEW m, m = ParseDoneComplete(s, p)
  PROVE  Advanced(s, m, k, tc, r, c)
<1> DEFINE y == v[2]
<1>1. s \in ServerRecord /\ ServerSane(s) /\ p \in Packets /\ Expected(s, p, y)
  BY ParsingIs
<1>2. p.task \in Tasks /\ s.list[p.task] = "proc"
  BY ReportedIsLent
<1>3. y = v[2]
  OBVIOUS
<1> HIDE DEF y
<1>4. m \in ServerRecord /\ ServerSane(m) /\ Completing(s, p, m, y)
  BY <1>1, <1>2, HeardComplete
<1>5. /\ m.open = s.open /\ m.tri = s.tri /\ m.wait = s.wait /\ m.quit = s.quit
      /\ m.tdi = v[2].tdi /\ m.auth = v[2].auth
      /\ Released(s, p, m)
  BY <1>3, <1>4 DEF Completing, Released
<1>8. m.open
  BY <1>5
<1>6. Sound(m, k, tc, r, c)
  BY <1>4, <1>5, <1>8, CompleteSound
<1>7. Rewarded(s, m)
  BY <1>4 DEF Completing, Rewarded
<1> QED
  BY <1>4, <1>5, <1>6, <1>7 DEF Advanced

\* What the client asks about the task it receives.
LEMMA AskAdvances ==
  ASSUME NEW s, NEW k, NEW tc, NEW ts, NEW c, Sound(s, k, tc, ts, c), s.open = TRUE,
         ts # <<>>, NEW p, p = Head(ts), NEW v, Ahead(s, k, ts, c, v),
         NEW r, r = Tail(ts), NEW fault \in BOOLEAN, NEW m,
         \/ p.cmd = "FileRequest" /\ m = ParseFileRequest(s, p, fault)
         \/ p.cmd = "TaskResponse" /\ m = ParseTaskResponse(s, p)
  PROVE  Advanced(s, m, k, tc, r, c)
<1> DEFINE y == v[2]
<1>1. s \in ServerRecord /\ ServerSane(s) /\ p \in Packets /\ Expected(s, p, y)
  BY ParsingIs
<1>2. Asks(p) /\ ts \in Seq(Packets) /\ Asked(s, ts)
  BY DEF Asks, Sound, Linked
<1>3. /\ s.tri.state = "WaitForResponse" /\ s.tri.task = p.task
      /\ p.cmd = "TaskResponse" => p.what = "Accepted"
  BY <1>2, AskedOnce
<1>4. y = v[2]
  OBVIOUS
<1> HIDE DEF y
<1>5. m \in ServerRecord /\ ServerSane(m) /\ (Faulted(s, m) \/ Inquiring(s, p, m, y))
  <2>1. CASE p.cmd = "FileRequest" /\ m = ParseFileRequest(s, p, fault)
    BY <1>1, <1>3, <2>1, HeardRequest
  <2>2. CASE p.cmd = "TaskResponse" /\ m = ParseTaskResponse(s, p)
    BY <1>1, <1>3, <2>2, HeardAccepted
  <2> QED
    BY <2>1, <2>2
<1>6. CASE Faulted(s, m)
  BY <1>5, <1>6, FaultAdvances
<1>7. CASE Inquiring(s, p, m, y)
  <2>1. /\ m.open /\ Aside(s, m) /\ m.tdi = v[2].tdi /\ m.auth = v[2].auth
        /\ m.wait = s.wait /\ m.quit = s.quit
        /\ \/ /\ p.cmd = "FileRequest" /\ m.tri.task = s.tri.task
              /\ m.tri.state = "SendFileDownloadH" /\ m.tri.n = p.n
           \/ p.cmd = "TaskResponse" /\ m.tri = NoTri
    BY <1>4, <1>7 DEF Inquiring
  <2>2. Sound(m, k, tc, r, c)
    BY <1>2, <1>5, <2>1, AsideSound
  <2>3. m.tes = s.tes
    BY <2>1 DEF Aside
  <2> QED
    BY <1>5, <2>1, <2>2, <2>3 DEF Advanced, Rewarded
<1> QED
  BY <1>5, <1>6, <1>7

\* The server reads a packet.
LEMMA ServerReadsSound ==
  ASSUME NEW s, NEW k, NEW tc, NEW ts, NEW c, Sound(s, k, tc, ts, c), s.open = TRUE,
         ts # <<>>, NEW p, p = Head(ts), NEW fault \in BOOLEAN,
         NEW n, n = ReceiveOnServer(s, p, fault)
  PROVE  Sound(n, k, tc, IF n.open THEN Tail(ts) ELSE <<>>, c) /\ Rewarded(s, n)
<1>1. PICK v : Ahead(s, k, ts, c, v)
  BY DEF Sound, Linked, Reports, Ahead
<1> DEFINE y == v[2]
<1>2. Expected(s, p, y) /\ s \in ServerRecord
  BY <1>1, ParsingIs
<1> HIDE DEF y
<1>10. Parsed(s, p, fault, n)
  BY <1>2, HearingIs
<1>3. PICK m : n = (IF m.open THEN ServerSends(m) ELSE m) /\ Parses(s, p, fault, m)
  BY <1>10 DEF Parsed
<1>4. p.cmd \in {"NowConnected", "FileRequest", "TaskResponse", "TaskDone", "FileUpload",
                 "FileBody", "DoneComplete", "ControlResponse"}
  BY <1>2 DEF Expected, Hears
<1>5. Advanced(s, m, k, tc, Tail(ts), c)
  <2>1. CASE p.cmd = "NowConnected"
    BY <1>1, <1>3, <2>1, GreetingAdvances DEF Parses
  <2>2. CASE p.cmd = "TaskDone"
    BY <1>1, <1>3, <2>2, ReportAdvances DEF Parses
  <2>3. CASE p.cmd = "FileBody"
    BY <1>1, <1>3, <2>3, BodyAdvances DEF Parses
  <2>4. CASE p.cmd = "FileUpload"
    BY <1>1, <1>3, <2>4, UploadAdvances DEF Parses
  <2>5. CASE p.cmd = "ControlResponse"
    BY <1>1, <1>3, <2>5, AnswerAdvances DEF Parses
  <2>6. CASE p.cmd = "DoneComplete"
    BY <1>1, <1>3, <2>6, CompleteAdvances DEF Parses
  <2>7. CASE p.cmd \in {"FileRequest", "TaskResponse"}
    BY <1>1, <1>3, <2>7, AskAdvances DEF Parses
  <2> QED
    BY <1>4, <2>1, <2>2, <2>3, <2>4, <2>5, <2>6, <2>7
<1>6. m \in ServerRecord /\ ServerSane(m) /\ Rewarded(s, m)
  BY <1>5 DEF Advanced
<1>7. CASE m.open = TRUE
  <2>1. n = ServerSends(m)
    BY <1>3, <1>7
  <2>2. n \in ServerRecord /\ ServerSane(n) /\ Kept(m, n)
    BY <1>6, <1>7, <2>1, ServerSendsSane
  <2>3. Facing(m, n) /\ n.tes = m.tes /\ n.open
    BY <1>7, <2>2 DEF Kept, Facing
  <2>4. Sound(m, k, tc, Tail(ts), c)
    BY <1>5, <1>7 DEF Advanced
  <2>5. Sound(n, k, tc, Tail(ts), c)
    BY <2>2, <2>3, <2>4, ServerStays
  <2> QED
    BY <1>6, <2>3, <2>5 DEF Rewarded
<1>8. CASE m.open = FALSE
  <2>1. n = m /\ ~m.open /\ m.quit = 0
    BY <1>3, <1>5, <1>8 DEF Advanced
  <2>2. Sound(n, k, tc, <<>>, c)
    BY <1>6, <2>1, ServerLeaves
  <2> QED
    BY <1>6, <2>1, <2>2
<1>9. m.open \in BOOLEAN
  BY <1>6, ServerRead
<1> QED
  BY <1>7, <1>8, <1>9

\* A set of numbers has a least member.
LEMMA NatMin ==
  ASSUME NEW T \in SUBSET Nat, T # {}
  PROVE  \E n \in T : \A m \in T : n <= m
<1>1. \E n \in T : \A m \in T : <<m, n>> \notin OpToRel(<, Nat)
  BY NatLessThanWellFounded, WFMin
<1>2. PICK n \in T : \A m \in T : <<m, n>> \notin OpToRel(<, Nat)
  BY <1>1
<1>3. \A m \in T : ~(m < n)
  BY <1>2 DEF OpToRel
<1> QED
  BY <1>3

\* The first of the orders owed, whatever has been read.
AllOwed(q, l, x) == \A i \in 1..(l + 1) : q[i] # <<>> /\ Head(q[i]) = x

\* What is at the head of the orders stays there.
LEMMA OwedHead ==
  ASSUME NEW k, NEW tc \in Seq(Packets), NEW q, Owes(k, tc, q), NEW x,
         q[1] # <<>>, Head(q[1]) = x
  PROVE  AllOwed(q, Len(tc), x)
<1> USE DEF AllOwed
<1> DEFINE l == Len(tc)
           T == {i \in 1..(l + 1) : ~(q[i] # <<>> /\ Head(q[i]) = x)}
<1>1. l \in Nat
  OBVIOUS
<1>2. \A i \in 1..(l + 1) : q[i] \in Seq(Orders)
  BY DEF Owes
<1> SUFFICES ASSUME T # {} PROVE FALSE
  OBVIOUS
<1>3. T \in SUBSET Nat
  BY <1>1
<1>4. PICK m \in T : \A i \in T : m <= i
  BY <1>3, NatMin
<1>5. m \in 1..(l + 1) /\ ~(q[m] # <<>> /\ Head(q[m]) = x)
  OBVIOUS
<1>6. m # 1
  BY <1>5
<1>7. m - 1 \in 1..l /\ (m - 1) + 1 = m /\ m - 1 \in 1..(l + 1) /\ m - 1 < m
  BY <1>1, <1>5, <1>6
<1>8. m - 1 \notin T
  BY <1>1, <1>4, <1>7
<1>9. q[m - 1] # <<>> /\ Head(q[m - 1]) = x
  BY <1>7, <1>8
<1>10. q[m] = IF tc[m - 1].cmd = "ControlRequest" THEN Append(q[m - 1], tc[m - 1].what)
              ELSE q[m - 1]
  BY <1>7 DEF Owes
<1> DEFINE y == q[m - 1]  z == q[m]
<1>11. y \in Seq(Orders) /\ z \in Seq(Orders)
  BY <1>2, <1>5, <1>7
<1>12. tc[m - 1].cmd # "ControlRequest"
  BY <1>5, <1>9, <1>10
<1> QED
  BY <1>5, <1>9, <1>10, <1>12

\* The orders owed without their first.
OwedLess(k, tc, q) ==
  \E r : Owes(k, tc, r) /\ r[Len(tc) + 1] = Tail(q[Len(tc) + 1])

\* Without the first order, the client owes the others.
LEMMA OwesLess ==
  ASSUME NEW k, NEW tc \in Seq(Packets), NEW q, Owes(k, tc, q), NEW x,
         AllOwed(q, Len(tc), x),
         \A i \in 1..Len(tc) : tc[i].cmd = "ControlRequest" => tc[i].what \in Orders,
         NEW n, Owing(n.send, Tail(q[1]))
  PROVE  OwedLess(n, tc, q)
<1> USE DEF AllOwed
<1> DEFINE l == Len(tc)
           r == [i \in 1..(l + 1) |-> Tail(q[i])]
<1>1. l \in Nat /\ 1 \in 1..(l + 1) /\ l + 1 \in 1..(l + 1)
  OBVIOUS
<1>2. \A i \in 1..(l + 1) : r[i] = Tail(q[i])
  OBVIOUS
<1> HIDE DEF r
<1>3. \A i \in 1..(l + 1) : q[i] \in Seq(Orders)
  BY DEF Owes
<1>4. ASSUME NEW i \in 1..(l + 1) PROVE r[i] \in Seq(Orders)
  <2> DEFINE y == q[i]
  <2>1. y \in Seq(Orders) /\ y # <<>> /\ r[i] = Tail(y)
    BY <1>2, <1>3
  <2> HIDE DEF y
  <2> QED
    BY <2>1
<1>5. ASSUME NEW i \in 1..l
      PROVE  r[i + 1] = IF tc[i].cmd = "ControlRequest" THEN Append(r[i], tc[i].what) ELSE r[i]
  <2>1. i \in 1..(l + 1) /\ i + 1 \in 1..(l + 1)
    BY <1>1
  <2> DEFINE y == q[i]  z == q[i + 1]  w == tc[i].what
  <2>2. /\ y \in Seq(Orders) /\ y # <<>> /\ r[i] = Tail(y) /\ r[i + 1] = Tail(z)
        /\ z = IF tc[i].cmd = "ControlRequest" THEN Append(y, w) ELSE y
        /\ tc[i].cmd = "ControlRequest" => w \in Orders
    BY <1>2, <1>3, <2>1 DEF Owes
  <2> HIDE DEF y, z, w
  <2>3. w \in Orders => Tail(Append(y, w)) = Append(Tail(y), w)
    BY <2>2
  <2>4. r[i + 1] = IF tc[i].cmd = "ControlRequest" THEN Append(r[i], w) ELSE r[i]
    BY <2>2, <2>3
  <2> QED
    BY <2>4 DEF w
<1>6. Owes(n, tc, r)
  BY <1>1, <1>2, <1>4, <1>5 DEF Owes
<1> QED
  BY <1>1, <1>2, <1>6 DEF OwedLess

\* The orders that wait, one packet later.
WaitsOn(s, d, z) == \E u : Waits(s, d, u) /\ u[Len(d) + 1] = z

\* A packet more for the server: an order less that waits, if it is an answer.
LEMMA WaitsOnward ==
  ASSUME NEW s, NEW ts \in Seq(Packets), NEW w, Waits(s, ts, w), NEW p \in Packets,
         NEW d, d = Append(ts, p), NEW y, y = w[Len(ts) + 1], NEW z \in Seq(Orders),
         IF p.cmd = "ControlResponse" /\ p.what # NoMoreTasks
         THEN y # <<>> /\ p.what = Head(y) /\ z = Tail(y) ELSE z = y
  PROVE  WaitsOn(s, d, z)
<1> DEFINE l == Len(ts)
           u == [i \in 1..(l + 2) |-> IF i = l + 2 THEN z ELSE w[i]]
<1>1. l \in Nat /\ Len(d) = l + 1 /\ d[l + 1] = p /\ \A i \in 1..l : d[i] = ts[i]
  BY Extended DEF Longer
<1>2. /\ w[1] = s.wait /\ \A i \in 1..(l + 1) : w[i] \in Seq(Orders)
  BY DEF Waits
<1>3. \A i \in 1..(l + 1) : i \in 1..(l + 2) /\ i # l + 2
  BY <1>1
<1>4. \A i \in 1..(l + 1) : u[i] = w[i]
  BY <1>3
<1>5. u[l + 2] = z
  <2>1. l + 2 \in 1..(l + 2)
    BY <1>1
  <2> QED
    BY <2>1
<1> HIDE DEF u
<1>6. u[1] = s.wait
  <2>1. 1 \in 1..(l + 1)
    BY <1>1
  <2> QED
    BY <2>1, <1>2, <1>4
<1>7. \A i \in 1..(l + 2) : u[i] \in Seq(Orders)
  <2>1. \A i \in 1..(l + 2) : i = l + 2 \/ i \in 1..(l + 1)
    BY <1>1
  <2> QED
    BY <2>1, <1>2, <1>4, <1>5
<1>8. ASSUME NEW i \in 1..(l + 1)
      PROVE  IF d[i].cmd = "ControlResponse" /\ d[i].what # NoMoreTasks
             THEN u[i] # <<>> /\ d[i].what = Head(u[i]) /\ u[i + 1] = Tail(u[i])
             ELSE u[i + 1] = u[i]
  <2>1. CASE i = l + 1
    <3>1. i + 1 = l + 2 /\ u[i] = y /\ d[i] = p
      BY <2>1, <1>1, <1>4
    <3> QED
      BY <3>1, <1>5
  <2>2. CASE i # l + 1
    <3>1. i \in 1..l /\ i + 1 \in 1..(l + 1)
      BY <2>2, <1>1
    <3>2. IF ts[i].cmd = "ControlResponse" /\ ts[i].what # NoMoreTasks
          THEN w[i] # <<>> /\ ts[i].what = Head(w[i]) /\ w[i + 1] = Tail(w[i])
          ELSE w[i + 1] = w[i]
      BY <3>1 DEF Waits
    <3>3. u[i + 1] = w[i + 1] /\ u[i] = w[i] /\ d[i] = ts[i]
      BY <3>1, <1>1, <1>4
    <3> QED
      BY <3>2, <3>3
  <2> QED
    BY <2>1, <2>2
<1>9. Len(d) = l + 1 /\ Len(d) + 1 = l + 2
  BY <1>1
<1> HIDE DEF l
<1>10. Waits(s, d, u)
  BY <1>6, <1>7, <1>8, <1>9 DEF Waits
<1> QED
  BY <1>5, <1>9, <1>10 DEF WaitsOn

\* As long as the client talks, it has not said goodbye.
NoGoodbye(ts) == \A i \in DOMAIN ts : ~(ts[i].cmd = "ControlResponse" /\ ts[i].what = "ClientQuit")

\* A client that is still connected has not answered a quit command.
LEMMA StillTalking ==
  ASSUME NEW s, NEW k, NEW tc, NEW ts, NEW live, Answered(s, k, tc, ts, live),
         k.open = TRUE
  PROVE  NoGoodbye(ts) /\ s.quit # 3
BY DEF Answered, NoGoodbye

\* A packet that answers no order.
LEMMA AnsweredSaying ==
  ASSUME NEW s, NEW k, NEW tc \in Seq(Packets), NEW ts \in Seq(Packets), NEW live,
         Answered(s, k, tc, ts, live), live, s.open = TRUE, k.open = TRUE,
         NEW p \in Packets, ~(p.cmd = "ControlResponse" /\ p.what # NoMoreTasks),
         NEW d, d = Append(ts, p),
         NEW n, \A r \in Seq(Orders) : Owing(k.send, r) => Owing(n.send, r)
  PROVE  Answered(s, n, tc, d, live)
<1>1. NoGoodbye(ts) /\ s.quit # 3
  BY StillTalking
<1>2. PICK w : Waits(s, ts, w) /\ \E q : Owes(k, tc, q) /\ q[Len(tc) + 1] = w[Len(ts) + 1]
  BY DEF Answered
<1>3. PICK q : Owes(k, tc, q) /\ q[Len(tc) + 1] = w[Len(ts) + 1]
  BY <1>2
<1> DEFINE y == w[Len(ts) + 1]
<1>4. y \in Seq(Orders)
  <2>1. Len(ts) + 1 \in 1..(Len(ts) + 1)
    OBVIOUS
  <2> QED
    BY <1>2, <2>1 DEF Waits
<1>5. y = w[Len(ts) + 1]
  OBVIOUS
<1> HIDE DEF y
<1>6. WaitsOn(s, d, y)
  BY <1>2, <1>4, <1>5, WaitsOnward
<1>7. PICK u : Waits(s, d, u) /\ u[Len(d) + 1] = y
  BY <1>6 DEF WaitsOn
<1>8. Owes(n, tc, q)
  <2>1. q[1] \in Seq(Orders)
    <3>1. 1 \in 1..(Len(tc) + 1)
      OBVIOUS
    <3> QED
      BY <1>3, <3>1 DEF Owes
  <2> QED
    BY <1>3, <2>1 DEF Owes
<1>9. NoGoodbye(d)
  <2>1. DOMAIN d = 1..(Len(ts) + 1) /\ d[Len(ts) + 1] = p /\ DOMAIN ts = 1..Len(ts)
        /\ \A i \in 1..Len(ts) : d[i] = ts[i]
    BY Extended DEF Longer
  <2>2. "ClientQuit" # NoMoreTasks
    BY DEF NoMoreTasks
  <2>3. ~(p.cmd = "ControlResponse" /\ p.what = "ClientQuit")
    BY <2>2
  <2>4. \A i \in DOMAIN d : i \in DOMAIN ts \/ i = Len(ts) + 1
    BY <2>1
  <2> QED
    BY <1>1, <2>1, <2>3, <2>4 DEF NoGoodbye
<1> QED
  BY <1>1, <1>3, <1>5, <1>7, <1>8, <1>9 DEF Answered, NoGoodbye

\* What is known when an order is answered: the server waits for it.
AnswerThen(s, k, tc, d, n) ==
  \E z : /\ WaitsOn(s, d, z)
         /\ \E r : Owes(n, tc, r) /\ r[Len(tc) + 1] = z

\* The answer that the client writes is the one the server waits for.
LEMMA AnswerFits ==
  ASSUME NEW s, NEW k \in ClientRecord, NEW tc \in Seq(Packets), NEW ts \in Seq(Packets),
         NEW live, Answered(s, k, tc, ts, live), live, s.open = TRUE, Given(k, tc),
         NEW p \in Packets, p.cmd = "ControlResponse", p.what # NoMoreTasks,
         First(k.send, p.what), NEW d, d = Append(ts, p),
         NEW n, n.send = WithoutFirst(k.send, p.what)
  PROVE  AnswerThen(s, k, tc, d, n)
<1> DEFINE x == p.what
<1>1. PICK w : Waits(s, ts, w) /\ \E q : Owes(k, tc, q) /\ q[Len(tc) + 1] = w[Len(ts) + 1]
  BY DEF Answered
<1>2. PICK q : Owes(k, tc, q) /\ q[Len(tc) + 1] = w[Len(ts) + 1]
  BY <1>1
<1>3. 1 \in 1..(Len(tc) + 1) /\ Len(tc) + 1 \in 1..(Len(tc) + 1)
  OBVIOUS
<1>4. q[1] \in Seq(Orders) /\ q[Len(tc) + 1] \in Seq(Orders) /\ Owing(k.send, q[1])
  BY <1>2, <1>3 DEF Owes
<1>5. k.send \in Seq(Orders \cup {NoMoreTasks})
  BY ClientRead
<1>6. q[1] # <<>> /\ Head(q[1]) = x /\ Owing(n.send, Tail(q[1]))
  <2> DEFINE r == q[1]  m == k.send
  <2>1. r \in Seq(Orders) /\ Owing(m, r) /\ m \in Seq(Orders \cup {NoMoreTasks})
        /\ First(m, x) /\ n.send = WithoutFirst(m, x) /\ x # NoMoreTasks
    BY <1>4, <1>5
  <2> HIDE DEF r, m, x
  <2>2. r # <<>> /\ Head(r) = x /\ Owing(WithoutFirst(m, x), Tail(r))
    BY <2>1, AnswerOut
  <2> QED
    BY <2>1, <2>2 DEF r
<1>7. AllOwed(q, Len(tc), x)
  BY <1>2, <1>6, OwedHead
<1>8. \A i \in 1..Len(tc) : tc[i].cmd = "ControlRequest" => tc[i].what \in Orders
  BY DEF Given, Gives
<1>9. OwedLess(n, tc, q)
  BY <1>2, <1>6, <1>7, <1>8, OwesLess
<1> DEFINE y == q[Len(tc) + 1]  z == Tail(q[Len(tc) + 1])
<1>10. y \in Seq(Orders) /\ y # <<>> /\ Head(y) = x /\ z = Tail(y) /\ y = w[Len(ts) + 1]
  BY <1>2, <1>3, <1>4, <1>7 DEF AllOwed
<1>11. \E r : Owes(n, tc, r) /\ r[Len(tc) + 1] = z
  BY <1>9 DEF OwedLess
<1> HIDE DEF y, z
<1>12. z \in Seq(Orders)
  BY <1>10
<1>13. WaitsOn(s, d, z)
  BY <1>1, <1>10, <1>12, WaitsOnward
<1> QED
  BY <1>11, <1>13 DEF AnswerThen

\* An order is answered.
LEMMA AnsweredAnswer ==
  ASSUME NEW s, NEW k \in ClientRecord, NEW tc \in Seq(Packets), NEW ts \in Seq(Packets),
         NEW live, Answered(s, k, tc, ts, live), live, s.open = TRUE, k.open = TRUE,
         Given(k, tc),
         NEW p \in Packets, p.cmd = "ControlResponse", p.what # NoMoreTasks,
         p.what # "ClientQuit", First(k.send, p.what), NEW d, d = Append(ts, p),
         NEW n, n.send = WithoutFirst(k.send, p.what)
  PROVE  Answered(s, n, tc, d, live)
<1>1. NoGoodbye(ts) /\ s.quit # 3
  BY StillTalking
<1>2. AnswerThen(s, k, tc, d, n)
  BY AnswerFits
<1>3. PICK z : WaitsOn(s, d, z) /\ \E r : Owes(n, tc, r) /\ r[Len(tc) + 1] = z
  BY <1>2 DEF AnswerThen
<1>4. PICK u : Waits(s, d, u) /\ u[Len(d) + 1] = z
  BY <1>3 DEF WaitsOn
<1>5. NoGoodbye(d)
  <2>1. DOMAIN d = 1..(Len(ts) + 1) /\ d[Len(ts) + 1] = p /\ DOMAIN ts = 1..Len(ts)
        /\ \A i \in 1..Len(ts) : d[i] = ts[i]
    BY Extended DEF Longer
  <2>2. \A i \in DOMAIN d : i \in DOMAIN ts \/ i = Len(ts) + 1
    BY <2>1
  <2> QED
    BY <1>1, <2>1, <2>2 DEF NoGoodbye
<1> QED
  BY <1>1, <1>3, <1>4, <1>5 DEF Answered, NoGoodbye

\* The client says goodbye.
LEMMA AnsweredGoodbye ==
  ASSUME NEW s, NEW k \in ClientRecord, NEW tc \in Seq(Packets), NEW ts \in Seq(Packets),
         NEW live, Answered(s, k, tc, ts, live), live, s.open = TRUE, k.open = TRUE,
         Given(k, tc),
         NEW p \in Packets, p.cmd = "ControlResponse", p.what = "ClientQuit",
         First(k.send, p.what), NEW d, d = Append(ts, p),
         NEW n, ~n.open, NEW no, ~no
  PROVE  Answered(s, n, <<>>, d, no)
<1>1. NoGoodbye(ts) /\ s.quit # 3
  BY StillTalking
<1> DEFINE m == [send |-> WithoutFirst(k.send, p.what)]
<1>2. m.send = WithoutFirst(k.send, p.what) /\ p.what # NoMoreTasks
  BY DEF NoMoreTasks
<1> HIDE DEF m
<1>3. AnswerThen(s, k, tc, d, m)
  BY <1>2, AnswerFits
<1>4. PICK z : WaitsOn(s, d, z)
  BY <1>3 DEF AnswerThen
<1>5. PICK u : Waits(s, d, u)
  BY <1>4 DEF WaitsOn
<1>6. ASSUME NEW i \in DOMAIN d, d[i].cmd = "ControlResponse", d[i].what = "ClientQuit"
      PROVE  i = Len(d)
  <2>1. DOMAIN d = 1..(Len(ts) + 1) /\ Len(d) = Len(ts) + 1 /\ DOMAIN ts = 1..Len(ts)
        /\ \A j \in 1..Len(ts) : d[j] = ts[j]
    BY Extended DEF Longer
  <2>2. i \in DOMAIN ts \/ i = Len(d)
    BY <2>1
  <2> QED
    BY <1>1, <1>6, <2>1, <2>2 DEF NoGoodbye
<1> QED
  BY <1>1, <1>5, <1>6 DEF Answered

\* What the server will know is of the server's kind, and about a task of the client.
LEMMA ThenIs ==
  ASSUME NEW k \in ClientRecord, ClientSane(k)
  PROVE  Then(k).tdi \in Getting /\ Then(k).tdi.task \in Own(k) \cup {NoTask}
<1>1. Talking(k)
  BY DEF ClientSane
<1>2. /\ k.tdi.act # "None" => k.tdi.task # NoTask
      /\ k.tdi.task # NoTask => k.tdi.task \in Own(k) /\ k.tdi.act # "None"
      /\ k.tdi \in Reporting
  BY <1>1, TellingIs
<1>3. /\ k.out.cmd = "FileUpload" => k.tdi.n > 0
      /\ k.tdi.act = "FileSendB" => k.tdi.n > 0
  <2>1. k.tdi.act = "FileSendB" => k.tdi.n > 0
    BY <1>1 DEF Talking, ClientOut
  <2>2. k.out.cmd = "FileUpload" => k.tdi.n > 0
    BY <1>1, OutSays
  <2> QED
    BY <2>1, <2>2
<1>4. NoTdi \in Getting /\ NoTdi.task = NoTask
  BY Nothing DEF NoTdi
<1>5. k.run \in [Tasks -> Verdicts] /\ k.tdi.n \in Nat /\ k.tdi.task \in Held
  BY <1>2, ClientRead DEF Reporting
<1>6. CASE k.tdi.act \in {"None", "SendDone"}
  <2>1. Then(k).tdi = NoTdi
    BY <1>6 DEF Then
  <2> QED
    BY <2>1, <1>4
<1>7. CASE k.tdi.act \notin {"None", "SendDone"}
  <2> DEFINE g == IF k.out.cmd = "FileUpload" \/ k.tdi.act = "FileSendB"
                  THEN k.tdi.n - 1 ELSE k.tdi.n
             a == IF k.tdi.act = "FileSendB" THEN "UploadBody" ELSE "WaitForResp"
  <2>1. g \in Nat
    BY <1>3, <1>5
  <2>2. a \in {"None", "WaitForResp", "UploadBody"}
    OBVIOUS
  <2>3. Then(k).tdi = [task |-> k.tdi.task, save |-> k.run[k.tdi.task], state |-> a, got |-> g]
    BY <1>7 DEF Then
  <2> HIDE DEF g, a
  <2>4. k.tdi.task \in Tasks /\ k.tdi.task \in Own(k)
    BY <1>2, <1>5, <1>7 DEF Held
  <2>5. k.run[k.tdi.task] \in Verdicts
    BY <1>5, <2>4
  <2> QED
    BY <1>5, <2>1, <2>2, <2>3, <2>4, <2>5 DEF Getting
<1> QED
  BY <1>6, <1>7

\* The views when one packet more is written.
ViewedThen(s, d, y) == \E u : Views(s, d, u) /\ u[Len(d) + 1] = y
Unreported(ts, y) == \A i \in 1..Len(ts) : ts[i].cmd = "DoneComplete" => y.tdi.task # ts[i].task

\* A packet more for the server: the views go on to the one it leads to.
LEMMA SaidMore ==
  ASSUME NEW s, NEW ts \in Seq(Packets), NEW v, Views(s, ts, v), NEW p \in Packets,
         NEW d, d = Append(ts, p), NEW x, x = v[Len(ts) + 1], NEW y, Hears(x, p, y),
         y.tdi \in Getting, y.tdi.task \in Assigned(s) \cup {NoTask}, Unreported(ts, y)
  PROVE  ViewedThen(s, d, y)
<1> DEFINE l == Len(ts)
           u == [i \in 1..(l + 2) |-> IF i = l + 2 THEN y ELSE v[i]]
<1>1. l \in Nat /\ Len(d) = l + 1 /\ d[l + 1] = p /\ \A i \in 1..l : d[i] = ts[i]
  BY Extended DEF Longer
<1>2. /\ v[1] = Now(s)
      /\ \A i \in 1..l : Hears(v[i], ts[i], v[i + 1])
      /\ \A i \in 1..(l + 1) : v[i].tdi \in Getting /\ v[i].tdi.task \in Assigned(s) \cup {NoTask}
      /\ \A i \in 1..l : ts[i].cmd = "DoneComplete" =>
           \A j \in (i + 1)..(l + 1) : v[j].tdi.task # ts[i].task
  BY DEF Views
<1>3. \A i \in 1..(l + 1) : i \in 1..(l + 2) /\ i # l + 2
  BY <1>1
<1>4. \A i \in 1..(l + 1) : u[i] = v[i]
  BY <1>3
<1>5. u[l + 2] = y
  <2>1. l + 2 \in 1..(l + 2)
    BY <1>1
  <2> QED
    BY <2>1
<1> HIDE DEF u
<1>6. u[1] = Now(s)
  <2>1. 1 \in 1..(l + 1)
    BY <1>1
  <2> QED
    BY <2>1, <1>2, <1>4
<1>7. \A i \in 1..(l + 2) : u[i].tdi \in Getting /\ u[i].tdi.task \in Assigned(s) \cup {NoTask}
  <2>1. \A i \in 1..(l + 2) : i = l + 2 \/ i \in 1..(l + 1)
    BY <1>1
  <2> QED
    BY <2>1, <1>2, <1>4, <1>5
<1>8. \A i \in 1..(l + 1) : Hears(u[i], d[i], u[i + 1])
  <2> SUFFICES ASSUME NEW i \in 1..(l + 1) PROVE Hears(u[i], d[i], u[i + 1])
    OBVIOUS
  <2>1. CASE i = l + 1
    <3>1. i + 1 = l + 2 /\ u[i] = x /\ d[i] = p
      BY <2>1, <1>1, <1>4
    <3> QED
      BY <3>1, <1>5
  <2>2. CASE i # l + 1
    <3>1. i \in 1..l /\ i + 1 \in 1..(l + 1)
      BY <2>2, <1>1
    <3>2. u[i + 1] = v[i + 1] /\ u[i] = v[i] /\ d[i] = ts[i]
      BY <3>1, <1>1, <1>4
    <3> QED
      BY <3>1, <3>2, <1>2
  <2> QED
    BY <2>1, <2>2
<1>9. ASSUME NEW i \in 1..(l + 1), d[i].cmd = "DoneComplete", NEW j \in (i + 1)..(l + 2)
      PROVE  u[j].tdi.task # d[i].task
  <2>1. CASE i = l + 1
    <3>1. j = l + 2 /\ d[i] = p
      BY <2>1, <1>1
    <3>2. p.task # NoTask /\ y.tdi = NoTdi
      BY <1>9, <3>1 DEF Hears
    <3>3. NoTdi.task = NoTask
      BY DEF NoTdi
    <3> QED
      BY <1>5, <3>1, <3>2, <3>3
  <2>2. CASE i # l + 1
    <3>1. i \in 1..l /\ d[i] = ts[i]
      BY <2>2, <1>1
    <3>2. CASE j = l + 2
      BY <1>5, <1>9, <3>1, <3>2 DEF Unreported
    <3>3. CASE j # l + 2
      <4>1. j \in (i + 1)..(l + 1) /\ j \in 1..(l + 1)
        BY <1>1, <3>1, <3>3
      <4>2. u[j] = v[j]
        BY <1>4, <4>1
      <4>3. ts[i].cmd = "DoneComplete"
        BY <1>9, <3>1
      <4>4. v[j].tdi.task # ts[i].task
        BY <1>2, <3>1, <4>1, <4>3
      <4> QED
        BY <3>1, <4>2, <4>4
    <3> QED
      BY <3>2, <3>3
  <2> QED
    BY <2>1, <2>2
<1>10. Len(d) = l + 1 /\ Len(d) + 1 = l + 2
  BY <1>1
<1> HIDE DEF l
<1>11. Views(s, d, u)
  BY <1>6, <1>7, <1>8, <1>9, <1>10 DEF Views
<1> QED
  BY <1>5, <1>10, <1>11 DEF ViewedThen

\* What the client says next is understood.
LEMMA SayingReports ==
  ASSUME NEW s, NEW k, NEW tc, NEW ts, NEW c, Sound(s, k, tc, ts, c), s.open = TRUE,
         k.open = TRUE, c = FALSE, NEW y, Hears(Then(k), k.out, y), y.tdi \in Getting,
         y.tdi.task \in Own(k) \cup {NoTask}, NEW d, d = Append(ts, k.out)
  PROVE  ViewedThen(s, d, y)
<1> DEFINE live == s.open /\ k.open /\ ~c
<1>1. /\ Linked(s, k, tc, ts, live) /\ k \in ClientRecord /\ ts \in Seq(Packets)
      /\ Located(s, k, tc, ts)
  BY DEF Sound, Linked
<1>2. PICK v : Views(s, ts, v) /\ v[Len(ts) + 1] = Then(k)
  BY <1>1 DEF Linked, Reports
<1>3. k.out \in Packets
  BY <1>1, ClientRead
<1>4. Own(k) \subseteq Has(k) /\ Own(k) \subseteq Tasks
  BY <1>1, OwnType
<1>5. y.tdi.task \in Assigned(s) \cup {NoTask}
  BY <1>1, <1>4 DEF Located, Assigned
<1>6. Unreported(ts, y)
  <2> SUFFICES ASSUME NEW i \in 1..Len(ts), ts[i].cmd = "DoneComplete", y.tdi.task = ts[i].task
               PROVE  FALSE
    BY DEF Unreported
  <2>1. Hears(v[i], ts[i], v[i + 1])
    BY <1>2 DEF Views
  <2>2. ts[i].task # NoTask
    BY <2>1 DEF Hears
  <2>3. y.tdi.task \in Tasks /\ y.tdi.task \in Has(k)
    BY <1>4, <2>2
  <2>4. Returning(ts, y.tdi.task)
    BY <1>1 DEF Returning
  <2> QED
    BY <1>1, <2>3, <2>4 DEF Located
<1> QED
  BY <1>1, <1>2, <1>3, <1>5, <1>6, SaidMore

\* What is on its way to the client may come all the same
LEMMA GivenKept ==
  ASSUME NEW k, NEW tc, Given(k, tc), NEW n, n.tri = k.tri, Own(n) \subseteq Own(k)
  PROVE  Given(n, tc)
BY DEF Given

\* to a client that receives nothing right now:
LEMMA GivenSilence ==
  ASSUME NEW k, NEW tc \in Seq(Packets), Given(k, tc), k.tri.task # NoTask,
         k.tri.act \notin {"FileRecvH", "FileRecvB"}
  PROVE  Silent(tc)
<1> SUFFICES ASSUME NEW i \in DOMAIN tc, Gives(tc[i]) PROVE FALSE
  BY DEF Silent
<1>1. DOMAIN tc = 1..Len(tc) /\ Len(tc) \in Nat
  OBVIOUS
<1>2. tc[i].cmd = "FileBody"
  BY DEF Given, Gives
<1>3. i # 1 /\ tc[i - 1].cmd = "FileDownload"
  BY <1>2 DEF Given
<1>4. i - 1 \in DOMAIN tc
  BY <1>1, <1>3
<1> QED
  BY <1>3, <1>4 DEF Given

\* then there are orders only.
LEMMA GivenQuietly ==
  ASSUME NEW k, NEW tc, Given(k, tc), Silent(tc), NEW n, n.tri.act # "FileRecvB"
  PROVE  Given(n, tc)
<1>1. \A i \in DOMAIN tc : tc[i].cmd = "ControlRequest" /\ tc[i].what \in Orders
  BY DEF Given, Silent
<1> QED
  BY <1>1 DEF Given

\* The packet at the end.
LEMMA EndOf ==
  ASSUME NEW ts \in Seq(Packets), NEW p \in Packets, NEW d, d = Append(ts, p)
  PROVE  /\ \A i \in DOMAIN ts : i \in DOMAIN d /\ d[i] = ts[i]
         /\ Len(d) \in DOMAIN d /\ d[Len(d)] = p /\ Len(d) \notin DOMAIN ts
         /\ \A i \in DOMAIN d : i \in DOMAIN ts \/ i = Len(d)
<1>1. /\ Len(d) = Len(ts) + 1 /\ DOMAIN d = 1..(Len(ts) + 1) /\ d[Len(ts) + 1] = p
      /\ \A i \in 1..Len(ts) : d[i] = ts[i]
      /\ DOMAIN ts = 1..Len(ts) /\ Len(ts) \in Nat
  BY Extended DEF Longer
<1> QED
  BY <1>1

\* What comes still comes,
LEMMA ComesStill ==
  ASSUME NEW ts \in Seq(Packets), NEW p \in Packets, NEW d, d = Append(ts, p), NEW x
  PROVE  Comes(ts, x) => Comes(d, x)
<1>1. \A i \in DOMAIN ts : i \in DOMAIN d /\ d[i] = ts[i]
  BY EndOf
<1> QED
  BY <1>1 DEF Comes

\* what has been requested is requested,
LEMMA RequestedStill ==
  ASSUME NEW ts \in Seq(Packets), NEW p \in Packets, NEW d, d = Append(ts, p), NEW x,
         Requested(ts, x)
  PROVE  Requested(d, x)
<1>1. \A i \in DOMAIN ts : i \in DOMAIN d /\ d[i] = ts[i]
  BY EndOf
<1> QED
  BY <1>1 DEF Requested

\* what asks nothing asks nothing,
LEMMA QuietStill ==
  ASSUME NEW ts \in Seq(Packets), NEW p \in Packets, NEW d, d = Append(ts, p), Quiet(ts),
         ~Asks(p)
  PROVE  Quiet(d)
<1>1. /\ \A i \in DOMAIN ts : i \in DOMAIN d /\ d[i] = ts[i]
      /\ Len(d) \in DOMAIN d /\ d[Len(d)] = p
      /\ \A i \in DOMAIN d : i \in DOMAIN ts \/ i = Len(d)
  BY EndOf
<1> QED
  BY <1>1 DEF Quiet

\* and a task comes back when it has been reported.
LEMMA ReturningThen ==
  ASSUME NEW ts \in Seq(Packets), NEW p \in Packets, NEW d, d = Append(ts, p), NEW t
  PROVE  /\ p.cmd # "DoneComplete" => (Returning(d, t) <=> Returning(ts, t))
         /\ p.cmd = "DoneComplete" => (Returning(d, t) <=> Returning(ts, t) \/ t = p.task)
<1>1. /\ \A i \in DOMAIN ts : i \in DOMAIN d /\ d[i] = ts[i]
      /\ Len(d) \in DOMAIN d /\ d[Len(d)] = p
      /\ \A i \in DOMAIN d : i \in DOMAIN ts \/ i = Len(d)
  BY EndOf
<1>5. Returning(ts, t) => Returning(d, t)
  BY <1>1 DEF Returning
<1>6. Returning(d, t) => Returning(ts, t) \/ (p.cmd = "DoneComplete" /\ p.task = t)
  BY <1>1 DEF Returning
<1>7. p.cmd = "DoneComplete" /\ t = p.task => Returning(d, t)
  BY <1>1 DEF Returning
<1> QED
  BY <1>5, <1>6, <1>7

\* A packet that asks nothing
LEMMA AskedBefore ==
  ASSUME NEW s, NEW ts \in Seq(Packets), Asked(s, ts), NEW p \in Packets, ~Asks(p),
         NEW d, d = Append(ts, p)
  PROVE  Asked(s, d)
<1>1. /\ \A i \in DOMAIN ts : i \in DOMAIN d /\ d[i] = ts[i]
      /\ Len(d) \in DOMAIN d /\ d[Len(d)] = p
      /\ \A i \in DOMAIN d : i \in DOMAIN ts \/ i = Len(d)
  BY EndOf
<1>2. \A i \in DOMAIN d : Asks(d[i]) => i \in DOMAIN ts /\ d[i] = ts[i] /\ Asks(ts[i])
  BY <1>1
<1> QED
  BY <1>2 DEF Asked

\* and one that asks.
LEMMA AskedNow ==
  ASSUME NEW s, NEW ts \in Seq(Packets), Quiet(ts), NEW p \in Packets,
         s.tri.state = "WaitForResponse", s.tri.task = p.task,
         p.cmd = "TaskResponse" => p.what = "Accepted", NEW d, d = Append(ts, p)
  PROVE  Asked(s, d)
<1>1. /\ \A i \in DOMAIN ts : i \in DOMAIN d /\ d[i] = ts[i]
      /\ Len(d) \in DOMAIN d /\ d[Len(d)] = p
      /\ \A i \in DOMAIN d : i \in DOMAIN ts \/ i = Len(d)
  BY EndOf
<1>2. \A i \in DOMAIN d : Asks(d[i]) => i = Len(d) /\ d[i] = p
  BY <1>1 DEF Quiet
<1> QED
  BY <1>2 DEF Asked

\* Both stay where they are when the client talks about something else.
LEMMA InStepTalking ==
  ASSUME NEW s \in ServerRecord, NEW k, NEW tc, NEW ts \in Seq(Packets),
         InStep(s, k, tc, ts), NEW p \in Packets, ~Asks(p), NEW d, d = Append(ts, p),
         NEW n, n.tri = k.tri
  PROVE  InStep(s, n, tc, d)
<1>3. Comes(ts, "TaskResponse") => Comes(d, "TaskResponse")
  BY ComesStill
<1>4. Requested(ts, k.tri.n) => Requested(d, k.tri.n)
  <2> DEFINE x == k.tri.n
  <2>1. x = k.tri.n
    OBVIOUS
  <2> HIDE DEF x
  <2>2. Requested(ts, x) => Requested(d, x)
    BY RequestedStill
  <2> QED
    BY <2>1, <2>2
<1>5. Quiet(ts) => Quiet(d)
  BY QuietStill
<1>1. /\ Comes(ts, "TaskResponse") => Comes(d, "TaskResponse")
      /\ Requested(ts, k.tri.n) => Requested(d, k.tri.n)
      /\ Quiet(ts) => Quiet(d)
  BY <1>3, <1>4, <1>5
<1>2. Underway(s, k, tc, ts) => Underway(s, n, tc, d)
  BY <1>1 DEF Underway, Requested
<1> QED
  BY <1>2, InStepIs

\* When it asks, the server waits for that.
LEMMA AskingInStep ==
  ASSUME NEW s \in ServerRecord, NEW k \in ClientRecord, NEW tc, NEW ts,
         InStep(s, k, tc, ts), Silent(tc), k.tri.task # NoTask,
         k.tri.act \in {"None", "FileReq", "Response"}
  PROVE  /\ s.tri.state = "WaitForResponse" /\ s.tri.task = k.tri.task
         /\ k.tri.resp = "Accepted" /\ Quiet(ts) /\ k.tri.act # "None"
<1>1. s.tri.state \in {"None", "SendTaskRequest", "WaitForResponse", "SendFileDownloadH",
                       "SendFileDownloadB"}
  BY ServerRead DEF Sending
<1>2. s.tri.state = "WaitForResponse"
  BY <1>1, InStepIs
<1>3. Underway(s, k, tc, ts)
  BY <1>2, InStepIs
<1>4. ~\E i \in DOMAIN tc : tc[i].cmd = "TaskRequest" /\ tc[i].task = s.tri.task
  BY DEF Silent, Gives
<1> QED
  BY <1>2, <1>3, <1>4 DEF Underway

\* Written, whatever it is.
LEMMA SaySound ==
  ASSUME NEW s, NEW k, NEW tc, NEW ts, NEW c, Sound(s, k, tc, ts, c), k.open = TRUE,
         NEW n \in ClientRecord, ClientSane(n), n.open = TRUE, Given(n, tc),
         NEW d \in Seq(Packets), ~s.open \/ c => d = ts,
         s.open /\ ~c =>
           /\ ViewedThen(s, d, Then(n)) /\ Answered(s, n, tc, d, s.open /\ k.open /\ ~c)
           /\ Asked(s, d) /\ InStep(s, n, tc, d) /\ Located(s, n, tc, d)
  PROVE  Sound(s, n, tc, d, c)
<1> DEFINE live == s.open /\ k.open /\ ~c
<1>1. /\ Linked(s, k, tc, ts, live) /\ c \in BOOLEAN /\ (~s.open \/ c => ts = <<>>)
      /\ (~k.open \/ c => tc = <<>>)
  BY DEF Sound
<1>2. (s.open /\ n.open /\ ~c) = live
  BY <1>1
<1>3. CASE s.open /\ ~c
  <2>1. Reports(s, n, d, live)
    BY <1>3 DEF ViewedThen, Reports
  <2>2. Linked(s, n, tc, d, live)
    BY <1>1, <1>3, <2>1 DEF Linked
  <2> QED
    BY <1>1, <1>2, <1>3, <2>2 DEF Sound
<1>4. CASE ~s.open \/ c
  <2>1. d = ts /\ ~live
    BY <1>4
  <2>2. Reports(s, n, ts, live)
    BY <1>1, <2>1 DEF Linked, Reports
  <2>3. Answered(s, n, tc, ts, live)
    <3>1. NoGoodbye(ts) /\ s.quit # 3
      BY <1>1, StillTalking DEF Linked
    <3> QED
      BY <1>1, <2>1, <3>1 DEF Linked, Answered, NoGoodbye
  <2>4. Linked(s, n, tc, d, live)
    BY <1>1, <2>1, <2>2, <2>3 DEF Linked
  <2> QED
    BY <1>1, <1>2, <1>4, <2>1, <2>4 DEF Sound
<1> QED
  BY <1>3, <1>4

\* Where a packet of the client goes.
WrittenTo(s, ts, c, p, d) == d = IF s.open /\ ~c THEN Append(ts, p) ELSE ts

\* What the answers must be while the connection stands.
AnswersStand(s, k, c, n, tc, d) ==
  s.open /\ ~c => Answered(s, n, tc, d, s.open /\ k.open /\ ~c)

\* What writing a packet starts from.
LEMMA Writing ==
  ASSUME NEW s, NEW k, NEW tc, NEW ts, NEW c, Sound(s, k, tc, ts, c), k.open = TRUE,
         NEW d, WrittenTo(s, ts, c, k.out, d)
  PROVE  /\ s \in ServerRecord /\ ServerSane(s) /\ k \in ClientRecord /\ ClientSane(k)
         /\ tc \in Seq(Packets) /\ ts \in Seq(Packets) /\ d \in Seq(Packets)
         /\ k.out \in Packets /\ Asked(s, ts) /\ Given(k, tc)
         /\ (s.open /\ ~c => d = Append(ts, k.out)) /\ (~s.open \/ c => d = ts)
         /\ s.open \in BOOLEAN /\ c \in BOOLEAN
<1>1. /\ s \in ServerRecord /\ ServerSane(s) /\ k \in ClientRecord /\ ClientSane(k)
      /\ tc \in Seq(Packets) /\ ts \in Seq(Packets) /\ Asked(s, ts) /\ Given(k, tc)
      /\ c \in BOOLEAN
  BY DEF Sound, Linked
<1>2. k.out \in Packets /\ s.open \in BOOLEAN
  BY <1>1, ClientRead, ServerRead
<1>3. (s.open /\ ~c => d = Append(ts, k.out)) /\ (~s.open \/ c => d = ts)
  BY DEF WrittenTo
<1>4. Append(ts, k.out) \in Seq(Packets)
  BY <1>1, <1>2, Extended
<1>5. d \in Seq(Packets)
  BY <1>1, <1>3, <1>4
<1> QED
  BY <1>1, <1>2, <1>3, <1>5

\* The connection stands.
LEMMA WritingLive ==
  ASSUME NEW s, NEW k, NEW tc, NEW ts, NEW c, Sound(s, k, tc, ts, c), k.open = TRUE,
         s.open = TRUE, c = FALSE
  PROVE  /\ Answered(s, k, tc, ts, s.open /\ k.open /\ ~c) /\ (s.open /\ k.open /\ ~c)
         /\ InStep(s, k, tc, ts) /\ Located(s, k, tc, ts)
  BY DEF Sound, Linked

\* Who has the tasks when nothing is completed.
LEMMA LocatedTalking ==
  ASSUME NEW s, NEW k, NEW tc, NEW ts \in Seq(Packets), Located(s, k, tc, ts),
         NEW p \in Packets, p.cmd # "DoneComplete", NEW d, d = Append(ts, p),
         NEW n, Has(n) = Has(k)
  PROVE  Located(s, n, tc, d)
<1>1. \A t : Returning(d, t) <=> Returning(ts, t)
  BY ReturningThen
<1> QED
  BY <1>1 DEF Located

\* The client talks about something else than the task it receives.
LEMMA PlainSaid ==
  ASSUME NEW s, NEW k, NEW tc, NEW ts, NEW c, Sound(s, k, tc, ts, c), k.open = TRUE,
         NEW n \in ClientRecord, ClientSane(n), n.open = TRUE, n.tri = k.tri,
         Own(n) = Own(k), Hears(Then(k), k.out, Then(n)), ~Asks(k.out),
         k.out.cmd # "DoneComplete", NEW d, WrittenTo(s, ts, c, k.out, d),
         AnswersStand(s, k, c, n, tc, d)
  PROVE  Sound(s, n, tc, d, c)
<1>1. /\ s \in ServerRecord /\ ServerSane(s) /\ k \in ClientRecord /\ ClientSane(k)
      /\ tc \in Seq(Packets) /\ ts \in Seq(Packets) /\ d \in Seq(Packets)
      /\ k.out \in Packets /\ Asked(s, ts) /\ Given(k, tc)
      /\ (s.open /\ ~c => d = Append(ts, k.out)) /\ (~s.open \/ c => d = ts)
      /\ s.open \in BOOLEAN /\ c \in BOOLEAN
  BY Writing
<1>2. Given(n, tc)
  <2>1. Own(n) \subseteq Own(k)
    OBVIOUS
  <2> QED
    BY <1>1, <2>1, GivenKept
<1>3. ASSUME s.open = TRUE, c = FALSE
      PROVE  /\ ViewedThen(s, d, Then(n)) /\ Asked(s, d) /\ InStep(s, n, tc, d)
             /\ Located(s, n, tc, d)
  <2>1. d = Append(ts, k.out)
    BY <1>1, <1>3
  <2>2. ViewedThen(s, d, Then(n))
    <3> DEFINE y == Then(n)
    <3>1. y.tdi \in Getting /\ y.tdi.task \in Own(k) \cup {NoTask}
      BY ThenIs
    <3>2. Hears(Then(k), k.out, y)
      OBVIOUS
    <3> HIDE DEF y
    <3>3. ViewedThen(s, d, y)
      BY <1>3, <2>1, <3>1, <3>2, SayingReports
    <3> QED
      BY <3>3 DEF y
  <2>3. Asked(s, d)
    BY <1>1, <2>1, AskedBefore
  <2>4. InStep(s, k, tc, ts) /\ Located(s, k, tc, ts)
    BY <1>3, WritingLive
  <2>5. InStep(s, n, tc, d)
    BY <1>1, <2>1, <2>4, InStepTalking
  <2>6. Has(n) = Has(k)
    BY <1>1, OwnType
  <2>7. Located(s, n, tc, d)
    BY <1>1, <2>1, <2>4, <2>6, LocatedTalking
  <2> QED
    BY <2>2, <2>3, <2>5, <2>7
<1>4. s.open /\ ~c =>
        /\ ViewedThen(s, d, Then(n)) /\ Answered(s, n, tc, d, s.open /\ k.open /\ ~c)
        /\ Asked(s, d) /\ InStep(s, n, tc, d) /\ Located(s, n, tc, d)
  BY <1>1, <1>3 DEF AnswersStand
<1>5. ~s.open \/ c => d = ts
  BY <1>1
<1> QED
  BY <1>1, <1>2, <1>4, <1>5, SaySound

\* It owes what it owed.
NoAnswer(p) == ~(p.cmd = "ControlResponse" /\ p.what # NoMoreTasks)
KeepsOwing(k, n) == \A r \in Seq(Orders) : Owing(k.send, r) => Owing(n.send, r)

\* A packet that is no answer leaves the client owing what it owed.
LEMMA StillOwing ==
  ASSUME NEW s, NEW k, NEW tc, NEW ts, NEW c, Sound(s, k, tc, ts, c), k.open = TRUE,
         NEW d, WrittenTo(s, ts, c, k.out, d),
         NoAnswer(k.out), NEW n, KeepsOwing(k, n)
  PROVE  AnswersStand(s, k, c, n, tc, d)
<1>1. /\ s \in ServerRecord /\ ServerSane(s) /\ k \in ClientRecord /\ ClientSane(k)
      /\ tc \in Seq(Packets) /\ ts \in Seq(Packets) /\ d \in Seq(Packets)
      /\ k.out \in Packets /\ Asked(s, ts) /\ Given(k, tc)
      /\ (s.open /\ ~c => d = Append(ts, k.out)) /\ (~s.open \/ c => d = ts)
      /\ s.open \in BOOLEAN /\ c \in BOOLEAN
  BY Writing
<1> DEFINE live == s.open /\ k.open /\ ~c
<1> DEFINE p == k.out
<1> SUFFICES ASSUME s.open = TRUE, c = FALSE PROVE Answered(s, n, tc, d, live)
  BY <1>1 DEF AnswersStand
<1>5. d = Append(ts, p) /\ p \in Packets
  BY <1>1
<1>2. Answered(s, k, tc, ts, live) /\ live
  BY WritingLive
<1>3. ~(p.cmd = "ControlResponse" /\ p.what # NoMoreTasks)
  BY DEF NoAnswer
<1>6. \A r \in Seq(Orders) : Owing(k.send, r) => Owing(n.send, r)
  BY DEF KeepsOwing
<1> HIDE DEF live, p
<1> QED
  BY <1>1, <1>2, <1>3, <1>5, <1>6, AnsweredSaying

\* A greeting, a report or a file.
LEMMA TalkSound ==
  ASSUME NEW s, NEW k, NEW tc, NEW ts, NEW c, Sound(s, k, tc, ts, c), k.open = TRUE,
         k.out.cmd \in {"NowConnected", "TaskDone", "FileUpload", "FileBody"},
         NEW d, WrittenTo(s, ts, c, k.out, d), NEW n, n = ClientSent(k)
  PROVE  n \in ClientRecord /\ ClientSane(n) /\ n.open /\ Sound(s, n, tc, d, c)
<1>1. k \in ClientRecord /\ ClientSane(k)
  BY DEF Sound, Linked
<1>2. /\ n \in ClientRecord /\ ClientSane(n) /\ n.open = k.open /\ n.send = k.send
      /\ n.tri = k.tri /\ Own(n) = Own(k) /\ Hears(Then(k), k.out, Then(n))
  <2>1. CASE k.out.cmd = "NowConnected"
    BY <1>1, <2>1, SentGreeting
  <2>2. CASE k.out.cmd = "TaskDone"
    BY <1>1, <2>2, SentDone
  <2>3. CASE k.out.cmd = "FileUpload"
    BY <1>1, <2>3, SentHeader
  <2>4. CASE k.out.cmd = "FileBody"
    BY <1>1, <2>4, SentBody
  <2> QED
    BY <2>1, <2>2, <2>3, <2>4
<1>3. n.open = TRUE /\ KeepsOwing(k, n)
  BY <1>2 DEF KeepsOwing
<1>4. /\ ~Asks(k.out) /\ k.out.cmd # "DoneComplete"
      /\ NoAnswer(k.out)
  BY DEF Asks, NoAnswer
<1>5. AnswersStand(s, k, c, n, tc, d)
  BY <1>3, <1>4, StillOwing
<1>6. Sound(s, n, tc, d, c)
  BY <1>2, <1>3, <1>4, <1>5, PlainSaid
<1> QED
  BY <1>2, <1>3, <1>6

\* The notice that it wants no more tasks.
LEMMA NoticeSound ==
  ASSUME NEW s, NEW k, NEW tc, NEW ts, NEW c, Sound(s, k, tc, ts, c), k.open = TRUE,
         k.out.cmd = "ControlResponse", k.out.what = NoMoreTasks,
         NEW d, WrittenTo(s, ts, c, k.out, d), NEW n, n = ClientSent(k)
  PROVE  n \in ClientRecord /\ ClientSane(n) /\ n.open /\ Sound(s, n, tc, d, c)
<1>1. k \in ClientRecord /\ ClientSane(k)
  BY DEF Sound, Linked
<1>2. /\ n \in ClientRecord /\ ClientSane(n) /\ First(k.send, k.out.what)
      /\ n.open = k.open /\ n.send = WithoutFirst(k.send, k.out.what)
      /\ n.tri = k.tri /\ Own(n) = Own(k) /\ Hears(Then(k), k.out, Then(n))
  BY <1>1, SentAnswer DEF NoMoreTasks
<1>3. KeepsOwing(k, n)
  <2>1. k.send \in Seq(Orders \cup {NoMoreTasks}) /\ First(k.send, NoMoreTasks)
    BY <1>1, <1>2, ClientRead
  <2>2. ASSUME NEW r \in Seq(Orders), Owing(k.send, r) PROVE Owing(n.send, r)
    BY <1>2, <2>1, <2>2, NoticeOut
  <2> QED
    BY <2>2 DEF KeepsOwing
<1>4. n.open = TRUE
  BY <1>2
<1>5. /\ ~Asks(k.out) /\ k.out.cmd # "DoneComplete"
      /\ NoAnswer(k.out)
  BY DEF Asks, NoAnswer
<1>6. AnswersStand(s, k, c, n, tc, d)
  BY <1>3, <1>5, StillOwing
<1>7. Sound(s, n, tc, d, c)
  BY <1>2, <1>4, <1>5, <1>6, PlainSaid
<1> QED
  BY <1>2, <1>4, <1>7

\* The answer to an order.
LEMMA RepliedSound ==
  ASSUME NEW s, NEW k, NEW tc, NEW ts, NEW c, Sound(s, k, tc, ts, c), k.open = TRUE,
         k.out.cmd = "ControlResponse", k.out.what # NoMoreTasks, k.out.what # "ClientQuit",
         NEW d, WrittenTo(s, ts, c, k.out, d), NEW n, n = ClientSent(k)
  PROVE  n \in ClientRecord /\ ClientSane(n) /\ n.open /\ Sound(s, n, tc, d, c)
<1>1. /\ s \in ServerRecord /\ ServerSane(s) /\ k \in ClientRecord /\ ClientSane(k)
      /\ tc \in Seq(Packets) /\ ts \in Seq(Packets) /\ d \in Seq(Packets)
      /\ k.out \in Packets /\ Asked(s, ts) /\ Given(k, tc)
      /\ (s.open /\ ~c => d = Append(ts, k.out)) /\ (~s.open \/ c => d = ts)
      /\ s.open \in BOOLEAN /\ c \in BOOLEAN
  BY Writing
<1>2. /\ n \in ClientRecord /\ ClientSane(n) /\ First(k.send, k.out.what)
      /\ n.open = k.open /\ n.send = WithoutFirst(k.send, k.out.what)
      /\ n.tri = k.tri /\ Own(n) = Own(k) /\ Hears(Then(k), k.out, Then(n))
  BY <1>1, SentAnswer
<1>4. n.open = TRUE
  BY <1>2
<1>5. ~Asks(k.out) /\ k.out.cmd # "DoneComplete"
  BY DEF Asks
<1>6. AnswersStand(s, k, c, n, tc, d)
  <2> DEFINE live == s.open /\ k.open /\ ~c
  <2> DEFINE p == k.out
  <2> SUFFICES ASSUME s.open = TRUE, c = FALSE PROVE Answered(s, n, tc, d, live)
    BY <1>1 DEF AnswersStand
  <2>1. /\ d = Append(ts, p) /\ p \in Packets /\ p.cmd = "ControlResponse"
        /\ p.what # NoMoreTasks /\ p.what # "ClientQuit" /\ First(k.send, p.what)
        /\ n.send = WithoutFirst(k.send, p.what)
    BY <1>1, <1>2
  <2>2. Answered(s, k, tc, ts, live) /\ live
    BY WritingLive
  <2> HIDE DEF live, p
  <2> QED
    BY <1>1, <2>1, <2>2, AnsweredAnswer
<1>7. Sound(s, n, tc, d, c)
  BY <1>2, <1>4, <1>5, <1>6, PlainSaid
<1> QED
  BY <1>2, <1>4, <1>7

\* The answer with which it leaves.
LEMMA GoodbyeSound ==
  ASSUME NEW s, NEW k, NEW tc, NEW ts, NEW c, Sound(s, k, tc, ts, c), k.open = TRUE,
         k.out.cmd = "ControlResponse", k.out.what = "ClientQuit",
         NEW d, WrittenTo(s, ts, c, k.out, d), NEW n, n = ClientSent(k)
  PROVE  n \in ClientRecord /\ ~n.open /\ Sound(s, n, <<>>, d, c)
<1>1. /\ s \in ServerRecord /\ ServerSane(s) /\ k \in ClientRecord /\ ClientSane(k)
      /\ tc \in Seq(Packets) /\ ts \in Seq(Packets) /\ d \in Seq(Packets)
      /\ k.out \in Packets /\ Asked(s, ts) /\ Given(k, tc)
      /\ (s.open /\ ~c => d = Append(ts, k.out)) /\ (~s.open \/ c => d = ts)
      /\ s.open \in BOOLEAN /\ c \in BOOLEAN
  BY Writing
<1>2. /\ n \in ClientRecord /\ ClientSane(n) /\ First(k.send, k.out.what) /\ ~n.open
      /\ \E y : Hears(Then(k), k.out, y) /\ y.tdi = Then(k).tdi
  BY <1>1, SentAnswer
<1>3. Sound(s, n, <<>>, ts, c)
  BY <1>2, ClientLeaves
<1>4. CASE s.open = TRUE /\ c = FALSE
  <2> DEFINE live == s.open /\ k.open /\ ~c
  <2> DEFINE p == k.out
  <2> DEFINE no == s.open /\ n.open /\ ~c
  <2>1. /\ d = Append(ts, p) /\ p \in Packets /\ p.cmd = "ControlResponse"
        /\ p.what = "ClientQuit" /\ First(k.send, p.what)
    BY <1>1, <1>2, <1>4
  <2>2. Answered(s, k, tc, ts, live) /\ live
    BY <1>4, WritingLive
  <2>3. ~no
    BY <1>2
  <2>4. Answered(s, n, <<>>, d, no)
    <3> HIDE DEF live, p, no
    <3> QED
      BY <1>1, <1>2, <1>4, <2>1, <2>2, <2>3, AnsweredGoodbye
  <2>5. PICK y : Hears(Then(k), k.out, y) /\ y.tdi = Then(k).tdi
    BY <1>2
  <2>6. y.tdi \in Getting /\ y.tdi.task \in Own(k) \cup {NoTask}
    BY <1>1, <2>5, ThenIs
  <2>7. ViewedThen(s, d, y)
    BY <1>4, <2>1, <2>5, <2>6, SayingReports
  <2>8. Reports(s, n, d, no)
    BY <2>3, <2>7 DEF ViewedThen, Reports
  <2>9. Asked(s, d)
    <3>1. ~Asks(k.out)
      BY DEF Asks
    <3> QED
      BY <1>1, <2>1, <3>1, AskedBefore
  <2>10. Linked(s, n, <<>>, ts, no) /\ c \in BOOLEAN
    BY <1>3 DEF Sound
  <2>11. Linked(s, n, <<>>, d, no)
    BY <1>1, <2>3, <2>4, <2>8, <2>9, <2>10 DEF Linked
  <2>12. Sound(s, n, <<>>, d, c)
    BY <1>1, <1>4, <2>11 DEF Sound
  <2> QED
    BY <1>2, <2>12
<1>5. CASE ~(s.open = TRUE /\ c = FALSE)
  <2>1. d = ts
    BY <1>1, <1>5
  <2> QED
    BY <1>2, <1>3, <2>1
<1> QED
  BY <1>4, <1>5

\* The rest of what must be while the connection stands.
TasksStand(s, n, tc, d, c) ==
  s.open /\ ~c => Asked(s, d) /\ InStep(s, n, tc, d) /\ Located(s, n, tc, d)

\* What the client says about tasks.
LEMMA TaskSaid ==
  ASSUME NEW s, NEW k, NEW tc, NEW ts, NEW c, Sound(s, k, tc, ts, c), k.open = TRUE,
         NEW n \in ClientRecord, ClientSane(n), n.open = TRUE, Given(n, tc),
         Own(n) \subseteq Own(k), Hears(Then(k), k.out, Then(n)),
         NEW d, WrittenTo(s, ts, c, k.out, d), AnswersStand(s, k, c, n, tc, d),
         TasksStand(s, n, tc, d, c)
  PROVE  Sound(s, n, tc, d, c)
<1>1. /\ s \in ServerRecord /\ ServerSane(s) /\ k \in ClientRecord /\ ClientSane(k)
      /\ tc \in Seq(Packets) /\ ts \in Seq(Packets) /\ d \in Seq(Packets)
      /\ k.out \in Packets /\ Asked(s, ts) /\ Given(k, tc)
      /\ (s.open /\ ~c => d = Append(ts, k.out)) /\ (~s.open \/ c => d = ts)
      /\ s.open \in BOOLEAN /\ c \in BOOLEAN
  BY Writing
<1>3. ASSUME s.open = TRUE, c = FALSE PROVE ViewedThen(s, d, Then(n))
  <2>1. d = Append(ts, k.out)
    BY <1>1, <1>3
  <2> DEFINE y == Then(n)
  <2>2. y.tdi \in Getting /\ y.tdi.task \in Own(n) \cup {NoTask}
    BY ThenIs
  <2>4. y.tdi.task \in Own(k) \cup {NoTask}
    BY <2>2
  <2>3. Hears(Then(k), k.out, y)
    OBVIOUS
  <2> HIDE DEF y
  <2>5. ViewedThen(s, d, y)
    BY <1>3, <2>1, <2>2, <2>3, <2>4, SayingReports
  <2> QED
    BY <2>5 DEF y
<1>4. s.open /\ ~c =>
        /\ ViewedThen(s, d, Then(n)) /\ Answered(s, n, tc, d, s.open /\ k.open /\ ~c)
        /\ Asked(s, d) /\ InStep(s, n, tc, d) /\ Located(s, n, tc, d)
  BY <1>1, <1>3 DEF AnswersStand, TasksStand
<1>5. ~s.open \/ c => d = ts
  BY <1>1
<1> QED
  BY <1>1, <1>4, <1>5, SaySound

\* A file of the task is asked for.
LEMMA RequestSound ==
  ASSUME NEW s, NEW k, NEW tc, NEW ts, NEW c, Sound(s, k, tc, ts, c), k.open = TRUE,
         k.out.cmd = "FileRequest",
         NEW d, WrittenTo(s, ts, c, k.out, d), NEW n, n = ClientSent(k)
  PROVE  n \in ClientRecord /\ ClientSane(n) /\ n.open /\ Sound(s, n, tc, d, c)
<1>1. /\ s \in ServerRecord /\ ServerSane(s) /\ k \in ClientRecord /\ ClientSane(k)
      /\ tc \in Seq(Packets) /\ ts \in Seq(Packets) /\ d \in Seq(Packets)
      /\ k.out \in Packets /\ Asked(s, ts) /\ Given(k, tc)
      /\ (s.open /\ ~c => d = Append(ts, k.out)) /\ (~s.open \/ c => d = ts)
      /\ s.open \in BOOLEAN /\ c \in BOOLEAN
  BY Writing
<1>2. /\ n \in ClientRecord /\ ClientSane(n) /\ n.open = k.open /\ n.send = k.send
      /\ k.tri.act = "FileReq" /\ k.tri.task # NoTask
      /\ k.out.task = k.tri.task /\ k.out.n = k.tri.n
      /\ n.tri.task = k.tri.task /\ n.tri.act = "FileRecvH" /\ n.tri.n = k.tri.n
      /\ n.tri.resp = k.tri.resp
      /\ Own(n) = Own(k) /\ Hears(Then(k), k.out, Then(n))
  BY <1>1, SentRequest
<1>3. n.open = TRUE /\ KeepsOwing(k, n) /\ NoAnswer(k.out)
  BY <1>2 DEF KeepsOwing, NoAnswer
<1>4. AnswersStand(s, k, c, n, tc, d)
  BY <1>3, StillOwing
<1>5. k.tri.act \notin {"FileRecvH", "FileRecvB"} /\ n.tri.act # "FileRecvB"
  BY <1>2
<1>6. Silent(tc)
  BY <1>1, <1>2, <1>5, GivenSilence
<1>7. Given(n, tc)
  BY <1>1, <1>5, <1>6, GivenQuietly
<1>8. ASSUME s.open = TRUE, c = FALSE
      PROVE  Asked(s, d) /\ InStep(s, n, tc, d) /\ Located(s, n, tc, d)
  <2>1. d = Append(ts, k.out)
    BY <1>1, <1>8
  <2>2. InStep(s, k, tc, ts) /\ Located(s, k, tc, ts)
    BY <1>8, WritingLive
  <2>3. k.tri.act \in {"None", "FileReq", "Response"}
    BY <1>2
  <2>4. s.tri.state = "WaitForResponse" /\ s.tri.task = k.tri.task /\ Quiet(ts)
    BY <1>1, <1>2, <1>6, <2>2, <2>3, AskingInStep
  <2>5. s.tri.task = k.out.task /\ k.out.cmd # "TaskResponse"
    BY <1>2, <2>4
  <2>6. Asked(s, d)
    BY <1>1, <2>1, <2>4, <2>5, AskedNow
  <2>7. Len(d) \in DOMAIN d /\ d[Len(d)] = k.out
    BY <1>1, <2>1, EndOf
  <2>8. \E i \in DOMAIN d : d[i].cmd = "FileRequest" /\ d[i].n = n.tri.n
    BY <1>2, <2>7
  <2>9. InStep(s, n, tc, d)
    BY <1>1, <1>2, <1>6, <2>4, <2>8, InStepIs DEF Underway
  <2>10. Has(n) = Has(k)
    BY <1>1, <1>2, OwnType
  <2>11. k.out.cmd # "DoneComplete"
    OBVIOUS
  <2>12. Located(s, n, tc, d)
    BY <1>1, <2>1, <2>2, <2>10, <2>11, LocatedTalking
  <2> QED
    BY <2>6, <2>9, <2>12
<1>9. TasksStand(s, n, tc, d, c)
  BY <1>1, <1>8 DEF TasksStand
<1>10. Own(n) \subseteq Own(k) /\ Hears(Then(k), k.out, Then(n))
  BY <1>2
<1>11. Sound(s, n, tc, d, c)
  BY <1>2, <1>3, <1>4, <1>7, <1>9, <1>10, TaskSaid
<1> QED
  BY <1>2, <1>3, <1>11

\* It has the task.
LEMMA ResponseSound ==
  ASSUME NEW s, NEW k, NEW tc, NEW ts, NEW c, Sound(s, k, tc, ts, c), k.open = TRUE,
         k.out.cmd = "TaskResponse",
         NEW d, WrittenTo(s, ts, c, k.out, d), NEW n, n = ClientSent(k)
  PROVE  n \in ClientRecord /\ ClientSane(n) /\ n.open /\ Sound(s, n, tc, d, c)
<1>1. /\ s \in ServerRecord /\ ServerSane(s) /\ k \in ClientRecord /\ ClientSane(k)
      /\ tc \in Seq(Packets) /\ ts \in Seq(Packets) /\ d \in Seq(Packets)
      /\ k.out \in Packets /\ Asked(s, ts) /\ Given(k, tc)
      /\ (s.open /\ ~c => d = Append(ts, k.out)) /\ (~s.open \/ c => d = ts)
      /\ s.open \in BOOLEAN /\ c \in BOOLEAN
  BY Writing
<1>2. /\ n \in ClientRecord /\ ClientSane(n) /\ n.open = k.open /\ n.send = k.send
      /\ k.tri.act \in {"None", "Response"} /\ k.tri.resp # "none"
      /\ k.out.task = k.tri.task /\ k.out.what = k.tri.resp /\ k.tri.task # NoTask
      /\ n.tri = FreeTri /\ Own(n) = Own(k) /\ Hears(Then(k), k.out, Then(n))
  BY <1>1, SentResponse
<1>3. n.open = TRUE /\ KeepsOwing(k, n) /\ NoAnswer(k.out)
  BY <1>2 DEF KeepsOwing, NoAnswer
<1>4. AnswersStand(s, k, c, n, tc, d)
  BY <1>3, StillOwing
<1>5. /\ k.tri.act \notin {"FileRecvH", "FileRecvB"} /\ n.tri.act # "FileRecvB"
      /\ n.tri.task = NoTask
  BY <1>2 DEF FreeTri
<1>6. Silent(tc)
  BY <1>1, <1>2, <1>5, GivenSilence
<1>7. Given(n, tc)
  BY <1>1, <1>5, <1>6, GivenQuietly
<1>8. ASSUME s.open = TRUE, c = FALSE
      PROVE  Asked(s, d) /\ InStep(s, n, tc, d) /\ Located(s, n, tc, d)
  <2>1. d = Append(ts, k.out)
    BY <1>1, <1>8
  <2>2. InStep(s, k, tc, ts) /\ Located(s, k, tc, ts)
    BY <1>8, WritingLive
  <2>3. k.tri.act \in {"None", "FileReq", "Response"}
    BY <1>2
  <2>4. /\ s.tri.state = "WaitForResponse" /\ s.tri.task = k.tri.task
        /\ k.tri.resp = "Accepted" /\ Quiet(ts) /\ k.tri.act # "None"
    BY <1>1, <1>2, <1>6, <2>2, <2>3, AskingInStep
  <2>5. s.tri.task = k.out.task /\ (k.out.cmd = "TaskResponse" => k.out.what = "Accepted")
    BY <1>2, <2>4
  <2>6. Asked(s, d)
    BY <1>1, <2>1, <2>4, <2>5, AskedNow
  <2>7. Len(d) \in DOMAIN d /\ d[Len(d)] = k.out
    BY <1>1, <2>1, EndOf
  <2>8. Comes(d, "TaskResponse")
    BY <2>7 DEF Comes
  <2>9. InStep(s, n, tc, d)
    BY <1>1, <1>5, <1>6, <2>4, <2>8, InStepIs DEF Underway
  <2>10. Has(n) = Has(k)
    <3>1. k.tri.act = "Response"
      BY <1>2, <2>4
    <3>2. k.tri.task \in Own(k)
      <4>1. Talking(k)
        BY <1>1 DEF ClientSane
      <4> QED
        BY <1>1, <3>1, <4>1, TakingIs
    <3>3. /\ Has(k) = Own(k) \cup ({k.tri.task} \ {NoTask})
          /\ Has(n) = Own(n) \cup ({n.tri.task} \ {NoTask})
      BY <1>1, <1>2, OwnType
    <3> QED
      BY <1>2, <1>5, <3>2, <3>3
  <2>11. k.out.cmd # "DoneComplete"
    OBVIOUS
  <2>12. Located(s, n, tc, d)
    BY <1>1, <2>1, <2>2, <2>10, <2>11, LocatedTalking
  <2> QED
    BY <2>6, <2>9, <2>12
<1>9. TasksStand(s, n, tc, d, c)
  BY <1>1, <1>8 DEF TasksStand
<1>10. Own(n) \subseteq Own(k) /\ Hears(Then(k), k.out, Then(n))
  BY <1>2
<1>11. Sound(s, n, tc, d, c)
  BY <1>2, <1>3, <1>4, <1>7, <1>9, <1>10, TaskSaid
<1> QED
  BY <1>2, <1>3, <1>11

\* A report is complete: the client is rid of the task.
LEMMA RiddanceSound ==
  ASSUME NEW s, NEW k, NEW tc, NEW ts, NEW c, Sound(s, k, tc, ts, c), k.open = TRUE,
         k.out.cmd = "DoneComplete",
         NEW d, WrittenTo(s, ts, c, k.out, d), NEW n, n = ClientSent(k)
  PROVE  n \in ClientRecord /\ ClientSane(n) /\ n.open /\ Sound(s, n, tc, d, c)
<1>1. /\ s \in ServerRecord /\ ServerSane(s) /\ k \in ClientRecord /\ ClientSane(k)
      /\ tc \in Seq(Packets) /\ ts \in Seq(Packets) /\ d \in Seq(Packets)
      /\ k.out \in Packets /\ Asked(s, ts) /\ Given(k, tc)
      /\ (s.open /\ ~c => d = Append(ts, k.out)) /\ (~s.open \/ c => d = ts)
      /\ s.open \in BOOLEAN /\ c \in BOOLEAN
  BY Writing
<1>2. /\ n \in ClientRecord /\ ClientSane(n) /\ n.open = k.open /\ n.send = k.send
      /\ n.tri = k.tri /\ Own(n) = Own(k) \ {k.cur} /\ k.cur \in Own(k)
      /\ k.out.task = k.cur /\ k.tri.task # k.cur /\ k.cur \in Tasks
      /\ Hears(Then(k), k.out, Then(n))
  BY <1>1, SentComplete
<1>3. n.open = TRUE /\ KeepsOwing(k, n) /\ NoAnswer(k.out)
  BY <1>2 DEF KeepsOwing, NoAnswer
<1>4. AnswersStand(s, k, c, n, tc, d)
  BY <1>3, StillOwing
<1>5. Own(n) \subseteq Own(k) /\ Hears(Then(k), k.out, Then(n)) /\ ~Asks(k.out)
  BY <1>2 DEF Asks
<1>7. Given(n, tc)
  BY <1>1, <1>2, <1>5, GivenKept
<1>8. ASSUME s.open = TRUE, c = FALSE
      PROVE  Asked(s, d) /\ InStep(s, n, tc, d) /\ Located(s, n, tc, d)
  <2>1. d = Append(ts, k.out)
    BY <1>1, <1>8
  <2>2. InStep(s, k, tc, ts) /\ Located(s, k, tc, ts)
    BY <1>8, WritingLive
  <2>6. Asked(s, d)
    BY <1>1, <1>5, <2>1, AskedBefore
  <2>9. InStep(s, n, tc, d)
    BY <1>1, <1>2, <1>5, <2>1, <2>2, InStepTalking
  <2>10. Has(n) = Has(k) \ {k.cur} /\ k.cur \in Has(k)
    <3>1. /\ Has(k) = Own(k) \cup ({k.tri.task} \ {NoTask})
          /\ Has(n) = Own(n) \cup ({n.tri.task} \ {NoTask})
      BY <1>1, <1>2, OwnType
    <3> QED
      BY <1>2, <3>1
  <2>11. ASSUME NEW t PROVE Returning(d, t) <=> Returning(ts, t) \/ t = k.cur
    <3> DEFINE p == k.out
    <3>1. p.cmd = "DoneComplete" /\ p.task = k.cur /\ p \in Packets /\ d = Append(ts, p)
      BY <1>1, <1>2, <2>1
    <3> HIDE DEF p
    <3>2. /\ p.cmd # "DoneComplete" => (Returning(d, t) <=> Returning(ts, t))
          /\ p.cmd = "DoneComplete" => (Returning(d, t) <=> Returning(ts, t) \/ t = p.task)
      BY <1>1, <3>1, ReturningThen
    <3> QED
      BY <3>1, <3>2
  <2>12. Located(s, n, tc, d)
    <3> SUFFICES ASSUME NEW t \in Tasks
                 PROVE  /\ s.list[t] = "proc" <=>
                             Leaving(s, tc, t) \/ t \in Has(n) \/ Returning(d, t)
                        /\ Leaving(s, tc, t) => t \notin Has(n) /\ ~Returning(d, t)
                        /\ Returning(d, t) => t \notin Has(n)
      BY DEF Located
    <3>1. /\ s.list[t] = "proc" <=>
               Leaving(s, tc, t) \/ t \in Has(k) \/ Returning(ts, t)
          /\ Leaving(s, tc, t) => t \notin Has(k) /\ ~Returning(ts, t)
          /\ Returning(ts, t) => t \notin Has(k)
      BY <2>2 DEF Located
    <3>2. Returning(d, t) <=> Returning(ts, t) \/ t = k.cur
      BY <2>11
    <3> QED
      BY <2>10, <3>1, <3>2
  <2> QED
    BY <2>6, <2>9, <2>12
<1>9. TasksStand(s, n, tc, d, c)
  BY <1>1, <1>8 DEF TasksStand
<1>11. Sound(s, n, tc, d, c)
  BY <1>2, <1>3, <1>4, <1>5, <1>7, <1>9, TaskSaid
<1> QED
  BY <1>2, <1>3, <1>11

\* The client writes a packet.
LEMMA ClientWritesSound ==
  ASSUME NEW s, NEW k, NEW tc, NEW ts, NEW c, Sound(s, k, tc, ts, c), k.open = TRUE,
         k.out # NoPacket, NEW d, WrittenTo(s, ts, c, k.out, d),
         NEW m, m = ClientSent(k), NEW n, n = IF m.open THEN ClientSends(m) ELSE m
  PROVE  Sound(s, n, IF n.open THEN tc ELSE <<>>, d, c)
<1>1. k \in ClientRecord /\ ClientSane(k)
  BY DEF Sound, Linked
<1>2. k.out.cmd \in {"NowConnected", "TaskResponse", "FileRequest", "TaskDone",
                     "FileUpload", "FileBody", "DoneComplete", "ControlResponse"}
  BY <1>1, OutSays DEF ClientSane
<1>3. CASE k.out.cmd = "ControlResponse" /\ k.out.what = "ClientQuit"
  <2>1. m \in ClientRecord /\ ~m.open /\ Sound(s, m, <<>>, d, c)
    BY <1>3, GoodbyeSound
  <2> QED
    BY <2>1
<1>4. CASE ~(k.out.cmd = "ControlResponse" /\ k.out.what = "ClientQuit")
  <2>1. m \in ClientRecord /\ ClientSane(m) /\ m.open /\ Sound(s, m, tc, d, c)
    <3>1. CASE k.out.cmd \in {"NowConnected", "TaskDone", "FileUpload", "FileBody"}
      BY <3>1, TalkSound
    <3>2. CASE k.out.cmd = "TaskResponse"
      BY <3>2, ResponseSound
    <3>3. CASE k.out.cmd = "FileRequest"
      BY <3>3, RequestSound
    <3>4. CASE k.out.cmd = "DoneComplete"
      BY <3>4, RiddanceSound
    <3>5. CASE k.out.cmd = "ControlResponse" /\ k.out.what = NoMoreTasks
      BY <3>5, NoticeSound
    <3>6. CASE /\ k.out.cmd = "ControlResponse" /\ k.out.what # NoMoreTasks
               /\ k.out.what # "ClientQuit"
      BY <3>6, RepliedSound
    <3> QED
      BY <1>2, <1>4, <3>1, <3>2, <3>3, <3>4, <3>5, <3>6
  <2>2. n = ClientSends(m)
    BY <2>1
  <2>3. n \in ClientRecord /\ ClientSane(n) /\ Same(m, n)
    BY <2>1, <2>2, SendsSane
  <2>4. n.open = m.open
    BY <2>3 DEF Same
  <2>5. Sound(s, n, tc, d, c)
    BY <2>1, <2>3, ClientStays
  <2> QED
    BY <2>1, <2>4, <2>5
<1> QED
  BY <1>3, <1>4

\* What a client may read next.
Offers(k, p) ==
  /\ p.cmd \in {"TaskRequest", "FileDownload", "FileBody", "ControlRequest"}
  /\ (k.tri.act = "FileRecvB") <=> (p.cmd = "FileBody")
  /\ p.cmd = "TaskRequest" => k.tri.task = NoTask /\ p.task # NoTask /\ p.task \notin Own(k)
  /\ p.cmd = "FileDownload" =>
       k.tri.act = "FileRecvH" /\ p.task = k.tri.task /\ p.n = k.tri.n
  /\ p.cmd = "ControlRequest" => p.what \in Orders

\* Nothing but orders.
OrdersOnly(tc) == \A i \in DOMAIN tc : tc[i].cmd = "ControlRequest" /\ tc[i].what \in Orders

\* What the client is to expect of the first packet.
LEMMA OffersIs ==
  ASSUME NEW k, NEW tc \in Seq(Packets), Given(k, tc), tc # <<>>, NEW p, p = Head(tc)
  PROVE  Offers(k, p)
<1>1. 1 \in DOMAIN tc /\ tc[1] = p
  BY Shortened DEF Shorter
<1>2. Gives(p) \/ (p.cmd = "ControlRequest" /\ p.what \in Orders)
  BY <1>1 DEF Given
<1>3. p.cmd = "TaskRequest" => k.tri.task = NoTask /\ p.task \notin Own(k) \cup {NoTask}
  BY <1>1 DEF Given
<1>4. p.cmd = "FileDownload" =>
        k.tri.act = "FileRecvH" /\ p.task = k.tri.task /\ p.n = k.tri.n
  BY <1>1 DEF Given
<1>5. (k.tri.act = "FileRecvB") <=> (p.cmd = "FileBody")
  BY <1>1 DEF Given
<1> QED
  BY <1>2, <1>3, <1>4, <1>5 DEF Offers, Gives

\* Orders can come whatever else the client does.
LEMMA OrdersGiven ==
  ASSUME NEW n, NEW r, OrdersOnly(r), n.tri.act # "FileRecvB"
  PROVE  Given(n, r) /\ Silent(r)
  BY DEF Given, Silent, OrdersOnly, Gives

\* The packet of a file or of a task was the last one that gives something.
LEMMA RestOrders ==
  ASSUME NEW k, NEW tc \in Seq(Packets), Given(k, tc), tc # <<>>, NEW p, p = Head(tc),
         p.cmd \in {"TaskRequest", "FileBody"}, NEW r, r = Tail(tc)
  PROVE  OrdersOnly(r)
<1>1. /\ Len(tc) = Len(r) + 1 /\ DOMAIN tc = 1..(Len(r) + 1) /\ DOMAIN r = 1..Len(r)
      /\ tc[1] = p /\ \A i \in 1..Len(r) : r[i] = tc[i + 1]
      /\ Len(r) \in Nat
  BY Shortened DEF Shorter
<1>2. 1 \in DOMAIN tc /\ \A i \in DOMAIN r : i + 1 \in DOMAIN tc /\ i + 1 # 1 /\ r[i] = tc[i + 1]
  BY <1>1
<1>3. ASSUME NEW j \in DOMAIN tc, Gives(tc[j]) PROVE j = 1
  BY <1>1, <1>2, <1>3 DEF Given
<1>4. \A i \in DOMAIN r : ~Gives(tc[i + 1])
  BY <1>2, <1>3
<1> QED
  BY <1>2, <1>4 DEF Given, OrdersOnly

\* After an order all is as before.
LEMMA RestGiven ==
  ASSUME NEW k, NEW tc \in Seq(Packets), Given(k, tc), tc # <<>>, NEW p, p = Head(tc),
         p.cmd = "ControlRequest", NEW r, r = Tail(tc)
  PROVE  Given(k, r)
<1>1. /\ Len(tc) = Len(r) + 1 /\ DOMAIN tc = 1..(Len(r) + 1) /\ DOMAIN r = 1..Len(r)
      /\ tc[1] = p /\ \A i \in 1..Len(r) : r[i] = tc[i + 1]
      /\ Len(r) \in Nat
  BY Shortened DEF Shorter
<1>2. 1 \in DOMAIN tc /\ ~Gives(tc[1]) /\ k.tri.act # "FileRecvB"
  BY <1>1 DEF Given, Gives
<1> SUFFICES ASSUME NEW i \in DOMAIN r
             PROVE  /\ \/ Gives(r[i])
                       \/ r[i].cmd = "ControlRequest" /\ r[i].what \in Orders
                    /\ r[i].cmd = "TaskRequest" =>
                         /\ k.tri.task = NoTask /\ r[i].task \notin Own(k) \cup {NoTask}
                         /\ \A j \in DOMAIN r : Gives(r[j]) => j = i
                    /\ r[i].cmd = "FileDownload" =>
                         /\ k.tri.act = "FileRecvH" /\ r[i].task = k.tri.task
                         /\ r[i].n = k.tri.n
                         /\ i < Len(r) => r[i + 1].cmd = "FileBody"
                         /\ \A j \in DOMAIN r : Gives(r[j]) => j \in {i, i + 1}
                    /\ r[i].cmd = "FileBody" =>
                         IF i = 1 THEN k.tri.act = "FileRecvB"
                         ELSE r[i - 1].cmd = "FileDownload"
  BY <1>2 DEF Given
<1> DEFINE h == i + 1
<1>3. h \in DOMAIN tc /\ r[i] = tc[h] /\ i \in Nat /\ h # 1 /\ i >= 1 /\ h = i + 1
  BY <1>1
<1>4. Gives(r[i]) \/ (r[i].cmd = "ControlRequest" /\ r[i].what \in Orders)
  BY <1>3 DEF Given
<1>5. ASSUME r[i].cmd = "TaskRequest"
      PROVE  /\ k.tri.task = NoTask /\ r[i].task \notin Own(k) \cup {NoTask}
             /\ \A j \in DOMAIN r : Gives(r[j]) => j = i
  <2>1. /\ k.tri.task = NoTask /\ r[i].task \notin Own(k) \cup {NoTask}
        /\ \A j \in DOMAIN tc : Gives(tc[j]) => j = h
    BY <1>3, <1>5 DEF Given
  <2>2. ASSUME NEW j \in DOMAIN r, Gives(r[j]) PROVE j = i
    <3>1. j + 1 \in DOMAIN tc /\ Gives(tc[j + 1]) /\ j \in Nat
      BY <1>1, <2>2
    <3>2. j + 1 = h
      BY <2>1, <3>1
    <3> QED
      BY <1>3, <3>1, <3>2
  <2> QED
    BY <2>1, <2>2
<1>6. ASSUME r[i].cmd = "FileDownload"
      PROVE  /\ k.tri.act = "FileRecvH" /\ r[i].task = k.tri.task
             /\ r[i].n = k.tri.n
             /\ i < Len(r) => r[i + 1].cmd = "FileBody"
             /\ \A j \in DOMAIN r : Gives(r[j]) => j \in {i, i + 1}
  <2>1. /\ k.tri.act = "FileRecvH" /\ r[i].task = k.tri.task /\ r[i].n = k.tri.n
        /\ h < Len(tc) => tc[h + 1].cmd = "FileBody"
        /\ \A j \in DOMAIN tc : Gives(tc[j]) => j \in {h, h + 1}
    BY <1>3, <1>6 DEF Given
  <2>2. ASSUME NEW j \in DOMAIN r, Gives(r[j]) PROVE j \in {i, i + 1}
    <3>1. j + 1 \in DOMAIN tc /\ Gives(tc[j + 1]) /\ j \in Nat
      BY <1>1, <2>2
    <3>2. j + 1 \in {h, h + 1}
      BY <2>1, <3>1
    <3> QED
      BY <1>3, <3>1, <3>2
  <2>3. ASSUME i < Len(r) PROVE r[i + 1].cmd = "FileBody"
    <3>1. h < Len(tc) /\ r[i + 1] = tc[h + 1]
      BY <1>1, <1>3, <2>3
    <3> QED
      BY <2>1, <3>1
  <2> QED
    BY <2>1, <2>2, <2>3
<1>7. ASSUME r[i].cmd = "FileBody"
      PROVE  IF i = 1 THEN k.tri.act = "FileRecvB" ELSE r[i - 1].cmd = "FileDownload"
  <2>1. tc[h - 1].cmd = "FileDownload"
    BY <1>3, <1>7 DEF Given
  <2>2. i # 1
    <3>1. ~(tc[1].cmd = "FileDownload")
      BY <1>2 DEF Gives
    <3> QED
      BY <1>3, <2>1, <3>1
  <2>3. r[i - 1] = tc[h - 1]
    BY <1>1, <1>3, <2>2
  <2> QED
    BY <2>1, <2>2, <2>3
<1> QED
  BY <1>4, <1>5, <1>6, <1>7

\* After a header only its file is on the way.
LEMMA RestOfFile ==
  ASSUME NEW k, NEW tc \in Seq(Packets), Given(k, tc), tc # <<>>, NEW p, p = Head(tc),
         p.cmd = "FileDownload", NEW r, r = Tail(tc), NEW n, n.tri.act = "FileRecvB"
  PROVE  Given(n, r)
<1>1. /\ Len(tc) = Len(r) + 1 /\ DOMAIN tc = 1..(Len(r) + 1) /\ DOMAIN r = 1..Len(r)
      /\ tc[1] = p /\ \A i \in 1..Len(r) : r[i] = tc[i + 1]
      /\ Len(r) \in Nat
  BY Shortened DEF Shorter
<1>2. 1 \in DOMAIN tc
  BY <1>1
<1>3. /\ 1 < Len(tc) => tc[2].cmd = "FileBody"
      /\ \A j \in DOMAIN tc : Gives(tc[j]) => j \in {1, 2}
  BY <1>1, <1>2 DEF Given
<1>4. ASSUME NEW i \in DOMAIN r
      PROVE  /\ Gives(r[i]) => i = 1 /\ r[i].cmd = "FileBody"
             /\ ~Gives(r[i]) => r[i].cmd = "ControlRequest" /\ r[i].what \in Orders
  <2>1. i + 1 \in DOMAIN tc /\ r[i] = tc[i + 1] /\ i \in Nat /\ i >= 1
    BY <1>1
  <2>2. Gives(r[i]) => i = 1
    BY <1>3, <2>1
  <2>3. i = 1 => r[i].cmd = "FileBody"
    BY <1>1, <1>3, <2>1
  <2>4. Gives(r[i]) \/ (r[i].cmd = "ControlRequest" /\ r[i].what \in Orders)
    BY <2>1 DEF Given
  <2> QED
    BY <2>2, <2>3, <2>4
<1>5. r # <<>> => r[1].cmd = "FileBody"
  <2>1. r # <<>> => Len(r) > 0
    BY Shortened, EmptySeq
  <2> QED
    BY <1>1, <1>3, <2>1
<1> QED
  BY <1>4, <1>5 DEF Given, Gives

\* The client owes what it owed, and the answer to what it has just read.
OwesNow(k, p, n) ==
  \A q \in Seq(Orders) : Owing(k.send, q) =>
    Owing(n.send, IF p.cmd = "ControlRequest" THEN Append(q, p.what) ELSE q)

OwedStill(k, tc, q, n, r) == \E u : Owes(n, r, u) /\ u[Len(r) + 1] = q[Len(tc) + 1]

\* A packet that the client has read: it owes in the end what it owed.
LEMMA OwesOnward ==
  ASSUME NEW k, NEW tc \in Seq(Packets), tc # <<>>, NEW q, Owes(k, tc, q),
         NEW p, p = Head(tc), NEW r, r = Tail(tc), NEW n, OwesNow(k, p, n)
  PROVE  OwedStill(k, tc, q, n, r)
<1>1. /\ Len(tc) = Len(r) + 1 /\ DOMAIN tc = 1..(Len(r) + 1) /\ DOMAIN r = 1..Len(r)
      /\ tc[1] = p /\ \A i \in 1..Len(r) : r[i] = tc[i + 1]
      /\ Len(r) \in Nat
  BY Shortened DEF Shorter
<1> DEFINE u == [i \in 1..(Len(r) + 1) |-> q[i + 1]]
<1> DEFINE l == Len(r)
<1>2. l = Len(r) /\ l \in Nat
  BY <1>1
<1>3. /\ Owing(k.send, q[1]) /\ \A i \in 1..(l + 2) : q[i] \in Seq(Orders)
      /\ \A i \in 1..(l + 1) :
           q[i + 1] = IF tc[i].cmd = "ControlRequest" THEN Append(q[i], tc[i].what) ELSE q[i]
  BY <1>1 DEF Owes
<1>4. \A i \in 1..(l + 1) : u[i] = q[i + 1]
  BY <1>2
<1> HIDE DEF u, l
<1>5. 1 \in 1..(l + 1) /\ q[1] \in Seq(Orders)
  BY <1>2, <1>3
<1>6. Owing(n.send, u[1])
  <2>1. u[1] = q[2] /\ q[2] = IF p.cmd = "ControlRequest" THEN Append(q[1], p.what) ELSE q[1]
    BY <1>1, <1>3, <1>4, <1>5
  <2> QED
    BY <1>3, <1>5, <2>1 DEF OwesNow
<1>7. \A i \in 1..(l + 1) : u[i] \in Seq(Orders)
  <2> TAKE i \in 1..(l + 1)
  <2>1. i + 1 \in 1..(l + 2)
    BY <1>2
  <2> QED
    BY <1>3, <1>4, <2>1
<1>8. \A i \in 1..l :
        u[i + 1] = IF r[i].cmd = "ControlRequest" THEN Append(u[i], r[i].what) ELSE u[i]
  <2> TAKE i \in 1..l
  <2> DEFINE h == i + 1
  <2>1. h \in 1..(l + 1) /\ i \in 1..(l + 1) /\ r[i] = tc[h] /\ h = i + 1
    BY <1>1, <1>2
  <2>2. q[h + 1] = IF tc[h].cmd = "ControlRequest" THEN Append(q[h], tc[h].what) ELSE q[h]
    BY <1>3, <2>1
  <2>3. u[i] = q[h] /\ u[h] = q[h + 1]
    BY <1>4, <2>1
  <2> QED
    BY <2>1, <2>2, <2>3
<1>9. Owes(n, r, u)
  BY <1>1, <1>2, <1>6, <1>7, <1>8 DEF Owes
<1>10. u[Len(r) + 1] = q[Len(tc) + 1]
  BY <1>1, <1>2, <1>4
<1> QED
  BY <1>9, <1>10 DEF OwedStill

\* The orders are answered as before when the client reads a packet.
LEMMA AnsweredReading ==
  ASSUME NEW s, NEW k, NEW tc \in Seq(Packets), tc # <<>>, NEW ts, NEW live,
         Answered(s, k, tc, ts, live), NEW p, p = Head(tc), NEW r, r = Tail(tc),
         NEW n, n.open = k.open, OwesNow(k, p, n)
  PROVE  Answered(s, n, r, ts, live)
<1>1. ASSUME s.open
      PROVE  \E w : /\ Waits(s, ts, w)
                    /\ live => \E q : Owes(n, r, q) /\ q[Len(r) + 1] = w[Len(ts) + 1]
  <2>1. PICK w : /\ Waits(s, ts, w)
                 /\ live => \E q : /\ Owes(k, tc, q)
                                   /\ q[Len(tc) + 1] = w[Len(ts) + 1]
    BY <1>1 DEF Answered
  <2>2. ASSUME live PROVE \E q : Owes(n, r, q) /\ q[Len(r) + 1] = w[Len(ts) + 1]
    <3>1. PICK q : Owes(k, tc, q) /\ q[Len(tc) + 1] = w[Len(ts) + 1]
      BY <2>1, <2>2
    <3>2. OwedStill(k, tc, q, n, r)
      BY <3>1, OwesOnward
    <3> QED
      BY <3>1, <3>2 DEF OwedStill
  <2> QED
    BY <2>1, <2>2
<1> QED
  BY <1>1 DEF Answered

\* The client reads on.
LEMMA OnwardSound ==
  ASSUME NEW s, NEW k, NEW tc, NEW ts, NEW c, Sound(s, k, tc, ts, c), k.open = TRUE,
         tc # <<>>, NEW p, p = Head(tc), NEW r, r = Tail(tc),
         NEW n \in ClientRecord, ClientSane(n), n.open = TRUE, Then(n) = Then(k),
         OwesNow(k, p, n), Given(n, r),
         s.open = TRUE => InStep(s, n, r, ts) /\ Located(s, n, r, ts)
  PROVE  Sound(s, n, r, ts, c)
<1> DEFINE live == s.open /\ k.open /\ ~c
<1>1. /\ Linked(s, k, tc, ts, live) /\ c \in BOOLEAN /\ (~s.open \/ c => ts = <<>>)
      /\ ~c
  BY DEF Sound
<1>2. (s.open /\ n.open /\ ~c) = live
  BY <1>1
<1>3. tc \in Seq(Packets) /\ r \in Seq(Packets)
  <2>1. tc \in Seq(Packets)
    BY <1>1 DEF Linked
  <2> QED
    BY <2>1, Shortened
<1>4. Reports(s, n, ts, live)
  BY <1>1 DEF Linked, Reports
<1>5. Answered(s, n, r, ts, live)
  <2>1. Answered(s, k, tc, ts, live) /\ n.open = k.open
    BY <1>1 DEF Linked
  <2> HIDE DEF live
  <2> QED
    BY <1>3, <2>1, AnsweredReading
<1>6. live => InStep(s, n, r, ts) /\ Located(s, n, r, ts)
  <2>1. s.open \in BOOLEAN
    BY <1>1, ServerRead DEF Linked
  <2> QED
    BY <2>1
<1>7. Linked(s, n, r, ts, live)
  BY <1>1, <1>3, <1>4, <1>5, <1>6 DEF Linked
<1> QED
  BY <1>1, <1>2, <1>7 DEF Sound

\* How far both are depends on the task being received only.
LEMMA InStepTri ==
  ASSUME NEW s, NEW k, NEW tc, NEW ts, InStep(s, k, tc, ts), NEW n, n.tri = k.tri
  PROVE  InStep(s, n, tc, ts)
  BY DEF InStep

\* The rest of the channel to the client.
LEMMA RestOut ==
  ASSUME NEW tc \in Seq(Packets), tc # <<>>, NEW p, p = Head(tc), NEW r, r = Tail(tc)
  PROVE  /\ \A i \in DOMAIN r : i + 1 \in DOMAIN tc /\ r[i] = tc[i + 1]
         /\ \A i \in DOMAIN tc : i = 1 \/ (i - 1 \in DOMAIN r /\ r[i - 1] = tc[i])
         /\ 1 \in DOMAIN tc /\ tc[1] = p
<1>1. /\ Len(tc) = Len(r) + 1 /\ DOMAIN tc = 1..(Len(r) + 1) /\ DOMAIN r = 1..Len(r)
      /\ tc[1] = p /\ \A i \in 1..Len(r) : r[i] = tc[i + 1]
      /\ Len(r) \in Nat /\ r \in Seq(Packets)
  BY Shortened DEF Shorter
<1> QED
  BY <1>1

\* The last packet is the last of the rest, if there is one.
LEMMA RestEnd ==
  ASSUME NEW tc \in Seq(Packets), tc # <<>>, NEW r, r = Tail(tc)
  PROVE  /\ r # <<>> => tc[Len(tc)] = r[Len(r)]
         /\ r = <<>> => Len(tc) = 1
<1> DEFINE p == Head(tc)
<1> DEFINE l == Len(r)
<1>1. /\ Len(tc) = Len(r) + 1 /\ DOMAIN tc = 1..(Len(r) + 1) /\ DOMAIN r = 1..Len(r)
      /\ tc[1] = p /\ \A i \in 1..Len(r) : r[i] = tc[i + 1]
      /\ Len(r) \in Nat /\ r \in Seq(Packets)
  BY Shortened DEF Shorter
<1>2. r # <<>> => l > 0
  BY <1>1, EmptySeq
<1>5. Len(tc) = l + 1 /\ l \in Nat /\ \A i \in 1..l : r[i] = tc[i + 1]
  BY <1>1
<1>4. r = <<>> => Len(tc) = 1
  <2>1. r = <<>> => Len(r) = 0
    BY <1>1, EmptySeq
  <2>2. Len(tc) = Len(r) + 1
    BY <1>1
  <2> QED
    BY <2>1, <2>2
<1>6. l = Len(r)
  OBVIOUS
<1> HIDE DEF l
<1>3. r # <<>> => tc[l + 1] = r[l]
  BY <1>2, <1>5
<1> QED
  BY <1>3, <1>4, <1>5, <1>6

\* The tasks that leave are in the rest, if the first packet is no task.
LEMMA RestLeaving ==
  ASSUME NEW tc \in Seq(Packets), tc # <<>>, NEW p, p = Head(tc), NEW r, r = Tail(tc),
         p.cmd # "TaskRequest", NEW s, NEW t
  PROVE  Leaving(s, r, t) <=> Leaving(s, tc, t)
<1>1. /\ \A i \in DOMAIN r : i + 1 \in DOMAIN tc /\ r[i] = tc[i + 1]
      /\ \A i \in DOMAIN tc : i = 1 \/ (i - 1 \in DOMAIN r /\ r[i - 1] = tc[i])
      /\ tc[1] = p
  BY RestOut
<1>2. \A i \in DOMAIN tc : tc[i].cmd = "TaskRequest" => i - 1 \in DOMAIN r /\ r[i - 1] = tc[i]
  BY <1>1
<1>3. (\E i \in DOMAIN r : r[i].cmd = "TaskRequest" /\ r[i].task = t)
      => \E i \in DOMAIN tc : tc[i].cmd = "TaskRequest" /\ tc[i].task = t
  BY <1>1
<1>4. (\E i \in DOMAIN tc : tc[i].cmd = "TaskRequest" /\ tc[i].task = t)
      => \E i \in DOMAIN r : r[i].cmd = "TaskRequest" /\ r[i].task = t
  BY <1>2
<1> QED
  BY <1>3, <1>4 DEF Leaving

\* Tasks stay where they were when the client reads no task.
LEMMA RestLocated ==
  ASSUME NEW s, NEW k, NEW tc \in Seq(Packets), NEW ts, Located(s, k, tc, ts), tc # <<>>,
         NEW p, p = Head(tc), NEW r, r = Tail(tc), p.cmd # "TaskRequest",
         NEW n, Has(n) = Has(k)
  PROVE  Located(s, n, r, ts)
<1>1. \A t : Leaving(s, r, t) <=> Leaving(s, tc, t)
  BY RestLeaving
<1> QED
  BY <1>1 DEF Located

\* An order does not change how far they are.
LEMMA RestInStep ==
  ASSUME NEW s \in ServerRecord, NEW k, NEW tc \in Seq(Packets), NEW ts,
         InStep(s, k, tc, ts), tc # <<>>, NEW p, p = Head(tc), NEW r, r = Tail(tc),
         p.cmd = "ControlRequest"
  PROVE  InStep(s, k, r, ts)
<1>1. /\ \A i \in DOMAIN r : i + 1 \in DOMAIN tc /\ r[i] = tc[i + 1]
      /\ \A i \in DOMAIN tc : i = 1 \/ (i - 1 \in DOMAIN r /\ r[i - 1] = tc[i])
      /\ 1 \in DOMAIN tc /\ tc[1] = p
  BY RestOut
<1>7. /\ r # <<>> => tc[Len(tc)] = r[Len(r)]
      /\ r = <<>> => Len(tc) = 1
  BY RestEnd
<1>2. Silent(tc) => Silent(r)
  BY <1>1 DEF Silent
<1>3. Comes(tc, "FileBody") => Comes(r, "FileBody")
  BY <1>1 DEF Comes
<1>4. \A t : (\E i \in DOMAIN tc : tc[i].cmd = "TaskRequest" /\ tc[i].task = t)
          => (\E i \in DOMAIN r : r[i].cmd = "TaskRequest" /\ r[i].task = t)
  BY <1>1
<1>5. Underway(s, k, tc, ts) => Underway(s, k, r, ts)
  BY <1>2, <1>3, <1>4 DEF Underway
<1>6. tc[Len(tc)].cmd = "FileDownload" => r # <<>> /\ r[Len(r)].cmd = "FileDownload"
  BY <1>1, <1>7
<1> QED
  BY <1>2, <1>5, <1>6, InStepIs

\* The client reads an order.
LEMMA OrderReadSound ==
  ASSUME NEW s, NEW k, NEW tc, NEW ts, NEW c, Sound(s, k, tc, ts, c), k.open = TRUE,
         tc # <<>>, NEW p, p = Head(tc), NEW r, r = Tail(tc), p.cmd = "ControlRequest",
         NEW n, n = ParseCommandRequest(k, p)
  PROVE  n \in ClientRecord /\ ClientSane(n) /\ n.open /\ Sound(s, n, r, ts, c)
<1>1. /\ s \in ServerRecord /\ k \in ClientRecord /\ ClientSane(k)
      /\ tc \in Seq(Packets) /\ Given(k, tc)
  BY DEF Sound, Linked
<1>2. p \in Packets /\ p.what \in Orders
  BY <1>1, OffersIs, Shortened DEF Offers
<1>3. /\ n \in ClientRecord /\ ClientSane(n) /\ n.open = k.open
      /\ \E e \in ClientRecord :
           /\ ClientSane(e) /\ Same(k, e) /\ n.tri = e.tri /\ Then(n) = Then(e)
           /\ Own(n) = Own(e) /\ n.send = Append(e.send, p.what)
  BY <1>1, <1>2, ReadCommand
<1>4. PICK e \in ClientRecord :
           /\ ClientSane(e) /\ Same(k, e) /\ n.tri = e.tri /\ Then(n) = Then(e)
           /\ Own(n) = Own(e) /\ n.send = Append(e.send, p.what)
  BY <1>3
<1>5. /\ Then(n) = Then(k) /\ Has(e) = Has(k)
      /\ \A q \in Seq(Orders) : Owing(k.send, q) => Owing(e.send, q)
  BY <1>4 DEF Same
<1>6. OwesNow(k, p, n)
  <2>1. e.send \in Seq(Orders \cup {NoMoreTasks})
    BY ClientRead
  <2>2. ASSUME NEW q \in Seq(Orders), Owing(k.send, q) PROVE Owing(n.send, Append(q, p.what))
    <3>1. Owing(e.send, q)
      BY <1>5, <2>2
    <3>2. Owing(Append(e.send, p.what), Append(q, p.what))
      BY <1>2, <2>1, <3>1, OwingLater
    <3> QED
      BY <1>4, <3>2
  <2> QED
    BY <2>2 DEF OwesNow
<1>7. Given(n, r)
  <2>1. Given(k, r)
    BY <1>1, RestGiven
  <2>2. Given(e, r)
    BY <1>4, <2>1, GivenStays
  <2>3. n.tri = e.tri /\ Own(n) \subseteq Own(e)
    BY <1>4
  <2> QED
    BY <2>2, <2>3, GivenKept
<1>8. ASSUME s.open = TRUE PROVE InStep(s, n, r, ts) /\ Located(s, n, r, ts)
  <2>1. InStep(s, k, tc, ts) /\ Located(s, k, tc, ts)
    BY <1>8 DEF Sound, Linked
  <2>2. InStep(s, k, r, ts)
    BY <1>1, <2>1, RestInStep
  <2>3. InStep(s, e, r, ts)
    BY <1>4, <2>2, InStepStays
  <2>4. InStep(s, n, r, ts)
    BY <1>4, <2>3, InStepTri
  <2>5. Has(n) = Has(k)
    <3>1. Has(n) = Own(n) \cup ({n.tri.task} \ {NoTask})
      BY <1>3, OwnType
    <3>2. Has(e) = Own(e) \cup ({e.tri.task} \ {NoTask})
      BY <1>4, OwnType
    <3> QED
      BY <1>4, <1>5, <3>1, <3>2
  <2>6. p.cmd # "TaskRequest"
    OBVIOUS
  <2>7. Located(s, n, r, ts)
    BY <1>1, <2>1, <2>5, <2>6, RestLocated
  <2> QED
    BY <2>4, <2>7
<1>9. n.open = TRUE /\ (s.open = TRUE => InStep(s, n, r, ts) /\ Located(s, n, r, ts))
  BY <1>3, <1>8
<1>11. Then(n) = Then(k)
  BY <1>5
<1>10. Sound(s, n, r, ts, c)
  BY <1>3, <1>6, <1>7, <1>9, <1>11, OnwardSound
<1> QED
  BY <1>3, <1>9, <1>10

\* The client reads the body of a file.
LEMMA BodyReadSound ==
  ASSUME NEW s, NEW k, NEW tc, NEW ts, NEW c, Sound(s, k, tc, ts, c), k.open = TRUE,
         tc # <<>>, NEW p, p = Head(tc), NEW r, r = Tail(tc), p.cmd = "FileBody",
         NEW n, n = DownloadDone(k)
  PROVE  n \in ClientRecord /\ ClientSane(n) /\ n.open /\ Sound(s, n, r, ts, c)
<1>1. /\ s \in ServerRecord /\ k \in ClientRecord /\ ClientSane(k)
      /\ tc \in Seq(Packets) /\ Given(k, tc)
  BY DEF Sound, Linked
<1>2. k.tri.act = "FileRecvB"
  BY <1>1, OffersIs DEF Offers
<1>3. /\ n \in ClientRecord /\ ClientSane(n) /\ n.open = k.open
      /\ Then(n) = Then(k) /\ Own(n) = Own(k) /\ n.send = k.send
      /\ n.tri.task = k.tri.task /\ n.tri.resp = "Accepted" /\ n.tri.act = "FileReq"
  BY <1>1, <1>2, ReadBody
<1>4. k.tri.task # NoTask
  <2>1. Talking(k) /\ k.tri.act \notin {"None"}
    BY <1>1, <1>2 DEF ClientSane
  <2> QED
    BY <1>1, <2>1, TakingIs
<1>5. OwesNow(k, p, n)
  BY <1>3 DEF OwesNow
<1>6. OrdersOnly(r)
  <2>1. p.cmd \in {"TaskRequest", "FileBody"}
    OBVIOUS
  <2> QED
    BY <1>1, <2>1, RestOrders
<1>7. Given(n, r) /\ Silent(r)
  <2>1. n.tri.act # "FileRecvB"
    BY <1>3
  <2> QED
    BY <1>6, <2>1, OrdersGiven
<1>8. ASSUME s.open = TRUE PROVE InStep(s, n, r, ts) /\ Located(s, n, r, ts)
  <2>1. InStep(s, k, tc, ts) /\ Located(s, k, tc, ts)
    BY <1>8 DEF Sound, Linked
  <2>2. 1 \in DOMAIN tc /\ tc[1] = p
    BY <1>1, RestOut
  <2>3. ~Silent(tc) /\ ~(\E i \in DOMAIN tc : tc[i].cmd = "TaskRequest")
    <3>1. ~Silent(tc)
      BY <2>2 DEF Silent, Gives
    <3>2. ~(\E i \in DOMAIN tc : tc[i].cmd = "TaskRequest")
      BY <1>1, <1>4 DEF Given
    <3> QED
      BY <3>1, <3>2
  <2>4. s.tri.state = "WaitForResponse" /\ s.tri.task = k.tri.task /\ Quiet(ts)
    <3>1. s.tri.state \in {"None", "SendTaskRequest", "WaitForResponse", "SendFileDownloadH",
                           "SendFileDownloadB"}
      BY <1>1, ServerRead DEF Sending
    <3>2. s.tri.state = "WaitForResponse"
      BY <1>1, <1>2, <2>1, <2>3, <3>1, InStepIs
    <3>3. Underway(s, k, tc, ts)
      BY <1>1, <2>1, <3>2, InStepIs
    <3> QED
      BY <1>2, <2>3, <3>2, <3>3 DEF Underway
  <2>5. InStep(s, n, r, ts)
    BY <1>1, <1>3, <1>7, <2>4, InStepIs DEF Underway
  <2>6. Has(n) = Has(k)
    BY <1>1, <1>3, OwnType
  <2>7. p.cmd # "TaskRequest"
    OBVIOUS
  <2>8. Located(s, n, r, ts)
    BY <1>1, <2>1, <2>6, <2>7, RestLocated
  <2> QED
    BY <2>5, <2>8
<1>9. n.open = TRUE /\ (s.open = TRUE => InStep(s, n, r, ts) /\ Located(s, n, r, ts))
  BY <1>3, <1>8
<1>10. Sound(s, n, r, ts, c)
  BY <1>3, <1>5, <1>7, <1>9, OnwardSound
<1> QED
  BY <1>3, <1>9, <1>10

\* The client reads the header of a file.
LEMMA HeaderReadSound ==
  ASSUME NEW s, NEW k, NEW tc, NEW ts, NEW c, Sound(s, k, tc, ts, c), k.open = TRUE,
         tc # <<>>, NEW p, p = Head(tc), NEW r, r = Tail(tc), p.cmd = "FileDownload",
         NEW fault \in BOOLEAN, NEW n, n = ParseFileDownload(k, p, fault)
  PROVE  n \in ClientRecord /\ ClientSane(n) /\ Sound(s, n, IF n.open THEN r ELSE <<>>, ts, c)
<1>1. /\ s \in ServerRecord /\ k \in ClientRecord /\ ClientSane(k)
      /\ tc \in Seq(Packets) /\ Given(k, tc)
  BY DEF Sound, Linked
<1>2. k.tri.act = "FileRecvH" /\ p.task = k.tri.task /\ p.n = k.tri.n /\ p \in Packets
  BY <1>1, OffersIs, Shortened DEF Offers
<1>3. /\ n \in ClientRecord /\ ClientSane(n)
      /\ ~n.open \/ FileAhead(k, n)
  BY <1>1, <1>2, ReadHeader
<1>11. CASE ~n.open
  <2>1. Sound(s, n, <<>>, ts, c)
    BY <1>3, <1>11, ClientLeaves
  <2> QED
    BY <1>3, <1>11, <2>1
<1>12. CASE FileAhead(k, n)
  <2>1. /\ n.open = k.open /\ Then(n) = Then(k) /\ Own(n) = Own(k) /\ n.send = k.send
        /\ n.tri.task = k.tri.task /\ n.tri.resp = "Accepted"
        /\ n.tri.act = "FileRecvB" /\ n.tri.n = k.tri.n
    BY <1>12 DEF FileAhead
  <2>20. k.tri.task # NoTask
    <3>1. Talking(k) /\ k.tri.act \notin {"None"}
      BY <1>1, <1>2 DEF ClientSane
    <3> QED
      BY <1>1, <3>1, TakingIs
  <2>5. OwesNow(k, p, n)
    BY <2>1 DEF OwesNow
  <2>6. Given(n, r)
    BY <1>1, <2>1, RestOfFile
  <2>8. ASSUME s.open = TRUE PROVE InStep(s, n, r, ts) /\ Located(s, n, r, ts)
    <3>1. InStep(s, k, tc, ts) /\ Located(s, k, tc, ts)
      BY <2>8 DEF Sound, Linked
    <3>2. /\ \A i \in DOMAIN tc : i = 1 \/ (i - 1 \in DOMAIN r /\ r[i - 1] = tc[i])
          /\ 1 \in DOMAIN tc /\ tc[1] = p
      BY <1>1, RestOut
    <3>3. ~Silent(tc)
      BY <3>2 DEF Silent, Gives
    <3>4. ~(\E i \in DOMAIN tc : tc[i].cmd = "TaskRequest")
      BY <1>1, <2>20 DEF Given
    <3>5. s.tri.state \in {"WaitForResponse", "SendFileDownloadB"}
      <4>1. s.tri.state \in {"None", "SendTaskRequest", "WaitForResponse",
                             "SendFileDownloadH", "SendFileDownloadB"}
        BY <1>1, ServerRead DEF Sending
      <4> QED
        BY <1>1, <3>1, <3>3, <4>1, InStepIs
    <3>6. InStep(s, n, r, ts)
      <4>1. CASE s.tri.state = "WaitForResponse"
        <5>1. Underway(s, k, tc, ts)
          BY <1>1, <3>1, <4>1, InStepIs
        <5>2. s.tri.task = k.tri.task /\ Comes(tc, "FileBody") /\ Quiet(ts)
          BY <1>2, <2>20, <3>3, <3>4, <5>1 DEF Underway
        <5>3. Comes(r, "FileBody")
          BY <3>2, <5>2 DEF Comes
        <5> QED
          BY <1>1, <2>1, <4>1, <5>2, <5>3, InStepIs DEF Underway
      <4>2. CASE s.tri.state = "SendFileDownloadB"
        <5>1. /\ k.tri.task = s.tri.task /\ tc[Len(tc)].cmd = "FileDownload"
          BY <1>1, <1>2, <3>1, <4>2, InStepIs
        <5>2. \A i \in DOMAIN tc : Gives(tc[i]) => i = Len(tc)
          BY <1>1, <5>1, LastHeader
        <5>3. Len(tc) = 1
          BY <3>2, <5>2 DEF Gives
        <5>4. Len(tc) = Len(r) + 1 /\ Len(r) \in Nat /\ r \in Seq(Packets)
          BY <1>1, Shortened DEF Shorter
        <5>5. Len(r) = 0
          BY <5>3, <5>4
        <5>6. r = <<>>
          BY <5>4, <5>5, EmptySeq
        <5> QED
          BY <1>1, <2>1, <4>2, <5>1, <5>6, InStepIs
      <4> QED
        BY <3>5, <4>1, <4>2
    <3>7. Has(n) = Has(k)
      BY <1>1, <1>3, <2>1, OwnType
    <3>8. p.cmd # "TaskRequest"
      OBVIOUS
    <3>9. Located(s, n, r, ts)
      BY <1>1, <3>1, <3>7, <3>8, RestLocated
    <3> QED
      BY <3>6, <3>9
  <2>9. n.open = TRUE /\ (s.open = TRUE => InStep(s, n, r, ts) /\ Located(s, n, r, ts))
    BY <2>1, <2>8
  <2>11. Then(n) = Then(k)
    BY <2>1
  <2>10. Sound(s, n, r, ts, c)
    BY <1>3, <2>5, <2>6, <2>9, <2>11, OnwardSound
  <2> QED
    BY <1>3, <2>9, <2>10
<1> QED
  BY <1>3, <1>11, <1>12

\* There is room for a task the server has just lent.
LEMMA RoomForTask ==
  ASSUME NEW s \in ServerRecord, ServerSane(s), NEW k \in ClientRecord, ClientSane(k),
         NEW tc, NEW ts, Located(s, k, tc, ts), NEW t \in Tasks, Leaving(s, tc, t)
  PROVE  Len(k.todo) < TodoHigh + NJobs
<1>1. IsFiniteSet(Assigned(s)) /\ s.jobs = Cardinality(Assigned(s)) /\ s.jobs <= TodoHigh + NJobs
  BY DEF ServerSane
<1>2. k.todo \in Seq(Tasks) /\ IsInjective(k.todo)
  BY ClientRead DEF ClientSane, Managing, Once
<1>3. IsFiniteSet(InQueue(k.todo)) /\ Cardinality(InQueue(k.todo)) = Len(k.todo)
  BY <1>2, CountedOnce
<1>4. InQueue(k.todo) \subseteq Assigned(s) \ {t} /\ t \in Assigned(s)
  <2>1. InQueue(k.todo) \subseteq Has(k) /\ InQueue(k.todo) \subseteq Tasks
    BY OwnType DEF Own
  <2>2. \A u \in InQueue(k.todo) : s.list[u] = "proc"
    BY <2>1 DEF Located
  <2>3. t \notin Has(k) /\ s.list[t] = "proc"
    BY DEF Located
  <2> QED
    BY <2>1, <2>2, <2>3 DEF Assigned
<1>5. IsFiniteSet(Assigned(s) \ {t}) /\ Cardinality(Assigned(s) \ {t}) = Cardinality(Assigned(s)) - 1
  BY <1>1, <1>4, FS_RemoveElement
<1>6. Cardinality(InQueue(k.todo)) <= Cardinality(Assigned(s) \ {t})
  BY <1>4, <1>5, FS_Subset
<1>7. Cardinality(Assigned(s)) \in Nat /\ Len(k.todo) \in Nat
  BY <1>1, <1>2, FS_CardinalityType
<1>8. TodoHigh \in Nat /\ NJobs \in Nat
  BY LdrAssumption
<1> QED
  BY <1>1, <1>3, <1>5, <1>6, <1>7, <1>8

\* The client reads a task.
LEMMA TaskReadSound ==
  ASSUME NEW s, NEW k, NEW tc, NEW ts, NEW c, Sound(s, k, tc, ts, c), k.open = TRUE,
         tc # <<>>, NEW p, p = Head(tc), NEW r, r = Tail(tc), p.cmd = "TaskRequest",
         NEW n, n = ParseTaskRequest(k, p)
  PROVE  n \in ClientRecord /\ ClientSane(n) /\ n.open /\ Sound(s, n, r, ts, c)
<1>1. /\ s \in ServerRecord /\ ServerSane(s) /\ k \in ClientRecord /\ ClientSane(k)
      /\ tc \in Seq(Packets) /\ Given(k, tc)
  BY DEF Sound, Linked
<1>2. k.tri.task = NoTask /\ p.task # NoTask /\ p.task \notin Own(k) /\ p \in Packets
  BY <1>1, OffersIs, Shortened DEF Offers
<1>4. n \in ClientRecord /\ ClientSane(n) /\ TaskAhead(k, p, n)
  BY <1>1, <1>2, ReadTask
<1>3. /\ n \in ClientRecord /\ ClientSane(n) /\ n.open = k.open
      /\ Then(n) = Then(k) /\ Own(n) = Own(k) /\ n.send = k.send
      /\ n.tri.task = p.task /\ n.tri.resp # "none"
      /\ n.tri.act \in {"None", "FileReq"}
      /\ Len(k.todo) < TodoHigh + NJobs => n.tri.resp = "Accepted" /\ n.tri.act = "FileReq"
  BY <1>4 DEF TaskAhead
<1>5. OwesNow(k, p, n)
  BY <1>3 DEF OwesNow
<1>6. OrdersOnly(r)
  <2>1. p.cmd \in {"TaskRequest", "FileBody"}
    OBVIOUS
  <2> QED
    BY <1>1, <2>1, RestOrders
<1>7. Given(n, r) /\ Silent(r)
  <2>1. n.tri.act # "FileRecvB"
    BY <1>3
  <2> QED
    BY <1>6, <2>1, OrdersGiven
<1>8. ASSUME s.open = TRUE PROVE InStep(s, n, r, ts) /\ Located(s, n, r, ts)
  <2>1. InStep(s, k, tc, ts) /\ Located(s, k, tc, ts)
    BY <1>8 DEF Sound, Linked
  <2>2. 1 \in DOMAIN tc /\ tc[1] = p
    BY <1>1, RestOut
  <2>3. ~Silent(tc) /\ \A i \in DOMAIN tc : Gives(tc[i]) => tc[i] = p
    <3>1. Gives(p)
      BY DEF Gives
    <3>2. \A i \in DOMAIN tc : Gives(tc[i]) => i = 1
      BY <1>1, <2>2 DEF Given
    <3> QED
      BY <2>2, <3>1, <3>2 DEF Silent
  <2>4. s.tri.state = "WaitForResponse" /\ s.tri.task = p.task /\ Quiet(ts)
    <3>1. s.tri.state \in {"None", "SendTaskRequest", "WaitForResponse", "SendFileDownloadH",
                           "SendFileDownloadB"}
      BY <1>1, ServerRead DEF Sending
    <3>4. s.tri.state # "None" => s.tri.task # NoTask
      BY <1>1 DEF ServerSane
    <3>2. s.tri.state = "WaitForResponse"
      BY <1>1, <1>2, <2>1, <2>3, <3>1, <3>4, InStepIs
    <3>3. Underway(s, k, tc, ts)
      BY <1>1, <2>1, <3>2, InStepIs
    <3>5. (\E i \in DOMAIN tc : tc[i].cmd = "TaskRequest" /\ tc[i].task = s.tri.task) /\ Quiet(ts)
      BY <1>2, <2>3, <3>2, <3>3, <3>4 DEF Underway
    <3>6. s.tri.task = p.task
      BY <2>3, <3>5 DEF Gives
    <3> QED
      BY <3>2, <3>5, <3>6
  <2>9. p.task \in Tasks
    BY <1>2 DEF Packets, Held
  <2>10. \A t : Leaving(s, tc, t) <=> t = p.task
    <3>1. \A i \in DOMAIN tc : tc[i].cmd = "TaskRequest" => tc[i] = p
      BY <2>3 DEF Gives
    <3> QED
      BY <2>2, <2>4, <3>1 DEF Leaving
  <2>11. \A t : ~Leaving(s, r, t)
    BY <1>6, <2>4 DEF Leaving, OrdersOnly
  <2>12. Len(k.todo) < TodoHigh + NJobs
    <3> DEFINE t == p.task
    <3>1. t \in Tasks /\ Leaving(s, tc, t)
      BY <2>9, <2>10
    <3> HIDE DEF t
    <3> QED
      BY <1>1, <2>1, <3>1, RoomForTask
  <2>5. InStep(s, n, r, ts)
    BY <1>1, <1>3, <1>7, <2>4, <2>12, InStepIs DEF Underway
  <2>6. Has(n) = Has(k) \cup {p.task}
    <3>1. Has(n) = Own(n) \cup ({n.tri.task} \ {NoTask})
      BY <1>3, OwnType
    <3>2. Has(k) = Own(k) \cup ({k.tri.task} \ {NoTask})
      BY <1>1, OwnType
    <3> QED
      BY <1>2, <1>3, <3>1, <3>2
  <2>8. Located(s, n, r, ts)
    <3> SUFFICES ASSUME NEW t \in Tasks
                 PROVE  /\ s.list[t] = "proc" <=>
                             Leaving(s, r, t) \/ t \in Has(n) \/ Returning(ts, t)
                        /\ Leaving(s, r, t) => t \notin Has(n) /\ ~Returning(ts, t)
                        /\ Returning(ts, t) => t \notin Has(n)
      BY DEF Located
    <3>1. /\ s.list[t] = "proc" <=>
               Leaving(s, tc, t) \/ t \in Has(k) \/ Returning(ts, t)
          /\ Leaving(s, tc, t) => t \notin Has(k) /\ ~Returning(ts, t)
          /\ Returning(ts, t) => t \notin Has(k)
      BY <2>1 DEF Located
    <3>2. (Leaving(s, tc, t) <=> t = p.task) /\ ~Leaving(s, r, t)
      BY <2>10, <2>11
    <3> QED
      BY <2>6, <3>1, <3>2
  <2> QED
    BY <2>5, <2>8
<1>9. n.open = TRUE /\ (s.open = TRUE => InStep(s, n, r, ts) /\ Located(s, n, r, ts))
  BY <1>3, <1>8
<1>10. Sound(s, n, r, ts, c)
  BY <1>3, <1>5, <1>7, <1>9, OnwardSound
<1> QED
  BY <1>3, <1>9, <1>10

\* The client reads a packet.
LEMMA ClientReadsSound ==
  ASSUME NEW s, NEW k, NEW tc, NEW ts, NEW c, Sound(s, k, tc, ts, c), k.open = TRUE,
         tc # <<>>, NEW p, p = Head(tc), NEW fault \in BOOLEAN,
         NEW n, n = ReceiveOnClient(k, p, fault)
  PROVE  Sound(s, n, IF n.open THEN Tail(tc) ELSE <<>>, ts, c)
<1> DEFINE r == Tail(tc)
<1>1. /\ s \in ServerRecord /\ k \in ClientRecord /\ ClientSane(k)
      /\ tc \in Seq(Packets) /\ Given(k, tc)
  BY DEF Sound, Linked
<1>2. Offers(k, p) /\ p \in Packets
  BY <1>1, OffersIs, Shortened
<1>3. (k.tri.act = "FileRecvB") <=> (p.cmd = "FileBody")
  BY <1>2 DEF Offers
<1>4. /\ p.cmd = "FileBody" => n = ClientSends(DownloadDone(k))
      /\ p.cmd = "TaskRequest" => n = ClientSends(ParseTaskRequest(k, p))
      /\ p.cmd = "FileDownload" => n = ClientSends(ParseFileDownload(k, p, fault))
      /\ p.cmd = "ControlRequest" => n = ClientSends(ParseCommandRequest(k, p))
  BY <1>1, <1>2, <1>3, ReadingIs
<1>5. \E m \in ClientRecord : /\ n = ClientSends(m) /\ ClientSane(m)
                              /\ Sound(s, m, IF m.open THEN r ELSE <<>>, ts, c)
  <2>1. CASE p.cmd = "FileBody"
    <3> DEFINE m == DownloadDone(k)
    <3>1. m = DownloadDone(k) /\ n = ClientSends(m) /\ r = Tail(tc)
      BY <1>4, <2>1
    <3> HIDE DEF m, r
    <3>2. m \in ClientRecord /\ ClientSane(m) /\ m.open /\ Sound(s, m, r, ts, c)
      BY <2>1, <3>1, BodyReadSound
    <3> QED
      BY <3>1, <3>2
  <2>2. CASE p.cmd = "TaskRequest"
    <3> DEFINE m == ParseTaskRequest(k, p)
    <3>1. m = ParseTaskRequest(k, p) /\ n = ClientSends(m) /\ r = Tail(tc)
      BY <1>4, <2>2
    <3> HIDE DEF m, r
    <3>2. m \in ClientRecord /\ ClientSane(m) /\ m.open /\ Sound(s, m, r, ts, c)
      BY <2>2, <3>1, TaskReadSound
    <3> QED
      BY <3>1, <3>2
  <2>3. CASE p.cmd = "FileDownload"
    <3> DEFINE m == ParseFileDownload(k, p, fault)
    <3>1. m = ParseFileDownload(k, p, fault) /\ n = ClientSends(m) /\ r = Tail(tc)
      BY <1>4, <2>3
    <3> HIDE DEF m, r
    <3>2. m \in ClientRecord /\ ClientSane(m) /\ Sound(s, m, IF m.open THEN r ELSE <<>>, ts, c)
      BY <2>3, <3>1, HeaderReadSound
    <3> QED
      BY <3>1, <3>2
  <2>4. CASE p.cmd = "ControlRequest"
    <3> DEFINE m == ParseCommandRequest(k, p)
    <3>1. m = ParseCommandRequest(k, p) /\ n = ClientSends(m) /\ r = Tail(tc)
      BY <1>4, <2>4
    <3> HIDE DEF m, r
    <3>2. m \in ClientRecord /\ ClientSane(m) /\ m.open /\ Sound(s, m, r, ts, c)
      BY <2>4, <3>1, OrderReadSound
    <3> QED
      BY <3>1, <3>2
  <2> QED
    BY <1>2, <2>1, <2>2, <2>3, <2>4 DEF Offers
<1>6. PICK m \in ClientRecord : /\ n = ClientSends(m) /\ ClientSane(m)
                                /\ Sound(s, m, IF m.open THEN r ELSE <<>>, ts, c)
  BY <1>5
<1>7. n \in ClientRecord /\ ClientSane(n) /\ Same(m, n)
  BY <1>6, SendsSane
<1> DEFINE t == IF m.open THEN r ELSE <<>>
<1>8. Sound(s, m, t, ts, c)
  BY <1>6
<1>9. t = IF n.open THEN Tail(tc) ELSE <<>>
  BY <1>7 DEF Same
<1> HIDE DEF t
<1>10. Sound(s, n, t, ts, c)
  BY <1>7, <1>8, ClientStays
<1> QED
  BY <1>9, <1>10

----------------------------------------------------------------------------
(* Every step of the two programs *)

\* The programs start.
LEMMA LinkInit == Init => Sound(srv, cli, toClient, toServer, cut)
<1> SUFFICES ASSUME Init PROVE Sound(srv, cli, toClient, toServer, cut)
  OBVIOUS
<1>1. srv = Server0 /\ cli = Client0 /\ toClient = <<>> /\ toServer = <<>> /\ cut = FALSE
  BY DEF Init
<1> DEFINE s == srv  k == cli
<1>2. s \in ServerRecord /\ ~s.open /\ s.quit = 0 /\ ServerSane(s)
  <2>1. /\ s \in ServerRecord
        /\ ~s.open /\ s.quit = 0 /\ s.jobs = 0
        /\ s.tri = NoTri /\ s.tdi = NoTdi /\ s.out = NoPacket /\ ~s.lock
        /\ s.send = <<>> /\ s.wait = <<>> /\ s.why # "protocol"
        /\ s.list = [t \in Tasks |-> "todo"]
    BY <1>1, Server0Is
  <2>2. Assigned(s) = {}
    BY <2>1 DEF Assigned
  <2> HIDE DEF s
  <2> QED
    BY <2>1, <2>2, AtRest
<1>3. /\ k \in ClientRecord /\ ~k.open /\ ClientSane(k)
  <2>1. /\ k.open = FALSE /\ k.tri = FreeTri /\ k.tdi = FreeTdi /\ k.out = NoPacket
        /\ k.lock = FALSE /\ k.send = <<>> /\ k.outsched = FALSE
        /\ k.dts = 0 /\ k.cur = NoTask /\ k.take = NoTask /\ k.srec = 0 /\ k.tsQuit = FALSE
        /\ k.timer = FALSE /\ k.todo = <<>> /\ k.proc = {} /\ k.done = <<>>
        /\ k.run = [t \in Tasks |-> "unset"]
        /\ k.dsmt = FALSE /\ k.first = FALSE /\ k.stopped = FALSE /\ k.mrec = FALSE
        /\ k.toldIf = FALSE /\ k.toldTs = FALSE /\ k.pend = "None" /\ k.conn = FALSE
        /\ k.sched = FALSE /\ k.why = "none" /\ k.assert = TRUE
    BY <1>1 DEF Client0
  <2>2. k \in ClientRecord
    BY <1>1, Nothing, EmptySeq DEF Client0, ClientRecord, Verdicts, Ends
  <2>3. IsInjective(k.todo) /\ IsInjective(k.done) /\ InQueue(k.todo) = {} /\ InQueue(k.done) = {}
    BY <2>1 DEF IsInjective, InQueue
  <2>4. Own(k) = {}
    BY <2>1, <2>3 DEF Own
  <2> HIDE DEF k
  <2>5. Once(k)
    BY <2>1, <2>3 DEF Once
  <2>6. Agreed(k)
    BY <2>1, <2>4 DEF Agreed
  <2>7. Receiving(k)
    BY <2>1, <2>4 DEF Receiving, FreeTri
  <2>8. Telling(k)
    BY <2>1, Nothing DEF Telling, FreeTdi
  <2>9. ClientOut(k)
    BY <2>1, Saying DEF ClientOut, FreeTdi
  <2> QED
    BY <2>1, <2>2, <2>5, <2>6, <2>7, <2>8, <2>9 DEF ClientSane, Managing, Talking
<1> HIDE DEF s, k
<1>4. /\ <<>> \in Seq(Packets) /\ Asked(s, <<>>) /\ Given(k, <<>>)
  <2>1. <<>> \in Seq(Packets) /\ DOMAIN <<>> = {}
    BY NothingThere
  <2> QED
    BY <2>1 DEF Asked, Given
<1>5. Reports(s, k, <<>>, FALSE) /\ Answered(s, k, <<>>, <<>>, FALSE)
  BY <1>2, <1>3, NothingThere DEF Reports, Answered
<1>6. Linked(s, k, <<>>, <<>>, FALSE)
  BY <1>2, <1>3, <1>4, <1>5 DEF Linked
<1>7. Sound(s, k, <<>>, <<>>, FALSE)
  BY <1>2, <1>6 DEF Sound
<1> QED
  BY <1>1, <1>7 DEF s, k

\* Reads and writes of the server; its files are there before its verdict.
LEMMA ServerStepSound ==
  ASSUME Sound(srv, cli, toClient, toServer, cut),
         \/ \E t \in Tasks : LaunchTask(t)
         \/ \E x \in Commands : SendCommand(x)
         \/ ServerWrites \/ ServerReads \/ ServerNotices
  PROVE  Sound(srv, cli, toClient, toServer, cut)' /\ Rewarded(srv, srv')
<1> DEFINE s == srv  k == cli  tc == toClient  ts == toServer  c == cut  n == srv'
<1>1. Sound(s, k, tc, ts, c)
  OBVIOUS
<1>2. s \in ServerRecord /\ ServerSane(s) /\ c \in BOOLEAN /\ s.open \in BOOLEAN /\ k.open \in BOOLEAN
  BY <1>1, ServerRead, ClientRead DEF Sound, Linked
<1>3. SUFFICES Sound(n, cli', toClient', toServer', cut') /\ Rewarded(s, n)
  OBVIOUS
<1>4. ASSUME n.tes = s.tes PROVE Rewarded(s, n)
  BY <1>4 DEF Rewarded
<1>5. ASSUME NEW t \in Tasks, LaunchTask(t)
      PROVE  Sound(n, cli', toClient', toServer', cut') /\ Rewarded(s, n)
  <2>1. /\ s.open = TRUE /\ s.list[t] = "todo" /\ CanDoTask(s) /\ n = SendTaskToClient(s, t)
        /\ cli' = k /\ toClient' = tc /\ toServer' = ts /\ cut' = c
    BY <1>2, <1>5 DEF LaunchTask
  <2> HIDE DEF s, k, tc, ts, c, n
  <2>2. Sound(n, k, tc, ts, c)
    BY <1>1, <2>1, LaunchSound
  <2>3. Lending(s, t, n)
    BY <1>2, <2>1, LendingSane
  <2>4. n.tes = s.tes
    BY <2>3 DEF Lending
  <2> QED
    BY <1>4, <2>1, <2>2, <2>4
<1>6. ASSUME NEW x \in Commands, SendCommand(x)
      PROVE  Sound(n, cli', toClient', toServer', cut') /\ Rewarded(s, n)
  <2>1. /\ s.open = TRUE /\ s.quit = 0 /\ n = SendControlRequest(s, x) /\ x \in Orders
        /\ cli' = k /\ toClient' = tc /\ toServer' = ts /\ cut' = c
    BY <1>2, <1>6, LdrAssumption DEF SendCommand, Orders
  <2> HIDE DEF s, k, tc, ts, c, n
  <2>2. Sound(n, k, tc, ts, c)
    BY <1>1, <2>1, OrderSound
  <2>3. n.tes = s.tes
    BY <1>2, <2>1, OrderingSane
  <2> QED
    BY <1>4, <2>1, <2>2, <2>3
<1>7. ASSUME ServerWrites
      PROVE  Sound(n, cli', toClient', toServer', cut') /\ Rewarded(s, n)
  <2> DEFINE d == toClient'
  <2>1. /\ s.open = TRUE /\ s.out # NoPacket /\ n = ServerSends(ServerSent(s))
        /\ d = Write(tc, k.open, s.out) /\ cli' = k /\ toServer' = ts /\ cut' = c
    BY <1>2, <1>7 DEF ServerWrites
  <2>2. \/ k.open /\ ~c /\ d = Append(tc, s.out)
        \/ (~k.open \/ c) /\ d = tc
    BY <2>1 DEF Write
  <2> HIDE DEF s, k, tc, ts, c, n, d
  <2>3. Sound(n, k, d, ts, c) /\ n.tes = s.tes
    BY <1>1, <2>1, <2>2, ServerWritesSound
  <2> QED
    BY <1>4, <2>1, <2>3 DEF d
<1>8. ASSUME ServerReads
      PROVE  Sound(n, cli', toClient', toServer', cut') /\ Rewarded(s, n)
  <2> DEFINE p == Head(ts)
  <2>1. PICK fault \in {FALSE, FileFaults} :
          /\ s.open = TRUE /\ ts # <<>> /\ n = ReceiveOnServer(s, p, fault)
          /\ toServer' = (IF n.open THEN Tail(ts) ELSE <<>>)
          /\ cli' = k /\ toClient' = tc /\ cut' = c
    BY <1>2, <1>8 DEF ServerReads
  <2>2. fault \in BOOLEAN /\ p = Head(ts)
    BY LdrAssumption
  <2> HIDE DEF s, k, tc, ts, c, n, p
  <2>3. Sound(n, k, tc, IF n.open THEN Tail(ts) ELSE <<>>, c) /\ Rewarded(s, n)
    BY <1>1, <2>1, <2>2, ServerReadsSound
  <2> QED
    BY <2>1, <2>3
<1>9. ASSUME ServerNotices
      PROVE  Sound(n, cli', toClient', toServer', cut') /\ Rewarded(s, n)
  <2> DEFINE w == IF s.quit = 3 THEN "quit" ELSE "lost"
  <2>1. /\ n = KickMe(s, w) /\ w \in Ends /\ w # "protocol" /\ ts = <<>> /\ toServer' = ts
        /\ cli' = k /\ toClient' = tc /\ cut' = c
    BY <1>9 DEF ServerNotices, Ends
  <2> HIDE DEF s, k, tc, ts, c, n, w
  <2>2. Sound(n, k, tc, <<>>, c)
    BY <1>1, <2>1, ServerLostSound
  <2>3. n.tes = s.tes
    BY <1>2, <2>1, KickedSane
  <2> QED
    BY <1>4, <2>1, <2>2, <2>3
<1> QED
  BY <1>5, <1>6, <1>7, <1>8, <1>9

\* Steps of the client.
LEMMA ClientStepSound ==
  ASSUME Sound(srv, cli, toClient, toServer, cut),
         \/ ClientWrites \/ ClientReads \/ ClientNotices
         \/ OutpumpTimer \/ SourceTimer \/ ScheduleTimer \/ StartJob
         \/ \E t \in Tasks : FinishJob(t)
  PROVE  Sound(srv, cli, toClient, toServer, cut)' /\ srv' = srv
<1> DEFINE s == srv  k == cli  tc == toClient  ts == toServer  c == cut  n == cli'
<1>1. Sound(s, k, tc, ts, c)
  OBVIOUS
<1>2. k \in ClientRecord /\ ClientSane(k) /\ c \in BOOLEAN /\ s.open \in BOOLEAN /\ k.open \in BOOLEAN
  BY <1>1, ServerRead, ClientRead DEF Sound, Linked
<1>3. SUFFICES Sound(srv', n, toClient', toServer', cut') /\ srv' = s
  OBVIOUS
<1>4. ASSUME ClientWrites
      PROVE  Sound(srv', n, toClient', toServer', cut') /\ srv' = s
  <2> DEFINE d == toServer'  m == ClientSent(k)
  <2>1. /\ k.open = TRUE /\ k.out # NoPacket
        /\ d = Write(ts, s.open, k.out) /\ n = (IF m.open THEN ClientSends(m) ELSE m)
        /\ toClient' = (IF n.open THEN tc ELSE <<>>)
        /\ srv' = s /\ cut' = c
    BY <1>2, <1>4 DEF ClientWrites
  <2>2. WrittenTo(s, ts, c, k.out, d) /\ m = ClientSent(k)
    BY <2>1 DEF Write, WrittenTo
  <2> HIDE DEF s, k, tc, ts, c, n, d, m
  <2>3. Sound(s, n, IF n.open THEN tc ELSE <<>>, d, c)
    BY <1>1, <2>1, <2>2, ClientWritesSound
  <2> QED
    BY <2>1, <2>3 DEF d
<1>5. ASSUME ClientReads
      PROVE  Sound(srv', n, toClient', toServer', cut') /\ srv' = s
  <2> DEFINE p == Head(tc)
  <2>1. PICK fault \in {FALSE, FileFaults} :
          /\ k.open = TRUE /\ tc # <<>> /\ n = ReceiveOnClient(k, p, fault)
          /\ toClient' = (IF n.open THEN Tail(tc) ELSE <<>>)
          /\ srv' = s /\ toServer' = ts /\ cut' = c
    BY <1>2, <1>5 DEF ClientReads
  <2>2. fault \in BOOLEAN /\ p = Head(tc)
    BY LdrAssumption
  <2> HIDE DEF s, k, tc, ts, c, n, p
  <2>3. Sound(s, n, IF n.open THEN Tail(tc) ELSE <<>>, ts, c)
    BY <1>1, <2>1, <2>2, ClientReadsSound
  <2> QED
    BY <2>1, <2>3
<1>6. ASSUME ClientNotices
      PROVE  Sound(srv', n, toClient', toServer', cut') /\ srv' = s
  <2> DEFINE w == "lost"
  <2>1. /\ k.open /\ n = ConnClose(k, w) /\ w \in Ends /\ w # "protocol" /\ tc = <<>>
        /\ toClient' = tc /\ toServer' = ts /\ srv' = s /\ cut' = c
    BY <1>6 DEF ClientNotices, Ends
  <2> HIDE DEF s, k, tc, ts, c, n, w
  <2>2. Sound(s, n, <<>>, ts, c)
    BY <1>1, <2>1, ClientLostSound
  <2> QED
    BY <2>1, <2>2
<1>7. ASSUME \/ OutpumpTimer \/ SourceTimer \/ ScheduleTimer \/ StartJob
             \/ \E t \in Tasks : FinishJob(t)
      PROVE  Sound(srv', n, toClient', toServer', cut') /\ srv' = s
  <2>1. /\ \/ n = ScheduledSend(k) \/ n = TimerNotify(k) \/ n = Schedule(k)
           \/ k.todo # <<>> /\ n = JobStarted(k)
           \/ \E t \in k.proc : \E v \in {"ok", "failed"} : n = JobDone(k, t, v)
        /\ toClient' = tc /\ toServer' = ts /\ srv' = s /\ cut' = c
    BY <1>7 DEF OutpumpTimer, SourceTimer, ScheduleTimer, StartJob, FinishJob
  <2> HIDE DEF s, k, tc, ts, c, n
  <2>2. Sound(s, n, tc, ts, c)
    BY <1>1, <2>1, OwnSound
  <2> QED
    BY <2>1, <2>2
<1> QED
  BY <1>4, <1>5, <1>6, <1>7

\* The connection comes and goes.
LEMMA NetworkSound ==
  ASSUME Sound(srv, cli, toClient, toServer, cut), Connect \/ Break
  PROVE  Sound(srv, cli, toClient, toServer, cut)' /\ Rewarded(srv, srv')
<1> DEFINE s == srv  k == cli  tc == toClient  ts == toServer  c == cut
<1>1. Sound(s, k, tc, ts, c)
  OBVIOUS
<1>2. s \in ServerRecord /\ ServerSane(s) /\ c \in BOOLEAN
  BY <1>1 DEF Sound, Linked
<1>3. CASE Connect
  <2> DEFINE r == srv'  n == cli'
  <2>1. /\ Sound(s, k, <<>>, <<>>, c) /\ ~s.open /\ ~k.open /\ k.srec = 0
        /\ r = Connected(s) /\ n = ServerHasNowAuthenticated(k)
        /\ toClient' = <<>> /\ toServer' = <<>> /\ cut' = FALSE
    BY <1>1, <1>3 DEF Connect
  <2> HIDE DEF s, k, r, n, c
  <2>2. Sound(r, n, <<>>, <<>>, FALSE)
    BY <2>1, ConnectSound
  <2>3. r.tes = s.tes
    BY <1>2, <2>1, ConnectedSane
  <2>4. Sound(srv', cli', toClient', toServer', cut')
    BY <2>1, <2>2 DEF r, n
  <2>5. Rewarded(srv, srv')
    BY <2>3 DEF Rewarded, r, s
  <2> QED
    BY <2>4, <2>5
<1>4. CASE Break
  <2>1. /\ s.open /\ k.open /\ c = FALSE
        /\ toClient' = <<>> /\ toServer' = <<>> /\ cut' = TRUE /\ srv' = s /\ cli' = k
    BY <1>2, <1>4 DEF Break
  <2>2. Sound(s, k, tc, ts, FALSE)
    BY <1>1, <2>1
  <2> HIDE DEF s, k, tc, ts, c
  <2>3. Sound(s, k, <<>>, <<>>, TRUE)
    BY <2>1, <2>2, BreakSound
  <2>4. Rewarded(s, srv')
    BY <2>1 DEF Rewarded
  <2> QED
    BY <2>1, <2>3, <2>4 DEF s
<1> QED
  BY <1>3, <1>4

\* Every step.
LEMMA LinkNext ==
  ASSUME Sound(srv, cli, toClient, toServer, cut), [Next]_link
  PROVE  Sound(srv, cli, toClient, toServer, cut)' /\ Rewarded(srv, srv')
<1>1. CASE UNCHANGED link
  BY <1>1 DEF link, Rewarded
<1>2. CASE \/ \E t \in Tasks : LaunchTask(t)
           \/ \E x \in Commands : SendCommand(x)
           \/ ServerWrites \/ ServerReads \/ ServerNotices
  BY <1>2, ServerStepSound
<1>3. CASE \/ ClientWrites \/ ClientReads \/ ClientNotices
           \/ OutpumpTimer \/ SourceTimer \/ ScheduleTimer \/ StartJob
           \/ \E t \in Tasks : FinishJob(t)
  <2>1. Sound(srv, cli, toClient, toServer, cut)' /\ srv' = srv
    BY <1>3, ClientStepSound
  <2> QED
    BY <2>1 DEF Rewarded
<1>4. CASE Connect \/ Break
  BY <1>4, NetworkSound
<1> QED
  BY <1>1, <1>2, <1>3, <1>4 DEF Next

----------------------------------------------------------------------------
(* The theorems *)

\* The two ends fit each other, and what is on its way between them.
LinkInvariant == Sound(srv, cli, toClient, toServer, cut)

\* The invariant holds in every state.
THEOREM LinkIsSound == Spec => []LinkInvariant
<1>1. Init => LinkInvariant
  BY LinkInit DEF LinkInvariant
<1>2. LinkInvariant /\ [Next]_link => LinkInvariant'
  BY LinkNext DEF LinkInvariant
<1> QED
  BY <1>1, <1>2, PTL DEF Spec

\* Type correctness of both ends.
THEOREM LinkIsTyped == Spec => []LinkTyped
<1>1. LinkInvariant => LinkTyped
  <2> SUFFICES ASSUME LinkInvariant PROVE LinkTyped
    OBVIOUS
  <2>1. srv \in ServerRecord /\ cli \in ClientRecord /\ ServerSane(srv)
    BY DEF LinkInvariant, Sound, Linked
  <2>2. srv.jobs \in Nat
    BY <2>1, FS_CardinalityType DEF ServerSane
  <2>3. /\ srv.auth \in 0..2 /\ srv.quit \in 0..3
        /\ srv.list \in [Tasks -> {"todo", "proc", "done"}]
        /\ srv.tes \in [Tasks -> Verdicts]
        /\ srv.tri \in Sending /\ srv.tdi \in Getting
    BY <2>1, ServerRead
  <2>4. srv.tri.task \in Held /\ srv.tdi.task \in Held
    BY <2>3 DEF Sending, Getting
  <2>5. /\ cli.run \in [Tasks -> Verdicts]
        /\ cli.tri \in Taking /\ cli.tdi \in Reporting /\ cli.cur \in Held
        /\ cli.dts \in 0..2 /\ cli.srec \in 0..2
        /\ cli.pend \in {"None", "Connect", "DoneTask", "Disconnect"}
    BY <2>1, ClientRead
  <2>6. cli.tri.task \in Held /\ cli.tdi.task \in Held
    BY <2>5 DEF Taking, Reporting
  <2> QED
    BY <2>2, <2>3, <2>4, <2>5, <2>6 DEF LinkTyped
<1> QED
  BY <1>1, LinkIsSound, PTL

\* A lent task is in exactly one place, and the server's count is right.
THEOREM LentTasksAreKept == Spec => []LentTasksAreSomewhere
<1>1. LinkInvariant => LentTasksAreSomewhere
  <2> SUFFICES ASSUME LinkInvariant PROVE LentTasksAreSomewhere
    OBVIOUS
  <2>1. ServerSane(srv) /\ (Live => Located(srv, cli, toClient, toServer))
    BY DEF LinkInvariant, Sound, Linked, Live
  <2>2. AssignedJobsCounted
    BY <2>1 DEF ServerSane, AssignedJobsCounted
  <2>3. ASSUME NEW t \in Tasks
        PROVE  /\ GoingOut(t) <=> Leaving(srv, toClient, t)
               /\ ComingBack(t) <=> Returning(toServer, t)
    BY DEF GoingOut, ComingBack, Travels, Leaving, Returning
  <2>4. ASSUME Live, NEW t \in Tasks
        PROVE  /\ srv.list[t] = "proc" <=> GoingOut(t) \/ t \in Has(cli) \/ ComingBack(t)
               /\ ~(GoingOut(t) /\ t \in Has(cli))
               /\ ~(ComingBack(t) /\ t \in Has(cli))
    BY <2>1, <2>3, <2>4 DEF Located
  <2> QED
    BY <2>2, <2>4 DEF LentTasksAreSomewhere
<1> QED
  BY <1>1, LinkIsSound, PTL

\* Neither end is kicked for what it said, and the client's assertions hold.
THEOREM NobodyGetsKicked == Spec => []NobodyIsKicked
<1>1. LinkInvariant => NobodyIsKicked
  <2> SUFFICES ASSUME LinkInvariant PROVE NobodyIsKicked
    OBVIOUS
  <2>1. ServerSane(srv) /\ ClientSane(cli)
    BY DEF LinkInvariant, Sound, Linked
  <2> QED
    BY <2>1 DEF ServerSane, ClientSane, Managing, Talking, NobodyIsKicked
<1> QED
  BY <1>1, LinkIsSound, PTL

\* The server counts a task as done successfully only with all its files.
THEOREM FilesComeBeforeSuccess == Spec => FilesComeFirst
<1> DEFINE A == \A t \in Tasks :
                  srv.tes[t] # "ok" /\ srv'.tes[t] = "ok" => srv.tdi.got = Uploads[t]
<1>1. LinkInvariant /\ [Next]_link => A
  <2> SUFFICES ASSUME LinkInvariant, [Next]_link PROVE A
    OBVIOUS
  <2>1. Rewarded(srv, srv')
    BY LinkNext DEF LinkInvariant
  <2> QED
    BY <2>1 DEF Rewarded
<1>2. [A]_link => [\A t \in Tasks :
         srv.tes[t] # "ok" /\ srv'.tes[t] = "ok" => srv.tdi.got = Uploads[t]]_link
  OBVIOUS
<1> HIDE DEF A
<1> QED
  BY <1>1, <1>2, LinkIsSound, PTL DEF Spec, FilesComeFirst
=============================================================================
