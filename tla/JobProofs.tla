------------------------------ MODULE JobProofs ------------------------------
(***************************************************************************)
(* The jobs of RendView: how many there are, which are started and which    *)
(* get killed, in any run.  Only LaunchScheduled() starts a job; every other *)
(* member function of the manager leaves the jobs and their counters alone   *)
(* (Tame), so what remains is the scheduled start, the end of a job and the  *)
(* orders to kill.                                                           *)
(***************************************************************************)
EXTENDS TaskProofs

\* running_jobs[] below its limits, with room for a job of task t.
RoomFor(s, t) ==
  /\ RunningJobs(s) < NJobs
  /\ \/ s.stage[t] = "ToBeRendered" /\ s.nrun["Render"] < MaxRender
     \/ s.stage[t] = "ToBeFiltered" /\ s.nrun["Filter"] < MaxFilter

\* A task that is scheduled for start may still be started.
Startable(s) == s.sfs # NoTask => RoomFor(s, s.sfs)

\* The jobs of one kind; proc lists the jobs, and running_jobs[] counts them.
Ones(s, k) == {t \in Jobs(s) : KindOf(s, t) = k}
Counted(s) ==
  Jobs(s) = s.proc /\ \A k \in Kinds : s.nrun[k] = Cardinality(Ones(s, k))
Limited(s) ==
  /\ s.nrun["Render"] <= MaxRender /\ s.nrun["Filter"] <= MaxFilter
  /\ RunningJobs(s) <= NJobs

\* Somebody wakes up for the scheduled start, and the load is polled for
\* nothing else.
Await(s) ==
  /\ s.sfs # NoTask /\ s.quitStep = 0 => IF s.load THEN s.tid0 ELSE s.poll
  /\ s.poll => s.sfs # NoTask /\ ~s.load

\* Tasks that are waiting or worked on; a request for one more is only made
\* when there is room.
Load(s) == Len(s.refilter) + Len(s.fresh) + Cardinality(s.proc)
Roomy(s) ==
  /\ Len(s.fresh) <= TodoHigh
  /\ Load(s) <= TodoHigh + NJobs
  /\ s.srcPend = "AGetTask" =>
       Len(s.fresh) < TodoHigh /\ Load(s) < TodoHigh + NJobs

\* Too many failures in sequence stop everything.
Enough(s) ==
  MaxFailed > 0 =>
    /\ s.failed >= MaxFailed => s.dsmt /\ s.sq = 2
    /\ s.failed + Cardinality(s.proc) < MaxFailed + NJobs

\* The order to kill reaches all jobs, and none is started after it.
Killing(s) ==
  /\ s.abortOn => s.dsmt
  /\ s.abortOn /\ ~s.killTasks /\ s.crash = "none" =>
       \A t \in Jobs(s) : s.killed[t] # "NotKilled"

\* Before _StartProcessing() the members are as constructed.
Unstarted(s) ==
  ~s.started => s = Fresh \/ s = [Fresh EXCEPT !.crash = "nullif"]

Steady(s) ==
  Startable(s) /\ Counted(s) /\ Limited(s) /\ Roomy(s) /\ Killing(s)
InOrder(s) == Steady(s) /\ Enough(s)

JobsInOrder == InOrder(tm)
StartAwaited == Await(tm)
NotYetStarted == Unstarted(tm)

----------------------------------------------------------------------------
(* Member functions that leave the jobs alone *)

\* From s to r the jobs and their counters stay, what was given up stays so,
\* the queues do not grow, a start is only scheduled when there is room and
\* with somebody to wake up for it, and so is a request for a task.
Tame(s, r) ==
  /\ r.job = s.job /\ r.killed = s.killed /\ r.nrun = s.nrun
  /\ r.proc = s.proc /\ r.stage = s.stage /\ r.failed = s.failed
  /\ r.abortOn = s.abortOn /\ r.killTasks = s.killTasks
  /\ s.dsmt => r.dsmt
  /\ s.sq = 2 => r.sq = 2
  /\ s.crash # "none" => r.crash # "none"
  /\ Len(r.fresh) <= Len(s.fresh) /\ Len(r.refilter) <= Len(s.refilter)
  /\ Startable(s) => Startable(r)
  /\ Await(s) => Await(r)
  /\ r.srcPend = "AGetTask" =>
       s.srcPend = "AGetTask" \/ Len(r.refilter) + Len(r.fresh) < TodoHigh

\* From s to r none of that is touched; the timer may be armed, and the way
\* out begin.
Unmoved(s, r) ==
  /\ r.job = s.job /\ r.killed = s.killed /\ r.nrun = s.nrun
  /\ r.proc = s.proc /\ r.stage = s.stage /\ r.failed = s.failed
  /\ r.abortOn = s.abortOn /\ r.killTasks = s.killTasks
  /\ r.dsmt = s.dsmt /\ r.sq = s.sq
  /\ s.crash # "none" => r.crash # "none"
  /\ r.fresh = s.fresh /\ r.refilter = s.refilter
  /\ r.sfs = s.sfs /\ r.load = s.load /\ r.poll = s.poll
  /\ s.tid0 => r.tid0
  /\ r.quitStep = 0 => s.quitStep = 0
  /\ r.srcPend = "AGetTask" => s.srcPend = "AGetTask"

\* Lists have lengths, proc has a size.
LEMMA Lengths ==
  ASSUME NEW s \in Members
  PROVE  /\ Len(s.refilter) \in Nat /\ Len(s.fresh) \in Nat
         /\ Len(Todo(s)) = Len(s.refilter) + Len(s.fresh)
<1>1. s.refilter \in Seq(Frames) /\ s.fresh \in Seq(Frames)
  BY Read
<1> QED
  BY <1>1, LenProperties, ConcatProperties DEF Todo

\* What is untouched is tame.
LEMMA UnmovedTame ==
  ASSUME NEW s \in Members, NEW r, Unmoved(s, r) PROVE Tame(s, r)
<1>1. Startable(s) => Startable(r)
  BY DEF Unmoved, Startable, RoomFor, RunningJobs
<1>2. Await(s) => Await(r)
  BY DEF Unmoved, Await
<1>3. Len(r.fresh) <= Len(s.fresh) /\ Len(r.refilter) <= Len(s.refilter)
  BY Lengths DEF Unmoved
<1> QED
  BY <1>1, <1>2, <1>3 DEF Tame, Unmoved

\* Unmoved and Tame compose.
LEMMA UnmovedTrans ==
  ASSUME NEW s, NEW r, NEW q, Unmoved(s, r), Unmoved(r, q) PROVE Unmoved(s, q)
  BY DEF Unmoved

LEMMA TameTrans ==
  ASSUME NEW s \in Members, NEW r \in Members, NEW q \in Members,
         Tame(s, r), Tame(r, q)
  PROVE  Tame(s, q)
<1>1. /\ Len(s.refilter) \in Nat /\ Len(s.fresh) \in Nat
      /\ Len(r.refilter) \in Nat /\ Len(r.fresh) \in Nat
      /\ Len(q.refilter) \in Nat /\ Len(q.fresh) \in Nat
  BY Lengths
<1>2. Len(q.fresh) <= Len(s.fresh) /\ Len(q.refilter) <= Len(s.refilter)
  BY <1>1 DEF Tame
<1>3. q.srcPend = "AGetTask" =>
        s.srcPend = "AGetTask" \/ Len(q.refilter) + Len(q.fresh) < TodoHigh
  <2>1. TodoHigh \in Nat
    BY ConfigAssumption
  <2>2. CASE r.srcPend # "AGetTask" \/ s.srcPend = "AGetTask"
    BY <2>2 DEF Tame
  <2>3. CASE Len(r.refilter) + Len(r.fresh) < TodoHigh
    <3>1. Len(q.refilter) <= Len(r.refilter) /\ Len(q.fresh) <= Len(r.fresh)
      BY DEF Tame
    <3>2. Len(q.refilter) + Len(q.fresh) < TodoHigh
      <4> DEFINE a == Len(q.refilter)  b == Len(q.fresh)
                 c == Len(r.refilter)  d == Len(r.fresh)
      <4>1. a \in Nat /\ b \in Nat /\ c \in Nat /\ d \in Nat
        BY <1>1
      <4>2. a <= c /\ b <= d /\ c + d < TodoHigh
        BY <2>3, <3>1
      <4> HIDE DEF a, b, c, d
      <4>3. a + b < TodoHigh
        BY <2>1, <4>1, <4>2
      <4> QED
        BY <4>3 DEF a, b
    <3> QED
      BY <3>2, Zenon
  <2> QED
    BY <2>2, <2>3 DEF Tame
<1> QED
  BY <1>2, <1>3 DEF Tame

\* Failed assertions, the timer, requests to the source and its answers, the
\* way out.
LEMMA UnmovedIs ==
  ASSUME NEW s \in Members, NEW how, NEW cond, NEW t, NEW status
  PROVE  /\ Unmoved(s, s) /\ Unmoved(s, ReSched(s))
         /\ how # "none" => Unmoved(s, Die(s, how))
         /\ Unmoved(s, Check(s, cond))
         /\ Unmoved(s, TSConnect(s)) /\ Unmoved(s, TSDoneTask(s, t))
         /\ Unmoved(s, TSDisconnect(s, cond))
         /\ Unmoved(s, CheckStartExchange(s))
         /\ Unmoved(s, ActuallyQuit(s, status))
         /\ Unmoved(s, Answered(s)) /\ Unmoved(s, SrcConnected(s))
         /\ Unmoved(s, SrcNoTask(s)) /\ Unmoved(s, SrcDisconnected(s))
         /\ Unmoved(s, SrcHandOut(s)) /\ Unmoved(s, SrcGetFails(s, cond))
<1>1. Unmoved(s, s)
  BY DEF Unmoved
<1>2. Unmoved(s, ReSched(s))
  <2>1. ReSched(s).tid0
    BY DEF ReSched, Members
  <2> QED
    BY <2>1 DEF Unmoved, ReSched
<1>3. how # "none" => Unmoved(s, Die(s, how))
  <2>1. how # "none" => Die(s, how).crash # "none"
    BY DEF Die, Members
  <2> QED
    BY <2>1 DEF Unmoved, Die
<1>4. \A p \in Members : \A c : Unmoved(p, Check(p, c))
  <2> SUFFICES ASSUME NEW p \in Members, NEW c PROVE Unmoved(p, Check(p, c))
    OBVIOUS
  <2>1. Die(p, "assert").crash # "none"
    BY DEF Die, Members
  <2> QED
    BY <2>1 DEF Unmoved, Check, Die
<1>5. ASSUME NEW c, NEW d, NEW a \in Actions \ {"AGetTask"}
      PROVE  /\ Unmoved(s, [Check(s, c) EXCEPT !.srcPend = a, !.pending = a])
             /\ Unmoved(s, [Check(s, c) EXCEPT !.srcPend = a, !.pending = a,
                                               !.srcDone = d])
             /\ Unmoved(s, [Check(s, c) EXCEPT !.srcPend = a, !.pending = a,
                                               !.srcQuit = d])
  <2> DEFINE r == Check(s, c)
             x == [r EXCEPT !.srcPend = a, !.pending = a]
             y == [r EXCEPT !.srcPend = a, !.pending = a, !.srcDone = d]
             z == [r EXCEPT !.srcPend = a, !.pending = a, !.srcQuit = d]
  <2>1. Unmoved(s, r) /\ r \in Members
    BY <1>4, DieTyped
  <2> HIDE DEF r
  <2>2. x.srcPend = a /\ y.srcPend = a /\ z.srcPend = a
    BY <2>1 DEF Members
  <2>3. Unmoved(r, x) /\ Unmoved(r, y) /\ Unmoved(r, z)
    BY <2>2 DEF Unmoved
  <2> HIDE DEF x, y, z
  <2>4. Unmoved(s, x) /\ Unmoved(s, y) /\ Unmoved(s, z)
    BY <2>1, <2>3, UnmovedTrans
  <2> QED
    BY <2>4 DEF x, y, z, r
<1>6. Unmoved(s, TSConnect(s))
  BY <1>5 DEF TSConnect, Actions
<1>7. Unmoved(s, TSDoneTask(s, t))
  BY <1>5 DEF TSDoneTask, Actions
<1>8. Unmoved(s, TSDisconnect(s, cond))
  BY <1>5 DEF TSDisconnect, Actions
<1>9. Unmoved(s, CheckStartExchange(s))
  BY <1>1, <1>6 DEF CheckStartExchange
<1>10. Unmoved(s, ActuallyQuit(s, status))
  <2>1. ActuallyQuit(s, status).tid0 /\ ActuallyQuit(s, status).quitStep = 1
    BY DEF ActuallyQuit, ReSched, Members
  <2> QED
    BY <2>1 DEF Unmoved, ActuallyQuit, ReSched
<1>11. \A r : r.srcPend = "ANone" => r.srcPend # "AGetTask"
  OBVIOUS
<1>12. /\ SrcConnected(s).srcPend = "ANone" /\ SrcNoTask(s).srcPend = "ANone"
       /\ SrcDisconnected(s).srcPend = "ANone" /\ SrcHandOut(s).srcPend = "ANone"
       /\ SrcGetFails(s, cond).srcPend = "ANone"
  BY DEF SrcConnected, SrcNoTask, SrcDisconnected, SrcHandOut, SrcGetFails, Members
<1>13. /\ Unmoved(s, Answered(s)) /\ Unmoved(s, SrcConnected(s))
       /\ Unmoved(s, SrcNoTask(s)) /\ Unmoved(s, SrcDisconnected(s))
       /\ Unmoved(s, SrcHandOut(s)) /\ Unmoved(s, SrcGetFails(s, cond))
  BY <1>12 DEF Unmoved, Answered, SrcConnected, SrcNoTask, SrcDisconnected,
               SrcHandOut, SrcGetFails
<1> QED
  BY <1>1, <1>2, <1>3, <1>4, <1>6, <1>7, <1>8, <1>9, <1>10, <1>13

\* A list without one of its members is shorter by one.
LEMMA WithoutLength ==
  ASSUME NEW q \in Seq(Frames), NEW t
  PROVE  Len(Without(q, t)) = IF Count(q, t) > 0 THEN Len(q) - 1 ELSE Len(q)
<1>1. Count(q, t) > 0 <=> \E i \in DOMAIN q : q[i] = t
  BY CountType
<1>2. CASE \E i \in DOMAIN q : q[i] = t
  <2> DEFINE i == CHOOSE j \in DOMAIN q : q[j] = t
             A == SubSeq(q, 1, i - 1)
             B == SubSeq(q, i + 1, Len(q))
  <2>1. Without(q, t) = A \o B
    BY <1>2 DEF Without
  <2>2. i \in 1..Len(q) /\ Len(q) \in Nat
    BY <1>2, LenProperties
  <2> HIDE DEF i
  <2>3. /\ A \in Seq(Frames) /\ Len(A) = i - 1
        /\ B \in Seq(Frames) /\ Len(B) = Len(q) - i
    BY <2>2
  <2> HIDE DEF A, B
  <2>4. Len(A \o B) = Len(A) + Len(B)
    BY <2>3
  <2> QED
    BY <1>1, <1>2, <2>1, <2>2, <2>3, <2>4
<1>3. CASE ~\E i \in DOMAIN q : q[i] = t
  BY <1>1, <1>3 DEF Without
<1> QED
  BY <1>2, <1>3

\* From s to r at most the scheduled start is given up.
LEMMA GivingUpTame ==
  ASSUME NEW s \in Members
  PROVE  Tame(s, KillScheduledForStart(s))
<1> DEFINE r == KillScheduledForStart(s)
           p == s.poll /\ s.load
           k == [s EXCEPT !.sfs = NoTask, !.poll = p]
<1>1. CASE s.sfs = NoTask
  BY <1>1, UnmovedIs, UnmovedTame DEF KillScheduledForStart
<1>2. CASE s.sfs # NoTask
  <2>1. r = k
    BY <1>2 DEF KillScheduledForStart
  <2>2. k.sfs = NoTask /\ k.poll = p
    <3> HIDE DEF p
    <3> QED
      BY DEF Members
  <2>3. Startable(k)
    BY <2>2 DEF Startable
  <2>4. Await(s) => Await(k)
    <3>1. s.load \in BOOLEAN /\ s.poll \in BOOLEAN
      BY Read
    <3> HIDE DEF k
    <3> QED
      BY <2>2, <3>1, Zenon DEF Await
  <2>5. /\ k.job = s.job /\ k.killed = s.killed /\ k.nrun = s.nrun
        /\ k.proc = s.proc /\ k.stage = s.stage /\ k.failed = s.failed
        /\ k.abortOn = s.abortOn /\ k.killTasks = s.killTasks
        /\ k.dsmt = s.dsmt /\ k.sq = s.sq /\ k.crash = s.crash
        /\ k.fresh = s.fresh /\ k.refilter = s.refilter
        /\ k.srcPend = s.srcPend
    OBVIOUS
  <2> HIDE DEF k
  <2>6. Len(k.fresh) <= Len(s.fresh) /\ Len(k.refilter) <= Len(s.refilter)
    BY <2>5, Lengths
  <2>7. Tame(s, k)
    BY <2>3, <2>4, <2>5, <2>6 DEF Tame
  <2> QED
    BY <2>1, <2>7
<1> QED
  BY <1>1, <1>2

\* A task is taken out of todo.
LEMMA DequeueTame ==
  ASSUME NEW s \in Members, NEW t \in Frames PROVE Tame(s, Dequeue(s, t))
<1> DEFINE r == Dequeue(s, t)
<1>1. /\ r.refilter = Without(s.refilter, t) /\ r.fresh = Without(s.fresh, t)
      /\ r.proc = s.proc /\ r.stage = s.stage /\ r.job = s.job
      /\ r.sq = s.sq /\ r.sfs = s.sfs /\ r.dsmt = s.dsmt
  BY DequeueIs
<1>2. /\ r.killed = s.killed /\ r.nrun = s.nrun /\ r.failed = s.failed
      /\ r.abortOn = s.abortOn /\ r.killTasks = s.killTasks
      /\ r.crash = s.crash /\ r.load = s.load /\ r.poll = s.poll
      /\ r.tid0 = s.tid0 /\ r.quitStep = s.quitStep /\ r.srcPend = s.srcPend
  BY DEF Dequeue
<1> HIDE DEF r
<1>3. /\ Len(Without(s.refilter, t)) <= Len(s.refilter)
      /\ Len(Without(s.fresh, t)) <= Len(s.fresh)
  <2>1. s.refilter \in Seq(Frames) /\ s.fresh \in Seq(Frames)
    BY Read
  <2> QED
    BY <2>1, WithoutLength, Lengths
<1>4. (Startable(s) => Startable(r)) /\ (Await(s) => Await(r))
  BY <1>1, <1>2 DEF Startable, RoomFor, RunningJobs, Await
<1> QED
  BY <1>1, <1>2, <1>3, <1>4 DEF Tame, r

\* No more tasks are started: rendered ones are done.
LEMMA DontStartTame ==
  ASSUME NEW s \in Members
  PROVE  /\ Tame(s, DontStartMoreTasks(s))
         /\ DontStartMoreTasks(s).dsmt /\ DontStartMoreTasks(s).sfs = NoTask
<1> DEFINE a == [s EXCEPT !.dsmt = TRUE]
           k == KillScheduledForStart(a)
           r == DontStartMoreTasks(s)
<1>1. a \in Members /\ a.dsmt
  <2>1. a \in Members
    BY Write
  <2> QED
    BY <2>1 DEF Members
<1>2. /\ a.job = s.job /\ a.killed = s.killed /\ a.nrun = s.nrun
      /\ a.proc = s.proc /\ a.stage = s.stage /\ a.failed = s.failed
      /\ a.abortOn = s.abortOn /\ a.killTasks = s.killTasks
      /\ a.sq = s.sq /\ a.crash = s.crash
      /\ a.fresh = s.fresh /\ a.refilter = s.refilter
      /\ a.srcPend = s.srcPend /\ a.sfs = s.sfs /\ a.load = s.load
      /\ a.poll = s.poll /\ a.tid0 = s.tid0 /\ a.quitStep = s.quitStep
  OBVIOUS
<1> HIDE DEF a
<1>3. Tame(s, a)
  <2>1. (Startable(s) => Startable(a)) /\ (Await(s) => Await(a))
    BY <1>2 DEF Startable, RoomFor, RunningJobs, Await
  <2>2. Len(a.fresh) <= Len(s.fresh) /\ Len(a.refilter) <= Len(s.refilter)
    BY <1>2, Lengths
  <2> QED
    BY <1>1, <1>2, <2>1, <2>2 DEF Tame
<1>4. k \in Members /\ Tame(a, k) /\ k.sfs = NoTask
  BY <1>1, GivingUpTame, KillScheduledIs
<1>5. r \in Members /\ r.refilter = <<>> /\ r.dsmt /\ r.sfs = NoTask
  BY DontStartIs
<1>6. /\ r.job = k.job /\ r.killed = k.killed /\ r.nrun = k.nrun
      /\ r.proc = k.proc /\ r.stage = k.stage /\ r.failed = k.failed
      /\ r.abortOn = k.abortOn /\ r.killTasks = k.killTasks
      /\ r.dsmt = k.dsmt /\ r.sq = k.sq /\ r.crash = k.crash
      /\ r.fresh = k.fresh /\ r.srcPend = k.srcPend /\ r.sfs = k.sfs
      /\ r.load = k.load /\ r.poll = k.poll /\ r.tid0 = k.tid0
      /\ r.quitStep = k.quitStep
  BY DEF DontStartMoreTasks, a
<1> HIDE DEF k, r
<1>7. Tame(k, r)
  <2>1. (Startable(k) => Startable(r)) /\ (Await(k) => Await(r))
    BY <1>6 DEF Startable, RoomFor, RunningJobs, Await
  <2>2. Len(r.refilter) <= Len(k.refilter) /\ Len(r.fresh) <= Len(k.fresh)
    <3>1. Len(r.refilter) = 0
      BY <1>5
    <3> QED
      BY <1>4, <1>6, <3>1, Lengths
  <2> QED
    BY <1>6, <2>1, <2>2 DEF Tame
<1>8. Tame(s, k)
  BY <1>1, <1>3, <1>4, TameTrans
<1> QED
  BY <1>4, <1>5, <1>7, <1>8, TameTrans DEF r

----------------------------------------------------------------------------
(* The jobs stay in order *)

\* From s to r the jobs stay in order, and none is started.
Orderly(s, r) ==
  /\ InOrder(s) /\ Await(s) => InOrder(r) /\ Await(r)
  /\ Jobs(r) \subseteq Jobs(s)

\* There are finitely many tasks, so there is a number of jobs.
LEMMA SizeType ==
  ASSUME NEW S, S \subseteq Frames
  PROVE  IsFiniteSet(S) /\ Cardinality(S) \in Nat
<1>1. IsFiniteSet(Frames)
  BY ConfigAssumption, FS_Interval DEF Frames
<1> QED
  BY <1>1, FS_Subset, FS_CardinalityType

\* The jobs are the render jobs and the filter jobs, so proc is as large as
\* running_jobs[] says.
LEMMA ProcSize ==
  ASSUME NEW s \in Members, Counted(s)
  PROVE  /\ Cardinality(s.proc) \in Nat
         /\ RunningJobs(s) = Cardinality(s.proc)
<1> DEFINE A == Ones(s, "Render")
           B == Ones(s, "Filter")
<1>1. A \cup B = s.proc /\ A \cap B = {}
  BY DEF Ones, KindOf, Counted
<1>2. /\ s.nrun["Render"] = Cardinality(A) /\ s.nrun["Filter"] = Cardinality(B)
  BY DEF Counted, Kinds
<1>3. A \subseteq Frames /\ B \subseteq Frames /\ s.proc \subseteq Frames
  BY Read DEF Ones, Jobs
<1> HIDE DEF A, B
<1>4. /\ IsFiniteSet(A) /\ IsFiniteSet(B)
      /\ Cardinality(A) \in Nat /\ Cardinality(B) \in Nat
      /\ Cardinality(s.proc) \in Nat
  BY <1>3, SizeType
<1>5. Cardinality(A \cup B) = Cardinality(A) + Cardinality(B) - Cardinality(A \cap B)
  BY <1>4, FS_Union
<1>6. Cardinality(A \cap B) = 0
  BY <1>1, FS_EmptySet
<1>7. Cardinality(s.proc) = Cardinality(A) + Cardinality(B)
  <2>1. Cardinality(s.proc) = Cardinality(A \cup B)
    BY <1>1, Zenon
  <2> DEFINE a == Cardinality(A)  b == Cardinality(B)
             n == Cardinality(A \cup B)  m == Cardinality(A \cap B)
  <2>2. a \in Nat /\ b \in Nat /\ n = a + b - m /\ m = 0
    BY <1>4, <1>5, <1>6
  <2> HIDE DEF a, b, n, m
  <2>3. n = a + b
    BY <2>2
  <2> QED
    BY <2>1, <2>3, Zenon DEF a, b, n
<1> QED
  BY <1>2, <1>4, <1>7 DEF RunningJobs

\* What is tame leaves everything but the count of failures in order.
LEMMA TameSteady ==
  ASSUME NEW s \in Members, NEW r \in Members, Tame(s, r), Steady(s)
  PROVE  Steady(r)
<1>1. Jobs(r) = Jobs(s)
  BY DEF Tame, Jobs
<1>2. Startable(r)
  BY DEF Tame, Steady
<1>3. Counted(r)
  <2>1. \A k : Ones(r, k) = Ones(s, k)
    BY <1>1 DEF Tame, Ones, KindOf
  <2>2. Counted(s) /\ r.nrun = s.nrun /\ r.proc = s.proc
    BY DEF Tame, Steady
  <2> QED
    BY <1>1, <2>1, <2>2 DEF Counted
<1>4. Limited(r)
  BY DEF Tame, Steady, Limited, RunningJobs
<1>5. Roomy(r)
  <2> DEFINE a == Len(s.refilter)  b == Len(s.fresh)  n == Cardinality(s.proc)
             c == Len(r.refilter)  d == Len(r.fresh)
  <2>1. /\ a \in Nat /\ b \in Nat /\ c \in Nat /\ d \in Nat /\ n \in Nat
        /\ TodoHigh \in Nat /\ NJobs \in Nat \ {0}
    BY Lengths, ProcSize, ConfigAssumption DEF Steady
  <2>2. c <= a /\ d <= b /\ Cardinality(r.proc) = n
    BY DEF Tame
  <2>3. n <= NJobs
    BY ProcSize DEF Steady, Limited
  <2>4. b <= TodoHigh /\ a + b + n <= TodoHigh + NJobs
    BY DEF Steady, Roomy, Load
  <2>5. r.srcPend = "AGetTask" =>
          (b < TodoHigh /\ a + b + n < TodoHigh + NJobs) \/ c + d < TodoHigh
    <3>1. r.srcPend = "AGetTask" => s.srcPend = "AGetTask" \/ c + d < TodoHigh
      BY DEF Tame
    <3>2. s.srcPend = "AGetTask" => b < TodoHigh /\ a + b + n < TodoHigh + NJobs
      BY DEF Steady, Roomy, Load
    <3> HIDE DEF a, b, c, d, n
    <3> QED
      BY <3>1, <3>2
  <2> HIDE DEF a, b, c, d, n
  <2>6. /\ d <= TodoHigh /\ c + d + n <= TodoHigh + NJobs
        /\ (b < TodoHigh /\ a + b + n < TodoHigh + NJobs) \/ c + d < TodoHigh =>
             d < TodoHigh /\ c + d + n < TodoHigh + NJobs
    BY <2>1, <2>2, <2>3, <2>4
  <2> QED
    BY <2>2, <2>5, <2>6 DEF Roomy, Load, c, d
<1>6. Killing(r)
  BY <1>1 DEF Tame, Steady, Killing
<1> QED
  BY <1>2, <1>3, <1>4, <1>5, <1>6 DEF Steady

\* What is tame is orderly.
LEMMA TameOrder ==
  ASSUME NEW s \in Members, NEW r \in Members, Tame(s, r)
  PROVE  Orderly(s, r)
<1>1. Jobs(r) = Jobs(s)
  BY DEF Tame, Jobs
<1> SUFFICES ASSUME InOrder(s), Await(s) PROVE InOrder(r) /\ Await(r)
  BY <1>1 DEF Orderly
<1>2. Steady(r)
  BY TameSteady DEF InOrder
<1>3. Enough(r)
  <2>1. /\ Enough(s) /\ r.failed = s.failed /\ r.proc = s.proc
        /\ (s.dsmt => r.dsmt) /\ (s.sq = 2 => r.sq = 2)
    BY DEF Tame, InOrder
  <2> QED
    BY <2>1 DEF Enough
<1>4. Await(r)
  BY DEF Tame
<1> QED
  BY <1>2, <1>3, <1>4 DEF InOrder

\* Orderly composes.
LEMMA OrderlyTrans ==
  ASSUME NEW s, NEW r, NEW q, Orderly(s, r), Orderly(r, q) PROVE Orderly(s, q)
  BY DEF Orderly

----------------------------------------------------------------------------
(* More member functions that leave the jobs alone *)

\* What is scheduled for start may be started, and is awaited.
LEMMA CheckStartTasksTame ==
  ASSUME NEW s \in Members, NEW lv PROVE Tame(s, CheckStartTasks(s, lv))
<1> DEFINE t == GetTaskToStart(s)
           a == [s EXCEPT !.sfs = t]
           d == DoCheckLoad(a, lv)
           r == DoScheduleForStart(s, t, lv)
<1>1. CASE s.dsmt \/ s.stopped \/ s.sfs # NoTask \/ t = NoTask
  <2>1. CheckStartTasks(s, lv) = s
    BY <1>1 DEF CheckStartTasks
  <2> QED
    BY <2>1, UnmovedIs, UnmovedTame
<1>2. CASE ~(s.dsmt \/ s.stopped \/ s.sfs # NoTask \/ t = NoTask)
  <2>1. CheckStartTasks(s, lv) = r
    BY <1>2 DEF CheckStartTasks
  <2>2. t \in Frames /\ RoomFor(s, t)
    <3> DEFINE S == {u \in Frames : MayStart(s, u)}
    <3>1. Todo(s) \in Seq(Frames) /\ t = FirstIn(Todo(s), S)
          /\ ~(RunningJobs(s) >= NJobs)
      BY <1>2, TodoTyped DEF GetTaskToStart
    <3> HIDE DEF t
    <3>2. t \in S
      BY <1>2, <3>1, FirstInFinds
    <3>3. RunningJobs(s) < NJobs
      BY <3>1, Read, ConfigAssumption DEF RunningJobs, Kinds
    <3> QED
      BY <3>2, <3>3 DEF MayStart, RoomFor
  <2> HIDE DEF t
  <2>3. a \in Members /\ a.sfs = t
    <3>1. a \in Members
      BY <2>2, Write
    <3> QED
      BY <3>1 DEF Members
  <2>4. /\ a.job = s.job /\ a.killed = s.killed /\ a.nrun = s.nrun
        /\ a.proc = s.proc /\ a.stage = s.stage /\ a.failed = s.failed
        /\ a.abortOn = s.abortOn /\ a.killTasks = s.killTasks
        /\ a.dsmt = s.dsmt /\ a.sq = s.sq /\ a.crash = s.crash
        /\ a.fresh = s.fresh /\ a.refilter = s.refilter
        /\ a.srcPend = s.srcPend /\ a.poll = s.poll
    OBVIOUS
  <2> HIDE DEF a
  <2>5. /\ d.job = a.job /\ d.killed = a.killed /\ d.nrun = a.nrun
        /\ d.proc = a.proc /\ d.stage = a.stage /\ d.failed = a.failed
        /\ d.abortOn = a.abortOn /\ d.killTasks = a.killTasks
        /\ d.dsmt = a.dsmt /\ d.sq = a.sq /\ d.crash = a.crash
        /\ d.fresh = a.fresh /\ d.refilter = a.refilter
        /\ d.srcPend = a.srcPend /\ d.poll = a.poll /\ d.sfs = a.sfs
    BY DEF DoCheckLoad
  <2>6. d \in Members
    BY <2>3, DoCheckLoadTyped
  <2>7. r = IF d.load THEN ReSched(d) ELSE [d EXCEPT !.poll = TRUE]
    BY DEF DoScheduleForStart, a
  <2> HIDE DEF d, r
  <2>8. /\ r.job = d.job /\ r.killed = d.killed /\ r.nrun = d.nrun
        /\ r.proc = d.proc /\ r.stage = d.stage /\ r.failed = d.failed
        /\ r.abortOn = d.abortOn /\ r.killTasks = d.killTasks
        /\ r.dsmt = d.dsmt /\ r.sq = d.sq /\ r.crash = d.crash
        /\ r.fresh = d.fresh /\ r.refilter = d.refilter
        /\ r.srcPend = d.srcPend /\ r.sfs = d.sfs /\ r.load = d.load
    BY <2>7 DEF ReSched
  <2>9. IF d.load THEN r.tid0 /\ r.poll = d.poll ELSE r.poll
    <3>1. ReSched(d).tid0 /\ ReSched(d).poll = d.poll
          /\ [d EXCEPT !.poll = TRUE].poll
      BY <2>6 DEF ReSched, Members
    <3> QED
      BY <2>7, <3>1
  <2>10. Startable(r)
    <3>1. r.nrun = s.nrun /\ r.stage = s.stage /\ r.sfs = t
      BY <2>3, <2>4, <2>5, <2>8
    <3> QED
      BY <2>2, <3>1 DEF Startable, RoomFor, RunningJobs
  <2>11. Await(s) => Await(r)
    <3>1. s.sfs = NoTask /\ r.sfs = t /\ t # NoTask /\ d.poll = s.poll
      BY <1>2, <2>3, <2>4, <2>5, <2>8
    <3> QED
      BY <2>8, <2>9, <3>1 DEF Await
  <2>12. /\ r.job = s.job /\ r.killed = s.killed /\ r.nrun = s.nrun
         /\ r.proc = s.proc /\ r.stage = s.stage /\ r.failed = s.failed
         /\ r.abortOn = s.abortOn /\ r.killTasks = s.killTasks
         /\ r.dsmt = s.dsmt /\ r.sq = s.sq /\ r.crash = s.crash
         /\ r.fresh = s.fresh /\ r.refilter = s.refilter
         /\ r.srcPend = s.srcPend
    BY <2>4, <2>5, <2>8
  <2>13. Len(r.fresh) <= Len(s.fresh) /\ Len(r.refilter) <= Len(s.refilter)
    BY <2>12, Lengths
  <2>14. Tame(s, r)
    BY <2>10, <2>11, <2>12, <2>13 DEF Tame
  <2> QED
    BY <2>1, <2>14
<1> QED
  BY <1>1, <1>2

\* A finished task is given back.
LEMMA GiveBackDoneTame ==
  ASSUME NEW s \in Members, s.done # <<>> PROVE Tame(s, GiveBackDone(s))
<1> DEFINE a == [s EXCEPT !.done = Tail(s.done)]
           d == [a EXCEPT !.tsgod = "ADoneTask"]
<1>1. Tail(s.done) \in Seq(Frames)
  BY Read, CountTail
<1>2. a \in Members
  BY <1>1, Write
<1>3. d \in Members
  <2> HIDE DEF a
  <2> QED
    BY <1>2, Write DEF Actions
<1>4. Unmoved(s, d)
  BY DEF Unmoved
<1>5. GiveBackDone(s) = TSDoneTask(d, Head(s.done))
  BY DEF GiveBackDone
<1> HIDE DEF d
<1>6. Unmoved(d, TSDoneTask(d, Head(s.done)))
  BY <1>3, UnmovedIs
<1> QED
  BY <1>4, <1>5, <1>6, UnmovedTrans, UnmovedTame

\* A task is given back unprocessed.
LEMMA GiveBackSpecialTame ==
  ASSUME NEW s \in Members, CanDoneTask(s), s.done = <<>>
  PROVE  Tame(s, GiveBackSpecial(s))
<1> DEFINE t == SpecialDone(s)
           b == [s EXCEPT !.tdaf = FALSE]
           a == [b EXCEPT !.tsgod = "ADoneTask"]
           k == IF s.sfs = t THEN KillScheduledForStart(a) ELSE a
           d == Dequeue(k, t)
           r == TSDoneTask(d, t)
<1>1. t \in Frames
  BY SpecialDoneTyped
<1>2. b \in Members
  BY Write
<1>3. a \in Members
  <2> HIDE DEF b
  <2> QED
    BY <1>2, Write DEF Actions
<1>4. Unmoved(s, a)
  BY DEF Unmoved
<1>5. GiveBackSpecial(s) = r
  BY DEF GiveBackSpecial
<1> HIDE DEF a, t
<1>6. k \in Members /\ Tame(a, k)
  BY <1>3, GivingUpTame, KillScheduledTyped, UnmovedIs, UnmovedTame
<1> HIDE DEF k
<1>7. d \in Members /\ Tame(k, d)
  BY <1>1, <1>6, DequeueTame, DequeueTyped
<1> HIDE DEF d
<1>8. r \in Members /\ Tame(d, r)
  BY <1>1, <1>7, DoneTaskTyped, UnmovedIs, UnmovedTame
<1> HIDE DEF r
<1>9. Tame(s, a)
  BY <1>4, UnmovedTame
<1>10. Tame(s, k)
  BY <1>3, <1>6, <1>9, TameTrans
<1>11. Tame(s, d)
  BY <1>6, <1>7, <1>10, TameTrans
<1> QED
  BY <1>5, <1>7, <1>8, <1>11, TameTrans

\* A task is only asked for when todo has room.
LEMMA GetTaskTame ==
  ASSUME NEW s \in Members, Len(Todo(s)) < TodoHigh
  PROVE  Tame(s, TSGetTask([s EXCEPT !.tsgod = "AGetTask"]))
<1> DEFINE g == [s EXCEPT !.tsgod = "AGetTask"]
           c == Check(g, g.srcPend = "ANone" /\ g.srcConn)
           n == IF c.nth = 0 THEN 1 ELSE 2
           r == [c EXCEPT !.srcPend = "AGetTask", !.pending = "AGetTask", !.nth = n]
<1>1. g \in Members /\ Unmoved(s, g)
  <2>1. g \in Members
    BY Write DEF Actions
  <2> QED
    BY <2>1 DEF Unmoved
<1>2. TSGetTask(g) = r
  BY DEF TSGetTask
<1> HIDE DEF g
<1>3. c \in Members /\ Unmoved(g, c)
  BY <1>1, DieTyped, UnmovedIs
<1> HIDE DEF c
<1>4. Unmoved(s, c)
  BY <1>1, <1>3, UnmovedTrans
<1>5. /\ r.job = c.job /\ r.killed = c.killed /\ r.nrun = c.nrun
      /\ r.proc = c.proc /\ r.stage = c.stage /\ r.failed = c.failed
      /\ r.abortOn = c.abortOn /\ r.killTasks = c.killTasks
      /\ r.dsmt = c.dsmt /\ r.sq = c.sq /\ r.crash = c.crash
      /\ r.fresh = c.fresh /\ r.refilter = c.refilter
      /\ r.sfs = c.sfs /\ r.load = c.load /\ r.poll = c.poll
      /\ r.tid0 = c.tid0 /\ r.quitStep = c.quitStep
  OBVIOUS
<1> HIDE DEF r
<1>6. Tame(s, c) /\ r.refilter = s.refilter /\ r.fresh = s.fresh
  BY <1>4, <1>5, UnmovedTame DEF Unmoved
<1>7. Len(r.refilter) + Len(r.fresh) < TodoHigh
  BY <1>6, Lengths
<1>8. (Startable(c) => Startable(r)) /\ (Await(c) => Await(r))
  BY <1>5 DEF Startable, RoomFor, RunningJobs, Await
<1>9. Tame(s, r)
  BY <1>5, <1>6, <1>7, <1>8, Zenon DEF Tame
<1> QED
  BY <1>2, <1>9 DEF g

\* Asking for a task, giving one back, disconnecting.
LEMMA GetOrDoneTame ==
  ASSUME NEW s \in Members PROVE Tame(s, GetOrDoneTask(s))
<1> DEFINE g  == TSGetTask([s EXCEPT !.tsgod = "AGetTask"])
           n  == [s EXCEPT !.tsgod = "ANone"]
           l  == TSDisconnect(n, FALSE)
           ok == s.connected /\ s.pending = "ANone"
           A  == {g, l, GiveBackDone(s), GiveBackSpecial(s)}
<1>1. CanGetTask(s, CanDoneTask(s)) => Tame(s, g) /\ g \in Members
  <2>1. [s EXCEPT !.tsgod = "AGetTask"] \in Members
    BY Write DEF Actions
  <2>2. g \in Members
    BY <2>1, GetTaskTyped
  <2> QED
    BY <2>2, GetTaskTame DEF CanGetTask
<1>2. Tame(s, l) /\ l \in Members
  <2>1. n \in Members /\ Unmoved(s, n)
    <3>1. n \in Members
      BY Write DEF Actions
    <3> QED
      BY <3>1 DEF Unmoved
  <2> HIDE DEF n
  <2>2. l \in Members /\ Unmoved(n, l)
    BY <2>1, DisconnectTyped, UnmovedIs
  <2> QED
    BY <2>1, <2>2, UnmovedTrans, UnmovedTame
<1>3. s.done # <<>> => Tame(s, GiveBackDone(s)) /\ GiveBackDone(s) \in Members
  BY GiveBackDoneTame, GiveBackDoneTyped
<1>4. CanDoneTask(s) /\ s.done = <<>> =>
        Tame(s, GiveBackSpecial(s)) /\ GiveBackSpecial(s) \in Members
  BY GiveBackSpecialTame, GiveBackSpecialTyped
<1>5. \A r \in Members : Tame(s, r) => Tame(s, Check(r, ok))
  <2> SUFFICES ASSUME NEW r \in Members, Tame(s, r) PROVE Tame(s, Check(r, ok))
    OBVIOUS
  <2>1. Check(r, ok) \in Members /\ Tame(r, Check(r, ok))
    BY DieTyped, UnmovedIs, UnmovedTame
  <2> QED
    BY <2>1, TameTrans
<1>6. \E r \in Members : Tame(s, r) /\ GetOrDoneTask(s) = Check(r, ok)
  <2> HIDE DEF ok
  <2>1. GetOrDoneTask(s) = Check(
          IF CanDoneTask(s) /\ (s.tsgod # "ADoneTask" \/ ~CanGetTask(s, CanDoneTask(s)))
          THEN IF s.done # <<>> THEN GiveBackDone(s) ELSE GiveBackSpecial(s)
          ELSE IF CanGetTask(s, CanDoneTask(s)) THEN g ELSE l, ok)
    BY DEF GetOrDoneTask, ok
  <2> HIDE DEF g, l
  <2> QED
    BY <1>1, <1>2, <1>3, <1>4, <2>1, Zenon
<1> QED
  BY <1>5, <1>6

\* Quit is scheduled.
LEMMA QuitTame ==
  ASSUME NEW s \in Members, NEW v \in 0..2, s.sq = 2 => v = 2
  PROVE  LET r == [s EXCEPT !.sq = v] IN r \in Members /\ Tame(s, r)
<1> DEFINE r == [s EXCEPT !.sq = v]
<1>1. r \in Members
  BY Write
<1>2. r.sq = v
  BY <1>1 DEF Members
<1>3. /\ r.job = s.job /\ r.killed = s.killed /\ r.nrun = s.nrun
      /\ r.proc = s.proc /\ r.stage = s.stage /\ r.failed = s.failed
      /\ r.abortOn = s.abortOn /\ r.killTasks = s.killTasks
      /\ r.dsmt = s.dsmt /\ r.crash = s.crash
      /\ r.fresh = s.fresh /\ r.refilter = s.refilter
      /\ r.sfs = s.sfs /\ r.load = s.load /\ r.poll = s.poll
      /\ r.tid0 = s.tid0 /\ r.quitStep = s.quitStep /\ r.srcPend = s.srcPend
  OBVIOUS
<1> HIDE DEF r
<1>4. (Startable(s) => Startable(r)) /\ (Await(s) => Await(r))
  BY <1>3 DEF Startable, RoomFor, RunningJobs, Await
<1>5. Len(r.fresh) <= Len(s.fresh) /\ Len(r.refilter) <= Len(s.refilter)
  BY <1>3, Lengths
<1>6. Tame(s, r)
  BY <1>2, <1>3, <1>4, <1>5 DEF Tame
<1> QED
  BY <1>1, <1>6 DEF r

\* No new tasks are started.
LEMMA ScheduleQuitTame ==
  ASSUME NEW s \in Members PROVE Tame(s, ScheduleQuit(s))
<1> DEFINE v == IF s.sq = 0 THEN 1 ELSE s.sq
           r == [s EXCEPT !.sq = v]
<1>1. v \in 0..2 /\ (s.sq = 2 => v = 2)
  BY Read
<1>2. ScheduleQuit(s) \in {r, KillScheduledForStart(r)}
  BY DEF ScheduleQuit
<1> HIDE DEF v
<1>3. r \in Members /\ Tame(s, r)
  BY <1>1, QuitTame
<1> HIDE DEF r
<1>4. Tame(s, KillScheduledForStart(r))
  BY <1>3, GivingUpTame, KillScheduledTyped, TameTrans
<1> QED
  BY <1>2, <1>3, <1>4

\* Reading the load only changes what starting depends on.
LEMMA LoadRead ==
  ASSUME NEW s \in Members, NEW lv
  PROVE  LET d == DoCheckLoad(s, lv) IN
      /\ d.job = s.job /\ d.killed = s.killed /\ d.nrun = s.nrun
      /\ d.proc = s.proc /\ d.stage = s.stage /\ d.failed = s.failed
      /\ d.abortOn = s.abortOn /\ d.killTasks = s.killTasks
      /\ d.dsmt = s.dsmt /\ d.sq = s.sq /\ d.crash = s.crash
      /\ d.fresh = s.fresh /\ d.refilter = s.refilter
      /\ d.srcPend = s.srcPend /\ d.poll = s.poll /\ d.sfs = s.sfs
  BY DEF DoCheckLoad

\* Waiting for the load to go down.
LEMMA LoadPollTame ==
  ASSUME NEW s \in Members, NEW lv, s.poll PROVE Tame(s, LoadPoll(s, lv))
<1> DEFINE r == LoadPoll(s, lv)
           d == DoCheckLoad(s, lv)
           e == [d EXCEPT !.poll = FALSE]
           f == [s EXCEPT !.poll = FALSE]
           g == ReSched(e)
           h == Check(g, ~s.load)
<1>1. /\ d.job = s.job /\ d.killed = s.killed /\ d.nrun = s.nrun
      /\ d.proc = s.proc /\ d.stage = s.stage /\ d.failed = s.failed
      /\ d.abortOn = s.abortOn /\ d.killTasks = s.killTasks
      /\ d.dsmt = s.dsmt /\ d.sq = s.sq /\ d.crash = s.crash
      /\ d.fresh = s.fresh /\ d.refilter = s.refilter
      /\ d.srcPend = s.srcPend /\ d.poll = s.poll /\ d.sfs = s.sfs
  BY LoadRead
<1>2. d \in Members /\ e \in Members /\ f \in Members
  <2>1. d \in Members
    BY DoCheckLoadTyped
  <2> HIDE DEF d
  <2> QED
    BY <2>1, Write
<1>3. r = IF s.sfs = NoTask THEN f ELSE IF d.load THEN h ELSE d
  BY DEF LoadPoll
<1>4. /\ f.job = s.job /\ f.killed = s.killed /\ f.nrun = s.nrun
      /\ f.proc = s.proc /\ f.stage = s.stage /\ f.failed = s.failed
      /\ f.abortOn = s.abortOn /\ f.killTasks = s.killTasks
      /\ f.dsmt = s.dsmt /\ f.sq = s.sq /\ f.crash = s.crash
      /\ f.fresh = s.fresh /\ f.refilter = s.refilter
      /\ f.srcPend = s.srcPend /\ f.sfs = s.sfs
  OBVIOUS
<1> HIDE DEF d
<1>5. /\ e.job = d.job /\ e.killed = d.killed /\ e.nrun = d.nrun
      /\ e.proc = d.proc /\ e.stage = d.stage /\ e.failed = d.failed
      /\ e.abortOn = d.abortOn /\ e.killTasks = d.killTasks
      /\ e.dsmt = d.dsmt /\ e.sq = d.sq /\ e.crash = d.crash
      /\ e.fresh = d.fresh /\ e.refilter = d.refilter
      /\ e.srcPend = d.srcPend /\ e.sfs = d.sfs /\ e.load = d.load
  OBVIOUS
<1>6. e.poll = FALSE /\ f.poll = FALSE
  BY <1>2 DEF Members
<1> HIDE DEF e, f
<1>7. /\ g.job = e.job /\ g.killed = e.killed /\ g.nrun = e.nrun
      /\ g.proc = e.proc /\ g.stage = e.stage /\ g.failed = e.failed
      /\ g.abortOn = e.abortOn /\ g.killTasks = e.killTasks
      /\ g.dsmt = e.dsmt /\ g.sq = e.sq /\ g.crash = e.crash
      /\ g.fresh = e.fresh /\ g.refilter = e.refilter
      /\ g.srcPend = e.srcPend /\ g.sfs = e.sfs /\ g.load = e.load
      /\ g.poll = e.poll
  BY DEF ReSched
<1>8. g.tid0 /\ g \in Members
  BY <1>2, ReSchedTyped, Written DEF ReSched
<1> HIDE DEF g
<1>9. Tame(s, f) \/ s.sfs # NoTask
  <2>1. Startable(s) => Startable(f)
    BY <1>4 DEF Startable, RoomFor, RunningJobs
  <2>2. s.sfs = NoTask => Await(f)
    BY <1>4, <1>6 DEF Await
  <2>3. Len(f.fresh) <= Len(s.fresh) /\ Len(f.refilter) <= Len(s.refilter)
    BY <1>4, Lengths
  <2> QED
    BY <1>4, <2>1, <2>2, <2>3 DEF Tame
<1>10. Tame(s, g) \/ ~d.load
  <2>1. Startable(s) => Startable(g)
    BY <1>1, <1>5, <1>7 DEF Startable, RoomFor, RunningJobs
  <2>2. d.load => Await(g)
    BY <1>5, <1>6, <1>7, <1>8 DEF Await
  <2>3. /\ g.job = s.job /\ g.killed = s.killed /\ g.nrun = s.nrun
        /\ g.proc = s.proc /\ g.stage = s.stage /\ g.failed = s.failed
        /\ g.abortOn = s.abortOn /\ g.killTasks = s.killTasks
        /\ g.dsmt = s.dsmt /\ g.sq = s.sq /\ g.crash = s.crash
        /\ g.fresh = s.fresh /\ g.refilter = s.refilter
        /\ g.srcPend = s.srcPend
    BY <1>1, <1>5, <1>7
  <2>4. Len(g.fresh) <= Len(s.fresh) /\ Len(g.refilter) <= Len(s.refilter)
    BY <2>3, Lengths
  <2> QED
    BY <2>1, <2>2, <2>3, <2>4 DEF Tame
<1>11. Tame(s, h) \/ ~d.load
  <2>1. h \in Members /\ Tame(g, h)
    BY <1>8, DieTyped, UnmovedIs, UnmovedTame
  <2> QED
    BY <1>8, <1>10, <2>1, TameTrans
<1>12. Tame(s, d) \/ d.load \/ s.sfs = NoTask
  <2>1. Startable(s) => Startable(d)
    BY <1>1 DEF Startable, RoomFor, RunningJobs
  <2>2. ~d.load /\ s.sfs # NoTask => Await(d)
    BY <1>1 DEF Await
  <2>3. Len(d.fresh) <= Len(s.fresh) /\ Len(d.refilter) <= Len(s.refilter)
    BY <1>1, Lengths
  <2> QED
    BY <1>1, <2>1, <2>2, <2>3 DEF Tame
<1> HIDE DEF h
<1> QED
  BY <1>3, <1>9, <1>11, <1>12

\* A driver is deleted; if nothing is left to do, quit is scheduled.
LEMMA TidyUpTame ==
  ASSUME NEW s \in Members, NEW lv PROVE Tame(s, TidyUp(s, lv))
<1> DEFINE a == [s EXCEPT !.dead = {}]
           c == CheckStartTasks(a, lv)
           v == Largest(c.sq, c.sqa)
           q == [c EXCEPT !.sq = v]
<1>1. a \in Members /\ Unmoved(s, a)
  <2>1. a \in Members
    BY Write
  <2> QED
    BY <2>1 DEF Unmoved
<1>2. TidyUp(s, lv) \in {a, c, ReSched(q)}
  BY DEF TidyUp, CheckStartNewJobs
<1> HIDE DEF a
<1>3. c \in Members /\ Tame(a, c)
  BY <1>1, CheckStartTasksTyped, CheckStartTasksTame
<1> HIDE DEF c
<1>4. v \in 0..2 /\ (c.sq = 2 => v = 2)
  BY <1>3, Read DEF Largest
<1> HIDE DEF v
<1>5. q \in Members /\ Tame(c, q)
  BY <1>3, <1>4, QuitTame
<1> HIDE DEF q
<1>6. ReSched(q) \in Members /\ Tame(q, ReSched(q))
  BY <1>5, ReSchedTyped, UnmovedIs, UnmovedTame
<1>7. Tame(s, a)
  BY <1>1, UnmovedTame
<1>8. Tame(s, c)
  BY <1>1, <1>3, <1>7, TameTrans
<1>9. Tame(s, q)
  BY <1>3, <1>5, <1>8, TameTrans
<1>10. Tame(s, ReSched(q))
  BY <1>5, <1>6, <1>9, TameTrans
<1> QED
  BY <1>2, <1>7, <1>8, <1>10

\* Going on with quitting.
LEMMA GoOnTame ==
  ASSUME NEW s \in Members PROVE Tame(s, GoOnQuitting(s))
<1> DEFINE i == [s EXCEPT !.toldIf = TRUE]
           n == [s EXCEPT !.toldTs = TRUE]
           out == ActuallyQuit(s, Largest(s.sq, s.sqa) - 1)
           bye == TSDisconnect(n, TRUE)
<1>1. GoOnQuitting(s) \in {s, ReSched(i), out, bye, CheckStartExchange(s),
                           GetOrDoneTask(s)}
  BY DEF GoOnQuitting
<1>2. i \in Members /\ n \in Members
  BY Write
<1>3. Unmoved(s, i) /\ Unmoved(s, n)
  BY DEF Unmoved
<1> HIDE DEF i, n
<1>4. Unmoved(i, ReSched(i)) /\ Unmoved(n, bye)
  BY <1>2, UnmovedIs
<1>5. Unmoved(s, ReSched(i)) /\ Unmoved(s, bye)
  BY <1>3, <1>4, UnmovedTrans
<1>6. Unmoved(s, s) /\ Unmoved(s, out) /\ Unmoved(s, CheckStartExchange(s))
  BY UnmovedIs
<1> HIDE DEF out, bye
<1> QED
  BY <1>1, <1>5, <1>6, UnmovedTame, GetOrDoneTame

\* The answers of the source that bring no task.
LEMMA AnswersTame ==
  ASSUME NEW s \in Members, NEW quit
  PROVE  /\ Tame(s, TSConnected(s)) /\ Tame(s, TSNoMoreTasks(s))
         /\ Tame(s, TSGetFailed(s)) /\ Tame(s, TSTookDone(s))
         /\ Tame(s, TSDisconnected(s, quit))
<1>0. Answered(s) \in Members /\ Unmoved(s, Answered(s))
  BY AnsweredTyped, UnmovedIs
<1>1. Tame(s, TSConnected(s))
  <2> DEFINE a == [Answered(s) EXCEPT !.connected = TRUE]
             b == [a EXCEPT !.tsgod = "ANone"]
             c == [b EXCEPT !.nth = 0]
  <2>1. a \in Members
    BY AnsweredTyped, Write
  <2>2. b \in Members
    <3> HIDE DEF a
    <3> QED
      BY <2>1, Write DEF Actions
  <2>3. c \in Members
    <3> HIDE DEF b
    <3> QED
      BY <2>2, WriteNumber
  <2>4. Unmoved(s, c)
    BY DEF Answered, Unmoved
  <2>5. TSConnected(s) = GetOrDoneTask(c)
    BY DEF TSConnected
  <2> HIDE DEF c
  <2>6. GetOrDoneTask(c) \in Members /\ Tame(c, GetOrDoneTask(c))
    BY <2>3, GetOrDoneTame, GetOrDoneTaskTyped
  <2> QED
    BY <2>3, <2>4, <2>5, <2>6, UnmovedTame, TameTrans
<1>2. Tame(s, TSTookDone(s))
  <2>1. GetOrDoneTask(Answered(s)) \in Members
        /\ Tame(Answered(s), GetOrDoneTask(Answered(s)))
    BY <1>0, GetOrDoneTame, GetOrDoneTaskTyped
  <2> QED
    BY <1>0, <2>1, UnmovedTame, TameTrans DEF TSTookDone
<1>3. ASSUME NEW v \in 0..2
      PROVE  Tame(s, ReSched([Answered(s) EXCEPT !.sqa = v]))
  <2> DEFINE a == [Answered(s) EXCEPT !.sqa = v]
  <2>1. a \in Members
    BY <1>0, Write
  <2>2. Unmoved(s, a)
    BY DEF Answered, Unmoved
  <2> HIDE DEF a
  <2>3. Unmoved(a, ReSched(a))
    BY <2>1, UnmovedIs
  <2>4. Tame(s, ReSched(a))
    BY <2>2, <2>3, UnmovedTrans, UnmovedTame
  <2> QED
    BY <2>4 DEF a
<1>4. Tame(s, TSNoMoreTasks(s))
  <2> DEFINE v == IF Answered(s).sqa = 0 THEN 1 ELSE Answered(s).sqa
  <2>1. v \in 0..2
    BY <1>0, Read
  <2>2. TSNoMoreTasks(s) = ReSched([Answered(s) EXCEPT !.sqa = v])
    BY DEF TSNoMoreTasks
  <2> HIDE DEF v
  <2> QED
    BY <1>3, <2>1, <2>2
<1>5. Tame(s, TSGetFailed(s))
  <2> DEFINE a == [Answered(s) EXCEPT !.tdaf = TRUE]
  <2>1. a \in Members
    BY AnsweredTyped, Write
  <2>2. Unmoved(s, a)
    BY DEF Answered, Unmoved
  <2>3. TSGetFailed(s) = IF s.nth = 1 THEN ReSched([Answered(s) EXCEPT !.sqa = 2])
                         ELSE GetOrDoneTask(a)
    BY DEF TSGetFailed
  <2> HIDE DEF a
  <2>4. GetOrDoneTask(a) \in Members /\ Tame(a, GetOrDoneTask(a))
    BY <2>1, GetOrDoneTame, GetOrDoneTaskTyped
  <2>5. Tame(s, GetOrDoneTask(a))
    BY <2>1, <2>2, <2>4, UnmovedTame, TameTrans
  <2> QED
    BY <1>3, <2>3, <2>5
<1>6. Tame(s, TSDisconnected(s, quit))
  <2> DEFINE a == [Answered(s) EXCEPT !.connected = FALSE]
             r == Check(a, s.toldTs <=> quit)
  <2>1. a \in Members
    BY AnsweredTyped, Write
  <2>2. Unmoved(s, a)
    BY DEF Answered, Unmoved
  <2>3. TSDisconnected(s, quit) \in {r, ReSched(r)}
    BY DEF TSDisconnected
  <2> HIDE DEF a
  <2>4. r \in Members /\ Unmoved(a, r)
    BY <2>1, DieTyped, UnmovedIs
  <2> HIDE DEF r
  <2>5. Unmoved(r, ReSched(r)) /\ Unmoved(s, r)
    BY <2>2, <2>4, UnmovedIs, UnmovedTrans
  <2> QED
    BY <2>3, <2>5, UnmovedTrans, UnmovedTame
<1> QED
  BY <1>1, <1>2, <1>4, <1>5, <1>6

\* The countdown to the end.
LEMMA CountdownTame ==
  ASSUME NEW s \in Members, s.quitStep > 0, s.quitStep < 5
  PROVE  Tame(s, QuitCountdown(s))
<1> DEFINE r == IF s.quitStep = 2 THEN DestructCleanup(s) ELSE s
           n == r.quitStep + 1
           q == [r EXCEPT !.quitStep = n]
<1>1. r \in Members /\ Unmoved(s, r) /\ r.quitStep = s.quitStep
  <2>1. Unmoved(s, r)
    BY UnmovedIs DEF DestructCleanup
  <2>2. r \in Members
    BY DieTyped DEF DestructCleanup
  <2>3. r.quitStep = s.quitStep
    BY DEF DestructCleanup, Check, Die
  <2> QED
    BY <2>1, <2>2, <2>3
<1>2. q = QuitCountdown(s)
  BY DEF QuitCountdown
<1> HIDE DEF r
<1>3. n # 0 /\ q.quitStep = n
  <2>1. s.quitStep \in 0..5
    BY Read
  <2>2. n # 0
    BY <1>1, <2>1
  <2> HIDE DEF n
  <2> QED
    BY <1>1, <2>2, Written
<1> HIDE DEF n
<1>4. Unmoved(r, q)
  BY <1>3 DEF Unmoved
<1> QED
  BY <1>1, <1>2, <1>4, UnmovedTrans, UnmovedTame

----------------------------------------------------------------------------
(* Signals *)

\* The order to kill: nothing is started any more.
LEMMA ScheduleKillOrderly ==
  ASSUME NEW s \in Members PROVE Orderly(s, ScheduleKill(s))
<1> DEFINE d == DontStartMoreTasks(s)
           k == [d EXCEPT !.sq = 2, !.killTasks = TRUE, !.abortOn = TRUE]
<1>1. d \in Members /\ Orderly(s, d) /\ d.dsmt /\ d.sfs = NoTask
  BY DontStartTyped, DontStartTame, TameOrder
<1>2. k = ScheduleKill(s)
  BY DEF ScheduleKill
<1> HIDE DEF d
<1>3. k \in Members
  BY <1>2, ScheduleKillTyped
<1>4. k.sq = 2 /\ k.killTasks = TRUE
  BY <1>1 DEF Members
<1>5. /\ k.job = d.job /\ k.killed = d.killed /\ k.nrun = d.nrun
      /\ k.proc = d.proc /\ k.stage = d.stage /\ k.failed = d.failed
      /\ k.dsmt = d.dsmt /\ k.crash = d.crash
      /\ k.fresh = d.fresh /\ k.refilter = d.refilter
      /\ k.sfs = d.sfs /\ k.load = d.load /\ k.poll = d.poll
      /\ k.tid0 = d.tid0 /\ k.quitStep = d.quitStep /\ k.srcPend = d.srcPend
  OBVIOUS
<1> HIDE DEF k
<1>6. Jobs(k) = Jobs(d) /\ \A i : Ones(k, i) = Ones(d, i)
  BY <1>5 DEF Jobs, Ones, KindOf
<1>7. Await(d) => Await(k)
  BY <1>5 DEF Await
<1>8. InOrder(d) => InOrder(k)
  <2> SUFFICES ASSUME InOrder(d) PROVE InOrder(k)
    OBVIOUS
  <2>1. Startable(k) /\ Killing(k)
    BY <1>1, <1>4, <1>5 DEF Startable, Killing
  <2>2. Counted(k) /\ Limited(k)
    BY <1>5, <1>6 DEF InOrder, Steady, Counted, Limited, RunningJobs
  <2>3. Roomy(k)
    BY <1>5 DEF InOrder, Steady, Roomy, Load
  <2>4. Enough(k)
    BY <1>1, <1>4, <1>5 DEF InOrder, Enough
  <2> QED
    BY <2>1, <2>2, <2>3, <2>4 DEF InOrder, Steady
<1>9. Orderly(d, k)
  BY <1>6, <1>7, <1>8 DEF Orderly
<1> QED
  BY <1>1, <1>2, <1>9, OrderlyTrans

\* No signal disturbs the order.
LEMMA SignalsOrderly ==
  ASSUME NEW s \in Members, NEW lv
  PROVE  \A r \in {SigInt(s), SigTerm(s), SigTstp(s), SigCont(s, lv)} : Orderly(s, r)
<1>1. \A r \in Members : Unmoved(s, r) => Orderly(s, r)
  BY UnmovedTame, TameOrder
<1>2. \A how \in {"abort", "nullif"} : Orderly(s, Die(s, how))
  BY <1>1, DieTyped, UnmovedIs
<1>3. Orderly(s, s)
  BY DEF Orderly
<1>4. \A r \in Members : Orderly(s, r) => Orderly(s, ReSched(r))
  <2> SUFFICES ASSUME NEW r \in Members, Orderly(s, r)
               PROVE  Orderly(s, ReSched(r))
    OBVIOUS
  <2>1. ReSched(r) \in Members /\ Unmoved(r, ReSched(r))
    BY ReSchedTyped, UnmovedIs
  <2>2. Orderly(r, ReSched(r))
    BY <2>1, UnmovedTame, TameOrder
  <2> QED
    BY <2>2, OrderlyTrans
<1>5. \A r \in Members, v \in 0..2 :
        Orderly(s, r) => Orderly(s, [r EXCEPT !.caught = v])
  <2> SUFFICES ASSUME NEW r \in Members, NEW v \in 0..2, Orderly(s, r)
               PROVE  Orderly(s, [r EXCEPT !.caught = v])
    OBVIOUS
  <2>1. [r EXCEPT !.caught = v] \in Members /\ Unmoved(r, [r EXCEPT !.caught = v])
    <3>1. [r EXCEPT !.caught = v] \in Members
      BY Write
    <3> QED
      BY <3>1 DEF Unmoved
  <2>2. Orderly(r, [r EXCEPT !.caught = v])
    BY <2>1, UnmovedTame, TameOrder
  <2> QED
    BY <2>2, OrderlyTrans
<1>6. Orderly(s, SigInt(s))
  <2> DEFINE a == ScheduleQuit(s)
             b == [a EXCEPT !.caught = 1]
             k == ScheduleKill(s)
             l == [k EXCEPT !.caught = 2]
  <2>1. a \in Members /\ k \in Members /\ Orderly(s, a) /\ Orderly(s, k)
    BY ScheduleQuitTyped, ScheduleKillTyped, ScheduleQuitTame, TameOrder,
       ScheduleKillOrderly
  <2>2. SigInt(s) \in {Die(s, "abort"), Die(s, "nullif"), s, ReSched(b), ReSched(l)}
    BY DEF SigInt, OnSignal
  <2> HIDE DEF a, k
  <2>3. b \in Members /\ l \in Members
    BY <2>1, WriteNumber
  <2>4. Orderly(s, b) /\ Orderly(s, l)
    <3>1. 1 \in 0..2 /\ 2 \in 0..2
      OBVIOUS
    <3> QED
      BY <1>5, <2>1, <3>1, Zenon
  <2> HIDE DEF b, l
  <2> QED
    BY <1>2, <1>3, <1>4, <2>2, <2>3, <2>4
<1>7. Orderly(s, SigTerm(s))
  <2> DEFINE a == ScheduleQuit(s)
             b == ScheduleKill(a)
  <2>1. a \in Members /\ Orderly(s, a)
    BY ScheduleQuitTyped, ScheduleQuitTame, TameOrder
  <2>2. SigTerm(s) \in {Die(s, "abort"), Die(s, "nullif"), s, ReSched(b)}
    BY DEF SigTerm, OnSignal
  <2> HIDE DEF a
  <2>3. b \in Members /\ Orderly(a, b)
    BY <2>1, ScheduleKillTyped, ScheduleKillOrderly
  <2>4. Orderly(s, b)
    BY <2>1, <2>3, OrderlyTrans
  <2> HIDE DEF b
  <2> QED
    BY <1>2, <1>3, <1>4, <2>2, <2>3, <2>4
<1>8. ASSUME NEW v \in BOOLEAN
      PROVE  [s EXCEPT !.stopped = v] \in Members /\ Unmoved(s, [s EXCEPT !.stopped = v])
  <2>1. [s EXCEPT !.stopped = v] \in Members
    BY Write
  <2> QED
    BY <2>1 DEF Unmoved
<1>9. Orderly(s, SigTstp(s))
  BY <1>1, <1>2, <1>3, <1>8 DEF SigTstp, OnSignal
<1>10. Orderly(s, SigCont(s, lv))
  <2> DEFINE r == [s EXCEPT !.stopped = FALSE]
             e == CheckStartExchange(r)
             c == CheckStartTasks(e, lv)
  <2>1. r \in Members /\ Unmoved(s, r)
    BY <1>8
  <2>2. SigCont(s, lv) \in {Die(s, "nullif"), s, ReSched(c)}
    BY DEF SigCont, OnSignal
  <2> HIDE DEF r
  <2>3. e \in Members /\ Unmoved(r, e)
    BY <2>1, CheckStartExchangeTyped, UnmovedIs
  <2>4. Orderly(s, e)
    BY <1>1, <2>1, <2>3, UnmovedTrans
  <2> HIDE DEF e
  <2>5. c \in Members /\ Orderly(e, c)
    BY <2>3, CheckStartTasksTame, CheckStartTasksTyped, TameOrder
  <2>6. Orderly(s, c)
    BY <2>4, <2>5, OrderlyTrans
  <2> HIDE DEF c
  <2> QED
    BY <1>2, <1>3, <1>4, <2>2, <2>5, <2>6
<1> QED
  BY <1>6, <1>7, <1>9, <1>10

----------------------------------------------------------------------------
(* The end of a job *)

\* A job is gone: it is uncounted, and proc lists it no more; its task may
\* have come back to the front of todo.
LEMMA JobLeaves ==
  ASSUME NEW s \in Members, NEW r \in Members, NEW t \in Frames,
         t \in Jobs(s), t # s.sfs,
         Steady(s),
         r.job = [s.job EXCEPT ![t] = "none"],
         r.killed = [s.killed EXCEPT ![t] = "NotKilled"],
         r.nrun = [s.nrun EXCEPT ![KindOf(s, t)] = @ - 1],
         \A u \in Frames \ {t} : r.stage[u] = s.stage[u],
         r.proc = s.proc \ {t}, r.fresh = s.fresh,
         Len(r.refilter) <= Len(s.refilter) + 1,
         r.abortOn = s.abortOn, r.killTasks = s.killTasks, r.dsmt = s.dsmt,
         r.crash = s.crash, r.sfs = s.sfs, r.srcPend = s.srcPend
  PROVE  /\ Steady(r)
         /\ Cardinality(r.proc) = Cardinality(s.proc) - 1
         /\ Jobs(r) \subseteq Jobs(s)
<1> DEFINE K == KindOf(s, t)
<1>0. Startable(s) /\ Counted(s) /\ Limited(s) /\ Roomy(s) /\ Killing(s)
  BY DEF Steady
<1>1. Jobs(r) = Jobs(s) \ {t}
  <2>1. s.job \in [Frames -> {"none", "launched", "running"}]
    BY Read
  <2> QED
    BY <2>1 DEF Jobs
<1>2. /\ s.nrun \in [Kinds -> Int] /\ K \in Kinds
      /\ s.nrun["Render"] \in Int /\ s.nrun["Filter"] \in Int
  BY Read, KindTyped DEF Kinds
<1>3. \A k \in Kinds : r.nrun[k] = IF k = K THEN s.nrun[k] - 1 ELSE s.nrun[k]
  <2> HIDE DEF K
  <2> QED
    BY <1>2 DEF K
<1>4. ASSUME NEW k \in Kinds
      PROVE  Ones(r, k) = IF k = K THEN Ones(s, k) \ {t} ELSE Ones(s, k)
  <2>1. \A u \in Frames \ {t} : KindOf(r, u) = KindOf(s, u)
    BY DEF KindOf
  <2>2. Jobs(s) \subseteq Frames
    BY DEF Jobs
  <2>3. Ones(r, k) = Ones(s, k) \ {t}
    BY <1>1, <2>1, <2>2 DEF Ones
  <2>4. k # K => t \notin Ones(s, k)
    BY DEF Ones
  <2> QED
    BY <2>3, <2>4
<1>5. t \in Ones(s, K)
  BY DEF Ones
<1>6. Counted(r)
  <2>1. Jobs(r) = r.proc
    BY <1>0, <1>1 DEF Counted
  <2>2. ASSUME NEW k \in Kinds PROVE r.nrun[k] = Cardinality(Ones(r, k))
    <3>1. IsFiniteSet(Ones(s, k)) /\ Cardinality(Ones(s, k)) \in Nat
      BY SizeType DEF Ones, Jobs
    <3>2. Cardinality(Ones(s, k) \ {t}) =
            IF t \in Ones(s, k) THEN Cardinality(Ones(s, k)) - 1
            ELSE Cardinality(Ones(s, k))
      BY <3>1, FS_RemoveElement
    <3>3. s.nrun[k] = Cardinality(Ones(s, k))
      BY <1>0 DEF Counted
    <3> HIDE DEF K
    <3> QED
      BY <1>3, <1>4, <1>5, <3>2, <3>3
  <2> QED
    BY <1>0, <2>1, <2>2 DEF Counted
<1>7. /\ r.nrun["Render"] <= s.nrun["Render"] /\ r.nrun["Filter"] <= s.nrun["Filter"]
      /\ r.nrun["Render"] \in Int /\ r.nrun["Filter"] \in Int
  <2> HIDE DEF K
  <2>1. "Render" \in Kinds /\ "Filter" \in Kinds
    BY DEF Kinds
  <2> QED
    BY <1>2, <1>3, <2>1
<1>8. MaxRender \in Nat /\ MaxFilter \in Nat /\ NJobs \in Nat /\ TodoHigh \in Nat
  BY ConfigAssumption
<1>9. Limited(r)
  BY <1>0, <1>2, <1>7, <1>8 DEF Limited, RunningJobs
<1>10. Startable(r)
  <2> SUFFICES ASSUME r.sfs # NoTask PROVE RoomFor(r, r.sfs)
    BY <1>0 DEF Startable
  <2>1. s.sfs \in Frames \ {t} /\ RoomFor(s, s.sfs)
    BY <1>0, Read DEF Startable
  <2>2. r.stage[r.sfs] = s.stage[s.sfs]
    BY <2>1
  <2> QED
    BY <1>2, <1>7, <1>8, <2>1, <2>2 DEF RoomFor, RunningJobs
<1>11. Cardinality(r.proc) = Cardinality(s.proc) - 1 /\ Cardinality(s.proc) \in Nat
  <2>1. t \in s.proc
    BY <1>0 DEF Counted
  <2>2. IsFiniteSet(s.proc) /\ Cardinality(s.proc) \in Nat
    BY Read, SizeType
  <2>3. Cardinality(s.proc \ {t}) = Cardinality(s.proc) - 1
    BY <2>1, <2>2, FS_RemoveElement
  <2> QED
    BY <2>2, <2>3
<1>12. Roomy(r)
  <2> DEFINE a == Len(s.refilter)  b == Len(s.fresh)  n == Cardinality(s.proc)
             c == Len(r.refilter)  m == Cardinality(r.proc)
  <2>1. a \in Nat /\ b \in Nat /\ c \in Nat /\ n \in Nat /\ m = n - 1 /\ c <= a + 1
    BY <1>11, Lengths
  <2>2. /\ b <= TodoHigh /\ a + b + n <= TodoHigh + NJobs
        /\ s.srcPend = "AGetTask" => b < TodoHigh /\ a + b + n < TodoHigh + NJobs
    BY <1>0 DEF Roomy, Load
  <2>3. Len(r.fresh) = b /\ r.srcPend = s.srcPend
    OBVIOUS
  <2> HIDE DEF a, b, c, n, m
  <2>4. /\ c + b + m <= TodoHigh + NJobs
        /\ a + b + n < TodoHigh + NJobs => c + b + m < TodoHigh + NJobs
    BY <1>8, <2>1, <2>2
  <2> QED
    BY <1>0, <2>2, <2>3, <2>4 DEF Roomy, Load, c, m
<1>13. Killing(r)
  <2>1. \A u \in Jobs(r) : r.killed[u] = s.killed[u] /\ u \in Jobs(s)
    <3>1. s.killed \in [Frames -> Reasons] /\ Jobs(s) \subseteq Frames
      BY Read DEF Jobs
    <3> QED
      BY <1>1, <3>1
  <2> QED
    BY <1>0, <2>1 DEF Killing
<1> QED
  BY <1>1, <1>6, <1>9, <1>10, <1>11, <1>12, <1>13 DEF Steady

\* What Steady and Await depend on.
LEMMA SteadyDepends ==
  ASSUME NEW s, NEW r,
         r.job = s.job, r.killed = s.killed, r.nrun = s.nrun,
         r.proc = s.proc, r.stage = s.stage,
         r.abortOn = s.abortOn, r.killTasks = s.killTasks, r.dsmt = s.dsmt,
         r.crash = s.crash, r.fresh = s.fresh, r.refilter = s.refilter,
         r.sfs = s.sfs, r.srcPend = s.srcPend
  PROVE  /\ Steady(s) => Steady(r)
         /\ Jobs(r) = Jobs(s)
<1>1. Jobs(r) = Jobs(s) /\ \A k : Ones(r, k) = Ones(s, k)
  BY DEF Jobs, Ones, KindOf
<1>2. Startable(s) => Startable(r)
  BY DEF Startable, RoomFor, RunningJobs
<1>3. Counted(s) => Counted(r)
  BY <1>1 DEF Counted
<1>4. Limited(s) => Limited(r)
  BY DEF Limited, RunningJobs
<1>5. Roomy(s) => Roomy(r)
  BY DEF Roomy, Load
<1>6. Killing(s) => Killing(r)
  BY <1>1 DEF Killing
<1> QED
  BY <1>1, <1>2, <1>3, <1>4, <1>5, <1>6 DEF Steady

\* One more failure: if it is one too many, nothing is started any more.
LEMMA CountFailureOrder ==
  ASSUME NEW s \in Members, NEW t, Steady(s), Await(s),
         MaxFailed > 0 =>
           /\ s.failed >= MaxFailed => s.dsmt /\ s.sq = 2
           /\ s.failed + Cardinality(s.proc) + 1 < MaxFailed + NJobs
  PROVE  LET r == CountFailure(s, t) IN
         /\ r \in Members /\ InOrder(r) /\ Await(r) /\ Jobs(r) = Jobs(s)
<1> DEFINE n == s.failed + 1
           a == [s EXCEPT !.failed = n]
           d == DontStartMoreTasks(a)
           q == [d EXCEPT !.sq = 2]
           z == ReSched(q)
<1>1. /\ s.failed \in Nat /\ Cardinality(s.proc) \in Nat
      /\ MaxFailed \in Nat /\ NJobs \in Nat \ {0}
  BY Read, ProcSize, ConfigAssumption DEF Steady
<1>2. CASE ~CountsAsFailed(s, t)
  <2>1. CountFailure(s, t) = s
    BY <1>2 DEF CountFailure
  <2>2. Enough(s)
    BY <1>1 DEF Enough
  <2> QED
    BY <2>1, <2>2 DEF InOrder
<1>3. a \in Members /\ a.failed = n
  <2>1. n \in Nat
    BY <1>1
  <2> HIDE DEF n
  <2>2. a \in Members
    BY <2>1, Write
  <2>3. a.failed = n
    BY Written
  <2> QED
    BY <2>2, <2>3
<1>4. Steady(a) /\ Await(a) /\ Jobs(a) = Jobs(s) /\ a.proc = s.proc
  <2>1. /\ a.job = s.job /\ a.killed = s.killed /\ a.nrun = s.nrun
        /\ a.proc = s.proc /\ a.stage = s.stage
        /\ a.abortOn = s.abortOn /\ a.killTasks = s.killTasks
        /\ a.dsmt = s.dsmt /\ a.crash = s.crash
        /\ a.fresh = s.fresh /\ a.refilter = s.refilter
        /\ a.srcPend = s.srcPend /\ a.sfs = s.sfs /\ a.load = s.load
        /\ a.poll = s.poll /\ a.tid0 = s.tid0 /\ a.quitStep = s.quitStep
    OBVIOUS
  <2> HIDE DEF a
  <2>2. Steady(a) /\ Jobs(a) = Jobs(s)
    BY <2>1, SteadyDepends
  <2>3. Await(a)
    BY <2>1 DEF Await
  <2> QED
    BY <2>1, <2>2, <2>3
<1>5. CASE CountsAsFailed(s, t) /\ ~(MaxFailed > 0 /\ n >= MaxFailed)
  <2>1. CountFailure(s, t) = a
    <3>1. a.failed = n
      BY <1>3
    <3> HIDE DEF n
    <3> QED
      BY <1>5, <3>1 DEF CountFailure, n
  <2>2. Enough(a)
    <3>1. MaxFailed > 0 => n < MaxFailed /\ n + Cardinality(s.proc) < MaxFailed + NJobs
      BY <1>1, <1>5
    <3> HIDE DEF a, n
    <3>2. MaxFailed > 0 => ~(a.failed >= MaxFailed)
                           /\ a.failed + Cardinality(a.proc) < MaxFailed + NJobs
      <4>1. n \in Nat
        BY <1>1 DEF n
      <4> QED
        BY <1>1, <1>3, <1>4, <3>1, <4>1
    <3> QED
      BY <3>2 DEF Enough
  <2> HIDE DEF a
  <2> QED
    BY <1>3, <1>4, <2>1, <2>2 DEF InOrder
<1>6. CASE CountsAsFailed(s, t) /\ MaxFailed > 0 /\ n >= MaxFailed
  <2>1. CountFailure(s, t) = z
    <3>1. a.failed = n
      BY <1>3
    <3> HIDE DEF n
    <3> QED
      BY <1>6, <3>1 DEF CountFailure, n
  <2> HIDE DEF a
  <2>2. d \in Members /\ Tame(a, d) /\ d.dsmt
    BY <1>3, DontStartTame, DontStartTyped
  <2> HIDE DEF d
  <2>3. q \in Members /\ Tame(d, q) /\ q.sq = 2
    <3>1. 2 \in 0..2
      OBVIOUS
    <3>2. q \in Members /\ Tame(d, q)
      BY <2>2, <3>1, QuitTame
    <3>3. q.sq = 2
      BY <2>2, Written
    <3> QED
      BY <3>2, <3>3
  <2> HIDE DEF q
  <2>4. z \in Members /\ Unmoved(q, z)
    BY <2>3, ReSchedTyped, UnmovedIs
  <2> HIDE DEF z
  <2>5. Tame(a, z) /\ z.sq = 2 /\ z.dsmt
    <3>1. Tame(q, z)
      BY <2>3, <2>4, UnmovedTame
    <3>2. Tame(a, q) /\ q.dsmt
      <4>1. Tame(a, q)
        BY <1>3, <2>2, <2>3, TameTrans
      <4>2. q.dsmt
        BY <2>2, <2>3 DEF Tame
      <4> QED
        BY <4>1, <4>2
    <3>3. Tame(a, z)
      BY <1>3, <2>3, <2>4, <3>1, <3>2, TameTrans
    <3> QED
      BY <2>3, <2>4, <3>2, <3>3 DEF Unmoved
  <2>6. Steady(z)
    BY <1>3, <1>4, <2>4, <2>5, TameSteady
  <2>7. Await(z) /\ Jobs(z) = Jobs(s) /\ z.failed = n /\ z.proc = s.proc
    BY <1>3, <1>4, <2>5 DEF Tame, Jobs
  <2>8. Enough(z)
    <3>1. MaxFailed > 0 => n + Cardinality(s.proc) < MaxFailed + NJobs
      BY <1>1
    <3> HIDE DEF n
    <3> QED
      BY <2>5, <2>7, <3>1 DEF Enough
  <2> QED
    BY <2>1, <2>4, <2>6, <2>7, <2>8 DEF InOrder
<1> QED
  BY <1>2, <1>5, <1>6

\* A failure that has been noted, and what is started instead.
LEMMA FailureNoted ==
  ASSUME NEW s \in Members, NEW t, NEW lv, Steady(s), Await(s),
         MaxFailed > 0 =>
           /\ s.failed >= MaxFailed => s.dsmt /\ s.sq = 2
           /\ s.failed + Cardinality(s.proc) + 1 < MaxFailed + NJobs
  PROVE  LET r == CheckStartExchange(CheckStartTasks(CountFailure(s, t), lv))
             q == [r EXCEPT !.tdaf = @ \/ r.connected]
         IN  q \in Members /\ InOrder(q) /\ Await(q) /\ Jobs(q) \subseteq Jobs(s)
<1> DEFINE c == CountFailure(s, t)
           b == CheckStartTasks(c, lv)
           r == CheckStartExchange(b)
           v == r.tdaf \/ r.connected
           q == [r EXCEPT !.tdaf = v]
<1>1. c \in Members /\ InOrder(c) /\ Await(c) /\ Jobs(c) = Jobs(s)
  BY CountFailureOrder
<1> HIDE DEF c
<1>2. b \in Members /\ Tame(c, b)
  BY <1>1, CheckStartTasksTyped, CheckStartTasksTame
<1> HIDE DEF b
<1>3. r \in Members /\ Unmoved(b, r)
  BY <1>2, CheckStartExchangeTyped, UnmovedIs
<1> HIDE DEF r
<1>4. q \in Members
  <2>1. v \in BOOLEAN
    BY <1>3, Read
  <2> HIDE DEF v
  <2> QED
    BY <1>3, <2>1, Write
<1>5. Unmoved(r, q)
  BY DEF Unmoved
<1>6. Orderly(c, b) /\ Orderly(b, q)
  BY <1>1, <1>2, <1>3, <1>4, <1>5, UnmovedTrans, UnmovedTame, TameOrder
<1> HIDE DEF q
<1>7. InOrder(q) /\ Await(q) /\ Jobs(q) \subseteq Jobs(s)
  BY <1>1, <1>6, OrderlyTrans DEF Orderly
<1> QED
  BY <1>4, <1>7 DEF q, v, r, b, c

\* From s to r the job of task t is gone, and nothing else the order depends on
\* has changed; proc still lists the task.
LeftBy(s, t, r) ==
  /\ r.job = [s.job EXCEPT ![t] = "none"]
  /\ r.killed = [s.killed EXCEPT ![t] = "NotKilled"]
  /\ r.nrun = [s.nrun EXCEPT ![KindOf(s, t)] = @ - 1]
  /\ \A u \in Frames \ {t} : r.stage[u] = s.stage[u]
  /\ r.proc = s.proc /\ r.failed = s.failed
  /\ r.abortOn = s.abortOn /\ r.killTasks = s.killTasks
  /\ r.dsmt = s.dsmt /\ r.sq = s.sq /\ r.crash = s.crash
  /\ r.fresh = s.fresh /\ r.refilter = s.refilter
  /\ r.sfs = s.sfs /\ r.load = s.load /\ r.poll = s.poll
  /\ r.tid0 = s.tid0 /\ r.quitStep = s.quitStep /\ r.srcPend = s.srcPend

\* Both outcomes of a job.
LEMMA JobsLeave ==
  ASSUME NEW s \in Members, NEW t \in Frames, NEW resume
  PROVE  LeftBy(s, t, JobSucceeded(s, t)) /\ LeftBy(s, t, JobFailed(s, t, resume))
<1> DEFINE g == JobGone(s, t)
           tes == [Unset EXCEPT !.end = "Success"]
           nxt == IF t \in FilterFrames THEN "ToBeFiltered" ELSE "TaskDone"
           a   == [g EXCEPT !.rtes[t] = tes, !.stage[t] = nxt]
           b   == [g EXCEPT !.ftes[t] = tes, !.stage[t] = "TaskDone"]
           tef == [end |-> "Failed", jk |-> s.killed[t], resume |-> resume]
           f   == StoreFailure(g, t, tef)
<1>1. /\ g.job = [s.job EXCEPT ![t] = "none"]
      /\ g.killed = [s.killed EXCEPT ![t] = "NotKilled"]
      /\ g.nrun = [s.nrun EXCEPT ![KindOf(s, t)] = @ - 1]
  BY DEF JobGone, Members
<1>2. /\ g.stage = s.stage /\ g.proc = s.proc /\ g.failed = s.failed
      /\ g.abortOn = s.abortOn /\ g.killTasks = s.killTasks
      /\ g.dsmt = s.dsmt /\ g.sq = s.sq /\ g.crash = s.crash
      /\ g.fresh = s.fresh /\ g.refilter = s.refilter
      /\ g.sfs = s.sfs /\ g.load = s.load /\ g.poll = s.poll
      /\ g.tid0 = s.tid0 /\ g.quitStep = s.quitStep /\ g.srcPend = s.srcPend
  BY DEF JobGone
<1>3. g \in Members
  BY JobGoneTyped
<1>4. JobSucceeded(s, t) = IF s.stage[t] = "ToBeRendered" THEN a ELSE b
  BY DEF JobSucceeded
<1>5. JobFailed(s, t, resume) = f
  BY DEF JobFailed
<1> HIDE DEF g, tes, nxt, tef
<1> DEFINE Rest(x) ==
             /\ x.job = g.job /\ x.killed = g.killed /\ x.nrun = g.nrun
             /\ x.proc = g.proc /\ x.failed = g.failed
             /\ x.abortOn = g.abortOn /\ x.killTasks = g.killTasks
             /\ x.dsmt = g.dsmt /\ x.sq = g.sq /\ x.crash = g.crash
             /\ x.fresh = g.fresh /\ x.refilter = g.refilter
             /\ x.sfs = g.sfs /\ x.load = g.load /\ x.poll = g.poll
             /\ x.tid0 = g.tid0 /\ x.quitStep = g.quitStep /\ x.srcPend = g.srcPend
<1>6. Rest(a) /\ Rest(b) /\ Rest(f)
  <2>1. Rest(a)
    OBVIOUS
  <2>2. Rest(b)
    OBVIOUS
  <2>3. Rest(f)
    BY DEF StoreFailure
  <2> HIDE DEF Rest
  <2> QED
    BY <2>1, <2>2, <2>3
<1>7. ASSUME NEW u \in Frames \ {t}
      PROVE  a.stage[u] = g.stage[u] /\ b.stage[u] = g.stage[u] /\ f.stage[u] = g.stage[u]
  <2>1. a.stage = [g.stage EXCEPT ![t] = nxt]
    BY <1>3 DEF Members
  <2>2. b.stage = [g.stage EXCEPT ![t] = "TaskDone"]
    BY <1>3 DEF Members
  <2>3. f.stage = g.stage
    BY DEF StoreFailure
  <2>4. g.stage \in [Frames -> Stages]
    BY <1>3, Read
  <2> HIDE DEF a, b, f
  <2> QED
    BY <2>1, <2>2, <2>3, <2>4
<1> HIDE DEF a, b, f
<1>8. \A x \in {a, b, f} : LeftBy(s, t, x)
  <2> SUFFICES ASSUME NEW x \in {a, b, f} PROVE LeftBy(s, t, x)
    OBVIOUS
  <2>1. /\ x.job = g.job /\ x.killed = g.killed /\ x.nrun = g.nrun
        /\ x.proc = g.proc /\ x.failed = g.failed
        /\ x.abortOn = g.abortOn /\ x.killTasks = g.killTasks
        /\ x.dsmt = g.dsmt /\ x.sq = g.sq /\ x.crash = g.crash
        /\ x.fresh = g.fresh /\ x.refilter = g.refilter
        /\ x.sfs = g.sfs /\ x.load = g.load /\ x.poll = g.poll
        /\ x.tid0 = g.tid0 /\ x.quitStep = g.quitStep /\ x.srcPend = g.srcPend
    BY <1>6
  <2>2. \A u \in Frames \ {t} : x.stage[u] = s.stage[u]
    BY <1>2, <1>7
  <2> QED
    BY <1>1, <1>2, <2>1, <2>2 DEF LeftBy
<1> QED
  BY <1>4, <1>5, <1>8

\* What the end of a job leaves in order, and how many jobs are left.
LEMMA LeftOrder ==
  ASSUME NEW s \in Members, NEW t \in Frames, t \in Jobs(s), t # s.sfs,
         InOrder(s), Await(s), NEW j, LeftBy(s, t, j), NEW r \in Members,
         r.job = j.job, r.killed = j.killed, r.nrun = j.nrun,
         r.stage = j.stage, r.proc = j.proc \ {t}, r.fresh = j.fresh,
         Len(r.refilter) <= Len(j.refilter) + 1,
         r.abortOn = j.abortOn, r.killTasks = j.killTasks, r.dsmt = j.dsmt,
         r.crash = j.crash, r.sfs = j.sfs, r.srcPend = j.srcPend,
         r.load = j.load, r.poll = j.poll, r.tid0 = j.tid0,
         r.quitStep = j.quitStep
  PROVE  /\ Steady(r) /\ Await(r) /\ Jobs(r) \subseteq Jobs(s)
         /\ Cardinality(r.proc) = Cardinality(s.proc) - 1
         /\ Cardinality(s.proc) \in Nat
<1>1. /\ r.job = [s.job EXCEPT ![t] = "none"]
      /\ r.killed = [s.killed EXCEPT ![t] = "NotKilled"]
      /\ r.nrun = [s.nrun EXCEPT ![KindOf(s, t)] = @ - 1]
  BY DEF LeftBy
<1>2. /\ \A u \in Frames \ {t} : r.stage[u] = s.stage[u]
      /\ r.proc = s.proc \ {t} /\ r.fresh = s.fresh
      /\ Len(r.refilter) <= Len(s.refilter) + 1
      /\ r.abortOn = s.abortOn /\ r.killTasks = s.killTasks /\ r.dsmt = s.dsmt
      /\ r.crash = s.crash /\ r.sfs = s.sfs /\ r.srcPend = s.srcPend
      /\ r.load = s.load /\ r.poll = s.poll /\ r.tid0 = s.tid0
      /\ r.quitStep = s.quitStep
  BY DEF LeftBy
<1>3. Await(r)
  BY <1>2 DEF Await
<1>4. Steady(s) /\ Counted(s)
  BY DEF InOrder, Steady
<1>5. /\ Steady(r) /\ Jobs(r) \subseteq Jobs(s)
      /\ Cardinality(r.proc) = Cardinality(s.proc) - 1
  BY <1>1, <1>2, <1>4, JobLeaves
<1> QED
  BY <1>3, <1>4, <1>5, ProcSize

\* A job succeeded.
LEMMA SuccessOrder ==
  ASSUME NEW s \in Members, NEW t \in Frames, t \in Jobs(s), t # s.sfs,
         InOrder(s), Await(s), NEW j \in Members, LeftBy(s, t, j),
         s.quitStep = 0, NEW lv
  PROVE  LET r == HandleSuccessfulJob(j, t, lv) IN
         InOrder(r) /\ Await(r) /\ Jobs(r) \subseteq Jobs(s)
<1> DEFINE P    == j.proc \ {t}
           zero == [j EXCEPT !.failed = 0]
           out  == [zero EXCEPT !.proc = P]
           done == [out EXCEPT !.done = Append(out.done, t)]
           todo == [out EXCEPT !.refilter = <<t>> \o out.refilter]
           wait == IF todo.dsmt THEN DontStartMoreTasks(todo) ELSE todo
<1>1. zero \in Members /\ zero.failed = 0
  <2>1. zero \in Members
    BY Write
  <2> QED
    BY <2>1, Written
<1>2. out \in Members /\ out.proc = P
  <2>1. P \in SUBSET Frames
    BY Read
  <2> HIDE DEF P, zero
  <2>2. out \in Members
    BY <1>1, <2>1, Write
  <2> QED
    BY <1>1, <2>2, Written
<1>3. /\ out.job = j.job /\ out.killed = j.killed /\ out.nrun = j.nrun
      /\ out.stage = j.stage /\ out.fresh = j.fresh /\ out.refilter = j.refilter
      /\ out.abortOn = j.abortOn /\ out.killTasks = j.killTasks
      /\ out.dsmt = j.dsmt /\ out.crash = j.crash /\ out.sfs = j.sfs
      /\ out.srcPend = j.srcPend /\ out.load = j.load /\ out.poll = j.poll
      /\ out.tid0 = j.tid0 /\ out.quitStep = j.quitStep
      /\ out.failed = zero.failed
  OBVIOUS
<1>4. HandleSuccessfulJob(j, t, lv) =
        IF j.stage[t] = "TaskDone"
        THEN CheckStartExchange(CheckStartTasks(done, lv))
        ELSE CheckStartTasks(wait, lv)
  <2>1. j.quitStep = 0
    BY DEF LeftBy
  <2>2. out = [j EXCEPT !.failed = 0, !.proc = @ \ {t}] /\ todo.dsmt = j.dsmt
    OBVIOUS
  <2> QED
    BY <2>1, <2>2 DEF HandleSuccessfulJob
<1> HIDE DEF out, P
<1>5. /\ done.job = out.job /\ done.killed = out.killed /\ done.nrun = out.nrun
      /\ done.stage = out.stage /\ done.fresh = out.fresh
      /\ done.refilter = out.refilter /\ done.proc = out.proc
      /\ done.abortOn = out.abortOn /\ done.killTasks = out.killTasks
      /\ done.dsmt = out.dsmt /\ done.crash = out.crash /\ done.sfs = out.sfs
      /\ done.srcPend = out.srcPend /\ done.load = out.load
      /\ done.poll = out.poll /\ done.tid0 = out.tid0
      /\ done.quitStep = out.quitStep /\ done.failed = out.failed
  OBVIOUS
<1>6. /\ todo.job = out.job /\ todo.killed = out.killed /\ todo.nrun = out.nrun
      /\ todo.stage = out.stage /\ todo.fresh = out.fresh
      /\ todo.proc = out.proc
      /\ todo.abortOn = out.abortOn /\ todo.killTasks = out.killTasks
      /\ todo.dsmt = out.dsmt /\ todo.crash = out.crash /\ todo.sfs = out.sfs
      /\ todo.srcPend = out.srcPend /\ todo.load = out.load
      /\ todo.poll = out.poll /\ todo.tid0 = out.tid0
      /\ todo.quitStep = out.quitStep /\ todo.failed = out.failed
  OBVIOUS
<1>7. done \in Members
  <2>1. Append(out.done, t) \in Seq(Frames)
    BY <1>2, Read
  <2> QED
    BY <1>2, <2>1, Write
<1>8. todo \in Members /\ Len(todo.refilter) = Len(out.refilter) + 1
  <2> DEFINE q == <<t>> \o out.refilter
  <2>1. q \in Seq(Frames) /\ Len(q) = Len(out.refilter) + 1
    <3>1. out.refilter \in Seq(Frames) /\ <<t>> \in Seq(Frames) /\ Len(<<t>>) = 1
      BY <1>2, Read
    <3>2. q \in Seq(Frames) /\ Len(q) = Len(<<t>>) + Len(out.refilter)
      BY <3>1, ConcatProperties
    <3> QED
      BY <3>1, <3>2, LenProperties
  <2> HIDE DEF q
  <2>2. todo \in Members
    BY <1>2, <2>1, Write DEF q
  <2>3. todo.refilter = q
    BY <1>2, Written DEF q
  <2> QED
    BY <2>1, <2>2, <2>3
<1> HIDE DEF done, todo
<1>9. \A x \in {done, todo} :
        InOrder(x) /\ Await(x) /\ Jobs(x) \subseteq Jobs(s) /\ x \in Members
  <2> SUFFICES ASSUME NEW x \in {done, todo}
               PROVE  InOrder(x) /\ Await(x) /\ Jobs(x) \subseteq Jobs(s)
    BY <1>7, <1>8
  <2>1. /\ x.job = j.job /\ x.killed = j.killed /\ x.nrun = j.nrun
        /\ x.stage = j.stage /\ x.proc = j.proc \ {t} /\ x.fresh = j.fresh
        /\ x.abortOn = j.abortOn /\ x.killTasks = j.killTasks
        /\ x.dsmt = j.dsmt /\ x.crash = j.crash /\ x.sfs = j.sfs
        /\ x.srcPend = j.srcPend /\ x.load = j.load /\ x.poll = j.poll
        /\ x.tid0 = j.tid0 /\ x.quitStep = j.quitStep /\ x.failed = 0
    BY <1>1, <1>2, <1>3, <1>5, <1>6 DEF P
  <2>2. Len(x.refilter) <= Len(j.refilter) + 1 /\ x \in Members
    <3>1. Len(j.refilter) \in Nat
      BY Lengths
    <3>2. Len(done.refilter) = Len(j.refilter)
          /\ Len(todo.refilter) = Len(j.refilter) + 1
      BY <1>3, <1>5, <1>8
    <3> QED
      BY <1>7, <1>8, <3>1, <3>2
  <2>3. /\ Steady(x) /\ Await(x) /\ Jobs(x) \subseteq Jobs(s)
        /\ Cardinality(x.proc) = Cardinality(s.proc) - 1
        /\ Cardinality(s.proc) \in Nat
    BY <2>1, <2>2, LeftOrder
  <2>4. Enough(x)
    <3>1. Cardinality(s.proc) <= NJobs
      BY ProcSize DEF InOrder, Steady, Limited
    <3>2. MaxFailed \in Nat /\ NJobs \in Nat
      BY ConfigAssumption
    <3>3. MaxFailed > 0 => ~(0 >= MaxFailed)
                           /\ 0 + Cardinality(x.proc) < MaxFailed + NJobs
      BY <2>3, <3>1, <3>2
    <3> QED
      BY <2>1, <3>3 DEF Enough
  <2> QED
    BY <2>3, <2>4 DEF InOrder
<1>10. LET r == CheckStartExchange(CheckStartTasks(done, lv))
       IN  InOrder(r) /\ Await(r) /\ Jobs(r) \subseteq Jobs(s)
  <2> DEFINE b == CheckStartTasks(done, lv)
  <2>1. b \in Members /\ Orderly(done, b)
    BY <1>7, CheckStartTasksTyped, CheckStartTasksTame, TameOrder
  <2> HIDE DEF b
  <2>2. Orderly(b, CheckStartExchange(b))
    BY <2>1, CheckStartExchangeTyped, UnmovedIs, UnmovedTame, TameOrder
  <2> QED
    BY <1>9, <2>1, <2>2, OrderlyTrans DEF b, Orderly
<1>11. LET r == CheckStartTasks(wait, lv)
       IN  InOrder(r) /\ Await(r) /\ Jobs(r) \subseteq Jobs(s)
  <2>1. wait \in Members /\ Orderly(todo, wait)
    <3>1. Orderly(todo, todo)
      BY DEF Orderly
    <3> QED
      BY <1>8, <3>1, DontStartTyped, DontStartTame, TameOrder
  <2> HIDE DEF wait
  <2>2. Orderly(wait, CheckStartTasks(wait, lv))
    BY <2>1, CheckStartTasksTyped, CheckStartTasksTame, TameOrder
  <2> QED
    BY <1>9, <2>1, <2>2, OrderlyTrans DEF Orderly
<1> QED
  BY <1>4, <1>10, <1>11

\* A job failed.
LEMMA FailureOrder ==
  ASSUME NEW s \in Members, NEW t \in Frames, t \in Jobs(s), t # s.sfs,
         InOrder(s), Await(s), NEW j \in Members, LeftBy(s, t, j),
         s.quitStep = 0, NEW lv
  PROVE  LET r == HandleFailedTask(j, t, lv) IN
         InOrder(r) /\ Await(r) /\ Jobs(r) \subseteq Jobs(s)
<1> DEFINE P == j.proc \ {t}
           k == [j EXCEPT !.proc = P]
           d == [k EXCEPT !.done = Append(@, t)]
           r == CheckStartExchange(CheckStartTasks(CountFailure(d, t), lv))
<1>1. k \in Members /\ k.proc = P
  <2>1. P \in SUBSET Frames
    BY Read
  <2> HIDE DEF P
  <2>2. k \in Members
    BY <2>1, Write
  <2> QED
    BY <2>2, Written
<1>2. HandleFailedTask(j, t, lv) = [r EXCEPT !.tdaf = @ \/ r.connected]
  <2>1. j.quitStep = 0 /\ t # j.sfs
    BY DEF LeftBy
  <2> QED
    BY <2>1 DEF HandleFailedTask
<1>3. /\ k.job = j.job /\ k.killed = j.killed /\ k.nrun = j.nrun
      /\ k.stage = j.stage /\ k.fresh = j.fresh /\ k.refilter = j.refilter
      /\ k.abortOn = j.abortOn /\ k.killTasks = j.killTasks
      /\ k.dsmt = j.dsmt /\ k.crash = j.crash /\ k.sfs = j.sfs
      /\ k.srcPend = j.srcPend /\ k.load = j.load /\ k.poll = j.poll
      /\ k.tid0 = j.tid0 /\ k.quitStep = j.quitStep
      /\ k.failed = j.failed /\ k.sq = j.sq
  OBVIOUS
<1> HIDE DEF k, P
<1>4. d \in Members
  <2>1. Append(k.done, t) \in Seq(Frames)
    BY <1>1, Read
  <2> QED
    BY <1>1, <2>1, Write
<1>5. /\ d.job = k.job /\ d.killed = k.killed /\ d.nrun = k.nrun
      /\ d.stage = k.stage /\ d.fresh = k.fresh /\ d.refilter = k.refilter
      /\ d.proc = k.proc
      /\ d.abortOn = k.abortOn /\ d.killTasks = k.killTasks
      /\ d.dsmt = k.dsmt /\ d.crash = k.crash /\ d.sfs = k.sfs
      /\ d.srcPend = k.srcPend /\ d.load = k.load /\ d.poll = k.poll
      /\ d.tid0 = k.tid0 /\ d.quitStep = k.quitStep
      /\ d.failed = k.failed /\ d.sq = k.sq
  OBVIOUS
<1> HIDE DEF d
<1>6. /\ Steady(d) /\ Await(d) /\ Jobs(d) \subseteq Jobs(s)
      /\ Cardinality(d.proc) = Cardinality(s.proc) - 1
      /\ Cardinality(s.proc) \in Nat
  <2>1. /\ d.job = j.job /\ d.killed = j.killed /\ d.nrun = j.nrun
        /\ d.stage = j.stage /\ d.proc = j.proc \ {t} /\ d.fresh = j.fresh
        /\ d.abortOn = j.abortOn /\ d.killTasks = j.killTasks
        /\ d.dsmt = j.dsmt /\ d.crash = j.crash /\ d.sfs = j.sfs
        /\ d.srcPend = j.srcPend /\ d.load = j.load /\ d.poll = j.poll
        /\ d.tid0 = j.tid0 /\ d.quitStep = j.quitStep
    BY <1>1, <1>3, <1>5 DEF P
  <2>2. Len(d.refilter) <= Len(j.refilter) + 1
    <3>1. Len(d.refilter) = Len(j.refilter) /\ Len(j.refilter) \in Nat
      BY <1>3, <1>5, Lengths
    <3> QED
      BY <3>1
  <2> QED
    BY <1>4, <2>1, <2>2, LeftOrder
<1>7. MaxFailed > 0 =>
        /\ d.failed >= MaxFailed => d.dsmt /\ d.sq = 2
        /\ d.failed + Cardinality(d.proc) + 1 < MaxFailed + NJobs
  <2>1. d.failed = s.failed /\ d.dsmt = s.dsmt /\ d.sq = s.sq
    BY <1>3, <1>5 DEF LeftBy
  <2>2. MaxFailed > 0 =>
          /\ s.failed >= MaxFailed => s.dsmt /\ s.sq = 2
          /\ s.failed + Cardinality(s.proc) < MaxFailed + NJobs
    BY DEF InOrder, Enough
  <2>3. s.failed \in Nat
    BY Read
  <2>4. s.failed + (Cardinality(s.proc) - 1) + 1 = s.failed + Cardinality(s.proc)
    BY <1>6, <2>3
  <2> QED
    BY <1>6, <2>1, <2>2, <2>4
<1>8. LET q == [r EXCEPT !.tdaf = @ \/ r.connected]
      IN  InOrder(q) /\ Await(q) /\ Jobs(q) \subseteq Jobs(d)
  BY <1>4, <1>6, <1>7, FailureNoted
<1> HIDE DEF r
<1> QED
  BY <1>2, <1>6, <1>8

\* The end of a job disturbs nothing.
LEMMA JobExitedOrderly ==
  ASSUME NEW s \in Members, NEW t \in Frames, t \in Jobs(s), t # s.sfs,
         s.quitStep = 0, InOrder(s), Await(s),
         NEW ok, NEW resume \in BOOLEAN, NEW lv
  PROVE  Orderly(s, JobExited(s, t, ok, resume, lv))
<1>1. JobSucceeded(s, t) \in Members /\ JobFailed(s, t, resume) \in Members
  BY JobSucceededTyped, JobFailedTyped
<1>2. LeftBy(s, t, JobSucceeded(s, t)) /\ LeftBy(s, t, JobFailed(s, t, resume))
  BY JobsLeave
<1>3. Orderly(s, HandleSuccessfulJob(JobSucceeded(s, t), t, lv))
  BY <1>1, <1>2, SuccessOrder DEF Orderly
<1>4. Orderly(s, HandleFailedTask(JobFailed(s, t, resume), t, lv))
  BY <1>1, <1>2, FailureOrder DEF Orderly
<1> QED
  BY <1>3, <1>4 DEF JobExited

----------------------------------------------------------------------------
(* The scheduled start *)

\* A fork that succeeded, as far as LaunchedIs does not say.
LEMMA LaunchedRest ==
  ASSUME NEW s \in Members, s.sfs # NoTask
  PROVE  LET r == Launched(s) IN
         /\ r.nrun = [s.nrun EXCEPT ![KindOf(s, s.sfs)] = @ + 1]
         /\ r.killed = s.killed /\ r.failed = s.failed
         /\ r.abortOn = s.abortOn /\ r.killTasks = s.killTasks
         /\ r.crash = s.crash /\ r.load = s.load
         /\ r.poll = (s.poll /\ s.load)
         /\ r.tid0 = s.tid0 /\ r.quitStep = s.quitStep /\ r.srcPend = s.srcPend
<1> DEFINE t == s.sfs
           f == ForkJob(s, t)
           p == f.poll /\ f.load
           k == [f EXCEPT !.sfs = NoTask, !.poll = p]
           d == Dequeue(k, t)
           r == [d EXCEPT !.proc = @ \cup {t}]
<1>1. f.nrun = [s.nrun EXCEPT ![KindOf(s, s.sfs)] = @ + 1] /\ f \in Members
  <2>1. f.nrun = [s.nrun EXCEPT ![KindOf(s, s.sfs)] = @ + 1]
    BY DEF ForkJob, Members
  <2> QED
    BY <2>1, ForkTyped
<1>2. /\ f.killed = s.killed /\ f.failed = s.failed
      /\ f.abortOn = s.abortOn /\ f.killTasks = s.killTasks
      /\ f.crash = s.crash /\ f.load = s.load /\ f.poll = s.poll
      /\ f.tid0 = s.tid0 /\ f.quitStep = s.quitStep /\ f.srcPend = s.srcPend
      /\ f.sfs = s.sfs
  BY DEF ForkJob
<1>3. Launched(s) = r
  <2>1. KillScheduledForStart(f) = k
    BY <1>2 DEF KillScheduledForStart
  <2> QED
    BY <2>1 DEF Launched
<1> HIDE DEF f
<1>4. k.poll = p
  <2> HIDE DEF p
  <2> QED
    BY <1>1 DEF Members
<1>5. /\ k.killed = f.killed /\ k.failed = f.failed /\ k.nrun = f.nrun
      /\ k.abortOn = f.abortOn /\ k.killTasks = f.killTasks
      /\ k.crash = f.crash /\ k.load = f.load
      /\ k.tid0 = f.tid0 /\ k.quitStep = f.quitStep /\ k.srcPend = f.srcPend
  OBVIOUS
<1> HIDE DEF k
<1>6. /\ r.killed = k.killed /\ r.failed = k.failed /\ r.nrun = k.nrun
      /\ r.abortOn = k.abortOn /\ r.killTasks = k.killTasks
      /\ r.crash = k.crash /\ r.load = k.load /\ r.poll = k.poll
      /\ r.tid0 = k.tid0 /\ r.quitStep = k.quitStep /\ r.srcPend = k.srcPend
  BY DEF Dequeue
<1> HIDE DEF r
<1>7. r.poll = (s.poll /\ s.load)
  BY <1>2, <1>4, <1>6
<1> QED
  BY <1>1, <1>2, <1>3, <1>5, <1>6, <1>7

\* The scheduled task waits in todo, and has no job.
LEMMA ScheduledWaits ==
  ASSUME NEW s \in Members, s.sfs # NoTask, Sound(s)
  PROVE  /\ s.sfs \in Frames /\ ~s.dsmt
         /\ Count(s.refilter, s.sfs) > 0 \/ Count(s.fresh, s.sfs) > 0
         /\ s.sq > 0 => Count(s.refilter, s.sfs) > 0
         /\ s.sfs \notin s.proc /\ s.job[s.sfs] = "none" /\ s.sfs # s.srcDone
<1> DEFINE t == s.sfs
<1>1. t \in Frames
  BY Read
<1>2. ~s.dsmt /\ (Count(s.refilter, t) > 0 \/ Count(s.fresh, t) > 0)
      /\ (s.sq > 0 => Count(s.refilter, t) > 0)
  BY DEF Sound, Chosen
<1>3. Places(s, t) <= 1 /\ (t \in s.proc <=> s.job[t] # "none")
  BY <1>1 DEF Sound, Fine
<1>4. t \notin s.proc /\ t # s.srcDone
  BY <1>2, <1>3, PlacesType DEF Places
<1> QED
  BY <1>1, <1>2, <1>3, <1>4

\* There is room for the job that is started, and then it is counted.
LEMMA LaunchedOrder ==
  ASSUME NEW s \in Members, s.sfs # NoTask, Sound(s), InOrder(s),
         s.poll => ~s.load
  PROVE  LET r == Launched(s) IN
         /\ r \in Members /\ InOrder(r) /\ Await(r)
         /\ Jobs(r) = Jobs(s) \cup {s.sfs}
<1> DEFINE t == s.sfs
           r == Launched(s)
           K == KindOf(s, t)
<1>1. /\ t \in Frames /\ ~s.dsmt
      /\ Count(s.refilter, t) > 0 \/ Count(s.fresh, t) > 0
      /\ t \notin s.proc /\ s.job[t] = "none"
  BY ScheduledWaits
<1>2. /\ r \in Members
      /\ r.job = [s.job EXCEPT ![t] = "launched"]
      /\ r.proc = s.proc \cup {t}
      /\ r.refilter = Without(s.refilter, t) /\ r.fresh = Without(s.fresh, t)
      /\ r.stage = s.stage /\ r.sfs = NoTask /\ r.sq = s.sq /\ r.dsmt = s.dsmt
  BY LaunchedIs
<1>3. /\ r.nrun = [s.nrun EXCEPT ![K] = @ + 1]
      /\ r.killed = s.killed /\ r.failed = s.failed
      /\ r.abortOn = s.abortOn /\ r.killTasks = s.killTasks
      /\ r.crash = s.crash /\ r.load = s.load
      /\ r.poll = (s.poll /\ s.load)
      /\ r.tid0 = s.tid0 /\ r.quitStep = s.quitStep /\ r.srcPend = s.srcPend
  BY LaunchedRest
<1> HIDE DEF t, r
<1>4. Startable(s) /\ Counted(s) /\ Limited(s) /\ Roomy(s) /\ Enough(s) /\ Killing(s)
  BY DEF InOrder, Steady
<1>5. RoomFor(s, t)
  BY <1>4 DEF Startable, t
<1>6. Jobs(r) = Jobs(s) \cup {t}
  <2>1. s.job \in [Frames -> {"none", "launched", "running"}]
    BY Read
  <2> QED
    BY <1>1, <1>2, <2>1 DEF Jobs
<1>7. K \in Kinds /\ s.nrun \in [Kinds -> Int]
  BY Read, KindTyped
<1>8. \A k \in Kinds : r.nrun[k] = IF k = K THEN s.nrun[k] + 1 ELSE s.nrun[k]
  <2> HIDE DEF K
  <2> QED
    BY <1>3, <1>7
<1>9. Counted(r)
  <2>1. Jobs(r) = r.proc
    BY <1>2, <1>4, <1>6 DEF Counted
  <2>2. ASSUME NEW k \in Kinds PROVE r.nrun[k] = Cardinality(Ones(r, k))
    <3>1. \A u : KindOf(r, u) = KindOf(s, u)
      BY <1>2 DEF KindOf
    <3>2. Ones(r, k) = IF k = K THEN Ones(s, k) \cup {t} ELSE Ones(s, k)
      BY <1>6, <3>1 DEF Ones
    <3>3. t \notin Ones(s, k)
      BY <1>1, <1>4 DEF Ones, Counted
    <3>4. IsFiniteSet(Ones(s, k)) /\ Cardinality(Ones(s, k)) \in Nat
      BY SizeType DEF Ones, Jobs
    <3>5. Cardinality(Ones(s, k) \cup {t}) = Cardinality(Ones(s, k)) + 1
      BY <3>3, <3>4, FS_AddElement
    <3>6. s.nrun[k] = Cardinality(Ones(s, k))
      BY <1>4 DEF Counted
    <3> HIDE DEF K
    <3> QED
      BY <1>8, <3>2, <3>5, <3>6
  <2> QED
    BY <2>1, <2>2 DEF Counted
<1>10. NJobs \in Nat \ {0} /\ MaxRender \in Nat /\ MaxFilter \in Nat
       /\ TodoHigh \in Nat /\ MaxFailed \in Nat
  BY ConfigAssumption
<1>11. Limited(r)
  <2>1. "Render" \in Kinds /\ "Filter" \in Kinds
        /\ s.nrun["Render"] \in Int /\ s.nrun["Filter"] \in Int
    BY <1>7 DEF Kinds
  <2>2. CASE s.stage[t] = "ToBeRendered" /\ s.nrun["Render"] < MaxRender
    <3>1. K = "Render"
      BY <2>2 DEF KindOf
    <3>2. r.nrun["Render"] = s.nrun["Render"] + 1 /\ r.nrun["Filter"] = s.nrun["Filter"]
      BY <1>8, <2>1, <3>1
    <3> QED
      BY <1>4, <1>5, <1>10, <2>1, <2>2, <3>2 DEF Limited, RoomFor, RunningJobs
  <2>3. CASE s.stage[t] = "ToBeFiltered" /\ s.nrun["Filter"] < MaxFilter
    <3>1. K = "Filter"
      BY <2>3 DEF KindOf
    <3>2. r.nrun["Filter"] = s.nrun["Filter"] + 1 /\ r.nrun["Render"] = s.nrun["Render"]
      BY <1>8, <2>1, <3>1
    <3> QED
      BY <1>4, <1>5, <1>10, <2>1, <2>3, <3>2 DEF Limited, RoomFor, RunningJobs
  <2> QED
    BY <1>5, <2>2, <2>3 DEF RoomFor
<1>12. /\ Cardinality(s.proc) \in Nat /\ Cardinality(s.proc) < NJobs
       /\ Cardinality(r.proc) = Cardinality(s.proc) + 1
  <2>1. IsFiniteSet(s.proc) /\ Cardinality(s.proc) \in Nat
    BY Read, SizeType
  <2>2. Cardinality(s.proc \cup {t}) = Cardinality(s.proc) + 1
    BY <1>1, <2>1, FS_AddElement
  <2>3. Cardinality(s.proc) < NJobs
    BY <1>4, <1>5, ProcSize DEF RoomFor
  <2> QED
    BY <1>2, <2>1, <2>2, <2>3
<1>13. Roomy(r)
  <2> DEFINE a == Len(s.refilter)  b == Len(s.fresh)  n == Cardinality(s.proc)
             c == Len(r.refilter)  d == Len(r.fresh)
  <2>1. a \in Nat /\ b \in Nat /\ c \in Nat /\ d \in Nat
    BY <1>2, Lengths
  <2>2. s.refilter \in Seq(Frames) /\ s.fresh \in Seq(Frames)
    BY Read
  <2>3. /\ c = IF Count(s.refilter, t) > 0 THEN a - 1 ELSE a
        /\ d = IF Count(s.fresh, t) > 0 THEN b - 1 ELSE b
    BY <1>2, <2>2, WithoutLength
  <2>4. c + d + 1 <= a + b /\ d <= b
    <3> HIDE DEF a, b, c, d
    <3> QED
      BY <1>1, <2>1, <2>3
  <2>5. /\ b <= TodoHigh /\ a + b + n <= TodoHigh + NJobs
        /\ s.srcPend = "AGetTask" => b < TodoHigh /\ a + b + n < TodoHigh + NJobs
    BY <1>4 DEF Roomy, Load
  <2>6. n \in Nat
    BY <1>12
  <2> HIDE DEF a, b, c, d, n
  <2>7. /\ d <= TodoHigh /\ c + d + (n + 1) <= TodoHigh + NJobs
        /\ b < TodoHigh => d < TodoHigh
        /\ a + b + n < TodoHigh + NJobs => c + d + (n + 1) < TodoHigh + NJobs
    BY <1>10, <2>1, <2>4, <2>5, <2>6
  <2>8. Cardinality(r.proc) = n + 1
    BY <1>12 DEF n
  <2> QED
    BY <1>3, <2>5, <2>7, <2>8 DEF Roomy, Load, c, d
<1>14. Enough(r)
  <2>1. MaxFailed > 0 => ~(s.failed >= MaxFailed)
    BY <1>1, <1>4 DEF Enough
  <2>2. s.failed \in Nat
    BY Read
  <2>3. MaxFailed > 0 =>
          s.failed + (Cardinality(s.proc) + 1) < MaxFailed + NJobs
    BY <1>10, <1>12, <2>1, <2>2
  <2> QED
    BY <1>3, <1>12, <2>1, <2>3 DEF Enough
<1>15. Startable(r) /\ Killing(r) /\ Await(r)
  BY <1>1, <1>2, <1>3, <1>4 DEF Startable, Killing, Await
<1> QED
  BY <1>2, <1>6, <1>9, <1>11, <1>13, <1>14, <1>15 DEF InOrder, Steady, t, r

\* The fork failed: the scheduled task is done with, and counts as a failure.
LEMMA ForkFailedOrder ==
  ASSUME NEW s \in Members, s.sfs # NoTask, Sound(s), InOrder(s),
         s.quitStep = 0, s.poll => ~s.load, NEW lv
  PROVE  LET r == KillScheduledForStart(
                    HandleFailedTask(ForkFailed(s, s.sfs), s.sfs, lv))
         IN  r \in Members /\ InOrder(r) /\ Await(r) /\ Jobs(r) \subseteq Jobs(s)
<1> DEFINE t  == s.sfs
           ff == ForkFailed(s, t)
           g  == KillScheduledForStart(ff)
           k  == Dequeue(g, t)
           d  == [k EXCEPT !.done = Append(@, t)]
           r  == CheckStartExchange(CheckStartTasks(CountFailure(d, t), lv))
           q  == [r EXCEPT !.tdaf = @ \/ r.connected]
<1>1. t \in Frames /\ ~s.dsmt
  BY ScheduledWaits
<1>2. ff \in Members /\ Unmoved(s, ff) /\ ff.quitStep = 0
  <2>1. Unmoved(s, ff) /\ ff.quitStep = 0
    BY DEF ForkFailed, StoreFailure, Unmoved
  <2> QED
    BY <2>1, ForkFailedTyped
<1>3. HandleFailedTask(ff, t, lv) = q
  <2>1. t = ff.sfs
    BY <1>2 DEF Unmoved
  <2> HIDE DEF t, ff
  <2> QED
    BY <1>2, <2>1 DEF HandleFailedTask
<1> HIDE DEF ff
<1>4. g \in Members /\ Tame(ff, g) /\ g.sfs = NoTask /\ ~g.poll
  <2>1. g \in Members /\ Tame(ff, g) /\ g.sfs = NoTask
    BY <1>2, KillScheduledIs, GivingUpTame
  <2>2. g.poll = (ff.poll /\ ff.load)
    <3> DEFINE p == ff.poll /\ ff.load
    <3>1. g = [ff EXCEPT !.sfs = NoTask, !.poll = p]
      BY <1>2 DEF KillScheduledForStart, Unmoved
    <3> HIDE DEF p, g
    <3>2. g.poll = p
      BY <1>2, <3>1 DEF Members
    <3> QED
      BY <3>2 DEF p
  <2> QED
    BY <1>2, <2>1, <2>2 DEF Unmoved
<1> HIDE DEF g
<1>5. k \in Members /\ Tame(g, k) /\ k.sfs = NoTask /\ ~k.poll
  <2>1. k.poll = g.poll /\ k.sfs = g.sfs
    BY DEF Dequeue
  <2> QED
    BY <1>1, <1>4, <2>1, DequeueTyped, DequeueTame
<1> HIDE DEF k
<1>6. d \in Members /\ Unmoved(k, d)
  <2>1. Append(k.done, t) \in Seq(Frames)
    BY <1>1, <1>5, Read
  <2>2. d \in Members
    BY <1>5, <2>1, Write
  <2> QED
    BY <2>2 DEF Unmoved
<1> HIDE DEF d
<1>7. Tame(s, d)
  BY <1>2, <1>4, <1>5, <1>6, UnmovedTame, TameTrans
<1>8. Steady(d) /\ Await(d) /\ Jobs(d) = Jobs(s)
  <2>1. Steady(d)
    BY <1>6, <1>7, TameSteady DEF InOrder
  <2>2. d.sfs = NoTask /\ ~d.poll
    BY <1>5, <1>6 DEF Unmoved
  <2> QED
    BY <1>7, <2>1, <2>2 DEF Await, Tame, Jobs
<1>9. MaxFailed > 0 =>
        /\ d.failed >= MaxFailed => d.dsmt /\ d.sq = 2
        /\ d.failed + Cardinality(d.proc) + 1 < MaxFailed + NJobs
  <2>1. d.failed = s.failed /\ d.proc = s.proc
    BY <1>7 DEF Tame
  <2>2. MaxFailed > 0 => ~(s.failed >= MaxFailed)
    BY <1>1 DEF InOrder, Enough
  <2>3. Cardinality(s.proc) \in Nat /\ Cardinality(s.proc) < NJobs
    BY ProcSize DEF InOrder, Steady, Startable, RoomFor
  <2>4. s.failed \in Nat /\ MaxFailed \in Nat /\ NJobs \in Nat
    BY Read, ConfigAssumption
  <2>5. MaxFailed > 0 => /\ s.failed + Cardinality(s.proc) + 1 < MaxFailed + NJobs
    BY <2>2, <2>3, <2>4
  <2> QED
    BY <2>1, <2>2, <2>5
<1>10. q \in Members /\ InOrder(q) /\ Await(q) /\ Jobs(q) \subseteq Jobs(d)
  BY <1>6, <1>8, <1>9, FailureNoted
<1> HIDE DEF q
<1>11. KillScheduledForStart(q) \in Members /\ Orderly(q, KillScheduledForStart(q))
  BY <1>10, KillScheduledTyped, GivingUpTame, TameOrder
<1> QED
  BY <1>3, <1>8, <1>10, <1>11 DEF Orderly, ff

\* LaunchTask() of the scheduled task, or nothing.  The timer may just have
\* fired, so it is no longer what the scheduled start waits for.
LEMMA LaunchScheduledOrder ==
  ASSUME NEW s \in Members, Sound(s), InOrder(s), s.quitStep = 0,
         s.poll => s.sfs # NoTask /\ ~s.load,
         (s.sfs # NoTask /\ s.load) \/ Await(s), NEW forked, NEW lv
  PROVE  LET r == LaunchScheduled(s, forked, lv) IN
         /\ r \in Members /\ InOrder(r) /\ Await(r)
         /\ Jobs(r) \subseteq Jobs(s) \cup {s.sfs}
<1> DEFINE t == s.sfs
           m == HandleFailedTask(ForkFailed(s, t), t, lv)
           x == IF forked THEN Launched(s) ELSE KillScheduledForStart(m)
           r == LaunchScheduled(s, forked, lv)
<1>1. CASE ~(s.sfs # NoTask /\ s.load)
  <2>1. r = s
    BY <1>1 DEF LaunchScheduled
  <2> QED
    BY <1>1, <2>1
<1>2. CASE s.sfs # NoTask /\ s.load
  <2>1. r = CheckStartTasks(x, lv)
    BY <1>2 DEF LaunchScheduled, Launched
  <2>2. s.poll => ~s.load
    OBVIOUS
  <2>3. Launched(s) \in Members /\ InOrder(Launched(s)) /\ Await(Launched(s))
        /\ Jobs(Launched(s)) = Jobs(s) \cup {s.sfs}
    BY <1>2, <2>2, LaunchedOrder
  <2>4. LET y == KillScheduledForStart(m)
        IN  y \in Members /\ InOrder(y) /\ Await(y) /\ Jobs(y) \subseteq Jobs(s)
    BY <1>2, <2>2, ForkFailedOrder
  <2>5. x \in Members /\ InOrder(x) /\ Await(x) /\ Jobs(x) \subseteq Jobs(s) \cup {s.sfs}
    BY <2>3, <2>4
  <2> HIDE DEF x
  <2>6. r \in Members /\ Orderly(x, r)
    BY <2>1, <2>5, CheckStartTasksTyped, CheckStartTasksTame, TameOrder
  <2> QED
    BY <1>2, <2>5, <2>6 DEF Orderly
<1> QED
  BY <1>1, <1>2

\* The order to kill is carried out: every job that exists is killed.
LEMMA KillJobsOrder ==
  ASSUME NEW s \in Members, InOrder(s)
  PROVE  LET r == KillJobs(s) IN
         /\ r \in Members /\ InOrder(r) /\ Jobs(r) = Jobs(s)
         /\ r.sfs = s.sfs /\ r.load = s.load /\ r.poll = s.poll
         /\ r.tid0 = s.tid0 /\ r.quitStep = s.quitStep
<1> DEFINE r == KillJobs(s)
           K == [t \in Frames |-> IF t \in Jobs(s) THEN "UserIntr" ELSE s.killed[t]]
           m == [s EXCEPT !.killed = K]
           x == IF "forked" \in s.dead THEN Die(s, "nulltask") ELSE m
           z == [x EXCEPT !.killTasks = FALSE]
<1>1. CASE ~s.killTasks
  <2>1. r = s
    BY <1>1 DEF KillJobs
  <2> QED
    BY <2>1
<1>2. CASE s.killTasks
  <2>1. r = z
    BY <1>2 DEF KillJobs, TermAllJobs
  <2>2. m \in Members /\ m.killed = K
    <3>1. K \in [Frames -> Reasons]
      BY Read DEF Reasons
    <3> HIDE DEF K
    <3> QED
      BY <3>1, Write, Written
  <2>3. Die(s, "nulltask") \in Members /\ Die(s, "nulltask").crash # "none"
    <3>1. Die(s, "nulltask").crash # "none"
      BY DEF Die, Members
    <3> QED
      BY <3>1, DieTyped
  <2> DEFINE Rest(y) ==
               /\ y.job = s.job /\ y.nrun = s.nrun /\ y.proc = s.proc
               /\ y.stage = s.stage /\ y.abortOn = s.abortOn /\ y.dsmt = s.dsmt
               /\ y.fresh = s.fresh /\ y.refilter = s.refilter /\ y.sfs = s.sfs
               /\ y.srcPend = s.srcPend /\ y.failed = s.failed /\ y.sq = s.sq
               /\ y.load = s.load /\ y.poll = s.poll /\ y.tid0 = s.tid0
               /\ y.quitStep = s.quitStep
  <2>4. Rest(m) /\ Rest(Die(s, "nulltask"))
    <3>1. Rest(m)
      OBVIOUS
    <3>2. Rest(Die(s, "nulltask"))
      BY DEF Die
    <3> QED
      BY <3>1, <3>2
  <2> HIDE DEF m, K
  <2>5. x \in Members /\ Rest(x) /\ (x.crash # "none" \/ x.killed = K)
    <3> HIDE DEF Rest
    <3> QED
      BY <2>2, <2>3, <2>4
  <2> HIDE DEF x
  <2>6. z \in Members /\ z.killTasks = FALSE
    <3>1. z \in Members
      BY <2>5, Write
    <3>2. z.killTasks = FALSE
      BY <2>5, Written
    <3> QED
      BY <3>1, <3>2
  <2>7. Rest(z) /\ z.crash = x.crash /\ z.killed = x.killed
    BY <2>5
  <2> HIDE DEF z
  <2>8. Startable(s) /\ Counted(s) /\ Limited(s) /\ Roomy(s) /\ Enough(s) /\ Killing(s)
    BY DEF InOrder, Steady
  <2>9. Jobs(z) = Jobs(s) /\ \A k : Ones(z, k) = Ones(s, k)
    BY <2>7 DEF Jobs, Ones, KindOf
  <2>10. Startable(z) /\ Limited(z)
    BY <2>7, <2>8 DEF Startable, RoomFor, RunningJobs, Limited
  <2>11. Counted(z)
    BY <2>7, <2>8, <2>9 DEF Counted
  <2>12. Roomy(z) /\ Enough(z)
    BY <2>7, <2>8 DEF Roomy, Load, Enough
  <2>13. Killing(z)
    <3>1. z.crash = "none" => \A t \in Jobs(z) : z.killed[t] # "NotKilled"
      BY <2>5, <2>7, <2>9 DEF K, Jobs
    <3> QED
      BY <2>7, <2>8, <3>1 DEF Killing
  <2> QED
    BY <2>1, <2>6, <2>7, <2>9, <2>10, <2>11, <2>12, <2>13 DEF InOrder, Steady
<1> QED
  BY <1>1, <1>2

\* As constructed there is no job, and nothing to start.
LEMMA FreshOrder ==
  ASSUME NEW r,
         r.job = Fresh.job, r.killed = Fresh.killed, r.nrun = Fresh.nrun,
         r.proc = {}, r.abortOn = FALSE, r.fresh = <<>>, r.refilter = <<>>,
         r.sfs = NoTask, r.srcPend = "ANone", r.failed = 0, r.poll = FALSE
  PROVE  InOrder(r) /\ Await(r) /\ Jobs(r) = {}
<1>1. Jobs(r) = {} /\ \A k : Ones(r, k) = {}
  BY DEF Jobs, Ones, Fresh
<1>2. \A k \in Kinds : r.nrun[k] = 0
  BY DEF Fresh
<1>3. Cardinality({}) = 0
  BY FS_EmptySet
<1>4. /\ NJobs \in Nat \ {0} /\ MaxRender \in Nat /\ MaxFilter \in Nat
      /\ TodoHigh \in Nat /\ MaxFailed \in Nat
  BY ConfigAssumption
<1>5. Counted(r)
  BY <1>1, <1>2, <1>3 DEF Counted
<1>6. Limited(r)
  BY <1>2, <1>4 DEF Limited, RunningJobs, Kinds
<1>7. Roomy(r)
  <2>1. Len(r.fresh) = 0 /\ Len(r.refilter) = 0 /\ Cardinality(r.proc) = 0
    BY <1>3
  <2> QED
    BY <1>4, <2>1 DEF Roomy, Load
<1>8. Enough(r)
  BY <1>3, <1>4 DEF Enough
<1>9. Startable(r) /\ Killing(r) /\ Await(r)
  BY DEF Startable, Killing, Await
<1> QED
  BY <1>1, <1>5, <1>6, <1>7, <1>8, <1>9 DEF InOrder, Steady

\* _StartProcessing()
LEMMA StartOrder ==
  LET r == StartProcessing(Fresh) IN InOrder(r) /\ Await(r) /\ Jobs(r) = {}
<1> DEFINE a == [Fresh EXCEPT !.tid0 = FALSE, !.started = TRUE]
<1>1. a \in Members
  BY FreshTyped, Write
<1>2. InOrder(a) /\ Await(a) /\ Jobs(a) = {}
  <2>1. /\ a.job = Fresh.job /\ a.killed = Fresh.killed /\ a.nrun = Fresh.nrun
        /\ a.proc = {} /\ a.abortOn = FALSE /\ a.fresh = <<>> /\ a.refilter = <<>>
        /\ a.sfs = NoTask /\ a.srcPend = "ANone" /\ a.failed = 0 /\ a.poll = FALSE
    BY DEF Fresh
  <2> HIDE DEF a
  <2> QED
    BY <2>1, FreshOrder
<1>3. StartProcessing(Fresh) = IF MustConnect(a) THEN TSConnect(a) ELSE ActuallyQuit(a, 0)
  BY DEF StartProcessing
<1> HIDE DEF a
<1>4. Unmoved(a, TSConnect(a)) /\ TSConnect(a) \in Members
  BY <1>1, UnmovedIs, ConnectTyped
<1>5. Unmoved(a, ActuallyQuit(a, 0)) /\ ActuallyQuit(a, 0) \in Members
  <2>1. 0 \in 0..2
    OBVIOUS
  <2> QED
    BY <1>1, <2>1, UnmovedIs, ActuallyQuitTyped
<1>6. Orderly(a, StartProcessing(Fresh))
  BY <1>1, <1>3, <1>4, <1>5, UnmovedTame, TameOrder
<1> QED
  BY <1>2, <1>6 DEF Orderly

\* _schedule() of a program that is up: the order to kill, the scheduled
\* start, and going on to quit.
LEMMA ScheduleOrder ==
  ASSUME NEW s \in Members, Up(s), Sound(s), InOrder(s), Await(s),
         NEW forked, NEW lv
  PROVE  LET r == Schedule(s, forked, lv) IN
         InOrder(r) /\ Await(r) /\ Jobs(r) \subseteq Jobs(s) \cup {s.sfs}
<1> DEFINE a == [s EXCEPT !.tid0 = FALSE]
           k == KillJobs(a)
           l == LaunchScheduled(k, forked, lv)
<1>1. Schedule(s, forked, lv) = GoOnQuitting(l)
  BY Read DEF Schedule, Up
<1>2. a \in Members /\ Calm(s, a)
  <2>1. a \in Members
    BY Write
  <2> QED
    BY <2>1 DEF Calm, Still
<1>3. InOrder(a) /\ Jobs(a) = Jobs(s)
  <2>1. /\ a.job = s.job /\ a.killed = s.killed /\ a.nrun = s.nrun
        /\ a.proc = s.proc /\ a.stage = s.stage
        /\ a.abortOn = s.abortOn /\ a.killTasks = s.killTasks
        /\ a.dsmt = s.dsmt /\ a.crash = s.crash
        /\ a.fresh = s.fresh /\ a.refilter = s.refilter
        /\ a.srcPend = s.srcPend /\ a.sfs = s.sfs
        /\ a.failed = s.failed /\ a.sq = s.sq
    OBVIOUS
  <2> HIDE DEF a
  <2>2. Steady(a) /\ Jobs(a) = Jobs(s)
    BY <2>1, SteadyDepends DEF InOrder
  <2>3. Enough(a)
    BY <2>1 DEF Enough, InOrder
  <2> QED
    BY <2>2, <2>3 DEF InOrder
<1>4. /\ a.sfs = s.sfs /\ a.load = s.load /\ a.poll = s.poll
      /\ a.quitStep = s.quitStep
  OBVIOUS
<1> HIDE DEF a
<1>5. /\ k \in Members /\ InOrder(k) /\ Jobs(k) = Jobs(s)
      /\ k.sfs = s.sfs /\ k.load = s.load /\ k.poll = s.poll
      /\ k.quitStep = s.quitStep
  BY <1>2, <1>3, <1>4, KillJobsOrder
<1>6. Sound(k)
  <2>1. Calm(s, k)
    BY <1>2, Quiet, CalmTrans
  <2> QED
    BY <2>1, CalmMoves DEF Moves
<1> HIDE DEF k
<1>7. /\ k.poll => k.sfs # NoTask /\ ~k.load
      /\ k.quitStep = 0
      /\ (k.sfs # NoTask /\ k.load) \/ Await(k)
  BY <1>5 DEF Await, Up
<1>8. l \in Members /\ InOrder(l) /\ Await(l) /\ Jobs(l) \subseteq Jobs(k) \cup {k.sfs}
  BY <1>5, <1>6, <1>7, LaunchScheduledOrder
<1> HIDE DEF l
<1>9. Orderly(l, GoOnQuitting(l))
  BY <1>8, GoOnTame, GoOnQuittingTyped, TameOrder
<1> QED
  BY <1>1, <1>5, <1>8, <1>9 DEF Orderly

----------------------------------------------------------------------------
(* A new task, a task that was taken back, and news of a job *)

\* What the order depends on: the stages only of the jobs and of the task that
\* is scheduled for start.
LEMMA OrderDepends ==
  ASSUME NEW s, NEW r, InOrder(s), Jobs(r) = Jobs(s),
         r.nrun = s.nrun, r.proc = s.proc,
         r.abortOn = s.abortOn, r.killTasks = s.killTasks, r.dsmt = s.dsmt,
         r.crash = s.crash, r.sfs = s.sfs, r.failed = s.failed, r.sq = s.sq,
         \A u \in Jobs(s) : r.killed[u] \in {s.killed[u], "Timeout"},
         \A u \in Jobs(s) \cup {s.sfs} : r.stage[u] = s.stage[u],
         Roomy(r)
  PROVE  InOrder(r)
<1>1. Startable(s) /\ Counted(s) /\ Limited(s) /\ Enough(s) /\ Killing(s)
  BY DEF InOrder, Steady
<1>2. \A k : Ones(r, k) = Ones(s, k)
  BY DEF Ones, KindOf
<1>3. Startable(r)
  BY <1>1 DEF Startable, RoomFor, RunningJobs
<1>4. Counted(r)
  BY <1>1, <1>2 DEF Counted
<1>5. Limited(r) /\ Enough(r)
  BY <1>1 DEF Limited, RunningJobs, Enough
<1>6. Killing(r)
  BY <1>1 DEF Killing
<1> QED
  BY <1>3, <1>4, <1>5, <1>6 DEF InOrder, Steady

\* A new task joins todo, where there is room for it.
LEMMA TakeFreshOrder ==
  ASSUME NEW s \in Members, NEW t \in Frames, NEW lv, InOrder(s), Await(s),
         s.job[t] = "none", t # s.sfs, s.srcPend = "ANone",
         Len(s.fresh) < TodoHigh, Load(s) < TodoHigh + NJobs
  PROVE  LET r == TakeFreshTask(s, t, lv) IN
         r \in Members /\ InOrder(r) /\ Await(r) /\ Jobs(r) \subseteq Jobs(s)
<1> DEFINE a == [s EXCEPT !.fresh = Append(@, t)]
           b == NewTask_SetUpState(a, t)
           d == DontStartMoreTasks(b)
           st == IF t \in RenderFrames THEN "ToBeRendered" ELSE "ToBeFiltered"
<1>1. a \in Members /\ a.fresh = Append(s.fresh, t)
  <2>1. Append(s.fresh, t) \in Seq(Frames)
    BY Read
  <2>2. a \in Members
    BY <2>1, Write
  <2> QED
    BY <2>2 DEF Members
<1>2. /\ a.refilter = s.refilter /\ a.proc = s.proc /\ a.stage = s.stage
      /\ a.job = s.job /\ a.killed = s.killed /\ a.nrun = s.nrun
      /\ a.abortOn = s.abortOn /\ a.killTasks = s.killTasks
      /\ a.crash = s.crash /\ a.failed = s.failed
      /\ a.sfs = s.sfs /\ a.sq = s.sq /\ a.dsmt = s.dsmt
      /\ a.srcPend = s.srcPend /\ a.load = s.load /\ a.poll = s.poll
      /\ a.tid0 = s.tid0 /\ a.quitStep = s.quitStep
  OBVIOUS
<1> HIDE DEF a
<1>3. b \in Members /\ b.stage = [a.stage EXCEPT ![t] = st]
  <2>1. b \in Members
    BY <1>1, SetUpStateTyped
  <2>2. b.stage = [a.stage EXCEPT ![t] = st]
    BY <1>1 DEF NewTask_SetUpState, Members
  <2> QED
    BY <2>1, <2>2
<1>4. /\ b.refilter = a.refilter /\ b.proc = a.proc /\ b.fresh = a.fresh
      /\ b.job = a.job /\ b.killed = a.killed /\ b.nrun = a.nrun
      /\ b.abortOn = a.abortOn /\ b.killTasks = a.killTasks
      /\ b.crash = a.crash /\ b.failed = a.failed
      /\ b.sfs = a.sfs /\ b.sq = a.sq /\ b.dsmt = a.dsmt
      /\ b.srcPend = a.srcPend /\ b.load = a.load /\ b.poll = a.poll
      /\ b.tid0 = a.tid0 /\ b.quitStep = a.quitStep
  BY DEF NewTask_SetUpState
<1> HIDE DEF b
<1>5. Roomy(b)
  <2>1. Len(b.fresh) = Len(s.fresh) + 1 /\ Len(s.fresh) \in Nat
    BY <1>1, <1>4, Read, Lengths
  <2>2. Len(b.refilter) = Len(s.refilter) /\ Len(s.refilter) \in Nat
    BY <1>2, <1>4, Lengths
  <2>3. Cardinality(b.proc) = Cardinality(s.proc) /\ Cardinality(s.proc) \in Nat
    BY <1>2, <1>4, Read, SizeType
  <2>4. TodoHigh \in Nat /\ NJobs \in Nat
    BY ConfigAssumption
  <2>5. b.srcPend = "ANone"
    BY <1>2, <1>4
  <2>6. Len(b.fresh) <= TodoHigh
    BY <2>1, <2>4
  <2>7. Load(b) <= TodoHigh + NJobs
    <3> DEFINE x == Len(s.fresh)  y == Len(s.refilter)  z == Cardinality(s.proc)
    <3>1. x \in Nat /\ y \in Nat /\ z \in Nat /\ y + x + z < TodoHigh + NJobs
      BY <2>1, <2>2, <2>3 DEF Load
    <3>2. Load(b) = y + (x + 1) + z
      BY <2>1, <2>2, <2>3 DEF Load
    <3> HIDE DEF x, y, z
    <3> QED
      BY <2>4, <3>1, <3>2
  <2> QED
    BY <2>5, <2>6, <2>7 DEF Roomy
<1>6. InOrder(b) /\ Await(b) /\ Jobs(b) = Jobs(s)
  <2>1. Jobs(b) = Jobs(s)
    BY <1>2, <1>4 DEF Jobs
  <2>2. \A u \in Jobs(s) \cup {s.sfs} : b.stage[u] = s.stage[u]
    <3>1. \A u : u # t => b.stage[u] = s.stage[u]
      BY <1>2, <1>3, Read
    <3>2. t \notin Jobs(s) \cup {s.sfs}
      BY DEF Jobs
    <3> QED
      BY <3>1, <3>2
  <2>3. /\ b.proc = s.proc /\ b.killed = s.killed /\ b.nrun = s.nrun
        /\ b.abortOn = s.abortOn /\ b.killTasks = s.killTasks
        /\ b.crash = s.crash /\ b.failed = s.failed
        /\ b.sfs = s.sfs /\ b.sq = s.sq /\ b.dsmt = s.dsmt
        /\ b.load = s.load /\ b.poll = s.poll
        /\ b.tid0 = s.tid0 /\ b.quitStep = s.quitStep
    BY <1>2, <1>4
  <2>4. InOrder(b)
    BY <1>5, <2>1, <2>2, <2>3, OrderDepends
  <2> QED
    BY <2>1, <2>3, <2>4 DEF Await
<1>7. d \in Members /\ Orderly(b, d)
  BY <1>3, DontStartTyped, DontStartTame, TameOrder
<1> HIDE DEF d
<1>8. Orderly(d, CheckStartExchange(d))
  BY <1>7, CheckStartExchangeTyped, UnmovedIs, UnmovedTame, TameOrder
<1>9. Orderly(b, CheckStartTasks(b, lv))
  BY <1>3, CheckStartTasksTyped, CheckStartTasksTame, TameOrder
<1>10. TakeFreshTask(s, t, lv) = IF s.dsmt \/ Quitting(s)
                                 THEN CheckStartExchange(d)
                                 ELSE CheckStartTasks(b, lv)
  BY DEF TakeFreshTask, a, b, d
<1>11. TakeFreshTask(s, t, lv) \in Members
  BY TakeFreshTaskTyped
<1>12. Orderly(b, TakeFreshTask(s, t, lv))
  BY <1>7, <1>8, <1>9, <1>10, OrderlyTrans
<1> QED
  BY <1>6, <1>11, <1>12 DEF Orderly

\* The source hands out a task: it was asked for, so there is room.
LEMMA GotTaskOrderly ==
  ASSUME NEW s \in Members, Exchange(s), Sound(s), InOrder(s), Await(s),
         s.srcPend = "AGetTask", s.next \in Frames, NEW lv
  PROVE  Orderly(s, TSGotTask(SrcHandOut(s), s.next, lv))
<1> DEFINE h == SrcHandOut(s)
           a == Answered(h)
           t == s.next
           f == TakeFreshTask(a, t, lv)
<1>1. TSGotTask(SrcHandOut(s), s.next, lv) = GetOrDoneTask(f)
  BY DEF TSGotTask
<1>2. h \in Members /\ Unmoved(s, h)
  BY AnswersTyped, UnmovedIs
<1>3. h.srcPend = "ANone"
  BY DEF SrcHandOut, Members
<1> HIDE DEF h
<1>4. a \in Members /\ Unmoved(h, a)
  BY <1>2, AnsweredTyped, UnmovedIs
<1>5. a.srcPend = "ANone"
  BY <1>3 DEF Answered
<1> HIDE DEF a
<1>6. Unmoved(s, a)
  BY <1>2, <1>4, UnmovedTrans
<1>7. InOrder(a) /\ Await(a) /\ Jobs(a) \subseteq Jobs(s)
  BY <1>4, <1>6, UnmovedTame, TameOrder DEF Orderly
<1>8. a.job[t] = "none" /\ t # a.sfs
  <2>1. Places(s, t) = 0 /\ (t \in s.proc <=> s.job[t] # "none")
    <3>1. t >= s.next
      BY Read
    <3> QED
      BY <3>1 DEF Sound, Fine
  <2>2. t \notin s.proc /\ Count(s.refilter, t) = 0 /\ Count(s.fresh, t) = 0
    <3>1. /\ Count(s.refilter, t) \in Nat /\ Count(s.fresh, t) \in Nat
          /\ Count(s.done, t) \in Nat
      BY PlacesType
    <3> DEFINE x == Count(s.refilter, t)  y == Count(s.fresh, t)
               z == Count(s.done, t)      p == IF t \in s.proc THEN 1 ELSE 0
               q == IF t = s.srcDone THEN 1 ELSE 0
    <3>2. p \in Nat /\ q \in Nat /\ (t \in s.proc => p = 1)
      OBVIOUS
    <3>3. x + y + z + p + q = 0
      BY <2>1 DEF Places
    <3>a. x \in Nat /\ y \in Nat /\ z \in Nat
      BY <3>1
    <3> HIDE DEF x, y, z, p, q
    <3>4. x = 0 /\ y = 0 /\ p = 0
      BY <3>a, <3>2, <3>3
    <3> QED
      BY <3>2, <3>4 DEF x, y
  <2>3. t # s.sfs
    <3>1. t # NoTask
      BY FrameIsTask
    <3>2. s.sfs # NoTask => Count(s.refilter, s.sfs) > 0 \/ Count(s.fresh, s.sfs) > 0
      BY DEF Sound, Chosen
    <3> QED
      BY <2>2, <3>1, <3>2
  <2> QED
    BY <1>6, <2>1, <2>2, <2>3 DEF Unmoved
<1>9. Len(a.fresh) < TodoHigh /\ Load(a) < TodoHigh + NJobs
  BY <1>6 DEF InOrder, Steady, Roomy, Load, Unmoved
<1> HIDE DEF t
<1>10. f \in Members /\ InOrder(f) /\ Await(f) /\ Jobs(f) \subseteq Jobs(a)
  BY <1>4, <1>5, <1>7, <1>8, <1>9, TakeFreshOrder DEF t
<1> HIDE DEF f
<1>11. Orderly(f, GetOrDoneTask(f))
  BY <1>10, GetOrDoneTaskTyped, GetOrDoneTame, TameOrder
<1> QED
  BY <1>1, <1>7, <1>10, <1>11 DEF Orderly

\* The source takes a task back: it is neither a job nor scheduled for start.
LEMMA TookDoneOrderly ==
  ASSUME NEW s \in Members, Sound(s), InOrder(s), Await(s), s.srcDone # NoTask
  PROVE  Orderly(s, TSTookDone(SrcTakeBack(s)))
<1> DEFINE t == s.srcDone
           b == SrcTakeBack(s)
<1>1. t \in Frames /\ t \notin Jobs(s) /\ t # s.sfs
  <2>1. t \in Frames
    BY Read
  <2>2. Places(s, t) <= 1 /\ (t \in s.proc <=> s.job[t] # "none")
    BY <2>1 DEF Sound, Fine
  <2>3. t \notin s.proc
    BY <2>2, PlacesType DEF Places
  <2>4. t # s.sfs
    BY ScheduledWaits
  <2> QED
    BY <2>1, <2>2, <2>3, <2>4 DEF Jobs
<1>2. b \in Members
  BY TakeBackTyped
<1>3. b.stage = [s.stage EXCEPT ![t] = "TaskDone"]
  BY DEF SrcTakeBack, Members
<1>4. b.srcPend = "ANone"
  BY DEF SrcTakeBack, Members
<1>5. /\ b.refilter = s.refilter /\ b.proc = s.proc /\ b.fresh = s.fresh
      /\ b.job = s.job /\ b.killed = s.killed /\ b.nrun = s.nrun
      /\ b.abortOn = s.abortOn /\ b.killTasks = s.killTasks
      /\ b.crash = s.crash /\ b.failed = s.failed
      /\ b.sfs = s.sfs /\ b.sq = s.sq /\ b.dsmt = s.dsmt
      /\ b.load = s.load /\ b.poll = s.poll
      /\ b.tid0 = s.tid0 /\ b.quitStep = s.quitStep
  BY DEF SrcTakeBack
<1> HIDE DEF b
<1>6. InOrder(b) /\ Await(b) /\ Jobs(b) = Jobs(s)
  <2>1. Jobs(b) = Jobs(s)
    BY <1>5 DEF Jobs
  <2>2. \A u \in Jobs(s) \cup {s.sfs} : b.stage[u] = s.stage[u]
    <3>1. \A u : u # t => b.stage[u] = s.stage[u]
      BY <1>3, Read
    <3> QED
      BY <1>1, <3>1
  <2>3. Roomy(b)
    BY <1>4, <1>5 DEF InOrder, Steady, Roomy, Load
  <2>4. InOrder(b)
    BY <1>5, <2>1, <2>2, <2>3, OrderDepends
  <2> QED
    BY <1>5, <2>1, <2>4 DEF Await
<1>7. Orderly(b, TSTookDone(b))
  BY <1>2, AnswersTame, TSTookDoneTyped, TameOrder
<1> QED
  BY <1>6, <1>7 DEF Orderly, b

\* The exec of a job is noticed, or its time is up.
LEMMA JobNewsOrderly ==
  ASSUME NEW s \in Members, NEW t \in Frames, s.job[t] # "none",
         InOrder(s), Await(s), NEW lv
  PROVE  /\ Orderly(s, LaunchingTaskDone([s EXCEPT !.job[t] = "running"], lv))
         /\ Orderly(s, KillProcess(s, t, "Timeout"))
<1> DEFINE b == [s EXCEPT !.job[t] = "running"]
           c == CheckStartTasks(b, lv)
           k == [s EXCEPT !.killed[t] = "Timeout"]
<1> DEFINE Rest(x) ==
             /\ x.refilter = s.refilter /\ x.proc = s.proc /\ x.fresh = s.fresh
             /\ x.nrun = s.nrun /\ x.stage = s.stage
             /\ x.abortOn = s.abortOn /\ x.killTasks = s.killTasks
             /\ x.crash = s.crash /\ x.failed = s.failed
             /\ x.sfs = s.sfs /\ x.sq = s.sq /\ x.dsmt = s.dsmt
             /\ x.srcPend = s.srcPend /\ x.load = s.load /\ x.poll = s.poll
             /\ x.tid0 = s.tid0 /\ x.quitStep = s.quitStep
<1>1. ASSUME NEW x, Rest(x), Jobs(x) = Jobs(s),
             \A u \in Jobs(s) : x.killed[u] \in {s.killed[u], "Timeout"}
      PROVE  InOrder(x) /\ Await(x)
  <2>1. Roomy(x)
    BY <1>1 DEF InOrder, Steady, Roomy, Load
  <2>2. InOrder(x)
    BY <1>1, <2>1, OrderDepends
  <2> QED
    BY <1>1, <2>2 DEF Await
<1>2. b \in Members
  BY WriteAt
<1>3. k \in Members
  <2>1. "Timeout" \in Reasons
    BY DEF Reasons
  <2> QED
    BY <2>1, WriteAt
<1>4. b.job = [s.job EXCEPT ![t] = "running"]
  BY DEF Members
<1>5. k.killed = [s.killed EXCEPT ![t] = "Timeout"]
  BY DEF Members
<1>6. Rest(b) /\ b.killed = s.killed
  OBVIOUS
<1>7. Rest(k) /\ k.job = s.job
  OBVIOUS
<1> HIDE DEF b, k, Rest
<1>8. Jobs(b) = Jobs(s) /\ Jobs(k) = Jobs(s)
  <2>1. s.job \in [Frames -> {"none", "launched", "running"}]
    BY Read
  <2> QED
    BY <1>4, <1>7, <2>1 DEF Jobs
<1>9. InOrder(b) /\ Await(b)
  BY <1>1, <1>6, <1>8
<1>10. InOrder(k) /\ Await(k)
  <2>1. \A u \in Jobs(s) : k.killed[u] \in {s.killed[u], "Timeout"}
    BY <1>5, Read DEF Jobs
  <2> QED
    BY <1>1, <1>7, <1>8, <2>1
<1>11. c \in Members /\ Orderly(b, c)
  BY <1>2, CheckStartTasksTyped, CheckStartTasksTame, TameOrder
<1> HIDE DEF c
<1>12. Orderly(c, CheckStartExchange(c))
  BY <1>11, CheckStartExchangeTyped, UnmovedIs, UnmovedTame, TameOrder
<1>13. Orderly(s, CheckStartExchange(c))
  BY <1>8, <1>9, <1>11, <1>12 DEF Orderly
<1>14. Orderly(s, k)
  BY <1>8, <1>10 DEF Orderly
<1> QED
  BY <1>13, <1>14 DEF LaunchingTaskDone, KillProcess, b, c, k

----------------------------------------------------------------------------
(* Before the start, and on the way out *)

\* From s to r, on the way out, no task moves and nothing is asked for.
Frozen(s, r) ==
  /\ r.quitStep > 0
  /\ r.started = s.started /\ r.refilter = s.refilter /\ r.fresh = s.fresh
  /\ r.proc = s.proc /\ r.done = s.done /\ r.stage = s.stage
  /\ r.rtes = s.rtes /\ r.ftes = s.ftes /\ r.job = s.job
  /\ r.dead \subseteq s.dead /\ r.sfs = s.sfs /\ r.dsmt = s.dsmt
  /\ r.sq = s.sq /\ r.sqa = s.sqa /\ r.toldIf = s.toldIf /\ r.toldTs = s.toldTs
  /\ r.connected = s.connected /\ r.pending = s.pending
  /\ r.caught = s.caught /\ r.status = s.status
  /\ r.srcConn = s.srcConn /\ r.srcPend = s.srcPend /\ r.srcDone = s.srcDone
  /\ r.srcQuit = s.srcQuit /\ r.next = s.next

\* Once _ActuallyQuit() was called, only the countdown goes on.
LEMMA WayOut ==
  ASSUME TypeOK, ExchangeAgrees, [Next]_vars, tm.quitStep > 0
  PROVE  Frozen(tm, tm') /\ reported' = reported
<1>1. tm \in Members /\ tm.quitStep \in 0..5 /\ tm.srcPend = "ANone" /\ ~Up(tm)
  <2>1. tm \in Members
    BY DEF TypeOK
  <2> QED
    BY <2>1, Read DEF ExchangeAgrees, Up
<1>2. Frozen(tm, tm)
  BY DEF Frozen
<1>3. \A how : Frozen(tm, Die(tm, how))
  BY DEF Frozen, Die
<1>4. ~SourceAnswers
  BY <1>1 DEF SourceAnswers, SourceConnects, SourceHandsOut, SourceHasNoMore,
              SourceGetFails, SourceTakesBack, SourceDisconnects, SourceTurn
<1>5. CASE ManagerSchedules
  <2> DEFINE d == IF tm.quitStep = 2 THEN DestructCleanup(tm) ELSE tm
             n == d.quitStep + 1
  <2>1. tm' = [d EXCEPT !.quitStep = n]
    BY <1>5 DEF ManagerSchedules, Schedule, QuitCountdown
  <2>2. Frozen(tm, d) /\ d.quitStep = tm.quitStep
    BY DEF Frozen, DestructCleanup, Check, Die
  <2>3. d \in Members
    BY <1>1, DieTyped DEF DestructCleanup
  <2> HIDE DEF d
  <2>4. n > 0
    BY <1>1, <2>2
  <2> HIDE DEF n
  <2>5. tm'.quitStep = n
    BY <2>1, <2>3, Written
  <2>6. Frozen(tm, tm')
    BY <2>1, <2>2, <2>4, <2>5 DEF Frozen
  <2> QED
    BY <1>5, <2>6 DEF ManagerSchedules
<1>6. CASE RoundEnds
  <2> DEFINE a == [tm EXCEPT !.dead = {}]
  <2>1. \A lv : TidyUp(tm, lv) = a
    BY DEF TidyUp, CheckStartNewJobs
  <2>2. tm' = IF tm.dead = {} THEN tm ELSE a
    BY <1>6, <2>1 DEF RoundEnds
  <2>3. a.dead = {}
    BY <1>1, Written
  <2>4. Frozen(tm, a)
    BY <2>3 DEF Frozen
  <2> QED
    BY <1>2, <1>6, <2>2, <2>4 DEF RoundEnds
<1>7. CASE \E lv \in Readings : ManagerPollsLoad(lv)
  <2>1. PICK lv : tm' = LoadPoll(tm, lv)
    BY <1>7 DEF ManagerPollsLoad
  <2> QED
    BY <1>7, <2>1 DEF ManagerPollsLoad, Frozen, LoadPoll, DoCheckLoad, Check, Die,
                      ReSched
<1>8. ~\E t \in Frames : JobExecutes(t) \/ JobExecFails(t)
                         \/ JobEnds(t) \/ JobTimesOut(t)
  BY <1>1, JobMeansUp DEF JobExecutes, JobExecFails, JobEnds, JobTimesOut
<1>9. CASE User
  <2>1. tm' \in {Die(tm, "abort"), tm}
    BY <1>9 DEF User, UserInterrupts, UserTerminates, UserStops, UserContinues,
                SigInt, SigTerm, SigTstp, SigCont, OnSignal
  <2> QED
    BY <1>2, <1>3, <1>9, <2>1
       DEF User, UserInterrupts, UserTerminates, UserStops, UserContinues
<1>10. CASE Gone \/ UNCHANGED vars
  BY <1>2, <1>10 DEF Gone, vars
<1> QED
  BY <1>4, <1>5, <1>6, <1>7, <1>8, <1>9, <1>10 DEF Next, MainLoop

\* Going on to quit does not undo the start.
LEMMA GoOnStarted ==
  ASSUME NEW s PROVE GoOnQuitting(s).started = s.started
<1>1. TSDisconnect([s EXCEPT !.toldTs = TRUE], TRUE).started = s.started
  BY DEF TSDisconnect, Check, Die
<1>2. CheckStartExchange(s).started = s.started
  BY DEF CheckStartExchange, TSConnect, Check, Die
<1>3. GetOrDoneTask(s).started = s.started
  <2>1. GiveBackDone(s).started = s.started
    BY DEF GiveBackDone, TSDoneTask, Check, Die
  <2>2. GiveBackSpecial(s).started = s.started
    BY DEF GiveBackSpecial, TSDoneTask, Check, Die, Dequeue, KillScheduledForStart
  <2>3. TSGetTask([s EXCEPT !.tsgod = "AGetTask"]).started = s.started
    BY DEF TSGetTask, Check, Die
  <2>4. TSDisconnect([s EXCEPT !.tsgod = "ANone"], FALSE).started = s.started
    BY DEF TSDisconnect, Check, Die
  <2>5. \A r, c : Check(r, c).started = r.started
    BY DEF Check, Die
  <2> QED
    BY <2>1, <2>2, <2>3, <2>4, <2>5 DEF GetOrDoneTask
<1>4. /\ ReSched([s EXCEPT !.toldIf = TRUE]).started = s.started
      /\ ActuallyQuit(s, Largest(s.sq, s.sqa) - 1).started = s.started
  BY DEF ReSched, ActuallyQuit
<1> QED
  BY <1>1, <1>2, <1>3, <1>4, Zenon DEF GoOnQuitting

\* Nothing but _schedule() sets out on the way out.
LEMMA UpStays ==
  ASSUME TypeOK, ExchangeAgrees, [Next]_vars, Up(tm), ~ManagerSchedules
  PROVE  Up(tm')
<1>1. tm \in Members /\ Exchange(tm) /\ tm.started /\ tm.quitStep = 0
  BY AgreesMeansOrder DEF TypeOK, Up
<1>2. ASSUME Keeps(tm, tm') \/ Serves(tm, tm') PROVE Up(tm')
  BY <1>1, <1>2 DEF Keeps, Serves, Up
<1>3. CASE SourceAnswers
  <2>1. \A skips : SrcGetFails(tm, skips).quitStep = 0
    BY <1>1 DEF SrcGetFails
  <2>2. CASE SourceHandsOut
    <3>1. tm.next \in Frames
      BY <1>1, <2>2, Read, ConfigAssumption DEF SourceHandsOut, Frames
    <3>2. PICK lv : tm' = TSNotify(SrcHandOut(tm),
                                   TSGotTask(SrcHandOut(tm), tm.next, lv))
      BY <2>2 DEF SourceHandsOut
    <3>3. SrcHandOut(tm).quitStep = 0
      BY <1>1 DEF SrcHandOut
    <3>4. Up(TSGotTask(SrcHandOut(tm), tm.next, lv))
      BY <1>1, <2>2, <3>1, GotTaskInOrder DEF SourceHandsOut, SourceTurn
    <3> QED
      BY <3>2, <3>3, <3>4 DEF TSNotify, Up
  <2>3. CASE SourceGetFails
    <3>1. PICK skips \in BOOLEAN : tm' = TSNotify(SrcGetFails(tm, skips),
                                        TSGetFailed(SrcGetFails(tm, skips)))
      BY <2>3 DEF SourceGetFails
    <3>2. Up(TSGetFailed(SrcGetFails(tm, skips)))
      BY <1>1, <2>3, NoTaskInOrder DEF SourceGetFails, SourceTurn
    <3> QED
      BY <2>1, <3>1, <3>2 DEF TSNotify, Up
  <2>4. CASE SourceConnects
    <3>1. Up(TSConnected(SrcConnected(tm)))
      BY <1>1, <2>4, ConnectedInOrder DEF SourceConnects, SourceTurn
    <3>2. SrcConnected(tm).quitStep = 0
      BY <1>1 DEF SrcConnected
    <3> QED
      BY <2>4, <3>1, <3>2 DEF SourceConnects, TSNotify, Up
  <2>5. CASE SourceHasNoMore
    <3>1. Up(TSNoMoreTasks(SrcNoTask(tm)))
      BY <1>1, <2>5, NoTaskInOrder DEF SourceHasNoMore, SourceTurn
    <3>2. SrcNoTask(tm).quitStep = 0
      BY <1>1 DEF SrcNoTask
    <3> QED
      BY <2>5, <3>1, <3>2 DEF SourceHasNoMore, TSNotify, Up
  <2>6. CASE SourceTakesBack
    <3>1. Up(TSTookDone(SrcTakeBack(tm)))
      BY <1>1, <2>6, TookDoneInOrder DEF SourceTakesBack, SourceTurn
    <3>2. SrcTakeBack(tm).quitStep = 0
      BY <1>1 DEF SrcTakeBack
    <3> QED
      BY <2>6, <3>1, <3>2 DEF SourceTakesBack, TSNotify, Up
  <2>7. CASE SourceDisconnects
    <3>1. Up(TSDisconnected(SrcDisconnected(tm), tm.srcQuit))
      BY <1>1, <2>7, DisconnectedInOrder DEF SourceDisconnects, SourceTurn
    <3>2. SrcDisconnected(tm).quitStep = 0
      BY <1>1 DEF SrcDisconnected
    <3> QED
      BY <2>7, <3>1, <3>2 DEF SourceDisconnects, TSNotify, Up
  <2> QED
    BY <1>3, <2>2, <2>3, <2>4, <2>5, <2>6, <2>7 DEF SourceAnswers
<1>5. CASE RoundEnds
  BY <1>1, <1>2, <1>5, TidyUpKeeps DEF RoundEnds
<1>6. CASE \E lv \in Readings : ManagerPollsLoad(lv)
  BY <1>1, <1>2, <1>6, LoadPollKeeps DEF ManagerPollsLoad
<1>7. ASSUME NEW t \in Frames, JobExecutes(t) PROVE Up(tm')
  <2> DEFINE x == [tm EXCEPT !.job[t] = "running"]
  <2>1. PICK lv : tm' = LaunchingTaskDone(x, lv)
    BY <1>7 DEF JobExecutes
  <2>2. x \in Members /\ Up(x) /\ Exchange(x)
    <3>1. x \in Members
      BY <1>1, WriteAt
    <3>2. Exchange(x) /\ Up(x)
      BY <1>1 DEF Exchange, Quitting, Up
    <3> QED
      BY <3>1, <3>2
  <2> HIDE DEF x
  <2> QED
    BY <2>1, <2>2, LaunchingServes DEF Serves, Up
<1>8. ASSUME NEW t \in Frames, JobExecFails(t) \/ JobEnds(t) PROVE Up(tm')
  <2>1. PICK ok \in BOOLEAN, resume \in BOOLEAN, lv \in Readings :
          tm' = JobExited(tm, t, ok, resume, lv)
    BY <1>8 DEF JobExecFails, JobEnds
  <2>2. JobSucceeded(tm, t) \in Members /\ JobFailed(tm, t, resume) \in Members
    BY <1>1, JobSucceededTyped, JobFailedTyped
  <2>3. /\ Up(JobSucceeded(tm, t)) /\ Exchange(JobSucceeded(tm, t))
        /\ Up(JobFailed(tm, t, resume)) /\ Exchange(JobFailed(tm, t, resume))
    BY <1>1, JobGoneKeeps, KeepsOrder
  <2>4. /\ Up(HandleSuccessfulJob(JobSucceeded(tm, t), t, lv))
        /\ Up(HandleFailedTask(JobFailed(tm, t, resume), t, lv))
    BY <2>2, <2>3, SuccessServes, FailureServes DEF Serves
  <2> QED
    BY <2>1, <2>4 DEF JobExited, Up
<1>9. ASSUME NEW t \in Frames, JobTimesOut(t) PROVE Up(tm')
  BY <1>2, <1>9, Untouching, SameKeeps DEF JobTimesOut
<1>10. CASE User
  <2> DEFINE Both(s, r) == r.started = s.started /\ r.quitStep = s.quitStep
  <2>1. PICK lv : tm' \in {SigInt(tm), SigTerm(tm), SigTstp(tm), SigCont(tm, lv)}
    BY <1>10 DEF User, UserInterrupts, UserTerminates, UserStops, UserContinues
  <2>2. \A s : Both(s, CheckStartExchange(s))
    BY DEF CheckStartExchange, TSConnect, Check, Die
  <2>3. \A s \in Members : /\ Both(s, CheckStartTasks(s, lv))
                           /\ Both(s, ScheduleQuit(s))
                           /\ Both(s, ScheduleKill(s))
    BY CheckStartTasksKeeps, QuitKeeps DEF Keeps
  <2>4. \A s, how : Both(s, Die(s, how)) /\ Both(s, ReSched(s))
    BY DEF Die, ReSched
  <2>5. ScheduleQuit(tm) \in Members
    BY <1>1, ScheduleQuitTyped
  <2>6. Both(tm, SigInt(tm))
    <3> DEFINE p == [ScheduleQuit(tm) EXCEPT !.caught = 1]
               q == [ScheduleKill(tm) EXCEPT !.caught = 2]
    <3>1. Both(ScheduleQuit(tm), p) /\ Both(ScheduleKill(tm), q)
      OBVIOUS
    <3>2. SigInt(tm) \in {Die(tm, "abort"), Die(tm, "nullif"), ReSched(p), ReSched(q), tm}
      BY DEF SigInt, OnSignal
    <3>3. /\ Both(p, ReSched(p)) /\ Both(q, ReSched(q))
          /\ Both(tm, Die(tm, "abort")) /\ Both(tm, Die(tm, "nullif"))
      BY <2>4
    <3>4. Both(tm, p) /\ Both(tm, q)
      BY <1>1, <2>3, <3>1
    <3> HIDE DEF p, q
    <3> QED
      BY <3>2, <3>3, <3>4, Zenon
  <2>7. Both(tm, SigTerm(tm))
    BY <1>1, <2>3, <2>4, <2>5 DEF SigTerm, OnSignal
  <2>8. Both(tm, SigTstp(tm))
    BY <2>4 DEF SigTstp, OnSignal
  <2>9. Both(tm, SigCont(tm, lv))
    <3> DEFINE r == [tm EXCEPT !.stopped = FALSE]
               e == CheckStartExchange(r)
    <3>1. e \in Members /\ Both(tm, e)
      <4>1. r \in Members /\ Both(tm, r)
        <5>1. r \in Members
          BY <1>1, Write
        <5> QED
          BY <5>1
      <4> HIDE DEF r
      <4> QED
        BY <2>2, <4>1, CheckStartExchangeTyped
    <3>2. Both(tm, ReSched(CheckStartTasks(e, lv)))
      <4> HIDE DEF e
      <4> QED
        BY <2>3, <2>4, <3>1
    <3> QED
      BY <2>4, <3>2 DEF SigCont, OnSignal
  <2> QED
    BY <1>1, <2>1, <2>6, <2>7, <2>8, <2>9 DEF Up
<1>11. CASE Gone \/ UNCHANGED vars
  BY <1>1, <1>11 DEF Gone, vars
<1> QED
  BY <1>3, <1>5, <1>6, <1>7, <1>8, <1>9, <1>10, <1>11
     DEF Next, MainLoop

\* Nor does anything else undo the start.
LEMMA StartedStays ==
  ASSUME TypeOK, ExchangeAgrees, [Next]_vars, Up(tm)
  PROVE  tm'.started
<1>1. tm \in Members /\ Exchange(tm) /\ tm.started /\ tm.quitStep = 0
  BY AgreesMeansOrder DEF TypeOK, Up
<1>4. CASE ManagerSchedules
  <2>1. PICK lv, forked : tm' = Schedule(tm, forked, lv)
    BY <1>4 DEF ManagerSchedules
  <2> DEFINE a == [tm EXCEPT !.tid0 = FALSE]
             k == KillJobs(a)
             l == LaunchScheduled(k, forked, lv)
  <2>2. tm' = GoOnQuitting(l)
    BY <1>1, <2>1 DEF Schedule
  <2>3. a \in Members /\ Up(a) /\ Exchange(a)
    <3>1. a \in Members
      BY <1>1, Write
    <3>2. Up(a)
      BY <1>1 DEF Up
    <3>3. Exchange(a)
      BY <1>1 DEF Exchange, Quitting, Jobs
    <3> QED
      BY <3>1, <3>2, <3>3
  <2> HIDE DEF a
  <2>4. k \in Members /\ Up(k) /\ Exchange(k)
    <3>1. Keeps(a, k)
      BY Untouching, SameKeeps
    <3> QED
      BY <2>3, <3>1, KillJobsTyped, KeepsOrder
  <2> HIDE DEF k
  <2>5. Up(l)
    BY <2>4, LaunchServes DEF Serves
  <2> QED
    BY <2>2, <2>5, GoOnStarted DEF Up
<1> QED
  BY <1>4, UpStays DEF Up

\* Before _StartProcessing() only a signal can change the members, and that is
\* the end of the program.
LEMMA FirstStep ==
  ASSUME TypeOK, Unstarted(tm), ~tm.started, [Next]_vars
  PROVE  IF ManagerSchedules THEN tm' = StartProcessing(Fresh)
         ELSE tm' = Fresh \/ tm' = [Fresh EXCEPT !.crash = "nullif"]
<1>1. tm \in Members
  BY DEF TypeOK
<1>2. tm = Fresh \/ tm = [Fresh EXCEPT !.crash = "nullif"]
  BY DEF Unstarted
<1>3. /\ tm.quitStep = 0 /\ tm.srcPend = "ANone" /\ ~tm.poll
      /\ tm.dead = {} /\ ~tm.abortOn /\ \A t \in Frames : tm.job[t] = "none"
  BY <1>2 DEF Fresh
<1>4. tm.crash = "none" => tm = Fresh
  BY <1>2 DEF Fresh
<1>5. ~SourceAnswers
  BY <1>3 DEF SourceAnswers, SourceConnects, SourceHandsOut, SourceHasNoMore,
              SourceGetFails, SourceTakesBack, SourceDisconnects, SourceTurn
<1>6. CASE ManagerSchedules
  <2>1. tm' = StartProcessing(tm)
    BY <1>3, <1>6 DEF ManagerSchedules, Schedule
  <2>2. tm = Fresh
    BY <1>4, <1>6 DEF ManagerSchedules, Running, Alive
  <2> QED
    BY <1>6, <2>1, <2>2
<1>7. CASE ~ManagerSchedules
  <2>1. CASE RoundEnds
    BY <1>2, <1>3, <1>7, <2>1 DEF RoundEnds
  <2>2. ~\E lv \in Readings : ManagerPollsLoad(lv)
    BY <1>3 DEF ManagerPollsLoad
  <2>3. ~\E t \in Frames : JobExecutes(t) \/ JobExecFails(t)
                           \/ JobEnds(t) \/ JobTimesOut(t)
    BY <1>3 DEF JobExecutes, JobExecFails, JobEnds, JobTimesOut
  <2>4. CASE User
    <3>1. tm' = Die(tm, "nullif") /\ tm.crash = "none"
      BY <1>3, <2>4 DEF User, UserInterrupts, UserTerminates, UserStops,
         UserContinues, SigInt, SigTerm, SigTstp, SigCont, OnSignal, Alive
    <3> QED
      BY <1>4, <1>7, <3>1 DEF Die
  <2>5. CASE Gone \/ UNCHANGED vars
    BY <1>2, <1>7, <2>5 DEF Gone, vars
  <2> QED
    BY <1>5, <1>7, <2>1, <2>2, <2>3, <2>4, <2>5 DEF Next, MainLoop
<1> QED
  BY <1>6, <1>7

\* So they are as constructed until the program is started.
LEMMA UnstartedStep ==
  ASSUME TypeOK, ExchangeAgrees, Unstarted(tm), [Next]_vars
  PROVE  Unstarted(tm')
<1>1. tm \in Members
  BY DEF TypeOK
<1>2. CASE tm.started /\ tm.quitStep = 0
  BY <1>2, StartedStays DEF Up, Unstarted
<1>3. CASE tm.started /\ tm.quitStep # 0
  <2>1. tm.quitStep > 0
    BY <1>1, <1>3, Read
  <2> QED
    BY <1>3, <2>1, WayOut DEF Frozen, Unstarted
<1>4. CASE ~tm.started
  <2>1. StartProcessing(Fresh).started
    <3> DEFINE r == [Fresh EXCEPT !.tid0 = FALSE, !.started = TRUE]
    <3>1. r.started
      BY DEF Fresh
    <3> HIDE DEF r
    <3>2. TSConnect(r).started /\ ActuallyQuit(r, 0).started
      BY <3>1 DEF TSConnect, Check, Die, ActuallyQuit, ReSched
    <3> QED
      BY <3>2 DEF StartProcessing, r
  <2> QED
    BY <1>4, <2>1, FirstStep DEF Unstarted
<1> QED
  BY <1>2, <1>3, <1>4

----------------------------------------------------------------------------
(* The invariant *)

\* What keeps the jobs in order, whatever happens: they are, the scheduled start
\* is awaited, and before the start there is nothing.
RunsWell == JobsInOrder /\ StartAwaited /\ NotYetStarted

LEMMA RunsWellInit == Init => RunsWell
<1> SUFFICES ASSUME Init PROVE RunsWell
  OBVIOUS
<1>1. tm = Fresh
  BY DEF Init
<1>2. InOrder(Fresh) /\ Await(Fresh)
  <2>1. /\ Fresh.proc = {} /\ Fresh.abortOn = FALSE /\ Fresh.fresh = <<>>
        /\ Fresh.refilter = <<>> /\ Fresh.sfs = NoTask /\ Fresh.srcPend = "ANone"
        /\ Fresh.failed = 0 /\ Fresh.poll = FALSE
    BY DEF Fresh
  <2> QED
    BY <2>1, FreshOrder
<1>3. Unstarted(Fresh)
  BY DEF Unstarted
<1> QED
  BY <1>1, <1>2, <1>3 DEF RunsWell, JobsInOrder, StartAwaited, NotYetStarted

\* The answers of the source.
LEMMA AnswersOrderly ==
  ASSUME TypeOK, ExchangeAgrees, InHand, JobsInOrder, StartAwaited, SourceAnswers
  PROVE  Orderly(tm, tm')
<1> DEFINE c == SrcConnected(tm)
           n == SrcNoTask(tm)
           d == SrcDisconnected(tm)
           h == SrcHandOut(tm)
           b == SrcTakeBack(tm)
<1>1. /\ tm \in Members /\ Exchange(tm) /\ Sound(tm)
      /\ InOrder(tm) /\ Await(tm)
  BY AgreesMeansOrder DEF TypeOK, InHand, JobsInOrder, StartAwaited
<1>2. tm.srcPend # "ANone"
  BY <1>1 DEF SourceAnswers, SourceConnects, SourceHandsOut, SourceHasNoMore,
              SourceGetFails, SourceTakesBack, SourceDisconnects, SourceTurn
<1>3. /\ c.quitStep = tm.quitStep /\ n.quitStep = tm.quitStep
      /\ d.quitStep = tm.quitStep /\ h.quitStep = tm.quitStep
      /\ b.quitStep = tm.quitStep
      /\ \A skips : SrcGetFails(tm, skips).quitStep = tm.quitStep
  BY DEF SrcConnected, SrcNoTask, SrcDisconnected, SrcHandOut, SrcTakeBack,
         SrcGetFails
<1>4. ASSUME NEW a \in Members, Unmoved(tm, a), NEW r \in Members, Tame(a, r)
      PROVE  Orderly(tm, r)
  <2>1. Orderly(tm, a) /\ Orderly(a, r)
    BY <1>1, <1>4, UnmovedTame, TameOrder
  <2> QED
    BY <2>1, OrderlyTrans
<1>5. CASE SourceConnects
  <2>1. tm' = TSConnected(c)
    BY <1>2, <1>3, <1>5, AnswerIsHandled DEF SourceConnects
  <2>2. c \in Members /\ Unmoved(tm, c)
    BY <1>1, AnswersTyped, UnmovedIs
  <2> HIDE DEF c
  <2> QED
    BY <1>4, <2>1, <2>2, AnswersTame, TSConnectedTyped
<1>6. CASE SourceHandsOut
  <2>1. PICK lv : tm' = TSNotify(h, TSGotTask(h, tm.next, lv))
    BY <1>6 DEF SourceHandsOut
  <2>2. tm.next \in Frames
    BY <1>1, <1>6, Read, ConfigAssumption DEF SourceHandsOut, Frames
  <2>3. tm' = TSGotTask(h, tm.next, lv)
    BY <1>2, <1>3, <2>1, AnswerIsHandled
  <2> QED
    BY <1>1, <1>6, <2>2, <2>3, GotTaskOrderly DEF SourceHandsOut, SourceTurn
<1>7. CASE SourceHasNoMore
  <2>1. tm' = TSNoMoreTasks(n)
    BY <1>2, <1>3, <1>7, AnswerIsHandled DEF SourceHasNoMore
  <2>2. n \in Members /\ Unmoved(tm, n)
    BY <1>1, AnswersTyped, UnmovedIs
  <2> HIDE DEF n
  <2> QED
    BY <1>4, <2>1, <2>2, AnswersTame, TSNoMoreTasksTyped
<1>8. CASE SourceGetFails
  <2>1. PICK skips \in BOOLEAN : tm' = TSNotify(SrcGetFails(tm, skips),
                                       TSGetFailed(SrcGetFails(tm, skips)))
    BY <1>8 DEF SourceGetFails
  <2> DEFINE g == SrcGetFails(tm, skips)
  <2>2. tm' = TSGetFailed(g)
    BY <1>2, <1>3, <2>1, AnswerIsHandled
  <2>3. g \in Members /\ Unmoved(tm, g)
    BY <1>1, AnswersTyped, UnmovedIs
  <2> HIDE DEF g
  <2> QED
    BY <1>4, <2>2, <2>3, AnswersTame, TSGetFailedTyped
<1>9. CASE SourceTakesBack
  <2>1. tm' = TSTookDone(b)
    BY <1>2, <1>3, <1>9, AnswerIsHandled DEF SourceTakesBack
  <2>2. tm.srcDone # NoTask
    BY <1>1, <1>9 DEF Exchange, SourceTakesBack, SourceTurn
  <2> QED
    BY <1>1, <2>1, <2>2, TookDoneOrderly
<1>10. CASE SourceDisconnects
  <2>1. tm' = TSDisconnected(d, tm.srcQuit)
    BY <1>2, <1>3, <1>10, AnswerIsHandled DEF SourceDisconnects
  <2>2. d \in Members /\ Unmoved(tm, d)
    BY <1>1, AnswersTyped, UnmovedIs
  <2> HIDE DEF d
  <2> QED
    BY <1>4, <2>1, <2>2, AnswersTame, TSDisconnectedTyped
<1> QED
  BY <1>5, <1>6, <1>7, <1>8, <1>9, <1>10 DEF SourceAnswers

\* No step disturbs the order, and only the scheduled task becomes a job.
LEMMA OrderStep ==
  ASSUME TypeOK, ExchangeAgrees, InHand, RunsWell, [Next]_vars
  PROVE  /\ InOrder(tm') /\ Await(tm')
         /\ Jobs(tm') \subseteq Jobs(tm) \cup {tm.sfs}
<1>1. /\ tm \in Members /\ Exchange(tm) /\ Sound(tm)
      /\ InOrder(tm) /\ Await(tm) /\ Unstarted(tm)
  BY AgreesMeansOrder
     DEF TypeOK, InHand, RunsWell, JobsInOrder, StartAwaited, NotYetStarted
<1> DEFINE Done == /\ InOrder(tm') /\ Await(tm')
                   /\ Jobs(tm') \subseteq Jobs(tm) \cup {tm.sfs}
<1>2. ASSUME Orderly(tm, tm') PROVE Done
  BY <1>1, <1>2 DEF Orderly
<1>3. Orderly(tm, tm)
  BY DEF Orderly
<1>4. CASE SourceAnswers
  BY <1>2, <1>4, AnswersOrderly DEF RunsWell
<1>5. CASE ManagerSchedules
  <2>1. PICK lv, forked : tm' = Schedule(tm, forked, lv)
    BY <1>5 DEF ManagerSchedules
  <2>2. CASE tm.quitStep > 0
    <3>1. tm.quitStep < 5
      BY <1>5 DEF ManagerSchedules, Running, Alive
    <3>2. tm' = QuitCountdown(tm)
      BY <2>1, <2>2 DEF Schedule
    <3> QED
      BY <1>1, <1>2, <2>2, <3>1, <3>2, CountdownTame, QuitCountdownTyped, TameOrder
  <2>3. CASE tm.quitStep = 0 /\ ~tm.started
    <3>1. tm' = StartProcessing(tm)
      BY <2>1, <2>3 DEF Schedule
    <3>2. tm = Fresh
      <4>1. tm.crash = "none"
        BY <1>5 DEF ManagerSchedules, Running, Alive
      <4> QED
        BY <1>1, <2>3, <4>1 DEF Unstarted, Fresh
    <3>3. InOrder(tm') /\ Await(tm') /\ Jobs(tm') = {}
      BY <3>1, <3>2, StartOrder
    <3> QED
      BY <3>3
  <2>4. CASE tm.quitStep = 0 /\ tm.started
    BY <1>1, <2>1, <2>4, ScheduleOrder DEF Up
  <2> QED
    BY <1>1, <2>2, <2>3, <2>4, Read
<1>6. CASE RoundEnds
  <2>1. PICK lv \in Readings : tm' = IF tm.dead = {} THEN tm ELSE TidyUp(tm, lv)
    BY <1>6 DEF RoundEnds
  <2>2. Orderly(tm, TidyUp(tm, lv))
    BY <1>1, TidyUpTyped, TidyUpTame, TameOrder
  <2>3. Orderly(tm, tm')
    BY <1>3, <2>1, <2>2, Zenon
  <2> QED
    BY <1>2, <2>3
<1>7. CASE \E lv \in Readings : ManagerPollsLoad(lv)
  <2>1. PICK lv : tm' = LoadPoll(tm, lv) /\ tm.poll
    BY <1>7 DEF ManagerPollsLoad
  <2> QED
    BY <1>1, <1>2, <2>1, LoadPollTyped, LoadPollTame, TameOrder
<1>8. ASSUME NEW t \in Frames,
             JobExecutes(t) \/ JobExecFails(t) \/ JobEnds(t) \/ JobTimesOut(t)
      PROVE  Done
  <2>1. tm.job[t] # "none"
    BY <1>8 DEF JobExecutes, JobExecFails, JobEnds, JobTimesOut
  <2>2. tm.quitStep = 0 /\ t \in tm.proc /\ t \in Jobs(tm)
    BY <1>1, <2>1, JobMeansUp DEF Sound, Fine, Jobs, Up
  <2>3. t # tm.sfs
    <3>1. t # NoTask
      BY FrameIsTask
    <3> QED
      BY <1>1, <2>2, <3>1, ScheduledWaits
  <2>4. CASE JobExecutes(t)
    <3>1. PICK lv : tm' = LaunchingTaskDone([tm EXCEPT !.job[t] = "running"], lv)
      BY <2>4 DEF JobExecutes
    <3> QED
      BY <1>1, <1>2, <2>1, <3>1, JobNewsOrderly
  <2>5. CASE JobExecFails(t) \/ JobEnds(t)
    <3>1. PICK ok \in BOOLEAN, resume \in BOOLEAN, lv \in Readings :
            tm' = JobExited(tm, t, ok, resume, lv)
      BY <2>5 DEF JobExecFails, JobEnds
    <3> QED
      BY <1>1, <1>2, <2>2, <2>3, <3>1, JobExitedOrderly
  <2>6. CASE JobTimesOut(t)
    BY <1>1, <1>2, <2>1, <2>6, JobNewsOrderly DEF JobTimesOut
  <2> QED
    BY <1>8, <2>4, <2>5, <2>6
<1>9. CASE User
  <2>1. PICK lv : tm' \in {SigInt(tm), SigTerm(tm), SigTstp(tm), SigCont(tm, lv)}
    BY <1>9 DEF User, UserInterrupts, UserTerminates, UserStops, UserContinues
  <2> QED
    BY <1>1, <1>2, <2>1, SignalsOrderly
<1>10. CASE Gone \/ UNCHANGED vars
  BY <1>2, <1>3, <1>10 DEF Gone, vars
<1> QED
  BY <1>4, <1>5, <1>6, <1>7, <1>8, <1>9, <1>10 DEF Next, MainLoop

LEMMA RunsWellStep ==
  TypeOK /\ ExchangeAgrees /\ InHand /\ RunsWell /\ [Next]_vars => RunsWell'
<1> SUFFICES ASSUME TypeOK, ExchangeAgrees, InHand, RunsWell, [Next]_vars
             PROVE  RunsWell'
  OBVIOUS
<1>1. Unstarted(tm')
  BY UnstartedStep DEF RunsWell, NotYetStarted
<1> QED
  BY <1>1, OrderStep
     DEF RunsWell, JobsInOrder, StartAwaited, NotYetStarted

----------------------------------------------------------------------------
(* The theorems *)

\* In every run the jobs are in order and the scheduled start is awaited.
THEOREM RunsWellHolds == Spec => []RunsWell
<1> QED
  BY RunsWellInit, RunsWellStep, RendViewTyped, ExchangeHolds, InHandHolds, PTL
     DEF Spec

\* running_jobs[] counts the jobs, proc lists them, and neither the limits on
\* parallel jobs nor that on todo are exceeded (GetTaskToStart(),
\* _TS_GetOrDoneTask()).
THEOREM JobAccountingHolds == Spec => []JobAccounting
<1>1. TypeOK /\ RunsWell => JobAccounting
  <2> SUFFICES ASSUME TypeOK, RunsWell PROVE JobAccounting
    OBVIOUS
  <2>1. tm \in Members /\ Counted(tm) /\ Limited(tm) /\ Roomy(tm)
    BY DEF TypeOK, RunsWell, JobsInOrder, InOrder, Steady
  <2>2. TodoBounded
    BY <2>1, Lengths DEF TodoBounded, Roomy, Load
  <2> QED
    BY <2>1, <2>2 DEF JobAccounting, Counted, Limited, Ones
<1> QED
  BY <1>1, RunsWellHolds, RendViewTyped, PTL

\* Once MaxFailed jobs in sequence have failed, HandleFailedTask() has stopped
\* all starts and scheduled quit; only the jobs that were running then can
\* still add to the failures.
THEOREM FailureLimitHolds == Spec => []FailureLimitStops
<1>1. RunsWell => FailureLimitStops
  BY DEF RunsWell, JobsInOrder, InOrder, Enough, FailureLimitStops
<1> QED
  BY <1>1, RunsWellHolds, PTL

\* The order to kill (TermAllJobs() in _schedule()) reaches every job there is,
\* and no job is started after it.
THEOREM KillReachesHolds == Spec => []KillReachesAllJobs
<1>1. RunsWell => KillReachesAllJobs
  BY DEF RunsWell, JobsInOrder, InOrder, Steady, Killing, KillReachesAllJobs
<1> QED
  BY <1>1, RunsWellHolds, PTL

\* A task that is scheduled for start is not forgotten: the schedule timer is
\* armed or the load is polled, whatever the load readings.
THEOREM ScheduledStartHolds == Spec => []ScheduledStartIsAwaited
<1>1. RunsWell => ScheduledStartIsAwaited
  BY DEF RunsWell, StartAwaited, Await, ScheduledStartIsAwaited
<1> QED
  BY <1>1, RunsWellHolds, PTL

\* What is launched is the scheduled task, which waits in todo.
LEMMA LaunchedWasScheduled ==
  ASSUME TypeOK, ExchangeAgrees, InHand, RunsWell, [Next]_vars,
         NEW t \in Frames, Launches(t)
  PROVE  /\ t = tm.sfs /\ ~tm.dsmt
         /\ t \in InSeq(tm.refilter) \/ t \in InSeq(tm.fresh)
         /\ tm.sq > 0 => t \in InSeq(tm.refilter)
         /\ t \in InSeq(tm.refilter) => Rendered(tm, t)
         /\ t \in InSeq(tm.fresh) => Untouched(tm, t)
<1>1. tm \in Members /\ Sound(tm)
  BY DEF TypeOK, InHand
<1>2. t = tm.sfs
  BY OrderStep DEF Launches, Jobs
<1>3. tm.sfs # NoTask
  BY <1>2, FrameIsTask
<1>4. tm.refilter \in Seq(Frames) /\ tm.fresh \in Seq(Frames)
  BY <1>1, Read
<1>5. /\ Count(tm.refilter, t) > 0 <=> t \in InSeq(tm.refilter)
      /\ Count(tm.fresh, t) > 0 <=> t \in InSeq(tm.fresh)
  BY <1>4, CountType
<1>6. Fine(tm, t)
  BY <1>1 DEF Sound
<1> QED
  BY <1>1, <1>2, <1>3, <1>5, <1>6, ScheduledWaits DEF Fine

\* With quit scheduled only rendered tasks are still started, and none with
\* dont_start_more_tasks set: LaunchScheduled() starts what GetTaskToStart()
\* chose earlier, and every way to schedule quit in between takes that back.
THEOREM NoNewJobsHolds == Spec => NoNewJobsWhenQuitting
<1>1. TypeOK /\ ExchangeAgrees /\ InHand /\ RunsWell /\ [Next]_vars
        => [\A t \in Frames : Launches(t) =>
              ~tm.dsmt /\ (tm.sq > 0 => t \in InSeq(tm.refilter))]_vars
  <2> SUFFICES ASSUME TypeOK, ExchangeAgrees, InHand, RunsWell, [Next]_vars,
                      NEW t \in Frames, Launches(t)
               PROVE  ~tm.dsmt /\ (tm.sq > 0 => t \in InSeq(tm.refilter))
    OBVIOUS
  <2> QED
    BY LaunchedWasScheduled
<1> QED
  BY <1>1, RunsWellHolds, RendViewTyped, ExchangeHolds, InHandHolds, PTL
     DEF Spec, NoNewJobsWhenQuitting

\* No part of a task is run twice, and none is filtered that was not rendered
\* as it should be (GetTaskToStart(), HandleSuccessfulJob()).
THEOREM PartsRunOnceHolds == Spec => PartsRunOnceInOrder
<1>1. TypeOK /\ ExchangeAgrees /\ InHand /\ RunsWell /\ [Next]_vars
        => [\A t \in Frames : Launches(t) =>
              IF KindOf(tm, t) = "Render" THEN tm.rtes[t] = Unset
              ELSE /\ tm.ftes[t] = Unset
                   /\ t \in RenderFrames => tm.rtes[t].end = "Success"]_vars
  <2> SUFFICES ASSUME TypeOK, ExchangeAgrees, InHand, RunsWell, [Next]_vars,
                      NEW t \in Frames, Launches(t)
               PROVE  IF KindOf(tm, t) = "Render" THEN tm.rtes[t] = Unset
                      ELSE /\ tm.ftes[t] = Unset
                           /\ t \in RenderFrames => tm.rtes[t].end = "Success"
    OBVIOUS
  <2>1. Rendered(tm, t) \/ Untouched(tm, t)
    BY LaunchedWasScheduled
  <2> QED
    BY <2>1 DEF Rendered, Untouched, KindOf
<1> QED
  BY <1>1, RunsWellHolds, RendViewTyped, ExchangeHolds, InHandHolds, PTL
     DEF Spec, PartsRunOnceInOrder

----------------------------------------------------------------------------
(***************************************************************************)
(* How RendView comes to its end, for every configuration: no assertion     *)
(* fails on the way (NoAssertionFails), nothing is left behind (CleanExit), *)
(* and status 0 says that every frame was worked on                        *)
(* (StatusZeroMeansAllWorkedOn).                                            *)
(***************************************************************************)

\* Until _schedule() tells the source to quit: the last word to the source is
\* still to be said, and a connection that is being closed is still open.
Talking(s) ==
  /\ ~s.toldTs /\ s.crash # "assert"
  /\ s.srcPend = "ADisconnect" => s.connected /\ ~s.srcQuit

\* From then on: nothing is left to do, and nothing is asked for any more.
Void(s) ==
  /\ s.refilter = <<>> /\ s.fresh = <<>> /\ s.done = <<>> /\ s.proc = {}
  /\ ~AreThereJobsRunning(s) /\ s.sfs = NoTask
Told(s) ==
  /\ s.toldTs /\ s.crash # "assert"
  /\ Void(s) /\ Quitting(s) /\ ~s.connected
  /\ s.srcPend # "ANone" => s.srcPend = "ADisconnect" /\ s.srcQuit

LastWords == Talking(tm) \/ Told(tm)

\* Nobody interrupted the run, and no error ended it so far.
Plain(s) == s.caught = 0 /\ s.sq <= 1 /\ s.sqa <= 1

\* Task t was worked on to its end, be that success or failure.
Worked(s, t) ==
  \/ s.stage[t] = "TaskDone"
  \/ s.rtes[t].end = "Failed" \/ s.ftes[t].end = "Failed"

\* Then quit is only scheduled when the source has no more tasks, no task is
\* given up, and what goes back was worked on.
Straight(s) ==
  /\ ~s.dsmt
  /\ s.sq = 1 => s.sqa = 1 /\ s.fresh = <<>>
  /\ s.sqa = 1 => s.next > NFrames /\ s.srcPend # "AGetTask"
  /\ \A t \in Frames : Count(s.done, t) > 0 \/ t = s.srcDone => Worked(s, t)
Honest(s) == Plain(s) => Straight(s)

HonestSoFar == Honest(tm)
GoodVerdicts == {"no", "complete", "unrendered", "unfiltered", "skipped"}
HonestReports == Plain(tm) => \A t \in Frames : reported[t] \in GoodVerdicts

\* The status tells which quit was scheduled.
StatusIsSchedule ==
  tm.quitStep > 0 => Quitting(tm) /\ tm.status = Largest(tm.sq, tm.sqa) - 1

----------------------------------------------------------------------------
(* The way out *)

\* The first thing the program does is to connect, so it is not over at once.
LEMMA StartConnects ==
  LET r == [Fresh EXCEPT !.tid0 = FALSE, !.started = TRUE]
  IN  /\ r \in Members /\ Exchange(r) /\ Up(r) /\ ~r.toldTs /\ Talking(r)
      /\ StartProcessing(Fresh) = TSConnect(r)
<1> DEFINE r == [Fresh EXCEPT !.tid0 = FALSE, !.started = TRUE]
<1>1. r \in Members
  BY FreshTyped, Write
<1>2. /\ r.started /\ r.quitStep = 0 /\ ~r.connected /\ r.connected = r.srcConn
      /\ r.srcPend = "ANone" /\ r.pending = "ANone" /\ r.srcDone = NoTask
      /\ ~r.toldTs /\ r.crash = "none"
      /\ r.refilter = <<>> /\ r.fresh = <<>> /\ ~r.dsmt /\ r.sq = 0 /\ r.sqa = 0
  BY DEF Fresh
<1> HIDE DEF r
<1>3. Len(Todo(r)) = 0
  <2>1. Todo(r) = <<>>
    BY <1>2 DEF Todo
  <2> QED
    BY <2>1
<1>4. MustConnect(r)
  BY <1>2, <1>3, ConfigAssumption DEF MustConnect, Quitting
<1>5. StartProcessing(Fresh) = TSConnect(r)
  BY <1>4 DEF StartProcessing, r
<1>6. Exchange(r) /\ Up(r) /\ Talking(r)
  <2>1. Exchange(r)
    BY <1>2 DEF Exchange
  <2> QED
    BY <1>2, <2>1 DEF Up, Talking
<1> QED
  BY <1>1, <1>2, <1>5, <1>6 DEF r

\* _schedule() sets out only when MayQuit() and the source was told.
LEMMA GoOnQuits ==
  ASSUME NEW s \in Members, Up(s), GoOnQuitting(s).quitStep # 0
  PROVE  /\ Quitting(s) /\ MayQuit(s) /\ s.toldTs
         /\ GoOnQuitting(s) = ActuallyQuit(s, Largest(s.sq, s.sqa) - 1)
<1>1. TSDisconnect([s EXCEPT !.toldTs = TRUE], TRUE).quitStep = s.quitStep
  BY DEF TSDisconnect, Check, Die
<1>2. CheckStartExchange(s).quitStep = s.quitStep
  BY DEF CheckStartExchange, TSConnect, Check, Die
<1>3. GetOrDoneTask(s).quitStep = s.quitStep
  <2>1. GiveBackDone(s).quitStep = s.quitStep
    BY DEF GiveBackDone, TSDoneTask, Check, Die
  <2>2. GiveBackSpecial(s).quitStep = s.quitStep
    BY DEF GiveBackSpecial, TSDoneTask, Check, Die, Dequeue, KillScheduledForStart
  <2>3. TSGetTask([s EXCEPT !.tsgod = "AGetTask"]).quitStep = s.quitStep
    BY DEF TSGetTask, Check, Die
  <2>4. TSDisconnect([s EXCEPT !.tsgod = "ANone"], FALSE).quitStep = s.quitStep
    BY DEF TSDisconnect, Check, Die
  <2>5. \A r, c : Check(r, c).quitStep = r.quitStep
    BY DEF Check, Die
  <2> QED
    BY <2>1, <2>2, <2>3, <2>4, <2>5 DEF GetOrDoneTask
<1>4. ReSched([s EXCEPT !.toldIf = TRUE]).quitStep = s.quitStep
  BY DEF ReSched
<1>5. s.quitStep = 0
  BY DEF Up
<1> QED
  BY <1>1, <1>2, <1>3, <1>4, <1>5, Zenon DEF GoOnQuitting

\* The members when _schedule() goes on to quit.
AtQuit(s, forked, lv) ==
  LaunchScheduled(KillJobs([s EXCEPT !.tid0 = FALSE]), forked, lv)
LEMMA ScheduleGoesOn ==
  ASSUME NEW s \in Members, Up(s), Exchange(s), NEW forked, NEW lv
  PROVE  LET k == KillJobs([s EXCEPT !.tid0 = FALSE])
             l == AtQuit(s, forked, lv)
         IN  /\ k \in Members /\ Up(k) /\ Exchange(k)
             /\ l \in Members /\ Up(l) /\ Exchange(l)
             /\ Schedule(s, forked, lv) = GoOnQuitting(l)
<1> DEFINE a == [s EXCEPT !.tid0 = FALSE]
           k == KillJobs(a)
           l == AtQuit(s, forked, lv)
<1>1. Schedule(s, forked, lv) = GoOnQuitting(l)
  BY DEF Schedule, AtQuit, Up
<1>2. a \in Members /\ Up(a) /\ Exchange(a)
  <2>1. a \in Members
    BY Write
  <2>2. Up(a)
    BY DEF Up
  <2>3. Exchange(a)
    BY DEF Exchange, Quitting, Jobs
  <2> QED
    BY <2>1, <2>2, <2>3
<1> HIDE DEF a
<1>3. k \in Members /\ Up(k) /\ Exchange(k)
  <2>1. Keeps(a, k)
    BY Untouching, SameKeeps
  <2> QED
    BY <1>2, <2>1, KillJobsTyped, KeepsOrder
<1>4. l = LaunchScheduled(k, forked, lv)
  BY DEF AtQuit, a
<1> HIDE DEF k, l
<1>5. l \in Members
  BY <1>3, <1>4, LaunchScheduledTyped
<1>6. Up(l) /\ Exchange(l)
  BY <1>3, <1>4, LaunchServes DEF Serves
<1> QED
  BY <1>1, <1>3, <1>5, <1>6 DEF k, l, a

\* Nothing else sets out, and before the start nothing does.
LEMMA SetsOut ==
  ASSUME TypeOK, ExchangeAgrees, Unstarted(tm), [Next]_vars,
         tm.quitStep = 0, tm'.quitStep # 0
  PROVE  /\ ManagerSchedules /\ Up(tm)
         /\ \E lv \in Readings, forked \in BOOLEAN :
              LET l == AtQuit(tm, forked, lv) IN
              /\ l \in Members /\ Exchange(l)
              /\ Quitting(l) /\ MayQuit(l) /\ l.toldTs
              /\ tm' = ActuallyQuit(l, Largest(l.sq, l.sqa) - 1)
<1>1. tm \in Members /\ Exchange(tm)
  BY AgreesMeansOrder DEF TypeOK
<1>2. tm.started
  <2> SUFFICES ASSUME ~tm.started PROVE FALSE
    OBVIOUS
  <2>1. \A s : TSConnect(s).quitStep = s.quitStep
    BY DEF TSConnect, Check, Die
  <2>2. StartProcessing(Fresh).quitStep = 0
    BY <2>1, StartConnects DEF Up
  <2>3. Fresh.quitStep = 0 /\ [Fresh EXCEPT !.crash = "nullif"].quitStep = 0
    BY DEF Fresh
  <2> QED
    BY <2>2, <2>3, FirstStep
<1>3. Up(tm)
  BY <1>2 DEF Up
<1>4. ManagerSchedules
  BY <1>3, UpStays DEF Up
<1>5. PICK lv \in Readings, forked \in BOOLEAN : tm' = Schedule(tm, forked, lv)
  BY <1>4 DEF ManagerSchedules
<1> DEFINE l == AtQuit(tm, forked, lv)
<1>6. l \in Members /\ Up(l) /\ Exchange(l) /\ tm' = GoOnQuitting(l)
  BY <1>1, <1>3, <1>5, ScheduleGoesOn
<1>7. /\ Quitting(l) /\ MayQuit(l) /\ l.toldTs
      /\ tm' = ActuallyQuit(l, Largest(l.sq, l.sqa) - 1)
  <2> HIDE DEF l
  <2> QED
    BY <1>6, GoOnQuits
<1> QED
  BY <1>3, <1>4, <1>6, <1>7

\* What CleanExit says of the members.
LeftClean(s) ==
  /\ AllIdle(s) /\ s.done = <<>> /\ ~AreThereJobsRunning(s)
  /\ ~s.connected /\ s.srcPend = "ANone" /\ s.toldTs

\* Nothing of that changes any more once the program is on its way out.
LEMMA FrozenClean ==
  ASSUME NEW s, NEW r, Frozen(s, r), LeftClean(s) PROVE LeftClean(r)
<1>1. Jobs(r) = Jobs(s)
  BY DEF Frozen, Jobs
<1>2. ~AreThereJobsRunning(r)
  BY <1>1 DEF Frozen, LeftClean, AreThereJobsRunning
<1> QED
  BY <1>2 DEF Frozen, LeftClean, AllIdle, TodoEmpty

\* Setting out changes none of it either.
LEMMA QuitClean ==
  ASSUME NEW s \in Members, Exchange(s), MayQuit(s), s.toldTs, NEW status
  PROVE  LeftClean(ActuallyQuit(s, status))
<1> DEFINE r == ActuallyQuit(s, status)
<1>1. /\ r.refilter = s.refilter /\ r.fresh = s.fresh /\ r.proc = s.proc
      /\ r.done = s.done /\ r.job = s.job /\ r.dead = s.dead
      /\ r.connected = s.connected /\ r.srcPend = s.srcPend
  BY DEF ActuallyQuit, ReSched
<1>6. r.toldTs
  BY DEF ActuallyQuit, ReSched
<1> HIDE DEF r
<1>2. Jobs(r) = Jobs(s)
  BY <1>1 DEF Jobs
<1>3. ~AreThereJobsRunning(r)
  BY <1>1, <1>2 DEF MayQuit, AreThereJobsRunning
<1>4. r.srcPend = "ANone"
  BY <1>1 DEF Exchange, MayQuit
<1>5. AllIdle(r)
  BY <1>1 DEF MayQuit, AllIdle, TodoEmpty
<1> QED
  BY <1>1, <1>3, <1>4, <1>5, <1>6 DEF LeftClean, MayQuit, r

\* Where nothing is queued, worked on or on its way back, nothing is in hand.
LEMMA CleanEmpty ==
  ASSUME TypeOK, ExchangeAgrees, InHand, LeftClean(tm), NEW t \in Frames,
         t < tm.next
  PROVE  reported[t] # "no"
<1>1. Places(tm, t) = IF reported[t] = "no" THEN 1 ELSE 0
  BY DEF InHand
<1>2. /\ tm.refilter = <<>> /\ tm.fresh = <<>> /\ tm.done = <<>>
      /\ tm.proc = {} /\ tm.srcDone = NoTask
  BY DEF LeftClean, AllIdle, TodoEmpty, ExchangeAgrees
<1>3. Count(<<>>, t) = 0
  BY CountFew
<1>4. t # NoTask
  BY FrameIsTask
<1>5. Places(tm, t) = 0
  BY <1>2, <1>3, <1>4 DEF Places
<1> QED
  BY <1>1, <1>5

LEMMA CleanStep ==
  /\ TypeOK /\ ExchangeAgrees /\ RunsWell
  /\ (tm.quitStep > 0 => LeftClean(tm)) /\ [Next]_vars
  => (tm.quitStep > 0 => LeftClean(tm))'
<1> SUFFICES ASSUME TypeOK, ExchangeAgrees, RunsWell, [Next]_vars,
                    tm.quitStep > 0 => LeftClean(tm), tm'.quitStep > 0
             PROVE  LeftClean(tm')
  OBVIOUS
<1>1. tm.quitStep \in 0..5
  BY Read DEF TypeOK
<1>2. CASE tm.quitStep > 0
  BY <1>2, WayOut, FrozenClean
<1>3. CASE tm.quitStep = 0
  <2>1. Unstarted(tm)
    BY DEF RunsWell, NotYetStarted
  <2>2. tm'.quitStep # 0
    OBVIOUS
  <2>3. PICK l, status : /\ l \in Members /\ Exchange(l) /\ MayQuit(l) /\ l.toldTs
                         /\ tm' = ActuallyQuit(l, status)
    BY <1>3, <2>1, <2>2, SetsOut
  <2> QED
    BY <2>3, QuitClean
<1> QED
  BY <1>1, <1>2, <1>3

\* On the way out nothing is left, and it stays so.
THEOREM LeftCleanHolds == Spec => [](tm.quitStep > 0 => LeftClean(tm))
<1>1. Init => (tm.quitStep > 0 => LeftClean(tm))
  <2>1. Fresh.quitStep = 0
    BY DEF Fresh
  <2> QED
    BY <2>1 DEF Init
<1> QED
  BY <1>1, CleanStep, RendViewTyped, ExchangeHolds, RunsWellHolds, PTL DEF Spec

\* _ActuallyQuit() leaves nothing behind: no task, no job, no connection, and
\* every task handed out was given back.
THEOREM CleanExitHolds == Spec => []CleanExit
<1>1. /\ TypeOK /\ ExchangeAgrees /\ InHand /\ (tm.quitStep > 0 => LeftClean(tm))
      => CleanExit
  BY CleanEmpty DEF CleanExit, LeftClean
<1> QED
  BY <1>1, LeftCleanHolds, RendViewTyped, ExchangeHolds, InHandHolds, PTL

----------------------------------------------------------------------------
(* Talking to the source *)

\* From s to r nothing is said to the source, and no assertion fails.
Tacit(s, r) ==
  /\ r.toldTs = s.toldTs /\ r.srcPend = s.srcPend
  /\ r.connected = s.connected /\ r.srcQuit = s.srcQuit
  /\ s.crash # "assert" => r.crash # "assert"

LEMMA TacitTalking ==
  ASSUME NEW s, NEW r, Tacit(s, r), Talking(s) PROVE Talking(r)
  BY DEF Tacit, Talking

LEMMA TacitTrans ==
  ASSUME NEW s, NEW r, NEW q, Tacit(s, r), Tacit(r, q) PROVE Tacit(s, q)
  BY DEF Tacit

\* Giving up the program in any other way.
LEMMA DieTacit ==
  ASSUME NEW s \in Members, NEW how, how # "assert" PROVE Tacit(s, Die(s, how))
<1>1. Die(s, how).crash # "assert" \/ s.crash = "assert"
  <2>1. [s EXCEPT !.crash = how].crash = how
    BY Written
  <2> QED
    BY <2>1 DEF Die
<1> QED
  BY <1>1 DEF Tacit, Die

\* Member functions that deal with the queues and the jobs only.
LEMMA QuietTacit ==
  ASSUME NEW s \in Members, NEW t, NEW lv, NEW x
  PROVE  /\ Tacit(s, s) /\ Tacit(s, ReSched(s))
         /\ Tacit(s, KillScheduledForStart(s)) /\ Tacit(s, DoCheckLoad(s, lv))
         /\ Tacit(s, CheckStartTasks(s, lv)) /\ Tacit(s, Dequeue(s, t))
         /\ Tacit(s, NewTask_SetUpState(s, t)) /\ Tacit(s, DontStartMoreTasks(s))
         /\ Tacit(s, ForkJob(s, t)) /\ Tacit(s, ForkFailed(s, t))
         /\ Tacit(s, JobSucceeded(s, t)) /\ Tacit(s, JobFailed(s, t, x))
         /\ Tacit(s, KillProcess(s, t, x)) /\ Tacit(s, KillJobs(s))
         /\ Tacit(s, ScheduleQuit(s)) /\ Tacit(s, ScheduleKill(s))
         /\ Tacit(s, CountFailure(s, t)) /\ Tacit(s, TidyUp(s, lv))
<1>1. \A p, v : /\ Tacit(p, p) /\ Tacit(p, ReSched(p))
                /\ Tacit(p, [p EXCEPT !.sfs = v]) /\ Tacit(p, [p EXCEPT !.poll = v])
                /\ Tacit(p, [p EXCEPT !.sq = v]) /\ Tacit(p, [p EXCEPT !.dead = v])
                /\ Tacit(p, [p EXCEPT !.failed = v])
                /\ Tacit(p, [p EXCEPT !.killTasks = v])
  BY DEF Tacit, ReSched
<1>2. \A p : /\ Tacit(p, KillScheduledForStart(p))
             /\ Tacit(p, DoCheckLoad(p, lv)) /\ Tacit(p, Dequeue(p, t))
             /\ Tacit(p, NewTask_SetUpState(p, t)) /\ Tacit(p, ForkJob(p, t))
             /\ Tacit(p, KillProcess(p, t, x))
  BY DEF Tacit, KillScheduledForStart, DoCheckLoad, Dequeue, NewTask_SetUpState,
         ForkJob, KillProcess
<1>3. \A p : Tacit(p, DontStartMoreTasks(p))
  BY DEF Tacit, DontStartMoreTasks, KillScheduledForStart
<1>4. \A p : Tacit(p, ForkFailed(p, t)) /\ Tacit(p, JobGone(p, t))
  BY DEF Tacit, ForkFailed, StoreFailure, JobGone
<1>5. Tacit(s, JobSucceeded(s, t))
  <2>1. Tacit(JobGone(s, t), JobSucceeded(s, t))
    BY DEF Tacit, JobSucceeded
  <2> QED
    BY <1>4, <2>1, TacitTrans
<1>6. Tacit(s, JobFailed(s, t, x))
  <2>1. Tacit(JobGone(s, t), JobFailed(s, t, x))
    BY DEF Tacit, JobFailed, StoreFailure
  <2> QED
    BY <1>4, <2>1, TacitTrans
<1>7. \A p : Tacit(p, CheckStartTasks(p, lv))
  <2> SUFFICES ASSUME NEW p PROVE Tacit(p, CheckStartTasks(p, lv))
    OBVIOUS
  <2> DEFINE a == [p EXCEPT !.sfs = GetTaskToStart(p)]
             d == DoCheckLoad(a, lv)
             b == [d EXCEPT !.poll = TRUE]
  <2>1. Tacit(p, a)
    BY <1>1
  <2>2. Tacit(a, d)
    BY <1>2
  <2>3. Tacit(d, ReSched(d)) /\ Tacit(d, b) /\ Tacit(p, p)
    BY <1>1
  <2>4. CheckStartTasks(p, lv) \in {p, ReSched(d), b}
    BY DEF CheckStartTasks, DoScheduleForStart
  <2> HIDE DEF a, d, b
  <2>5. Tacit(p, d)
    BY <2>1, <2>2, TacitTrans
  <2>6. Tacit(p, ReSched(d)) /\ Tacit(p, b)
    BY <2>3, <2>5, TacitTrans
  <2> QED
    BY <2>3, <2>4, <2>6
<1>8. Tacit(s, KillJobs(s))
  <2> DEFINE k == TermAllJobs(s, "UserIntr")
  <2>1. Tacit(s, k)
    <3>1. Tacit(s, Die(s, "nulltask"))
      BY DieTacit
    <3>2. \A v : Tacit(s, [s EXCEPT !.killed = v])
      BY DEF Tacit
    <3> QED
      BY <3>1, <3>2 DEF TermAllJobs
  <2> HIDE DEF k
  <2>2. Tacit(k, [k EXCEPT !.killTasks = FALSE])
    BY <1>1
  <2> QED
    BY <1>1, <2>1, <2>2, TacitTrans DEF KillJobs, k
<1>9. Tacit(s, ScheduleQuit(s))
  <2> DEFINE p == [s EXCEPT !.sq = IF @ = 0 THEN 1 ELSE @]
  <2>1. Tacit(s, p)
    BY DEF Tacit
  <2> HIDE DEF p
  <2> QED
    BY <1>2, <2>1, TacitTrans DEF ScheduleQuit, p
<1>10. Tacit(s, ScheduleKill(s))
  <2>1. Tacit(DontStartMoreTasks(s), ScheduleKill(s))
    BY DEF Tacit, ScheduleKill
  <2> QED
    BY <1>3, <2>1, TacitTrans
<1>11. Tacit(s, CountFailure(s, t))
  <2> DEFINE r == [s EXCEPT !.failed = @ + 1]
             d == DontStartMoreTasks(r)
             q == [d EXCEPT !.sq = 2]
  <2>1. Tacit(s, r)
    BY DEF Tacit
  <2>2. CountFailure(s, t) \in {s, r, ReSched(q)}
    BY DEF CountFailure
  <2> HIDE DEF r
  <2>3. Tacit(r, d)
    BY <1>3
  <2> HIDE DEF d
  <2>4. Tacit(d, q) /\ Tacit(q, ReSched(q)) /\ Tacit(s, s)
    BY <1>1
  <2> HIDE DEF q
  <2> QED
    BY <2>1, <2>2, <2>3, <2>4, TacitTrans
<1>12. Tacit(s, TidyUp(s, lv))
  <2> DEFINE u == [s EXCEPT !.dead = {}]
             r == CheckStartTasks(u, lv)
             p == [r EXCEPT !.sq = Largest(@, r.sqa)]
  <2>1. Tacit(s, u)
    BY <1>1
  <2>2. TidyUp(s, lv) \in {u, r, ReSched(p)}
    BY DEF TidyUp, CheckStartNewJobs
  <2> HIDE DEF u
  <2>3. Tacit(u, r)
    BY <1>7
  <2> HIDE DEF r
  <2>4. Tacit(r, p)
    BY DEF Tacit
  <2> HIDE DEF p
  <2>5. Tacit(p, ReSched(p))
    BY <1>1
  <2> QED
    BY <2>1, <2>2, <2>3, <2>4, <2>5, TacitTrans
<1> QED
  BY <1>1, <1>2, <1>3, <1>4, <1>5, <1>6, <1>7, <1>8, <1>9, <1>10, <1>11, <1>12

\* From s to r the talk goes on as it should.
Says(s, r) ==
  Up(s) /\ Exchange(s) /\ Talking(s) => Up(r) /\ Exchange(r) /\ Talking(r)

LEMMA QuietSays ==
  ASSUME NEW s, NEW r, Keeps(s, r), Tacit(s, r) PROVE Says(s, r)
  BY KeepsOrder, TacitTalking DEF Says

LEMMA SaysTrans ==
  ASSUME NEW s, NEW r, NEW q, Says(s, r), Says(r, q) PROVE Says(s, q)
  BY DEF Says

\* A connection is only asked for when nothing is outstanding: requests need
\* an open connection, and so does one that is being closed.
LEMMA CheckStartExchangeSays ==
  ASSUME NEW s \in Members PROVE Says(s, CheckStartExchange(s))
<1> SUFFICES ASSUME Up(s), Exchange(s), Talking(s)
             PROVE  LET r == CheckStartExchange(s)
                    IN  Up(r) /\ Exchange(r) /\ Talking(r)
  BY DEF Says
<1>1. CASE CheckStartExchange(s) = s
  BY <1>1
<1>2. CASE ~s.connected /\ s.pending # "AConnect"
  <2> DEFINE r == TSConnect(s)
  <2>1. s.srcPend = "ANone"
    <3>1. s.srcPend \in Actions
      BY Read
    <3> QED
      BY <1>2, <3>1 DEF Exchange, Talking, Actions
  <2>2. ~s.srcConn
    BY <1>2, Read DEF Exchange
  <2>3. r = [s EXCEPT !.srcPend = "AConnect", !.pending = "AConnect"]
    BY <2>1, <2>2 DEF TSConnect, Check
  <2>4. r.srcPend = "AConnect"
    BY <2>3
  <2>5. r.crash = s.crash /\ r.toldTs = s.toldTs
    BY <2>3
  <2>6. Up(r) /\ Exchange(r)
    BY <1>2, ConnectServes DEF Serves
  <2> HIDE DEF r
  <2>7. Talking(r)
    BY <2>4, <2>5 DEF Talking
  <2> QED
    BY <1>1, <2>6, <2>7 DEF CheckStartExchange, r
<1> QED
  BY <1>1, <1>2 DEF CheckStartExchange

\* A request over the open connection.
LEMMA AskTalks ==
  ASSUME NEW s, Idle(s), Talking(s), NEW r,
         r.crash = s.crash, r.toldTs = s.toldTs, r.connected = s.connected,
         r.srcPend = "ADisconnect" => ~r.srcQuit
  PROVE  Talking(r)
  BY DEF Idle, Talking

\* _TS_GetOrDoneTask() finds the connection open and nothing outstanding.
LEMMA GetOrDoneTalks ==
  ASSUME NEW s \in Members, Idle(s), Talking(s) PROVE Talking(GetOrDoneTask(s))
<1>1. s.connected /\ s.srcConn /\ s.srcPend = "ANone" /\ s.pending = "ANone"
  BY DEF Idle
<1>2. ASSUME s.done # <<>> PROVE Talking(GiveBackDone(s))
  <2> DEFINE x == [s EXCEPT !.done = Tail(@), !.tsgod = "ADoneTask"]
             t == Head(s.done)
             r == TSDoneTask(x, t)
  <2>1. /\ x.srcPend = s.srcPend /\ x.srcConn = s.srcConn /\ x.crash = s.crash
        /\ x.toldTs = s.toldTs /\ x.connected = s.connected
    OBVIOUS
  <2> HIDE DEF x
  <2>2. r = [x EXCEPT !.srcPend = "ADoneTask", !.pending = "ADoneTask",
                      !.srcDone = t]
    BY <1>1, <2>1 DEF TSDoneTask, Check
  <2>3. r.srcPend = "ADoneTask"
    BY DEF TSDoneTask, Check, Die
  <2> HIDE DEF r
  <2>4. r.crash = x.crash /\ r.toldTs = x.toldTs /\ r.connected = x.connected
    BY <2>2
  <2>5. Talking(r)
    BY <2>1, <2>3, <2>4, AskTalks
  <2> QED
    BY <2>5 DEF GiveBackDone, r, x
<1>3. Talking(GiveBackSpecial(s))
  <2> DEFINE t == SpecialDone(s)
             p == [s EXCEPT !.tdaf = FALSE, !.tsgod = "ADoneTask"]
             k == IF s.sfs = t THEN KillScheduledForStart(p) ELSE p
             x == Dequeue(k, t)
             r == TSDoneTask(x, t)
  <2>1. /\ x.srcPend = s.srcPend /\ x.srcConn = s.srcConn /\ x.crash = s.crash
        /\ x.toldTs = s.toldTs /\ x.connected = s.connected
    BY DEF KillScheduledForStart, Dequeue
  <2> HIDE DEF x
  <2>2. r = [x EXCEPT !.srcPend = "ADoneTask", !.pending = "ADoneTask",
                      !.srcDone = t]
    BY <1>1, <2>1 DEF TSDoneTask, Check
  <2>3. r.srcPend = "ADoneTask"
    BY DEF TSDoneTask, Check, Die
  <2> HIDE DEF r
  <2>4. r.crash = x.crash /\ r.toldTs = x.toldTs /\ r.connected = x.connected
    BY <2>2
  <2>5. Talking(r)
    BY <2>1, <2>3, <2>4, AskTalks
  <2> QED
    BY <2>5 DEF GiveBackSpecial, r, x, k, p, t
<1>4. Talking(TSGetTask([s EXCEPT !.tsgod = "AGetTask"]))
  <2> DEFINE x == [s EXCEPT !.tsgod = "AGetTask"]
             n == IF x.nth = 0 THEN 1 ELSE 2
             r == TSGetTask(x)
  <2>1. /\ x.srcPend = s.srcPend /\ x.srcConn = s.srcConn /\ x.crash = s.crash
        /\ x.toldTs = s.toldTs /\ x.connected = s.connected
    OBVIOUS
  <2> HIDE DEF x
  <2>2. Check(x, x.srcPend = "ANone" /\ x.srcConn) = x
    BY <1>1, <2>1 DEF Check
  <2>3. r = [x EXCEPT !.srcPend = "AGetTask", !.pending = "AGetTask",
                      !.nth = IF @ = 0 THEN 1 ELSE 2]
    BY <2>2 DEF TSGetTask
  <2>4. r.srcPend = "AGetTask"
    BY DEF TSGetTask, Check, Die
  <2> HIDE DEF r
  <2>5. r.crash = x.crash /\ r.toldTs = x.toldTs /\ r.connected = x.connected
    BY <2>3
  <2>6. Talking(r)
    BY <2>1, <2>4, <2>5, AskTalks
  <2> QED
    BY <2>6 DEF r, x
<1>5. Talking(TSDisconnect([s EXCEPT !.tsgod = "ANone"], FALSE))
  <2> DEFINE x == [s EXCEPT !.tsgod = "ANone"]
             r == TSDisconnect(x, FALSE)
  <2>0. x \in Members
    BY Write DEF Actions
  <2>1. /\ x.srcPend = s.srcPend /\ x.srcConn = s.srcConn /\ x.crash = s.crash
        /\ x.toldTs = s.toldTs /\ x.connected = s.connected
    OBVIOUS
  <2> HIDE DEF x
  <2>2. r = [x EXCEPT !.srcPend = "ADisconnect", !.pending = "ADisconnect",
                      !.srcQuit = FALSE]
    BY <1>1, <2>1 DEF TSDisconnect, Check
  <2> HIDE DEF r
  <2>3. r.crash = x.crash /\ r.toldTs = x.toldTs /\ r.connected = x.connected
    BY <2>2
  <2>4. r.srcQuit = FALSE
    BY <2>0, <2>2 DEF Members
  <2>5. Talking(r)
    BY <2>1, <2>3, <2>4, AskTalks
  <2> QED
    BY <2>5 DEF r, x
<1>6. \A r : Check(r, s.connected /\ s.pending = "ANone") = r
  BY <1>1 DEF Check
<1> QED
  BY <1>2, <1>3, <1>4, <1>5, <1>6, Zenon DEF GetOrDoneTask

----------------------------------------------------------------------------
(* What happens to tasks, and the talk *)

\* A job succeeded.
LEMMA SuccessSays ==
  ASSUME NEW s \in Members, NEW t \in Frames, NEW lv
  PROVE  Says(s, HandleSuccessfulJob(s, t, lv))
<1> DEFINE out  == [s EXCEPT !.failed = 0, !.proc = @ \ {t}]
           done == [out EXCEPT !.done = Append(@, t)]
           todo == [out EXCEPT !.refilter = <<t>> \o @]
           wait == IF s.dsmt THEN DontStartMoreTasks(todo) ELSE todo
           next == CheckStartTasks(done, lv)
<1>1. out \in Members
  <2>1. s.proc \ {t} \in SUBSET Frames
    BY Read
  <2> QED
    BY <2>1, Write
<1>2. /\ Same(s, done) /\ Same(s, todo)
      /\ Tacit(s, done) /\ Tacit(s, todo)
  BY DEF Same, Tacit
<1> HIDE DEF out
<1>3. done \in Members
  <2>1. Append(out.done, t) \in Seq(Frames)
    BY <1>1, Read
  <2> QED
    BY <1>1, <2>1, Write
<1>4. todo \in Members
  <2>1. out.refilter \in Seq(Frames) /\ <<t>> \in Seq(Frames)
    BY <1>1, Read
  <2>2. <<t>> \o out.refilter \in Seq(Frames)
    BY <2>1
  <2> QED
    BY <1>1, <2>2, Write
<1> HIDE DEF done, todo
<1>5. wait \in Members /\ Says(s, wait)
  <2>1. Same(todo, DontStartMoreTasks(todo))
    BY Untouching
  <2>2. Keeps(s, todo) /\ Keeps(todo, DontStartMoreTasks(todo))
    BY <1>2, <2>1, SameKeeps
  <2>3. Tacit(todo, DontStartMoreTasks(todo))
    BY <1>4, QuietTacit
  <2>4. Says(s, todo) /\ Says(todo, DontStartMoreTasks(todo))
    BY <1>2, <2>2, <2>3, QuietSays
  <2>5. Says(s, DontStartMoreTasks(todo))
    BY <2>4, SaysTrans
  <2> QED
    BY <1>4, <2>4, <2>5, DontStartTyped
<1> HIDE DEF wait
<1>6. ASSUME NEW p \in Members
      PROVE  CheckStartTasks(p, lv) \in Members /\ Says(p, CheckStartTasks(p, lv))
  BY CheckStartTasksTyped, CheckStartTasksKeeps, QuietTacit, QuietSays
<1>7. next \in Members /\ Says(done, next)
  BY <1>3, <1>6
<1> HIDE DEF next
<1>8. Says(s, done)
  BY <1>2, SameKeeps, QuietSays
<1>9. Says(s, next)
  BY <1>7, <1>8, SaysTrans
<1>10. Says(s, CheckStartExchange(next))
  BY <1>7, <1>9, CheckStartExchangeSays, SaysTrans
<1>11. Says(s, CheckStartTasks(wait, lv))
  BY <1>5, <1>6, SaysTrans
<1>12. Says(s, s)
  BY DEF Says
<1> QED
  BY <1>10, <1>11, <1>12 DEF HandleSuccessfulJob, out, done, todo, wait, next

\* A job or a start failed.
LEMMA FailureSays ==
  ASSUME NEW s \in Members, NEW t \in Frames, NEW lv
  PROVE  Says(s, HandleFailedTask(s, t, lv))
<1> DEFINE k == IF t = s.sfs THEN Dequeue(KillScheduledForStart(s), t)
                             ELSE [s EXCEPT !.proc = @ \ {t}]
           d == [k EXCEPT !.done = Append(@, t)]
           c == CountFailure(d, t)
           n == CheckStartTasks(c, lv)
           r == CheckStartExchange(n)
           q == [r EXCEPT !.tdaf = @ \/ r.connected]
<1>1. k \in Members /\ Same(s, k) /\ Tacit(s, k)
  <2>1. s.proc \ {t} \in SUBSET Frames
    BY Read
  <2>2. [s EXCEPT !.proc = @ \ {t}] \in Members
    BY <2>1, Write
  <2>3. k \in Members
    BY <2>2, KillScheduledTyped, DequeueTyped
  <2>4. Same(s, k)
    BY DEF Same, Dequeue, KillScheduledForStart
  <2>5. Tacit(s, k)
    BY DEF Tacit, Dequeue, KillScheduledForStart
  <2> QED
    BY <2>3, <2>4, <2>5
<1> HIDE DEF k
<1>2. d \in Members /\ Same(k, d) /\ Tacit(k, d)
  <2>1. Append(k.done, t) \in Seq(Frames)
    BY <1>1, Read
  <2>2. d \in Members
    BY <1>1, <2>1, Write
  <2>3. Same(k, d) /\ Tacit(k, d)
    BY DEF Same, Tacit
  <2> QED
    BY <2>2, <2>3
<1> HIDE DEF d
<1>3. Says(s, d)
  BY <1>1, <1>2, SameKeeps, QuietSays, SaysTrans
<1>4. c \in Members /\ Says(d, c)
  BY <1>2, CountFailureTyped, QuitKeeps, QuietTacit, QuietSays
<1> HIDE DEF c
<1>5. n \in Members /\ Says(c, n)
  BY <1>4, CheckStartTasksTyped, CheckStartTasksKeeps, QuietTacit, QuietSays
<1> HIDE DEF n
<1>6. Says(n, r)
  BY <1>5, CheckStartExchangeSays
<1>7. Same(r, q) /\ Tacit(r, q)
  BY DEF Same, Tacit
<1> HIDE DEF r
<1>8. Says(r, q)
  BY <1>7, SameKeeps, QuietSays
<1> HIDE DEF q
<1>9. Says(s, q)
  BY <1>3, <1>4, <1>5, <1>6, <1>8, SaysTrans
<1>10. Says(s, s)
  BY DEF Says
<1> QED
  BY <1>9, <1>10 DEF HandleFailedTask, k, d, c, n, r, q

\* A job was executed.
LEMMA LaunchingSays ==
  ASSUME NEW s \in Members, NEW lv PROVE Says(s, LaunchingTaskDone(s, lv))
<1> DEFINE n == CheckStartTasks(s, lv)
<1>1. n \in Members /\ Says(s, n)
  BY CheckStartTasksTyped, CheckStartTasksKeeps, QuietTacit, QuietSays
<1> HIDE DEF n
<1> QED
  BY <1>1, CheckStartExchangeSays, SaysTrans DEF LaunchingTaskDone, n

\* The end of a job.
LEMMA JobExitedSays ==
  ASSUME NEW s \in Members, NEW t \in Frames, NEW ok, NEW resume \in BOOLEAN,
         NEW lv
  PROVE  Says(s, JobExited(s, t, ok, resume, lv))
<1> DEFINE a == JobSucceeded(s, t)
           b == JobFailed(s, t, resume)
<1>1. a \in Members /\ Says(s, a)
  BY JobSucceededTyped, JobGoneKeeps, QuietTacit, QuietSays
<1>2. b \in Members /\ Says(s, b)
  BY JobFailedTyped, JobGoneKeeps, QuietTacit, QuietSays
<1> HIDE DEF a, b
<1>3. Says(s, HandleSuccessfulJob(a, t, lv)) /\ Says(s, HandleFailedTask(b, t, lv))
  BY <1>1, <1>2, SuccessSays, FailureSays, SaysTrans
<1> QED
  BY <1>3 DEF JobExited, a, b

\* Taking a fresh task says nothing, since the connection is open.
LEMMA FreshTalks ==
  ASSUME NEW s \in Members, NEW t \in Frames, NEW lv, Idle(s), Talking(s)
  PROVE  Talking(TakeFreshTask(s, t, lv))
<1> DEFINE a == [s EXCEPT !.fresh = Append(@, t)]
           r == NewTask_SetUpState(a, t)
           d == DontStartMoreTasks(r)
<1>1. a \in Members
  <2>1. Append(s.fresh, t) \in Seq(Frames)
    BY Read
  <2> QED
    BY <2>1, Write
<1>2. Tacit(s, a)
  BY DEF Tacit
<1> HIDE DEF a
<1>3. r \in Members /\ Tacit(a, r)
  BY <1>1, SetUpStateTyped, QuietTacit
<1> HIDE DEF r
<1>4. Talking(r) /\ r.connected
  BY <1>2, <1>3, TacitTalking DEF Tacit, Idle
<1>5. Talking(d) /\ d.connected
  BY <1>3, <1>4, QuietTacit, TacitTalking DEF Tacit
<1>6. CheckStartExchange(d) = d
  BY <1>5 DEF CheckStartExchange
<1>7. Talking(CheckStartTasks(r, lv))
  BY <1>3, <1>4, QuietTacit, TacitTalking
<1> QED
  BY <1>5, <1>6, <1>7 DEF TakeFreshTask, a, r, d

----------------------------------------------------------------------------
(* The answers of the source, and the talk *)

\* What an answer leaves behind is an idle source, and the talk goes on.
LEMMA AnswerTalks ==
  ASSUME NEW s \in Members, Talking(s), NEW r, Idle(r), r.crash = s.crash,
         r.toldTs = s.toldTs
  PROVE  Talking(r)
  BY DEF Idle, Talking

LEMMA ConnectedTalks ==
  ASSUME NEW s \in Members, Exchange(s), Talking(s), s.srcPend = "AConnect"
  PROVE  Talking(TSConnected(SrcConnected(s)))
<1> DEFINE c == SrcConnected(s)
           a == Answered(c)
           b == [a EXCEPT !.connected = TRUE]
           d == [b EXCEPT !.tsgod = "ANone"]
           x == [d EXCEPT !.nth = 0]
<1>1. c \in Members /\ a \in Members
  BY AnswersTyped, AnsweredTyped
<1>2. x \in Members
  <2> HIDE DEF a
  <2>1. b \in Members
    BY <1>1, Write
  <2> HIDE DEF b
  <2>2. d \in Members
    BY <2>1, Write DEF Actions
  <2> HIDE DEF d
  <2> QED
    BY <2>2, WriteNumber
<1>3. /\ x.connected /\ x.srcConn
      /\ x.pending = "ANone" /\ x.srcPend = "ANone" /\ x.srcDone = s.srcDone
      /\ x.started = s.started /\ x.quitStep = s.quitStep
  BY DEF SrcConnected, Answered
<1>4. x.crash = s.crash /\ x.toldTs = s.toldTs
  BY DEF SrcConnected, Answered
<1>5. TSConnected(c) = GetOrDoneTask(x)
  BY DEF TSConnected
<1> HIDE DEF x
<1>6. Idle(x)
  <2>1. s.srcDone = NoTask
    BY DEF Exchange
  <2> QED
    BY <1>3, <2>1, RequestMeansUp DEF Idle, Up
<1>7. Talking(x)
  BY <1>4, <1>6, AnswerTalks
<1> QED
  BY <1>2, <1>5, <1>6, <1>7, GetOrDoneTalks

LEMMA GotTaskTalks ==
  ASSUME NEW s \in Members, Exchange(s), Talking(s), s.srcPend = "AGetTask",
         NEW t \in Frames, NEW lv
  PROVE  Talking(TSGotTask(SrcHandOut(s), t, lv))
<1> DEFINE a == Answered(SrcHandOut(s))
           f == TakeFreshTask(a, t, lv)
<1>1. a \in Members
  BY AnswersTyped, AnsweredTyped
<1>2. /\ a.pending = "ANone" /\ a.srcPend = "ANone"
      /\ a.connected = s.connected /\ a.srcConn = s.srcConn
      /\ a.srcDone = s.srcDone
      /\ a.started = s.started /\ a.quitStep = s.quitStep
  BY DEF SrcHandOut, Answered
<1>3. a.crash = s.crash /\ a.toldTs = s.toldTs
  BY DEF SrcHandOut, Answered
<1> HIDE DEF a
<1>4. s.srcDone = NoTask
  BY DEF Exchange
<1>5. Idle(a) /\ Talking(a)
  BY <1>2, <1>3, <1>4, AnswerMakesIdle, AnswerTalks
<1>6. f \in Members /\ Idle(f) /\ Talking(f)
  BY <1>1, <1>5, TakeFreshTaskTyped, FreshStaysIdle, FreshTalks
<1> HIDE DEF f
<1> QED
  BY <1>6, GetOrDoneTalks DEF TSGotTask, a, f

LEMMA NoTaskTalks ==
  ASSUME NEW s \in Members, Exchange(s), Talking(s), s.srcPend = "AGetTask"
  PROVE  /\ Talking(TSNoMoreTasks(SrcNoTask(s)))
         /\ \A skips \in BOOLEAN : Talking(TSGetFailed(SrcGetFails(s, skips)))
<1>1. s.srcDone = NoTask
  BY DEF Exchange
<1>2. ASSUME NEW a, Talking(a), NEW q PROVE Talking(ReSched([a EXCEPT !.sqa = q]))
  <2>1. Tacit(a, ReSched([a EXCEPT !.sqa = q]))
    BY DEF Tacit, ReSched
  <2> QED
    BY <1>2, <2>1, TacitTalking
<1>3. Talking(TSNoMoreTasks(SrcNoTask(s)))
  <2> DEFINE a == Answered(SrcNoTask(s))
             q == IF a.sqa = 0 THEN 1 ELSE a.sqa
  <2>1. /\ a.srcPend = "ANone" /\ a.crash = s.crash /\ a.toldTs = s.toldTs
    BY DEF SrcNoTask, Answered
  <2> HIDE DEF a
  <2>2. Talking(a)
    BY <2>1 DEF Talking
  <2> HIDE DEF q
  <2>3. Talking(ReSched([a EXCEPT !.sqa = q]))
    BY <1>2, <2>2
  <2> QED
    BY <2>3 DEF TSNoMoreTasks, a, q
<1>4. ASSUME NEW skips \in BOOLEAN PROVE Talking(TSGetFailed(SrcGetFails(s, skips)))
  <2> DEFINE g == SrcGetFails(s, skips)
             a == Answered(g)
             x == [a EXCEPT !.tdaf = TRUE]
  <2>1. a \in Members
    BY AnswersTyped, AnsweredTyped
  <2>2. /\ a.pending = "ANone" /\ a.srcPend = "ANone"
        /\ a.connected = s.connected /\ a.srcConn = s.srcConn
        /\ a.srcDone = s.srcDone
        /\ a.started = s.started /\ a.quitStep = s.quitStep
    BY DEF SrcGetFails, Answered
  <2>3. a.crash = s.crash /\ a.toldTs = s.toldTs
    BY DEF SrcGetFails, Answered
  <2> HIDE DEF a
  <2>4. Idle(a) /\ Talking(a)
    BY <1>1, <2>2, <2>3, AnswerMakesIdle, AnswerTalks
  <2>5. Talking(ReSched([a EXCEPT !.sqa = 2]))
    BY <1>2, <2>4
  <2>6. x \in Members
    BY <2>1, Write
  <2>7. Same(a, x) /\ Tacit(a, x)
    BY DEF Same, Tacit
  <2> HIDE DEF x
  <2>8. Idle(x) /\ Talking(x)
    BY <2>4, <2>7, SameKeeps, KeepsOrder, TacitTalking
  <2>9. Talking(GetOrDoneTask(x))
    BY <2>6, <2>8, GetOrDoneTalks
  <2> QED
    BY <2>5, <2>9 DEF TSGetFailed, g, a, x
<1> QED
  BY <1>3, <1>4

LEMMA TookDoneTalks ==
  ASSUME NEW s \in Members, Exchange(s), Talking(s), s.srcPend = "ADoneTask"
  PROVE  Talking(TSTookDone(SrcTakeBack(s)))
<1> DEFINE a == Answered(SrcTakeBack(s))
<1>1. a \in Members
  BY TakeBackTyped, AnsweredTyped
<1>2. /\ a.pending = "ANone" /\ a.srcPend = "ANone"
      /\ a.connected = s.connected /\ a.srcConn = s.srcConn
      /\ a.srcDone = NoTask
      /\ a.started = s.started /\ a.quitStep = s.quitStep
  BY DEF SrcTakeBack, Answered
<1>3. a.crash = s.crash /\ a.toldTs = s.toldTs
  BY DEF SrcTakeBack, Answered
<1> HIDE DEF a
<1>4. Idle(a) /\ Talking(a)
  BY <1>2, <1>3, AnswerMakesIdle, AnswerTalks
<1> QED
  BY <1>1, <1>4, GetOrDoneTalks DEF TSTookDone, a

\* The answer to Disconnect() is the one that was asked for.
LEMMA DisconnectedSaid ==
  ASSUME NEW s, NEW quit, s.crash # "assert", s.toldTs <=> quit
  PROVE  LET r == TSDisconnected(SrcDisconnected(s), quit) IN
         /\ r.srcPend = "ANone" /\ r.crash # "assert" /\ r.toldTs = s.toldTs
         /\ ~r.connected
         /\ r.refilter = s.refilter /\ r.fresh = s.fresh /\ r.done = s.done
         /\ r.proc = s.proc /\ r.job = s.job /\ r.dead = s.dead /\ r.sfs = s.sfs
         /\ r.sq = s.sq /\ r.sqa = s.sqa
<1> DEFINE d == SrcDisconnected(s)
           a == [Answered(d) EXCEPT !.connected = FALSE]
           r == TSDisconnected(d, quit)
<1>1. d.toldTs = s.toldTs
  BY DEF SrcDisconnected
<1>2. Check(a, d.toldTs <=> quit) = a
  BY <1>1 DEF Check
<1>3. r \in {a, ReSched(a)}
  BY <1>2 DEF TSDisconnected
<1>4. /\ a.srcPend = "ANone" /\ a.crash = s.crash /\ a.toldTs = s.toldTs
      /\ a.connected = FALSE
      /\ a.refilter = s.refilter /\ a.fresh = s.fresh /\ a.done = s.done
      /\ a.proc = s.proc /\ a.job = s.job /\ a.dead = s.dead /\ a.sfs = s.sfs
      /\ a.sq = s.sq /\ a.sqa = s.sqa
  BY DEF SrcDisconnected, Answered
<1> HIDE DEF a
<1>5. LET q == ReSched(a) IN
      /\ q.srcPend = a.srcPend /\ q.crash = a.crash /\ q.toldTs = a.toldTs
      /\ q.connected = a.connected
      /\ q.refilter = a.refilter /\ q.fresh = a.fresh /\ q.done = a.done
      /\ q.proc = a.proc /\ q.job = a.job /\ q.dead = a.dead /\ q.sfs = a.sfs
      /\ q.sq = a.sq /\ q.sqa = a.sqa
  BY DEF ReSched
<1> HIDE DEF r
<1>6. r = a \/ r = ReSched(a)
  BY <1>3
<1>7. CASE r = a
  BY <1>4, <1>7 DEF r, d
<1>8. CASE r = ReSched(a)
  BY <1>4, <1>5, <1>8 DEF r, d
<1> QED
  BY <1>6, <1>7, <1>8

----------------------------------------------------------------------------
(* Signals and timers, and the talk *)

\* The handlers of SIGINT, SIGTERM, SIGTSTP and SIGCONT.
LEMMA SignalsTalk ==
  ASSUME NEW s \in Members, Exchange(s), Talking(s), NEW lv
  PROVE  \A r \in {SigInt(s), SigTerm(s), SigTstp(s), SigCont(s, lv)} : Talking(r)
<1>1. Talking(Die(s, "abort")) /\ Talking(Die(s, "nullif"))
  BY DieTacit, TacitTalking
<1>2. ASSUME NEW p, Talking(p) PROVE Talking(ReSched(p))
  <2>1. Tacit(p, ReSched(p))
    BY DEF Tacit, ReSched
  <2> QED
    BY <1>2, <2>1, TacitTalking
<1>3. Talking(ScheduleQuit(s)) /\ Talking(ScheduleKill(s))
  BY QuietTacit, TacitTalking
<1>4. Talking(SigInt(s))
  <2> DEFINE p == [ScheduleQuit(s) EXCEPT !.caught = 1]
             q == [ScheduleKill(s) EXCEPT !.caught = 2]
  <2>1. Tacit(ScheduleQuit(s), p) /\ Tacit(ScheduleKill(s), q)
    BY DEF Tacit
  <2> HIDE DEF p, q
  <2>2. Talking(ReSched(p)) /\ Talking(ReSched(q))
    BY <1>2, <1>3, <2>1, TacitTalking
  <2> QED
    BY <1>1, <2>2 DEF SigInt, OnSignal, p, q
<1>5. Talking(SigTerm(s))
  <2>1. Talking(ScheduleKill(ScheduleQuit(s)))
    BY <1>3, ScheduleQuitTyped, QuietTacit, TacitTalking
  <2> QED
    BY <1>1, <1>2, <2>1 DEF SigTerm, OnSignal
<1>6. Talking(SigTstp(s))
  <2>1. Tacit(s, [s EXCEPT !.stopped = TRUE])
    BY DEF Tacit
  <2>2. Talking([s EXCEPT !.stopped = TRUE])
    BY <2>1, TacitTalking
  <2> QED
    BY <1>1, <2>2 DEF SigTstp, OnSignal
<1>7. Talking(SigCont(s, lv))
  <2> DEFINE a == [s EXCEPT !.stopped = FALSE]
             b == CheckStartExchange(a)
             c == CheckStartTasks(b, lv)
  <2>1. a \in Members
    BY Write
  <2>2. Same(s, a) /\ Tacit(s, a)
    BY DEF Same, Tacit
  <2> HIDE DEF a
  <2>3. Says(s, a)
    BY <2>2, SameKeeps, QuietSays
  <2>4. b \in Members /\ Says(a, b)
    BY <2>1, CheckStartExchangeTyped, CheckStartExchangeSays
  <2> HIDE DEF b
  <2>5. Tacit(b, c)
    BY <2>4, QuietTacit
  <2> HIDE DEF c
  <2>6. Up(s) => Talking(ReSched(c))
    BY <1>2, <2>3, <2>4, <2>5, TacitTalking DEF Says
  <2>7. s.quitStep > 0 \/ s.quitStep = 0
    BY Read
  <2> QED
    BY <1>1, <2>6, <2>7 DEF SigCont, OnSignal, Up, a, b, c
<1> QED
  BY <1>4, <1>5, <1>6, <1>7

\* The load is only polled while it does not permit a start.
LEMMA LoadPollTacit ==
  ASSUME NEW s \in Members, NEW lv, ~s.load PROVE Tacit(s, LoadPoll(s, lv))
<1> DEFINE r == DoCheckLoad(s, lv)
           p == [r EXCEPT !.poll = FALSE]
           c == ReSched(p)
<1>1. Tacit(s, r)
  BY QuietTacit
<1>2. Tacit(s, [s EXCEPT !.poll = FALSE])
  BY DEF Tacit
<1> HIDE DEF r
<1>3. Tacit(r, p)
  BY DEF Tacit
<1> HIDE DEF p
<1>4. Tacit(p, c)
  BY DEF Tacit, ReSched
<1> HIDE DEF c
<1>5. Tacit(s, c)
  BY <1>1, <1>3, <1>4, TacitTrans
<1>6. Check(c, ~s.load) = c
  BY DEF Check
<1> QED
  BY <1>1, <1>2, <1>5, <1>6 DEF LoadPoll, r, p, c

\* The scheduled task is launched, or fails to be.
LEMMA LaunchSays ==
  ASSUME NEW s \in Members, NEW forked, NEW lv
  PROVE  Says(s, LaunchScheduled(s, forked, lv))
<1> SUFFICES ASSUME Up(s) PROVE Says(s, LaunchScheduled(s, forked, lv))
  BY DEF Says
<1>1. CASE s.sfs # NoTask /\ s.load
  <2> DEFINE t == s.sfs
             g == ForkJob(s, t)
             up == Dequeue(KillScheduledForStart(g), t)
             in == [up EXCEPT !.proc = @ \cup {t}]
             f  == ForkFailed(s, t)
             h  == HandleFailedTask(f, t, lv)
             no == KillScheduledForStart(h)
  <2>1. t \in Frames
    BY <1>1, Read
  <2> HIDE DEF t
  <2>2. g \in Members /\ Says(s, g)
    BY ForkTyped, ForkKeeps, QuietTacit, QuietSays
  <2> HIDE DEF g
  <2>3. up \in Members
    BY <2>2, KillScheduledTyped, DequeueTyped
  <2>4. Same(g, up)
    BY DEF Same, Dequeue, KillScheduledForStart
  <2>5. Tacit(g, up)
    BY DEF Tacit, Dequeue, KillScheduledForStart
  <2> HIDE DEF up
  <2>6. in \in Members
    <3>1. up.proc \cup {t} \in SUBSET Frames
      BY <2>1, <2>3, Read
    <3> QED
      BY <2>3, <3>1, Write
  <2>7. Same(up, in) /\ Tacit(up, in)
    BY DEF Same, Tacit
  <2> HIDE DEF in
  <2>8. Says(g, up) /\ Says(up, in)
    BY <2>4, <2>5, <2>7, SameKeeps, QuietSays
  <2>9. Says(s, in)
    BY <2>2, <2>8, SaysTrans
  <2>10. f \in Members /\ Says(s, f)
    BY <2>1, ForkFailedTyped, Untouching, SameKeeps, QuietTacit, QuietSays
  <2> HIDE DEF f
  <2>11. h \in Members /\ Says(f, h)
    BY <2>1, <2>10, HandleFailedTaskTyped, FailureSays
  <2> HIDE DEF h
  <2>12. no \in Members /\ Says(h, no)
    BY <2>11, KillScheduledTyped, Untouching, SameKeeps, QuietTacit, QuietSays
  <2> HIDE DEF no
  <2>13. Says(s, no)
    BY <2>10, <2>11, <2>12, SaysTrans
  <2>14. Says(in, CheckStartTasks(in, lv)) /\ Says(no, CheckStartTasks(no, lv))
    BY <2>6, <2>12, CheckStartTasksKeeps, QuietTacit, QuietSays
  <2>15. Says(s, CheckStartTasks(in, lv)) /\ Says(s, CheckStartTasks(no, lv))
    BY <2>9, <2>13, <2>14, SaysTrans
  <2> QED
    BY <1>1, <2>15 DEF LaunchScheduled, t, g, up, in, f, h, no
<1>2. CASE ~(s.sfs # NoTask /\ s.load)
  <2>1. Says(s, s)
    BY DEF Says
  <2> QED
    BY <1>2, <2>1 DEF LaunchScheduled
<1> QED
  BY <1>1, <1>2

\* When nothing is left to do, no task is scheduled for start either.
LEMMA MayQuitVoid ==
  ASSUME NEW s \in Members, Sound(s), MayQuit(s) PROVE Void(s)
<1>1. s.refilter = <<>> /\ s.fresh = <<>> /\ s.proc = {}
  BY DEF MayQuit, AllIdle, TodoEmpty
<1>2. s.sfs = NoTask
  <2> SUFFICES ASSUME s.sfs # NoTask PROVE FALSE
    OBVIOUS
  <2>1. Count(<<>>, s.sfs) > 0
    BY <1>1 DEF Sound, Chosen
  <2>2. s.sfs \in Frames
    BY Read
  <2>3. Count(<<>>, s.sfs) = 0
    BY <2>2, CountFew
  <2> QED
    BY <2>1, <2>3
<1> QED
  BY <1>1, <1>2 DEF MayQuit, Void

----------------------------------------------------------------------------
(* The last word *)

\* From s to r nothing changes that Told depends on.
Deaf(s, r) ==
  /\ r.toldTs = s.toldTs /\ r.srcPend = s.srcPend
  /\ r.connected = s.connected /\ r.srcQuit = s.srcQuit
  /\ r.refilter = s.refilter /\ r.fresh = s.fresh /\ r.done = s.done
  /\ r.proc = s.proc /\ r.job = s.job /\ r.dead = s.dead /\ r.sfs = s.sfs
  /\ r.sq = s.sq /\ r.sqa = s.sqa
  /\ s.crash # "assert" => r.crash # "assert"

LEMMA VoidDepends ==
  ASSUME NEW s, NEW r, Void(s),
         r.refilter = s.refilter, r.fresh = s.fresh, r.done = s.done,
         r.proc = s.proc, r.job = s.job, r.dead = s.dead, r.sfs = s.sfs
  PROVE  Void(r)
<1>1. Jobs(r) = Jobs(s)
  BY DEF Jobs
<1> QED
  BY <1>1 DEF Void, AreThereJobsRunning

LEMMA DeafTold ==
  ASSUME NEW s, NEW r, Deaf(s, r), Told(s) PROVE Told(r)
<1>1. Void(s) /\ Quitting(s)
  BY DEF Told
<1>2. Void(r)
  BY <1>1, VoidDepends DEF Deaf
<1>3. Quitting(r)
  BY <1>1 DEF Deaf, Quitting
<1> QED
  BY <1>2, <1>3 DEF Deaf, Told

\* With quit scheduled and nothing left to do, nothing is asked of the source.
LEMMA NothingToAsk ==
  ASSUME NEW s, Void(s), Quitting(s)
  PROVE  CheckStartExchange(s) = s
<1>1. s.refilter = <<>> /\ s.fresh = <<>> /\ s.done = <<>>
  BY DEF Void
<1>2. ~CanDoneTask(s)
  BY <1>1 DEF CanDoneTask, TodoEmpty
<1>3. ~(Len(s.done) >= DoneHigh)
  <2>1. Len(s.done) = 0
    BY <1>1
  <2> QED
    BY <2>1, ConfigAssumption
<1>4. ~MustConnect(s)
  BY <1>1, <1>2, <1>3 DEF MustConnect
<1> QED
  BY <1>4 DEF CheckStartExchange

\* And no task is found to start.
LEMMA NothingToStart ==
  ASSUME NEW s, Void(s), NEW lv PROVE CheckStartTasks(s, lv) = s
<1>1. Todo(s) = <<>>
  BY DEF Void, Todo
<1>2. \A S : FirstIn(<<>>, S) = NoTask
  BY DEF FirstIn
<1>3. GetTaskToStart(s) = NoTask
  BY <1>1, <1>2 DEF GetTaskToStart
<1> QED
  BY <1>3 DEF CheckStartTasks

\* _schedule() tells the source to quit once, when nothing is left to do.
LEMMA GoOnTalks ==
  ASSUME NEW s \in Members, Up(s), Exchange(s), Sound(s), Talking(s)
  PROVE  Talking(GoOnQuitting(s)) \/ Told(GoOnQuitting(s))
<1>1. Talking(ReSched([s EXCEPT !.toldIf = TRUE]))
  <2>1. Tacit(s, ReSched([s EXCEPT !.toldIf = TRUE]))
    BY DEF Tacit, ReSched
  <2> QED
    BY <2>1, TacitTalking
<1>2. ASSUME Quitting(s), MayQuit(s)
      PROVE  Told(TSDisconnect([s EXCEPT !.toldTs = TRUE], TRUE))
  <2> DEFINE a == [s EXCEPT !.toldTs = TRUE]
             r == TSDisconnect(a, TRUE)
  <2>1. Void(s)
    BY <1>2, MayQuitVoid
  <2>2. s.srcPend = "ANone" /\ ~s.connected
    BY <1>2 DEF MayQuit, Exchange
  <2>3. a \in Members /\ a.toldTs
    <3>1. a \in Members
      BY Write
    <3>2. a.toldTs = TRUE
      BY Written
    <3> QED
      BY <3>1, <3>2
  <2>4. /\ a.refilter = s.refilter /\ a.fresh = s.fresh /\ a.done = s.done
        /\ a.proc = s.proc /\ a.job = s.job /\ a.dead = s.dead /\ a.sfs = s.sfs
        /\ a.sq = s.sq /\ a.sqa = s.sqa /\ a.connected = s.connected
        /\ a.srcPend = s.srcPend /\ a.crash = s.crash
    OBVIOUS
  <2> HIDE DEF a
  <2>5. Check(a, a.srcPend = "ANone" /\ (a.srcConn \/ TRUE)) = a
    BY <2>2, <2>4 DEF Check
  <2>6. r = [a EXCEPT !.srcPend = "ADisconnect", !.pending = "ADisconnect",
                      !.srcQuit = TRUE]
    BY <2>5 DEF TSDisconnect
  <2>7. r.srcPend = "ADisconnect" /\ r.srcQuit = TRUE
    BY <2>3, <2>6 DEF Members
  <2> HIDE DEF r
  <2>8. /\ r.refilter = a.refilter /\ r.fresh = a.fresh /\ r.done = a.done
        /\ r.proc = a.proc /\ r.job = a.job /\ r.dead = a.dead /\ r.sfs = a.sfs
        /\ r.sq = a.sq /\ r.sqa = a.sqa /\ r.connected = a.connected
        /\ r.crash = a.crash /\ r.toldTs = a.toldTs
    BY <2>6
  <2>9. Void(r)
    BY <2>1, <2>4, <2>8, VoidDepends
  <2>10. Quitting(r)
    BY <1>2, <2>4, <2>8 DEF Quitting
  <2>11. ~r.connected /\ r.toldTs /\ r.crash # "assert"
    BY <2>2, <2>3, <2>4, <2>8 DEF Talking
  <2> QED
    BY <2>7, <2>9, <2>10, <2>11 DEF Told, r, a
<1>3. Talking(CheckStartExchange(s))
  BY CheckStartExchangeSays DEF Says
<1>4. s.connected /\ s.pending = "ANone" => Talking(GetOrDoneTask(s))
  <2>1. s.connected /\ s.pending = "ANone" => Idle(s)
    BY DEF Exchange, Idle
  <2> QED
    BY <2>1, GetOrDoneTalks
<1>5. ~s.toldTs
  BY DEF Talking
<1> QED
  BY <1>1, <1>2, <1>3, <1>4, <1>5, Zenon DEF GoOnQuitting

\* After that it only waits for the answer.
LEMMA GoOnTold ==
  ASSUME NEW s \in Members, Told(s), Exchange(s) PROVE Told(GoOnQuitting(s))
<1>1. Quitting(s) /\ Void(s) /\ ~s.connected /\ s.toldTs
  BY DEF Told
<1>2. CheckStartExchange(s) = s
  BY <1>1, NothingToAsk
<1>3. Deaf(s, ReSched([s EXCEPT !.toldIf = TRUE]))
  BY DEF Deaf, ReSched
<1>4. ASSUME NEW n PROVE Deaf(s, ActuallyQuit(s, n))
  BY DEF Deaf, ActuallyQuit, ReSched
<1>5. GoOnQuitting(s) \in {s, ReSched([s EXCEPT !.toldIf = TRUE]),
                           ActuallyQuit(s, Largest(s.sq, s.sqa) - 1)}
  BY <1>1, <1>2 DEF GoOnQuitting
<1> QED
  BY <1>3, <1>4, <1>5, DeafTold

----------------------------------------------------------------------------
(* No assertion fails *)

\* The answers of the source, until the last word.
LEMMA AnswersTalk ==
  ASSUME TypeOK, ExchangeAgrees, Talking(tm), SourceAnswers PROVE Talking(tm')
<1> DEFINE c == SrcConnected(tm)
           n == SrcNoTask(tm)
           d == SrcDisconnected(tm)
           h == SrcHandOut(tm)
           b == SrcTakeBack(tm)
<1>1. tm \in Members /\ Exchange(tm)
  BY AgreesMeansOrder DEF TypeOK
<1>2. tm.srcPend # "ANone"
  BY DEF SourceAnswers, SourceConnects, SourceHandsOut, SourceHasNoMore,
         SourceGetFails, SourceTakesBack, SourceDisconnects, SourceTurn
<1>3. /\ c.quitStep = tm.quitStep /\ n.quitStep = tm.quitStep
      /\ d.quitStep = tm.quitStep /\ h.quitStep = tm.quitStep
      /\ b.quitStep = tm.quitStep
      /\ \A skips : SrcGetFails(tm, skips).quitStep = tm.quitStep
  BY DEF SrcConnected, SrcNoTask, SrcDisconnected, SrcHandOut, SrcTakeBack,
         SrcGetFails
<1>5. CASE SourceConnects
  <2>1. tm' = TSConnected(c)
    BY <1>2, <1>3, <1>5, AnswerIsHandled DEF SourceConnects
  <2> QED
    BY <1>1, <1>5, <2>1, ConnectedTalks DEF SourceConnects, SourceTurn
<1>6. CASE SourceHandsOut
  <2>1. PICK lv : tm' = TSNotify(h, TSGotTask(h, tm.next, lv))
    BY <1>6 DEF SourceHandsOut
  <2>2. tm.next \in Frames
    BY <1>1, <1>6, Read, ConfigAssumption DEF SourceHandsOut, Frames
  <2>3. tm' = TSGotTask(h, tm.next, lv)
    BY <1>2, <1>3, <2>1, AnswerIsHandled
  <2> QED
    BY <1>1, <1>6, <2>2, <2>3, GotTaskTalks DEF SourceHandsOut, SourceTurn
<1>7. CASE SourceHasNoMore
  <2>1. tm' = TSNoMoreTasks(n)
    BY <1>2, <1>3, <1>7, AnswerIsHandled DEF SourceHasNoMore
  <2> QED
    BY <1>1, <1>7, <2>1, NoTaskTalks DEF SourceHasNoMore, SourceTurn
<1>8. CASE SourceGetFails
  <2>1. PICK skips \in BOOLEAN : tm' = TSNotify(SrcGetFails(tm, skips),
                                       TSGetFailed(SrcGetFails(tm, skips)))
    BY <1>8 DEF SourceGetFails
  <2>2. tm' = TSGetFailed(SrcGetFails(tm, skips))
    BY <1>2, <1>3, <2>1, AnswerIsHandled
  <2> QED
    BY <1>1, <1>8, <2>2, NoTaskTalks DEF SourceGetFails, SourceTurn
<1>9. CASE SourceTakesBack
  <2>1. tm' = TSTookDone(b)
    BY <1>2, <1>3, <1>9, AnswerIsHandled DEF SourceTakesBack
  <2> QED
    BY <1>1, <1>9, <2>1, TookDoneTalks DEF SourceTakesBack, SourceTurn
<1>10. CASE SourceDisconnects
  <2>1. tm' = TSDisconnected(d, tm.srcQuit)
    BY <1>2, <1>3, <1>10, AnswerIsHandled DEF SourceDisconnects
  <2>2. tm.toldTs <=> tm.srcQuit
    BY <1>10 DEF SourceDisconnects, SourceTurn, Talking
  <2> QED
    BY <2>1, <2>2, DisconnectedSaid DEF Talking
<1> QED
  BY <1>5, <1>6, <1>7, <1>8, <1>9, <1>10 DEF SourceAnswers

\* _schedule() may say the last word.
LEMMA ScheduleTalks ==
  ASSUME NEW s \in Members, Up(s), Exchange(s), Sound(s), Talking(s),
         NEW forked, NEW lv
  PROVE  LET r == Schedule(s, forked, lv) IN Talking(r) \/ Told(r)
<1> DEFINE a == [s EXCEPT !.tid0 = FALSE]
           k == KillJobs(a)
           l == LaunchScheduled(k, forked, lv)
<1>1. /\ k \in Members /\ Up(k) /\ Exchange(k)
      /\ l \in Members /\ Up(l) /\ Exchange(l)
      /\ Schedule(s, forked, lv) = GoOnQuitting(l)
  BY ScheduleGoesOn DEF AtQuit
<1>2. a \in Members /\ Tacit(s, a)
  <2>1. a \in Members
    BY Write
  <2>2. Tacit(s, a)
    BY DEF Tacit
  <2> QED
    BY <2>1, <2>2
<1>3. Calm(s, a)
  BY DEF Calm, Still
<1> HIDE DEF a
<1>4. Talking(k) /\ Sound(k)
  <2>1. Tacit(a, k)
    BY <1>2, QuietTacit
  <2>2. Moves(s, a) /\ Moves(a, k)
    BY <1>3, Quiet, CalmMoves
  <2> QED
    BY <1>2, <2>1, <2>2, TacitTalking DEF Moves
<1> HIDE DEF k
<1>5. Talking(l) /\ Sound(l)
  BY <1>1, <1>4, LaunchSays, LaunchScheduledMoves DEF Says, Moves, Up
<1> HIDE DEF l
<1> QED
  BY <1>1, <1>5, GoOnTalks DEF l, k, a

\* Every step goes on with the talk or says the last word.
LEMMA TalkingStep ==
  ASSUME TypeOK, ExchangeAgrees, InHand, RunsWell, tm.quitStep = 0, Talking(tm),
         [Next]_vars
  PROVE  Talking(tm') \/ Told(tm')
<1>1. /\ tm \in Members /\ Exchange(tm) /\ Sound(tm) /\ Await(tm) /\ Unstarted(tm)
  BY AgreesMeansOrder
     DEF TypeOK, InHand, RunsWell, StartAwaited, NotYetStarted
<1>2. CASE ~tm.started
  <2> DEFINE r == [Fresh EXCEPT !.tid0 = FALSE, !.started = TRUE]
  <2>1. r \in Members /\ Exchange(r) /\ Talking(r) /\ StartProcessing(Fresh) = TSConnect(r)
    BY StartConnects
  <2>2. ~r.connected /\ r.srcPend = "ANone" /\ ~r.srcConn
    BY DEF Fresh
  <2> HIDE DEF r
  <2>3. Talking(TSConnect(r))
    <3> DEFINE q == TSConnect(r)
    <3>1. q = [r EXCEPT !.srcPend = "AConnect", !.pending = "AConnect"]
      BY <2>2 DEF TSConnect, Check
    <3>2. q.srcPend = "AConnect"
      BY <3>1, <2>1 DEF Members
    <3> HIDE DEF q
    <3>3. q.crash = r.crash /\ q.toldTs = r.toldTs
      BY <3>1
    <3>4. Talking(q)
      BY <2>1, <3>2, <3>3 DEF Talking
    <3> QED
      BY <3>4 DEF q
  <2>4. Talking(Fresh) /\ Talking([Fresh EXCEPT !.crash = "nullif"])
    BY DEF Fresh, Talking
  <2> QED
    BY <1>1, <1>2, <2>1, <2>3, <2>4, FirstStep
<1> SUFFICES ASSUME Up(tm) PROVE Talking(tm') \/ Told(tm')
  BY <1>2 DEF Up
<1>3. ASSUME Tacit(tm, tm') \/ Says(tm, tm') PROVE Talking(tm')
  BY <1>1, <1>3, TacitTalking DEF Says
<1>4. Tacit(tm, tm)
  BY DEF Tacit
<1>5. CASE SourceAnswers
  BY <1>5, AnswersTalk
<1>6. CASE ManagerSchedules
  BY <1>1, <1>6, ScheduleTalks DEF ManagerSchedules
<1>7. CASE RoundEnds
  <2>1. PICK lv \in Readings : tm' = IF tm.dead = {} THEN tm ELSE TidyUp(tm, lv)
    BY <1>7 DEF RoundEnds
  <2>2. Tacit(tm, TidyUp(tm, lv))
    BY <1>1, QuietTacit
  <2>3. Tacit(tm, tm')
    BY <1>4, <2>1, <2>2, Zenon
  <2> QED
    BY <1>3, <2>3
<1>8. CASE \E lv \in Readings : ManagerPollsLoad(lv)
  <2>1. PICK lv : tm' = LoadPoll(tm, lv) /\ tm.poll
    BY <1>8 DEF ManagerPollsLoad
  <2>2. ~tm.load
    BY <1>1, <2>1 DEF Await
  <2> QED
    BY <1>1, <1>3, <2>1, <2>2, LoadPollTacit
<1>9. ASSUME NEW t \in Frames,
             JobExecutes(t) \/ JobExecFails(t) \/ JobEnds(t) \/ JobTimesOut(t)
      PROVE  Talking(tm')
  <2>1. CASE JobExecutes(t)
    <3> DEFINE x == [tm EXCEPT !.job[t] = "running"]
    <3>1. PICK lv : tm' = LaunchingTaskDone(x, lv)
      BY <2>1 DEF JobExecutes
    <3>2. x \in Members
      BY <1>1, WriteAt
    <3>3. Keeps(tm, x) /\ Tacit(tm, x)
      <4>1. Up(tm)
        OBVIOUS
      <4>2. Keeps(tm, x)
        BY <4>1 DEF Keeps, Quitting
      <4>3. Tacit(tm, x)
        BY DEF Tacit
      <4> QED
        BY <4>2, <4>3
    <3> HIDE DEF x
    <3>4. Says(tm, x) /\ Says(x, LaunchingTaskDone(x, lv))
      BY <3>2, <3>3, QuietSays, LaunchingSays
    <3> QED
      BY <1>3, <3>1, <3>4, SaysTrans
  <2>2. CASE JobExecFails(t) \/ JobEnds(t)
    <3>1. PICK ok \in BOOLEAN, resume \in BOOLEAN, lv \in Readings :
            tm' = JobExited(tm, t, ok, resume, lv)
      BY <2>2 DEF JobExecFails, JobEnds
    <3> QED
      BY <1>1, <1>3, <3>1, JobExitedSays
  <2>3. CASE JobTimesOut(t)
    BY <1>1, <1>3, <2>3, QuietTacit DEF JobTimesOut
  <2> QED
    BY <1>9, <2>1, <2>2, <2>3
<1>10. CASE User
  <2>1. PICK lv : tm' \in {SigInt(tm), SigTerm(tm), SigTstp(tm), SigCont(tm, lv)}
    BY <1>10 DEF User, UserInterrupts, UserTerminates, UserStops, UserContinues
  <2> QED
    BY <1>1, <2>1, SignalsTalk
<1>11. CASE Gone \/ UNCHANGED vars
  BY <1>3, <1>4, <1>11 DEF Gone, vars
<1> QED
  BY <1>5, <1>6, <1>7, <1>8, <1>9, <1>10, <1>11 DEF Next, MainLoop

\* Signals schedule another quit at most, which needs no further word.
LEMMA QuitTold ==
  ASSUME NEW s \in Members, Told(s)
  PROVE  Told(ScheduleQuit(s)) /\ Told(ScheduleKill(s))
<1>1. /\ s.refilter = <<>> /\ s.fresh = <<>> /\ s.done = <<>> /\ s.sfs = NoTask
      /\ Void(s) /\ Quitting(s) /\ s.toldTs /\ s.crash # "assert" /\ ~s.connected
      /\ s.srcPend # "ANone" => s.srcPend = "ADisconnect" /\ s.srcQuit
  BY DEF Told, Void
<1>2. ASSUME NEW r, r.sq > 0,
             r.refilter = <<>>, r.fresh = s.fresh, r.done = <<>>,
             r.proc = s.proc, r.job = s.job, r.dead = s.dead, r.sfs = s.sfs,
             r.connected = s.connected, r.srcPend = s.srcPend,
             r.srcQuit = s.srcQuit, r.crash = s.crash, r.toldTs = s.toldTs
      PROVE  Told(r)
  <2>1. Void(r)
    BY <1>1, <1>2, VoidDepends
  <2>2. r.toldTs
    BY <1>1, <1>2
  <2> QED
    BY <1>1, <1>2, <2>1, <2>2 DEF Told, Quitting
<1>3. Told(ScheduleQuit(s))
  <2> DEFINE n == IF s.sq = 0 THEN 1 ELSE s.sq
             r == [s EXCEPT !.sq = n]
  <2>1. n > 0
    BY Read
  <2> HIDE DEF n
  <2>2. r.sq = n
    BY Written
  <2>3. /\ r.refilter = s.refilter /\ r.fresh = s.fresh /\ r.done = s.done
        /\ r.proc = s.proc /\ r.job = s.job /\ r.dead = s.dead /\ r.sfs = s.sfs
        /\ r.connected = s.connected /\ r.srcPend = s.srcPend
        /\ r.srcQuit = s.srcQuit /\ r.crash = s.crash /\ r.toldTs = s.toldTs
    OBVIOUS
  <2>4. ScheduleQuit(s) = r
    BY <1>1, <2>3 DEF ScheduleQuit, KillScheduledForStart, n
  <2> HIDE DEF r
  <2>5. Told(r)
    BY <1>1, <1>2, <2>1, <2>2, <2>3
  <2> QED
    BY <2>4, <2>5
<1>4. Told(ScheduleKill(s))
  <2> DEFINE d == DontStartMoreTasks(s)
             r == ScheduleKill(s)
  <2>1. d \in Members
    BY DontStartTyped
  <2>2. /\ d.refilter = <<>> /\ d.fresh = s.fresh /\ d.done = s.done \o s.refilter
        /\ d.proc = s.proc /\ d.job = s.job /\ d.sfs = NoTask
    BY DontStartIs
  <2>3. /\ d.dead = s.dead /\ d.connected = s.connected /\ d.srcPend = s.srcPend
        /\ d.srcQuit = s.srcQuit /\ d.crash = s.crash /\ d.toldTs = s.toldTs
    BY DEF DontStartMoreTasks, KillScheduledForStart
  <2>4. d.done = <<>>
    BY <1>1, <2>2
  <2>5. r = [d EXCEPT !.sq = 2, !.killTasks = TRUE, !.abortOn = TRUE]
    BY DEF ScheduleKill
  <2> HIDE DEF d, r
  <2>6. r.sq = 2
    BY <2>1, <2>5 DEF Members
  <2>7. /\ r.refilter = d.refilter /\ r.fresh = d.fresh /\ r.done = d.done
        /\ r.proc = d.proc /\ r.job = d.job /\ r.dead = d.dead /\ r.sfs = d.sfs
        /\ r.connected = d.connected /\ r.srcPend = d.srcPend
        /\ r.srcQuit = d.srcQuit /\ r.crash = d.crash /\ r.toldTs = d.toldTs
    BY <2>5
  <2>8. r.sq > 0
    BY <2>6
  <2>9. /\ r.refilter = <<>> /\ r.fresh = s.fresh /\ r.done = <<>>
        /\ r.proc = s.proc /\ r.job = s.job /\ r.dead = s.dead /\ r.sfs = s.sfs
        /\ r.connected = s.connected /\ r.srcPend = s.srcPend
        /\ r.srcQuit = s.srcQuit /\ r.crash = s.crash /\ r.toldTs = s.toldTs
    BY <1>1, <2>2, <2>3, <2>4, <2>7
  <2>10. Told(r)
    BY <1>2, <2>8, <2>9
  <2> QED
    BY <2>10 DEF r
<1> QED
  BY <1>3, <1>4

\* What else a handler may do that Told does not depend on.
LEMMA DeafIs ==
  ASSUME NEW s \in Members
  PROVE  /\ Deaf(s, s) /\ Deaf(s, ReSched(s))
         /\ \A how : how # "assert" => Deaf(s, Die(s, how))
         /\ \A v : Deaf(s, [s EXCEPT !.caught = v]) /\ Deaf(s, [s EXCEPT !.stopped = v])
<1>1. Deaf(s, s) /\ Deaf(s, ReSched(s))
  BY DEF Deaf, ReSched
<1>2. ASSUME NEW how, how # "assert" PROVE Deaf(s, Die(s, how))
  <2>1. s.crash # "assert" => Die(s, how).crash # "assert"
    BY <1>2, DieTacit DEF Tacit
  <2> QED
    BY <2>1 DEF Deaf, Die
<1>3. \A v : Deaf(s, [s EXCEPT !.caught = v]) /\ Deaf(s, [s EXCEPT !.stopped = v])
  BY DEF Deaf
<1> QED
  BY <1>1, <1>2, <1>3

\* The handlers of signals after the last word.
LEMMA SignalsTold ==
  ASSUME NEW s \in Members, Told(s), NEW lv
  PROVE  \A r \in {SigInt(s), SigTerm(s), SigTstp(s), SigCont(s, lv)} : Told(r)
<1>1. Told(Die(s, "abort")) /\ Told(Die(s, "nullif"))
  BY DeafIs, DeafTold
<1>2. ASSUME NEW p \in Members, Told(p) PROVE Told(ReSched(p))
  BY <1>2, DeafIs, DeafTold
<1>3. /\ ScheduleQuit(s) \in Members /\ ScheduleKill(s) \in Members
      /\ Told(ScheduleQuit(s)) /\ Told(ScheduleKill(s))
  BY QuitTold, ScheduleQuitTyped, ScheduleKillTyped
<1>4. Told(SigInt(s))
  <2> DEFINE p == [ScheduleQuit(s) EXCEPT !.caught = 1]
             q == [ScheduleKill(s) EXCEPT !.caught = 2]
  <2>1. p \in Members /\ q \in Members
    BY <1>3, WriteNumber
  <2>2. Told(p) /\ Told(q)
    BY <1>3, DeafIs, DeafTold
  <2> HIDE DEF p, q
  <2>3. Told(ReSched(p)) /\ Told(ReSched(q))
    BY <1>2, <2>1, <2>2
  <2> QED
    BY <1>1, <2>3 DEF SigInt, OnSignal, p, q
<1>5. Told(SigTerm(s))
  <2>1. Told(ScheduleKill(ScheduleQuit(s))) /\ ScheduleKill(ScheduleQuit(s)) \in Members
    BY <1>3, QuitTold, ScheduleKillTyped
  <2> QED
    BY <1>1, <1>2, <2>1 DEF SigTerm, OnSignal
<1>6. Told(SigTstp(s))
  <2>1. Told([s EXCEPT !.stopped = TRUE])
    BY DeafIs, DeafTold
  <2> QED
    BY <1>1, <2>1 DEF SigTstp, OnSignal
<1>7. Told(SigCont(s, lv))
  <2> DEFINE a == [s EXCEPT !.stopped = FALSE]
  <2>1. a \in Members
    BY Write
  <2>2. Told(a)
    BY DeafIs, DeafTold
  <2> HIDE DEF a
  <2>3. CheckStartTasks(CheckStartExchange(a), lv) = a
    BY <2>2, NothingToAsk, NothingToStart DEF Told
  <2>4. Told(ReSched(CheckStartTasks(CheckStartExchange(a), lv)))
    BY <1>2, <2>1, <2>2, <2>3
  <2> QED
    BY <1>1, <2>4 DEF SigCont, OnSignal, a
<1> QED
  BY <1>4, <1>5, <1>6, <1>7

\* _schedule() after the last word; the cleanup finds nothing running and
\* nothing outstanding.
LEMMA ScheduleTold ==
  ASSUME NEW s \in Members, Exchange(s), Counted(s), Told(s), s.started,
         NEW forked, NEW lv
  PROVE  Told(Schedule(s, forked, lv))
<1>1. Void(s) /\ s.crash # "assert"
  BY DEF Told
<1>2. CASE s.quitStep > 0
  <2>1. s.srcPend = "ANone"
    BY <1>2 DEF Exchange
  <2>2. RunningJobs(s) = 0
    BY <1>1, ProcSize, FS_EmptySet DEF Void
  <2>3. DestructCleanup(s) = s
    BY <1>1, <2>1, <2>2 DEF DestructCleanup, Check, Void
  <2>4. Schedule(s, forked, lv) = [s EXCEPT !.quitStep = @ + 1]
    BY <1>2, <2>3 DEF Schedule, QuitCountdown
  <2>5. Deaf(s, [s EXCEPT !.quitStep = @ + 1])
    BY DEF Deaf
  <2> QED
    BY <2>4, <2>5, DeafTold
<1>3. CASE ~(s.quitStep > 0)
  <2> DEFINE a == [s EXCEPT !.tid0 = FALSE]
             k == KillJobs(a)
  <2>1. Up(s)
    BY <1>3, Read DEF Up
  <2>2. /\ k \in Members /\ Exchange(k)
        /\ Schedule(s, forked, lv) = GoOnQuitting(LaunchScheduled(k, forked, lv))
    BY <2>1, ScheduleGoesOn DEF AtQuit
  <2>3. Deaf(s, a)
    BY DEF Deaf
  <2>4. a.dead = {}
    BY <1>1 DEF Void, AreThereJobsRunning
  <2> HIDE DEF a
  <2>5. Deaf(a, k)
    <3>1. "forked" \notin a.dead
      BY <2>4
    <3> QED
      BY <3>1 DEF Deaf, KillJobs, TermAllJobs
  <2> HIDE DEF k
  <2>6. Told(k)
    BY <2>3, <2>5, DeafTold
  <2>7. LaunchScheduled(k, forked, lv) = k
    BY <2>6 DEF Told, Void, LaunchScheduled
  <2> QED
    BY <2>2, <2>6, <2>7, GoOnTold
<1> QED
  BY <1>2, <1>3

\* After the last word nothing is said any more, and no assertion fails.
LEMMA ToldStep ==
  ASSUME TypeOK, ExchangeAgrees, RunsWell, Told(tm), [Next]_vars
  PROVE  Told(tm')
<1>1. /\ tm \in Members /\ Exchange(tm) /\ Await(tm) /\ Unstarted(tm) /\ Counted(tm)
  BY AgreesMeansOrder
     DEF TypeOK, RunsWell, JobsInOrder, InOrder, Steady, StartAwaited, NotYetStarted
<1>2. /\ tm.toldTs /\ tm.crash # "assert" /\ Quitting(tm) /\ ~tm.connected
      /\ tm.srcPend # "ANone" => tm.srcPend = "ADisconnect" /\ tm.srcQuit
      /\ tm.dead = {} /\ Jobs(tm) = {} /\ tm.sfs = NoTask /\ Void(tm)
  BY DEF Told, Void, AreThereJobsRunning
<1>3. tm.started
  BY <1>1, <1>2 DEF Unstarted, Fresh
<1>4. CASE SourceAnswers
  <2> DEFINE d == SrcDisconnected(tm)
             r == TSDisconnected(d, tm.srcQuit)
  <2>1. SourceDisconnects
    BY <1>2, <1>4 DEF SourceAnswers, SourceConnects, SourceHandsOut,
       SourceHasNoMore, SourceGetFails, SourceTakesBack, SourceTurn
  <2>2. tm.srcPend # "ANone" /\ d.quitStep = tm.quitStep
    BY <2>1 DEF SourceDisconnects, SourceTurn, SrcDisconnected
  <2>3. tm' = r
    BY <2>1, <2>2, AnswerIsHandled DEF SourceDisconnects
  <2>4. tm.crash # "assert" /\ (tm.toldTs <=> tm.srcQuit)
    BY <1>2, <2>2
  <2>5. /\ r.srcPend = "ANone" /\ r.crash # "assert" /\ r.toldTs = tm.toldTs
        /\ ~r.connected
        /\ r.refilter = tm.refilter /\ r.fresh = tm.fresh /\ r.done = tm.done
        /\ r.proc = tm.proc /\ r.job = tm.job /\ r.dead = tm.dead
        /\ r.sfs = tm.sfs /\ r.sq = tm.sq /\ r.sqa = tm.sqa
    BY <2>4, DisconnectedSaid
  <2> HIDE DEF r
  <2>6. Void(r)
    BY <1>2, <2>5, VoidDepends
  <2>7. r.toldTs /\ Quitting(r)
    BY <1>2, <2>5 DEF Quitting
  <2> QED
    BY <2>3, <2>5, <2>6, <2>7 DEF Told
<1>5. CASE ManagerSchedules
  BY <1>1, <1>3, <1>5, ScheduleTold DEF ManagerSchedules
<1>6. CASE RoundEnds \/ Gone \/ UNCHANGED vars
  BY <1>2, <1>6 DEF RoundEnds, Gone, vars
<1>7. ~\E lv \in Readings : ManagerPollsLoad(lv)
  BY <1>1, <1>2 DEF ManagerPollsLoad, Await
<1>8. ~\E t \in Frames : JobExecutes(t) \/ JobExecFails(t)
                         \/ JobEnds(t) \/ JobTimesOut(t)
  BY <1>2 DEF JobExecutes, JobExecFails, JobEnds, JobTimesOut, Jobs
<1>9. CASE User
  <2>1. PICK lv : tm' \in {SigInt(tm), SigTerm(tm), SigTstp(tm), SigCont(tm, lv)}
    BY <1>9 DEF User, UserInterrupts, UserTerminates, UserStops, UserContinues
  <2> QED
    BY <1>1, <2>1, SignalsTold
<1> QED
  BY <1>4, <1>5, <1>6, <1>7, <1>8, <1>9 DEF Next, MainLoop

\* The source is told to quit once, when nothing is left to do, and from then
\* on nothing is asked of it.
THEOREM LastWordsHold == Spec => []LastWords
<1>1. Init => LastWords
  BY DEF Init, Fresh, LastWords, Talking
<1>2. /\ TypeOK /\ ExchangeAgrees /\ InHand /\ RunsWell
      /\ (tm.quitStep > 0 => LeftClean(tm)) /\ LastWords /\ [Next]_vars
      => LastWords'
  <2> SUFFICES ASSUME TypeOK, ExchangeAgrees, InHand, RunsWell,
                      tm.quitStep > 0 => LeftClean(tm), LastWords, [Next]_vars
               PROVE  Talking(tm') \/ Told(tm')
    BY DEF LastWords
  <2>1. CASE Told(tm)
    BY <2>1, ToldStep
  <2>2. CASE Talking(tm)
    <3>1. tm.quitStep \in 0..5
      BY Read DEF TypeOK
    <3>2. tm.quitStep = 0
      BY <2>2, <3>1 DEF Talking, LeftClean
    <3> QED
      BY <2>2, <3>2, TalkingStep
  <2> QED
    BY <2>1, <2>2 DEF LastWords
<1> QED
  BY <1>1, <1>2, LeftCleanHolds, RendViewTyped, ExchangeHolds, InHandHolds,
     RunsWellHolds, PTL DEF Spec

\* No assertion of manager, interface or source fails: each request meets a
\* source that is connected and has nothing outstanding, each answer is the one
\* that is waited for, and at the end nothing is left running.
THEOREM NoAssertionHolds == Spec => []NoAssertionFails
<1>1. LastWords => NoAssertionFails
  BY DEF LastWords, Talking, Told, NoAssertionFails
<1> QED
  BY <1>1, LastWordsHold, PTL

----------------------------------------------------------------------------
(* An honest account *)

\* From s to r the account stays honest.
Fair(s, r) == Plain(r) => Plain(s) /\ (Straight(s) => Straight(r))

LEMMA FairHonest ==
  ASSUME NEW s, NEW r, Fair(s, r), Honest(s) PROVE Honest(r)
  BY DEF Fair, Honest

LEMMA FairTrans ==
  ASSUME NEW s, NEW r, NEW q, Fair(s, r), Fair(r, q) PROVE Fair(s, q)
  BY DEF Fair

\* A task that goes back was on its way before, or was worked on.
LEMMA FairMoves ==
  ASSUME NEW s, NEW r,
         r.caught = s.caught, r.sq = s.sq, r.sqa = s.sqa, r.dsmt = s.dsmt,
         s.fresh = <<>> => r.fresh = <<>>, r.next = s.next,
         r.srcPend = "AGetTask" => s.srcPend = "AGetTask",
         \A u \in Frames :
           Count(r.done, u) > 0 \/ u = r.srcDone =>
             \/ Worked(r, u)
             \/ /\ Count(s.done, u) > 0 \/ u = s.srcDone
                /\ Worked(s, u) => Worked(r, u)
  PROVE  Fair(s, r)
<1>1. Plain(r) => Plain(s)
  BY DEF Plain
<1>2. ASSUME Straight(s) PROVE Straight(r)
  <2>1. ~r.dsmt
    BY <1>2 DEF Straight
  <2>2. /\ r.sq = 1 => r.sqa = 1 /\ r.fresh = <<>>
        /\ r.sqa = 1 => r.next > NFrames /\ r.srcPend # "AGetTask"
    BY <1>2 DEF Straight
  <2>3. \A u \in Frames : Count(r.done, u) > 0 \/ u = r.srcDone => Worked(r, u)
    BY <1>2 DEF Straight
  <2> QED
    BY <2>1, <2>2, <2>3 DEF Straight
<1> QED
  BY <1>1, <1>2 DEF Fair

\* From s to r nothing changes that the account depends on.
Level(s, r) ==
  /\ r.caught = s.caught /\ r.sq = s.sq /\ r.sqa = s.sqa /\ r.dsmt = s.dsmt
  /\ r.fresh = s.fresh /\ r.next = s.next
  /\ r.srcPend = "AGetTask" => s.srcPend = "AGetTask"
  /\ r.done = s.done /\ r.srcDone = s.srcDone
  /\ r.stage = s.stage /\ r.rtes = s.rtes /\ r.ftes = s.ftes

LEMMA LevelFair == ASSUME NEW s, NEW r, Level(s, r) PROVE Fair(s, r)
<1>1. \A u : Worked(s, u) => Worked(r, u)
  BY DEF Level, Worked
<1>2. \A u : Count(r.done, u) > 0 \/ u = r.srcDone =>
             Count(s.done, u) > 0 \/ u = s.srcDone
  BY DEF Level
<1> QED
  BY <1>1, <1>2, FairMoves DEF Level

LEMMA LevelTrans ==
  ASSUME NEW s, NEW r, NEW q, Level(s, r), Level(r, q) PROVE Level(s, q)
  BY DEF Level

\* Member functions that only say, start or stop something.
LEMMA LevelIs ==
  ASSUME NEW s \in Members, NEW t, NEW lv, NEW x
  PROVE  /\ Level(s, s) /\ Level(s, ReSched(s)) /\ Level(s, Check(s, x))
         /\ x # "none" => Level(s, Die(s, x))
         /\ Level(s, KillScheduledForStart(s)) /\ Level(s, DoCheckLoad(s, lv))
         /\ Level(s, CheckStartTasks(s, lv)) /\ Level(s, CheckStartExchange(s))
         /\ Level(s, TSDisconnect(s, x)) /\ Level(s, ActuallyQuit(s, x))
         /\ Level(s, Answered(s)) /\ Level(s, SrcConnected(s))
         /\ Level(s, SrcNoTask(s)) /\ Level(s, SrcDisconnected(s))
         /\ Level(s, LoadPoll(s, lv)) /\ Level(s, KillJobs(s))
         /\ Level(s, KillProcess(s, t, x)) /\ Level(s, ForkJob(s, t))
<1>1. ASSUME NEW r, Calm(s, r), Unmoved(s, r), r.caught = s.caught, r.sqa = s.sqa
      PROVE  Level(s, r)
  BY <1>1 DEF Calm, Still, Unmoved, Level
<1>2. ASSUME NEW r, Calm(s, r), r.caught = s.caught, r.sqa = s.sqa,
             r.srcPend = s.srcPend
      PROVE  Level(s, r)
  BY <1>2 DEF Calm, Still, Level
<1>3. \A p, v : /\ Level(p, p) /\ Level(p, [p EXCEPT !.sfs = v])
                /\ Level(p, [p EXCEPT !.poll = v]) /\ Level(p, ReSched(p))
  BY DEF Level, ReSched
<1>4. \A p, v : Level(p, Check(p, v)) /\ Level(p, Die(p, v))
  BY DEF Level, Check, Die
<1>5. \A p : Level(p, KillScheduledForStart(p)) /\ Level(p, DoCheckLoad(p, lv))
  BY DEF Level, KillScheduledForStart, DoCheckLoad
<1>6. Level(s, CheckStartTasks(s, lv))
  <2> DEFINE a == [s EXCEPT !.sfs = GetTaskToStart(s)]
             d == DoCheckLoad(a, lv)
             b == [d EXCEPT !.poll = TRUE]
  <2>1. Level(s, a) /\ Level(a, d)
    BY <1>3, <1>5
  <2>2. Level(d, ReSched(d)) /\ Level(d, b)
    BY <1>3
  <2>3. CheckStartTasks(s, lv) \in {s, ReSched(d), b}
    BY DEF CheckStartTasks, DoScheduleForStart
  <2> HIDE DEF a, d, b
  <2>4. Level(s, d)
    BY <2>1, LevelTrans
  <2>5. Level(s, ReSched(d)) /\ Level(s, b)
    BY <2>2, <2>4, LevelTrans
  <2> QED
    BY <1>3, <2>3, <2>5
<1>7. Level(s, CheckStartExchange(s))
  <2>1. CheckStartExchange(s).caught = s.caught /\ CheckStartExchange(s).sqa = s.sqa
    BY DEF CheckStartExchange, TSConnect, Check, Die
  <2> QED
    BY <1>1, <2>1, Quiet, UnmovedIs
<1>8. Level(s, TSDisconnect(s, x))
  <2>1. TSDisconnect(s, x).caught = s.caught /\ TSDisconnect(s, x).sqa = s.sqa
    BY DEF TSDisconnect, Check, Die
  <2> QED
    BY <1>1, <2>1, Quiet, UnmovedIs
<1>9. Level(s, ActuallyQuit(s, x)) /\ Level(s, Answered(s))
  BY DEF Level, ActuallyQuit, ReSched, Answered
<1>10. Level(s, SrcConnected(s)) /\ Level(s, SrcNoTask(s)) /\ Level(s, SrcDisconnected(s))
  <2>1. LET r == SrcConnected(s) IN r.caught = s.caught /\ r.sqa = s.sqa
    BY DEF SrcConnected
  <2>2. LET r == SrcNoTask(s) IN r.caught = s.caught /\ r.sqa = s.sqa
    BY DEF SrcNoTask
  <2>3. LET r == SrcDisconnected(s) IN r.caught = s.caught /\ r.sqa = s.sqa
    BY DEF SrcDisconnected
  <2> QED
    BY <1>1, <2>1, <2>2, <2>3, Quiet, UnmovedIs
<1>11. Level(s, LoadPoll(s, lv))
  <2>1. LET r == LoadPoll(s, lv)
        IN  r.caught = s.caught /\ r.sqa = s.sqa /\ r.srcPend = s.srcPend
    BY DEF LoadPoll, DoCheckLoad, Check, Die, ReSched
  <2> QED
    BY <1>2, <2>1, Quiet
<1>12. Level(s, KillJobs(s))
  <2>1. LET r == KillJobs(s)
        IN  r.caught = s.caught /\ r.sqa = s.sqa /\ r.srcPend = s.srcPend
    BY DEF KillJobs, TermAllJobs, Die
  <2> QED
    BY <1>2, <2>1, Quiet
<1>13. Level(s, KillProcess(s, t, x)) /\ Level(s, ForkJob(s, t))
  BY DEF Level, KillProcess, ForkJob
<1> QED
  BY <1>3, <1>4, <1>5, <1>6, <1>7, <1>8, <1>9, <1>10, <1>11, <1>12, <1>13

\* What comes from done was worked on.
LEMMA GiveBackDoneFair ==
  ASSUME NEW s \in Members, s.done # <<>> PROVE Fair(s, GiveBackDone(s))
<1> DEFINE t == Head(s.done)
           x == [s EXCEPT !.done = Tail(@), !.tsgod = "ADoneTask"]
           r == TSDoneTask(x, t)
<1>1. t \in Frames /\ Tail(s.done) \in Seq(Frames)
  BY Read, CountTail
<1>2. x.done = Tail(s.done)
  BY DEF Members
<1>3. x \in Members
  <2> DEFINE y == [s EXCEPT !.done = Tail(@)]
  <2>1. y \in Members
    BY <1>1, Write
  <2>2. x = [y EXCEPT !.tsgod = "ADoneTask"]
    OBVIOUS
  <2> HIDE DEF y, x
  <2> QED
    BY <2>1, <2>2, Write DEF Actions
<1>4. /\ x.caught = s.caught /\ x.sq = s.sq /\ x.sqa = s.sqa /\ x.dsmt = s.dsmt
      /\ x.fresh = s.fresh /\ x.next = s.next
      /\ x.stage = s.stage /\ x.rtes = s.rtes /\ x.ftes = s.ftes
  OBVIOUS
<1> HIDE DEF x, t
<1>5. /\ r.srcDone = t /\ r.fresh = x.fresh /\ r.done = x.done /\ r.next = x.next
      /\ r.stage = x.stage /\ r.rtes = x.rtes /\ r.ftes = x.ftes
      /\ r.sq = x.sq /\ r.dsmt = x.dsmt
  BY <1>1, <1>3, DoneTaskIs
<1>6. r.caught = x.caught /\ r.sqa = x.sqa /\ r.srcPend # "AGetTask"
  BY <1>3 DEF TSDoneTask, Check, Die, Members
<1> HIDE DEF r
<1>7. \A u : Worked(s, u) => Worked(r, u)
  BY <1>4, <1>5 DEF Worked
<1>8. ASSUME NEW u \in Frames, Count(r.done, u) > 0 \/ u = r.srcDone
      PROVE  Count(s.done, u) > 0
  <2>0. s.done \in Seq(Frames)
    BY Read
  <2>1. /\ Count(s.done, u) = Count(Tail(s.done), u) + (IF u = t THEN 1 ELSE 0)
        /\ Count(Tail(s.done), u) \in Nat
    <3>1. Count(s.done, u) = Count(Tail(s.done), u) + (IF u = t THEN 1 ELSE 0)
      BY <2>0, CountTail DEF t
    <3>2. Count(Tail(s.done), u) \in Nat
      BY <1>1, CountType
    <3> QED
      BY <3>1, <3>2
  <2>2. Count(Tail(s.done), u) > 0 \/ u = t
    BY <1>2, <1>5, <1>8
  <2> QED
    BY <2>1, <2>2
<1>9. Fair(s, r)
  BY <1>4, <1>5, <1>6, <1>7, <1>8, FairMoves
<1> QED
  BY <1>9 DEF GiveBackDone, r, x, t

\* _TS_GetOrDoneTask(): no task is given up in a run nobody interrupts, and
\* with quit scheduled none is asked for.
LEMMA GetOrDoneFair ==
  ASSUME NEW s \in Members PROVE Fair(s, GetOrDoneTask(s))
<1>1. \A p, c : Fair(p, Check(p, c))
  <2>1. \A p, c : Level(p, Check(p, c))
    BY DEF Level, Check, Die
  <2> QED
    BY <2>1, LevelFair
<1>2. s.done # <<>> => Fair(s, GiveBackDone(s))
  BY GiveBackDoneFair
<1>3. CanDoneTask(s) /\ s.done = <<>> => Fair(s, GiveBackSpecial(s))
  <2> SUFFICES ASSUME CanDoneTask(s), s.done = <<>>
               PROVE  Fair(s, GiveBackSpecial(s))
    OBVIOUS
  <2> DEFINE r == GiveBackSpecial(s)
  <2>1. r.caught = s.caught /\ r.sq = s.sq /\ r.sqa = s.sqa
    BY DEF GiveBackSpecial, TSDoneTask, Check, Die, Dequeue, KillScheduledForStart
  <2>2. s.dsmt \/ (s.sq > 0 /\ s.fresh # <<>>)
    BY DEF CanDoneTask
  <2> HIDE DEF r
  <2>3. Plain(r) => Plain(s)
    BY <2>1 DEF Plain
  <2>4. ~(Plain(s) /\ Straight(s))
    <3>1. s.sq \in 0..2
      BY Read
    <3> QED
      BY <2>2, <3>1 DEF Plain, Straight
  <2>5. Fair(s, r)
    BY <2>3, <2>4 DEF Fair
  <2> QED
    BY <2>5 DEF r
<1>4. CanGetTask(s, CanDoneTask(s)) => Fair(s, TSGetTask([s EXCEPT !.tsgod = "AGetTask"]))
  <2> SUFFICES ASSUME CanGetTask(s, CanDoneTask(s))
               PROVE  Fair(s, TSGetTask([s EXCEPT !.tsgod = "AGetTask"]))
    OBVIOUS
  <2> DEFINE r == TSGetTask([s EXCEPT !.tsgod = "AGetTask"])
  <2>1. /\ r.caught = s.caught /\ r.sq = s.sq /\ r.sqa = s.sqa /\ r.dsmt = s.dsmt
        /\ r.done = s.done /\ r.srcDone = s.srcDone
        /\ r.stage = s.stage /\ r.rtes = s.rtes /\ r.ftes = s.ftes
    BY DEF TSGetTask, Check, Die
  <2>2. s.sq = 0 /\ s.sqa = 0
    BY Read DEF CanGetTask, Quitting
  <2> HIDE DEF r
  <2>3. Plain(r) => Plain(s)
    BY <2>1 DEF Plain
  <2>4. \A u : Worked(s, u) => Worked(r, u)
    BY <2>1 DEF Worked
  <2>5. Straight(s) => Straight(r)
    BY <2>1, <2>2, <2>4 DEF Straight
  <2>6. Fair(s, r)
    BY <2>3, <2>5 DEF Fair
  <2> QED
    BY <2>6 DEF r
<1>5. Fair(s, TSDisconnect([s EXCEPT !.tsgod = "ANone"], FALSE))
  <2> DEFINE x == [s EXCEPT !.tsgod = "ANone"]
  <2>1. x \in Members
    BY Write DEF Actions
  <2>2. Level(s, x)
    BY DEF Level
  <2> HIDE DEF x
  <2>3. Level(x, TSDisconnect(x, FALSE))
    BY <2>1, LevelIs
  <2> QED
    BY <2>2, <2>3, LevelTrans, LevelFair DEF x
<1> DEFINE B == GiveBackDone(s)
           S == GiveBackSpecial(s)
           G == TSGetTask([s EXCEPT !.tsgod = "AGetTask"])
           D == TSDisconnect([s EXCEPT !.tsgod = "ANone"], FALSE)
           c == s.connected /\ s.pending = "ANone"
<1>6. /\ Fair(B, Check(B, c)) /\ Fair(S, Check(S, c))
      /\ Fair(G, Check(G, c)) /\ Fair(D, Check(D, c))
  BY <1>1
<1>7. /\ s.done # <<>> => Fair(s, Check(B, c))
      /\ CanDoneTask(s) /\ s.done = <<>> => Fair(s, Check(S, c))
      /\ CanGetTask(s, CanDoneTask(s)) => Fair(s, Check(G, c))
      /\ Fair(s, Check(D, c))
  <2> HIDE DEF B, S, G, D, c
  <2> QED
    BY <1>2, <1>3, <1>4, <1>5, <1>6, FairTrans DEF B, S, G, D
<1> QED
  BY <1>7, Zenon DEF GetOrDoneTask

\* Failures in sequence end the run with another status.
LEMMA CountFailureFair ==
  ASSUME NEW s \in Members, NEW t PROVE Fair(s, CountFailure(s, t))
<1> DEFINE r == [s EXCEPT !.failed = @ + 1]
           d == DontStartMoreTasks(r)
           q == [d EXCEPT !.sq = 2]
           z == ReSched(q)
<1>1. Level(s, s) /\ Level(s, r)
  BY DEF Level
<1>2. CountFailure(s, t) \in {s, r, z}
  BY DEF CountFailure
<1>3. r \in Members
  <2>1. s.failed + 1 \in Nat
    BY Read
  <2> QED
    BY <2>1, Write
<1> HIDE DEF r
<1>4. d \in Members
  BY <1>3, DontStartTyped
<1> HIDE DEF d
<1>5. q.sq = 2
  BY <1>4, Written
<1> HIDE DEF q
<1>6. z.sq = q.sq
  BY DEF ReSched
<1> HIDE DEF z
<1>7. Fair(s, z)
  BY <1>5, <1>6 DEF Fair, Plain
<1> QED
  BY <1>1, <1>2, <1>7, LevelFair

\* A job succeeded: the task was worked on, or goes on to the filter.
LEMMA SuccessFair ==
  ASSUME NEW s \in Members, NEW t \in Frames, NEW lv
  PROVE  Fair(s, HandleSuccessfulJob(s, t, lv))
<1> DEFINE out  == [s EXCEPT !.failed = 0, !.proc = @ \ {t}]
           done == [out EXCEPT !.done = Append(@, t)]
           todo == [out EXCEPT !.refilter = <<t>> \o @]
           next == CheckStartTasks(done, lv)
           last == CheckStartExchange(next)
           wait == IF s.dsmt THEN DontStartMoreTasks(todo) ELSE todo
           go   == CheckStartTasks(wait, lv)
<1>1. out \in Members
  <2>1. s.proc \ {t} \in SUBSET Frames
    BY Read
  <2> QED
    BY <2>1, Write
<1>2. Level(s, out) /\ Level(s, todo)
  BY DEF Level
<1> HIDE DEF out
<1>3. done \in Members
  <2>1. Append(out.done, t) \in Seq(Frames)
    BY <1>1, Read
  <2> QED
    BY <1>1, <2>1, Write
<1>4. todo \in Members
  <2>1. out.refilter \in Seq(Frames) /\ <<t>> \in Seq(Frames)
    BY <1>1, Read
  <2>2. <<t>> \o out.refilter \in Seq(Frames)
    BY <2>1
  <2> QED
    BY <1>1, <2>2, Write
<1>5. s.stage[t] = "TaskDone" => Fair(s, done)
  <2> SUFFICES ASSUME s.stage[t] = "TaskDone" PROVE Fair(s, done)
    OBVIOUS
  <2>1. done.done = Append(out.done, t)
    BY <1>1, Written
  <2>2. /\ done.caught = out.caught /\ done.sq = out.sq /\ done.sqa = out.sqa
        /\ done.dsmt = out.dsmt /\ done.fresh = out.fresh /\ done.next = out.next
        /\ done.srcPend = out.srcPend /\ done.srcDone = out.srcDone
        /\ done.stage = out.stage /\ done.rtes = out.rtes /\ done.ftes = out.ftes
    OBVIOUS
  <2> HIDE DEF done
  <2>3. \A u : Worked(out, u) => Worked(done, u)
    BY <2>2 DEF Worked
  <2>4. Worked(done, t)
    BY <1>2, <2>2 DEF Level, Worked
  <2>5. ASSUME NEW u \in Frames, Count(done.done, u) > 0 \/ u = done.srcDone, u # t
        PROVE  Count(out.done, u) > 0 \/ u = out.srcDone
    <3>0. out.done \in Seq(Frames)
      BY <1>1, Read
    <3>1. Count(Append(out.done, t), u) = Count(out.done, u)
      <4>1. Count(Append(out.done, t), u)
              = Count(out.done, u) + (IF u = t THEN 1 ELSE 0)
        BY <3>0, CountGrows
      <4>2. Count(out.done, u) \in Nat
        BY <3>0, CountType
      <4> QED
        BY <2>5, <4>1, <4>2
    <3> QED
      BY <2>1, <2>2, <2>5, <3>1
  <2>6. Fair(out, done)
    BY <2>2, <2>3, <2>4, <2>5, FairMoves
  <2> QED
    BY <1>2, <2>6, LevelFair, FairTrans
<1> HIDE DEF done, todo
<1>6. next \in Members /\ Level(done, next)
  BY <1>3, CheckStartTasksTyped, LevelIs
<1> HIDE DEF next
<1>7. Level(next, last)
  BY <1>6, LevelIs
<1> HIDE DEF last
<1>8. s.stage[t] = "TaskDone" => Fair(s, last)
  BY <1>5, <1>6, <1>7, LevelFair, FairTrans
<1>9. Fair(s, go)
  <2>1. CASE s.dsmt
    <3>1. DontStartMoreTasks(todo) \in Members
      BY <1>4, DontStartTyped
    <3>2. Level(wait, go)
      BY <2>1, <3>1, LevelIs
    <3>3. Level(todo, KillScheduledForStart(todo))
      BY <1>4, LevelIs
    <3>4. LET d == DontStartMoreTasks(todo)
          IN  d.caught = todo.caught /\ d.sq = todo.sq /\ d.sqa = todo.sqa
      BY DEF DontStartMoreTasks, KillScheduledForStart
    <3>5. Plain(go) => Plain(s)
      BY <1>2, <2>1, <3>2, <3>4 DEF Level, Plain
    <3> QED
      BY <2>1, <3>5 DEF Fair, Straight
  <2>2. CASE ~s.dsmt
    <3>1. Level(todo, go)
      BY <1>4, <2>2, LevelIs
    <3> QED
      BY <1>2, <3>1, LevelTrans, LevelFair
  <2> QED
    BY <2>1, <2>2
<1>10. Fair(s, s)
  BY DEF Fair
<1>11. HandleSuccessfulJob(s, t, lv) =
         IF s.quitStep > 0 THEN s
         ELSE IF s.stage[t] = "TaskDone" THEN last ELSE go
  BY DEF HandleSuccessfulJob, last, next, done, go, wait, todo, out
<1> HIDE DEF go
<1> QED
  BY <1>8, <1>9, <1>10, <1>11

\* A job failed: its task goes back, and it was worked on.
LEMMA FailureFair ==
  ASSUME NEW s \in Members, NEW t \in Frames, NEW lv, Worked(s, t)
  PROVE  Fair(s, HandleFailedTask(s, t, lv))
<1> DEFINE k == IF t = s.sfs THEN Dequeue(KillScheduledForStart(s), t)
                             ELSE [s EXCEPT !.proc = @ \ {t}]
           d == [k EXCEPT !.done = Append(@, t)]
           c == CountFailure(d, t)
           n == CheckStartTasks(c, lv)
           r == CheckStartExchange(n)
           f == [r EXCEPT !.tdaf = @ \/ r.connected]
<1>1. k \in Members
  <2>1. s.proc \ {t} \in SUBSET Frames
    BY Read
  <2>2. [s EXCEPT !.proc = @ \ {t}] \in Members
    BY <2>1, Write
  <2> QED
    BY <2>2, KillScheduledTyped, DequeueTyped
<1>2. /\ k.caught = s.caught /\ k.sq = s.sq /\ k.sqa = s.sqa /\ k.dsmt = s.dsmt
      /\ k.next = s.next /\ k.srcPend = s.srcPend
      /\ k.done = s.done /\ k.srcDone = s.srcDone
      /\ k.stage = s.stage /\ k.rtes = s.rtes /\ k.ftes = s.ftes
  BY DEF Dequeue, KillScheduledForStart
<1>3. s.fresh = <<>> => k.fresh = <<>>
  <2> DEFINE g == KillScheduledForStart(s)
  <2>1. g \in Members /\ g.fresh = s.fresh
    BY KillScheduledIs DEF Still
  <2> HIDE DEF g
  <2>2. Dequeue(g, t).fresh = Without(g.fresh, t)
    BY <2>1, DequeueIs
  <2>3. g.fresh \in Seq(Frames)
    BY <2>1, Read
  <2>4. g.fresh = <<>> => Without(g.fresh, t) = <<>>
    BY <2>3, CountWithout
  <2>5. t = s.sfs => k = Dequeue(g, t)
    BY DEF g
  <2>6. t # s.sfs => k.fresh = s.fresh
    OBVIOUS
  <2> HIDE DEF k
  <2> QED
    BY <2>1, <2>2, <2>4, <2>5, <2>6
<1> HIDE DEF k
<1>4. k.done \in Seq(Frames)
  BY <1>1, Read
<1>5. d \in Members /\ d.done = Append(k.done, t)
  <2>1. Append(k.done, t) \in Seq(Frames)
    BY <1>4
  <2>2. d \in Members
    BY <1>1, <2>1, Write
  <2>3. d.done = Append(k.done, t)
    BY <1>1 DEF Members
  <2> QED
    BY <2>2, <2>3
<1>6. /\ d.caught = k.caught /\ d.sq = k.sq /\ d.sqa = k.sqa /\ d.dsmt = k.dsmt
      /\ d.next = k.next /\ d.srcPend = k.srcPend /\ d.fresh = k.fresh
      /\ d.srcDone = k.srcDone
      /\ d.stage = k.stage /\ d.rtes = k.rtes /\ d.ftes = k.ftes
  OBVIOUS
<1> HIDE DEF d
<1>7. \A u : Worked(s, u) => Worked(d, u)
  BY <1>2, <1>6 DEF Worked
<1>8. ASSUME NEW u \in Frames, Count(d.done, u) > 0 \/ u = d.srcDone, u # t
      PROVE  Count(s.done, u) > 0 \/ u = s.srcDone
  <2>1. Count(Append(k.done, t), u) = Count(k.done, u)
    <3>1. Count(Append(k.done, t), u)
            = Count(k.done, u) + (IF u = t THEN 1 ELSE 0)
      BY <1>4, CountGrows
    <3>2. Count(k.done, u) \in Nat
      BY <1>4, CountType
    <3> QED
      BY <1>8, <3>1, <3>2
  <2> QED
    BY <1>2, <1>5, <1>6, <1>8, <2>1
<1>9. Fair(s, d)
  <2>1. /\ d.caught = s.caught /\ d.sq = s.sq /\ d.sqa = s.sqa /\ d.dsmt = s.dsmt
        /\ s.fresh = <<>> => d.fresh = <<>>
        /\ d.next = s.next /\ d.srcPend = s.srcPend
    BY <1>2, <1>3, <1>6
  <2>2. Worked(d, t)
    BY <1>7
  <2> QED
    BY <1>7, <1>8, <2>1, <2>2, FairMoves
<1>10. c \in Members /\ Fair(d, c)
  BY <1>5, CountFailureTyped, CountFailureFair
<1> HIDE DEF c
<1>11. n \in Members /\ Level(c, n)
  BY <1>10, CheckStartTasksTyped, LevelIs
<1> HIDE DEF n
<1>12. Level(n, r)
  BY <1>11, LevelIs
<1>13. Level(r, f)
  BY DEF Level
<1> HIDE DEF r, f
<1>14. Fair(s, f)
  BY <1>9, <1>10, <1>11, <1>12, <1>13, LevelFair, FairTrans
<1>15. Fair(s, s)
  BY DEF Fair
<1>16. HandleFailedTask(s, t, lv) = IF s.quitStep > 0 THEN s ELSE f
  BY DEF HandleFailedTask, f, r, n, c, d, k
<1> QED
  BY <1>14, <1>15, <1>16

\* What happens to a task that is not on its way back.
LEMMA OtherFair ==
  ASSUME NEW s, NEW r, NEW t \in Frames, ~(Count(s.done, t) > 0), t # s.srcDone,
         r.caught = s.caught, r.sq = s.sq, r.sqa = s.sqa, r.dsmt = s.dsmt,
         s.fresh = <<>> => r.fresh = <<>>, r.next = s.next,
         r.srcPend = "AGetTask" => s.srcPend = "AGetTask",
         r.done = s.done, r.srcDone = s.srcDone,
         \A u \in Frames \ {t} : /\ r.stage[u] = s.stage[u]
                                 /\ r.rtes[u] = s.rtes[u] /\ r.ftes[u] = s.ftes[u]
  PROVE  Fair(s, r)
<1>1. ASSUME NEW u \in Frames, Count(r.done, u) > 0 \/ u = r.srcDone
      PROVE  (Count(s.done, u) > 0 \/ u = s.srcDone) /\ (Worked(s, u) => Worked(r, u))
  <2>1. u # t
    BY <1>1
  <2> QED
    BY <1>1, <2>1 DEF Worked
<1> QED
  BY <1>1, FairMoves

\* The end of a job.
LEMMA JobExitedFair ==
  ASSUME NEW s \in Members, NEW t \in Frames, Sound(s), t \in s.proc,
         NEW ok, NEW resume \in BOOLEAN, NEW lv
  PROVE  Fair(s, JobExited(s, t, ok, resume, lv))
<1> DEFINE g   == JobGone(s, t)
           tes == [Unset EXCEPT !.end = "Success"]
           bad == [end |-> "Failed", jk |-> s.killed[t], resume |-> resume]
           nxt == IF t \in FilterFrames THEN "ToBeFiltered" ELSE "TaskDone"
           a   == [g EXCEPT !.rtes[t] = tes, !.stage[t] = nxt]
           b   == [g EXCEPT !.ftes[t] = tes, !.stage[t] = "TaskDone"]
           r   == JobSucceeded(s, t)
           f   == StoreFailure(g, t, bad)
<1>1. ~(Count(s.done, t) > 0) /\ t # s.srcDone
  <2>1. Places(s, t) <= 1
    BY DEF Sound, Fine
  <2>2. Count(s.done, t) = 0 /\ t # s.srcDone
    BY <2>1, InProc
  <2> QED
    BY <2>2
<1>2. /\ g \in Members
      /\ g.done = s.done /\ g.srcDone = s.srcDone /\ g.next = s.next
      /\ g.fresh = s.fresh /\ g.sq = s.sq /\ g.dsmt = s.dsmt
      /\ g.stage = s.stage /\ g.rtes = s.rtes /\ g.ftes = s.ftes
  BY JobGoneIs
<1>3. g.caught = s.caught /\ g.sqa = s.sqa /\ g.srcPend = s.srcPend
  BY DEF JobGone
<1>4. Fair(s, r)
  <2>1. r = IF s.stage[t] = "ToBeRendered" THEN a ELSE b
    BY DEF JobSucceeded
  <2> HIDE DEF g, tes, nxt, r
  <2>2. a.rtes = [g.rtes EXCEPT ![t] = tes] /\ a.stage = [g.stage EXCEPT ![t] = nxt]
    BY <1>2 DEF Members
  <2>3. b.ftes = [g.ftes EXCEPT ![t] = tes] /\ b.stage = [g.stage EXCEPT ![t] = "TaskDone"]
    BY <1>2 DEF Members
  <2>4. a.ftes = g.ftes /\ b.rtes = g.rtes
    OBVIOUS
  <2>5. /\ r.done = g.done /\ r.srcDone = g.srcDone /\ r.next = g.next
        /\ r.fresh = g.fresh /\ r.sq = g.sq /\ r.dsmt = g.dsmt
        /\ r.caught = g.caught /\ r.sqa = g.sqa /\ r.srcPend = g.srcPend
    BY <2>1
  <2> HIDE DEF a, b
  <2>6. /\ s.rtes \in [Frames -> Tes] /\ s.ftes \in [Frames -> Tes]
        /\ s.stage \in [Frames -> Stages]
    BY Read
  <2>7. \A u \in Frames \ {t} : /\ r.stage[u] = s.stage[u]
                                /\ r.rtes[u] = s.rtes[u] /\ r.ftes[u] = s.ftes[u]
    BY <1>2, <2>1, <2>2, <2>3, <2>4, <2>6
  <2> QED
    BY <1>1, <1>2, <1>3, <2>5, <2>7, OtherFair
<1>5. r \in Members
  BY JobSucceededTyped
<1>6. Fair(r, HandleSuccessfulJob(r, t, lv))
  BY <1>5, SuccessFair
<1>7. bad \in Tes /\ bad.end = "Failed"
  BY Read DEF Tes
<1>8. Fair(s, f) /\ f \in Members /\ Worked(f, t)
  <2> HIDE DEF g, bad
  <2>1. /\ f \in Members
        /\ f.fresh = g.fresh /\ f.done = g.done
        /\ f.srcDone = g.srcDone /\ f.next = g.next
        /\ f.stage = g.stage /\ f.sq = g.sq /\ f.dsmt = g.dsmt
        /\ \A u \in Frames \ {t} :
             f.rtes[u] = g.rtes[u] /\ f.ftes[u] = g.ftes[u]
        /\ IF g.stage[t] = "ToBeRendered" THEN f.rtes[t] = bad ELSE f.ftes[t] = bad
    BY <1>2, <1>7, StoreFailureIs
  <2>2. f.caught = g.caught /\ f.sqa = g.sqa /\ f.srcPend = g.srcPend
    BY DEF StoreFailure
  <2> HIDE DEF f
  <2>3. Worked(f, t)
    BY <1>7, <2>1 DEF Worked
  <2>4. \A u \in Frames \ {t} : /\ f.stage[u] = s.stage[u]
                                /\ f.rtes[u] = s.rtes[u] /\ f.ftes[u] = s.ftes[u]
    BY <1>2, <2>1
  <2>5. /\ f.fresh = s.fresh /\ f.done = s.done
        /\ f.srcDone = s.srcDone /\ f.next = s.next
        /\ f.sq = s.sq /\ f.dsmt = s.dsmt
        /\ f.caught = s.caught /\ f.sqa = s.sqa /\ f.srcPend = s.srcPend
    BY <1>2, <1>3, <2>1, <2>2
  <2> QED
    BY <1>1, <2>1, <2>3, <2>4, <2>5, OtherFair
<1>9. Fair(f, HandleFailedTask(f, t, lv))
  BY <1>8, FailureFair
<1>10. JobExited(s, t, ok, resume, lv) =
         IF ok /\ s.killed[t] = "NotKilled"
         THEN HandleSuccessfulJob(r, t, lv) ELSE HandleFailedTask(f, t, lv)
  BY DEF JobExited, JobFailed
<1> HIDE DEF r, f
<1> QED
  BY <1>4, <1>6, <1>8, <1>9, <1>10, FairTrans

\* The start of the scheduled task, or its failure.
LEMMA LaunchFair ==
  ASSUME NEW s \in Members, Sound(s), NEW forked, NEW lv
  PROVE  Fair(s, LaunchScheduled(s, forked, lv))
<1> DEFINE t   == s.sfs
           in  == Launched(s)
           tes == [Unset EXCEPT !.end = "Failed"]
           p   == StoreFailure(s, t, tes)
           f   == ForkFailed(s, t)
           h   == HandleFailedTask(f, t, lv)
           no  == KillScheduledForStart(h)
<1>1. CASE s.sfs # NoTask /\ s.load
  <2>1. t \in Frames
    BY <1>1, Read
  <2>2. in \in Members /\ Fair(s, in)
    <3>1. /\ in \in Members
          /\ in.fresh = Without(s.fresh, t)
          /\ in.done = s.done /\ in.srcDone = s.srcDone /\ in.next = s.next
          /\ in.stage = s.stage /\ in.rtes = s.rtes /\ in.ftes = s.ftes
          /\ in.sq = s.sq /\ in.dsmt = s.dsmt
      BY <1>1, LaunchedIs
    <3>2. in.caught = s.caught /\ in.sqa = s.sqa /\ in.srcPend = s.srcPend
      BY DEF Launched, Dequeue, KillScheduledForStart, ForkJob
    <3> HIDE DEF in
    <3>3. s.fresh = <<>> => in.fresh = <<>>
      <4>1. s.fresh \in Seq(Frames)
        BY Read
      <4>2. s.fresh = <<>> => Without(s.fresh, t) = <<>>
        BY <4>1, CountWithout
      <4> QED
        BY <3>1, <4>2
    <3>4. \A u : Worked(s, u) => Worked(in, u)
      BY <3>1 DEF Worked
    <3> QED
      BY <3>1, <3>2, <3>3, <3>4, FairMoves
  <2>3. ~(Count(s.done, t) > 0) /\ t # s.srcDone
    <3>1. /\ Count(s.refilter, t) \in Nat /\ Count(s.fresh, t) \in Nat
          /\ Count(s.done, t) \in Nat /\ Places(s, t) <= 1
      BY <2>1, PlacesType DEF Sound, Fine
    <3>2. Count(s.refilter, t) > 0 \/ Count(s.fresh, t) > 0
      BY <1>1 DEF Sound, Chosen
    <3> QED
      BY <3>1, <3>2 DEF Places
  <2>4. tes \in Tes /\ tes.end = "Failed"
    BY DEF Unset, Tes, Reasons
  <2> HIDE DEF tes
  <2>5. /\ p \in Members
        /\ p.fresh = s.fresh /\ p.done = s.done
        /\ p.srcDone = s.srcDone /\ p.next = s.next
        /\ p.stage = s.stage /\ p.sq = s.sq /\ p.dsmt = s.dsmt
        /\ \A u \in Frames \ {t} :
             p.rtes[u] = s.rtes[u] /\ p.ftes[u] = s.ftes[u]
        /\ IF s.stage[t] = "ToBeRendered" THEN p.rtes[t] = tes ELSE p.ftes[t] = tes
    BY <2>1, <2>4, StoreFailureIs
  <2>6. p.caught = s.caught /\ p.sqa = s.sqa /\ p.srcPend = s.srcPend
    BY DEF StoreFailure
  <2>7. f = [p EXCEPT !.dead = @ \cup {"unforked"}]
    BY DEF ForkFailed, tes
  <2>8. f \in Members
    BY <2>1, ForkFailedTyped
  <2> HIDE DEF p
  <2>9. Level(p, f)
    BY <2>7 DEF Level
  <2>10. Fair(s, f)
    <3>1. Fair(s, p)
      BY <2>1, <2>3, <2>5, <2>6, OtherFair
    <3> QED
      BY <2>9, <3>1, LevelFair, FairTrans
  <2>11. Worked(f, t)
    <3>1. Worked(p, t)
      BY <2>4, <2>5 DEF Worked
    <3> QED
      BY <2>9, <3>1 DEF Level, Worked
  <2> HIDE DEF f
  <2>12. h \in Members /\ Fair(f, h)
    BY <2>1, <2>8, <2>11, HandleFailedTaskTyped, FailureFair
  <2> HIDE DEF h
  <2>13. no \in Members /\ Level(h, no)
    BY <2>12, KillScheduledTyped, LevelIs
  <2> HIDE DEF in, no
  <2>14. Fair(s, no)
    BY <2>10, <2>12, <2>13, LevelFair, FairTrans
  <2>15. Level(in, CheckStartTasks(in, lv)) /\ Level(no, CheckStartTasks(no, lv))
    BY <2>2, <2>13, LevelIs
  <2>16. Fair(s, CheckStartTasks(in, lv)) /\ Fair(s, CheckStartTasks(no, lv))
    BY <2>2, <2>14, <2>15, LevelFair, FairTrans
  <2>17. LaunchScheduled(s, forked, lv) =
           CheckStartTasks(IF forked THEN in ELSE no, lv)
    BY <1>1 DEF LaunchScheduled, Launched, in, no, h, f
  <2> QED
    BY <2>16, <2>17
<1>2. CASE ~(s.sfs # NoTask /\ s.load)
  BY <1>2 DEF LaunchScheduled, Fair
<1> QED
  BY <1>1, <1>2

\* A task comes from the source: with quit scheduled, or no more starts, it
\* would be given up; but then none was asked for.
LEMMA GotTaskFair ==
  ASSUME NEW s \in Members, Sound(s), s.srcPend = "AGetTask", s.next <= NFrames,
         NEW lv
  PROVE  Fair(s, TSGotTask(SrcHandOut(s), s.next, lv))
<1> DEFINE t  == s.next
           e  == Answered(SrcHandOut(s))
           a  == [e EXCEPT !.fresh = Append(@, t)]
           b  == NewTask_SetUpState(a, t)
           st == IF t \in RenderFrames THEN "ToBeRendered" ELSE "ToBeFiltered"
           x  == CheckStartTasks(b, lv)
           d  == DontStartMoreTasks(b)
           y  == CheckStartExchange(d)
           z  == TakeFreshTask(e, t, lv)
<1>1. t \in Frames
  BY Read, ConfigAssumption DEF Frames
<1>2. e \in Members
  BY AnswersTyped, AnsweredTyped
<1>3. z = IF s.dsmt \/ Quitting(s) THEN y ELSE x
  BY DEF TakeFreshTask, Answered, SrcHandOut, Quitting
<1>4. z \in Members
  BY <1>1, <1>2, TakeFreshTaskTyped
<1>5. /\ e.done = s.done /\ e.srcDone = s.srcDone /\ e.stage = s.stage
      /\ e.rtes = s.rtes /\ e.ftes = s.ftes /\ e.sq = s.sq /\ e.sqa = s.sqa
      /\ e.dsmt = s.dsmt /\ e.caught = s.caught
  BY DEF Answered, SrcHandOut
<1>6. e.srcPend # "AGetTask"
  BY DEF Answered, SrcHandOut, Members
<1> HIDE DEF e
<1>7. a \in Members
  <2>1. Append(e.fresh, t) \in Seq(Frames)
    BY <1>1, <1>2, Read
  <2> QED
    BY <1>2, <2>1, Write
<1>8. /\ a.done = e.done /\ a.srcDone = e.srcDone /\ a.stage = e.stage
      /\ a.rtes = e.rtes /\ a.ftes = e.ftes /\ a.sq = e.sq /\ a.sqa = e.sqa
      /\ a.dsmt = e.dsmt /\ a.caught = e.caught /\ a.srcPend = e.srcPend
  OBVIOUS
<1> HIDE DEF a, t
<1>9. b \in Members /\ b.stage = [a.stage EXCEPT ![t] = st]
  <2>1. b \in Members
    BY <1>1, <1>7, SetUpStateTyped
  <2>2. b.stage = [a.stage EXCEPT ![t] = st]
    BY <1>7 DEF NewTask_SetUpState, Members
  <2> QED
    BY <2>1, <2>2
<1>10. /\ b.done = a.done /\ b.srcDone = a.srcDone
       /\ b.rtes = a.rtes /\ b.ftes = a.ftes /\ b.sq = a.sq /\ b.sqa = a.sqa
       /\ b.dsmt = a.dsmt /\ b.caught = a.caught /\ b.srcPend = a.srcPend
  BY DEF NewTask_SetUpState
<1> HIDE DEF b
<1>11. d \in Members /\ d.caught = b.caught /\ d.sq = b.sq /\ d.sqa = b.sqa
  <2>1. d \in Members
    BY <1>9, DontStartTyped
  <2>2. d.caught = b.caught /\ d.sq = b.sq /\ d.sqa = b.sqa
    BY DEF DontStartMoreTasks, KillScheduledForStart
  <2> QED
    BY <2>1, <2>2
<1> HIDE DEF d
<1>12. Level(d, y) /\ Level(b, x)
  BY <1>9, <1>11, LevelIs
<1> HIDE DEF x, y
<1>13. z.caught = s.caught /\ z.sq = s.sq /\ z.sqa = s.sqa
  BY <1>3, <1>5, <1>8, <1>10, <1>11, <1>12 DEF Level
<1>14. ASSUME Plain(s), Straight(s) PROVE Straight(z)
  <2>1. s.sq = 0 /\ s.sqa = 0 /\ ~s.dsmt
    <3>1. s.sq \in 0..2 /\ s.sqa \in 0..2
      BY Read
    <3>2. s.sqa = 0
      BY <1>14, <3>1 DEF Plain, Straight
    <3> QED
      BY <1>14, <3>1, <3>2 DEF Plain, Straight
  <2>2. z = x
    BY <1>3, <2>1 DEF Quitting
  <2>3. Level(b, z)
    BY <1>12, <2>2
  <2>4. z.sq = 0 /\ z.sqa = 0 /\ ~z.dsmt
    <3>1. ~b.dsmt
      BY <1>5, <1>8, <1>10, <2>1
    <3> QED
      BY <1>13, <2>1, <2>3, <3>1 DEF Level
  <2>5. Count(s.done, t) = 0 /\ t # s.srcDone
    <3>1. Places(s, t) = 0
      <4>1. Fine(s, t) /\ t >= s.next
        BY <1>1, Read DEF Sound, t
      <4> QED
        BY <4>1 DEF Fine
    <3>2. Count(s.refilter, t) \in Nat /\ Count(s.fresh, t) \in Nat /\ Count(s.done, t) \in Nat
      BY PlacesType
    <3> QED
      BY <3>1, <3>2 DEF Places
  <2>6. s.stage \in [Frames -> Stages]
    BY Read
  <2>7. \A u \in Frames \ {t} : z.stage[u] = s.stage[u]
    BY <1>5, <1>8, <1>9, <2>3, <2>6 DEF Level
  <2>8. z.rtes = s.rtes /\ z.ftes = s.ftes /\ z.done = s.done /\ z.srcDone = s.srcDone
    BY <1>5, <1>8, <1>10, <2>3 DEF Level
  <2>9. ASSUME NEW u \in Frames, Count(z.done, u) > 0 \/ u = z.srcDone
        PROVE  Worked(z, u)
    <3>1. u # t
      BY <2>5, <2>8, <2>9
    <3>2. Worked(s, u)
      BY <1>14, <2>8, <2>9 DEF Straight
    <3> QED
      BY <2>7, <2>8, <3>1, <3>2 DEF Worked
  <2> QED
    BY <2>4, <2>9 DEF Straight
<1>15. Fair(s, z)
  <2>1. Plain(z) => Plain(s)
    BY <1>13 DEF Plain
  <2> QED
    BY <1>14, <2>1 DEF Fair
<1>16. Fair(z, GetOrDoneTask(z))
  BY <1>4, GetOrDoneFair
<1>17. TSGotTask(SrcHandOut(s), s.next, lv) = GetOrDoneTask(z)
  BY DEF TSGotTask, z, e, t
<1> HIDE DEF z
<1> QED
  BY <1>15, <1>16, <1>17, FairTrans

\* The answers that bring no task.
LEMMA AnswersFair ==
  ASSUME NEW s \in Members, NEW quit
  PROVE  /\ Fair(s, TSConnected(SrcConnected(s)))
         /\ s.srcPend = "AGetTask" /\ s.next > NFrames =>
              Fair(s, TSNoMoreTasks(SrcNoTask(s)))
         /\ \A skips \in BOOLEAN :
              s.srcPend = "AGetTask" => Fair(s, TSGetFailed(SrcGetFails(s, skips)))
         /\ s.srcDone # NoTask => Fair(s, TSTookDone(SrcTakeBack(s)))
         /\ Fair(s, TSDisconnected(SrcDisconnected(s), quit))
<1>1. Fair(s, TSConnected(SrcConnected(s)))
  <2> DEFINE h == SrcConnected(s)
             e == Answered(h)
             x == [e EXCEPT !.connected = TRUE, !.tsgod = "ANone", !.nth = 0]
  <2>1. e \in Members
    BY AnswersTyped, AnsweredTyped
  <2>2. Level(s, h) /\ Level(h, e) /\ Level(e, x)
    BY LevelIs, AnswersTyped DEF Level
  <2>3. Level(s, x)
    BY <2>2, LevelTrans
  <2> HIDE DEF e
  <2>4. x \in Members
    <3> DEFINE p == [e EXCEPT !.connected = TRUE]
               q == [p EXCEPT !.tsgod = "ANone"]
    <3>1. p \in Members
      BY <2>1, Write
    <3> HIDE DEF p
    <3>2. q \in Members
      BY <3>1, Write DEF Actions
    <3> HIDE DEF q
    <3>3. [q EXCEPT !.nth = 0] \in Members
      BY <3>2, WriteNumber
    <3> QED
      BY <3>3 DEF q, p
  <2>5. TSConnected(h) = GetOrDoneTask(x)
    BY DEF TSConnected, e
  <2> HIDE DEF x
  <2>6. Fair(x, GetOrDoneTask(x))
    BY <2>4, GetOrDoneFair
  <2> QED
    BY <2>3, <2>5, <2>6, LevelFair, FairTrans
<1>2. ASSUME s.srcPend = "AGetTask", s.next > NFrames
      PROVE  Fair(s, TSNoMoreTasks(SrcNoTask(s)))
  <2> DEFINE h == Answered(SrcNoTask(s))
             v == IF h.sqa = 0 THEN 1 ELSE h.sqa
             x == [h EXCEPT !.sqa = v]
             r == ReSched(x)
  <2>1. h \in Members
    BY AnswersTyped, AnsweredTyped
  <2>2. /\ h.caught = s.caught /\ h.sq = s.sq /\ h.sqa = s.sqa /\ h.dsmt = s.dsmt
        /\ h.fresh = s.fresh /\ h.next = s.next
        /\ h.done = s.done /\ h.srcDone = s.srcDone
        /\ h.stage = s.stage /\ h.rtes = s.rtes /\ h.ftes = s.ftes
    BY DEF Answered, SrcNoTask
  <2>3. h.srcPend # "AGetTask"
    BY DEF Answered, SrcNoTask, Members
  <2> HIDE DEF h
  <2>4. x.sqa = v
    BY <2>1, Written
  <2>5. /\ x.caught = h.caught /\ x.sq = h.sq /\ x.dsmt = h.dsmt
        /\ x.fresh = h.fresh /\ x.next = h.next /\ x.srcPend = h.srcPend
        /\ x.done = h.done /\ x.srcDone = h.srcDone
        /\ x.stage = h.stage /\ x.rtes = h.rtes /\ x.ftes = h.ftes
    OBVIOUS
  <2> HIDE DEF x
  <2>6. Plain(x) => Plain(s)
    BY <2>2, <2>4, <2>5 DEF Plain
  <2>7. Straight(s) => Straight(x)
    <3> SUFFICES ASSUME Straight(s) PROVE Straight(x)
      OBVIOUS
    <3>1. ~x.dsmt
      BY <2>2, <2>5 DEF Straight
    <3>2. x.sq = 1 => x.sqa = 1 /\ x.fresh = <<>>
      BY <2>2, <2>4, <2>5 DEF Straight
    <3>3. x.sqa = 1 => x.next > NFrames /\ x.srcPend # "AGetTask"
      BY <1>2, <2>2, <2>3, <2>5
    <3>4. \A u \in Frames : Count(x.done, u) > 0 \/ u = x.srcDone => Worked(x, u)
      BY <2>2, <2>5 DEF Straight, Worked
    <3> QED
      BY <3>1, <3>2, <3>3, <3>4 DEF Straight
  <2>8. Level(x, r)
    BY DEF Level, ReSched
  <2>9. Fair(s, r)
    BY <2>6, <2>7, <2>8, LevelFair, FairTrans DEF Fair
  <2> QED
    BY <2>9 DEF TSNoMoreTasks, r, x, h
<1>3. ASSUME NEW skips \in BOOLEAN, s.srcPend = "AGetTask"
      PROVE  Fair(s, TSGetFailed(SrcGetFails(s, skips)))
  <2> DEFINE h == SrcGetFails(s, skips)
             e == Answered(h)
             w == [e EXCEPT !.sqa = 2]
             x == [e EXCEPT !.tdaf = TRUE]
  <2>1. e \in Members
    BY AnswersTyped, AnsweredTyped
  <2>2. /\ e.caught = s.caught /\ e.sq = s.sq /\ e.sqa = s.sqa /\ e.dsmt = s.dsmt
        /\ e.fresh = s.fresh
        /\ e.done = s.done /\ e.srcDone = s.srcDone
        /\ e.stage = s.stage /\ e.rtes = s.rtes /\ e.ftes = s.ftes
    BY DEF Answered, SrcGetFails
  <2>3. e.srcPend # "AGetTask"
    BY DEF Answered, SrcGetFails, Members
  <2>4. TSGetFailed(h) = IF h.nth = 1 THEN ReSched(w) ELSE GetOrDoneTask(x)
    BY DEF TSGetFailed
  <2> HIDE DEF e
  <2>5. Fair(s, ReSched(w))
    <3>1. w.sqa = 2
      BY <2>1, Written
    <3>2. ReSched(w).sqa = w.sqa
      BY DEF ReSched
    <3> HIDE DEF w
    <3> QED
      BY <3>1, <3>2 DEF Fair, Plain
  <2>6. x \in Members
    BY <2>1, Write
  <2>7. /\ x.caught = e.caught /\ x.sq = e.sq /\ x.sqa = e.sqa /\ x.dsmt = e.dsmt
        /\ x.fresh = e.fresh /\ x.srcPend = e.srcPend
        /\ x.done = e.done /\ x.srcDone = e.srcDone
        /\ x.stage = e.stage /\ x.rtes = e.rtes /\ x.ftes = e.ftes
    OBVIOUS
  <2> HIDE DEF x, h, w
  <2>8. Plain(x) => Plain(s)
    BY <2>2, <2>7 DEF Plain
  <2>9. Straight(s) => Straight(x)
    <3> SUFFICES ASSUME Straight(s) PROVE Straight(x)
      OBVIOUS
    <3>1. ~x.dsmt
      BY <2>2, <2>7 DEF Straight
    <3>2. x.sq = 1 => x.sqa = 1 /\ x.fresh = <<>>
      BY <2>2, <2>7 DEF Straight
    <3>3. x.sqa # 1
      BY <1>3, <2>2, <2>7 DEF Straight
    <3>4. \A u \in Frames : Count(x.done, u) > 0 \/ u = x.srcDone => Worked(x, u)
      BY <2>2, <2>7 DEF Straight, Worked
    <3> QED
      BY <3>1, <3>2, <3>3, <3>4 DEF Straight
  <2>10. Fair(x, GetOrDoneTask(x))
    BY <2>6, GetOrDoneFair
  <2>11. Fair(s, GetOrDoneTask(x))
    BY <2>8, <2>9, <2>10, FairTrans DEF Fair
  <2> QED
    BY <2>4, <2>5, <2>11 DEF h
<1>4. ASSUME s.srcDone # NoTask PROVE Fair(s, TSTookDone(SrcTakeBack(s)))
  <2> DEFINE t == s.srcDone
             h == SrcTakeBack(s)
             e == Answered(h)
  <2>1. t \in Frames
    BY <1>4, Read
  <2>2. h \in Members
    BY <1>4, TakeBackTyped
  <2>3. /\ h.caught = s.caught /\ h.sq = s.sq /\ h.sqa = s.sqa /\ h.dsmt = s.dsmt
        /\ h.fresh = s.fresh /\ h.next = s.next /\ h.done = s.done
    BY DEF SrcTakeBack
  <2>4. h.srcPend # "AGetTask" /\ h.srcDone = NoTask
    BY DEF SrcTakeBack, Members
  <2>5. /\ h.stage = [s.stage EXCEPT ![t] = "TaskDone"]
        /\ h.rtes = [s.rtes EXCEPT ![t] = Unset]
        /\ h.ftes = [s.ftes EXCEPT ![t] = Unset]
    BY DEF SrcTakeBack, Members
  <2>6. /\ s.stage \in [Frames -> Stages] /\ s.rtes \in [Frames -> Tes]
        /\ s.ftes \in [Frames -> Tes]
    BY Read
  <2>7. \A u : u \in Frames => u # NoTask
    BY FrameIsTask
  <2> HIDE DEF h, t
  <2>8. Worked(h, t)
    BY <2>1, <2>5, <2>6 DEF Worked
  <2>9. ASSUME NEW u \in Frames, Count(h.done, u) > 0 \/ u = h.srcDone
        PROVE  Worked(h, u) \/ (Count(s.done, u) > 0 /\ (Worked(s, u) => Worked(h, u)))
    <3>1. Count(s.done, u) > 0
      BY <2>3, <2>4, <2>7, <2>9
    <3>2. u # t => h.stage[u] = s.stage[u] /\ h.rtes[u] = s.rtes[u] /\ h.ftes[u] = s.ftes[u]
      BY <2>5, <2>6
    <3> QED
      BY <2>8, <3>1, <3>2 DEF Worked
  <2>10. Fair(s, h)
    BY <2>3, <2>4, <2>9, FairMoves
  <2>11. e \in Members /\ Level(h, e)
    BY <2>2, AnsweredTyped, LevelIs
  <2> HIDE DEF e
  <2>12. Fair(e, GetOrDoneTask(e))
    BY <2>11, GetOrDoneFair
  <2>13. TSTookDone(h) = GetOrDoneTask(e)
    BY DEF TSTookDone, e
  <2> QED
    BY <2>10, <2>11, <2>12, <2>13, LevelFair, FairTrans DEF h
<1>5. Fair(s, TSDisconnected(SrcDisconnected(s), quit))
  <2> DEFINE h == SrcDisconnected(s)
             e == Answered(h)
             x == [e EXCEPT !.connected = FALSE]
             y == Check(x, s.toldTs <=> quit)
  <2>1. Level(s, h) /\ Level(h, e) /\ Level(e, x)
    BY LevelIs, AnswersTyped DEF Level
  <2>2. Level(x, y) /\ Level(y, ReSched(y))
    BY DEF Level, Check, Die, ReSched
  <2>3. TSDisconnected(h, quit) \in {y, ReSched(y)}
    BY DEF TSDisconnected, SrcDisconnected
  <2> HIDE DEF h, e, x, y
  <2>4. Level(s, y) /\ Level(s, ReSched(y))
    BY <2>1, <2>2, LevelTrans
  <2> QED
    BY <2>3, <2>4, LevelFair DEF h
<1> QED
  BY <1>1, <1>2, <1>3, <1>4, <1>5

\* Who sends a signal interrupts the run, or changes nothing of the account.
LEMMA SignalsFair ==
  ASSUME NEW s \in Members, NEW lv
  PROVE  \A r \in {SigInt(s), SigTerm(s), SigTstp(s), SigCont(s, lv)} : Fair(s, r)
<1> DEFINE die  == Die(s, "abort")
           null == Die(s, "nullif")
           q    == ScheduleQuit(s)
           one  == [q EXCEPT !.caught = 1]
           k    == ScheduleKill(s)
           two  == [k EXCEPT !.caught = 2]
           term == ScheduleKill(q)
           stop == [s EXCEPT !.stopped = TRUE]
           go   == [s EXCEPT !.stopped = FALSE]
           e    == CheckStartExchange(go)
           c    == CheckStartTasks(e, lv)
<1>1. Level(s, die) /\ Level(s, null) /\ Level(s, s)
  BY LevelIs
<1>2. q \in Members /\ k \in Members /\ go \in Members
  BY ScheduleQuitTyped, ScheduleKillTyped, Write
<1>3. Level(s, stop) /\ Level(s, go)
  BY DEF Level
<1>4. Fair(s, ReSched(one)) /\ Fair(s, ReSched(two))
  <2> HIDE DEF q, k
  <2>1. one.caught = 1 /\ two.caught = 2
    BY <1>2, Written
  <2>2. ReSched(one).caught = one.caught /\ ReSched(two).caught = two.caught
    BY DEF ReSched
  <2> HIDE DEF one, two
  <2> QED
    BY <2>1, <2>2 DEF Fair, Plain
<1>5. Fair(s, ReSched(term))
  <2> HIDE DEF q
  <2> DEFINE d == DontStartMoreTasks(q)
  <2>1. d \in Members
    BY <1>2, DontStartTyped
  <2>2. term = [d EXCEPT !.sq = 2, !.killTasks = TRUE, !.abortOn = TRUE]
    BY DEF ScheduleKill
  <2> HIDE DEF d
  <2>3. [d EXCEPT !.sq = 2].sq = 2
    BY <2>1, Written
  <2>4. term.sq = [d EXCEPT !.sq = 2].sq
    BY <2>2
  <2>5. ReSched(term).sq = term.sq
    BY DEF ReSched
  <2> HIDE DEF term
  <2> QED
    BY <2>3, <2>4, <2>5 DEF Fair, Plain
<1>6. Level(s, ReSched(c))
  <2> HIDE DEF go
  <2>1. e \in Members /\ Level(go, e)
    BY <1>2, CheckStartExchangeTyped, LevelIs
  <2> HIDE DEF e
  <2>2. Level(e, c) /\ Level(c, ReSched(c))
    BY <2>1, LevelIs DEF Level, ReSched
  <2> HIDE DEF c
  <2> QED
    BY <1>3, <2>1, <2>2, LevelTrans
<1>7. SigInt(s) \in {die, null, s, ReSched(one), ReSched(two)}
  BY DEF SigInt, OnSignal
<1>8. SigTerm(s) \in {die, null, s, ReSched(term)}
  BY DEF SigTerm, OnSignal
<1>9. SigTstp(s) \in {null, s, stop}
  BY DEF SigTstp, OnSignal
<1>10. SigCont(s, lv) \in {null, s, ReSched(c)}
  BY DEF SigCont, OnSignal
<1> HIDE DEF die, null, one, two, term, stop, c
<1> QED
  BY <1>1, <1>3, <1>4, <1>5, <1>6, <1>7, <1>8, <1>9, <1>10, LevelFair

\* CheckStartNewJobs() schedules quit once the source has no more tasks and
\* todo is empty.
LEMMA TidyUpFair ==
  ASSUME NEW s \in Members, NEW lv PROVE Fair(s, TidyUp(s, lv))
<1> DEFINE a == [s EXCEPT !.dead = {}]
           r == CheckStartTasks(a, lv)
           v == Largest(r.sq, r.sqa)
           w == [r EXCEPT !.sq = v]
           z == ReSched(w)
<1>1. a \in Members /\ Level(s, a)
  <2>1. a \in Members
    BY Write
  <2>2. Level(s, a)
    BY DEF Level
  <2> QED
    BY <2>1, <2>2
<1>2. TidyUp(s, lv) \in {a, r} \/ (TidyUp(s, lv) = z /\ r.sqa > 0 /\ TodoEmpty(r))
  BY DEF TidyUp, CheckStartNewJobs
<1> HIDE DEF a
<1>3. r \in Members /\ Level(a, r)
  BY <1>1, CheckStartTasksTyped, LevelIs
<1> HIDE DEF r
<1>4. Level(s, r)
  BY <1>1, <1>3, LevelTrans
<1>5. ASSUME r.sqa > 0, TodoEmpty(r) PROVE Fair(r, z)
  <2>1. r.sq \in 0..2 /\ r.sqa \in 0..2
    BY <1>3, Read
  <2>2. w.sq = v
    BY <1>3, Written
  <2>3. /\ w.caught = r.caught /\ w.sqa = r.sqa /\ w.dsmt = r.dsmt
        /\ w.fresh = r.fresh /\ w.next = r.next /\ w.srcPend = r.srcPend
        /\ w.done = r.done /\ w.srcDone = r.srcDone
        /\ w.stage = r.stage /\ w.rtes = r.rtes /\ w.ftes = r.ftes
    OBVIOUS
  <2> HIDE DEF w
  <2>4. r.sq <= v /\ r.sqa <= v
    BY <2>1 DEF Largest
  <2> HIDE DEF v
  <2>5. ASSUME Plain(w) PROVE Plain(r) /\ r.sqa = 1 /\ r.fresh = <<>>
    <3>1. v <= 1 /\ w.caught = 0
      BY <2>2, <2>5 DEF Plain
    <3>2. v \in Int
      BY <2>1 DEF v, Largest
    <3>3. r.sq <= 1 /\ r.sqa <= 1 /\ r.sqa = 1
      BY <1>5, <2>1, <2>4, <3>1, <3>2
    <3> QED
      BY <1>5, <2>3, <3>1, <3>3 DEF Plain, TodoEmpty
  <2>6. ASSUME Plain(w), Straight(r) PROVE Straight(w)
    <3>1. ~w.dsmt
      BY <2>3, <2>6 DEF Straight
    <3>2. w.sqa = 1 /\ w.fresh = <<>>
      BY <2>3, <2>5, <2>6
    <3>3. w.next > NFrames /\ w.srcPend # "AGetTask"
      BY <2>3, <3>2, <2>6 DEF Straight
    <3>4. \A u \in Frames : Count(w.done, u) > 0 \/ u = w.srcDone => Worked(w, u)
      BY <2>3, <2>6 DEF Straight, Worked
    <3> QED
      BY <3>1, <3>2, <3>3, <3>4 DEF Straight
  <2>7. Fair(r, w)
    BY <2>5, <2>6 DEF Fair
  <2>8. Level(w, z)
    BY DEF Level, ReSched
  <2> QED
    BY <2>7, <2>8, LevelFair, FairTrans
<1> HIDE DEF z
<1> QED
  BY <1>1, <1>2, <1>4, <1>5, LevelFair, FairTrans

\* The way out itself changes nothing of the account.
LEMMA GoOnFair ==
  ASSUME NEW s \in Members PROVE Fair(s, GoOnQuitting(s))
<1> DEFINE t    == [s EXCEPT !.toldIf = TRUE]
           told == ReSched(t)
           out  == ActuallyQuit(s, Largest(s.sq, s.sqa) - 1)
           a    == [s EXCEPT !.toldTs = TRUE]
           bye  == TSDisconnect(a, TRUE)
<1>1. Level(s, told)
  BY DEF ReSched, Level
<1>2. Level(s, out) /\ Level(s, CheckStartExchange(s)) /\ Level(s, s)
  BY LevelIs
<1>3. Level(s, bye)
  <2>1. Level(s, a) /\ a \in Members
    <3>1. a \in Members
      BY Write
    <3>2. Level(s, a)
      BY DEF Level
    <3> QED
      BY <3>1, <3>2
  <2> HIDE DEF a
  <2>2. Level(a, bye)
    BY <2>1, LevelIs
  <2> QED
    BY <2>1, <2>2, LevelTrans
<1>4. Fair(s, GetOrDoneTask(s))
  BY GetOrDoneFair
<1>5. GoOnQuitting(s) \in {s, told, out, bye, CheckStartExchange(s), GetOrDoneTask(s)}
  BY Zenon DEF GoOnQuitting, told, t, out, bye, a
<1> HIDE DEF told, out, bye
<1> QED
  BY <1>1, <1>2, <1>3, <1>4, <1>5, LevelFair

\* The schedule timer.
LEMMA ScheduleFair ==
  ASSUME NEW s \in Members, Exchange(s), Sound(s), NEW forked, NEW lv
  PROVE  Fair(s, Schedule(s, forked, lv))
<1> DEFINE a == [s EXCEPT !.tid0 = FALSE]
           k == KillJobs(a)
           l == LaunchScheduled(k, forked, lv)
<1>1. CASE s.quitStep > 0
  <2> DEFINE c == DestructCleanup(s)
             b == IF s.quitStep = 2 THEN c ELSE s
             r == [b EXCEPT !.quitStep = @ + 1]
  <2>1. Level(s, c) /\ Level(s, s)
    BY LevelIs DEF DestructCleanup
  <2>2. b \in {c, s}
    OBVIOUS
  <2> HIDE DEF b, c
  <2>3. Level(b, r)
    BY DEF Level
  <2>4. Level(s, r)
    BY <2>1, <2>2, <2>3, LevelTrans
  <2>5. Schedule(s, forked, lv) = r
    BY <1>1 DEF Schedule, QuitCountdown, r, b, c
  <2> QED
    BY <2>4, <2>5, LevelFair
<1>2. CASE s.quitStep = 0 /\ ~s.started
  <2> DEFINE r == [a EXCEPT !.started = TRUE]
  <2>1. a \in Members /\ Level(s, a)
    <3>1. a \in Members
      BY Write
    <3>2. Level(s, a)
      BY DEF Level
    <3> QED
      BY <3>1, <3>2
  <2> HIDE DEF a
  <2>2. r \in Members /\ Level(a, r)
    <3>1. r \in Members
      BY <2>1, Write
    <3>2. Level(a, r)
      BY DEF Level
    <3> QED
      BY <3>1, <3>2
  <2> HIDE DEF r
  <2>3. Level(r, TSConnect(r))
    <3> DEFINE y == TSConnect(r)
    <3>1. y.srcPend # "AGetTask"
      BY <2>2 DEF TSConnect, Check, Die, Members
    <3>2. /\ y.caught = r.caught /\ y.sq = r.sq /\ y.sqa = r.sqa /\ y.dsmt = r.dsmt
          /\ y.fresh = r.fresh /\ y.next = r.next
          /\ y.done = r.done /\ y.srcDone = r.srcDone
          /\ y.stage = r.stage /\ y.rtes = r.rtes /\ y.ftes = r.ftes
      BY DEF TSConnect, Check, Die
    <3> HIDE DEF y
    <3>3. Level(r, y)
      BY <3>1, <3>2 DEF Level
    <3> QED
      BY <3>3 DEF y
  <2>4. Level(r, ActuallyQuit(r, 0))
    BY <2>2, LevelIs
  <2>5. Schedule(s, forked, lv) = StartProcessing(s)
    BY <1>2 DEF Schedule
  <2>6. [s EXCEPT !.tid0 = FALSE, !.started = TRUE] = r
    BY DEF r, a
  <2>7. StartProcessing(s) \in {TSConnect(r), ActuallyQuit(r, 0)}
    BY <2>6 DEF StartProcessing
  <2>8. Level(s, TSConnect(r)) /\ Level(s, ActuallyQuit(r, 0))
    BY <2>1, <2>2, <2>3, <2>4, LevelTrans
  <2> QED
    BY <2>5, <2>7, <2>8, LevelFair
<1>3. CASE s.quitStep = 0 /\ s.started
  <2>1. a \in Members /\ Calm(s, a) /\ Level(s, a)
    <3>1. a \in Members
      BY Write
    <3>2. Calm(s, a) /\ Level(s, a)
      BY DEF Calm, Still, Level
    <3> QED
      BY <3>1, <3>2
  <2> HIDE DEF a
  <2>2. k \in Members /\ Calm(a, k) /\ Level(a, k)
    BY <2>1, KillJobsTyped, Quiet, LevelIs
  <2>3. Sound(k)
    BY <2>1, <2>2, CalmTrans, CalmMoves DEF Moves
  <2>4. Up(s)
    BY <1>3 DEF Up
  <2>5. l \in Members /\ Schedule(s, forked, lv) = GoOnQuitting(l)
    BY <2>4, ScheduleGoesOn DEF AtQuit, l, k, a
  <2> HIDE DEF k
  <2>6. Fair(k, l)
    BY <2>2, <2>3, LaunchFair
  <2> HIDE DEF l
  <2>7. Fair(l, GoOnQuitting(l))
    BY <2>5, GoOnFair
  <2> QED
    BY <2>1, <2>2, <2>5, <2>6, <2>7, LevelFair, FairTrans
<1>4. s.quitStep \in Nat
  BY Read
<1> QED
  BY <1>1, <1>2, <1>3, <1>4

\* Every answer of the source.
LEMMA SourceFair ==
  ASSUME TypeOK, ExchangeAgrees, InHand, SourceAnswers PROVE Fair(tm, tm')
<1>1. tm \in Members /\ Exchange(tm) /\ Sound(tm)
  BY AgreesMeansOrder DEF TypeOK, InHand
<1> DEFINE con  == SrcConnected(tm)
           out  == SrcHandOut(tm)
           no   == SrcNoTask(tm)
           back == SrcTakeBack(tm)
           dis  == SrcDisconnected(tm)
<1>2. /\ con.quitStep = tm.quitStep /\ out.quitStep = tm.quitStep
      /\ no.quitStep = tm.quitStep /\ back.quitStep = tm.quitStep
      /\ dis.quitStep = tm.quitStep
      /\ \A k : SrcGetFails(tm, k).quitStep = tm.quitStep
  BY DEF SrcConnected, SrcHandOut, SrcNoTask, SrcTakeBack, SrcDisconnected,
         SrcGetFails
<1>3. tm.srcPend # "ANone"
  BY <1>1 DEF SourceAnswers, SourceConnects, SourceHandsOut, SourceHasNoMore,
              SourceGetFails, SourceTakesBack, SourceDisconnects, SourceTurn
<1>4. \A h, r : h.quitStep = tm.quitStep => TSNotify(h, r) = r
  BY <1>3, AnswerIsHandled
<1>5. CASE SourceConnects
  <2>1. tm' = TSConnected(con)
    BY <1>2, <1>4, <1>5 DEF SourceConnects
  <2> QED
    BY <1>1, <2>1, AnswersFair
<1>6. CASE SourceHandsOut
  <2>1. PICK lv \in Readings : tm' = TSNotify(out, TSGotTask(out, tm.next, lv))
    BY <1>6 DEF SourceHandsOut
  <2>2. tm' = TSGotTask(out, tm.next, lv)
    BY <1>2, <1>4, <2>1
  <2>3. tm.srcPend = "AGetTask" /\ tm.next <= NFrames
    BY <1>6 DEF SourceHandsOut, SourceTurn
  <2> QED
    BY <1>1, <2>2, <2>3, GotTaskFair
<1>7. CASE SourceHasNoMore
  <2>1. tm' = TSNoMoreTasks(no)
    BY <1>2, <1>4, <1>7 DEF SourceHasNoMore
  <2>2. tm.srcPend = "AGetTask" /\ tm.next > NFrames
    BY <1>7 DEF SourceHasNoMore, SourceTurn
  <2> QED
    BY <1>1, <2>1, <2>2, AnswersFair
<1>8. CASE SourceGetFails
  <2>1. PICK k \in BOOLEAN :
          tm' = TSNotify(SrcGetFails(tm, k), TSGetFailed(SrcGetFails(tm, k)))
    BY <1>8 DEF SourceGetFails
  <2>2. tm' = TSGetFailed(SrcGetFails(tm, k))
    BY <1>2, <1>4, <2>1
  <2>3. tm.srcPend = "AGetTask"
    BY <1>8 DEF SourceGetFails, SourceTurn
  <2> QED
    BY <1>1, <2>2, <2>3, AnswersFair
<1>9. CASE SourceTakesBack
  <2>1. tm' = TSTookDone(back)
    BY <1>2, <1>4, <1>9 DEF SourceTakesBack
  <2>2. tm.srcDone # NoTask
    BY <1>9 DEF SourceTakesBack, SourceTurn, ExchangeAgrees
  <2> QED
    BY <1>1, <2>1, <2>2, AnswersFair
<1>10. CASE SourceDisconnects
  <2>1. tm' = TSDisconnected(dis, tm.srcQuit)
    BY <1>2, <1>4, <1>10 DEF SourceDisconnects
  <2> QED
    BY <1>1, <2>1, AnswersFair
<1> QED
  BY <1>5, <1>6, <1>7, <1>8, <1>9, <1>10 DEF SourceAnswers

\* Every step.
LEMMA FairStep ==
  ASSUME TypeOK, ExchangeAgrees, InHand, [Next]_vars PROVE Fair(tm, tm')
<1>1. tm \in Members /\ Exchange(tm) /\ Awake(tm) /\ Sound(tm)
  BY AgreesMeansOrder DEF TypeOK, InHand
<1>2. Fair(tm, tm)
  BY DEF Fair
<1>3. CASE UNCHANGED vars
  BY <1>2, <1>3 DEF vars
<1>4. CASE SourceAnswers
  BY <1>4, SourceFair
<1>5. CASE ManagerSchedules
  <2>1. PICK lv \in Readings, forked \in BOOLEAN : tm' = Schedule(tm, forked, lv)
    BY <1>5 DEF ManagerSchedules
  <2> QED
    BY <1>1, <2>1, ScheduleFair
<1>6. CASE RoundEnds
  <2>1. PICK lv \in Readings : tm' = IF tm.dead = {} THEN tm ELSE TidyUp(tm, lv)
    BY <1>6 DEF RoundEnds
  <2> QED
    BY <1>1, <1>2, <2>1, TidyUpFair
<1>7. CASE \E lv \in Readings : ManagerPollsLoad(lv)
  <2>1. PICK lv \in Readings : tm' = LoadPoll(tm, lv)
    BY <1>7 DEF ManagerPollsLoad
  <2>2. Level(tm, LoadPoll(tm, lv))
    BY <1>1, LevelIs
  <2> QED
    BY <2>1, <2>2, LevelFair
<1>8. ASSUME NEW t \in Frames,
             JobExecutes(t) \/ JobExecFails(t) \/ JobEnds(t) \/ JobTimesOut(t)
      PROVE  Fair(tm, tm')
  <2>1. tm.job[t] # "none"
    BY <1>8 DEF JobExecutes, JobExecFails, JobEnds, JobTimesOut
  <2>2. t \in tm.proc
    BY <1>1, <2>1 DEF Sound, Fine
  <2>3. CASE JobExecutes(t)
    <3> DEFINE a == [tm EXCEPT !.job[t] = "running"]
    <3>1. PICK lv \in Readings : tm' = LaunchingTaskDone(a, lv)
      BY <2>3 DEF JobExecutes
    <3> DEFINE b == CheckStartTasks(a, lv)
    <3>2. a \in Members
      BY <1>1, WriteAt
    <3>3. Level(tm, a)
      BY DEF Level
    <3> HIDE DEF a
    <3>4. b \in Members /\ Level(a, b)
      BY <3>2, CheckStartTasksTyped, LevelIs
    <3>5. tm' = CheckStartExchange(b)
      BY <3>1 DEF LaunchingTaskDone
    <3> HIDE DEF b
    <3>6. Level(b, tm')
      BY <3>4, <3>5, LevelIs
    <3> QED
      BY <3>3, <3>4, <3>6, LevelTrans, LevelFair
  <2>4. CASE JobExecFails(t) \/ JobEnds(t)
    <3>1. PICK ok \in BOOLEAN, resume \in BOOLEAN, lv \in Readings :
            tm' = JobExited(tm, t, ok, resume, lv)
      BY <2>4 DEF JobExecFails, JobEnds
    <3> QED
      BY <1>1, <2>2, <3>1, JobExitedFair
  <2>5. CASE JobTimesOut(t)
    <3>1. Level(tm, KillProcess(tm, t, "Timeout"))
      BY <1>1, LevelIs
    <3> QED
      BY <2>5, <3>1, LevelFair DEF JobTimesOut
  <2> QED
    BY <1>8, <2>3, <2>4, <2>5
<1>9. CASE User
  <2>1. PICK lv : tm' \in {SigInt(tm), SigTerm(tm), SigTstp(tm), SigCont(tm, lv)}
    BY <1>9 DEF User, UserInterrupts, UserTerminates, UserStops, UserContinues
  <2> QED
    BY <1>1, <2>1, SignalsFair
<1> QED
  BY <1>3, <1>4, <1>5, <1>6, <1>7, <1>8, <1>9 DEF Next, MainLoop, Gone

\* As long as nobody interrupts the run, the source hears of tasks that were
\* worked on to the end only.
LEMMA HonestHolds == Spec => [](HonestSoFar /\ HonestReports)
<1>1. Init => HonestSoFar /\ HonestReports
  <2> SUFFICES ASSUME Init PROVE HonestSoFar /\ HonestReports
    OBVIOUS
  <2>1. /\ ~tm.dsmt /\ tm.sq = 0 /\ tm.sqa = 0 /\ tm.done = <<>>
        /\ tm.stage = [t \in Frames |-> "TaskDone"]
    BY DEF Init, Fresh
  <2>2. \A t \in Frames : Worked(tm, t)
    BY <2>1 DEF Worked
  <2>3. HonestSoFar
    BY <2>1, <2>2 DEF HonestSoFar, Honest, Straight
  <2>4. HonestReports
    BY DEF Init, HonestReports, GoodVerdicts
  <2> QED
    BY <2>3, <2>4
<1>2. /\ TypeOK /\ ExchangeAgrees /\ InHand /\ HonestSoFar /\ HonestReports
      /\ [Next]_vars
      => HonestSoFar' /\ HonestReports'
  <2> SUFFICES ASSUME TypeOK, ExchangeAgrees, InHand, HonestSoFar, HonestReports,
                      [Next]_vars
               PROVE  HonestSoFar' /\ HonestReports'
    OBVIOUS
  <2>1. Fair(tm, tm')
    BY FairStep
  <2>2. HonestSoFar'
    BY <2>1, FairHonest DEF HonestSoFar
  <2>3. ASSUME Plain(tm'), NEW t \in Frames PROVE reported'[t] \in GoodVerdicts
    <3>1. Plain(tm) /\ Straight(tm)
      BY <2>1, <2>3 DEF Fair, HonestSoFar, Honest
    <3>2. reported[t] \in GoodVerdicts
      BY <3>1 DEF HonestReports
    <3>3. reported \in [Frames -> Verdicts]
      BY DEF TypeOK
    <3>4. CASE SourceGetFails
      <4>1. reported' \in {reported, [reported EXCEPT ![tm.next] = "skipped"]}
        BY <3>4 DEF SourceGetFails
      <4> QED
        BY <3>2, <3>3, <4>1 DEF GoodVerdicts
    <3>5. CASE SourceTakesBack
      <4>1. /\ reported' = [reported EXCEPT ![tm.srcDone] = Verdict(tm, tm.srcDone)]
            /\ tm.srcPend = "ADoneTask"
        BY <3>5 DEF SourceTakesBack, SourceTurn
      <4>2. tm.srcDone \in Frames
        <5>1. tm.srcDone # NoTask
          BY <4>1 DEF ExchangeAgrees
        <5> QED
          BY <5>1, Read DEF TypeOK
      <4>3. Worked(tm, tm.srcDone)
        BY <3>1, <4>2 DEF Straight
      <4>4. Verdict(tm, tm.srcDone) \in GoodVerdicts
        BY <4>3 DEF Worked, Verdict, GoodVerdicts
      <4> QED
        BY <3>2, <3>3, <4>1, <4>4
    <3>6. CASE ~SourceGetFails /\ ~SourceTakesBack
      <4>1. reported' = reported
        BY <3>6 DEF Next, MainLoop, SourceAnswers, SourceConnects, SourceHandsOut,
             SourceHasNoMore, SourceDisconnects, ManagerSchedules, RoundEnds,
             ManagerPollsLoad, JobExecutes, JobExecFails, JobEnds, JobTimesOut,
             User, UserInterrupts, UserTerminates, UserStops, UserContinues,
             Gone, vars
      <4> QED
        BY <3>2, <4>1
    <3> QED
      BY <3>4, <3>5, <3>6
  <2>4. HonestReports'
    BY <2>3 DEF HonestReports
  <2> QED
    BY <2>2, <2>4
<1> QED
  BY <1>1, <1>2, RendViewTyped, ExchangeHolds, InHandHolds, PTL DEF Spec

\* The status says which quit was scheduled: 0 for the end of the work, 1 for
\* an interrupt or an error.
LEMMA StatusHolds == Spec => []StatusIsSchedule
<1>1. Init => StatusIsSchedule
  <2>1. Fresh.quitStep = 0
    BY DEF Fresh
  <2> QED
    BY <2>1 DEF Init, StatusIsSchedule
<1>2. /\ TypeOK /\ ExchangeAgrees /\ RunsWell /\ StatusIsSchedule /\ [Next]_vars
      => StatusIsSchedule'
  <2> SUFFICES ASSUME TypeOK, ExchangeAgrees, RunsWell, StatusIsSchedule,
                      [Next]_vars, tm'.quitStep > 0
               PROVE  /\ Quitting(tm')
                      /\ tm'.status = Largest(tm'.sq, tm'.sqa) - 1
    BY DEF StatusIsSchedule
  <2>1. tm.quitStep \in 0..5
    BY Read DEF TypeOK
  <2>2. CASE tm.quitStep > 0
    <3>1. Frozen(tm, tm')
      BY <2>2, WayOut
    <3>2. Quitting(tm) /\ tm.status = Largest(tm.sq, tm.sqa) - 1
      BY <2>2 DEF StatusIsSchedule
    <3> QED
      BY <3>1, <3>2 DEF Frozen, Quitting
  <2>3. CASE tm.quitStep = 0
    <3>1. Unstarted(tm)
      BY DEF RunsWell, NotYetStarted
    <3>2. tm'.quitStep # 0
      OBVIOUS
    <3>3. PICK lv \in Readings, forked \in BOOLEAN :
            LET l == AtQuit(tm, forked, lv) IN
            /\ l \in Members /\ Quitting(l)
            /\ tm' = ActuallyQuit(l, Largest(l.sq, l.sqa) - 1)
      BY <2>3, <3>1, <3>2, SetsOut
    <3> DEFINE l == AtQuit(tm, forked, lv)
               v == Largest(l.sq, l.sqa) - 1
               q == [l EXCEPT !.quitStep = 1, !.status = v]
    <3>4. l \in Members /\ Quitting(l) /\ tm' = ReSched(q)
      BY <3>3 DEF ActuallyQuit
    <3> HIDE DEF l
    <3>5. q.sq = l.sq /\ q.sqa = l.sqa
      OBVIOUS
    <3>6. q.status = v
      BY <3>4 DEF Members
    <3> HIDE DEF q
    <3>7. tm'.sq = l.sq /\ tm'.sqa = l.sqa /\ tm'.status = v
      BY <3>4, <3>5, <3>6 DEF ReSched
    <3> QED
      BY <3>4, <3>7 DEF Quitting
  <2> QED
    BY <2>1, <2>2, <2>3
<1> QED
  BY <1>1, <1>2, RendViewTyped, ExchangeHolds, RunsWellHolds, PTL DEF Spec

\* Status 0 of a run nobody interrupted means that the source has no more
\* tasks, that all it had were given back (CleanExit), and that each of them
\* was worked on to its end.
THEOREM StatusZeroHolds == Spec => []StatusZeroMeansAllWorkedOn
<1>1. /\ TypeOK /\ CleanExit /\ HonestSoFar /\ HonestReports /\ StatusIsSchedule
      => StatusZeroMeansAllWorkedOn
  <2> SUFFICES ASSUME TypeOK, CleanExit, HonestSoFar, HonestReports,
                      StatusIsSchedule, tm.quitStep > 0, tm.status = 0,
                      tm.caught = 0, NEW t \in Frames
               PROVE  reported[t] \in {"complete", "unrendered", "unfiltered",
                                       "skipped"}
    BY DEF StatusZeroMeansAllWorkedOn
  <2>1. tm.sq \in 0..2 /\ tm.sqa \in 0..2 /\ tm.next \in Nat
    BY Read DEF TypeOK
  <2>2. Largest(tm.sq, tm.sqa) = 1
    <3>1. Largest(tm.sq, tm.sqa) - 1 = 0
      BY DEF StatusIsSchedule
    <3>2. Largest(tm.sq, tm.sqa) \in Int
      BY <2>1 DEF Largest
    <3> QED
      BY <3>1, <3>2
  <2>3. tm.sq <= 1 /\ tm.sqa <= 1 /\ (tm.sq = 1 \/ tm.sqa = 1)
    BY <2>1, <2>2 DEF Largest
  <2>4. Plain(tm)
    BY <2>3 DEF Plain
  <2>5. tm.next > NFrames
    BY <2>3, <2>4 DEF HonestSoFar, Honest, Straight
  <2>6. reported[t] # "no"
    <3>1. t < tm.next
      BY <2>1, <2>5, ConfigAssumption DEF Frames
    <3> QED
      BY <3>1 DEF CleanExit
  <2>7. reported[t] \in GoodVerdicts
    BY <2>4 DEF HonestReports
  <2> QED
    BY <2>6, <2>7 DEF GoodVerdicts
<1> QED
  BY <1>1, RendViewTyped, CleanExitHolds, HonestHolds, StatusHolds, PTL
=============================================================================
