----------------------------- MODULE FlowProofs -----------------------------
(***************************************************************************)
(* RendView implements TaskFlow: every callback moves each task along its    *)
(* lifecycle or leaves it alone.  Where a task can be is known from          *)
(* TaskProofs, once it is known what was done to its parts: a queue holds    *)
(* only what belongs there.  So the proof says, per member function, that    *)
(* the tasks it is not about keep their parts and are given up only when the *)
(* gate closes (Yields), and what becomes of the one it is about.            *)
(***************************************************************************)
EXTENDS JobProofs, RendViewRefines

\* Task t is in done or with the source.
Aside(s, t) == Count(s.done, t) > 0 \/ t = s.srcDone

\* From s to r nothing happens to the tasks but t, except that some are given
\* up because less is to be started now.
Yields(s, r, t) ==
  /\ s.dsmt => r.dsmt
  /\ s.sq > 0 => r.sq > 0
  /\ \A u \in Frames \ {t} :
       /\ r.stage[u] = s.stage[u]
       /\ r.rtes[u] = s.rtes[u] /\ r.ftes[u] = s.ftes[u]
       /\ u \in r.proc <=> u \in s.proc
       /\ Count(r.fresh, u) > 0 => Count(s.fresh, u) > 0
       /\ Aside(s, u) => Aside(r, u)
       /\ Aside(r, u) =>
            Aside(s, u) \/ r.dsmt \/ (r.sq > 0 /\ Count(s.fresh, u) > 0)

\* What was done to the parts of a task that is under way, on its way back
\* included: they are run in order, and each is run once.
Course(s, t) ==
  LET first == IF t \in RenderFrames THEN "Success" ELSE "Unset"
      last  == IF t \in FilterFrames THEN "Success" ELSE "Unset"
      r     == s.rtes[t].end
      f     == s.ftes[t].end
  IN  \/ Untouched(s, t)
      \/ Rendered(s, t) /\ t \in RenderFrames /\ t \in FilterFrames
      \/ /\ s.stage[t] = "ToBeRendered" /\ t \in RenderFrames
         /\ r = "Failed" /\ f = "Unset"
      \/ /\ s.stage[t] = "ToBeFiltered" /\ t \in FilterFrames
         /\ r = first /\ f = "Failed"
      \/ s.stage[t] = "TaskDone" /\ r = first /\ f = last

OnCourse ==
  \A t \in Frames : t < tm.next /\ reported[t] = "no" => Course(tm, t)

LEMMA YieldsTrans ==
  ASSUME NEW s, NEW r, NEW q, NEW t,
         Yields(s, r, t), Yields(r, q, t) \/ Yields(r, q, NoTask)
  PROVE  Yields(s, q, t)
<1>1. \A u \in Frames \ {t} : u \in Frames \ {NoTask}
  BY FrameIsTask
<1> QED
  BY <1>1 DEF Yields

LEMMA YieldsLess ==
  ASSUME NEW s, NEW r, NEW t, Yields(s, r, NoTask) PROVE Yields(s, r, t)
<1>1. \A u \in Frames \ {t} : u \in Frames \ {NoTask}
  BY FrameIsTask
<1> QED
  BY <1>1 DEF Yields

LEMMA LevelYields ==
  ASSUME NEW s, NEW r, Level(s, r), r.proc = s.proc PROVE Yields(s, r, NoTask)
  BY DEF Level, Yields, Aside

LEMMA CalmYields ==
  ASSUME NEW s, NEW r, Calm(s, r) PROVE Yields(s, r, NoTask)
  BY DEF Calm, Still, Yields, Aside

----------------------------------------------------------------------------
(* Member functions that are about no task in particular *)

LEMMA QuietYields ==
  ASSUME NEW s \in Members, NEW lv, NEW how, NEW cond
  PROVE  /\ Yields(s, s, NoTask) /\ Yields(s, ReSched(s), NoTask)
         /\ Yields(s, Check(s, cond), NoTask) /\ Yields(s, Die(s, how), NoTask)
         /\ Yields(s, KillScheduledForStart(s), NoTask)
         /\ Yields(s, CheckStartTasks(s, lv), NoTask)
         /\ Yields(s, CheckStartExchange(s), NoTask)
         /\ Yields(s, TSDisconnect(s, cond), NoTask)
         /\ Yields(s, TSGetTask(s), NoTask) /\ Yields(s, TSConnect(s), NoTask)
         /\ Yields(s, ActuallyQuit(s, how), NoTask)
         /\ Yields(s, LoadPoll(s, lv), NoTask) /\ Yields(s, KillJobs(s), NoTask)
         /\ Yields(s, KillProcess(s, how, cond), NoTask)
<1>1. Yields(s, KillScheduledForStart(s), NoTask)
  <2>1. KillScheduledForStart(s).proc = s.proc
    BY KillScheduledIs DEF Still
  <2> QED
    BY <2>1, LevelIs, LevelYields
<1>2. Yields(s, CheckStartTasks(s, lv), NoTask)
  <2>1. CheckStartTasks(s, lv).proc = s.proc
    BY CheckStartTasksTame DEF Tame
  <2> QED
    BY <2>1, LevelIs, LevelYields
<1> QED
  BY <1>1, <1>2, Quiet, CalmYields

\* Rendered tasks are given up when the gate is shut.
LEMMA DontStartYields ==
  ASSUME NEW s \in Members PROVE Yields(s, DontStartMoreTasks(s), NoTask)
<1> DEFINE r == DontStartMoreTasks(s)
<1>1. /\ r.dsmt /\ r.done = s.done \o s.refilter
      /\ r.fresh = s.fresh /\ r.proc = s.proc /\ r.srcDone = s.srcDone
      /\ r.stage = s.stage /\ r.rtes = s.rtes /\ r.ftes = s.ftes /\ r.sq = s.sq
  BY DontStartIs
<1> HIDE DEF r
<1>2. \A u : Aside(s, u) => Aside(r, u)
  <2>1. ASSUME NEW u, Count(s.done, u) > 0 PROVE Count(r.done, u) > 0
    <3>1. s.done \in Seq(Frames) /\ s.refilter \in Seq(Frames)
      BY Read
    <3>2. Count(r.done, u) = Count(s.done, u) + Count(s.refilter, u)
      BY <1>1, <3>1, CountConcat
    <3>3. Count(s.done, u) \in Nat /\ Count(s.refilter, u) \in Nat
      BY <3>1, CountType
    <3> QED
      BY <2>1, <3>2, <3>3
  <2> QED
    BY <1>1, <2>1 DEF Aside
<1>3. Yields(s, r, NoTask)
  BY <1>1, <1>2 DEF Yields
<1> QED
  BY <1>3 DEF r

\* More quit than before.
LEMMA QuitYields ==
  ASSUME NEW s \in Members, NEW v, s.sq > 0 => v > 0
  PROVE  Yields(s, [s EXCEPT !.sq = v], NoTask)
<1> DEFINE r == [s EXCEPT !.sq = v]
<1>1. r.sq = v
  BY Written
<1>2. /\ r.dsmt = s.dsmt /\ r.done = s.done
      /\ r.fresh = s.fresh /\ r.proc = s.proc /\ r.srcDone = s.srcDone
      /\ r.stage = s.stage /\ r.rtes = s.rtes /\ r.ftes = s.ftes
  OBVIOUS
<1> HIDE DEF r
<1>3. Yields(s, r, NoTask)
  BY <1>1, <1>2 DEF Yields, Aside
<1> QED
  BY <1>3 DEF r

LEMMA ScheduleQuitYields ==
  ASSUME NEW s \in Members PROVE Yields(s, ScheduleQuit(s), NoTask)
<1> DEFINE v == IF s.sq = 0 THEN 1 ELSE s.sq
           r == [s EXCEPT !.sq = v]
<1>1. v > 0 /\ v \in 0..2
  BY Read
<1>2. r \in Members
  <2> HIDE DEF v
  <2> QED
    BY <1>1, Write
<1>3. Yields(s, r, NoTask)
  BY <1>1, QuitYields
<1>4. ScheduleQuit(s) \in {r, KillScheduledForStart(r)}
  BY DEF ScheduleQuit
<1> HIDE DEF r
<1>5. Yields(r, KillScheduledForStart(r), NoTask)
  BY <1>2, QuietYields
<1> QED
  BY <1>3, <1>4, <1>5, YieldsTrans

LEMMA ScheduleKillYields ==
  ASSUME NEW s \in Members PROVE Yields(s, ScheduleKill(s), NoTask)
<1> DEFINE d == DontStartMoreTasks(s)
           q == [d EXCEPT !.sq = 2]
           r == [q EXCEPT !.killTasks = TRUE, !.abortOn = TRUE]
<1>1. d \in Members /\ Yields(s, d, NoTask)
  BY DontStartTyped, DontStartYields
<1>2. r = ScheduleKill(s)
  BY DEF ScheduleKill
<1> HIDE DEF d
<1>3. Yields(d, q, NoTask)
  BY <1>1, QuitYields
<1> HIDE DEF q
<1>4. Yields(q, r, NoTask)
  BY DEF Yields, Aside
<1> QED
  BY <1>1, <1>2, <1>3, <1>4, YieldsTrans

LEMMA CountFailureYields ==
  ASSUME NEW s \in Members, NEW t PROVE Yields(s, CountFailure(s, t), NoTask)
<1> DEFINE r == [s EXCEPT !.failed = @ + 1]
           d == DontStartMoreTasks(r)
           q == [d EXCEPT !.sq = 2]
           z == ReSched(q)
<1>1. Yields(s, s, NoTask) /\ Yields(s, r, NoTask)
  BY DEF Yields, Aside
<1>2. CountFailure(s, t) \in {s, r, z}
  BY DEF CountFailure
<1>3. r \in Members
  <2>1. s.failed + 1 \in Nat
    BY Read
  <2> QED
    BY <2>1, Write
<1> HIDE DEF r
<1>4. d \in Members /\ Yields(r, d, NoTask)
  BY <1>3, DontStartTyped, DontStartYields
<1> HIDE DEF d
<1>5. q \in Members
  BY <1>4, WriteNumber
<1>8. Yields(d, q, NoTask)
  BY <1>4, QuitYields
<1> HIDE DEF q
<1>6. Yields(q, z, NoTask)
  BY <1>5, QuietYields
<1> HIDE DEF z
<1>7. Yields(s, z, NoTask)
  BY <1>1, <1>4, <1>8, <1>6, YieldsTrans
<1> QED
  BY <1>1, <1>2, <1>7

----------------------------------------------------------------------------
(* Requests to the source *)

\* The first of the done tasks is with the source.
LEMMA GiveBackDoneYields ==
  ASSUME NEW s \in Members, s.done # <<>>, s.srcDone = NoTask
  PROVE  Yields(s, GiveBackDone(s), NoTask)
<1> DEFINE t == Head(s.done)
           a == [s EXCEPT !.done = Tail(s.done)]
           d == [a EXCEPT !.tsgod = "ADoneTask"]
           r == TSDoneTask(d, t)
<1>1. t \in Frames /\ Tail(s.done) \in Seq(Frames)
  BY Read, CountTail
<1>2. /\ a \in Members /\ d \in Members /\ d.done = Tail(s.done)
  <2>1. a \in Members
    BY <1>1, Write
  <2>2. d \in Members
    BY <2>1, Write DEF Actions
  <2>3. d.done = Tail(s.done)
    BY DEF Members
  <2> QED
    BY <2>1, <2>2, <2>3
<1>3. /\ d.fresh = s.fresh /\ d.proc = s.proc /\ d.stage = s.stage
      /\ d.rtes = s.rtes /\ d.ftes = s.ftes /\ d.sq = s.sq /\ d.dsmt = s.dsmt
  OBVIOUS
<1>4. GiveBackDone(s) = r
  BY DEF GiveBackDone
<1> HIDE DEF a, d
<1>5. /\ r.srcDone = t /\ r.done = Tail(s.done)
      /\ r.fresh = s.fresh /\ r.proc = s.proc /\ r.stage = s.stage
      /\ r.rtes = s.rtes /\ r.ftes = s.ftes /\ r.sq = s.sq /\ r.dsmt = s.dsmt
  BY <1>1, <1>2, <1>3, DoneTaskIs
<1> HIDE DEF r
<1>6. ASSUME NEW u \in Frames PROVE Aside(s, u) <=> Aside(r, u)
  <2>0. s.done \in Seq(Frames)
    BY Read
  <2>1. Count(s.done, u) = Count(Tail(s.done), u) + (IF u = t THEN 1 ELSE 0)
    BY <2>0, CountTail DEF t
  <2>2. Count(Tail(s.done), u) \in Nat
    BY <1>1, CountType
  <2>3. Count(s.done, u) > 0 <=> Count(Tail(s.done), u) > 0 \/ u = t
    BY <2>1, <2>2
  <2>4. u # NoTask
    BY FrameIsTask
  <2> QED
    BY <1>5, <2>3, <2>4 DEF Aside
<1> QED
  BY <1>4, <1>5, <1>6 DEF Yields

\* A task that was not worked on is given up: any with dont_start_more_tasks,
\* a new one with quit scheduled.
LEMMA GiveBackSpecialYields ==
  ASSUME NEW s \in Members, s.srcDone = NoTask, CanDoneTask(s), s.done = <<>>
  PROVE  Yields(s, GiveBackSpecial(s), NoTask)
<1> DEFINE t == SpecialDone(s)
           a == [s EXCEPT !.tdaf = FALSE, !.tsgod = "ADoneTask"]
           k == IF s.sfs = t THEN KillScheduledForStart(a) ELSE a
           d == Dequeue(k, t)
           r == TSDoneTask(d, t)
<1>1. t \in Frames /\ (s.dsmt \/ (s.sq > 0 /\ Count(s.fresh, t) > 0))
  <2>1. t \in Frames
    BY SpecialDoneTyped
  <2>2. CASE ~s.dsmt
    <3>1. t = Head(s.fresh) /\ s.fresh \in Seq(Frames) /\ s.fresh # <<>> /\ s.sq > 0
      BY <2>2, Read DEF SpecialDone, CanDoneTask
    <3> HIDE DEF t
    <3>2. Tail(s.fresh) \in Seq(Frames)
      BY <3>1, CountTail
    <3>3. Count(s.fresh, t) = Count(Tail(s.fresh), t) + 1
      BY <3>1, CountTail
    <3>4. Count(Tail(s.fresh), t) \in Nat
      BY <3>2, CountType
    <3> QED
      BY <2>1, <3>1, <3>3, <3>4
  <2> QED
    BY <2>1, <2>2
<1> HIDE DEF t
<1>2. a \in Members /\ Calm(s, a)
  <2>1. [s EXCEPT !.tdaf = FALSE] \in Members
    BY Write
  <2>2. a \in Members
    BY <2>1, Write DEF Actions
  <2> QED
    BY <2>2 DEF Calm, Still
<1> HIDE DEF a
<1>3. k \in Members /\ Still(s, k) /\ k.sq = s.sq /\ k.dsmt = s.dsmt
  BY <1>2, KillScheduledIs DEF Calm, Still
<1> HIDE DEF k
<1>4. /\ d \in Members /\ d.fresh = Without(k.fresh, t)
      /\ d.done = k.done /\ d.proc = k.proc /\ d.srcDone = k.srcDone
      /\ d.stage = k.stage /\ d.rtes = k.rtes /\ d.ftes = k.ftes
      /\ d.sq = k.sq /\ d.dsmt = k.dsmt
  BY <1>1, <1>3, DequeueIs
<1> HIDE DEF d
<1>5. /\ r.srcDone = t /\ r.done = d.done /\ r.fresh = d.fresh /\ r.proc = d.proc
      /\ r.stage = d.stage /\ r.rtes = d.rtes /\ r.ftes = d.ftes
      /\ r.sq = d.sq /\ r.dsmt = d.dsmt
  BY <1>1, <1>4, DoneTaskIs
<1> HIDE DEF r
<1>6. ASSUME NEW u PROVE Count(r.fresh, u) > 0 => Count(s.fresh, u) > 0
  <2>1. k.fresh \in Seq(Frames)
    BY <1>3, Read
  <2>2. Count(r.fresh, u) = IF u = t /\ Count(k.fresh, t) > 0
                            THEN Count(k.fresh, u) - 1 ELSE Count(k.fresh, u)
    BY <1>4, <1>5, <2>1, CountWithout
  <2>3. Count(k.fresh, u) \in Nat
    BY <2>1, CountType
  <2>4. k.fresh = s.fresh
    BY <1>3 DEF Still
  <2> QED
    BY <2>2, <2>3, <2>4
<1>7. ASSUME NEW u \in Frames
      PROVE  /\ Aside(s, u) => Aside(r, u)
             /\ Aside(r, u) => Aside(s, u) \/ u = t
  <2>1. u # NoTask
    BY FrameIsTask
  <2> QED
    BY <1>3, <1>4, <1>5, <2>1 DEF Aside, Still
<1>8. Yields(s, r, NoTask)
  BY <1>1, <1>3, <1>4, <1>5, <1>6, <1>7 DEF Yields, Still
<1>9. GiveBackSpecial(s) = r
  BY DEF GiveBackSpecial, r, d, k, a, t
<1> QED
  BY <1>8, <1>9

\* Whichever request is made.
LEMMA GetOrDoneYields ==
  ASSUME NEW s \in Members, s.srcDone = NoTask
  PROVE  Yields(s, GetOrDoneTask(s), NoTask)
<1> DEFINE g  == [s EXCEPT !.tsgod = "AGetTask"]
           n  == [s EXCEPT !.tsgod = "ANone"]
           ok == s.connected /\ s.pending = "ANone"
<1>1. Calm(s, g) /\ Calm(s, n)
  BY DEF Calm, Still
<1> HIDE DEF g, n
<1>2. Yields(s, TSGetTask(g), NoTask) /\ Yields(s, TSDisconnect(n, FALSE), NoTask)
  BY <1>1, Quiet, CalmTrans, CalmYields
<1>3. s.done # <<>> => Yields(s, GiveBackDone(s), NoTask)
  BY GiveBackDoneYields
<1>4. CanDoneTask(s) /\ s.done = <<>> => Yields(s, GiveBackSpecial(s), NoTask)
  BY GiveBackSpecialYields
<1>5. \A r : Yields(s, r, NoTask) => Yields(s, Check(r, ok), NoTask)
  BY Quiet, CalmYields, YieldsTrans
<1> HIDE DEF ok
<1> QED
  BY <1>2, <1>3, <1>4, <1>5 DEF GetOrDoneTask, g, n, ok

----------------------------------------------------------------------------
(* The way out, signals and answers *)

LEMMA GoOnYields ==
  ASSUME NEW s \in Members, Exchange(s) PROVE Yields(s, GoOnQuitting(s), NoTask)
<1> DEFINE told == ReSched([s EXCEPT !.toldIf = TRUE])
           out  == ActuallyQuit(s, Largest(s.sq, s.sqa) - 1)
           bye  == TSDisconnect([s EXCEPT !.toldTs = TRUE], TRUE)
<1>1. Calm(s, told)
  BY DEF ReSched, Calm, Still
<1>2. Calm(s, out) /\ Calm(s, CheckStartExchange(s)) /\ Calm(s, s)
  BY Quiet
<1>3. Calm(s, bye)
  <2> DEFINE a == [s EXCEPT !.toldTs = TRUE]
  <2>1. Calm(s, a)
    BY DEF Calm, Still
  <2> HIDE DEF a
  <2>2. Calm(a, TSDisconnect(a, TRUE))
    BY Quiet
  <2> QED
    BY <2>1, <2>2, CalmTrans DEF a
<1>4. s.connected /\ s.pending = "ANone" => Yields(s, GetOrDoneTask(s), NoTask)
  BY GetOrDoneYields DEF Exchange
<1>5. \/ GoOnQuitting(s) \in {s, told, out, bye, CheckStartExchange(s)}
      \/ s.connected /\ s.pending = "ANone" /\ GoOnQuitting(s) = GetOrDoneTask(s)
  BY DEF GoOnQuitting
<1> HIDE DEF told, out, bye
<1> QED
  BY <1>1, <1>2, <1>3, <1>4, <1>5, CalmYields

LEMMA TidyUpYields ==
  ASSUME NEW s \in Members, NEW lv PROVE Yields(s, TidyUp(s, lv), NoTask)
<1> DEFINE a == [s EXCEPT !.dead = {}]
           r == CheckStartTasks(a, lv)
           v == Largest(r.sq, r.sqa)
           w == [r EXCEPT !.sq = v]
           z == ReSched(w)
<1>1. a \in Members
  BY Write
<1>2. Yields(s, a, NoTask)
  BY DEF Yields, Aside
<1>3. TidyUp(s, lv) \in {a, r, z}
  BY DEF TidyUp, CheckStartNewJobs
<1> HIDE DEF a
<1>4. r \in Members /\ Yields(a, r, NoTask)
  BY <1>1, CheckStartTasksTyped, QuietYields
<1> HIDE DEF r
<1>5. v \in 0..2 /\ (r.sq > 0 => v > 0)
  <2>1. r.sq \in 0..2 /\ r.sqa \in 0..2
    BY <1>4, Read
  <2> QED
    BY <2>1 DEF Largest
<1> HIDE DEF v
<1>6. w \in Members
  BY <1>4, <1>5, Write
<1>7. Yields(r, w, NoTask)
  BY <1>4, <1>5, QuitYields
<1> HIDE DEF w
<1>8. Yields(w, z, NoTask)
  BY <1>6, QuietYields
<1> HIDE DEF z
<1>9. Yields(s, r, NoTask)
  BY <1>2, <1>4, YieldsTrans
<1>10. Yields(s, z, NoTask)
  BY <1>7, <1>8, <1>9, YieldsTrans
<1> QED
  BY <1>2, <1>3, <1>9, <1>10

LEMMA SignalsYield ==
  ASSUME NEW s \in Members, NEW lv
  PROVE  \A r \in {SigInt(s), SigTerm(s), SigTstp(s), SigCont(s, lv)} :
           Yields(s, r, NoTask)
<1> DEFINE die  == Die(s, "abort")
           null == Die(s, "nullif")
           q    == ScheduleQuit(s)
           one  == [q EXCEPT !.caught = 1]
           k    == ScheduleKill(s)
           two  == [k EXCEPT !.caught = 2]
           term == ScheduleKill(q)
           stop == [s EXCEPT !.stopped = TRUE]
           go   == [s EXCEPT !.stopped = FALSE]
           e    == CheckStartExchange(go)
           c    == CheckStartTasks(e, lv)
<1>1. Yields(s, die, NoTask) /\ Yields(s, null, NoTask) /\ Yields(s, s, NoTask)
  BY QuietYields
<1>2. Yields(s, stop, NoTask) /\ Yields(s, go, NoTask)
  BY DEF Yields, Aside
<1>3. \A p : Yields(s, p, NoTask) => Yields(s, ReSched(p), NoTask)
  BY Quiet, CalmYields, YieldsTrans
<1>4. q \in Members /\ Yields(s, q, NoTask) /\ Yields(s, k, NoTask)
  BY ScheduleQuitTyped, ScheduleQuitYields, ScheduleKillYields
<1>5. Yields(s, ReSched(one), NoTask) /\ Yields(s, ReSched(two), NoTask)
  <2> HIDE DEF q, k
  <2>1. Yields(q, one, NoTask) /\ Yields(k, two, NoTask)
    BY DEF Yields, Aside
  <2> HIDE DEF one, two
  <2> QED
    BY <1>3, <1>4, <2>1, YieldsTrans
<1>6. Yields(s, ReSched(term), NoTask)
  <2> HIDE DEF q
  <2>1. Yields(q, term, NoTask)
    BY <1>4, ScheduleKillYields
  <2> HIDE DEF term
  <2> QED
    BY <1>3, <1>4, <2>1, YieldsTrans
<1>7. Yields(s, ReSched(c), NoTask)
  <2>1. go \in Members
    BY Write
  <2> HIDE DEF go
  <2>2. e \in Members /\ Yields(go, e, NoTask)
    BY <2>1, CheckStartExchangeTyped, QuietYields
  <2> HIDE DEF e
  <2>3. Yields(e, c, NoTask)
    BY <2>2, QuietYields
  <2> HIDE DEF c
  <2> QED
    BY <1>2, <1>3, <2>2, <2>3, YieldsTrans
<1>8. SigInt(s) \in {die, null, s, ReSched(one), ReSched(two)}
  BY DEF SigInt, OnSignal
<1>9. SigTerm(s) \in {die, null, s, ReSched(term)}
  BY DEF SigTerm, OnSignal
<1>10. SigTstp(s) \in {null, s, stop}
  BY DEF SigTstp, OnSignal
<1>11. SigCont(s, lv) \in {null, s, ReSched(c)}
  BY DEF SigCont, OnSignal
<1> HIDE DEF die, null, one, two, term, stop, c
<1> QED
  BY <1>1, <1>2, <1>5, <1>6, <1>7, <1>8, <1>9, <1>10, <1>11

\* After its answer the source has no done task.
LEMMA AnswersYield ==
  ASSUME NEW s \in Members, s.srcDone = NoTask, NEW quit
  PROVE  /\ Yields(s, TSConnected(s), NoTask) /\ Yields(s, TSNoMoreTasks(s), NoTask)
         /\ Yields(s, TSGetFailed(s), NoTask) /\ Yields(s, TSTookDone(s), NoTask)
         /\ Yields(s, TSDisconnected(s, quit), NoTask)
<1>1. Yields(s, TSConnected(s), NoTask)
  <2> DEFINE a == [Answered(s) EXCEPT !.connected = TRUE]
             b == [a EXCEPT !.tsgod = "ANone"]
             c == [b EXCEPT !.nth = 0]
  <2>1. a \in Members
    BY AnsweredTyped, Write
  <2>2. b \in Members
    <3> HIDE DEF a
    <3> QED
      BY <2>1, Write DEF Actions
  <2>3. c \in Members
    <3> HIDE DEF b
    <3> QED
      BY <2>2, WriteNumber
  <2>4. Calm(s, c) /\ c.srcDone = NoTask
    BY DEF Answered, Calm, Still
  <2>5. TSConnected(s) = GetOrDoneTask(c)
    BY DEF TSConnected
  <2> HIDE DEF c
  <2>6. Yields(s, c, NoTask) /\ Yields(c, GetOrDoneTask(c), NoTask)
    BY <2>3, <2>4, CalmYields, GetOrDoneYields
  <2> QED
    BY <2>5, <2>6, YieldsTrans
<1>2. Yields(s, TSTookDone(s), NoTask)
  <2>1. Answered(s) \in Members /\ Calm(s, Answered(s))
    BY AnsweredTyped, Quiet
  <2>2. Answered(s).srcDone = NoTask
    BY <2>1 DEF Calm, Still
  <2>3. /\ Yields(s, Answered(s), NoTask)
        /\ Yields(Answered(s), GetOrDoneTask(Answered(s)), NoTask)
    BY <2>1, <2>2, CalmYields, GetOrDoneYields
  <2> QED
    BY <2>3, YieldsTrans DEF TSTookDone
<1>3. \A v : Yields(s, ReSched([Answered(s) EXCEPT !.sqa = v]), NoTask)
  <2> TAKE v
  <2>1. Calm(s, ReSched([Answered(s) EXCEPT !.sqa = v]))
    BY DEF Answered, ReSched, Calm, Still
  <2> QED
    BY <2>1, CalmYields
<1>4. Yields(s, TSNoMoreTasks(s), NoTask)
  BY <1>3 DEF TSNoMoreTasks
<1>5. Yields(s, TSGetFailed(s), NoTask)
  <2> DEFINE a == [Answered(s) EXCEPT !.tdaf = TRUE]
  <2>1. a \in Members
    BY AnsweredTyped, Write
  <2>2. Calm(s, a) /\ a.srcDone = NoTask
    BY DEF Answered, Calm, Still
  <2>3. TSGetFailed(s) = IF s.nth = 1 THEN ReSched([Answered(s) EXCEPT !.sqa = 2])
                         ELSE GetOrDoneTask(a)
    BY DEF TSGetFailed
  <2> HIDE DEF a
  <2>4. Yields(s, GetOrDoneTask(a), NoTask)
    BY <2>1, <2>2, CalmYields, GetOrDoneYields, YieldsTrans
  <2> QED
    BY <1>3, <2>3, <2>4
<1>6. Yields(s, TSDisconnected(s, quit), NoTask)
  <2> DEFINE a == [Answered(s) EXCEPT !.connected = FALSE]
             r == Check(a, s.toldTs <=> quit)
  <2>1. Calm(s, a)
    BY DEF Answered, Calm, Still
  <2>2. TSDisconnected(s, quit) \in {r, ReSched(r)}
    BY DEF TSDisconnected
  <2> HIDE DEF a
  <2>3. Calm(a, r)
    BY Quiet
  <2> HIDE DEF r
  <2>4. Calm(s, r) /\ Calm(s, ReSched(r))
    BY <2>1, <2>3, Quiet, CalmTrans
  <2> QED
    BY <2>2, <2>4, CalmYields
<1> QED
  BY <1>1, <1>2, <1>4, <1>5, <1>6

----------------------------------------------------------------------------
(* What a member function does to the task it is about *)

\* Nothing happens to the parts of t.
Kept(s, r, t) ==
  r.stage[t] = s.stage[t] /\ r.rtes[t] = s.rtes[t] /\ r.ftes[t] = s.ftes[t]

\* The part of t that was due fails.
Fails(s, r, t) ==
  /\ r.stage[t] = s.stage[t]
  /\ IF s.stage[t] = "ToBeRendered"
     THEN r.rtes[t].end = "Failed" /\ r.ftes[t] = s.ftes[t]
     ELSE r.ftes[t].end = "Failed" /\ r.rtes[t] = s.rtes[t]

\* The part of t that was due succeeds; a rendered task is filtered next, if
\* that may still be started.
Succeeds(s, r, t) ==
  /\ t \notin r.proc
  /\ IF s.stage[t] = "ToBeRendered"
     THEN /\ r.rtes[t].end = "Success" /\ r.ftes[t] = s.ftes[t]
          /\ r.stage[t] = IF t \in FilterFrames THEN "ToBeFiltered" ELSE "TaskDone"
     ELSE /\ r.ftes[t].end = "Success" /\ r.rtes[t] = s.rtes[t]
          /\ r.stage[t] = "TaskDone"
  /\ r.stage[t] # "TaskDone" /\ Aside(r, t) => r.dsmt

\* A job is started for t.
Begins(s, r, t) == t \in r.proc /\ Kept(s, r, t)

\* Where tasks yield, each keeps its parts.
LEMMA YieldsKeeps ==
  ASSUME NEW s, NEW r, NEW t \in Frames, Yields(s, r, NoTask)
  PROVE  Kept(s, r, t) /\ (t \in r.proc <=> t \in s.proc)
  BY FrameIsTask DEF Yields, Kept

\* Only t is written to.
LEMMA PartsYield ==
  ASSUME NEW s, NEW r, NEW t,
         r.dsmt = s.dsmt, r.sq = s.sq, r.proc \ {t} = s.proc \ {t},
         r.fresh = s.fresh, r.done = s.done, r.srcDone = s.srcDone,
         \A u \in Frames \ {t} : Kept(s, r, u)
  PROVE  Yields(s, r, t)
<1>1. \A u \in Frames \ {t} : u \in r.proc <=> u \in s.proc
  OBVIOUS
<1> QED
  BY <1>1 DEF Yields, Aside, Kept

\* t is appended to done.
LEMMA AppendYields ==
  ASSUME NEW s \in Members, NEW t \in Frames
  PROVE  LET r == [s EXCEPT !.done = Append(@, t)]
         IN  r \in Members /\ Yields(s, r, t) /\ Kept(s, r, t) /\ r.proc = s.proc
<1> DEFINE q == Append(s.done, t)
           r == [s EXCEPT !.done = q]
<1>0. s.done \in Seq(Frames)
  BY Read
<1>1. q \in Seq(Frames)
  BY <1>0
<1>2. r \in Members
  <2> HIDE DEF q
  <2> QED
    BY <1>1, Write
<1>3. r.done = q
  BY Written
<1>4. /\ r.fresh = s.fresh /\ r.proc = s.proc /\ r.srcDone = s.srcDone
      /\ r.stage = s.stage /\ r.rtes = s.rtes /\ r.ftes = s.ftes
      /\ r.sq = s.sq /\ r.dsmt = s.dsmt
  OBVIOUS
<1> HIDE DEF r
<1>5. ASSUME NEW u \in Frames \ {t} PROVE Aside(s, u) <=> Aside(r, u)
  <2>1. Count(q, u) = Count(s.done, u) + (IF u = t THEN 1 ELSE 0)
    BY <1>0, CountGrows
  <2>2. Count(s.done, u) \in Nat
    BY <1>0, CountType
  <2>3. Count(q, u) = Count(s.done, u)
    BY <2>1, <2>2
  <2> QED
    BY <1>3, <1>4, <2>3 DEF Aside
<1>6. Yields(s, r, t)
  BY <1>4, <1>5 DEF Yields
<1>7. Kept(s, r, t)
  BY <1>4 DEF Kept
<1> QED
  BY <1>2, <1>4, <1>6, <1>7 DEF r, q

\* A job succeeded: t is done, or back in todo.
LEMMA SuccessYields ==
  ASSUME NEW s \in Members, NEW t \in Frames, NEW lv, s.quitStep = 0
  PROVE  LET r == HandleSuccessfulJob(s, t, lv) IN
         /\ Yields(s, r, t) /\ Kept(s, r, t) /\ t \notin r.proc
         /\ s.stage[t] # "TaskDone" /\ ~Aside(s, t) /\ Count(s.fresh, t) = 0 =>
              (Aside(r, t) => r.dsmt)
<1> DEFINE out  == [s EXCEPT !.failed = 0, !.proc = @ \ {t}]
           done == [out EXCEPT !.done = Append(@, t)]
           todo == [out EXCEPT !.refilter = <<t>> \o @]
           next == CheckStartTasks(done, lv)
           last == CheckStartExchange(next)
           wait == IF s.dsmt THEN DontStartMoreTasks(todo) ELSE todo
           go   == CheckStartTasks(wait, lv)
<1>1. out \in Members /\ out.proc = s.proc \ {t}
  <2>1. s.proc \ {t} \in SUBSET Frames
    BY Read
  <2>2. [s EXCEPT !.failed = 0] \in Members
    BY Write
  <2>4. out \in Members
    BY <2>1, <2>2, Write
  <2>3. out.proc = s.proc \ {t}
    BY DEF Members
  <2> QED
    BY <2>3, <2>4
<1>2. /\ out.dsmt = s.dsmt /\ out.sq = s.sq /\ out.fresh = s.fresh
      /\ out.done = s.done /\ out.srcDone = s.srcDone
      /\ out.stage = s.stage /\ out.rtes = s.rtes /\ out.ftes = s.ftes
  OBVIOUS
<1>3. HandleSuccessfulJob(s, t, lv) = IF s.stage[t] = "TaskDone" THEN last ELSE go
  BY DEF HandleSuccessfulJob
<1> HIDE DEF out
<1>4. Yields(s, out, t) /\ Kept(s, out, t) /\ t \notin out.proc
  <2>1. \A u : Kept(s, out, u)
    BY <1>2 DEF Kept
  <2>2. Yields(s, out, t)
    BY <1>1, <1>2, <2>1, PartsYield
  <2> QED
    BY <1>1, <2>1, <2>2
<1>5. done \in Members /\ Yields(out, done, t) /\ Kept(out, done, t)
      /\ done.proc = out.proc
  BY <1>1, AppendYields
<1> HIDE DEF done
<1>6. next \in Members /\ Yields(done, next, NoTask)
  BY <1>5, CheckStartTasksTyped, QuietYields
<1> HIDE DEF next
<1>7. Yields(next, last, NoTask)
  BY <1>6, QuietYields
<1> HIDE DEF last
<1>8. Yields(s, last, t) /\ Kept(s, last, t) /\ t \notin last.proc
  <2>1. Yields(done, last, NoTask)
    BY <1>6, <1>7, YieldsTrans
  <2>2. Kept(done, last, t) /\ t \notin last.proc
    BY <1>4, <1>5, <2>1, YieldsKeeps
  <2>3. Kept(s, last, t)
    BY <1>4, <1>5, <2>2 DEF Kept
  <2>4. Yields(s, last, t)
    BY <1>4, <1>5, <2>1, YieldsTrans
  <2> QED
    BY <2>2, <2>3, <2>4
<1>9. todo \in Members
  <2>1. out.refilter \in Seq(Frames) /\ <<t>> \in Seq(Frames)
    BY <1>1, Read
  <2>2. <<t>> \o out.refilter \in Seq(Frames)
    BY <2>1
  <2> QED
    BY <1>1, <2>2, Write
<1>10. Yields(out, todo, NoTask)
  BY DEF Yields, Aside
<1>11. /\ todo.done = out.done /\ todo.srcDone = out.srcDone
       /\ todo.fresh = out.fresh /\ todo.dsmt = out.dsmt
  OBVIOUS
<1> HIDE DEF todo
<1>12. wait \in Members /\ Yields(todo, wait, NoTask)
  <2>1. DontStartMoreTasks(todo) \in Members
    BY <1>9, DontStartTyped
  <2>2. Yields(todo, DontStartMoreTasks(todo), NoTask)
    BY <1>9, DontStartYields
  <2>3. Yields(todo, todo, NoTask)
    BY <1>9, QuietYields
  <2> QED
    BY <1>9, <2>1, <2>2, <2>3
<1> HIDE DEF wait
<1>13. Yields(wait, go, NoTask)
  BY <1>12, QuietYields
<1> HIDE DEF go
<1>14. Yields(todo, go, NoTask)
  BY <1>12, <1>13, YieldsTrans
<1>15. Yields(s, go, t) /\ Kept(s, go, t) /\ t \notin go.proc
  <2>1. Yields(out, go, NoTask)
    BY <1>10, <1>14, YieldsTrans
  <2>2. Kept(out, go, t) /\ t \notin go.proc
    BY <1>4, <2>1, YieldsKeeps
  <2>3. Kept(s, go, t)
    BY <1>4, <2>2 DEF Kept
  <2>4. Yields(s, go, t)
    BY <1>4, <2>1, YieldsTrans
  <2> QED
    BY <2>2, <2>3, <2>4
<1>16. ASSUME ~Aside(s, t), Count(s.fresh, t) = 0, Aside(go, t) PROVE go.dsmt
  <2>1. ~Aside(todo, t)
    BY <1>2, <1>11, <1>16 DEF Aside
  <2>2. Count(todo.fresh, t) = 0
    BY <1>2, <1>11, <1>16
  <2>3. t \in Frames \ {NoTask}
    BY FrameIsTask
  <2> QED
    BY <1>14, <1>16, <2>1, <2>2, <2>3 DEF Yields
<1> QED
  BY <1>3, <1>8, <1>15, <1>16

\* A job failed, or could not be started.
LEMMA FailureYields ==
  ASSUME NEW s \in Members, NEW t \in Frames, NEW lv, s.quitStep = 0
  PROVE  LET r == HandleFailedTask(s, t, lv)
         IN  r \in Members /\ Yields(s, r, t) /\ Kept(s, r, t)
<1> DEFINE g == KillScheduledForStart(s)
           j == Dequeue(g, t)
           p == [s EXCEPT !.proc = @ \ {t}]
           k == IF t = s.sfs THEN j ELSE p
           d == [k EXCEPT !.done = Append(@, t)]
           c == CountFailure(d, t)
           n == CheckStartTasks(c, lv)
           r == CheckStartExchange(n)
           f == [r EXCEPT !.tdaf = @ \/ r.connected]
<1>1. p \in Members /\ Yields(s, p, t) /\ Kept(s, p, t)
  <2>1. s.proc \ {t} \in SUBSET Frames
    BY Read
  <2>2. p \in Members
    BY <2>1, Write
  <2>3. p.proc = s.proc \ {t}
    BY DEF Members
  <2>4. /\ p.dsmt = s.dsmt /\ p.sq = s.sq /\ p.fresh = s.fresh
        /\ p.done = s.done /\ p.srcDone = s.srcDone
        /\ p.stage = s.stage /\ p.rtes = s.rtes /\ p.ftes = s.ftes
    OBVIOUS
  <2> HIDE DEF p
  <2>5. \A u : Kept(s, p, u)
    BY <2>4 DEF Kept
  <2>6. Yields(s, p, t)
    BY <2>3, <2>4, <2>5, PartsYield
  <2> QED
    BY <2>2, <2>5, <2>6
<1>2. j \in Members /\ Yields(s, j, t) /\ Kept(s, j, t)
  <2>1. g \in Members /\ Still(s, g) /\ g.sq = s.sq /\ g.dsmt = s.dsmt
    BY KillScheduledIs
  <2> HIDE DEF g
  <2>2. /\ j \in Members /\ j.fresh = Without(g.fresh, t)
        /\ j.done = g.done /\ j.proc = g.proc /\ j.srcDone = g.srcDone
        /\ j.stage = g.stage /\ j.rtes = g.rtes /\ j.ftes = g.ftes
        /\ j.sq = g.sq /\ j.dsmt = g.dsmt
    BY <2>1, DequeueIs
  <2> HIDE DEF j
  <2>3. ASSUME NEW u \in Frames \ {t} PROVE Count(j.fresh, u) = Count(s.fresh, u)
    <3>1. g.fresh \in Seq(Frames)
      BY <2>1, Read
    <3>2. Count(Without(g.fresh, t), u) = Count(g.fresh, u)
      BY <3>1, CountWithout
    <3> QED
      BY <2>1, <2>2, <3>2 DEF Still
  <2>4. Yields(s, j, t)
    BY <2>1, <2>2, <2>3 DEF Yields, Aside, Still
  <2>5. Kept(s, j, t)
    BY <2>1, <2>2 DEF Kept, Still
  <2> QED
    BY <2>2, <2>4, <2>5
<1> HIDE DEF p, j
<1>3. k \in Members /\ Yields(s, k, t) /\ Kept(s, k, t)
  BY <1>1, <1>2
<1> HIDE DEF k
<1>4. d \in Members /\ Yields(k, d, t) /\ Kept(k, d, t)
  BY <1>3, AppendYields
<1> HIDE DEF d
<1>5. c \in Members /\ Yields(d, c, NoTask)
  BY <1>4, CountFailureTyped, CountFailureYields
<1> HIDE DEF c
<1>6. n \in Members /\ Yields(c, n, NoTask)
  BY <1>5, CheckStartTasksTyped, QuietYields
<1> HIDE DEF n
<1>7. Yields(n, r, NoTask)
  BY <1>6, QuietYields
<1>8. Yields(r, f, NoTask)
  BY DEF Yields, Aside
<1> HIDE DEF r, f
<1>9. Yields(d, f, NoTask)
  BY <1>5, <1>6, <1>7, <1>8, YieldsTrans
<1>10. Yields(s, f, t)
  BY <1>3, <1>4, <1>9, YieldsTrans
<1>11. Kept(s, f, t)
  <2>1. Kept(d, f, t)
    BY <1>9, YieldsKeeps
  <2> QED
    BY <1>3, <1>4, <2>1 DEF Kept
<1>12. HandleFailedTask(s, t, lv) = f
  BY DEF HandleFailedTask, f, r, n, c, d, k, j, g, p
<1>13. f \in Members
  BY <1>12, HandleFailedTaskTyped
<1> QED
  BY <1>10, <1>11, <1>12, <1>13

\* The end of a job.
LEMMA JobExitedYields ==
  ASSUME NEW s \in Members, NEW t \in Frames, Sound(s), t \in s.proc,
         s.quitStep = 0, NEW ok, NEW resume \in BOOLEAN, NEW lv
  PROVE  LET q == JobExited(s, t, ok, resume, lv)
         IN  Yields(s, q, t) /\ (Fails(s, q, t) \/ Succeeds(s, q, t))
<1> DEFINE g   == JobGone(s, t)
           tes == [Unset EXCEPT !.end = "Success"]
           bad == [end |-> "Failed", jk |-> s.killed[t], resume |-> resume]
           nxt == IF t \in FilterFrames THEN "ToBeFiltered" ELSE "TaskDone"
           a   == [g EXCEPT !.rtes[t] = tes, !.stage[t] = nxt]
           b   == [g EXCEPT !.ftes[t] = tes, !.stage[t] = "TaskDone"]
           r   == JobSucceeded(s, t)
           f   == StoreFailure(g, t, bad)
           y   == HandleSuccessfulJob(r, t, lv)
           n   == HandleFailedTask(f, t, lv)
<1>1. ~Aside(s, t) /\ Count(s.fresh, t) = 0
  <2>1. Places(s, t) <= 1
    BY DEF Sound, Fine
  <2>2. Count(s.done, t) = 0 /\ t # s.srcDone /\ Count(s.fresh, t) = 0
    BY <2>1, InProc
  <2> QED
    BY <2>2 DEF Aside
<1>2. /\ g \in Members
      /\ g.done = s.done /\ g.srcDone = s.srcDone /\ g.proc = s.proc
      /\ g.fresh = s.fresh /\ g.sq = s.sq /\ g.dsmt = s.dsmt
      /\ g.stage = s.stage /\ g.rtes = s.rtes /\ g.ftes = s.ftes
      /\ g.quitStep = 0
  BY JobGoneIs
<1>3. /\ s.rtes \in [Frames -> Tes] /\ s.ftes \in [Frames -> Tes]
      /\ s.stage \in [Frames -> Stages]
  BY Read
<1>4. tes.end = "Success"
  BY DEF Unset
<1>5. /\ r \in Members /\ r.quitStep = 0 /\ Yields(s, r, t)
      /\ ~Aside(r, t) /\ Count(r.fresh, t) = 0
      /\ IF s.stage[t] = "ToBeRendered"
         THEN /\ r.rtes[t].end = "Success" /\ r.ftes[t] = s.ftes[t]
              /\ r.stage[t] = nxt
         ELSE /\ r.ftes[t].end = "Success" /\ r.rtes[t] = s.rtes[t]
              /\ r.stage[t] = "TaskDone"
  <2>1. r = IF s.stage[t] = "ToBeRendered" THEN a ELSE b
    BY DEF JobSucceeded
  <2>0. r \in Members
    BY JobSucceededTyped
  <2> HIDE DEF g, tes, nxt, r
  <2>2. a.rtes = [g.rtes EXCEPT ![t] = tes] /\ a.stage = [g.stage EXCEPT ![t] = nxt]
    BY <1>2 DEF Members
  <2>3. b.ftes = [g.ftes EXCEPT ![t] = tes] /\ b.stage = [g.stage EXCEPT ![t] = "TaskDone"]
    BY <1>2 DEF Members
  <2>4. a.ftes = g.ftes /\ b.rtes = g.rtes
    OBVIOUS
  <2>5. /\ r.done = g.done /\ r.srcDone = g.srcDone /\ r.proc = g.proc
        /\ r.fresh = g.fresh /\ r.sq = g.sq /\ r.dsmt = g.dsmt
        /\ r.quitStep = g.quitStep
    BY <2>1
  <2> HIDE DEF a, b
  <2>6. \A u \in Frames \ {t} : Kept(s, r, u)
    BY <1>2, <1>3, <2>1, <2>2, <2>3, <2>4 DEF Kept
  <2>7. Yields(s, r, t)
    BY <1>2, <2>5, <2>6, PartsYield
  <2>8. ~Aside(r, t) /\ Count(r.fresh, t) = 0
    BY <1>1, <1>2, <2>5 DEF Aside
  <2>9. CASE s.stage[t] = "ToBeRendered"
    <3>1. r.rtes[t] = tes /\ r.ftes[t] = s.ftes[t] /\ r.stage[t] = nxt
      BY <1>2, <1>3, <2>1, <2>2, <2>4, <2>9
    <3> QED
      BY <1>2, <1>4, <2>0, <2>5, <2>7, <2>8, <2>9, <3>1
  <2>10. CASE s.stage[t] # "ToBeRendered"
    <3>1. r.ftes[t] = tes /\ r.rtes[t] = s.rtes[t] /\ r.stage[t] = "TaskDone"
      BY <1>2, <1>3, <2>1, <2>3, <2>4, <2>10
    <3> QED
      BY <1>2, <1>4, <2>0, <2>5, <2>7, <2>8, <2>10, <3>1
  <2> QED
    BY <2>9, <2>10
<1> HIDE DEF tes, r, y
<1>6. Yields(s, y, t) /\ Succeeds(s, y, t)
  <2>1. /\ Yields(r, y, t) /\ Kept(r, y, t) /\ t \notin y.proc
        /\ r.stage[t] # "TaskDone" => (Aside(y, t) => y.dsmt)
    BY <1>5, SuccessYields DEF y
  <2>2. Yields(s, y, t)
    BY <1>5, <2>1, YieldsTrans
  <2>3. Succeeds(s, y, t)
    BY <1>5, <2>1 DEF Succeeds, Kept
  <2> QED
    BY <2>2, <2>3
<1>7. bad \in Tes /\ bad.end = "Failed"
  BY Read DEF Tes
<1>8. f \in Members /\ f.quitStep = 0 /\ Yields(s, f, t) /\ Fails(s, f, t)
  <2> HIDE DEF g, bad
  <2>1. /\ f \in Members
        /\ f.fresh = g.fresh /\ f.done = g.done
        /\ f.proc = g.proc /\ f.srcDone = g.srcDone
        /\ f.stage = g.stage /\ f.sq = g.sq /\ f.dsmt = g.dsmt
        /\ f.quitStep = g.quitStep
        /\ \A u \in Frames \ {t} :
             f.rtes[u] = g.rtes[u] /\ f.ftes[u] = g.ftes[u]
        /\ IF g.stage[t] = "ToBeRendered" THEN f.rtes[t] = bad ELSE f.ftes[t] = bad
    BY <1>2, <1>7, StoreFailureIs
  <2>2. /\ g.stage[t] = "ToBeRendered" => f.ftes = g.ftes
        /\ g.stage[t] # "ToBeRendered" => f.rtes = g.rtes
    BY DEF StoreFailure
  <2> HIDE DEF f
  <2>3. \A u \in Frames \ {t} : Kept(s, f, u)
    BY <1>2, <2>1 DEF Kept
  <2>4. Yields(s, f, t)
    BY <1>2, <2>1, <2>3, PartsYield
  <2>5. Fails(s, f, t)
    BY <1>2, <1>7, <2>1, <2>2 DEF Fails
  <2> QED
    BY <1>2, <2>1, <2>4, <2>5
<1> HIDE DEF f, n
<1>9. Yields(s, n, t) /\ Fails(s, n, t)
  <2>1. Yields(f, n, t) /\ Kept(f, n, t)
    BY <1>8, FailureYields DEF n
  <2>2. Yields(s, n, t)
    BY <1>8, <2>1, YieldsTrans
  <2>3. Fails(s, n, t)
    BY <1>8, <2>1 DEF Fails, Kept
  <2> QED
    BY <2>2, <2>3
<1>10. JobExited(s, t, ok, resume, lv) =
         IF ok /\ s.killed[t] = "NotKilled" THEN y ELSE n
  BY DEF JobExited, JobFailed, y, n, r, f
<1> QED
  BY <1>6, <1>9, <1>10

\* The scheduled task starts, or its job cannot be started.
LEMMA LaunchYields ==
  ASSUME NEW s \in Members, Sound(s), s.quitStep = 0, NEW forked, NEW lv
  PROVE  LET r == LaunchScheduled(s, forked, lv) IN
         \/ Yields(s, r, NoTask)
         \/ /\ s.sfs # NoTask /\ Yields(s, r, s.sfs)
            /\ Fails(s, r, s.sfs) \/ Begins(s, r, s.sfs)
<1> DEFINE t   == s.sfs
           in  == Launched(s)
           tes == [Unset EXCEPT !.end = "Failed"]
           p   == StoreFailure(s, t, tes)
           f   == ForkFailed(s, t)
           h   == HandleFailedTask(f, t, lv)
           no  == KillScheduledForStart(h)
           x   == CheckStartTasks(in, lv)
           y   == CheckStartTasks(no, lv)
<1>1. CASE s.sfs # NoTask /\ s.load
  <2>1. t \in Frames
    BY <1>1, Read
  <2>2. in \in Members /\ Yields(s, in, t) /\ Begins(s, in, t)
    <3>1. /\ in \in Members /\ in.proc = s.proc \cup {t}
          /\ in.fresh = Without(s.fresh, t)
          /\ in.done = s.done /\ in.srcDone = s.srcDone
          /\ in.stage = s.stage /\ in.rtes = s.rtes /\ in.ftes = s.ftes
          /\ in.sq = s.sq /\ in.dsmt = s.dsmt
      BY <1>1, LaunchedIs
    <3> HIDE DEF in
    <3>2. s.fresh \in Seq(Frames)
      BY Read
    <3>3. \A u \in Frames \ {t} : Count(in.fresh, u) = Count(s.fresh, u)
      BY <3>1, <3>2, CountWithout
    <3>4. \A u \in Frames \ {t} : u \in in.proc <=> u \in s.proc
      BY <3>1
    <3>5. Yields(s, in, t)
      BY <3>1, <3>3, <3>4 DEF Yields, Aside
    <3>6. Begins(s, in, t)
      BY <3>1 DEF Begins, Kept
    <3> QED
      BY <3>1, <3>5, <3>6
  <2>3. tes \in Tes /\ tes.end = "Failed"
    BY DEF Unset, Tes, Reasons
  <2>4. f = [p EXCEPT !.dead = @ \cup {"unforked"}]
    BY DEF ForkFailed
  <2>5. f \in Members
    BY <2>1, ForkFailedTyped
  <2> HIDE DEF tes
  <2>6. /\ p.fresh = s.fresh /\ p.done = s.done /\ p.proc = s.proc
        /\ p.srcDone = s.srcDone /\ p.quitStep = s.quitStep
        /\ p.stage = s.stage /\ p.sq = s.sq /\ p.dsmt = s.dsmt
        /\ \A u \in Frames \ {t} :
             p.rtes[u] = s.rtes[u] /\ p.ftes[u] = s.ftes[u]
        /\ IF s.stage[t] = "ToBeRendered" THEN p.rtes[t] = tes ELSE p.ftes[t] = tes
    BY <2>1, <2>3, StoreFailureIs
  <2>7. /\ s.stage[t] = "ToBeRendered" => p.ftes = s.ftes
        /\ s.stage[t] # "ToBeRendered" => p.rtes = s.rtes
    BY DEF StoreFailure
  <2> HIDE DEF p
  <2>8. Yields(s, p, t) /\ Fails(s, p, t)
    <3>1. \A u \in Frames \ {t} : Kept(s, p, u)
      BY <2>6 DEF Kept
    <3>2. Yields(s, p, t)
      BY <2>6, <3>1, PartsYield
    <3>3. Fails(s, p, t)
      BY <2>3, <2>6, <2>7 DEF Fails
    <3> QED
      BY <3>2, <3>3
  <2>9. Yields(p, f, NoTask) /\ Kept(p, f, t) /\ f.quitStep = p.quitStep
    BY <2>4 DEF Yields, Aside, Kept
  <2> HIDE DEF f
  <2>10. h \in Members /\ Yields(f, h, t) /\ Kept(f, h, t)
    BY <2>1, <2>5, <2>6, <2>9, FailureYields
  <2> HIDE DEF h
  <2>11. no \in Members /\ Yields(h, no, NoTask)
    BY <2>10, KillScheduledTyped, QuietYields
  <2> HIDE DEF in, no
  <2>12. Yields(no, y, NoTask) /\ Yields(in, x, NoTask)
    BY <2>2, <2>11, QuietYields
  <2>13. LaunchScheduled(s, forked, lv) = IF forked THEN x ELSE y
    BY <1>1 DEF LaunchScheduled, Launched, in, no, h, f
  <2> HIDE DEF x, y
  <2>14. Yields(h, y, NoTask)
    BY <2>11, <2>12, YieldsTrans
  <2>15. Yields(s, y, t)
    BY <2>8, <2>9, <2>10, <2>14, YieldsTrans
  <2>16. Fails(s, y, t)
    <3>1. Kept(h, y, t)
      BY <2>1, <2>14, YieldsKeeps
    <3> QED
      BY <2>8, <2>9, <2>10, <3>1 DEF Fails, Kept
  <2>17. Yields(s, x, t)
    BY <2>2, <2>12, YieldsTrans
  <2>18. Begins(s, x, t)
    <3>1. Kept(in, x, t) /\ (t \in x.proc <=> t \in in.proc)
      BY <2>1, <2>12, YieldsKeeps
    <3> QED
      BY <2>2, <3>1 DEF Begins, Kept
  <2> QED
    BY <1>1, <2>13, <2>15, <2>16, <2>17, <2>18
<1>2. CASE ~(s.sfs # NoTask /\ s.load)
  <2>1. LaunchScheduled(s, forked, lv) = s
    BY <1>2 DEF LaunchScheduled
  <2> QED
    BY <2>1, QuietYields
<1> QED
  BY <1>1, <1>2

LEMMA ScheduleYields ==
  ASSUME NEW s \in Members, Exchange(s), Sound(s), s.quitStep = 0,
         NEW forked, NEW lv
  PROVE  LET r == Schedule(s, forked, lv) IN
         \/ Yields(s, r, NoTask)
         \/ /\ s.sfs # NoTask /\ Yields(s, r, s.sfs)
            /\ Fails(s, r, s.sfs) \/ Begins(s, r, s.sfs)
<1> DEFINE a == [s EXCEPT !.tid0 = FALSE]
           k == KillJobs(a)
           l == AtQuit(s, forked, lv)
           q == GoOnQuitting(l)
           t == s.sfs
<1>1. CASE ~s.started
  <2>1. Schedule(s, forked, lv) = StartProcessing(s)
    BY <1>1 DEF Schedule
  <2> QED
    BY <2>1, Quiet, CalmYields
<1>2. CASE s.started
  <2>1. Up(s)
    BY <1>2 DEF Up
  <2>2. /\ k \in Members /\ Up(k) /\ l \in Members /\ Exchange(l)
        /\ Schedule(s, forked, lv) = q
    BY <2>1, ScheduleGoesOn
  <2>3. l = LaunchScheduled(k, forked, lv)
    BY DEF AtQuit
  <2>4. Calm(s, a) /\ Calm(a, k)
    <3>1. Calm(s, a)
      BY DEF Calm, Still
    <3> HIDE DEF a
    <3> QED
      BY <3>1, Quiet
  <2> HIDE DEF a, k, l
  <2>5. Calm(s, k)
    BY <2>4, CalmTrans
  <2>6. /\ Yields(s, k, NoTask) /\ k.sfs = s.sfs /\ Sound(k) /\ k.quitStep = 0
        /\ \A u : Kept(s, k, u)
    <3>1. Moves(s, k)
      BY <2>5, CalmMoves
    <3> QED
      BY <2>2, <2>5, <3>1, CalmYields DEF Moves, Calm, Still, Up, Kept
  <2>7. Yields(l, q, NoTask)
    BY <2>2, GoOnYields
  <2> HIDE DEF q
  <2>8. \/ Yields(k, l, NoTask)
        \/ t # NoTask /\ Yields(k, l, t) /\ (Fails(k, l, t) \/ Begins(k, l, t))
    BY <2>2, <2>3, <2>6, LaunchYields
  <2>9. CASE Yields(k, l, NoTask)
    BY <2>2, <2>6, <2>7, <2>9, YieldsTrans
  <2>10. ASSUME t # NoTask, Yields(k, l, t), Fails(k, l, t) \/ Begins(k, l, t)
         PROVE  Yields(s, q, t) /\ (Fails(s, q, t) \/ Begins(s, q, t))
    <3>1. t \in Frames
      BY <2>10, Read
    <3>2. Yields(s, k, t)
      BY <2>6, YieldsLess
    <3>3. Yields(s, l, t)
      BY <3>2, <2>10, YieldsTrans
    <3>4. Yields(s, q, t)
      BY <3>3, <2>7, YieldsTrans
    <3>5. Kept(l, q, t) /\ (t \in q.proc <=> t \in l.proc)
      BY <2>7, <3>1, YieldsKeeps
    <3>6. Fails(k, l, t) => Fails(s, q, t)
      BY <2>6, <3>5 DEF Fails, Kept
    <3>7. Begins(k, l, t) => Begins(s, q, t)
      BY <2>6, <3>5 DEF Begins, Kept
    <3> QED
      BY <2>10, <3>4, <3>6, <3>7
  <2> QED
    BY <2>2, <2>8, <2>9, <2>10
<1> QED
  BY <1>1, <1>2

\* A task comes from the source; with less to be started, it may be given up
\* at once.
LEMMA GotTaskYields ==
  ASSUME NEW s \in Members, Sound(s), s.srcDone = NoTask, s.next <= NFrames,
         NEW lv
  PROVE  LET t == s.next
             r == TSGotTask(SrcHandOut(s), t, lv)
         IN  /\ Yields(s, r, t) /\ t \notin r.proc
             /\ r.rtes[t] = s.rtes[t] /\ r.ftes[t] = s.ftes[t]
             /\ r.stage[t] = IF t \in RenderFrames THEN "ToBeRendered"
                                                  ELSE "ToBeFiltered"
             /\ Aside(r, t) => r.dsmt \/ r.sq > 0
<1> DEFINE t  == s.next
           e  == Answered(SrcHandOut(s))
           p  == Append(e.fresh, t)
           a  == [e EXCEPT !.fresh = p]
           b  == NewTask_SetUpState(a, t)
           st == IF t \in RenderFrames THEN "ToBeRendered" ELSE "ToBeFiltered"
           x  == CheckStartTasks(b, lv)
           d  == DontStartMoreTasks(b)
           y  == CheckStartExchange(d)
           z  == TakeFreshTask(e, t, lv)
           g  == GetOrDoneTask(z)
<1>1. t \in Frames
  BY Read, ConfigAssumption DEF Frames
<1>2. e \in Members
  BY AnswersTyped, AnsweredTyped
<1>3. z \in {x, y}
  BY DEF TakeFreshTask
<1>4. z \in Members
  BY <1>1, <1>2, TakeFreshTaskTyped
<1>5. /\ e.done = s.done /\ e.srcDone = s.srcDone /\ e.stage = s.stage
      /\ e.rtes = s.rtes /\ e.ftes = s.ftes /\ e.sq = s.sq
      /\ e.dsmt = s.dsmt /\ e.proc = s.proc /\ e.fresh = s.fresh
  BY DEF Answered, SrcHandOut
<1>6. TSGotTask(SrcHandOut(s), t, lv) = g
  BY DEF TSGotTask
<1>7. ~Aside(s, t) /\ t \notin s.proc
  <2>1. Places(s, t) = 0
    <3>1. Fine(s, t) /\ t >= s.next
      BY <1>1, Read DEF Sound
    <3> QED
      BY <3>1 DEF Fine
  <2>2. Count(s.refilter, t) \in Nat /\ Count(s.fresh, t) \in Nat /\ Count(s.done, t) \in Nat
    BY PlacesType
  <2> QED
    BY <2>1, <2>2 DEF Places, Aside
<1> HIDE DEF e, t
<1>8. e.fresh \in Seq(Frames) /\ p \in Seq(Frames)
  <2>1. e.fresh \in Seq(Frames)
    BY <1>2, Read
  <2> QED
    BY <1>1, <2>1
<1>9. a \in Members /\ a.fresh = p
  <2> HIDE DEF p
  <2> QED
    BY <1>2, <1>8, Write, Written
<1>10. /\ a.done = e.done /\ a.srcDone = e.srcDone /\ a.stage = e.stage
       /\ a.rtes = e.rtes /\ a.ftes = e.ftes /\ a.sq = e.sq
       /\ a.dsmt = e.dsmt /\ a.proc = e.proc
  OBVIOUS
<1> HIDE DEF a
<1>11. Yields(s, a, t)
  <2>1. ASSUME NEW u \in Frames \ {t} PROVE Count(a.fresh, u) = Count(s.fresh, u)
    <3>1. Count(p, u) = Count(e.fresh, u) + (IF u = t THEN 1 ELSE 0)
      BY <1>1, <1>8, CountGrows
    <3>2. Count(e.fresh, u) \in Nat
      BY <1>8, CountType
    <3> QED
      BY <1>5, <1>9, <3>1, <3>2
  <2> QED
    BY <1>5, <1>10, <2>1 DEF Yields, Aside
<1>12. b \in Members /\ b.stage = [a.stage EXCEPT ![t] = st]
  <2>1. b \in Members
    BY <1>1, <1>9, SetUpStateTyped
  <2>2. b.stage = [a.stage EXCEPT ![t] = st]
    BY <1>9 DEF NewTask_SetUpState, Members
  <2> QED
    BY <2>1, <2>2
<1>13. /\ b.done = a.done /\ b.srcDone = a.srcDone /\ b.fresh = a.fresh
       /\ b.rtes = a.rtes /\ b.ftes = a.ftes /\ b.sq = a.sq
       /\ b.dsmt = a.dsmt /\ b.proc = a.proc
  BY DEF NewTask_SetUpState
<1> HIDE DEF b
<1>14. Yields(a, b, t)
  <2>1. a.stage \in [Frames -> Stages]
    BY <1>9, Read
  <2>2. \A u \in Frames \ {t} : Kept(a, b, u)
    BY <1>12, <1>13, <2>1 DEF Kept
  <2> QED
    BY <1>13, <2>2, PartsYield
<1>15. Yields(b, x, NoTask) /\ x.srcDone = b.srcDone
  <2>1. Level(b, x)
    BY <1>12, LevelIs
  <2> QED
    BY <1>12, <2>1, QuietYields DEF Level
<1>16. Yields(b, y, NoTask) /\ y.srcDone = b.srcDone
  <2>1. d \in Members /\ Yields(b, d, NoTask) /\ d.srcDone = b.srcDone
    BY <1>12, DontStartIs, DontStartYields
  <2> HIDE DEF d
  <2>2. Yields(d, y, NoTask) /\ Calm(d, y)
    BY <2>1, QuietYields, Quiet
  <2> QED
    BY <2>1, <2>2, YieldsTrans DEF Calm, Still
<1> HIDE DEF x, y, z
<1>17. Yields(b, z, NoTask) /\ z.srcDone = NoTask
  BY <1>3, <1>5, <1>10, <1>13, <1>15, <1>16
<1>18. Yields(z, g, NoTask)
  BY <1>4, <1>17, GetOrDoneYields
<1> HIDE DEF g
<1>19. Yields(b, g, NoTask)
  BY <1>17, <1>18, YieldsTrans
<1>20. Yields(s, g, t)
  BY <1>11, <1>14, <1>19, YieldsTrans
<1>21. t \notin g.proc /\ g.rtes[t] = s.rtes[t] /\ g.ftes[t] = s.ftes[t]
  <2>1. Kept(b, g, t) /\ (t \in g.proc <=> t \in b.proc)
    BY <1>1, <1>19, YieldsKeeps
  <2> QED
    BY <1>5, <1>7, <1>10, <1>13, <2>1 DEF Kept
<1>22. ASSUME Aside(g, t) PROVE g.dsmt \/ g.sq > 0
  <2>1. ~Aside(b, t)
    BY <1>5, <1>7, <1>10, <1>13 DEF Aside
  <2>2. t \in Frames \ {NoTask}
    BY <1>1, FrameIsTask
  <2> QED
    BY <1>19, <1>22, <2>1, <2>2 DEF Yields
<1>23. g.stage[t] = st
  <2>1. a.stage \in [Frames -> Stages]
    BY <1>9, Read
  <2>2. b.stage[t] = st
    BY <1>1, <1>12, <2>1
  <2>3. Kept(b, g, t)
    BY <1>1, <1>19, YieldsKeeps
  <2> QED
    BY <2>2, <2>3 DEF Kept
<1> QED
  BY <1>6, <1>20, <1>21, <1>22, <1>23 DEF t

\* The source takes a task back: nothing happens to the others.
LEMMA TookDoneYields ==
  ASSUME NEW s \in Members, s.srcDone # NoTask
  PROVE  Yields(s, TSTookDone(SrcTakeBack(s)), s.srcDone)
<1> DEFINE t == s.srcDone
           h == SrcTakeBack(s)
<1>1. t \in Frames
  BY Read
<1>2. h \in Members
  BY TakeBackTyped
<1>3. /\ h.sq = s.sq /\ h.dsmt = s.dsmt /\ h.proc = s.proc
      /\ h.fresh = s.fresh /\ h.done = s.done
  BY DEF SrcTakeBack
<1>4. /\ h.srcDone = NoTask /\ h.stage = [s.stage EXCEPT ![t] = "TaskDone"]
      /\ h.rtes = [s.rtes EXCEPT ![t] = Unset]
      /\ h.ftes = [s.ftes EXCEPT ![t] = Unset]
  BY DEF SrcTakeBack, Members
<1>5. /\ s.stage \in [Frames -> Stages] /\ s.rtes \in [Frames -> Tes]
      /\ s.ftes \in [Frames -> Tes]
  BY Read
<1> HIDE DEF h
<1>6. Yields(s, h, t)
  <2>1. \A u \in Frames \ {t} : Kept(s, h, u)
    BY <1>4, <1>5 DEF Kept
  <2>2. \A u \in Frames \ {t} : Aside(s, u) <=> Aside(h, u)
    BY <1>3, <1>4, FrameIsTask DEF Aside
  <2> QED
    BY <1>3, <2>1, <2>2 DEF Yields, Kept
<1>7. Yields(h, TSTookDone(h), NoTask)
  BY <1>2, <1>4, AnswersYield
<1> QED
  BY <1>6, <1>7, YieldsTrans DEF h

----------------------------------------------------------------------------
(* Where the tasks are *)

\* A task that is under way is in todo unless it is seen elsewhere.
PlaceIn(s, told, t) ==
  IF told[t] # "no" THEN "back"
  ELSE IF t >= s.next THEN "source"
  ELSE IF t \in s.proc THEN "proc"
  ELSE IF Aside(s, t) THEN "done"
  ELSE "todo"

LEMMA InOnePlace ==
  ASSUME NEW s \in Members, NEW t \in Frames, Places(s, t) = 1
  PROVE  LET todo == \E i \in DOMAIN Todo(s) : Todo(s)[i] = t IN
         /\ todo <=> Count(s.refilter, t) > 0 \/ Count(s.fresh, t) > 0
         /\ t \notin s.proc => (Aside(s, t) <=> ~todo)
         /\ t \in s.proc => ~Aside(s, t) /\ ~todo
<1>1. s.refilter \in Seq(Frames) /\ s.fresh \in Seq(Frames) /\ Todo(s) \in Seq(Frames)
  <2>1. s.refilter \in Seq(Frames) /\ s.fresh \in Seq(Frames)
    BY Read
  <2> QED
    BY <2>1 DEF Todo
<1> DEFINE a == Count(s.refilter, t)
           b == Count(s.fresh, t)
           c == Count(s.done, t)
           todo == \E i \in DOMAIN Todo(s) : Todo(s)[i] = t
<1>2. a \in Nat /\ b \in Nat /\ c \in Nat
  BY PlacesType
<1>3. Count(Todo(s), t) = a + b
  BY <1>1, CountConcat DEF Todo
<1>4. todo <=> Count(Todo(s), t) > 0
  BY <1>1, CountType
<1>5. a + b + c + (IF t \in s.proc THEN 1 ELSE 0) + (IF t = s.srcDone THEN 1 ELSE 0) = 1
  BY DEF Places
<1>6. Aside(s, t) <=> c > 0 \/ t = s.srcDone
  BY DEF Aside
<1> HIDE DEF a, b, c, todo
<1>7. todo <=> a > 0 \/ b > 0
  BY <1>2, <1>3, <1>4
<1>8. t \notin s.proc => (c > 0 \/ t = s.srcDone <=> ~(a > 0 \/ b > 0))
  BY <1>2, <1>5
<1>9. t \in s.proc => ~(c > 0 \/ t = s.srcDone) /\ ~(a > 0 \/ b > 0)
  BY <1>2, <1>5
<1> QED
  BY <1>6, <1>7, <1>8, <1>9 DEF a, b, c, todo

LEMMA PlaceHere ==
  ASSUME TypeOK, InHand, NEW t \in Frames
  PROVE  PlaceOf(t) = PlaceIn(tm, reported, t)
<1>1. tm \in Members /\ Places(tm, t) = IF t < tm.next /\ reported[t] = "no" THEN 1 ELSE 0
  BY DEF TypeOK, InHand
<1>2. t \in Int /\ tm.next \in Int
  BY <1>1, Read, ConfigAssumption DEF Frames
<1>3. reported[t] = "no" /\ ~(t >= tm.next) => Places(tm, t) = 1
  BY <1>1, <1>2
<1> QED
  BY <1>1, <1>3, InOnePlace DEF PlaceOf, PlaceIn

LEMMA PlaceThere ==
  ASSUME TypeOK', InHand', NEW t \in Frames
  PROVE  PlaceOf(t)' = PlaceIn(tm', reported', t)
<1>1. tm' \in Members /\ Places(tm', t) = IF t < tm'.next /\ reported'[t] = "no" THEN 1 ELSE 0
  BY DEF TypeOK, InHand
<1>2. t \in Int /\ tm'.next \in Int
  BY <1>1, Read, ConfigAssumption DEF Frames
<1>3. reported'[t] = "no" /\ ~(t >= tm'.next) => Places(tm', t) = 1
  BY <1>1, <1>2
<1> QED
  BY <1>1, <1>3, InOnePlace DEF PlaceOf, PlaceIn

\* Before and after a step.
Ends == TypeOK /\ InHand /\ OnCourse /\ (TypeOK /\ InHand)'

\* A task that is under way.
LEMMA UnderWay ==
  ASSUME TypeOK, InHand, NEW t \in Frames, Places(tm, t) # 0
  PROVE  /\ t < tm.next /\ ~(t >= tm.next) /\ reported[t] = "no"
         /\ Places(tm, t) = 1 /\ Fine(tm, t)
         /\ RenderOf(t) = Outcome(tm.rtes[t]) /\ FilterOf(t) = Outcome(tm.ftes[t])
<1>1. Places(tm, t) = IF t < tm.next /\ reported[t] = "no" THEN 1 ELSE 0
  BY DEF InHand
<1>2. t \in Int /\ tm.next \in Int
  BY Read, ConfigAssumption DEF TypeOK, Frames
<1>3. t < tm.next /\ reported[t] = "no" /\ Places(tm, t) = 1
  BY <1>1
<1>4. Fine(tm, t)
  BY DEF InHand, Sound
<1>5. RenderOf(t) = Outcome(tm.rtes[t]) /\ FilterOf(t) = Outcome(tm.ftes[t])
  BY <1>3 DEF RenderOf, FilterOf
<1> QED
  BY <1>2, <1>3, <1>4, <1>5

\* And still is.
LEMMA StillUnderWay ==
  ASSUME Ends, NEW t \in Frames, Places(tm, t) # 0, reported' = reported,
         tm'.next = tm.next
  PROVE  /\ ~(t >= tm'.next) /\ reported'[t] = "no"
         /\ Places(tm', t) = 1 /\ Fine(tm', t) /\ tm' \in Members
         /\ RenderOf(t)' = Outcome(tm'.rtes[t]) /\ FilterOf(t)' = Outcome(tm'.ftes[t])
         /\ PlaceOf(t)' = IF t \in tm'.proc THEN "proc"
                          ELSE IF Aside(tm', t) THEN "done" ELSE "todo"
<1>1. t < tm.next /\ ~(t >= tm.next) /\ reported[t] = "no"
  BY UnderWay DEF Ends
<1>2. Places(tm', t) = 1 /\ Fine(tm', t) /\ tm' \in Members
  BY <1>1 DEF Ends, InHand, Sound, TypeOK
<1>3. RenderOf(t)' = Outcome(tm'.rtes[t]) /\ FilterOf(t)' = Outcome(tm'.ftes[t])
  BY <1>1 DEF RenderOf, FilterOf
<1>4. PlaceOf(t)' = PlaceIn(tm', reported', t)
  BY PlaceThere DEF Ends
<1>5. reported'[t] = "no" /\ ~(t >= tm'.next)
  BY <1>1
<1> QED
  BY <1>2, <1>3, <1>4, <1>5 DEF PlaceIn

----------------------------------------------------------------------------
(* Moves of the tasks *)

\* A task of which nothing is heard stays, or is given up.
LEMMA OthersMove ==
  ASSUME Ends, NEW x, NEW t \in Frames, t # x, Yields(tm, tm', x),
         reported'[t] = reported[t], t >= tm.next <=> t >= tm'.next
  PROVE  Flow!Stays(t) \/ Flow!IsGivenUp(t)
<1>1. /\ tm'.stage[t] = tm.stage[t]
      /\ tm'.rtes[t] = tm.rtes[t] /\ tm'.ftes[t] = tm.ftes[t]
      /\ t \in tm'.proc <=> t \in tm.proc
      /\ Aside(tm, t) => Aside(tm', t)
      /\ Aside(tm', t) =>
           Aside(tm, t) \/ tm'.dsmt \/ (tm'.sq > 0 /\ Count(tm.fresh, t) > 0)
  BY DEF Yields
<1>2. RenderOf(t)' = RenderOf(t) /\ FilterOf(t)' = FilterOf(t)
  BY <1>1 DEF RenderOf, FilterOf
<1>3. /\ PlaceOf(t) = PlaceIn(tm, reported, t)
      /\ PlaceOf(t)' = PlaceIn(tm', reported', t)
  BY PlaceHere, PlaceThere DEF Ends
<1>4. CASE PlaceOf(t)' = PlaceOf(t)
  BY <1>2, <1>4 DEF Flow!Stays, Flow!Move
<1>5. CASE PlaceOf(t)' # PlaceOf(t)
  <2>1. /\ PlaceOf(t) = "todo" /\ PlaceOf(t)' = "done" /\ reported[t] = "no"
        /\ tm'.dsmt \/ (tm'.sq > 0 /\ Count(tm.fresh, t) > 0)
    BY <1>1, <1>3, <1>5 DEF PlaceIn
  <2>2. Count(tm.fresh, t) > 0 => RenderOf(t) = "unset" /\ FilterOf(t) = "unset"
    <3> SUFFICES ASSUME Count(tm.fresh, t) > 0
                 PROVE  RenderOf(t) = "unset" /\ FilterOf(t) = "unset"
      OBVIOUS
    <3>1. Untouched(tm, t)
      BY DEF Ends, InHand, Sound, Fine
    <3>2. Outcome(Unset) = "unset"
      BY DEF Outcome, Unset
    <3> QED
      BY <2>1, <3>1, <3>2 DEF Untouched, RenderOf, FilterOf
  <2> QED
    BY <1>2, <2>1, <2>2 DEF Flow!IsGivenUp, Flow!Move, Flow!Untouched
<1> QED
  BY <1>4, <1>5

\* A task that waits, or is worked on: what is due, and what is behind it.
LEMMA PartDue ==
  ASSUME TypeOK, InHand, NEW t \in Frames, Places(tm, t) # 0,
         Rendered(tm, t) \/ Untouched(tm, t)
  PROVE  /\ Flow!NextIsRender(t) <=> tm.stage[t] = "ToBeRendered"
         /\ Rendered(tm, t) => Flow!Rendered(t)
<1>1. RenderOf(t) = Outcome(tm.rtes[t]) /\ FilterOf(t) = Outcome(tm.ftes[t])
  BY UnderWay
<1>2. Outcome(Unset) = "unset"
  BY DEF Outcome, Unset
<1>3. CASE Rendered(tm, t)
  <2>1. RenderOf(t) = "ok" /\ FilterOf(t) = "unset"
    BY <1>1, <1>2, <1>3 DEF Rendered, Outcome
  <2> QED
    BY <1>3, <2>1 DEF Rendered, Flow!Rendered, Flow!NextIsRender
<1>4. CASE Untouched(tm, t) /\ ~Rendered(tm, t)
  <2>1. RenderOf(t) = "unset"
    BY <1>1, <1>2, <1>4 DEF Untouched
  <2> QED
    BY <1>4, <2>1 DEF Untouched, Flow!NextIsRender
<1> QED
  BY <1>3, <1>4

\* The task that is scheduled for start.
LEMMA WaitsForStart ==
  ASSUME TypeOK, InHand, NEW t \in Frames, t = tm.sfs
  PROVE  /\ Places(tm, t) # 0 /\ (Rendered(tm, t) \/ Untouched(tm, t))
         /\ Flow!MayStart(t)
<1>1. tm \in Members /\ Sound(tm) /\ tm.sfs # NoTask
  BY FrameIsTask DEF TypeOK, InHand
<1>2. /\ ~tm.dsmt /\ t \notin tm.proc
      /\ Count(tm.refilter, t) > 0 \/ Count(tm.fresh, t) > 0
      /\ tm.sq > 0 => Count(tm.refilter, t) > 0
  BY <1>1, ScheduledWaits
<1>3. Places(tm, t) # 0
  <2>1. /\ Count(tm.refilter, t) \in Nat /\ Count(tm.fresh, t) \in Nat
        /\ Count(tm.done, t) \in Nat
    BY <1>1, PlacesType
  <2> QED
    BY <1>2, <2>1 DEF Places
<1>4. /\ ~(t >= tm.next) /\ reported[t] = "no"
      /\ Places(tm, t) = 1 /\ Fine(tm, t)
  BY <1>3, UnderWay
<1>5. /\ Rendered(tm, t) \/ Untouched(tm, t)
      /\ tm.sq > 0 => Rendered(tm, t)
  BY <1>2, <1>4 DEF Fine
<1>6. PlaceOf(t) = "todo"
  <2>1. ~Aside(tm, t)
    BY <1>1, <1>2, <1>4, InOnePlace
  <2>2. PlaceOf(t) = PlaceIn(tm, reported, t)
    BY PlaceHere
  <2> QED
    BY <1>2, <1>4, <2>1, <2>2 DEF PlaceIn
<1>7. tm.sq > 0 => Flow!Rendered(t)
  BY <1>3, <1>5, PartDue
<1>8. Flow!MayStart(t)
  BY <1>2, <1>6, <1>7 DEF Flow!MayStart
<1> QED
  BY <1>3, <1>5, <1>8

\* A task that is worked on.
LEMMA AtWork ==
  ASSUME TypeOK, InHand, NEW t \in Frames, t \in tm.proc
  PROVE  /\ Places(tm, t) # 0 /\ (Rendered(tm, t) \/ Untouched(tm, t))
         /\ PlaceOf(t) = "proc"
<1>1. tm \in Members
  BY DEF TypeOK
<1>2. Places(tm, t) # 0
  <2>1. /\ Count(tm.refilter, t) \in Nat /\ Count(tm.fresh, t) \in Nat
        /\ Count(tm.done, t) \in Nat
    BY <1>1, PlacesType
  <2> QED
    BY <2>1 DEF Places
<1>3. ~(t >= tm.next) /\ reported[t] = "no" /\ Fine(tm, t)
  BY <1>2, UnderWay
<1>4. PlaceOf(t) = "proc"
  BY <1>3 DEF PlaceOf
<1> QED
  BY <1>2, <1>3, <1>4 DEF Fine

\* A job is started.
LEMMA BeginMoves ==
  ASSUME Ends, NEW t \in Frames, t = tm.sfs, Begins(tm, tm', t),
         reported' = reported, tm'.next = tm.next
  PROVE  Flow!Starts(t)
<1>1. Places(tm, t) # 0 /\ Flow!MayStart(t)
  BY WaitsForStart DEF Ends
<1>2. RenderOf(t) = Outcome(tm.rtes[t]) /\ FilterOf(t) = Outcome(tm.ftes[t])
  BY <1>1, UnderWay DEF Ends
<1>3. /\ RenderOf(t)' = Outcome(tm'.rtes[t]) /\ FilterOf(t)' = Outcome(tm'.ftes[t])
      /\ PlaceOf(t)' = IF t \in tm'.proc THEN "proc"
                       ELSE IF Aside(tm', t) THEN "done" ELSE "todo"
  BY <1>1, StillUnderWay
<1>4. PlaceOf(t)' = "proc" /\ RenderOf(t)' = RenderOf(t) /\ FilterOf(t)' = FilterOf(t)
  BY <1>2, <1>3 DEF Begins, Kept
<1> QED
  BY <1>1, <1>4 DEF Flow!Starts, Flow!Move

\* A job fails, or its start does.
LEMMA FailMoves ==
  ASSUME Ends, NEW t \in Frames, t \in tm.proc \/ t = tm.sfs, Fails(tm, tm', t),
         reported' = reported, tm'.next = tm.next
  PROVE  Flow!StartFails(t) \/ Flow!JobFails(t)
<1>1. /\ Places(tm, t) # 0 /\ (Rendered(tm, t) \/ Untouched(tm, t))
      /\ PlaceOf(t) = "proc" \/ Flow!MayStart(t)
  BY WaitsForStart, AtWork DEF Ends
<1>2. /\ RenderOf(t) = Outcome(tm.rtes[t]) /\ FilterOf(t) = Outcome(tm.ftes[t])
      /\ Flow!NextIsRender(t) <=> tm.stage[t] = "ToBeRendered"
  BY <1>1, UnderWay, PartDue DEF Ends
<1>3. /\ RenderOf(t)' = Outcome(tm'.rtes[t]) /\ FilterOf(t)' = Outcome(tm'.ftes[t])
      /\ PlaceOf(t)' = IF t \in tm'.proc THEN "proc"
                       ELSE IF Aside(tm', t) THEN "done" ELSE "todo"
      /\ Places(tm', t) = 1 /\ Fine(tm', t) /\ tm' \in Members
  BY <1>1, StillUnderWay
<1>4. ~Rendered(tm', t) /\ ~Untouched(tm', t)
  <2>1. Unset.end = "Unset"
    BY DEF Unset
  <2> QED
    BY <2>1 DEF Fails, Rendered, Untouched
<1>5. PlaceOf(t)' = "done"
  <2>1. t \notin tm'.proc /\ ~(Count(tm'.refilter, t) > 0) /\ ~(Count(tm'.fresh, t) > 0)
    BY <1>3, <1>4 DEF Fine
  <2>2. Aside(tm', t)
    BY <1>3, <2>1, InOnePlace
  <2> QED
    BY <1>3, <2>1, <2>2
<1>6. IF tm.stage[t] = "ToBeRendered"
      THEN RenderOf(t)' = "failed" /\ FilterOf(t)' = FilterOf(t)
      ELSE RenderOf(t)' = RenderOf(t) /\ FilterOf(t)' = "failed"
  BY <1>2, <1>3 DEF Fails, Outcome
<1>7. Flow!Fails(t)
  BY <1>2, <1>5, <1>6 DEF Flow!Fails, Flow!Move
<1>8. CASE PlaceOf(t) = "proc"
  BY <1>7, <1>8 DEF Flow!JobFails
<1>9. CASE Flow!MayStart(t)
  BY <1>7, <1>9 DEF Flow!StartFails
<1> QED
  BY <1>1, <1>8, <1>9

\* A job succeeds.
LEMMA SuccessMoves ==
  ASSUME Ends, NEW t \in Frames, t \in tm.proc, Succeeds(tm, tm', t),
         reported' = reported, tm'.next = tm.next
  PROVE  Flow!RenderSucceeds(t) \/ Flow!FilterSucceeds(t)
<1>1. /\ Places(tm, t) # 0 /\ (Rendered(tm, t) \/ Untouched(tm, t))
      /\ PlaceOf(t) = "proc"
  BY AtWork DEF Ends
<1>2. /\ RenderOf(t) = Outcome(tm.rtes[t]) /\ FilterOf(t) = Outcome(tm.ftes[t])
      /\ Flow!NextIsRender(t) <=> tm.stage[t] = "ToBeRendered"
  BY <1>1, UnderWay, PartDue DEF Ends
<1>3. /\ RenderOf(t)' = Outcome(tm'.rtes[t]) /\ FilterOf(t)' = Outcome(tm'.ftes[t])
      /\ PlaceOf(t)' = IF t \in tm'.proc THEN "proc"
                       ELSE IF Aside(tm', t) THEN "done" ELSE "todo"
      /\ Places(tm', t) = 1 /\ Fine(tm', t) /\ tm' \in Members
  BY <1>1, StillUnderWay
<1>4. t \notin tm'.proc
  BY DEF Succeeds
<1>5. tm'.stage[t] = "TaskDone" => PlaceOf(t)' = "done"
  <2> SUFFICES ASSUME tm'.stage[t] = "TaskDone" PROVE PlaceOf(t)' = "done"
    OBVIOUS
  <2>1. ~Rendered(tm', t) /\ ~Untouched(tm', t)
    BY DEF Rendered, Untouched
  <2>2. ~(Count(tm'.refilter, t) > 0) /\ ~(Count(tm'.fresh, t) > 0)
    BY <1>3, <2>1 DEF Fine
  <2>3. Aside(tm', t)
    BY <1>3, <1>4, <2>2, InOnePlace
  <2> QED
    BY <1>3, <1>4, <2>3
<1>6. CASE tm.stage[t] = "ToBeRendered"
  <2>1. /\ RenderOf(t)' = "ok" /\ FilterOf(t)' = FilterOf(t)
        /\ tm'.rtes[t].end = "Success"
        /\ tm'.stage[t] = IF t \in FilterFrames THEN "ToBeFiltered" ELSE "TaskDone"
    BY <1>2, <1>3, <1>6 DEF Succeeds, Outcome
  <2>2. t \in FilterFrames /\ ~tm'.dsmt => PlaceOf(t)' = "todo"
    BY <1>3, <1>4, <2>1 DEF Succeeds
  <2>3. t \in FilterFrames /\ tm'.dsmt => PlaceOf(t)' = "done"
    <3> SUFFICES ASSUME tm'.dsmt PROVE PlaceOf(t)' = "done"
      OBVIOUS
    <3>1. tm'.refilter = <<>>
      BY DEF Ends, InHand, Sound, Chosen
    <3>2. Count(tm'.refilter, t) = 0
      BY <3>1, CountFew
    <3>3. ~Untouched(tm', t)
      <4>1. Unset.end = "Unset"
        BY DEF Unset
      <4> QED
        BY <2>1, <4>1 DEF Untouched
    <3>4. ~(Count(tm'.fresh, t) > 0)
      BY <1>3, <3>3 DEF Fine
    <3>5. Aside(tm', t)
      BY <1>3, <1>4, <3>2, <3>4, InOnePlace
    <3> QED
      BY <1>3, <1>4, <3>5
  <2>4. t \notin FilterFrames => PlaceOf(t)' = "done"
    BY <1>5, <2>1
  <2>5. Flow!RenderSucceeds(t)
    BY <1>1, <1>2, <1>6, <2>1, <2>2, <2>3, <2>4
       DEF Flow!RenderSucceeds, Flow!Move
  <2> QED
    BY <2>5
<1>7. CASE tm.stage[t] # "ToBeRendered"
  <2>1. /\ RenderOf(t)' = RenderOf(t) /\ FilterOf(t)' = "ok"
        /\ tm'.stage[t] = "TaskDone"
    BY <1>2, <1>3, <1>7 DEF Succeeds, Outcome
  <2>2. Flow!FilterSucceeds(t)
    BY <1>1, <1>2, <1>5, <1>7, <2>1 DEF Flow!FilterSucceeds, Flow!Move
  <2> QED
    BY <2>2
<1> QED
  BY <1>6, <1>7

----------------------------------------------------------------------------
(* What is done to the parts *)

LEMMA CourseKept ==
  ASSUME NEW s, NEW r, NEW t, Course(s, t), Kept(s, r, t) PROVE Course(r, t)
  BY DEF Course, Kept, Untouched, Rendered

LEMMA CourseFails ==
  ASSUME NEW s, NEW r, NEW t \in Frames, Course(s, t),
         Rendered(s, t) \/ Untouched(s, t), Fails(s, r, t)
  PROVE  Course(r, t)
<1>1. Unset.end = "Unset" /\ t \in RenderFrames \cup FilterFrames
  BY ConfigAssumption DEF Unset
<1>2. CASE Untouched(s, t)
  <2>1. CASE t \in RenderFrames
    BY <1>1, <1>2, <2>1 DEF Untouched, Fails, Course
  <2>2. CASE t \notin RenderFrames
    BY <1>1, <1>2, <2>2 DEF Untouched, Fails, Course
  <2> QED
    BY <2>1, <2>2
<1>3. CASE Rendered(s, t)
  <2>1. t \in RenderFrames /\ t \in FilterFrames
    BY <1>1, <1>3 DEF Course, Rendered, Untouched
  <2> QED
    BY <1>1, <1>3, <2>1 DEF Rendered, Fails, Course
<1> QED
  BY <1>2, <1>3

LEMMA CourseSucceeds ==
  ASSUME NEW s, NEW r, NEW t \in Frames, Course(s, t),
         Rendered(s, t) \/ Untouched(s, t), Succeeds(s, r, t)
  PROVE  Course(r, t)
<1>1. Unset.end = "Unset" /\ t \in RenderFrames \cup FilterFrames
  BY ConfigAssumption DEF Unset
<1>2. CASE Untouched(s, t) /\ t \in RenderFrames
  <2>1. /\ r.rtes[t].end = "Success" /\ r.ftes[t] = Unset
        /\ r.stage[t] = IF t \in FilterFrames THEN "ToBeFiltered" ELSE "TaskDone"
    BY <1>2 DEF Untouched, Succeeds
  <2>2. CASE t \in FilterFrames
    BY <1>2, <2>1, <2>2 DEF Course, Rendered
  <2>3. CASE t \notin FilterFrames
    BY <1>1, <1>2, <2>1, <2>3 DEF Course
  <2> QED
    BY <2>2, <2>3
<1>3. CASE Untouched(s, t) /\ t \notin RenderFrames
  <2>1. r.ftes[t].end = "Success" /\ r.rtes[t] = Unset /\ r.stage[t] = "TaskDone"
    BY <1>3 DEF Untouched, Succeeds
  <2> QED
    BY <1>1, <1>3, <2>1 DEF Course
<1>4. CASE Rendered(s, t)
  <2>1. t \in RenderFrames /\ t \in FilterFrames
    BY <1>1, <1>4 DEF Course, Rendered, Untouched
  <2>2. /\ r.ftes[t].end = "Success" /\ r.rtes[t].end = "Success"
        /\ r.stage[t] = "TaskDone"
    BY <1>4 DEF Rendered, Succeeds
  <2> QED
    BY <2>1, <2>2 DEF Course
<1> QED
  BY <1>2, <1>3, <1>4

----------------------------------------------------------------------------
(* Steps *)

\* What a step must do with the tasks and the gate.
TasksMove ==
  /\ OnCourse'
  /\ Flow!GateMoves
  /\ \A t \in Frames : Flow!Stays(t) \/ Flow!Moves(t)

\* Nothing happens to the tasks but x.
LEMMA OneMoves ==
  ASSUME Ends, NEW x, Yields(tm, tm', x),
         \A t \in Frames \ {x} : /\ reported'[t] = reported[t]
                                 /\ t >= tm.next <=> t >= tm'.next,
         x \in Frames => /\ Flow!Moves(x)
                         /\ Course(tm', x) \/ reported'[x] # "no"
  PROVE  TasksMove
<1>1. Flow!GateMoves
  <2>1. (tm.dsmt => tm'.dsmt) /\ (tm.sq > 0 => tm'.sq > 0)
    BY DEF Yields
  <2> QED
    BY <2>1, Zenon DEF Flow!GateMoves, Flow!Gates
<1>2. ASSUME NEW t \in Frames PROVE Flow!Stays(t) \/ Flow!Moves(t)
  <2>1. CASE t = x
    BY <2>1
  <2>2. CASE t # x
    BY <2>2, OthersMove DEF Flow!Moves
  <2> QED
    BY <2>1, <2>2
<1>3. ASSUME NEW t \in Frames, t < tm'.next, reported'[t] = "no"
      PROVE  Course(tm', t)
  <2>1. CASE t = x
    BY <1>3, <2>1
  <2>2. CASE t # x
    <3>1. t \in Int /\ tm.next \in Int /\ tm'.next \in Int
      BY Read, ConfigAssumption DEF Ends, TypeOK, Frames
    <3>2. t < tm.next /\ reported[t] = "no"
      BY <1>3, <2>2, <3>1
    <3>3. Course(tm, t)
      BY <3>2 DEF Ends, OnCourse
    <3>4. Kept(tm, tm', t)
      BY <2>2 DEF Yields, Kept
    <3> QED
      BY <3>3, <3>4, CourseKept
  <2> QED
    BY <2>1, <2>2
<1>4. OnCourse'
  BY <1>3 DEF OnCourse
<1> QED
  BY <1>1, <1>2, <1>4 DEF TasksMove

\* Nothing happens to any task.
LEMMA NobodyMoves ==
  ASSUME Ends, Yields(tm, tm', NoTask), reported' = reported, tm'.next = tm.next
  PROVE  TasksMove
<1>1. NoTask \notin Frames
  BY FrameIsTask
<1> QED
  BY <1>1, OneMoves

\* The task x has begun, or what it began is over.
LEMMA WorkMoves ==
  ASSUME Ends, NEW x \in Frames, Yields(tm, tm', x),
         reported' = reported, tm'.next = tm.next,
         \/ x = tm.sfs /\ Begins(tm, tm', x)
         \/ (x \in tm.proc \/ x = tm.sfs) /\ Fails(tm, tm', x)
         \/ x \in tm.proc /\ Succeeds(tm, tm', x)
  PROVE  TasksMove
<1>1. Flow!Moves(x)
  BY BeginMoves, FailMoves, SuccessMoves DEF Flow!Moves
<1>2. /\ Places(tm, x) # 0 /\ (Rendered(tm, x) \/ Untouched(tm, x))
  BY WaitsForStart, AtWork DEF Ends
<1>3. Course(tm, x)
  BY <1>2, UnderWay DEF Ends, OnCourse
<1>4. Course(tm', x)
  BY <1>2, <1>3, CourseKept, CourseFails, CourseSucceeds DEF Begins
<1>5. \A t \in Frames \ {x} : /\ reported'[t] = reported[t]
                              /\ t >= tm.next <=> t >= tm'.next
  OBVIOUS
<1> QED
  BY <1>1, <1>4, <1>5, OneMoves

\* The source hands out the next frame.
LEMMA ArrivesMoves ==
  ASSUME Ends, ExchangeAgrees, SourceHandsOut PROVE TasksMove
<1> DEFINE h == SrcHandOut(tm)
<1>0. PICK t \in Frames : t = tm.next
  BY Read, ConfigAssumption DEF SourceHandsOut, Ends, TypeOK, Frames
<1>1. PICK lv \in Readings : tm' = TSNotify(h, TSGotTask(h, t, lv))
  BY <1>0 DEF SourceHandsOut
<1>2. /\ tm \in Members /\ tm.srcPend = "AGetTask" /\ t \in Frames
      /\ Exchange(tm) /\ Sound(tm) /\ reported' = reported /\ t <= NFrames
  <2>1. tm \in Members
    BY DEF Ends, TypeOK
  <2> QED
    BY <1>0, <2>1, AgreesMeansOrder DEF SourceHandsOut, SourceTurn, InHand, Ends
<1>3. h.quitStep = tm.quitStep
  BY DEF SrcHandOut
<1>4. tm' = TSGotTask(h, t, lv)
  BY <1>1, <1>2, <1>3, AnswerIsHandled DEF Actions, Ends
<1>5. tm.srcDone = NoTask
  BY <1>2 DEF Exchange
<1>6. tm'.next = t + 1
  BY <1>0, HandOutInHand DEF Ends
<1>7. /\ Yields(tm, tm', t) /\ t \notin tm'.proc
      /\ tm'.rtes[t] = tm.rtes[t] /\ tm'.ftes[t] = tm.ftes[t]
      /\ tm'.stage[t] = IF t \in RenderFrames THEN "ToBeRendered" ELSE "ToBeFiltered"
      /\ Aside(tm', t) => tm'.dsmt \/ tm'.sq > 0
  BY <1>0, <1>2, <1>4, <1>5, GotTaskYields
<1> HIDE DEF h
<1>8. /\ t \in Int /\ t >= t /\ ~(t >= tm'.next)
      /\ reported[t] = "no" /\ tm.rtes[t] = Unset /\ tm.ftes[t] = Unset
  <2>1. t \in Int
    BY <1>2, ConfigAssumption DEF Frames
  <2>2. Fine(tm, t) /\ t >= t
    BY <1>2, <2>1 DEF Sound
  <2>3. reported[t] = "no"
    BY <1>0, <1>2, <2>2 DEF Ends, InHand
  <2> QED
    BY <1>0, <1>6, <2>1, <2>2, <2>3 DEF Fine
<1>9. Course(tm', t)
  BY <1>7, <1>8 DEF Course, Untouched
<1>10. /\ RenderOf(t)' = Outcome(tm'.rtes[t]) /\ FilterOf(t)' = Outcome(tm'.ftes[t])
       /\ RenderOf(t) = Outcome(tm.rtes[t]) /\ FilterOf(t) = Outcome(tm.ftes[t])
  BY <1>2, <1>8 DEF RenderOf, FilterOf
<1>11. RenderOf(t)' = RenderOf(t) /\ FilterOf(t)' = FilterOf(t)
  BY <1>7, <1>10
<1>12. /\ PlaceOf(t) = "source"
       /\ PlaceOf(t)' = IF Aside(tm', t) THEN "done" ELSE "todo"
  <2>1. PlaceOf(t) = "source"
    BY <1>0, <1>8 DEF PlaceOf
  <2>2. PlaceOf(t)' = PlaceIn(tm', reported', t)
    BY <1>2, PlaceThere DEF Ends
  <2> QED
    BY <1>2, <1>7, <1>8, <2>1, <2>2 DEF PlaceIn
<1>13. Flow!Arrives(t)
  <2>1. CASE Aside(tm', t)
    BY <1>2, <1>7, <1>11, <1>12, <2>1 DEF Flow!Arrives, Flow!Move
  <2>2. CASE ~Aside(tm', t)
    BY <1>2, <1>11, <1>12, <2>2 DEF Flow!Arrives, Flow!Move
  <2> QED
    BY <2>1, <2>2
<1>14. \A u \in Frames \ {t} : /\ reported'[u] = reported[u]
                               /\ u >= tm.next <=> u >= tm'.next
  BY <1>0, <1>2, <1>6, <1>8, ConfigAssumption DEF Frames
<1>15. Flow!Moves(t)
  BY <1>13 DEF Flow!Moves
<1> QED
  BY <1>7, <1>9, <1>14, <1>15, OneMoves

\* The source fails to set the next frame up, and may skip it.
LEMMA SkipMoves ==
  ASSUME Ends, ExchangeAgrees, SourceGetFails PROVE TasksMove
<1>1. PICK skips \in BOOLEAN :
        tm' = TSNotify(SrcGetFails(tm, skips), TSGetFailed(SrcGetFails(tm, skips)))
  BY DEF SourceGetFails
<1> DEFINE h == SrcGetFails(tm, skips)
<1>0. PICK t \in Frames : t = tm.next
  BY Read, ConfigAssumption DEF SourceGetFails, Ends, TypeOK, Frames
<1>2. /\ tm \in Members /\ tm.srcPend = "AGetTask" /\ t \in Frames
      /\ Exchange(tm) /\ Sound(tm) /\ reported \in [Frames -> Verdicts]
  <2>1. tm \in Members /\ reported \in [Frames -> Verdicts]
    BY DEF Ends, TypeOK
  <2> QED
    BY <1>0, <2>1, AgreesMeansOrder DEF SourceGetFails, SourceTurn, InHand, Ends
<1>3. h \in Members
  BY <1>2, AnswersTyped
<1>4. /\ h.fresh = tm.fresh /\ h.done = tm.done
      /\ h.proc = tm.proc /\ h.srcDone = tm.srcDone /\ h.stage = tm.stage
      /\ h.rtes = tm.rtes /\ h.ftes = tm.ftes
      /\ h.sq = tm.sq /\ h.dsmt = tm.dsmt /\ h.quitStep = tm.quitStep
  BY DEF SrcGetFails
<1>5. tm' = TSGetFailed(h)
  BY <1>1, <1>2, <1>4, AnswerIsHandled DEF Actions, Ends
<1> HIDE DEF h
<1>6. Yields(tm, h, NoTask)
  BY <1>4, PartsYield DEF Kept
<1>7. Yields(h, tm', NoTask)
  BY <1>2, <1>3, <1>4, <1>5, AnswersYield DEF Exchange
<1>8. Yields(tm, tm', NoTask)
  BY <1>6, <1>7, YieldsTrans
<1>9. \/ reported' = reported /\ tm'.next = tm.next
      \/ reported' = [reported EXCEPT ![t] = "skipped"] /\ tm'.next = t + 1
  BY <1>0, GetFailsInHand DEF Ends
<1>10. CASE reported' = reported /\ tm'.next = tm.next
  BY <1>8, <1>10, NobodyMoves
<1>11. CASE reported' = [reported EXCEPT ![t] = "skipped"] /\ tm'.next = t + 1
  <2>1. /\ t \in Int /\ t >= t
        /\ reported[t] = "no" /\ tm.rtes[t] = Unset /\ tm.ftes[t] = Unset
    <3>1. t \in Int
      BY <1>2, ConfigAssumption DEF Frames
    <3>2. Fine(tm, t) /\ t >= t
      BY <1>2, <3>1 DEF Sound
    <3>3. reported[t] = "no"
      BY <1>0, <1>2, <3>2 DEF Ends, InHand
    <3> QED
      BY <1>0, <3>1, <3>2, <3>3 DEF Fine
  <2>2. reported'[t] = "skipped"
    BY <1>2, <1>11
  <2>3. PlaceOf(t) = "source"
    BY <1>0, <2>1 DEF PlaceOf
  <2>4. PlaceOf(t)' = "back"
    BY <2>2 DEF PlaceOf
  <2>5. RenderOf(t) = "unset" /\ FilterOf(t) = "unset"
    <3>1. Outcome(Unset) = "unset"
      BY DEF Outcome, Unset
    <3>2. RenderOf(t) = Outcome(tm.rtes[t]) /\ FilterOf(t) = Outcome(tm.ftes[t])
      BY <2>1 DEF RenderOf, FilterOf
    <3> QED
      BY <2>1, <3>1, <3>2
  <2>6. RenderOf(t)' = "unset" /\ FilterOf(t)' = "unset"
    BY <2>2 DEF RenderOf, FilterOf
  <2>7. Flow!IsSkipped(t)
    BY <1>2, <2>2, <2>3, <2>4, <2>5, <2>6 DEF Flow!IsSkipped
  <2>8. \A u \in Frames \ {t} : /\ reported'[u] = reported[u]
                                /\ u >= tm.next <=> u >= tm'.next
    BY <1>0, <1>2, <1>11, <2>1, ConfigAssumption DEF Frames
  <2>9. Flow!Moves(t)
    BY <2>7 DEF Flow!Moves
  <2>10. Yields(tm, tm', t)
    BY <1>8, YieldsLess
  <2>11. reported'[t] # "no"
    BY <2>2
  <2> QED
    BY <2>8, <2>9, <2>10, <2>11, OneMoves
<1> QED
  BY <1>9, <1>10, <1>11

\* What the source is told of a task, and what became of it.
LEMMA ReportIs ==
  ASSUME NEW s, NEW t \in Frames, Course(s, t)
  PROVE  LET v == Verdict(s, t)
             r == Outcome(s.rtes[t])
             f == Outcome(s.ftes[t])
         IN  \/ v = "untouched" /\ r = "unset" /\ f = "unset"
             \/ /\ v = "partly" /\ r = "ok" /\ f = "unset"
                /\ t \in RenderFrames /\ t \in FilterFrames
             \/ v = "unrendered" /\ r = "failed" /\ f = "unset"
             \/ /\ v = "unfiltered" /\ f = "failed"
                /\ r = IF t \in RenderFrames THEN "ok" ELSE "unset"
             \/ /\ v = "complete"
                /\ r = IF t \in RenderFrames THEN "ok" ELSE "unset"
                /\ f = IF t \in FilterFrames THEN "ok" ELSE "unset"
<1>1. Unset.end = "Unset"
  BY DEF Unset
<1>2. CASE Untouched(s, t)
  <2>1. Verdict(s, t) = "untouched"
    BY <1>1, <1>2 DEF Untouched, Verdict
  <2>2. Outcome(s.rtes[t]) = "unset" /\ Outcome(s.ftes[t]) = "unset"
    BY <1>1, <1>2 DEF Untouched, Outcome
  <2> QED
    BY <2>1, <2>2
<1>3. CASE Rendered(s, t) /\ t \in RenderFrames /\ t \in FilterFrames
  <2>1. Verdict(s, t) = "partly"
    BY <1>1, <1>3 DEF Rendered, Verdict
  <2>2. Outcome(s.rtes[t]) = "ok" /\ Outcome(s.ftes[t]) = "unset"
    BY <1>1, <1>3 DEF Rendered, Outcome
  <2> QED
    BY <1>3, <2>1, <2>2
<1>4. CASE /\ s.stage[t] = "ToBeRendered" /\ t \in RenderFrames
           /\ s.rtes[t].end = "Failed" /\ s.ftes[t].end = "Unset"
  <2>1. Verdict(s, t) = "unrendered"
    BY <1>4 DEF Verdict
  <2>2. Outcome(s.rtes[t]) = "failed" /\ Outcome(s.ftes[t]) = "unset"
    BY <1>4 DEF Outcome
  <2> QED
    BY <2>1, <2>2
<1>5. CASE /\ s.stage[t] = "ToBeFiltered" /\ t \in FilterFrames
           /\ s.rtes[t].end = (IF t \in RenderFrames THEN "Success" ELSE "Unset")
           /\ s.ftes[t].end = "Failed"
  <2>1. Verdict(s, t) = "unfiltered"
    BY <1>5 DEF Verdict
  <2>2. Outcome(s.ftes[t]) = "failed"
    BY <1>5 DEF Outcome
  <2>3. Outcome(s.rtes[t]) = IF t \in RenderFrames THEN "ok" ELSE "unset"
    BY <1>5 DEF Outcome
  <2> QED
    BY <2>1, <2>2, <2>3
<1>6. CASE /\ s.stage[t] = "TaskDone"
           /\ s.rtes[t].end = (IF t \in RenderFrames THEN "Success" ELSE "Unset")
           /\ s.ftes[t].end = (IF t \in FilterFrames THEN "Success" ELSE "Unset")
  <2>1. Verdict(s, t) = "complete"
    BY <1>6 DEF Verdict
  <2>2. Outcome(s.rtes[t]) = IF t \in RenderFrames THEN "ok" ELSE "unset"
    BY <1>6 DEF Outcome
  <2>3. Outcome(s.ftes[t]) = IF t \in FilterFrames THEN "ok" ELSE "unset"
    BY <1>6 DEF Outcome
  <2> QED
    BY <2>1, <2>2, <2>3
<1> QED
  BY <1>2, <1>3, <1>4, <1>5, <1>6 DEF Course

\* The source takes a task back.
LEMMA ReturnMoves ==
  ASSUME Ends, ExchangeAgrees, SourceTakesBack PROVE TasksMove
<1>0. PICK t \in Frames : t = tm.srcDone
  <2>1. tm \in Members /\ tm.srcDone # NoTask
    BY DEF Ends, TypeOK, SourceTakesBack, SourceTurn, ExchangeAgrees
  <2> QED
    BY <2>1, Read
<1> DEFINE h == SrcTakeBack(tm)
           v == Verdict(tm, t)
<1>1. /\ tm' = TSNotify(h, TSTookDone(h))
      /\ reported' = [reported EXCEPT ![t] = v]
  BY <1>0 DEF SourceTakesBack
<1>2. /\ tm \in Members /\ tm.srcPend = "ADoneTask" /\ t # NoTask /\ t \in Frames
      /\ reported \in [Frames -> Verdicts]
  <2>1. tm \in Members /\ tm.srcPend = "ADoneTask" /\ reported \in [Frames -> Verdicts]
    BY DEF Ends, TypeOK, SourceTakesBack, SourceTurn
  <2>2. t # NoTask
    BY <1>0, FrameIsTask
  <2> QED
    BY <2>1, <2>2
<1>3. h.quitStep = tm.quitStep
  BY DEF SrcTakeBack
<1>4. tm' = TSTookDone(h)
  BY <1>1, <1>2, <1>3, AnswerIsHandled DEF Actions, Ends
<1>5. Yields(tm, tm', t)
  BY <1>0, <1>2, <1>4, TookDoneYields
<1>6. tm'.next = tm.next
  BY TakeBackInHand DEF Ends
<1>7. reported'[t] = v
  BY <1>1, <1>2
<1>8. \A u \in Frames \ {t} : /\ reported'[u] = reported[u]
                              /\ u >= tm.next <=> u >= tm'.next
  <2>1. \A u \in Frames \ {t} : reported'[u] = reported[u]
    BY <1>1, <1>2
  <2> QED
    BY <1>6, <2>1
<1>9. Places(tm, t) # 0
  <2>1. /\ Count(tm.refilter, t) \in Nat /\ Count(tm.fresh, t) \in Nat
        /\ Count(tm.done, t) \in Nat
    BY <1>2, PlacesType
  <2> QED
    BY <1>0, <2>1 DEF Places
<1>10. /\ ~(t >= tm.next) /\ t < tm.next /\ reported[t] = "no" /\ Places(tm, t) = 1
       /\ RenderOf(t) = Outcome(tm.rtes[t]) /\ FilterOf(t) = Outcome(tm.ftes[t])
  BY <1>2, <1>9, UnderWay DEF Ends
<1>11. Course(tm, t)
  BY <1>2, <1>10 DEF Ends, OnCourse
<1>12. PlaceOf(t) = "done"
  <2>1. Aside(tm, t)
    BY <1>0 DEF Aside
  <2>2. t \notin tm.proc
    BY <1>2, <1>10, <2>1, InOnePlace
  <2>3. PlaceOf(t) = PlaceIn(tm, reported, t)
    BY <1>2, PlaceHere DEF Ends
  <2> QED
    BY <1>10, <2>1, <2>2, <2>3 DEF PlaceIn
<1>13. v # "no"
  BY DEF Verdict
<1>14. PlaceOf(t)' = "back"
  BY <1>7, <1>13 DEF PlaceOf
<1> DEFINE r == Outcome(tm.rtes[t])
           f == Outcome(tm.ftes[t])
<1>15. \/ v = "untouched" /\ r = "unset" /\ f = "unset"
       \/ /\ v = "partly" /\ r = "ok" /\ f = "unset"
          /\ t \in RenderFrames /\ t \in FilterFrames
       \/ v = "unrendered" /\ r = "failed" /\ f = "unset"
       \/ /\ v = "unfiltered" /\ f = "failed"
          /\ r = IF t \in RenderFrames THEN "ok" ELSE "unset"
       \/ /\ v = "complete"
          /\ r = IF t \in RenderFrames THEN "ok" ELSE "unset"
          /\ f = IF t \in FilterFrames THEN "ok" ELSE "unset"
  BY <1>2, <1>11, ReportIs
<1>16. t \in RenderFrames \cup FilterFrames
  BY <1>2, ConfigAssumption
<1> HIDE DEF h, v, r, f
<1>17. RenderOf(t) = r /\ FilterOf(t) = f
  BY <1>10 DEF r, f
<1>18. RenderOf(t)' = r /\ FilterOf(t)' = f
  <2>1. CASE v = "untouched" /\ r = "unset" /\ f = "unset"
    BY <1>7, <2>1 DEF RenderOf, FilterOf
  <2>2. CASE /\ v = "partly" /\ r = "ok" /\ f = "unset"
             /\ t \in RenderFrames /\ t \in FilterFrames
    BY <1>7, <2>2 DEF RenderOf, FilterOf
  <2>3. CASE v = "unrendered" /\ r = "failed" /\ f = "unset"
    BY <1>7, <2>3 DEF RenderOf, FilterOf
  <2>4. CASE /\ v = "unfiltered" /\ f = "failed"
             /\ r = IF t \in RenderFrames THEN "ok" ELSE "unset"
    BY <1>7, <2>4 DEF RenderOf, FilterOf
  <2>5. CASE /\ v = "complete"
             /\ r = IF t \in RenderFrames THEN "ok" ELSE "unset"
             /\ f = IF t \in FilterFrames THEN "ok" ELSE "unset"
    BY <1>7, <2>5 DEF RenderOf, FilterOf
  <2> QED
    BY <1>15, <2>1, <2>2, <2>3, <2>4, <2>5
<1>19. Flow!VerdictOf(t) = v
  <2>1. CASE v = "untouched" /\ r = "unset" /\ f = "unset"
    BY <1>2, <1>17, <2>1 DEF Flow!VerdictOf, Flow!Untouched
  <2>2. CASE /\ v = "partly" /\ r = "ok" /\ f = "unset"
             /\ t \in RenderFrames /\ t \in FilterFrames
    BY <1>2, <1>17, <2>2 DEF Flow!VerdictOf, Flow!Untouched, Flow!Rendered
  <2>3. CASE v = "unrendered" /\ r = "failed" /\ f = "unset"
    BY <1>2, <1>17, <2>3 DEF Flow!VerdictOf
  <2>4. CASE /\ v = "unfiltered" /\ f = "failed"
             /\ r = IF t \in RenderFrames THEN "ok" ELSE "unset"
    BY <1>2, <1>17, <2>4 DEF Flow!VerdictOf
  <2>5. CASE /\ v = "complete"
             /\ r = IF t \in RenderFrames THEN "ok" ELSE "unset"
             /\ f = IF t \in FilterFrames THEN "ok" ELSE "unset"
    BY <1>2, <1>16, <1>17, <2>5 DEF Flow!VerdictOf, Flow!Untouched, Flow!Rendered
  <2> QED
    BY <1>15, <2>1, <2>2, <2>3, <2>4, <2>5
<1>20. Flow!Returns(t)
  BY <1>7, <1>12, <1>14, <1>17, <1>18, <1>19 DEF Flow!Returns
<1>21. Flow!Moves(t)
  BY <1>20 DEF Flow!Moves
<1> QED
  BY <1>5, <1>7, <1>8, <1>13, <1>21, OneMoves

\* The answers that bring no task.
LEMMA AnswersMoveNobody ==
  ASSUME Ends, ExchangeAgrees,
         SourceConnects \/ SourceHasNoMore \/ SourceDisconnects
  PROVE  TasksMove
<1> DEFINE c == SrcConnected(tm)
           n == SrcNoTask(tm)
           d == SrcDisconnected(tm)
<1>1. /\ tm \in Members /\ tm.srcDone = NoTask /\ tm.srcPend # "ANone"
      /\ reported' = reported
  <2>1. /\ tm \in Members /\ tm.srcPend \in {"AConnect", "AGetTask", "ADisconnect"}
        /\ reported' = reported
    BY DEF Ends, TypeOK, SourceConnects, SourceHasNoMore, SourceDisconnects, SourceTurn
  <2> QED
    BY <2>1 DEF ExchangeAgrees
<1>2. /\ c \in Members /\ n \in Members /\ d \in Members
      /\ Calm(tm, c) /\ Calm(tm, n) /\ Calm(tm, d)
  BY <1>1, AnswersTyped, Quiet
<1>3. /\ c.quitStep = tm.quitStep /\ n.quitStep = tm.quitStep
      /\ d.quitStep = tm.quitStep
  BY DEF SrcConnected, SrcNoTask, SrcDisconnected
<1>4. tm' \in {TSConnected(c), TSNoMoreTasks(n), TSDisconnected(d, tm.srcQuit)}
  BY <1>1, <1>3, AnswerIsHandled
     DEF Ends, SourceConnects, SourceHasNoMore, SourceDisconnects
<1> HIDE DEF c, n, d
<1>5. /\ Moves(c, TSConnected(c)) /\ Moves(n, TSNoMoreTasks(n))
      /\ Moves(d, TSDisconnected(d, tm.srcQuit))
      /\ Yields(c, TSConnected(c), NoTask) /\ Yields(n, TSNoMoreTasks(n), NoTask)
      /\ Yields(d, TSDisconnected(d, tm.srcQuit), NoTask)
  BY <1>1, <1>2, AnswersMove, AnswersYield DEF Calm, Still
<1>6. /\ Moves(tm, c) /\ Moves(tm, n) /\ Moves(tm, d)
      /\ Yields(tm, c, NoTask) /\ Yields(tm, n, NoTask) /\ Yields(tm, d, NoTask)
  BY <1>2, CalmMoves, CalmYields
<1>7. Moves(tm, tm') /\ Yields(tm, tm', NoTask)
  BY <1>4, <1>5, <1>6, MovesTrans, YieldsTrans
<1>8. tm'.next = tm.next
  BY <1>7 DEF Moves, Ends, InHand
<1> QED
  BY <1>1, <1>7, <1>8, NobodyMoves

\* Every step but those on the way out.
LEMMA StepMoves ==
  ASSUME Ends, ExchangeAgrees, tm.quitStep = 0, [Next]_vars
  PROVE  TasksMove
<1>1. tm \in Members /\ Exchange(tm) /\ Awake(tm) /\ Sound(tm)
  BY AgreesMeansOrder DEF Ends, TypeOK, InHand
<1>2. ASSUME Yields(tm, tm', NoTask), Moves(tm, tm'), reported' = reported
      PROVE  TasksMove
  BY <1>1, <1>2, NobodyMoves DEF Moves
<1>3. CASE UNCHANGED vars
  <2>1. tm' = tm /\ reported' = reported
    BY <1>3 DEF vars
  <2>2. Yields(tm, tm, NoTask) /\ Moves(tm, tm)
    BY <1>1, QuietYields DEF Moves
  <2> QED
    BY <1>2, <2>1, <2>2
<1>4. CASE SourceAnswers
  BY <1>4, AnswersMoveNobody, ArrivesMoves, SkipMoves, ReturnMoves DEF SourceAnswers
<1>5. CASE ManagerSchedules
  <2>1. /\ \E lv \in Readings, forked \in BOOLEAN : tm' = Schedule(tm, forked, lv)
        /\ reported' = reported
    BY <1>5 DEF ManagerSchedules
  <2>2. PICK lv \in Readings, forked \in BOOLEAN : tm' = Schedule(tm, forked, lv)
    BY <2>1
  <2>3. \/ Yields(tm, tm', NoTask)
        \/ /\ tm.sfs # NoTask /\ Yields(tm, tm', tm.sfs)
           /\ Fails(tm, tm', tm.sfs) \/ Begins(tm, tm', tm.sfs)
    BY <1>1, <2>2, ScheduleYields
  <2>4. Moves(tm, tm')
    BY <1>1, <2>2, ScheduleMoves
  <2>5. CASE Yields(tm, tm', NoTask)
    BY <1>2, <2>1, <2>4, <2>5
  <2>6. CASE /\ tm.sfs # NoTask /\ Yields(tm, tm', tm.sfs)
             /\ Fails(tm, tm', tm.sfs) \/ Begins(tm, tm', tm.sfs)
    <3>1. PICK x \in Frames : x = tm.sfs
      BY <1>1, <2>6, Read
    <3>2. Yields(tm, tm', x) /\ (Fails(tm, tm', x) \/ Begins(tm, tm', x))
      BY <2>6, <3>1
    <3>3. tm'.next = tm.next
      BY <1>1, <2>4 DEF Moves
    <3> QED
      BY <2>1, <3>1, <3>2, <3>3, WorkMoves
  <2> QED
    BY <2>3, <2>5, <2>6
<1>6. CASE RoundEnds
  <2>1. PICK lv \in Readings : tm' = IF tm.dead = {} THEN tm ELSE TidyUp(tm, lv)
    BY <1>6 DEF RoundEnds
  <2>2. Moves(tm, TidyUp(tm, lv)) /\ Yields(tm, TidyUp(tm, lv), NoTask)
    BY <1>1, TidyUpMoves, TidyUpYields
  <2>3. Yields(tm, tm, NoTask) /\ Moves(tm, tm)
    BY <1>1, QuietYields DEF Moves
  <2> QED
    BY <1>2, <1>6, <2>1, <2>2, <2>3 DEF RoundEnds
<1>7. CASE \E lv \in Readings : ManagerPollsLoad(lv)
  <2>1. \A lv : Moves(tm, LoadPoll(tm, lv)) /\ Yields(tm, LoadPoll(tm, lv), NoTask)
    BY <1>1, Quiet, CalmMoves, QuietYields
  <2> QED
    BY <1>2, <1>7, <2>1 DEF ManagerPollsLoad
<1>8. ASSUME NEW t \in Frames,
             JobExecutes(t) \/ JobExecFails(t) \/ JobEnds(t) \/ JobTimesOut(t)
      PROVE  TasksMove
  <2>1. tm.job[t] # "none" /\ reported' = reported
    BY <1>8 DEF JobExecutes, JobExecFails, JobEnds, JobTimesOut
  <2>2. t \in tm.proc
    BY <1>1, <2>1 DEF Sound, Fine
  <2>3. CASE JobExecutes(t)
    <3> DEFINE a == [tm EXCEPT !.job[t] = "running"]
    <3>1. PICK lv \in Readings : tm' = LaunchingTaskDone(a, lv)
      BY <2>3 DEF JobExecutes
    <3> DEFINE b == CheckStartTasks(a, lv)
    <3>2. a \in Members
      BY <1>1, WriteAt
    <3>3. Level(tm, a) /\ a.proc = tm.proc
      BY DEF Level
    <3>4. Moves(tm, tm')
      BY <1>1, <2>3, <3>1, JobRuns DEF JobExecutes
    <3> HIDE DEF a
    <3>5. Yields(tm, a, NoTask)
      BY <3>3, LevelYields
    <3>6. b \in Members /\ Yields(a, b, NoTask)
      BY <3>2, CheckStartTasksTyped, QuietYields
    <3>7. tm' = CheckStartExchange(b)
      BY <3>1 DEF LaunchingTaskDone
    <3> HIDE DEF b
    <3>8. Yields(b, tm', NoTask)
      BY <3>6, <3>7, QuietYields
    <3>9. Yields(tm, b, NoTask)
      BY <3>5, <3>6, YieldsTrans
    <3>10. Yields(tm, tm', NoTask)
      BY <3>8, <3>9, YieldsTrans
    <3> QED
      BY <1>2, <2>1, <3>4, <3>10
  <2>4. CASE JobExecFails(t) \/ JobEnds(t)
    <3>1. PICK ok \in BOOLEAN, resume \in BOOLEAN, lv \in Readings :
            tm' = JobExited(tm, t, ok, resume, lv)
      BY <2>4 DEF JobExecFails, JobEnds
    <3>2. Yields(tm, tm', t) /\ (Fails(tm, tm', t) \/ Succeeds(tm, tm', t))
      BY <1>1, <2>2, <3>1, JobExitedYields
    <3>3. Moves(tm, tm')
      BY <1>1, <2>2, <3>1, JobExitedMoves
    <3>4. tm'.next = tm.next
      BY <1>1, <3>3 DEF Moves
    <3> QED
      BY <2>1, <2>2, <3>2, <3>4, WorkMoves
  <2>5. CASE JobTimesOut(t)
    <3>1. /\ Moves(tm, KillProcess(tm, t, "Timeout"))
          /\ Yields(tm, KillProcess(tm, t, "Timeout"), NoTask)
      BY <1>1, Quiet, CalmMoves, QuietYields
    <3> QED
      BY <1>2, <2>1, <2>5, <3>1 DEF JobTimesOut
  <2> QED
    BY <1>8, <2>3, <2>4, <2>5
<1>9. CASE User
  <2>1. reported' = reported
    BY <1>9 DEF User, UserInterrupts, UserTerminates, UserStops, UserContinues
  <2>2. PICK lv : tm' \in {SigInt(tm), SigTerm(tm), SigTstp(tm), SigCont(tm, lv)}
    BY <1>9 DEF User, UserInterrupts, UserTerminates, UserStops, UserContinues
  <2>3. Moves(tm, tm') /\ Yields(tm, tm', NoTask)
    BY <1>1, <2>2, SignalsMove, SignalsYield
  <2> QED
    BY <1>2, <2>1, <2>3
<1> QED
  BY <1>3, <1>4, <1>5, <1>6, <1>7, <1>8, <1>9 DEF Next, MainLoop, Gone

----------------------------------------------------------------------------
(* The theorem *)

LEMMA OutcomesTyped ==
  ASSUME NEW tes \in Tes PROVE Outcome(tes) \in {"unset", "ok", "failed"}
<1>1. tes.end \in {"Unset", "Success", "Failed"}
  BY DEF Tes
<1>2. CASE tes.end = "Unset"
  BY <1>2 DEF Outcome
<1>3. CASE tes.end = "Success"
  BY <1>3 DEF Outcome
<1>4. CASE tes.end = "Failed"
  BY <1>4 DEF Outcome
<1> QED
  BY <1>1, <1>2, <1>3, <1>4

LEMMA ViewTyped ==
  ASSUME TypeOK', NEW t \in Frames
  PROVE  /\ PlaceOf(t)' \in {"source", "todo", "proc", "done", "back"}
         /\ RenderOf(t)' \in {"unset", "ok", "failed"}
         /\ FilterOf(t)' \in {"unset", "ok", "failed"}
<1>1. tm' \in Members
  BY DEF TypeOK
<1>2. /\ Outcome(tm'.rtes[t]) \in {"unset", "ok", "failed"}
      /\ Outcome(tm'.ftes[t]) \in {"unset", "ok", "failed"}
  BY <1>1, Read, OutcomesTyped
<1>3. PlaceOf(t)' \in {"source", "todo", "proc", "done", "back"}
  BY Zenon DEF PlaceOf
<1>4. CASE reported'[t] = "no"
  BY <1>2, <1>3, <1>4 DEF RenderOf, FilterOf
<1>5. CASE reported'[t] # "no"
  <2>1. RenderOf(t)' \in {"unset", "ok", "failed"}
    BY <1>5 DEF RenderOf
  <2>2. FilterOf(t)' \in {"unset", "ok", "failed"}
    BY <1>5 DEF FilterOf
  <2> QED
    BY <1>3, <2>1, <2>2
<1> QED
  BY <1>4, <1>5

\* On the way out nothing moves any more.
LEMMA FrozenFlow ==
  ASSUME Frozen(tm, tm'), reported' = reported, tm.quitStep > 0
  PROVE  UNCHANGED Flow!flow
<1>1. ASSUME NEW t \in Frames
      PROVE  /\ PlaceOf(t)' = PlaceOf(t)
             /\ RenderOf(t)' = RenderOf(t) /\ FilterOf(t)' = FilterOf(t)
  <2>1. PlaceOf(t)' = PlaceOf(t)
    BY DEF Frozen, PlaceOf, Todo
  <2>2. RenderOf(t)' = RenderOf(t) /\ FilterOf(t)' = FilterOf(t)
    BY DEF Frozen, RenderOf, FilterOf
  <2> QED
    BY <2>1, <2>2
<1>2. tm'.dsmt = tm.dsmt /\ tm'.sq = tm.sq /\ tm'.quitStep > 0
  BY DEF Frozen
<1> QED
  BY <1>1, <1>2 DEF Flow!flow

\* TaskFlow counts as this module does.
LEMMA FlowCounts ==
  ASSUME NEW S PROVE Flow!Cardinality(S) = Cardinality(S)
  BY DEF Flow!Cardinality, Cardinality

\* A step before the way out is a step of TaskFlow.
LEMMA FlowNext ==
  ASSUME Ends, ExchangeAgrees, tm.quitStep = 0, (RunsWell /\ CleanExit)', TasksMove
  PROVE  Flow!Next
<1>1. Flow!FlowTypeOK'
  <2>1. \A t \in Frames :
          /\ PlaceOf(t)' \in {"source", "todo", "proc", "done", "back"}
          /\ RenderOf(t)' \in {"unset", "ok", "failed"}
          /\ FilterOf(t)' \in {"unset", "ok", "failed"}
    BY ViewTyped DEF Ends
  <2>2. reported' \in [Frames -> Verdicts]
    BY DEF Ends, TypeOK
  <2> QED
    BY <2>1, <2>2
       DEF Flow!FlowTypeOK, Flow!Places, Flow!Outcomes, Flow!Verdicts, Verdicts,
           Flow!Gates
<1>2. Flow!JobLimit'
  <2> DEFINE P == {t \in Frames : PlaceOf(t)' = "proc"}
  <2>1. tm' \in Members /\ Counted(tm') /\ Limited(tm')
    BY DEF Ends, TypeOK, RunsWell, JobsInOrder, InOrder, Steady
  <2>2. /\ Cardinality(tm'.proc) \in Nat /\ Cardinality(tm'.proc) <= NJobs
        /\ IsFiniteSet(tm'.proc)
    <3>1. RunningJobs(tm') <= NJobs
      BY <2>1 DEF Limited
    <3>2. tm'.proc \subseteq Frames
      BY <2>1, Read
    <3>3. IsFiniteSet(tm'.proc)
      BY <3>2, SizeType
    <3> QED
      BY <2>1, <3>1, <3>3, ProcSize
  <2>3. P \subseteq tm'.proc
    BY DEF PlaceOf
  <2>4. Cardinality(P) \in Nat /\ Cardinality(P) <= Cardinality(tm'.proc)
    <3> HIDE DEF P
    <3> QED
      BY <2>2, <2>3, FS_Subset, FS_CardinalityType
  <2>5. Cardinality(P) <= NJobs
    <3> HIDE DEF P
    <3> QED
      BY <2>2, <2>4, ConfigAssumption
  <2>6. P = {t \in Frames : [u \in Frames |-> PlaceOf(u)'][t] = "proc"}
    OBVIOUS
  <2> HIDE DEF P
  <2> QED
    BY <2>5, <2>6, FlowCounts DEF Flow!JobLimit
<1>3. Flow!Exits
  <2> SUFFICES ASSUME tm'.quitStep > 0, NEW t \in Frames
               PROVE  PlaceOf(t)' \in {"source", "back"}
    BY DEF Flow!Exits
  <2>1. t < tm'.next => reported'[t] # "no"
    BY DEF CleanExit
  <2>2. tm'.next \in Int /\ t \in Int
    BY Read, ConfigAssumption DEF Ends, TypeOK, Frames
  <2>3. t < tm'.next \/ t >= tm'.next
    BY <2>2
  <2> QED
    BY <2>1, <2>3 DEF PlaceOf
<1>4. ~(tm.quitStep > 0)
  OBVIOUS
<1> QED
  BY <1>1, <1>2, <1>3, <1>4 DEF TasksMove, Flow!Next

LEMMA FlowStep ==
  ASSUME TypeOK, ExchangeAgrees, InHand, OnCourse, [Next]_vars,
         (TypeOK /\ InHand /\ RunsWell /\ CleanExit)'
  PROVE  OnCourse' /\ [Flow!Next]_(Flow!flow)
<1>1. Ends
  BY DEF Ends
<1>2. CASE tm.quitStep = 0
  BY <1>1, <1>2, StepMoves, FlowNext DEF TasksMove
<1>3. CASE tm.quitStep > 0
  <2>1. Frozen(tm, tm') /\ reported' = reported
    BY <1>3, WayOut
  <2>2. UNCHANGED Flow!flow
    BY <1>3, <2>1, FrozenFlow
  <2>3. OnCourse'
    <3>1. \A t \in Frames : Kept(tm, tm', t)
      BY <2>1 DEF Frozen, Kept
    <3>2. tm'.next = tm.next
      BY <2>1 DEF Frozen
    <3>3. ASSUME NEW t \in Frames, t < tm'.next, reported'[t] = "no"
          PROVE  Course(tm', t)
      <4>1. Course(tm, t)
        BY <2>1, <3>2, <3>3 DEF OnCourse
      <4> QED
        BY <3>1, <4>1, CourseKept
    <3> QED
      BY <3>3 DEF OnCourse
  <2> QED
    BY <2>2, <2>3
<1>4. tm.quitStep \in Nat
  BY Read DEF TypeOK
<1> QED
  BY <1>2, <1>3, <1>4

LEMMA FlowInit == Init => OnCourse /\ Flow!Init
<1> SUFFICES ASSUME Init PROVE OnCourse /\ Flow!Init
  OBVIOUS
<1>1. tm = Fresh /\ reported = [f \in Frames |-> "no"]
  BY DEF Init
<1>2. /\ Fresh.next = 1 /\ ~Fresh.dsmt /\ Fresh.sq = 0 /\ Fresh.quitStep = 0
      /\ Fresh.rtes = [t \in Frames |-> Unset] /\ Fresh.ftes = [t \in Frames |-> Unset]
  BY DEF Fresh
<1>3. \A t \in Frames : t >= 1 /\ ~(t < 1)
  BY ConfigAssumption DEF Frames
<1>4. OnCourse
  BY <1>1, <1>2, <1>3 DEF OnCourse
<1>5. Outcome(Unset) = "unset"
  BY DEF Outcome, Unset
<1>6. ASSUME NEW t \in Frames
      PROVE  PlaceOf(t) = "source" /\ RenderOf(t) = "unset" /\ FilterOf(t) = "unset"
  <2>1. reported[t] = "no" /\ t >= tm.next
    BY <1>1, <1>2, <1>3
  <2>2. tm.rtes[t] = Unset /\ tm.ftes[t] = Unset
    BY <1>1, <1>2
  <2>3. PlaceOf(t) = "source"
    BY <2>1 DEF PlaceOf
  <2>4. RenderOf(t) = Outcome(tm.rtes[t]) /\ FilterOf(t) = Outcome(tm.ftes[t])
    BY <2>1 DEF RenderOf, FilterOf
  <2> QED
    BY <1>5, <2>2, <2>3, <2>4
<1>7. ~tm.dsmt /\ ~(tm.sq > 0) /\ ~(tm.quitStep > 0)
  BY <1>1, <1>2
<1>8. Flow!Init
  BY <1>1, <1>6, <1>7 DEF Flow!Init
<1> QED
  BY <1>4, <1>8

\* In every run the parts of a task are run in order, and each once; and the
\* run is one of TaskFlow.
THEOREM OnCourseHolds == Spec => []OnCourse
<1>1. Init => OnCourse
  BY FlowInit
<1>2. /\ TypeOK /\ ExchangeAgrees /\ InHand /\ RunsWell /\ CleanExit
      /\ (TypeOK /\ ExchangeAgrees /\ InHand /\ RunsWell /\ CleanExit)'
      /\ OnCourse /\ [Next]_vars
      => OnCourse'
  BY FlowStep
<1> QED
  BY <1>1, <1>2, RendViewTyped, ExchangeHolds, InHandHolds, RunsWellHolds,
     CleanExitHolds, PTL DEF Spec

\* The task manager with its driver interface and its source implements
\* TaskFlow: every callback moves each task along its lifecycle or leaves it
\* alone, the gate only closes, at most NJobs tasks are in proc, what is
\* reported is what happened, and the program exits with nothing under way.
THEOREM FlowHolds == Spec => ImplementsFlow
<1>1. Init => Flow!Init
  BY FlowInit
<1>2. /\ TypeOK /\ ExchangeAgrees /\ InHand /\ RunsWell /\ CleanExit
      /\ (TypeOK /\ ExchangeAgrees /\ InHand /\ RunsWell /\ CleanExit)'
      /\ OnCourse /\ [Next]_vars
      => [Flow!Next]_(Flow!flow)
  BY FlowStep
<1> QED
  BY <1>1, <1>2, OnCourseHolds, RendViewTyped, ExchangeHolds, InHandHolds,
     RunsWellHolds, CleanExitHolds, PTL DEF Spec, ImplementsFlow, Flow!Spec
=============================================================================
