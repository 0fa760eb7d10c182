----------------------------- MODULE TaskManager -----------------------------
(***************************************************************************)
(* The task manager: the queues todo, proc and done, the start of jobs, the *)
(* exchange with the task source, failure counting, signals and the way to  *)
(* exit.  Every operator is a member function (or one branch of it) as a    *)
(* map from the members before to the members after; lv is the load reading *)
(* the handler at hand gets.                                                *)
(***************************************************************************)
EXTENDS LocalDrivers, LocalSource

Largest(a, b) == IF a > b THEN a ELSE b

ReSched(s) == [s EXCEPT !.tid0 = TRUE]

\* Give up the scheduled start; the task itself stays in todo.
KillScheduledForStart(s) ==
  IF s.sfs = NoTask THEN s
  ELSE [s EXCEPT !.sfs = NoTask, !.poll = @ /\ s.load]

\* Hysteresis between the low and the high load mark.
DoCheckLoad(s, lv) ==
  IF ~LoadControl THEN s
  ELSE [s EXCEPT !.load = IF @ THEN lv # "high" ELSE lv = "low"]

DoScheduleForStart(s, t, lv) ==
  LET r == DoCheckLoad([s EXCEPT !.sfs = t], lv)
  IN  IF r.load THEN ReSched(r) ELSE [r EXCEPT !.poll = TRUE]

CheckStartTasks(s, lv) ==
  IF s.dsmt \/ s.stopped \/ s.sfs # NoTask THEN s
  ELSE LET t == GetTaskToStart(s)
       IN  IF t = NoTask THEN s ELSE DoScheduleForStart(s, t, lv)

----------------------------------------------------------------------------
(* The exchange with the task source *)

CanDoneTask(s) ==
  /\ ~s.stopped
  /\ \/ s.done # <<>>
     \/ s.dsmt /\ ~TodoEmpty(s)
     \/ s.sq > 0 /\ s.fresh # <<>>

\* The task given back unprocessed when done is empty.
SpecialDone(s) == IF s.dsmt THEN Head(Todo(s)) ELSE Head(s.fresh)

CanGetTask(s, canDone) ==
  /\ ~s.dsmt /\ ~s.stopped /\ ~Quitting(s)
  /\ ~(s.tdaf /\ canDone)
  /\ Len(Todo(s)) < TodoHigh

MustConnect(s) ==
  \/ (s.dsmt \/ s.sq > 0 \/ s.tdaf) /\ CanDoneTask(s)
  \/ Len(s.done) >= DoneHigh
  \/ ~Quitting(s) /\ ~s.dsmt /\ Len(Todo(s)) < TodoLow
  \/ AllIdle(s) /\ s.done # <<>> /\ (s.sqa > 0 \/ s.dsmt)

\* Mutation: an outstanding Connect() is forgotten.
CheckStartExchange_Again(s) ==
  IF s.connected \/ s.stopped \/ ~MustConnect(s) THEN s ELSE TSConnect(s)

CheckStartExchange(s) ==
  IF s.connected \/ s.pending = "AConnect" \/ s.stopped \/ ~MustConnect(s)
  THEN s
  ELSE TSConnect(s)

Dequeue(s, t) ==
  [s EXCEPT !.refilter = Without(@, t), !.fresh = Without(@, t)]

\* Mutation: the task stays in done.
GiveBackDone_Keeps(s) ==
  TSDoneTask([s EXCEPT !.tsgod = "ADoneTask"], Head(s.done))

GiveBackDone(s) ==
  TSDoneTask([s EXCEPT !.done = Tail(@), !.tsgod = "ADoneTask"], Head(s.done))

GiveBackSpecial(s) ==
  LET t == SpecialDone(s)
      r == [s EXCEPT !.tdaf = FALSE, !.tsgod = "ADoneTask"]
      k == IF s.sfs = t THEN KillScheduledForStart(r) ELSE r
  IN  TSDoneTask(Dequeue(k, t), t)

\* _TS_GetOrDoneTask(): alternate between the two as far as both are possible.
GetOrDoneTask(s) ==
  LET canD    == CanDoneTask(s)
      canG    == CanGetTask(s, canD)
      doneNow == canD /\ (s.tsgod # "ADoneTask" \/ ~canG)
      asked   == IF doneNow
                 THEN IF s.done # <<>> THEN GiveBackDone(s) ELSE GiveBackSpecial(s)
                 ELSE IF canG THEN TSGetTask([s EXCEPT !.tsgod = "AGetTask"])
                 ELSE TSDisconnect([s EXCEPT !.tsgod = "ANone"], FALSE)
  IN  Check(asked, s.connected /\ s.pending = "ANone")

----------------------------------------------------------------------------
(* What happens to tasks *)

\* Mutation: the scheduled start stands.
DontStartMoreTasks_LateStart(s) ==
  [s EXCEPT !.dsmt = TRUE, !.done = @ \o s.refilter, !.refilter = <<>>]

\* Rendered tasks that wait for the filter are regarded as done.
DontStartMoreTasks(s) ==
  LET r == KillScheduledForStart([s EXCEPT !.dsmt = TRUE])
  IN  [r EXCEPT !.done = @ \o s.refilter, !.refilter = <<>>]

HandleSuccessfulJob(s, t, lv) ==
  LET out  == [s EXCEPT !.failed = 0, !.proc = @ \ {t}]
      done == [out EXCEPT !.done = Append(@, t)]
      todo == [out EXCEPT !.refilter = <<t>> \o @]
  IN  IF s.quitStep > 0 THEN s
      ELSE IF s.stage[t] = "TaskDone"
           THEN CheckStartExchange(CheckStartTasks(done, lv))
           ELSE CheckStartTasks(IF s.dsmt THEN DontStartMoreTasks(todo)
                                ELSE todo, lv)

\* The execution status HandleFailedTask() consults.
FailTes(s, t) == IF KindOf(s, t) = "Filter" THEN s.rtes[t] ELSE s.ftes[t]

PartlyRendered(s, t) ==
  s.rtes[t].jk # "NotKilled" /\ s.rtes[t].resume

CountsAsFailed(s, t) ==
  ~ /\ FailTes(s, t).jk # "NotKilled"
    /\ \/ KindOf(s, t) = "Render" /\ PartlyRendered(s, t)
       \/ FailTes(s, t).jk = "UserIntr"

\* Mutation: one failure too many.
CountFailure_OneMore(s, t) ==
  LET r == [s EXCEPT !.failed = @ + 1]
  IN  IF ~CountsAsFailed(s, t) THEN s
      ELSE IF MaxFailed > 0 /\ r.failed > MaxFailed
           THEN ReSched([DontStartMoreTasks(r) EXCEPT !.sq = 2])
           ELSE r

\* Count it; too many in sequence: stop starting and schedule quit.
CountFailure(s, t) ==
  LET r == [s EXCEPT !.failed = @ + 1]
  IN  IF ~CountsAsFailed(s, t) THEN s
      ELSE IF MaxFailed > 0 /\ r.failed >= MaxFailed
           THEN ReSched([DontStartMoreTasks(r) EXCEPT !.sq = 2])
           ELSE r

HandleFailedTask(s, t, lv) ==
  LET k == IF t = s.sfs THEN Dequeue(KillScheduledForStart(s), t)
                        ELSE [s EXCEPT !.proc = @ \ {t}]
      c == CountFailure([k EXCEPT !.done = Append(@, t)], t)
      r == CheckStartExchange(CheckStartTasks(c, lv))
  IN  IF s.quitStep > 0 THEN s
      ELSE [r EXCEPT !.tdaf = @ \/ r.connected]

\* StateChanged(EDRunning)
LaunchingTaskDone(s, lv) == CheckStartExchange(CheckStartTasks(s, lv))

TakeFreshTask(s, t, lv) ==
  LET r == NewTask_SetUpState([s EXCEPT !.fresh = Append(@, t)], t)
  IN  IF s.dsmt \/ Quitting(s)
      THEN CheckStartExchange(DontStartMoreTasks(r))
      ELSE CheckStartTasks(r, lv)

----------------------------------------------------------------------------
(* Answers of the task source: tsnotify() *)

Answered(s) == [s EXCEPT !.pending = "ANone"]

\* Mutation: connected, but nothing is asked for.
TSConnected_Idle(s) ==
  [Answered(s) EXCEPT !.connected = TRUE, !.tsgod = "ANone", !.nth = 0]

TSConnected(s) ==
  GetOrDoneTask([Answered(s) EXCEPT !.connected = TRUE, !.tsgod = "ANone",
                                    !.nth = 0])

TSGotTask(s, t, lv) == GetOrDoneTask(TakeFreshTask(Answered(s), t, lv))

\* Mutation: the schedule timer is not armed.
TSNoMoreTasks_Silent(s) ==
  [Answered(s) EXCEPT !.sqa = IF @ = 0 THEN 1 ELSE @]

TSNoMoreTasks(s) ==
  ReSched([Answered(s) EXCEPT !.sqa = IF @ = 0 THEN 1 ELSE @])

TSGetFailed(s) ==
  IF s.nth = 1 THEN ReSched([Answered(s) EXCEPT !.sqa = 2])
  ELSE GetOrDoneTask([Answered(s) EXCEPT !.tdaf = TRUE])

TSTookDone(s) == GetOrDoneTask(Answered(s))

\* Mutation: the schedule timer is not armed.
TSDisconnected_Silent(s, quit) ==
  Check([Answered(s) EXCEPT !.connected = FALSE], s.toldTs <=> quit)

\* quit: the answer is DSQuitOkay, not DSOkay.
TSDisconnected(s, quit) ==
  LET r == Check([Answered(s) EXCEPT !.connected = FALSE], s.toldTs <=> quit)
  IN  IF quit \/ Quitting(s) THEN ReSched(r) ELSE r

\* tsnotify() once the program is on its way out does nothing.
TSNotify(s, handled) == IF s.quitStep > 0 THEN s ELSE handled

----------------------------------------------------------------------------
(* Signals: signotify() and _ActOnSignal() *)

\* Mutation: a scheduled start of a new task stands.
ScheduleQuit_LateStart(s) == [s EXCEPT !.sq = IF @ = 0 THEN 1 ELSE @]

\* The quit that SIGINT and SIGTERM schedule: no NEW tasks.
ScheduleQuit(s) ==
  LET r == [s EXCEPT !.sq = IF @ = 0 THEN 1 ELSE @]
  IN  IF s.sfs \in {s.fresh[i] : i \in DOMAIN s.fresh}
      THEN KillScheduledForStart(r) ELSE r

\* Mutation: schedule_quit counts.
ScheduleKill_Counts(s) ==
  [DontStartMoreTasks(s) EXCEPT !.sq = @ + 2, !.killTasks = TRUE,
                                !.abortOn = TRUE]

\* The brutal version: kill the jobs, do not even filter.
ScheduleKill(s) ==
  [DontStartMoreTasks(s) EXCEPT !.sq = 2, !.killTasks = TRUE, !.abortOn = TRUE]

\* Everything a signal handler does comes after these two tests; before
\* _StartProcessing() there is no interface to talk to.
OnSignal(s, handled) ==
  IF s.quitStep > 0 THEN s
  ELSE IF ~s.started THEN Die(s, "nullif") ELSE handled

SigInt(s) ==
  IF s.abortOn THEN Die(s, "abort")
  ELSE OnSignal(s,
         IF s.caught = 0 THEN ReSched([ScheduleQuit(s) EXCEPT !.caught = 1])
         ELSE IF s.caught = 1 THEN ReSched([ScheduleKill(s) EXCEPT !.caught = 2])
         ELSE s)

SigTerm(s) ==
  IF s.abortOn THEN Die(s, "abort")
  ELSE OnSignal(s, ReSched(ScheduleKill(ScheduleQuit(s))))

\* The local interface stops its jobs at once and the program stops itself.
SigTstp(s) == OnSignal(s, [s EXCEPT !.stopped = TRUE])

SigCont(s, lv) ==
  OnSignal(s, LET r == [s EXCEPT !.stopped = FALSE]
              IN  ReSched(CheckStartTasks(CheckStartExchange(r), lv)))

----------------------------------------------------------------------------
(* The schedule timer, _schedule(), and the load poll timer *)

ActuallyQuit(s, status) ==
  ReSched([s EXCEPT !.quitStep = 1, !.status = status])

\* _DestructCleanup() deletes source and interface.
DestructCleanup(s) ==
  Check(s, s.srcPend = "ANone" /\ RunningJobs(s) = 0 /\ ~AreThereJobsRunning(s))

\* The countdown to fdmanager()->Quit().
QuitCountdown(s) ==
  LET r == IF s.quitStep = 2 THEN DestructCleanup(s) ELSE s
  IN  [r EXCEPT !.quitStep = @ + 1]

StartProcessing(s) ==
  LET r == [s EXCEPT !.tid0 = FALSE, !.started = TRUE]
  IN  IF MustConnect(r) THEN TSConnect(r) ELSE ActuallyQuit(r, 0)

KillJobs(s) ==
  IF s.killTasks THEN [TermAllJobs(s, "UserIntr") EXCEPT !.killTasks = FALSE]
  ELSE s

\* LaunchTask() of the scheduled task: it moves to proc, or to done if the
\* fork failed; then the next start is looked for.
LaunchScheduled(s, forked, lv) ==
  LET t  == s.sfs
      up == Dequeue(KillScheduledForStart(ForkJob(s, t)), t)
      r  == IF forked THEN [up EXCEPT !.proc = @ \cup {t}]
            ELSE KillScheduledForStart(HandleFailedTask(ForkFailed(s, t), t, lv))
  IN  IF s.sfs # NoTask /\ s.load THEN CheckStartTasks(r, lv) ELSE s

\* Mutation: done is not looked at.
MayQuit_DoneLeft(s) ==
  /\ ~AreThereJobsRunning(s) /\ AllIdle(s)
  /\ ~s.connected /\ s.pending = "ANone"

\* Nothing runs, nothing is queued, the source is disconnected.
MayQuit(s) ==
  /\ ~AreThereJobsRunning(s) /\ AllIdle(s) /\ s.done = <<>>
  /\ ~s.connected /\ s.pending = "ANone"

\* Quit is scheduled: quit in order interface, task source, program.
GoOnQuitting(s) ==
  IF ~Quitting(s) THEN s
  ELSE IF AllIdle(s) /\ ~s.toldIf THEN ReSched([s EXCEPT !.toldIf = TRUE])
  ELSE IF MayQuit(s)
       THEN IF s.toldTs THEN ActuallyQuit(s, Largest(s.sq, s.sqa) - 1)
            ELSE TSDisconnect([s EXCEPT !.toldTs = TRUE], TRUE)
  ELSE IF ~s.connected THEN CheckStartExchange(s)
  ELSE IF s.pending = "ANone" THEN GetOrDoneTask(s) ELSE s

Schedule(s, forked, lv) ==
  IF s.quitStep > 0 THEN QuitCountdown(s)
  ELSE IF ~s.started THEN StartProcessing(s)
  ELSE GoOnQuitting(
         LaunchScheduled(KillJobs([s EXCEPT !.tid0 = FALSE]), forked, lv))

\* Mutation: the load permits the start, but nobody is told.
LoadPoll_Silent(s, lv) ==
  LET r == DoCheckLoad(s, lv)
  IN  IF s.sfs = NoTask THEN [s EXCEPT !.poll = FALSE]
      ELSE IF r.load THEN Check([r EXCEPT !.poll = FALSE], ~s.load)
      ELSE r

LoadPoll(s, lv) ==
  LET r == DoCheckLoad(s, lv)
  IN  IF s.sfs = NoTask THEN [s EXCEPT !.poll = FALSE]
      ELSE IF r.load THEN Check(ReSched([r EXCEPT !.poll = FALSE]), ~s.load)
      ELSE r

----------------------------------------------------------------------------
(* The end of a job, and of its driver *)

JobExited(s, t, ok, resume, lv) ==
  IF ok /\ s.killed[t] = "NotKilled"
  THEN HandleSuccessfulJob(JobSucceeded(s, t), t, lv)
  ELSE HandleFailedTask(JobFailed(s, t, resume), t, lv)

\* Mutation: waiting tasks are not looked at.
CheckStartNewJobs_Hasty(s, lv) ==
  LET r == CheckStartTasks(s, lv)
  IN  IF s.quitStep > 0 \/ s.toldIf THEN s
      ELSE IF r.sqa > 0 /\ r.done = <<>>
           THEN ReSched([r EXCEPT !.sq = Largest(@, r.sqa)])
           ELSE r

\* CheckStartNewJobs(0), called when a driver unregisters.
CheckStartNewJobs(s, lv) ==
  LET r == CheckStartTasks(s, lv)
  IN  IF s.quitStep > 0 \/ s.toldIf THEN s
      ELSE IF r.sfs = NoTask /\ r.sqa > 0 /\ TodoEmpty(r) /\ r.done = <<>>
           THEN ReSched([r EXCEPT !.sq = Largest(@, r.sqa)])
           ELSE r

\* The main loop deletes the drivers that called DeleteMe().
TidyUp(s, lv) == CheckStartNewJobs([s EXCEPT !.dead = {}], lv)
=============================================================================
