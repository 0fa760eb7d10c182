----------------------------- MODULE LdrManager -----------------------------
(***************************************************************************)
(* The task manager of an LDR server, with the driver interface of module   *)
(* LdrFarm and a passive task source.  It shares its program text with the  *)
(* manager of module TaskManager; here are the members and branches that    *)
(* matter with clients: todo is one list, tasks come back unprocessed, the  *)
(* interface quits and stops in steps, and njobs goes up and down.          *)
(***************************************************************************)
EXTENDS LdrFarm

Larger(a, b) == IF a > b THEN a ELSE b

ReSched(s) == [s EXCEPT !.tid0 = TRUE]
KillScheduledForStart(s) == [s EXCEPT !.sfs = NoTask]

Halted(s)   == s.ess \in {"Stopping", "Stopped"}
Quitting(s) == s.sq > 0 \/ s.sqa > 0
Idle(s)     == s.todo = <<>> /\ s.proc = <<>>

ScheduleForStart(g) ==
  IF g.task = NoTask THEN g.s ELSE ReSched([g.s EXCEPT !.sfs = g.task])

\* There is no load control on a server.
CheckStartTasks(s) ==
  IF s.dsmt \/ Halted(s) \/ s.sfs # NoTask THEN s
  ELSE ScheduleForStart(GetTaskToStart(s))

----------------------------------------------------------------------------
(* The exchange with the task source *)

\* A request to the source; it answers from its own timer.
Ask(s, action) ==
  [Check(s, s.pending = "ANone") EXCEPT !.pending = action]

\* The task given back unprocessed when done is empty.
SpecialDone(s) ==
  FirstOf(s.todo, {t \in Frames : s.dsmt \/ (s.sq > 0 /\ ~Processed(s, t))})

CanDoneTask(s) == ~Halted(s) /\ (s.done # <<>> \/ SpecialDone(s) # NoTask)

CanGetTask(s) ==
  /\ ~s.dsmt /\ ~Halted(s) /\ ~Quitting(s)
  /\ ~(s.tdaf /\ CanDoneTask(s))
  /\ Len(s.todo) < TodoHigh

MustConnect(s) ==
  \/ (s.dsmt \/ s.sq > 0 \/ s.tdaf) /\ CanDoneTask(s)
  \/ Len(s.done) >= DoneHigh
  \/ ~Quitting(s) /\ ~s.dsmt /\ Len(s.todo) < TodoLow
  \/ Idle(s) /\ s.done # <<>> /\ (s.sqa > 0 \/ s.dsmt)

MayConnect(s) == ~s.connected /\ s.pending # "AConnect" /\ ~Halted(s)

\* Mutation: a request or a connection there is already is not looked at.
CheckStartExchange_Again(s) ==
  IF ~Halted(s) /\ MustConnect(s) THEN Ask(s, "AConnect") ELSE s

CheckStartExchange(s) ==
  IF MayConnect(s) /\ MustConnect(s) THEN Ask(s, "AConnect") ELSE s

GiveBackDone(s) ==
  Ask([s EXCEPT !.done = Tail(@), !.srcDone = Head(s.done)], "ADoneTask")

GiveBackSpecial(s) ==
  LET t == SpecialDone(s)
  IN  Ask([s EXCEPT !.todo = Without(@, t), !.srcDone = t, !.tdaf = FALSE,
                    !.sfs = IF @ = t THEN NoTask ELSE @], "ADoneTask")

\* _TS_GetOrDoneTask(): alternate between the two as far as both are possible.
GetOrDoneTask(s) ==
  LET get  == CanGetTask(s) /\ (s.tsgod = "ADoneTask" \/ ~CanDoneTask(s))
      give == CanDoneTask(s) /\ ~get
      next == IF get THEN "AGetTask" ELSE IF give THEN "ADoneTask" ELSE "ANone"
      r    == [Check(s, s.connected) EXCEPT !.tsgod = next]
  IN  CASE get  -> Ask(r, "AGetTask")
        [] give -> IF s.done # <<>> THEN GiveBackDone(r) ELSE GiveBackSpecial(r)
        [] ~get /\ ~give -> Ask(r, "ADisconnect")

----------------------------------------------------------------------------
(* What happens to tasks *)

Rendered(s) == {t \in Frames : Processed(s, t)}

\* Mutation: the tasks stay in todo, too.
DontStartMoreTasks_Copies(s) ==
  LET r == ScheduleGiveBackTasks(KillScheduledForStart(s), "none")
  IN  [r EXCEPT !.dsmt = TRUE,
                !.done = @ \o Only(s.todo, Rendered(s))]

\* The clients give back what they have not begun; what was rendered and
\* waits for its filter is regarded as done.
DontStartMoreTasks(s) ==
  LET r == ScheduleGiveBackTasks(KillScheduledForStart(s), "none")
  IN  [r EXCEPT !.dsmt = TRUE,
                !.todo = Only(@, Frames \ Rendered(s)),
                !.done = @ \o Only(s.todo, Rendered(s))]

\* In todo again, unless no task may be started any more.
BackToTodo(s, t) ==
  LET r == [s EXCEPT !.proc = Without(@, t), !.todo = <<t>> \o @]
  IN  IF s.dsmt THEN DontStartMoreTasks(r) ELSE r

ToDone(s, t) ==
  CheckStartExchange(CheckStartTasks(
    [s EXCEPT !.proc = Without(@, t), !.done = Append(@, t)]))

HandleSuccessfulJob(s, t) ==
  IF s.quitStep > 0 THEN s
  ELSE IF s.stage[t] = "TaskDone" THEN ToDone(s, t)
  ELSE CheckStartTasks(BackToTodo(s, t))

\* Failures are not counted (max_failed_in_sequence is 0).
HandleFailedTask(s, t) ==
  IF s.quitStep > 0 THEN s
  ELSE [ToDone(s, t) EXCEPT !.tdaf = @ \/ s.connected]

NotFailed(s, t) == s.rtes[t] # "failed" /\ s.ftes[t] # "failed"
AllParts(s, t) ==
  /\ t \in RenderFrames => s.rtes[t] = "ok"
  /\ t \in FilterFrames => s.ftes[t] = "ok"

\* Mutation: nobody sees to it that the task is given back.
PutBackTask_Silent(s, t) ==
  LET r == BackToTodo(Check(s, ~AllParts(s, t)), t)
  IN  IF ~NotFailed(s, t) THEN HandleFailedTask(s, t) ELSE r

\* A task a client did not do.
PutBackTask(s, t) ==
  LET r == BackToTodo(Check(s, ~AllParts(s, t)), t)
  IN  IF ~NotFailed(s, t) THEN HandleFailedTask(s, t)
      ELSE IF s.sq > 0 THEN CheckStartExchange(r) ELSE r

LaunchingTaskDone(s) == CheckStartExchange(CheckStartTasks(s))

\* DealWithNewTask() sets up the task's state.
TakeFreshTask(s, t) ==
  LET r == [s EXCEPT !.todo = Append(@, t),
                     !.stage[t] = IF t \in RenderFrames THEN "ToBeRendered"
                                  ELSE "ToBeFiltered"]
  IN  IF s.dsmt \/ Quitting(s) THEN CheckStartExchange(DontStartMoreTasks(r))
      ELSE CheckStartTasks(r)

----------------------------------------------------------------------------
(* Answers of the task source: tsnotify() *)

Answered(s) == [s EXCEPT !.pending = "ANone"]

TSConnected(s) ==
  GetOrDoneTask([Answered(s) EXCEPT !.connected = TRUE, !.tsgod = "ANone"])

TSGotTask(s, t) == GetOrDoneTask(TakeFreshTask(Answered(s), t))

TSNoMoreTasks(s) ==
  ReSched([Answered(s) EXCEPT !.sqa = Larger(@, 1), !.tight = TRUE])

TSTookDone(s) == GetOrDoneTask(Answered(s))

TSDisconnected(s) ==
  LET r == [Answered(s) EXCEPT !.connected = FALSE]
  IN  IF s.toldTs \/ Quitting(s) THEN ReSched(r) ELSE r

----------------------------------------------------------------------------
(* The way to exit *)

ActuallyQuit(s) == ReSched([Check(s, s.quitStep = 0) EXCEPT !.quitStep = 1])

\* _DestructCleanup() deletes source and interface; the interface finds that
\* it is too late to delete clients.
DestructCleanup(s) ==
  IF s.list = <<>> THEN Check(s, s.pending = "ANone") ELSE Die(s, "clients")

QuitCountdown(s) ==
  LET r == IF s.quitStep = 2 THEN DestructCleanup(s) ELSE s
  IN  [r EXCEPT !.quitStep = @ + 1]

\* CheckStartNewJobs(-1): the interface is done.
QuittingNowDone(s) ==
  IF s.quitStep > 0 THEN s
  ELSE IF Quitting(s) /\ Idle(s) THEN ReSched(s) ELSE Die(s, "leftover")

\* Nothing left to start and no more to come: quit.
QuitIfAllStarted(s) ==
  IF s.sfs = NoTask /\ s.sqa > 0 /\ s.todo = <<>> /\ s.done = <<>>
  THEN ReSched([s EXCEPT !.sq = Larger(@, s.sqa)]) ELSE s

\* CheckStartNewJobs(): njobs changed, or a client went that never counted.
CheckStartNewJobs(s, changed) ==
  IF s.quitStep > 0 \/ s.toldIf THEN s
  ELSE IF changed /\ Counted(s) = {}
  THEN ReSched([KillScheduledForStart(s) EXCEPT
                  !.sq = IF Idle(s) /\ Quitting(s) THEN @ ELSE 2])
  ELSE QuitIfAllStarted(CheckStartTasks(s))

\* ReallyStartProcessing(1): there is no client to be had.
StartFailed(s) ==
  LET r == IF s.todo # <<>> \/ s.proc # <<>>
           THEN ScheduleGiveBackTasks(s, "running") ELSE s
  IN  ReSched([r EXCEPT !.sq = 2])

\* ReallyStartProcessing(0): the first client is there.
StartProcessing(s) ==
  IF MayConnect(s) /\ ~MustConnect(s) THEN ActuallyQuit(s)
  ELSE CheckStartExchange(s)

----------------------------------------------------------------------------
(* Stop and continue, signals *)

\* ChangeExecStopStatus().  Stopped: the program stops itself.
ChangeExecStopStatus(s, ess) ==
  LET r == [s EXCEPT !.ess = ess]
  IN  CASE ess \in {"Continuing", "Running"}
             -> ReSched(CheckStartTasks(CheckStartExchange(r)))
        [] ess = "Stopping" -> KillScheduledForStart(r)
        [] ess = "Stopped"  -> r

HandleStopCont(s, stop) ==
  ChangeExecStopStatus(
    StopContTasks(s, IF stop THEN "Stopping" ELSE "Continuing"),
    IF Up(s) = {} THEN IF stop THEN "Stopped" ELSE "Running"
                  ELSE IF stop THEN "Stopping" ELSE "Continuing")

\* _CheckExecStopStatusChange() of the interface
CheckExecStopStatusChange(s) ==
  LET live  == {c \in Up(s) : s.cl[c].counted}
      moves == \E c \in live : s.cl[c].pend > 0
      has(run) == \E c \in live : s.cl[c].pend = 0 /\ s.cl[c].run = run
  IN  CASE s.ess = "Stopping" ->
             LET r == Check(s, ~has("Running") /\ ~has("Continuing"))
             IN  IF ~has("Stopping") /\ ~moves
                 THEN ChangeExecStopStatus(r, "Stopped") ELSE r
        [] s.ess = "Continuing" ->
             LET r == Check(s, ~has("Stopped") /\ ~has("Stopping"))
             IN  IF ~has("Continuing") /\ ~moves
                 THEN ChangeExecStopStatus(r, "Running")
                 ELSE IF has("Running") THEN ChangeExecStopStatus(r, "Continuing")
                 ELSE r
        [] s.ess \in {"Stopped", "Running"} ->
             Check(s, /\ ~has("Stopping") /\ ~has("Continuing") /\ ~moves
                      /\ ~has(IF s.ess = "Running" THEN "Stopped" ELSE "Running"))

\* Mutation: a task chosen before is started.
ScheduleQuit_LateStart(s) ==
  ReSched(ScheduleGiveBackTasks([s EXCEPT !.sq = Larger(@, 1)], "running"))

\* The first SIGINT: no new tasks; what is rendered may still be filtered.
ScheduleQuit(s) ==
  LET r == [s EXCEPT !.sq = Larger(@, 1),
                     !.sfs = IF @ # NoTask /\ ~Processed(s, @) THEN NoTask ELSE @]
  IN  ReSched(ScheduleGiveBackTasks(r, "running"))

\* The second one, and SIGTERM.
ScheduleKill(s) ==
  ReSched([DontStartMoreTasks(s) EXCEPT !.sq = 2, !.kill = TRUE])

OnSignal(s, handled) == IF s.quitStep > 0 THEN s ELSE handled

----------------------------------------------------------------------------
(* The schedule timer *)

\* PleaseQuit(): the clients are told to quit; those that are not there yet
\* are dropped.
PleaseQuit(s) ==
  LET r == [s EXCEPT !.noRecon = TRUE, !.trigger = FALSE, !.shallQuit = TRUE,
              !.cl = [c \in Clients |->
                CASE s.cl[c].st = "connecting" -> [s.cl[c] EXCEPT !.st = "closed"]
                  [] s.cl[c].st = "up" -> [s.cl[c] EXCEPT !.quit = TRUE, !.noMore = TRUE]
                  [] OTHER -> s.cl[c]]]
  IN  IF s.shallQuit THEN s
      ELSE IF s.list = <<>> THEN QuittingNowDone(r) ELSE r

KillJobs(s) ==
  IF s.kill THEN [TermAllJobs(s) EXCEPT !.kill = FALSE] ELSE s

\* LaunchTask(): the task goes to free_client, or with tasks enough to any
\* other one; a client that got a task is the last to get one again.
Lend(s, t, c) ==
  [s EXCEPT !.ldrc[t] = c, !.parts[t] = Parts(s, t, c),
            !.cl[c].jobs = @ + 1, !.cl[c].sending = t,
            !.list = Append(Without(@, c), c),
            !.todo = Without(@, t), !.proc = Append(@, t)]

LaunchTask(s, t, c) == IF c = Nobody THEN s ELSE Lend(s, t, c)

LaunchScheduled(s) ==
  IF s.sfs = NoTask THEN s
  ELSE CheckStartTasks(
         LaunchTask([s EXCEPT !.sfs = NoTask, !.free = Nobody], s.sfs,
           IF Fit(s, s.sfs, s.free) > 0 THEN s.free
           ELSE IF s.tight THEN Nobody ELSE FindClientForTask(s, s.sfs)))

\* Mutation: the done queue is forgotten.
AllGone_DoneLeft(s) ==
  s.list = <<>> /\ Idle(s) /\ ~s.connected /\ s.pending = "ANone"

AllGone(s) ==
  /\ s.list = <<>> /\ Idle(s) /\ s.done = <<>>
  /\ ~s.connected /\ s.pending = "ANone"

\* Quit in the order interface, task source, program.
GoOnQuitting(s) ==
  IF ~Quitting(s) THEN s
  ELSE IF Idle(s) /\ ~s.toldIf THEN [PleaseQuit(s) EXCEPT !.toldIf = TRUE]
  ELSE IF AllGone(s)
       THEN IF s.toldTs THEN ActuallyQuit(s)
            ELSE Ask([s EXCEPT !.toldTs = TRUE], "ADisconnect")
  ELSE IF ~s.connected THEN CheckStartExchange(s)
  ELSE IF s.pending = "ANone" THEN GetOrDoneTask(s) ELSE s

Schedule(s) ==
  IF s.quitStep > 0 THEN QuitCountdown(s)
  ELSE GoOnQuitting(LaunchScheduled(KillJobs([s EXCEPT !.tid0 = FALSE])))
=============================================================================
