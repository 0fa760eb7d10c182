---------------------------- MODULE LocalDrivers ----------------------------
(***************************************************************************)
(* The local driver interface (class TaskDriverInterface_Local) and its     *)
(* drivers (class TaskDriver): which task may be started, and what starting *)
(* a job, killing it and its end do to the task and to the bookkeeping.     *)
(* A driver that is done calls DeleteMe(); it stays in joblist, with its    *)
(* pinfo.ctsk already NULL, until the main loop tidies up ("dead").         *)
(***************************************************************************)
EXTENDS TaskData

RunningJobs(s) == s.nrun["Render"] + s.nrun["Filter"]

Jobs(s) == {t \in Frames : s.job[t] # "none"}

\* AreThereJobsRunning(): joblist is not empty.
AreThereJobsRunning(s) == Jobs(s) # {} \/ s.dead # {}

\* Mutation: schedule_quit is not looked at.
MayStart_DespiteQuit(s, t) ==
  \/ s.stage[t] = "ToBeRendered" /\ s.nrun["Render"] < MaxRender
  \/ s.stage[t] = "ToBeFiltered" /\ s.nrun["Filter"] < MaxFilter

\* With quit scheduled only a successfully rendered task may be filtered.
MayStart(s, t) ==
  /\ \/ s.stage[t] = "ToBeRendered" /\ s.nrun["Render"] < MaxRender
     \/ s.stage[t] = "ToBeFiltered" /\ s.nrun["Filter"] < MaxFilter
  /\ s.sq > 0 => s.stage[t] = "ToBeFiltered" /\ s.rtes[t].end = "Success"

GetTaskToStart(s) ==
  IF RunningJobs(s) >= NJobs THEN NoTask
  ELSE FirstIn(Todo(s), {t \in Frames : MayStart(s, t)})

\* Mutation: the filter is looked at first.
NewTask_FilterFirst(s, t) ==
  [s EXCEPT !.stage[t] =
     IF t \in FilterFrames THEN "ToBeFiltered" ELSE "ToBeRendered"]

\* DealWithNewTask(): what has to be done first.
NewTask_SetUpState(s, t) ==
  [s EXCEPT !.stage[t] =
     IF t \in RenderFrames THEN "ToBeRendered" ELSE "ToBeFiltered"]

\* _DoLaunchTask() and LaunchTask(), the fork succeeded: estat ESRunning,
\* esdetail EDLaunched.
ForkJob(s, t) ==
  [s EXCEPT !.job[t] = "launched", !.nrun[KindOf(s, t)] = @ + 1]

\* _HandleFailedJob(): store the failure in the part that failed.
StoreFailure(s, t, tes) ==
  IF s.stage[t] = "ToBeRendered" THEN [s EXCEPT !.rtes[t] = tes]
                                 ELSE [s EXCEPT !.ftes[t] = tes]

\* Mutation: uncount a job that was never counted.
ForkFailed_Uncounts(s, t) ==
  [StoreFailure(s, t, [Unset EXCEPT !.end = "Failed"])
     EXCEPT !.dead = @ \cup {"unforked"}, !.nrun[KindOf(s, t)] = @ - 1]

\* The fork failed: the driver wants to be deleted, running_jobs is untouched.
ForkFailed(s, t) ==
  [StoreFailure(s, t, [Unset EXCEPT !.end = "Failed"])
     EXCEPT !.dead = @ \cup {"unforked"}]

\* IAmDone(), the part both outcomes share.
JobGone(s, t) ==
  [s EXCEPT !.job[t] = "none", !.killed[t] = "NotKilled",
            !.dead = @ \cup {"forked"}, !.nrun[KindOf(s, t)] = @ - 1]

\* IAmDone(), EDSuccess: go on to the filter or be done.
JobSucceeded(s, t) ==
  LET tes == [Unset EXCEPT !.end = "Success"]
      r   == JobGone(s, t)
  IN  IF s.stage[t] = "ToBeRendered"
      THEN [r EXCEPT !.rtes[t] = tes,
                     !.stage[t] = IF t \in FilterFrames THEN "ToBeFiltered"
                                                        ELSE "TaskDone"]
      ELSE [r EXCEPT !.ftes[t] = tes, !.stage[t] = "TaskDone"]

\* IAmDone(), EDFailed; resume: a killed renderer left an unfinished image
\* the next run can continue (OFS_Resume).
JobFailed(s, t, resume) ==
  StoreFailure(JobGone(s, t), t,
               [end |-> "Failed", jk |-> s.killed[t], resume |-> resume])

\* KillProcess(): SIGTERM, and the reason replaces what was in rflags.
KillProcess(s, t, reason) == [s EXCEPT !.killed[t] = reason]

\* Mutation: jobs whose exec has not been noticed yet are left out.
TermAllJobs_RunningOnly(s, reason) ==
  IF "forked" \in s.dead THEN Die(s, "nulltask")
  ELSE [s EXCEPT !.killed =
          [t \in Frames |-> IF s.job[t] = "running" THEN reason ELSE @[t]]]

\* TermAllJobs(): KillProcess() on every driver in joblist that has a pid.
\* One that is done already has no task, and KillProcess() reads its frame
\* number.
TermAllJobs(s, reason) ==
  IF "forked" \in s.dead THEN Die(s, "nulltask")
  ELSE [s EXCEPT !.killed =
          [t \in Frames |-> IF t \in Jobs(s) THEN reason ELSE @[t]]]
=============================================================================
