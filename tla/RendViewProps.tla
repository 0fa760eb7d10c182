--------------------------- MODULE RendViewProps ---------------------------
(***************************************************************************)
(* What RendView promises.                                                  *)
(***************************************************************************)
EXTENDS RendView

InSeq(q) == {q[i] : i \in DOMAIN q}

\* How often task t occurs in the lists, in proc and at the source.
Count(q, t) == Cardinality({i \in DOMAIN q : q[i] = t})
Occurrences(t) ==
  Count(Todo(tm), t) + Count(tm.done, t) + (IF t \in tm.proc THEN 1 ELSE 0)
                     + (IF t = tm.srcDone THEN 1 ELSE 0)

\* No task is lost and none is queued twice: whatever the source handed out
\* and has not got back is in exactly one of todo, proc, done and the
\* source's done_task; everything else is nowhere.
TaskConservation ==
  \A t \in Frames :
    Occurrences(t) = IF t < tm.next /\ reported[t] = "no" THEN 1 ELSE 0

\* Fetching never fills the todo queue beyond its high mark, and only tasks
\* that come back from their renderer (at most one per job) exceed it.
TodoBounded ==
  /\ Len(tm.fresh) <= TodoHigh
  /\ Len(Todo(tm)) + Cardinality(tm.proc) <= TodoHigh + NJobs

\* running_jobs[] counts the processes that exist, proc lists their tasks,
\* and neither the limits on parallel jobs nor that on todo are exceeded.
JobAccounting ==
  /\ TodoBounded
  /\ Jobs(tm) = tm.proc
  /\ \A k \in Kinds :
       tm.nrun[k] = Cardinality({t \in Jobs(tm) : KindOf(tm, t) = k})
  /\ tm.nrun["Render"] <= MaxRender /\ tm.nrun["Filter"] <= MaxFilter
  /\ RunningJobs(tm) <= NJobs

\* A queue holds what its name says: todo holds no finished task, its front
\* part exactly the rendered ones, its rest untouched ones; a task whose
\* processing is over is not in todo; with dont_start_more_tasks set no
\* rendered task waits and none is scheduled.
QueueContents ==
  /\ \A t \in InSeq(tm.refilter) :
       tm.stage[t] = "ToBeFiltered" /\ tm.rtes[t].end = "Success"
                                    /\ tm.ftes[t] = Unset
  /\ \A t \in InSeq(tm.fresh) :
       tm.stage[t] # "TaskDone" /\ tm.rtes[t] = Unset /\ tm.ftes[t] = Unset
  /\ tm.sfs # NoTask => tm.sfs \in InSeq(Todo(tm))
  /\ tm.dsmt => tm.refilter = <<>> /\ tm.sfs = NoTask

\* A task scheduled for start is never forgotten: either the schedule timer
\* is armed or the load is polled.
ScheduledStartIsAwaited ==
  tm.sfs # NoTask /\ tm.quitStep = 0 =>
    IF tm.load THEN tm.tid0 ELSE tm.poll

\* No assertion of manager, interface or source fails.
NoAssertionFails == tm.crash # "assert"

\* Manager and source agree on the connection and on the outstanding request;
\* requests for tasks go over an open connection; an open connection without
\* a request is not forgotten: quit is scheduled and the schedule timer armed
\* (tsnotify() and _schedule() see to that); before _StartProcessing() and
\* after _ActuallyQuit() nothing is open, outstanding or running.
ExchangeAgrees ==
  /\ tm.pending = tm.srcPend
  /\ tm.connected = tm.srcConn
  /\ tm.srcDone # NoTask <=> tm.srcPend = "ADoneTask"
  /\ tm.srcPend \in {"AGetTask", "ADoneTask"} => tm.connected
  /\ tm.connected /\ tm.srcPend = "ANone" => Quitting(tm) /\ tm.tid0
  /\ ~tm.started \/ tm.quitStep > 0 =>
       ~tm.connected /\ tm.srcPend = "ANone" /\ Jobs(tm) = {}

\* On the way out nothing is left behind.
CleanExit ==
  tm.quitStep > 0 =>
    /\ AllIdle(tm) /\ tm.done = <<>>
    /\ ~AreThereJobsRunning(tm)
    /\ ~tm.connected /\ tm.srcPend = "ANone" /\ tm.toldTs
    /\ \A t \in Frames : t < tm.next => reported[t] # "no"

\* Status 0 of a run nobody interrupted means that every frame was worked on
\* to its end.
StatusZeroMeansAllWorkedOn ==
  tm.quitStep > 0 /\ tm.status = 0 /\ tm.caught = 0 =>
    \A t \in Frames :
      reported[t] \in {"complete", "unrendered", "unfiltered", "skipped"}

\* Too many failures in sequence end the run (HandleFailedTask()): the counter
\* exceeds its limit at most by the jobs that were running when it was reached.
FailureLimitStops ==
  MaxFailed > 0 =>
    /\ tm.failed >= MaxFailed => tm.dsmt /\ tm.sq = 2
    /\ tm.failed + Cardinality(tm.proc) < MaxFailed + NJobs

\* Once the order to kill was carried out (TermAllJobs() in _schedule()) every
\* job that still exists was killed: none slips through between fork, exec and
\* the signal, and none is started later.
KillReachesAllJobs ==
  tm.abortOn /\ ~tm.killTasks /\ tm.crash = "none" =>
    \A t \in Jobs(tm) : tm.killed[t] # "NotKilled"

Launches(t) == tm.job[t] = "none" /\ tm'.job[t] # "none"

\* With quit scheduled only rendered tasks are still started (to be
\* filtered), and with dont_start_more_tasks none.
NoNewJobsWhenQuitting ==
  [][\A t \in Frames : Launches(t) =>
       ~tm.dsmt /\ (tm.sq > 0 => t \in InSeq(tm.refilter))]_vars

\* No part of a task is run twice, and none is filtered that was not
\* rendered as it should be.
PartsRunOnceInOrder ==
  [][\A t \in Frames : Launches(t) =>
       IF KindOf(tm, t) = "Render" THEN tm.rtes[t] = Unset
       ELSE /\ tm.ftes[t] = Unset
            /\ t \in RenderFrames => tm.rtes[t].end = "Success"]_vars

----------------------------------------------------------------------------
\* Liveness

\* The program comes to its end.
EventuallyGone == <>(~Alive)

=============================================================================
