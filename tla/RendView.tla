------------------------------ MODULE RendView ------------------------------
(***************************************************************************)
(* rendview in opmode "rendview": task manager, local driver interface and  *)
(* local task source under the main loop (FDManager).  The loop works in    *)
(* rounds: it delivers pending signals, then fires the timers that are due, *)
(* the task source's before the manager's, and at the end of a round it     *)
(* deletes the objects that called DeleteMe().  Signals (SIGCHLD, i.e. the  *)
(* end of jobs, included) and the news that an exec succeeded come at any   *)
(* point between two callbacks.                                            *)
(***************************************************************************)
EXTENDS TaskManager

CONSTANTS
  Faults,    \* what the environment may do wrong, of AllFaults
  Signals    \* the signals the user may send, of AllSignals

AllFaults  == {"launch", "exec", "exit", "timeout", "get"}
AllSignals == {"INT", "TERM", "TSTP", "CONT"}

ASSUME EnvironmentAssumption ==
  Faults \subseteq AllFaults /\ Signals \subseteq AllSignals

VARIABLES
  tm,        \* the members of manager, driver interface and task source
  turn,      \* whose 0 msec timer this round of the main loop looks at next
  reported   \* history: what the source was told about each frame

vars == <<tm, turn, reported>>

Turns    == {"source", "manager", "tidy"}
Verdicts == {"no", "skipped", "complete", "partly", "unrendered",
             "unfiltered", "untouched"}

TypeOK ==
  /\ tm \in Members
  /\ turn \in Turns
  /\ reported \in [Frames -> Verdicts]

Init ==
  /\ tm = Fresh
  /\ turn = "manager"
  /\ reported = [f \in Frames |-> "no"]

\* The process exists; a stopped one (SIGSTOP) only gets its signals.
Alive   == tm.crash = "none" /\ tm.quitStep < 5
Running == Alive /\ ~tm.stopped

----------------------------------------------------------------------------
(* Timers *)

SourceTurn(pend) == Running /\ turn = "source" /\ tm.srcPend = pend

\* The round goes on with the manager's timer if that is armed.
AfterSource ==
  turn' = IF tm'.tid0 THEN "manager"
          ELSE IF tm'.dead = {} THEN "source" ELSE "tidy"

SourceConnects ==
  /\ SourceTurn("AConnect")
  /\ tm' = TSNotify(SrcConnected(tm), TSConnected(SrcConnected(tm)))
  /\ AfterSource
  /\ UNCHANGED reported

SourceHandsOut ==
  /\ SourceTurn("AGetTask") /\ tm.next <= NFrames
  /\ \E lv \in Readings :
       tm' = TSNotify(SrcHandOut(tm), TSGotTask(SrcHandOut(tm), tm.next, lv))
  /\ AfterSource
  /\ UNCHANGED reported

SourceHasNoMore ==
  /\ SourceTurn("AGetTask") /\ tm.next > NFrames
  /\ tm' = TSNotify(SrcNoTask(tm), TSNoMoreTasks(SrcNoTask(tm)))
  /\ AfterSource
  /\ UNCHANGED reported

SourceGetFails ==
  /\ SourceTurn("AGetTask") /\ tm.next <= NFrames /\ "get" \in Faults
  /\ \E skips \in BOOLEAN :
       /\ tm' = TSNotify(SrcGetFails(tm, skips),
                         TSGetFailed(SrcGetFails(tm, skips)))
       /\ reported' = IF skips THEN [reported EXCEPT ![tm.next] = "skipped"]
                      ELSE reported
  /\ AfterSource

\* What the source learns from a task that comes back.
Verdict(s, t) ==
  IF s.stage[t] = "TaskDone" THEN "complete"
  ELSE IF s.rtes[t].end = "Failed" THEN "unrendered"
  ELSE IF s.ftes[t].end = "Failed" THEN "unfiltered"
  ELSE IF s.stage[t] = "ToBeFiltered" /\ s.rtes[t].end = "Success" THEN "partly"
  ELSE "untouched"

SourceTakesBack ==
  /\ SourceTurn("ADoneTask")
  /\ tm' = TSNotify(SrcTakeBack(tm), TSTookDone(SrcTakeBack(tm)))
  /\ reported' = [reported EXCEPT ![tm.srcDone] = Verdict(tm, tm.srcDone)]
  /\ AfterSource

SourceDisconnects ==
  /\ SourceTurn("ADisconnect")
  /\ tm' = TSNotify(SrcDisconnected(tm),
                    TSDisconnected(SrcDisconnected(tm), tm.srcQuit))
  /\ AfterSource
  /\ UNCHANGED reported

\* The manager's schedule timer; the source's timer, if armed, came first.
ManagerSchedules ==
  /\ Running /\ tm.tid0
  /\ \/ turn = "manager"
     \/ turn = "source" /\ tm.srcPend = "ANone"
  /\ \E lv \in Readings, forked \in BOOLEAN :
       /\ forked \/ "launch" \in Faults
       /\ tm' = Schedule(tm, forked, lv)
  /\ turn' = IF tm'.dead = {} THEN "source" ELSE "tidy"
  /\ UNCHANGED reported

\* TidyUp() at the end of a round.
RoundEnds ==
  /\ Running
  /\ \/ turn = "tidy"
     \/ turn = "manager" /\ ~tm.tid0
     \/ turn = "source" /\ tm.dead # {}
  /\ \E lv \in Readings :
       tm' = IF tm.dead = {} THEN tm ELSE TidyUp(tm, lv)
  /\ turn' = "source"
  /\ UNCHANGED reported

ManagerPollsLoad(lv) ==
  /\ Running /\ tm.poll
  /\ tm' = LoadPoll(tm, lv)
  /\ UNCHANGED <<turn, reported>>

----------------------------------------------------------------------------
(* Jobs *)

\* The exec pipe was closed: the child executes its program (PSExecuted).
JobExecutes(t) ==
  /\ Running /\ tm.job[t] = "launched"
  /\ \E lv \in Readings :
       tm' = LaunchingTaskDone([tm EXCEPT !.job[t] = "running"], lv)
  /\ UNCHANGED <<turn, reported>>

\* The child could not execute the program (PSFailed).
JobExecFails(t) ==
  /\ Alive /\ tm.job[t] = "launched" /\ "exec" \in Faults
  /\ \E lv \in Readings : tm' = JobExited(tm, t, FALSE, FALSE, lv)
  /\ UNCHANGED <<turn, reported>>

\* The child is dead (PSDead), maybe before its exec was noticed.
JobEnds(t) ==
  /\ Alive /\ tm.job[t] # "none"
  /\ \E ok, resume \in BOOLEAN, lv \in Readings :
       /\ ok \/ "exit" \in Faults \/ tm.killed[t] # "NotKilled"
       /\ resume => tm.killed[t] # "NotKilled" /\ KindOf(tm, t) = "Render"
       /\ tm' = JobExited(tm, t, ok, resume, lv)
  /\ UNCHANGED <<turn, reported>>

\* The driver's timeout timer.
JobTimesOut(t) ==
  /\ Running /\ tm.job[t] # "none" /\ "timeout" \in Faults
  /\ tm' = KillProcess(tm, t, "Timeout")
  /\ UNCHANGED <<turn, reported>>

----------------------------------------------------------------------------
(* The user *)

UserInterrupts ==
  /\ Alive /\ "INT" \in Signals
  /\ tm' = SigInt(tm)
  /\ UNCHANGED <<turn, reported>>

UserTerminates ==
  /\ Alive /\ "TERM" \in Signals
  /\ tm' = SigTerm(tm)
  /\ UNCHANGED <<turn, reported>>

UserStops ==
  /\ Alive /\ "TSTP" \in Signals
  /\ tm' = SigTstp(tm)
  /\ UNCHANGED <<turn, reported>>

UserContinues ==
  /\ Alive /\ "CONT" \in Signals
  /\ \E lv \in Readings : tm' = SigCont(tm, lv)
  /\ UNCHANGED <<turn, reported>>

----------------------------------------------------------------------------

\* Nothing happens in a process that is gone.
Gone == ~Alive /\ UNCHANGED vars

SourceAnswers ==
  \/ SourceConnects \/ SourceHandsOut \/ SourceHasNoMore
  \/ SourceGetFails \/ SourceTakesBack \/ SourceDisconnects

MainLoop == SourceAnswers \/ ManagerSchedules \/ RoundEnds

User == UserInterrupts \/ UserTerminates \/ UserStops \/ UserContinues

Next ==
  \/ MainLoop
  \/ \E lv \in Readings : ManagerPollsLoad(lv)
  \/ \E t \in Frames : JobExecutes(t) \/ JobExecFails(t)
                       \/ JobEnds(t) \/ JobTimesOut(t)
  \/ User
  \/ Gone

Spec == Init /\ [][Next]_vars

\* MainLoop is enabled: an answer, the schedule timer or a round's end is due.
LoopIsDue ==
  /\ Running
  /\ \/ turn # "source" \/ tm.srcPend # "ANone"
     \/ tm.tid0 \/ tm.dead # {}

\* The main loop keeps turning; running jobs end; the load goes down while a
\* start waits for it; a stopped program is continued.  The first three are
\* weak fairness with the enabling condition spelled out (each of the steps
\* changes the state), which saves TLC from evaluating ENABLED.
Fairness ==
  /\ []<>~LoopIsDue \/ []<><<MainLoop>>_vars
  /\ []<>~(Alive /\ Jobs(tm) # {}) \/ []<><<\E t \in Frames : JobEnds(t)>>_vars
  /\ []<>~(Running /\ tm.poll) \/ []<><<ManagerPollsLoad("low")>>_vars
  /\ WF_vars(tm.stopped /\ UserContinues)

FairSpec == Spec /\ Fairness
=============================================================================
