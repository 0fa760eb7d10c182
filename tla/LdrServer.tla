------------------------------ MODULE LdrServer ------------------------------
(***************************************************************************)
(* rendview in opmode "ldrserver": task manager, LDR driver interface and   *)
(* local task source under the main loop, and a farm of clients that        *)
(* connect, take and return tasks, obey orders late and get lost.  What     *)
(* goes over one of the connections is in module LdrLink; here a client     *)
(* shows in what the server is told by LDRClient.                           *)
(***************************************************************************)
EXTENDS LdrManager

CONSTANTS
  Signals,     \* the signals the user may send
  MaxStops,    \* bound: how often the user stops or continues the program
  MaxLosses    \* bound: how many connections to working clients are lost

ASSUME UserAssumption ==
  /\ Signals \subseteq {"INT", "TERM", "TSTP", "CONT"}
  /\ MaxStops \in Nat /\ MaxLosses \in Nat

VARIABLES
  ldr,         \* the members of manager, interface, clients and source
  turn,        \* what the main loop does next: "fds", "manager", "tidy"
  reported,    \* history: what the source was told about each frame
  nStops, nLosses   \* history: how much of the bounds is used up

farm == <<ldr, turn, reported, nStops, nLosses>>

Bounds == UNCHANGED <<nStops, nLosses>>

\* The interface has started to connect to all the clients.
Start ==
  [todo |-> <<>>, proc |-> <<>>, done |-> <<>>,
   stage |-> [t \in Frames |-> "TaskDone"],
   rtes |-> [t \in Frames |-> "unset"], ftes |-> [t \in Frames |-> "unset"],
   ldrc |-> [t \in Frames |-> Nobody], parts |-> [t \in Frames |-> {}],
   recalled |-> {}, sfs |-> NoTask, free |-> Nobody,
   list |-> [i \in 1..NClients |-> i], cl |-> [c \in Clients |-> Connecting],
   recon |-> [c \in Clients |-> 0], trigger |-> FALSE, noRecon |-> ~Reconnects,
   started |-> FALSE, shallQuit |-> FALSE,
   dsmt |-> FALSE, sq |-> 0, sqa |-> 0, kill |-> FALSE, caught |-> 0,
   toldIf |-> FALSE, toldTs |-> FALSE, tight |-> FALSE, ess |-> "Running",
   connected |-> FALSE, pending |-> "ANone", tsgod |-> "ANone",
   tdaf |-> FALSE, next |-> 1, srcDone |-> NoTask,
   tid0 |-> FALSE, quitStep |-> 0, crash |-> "none"]

Init ==
  /\ ldr = Start /\ turn = "fds"
  /\ reported = [t \in Frames |-> "no"]
  /\ nStops = 0 /\ nLosses = 0

\* A stopped program (SIGSTOP) only gets its signals.
Alive   == ldr.crash = "none" /\ ldr.quitStep < 5
Running == Alive /\ ldr.ess # "Stopped"

----------------------------------------------------------------------------
(* Callbacks of the clients (class LDRClient) *)

\* A client more or less.
TellManager(s, changed) == IF s.started THEN CheckStartNewJobs(s, changed) ELSE s

\* The first client starts the work.
FirstOrNext(s) ==
  IF s.started THEN TellManager(s, TRUE)
  ELSE StartProcessing([s EXCEPT !.started = TRUE])

\* A client that comes when all are stopping has to stop, too.
TellHalted(s, c) == IF Halted(s) THEN QueueStopCont(s, c, "Stopping") ELSE s

SuccessfullyConnected(s, c) ==
  TellHalted(FirstOrNext([s EXCEPT !.cl[c].st = "up", !.cl[c].counted = TRUE]), c)

Disown(t, s) ==
  [PutBackTask([s EXCEPT !.ldrc[t] = Nobody, !.parts[t] = {},
                         !.recalled = @ \ {t}], t)
     EXCEPT !.cl[s.ldrc[t]].jobs = @ - 1]

DeleteMe(s, c) == [Check(s, s.cl[c].jobs = 0) EXCEPT !.cl[c].st = "closed"]

\* The tasks q are put back, the last first.
DisownAll(s, q) ==
  LET f[i \in 0..Len(q)] ==
        IF i = 0 THEN s ELSE Disown(q[Len(q) + 1 - i], f[i - 1])
  IN  f[Len(q)]

\* ClientDisconnected(): the tasks of the client are put back.
ClientDisconnected(s, c) ==
  DeleteMe(DisownAll([s EXCEPT !.free = IF @ = c THEN Nobody ELSE @],
                     Only(s.proc, Held(s, c))), c)

\* _MarkTaskFailed(): the connection is given up because of a file of task t.
MarkTaskFailed(s, t) ==
  IF t = NoTask THEN s
  ELSE [s EXCEPT !.rtes[t] = IF "render" \in s.parts[t] THEN "failed" ELSE @,
                 !.ftes[t] = IF "filter" \in s.parts[t] THEN "failed" ELSE @]

TaskLaunchResult(s, c) ==
  LaunchingTaskDone([s EXCEPT !.cl[c].keep = "unsent", !.cl[c].sending = NoTask])

\* What a client can say of its parts of a task; unset it leaves only what it
\* was told to give back or what comes after a failure.
Outcomes(s, t) ==
  {o \in [render : {"unset", "ok", "failed"}, filter : {"unset", "ok", "failed"}] :
     /\ "render" \notin s.parts[t] => o.render = "unset"
     /\ "filter" \notin s.parts[t] => o.filter = "unset"
     /\ s.parts[t] = {"render", "filter"} /\ o.render # "ok" => o.filter = "unset"
     /\ t \notin s.recalled =>
          \/ s.parts[t] = {"render"} /\ o.render # "unset"
          \/ s.parts[t] = {"filter"} /\ o.filter # "unset"
          \/ s.parts[t] = {"render", "filter"} /\ o.render = "failed"
          \/ s.parts[t] = {"render", "filter"} /\ o.filter # "unset"}

\* _ParseDoneComplete(): the results are taken over; what they say of the
\* task's state.
ParseDoneComplete(s, t, o) ==
  [s EXCEPT
     !.rtes[t] = IF "render" \in s.parts[t] THEN o.render ELSE @,
     !.ftes[t] = IF "filter" \in s.parts[t] THEN o.filter ELSE @,
     !.stage[t] = CASE o.filter = "ok" -> "TaskDone"
                    [] o.filter # "ok" /\ o.render = "ok"
                         -> IF t \in FilterFrames THEN "ToBeFiltered" ELSE "TaskDone"
                    [] o.filter # "ok" /\ o.render # "ok" -> @,
     !.cl[s.ldrc[t]].jobs = @ - 1,
     !.ldrc[t] = Nobody, !.parts[t] = {}, !.recalled = @ \ {t}]

\* _HandleTaskTermination(): by what the client did of its parts.
HandleTaskTermination(s, t, did) ==
  CASE "failed" \in did -> HandleFailedTask(s, t)
    [] "failed" \notin did /\ "ok" \in did -> HandleSuccessfulJob(s, t)
    [] did = {"unset"} -> PutBackTask(s, t)

\* The last of the answers that are due settles the client.
Settle(s, c) ==
  [Check(s, s.cl[c].run \in {"Stopping", "Continuing"}) EXCEPT
     !.cl[c].run = IF @ = "Stopping" THEN "Stopped" ELSE "Running"]

HandleControlCommandResponse(s, c) ==
  IF s.cl[c].pend > 1 THEN [s EXCEPT !.cl[c].pend = @ - 1]
  ELSE CheckExecStopStatusChange(Settle([s EXCEPT !.cl[c].pend = 0], c))

\* Mutations: the interface keeps its next client; the others' stopping or
\* continuing is not looked at.
UnregisterLDRClient_KeepsFree(s, c) ==
  [CheckExecStopStatusChange(
     TellManager([s EXCEPT !.list = Without(@, c), !.cl[c].counted = FALSE],
                 s.cl[c].counted)) EXCEPT !.cl[c] = NoClient]

UnregisterLDRClient_Unsettled(s, c) ==
  [TellManager([s EXCEPT !.list = Without(@, c), !.free = Nobody,
                         !.cl[c].counted = FALSE],
               s.cl[c].counted) EXCEPT !.cl[c] = NoClient]

TriggerReconnect(s, c) ==
  IF s.noRecon THEN s
  ELSE [s EXCEPT !.recon[c] = IF s.trigger THEN 2 ELSE 1, !.trigger = TRUE]

\* Was that the last client?
CheckLastClient(s) ==
  CASE s.started /\ s.shallQuit /\ Counted(s) = {} -> QuittingNowDone(s)
    [] ~s.started /\ s.list = <<>> -> StartFailed([s EXCEPT !.started = TRUE])
    [] OTHER -> s

\* UnregisterLDRClient(), called by the destructor of the client.
UnregisterLDRClient(s, c) ==
  [CheckLastClient(TriggerReconnect(CheckExecStopStatusChange(
     TellManager([s EXCEPT !.list = Without(@, c), !.free = Nobody,
                           !.cl[c].counted = FALSE],
                 s.cl[c].counted)), c)) EXCEPT !.cl[c] = NoClient]

----------------------------------------------------------------------------
(* What the clients do *)

\* An event on a connection.
Event(s) ==
  /\ Running /\ turn = "fds"
  /\ ldr' = s
  /\ UNCHANGED <<turn, reported, nStops>>

ClientConnects(c) ==
  /\ ldr.cl[c].st = "connecting"
  /\ Event(SuccessfullyConnected(ldr, c)) /\ UNCHANGED nLosses

\* Refused, or timed out.
ClientFails(c) ==
  /\ ldr.cl[c].st = "connecting"
  /\ Event(ClientDisconnected(ldr, c)) /\ UNCHANGED nLosses

ClientAccepts(c) ==
  /\ ldr.cl[c].st = "up" /\ ldr.cl[c].sending # NoTask
  /\ Event(TaskLaunchResult(ldr, c)) /\ UNCHANGED nLosses

ClientReports(t) ==
  /\ ldr.ldrc[t] # Nobody
  /\ ldr.cl[ldr.ldrc[t]].sending # t
  /\ \E o \in Outcomes(ldr, t) :
       Event(HandleTaskTermination(ParseDoneComplete(ldr, t, o), t,
               {o[k] : k \in ldr.parts[t]}))
  /\ UNCHANGED nLosses

ClientResponds(c) ==
  /\ ldr.cl[c].st = "up" /\ ldr.cl[c].pend > 0
  /\ Event(HandleControlCommandResponse(ldr, c)) /\ UNCHANGED nLosses

ClientQuits(c) ==
  /\ ldr.cl[c].st = "up" /\ ldr.cl[c].quit
  /\ Event(ClientDisconnected(ldr, c)) /\ UNCHANGED nLosses

\* The connection is lost, or given up (_KickMe()), maybe because of a task.
ClientIsLost(c) ==
  /\ ldr.cl[c].st = "up" /\ nLosses < MaxLosses
  /\ \E t \in Held(ldr, c) \cup {NoTask} :
       Event(ClientDisconnected(MarkTaskFailed(ldr, t), c))
  /\ nLosses' = nLosses + 1

----------------------------------------------------------------------------
(* The main loop *)

\* Timers fire when the objects that called DeleteMe() are gone.
TimersAreDue == Running /\ turn = "fds" /\ Closed(ldr) = {}

TidyUp(c) ==
  /\ Running /\ turn \in {"fds", "tidy"} /\ c \in Closed(ldr)
  /\ ldr' = UnregisterLDRClient(ldr, c)
  /\ turn' = IF Closed(ldr') = {} THEN "fds" ELSE "tidy"
  /\ UNCHANGED reported /\ Bounds

\* The interface's reconnect timer: clients lost since it fired last have to
\* wait for the next time.
Reconnect ==
  /\ TimersAreDue /\ ldr.trigger
  /\ LET again == {c \in Clients : ldr.recon[c] = 1}
     IN  ldr' = [ldr EXCEPT
           !.recon = [c \in Clients |-> IF @[c] = 2 THEN 1 ELSE 0],
           !.cl = [c \in Clients |-> IF c \in again THEN Connecting ELSE @[c]],
           !.list = @ \o Only([c \in Clients |-> c], again),
           !.trigger = \E c \in Clients : ldr.recon[c] = 2]
  /\ UNCHANGED <<turn, reported>> /\ Bounds

SourceAnswers(action, s) ==
  /\ TimersAreDue /\ ldr.pending = action
  /\ ldr' = IF ldr.quitStep > 0 THEN Answered(ldr) ELSE s
  /\ turn' = IF ldr'.tid0 THEN "manager" ELSE "fds"
  /\ Bounds

SourceConnects == SourceAnswers("AConnect", TSConnected(ldr)) /\ UNCHANGED reported

SourceHandsOut ==
  /\ ldr.next <= NFrames
  /\ SourceAnswers("AGetTask",
                   TSGotTask([ldr EXCEPT !.next = @ + 1], ldr.next))
  /\ UNCHANGED reported

SourceHasNoMore ==
  /\ ldr.next > NFrames
  /\ SourceAnswers("AGetTask", TSNoMoreTasks(ldr))
  /\ UNCHANGED reported

\* What the source learns from a task that comes back.
Verdict(s, t) ==
  CASE s.stage[t] = "TaskDone" -> "complete"
    [] s.stage[t] # "TaskDone" /\ s.rtes[t] = "failed" -> "unrendered"
    [] s.stage[t] # "TaskDone" /\ s.ftes[t] = "failed" -> "unfiltered"
    [] NotFailed(s, t) /\ Processed(s, t) -> "partly"
    [] NotFailed(s, t) /\ ~Processed(s, t) /\ s.stage[t] # "TaskDone" -> "untouched"

SourceTakesBack ==
  /\ SourceAnswers("ADoneTask", TSTookDone([ldr EXCEPT !.srcDone = NoTask]))
  /\ reported' = [reported EXCEPT ![ldr.srcDone] = Verdict(ldr, ldr.srcDone)]

SourceDisconnects ==
  SourceAnswers("ADisconnect", TSDisconnected(ldr)) /\ UNCHANGED reported

\* The schedule timer; the source's, if due, came first.
ManagerSchedules ==
  /\ Running /\ ldr.tid0
  /\ turn = "manager" \/ (TimersAreDue /\ ldr.pending = "ANone")
  /\ ldr' = Schedule(ldr)
  /\ turn' = IF Closed(ldr') = {} THEN "fds" ELSE "tidy"
  /\ UNCHANGED reported /\ Bounds

----------------------------------------------------------------------------
(* The user *)

Signal(sig, s) ==
  /\ Alive /\ sig \in Signals
  /\ ldr' = OnSignal(ldr, s)
  /\ UNCHANGED <<turn, reported, nLosses>>

\* SIGINT once or twice; the next signal aborts the program.
UserInterrupts ==
  /\ ldr.caught < 2
  /\ Signal("INT", [(IF ldr.caught = 0 THEN ScheduleQuit(ldr)
                     ELSE ScheduleKill(ldr)) EXCEPT !.caught = @ + 1])
  /\ UNCHANGED nStops

UserTerminates ==
  /\ ldr.caught < 2
  /\ Signal("TERM", [ScheduleKill(ldr) EXCEPT !.caught = 2])
  /\ UNCHANGED nStops

UserStops ==
  /\ nStops < MaxStops /\ ldr.ess # "Stopped"
  /\ Signal("TSTP", HandleStopCont(ldr, TRUE))
  /\ nStops' = nStops + 1

UserContinues ==
  /\ nStops < MaxStops \/ ldr.ess = "Stopped"
  /\ Signal("CONT", HandleStopCont(ldr, FALSE))
  /\ nStops' = IF nStops < MaxStops THEN nStops + 1 ELSE nStops

----------------------------------------------------------------------------
ClientEvents ==
  \E c \in Clients :
    \/ ClientConnects(c) \/ ClientFails(c) \/ ClientAccepts(c)
    \/ ClientResponds(c) \/ ClientQuits(c) \/ ClientIsLost(c)

MainLoop ==
  \/ \E c \in Clients : TidyUp(c)
  \/ SourceConnects \/ SourceHandsOut \/ SourceHasNoMore
  \/ SourceTakesBack \/ SourceDisconnects
  \/ ManagerSchedules

Next ==
  \/ ClientEvents
  \/ \E t \in Frames : ClientReports(t)
  \/ MainLoop
  \/ Reconnect
  \/ UserInterrupts \/ UserTerminates \/ UserStops \/ UserContinues

Spec == Init /\ [][Next]_farm

\* When the handlers are enabled.
MainLoopIsDue ==
  Running /\ (Closed(ldr) # {} \/ ldr.pending # "ANone" \/ ldr.tid0)

IsBusy(c) ==
  /\ Running /\ turn = "fds"
  /\ \/ ldr.cl[c].st = "connecting"
     \/ /\ ldr.cl[c].st = "up"
        /\ \/ ldr.cl[c].pend > 0 \/ ldr.cl[c].quit
           \/ ldr.cl[c].sending # NoTask \/ Held(ldr, c) # {}

Works(c) ==
  \/ ClientConnects(c) \/ ClientFails(c) \/ ClientAccepts(c)
  \/ ClientResponds(c) \/ ClientQuits(c)
  \/ \E t \in Held(ldr, c) : ClientReports(t)

\* The loop keeps turning; a client does what it has to: its connection
\* attempt ends one way or the other, it answers what it is asked, and its jobs
\* end; the user continues what he has stopped.  (Weak fairness, written with
\* the conditions above: TLC takes far too long for ENABLED of these handlers.)
Fairness ==
  /\ []<>~MainLoopIsDue \/ []<><<MainLoop>>_farm
  /\ WF_farm(Reconnect)
  /\ \A c \in Clients : []<>~IsBusy(c) \/ []<><<Works(c)>>_farm
  /\ []<>(ldr.ess # "Stopped") \/ []<><<UserContinues>>_farm

FairSpec == Spec /\ Fairness
=============================================================================
