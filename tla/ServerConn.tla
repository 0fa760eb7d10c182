----------------------------- MODULE ServerConn -----------------------------
(***************************************************************************)
(* The client's end of a connection: class TaskSource_LDR_ServerConn, the   *)
(* task source around it (TaskSource_LDR) and the client's task manager as  *)
(* far as it talks to them.  The manager's jobs are one part long here.     *)
(* Every operator is a member function as a map from the record before to   *)
(* the record after.                                                        *)
(***************************************************************************)
EXTENDS LdrPackets, SequencesExt

FreeTri == [task |-> NoTask, resp |-> "none", act |-> "None", n |-> 0]
FreeTdi == [task |-> NoTask, act |-> "None", n |-> 0]

\* Members of the connection: tri (the task being received), tdi (the task
\* being reported), out, lock, send, outsched (outpump_scheduled).  Of the
\* source: dts (done_task_status), cur (current_done_task), take
\* (active_taketask), srec (recovering), tsQuit, timer (rtid is armed).  Of
\* the manager: the queues, run (how the job ended), dsmt
\* (dont_start_more_tasks), first (ts_done_all_first), stopped, mrec
\* (recovering), toldIf, toldTs, conn (connected_to_tsource), sched (tid0 is
\* armed), assert (no assertion failed).  pend is pending_action of the
\* manager and pending of the source: they are set and cleared together.
Client0 ==
  [open |-> FALSE, tri |-> FreeTri, tdi |-> FreeTdi, out |-> NoPacket,
   lock |-> FALSE, send |-> <<>>, outsched |-> FALSE,
   dts |-> 0, cur |-> NoTask, take |-> NoTask, srec |-> 0, tsQuit |-> FALSE,
   timer |-> FALSE,
   todo |-> <<>>, proc |-> {}, done |-> <<>>,
   run |-> [t \in Tasks |-> "unset"],
   dsmt |-> FALSE, first |-> FALSE, stopped |-> FALSE, mrec |-> FALSE,
   toldIf |-> FALSE, toldTs |-> FALSE, pend |-> "None", conn |-> FALSE,
   sched |-> FALSE, why |-> "none", assert |-> TRUE]

Check(k, ok)  == [k EXCEPT !.assert = @ /\ ok]
Arm(k)        == [k EXCEPT !.timer = TRUE]       \* _StartSchedTimer()
ReSched(k)    == [k EXCEPT !.sched = TRUE]
InQueue(q)    == {q[i] : i \in DOMAIN q}

\* DoneRemoveEntry(): the queue q without the entry x that was sent.
WithoutFirst(q, x) ==
  LET i == CHOOSE i \in DOMAIN q : q[i] = x /\ \A j \in 1..(i - 1) : q[j] # x
  IN  [j \in 1..(Len(q) - 1) |-> IF j < i THEN q[j] ELSE q[j + 1]]

\* Every CompleteTask the client has.
Has(k) == InQueue(k.todo) \cup k.proc \cup InQueue(k.done)
          \cup ({k.cur, k.tri.task} \ {NoTask})

\* PrintWorkCycleStart() and, when the challenge is answered, NowConnected.
ServerHasNowAuthenticated(k) ==
  [Check(k, k.todo = <<>> /\ k.proc = {})
     EXCEPT !.open = TRUE, !.out = NowConnected, !.why = "none"]

----------------------------------------------------------------------------
(* cpnotify_outpump_start() and _done() *)

\* TellTaskManagerToGetTask()
TaskRequestComplete(k) ==
  Arm([Check(k, k.take = NoTask) EXCEPT !.tri.act = "Complete", !.take = k.tri.task])

\* _StartSendNextFileRequest(): one file after the other.
SendNextFileRequest(k) ==
  IF k.tri.n = Downloads[k.tri.task] THEN TaskRequestComplete(k)
  ELSE [k EXCEPT !.tri.n = @ + 1, !.out = FileRequest(k.tri.task, k.tri.n + 1)]

\* Mutation: the completion goes before the last file.
SendNextFileUploadHdr_Early(k) ==
  IF k.run[k.tdi.task] = "unset" \/ k.tdi.n + 1 >= Uploads[k.tdi.task]
  THEN [k EXCEPT !.tdi.act = "Complete", !.out = DoneComplete(k.tdi.task)]
  ELSE [k EXCEPT !.tdi.n = @ + 1, !.lock = TRUE,
                 !.out = FileUpload(k.tdi.task, k.tdi.n + 1)]

\* _SendNextFileUploadHdr(): the files of a job that ran, then the end.
SendNextFileUploadHdr(k) ==
  IF k.run[k.tdi.task] # "ok" \/ k.tdi.n = Uploads[k.tdi.task]
  THEN [k EXCEPT !.tdi.act = "Complete", !.out = DoneComplete(k.tdi.task)]
  ELSE [k EXCEPT !.tdi.n = @ + 1, !.lock = TRUE,
                 !.out = FileUpload(k.tdi.task, k.tdi.n + 1)]

ClientSends(k) ==
  LET free == k.out = NoPacket /\ k.open
      next == free /\ ~k.lock /\ k.send = <<>>
      answer == k.tri.resp # "none" /\ k.tri.act \in {"None", "Response"}
      files  == k.tri.resp = "Accepted" /\ k.tri.act = "FileReq"
  IN  CASE free /\ ~k.lock /\ k.send # <<>>
             -> [k EXCEPT !.out = ControlResponse(Head(k.send))]
        [] next /\ answer -> [k EXCEPT !.out = TaskResponse(k.tri.task, k.tri.resp)]
        [] next /\ files  -> SendNextFileRequest(k)
        [] next /\ ~answer /\ ~files /\ k.tdi.act = "SendDone"
             -> [k EXCEPT !.out = TaskDone(k.tdi.task, k.run[k.tdi.task])]
        [] next /\ ~answer /\ ~files /\ k.tdi.act = "FileSendH"
             -> SendNextFileUploadHdr(k)
        [] free /\ k.lock /\ k.tdi.act = "FileSendB" -> [k EXCEPT !.out = FileBody]
        [] OTHER -> k

\* Mutation: the task to report is kept for one more round.
TaskReportedDone_Keeps(k) == Arm([k EXCEPT !.dts = 0])

\* The server knows; the next timer tells the manager.
TaskReportedDone(k) ==
  Arm([Check(k, k.cur = k.tdi.task /\ k.pend = "DoneTask")
         EXCEPT !.dts = 0, !.cur = NoTask, !.run[k.cur] = "unset"])

\* Mutation: the timer is not armed.
ConnClose_Silent(k, why) ==
  [k EXCEPT !.open = FALSE, !.tri = FreeTri, !.tdi = FreeTdi,
            !.out = NoPacket, !.lock = FALSE, !.send = <<>>,
            !.outsched = FALSE, !.take = NoTask, !.srec = 2, !.why = why]

\* _ConnClose(), and ConnClose() of the source: recovery is ahead.
ConnClose(k, why) ==
  Arm([k EXCEPT !.open = FALSE, !.tri = FreeTri, !.tdi = FreeTdi,
                !.out = NoPacket, !.lock = FALSE, !.send = <<>>,
                !.outsched = FALSE, !.take = NoTask, !.srec = 2, !.why = why])

\* The timer that schedule_outpump_start() arms.
ScheduledSend(k) == ClientSends([k EXCEPT !.outsched = FALSE])

ClientSent(k) ==
  LET w == [k EXCEPT !.out = NoPacket]
  IN  CASE k.out.cmd = "NowConnected" -> w
        [] k.out.cmd = "TaskResponse" -> [w EXCEPT !.tri = FreeTri]
        [] k.out.cmd = "FileRequest"  -> [w EXCEPT !.tri.act = "FileRecvH"]
        [] k.out.cmd = "TaskDone"     -> [w EXCEPT !.tdi.act = "FileSendH"]
        [] k.out.cmd = "FileUpload"   -> [w EXCEPT !.tdi.act = "FileSendB"]
        [] k.out.cmd = "FileBody"     -> [w EXCEPT !.tdi.act = "FileSendH",
                                                   !.lock = FALSE]
        [] k.out.cmd = "DoneComplete" ->
             [TaskReportedDone(w) EXCEPT !.tdi = FreeTdi]
        [] k.out.cmd = "ControlResponse" ->
             LET d == [w EXCEPT !.send = WithoutFirst(@, k.out.what)]
             IN  IF k.out.what = "ClientQuit" THEN ConnClose(d, "quit") ELSE d

----------------------------------------------------------------------------
(* The client's task manager: the exchange with the source *)

CanDone(k) ==
  ~k.stopped /\ (k.done # <<>> \/ (k.dsmt /\ k.todo # <<>>))

\* TSDoneTask(): the first of done, else (dsmt) the first of todo.
GiveBack(k) ==
  LET d == [k EXCEPT !.pend = "DoneTask", !.dts = 1]
  IN  Arm(IF k.done # <<>>
          THEN [d EXCEPT !.cur = Head(k.done), !.done = Tail(@)]
          ELSE [d EXCEPT !.cur = Head(k.todo), !.todo = Tail(@), !.first = FALSE])

GetOrDoneTask(k) ==
  LET c == Check(k, k.conn /\ k.pend = "None")
  IN  IF CanDone(k) THEN GiveBack(Check(c, k.cur = NoTask /\ k.dts = 0))
      ELSE Arm([c EXCEPT !.pend = "Disconnect"])

MustConnect(k) ==
  \/ (k.dsmt \/ k.first) /\ CanDone(k)
  \/ Len(k.done) >= DoneHigh
  \/ ~k.dsmt /\ Len(k.todo) < TodoLow
  \/ k.todo = <<>> /\ k.proc = {} /\ k.done # <<>> /\ k.dsmt

CheckStartExchange(k) ==
  IF k.conn \/ k.pend = "Connect" \/ k.stopped \/ ~MustConnect(k) THEN k
  ELSE Arm([Check(k, k.pend = "None") EXCEPT !.pend = "Connect"])

\* srcDisconnect(2) and DontWantMoreTasks(): the server is told.
NoMoreNewTasks(k) ==
  IF k.open /\ ~k.tsQuit /\ k.srec = 0
  THEN ClientSends([k EXCEPT !.send = <<NoMoreTasks>> \o @])
  ELSE k

DontStartMoreTasks(k) == [NoMoreNewTasks(k) EXCEPT !.dsmt = TRUE]

\* _TakeFreshTask(): a task nobody wants any more goes right back.
TakeFreshTask(k, t) ==
  LET q == [k EXCEPT !.todo = Append(@, t)]
  IN  IF k.dsmt THEN CheckStartExchange(DontStartMoreTasks(q)) ELSE q

\* LaunchTask() of the first task in todo.
JobStarted(k) ==
  CheckStartExchange([k EXCEPT !.proc = @ \cup {Head(k.todo)}, !.todo = Tail(@)])

\* HandleSuccessfulJob() and HandleFailedTask()
JobDone(k, t, v) ==
  LET e == CheckStartExchange([k EXCEPT !.proc = @ \ {t}, !.run[t] = v,
                                        !.done = Append(@, t)])
      f == IF v = "failed" THEN [e EXCEPT !.first = @ \/ e.conn] ELSE e
  IN  IF k.mrec THEN ReSched(f) ELSE f

GiveBackTasks(k) ==
  CheckStartExchange([k EXCEPT !.done = @ \o Reverse(k.todo), !.todo = <<>>,
                               !.first = TRUE])

\* tsnotify(AActive) for a simple command
ExecCommand(k, cmd) ==
  LET c == Check(k, ~k.toldTs)
  IN  CASE cmd = "Kill"     -> DontStartMoreTasks(c)
        [] cmd = "StopJobs" -> [c EXCEPT !.stopped = TRUE]
        [] cmd = "ContJobs" -> ReSched(CheckStartExchange([c EXCEPT !.stopped = FALSE]))
        [] cmd = "GiveBackTasks" -> GiveBackTasks(c)
        [] cmd = "ClientQuit" -> k

----------------------------------------------------------------------------
(* What the server says: cpnotify_inpump() *)

\* More tasks than announced are refused.
ParseTaskRequest(k, p) ==
  IF k.tri.resp # "none" \/ k.tri.task # NoTask THEN ConnClose(k, "protocol")
  ELSE IF Len(k.todo) >= TodoHigh + NJobs
  THEN [k EXCEPT !.tri.resp = "TooManyTasks", !.tri.task = p.task]
  ELSE [k EXCEPT !.tri = [task |-> p.task, resp |-> "Accepted",
                          act |-> "FileReq", n |-> 0]]

\* fault: the file cannot be created.
ParseFileDownload(k, p, fault) ==
  IF k.tri.task # p.task \/ k.tri.act # "FileRecvH" \/ k.tri.n # p.n
  THEN ConnClose(k, "protocol")
  ELSE IF fault THEN ConnClose(k, "file")
  ELSE [k EXCEPT !.tri.act = "FileRecvB"]

\* Mutation: the command is executed, but not answered.
ParseCommandRequest_Silent(k, p) == ExecCommand(k, p.what)

\* The command is executed and its answer queued.
ParseCommandRequest(k, p) ==
  EntryProcessed(ExecCommand(k, p.what), p.what)

DownloadDone(k) == [k EXCEPT !.tri.act = "FileReq"]

ReceiveOnClient(k, p, fault) ==
  LET body == k.tri.act = "FileRecvB"
      n == CASE body # (p.cmd = "FileBody")      -> ConnClose(k, "protocol")
             [] body /\ p.cmd = "FileBody"       -> DownloadDone(k)
             [] ~body /\ p.cmd = "TaskRequest"   -> ParseTaskRequest(k, p)
             [] ~body /\ p.cmd = "FileDownload"  -> ParseFileDownload(k, p, fault)
             [] ~body /\ p.cmd = "ControlRequest" -> ParseCommandRequest(k, p)
  IN  ClientSends(n)

----------------------------------------------------------------------------
(* The source's timer: timernotify() *)

\* _ProcessDoneTask(): without a server the task is lost.
ProcessDoneTask(k) ==
  IF k.cur # NoTask /\ k.open
  THEN [Check(k, k.tdi.task = NoTask) EXCEPT !.dts = 2, !.outsched = TRUE,
         !.tdi = [task |-> k.cur, act |-> "SendDone", n |-> 0]]
  ELSE GetOrDoneTask([Check(k, k.cur = NoTask \/ k.srec > 0) EXCEPT
         !.dts = 0, !.cur = NoTask, !.pend = "None",
         !.run = [t \in Tasks |-> IF t = k.cur THEN "unset" ELSE @[t]]])

\* The answer to the manager's request.
ReportPending(k) ==
  CASE k.pend = "Connect" -> GetOrDoneTask([k EXCEPT !.conn = TRUE, !.pend = "None"])
    [] k.pend = "DoneTask" /\ k.dts # 2 -> ProcessDoneTask(k)
    [] k.pend = "Disconnect" /\ ~k.tsQuit
         -> LET d == [k EXCEPT !.conn = FALSE, !.pend = "None"]
            IN  IF k.mrec THEN ReSched(d) ELSE d
    [] OTHER -> k

\* TaskManagerGotTask(): now the server gets its answer.
HandOver(k) ==
  LET g == TakeFreshTask([k EXCEPT !.take = NoTask], k.take)
  IN  IF k.take = NoTask THEN k
      ELSE [g EXCEPT !.tri.act = "Response", !.outsched = TRUE]

\* _QuitOrBeginRecovery(): the running jobs are killed.
BeginRecovery(k) ==
  IF k.srec # 2 THEN k
  ELSE LET r == Check([k EXCEPT !.srec = 1], ~k.toldTs)
       IN  ReSched([DontStartMoreTasks(r) EXCEPT !.mrec = TRUE])

\* The manager told us to quit: it has disconnected, too.
QuitOkay(k) ==
  IF k.tsQuit /\ k.toldTs /\ k.pend = "Disconnect"
  THEN ReSched([k EXCEPT !.conn = FALSE, !.pend = "None"]) ELSE k

TimerNotify(k) ==
  QuitOkay(BeginRecovery(HandOver(ReportPending([k EXCEPT !.timer = FALSE]))))

----------------------------------------------------------------------------
(* The way through recovery: _schedule() and _DoQuit(-1) *)

\* A new work cycle; an "illegal internal state" is reported and reset.
EndRecovery(k) ==
  ReSched([k EXCEPT
        !.dsmt = FALSE, !.mrec = FALSE, !.toldIf = FALSE, !.toldTs = FALSE,
        !.first = FALSE, !.stopped = FALSE, !.srec = 0, !.tsQuit = FALSE])

\* srcDisconnect(1)
TSQuit(k) ==
  Arm([Check(k, k.pend = "None") EXCEPT
         !.toldTs = TRUE, !.tsQuit = TRUE, !.srec = 1, !.pend = "Disconnect"])

Schedule(k) ==
  LET s    == [k EXCEPT !.sched = FALSE]
      idle == k.todo = <<>> /\ k.proc = {}
  IN  IF ~k.mrec THEN s
      ELSE IF idle /\ ~k.toldIf THEN ReSched([s EXCEPT !.toldIf = TRUE])
      ELSE IF idle /\ k.done = <<>> /\ ~k.conn /\ k.pend = "None"
      THEN IF k.toldTs THEN EndRecovery(s) ELSE TSQuit(s)
      ELSE IF ~k.conn THEN CheckStartExchange(s)
      ELSE IF k.pend = "None" THEN GetOrDoneTask(s) ELSE s
=============================================================================
