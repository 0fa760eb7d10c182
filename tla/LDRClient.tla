------------------------------ MODULE LDRClient ------------------------------
(***************************************************************************)
(* The server's end of a connection: class LDRClient, and what the server's *)
(* task list says of the tasks.  Every operator is a member function as a   *)
(* map from the record before to the record after.                          *)
(***************************************************************************)
EXTENDS LdrPackets

\* An end that is not connected.
NoTri == [task |-> NoTask, state |-> "None", n |-> 0]
NoTdi == [task |-> NoTask, state |-> "None", save |-> "unset", got |-> 0]

\* Members: auth (1: challenged, 2: connected), quit (1: queued, 2: sent, 3:
\* answered), noMore (client_no_more_tasks), jobs (assigned_jobs), tri (the
\* task being sent), tdi (the task being received; got counts its files),
\* out (the packet being written), lock (outpump_lock), the command queue,
\* list and tes of the task list, why (how the last connection ended).
Server0 ==
  [open |-> FALSE, auth |-> 0, quit |-> 0, noMore |-> FALSE, jobs |-> 0,
   tri |-> NoTri, tdi |-> NoTdi, out |-> NoPacket, lock |-> FALSE,
   send |-> <<>>, wait |-> <<>>,
   list |-> [t \in Tasks |-> "todo"], tes |-> [t \in Tasks |-> "unset"],
   why |-> "none"]

Connected(r) ==
  [Server0 EXCEPT !.open = TRUE, !.auth = 1, !.list = r.list, !.tes = r.tes,
                  !.why = r.why]

Assigned(r) == {t \in Tasks : r.list[t] = "proc"}

----------------------------------------------------------------------------
(* ClientDisconnected() and _KickMe() *)

\* Mutation: only tasks the client took over completely are put back.
PutBack_NotTheOneOnTheFly(r) ==
  [t \in Tasks |-> IF r.list[t] # "proc" \/ t = r.tri.task THEN r.list[t]
                   ELSE IF r.tes[t] = "unset" THEN "todo" ELSE "done"]

\* PutBackTask() for every task of the client: a task that was marked failed
\* is done, the others go back to todo.
PutBack(r) ==
  [t \in Tasks |-> IF r.list[t] # "proc" THEN r.list[t]
                   ELSE IF r.tes[t] = "unset" THEN "todo" ELSE "done"]

KickMe(r, why) ==
  [Server0 EXCEPT !.list = PutBack(r), !.tes = r.tes, !.why = why]

\* The same with a task that cannot be handed over or received.
KickFailed(r, t) == KickMe([r EXCEPT !.tes[t] = "failed"], "file")

----------------------------------------------------------------------------
(* cpnotify_outpump_start(): what to write next *)

\* Mutation: a command may come between a file's header and its body.
ServerSends_Unlocked(r) ==
  CASE r.out # NoPacket \/ r.quit = 2 -> r
    [] r.send # <<>> -> [r EXCEPT !.out = ControlRequest(Head(r.send))]
    [] r.send = <<>> /\ r.tri.state = "SendTaskRequest"
         -> [r EXCEPT !.out = TaskRequest(r.tri.task)]
    [] r.send = <<>> /\ r.tri.state = "SendFileDownloadH"
         -> [r EXCEPT !.out = FileDownload(r.tri.task, r.tri.n), !.lock = TRUE]
    [] r.send = <<>> /\ r.tri.state = "SendFileDownloadB"
         -> [r EXCEPT !.out = FileBody]
    [] OTHER -> r

\* Commands first, unless a body has to follow its header.
ServerSends(r) ==
  LET free == r.out = NoPacket /\ r.quit # 2
      next == ~r.lock /\ r.send = <<>>
  IN  CASE free /\ ~r.lock /\ r.send # <<>>
             -> [r EXCEPT !.out = ControlRequest(Head(r.send))]
        [] free /\ next /\ r.tri.state = "SendTaskRequest"
             -> [r EXCEPT !.out = TaskRequest(r.tri.task)]
        [] free /\ next /\ r.tri.state = "SendFileDownloadH"
             -> [r EXCEPT !.out = FileDownload(r.tri.task, r.tri.n), !.lock = TRUE]
        [] free /\ r.lock /\ r.tri.state = "SendFileDownloadB"
             -> [r EXCEPT !.out = FileBody]
        [] OTHER -> r

\* cpnotify_outpump_done(): the packet is written.
ServerSent(r) ==
  LET w == [r EXCEPT !.out = NoPacket]
      c == EntrySent(w)
  IN  CASE r.out.cmd = "TaskRequest"  -> [w EXCEPT !.tri.state = "WaitForResponse"]
        [] r.out.cmd = "FileDownload" -> [w EXCEPT !.tri.state = "SendFileDownloadB"]
        [] r.out.cmd = "FileBody"     -> [w EXCEPT !.tri.state = "WaitForResponse",
                                                   !.lock = FALSE]
        [] r.out.cmd = "ControlRequest" ->
             IF r.out.what = "ClientQuit" THEN [c EXCEPT !.quit = 2] ELSE c

----------------------------------------------------------------------------
(* What the task manager asks for *)

CanDoTask(r) ==
  /\ r.auth = 2 /\ r.jobs < TodoHigh + NJobs
  /\ r.tri.task = NoTask /\ ~r.noMore

\* Mutation: the task is not counted.
SendTaskToClient_Uncounted(r, t) ==
  ServerSends([r EXCEPT !.list[t] = "proc",
                         !.tri = [task |-> t, state |-> "SendTaskRequest", n |-> 0]])

\* LaunchTask() and SendTaskToClient()
SendTaskToClient(r, t) ==
  ServerSends([r EXCEPT !.list[t] = "proc", !.jobs = @ + 1,
                         !.tri = [task |-> t, state |-> "SendTaskRequest", n |-> 0]])

\* _DoQueueControlRequest()
SendControlRequest(r, cmd) ==
  LET q == [r EXCEPT !.send = Append(@, cmd)]
  IN  ServerSends(IF cmd = "ClientQuit" THEN [q EXCEPT !.quit = 1, !.noMore = TRUE]
                   ELSE q)

----------------------------------------------------------------------------
(* What the client says *)

ParseNowConnected(r) == [r EXCEPT !.auth = 2]

\* fault: stat() of the file fails, and the task with it.
ParseFileRequest(r, p, fault) ==
  IF r.tri.task = NoTask \/ r.tri.task # p.task \/ r.tri.state # "WaitForResponse"
  THEN KickMe(r, "protocol")
  ELSE IF fault THEN KickFailed(r, p.task)
  ELSE [r EXCEPT !.tri.state = "SendFileDownloadH", !.tri.n = p.n]

ParseTaskResponse(r, p) ==
  IF r.tri.task = NoTask \/ r.tri.task # p.task \/ r.tri.state # "WaitForResponse"
     \/ p.what # "Accepted"
  THEN KickMe(r, "protocol")
  ELSE [r EXCEPT !.tri = NoTri]

\* The execution status is kept aside until the files are here.
ParseTaskDone(r, p) ==
  IF r.tdi.task # NoTask \/ r.list[p.task] # "proc"
  THEN KickMe(r, "protocol")
  ELSE [r EXCEPT !.tdi = [task |-> p.task, state |-> "WaitForResp",
                          save |-> p.what, got |-> 0]]

\* fault: the output file cannot be opened for writing.
ParseFileUpload(r, p, fault) ==
  IF r.tdi.state # "WaitForResp" \/ r.tdi.task # p.task
  THEN KickMe(r, "protocol")
  ELSE IF fault THEN KickFailed(r, p.task)
  ELSE [r EXCEPT !.tdi.state = "UploadBody"]

\* The end of the task here, and for the task manager: one that comes back
\* unprocessed goes to todo again (PutBackTask()).
ParseDoneComplete(r, p) ==
  IF r.tdi.state # "WaitForResp" \/ r.tdi.task # p.task
  THEN KickMe(r, "protocol")
  ELSE [r EXCEPT !.tes[p.task] = r.tdi.save, !.jobs = @ - 1, !.tdi = NoTdi,
                 !.list[p.task] = IF r.tdi.save = "unset" THEN "todo" ELSE "done"]

ParseControlResponse(r, p) ==
  LET a == [r EXCEPT !.wait = Tail(@)]
  IN  CASE p.what = NoMoreTasks -> [r EXCEPT !.noMore = TRUE]
        [] p.what # NoMoreTasks /\ ~Answers(r, p.what) -> KickMe(r, "protocol")
        [] p.what = "ClientQuit" /\ Answers(r, p.what) -> [a EXCEPT !.quit = 3]
        [] OTHER -> a

\* The body of a file is complete.
UploadDone(r) == [r EXCEPT !.tdi.state = "WaitForResp", !.tdi.got = @ + 1]

\* cpnotify_inpump() and _HandleReceivedHeader()
ReceiveOnServer(r, p, fault) ==
  LET body == r.tdi.state = "UploadBody"
      n == CASE r.quit = 3 \/ body # (p.cmd = "FileBody")
                  \/ (r.auth = 1) # (p.cmd = "NowConnected") -> KickMe(r, "protocol")
             [] r.quit # 3 /\ body /\ p.cmd = "FileBody" -> UploadDone(r)
             [] r.quit # 3 /\ r.auth = 1 /\ p.cmd = "NowConnected"
                  -> ParseNowConnected(r)
             [] r.quit # 3 /\ r.auth = 2 /\ ~body /\ p.cmd = "FileRequest"
                  -> ParseFileRequest(r, p, fault)
             [] r.quit # 3 /\ r.auth = 2 /\ ~body /\ p.cmd = "TaskResponse"
                  -> ParseTaskResponse(r, p)
             [] r.quit # 3 /\ r.auth = 2 /\ ~body /\ p.cmd = "TaskDone"
                  -> ParseTaskDone(r, p)
             [] r.quit # 3 /\ r.auth = 2 /\ ~body /\ p.cmd = "FileUpload"
                  -> ParseFileUpload(r, p, fault)
             [] r.quit # 3 /\ r.auth = 2 /\ ~body /\ p.cmd = "DoneComplete"
                  -> ParseDoneComplete(r, p)
             [] r.quit # 3 /\ r.auth = 2 /\ ~body /\ p.cmd = "ControlResponse"
                  -> ParseControlResponse(r, p)
  IN  IF n.open THEN ServerSends(n) ELSE n
=============================================================================
