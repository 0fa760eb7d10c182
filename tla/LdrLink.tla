------------------------------- MODULE LdrLink -------------------------------
(***************************************************************************)
(* One LDR server, one of its clients and the TCP connection between them.  *)
(* Tasks are lent to the client, input files follow on request; the client  *)
(* reports a task as done, uploads its files and completes the report.      *)
(* Control commands overtake tasks, the connection breaks and is set up     *)
(* again, and neither side knows how far the other one got.                 *)
(***************************************************************************)
EXTENDS LDRClient, ServerConn

VARIABLES
  srv,        \* the server's end (LDRClient) and its task list
  cli,        \* the client's end (TaskSource_LDR_ServerConn) and its manager
  toClient, toServer,   \* packets written and not yet read
  cut,        \* the connection is broken, whether or not an end knows
  nCommands, nLosses    \* history: how much of the bounds is used up

link == <<srv, cli, toClient, toServer, cut, nCommands, nLosses>>

Init ==
  /\ srv = Server0 /\ cli = Client0
  /\ toClient = <<>> /\ toServer = <<>>
  /\ cut = FALSE /\ nCommands = 0 /\ nLosses = 0

\* A packet arrives unless there is nobody left to read it.
Write(ch, open, p) == IF open /\ ~cut THEN Append(ch, p) ELSE ch

Bounds == UNCHANGED <<nCommands, nLosses>>

----------------------------------------------------------------------------
(* Setting up the connection *)

\* DoConnect() of the server, the TCP accept and the challenge: the client
\* takes one server at a time and none while it recovers or is stopped.
Connect ==
  /\ ~srv.open /\ ~cli.open /\ toClient = <<>> /\ toServer = <<>>
  /\ cli.srec = 0 /\ ~cli.tsQuit /\ ~cli.stopped
  /\ srv' = Connected(srv)
  /\ cli' = ServerHasNowAuthenticated(cli)
  /\ cut' = FALSE
  /\ UNCHANGED <<toClient, toServer>> /\ Bounds

----------------------------------------------------------------------------
(* Steps of the server *)

LaunchTask(t) ==
  /\ srv.open /\ srv.list[t] = "todo" /\ CanDoTask(srv)
  /\ srv' = SendTaskToClient(srv, t)
  /\ UNCHANGED <<cli, toClient, toServer, cut>> /\ Bounds

\* The manager quits its clients only when they have no tasks left.
SendCommand(cmd) ==
  /\ srv.open /\ srv.auth = 2 /\ srv.quit = 0 /\ nCommands < MaxCommands
  /\ cmd = "ClientQuit" => srv.jobs = 0
  /\ srv' = SendControlRequest(srv, cmd)
  /\ nCommands' = nCommands + 1
  /\ UNCHANGED <<cli, toClient, toServer, cut, nLosses>>

ServerWrites ==
  /\ srv.open /\ srv.out # NoPacket
  /\ toClient' = Write(toClient, cli.open, srv.out)
  /\ srv' = ServerSends(ServerSent(srv))
  /\ UNCHANGED <<cli, toServer, cut>> /\ Bounds

\* The server reads the next packet.  A kicked client still gets what was
\* written before; what it had written is lost.
ServerReads ==
  /\ srv.open /\ toServer # <<>>
  /\ \E fault \in {FALSE, FileFaults} :
       srv' = ReceiveOnServer(srv, Head(toServer), fault)
  /\ toServer' = IF srv'.open THEN Tail(toServer) ELSE <<>>
  /\ UNCHANGED <<cli, toClient, cut>> /\ Bounds

\* The server finds the connection closed (or gives up waiting).
ServerNotices ==
  /\ srv.open /\ toServer = <<>> /\ (cut \/ ~cli.open)
  /\ srv' = KickMe(srv, IF srv.quit = 3 THEN "quit" ELSE "lost")
  /\ UNCHANGED <<cli, toClient, toServer, cut>> /\ Bounds

----------------------------------------------------------------------------
(* Steps of the client *)

ClientWrites ==
  /\ cli.open /\ cli.out # NoPacket
  /\ toServer' = Write(toServer, srv.open, cli.out)
  /\ LET k == ClientSent(cli)
     IN  cli' = IF k.open THEN ClientSends(k) ELSE k
  /\ toClient' = IF cli'.open THEN toClient ELSE <<>>
  /\ UNCHANGED <<srv, cut>> /\ Bounds

ClientReads ==
  /\ cli.open /\ toClient # <<>>
  /\ \E fault \in {FALSE, FileFaults} :
       cli' = ReceiveOnClient(cli, Head(toClient), fault)
  /\ toClient' = IF cli'.open THEN Tail(toClient) ELSE <<>>
  /\ UNCHANGED <<srv, toServer, cut>> /\ Bounds

ClientNotices ==
  /\ cli.open /\ toClient = <<>> /\ (cut \/ ~srv.open)
  /\ cli' = ConnClose(cli, "lost")
  /\ UNCHANGED <<srv, toClient, toServer, cut>> /\ Bounds

OutpumpTimer ==
  /\ cli.outsched
  /\ cli' = ScheduledSend(cli)
  /\ UNCHANGED <<srv, toClient, toServer, cut>> /\ Bounds

SourceTimer ==
  /\ cli.timer
  /\ cli' = TimerNotify(cli)
  /\ UNCHANGED <<srv, toClient, toServer, cut>> /\ Bounds

ScheduleTimer ==
  /\ cli.sched
  /\ cli' = Schedule(cli)
  /\ UNCHANGED <<srv, toClient, toServer, cut>> /\ Bounds

StartJob ==
  /\ cli.todo # <<>> /\ Cardinality(cli.proc) < NJobs
  /\ ~cli.dsmt /\ ~cli.stopped
  /\ cli' = JobStarted(cli)
  /\ UNCHANGED <<srv, toClient, toServer, cut>> /\ Bounds

FinishJob(t) ==
  /\ t \in cli.proc /\ ~cli.stopped
  /\ \E v \in {"ok", "failed"} : cli' = JobDone(cli, t, v)
  /\ UNCHANGED <<srv, toClient, toServer, cut>> /\ Bounds

----------------------------------------------------------------------------
(* The network *)

Break ==
  /\ srv.open /\ cli.open /\ ~cut /\ nLosses < MaxLosses
  /\ cut' = TRUE /\ nLosses' = nLosses + 1
  /\ toClient' = <<>> /\ toServer' = <<>>
  /\ UNCHANGED <<srv, cli, nCommands>>

----------------------------------------------------------------------------
Next ==
  \/ Connect
  \/ \E t \in Tasks : LaunchTask(t)
  \/ \E cmd \in Commands : SendCommand(cmd)
  \/ ServerWrites
  \/ ServerReads
  \/ ServerNotices
  \/ ClientWrites
  \/ ClientReads
  \/ ClientNotices
  \/ OutpumpTimer
  \/ SourceTimer
  \/ ScheduleTimer
  \/ StartJob
  \/ \E t \in Tasks : FinishJob(t)
  \/ Break

Spec == Init /\ [][Next]_link

\* Both programs keep running, jobs end, the server keeps connecting and
\* lends what it has; commands and failures come when they come.
Fairness ==
  /\ WF_link(Connect)
  /\ WF_link(\E t \in Tasks : LaunchTask(t))
  /\ WF_link(ServerWrites) /\ WF_link(ServerReads) /\ WF_link(ServerNotices)
  /\ WF_link(ClientWrites) /\ WF_link(ClientReads) /\ WF_link(ClientNotices)
  /\ WF_link(OutpumpTimer) /\ WF_link(SourceTimer) /\ WF_link(ScheduleTimer)
  /\ WF_link(StartJob) /\ \A t \in Tasks : WF_link(FinishJob(t))

FairSpec == Spec /\ Fairness
=============================================================================
