---------------------------- MODULE LdrLinkProps ----------------------------
(***************************************************************************)
(* What must hold of a server and its client (module LdrLink).              *)
(***************************************************************************)
EXTENDS LdrLink

Live == srv.open /\ cli.open /\ ~cut

\* A packet about task t is on its way.
Travels(ch, cmd, t) == \E i \in DOMAIN ch : ch[i].cmd = cmd /\ ch[i].task = t

\* Where a lent task can be: still to be delivered, at the client, or
\* reported for good but not yet read.
GoingOut(t) ==
  \/ srv.tri.task = t /\ srv.tri.state = "SendTaskRequest"
  \/ Travels(toClient, "TaskRequest", t)
ComingBack(t) == Travels(toServer, "DoneComplete", t)

\* Type invariant.
LinkTyped ==
  /\ srv.auth \in 0..2 /\ srv.quit \in 0..3 /\ srv.jobs \in Nat
  /\ srv.list \in [Tasks -> {"todo", "proc", "done"}]
  /\ srv.tes \in [Tasks -> Verdicts] /\ cli.run \in [Tasks -> Verdicts]
  /\ srv.tri.task \in Held /\ srv.tdi.task \in Held
  /\ cli.tri.task \in Held /\ cli.tdi.task \in Held /\ cli.cur \in Held
  /\ cli.dts \in 0..2 /\ cli.srec \in 0..2
  /\ cli.pend \in {"None", "Connect", "DoneTask", "Disconnect"}

\* assigned_jobs of a client is the number of tasks in proc that are its own
\* (the assertions in _ParseDoneComplete() and ClientDisconnected()).
AssignedJobsCounted == srv.jobs = Cardinality(Assigned(srv))

\* While the connection stands, a task the server has lent is in exactly one
\* place on its way there and back, and the client has no task but those:
\* none is forgotten, none is left over from an earlier connection.  With or
\* without a connection the count of assigned tasks is right.
LentTasksAreSomewhere ==
  /\ AssignedJobsCounted
  /\ Live => \A t \in Tasks :
       /\ srv.list[t] = "proc" <=> GoingOut(t) \/ t \in Has(cli) \/ ComingBack(t)
       /\ ~(GoingOut(t) /\ t \in Has(cli))
       /\ ~(ComingBack(t) /\ t \in Has(cli))

\* Neither end ever meets a packet it does not expect: whatever commands,
\* tasks, files and reports come between each other, nobody is kicked.  Nor does
\* the client's source meet a call of its manager that it does not expect, or
\* the manager an answer: their assertions hold.
NobodyIsKicked ==
  /\ srv.why # "protocol" /\ cli.why # "protocol"
  /\ cli.assert

\* A task is done successfully only when all its files are here.
FilesComeFirst ==
  [][\A t \in Tasks :
       srv.tes[t] # "ok" /\ srv'.tes[t] = "ok" => srv.tdi.got = Uploads[t]]_link

----------------------------------------------------------------------------
(* Liveness, under FairSpec *)

\* Finding: the connection went away while a task was being reported.
ReportInterrupted == cli.srec > 0 /\ cli.dts = 2

\* Finding: the tasks in done were not seen because the source was still being
\* disconnected, and nothing makes the manager look again.
Unseen ==
  /\ cli.done # <<>> /\ cli.todo = <<>> /\ cli.proc = {}
  /\ ~cli.conn /\ cli.pend = "None"

\* After the end of a connection the client gets ready for the next one, as the
\* comment in TaskSource_LDR::ConnClose() has it, if no report was under way.
OtherRecoveriesEnd == cli.srec > 0 /\ cli.dts # 2 ~> cli.srec = 0

\* A command the server has sent is answered, or the connection ends.
CommandsAreAnswered == srv.wait # <<>> ~> srv.wait = <<>>

\* Every task gets done in the end, also after the connection was lost.
EveryTaskGetsDone ==
  <>(ReportInterrupted \/ Unseen \/ \A t \in Tasks : srv.list[t] = "done")
=============================================================================
