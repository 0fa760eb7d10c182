---------------------------- MODULE LdrEndsProofs ----------------------------
(***************************************************************************)
(* The two ends of a connection, each alone (modules LDRClient and          *)
(* ServerConn).  First the invariant of the link: it says of each end what  *)
(* its members say of each other, and of the two channels what the reader   *)
(* will make of the packets in them.  Then what every member function does  *)
(* to the end it belongs to.                                                *)
(***************************************************************************)
EXTENDS LdrLinkProps, SequenceTheorems, FiniteSetTheorems, FunctionTheorems,
  WellFoundedInduction, TLAPS

Orders == {"Kill", "StopJobs", "ContJobs", "GiveBackTasks", "ClientQuit"}
Kinds  == {"none", "NowConnected", "TaskRequest", "TaskResponse", "FileRequest",
           "FileDownload", "TaskDone", "FileUpload", "DoneComplete",
           "ControlRequest", "ControlResponse", "FileBody"}
Whats  == {"", "Accepted", "TooManyTasks", NoMoreTasks} \cup Verdicts \cup Orders
Ends   == {"none", "protocol", "file", "lost", "quit"}

Packets == [cmd : Kinds, task : Held, n : Nat, what : Whats]

\* The members of each end.
Sending ==
  [task : Held, n : Nat,
   state : {"None", "SendTaskRequest", "WaitForResponse", "SendFileDownloadH",
            "SendFileDownloadB"}]
Getting ==
  [task : Held, state : {"None", "WaitForResp", "UploadBody"},
   save : Verdicts, got : Nat]

ServerRecord ==
  [open : BOOLEAN, auth : 0..2, quit : 0..3, noMore : BOOLEAN, jobs : Int,
   tri : Sending, tdi : Getting, out : Packets, lock : BOOLEAN,
   send : Seq(Orders), wait : Seq(Orders),
   list : [Tasks -> {"todo", "proc", "done"}], tes : [Tasks -> Verdicts],
   why : Ends]

Taking ==
  [task : Held, resp : {"none", "Accepted", "TooManyTasks"}, n : Nat,
   act : {"None", "Response", "FileReq", "FileRecvH", "FileRecvB", "Complete"}]
Reporting ==
  [task : Held, n : Nat,
   act : {"None", "SendDone", "FileSendH", "FileSendB", "Complete"}]

ClientRecord ==
  [open : BOOLEAN, tri : Taking, tdi : Reporting, out : Packets,
   lock : BOOLEAN, send : Seq(Orders \cup {NoMoreTasks}), outsched : BOOLEAN,
   dts : 0..2, cur : Held, take : Held, srec : 0..2, tsQuit : BOOLEAN,
   timer : BOOLEAN,
   todo : Seq(Tasks), proc : SUBSET Tasks, done : Seq(Tasks),
   run : [Tasks -> Verdicts],
   dsmt : BOOLEAN, first : BOOLEAN, stopped : BOOLEAN, mrec : BOOLEAN,
   toldIf : BOOLEAN, toldTs : BOOLEAN,
   pend : {"None", "Connect", "DoneTask", "Disconnect"}, conn : BOOLEAN,
   sched : BOOLEAN, why : Ends, assert : BOOLEAN]

----------------------------------------------------------------------------
(* The server's end alone *)

\* What is being written is what is due.
ServerOut(s) ==
  /\ \/ s.out = NoPacket
     \/ s.tri.state = "SendTaskRequest" /\ s.out = TaskRequest(s.tri.task)
     \/ /\ s.tri.state = "SendFileDownloadH"
        /\ s.out = FileDownload(s.tri.task, s.tri.n)
     \/ s.tri.state = "SendFileDownloadB" /\ s.out = FileBody
     \/ s.send # <<>> /\ ~s.lock /\ s.out = ControlRequest(Head(s.send))
  /\ s.lock <=> \/ s.out.cmd = "FileDownload"
                \/ s.tri.state = "SendFileDownloadB"

\* Tasks are counted, and a closed end has none.
ServerSane(s) ==
  /\ IsFiniteSet(Assigned(s)) /\ s.jobs = Cardinality(Assigned(s))
  /\ s.jobs <= TodoHigh + NJobs
  /\ IF s.open THEN s.auth \in {1, 2}
     ELSE /\ Assigned(s) = {} /\ s.tri = NoTri /\ s.tdi = NoTdi
          /\ s.out = NoPacket /\ ~s.lock /\ s.send = <<>> /\ s.wait = <<>>
  /\ s.tri.task = NoTask <=> s.tri.state = "None"
  /\ s.why # "protocol"
  /\ ServerOut(s)

----------------------------------------------------------------------------
(* The client's end alone *)

\* Where a task can be that was taken over.
Own(k) == InQueue(k.todo) \cup k.proc \cup InQueue(k.done) \cup ({k.cur} \ {NoTask})

\* Each task is there once.
Once(k) ==
  /\ IsInjective(k.todo) /\ IsInjective(k.done)
  /\ InQueue(k.todo) \cap k.proc = {} /\ InQueue(k.todo) \cap InQueue(k.done) = {}
  /\ k.proc \cap InQueue(k.done) = {}
  /\ k.cur \notin InQueue(k.todo) /\ k.cur \notin k.proc /\ k.cur \notin InQueue(k.done)

\* Manager and source agree, also on the way through recovery.
Agreed(k) ==
  /\ k.pend = "DoneTask" => k.conn
  /\ k.pend = "Connect" => ~k.conn
  /\ k.pend = "Disconnect" => k.conn \/ k.tsQuit
  /\ k.pend # "DoneTask" => k.dts = 0
  /\ k.dts = 0 <=> k.cur = NoTask
  /\ k.open => k.srec = 0
  /\ k.mrec <=> k.srec = 1
  /\ k.mrec => k.dsmt
  /\ k.toldTs => k.mrec
  /\ k.toldTs <=> k.tsQuit
  /\ k.tsQuit => /\ k.todo = <<>> /\ k.proc = {} /\ k.done = <<>> /\ ~k.conn
                 /\ k.pend \in {"None", "Disconnect"}
  /\ ~k.open /\ k.srec = 0 => Own(k) = {}

\* The task being received.
Receiving(k) ==
  /\ CASE k.tri.resp = "none" -> k.tri = FreeTri
       [] k.tri.resp = "Accepted" -> k.tri.task # NoTask /\ k.tri.act # "None"
       [] k.tri.resp = "TooManyTasks" -> k.tri.task # NoTask /\ k.tri.act = "None"
  /\ k.take = IF k.tri.act = "Complete" THEN k.tri.task ELSE NoTask
  /\ IF k.tri.act = "Response" THEN k.tri.task \in Own(k)
     ELSE k.tri.resp # "none" => k.tri.task \notin Own(k)

\* The task being reported.
Telling(k) ==
  /\ IF k.tdi.act = "None" THEN k.tdi = FreeTdi
     ELSE k.tdi.task # NoTask /\ k.tdi.task = k.cur /\ k.dts = 2
  /\ k.tdi.act = "Complete" =>
       k.run[k.tdi.task] # "ok" \/ k.tdi.n = Uploads[k.tdi.task]
  /\ k.tdi.act = "SendDone" => k.tdi.n = 0
  /\ k.tri.task = k.tdi.task /\ k.tdi.task # NoTask =>
       k.tdi.act = "SendDone" /\ k.out.cmd # "TaskDone" /\ k.tri.act = "Response"

\* An answer that may be on its way out.
First(q, x) == \E i \in DOMAIN q : q[i] = x /\ \A j \in 1..(i - 1) : q[j] = NoMoreTasks

ClientOut(k) ==
  /\ \/ k.out = NoPacket
     \/ k.out = NowConnected
     \/ /\ k.tri.act \in {"None", "Response"} /\ k.tri.resp # "none"
        /\ k.out = TaskResponse(k.tri.task, k.tri.resp)
     \/ k.tri.act = "FileReq" /\ k.out = FileRequest(k.tri.task, k.tri.n)
     \/ k.tdi.act = "SendDone" /\ k.out = TaskDone(k.tdi.task, k.run[k.tdi.task])
     \/ /\ k.tdi.act = "FileSendH" /\ k.tdi.n > 0
        /\ k.out = FileUpload(k.tdi.task, k.tdi.n)
     \/ k.tdi.act = "FileSendB" /\ k.out = FileBody
     \/ k.tdi.act = "Complete" /\ k.out = DoneComplete(k.tdi.task)
     \/ ~k.lock /\ First(k.send, k.out.what) /\ k.out = ControlResponse(k.out.what)
  /\ k.lock <=> k.out.cmd = "FileUpload" \/ k.tdi.act = "FileSendB"
  /\ k.tdi.act = "Complete" => k.out.cmd = "DoneComplete"
  /\ k.tdi.act = "FileSendB" => k.tdi.n > 0 /\ k.out.cmd \in {"none", "FileBody"}

\* The manager's part, and the connection's.
Managing(k) == k.assert /\ Once(k) /\ Agreed(k)

Talking(k) ==
  /\ k.why # "protocol" /\ Receiving(k) /\ Telling(k) /\ ClientOut(k)
  /\ ~k.open => /\ k.tri = FreeTri /\ k.tdi = FreeTdi /\ k.out = NoPacket
                /\ ~k.lock /\ k.send = <<>> /\ k.take = NoTask

ClientSane(k) == Managing(k) /\ Talking(k)

----------------------------------------------------------------------------
(* What the client says: reports and answers *)

\* What the server knows of a report, and whether the client may talk.
Now(s) == [tdi |-> s.tdi, auth |-> s.auth]

\* What the server will know when it has read everything written so far.
Then(k) ==
  [auth |-> IF k.out.cmd = "NowConnected" THEN 1 ELSE 2,
   tdi  |->
     IF k.tdi.act \in {"None", "SendDone"} THEN NoTdi
     ELSE [task |-> k.tdi.task, save |-> k.run[k.tdi.task],
           state |-> IF k.tdi.act = "FileSendB" THEN "UploadBody" ELSE "WaitForResp",
           got |-> IF k.out.cmd = "FileUpload" \/ k.tdi.act = "FileSendB"
                   THEN k.tdi.n - 1 ELSE k.tdi.n]]

\* From view x packet p leads to view y.
Hears(x, p, y) ==
  /\ x.auth = 1 <=> p.cmd = "NowConnected"
  /\ y.auth = 2
  /\ (x.tdi.state = "UploadBody") <=> (p.cmd = "FileBody")
  /\ p.cmd \in {"NowConnected", "FileRequest", "TaskResponse", "TaskDone", "FileUpload",
                "FileBody", "DoneComplete", "ControlResponse"}
  /\ CASE p.cmd = "TaskDone" ->
            /\ x.tdi.task = NoTask /\ p.task # NoTask
            /\ y.tdi = [task |-> p.task, state |-> "WaitForResp",
                        save |-> p.what, got |-> 0]
       [] p.cmd = "FileUpload" ->
            /\ x.tdi.state = "WaitForResp" /\ x.tdi.task = p.task /\ p.task # NoTask
            /\ y.tdi = [x.tdi EXCEPT !.state = "UploadBody"]
       [] p.cmd = "FileBody" ->
            y.tdi = [x.tdi EXCEPT !.state = "WaitForResp", !.got = @ + 1]
       [] p.cmd = "DoneComplete" ->
            /\ x.tdi.state = "WaitForResp" /\ x.tdi.task = p.task /\ p.task # NoTask
            /\ x.tdi.save = "ok" => x.tdi.got = Uploads[p.task]
            /\ y.tdi = NoTdi
       [] p.cmd \in {"NowConnected", "FileRequest", "TaskResponse", "ControlResponse"} ->
            y.tdi = x.tdi

\* The views p the server will have while it reads ts.
Views(s, ts, p) ==
  /\ p[1] = Now(s)
  /\ \A i \in 1..Len(ts) : Hears(p[i], ts[i], p[i + 1])
  /\ \A i \in 1..(Len(ts) + 1) :
       p[i].tdi \in Getting /\ p[i].tdi.task \in Assigned(s) \cup {NoTask}
  /\ \A i \in 1..Len(ts) : ts[i].cmd = "DoneComplete" =>
       \A j \in (i + 1)..(Len(ts) + 1) : p[j].tdi.task # ts[i].task

Reports(s, k, ts, live) ==
  s.open => \E p : Views(s, ts, p) /\ (live => p[Len(ts) + 1] = Then(k))

\* Notices of the client's own come first in q, then the orders r.
Owing(q, r) ==
  \E n \in Nat :
    /\ Len(q) = n + Len(r)
    /\ \A i \in 1..n : q[i] = NoMoreTasks
    /\ \A i \in 1..Len(r) : q[n + i] = r[i]

\* The orders w that wait for an answer while the server reads ts.
Waits(s, ts, w) ==
  /\ w[1] = s.wait /\ \A i \in 1..(Len(ts) + 1) : w[i] \in Seq(Orders)
  /\ \A i \in 1..Len(ts) :
       IF ts[i].cmd = "ControlResponse" /\ ts[i].what # NoMoreTasks
       THEN w[i] # <<>> /\ ts[i].what = Head(w[i]) /\ w[i + 1] = Tail(w[i])
       ELSE w[i + 1] = w[i]

\* The orders q the client has to answer while it reads tc.
Owes(k, tc, q) ==
  /\ Owing(k.send, q[1]) /\ \A i \in 1..(Len(tc) + 1) : q[i] \in Seq(Orders)
  /\ \A i \in 1..Len(tc) :
       q[i + 1] = IF tc[i].cmd = "ControlRequest" THEN Append(q[i], tc[i].what) ELSE q[i]

Answered(s, k, tc, ts, live) ==
  /\ s.open => \E w : /\ Waits(s, ts, w)
                      /\ live => \E q : /\ Owes(k, tc, q)
                                        /\ q[Len(tc) + 1] = w[Len(ts) + 1]
  /\ \A i \in DOMAIN ts : ts[i].cmd = "ControlResponse" /\ ts[i].what = "ClientQuit" =>
       i = Len(ts) /\ ~k.open
  /\ s.quit = 3 => ts = <<>> /\ ~k.open

----------------------------------------------------------------------------
(* Handing over a task with its files *)

Asks(p)  == p.cmd \in {"FileRequest", "TaskResponse"}
Gives(p) == p.cmd \in {"TaskRequest", "FileDownload", "FileBody"}

\* What the server reads about the task it hands over.
Asked(s, ts) ==
  \A i \in DOMAIN ts : Asks(ts[i]) =>
    /\ s.tri.state = "WaitForResponse" /\ s.tri.task = ts[i].task
    /\ ts[i].cmd = "TaskResponse" => ts[i].what = "Accepted"
    /\ \A j \in DOMAIN ts : Asks(ts[j]) => j = i

\* What the client reads about it.
Given(k, tc) ==
  /\ \A i \in DOMAIN tc :
       /\ \/ Gives(tc[i])
          \/ tc[i].cmd = "ControlRequest" /\ tc[i].what \in Orders
       /\ tc[i].cmd = "TaskRequest" =>
            /\ k.tri.task = NoTask /\ tc[i].task \notin Own(k) \cup {NoTask}
            /\ \A j \in DOMAIN tc : Gives(tc[j]) => j = i
       /\ tc[i].cmd = "FileDownload" =>
            /\ k.tri.act = "FileRecvH" /\ tc[i].task = k.tri.task /\ tc[i].n = k.tri.n
            /\ i < Len(tc) => tc[i + 1].cmd = "FileBody"
            /\ \A j \in DOMAIN tc : Gives(tc[j]) => j \in {i, i + 1}
       /\ tc[i].cmd = "FileBody" =>
            IF i = 1 THEN k.tri.act = "FileRecvB" ELSE tc[i - 1].cmd = "FileDownload"
  /\ k.tri.act = "FileRecvB" /\ tc # <<>> =>
       tc[1].cmd = "FileBody" /\ \A j \in DOMAIN tc : Gives(tc[j]) => j = 1

Silent(tc)  == \A i \in DOMAIN tc : ~Gives(tc[i])
Quiet(ts)   == \A i \in DOMAIN ts : ~Asks(ts[i])
Comes(ch, kind) == \E i \in DOMAIN ch : ch[i].cmd = kind

\* How far both are.
InStep(s, k, tc, ts) ==
  CASE s.tri.state \in {"None", "SendTaskRequest"} ->
         k.tri.task = NoTask /\ Silent(tc)
    [] s.tri.state = "WaitForResponse" ->
         \/ /\ \E i \in DOMAIN tc : tc[i].cmd = "TaskRequest" /\ tc[i].task = s.tri.task
            /\ Quiet(ts)
         \/ /\ k.tri.task = s.tri.task /\ k.tri.act \in {"FileReq", "Complete", "Response"}
            /\ k.tri.resp = "Accepted" /\ Silent(tc) /\ Quiet(ts)
         \/ /\ k.tri.task = s.tri.task /\ k.tri.act = "FileRecvH" /\ Silent(tc)
            /\ \E i \in DOMAIN ts : ts[i].cmd = "FileRequest" /\ ts[i].n = k.tri.n
         \/ /\ k.tri.task = s.tri.task /\ k.tri.act \in {"FileRecvH", "FileRecvB"}
            /\ Comes(tc, "FileBody") /\ Quiet(ts)
         \/ k.tri.task = NoTask /\ Silent(tc) /\ Comes(ts, "TaskResponse")
    [] s.tri.state = "SendFileDownloadH" ->
         /\ k.tri.task = s.tri.task /\ k.tri.act = "FileRecvH" /\ k.tri.n = s.tri.n
         /\ Silent(tc)
    [] s.tri.state = "SendFileDownloadB" ->
         /\ k.tri.task = s.tri.task
         /\ \/ k.tri.act = "FileRecvB" /\ tc = <<>>
            \/ /\ k.tri.act = "FileRecvH" /\ tc # <<>>
               /\ tc[Len(tc)].cmd = "FileDownload"

\* Where the lent tasks are.
Leaving(s, tc, t) ==
  \/ s.tri.task = t /\ s.tri.state = "SendTaskRequest"
  \/ \E i \in DOMAIN tc : tc[i].cmd = "TaskRequest" /\ tc[i].task = t
Returning(ts, t) == \E i \in DOMAIN ts : ts[i].cmd = "DoneComplete" /\ ts[i].task = t

Located(s, k, tc, ts) ==
  \A t \in Tasks :
    /\ s.list[t] = "proc" <=> Leaving(s, tc, t) \/ t \in Has(k) \/ Returning(ts, t)
    /\ Leaving(s, tc, t) => t \notin Has(k) /\ ~Returning(ts, t)
    /\ Returning(ts, t) => t \notin Has(k)

----------------------------------------------------------------------------
Linked(s, k, tc, ts, live) ==
  /\ s \in ServerRecord /\ k \in ClientRecord
  /\ tc \in Seq(Packets) /\ ts \in Seq(Packets)
  /\ ServerSane(s) /\ ClientSane(k)
  /\ Reports(s, k, ts, live) /\ Answered(s, k, tc, ts, live)
  /\ Asked(s, ts) /\ Given(k, tc)
  /\ live => InStep(s, k, tc, ts) /\ Located(s, k, tc, ts)

----------------------------------------------------------------------------
(* Records *)

\* What the members are.
LEMMA ServerRead ==
  ASSUME NEW s \in ServerRecord
  PROVE
    /\ s.open \in BOOLEAN
    /\ s.auth \in 0..2
    /\ s.quit \in 0..3
    /\ s.noMore \in BOOLEAN
    /\ s.jobs \in Int
    /\ s.tri \in Sending
    /\ s.tdi \in Getting
    /\ s.out \in Packets
    /\ s.lock \in BOOLEAN
    /\ s.send \in Seq(Orders)
    /\ s.wait \in Seq(Orders)
    /\ s.list \in [Tasks -> {"todo", "proc", "done"}]
    /\ s.tes \in [Tasks -> Verdicts]
    /\ s.why \in Ends
  BY DEF ServerRecord

\* The same of the client.
LEMMA ClientRead ==
  ASSUME NEW k \in ClientRecord
  PROVE
    /\ k.open \in BOOLEAN
    /\ k.tri \in Taking
    /\ k.tdi \in Reporting
    /\ k.out \in Packets
    /\ k.lock \in BOOLEAN
    /\ k.send \in Seq(Orders \cup {NoMoreTasks})
    /\ k.outsched \in BOOLEAN
    /\ k.dts \in 0..2
    /\ k.cur \in Held
    /\ k.take \in Held
    /\ k.srec \in 0..2
    /\ k.tsQuit \in BOOLEAN
    /\ k.timer \in BOOLEAN
    /\ k.todo \in Seq(Tasks)
    /\ k.proc \in SUBSET Tasks
    /\ k.done \in Seq(Tasks)
    /\ k.run \in [Tasks -> Verdicts]
    /\ k.dsmt \in BOOLEAN
    /\ k.first \in BOOLEAN
    /\ k.stopped \in BOOLEAN
    /\ k.mrec \in BOOLEAN
    /\ k.toldIf \in BOOLEAN
    /\ k.toldTs \in BOOLEAN
    /\ k.pend \in {"None", "Connect", "DoneTask", "Disconnect"}
    /\ k.conn \in BOOLEAN
    /\ k.sched \in BOOLEAN
    /\ k.why \in Ends
    /\ k.assert \in BOOLEAN
  BY DEF ClientRecord

\* The empty members.
LEMMA Nothing ==
  /\ NoTri \in Sending /\ NoTdi \in Getting
  /\ FreeTri \in Taking /\ FreeTdi \in Reporting /\ NoPacket \in Packets
  /\ NoTask \in Held /\ NoTask \notin Tasks /\ FALSE \in BOOLEAN /\ TRUE \in BOOLEAN
  BY LdrAssumption DEF NoTri, NoTdi, Sending, Getting, FreeTri, FreeTdi, Taking, Reporting,
    NoPacket, Packet, Packets, Kinds, Whats, Held, NoTask, Verdicts

\* The packets are packets.
LEMMA PacketsTyped ==
  /\ NowConnected \in Packets /\ FileBody \in Packets
  /\ \A t \in Held : TaskRequest(t) \in Packets /\ DoneComplete(t) \in Packets
  /\ \A t \in Held : \A n \in Nat :
       /\ FileRequest(t, n) \in Packets /\ FileDownload(t, n) \in Packets
       /\ FileUpload(t, n) \in Packets
  /\ \A t \in Held : \A v \in Verdicts \cup {"Accepted", "TooManyTasks"} :
       TaskResponse(t, v) \in Packets /\ TaskDone(t, v) \in Packets
  /\ \A c \in Orders \cup {NoMoreTasks} :
       ControlRequest(c) \in Packets /\ ControlResponse(c) \in Packets
<1>1. NoTask \in Held /\ 0 \in Nat
  BY DEF Held
<1> QED
  BY <1>1 DEF NowConnected, FileBody, TaskRequest, DoneComplete, FileRequest, FileDownload,
    FileUpload, TaskResponse, TaskDone, ControlRequest, ControlResponse, Packet, Packets,
    Kinds, Whats

----------------------------------------------------------------------------
(* Lists *)

\* What is in a list is of its kind.
LEMMA QueueType ==
  ASSUME NEW S, NEW q \in Seq(S)
  PROVE  /\ InQueue(q) \subseteq S /\ Len(q) \in Nat /\ DOMAIN q = 1..Len(q)
         /\ q # <<>> <=> Len(q) > 0
         /\ q = <<>> => InQueue(q) = {}
         /\ q # <<>> => InQueue(q) # {}
<1>1. Len(q) \in Nat /\ DOMAIN q = 1..Len(q) /\ \A i \in 1..Len(q) : q[i] \in S
  BY LenProperties, ElementOfSeq
<1>2. q # <<>> <=> Len(q) > 0
  BY <1>1, EmptySeq
<1> QED
  BY <1>1, <1>2 DEF InQueue

\* A member is appended.
LEMMA Appended ==
  ASSUME NEW S, NEW q \in Seq(S), NEW x \in S
  PROVE  /\ Append(q, x) \in Seq(S) /\ InQueue(Append(q, x)) = InQueue(q) \cup {x}
         /\ Append(q, x) # <<>> /\ Len(Append(q, x)) = Len(q) + 1
         /\ IsInjective(q) /\ x \notin InQueue(q) => IsInjective(Append(q, x))
<1> DEFINE r == Append(q, x)
<1>1. /\ r \in Seq(S) /\ Len(r) = Len(q) + 1 /\ r # <<>>
      /\ \A i \in 1..Len(q) : r[i] = q[i]
      /\ r[Len(q) + 1] = x
  BY AppendProperties
<1>2. /\ Len(q) \in Nat /\ DOMAIN q = 1..Len(q) /\ DOMAIN r = 1..(Len(q) + 1)
  BY <1>1, LenProperties
<1> HIDE DEF r
<1>3. InQueue(r) = InQueue(q) \cup {x}
  BY <1>1, <1>2 DEF InQueue
<1>4. ASSUME IsInjective(q), x \notin InQueue(q) PROVE IsInjective(r)
  BY <1>1, <1>2, <1>4 DEF IsInjective, InQueue
<1> QED
  BY <1>1, <1>3, <1>4 DEF r

\* The first is taken off.
LEMMA Popped ==
  ASSUME NEW S, NEW q \in Seq(S), q # <<>>
  PROVE  /\ Head(q) \in S /\ Tail(q) \in Seq(S) /\ Len(Tail(q)) = Len(q) - 1
         /\ Head(q) = q[1] /\ \A i \in 1..(Len(q) - 1) : Tail(q)[i] = q[i + 1]
         /\ InQueue(q) = {Head(q)} \cup InQueue(Tail(q))
         /\ IsInjective(q) => IsInjective(Tail(q)) /\ Head(q) \notin InQueue(Tail(q))
<1> DEFINE r == Tail(q)  h == Head(q)
<1>1. /\ r \in Seq(S) /\ Len(r) = Len(q) - 1 /\ h \in S
      /\ \A i \in 1..Len(r) : r[i] = q[i + 1]
  BY HeadTailProperties
<1>2. h = q[1] /\ Len(q) \in Nat /\ Len(q) > 0
  BY LenProperties, EmptySeq
<1>3. DOMAIN q = 1..Len(q) /\ DOMAIN r = 1..(Len(q) - 1)
  BY <1>1, LenProperties
<1> HIDE DEF r, h
<1>4. InQueue(q) = {h} \cup InQueue(r)
  <2>1. ASSUME NEW i \in DOMAIN q PROVE q[i] = h \/ (i - 1 \in DOMAIN r /\ q[i] = r[i - 1])
    BY <1>1, <1>2, <1>3
  <2>2. \A i \in DOMAIN r : i + 1 \in DOMAIN q /\ r[i] = q[i + 1]
    BY <1>1, <1>2, <1>3
  <2>3. 1 \in DOMAIN q
    BY <1>2, <1>3
  <2> QED
    BY <2>1, <2>2, <2>3, <1>2 DEF InQueue
<1>5. ASSUME IsInjective(q) PROVE IsInjective(r) /\ h \notin InQueue(r)
  <2>1. \A i \in DOMAIN r : i \in Nat /\ i + 1 \in DOMAIN q /\ r[i] = q[i + 1] /\ i + 1 # 1
    BY <1>1, <1>2, <1>3
  <2>2. 1 \in DOMAIN q
    BY <1>2, <1>3
  <2> QED
    BY <2>1, <2>2, <1>2, <1>5 DEF InQueue, IsInjective
<1>6. Len(r) = Len(q) - 1 /\ \A i \in 1..(Len(q) - 1) : r[i] = q[i + 1]
  BY <1>1
<1> QED
  BY <1>1, <1>2, <1>4, <1>5, <1>6 DEF r, h

\* One list is turned around and appended to the other.
LEMMA TurnedOver ==
  ASSUME NEW S, NEW p \in Seq(S), NEW q \in Seq(S)
  PROVE  /\ p \o Reverse(q) \in Seq(S)
         /\ InQueue(p \o Reverse(q)) = InQueue(p) \cup InQueue(q)
         /\ IsInjective(p) /\ IsInjective(q) /\ InQueue(p) \cap InQueue(q) = {}
              => IsInjective(p \o Reverse(q))
<1> DEFINE m == Len(p)  n == Len(q)  b == Reverse(q)  r == p \o b
<1>1. m \in Nat /\ n \in Nat /\ DOMAIN p = 1..m /\ DOMAIN q = 1..n
  BY LenProperties
<1>2. b = [i \in 1..n |-> q[n - i + 1]]
  BY DEF Reverse
<1>3. \A i \in 1..n : n - i + 1 \in 1..n /\ q[n - i + 1] \in S
  <2>1. \A i \in 1..n : n - i + 1 \in 1..n
    BY <1>1
  <2> QED
    BY <2>1, ElementOfSeq
<1>4. b \in Seq(S) /\ Len(b) = n
  <2>1. b \in [1..n -> S]
    BY <1>2, <1>3
  <2>2. b \in Seq(S)
    BY <1>1, <2>1
  <2>3. DOMAIN b = 1..n
    BY <1>2
  <2> QED
    BY <1>1, <2>2, <2>3, LenProperties
<1> HIDE DEF b, m, n
<1>5. /\ r \in Seq(S) /\ DOMAIN r = 1..(m + n)
      /\ \A i \in 1..(m + n) : r[i] = IF i <= m THEN p[i] ELSE b[i - m]
  <2>1. r \in Seq(S) /\ Len(r) = m + n
    BY <1>4, ConcatProperties DEF m
  <2>2. \A i \in 1..(m + n) : r[i] = IF i <= m THEN p[i] ELSE b[i - m]
    BY <1>4, ConcatProperties DEF m
  <2>3. DOMAIN r = 1..Len(r)
    BY <2>1, LenProperties
  <2> QED
    BY <2>1, <2>2, <2>3
<1> HIDE DEF r
<1>6. \A i \in 1..(m + n) : \/ i \in 1..m /\ r[i] = p[i]
                            \/ i > m /\ n - (i - m) + 1 \in 1..n /\ r[i] = q[n - (i - m) + 1]
  BY <1>1, <1>2, <1>5
<1>7. InQueue(r) = InQueue(p) \cup InQueue(q)
  <2>1. InQueue(r) \subseteq InQueue(p) \cup InQueue(q)
    BY <1>1, <1>5, <1>6 DEF InQueue
  <2>2. InQueue(p) \subseteq InQueue(r)
    <3>1. \A i \in 1..m : i \in 1..(m + n) /\ r[i] = p[i]
      BY <1>1, <1>5
    <3> QED
      BY <3>1, <1>1, <1>5 DEF InQueue
  <2>3. InQueue(q) \subseteq InQueue(r)
    <3>1. \A i \in 1..n : m + (n - i + 1) \in 1..(m + n) /\ r[m + (n - i + 1)] = q[i]
      <4> TAKE i \in 1..n
      <4> DEFINE j == m + (n - i + 1)
      <4>1. j \in 1..(m + n) /\ ~(j <= m) /\ n - (j - m) + 1 = i /\ j \in Int
        BY <1>1
      <4> HIDE DEF j
      <4>2. r[j] = q[n - (j - m) + 1]
        BY <4>1, <1>1, <1>6
      <4> QED
        BY <4>1, <4>2 DEF j
    <3> QED
      BY <3>1, <1>1, <1>5 DEF InQueue
  <2> QED
    BY <2>1, <2>2, <2>3
<1>8. ASSUME IsInjective(p), IsInjective(q), InQueue(p) \cap InQueue(q) = {}
      PROVE  IsInjective(r)
  <2> SUFFICES ASSUME NEW i \in 1..(m + n), NEW j \in 1..(m + n), r[i] = r[j]
               PROVE  i = j
    BY <1>5 DEF IsInjective
  <2>1. CASE i <= m /\ j <= m
    BY <2>1, <1>1, <1>6, <1>8 DEF IsInjective
  <2>2. CASE i > m /\ j > m
    <3>1. n - (i - m) + 1 = n - (j - m) + 1
      BY <2>2, <1>1, <1>6, <1>8 DEF IsInjective
    <3> QED
      BY <3>1, <1>1
  <2>3. ASSUME NEW a \in 1..m, NEW c \in 1..n, p[a] = q[c] PROVE FALSE
    BY <2>3, <1>1, <1>8 DEF InQueue
  <2>4. CASE i <= m /\ j > m
    BY <2>3, <2>4, <1>1, <1>6
  <2>5. CASE i > m /\ j <= m
    BY <2>3, <2>5, <1>1, <1>6
  <2> QED
    BY <2>1, <2>2, <2>4, <2>5, <1>1
<1> QED
  BY <1>5, <1>7, <1>8 DEF r, b

\* A list of different things has as many members as it is long.
LEMMA CountedOnce ==
  ASSUME NEW S, NEW q \in Seq(S), IsInjective(q)
  PROVE  IsFiniteSet(InQueue(q)) /\ Cardinality(InQueue(q)) = Len(q)
<1> DEFINE D == 1..Len(q)
<1>1. Len(q) \in Nat /\ DOMAIN q = D
  BY LenProperties
<1>2. IsFiniteSet(D) /\ Cardinality(D) = Len(q)
  BY <1>1, FS_Interval
<1>3. q \in Bijection(D, InQueue(q))
  <2>1. q \in [D -> InQueue(q)]
    BY <1>1, LenProperties DEF InQueue
  <2>2. \A i, j \in D : q[i] = q[j] => i = j
    BY <1>1 DEF IsInjective
  <2>3. \A x \in InQueue(q) : \E i \in D : q[i] = x
    BY <1>1 DEF InQueue
  <2> QED
    BY <2>1, <2>2, <2>3, Fun_IsBij
<1>4. ExistsBijection(D, InQueue(q))
  BY <1>3 DEF ExistsBijection
<1> QED
  BY <1>2, <1>4, FS_Bijection

----------------------------------------------------------------------------
(* The client's own steps *)

SameLine(k, n) ==
  /\ n.open = k.open /\ n.tri = k.tri /\ n.tdi = k.tdi /\ n.out = k.out
  /\ n.lock = k.lock /\ n.send = k.send /\ n.take = k.take /\ n.why = k.why

SameQueues(k, n) ==
  /\ n.todo = k.todo /\ n.proc = k.proc /\ n.done = k.done
  /\ n.cur = k.cur /\ n.dts = k.dts /\ n.run = k.run

SameModes(k, n) ==
  /\ n.conn = k.conn /\ n.srec = k.srec /\ n.tsQuit = k.tsQuit
  /\ n.mrec = k.mrec /\ n.toldTs = k.toldTs

\* What the manager does is nothing to the connection.
Undisturbed(k, n) ==
  /\ SameLine(k, n) /\ (k.open => Own(n) = Own(k))
  /\ k.dts = 2 => n.dts = 2 /\ n.cur = k.cur
  /\ k.tdi.task # NoTask => n.run[k.tdi.task] = k.run[k.tdi.task]

\* What the client does is nothing to the server.
Same(k, n) ==
  /\ n.open = k.open
  /\ k.open =>
       /\ n.tri.task = k.tri.task /\ n.tri.resp = k.tri.resp
       /\ Then(n) = Then(k) /\ Has(n) = Has(k)
       /\ k.tri.task = NoTask => Own(n) = Own(k)
       /\ \A r \in Seq(Orders) : Owing(k.send, r) => Owing(n.send, r)
       /\ \/ n.tri.act = k.tri.act /\ n.tri.n = k.tri.n
          \/ /\ k.tri.act \in {"FileReq", "Complete", "Response"}
             /\ n.tri.act \in {"FileReq", "Complete", "Response"}

\* Several such steps make one.
LEMMA Steps ==
  ASSUME NEW k, NEW m, NEW n
  PROVE  /\ Undisturbed(k, k) /\ Same(k, k)
         /\ Undisturbed(k, m) /\ Undisturbed(m, n) => Undisturbed(k, n)
         /\ Same(k, m) /\ Same(m, n) => Same(k, n)
<1>1. Undisturbed(k, k) /\ Same(k, k)
  BY DEF Undisturbed, Same, SameLine
<1>2. Undisturbed(k, m) /\ Undisturbed(m, n) => Undisturbed(k, n)
  BY DEF Undisturbed, SameLine
<1>3. ASSUME Same(k, m), Same(m, n) PROVE Same(k, n)
  <2>1. CASE ~k.open
    BY <1>3, <2>1 DEF Same
  <2>2. CASE k.open
    <3>1. m.open /\ n.open = k.open
      BY <1>3, <2>2 DEF Same
    <3>2. \A r \in Seq(Orders) : Owing(k.send, r) => Owing(n.send, r)
      BY <1>3, <2>2, <3>1 DEF Same
    <3> QED
      BY <1>3, <2>2, <3>1, <3>2 DEF Same
  <2> QED
    BY <2>1, <2>2
<1> QED
  BY <1>1, <1>2, <1>3

\* Where the client's tasks are, by their kinds.
LEMMA OwnType ==
  ASSUME NEW k \in ClientRecord
  PROVE  /\ InQueue(k.todo) \subseteq Tasks /\ InQueue(k.done) \subseteq Tasks
         /\ k.proc \subseteq Tasks /\ Own(k) \subseteq Tasks
         /\ Has(k) = Own(k) \cup ({k.tri.task} \ {NoTask})
<1>1. InQueue(k.todo) \subseteq Tasks /\ InQueue(k.done) \subseteq Tasks
  BY ClientRead, QueueType
<1>2. k.proc \subseteq Tasks /\ k.cur \in Held
  BY ClientRead
<1>3. Own(k) \subseteq Tasks
  BY <1>1, <1>2 DEF Own, Held
<1>4. Has(k) = Own(k) \cup ({k.tri.task} \ {NoTask})
  BY DEF Has, Own
<1> QED
  BY <1>1, <1>2, <1>3, <1>4

\* The connection stays sound when the manager goes on.
LEMMA UndisturbedTalking ==
  ASSUME NEW k \in ClientRecord, NEW n \in ClientRecord, Talking(k), Undisturbed(k, n)
  PROVE  Talking(n) /\ Same(k, n)
<1>1. SameLine(k, n)
  BY DEF Undisturbed
<1>2. Receiving(n)
  <2>1. CASE k.open
    BY <2>1, <1>1 DEF Undisturbed, Talking, Receiving, SameLine
  <2>2. CASE ~k.open
    <3>1. n.tri = FreeTri /\ n.take = NoTask
      BY <2>2, <1>1 DEF Talking, SameLine
    <3>2. FreeTri.resp = "none" /\ FreeTri.act = "None"
      BY DEF FreeTri
    <3> QED
      BY <3>1, <3>2 DEF Receiving
  <2> QED
    BY <2>1, <2>2, ClientRead
<1>3. Telling(n)
  <2>1. CASE k.tdi.act = "None"
    <3>1. k.tdi = FreeTdi
      BY <2>1 DEF Talking, Telling
    <3> QED
      BY <3>1, <1>1 DEF Telling, SameLine, FreeTdi
  <2>2. CASE k.tdi.act # "None"
    <3>1. k.dts = 2 /\ k.tdi.task = k.cur /\ k.tdi.task # NoTask
      BY <2>2 DEF Talking, Telling
    <3>2. n.dts = 2 /\ n.cur = k.cur /\ n.run[k.tdi.task] = k.run[k.tdi.task]
      BY <3>1 DEF Undisturbed
    <3> QED
      BY <3>1, <3>2, <2>2, <1>1 DEF Talking, Telling, SameLine
  <2> QED
    BY <2>1, <2>2
<1>4. ClientOut(n)
  <2>1. CASE k.tdi.act = "SendDone"
    <3>1. n.run[k.tdi.task] = k.run[k.tdi.task]
      BY <2>1 DEF Talking, Telling, Undisturbed
    <3> QED
      BY <3>1, <1>1 DEF Talking, ClientOut, SameLine
  <2>2. CASE k.tdi.act # "SendDone"
    BY <2>2, <1>1 DEF Talking, ClientOut, SameLine
  <2> QED
    BY <2>1, <2>2
<1>5. Talking(n)
  BY <1>1, <1>2, <1>3, <1>4 DEF Talking, SameLine
<1>6. Then(n) = Then(k)
  <2>1. CASE k.tdi.act \in {"None", "SendDone"}
    BY <2>1, <1>1 DEF Then, SameLine
  <2>2. CASE k.tdi.act \notin {"None", "SendDone"}
    <3>1. n.run[k.tdi.task] = k.run[k.tdi.task]
      BY <2>2 DEF Talking, Telling, Undisturbed
    <3> QED
      BY <3>1, <1>1 DEF Then, SameLine
  <2> QED
    BY <2>1, <2>2
<1>7. k.open => Own(n) = Own(k) /\ Has(n) = Has(k)
  BY <1>1, OwnType DEF Undisturbed, SameLine
<1> QED
  BY <1>1, <1>5, <1>6, <1>7 DEF Same, SameLine

----------------------------------------------------------------------------
(* The manager's exchange with the source *)

\* What a task that goes back leaves behind.
LEMMA GivenTyped ==
  ASSUME NEW k \in ClientRecord, NEW h \in Held, NEW q \in Seq(Tasks), NEW n,
         n = [[k EXCEPT !.pend = "DoneTask", !.dts = 1]
               EXCEPT !.cur = h, !.done = q, !.timer = TRUE]
         \/ n = [[k EXCEPT !.pend = "DoneTask", !.dts = 1]
                  EXCEPT !.cur = h, !.todo = q, !.first = FALSE, !.timer = TRUE]
  PROVE  n \in ClientRecord
<1>1. /\ 1 \in 0..2 /\ TRUE \in BOOLEAN /\ FALSE \in BOOLEAN
      /\ "DoneTask" \in {"None", "Connect", "DoneTask", "Disconnect"}
  OBVIOUS
<1>2. CASE n = [[k EXCEPT !.pend = "DoneTask", !.dts = 1]
               EXCEPT !.cur = h, !.done = q, !.timer = TRUE]
  BY <1>1, <1>2 DEF ClientRecord
<1>3. CASE n = [[k EXCEPT !.pend = "DoneTask", !.dts = 1]
                  EXCEPT !.cur = h, !.todo = q, !.first = FALSE, !.timer = TRUE]
  BY <1>1, <1>3 DEF ClientRecord
<1> QED
  BY <1>2, <1>3

\* A task goes back: the first of done, or of todo.
LEMMA GiveBackIs ==
  ASSUME NEW k \in ClientRecord, CanDone(k), NEW n, n = GiveBack(k)
  PROVE  /\ n \in ClientRecord /\ SameLine(k, n) /\ SameModes(k, n)
         /\ n.pend = "DoneTask" /\ n.dts = 1 /\ n.dsmt = k.dsmt
         /\ n.assert = k.assert /\ n.proc = k.proc /\ n.run = k.run
         /\ \/ /\ k.done # <<>> /\ n.cur = Head(k.done) /\ n.done = Tail(k.done)
               /\ n.todo = k.todo
            \/ /\ k.todo # <<>> /\ n.cur = Head(k.todo) /\ n.todo = Tail(k.todo)
               /\ n.done = k.done
<1>2. k.done # <<>> => Head(k.done) \in Held /\ Tail(k.done) \in Seq(Tasks)
  BY ClientRead, Popped DEF Held
<1>3. k.todo # <<>> => Head(k.todo) \in Held /\ Tail(k.todo) \in Seq(Tasks)
  BY ClientRead, Popped DEF Held
<1>4. CASE k.done # <<>>
  <2> DEFINE h == Head(k.done)  q == Tail(k.done)
  <2>1. n = [[k EXCEPT !.pend = "DoneTask", !.dts = 1]
               EXCEPT !.cur = h, !.done = q, !.timer = TRUE]
    BY <1>4 DEF GiveBack, Arm
  <2>a. h \in Held /\ q \in Seq(Tasks)
    BY <1>2, <1>4
  <2> HIDE DEF h, q
  <2>2. n \in ClientRecord
    BY <2>1, <2>a, GivenTyped
  <2>3. n.pend = "DoneTask" /\ n.dts = 1 /\ n.cur = h /\ n.done = q
    BY <2>1 DEF ClientRecord
  <2>4. /\ SameLine(k, n) /\ SameModes(k, n) /\ n.dsmt = k.dsmt
        /\ n.assert = k.assert /\ n.proc = k.proc /\ n.run = k.run /\ n.todo = k.todo
    BY <2>1 DEF SameLine, SameModes
  <2> QED
    BY <2>2, <2>3, <2>4, <1>4 DEF h, q
<1>5. CASE k.done = <<>>
  <2>0. k.todo # <<>>
    BY <1>5 DEF CanDone
  <2> DEFINE h == Head(k.todo)  q == Tail(k.todo)
  <2>1. n = [[k EXCEPT !.pend = "DoneTask", !.dts = 1]
               EXCEPT !.cur = h, !.todo = q, !.first = FALSE,
                      !.timer = TRUE]
    BY <1>5 DEF GiveBack, Arm
  <2>a. h \in Held /\ q \in Seq(Tasks)
    BY <2>0, <1>3
  <2> HIDE DEF h, q
  <2>2. n \in ClientRecord
    BY <2>1, <2>a, GivenTyped
  <2>3. n.pend = "DoneTask" /\ n.dts = 1 /\ n.cur = h /\ n.todo = q
    BY <2>1 DEF ClientRecord
  <2>4. /\ SameLine(k, n) /\ SameModes(k, n) /\ n.dsmt = k.dsmt
        /\ n.assert = k.assert /\ n.proc = k.proc /\ n.run = k.run /\ n.done = k.done
    BY <2>1 DEF SameLine, SameModes
  <2> QED
    BY <2>0, <2>2, <2>3, <2>4 DEF h, q
<1> QED
  BY <1>4, <1>5

\* It was there before, and once.
LEMMA GiveBackKeeps ==
  ASSUME NEW k \in ClientRecord, Managing(k), CanDone(k), k.conn = TRUE, k.pend = "None",
         NEW n, n = GiveBack(k)
  PROVE  n \in ClientRecord /\ Managing(n) /\ Undisturbed(k, n) /\ Own(n) = Own(k)
<1>1. /\ n \in ClientRecord /\ SameLine(k, n) /\ SameModes(k, n)
      /\ n.pend = "DoneTask" /\ n.dts = 1 /\ n.dsmt = k.dsmt
      /\ n.assert = k.assert /\ n.proc = k.proc /\ n.run = k.run
  BY GiveBackIs
<1>2. \/ /\ k.done # <<>> /\ n.cur = Head(k.done) /\ n.done = Tail(k.done)
         /\ n.todo = k.todo
      \/ /\ k.todo # <<>> /\ n.cur = Head(k.todo) /\ n.todo = Tail(k.todo)
         /\ n.done = k.done
  BY GiveBackIs
<1>3. k.cur = NoTask /\ k.dts = 0 /\ k.assert
  BY DEF Managing, Agreed
<1>4. Once(k) /\ Agreed(k)
  BY DEF Managing
<1>5. Own(n) = Own(k) /\ Once(n) /\ n.cur # NoTask
  <2>1. CASE k.done # <<>> /\ n.cur = Head(k.done) /\ n.done = Tail(k.done) /\ n.todo = k.todo
    <3>1. /\ InQueue(k.done) = {n.cur} \cup InQueue(n.done) /\ n.cur \in Tasks
          /\ IsInjective(k.done) => IsInjective(n.done) /\ n.cur \notin InQueue(n.done)
      BY <2>1, ClientRead, Popped
    <3> QED
      BY <3>1, <2>1, <1>1, <1>3, <1>4, Nothing DEF Own, Once
  <2>2. CASE k.todo # <<>> /\ n.cur = Head(k.todo) /\ n.todo = Tail(k.todo) /\ n.done = k.done
    <3>1. /\ InQueue(k.todo) = {n.cur} \cup InQueue(n.todo) /\ n.cur \in Tasks
          /\ IsInjective(k.todo) => IsInjective(n.todo) /\ n.cur \notin InQueue(n.todo)
      BY <2>2, ClientRead, Popped
    <3> QED
      BY <3>1, <2>2, <1>1, <1>3, <1>4, Nothing DEF Own, Once
  <2> QED
    BY <1>2, <2>1, <2>2
<1>6. Agreed(n)
  BY <1>1, <1>3, <1>4, <1>5 DEF Agreed, SameLine, SameModes
<1> QED
  BY <1>1, <1>3, <1>5, <1>6 DEF Managing, Undisturbed

\* What a manager that leaves, and one that comes, leaves behind.
LEMMA LeftTyped ==
  ASSUME NEW k \in ClientRecord
  PROVE  /\ [k EXCEPT !.pend = "Disconnect", !.timer = TRUE] \in ClientRecord
         /\ [k EXCEPT !.pend = "Connect", !.timer = TRUE] \in ClientRecord
  BY DEF ClientRecord

\* The manager, connected to the source, gives a task back or leaves.
LEMMA GetOrDoneTaskKeeps ==
  ASSUME NEW k \in ClientRecord, Managing(k), k.conn = TRUE, k.pend = "None",
         NEW n, n = GetOrDoneTask(k)
  PROVE  n \in ClientRecord /\ Managing(n) /\ Undisturbed(k, n) /\ Own(n) = Own(k)
<1>1. k.cur = NoTask /\ k.dts = 0 /\ k.assert = TRUE
  BY DEF Managing, Agreed
<1>2. Check(k, k.conn /\ k.pend = "None") = k
  BY <1>1 DEF Check, ClientRecord
<1>3. Check(k, k.cur = NoTask /\ k.dts = 0) = k
  BY <1>1 DEF Check, ClientRecord
<1>4. n = IF CanDone(k) THEN GiveBack(k) ELSE Arm([k EXCEPT !.pend = "Disconnect"])
  BY <1>2, <1>3 DEF GetOrDoneTask
<1>5. CASE CanDone(k)
  BY <1>4, <1>5, GiveBackKeeps
<1>6. CASE ~CanDone(k)
  <2>1. n = [k EXCEPT !.pend = "Disconnect", !.timer = TRUE]
    BY <1>4, <1>6 DEF Arm
  <2>2. n \in ClientRecord
    BY <2>1, LeftTyped
  <2>3. n.pend = "Disconnect"
    BY <2>1 DEF ClientRecord
  <2>4. /\ SameLine(k, n) /\ SameModes(k, n) /\ SameQueues(k, n) /\ n.dsmt = k.dsmt
        /\ n.assert = k.assert
    BY <2>1 DEF SameLine, SameModes, SameQueues
  <2>5. Own(n) = Own(k)
    BY <2>4 DEF Own, SameQueues
  <2>6. Managing(n)
    BY <2>3, <2>4, <2>5, <1>1 DEF Managing, Agreed, Once, SameLine, SameModes, SameQueues
  <2> QED
    BY <2>2, <2>4, <2>5, <2>6 DEF Undisturbed, SameQueues
<1> QED
  BY <1>5, <1>6

\* A manager that must connect is not about to quit.
LEMMA MustConnectNotLeaving ==
  ASSUME NEW k \in ClientRecord, Managing(k), MustConnect(k)
  PROVE  ~k.tsQuit
<1> SUFFICES ASSUME k.tsQuit PROVE FALSE
  OBVIOUS
<1>1. k.todo = <<>> /\ k.done = <<>> /\ k.dsmt
  BY DEF Managing, Agreed
<1>2. ~CanDone(k)
  BY <1>1 DEF CanDone
<1>3. Len(k.done) = 0 /\ DoneHigh > 0 /\ DoneHigh \in Nat
  BY <1>1, LdrAssumption
<1> QED
  BY <1>1, <1>2, <1>3 DEF MustConnect

\* It connects, when it must and is not.
LEMMA CheckStartExchangeKeeps ==
  ASSUME NEW k \in ClientRecord, Managing(k), NEW n, n = CheckStartExchange(k)
  PROVE  /\ n \in ClientRecord /\ Managing(n)
         /\ SameLine(k, n) /\ SameModes(k, n) /\ SameQueues(k, n) /\ n.dsmt = k.dsmt
         /\ n.outsched = k.outsched
<1>1. CASE n = k
  BY <1>1 DEF SameLine, SameModes, SameQueues
<1>2. CASE n # k
  <2>1. ~k.conn /\ k.pend # "Connect" /\ MustConnect(k)
    BY <1>2 DEF CheckStartExchange
  <2>2. ~k.tsQuit
    BY <2>1, MustConnectNotLeaving
  <2>3. k.pend = "None" /\ k.assert = TRUE
    BY <2>1, <2>2, ClientRead DEF Managing, Agreed
  <2>4. Check(k, k.pend = "None") = k
    BY <2>3 DEF Check, ClientRecord
  <2>5. n = [k EXCEPT !.pend = "Connect", !.timer = TRUE]
    BY <1>2, <2>4 DEF CheckStartExchange, Arm
  <2>6. n \in ClientRecord /\ n.pend = "Connect"
    <3>1. n \in ClientRecord
      BY <2>5 DEF ClientRecord
    <3>2. n.pend = "Connect"
      BY <2>5 DEF ClientRecord
    <3> QED
      BY <3>1, <3>2
  <2>7. /\ SameLine(k, n) /\ SameModes(k, n) /\ SameQueues(k, n) /\ n.dsmt = k.dsmt
        /\ n.assert = k.assert /\ n.outsched = k.outsched
    BY <2>5 DEF SameLine, SameModes, SameQueues
  <2>8. Own(n) = Own(k)
    BY <2>7 DEF Own, SameQueues
  <2>9. Managing(n)
    BY <2>1, <2>2, <2>3, <2>6, <2>7, <2>8
       DEF Managing, Agreed, Once, SameLine, SameModes, SameQueues
  <2> QED
    BY <2>6, <2>7, <2>9
<1> QED
  BY <1>1, <1>2

----------------------------------------------------------------------------
(* Telling the server that no more tasks are wanted *)

\* Something is put in front of what is to be sent.
Speaks(k, n) ==
  /\ n.open = k.open /\ n.tri = k.tri /\ n.tdi = k.tdi /\ n.lock = k.lock
  /\ n.take = k.take /\ n.why = k.why
  /\ \/ n.send = k.send /\ n.out = k.out
     \/ /\ k.open /\ n.send = <<NoMoreTasks>> \o k.send
        /\ \/ n.out = k.out
           \/ k.out = NoPacket /\ ~k.lock /\ n.out = ControlResponse(NoMoreTasks)
           \/ k.out = NoPacket /\ k.tdi.act = "FileSendB" /\ n.out = FileBody

\* What is to be written next.
LEMMA OutTyped ==
  ASSUME NEW k \in ClientRecord, NEW p \in Packets, NEW n, n = [k EXCEPT !.out = p]
  PROVE  /\ n \in ClientRecord /\ n.out = p
<1>1. n \in ClientRecord
  BY DEF ClientRecord
<1>2. n.out = p
  BY DEF ClientRecord
<1> QED
  BY <1>1, <1>2

\* An answer goes first, unless a file is on its way.
LEMMA AnswersFirst ==
  ASSUME NEW k \in ClientRecord, k.send # <<>>, NEW n, n = ClientSends(k)
  PROVE  \E p \in Packets :
           /\ n = [k EXCEPT !.out = p]
           /\ \/ p = k.out
              \/ k.out = NoPacket /\ ~k.lock /\ p = ControlResponse(Head(k.send))
              \/ k.out = NoPacket /\ k.tdi.act = "FileSendB" /\ p = FileBody
<1>1. k.out \in Packets /\ k.lock \in BOOLEAN /\ k.open \in BOOLEAN
  BY ClientRead
<1>2. k = [k EXCEPT !.out = k.out]
  BY DEF ClientRecord
<1>3. ControlResponse(Head(k.send)) \in Packets /\ FileBody \in Packets
  <2>1. Head(k.send) \in Orders \cup {NoMoreTasks}
    BY ClientRead, Popped
  <2> QED
    BY <2>1, PacketsTyped
<1>4. CASE k.out = NoPacket /\ k.open /\ ~k.lock
  <2>1. n = [k EXCEPT !.out = ControlResponse(Head(k.send))]
    BY <1>4 DEF ClientSends
  <2> QED
    BY <2>1, <1>3, <1>4
<1>5. CASE k.out = NoPacket /\ k.open /\ k.lock /\ k.tdi.act = "FileSendB"
  <2>1. n = [k EXCEPT !.out = FileBody]
    BY <1>5 DEF ClientSends
  <2> QED
    BY <2>1, <1>3, <1>5
<1>6. CASE ~(k.out = NoPacket /\ k.open)
           \/ (k.lock /\ k.tdi.act # "FileSendB")
  <2>1. n = k
    BY <1>6 DEF ClientSends
  <2> QED
    BY <2>1, <1>1, <1>2
<1> QED
  BY <1>1, <1>4, <1>5, <1>6

\* The server is told, and no job is started any more.
LEMMA DontStartIs ==
  ASSUME NEW k \in ClientRecord, NEW n, n = DontStartMoreTasks(k)
  PROVE  /\ n \in ClientRecord /\ Speaks(k, n) /\ SameQueues(k, n) /\ SameModes(k, n)
         /\ n.pend = k.pend /\ n.assert = k.assert /\ n.dsmt = TRUE
<1> DEFINE m == NoMoreNewTasks(k)
<1>1. /\ m \in ClientRecord /\ Speaks(k, m) /\ SameQueues(k, m) /\ SameModes(k, m)
      /\ m.pend = k.pend /\ m.assert = k.assert
  <2>1. CASE m = k
    BY <2>1 DEF Speaks, SameQueues, SameModes
  <2>2. CASE m # k
    <3> DEFINE q == <<NoMoreTasks>> \o k.send  w == [k EXCEPT !.send = q]
    <3>1. k.open /\ m = ClientSends(w)
      BY <2>2 DEF NoMoreNewTasks
    <3>2. q \in Seq(Orders \cup {NoMoreTasks}) /\ q # <<>> /\ Head(q) = NoMoreTasks
      <4>1. k.send \in Seq(Orders \cup {NoMoreTasks})
        BY ClientRead
      <4>2. <<NoMoreTasks>> \in Seq(Orders \cup {NoMoreTasks}) /\ Len(<<NoMoreTasks>>) = 1
        OBVIOUS
      <4>3. /\ q \in Seq(Orders \cup {NoMoreTasks}) /\ Len(q) = 1 + Len(k.send)
            /\ \A i \in 1..Len(q) : q[i] = IF i <= 1 THEN <<NoMoreTasks>>[i] ELSE k.send[i - 1]
        BY <4>1, <4>2, ConcatProperties
      <4>4. Len(k.send) \in Nat
        BY <4>1, LenProperties
      <4>5. q[1] = NoMoreTasks
        BY <4>3, <4>4
      <4> HIDE DEF q
      <4>6. q # <<>>
        BY <4>3, <4>4, EmptySeq
      <4> QED
        BY <4>3, <4>5, <4>6, Popped
    <3> HIDE DEF m, q
    <3>3. w \in ClientRecord
      BY <3>2 DEF ClientRecord
    <3>4. w.send = q
      BY DEF ClientRecord
    <3>5. /\ w.open = k.open /\ w.tri = k.tri /\ w.tdi = k.tdi /\ w.lock = k.lock
          /\ w.take = k.take /\ w.why = k.why /\ w.out = k.out
          /\ SameQueues(k, w) /\ SameModes(k, w) /\ w.pend = k.pend /\ w.assert = k.assert
      BY DEF SameQueues, SameModes
    <3> HIDE DEF w
    <3>6. PICK p \in Packets :
            /\ m = [w EXCEPT !.out = p]
            /\ \/ p = w.out
               \/ w.out = NoPacket /\ ~w.lock /\ p = ControlResponse(Head(w.send))
               \/ w.out = NoPacket /\ w.tdi.act = "FileSendB" /\ p = FileBody
      BY <3>1, <3>2, <3>3, <3>4, AnswersFirst
    <3>7. m \in ClientRecord /\ m.out = p
      BY <3>3, <3>6, OutTyped
    <3>8. /\ m.open = w.open /\ m.tri = w.tri /\ m.tdi = w.tdi /\ m.lock = w.lock
          /\ m.take = w.take /\ m.why = w.why /\ m.send = w.send
          /\ SameQueues(w, m) /\ SameModes(w, m) /\ m.pend = w.pend /\ m.assert = w.assert
      BY <3>6 DEF SameQueues, SameModes
    <3>9. Speaks(k, m)
      BY <3>1, <3>2, <3>4, <3>5, <3>6, <3>7, <3>8 DEF Speaks, q
    <3> QED
      BY <3>5, <3>7, <3>8, <3>9 DEF SameQueues, SameModes
  <2> QED
    BY <2>1, <2>2
<1>2. n = [m EXCEPT !.dsmt = TRUE]
  BY DEF DontStartMoreTasks
<1> HIDE DEF m
<1>3. n \in ClientRecord
  BY <1>1, <1>2 DEF ClientRecord
<1>4. n.dsmt = TRUE
  BY <1>1, <1>2 DEF ClientRecord
<1>5. /\ n.open = m.open /\ n.tri = m.tri /\ n.tdi = m.tdi /\ n.lock = m.lock
      /\ n.take = m.take /\ n.why = m.why /\ n.send = m.send /\ n.out = m.out
      /\ SameQueues(m, n) /\ SameModes(m, n) /\ n.pend = m.pend /\ n.assert = m.assert
  BY <1>2 DEF SameQueues, SameModes
<1> QED
  BY <1>1, <1>3, <1>4, <1>5 DEF Speaks, SameQueues, SameModes

\* What was to be answered still is.
LEMMA OwingMore ==
  ASSUME NEW q \in Seq(Orders \cup {NoMoreTasks}), NEW r \in Seq(Orders), Owing(q, r)
  PROVE  Owing(<<NoMoreTasks>> \o q, r)
<1> DEFINE p == <<NoMoreTasks>> \o q
<1>1. PICK n \in Nat : /\ Len(q) = n + Len(r)
                       /\ \A i \in 1..n : q[i] = NoMoreTasks
                       /\ \A i \in 1..Len(r) : q[n + i] = r[i]
  BY DEF Owing
<1>2. <<NoMoreTasks>> \in Seq(Orders \cup {NoMoreTasks}) /\ Len(<<NoMoreTasks>>) = 1
      /\ <<NoMoreTasks>>[1] = NoMoreTasks
  OBVIOUS
<1>3. /\ Len(p) = 1 + Len(q)
      /\ \A i \in 1..(1 + Len(q)) : p[i] = IF i <= 1 THEN <<NoMoreTasks>>[i] ELSE q[i - 1]
  BY <1>2, ConcatProperties
<1>4. Len(q) \in Nat /\ Len(r) \in Nat
  BY LenProperties
<1> HIDE DEF p
<1>5. \A i \in 1..(n + 1) : p[i] = NoMoreTasks
  <2> TAKE i \in 1..(n + 1)
  <2>1. CASE i = 1
    BY <2>1, <1>2, <1>3, <1>4
  <2>2. CASE i # 1
    <3>1. i - 1 \in 1..n /\ i \in 1..(1 + Len(q)) /\ ~(i <= 1)
      BY <2>2, <1>1, <1>4
    <3> QED
      BY <3>1, <1>1, <1>3
  <2> QED
    BY <2>1, <2>2
<1>6. \A i \in 1..Len(r) : p[(n + 1) + i] = r[i]
  <2> TAKE i \in 1..Len(r)
  <2>1. /\ (n + 1) + i \in 1..(1 + Len(q)) /\ ~((n + 1) + i <= 1)
        /\ ((n + 1) + i) - 1 = n + i
    BY <1>1, <1>4
  <2> QED
    BY <2>1, <1>1, <1>3
<1>7. n + 1 \in Nat /\ Len(p) = (n + 1) + Len(r)
  BY <1>1, <1>3, <1>4
<1> QED
  BY <1>5, <1>6, <1>7 DEF Owing, p

\* The one being answered stays behind notices only.
LEMMA FirstMore ==
  ASSUME NEW q \in Seq(Orders \cup {NoMoreTasks}), NEW x
  PROVE  /\ First(q, x) => First(<<NoMoreTasks>> \o q, x)
         /\ First(<<NoMoreTasks>> \o q, NoMoreTasks)
<1> DEFINE p == <<NoMoreTasks>> \o q
<1>1. <<NoMoreTasks>> \in Seq(Orders \cup {NoMoreTasks}) /\ Len(<<NoMoreTasks>>) = 1
      /\ <<NoMoreTasks>>[1] = NoMoreTasks
  OBVIOUS
<1>2. /\ p \in Seq(Orders \cup {NoMoreTasks}) /\ Len(p) = 1 + Len(q)
      /\ \A i \in 1..(1 + Len(q)) : p[i] = IF i <= 1 THEN <<NoMoreTasks>>[i] ELSE q[i - 1]
  BY <1>1, ConcatProperties
<1>3. Len(q) \in Nat /\ DOMAIN q = 1..Len(q)
  BY LenProperties
<1>4. DOMAIN p = 1..(1 + Len(q))
  BY <1>2, LenProperties
<1> HIDE DEF p
<1>5. p[1] = NoMoreTasks /\ 1 \in DOMAIN p
  BY <1>1, <1>2, <1>3, <1>4
<1>6. First(p, NoMoreTasks)
  BY <1>5 DEF First
<1>7. ASSUME First(q, x) PROVE First(p, x)
  <2>1. PICK i \in DOMAIN q : q[i] = x /\ \A j \in 1..(i - 1) : q[j] = NoMoreTasks
    BY <1>7 DEF First
  <2>2. i + 1 \in DOMAIN p /\ p[i + 1] = x
    <3>1. i + 1 \in 1..(1 + Len(q)) /\ ~(i + 1 <= 1) /\ (i + 1) - 1 = i
      BY <1>3
    <3> QED
      BY <3>1, <2>1, <1>2, <1>4
  <2>3. \A j \in 1..((i + 1) - 1) : p[j] = NoMoreTasks
    <3> TAKE j \in 1..((i + 1) - 1)
    <3>1. CASE j = 1
      BY <3>1, <1>5
    <3>2. CASE j # 1
      <4>1. j \in 1..(1 + Len(q)) /\ ~(j <= 1) /\ j - 1 \in 1..(i - 1)
        BY <3>2, <1>3
      <4> QED
        BY <4>1, <2>1, <1>2
    <3> QED
      BY <3>1, <3>2
  <2> QED
    BY <2>2, <2>3 DEF First
<1> QED
  BY <1>6, <1>7 DEF p

\* What the packets say.
LEMMA Saying ==
  /\ NoPacket.cmd = "none" /\ NowConnected.cmd = "NowConnected" /\ FileBody.cmd = "FileBody"
  /\ \A t : /\ TaskRequest(t).cmd = "TaskRequest" /\ TaskRequest(t).task = t
            /\ DoneComplete(t).cmd = "DoneComplete" /\ DoneComplete(t).task = t
  /\ \A t, n : /\ FileRequest(t, n).cmd = "FileRequest" /\ FileRequest(t, n).task = t
               /\ FileRequest(t, n).n = n
               /\ FileDownload(t, n).cmd = "FileDownload" /\ FileDownload(t, n).task = t
               /\ FileDownload(t, n).n = n
               /\ FileUpload(t, n).cmd = "FileUpload" /\ FileUpload(t, n).task = t
  /\ \A t, v : /\ TaskResponse(t, v).cmd = "TaskResponse" /\ TaskResponse(t, v).task = t
               /\ TaskResponse(t, v).what = v
               /\ TaskDone(t, v).cmd = "TaskDone" /\ TaskDone(t, v).task = t
               /\ TaskDone(t, v).what = v
  /\ \A c : /\ ControlRequest(c).cmd = "ControlRequest" /\ ControlRequest(c).what = c
            /\ ControlResponse(c).cmd = "ControlResponse" /\ ControlResponse(c).what = c
BY DEF NoPacket, NowConnected, FileBody, TaskRequest, DoneComplete, FileRequest, FileDownload,
  FileUpload, TaskResponse, TaskDone, ControlRequest, ControlResponse, Packet

\* Telling the server leaves the rest of the connection as it is.
LEMMA SpeaksTalking ==
  ASSUME NEW k \in ClientRecord, NEW n \in ClientRecord, Talking(k), Speaks(k, n),
         Own(n) = Own(k), n.cur = k.cur, n.dts = k.dts, n.run = k.run
  PROVE  Talking(n) /\ Same(k, n)
<1> USE DEF Speaks
<1>1. n.out # k.out =>
        /\ k.out = NoPacket
        /\ \/ ~k.lock /\ n.out = ControlResponse(NoMoreTasks)
           \/ k.tdi.act = "FileSendB" /\ n.out = FileBody
  OBVIOUS
<1>2. n.out.cmd # k.out.cmd => k.out.cmd = "none" /\ n.out.cmd \in {"ControlResponse", "FileBody"}
  BY <1>1, Saying
<1>3. Receiving(n)
  BY DEF Talking, Receiving
<1>4. Telling(n)
  BY <1>2 DEF Talking, Telling
<1>5. ClientOut(n)
  <2>1. \/ n.send = k.send
        \/ n.send = <<NoMoreTasks>> \o k.send
    OBVIOUS
  <2>2. \A x : First(k.send, x) => First(n.send, x)
    BY <2>1, ClientRead, FirstMore
  <2>3. n.lock <=> n.out.cmd = "FileUpload" \/ n.tdi.act = "FileSendB"
    BY <1>2 DEF Talking, ClientOut
  <2>4. n.tdi.act = "Complete" => n.out.cmd = "DoneComplete"
    BY <1>2 DEF Talking, ClientOut
  <2>5. n.tdi.act = "FileSendB" => n.tdi.n > 0 /\ n.out.cmd \in {"none", "FileBody"}
    BY <1>1, Saying DEF Talking, ClientOut
  <2>6. CASE n.out = k.out
    <3>1. \/ n.out = NoPacket
          \/ n.out = NowConnected
          \/ /\ n.tri.act \in {"None", "Response"} /\ n.tri.resp # "none"
             /\ n.out = TaskResponse(n.tri.task, n.tri.resp)
          \/ n.tri.act = "FileReq" /\ n.out = FileRequest(n.tri.task, n.tri.n)
          \/ n.tdi.act = "SendDone" /\ n.out = TaskDone(n.tdi.task, n.run[n.tdi.task])
          \/ /\ n.tdi.act = "FileSendH" /\ n.tdi.n > 0
             /\ n.out = FileUpload(n.tdi.task, n.tdi.n)
          \/ n.tdi.act = "FileSendB" /\ n.out = FileBody
          \/ n.tdi.act = "Complete" /\ n.out = DoneComplete(n.tdi.task)
          \/ ~n.lock /\ First(n.send, n.out.what) /\ n.out = ControlResponse(n.out.what)
      BY <2>2, <2>6 DEF Talking, ClientOut
    <3> QED
      BY <3>1, <2>3, <2>4, <2>5 DEF ClientOut
  <2>7. CASE n.out # k.out /\ ~k.lock /\ n.out = ControlResponse(NoMoreTasks)
    <3>1. n.send = <<NoMoreTasks>> \o k.send
      BY <2>7
    <3>2. First(n.send, NoMoreTasks)
      BY <3>1, ClientRead, FirstMore
    <3>3. n.out.what = NoMoreTasks
      BY <2>7, Saying
    <3> QED
      BY <2>7, <3>2, <3>3, <2>3, <2>4, <2>5 DEF ClientOut
  <2>8. CASE n.out # k.out /\ k.tdi.act = "FileSendB" /\ n.out = FileBody
    BY <2>8, <2>3, <2>4, <2>5 DEF ClientOut
  <2> QED
    BY <1>1, <2>6, <2>7, <2>8
<1>6. Talking(n)
  BY <1>3, <1>4, <1>5 DEF Talking
<1>7. Then(n) = Then(k)
  BY <1>2 DEF Then
<1>8. \A r \in Seq(Orders) : Owing(k.send, r) => Owing(n.send, r)
  BY ClientRead, OwingMore
<1>9. Has(n) = Has(k)
  BY OwnType
<1> QED
  BY <1>6, <1>7, <1>8, <1>9 DEF Same

----------------------------------------------------------------------------
(* What the client writes next *)

\* Nothing but one packet and what belongs to it.
LEMMA ClientSendsIs ==
  ASSUME NEW k \in ClientRecord, Talking(k), NEW n, n = ClientSends(k)
  PROVE  \/ n = k
         \/ /\ k.open /\ k.out = NoPacket
            /\ \/ /\ ~k.lock /\ k.send # <<>>
                  /\ n = [k EXCEPT !.out = ControlResponse(Head(k.send))]
               \/ /\ ~k.lock /\ k.tri.resp # "none" /\ k.tri.act \in {"None", "Response"}
                  /\ n = [k EXCEPT !.out = TaskResponse(k.tri.task, k.tri.resp)]
               \/ /\ ~k.lock /\ k.tri.resp = "Accepted" /\ k.tri.act = "FileReq"
                  /\ n = SendNextFileRequest(k)
               \/ /\ ~k.lock /\ k.tdi.act = "SendDone"
                  /\ ~(k.tri.resp # "none" /\ k.tri.act \in {"None", "Response"})
                  /\ n = [k EXCEPT !.out = TaskDone(k.tdi.task, k.run[k.tdi.task])]
               \/ ~k.lock /\ k.tdi.act = "FileSendH" /\ n = SendNextFileUploadHdr(k)
               \/ /\ k.lock /\ k.tdi.act = "FileSendB"
                  /\ n = [k EXCEPT !.out = FileBody]
<1> DEFINE answer == k.tri.resp # "none" /\ k.tri.act \in {"None", "Response"}
           files  == k.tri.resp = "Accepted" /\ k.tri.act = "FileReq"
           a == [k EXCEPT !.out = ControlResponse(Head(k.send))]
           b == [k EXCEPT !.out = TaskResponse(k.tri.task, k.tri.resp)]
           c == SendNextFileRequest(k)
           d == [k EXCEPT !.out = TaskDone(k.tdi.task, k.run[k.tdi.task])]
           e == SendNextFileUploadHdr(k)
           f == [k EXCEPT !.out = FileBody]
           free == k.out = NoPacket /\ k.open
           next == free /\ ~k.lock /\ k.send = <<>>
<1>1. n = CASE free /\ ~k.lock /\ k.send # <<>> -> a
            [] next /\ answer -> b
            [] next /\ files  -> c
            [] next /\ ~answer /\ ~files /\ k.tdi.act = "SendDone" -> d
            [] next /\ ~answer /\ ~files /\ k.tdi.act = "FileSendH" -> e
            [] free /\ k.lock /\ k.tdi.act = "FileSendB" -> f
            [] OTHER -> k
  BY DEF ClientSends
<1> HIDE DEF a, b, c, d, e, f
<1>2. \/ n = k
      \/ free /\ ~k.lock /\ k.send # <<>> /\ n = a
      \/ next /\ answer /\ n = b
      \/ next /\ files /\ n = c
      \/ next /\ ~answer /\ k.tdi.act = "SendDone" /\ n = d
      \/ next /\ k.tdi.act = "FileSendH" /\ n = e
      \/ free /\ k.lock /\ k.tdi.act = "FileSendB" /\ n = f
  BY <1>1
<1> QED
  BY <1>2 DEF a, b, c, d, e, f

\* The members that change when something is written.
Asking(k, t, p)  == [k EXCEPT !.tri = t, !.out = p]
Reported(k, d, p) == [k EXCEPT !.tdi = d, !.out = p]
Heading(k, d, p) == [k EXCEPT !.tdi = d, !.lock = TRUE, !.out = p]
Taken(k, t, x)   == [[k EXCEPT !.tri = t, !.take = x] EXCEPT !.timer = TRUE]

\* A file request is written.
LEMMA AskTyped ==
  ASSUME NEW k \in ClientRecord, NEW t \in Taking, NEW p \in Packets, NEW n,
         n = Asking(k, t, p)
  PROVE  n \in ClientRecord /\ n.tri = t /\ n.out = p
<1>1. n \in ClientRecord
  BY DEF ClientRecord, Asking
<1>2. n.tri = t /\ n.out = p
  BY DEF ClientRecord, Asking
<1> QED
  BY <1>1, <1>2

\* A report is written.
LEMMA TellTyped ==
  ASSUME NEW k \in ClientRecord, NEW d \in Reporting, NEW p \in Packets, NEW n,
         n = Reported(k, d, p)
  PROVE  n \in ClientRecord /\ n.tdi = d /\ n.out = p
<1>1. n \in ClientRecord
  BY DEF ClientRecord, Reported
<1>2. n.tdi = d /\ n.out = p
  BY DEF ClientRecord, Reported
<1> QED
  BY <1>1, <1>2

\* The header of a file is written.
LEMMA HeaderTyped ==
  ASSUME NEW k \in ClientRecord, NEW d \in Reporting, NEW p \in Packets, NEW n,
         n = Heading(k, d, p)
  PROVE  n \in ClientRecord /\ n.tdi = d /\ n.out = p /\ n.lock
<1>1. n \in ClientRecord
  BY DEF ClientRecord, Heading
<1>2. n.tdi = d /\ n.out = p /\ n.lock
  BY DEF ClientRecord, Heading
<1> QED
  BY <1>1, <1>2

\* A task is complete.
LEMMA TakeTyped ==
  ASSUME NEW k \in ClientRecord, NEW t \in Taking, NEW x \in Held, NEW n,
         n = Taken(k, t, x)
  PROVE  n \in ClientRecord /\ n.tri = t /\ n.take = x
<1>1. n \in ClientRecord
  BY DEF ClientRecord, Taken
<1>2. n.tri = t /\ n.take = x
  BY DEF ClientRecord, Taken
<1> QED
  BY <1>1, <1>2

\* One more file is asked for, or the task is complete.
LEMMA FileRequestIs ==
  ASSUME NEW k \in ClientRecord, k.take = NoTask, k.tri.task \in Tasks,
         NEW n, n = SendNextFileRequest(k)
  PROVE  /\ n \in ClientRecord
         /\ n.tri.task = k.tri.task /\ n.tri.resp = k.tri.resp
         /\ SameQueues(k, n) /\ SameModes(k, n) /\ n.open = k.open /\ n.tdi = k.tdi
         /\ n.lock = k.lock /\ n.send = k.send /\ n.why = k.why
         /\ n.dsmt = k.dsmt /\ n.pend = k.pend /\ n.assert = k.assert
         /\ \/ /\ n.tri.act = "Complete" /\ n.take = k.tri.task /\ n.out = k.out
            \/ /\ n.tri.act = k.tri.act /\ n.tri.n = k.tri.n + 1 /\ n.take = k.take
               /\ n.out = FileRequest(n.tri.task, n.tri.n)
<1>1. k.tri \in Taking /\ k.assert \in BOOLEAN
  BY ClientRead
<1>2. CASE k.tri.n = Downloads[k.tri.task]
  <2> DEFINE t == [k.tri EXCEPT !.act = "Complete"]
  <2>1. t \in Taking
    BY <1>1 DEF Taking
  <2>2. t.act = "Complete"
    BY <1>1 DEF Taking
  <2>3. t.task = k.tri.task /\ t.resp = k.tri.resp /\ t.n = k.tri.n
    OBVIOUS
  <2>4. Check(k, k.take = NoTask) = k
    BY <1>1 DEF Check, ClientRecord
  <2>5. n = Taken(k, t, k.tri.task)
    BY <1>2, <2>4 DEF SendNextFileRequest, TaskRequestComplete, Arm, Taken
  <2> HIDE DEF t
  <2>6. k.tri.task \in Held
    BY <1>1 DEF Taking
  <2>7. n \in ClientRecord /\ n.tri = t /\ n.take = k.tri.task
    BY <2>1, <2>5, <2>6, TakeTyped
  <2>8. /\ SameQueues(k, n) /\ SameModes(k, n) /\ n.open = k.open /\ n.tdi = k.tdi
        /\ n.lock = k.lock /\ n.send = k.send /\ n.why = k.why /\ n.out = k.out
        /\ n.dsmt = k.dsmt /\ n.pend = k.pend /\ n.assert = k.assert
    BY <2>5 DEF Taken, SameQueues, SameModes
  <2> QED
    BY <2>2, <2>3, <2>7, <2>8
<1>3. CASE k.tri.n # Downloads[k.tri.task]
  <2> DEFINE t == [k.tri EXCEPT !.n = k.tri.n + 1]
             p == FileRequest(k.tri.task, k.tri.n + 1)
  <2>1. t \in Taking
    BY <1>1 DEF Taking
  <2>2. t.n = k.tri.n + 1
    BY <1>1 DEF Taking
  <2>3. t.task = k.tri.task /\ t.resp = k.tri.resp /\ t.act = k.tri.act
    OBVIOUS
  <2>4. p \in Packets
    <3>1. k.tri.task \in Held /\ k.tri.n + 1 \in Nat
      BY <1>1 DEF Taking
    <3> QED
      BY <3>1, PacketsTyped
  <2>5. n = Asking(k, t, p)
    BY <1>3 DEF SendNextFileRequest, Asking
  <2>6. p = FileRequest(t.task, t.n)
    BY <2>2, <2>3
  <2> HIDE DEF t, p
  <2>7. n \in ClientRecord /\ n.tri = t /\ n.out = p
    BY <2>1, <2>4, <2>5, AskTyped
  <2>8. /\ SameQueues(k, n) /\ SameModes(k, n) /\ n.open = k.open /\ n.tdi = k.tdi
        /\ n.lock = k.lock /\ n.send = k.send /\ n.why = k.why /\ n.take = k.take
        /\ n.dsmt = k.dsmt /\ n.pend = k.pend /\ n.assert = k.assert
    BY <2>5 DEF Asking, SameQueues, SameModes
  <2> QED
    BY <2>2, <2>3, <2>6, <2>7, <2>8
<1> QED
  BY <1>2, <1>3

\* One more file is announced, or the report is complete.
LEMMA FileUploadIs ==
  ASSUME NEW k \in ClientRecord, NEW n, n = SendNextFileUploadHdr(k)
  PROVE  /\ n \in ClientRecord
         /\ n.tdi.task = k.tdi.task /\ n.tri = k.tri /\ n.take = k.take
         /\ SameQueues(k, n) /\ SameModes(k, n) /\ n.open = k.open
         /\ n.send = k.send /\ n.why = k.why
         /\ n.dsmt = k.dsmt /\ n.pend = k.pend /\ n.assert = k.assert
         /\ \/ /\ n.tdi.act = "Complete" /\ n.tdi.n = k.tdi.n /\ n.lock = k.lock
               /\ n.out = DoneComplete(n.tdi.task)
               /\ k.run[k.tdi.task] # "ok" \/ k.tdi.n = Uploads[k.tdi.task]
            \/ /\ n.tdi.act = k.tdi.act /\ n.tdi.n = k.tdi.n + 1 /\ n.lock
               /\ n.out = FileUpload(n.tdi.task, n.tdi.n)
<1>1. k.tdi \in Reporting
  BY ClientRead
<1>2. CASE k.run[k.tdi.task] # "ok" \/ k.tdi.n = Uploads[k.tdi.task]
  <2> DEFINE t == [k.tdi EXCEPT !.act = "Complete"]
             p == DoneComplete(k.tdi.task)
  <2>1. t \in Reporting
    BY <1>1 DEF Reporting
  <2>2. t.act = "Complete"
    BY <1>1 DEF Reporting
  <2>3. t.task = k.tdi.task /\ t.n = k.tdi.n
    OBVIOUS
  <2>4. p \in Packets
    <3>1. k.tdi.task \in Held
      BY <1>1 DEF Reporting
    <3> QED
      BY <3>1, PacketsTyped
  <2>5. n = Reported(k, t, p)
    BY <1>2 DEF SendNextFileUploadHdr, Reported
  <2>6. p = DoneComplete(t.task)
    BY <2>3
  <2> HIDE DEF t, p
  <2>7. n \in ClientRecord /\ n.tdi = t /\ n.out = p
    BY <2>1, <2>4, <2>5, TellTyped
  <2>8. /\ SameQueues(k, n) /\ SameModes(k, n) /\ n.open = k.open /\ n.tri = k.tri
        /\ n.lock = k.lock /\ n.send = k.send /\ n.why = k.why /\ n.take = k.take
        /\ n.dsmt = k.dsmt /\ n.pend = k.pend /\ n.assert = k.assert
    BY <2>5 DEF Reported, SameQueues, SameModes
  <2> QED
    BY <1>2, <2>2, <2>3, <2>6, <2>7, <2>8
<1>3. CASE ~(k.run[k.tdi.task] # "ok" \/ k.tdi.n = Uploads[k.tdi.task])
  <2> DEFINE t == [k.tdi EXCEPT !.n = k.tdi.n + 1]
             p == FileUpload(k.tdi.task, k.tdi.n + 1)
  <2>1. t \in Reporting
    BY <1>1 DEF Reporting
  <2>2. t.n = k.tdi.n + 1
    BY <1>1 DEF Reporting
  <2>3. t.task = k.tdi.task /\ t.act = k.tdi.act
    OBVIOUS
  <2>4. p \in Packets
    <3>1. k.tdi.task \in Held /\ k.tdi.n + 1 \in Nat
      BY <1>1 DEF Reporting
    <3> QED
      BY <3>1, PacketsTyped
  <2>5. n = Heading(k, t, p)
    BY <1>3 DEF SendNextFileUploadHdr, Heading
  <2>6. p = FileUpload(t.task, t.n)
    BY <2>2, <2>3
  <2> HIDE DEF t, p
  <2>7. n \in ClientRecord /\ n.tdi = t /\ n.out = p /\ n.lock
    BY <2>1, <2>4, <2>5, HeaderTyped
  <2>8. /\ SameQueues(k, n) /\ SameModes(k, n) /\ n.open = k.open /\ n.tri = k.tri
        /\ n.send = k.send /\ n.why = k.why /\ n.take = k.take
        /\ n.dsmt = k.dsmt /\ n.pend = k.pend /\ n.assert = k.assert
    BY <2>5 DEF Heading, SameQueues, SameModes
  <2> QED
    BY <2>2, <2>3, <2>6, <2>7, <2>8
<1> QED
  BY <1>2, <1>3

\* The rest of the record, when something is written.
Besides(k, n) ==
  /\ SameQueues(k, n) /\ SameModes(k, n) /\ n.open = k.open
  /\ n.dsmt = k.dsmt /\ n.pend = k.pend /\ n.assert = k.assert

\* What is beside the record of a packet leaves the manager as it was.
LEMMA BesidesKeeps ==
  ASSUME NEW k, NEW n, Besides(k, n)
  PROVE  Own(n) = Own(k) /\ (Managing(k) => Managing(n))
<1>1. Own(n) = Own(k)
  BY DEF Besides, SameQueues, Own
<1> QED
  BY <1>1 DEF Besides, SameQueues, SameModes, Managing, Once, Agreed

\* A packet is written next.
Put(k, p) == [k EXCEPT !.out = p]

\* Putting a packet out changes no other member.
LEMMA PutIs ==
  ASSUME NEW k \in ClientRecord, NEW p \in Packets, NEW n, n = Put(k, p)
  PROVE  /\ n \in ClientRecord /\ n.out = p
         /\ Besides(k, n) /\ n.tri = k.tri /\ n.tdi = k.tdi /\ n.lock = k.lock
         /\ n.send = k.send /\ n.take = k.take /\ n.why = k.why
<1>1. n \in ClientRecord /\ n.out = p
  BY OutTyped DEF Put
<1>2. /\ Besides(k, n) /\ n.tri = k.tri /\ n.tdi = k.tdi /\ n.lock = k.lock
      /\ n.send = k.send /\ n.take = k.take /\ n.why = k.why
  BY DEF Put, Besides, SameQueues, SameModes
<1> QED
  BY <1>1, <1>2

\* A packet that only needs to be written.
LEMMA PacketTalking ==
  ASSUME NEW k \in ClientRecord, Talking(k), k.open, k.out = NoPacket,
         NEW p \in Packets,
         p.cmd \notin {"NowConnected", "FileUpload"},
         \/ ~k.lock /\ k.send # <<>> /\ p = ControlResponse(Head(k.send))
         \/ /\ ~k.lock /\ k.tri.resp # "none" /\ k.tri.act \in {"None", "Response"}
            /\ p = TaskResponse(k.tri.task, k.tri.resp)
         \/ /\ ~k.lock /\ k.tdi.act = "SendDone"
            /\ ~(k.tri.resp # "none" /\ k.tri.act \in {"None", "Response"})
            /\ p = TaskDone(k.tdi.task, k.run[k.tdi.task])
         \/ k.tdi.act = "FileSendB" /\ p = FileBody,
         NEW n, n = Put(k, p)
  PROVE  n \in ClientRecord /\ Talking(n) /\ Same(k, n) /\ Besides(k, n)
<1>1. n \in ClientRecord /\ n.out = p
  BY PutIs
<1>2. /\ Besides(k, n) /\ n.tri = k.tri /\ n.tdi = k.tdi /\ n.lock = k.lock
      /\ n.send = k.send /\ n.take = k.take /\ n.why = k.why
  BY PutIs
<1>3. n.run = k.run /\ n.cur = k.cur /\ n.dts = k.dts /\ n.open = k.open
  BY <1>2 DEF Besides, SameQueues
<1>4. Own(n) = Own(k) /\ Has(n) = Has(k)
  <2>1. Own(n) = Own(k)
    BY <1>2, BesidesKeeps
  <2> QED
    BY <2>1, <1>1, <1>2, OwnType
<1>5. k.out.cmd = "none"
  BY Saying
<1>6. Receiving(n)
  BY <1>2, <1>4 DEF Talking, Receiving
<1>7. Telling(n)
  <2>1. p.cmd = "TaskDone" => ~(k.tri.resp # "none" /\ k.tri.act \in {"None", "Response"})
    BY Saying
  <2>2. k.tri.act = "Response" => k.tri.resp # "none"
    <3>1. k.tri.resp = "none" => k.tri = FreeTri
      BY DEF Talking, Receiving
    <3>2. FreeTri.act = "None"
      BY DEF FreeTri
    <3> QED
      BY <3>1, <3>2
  <2>3. n.tri.task = n.tdi.task /\ n.tdi.task # NoTask =>
          n.tdi.act = "SendDone" /\ n.out.cmd # "TaskDone" /\ n.tri.act = "Response"
    BY <1>1, <1>2, <2>1, <2>2 DEF Talking, Telling
  <2> QED
    BY <1>2, <1>3, <2>3 DEF Talking, Telling
<1>8. ClientOut(n)
  <2>1. n.lock <=> n.out.cmd = "FileUpload" \/ n.tdi.act = "FileSendB"
    BY <1>1, <1>2, <1>5 DEF Talking, ClientOut
  <2>2. n.tdi.act # "Complete"
    BY <1>2, <1>5 DEF Talking, ClientOut
  <2>3. n.tdi.act = "FileSendB" => n.tdi.n > 0 /\ n.out.cmd \in {"none", "FileBody"}
    BY <1>1, <1>2, Saying DEF Talking, ClientOut
  <2>4. CASE ~k.lock /\ k.send # <<>> /\ p = ControlResponse(Head(k.send))
    <3>1. First(n.send, Head(k.send))
      <4>1. k.send \in Seq(Orders \cup {NoMoreTasks})
        BY ClientRead
      <4>2. Head(k.send) = k.send[1] /\ 1 \in DOMAIN k.send
        BY <2>4, <4>1, Popped, QueueType
      <4>3. First(k.send, Head(k.send))
        BY <4>2 DEF First
      <4> QED
        BY <4>3, <1>2
    <3>2. n.out.what = Head(k.send)
      BY <1>1, <2>4, Saying
    <3>3. ~n.lock /\ First(n.send, n.out.what) /\ n.out = ControlResponse(n.out.what)
      BY <3>1, <3>2, <1>1, <1>2, <2>4
    <3> QED
      BY <3>3, <2>1, <2>2, <2>3 DEF ClientOut
  <2>5. CASE k.tdi.act = "FileSendB" /\ p = FileBody
    BY <2>5, <2>1, <2>2, <2>3, <1>1, <1>2 DEF ClientOut
  <2>6. CASE /\ ~k.lock /\ k.tri.resp # "none" /\ k.tri.act \in {"None", "Response"}
             /\ p = TaskResponse(k.tri.task, k.tri.resp)
    <3>1. /\ n.tri.act \in {"None", "Response"} /\ n.tri.resp # "none"
          /\ n.out = TaskResponse(n.tri.task, n.tri.resp)
      BY <2>6, <1>1, <1>2
    <3> QED
      BY <3>1, <2>1, <2>2, <2>3 DEF ClientOut
  <2>7. CASE k.tdi.act = "SendDone" /\ p = TaskDone(k.tdi.task, k.run[k.tdi.task])
    <3>1. n.tdi.act = "SendDone" /\ n.out = TaskDone(n.tdi.task, n.run[n.tdi.task])
      BY <2>7, <1>1, <1>2, <1>3
    <3> QED
      BY <3>1, <2>1, <2>2, <2>3 DEF ClientOut
  <2> QED
    BY <2>4, <2>5, <2>6, <2>7
<1>9. Talking(n)
  BY <1>2, <1>3, <1>6, <1>7, <1>8 DEF Talking
<1>10. Then(n) = Then(k)
  BY <1>1, <1>2, <1>3, <1>5 DEF Then
<1> QED
  BY <1>1, <1>2, <1>3, <1>4, <1>9, <1>10 DEF Same

\* Whatever is written next, the connection stays sound.
LEMMA ClientSendsKeeps ==
  ASSUME NEW k \in ClientRecord, Talking(k), NEW n, n = ClientSends(k)
  PROVE  n \in ClientRecord /\ Talking(n) /\ Same(k, n) /\ Besides(k, n)
<1>1. CASE n = k
  BY <1>1, Steps DEF Besides, SameQueues, SameModes
<1>2. CASE k.open /\ k.out = NoPacket /\ ~k.lock /\ k.tri.resp = "Accepted"
           /\ k.tri.act = "FileReq" /\ n = SendNextFileRequest(k)
  <2>1. k.take = NoTask /\ k.tri.task \in Tasks
    <3>1. k.tri \in Taking
      BY ClientRead
    <3>2. k.tri.task # NoTask /\ k.take = NoTask
      BY <1>2 DEF Talking, Receiving
    <3> QED
      BY <3>1, <3>2 DEF Taking, Held
  <2>2. /\ n \in ClientRecord
        /\ n.tri.task = k.tri.task /\ n.tri.resp = k.tri.resp
        /\ Besides(k, n) /\ n.tdi = k.tdi
        /\ n.lock = k.lock /\ n.send = k.send /\ n.why = k.why
        /\ \/ /\ n.tri.act = "Complete" /\ n.take = k.tri.task /\ n.out = k.out
           \/ /\ n.tri.act = "FileReq" /\ n.tri.n = k.tri.n + 1 /\ n.take = NoTask
              /\ n.out = FileRequest(n.tri.task, n.tri.n)
    BY <1>2, <2>1, FileRequestIs DEF Besides
  <2>3. n.run = k.run /\ n.cur = k.cur /\ n.dts = k.dts /\ n.open = k.open
    BY <2>2 DEF Besides, SameQueues
  <2>4. Own(n) = Own(k) /\ Has(n) = Has(k)
    BY <2>2, BesidesKeeps, OwnType
  <2>5. k.out.cmd = "none" /\ n.out.cmd \in {"none", "FileRequest"}
    BY <2>2, <1>2, Saying
  <2>6. Receiving(n)
    BY <1>2, <2>2, <2>4 DEF Talking, Receiving
  <2>7. Telling(n)
    BY <1>2, <2>2, <2>3, <2>5 DEF Talking, Telling
  <2>8. ClientOut(n)
    <3>1. n.lock <=> n.out.cmd = "FileUpload" \/ n.tdi.act = "FileSendB"
      BY <2>2, <2>5 DEF Talking, ClientOut
    <3>2. n.tdi.act # "Complete"
      BY <2>2, <2>5 DEF Talking, ClientOut
    <3>3. n.tdi.act # "FileSendB"
      BY <1>2, <2>2 DEF Talking, ClientOut
    <3>4. \/ n.out = NoPacket
          \/ n.tri.act = "FileReq" /\ n.out = FileRequest(n.tri.task, n.tri.n)
      <4>1. k.out = NoPacket
        BY <1>2
      <4>2. \/ n.out = k.out
            \/ n.tri.act = "FileReq" /\ n.out = FileRequest(n.tri.task, n.tri.n)
        BY <2>2
      <4> QED
        BY <4>1, <4>2
    <3> QED
      BY <3>1, <3>2, <3>3, <3>4 DEF ClientOut
  <2>9. Talking(n)
    BY <1>2, <2>2, <2>3, <2>6, <2>7, <2>8 DEF Talking
  <2>10. Then(n) = Then(k)
    BY <2>2, <2>3, <2>5 DEF Then
  <2> QED
    BY <1>2, <2>2, <2>3, <2>4, <2>9, <2>10 DEF Same
<1>3. CASE k.open /\ k.out = NoPacket /\ ~k.lock /\ k.tdi.act = "FileSendH"
           /\ n = SendNextFileUploadHdr(k)
  <2>1. /\ n \in ClientRecord
        /\ n.tdi.task = k.tdi.task /\ n.tri = k.tri /\ n.take = k.take
        /\ Besides(k, n) /\ n.send = k.send /\ n.why = k.why
        /\ \/ /\ n.tdi.act = "Complete" /\ n.tdi.n = k.tdi.n /\ n.lock = k.lock
              /\ n.out = DoneComplete(n.tdi.task)
              /\ k.run[k.tdi.task] # "ok" \/ k.tdi.n = Uploads[k.tdi.task]
           \/ /\ n.tdi.act = "FileSendH" /\ n.tdi.n = k.tdi.n + 1 /\ n.lock
              /\ n.out = FileUpload(n.tdi.task, n.tdi.n)
    BY <1>3, FileUploadIs DEF Besides
  <2>2. n.run = k.run /\ n.cur = k.cur /\ n.dts = k.dts /\ n.open = k.open
    BY <2>1 DEF Besides, SameQueues
  <2>3. Own(n) = Own(k) /\ Has(n) = Has(k)
    BY <2>1, BesidesKeeps, OwnType
  <2>4. k.out.cmd = "none" /\ n.out.cmd \in {"DoneComplete", "FileUpload"}
    BY <2>1, <1>3, Saying
  <2>5. Receiving(n)
    BY <2>1, <2>3 DEF Talking, Receiving
  <2>6. Telling(n)
    <3>1. k.tdi.task # NoTask /\ k.tdi.task = k.cur /\ k.dts = 2 /\ k.tri.task # k.tdi.task
      BY <1>3 DEF Talking, Telling
    <3> QED
      BY <1>3, <2>1, <2>2, <3>1 DEF Talking, Telling
  <2>7. ClientOut(n)
    <3>1. k.tdi.n \in Nat
      BY ClientRead DEF Reporting
    <3>2. CASE n.tdi.act = "Complete" /\ n.lock = k.lock /\ n.out = DoneComplete(n.tdi.task)
      BY <1>3, <3>2, Saying DEF ClientOut
    <3>3. CASE /\ n.tdi.act = "FileSendH" /\ n.tdi.n = k.tdi.n + 1 /\ n.lock
               /\ n.out = FileUpload(n.tdi.task, n.tdi.n)
      BY <3>1, <3>3, Saying DEF ClientOut
    <3> QED
      BY <2>1, <3>2, <3>3
  <2>8. Talking(n)
    BY <1>3, <2>1, <2>2, <2>5, <2>6, <2>7 DEF Talking
  <2>9. Then(n) = Then(k)
    <3>1. k.tdi.n \in Nat
      BY ClientRead DEF Reporting
    <3>2. CASE n.tdi.act = "Complete" /\ n.tdi.n = k.tdi.n /\ n.out = DoneComplete(n.tdi.task)
      BY <1>3, <2>1, <2>2, <2>4, <3>2, Saying DEF Then
    <3>3. CASE /\ n.tdi.act = "FileSendH" /\ n.tdi.n = k.tdi.n + 1
               /\ n.out = FileUpload(n.tdi.task, n.tdi.n)
      <4>1. n.tdi.n - 1 = k.tdi.n /\ n.out.cmd = "FileUpload"
        BY <3>1, <3>3, Saying
      <4> QED
        BY <1>3, <2>1, <2>2, <2>4, <3>3, <4>1 DEF Then
    <3> QED
      BY <2>1, <3>2, <3>3
  <2> QED
    BY <1>3, <2>1, <2>2, <2>3, <2>8, <2>9 DEF Same
<1>4. ASSUME k.open, k.out = NoPacket, NEW p,
             \/ ~k.lock /\ k.send # <<>> /\ p = ControlResponse(Head(k.send))
             \/ /\ ~k.lock /\ k.tri.resp # "none" /\ k.tri.act \in {"None", "Response"}
                /\ p = TaskResponse(k.tri.task, k.tri.resp)
             \/ /\ ~k.lock /\ k.tdi.act = "SendDone"
                /\ ~(k.tri.resp # "none" /\ k.tri.act \in {"None", "Response"})
                /\ p = TaskDone(k.tdi.task, k.run[k.tdi.task])
             \/ k.tdi.act = "FileSendB" /\ p = FileBody,
             n = Put(k, p)
      PROVE  n \in ClientRecord /\ Talking(n) /\ Same(k, n) /\ Besides(k, n)
  <2>1. p.cmd \notin {"NowConnected", "FileUpload"}
    BY <1>4, Saying
  <2>2. p \in Packets
    <3>1. CASE k.send # <<>> /\ p = ControlResponse(Head(k.send))
      <4>1. Head(k.send) \in Orders \cup {NoMoreTasks}
        BY <3>1, ClientRead, Popped
      <4> QED
        BY <3>1, <4>1, PacketsTyped
    <3>2. CASE k.tri.resp # "none" /\ p = TaskResponse(k.tri.task, k.tri.resp)
      <4>1. k.tri.task \in Held /\ k.tri.resp \in {"Accepted", "TooManyTasks"}
        BY <3>2, ClientRead DEF Taking
      <4> QED
        BY <3>2, <4>1, PacketsTyped
    <3>3. CASE k.tdi.act = "SendDone" /\ p = TaskDone(k.tdi.task, k.run[k.tdi.task])
      <4>1. k.tdi.task \in Tasks
        <5>1. k.tdi.task \in Held
          BY ClientRead DEF Reporting
        <5> QED
          BY <5>1, <3>3 DEF Talking, Telling, Held
      <4>2. k.run[k.tdi.task] \in Verdicts
        BY <4>1, ClientRead
      <4> QED
        BY <3>3, <4>1, <4>2, PacketsTyped DEF Held
    <3> QED
      BY <1>4, <3>1, <3>2, <3>3, PacketsTyped
  <2> QED
    BY <1>4, <2>1, <2>2, PacketTalking
<1>5. \/ n = k
      \/ /\ k.open /\ k.out = NoPacket
         /\ \/ /\ ~k.lock /\ k.tri.resp = "Accepted" /\ k.tri.act = "FileReq"
               /\ n = SendNextFileRequest(k)
            \/ ~k.lock /\ k.tdi.act = "FileSendH" /\ n = SendNextFileUploadHdr(k)
            \/ \E p :
                 /\ \/ ~k.lock /\ k.send # <<>> /\ p = ControlResponse(Head(k.send))
                    \/ /\ ~k.lock /\ k.tri.resp # "none" /\ k.tri.act \in {"None", "Response"}
                       /\ p = TaskResponse(k.tri.task, k.tri.resp)
                    \/ /\ ~k.lock /\ k.tdi.act = "SendDone"
                       /\ ~(k.tri.resp # "none" /\ k.tri.act \in {"None", "Response"})
                       /\ p = TaskDone(k.tdi.task, k.run[k.tdi.task])
                    \/ k.tdi.act = "FileSendB" /\ p = FileBody
                 /\ n = Put(k, p)
  <2> DEFINE a == ControlResponse(Head(k.send))
             b == TaskResponse(k.tri.task, k.tri.resp)
             c == TaskDone(k.tdi.task, k.run[k.tdi.task])
             ask == SendNextFileRequest(k)  up == SendNextFileUploadHdr(k)
  <2>1. \/ n = k
        \/ /\ k.open /\ k.out = NoPacket
           /\ \/ ~k.lock /\ k.send # <<>> /\ n = Put(k, a)
              \/ /\ ~k.lock /\ k.tri.resp # "none" /\ k.tri.act \in {"None", "Response"}
                 /\ n = Put(k, b)
              \/ ~k.lock /\ k.tri.resp = "Accepted" /\ k.tri.act = "FileReq" /\ n = ask
              \/ /\ ~k.lock /\ k.tdi.act = "SendDone"
                 /\ ~(k.tri.resp # "none" /\ k.tri.act \in {"None", "Response"})
                 /\ n = Put(k, c)
              \/ ~k.lock /\ k.tdi.act = "FileSendH" /\ n = up
              \/ k.tdi.act = "FileSendB" /\ n = Put(k, FileBody)
    BY ClientSendsIs DEF Put
  <2> HIDE DEF a, b, c, ask, up
  <2> QED
    BY <2>1 DEF a, b, c, ask, up
<1> QED
  BY <1>1, <1>2, <1>3, <1>4, <1>5

----------------------------------------------------------------------------
(* Jobs *)

\* Nothing that matters changes.
Alike(k, n) == SameLine(k, n) /\ Besides(k, n)

\* A step that changes none of the members the invariant reads keeps it.
LEMMA AlikeSane ==
  ASSUME NEW k \in ClientRecord, NEW n \in ClientRecord, Alike(k, n)
  PROVE  /\ Managing(k) => Managing(n)
         /\ Talking(k) => Talking(n) /\ Same(k, n)
         /\ Undisturbed(k, n) /\ Own(n) = Own(k)
<1>1. Own(n) = Own(k) /\ (Managing(k) => Managing(n))
  BY BesidesKeeps DEF Alike
<1>2. Undisturbed(k, n)
  BY <1>1 DEF Alike, Besides, SameQueues, Undisturbed
<1> QED
  BY <1>1, <1>2, UndisturbedTalking

\* The timers, and the flag that makes the source look at done first.
LEMMA Timers ==
  ASSUME NEW k \in ClientRecord, NEW b \in BOOLEAN
  PROVE  /\ ReSched(k) \in ClientRecord /\ Alike(k, ReSched(k))
         /\ Arm(k) \in ClientRecord /\ Alike(k, Arm(k))
         /\ [k EXCEPT !.first = b] \in ClientRecord /\ Alike(k, [k EXCEPT !.first = b])
         /\ [k EXCEPT !.sched = b] \in ClientRecord /\ Alike(k, [k EXCEPT !.sched = b])
         /\ [k EXCEPT !.timer = b] \in ClientRecord /\ Alike(k, [k EXCEPT !.timer = b])
         /\ [k EXCEPT !.outsched = b] \in ClientRecord /\ Alike(k, [k EXCEPT !.outsched = b])
         /\ [k EXCEPT !.stopped = b] \in ClientRecord /\ Alike(k, [k EXCEPT !.stopped = b])
         /\ [k EXCEPT !.toldIf = b] \in ClientRecord /\ Alike(k, [k EXCEPT !.toldIf = b])
<1>1. [k EXCEPT !.sched = b] \in ClientRecord /\ [k EXCEPT !.timer = b] \in ClientRecord
  BY DEF ClientRecord
<1>2. [k EXCEPT !.outsched = b] \in ClientRecord /\ [k EXCEPT !.first = b] \in ClientRecord
  BY DEF ClientRecord
<1>3. [k EXCEPT !.stopped = b] \in ClientRecord /\ [k EXCEPT !.toldIf = b] \in ClientRecord
  BY DEF ClientRecord
<1>4. ReSched(k) \in ClientRecord /\ Arm(k) \in ClientRecord
  BY DEF ReSched, Arm, ClientRecord
<1>5. /\ Alike(k, ReSched(k)) /\ Alike(k, Arm(k))
      /\ Alike(k, [k EXCEPT !.first = b]) /\ Alike(k, [k EXCEPT !.sched = b])
  BY DEF Alike, Besides, SameLine, SameQueues, SameModes, ReSched, Arm
<1>6. /\ Alike(k, [k EXCEPT !.timer = b]) /\ Alike(k, [k EXCEPT !.outsched = b])
      /\ Alike(k, [k EXCEPT !.stopped = b]) /\ Alike(k, [k EXCEPT !.toldIf = b])
  BY DEF Alike, Besides, SameLine, SameQueues, SameModes
<1> QED
  BY <1>1, <1>2, <1>3, <1>4, <1>5, <1>6

\* When the lists change, the rest of the record stays.
RestOf(k, n) ==
  /\ SameLine(k, n) /\ SameModes(k, n)
  /\ n.cur = k.cur /\ n.dts = k.dts
  /\ n.dsmt = k.dsmt /\ n.pend = k.pend /\ n.assert = k.assert

Started(k) == [k EXCEPT !.proc = @ \cup {Head(k.todo)}, !.todo = Tail(@)]

\* Starting a job moves the first task of todo to proc.
LEMMA StartedIs ==
  ASSUME NEW k \in ClientRecord, k.todo # <<>>, NEW m, m = Started(k)
  PROVE  /\ m \in ClientRecord /\ RestOf(k, m) /\ m.done = k.done /\ m.run = k.run
         /\ m.proc = k.proc \cup {Head(k.todo)} /\ m.todo = Tail(k.todo)
<1> DEFINE p == k.proc \cup {Head(k.todo)}  q == Tail(k.todo)
<1>1. p \in SUBSET Tasks /\ q \in Seq(Tasks)
  BY ClientRead, Popped
<1>2. m = [k EXCEPT !.proc = p, !.todo = q]
  BY DEF Started
<1> HIDE DEF p, q
<1>3. m \in ClientRecord
  BY <1>1, <1>2 DEF ClientRecord
<1>4. m.proc = p /\ m.todo = q
  BY <1>2 DEF ClientRecord
<1>5. RestOf(k, m) /\ m.done = k.done /\ m.run = k.run
  BY <1>2 DEF RestOf, SameLine, SameModes
<1> QED
  BY <1>3, <1>4, <1>5 DEF p, q

Finished(k, t, v) ==
  [k EXCEPT !.proc = @ \ {t}, !.run[t] = v, !.done = Append(@, t)]

Ended(k, p, r, q) == [k EXCEPT !.proc = p, !.run = r, !.done = q]

\* A record in which a job has ended is a record of a client.
LEMMA EndedTyped ==
  ASSUME NEW k \in ClientRecord, NEW p \in SUBSET Tasks, NEW r \in [Tasks -> Verdicts],
         NEW q \in Seq(Tasks), NEW m, m = Ended(k, p, r, q)
  PROVE  m \in ClientRecord /\ m.proc = p /\ m.run = r /\ m.done = q
BY DEF Ended, ClientRecord

\* The end of a job moves its task from proc to done, with its verdict.
LEMMA FinishedIs ==
  ASSUME NEW k \in ClientRecord, NEW t \in Tasks, NEW v \in {"ok", "failed"},
         NEW m, m = Finished(k, t, v)
  PROVE  /\ m \in ClientRecord /\ RestOf(k, m) /\ m.todo = k.todo
         /\ \A u : u # t => m.run[u] = k.run[u]
         /\ m.proc = k.proc \ {t} /\ m.done = Append(k.done, t)
<1> DEFINE p == k.proc \ {t}  q == Append(k.done, t)  r == [k.run EXCEPT ![t] = v]
<1>1. p \in SUBSET Tasks /\ q \in Seq(Tasks)
  BY ClientRead, Appended
<1>2. r \in [Tasks -> Verdicts] /\ \A u : u # t => r[u] = k.run[u]
  <2>1. k.run \in [Tasks -> Verdicts]
    BY ClientRead
  <2> QED
    BY <2>1 DEF Verdicts
<1>3. m = Ended(k, p, r, q)
  BY DEF Finished, Ended
<1> HIDE DEF p, q, r
<1>4. m \in ClientRecord /\ m.proc = p /\ m.done = q /\ m.run = r
  BY <1>1, <1>2, <1>3, EndedTyped
<1>5. RestOf(k, m) /\ m.todo = k.todo
  BY <1>3 DEF Ended, RestOf, SameLine, SameModes
<1> QED
  BY <1>2, <1>4, <1>5 DEF p, q

\* Tasks that only move keep their manager sound.
LEMMA MovedManaging ==
  ASSUME NEW k, NEW m, Managing(k), RestOf(k, m), Own(m) = Own(k), Once(m), ~k.tsQuit
  PROVE  Managing(m)
BY DEF Managing, Agreed, RestOf, SameLine, SameModes

\* A busy manager is not about to quit.
LEMMA BusyNotLeaving ==
  ASSUME NEW k, Managing(k), \/ k.todo # <<>> \/ k.proc # {} \/ k.done # <<>> \/ k.open
  PROVE  ~k.tsQuit
BY DEF Managing, Agreed

\* A job is started.
LEMMA JobStartedSane ==
  ASSUME NEW k \in ClientRecord, ClientSane(k), k.todo # <<>>, NEW n, n = JobStarted(k)
  PROVE  n \in ClientRecord /\ ClientSane(n) /\ Same(k, n)
<1> DEFINE m == Started(k)
<1>1. n = CheckStartExchange(m)
  BY DEF JobStarted, Started
<1>2. /\ m \in ClientRecord /\ RestOf(k, m) /\ m.done = k.done /\ m.run = k.run
      /\ m.proc = k.proc \cup {Head(k.todo)} /\ m.todo = Tail(k.todo)
  BY StartedIs
<1> HIDE DEF m
<1>3. /\ InQueue(k.todo) = {Head(k.todo)} \cup InQueue(m.todo) /\ Head(k.todo) \in Tasks
      /\ IsInjective(k.todo) => IsInjective(m.todo) /\ Head(k.todo) \notin InQueue(m.todo)
  BY <1>2, ClientRead, Popped
<1>4. Managing(k) /\ Talking(k)
  BY DEF ClientSane
<1>5. Own(m) = Own(k) /\ Once(m)
  BY <1>2, <1>3, <1>4 DEF Managing, Own, Once, RestOf
<1>6. Managing(m)
  BY <1>2, <1>4, <1>5, MovedManaging, BusyNotLeaving
<1>7. /\ n \in ClientRecord /\ Managing(n)
      /\ SameLine(m, n) /\ SameModes(m, n) /\ SameQueues(m, n)
  BY <1>1, <1>2, <1>6, CheckStartExchangeKeeps
<1>8. Undisturbed(k, n)
  <2>1. Own(n) = Own(m)
    BY <1>7 DEF Own, SameQueues
  <2> QED
    BY <2>1, <1>2, <1>5, <1>7 DEF Undisturbed, SameLine, SameQueues, RestOf
<1> QED
  BY <1>4, <1>7, <1>8, UndisturbedTalking DEF ClientSane

\* A job ends.
LEMMA JobDoneSane ==
  ASSUME NEW k \in ClientRecord, ClientSane(k), NEW t \in k.proc, NEW v \in {"ok", "failed"},
         NEW n, n = JobDone(k, t, v)
  PROVE  n \in ClientRecord /\ ClientSane(n) /\ Same(k, n)
<1> DEFINE m == Finished(k, t, v)  e == CheckStartExchange(m)
           b == e.first \/ e.conn
           f == IF v = "failed" THEN [e EXCEPT !.first = b] ELSE e
<1>1. n = IF k.mrec THEN ReSched(f) ELSE f
  BY DEF JobDone, Finished
<1>2. t \in Tasks
  BY ClientRead
<1>3. /\ m \in ClientRecord /\ RestOf(k, m) /\ m.todo = k.todo
      /\ \A u : u # t => m.run[u] = k.run[u]
      /\ m.proc = k.proc \ {t} /\ m.done = Append(k.done, t)
  BY <1>2, FinishedIs
<1> HIDE DEF m
<1>4. Managing(k) /\ Talking(k)
  BY DEF ClientSane
<1>5. t \notin InQueue(k.done) /\ t # k.cur
  BY <1>4 DEF Managing, Once
<1>6. InQueue(m.done) = InQueue(k.done) \cup {t} /\ (IsInjective(k.done) => IsInjective(m.done))
  BY <1>2, <1>3, <1>5, ClientRead, Appended
<1>7. Own(m) = Own(k) /\ Once(m)
  BY <1>3, <1>4, <1>5, <1>6 DEF Managing, Own, Once, RestOf
<1>8. ~k.tsQuit
  BY <1>4, BusyNotLeaving
<1>9. Managing(m)
  BY <1>3, <1>4, <1>7, <1>8, MovedManaging
<1>10. /\ e \in ClientRecord /\ Managing(e)
       /\ SameLine(m, e) /\ SameModes(m, e) /\ SameQueues(m, e)
  BY <1>3, <1>9, CheckStartExchangeKeeps
<1> HIDE DEF e
<1>11. b \in BOOLEAN
  BY <1>10
<1> HIDE DEF b
<1>12. f \in ClientRecord /\ Alike(e, f)
  <2>1. CASE v = "failed"
    BY <2>1, <1>10, <1>11, Timers
  <2>2. CASE v # "failed"
    BY <2>2, <1>10 DEF Alike, Besides, SameLine, SameQueues, SameModes
  <2> QED
    BY <2>1, <2>2
<1> HIDE DEF f
<1>13. n \in ClientRecord /\ Alike(f, n)
  <2>1. CASE k.mrec
    BY <2>1, <1>1, <1>12, Timers
  <2>2. CASE ~k.mrec
    BY <2>2, <1>1, <1>12 DEF Alike, Besides, SameLine, SameQueues, SameModes
  <2> QED
    BY <2>1, <2>2
<1>14. Undisturbed(k, e)
  <2>1. Own(e) = Own(m)
    BY <1>10 DEF Own, SameQueues
  <2>2. k.tdi.task # NoTask => k.tdi.task # t
    BY <1>4, <1>5 DEF Talking, Telling, FreeTdi
  <2> QED
    BY <2>1, <2>2, <1>3, <1>7, <1>10 DEF Undisturbed, SameLine, SameQueues, RestOf
<1>15. Undisturbed(k, n)
  BY <1>10, <1>12, <1>13, <1>14, AlikeSane, Steps
<1>16. Managing(n)
  BY <1>10, <1>12, <1>13, AlikeSane
<1> QED
  BY <1>4, <1>13, <1>15, <1>16, UndisturbedTalking DEF ClientSane

----------------------------------------------------------------------------
(* A task is taken over *)

Queued(k, q)      == [k EXCEPT !.take = NoTask, !.todo = q]
Handed(k, q, t)   == [k EXCEPT !.take = NoTask, !.todo = q, !.tri = t]
Answering(k, t)   == [k EXCEPT !.tri = t, !.outsched = TRUE]

\* The records on the way of a task into todo are records of a client.
LEMMA HandedTyped ==
  ASSUME NEW k \in ClientRecord, NEW q \in Seq(Tasks), NEW t \in Taking
  PROVE  /\ Queued(k, q) \in ClientRecord /\ Handed(k, q, t) \in ClientRecord
         /\ Answering(k, t) \in ClientRecord
<1>1. NoTask \in Held /\ TRUE \in BOOLEAN
  BY Nothing
<1>2. Queued(k, q) \in ClientRecord
  BY <1>1 DEF Queued, ClientRecord
<1>3. Handed(k, q, t) \in ClientRecord
  BY <1>1 DEF Handed, ClientRecord
<1>4. Answering(k, t) \in ClientRecord
  BY <1>1 DEF Answering, ClientRecord
<1> QED
  BY <1>2, <1>3, <1>4

\* Which members change on the way of a task into todo.
LEMMA HandedIs ==
  ASSUME NEW k \in ClientRecord, NEW q \in Seq(Tasks), NEW t \in Taking
  PROVE  /\ LET m == Queued(k, q)
            IN  /\ m.take = NoTask /\ m.todo = q /\ m.proc = k.proc /\ m.done = k.done
                /\ m.cur = k.cur /\ m.dts = k.dts /\ m.run = k.run
                /\ SameModes(k, m) /\ m.pend = k.pend /\ m.dsmt = k.dsmt
                /\ m.assert = k.assert /\ m.open = k.open /\ m.tri = k.tri
                /\ m.tdi = k.tdi /\ m.out = k.out /\ m.lock = k.lock
                /\ m.send = k.send /\ m.why = k.why
         /\ LET m == Handed(k, q, t)
            IN  /\ m.take = NoTask /\ m.todo = q /\ m.proc = k.proc /\ m.done = k.done
                /\ m.cur = k.cur /\ m.dts = k.dts /\ m.run = k.run
                /\ m.open = k.open /\ m.tri = t
                /\ m.tdi = k.tdi /\ m.out = k.out /\ m.lock = k.lock
                /\ m.send = k.send /\ m.why = k.why
         /\ LET m == Answering(k, t)
            IN  /\ m.tri = t /\ Besides(k, m) /\ m.tdi = k.tdi /\ m.out = k.out
                /\ m.lock = k.lock /\ m.send = k.send /\ m.why = k.why
                /\ m.take = k.take
<1>1. /\ Queued(k, q).take = NoTask /\ Queued(k, q).todo = q
      /\ Handed(k, q, t).take = NoTask /\ Handed(k, q, t).todo = q
      /\ Handed(k, q, t).tri = t /\ Answering(k, t).tri = t
  BY DEF Queued, Handed, Answering, ClientRecord
<1>2. LET m == Queued(k, q)
      IN  /\ m.proc = k.proc /\ m.done = k.done
          /\ m.cur = k.cur /\ m.dts = k.dts /\ m.run = k.run
          /\ SameModes(k, m) /\ m.pend = k.pend /\ m.dsmt = k.dsmt
          /\ m.assert = k.assert /\ m.open = k.open /\ m.tri = k.tri
          /\ m.tdi = k.tdi /\ m.out = k.out /\ m.lock = k.lock
          /\ m.send = k.send /\ m.why = k.why
  BY DEF Queued, SameModes
<1>3. LET m == Handed(k, q, t)
      IN  /\ m.proc = k.proc /\ m.done = k.done
          /\ m.cur = k.cur /\ m.dts = k.dts /\ m.run = k.run
          /\ m.open = k.open
          /\ m.tdi = k.tdi /\ m.out = k.out /\ m.lock = k.lock
          /\ m.send = k.send /\ m.why = k.why
  BY DEF Handed
<1>4. LET m == Answering(k, t)
      IN  /\ Besides(k, m) /\ m.tdi = k.tdi /\ m.out = k.out
          /\ m.lock = k.lock /\ m.send = k.send /\ m.why = k.why
          /\ m.take = k.take
  BY DEF Answering, Besides, SameQueues, SameModes
<1> QED
  BY <1>1, <1>2, <1>3, <1>4

\* The manager has it, and the source is about to answer.
LEMMA TakenOverTalking ==
  ASSUME NEW k \in ClientRecord, ClientSane(k), k.take # NoTask,
         NEW m, m = Handed(k, Append(k.todo, k.take), [k.tri EXCEPT !.act = "Response"])
  PROVE  /\ m \in ClientRecord /\ Talking(m) /\ Same(k, m)
         /\ Own(m) = Own(k) \cup {k.take} /\ k.take \notin Own(k) /\ k.take \in Tasks
         /\ Once(m) /\ k.open
<1> DEFINE t == [k.tri EXCEPT !.act = "Response"]  q == Append(k.todo, k.take)
<1>1. /\ Once(k) /\ Receiving(k) /\ Telling(k) /\ ClientOut(k) /\ k.why # "protocol"
      /\ k.open \in BOOLEAN /\ k.open
  BY ClientRead DEF ClientSane, Managing, Talking
<1>2. k.tri.act = "Complete" /\ k.take = k.tri.task
  BY <1>1 DEF Receiving
<1>3. k.tri.resp = "Accepted"
  <2>1. k.tri.resp \in {"none", "Accepted", "TooManyTasks"}
    BY ClientRead DEF Taking
  <2>2. FreeTri.act = "None"
    BY DEF FreeTri
  <2>3. k.tri.resp # "none" /\ k.tri.resp # "TooManyTasks"
    BY <2>2, <1>1, <1>2 DEF Receiving
  <2> QED
    BY <2>1, <2>3
<1>4. k.take \notin Own(k) /\ k.take \in Tasks
  BY <1>1, <1>2, <1>3, ClientRead DEF Receiving, Held
<1>5. /\ t \in Taking /\ t.act = "Response" /\ t.task = k.tri.task /\ t.resp = k.tri.resp
      /\ t.n = k.tri.n
  BY ClientRead DEF Taking
<1>6. q \in Seq(Tasks) /\ InQueue(q) = InQueue(k.todo) \cup {k.take}
  BY <1>4, ClientRead, Appended
<1>7. IsInjective(q)
  <2>1. k.take \notin InQueue(k.todo) /\ IsInjective(k.todo)
    BY <1>1, <1>4 DEF Own, Once
  <2> QED
    BY <2>1, <1>4, ClientRead, Appended
<1>8. m = Handed(k, q, t)
  OBVIOUS
<1> HIDE DEF t, q
<1>9. m \in ClientRecord
  BY <1>5, <1>6, <1>8, HandedTyped
<1>10. /\ m.take = NoTask /\ m.todo = q /\ m.proc = k.proc /\ m.done = k.done
       /\ m.cur = k.cur /\ m.dts = k.dts /\ m.run = k.run /\ m.open = k.open /\ m.tri = t
       /\ m.tdi = k.tdi /\ m.out = k.out /\ m.lock = k.lock /\ m.send = k.send
       /\ m.why = k.why
  BY <1>5, <1>6, <1>8, HandedIs
<1>11. Own(m) = Own(k) \cup {k.take}
  BY <1>6, <1>10 DEF Own
<1>12. Once(m)
  BY <1>1, <1>4, <1>6, <1>7, <1>10 DEF Once, Own
<1>13. Receiving(m)
  BY <1>2, <1>3, <1>4, <1>5, <1>10, <1>11, Nothing DEF Receiving
<1>14. k.tdi.task # NoTask => k.tdi.task # k.tri.task
  BY <1>1, <1>2, <1>4 DEF Telling, FreeTdi, Own
<1>15. Telling(m)
  BY <1>1, <1>5, <1>10, <1>14 DEF Telling
<1>16. ClientOut(m)
  BY <1>1, <1>2, <1>10 DEF ClientOut
<1>17. Talking(m)
  BY <1>1, <1>10, <1>13, <1>15, <1>16 DEF Talking
<1>18. Then(m) = Then(k)
  BY <1>10 DEF Then
<1>19. Has(m) = Has(k)
  <2>1. Has(m) = Own(m) \cup ({m.tri.task} \ {NoTask})
    BY <1>9, OwnType
  <2>2. Has(k) = Own(k) \cup ({k.tri.task} \ {NoTask})
    BY OwnType
  <2> QED
    BY <2>1, <2>2, <1>2, <1>5, <1>10, <1>11
<1>20. k.tri.task # NoTask
  BY <1>2
<1> QED
  BY <1>1, <1>2, <1>4, <1>5, <1>9, <1>10, <1>11, <1>12, <1>17, <1>18, <1>19, <1>20 DEF Same

\* A manager that starts no more tasks is still sound.
LEMMA ToldManaging ==
  ASSUME NEW k, NEW n, Managing(k), n.open = k.open, SameQueues(k, n), SameModes(k, n),
         n.pend = k.pend, n.assert = k.assert, n.dsmt = TRUE
  PROVE  Managing(n) /\ Own(n) = Own(k)
<1>1. Own(n) = Own(k)
  BY DEF SameQueues, Own
<1> QED
  BY <1>1 DEF Managing, Once, Agreed, SameQueues, SameModes

\* The manager gets its task.
LEMMA TakenOverManaging ==
  ASSUME NEW k \in ClientRecord, ClientSane(k), k.take # NoTask,
         NEW x, x = Queued(k, Append(k.todo, k.take))
  PROVE  x \in ClientRecord /\ Managing(x) /\ Own(x) = Own(k) \cup {k.take}
<1> DEFINE m == Handed(k, Append(k.todo, k.take), [k.tri EXCEPT !.act = "Response"])
           q == Append(k.todo, k.take)
<1>1. /\ Own(m) = Own(k) \cup {k.take} /\ k.take \in Tasks /\ Once(m) /\ k.open
  BY TakenOverTalking
<1>2. q \in Seq(Tasks) /\ q # <<>>
  BY <1>1, ClientRead, Appended
<1>3. [k.tri EXCEPT !.act = "Response"] \in Taking
  BY ClientRead DEF Taking
<1>4. /\ m.todo = q /\ m.proc = k.proc /\ m.done = k.done /\ m.cur = k.cur
  BY <1>2, <1>3, HandedIs
<1>5. /\ x \in ClientRecord /\ x.todo = q /\ x.proc = k.proc /\ x.done = k.done
      /\ x.cur = k.cur /\ x.dts = k.dts
      /\ SameModes(k, x) /\ x.pend = k.pend /\ x.dsmt = k.dsmt
      /\ x.assert = k.assert /\ x.open = k.open
  BY <1>2, <1>3, HandedIs, HandedTyped
<1> HIDE DEF m, q
<1>6. Own(x) = Own(m) /\ Once(x)
  BY <1>1, <1>4, <1>5 DEF Own, Once
<1>7. k.assert /\ Agreed(k)
  BY DEF ClientSane, Managing
<1>8. Agreed(x)
  <2>1. k.srec = 0 /\ ~k.tsQuit
    BY <1>1, <1>7 DEF Agreed
  <2> QED
    BY <1>1, <1>5, <1>7, <2>1 DEF Agreed, SameModes
<1> QED
  BY <1>1, <1>5, <1>6, <1>7, <1>8 DEF Managing

\* A task goes to the manager, and back at once if nobody wants it any more.
LEMMA TakeFreshIs ==
  ASSUME NEW x \in ClientRecord, Managing(x),
         NEW g, g = IF x.dsmt THEN CheckStartExchange(DontStartMoreTasks(x)) ELSE x
  PROVE  /\ g \in ClientRecord /\ Managing(g) /\ Speaks(x, g) /\ SameQueues(x, g)
<1>1. CASE ~x.dsmt
  BY <1>1 DEF Speaks, SameQueues
<1>2. CASE x.dsmt
  <2> DEFINE d == DontStartMoreTasks(x)
  <2>1. /\ d \in ClientRecord /\ Speaks(x, d) /\ SameQueues(x, d) /\ SameModes(x, d)
        /\ d.pend = x.pend /\ d.assert = x.assert /\ d.dsmt = TRUE
    BY DontStartIs
  <2>2. g = CheckStartExchange(d)
    BY <1>2
  <2> HIDE DEF d
  <2>3. Managing(d)
    BY <2>1, ToldManaging DEF Speaks
  <2>4. /\ g \in ClientRecord /\ Managing(g) /\ SameLine(d, g) /\ SameQueues(d, g)
    BY <2>1, <2>2, <2>3, CheckStartExchangeKeeps
  <2> QED
    BY <2>1, <2>4 DEF Speaks, SameLine, SameQueues
<1> QED
  BY <1>1, <1>2

\* The task is the manager's, and the answer goes out.
LEMMA HandOverSane ==
  ASSUME NEW k \in ClientRecord, ClientSane(k), NEW n, n = HandOver(k)
  PROVE  n \in ClientRecord /\ ClientSane(n) /\ Same(k, n)
<1>1. CASE k.take = NoTask
  BY <1>1, Steps DEF HandOver
<1>2. CASE k.take # NoTask
  <2> DEFINE q == Append(k.todo, k.take)  t == [k.tri EXCEPT !.act = "Response"]
             x == Queued(k, q)  m == Handed(k, q, t)
             g == TakeFreshTask([k EXCEPT !.take = NoTask], k.take)
             v == [g.tri EXCEPT !.act = "Response"]
  <2>1. n = Answering(g, v)
    BY <1>2 DEF HandOver, Answering
  <2>2. g = IF x.dsmt THEN CheckStartExchange(DontStartMoreTasks(x)) ELSE x
    <3>1. x = [[k EXCEPT !.take = NoTask] EXCEPT !.todo = Append(@, k.take)]
      BY DEF Queued
    <3>2. [k EXCEPT !.take = NoTask].dsmt = x.dsmt
      BY <3>1
    <3> QED
      BY <3>1, <3>2 DEF TakeFreshTask
  <2>3. /\ m \in ClientRecord /\ Talking(m) /\ Same(k, m) /\ k.take \in Tasks /\ Own(m) = Own(k) \cup {k.take}
    BY <1>2, TakenOverTalking
  <2>4. x \in ClientRecord /\ Managing(x) /\ Own(x) = Own(k) \cup {k.take}
    BY <1>2, TakenOverManaging
  <2>5. q \in Seq(Tasks) /\ t \in Taking
    BY <2>3, ClientRead, Appended DEF Taking
  <2>16. m = Handed(k, q, t) /\ x = Queued(k, q)
    OBVIOUS
  <2> HIDE DEF g, x, m, q, t
  <2>6. /\ x.take = NoTask /\ x.open = k.open /\ x.tri = k.tri /\ x.tdi = k.tdi
        /\ x.out = k.out /\ x.lock = k.lock /\ x.send = k.send /\ x.why = k.why
        /\ x.cur = k.cur /\ x.dts = k.dts /\ x.run = k.run
    BY <2>5, <2>16, HandedIs
  <2>7. /\ m.take = NoTask /\ m.open = k.open /\ m.tri = t /\ m.tdi = k.tdi
        /\ m.out = k.out /\ m.lock = k.lock /\ m.send = k.send /\ m.why = k.why
        /\ m.cur = k.cur /\ m.dts = k.dts /\ m.run = k.run
    BY <2>5, <2>16, HandedIs
  <2>8. g \in ClientRecord /\ Managing(g) /\ Speaks(x, g) /\ SameQueues(x, g)
    BY <2>2, <2>4, TakeFreshIs
  <2>9. v = t /\ v \in Taking
    BY <2>5, <2>6, <2>8 DEF Speaks, t
  <2> HIDE DEF v
  <2>10. /\ n \in ClientRecord /\ n.tri = t /\ Besides(g, n) /\ n.tdi = g.tdi
         /\ n.out = g.out /\ n.lock = g.lock /\ n.send = g.send /\ n.why = g.why
         /\ n.take = g.take
    <3>1. n = Answering(g, t)
      BY <2>1, <2>9
    <3> QED
      BY <3>1, <2>5, <2>8, HandedTyped, HandedIs
  <2>11. Managing(n) /\ Own(n) = Own(g)
    BY <2>8, <2>10, BesidesKeeps
  <2>12. Own(g) = Own(x)
    BY <2>8 DEF SameQueues, Own
  <2>13. Speaks(m, n)
    BY <2>6, <2>7, <2>8, <2>10 DEF Speaks, Besides
  <2>14. Own(n) = Own(m) /\ n.cur = m.cur /\ n.dts = m.dts /\ n.run = m.run
    BY <2>3, <2>4, <2>6, <2>7, <2>8, <2>10, <2>11, <2>12 DEF Besides, SameQueues
  <2>15. Talking(n) /\ Same(m, n)
    BY <2>3, <2>10, <2>13, <2>14, SpeaksTalking
  <2>17. Same(k, n)
    BY <2>3, <2>15, Steps
  <2> QED
    BY <2>10, <2>11, <2>15, <2>17 DEF ClientSane
<1> QED
  BY <1>1, <1>2

----------------------------------------------------------------------------
(* Commands *)

TurnedBack(k, q) == [k EXCEPT !.done = q, !.todo = <<>>, !.first = TRUE]

\* Turning the tasks in todo back changes only the queues.
LEMMA TurnedBackIs ==
  ASSUME NEW k \in ClientRecord, NEW q \in Seq(Tasks), NEW m, m = TurnedBack(k, q)
  PROVE  /\ m \in ClientRecord /\ m.done = q /\ m.todo = <<>> /\ RestOf(k, m)
         /\ m.proc = k.proc /\ m.run = k.run /\ m.outsched = k.outsched
<1>1. TRUE \in BOOLEAN /\ <<>> \in Seq(Tasks)
  OBVIOUS
<1>2. m \in ClientRecord
  BY <1>1 DEF TurnedBack, ClientRecord
<1>3. m.done = q /\ m.todo = <<>>
  BY DEF TurnedBack, ClientRecord
<1>4. RestOf(k, m) /\ m.proc = k.proc /\ m.run = k.run /\ m.outsched = k.outsched
  BY DEF TurnedBack, RestOf, SameLine, SameModes
<1> QED
  BY <1>2, <1>3, <1>4

\* All tasks that wait go back.
LEMMA GiveBackTasksSane ==
  ASSUME NEW k \in ClientRecord, ClientSane(k), ~k.tsQuit, NEW n, n = GiveBackTasks(k)
  PROVE  n \in ClientRecord /\ ClientSane(n) /\ Same(k, n)
<1> DEFINE q == k.done \o Reverse(k.todo)  m == TurnedBack(k, q)
<1>1. n = CheckStartExchange(m)
  BY DEF GiveBackTasks, TurnedBack
<1>2. Managing(k) /\ Talking(k)
  BY DEF ClientSane
<1>3. /\ q \in Seq(Tasks) /\ InQueue(q) = InQueue(k.done) \cup InQueue(k.todo)
      /\ IsInjective(q)
  <2>1. /\ IsInjective(k.done) /\ IsInjective(k.todo)
        /\ InQueue(k.done) \cap InQueue(k.todo) = {}
    BY <1>2 DEF Managing, Once
  <2> QED
    BY <2>1, ClientRead, TurnedOver
<1> HIDE DEF q
<1>4. /\ m \in ClientRecord /\ m.done = q /\ m.todo = <<>> /\ RestOf(k, m)
      /\ m.proc = k.proc /\ m.run = k.run
  BY <1>3, TurnedBackIs
<1> HIDE DEF m
<1>5. InQueue(m.todo) = {} /\ IsInjective(m.todo)
  BY <1>4 DEF InQueue, IsInjective
<1>6. Own(m) = Own(k) /\ Once(m)
  BY <1>2, <1>3, <1>4, <1>5 DEF Managing, Own, Once, RestOf
<1>7. Managing(m)
  BY <1>2, <1>4, <1>6, MovedManaging
<1>8. /\ n \in ClientRecord /\ Managing(n)
      /\ SameLine(m, n) /\ SameModes(m, n) /\ SameQueues(m, n)
  BY <1>1, <1>4, <1>7, CheckStartExchangeKeeps
<1>9. Undisturbed(k, n)
  <2>1. Own(n) = Own(m)
    BY <1>8 DEF Own, SameQueues
  <2> QED
    BY <2>1, <1>4, <1>6, <1>8 DEF Undisturbed, SameLine, SameQueues, RestOf
<1> QED
  BY <1>2, <1>8, <1>9, UndisturbedTalking DEF ClientSane

\* An assertion that holds changes nothing.
LEMMA Checked ==
  ASSUME NEW k \in ClientRecord, NEW ok \in BOOLEAN, k.assert = TRUE => ok = TRUE,
         NEW n, n = Check(k, ok)
  PROVE  n \in ClientRecord /\ Alike(k, n)
<1>1. (k.assert /\ ok) = k.assert
  BY ClientRead
<1>2. n = [k EXCEPT !.assert = k.assert]
  BY <1>1 DEF Check
<1>3. n = k
  BY <1>2 DEF ClientRecord
<1> QED
  BY <1>3 DEF Alike, Besides, SameLine, SameQueues, SameModes

\* Alike keeps the client sound.
LEMMA AlikeIsSane ==
  ASSUME NEW k \in ClientRecord, ClientSane(k), NEW n \in ClientRecord, Alike(k, n)
  PROVE  ClientSane(n) /\ Same(k, n)
BY AlikeSane DEF ClientSane

\* It exchanges, when it must.
LEMMA ExchangeSane ==
  ASSUME NEW k \in ClientRecord, ClientSane(k), NEW n, n = CheckStartExchange(k)
  PROVE  n \in ClientRecord /\ ClientSane(n) /\ Same(k, n)
<1>1. /\ n \in ClientRecord /\ Managing(n)
      /\ SameLine(k, n) /\ SameModes(k, n) /\ SameQueues(k, n)
  BY CheckStartExchangeKeeps DEF ClientSane
<1>2. Undisturbed(k, n)
  BY <1>1 DEF Undisturbed, SameQueues, Own
<1> QED
  BY <1>1, <1>2, UndisturbedTalking DEF ClientSane

\* It starts no more tasks.
LEMMA DontStartSane ==
  ASSUME NEW k \in ClientRecord, ClientSane(k), NEW n, n = DontStartMoreTasks(k)
  PROVE  n \in ClientRecord /\ ClientSane(n) /\ Same(k, n)
<1>1. /\ n \in ClientRecord /\ Speaks(k, n) /\ SameQueues(k, n) /\ SameModes(k, n)
      /\ n.pend = k.pend /\ n.assert = k.assert /\ n.dsmt = TRUE
  BY DontStartIs
<1>2. Managing(n) /\ Own(n) = Own(k)
  BY <1>1, ToldManaging DEF ClientSane, Speaks
<1>3. Talking(n) /\ Same(k, n)
  BY <1>1, <1>2, SpeaksTalking DEF ClientSane, SameQueues
<1> QED
  BY <1>1, <1>2, <1>3 DEF ClientSane

\* A command is executed.
LEMMA ExecCommandSane ==
  ASSUME NEW k \in ClientRecord, ClientSane(k), k.open = TRUE, NEW cmd \in Orders,
         NEW n, n = ExecCommand(k, cmd)
  PROVE  n \in ClientRecord /\ ClientSane(n) /\ Same(k, n)
<1> DEFINE c == Check(k, ~k.toldTs)
<1>1. ~k.tsQuit /\ ~k.toldTs /\ k.assert
  BY DEF ClientSane, Managing, Agreed
<1>2. c \in ClientRecord /\ Alike(k, c)
  BY <1>1, Checked, ClientRead
<1>3. ClientSane(c) /\ Same(k, c) /\ ~c.tsQuit
  BY <1>1, <1>2, AlikeIsSane DEF Alike, Besides, SameModes
<1>4. CASE cmd = "ClientQuit"
  BY <1>4, Steps DEF ExecCommand
<1>5. CASE cmd = "Kill"
  <2>1. n = DontStartMoreTasks(c)
    BY <1>5 DEF ExecCommand
  <2> HIDE DEF c
  <2> QED
    BY <2>1, <1>2, <1>3, DontStartSane, Steps
<1>6. CASE cmd = "StopJobs"
  <2>1. n = [c EXCEPT !.stopped = TRUE]
    BY <1>6 DEF ExecCommand
  <2> HIDE DEF c
  <2>2. n \in ClientRecord /\ Alike(c, n)
    BY <2>1, <1>2, Timers
  <2> QED
    BY <2>2, <1>2, <1>3, AlikeIsSane, Steps
<1>7. CASE cmd = "ContJobs"
  <2> DEFINE s == [c EXCEPT !.stopped = FALSE]  e == CheckStartExchange(s)
  <2>1. n = ReSched(e)
    BY <1>7 DEF ExecCommand
  <2> HIDE DEF c
  <2>2. s \in ClientRecord /\ Alike(c, s)
    BY <1>2, Timers
  <2> HIDE DEF s
  <2>3. ClientSane(s) /\ Same(c, s)
    BY <2>2, <1>2, <1>3, AlikeIsSane
  <2>4. e \in ClientRecord /\ ClientSane(e) /\ Same(s, e)
    BY <2>2, <2>3, ExchangeSane
  <2> HIDE DEF e
  <2>5. n \in ClientRecord /\ Alike(e, n)
    BY <2>1, <2>4, Timers
  <2>6. ClientSane(n) /\ Same(e, n)
    BY <2>4, <2>5, AlikeIsSane
  <2>7. Same(k, s)
    BY <2>3, <1>3, Steps
  <2> QED
    BY <2>4, <2>5, <2>6, <2>7, Steps
<1>8. CASE cmd = "GiveBackTasks"
  <2>1. n = GiveBackTasks(c)
    BY <1>8 DEF ExecCommand
  <2> HIDE DEF c
  <2> QED
    BY <2>1, <1>2, <1>3, GiveBackTasksSane, Steps
<1> QED
  BY <1>4, <1>5, <1>6, <1>7, <1>8 DEF Orders

----------------------------------------------------------------------------
(* The source's timer *)

\* What a report that is to be sent, one that is lost, a connected and a
\* disconnected manager look like.
Reporter(k, d)  == [k EXCEPT !.dts = 2, !.outsched = TRUE, !.tdi = d]
Dropped(k, r)   == [k EXCEPT !.dts = 0, !.cur = NoTask, !.pend = "None", !.run = r]
Paired(k, c)    == [k EXCEPT !.conn = c, !.pend = "None"]
Recovering(k)   == [k EXCEPT !.srec = 1, !.dsmt = TRUE, !.mrec = TRUE]

\* Beginning a report changes only the reporting members.
LEMMA ReporterIs ==
  ASSUME NEW k \in ClientRecord, NEW d \in Reporting, NEW n, n = Reporter(k, d)
  PROVE  /\ n \in ClientRecord /\ n.dts = 2 /\ n.tdi = d /\ SameModes(k, n)
         /\ n.cur = k.cur /\ n.todo = k.todo /\ n.proc = k.proc /\ n.done = k.done
         /\ n.run = k.run /\ n.open = k.open /\ n.dsmt = k.dsmt /\ n.pend = k.pend
         /\ n.assert = k.assert /\ n.tri = k.tri /\ n.out = k.out /\ n.lock = k.lock
         /\ n.send = k.send /\ n.take = k.take /\ n.why = k.why
<1>1. TRUE \in BOOLEAN /\ 2 \in 0..2
  OBVIOUS
<1>2. n \in ClientRecord /\ n.dts = 2 /\ n.tdi = d
  BY <1>1 DEF Reporter, ClientRecord
<1> QED
  BY <1>2 DEF Reporter, SameModes

\* Giving up a report changes only the members of the report.
LEMMA DroppedIs ==
  ASSUME NEW k \in ClientRecord, NEW r \in [Tasks -> Verdicts], NEW n, n = Dropped(k, r)
  PROVE  /\ n \in ClientRecord /\ n.dts = 0 /\ n.cur = NoTask /\ n.pend = "None" /\ n.run = r
         /\ SameLine(k, n) /\ SameModes(k, n) /\ n.dsmt = k.dsmt /\ n.assert = k.assert
         /\ n.todo = k.todo /\ n.proc = k.proc /\ n.done = k.done
<1>1. NoTask \in Held /\ 0 \in 0..2 /\ "None" \in {"None", "Connect", "DoneTask", "Disconnect"}
  BY Nothing
<1>2. n \in ClientRecord
  BY <1>1 DEF Dropped, ClientRecord
<1>3. n.dts = 0 /\ n.cur = NoTask /\ n.pend = "None" /\ n.run = r
  BY DEF Dropped, ClientRecord
<1> QED
  BY <1>2, <1>3 DEF Dropped, SameLine, SameModes

\* An answer to the manager changes only what it waits for.
LEMMA PairedIs ==
  ASSUME NEW k \in ClientRecord, NEW c \in BOOLEAN, NEW n, n = Paired(k, c)
  PROVE  /\ n \in ClientRecord /\ n.conn = c /\ n.pend = "None"
         /\ SameLine(k, n) /\ SameQueues(k, n) /\ n.dsmt = k.dsmt /\ n.assert = k.assert
         /\ n.srec = k.srec /\ n.tsQuit = k.tsQuit /\ n.mrec = k.mrec /\ n.toldTs = k.toldTs
<1>1. "None" \in {"None", "Connect", "DoneTask", "Disconnect"}
  OBVIOUS
<1>2. n \in ClientRecord /\ n.conn = c /\ n.pend = "None"
  BY <1>1 DEF Paired, ClientRecord
<1> QED
  BY <1>2 DEF Paired, SameLine, SameQueues

\* The first step of recovery changes only the modes.
LEMMA RecoveringIs ==
  ASSUME NEW k \in ClientRecord, NEW n, n = Recovering(k)
  PROVE  /\ n \in ClientRecord /\ n.srec = 1 /\ n.dsmt = TRUE /\ n.mrec = TRUE
         /\ SameLine(k, n) /\ SameQueues(k, n) /\ n.assert = k.assert /\ n.pend = k.pend
         /\ n.conn = k.conn /\ n.tsQuit = k.tsQuit /\ n.toldTs = k.toldTs
<1>1. TRUE \in BOOLEAN /\ 1 \in 0..2
  OBVIOUS
<1>2. n \in ClientRecord /\ n.srec = 1 /\ n.dsmt = TRUE /\ n.mrec = TRUE
  BY <1>1 DEF Recovering, ClientRecord
<1> QED
  BY <1>2 DEF Recovering, SameLine, SameQueues

\* A manager that comes or goes.
LEMMA PairedSane ==
  ASSUME NEW k \in ClientRecord, ClientSane(k), NEW c \in BOOLEAN, NEW n, n = Paired(k, c),
         \/ k.pend = "Connect" /\ c = TRUE
         \/ k.pend = "Disconnect" /\ c = FALSE
  PROVE  n \in ClientRecord /\ ClientSane(n) /\ Same(k, n)
<1>1. /\ n \in ClientRecord /\ n.conn = c /\ n.pend = "None"
      /\ SameLine(k, n) /\ SameQueues(k, n) /\ n.dsmt = k.dsmt /\ n.assert = k.assert
      /\ n.srec = k.srec /\ n.tsQuit = k.tsQuit /\ n.mrec = k.mrec /\ n.toldTs = k.toldTs
  BY PairedIs
<1>2. Own(n) = Own(k)
  BY <1>1 DEF SameQueues, Own
<1>3. Managing(n)
  <2>1. Managing(k)
    BY DEF ClientSane
  <2> QED
    BY <2>1, <1>1, <1>2 DEF Managing, Once, Agreed, SameQueues, SameLine
<1>4. Undisturbed(k, n)
  BY <1>1, <1>2 DEF Undisturbed, SameQueues
<1> QED
  BY <1>1, <1>3, <1>4, UndisturbedTalking DEF ClientSane

\* Connected, the manager gives a task back or leaves.
LEMMA GetOrDoneSane ==
  ASSUME NEW k \in ClientRecord, ClientSane(k), k.conn = TRUE, k.pend = "None",
         NEW n, n = GetOrDoneTask(k)
  PROVE  n \in ClientRecord /\ ClientSane(n) /\ Same(k, n)
<1>1. n \in ClientRecord /\ Managing(n) /\ Undisturbed(k, n)
  BY GetOrDoneTaskKeeps DEF ClientSane
<1> QED
  BY <1>1, UndisturbedTalking DEF ClientSane

\* A task that is not being reported can be dropped, unless the server waits.
LEMMA DroppedSane ==
  ASSUME NEW k \in ClientRecord, ClientSane(k), k.pend = "DoneTask", k.dts # 2,
         k.cur = NoTask \/ k.open = FALSE,
         NEW n, n = Dropped(k, [t \in Tasks |-> IF t = k.cur THEN "unset" ELSE k.run[t]])
  PROVE  n \in ClientRecord /\ ClientSane(n) /\ Same(k, n) /\ n.conn = TRUE /\ n.pend = "None"
<1> DEFINE r == [t \in Tasks |-> IF t = k.cur THEN "unset" ELSE k.run[t]]
<1>1. r \in [Tasks -> Verdicts]
  BY ClientRead DEF Verdicts
<1>2. n = Dropped(k, r)
  OBVIOUS
<1> HIDE DEF r
<1>3. /\ n \in ClientRecord /\ n.dts = 0 /\ n.cur = NoTask /\ n.pend = "None" /\ n.run = r
      /\ SameLine(k, n) /\ SameModes(k, n) /\ n.dsmt = k.dsmt /\ n.assert = k.assert
      /\ n.todo = k.todo /\ n.proc = k.proc /\ n.done = k.done
  BY <1>1, <1>2, DroppedIs
<1>4. Managing(k) /\ Telling(k)
  BY DEF ClientSane, Talking
<1>5. Own(n) \subseteq Own(k) /\ (k.cur = NoTask => Own(n) = Own(k))
  BY <1>3 DEF Own
<1>6. k.tdi.task = NoTask
  BY <1>4 DEF Telling, FreeTdi
<1>7. Once(n)
  <2>1. NoTask \notin InQueue(k.todo) /\ NoTask \notin InQueue(k.done) /\ NoTask \notin k.proc
    BY OwnType, Nothing
  <2> QED
    BY <2>1, <1>3, <1>4 DEF Managing, Once
<1>8. Agreed(n)
  BY <1>3, <1>4, <1>5 DEF Managing, Agreed, SameLine, SameModes
<1>9. Managing(n)
  BY <1>3, <1>4, <1>7, <1>8 DEF Managing
<1>10. Undisturbed(k, n)
  BY <1>3, <1>5, <1>6 DEF Undisturbed
<1>11. n.conn = TRUE
  BY <1>3, <1>4, ClientRead DEF Managing, Agreed, SameModes
<1> QED
  BY <1>3, <1>4, <1>9, <1>10, <1>11, UndisturbedTalking DEF ClientSane

\* A report is prepared.
LEMMA ReporterSane ==
  ASSUME NEW k \in ClientRecord, ClientSane(k), k.pend = "DoneTask", k.dts # 2,
         k.cur # NoTask, k.open = TRUE,
         NEW n, n = Reporter(k, [task |-> k.cur, act |-> "SendDone", n |-> 0])
  PROVE  n \in ClientRecord /\ ClientSane(n) /\ Same(k, n)
<1> DEFINE d == [task |-> k.cur, act |-> "SendDone", n |-> 0]
<1>1. d \in Reporting /\ d.task = k.cur /\ d.act = "SendDone" /\ d.n = 0
  BY ClientRead DEF Reporting
<1>2. n = Reporter(k, d)
  OBVIOUS
<1> HIDE DEF d
<1>3. /\ n \in ClientRecord /\ n.dts = 2 /\ n.tdi = d /\ SameModes(k, n)
      /\ n.cur = k.cur /\ n.todo = k.todo /\ n.proc = k.proc /\ n.done = k.done
      /\ n.run = k.run /\ n.open = k.open /\ n.dsmt = k.dsmt /\ n.pend = k.pend
      /\ n.assert = k.assert /\ n.tri = k.tri /\ n.out = k.out /\ n.lock = k.lock
      /\ n.send = k.send /\ n.take = k.take /\ n.why = k.why
  BY <1>1, <1>2, ReporterIs
<1>4. Managing(k) /\ Talking(k)
  BY DEF ClientSane
<1>5. Own(n) = Own(k)
  BY <1>3 DEF Own
<1>6. Managing(n)
  <2>1. Once(n)
    BY <1>3, <1>4 DEF Managing, Once
  <2>2. Agreed(n)
    BY <1>3, <1>4, <1>5 DEF Managing, Agreed, SameModes
  <2> QED
    BY <2>1, <2>2, <1>3, <1>4 DEF Managing
<1>7. k.tdi = FreeTdi /\ FreeTdi.act = "None" /\ k.tdi.act = "None"
  BY <1>4 DEF Talking, Telling, FreeTdi
<1>8. Receiving(n)
  BY <1>3, <1>4, <1>5 DEF Talking, Receiving
<1>9. k.out.cmd # "TaskDone"
  BY <1>4, <1>7, Saying DEF Talking, ClientOut
<1>10. k.tri.task = k.cur => k.tri.act = "Response"
  <2>1. FreeTri.task = NoTask
    BY DEF FreeTri
  <2>2. k.cur \in Own(k)
    BY DEF Own
  <2> QED
    BY <2>1, <2>2, <1>4 DEF Talking, Receiving
<1>11. Telling(n)
  BY <1>1, <1>3, <1>9, <1>10 DEF Telling
<1>12. ClientOut(n)
  BY <1>1, <1>3, <1>4, <1>7 DEF Talking, ClientOut
<1>13. Talking(n)
  BY <1>3, <1>4, <1>8, <1>11, <1>12 DEF Talking
<1>14. Then(n) = Then(k)
  BY <1>1, <1>3, <1>7 DEF Then
<1>15. Has(n) = Has(k)
  BY <1>3, <1>5, OwnType
<1> QED
  BY <1>3, <1>5, <1>6, <1>13, <1>14, <1>15 DEF ClientSane, Same

\* A report starts, or is lost.
LEMMA ProcessDoneSane ==
  ASSUME NEW k \in ClientRecord, ClientSane(k), k.pend = "DoneTask", k.dts # 2,
         NEW n, n = ProcessDoneTask(k)
  PROVE  n \in ClientRecord /\ ClientSane(n) /\ Same(k, n)
<1>0. Managing(k) /\ Telling(k) /\ k.open \in BOOLEAN
  BY ClientRead DEF ClientSane, Talking
<1>1. CASE k.cur # NoTask /\ k.open
  <2> DEFINE c == Check(k, k.tdi.task = NoTask)
             d == [task |-> k.cur, act |-> "SendDone", n |-> 0]
  <2>1. k.tdi.task = NoTask
    BY <1>0 DEF Telling, FreeTdi
  <2>2. c \in ClientRecord /\ Alike(k, c)
    BY <2>1, Checked
  <2>3. n = Reporter(c, d)
    BY <1>1 DEF ProcessDoneTask, Reporter
  <2> HIDE DEF c
  <2>4. ClientSane(c) /\ Same(k, c)
    BY <2>2, AlikeIsSane
  <2>5. c.pend = "DoneTask" /\ c.dts # 2 /\ c.cur = k.cur /\ c.open = TRUE
    BY <1>0, <1>1, <2>2 DEF Alike, Besides, SameQueues
  <2>6. n = Reporter(c, [task |-> c.cur, act |-> "SendDone", n |-> 0])
    BY <2>3, <2>5
  <2>7. c.cur # NoTask
    BY <1>1, <2>5
  <2>8. n \in ClientRecord /\ ClientSane(n) /\ Same(c, n)
    BY <2>2, <2>4, <2>5, <2>6, <2>7, ReporterSane
  <2> QED
    BY <2>4, <2>8, Steps
<1>2. CASE ~(k.cur # NoTask /\ k.open)
  <2> DEFINE c == Check(k, k.cur = NoTask \/ k.srec > 0)
             m == Dropped(c, [t \in Tasks |-> IF t = k.cur THEN "unset" ELSE c.run[t]])
  <2>1. k.cur = NoTask \/ k.srec > 0
    <3>1. k.cur # NoTask => k.cur \in Own(k)
      BY DEF Own
    <3> QED
      BY <3>1, <1>0, <1>2, ClientRead DEF Managing, Agreed
  <2>2. c \in ClientRecord /\ Alike(k, c)
    <3>1. (k.cur = NoTask \/ k.srec > 0) = TRUE
      BY <2>1
    <3> QED
      BY <3>1, Checked
  <2>3. n = GetOrDoneTask(m)
    BY <1>2 DEF ProcessDoneTask, Dropped
  <2>4. ClientSane(c) /\ Same(k, c)
    BY <2>2, AlikeIsSane
  <2>5. c.pend = "DoneTask" /\ c.dts # 2 /\ c.cur = k.cur /\ c.open = k.open
    BY <2>2 DEF Alike, Besides, SameQueues
  <2>6. m = Dropped(c, [t \in Tasks |-> IF t = c.cur THEN "unset" ELSE c.run[t]])
    BY <2>5
  <2> HIDE DEF c, m
  <2>7. c.cur = NoTask \/ c.open = FALSE
    BY <1>0, <1>2, <2>5
  <2>8. /\ m \in ClientRecord /\ ClientSane(m) /\ Same(c, m) /\ m.conn = TRUE
        /\ m.pend = "None"
    BY <2>2, <2>4, <2>5, <2>6, <2>7, DroppedSane
  <2>9. n \in ClientRecord /\ ClientSane(n) /\ Same(m, n)
    BY <2>3, <2>8, GetOrDoneSane
  <2>10. Same(k, m)
    BY <2>4, <2>8, Steps
  <2> QED
    BY <2>9, <2>10, Steps
<1> QED
  BY <1>1, <1>2

\* What the manager asked for happens.
LEMMA ReportPendingSane ==
  ASSUME NEW k \in ClientRecord, ClientSane(k), NEW n, n = ReportPending(k)
  PROVE  n \in ClientRecord /\ ClientSane(n) /\ Same(k, n)
<1>1. CASE k.pend = "Connect"
  <2> DEFINE m == Paired(k, TRUE)
  <2>1. n = GetOrDoneTask(m)
    BY <1>1 DEF ReportPending, Paired
  <2>2. m \in ClientRecord /\ m.conn = TRUE /\ m.pend = "None"
    <3>1. TRUE \in BOOLEAN /\ m = Paired(k, TRUE)
      OBVIOUS
    <3> HIDE DEF m
    <3> QED
      BY <3>1, PairedIs
  <2>3. ClientSane(m) /\ Same(k, m)
    BY <1>1, PairedSane
  <2> HIDE DEF m
  <2>4. n \in ClientRecord /\ ClientSane(n) /\ Same(m, n)
    BY <2>1, <2>2, <2>3, GetOrDoneSane
  <2> QED
    BY <2>3, <2>4, Steps
<1>2. CASE k.pend = "DoneTask" /\ k.dts # 2
  BY <1>2, ProcessDoneSane DEF ReportPending
<1>3. CASE k.pend = "Disconnect" /\ ~k.tsQuit
  <2> DEFINE m == Paired(k, FALSE)
  <2>1. n = IF k.mrec THEN ReSched(m) ELSE m
    BY <1>3 DEF ReportPending, Paired
  <2>2. m \in ClientRecord /\ ClientSane(m) /\ Same(k, m)
    BY <1>3, PairedSane
  <2> HIDE DEF m
  <2>3. CASE k.mrec
    <3>1. n \in ClientRecord /\ Alike(m, n)
      BY <2>1, <2>2, <2>3, Timers
    <3> QED
      BY <3>1, <2>2, AlikeIsSane, Steps
  <2>4. CASE ~k.mrec
    BY <2>1, <2>2, <2>4
  <2> QED
    BY <2>3, <2>4
<1>4. CASE ~(k.pend = "Connect") /\ ~(k.pend = "DoneTask" /\ k.dts # 2)
           /\ ~(k.pend = "Disconnect" /\ ~k.tsQuit)
  BY <1>4, Steps DEF ReportPending
<1> QED
  BY <1>1, <1>2, <1>3, <1>4

\* The source starts to recover.
LEMMA BeginRecoverySane ==
  ASSUME NEW k \in ClientRecord, ClientSane(k), NEW n, n = BeginRecovery(k)
  PROVE  n \in ClientRecord /\ ClientSane(n) /\ Same(k, n)
<1>1. CASE k.srec # 2
  BY <1>1, Steps DEF BeginRecovery
<1>2. CASE k.srec = 2
  <2>1. Managing(k) /\ ~k.open /\ ~k.mrec /\ ~k.toldTs /\ ~k.tsQuit /\ k.assert
    BY <1>2 DEF ClientSane, Managing, Agreed
  <2> DEFINE r == Check([k EXCEPT !.srec = 1], ~k.toldTs)  e == Recovering(k)
  <2>2. r = [k EXCEPT !.srec = 1]
    <3>1. (k.assert /\ ~k.toldTs) = k.assert
      BY <2>1, ClientRead
    <3>2. r = [[k EXCEPT !.srec = 1] EXCEPT !.assert = k.assert]
      BY <3>1 DEF Check
    <3> QED
      BY <3>2 DEF ClientRecord
  <2>3. DontStartMoreTasks(r) = [r EXCEPT !.dsmt = TRUE]
    <3> HIDE DEF r
    <3>1. r.open = k.open
      BY <2>2
    <3>2. NoMoreNewTasks(r) = r
      BY <2>1, <3>1 DEF NoMoreNewTasks
    <3> QED
      BY <3>2 DEF DontStartMoreTasks
  <2>4. n = ReSched(e)
    BY <1>2, <2>2, <2>3 DEF BeginRecovery, Recovering
  <2> HIDE DEF r, e
  <2>5. e = Recovering(k)
    BY DEF e
  <2>6. /\ e \in ClientRecord /\ e.srec = 1 /\ e.dsmt = TRUE /\ e.mrec = TRUE
        /\ SameLine(k, e) /\ SameQueues(k, e) /\ e.assert = k.assert /\ e.pend = k.pend
        /\ e.conn = k.conn /\ e.tsQuit = k.tsQuit /\ e.toldTs = k.toldTs
    BY <2>5, RecoveringIs
  <2>7. Managing(e)
    BY <2>1, <2>6 DEF Managing, Once, Agreed, SameQueues, SameLine
  <2>8. Undisturbed(k, e)
    BY <2>1, <2>6 DEF Undisturbed, SameQueues
  <2>9. ClientSane(e) /\ Same(k, e)
    BY <2>6, <2>7, <2>8, UndisturbedTalking DEF ClientSane
  <2>10. n \in ClientRecord /\ Alike(e, n)
    BY <2>4, <2>6, Timers
  <2> QED
    BY <2>6, <2>9, <2>10, AlikeIsSane, Steps
<1> QED
  BY <1>1, <1>2

\* The source is quit.
LEMMA QuitOkaySane ==
  ASSUME NEW k \in ClientRecord, ClientSane(k), NEW n, n = QuitOkay(k)
  PROVE  n \in ClientRecord /\ ClientSane(n) /\ Same(k, n)
<1>1. CASE ~(k.tsQuit /\ k.toldTs /\ k.pend = "Disconnect")
  BY <1>1, Steps DEF QuitOkay
<1>2. CASE k.tsQuit /\ k.toldTs /\ k.pend = "Disconnect"
  <2> DEFINE m == Paired(k, FALSE)
  <2>1. n = ReSched(m)
    BY <1>2 DEF QuitOkay, Paired
  <2>2. m \in ClientRecord /\ ClientSane(m) /\ Same(k, m)
    BY <1>2, PairedSane
  <2> HIDE DEF m
  <2>3. n \in ClientRecord /\ Alike(m, n)
    BY <2>1, <2>2, Timers
  <2> QED
    BY <2>2, <2>3, AlikeIsSane, Steps
<1> QED
  BY <1>1, <1>2

\* The timer of the source.
LEMMA TimerNotifySane ==
  ASSUME NEW k \in ClientRecord, ClientSane(k), NEW n, n = TimerNotify(k)
  PROVE  n \in ClientRecord /\ ClientSane(n) /\ Same(k, n)
<1> DEFINE a == [k EXCEPT !.timer = FALSE]  b == ReportPending(a)  c == HandOver(b)
           d == BeginRecovery(c)
<1>1. n = QuitOkay(d)
  BY DEF TimerNotify
<1>2. a \in ClientRecord /\ Alike(k, a)
  BY Timers
<1> HIDE DEF a
<1>3. ClientSane(a) /\ Same(k, a)
  BY <1>2, AlikeIsSane
<1>4. b \in ClientRecord /\ ClientSane(b) /\ Same(a, b)
  BY <1>2, <1>3, ReportPendingSane
<1> HIDE DEF b
<1>5. c \in ClientRecord /\ ClientSane(c) /\ Same(b, c)
  BY <1>4, HandOverSane
<1> HIDE DEF c
<1>6. d \in ClientRecord /\ ClientSane(d) /\ Same(c, d)
  BY <1>5, BeginRecoverySane
<1> HIDE DEF d
<1>7. n \in ClientRecord /\ ClientSane(n) /\ Same(d, n)
  BY <1>1, <1>6, QuitOkaySane
<1>8. Same(k, b)
  BY <1>3, <1>4, Steps
<1>9. Same(k, c)
  BY <1>8, <1>5, Steps
<1>10. Same(k, d)
  BY <1>9, <1>6, Steps
<1> QED
  BY <1>7, <1>10, Steps

----------------------------------------------------------------------------
(* The way through recovery *)

NewCycle(k) ==
  [k EXCEPT !.dsmt = FALSE, !.mrec = FALSE, !.toldIf = FALSE, !.toldTs = FALSE,
            !.first = FALSE, !.stopped = FALSE, !.srec = 0, !.tsQuit = FALSE]

Quitting(k) == [k EXCEPT !.toldTs = TRUE, !.tsQuit = TRUE, !.srec = 1, !.pend = "Disconnect"]

\* The records on the way into a new cycle are records of a client.
LEMMA NewCycleTyped ==
  ASSUME NEW k \in ClientRecord, NEW b \in BOOLEAN, NEW i \in 0..2
  PROVE  /\ [k EXCEPT !.dsmt = b, !.mrec = b, !.toldIf = b, !.toldTs = b] \in ClientRecord
         /\ [k EXCEPT !.first = b, !.stopped = b, !.srec = i, !.tsQuit = b] \in ClientRecord
<1>1. [k EXCEPT !.dsmt = b, !.mrec = b, !.toldIf = b, !.toldTs = b] \in ClientRecord
  BY DEF ClientRecord
<1>2. [k EXCEPT !.first = b, !.stopped = b, !.srec = i, !.tsQuit = b] \in ClientRecord
  BY DEF ClientRecord
<1> QED
  BY <1>1, <1>2

\* A new cycle begins with the modes of a fresh manager.
LEMMA NewCycleIs ==
  ASSUME NEW k \in ClientRecord, NEW n, n = NewCycle(k)
  PROVE  /\ n \in ClientRecord /\ n.mrec = FALSE /\ n.toldTs = FALSE /\ n.srec = 0
         /\ n.tsQuit = FALSE /\ SameLine(k, n) /\ SameQueues(k, n) /\ n.conn = k.conn
         /\ n.pend = k.pend /\ n.assert = k.assert
<1>1. FALSE \in BOOLEAN /\ 0 \in 0..2
  OBVIOUS
<1>2. n \in ClientRecord
  <2> DEFINE m == [k EXCEPT !.dsmt = FALSE, !.mrec = FALSE, !.toldIf = FALSE,
                            !.toldTs = FALSE]
  <2>1. m \in ClientRecord
    BY <1>1, NewCycleTyped
  <2>2. n = [m EXCEPT !.first = FALSE, !.stopped = FALSE, !.srec = 0, !.tsQuit = FALSE]
    BY DEF NewCycle
  <2> HIDE DEF m
  <2> QED
    BY <1>1, <2>1, <2>2, NewCycleTyped
<1>3. n.mrec = FALSE /\ n.toldTs = FALSE /\ n.srec = 0 /\ n.tsQuit = FALSE
  BY DEF NewCycle, ClientRecord
<1> QED
  BY <1>2, <1>3 DEF NewCycle, SameLine, SameQueues

\* The disconnection before a new cycle changes only the modes.
LEMMA QuittingIs ==
  ASSUME NEW k \in ClientRecord, NEW n, n = Quitting(k)
  PROVE  /\ n \in ClientRecord /\ n.toldTs = TRUE /\ n.tsQuit = TRUE /\ n.srec = 1
         /\ n.pend = "Disconnect" /\ SameLine(k, n) /\ SameQueues(k, n)
         /\ n.conn = k.conn /\ n.mrec = k.mrec /\ n.dsmt = k.dsmt /\ n.assert = k.assert
<1>1. TRUE \in BOOLEAN /\ 1 \in 0..2 /\ "Disconnect" \in {"None", "Connect", "DoneTask", "Disconnect"}
  OBVIOUS
<1>2. n \in ClientRecord
  BY <1>1 DEF Quitting, ClientRecord
<1>3. n.toldTs = TRUE /\ n.tsQuit = TRUE /\ n.srec = 1 /\ n.pend = "Disconnect"
  BY DEF Quitting, ClientRecord
<1> QED
  BY <1>2, <1>3 DEF Quitting, SameLine, SameQueues

\* A recovering manager has no connection.
LEMMA RecoversClosed ==
  ASSUME NEW k, Managing(k), k.mrec
  PROVE  ~k.open /\ k.srec = 1 /\ k.dsmt
BY DEF Managing, Agreed

\* The source is told to quit.
LEMMA TSQuitSane ==
  ASSUME NEW k \in ClientRecord, ClientSane(k), k.mrec = TRUE, k.todo = <<>>, k.proc = {},
         k.done = <<>>, k.conn = FALSE, k.pend = "None", NEW n, n = TSQuit(k)
  PROVE  n \in ClientRecord /\ ClientSane(n) /\ Same(k, n)
<1> DEFINE c == Check(k, k.pend = "None")  q == Quitting(c)
<1>1. n = Arm(q)
  BY DEF TSQuit, Quitting
<1>2. c \in ClientRecord /\ Alike(k, c)
  BY Checked
<1> HIDE DEF c
<1>3. ClientSane(c)  /\ Same(k, c)
  BY <1>2, AlikeIsSane
<1>4. /\ q \in ClientRecord /\ q.toldTs = TRUE /\ q.tsQuit = TRUE /\ q.srec = 1
      /\ q.pend = "Disconnect" /\ SameLine(c, q) /\ SameQueues(c, q)
      /\ q.conn = c.conn /\ q.mrec = c.mrec /\ q.dsmt = c.dsmt /\ q.assert = c.assert
  BY <1>2, QuittingIs
<1> HIDE DEF q
<1>5. /\ c.mrec = TRUE /\ c.todo = <<>> /\ c.proc = {} /\ c.done = <<>> /\ c.conn = FALSE
      /\ c.pend = "None"
  BY <1>2 DEF Alike, Besides, SameQueues, SameModes
<1>6. Managing(c) /\ ~c.open /\ c.dsmt
  BY <1>3, <1>5, RecoversClosed DEF ClientSane
<1>7. Managing(q)
  <2>1. Once(q)
    BY <1>4, <1>6 DEF Managing, Once, SameQueues
  <2>2. Agreed(q)
    BY <1>4, <1>5, <1>6 DEF Managing, Agreed, SameQueues, SameLine
  <2> QED
    BY <2>1, <2>2, <1>4, <1>6 DEF Managing
<1>8. Undisturbed(c, q)
  BY <1>4, <1>6 DEF Undisturbed, SameQueues
<1>9. ClientSane(q) /\ Same(c, q)
  BY <1>2, <1>3, <1>4, <1>7, <1>8, UndisturbedTalking DEF ClientSane
<1>10. n \in ClientRecord /\ Alike(q, n)
  BY <1>1, <1>4, Timers
<1>11. Same(k, q)
  BY <1>3, <1>9, Steps
<1> QED
  BY <1>4, <1>9, <1>10, <1>11, AlikeIsSane, Steps

\* A new work cycle.
LEMMA EndRecoverySane ==
  ASSUME NEW k \in ClientRecord, ClientSane(k), k.mrec = TRUE, k.todo = <<>>, k.proc = {},
         k.done = <<>>, k.conn = FALSE, k.pend = "None", NEW n, n = EndRecovery(k)
  PROVE  n \in ClientRecord /\ ClientSane(n) /\ Same(k, n)
<1> DEFINE e == NewCycle(k)
<1>1. n = ReSched(e)
  BY DEF EndRecovery, NewCycle
<1>2. /\ e \in ClientRecord /\ e.mrec = FALSE /\ e.toldTs = FALSE /\ e.srec = 0
      /\ e.tsQuit = FALSE /\ SameLine(k, e) /\ SameQueues(k, e) /\ e.conn = k.conn
      /\ e.pend = k.pend /\ e.assert = k.assert
  BY NewCycleIs
<1> HIDE DEF e
<1>3. Managing(k) /\ ~k.open
  BY RecoversClosed DEF ClientSane
<1>4. Own(e) = {} /\ k.dts = 0
  <2>1. k.cur = NoTask /\ k.dts = 0
    BY <1>3 DEF Managing, Agreed
  <2>2. InQueue(<<>>) = {}
    BY DEF InQueue
  <2> QED
    BY <2>1, <2>2, <1>2 DEF Own, SameQueues
<1>5. Managing(e)
  <2>1. Once(e)
    BY <1>2, <1>3 DEF Managing, Once, SameQueues
  <2>2. Agreed(e)
    BY <1>2, <1>3, <1>4 DEF Managing, Agreed, SameQueues, SameLine
  <2> QED
    BY <2>1, <2>2, <1>2, <1>3 DEF Managing
<1>6. Undisturbed(k, e)
  BY <1>2, <1>3 DEF Undisturbed, SameQueues
<1>7. ClientSane(e) /\ Same(k, e)
  BY <1>2, <1>5, <1>6, UndisturbedTalking DEF ClientSane
<1>8. n \in ClientRecord /\ Alike(e, n)
  BY <1>1, <1>2, Timers
<1> QED
  BY <1>2, <1>7, <1>8, AlikeIsSane, Steps

\* The manager's own timer.
LEMMA ScheduleSane ==
  ASSUME NEW k \in ClientRecord, ClientSane(k), NEW n, n = Schedule(k)
  PROVE  n \in ClientRecord /\ ClientSane(n) /\ Same(k, n)
<1> DEFINE s == [k EXCEPT !.sched = FALSE]
           idle == k.todo = <<>> /\ k.proc = {}
           alone == idle /\ k.done = <<>> /\ ~k.conn /\ k.pend = "None"
<1>1. s \in ClientRecord /\ Alike(k, s)
  BY Timers
<1>2. ClientSane(s) /\ Same(k, s)
  BY <1>1, AlikeIsSane
<1>3. n = IF ~k.mrec THEN s
          ELSE IF idle /\ ~k.toldIf THEN ReSched([s EXCEPT !.toldIf = TRUE])
          ELSE IF alone THEN IF k.toldTs THEN EndRecovery(s) ELSE TSQuit(s)
          ELSE IF ~k.conn THEN CheckStartExchange(s)
          ELSE IF k.pend = "None" THEN GetOrDoneTask(s) ELSE s
  BY DEF Schedule
<1>4. /\ s.mrec = k.mrec /\ s.todo = k.todo /\ s.proc = k.proc /\ s.done = k.done
      /\ s.conn = k.conn /\ s.pend = k.pend
  BY <1>1 DEF Alike, Besides, SameQueues, SameModes
<1> HIDE DEF s
<1>5. CASE n = s
  BY <1>5, <1>1, <1>2
<1>6. CASE n = ReSched([s EXCEPT !.toldIf = TRUE])
  <2> DEFINE f == [s EXCEPT !.toldIf = TRUE]
  <2>1. f \in ClientRecord /\ Alike(s, f)
    BY <1>1, Timers
  <2>2. ClientSane(f) /\ Same(s, f)
    BY <2>1, <1>1, <1>2, AlikeIsSane
  <2>3. n = ReSched(f)
    BY <1>6
  <2> HIDE DEF f
  <2>4. n \in ClientRecord /\ Alike(f, n)
    BY <2>1, <2>3, Timers
  <2>5. Same(k, f)
    BY <1>2, <2>2, Steps
  <2> QED
    BY <2>1, <2>2, <2>4, <2>5, AlikeIsSane, Steps
<1>7. ASSUME k.mrec, alone PROVE /\ s.mrec = TRUE /\ s.todo = <<>> /\ s.proc = {}
         /\ s.done = <<>> /\ s.conn = FALSE /\ s.pend = "None"
  BY <1>4, <1>7, ClientRead
<1>8. CASE k.mrec /\ alone /\ n = EndRecovery(s)
  BY <1>7, <1>8, <1>1, <1>2, EndRecoverySane, Steps
<1>9. CASE k.mrec /\ alone /\ n = TSQuit(s)
  BY <1>7, <1>9, <1>1, <1>2, TSQuitSane, Steps
<1>10. CASE n = CheckStartExchange(s)
  BY <1>10, <1>1, <1>2, ExchangeSane, Steps
<1>11. CASE k.conn /\ k.pend = "None" /\ n = GetOrDoneTask(s)
  <2>1. s.conn = TRUE /\ s.pend = "None"
    BY <1>4, <1>11, ClientRead
  <2> QED
    BY <2>1, <1>11, <1>1, <1>2, GetOrDoneSane, Steps
<1> HIDE DEF alone, idle
<1> QED
  BY <1>3, <1>5, <1>6, <1>8, <1>9, <1>10, <1>11

----------------------------------------------------------------------------
(* The connection begins and ends *)

Closing(k, why) ==
  [k EXCEPT !.open = FALSE, !.tri = FreeTri, !.tdi = FreeTdi,
            !.out = NoPacket, !.lock = FALSE, !.send = <<>>,
            !.outsched = FALSE, !.take = NoTask, !.srec = 2, !.why = why]

HalfClosed(k, b, t, d, p) ==
  [k EXCEPT !.open = b, !.tri = t, !.tdi = d, !.out = p, !.lock = b]

HalfLeft(k, q, b, h, i, w) ==
  [k EXCEPT !.send = q, !.outsched = b, !.take = h, !.srec = i, !.why = w]

\* A record whose packets are dropped is a record of a client.
LEMMA ClosingTyped ==
  ASSUME NEW k \in ClientRecord, NEW b \in BOOLEAN, NEW t \in Taking, NEW d \in Reporting,
         NEW p \in Packets, NEW n, n = HalfClosed(k, b, t, d, p)
  PROVE  n \in ClientRecord
BY DEF HalfClosed, ClientRecord

\* A record whose answers are dropped is a record of a client.
LEMMA ClosedTyped ==
  ASSUME NEW k \in ClientRecord, NEW q \in Seq(Orders \cup {NoMoreTasks}),
         NEW b \in BOOLEAN, NEW h \in Held, NEW i \in 0..2, NEW w \in Ends,
         NEW n, n = HalfLeft(k, q, b, h, i, w)
  PROVE  n \in ClientRecord
BY DEF HalfLeft, ClientRecord

\* An end that closes forgets all packets, and keeps the manager.
LEMMA ClosingIs ==
  ASSUME NEW k \in ClientRecord, NEW w \in Ends, NEW n, n = Closing(k, w)
  PROVE  /\ n \in ClientRecord /\ ~n.open /\ n.tri = FreeTri /\ n.tdi = FreeTdi
         /\ n.out = NoPacket /\ ~n.lock /\ n.send = <<>> /\ n.take = NoTask
         /\ n.srec = 2 /\ n.why = w /\ SameQueues(k, n) /\ n.conn = k.conn
         /\ n.tsQuit = k.tsQuit /\ n.mrec = k.mrec /\ n.toldTs = k.toldTs
         /\ n.pend = k.pend /\ n.assert = k.assert /\ n.dsmt = k.dsmt
<1> DEFINE m == HalfClosed(k, FALSE, FreeTri, FreeTdi, NoPacket)
<1>1. /\ FALSE \in BOOLEAN /\ 2 \in 0..2 /\ <<>> \in Seq(Orders \cup {NoMoreTasks})
      /\ NoTask \in Held /\ FreeTri \in Taking /\ FreeTdi \in Reporting
      /\ NoPacket \in Packets
  BY Nothing
<1>2. m \in ClientRecord
  BY <1>1, ClosingTyped
<1>3. n = HalfLeft(m, <<>>, FALSE, NoTask, 2, w)
  BY DEF Closing, HalfClosed, HalfLeft
<1>4. /\ m.open = FALSE /\ m.tri = FreeTri /\ m.tdi = FreeTdi
      /\ m.out = NoPacket /\ m.lock = FALSE
  BY DEF HalfClosed, ClientRecord
<1>5. /\ SameQueues(k, m) /\ SameModes(k, m)
      /\ m.pend = k.pend /\ m.assert = k.assert /\ m.dsmt = k.dsmt
  BY DEF HalfClosed, SameQueues, SameModes
<1> HIDE DEF m
<1>6. n \in ClientRecord
  BY <1>1, <1>2, <1>3, ClosedTyped
<1>7. /\ ~n.open /\ n.tri = FreeTri /\ n.tdi = FreeTdi
      /\ n.out = NoPacket /\ ~n.lock
  BY <1>3, <1>4 DEF HalfLeft
<1>8. n.send = <<>> /\ n.take = NoTask /\ n.srec = 2 /\ n.why = w
  BY <1>2, <1>3 DEF HalfLeft, ClientRecord
<1>9. /\ SameQueues(m, n) /\ n.conn = m.conn
      /\ n.tsQuit = m.tsQuit /\ n.mrec = m.mrec /\ n.toldTs = m.toldTs
      /\ n.pend = m.pend /\ n.assert = m.assert /\ n.dsmt = m.dsmt
  BY <1>3 DEF HalfLeft, SameQueues
<1> QED
  BY <1>5, <1>6, <1>7, <1>8, <1>9 DEF SameQueues, SameModes

\* The client closes its end.
LEMMA ConnCloseSane ==
  ASSUME NEW k \in ClientRecord, Managing(k), k.open = TRUE, NEW w \in Ends, w # "protocol",
         NEW n, n = ConnClose(k, w)
  PROVE  n \in ClientRecord /\ ClientSane(n) /\ ~n.open
<1> DEFINE c == Closing(k, w)
<1>1. n = Arm(c)
  BY DEF ConnClose, Closing
<1> HIDE DEF c
<1>20. c = Closing(k, w)
  BY DEF c
<1>21. c \in ClientRecord /\ ~c.open /\ ~c.lock
  BY <1>20, ClosingIs
<1>22. c.tri = FreeTri /\ c.tdi = FreeTdi /\ c.out = NoPacket
  BY <1>20, ClosingIs
<1>23. c.send = <<>> /\ c.take = NoTask /\ c.srec = 2 /\ c.why = w
  BY <1>20, ClosingIs
<1>24. /\ SameQueues(k, c) /\ c.conn = k.conn
      /\ c.tsQuit = k.tsQuit /\ c.mrec = k.mrec /\ c.toldTs = k.toldTs
      /\ c.pend = k.pend /\ c.assert = k.assert /\ c.dsmt = k.dsmt
  BY <1>20, ClosingIs
<1>3. Managing(c)
  <2>1. Once(c)
    BY <1>21, <1>22, <1>23, <1>24 DEF Managing, Once, SameQueues
  <2>2. Agreed(c)
    BY <1>21, <1>22, <1>23, <1>24 DEF Managing, Agreed, SameQueues
  <2> QED
    BY <2>1, <2>2, <1>21, <1>22, <1>23, <1>24 DEF Managing
<1>4. /\ FreeTri.act = "None" /\ FreeTri.resp = "none" /\ FreeTri.task = NoTask
      /\ FreeTdi.act = "None" /\ FreeTdi.task = NoTask /\ NoPacket.cmd = "none"
  BY Saying DEF FreeTri, FreeTdi
<1>5. Receiving(c)
  BY <1>21, <1>22, <1>23, <1>24, <1>4 DEF Receiving
<1>6. Telling(c)
  BY <1>21, <1>22, <1>23, <1>24, <1>4 DEF Telling
<1>7. ClientOut(c)
  BY <1>21, <1>22, <1>23, <1>24, <1>4 DEF ClientOut
<1>8. ClientSane(c)
  BY <1>21, <1>22, <1>23, <1>24, <1>3, <1>5, <1>6, <1>7 DEF ClientSane, Talking
<1>9. n \in ClientRecord /\ Alike(c, n)
  BY <1>1, <1>21, Timers
<1>10. n.open = c.open
  BY <1>9 DEF Alike, SameLine
<1> QED
  BY <1>21, <1>22, <1>23, <1>24, <1>8, <1>9, <1>10, AlikeIsSane

Greeting(k) == [k EXCEPT !.open = TRUE, !.out = NowConnected, !.why = "none"]

\* An end that opens has its greeting to write.
LEMMA GreetingIs ==
  ASSUME NEW k \in ClientRecord, NEW n, n = Greeting(k)
  PROVE  /\ n \in ClientRecord /\ n.open = TRUE /\ n.out = NowConnected /\ n.why = "none"
         /\ SameQueues(k, n) /\ SameModes(k, n) /\ n.pend = k.pend /\ n.assert = k.assert
         /\ n.dsmt = k.dsmt /\ n.tri = k.tri /\ n.tdi = k.tdi /\ n.lock = k.lock
         /\ n.send = k.send /\ n.take = k.take
<1>1. TRUE \in BOOLEAN /\ NowConnected \in Packets /\ "none" \in Ends
  BY PacketsTyped DEF Ends
<1>2. n \in ClientRecord /\ n.open = TRUE /\ n.out = NowConnected /\ n.why = "none"
  BY <1>1 DEF Greeting, ClientRecord
<1> QED
  BY <1>2 DEF Greeting, SameQueues, SameModes

\* A new connection finds nothing left over from the last.
LEMMA AuthenticatedSane ==
  ASSUME NEW k \in ClientRecord, ClientSane(k), k.open = FALSE, k.srec = 0,
         NEW n, n = ServerHasNowAuthenticated(k)
  PROVE  /\ n \in ClientRecord /\ ClientSane(n) /\ n.open = TRUE /\ Own(n) = {}
         /\ n.tri = FreeTri /\ n.tdi = FreeTdi /\ n.send = <<>> /\ n.out = NowConnected
<1> DEFINE ok == k.todo = <<>> /\ k.proc = {}  c == Check(k, ok)
<1>1. Own(k) = {}
  BY DEF ClientSane, Managing, Agreed
<1>2. ok
  <2>1. InQueue(k.todo) = {} /\ k.proc = {}
    BY <1>1 DEF Own
  <2> QED
    BY <2>1, ClientRead, QueueType
<1>3. c \in ClientRecord /\ Alike(k, c)
  <2>1. ok = TRUE
    BY <1>2
  <2> QED
    BY <2>1, Checked
<1>4. n = Greeting(c)
  BY DEF ServerHasNowAuthenticated, Greeting
<1> HIDE DEF c
<1>5. ClientSane(c) /\ Same(k, c) /\ Own(c) = {}
  BY <1>1, <1>3, AlikeIsSane, AlikeSane
<1>6. c.open = FALSE /\ c.srec = 0
  BY <1>3 DEF Alike, SameLine, Besides, SameModes
<1>7. /\ c.tri = FreeTri /\ c.tdi = FreeTdi /\ c.out = NoPacket
      /\ ~c.lock /\ c.send = <<>> /\ c.take = NoTask
  BY <1>5, <1>6 DEF ClientSane, Talking
<1>8. /\ n \in ClientRecord /\ n.open = TRUE /\ n.out = NowConnected /\ n.why = "none"
      /\ SameQueues(c, n) /\ SameModes(c, n) /\ n.pend = c.pend /\ n.assert = c.assert
      /\ n.dsmt = c.dsmt /\ n.tri = c.tri /\ n.tdi = c.tdi /\ n.lock = c.lock
      /\ n.send = c.send /\ n.take = c.take
  BY <1>3, <1>4, GreetingIs
<1>9. Own(n) = {}
  BY <1>5, <1>8 DEF Own, SameQueues
<1>10. Managing(n)
  <2>1. Once(n)
    BY <1>5, <1>8 DEF ClientSane, Managing, Once, SameQueues
  <2>2. Agreed(n)
    BY <1>5, <1>6, <1>8, <1>9 DEF ClientSane, Managing, Agreed, SameQueues, SameModes
  <2> QED
    BY <2>1, <2>2, <1>5, <1>8 DEF ClientSane, Managing
<1>11. /\ FreeTri.act = "None" /\ FreeTri.resp = "none" /\ FreeTri.task = NoTask
       /\ FreeTdi.act = "None" /\ FreeTdi.task = NoTask /\ NowConnected.cmd = "NowConnected"
  BY Saying DEF FreeTri, FreeTdi
<1>12. Receiving(n)
  BY <1>7, <1>8, <1>11 DEF Receiving
<1>13. Telling(n)
  BY <1>7, <1>8, <1>11 DEF Telling
<1>14. ClientOut(n)
  BY <1>7, <1>8, <1>11 DEF ClientOut
<1> QED
  BY <1>7, <1>8, <1>9, <1>10, <1>12, <1>13, <1>14 DEF ClientSane, Talking

\* The timer of the outgoing side.
LEMMA ScheduledSendSane ==
  ASSUME NEW k \in ClientRecord, ClientSane(k), NEW n, n = ScheduledSend(k)
  PROVE  n \in ClientRecord /\ ClientSane(n) /\ Same(k, n)
<1> DEFINE a == [k EXCEPT !.outsched = FALSE]
<1>1. n = ClientSends(a)
  BY DEF ScheduledSend
<1>2. a \in ClientRecord /\ Alike(k, a)
  BY Timers
<1> HIDE DEF a
<1>3. ClientSane(a) /\ Same(k, a)
  BY <1>2, AlikeIsSane
<1>4. n \in ClientRecord /\ Talking(n) /\ Same(a, n) /\ Besides(a, n)
  BY <1>1, <1>2, <1>3, ClientSendsKeeps DEF ClientSane
<1>5. Managing(n)
  BY <1>3, <1>4, BesidesKeeps DEF ClientSane
<1> QED
  BY <1>3, <1>4, <1>5, Steps DEF ClientSane

----------------------------------------------------------------------------
(* A packet is written *)

SetTri(k, t)    == [k EXCEPT !.tri = t]
SetTdi(k, d)    == [k EXCEPT !.tdi = d]
Unlocked(k, d)  == [k EXCEPT !.tdi = d, !.lock = FALSE]
SetSend(k, q)   == [k EXCEPT !.send = q]

\* Setting the task being received changes no other member.
LEMMA SetTriIs ==
  ASSUME NEW k \in ClientRecord, NEW t \in Taking, NEW n, n = SetTri(k, t)
  PROVE  /\ n \in ClientRecord /\ n.tri = t
         /\ Besides(k, n) /\ n.out = k.out /\ n.tdi = k.tdi /\ n.lock = k.lock
         /\ n.send = k.send /\ n.take = k.take /\ n.why = k.why
<1>1. n \in ClientRecord /\ n.tri = t
  BY DEF SetTri, ClientRecord
<1> QED
  BY <1>1 DEF SetTri, Besides, SameQueues, SameModes

\* Setting the task being reported changes no other member.
LEMMA SetTdiIs ==
  ASSUME NEW k \in ClientRecord, NEW d \in Reporting, NEW n, n = SetTdi(k, d)
  PROVE  /\ n \in ClientRecord /\ n.tdi = d
         /\ Besides(k, n) /\ n.out = k.out /\ n.tri = k.tri /\ n.lock = k.lock
         /\ n.send = k.send /\ n.take = k.take /\ n.why = k.why
<1>1. n \in ClientRecord /\ n.tdi = d
  BY DEF SetTdi, ClientRecord
<1> QED
  BY <1>1 DEF SetTdi, Besides, SameQueues, SameModes

\* The end of a file changes the report and the lock only.
LEMMA UnlockedIs ==
  ASSUME NEW k \in ClientRecord, NEW d \in Reporting, NEW n, n = Unlocked(k, d)
  PROVE  /\ n \in ClientRecord /\ n.tdi = d /\ ~n.lock
         /\ Besides(k, n) /\ n.out = k.out /\ n.tri = k.tri
         /\ n.send = k.send /\ n.take = k.take /\ n.why = k.why
<1>1. FALSE \in BOOLEAN
  OBVIOUS
<1>2. n \in ClientRecord /\ n.tdi = d /\ ~n.lock
  BY <1>1 DEF Unlocked, ClientRecord
<1> QED
  BY <1>2 DEF Unlocked, Besides, SameQueues, SameModes

\* Setting the answers to write changes no other member.
LEMMA SetSendIs ==
  ASSUME NEW k \in ClientRecord, NEW q \in Seq(Orders \cup {NoMoreTasks}),
         NEW n, n = SetSend(k, q)
  PROVE  /\ n \in ClientRecord /\ n.send = q
         /\ Besides(k, n) /\ n.out = k.out /\ n.tri = k.tri /\ n.lock = k.lock
         /\ n.tdi = k.tdi /\ n.take = k.take /\ n.why = k.why
<1>1. n \in ClientRecord /\ n.send = q
  BY DEF SetSend, ClientRecord
<1> QED
  BY <1>1 DEF SetSend, Besides, SameQueues, SameModes

\* What is being written says which part of the connection is at work.
LEMMA OutSays ==
  ASSUME NEW k \in ClientRecord, Talking(k)
  PROVE
    /\ k.out.cmd = "NowConnected" => k.out = NowConnected
    /\ k.out.cmd = "TaskResponse" =>
         /\ k.tri.act \in {"None", "Response"} /\ k.tri.resp # "none"
         /\ k.out = TaskResponse(k.tri.task, k.tri.resp)
    /\ k.out.cmd = "FileRequest" =>
         k.tri.act = "FileReq" /\ k.out = FileRequest(k.tri.task, k.tri.n)
    /\ k.out.cmd = "TaskDone" =>
         k.tdi.act = "SendDone" /\ k.out = TaskDone(k.tdi.task, k.run[k.tdi.task])
    /\ k.out.cmd = "FileUpload" =>
         /\ k.tdi.act = "FileSendH" /\ k.tdi.n > 0
         /\ k.out = FileUpload(k.tdi.task, k.tdi.n)
    /\ k.out.cmd = "FileBody" => k.tdi.act = "FileSendB" /\ k.out = FileBody
    /\ k.out.cmd = "DoneComplete" =>
         k.tdi.act = "Complete" /\ k.out = DoneComplete(k.tdi.task)
    /\ k.out.cmd = "ControlResponse" =>
         ~k.lock /\ First(k.send, k.out.what) /\ k.out = ControlResponse(k.out.what)
    /\ k.out.cmd = "none" => k.out = NoPacket
    /\ k.out.cmd \in {"none", "NowConnected", "TaskResponse", "FileRequest", "TaskDone",
                      "FileUpload", "FileBody", "DoneComplete", "ControlResponse"}
<1>1. ClientOut(k)
  BY DEF Talking
<1>2. CASE k.out = NoPacket
  BY <1>2, Saying
<1>3. CASE k.out = NowConnected
  BY <1>3, Saying
<1>4. CASE /\ k.tri.act \in {"None", "Response"} /\ k.tri.resp # "none"
           /\ k.out = TaskResponse(k.tri.task, k.tri.resp)
  BY <1>4, Saying
<1>5. CASE k.tri.act = "FileReq" /\ k.out = FileRequest(k.tri.task, k.tri.n)
  BY <1>5, Saying
<1>6. CASE k.tdi.act = "SendDone" /\ k.out = TaskDone(k.tdi.task, k.run[k.tdi.task])
  BY <1>6, Saying
<1>7. CASE /\ k.tdi.act = "FileSendH" /\ k.tdi.n > 0
           /\ k.out = FileUpload(k.tdi.task, k.tdi.n)
  BY <1>7, Saying
<1>8. CASE k.tdi.act = "FileSendB" /\ k.out = FileBody
  BY <1>8, Saying
<1>9. CASE k.tdi.act = "Complete" /\ k.out = DoneComplete(k.tdi.task)
  BY <1>9, Saying
<1>10. CASE ~k.lock /\ First(k.send, k.out.what) /\ k.out = ControlResponse(k.out.what)
  BY <1>10, Saying
<1> QED
  BY <1>1, <1>2, <1>3, <1>4, <1>5, <1>6, <1>7, <1>8, <1>9, <1>10 DEF ClientOut

\* A task in the client's hands has a name, and has been accepted if it is asked about.
LEMMA TakingIs ==
  ASSUME NEW k \in ClientRecord, Talking(k)
  PROVE  /\ k.tri.task = NoTask => k.tri = FreeTri
         /\ k.tri.act \notin {"None"} => k.tri.resp = "Accepted" /\ k.tri.task # NoTask
         /\ k.tri.resp # "none" => k.tri.task # NoTask
         /\ FreeTri.act = "None" /\ FreeTri.resp = "none" /\ FreeTri.task = NoTask
         /\ k.tri.act = "Response" => k.tri.task \in Own(k)
         /\ k.tri.act # "Response" => k.tri.task \notin Own(k)
         /\ k.tri \in Taking
<1>1. FreeTri.act = "None" /\ FreeTri.resp = "none" /\ FreeTri.task = NoTask
  BY DEF FreeTri
<1>2. k.tri.resp \in {"none", "Accepted", "TooManyTasks"} /\ k.tri \in Taking
  BY ClientRead DEF Taking
<1>3. NoTask \notin Own(k)
  BY OwnType, Nothing
<1> QED
  BY <1>1, <1>2, <1>3 DEF Talking, Receiving

\* The same of a task being reported.
LEMMA TellingIs ==
  ASSUME NEW k \in ClientRecord, Talking(k)
  PROVE  /\ k.tdi.act = "None" => k.tdi = FreeTdi
         /\ k.tdi.act # "None" => k.tdi.task # NoTask /\ k.tdi.task = k.cur /\ k.dts = 2
         /\ k.tdi.task # NoTask => k.tdi.task \in Own(k) /\ k.tdi.act # "None"
         /\ FreeTdi.act = "None" /\ FreeTdi.task = NoTask /\ k.tdi \in Reporting
<1>1. FreeTdi.act = "None" /\ FreeTdi.task = NoTask /\ k.tdi \in Reporting
  BY ClientRead DEF FreeTdi
<1>2. /\ k.tdi.act = "None" => k.tdi = FreeTdi
      /\ k.tdi.act # "None" => k.tdi.task # NoTask /\ k.tdi.task = k.cur /\ k.dts = 2
  BY DEF Talking, Telling
<1>3. k.cur # NoTask => k.cur \in Own(k)
  BY DEF Own
<1> QED
  BY <1>1, <1>2, <1>3

\* The packet is out of the way.
LEMMA OutIs ==
  ASSUME NEW k \in ClientRecord, Talking(k), NEW w, w = [k EXCEPT !.out = NoPacket]
  PROVE  /\ w \in ClientRecord /\ w.out = NoPacket /\ w.out.cmd = "none"
         /\ Besides(k, w) /\ w.tri = k.tri /\ w.tdi = k.tdi /\ w.lock = k.lock
         /\ w.send = k.send /\ w.take = k.take /\ w.why = k.why
         /\ w.run = k.run /\ w.cur = k.cur /\ w.dts = k.dts /\ w.open = k.open
<1>1. w = Put(k, NoPacket) /\ NoPacket \in Packets /\ NoPacket.cmd = "none"
  BY Nothing, Saying DEF Put
<1>2. /\ w \in ClientRecord /\ w.out = NoPacket
      /\ Besides(k, w) /\ w.tri = k.tri /\ w.tdi = k.tdi /\ w.lock = k.lock
      /\ w.send = k.send /\ w.take = k.take /\ w.why = k.why
  BY <1>1, PutIs
<1> QED
  BY <1>1, <1>2 DEF Besides, SameQueues

\* The server knows who the client is.
LEMMA SentGreeting ==
  ASSUME NEW k \in ClientRecord, ClientSane(k), k.out.cmd = "NowConnected",
         NEW n, n = ClientSent(k)
  PROVE  /\ n \in ClientRecord /\ ClientSane(n) /\ n.open = k.open /\ n.send = k.send
         /\ n.tri = k.tri /\ Own(n) = Own(k) /\ Hears(Then(k), k.out, Then(n))
<1>1. n = [k EXCEPT !.out = NoPacket]
  BY DEF ClientSent
<1>2. Talking(k) /\ Managing(k)
  BY DEF ClientSane
<1>3. /\ n \in ClientRecord /\ n.out = NoPacket /\ n.out.cmd = "none"
      /\ Besides(k, n) /\ n.tri = k.tri /\ n.tdi = k.tdi /\ n.lock = k.lock
      /\ n.send = k.send /\ n.take = k.take /\ n.why = k.why
      /\ n.run = k.run /\ n.cur = k.cur /\ n.dts = k.dts /\ n.open = k.open
  BY <1>1, <1>2, OutIs
<1>4. Own(n) = Own(k) /\ Managing(n)
  BY <1>2, <1>3, BesidesKeeps
<1>5. Receiving(n)
  BY <1>2, <1>3, <1>4 DEF Talking, Receiving
<1>6. Telling(n)
  BY <1>2, <1>3 DEF Talking, Telling
<1>7. k.tdi.act # "Complete" /\ k.tdi.act # "FileSendB"
  BY <1>2 DEF Talking, ClientOut
<1>8. ClientOut(n)
  BY <1>2, <1>3, <1>7 DEF Talking, ClientOut
<1>9. ClientSane(n)
  BY <1>2, <1>3, <1>4, <1>5, <1>6, <1>8 DEF ClientSane, Talking
<1>10. /\ Then(k).auth = 1 /\ Then(n).auth = 2 /\ Then(n).tdi = Then(k).tdi
       /\ Then(k).tdi.state # "UploadBody"
  BY <1>3, <1>7 DEF Then, NoTdi
<1>11. Hears(Then(k), k.out, Then(n))
  BY <1>10 DEF Hears
<1> QED
  BY <1>3, <1>4, <1>9, <1>11

\* The task is handed over.
LEMMA SentResponse ==
  ASSUME NEW k \in ClientRecord, ClientSane(k), k.out.cmd = "TaskResponse",
         NEW n, n = ClientSent(k)
  PROVE  /\ n \in ClientRecord /\ ClientSane(n) /\ n.open = k.open /\ n.send = k.send
         /\ k.tri.act \in {"None", "Response"} /\ k.tri.resp # "none"
         /\ k.out.task = k.tri.task /\ k.out.what = k.tri.resp /\ k.tri.task # NoTask
         /\ n.tri = FreeTri /\ Own(n) = Own(k) /\ Hears(Then(k), k.out, Then(n))
<1> DEFINE w == [k EXCEPT !.out = NoPacket]
<1>1. n = SetTri(w, FreeTri)
  BY DEF ClientSent, SetTri
<1>2. Talking(k) /\ Managing(k)
  BY DEF ClientSane
<1>3. /\ w \in ClientRecord /\ w.out = NoPacket /\ w.out.cmd = "none"
      /\ Besides(k, w) /\ w.tri = k.tri /\ w.tdi = k.tdi /\ w.lock = k.lock
      /\ w.send = k.send /\ w.take = k.take /\ w.why = k.why
      /\ w.run = k.run /\ w.cur = k.cur /\ w.dts = k.dts /\ w.open = k.open
  BY <1>2, OutIs
<1> HIDE DEF w
<1>4. /\ n \in ClientRecord /\ n.tri = FreeTri
      /\ Besides(w, n) /\ n.out = w.out /\ n.tdi = w.tdi /\ n.lock = w.lock
      /\ n.send = w.send /\ n.take = w.take /\ n.why = w.why
  BY <1>1, <1>3, Nothing, SetTriIs
<1>5. n.run = k.run /\ n.cur = k.cur /\ n.dts = k.dts /\ n.open = k.open
  BY <1>3, <1>4 DEF Besides, SameQueues
<1>6. Own(n) = Own(k) /\ Managing(n)
  BY <1>2, <1>3, <1>4, BesidesKeeps
<1>7. /\ k.tri.act \in {"None", "Response"} /\ k.tri.resp # "none"
      /\ k.out = TaskResponse(k.tri.task, k.tri.resp) /\ k.tri.task # NoTask
      /\ FreeTri.act = "None" /\ FreeTri.resp = "none" /\ FreeTri.task = NoTask
  BY <1>2, OutSays, TakingIs
<1>8. k.out.task = k.tri.task /\ k.out.what = k.tri.resp
  BY <1>7, Saying
<1>9. Receiving(n)
  BY <1>2, <1>3, <1>4, <1>7 DEF Talking, Receiving
<1>10. Telling(n)
  BY <1>2, <1>3, <1>4, <1>5, <1>7 DEF Talking, Telling
<1>11. k.tdi.act # "Complete" /\ k.tdi.act # "FileSendB"
  BY <1>2 DEF Talking, ClientOut
<1>12. ClientOut(n)
  BY <1>2, <1>3, <1>4, <1>11 DEF Talking, ClientOut
<1>13. ClientSane(n)
  BY <1>2, <1>3, <1>4, <1>5, <1>6, <1>7, <1>9, <1>10, <1>12 DEF ClientSane, Talking
<1>14. /\ Then(k).auth = 2 /\ Then(n).auth = 2 /\ Then(n).tdi = Then(k).tdi
       /\ Then(k).tdi.state # "UploadBody"
  BY <1>3, <1>4, <1>5, <1>11 DEF Then, NoTdi
<1>15. Hears(Then(k), k.out, Then(n))
  BY <1>14 DEF Hears
<1> QED
  BY <1>3, <1>4, <1>5, <1>6, <1>7, <1>8, <1>13, <1>15

\* A file is asked for.
LEMMA SentRequest ==
  ASSUME NEW k \in ClientRecord, ClientSane(k), k.out.cmd = "FileRequest",
         NEW n, n = ClientSent(k)
  PROVE  /\ n \in ClientRecord /\ ClientSane(n) /\ n.open = k.open /\ n.send = k.send
         /\ k.tri.act = "FileReq" /\ k.tri.task # NoTask
         /\ k.out.task = k.tri.task /\ k.out.n = k.tri.n
         /\ n.tri.task = k.tri.task /\ n.tri.act = "FileRecvH" /\ n.tri.n = k.tri.n
         /\ n.tri.resp = k.tri.resp
         /\ Own(n) = Own(k) /\ Hears(Then(k), k.out, Then(n))
<1> DEFINE w == [k EXCEPT !.out = NoPacket]  t == [k.tri EXCEPT !.act = "FileRecvH"]
<1>2. Talking(k) /\ Managing(k)
  BY DEF ClientSane
<1>3. /\ w \in ClientRecord /\ w.out = NoPacket /\ w.out.cmd = "none"
      /\ Besides(k, w) /\ w.tri = k.tri /\ w.tdi = k.tdi /\ w.lock = k.lock
      /\ w.send = k.send /\ w.take = k.take /\ w.why = k.why
      /\ w.run = k.run /\ w.cur = k.cur /\ w.dts = k.dts /\ w.open = k.open
  BY <1>2, OutIs
<1>1. n = SetTri(w, t)
  <2>1. n = [w EXCEPT !.tri.act = "FileRecvH"]
    BY DEF ClientSent
  <2> HIDE DEF w
  <2> QED
    BY <2>1, <1>3 DEF SetTri
<1> HIDE DEF w
<1>16. /\ t \in Taking /\ t.task = k.tri.task /\ t.act = "FileRecvH" /\ t.n = k.tri.n
       /\ t.resp = k.tri.resp
  BY ClientRead DEF Taking
<1> HIDE DEF t
<1>4. /\ n \in ClientRecord /\ n.tri = t
      /\ Besides(w, n) /\ n.out = w.out /\ n.tdi = w.tdi /\ n.lock = w.lock
      /\ n.send = w.send /\ n.take = w.take /\ n.why = w.why
  BY <1>1, <1>3, <1>16, SetTriIs
<1>5. n.run = k.run /\ n.cur = k.cur /\ n.dts = k.dts /\ n.open = k.open
  BY <1>3, <1>4 DEF Besides, SameQueues
<1>6. Own(n) = Own(k) /\ Managing(n)
  BY <1>2, <1>3, <1>4, BesidesKeeps
<1>7. k.tri.act = "FileReq" /\ k.out = FileRequest(k.tri.task, k.tri.n)
  BY <1>2, OutSays
<1>8. k.out.task = k.tri.task /\ k.out.n = k.tri.n
  BY <1>7, Saying
<1>17. k.tri.resp = "Accepted" /\ k.tri.task # NoTask
  BY <1>2, <1>7, TakingIs
<1>18. k.tri.task \notin Own(k)
  BY <1>2, <1>7, TakingIs
<1>9. Receiving(n)
  BY <1>2, <1>3, <1>4, <1>6, <1>7, <1>16, <1>17, <1>18 DEF Talking, Receiving
<1>19. k.tdi.task # NoTask => k.tdi.task # k.tri.task
  BY <1>2, <1>18, TellingIs
<1>10. Telling(n)
  BY <1>2, <1>3, <1>4, <1>5, <1>16, <1>19 DEF Talking, Telling
<1>11. k.tdi.act # "Complete" /\ k.tdi.act # "FileSendB"
  BY <1>2 DEF Talking, ClientOut
<1>12. ClientOut(n)
  BY <1>2, <1>3, <1>4, <1>11 DEF Talking, ClientOut
<1>20. k.open \in BOOLEAN /\ k.open
  BY <1>2, <1>17, ClientRead, TakingIs DEF Talking
<1>13. ClientSane(n)
  BY <1>2, <1>3, <1>4, <1>5, <1>6, <1>9, <1>10, <1>12, <1>20 DEF ClientSane, Talking
<1>14. /\ Then(k).auth = 2 /\ Then(n).auth = 2 /\ Then(n).tdi = Then(k).tdi
       /\ Then(k).tdi.state # "UploadBody"
  BY <1>3, <1>4, <1>5, <1>11 DEF Then, NoTdi
<1>15. Hears(Then(k), k.out, Then(n))
  BY <1>14 DEF Hears
<1> QED
  BY <1>3, <1>4, <1>5, <1>6, <1>7, <1>8, <1>13, <1>15, <1>16, <1>17

\* One more file has been received.
OneMore(x) == [x EXCEPT !.state = "WaitForResp", !.got = @ + 1]

\* One file more is counted, and the next packet is waited for.
LEMMA OneMoreGot ==
  ASSUME NEW t, NEW v, NEW i, NEW j,
         NEW x, x = [task |-> t, save |-> v, state |-> "UploadBody", got |-> i], j = i + 1
  PROVE  OneMore(x) = [task |-> t, save |-> v, state |-> "WaitForResp", got |-> j]
<1> DEFINE y == [x EXCEPT !.state = "WaitForResp"]  z == [y EXCEPT !.got = j]
<1>1. y = [task |-> t, save |-> v, state |-> "WaitForResp", got |-> i]
  OBVIOUS
<1>2. x.got = i
  OBVIOUS
<1>3. OneMore(x) = z
  BY <1>2 DEF OneMore
<1> HIDE DEF y
<1>4. z = [task |-> t, save |-> v, state |-> "WaitForResp", got |-> j]
  BY <1>1
<1> QED
  BY <1>3, <1>4

\* What a report that goes on looks like.
LEMMA TdiAct ==
  ASSUME NEW k \in ClientRecord, NEW a \in {"None", "SendDone", "FileSendH", "FileSendB", "Complete"}
  PROVE  LET d == [k.tdi EXCEPT !.act = a]
         IN  d \in Reporting /\ d.task = k.tdi.task /\ d.act = a /\ d.n = k.tdi.n
<1>1. k.tdi \in Reporting
  BY ClientRead
<1> QED
  BY <1>1 DEF Reporting

\* The server knows how the job ended.
LEMMA SentDone ==
  ASSUME NEW k \in ClientRecord, ClientSane(k), k.out.cmd = "TaskDone",
         NEW n, n = ClientSent(k)
  PROVE  /\ n \in ClientRecord /\ ClientSane(n) /\ n.open = k.open /\ n.send = k.send
         /\ n.tri = k.tri /\ Own(n) = Own(k) /\ Hears(Then(k), k.out, Then(n))
<1> DEFINE w == [k EXCEPT !.out = NoPacket]  d == [k.tdi EXCEPT !.act = "FileSendH"]
<1>1. Talking(k) /\ Managing(k)
  BY DEF ClientSane
<1>2. /\ w \in ClientRecord /\ w.out = NoPacket /\ w.out.cmd = "none"
      /\ Besides(k, w) /\ w.tri = k.tri /\ w.tdi = k.tdi /\ w.lock = k.lock
      /\ w.send = k.send /\ w.take = k.take /\ w.why = k.why
      /\ w.run = k.run /\ w.cur = k.cur /\ w.dts = k.dts /\ w.open = k.open
  BY <1>1, OutIs
<1>3. n = SetTdi(w, d)
  <2>1. n = [w EXCEPT !.tdi.act = "FileSendH"]
    BY DEF ClientSent
  <2> HIDE DEF w
  <2> QED
    BY <2>1, <1>2 DEF SetTdi
<1> HIDE DEF w
<1>4. d \in Reporting /\ d.task = k.tdi.task /\ d.act = "FileSendH" /\ d.n = k.tdi.n
  BY TdiAct
<1> HIDE DEF d
<1>5. /\ n \in ClientRecord /\ n.tdi = d
      /\ Besides(w, n) /\ n.out = w.out /\ n.tri = w.tri /\ n.lock = w.lock
      /\ n.send = w.send /\ n.take = w.take /\ n.why = w.why
  BY <1>2, <1>3, <1>4, SetTdiIs
<1>6. n.run = k.run /\ n.cur = k.cur /\ n.dts = k.dts /\ n.open = k.open
  BY <1>2, <1>5 DEF Besides, SameQueues
<1>7. Own(n) = Own(k) /\ Managing(n)
  BY <1>1, <1>2, <1>5, BesidesKeeps
<1>8. k.tdi.act = "SendDone" /\ k.out = TaskDone(k.tdi.task, k.run[k.tdi.task])
  BY <1>1, OutSays
<1>9. k.out.task = k.tdi.task /\ k.out.what = k.run[k.tdi.task]
  BY <1>8, Saying
<1>10. k.tdi.task # NoTask /\ k.tdi.n = 0 /\ k.tri.task # k.tdi.task
  BY <1>1, <1>8 DEF Talking, Telling
<1>11. Receiving(n)
  BY <1>1, <1>2, <1>5, <1>7 DEF Talking, Receiving
<1>12. Telling(n)
  BY <1>1, <1>2, <1>4, <1>5, <1>6, <1>8, <1>10 DEF Talking, Telling
<1>13. ClientOut(n)
  BY <1>1, <1>2, <1>4, <1>5, <1>8 DEF Talking, ClientOut
<1>14. k.open \in BOOLEAN /\ k.open
  BY <1>1, <1>8, ClientRead, TellingIs DEF Talking
<1>15. ClientSane(n)
  BY <1>1, <1>2, <1>5, <1>6, <1>7, <1>11, <1>12, <1>13, <1>14 DEF ClientSane, Talking
<1>16. /\ Then(k).auth = 2 /\ Then(n).auth = 2 /\ Then(k).tdi = NoTdi
       /\ Then(n).tdi = [task |-> k.tdi.task, save |-> k.run[k.tdi.task],
                         state |-> "WaitForResp", got |-> 0]
  BY <1>2, <1>4, <1>5, <1>6, <1>8, <1>10 DEF Then
<1>17. NoTdi.task = NoTask /\ NoTdi.state = "None"
  BY DEF NoTdi
<1>18. Hears(Then(k), k.out, Then(n))
  BY <1>9, <1>10, <1>16, <1>17 DEF Hears
<1> QED
  BY <1>2, <1>5, <1>6, <1>7, <1>15, <1>18

\* A file is announced.
LEMMA SentHeader ==
  ASSUME NEW k \in ClientRecord, ClientSane(k), k.out.cmd = "FileUpload",
         NEW n, n = ClientSent(k)
  PROVE  /\ n \in ClientRecord /\ ClientSane(n) /\ n.open = k.open /\ n.send = k.send
         /\ n.tri = k.tri /\ Own(n) = Own(k) /\ Hears(Then(k), k.out, Then(n))
<1> DEFINE w == [k EXCEPT !.out = NoPacket]  d == [k.tdi EXCEPT !.act = "FileSendB"]
<1>1. Talking(k) /\ Managing(k)
  BY DEF ClientSane
<1>2. /\ w \in ClientRecord /\ w.out = NoPacket /\ w.out.cmd = "none"
      /\ Besides(k, w) /\ w.tri = k.tri /\ w.tdi = k.tdi /\ w.lock = k.lock
      /\ w.send = k.send /\ w.take = k.take /\ w.why = k.why
      /\ w.run = k.run /\ w.cur = k.cur /\ w.dts = k.dts /\ w.open = k.open
  BY <1>1, OutIs
<1>3. n = SetTdi(w, d)
  <2>1. n = [w EXCEPT !.tdi.act = "FileSendB"]
    BY DEF ClientSent
  <2> HIDE DEF w
  <2> QED
    BY <2>1, <1>2 DEF SetTdi
<1> HIDE DEF w
<1>4. d \in Reporting /\ d.task = k.tdi.task /\ d.act = "FileSendB" /\ d.n = k.tdi.n
  BY TdiAct
<1> HIDE DEF d
<1>5. /\ n \in ClientRecord /\ n.tdi = d
      /\ Besides(w, n) /\ n.out = w.out /\ n.tri = w.tri /\ n.lock = w.lock
      /\ n.send = w.send /\ n.take = w.take /\ n.why = w.why
  BY <1>2, <1>3, <1>4, SetTdiIs
<1>6. n.run = k.run /\ n.cur = k.cur /\ n.dts = k.dts /\ n.open = k.open
  BY <1>2, <1>5 DEF Besides, SameQueues
<1>7. Own(n) = Own(k) /\ Managing(n)
  BY <1>1, <1>2, <1>5, BesidesKeeps
<1>8. k.tdi.act = "FileSendH" /\ k.tdi.n > 0 /\ k.out = FileUpload(k.tdi.task, k.tdi.n)
  BY <1>1, OutSays
<1>9. k.out.task = k.tdi.task
  BY <1>8, Saying
<1>10. k.tdi.task # NoTask /\ k.tri.task # k.tdi.task /\ k.lock
  BY <1>1, <1>8 DEF Talking, Telling, ClientOut
<1>11. Receiving(n)
  BY <1>1, <1>2, <1>5, <1>7 DEF Talking, Receiving
<1>12. Telling(n)
  BY <1>1, <1>2, <1>4, <1>5, <1>6, <1>8, <1>10 DEF Talking, Telling
<1>13. ClientOut(n)
  BY <1>1, <1>2, <1>4, <1>5, <1>8, <1>10 DEF Talking, ClientOut
<1>14. k.open \in BOOLEAN /\ k.open
  BY <1>1, <1>8, ClientRead, TellingIs DEF Talking
<1>15. ClientSane(n)
  BY <1>1, <1>2, <1>5, <1>6, <1>7, <1>11, <1>12, <1>13, <1>14 DEF ClientSane, Talking
<1>16. /\ Then(k).auth = 2 /\ Then(n).auth = 2
       /\ Then(k).tdi = [task |-> k.tdi.task, save |-> k.run[k.tdi.task],
                         state |-> "WaitForResp", got |-> k.tdi.n - 1]
       /\ Then(n).tdi = [task |-> k.tdi.task, save |-> k.run[k.tdi.task],
                         state |-> "UploadBody", got |-> k.tdi.n - 1]
  BY <1>2, <1>4, <1>5, <1>6, <1>8, <1>10 DEF Then
<1>17. Hears(Then(k), k.out, Then(n))
  BY <1>9, <1>10, <1>16 DEF Hears
<1> QED
  BY <1>2, <1>5, <1>6, <1>7, <1>15, <1>17

\* Its body follows.
LEMMA SentBody ==
  ASSUME NEW k \in ClientRecord, ClientSane(k), k.out.cmd = "FileBody",
         NEW n, n = ClientSent(k)
  PROVE  /\ n \in ClientRecord /\ ClientSane(n) /\ n.open = k.open /\ n.send = k.send
         /\ n.tri = k.tri /\ Own(n) = Own(k) /\ Hears(Then(k), k.out, Then(n))
<1> DEFINE w == [k EXCEPT !.out = NoPacket]  d == [k.tdi EXCEPT !.act = "FileSendH"]
<1>1. Talking(k) /\ Managing(k)
  BY DEF ClientSane
<1>2. /\ w \in ClientRecord /\ w.out = NoPacket /\ w.out.cmd = "none"
      /\ Besides(k, w) /\ w.tri = k.tri /\ w.tdi = k.tdi /\ w.lock = k.lock
      /\ w.send = k.send /\ w.take = k.take /\ w.why = k.why
      /\ w.run = k.run /\ w.cur = k.cur /\ w.dts = k.dts /\ w.open = k.open
  BY <1>1, OutIs
<1>3. n = Unlocked(w, d)
  <2>1. n = [w EXCEPT !.tdi.act = "FileSendH", !.lock = FALSE]
    BY DEF ClientSent
  <2> HIDE DEF w
  <2> QED
    BY <2>1, <1>2 DEF Unlocked
<1> HIDE DEF w
<1>4. d \in Reporting /\ d.task = k.tdi.task /\ d.act = "FileSendH" /\ d.n = k.tdi.n
  BY TdiAct
<1> HIDE DEF d
<1>5. /\ n \in ClientRecord /\ n.tdi = d /\ ~n.lock
      /\ Besides(w, n) /\ n.out = w.out /\ n.tri = w.tri
      /\ n.send = w.send /\ n.take = w.take /\ n.why = w.why
  BY <1>2, <1>3, <1>4, UnlockedIs
<1>6. n.run = k.run /\ n.cur = k.cur /\ n.dts = k.dts /\ n.open = k.open
  BY <1>2, <1>5 DEF Besides, SameQueues
<1>7. Own(n) = Own(k) /\ Managing(n)
  BY <1>1, <1>2, <1>5, BesidesKeeps
<1>8. k.tdi.act = "FileSendB" /\ k.out = FileBody
  BY <1>1, OutSays
<1>10. k.tdi.task # NoTask /\ k.tri.task # k.tdi.task /\ k.tdi.n > 0
  BY <1>1, <1>8 DEF Talking, Telling, ClientOut
<1>11. Receiving(n)
  BY <1>1, <1>2, <1>5, <1>7 DEF Talking, Receiving
<1>12. Telling(n)
  BY <1>1, <1>2, <1>4, <1>5, <1>6, <1>8, <1>10 DEF Talking, Telling
<1>13. ClientOut(n)
  BY <1>1, <1>2, <1>4, <1>5, <1>8, <1>10 DEF Talking, ClientOut
<1>14. k.open \in BOOLEAN /\ k.open
  BY <1>1, <1>8, ClientRead, TellingIs DEF Talking
<1>15. ClientSane(n)
  BY <1>1, <1>2, <1>5, <1>6, <1>7, <1>11, <1>12, <1>13, <1>14 DEF ClientSane, Talking
<1>16. /\ Then(k).auth = 2 /\ Then(n).auth = 2
       /\ Then(k).tdi = [task |-> k.tdi.task, save |-> k.run[k.tdi.task],
                         state |-> "UploadBody", got |-> k.tdi.n - 1]
       /\ Then(n).tdi = [task |-> k.tdi.task, save |-> k.run[k.tdi.task],
                         state |-> "WaitForResp", got |-> k.tdi.n]
  BY <1>2, <1>4, <1>5, <1>6, <1>8 DEF Then
<1>18. k.tdi.n \in Nat
  BY ClientRead DEF Reporting
<1>17. Then(n).tdi = [Then(k).tdi EXCEPT !.state = "WaitForResp", !.got = @ + 1]
  <2>1. k.tdi.n = (k.tdi.n - 1) + 1
    BY <1>18
  <2>2. OneMore(Then(k).tdi) = Then(n).tdi
    BY <1>16, <2>1, OneMoreGot
  <2> QED
    BY <2>2 DEF OneMore
<1>19. Then(k).tdi.state = "UploadBody"
  BY <1>16
<1>20. Hears(Then(k), k.out, Then(n))
  BY <1>16, <1>17, <1>19 DEF Hears
<1> QED
  BY <1>2, <1>5, <1>6, <1>7, <1>15, <1>20

Forgot(k, r) == [k EXCEPT !.dts = 0, !.cur = NoTask, !.run = r]

\* A task that was reported is forgotten; the lists stay.
LEMMA ForgotIs ==
  ASSUME NEW k \in ClientRecord, NEW r \in [Tasks -> Verdicts], NEW n, n = Forgot(k, r)
  PROVE  /\ n \in ClientRecord /\ n.dts = 0 /\ n.cur = NoTask /\ n.run = r
         /\ SameLine(k, n) /\ SameModes(k, n) /\ n.dsmt = k.dsmt /\ n.assert = k.assert
         /\ n.todo = k.todo /\ n.proc = k.proc /\ n.done = k.done /\ n.pend = k.pend
<1>1. NoTask \in Held /\ 0 \in 0..2
  BY Nothing
<1>2. n \in ClientRecord
  BY <1>1 DEF Forgot, ClientRecord
<1>3. n.dts = 0 /\ n.cur = NoTask /\ n.run = r
  BY DEF Forgot, ClientRecord
<1> QED
  BY <1>2, <1>3 DEF Forgot, SameLine, SameModes

\* The report is complete, and forgotten.
LEMMA SentComplete ==
  ASSUME NEW k \in ClientRecord, ClientSane(k), k.out.cmd = "DoneComplete",
         NEW n, n = ClientSent(k)
  PROVE  /\ n \in ClientRecord /\ ClientSane(n) /\ n.open = k.open /\ n.send = k.send
         /\ n.tri = k.tri /\ Own(n) = Own(k) \ {k.cur} /\ k.cur \in Own(k)
         /\ k.out.task = k.cur /\ k.tri.task # k.cur /\ k.cur \in Tasks
         /\ Hears(Then(k), k.out, Then(n))
<1> DEFINE w == [k EXCEPT !.out = NoPacket]
           ok == w.cur = w.tdi.task /\ w.pend = "DoneTask"
           c == Check(w, ok)
           r == [c.run EXCEPT ![w.cur] = "unset"]
           f == Forgot(c, r)  a == Arm(f)
<1>1. Talking(k) /\ Managing(k)
  BY DEF ClientSane
<1>2. /\ w \in ClientRecord /\ w.out = NoPacket /\ w.out.cmd = "none"
      /\ Besides(k, w) /\ w.tri = k.tri /\ w.tdi = k.tdi /\ w.lock = k.lock
      /\ w.send = k.send /\ w.take = k.take /\ w.why = k.why
      /\ w.run = k.run /\ w.cur = k.cur /\ w.dts = k.dts /\ w.open = k.open
  BY <1>1, OutIs
<1>3. n = SetTdi(a, FreeTdi)
  BY DEF ClientSent, TaskReportedDone, SetTdi, Forgot
<1> HIDE DEF w
<1>4. k.tdi.act = "Complete" /\ k.out = DoneComplete(k.tdi.task)
  BY <1>1, OutSays
<1>5. /\ k.tdi.task # NoTask /\ k.tdi.task = k.cur /\ k.dts = 2 /\ k.tri.task # k.tdi.task
      /\ k.run[k.tdi.task] # "ok" \/ k.tdi.n = Uploads[k.tdi.task]
  BY <1>1, <1>4 DEF Talking, Telling
<1>6. k.pend = "DoneTask"
  BY <1>1, <1>5 DEF Managing, Agreed
<1>7. c \in ClientRecord /\ Alike(w, c)
  <2>1. ok = TRUE
    BY <1>2, <1>5, <1>6 DEF Besides
  <2> HIDE DEF ok
  <2> QED
    BY <1>2, <2>1, Checked
<1> HIDE DEF c
<1>8. r \in [Tasks -> Verdicts]
  BY <1>7, ClientRead DEF Verdicts
<1> HIDE DEF r
<1>9. /\ f \in ClientRecord /\ f.dts = 0 /\ f.cur = NoTask /\ f.run = r
      /\ SameLine(c, f) /\ SameModes(c, f) /\ f.dsmt = c.dsmt /\ f.assert = c.assert
      /\ f.todo = c.todo /\ f.proc = c.proc /\ f.done = c.done /\ f.pend = c.pend
  BY <1>7, <1>8, ForgotIs
<1> HIDE DEF f
<1>10. a \in ClientRecord /\ Alike(f, a)
  BY <1>9, Timers
<1> HIDE DEF a
<1>11. /\ n \in ClientRecord /\ n.tdi = FreeTdi
       /\ Besides(a, n) /\ n.out = a.out /\ n.tri = a.tri /\ n.lock = a.lock
       /\ n.send = a.send /\ n.take = a.take /\ n.why = a.why
  BY <1>3, <1>10, Nothing, SetTdiIs
<1>12. /\ n.out = NoPacket /\ n.tri = k.tri /\ n.lock = k.lock /\ n.send = k.send
       /\ n.take = k.take /\ n.why = k.why /\ n.open = k.open
  BY <1>2, <1>7, <1>9, <1>10, <1>11 DEF Alike, Besides, SameLine
<1>13. /\ n.dts = 0 /\ n.cur = NoTask /\ n.todo = k.todo /\ n.proc = k.proc
       /\ n.done = k.done /\ SameModes(k, n) /\ n.dsmt = k.dsmt /\ n.pend = k.pend
       /\ n.assert = k.assert
  BY <1>2, <1>7, <1>9, <1>10, <1>11 DEF Alike, Besides, SameQueues, SameModes
<1>14. Once(k) /\ Agreed(k) /\ k.assert
  BY <1>1 DEF Managing
<1>15. Own(n) = Own(k) \ {k.cur} /\ k.cur \in Own(k) /\ k.cur \in Tasks
  <2>1. k.cur \in Tasks
    BY <1>5, ClientRead DEF Held
  <2> QED
    BY <1>5, <1>13, <1>14, <2>1 DEF Own, Once
<1>16. Once(n)
  <2>1. NoTask \notin InQueue(k.todo) /\ NoTask \notin InQueue(k.done) /\ NoTask \notin k.proc
    BY OwnType, Nothing
  <2> QED
    BY <2>1, <1>13, <1>14 DEF Once
<1>25. k.open \in BOOLEAN /\ k.open
  BY <1>1, <1>4, ClientRead, TellingIs DEF Talking
<1>17. Agreed(n)
  <2>1. Agreed(k) /\ k.dts # 0
    BY <1>5, <1>14
  <2> QED
    BY <2>1, <1>6, <1>12, <1>13, <1>25 DEF Agreed, SameModes
<1>18. Managing(n)
  BY <1>13, <1>14, <1>16, <1>17 DEF Managing
<1>19. Receiving(n)
  BY <1>1, <1>5, <1>12, <1>15 DEF Talking, Receiving
<1>20. FreeTdi.act = "None" /\ FreeTdi.task = NoTask /\ NoPacket.cmd = "none"
  BY Saying DEF FreeTdi
<1>21. Telling(n)
  BY <1>11, <1>20 DEF Telling
<1>22. ~k.lock
  BY <1>1, <1>4 DEF Talking, ClientOut
<1>23. ClientOut(n)
  BY <1>11, <1>12, <1>20, <1>22 DEF ClientOut
<1>24. ClientSane(n)
  BY <1>1, <1>12, <1>18, <1>19, <1>21, <1>23, <1>25 DEF ClientSane, Talking
<1>26. k.out.task = k.cur /\ k.out.cmd = "DoneComplete"
  BY <1>4, <1>5, Saying
<1>27. /\ Then(k).auth = 2 /\ Then(n).auth = 2 /\ Then(n).tdi = NoTdi
       /\ Then(k).tdi = [task |-> k.tdi.task, save |-> k.run[k.tdi.task],
                         state |-> "WaitForResp", got |-> k.tdi.n]
  BY <1>4, <1>11, <1>12, <1>20, <1>26 DEF Then
<1>28. Hears(Then(k), k.out, Then(n))
  BY <1>5, <1>26, <1>27 DEF Hears
<1> QED
  BY <1>5, <1>11, <1>12, <1>15, <1>24, <1>26, <1>28

----------------------------------------------------------------------------
(* Answers *)

\* What is left when the first of its kind is taken out.
LEMMA WithoutFirstIs ==
  ASSUME NEW S, NEW q \in Seq(S), NEW i \in DOMAIN q, \A j \in 1..(i - 1) : q[j] # q[i]
  PROVE  /\ WithoutFirst(q, q[i]) \in Seq(S)
         /\ Len(WithoutFirst(q, q[i])) = Len(q) - 1
         /\ \A j \in 1..(Len(q) - 1) :
              WithoutFirst(q, q[i])[j] = IF j < i THEN q[j] ELSE q[j + 1]
<1> DEFINE x == q[i]
           P(m) == m \in DOMAIN q /\ q[m] = x /\ \A j \in 1..(m - 1) : q[j] # x
           c == CHOOSE m \in DOMAIN q : q[m] = x /\ \A j \in 1..(m - 1) : q[j] # x
           w == [j \in 1..(Len(q) - 1) |-> IF j < i THEN q[j] ELSE q[j + 1]]
<1>1. DOMAIN q = 1..Len(q) /\ Len(q) \in Nat /\ i \in 1..Len(q)
  OBVIOUS
<1>2. P(i)
  OBVIOUS
<1>3. P(c)
  BY <1>2
<1>4. c = i
  <2>1. c \in 1..Len(q)
    BY <1>1, <1>3
  <2>2. ~(c < i)
    BY <2>1, <1>1, <1>3
  <2>3. ~(i < c)
    BY <2>1, <1>1, <1>3
  <2> QED
    BY <2>1, <2>2, <2>3, <1>1
<1>5. WithoutFirst(q, x) = w
  BY <1>4 DEF WithoutFirst
<1>6. w \in Seq(S) /\ Len(w) = Len(q) - 1
  <2>1. Len(q) - 1 \in Nat
    BY <1>1
  <2>2. \A j \in 1..(Len(q) - 1) : (IF j < i THEN q[j] ELSE q[j + 1]) \in S
    BY <1>1
  <2> QED
    BY <2>1, <2>2
<1> HIDE DEF x, c, P
<1>7. \A j \in 1..(Len(q) - 1) : w[j] = IF j < i THEN q[j] ELSE q[j + 1]
  OBVIOUS
<1> HIDE DEF w
<1> QED
  BY <1>5, <1>6, <1>7 DEF x

\* The place of the answer, behind notices only.
LEMMA FirstPlace ==
  ASSUME NEW q \in Seq(Orders \cup {NoMoreTasks}), NEW x, First(q, x)
  PROVE  \E i \in DOMAIN q :
           /\ q[i] = x /\ \A j \in 1..(i - 1) : q[j] # x
           /\ \A j \in 1..(i - 1) : q[j] = NoMoreTasks
           /\ x = NoMoreTasks => i = 1
<1>1. DOMAIN q = 1..Len(q) /\ Len(q) \in Nat
  OBVIOUS
<1>2. PICK i \in DOMAIN q : q[i] = x /\ \A j \in 1..(i - 1) : q[j] = NoMoreTasks
  BY DEF First
<1>3. CASE x # NoMoreTasks
  BY <1>2, <1>3
<1>4. CASE x = NoMoreTasks
  <2>1. q[1] = x /\ 1 \in DOMAIN q
    BY <1>1, <1>2, <1>4
  <2>2. \A j \in 1..(1 - 1) : q[j] # x /\ q[j] = NoMoreTasks
    BY <1>1
  <2> QED
    BY <2>1, <2>2
<1> QED
  BY <1>3, <1>4

\* A notice is taken out: what is owed stays.
LEMMA NoticeOut ==
  ASSUME NEW q \in Seq(Orders \cup {NoMoreTasks}), First(q, NoMoreTasks),
         NEW r \in Seq(Orders), Owing(q, r)
  PROVE  Owing(WithoutFirst(q, NoMoreTasks), r)
<1>1. /\ q[1] = NoMoreTasks /\ 1 \in DOMAIN q /\ \A j \in 1..(1 - 1) : q[j] # NoMoreTasks
  BY FirstPlace
<1>2. Len(q) \in Nat /\ Len(q) >= 1 /\ DOMAIN r = 1..Len(r) /\ Len(r) \in Nat
  BY <1>1
<1> DEFINE w == WithoutFirst(q, NoMoreTasks)
<1>3. /\ Len(w) = Len(q) - 1
      /\ \A j \in 1..(Len(q) - 1) : w[j] = IF j < 1 THEN q[j] ELSE q[j + 1]
  BY <1>1, WithoutFirstIs
<1>4. \A j \in 1..(Len(q) - 1) : w[j] = q[j + 1]
  BY <1>2, <1>3
<1> HIDE DEF w
<1>5. PICK n \in Nat : /\ Len(q) = n + Len(r)
                       /\ \A i \in 1..n : q[i] = NoMoreTasks
                       /\ \A i \in 1..Len(r) : r[i] = q[n + i]
  BY DEF Owing
<1>6. n # 0
  <2>1. ASSUME n = 0 PROVE FALSE
    <3>1. 1 \in 1..Len(r) /\ r[1] = q[1]
      BY <1>2, <1>5, <2>1
    <3>2. r[1] \in Orders
      BY <3>1, <1>2
    <3> QED
      BY <3>1, <3>2, <1>1 DEF Orders, NoMoreTasks
  <2> QED
    BY <2>1
<1>7. n - 1 \in Nat /\ Len(w) = (n - 1) + Len(r)
  BY <1>2, <1>3, <1>5, <1>6
<1>8. \A i \in 1..(n - 1) : w[i] = NoMoreTasks
  <2> SUFFICES ASSUME NEW i \in 1..(n - 1) PROVE w[i] = NoMoreTasks
    OBVIOUS
  <2>1. i \in 1..(Len(q) - 1) /\ i + 1 \in 1..n
    BY <1>2, <1>5, <1>7
  <2> QED
    BY <2>1, <1>4, <1>5
<1>9. \A i \in 1..Len(r) : w[(n - 1) + i] = r[i]
  <2> SUFFICES ASSUME NEW i \in 1..Len(r) PROVE w[(n - 1) + i] = r[i]
    OBVIOUS
  <2>1. (n - 1) + i \in 1..(Len(q) - 1) /\ ((n - 1) + i) + 1 = n + i
    BY <1>2, <1>5, <1>7
  <2>2. w[(n - 1) + i] = q[n + i]
    BY <2>1, <1>4
  <2> QED
    BY <2>2, <1>5
<1> QED
  BY <1>7, <1>8, <1>9 DEF Owing, w

\* An answer is taken out: it is the first that is owed.
LEMMA AnswerOut ==
  ASSUME NEW q \in Seq(Orders \cup {NoMoreTasks}), NEW x, x # NoMoreTasks, First(q, x),
         NEW r \in Seq(Orders), Owing(q, r)
  PROVE  r # <<>> /\ Head(r) = x /\ Owing(WithoutFirst(q, x), Tail(r))
<1>1. PICK i \in DOMAIN q :
        /\ q[i] = x /\ \A j \in 1..(i - 1) : q[j] # x
        /\ \A j \in 1..(i - 1) : q[j] = NoMoreTasks
  BY FirstPlace
<1>2. /\ Len(q) \in Nat /\ DOMAIN q = 1..Len(q) /\ i \in 1..Len(q)
      /\ DOMAIN r = 1..Len(r) /\ Len(r) \in Nat
  BY <1>1
<1> DEFINE w == WithoutFirst(q, x)
<1>3. /\ Len(w) = Len(q) - 1
      /\ \A j \in 1..(Len(q) - 1) : w[j] = IF j < i THEN q[j] ELSE q[j + 1]
  BY <1>1, WithoutFirstIs
<1> HIDE DEF w
<1>4. PICK n \in Nat : /\ Len(q) = n + Len(r)
                       /\ \A m \in 1..n : q[m] = NoMoreTasks
                       /\ \A m \in 1..Len(r) : r[m] = q[n + m]
  BY DEF Owing
<1>5. i = n + 1
  <2>1. ~(i <= n)
    BY <1>1, <1>2, <1>4
  <2>2. ASSUME i > n + 1 PROVE FALSE
    <3>1. n + 1 \in 1..(i - 1) /\ 1 \in 1..Len(r)
      BY <1>2, <1>4, <2>2
    <3>2. q[n + 1] = NoMoreTasks /\ r[1] = q[n + 1] /\ r[1] \in Orders
      BY <3>1, <1>1, <1>2, <1>4
    <3> QED
      BY <3>2 DEF Orders, NoMoreTasks
  <2> QED
    BY <2>1, <2>2, <1>2, <1>4
<1>6. r # <<>> /\ Len(r) >= 1
  BY <1>2, <1>4, <1>5
<1>7. Head(r) = x
  <2>1. Head(r) = r[1] /\ 1 \in 1..Len(r)
    BY <1>2, <1>6
  <2>2. r[1] = q[n + 1]
    BY <2>1, <1>4
  <2> QED
    BY <2>1, <2>2, <1>1, <1>5
<1>8. /\ Tail(r) \in Seq(Orders) /\ Len(Tail(r)) = Len(r) - 1
      /\ \A m \in 1..(Len(r) - 1) : Tail(r)[m] = r[m + 1]
  BY <1>6, Popped
<1>9. Len(w) = n + Len(Tail(r))
  BY <1>2, <1>3, <1>4, <1>8
<1>10. \A m \in 1..n : w[m] = NoMoreTasks
  <2> SUFFICES ASSUME NEW m \in 1..n PROVE w[m] = NoMoreTasks
    OBVIOUS
  <2>1. m \in 1..(Len(q) - 1) /\ m < i
    BY <1>2, <1>4, <1>5, <1>6
  <2> QED
    BY <2>1, <1>3, <1>4
<1>11. \A m \in 1..Len(Tail(r)) : w[n + m] = Tail(r)[m]
  <2> SUFFICES ASSUME NEW m \in 1..Len(Tail(r)) PROVE w[n + m] = Tail(r)[m]
    OBVIOUS
  <2>1. n + m \in 1..(Len(q) - 1) /\ ~(n + m < i) /\ m \in 1..(Len(r) - 1)
        /\ m + 1 \in 1..Len(r) /\ (n + m) + 1 = n + (m + 1)
    BY <1>2, <1>4, <1>5, <1>8
  <2>2. w[n + m] = q[n + (m + 1)]
    BY <2>1, <1>3
  <2> QED
    BY <2>1, <2>2, <1>4, <1>8
<1> QED
  BY <1>6, <1>7, <1>9, <1>10, <1>11 DEF Owing, w

\* A command is answered; the answer to the last one closes the connection.
LEMMA SentAnswer ==
  ASSUME NEW k \in ClientRecord, ClientSane(k), k.out.cmd = "ControlResponse",
         NEW n, n = ClientSent(k)
  PROVE  /\ n \in ClientRecord /\ ClientSane(n) /\ First(k.send, k.out.what)
         /\ k.out.what = "ClientQuit" => ~n.open
         /\ k.out.what # "ClientQuit" =>
              /\ n.open = k.open /\ n.send = WithoutFirst(k.send, k.out.what)
              /\ n.tri = k.tri /\ Own(n) = Own(k) /\ Hears(Then(k), k.out, Then(n))
         /\ \E y : Hears(Then(k), k.out, y) /\ y.tdi = Then(k).tdi
<1> DEFINE w == [k EXCEPT !.out = NoPacket]  q == WithoutFirst(k.send, k.out.what)
           d == SetSend(w, q)
<1>1. Talking(k) /\ Managing(k)
  BY DEF ClientSane
<1>2. /\ w \in ClientRecord /\ w.out = NoPacket /\ w.out.cmd = "none"
      /\ Besides(k, w) /\ w.tri = k.tri /\ w.tdi = k.tdi /\ w.lock = k.lock
      /\ w.send = k.send /\ w.take = k.take /\ w.why = k.why
      /\ w.run = k.run /\ w.cur = k.cur /\ w.dts = k.dts /\ w.open = k.open
  BY <1>1, OutIs
<1>3. n = IF k.out.what = "ClientQuit" THEN ConnClose(d, "quit") ELSE d
  BY DEF ClientSent, SetSend
<1>4. ~k.lock /\ First(k.send, k.out.what)
  BY <1>1, OutSays
<1> HIDE DEF w
<1>5. q \in Seq(Orders \cup {NoMoreTasks})
  <2>1. k.send \in Seq(Orders \cup {NoMoreTasks})
    BY ClientRead
  <2>2. PICK i \in DOMAIN k.send :
          k.send[i] = k.out.what /\ \A j \in 1..(i - 1) : k.send[j] # k.out.what
    BY <2>1, <1>4, FirstPlace
  <2> QED
    BY <2>1, <2>2, WithoutFirstIs
<1> HIDE DEF q
<1>6. /\ d \in ClientRecord /\ d.send = q
      /\ Besides(w, d) /\ d.out = w.out /\ d.tri = w.tri /\ d.lock = w.lock
      /\ d.tdi = w.tdi /\ d.take = w.take /\ d.why = w.why
  BY <1>2, <1>5, SetSendIs
<1> HIDE DEF d
<1>7. d.run = k.run /\ d.cur = k.cur /\ d.dts = k.dts /\ d.open = k.open
  BY <1>2, <1>6 DEF Besides, SameQueues
<1>8. Own(d) = Own(k) /\ Managing(d)
  BY <1>1, <1>2, <1>6, BesidesKeeps
<1>9. Receiving(d)
  BY <1>1, <1>2, <1>6, <1>8 DEF Talking, Receiving
<1>10. Telling(d)
  BY <1>1, <1>2, <1>6, <1>7 DEF Talking, Telling
<1>11. k.tdi.act # "Complete" /\ k.tdi.act # "FileSendB"
  BY <1>1 DEF Talking, ClientOut
<1>12. ClientOut(d)
  BY <1>1, <1>2, <1>6, <1>11 DEF Talking, ClientOut
<1>13. k.open \in BOOLEAN /\ k.open
  BY <1>1, ClientRead, Saying DEF Talking
<1>14. ClientSane(d)
  BY <1>1, <1>2, <1>6, <1>7, <1>8, <1>9, <1>10, <1>12, <1>13 DEF ClientSane, Talking
<1>15. /\ Then(k).auth = 2 /\ Then(d).auth = 2 /\ Then(d).tdi = Then(k).tdi
       /\ Then(k).tdi.state # "UploadBody"
  BY <1>2, <1>6, <1>7, <1>11 DEF Then, NoTdi
<1>16. Hears(Then(k), k.out, Then(d))
  BY <1>15 DEF Hears
<1>17. CASE k.out.what = "ClientQuit"
  <2>1. n = ConnClose(d, "quit")
    BY <1>3, <1>17
  <2>2. d.open = TRUE /\ "quit" \in Ends /\ "quit" # "protocol"
    BY <1>7, <1>13 DEF Ends
  <2>3. n \in ClientRecord /\ ClientSane(n) /\ ~n.open
    BY <1>6, <1>8, <2>1, <2>2, ConnCloseSane
  <2> QED
    BY <1>4, <1>15, <1>16, <1>17, <2>3
<1>18. CASE k.out.what # "ClientQuit"
  <2>1. n = d
    BY <1>3, <1>18
  <2>2. n.send = WithoutFirst(k.send, k.out.what) /\ n.tri = k.tri
    BY <2>1, <1>2, <1>6 DEF q
  <2> QED
    BY <1>4, <1>6, <1>7, <1>8, <1>14, <1>15, <1>16, <1>18, <2>1, <2>2
<1> QED
  BY <1>17, <1>18

----------------------------------------------------------------------------
(* A packet is read *)

\* The task being received goes on.
LEMMA TriChanged ==
  ASSUME NEW k \in ClientRecord, ClientSane(k), k.open = TRUE,
         k.tri.act \in {"None", "FileRecvH", "FileRecvB"},
         k.out.cmd \notin {"TaskResponse", "FileRequest"},
         NEW t \in Taking, t.task # NoTask, t.task \notin Own(k),
         \/ t.resp = "Accepted" /\ t.act \in {"FileReq", "FileRecvB"}
         \/ t.resp = "TooManyTasks" /\ t.act = "None",
         NEW n, n = SetTri(k, t)
  PROVE  ClientSane(n) /\ Then(n) = Then(k) /\ Own(n) = Own(k)
<1>1. Talking(k) /\ Managing(k)
  BY DEF ClientSane
<1>2. /\ n \in ClientRecord /\ n.tri = t
      /\ Besides(k, n) /\ n.out = k.out /\ n.tdi = k.tdi /\ n.lock = k.lock
      /\ n.send = k.send /\ n.take = k.take /\ n.why = k.why
  BY SetTriIs
<1>3. n.run = k.run /\ n.cur = k.cur /\ n.dts = k.dts /\ n.open = k.open
  BY <1>2 DEF Besides, SameQueues
<1>4. Own(n) = Own(k) /\ Managing(n)
  BY <1>1, <1>2, BesidesKeeps
<1>5. Receiving(n)
  <2>1. k.take = NoTask
    BY <1>1 DEF Talking, Receiving
  <2> QED
    BY <1>2, <1>4, <2>1 DEF Receiving
<1>6. Telling(n)
  <2>1. k.tdi.task # NoTask => k.tdi.task \in Own(k)
    BY <1>1, TellingIs
  <2> QED
    BY <1>1, <1>2, <1>3, <2>1 DEF Talking, Telling
<1>7. ClientOut(n)
  <2>1. ClientOut(k)
    BY <1>1 DEF Talking
  <2>2. k.out # TaskResponse(k.tri.task, k.tri.resp) /\ k.out # FileRequest(k.tri.task, k.tri.n)
    BY Saying
  <2> QED
    BY <1>2, <1>3, <2>1, <2>2 DEF ClientOut
<1>8. ClientSane(n)
  BY <1>1, <1>2, <1>3, <1>4, <1>5, <1>6, <1>7 DEF ClientSane, Talking
<1>9. Then(n) = Then(k)
  BY <1>2, <1>3 DEF Then
<1> QED
  BY <1>2, <1>3, <1>4, <1>8, <1>9

\* The client has read a task and receives it, if there is room.
TaskAhead(k, p, n) ==
  /\ n.open = k.open /\ Then(n) = Then(k) /\ Own(n) = Own(k) /\ n.send = k.send
  /\ n.tri.task = p.task /\ n.tri.resp # "none"
  /\ n.tri.act \in {"None", "FileReq"}
  /\ Len(k.todo) < TodoHigh + NJobs => n.tri.resp = "Accepted" /\ n.tri.act = "FileReq"

\* A task arrives: it is taken, or there are too many.
LEMMA ReadTask ==
  ASSUME NEW k \in ClientRecord, ClientSane(k), k.open = TRUE, k.tri.task = NoTask,
         NEW p \in Packets, p.task # NoTask, p.task \notin Own(k),
         NEW n, n = ParseTaskRequest(k, p)
  PROVE  n \in ClientRecord /\ ClientSane(n) /\ TaskAhead(k, p, n)
<1>1. Talking(k) /\ Managing(k)
  BY DEF ClientSane
<1>2. k.tri = FreeTri /\ k.tri.act = "None" /\ k.tri.resp = "none"
  BY <1>1, TakingIs
<1>3. k.out.cmd \notin {"TaskResponse", "FileRequest"}
  BY <1>1, <1>2, OutSays
<1>4. p.task \in Held
  BY DEF Packets
<1>5. CASE ~(Len(k.todo) >= TodoHigh + NJobs)
  <2> DEFINE t == [task |-> p.task, resp |-> "Accepted", act |-> "FileReq", n |-> 0]
  <2>1. t \in Taking
    BY <1>4 DEF Taking
  <2>2. t.task = p.task /\ t.resp = "Accepted" /\ t.act = "FileReq"
    OBVIOUS
  <2>3. n = SetTri(k, t)
    BY <1>2, <1>5 DEF ParseTaskRequest, SetTri
  <2> HIDE DEF t
  <2>4. /\ n \in ClientRecord /\ n.tri = t /\ n.open = k.open /\ n.send = k.send
    BY <2>1, <2>3, SetTriIs DEF Besides
  <2>5. t.task # NoTask /\ t.task \notin Own(k) /\ t.act \in {"FileReq", "FileRecvB"}
    BY <2>2
  <2>6. k.tri.act \in {"None", "FileRecvH", "FileRecvB"}
    BY <1>2
  <2>7. ClientSane(n) /\ Then(n) = Then(k) /\ Own(n) = Own(k)
    BY <1>3, <2>1, <2>2, <2>3, <2>5, <2>6, TriChanged
  <2> QED
    BY <2>2, <2>4, <2>7 DEF TaskAhead
<1>6. CASE Len(k.todo) >= TodoHigh + NJobs
  <2> DEFINE s == [k.tri EXCEPT !.resp = "TooManyTasks"]  t == [s EXCEPT !.task = p.task]
  <2>1. k.tri \in Taking
    BY ClientRead
  <2>2. s \in Taking /\ s.resp = "TooManyTasks" /\ s.act = "None"
    BY <1>2, <2>1 DEF Taking
  <2> HIDE DEF s
  <2>3. t \in Taking /\ t.task = p.task /\ t.resp = "TooManyTasks" /\ t.act = "None"
    BY <1>4, <2>2 DEF Taking
  <2>4. n = SetTri(k, t)
    BY <1>2, <1>6 DEF ParseTaskRequest, SetTri, s
  <2> HIDE DEF t
  <2>5. ~(Len(k.todo) < TodoHigh + NJobs)
    <3>1. Len(k.todo) \in Nat /\ TodoHigh + NJobs \in Nat
      BY ClientRead, LdrAssumption
    <3> QED
      BY <1>6, <3>1
  <2>6. /\ n \in ClientRecord /\ n.tri = t /\ n.open = k.open /\ n.send = k.send
    BY <2>3, <2>4, SetTriIs DEF Besides
  <2>7. t.task # NoTask /\ t.task \notin Own(k)
    BY <2>3
  <2>8. k.tri.act \in {"None", "FileRecvH", "FileRecvB"}
    BY <1>2
  <2>9. ClientSane(n) /\ Then(n) = Then(k) /\ Own(n) = Own(k)
    BY <1>3, <2>3, <2>4, <2>7, <2>8, TriChanged
  <2> QED
    BY <2>3, <2>5, <2>6, <2>9 DEF TaskAhead
<1> QED
  BY <1>5, <1>6

\* The client has read a header and waits for the file.
FileAhead(k, n) ==
  /\ n.open = k.open /\ Then(n) = Then(k) /\ Own(n) = Own(k) /\ n.send = k.send
  /\ n.tri.task = k.tri.task /\ n.tri.resp = "Accepted"
  /\ n.tri.act = "FileRecvB" /\ n.tri.n = k.tri.n

\* The header of a file arrives.
LEMMA ReadHeader ==
  ASSUME NEW k \in ClientRecord, ClientSane(k), k.open = TRUE,
         k.tri.act = "FileRecvH",
         NEW p \in Packets, p.task = k.tri.task, p.n = k.tri.n,
         NEW fault \in BOOLEAN, NEW n, n = ParseFileDownload(k, p, fault)
  PROVE  /\ n \in ClientRecord /\ ClientSane(n)
         /\ ~n.open \/ FileAhead(k, n)
<1>1. Talking(k) /\ Managing(k)
  BY DEF ClientSane
<1>2. k.tri.resp = "Accepted" /\ k.tri.task # NoTask /\ k.tri.task \notin Own(k)
  BY <1>1, TakingIs
<1>3. k.out.cmd \notin {"TaskResponse", "FileRequest"}
  BY <1>1, OutSays
<1>4. CASE fault
  <2>1. n = ConnClose(k, "file") /\ "file" \in Ends /\ "file" # "protocol"
    BY <1>4 DEF ParseFileDownload, Ends
  <2> QED
    BY <1>1, <2>1, ConnCloseSane
<1>5. CASE ~fault
  <2> DEFINE t == [k.tri EXCEPT !.act = "FileRecvB"]
  <2>1. k.tri \in Taking
    BY ClientRead
  <2>2. /\ t \in Taking /\ t.task = k.tri.task /\ t.resp = k.tri.resp
        /\ t.act = "FileRecvB" /\ t.n = k.tri.n
    BY <2>1 DEF Taking
  <2>3. n = SetTri(k, t)
    BY <1>5 DEF ParseFileDownload, SetTri
  <2> HIDE DEF t
  <2>4. /\ n \in ClientRecord /\ n.tri = t /\ n.open = k.open /\ n.send = k.send
    BY <2>2, <2>3, SetTriIs DEF Besides
  <2>5. t.task # NoTask /\ t.task \notin Own(k) /\ t.resp = "Accepted"
    BY <1>2, <2>2
  <2>6. k.tri.act \in {"None", "FileRecvH", "FileRecvB"} /\ t.act \in {"FileReq", "FileRecvB"}
    BY <2>2
  <2>7. ClientSane(n) /\ Then(n) = Then(k) /\ Own(n) = Own(k)
    BY <1>3, <2>2, <2>3, <2>5, <2>6, TriChanged
  <2> QED
    BY <2>2, <2>4, <2>5, <2>7 DEF FileAhead
<1> QED
  BY <1>4, <1>5

\* The body of a file arrives.
LEMMA ReadBody ==
  ASSUME NEW k \in ClientRecord, ClientSane(k), k.open = TRUE,
         k.tri.act = "FileRecvB", NEW n, n = DownloadDone(k)
  PROVE  /\ n \in ClientRecord /\ ClientSane(n) /\ n.open = k.open
         /\ Then(n) = Then(k) /\ Own(n) = Own(k) /\ n.send = k.send
         /\ n.tri.task = k.tri.task /\ n.tri.resp = "Accepted" /\ n.tri.act = "FileReq"
<1>1. Talking(k) /\ Managing(k)
  BY DEF ClientSane
<1>2. k.tri.resp = "Accepted" /\ k.tri.task # NoTask /\ k.tri.task \notin Own(k)
  BY <1>1, TakingIs
<1>3. k.out.cmd \notin {"TaskResponse", "FileRequest"}
  BY <1>1, OutSays
<1> DEFINE t == [k.tri EXCEPT !.act = "FileReq"]
<1>4. k.tri \in Taking
  BY ClientRead
<1>5. t \in Taking /\ t.task = k.tri.task /\ t.resp = k.tri.resp /\ t.act = "FileReq"
  BY <1>4 DEF Taking
<1>6. n = SetTri(k, t)
  BY DEF DownloadDone, SetTri
<1> HIDE DEF t
<1>7. /\ n \in ClientRecord /\ n.tri = t /\ n.open = k.open /\ n.send = k.send
  BY <1>5, <1>6, SetTriIs DEF Besides
<1>8. t.task # NoTask /\ t.task \notin Own(k) /\ t.resp = "Accepted"
  BY <1>2, <1>5
<1>9. k.tri.act \in {"None", "FileRecvH", "FileRecvB"} /\ t.act \in {"FileReq", "FileRecvB"}
  BY <1>5
<1>10. ClientSane(n) /\ Then(n) = Then(k) /\ Own(n) = Own(k)
  BY <1>3, <1>5, <1>6, <1>8, <1>9, TriChanged
<1> QED
  BY <1>5, <1>7, <1>8, <1>10

\* What was first stays first.
LEMMA FirstLater ==
  ASSUME NEW q \in Seq(Orders \cup {NoMoreTasks}), NEW y \in Orders, NEW x, First(q, x)
  PROVE  First(Append(q, y), x)
<1> DEFINE a == Append(q, y)
<1>1. PICK i \in DOMAIN q : q[i] = x /\ \A j \in 1..(i - 1) : q[j] = NoMoreTasks
  BY DEF First
<1>2. DOMAIN q = 1..Len(q) /\ Len(q) \in Nat /\ DOMAIN a = 1..(Len(q) + 1)
  OBVIOUS
<1>3. \A j \in 1..Len(q) : a[j] = q[j]
  BY AppendProperties
<1> HIDE DEF a
<1>4. i \in DOMAIN a /\ a[i] = x
  BY <1>1, <1>2, <1>3
<1>5. \A j \in 1..(i - 1) : a[j] = NoMoreTasks
  BY <1>1, <1>2, <1>3
<1> QED
  BY <1>4, <1>5 DEF First, a

\* One more order is owed.
LEMMA OwingLater ==
  ASSUME NEW q \in Seq(Orders \cup {NoMoreTasks}), NEW r \in Seq(Orders), NEW y \in Orders,
         Owing(q, r)
  PROVE  Owing(Append(q, y), Append(r, y))
<1> DEFINE a == Append(q, y)  b == Append(r, y)
<1>1. PICK n \in Nat : /\ Len(q) = n + Len(r)
                       /\ \A i \in 1..n : q[i] = NoMoreTasks
                       /\ \A i \in 1..Len(r) : r[i] = q[n + i]
  BY DEF Owing
<1>2. Len(q) \in Nat /\ Len(r) \in Nat /\ Len(a) = Len(q) + 1 /\ Len(b) = Len(r) + 1
  BY AppendProperties
<1>3. /\ \A j \in 1..Len(q) : a[j] = q[j]
      /\ \A j \in 1..Len(r) : b[j] = r[j]
      /\ a[Len(q) + 1] = y /\ b[Len(r) + 1] = y
  BY AppendProperties
<1> HIDE DEF a, b
<1>4. Len(a) = n + Len(b)
  BY <1>1, <1>2
<1>5. \A i \in 1..n : a[i] = NoMoreTasks
  BY <1>1, <1>2, <1>3
<1>6. \A i \in 1..Len(b) : a[n + i] = b[i]
  <2> SUFFICES ASSUME NEW i \in 1..Len(b) PROVE a[n + i] = b[i]
    OBVIOUS
  <2>1. CASE i = Len(r) + 1
    <3>1. n + i = Len(q) + 1
      BY <2>1, <1>1, <1>2
    <3> QED
      BY <3>1, <2>1, <1>3
  <2>2. CASE i # Len(r) + 1
    <3>1. i \in 1..Len(r) /\ n + i \in 1..Len(q)
      BY <2>2, <1>1, <1>2
    <3> QED
      BY <3>1, <1>1, <1>3
  <2> QED
    BY <2>1, <2>2
<1> QED
  BY <1>4, <1>5, <1>6 DEF Owing, a, b

\* A command is executed, and its answer queued.
LEMMA ReadCommand ==
  ASSUME NEW k \in ClientRecord, ClientSane(k), k.open = TRUE,
         NEW p \in Packets, p.what \in Orders, NEW n, n = ParseCommandRequest(k, p)
  PROVE  /\ n \in ClientRecord /\ ClientSane(n) /\ n.open = k.open
         /\ \E e \in ClientRecord :
              /\ ClientSane(e) /\ Same(k, e) /\ n.tri = e.tri /\ Then(n) = Then(e)
              /\ Own(n) = Own(e) /\ n.send = Append(e.send, p.what)
<1> DEFINE e == ExecCommand(k, p.what)  q == Append(e.send, p.what)
<1>1. e \in ClientRecord /\ ClientSane(e) /\ Same(k, e)
  BY ExecCommandSane
<1>2. n = SetSend(e, q)
  BY DEF ParseCommandRequest, EntryProcessed, SetSend
<1> HIDE DEF e
<1>3. e.send \in Seq(Orders \cup {NoMoreTasks}) /\ q \in Seq(Orders \cup {NoMoreTasks})
  BY <1>1, ClientRead
<1>4. q = Append(e.send, p.what)
  OBVIOUS
<1> HIDE DEF q
<1>5. /\ n \in ClientRecord /\ n.send = q
      /\ Besides(e, n) /\ n.out = e.out /\ n.tri = e.tri /\ n.lock = e.lock
      /\ n.tdi = e.tdi /\ n.take = e.take /\ n.why = e.why
  BY <1>1, <1>2, <1>3, SetSendIs
<1>6. n.run = e.run /\ n.cur = e.cur /\ n.dts = e.dts /\ n.open = e.open /\ e.open = k.open
  BY <1>1, <1>5 DEF Besides, SameQueues, Same
<1>7. Talking(e) /\ Managing(e)
  BY <1>1 DEF ClientSane
<1>8. Own(n) = Own(e) /\ Managing(n)
  BY <1>1, <1>5, <1>7, BesidesKeeps
<1>9. Receiving(n)
  BY <1>5, <1>7, <1>8 DEF Talking, Receiving
<1>10. Telling(n)
  BY <1>5, <1>6, <1>7 DEF Talking, Telling
<1>11. \A x : First(e.send, x) => First(n.send, x)
  BY <1>3, <1>4, <1>5, FirstLater
<1>12. ClientOut(n)
  <2>1. ClientOut(e)
    BY <1>7 DEF Talking
  <2> QED
    BY <2>1, <1>5, <1>6, <1>11 DEF ClientOut
<1>13. ClientSane(n)
  <2>1. n.open
    BY <1>6
  <2> QED
    BY <2>1, <1>5, <1>7, <1>8, <1>9, <1>10, <1>12 DEF ClientSane, Talking
<1>14. Then(n) = Then(e)
  BY <1>5, <1>6 DEF Then
<1> QED
  BY <1>1, <1>4, <1>5, <1>6, <1>8, <1>13, <1>14

\* The client reads a packet and goes on writing.
LEMMA ReadingIs ==
  ASSUME NEW k \in ClientRecord, NEW p \in Packets, NEW fault \in BOOLEAN,
         (k.tri.act = "FileRecvB") <=> (p.cmd = "FileBody"),
         NEW n, n = ReceiveOnClient(k, p, fault)
  PROVE  /\ p.cmd = "FileBody" => n = ClientSends(DownloadDone(k))
         /\ p.cmd = "TaskRequest" => n = ClientSends(ParseTaskRequest(k, p))
         /\ p.cmd = "FileDownload" => n = ClientSends(ParseFileDownload(k, p, fault))
         /\ p.cmd = "ControlRequest" => n = ClientSends(ParseCommandRequest(k, p))
<1> DEFINE body == k.tri.act = "FileRecvB"
           a == ConnClose(k, "protocol")  b == DownloadDone(k)
           c == ParseTaskRequest(k, p)    d == ParseFileDownload(k, p, fault)
           e == ParseCommandRequest(k, p)
           m == CASE body # (p.cmd = "FileBody") -> a
                  [] body /\ p.cmd = "FileBody" -> b
                  [] ~body /\ p.cmd = "TaskRequest" -> c
                  [] ~body /\ p.cmd = "FileDownload" -> d
                  [] ~body /\ p.cmd = "ControlRequest" -> e
<1>1. n = ClientSends(m)
  BY DEF ReceiveOnClient
<1> HIDE DEF a, b, c, d, e
<1>2. /\ p.cmd = "FileBody" => m = b
      /\ p.cmd = "TaskRequest" => m = c
      /\ p.cmd = "FileDownload" => m = d
      /\ p.cmd = "ControlRequest" => m = e
  OBVIOUS
<1> HIDE DEF m
<1> QED
  BY <1>1, <1>2 DEF b, c, d, e

\* Writing next keeps the client sound.
LEMMA SendsSane ==
  ASSUME NEW k \in ClientRecord, ClientSane(k), NEW n, n = ClientSends(k)
  PROVE  n \in ClientRecord /\ ClientSane(n) /\ Same(k, n)
<1>1. n \in ClientRecord /\ Talking(n) /\ Same(k, n) /\ Besides(k, n)
  BY ClientSendsKeeps DEF ClientSane
<1>2. Managing(n)
  BY <1>1, BesidesKeeps DEF ClientSane
<1> QED
  BY <1>1, <1>2 DEF ClientSane

----------------------------------------------------------------------------
(* The server *)

\* What writing leaves alone.
Kept(s, n) ==
  /\ n.open = s.open /\ n.auth = s.auth /\ n.quit = s.quit /\ n.noMore = s.noMore
  /\ n.jobs = s.jobs /\ n.tri = s.tri /\ n.tdi = s.tdi /\ n.send = s.send
  /\ n.wait = s.wait /\ n.list = s.list /\ n.tes = s.tes /\ n.why = s.why

Outgoing(s, p) == [s EXCEPT !.out = p, !.lock = TRUE]
JustOut(s, p)  == [s EXCEPT !.out = p]

\* Putting the header of a file out locks the pump.
LEMMA OutgoingIs ==
  ASSUME NEW s \in ServerRecord, NEW p \in Packets, NEW n, n = Outgoing(s, p)
  PROVE  n \in ServerRecord /\ Kept(s, n) /\ n.out = p /\ n.lock
<1>0. TRUE \in BOOLEAN
  OBVIOUS
<1>1. n \in ServerRecord
  BY <1>0 DEF Outgoing, ServerRecord
<1>2. n.out = p /\ n.lock
  BY DEF Outgoing, ServerRecord
<1>3. Kept(s, n)
  BY DEF Outgoing, Kept
<1> QED
  BY <1>1, <1>2, <1>3

\* Putting any other packet out changes no other member.
LEMMA JustOutIs ==
  ASSUME NEW s \in ServerRecord, NEW p \in Packets, NEW n, n = JustOut(s, p)
  PROVE  n \in ServerRecord /\ Kept(s, n) /\ n.out = p /\ n.lock = s.lock
<1>1. n \in ServerRecord /\ n.out = p
  BY DEF JustOut, ServerRecord
<1>2. Kept(s, n) /\ n.lock = s.lock
  BY DEF JustOut, Kept
<1> QED
  BY <1>1, <1>2

\* An open end is sound whatever it writes next, if that is due.
LEMMA KeptSane ==
  ASSUME NEW s, NEW n, ServerSane(s), s.open, Kept(s, n), ServerOut(n)
  PROVE  ServerSane(n)
<1>1. Assigned(n) = Assigned(s)
  BY DEF Kept, Assigned
<1> QED
  BY <1>1 DEF Kept, ServerSane

\* What the server writes next.
LEMMA ServerSendsIs ==
  ASSUME NEW s \in ServerRecord, NEW n, n = ServerSends(s)
  PROVE  \/ n = s
         \/ /\ s.out = NoPacket
            /\ \/ /\ ~s.lock /\ s.send # <<>>
                  /\ n = JustOut(s, ControlRequest(Head(s.send)))
               \/ /\ ~s.lock /\ s.tri.state = "SendTaskRequest"
                  /\ n = JustOut(s, TaskRequest(s.tri.task))
               \/ /\ ~s.lock /\ s.tri.state = "SendFileDownloadH"
                  /\ n = Outgoing(s, FileDownload(s.tri.task, s.tri.n))
               \/ /\ s.tri.state = "SendFileDownloadB"
                  /\ n = JustOut(s, FileBody)
<1> DEFINE a == JustOut(s, ControlRequest(Head(s.send)))
           b == JustOut(s, TaskRequest(s.tri.task))
           c == Outgoing(s, FileDownload(s.tri.task, s.tri.n))
           d == JustOut(s, FileBody)
           free == s.out = NoPacket /\ s.quit # 2
           next == ~s.lock /\ s.send = <<>>
<1>1. n = CASE free /\ ~s.lock /\ s.send # <<>> -> a
            [] free /\ next /\ s.tri.state = "SendTaskRequest" -> b
            [] free /\ next /\ s.tri.state = "SendFileDownloadH" -> c
            [] free /\ s.lock /\ s.tri.state = "SendFileDownloadB" -> d
            [] OTHER -> s
  BY DEF ServerSends, JustOut, Outgoing
<1> HIDE DEF a, b, c, d
<1>2. \/ n = s
      \/ /\ s.out = NoPacket
         /\ \/ ~s.lock /\ s.send # <<>> /\ n = a
            \/ ~s.lock /\ s.tri.state = "SendTaskRequest" /\ n = b
            \/ ~s.lock /\ s.tri.state = "SendFileDownloadH" /\ n = c
            \/ s.tri.state = "SendFileDownloadB" /\ n = d
  BY <1>1
<1> QED
  BY <1>2 DEF a, b, c, d

\* Writing next keeps the server sound.
LEMMA ServerSendsSane ==
  ASSUME NEW s \in ServerRecord, ServerSane(s), s.open = TRUE, NEW n, n = ServerSends(s)
  PROVE  n \in ServerRecord /\ ServerSane(n) /\ Kept(s, n)
<1>1. ServerOut(s) /\ s.tri \in Sending /\ s.send \in Seq(Orders)
  BY ServerRead DEF ServerSane
<1>2. s.tri.task \in Held /\ s.tri.n \in Nat
  BY <1>1 DEF Sending
<1>3. CASE n = s
  BY <1>3 DEF Kept
<1>4. CASE /\ s.out = NoPacket /\ ~s.lock /\ s.send # <<>>
           /\ n = JustOut(s, ControlRequest(Head(s.send)))
  <2>1. ControlRequest(Head(s.send)) \in Packets
    <3>1. Head(s.send) \in Orders
      BY <1>1, <1>4
    <3> QED
      BY <3>1, PacketsTyped
  <2>2. n \in ServerRecord /\ Kept(s, n) /\ n.out = ControlRequest(Head(s.send)) /\ n.lock = s.lock
    BY <1>4, <2>1, JustOutIs
  <2>3. n.out = ControlRequest(Head(n.send)) /\ n.out.cmd = "ControlRequest" /\ s.out.cmd = "none"
    BY <1>4, <2>2, Saying DEF Kept
  <2>4. ServerOut(n)
    BY <1>1, <1>4, <2>2, <2>3 DEF ServerOut, Kept
  <2> QED
    BY <2>2, <2>4, KeptSane
<1>5. CASE /\ s.out = NoPacket /\ ~s.lock /\ s.tri.state = "SendTaskRequest"
           /\ n = JustOut(s, TaskRequest(s.tri.task))
  <2>0. TaskRequest(s.tri.task) \in Packets
    BY <1>2, PacketsTyped
  <2>1. n \in ServerRecord /\ Kept(s, n) /\ n.out = TaskRequest(s.tri.task) /\ n.lock = s.lock
    BY <2>0, <1>5, JustOutIs
  <2>2. n.out = TaskRequest(n.tri.task) /\ n.out.cmd = "TaskRequest"
    BY <2>1, Saying DEF Kept
  <2>3. ServerOut(n)
    BY <1>1, <1>5, <2>1, <2>2 DEF ServerOut, Kept
  <2> QED
    BY <2>1, <2>3, KeptSane
<1>6. CASE /\ s.out = NoPacket /\ ~s.lock /\ s.tri.state = "SendFileDownloadH"
           /\ n = Outgoing(s, FileDownload(s.tri.task, s.tri.n))
  <2>1. FileDownload(s.tri.task, s.tri.n) \in Packets
    BY <1>2, PacketsTyped
  <2>2. n \in ServerRecord /\ Kept(s, n) /\ n.out = FileDownload(s.tri.task, s.tri.n) /\ n.lock
    BY <1>6, <2>1, OutgoingIs
  <2>3. n.out = FileDownload(n.tri.task, n.tri.n) /\ n.out.cmd = "FileDownload"
    BY <2>2, Saying DEF Kept
  <2>4. ServerOut(n)
    BY <1>1, <1>6, <2>2, <2>3 DEF ServerOut, Kept
  <2> QED
    BY <2>2, <2>4, KeptSane
<1>7. CASE s.out = NoPacket /\ s.tri.state = "SendFileDownloadB" /\ n = JustOut(s, FileBody)
  <2>1. n \in ServerRecord /\ Kept(s, n) /\ n.out = FileBody /\ n.lock = s.lock
    BY <1>7, PacketsTyped, JustOutIs
  <2>2. ServerOut(n)
    BY <1>1, <1>7, <2>1, Saying DEF ServerOut, Kept
  <2> QED
    BY <2>1, <2>2, KeptSane
<1> DEFINE done == n \in ServerRecord /\ ServerSane(n) /\ Kept(s, n)
<1>8. done
  BY <1>3, <1>4, <1>5, <1>6, <1>7, ServerSendsIs
<1> QED
  BY <1>8

\* What the exchange of tasks and orders leaves alone.
Aside(s, n) ==
  /\ n.open = s.open /\ n.auth = s.auth /\ n.noMore = s.noMore /\ n.jobs = s.jobs
  /\ n.tdi = s.tdi /\ n.list = s.list /\ n.tes = s.tes /\ n.why = s.why

Handing(s, t)     == [s EXCEPT !.tri = t]
HandingFree(s, t) == [s EXCEPT !.tri = t, !.lock = FALSE]
Noted(s, q, w)    == [s EXCEPT !.send = q, !.wait = w]
SetQuit(s, i)    == [s EXCEPT !.quit = i]

\* Setting the task being handed over changes no other member.
LEMMA HandingIs ==
  ASSUME NEW s \in ServerRecord, NEW t \in Sending, NEW n, n = Handing(s, t)
  PROVE  /\ n \in ServerRecord /\ Aside(s, n) /\ n.tri = t /\ n.out = s.out
         /\ n.lock = s.lock /\ n.send = s.send /\ n.wait = s.wait /\ n.quit = s.quit
<1>1. n \in ServerRecord /\ n.tri = t
  BY DEF Handing, ServerRecord
<1> QED
  BY <1>1 DEF Handing, Aside

\* The end of a file that was sent changes the task and the lock only.
LEMMA HandingFreeIs ==
  ASSUME NEW s \in ServerRecord, NEW t \in Sending, NEW n, n = HandingFree(s, t)
  PROVE  /\ n \in ServerRecord /\ Aside(s, n) /\ n.tri = t /\ n.out = s.out
         /\ ~n.lock /\ n.send = s.send /\ n.wait = s.wait /\ n.quit = s.quit
<1>1. FALSE \in BOOLEAN
  OBVIOUS
<1>2. n \in ServerRecord /\ n.tri = t /\ ~n.lock
  BY <1>1 DEF HandingFree, ServerRecord
<1> QED
  BY <1>2 DEF HandingFree, Aside

\* Moving a command from one queue to the other changes the queues only.
LEMMA NotedIs ==
  ASSUME NEW s \in ServerRecord, NEW q \in Seq(Orders), NEW w \in Seq(Orders),
         NEW n, n = Noted(s, q, w)
  PROVE  /\ n \in ServerRecord /\ Aside(s, n) /\ n.send = q /\ n.wait = w
         /\ n.tri = s.tri /\ n.out = s.out /\ n.lock = s.lock /\ n.quit = s.quit
<1>1. n \in ServerRecord /\ n.send = q /\ n.wait = w
  BY DEF Noted, ServerRecord
<1> QED
  BY <1>1 DEF Noted, Aside

\* Noting the way of a quit command changes no other member.
LEMMA QuitIs ==
  ASSUME NEW s \in ServerRecord, NEW i \in 0..3, NEW n, n = SetQuit(s, i)
  PROVE  /\ n \in ServerRecord /\ Aside(s, n) /\ n.quit = i /\ n.send = s.send
         /\ n.wait = s.wait /\ n.tri = s.tri /\ n.out = s.out /\ n.lock = s.lock
<1>1. n \in ServerRecord /\ n.quit = i
  BY DEF SetQuit, ServerRecord
<1> QED
  BY <1>1 DEF SetQuit, Aside

\* What is being written says how far the server is.
LEMMA ServerOutSays ==
  ASSUME NEW s, ServerSane(s)
  PROVE
    /\ s.out.cmd = "TaskRequest" =>
         /\ s.tri.state = "SendTaskRequest" /\ s.out = TaskRequest(s.tri.task) /\ ~s.lock
    /\ s.out.cmd = "FileDownload" =>
         s.tri.state = "SendFileDownloadH" /\ s.out = FileDownload(s.tri.task, s.tri.n)
    /\ s.out.cmd = "FileBody" => s.tri.state = "SendFileDownloadB" /\ s.out = FileBody
    /\ s.out.cmd = "ControlRequest" =>
         s.send # <<>> /\ ~s.lock /\ s.out = ControlRequest(Head(s.send))
    /\ s.out.cmd = "none" => s.out = NoPacket
    /\ s.out.cmd \in {"none", "TaskRequest", "FileDownload", "FileBody", "ControlRequest"}
<1>1. ServerOut(s)
  BY DEF ServerSane
<1>2. CASE s.out = NoPacket
  BY <1>2, Saying
<1>3. CASE s.tri.state = "SendTaskRequest" /\ s.out = TaskRequest(s.tri.task)
  BY <1>1, <1>3, Saying DEF ServerOut
<1>4. CASE s.tri.state = "SendFileDownloadH" /\ s.out = FileDownload(s.tri.task, s.tri.n)
  BY <1>4, Saying
<1>5. CASE s.tri.state = "SendFileDownloadB" /\ s.out = FileBody
  BY <1>5, Saying
<1>6. CASE s.send # <<>> /\ ~s.lock /\ s.out = ControlRequest(Head(s.send))
  BY <1>6, Saying
<1> QED
  BY <1>1, <1>2, <1>3, <1>4, <1>5, <1>6 DEF ServerOut

\* The exchange goes on.
LEMMA AsideSane ==
  ASSUME NEW s, NEW n, ServerSane(s), s.open, Aside(s, n), ServerOut(n),
         n.tri.task = NoTask <=> n.tri.state = "None"
  PROVE  ServerSane(n)
<1>1. Assigned(n) = Assigned(s)
  BY DEF Aside, Assigned
<1> QED
  BY <1>1 DEF Aside, ServerSane

\* Nothing is being written any more.
LEMMA Emptied ==
  ASSUME NEW s \in ServerRecord, ServerSane(s), NEW w, w = JustOut(s, NoPacket)
  PROVE  /\ w \in ServerRecord /\ Aside(s, w) /\ w.out = NoPacket /\ w.out.cmd = "none"
         /\ w.tri = s.tri /\ w.lock = s.lock /\ w.send = s.send /\ w.wait = s.wait
         /\ w.quit = s.quit
BY JustOutIs, Nothing, Saying DEF Kept, Aside

\* Aside of aside.
LEMMA AsideTwice ==
  ASSUME NEW s, NEW m, NEW n, Aside(s, m), Aside(m, n)
  PROVE  Aside(s, n)
BY DEF Aside

\* The task is written.
LEMMA GaveTask ==
  ASSUME NEW s \in ServerRecord, ServerSane(s), s.open = TRUE, s.out.cmd = "TaskRequest",
         NEW n, n = ServerSent(s)
  PROVE  /\ n \in ServerRecord /\ ServerSane(n) /\ Aside(s, n)
         /\ n.send = s.send /\ n.wait = s.wait /\ n.quit = s.quit
         /\ n.tri.task = s.tri.task /\ n.tri.state = "WaitForResponse"
<1> DEFINE w == JustOut(s, NoPacket)  t == [w.tri EXCEPT !.state = "WaitForResponse"]
<1>1. /\ s.tri.state = "SendTaskRequest" /\ s.out = TaskRequest(s.tri.task) /\ ~s.lock
  BY ServerOutSays
<1>2. w = JustOut(s, NoPacket)
  OBVIOUS
<1>3. n = Handing(w, t)
  BY DEF ServerSent, Handing, JustOut
<1> HIDE DEF w
<1>4. /\ w \in ServerRecord /\ Aside(s, w) /\ w.out = NoPacket /\ w.out.cmd = "none"
      /\ w.tri = s.tri /\ w.lock = s.lock /\ w.send = s.send /\ w.wait = s.wait
      /\ w.quit = s.quit
  BY <1>2, Emptied
<1>5. w.tri \in Sending
  BY <1>4, ServerRead
<1>6. t \in Sending /\ t.task = s.tri.task /\ t.state = "WaitForResponse"
  BY <1>4, <1>5 DEF Sending
<1> HIDE DEF t
<1>7. /\ n \in ServerRecord /\ Aside(w, n) /\ n.tri = t /\ n.out = w.out
      /\ n.lock = w.lock /\ n.send = w.send /\ n.wait = w.wait /\ n.quit = w.quit
  BY <1>3, <1>4, <1>6, HandingIs
<1>8. ServerOut(n)
  BY <1>1, <1>4, <1>6, <1>7 DEF ServerOut
<1>9. Aside(s, n)
  BY <1>4, <1>7, AsideTwice
<1>10. ServerSane(n)
  BY <1>1, <1>6, <1>7, <1>8, <1>9, AsideSane DEF ServerSane
<1> QED
  BY <1>4, <1>6, <1>7, <1>9, <1>10

\* The header of a file is written.
LEMMA GaveHeader ==
  ASSUME NEW s \in ServerRecord, ServerSane(s), s.open = TRUE, s.out.cmd = "FileDownload",
         NEW n, n = ServerSent(s)
  PROVE  /\ n \in ServerRecord /\ ServerSane(n) /\ Aside(s, n)
         /\ n.send = s.send /\ n.wait = s.wait /\ n.quit = s.quit
         /\ n.tri.task = s.tri.task /\ n.tri.state = "SendFileDownloadB"
<1> DEFINE w == JustOut(s, NoPacket)  t == [w.tri EXCEPT !.state = "SendFileDownloadB"]
<1>1. s.tri.state = "SendFileDownloadH"
  BY ServerOutSays
<1>2. w = JustOut(s, NoPacket)
  OBVIOUS
<1>3. n = Handing(w, t)
  BY DEF ServerSent, Handing, JustOut
<1> HIDE DEF w
<1>4. /\ w \in ServerRecord /\ Aside(s, w) /\ w.out = NoPacket /\ w.out.cmd = "none"
      /\ w.tri = s.tri /\ w.lock = s.lock /\ w.send = s.send /\ w.wait = s.wait
      /\ w.quit = s.quit
  BY <1>2, Emptied
<1>5. w.tri \in Sending
  BY <1>4, ServerRead
<1>6. t \in Sending /\ t.task = s.tri.task /\ t.state = "SendFileDownloadB"
  BY <1>4, <1>5 DEF Sending
<1> HIDE DEF t
<1>7. /\ n \in ServerRecord /\ Aside(w, n) /\ n.tri = t /\ n.out = w.out
      /\ n.lock = w.lock /\ n.send = w.send /\ n.wait = w.wait /\ n.quit = w.quit
  BY <1>3, <1>4, <1>6, HandingIs
<1>8. ServerOut(n)
  <2>1. s.lock
    BY DEF ServerSane, ServerOut
  <2> QED
    BY <2>1, <1>4, <1>6, <1>7 DEF ServerOut
<1>9. Aside(s, n)
  BY <1>4, <1>7, AsideTwice
<1>10. ServerSane(n)
  BY <1>1, <1>6, <1>7, <1>8, <1>9, AsideSane DEF ServerSane
<1> QED
  BY <1>4, <1>6, <1>7, <1>9, <1>10

\* The body of a file is written.
LEMMA GaveBody ==
  ASSUME NEW s \in ServerRecord, ServerSane(s), s.open = TRUE, s.out.cmd = "FileBody",
         NEW n, n = ServerSent(s)
  PROVE  /\ n \in ServerRecord /\ ServerSane(n) /\ Aside(s, n)
         /\ n.send = s.send /\ n.wait = s.wait /\ n.quit = s.quit
         /\ n.tri.task = s.tri.task /\ n.tri.state = "WaitForResponse"
<1> DEFINE w == JustOut(s, NoPacket)  t == [w.tri EXCEPT !.state = "WaitForResponse"]
<1>1. s.tri.state = "SendFileDownloadB"
  BY ServerOutSays
<1>2. w = JustOut(s, NoPacket)
  OBVIOUS
<1>3. n = HandingFree(w, t)
  BY DEF ServerSent, HandingFree, JustOut
<1> HIDE DEF w
<1>4. /\ w \in ServerRecord /\ Aside(s, w) /\ w.out = NoPacket /\ w.out.cmd = "none"
      /\ w.tri = s.tri /\ w.lock = s.lock /\ w.send = s.send /\ w.wait = s.wait
      /\ w.quit = s.quit
  BY <1>2, Emptied
<1>5. w.tri \in Sending
  BY <1>4, ServerRead
<1>6. t \in Sending /\ t.task = s.tri.task /\ t.state = "WaitForResponse"
  BY <1>4, <1>5 DEF Sending
<1> HIDE DEF t
<1>7. /\ n \in ServerRecord /\ Aside(w, n) /\ n.tri = t /\ n.out = w.out
      /\ ~n.lock /\ n.send = w.send /\ n.wait = w.wait /\ n.quit = w.quit
  BY <1>3, <1>4, <1>6, HandingFreeIs
<1>8. ServerOut(n)
  BY <1>4, <1>6, <1>7 DEF ServerOut
<1>9. Aside(s, n)
  BY <1>4, <1>7, AsideTwice
<1>10. ServerSane(n)
  BY <1>1, <1>6, <1>7, <1>8, <1>9, AsideSane DEF ServerSane
<1> QED
  BY <1>4, <1>6, <1>7, <1>9, <1>10

\* An order is written, and waits for its answer.
LEMMA GaveOrder ==
  ASSUME NEW s \in ServerRecord, ServerSane(s), s.open = TRUE, s.out.cmd = "ControlRequest",
         NEW n, n = ServerSent(s)
  PROVE  /\ n \in ServerRecord /\ ServerSane(n) /\ Aside(s, n) /\ n.tri = s.tri
         /\ s.out.what \in Orders /\ n.wait = Append(s.wait, s.out.what)
         /\ n.quit = 3 => s.quit = 3
<1> DEFINE w == JustOut(s, NoPacket)  q == Tail(w.send)  v == Append(w.wait, Head(w.send))
           c == Noted(w, q, v)
<1>1. s.send # <<>> /\ ~s.lock /\ s.out = ControlRequest(Head(s.send))
  BY ServerOutSays
<1>2. w = JustOut(s, NoPacket)
  OBVIOUS
<1>3. n = IF s.out.what = "ClientQuit" THEN SetQuit(c, 2) ELSE c
  BY DEF ServerSent, EntrySent, Noted, SetQuit, JustOut
<1> HIDE DEF w
<1>4. /\ w \in ServerRecord /\ Aside(s, w) /\ w.out = NoPacket /\ w.out.cmd = "none"
      /\ w.tri = s.tri /\ w.lock = s.lock /\ w.send = s.send /\ w.wait = s.wait
      /\ w.quit = s.quit
  BY <1>2, Emptied
<1>5. /\ s.send \in Seq(Orders) /\ s.wait \in Seq(Orders)
  BY ServerRead
<1>6. Head(s.send) \in Orders /\ q \in Seq(Orders) /\ v \in Seq(Orders)
  BY <1>1, <1>4, <1>5
<1>7. s.out.what = Head(s.send)
  BY <1>1, Saying
<1>8. v = Append(s.wait, s.out.what)
  BY <1>4, <1>7
<1> HIDE DEF q, v
<1>9. c = Noted(w, q, v)
  OBVIOUS
<1> HIDE DEF c
<1>10. /\ c \in ServerRecord /\ Aside(w, c) /\ c.send = q /\ c.wait = v
       /\ c.tri = w.tri /\ c.out = w.out /\ c.lock = w.lock /\ c.quit = w.quit
  BY <1>4, <1>6, <1>9, NotedIs
<1>11. ServerOut(c)
  <2>1. ServerOut(s) /\ s.out.cmd # "FileDownload"
    BY DEF ServerSane
  <2> QED
    BY <2>1, <1>4, <1>10 DEF ServerOut
<1>12. ServerSane(c) /\ Aside(s, c)
  <2>1. Aside(s, c)
    BY <1>4, <1>10, AsideTwice
  <2>2. c.tri.task = NoTask <=> c.tri.state = "None"
    BY <1>4, <1>10 DEF ServerSane
  <2> QED
    BY <2>1, <2>2, <1>11, AsideSane
<1>13. CASE n = c
  BY <1>4, <1>6, <1>7, <1>8, <1>10, <1>12, <1>13
<1>14. CASE n = SetQuit(c, 2)
  <2>1. 2 \in 0..3
    OBVIOUS
  <2>2. /\ n \in ServerRecord /\ Aside(c, n) /\ n.quit = 2 /\ n.send = c.send
        /\ n.wait = c.wait /\ n.tri = c.tri /\ n.out = c.out /\ n.lock = c.lock
    BY <1>10, <1>14, <2>1, QuitIs
  <2>3. ServerOut(n)
    BY <2>2, <1>11 DEF ServerOut
  <2>4. c.open
    BY <1>12 DEF Aside
  <2>5. n.tri.task = NoTask <=> n.tri.state = "None"
    BY <2>2, <1>12 DEF ServerSane
  <2>6. ServerSane(n) /\ Aside(s, n)
    BY <1>12, <2>2, <2>3, <2>4, <2>5, AsideSane, AsideTwice
  <2> QED
    BY <1>4, <1>6, <1>7, <1>8, <1>10, <2>2, <2>6
<1> QED
  BY <1>3, <1>13, <1>14

Lent(s, l, j, t) == [s EXCEPT !.list = l, !.jobs = j, !.tri = t]

\* Lending a task counts it and hands it over.
LEMMA LentIs ==
  ASSUME NEW s \in ServerRecord, NEW l \in [Tasks -> {"todo", "proc", "done"}],
         NEW j \in Int, NEW t \in Sending, NEW n, n = Lent(s, l, j, t)
  PROVE  /\ n \in ServerRecord /\ n.list = l /\ n.jobs = j /\ n.tri = t
         /\ n.open = s.open /\ n.auth = s.auth /\ n.quit = s.quit /\ n.noMore = s.noMore
         /\ n.tdi = s.tdi /\ n.out = s.out /\ n.lock = s.lock /\ n.send = s.send
         /\ n.wait = s.wait /\ n.tes = s.tes /\ n.why = s.why
<1>1. n \in ServerRecord
  BY DEF Lent, ServerRecord
<1>2. n.list = l /\ n.jobs = j /\ n.tri = t
  BY DEF Lent, ServerRecord
<1> QED
  BY <1>1, <1>2 DEF Lent

\* What the connection depends on at the server's end.
Facing(s, n) ==
  /\ n.open = s.open /\ n.auth = s.auth /\ n.tdi = s.tdi /\ n.tri = s.tri
  /\ n.list = s.list /\ n.wait = s.wait
  /\ n.quit = 3 => s.quit = 3

\* Task t is on its way.
Lending(s, t, n) ==
  /\ n.open = s.open /\ n.auth = s.auth /\ n.quit = s.quit /\ n.tdi = s.tdi
  /\ n.wait = s.wait /\ n.tes = s.tes
  /\ s.tri.state = "None" /\ n.tri.task = t /\ n.tri.state = "SendTaskRequest"
  /\ n.list[t] = "proc" /\ \A u \in Tasks : u # t => n.list[u] = s.list[u]

\* A task is lent.
LEMMA LendingSane ==
  ASSUME NEW s \in ServerRecord, ServerSane(s), s.open = TRUE, NEW t \in Tasks,
         s.list[t] = "todo", CanDoTask(s), NEW n, n = SendTaskToClient(s, t)
  PROVE  n \in ServerRecord /\ ServerSane(n) /\ Lending(s, t, n)
<1> DEFINE l == [s.list EXCEPT ![t] = "proc"]  j == s.jobs + 1
           x == [task |-> t, state |-> "SendTaskRequest", n |-> 0]
           m == Lent(s, l, j, x)
<1>1. n = ServerSends(m)
  BY DEF SendTaskToClient, Lent
<1>2. s.jobs \in Int /\ s.list \in [Tasks -> {"todo", "proc", "done"}]
  BY ServerRead
<1>3. /\ l \in [Tasks -> {"todo", "proc", "done"}] /\ l[t] = "proc"
      /\ \A u \in Tasks : u # t => l[u] = s.list[u]
  BY <1>2
<1>4. j \in Int /\ j = s.jobs + 1
  BY <1>2
<1>5. x \in Sending /\ x.task = t /\ x.state = "SendTaskRequest"
  BY DEF Sending, Held
<1>6. m = Lent(s, l, j, x)
  OBVIOUS
<1> HIDE DEF l, j, x, m
<1>7. /\ m \in ServerRecord /\ m.list = l /\ m.jobs = j /\ m.tri = x
      /\ m.open = s.open /\ m.auth = s.auth /\ m.quit = s.quit /\ m.noMore = s.noMore
      /\ m.tdi = s.tdi /\ m.out = s.out /\ m.lock = s.lock /\ m.send = s.send
      /\ m.wait = s.wait /\ m.tes = s.tes /\ m.why = s.why
  BY <1>3, <1>4, <1>5, <1>6, LentIs
<1>8. /\ IsFiniteSet(Assigned(s)) /\ s.jobs = Cardinality(Assigned(s))
      /\ t \notin Assigned(s) /\ Assigned(m) = Assigned(s) \cup {t}
  <2>1. t \notin Assigned(s)
    BY DEF Assigned
  <2>2. Assigned(m) = Assigned(s) \cup {t}
    BY <1>3, <1>7 DEF Assigned
  <2> QED
    BY <2>1, <2>2 DEF ServerSane
<1>9. IsFiniteSet(Assigned(m)) /\ m.jobs = Cardinality(Assigned(m))
  <2>1. IsFiniteSet(Assigned(s) \cup {t})
        /\ Cardinality(Assigned(s) \cup {t}) = Cardinality(Assigned(s)) + 1
    BY <1>8, FS_AddElement
  <2> QED
    BY <2>1, <1>4, <1>7, <1>8
<1>10. s.tri.state = "None" /\ s.tri.task = NoTask
  BY DEF CanDoTask, ServerSane
<1>11. m.jobs <= TodoHigh + NJobs
  <2>1. s.jobs < TodoHigh + NJobs /\ TodoHigh + NJobs \in Int
    BY LdrAssumption DEF CanDoTask
  <2> QED
    BY <2>1, <1>2, <1>4, <1>7
<1>12. ServerOut(m)
  BY <1>5, <1>7, <1>10 DEF ServerSane, ServerOut
<1>13. ServerSane(m)
  <2>1. t # NoTask
    BY Nothing
  <2> QED
    BY <2>1, <1>5, <1>7, <1>9, <1>11, <1>12 DEF ServerSane
<1>14. n \in ServerRecord /\ ServerSane(n) /\ Kept(m, n)
  BY <1>1, <1>7, <1>13, ServerSendsSane
<1> QED
  BY <1>3, <1>5, <1>7, <1>10, <1>14 DEF Kept, Lending

Ordered(s, q) == [s EXCEPT !.send = q]
Leading(s)    == [s EXCEPT !.quit = 1, !.noMore = TRUE]

\* Queueing a command changes the queue only.
LEMMA OrderedIs ==
  ASSUME NEW s \in ServerRecord, NEW q \in Seq(Orders), NEW n, n = Ordered(s, q)
  PROVE  /\ n \in ServerRecord /\ n.send = q /\ n.tri = s.tri /\ n.jobs = s.jobs
         /\ n.open = s.open /\ n.auth = s.auth /\ n.quit = s.quit /\ n.list = s.list
         /\ n.tdi = s.tdi /\ n.out = s.out /\ n.lock = s.lock
         /\ n.wait = s.wait /\ n.tes = s.tes /\ n.why = s.why
<1>1. n \in ServerRecord /\ n.send = q
  BY DEF Ordered, ServerRecord
<1> QED
  BY <1>1 DEF Ordered

\* Queueing a quit command also stops the lending.
LEMMA LeadingIs ==
  ASSUME NEW s \in ServerRecord, NEW n, n = Leading(s)
  PROVE  /\ n \in ServerRecord /\ n.send = s.send /\ n.tri = s.tri /\ n.jobs = s.jobs
         /\ n.open = s.open /\ n.auth = s.auth /\ n.quit = 1 /\ n.list = s.list
         /\ n.tdi = s.tdi /\ n.out = s.out /\ n.lock = s.lock
         /\ n.wait = s.wait /\ n.tes = s.tes /\ n.why = s.why
<1>1. 1 \in 0..3 /\ TRUE \in BOOLEAN
  OBVIOUS
<1>2. n \in ServerRecord /\ n.quit = 1
  BY <1>1 DEF Leading, ServerRecord
<1> QED
  BY <1>2 DEF Leading

\* An order is queued.
LEMMA OrderingSane ==
  ASSUME NEW s \in ServerRecord, ServerSane(s), s.open = TRUE, NEW c \in Orders,
         s.quit = 0, NEW n, n = SendControlRequest(s, c)
  PROVE  n \in ServerRecord /\ ServerSane(n) /\ Facing(s, n) /\ n.tes = s.tes
<1> DEFINE q == Append(s.send, c)  a == Ordered(s, q)
           b == Leading(a)
           m == IF c = "ClientQuit" THEN b ELSE a
<1>1. n = ServerSends(m)
  BY DEF SendControlRequest, Ordered, Leading
<1>2. s.send \in Seq(Orders)
  BY ServerRead
<1>3. q \in Seq(Orders) /\ q # <<>> /\ (s.send # <<>> => Head(q) = Head(s.send))
  <2>1. q \in Seq(Orders) /\ q # <<>>
    BY <1>2, Appended
  <2>2. s.send # <<>> => Head(q) = Head(s.send)
    <3>1. Len(s.send) \in Nat /\ (s.send # <<>> => Len(s.send) > 0)
      BY <1>2, EmptySeq
    <3>2. \A i \in 1..Len(s.send) : q[i] = s.send[i]
      BY <1>2, AppendProperties
    <3>3. Head(q) = q[1] /\ (s.send # <<>> => Head(s.send) = s.send[1])
      BY <1>2, <2>1
    <3> HIDE DEF q
    <3> QED
      BY <3>1, <3>2, <3>3
  <2> QED
    BY <2>1, <2>2
<1>4. a = Ordered(s, q)
  OBVIOUS
<1> HIDE DEF q, a
<1>5. /\ a \in ServerRecord /\ a.send = q /\ a.tri = s.tri /\ a.jobs = s.jobs
      /\ a.open = s.open /\ a.auth = s.auth /\ a.quit = s.quit /\ a.list = s.list
      /\ a.tdi = s.tdi /\ a.out = s.out /\ a.lock = s.lock
      /\ a.wait = s.wait /\ a.tes = s.tes /\ a.why = s.why
  BY <1>3, <1>4, OrderedIs
<1>6. b = Leading(a)
  OBVIOUS
<1> HIDE DEF b
<1>7. /\ b \in ServerRecord /\ b.send = a.send /\ b.tri = a.tri /\ b.jobs = a.jobs
      /\ b.open = a.open /\ b.auth = a.auth /\ b.quit = 1 /\ b.list = a.list
      /\ b.tdi = a.tdi /\ b.out = a.out /\ b.lock = a.lock
      /\ b.wait = a.wait /\ b.tes = a.tes /\ b.why = a.why
  BY <1>5, <1>6, LeadingIs
<1>8. /\ m \in ServerRecord /\ m.send = q /\ m.tri = s.tri /\ m.jobs = s.jobs
      /\ m.open = s.open /\ m.auth = s.auth /\ m.quit # 3 /\ m.list = s.list
      /\ m.tdi = s.tdi /\ m.out = s.out /\ m.lock = s.lock
      /\ m.wait = s.wait /\ m.tes = s.tes /\ m.why = s.why
  <2>1. CASE c = "ClientQuit"
    BY <2>1, <1>5, <1>7
  <2>2. CASE c # "ClientQuit"
    BY <2>2, <1>5
  <2> QED
    BY <2>1, <2>2
<1> HIDE DEF m
<1>9. ServerOut(m)
  BY <1>3, <1>8 DEF ServerSane, ServerOut
<1>10. ServerSane(m)
  <2>1. Assigned(m) = Assigned(s)
    BY <1>8 DEF Assigned
  <2> QED
    BY <2>1, <1>8, <1>9 DEF ServerSane
<1>11. n \in ServerRecord /\ ServerSane(n) /\ Kept(m, n)
  BY <1>1, <1>8, <1>10, ServerSendsSane
<1> QED
  BY <1>8, <1>11 DEF Kept, Facing

\* The server before anything happened.
LEMMA Server0Is ==
  /\ Server0 \in ServerRecord
  /\ ~Server0.open /\ Server0.auth = 0 /\ Server0.quit = 0 /\ Server0.jobs = 0
  /\ Server0.tri = NoTri /\ Server0.tdi = NoTdi /\ Server0.out = NoPacket /\ ~Server0.lock
  /\ Server0.send = <<>> /\ Server0.wait = <<>> /\ Server0.why = "none"
  /\ Server0.list = [t \in Tasks |-> "todo"] /\ Server0.tes = [t \in Tasks |-> "unset"]
<1>1. /\ NoTri \in Sending /\ NoTdi \in Getting /\ NoPacket \in Packets
      /\ FALSE \in BOOLEAN /\ 0 \in 0..2 /\ 0 \in 0..3 /\ 0 \in Int
      /\ <<>> \in Seq(Orders) /\ "none" \in Ends
  BY Nothing DEF Ends
<1>2. /\ [t \in Tasks |-> "todo"] \in [Tasks -> {"todo", "proc", "done"}]
      /\ [t \in Tasks |-> "unset"] \in [Tasks -> Verdicts]
  BY DEF Verdicts
<1>3. Server0 \in ServerRecord
  BY <1>1, <1>2 DEF Server0, ServerRecord
<1> QED
  BY <1>3 DEF Server0

Reset(l, e, w)   == [Server0 EXCEPT !.list = l, !.tes = e, !.why = w]
Renew(l, e, w)   == [[Server0 EXCEPT !.open = TRUE, !.auth = 1]
                       EXCEPT !.list = l, !.tes = e, !.why = w]

\* An end that is kicked out keeps only the list of tasks.
LEMMA ResetIs ==
  ASSUME NEW l \in [Tasks -> {"todo", "proc", "done"}], NEW e \in [Tasks -> Verdicts],
         NEW w \in Ends, NEW n, n = Reset(l, e, w)
  PROVE  /\ n \in ServerRecord /\ n.list = l /\ n.tes = e /\ n.why = w
         /\ ~n.open /\ n.quit = 0 /\ n.jobs = 0 /\ n.tri = NoTri /\ n.tdi = NoTdi
         /\ n.out = NoPacket /\ ~n.lock /\ n.send = <<>> /\ n.wait = <<>>
<1>1. n \in ServerRecord /\ n.list = l /\ n.tes = e /\ n.why = w
  BY Server0Is DEF Reset, ServerRecord
<1>2. /\ n.open = Server0.open /\ n.quit = Server0.quit /\ n.jobs = Server0.jobs
      /\ n.tri = Server0.tri /\ n.tdi = Server0.tdi /\ n.out = Server0.out
      /\ n.lock = Server0.lock /\ n.send = Server0.send /\ n.wait = Server0.wait
  BY DEF Reset
<1> QED
  BY <1>1, <1>2, Server0Is

\* Nothing is assigned, nothing sent: an end at rest.
LEMMA AtRest ==
  ASSUME NEW n, Assigned(n) = {}, n.jobs = 0, n.tri = NoTri, n.tdi = NoTdi,
         n.out = NoPacket, ~n.lock, n.send = <<>>, n.wait = <<>>, n.why # "protocol",
         n.open => n.auth = 1
  PROVE  ServerSane(n)
<1>1. IsFiniteSet({}) /\ Cardinality({}) = 0
  BY FS_EmptySet
<1>2. 0 <= TodoHigh + NJobs
  BY LdrAssumption
<1>3. NoTri.task = NoTask /\ NoTri.state = "None" /\ NoPacket.cmd = "none"
  BY Saying DEF NoTri
<1>4. ServerOut(n)
  BY <1>3 DEF ServerOut
<1> QED
  BY <1>1, <1>2, <1>3, <1>4 DEF ServerSane

\* The client is thrown out: what it had is put back.
LEMMA KickedSane ==
  ASSUME NEW s \in ServerRecord, NEW w \in Ends, w # "protocol", NEW n, n = KickMe(s, w)
  PROVE  n \in ServerRecord /\ ServerSane(n) /\ ~n.open /\ n.quit = 0 /\ n.tes = s.tes
<1> DEFINE l == PutBack(s)
<1>1. s.list \in [Tasks -> {"todo", "proc", "done"}] /\ s.tes \in [Tasks -> Verdicts]
  BY ServerRead
<1>2. l \in [Tasks -> {"todo", "proc", "done"}] /\ \A t \in Tasks : l[t] # "proc"
  BY <1>1 DEF PutBack
<1>3. n = Reset(l, s.tes, w)
  BY DEF KickMe, Reset
<1> HIDE DEF l
<1>4. /\ n \in ServerRecord /\ n.list = l /\ n.tes = s.tes /\ n.why = w
      /\ ~n.open /\ n.quit = 0 /\ n.jobs = 0 /\ n.tri = NoTri /\ n.tdi = NoTdi
      /\ n.out = NoPacket /\ ~n.lock /\ n.send = <<>> /\ n.wait = <<>>
  BY <1>1, <1>2, <1>3, ResetIs
<1>5. Assigned(n) = {}
  BY <1>2, <1>4 DEF Assigned
<1>6. ServerSane(n)
  BY <1>4, <1>5, AtRest
<1> QED
  BY <1>4, <1>6

Failing(s, e) == [s EXCEPT !.tes = e]

\* The same for a file that cannot be had.
LEMMA KickFailedSane ==
  ASSUME NEW s \in ServerRecord, NEW t \in Tasks, NEW n, n = KickFailed(s, t)
  PROVE  /\ n \in ServerRecord /\ ServerSane(n) /\ ~n.open /\ n.quit = 0
         /\ \A u \in Tasks : n.tes[u] = "ok" => s.tes[u] = "ok"
<1> DEFINE e == [s.tes EXCEPT ![t] = "failed"]  f == Failing(s, e)
<1>1. s.tes \in [Tasks -> Verdicts]
  BY ServerRead
<1>2. e \in [Tasks -> Verdicts] /\ \A u \in Tasks : e[u] = "ok" => s.tes[u] = "ok"
  BY <1>1 DEF Verdicts
<1>3. n = KickMe(f, "file")
  BY DEF KickFailed, Failing
<1> HIDE DEF e
<1>4. f \in ServerRecord /\ f.tes = e
  BY <1>2 DEF Failing, ServerRecord
<1> HIDE DEF f
<1>5. "file" \in Ends /\ "file" # "protocol"
  BY DEF Ends
<1>6. n \in ServerRecord /\ ServerSane(n) /\ ~n.open /\ n.quit = 0 /\ n.tes = f.tes
  BY <1>3, <1>4, <1>5, KickedSane
<1> QED
  BY <1>2, <1>4, <1>6

\* An end that is connected again has only the list of tasks.
LEMMA RenewIs ==
  ASSUME NEW l \in [Tasks -> {"todo", "proc", "done"}], NEW e \in [Tasks -> Verdicts],
         NEW w \in Ends, NEW n, n = Renew(l, e, w)
  PROVE  /\ n \in ServerRecord /\ n.list = l /\ n.tes = e /\ n.why = w
         /\ n.open /\ n.auth = 1
         /\ n.quit = 0 /\ n.jobs = 0 /\ n.tri = NoTri /\ n.tdi = NoTdi
         /\ n.out = NoPacket /\ ~n.lock /\ n.send = <<>> /\ n.wait = <<>>
<1> DEFINE m == [Server0 EXCEPT !.open = TRUE, !.auth = 1]
<1>1. TRUE \in BOOLEAN /\ 1 \in 0..2
  OBVIOUS
<1>2. m \in ServerRecord /\ m.open = TRUE /\ m.auth = 1
  BY <1>1, Server0Is DEF ServerRecord
<1>3. /\ m.quit = Server0.quit /\ m.jobs = Server0.jobs
      /\ m.tri = Server0.tri /\ m.tdi = Server0.tdi /\ m.out = Server0.out
      /\ m.lock = Server0.lock /\ m.send = Server0.send /\ m.wait = Server0.wait
  OBVIOUS
<1>4. n = [m EXCEPT !.list = l, !.tes = e, !.why = w]
  BY DEF Renew
<1> HIDE DEF m
<1>5. n \in ServerRecord /\ n.list = l /\ n.tes = e /\ n.why = w
  BY <1>2, <1>4 DEF ServerRecord
<1>6. /\ n.open = m.open /\ n.auth = m.auth
      /\ n.quit = m.quit /\ n.jobs = m.jobs /\ n.tri = m.tri /\ n.tdi = m.tdi
      /\ n.out = m.out /\ n.lock = m.lock /\ n.send = m.send /\ n.wait = m.wait
  BY <1>4
<1> QED
  BY <1>2, <1>3, <1>5, <1>6, Server0Is

\* A client is connected.
LEMMA ConnectedSane ==
  ASSUME NEW s \in ServerRecord, ServerSane(s), ~s.open, NEW n, n = Connected(s)
  PROVE  /\ n \in ServerRecord /\ ServerSane(n) /\ n.open /\ n.auth = 1 /\ n.quit = 0
         /\ n.tri = NoTri /\ n.tdi = NoTdi /\ n.wait = <<>>
         /\ n.tes = s.tes /\ \A t \in Tasks : n.list[t] # "proc"
<1>1. /\ s.list \in [Tasks -> {"todo", "proc", "done"}] /\ s.tes \in [Tasks -> Verdicts]
      /\ s.why \in Ends
  BY ServerRead
<1>2. n = Renew(s.list, s.tes, s.why)
  BY DEF Connected, Renew
<1>3. /\ n \in ServerRecord /\ n.list = s.list /\ n.tes = s.tes /\ n.why = s.why
      /\ n.open /\ n.auth = 1
      /\ n.quit = 0 /\ n.jobs = 0 /\ n.tri = NoTri /\ n.tdi = NoTdi
      /\ n.out = NoPacket /\ ~n.lock /\ n.send = <<>> /\ n.wait = <<>>
  BY <1>1, <1>2, RenewIs
<1>4. Assigned(n) = {}
  BY <1>3 DEF ServerSane, Assigned
<1>5. ServerSane(n)
  BY <1>3, <1>4, AtRest DEF ServerSane
<1>6. \A t \in Tasks : n.list[t] # "proc"
  BY <1>4 DEF Assigned
<1> QED
  BY <1>3, <1>5, <1>6

----------------------------------------------------------------------------
(* The server reads a packet *)

\* What only the exchange of tasks and packets depends on.
Standing(s, n) ==
  /\ n.open = s.open /\ n.jobs = s.jobs /\ n.tri = s.tri /\ n.out = s.out
  /\ n.lock = s.lock /\ n.send = s.send /\ n.list = s.list /\ n.tes = s.tes
  /\ n.why = s.why

\* Reading what does not concern the tasks keeps the end sane.
LEMMA StandingSane ==
  ASSUME NEW s, NEW n, ServerSane(s), s.open, Standing(s, n), n.auth \in {1, 2}
  PROVE  ServerSane(n)
<1>1. Assigned(n) = Assigned(s) /\ ServerOut(n)
  BY DEF Standing, Assigned, ServerSane, ServerOut
<1> QED
  BY <1>1 DEF Standing, ServerSane

Auth(s, i)       == [s EXCEPT !.auth = i]
Collecting(s, d) == [s EXCEPT !.tdi = d]
Noticed(s)       == [s EXCEPT !.noMore = TRUE]
Waiting(s, w)    == [s EXCEPT !.wait = w]

\* The end of the greeting changes no other member.
LEMMA AuthIs ==
  ASSUME NEW s \in ServerRecord, NEW n, n = Auth(s, 2)
  PROVE  /\ n \in ServerRecord /\ Standing(s, n) /\ n.auth = 2
         /\ n.tdi = s.tdi /\ n.wait = s.wait /\ n.quit = s.quit
<1>1. 2 \in 0..2
  OBVIOUS
<1>2. n \in ServerRecord /\ n.auth = 2
  BY <1>1 DEF Auth, ServerRecord
<1> QED
  BY <1>2 DEF Auth, Standing

\* Setting the task being collected changes no other member.
LEMMA CollectingIs ==
  ASSUME NEW s \in ServerRecord, NEW d \in Getting, NEW n, n = Collecting(s, d)
  PROVE  /\ n \in ServerRecord /\ Standing(s, n) /\ n.tdi = d
         /\ n.auth = s.auth /\ n.wait = s.wait /\ n.quit = s.quit
<1>1. n \in ServerRecord /\ n.tdi = d
  BY DEF Collecting, ServerRecord
<1> QED
  BY <1>1 DEF Collecting, Standing

\* A notice that no more tasks are wanted changes no other member.
LEMMA NoticedIs ==
  ASSUME NEW s \in ServerRecord, NEW n, n = Noticed(s)
  PROVE  /\ n \in ServerRecord /\ Standing(s, n) /\ n.tdi = s.tdi
         /\ n.auth = s.auth /\ n.wait = s.wait /\ n.quit = s.quit
<1>1. TRUE \in BOOLEAN
  OBVIOUS
<1>2. n \in ServerRecord
  BY <1>1 DEF Noticed, ServerRecord
<1> QED
  BY <1>2 DEF Noticed, Standing

\* Setting the commands that wait changes no other member.
LEMMA WaitingIs ==
  ASSUME NEW s \in ServerRecord, NEW w \in Seq(Orders), NEW n, n = Waiting(s, w)
  PROVE  /\ n \in ServerRecord /\ Standing(s, n) /\ n.tdi = s.tdi
         /\ n.auth = s.auth /\ n.wait = w /\ n.quit = s.quit
<1>1. n \in ServerRecord /\ n.wait = w
  BY DEF Waiting, ServerRecord
<1> QED
  BY <1>1 DEF Waiting, Standing

\* What a packet has to say for the server to expect it.
Expected(s, p, y) == Hears(Now(s), p, y) /\ s.auth \in {1, 2} /\ s.quit # 3

\* What it comes to: the view y, and nothing else.
Following(s, n, y) ==
  /\ n.open = s.open /\ Standing(s, n)
  /\ n.wait = s.wait /\ n.quit = s.quit /\ n.tdi = y.tdi /\ n.auth = y.auth

\* Or the end of the connection.
Faulted(s, n) == ~n.open /\ n.quit = 0 /\ \A u \in Tasks : n.tes[u] = "ok" => s.tes[u] = "ok"

Resolving(s, p, n, y) ==
  /\ n.open = s.open /\ Standing(s, n)
  /\ n.tdi = y.tdi /\ n.auth = y.auth
  /\ n.wait = IF p.what = NoMoreTasks THEN s.wait ELSE Tail(s.wait)
  /\ n.quit = 3 => p.what = "ClientQuit"

\* The client's greeting.
LEMMA HeardGreeting ==
  ASSUME NEW s \in ServerRecord, ServerSane(s), s.open = TRUE, NEW p, NEW y,
         Expected(s, p, y), p.cmd = "NowConnected", NEW n, n = ParseNowConnected(s)
  PROVE  n \in ServerRecord /\ ServerSane(n) /\ Following(s, n, y)
<1>1. n = Auth(s, 2)
  BY DEF ParseNowConnected, Auth
<1>2. /\ n \in ServerRecord /\ Standing(s, n) /\ n.auth = 2
      /\ n.tdi = s.tdi /\ n.wait = s.wait /\ n.quit = s.quit
  BY <1>1, AuthIs
<1>3. y.tdi = s.tdi /\ y.auth = 2
  BY DEF Expected, Hears, Now
<1>4. ServerSane(n)
  BY <1>2, StandingSane
<1> QED
  BY <1>2, <1>3, <1>4 DEF Standing, Following

\* The report of a task begins.
LEMMA HeardReport ==
  ASSUME NEW s \in ServerRecord, ServerSane(s), s.open = TRUE, NEW p \in Packets, NEW y,
         Expected(s, p, y), p.cmd = "TaskDone", y.tdi \in Getting,
         s.list[p.task] = "proc", NEW n, n = ParseTaskDone(s, p)
  PROVE  n \in ServerRecord /\ ServerSane(n) /\ Following(s, n, y)
<1>1. /\ s.tdi.task = NoTask /\ s.auth = 2 /\ y.auth = 2
      /\ y.tdi = [task |-> p.task, state |-> "WaitForResp", save |-> p.what, got |-> 0]
  BY DEF Expected, Hears, Now
<1>2. n = Collecting(s, y.tdi)
  BY <1>1 DEF ParseTaskDone, Collecting
<1>3. /\ n \in ServerRecord /\ Standing(s, n) /\ n.tdi = y.tdi
      /\ n.auth = s.auth /\ n.wait = s.wait /\ n.quit = s.quit
  BY <1>2, CollectingIs
<1>4. ServerSane(n)
  BY <1>1, <1>3, StandingSane
<1> QED
  BY <1>1, <1>3, <1>4 DEF Standing, Following

\* The header of an output file.
LEMMA HeardHeader ==
  ASSUME NEW s \in ServerRecord, ServerSane(s), s.open = TRUE, NEW p \in Packets, NEW y,
         Expected(s, p, y), p.cmd = "FileUpload", y.tdi \in Getting,
         p.task \in Tasks, NEW fault \in BOOLEAN, NEW n, n = ParseFileUpload(s, p, fault)
  PROVE  /\ n \in ServerRecord /\ ServerSane(n)
         /\ Faulted(s, n) \/ Following(s, n, y)
<1>1. /\ s.tdi.state = "WaitForResp" /\ s.tdi.task = p.task /\ s.auth = 2 /\ y.auth = 2
      /\ y.tdi = [s.tdi EXCEPT !.state = "UploadBody"]
  BY DEF Expected, Hears, Now
<1>2. CASE fault
  <2>1. n = KickFailed(s, p.task)
    BY <1>1, <1>2 DEF ParseFileUpload
  <2>2. /\ n \in ServerRecord /\ ServerSane(n) /\ ~n.open /\ n.quit = 0
        /\ \A u \in Tasks : n.tes[u] = "ok" => s.tes[u] = "ok"
    BY <2>1, KickFailedSane
  <2> QED
    BY <2>2 DEF Faulted
<1>3. CASE ~fault
  <2>1. n = Collecting(s, y.tdi)
    BY <1>1, <1>3 DEF ParseFileUpload, Collecting
  <2>2. /\ n \in ServerRecord /\ Standing(s, n) /\ n.tdi = y.tdi
        /\ n.auth = s.auth /\ n.wait = s.wait /\ n.quit = s.quit
    BY <2>1, CollectingIs
  <2>3. ServerSane(n)
    BY <1>1, <2>2, StandingSane
  <2> QED
    BY <1>1, <2>2, <2>3 DEF Standing, Following
<1> QED
  BY <1>2, <1>3

\* The body of an output file.
LEMMA HeardBody ==
  ASSUME NEW s \in ServerRecord, ServerSane(s), s.open = TRUE, NEW p, NEW y,
         Expected(s, p, y), p.cmd = "FileBody", y.tdi \in Getting, NEW n, n = UploadDone(s)
  PROVE  n \in ServerRecord /\ ServerSane(n) /\ Following(s, n, y)
<1>1. /\ s.auth = 2 /\ y.auth = 2
      /\ y.tdi = [s.tdi EXCEPT !.state = "WaitForResp", !.got = @ + 1]
  BY DEF Expected, Hears, Now
<1>2. n = Collecting(s, y.tdi)
  BY <1>1 DEF UploadDone, Collecting
<1>3. /\ n \in ServerRecord /\ Standing(s, n) /\ n.tdi = y.tdi
      /\ n.auth = s.auth /\ n.wait = s.wait /\ n.quit = s.quit
  BY <1>2, CollectingIs
<1>4. ServerSane(n)
  BY <1>1, <1>3, StandingSane
<1> QED
  BY <1>1, <1>3, <1>4 DEF Standing, Following

\* A notice, or the answer to an order.
LEMMA HeardAnswer ==
  ASSUME NEW s \in ServerRecord, ServerSane(s), s.open = TRUE, NEW p \in Packets, NEW y,
         Expected(s, p, y), p.cmd = "ControlResponse",
         p.what # NoMoreTasks => s.wait # <<>> /\ p.what = Head(s.wait),
         NEW n, n = ParseControlResponse(s, p)
  PROVE  n \in ServerRecord /\ ServerSane(n) /\ Resolving(s, p, n, y)
<1> DEFINE w == Tail(s.wait)  a == Waiting(s, w)
           b == [s EXCEPT !.noMore = TRUE]  k == KickMe(s, "protocol")
           c == [a EXCEPT !.quit = 3]
<1>1. s.auth = 2 /\ y.auth = 2 /\ y.tdi = s.tdi
  BY DEF Expected, Hears, Now
<1>2. n = CASE p.what = NoMoreTasks -> b
            [] p.what # NoMoreTasks /\ ~Answers(s, p.what) -> k
            [] p.what = "ClientQuit" /\ Answers(s, p.what) -> c
            [] OTHER -> a
  BY DEF ParseControlResponse, Waiting
<1>3. p.what # NoMoreTasks => Answers(s, p.what)
  BY DEF Answers
<1>4. "ClientQuit" # NoMoreTasks
  BY DEF NoMoreTasks
<1> HIDE DEF a, b, c, k
<1>5. \/ p.what = NoMoreTasks /\ n = b
      \/ p.what # NoMoreTasks /\ p.what = "ClientQuit" /\ n = c
      \/ p.what # NoMoreTasks /\ n = a
  BY <1>2, <1>3, <1>4
<1>6. CASE p.what = NoMoreTasks /\ n = b
  <2>1. n = Noticed(s)
    BY <1>6 DEF b, Noticed
  <2>2. /\ n \in ServerRecord /\ Standing(s, n) /\ n.tdi = s.tdi
        /\ n.auth = s.auth /\ n.wait = s.wait /\ n.quit = s.quit
    BY <2>1, NoticedIs
  <2>3. ServerSane(n)
    BY <1>1, <2>2, StandingSane
  <2> QED
    BY <1>1, <1>6, <2>2, <2>3 DEF Standing, Expected, Resolving
<1>7. p.what # NoMoreTasks =>
        /\ a \in ServerRecord /\ Standing(s, a) /\ a.tdi = s.tdi
        /\ a.auth = s.auth /\ a.wait = w /\ a.quit = s.quit
  <2> SUFFICES ASSUME p.what # NoMoreTasks
               PROVE /\ a \in ServerRecord /\ Standing(s, a) /\ a.tdi = s.tdi
                     /\ a.auth = s.auth /\ a.wait = w /\ a.quit = s.quit
    OBVIOUS
  <2>1. w \in Seq(Orders)
    <3>1. s.wait \in Seq(Orders) /\ s.wait # <<>>
      BY ServerRead
    <3> QED
      BY <3>1
  <2>2. a = Waiting(s, w)
    BY DEF a
  <2> HIDE DEF w
  <2> QED
    BY <2>1, <2>2, WaitingIs
<1>8. CASE p.what # NoMoreTasks /\ n = a
  <2>1. ServerSane(n)
    BY <1>1, <1>7, <1>8, StandingSane
  <2> QED
    BY <1>1, <1>7, <1>8, <2>1 DEF Standing, Expected, Resolving
<1>9. CASE p.what # NoMoreTasks /\ p.what = "ClientQuit" /\ n = c
  <2>1. n = SetQuit(a, 3)
    BY <1>9 DEF c, SetQuit
  <2>2. 3 \in 0..3
    OBVIOUS
  <2>3. /\ n \in ServerRecord /\ Aside(a, n) /\ n.quit = 3 /\ n.send = a.send
        /\ n.wait = a.wait /\ n.tri = a.tri /\ n.out = a.out /\ n.lock = a.lock
    BY <1>7, <1>9, <2>1, <2>2, QuitIs
  <2>4. Standing(s, n) /\ n.tdi = s.tdi /\ n.auth = s.auth
    BY <1>7, <1>9, <2>3 DEF Standing, Aside
  <2>5. ServerSane(n)
    BY <1>1, <2>4, StandingSane
  <2> QED
    BY <1>1, <1>7, <1>9, <2>3, <2>4, <2>5 DEF Standing, Resolving
<1> QED
  BY <1>5, <1>6, <1>8, <1>9

Settled(s, e, j, l) == [s EXCEPT !.tes = e, !.jobs = j, !.tdi = NoTdi, !.list = l]

\* A task that came back is settled in the list and no longer counted.
LEMMA SettledIs ==
  ASSUME NEW s \in ServerRecord, NEW l \in [Tasks -> {"todo", "proc", "done"}],
         NEW e \in [Tasks -> Verdicts], NEW j \in Int, NEW n, n = Settled(s, e, j, l)
  PROVE  /\ n \in ServerRecord /\ n.list = l /\ n.tes = e /\ n.jobs = j /\ n.tdi = NoTdi
         /\ n.open = s.open /\ n.auth = s.auth /\ n.quit = s.quit /\ n.tri = s.tri
         /\ n.out = s.out /\ n.lock = s.lock /\ n.send = s.send
         /\ n.wait = s.wait /\ n.why = s.why
<1>1. n \in ServerRecord
  BY Nothing DEF Settled, ServerRecord
<1>2. n.list = l /\ n.tes = e /\ n.jobs = j /\ n.tdi = NoTdi
  BY DEF Settled, ServerRecord
<1> QED
  BY <1>1, <1>2 DEF Settled

\* What the end of a report comes to.
Completing(s, p, n, y) ==
  /\ n.open = s.open /\ n.tri = s.tri /\ n.wait = s.wait /\ n.quit = s.quit
  /\ n.tdi = y.tdi /\ n.auth = y.auth
  /\ n.list[p.task] # "proc" /\ \A u \in Tasks : u # p.task => n.list[u] = s.list[u]
  /\ \A u \in Tasks : n.tes[u] = "ok" /\ s.tes[u] # "ok" => s.tdi.got = Uploads[u]

\* What the client asks about the task it receives.
Inquiring(s, p, n, y) ==
  /\ n.open = s.open /\ Aside(s, n)
  /\ n.wait = s.wait /\ n.quit = s.quit /\ n.tdi = y.tdi /\ n.auth = y.auth
  /\ \/ /\ p.cmd = "FileRequest" /\ n.tri.task = s.tri.task
        /\ n.tri.state = "SendFileDownloadH" /\ n.tri.n = p.n
     \/ p.cmd = "TaskResponse" /\ n.tri = NoTri

\* A report is complete: the task is done, or to be done again.
LEMMA HeardComplete ==
  ASSUME NEW s \in ServerRecord, ServerSane(s), s.open = TRUE, NEW p \in Packets, NEW y,
         Expected(s, p, y), p.cmd = "DoneComplete",
         p.task \in Tasks, s.list[p.task] = "proc", NEW n, n = ParseDoneComplete(s, p)
  PROVE  n \in ServerRecord /\ ServerSane(n) /\ Completing(s, p, n, y)
<1> DEFINE e == [s.tes EXCEPT ![p.task] = s.tdi.save]  j == s.jobs - 1
           v == IF s.tdi.save = "unset" THEN "todo" ELSE "done"
           l == [s.list EXCEPT ![p.task] = v]
<1>1. /\ s.tdi.state = "WaitForResp" /\ s.tdi.task = p.task
      /\ s.tdi.save = "ok" => s.tdi.got = Uploads[p.task]
      /\ y.tdi = NoTdi /\ y.auth = 2 /\ s.auth = 2
  BY DEF Expected, Hears, Now
<1>2. n = Settled(s, e, j, l)
  BY <1>1 DEF ParseDoneComplete, Settled
<1>3. /\ s.list \in [Tasks -> {"todo", "proc", "done"}] /\ s.tes \in [Tasks -> Verdicts]
      /\ s.jobs \in Int /\ s.tdi.save \in Verdicts
  BY ServerRead DEF Getting
<1>4. v \in {"todo", "done"}
  OBVIOUS
<1> HIDE DEF v
<1>5. /\ l \in [Tasks -> {"todo", "proc", "done"}] /\ l[p.task] # "proc"
      /\ \A u \in Tasks : u # p.task => l[u] = s.list[u]
  BY <1>3, <1>4
<1>6. /\ e \in [Tasks -> Verdicts]
      /\ \A u \in Tasks : e[u] = "ok" /\ s.tes[u] # "ok" => u = p.task /\ s.tdi.save = "ok"
  BY <1>3
<1>7. j \in Int /\ j = s.jobs - 1
  BY <1>3
<1> HIDE DEF e, j, l
<1>8. /\ n \in ServerRecord /\ n.list = l /\ n.tes = e /\ n.jobs = j /\ n.tdi = NoTdi
      /\ n.open = s.open /\ n.auth = s.auth /\ n.quit = s.quit /\ n.tri = s.tri
      /\ n.out = s.out /\ n.lock = s.lock /\ n.send = s.send
      /\ n.wait = s.wait /\ n.why = s.why
  BY <1>2, <1>5, <1>6, <1>7, SettledIs
<1>9. /\ IsFiniteSet(Assigned(s)) /\ s.jobs = Cardinality(Assigned(s))
      /\ p.task \in Assigned(s) /\ Assigned(n) = Assigned(s) \ {p.task}
  <2>1. p.task \in Assigned(s)
    BY DEF Assigned
  <2>2. Assigned(n) = Assigned(s) \ {p.task}
    BY <1>5, <1>8 DEF Assigned
  <2> QED
    BY <2>1, <2>2 DEF ServerSane
<1>10. IsFiniteSet(Assigned(n)) /\ n.jobs = Cardinality(Assigned(n))
  <2>1. IsFiniteSet(Assigned(s) \ {p.task})
        /\ Cardinality(Assigned(s) \ {p.task}) = Cardinality(Assigned(s)) - 1
    BY <1>9, FS_RemoveElement
  <2> QED
    BY <2>1, <1>7, <1>8, <1>9
<1>11. n.jobs <= TodoHigh + NJobs
  <2>1. s.jobs <= TodoHigh + NJobs /\ TodoHigh + NJobs \in Int
    BY LdrAssumption DEF ServerSane
  <2> QED
    BY <2>1, <1>3, <1>7, <1>8
<1>12. ServerOut(n)
  BY <1>8 DEF ServerSane, ServerOut
<1>13. ServerSane(n)
  BY <1>1, <1>8, <1>10, <1>11, <1>12 DEF ServerSane
<1>14. \A u \in Tasks : n.tes[u] = "ok" /\ s.tes[u] # "ok" => s.tdi.got = Uploads[u]
  BY <1>1, <1>6, <1>8
<1> QED
  BY <1>1, <1>5, <1>8, <1>13, <1>14 DEF Completing

\* An input file is asked for.
LEMMA HeardRequest ==
  ASSUME NEW s \in ServerRecord, ServerSane(s), s.open = TRUE, NEW p \in Packets, NEW y,
         Expected(s, p, y), p.cmd = "FileRequest",
         s.tri.state = "WaitForResponse", s.tri.task = p.task,
         NEW fault \in BOOLEAN, NEW n, n = ParseFileRequest(s, p, fault)
  PROVE  /\ n \in ServerRecord /\ ServerSane(n)
         /\ Faulted(s, n) \/ Inquiring(s, p, n, y)
<1>1. s.auth = 2 /\ y.auth = 2 /\ y.tdi = s.tdi
  BY DEF Expected, Hears, Now
<1>2. s.tri.task # NoTask /\ s.tri \in Sending
  BY ServerRead DEF ServerSane
<1>3. CASE fault
  <2>1. n = KickFailed(s, p.task)
    BY <1>2, <1>3 DEF ParseFileRequest
  <2>2. p.task \in Tasks
    BY <1>2 DEF Sending, Held
  <2>3. /\ n \in ServerRecord /\ ServerSane(n) /\ ~n.open /\ n.quit = 0
        /\ \A u \in Tasks : n.tes[u] = "ok" => s.tes[u] = "ok"
    BY <2>1, <2>2, KickFailedSane
  <2> QED
    BY <2>3 DEF Faulted
<1>4. CASE ~fault
  <2> DEFINE x == [s.tri EXCEPT !.state = "SendFileDownloadH"]  t == [x EXCEPT !.n = p.n]
  <2>1. n = Handing(s, t)
    BY <1>2, <1>4 DEF ParseFileRequest, Handing
  <2>2. x \in Sending /\ x.task = s.tri.task /\ x.state = "SendFileDownloadH"
    BY <1>2 DEF Sending
  <2> HIDE DEF x
  <2>3. p.n \in Nat
    BY DEF Packets
  <2>4. t \in Sending /\ t.task = s.tri.task /\ t.state = "SendFileDownloadH" /\ t.n = p.n
    BY <2>2, <2>3 DEF Sending
  <2> HIDE DEF t
  <2>5. /\ n \in ServerRecord /\ Aside(s, n) /\ n.tri = t /\ n.out = s.out
        /\ n.lock = s.lock /\ n.send = s.send /\ n.wait = s.wait /\ n.quit = s.quit
    BY <2>1, <2>4, HandingIs
  <2>6. ServerOut(n)
    BY <2>4, <2>5 DEF ServerSane, ServerOut
  <2>7. ServerSane(n)
    BY <1>2, <2>4, <2>5, <2>6, AsideSane
  <2> QED
    BY <1>1, <2>4, <2>5, <2>7 DEF Aside, Inquiring
<1> QED
  BY <1>3, <1>4

\* The task is accepted.
LEMMA HeardAccepted ==
  ASSUME NEW s \in ServerRecord, ServerSane(s), s.open = TRUE, NEW p \in Packets, NEW y,
         Expected(s, p, y), p.cmd = "TaskResponse", p.what = "Accepted",
         s.tri.state = "WaitForResponse", s.tri.task = p.task,
         NEW n, n = ParseTaskResponse(s, p)
  PROVE  n \in ServerRecord /\ ServerSane(n) /\ Inquiring(s, p, n, y)
<1>1. s.auth = 2 /\ y.auth = 2 /\ y.tdi = s.tdi
  BY DEF Expected, Hears, Now
<1>2. s.tri.task # NoTask
  BY DEF ServerSane
<1>3. n = Handing(s, NoTri)
  BY <1>2 DEF ParseTaskResponse, Handing
<1>4. /\ n \in ServerRecord /\ Aside(s, n) /\ n.tri = NoTri /\ n.out = s.out
      /\ n.lock = s.lock /\ n.send = s.send /\ n.wait = s.wait /\ n.quit = s.quit
  BY <1>3, Nothing, HandingIs
<1>5. NoTri.task = NoTask /\ NoTri.state = "None"
  BY DEF NoTri
<1>6. ServerOut(n)
  BY <1>4, <1>5 DEF ServerSane, ServerOut
<1>7. ServerSane(n)
  BY <1>4, <1>5, <1>6, AsideSane
<1> QED
  BY <1>1, <1>4, <1>7 DEF Aside, Inquiring

\* The packet p is parsed by m.
Parses(s, p, fault, m) ==
  /\ p.cmd = "NowConnected" => m = ParseNowConnected(s)
  /\ p.cmd = "FileBody" => m = UploadDone(s)
  /\ p.cmd = "FileRequest" => m = ParseFileRequest(s, p, fault)
  /\ p.cmd = "TaskResponse" => m = ParseTaskResponse(s, p)
  /\ p.cmd = "TaskDone" => m = ParseTaskDone(s, p)
  /\ p.cmd = "FileUpload" => m = ParseFileUpload(s, p, fault)
  /\ p.cmd = "DoneComplete" => m = ParseDoneComplete(s, p)
  /\ p.cmd = "ControlResponse" => m = ParseControlResponse(s, p)

Parsed(s, p, fault, n) ==
  \E m : n = (IF m.open THEN ServerSends(m) ELSE m) /\ Parses(s, p, fault, m)

\* The packet is handled, and something written next.
LEMMA HearingIs ==
  ASSUME NEW s \in ServerRecord, s.open = TRUE, NEW p, NEW y, Expected(s, p, y),
         NEW fault, NEW n, n = ReceiveOnServer(s, p, fault)
  PROVE  Parsed(s, p, fault, n)
<1> DEFINE body == s.tdi.state = "UploadBody"
           k0 == KickMe(s, "protocol")  k1 == UploadDone(s)  k2 == ParseNowConnected(s)
           k3 == ParseFileRequest(s, p, fault)  k4 == ParseTaskResponse(s, p)
           k5 == ParseTaskDone(s, p)  k6 == ParseFileUpload(s, p, fault)
           k7 == ParseDoneComplete(s, p)  k8 == ParseControlResponse(s, p)
           m == CASE s.quit = 3 \/ body # (p.cmd = "FileBody")
                      \/ (s.auth = 1) # (p.cmd = "NowConnected") -> k0
                  [] s.quit # 3 /\ body /\ p.cmd = "FileBody" -> k1
                  [] s.quit # 3 /\ s.auth = 1 /\ p.cmd = "NowConnected" -> k2
                  [] s.quit # 3 /\ s.auth = 2 /\ ~body /\ p.cmd = "FileRequest" -> k3
                  [] s.quit # 3 /\ s.auth = 2 /\ ~body /\ p.cmd = "TaskResponse" -> k4
                  [] s.quit # 3 /\ s.auth = 2 /\ ~body /\ p.cmd = "TaskDone" -> k5
                  [] s.quit # 3 /\ s.auth = 2 /\ ~body /\ p.cmd = "FileUpload" -> k6
                  [] s.quit # 3 /\ s.auth = 2 /\ ~body /\ p.cmd = "DoneComplete" -> k7
                  [] s.quit # 3 /\ s.auth = 2 /\ ~body /\ p.cmd = "ControlResponse" -> k8
<1>1. n = IF m.open THEN ServerSends(m) ELSE m
  BY DEF ReceiveOnServer
<1>2. /\ s.quit # 3 /\ s.auth \in {1, 2} /\ (body <=> p.cmd = "FileBody")
      /\ s.auth = 1 <=> p.cmd = "NowConnected"
  BY DEF Expected, Hears, Now
<1> HIDE DEF k0, k1, k2, k3, k4, k5, k6, k7, k8, body
<1>3. /\ p.cmd = "NowConnected" => m = k2
      /\ p.cmd = "FileBody" => m = k1
      /\ p.cmd = "FileRequest" => m = k3
      /\ p.cmd = "TaskResponse" => m = k4
      /\ p.cmd = "TaskDone" => m = k5
      /\ p.cmd = "FileUpload" => m = k6
      /\ p.cmd = "DoneComplete" => m = k7
      /\ p.cmd = "ControlResponse" => m = k8
  BY <1>2
<1> HIDE DEF m
<1> QED
  BY <1>1, <1>3 DEF Parsed, Parses, k1, k2, k3, k4, k5, k6, k7, k8
=============================================================================
