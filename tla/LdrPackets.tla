----------------------------- MODULE LdrPackets -----------------------------
(***************************************************************************)
(* What an LDR server and one of its clients say to each other.  A packet   *)
(* is a record; a file travels as two units, its header and its body.  The  *)
(* copy pumps report "written" and "read" on the stack of the last write or *)
(* read, so a packet becomes visible to the peer in the step in which its   *)
(* sender learns that it is out.                                            *)
(***************************************************************************)
EXTENDS Integers, Sequences, FiniteSets

CONSTANTS
  Tasks,       \* the tasks of the run, numbered from 1
  Downloads,   \* [Tasks -> Nat]: input files the client asks for
  Uploads,     \* [Tasks -> Nat]: output files a processed task leaves
  NJobs,       \* parallel jobs of the client
  TodoLow, TodoHigh, DoneHigh,   \* the client's queue thresholds
  Commands,    \* the control commands the server may send
  MaxCommands, \* bound: commands sent in a behaviour
  MaxLosses,   \* bound: connections lost in a behaviour
  FileFaults   \* can opening a file fail?

ASSUME LdrAssumption ==
  /\ Tasks \subseteq Nat \ {0}
  /\ Downloads \in [Tasks -> Nat] /\ Uploads \in [Tasks -> Nat]
  /\ NJobs \in Nat \ {0} /\ TodoLow \in Nat \ {0} /\ DoneHigh \in Nat \ {0}
  /\ TodoHigh \in Nat /\ TodoLow < TodoHigh
  /\ Commands \subseteq {"Kill", "StopJobs", "ContJobs", "GiveBackTasks", "ClientQuit"}
  /\ MaxCommands \in Nat /\ MaxLosses \in Nat
  /\ FileFaults \in BOOLEAN

NoTask == 0
Held   == Tasks \cup {NoTask}            \* a CompleteTask pointer

\* How a task's execution status reads: unset, success, failure.
Verdicts == {"unset", "ok", "failed"}

Packet(cmd, t, n, what) == [cmd |-> cmd, task |-> t, n |-> n, what |-> what]

NowConnected         == Packet("NowConnected", NoTask, 0, "")
TaskRequest(t)       == Packet("TaskRequest", t, 0, "")
TaskResponse(t, r)   == Packet("TaskResponse", t, 0, r)
FileRequest(t, n)    == Packet("FileRequest", t, n, "")
FileDownload(t, n)   == Packet("FileDownload", t, n, "")
TaskDone(t, v)       == Packet("TaskDone", t, 0, v)
FileUpload(t, n)     == Packet("FileUpload", t, n, "")
DoneComplete(t)      == Packet("DoneComplete", t, 0, "")
ControlRequest(cmd)  == Packet("ControlRequest", NoTask, 0, cmd)
ControlResponse(cmd) == Packet("ControlResponse", NoTask, 0, cmd)
FileBody             == Packet("FileBody", NoTask, 0, "")
NoPacket             == Packet("none", NoTask, 0, "")

\* The client's own "no more tasks" travels as a control response.
NoMoreTasks == "CN_NoMoreTasks"

----------------------------------------------------------------------------
(* CommandQueue: commands to send, and commands that wait for an answer,    *)
(* in the fields send and wait of a record q.  The limit of 16 entries is   *)
(* out of reach: a behaviour has at most MaxCommands commands.              *)

\* EntryProcessed() on the server: it now waits for its answer.
EntrySent(q) == [q EXCEPT !.send = Tail(@), !.wait = Append(@, Head(q.send))]

\* EntryProcessed() on the client: the answer may go out.
EntryProcessed(q, cmd) == [q EXCEPT !.send = Append(@, cmd)]

\* RespRemoveEntry() returns 0: the answer is for the oldest command.
Answers(q, cmd) == q.wait # <<>> /\ Head(q.wait) = cmd
=============================================================================
