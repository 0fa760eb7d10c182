---------------------------- MODULE LocalSource -----------------------------
(***************************************************************************)
(* The passive task source of opmode "rendview" (class TaskSource_Local):   *)
(* it accepts one request at a time and answers it from its own 0 msec      *)
(* timer.  The wrappers in TaskSource refuse a call while a request is      *)
(* outstanding (cclient is set); the task manager asserts that none is.     *)
(***************************************************************************)
EXTENDS TaskData

\* TaskSource::Connect() and TaskSource_Local::srcConnect()
TSConnect(s) ==
  LET r == Check(s, s.srcPend = "ANone" /\ ~s.srcConn)
  IN  [r EXCEPT !.srcPend = "AConnect", !.pending = "AConnect"]

\* TaskSource::GetTask() and srcGetTask()
TSGetTask(s) ==
  LET r == Check(s, s.srcPend = "ANone" /\ s.srcConn)
  IN  [r EXCEPT !.srcPend = "AGetTask", !.pending = "AGetTask",
                !.nth = IF @ = 0 THEN 1 ELSE 2]

\* TaskSource::DoneTask() and srcDoneTask()
TSDoneTask(s, t) ==
  LET r == Check(s, s.srcPend = "ANone" /\ s.srcConn)
  IN  [r EXCEPT !.srcPend = "ADoneTask", !.pending = "ADoneTask",
                !.srcDone = t]

\* TaskSource::Disconnect() and srcDisconnect(); quit is special=1
TSDisconnect(s, quit) ==
  LET r == Check(s, s.srcPend = "ANone" /\ (s.srcConn \/ quit))
  IN  [r EXCEPT !.srcPend = "ADisconnect", !.pending = "ADisconnect",
                !.srcQuit = quit]

\* The answer to AConnect: the local source always connects.
SrcConnected(s) == [s EXCEPT !.srcPend = "ANone", !.srcConn = TRUE]

\* The answer to AGetTask when frames are left: a new CompleteTask.
SrcHandOut(s) == [s EXCEPT !.srcPend = "ANone", !.next = @ + 1]

\* The answer to AGetTask when there is no frame left.
SrcNoTask(s) == [s EXCEPT !.srcPend = "ANone"]

\* Setting up the task fails (allocation, file collision); skips: that was
\* after next_frame_no had been advanced, so that frame is never offered again.
SrcGetFails(s, skips) ==
  [s EXCEPT !.srcPend = "ANone", !.next = IF skips THEN @ + 1 ELSE @]

\* The answer to ADoneTask: the source deletes the CompleteTask.
SrcTakeBack(s) ==
  [s EXCEPT !.srcPend = "ANone", !.srcDone = NoTask,
            !.stage[s.srcDone] = "TaskDone",
            !.rtes[s.srcDone] = Unset, !.ftes[s.srcDone] = Unset]

\* The answer to ADisconnect.
SrcDisconnected(s) ==
  [s EXCEPT !.srcPend = "ANone", !.srcConn = FALSE, !.srcQuit = FALSE]
=============================================================================
