------------------------------ MODULE TaskData ------------------------------
(***************************************************************************)
(* The data RendView's components pass around: the tasks of one run (one    *)
(* CompleteTask per frame), the results a job leaves in them, and the       *)
(* record of members that the task manager, the local driver interface and  *)
(* the local task source keep.  The program is single-threaded: a callback  *)
(* runs to its end on the stack of its caller, so a component's member      *)
(* function is an operator from such a record to such a record, and only    *)
(* module RendView has variables.                                           *)
(***************************************************************************)
EXTENDS Integers, Sequences, FiniteSets

CONSTANTS
  NFrames,       \* frames 1..NFrames are what the local source hands out
  RenderFrames,  \* the frames whose task has a render part (rt # NULL)
  FilterFrames,  \* the frames whose task has a filter part (ft # NULL)
  NJobs,         \* parallel jobs (-ld-njobs)
  MaxRender,     \* parallel render jobs (-ld-rjobs-max)
  MaxFilter,     \* parallel filter jobs
  TodoLow, TodoHigh, DoneHigh,   \* queue thresholds
  MaxFailed,     \* max_failed_in_sequence; 0 switches the feature off
  LoadControl    \* is load control in use (load_low_thresh > 0)?

Frames == 1..NFrames

\* What TaskDriverInterfaceFactory_Local::FinalInit() enforces (low >= 1,
\* high > low, done >= 1), and that a task has at least one part.
ASSUME ConfigAssumption ==
  /\ NFrames \in Nat
  /\ RenderFrames \subseteq Frames
  /\ FilterFrames \subseteq Frames
  /\ RenderFrames \cup FilterFrames = Frames
  /\ NJobs \in Nat \ {0} /\ MaxRender \in Nat \ {0} /\ MaxFilter \in Nat \ {0}
  /\ TodoLow \in Nat \ {0} /\ TodoHigh \in Nat /\ TodoLow < TodoHigh
  /\ DoneHigh \in Nat \ {0}
  /\ MaxFailed \in Nat
  /\ LoadControl \in BOOLEAN

NoTask == 0                       \* the NULL of a CompleteTask pointer

Stages  == {"TaskDone", "ToBeRendered", "ToBeFiltered"}
Kinds   == {"Render", "Filter"}   \* DTRender, DTFilter
Reasons == {"NotKilled", "UserIntr", "Timeout"}      \* TTR_JK_*
Actions == {"ANone", "AConnect", "AGetTask", "ADoneTask", "ADisconnect"}
Loads   == {"low", "mid", "high"} \* below the low, between, above the high mark
Readings == IF LoadControl THEN Loads ELSE {"low"}   \* what a handler may read

\* TaskExecutionStatus: how the job ended, whether we killed it, and whether
\* the output file it left can be resumed (OFS_Resume).
Tes   == [end : {"Unset", "Success", "Failed"}, jk : Reasons, resume : BOOLEAN]
Unset == [end |-> "Unset", jk |-> "NotKilled", resume |-> FALSE]

\* The members.  todo is a list in which rendered tasks are inserted at the
\* beginning and fresh tasks appended, so it always is refilter \o fresh.
Members ==
  [ started  : BOOLEAN,                     \* tasksource() # NULL
    refilter : Seq(Frames), fresh : Seq(Frames),
    proc     : SUBSET Frames, done : Seq(Frames),
    stage    : [Frames -> Stages],          \* CompleteTask::state
    rtes     : [Frames -> Tes], ftes : [Frames -> Tes],
    job      : [Frames -> {"none", "launched", "running"}],
    killed   : [Frames -> Reasons],         \* rflags of the running job
    nrun     : [Kinds -> Int],              \* running_jobs[]
    dead     : SUBSET {"forked", "unforked"},
                       \* drivers in joblist that called DeleteMe(); "forked"
                       \* ones have a process id
    sfs      : Frames \cup {NoTask},        \* scheduled_for_start
    dsmt     : BOOLEAN,                     \* dont_start_more_tasks
    sq       : 0..2, sqa : 0..2,            \* schedule_quit(_after)
    killTasks: BOOLEAN,                     \* sched_kill_tasks
    toldIf   : BOOLEAN, toldTs : BOOLEAN,   \* told_{interface,tasksource}_to_quit
    connected: BOOLEAN,                     \* connected_to_tsource
    pending  : Actions, tsgod : Actions,    \* pending_action, tsgod_next_action
    nth      : 0..2,                        \* nth_call_to_get_task (2: several)
    tdaf     : BOOLEAN,                     \* ts_done_all_first
    failed   : Nat,                         \* jobs_failed_in_sequence
    caught   : 0..2, abortOn : BOOLEAN,     \* caught_sigint, abort_on_signal
    stopped  : BOOLEAN,                     \* exec_stop_status = ESS_Stopped
    load     : BOOLEAN, poll : BOOLEAN,     \* load_permits_starting, tid_load_poll
    tid0     : BOOLEAN,                     \* the schedule timer is armed
    quitStep : 0..5, status : 0..2,         \* _actually_quit_step, _status
    srcConn  : BOOLEAN, srcPend : Actions,  \* TaskSource_Local: connected, pending
    srcDone  : Frames \cup {NoTask}, srcQuit : BOOLEAN,
    next     : Nat \ {0},                   \* next_frame_no
    crash    : {"none", "assert", "nullif", "nulltask", "abort"} ]

\* The members as the constructors leave them: the schedule timer is armed
\* and the source does not exist yet.
Fresh ==
  [ started |-> FALSE, refilter |-> <<>>, fresh |-> <<>>, proc |-> {},
    done |-> <<>>, stage |-> [t \in Frames |-> "TaskDone"],
    rtes |-> [t \in Frames |-> Unset], ftes |-> [t \in Frames |-> Unset],
    job |-> [t \in Frames |-> "none"],
    killed |-> [t \in Frames |-> "NotKilled"],
    nrun |-> [k \in Kinds |-> 0], dead |-> {}, sfs |-> NoTask,
    dsmt |-> FALSE, sq |-> 0, sqa |-> 0, killTasks |-> FALSE,
    toldIf |-> FALSE, toldTs |-> FALSE, connected |-> FALSE,
    pending |-> "ANone", tsgod |-> "ANone", nth |-> 0, tdaf |-> FALSE,
    failed |-> 0, caught |-> 0, abortOn |-> FALSE, stopped |-> FALSE,
    load |-> TRUE, poll |-> FALSE, tid0 |-> TRUE, quitStep |-> 0, status |-> 0,
    srcConn |-> FALSE, srcPend |-> "ANone", srcDone |-> NoTask,
    srcQuit |-> FALSE, next |-> 1, crash |-> "none" ]

\* A failed assert() or a bad pointer ends the program; the first one counts.
Die(s, how)     == IF s.crash = "none" THEN [s EXCEPT !.crash = how] ELSE s
Check(s, cond)  == IF cond THEN s ELSE Die(s, "assert")

Todo(s)      == s.refilter \o s.fresh
TodoEmpty(s) == s.refilter = <<>> /\ s.fresh = <<>>
AllIdle(s)   == TodoEmpty(s) /\ s.proc = {}
Quitting(s)  == s.sq > 0 \/ s.sqa > 0
KindOf(s, t) == IF s.stage[t] = "ToBeRendered" THEN "Render" ELSE "Filter"

\* The list q without its member t.
Without(q, t) ==
  IF \E i \in DOMAIN q : q[i] = t
  THEN LET i == CHOOSE i \in DOMAIN q : q[i] = t
       IN  SubSeq(q, 1, i - 1) \o SubSeq(q, i + 1, Len(q))
  ELSE q

\* The first member of q in S, NoTask when there is none.
FirstIn(q, S) ==
  LET E == {i \in DOMAIN q : q[i] \in S}
  IN  IF \E i \in E : \A j \in E : i <= j
      THEN q[CHOOSE i \in E : \A j \in E : i <= j]
      ELSE NoTask
=============================================================================
