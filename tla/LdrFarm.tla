------------------------------- MODULE LdrFarm -------------------------------
(***************************************************************************)
(* The LDR server's driver interface: class TaskDriverInterface_LDR.  It    *)
(* keeps the clients in a list, chooses which one works on which task, asks *)
(* clients to give tasks back and hands the user's stop, continue and kill  *)
(* on to them.  Operators are member functions as maps from the members     *)
(* before to the members after; what the interface calls in the task        *)
(* manager is in LdrManager.                                                *)
(***************************************************************************)
EXTENDS Integers, FiniteSets, SequencesExt

CONSTANTS
  NClients,                      \* clients 1..NClients are configured
  NFrames,                       \* the frames the source hands out
  RenderFrames, FilterFrames,    \* those with a render part, with a filter part
  CanRender, CanFilter,          \* the clients that support the render, filter desc
  CJobs,                         \* c_jobs, the CPUs of each client
  ClientHigh,                    \* c_task_thresh_high
  TodoLow, TodoHigh, DoneHigh,   \* queue thresholds of the interface
  Reconnects                     \* is a reconnect interval configured?

Clients == 1..NClients
Frames  == 1..NFrames

ASSUME FarmAssumption ==
  /\ NClients \in Nat \ {0} /\ NFrames \in Nat
  /\ RenderFrames \cup FilterFrames = Frames
  /\ CanRender \subseteq Clients /\ CanFilter \subseteq Clients
  /\ CJobs \in [Clients -> Nat \ {0}]
  /\ ClientHigh \in Nat /\ \A c \in Clients : ClientHigh >= CJobs[c]
  /\ TodoLow \in Nat \ {0} /\ TodoHigh \in Nat /\ TodoLow < TodoHigh
  /\ DoneHigh \in Nat \ {0}
  /\ Reconnects \in BOOLEAN

Nobody == 0    \* the NULL of an LDRClient pointer
NoTask == 0

\* LDRClient as the interface sees it.  A client that called DeleteMe() is
\* closed until the main loop tidies up; keep is _may_keep_value_sent.
NoClient ==
  [st |-> "gone", counted |-> FALSE, jobs |-> 0, sending |-> NoTask,
   noMore |-> FALSE, quit |-> FALSE, run |-> "Running", pend |-> 0,
   keep |-> "unsent"]

Connecting == [NoClient EXCEPT !.st = "connecting"]

\* The failed assertions and wrong branches of the program end the model.
Die(s, how)    == IF s.crash = "none" THEN [s EXCEPT !.crash = how] ELSE s
Check(s, cond) == IF cond THEN s ELSE Die(s, "assert")

Up(s)         == {c \in Clients : s.cl[c].st = "up"}
Closed(s)     == {c \in Clients : s.cl[c].st = "closed"}
Counted(s)    == {c \in Clients : s.cl[c].counted}     \* nclients, njobs
Held(s, c)    == {t \in Frames : s.ldrc[t] = c}
Processed(s, t) == s.stage[t] = "ToBeFiltered" /\ t \in RenderFrames

----------------------------------------------------------------------------
(* Who can do what *)

\* What is asked of a client that called DeleteMe() has the answers it had.
CanDoTask(s, c) ==
  /\ c # Nobody /\ s.cl[c].counted /\ s.cl[c].run = "Running"
  /\ s.cl[c].jobs < ClientHigh /\ s.cl[c].sending = NoTask
  /\ ~s.cl[c].noMore

\* What the client shall do of the task (shall_render, shall_filter).
Parts(s, t, c) ==
  {k \in {"render", "filter"} :
     CASE k = "render" -> s.stage[t] = "ToBeRendered" /\ c \in CanRender
       [] k = "filter" -> /\ t \in FilterFrames /\ c \in CanFilter
                          /\ s.stage[t] = "ToBeFiltered" \/ c \in CanRender}

\* _TestClientCanDoTask(): no, partly or fully.
Fit(s, t, c) ==
  IF ~CanDoTask(s, c) \/ Parts(s, t, c) = {} THEN 0
  ELSE IF s.stage[t] = "ToBeRendered" /\ t \in FilterFrames /\ c \notin CanFilter
       THEN 1 ELSE 2

Spare(s, c, scale) ==
  IF s.cl[c].jobs < CJobs[c]
  THEN (scale * (CJobs[c] - s.cl[c].jobs)) \div CJobs[c] ELSE 0

Points(s, t, c) ==
  (IF s.tight THEN 2 ELSE 100) * Fit(s, t, c)
    + Spare(s, c, IF s.tight THEN 200 ELSE 50)

\* The best client of a list, and of equals the first; p has the points of
\* those that come into question.
BestOf(list, p) ==
  IF DOMAIN p = {} THEN Nobody
  ELSE list[CHOOSE i \in DOMAIN p :
              \A j \in DOMAIN p : p[j] < p[i] \/ (p[j] = p[i] /\ i <= j)]

\* _FindClientForTask()
FindClientForTask(s, t) ==
  BestOf(s.list,
    [i \in {i \in DOMAIN s.list :
               /\ s.list[i] \notin Closed(s) /\ Fit(s, t, s.list[i]) > 0
               /\ s.tight => s.cl[s.list[i]].jobs < CJobs[s.list[i]]}
       |-> Points(s, t, s.list[i])])

\* What of a list is in S, in the list's order; a list without x.
Only(q, S) ==
  LET f[i \in 0..Len(q)] ==
        IF i = 0 THEN <<>>
        ELSE IF q[i] \in S THEN Append(f[i - 1], q[i]) ELSE f[i - 1]
  IN  f[Len(q)]
Without(q, x) == Only(q, ToSet(q) \ {x})

\* With quit scheduled only what was rendered may still be filtered.
Startable(s, t) == s.sq = 0 \/ Processed(s, t)

FirstOf(q, S) ==
  LET i == SelectInSeq(q, LAMBDA t : t \in S) IN IF i = 0 THEN NoTask ELSE q[i]

\* The first of the tasks S in todo that may be started.
FirstTodo(s, S) == FirstOf(s.todo, {t \in S : Startable(s, t)})

\* _FindTaskForClient(): a task the client can do fully goes before one it
\* can only do partly.
FindTaskForClient(s, c) ==
  LET full == {t \in Range(s.todo) : Fit(s, t, c) = 2 /\ Startable(s, t)}
  IN  FirstTodo(s, IF full # {} THEN full
                   ELSE {t \in Frames : Fit(s, t, c) = 1})

----------------------------------------------------------------------------
(* Orders to the clients *)

\* ScheduleGiveBackTasks(): may is what they may keep, nothing ("none") or
\* what they process ("running").  An order is not repeated to a client that
\* got no task since.
ScheduleGiveBackTasks(s, may) ==
  LET told == {c \in Clients :
                 /\ s.cl[c].st = "up" /\ s.cl[c].jobs > 0
                 /\ \/ s.cl[c].keep = "unsent"
                    \/ s.cl[c].keep = "running" /\ may = "none"}
  IN  [s EXCEPT !.cl = [c \in Clients |-> IF c \in told
                          THEN [s.cl[c] EXCEPT !.keep = may] ELSE s.cl[c]],
                !.recalled = @ \cup {t \in Frames : s.ldrc[t] \in told}]

\* TermAllJobs(): a client that is told to kill its jobs gives back the rest.
TermAllJobs(s) ==
  [s EXCEPT !.recalled = @ \cup {t \in Frames : s.ldrc[t] \in Up(s)}]

\* _DoQueueStopContForClient()
QueueStopCont(s, c, will) ==
  [s EXCEPT !.cl[c].pend = @ + 1, !.cl[c].run = will]

\* StopContTasks(): the manager's state depends on whether anybody was told.
StopContTasks(s, will) ==
  [s EXCEPT !.cl = [c \in Clients |-> IF c \in Up(s)
                      THEN [s.cl[c] EXCEPT !.pend = @ + 1, !.run = will]
                      ELSE s.cl[c]]]

----------------------------------------------------------------------------
(* GetTaskToStart() *)

\* Tasks above a client's CPUs are called back for one that needs some.
TakeAway(s) ==
  LET work == \E c \in Up(s) : CanDoTask(s, c) /\ s.cl[c].jobs < CJobs[c]
      over == \E c \in Up(s) : s.cl[c].jobs > CJobs[c]
  IN  IF s.tight /\ work /\ over THEN ScheduleGiveBackTasks(s, "none") ELSE s

\* Of the tasks for which there is a client (best) the first.
FirstWithClient(s, best) ==
  FirstTodo(s, {t \in Frames : best[t] # Nobody})

TaskWithBest(s, t, best) ==
  IF t = NoTask
  THEN [task |-> NoTask, s |-> TakeAway([s EXCEPT !.free = Nobody])]
  ELSE [task |-> t, s |-> [s EXCEPT !.free = best[t]]]

TaskForAnybody(s, best) == TaskWithBest(s, FirstWithClient(s, best), best)

\* A task for free_client (mine) comes first.
TaskFor(s, mine) ==
  IF mine # NoTask THEN [task |-> mine, s |-> s]
  ELSE TaskForAnybody(s, [t \in Frames |-> FindClientForTask(s, t)])

\* The choice: which task, and which client (free_client); a pair in task
\* and s.free.
GetTaskToStart(s) ==
  TaskFor(s, IF s.tight THEN NoTask ELSE FindTaskForClient(s, s.free))
=============================================================================
