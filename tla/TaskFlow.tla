------------------------------ MODULE TaskFlow ------------------------------
(***************************************************************************)
(* What the task manager promises, without its queues, timers and messages: *)
(* every task goes from its source through todo, proc and done back to the  *)
(* source, its render part is run before its filter part and each at most   *)
(* once, the gate for new work only ever closes, what is reported about a   *)
(* task is what happened to it, and the program exits when no task is under *)
(* way.  A step may move any number of tasks, because one callback of the   *)
(* program may.                                                             *)
(***************************************************************************)
EXTENDS Integers, FiniteSets

CONSTANTS Tasks, RenderTasks, FilterTasks, NJobs

ASSUME FlowAssumption ==
  /\ RenderTasks \subseteq Tasks /\ FilterTasks \subseteq Tasks
  /\ RenderTasks \cup FilterTasks = Tasks
  /\ NJobs \in Nat \ {0}

VARIABLES
  place,    \* where each task is
  render,   \* what became of its render part
  filter,   \* what became of its filter part
  verdict,  \* what the source was told about it
  gate,     \* "open": all work is started, "old": only the filtering of
            \* rendered tasks, "shut": nothing
  over      \* the program is exiting

flow == <<place, render, filter, verdict, gate, over>>

Places   == {"source", "todo", "proc", "done", "back"}
Outcomes == {"unset", "ok", "failed"}
Verdicts == {"no", "skipped", "complete", "partly", "unrendered",
             "unfiltered", "untouched"}
Gates    == {"open", "old", "shut"}

FlowTypeOK ==
  /\ place \in [Tasks -> Places]
  /\ render \in [Tasks -> Outcomes] /\ filter \in [Tasks -> Outcomes]
  /\ verdict \in [Tasks -> Verdicts]
  /\ gate \in Gates /\ over \in BOOLEAN

Init ==
  /\ place = [t \in Tasks |-> "source"]
  /\ render = [t \in Tasks |-> "unset"] /\ filter = [t \in Tasks |-> "unset"]
  /\ verdict = [t \in Tasks |-> "no"]
  /\ gate = "open" /\ over = FALSE

Untouched(t) == render[t] = "unset" /\ filter[t] = "unset"
Rendered(t)  == render[t] = "ok" /\ filter[t] = "unset"

\* The part to be run next.
NextIsRender(t) == t \in RenderTasks /\ render[t] = "unset"

\* Mutation: the filtering that is missing is not looked at.
VerdictOf_NoPartly(t) ==
  IF render[t] = "failed" THEN "unrendered"
  ELSE IF filter[t] = "failed" THEN "unfiltered"
  ELSE IF Untouched(t) THEN "untouched"
  ELSE "complete"

VerdictOf(t) ==
  IF render[t] = "failed" THEN "unrendered"
  ELSE IF filter[t] = "failed" THEN "unfiltered"
  ELSE IF Untouched(t) THEN "untouched"
  ELSE IF Rendered(t) /\ t \in FilterTasks THEN "partly"
  ELSE "complete"

----------------------------------------------------------------------------
(* The moves of one task.  Move(t, p, r, f): t gets to p, its parts become  *)
(* r and f.                                                                 *)

Move(t, p, r, f) ==
  place'[t] = p /\ render'[t] = r /\ filter'[t] = f /\ verdict'[t] = verdict[t]

Stays(t) == Move(t, place[t], render[t], filter[t])

\* A task fetched after the gate began to close may be handed right back.
Arrives(t) ==
  /\ place[t] = "source"
  /\ \/ Move(t, "todo", render[t], filter[t])
     \/ gate' # "open" /\ Move(t, "done", render[t], filter[t])

\* The source failed to set the task up.
IsSkipped(t) ==
  /\ place[t] = "source" /\ place'[t] = "back" /\ verdict'[t] = "skipped"
  /\ render'[t] = render[t] /\ filter'[t] = filter[t]

\* Mutation: the half-closed gate lets everything through.
MayStart_HalfClosed(t) == place[t] = "todo" /\ gate # "shut"

MayStart(t) ==
  place[t] = "todo" /\ gate # "shut" /\ (gate = "old" => Rendered(t))

Starts(t) == MayStart(t) /\ Move(t, "proc", render[t], filter[t])

\* Mutations: the task goes on to its next part; the failure is stored in the
\* wrong part.
Fails_GoesOn(t) ==
  IF NextIsRender(t) THEN Move(t, "todo", "failed", filter[t])
                     ELSE Move(t, "done", render[t], "failed")

Fails_WrongPart(t) == Move(t, "done", "failed", filter[t])

Fails(t) ==
  IF NextIsRender(t) THEN Move(t, "done", "failed", filter[t])
                     ELSE Move(t, "done", render[t], "failed")

\* The job could not be started, or failed.
StartFails(t) == MayStart(t) /\ Fails(t)
JobFails(t)   == place[t] = "proc" /\ Fails(t)

\* Mutation: it goes on to a filter it does not have.
RenderSucceeds_AlwaysFilters(t) ==
  /\ place[t] = "proc" /\ NextIsRender(t)
  /\ IF gate' = "shut" THEN Move(t, "done", "ok", filter[t])
                       ELSE Move(t, "todo", "ok", filter[t])

\* A rendered task goes on to its filter, unless the gate is shut.
RenderSucceeds(t) ==
  /\ place[t] = "proc" /\ NextIsRender(t)
  /\ IF t \notin FilterTasks \/ gate' = "shut"
     THEN Move(t, "done", "ok", filter[t])
     ELSE Move(t, "todo", "ok", filter[t])

FilterSucceeds(t) ==
  /\ place[t] = "proc" /\ ~NextIsRender(t)
  /\ Move(t, "done", render[t], "ok")

\* Untouched tasks are given back when the gate closes, rendered ones when it
\* is shut.
IsGivenUp(t) ==
  /\ place[t] = "todo"
  /\ \/ gate' = "shut"
     \/ gate' = "old" /\ Untouched(t)
  /\ Move(t, "done", render[t], filter[t])

Returns(t) ==
  /\ place[t] = "done" /\ place'[t] = "back" /\ verdict'[t] = VerdictOf(t)
  /\ render'[t] = render[t] /\ filter'[t] = filter[t]

Moves(t) ==
  \/ Arrives(t) \/ IsSkipped(t) \/ Starts(t) \/ StartFails(t) \/ JobFails(t)
  \/ RenderSucceeds(t) \/ FilterSucceeds(t) \/ IsGivenUp(t) \/ Returns(t)

\* The gate only closes.
GateMoves == \/ gate' = gate
             \/ gate = "open" /\ gate' \in Gates
             \/ gate = "old" /\ gate' = "shut"

\* Mutation: done tasks need not be back.
Exits_Early == over' => \A t \in Tasks : place'[t] \in {"source", "done", "back"}

Exits == over' => \A t \in Tasks : place'[t] \in {"source", "back"}

JobLimit == Cardinality({t \in Tasks : place[t] = "proc"}) <= NJobs

Next ==
  /\ ~over
  /\ FlowTypeOK'
  /\ GateMoves
  /\ \A t \in Tasks : Stays(t) \/ Moves(t)
  /\ JobLimit'
  /\ Exits

Spec == Init /\ [][Next]_flow

----------------------------------------------------------------------------
(* What follows *)

TaskLifecycle(t) ==
  /\ place[t] = "source" => Untouched(t)
  /\ place[t] \in {"todo", "proc"} =>
       Untouched(t) \/ (Rendered(t) /\ t \in FilterTasks)
  /\ place[t] # "back" => verdict[t] = "no"
  /\ place[t] = "back" =>
       verdict[t] = VerdictOf(t) \/ (verdict[t] = "skipped" /\ Untouched(t))
  /\ render[t] # "unset" => t \in RenderTasks
  /\ filter[t] # "unset" =>
       t \in FilterTasks /\ (t \in RenderTasks => render[t] = "ok")

\* The inductive invariant: how place, parts and verdict of a task go
\* together.
Lifecycle == \A t \in Tasks : TaskLifecycle(t)

\* A job for the filter runs only on what was rendered (TaskManager queues a
\* task for filtering in HandleSuccessfulJob() alone).
FilterNeedsRender ==
  \A t \in RenderTasks :
    place[t] = "proc" /\ ~NextIsRender(t) => render[t] = "ok"

\* The source is told the truth: complete means that every part of the task
\* was done, partly that just the filtering is missing, untouched that no
\* part was.
VerdictIsTrue ==
  \A t \in Tasks :
    /\ verdict[t] = "complete" =>
         /\ t \in RenderTasks => render[t] = "ok"
         /\ t \in FilterTasks => filter[t] = "ok"
    /\ verdict[t] = "partly" => Rendered(t) /\ t \in FilterTasks
    /\ verdict[t] \in {"untouched", "skipped"} => Untouched(t)

\* When the program exits, no task is under way (_schedule() quits only with
\* empty queues).
NothingLeftBehind ==
  over => \A t \in Tasks : place[t] \in {"source", "back"}

\* Once the gate is shut no job starts, and behind the half-closed gate only
\* filter jobs do (GetTaskToStart() with schedule_quit).
ClosedGateStartsNothing ==
  [][\A t \in Tasks : place[t] # "proc" /\ place'[t] = "proc" =>
       gate = "open" \/ (gate = "old" /\ Rendered(t))]_flow

\* What became of a part, and what was reported, never changes again: no part
\* runs twice and no task is reported twice.
OutcomesAreFinal ==
  [][\A t \in Tasks :
       /\ render[t] # "unset" => render'[t] = render[t]
       /\ filter[t] # "unset" => filter'[t] = filter[t]
       /\ verdict[t] # "no" =>
            /\ verdict'[t] = verdict[t]
            /\ render'[t] = render[t] /\ filter'[t] = filter[t]]_flow
=============================================================================
