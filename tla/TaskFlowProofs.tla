--------------------------- MODULE TaskFlowProofs ---------------------------
(***************************************************************************)
(* Proofs about TaskFlow, for any number of tasks and jobs.                 *)
(***************************************************************************)
EXTENDS TaskFlow, TLAPS

\* The lifecycle holds initially: every task is at its source, untouched.
LEMMA LifecycleInit == Init => Lifecycle
  BY DEF Init, Lifecycle, TaskLifecycle, Untouched

\* Each move of a task preserves its part of the lifecycle.
LEMMA MovePreservesLifecycle ==
  ASSUME NEW t \in Tasks, FlowTypeOK, FlowTypeOK', TaskLifecycle(t), Moves(t)
  PROVE  TaskLifecycle(t)'
<1> USE DEF FlowTypeOK, TaskLifecycle, Untouched, Rendered
<1>a. ASSUME Arrives(t) PROVE TaskLifecycle(t)'
  BY <1>a DEF Arrives, Move, VerdictOf
<1>b. ASSUME IsSkipped(t) PROVE TaskLifecycle(t)'
  BY <1>b DEF IsSkipped
<1>c. ASSUME Starts(t) PROVE TaskLifecycle(t)'
  BY <1>c DEF Starts, MayStart, Move
<1>d. ASSUME place[t] \in {"todo", "proc"}, Fails(t) PROVE TaskLifecycle(t)'
  BY <1>d, FlowAssumption DEF Fails, NextIsRender, Move
<1>e. ASSUME RenderSucceeds(t) PROVE TaskLifecycle(t)'
  BY <1>e, FlowAssumption DEF RenderSucceeds, NextIsRender, Move
<1>f. ASSUME FilterSucceeds(t) PROVE TaskLifecycle(t)'
  BY <1>f, FlowAssumption DEF FilterSucceeds, NextIsRender, Move
<1>g. ASSUME IsGivenUp(t) PROVE TaskLifecycle(t)'
  BY <1>g DEF IsGivenUp, Move
<1>h. ASSUME Returns(t) PROVE TaskLifecycle(t)'
  BY <1>h DEF Returns, VerdictOf
<1> QED
  BY <1>a, <1>b, <1>c, <1>d, <1>e, <1>f, <1>g, <1>h
     DEF Moves, StartFails, JobFails, MayStart

\* A task that stays where it is keeps its part of the lifecycle.
LEMMA StayPreservesLifecycle ==
  ASSUME NEW t \in Tasks, TaskLifecycle(t), Stays(t)
  PROVE  TaskLifecycle(t)'
  BY DEF Stays, Move, TaskLifecycle, Untouched, Rendered, VerdictOf

\* Inductiveness.
LEMMA LifecycleStep == FlowTypeOK /\ Lifecycle /\ [Next]_flow => Lifecycle'
<1> SUFFICES ASSUME FlowTypeOK, Lifecycle, [Next]_flow, NEW t \in Tasks
             PROVE  TaskLifecycle(t)'
  BY DEF Lifecycle
<1>1. TaskLifecycle(t)
  BY DEF Lifecycle
<1>2. CASE Next
  <2>1. FlowTypeOK' /\ (Stays(t) \/ Moves(t))
    BY <1>2 DEF Next
  <2> QED
    BY <1>1, <2>1, StayPreservesLifecycle, MovePreservesLifecycle
<1>3. CASE UNCHANGED flow
  BY <1>1, <1>3 DEF flow, TaskLifecycle, Untouched, Rendered, VerdictOf
<1> QED
  BY <1>2, <1>3

\* Type correctness.
THEOREM FlowTyped == Spec => []FlowTypeOK
<1>1. Init => FlowTypeOK
  <2> SUFFICES ASSUME Init PROVE FlowTypeOK
    OBVIOUS
  <2>1. place \in [Tasks -> Places]
    BY DEF Init, Places
  <2>2. render \in [Tasks -> Outcomes] /\ filter \in [Tasks -> Outcomes]
    BY DEF Init, Outcomes
  <2>3. verdict \in [Tasks -> Verdicts]
    BY DEF Init, Verdicts
  <2>4. gate \in Gates
    BY DEF Init, Gates
  <2>5. over \in BOOLEAN
    BY DEF Init
  <2> QED
    BY <2>1, <2>2, <2>3, <2>4, <2>5 DEF FlowTypeOK
<1>2. FlowTypeOK /\ [Next]_flow => FlowTypeOK'
  <2>1. FlowTypeOK /\ Next => FlowTypeOK'
    BY DEF Next
  <2>2. FlowTypeOK /\ UNCHANGED flow => FlowTypeOK'
    BY DEF FlowTypeOK, flow
  <2> QED
    BY <2>1, <2>2
<1> QED
  BY <1>1, <1>2, PTL DEF Spec

\* The lifecycle is an invariant.
THEOREM LifecycleHolds == Spec => []Lifecycle
  BY FlowTyped, LifecycleInit, LifecycleStep, PTL DEF Spec

\* No filter job runs on an image that was not rendered.
THEOREM FilterIsSafe == Spec => []FilterNeedsRender
<1>1. FlowTypeOK /\ Lifecycle => FilterNeedsRender
  BY FlowAssumption
     DEF FilterNeedsRender, Lifecycle, TaskLifecycle, NextIsRender, Untouched,
         Rendered
<1> QED
  BY <1>1, FlowTyped, LifecycleHolds, PTL

\* What the source is told is what happened.
THEOREM TruthIsTold == Spec => []VerdictIsTrue
<1>1. FlowTypeOK /\ Lifecycle => VerdictIsTrue
  <2> DEFINE True(t) ==
        /\ verdict[t] = "complete" =>
             /\ t \in RenderTasks => render[t] = "ok"
             /\ t \in FilterTasks => filter[t] = "ok"
        /\ verdict[t] = "partly" => Rendered(t) /\ t \in FilterTasks
        /\ verdict[t] \in {"untouched", "skipped"} => Untouched(t)
  <2> SUFFICES ASSUME FlowTypeOK, Lifecycle, NEW t \in Tasks, verdict[t] # "no"
               PROVE  True(t)
    BY DEF VerdictIsTrue
  <2>1. TaskLifecycle(t) /\ place[t] = "back"
    BY DEF Lifecycle, TaskLifecycle
  <2>2. render[t] \in Outcomes /\ filter[t] \in Outcomes
    BY DEF FlowTypeOK
  <2> QED
    BY <2>1, <2>2, FlowAssumption
       DEF TaskLifecycle, VerdictOf, Untouched, Rendered, Outcomes
<1> QED
  BY <1>1, FlowTyped, LifecycleHolds, PTL

\* The program exits with no task under way.
THEOREM NothingIsLeft == Spec => []NothingLeftBehind
<1>1. Init => NothingLeftBehind
  BY DEF Init, NothingLeftBehind
<1>2. NothingLeftBehind /\ [Next]_flow => NothingLeftBehind'
  BY DEF NothingLeftBehind, Next, Exits, flow
<1> QED
  BY <1>1, <1>2, PTL DEF Spec

\* A job starts only through an open gate, or through a half-closed one to
\* filter.
LEMMA StartsThroughGate ==
  ASSUME NEW t \in Tasks, FlowTypeOK, Stays(t) \/ Moves(t),
         place[t] # "proc", place'[t] = "proc"
  PROVE  gate = "open" \/ (gate = "old" /\ Rendered(t))
<1>1. Starts(t)
  BY DEF Stays, Moves, Move, Arrives, IsSkipped, Starts, MayStart, Fails,
         StartFails, JobFails, RenderSucceeds, FilterSucceeds, IsGivenUp,
         Returns
<1>2. gate \in {"open", "old", "shut"}
  BY DEF FlowTypeOK, Gates
<1> QED
  BY <1>1, <1>2 DEF Starts, MayStart

\* A closed gate starts nothing.
THEOREM GateHolds == Spec => ClosedGateStartsNothing
<1>1. FlowTypeOK /\ [Next]_flow =>
        [\A t \in Tasks : place[t] # "proc" /\ place'[t] = "proc" =>
           gate = "open" \/ (gate = "old" /\ Rendered(t))]_flow
  BY StartsThroughGate DEF Next
<1> QED
  BY <1>1, FlowTyped, PTL DEF Spec, ClosedGateStartsNothing

\* A move changes neither an outcome nor a verdict that is there already.
LEMMA MoveKeepsOutcomes ==
  ASSUME NEW t \in Tasks, FlowTypeOK, TaskLifecycle(t), Moves(t)
  PROVE  /\ render[t] # "unset" => render'[t] = render[t]
         /\ filter[t] # "unset" => filter'[t] = filter[t]
         /\ verdict[t] = "no" /\ place[t] # "back"
<1> DEFINE Kept == /\ render[t] # "unset" => render'[t] = render[t]
                   /\ filter[t] # "unset" => filter'[t] = filter[t]
<1>1. place[t] # "back"
  BY DEF Moves, Arrives, IsSkipped, Starts, StartFails, JobFails, MayStart,
         RenderSucceeds, FilterSucceeds, IsGivenUp, Returns
<1>2. ASSUME place[t] \in {"todo", "proc"}, Fails(t) PROVE Kept
  BY <1>2, FlowAssumption
     DEF Fails, NextIsRender, Move, TaskLifecycle, Untouched, Rendered
<1>3. ASSUME RenderSucceeds(t) PROVE Kept
  BY <1>3 DEF RenderSucceeds, NextIsRender, Move
<1>4. ASSUME FilterSucceeds(t) PROVE Kept
  BY <1>4 DEF FilterSucceeds, Move, TaskLifecycle, Untouched, Rendered
<1>5. ASSUME Arrives(t) \/ IsSkipped(t) \/ Starts(t) \/ IsGivenUp(t) \/ Returns(t)
      PROVE  Kept
  BY <1>5 DEF Arrives, IsSkipped, Starts, IsGivenUp, Returns, Move
<1> QED
  BY <1>1, <1>2, <1>3, <1>4, <1>5
     DEF Moves, StartFails, JobFails, MayStart, TaskLifecycle

\* Outcomes and verdicts are final.
THEOREM Finality == Spec => OutcomesAreFinal
<1> DEFINE Final(t) ==
      /\ render[t] # "unset" => render'[t] = render[t]
      /\ filter[t] # "unset" => filter'[t] = filter[t]
      /\ verdict[t] # "no" =>
           /\ verdict'[t] = verdict[t]
           /\ render'[t] = render[t] /\ filter'[t] = filter[t]
<1>1. FlowTypeOK /\ Lifecycle /\ [Next]_flow => [\A t \in Tasks : Final(t)]_flow
  <2> SUFFICES ASSUME FlowTypeOK, Lifecycle, Next, NEW t \in Tasks
               PROVE  Final(t)
    OBVIOUS
  <2>1. TaskLifecycle(t) /\ (Stays(t) \/ Moves(t))
    BY DEF Next, Lifecycle
  <2>2. CASE Stays(t)
    BY <2>2 DEF Stays, Move
  <2>3. CASE Moves(t)
    BY <2>1, <2>3, MoveKeepsOutcomes
  <2> QED
    BY <2>1, <2>2, <2>3
<1> QED
  BY <1>1, FlowTyped, LifecycleHolds, PTL DEF Spec, OutcomesAreFinal
=============================================================================
