--------------------------- MODULE RendViewRefines ---------------------------
(***************************************************************************)
(* RendView implements TaskFlow: where a task is and what became of its     *)
(* parts is read off the queues, the joblist, the source's done_task and    *)
(* the TaskExecutionStatus members; once the source has the task back and   *)
(* has deleted it, from what the source was told.                           *)
(***************************************************************************)
EXTENDS RendViewProps

PlaceOf(t) ==
  IF reported[t] # "no" THEN "back"
  ELSE IF t >= tm.next THEN "source"
  ELSE IF t \in tm.proc THEN "proc"
  ELSE IF \E i \in DOMAIN Todo(tm) : Todo(tm)[i] = t THEN "todo"
  ELSE "done"

Outcome(tes) == CASE tes.end = "Unset"   -> "unset"
                  [] tes.end = "Success" -> "ok"
                  [] tes.end = "Failed"  -> "failed"

RenderOf(t) ==
  CASE reported[t] = "no" -> Outcome(tm.rtes[t])
    [] reported[t] = "unrendered" -> "failed"
    [] reported[t] \in {"complete", "partly", "unfiltered"} ->
         IF t \in RenderFrames THEN "ok" ELSE "unset"
    [] OTHER -> "unset"

FilterOf(t) ==
  CASE reported[t] = "no" -> Outcome(tm.ftes[t])
    [] reported[t] = "unfiltered" -> "failed"
    [] reported[t] = "complete" -> IF t \in FilterFrames THEN "ok" ELSE "unset"
    [] OTHER -> "unset"

Flow == INSTANCE TaskFlow WITH
  Tasks <- Frames, RenderTasks <- RenderFrames, FilterTasks <- FilterFrames,
  place   <- [t \in Frames |-> PlaceOf(t)],
  render  <- [t \in Frames |-> RenderOf(t)],
  filter  <- [t \in Frames |-> FilterOf(t)],
  verdict <- reported,
  gate    <- IF tm.dsmt THEN "shut" ELSE IF tm.sq > 0 THEN "old" ELSE "open",
  over    <- tm.quitStep > 0

\* The task manager with its driver interface and its source keeps the
\* promises of TaskFlow: every callback moves each task along its lifecycle
\* or leaves it alone, the gate only closes, no more than NJobs tasks are in
\* proc, and the program exits with nothing under way.
ImplementsFlow == Flow!Spec
=============================================================================
