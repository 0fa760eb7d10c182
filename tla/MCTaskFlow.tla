----------------------------- MODULE MCTaskFlow -----------------------------
(***************************************************************************)
(* TaskFlow for TLC.  Next is a relation between two states, which TLC can  *)
(* test but not solve: here each task's successors are listed first.        *)
(***************************************************************************)
EXTENDS TaskFlow

\* Where t can get in one step, with its parts and its verdict; a task that
\* is back has no move.
Targets(t) ==
  LET r == render[t]
      f == filter[t]
      v == verdict[t]
  IN  {<<place[t], r, f, v>>} \cup
      CASE place[t] = "source" ->
             {<<"todo", r, f, v>>, <<"done", r, f, v>>, <<"back", r, f, "skipped">>}
        [] place[t] \in {"todo", "proc"} ->
             {<<"proc", r, f, v>>, <<"done", r, f, v>>}
               \cup {<<p, x, f, v>> : p \in {"todo", "done"}, x \in {"ok", "failed"}}
               \cup {<<"done", r, x, v>> : x \in {"ok", "failed"}}
        [] place[t] = "done" -> {<<"back", r, f, VerdictOf(t)>>}
        [] place[t] = "back" -> {}

MCNext ==
  \E to \in {g \in [Tasks -> UNION {Targets(t) : t \in Tasks}] :
               \A t \in Tasks : g[t] \in Targets(t)} :
    /\ place'   = [t \in Tasks |-> to[t][1]]
    /\ render'  = [t \in Tasks |-> to[t][2]]
    /\ filter'  = [t \in Tasks |-> to[t][3]]
    /\ verdict' = [t \in Tasks |-> to[t][4]]
    /\ gate' \in Gates
    /\ over' \in BOOLEAN
    /\ Next

MCSpec == Init /\ [][MCNext]_flow
=============================================================================
