---------------------------- MODULE SolveNetwork ----------------------------
(***************************************************************************)
(* The solve system of anitmt-calc (lib/solve): operands tell the relations *)
(* they take part in what value they are to take, these compute further     *)
(* operands and may reject, and only if nobody in the network does is the   *)
(* value used, in a second pass.  Around it what anitmt-calc does: build    *)
(* the network, insert the user's values and references, and work off the   *)
(* defaults and pushes in the order of their levels.                        *)
(***************************************************************************)
EXTENDS SolveRelations

CONSTANTS
  Networks,      \* the networks to choose from: records [ops, setup, statements]
                 \* by name
  MaxStatements  \* bound: how many statements the user's description has

VARIABLES net,   \* the name of the network of this run
          n,     \* its state
          phase  \* "values", "finish" or "gave up"

solve == <<net, n, phase>>

User == 0     \* the default problem handler; others are the actions' own

\* Operands (val, solved, id, lsn), relations, actions and their table (tab);
\* of Solve_Run_Info ids (the valid ones, newest first), next and by (whose
\* handler); busy are the relations with just_solving set, ok is what the last
\* call returned, err: an error was reported.  given, tried: history, the
\* values that were set from outside, and the last one the user failed to set;
\* used: the statements inserted so far.
NewNetwork(ops) ==
  [val |-> [o \in ops |-> None], solved |-> [o \in ops |-> FALSE],
   id |-> [o \in ops |-> -1], lsn |-> [o \in ops |-> <<>>],
   rels |-> <<>>, acts |-> <<>>, tab |-> <<>>,
   ids |-> <<>>, next |-> 1, by |-> User, busy |-> {}, ok |-> TRUE,
   err |-> FALSE, crash |-> "none", given |-> {}, tried |-> {}, used |-> {}]

Answer(m, b) == [m EXCEPT !.ok = b]
Reported(m, e) == [m EXCEPT !.err = @ \/ e]

\* is_solved_in_try()
Available(m, o) == m.solved[o] \/ m.id[o] \in ToSet(m.ids)
ValueOf(m, o)   == IF Available(m, o) THEN m.val[o] ELSE None
ValuesOf(m, r)  == [i \in DOMAIN r.ops |-> ValueOf(m, r.ops[i])]

Solved(m, o)    == [m EXCEPT !.solved = (o :> TRUE) @@ m.solved]

Listener(i)  == [kind |-> "relation", at |-> i, placed |-> FALSE]
Caller(k)    == [kind |-> "caller", at |-> k, placed |-> FALSE]
Placed(m, o, i) ==
  [m EXCEPT !.lsn = (o :> [m.lsn[o] EXCEPT ![i].placed = TRUE]) @@ m.lsn]
AddListener(m, o, l) == [m EXCEPT !.lsn = (o :> Append(m.lsn[o], l)) @@ m.lsn]

\* add_Action(): behind all actions of its level and of lower ones.
AddAction(m, k) ==
  LET level == m.acts[k].level
      later(j) == m.acts[j].level > level
      i == Cardinality({j \in DOMAIN m.tab : ~later(m.tab[j])})
  IN  [m EXCEPT !.tab = SubSeq(@, 1, i) \o <<k>> \o SubSeq(@, i + 1, Len(@))]

-----------------------------------------------------------------------------
(* First pass: is the value acceptable to everybody?                        *)

RECURSIVE TestSetValue(_, _, _), TestReportValue(_, _, _), IsResultOk(_, _, _)

\* Mutation: the values of a failed trial stay valid.
Trial_KeepsValues(m, o, v) ==
  TestSetValue([m EXCEPT !.ids = <<m.next>> \o @, !.next = @ + 1], o, v)

\* new_test_run_id() and, if the trial fails, remove_test_run_id().
Trial(m, o, v) ==
  LET t == TestSetValue([m EXCEPT !.ids = <<m.next>> \o @, !.next = @ + 1], o, v)
  IN  IF t.ok THEN t
      ELSE [t EXCEPT !.ids = SubSeq(t.ids, 1 + PlaceOf([ops |-> t.ids], m.next), Len(t.ids))]

\* A solver for three operands, told of the one at this place.
Solve3(m, r, place, x) ==
  LET p == IF place = 1 THEN 2 ELSE 1
      q == 6 - place - p
      follows(i, j) == x[i] # None /\ Calcable(r.kind, j, x)
      agrees(j) == x[j] = Calc(r.kind, j, x)
  IN CASE x[p] # None /\ x[q] # None ->
            Answer(m, (follows(p, q) => agrees(q)) /\ (follows(q, p) => agrees(p)))
       [] x[q] = None /\ follows(p, q) -> TestSetValue(m, r.ops[q], Calc(r.kind, q, x))
       [] x[p] = None /\ follows(q, p) -> TestSetValue(m, r.ops[p], Calc(r.kind, p, x))
       [] ~(x[p] # None /\ x[q] # None) /\ ~follows(p, q) /\ ~follows(q, p) ->
            IF CalcableFromOne(r.kind, place, x) THEN TestSetValue(m, r.ops[1], 0)
            ELSE Answer(m, TRUE)

SolveEqual(m, r, place, x) ==
  IF x[3 - place] # None THEN Answer(m, x[3 - place] = x[place])
  ELSE TestSetValue(m, r.ops[3 - place], x[place])

\* The square solver a = b^2.  b has two solutions to try; a has one, and when
\* that is rejected the code goes on to the end and accepts b.
SolveSquare(m, r, place, x) ==
  IF place = 1
  THEN IF x[2] # None THEN Answer(m, x[2] \in Roots(x[1]))
       ELSE LET t == Trial(m, r.ops[2], Sqrt(x[1]))
            IN  IF t.ok THEN t ELSE TestSetValue(t, r.ops[2], Minus(0, Sqrt(x[1])))
  ELSE IF x[1] # None THEN Answer(m, x[1] = Times(x[2], x[2]))
       ELSE Answer(Trial(m, r.ops[1], Times(x[2], x[2])), TRUE)

\* While a solver has an operand tested it only says whether the others fit.
AskSolver(m, i, r, place, x) ==
  IF i \in m.busy \/ ~Fits(r.kind, place, x) THEN Answer(m, Fits(r.kind, place, x))
  ELSE LET b == [m EXCEPT !.busy = @ \cup {i}]
           t == CASE r.kind \in Solvers3 -> Solve3(b, r, place, x)
                  [] r.kind = "equal"    -> SolveEqual(b, r, place, x)
                  [] r.kind = "square"   -> SolveSquare(b, r, place, x)
       IN  [t EXCEPT !.busy = @ \ {i}]

AskOperator(m, r, place, x) ==
  CASE ~OperandsOk(r.kind, x) /\ Computed(r.kind, place, x) = None -> Answer(m, FALSE)
    [] Computed(r.kind, place, x) # None ->
         TestSetValue(m, Result(r), Computed(r.kind, place, x))
    [] OTHER -> Answer(m, TRUE)

\* The dual operator: the second solution if the first is rejected.
AskPlusMinus(m, r, v) ==
  LET t == Trial(m, Result(r), v)
  IN  IF t.ok THEN t ELSE TestSetValue(t, Result(r), Minus(0, v))

\* Mutation: the refused action is not called again.
AskReference_ForgetsTheAction(m, r, o) ==
  CASE o = r.ops[1] -> TestSetValue(m, Result(r), m.val[o])
    [] o = Result(r) /\ Available(m, r.ops[1]) -> Answer(m, m.val[r.ops[1]] = m.val[o])
    [] o = Result(r) /\ ~Available(m, r.ops[1]) -> Answer(m, m.by = User)

\* Mutation: the user is refused like an action.
AskReference_RefusesTheUser(m, r, o) ==
  CASE o = r.ops[1] -> TestSetValue(m, Result(r), m.val[o])
    [] o = Result(r) /\ Available(m, r.ops[1]) -> Answer(m, m.val[r.ops[1]] = m.val[o])
    [] o = Result(r) /\ ~Available(m, r.ops[1]) -> Answer(m, FALSE)

\* Explicite_Reference: a foreign value for its destination is refused as long
\* as the source is not solved, if the handler allows that.  An action is then
\* called again when the destination gets its value (Action_Caller_Inserter);
\* the user has his way.
AskReference(m, r, o) ==
  CASE o = r.ops[1] -> TestSetValue(m, Result(r), m.val[o])
    [] o = Result(r) /\ Available(m, r.ops[1]) -> Answer(m, m.val[r.ops[1]] = m.val[o])
    [] o = Result(r) /\ ~Available(m, r.ops[1]) ->
         IF m.by = User THEN Answer(m, TRUE)
         ELSE Answer(AddListener(m, o, Caller(m.by)), FALSE)

IsResultOk(m, o, l) ==
  IF l.kind = "caller" THEN Answer(m, TRUE)
  ELSE LET r == m.rels[l.at]
           x == ValuesOf(m, r)
           place == PlaceOf(r, o)
       IN CASE r.kind \in Solvers      -> AskSolver(m, l.at, r, place, x)
            [] r.kind \in Operators    -> AskOperator(m, r, place, x)
            [] r.kind = "plus_minus"   -> AskPlusMinus(m, r, x[1])
            [] r.kind = "store"        -> TestSetValue(m, Result(r), x[1])
            [] r.kind = "constraint"   -> Answer(m, x[1] # 0)
            [] r.kind = "reference"    -> AskReference(m, r, o)

TestReportValue(m, o, i) ==
  IF i > Len(m.lsn[o]) THEN Answer(m, TRUE)
  ELSE LET t == IsResultOk(m, o, m.lsn[o][i])
       IN  IF t.ok THEN TestReportValue(t, o, i + 1) ELSE t

TestSetValue(m, o, v) ==
  IF Available(m, o) THEN Answer(m, m.val[o] = v)
  ELSE TestReportValue([m EXCEPT !.val = (o :> v) @@ m.val,
                              !.id = (o :> Head(m.ids)) @@ m.id], o, 1)

-----------------------------------------------------------------------------
(* Second pass: the values of this try are used.                            *)

RECURSIVE UseTestValue(_, _), ReportValue(_, _, _), UseResult(_, _, _), UseOthers(_, _, _)

\* Mutation: without looking whether it was tested.
UseIfAvailable_Blindly(m, o) == UseTestValue(m, o)

UseIfAvailable(m, o) == IF Available(m, o) THEN UseTestValue(m, o) ELSE m

\* A solver hands on to its other operands, in order.
UseOthers(m, ops, o) ==
  IF ops = <<>> THEN m
  ELSE UseOthers(IF Head(ops) = o THEN m ELSE UseIfAvailable(m, Head(ops)), Tail(ops), o)

\* i is the place of the listener among those of o.
UseResult(m, o, i) ==
  LET l == m.lsn[o][i]
      r == m.rels[l.at]
  IN CASE l.kind = "caller" ->
            IF l.placed THEN m ELSE AddAction(Placed(m, o, i), l.at)
       [] l.kind = "relation" /\ r.kind \in Solvers ->
            IF l.at \in m.busy THEN m
            ELSE [UseOthers([m EXCEPT !.busy = @ \cup {l.at}], r.ops, o)
                    EXCEPT !.busy = @ \ {l.at}]
       [] l.kind = "relation" /\ r.kind \notin Solvers ->
            IF r.kind = "constraint" \/ o = Result(r) THEN m
            ELSE UseIfAvailable(m, Result(r))

\* i is the listener whose turn it is.
ReportValue(m, o, i) ==
  IF i > Len(m.lsn[o]) THEN m ELSE ReportValue(UseResult(m, o, i), o, i + 1)

\* report_value() is locked against recursion by the invalid id.
Report(m, o) ==
  IF m.id[o] = -1 THEN m ELSE ReportValue([m EXCEPT !.id = (o :> -1) @@ m.id], o, 1)

UseTestValue(m, o) ==
  Report([Solved(m, o) EXCEPT !.crash = IF Available(m, o) THEN @ ELSE "assert"], o)

\* A Solve_Run_Info ends with its run, and its ids with it: the value of an
\* operand that is not solved is never looked at again.
EndOfRun(m) ==
  [m EXCEPT !.val = [o \in DOMAIN m.val |-> IF m.solved[o] THEN m.val[o] ELSE None],
            !.id = [o \in DOMAIN m.val |-> -1], !.ids = <<>>, !.next = 1, !.by = User]

NewRun(m, by) == [m EXCEPT !.ids = <<m.next>>, !.next = @ + 1, !.by = by]

\* set_value(): ok says whether the network took the value.
SetValue(m, o, v, by) ==
  LET t == TestSetValue(NewRun(m, by), o, v)
  IN  EndOfRun(IF ~t.ok THEN t
               ELSE [Solved(Report(t, o), o) EXCEPT !.given = @ \cup {<<o, v>>}])

-----------------------------------------------------------------------------
(* Building: constructors and init() of relations and actions.              *)

\* What an operator makes of the operands that are solved when it is created.
InitialResult(r, x) ==
  LET found == {Computed(r.kind, p, x) : p \in {q \in 1..2 : x[q] # None}} \ {None}
  IN  IF found = {} THEN None ELSE CHOOSE v \in found : TRUE

InitOperator(m, r) ==
  LET x == ValuesOf(m, r)
      v == InitialResult(r, x)
      t == UseTestValue(TestSetValue(NewRun(m, User), Result(r), v), Result(r))
  IN CASE v = None -> Reported(m, ~OperandsOk(r.kind, x))
       [] v # None -> EndOfRun(t)

\* A dual operator tests its first solution with one run and uses it with
\* another, to which the value is not known.
InitPlusMinus(m, r) ==
  IF m.solved[r.ops[1]] THEN [m EXCEPT !.crash = "plus_minus"] ELSE m

\* A reference and a store copy a value that is there already; only the
\* messages tell if it is refused.
CopySolved(m, src, dst) ==
  IF ~m.solved[src] THEN m
  ELSE LET t == SetValue(m, dst, m.val[src], User)
       IN  [Reported(t, ~t.ok) EXCEPT !.given = m.given]

\* Solvers do not look at operands that are solved already.
AddRelation(m, r) ==
  LET k == Len(m.rels) + 1
      listens(o) == CASE r.kind \in Solvers \cup {"reference"} -> o \in ToSet(r.ops)
                      [] r.kind \notin Solvers \cup {"reference"} ->
                           o \in ToSet(r.ops) /\ (r.kind = "constraint" \/ o # Result(r))
      t == [m EXCEPT !.rels = Append(@, r),
                     !.lsn = [o \in DOMAIN m.lsn |->
                                 IF listens(o) THEN Append(m.lsn[o], Listener(k))
                                 ELSE m.lsn[o]]]
  IN CASE r.kind \in Solvers   -> t
       [] r.kind \in Operators -> InitOperator(t, r)
       [] r.kind = "plus_minus" -> InitPlusMinus(t, r)
       [] r.kind = "constraint" -> Reported(t, t.val[r.ops[1]] = 0)
       [] r.kind \in {"store", "reference"} -> CopySolved(t, r.ops[1], Result(r))

\* Default_Value, Push_Connection and Condition_Push.  Conditions that are not
\* solved and sources that are not are waited for with an Action_Caller.
AddPush(m, a) ==
  LET k == Len(m.acts) + 1
      t == [m EXCEPT !.acts = Append(@, [a EXCEPT !.kind = "push"])]
  IN  IF m.solved[a.ops[1]] THEN AddAction(t, k) ELSE AddListener(t, a.ops[1], Caller(k))

Pushes(m, a) == IF m.val[a.ops[3]] # 0 THEN AddPush(m, a) ELSE m

AddConditionPush(m, a) ==
  LET t == [m EXCEPT !.acts = Append(@, a)]
  IN  IF m.solved[a.ops[3]] THEN Pushes(t, a)
      ELSE AddListener(t, a.ops[3], Caller(Len(t.acts)))

AddDefault(m, a) == AddAction([m EXCEPT !.acts = Append(@, a)], Len(m.acts) + 1)

\* The statement o = v of the user.
UserSets(m, o, v) ==
  LET t == SetValue(m, o, v, User)
  IN  IF t.ok THEN t ELSE [t EXCEPT !.err = TRUE, !.tried = {<<o, v>>}]

\* One element of the description: [kind, ops, v, level].
Build(m, item) ==
  CASE item.kind = "set"            -> UserSets(m, item.ops[1], item.v)
    [] item.kind = "default"        -> AddDefault(m, item)
    [] item.kind = "push"           -> AddPush(m, item)
    [] item.kind = "condition_push" -> AddConditionPush(m, item)
    [] item.kind \in Relations      -> AddRelation(m, [kind |-> item.kind, ops |-> item.ops])

BuildAll(m, items) == FoldLeft(Build, m, items)

-----------------------------------------------------------------------------
(* Working off the actions.                                                 *)

Delete(m, k) == [m EXCEPT !.acts[k].kind = "deleted"]

\* do_it(); an action that succeeded, or a default that is not needed, deletes
\* itself.
DoIt(m, k) ==
  LET a == m.acts[k]
      dst == IF a.kind = "default" THEN a.ops[1] ELSE a.ops[2]
      v == IF a.kind = "default" THEN a.v ELSE m.val[a.ops[1]]
      t == SetValue(m, dst, v, k)
  IN CASE a.kind = "deleted" -> [m EXCEPT !.crash = "deleted action"]
       [] a.kind = "condition_push" -> Pushes(m, a)
       [] a.kind = "default" /\ m.solved[dst] -> Delete(m, k)
       [] a.kind = "push" /\ (m.solved[dst] \/ ~m.solved[a.ops[1]]) -> m
       [] a.kind \in {"default", "push"} /\ ~m.solved[dst]
          /\ (a.kind = "push" => m.solved[a.ops[1]]) -> IF t.ok THEN Delete(t, k) ELSE t

-----------------------------------------------------------------------------
(* anitmt-calc                                                              *)

\* create_structure() and hierarchy_final_init()
Init ==
  /\ net \in DOMAIN Networks
  /\ n = BuildAll(NewNetwork(Networks[net].ops), Networks[net].setup)
  /\ phase = "values"

\* insert_values(): a statement of the animation description.  The parser goes
\* on after an error; what it does then is of no use to anybody.
InsertStatement ==
  /\ phase = "values" /\ n.crash = "none" /\ Cardinality(n.used) < MaxStatements
  /\ \E s \in DOMAIN Networks[net].statements \ n.used :
       n' = [BuildAll(n, Networks[net].statements[s]) EXCEPT !.used = @ \cup {s}]
  /\ phase' = IF n'.err THEN "gave up" ELSE "values"
  /\ UNCHANGED net

\* Everything is inserted without an error.
FinishCalculations ==
  /\ phase = "values" /\ n.crash = "none"
  /\ phase' = "finish"
  /\ UNCHANGED <<net, n>>

InvokeAction ==
  /\ phase = "finish" /\ n.tab # <<>> /\ n.crash = "none"
  /\ n' = DoIt([n EXCEPT !.tab = Tail(@)], Head(n.tab))
  /\ UNCHANGED <<net, phase>>

Next == InsertStatement \/ FinishCalculations \/ InvokeAction

Spec == Init /\ [][Next]_solve
=============================================================================
