----------------------------- MODULE SolveProps -----------------------------
(***************************************************************************)
(* What a solve network promises: what it says to be solved follows from    *)
(* what it was given, it finds everything that does, it rejects only what   *)
(* contradicts, and no default or push is forgotten.                        *)
(***************************************************************************)
EXTENDS SolveNetwork

-----------------------------------------------------------------------------
(* The meaning of a relation, by itself: no order, no passes.               *)

\* x are the values of its operands, all of them known.
Holds(r, x) ==
  CASE r.kind = "sum"        -> x[1] = (x[2] + x[3]) % Modulus
    [] r.kind = "product"    -> x[1] = Times(x[2], x[3])
    [] r.kind = "square"     -> x[1] = Times(x[2], x[2])
    [] r.kind = "plus"       -> x[3] = (x[1] + x[2]) % Modulus
    [] r.kind = "minus"      -> x[1] = (x[2] + x[3]) % Modulus
    [] r.kind = "times"      -> x[3] = Times(x[1], x[2])
    [] r.kind = "divide"     -> x[1] = Times(x[3], x[2]) /\ (x[1] = 0 => x[3] = 0)
    [] r.kind = "same"       -> x[3] = Flag(x[1] = x[2])
    [] r.kind = "plus_minus" -> x[2] \in {x[1], Minus(0, x[1])}
    [] r.kind = "constraint" -> x[1] # 0
    [] r.kind \in {"equal", "store", "reference"} -> x[1] = x[2]

\* Which operands a relation tells a value: a solver each of its own, the
\* others only the last.
Tells(r) ==
  IF r.kind \in Solvers THEN DOMAIN r.ops
  ELSE IF r.kind = "constraint" THEN {} ELSE {Len(r.ops)}

\* The values that this operand may have, as far as x, in which None stands for
\* what is not known, says.
ValuesFor(v) == IF v = None THEN Scalars ELSE {v}
Completions(r, x) ==
  {y \in CASE Len(x) = 1 -> {<<v>> : v \in ValuesFor(x[1])}
           [] Len(x) = 2 -> ValuesFor(x[1]) \X ValuesFor(x[2])
           [] Len(x) = 3 -> ValuesFor(x[1]) \X ValuesFor(x[2]) \X ValuesFor(x[3]) :
     Holds(r, y)}
Possible(r, x, i) == {y[i] : y \in Completions(r, x)}

\* Without the operand itself.
Without(x, i) == [x EXCEPT ![i] = None]
Determines(r, x, i) == Cardinality(Possible(r, Without(x, i), i)) = 1

\* Two solutions of which the relation picks one.
Dual(r) == r.kind \in {"square", "plus_minus"}

-----------------------------------------------------------------------------
(* Properties                                                               *)

\* No assertion of the solve system fails: what is used in the second pass is
\* what was tested in the first (use_test_value()).  The plus-minus operator of
\* a value that is solved already fails one when it is created, see there.
SolverAssertionsHold == n.crash # "assert"

\* No action is invoked after its do_it() deleted it: priority.hpp says of
\* invoke() that it deletes the callers of the action first.  A default that is
\* refused twice in one go, at both solutions of a square, has two callers at
\* the same operand; invoke() does not remove the other one.
ActionsLiveUntilDone == n.crash # "deleted action"

\* Known(m, o): the value of a solved operand.
Known(m, r) == [i \in DOMAIN r.ops |-> IF m.solved[r.ops[i]] THEN m.val[r.ops[i]] ELSE None]

AllHold ==
  \A k \in DOMAIN n.rels :
    LET r == n.rels[k]
        x == Known(n, r)
    IN  None \notin Range(x) => Holds(r, x)

\* Nothing that one relation determines is missing.  The square solver is the
\* exception: when b^2 is rejected it says nothing, and a stays open.
NothingMissing ==
  \A k \in DOMAIN n.rels :
    LET r == n.rels[k]
        x == Known(n, r)
    IN  \A i \in Tells(r) :
          /\ x[i] = None
          /\ r.kind # "square"
          => ~Determines(r, x, i)

RECURSIVE Founded(_)
\* Everything that follows, step by step, from this set of solved operands.
Founded(S) ==
  LET seen(r) == [i \in DOMAIN r.ops |-> IF r.ops[i] \in S THEN n.val[r.ops[i]] ELSE None]
      next == {o \in {p \in DOMAIN n.solved : n.solved[p]} \ S :
                 \E k \in DOMAIN n.rels :
                   LET r == n.rels[k]
                   IN  \E i \in Tells(r) :
                         /\ r.ops[i] = o
                         /\ \/ Determines(r, seen(r), i)
                            \/ Dual(r) /\ Cardinality(Possible(r, seen(r), i)) = 2}
  IN  IF next = {} THEN S ELSE Founded(S \cup next)

\* Two-pass set_value(): the solved operands satisfy all relations between them,
\* nothing that follows from them is left unsolved, and each of them follows from
\* the values that the user, a default or a push set.  A rejected try, be it a
\* whole set_value() or the first solution of a square, leaves nothing behind.
SolvedIsWhatFollows ==
  /\ phase # "gave up" => AllHold
  /\ n.crash = "none" /\ phase # "gave up" => NothingMissing
  /\ {o \in DOMAIN n.solved : n.solved[o]} = Founded({g[1] : g \in n.given})

-----------------------------------------------------------------------------

\* Values that are forced by others, as a set of pairs, and whether that can be.
ValuesIn(S, r) ==
  [i \in DOMAIN r.ops |->
     IF \E p \in S : p[1] = r.ops[i] THEN (CHOOSE p \in S : p[1] = r.ops[i])[2] ELSE None]

Contradicts(S) ==
  \/ \E p, q \in S : p[1] = q[1] /\ p[2] # q[2]
  \/ \E k \in DOMAIN n.rels : Completions(n.rels[k], ValuesIn(S, n.rels[k])) = {}

RECURSIVE Forced(_)
Forced(S) ==
  LET more == {<<n.rels[k].ops[i], v>> :
                 <<k, i, v>> \in
                   {c \in (DOMAIN n.rels) \X (1..3) \X Scalars :
                      LET r == n.rels[c[1]]
                      IN  /\ c[2] \in Tells(r)
                          /\ Possible(r, Without(ValuesIn(S, r), c[2]), c[2]) = {c[3]}}}
  IN  IF Contradicts(S) \/ more \subseteq S THEN S ELSE Forced(S \cup more)

\* An error "while setting property" is reported to the user only if what he said
\* contradicts what is known, as far as one-step conclusions tell.  (With two solutions to choose
\* from this is not so: the first one that is acceptable stays.)
RejectionsAreJustified ==
  (phase = "gave up" /\ \A k \in DOMAIN n.rels : ~Dual(n.rels[k]))
    => Contradicts(Forced({<<o, n.val[o]>> : o \in {p \in DOMAIN n.solved : n.solved[p]}}
                            \cup n.tried))

\* When invoke_all_Actions() is done, a default that has not been used and a push that
\* has not taken place would still be refused: whatever stood in its way and
\* does not any more has had it called again by an Action_Caller.
NoActionForgotten ==
  (phase = "finish" /\ n.tab = <<>> /\ n.crash = "none")
    => \A k \in DOMAIN n.acts :
         LET a == n.acts[k]
         IN  /\ a.kind = "default" /\ ~n.solved[a.ops[1]]
                => ~SetValue(n, a.ops[1], a.v, k).ok
             /\ a.kind = "push" /\ n.solved[a.ops[1]] /\ ~n.solved[a.ops[2]]
                => ~SetValue(n, a.ops[2], n.val[a.ops[1]], k).ok
=============================================================================
