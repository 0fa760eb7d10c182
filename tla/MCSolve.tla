------------------------------- MODULE MCSolve -------------------------------
(***************************************************************************)
(* Networks for TLC: what scalar.afd, complex_solver.afd and the test       *)
(* program of lib/solve build, with the statements of a user.               *)
(***************************************************************************)
EXTENDS SolveProps

Rel(k, ops)        == [kind |-> k, ops |-> ops, v |-> None, level |-> 0]
Put(o, v)          == <<[kind |-> "set", ops |-> <<o>>, v |-> v, level |-> 0]>>
Puts(ops, values)  == [p \in ops \X values |-> Put(p[1], p[2])]
Refer(dst, src)    == <<Rel("reference", <<src, dst>>)>>
Default(l, o, v)   == [kind |-> "default", ops |-> <<o>>, v |-> v, level |-> l]
Push(l, src, dst)  == [kind |-> "push", ops |-> <<src, dst>>, v |-> None, level |-> l]
PushIf(l, src, dst, c) ==
  [kind |-> "condition_push", ops |-> <<src, dst, c>>, v |-> None, level |-> l]

\* Two `linear` nodes one after the other.
Linear(st, et, dur, sv, ev, diff, slope) ==
  <<Rel("sum", <<et, dur, st>>), Rel("sum", <<ev, diff, sv>>),
    Rel("product", <<diff, slope, dur>>),
    Default(2000, slope, 0), Default(2100, dur, 0), Default(2200, sv, 0)>>

TwoLinear ==
  [ops |-> {"st1", "et1", "dur1", "sv1", "ev1", "diff1", "slope1",
            "st2", "et2", "dur2", "sv2", "ev2", "diff2", "slope2"},
   setup |-> Linear("st1", "et1", "dur1", "sv1", "ev1", "diff1", "slope1")
             \o Linear("st2", "et2", "dur2", "sv2", "ev2", "diff2", "slope2")
             \o <<Push(10, "et1", "st2"), Push(11, "st2", "et1"),
                  Push(20, "ev1", "sv2"), Push(21, "sv2", "ev1"),
                  Push(30, "slope1", "slope2"), Push(31, "slope2", "slope1"),
                  Default(100, "st1", 0)>>,
   statements |-> Puts({"et1", "dur1", "ev1", "slope1", "st2", "slope2", "ev2"}, {0, 1, 3})
                  @@ (<<"dur1 = ev2", 0>> :> Refer("dur1", "ev2"))
                  @@ (<<"slope1 = st2", 0>> :> Refer("slope1", "st2"))]

\* accel_solver(s, t, a, v0, ve) of an `accelerated` node.
Half == Over(1, 2)
Accel ==
  [ops |-> {"s", "t", "a", "v0", "ve", "at", "v0_ve", "vt", "ve2", "v02", "prod", "as",
            "half", "two", "s_t", "half_a", "half_at", "diff"},
   setup |-> <<Put("half", Half)[1], Put("two", 2 % Modulus)[1],
               Rel("product", <<"at", "a", "t">>), Rel("sum", <<"ve", "v0", "at">>),
               Rel("divide", <<"s", "t", "s_t">>), Rel("times", <<"half", "a", "half_a">>),
               Rel("times", <<"half_a", "t", "half_at">>),
               Rel("minus", <<"s_t", "half_at", "diff">>), Rel("store", <<"diff", "v0">>),
               Rel("sum", <<"v0_ve", "v0", "ve">>), Rel("product", <<"vt", "v0_ve", "t">>),
               Rel("product", <<"s", "half", "vt">>), Rel("product", <<"as", "a", "s">>),
               Rel("product", <<"prod", "two", "as">>), Rel("square", <<"ve2", "ve">>),
               Rel("square", <<"v02", "v0">>), Rel("sum", <<"ve2", "v02", "prod">>),
               Default(200, "a", 0), Default(2000, "v0", 0), Default(2100, "t", 0)>>,
   statements |-> Puts({"s", "t", "a", "v0", "ve"}, {0, 1, 2})
                  @@ (<<"ve = t", 0>> :> Refer("ve", "t"))]

\* References between properties with defaults; +- with a constraint.
Refs ==
  [ops |-> {"a", "b", "c", "x", "y", "r"},
   setup |-> <<Rel("sum", <<"c", "a", "b">>), Default(10, "c", 0), Default(20, "x", 1),
               Default(30, "y", 2), Default(40, "a", 1), Default(50, "b", 2)>>,
   statements |-> <<Refer("a", "x"), Refer("x", "b"), Refer("b", "y"), Refer("y", "c"),
                    Refer("c", "y"), <<Rel("plus", <<"x", "y", "r">>)>> \o Refer("b", "r"),
                    Put("x", 1), Put("c", 2), Put("y", 0), Put("b", 2)>>]

\* +-( k +- x ) has to be c, as in test_solve.cpp; the user lets a and b, which
\* are the same (a node and its first child), refer to a plus-minus value and to
\* y.  A push depends on the constraint.
Signs ==
  [ops |-> {"x", "p", "k", "q", "op", "c", "f", "a", "b", "r", "y", "z"},
   setup |-> <<Rel("plus_minus", <<"x", "p">>), Rel("plus", <<"k", "p", "q">>),
               Rel("plus_minus", <<"q", "op">>), Rel("same", <<"op", "c", "f">>),
               Rel("constraint", <<"f">>), Rel("equal", <<"a", "b">>),
               PushIf(60, "a", "z", "f"), Default(100, "x", 2), Default(200, "k", 1),
               Default(300, "y", 3)>>,
   statements |-> Puts({"x", "k", "c", "y"}, {0, 1, 2})
                  @@ (<<"a = +- x", 0>> :> <<Rel("plus_minus", <<"x", "r">>)>> \o Refer("a", "r"))
                  @@ (<<"b = y", 0>> :> Refer("b", "y"))]

MCNetworks == [linear |-> TwoLinear, accel |-> Accel, refs |-> Refs, signs |-> Signs]
JustAccel  == [accel |-> Accel]
=============================================================================
