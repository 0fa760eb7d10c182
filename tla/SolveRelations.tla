--------------------------- MODULE SolveRelations ---------------------------
(***************************************************************************)
(* The relations a solve network of anitmt-calc is built from: solvers,     *)
(* expression operators, constraints, stores and references of lib/solve.   *)
(* This module says what each kind computes from which operands;            *)
(* SolveNetwork says in which order they are asked.                         *)
(*                                                                          *)
(* A scalar is an element of the prime field of Modulus elements: solvers   *)
(* and operators use no law of the reals that it lacks (a negative number   *)
(* is one that is no square), and every result is again one of finitely     *)
(* many values.  A flag is 0 or 1.                                          *)
(***************************************************************************)
EXTENDS Integers, FiniteSets, SequencesExt

CONSTANTS Modulus,  \* a prime: how many scalars there are
          None      \* no value: the operand is not solved

ASSUME ModulusAssumption ==
  /\ Modulus \in Nat \ {0, 1}
  /\ \A x, y \in 1 .. Modulus - 1 : x * y # Modulus
  /\ None \notin 0 .. Modulus - 1

Scalars == 0 .. Modulus - 1

Minus(x, y) == (x - y) % Modulus
Times(x, y) == (x * y) % Modulus
Over(x, y)  == CHOOSE q \in Scalars : Times(q, y) = x
Flag(p)     == IF p THEN 1 ELSE 0

\* The roots of x; sqrt() returns one of them, and there is none of a negative
\* number.
Roots(x) == {r \in Scalars : Times(r, r) = x}
Sqrt(x)  == CHOOSE r \in Roots(x) : \A s \in Roots(x) : r <= s

-----------------------------------------------------------------------------
(* A relation is a record with its kind and its operands: those of a solver *)
(* in the order of its constructor, those of an operator with its result at *)
(* the end; a store and a reference lead from the first to the second.      *)

Solvers3  == {"sum", "product"}
Solvers   == Solvers3 \cup {"equal", "square"}
Operators == {"plus", "minus", "times", "divide", "same"}
Relations == Solvers \cup Operators \cup {"plus_minus", "constraint", "store", "reference"}

Result(r)     == Last(r.ops)
PlaceOf(r, o) == CHOOSE i \in DOMAIN r.ops : r.ops[i] = o

\* calc_a(), calc_b() and calc_c() of the solvers for a = b + c and a = b * c,
\* calc_a() and calc_b() for a = b; x holds the values by place.
Calc(kind, to, x) ==
  CASE kind = "sum" /\ to = 1 -> (x[2] + x[3]) % Modulus
    [] kind = "sum" /\ to = 2 -> Minus(x[1], x[3])
    [] kind = "sum" /\ to = 3 -> Minus(x[1], x[2])
    [] kind = "product" /\ to = 1 -> Times(x[2], x[3])
    [] kind = "product" /\ to = 2 -> Over(x[1], x[3])
    [] kind = "product" /\ to = 3 -> Over(x[1], x[2])
    [] kind = "equal" -> x[3 - to]

\* is_b_calcable() and is_c_calcable(): nothing is divided by zero.
Calcable(kind, to, x) == kind = "product" /\ to # 1 => x[5 - to] # 0

\* is_a_calcable_from_b(), is_a_calcable_from_c(): a product is zero as soon as
\* one factor is.
CalcableFromOne(kind, from, x) == kind = "product" /\ from # 1 /\ x[from] = 0

\* is_a_ok(), is_b_ok() and is_c_ok(), given those operands that are available.
Fits(kind, place, x) ==
  CASE kind = "product" /\ place = 1 ->
          IF x[1] # 0 THEN x[2] # 0 /\ x[3] # 0
          ELSE x[2] \in {0, None} \/ x[3] \in {0, None}
    [] kind = "product" /\ place # 1 ->
          IF x[1] \notin {0, None} THEN x[place] # 0
          ELSE x[1] = 0 => x[2] \in {0, None} \/ x[3] \in {0, None}
    [] kind = "square" /\ place = 1 -> Roots(x[1]) # {}
    [] OTHER -> TRUE

\* are_operands_ok() of the operators: 0 / 0 is fine, x / 0 is not.
OperandsOk(kind, x) == kind = "divide" => x[1] \in {0, None} \/ x[2] # 0

\* is_operand1_enough(), are_operands_enough() and calc_result(): what follows
\* for the result when the operand at this place is told; None if nothing.
Computed(kind, place, x) ==
  CASE x[place] = 0 /\ (kind = "times" \/ (kind = "divide" /\ place = 1)) -> 0
    [] x[1] = None \/ x[2] = None -> None
    [] kind = "plus"   -> (x[1] + x[2]) % Modulus
    [] kind = "minus"  -> Minus(x[1], x[2])
    [] kind = "times"  -> Times(x[1], x[2])
    [] kind = "divide" -> IF x[2] = 0 THEN None ELSE Over(x[1], x[2])
    [] kind = "same"   -> Flag(x[1] = x[2])
=============================================================================
