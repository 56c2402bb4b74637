------------------------------- MODULE Optim -------------------------------
(* The numerical side of rgh/osp/madonna.hpp and of the HonOpt dock: the two *)
(* interval searches, the differences that give gradient and Hessian, and    *)
(* the Newton, Nelder-Mead and Rosenbrock steps the dock draws.  Numbers are *)
(* integers in a unit so small that every halving of the instance is exact;  *)
(* a product with 0.618 or a Fibonacci ratio is rounded down, as a float is  *)
(* rounded.                                                                  *)
EXTENDS Integers, Sequences

CONSTANTS Valleys,   \* functions of one variable: <<minimum, left, right>>
          Quadrics,  \* functions of two: <<a, b, c, d, e>>
          Ends,      \* the intervals searched
          Eps,       \* the width at which a search ends, in units
          Starts,    \* the first points
          Units,     \* the step of the differences, of Rosenbrock
          MaxSteps   \* steps of Nelder-Mead, sweeps of Rosenbrock

ASSUME OptimAssumption ==
  /\ Valleys \subseteq Int \X (Nat \ {0}) \X (Nat \ {0})
  /\ \A f \in Quadrics : /\ DOMAIN f = 1 .. 5
                         /\ \A k \in 1 .. 5 : f[k] \in Int
  /\ Ends \subseteq Int \X Int /\ Starts \subseteq Int \X Int
  /\ Eps \in Nat /\ Eps >= 9
  /\ Units \subseteq Nat \ {0}
  /\ MaxSteps \in Nat

VARIABLES meth,  \* the method at work
          fun,   \* the function it works on
          st     \* its locals

ovars == <<meth, fun, st>>

\* A strictly unimodal function of one variable, and a quadratic of two.
Valley(f, x) == IF x < f[1] THEN f[2] * (f[1] - x) ELSE f[3] * (x - f[1])
Quadric(f, x, y) == f[1]*x*x + f[2]*x*y + f[3]*y*y + f[4]*x + f[5]*y
F(p) == Quadric(fun, p[1], p[2])

Plus(p, q) == <<p[1] + q[1], p[2] + q[2]>>
Minus(p, q) == <<p[1] - q[1], p[2] - q[2]>>
Twice(p) == Plus(p, p)
Half(p) == <<p[1] \div 2, p[2] \div 2>>

(* Differences *)

\* d1_f1 and d2_f1 of the function along one coordinate of a point; with two
\* coordinates, the differences d2h_f2 takes across the other.
Shift(p, i, s) == [p EXCEPT ![i] = @ + s]
D1F1(p, i, r) == (F(Shift(p, i, r)) - F(Shift(p, i, -r))) \div (2 * r)
D2F1(p, i, j, r) ==
  (D1F1(Shift(p, j, r), i, r) - D1F1(Shift(p, j, -r), i, r)) \div (2 * r)
D1F2(p, r) == <<D1F1(p, 1, r), D1F1(p, 2, r)>>
D2F2(p, r) == <<D2F1(p, 1, 1, r), D2F1(p, 2, 2, r)>>
D2hF2(p, r) ==
  LET d2 == D2F2(p, r)
  IN <<d2[1], D2F1(p, 1, 2, r), D2F1(p, 2, 1, r), d2[2]>>

Gradient(p) == D1F2(p, st.r)
Hessian(p) == D2hF2(p, st.r)

\* The inverse LAPACK gives of a row-major 2x2 matrix, as the adjugate: the
\* determinant it is to be divided by is kept beside it.
Adjugate(h) == <<h[4], -h[2], -h[3], h[1]>>
Det(h) == h[1] * h[4] - h[2] * h[3]

(* Searches *)

Search(m) == \E ab \in Ends, f \in Valleys :
  /\ meth = m /\ fun = f
  /\ LET a == IF ab[2] < ab[1] THEN ab[2] ELSE ab[1]
         b == IF ab[2] < ab[1] THEN ab[1] ELSE ab[2]
     IN st = [a |-> a, b |-> b, d |-> b - a, f1 |-> 3, f2 |-> 2, from |-> ab]

\* Mutant: the comparison the wrong way round.
EliminateBetter(d) == LET x1 == st.b - d
                          x2 == st.a + d
                      IN IF Valley(fun, x1) >= Valley(fun, x2)
                         THEN <<st.a, x2>> ELSE <<x1, st.b>>

\* The half that is kept, once the inner points are known.
Eliminate(d) == LET x1 == st.b - d
                    x2 == st.a + d
                IN IF Valley(fun, x1) <= Valley(fun, x2)
                   THEN <<st.a, x2>> ELSE <<x1, st.b>>

ElimGr == /\ meth = "elimgr" /\ st.b - st.a >= Eps
          /\ LET d == (st.d * 618) \div 1000
                 i == Eliminate(d)
             IN st' = [st EXCEPT !.d = d, !.a = i[1], !.b = i[2]]
          /\ UNCHANGED <<meth, fun>>

ElimFib == /\ meth = "elimfib" /\ st.b - st.a >= Eps
           /\ LET i == Eliminate(((st.b - st.a) * st.f2) \div st.f1)
              IN st' = [st EXCEPT !.a = i[1], !.b = i[2],
                                  !.f1 = @ + st.f2, !.f2 = st.f1]
           /\ UNCHANGED <<meth, fun>>

(* Steps of the dock *)

\* One step of Newton's method; a Hessian that has no inverse ends it.  The
\* new point is kept as numerators over the determinant.
Newton ==
  /\ meth = "newton" /\ st.den = 0
  /\ LET g == Gradient(st.x)
         h == Hessian(st.x)
         i == Adjugate(h)
     IN /\ Det(h) /= 0
        /\ st' = [st EXCEPT !.den = Det(h),
                            !.x = <<Det(h)*@[1] - (i[1]*g[1] + i[2]*g[2]),
                                    Det(h)*@[2] - (i[3]*g[1] + i[4]*g[2])>>]
  /\ UNCHANGED <<meth, fun>>

\* std::sort of the three vertices by their value.
Orders == {p \in [1 .. 3 -> 1 .. 3] : \A k \in 1 .. 3 : \E j \in 1 .. 3 : p[j] = k}
Sorted(t) == {u \in {[k \in 1 .. 3 |-> t[p[k]]] : p \in Orders} :
                F(u[1]) <= F(u[2]) /\ F(u[2]) <= F(u[3])}

NelderMead ==
  /\ meth = "nelder" /\ st.n < MaxSteps
  /\ \E u \in Sorted(st.v) :
       LET B == u[1]
           G == u[2]
           W == u[3]
           M == Half(Plus(B, G))
           R == Minus(Twice(M), W)
           E == Minus(Twice(R), M)
           C1 == Half(Plus(M, W))
           C2 == Half(Plus(M, R))
           C == IF F(C1) < F(C2) THEN C1 ELSE C2
           v == IF F(R) < F(W)
                THEN <<B, G, IF F(E) < F(R) THEN E ELSE R>>
                ELSE IF F(C) < F(W) THEN <<B, G, C>>
                ELSE <<B, M, Half(Plus(B, W))>>
       IN st' = [st EXCEPT !.v = v, !.n = @ + 1]
  /\ UNCHANGED <<meth, fun>>

\* One try of Rosenbrock's method along a direction, the two in turn; the
\* directions are those of the first round, the axes.
Rosenbrock ==
  /\ meth = "rosenbrock" /\ st.osc <= MaxSteps
  /\ LET i == st.i
         x == [st.x EXCEPT ![i] = @ + st.s[i]]
         c == [st.c EXCEPT ![i] = @ + st.s[i]]
         hit == F(x) < F(st.x)
         s == [st.s EXCEPT ![i] = IF hit THEN (@ * 3) \div 2 ELSE -(@ \div 2)]
         succ == IF hit THEN st.succ \cup {i} ELSE st.succ
         fail == IF hit THEN st.fail ELSE st.fail \cup {i}
         over == i = 2 /\ succ = {1, 2} /\ fail = {1, 2}
     IN st' = [st EXCEPT
          !.x = IF hit THEN x ELSE @,
          !.c = IF hit THEN c ELSE @,
          !.s = s,
          !.succ = succ, !.fail = fail,
          !.i = 3 - i,
          !.osc = IF over THEN MaxSteps + 1 ELSE IF i = 2 THEN @ + 1 ELSE @]
  /\ UNCHANGED <<meth, fun>>

OInit ==
  \/ Search("elimgr") \/ Search("elimfib")
  \/ /\ fun \in Quadrics
     /\ \/ /\ meth = "newton"
           /\ \E x \in Starts, r \in Units :
                st = [x |-> x, r |-> r, den |-> 0]
        \/ /\ meth = "nelder"
           /\ \E v \in Starts \X Starts \X Starts : st = [v |-> v, n |-> 0]
        \/ /\ meth = "rosenbrock"
           /\ \E x \in Starts, s \in Units :
                st = [x |-> x, s |-> <<s, s>>, c |-> <<0, 0>>, i |-> 1,
                      succ |-> {}, fail |-> {}, osc |-> 1, x0 |-> x]

ONext == ElimGr \/ ElimFib \/ Newton \/ NelderMead \/ Rosenbrock

(* Properties *)

Searching == meth \in {"elimgr", "elimfib"}

\* A minimum that lies in the interval given stays in it, whichever end the
\* caller named first: the middle returned is within half of eps of it.
Brackets ==
  Searching =>
    LET m == fun[1]
        in == \/ st.from[1] <= m /\ m <= st.from[2]
              \/ st.from[2] <= m /\ m <= st.from[1]
    IN in => st.a <= m /\ m <= st.b

\* On a quadratic one step of Newton's method lands where the gradient is
\* zero.
NewtonLands ==
  meth = "newton" /\ st.den /= 0 =>
    /\ 2*fun[1]*st.x[1] + fun[2]*st.x[2] + fun[4]*st.den = 0
    /\ fun[2]*st.x[1] + 2*fun[3]*st.x[2] + fun[5]*st.den = 0

\* What Rosenbrock's method moved along each direction is what it adds up for
\* the next directions.
MovesAdd == meth = "rosenbrock" => st.x = Plus(st.x0, st.c)

Best == CASE meth = "nelder" -> LET vs == {F(st.v[k]) : k \in 1 .. 3}
                                IN CHOOSE m \in vs : \A n \in vs : m <= n
          [] meth = "rosenbrock" -> F(st.x)
          [] OTHER -> 0

\* The methods keep track of the optimum: the searches (madonna.hpp:307-355)
\* never leave it, the differences and Newton's step (madonna.hpp:256-305,
\* hon-opt.cpp:149-168) land on it, Rosenbrock's sums are its moves, and the
\* best point of the direct methods never gets worse (hon-opt.cpp:383-474):
\* the path the dock draws goes down.
OptimumIsKept ==
  [][(Brackets /\ NewtonLands /\ MovesAdd)' /\ Best' <= Best]_ovars
=============================================================================
