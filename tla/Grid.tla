------------------------------- MODULE Grid -------------------------------
(* grid_t of rgh/osp/madonna.hpp: a function sampled over spans, as the      *)
(* HonOpt dock does it.  apply() is one action per sample; the rest of the   *)
(* interface is operators on the sampled grid: field_at, the heat map drawn  *)
(* from raw(), and the mesh of gen_VBO_and_EBO.  Values are integers, and    *)
(* spans are chosen so that the steps of linspace are exact.                 *)
EXTENDS Integers, Sequences, FiniteSets, FiniteSetsExt

CONSTANTS SpanNs,  \* the arguments of span_n: tuples of <<n, low, upp>>
          SpanSs,  \* the arguments of span_s: tuples of <<s, low, upp>>
          Samples  \* the functions: <<a, b, c>> is a*x0 + b*x1 + c*x0*x1

\* The dock has two dimensions, and counts and steps above zero.
ASSUME GridAssumption ==
  /\ SpanNs \cup SpanSs \subseteq
       LET Arg == (Nat \ {0}) \X Int \X Int IN Arg \X Arg
  /\ Samples \subseteq Int \X Int \X Int

VARIABLES spans,   \* _spans: a function of the dimension, 0 the first
          field,   \* _field
          gmin, gmax,  \* _min and _max
          op,      \* the function being applied, or NoOp
          ds,      \* the odometer of apply
          at       \* the sample apply takes next

gvars == <<spans, field, gmin, gmax, op, ds, at>>

NoOp == <<>>
\* numeric_limits::max() is above every value of the instance.
\* numeric_limits::min() is the least positive one: an integer is above it
\* exactly when it is above 0.
Huge == 10000
Tiny == 0

\* n points of <<n, low, upp>>, or as many as steps of s fit for <<s, low, upp>>.
LinspaceN(a) == [k \in 0 .. a[1] - 1 |-> a[2] + k * ((a[3] - a[2]) \div a[1])]
LinspaceS(a) ==
  LinspaceN([a EXCEPT ![1] =
    (IF a[3] > a[2] THEN a[3] - a[2] ELSE a[2] - a[3]) \div @])

Dims == Cardinality(DOMAIN spans)
NOf(d) == Cardinality(DOMAIN spans[d])
FieldCount == Cardinality(DOMAIN field)

AlignField(sp) ==
  LET size[d \in DOMAIN sp] ==
        (IF d = 0 THEN 1 ELSE size[d - 1]) * Cardinality(DOMAIN sp[d])
  IN [k \in 0 .. size[Cardinality(DOMAIN sp) - 1] - 1 |-> 0]

GInit == /\ spans = <<>> /\ field = <<>> /\ gmin = 0 /\ gmax = 0
         /\ op = NoOp /\ ds = <<>> /\ at = 0

Respan(sp) == /\ spans = <<>>
              /\ spans' = sp
              /\ field' = AlignField(sp)
              /\ UNCHANGED <<gmin, gmax, op, ds, at>>

SpanN == \E ss \in SpanNs :
           Respan([d \in 0 .. Len(ss) - 1 |-> LinspaceN(ss[d + 1])])
SpanS == \E ss \in SpanSs :
           Respan([d \in 0 .. Len(ss) - 1 |-> LinspaceS(ss[d + 1])])

\* The sample of f at the coordinates x.
Sampled(f, x) == f[1] * x[0] + f[2] * x[1] + f[3] * x[0] * x[1]

\* apply sizes ds by the count of samples, not of dimensions: fewer samples
\* than dimensions would read past it.
ApplyStart == /\ op = NoOp /\ at = 0
              /\ spans /= <<>> /\ FieldCount >= Dims
              /\ op' \in Samples
              /\ ds' = [d \in DOMAIN spans |-> 0]
              /\ gmin' = Huge
              /\ gmax' = Tiny
              /\ UNCHANGED <<spans, field, at>>

\* One advance of the odometer: a dimension that is through hands one on to
\* the next and goes back to 0, and the loop goes on with the next one.
Advance(s) ==
  LET go[d \in DOMAIN spans] ==
        IF d = 0 THEN <<s, TRUE>>
        ELSE IF ~go[d - 1][2] THEN go[d - 1]
        ELSE LET inc == [go[d - 1][1] EXCEPT ![d - 1] = @ + 1]
             IN IF inc[d - 1] >= NOf(d - 1)
                THEN <<[inc EXCEPT ![d] = @ + 1, ![d - 1] = 0], TRUE>>
                ELSE <<inc, FALSE>>
  IN go[Dims - 1][1]

\* _max is tried first, and only a value that is no new maximum is tried for
\* _min.
Upper(v) == IF v > gmax THEN v ELSE gmax
Lower(v) == IF v <= gmax /\ v < gmin THEN v ELSE gmin

ApplyStep ==
  /\ op /= NoOp /\ at < FieldCount
  /\ LET v == Sampled(op, [d \in DOMAIN spans |-> spans[d][ds[d]]])
     IN /\ field' = [field EXCEPT ![at] = v]
        /\ gmax' = Upper(v)
        /\ gmin' = Lower(v)
  /\ ds' = Advance(ds)
  /\ at' = at + 1
  /\ UNCHANGED <<spans, op>>

GNext == SpanN \/ SpanS \/ ApplyStart \/ ApplyStep

(* Reading the grid *)

\* Mutant: field_at strides by the dimension itself.
FieldAtOwnSize(x) ==
  LET off[d \in DOMAIN spans] ==
        IF d = 0 THEN 0 ELSE off[d - 1] + x[d] * NOf(d) + x[d - 1]
  IN off[Dims - 1]

FieldAt(x) ==
  LET off[d \in DOMAIN spans] ==
        IF d = 0 THEN 0
        ELSE off[d - 1] + x[d] * NOf(d - 1) + x[d - 1]
  IN off[Dims - 1]

\* The heat map is drawn row by row from raw(): rows along the second
\* dimension, columns along the first.
Pixel(row, col) == field[row * NOf(0) + col]

\* gen_VBO_and_EBO: the points row by row, the last of a row and the last row
\* pushed apart, z running over the field; six indices for each quad.
Vbo == LET xn == NOf(0) IN
  [z \in 0 .. FieldCount - 1 |->
     <<spans[0][z % xn], spans[1][z \div xn], field[z]>>]
Ebo == LET xn == NOf(0) IN
  [q \in (0 .. xn - 2) \X (0 .. NOf(1) - 2) |->
     LET base == q[2] * xn + q[1]
     IN <<base + 1, base, base + xn, base + xn, base + xn + 1, base + 1>>]

(* Properties *)

Applied == op /= NoOp /\ at = FieldCount
Cells == (0 .. NOf(0) - 1) \X (0 .. NOf(1) - 1)
ValueOf(c) == Sampled(op, [d \in {0, 1} |-> spans[d][c[d + 1]]])
Stored == {field[k] : k \in DOMAIN field}

\* Each sample is found under its own indices by field_at, is the pixel drawn
\* at its place, and is a point of the mesh at its coordinates.
FoundWhereStored ==
  \A c \in Cells :
    /\ field[FieldAt([d \in {0, 1} |-> c[d + 1]])] = ValueOf(c)
    /\ Pixel(c[2], c[1]) = ValueOf(c)
    /\ <<spans[0][c[1]], spans[1][c[2]], ValueOf(c)>> \in
         {Vbo[z] : z \in DOMAIN Vbo}

\* The two triangles of a quad share its diagonal and take its four corners.
MeshCovers ==
  \A q \in DOMAIN Ebo :
    LET e == Ebo[q]
        X(k) == {Vbo[e[j]][1] : j \in k}
        Y(k) == {Vbo[e[j]][2] : j \in k}
        xs == {spans[0][q[1]], spans[0][q[1] + 1]}
        ys == {spans[1][q[2]], spans[1][q[2] + 1]}
    IN /\ {<<Vbo[e[j]][1], Vbo[e[j]][2]>> : j \in 1 .. 6} = xs \X ys
       /\ Cardinality({e[1], e[2], e[3]}) = 3
       /\ Cardinality({e[4], e[5], e[6]}) = 3
       /\ X(1 .. 3) = xs /\ Y(4 .. 6) = ys

\* The colour scale: the maximum is right when some sample is positive, and
\* the minimum when it is not positive (a positive first sample is never tried
\* for it).
ScaleIsTrue ==
  /\ (\E v \in Stored : v > 0) => gmax = Max(Stored)
  /\ (\E v \in Stored : v <= 0) => gmin = Min(Stored)

\* A function sampled over two spans is read back, drawn and meshed as it was
\* sampled, and its scale spans it: what the dock plots is the expression
\* (hon-opt.cpp:53-54, 133-137).
GridIsWhole == Applied => FoundWhereStored /\ MeshCovers /\ ScaleIsTrue
=============================================================================
