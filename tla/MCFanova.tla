------------------------------- MODULE MCFanova -------------------------------
(* The studies of Fanova for TLC: a few completed trials over two parameters. *)
EXTENDS Fanova

Param(name, d, v) == [key |-> name, val |-> Sampled(d, v)]

Ran(n, params, v) ==
    [NewTrial(n) EXCEPT !.params = params, !.value = v, !.state = "Complete"]

Wide  == Numeric("Uniform", 0, 1)
Log   == Numeric("LogUniform", 1, 4)
Int2  == Numeric("IntUniform", 0, 1)
Point == Numeric("Uniform", 1, 1)
AB    == Categorical(<<"a", "b">>)

ValuesOf(d) ==
    CASE d = Wide  -> {FloatOf(x) : x \in 0 .. 1}
      [] d = Log   -> {FloatOf(x) : x \in {1, 2, 4}}
      [] d = Int2  -> {IntOf(x) : x \in 0 .. 1}
      [] d = Point -> {FloatOf(1)}
      [] d = AB    -> {LabelOf("a"), LabelOf("b")}

\* All the studies of three trials over x and y, in the order of their values: it is
\* the rows that count, not their order.
Over(dx, dy, objective) ==
    {[k \in 0 .. 2 |-> Ran(k, <<Param("x", dx, s.xs[k]), Param("y", dy, s.ys[k])>>, s.vs[k])] :
        s \in [xs : [0 .. 2 -> ValuesOf(dx)], ys : [0 .. 2 -> ValuesOf(dy)],
               vs : {v \in [0 .. 2 -> objective] : v[0] <= v[1] /\ v[1] <= v[2]}]}

\* The same studies when trial n has left out y.
WithoutY(h, n) == [h EXCEPT ![n].params = SubSeq(@, 1, 1)]

\* Four trials, one at each corner.
Corners(objective) ==
    {[k \in 0 .. 3 |-> Ran(k, <<Param("x", Int2, IntOf(k % 2)), Param("y", Int2, IntOf(k \div 2))>>,
                             vs[k])] : vs \in [0 .. 3 -> objective]}

MCStudies ==
    LET wide == Over(Wide, Int2, {0, 1})
    IN  wide \cup {WithoutY(h, 1) : h \in wide} \cup Over(Log, AB, {0, 1})
             \cup Over(Log, Point, {0, 1, 3}) \cup Corners({0, 1})

MCOptions ==
    {[min_samples_split |-> 2, max_depth |-> 64, max_features |-> None],
     [min_samples_split |-> 2, max_depth |-> 64, max_features |-> 1],
     [min_samples_split |-> 3, max_depth |-> 1, max_features |-> None]}

=============================================================================
