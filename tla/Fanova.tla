-------------------------------- MODULE Fanova --------------------------------
(***************************************************************************)
(* A regression tree of the fANOVA forest, and the variances read off its  *)
(* leaves (hyperopt-viz: fanova.rs).                                       *)
(*                                                                         *)
(* Coordinates are doubled, so the ends of a discrete domain and the       *)
(* midpoints between values are integers; predictions are multiplied by    *)
(* Scale, so a mean is one.  The trees of a forest differ in the rows they *)
(* draw and the features they consider; any draw and choice is possible.   *)
(***************************************************************************)
EXTENDS Importance

CONSTANTS Studies,   \* histories to report on
          Options    \* [min_samples_split, max_depth, max_features]

VARIABLES study, options,   \* what is to be reported, and how
          data,     \* the Dataset made of the study
          draw,     \* the bootstrap: how often each row is drawn; <<>> before
          open,     \* nodes yet to be built: [box, rows, depth]
          leaves    \* leaves built: [box, value]

vars == <<study, options, data, draw, open, leaves>>

-----------------------------------------------------------------------------
(* Dataset *)

Names(h) == UNION {Keys(h[n].params) : n \in CompletedTrials(h)}

\* The distribution recorded for a name first.
DistOf(h, x) == RecordOf(h[Min(Having(h, x))], x).dist

\* encode_bounds: discrete domains are half a unit wider on either side.
Bounds(d) ==
    CASE d.kind = "Uniform"     -> [lo |-> 2 * d.low, hi |-> 2 * d.high]
      [] d.kind = "LogUniform"  -> IF d.low > 0 THEN [lo |-> 2 * Ln(d.low), hi |-> 2 * Ln(d.high)]
                                                ELSE [lo |-> 0, hi |-> 0]
      [] d.kind = "IntUniform"  -> [lo |-> 2 * d.low - 1, hi |-> 2 * d.high + 1]
      [] d.kind = "Categorical" -> [lo |-> -1, hi |-> 2 * Len(d.choices) - 1]

\* encode: None for a value of another type, or one that has no logarithm or index.
Coordinate(d, v) ==
    IF ~VariantMatches(d, v) THEN None
    ELSE CASE d.kind = "LogUniform"  -> IF v.num > 0 THEN 2 * Ln(v.num) ELSE None
           [] d.kind = "Categorical" ->
                LET at == {i \in DOMAIN d.choices : d.choices[i] = v.label}
                IN  IF at = {} THEN None ELSE 2 * (Min(at) - 1)
           [] OTHER                  -> 2 * v.num

CoordinateOf(h, n, x) ==
    IF RecordOf(h[n], x) = None THEN None ELSE Coordinate(DistOf(h, x), RecordOf(h[n], x).value)

\* The trials that carry every parameter.
RowsOf(h) == {n \in CompletedTrials(h) : \A x \in Names(h) : CoordinateOf(h, n, x) # None}

\* A history has finitely many trials, and where a logarithm is taken of a value it is
\* a power of two.
ASSUME StudiesAssumption ==
    \A h \in Studies :
        /\ DOMAIN h \subseteq Nat /\ IsFiniteSet(DOMAIN h)
        /\ \A n \in CompletedTrials(h) :
              /\ h[n].value \in Floats /\ h[n].params \in Seq(Entry(STRING, ParamRecord))
              /\ \A x \in Keys(h[n].params) :
                    LET v == RecordOf(h[n], x).value
                    IN  DistOf(h, x).kind = "LogUniform" /\ v.type = "Float" /\ v.num > 0 =>
                            \E k \in 0 .. v.num : Exp[k] = v.num

\* from_trials: the design matrix.
DatasetOf(h) ==
    [bounds |-> [x \in Names(h) |-> Bounds(DistOf(h, x))],
     x      |-> [n \in RowsOf(h) |-> [x \in Names(h) |-> CoordinateOf(h, n, x)]],
     y      |-> [n \in RowsOf(h) |-> h[n].value]]

\* Nothing is reported of fewer than two rows.
Usable(h) == Names(h) # {} /\ Cardinality(RowsOf(h)) >= 2

Features == DOMAIN data.bounds
Rows     == DOMAIN data.x

-----------------------------------------------------------------------------
(* Tree: fit and build *)

Init ==
    /\ study \in {h \in Studies : Usable(h)}
    /\ options \in Options
    /\ data = DatasetOf(study)
    /\ draw = <<>>
    /\ open = {}
    /\ leaves = {}

\* As many rows as there are, drawn with replacement, and the root.
Fit(b) ==
    /\ draw = <<>>
    /\ draw' = b
    /\ open' = {[box |-> data.bounds, rows |-> {n \in Rows : b[n] > 0}, depth |-> 0]}
    /\ UNCHANGED <<study, options, data, leaves>>

Bootstraps ==
    LET n == Cardinality(Rows) IN {b \in [Rows -> 0 .. n] : SumFunction(b) = n}

\* Rows count as often as they were drawn.
Drawn(S)   == SumFunction([n \in S |-> draw[n]])
Total(S)   == SumFunction([n \in S |-> draw[n] * data.y[n]])
Squares(S) == SumFunction([n \in S |-> draw[n] * (data.y[n] * data.y[n])])

Mean(S)    == IF S = {} THEN 0 ELSE (Scale * Total(S)) \div Drawn(S)
Error(S)   == Errors(Drawn(S), Total(S), Squares(S))

Done(node) ==
    \/ Drawn(node.rows) < options.min_samples_split
    \/ node.depth >= options.max_depth
    \/ Error(node.rows) = 0

\* Any so many of the features.
FeatureChoices ==
    LET d == Cardinality(Features)
        k == IF options.max_features = None THEN d ELSE Max({1, Min({options.max_features, d})})
    IN  {F \in SUBSET Features : Cardinality(F) = k}

\* Is no row of S between rows a and b in x?
Neighbours(S, a, b, x) ==
    /\ data.x[a][x] < data.x[b][x]
    /\ ~\E n \in S : data.x[a][x] < data.x[n][x] /\ data.x[n][x] < data.x[b][x]

\* The midpoints between neighbouring values; `last' is the lower of the two.
Splits(S, F) ==
    {[feature   |-> t[3], last |-> data.x[t[1]][t[3]],
      threshold |-> (data.x[t[1]][t[3]] + data.x[t[2]][t[3]]) \div 2] :
        t \in {u \in S \X S \X F : Neighbours(S, u[1], u[2], u[3])}}

Below(S, s) == {n \in S : data.x[n][s.feature] <= s.threshold}

\* Mutant of Prefix: the sums stop one value short.
PrefixShort(S, s) == {n \in S : data.x[n][s.feature] < s.last}

\* The rows the prefix sums of a split are of: in the order of the feature, those up to
\* the value before the threshold.
Prefix(S, s) == {n \in S : data.x[n][s.feature] <= s.last}

\* The left side by the prefix sums, the right side by what they lack of the totals.
Cost(S, s) ==
    LET left == Prefix(S, s)
    IN  Error(left) + Errors(Drawn(S) - Drawn(left), Total(S) - Total(left),
                             Squares(S) - Squares(left))

\* The cheapest splits; rounding decides between equals.
Best(S, F) == {s \in Splits(S, F) : \A r \in Splits(S, F) : Cost(S, s) <= Cost(S, r)}

MakeLeaf(node) ==
    /\ Done(node) \/ \E F \in FeatureChoices : Splits(node.rows, F) = {}
    /\ open' = open \ {node}
    /\ leaves' = leaves \cup {[box |-> node.box, value |-> Mean(node.rows)]}
    /\ UNCHANGED <<study, options, data, draw>>

\* Mutant of Child: the right side keeps the lower end it had.
ChildUncut(node, s, left) ==
    [box   |-> [node.box EXCEPT ![s.feature].hi = IF left THEN s.threshold ELSE @],
     rows  |-> IF left THEN Below(node.rows, s) ELSE node.rows \ Below(node.rows, s),
     depth |-> node.depth + 1]

\* One side of a split.
Child(node, s, left) ==
    [box   |-> IF left THEN [node.box EXCEPT ![s.feature].hi = s.threshold]
                       ELSE [node.box EXCEPT ![s.feature].lo = s.threshold],
     rows  |-> IF left THEN Below(node.rows, s) ELSE node.rows \ Below(node.rows, s),
     depth |-> node.depth + 1]

\* A side without rows, which needs a threshold rounded onto a value, does not occur here.
Split(node) ==
    /\ ~Done(node)
    /\ \E F \in FeatureChoices : \E s \in Best(node.rows, F) :
          open' = (open \ {node}) \cup {Child(node, s, TRUE), Child(node, s, FALSE)}
    /\ UNCHANGED <<study, options, data, draw, leaves>>

Next ==
    \/ \E b \in Bootstraps : Fit(b)
    \/ \E node \in open : MakeLeaf(node) \/ Split(node)

Spec == Init /\ [][Next]_vars

-----------------------------------------------------------------------------
(* TreeStats: of a finished tree.  With a feature whose domain has no width *)
(* every box is one unit wide.                                              *)

Extent(b) == b.hi - b.lo

HasWidth(x) == Extent(data.bounds[x]) > 0

Side(box, x) == IF HasWidth(x) THEN Extent(box[x]) ELSE 1

Product(f) == FoldFunction(LAMBDA a, b : a * b, 1, f)

SideProduct(box, D) == Product([x \in D |-> Side(box, x)])

Width(D) == SideProduct(data.bounds, D)

\* The mean prediction, times Width(Features).
FBar == SumFunction([l \in leaves |-> SideProduct(l.box, Features) * l.value])

Squared(x) == x * x

\* Mutant of TotalVar: every leaf counts alike.
TotalVarUnweighted ==
    SumFunction([l \in leaves |-> Squared(Width(Features) * l.value - FBar)])

\* The variance of the prediction, times Width(Features)^3.
TotalVar ==
    SumFunction([l \in leaves |-> SideProduct(l.box, Features)
                                     * Squared(Width(Features) * l.value - FBar)])

\* The intervals between neighbouring leaf boundaries in a dimension.
Intervals(x) ==
    LET cuts == {l.box[x].lo : l \in leaves} \cup {l.box[x].hi : l \in leaves}
    IN  {i \in [lo : cuts, hi : cuts] : i.lo < i.hi /\ ~\E c \in cuts : i.lo < c /\ c < i.hi}

\* Does the box contain the middle of the cell in every dimension of the cell?
Covers(box, cell) ==
    \A x \in DOMAIN cell : /\ 2 * box[x].lo <= cell[x].lo + cell[x].hi
                           /\ cell[x].lo + cell[x].hi <= 2 * box[x].hi

\* Mutant of Marginal: leaves count fully, whatever they span elsewhere.
MarginalUnweighted(D, cell) ==
    SumFunction([l \in {k \in leaves : Covers(k.box, cell)} |-> l.value])

\* The marginal prediction on a cell of the dimensions D, times Width(Features \ D).
Marginal(D, cell) ==
    SumFunction([l \in {k \in leaves : Covers(k.box, cell)} |->
                    l.value * SideProduct(l.box, Features \ D)])

\* The cells of the grid they make in the dimensions D.
Cells(D) ==
    {c \in [D -> UNION {Intervals(x) : x \in D}] : \A x \in D : c[x] \in Intervals(x)}

Measure(cell) == Product([x \in DOMAIN cell |-> Extent(cell[x])])

\* The variance of the marginal over D, times Width(Features)^3.
MarginalVariance(D) ==
    IF \E x \in D : ~HasWidth(x) THEN 0
    ELSE Width(Features \ D)
            * SumFunction([c \in Cells(D) |->
                    Measure(c) * Squared(Marginal(D, c) * Width(D) - FBar)])

-----------------------------------------------------------------------------
Pieces == open \cup leaves

InBox(n, box) == \A x \in Features : box[x].lo <= data.x[n][x] /\ data.x[n][x] <= box[x].hi

Boxes == [Features -> [lo : Int, hi : Int]]

\* Every row lies in the domain recorded first: the ranges of the study have not moved.
InDomain ==
    /\ data.bounds \in Boxes /\ data.x \in [Rows -> [Features -> Int]]
    /\ \A n \in Rows : InBox(n, data.bounds)

\* No objective has answered with NaN.
Measured == \A n \in Rows : data.y[n] \in Int

Holds(box, c, D) == \A x \in D : box[x].lo <= c[x] /\ c[x] < box[x].hi

Breadth == {x \in Features : HasWidth(x)}

\* The unit cells of the domain in the dimensions D.
UnitCells(D) ==
    {c \in [D -> UNION {data.bounds[x].lo .. data.bounds[x].hi - 1 : x \in D}] :
        Holds(data.bounds, c, D)}

\* However the tree grows, its nodes and leaves tile the domain: every cell lies in
\* exactly one of them, and the rows of a node lie in its box (fanova.rs:333-337, 546,
\* "the leaves tile the box", which all the exact integrals rest on).
Tiles ==
    InDomain /\ draw # <<>> =>
        /\ \A node \in open : \A n \in node.rows : InBox(n, node.box)
        /\ \A c \in UnitCells(Breadth) :
              \E p \in Pieces : /\ Holds(p.box, c, Breadth)
                                /\ \A q \in Pieces : Holds(q.box, c, Breadth) => q = p

Finished == draw # <<>> /\ open = {}

Prediction(c) ==
    (CHOOSE l \in leaves : Holds(l.box, c, Breadth)).value

\* The definition: integrate the prediction over the other dimensions cell by cell, and
\* take the variance of what remains.
Join(u, v) == [x \in DOMAIN u \cup DOMAIN v |-> IF x \in DOMAIN u THEN u[x] ELSE v[x]]

Integral(D, u) == SumFunction([v \in UnitCells(Breadth \ D) |-> Prediction(Join(u, v))])

VarianceByCells(D) ==
    LET mean == SumFunction([c \in UnitCells(Breadth) |-> Prediction(c)])
    IN  Width(Breadth \ D)
            * SumFunction([u \in UnitCells(D) |-> Squared(Integral(D, u) * Width(D) - mean)])

\* What the walk over the leaves computes for one parameter or two is the variance of
\* the marginal, exactly (fanova.rs:9-12, 520-523).
MarginalExact ==
    Finished /\ InDomain /\ Measured =>
        \A D \in SUBSET Features : D # {} /\ Cardinality(D) <= 2 =>
            MarginalVariance(D) = IF D \subseteq Breadth THEN VarianceByCells(D) ELSE 0

\* Of two parameters the main effects and the interaction share the total variance: no
\* part is negative or more than all, and max(0) never hides anything
\* (fanova.rs:125-138, 171-173).
Decomposes ==
    Finished /\ InDomain /\ Measured =>
        \A x, y \in Breadth : x # y =>
            LET mains == MarginalVariance({x}) + MarginalVariance({y})
                joint == MarginalVariance({x, y})
            IN  mains <= joint /\ joint <= TotalVar
                /\ (Features = {x, y} => joint = TotalVar)

SplitOn == {x \in Features : \E p \in Pieces : p.box[x] # data.bounds[x]}

\* A tree of all the rows splits first on the parameter parameter_importance calls the
\* most important, when numbers are all there is (fanova.rs:3-7; importance.rs:19-25).
RootIsTopStump ==
    /\ InDomain /\ Measured /\ draw = [n \in Rows |-> 1]
    /\ FeatureChoices = {Features} /\ CompletedTrials(study) = Rows
    /\ \A n \in Rows, x \in Features : ~IsLabel(RecordOf(study[n], x).value)
    => (Cardinality(Pieces) = 2 =>
            \A x \in SplitOn, y \in Features :
                Stump(study, y).explained <= Stump(study, x).explained)

=============================================================================
