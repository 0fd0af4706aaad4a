-------------------------------- MODULE Grid --------------------------------
(***************************************************************************)
(* GridSampler (hyperopt-samplers: grid.rs): trial n is point n of a mixed *)
(* radix odometer over the registered axes, each a name and its values.    *)
(***************************************************************************)
EXTENDS Distributions

CONSTANT USize   \* 2^64, or a small stand-in

ASSUME USizeAssumption == USize \in Nat \ {0, 1}

Axis(name, values) == [name |-> name, values |-> values]

Radix(axis) == Max({Len(axis.values), 1})

\* product::<usize>() wraps (in a release build).
GridSize(axes) ==
    LET product[k \in 0 .. Len(axes)] ==
            IF k = 0 THEN 1 ELSE (product[k - 1] * Radix(axes[k])) % USize
    IN  Max({1, product[Len(axes)]})

\* Of the last k axes, saturating.
TailProduct(axes, k) ==
    LET tail[j \in 0 .. Len(axes)] ==
            IF j = 0 THEN 1
            ELSE Min({tail[j - 1] * Radix(axes[Len(axes) + 1 - j]), USize - 1})
    IN  tail[k]

\* Mutant of SuffixProduct: axis i itself is counted in.
SuffixFromAxis(axes, i) == TailProduct(axes, Len(axes) + 1 - i)

\* The product of the radices after axis i.
SuffixProduct(axes, i) == TailProduct(axes, Len(axes) - i)

Registered(axes, name) == {i \in DOMAIN axes : axes[i].name = name}

\* The loop runs backwards, so of two axes of one name the first counts.
GridValues(axes, name) == axes[Min(Registered(axes, name))].values

HasGrid(axes, name) ==
    Registered(axes, name) # {} /\ GridValues(axes, name) # <<>>

IndexFor(axes, name, n) ==
    ((n % GridSize(axes)) \div SuffixProduct(axes, Min(Registered(axes, name))))
        % Len(GridValues(axes, name))

GridAnswers(axes, n, name, d) ==
    IF HasGrid(axes, name)
    THEN {GridValues(axes, name)[IndexFor(axes, name, n) + 1]}
    ELSE SampleValues(d)

=============================================================================
