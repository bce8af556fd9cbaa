------------------------------- MODULE Bounds -------------------------------
(***************************************************************************)
(* What author_intent.py makes of a reach's two flow statistics: the bounds *)
(* of the discharges to simulate, the step a sweep opens with and the       *)
(* discharge grid all three lie on.                                         *)
(*                                                                          *)
(* Statistics and an AOI's factors are numbers of tenths: 10 stands for 1.0 *)
(* and 25 for 2.5.  A statistic may also be missing from its row, as NaN.   *)
(***************************************************************************)
EXTENDS Integers

CONSTANT NaN

ASSUME NaNAssumption == NaN \notin Int

Statistics == Int \union {NaN}

AtLeast(n, v) == IF v < n THEN n ELSE v

-----------------------------------------------------------------------------
(* load_q_bounds *)

\* np.ceil and astype(int), which turns NaN into the least integer (or, on
\* other processors, into 0), and the maximum with 1, which hides either.
WholeRaw(t) == IF t = NaN THEN 1 ELSE (t + 9) \div 10
Whole(t) == IF t = NaN THEN 1 ELSE AtLeast(1, (t + 9) \div 10)

\* int(x / 10), towards zero.
Tenth(x) == IF x < 0 THEN -((-x) \div 10) ELSE x \div 10

\* The bounds in order, and a tenth of the range before they were put in order.
Loaded(lower, upper) ==
    LET low == Whole(lower)  high == Whole(upper)
    IN  [low  |-> IF low > high THEN high ELSE low,
         high |-> IF low > high THEN low ELSE high,
         dq   |-> AtLeast(1, Tenth(high - low))]

-----------------------------------------------------------------------------
(* narrow: the factors pull the bounds inward as far as they leave a range *)

Pulled(b, lf, uf) ==
    [b EXCEPT !.low = AtLeast(1, (b.low * lf + 9) \div 10), !.high = AtLeast(1, (b.high * uf) \div 10)]

HasRange(b) == b.low < b.high

Narrowed(b, lf, uf) ==
    CASE HasRange(Pulled(b, lf, uf)) -> Pulled(b, lf, uf)
      [] ~HasRange(Pulled(b, lf, uf)) /\ HasRange(Pulled(b, 10, uf)) -> Pulled(b, 10, uf)
      [] OTHER -> b

-----------------------------------------------------------------------------
(* place_on_q_grid *)

GridMenu == {2, 5, 10, 50, 100}   \* desired_state_q_grid_menu_chk
MinLines == 10                    \* Q_GRID_MIN_LINES

\* The coarsest of the grids up to Q_GRID_SEED_CEILING that has enough lines.
GridOf(low, high) ==
    CASE (high - low) \div 10 >= MinLines -> 10
      [] (high - low) \div 10 < MinLines /\ (high - low) \div 5 >= MinLines -> 5
      [] OTHER -> 2

\* round(value / grid), half to even.
Nearest(v, g) ==
    LET down == v \div g  over == 2 * (v % g)
    IN  IF over > g \/ (over = g /\ down % 2 = 1) THEN down + 1 ELSE down

SnapDown(v, g) == Nearest(v, g) * g
Snap(v, g) == AtLeast(g, Nearest(v, g) * g)

PlacedFlat(b) ==
    LET g == GridOf(b.low, b.high)
    IN  [grid |-> g, low |-> Snap(b.low, g), high |-> Snap(b.high, g), dq |-> Snap(b.dq, g)]

\* Bounds that fall on one line of the grid are put one line apart.
Placed(b) ==
    LET g == GridOf(b.low, b.high)  low == Snap(b.low, g)  high == Snap(b.high, g)
    IN  [grid |-> g, low |-> low, high |-> IF high <= low THEN low + g ELSE high,
         dq |-> Snap(b.dq, g)]

\* What author writes for a reach; an AOI without q_bound_factors skips narrow,
\* which changes what factors of one do to no bound.
BoundsOf(lower, upper, lf, uf) == Placed(Narrowed(Loaded(lower, upper), lf, uf))

-----------------------------------------------------------------------------
(* What the database accepts *)

\* desired_state_flow_bounds_chk, _q_grid_menu_chk and _q_on_grid_chk.
Accepted(row) ==
    /\ row.low < row.high
    /\ row.grid \in GridMenu
    /\ row.low % row.grid = 0 /\ row.high % row.grid = 0 /\ row.dq % row.grid = 0

\* A range the sweep can start on: a positive lower bound and opening step, and
\* bounds no further than a grid line from what the statistics say.
Sweepable(row, b) ==
    /\ row.low >= row.grid /\ row.dq >= row.grid
    /\ row.low - b.low \in -row.grid..row.grid
    /\ row.high - b.high \in -row.grid..(2 * row.grid)
=============================================================================
