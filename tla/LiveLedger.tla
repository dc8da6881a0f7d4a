------------------------------- MODULE LiveLedger -------------------------------
(***************************************************************************)
(* The grids of a robot as the live panel shows them, rebuilt from every   *)
(* snapshot: buildGridLedgerGroups of components/live-trading/             *)
(* ledgerGrouping.ts.  The exchange reports fills and orders, and not      *)
(* which order closes which: a fill that closes is paired with an earlier  *)
(* one by direction, price and time, and an order in the book with what is *)
(* left of the fills.  Fees, money and the labels of a group are left out. *)
(***************************************************************************)
EXTENDS Integers, Sequences, SequencesExt

CONSTANTS
  Direction,   \* normalizeDirection: "long" or "short"
  Spacing,     \* gridSpacing
  Tolerance,   \* priceTolerance
  Started,     \* created_at of the robot
  StartPrice,  \* strategy_start_price
  BaseWindow   \* the 15 minutes in which the orders of the base position are placed

OpeningSide == IF Direction = "long" THEN "buy" ELSE "sell"
ClosingSide == IF Direction = "long" THEN "sell" ELSE "buy"

Distance(a, b) == IF a >= b THEN a - b ELSE b - a

\* pricesMatch, of a price and where the grid of a closing price was opened.
PricesMatch(price, closing) ==
  Distance(price, IF Direction = "long" THEN closing - Spacing ELSE closing + Spacing) <= Tolerance

\* isBaseOrderTimestamp
IsBaseOrder(placed) == Distance(placed, Started) <= BaseWindow

\* Mutated form: in the order in which the exchange reports them, the newest first.
Ascending_AsGiven(fills) == fills

\* ascendingFills: the fills before one are the earlier ones, and of one instant those given before it.
Ascending(fills) ==
  LET Before(i) == {j \in DOMAIN fills : \/ fills[j].time < fills[i].time
                                        \/ (fills[j].time = fills[i].time /\ j < i)}
  IN [n \in DOMAIN fills |-> fills[CHOOSE i \in DOMAIN fills : Cardinality(Before(i)) = n - 1]]

Group(lot, closing, quantity, source) ==
  [open |-> lot, close |-> closing, quantity |-> quantity, source |-> source]

\* The opening leg of a grid of the base position: no fill of it is known.
BaseLeg == [id |-> 0, side |-> OpeningSide, price |-> StartPrice, quantity |-> 0,
            placed |-> Started, time |-> Started]

Smaller(a, b) == IF a <= b THEN a ELSE b

\* Mutated form: at whatever price it was opened.
MayClose_AnyPrice(lot, fill) ==
  lot.rest > 0 /\ lot.fill.time <= fill.time /\ lot.fill.time < fill.placed

\* takeMatchingCloseLot, of one lot.
MayClose(lot, fill) ==
  /\ lot.rest > 0
  /\ lot.fill.time <= fill.time
  /\ lot.fill.time < fill.placed
  /\ PricesMatch(lot.fill.price, fill.price)

\* One lot in the loop over the lots that a fill closes, the first that matches being taken first;
\* taken is what the fill has left, the lots that stay and the groups so far.
TakeLot(fill, taken, lot) ==
  IF taken.left > 0 /\ MayClose(lot, fill)
  THEN LET quantity == Smaller(lot.rest, taken.left)
           rest == lot.rest - quantity
       IN [left |-> taken.left - quantity,
           lots |-> IF rest = 0 THEN taken.lots ELSE Append(taken.lots, [lot EXCEPT !.rest = rest]),
           closed |-> Append(taken.closed, Group(lot.fill, fill, quantity, "matched"))]
  ELSE [taken EXCEPT !.lots = Append(@, lot)]

\* A fill, into what the earlier ones came to: a lot, or an end for lots; what it closes of the base
\* position is told by when its order was placed, and what is left then is in no group.
TakeFill(book, fill) ==
  IF fill.side = OpeningSide
  THEN [book EXCEPT !.lots = Append(@, [fill |-> fill, rest |-> fill.quantity])]
  ELSE LET taken == FoldLeft(LAMBDA t, lot : TakeLot(fill, t, lot),
                             [left |-> fill.quantity, lots |-> << >>, closed |-> book.closed],
                             book.lots)
       IN [lots |-> taken.lots,
           closed |-> IF taken.left > 0 /\ IsBaseOrder(fill.placed)
                      THEN Append(taken.closed, Group(BaseLeg, fill, taken.left, "base_inferred"))
                      ELSE taken.closed]

\* What the fills come to: the lots with something left, and the groups that are closed.
FillsTaken(fills) == FoldLeft(TakeFill, [lots |-> << >>, closed |-> << >>], Ascending(fills))

\* takeMatchingOpenLot: the latest lot that the order was placed after, by index; 0 if there is none.
LotOfOrder(lots, order) ==
  LET fits == {i \in DOMAIN lots : lots[i].rest > 0 /\ lots[i].fill.time < order.placed
                                     /\ PricesMatch(lots[i].fill.price, order.price)}
  IN IF fits = {} THEN 0 ELSE CHOOSE i \in fits : \A j \in fits : lots[i].fill.time >= lots[j].fill.time

\* The lots without a quantity of one of them.
Left(lots, i, quantity) ==
  IF lots[i].rest = quantity THEN RemoveAt(lots, i) ELSE [lots EXCEPT ![i].rest = @ - quantity]

\* One order in the book, of those that close; one of the base position by when it was placed.
TakeOrder(book, order) ==
  LET i == LotOfOrder(book.lots, order) IN
  IF order.side # ClosingSide THEN book
  ELSE IF IsBaseOrder(order.placed)
  THEN [book EXCEPT !.open = Append(@, Group(BaseLeg, order, order.quantity, "base_inferred"))]
  ELSE IF i # 0
  THEN LET quantity == Smaller(book.lots[i].rest, order.quantity) IN
       [lots |-> Left(book.lots, i, quantity),
        open |-> Append(book.open, Group(book.lots[i].fill, order, quantity, "matched"))]
  ELSE book

\* The orders that are live, the newest first.
LiveOrders(orders) ==
  LET live == {o \in orders : o.status = "live"}
  IN CHOOSE s \in [1 .. Cardinality(live) -> live] :
       ToSet(s) = live /\ \A i, j \in DOMAIN s : i < j => s[i].placed >= s[j].placed

NoOrder == [side |-> "none"]

\* openGroups; what is left of the lots is shown only when no order at all is live.
OpenGroups(fills, orders) ==
  LET lots == FillsTaken(fills).lots
      live == LiveOrders(orders)
      Rest(k) == Group(lots[k].fill, NoOrder, lots[k].rest, "matched")
  IN IF live = << >> THEN [k \in DOMAIN lots |-> Rest(k)]
     ELSE FoldLeft(TakeOrder, [lots |-> lots, open |-> << >>], live).open

\* closedGroups
ClosedGroups(fills) == FillsTaken(fills).closed

QuantityOf(groups) == FoldLeft(LAMBDA sum, g : sum + g.quantity, 0, groups)
=============================================================================
