-------------------------------- MODULE LiveViews -------------------------------
(***************************************************************************)
(* The live panel over the life of a robot: every snapshot is turned into  *)
(* notices and cards (LiveNotices), into the money of the ledger           *)
(* (LiveSnapshot) and into its grids (LiveLedger).  useLiveTradingSync     *)
(* takes the snapshots, LiveTradingPanel and LiveLedgerSection show them.  *)
(* The exchange and its grid robot are external: an order fills at once or *)
(* in parts, and when it is filled the order at the other end of its grid  *)
(* is placed.                                                              *)
(***************************************************************************)
EXTENDS LiveSnapshot, LiveNotices

CONSTANTS
  NoReport,      \* no snapshot yet
  Lines,         \* the lines of the grid, from the lowest
  OrderSize,     \* the quantity of an order
  PageOfFills,   \* fills in a snapshot whose fills are capped
  Situations,    \* what else a snapshot can say: [stale, partial, capped, clipped, missing, mark, ...]
  FundingPaid,   \* what the robot has paid for its position
  MaxFills, MaxSyncs

\* The diagnostics have keys of their own.
Situation ==
  [stale : BOOLEAN, partial : BOOLEAN, capped : BOOLEAN, clipped : BOOLEAN, missing : BOOLEAN,
   mark : Int, liquidation : Int, stop : Int, pnl : Int, investment : Int, state : STRING,
   diagnostics : Seq([key : STRING \ SyncedKeys, severity : STRING])]

\* A fill, an order in the book, and a snapshot.
Filled == [id : Int, order : Int, side : {"buy", "sell"}, price : Int, quantity : Int, placed : Int, time : Int]
Placed == [id : Int, side : {"buy", "sell"}, price : Int, quantity : Int, filled : Int, placed : Int,
           status : {"live", "partially_filled"}, grid : 1 .. Len(Lines) - 1]
Report ==
  [stale : BOOLEAN, partial : BOOLEAN, capped : BOOLEAN, clipped : BOOLEAN, missing : BOOLEAN,
   mark : Int, liquidation : Int, stop : Int, pnl : Int, investment : Int, state : STRING,
   diagnostics : Seq([key : STRING \ SyncedKeys, severity : STRING]),
   at : Int, position : Int, notional : Int, fills : Seq(Filled), orders : SUBSET Placed, complete : BOOLEAN]

ASSUME ViewsAssumption ==
  /\ Direction \in {"long", "short"}
  /\ {OrderSize, Spacing, MostItems, LeastShift} \subseteq Nat \ {0}
  /\ {Started, StartPrice} \subseteq Int /\ BaseWindow \in Nat /\ Lines \in Seq(Int) /\ PageOfFills \in Nat
  /\ Situations \subseteq Situation /\ NoReport \notin Report

\* The ledger can tell the lines apart: where a grid that closes at a line was opened is, up to the
\* tolerance, the other line of the same grid and no line of another.
ASSUME LinesAssumption ==
  LET Opened(g) == Lines[IF Direction = "long" THEN g ELSE g + 1]
      Closed(g) == Lines[IF Direction = "long" THEN g + 1 ELSE g]
  IN \A g, h \in 1 .. Len(Lines) - 1 : PricesMatch(Opened(g), Closed(h)) <=> g = h

VARIABLES
  clock,         \* the exchange's time
  fills,         \* what has been filled, in order
  orders,        \* the orders in the book
  snapshot,      \* the last snapshot, or NoReport
  centre,        \* the keys of the cards in the notification centre
  told,          \* what the last answer told of
  syncs          \* number of answers, for TLC

viewsVars == <<clock, fills, orders, snapshot, centre, told, syncs>>

Long == Direction = "long"

-----------------------------------------------------------------------------
(* The robot.                                                              *)

\* The order of a grid (its lower line), when it is empty and when it is not.
Order(grid, holds, placed) ==
  [id |-> placed * Len(Lines) + grid,
   side |-> IF holds THEN ClosingSide ELSE OpeningSide,
   price |-> Lines[IF holds = Long THEN grid + 1 ELSE grid],
   quantity |-> OrderSize, filled |-> 0, placed |-> placed, status |-> "live", grid |-> grid]

\* The grids that hold a position from the start.
BaseGrid(grid) == IF Long THEN Lines[grid] >= StartPrice ELSE Lines[grid + 1] <= StartPrice

Net == LET Signed(f) == IF f.side = OpeningSide THEN f.quantity ELSE -f.quantity
       IN OrderSize * Cardinality({g \in 1 .. Len(Lines) - 1 : BaseGrid(g)})
            + FoldLeft(LAMBDA sum, f : sum + Signed(f), 0, fills)

\* The exchange fills a quantity of an order.
Fill(order, quantity) ==
  /\ Len(fills) < MaxFills
  /\ quantity <= order.quantity - order.filled
  /\ clock' = clock + 2
  /\ fills' = Append(fills, [id |-> Len(fills) + 1, order |-> order.id, side |-> order.side,
                             price |-> order.price, quantity |-> quantity,
                             placed |-> order.placed, time |-> clock + 1])
  /\ orders' = (orders \ {order})
       \cup IF quantity = order.quantity - order.filled
            THEN {Order(order.grid, order.side = OpeningSide, clock + 2)}
            ELSE {[order EXCEPT !.filled = @ + quantity, !.status = "partially_filled"]}
  /\ UNCHANGED <<snapshot, centre, told, syncs>>

-----------------------------------------------------------------------------
(* The panel.                                                              *)

\* What the back end reports, the newest fills first.  Stale is the last snapshot once more.
Reported(s) ==
  IF s.stale /\ snapshot # NoReport
  THEN [snapshot EXCEPT !.stale = TRUE, !.partial = s.partial]
  ELSE [stale |-> s.stale, partial |-> s.partial, capped |-> s.capped, clipped |-> s.clipped,
        missing |-> s.missing, mark |-> s.mark, liquidation |-> s.liquidation, stop |-> s.stop,
        diagnostics |-> s.diagnostics, state |-> s.state, pnl |-> s.pnl, investment |-> s.investment,
        at |-> clock, position |-> Net, notional |-> s.mark * Net,
        fills |-> SubSeq(Reverse(fills), 1,
                         IF s.capped /\ Len(fills) > PageOfFills THEN PageOfFills ELSE Len(fills)),
        orders |-> IF s.missing THEN {} ELSE orders,
        complete |-> ~s.missing /\ (s.capped => Len(fills) <= PageOfFills)]

\* The answer to a request of performRefresh.
Synced(s) ==
  /\ syncs < MaxSyncs
  /\ syncs' = syncs + 1
  /\ LET next == Reported(s) IN
     /\ snapshot' = next
     /\ told' = IF snapshot = NoReport THEN {} ELSE Notices(snapshot, next, Long)
     /\ centre' = CentreAfter(centre, next)
  /\ UNCHANGED <<clock, fills, orders>>

\* A request fails, for another reason than that it was given up.
Failed ==
  /\ syncs < MaxSyncs
  /\ syncs' = syncs + 1
  /\ centre' = centre \cup {"fetch"}
  /\ told' = {}
  /\ UNCHANGED <<clock, fills, orders, snapshot>>

ViewsInit ==
  /\ clock = Started
  /\ fills = << >>
  /\ orders = {Order(g, BaseGrid(g), Started) : g \in 1 .. Len(Lines) - 1}
  /\ snapshot = NoReport
  /\ centre = {}
  /\ told = {}
  /\ syncs = 0

ViewsNext ==
  \/ \E o \in orders, q \in 1 .. OrderSize : Fill(o, q)
  \/ \E s \in Situations : Synced(s)
  \/ Failed

ViewsSpec == ViewsInit /\ [][ViewsNext]_viewsVars

-----------------------------------------------------------------------------
(* Properties.                                                             *)

\* No order that opens a grid was filled in parts: an order in the book is paired with one lot only,
\* so the other parts of what it closes are in no group (takeMatchingOpenLot).
OpenedAtOnce(filled) ==
  \A i, j \in DOMAIN filled :
    filled[i].side = OpeningSide /\ filled[i].order = filled[j].order => i = j

\* The grids shown as open come to the position of the robot, whenever the snapshot has every fill
\* and every order, no order of it is filled in part and none was that opened a grid: pairing orders
\* with fills by price and time neither loses a grid nor counts one twice (buildGridLedgerGroups).
OpenGridsArePosition ==
  (/\ snapshot # NoReport
   /\ snapshot.complete
   /\ \A o \in snapshot.orders : o.status = "live"
   /\ OpenedAtOnce(snapshot.fills))
    => QuantityOf(OpenGroups(snapshot.fills, snapshot.orders)) = snapshot.position

\* What the reports say of a fill tells it from the others: parts of one order have trade ids in the
\* rows and in the order's bills, or, without bills, ids or an instant of their own; and bills without
\* ids speak for a fill that has money of its own or is alone in its instant.  (Parts of an order whose
\* bills have its id only are each given the money of the whole order.)
ToldApart(filled, billed, ids, known, money) ==
  \A i, j \in DOMAIN filled : i # j =>
    LET a == filled[i]  b == filled[j]
        instant == a.time \div Grain = b.time \div Grain
    IN /\ a.order = b.order => IF a.order \in billed /\ known # "none" THEN ids /\ known = "trade"
                               ELSE ids \/ ~instant
       /\ known = "none" => money \/ ~instant


\* A grid that was shown as closed stays as it was when more fills are known, and no end of a grid
\* is moved to another (takeMatchingCloseLot, FIFO over ascending fills).
ClosedGridsStay ==
  [][snapshot # NoReport /\ snapshot.complete /\ snapshot'.complete
       => IsPrefix(ClosedGroups(snapshot.fills), ClosedGroups(snapshot'.fills))]_viewsVars

\* Between two snapshots that have every fill, exactly the fills made in between are told of, each
\* part of an order for itself, and a snapshot that is stale tells of nothing
\* (detectLiveMonitoringNotifications).
ToldIsNew ==
  [][/\ syncs' # syncs /\ snapshot # NoReport
     /\ snapshot.complete /\ snapshot'.complete /\ snapshot' # snapshot
     => /\ {n \in told' : n[1] \in FillNotices}
             = {<<Lifecycle(f, Long), f.id>> :
                  f \in {g \in ToSet(fills) : snapshot.at < g.time /\ g.time <= snapshot'.at}}
        /\ snapshot'.stale => told' = {}]_viewsVars

\* What a card says is so in the last snapshot: the card of a risk that has passed, of a sync that
\* works again or of orders that are back does not stay (buildSyncedAttentionNotifications).
Holds(key) ==
  CASE key = "stale" -> snapshot.stale
    [] key = "orders_unavailable" -> snapshot.missing
    [] key = "liquidation_risk" -> Within(snapshot.mark, snapshot.liquidation, 5)
    [] key = "stop_loss_risk" -> Within(snapshot.mark, snapshot.stop, 5)
CardsHold == \A key \in centre \ {"fetch"} : Holds(key)

\* What the panel shows of the last snapshot is so: its cards, and its grids.
ShownIsTrue == CardsHold /\ OpenGridsArePosition

\* "re-emits synced attention notifications while risk remains active"
\* (lib/liveMonitoringNotifications.test.ts): a risk of liquidation that is there has its card.
RiskHasItsCard == snapshot # NoReport /\ Holds("liquidation_risk") => "liquidation_risk" \in centre
=============================================================================
