------------------------------- MODULE LiveNotices ------------------------------
(***************************************************************************)
(* What a new snapshot of the robot makes the page say: the attention      *)
(* items of buildLiveMonitoringHeadline (lib/liveMonitoringUx.ts), the     *)
(* cards that are kept in step with them, and the notices of what changed  *)
(* since the last snapshot (lib/liveMonitoringNotifications.ts).  Texts    *)
(* are left out; a price is an integer, and 0 when it is not known.        *)
(***************************************************************************)
EXTENDS Integers, Sequences, SequencesExt, FiniteSets

CONSTANTS
  MostItems,     \* attention items that are kept (3)
  LeastShift     \* SIGNIFICANT_NOTIONAL_DELTA_MIN and SIGNIFICANT_PNL_DELTA_MIN, in the model's money

\* SYNC_ATTENTION_KEYS: the items that have a card in the centre.
SyncedKeys == {"stale", "orders_unavailable", "liquidation_risk", "stop_loss_risk"}

Gap(a, b) == IF a >= b THEN a - b ELSE b - a

\* buildDistancePct(mark, trigger) < pct
Within(mark, trigger, pct) == mark # 0 /\ trigger # 0 /\ 100 * Gap(trigger, mark) < pct * mark

Item(condition, key, severity) ==
  IF condition THEN <<[key |-> key, severity |-> severity]>> ELSE << >>

RiskItem(s, key, trigger) ==
  Item(Within(s.mark, trigger, 5), key, IF Within(s.mark, trigger, 2) THEN "danger" ELSE "warning")

\* What calls for attention, in the order of the code; the diagnostics are those above the level of info.
Conditions(s) ==
  Item(s.stale, "stale", IF s.partial THEN "danger" ELSE "warning")
  \o Item(s.capped, "fills_capped", "warning")
  \o Item(s.clipped, "funding_window_clipped", "warning")
  \o Item(s.missing, "orders_unavailable", "warning")
  \o RiskItem(s, "liquidation_risk", s.liquidation)
  \o RiskItem(s, "stop_loss_risk", s.stop)
  \o s.diagnostics

\* One severity of dedupeAttentionItems: of a key the first is kept.
KeepFirst(kept, item, severity) ==
  IF item.severity # severity \/ \E k \in DOMAIN kept : kept[k].key = item.key
  THEN kept ELSE Append(kept, item)
KeptOf(kept, items, severity) == FoldLeft(LAMBDA k, item : KeepFirst(k, item, severity), kept, items)

\* dedupeAttentionItems: the most severe first, otherwise as they come.
Deduped(items) == KeptOf(KeptOf(KeptOf(<< >>, items, "danger"), items, "warning"), items, "info")

\* attentionItems
AttentionItems(s) ==
  LET items == Deduped(Conditions(s)) IN
  SubSeq(items, 1, IF Len(items) < MostItems THEN Len(items) ELSE MostItems)

\* Mutated form: a card is never dismissed.
Dismissed_None(shown) == {}

\* The cards of buildSyncedAttentionNotifications: a key has a card or is dismissed.
Dismissed(shown) == SyncedKeys \ shown

Cards(s) == {AttentionItems(s)[i].key : i \in DOMAIN AttentionItems(s)} \cap SyncedKeys

\* What is in the centre after a snapshot: the card of a failed fetch is dismissed too.
CentreAfter(centre, s) == ((centre \ {"fetch"}) \ Dismissed(Cards(s))) \cup Cards(s)

-----------------------------------------------------------------------------
(* What changed.                                                           *)

Known(fills) == {fills[i].id : i \in DOMAIN fills}

\* Mutated form: a fill is known by its order.
NewFills_ByOrder(previous, next) ==
  {i \in DOMAIN next.fills :
    \A j \in DOMAIN previous.fills : previous.fills[j].order # next.fills[i].order}

\* newFills, by their place in the snapshot.
NewFills(previous, next) == {i \in DOMAIN next.fills : next.fills[i].id \notin Known(previous.fills)}

\* inferFillLifecycle, when the direction of the robot is known.
Lifecycle(fill, long) == IF (fill.side = "buy") = long THEN "live_fill_open" ELSE "live_fill_close"

\* An order that has been filled in part keeps its key: quantity is what it was placed for.
OrderKey(o) == <<o.id, o.price, o.quantity>>
OrderKeys(orders) == {OrderKey(o) : o \in orders}

Larger(a, b) == IF a >= b THEN a ELSE b

\* A change of at least the minimum and of at least a share (one part in so many) of what it is a share of.
IsShift(before, after, whole, parts) ==
  LET gap == Gap(before, after) IN gap >= LeastShift /\ parts * gap >= whole

When(condition, notice) == IF condition THEN {<<notice, 0>>} ELSE {}

FillNotices == {"live_fill_open", "live_fill_close"}

\* detectLiveMonitoringNotifications after the first snapshot, without the cards: pairs of what is told
\* and, of a fill, which one.
Notices(previous, next, long) ==
  {<<Lifecycle(next.fills[i], long), next.fills[i].id>> : i \in NewFills(previous, next)}
  \cup When(OrderKeys(next.orders) \ OrderKeys(previous.orders) # {}, "live_open_orders_added")
  \cup When(OrderKeys(previous.orders) \ OrderKeys(next.orders) # {}, "live_open_orders_removed")
  \cup When(previous.state # next.state, "live_robot_state_changed")
  \cup When((previous.position = 0) # (next.position = 0), "live_position_side_changed")
  \cup When(IsShift(previous.notional, next.notional, previous.notional, 4), "live_position_notional_shift")
  \cup When(IsShift(previous.pnl, next.pnl, next.investment, 20), "live_total_pnl_shift")
=============================================================================
