------------------------------ MODULE LiveSnapshot ------------------------------
(***************************************************************************)
(* The money of a live snapshot: what the server makes of a robot's fills  *)
(* and of the bills of its account (live_snapshot_exchange_adapters.py),   *)
(* and what the panel makes of that (normalizeLiveSnapshotResponse of      *)
(* lib/api/live.ts): one ledger of trades, fees and funding, days and a    *)
(* summary.  The bills only lend the fills their money: they are           *)
(* recognised by the ids of trade and order, or by their time.  The panel  *)
(* then looks for the fills among the entries that it was sent, and must   *)
(* find each.  Amounts are whole numbers, times are instants, the id 0 is  *)
(* none; currency, maker and notes are left out.                           *)
(***************************************************************************)
EXTENDS LiveLedger, FiniteSetsExt

CONSTANTS
  Grain,   \* how much of the exchange's time is one instant of a report
  Day      \* how many instants are a day

ASSUME SnapshotAssumption == {Grain, Day} \subseteq Nat \ {0}

-----------------------------------------------------------------------------
(* The exchange.                                                           *)

\* What a fill has realised, and its fee.
Earned(f) == IF f.side = ClosingSide THEN Spacing * f.quantity ELSE 0
Cost(f) == f.quantity

Entry(kind, amount, time, side, order, trade) ==
  [kind |-> kind, amount |-> amount, time |-> time, side |-> side, order |-> order, trade |-> trade]

\* The entries of a fill: its trade, and its fee if it has one.
EntriesOf(row) ==
  <<Entry("trade", row.pnl, row.time, row.side, row.order, row.trade)>>
    \o IF row.fee = 0 THEN << >>
       ELSE <<Entry("fee", -row.fee, row.time, row.side, row.order, row.trade)>>

\* The fills of the robot, with or without ids of trades, with or without money: an order's id stands
\* in for that of the trade (below 0: no trade has it), and rows with the same ids and instant are one
\* (build_okx_bot_fills, sort_and_dedupe_fills).
Rows(filled, ids, money) ==
  LET Row(f) == [trade |-> IF ids THEN f.id ELSE -f.order, order |-> f.order, side |-> f.side,
                 time |-> f.time \div Grain,
                 pnl |-> IF money THEN Earned(f) ELSE 0, fee |-> IF money THEN Cost(f) ELSE 0]
      Same(r, row) == r.trade = row.trade /\ r.order = row.order /\ r.time = row.time
  IN FoldLeft(LAMBDA seen, f : IF \E i \in DOMAIN seen : Same(seen[i], Row(f)) THEN seen
                               ELSE Append(seen, Row(f)),
              << >>, filled)

\* The bills of the account for the orders billed, which have both ids, that of the order or none: no
\* side, an entry for each amount that is not 0, and one for entries that are the same
\* (okx_collect_ledger_entries).
Bills(filled, billed, known) ==
  LET Bill(f) == [trade |-> IF known = "trade" THEN f.id ELSE 0,
                  order |-> IF known = "none" THEN 0 ELSE f.order, side |-> "none",
                  time |-> f.time \div Grain, pnl |-> Earned(f), fee |-> Cost(f)]
      kept == SelectSeq(filled, LAMBDA f : f.order \in billed)
      entries == FlattenSeq([i \in DOMAIN kept |-> EntriesOf(Bill(kept[i]))])
  IN FoldLeft(LAMBDA seen, e : IF e.amount = 0 \/ Contains(seen, e) THEN seen ELSE Append(seen, e),
              << >>, entries)

-----------------------------------------------------------------------------
(* The server.                                                             *)

SumOf(entries) == FoldLeft(LAMBDA sum, e : sum + e.amount, 0, entries)


\* The money of one kind that the bills have for a fill: by the id of the trade, else by that of the
\* order; the set of it, empty if there is none.
ById(bills, kind, row) ==
  LET Of(Is(_)) == SelectSeq(bills, LAMBDA e : e.kind = kind /\ Is(e))
      trade == Of(LAMBDA e : e.trade # 0 /\ e.trade = row.trade)
      order == Of(LAMBDA e : e.order # 0 /\ e.order = row.order)
  IN IF trade # << >> THEN {SumOf(trade)} ELSE IF order # << >> THEN {SumOf(order)} ELSE {}

\* By the instant, for the only fill of that instant, unless the bills are of two orders.
ByTime(rows, bills, kind, row) ==
  LET same == SelectSeq(bills, LAMBDA e : e.kind = kind /\ e.time = row.time)
  IN IF /\ Cardinality({i \in DOMAIN rows : rows[i].time = row.time}) = 1
        /\ same # << >> /\ Cardinality({same[i].order : i \in DOMAIN same} \ {0}) <= 1
     THEN {SumOf(same)} ELSE {}

OrElse(amount, otherwise) == IF amount = {} THEN otherwise ELSE CHOOSE a \in amount : TRUE

\* _backfill_okx_bot_fill_realized_pnl: the money of the fills, from the bills where they have it.
Backfilled(rows, bills) ==
  [i \in DOMAIN rows |->
     LET row == rows[i]
         pnl == ById(bills, "trade", row)
         fee == ById(bills, "fee", row)
         blank == pnl = {} /\ fee = {} /\ row.pnl = 0 /\ row.fee = 0
     IN [row EXCEPT !.pnl = OrElse(IF blank THEN ByTime(rows, bills, "trade", row) ELSE pnl, @),
                    !.fee = -OrElse(IF blank THEN ByTime(rows, bills, "fee", row) ELSE fee, -@)]]

NewestFirst(entries) == SortSeq(entries, LAMBDA a, b : a.time > b.time)

\* What is sent as the ledger: the entries of the fills and of the funding.  (fetch_okx_bot_snapshot
\* makes entries of the bills too, but leaves them out of the snapshot that it returns.)
Sent(rows, funding) == NewestFirst(FlattenSeq([i \in DOMAIN rows |-> EntriesOf(rows[i])]) \o funding)

-----------------------------------------------------------------------------
(* The panel.                                                              *)

\* ledgerEntryMatchesFill, and the same for fees.
Matches(entry, derived) ==
  /\ entry.kind = derived.kind
  /\ \/ entry.trade # 0 /\ entry.trade = derived.trade
     \/ entry.order # 0 /\ entry.order = derived.order
     \/ entry.time = derived.time /\ entry.side = derived.side

\* An entry of a fill completes the first entry that matches, or is added.
Merged(entries, derived) ==
  LET same == {i \in DOMAIN entries : Matches(entries[i], derived)}
      Filled(value, none, from) == IF value = none THEN from ELSE value
  IN IF same = {} THEN Append(entries, derived)
     ELSE [entries EXCEPT ![Min(same)] =
             [@ EXCEPT !.amount = Filled(@, 0, derived.amount), !.side = Filled(@, "none", derived.side),
                       !.order = Filled(@, 0, derived.order), !.trade = Filled(@, 0, derived.trade)]]

\* An entry of funding is added unless there is one of that instant and amount.
Funded(entries, derived) ==
  IF \E i \in DOMAIN entries : /\ entries[i].kind = "funding"
                               /\ entries[i].time = derived.time /\ entries[i].amount = derived.amount
  THEN entries ELSE Append(entries, derived)

\* normalizeLedgerEntries.
LedgerEntries(sent, rows, funding) ==
  LET ofFills == FlattenSeq([i \in DOMAIN rows |-> EntriesOf(rows[i])])
      merged == FoldLeft(Merged, sent, ofFills)
  IN NewestFirst(FoldLeft(Funded, merged, funding))

\* buildDailyBreakdownFromLedgerEntries: the days there are, the newest first.
DailyBreakdown(entries) ==
  LET Of(day, kinds) == SumOf(SelectSeq(entries, LAMBDA e : e.time \div Day = day /\ e.kind \in kinds))
      days == {entries[i].time \div Day : i \in DOMAIN entries}
  IN [n \in 1 .. Cardinality(days) |->
        LET day == CHOOSE d \in days : Cardinality({e \in days : e > d}) = n - 1 IN
        [date |-> day, realized_pnl |-> Of(day, {"trade"}), fees_paid |-> -Of(day, {"fee"}),
         funding_net |-> Of(day, {"funding"}), trading_net |-> Of(day, {"trade", "fee"}),
         total_pnl |-> Of(day, {"trade", "fee", "funding"}),
         entry_count |-> Cardinality({i \in DOMAIN entries : entries[i].time \div Day = day})]]

\* The summary where the server gives none; a total of 0 is taken for none.
Summary(rows, funding, unrealized, total) ==
  LET realized == FoldLeft(LAMBDA sum, row : sum + row.pnl, 0, rows)
      fees == FoldLeft(LAMBDA sum, row : sum + row.fee, 0, rows)
      net == SumOf(funding)
  IN [realized_pnl |-> realized, unrealized_pnl |-> unrealized, fees_paid |-> fees, funding_net |-> net,
      total_pnl |-> IF total # 0 THEN total ELSE realized + unrealized - fees + net]
=============================================================================
