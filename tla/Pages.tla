--------------------------------- MODULE Pages ----------------------------------
(***************************************************************************)
(* The two tables the user turns the pages of.  The results of an          *)
(* optimization: the server sorts them and sends one page, the browser     *)
(* filters that page, renders the rows in view and remembers columns and   *)
(* preset (useOptimizationRunner, useWorkspaceViewModel,                   *)
(* useResultWorkspaceState, OptimizationResultsTable).  The ledger of a    *)
(* robot: the browser has it all, filters, sorts and cuts it               *)
(* (LiveLedgerSection).  A row is its number; effects that follow a render *)
(* are part of the step.                                                   *)
(***************************************************************************)
EXTENDS Integers, Sequences, SequencesExt, FiniteSetsExt

CONSTANTS
  Results,      \* the number of results of each optimization job
  Sizes,        \* page sizes of the results; the smallest is the first one
  Columns, CoreColumns,             \* columns of the table of results, and those of preset "core"
  RowHeight, Viewport, Overscan,    \* of the table of results
  LedgerSize,   \* LEDGER_PAGE_SIZE
  Ledgers,      \* what a snapshot's ledger can be: by section, a sequence of [age, found]
  MaxTurns      \* bound on what the user does, for TLC

ASSUME PagesAssumption ==
  /\ Results \in Seq(Nat) /\ Results # << >> /\ Sizes \subseteq Nat \ {0} /\ Sizes # {}
  /\ {RowHeight, Viewport, Overscan, LedgerSize} \subseteq Nat \ {0}
  /\ Ledgers \subseteq [{"closed", "open", "funding"} -> Seq([age : Nat, found : BOOLEAN])]

VARIABLES
  view,       \* results: [job, page, size, order]
  answer,     \* results: the view whose rows are shown, or that has no rows yet, and the number of its results
  rowsDue,    \* results: the rows of the view are not there yet
  filters,    \* results: [passed, positive, diagnostic]
  table,      \* results: [preset, columns]
  kept,       \* results: table as the local storage has it
  top,        \* results: scrollTop
  slipped,    \* history: a page was chosen under the page count of other rows
  ledger,     \* ledger: by section, the groups of the last snapshot
  choice,     \* ledger: [section, recent, query, ascending]
  ledgerPage,
  turns       \* what the user has done, for TLC

pageVars == <<view, answer, rowsDue, filters, table, kept, top, slipped, ledger, choice, ledgerPage, turns>>
resultVars == <<view, answer, rowsDue, filters, table, kept, top, slipped>>
ledgerVars == <<ledger, choice, ledgerPage>>

\* Mutated form: the rest is on no page.
PageCount_Floor(count, size) == Max({1, count \div size})

\* totalOptimizationPages, and pageCount of the ledger.
PageCount(count, size) == Max({1, (count + size - 1) \div size})

\* slicePage
Slice(rows, page, size) == SubSeq(rows, (page - 1) * size + 1, Min({page * size, Len(rows)}))

UserTurns == turns < MaxTurns /\ turns' = turns + 1

-----------------------------------------------------------------------------
(* The results.                                                            *)

\* All results of a job in the order asked for.
Sorted(job, order) ==
  LET rows == [n \in 1 .. Results[job] |-> n] IN IF order = "asc" THEN rows ELSE Reverse(rows)

Passes(row) == row % 2 = 0
IsPositive(row) == row % 3 # 0

\* filterOptimizationRows
LetsThrough(f, row) == f.diagnostic \/ ((f.passed => Passes(row)) /\ (f.positive => IsPositive(row)))
Filtered(rows, f) == FlattenSeq([i \in DOMAIN rows |-> IF LetsThrough(f, rows[i]) THEN <<rows[i]>> ELSE << >>])

With(of, count) == [of |-> of, count |-> count]
Pages(shown) == PageCount(shown.count, shown.of.size)
RowsOf(of) == Filtered(Slice(Sorted(of.job, of.order), of.page, of.size), filters)
Shown == IF answer.count = 0 THEN << >> ELSE RowsOf(answer.of)

\* buildResultsColumnVisibility, and what the table makes of the columns chosen.
Preset(name) == (IF name = "full" THEN Columns ELSE CoreColumns) \cup {"actions"}
Visible(t) == t.columns \cup {"actions"}

\* The rows rendered of a table of count rows: startIndex to endIndex, from 0.
Rendered(count, scrolled) ==
  LET start == Max({0, scrolled \div RowHeight - Overscan})
      shown == (Viewport + RowHeight - 1) \div RowHeight + 2 * Overscan
  IN start .. Min({count, start + shown}) - 1

\* Mutated form: the table stays where it was scrolled to.
Scrolled_Kept == top' = top

\* The effect of new rows, preset or columns.
Scrolled == top' = 0

Asked(new) ==
  /\ view' = new /\ rowsDue' = TRUE
  /\ UNCHANGED <<filters, table, kept>>

\* Sorting and the size of a page go back to the first page.
SetOrder(order) == UserTurns /\ Asked([view EXCEPT !.order = order, !.page = 1]) /\ UNCHANGED <<answer, top, slipped>>
SetSize(size) == UserTurns /\ Asked([view EXCEPT !.size = size, !.page = 1]) /\ UNCHANGED <<answer, top, slipped>>
PrevPage == UserTurns /\ view.page > 1 /\ Asked([view EXCEPT !.page = @ - 1]) /\ UNCHANGED <<answer, top, slipped>>

\* The next page, by the page count of the rows that are shown, which may be of another size or job.
NextPage ==
  /\ UserTurns
  /\ view.page < Pages(answer)
  /\ Asked([view EXCEPT !.page = @ + 1])
  /\ slipped' = (slipped \/ answer.of.job # view.job \/ answer.of.size # view.size)
  /\ UNCHANGED <<answer, top>>

\* A job starts, without rows and on its first page; one of the history is loaded with the rows of
\* the page there is.
StartJob(job) ==
  /\ UserTurns
  /\ Asked([view EXCEPT !.job = job, !.page = 1])
  /\ answer' = With(view', 0) /\ Scrolled
  /\ UNCHANGED slipped
LoadJob(job) ==
  /\ UserTurns
  /\ Asked([view EXCEPT !.job = job])
  /\ answer' = With(view', Results[job]) /\ Scrolled
  /\ slipped' = (slipped \/ view.page > 1)

RowsArrive ==
  /\ rowsDue /\ rowsDue' = FALSE
  /\ answer' = With(view, Results[view.job])
  /\ Scrolled
  /\ UNCHANGED <<view, filters, table, kept, slipped, turns>>

SetFilters(f) ==
  /\ UserTurns
  /\ filters' = f
  /\ Scrolled
  /\ UNCHANGED <<view, answer, rowsDue, table, kept, slipped>>

Remembered(t) == table' = t /\ kept' = t /\ Scrolled /\ UNCHANGED <<view, answer, rowsDue, filters, slipped>>

ApplyPreset(name) == UserTurns /\ Remembered([preset |-> name, columns |-> Preset(name)])
ToggleColumn(key) ==
  /\ UserTurns
  /\ Remembered([table EXCEPT !.columns = (IF key \in @ THEN @ \ {key} ELSE @ \cup {key}) \cup {"actions"}])

Scroll ==
  /\ UserTurns
  /\ \E to \in 0 .. Max({0, Len(Shown) * RowHeight - Viewport}) : top' = to
  /\ UNCHANGED <<view, answer, rowsDue, filters, table, kept, slipped>>

-----------------------------------------------------------------------------
(* The ledger.                                                             *)

\* filterClosedGridGroups, filterOpenGridGroups and filterFundingRows, in the order chosen.
IsFound(c, group) == (c.recent => group.age <= 1) /\ (c.query => group.found)
Chosen(groups, c) ==
  LET found == FlattenSeq([i \in DOMAIN groups |-> IF IsFound(c, groups[i]) THEN <<groups[i]>> ELSE << >>])
  IN IF c.ascending THEN found ELSE Reverse(found)

Active == Chosen(ledger[choice.section], choice)
LedgerPages == PageCount(Len(Active), LedgerSize)

\* paginationWindow
Window(page, pages) ==
  IF pages <= 5 THEN 1 .. pages
  ELSE IF page <= 3 THEN 1 .. 5
  ELSE IF page >= pages - 2 THEN pages - 4 .. pages
  ELSE page - 2 .. page + 2

\* The effects of a render: the first page after another choice or count, and no page that is not there.
LedgerShown ==
  ledgerPage' = IF choice' # choice \/ Len(Active') # Len(Active) THEN 1 ELSE Min({ledgerPage, LedgerPages'})

Choose(c) == UserTurns /\ choice' = c /\ ledger' = ledger /\ LedgerShown
SnapshotArrives(next) == ledger' = next /\ choice' = choice /\ LedgerShown /\ UNCHANGED turns
TurnLedger(page) ==
  /\ UserTurns
  /\ page \in Window(ledgerPage, LedgerPages) \cup {Max({1, ledgerPage - 1}), Min({LedgerPages, ledgerPage + 1})}
  /\ ledgerPage' = page
  /\ UNCHANGED <<ledger, choice>>

-----------------------------------------------------------------------------

PagesInit ==
  /\ view = [job |-> Min(DOMAIN Results), page |-> 1, size |-> Min(Sizes), order |-> "desc"]
  /\ answer = With(view, 0) /\ rowsDue = TRUE
  /\ filters = [passed |-> TRUE, positive |-> TRUE, diagnostic |-> FALSE]
  /\ table = [preset |-> "core", columns |-> Preset("core")] /\ kept = table
  /\ top = 0 /\ slipped = FALSE
  /\ ledger = [section \in {"closed", "open", "funding"} |-> << >>]
  /\ choice = [section |-> "open", recent |-> FALSE, query |-> FALSE, ascending |-> FALSE]
  /\ ledgerPage = 1
  /\ turns = 0

ResultsStep ==
  \/ \E order \in {"asc", "desc"} : SetOrder(order)
  \/ \E size \in Sizes : SetSize(size)
  \/ PrevPage \/ NextPage
  \/ \E job \in DOMAIN Results : StartJob(job) \/ LoadJob(job)
  \/ RowsArrive
  \/ \E f \in [passed : BOOLEAN, positive : BOOLEAN, diagnostic : BOOLEAN] : SetFilters(f)
  \/ \E name \in {"core", "full"} : ApplyPreset(name)
  \/ \E key \in Columns : ToggleColumn(key)
  \/ Scroll

LedgerStep ==
  \/ \E section \in {"closed", "open", "funding"}, recent, query, ascending \in BOOLEAN :
       Choose([section |-> section, recent |-> recent, query |-> query, ascending |-> ascending])
  \/ \E next \in Ledgers : SnapshotArrives(next)
  \/ \E page \in 1 .. LedgerPages : TurnLedger(page)

\* The two tables are on pages of their own.
ResultsNext == ResultsStep /\ UNCHANGED ledgerVars
LedgerNext == LedgerStep /\ UNCHANGED resultVars

PagesSpec == PagesInit /\ [][ResultsNext \/ LedgerNext]_pageVars

-----------------------------------------------------------------------------
(* Properties.                                                             *)

\* The page asked for is one of the job's, unless it was chosen under the page count of other rows;
\* and whatever the filters, every result they let through is on exactly one page (they are applied to
\* a page of the server, so that a page may be empty and another not).
ResultsAreInReach ==
  /\ ~slipped => view.page <= Pages(With(view, Results[view.job]))
  /\ FlattenSeq([p \in 1 .. Pages(With(view, Results[view.job])) |-> RowsOf([view EXCEPT !.page = p])])
       = Filtered(Sorted(view.job, view.order), filters)

\* Wherever the table is scrolled to, the rows in view are rendered, and if it has rows one is in view,
\* also after other rows have replaced those it was scrolled through.
ViewportIsFilled ==
  LET count == Len(Shown)
      inView == {row \in 0 .. count - 1 : row * RowHeight < top + Viewport /\ top < (row + 1) * RowHeight}
  IN inView \subseteq Rendered(count, top) /\ (count > 0 => inView # {})

\* Columns and preset are found again after a reload, and the column with the actions is always there.
TableIsKept == kept = table /\ "actions" \in Visible(kept)

\* The page of the ledger exists and is among the pages offered, whatever snapshots, filters and
\* sections follow each other, and the pages together are what the filters let through.
LedgerIsInReach ==
  /\ ledgerPage \in Window(ledgerPage, LedgerPages) /\ Window(ledgerPage, LedgerPages) \subseteq 1 .. LedgerPages
  /\ Active # << >> => Slice(Active, ledgerPage, LedgerSize) # << >>
  /\ FlattenSeq([p \in 1 .. LedgerPages |-> Slice(Active, p, LedgerSize)]) = Active

PagesAreSound == ResultsAreInReach /\ ViewportIsFilled /\ TableIsKept /\ LedgerIsInReach
=============================================================================
