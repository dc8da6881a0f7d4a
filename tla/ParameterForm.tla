----------------------------- MODULE ParameterForm -----------------------------
(***************************************************************************)
(* The form of a backtest (frontend/src/components/ParameterForm.tsx and   *)
(* the sections under components/parameter): its fields, which are edited  *)
(* one at a time, the wizard that shows them in three steps on a phone     *)
(* (useParameterWizardState.ts), and the three judges of what is in them:  *)
(* the wizard's counts (useParameterFormState.ts), the errors that block   *)
(* the run button (buildBacktestPrecheck) and the schema of the service    *)
(* (backend/app/core/schemas.py).                                          *)
(*                                                                         *)
(* Grids and leverage are in halves, the maintenance margin rate in        *)
(* thousandths and the slippage in ten-thousandths; what may be left open  *)
(* is a set of at most one value.  The input of a number hands on any      *)
(* finite one, whatever its min says, and 0 when it is empty.  The symbol  *)
(* and the templates are in RequestInputs, and the wizard's counts of an   *)
(* empty symbol or source are left out; the errors of the estimates, in    *)
(* GridPrecheck, block more than the ones here.                            *)
(***************************************************************************)
EXTENDS Integers, FiniteSets, Sequences

CONSTANTS
  Entries,     \* what is entered: for each field, a set of values
  Complete,    \* a form that is complete, to begin with
  Rows,        \* results of a search, as the fields they fill
  MaxEdits     \* bound on the edits, for TLC

\* The fields of a form: those the judges read.
Forms ==
  [side : {"long", "short"}, lower : Int, upper : Int, grids : Int, leverage : Int, margin : Int,
   stop : Int, mmr : Int, slippage : Int, maxLoss : SUBSET Int, strict : BOOLEAN,
   start : SUBSET Int, end : SUBSET Int]

\* A form with the fields of a row, where it has them.
Filled(f, row) == [field \in DOMAIN f |-> IF field \in DOMAIN row THEN row[field] ELSE f[field]]

ASSUME FormAssumption ==
  /\ Complete \in Forms
  /\ \A field \in DOMAIN Complete : \A value \in Entries[field] :
       [Complete EXCEPT ![field] = value] \in Forms
  /\ \A row \in Rows : Filled(Complete, row) \in Forms

VARIABLES
  form,        \* the strategy and the times of the request
  mobile,      \* isMobileViewport
  step,
  kept,        \* the step in the session storage, at most one
  jumped,      \* history: a step was chosen, or a field of another one filled
  edits

formVars == <<form, mobile, step, kept, jumped, edits>>

WIZARD_STEPS == <<"environment", "strategy_position", "risk_submit">>
Steps == {WIZARD_STEPS[i] : i \in DOMAIN WIZARD_STEPS}
Index(s) == CHOOSE i \in DOMAIN WIZARD_STEPS : WIZARD_STEPS[i] = s

\* The sections that a step of the wizard shows, and those of the desktop, for a backtest and a
\* search alike.
WizardShows ==
  [environment |-> {"time"}, strategy_position |-> {"range", "position"}, risk_submit |-> {"risk"}]
DesktopShows == {"time", "range", "position", "risk"}
Visible(section) == section \in IF mobile THEN WizardShows[step] ELSE DesktopShows

FormTypeOK ==
  /\ form \in Forms /\ mobile \in BOOLEAN /\ step \in Steps
  /\ kept \subseteq Steps /\ Cardinality(kept) <= 1
  /\ jumped \in BOOLEAN /\ edits \in 0 .. MaxEdits

-----------------------------------------------------------------------------
(* The judges                                                              *)

\* The fields of a set of conditions that do not hold.
Unmet(conditions) == {c \in DOMAIN conditions : ~conditions[c]}

InOrder(f) == \A s \in f.start, e \in f.end : s < e
BeyondRange(f) == IF f.side = "long" THEN f.stop < f.lower ELSE f.stop > f.upper

\* Mutated form: a maintenance margin of nothing counts as filled in.
Incomplete_Unmaintained(f) ==
  [environment |-> Unmet([start |-> f.start # {}, order |-> InOrder(f)]),
   strategy_position |->
     Unmet([lower |-> f.lower > 0, upper |-> f.upper > 0, range |-> f.upper > f.lower,
            grids |-> f.grids >= 4, leverage |-> f.leverage >= 2, margin |-> f.margin > 0]),
   risk_submit |-> Unmet([stop |-> f.stop > 0, mmr |-> f.mmr >= 0, slippage |-> f.slippage >= 0])]

\* mobileTabIncompleteCount, by the step that shows it.
Incomplete(f) ==
  [environment |-> Unmet([start |-> f.start # {}, order |-> InOrder(f)]),
   strategy_position |->
     Unmet([lower |-> f.lower > 0, upper |-> f.upper > 0, range |-> f.upper > f.lower,
            grids |-> f.grids >= 4, leverage |-> f.leverage >= 2, margin |-> f.margin > 0]),
   risk_submit |-> Unmet([stop |-> f.stop > 0, mmr |-> f.mmr > 0, slippage |-> f.slippage >= 0])]
Missing == UNION {Incomplete(form)[s] : s \in Steps}

\* Mutated form: a stop on the edge of the range passes.
Blocks_EdgePasses(f) ==
  Unmet([range |-> f.upper > f.lower, grids |-> f.grids >= 4, leverage |-> f.leverage > 0,
         margin |-> f.margin > 0, order |-> InOrder(f),
         stop |-> IF f.side = "long" THEN f.stop <= f.lower ELSE f.stop >= f.upper,
         loss |-> f.strict => \E m \in f.maxLoss : m > 0])

\* The errors that block the run, as far as no price has to be known.
Blocks(f) ==
  Unmet([range |-> f.upper > f.lower, grids |-> f.grids >= 4, leverage |-> f.leverage > 0,
         margin |-> f.margin > 0, order |-> InOrder(f), stop |-> BeyondRange(f),
         loss |-> f.strict => \E m \in f.maxLoss : m > 0])

\* What the fields of StrategyConfig and DataConfig are limited to from above, or when there is no
\* strict risk control.
WithinCaps(f) ==
  /\ f.grids <= 600 /\ f.grids % 2 = 0 /\ f.leverage <= 250
  /\ f.slippage <= 500 /\ f.mmr <= 200
  /\ \A m \in f.maxLoss : m > 0

\* The schema of the service takes the request.
Accepts(f) ==
  /\ f.lower > 0 /\ f.upper > f.lower /\ f.grids >= 4 /\ f.leverage > 0 /\ f.margin > 0
  /\ f.stop > 0 /\ BeyondRange(f) /\ f.slippage >= 0 /\ f.mmr > 0 /\ InOrder(f)
  /\ WithinCaps(f)

-----------------------------------------------------------------------------
(* The fields                                                              *)

Edit == edits < MaxEdits /\ edits' = edits + 1

\* renderNumericFields, with updateStrategy and updateData
Enters(section, fields) ==
  /\ Edit /\ Visible(section)
  /\ \E field \in fields : \E value \in Entries[field] \ {form[field]} :
       form' = [form EXCEPT ![field] = value]
  /\ jumped' = (jumped \/ ~mobile)
  /\ UNCHANGED <<mobile, step, kept>>

EnterTime == Enters("time", {"start", "end"})
EnterRange == Enters("range", {"side", "lower", "upper", "grids"})
EnterPosition == Enters("position", {"leverage", "margin", "strict"})
EnterRisk == Enters("risk", {"stop", "mmr", "slippage", "maxLoss"})

\* handleApplyOptimizationRow: the side stays as it is.
ApplyRow ==
  /\ Edit
  /\ \E row \in Rows : form' = Filled(form, row)
  /\ jumped' = TRUE
  /\ UNCHANGED <<mobile, step, kept>>

-----------------------------------------------------------------------------
(* The wizard                                                              *)

\* The effect that keeps the step of a phone.
Moves(to) == step' = to /\ kept' = IF mobile THEN {to} ELSE kept

GoPrev ==
  /\ mobile /\ step \notin {"environment", "risk_submit"}
  /\ Moves(WIZARD_STEPS[Index(step) - 1])
  /\ UNCHANGED <<form, mobile, jumped, edits>>

\* Mutated form: the time is not asked for, as it was when it had a step of its own.
CanGoNext_Untimed == step # "risk_submit" /\ (step = "environment" \/ Incomplete(form)[step] = {})

CanGoNext == step # "risk_submit" /\ Incomplete(form)[step] = {}
GoNext ==
  /\ mobile /\ CanGoNext
  /\ Moves(WIZARD_STEPS[Index(step) + 1])
  /\ UNCHANGED <<form, mobile, jumped, edits>>

\* The names of the steps are buttons too.
GoToStep ==
  /\ mobile /\ \E to \in Steps \ {step} : Moves(to)
  /\ jumped' = TRUE /\ UNCHANGED <<form, mobile, edits>>

\* The run button of the desktop; what is run is in BacktestRunner and OptimizationTracker.
RunOnDesktop ==
  /\ ~mobile /\ Blocks(form) = {}
  /\ Moves("risk_submit")
  /\ jumped' = TRUE /\ UNCHANGED <<form, mobile, edits>>

\* Mutated form: the step is read back before it is written.
Turned_ReadsFirst == IF kept = {} THEN "environment" ELSE CHOOSE s \in kept : TRUE
Turned == step

\* The window gets narrow, and the effects write the step and read it; or it gets wide.
Resize ==
  /\ mobile' = ~mobile
  /\ IF mobile' THEN step' = Turned /\ kept' = {step'} ELSE UNCHANGED <<step, kept>>
  /\ UNCHANGED <<form, jumped, edits>>

\* The form is shown anew, with the page or with its tab; the request is kept.
Mount ==
  /\ step' = IF kept = {} THEN "environment" ELSE CHOOSE s \in kept : TRUE
  /\ kept' = IF mobile THEN {step'} ELSE kept
  /\ UNCHANGED <<form, mobile, jumped, edits>>

FormInit ==
  /\ form = Complete /\ mobile \in BOOLEAN
  /\ step = "environment" /\ kept = (IF mobile THEN {step} ELSE {})
  /\ jumped = FALSE /\ edits = 0

FormNext ==
  \/ EnterTime \/ EnterRange \/ EnterPosition \/ EnterRisk \/ ApplyRow
  \/ GoPrev \/ GoNext \/ GoToStep \/ RunOnDesktop \/ Resize \/ Mount

-----------------------------------------------------------------------------
\* What the service would take is not blocked, but for a loss limit it does not ask for; and what
\* the wizard finds complete and nothing blocks it takes, within its caps.  Neither judge of the
\* page is enough alone.
JudgesAgree ==
  /\ Accepts(form) => Blocks(form) \subseteq {"loss"} /\ Missing \subseteq {"leverage", "start"}
  /\ Missing = {} /\ Blocks(form) = {} /\ WithinCaps(form) => Accepts(form)

\* Who goes from step to step comes to the last one with nothing missing in those before.
WalkIsComplete ==
  mobile /\ ~jumped =>
    \A s \in Steps : Index(s) < Index(step) => Incomplete(form)[s] = {}

\* A phone that shows the form anew comes back to the step it showed; so does a window that turns
\* from wide to narrow.
StepIsKept == (mobile' => kept' = {step'}) /\ (mobile' # mobile => step' = step)

\* What the form shows and lets through is what the service takes.
FormIsSound == [][JudgesAgree' /\ WalkIsComplete' /\ StepIsKept]_formVars
=============================================================================
