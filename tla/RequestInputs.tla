--------------------------- MODULE RequestInputs ---------------------------
(***************************************************************************)
(* What fills the form of a backtest: the stored or default request        *)
(* (frontend/src/hooks/usePersistedBacktestRequest.ts), the fees that are  *)
(* fetched for its symbol (useMarketSync.ts), the anchor price that is     *)
(* fetched for its data (useRiskAnchorAndPrechecks.ts) and the templates   *)
(* (components/parameter/useTemplateActions.ts, lib/                       *)
(* exampleTemplateResolver.ts); those of the optimization's configuration  *)
(* (OptimizationTemplateSection.tsx) work alike.                           *)
(*                                                                         *)
(* A request is its symbol, None while it is too short, and the symbol its *)
(* fees were fetched for.  The symbol stands for all of the data.  A step  *)
(* is what runs between two awaits, with the effects of the request it     *)
(* sets.  The server is external; a request for an anchor price that was   *)
(* aborted is tried once more by requestJson (lib/api/core.ts) and fails   *)
(* some time after.                                                        *)
(***************************************************************************)
EXTENDS Naturals, FiniteSets

CONSTANTS
  None, Symbols,
  Home,         \* the symbol of the default request
  Ids,          \* the ids of the user's own templates; bounded for TLC
  MaxCalls,     \* bound on the calls for an anchor price, for TLC
  MaxActions,   \* bound on the actions of the user, for TLC
  MaxFailures   \* bound on the calls that fail, for TLC

ASSUME HomeAssumption == Home \in Symbols /\ None \notin Symbols

VARIABLES
  request, requestReady,
  defaultsAsked,   \* fetchDefaults is under way
  storedRequest,
  syncs,           \* the fetches of market parameters under way; aborted ones have no effect
  custom,          \* the anchor price is the user's own
  anchor,          \* maxLossAnchorPrice: the symbol it is of
  anchorLoading, anchorCalls,
  templates, selectedTemplateId, storedTemplates,
  importing,       \* the templates there were when a file was chosen
  actions, failures

asking == <<syncs, anchor, anchorLoading, anchorCalls>>
inForm == <<templates, selectedTemplateId, storedTemplates, importing>>
loaded == <<request, requestReady, defaultsAsked, storedRequest>>
vars == <<loaded, asking, custom, inForm, actions, failures>>

Request == [symbol : Symbols \cup {None}, fees : Symbols \cup {None}]
Default == [symbol |-> Home, fees |-> None]
TemplateId == Ids \cup {"temp", "example"}
AnchorCall == [id : 1..MaxCalls, symbol : Symbols \cup {None}, aborted : BOOLEAN,
               stage : {"timer", "asked"}]

TypeOK ==
  /\ request \in Request /\ storedRequest \in Request \cup {None}
  /\ requestReady \in BOOLEAN /\ defaultsAsked \in BOOLEAN
  /\ syncs \subseteq Symbols
  /\ custom \in BOOLEAN /\ anchor \in Symbols \cup {None, "custom"}
  /\ anchorLoading \in BOOLEAN /\ anchorCalls \subseteq AnchorCall
  /\ \A t \in {templates, storedTemplates, importing} :
       t # None => DOMAIN t \subseteq TemplateId /\ \A i \in DOMAIN t : t[i] \in Request
  /\ selectedTemplateId \in TemplateId

-----------------------------------------------------------------------------
(* The effects of the request                                              *)

\* A new sync aborts the one under way; without a full symbol the effect leaves it alone.
Superseded_Kept(under) == under
Superseded(under) == {}
SyncEffect(s) ==
  syncs' = IF s = request.symbol \/ s = None THEN syncs ELSE Superseded(syncs) \cup {s}

\* A timer is cleared; a fetch under way is aborted, and fails later.
Cleaned_NoAbort(calls) == {c \in calls : c.stage # "timer"}
Cleaned(calls) == {[c EXCEPT !.aborted = TRUE] : c \in {d \in calls : d.stage # "timer"}}
NewId(calls) == CHOOSE i \in 1..MaxCalls : \A c \in calls : c.id # i
Waits(calls, s) ==
  calls \cup {[id |-> NewId(calls), symbol |-> s, aborted |-> FALSE, stage |-> "timer"]}

AnchorEffect(r, ready, own) ==
  \E calls \in {Cleaned(anchorCalls)} :
    IF ~ready \/ own
    THEN /\ anchor' \in IF ready THEN {None, "custom"} ELSE {None}
         /\ anchorLoading' = FALSE /\ anchorCalls' = calls
    ELSE /\ Cardinality(calls) < MaxCalls
         /\ anchor' = None /\ anchorCalls' = Waits(calls, r.symbol)
         /\ UNCHANGED anchorLoading

\* Templates in storage: the last run's and the example are there, with the request in the
\* form if they were missing.
Resolved(stored, r) ==
  [i \in DOMAIN stored \cup {"temp", "example"} |-> IF i \in DOMAIN stored THEN stored[i] ELSE r]

\* A template that is added, or written over.
With(t, id, r) == [i \in DOMAIN t \cup {id} |-> IF i = id THEN r ELSE t[i]]

\* setRequest with new data, and what follows from it.
Becomes(r, ready) ==
  /\ request' = r /\ requestReady' = ready
  /\ storedRequest' = IF ready THEN r ELSE storedRequest
  /\ SyncEffect(r.symbol)
  /\ AnchorEffect(r, ready, custom)
  /\ IF ready /\ templates = None
     THEN /\ templates' = Resolved(storedTemplates, r) /\ storedTemplates' = templates'
          /\ selectedTemplateId' = "temp" /\ UNCHANGED importing
     ELSE UNCHANGED inForm

-----------------------------------------------------------------------------
(* The user                                                                *)

Act == actions < MaxActions /\ actions' = actions + 1

\* updateData: typing a symbol goes through ones that are too short.
EditSymbol ==
  /\ Act /\ \E s \in (Symbols \cup {None}) \ {request.symbol} :
       Becomes([request EXCEPT !.symbol = s], requestReady)
  /\ UNCHANGED <<defaultsAsked, custom, failures>>

\* syncMarketParams: the button is disabled while one is under way.
SyncAgain ==
  /\ Act /\ syncs = {} /\ request.symbol # None /\ syncs' = {request.symbol}
  /\ UNCHANGED <<loaded, custom, anchor, anchorLoading, anchorCalls, inForm, failures>>

\* The other anchor mode; the mode of the form has a mode of its own.
ChangeAnchorMode ==
  /\ Act /\ custom' = ~custom
  /\ AnchorEffect(request, requestReady, custom')
  /\ UNCHANGED <<loaded, syncs, inForm, failures>>

\* persistLastRunStrategyTemplate, as a run begins: the form's own list is not told.
WithLastRun_Only(stored, r) ==
  With([i \in DOMAIN stored \cap {"example"} |-> stored[i]], "temp", r)
WithLastRun(stored, r) == With(Resolved(stored, r), "temp", r)
Run ==
  /\ Act /\ storedTemplates' = WithLastRun(storedTemplates, request)
  /\ UNCHANGED <<loaded, asking, custom, templates, selectedTemplateId, importing, failures>>

\* updateTemplates
Updated(next, id) ==
  /\ storedTemplates' = Resolved(next, request) /\ templates' = storedTemplates'
  /\ selectedTemplateId' = IF id \in DOMAIN templates' THEN id ELSE "temp"
Locked == selectedTemplateId \in {"temp", "example"}
Templating == Act /\ templates # None /\ UNCHANGED <<loaded, asking, custom, failures>>

SelectTemplate ==
  /\ Templating /\ selectedTemplateId' \in DOMAIN templates
  /\ UNCHANGED <<templates, storedTemplates, importing>>
\* The example and the last run's are not written over: a name is asked for.
SaveTemplate ==
  /\ Templating
  /\ \E i \in IF Locked THEN Ids \ DOMAIN templates ELSE {selectedTemplateId} :
       Updated(With(templates, i, request), i)
  /\ UNCHANGED importing
DeleteTemplate ==
  /\ Templating /\ ~Locked
  /\ Updated([i \in DOMAIN templates \ {selectedTemplateId} |-> templates[i]], selectedTemplateId)
  /\ UNCHANGED importing
ApplyTemplate ==
  /\ Act /\ templates # None /\ Becomes(templates[selectedTemplateId], requestReady)
  /\ UNCHANGED <<defaultsAsked, custom, failures>>
\* The file is read before it is added to the templates there were.
ChooseFile ==
  /\ Templating /\ importing = None /\ importing' = templates
  /\ UNCHANGED <<templates, selectedTemplateId, storedTemplates>>
FileRead ==
  /\ importing # None /\ importing' = None
  /\ \E i \in Ids \ (DOMAIN templates \cup DOMAIN importing) :
       Updated(With(importing, i, Default), i)
  /\ UNCHANGED <<loaded, asking, custom, actions, failures>>

-----------------------------------------------------------------------------
(* Calls                                                                   *)

\* The defaults replace whatever the form holds by now.
DefaultsDone ==
  /\ defaultsAsked /\ defaultsAsked' = FALSE
  /\ \/ Becomes(Default, TRUE) /\ UNCHANGED failures
     \/ /\ failures < MaxFailures /\ failures' = failures + 1
        /\ Becomes(request, TRUE)
  /\ UNCHANGED <<custom, actions>>

SyncDone ==
  /\ \E s \in syncs :
       /\ syncs' = syncs \ {s}
       /\ \/ request' = [request EXCEPT !.fees = s] /\ UNCHANGED failures
          \/ failures < MaxFailures /\ failures' = failures + 1 /\ UNCHANGED request
  /\ storedRequest' = IF requestReady THEN request' ELSE storedRequest
  /\ UNCHANGED <<requestReady, defaultsAsked, anchor, anchorLoading, anchorCalls, custom,
                 inForm, actions>>

AskAnchor ==
  /\ \E c \in anchorCalls :
       /\ c.stage = "timer"
       /\ anchorCalls' = (anchorCalls \ {c}) \cup {[c EXCEPT !.stage = "asked"]}
  /\ anchorLoading' = TRUE
  /\ UNCHANGED <<loaded, syncs, anchor, custom, inForm, actions, failures>>
AnchorAnswered ==
  /\ \E c \in anchorCalls :
       /\ c.stage = "asked" /\ ~c.aborted /\ c.symbol # None
       /\ anchorCalls' = anchorCalls \ {c} /\ anchor' = c.symbol
  /\ anchorLoading' = FALSE
  /\ UNCHANGED <<loaded, syncs, custom, inForm, actions, failures>>
\* The failure of an aborted fetch takes away the price there is by now.
StillLoading_Failed(c) == anchorLoading
StillLoading(c) == c.aborted /\ anchorLoading
AnchorFailed ==
  /\ \E c \in anchorCalls :
       /\ c.stage = "asked" /\ anchorCalls' = anchorCalls \ {c}
       /\ IF c.aborted \/ c.symbol = None THEN UNCHANGED failures
          ELSE failures < MaxFailures /\ failures' = failures + 1
       /\ anchorLoading' = StillLoading(c)
  /\ anchor' = None
  /\ UNCHANGED <<loaded, syncs, custom, inForm, actions>>

\* The page is loaded anew, and reads what is stored; for a moment it has the default request,
\* whose market parameters are asked for.
First(stored) == IF stored = None THEN Default ELSE stored
FirstSync(r) == IF r.symbol = None THEN {Home} ELSE {r.symbol}
FirstCalls(stored) == IF stored = None THEN {} ELSE Waits({}, stored.symbol)
FirstTemplates(stored, kept) == IF stored = None THEN None ELSE Resolved(kept, stored)
Reload ==
  /\ Act /\ UNCHANGED <<storedRequest, failures>>
  /\ request' = First(storedRequest) /\ syncs' = FirstSync(request')
  /\ requestReady' = (storedRequest # None) /\ defaultsAsked' = ~requestReady'
  /\ custom' = FALSE /\ anchor' = None /\ anchorLoading' = FALSE
  /\ anchorCalls' = FirstCalls(storedRequest)
  /\ templates' = FirstTemplates(storedRequest, storedTemplates)
  /\ storedTemplates' = IF requestReady' THEN templates' ELSE storedTemplates
  /\ selectedTemplateId' = "temp" /\ importing' = None

Init ==
  /\ storedRequest \in {None} \cup [symbol : Symbols, fees : Symbols]
  /\ request = First(storedRequest) /\ syncs = FirstSync(request)
  /\ requestReady = (storedRequest # None) /\ defaultsAsked = ~requestReady
  /\ custom = FALSE /\ anchor = None /\ anchorLoading = FALSE
  /\ anchorCalls = FirstCalls(storedRequest)
  /\ templates = FirstTemplates(storedRequest, [i \in {} |-> Default])
  /\ storedTemplates = IF requestReady THEN templates ELSE [i \in {} |-> Default]
  /\ selectedTemplateId = "temp" /\ importing = None
  /\ actions = 0 /\ failures = 0

Next ==
  \/ EditSymbol \/ SyncAgain \/ ChangeAnchorMode \/ Run \/ Reload
  \/ SelectTemplate \/ SaveTemplate \/ DeleteTemplate \/ ApplyTemplate \/ ChooseFile \/ FileRead
  \/ DefaultsDone \/ SyncDone \/ AskAnchor \/ AnchorAnswered \/ AnchorFailed

\* A timer fires, and a call is answered or times out.
Fairness == WF_vars(AskAnchor \/ AnchorAnswered \/ AnchorFailed)
Spec == Init /\ [][Next]_vars /\ Fairness

-----------------------------------------------------------------------------
\* The anchor price shown is the one of the data in the form, never that of data that were
\* there when it was asked for, nor a fetched one in place of the user's own.
AnchorIsCurrent ==
  anchor # None => IF custom THEN anchor = "custom" ELSE requestReady /\ anchor = request.symbol

\* The form does not wait for an anchor price for good.
AnchorLoadingEnds == anchorLoading ~> ~anchorLoading

\* Fees that arrive for a symbol are not put under another: under the symbol that is being
\* typed over it, at most.
FeesAreOfTheSymbol ==
  \A s \in syncs : s \notin syncs' /\ request'.fees = s /\ request.fees # s
    => s = request'.symbol \/ request'.symbol = None \/ request' # [request EXCEPT !.fees = s]

\* A template of the user's own leaves the storage only when it is deleted, or with an import
\* that was begun before it was saved.
OwnTemplatesAreKept ==
  \A i \in Ids : i \in DOMAIN storedTemplates \ DOMAIN storedTemplates' =>
    i = selectedTemplateId \/ (importing # None /\ importing' = None)

\* What arrives late or is stored meanwhile takes nothing of the user's: neither fees of another
\* symbol into the request, nor a template out of the storage.
InputsStayTheUsers == [][FeesAreOfTheSymbol /\ OwnTemplatesAreKept]_vars
=============================================================================
