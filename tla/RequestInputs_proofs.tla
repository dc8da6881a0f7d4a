------------------------ MODULE RequestInputs_proofs ------------------------
(***************************************************************************)
(* Proofs about what fills the form of a backtest, for any symbols,        *)
(* templates, entries and bounds: RequestInputs, the API client and the    *)
(* form itself.                                                            *)
(*                                                                         *)
(* Why the invariants are needed.  Of the inputs: an answer is of the data *)
(* in the form because every change of the data aborts the call before it, *)
(* and fees are of the symbol because a new fetch supersedes the one       *)
(* before; and a template stays in the storage, when the form's list is    *)
(* written over it, because the form's list has all there is in the        *)
(* storage.  Of the client: nothing is sent after an abort because an      *)
(* attempt that is under way is not aborted yet, and a call starts one job *)
(* because those that are tried again carry one key.  Of the form: who     *)
(* walks misses nothing because a field is read for the one step of the    *)
(* wizard that shows it, and a phone that turns has kept no other step.    *)
(***************************************************************************)
EXTENDS RequestInputs, ApiClient, ParameterForm, FiniteSetTheorems, TLAPS

CallOf(S) == [id : S, symbol : Symbols \cup {None}, aborted : BOOLEAN, stage : {"timer", "asked"}]

IsTemplates(t) == t \in [DOMAIN t -> Request]

Shaped ==
  /\ request \in Request /\ storedRequest \in Request \cup {None}
  /\ requestReady \in BOOLEAN /\ custom \in BOOLEAN /\ syncs \subseteq Symbols
  /\ IsTemplates(storedTemplates)
  /\ templates # None => IsTemplates(templates)
  /\ importing # None => IsTemplates(importing)
  /\ \E S : anchorCalls \subseteq CallOf(S)

\* A call that was not aborted is about the data in the form.
CallsAreCurrent ==
  \A c \in anchorCalls : ~c.aborted => requestReady /\ ~custom /\ c.symbol = request.symbol

\* Fees are fetched for the symbol in the form, or for the one that is being typed over.
SyncsAreCurrent == \A s \in syncs : s = request.symbol \/ request.symbol = None

\* The form's list has all there is in the storage.
FormHasAll ==
  templates # None =>
    /\ {"temp", "example"} \cup DOMAIN storedTemplates \subseteq DOMAIN templates
    /\ selectedTemplateId \in DOMAIN templates

IInv == Shaped /\ CallsAreCurrent /\ SyncsAreCurrent /\ FormHasAll /\ AnchorIsCurrent

-----------------------------------------------------------------------------
(* The operators                                                           *)

\* The default request is a request.
LEMMA DefaultIsRequest == Default \in Request
BY HomeAssumption DEF Default, Request

\* What is resolved has all that is stored, the last run's template and the example.
LEMMA ResolvedHasAll ==
  ASSUME NEW stored, IsTemplates(stored), NEW r \in Request
  PROVE  /\ IsTemplates(Resolved(stored, r))
         /\ DOMAIN Resolved(stored, r) = DOMAIN stored \cup {"temp", "example"}
BY DEF IsTemplates, Resolved

\* A template that is added, or written over.
LEMMA WithIsTemplates ==
  ASSUME NEW t, IsTemplates(t), NEW i, NEW r \in Request
  PROVE  IsTemplates(With(t, i, r)) /\ DOMAIN With(t, i, r) = DOMAIN t \cup {i}
BY DEF IsTemplates, With

\* Aborted calls stay, those that wait for their timer go.
LEMMA CleanedIsAborted ==
  ASSUME NEW S, NEW cs \in SUBSET CallOf(S)
  PROVE  /\ Cleaned(cs) \subseteq CallOf(S)
         /\ \A c \in Cleaned(cs) : c.aborted
BY DEF Cleaned, CallOf

\* The one new call.
LEMMA WaitsAddsOne ==
  ASSUME NEW S, NEW cs \in SUBSET CallOf(S), NEW s \in Symbols \cup {None}
  PROVE  /\ \E T : Waits(cs, s) \subseteq CallOf(T)
         /\ \A c \in Waits(cs, s) : c \in cs \/ c.symbol = s
<1> DEFINE new == [id |-> NewId(cs), symbol |-> s, aborted |-> FALSE, stage |-> "timer"]
<1>1. Waits(cs, s) = cs \cup {new}
  BY DEF Waits
<1>2. new \in CallOf(S \cup {NewId(cs)}) /\ new.symbol = s
  BY DEF CallOf
<1>3. cs \subseteq CallOf(S \cup {NewId(cs)})
  BY DEF CallOf
<1> HIDE DEF new
<1> QED
  BY <1>1, <1>2, <1>3

\* The effects that fetch an anchor price leave no current call about other data.
LEMMA AnchorEffectIsCurrent ==
  ASSUME NEW S, anchorCalls \subseteq CallOf(S), NEW r \in Request, NEW ready \in BOOLEAN,
         NEW own \in BOOLEAN, AnchorEffect(r, ready, own)
  PROVE  /\ \E T : anchorCalls' \subseteq CallOf(T)
         /\ \A c \in anchorCalls' : ~c.aborted => ready /\ ~own /\ c.symbol = r.symbol
         /\ anchor' # None => ready /\ own /\ anchor' = "custom"
<1> DEFINE cs == Cleaned(anchorCalls)
<1>1. cs \in SUBSET CallOf(S) /\ \A c \in cs : c.aborted
  BY CleanedIsAborted
<1>2. \/ /\ ~ready \/ own
         /\ anchor' \in IF ready THEN {None, "custom"} ELSE {None}
         /\ anchorCalls' = cs
      \/ ready /\ ~own /\ anchor' = None /\ anchorCalls' = Waits(cs, r.symbol)
  BY DEF AnchorEffect
<1> HIDE DEF cs
<1>3. CASE anchorCalls' = cs /\ (~ready \/ own)
  BY <1>1, <1>2, <1>3
<1>4. CASE ready /\ ~own /\ anchor' = None /\ anchorCalls' = Waits(cs, r.symbol)
  <2>1. r.symbol \in Symbols \cup {None}
    BY DEF Request
  <2>2. /\ \E T : Waits(cs, r.symbol) \subseteq CallOf(T)
        /\ \A c \in Waits(cs, r.symbol) : c \in cs \/ c.symbol = r.symbol
    BY <1>1, <2>1, WaitsAddsOne
  <2> QED
    BY <1>1, <1>4, <2>2
<1> QED
  BY <1>2, <1>3, <1>4

-----------------------------------------------------------------------------
(* The steps                                                               *)

\* Another request in the form, with all that follows.
LEMMA BecomesStep ==
  ASSUME IInv, NEW r \in Request, NEW ready \in BOOLEAN, Becomes(r, ready), UNCHANGED custom
  PROVE  IInv'
<1>1. PICK S : anchorCalls \subseteq CallOf(S)
  BY DEF IInv, Shaped
<1>2. /\ request' = r /\ requestReady' = ready
      /\ storedRequest' \in {r, storedRequest}
      /\ SyncEffect(r.symbol) /\ AnchorEffect(r, ready, custom)
  BY DEF Becomes
<1>3. /\ \E T : anchorCalls' \subseteq CallOf(T)
      /\ \A c \in anchorCalls' : ~c.aborted => ready /\ ~custom /\ c.symbol = r.symbol
      /\ anchor' # None => ready /\ custom /\ anchor' = "custom"
  BY <1>1, <1>2, AnchorEffectIsCurrent DEF IInv, Shaped
<1>4. /\ IsTemplates(storedTemplates')
      /\ templates' # None => IsTemplates(templates')
      /\ importing' # None => IsTemplates(importing')
      /\ FormHasAll'
  <2>1. CASE ready /\ templates = None
    <3>1. /\ storedTemplates' = Resolved(storedTemplates, r) /\ templates' = storedTemplates'
          /\ selectedTemplateId' = "temp" /\ importing' = importing
      BY <2>1 DEF Becomes
    <3>2. /\ IsTemplates(Resolved(storedTemplates, r))
          /\ DOMAIN Resolved(storedTemplates, r) = DOMAIN storedTemplates \cup {"temp", "example"}
      BY ResolvedHasAll DEF IInv, Shaped
    <3> QED
      BY <3>1, <3>2 DEF IInv, Shaped, FormHasAll
  <2>2. CASE UNCHANGED inForm
    BY <2>2 DEF inForm, IInv, Shaped, FormHasAll
  <2> QED
    BY <2>1, <2>2 DEF Becomes
<1>5. Shaped'
  <2>1. /\ request' \in Request /\ storedRequest' \in Request \cup {None}
        /\ requestReady' \in BOOLEAN /\ custom' \in BOOLEAN
    BY <1>2 DEF IInv, Shaped
  <2>2. syncs' \subseteq Symbols
    BY <1>2 DEF IInv, Shaped, SyncEffect, Superseded, Request
  <2>3. /\ IsTemplates(storedTemplates)'
        /\ (templates # None => IsTemplates(templates))'
        /\ (importing # None => IsTemplates(importing))'
    BY <1>4 DEF IsTemplates
  <2> QED
    BY <1>3, <2>1, <2>2, <2>3 DEF Shaped
<1>6. CallsAreCurrent' /\ AnchorIsCurrent'
  BY <1>2, <1>3 DEF CallsAreCurrent, AnchorIsCurrent
<1>7. SyncsAreCurrent'
  BY <1>2 DEF IInv, SyncsAreCurrent, SyncEffect, Superseded
<1> QED
  BY <1>4, <1>5, <1>6, <1>7 DEF IInv

\* The templates of the form alone.
LEMMA FormStep ==
  ASSUME IInv, UNCHANGED <<loaded, asking, custom>>,
         IsTemplates(storedTemplates'), templates' # None => IsTemplates(templates'),
         importing' # None => IsTemplates(importing'), FormHasAll'
  PROVE  IInv'
<1>1. Shaped' /\ CallsAreCurrent' /\ SyncsAreCurrent' /\ AnchorIsCurrent'
  BY DEF IInv, Shaped, CallsAreCurrent, SyncsAreCurrent, AnchorIsCurrent, loaded, asking, IsTemplates
<1> QED
  BY <1>1 DEF IInv

\* What the form writes is resolved, and is what it has from then on.
LEMMA UpdatedStep ==
  ASSUME IInv, NEW next, IsTemplates(next), NEW id, Updated(next, id),
         UNCHANGED <<loaded, asking, custom>>, importing' \in {None, importing}
  PROVE  IInv'
<1>1. /\ IsTemplates(Resolved(next, request))
      /\ DOMAIN Resolved(next, request) = DOMAIN next \cup {"temp", "example"}
  BY ResolvedHasAll DEF IInv, Shaped
<1>2. /\ storedTemplates' = Resolved(next, request) /\ templates' = storedTemplates'
      /\ selectedTemplateId' = IF id \in DOMAIN templates' THEN id ELSE "temp"
  BY DEF Updated
<1> HIDE DEF Updated
<1>3. FormHasAll'
  BY <1>1, <1>2 DEF FormHasAll
<1>4. importing' # None => IsTemplates(importing')
  BY DEF IInv, Shaped
<1> QED
  BY <1>1, <1>2, <1>3, <1>4, FormStep

\* The symbol, the fees asked for again, the mode of the anchor price, and a run.
LEMMA UserStep ==
  ASSUME IInv, EditSymbol \/ SyncAgain \/ ChangeAnchorMode \/ Run
  PROVE  IInv'
<1>1. CASE EditSymbol
  <2>1. PICK s \in Symbols \cup {None} : Becomes([request EXCEPT !.symbol = s], requestReady)
    BY <1>1 DEF EditSymbol
  <2>2. [request EXCEPT !.symbol = s] \in Request /\ requestReady \in BOOLEAN
    BY DEF IInv, Shaped, Request
  <2>3. UNCHANGED custom
    BY <1>1 DEF EditSymbol
  <2> QED
    BY <2>1, <2>2, <2>3, BecomesStep
<1>2. CASE SyncAgain
  <2>1. /\ UNCHANGED <<loaded, custom, anchor, anchorLoading, anchorCalls, inForm>>
        /\ syncs' = {request.symbol}
    BY <1>2 DEF SyncAgain
  <2>2. request.symbol \in Symbols
    BY <1>2 DEF SyncAgain, IInv, Shaped, Request
  <2> QED
    BY <2>1, <2>2 DEF IInv, Shaped, CallsAreCurrent, SyncsAreCurrent, FormHasAll, AnchorIsCurrent,
                      loaded, inForm, IsTemplates
<1>3. CASE ChangeAnchorMode
  <2>1. /\ UNCHANGED <<loaded, syncs, inForm>> /\ custom' = ~custom
        /\ AnchorEffect(request, requestReady, custom')
    BY <1>3 DEF ChangeAnchorMode
  <2>2. PICK S : anchorCalls \subseteq CallOf(S)
    BY DEF IInv, Shaped
  <2>3. request \in Request /\ requestReady \in BOOLEAN /\ custom' \in BOOLEAN
    BY <2>1 DEF IInv, Shaped
  <2>4. /\ \E T : anchorCalls' \subseteq CallOf(T)
        /\ \A c \in anchorCalls' : ~c.aborted => requestReady /\ ~custom' /\ c.symbol = request.symbol
        /\ anchor' # None => requestReady /\ custom' /\ anchor' = "custom"
    BY <2>1, <2>2, <2>3, AnchorEffectIsCurrent
  <2>5. Shaped'
    BY <2>1, <2>3, <2>4 DEF IInv, Shaped, IsTemplates, loaded, inForm
  <2> QED
    BY <2>1, <2>4, <2>5 DEF IInv, CallsAreCurrent, SyncsAreCurrent, FormHasAll, AnchorIsCurrent, loaded,
                            inForm
<1>4. CASE Run
  <2>1. /\ UNCHANGED <<loaded, asking, custom, templates, selectedTemplateId, importing>>
        /\ storedTemplates' = WithLastRun(storedTemplates, request)
    BY <1>4 DEF Run
  <2>2. IsTemplates(storedTemplates) /\ request \in Request
    BY DEF IInv, Shaped
  <2>3. /\ IsTemplates(Resolved(storedTemplates, request))
        /\ DOMAIN Resolved(storedTemplates, request) = DOMAIN storedTemplates \cup {"temp", "example"}
    BY <2>2, ResolvedHasAll
  <2>4. /\ IsTemplates(storedTemplates')
        /\ DOMAIN storedTemplates' = DOMAIN storedTemplates \cup {"temp", "example"}
    <3>1. PICK base : base = Resolved(storedTemplates, request)
      OBVIOUS
    <3>2. storedTemplates' = With(base, "temp", request)
      BY <2>1, <3>1 DEF WithLastRun
    <3>3. IsTemplates(storedTemplates') /\ DOMAIN storedTemplates' = DOMAIN base \cup {"temp"}
      BY <2>2, <2>3, <3>1, <3>2, WithIsTemplates
    <3> QED
      BY <2>3, <3>1, <3>3
  <2>5. FormHasAll'
    BY <2>1, <2>4 DEF IInv, FormHasAll
  <2>6. /\ templates' # None => IsTemplates(templates')
        /\ importing' # None => IsTemplates(importing')
    BY <2>1 DEF IInv, Shaped
  <2> QED
    BY <2>1, <2>4, <2>5, <2>6, FormStep
<1> QED
  BY <1>1, <1>2, <1>3, <1>4

\* The templates, chosen, saved, deleted, applied and read from a file.
LEMMA TemplateStep ==
  ASSUME IInv,
         SelectTemplate \/ SaveTemplate \/ DeleteTemplate \/ ApplyTemplate \/ ChooseFile \/ FileRead
  PROVE  IInv'
<1>1. CASE SelectTemplate \/ ChooseFile
  <2>1. /\ UNCHANGED <<loaded, asking, custom, templates, storedTemplates>> /\ templates # None
        /\ selectedTemplateId' \in DOMAIN templates \/ selectedTemplateId' = selectedTemplateId
        /\ importing' \in {importing, templates}
    BY <1>1 DEF SelectTemplate, ChooseFile, Templating
  <2>2. /\ IsTemplates(storedTemplates') /\ IsTemplates(templates')
        /\ importing' # None => IsTemplates(importing')
    BY <2>1 DEF IInv, Shaped
  <2>3. FormHasAll'
    BY <2>1 DEF IInv, FormHasAll
  <2> QED
    BY <2>1, <2>2, <2>3, FormStep
<1>2. CASE SaveTemplate
  <2>1. PICK i : Updated(With(templates, i, request), i)
    BY <1>2 DEF SaveTemplate
  <2>2. UNCHANGED <<loaded, asking, custom, importing>> /\ templates # None
    BY <1>2 DEF SaveTemplate, Templating
  <2>3. IsTemplates(With(templates, i, request))
    BY <2>2, WithIsTemplates DEF IInv, Shaped
  <2> QED
    BY <2>1, <2>2, <2>3, UpdatedStep
<1>3. CASE DeleteTemplate
  <2> DEFINE left == [i \in DOMAIN templates \ {selectedTemplateId} |-> templates[i]]
  <2>1. Updated(left, selectedTemplateId)
    BY <1>3 DEF DeleteTemplate
  <2>2. UNCHANGED <<loaded, asking, custom, importing>> /\ templates # None
    BY <1>3 DEF DeleteTemplate, Templating
  <2>3. IsTemplates(left)
    BY <2>2 DEF IInv, Shaped, IsTemplates
  <2> HIDE DEF left
  <2> QED
    BY <2>1, <2>2, <2>3, UpdatedStep
<1>4. CASE ApplyTemplate
  <2>1. templates # None /\ Becomes(templates[selectedTemplateId], requestReady) /\ UNCHANGED custom
    BY <1>4 DEF ApplyTemplate
  <2>2. templates[selectedTemplateId] \in Request /\ requestReady \in BOOLEAN
    BY <2>1 DEF IInv, Shaped, IsTemplates, FormHasAll
  <2> QED
    BY <2>1, <2>2, BecomesStep
<1>5. CASE FileRead
  <2>1. importing # None /\ importing' = None /\ UNCHANGED <<loaded, asking, custom>>
    BY <1>5 DEF FileRead
  <2>2. PICK i : Updated(With(importing, i, Default), i)
    BY <1>5 DEF FileRead
  <2>3. IsTemplates(With(importing, i, Default))
    BY <2>1, WithIsTemplates, DefaultIsRequest DEF IInv, Shaped
  <2> QED
    BY <2>1, <2>2, <2>3, UpdatedStep
<1> QED
  BY <1>1, <1>2, <1>3, <1>4, <1>5

\* Defaults and fees that arrive.
LEMMA FetchStep ==
  ASSUME IInv, DefaultsDone \/ SyncDone
  PROVE  IInv'
<1>1. CASE DefaultsDone
  <2>1. UNCHANGED custom /\ (Becomes(Default, TRUE) \/ Becomes(request, TRUE))
    BY <1>1 DEF DefaultsDone
  <2>2. Default \in Request /\ request \in Request
    BY DefaultIsRequest DEF IInv, Shaped
  <2> QED
    BY <2>1, <2>2, BecomesStep
<1>2. CASE SyncDone
  <2>1. PICK s \in syncs : syncs' = syncs \ {s} /\ request' \in {request, [request EXCEPT !.fees = s]}
    BY <1>2 DEF SyncDone
  <2>2. /\ storedRequest' \in {request', storedRequest}
        /\ UNCHANGED <<requestReady, anchor, anchorLoading, anchorCalls, custom, inForm>>
    BY <1>2 DEF SyncDone
  <2>3. s \in Symbols \cup {None}
    BY DEF IInv, Shaped
  <2>4. request' \in Request /\ request'.symbol = request.symbol
    BY <2>1, <2>3 DEF IInv, Shaped, Request
  <2>5. Shaped'
    <3>1. UNCHANGED <<templates, storedTemplates, importing>>
      BY <2>2 DEF inForm
    <3>2. /\ IsTemplates(storedTemplates)'
          /\ (templates # None => IsTemplates(templates))'
          /\ (importing # None => IsTemplates(importing))'
      BY <3>1 DEF IInv, Shaped, IsTemplates
    <3>3. syncs' \subseteq Symbols /\ storedRequest' \in Request \cup {None}
      BY <2>1, <2>2, <2>4 DEF IInv, Shaped
    <3> QED
      BY <2>2, <2>4, <3>2, <3>3 DEF IInv, Shaped
  <2>6. CallsAreCurrent' /\ AnchorIsCurrent' /\ FormHasAll'
    BY <2>2, <2>4 DEF IInv, CallsAreCurrent, AnchorIsCurrent, FormHasAll, inForm
  <2>7. SyncsAreCurrent'
    BY <2>1, <2>4 DEF IInv, SyncsAreCurrent
  <2> QED
    BY <2>5, <2>6, <2>7 DEF IInv
<1> QED
  BY <1>1, <1>2

\* A call for an anchor price is of the data in the form, or was aborted.
LEMMA AnchorStep ==
  ASSUME IInv, AskAnchor \/ AnchorAnswered \/ AnchorFailed
  PROVE  IInv'
<1>1. PICK S : anchorCalls \subseteq CallOf(S)
  BY DEF IInv, Shaped
<1>2. UNCHANGED <<loaded, syncs, custom, inForm>>
  BY DEF AskAnchor, AnchorAnswered, AnchorFailed
<1>3. /\ anchorCalls' \subseteq CallOf(S)
      /\ \A c \in anchorCalls' : ~c.aborted =>
           \E d \in anchorCalls : ~d.aborted /\ c.symbol = d.symbol
      /\ \/ anchor' \in {None, anchor}
         \/ \E d \in anchorCalls : ~d.aborted /\ anchor' = d.symbol
  <2>1. CASE AskAnchor
    <3>1. PICK d \in anchorCalls :
            anchorCalls' = (anchorCalls \ {d}) \cup {[d EXCEPT !.stage = "asked"]}
      BY <2>1 DEF AskAnchor
    <3> DEFINE asked == [d EXCEPT !.stage = "asked"]
    <3>2. asked \in CallOf(S) /\ asked.symbol = d.symbol /\ asked.aborted = d.aborted
      BY <1>1 DEF CallOf
    <3>3. anchorCalls' = (anchorCalls \ {d}) \cup {asked}
      BY <3>1
    <3> HIDE DEF asked
    <3> QED
      BY <1>1, <2>1, <3>2, <3>3 DEF AskAnchor
  <2>2. CASE AnchorAnswered
    BY <1>1, <2>2 DEF AnchorAnswered
  <2>3. CASE AnchorFailed
    BY <1>1, <2>3 DEF AnchorFailed
  <2> QED
    BY <2>1, <2>2, <2>3
<1>4. Shaped'
  BY <1>2, <1>3 DEF IInv, Shaped, IsTemplates, loaded, inForm
<1>5. CallsAreCurrent'
  BY <1>2, <1>3 DEF IInv, CallsAreCurrent, loaded
<1>6. AnchorIsCurrent'
  BY <1>2, <1>3 DEF IInv, AnchorIsCurrent, CallsAreCurrent, loaded
<1>7. SyncsAreCurrent' /\ FormHasAll'
  BY <1>2 DEF IInv, SyncsAreCurrent, FormHasAll, loaded, inForm
<1> QED
  BY <1>4, <1>5, <1>6, <1>7 DEF IInv

\* What a page that is loaded has, of what was stored.
LEMMA FirstIsSound ==
  ASSUME NEW stored \in Request \cup {None}, NEW saved, IsTemplates(saved)
  PROVE  /\ First(stored) \in Request
         /\ FirstSync(First(stored)) \subseteq Symbols
         /\ \A s \in FirstSync(First(stored)) : s = First(stored).symbol \/ First(stored).symbol = None
         /\ \E T : FirstCalls(stored) \subseteq CallOf(T)
         /\ \A c \in FirstCalls(stored) : stored # None /\ c.symbol = First(stored).symbol
         /\ stored # None =>
              /\ IsTemplates(FirstTemplates(stored, saved))
              /\ DOMAIN FirstTemplates(stored, saved) = DOMAIN saved \cup {"temp", "example"}
<1>1. First(stored) \in Request
  BY DefaultIsRequest DEF First
<1>2. /\ FirstSync(First(stored)) \subseteq Symbols
      /\ \A s \in FirstSync(First(stored)) : s = First(stored).symbol \/ First(stored).symbol = None
  BY <1>1, HomeAssumption DEF FirstSync, Request
<1>3. CASE stored = None
  BY <1>1, <1>2, <1>3 DEF FirstCalls
<1>4. CASE stored # None
  <2>1. stored \in Request /\ First(stored) = stored /\ stored.symbol \in Symbols \cup {None}
    BY <1>4 DEF First, Request
  <2>2. /\ \E T : Waits({}, stored.symbol) \subseteq CallOf(T)
        /\ \A c \in Waits({}, stored.symbol) : c \in {} \/ c.symbol = stored.symbol
    <3>1. {} \in SUBSET CallOf({})
      OBVIOUS
    <3> QED
      BY <2>1, <3>1, WaitsAddsOne
  <2>3. FirstCalls(stored) = Waits({}, stored.symbol)
    BY <1>4 DEF FirstCalls
  <2>4. /\ IsTemplates(FirstTemplates(stored, saved))
        /\ DOMAIN FirstTemplates(stored, saved) = DOMAIN saved \cup {"temp", "example"}
    BY <1>4, <2>1, ResolvedHasAll DEF FirstTemplates
  <2> QED
    BY <1>1, <1>2, <1>4, <2>1, <2>2, <2>3, <2>4
<1> QED
  BY <1>3, <1>4

\* A page that is loaded anew.
LEMMA ReloadStep ==
  ASSUME IInv, Reload
  PROVE  IInv'
<1>1. /\ UNCHANGED storedRequest
      /\ request' = First(storedRequest) /\ syncs' = FirstSync(First(storedRequest))
      /\ requestReady' = (storedRequest # None) /\ custom' = FALSE /\ anchor' = None
      /\ anchorCalls' = FirstCalls(storedRequest)
      /\ templates' = FirstTemplates(storedRequest, storedTemplates)
      /\ storedTemplates' = IF requestReady' THEN templates' ELSE storedTemplates
      /\ selectedTemplateId' = "temp" /\ importing' = None
  BY DEF Reload
<1>2. storedRequest \in Request \cup {None} /\ IsTemplates(storedTemplates)
  BY DEF IInv, Shaped
<1>3. /\ First(storedRequest) \in Request
      /\ FirstSync(First(storedRequest)) \subseteq Symbols
      /\ \A s \in FirstSync(First(storedRequest)) :
           s = First(storedRequest).symbol \/ First(storedRequest).symbol = None
      /\ \E T : FirstCalls(storedRequest) \subseteq CallOf(T)
      /\ \A c \in FirstCalls(storedRequest) :
           storedRequest # None /\ c.symbol = First(storedRequest).symbol
      /\ storedRequest # None =>
           /\ IsTemplates(FirstTemplates(storedRequest, storedTemplates))
           /\ DOMAIN FirstTemplates(storedRequest, storedTemplates)
                = DOMAIN storedTemplates \cup {"temp", "example"}
  BY <1>2, FirstIsSound
<1>4. /\ IsTemplates(storedTemplates')
      /\ templates' # None => IsTemplates(templates')
      /\ FormHasAll'
  <2>1. CASE storedRequest = None
    BY <1>1, <1>2, <2>1 DEF FirstTemplates, FormHasAll
  <2>2. CASE storedRequest # None
    BY <1>1, <1>3, <2>2 DEF FormHasAll
  <2> QED
    BY <2>1, <2>2
<1>5. Shaped'
  <2>1. /\ IsTemplates(storedTemplates)'
        /\ (templates # None => IsTemplates(templates))'
    BY <1>4 DEF IsTemplates
  <2>2. /\ request' \in Request /\ storedRequest' \in Request \cup {None}
        /\ requestReady' \in BOOLEAN /\ custom' \in BOOLEAN /\ syncs' \subseteq Symbols
        /\ importing' = None
    BY <1>1, <1>2, <1>3
  <2>3. \E T : anchorCalls' \subseteq CallOf(T)
    BY <1>1, <1>3
  <2> QED
    BY <2>1, <2>2, <2>3 DEF Shaped
<1>6. CallsAreCurrent' /\ SyncsAreCurrent' /\ AnchorIsCurrent'
  BY <1>1, <1>3 DEF CallsAreCurrent, SyncsAreCurrent, AnchorIsCurrent
<1> QED
  BY <1>4, <1>5, <1>6 DEF IInv

-----------------------------------------------------------------------------
(* The invariant                                                           *)

\* A page that is loaded first.
LEMMA InitIInv == Init => IInv
<1> SUFFICES ASSUME Init PROVE IInv
  OBVIOUS
<1> DEFINE nothing == [i \in {} |-> Default]
<1>1. /\ storedRequest \in Request \cup {None}
      /\ request = First(storedRequest) /\ syncs = FirstSync(First(storedRequest))
      /\ requestReady = (storedRequest # None) /\ custom = FALSE /\ anchor = None
      /\ anchorCalls = FirstCalls(storedRequest)
      /\ templates = FirstTemplates(storedRequest, nothing)
      /\ storedTemplates = IF requestReady THEN templates ELSE nothing
      /\ selectedTemplateId = "temp" /\ importing = None
  BY DEF Init, Request
<1>2. IsTemplates(nothing) /\ DOMAIN nothing = {}
  BY DEF IsTemplates
<1> HIDE DEF nothing
<1>3. /\ First(storedRequest) \in Request
      /\ FirstSync(First(storedRequest)) \subseteq Symbols
      /\ \A s \in FirstSync(First(storedRequest)) :
           s = First(storedRequest).symbol \/ First(storedRequest).symbol = None
      /\ \E T : FirstCalls(storedRequest) \subseteq CallOf(T)
      /\ \A c \in FirstCalls(storedRequest) :
           storedRequest # None /\ c.symbol = First(storedRequest).symbol
      /\ storedRequest # None =>
           /\ IsTemplates(FirstTemplates(storedRequest, nothing))
           /\ DOMAIN FirstTemplates(storedRequest, nothing)
                = DOMAIN nothing \cup {"temp", "example"}
  BY <1>1, <1>2, FirstIsSound
<1>4. /\ IsTemplates(storedTemplates)
      /\ templates # None => IsTemplates(templates)
      /\ FormHasAll
  <2>1. CASE storedRequest = None
    BY <1>1, <1>2, <2>1 DEF FirstTemplates, FormHasAll
  <2>2. CASE storedRequest # None
    BY <1>1, <1>3, <2>2 DEF FormHasAll
  <2> QED
    BY <2>1, <2>2
<1> QED
  BY <1>1, <1>3, <1>4 DEF IInv, Shaped, CallsAreCurrent, SyncsAreCurrent, AnchorIsCurrent

\* Every step keeps the invariant.
LEMMA StepIInv == IInv /\ [Next]_vars => IInv'
<1> SUFFICES ASSUME IInv, [Next]_vars PROVE IInv'
  OBVIOUS
<1>1. CASE UNCHANGED vars
  <2>1. UNCHANGED <<loaded, asking, custom, inForm>>
    BY <1>1 DEF vars
  <2> QED
    BY <2>1, FormStep DEF inForm, IInv, Shaped, FormHasAll
<1> QED
  BY <1>1, UserStep, ReloadStep, TemplateStep, FetchStep, AnchorStep DEF Next

\* The invariant holds always.
LEMMA InvariantIInv == Spec => []IInv
BY InitIInv, StepIInv, PTL DEF Spec

\* The anchor price shown is of the data in the form, however often they are changed while calls are
\* answered, aborted and tried again.
THEOREM AnchorsAreCurrent == Spec => []AnchorIsCurrent
<1>1. IInv => AnchorIsCurrent
  BY DEF IInv
<1> QED
  BY <1>1, InvariantIInv, PTL

\* What is written over the storage has what was there, but for a template that is deleted, or that
\* was saved while a file was read.
LEMMA KeptStep ==
  ASSUME IInv, Next
  PROVE  OwnTemplatesAreKept
<1> DEFINE Grows == DOMAIN storedTemplates \subseteq DOMAIN storedTemplates'
<1>1. IsTemplates(storedTemplates) /\ request \in Request
  BY DEF IInv, Shaped
<1>2. ASSUME NEW r \in Request, NEW ready, Becomes(r, ready)
      PROVE  Grows
  <2>1. DOMAIN Resolved(storedTemplates, r) = DOMAIN storedTemplates \cup {"temp", "example"}
    BY <1>1, ResolvedHasAll
  <2>2. storedTemplates' \in {storedTemplates, Resolved(storedTemplates, r)}
    BY <1>2 DEF Becomes, inForm
  <2> QED
    BY <2>1, <2>2
<1>3. Grows => OwnTemplatesAreKept
  BY DEF OwnTemplatesAreKept
<1>4. CASE SyncAgain \/ ChangeAnchorMode \/ SelectTemplate \/ ChooseFile \/ SyncDone
           \/ AskAnchor \/ AnchorAnswered \/ AnchorFailed
  BY <1>3, <1>4 DEF SyncAgain, ChangeAnchorMode, SelectTemplate, ChooseFile, SyncDone, AskAnchor,
                    AnchorAnswered, AnchorFailed, Templating, inForm
<1>5. CASE EditSymbol
  <2>1. PICK s \in Symbols \cup {None} : Becomes([request EXCEPT !.symbol = s], requestReady)
    BY <1>5 DEF EditSymbol
  <2>2. [request EXCEPT !.symbol = s] \in Request
    BY <1>1 DEF Request
  <2> QED
    BY <1>2, <1>3, <2>1, <2>2
<1>6. CASE DefaultsDone
  BY <1>1, <1>2, <1>3, <1>6, DefaultIsRequest DEF DefaultsDone
<1>7. CASE ApplyTemplate
  <2>1. templates[selectedTemplateId] \in Request
    BY <1>7 DEF ApplyTemplate, IInv, Shaped, IsTemplates, FormHasAll
  <2> QED
    BY <1>2, <1>3, <1>7, <2>1 DEF ApplyTemplate
<1>8. CASE Run
  <2>1. storedTemplates' = WithLastRun(storedTemplates, request)
    BY <1>8 DEF Run
  <2>2. DOMAIN Resolved(storedTemplates, request) = DOMAIN storedTemplates \cup {"temp", "example"}
    BY <1>1, ResolvedHasAll
  <2> QED
    BY <1>3, <2>1, <2>2 DEF WithLastRun, With
<1>9. CASE Reload
  <2>1. /\ storedTemplates' = IF storedRequest # None
                              THEN FirstTemplates(storedRequest, storedTemplates)
                              ELSE storedTemplates
        /\ storedRequest \in Request \cup {None}
    BY <1>9 DEF Reload, IInv, Shaped
  <2>2. storedRequest # None =>
          DOMAIN FirstTemplates(storedRequest, storedTemplates)
            = DOMAIN storedTemplates \cup {"temp", "example"}
    BY <1>1, <2>1, FirstIsSound
  <2> QED
    BY <1>3, <2>1, <2>2
<1>10. ASSUME NEW next, IsTemplates(next), NEW id, Updated(next, id)
       PROVE  DOMAIN next \subseteq DOMAIN storedTemplates'
  <2>1. DOMAIN Resolved(next, request) = DOMAIN next \cup {"temp", "example"}
    BY <1>1, <1>10, ResolvedHasAll
  <2> QED
    BY <1>10, <2>1 DEF Updated
<1>11. CASE SaveTemplate
  <2>1. PICK i : Updated(With(templates, i, request), i)
    BY <1>11 DEF SaveTemplate
  <2>2. templates # None /\ IsTemplates(templates) /\ DOMAIN storedTemplates \subseteq DOMAIN templates
    BY <1>11 DEF SaveTemplate, Templating, IInv, Shaped, FormHasAll
  <2>3. /\ IsTemplates(With(templates, i, request))
        /\ DOMAIN With(templates, i, request) = DOMAIN templates \cup {i}
    BY <1>1, <2>2, WithIsTemplates
  <2> QED
    BY <1>3, <1>10, <2>1, <2>2, <2>3
<1>12. CASE DeleteTemplate
  <2> DEFINE left == [i \in DOMAIN templates \ {selectedTemplateId} |-> templates[i]]
  <2>1. Updated(left, selectedTemplateId)
    BY <1>12 DEF DeleteTemplate
  <2>2. templates # None /\ IsTemplates(templates) /\ DOMAIN storedTemplates \subseteq DOMAIN templates
    BY <1>12 DEF DeleteTemplate, Templating, IInv, Shaped, FormHasAll
  <2>3. IsTemplates(left) /\ DOMAIN left = DOMAIN templates \ {selectedTemplateId}
    BY <2>2 DEF IsTemplates
  <2> HIDE DEF left
  <2>4. DOMAIN left \subseteq DOMAIN storedTemplates'
    BY <1>10, <2>1, <2>3
  <2> QED
    BY <2>2, <2>3, <2>4 DEF OwnTemplatesAreKept
<1>13. CASE FileRead
  BY <1>13 DEF FileRead, OwnTemplatesAreKept
<1> QED
  BY <1>4, <1>5, <1>6, <1>7, <1>8, <1>9, <1>11, <1>12, <1>13 DEF Next

\* Fees that arrive late are put under no other symbol, and no template is lost with what is stored
\* meanwhile.
THEOREM InputsAreKept == Spec => InputsStayTheUsers
<1>1. IInv /\ [Next]_vars => [FeesAreOfTheSymbol /\ OwnTemplatesAreKept]_vars
  <2> SUFFICES ASSUME IInv, Next PROVE FeesAreOfTheSymbol /\ OwnTemplatesAreKept
    OBVIOUS
  <2>1. FeesAreOfTheSymbol
    BY DEF IInv, Shaped, SyncsAreCurrent, FeesAreOfTheSymbol, Request
  <2>2. OwnTemplatesAreKept
    BY KeptStep
  <2> QED
    BY <2>1, <2>2
<1> QED
  BY <1>1, InvariantIInv, PTL DEF Spec, InputsStayTheUsers

-----------------------------------------------------------------------------
(* ApiClient.                                                              *)

\* An attempt of a call has a number among its attempts.
IsAttempt(w) == w \in Nat \X Nat \X Kinds /\ w[2] <= Retries(w[3])

\* While an attempt is under way its signal, and nothing else, listens to the caller's, which is not
\* aborted; during a pause what listens is the attempt before.
CallInv ==
  /\ calls \in Nat /\ attempt \in Nat /\ kind \in Kinds /\ attempt <= Retries(kind)
  /\ phase \in {"idle", "fetching", "reading", "sleeping"}
  /\ \A w \in wire : IsAttempt(w)
  /\ \A j \in jobs : j = <<j[1], 0>>
  /\ phase = "fetching" => ~aborted /\ listeners = {Current}
  /\ phase = "sleeping" => attempt # 0 /\ listeners \subseteq {<<calls, attempt - 1, kind>>}
  /\ phase \in {"idle", "reading"} => listeners = {}
  /\ phase = "reading" => kind = "export"

LEMMA RetriesAre == ASSUME NEW op \in Kinds PROVE Retries(op) \in Nat
BY DEF Retries

\* What a step makes of the call.
LEMMA RejectedIs ==
  ASSUME calls' \in Nat, kind' \in Kinds, NEW number \in Nat, number <= Retries(kind'), NEW heard,
         heard \subseteq {Now(number)}, Rejected(number, heard)
  PROVE  /\ attempt' \in Nat /\ attempt' <= Retries(kind') /\ phase' \in {"idle", "sleeping"}
         /\ phase' = "sleeping" => attempt' # 0 /\ listeners' \subseteq {<<calls', attempt' - 1, kind'>>}
         /\ phase' = "idle" => listeners' = {}
         /\ outcome' = "value" => outcome = "value"
<1>1. Retries(kind') \in Nat
  BY RetriesAre
<1>2. CASE number < Retries(kind')
  BY <1>1, <1>2 DEF Rejected, Now
<1>3. CASE ~(number < Retries(kind'))
  BY <1>1, <1>3 DEF Rejected, CleanedUp
<1> QED BY <1>2, <1>3

LEMMA SendsIs ==
  ASSUME CallInv, calls' \in Nat, kind' \in Kinds, NEW number \in Nat, number <= Retries(kind'),
         aborted' = aborted, Sends(number, {})
  PROVE  /\ attempt' \in Nat /\ attempt' <= Retries(kind')
         /\ phase' \in {"idle", "fetching", "sleeping"}
         /\ phase' = "fetching" => ~aborted' /\ listeners' = {Current'}
         /\ phase' = "sleeping" => attempt' # 0 /\ listeners' \subseteq {<<calls', attempt' - 1, kind'>>}
         /\ phase' = "idle" => listeners' = {}
         /\ \A w \in wire' : IsAttempt(w)
         /\ aborted => wire' = wire
         /\ outcome' = "value" => outcome = "value"
<1>1. CASE aborted
  <2>1. Rejected(number, {}) /\ wire' = wire
    BY <1>1 DEF Sends
  <2> QED BY <1>1, <2>1, RejectedIs DEF CallInv
<1>2. CASE ~aborted
  <2>1. /\ phase' = "fetching" /\ attempt' = number /\ outcome' = "none"
        /\ listeners' = {Now(number)} /\ wire' = wire \cup {Now(number)}
    BY <1>2 DEF Sends
  <2>2. Now(number) = Current'
    BY <2>1 DEF Now, Current
  <2>3. IsAttempt(Now(number))
    BY DEF Now, IsAttempt
  <2>4. \A w \in wire' : IsAttempt(w)
    BY <2>1, <2>3 DEF CallInv
  <2> QED BY <1>2, <2>1, <2>2, <2>4
<1> QED BY <1>1, <1>2

\* What every step keeps to, beside the invariant.
Honours == AbortHolds /\ CallInv'

LEMMA RejectionHonours ==
  ASSUME CallInv, phase = "fetching", UNCHANGED <<kind, calls, wire, jobs>>, NEW heard,
         heard \subseteq {Current}, Rejected(attempt, heard)
  PROVE  Honours
<1>1. Now(attempt) = Current
  BY DEF Now, Current
<1>2. /\ attempt' \in Nat /\ attempt' <= Retries(kind') /\ phase' \in {"idle", "sleeping"}
      /\ phase' = "sleeping" => attempt' # 0 /\ listeners' \subseteq {<<calls', attempt' - 1, kind'>>}
      /\ phase' = "idle" => listeners' = {}
      /\ outcome' = "value" => outcome = "value"
  BY <1>1, RejectedIs DEF CallInv
<1>3. CallInv'
  BY <1>2 DEF CallInv
<1>4. AbortHolds
  BY <1>2 DEF AbortHolds
<1> QED BY <1>3, <1>4 DEF Honours

LEMMA CallHonours ==
  ASSUME CallInv, NEW op \in Kinds, Call(op)
  PROVE  Honours
<1>1. calls' \in Nat /\ kind' \in Kinds /\ 0 <= Retries(kind') /\ listeners = {} /\ jobs' = jobs
      /\ aborted' = aborted
  BY RetriesAre DEF Call, CallInv
<1>2. Sends(0, {})
  BY <1>1 DEF Call
<1>3. CallInv'
  BY <1>1, <1>2, SendsIs DEF CallInv
<1>4. AbortHolds
  BY <1>1, <1>2, SendsIs DEF AbortHolds
<1> QED BY <1>3, <1>4 DEF Honours

LEMMA SleepHonours ==
  ASSUME CallInv, SleepEnds
  PROVE  Honours
<1>1. calls' \in Nat /\ kind' \in Kinds /\ attempt \in Nat /\ attempt <= Retries(kind') /\ jobs' = jobs
      /\ aborted' = aborted
  BY DEF SleepEnds, CallInv
<1>2. CleanedUp(listeners, Now(attempt - 1)) = {}
  BY DEF SleepEnds, CallInv, CleanedUp, Now
<1>3. Sends(attempt, {})
  BY <1>2 DEF SleepEnds
<1>4. CallInv'
  BY <1>1, <1>3, SendsIs DEF CallInv
<1>5. AbortHolds
  BY <1>1, <1>3, SendsIs DEF AbortHolds
<1> QED BY <1>4, <1>5 DEF Honours

LEMMA AnswerHonours ==
  ASSUME CallInv, AnswerArrives
  PROVE  Honours
<1>1. phase = "fetching" /\ ~aborted /\ CleanedUp(listeners, Current) = {}
  BY DEF AnswerArrives, CallInv, CleanedUp
<1>2. CallInv'
  BY <1>1 DEF AnswerArrives, Ends, CallInv
<1> QED BY <1>1, <1>2 DEF AbortHolds, Honours

LEMMA ServerHonours ==
  ASSUME CallInv, ServerServes
  PROVE  Honours
<1>1. PICK sent \in wire :
        /\ wire' = wire \ {sent}
        /\ jobs' = IF sent[3] \in {"start", "restart"}
                   THEN jobs \cup {<<sent[1], KeyOf(sent[3], sent[2])>>} ELSE jobs
  BY DEF ServerServes
<1>2. IsAttempt(sent)
  BY DEF CallInv
<1>3. sent[3] \in {"start", "restart"} => KeyOf(sent[3], sent[2]) = 0
  BY <1>2 DEF IsAttempt, KeyOf, Retries
<1>4. \A j \in jobs' : j = <<j[1], 0>>
  BY <1>1, <1>3 DEF CallInv
<1>5. CallInv'
  BY <1>1, <1>4 DEF ServerServes, CallInv, Current
<1>6. AbortHolds
  BY <1>1 DEF ServerServes, AbortHolds
<1> QED BY <1>5, <1>6 DEF Honours

LEMMA CallStep ==
  ASSUME CallInv, CallNext
  PROVE  Honours
<1>1. CASE \E op \in Kinds : Call(op)
  BY <1>1, CallHonours
<1>2. CASE SleepEnds
  BY <1>2, SleepHonours
<1>3. CASE AnswerArrives
  BY <1>3, AnswerHonours
<1>4. CASE BodyRead
  <2>1. kind = "export" /\ listeners = {} /\ phase' = "idle" /\ listeners' = {}
    BY <1>4 DEF BodyRead, Ends, CallInv
  <2>2. CallInv'
    BY <1>4, <2>1 DEF BodyRead, Ends, CallInv
  <2> QED BY <1>4, <2>1, <2>2 DEF BodyRead, AbortHolds, Honours
<1>5. CASE AttemptFails \/ Timeout
  BY <1>5, RejectionHonours DEF AttemptFails, Timeout, CallInv
<1>6. CASE CallerAborts
  <2>1. CASE phase = "fetching"
    <3>1. Rejected(attempt, {})
      BY <1>6, <2>1 DEF CallerAborts, CallInv
    <3> QED BY <1>6, <2>1, <3>1, RejectionHonours DEF CallerAborts
  <2>2. CASE phase # "fetching"
    <3>1. listeners' = {} /\ UNCHANGED <<phase, attempt, outcome>>
      BY <1>6, <2>2 DEF CallerAborts
    <3>2. CallInv'
      BY <1>6, <2>2, <3>1 DEF CallerAborts, CallInv
    <3> QED BY <1>6, <3>1, <3>2 DEF CallerAborts, AbortHolds, Honours
  <2> QED BY <2>1, <2>2
<1>7. CASE ServerServes
  BY <1>7, ServerHonours
<1> QED BY <1>1, <1>2, <1>3, <1>4, <1>5, <1>6, <1>7 DEF CallNext

LEMMA CallInvIsEnough == CallInv => StartsOneJob /\ LeavesNoListener
<1> SUFFICES ASSUME CallInv PROVE StartsOneJob /\ LeavesNoListener
  OBVIOUS
<1>1. ASSUME NEW i \in 1 .. calls PROVE Cardinality({j \in jobs : j[1] = i}) <= 1
  <2>1. PICK S : S = {j \in jobs : j[1] = i}
    OBVIOUS
  <2>2. S \subseteq {<<i, 0>>}
    BY <2>1 DEF CallInv
  <2>3. CASE S = {}
    BY <2>1, <2>3, FS_EmptySet
  <2>4. CASE S = {<<i, 0>>}
    <3>1. Cardinality(S) = 1
      BY <2>4, FS_Singleton
    <3> QED BY <2>1, <3>1
  <2> QED BY <2>2, <2>3, <2>4
<1> QED BY <1>1 DEF CallInv, StartsOneJob, LeavesNoListener

\* However many calls are made under one signal, attempts fail and come to the server late: once the
\* caller has aborted nothing more is sent, and no answer is handed to him but the file that was being
\* read; a call starts one job at most; and a call that is over listens to nothing (requestJson,
\* requestBlob, buildAbortSignal).
THEOREM CallsKeepSound == CallInit /\ [][CallNext]_callVars => CallsAreSound
<1>1. CallInit => CallInv
  BY RetriesAre DEF CallInit, CallInv, Kinds, Retries
<1>2. CallInv /\ [CallNext]_callVars => CallInv'
  <2>1. CallInv /\ UNCHANGED callVars => CallInv'
    BY DEF CallInv, callVars, Current
  <2> QED BY <2>1, CallStep DEF Honours
<1>3. CallInv /\ [CallNext]_callVars => [AbortHolds /\ StartsOneJob' /\ LeavesNoListener']_callVars
  <2> SUFFICES ASSUME CallInv, CallNext PROVE AbortHolds /\ StartsOneJob' /\ LeavesNoListener'
    OBVIOUS
  <2>1. AbortHolds /\ CallInv'
    BY CallStep DEF Honours
  <2>2. (StartsOneJob /\ LeavesNoListener)'
    BY <2>1, CallInvIsEnough, PTL
  <2> QED BY <2>1, <2>2
<1> QED BY <1>1, <1>2, <1>3, PTL DEF CallsAreSound

-----------------------------------------------------------------------------
(* ParameterForm.                                                          *)

\* Nothing is missing in the steps before one.
Walked(f, t) == \A s \in Steps : Index(s) < Index(t) => Incomplete(f)[s] = {}

\* A phone keeps the step it shows; who has not jumped has walked to the step that is shown, and to
\* the one that is kept.
FormInv ==
  /\ form \in Forms /\ mobile \in BOOLEAN /\ step \in Steps /\ jumped \in BOOLEAN
  /\ kept = {} \/ \E s \in Steps : kept = {s}
  /\ mobile => kept = {step}
  /\ ~jumped => \A t \in kept \cup {step} : Walked(form, t)

LEMMA StepsAre ==
  /\ Steps = {"environment", "strategy_position", "risk_submit"}
  /\ Index("environment") = 1 /\ Index("strategy_position") = 2 /\ Index("risk_submit") = 3
  /\ WIZARD_STEPS[1] = "environment" /\ WIZARD_STEPS[2] = "strategy_position"
  /\ WIZARD_STEPS[3] = "risk_submit"
<1>1. DOMAIN WIZARD_STEPS = {1, 2, 3}
  BY DEF WIZARD_STEPS
<1>2. /\ WIZARD_STEPS[1] = "environment" /\ WIZARD_STEPS[2] = "strategy_position"
      /\ WIZARD_STEPS[3] = "risk_submit"
  BY DEF WIZARD_STEPS
<1> QED BY <1>1, <1>2 DEF Steps, Index

\* What the wizard misses, field by field.
LEMMA IncompleteIs ==
  ASSUME NEW f \in Forms
  PROVE  /\ Incomplete(f)["environment"] = {} <=> f.start # {} /\ InOrder(f)
         /\ Incomplete(f)["strategy_position"] = {} <=>
              /\ f.lower > 0 /\ f.upper > 0 /\ f.upper > f.lower
              /\ f.grids >= 4 /\ f.leverage >= 2 /\ f.margin > 0
         /\ Incomplete(f)["risk_submit"] = {} <=> f.stop > 0 /\ f.mmr > 0 /\ f.slippage >= 0
         /\ Incomplete(f)["environment"] \subseteq {"start", "order"}
         /\ InOrder(f) => "order" \notin Incomplete(f)["environment"]
         /\ f.lower > 0 /\ f.upper > f.lower /\ f.grids >= 4 /\ f.margin > 0
              => Incomplete(f)["strategy_position"] \subseteq {"leverage"}
<1>1. PICK a : a = [start |-> f.start # {}, order |-> InOrder(f)]
  OBVIOUS
<1>2. PICK b : b = [lower |-> f.lower > 0, upper |-> f.upper > 0, range |-> f.upper > f.lower,
                    grids |-> f.grids >= 4, leverage |-> f.leverage >= 2, margin |-> f.margin > 0]
  OBVIOUS
<1>3. PICK c : c = [stop |-> f.stop > 0, mmr |-> f.mmr > 0, slippage |-> f.slippage >= 0]
  OBVIOUS
<1>4. /\ Incomplete(f)["environment"] = Unmet(a)
      /\ Incomplete(f)["strategy_position"] = Unmet(b)
      /\ Incomplete(f)["risk_submit"] = Unmet(c)
  BY <1>1, <1>2, <1>3 DEF Incomplete
<1>5. /\ Unmet(a) = {} <=> f.start # {} /\ InOrder(f)
      /\ Unmet(a) \subseteq {"start", "order"}
      /\ InOrder(f) => "order" \notin Unmet(a)
  <2>1. DOMAIN a = {"start", "order"} /\ (a["start"] <=> f.start # {}) /\ (a["order"] <=> InOrder(f))
    BY <1>1
  <2>2. \A x : x \in Unmet(a) <=> x \in DOMAIN a /\ ~a[x]
    BY DEF Unmet
  <2> QED BY <2>1, <2>2
<1>6. /\ Unmet(b) = {} <=>
           /\ f.lower > 0 /\ f.upper > 0 /\ f.upper > f.lower
           /\ f.grids >= 4 /\ f.leverage >= 2 /\ f.margin > 0
      /\ f.lower > 0 /\ f.upper > f.lower /\ f.grids >= 4 /\ f.margin > 0
           => Unmet(b) \subseteq {"leverage"}
  <2>1. DOMAIN b = {"lower", "upper", "range", "grids", "leverage", "margin"}
    BY <1>2
  <2>2. /\ b["lower"] <=> f.lower > 0
        /\ b["upper"] <=> f.upper > 0
        /\ b["range"] <=> f.upper > f.lower
        /\ b["grids"] <=> f.grids >= 4
        /\ b["leverage"] <=> f.leverage >= 2
        /\ b["margin"] <=> f.margin > 0
    BY <1>2
  <2>3. \A x : x \in Unmet(b) <=> x \in DOMAIN b /\ ~b[x]
    BY DEF Unmet
  <2>4. f.lower > 0 /\ f.upper > f.lower => f.upper > 0
    BY DEF Forms
  <2>5. Unmet(b) = {} <=>
          /\ f.lower > 0 /\ f.upper > 0 /\ f.upper > f.lower
          /\ f.grids >= 4 /\ f.leverage >= 2 /\ f.margin > 0
    BY <2>1, <2>2, <2>3
  <2>6. f.lower > 0 /\ f.upper > f.lower /\ f.grids >= 4 /\ f.margin > 0
          => Unmet(b) \subseteq {"leverage"}
    BY <2>1, <2>2, <2>3, <2>4
  <2> QED BY <2>5, <2>6
<1>7. Unmet(c) = {} <=> f.stop > 0 /\ f.mmr > 0 /\ f.slippage >= 0
  <2>1. DOMAIN c = {"stop", "mmr", "slippage"}
    BY <1>3
  <2>2. /\ c["stop"] <=> f.stop > 0
        /\ c["mmr"] <=> f.mmr > 0
        /\ c["slippage"] <=> f.slippage >= 0
    BY <1>3
  <2>3. \A x : x \in Unmet(c) <=> x \in DOMAIN c /\ ~c[x]
    BY DEF Unmet
  <2> QED BY <2>1, <2>2, <2>3
<1> QED BY <1>4, <1>5, <1>6, <1>7

LEMMA BlocksAre ==
  ASSUME NEW f \in Forms
  PROVE  /\ Blocks(f) = {} =>
              /\ f.upper > f.lower /\ f.grids >= 4 /\ f.leverage > 0 /\ f.margin > 0
              /\ InOrder(f) /\ BeyondRange(f)
         /\ f.upper > f.lower /\ f.grids >= 4 /\ f.leverage > 0 /\ f.margin > 0
            /\ InOrder(f) /\ BeyondRange(f) => Blocks(f) \subseteq {"loss"}
<1>1. PICK c : c = [range |-> f.upper > f.lower, grids |-> f.grids >= 4, leverage |-> f.leverage > 0,
                    margin |-> f.margin > 0, order |-> InOrder(f), stop |-> BeyondRange(f),
                    loss |-> f.strict => \E m \in f.maxLoss : m > 0]
  OBVIOUS
<1>2. Blocks(f) = Unmet(c)
  BY <1>1 DEF Blocks
<1>3. DOMAIN c = {"range", "grids", "leverage", "margin", "order", "stop", "loss"}
  BY <1>1
<1>4. /\ c["range"] <=> f.upper > f.lower
      /\ c["grids"] <=> f.grids >= 4
      /\ c["leverage"] <=> f.leverage > 0
      /\ c["margin"] <=> f.margin > 0
      /\ c["order"] <=> InOrder(f)
      /\ c["stop"] <=> BeyondRange(f)
  BY <1>1
<1>5. \A x : x \in Unmet(c) <=> x \in DOMAIN c /\ ~c[x]
  BY DEF Unmet
<1>6. Unmet(c) = {} =>
        /\ f.upper > f.lower /\ f.grids >= 4 /\ f.leverage > 0 /\ f.margin > 0
        /\ InOrder(f) /\ BeyondRange(f)
  BY <1>3, <1>4, <1>5
<1>7. f.upper > f.lower /\ f.grids >= 4 /\ f.leverage > 0 /\ f.margin > 0
      /\ InOrder(f) /\ BeyondRange(f) => Unmet(c) \subseteq {"loss"}
  BY <1>3, <1>4, <1>5
<1> QED BY <1>2, <1>6, <1>7

\* The judges agree on any form.
LEMMA FormsJudged == form \in Forms => JudgesAgree
<1> SUFFICES ASSUME form \in Forms PROVE JudgesAgree
  OBVIOUS
<1>1. Missing = Incomplete(form)["environment"] \cup Incomplete(form)["strategy_position"]
                  \cup Incomplete(form)["risk_submit"]
  BY StepsAre DEF Missing
<1>2. Accepts(form) => Blocks(form) \subseteq {"loss"}
  BY BlocksAre DEF Accepts
<1>3. Accepts(form) => Missing \subseteq {"leverage", "start"}
  <2> SUFFICES ASSUME Accepts(form) PROVE Missing \subseteq {"leverage", "start"}
    OBVIOUS
  <2>1. /\ form.lower > 0 /\ form.upper > form.lower /\ form.grids >= 4 /\ form.margin > 0
        /\ form.stop > 0 /\ form.mmr > 0 /\ form.slippage >= 0 /\ InOrder(form)
    BY DEF Accepts
  <2>2. Incomplete(form)["environment"] \subseteq {"start"}
    BY <2>1, IncompleteIs
  <2>3. Incomplete(form)["strategy_position"] \subseteq {"leverage"}
    BY <2>1, IncompleteIs
  <2>4. Incomplete(form)["risk_submit"] = {}
    BY <2>1, IncompleteIs
  <2> QED BY <1>1, <2>2, <2>3, <2>4
<1>4. Missing = {} /\ Blocks(form) = {} /\ WithinCaps(form) => Accepts(form)
  <2> SUFFICES ASSUME Missing = {}, Blocks(form) = {}, WithinCaps(form) PROVE Accepts(form)
    OBVIOUS
  <2>1. /\ Incomplete(form)["environment"] = {} /\ Incomplete(form)["strategy_position"] = {}
        /\ Incomplete(form)["risk_submit"] = {}
    BY <1>1
  <2>2. /\ form.lower > 0 /\ form.upper > form.lower /\ form.grids >= 4 /\ form.margin > 0
        /\ form.stop > 0 /\ form.mmr > 0 /\ form.slippage >= 0
    BY <2>1, IncompleteIs
  <2>3. form.leverage > 0 /\ InOrder(form) /\ BeyondRange(form)
    BY BlocksAre
  <2> QED BY <2>2, <2>3 DEF Accepts
<1> QED BY <1>2, <1>3, <1>4 DEF JudgesAgree

\* A field of one step of the wizard is read for that step alone.
LEMMA EditIsIncomplete ==
  ASSUME NEW f \in Forms, NEW g \in Forms, NEW s \in Steps, NEW fields,
         \A x \in DOMAIN f \ fields : g[x] = f[x],
         \/ s # "environment" /\ fields \subseteq {"start", "end"}
         \/ /\ s # "strategy_position"
            /\ fields \subseteq {"side", "lower", "upper", "grids", "leverage", "margin", "strict"}
         \/ s # "risk_submit" /\ fields \subseteq {"stop", "mmr", "slippage", "maxLoss"}
  PROVE  Incomplete(g)[s] = Incomplete(f)[s]
<1>1. DOMAIN f = {"side", "lower", "upper", "grids", "leverage", "margin", "stop", "mmr", "slippage",
                  "maxLoss", "strict", "start", "end"}
  BY DEF Forms
<1>2. CASE fields \cap {"start", "end"} = {} /\ s = "environment"
  <2>1. g.start = f.start /\ g.end = f.end
    BY <1>1, <1>2
  <2>2. InOrder(g) = InOrder(f)
    BY <2>1 DEF InOrder
  <2> QED BY <1>2, <2>1, <2>2 DEF Incomplete
<1>3. CASE /\ fields \cap {"lower", "upper", "grids", "leverage", "margin"} = {}
           /\ s = "strategy_position"
  <2>1. /\ g.lower = f.lower /\ g.upper = f.upper /\ g.grids = f.grids
        /\ g.leverage = f.leverage /\ g.margin = f.margin
    BY <1>1, <1>3
  <2> QED BY <1>3, <2>1 DEF Incomplete
<1>4. CASE fields \cap {"stop", "mmr", "slippage"} = {} /\ s = "risk_submit"
  <2>1. g.stop = f.stop /\ g.mmr = f.mmr /\ g.slippage = f.slippage
    BY <1>1, <1>4
  <2> QED BY <1>4, <2>1 DEF Incomplete
<1> QED BY <1>2, <1>3, <1>4, StepsAre

-----------------------------------------------------------------------------
(* The steps of the form                                                   *)

\* A field has the values of its own type, whatever else is in the form.
LEMMA FieldIs ==
  ASSUME NEW f \in Forms, NEW x \in DOMAIN f, NEW value \in Entries[x]
  PROVE  [f EXCEPT ![x] = value] \in Forms
<1>1. Complete \in Forms /\ [Complete EXCEPT ![x] = value] \in Forms
  <2>1. x \in DOMAIN Complete
    BY FormAssumption DEF Forms
  <2> QED BY <2>1, FormAssumption
<1>2. PICK g : g = [Complete EXCEPT ![x] = value]
  OBVIOUS
<1>3. g[x] = value
  BY <1>1, <1>2 DEF Forms
<1>4. PICK h : h = [f EXCEPT ![x] = value]
  OBVIOUS
<1>5. /\ DOMAIN h = DOMAIN f /\ h = [y \in DOMAIN f |-> h[y]]
      /\ \A y \in DOMAIN f : h[y] = IF y = x THEN g[x] ELSE f[y]
  BY <1>3, <1>4 DEF Forms
<1>6. g \in Forms
  BY <1>1, <1>2
<1> QED BY <1>4, <1>5, <1>6 DEF Forms

LEMMA RowIs ==
  ASSUME NEW f \in Forms, NEW row \in Rows
  PROVE  Filled(f, row) \in Forms
<1>1. Filled(Complete, row) \in Forms /\ Complete \in Forms
  BY FormAssumption
<1>2. PICK g : g = Filled(Complete, row)
  OBVIOUS
<1>3. PICK h : h = Filled(f, row)
  OBVIOUS
<1>4. DOMAIN f = DOMAIN Complete
  BY <1>1 DEF Forms
<1>5. /\ DOMAIN h = DOMAIN f /\ h = [y \in DOMAIN f |-> h[y]]
      /\ \A y \in DOMAIN f : h[y] \in {g[y], f[y]}
  BY <1>2, <1>3, <1>4 DEF Filled
<1>6. g \in Forms
  BY <1>1, <1>2
<1> QED BY <1>3, <1>5, <1>6 DEF Forms

\* A form with nothing missing in a step is missing nothing in the steps before the next.
LEMMA NextIsWalked ==
  ASSUME NEW f, NEW s \in Steps, Walked(f, s)
  PROVE  /\ s # "risk_submit" /\ Incomplete(f)[s] = {} =>
              WIZARD_STEPS[Index(s) + 1] \in Steps /\ Walked(f, WIZARD_STEPS[Index(s) + 1])
         /\ s \notin {"environment", "risk_submit"} =>
              WIZARD_STEPS[Index(s) - 1] \in Steps /\ Walked(f, WIZARD_STEPS[Index(s) - 1])
BY StepsAre DEF Walked

LEMMA FirstIsWalked == \A f : Walked(f, "environment")
BY StepsAre DEF Walked

\* A field that is filled in.
LEMMA EntersKeeps ==
  ASSUME FormInv, NEW section, NEW fields, Enters(section, fields),
         \/ section = "time" /\ fields = {"start", "end"}
         \/ section = "range" /\ fields = {"side", "lower", "upper", "grids"}
         \/ section = "position" /\ fields = {"leverage", "margin", "strict"}
         \/ section = "risk" /\ fields = {"stop", "mmr", "slippage", "maxLoss"}
  PROVE  FormInv'
<1>1. /\ Visible(section) /\ jumped' = (jumped \/ ~mobile)
      /\ mobile' = mobile /\ step' = step /\ kept' = kept
  BY DEF Enters
<1>2. PICK x \in fields : \E value \in Entries[x] : form' = [form EXCEPT ![x] = value]
  BY DEF Enters
<1>3. PICK value \in Entries[x] : form' = [form EXCEPT ![x] = value]
  BY <1>2
<1>4. x \in DOMAIN form /\ form \in Forms
  BY DEF FormInv, Forms
<1>5. form' \in Forms
  BY <1>3, <1>4, FieldIs
<1>6. \A y \in DOMAIN form \ fields : form'[y] = form[y]
  BY <1>3
<1>7. ASSUME ~jumped', NEW t \in kept' \cup {step'} PROVE Walked(form', t)
  <2>1. mobile /\ t = step /\ Walked(form, step) /\ step \in Steps
    BY <1>1, <1>7 DEF FormInv
  <2>2. section \in WizardShows[step]
    BY <1>1, <2>1 DEF Visible
  <2>3. ASSUME NEW s \in Steps, Index(s) < Index(step)
        PROVE  Incomplete(form')[s] = Incomplete(form)[s]
    <3>1. \/ s # "environment" /\ fields \subseteq {"start", "end"}
          \/ /\ s # "strategy_position"
             /\ fields \subseteq {"side", "lower", "upper", "grids", "leverage", "margin", "strict"}
          \/ s # "risk_submit" /\ fields \subseteq {"stop", "mmr", "slippage", "maxLoss"}
      BY <2>1, <2>2, <2>3, StepsAre DEF WizardShows
    <3> QED BY <1>4, <1>5, <1>6, <3>1, EditIsIncomplete
  <2> QED BY <2>1, <2>3 DEF Walked
<1> QED BY <1>1, <1>5, <1>7 DEF FormInv

LEMMA FormEdits ==
  ASSUME FormInv, EnterTime \/ EnterRange \/ EnterPosition \/ EnterRisk \/ ApplyRow
  PROVE  FormInv'
<1>1. CASE EnterTime
  BY <1>1, EntersKeeps DEF EnterTime
<1>2. CASE EnterRange
  BY <1>2, EntersKeeps DEF EnterRange
<1>3. CASE EnterPosition
  BY <1>3, EntersKeeps DEF EnterPosition
<1>4. CASE EnterRisk
  BY <1>4, EntersKeeps DEF EnterRisk
<1>5. CASE ApplyRow
  <2>1. form' \in Forms
    BY <1>5, RowIs DEF ApplyRow, FormInv
  <2> QED BY <1>5, <2>1 DEF ApplyRow, FormInv
<1> QED BY <1>1, <1>2, <1>3, <1>4, <1>5

LEMMA FormWalks ==
  ASSUME FormInv, GoPrev \/ GoNext \/ GoToStep \/ RunOnDesktop
  PROVE  FormInv'
<1>1. CASE GoPrev
  <2>1. /\ mobile /\ step' = WIZARD_STEPS[Index(step) - 1] /\ kept' = {step'}
        /\ UNCHANGED <<form, mobile, jumped>> /\ step \notin {"environment", "risk_submit"}
    BY <1>1 DEF GoPrev, Moves
  <2>2. step' \in Steps
    BY <2>1, StepsAre DEF FormInv
  <2>3. ~jumped => Walked(form, step')
    BY <2>1, NextIsWalked DEF FormInv
  <2> QED BY <2>1, <2>2, <2>3 DEF FormInv
<1>2. CASE GoNext
  <2>1. /\ mobile /\ step' = WIZARD_STEPS[Index(step) + 1] /\ kept' = {step'}
        /\ UNCHANGED <<form, mobile, jumped>>
        /\ step # "risk_submit" /\ Incomplete(form)[step] = {}
    BY <1>2 DEF GoNext, Moves, CanGoNext
  <2>2. step' \in Steps
    BY <2>1, StepsAre DEF FormInv
  <2>3. ~jumped => Walked(form, step')
    BY <2>1, NextIsWalked DEF FormInv
  <2> QED BY <2>1, <2>2, <2>3 DEF FormInv
<1>3. CASE GoToStep
  BY <1>3 DEF GoToStep, Moves, FormInv
<1>4. CASE RunOnDesktop
  BY <1>4, StepsAre DEF RunOnDesktop, Moves, FormInv
<1> QED BY <1>1, <1>2, <1>3, <1>4

LEMMA FormTurns ==
  ASSUME FormInv, Resize \/ Mount
  PROVE  FormInv'
<1>1. CASE Resize
  <2>1. mobile' = ~mobile /\ UNCHANGED <<form, jumped, step>> /\ mobile' \in BOOLEAN
    BY <1>1 DEF Resize, Turned, FormInv
  <2>2. IF mobile' THEN kept' = {step} ELSE kept' = kept
    BY <1>1, <2>1 DEF Resize
  <2> QED BY <2>1, <2>2 DEF FormInv
<1>2. CASE Mount
  <2>1. /\ step' = IF kept = {} THEN "environment" ELSE CHOOSE s \in kept : TRUE
        /\ kept' = IF mobile THEN {step'} ELSE kept
        /\ UNCHANGED <<form, mobile, jumped>>
    BY <1>2 DEF Mount
  <2>2. step' = "environment" \/ step' \in kept
    BY <2>1
  <2>3. step' \in Steps /\ (~jumped => Walked(form, step'))
    BY <2>2, StepsAre, FirstIsWalked DEF FormInv
  <2> QED BY <2>1, <2>3 DEF FormInv
<1> QED BY <1>1, <1>2

LEMMA FormKeeps == FormInv /\ [FormNext]_formVars => FormInv'
<1> SUFFICES ASSUME FormInv, [FormNext]_formVars PROVE FormInv'
  OBVIOUS
<1>1. CASE UNCHANGED formVars
  BY <1>1 DEF formVars, FormInv, Walked
<1> QED BY <1>1, FormEdits, FormWalks, FormTurns DEF FormNext

LEMMA FormStarts == FormInit => FormInv
<1> SUFFICES ASSUME FormInit PROVE FormInv
  OBVIOUS
<1>1. /\ form \in Forms /\ mobile \in BOOLEAN /\ step = "environment" /\ jumped = FALSE
      /\ kept = (IF mobile THEN {step} ELSE {})
  BY FormAssumption DEF FormInit
<1> QED BY <1>1, StepsAre, FirstIsWalked DEF FormInv

\* Whatever is entered, filled in by a row, walked through or turned: what the wizard finds complete
\* and nothing blocks the service takes, who walks misses nothing, and a phone keeps its step.
THEOREM FormStaysSound == FormInit /\ [][FormNext]_formVars => FormIsSound
<1>1. FormInv' /\ [FormNext]_formVars =>
        [JudgesAgree' /\ WalkIsComplete' /\ StepIsKept]_formVars
  <2> SUFFICES ASSUME FormInv', FormNext PROVE JudgesAgree' /\ WalkIsComplete' /\ StepIsKept
    OBVIOUS
  <2>1. JudgesAgree'
    <3>1. (form \in Forms => JudgesAgree)'
      BY FormsJudged, PTL
    <3> QED BY <3>1 DEF FormInv
  <2>2. WalkIsComplete'
    BY DEF FormInv, WalkIsComplete, Walked
  <2>3. mobile' => kept' = {step'}
    BY DEF FormInv
  <2>4. mobile' # mobile => step' = step
    BY DEF FormNext, EnterTime, EnterRange, EnterPosition, EnterRisk, Enters, ApplyRow, GoPrev, GoNext,
           GoToStep, RunOnDesktop, Resize, Turned, Mount
  <2> QED BY <2>1, <2>2, <2>3, <2>4 DEF StepIsKept
<1> QED BY <1>1, FormStarts, FormKeeps, PTL DEF FormIsSound

=============================================================================
