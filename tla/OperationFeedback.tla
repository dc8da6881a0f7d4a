-------------------------- MODULE OperationFeedback --------------------------
(***************************************************************************)
(* The notification centre (frontend/src/hooks/useOperationFeedback.ts,    *)
(* hooks/app/useOperationFeedbackController.ts and the drawer that shows   *)
(* it): the notices of this browser, those with a fixed id that are        *)
(* brought up to date in place, and the operation records of the server,   *)
(* which every pull merges into the feed.                                  *)
(*                                                                         *)
(* A step is what runs between two awaits with the effects it causes, so   *)
(* what the browser stores is the feed, the time of the last clear and     *)
(* whether the drawer is open.  Time counts in steps of the window in      *)
(* which a repeated notice is taken for the same; wording, categories, the *)
(* toasts, and the unread counter and the latest notice, which nothing     *)
(* shows, are left out.  The server's records are external: each is made   *)
(* once and updated later.                                                 *)
(***************************************************************************)
EXTENDS SequencesExt, FiniteSetsExt

CONSTANTS
  StateIds,     \* the fixed ids of conditions that hold for a while
  Ops,          \* operation ids; operation:o, the id of a record's item, is o itself
  Happened,     \* title, detail, status and action of a notice of what happened
  Ongoing,      \* and of a condition that holds for a while
  Nothing,
  MaxItems,     \* FEEDBACK_MAX_ITEMS
  PullLimit,    \* the records that a pull asks for, 30; no second page is asked for
  Ttl,          \* FEEDBACK_TTL_MS
  MaxTime,      \* bound on time, for TLC
  MaxEvents,    \* bound on what users and conditions do to the feed and on the requests that
                \* fail after their retries, for TLC
  MaxRequests   \* bound on the requests under way, for TLC

VARIABLES
  now,
  items,     \* the feed, newest first
  cleared,   \* clearedAtMs; 0 before the first clear
  drawer,    \* operationDrawerOpen
  requests,  \* the pulls and detail requests under way
  records,   \* the records of the server
  events     \* how much has happened, to bound it

feedVars == <<now, items, cleared, drawer, requests, records, events>>

OwnIds == 1..MaxEvents

\* The prefix of a record's item keeps its id apart from those of this browser.
ASSUME FeedAssumption ==
  /\ MaxItems \in Nat /\ PullLimit \in Nat \ {0} /\ MaxTime \in Nat \ {0} /\ MaxEvents \in Nat
  /\ Ops \cap (OwnIds \cup StateIds) = {}

Time == 1..MaxTime
Item == [id : OwnIds \cup StateIds \cup Ops, op : Ops \cup {Nothing},
         what : Happened \cup Ongoing \cup {Nothing}, created : Time, updated : Time]
Record == [op : Ops, created : Time, updated : Time]

\* cleared: the time of the last clear when the request was sent; of: the one operation
\* whose detail is asked for, or Nothing for the newest records.
Request == [cleared : 0..MaxTime, of : Ops \cup {Nothing}, answer : SUBSET Record \cup {Nothing}]

FeedTypeOK ==
  /\ now \in Time /\ cleared \in 0..MaxTime /\ drawer \in BOOLEAN
  /\ \A k \in DOMAIN items : items[k] \in Item
  /\ records \subseteq Record
  /\ \A rq \in requests : rq.cleared \in 0..MaxTime /\ rq.of \in Ops \cup {Nothing}
  /\ events \in 0..MaxEvents

-----------------------------------------------------------------------------
(* The feed                                                                *)

ItemsOf(s) == {s[k] : k \in DOMAIN s}

\* The indices in D in an order, and what a list has there.
Arranged(D, before) ==
  CHOOSE f \in [1 .. Cardinality(D) -> D] :
    \A j, k \in DOMAIN f : j < k => <<f[j], f[k]>> \in before
At(s, f) == [k \in DOMAIN f |-> s[f[k]]]

\* What is in S of a list, in its order.
Rising == {p \in Nat \X Nat : p[1] < p[2]}
Kept(s, S) == At(s, Arranged({k \in DOMAIN s : s[k] \in S}, Rising))
Without(s, ids) == Kept(s, {i \in ItemsOf(s) : i.id \notin ids})
WithoutOps(s, ops) == Kept(s, {i \in ItemsOf(s) : i.op \notin ops})

\* pruneOperationFeedbackItems: the first of each id that has not expired, newest first,
\* and only so many.  sort is stable.
Fresh(i) == now - i.created <= Ttl
Cut(s) == IF Len(s) <= MaxItems THEN s ELSE SubSeq(s, 1, MaxItems)
Pruned_AsGiven(s) == Kept(Cut(s), {i \in ItemsOf(s) : Fresh(i)})
Firsts(s) ==
  {k \in DOMAIN s : Fresh(s[k]) /\ \A j \in DOMAIN s : j < k /\ Fresh(s[j]) => s[j].id # s[k].id}
Newer(s) ==
  {p \in (DOMAIN s) \X (DOMAIN s) :
     \/ s[p[1]].created > s[p[2]].created
     \/ s[p[1]].created = s[p[2]].created /\ p[1] < p[2]}
Pruned(s) == Cut(At(s, Arranged(Firsts(s), Newer(s))))

\* The item that mapOperationRecordToEvent makes of a record.
RecordItem(r) ==
  [id |-> r.op, op |-> r.op, what |-> Nothing, created |-> r.created, updated |-> r.updated]

\* mergeOperationRecords, which knows the last clear as of when the request was sent.
Merged_Unfiltered(s, answer, clearedThen) ==
  IF answer = {} THEN s
  ELSE Pruned(SetToSeq({RecordItem(r) : r \in answer})
              \o WithoutOps(s, {r.op : r \in answer}))
Merged_ByCreation(s, answer, clearedThen) ==
  LET news == {r \in answer : r.created > clearedThen} IN
  IF news = {} THEN s
  ELSE Pruned(SetToSeq({RecordItem(r) : r \in news})
              \o WithoutOps(s, {r.op : r \in news}))
Merged_ById(s, answer, clearedThen) ==
  LET news == {r \in answer : r.updated > clearedThen} IN
  IF news = {} THEN s
  ELSE Pruned(SetToSeq({RecordItem(r) : r \in news}) \o s)
Merged(s, answer, clearedThen) ==
  LET news == {r \in answer : r.updated > clearedThen} IN
  IF news = {} THEN s
  ELSE Pruned(SetToSeq({RecordItem(r) : r \in news})
              \o WithoutOps(s, {r.op : r \in news}))

\* emitOperationEvent without an id: the same notice within the window is replaced.
WithNotice(s, i) ==
  Pruned(<<i>> \o Kept(s, {j \in ItemsOf(s) : ~(j.what = i.what /\ i.created - j.created <= 1)}))

\* emitOperationEvent with an id: nothing changes unless the content does, and the item
\* keeps the time at which it was made.
WithState(s, id, what) ==
  LET old == {i \in ItemsOf(s) : i.id = id} IN
  IF \E i \in old : i.what = what THEN s
  ELSE Pruned(<<[id |-> id, op |-> Nothing, what |-> what, updated |-> now,
                 created |-> IF old = {} THEN now ELSE (CHOOSE i \in old : TRUE).created]>>
              \o Without(s, {id}))

-----------------------------------------------------------------------------
(* Notices                                                                 *)

ServerUnchanged == UNCHANGED <<requests, records>>

\* notifyCenter with what happened; the answer of a clear or a restore carries its operation.
Notify ==
  /\ events < MaxEvents
  /\ events' = events + 1
  /\ \E what \in Happened, op \in {r.op : r \in records} \cup {Nothing} :
       items' = WithNotice(items, [id |-> events + 1, op |-> op, what |-> what,
                                   created |-> now, updated |-> now])
  /\ UNCHANGED <<now, cleared, drawer>> /\ ServerUnchanged

NotifyState ==
  /\ events < MaxEvents
  /\ events' = events + 1
  /\ \E id \in StateIds, what \in Ongoing :
       items' = WithState(items, id, what)
  /\ UNCHANGED <<now, cleared, drawer>> /\ ServerUnchanged

\* The condition has passed, or the user removes the item.
Dismiss ==
  /\ events < MaxEvents
  /\ events' = events + 1
  /\ \E i \in ItemsOf(items) :
       items' = Without(items, {i.id})
  /\ UNCHANGED <<now, cleared, drawer>> /\ ServerUnchanged

-----------------------------------------------------------------------------
(* The records of the server                                               *)

Sent(c, of) == [cleared |-> c, of |-> of, answer |-> Nothing]
Room == Cardinality(requests) < MaxRequests

\* While the drawer is open the newest records are pulled at once and every 15 seconds.
OpenDrawer ==
  /\ ~drawer /\ Room
  /\ drawer' = TRUE
  /\ requests' = requests \cup {Sent(cleared, Nothing)}
  /\ UNCHANGED <<now, items, cleared, records, events>>
CloseDrawer ==
  /\ drawer /\ drawer' = FALSE
  /\ UNCHANGED <<now, items, cleared, events>> /\ ServerUnchanged
Pull ==
  /\ drawer /\ Room
  /\ requests' = requests \cup {Sent(cleared, Nothing)}
  /\ requests' # requests
  /\ UNCHANGED <<now, items, cleared, drawer, records, events>>

\* loadDetail: one request at a time for an operation.
LoadDetail ==
  /\ drawer /\ Room
  /\ \E i \in ItemsOf(items) :
       /\ i.op # Nothing /\ \A rq \in requests : rq.of # i.op
       /\ requests' = requests \cup {Sent(cleared, i.op)}
  /\ UNCHANGED <<now, items, cleared, drawer, records, events>>

\* The time of the clear is state of the effect that pulls: it pulls anew.
Clear ==
  /\ drawer /\ items # <<>> /\ Room /\ events < MaxEvents
  /\ events' = events + 1
  /\ cleared' = now /\ items' = <<>>
  /\ requests' = requests \cup {Sent(now, Nothing)}
  /\ UNCHANGED <<now, drawer, records>>

\* list_operation_events_cursor: the newest records, as many as are asked for; those made at the
\* same time come by their ids, which are in no order here.
FirstPage_OldestFirst(page) ==
  /\ Cardinality(page) <= PullLimit
  /\ \A r \in records \ page :
       Cardinality(page) = PullLimit /\ \A q \in page : q.created <= r.created
FirstPage(page) ==
  /\ Cardinality(page) <= PullLimit
  /\ \A r \in records \ page :
       Cardinality(page) = PullLimit /\ \A q \in page : q.created >= r.created

ServerAnswers(of) ==
  /\ \E rq \in requests, answer \in SUBSET records :
       /\ rq.of = of /\ rq.answer = Nothing
       /\ IF of = Nothing THEN FirstPage(answer) ELSE answer = {r \in records : r.op = of}
       /\ requests' = (requests \ {rq}) \cup {[rq EXCEPT !.answer = answer]}
  /\ UNCHANGED <<now, items, cleared, drawer, records, events>>
AnswerArrives ==
  /\ \E rq \in requests :
       /\ rq.answer # Nothing
       /\ requests' = requests \ {rq}
       /\ items' = Merged(items, rq.answer, rq.cleared)
  /\ UNCHANGED <<now, cleared, drawer, records, events>>
RequestFails ==
  /\ events < MaxEvents
  /\ events' = events + 1
  /\ \E rq \in requests :
       requests' = requests \ {rq}
  /\ UNCHANGED <<now, items, cleared, drawer, records>>

\* An operation gets an id that no other has, or is brought up to date.
NewOps == Ops \ {r.op : r \in records}
ServerRecords ==
  /\ \/ /\ NewOps # {}
        /\ records' = records \cup
             {[op |-> CHOOSE o \in NewOps : TRUE, created |-> now, updated |-> now]}
     \/ \E r \in records :
          /\ r.updated < now
          /\ records' = (records \ {r}) \cup {[r EXCEPT !.updated = now]}
  /\ UNCHANGED <<now, items, cleared, drawer, requests, events>>

-----------------------------------------------------------------------------
\* The page is loaded anew: the stored items that are newer than the stored clear; one pull
\* at the start, which an open drawer's first pull is like.
ReloadFeed ==
  /\ events < MaxEvents
  /\ events' = events + 1
  /\ items' = Kept(Pruned(items), {i \in ItemsOf(items) : i.updated > cleared})
  /\ requests' = {Sent(cleared, Nothing)}
  /\ UNCHANGED <<now, cleared, drawer, records>>

Tick ==
  /\ now < MaxTime
  /\ now' = now + 1
  /\ UNCHANGED <<items, cleared, drawer, requests, records, events>>

FeedInit ==
  /\ now = 1 /\ items = <<>> /\ cleared = 0
  /\ drawer = FALSE
  /\ requests = {Sent(0, Nothing)} /\ records = {} /\ events = 0

FeedNext ==
  \/ Notify \/ NotifyState \/ Dismiss
  \/ OpenDrawer \/ CloseDrawer \/ Pull \/ LoadDetail \/ Clear
  \/ (\E of \in Ops \cup {Nothing} : ServerAnswers(of)) \/ AnswerArrives \/ RequestFails \/ ServerRecords
  \/ ReloadFeed \/ Tick

\* An answer that is there is taken or lost.
AnswerEnds(of) ==
  \E rq \in requests : rq.of = of /\ rq.answer # Nothing /\ requests' = requests \ {rq}

\* The timer of the drawer fires, and each request under way is answered or fails; requests
\* fail after their retries only so often.
FeedSpec ==
  /\ FeedInit /\ [][FeedNext]_feedVars
  /\ WF_feedVars(Pull)
  /\ \A of \in Ops \cup {Nothing} : WF_feedVars(ServerAnswers(of)) /\ WF_requests(AnswerEnds(of))

-----------------------------------------------------------------------------
\* The feed is newest first and holds each id once, whatever was merged into it.
FeedIsInOrder ==
  /\ Len(items) <= MaxItems
  /\ \A j, k \in DOMAIN items : j < k =>
       items[j].id # items[k].id /\ items[j].created >= items[k].created

\* A record that was cleared comes back only with an answer to a request that was sent
\* before the clear; later pulls and a reload leave it out.
ClearedStayAway ==
  \A i \in ItemsOf(items') \ ItemsOf(items) :
    i.id \in Ops /\ i.updated <= cleared' => \E rq \in requests \ requests' : rq.cleared < cleared

\* An answer leaves one item of each operation it brings, and takes the place of the
\* notice that this browser had shown of it.  (Answers are what changes the feed beside users and
\* conditions, which are counted.)
MergedOnce ==
  \A rq \in requests \ requests' : items' # items /\ events' = events /\ rq.answer # Nothing =>
    \A r \in rq.answer : r.updated > rq.cleared =>
      Cardinality({k \in DOMAIN items' : items'[k].op = r.op}) <= 1

\* Whatever pulls, details, clears and reloads follow each other, an answer brings back nothing
\* that was cleared before it was asked for, and nothing twice.
AnswersMergeSoundly == [][ClearedStayAway /\ MergedOnce]_feedVars

\* While the drawer stays open, a record newer than the last clear is shown, also when
\* single pulls fail, unless newer items fill the feed or so many newer records were made that
\* no pull brings it: nothing asks for the second page.
InReach(r) == Cardinality({q \in records : q.created >= r.created}) <= PullLimit
Due(o) ==
  /\ drawer /\ Len(items) < MaxItems
  /\ \E r \in records :
       r.op = o /\ r.updated > cleared /\ now - r.created <= Ttl /\ InReach(r)
Shown(o) == \E i \in ItemsOf(items) : i.op = o
RecordsArrive == \A o \in Ops : []<>(~Due(o) \/ Shown(o))
=============================================================================
