---------------------- MODULE OptimizationTracker_proofs ----------------------
(***************************************************************************)
(* Proofs about OptimizationTracker, for any pages, steps, requests and    *)
(* failures: no late answer takes back the end of a job or shows the rows  *)
(* of another page, and the user is notified of the end once.              *)
(*                                                                         *)
(* Why the invariant is needed: what is shown stays because an answer that *)
(* names a final status names the one the job has, and a request that was  *)
(* sent because of the end is answered after it; rows are of the page      *)
(* because a change of the page disowns what was sent before.              *)
(***************************************************************************)
EXTENDS OptimizationTracker, TLAPS

RequestOf(S) == [id : S, kind : {"poll", "probe", "update", "rows", "refetch"},
                 asked : {"progress", "status", "history"}, page : Pages, ended : BOOLEAN,
                 answer : Answer \cup {None}, live : BOOLEAN]

Shaped ==
  /\ job \in Meta /\ page \in Pages /\ shown \in Shown
  /\ \E S : requests \subseteq RequestOf(S)

\* What is known of a request and its answer.
Sound(rq) ==
  /\ rq.answer # None =>
       /\ rq.answer.rows \in {None, rq.page}
       /\ rq.answer.meta.status \in Finished \/ rq.ended \/ rq.kind = "refetch" =>
            rq.answer.meta = job
  /\ rq.ended \/ rq.kind = "refetch" => job.status \in Finished
  /\ rq.live => rq.page = page

RequestsAreSound == \A rq \in requests : Sound(rq)

EndIsOfTheJob(s) == Ended(s) => s.meta = job

NoticesAreOfTheEnd ==
  \/ notices = 0 /\ notified = None
  \/ notices = 1 /\ notified = job.status /\ job.status \in Finished

IInv == Shaped /\ RequestsAreSound /\ EndIsOfTheJob(shown) /\ NoticesAreOfTheEnd

-----------------------------------------------------------------------------
(* The operators                                                           *)

\* Nothing follows a final status.
LEMMA EndIsFinal ==
  ASSUME NEW m \in Meta, m.status \in Finished
  PROVE  Later(m) = {}
BY DEF Later, Meta, Finished

\* What is merged is the old or the new, or a step of the old with a status that is not final.
LEMMA MergedIsMeta ==
  ASSUME NEW old \in Meta \cup {None}, NEW new \in Meta
  PROVE  /\ Merged(old, new) \in Meta
         /\ Merged(old, new).status \in Finished => Merged(old, new) \in {old, new}
         /\ old # None /\ old.status \in Finished /\ new.status \notin Finished => Merged(old, new) = old
         /\ Merged(old, new).status \in Finished /\ Merged(old, new) = old => old # None
BY NoneAssumption DEF Merged, Meta, Status, Finished

\* More ids are allowed.
LEMMA ShapeWidens ==
  ASSUME NEW S, NEW i, NEW rs, rs \subseteq RequestOf(S)
  PROVE  rs \subseteq RequestOf(S \cup {i})
BY DEF RequestOf

\* The request that is sent is for the page shown now, and asks for nothing that has an answer yet.
LEMMA SentIsSound ==
  ASSUME NEW S, NEW rs \in SUBSET RequestOf(S), \A rq \in rs : Sound(rq), page \in Pages,
         NEW kind \in {"poll", "probe", "update", "rows", "refetch"},
         NEW asked \in {"progress", "status", "history"},
         kind = "refetch" => job.status \in Finished
  PROVE  /\ \E T : Send(rs, kind, asked, page) \subseteq RequestOf(T)
         /\ \A rq \in Send(rs, kind, asked, page) : Sound(rq)
<1> DEFINE new == [id |-> NewId(rs), kind |-> kind, asked |-> asked, page |-> page,
                   ended |-> FALSE, answer |-> None, live |-> TRUE]
<1>1. Send(rs, kind, asked, page) = rs \cup {new}
  BY DEF Send
<1>2. new \in RequestOf(S \cup {NewId(rs)})
  BY DEF RequestOf
<1>3. Sound(new)
  BY DEF Sound
<1>4. rs \subseteq RequestOf(S \cup {NewId(rs)})
  BY ShapeWidens
<1> HIDE DEF new
<1> QED
  BY <1>1, <1>2, <1>3, <1>4

\* A request that is disowned is one that was, and has less to answer for.
LEMMA DisownedIsSound ==
  ASSUME NEW S, NEW rs \in SUBSET RequestOf(S), \A rq \in rs : Sound(rq), NEW kinds
  PROVE  /\ Disowned(rs, kinds) \subseteq RequestOf(S)
         /\ \A rq \in Disowned(rs, kinds) : Sound(rq)
<1> SUFFICES ASSUME NEW rq \in rs
             PROVE  LET new == [rq EXCEPT !.live = rq.live /\ rq.kind \notin kinds] IN
                    new \in RequestOf(S) /\ Sound(new)
  BY DEF Disowned
<1> DEFINE new == [rq EXCEPT !.live = rq.live /\ rq.kind \notin kinds]
<1>1. rq \in RequestOf(S) /\ Sound(rq)
  OBVIOUS
<1>2. /\ new \in RequestOf(S)
      /\ new.kind = rq.kind /\ new.page = rq.page /\ new.ended = rq.ended /\ new.answer = rq.answer
      /\ new.live => rq.live
  BY <1>1 DEF RequestOf
<1> HIDE DEF new
<1>3. Sound(new)
  BY <1>1, <1>2 DEF Sound
<1> QED
  BY <1>2, <1>3 DEF new

\* What is shown, with the refetch its end may ask for.
LEMMA ShowIsSound ==
  ASSUME NEW S, NEW rs \in SUBSET RequestOf(S), \A rq \in rs : Sound(rq), page \in Pages,
         NEW s \in Shown, EndIsOfTheJob(s), Show(s, rs)
  PROVE  /\ shown' = s
         /\ \E T : requests' \subseteq RequestOf(T)
         /\ \A rq \in requests' : Sound(rq)
<1> DEFINE left == Disowned(rs, {"refetch"})
<1>1. left \in SUBSET RequestOf(S) /\ \A rq \in left : Sound(rq)
  BY DisownedIsSound
<1>2. /\ shown' = s
      /\ \/ Refetches(s) /\ requests' = Send(left, "refetch", "status", page)
         \/ requests' = left
  BY DEF Show
<1> HIDE DEF left
<1>3. CASE Refetches(s) /\ requests' = Send(left, "refetch", "status", page)
  <2>1. job.status \in Finished
    BY <1>3 DEF Refetches, EndIsOfTheJob, Ended
  <2>2. PICK kind \in {"poll", "probe", "update", "rows", "refetch"},
             asked \in {"progress", "status", "history"} : kind = "refetch" /\ asked = "status"
    OBVIOUS
  <2>3. /\ \E T : Send(left, kind, asked, page) \subseteq RequestOf(T)
        /\ \A rq \in Send(left, kind, asked, page) : Sound(rq)
    BY <1>1, <2>1, SentIsSound
  <2> QED
    BY <1>2, <1>3, <2>2, <2>3
<1>4. CASE requests' = left
  BY <1>1, <1>2, <1>4
<1> QED
  BY <1>2, <1>3, <1>4

\* A payload about the job, merged with what is shown, keeps an end and brings no other one.
LEMMA MergeKeepsEnd ==
  ASSUME NEW s \in Shown, EndIsOfTheJob(s), NEW a \in Answer,
         a.meta.status \in Finished => a.meta = job
  PROVE  \A t \in {WithProgress(s, a), WithRows(s, a)} :
           /\ t \in Shown /\ EndIsOfTheJob(t)
           /\ Ended(s) => t.meta = s.meta
           /\ t.rows \in {s.rows, a.rows}
<1> DEFINE m == Merged(s.meta, a.meta)
<1>1. s.meta \in Meta \cup {None} /\ a.meta \in Meta /\ a.rows \in Pages \cup {None}
  BY DEF Shown, Answer
<1>2. /\ m \in Meta
      /\ m.status \in Finished => m \in {s.meta, a.meta}
      /\ s.meta # None /\ s.meta.status \in Finished /\ a.meta.status \notin Finished => m = s.meta
      /\ m.status \in Finished /\ m = s.meta => s.meta # None
  BY <1>1, MergedIsMeta
<1> HIDE DEF m
<1>3. m.status \in Finished => m = job
  BY <1>1, <1>2 DEF EndIsOfTheJob, Ended
<1>4. Ended(s) => m = s.meta
  <2>1. ASSUME Ended(s), a.meta.status \in Finished
        PROVE  m = s.meta
    <3>1. s.meta = job /\ a.meta = job
      BY <2>1 DEF EndIsOfTheJob
    <3>2. m = a.meta
      BY <2>1 DEF m, Merged
    <3> QED
      BY <3>1, <3>2
  <2> QED
    BY <1>2, <2>1 DEF Ended
<1>5. /\ WithProgress(s, a) \in Shown
      /\ WithProgress(s, a).meta = m /\ WithProgress(s, a).rows = s.rows
  BY <1>2 DEF WithProgress, Shown, m
<1>6. /\ WithRows(s, a) \in Shown
      /\ WithRows(s, a).meta = m /\ WithRows(s, a).rows = a.rows
  BY <1>1, <1>2 DEF WithRows, Shown, m
<1> QED
  BY <1>3, <1>4, <1>5, <1>6 DEF EndIsOfTheJob, Ended

-----------------------------------------------------------------------------
(* The steps                                                               *)

\* A step that shows something, or nothing new, and leaves sound requests.
LEMMA ShownStep ==
  ASSUME IInv, UNCHANGED <<job, page>>, NEW S, NEW rs \in SUBSET RequestOf(S),
         \A rq \in rs : Sound(rq),
         NEW s \in Shown, EndIsOfTheJob(s), Show(s, rs), NoticesAreOfTheEnd'
  PROVE  IInv' /\ shown' = s
<1>1. /\ shown' = s
      /\ \E T : requests' \subseteq RequestOf(T)
      /\ \A rq \in requests' : Sound(rq)
  BY ShowIsSound DEF IInv, Shaped
<1>2. Shaped'
  BY <1>1 DEF IInv, Shaped
<1>3. RequestsAreSound'
  BY <1>1 DEF RequestsAreSound, Sound
<1>4. EndIsOfTheJob(shown)'
  BY <1>1 DEF EndIsOfTheJob, Ended
<1> QED
  BY <1>1, <1>2, <1>3, <1>4 DEF IInv

\* A step of the requests alone.
LEMMA QuietStep ==
  ASSUME IInv, UNCHANGED <<job, shown, notified, notices>>, page' \in Pages,
         \E T : requests' \subseteq RequestOf(T), RequestsAreSound'
  PROVE  IInv'
<1>1. Shaped' /\ EndIsOfTheJob(shown)' /\ NoticesAreOfTheEnd'
  BY DEF IInv, Shaped, EndIsOfTheJob, Ended, NoticesAreOfTheEnd
<1> QED
  BY <1>1 DEF IInv

\* The first of a chain.
LEMMA ProgressStep ==
  ASSUME IInv, UNCHANGED <<job, page>>, NEW rq \in requests, rq.answer # None, ApplyProgress(rq)
  PROVE  IInv' /\ FinalStatusStays /\ RowsAreOfThePage
<1> DEFINE ended == rq.answer.meta.status \in Finished
           t == WithProgress(shown, rq.answer)
           new == [rq EXCEPT !.asked = "status", !.ended = ended, !.answer = None]
<1>1. PICK S : requests \subseteq RequestOf(S)
  BY DEF IInv, Shaped
<1>2. rq \in RequestOf(S) /\ Sound(rq) /\ rq.answer \in Answer /\ ended \in BOOLEAN
  BY <1>1 DEF IInv, RequestsAreSound, RequestOf
<1>3. shown \in Shown /\ EndIsOfTheJob(shown) /\ page \in Pages
  BY DEF IInv, Shaped
<1>4. ended => rq.answer.meta = job
  BY <1>2 DEF Sound
<1>5. /\ t \in Shown /\ EndIsOfTheJob(t) /\ (Ended(shown) => t.meta = shown.meta)
      /\ t.rows = shown.rows
  <2>1. t.rows = shown.rows
    BY <1>3 DEF WithProgress, Shown
  <2> QED
    BY <1>2, <1>3, <1>4, <2>1, MergeKeepsEnd
<1>6. Show(t, (requests \ {rq}) \cup {new}) \/ Show(t, requests \ {rq})
  BY DEF ApplyProgress
<1>7. UNCHANGED <<notified, notices>>
  BY DEF ApplyProgress
<1>8. NoticesAreOfTheEnd'
  BY <1>7 DEF IInv, NoticesAreOfTheEnd
<1> HIDE DEF t
<1>9. new \in RequestOf(S)
  BY <1>2 DEF RequestOf
<1>10. Sound(new)
  <2>1. /\ new.answer = None /\ new.ended = ended /\ new.kind = rq.kind /\ new.live = rq.live
        /\ new.page = rq.page
    BY <1>2 DEF RequestOf
  <2> HIDE DEF new
  <2> QED
    BY <1>2, <1>4, <2>1 DEF Sound
<1> HIDE DEF new
<1>11. /\ (requests \ {rq}) \cup {new} \in SUBSET RequestOf(S) /\ requests \ {rq} \in SUBSET RequestOf(S)
       /\ \A other \in (requests \ {rq}) \cup {new} : Sound(other)
  BY <1>1, <1>9, <1>10 DEF IInv, RequestsAreSound
<1>12. IInv' /\ shown' = t
  <2>1. PICK rs \in SUBSET RequestOf(S) : Show(t, rs) /\ \A other \in rs : Sound(other)
    BY <1>6, <1>11
  <2> QED
    BY <1>5, <1>8, <2>1, ShownStep
<1> QED
  BY <1>5, <1>12 DEF FinalStatusStays, RowsAreOfThePage

\* The status with the rows, and the notice of the end.
LEMMA StatusStep ==
  ASSUME IInv, UNCHANGED <<job, page>>, NEW rq \in requests, rq.answer # None, ApplyStatus(rq)
  PROVE  IInv' /\ FinalStatusStays /\ RowsAreOfThePage
<1> DEFINE t == WithRows(shown, rq.answer)
           new == [rq EXCEPT !.asked = "history", !.answer = None]
<1>1. PICK S : requests \subseteq RequestOf(S)
  BY DEF IInv, Shaped
<1>2. rq \in RequestOf(S) /\ Sound(rq) /\ rq.answer \in Answer /\ rq.live
  BY <1>1 DEF IInv, RequestsAreSound, RequestOf, ApplyStatus
<1>3. shown \in Shown /\ EndIsOfTheJob(shown)
  BY DEF IInv, Shaped
<1>4. /\ rq.answer.meta.status \in Finished => rq.answer.meta = job
      /\ rq.ended => rq.answer.meta = job /\ job.status \in Finished
      /\ rq.answer.rows \in {None, page}
  BY <1>2 DEF Sound
<1>5. /\ t \in Shown /\ EndIsOfTheJob(t) /\ (Ended(shown) => t.meta = shown.meta)
      /\ t.rows \in {None, page}
  <2>1. t.rows = rq.answer.rows
    BY DEF WithRows
  <2> QED
    BY <1>2, <1>3, <1>4, <2>1, MergeKeepsEnd
<1> HIDE DEF t
<1>6. \/ /\ rq.ended /\ Show(t, (requests \ {rq}) \cup {new})
         /\ notified' = rq.answer.meta.status
         /\ notices' = IF notified = rq.answer.meta.status THEN notices ELSE notices + 1
      \/ Show(t, requests \ {rq}) /\ UNCHANGED <<notified, notices>>
  BY DEF ApplyStatus, Notify, t
<1>7. NoticesAreOfTheEnd'
  <2>1. CASE UNCHANGED <<notified, notices>>
    BY <2>1 DEF IInv, NoticesAreOfTheEnd
  <2>2. CASE /\ rq.ended /\ notified' = rq.answer.meta.status
             /\ notices' = IF notified = rq.answer.meta.status THEN notices ELSE notices + 1
    BY <1>4, <2>2, NoneAssumption DEF IInv, NoticesAreOfTheEnd
  <2> QED
    BY <1>6, <2>1, <2>2
<1>8. new \in RequestOf(S)
  BY <1>2 DEF RequestOf
<1>9. Sound(new)
  <2>1. /\ new.answer = None /\ new.ended = rq.ended /\ new.kind = rq.kind /\ new.live = rq.live
        /\ new.page = rq.page
    BY <1>2 DEF RequestOf
  <2> HIDE DEF new
  <2> QED
    BY <1>2, <2>1 DEF Sound
<1> HIDE DEF new
<1>10. /\ (requests \ {rq}) \cup {new} \in SUBSET RequestOf(S) /\ requests \ {rq} \in SUBSET RequestOf(S)
       /\ \A other \in (requests \ {rq}) \cup {new} : Sound(other)
  BY <1>1, <1>8, <1>9 DEF IInv, RequestsAreSound
<1>11. IInv' /\ shown' = t
  <2>1. PICK rs \in SUBSET RequestOf(S) : Show(t, rs) /\ \A other \in rs : Sound(other)
    BY <1>6, <1>10
  <2> QED
    BY <1>5, <1>7, <2>1, ShownStep
<1> QED
  BY <1>5, <1>11 DEF FinalStatusStays, RowsAreOfThePage

\* The rows of the page, and those that are asked for again at the end.
LEMMA RowsStep ==
  ASSUME IInv, UNCHANGED <<job, page>>, NEW rq \in requests, rq.answer # None, ApplyRows(rq)
  PROVE  IInv' /\ FinalStatusStays /\ RowsAreOfThePage
<1> DEFINE t == IF rq.kind = "rows" THEN WithRows(shown, rq.answer)
                ELSE [meta |-> rq.answer.meta, rows |-> rq.answer.rows]
<1>1. PICK S : requests \subseteq RequestOf(S)
  BY DEF IInv, Shaped
<1>2. /\ rq \in RequestOf(S) /\ Sound(rq) /\ rq.answer \in Answer /\ rq.live
      /\ rq.kind \in {"rows", "refetch"} /\ Show(t, requests \ {rq}) /\ UNCHANGED <<notified, notices>>
  BY <1>1 DEF IInv, RequestsAreSound, RequestOf, ApplyRows
<1>3. shown \in Shown /\ EndIsOfTheJob(shown)
  BY DEF IInv, Shaped
<1>4. /\ rq.answer.meta.status \in Finished \/ rq.kind = "refetch" => rq.answer.meta = job
      /\ rq.answer.rows \in {None, page}
  BY <1>2 DEF Sound
<1>5. /\ t \in Shown /\ EndIsOfTheJob(t) /\ (Ended(shown) => t.meta = shown.meta)
      /\ t.rows \in {None, page}
  <2>1. CASE rq.kind = "rows"
    <3>1. t = WithRows(shown, rq.answer) /\ t.rows = rq.answer.rows
      BY <2>1 DEF WithRows
    <3> HIDE DEF t
    <3> QED
      BY <1>2, <1>3, <1>4, <3>1, MergeKeepsEnd
  <2>2. CASE rq.kind = "refetch"
    <3>1. /\ t.meta = rq.answer.meta /\ t.rows = rq.answer.rows /\ t \in Shown
      BY <1>2, <2>2 DEF Answer, Shown
    <3> HIDE DEF t
    <3> QED
      BY <1>3, <1>4, <2>2, <3>1 DEF EndIsOfTheJob
  <2> QED
    BY <1>2, <2>1, <2>2
<1> HIDE DEF t
<1>6. NoticesAreOfTheEnd'
  BY <1>2 DEF IInv, NoticesAreOfTheEnd
<1>7. requests \ {rq} \in SUBSET RequestOf(S) /\ \A other \in requests \ {rq} : Sound(other)
  BY <1>1 DEF IInv, RequestsAreSound
<1>8. IInv' /\ shown' = t
  BY <1>2, <1>5, <1>6, <1>7, ShownStep
<1> QED
  BY <1>5, <1>8 DEF FinalStatusStays, RowsAreOfThePage

\* Requests that are gone, and others that stay as they are.
LEMMA FewerStep ==
  ASSUME IInv, UNCHANGED <<job, page, shown, notified, notices>>, requests' \subseteq requests
  PROVE  IInv'
<1>1. \E T : requests' \subseteq RequestOf(T)
  BY DEF IInv, Shaped
<1>2. RequestsAreSound' /\ page' \in Pages
  BY DEF IInv, Shaped, RequestsAreSound, Sound
<1> QED
  BY <1>1, <1>2, QuietStep

\* Whatever an answer is to, and whenever it arrives.
LEMMA AnswerStep ==
  ASSUME IInv, NEW i, AnswerArrives(i)
  PROVE  IInv' /\ FinalStatusStays /\ RowsAreOfThePage
<1>1. PICK rq \in requests : rq.answer # None /\ Apply(rq)
  BY DEF AnswerArrives
<1>2. UNCHANGED <<job, page>>
  BY DEF AnswerArrives
<1>3. CASE Discard(rq)
  <2>1. UNCHANGED <<shown, notified, notices>> /\ requests' \subseteq requests
    BY <1>3 DEF Discard
  <2> QED
    BY <1>2, <2>1, FewerStep DEF FinalStatusStays, RowsAreOfThePage
<1> QED
  BY <1>1, <1>2, <1>3, ProgressStep, StatusStep, RowsStep DEF Apply

\* The server answers with what the job is now.
LEMMA ServerAnswerStep ==
  ASSUME IInv, NEW i, ServerAnswers(i)
  PROVE  IInv'
<1>1. PICK rq \in requests : requests' = (requests \ {rq}) \cup {[rq EXCEPT !.answer = AnswerNow(rq)]}
  BY DEF ServerAnswers
<1> DEFINE new == [rq EXCEPT !.answer = AnswerNow(rq)]
<1>2. PICK S : requests \subseteq RequestOf(S)
  BY DEF IInv, Shaped
<1>3. rq \in RequestOf(S) /\ Sound(rq) /\ job \in Meta
  BY <1>2 DEF IInv, RequestsAreSound, Shaped
<1>4. /\ AnswerNow(rq) \in Answer /\ AnswerNow(rq).meta = job
      /\ AnswerNow(rq).rows \in {None, rq.page}
  BY <1>3 DEF AnswerNow, Answer, RequestOf
<1>5. /\ new \in RequestOf(S)
      /\ new.answer = AnswerNow(rq) /\ new.kind = rq.kind /\ new.page = rq.page
      /\ new.ended = rq.ended /\ new.live = rq.live
  BY <1>3, <1>4 DEF RequestOf
<1>6. requests' = (requests \ {rq}) \cup {new}
  BY <1>1
<1> HIDE DEF new
<1>7. Sound(new)
  BY <1>3, <1>4, <1>5 DEF Sound
<1>8. UNCHANGED <<job, page, shown, notified, notices>> /\ page' \in Pages
  BY DEF ServerAnswers, IInv, Shaped
<1>9. /\ \E T : requests' \subseteq RequestOf(T)
      /\ RequestsAreSound'
  BY <1>2, <1>5, <1>6, <1>7, <1>8 DEF IInv, RequestsAreSound, Sound
<1> QED
  BY <1>8, <1>9, QuietStep

\* Before it ends, nobody was told of the job's end.
LEMMA AdvanceStep ==
  ASSUME IInv, ServerAdvances
  PROVE  IInv'
<1>1. job \in Meta /\ job' \in Later(job)
  BY DEF ServerAdvances, IInv, Shaped
<1>2. job.status \notin Finished /\ job' \in Meta
  BY <1>1, EndIsFinal DEF Later
<1>3. UNCHANGED <<page, shown, requests, notified, notices>>
  BY DEF ServerAdvances
<1>4. Shaped'
  BY <1>2, <1>3 DEF IInv, Shaped
<1>5. RequestsAreSound'
  BY <1>2, <1>3 DEF IInv, RequestsAreSound, Sound
<1>6. EndIsOfTheJob(shown)'
  BY <1>2, <1>3 DEF IInv, EndIsOfTheJob, Ended
<1>7. NoticesAreOfTheEnd'
  BY <1>2, <1>3 DEF IInv, NoticesAreOfTheEnd
<1> QED
  BY <1>4, <1>5, <1>6, <1>7 DEF IInv

\* A poll or a probe is sent.
LEMMA AskStep ==
  ASSUME IInv, UNCHANGED <<job, page, shown, notified, notices>>,
         NEW kind \in {"poll", "probe"}, NEW asked \in {"progress", "status", "history"},
         requests' = Send(requests, kind, asked, page)
  PROVE  IInv'
<1>1. PICK S : requests \subseteq RequestOf(S)
  BY DEF IInv, Shaped
<1>2. /\ \A rq \in requests : Sound(rq)
      /\ page \in Pages /\ kind # "refetch"
      /\ kind \in {"poll", "probe", "update", "rows", "refetch"}
  BY DEF IInv, RequestsAreSound, Shaped
<1>3. /\ \E T : requests' \subseteq RequestOf(T)
      /\ \A rq \in requests' : Sound(rq)
  BY <1>1, <1>2, SentIsSound
<1>4. RequestsAreSound' /\ page' \in Pages
  BY <1>2, <1>3 DEF RequestsAreSound, Sound
<1> QED
  BY <1>3, <1>4, QuietStep

\* Timers, the stream but for its updates, and the page that gets the focus.
LEMMA TransportStep ==
  ASSUME IInv, PollTimerFires \/ ProbeTimerFires \/ Resume \/ ConnectTimeout \/ StreamBreaks
  PROVE  IInv'
<1>1. UNCHANGED <<job, page, shown, notified, notices>>
  BY DEF PollTimerFires, ProbeTimerFires, Resume, ConnectTimeout, StreamBreaks
<1>2. \/ requests' = Send(requests, "poll", "progress", page)
      \/ requests' = Send(requests, "probe", "progress", page)
      \/ requests' = requests
  BY DEF PollTimerFires, ProbeTimerFires, Resume, ConnectTimeout, StreamBreaks, Poll, Probe
<1>3. CASE requests' = Send(requests, "poll", "progress", page)
  BY <1>1, <1>3, AskStep
<1>4. CASE requests' = Send(requests, "probe", "progress", page)
  BY <1>1, <1>4, AskStep
<1>5. CASE requests' = requests
  BY <1>1, <1>5, FewerStep
<1> QED
  BY <1>2, <1>3, <1>4, <1>5

\* An update of the stream is about the job as it is.
LEMMA UpdateStep ==
  ASSUME IInv, StreamUpdates
  PROVE  IInv' /\ FinalStatusStays /\ RowsAreOfThePage
<1> DEFINE a == AnswerNow([asked |-> "progress"])
           ended == job.status \in Finished
           t == WithProgress(shown, a)
           sent == Send(requests, "update", "status", page)
           marked == {IF rq \in requests THEN rq ELSE [rq EXCEPT !.ended = ended] : rq \in sent}
           told == [id |-> NewId(requests), kind |-> "update", asked |-> "status", page |-> page,
                    ended |-> ended, answer |-> None, live |-> TRUE]
<1>1. PICK S : requests \subseteq RequestOf(S)
  BY DEF IInv, Shaped
<1>2. job \in Meta /\ page \in Pages /\ shown \in Shown /\ EndIsOfTheJob(shown)
  BY DEF IInv, Shaped
<1>3. a \in Answer /\ a.meta = job
  BY <1>2 DEF AnswerNow, Answer
<1>4. UNCHANGED <<job, page, notified, notices>> /\ (Show(t, marked) \/ Show(t, requests))
  BY DEF StreamUpdates
<1> HIDE DEF a
<1>5. /\ t \in Shown /\ EndIsOfTheJob(t) /\ (Ended(shown) => t.meta = shown.meta)
      /\ t.rows = shown.rows
  <2>1. t.rows = shown.rows
    BY <1>2 DEF WithProgress, Shown
  <2> QED
    BY <1>2, <1>3, <2>1, MergeKeepsEnd
<1> HIDE DEF t
<1>6. \A rq \in marked : rq \in requests \/ rq = told
  BY DEF Send
<1>7. /\ told \in RequestOf(S \cup {NewId(requests)})
      /\ told.kind = "update" /\ told.answer = None /\ told.page = page /\ told.ended = ended
  <2>1. ended \in BOOLEAN
    OBVIOUS
  <2> HIDE DEF ended, marked, sent
  <2> QED
    BY <1>2, <2>1 DEF RequestOf
<1> HIDE DEF told
<1>8. Sound(told)
  BY <1>7 DEF Sound
<1> HIDE DEF marked
<1>9. requests \subseteq RequestOf(S \cup {NewId(requests)})
  BY <1>1, ShapeWidens
<1>10. /\ marked \in SUBSET RequestOf(S \cup {NewId(requests)})
       /\ \A rq \in marked : Sound(rq)
       /\ \A rq \in requests : Sound(rq)
  BY <1>6, <1>7, <1>8, <1>9 DEF IInv, RequestsAreSound
<1>11. NoticesAreOfTheEnd'
  BY <1>4 DEF IInv, NoticesAreOfTheEnd
<1>12. IInv' /\ shown' = t
  <2>1. PICK T : marked \in SUBSET RequestOf(T) /\ requests \in SUBSET RequestOf(T)
    BY <1>9, <1>10
  <2>2. PICK rs \in SUBSET RequestOf(T) : Show(t, rs) /\ \A rq \in rs : Sound(rq)
    BY <1>4, <1>10, <2>1
  <2> QED
    BY <1>4, <1>5, <1>11, <2>2, ShownStep
<1> QED
  BY <1>5, <1>12 DEF FinalStatusStays, RowsAreOfThePage

\* Another page disowns what was sent for the one before.
LEMMA PageStep ==
  ASSUME IInv, ChangePage
  PROVE  IInv'
<1> DEFINE disowned == {[rq EXCEPT !.live = FALSE] : rq \in requests}
           asRows(p) == [id |-> NewId(disowned), kind |-> "rows", asked |-> "status", page |-> p,
                         ended |-> FALSE, answer |-> None, live |-> TRUE]
           asPoll(p) == [id |-> NewId(Send(disowned, "rows", "status", p)), kind |-> "poll",
                         asked |-> "progress", page |-> p, ended |-> FALSE, answer |-> None,
                         live |-> TRUE]
<1>1. PICK p \in Pages :
        /\ page' = p /\ UNCHANGED <<job, shown, notified, notices>>
        /\ requests' \in {Send(disowned, "rows", "status", p),
                          Send(Send(disowned, "rows", "status", p), "poll", "progress", p)}
  BY DEF ChangePage
<1>2. PICK S : requests \subseteq RequestOf(S)
  BY DEF IInv, Shaped
<1>3. \A rq \in disowned : rq \in RequestOf(S) /\ Sound(rq)'
  <2> SUFFICES ASSUME NEW rq \in requests
               PROVE  [rq EXCEPT !.live = FALSE] \in RequestOf(S) /\ Sound([rq EXCEPT !.live = FALSE])'
    OBVIOUS
  <2> DEFINE new == [rq EXCEPT !.live = FALSE]
  <2>1. rq \in RequestOf(S) /\ Sound(rq)
    BY <1>2 DEF IInv, RequestsAreSound
  <2>2. /\ new \in RequestOf(S)
        /\ new.kind = rq.kind /\ new.page = rq.page /\ new.ended = rq.ended /\ new.answer = rq.answer
        /\ ~new.live
    BY <2>1 DEF RequestOf
  <2> HIDE DEF new
  <2>3. Sound(new)'
    BY <1>1, <2>1, <2>2 DEF Sound
  <2> QED
    BY <2>2, <2>3 DEF new
<1>4. PICK first, second : first = asRows(p) /\ second = asPoll(p)
  OBVIOUS
<1>5. \A rq \in requests' : rq \in disowned \/ rq = first \/ rq = second
  BY <1>1, <1>4 DEF Send
<1>6. PICK T : T = S \cup {NewId(disowned), NewId(Send(disowned, "rows", "status", p))}
  OBVIOUS
<1>7. first \in RequestOf(T) /\ second \in RequestOf(T)
  BY <1>4, <1>6 DEF RequestOf
<1>8. \A rq \in {first, second} :
        rq.answer = None /\ ~rq.ended /\ rq.kind # "refetch" /\ rq.page = p
  BY <1>4
<1> HIDE DEF asRows, asPoll, disowned
<1>9. \A rq \in {first, second} : Sound(rq)'
  BY <1>1, <1>8 DEF Sound
<1>10. \A rq \in disowned : rq \in RequestOf(T)
  BY <1>3, <1>6 DEF RequestOf
<1>11. \E R : requests' \subseteq RequestOf(R)
  BY <1>5, <1>7, <1>10
<1>12. RequestsAreSound'
  BY <1>3, <1>5, <1>9 DEF RequestsAreSound
<1> QED
  BY <1>1, <1>11, <1>12, QuietStep

-----------------------------------------------------------------------------
(* The invariant                                                           *)

\* It holds when the tracker starts.
LEMMA InitIInv == Init => IInv
<1> SUFFICES ASSUME Init PROVE IInv
  OBVIOUS
<1>1. /\ job = [status |-> "pending", step |-> 0] /\ page \in Pages
      /\ shown = [meta |-> None, rows |-> None] /\ notified = None /\ notices = 0
      /\ requests \in {Send({}, "rows", "status", page),
                       Send(Send({}, "rows", "status", page), "poll", "progress", page)}
  BY DEF Init
<1>2. job \in Meta /\ shown \in Shown
  BY <1>1, BoundsAssumption DEF Meta, Shown, Status
<1>3. EndIsOfTheJob(shown) /\ NoticesAreOfTheEnd
  BY <1>1 DEF EndIsOfTheJob, Ended, NoticesAreOfTheEnd
<1>4. /\ \E T : requests \subseteq RequestOf(T)
      /\ \A rq \in requests : Sound(rq)
  <2> DEFINE first == [id |-> NewId({}), kind |-> "rows", asked |-> "status", page |-> page,
                       ended |-> FALSE, answer |-> None, live |-> TRUE]
             rows == Send({}, "rows", "status", page)
             second == [id |-> NewId(rows), kind |-> "poll", asked |-> "progress", page |-> page,
                        ended |-> FALSE, answer |-> None, live |-> TRUE]
             T == {NewId({}), NewId(rows)}
  <2>1. \A rq \in requests : rq = first \/ rq = second
    BY <1>1 DEF Send
  <2>2. first \in RequestOf(T) /\ second \in RequestOf(T)
    BY <1>1 DEF RequestOf
  <2>3. Sound(first) /\ Sound(second)
    BY DEF Sound
  <2> HIDE DEF first, second
  <2> QED
    BY <2>1, <2>2, <2>3
<1> QED
  BY <1>1, <1>2, <1>3, <1>4 DEF IInv, Shaped, RequestsAreSound

\* Every step keeps the invariant, and spoils nothing that is shown.
LEMMA StepIInv ==
  ASSUME IInv, [Next]_vars
  PROVE  IInv' /\ ((FinalStatusStays /\ RowsAreOfThePage) \/ UNCHANGED vars)
<1>1. CASE shown' = shown /\ IInv'
  BY <1>1 DEF FinalStatusStays, RowsAreOfThePage
<1>2. CASE ServerAdvances
  BY <1>1, <1>2, AdvanceStep DEF ServerAdvances
<1>3. CASE \E i \in Ids : ServerAnswers(i)
  BY <1>1, <1>3, ServerAnswerStep DEF ServerAnswers
<1>4. CASE \E i \in Ids : AnswerArrives(i)
  BY <1>4, AnswerStep
<1>5. CASE (\E i \in Ids : RequestFails(i)) \/ StreamOpens \/ UNCHANGED vars
  <2>1. UNCHANGED <<job, page, shown, notified, notices>> /\ requests' \subseteq requests
    BY <1>5 DEF RequestFails, StreamOpens, vars
  <2> QED
    BY <1>1, <2>1, FewerStep
<1>6. CASE PollTimerFires \/ ProbeTimerFires \/ Resume \/ ConnectTimeout \/ StreamBreaks
  <2>1. shown' = shown
    BY <1>6 DEF PollTimerFires, ProbeTimerFires, Resume, ConnectTimeout, StreamBreaks
  <2> QED
    BY <1>1, <1>6, <2>1, TransportStep
<1>7. CASE StreamUpdates
  BY <1>7, UpdateStep
<1>8. CASE ChangePage
  BY <1>1, <1>8, PageStep DEF ChangePage
<1> QED
  BY <1>2, <1>3, <1>4, <1>5, <1>6, <1>7, <1>8 DEF Next

\* So it holds always.
LEMMA InvariantIInv == Spec => []IInv
<1>1. IInv /\ [Next]_vars => IInv'
  BY StepIInv
<1> QED
  BY <1>1, InitIInv, PTL DEF Spec

\* The user is notified of the end of a job at most once, however many requests see it.
THEOREM NoticesAreSound == Spec => []NotifiedOnce
<1>1. IInv => NotifiedOnce
  BY DEF IInv, NoticesAreOfTheEnd, NotifiedOnce
<1> QED
  BY <1>1, InvariantIInv, PTL

\* A final status that is shown stays, and rows are those of the page, whichever answer arrives when.
THEOREM ShownStaysSound == Spec => ShownIsSound
<1>1. IInv /\ [Next]_vars => [FinalStatusStays /\ RowsAreOfThePage]_vars
  BY StepIInv
<1> QED
  BY <1>1, InvariantIInv, PTL DEF Spec, ShownIsSound

=============================================================================
