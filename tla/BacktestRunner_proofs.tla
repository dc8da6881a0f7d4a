------------------------ MODULE BacktestRunner_proofs ------------------------
(***************************************************************************)
(* Proofs about BacktestRunner, for any number of runs, detours, requests  *)
(* and failures: what the page shows and keeps is of one run, and a result *)
(* that appears is that of the job the page has.                           *)
(*                                                                         *)
(* Why the invariant is needed: a result is of the request of the last run *)
(* because its job was, and a job is because the start that created it     *)
(* carried the nonce of that run; so the invariant follows the request     *)
(* from the run through cancellation, start and answer.  That a refused    *)
(* run disowns every job to come needs that there are no more jobs than    *)
(* runs, for which the runs still to be started are counted.               *)
(***************************************************************************)
EXTENDS BacktestRunner, TLAPS, FiniteSetTheorems

Known == DOMAIN server

\* Runs that have not created their job yet.
Unborn(rs) == {rq \in rs : rq.kind = "cancel" \/ (rq.kind = "start" /\ rq.answer = "none")}

RequestOf(S) == [id : S, kind : {"cancel", "start", "poll"}, job : Nat, nonce : Nat, of : Nat,
                 answer : S, live : BOOLEAN]

Shaped ==
  /\ \E S : requests \subseteq RequestOf(S)
  /\ nonce \in Nat /\ request \in Nat /\ baselineRequest \in Nat /\ loading \in BOOLEAN

\* No more jobs than runs.
JobsAreOfRuns ==
  /\ runs \in 0..MaxRuns
  /\ IsFiniteSet(Unborn(requests))
  /\ \E n \in Nat : Known = 1..n /\ n + Cardinality(Unborn(requests)) <= runs
  /\ DOMAIN jobOf = Known
  /\ {jobId, result} \subseteq Known \cup {0}
  /\ \A j \in Known : server[j] \in Status

NoncesPast == \A rq \in requests : rq.kind # "poll" => rq.nonce <= nonce

\* A start that is answered has created its job for its request.
StartsAreKnown ==
  \A rq \in requests : rq.kind = "start" /\ rq.answer # "none" =>
    rq.job \in Known /\ jobOf[rq.job] = rq.of

\* What is under way for the current run carries its request.
RunCarriesRequest ==
  \A rq \in requests : rq.kind # "poll" /\ rq.nonce = nonce =>
    baselineRequest \in {0, rq.of} \/ unmatched = Jobs

LivePollsFollow == \A rq \in requests : rq.kind = "poll" /\ rq.live => rq.job = jobId

Matches(job) ==
  job # 0 /\ job \notin unmatched /\ baselineRequest # 0 => jobOf[job] = baselineRequest

IInv ==
  /\ Shaped /\ JobsAreOfRuns /\ NoncesPast /\ StartsAreKnown /\ RunCarriesRequest
  /\ LivePollsFollow /\ ResumesTheJobFollowed /\ Matches(jobId) /\ Matches(result)

-----------------------------------------------------------------------------
(* The requests                                                            *)

\* The request that Sent adds.
New(rs, kind, job, n, of) ==
  [id |-> NewId(rs), kind |-> kind, job |-> job, nonce |-> n, of |-> of, answer |-> "none",
   live |-> TRUE]

\* What Sent does.
LEMMA SentAddsNew ==
  ASSUME NEW rs, NEW kind, NEW job, NEW n, NEW of
  PROVE  Sent(rs, kind, job, n, of) = rs \cup {New(rs, kind, job, n, of)}
BY DEF Sent, New

\* More ids and answers are allowed.
LEMMA ShapeWidens ==
  ASSUME NEW S, NEW T, NEW rs, rs \subseteq RequestOf(S)
  PROVE  rs \subseteq RequestOf(S \cup T)
BY DEF RequestOf

\* Follow keeps the requests that are no polls, and disowns the polls of another job.
LEMMA FollowKeeps ==
  ASSUME NEW S, NEW rs \in SUBSET RequestOf(S), NEW job \in Nat, NEW busy, Follow(job, busy, rs)
  PROVE  /\ jobId' = job /\ loading' = busy
         /\ \E T : requests' \subseteq RequestOf(T)
         /\ \A rq \in requests' : rq.kind # "poll" => rq \in rs
         /\ \A rq \in requests' : rq.kind = "poll" /\ rq.live =>
              rq.job = job \/ (rq \in rs /\ job = jobId)
<1> DEFINE disowned == {[rq EXCEPT !.live = rq.live /\ rq.kind # "poll"] : rq \in rs}
<1>1. jobId' = job /\ loading' = busy
  BY DEF Follow
<1>2. /\ disowned \subseteq RequestOf(S)
      /\ \A rq \in disowned : (rq.kind # "poll" => rq \in rs) /\ (rq.kind = "poll" => ~rq.live)
  <2> SUFFICES ASSUME NEW rq \in rs
               PROVE  LET new == [rq EXCEPT !.live = rq.live /\ rq.kind # "poll"] IN
                      /\ new \in RequestOf(S)
                      /\ new.kind # "poll" => new = rq
                      /\ new.kind = "poll" => ~new.live
    OBVIOUS
  <2>1. rq \in RequestOf(S)
    OBVIOUS
  <2> QED
    BY <2>1 DEF RequestOf
<1>3. CASE job = jobId /\ busy = loading
  BY <1>1, <1>3 DEF Follow
<1>4. CASE ~(job = jobId /\ busy = loading)
  <2>1. requests' = SendPoll(disowned, job) \/ requests' = disowned
    BY <1>4 DEF Follow
  <2>2. CASE requests' = disowned
    BY <1>1, <1>2, <2>2
  <2>3. CASE requests' = SendPoll(disowned, job)
    <3> DEFINE new == New(disowned, "poll", job, 0, 0)
    <3>1. requests' = disowned \cup {new}
      BY <2>3, SentAddsNew DEF SendPoll
    <3>3. disowned \subseteq RequestOf(S \cup {NewId(disowned), "none"})
      BY <1>2, ShapeWidens
    <3> HIDE DEF disowned
    <3>2. new \in RequestOf(S \cup {NewId(disowned), "none"}) /\ new.kind = "poll" /\ new.job = job
      BY DEF New, RequestOf
    <3> HIDE DEF new
    <3>4. requests' \subseteq RequestOf(S \cup {NewId(disowned), "none"})
      BY <3>1, <3>2, <3>3
    <3> QED
      BY <1>1, <1>2, <3>1, <3>2, <3>4
  <2> QED
    BY <2>1, <2>2, <2>3
<1> QED
  BY <1>3, <1>4

\* Fewer runs are unborn when the requests that are no polls are fewer.
LEMMA UnbornShrinks ==
  ASSUME NEW rs, NEW older, IsFiniteSet(Unborn(older)), \A rq \in rs : rq.kind # "poll" => rq \in older
  PROVE  /\ IsFiniteSet(Unborn(rs)) /\ Unborn(rs) \subseteq Unborn(older)
         /\ Cardinality(Unborn(rs)) \in Nat /\ Cardinality(Unborn(older)) \in Nat
         /\ Cardinality(Unborn(rs)) <= Cardinality(Unborn(older))
<1>1. Unborn(rs) \subseteq Unborn(older)
  BY DEF Unborn
<1> QED
  BY <1>1, FS_Subset, FS_CardinalityType

\* One more when one request is sent.
LEMMA UnbornGrows ==
  ASSUME NEW rs, NEW older, NEW new, IsFiniteSet(Unborn(older)),
         \A rq \in rs : rq.kind # "poll" => rq \in older \cup {new}
  PROVE  /\ IsFiniteSet(Unborn(rs))
         /\ Cardinality(Unborn(rs)) \in Nat /\ Cardinality(Unborn(older)) \in Nat
         /\ Cardinality(Unborn(rs)) <= Cardinality(Unborn(older)) + 1
<1>1. Unborn(rs) \subseteq Unborn(older) \cup {new}
  BY DEF Unborn
<1>2. /\ IsFiniteSet(Unborn(older) \cup {new})
      /\ Cardinality(Unborn(older) \cup {new}) <= Cardinality(Unborn(older)) + 1
  BY FS_AddElement, FS_CardinalityType
<1>3. /\ IsFiniteSet(Unborn(rs))
      /\ Cardinality(Unborn(rs)) <= Cardinality(Unborn(older) \cup {new})
  BY <1>1, <1>2, FS_Subset
<1>4. /\ Cardinality(Unborn(rs)) \in Nat /\ Cardinality(Unborn(older)) \in Nat
      /\ Cardinality(Unborn(older) \cup {new}) \in Nat
  BY <1>2, <1>3, FS_CardinalityType
<1> QED
  BY <1>2, <1>3, <1>4

\* One that is born, or whose cancellation is over, is gone.
LEMMA UnbornLeaves ==
  ASSUME NEW rs, NEW older, NEW gone \in Unborn(older), IsFiniteSet(Unborn(older)),
         \A rq \in Unborn(rs) : rq \in older \ {gone}
  PROVE  /\ IsFiniteSet(Unborn(rs))
         /\ Cardinality(Unborn(rs)) \in Nat /\ Cardinality(Unborn(older)) \in Nat
         /\ Cardinality(Unborn(rs)) + 1 <= Cardinality(Unborn(older))
<1>1. Unborn(rs) \subseteq Unborn(older) \ {gone}
  BY DEF Unborn
<1>2. /\ IsFiniteSet(Unborn(older) \ {gone})
      /\ Cardinality(Unborn(older) \ {gone}) = Cardinality(Unborn(older)) - 1
  BY FS_RemoveElement
<1>3. /\ IsFiniteSet(Unborn(rs))
      /\ Cardinality(Unborn(rs)) <= Cardinality(Unborn(older) \ {gone})
  BY <1>1, <1>2, FS_Subset
<1>4. Cardinality(Unborn(rs)) \in Nat /\ Cardinality(Unborn(older)) \in Nat
  BY <1>3, FS_CardinalityType
<1> QED
  BY <1>2, <1>3, <1>4

-----------------------------------------------------------------------------
(* The steps                                                               *)

\* What is left of the invariant to show for a step that starts no run and leaves the request, its
\* copies and the server's jobs alone.
LEMMA FollowUp ==
  ASSUME IInv,
         UNCHANGED <<form, runs>>, Known' = Known, \A j \in Known : server'[j] \in Status,
         nonce' \in {nonce, nonce + 1}, loading' \in BOOLEAN,
         \E T : requests' \subseteq RequestOf(T),
         IsFiniteSet(Unborn(requests')),
         Cardinality(Unborn(requests')) <= Cardinality(Unborn(requests)),
         \A rq \in requests' : rq.kind # "poll" =>
           \E old \in requests :
             /\ old.kind # "poll" /\ rq.nonce = old.nonce /\ rq.of = old.of
             /\ rq.kind = "start" /\ rq.answer # "none" => rq = old,
         \A rq \in requests' : rq.kind = "poll" /\ rq.live => rq.job = jobId',
         persisted' = jobId', jobId' \in Known \cup {0},
         jobId' # 0 /\ jobId' \notin unmatched /\ baselineRequest # 0 => jobOf[jobId'] = baselineRequest,
         result' \in {0, result, jobId}
  PROVE  IInv'
<1>1. Shaped'
  BY DEF IInv, Shaped, form
<1>2. JobsAreOfRuns'
  <2>1. PICK n \in Nat : Known = 1..n /\ n + Cardinality(Unborn(requests)) <= runs
    BY DEF IInv, JobsAreOfRuns
  <2>2. /\ Cardinality(Unborn(requests)) \in Nat /\ Cardinality(Unborn(requests')) \in Nat
        /\ runs \in 0..MaxRuns
    BY FS_CardinalityType DEF IInv, JobsAreOfRuns
  <2>3. Unborn(requests)' = Unborn(requests')
    BY DEF Unborn
  <2>4. n + Cardinality(Unborn(requests')) <= runs
    BY <2>1, <2>2, BacktestBounds
  <2>5. Known' = 1..n /\ n + Cardinality(Unborn(requests)') <= runs'
    BY <2>1, <2>3, <2>4 DEF form
  <2> QED
    BY <2>1, <2>2, <2>3, <2>5 DEF IInv, JobsAreOfRuns, form
<1>3. NoncesPast' /\ StartsAreKnown' /\ RunCarriesRequest'
  <2> SUFFICES ASSUME NEW rq \in requests', rq.kind # "poll"
               PROVE  /\ rq.nonce <= nonce'
                      /\ rq.kind = "start" /\ rq.answer # "none" =>
                           rq.job \in Known /\ jobOf[rq.job] = rq.of
                      /\ rq.nonce = nonce' =>
                           baselineRequest \in {0, rq.of} \/ unmatched = Jobs
    BY DEF NoncesPast, StartsAreKnown, RunCarriesRequest, form
  <2>1. PICK old \in requests :
          /\ old.kind # "poll" /\ rq.nonce = old.nonce /\ rq.of = old.of
          /\ rq.kind = "start" /\ rq.answer # "none" => rq = old
    OBVIOUS
  <2>2. old.nonce \in Nat /\ nonce \in Nat /\ old.nonce <= nonce
    BY <2>1 DEF IInv, Shaped, RequestOf, NoncesPast
  <2>3. rq.nonce = nonce' => nonce' = nonce
    BY <2>1, <2>2
  <2> QED
    BY <2>1, <2>2, <2>3 DEF IInv, StartsAreKnown, RunCarriesRequest
<1>4. LivePollsFollow' /\ ResumesTheJobFollowed'
  BY DEF LivePollsFollow, ResumesTheJobFollowed
<1>5. Matches(jobId)'
  BY DEF Matches, form
<1>6. Matches(result)'
  BY DEF IInv, Matches, form
<1> QED
  BY <1>1, <1>2, <1>3, <1>4, <1>5, <1>6 DEF IInv

\* A step that adds no requests but polls, and follows on or lets go.
LEMMA FollowsOn ==
  ASSUME IInv,
         UNCHANGED <<form, runs>>, Known' = Known, \A j \in Known : server'[j] \in Status,
         nonce' \in {nonce, nonce + 1}, loading' \in BOOLEAN,
         \E T : requests' \subseteq RequestOf(T),
         \A rq \in requests' : rq.kind # "poll" => rq \in requests,
         \A rq \in requests' : rq.kind = "poll" /\ rq.live => rq.job = jobId',
         persisted' = jobId', jobId' \in {0, jobId},
         result' \in {0, result, jobId}
  PROVE  IInv'
<1>1. IsFiniteSet(Unborn(requests))
  BY DEF IInv, JobsAreOfRuns
<1>2. /\ IsFiniteSet(Unborn(requests'))
      /\ Cardinality(Unborn(requests')) <= Cardinality(Unborn(requests))
  BY <1>1, UnbornShrinks
<1>3. /\ jobId' \in Known \cup {0}
      /\ jobId' # 0 /\ jobId' \notin unmatched /\ baselineRequest # 0 => jobOf[jobId'] = baselineRequest
  BY DEF IInv, JobsAreOfRuns, Matches
<1> QED
  BY <1>2, <1>3, FollowUp

\* Following a job, or none, with requests that were there.
LEMMA FollowStep ==
  ASSUME IInv, NEW rs \in SUBSET requests, NEW job \in {0, jobId}, NEW busy \in BOOLEAN,
         Follow(job, busy, rs), persisted' = job, nonce' \in {nonce, nonce + 1},
         UNCHANGED <<form, runs>>, Known' = Known, \A j \in Known : server'[j] \in Status,
         result' \in {0, result, jobId}
  PROVE  IInv'
<1>1. PICK S : rs \in SUBSET RequestOf(S)
  BY DEF IInv, Shaped
<1>2. job \in Nat
  BY DEF IInv, JobsAreOfRuns
<1>3. /\ jobId' = job /\ loading' = busy
      /\ \E T : requests' \subseteq RequestOf(T)
      /\ \A rq \in requests' : rq.kind # "poll" => rq \in rs
      /\ \A rq \in requests' : rq.kind = "poll" /\ rq.live =>
           rq.job = job \/ (rq \in rs /\ job = jobId)
  BY <1>1, <1>2, FollowKeeps
<1>4. \A rq \in requests' : rq.kind = "poll" /\ rq.live => rq.job = jobId'
  BY <1>3 DEF IInv, LivePollsFollow
<1> QED
  BY <1>3, <1>4, FollowsOn

\* A step that only takes a request away, or changes the transport.
LEMMA QuietStep ==
  ASSUME IInv, requests' \subseteq requests,
         UNCHANGED <<jobId, loading, result, nonce, persisted, server, form, runs>>
  PROVE  IInv'
<1>1. /\ \E T : requests' \subseteq RequestOf(T)
      /\ loading' \in BOOLEAN /\ persisted' = jobId'
      /\ \A rq \in requests' : rq.kind # "poll" => rq \in requests
      /\ \A rq \in requests' : rq.kind = "poll" /\ rq.live => rq.job = jobId'
      /\ Known' = Known /\ \A j \in Known : server'[j] \in Status
  BY DEF IInv, Shaped, LivePollsFollow, ResumesTheJobFollowed, JobsAreOfRuns, Known
<1> QED
  BY <1>1, FollowsOn

\* The status of the job that is followed.
LEMMA StatusStep ==
  ASSUME IInv, NEW status, NEW rs \in SUBSET requests, ApplyStatus(jobId, status, rs),
         UNCHANGED <<server, nonce, form, runs>>
  PROVE  IInv'
<1>1. CASE status \in Finished
  <2>1. /\ Follow(0, FALSE, rs) /\ persisted' = 0 /\ result' \in {0, result, jobId}
    BY <1>1 DEF ApplyStatus
  <2>2. Known' = Known /\ \A j \in Known : server'[j] \in Status
    BY DEF IInv, JobsAreOfRuns, Known
  <2> QED
    BY <2>1, <2>2, FollowStep
<1>2. CASE status \notin Finished
  BY <1>2, QuietStep DEF ApplyStatus
<1> QED
  BY <1>1, <1>2

\* The start that follows a cancellation is for the same run.
LEMMA CancelStep ==
  ASSUME IInv, NEW rq \in requests, CancelReturns(rq), UNCHANGED <<server, nonce, form, runs>>
  PROVE  IInv'
<1> DEFINE left == requests \ {rq}
           new == New(left, "start", 0, rq.nonce, rq.of)
<1>1. requests' = left \cup {new} /\ rq.kind = "cancel"
  BY SentAddsNew DEF CancelReturns
<1>2. PICK S : requests \subseteq RequestOf(S)
  BY DEF IInv, Shaped
<1>3. /\ rq.nonce \in Nat /\ rq.of \in Nat /\ rq.job \in Nat
      /\ new \in RequestOf(S \cup {NewId(left), "none"})
      /\ new.kind = "start" /\ new.answer = "none" /\ new.nonce = rq.nonce /\ new.of = rq.of
  BY <1>2 DEF New, RequestOf
<1>4. left \subseteq RequestOf(S \cup {NewId(left), "none"})
  BY <1>2, ShapeWidens
<1> HIDE DEF new
<1>5. \E T : requests' \subseteq RequestOf(T)
  BY <1>1, <1>3, <1>4
<1>6. /\ IsFiniteSet(Unborn(requests'))
      /\ Cardinality(Unborn(requests')) <= Cardinality(Unborn(requests))
  <2>1. rq \in Unborn(requests) /\ IsFiniteSet(Unborn(requests))
    BY <1>1 DEF Unborn, IInv, JobsAreOfRuns
  <2>2. \A other \in Unborn(left) : other \in requests \ {rq}
    BY DEF Unborn
  <2>3. /\ IsFiniteSet(Unborn(left))
        /\ Cardinality(Unborn(left)) \in Nat /\ Cardinality(Unborn(requests)) \in Nat
        /\ Cardinality(Unborn(left)) + 1 <= Cardinality(Unborn(requests))
    BY <2>1, <2>2, UnbornLeaves
  <2>4. \A other \in requests' : other.kind # "poll" => other \in left \cup {new}
    BY <1>1
  <2>5. /\ IsFiniteSet(Unborn(requests')) /\ Cardinality(Unborn(requests')) \in Nat
        /\ Cardinality(Unborn(requests')) <= Cardinality(Unborn(left)) + 1
    BY <2>3, <2>4, UnbornGrows
  <2> QED
    BY <2>3, <2>5
<1>7. /\ \A other \in requests' : other.kind # "poll" =>
           \E old \in requests :
             /\ old.kind # "poll" /\ other.nonce = old.nonce /\ other.of = old.of
             /\ other.kind = "start" /\ other.answer # "none" => other = old
      /\ \A other \in requests' : other.kind = "poll" /\ other.live => other.job = jobId
  BY <1>1, <1>3 DEF IInv, LivePollsFollow
<1>8. UNCHANGED <<jobId, loading, result, persisted>>
  BY DEF CancelReturns
<1>9. /\ jobId \in Known \cup {0} /\ loading \in BOOLEAN /\ persisted = jobId
      /\ jobId # 0 /\ jobId \notin unmatched /\ baselineRequest # 0 => jobOf[jobId] = baselineRequest
      /\ Known' = Known /\ \A j \in Known : server'[j] \in Status
  BY DEF IInv, JobsAreOfRuns, Shaped, ResumesTheJobFollowed, Matches, Known
<1> QED
  BY <1>5, <1>6, <1>7, <1>8, <1>9, FollowUp

\* The job of the current run is of its request.
LEMMA StartStep ==
  ASSUME IInv, NEW rq \in requests, rq.answer # "none", StartReturns(rq),
         UNCHANGED <<server, nonce, form, runs>>
  PROVE  IInv'
<1>1. rq.kind = "start" /\ result' = result
  BY DEF StartReturns
<1>2. CASE rq.nonce # nonce
  BY <1>2, QuietStep DEF StartReturns
<1>3. CASE rq.nonce = nonce
  <2>1. Follow(rq.job, loading, requests \ {rq}) /\ persisted' = rq.job
    BY <1>3 DEF StartReturns
  <2>2. PICK S : requests \ {rq} \in SUBSET RequestOf(S)
    BY DEF IInv, Shaped
  <2>3. rq.job \in Known /\ rq.job \in Nat /\ jobOf[rq.job] = rq.of
    BY <1>1 DEF IInv, StartsAreKnown, JobsAreOfRuns
  <2>4. /\ jobId' = rq.job /\ loading' = loading
        /\ \E T : requests' \subseteq RequestOf(T)
        /\ \A other \in requests' : other.kind # "poll" => other \in requests \ {rq}
        /\ \A other \in requests' : other.kind = "poll" /\ other.live =>
             other.job = rq.job \/ (other \in requests \ {rq} /\ rq.job = jobId)
    BY <2>1, <2>2, <2>3, FollowKeeps
  <2>5. \A other \in requests' : other.kind = "poll" /\ other.live => other.job = jobId'
    BY <2>4 DEF IInv, LivePollsFollow
  <2>6. /\ IsFiniteSet(Unborn(requests'))
        /\ Cardinality(Unborn(requests')) <= Cardinality(Unborn(requests))
    BY <2>4, UnbornShrinks DEF IInv, JobsAreOfRuns
  <2>7. rq.job \in Jobs
    <3>1. PICK n \in Nat : Known = 1..n /\ n + Cardinality(Unborn(requests)) <= runs
      BY DEF IInv, JobsAreOfRuns
    <3>2. Cardinality(Unborn(requests)) \in Nat /\ runs \in 0..MaxRuns
      BY FS_CardinalityType DEF IInv, JobsAreOfRuns
    <3> QED
      BY <2>3, <3>1, <3>2, BacktestBounds DEF Jobs
  <2>8. jobId' \notin unmatched /\ baselineRequest # 0 => jobOf[jobId'] = baselineRequest
    BY <1>1, <1>3, <2>3, <2>4, <2>7 DEF IInv, RunCarriesRequest
  <2>9. /\ loading \in BOOLEAN /\ Known' = Known /\ \A j \in Known : server'[j] \in Status
    BY DEF IInv, Shaped, JobsAreOfRuns, Known
  <2> QED
    BY <1>1, <2>1, <2>3, <2>4, <2>5, <2>6, <2>8, <2>9, FollowUp
<1> QED
  BY <1>2, <1>3

\* Only the start of the current run, and a poll of the job that is followed, change what is tracked.
LEMMA AnswerStep ==
  ASSUME IInv, NEW i, AnswerArrives(i)
  PROVE  IInv'
<1>1. PICK rq \in requests :
        rq.answer # "none" /\ (CancelReturns(rq) \/ StartReturns(rq) \/ PollReturns(rq))
  BY DEF AnswerArrives
<1>2. UNCHANGED <<server, nonce, form, runs>>
  BY DEF AnswerArrives, bounds
<1>3. CASE CancelReturns(rq)
  BY <1>2, <1>3, CancelStep
<1>4. CASE StartReturns(rq)
  BY <1>1, <1>2, <1>4, StartStep
<1>5. CASE PollReturns(rq)
  <2>1. CASE rq.live
    <3>1. rq.job = jobId
      BY <1>5, <2>1 DEF PollReturns, IInv, LivePollsFollow
    <3>2. ApplyStatus(jobId, rq.answer, requests \ {rq})
      BY <1>5, <2>1, <3>1 DEF PollReturns
    <3> QED
      BY <1>2, <3>2, StatusStep
  <2>2. CASE ~rq.live
    BY <1>2, <1>5, <2>2, QuietStep DEF PollReturns
  <2> QED
    BY <2>1, <2>2
<1> QED
  BY <1>1, <1>3, <1>4, <1>5

\* A failure starts no run and shows nothing.
LEMMA FailureStep ==
  ASSUME IInv, NEW i, RequestFails(i)
  PROVE  IInv'
<1>1. PICK rq \in requests :
        \/ CancelReturns(rq)
        \/ StartFails(rq) /\ UNCHANGED <<result, persisted>>
        \/ requests' = requests \ {rq} /\ UNCHANGED <<jobId, loading, result, persisted>>
  BY DEF RequestFails
<1>2. UNCHANGED <<server, nonce, form, runs>>
  BY DEF RequestFails
<1>3. CASE StartFails(rq) /\ UNCHANGED <<result, persisted>>
  <2>1. Follow(jobId, loading /\ rq.nonce # nonce, requests \ {rq})
    BY <1>3 DEF StartFails
  <2>2. /\ (loading /\ rq.nonce # nonce) \in BOOLEAN
        /\ persisted' = jobId /\ Known' = Known /\ \A j \in Known : server'[j] \in Status
    BY <1>2, <1>3 DEF IInv, ResumesTheJobFollowed, JobsAreOfRuns, Known
  <2> QED
    BY <1>2, <1>3, <2>1, <2>2, FollowStep
<1> QED
  BY <1>1, <1>2, <1>3, CancelStep, QuietStep

\* Another poll of the job that is followed.
LEMMA PollStep ==
  ASSUME IInv, NEW t, Poll(t)
  PROVE  IInv'
<1> DEFINE new == New(requests, "poll", jobId, 0, 0)
<1>1. requests' = requests \cup {new}
  BY SentAddsNew DEF Poll, SendPoll
<1>2. UNCHANGED <<server, jobId, loading, result, nonce, persisted, form, runs>>
  BY DEF Poll, bounds
<1>3. PICK S : requests \subseteq RequestOf(S)
  BY DEF IInv, Shaped
<1>4. requests \subseteq RequestOf(S \cup {NewId(requests), "none"})
  BY <1>3, ShapeWidens
<1>5. jobId \in Nat
  BY DEF IInv, JobsAreOfRuns
<1>6. new \in RequestOf(S \cup {NewId(requests), "none"}) /\ new.kind = "poll" /\ new.job = jobId
  BY <1>5 DEF New, RequestOf
<1> HIDE DEF new
<1>7. /\ \E T : requests' \subseteq RequestOf(T)
      /\ \A rq \in requests' : rq.kind # "poll" => rq \in requests
      /\ \A rq \in requests' : rq.kind = "poll" /\ rq.live => rq.job = jobId'
  BY <1>1, <1>2, <1>4, <1>6 DEF IInv, LivePollsFollow
<1>8. /\ loading' \in BOOLEAN /\ persisted' = jobId' /\ Known' = Known
      /\ \A j \in Known : server'[j] \in Status
  BY <1>2 DEF IInv, Shaped, ResumesTheJobFollowed, JobsAreOfRuns, Known
<1> QED
  BY <1>2, <1>7, <1>8, FollowsOn

\* A reset lets go of the job, and of the starts under way by its nonce.
LEMMA ResetStep ==
  ASSUME IInv, Reset
  PROVE  IInv'
<1>1. /\ Follow(0, FALSE, requests) /\ persisted' = 0 /\ result' = 0 /\ nonce' = nonce + 1
      /\ UNCHANGED <<form, runs>>
  BY DEF Reset
<1>2. Known' = Known /\ \A j \in Known : server'[j] \in Status
  BY DEF Reset, IInv, JobsAreOfRuns, Known, Status, Finished
<1> QED
  BY <1>1, <1>2, FollowStep

\* A new run takes the baseline, and its request goes with what is sent for it.
LEMMA RunStep ==
  ASSUME IInv, NEW of \in {request, Aligned}, RunBacktest(of)
  PROVE  IInv'
<1> DEFINE kind == IF jobId # 0 THEN "cancel" ELSE "start"
           new == New(requests, kind, jobId, nonce + 1, of)
           sent == requests \cup {new}
<1>1. /\ Follow(jobId, TRUE, sent)
      /\ runs < MaxRuns /\ runs' = runs + 1 /\ nonce' = nonce + 1 /\ result' = 0
      /\ baselineRequest' = of /\ unmatched' = {jobId} \ {0}
      /\ UNCHANGED <<server, request, jobOf, persisted>>
  BY SentAddsNew DEF RunBacktest, ResultOfNewRun
<1>2. PICK S : requests \subseteq RequestOf(S)
  BY DEF IInv, Shaped
<1>3. jobId \in Nat /\ nonce \in Nat /\ of \in Nat
  BY BacktestBounds DEF IInv, Shaped, JobsAreOfRuns, Aligned
<1>4. /\ new \in RequestOf(S \cup {NewId(requests), "none"})
      /\ new.kind # "poll" /\ new.nonce = nonce' /\ new.of = of /\ new.answer = "none"
  BY <1>1, <1>3 DEF New, RequestOf
<1>5. requests \subseteq RequestOf(S \cup {NewId(requests), "none"})
  BY <1>2, ShapeWidens
<1> HIDE DEF new
<1>6. sent \in SUBSET RequestOf(S \cup {NewId(requests), "none"})
  BY <1>4, <1>5
<1>7. /\ jobId' = jobId /\ loading' = TRUE
      /\ \E T : requests' \subseteq RequestOf(T)
      /\ \A rq \in requests' : rq.kind # "poll" => rq \in sent
      /\ \A rq \in requests' : rq.kind = "poll" /\ rq.live =>
           rq.job = jobId \/ rq \in sent
  <2> HIDE DEF sent
  <2>1. PICK T : sent \in SUBSET RequestOf(T)
    BY <1>6
  <2> QED
    BY <1>1, <1>3, <2>1, FollowKeeps
<1>8. Shaped'
  BY <1>1, <1>3, <1>7 DEF Shaped, IInv
<1>9. JobsAreOfRuns'
  <2>1. PICK n \in Nat : Known = 1..n /\ n + Cardinality(Unborn(requests)) <= runs
    BY DEF IInv, JobsAreOfRuns
  <2>2. /\ IsFiniteSet(Unborn(requests'))
        /\ Cardinality(Unborn(requests')) \in Nat /\ Cardinality(Unborn(requests)) \in Nat
        /\ Cardinality(Unborn(requests')) <= Cardinality(Unborn(requests)) + 1
    BY <1>7, UnbornGrows DEF IInv, JobsAreOfRuns
  <2>3. runs \in 0..MaxRuns /\ runs' \in 0..MaxRuns
    BY <1>1, BacktestBounds DEF IInv, JobsAreOfRuns
  <2>4. n + Cardinality(Unborn(requests')) <= runs'
    BY <1>1, <2>1, <2>2, <2>3, BacktestBounds
  <2>5. Unborn(requests)' = Unborn(requests') /\ Known' = Known
    BY <1>1 DEF Unborn, Known
  <2> QED
    BY <1>1, <1>7, <2>1, <2>2, <2>3, <2>4, <2>5 DEF IInv, JobsAreOfRuns
<1>10. NoncesPast' /\ StartsAreKnown' /\ RunCarriesRequest'
  <2> SUFFICES ASSUME NEW rq \in requests', rq.kind # "poll"
               PROVE  /\ rq.nonce <= nonce'
                      /\ rq.kind = "start" /\ rq.answer # "none" =>
                           rq.job \in Known' /\ jobOf'[rq.job] = rq.of
                      /\ rq.nonce = nonce' => baselineRequest' \in {0, rq.of}
    BY DEF NoncesPast, StartsAreKnown, RunCarriesRequest
  <2>1. CASE rq = new
    BY <1>1, <1>3, <1>4, <2>1
  <2>2. CASE rq \in requests
    <3>1. rq.nonce \in Nat /\ rq.nonce <= nonce
      BY <1>2, <2>2 DEF IInv, NoncesPast, RequestOf
    <3> QED
      BY <1>1, <1>3, <2>2, <3>1 DEF IInv, StartsAreKnown, Known
  <2> QED
    BY <1>7, <2>1, <2>2
<1>11. LivePollsFollow' /\ ResumesTheJobFollowed'
  BY <1>1, <1>4, <1>7 DEF IInv, LivePollsFollow, ResumesTheJobFollowed
<1>12. Matches(jobId)' /\ Matches(result)'
  BY <1>1, <1>7 DEF Matches
<1> QED
  BY <1>8, <1>9, <1>10, <1>11, <1>12 DEF IInv

\* A refused run takes the baseline from all jobs there may ever be.
LEMMA RefusedStep ==
  ASSUME IInv, NEW of \in {request, Aligned}, RunRefused(of)
  PROVE  IInv'
<1>1. /\ baselineRequest' = of /\ unmatched' = Jobs
      /\ UNCHANGED <<server, jobId, loading, result, nonce, persisted, requests, request, jobOf, runs>>
  BY DEF RunRefused, ui
<1>2. \A j \in Known : j \in Jobs
  <2>1. PICK n \in Nat : Known = 1..n /\ n + Cardinality(Unborn(requests)) <= runs
    BY DEF IInv, JobsAreOfRuns
  <2>2. Cardinality(Unborn(requests)) \in Nat /\ runs \in 0..MaxRuns
    BY FS_CardinalityType DEF IInv, JobsAreOfRuns
  <2> QED
    BY <2>1, <2>2, BacktestBounds DEF Jobs
<1>3. Shaped'
  BY <1>1, BacktestBounds DEF IInv, Shaped, Aligned
<1>4. JobsAreOfRuns'
  <2>1. Unborn(requests)' = Unborn(requests) /\ Known' = Known
    BY <1>1 DEF Unborn, Known
  <2> QED
    BY <1>1, <2>1 DEF IInv, JobsAreOfRuns
<1>5. /\ NoncesPast' /\ StartsAreKnown' /\ RunCarriesRequest'
      /\ LivePollsFollow' /\ ResumesTheJobFollowed'
  BY <1>1 DEF IInv, NoncesPast, StartsAreKnown, RunCarriesRequest, LivePollsFollow,
              ResumesTheJobFollowed, Known
<1>6. Matches(jobId)' /\ Matches(result)'
  BY <1>1, <1>2 DEF IInv, Matches, JobsAreOfRuns
<1> QED
  BY <1>3, <1>4, <1>5, <1>6 DEF IInv

\* What is typed is of no run yet.
LEMMA EditStep ==
  ASSUME IInv, Edit
  PROVE  IInv'
<1>1. /\ request' = request + 1
      /\ UNCHANGED <<server, jobId, loading, result, nonce, persisted, requests, baselineRequest,
                     jobOf, unmatched, runs>>
  BY DEF Edit, ui
<1>2. Shaped'
  BY <1>1 DEF IInv, Shaped
<1>3. JobsAreOfRuns'
  <2>1. Unborn(requests)' = Unborn(requests) /\ Known' = Known
    BY <1>1 DEF Unborn, Known
  <2> QED
    BY <1>1, <2>1 DEF IInv, JobsAreOfRuns
<1>4. /\ NoncesPast' /\ StartsAreKnown' /\ RunCarriesRequest'
      /\ LivePollsFollow' /\ ResumesTheJobFollowed' /\ Matches(jobId)' /\ Matches(result)'
  BY <1>1 DEF IInv, NoncesPast, StartsAreKnown, RunCarriesRequest, LivePollsFollow,
              ResumesTheJobFollowed, Known, Matches
<1> QED
  BY <1>2, <1>3, <1>4 DEF IInv

\* A page loaded anew has at most a poll of the job it resumes.
LEMMA ReloadStep ==
  ASSUME IInv, Reload
  PROVE  IInv'
<1> DEFINE new == New({}, "poll", persisted, 0, 0)
<1>1. /\ nonce' = 0 /\ result' = 0 /\ jobId' = persisted /\ loading' = (persisted # 0)
      /\ requests' = {new} \/ requests' = {}
      /\ baselineRequest' = 0 /\ unmatched' = {}
      /\ UNCHANGED <<server, request, jobOf, persisted, runs>>
  BY SentAddsNew DEF Reload, SendPoll
<1>2. persisted = jobId /\ persisted \in Nat
  BY DEF IInv, ResumesTheJobFollowed, JobsAreOfRuns
<1>3. new \in RequestOf({NewId({}), "none"}) /\ new.kind = "poll" /\ new.job = persisted
  BY <1>2 DEF New, RequestOf
<1> HIDE DEF new
<1>4. /\ \E T : requests' \subseteq RequestOf(T)
      /\ \A rq \in requests' : rq.kind = "poll" /\ rq.job = persisted
  BY <1>1, <1>3
<1>5. Shaped'
  BY <1>1, <1>4 DEF IInv, Shaped
<1>6. JobsAreOfRuns'
  <2>1. PICK n \in Nat : Known = 1..n /\ n + Cardinality(Unborn(requests)) <= runs
    BY DEF IInv, JobsAreOfRuns
  <2>2. Unborn(requests)' = {} /\ Known' = Known
    BY <1>1, <1>4 DEF Unborn, Known
  <2>3. Cardinality(Unborn(requests)') = 0 /\ IsFiniteSet(Unborn(requests)')
    BY <2>2, FS_EmptySet
  <2>4. Cardinality(Unborn(requests)) \in Nat /\ runs \in 0..MaxRuns
    BY FS_CardinalityType DEF IInv, JobsAreOfRuns
  <2>5. n + Cardinality(Unborn(requests)') <= runs'
    BY <1>1, <2>1, <2>3, <2>4, BacktestBounds
  <2> QED
    BY <1>1, <1>2, <2>1, <2>2, <2>3, <2>5 DEF IInv, JobsAreOfRuns
<1>7. /\ NoncesPast' /\ StartsAreKnown' /\ RunCarriesRequest'
      /\ LivePollsFollow' /\ ResumesTheJobFollowed' /\ Matches(jobId)' /\ Matches(result)'
  BY <1>1, <1>4 DEF NoncesPast, StartsAreKnown, RunCarriesRequest, LivePollsFollow,
                    ResumesTheJobFollowed, Matches
<1> QED
  BY <1>5, <1>6, <1>7 DEF IInv

\* The server's own steps change the status of its jobs.
LEMMA ServerStep ==
  ASSUME IInv, NEW j, ServerRuns(j)
  PROVE  IInv'
<1>1. Known' = Known /\ \A k \in Known : server'[k] \in Status
  BY DEF ServerRuns, IInv, JobsAreOfRuns, Known, Status, Finished
<1>2. UNCHANGED <<jobId, loading, result, nonce, persisted, requests, form, runs>>
  BY DEF ServerRuns, ui, bounds
<1>3. /\ \E T : requests' \subseteq RequestOf(T)
      /\ loading' \in BOOLEAN /\ persisted' = jobId'
      /\ \A rq \in requests' : rq.kind # "poll" => rq \in requests
      /\ \A rq \in requests' : rq.kind = "poll" /\ rq.live => rq.job = jobId'
  BY <1>2 DEF IInv, Shaped, LivePollsFollow, ResumesTheJobFollowed
<1> QED
  BY <1>1, <1>2, <1>3, FollowsOn

\* A start that is answered is one of an unborn run, which has its job from now on.
LEMMA BirthStep ==
  ASSUME IInv, NEW rq \in requests, rq.kind = "start", rq.answer = "none",
         NEW n \in Nat, Known = 1..n, Known' = 1..(n + 1), DOMAIN jobOf' = Known',
         \A j \in Known : jobOf'[j] = jobOf[j], \A j \in Known' : server'[j] \in Status,
         NEW new, requests' = (requests \ {rq}) \cup {new}, \E T : requests' \subseteq RequestOf(T),
         new.kind = "start", new.answer = "pending", new.job = n + 1, new.nonce = rq.nonce,
         new.of = rq.of, jobOf'[n + 1] = rq.of,
         UNCHANGED <<ui, request, baselineRequest, unmatched, runs>>
  PROVE  IInv'
<1>1. n + 1 \in Known' /\ \A j \in Known : j \in Known'
  OBVIOUS
<1>2. Shaped'
  BY DEF IInv, Shaped, ui
<1>3. JobsAreOfRuns'
  <2>1. rq \in Unborn(requests) /\ IsFiniteSet(Unborn(requests))
    BY DEF Unborn, IInv, JobsAreOfRuns
  <2>2. \A other \in Unborn(requests') : other \in requests \ {rq}
    BY DEF Unborn
  <2>3. /\ IsFiniteSet(Unborn(requests'))
        /\ Cardinality(Unborn(requests')) \in Nat /\ Cardinality(Unborn(requests)) \in Nat
        /\ Cardinality(Unborn(requests')) + 1 <= Cardinality(Unborn(requests))
    BY <2>1, <2>2, UnbornLeaves
  <2>4. runs \in 0..MaxRuns /\ runs' = runs
    BY DEF IInv, JobsAreOfRuns
  <2>5. PICK m \in Nat : Known = 1..m /\ m + Cardinality(Unborn(requests)) <= runs
    BY DEF IInv, JobsAreOfRuns
  <2>6. m = n
    BY <2>5
  <2>7. (n + 1) + Cardinality(Unborn(requests')) <= runs'
    BY <2>3, <2>4, <2>5, <2>6, BacktestBounds
  <2>8. Unborn(requests)' = Unborn(requests')
    BY DEF Unborn
  <2>9. {jobId, result}' \subseteq Known' \cup {0}
    BY <1>1 DEF IInv, JobsAreOfRuns, ui
  <2>10. /\ runs' \in 0..MaxRuns /\ IsFiniteSet(Unborn(requests)')
         /\ \E k \in Nat : Known' = 1..k /\ k + Cardinality(Unborn(requests)') <= runs'
    <3> DEFINE next == n + 1
    <3>1. next \in Nat /\ Known' = 1..next /\ next + Cardinality(Unborn(requests)') <= runs'
      BY <2>7, <2>8
    <3> HIDE DEF next
    <3> QED
      BY <2>3, <2>4, <2>8, <3>1
  <2> QED
    BY <2>9, <2>10 DEF JobsAreOfRuns
<1>4. NoncesPast' /\ StartsAreKnown' /\ RunCarriesRequest' /\ LivePollsFollow'
  <2> SUFFICES ASSUME NEW other \in requests'
               PROVE  /\ other.kind # "poll" => other.nonce <= nonce
                      /\ other.kind = "start" /\ other.answer # "none" =>
                           other.job \in Known' /\ jobOf'[other.job] = other.of
                      /\ other.kind # "poll" /\ other.nonce = nonce =>
                           baselineRequest \in {0, other.of} \/ unmatched = Jobs
                      /\ other.kind = "poll" /\ other.live => other.job = jobId
    BY DEF NoncesPast, StartsAreKnown, RunCarriesRequest, LivePollsFollow, ui
  <2>1. CASE other = new
    BY <1>1, <2>1 DEF IInv, NoncesPast, RunCarriesRequest
  <2>2. CASE other \in requests
    BY <1>1, <2>2 DEF IInv, NoncesPast, StartsAreKnown, RunCarriesRequest, LivePollsFollow
  <2> QED
    BY <2>1, <2>2
<1>5. ResumesTheJobFollowed' /\ Matches(jobId)' /\ Matches(result)'
  BY DEF IInv, ResumesTheJobFollowed, Matches, JobsAreOfRuns, ui
<1> QED
  BY <1>2, <1>3, <1>4, <1>5 DEF IInv

\* The other answers leave the server's jobs and what a request is for.
LEMMA OtherAnswerStep ==
  ASSUME IInv, NEW rq \in requests, rq.kind \in {"cancel", "poll"}, NEW new,
         requests' = (requests \ {rq}) \cup {new}, \E T : requests' \subseteq RequestOf(T),
         new.kind = rq.kind, new.job = rq.job, new.nonce = rq.nonce, new.of = rq.of,
         new.live = rq.live,
         Known' = Known, \A j \in Known : server'[j] \in Status,
         UNCHANGED <<ui, form, runs>>
  PROVE  IInv'
<1>1. /\ IsFiniteSet(Unborn(requests'))
      /\ Cardinality(Unborn(requests')) <= Cardinality(Unborn(requests))
  <2>1. IsFiniteSet(Unborn(requests))
    BY DEF IInv, JobsAreOfRuns
  <2>2. CASE rq.kind = "poll"
    <3>1. \A other \in requests' : other.kind # "poll" => other \in requests
      BY <2>2
    <3> QED
      BY <2>1, <3>1, UnbornShrinks
  <2>3. CASE rq.kind = "cancel"
    <3>1. rq \in Unborn(requests) /\ \A other \in Unborn(requests \ {rq}) : other \in requests \ {rq}
      BY <2>3 DEF Unborn
    <3>2. /\ IsFiniteSet(Unborn(requests \ {rq}))
          /\ Cardinality(Unborn(requests \ {rq})) \in Nat /\ Cardinality(Unborn(requests)) \in Nat
          /\ Cardinality(Unborn(requests \ {rq})) + 1 <= Cardinality(Unborn(requests))
      BY <2>1, <3>1, UnbornLeaves
    <3>3. \A other \in requests' : other.kind # "poll" => other \in (requests \ {rq}) \cup {new}
      OBVIOUS
    <3>4. /\ IsFiniteSet(Unborn(requests')) /\ Cardinality(Unborn(requests')) \in Nat
          /\ Cardinality(Unborn(requests')) <= Cardinality(Unborn(requests \ {rq})) + 1
      BY <3>2, <3>3, UnbornGrows
    <3> QED
      BY <3>2, <3>4
  <2> QED
    BY <2>2, <2>3
<1>2. /\ \A other \in requests' : other.kind # "poll" =>
           \E old \in requests :
             /\ old.kind # "poll" /\ other.nonce = old.nonce /\ other.of = old.of
             /\ other.kind = "start" /\ other.answer # "none" => other = old
      /\ \A other \in requests' : other.kind = "poll" /\ other.live => other.job = jobId
  <2> SUFFICES ASSUME NEW other \in requests'
               PROVE  /\ other.kind # "poll" =>
                           \E old \in requests :
                             /\ old.kind # "poll" /\ other.nonce = old.nonce /\ other.of = old.of
                             /\ other.kind = "start" /\ other.answer # "none" => other = old
                      /\ other.kind = "poll" /\ other.live => other.job = jobId
    OBVIOUS
  <2>1. CASE other \in requests
    BY <2>1 DEF IInv, LivePollsFollow
  <2>2. CASE other = new
    BY <2>2 DEF IInv, LivePollsFollow
  <2> QED
    BY <2>1, <2>2
<1>3. /\ UNCHANGED <<jobId, loading, result, nonce, persisted>>
      /\ jobId \in Known \cup {0} /\ loading \in BOOLEAN /\ persisted = jobId
      /\ jobId # 0 /\ jobId \notin unmatched /\ baselineRequest # 0 => jobOf[jobId] = baselineRequest
  BY DEF ui, IInv, JobsAreOfRuns, Shaped, ResumesTheJobFollowed, Matches
<1> QED
  BY <1>1, <1>2, <1>3, FollowUp
\* The server's answers are one of these.
LEMMA ServerAnswerStep ==
  ASSUME IInv, NEW i, ServerAnswers(i)
  PROVE  IInv'
<1>1. UNCHANGED <<ui, request, baselineRequest, unmatched, runs>>
  BY DEF ServerAnswers, bounds
<1>2. PICK S : requests \subseteq RequestOf(S)
  BY DEF IInv, Shaped
<1>3. PICK rq \in requests :
        /\ rq.answer = "none"
        /\ \/ /\ rq.kind = "start"
              /\ server' = [j \in 1..(Cardinality(Known) + 1) |->
                              IF j \in Known THEN server[j] ELSE "pending"]
              /\ requests' = (requests \ {rq}) \cup
                   {[rq EXCEPT !.job = Cardinality(Known) + 1, !.answer = "pending"]}
              /\ jobOf' = [j \in DOMAIN server' |-> IF j \in Known THEN jobOf[j] ELSE rq.of]
           \/ /\ rq.kind \in {"cancel", "poll"}
              /\ \/ rq.kind = "cancel" /\ server' = IF server[rq.job] \in Finished THEN server
                                                    ELSE [server EXCEPT ![rq.job] = "cancelled"]
                 \/ server' = server
              /\ \E answer \in {"cancelled", server[rq.job]} :
                   /\ answer = "cancelled" \/ rq.kind = "poll"
                   /\ requests' = (requests \ {rq}) \cup {[rq EXCEPT !.answer = answer]}
              /\ UNCHANGED jobOf
  BY DEF ServerAnswers, Known
<1>4. rq \in RequestOf(S)
  BY <1>2
<1>5. CASE rq.kind = "start"
  <2>1. PICK n \in Nat : Known = 1..n
    BY DEF IInv, JobsAreOfRuns
  <2> DEFINE new == [rq EXCEPT !.job = n + 1, !.answer = "pending"]
  <2>2. Cardinality(Known) = n
    BY <2>1, FS_Interval
  <2>3. /\ new \in RequestOf(S \cup {"pending"})
        /\ new.kind = "start" /\ new.answer = "pending" /\ new.job = n + 1
        /\ new.nonce = rq.nonce /\ new.of = rq.of
    <3>1. PICK job \in Nat : job = n + 1
      OBVIOUS
    <3>2. PICK a : a = "pending"
      OBVIOUS
    <3>3. LET answered == [rq EXCEPT !.job = job, !.answer = a] IN
          /\ answered \in RequestOf(S \cup {a})
          /\ answered.kind = rq.kind /\ answered.answer = a /\ answered.job = job
          /\ answered.nonce = rq.nonce /\ answered.of = rq.of
      BY <1>4 DEF RequestOf
    <3>4. new = [rq EXCEPT !.job = job, !.answer = a]
      BY <3>1, <3>2
    <3> HIDE DEF new
    <3> QED
      BY <1>5, <3>1, <3>2, <3>3, <3>4
  <2>4. /\ server' = [j \in 1..(n + 1) |-> IF j \in Known THEN server[j] ELSE "pending"]
        /\ jobOf' = [j \in DOMAIN server' |-> IF j \in Known THEN jobOf[j] ELSE rq.of]
        /\ requests' = (requests \ {rq}) \cup {new}
    BY <1>3, <1>5, <2>2
  <2> HIDE DEF new
  <2>5. Known' = 1..(n + 1) /\ DOMAIN jobOf' = Known'
    BY <2>4 DEF Known
  <2>6. n + 1 \notin Known /\ n + 1 \in 1..(n + 1) /\ \A j \in Known : j \in 1..(n + 1)
    BY <2>1
  <2>7. /\ \A j \in Known : jobOf'[j] = jobOf[j]
        /\ \A j \in Known' : server'[j] \in Status
        /\ jobOf'[n + 1] = rq.of
    BY <2>4, <2>5, <2>6 DEF Known, IInv, JobsAreOfRuns, Status
  <2>8. requests \subseteq RequestOf(S \cup {"pending"})
    BY <1>2, ShapeWidens
  <2>9. \E T : requests' \subseteq RequestOf(T)
    BY <2>3, <2>4, <2>8
  <2>10. rq.answer = "none" /\ requests' = (requests \ {rq}) \cup {new}
    BY <1>3, <2>4
  <2> QED
    BY <1>1, <1>5, <2>1, <2>3, <2>5, <2>7, <2>9, <2>10, BirthStep
<1>6. CASE rq.kind \in {"cancel", "poll"}
  <2>1. PICK answer : requests' = (requests \ {rq}) \cup {[rq EXCEPT !.answer = answer]}
    BY <1>3, <1>6
  <2> DEFINE new == [rq EXCEPT !.answer = answer]
  <2>2. /\ new \in RequestOf(S \cup {answer})
        /\ new.kind = rq.kind /\ new.job = rq.job /\ new.nonce = rq.nonce /\ new.of = rq.of
        /\ new.live = rq.live
    BY <1>4 DEF RequestOf
  <2>3. requests' = (requests \ {rq}) \cup {new}
    BY <2>1
  <2> HIDE DEF new
  <2>4. requests \subseteq RequestOf(S \cup {answer})
    BY <1>2, ShapeWidens
  <2>5. \E T : requests' \subseteq RequestOf(T)
    BY <2>2, <2>3, <2>4
  <2>6. /\ server' \in {server, [server EXCEPT ![rq.job] = "cancelled"]}
        /\ UNCHANGED jobOf
    BY <1>3, <1>6
  <2>7. Known' = Known /\ \A j \in Known : server'[j] \in Status
    BY <2>6 DEF Known, IInv, JobsAreOfRuns, Status, Finished
  <2>8. UNCHANGED <<ui, form, runs>>
    BY <1>1, <2>6 DEF form
  <2> QED
    BY <1>6, <2>2, <2>3, <2>5, <2>7, <2>8, OtherAnswerStep
<1> QED
  BY <1>3, <1>5, <1>6
-----------------------------------------------------------------------------
(* The invariant                                                           *)

\* Nothing has run, and no job is known.
LEMMA InitIInv == Init => IInv
<1> SUFFICES ASSUME Init PROVE IInv
  OBVIOUS
<1>1. /\ requests = {} /\ jobId = 0 /\ result = 0 /\ nonce = 0 /\ persisted = 0 /\ loading = FALSE
      /\ request = 1 /\ baselineRequest = 0 /\ runs = 0 /\ Known = 1..0 /\ DOMAIN jobOf = Known
  BY DEF Init, Known
<1>2. Shaped
  BY <1>1 DEF Shaped
<1>3. JobsAreOfRuns
  <2>1. Unborn(requests) = {}
    BY <1>1 DEF Unborn
  <2>2. IsFiniteSet(Unborn(requests)) /\ Cardinality(Unborn(requests)) = 0
    BY <2>1, FS_EmptySet
  <2>3. \A j \in Known : server[j] \in Status
    BY <1>1
  <2> QED
    BY <1>1, <2>2, <2>3, BacktestBounds DEF JobsAreOfRuns
<1> QED
  BY <1>1, <1>2, <1>3 DEF IInv, NoncesPast, StartsAreKnown, RunCarriesRequest, LivePollsFollow,
                          ResumesTheJobFollowed, Matches

\* Every step keeps the invariant.
LEMMA StepIInv == IInv /\ [Next]_vars => IInv'
<1> SUFFICES ASSUME IInv, [Next]_vars PROVE IInv'
  OBVIOUS
<1>1. CASE \E of \in {request, Aligned} : RunBacktest(of) \/ RunRefused(of)
  BY <1>1, RunStep, RefusedStep
<1>2. CASE Edit \/ Reset \/ Reload
  BY <1>2, EditStep, ResetStep, ReloadStep
<1>3. CASE \E j \in Jobs : ServerRuns(j)
  BY <1>3, ServerStep
<1>4. CASE \E i \in Ids : ServerAnswers(i) \/ AnswerArrives(i) \/ RequestFails(i)
  BY <1>4, ServerAnswerStep, AnswerStep, FailureStep
<1>5. CASE PollTimerFires \/ Resume \/ ConnectTimeout \/ StreamBreaks
  <2>1. \E t : Poll(t)
    BY <1>5 DEF PollTimerFires, Resume, ConnectTimeout, StreamBreaks
  <2> QED
    BY <2>1, PollStep
<1>6. CASE StreamOpens
  BY <1>6, QuietStep DEF StreamOpens, bounds
<1>7. CASE StreamUpdates
  BY <1>7, StatusStep DEF StreamUpdates, bounds
<1>8. CASE UNCHANGED vars
  BY <1>8, QuietStep DEF vars, ui, bounds
<1> QED
  BY <1>1, <1>2, <1>3, <1>4, <1>5, <1>6, <1>7, <1>8 DEF Next

\* The invariant holds always.
LEMMA InvariantIInv == Spec => []IInv
<1> QED
  BY InitIInv, StepIInv, PTL DEF Spec

\* What a reload resumes is the job the page follows, and the request kept for the file with a result
\* is the one the result was computed for, whatever is edited, run, refused, cancelled or reset while
\* answers are under way.
THEOREM PagesAreOfTheirRuns == Spec => []PageIsOfItsRun
<1>1. IInv => PageIsOfItsRun
  BY DEF IInv, PageIsOfItsRun, ExportIsOfItsRequest, ExportedRequest, Matches
<1> QED
  BY <1>1, InvariantIInv, PTL

\* A result that appears is that of the job the page has: late answers about other jobs show none.
THEOREM ResultsAreOfTheirJobs == Spec => ResultIsOfTheJob
<1>1. IInv /\ [Next]_vars => [result' \in {result, 0, jobId}]_vars
  <2> SUFFICES ASSUME IInv, Next PROVE result' \in {result, 0, jobId}
    BY DEF vars, ui
  <2>1. CASE \E of \in {request, Aligned} : RunBacktest(of) \/ RunRefused(of)
    BY <2>1 DEF RunBacktest, RunRefused, ResultOfNewRun, ui
  <2>2. CASE Edit \/ Reset \/ Reload
    BY <2>2 DEF Edit, Reset, Reload, ui
  <2>3. CASE \E j \in Jobs : ServerRuns(j)
    BY <2>3 DEF ServerRuns, ui
  <2>4. CASE \E i \in Ids : ServerAnswers(i)
    BY <2>4 DEF ServerAnswers, ui
  <2>5. CASE \E i \in Ids : AnswerArrives(i)
    <3>1. PICK rq \in requests : CancelReturns(rq) \/ StartReturns(rq) \/ PollReturns(rq)
      BY <2>5 DEF AnswerArrives
    <3>2. rq.kind = "poll" /\ rq.live => rq.job = jobId
      BY DEF IInv, LivePollsFollow
    <3> QED
      BY <3>1, <3>2 DEF CancelReturns, StartReturns, PollReturns, ApplyStatus
  <2>6. CASE \E i \in Ids : RequestFails(i)
    BY <2>6 DEF RequestFails, CancelReturns
  <2>7. CASE PollTimerFires \/ Resume \/ ConnectTimeout \/ StreamBreaks \/ StreamOpens
    BY <2>7 DEF PollTimerFires, Resume, ConnectTimeout, StreamBreaks, StreamOpens, Poll
  <2>8. CASE StreamUpdates
    BY <2>8 DEF StreamUpdates, ApplyStatus
  <2> QED
    BY <2>1, <2>2, <2>3, <2>4, <2>5, <2>6, <2>7, <2>8 DEF Next
<1> QED
  BY <1>1, InvariantIInv, PTL DEF Spec, ResultIsOfTheJob

=============================================================================
