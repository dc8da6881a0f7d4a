--------------------------- MODULE Workspace_proofs ---------------------------
(***************************************************************************)
(* What the workspace keeps to for any number of jobs, calls, pages,       *)
(* failures and actions of the user, and the feed of the notification      *)
(* centre for any number of items, records, requests and lost answers.     *)
(***************************************************************************)
EXTENDS Workspace, OperationFeedback, FiniteSetTheorems, WellFoundedInduction, TLAPS

Starter(c) == c.kind \in {"start", "started"}

\* The button is locked exactly while a start is under way, and there is one start at most: the
\* button of the second is locked.
Kinds == {"start", "started", "cancel", "cancelled", "load", "restart", "restarted"}
IsCall(c) == c \in [id : {c.id}, kind : Kinds, job : {c.job}]
StartInv ==
  /\ starting \in BOOLEAN
  /\ StartingIsExact
  /\ \A c \in calls : IsCall(c)
  /\ \A c, d \in calls : Starter(c) /\ Starter(d) => c = d

\* A call that begins.
LEMMA NewCall ==
  ASSUME NEW kind \in Kinds, NEW j, Called(kind, j)
  PROVE  \E c : calls' = calls \cup {c} /\ IsCall(c) /\ c.kind = kind
<1> DEFINE c == [id |-> NewId, kind |-> kind, job |-> j]
<1>1. calls' = calls \cup {c}
  BY DEF Called
<1>2. IsCall(c) /\ c.kind = kind
  BY DEF IsCall
<1> QED BY <1>1, <1>2

\* A call that goes on.
LEMMA NextCall ==
  ASSUME NEW c, IsCall(c), NEW kind \in Kinds, NEW j, Goes(c, kind, j)
  PROVE  \E d : calls' = (calls \ {c}) \cup {d} /\ IsCall(d) /\ d.kind = kind
<1> DEFINE d == [c EXCEPT !.kind = kind, !.job = j]
<1>1. calls' = (calls \ {c}) \cup {d}
  BY DEF Goes
<1>2. c \in [id : {c.id}, kind : Kinds, job : {c.job, j}]
  BY DEF IsCall
<1>3. d \in [id : {c.id}, kind : Kinds, job : {c.job, j}] /\ d.kind = kind
  BY <1>2
<1>4. IsCall(d)
  BY <1>3 DEF IsCall
<1> QED BY <1>1, <1>3, <1>4

\* What neither starts nor ends a start.
LEMMA OthersKeepInv ==
  ASSUME StartInv, starting' = starting,
         \A c \in calls' : IsCall(c) /\ (Starter(c) => c \in calls),
         \A c \in calls : Starter(c) => c \in calls'
  PROVE  StartInv'
BY DEF StartInv, StartingIsExact, Starter

\* A call that is not a start begins, goes on or ends.
LEMMA BeginKeepsInv ==
  ASSUME StartInv, starting' = starting, NEW kind \in Kinds, NEW j, Called(kind, j),
         kind \notin {"start", "started"}
  PROVE  StartInv'
BY NewCall, OthersKeepInv DEF StartInv, Starter

LEMMA GoOnKeepsInv ==
  ASSUME StartInv, starting' = starting, NEW c \in calls, ~Starter(c),
         NEW kind \in Kinds, NEW j, Goes(c, kind, j), kind \notin {"start", "started"}
  PROVE  StartInv'
<1>1. PICK d : calls' = (calls \ {c}) \cup {d} /\ IsCall(d) /\ d.kind = kind
  BY NextCall DEF StartInv
<1> QED BY <1>1, OthersKeepInv DEF StartInv, Starter

LEMMA EndKeepsInv ==
  ASSUME StartInv, starting' = starting, NEW c \in calls, ~Starter(c), calls' = calls \ {c}
  PROVE  StartInv'
BY OthersKeepInv DEF StartInv

LEMMA StartKeepsInv == ASSUME StartInv, Start PROVE StartInv'
<1>1. ~starting /\ starting'
  BY DEF Start, Running, StartInv
<1>2. PICK c : calls' = calls \cup {c} /\ IsCall(c) /\ c.kind = "start"
  BY NewCall DEF Start, Kinds
<1>3. \A d \in calls : ~Starter(d)
  BY <1>1 DEF StartInv, StartingIsExact, Starter
<1> QED BY <1>1, <1>2, <1>3 DEF StartInv, StartingIsExact, Starter

\* The start of a job is answered: its call goes on as another.
LEMMA StartedKeepsInv == ASSUME StartInv, Started PROVE StartInv'
<1>1. PICK c \in calls : c.kind = "start" /\ Goes(c, "started", Len(jobs) + 1)
  BY DEF Started
<1>2. PICK d : calls' = (calls \ {c}) \cup {d} /\ IsCall(d) /\ d.kind = "started"
  BY <1>1, NextCall DEF StartInv, Kinds
<1>3. \A e \in calls : Starter(e) => e = c
  BY <1>1 DEF StartInv, Starter
<1>4. starting' = starting /\ starting
  BY <1>1 DEF Started, StartInv, StartingIsExact
<1> QED BY <1>2, <1>3, <1>4 DEF StartInv, StartingIsExact, Starter

\* The one start ends.
LEMMA StartDoneKeepsInv == ASSUME StartInv, StartDone PROVE StartInv'
<1>1. PICK c \in calls : c.kind = "started" /\ calls' = calls \ {c}
  BY DEF StartDone
<1>2. \A d \in calls' : IsCall(d) /\ ~Starter(d)
  BY <1>1 DEF StartInv, Starter
<1>3. starting' = FALSE
  BY DEF StartDone
<1> QED BY <1>1, <1>2, <1>3 DEF StartInv, StartingIsExact, Starter

LEMMA CallFailsKeepsInv == ASSUME StartInv, CallFails PROVE StartInv'
<1>1. PICK c \in calls : /\ c.kind \notin {"started", "restarted"}
                         /\ calls' = calls \ {c} /\ starting' = StartingAfter(c)
  BY DEF CallFails
<1>2. CASE c.kind = "start"
  <2>1. \A d \in calls' : IsCall(d) /\ ~Starter(d)
    BY <1>1, <1>2 DEF StartInv, Starter
  <2>2. starting' = FALSE
    BY <1>1, <1>2 DEF StartingAfter
  <2> QED BY <1>1, <2>1, <2>2 DEF StartInv, StartingIsExact, Starter
<1>3. CASE c.kind # "start"
  <2>1. starting' = starting /\ ~Starter(c)
    BY <1>1, <1>3 DEF StartingAfter, Starter
  <2> QED BY <1>1, <2>1, EndKeepsInv
<1> QED BY <1>2, <1>3

LEMMA StepStartInv == StartInv /\ [Next]_vars => StartInv'
<1> SUFFICES ASSUME StartInv, [Next]_vars PROVE StartInv'
  OBVIOUS
<1>1. CASE \/ ChangeWorkspace \/ ChangeParameters \/ ChangeTab \/ Resize
           \/ RunBacktest \/ ApplyRow \/ ApplyLive \/ Track \/ ChangePage \/ JobEnds
  <2>1. UNCHANGED <<calls, starting>>
    BY <1>1 DEF ChangeWorkspace, ChangeParameters, ChangeTab, Resize, RunBacktest, ApplyRow,
                ApplyLive, Track, ChangePage, JobEnds
  <2> QED BY <2>1 DEF StartInv, StartingIsExact
<1>2. CASE Cancel
  BY <1>2, BeginKeepsInv DEF Cancel, Kinds
<1>3. CASE Load
  BY <1>3, BeginKeepsInv DEF Load, Kinds
<1>4. CASE Restart
  BY <1>4, BeginKeepsInv DEF Restart, Kinds
<1>5. CASE Cancelled
  BY <1>5, GoOnKeepsInv DEF Cancelled, Starter, Kinds
<1>6. CASE Restarted
  BY <1>6, GoOnKeepsInv DEF Restarted, Starter, Kinds
<1>7. CASE CancelShown
  BY <1>7, EndKeepsInv DEF CancelShown, Starter
<1>8. CASE LoadDone
  BY <1>8, EndKeepsInv DEF LoadDone, Starter
<1>9. CASE RestartDone
  BY <1>9, EndKeepsInv DEF RestartDone, Starter
<1>10. CASE Reload
  BY <1>10 DEF Reload, StartInv, StartingIsExact
<1>11. CASE UNCHANGED vars
  BY <1>11 DEF vars, StartInv, StartingIsExact
<1> QED BY <1>1, <1>2, <1>3, <1>4, <1>5, <1>6, <1>7, <1>8, <1>9, <1>10, <1>11,
           StartKeepsInv, StartedKeepsInv, StartDoneKeepsInv, CallFailsKeepsInv DEF Next

\* The start button is locked exactly while a start is under way.
THEOREM StartingExact == Spec => []StartingIsExact
<1>1. Init => StartInv
  BY DEF Init, StartInv, StartingIsExact
<1>2. StartInv => StartingIsExact
  BY DEF StartInv
<1> QED BY <1>1, <1>2, StepStartInv, PTL DEF Spec

\* Only the late answer to the cancellation of another job shows a status that is not of the job
\* followed.
THEOREM ShownStaysTheJobs == Spec => ShownIsTheJobs
<1> DEFINE Excused == \E c \in calls \ calls' : c.kind = "cancelled" /\ c.job # job
<1>1. [Next]_vars => (Agree => Agree' \/ Excused)
  <2> SUFFICES ASSUME [Next]_vars, Agree PROVE Agree' \/ Excused
    OBVIOUS
  <2>1. CASE UNCHANGED <<job, shown>>
    BY <2>1 DEF Agree
  <2>2. CASE Started
    BY <2>2 DEF Started, Follows, Agree
  <2>3. CASE CancelShown
    <3>1. PICK c \in calls : /\ c.kind = "cancelled" /\ calls' = calls \ {c}
                             /\ job' = job /\ shown' = StatusNow(c.job)
      BY <2>3 DEF CancelShown, Follows
    <3>2. c.job = job => Agree'
      BY <3>1 DEF Agree, StatusNow
    <3> QED BY <3>1, <3>2
  <2>4. CASE LoadDone
    BY <2>4 DEF LoadDone, Loaded, Follows, StatusNow, Agree
  <2>5. CASE Restarted
    BY <2>5 DEF Restarted, Follows, Agree
  <2>6. CASE Track
    BY <2>6 DEF Track, StatusNow, Agree
  <2>7. CASE Reload
    BY <2>7 DEF Reload, Resumed, Follows, Agree
  <2>8. [Next]_vars => \/ Started \/ CancelShown \/ LoadDone \/ Restarted \/ Track \/ Reload
                       \/ UNCHANGED <<job, shown>>
    BY DEF Next, vars, followed, ChangeWorkspace, ChangeParameters, ChangeTab, Resize, RunBacktest,
           ApplyRow, ApplyLive, Start, StartDone, Cancel, Cancelled, Load, Restart, RestartDone,
           CallFails, ChangePage, JobEnds
  <2> QED BY <2>1, <2>2, <2>3, <2>4, <2>5, <2>6, <2>7, <2>8
<1> QED BY <1>1, PTL DEF Spec, ShownIsTheJobs

\* The form stays in the mode of the workspace through every step but a change of the screen.
THEOREM FormFollows == Spec => FormFollowsWorkspace
<1>1. [Next]_vars => (ModesAgree => ModesAgree' \/ phone' # phone)
  <2> SUFFICES ASSUME [Next]_vars, ModesAgree PROVE ModesAgree' \/ phone' # phone
    OBVIOUS
  <2>1. CASE UNCHANGED modes
    BY <2>1 DEF modes, ModesAgree
  <2>2. CASE RunBacktest \/ Start \/ StartDone \/ LoadDone \/ RestartDone
    BY <2>2 DEF RunBacktest, Start, StartDone, LoadDone, RestartDone, Enter, ModesAgree
  <2>3. CASE ChangeWorkspace \/ ApplyRow \/ ApplyLive \/ Reload
    BY <2>3 DEF ChangeWorkspace, ApplyRow, ApplyLive, Reload, ModesAgree
  <2>4. CASE ChangeParameters \/ ChangeTab
    BY <2>4 DEF ChangeParameters, ChangeTab, TabMode, ModesAgree
  <2>5. CASE Resize
    BY <2>5 DEF Resize, ModesAgree
  <2>6. CASE \/ Started \/ Cancel \/ Cancelled \/ CancelShown \/ Load \/ Restart \/ Restarted
             \/ CallFails \/ Track \/ ChangePage \/ JobEnds \/ UNCHANGED vars
    <3>1. UNCHANGED modes
      BY <2>6 DEF Started, Cancel, Cancelled, CancelShown, Load, Restart, Restarted, CallFails,
                  Track, ChangePage, JobEnds, vars, modes
    <3> QED BY <2>1, <3>1
  <2> QED BY <2>2, <2>3, <2>4, <2>5, <2>6 DEF Next
<1> QED BY <1>1, PTL DEF Spec, FormFollowsWorkspace

-----------------------------------------------------------------------------
(* OperationFeedback: lists.                                               *)

InOrder(s) ==
  \A j, k \in DOMAIN s : j < k => s[j].id # s[k].id /\ s[j].created >= s[k].created
IsFeed(s) == s \in Seq(Item) /\ InOrder(s) /\ Len(s) <= MaxItems

\* A set of numbers that is not empty has a least one.
LEMMA LeastNat ==
  ASSUME NEW T \in SUBSET Nat, T # {}
  PROVE  \E m \in T : \A k \in T : m <= k
<1>1. PICK R : R = {ss \in Nat \X Nat : ss[1] < ss[2]}
  OBVIOUS
<1>2. IsWellFoundedOn(R, Nat)
  BY <1>1, NatLessThanWellFounded DEF OpToRel
<1>3. PICK m \in T : \A y \in T : ~(<<y, m>> \in R)
  BY <1>2, WFMin
<1>4. ASSUME NEW k \in T PROVE m <= k
  <2>1. ~(<<k, m>> \in R)
    BY <1>3
  <2>2. ~(k < m)
    BY <1>1, <2>1
  <2> QED BY <2>2
<1> QED BY <1>4

IsOrder(D, R) ==
  /\ \A a \in D : <<a, a>> \notin R
  /\ \A a, b \in D : a # b => <<a, b>> \in R \/ <<b, a>> \in R
  /\ \A a, b, c \in D : <<a, b>> \in R /\ <<b, c>> \in R => <<a, c>> \in R

\* The last element of a finite set: the one with the fewest after it.
LEMMA LastOf ==
  ASSUME NEW D, IsFiniteSet(D), D # {}, NEW R, IsOrder(D, R)
  PROVE  \E u \in D : \A v \in D : <<u, v>> \notin R
<1> DEFINE After(u) == {v \in D : <<u, v>> \in R}
<1>1. ASSUME NEW u \in D PROVE IsFiniteSet(After(u)) /\ Cardinality(After(u)) \in Nat
  <2>1. After(u) \in SUBSET D
    OBVIOUS
  <2> HIDE DEF After
  <2> QED BY <2>1, FS_Subset, FS_CardinalityType
<1>2. PICK C : C = {Cardinality(After(u)) : u \in D}
  OBVIOUS
<1>3. C \in SUBSET Nat /\ C # {}
  <2> HIDE DEF After
  <2> QED BY <1>1, <1>2
<1>4. PICK m \in C : \A n \in C : m <= n
  BY <1>3, LeastNat
<1>5. PICK u \in D : m = Cardinality(After(u))
  BY <1>2
<1>6. ASSUME NEW v \in D, <<u, v>> \in R PROVE FALSE
  <2>1. After(v) \in SUBSET After(u)
    BY <1>6 DEF IsOrder
  <2>2. v \in After(u) /\ v \notin After(v)
    BY <1>6 DEF IsOrder
  <2> HIDE DEF After
  <2>3. /\ Cardinality(After(v)) <= Cardinality(After(u))
        /\ Cardinality(After(u)) = Cardinality(After(v)) => After(u) = After(v)
    BY <1>1, <2>1, FS_Subset
  <2>4. Cardinality(After(u)) <= Cardinality(After(v))
    BY <1>2, <1>4, <1>5
  <2> QED BY <1>1, <2>2, <2>3, <2>4
<1> QED BY <1>6

Ranges(D, R, n) == {f \in [1 .. n -> D] : \A j, k \in DOMAIN f : j < k => <<f[j], f[k]>> \in R}

\* A finite set has its elements in order.
LEMMA ArrangedIs ==
  ASSUME NEW D, IsFiniteSet(D), NEW R, IsOrder(D, R)
  PROVE  /\ Cardinality(D) \in Nat
         /\ Arranged(D, R) \in Ranges(D, R, Cardinality(D))
<1> DEFINE Bad(n) == \E U \in SUBSET D :
                       IsFiniteSet(U) /\ Cardinality(U) = n /\ Ranges(U, R, n) = {}
<1>1. PICK T : T = {n \in Nat : Bad(n)}
  OBVIOUS
<1>2. T = {}
  <2> SUFFICES ASSUME T # {} PROVE FALSE
    OBVIOUS
  <2>1. PICK n \in T : \A m \in T : n <= m
    <3>1. T \in SUBSET Nat
      BY <1>1
    <3> QED BY <3>1, LeastNat
  <2>2. n \in Nat /\ Bad(n)
    BY <1>1
  <2>3. PICK U \in SUBSET D : IsFiniteSet(U) /\ Cardinality(U) = n /\ Ranges(U, R, n) = {}
    BY <2>2
  <2>4. CASE n = 0
    <3>1. PICK f : f = [i \in 1 .. 0 |-> 0]
      OBVIOUS
    <3>2. f \in Ranges(U, R, 0)
      BY <3>1 DEF Ranges
    <3> QED BY <2>3, <2>4, <3>2
  <2>5. CASE n # 0
    <3>1. U # {}
      BY <2>3, <2>5, FS_EmptySet
    <3>2. IsOrder(U, R)
      BY DEF IsOrder
    <3>3. PICK u \in U : \A v \in U : <<u, v>> \notin R
      BY <2>3, <3>1, <3>2, LastOf
    <3>4. PICK W : W = U \ {u}
      OBVIOUS
    <3>5. PICK p : p = n - 1
      OBVIOUS
    <3>6. p \in Nat /\ p < n /\ n = p + 1
      BY <2>2, <2>5, <3>5
    <3>7. W \in SUBSET D /\ IsFiniteSet(W) /\ Cardinality(W) = p
      <4>1. IsFiniteSet(U \ {u}) /\ Cardinality(U \ {u}) = Cardinality(U) - 1
        BY <2>3, FS_RemoveElement
      <4> QED BY <2>3, <3>4, <3>5, <4>1
    <3>8. p \notin T
      BY <2>1, <2>2, <3>6
    <3>9. PICK g \in Ranges(W, R, p) : TRUE
      BY <1>1, <3>6, <3>7, <3>8
    <3>10. g \in [1 .. p -> W] /\ \A j, k \in 1 .. p : j < k => <<g[j], g[k]>> \in R
      BY <3>9 DEF Ranges
    <3>11. PICK f : f = [i \in 1 .. n |-> IF i = n THEN u ELSE g[i]]
      OBVIOUS
    <3>12. ASSUME NEW i \in 1 .. n PROVE f[i] \in U /\ (i # n => i \in 1 .. p /\ f[i] = g[i] /\ <<f[i], u>> \in R)
      <4>1. CASE i = n
        BY <3>11, <4>1
      <4>2. CASE i # n
        <5>1. i \in 1 .. p /\ f[i] = g[i]
          BY <3>6, <3>11, <4>2
        <5>2. g[i] \in U /\ g[i] # u
          BY <3>4, <3>10, <5>1
        <5>3. <<g[i], u>> \in R
          BY <3>2, <3>3, <5>2 DEF IsOrder
        <5> QED BY <5>1, <5>2, <5>3
      <4> QED BY <4>1, <4>2
    <3>13. f \in [1 .. n -> U]
      BY <3>11, <3>12
    <3>14. ASSUME NEW j \in 1 .. n, NEW k \in 1 .. n, j < k PROVE <<f[j], f[k]>> \in R
      <4>1. j # n
        BY <2>2, <3>14
      <4>2. CASE k = n
        BY <3>11, <3>12, <4>1, <4>2
      <4>3. CASE k # n
        <5>1. j \in 1 .. p /\ k \in 1 .. p /\ f[j] = g[j] /\ f[k] = g[k]
          BY <3>12, <4>1, <4>3
        <5> QED BY <3>10, <3>14, <5>1
      <4> QED BY <4>2, <4>3
    <3>15. f \in Ranges(U, R, n)
      BY <3>13, <3>14 DEF Ranges
    <3> QED BY <2>3, <3>15
  <2> QED BY <2>4, <2>5
<1>3. PICK n \in Nat : n = Cardinality(D)
  BY FS_CardinalityType
<1>4. Ranges(D, R, n) # {}
  BY <1>1, <1>2, <1>3
<1>5. Arranged(D, R) = CHOOSE f \in [1 .. n -> D] : \A j, k \in DOMAIN f : j < k => <<f[j], f[k]>> \in R
  BY <1>3 DEF Arranged
<1> QED BY <1>3, <1>4, <1>5 DEF Ranges

\* What a list has at some of its indices in order.
LEMMA AtIs ==
  ASSUME NEW s \in Seq(Item), NEW D \in SUBSET DOMAIN s, NEW R, IsOrder(D, R),
         NEW t, t = At(s, Arranged(D, R))
  PROVE  /\ t \in Seq(Item) /\ Len(t) \in Nat /\ Len(t) <= Len(s)
         /\ \E f \in Ranges(D, R, Len(t)) : \A k \in 1 .. Len(t) : t[k] = s[f[k]]
<1>1. PICK n \in Nat : n = Len(s)
  OBVIOUS
<1>2. DOMAIN s = 1 .. n /\ IsFiniteSet(1 .. n) /\ Cardinality(1 .. n) = n
  <2>1. IsFiniteSet(1 .. n) /\ Cardinality(1 .. n) = IF 1 > n THEN 0 ELSE n - 1 + 1
    <3>1. 1 \in Int /\ n \in Int
      OBVIOUS
    <3> QED BY <3>1, FS_Interval
  <2> QED BY <1>1, <2>1
<1>3. IsFiniteSet(D) /\ Cardinality(D) <= n
  BY <1>2, FS_Subset
<1>4. PICK m \in Nat : m = Cardinality(D)
  BY <1>3, FS_CardinalityType
<1>5. PICK f : f = Arranged(D, R)
  OBVIOUS
<1>6. f \in Ranges(D, R, m)
  BY <1>3, <1>4, <1>5, ArrangedIs
<1>7. f \in [1 .. m -> D]
  BY <1>6 DEF Ranges
<1>8. t = [k \in 1 .. m |-> s[f[k]]]
  BY <1>5, <1>7 DEF At
<1>9. ASSUME NEW k \in 1 .. m PROVE s[f[k]] \in Item
  BY <1>2, <1>7
<1>10. t \in Seq(Item) /\ Len(t) = m
  BY <1>8, <1>9
<1>11. Len(t) \in Nat /\ Len(t) <= Len(s)
  BY <1>1, <1>3, <1>4, <1>10
<1>12. f \in Ranges(D, R, Len(t)) /\ \A k \in 1 .. Len(t) : t[k] = s[f[k]]
  BY <1>6, <1>8, <1>10
<1> QED BY <1>10, <1>11, <1>12

\* What is kept of a list is in it, in its order.
LEMMA KeptIs ==
  ASSUME NEW s \in Seq(Item), NEW S, NEW t, t = Kept(s, S)
  PROVE  /\ t \in Seq(Item) /\ ItemsOf(t) \subseteq ItemsOf(s) \cap S /\ Len(t) <= Len(s)
         /\ InOrder(s) => InOrder(t)
<1>1. PICK D : D = {k \in DOMAIN s : s[k] \in S}
  OBVIOUS
<1>2. D \in SUBSET DOMAIN s /\ DOMAIN s \subseteq Nat
  BY <1>1
<1>3. IsOrder(D, Rising)
  <2>1. \A a, b \in D : <<a, b>> \in Rising <=> a < b
    BY <1>2 DEF Rising
  <2> QED BY <1>2, <2>1 DEF IsOrder
<1>4. t = At(s, Arranged(D, Rising))
  BY <1>1 DEF Kept
<1>5. t \in Seq(Item) /\ Len(t) \in Nat /\ Len(t) <= Len(s)
  BY <1>2, <1>3, <1>4, AtIs
<1>6. PICK f \in Ranges(D, Rising, Len(t)) : \A k \in 1 .. Len(t) : t[k] = s[f[k]]
  BY <1>2, <1>3, <1>4, AtIs
<1>7. DOMAIN t = 1 .. Len(t)
  BY <1>5
<1>8. /\ \A k \in 1 .. Len(t) : f[k] \in D
      /\ \A j, k \in 1 .. Len(t) : j < k => f[j] < f[k]
  BY <1>6 DEF Ranges, Rising
<1>9. ItemsOf(t) \subseteq ItemsOf(s) \cap S
  BY <1>1, <1>6, <1>7, <1>8 DEF ItemsOf
<1>10. ASSUME InOrder(s), NEW j \in DOMAIN t, NEW k \in DOMAIN t, j < k
       PROVE  t[j].id # t[k].id /\ t[j].created >= t[k].created
  <2>1. f[j] \in DOMAIN s /\ f[k] \in DOMAIN s /\ f[j] < f[k]
    BY <1>2, <1>7, <1>8, <1>10
  <2>2. t[j] = s[f[j]] /\ t[k] = s[f[k]]
    BY <1>6, <1>7
  <2> QED BY <1>10, <2>1, <2>2 DEF InOrder
<1> QED BY <1>5, <1>9, <1>10 DEF InOrder

\* A list that is cut off.
LEMMA CutIs ==
  ASSUME NEW s \in Seq(Item), InOrder(s)
  PROVE  IsFeed(Cut(s)) /\ ItemsOf(Cut(s)) \subseteq ItemsOf(s)
<1>1. CASE Len(s) <= MaxItems
  BY <1>1 DEF Cut, IsFeed
<1>2. CASE ~(Len(s) <= MaxItems)
  <2>1. MaxItems \in Nat /\ Len(s) \in Nat /\ MaxItems <= Len(s) /\ DOMAIN s = 1 .. Len(s)
    BY <1>2, FeedAssumption
  <2>2. PICK t : t = SubSeq(s, 1, MaxItems)
    OBVIOUS
  <2>3. t \in Seq(Item) /\ Len(t) = MaxItems /\ \A k \in 1 .. MaxItems : t[k] = s[k]
    BY <2>1, <2>2
  <2>4. DOMAIN t = 1 .. MaxItems /\ 1 .. MaxItems \subseteq DOMAIN s
    BY <2>1, <2>3
  <2>5. InOrder(t)
    BY <2>3, <2>4 DEF InOrder
  <2>6. ItemsOf(t) \subseteq ItemsOf(s)
    BY <2>3, <2>4 DEF ItemsOf
  <2>7. IsFeed(t)
    BY <2>1, <2>3, <2>5 DEF IsFeed
  <2> QED BY <1>2, <2>2, <2>6, <2>7 DEF Cut
<1> QED BY <1>1, <1>2

LEMMA TimeIsNat == Time \subseteq Nat
BY FeedAssumption DEF Time

\* What pruning leaves of any list is in it, newest first and each id once.
LEMMA PrunedIs ==
  ASSUME NEW s \in Seq(Item), NEW t, t = Pruned(s)
  PROVE  IsFeed(t) /\ ItemsOf(t) \subseteq ItemsOf(s)
<1>1. PICK D : D = Firsts(s)
  OBVIOUS
<1>2. D \in SUBSET DOMAIN s /\ DOMAIN s \subseteq Nat
  BY <1>1 DEF Firsts
<1>3. ASSUME NEW k \in DOMAIN s PROVE s[k].created \in Nat
  <2>1. s[k] \in Item
    OBVIOUS
  <2> QED BY <2>1, TimeIsNat DEF Item
<1> DEFINE Precedes(a, b) == s[a].created > s[b].created \/ (s[a].created = s[b].created /\ a < b)
<1>4. ASSUME NEW a \in D, NEW b \in D PROVE <<a, b>> \in Newer(s) <=> Precedes(a, b)
  <2>1. <<a, b>> \in (DOMAIN s) \X (DOMAIN s)
    BY <1>2
  <2> QED BY <2>1 DEF Newer
<1>5. IsOrder(D, Newer(s))
  <2>1. \A a \in D : a \in Nat /\ s[a].created \in Nat
    BY <1>2, <1>3
  <2>2. \A a \in D : <<a, a>> \notin Newer(s)
    BY <1>4, <2>1
  <2>3. \A a, b \in D : a # b => <<a, b>> \in Newer(s) \/ <<b, a>> \in Newer(s)
    BY <1>4, <2>1
  <2>4. ASSUME NEW a \in D, NEW b \in D, NEW c \in D,
               <<a, b>> \in Newer(s), <<b, c>> \in Newer(s)
        PROVE  <<a, c>> \in Newer(s)
    <3>1. Precedes(a, b) /\ Precedes(b, c)
      BY <1>4, <2>4
    <3>3. Precedes(a, c)
      BY <2>1, <3>1
    <3> QED BY <1>4, <3>3
  <2> QED BY <2>2, <2>3, <2>4 DEF IsOrder
<1>6. PICK u : u = At(s, Arranged(D, Newer(s)))
  OBVIOUS
<1>7. PICK R : R = Newer(s)
  OBVIOUS
<1>8. u \in Seq(Item) /\ Len(u) \in Nat
  BY <1>2, <1>5, <1>6, <1>7, AtIs
<1>9. PICK f \in Ranges(D, R, Len(u)) : \A k \in 1 .. Len(u) : u[k] = s[f[k]]
  BY <1>2, <1>5, <1>6, <1>7, AtIs
<1>10. DOMAIN u = 1 .. Len(u)
  BY <1>8
<1>11. /\ \A k \in 1 .. Len(u) : f[k] \in D
       /\ \A j, k \in 1 .. Len(u) : j < k => <<f[j], f[k]>> \in Newer(s)
  BY <1>7, <1>9 DEF Ranges
<1>12. ItemsOf(u) \subseteq ItemsOf(s)
  BY <1>2, <1>9, <1>10, <1>11 DEF ItemsOf
<1>13. ASSUME NEW a \in D, NEW b \in D, a # b PROVE s[a].id # s[b].id
  <2>1. a \in DOMAIN s /\ b \in DOMAIN s /\ (a < b \/ b < a)
    BY <1>2, <1>13
  <2> QED BY <1>1, <2>1 DEF Firsts
<1>14. ASSUME NEW j \in DOMAIN u, NEW k \in DOMAIN u, j < k
       PROVE  u[j].id # u[k].id /\ u[j].created >= u[k].created
  <2>1. f[j] \in D /\ f[k] \in D /\ <<f[j], f[k]>> \in Newer(s)
    BY <1>10, <1>11, <1>14
  <2>2. u[j] = s[f[j]] /\ u[k] = s[f[k]]
    BY <1>9, <1>10
  <2>3. s[f[j]].created >= s[f[k]].created /\ f[j] # f[k]
    <3>1. s[f[j]].created \in Nat /\ s[f[k]].created \in Nat /\ f[j] \in Nat
      BY <1>2, <1>3, <2>1
    <3>2. Precedes(f[j], f[k])
      BY <1>4, <2>1
    <3> QED BY <3>1, <3>2
  <2> QED BY <1>13, <2>1, <2>2, <2>3
<1>15. InOrder(u)
  BY <1>14 DEF InOrder
<1>16. t = Cut(u)
  BY <1>1, <1>6 DEF Pruned
<1>17. IsFeed(t) /\ ItemsOf(t) \subseteq ItemsOf(u)
  BY <1>8, <1>15, <1>16, CutIs
<1> QED BY <1>12, <1>17

\* Two lists, one after the other.
LEMMA BothOf ==
  ASSUME NEW s \in Seq(Item), NEW t \in Seq(Item), NEW u, u = s \o t
  PROVE  u \in Seq(Item) /\ ItemsOf(u) \subseteq ItemsOf(s) \cup ItemsOf(t)
<1>1. PICK m \in Nat, n \in Nat : m = Len(s) /\ n = Len(t)
  OBVIOUS
<1>2. u \in Seq(Item) /\ DOMAIN u = 1 .. m + n /\ DOMAIN s = 1 .. m /\ DOMAIN t = 1 .. n
  BY <1>1
<1>3. ASSUME NEW k \in 1 .. m + n PROVE u[k] \in ItemsOf(s) \cup ItemsOf(t)
  <2>1. CASE k <= m
    <3>1. k \in DOMAIN s /\ u[k] = s[k]
      BY <1>1, <1>2, <2>1
    <3> QED BY <3>1 DEF ItemsOf
  <2>2. CASE ~(k <= m)
    <3>1. k - m \in DOMAIN t /\ u[k] = t[k - m]
      BY <1>1, <1>2, <2>2
    <3> QED BY <3>1 DEF ItemsOf
  <2> QED BY <2>1, <2>2
<1> QED BY <1>2, <1>3 DEF ItemsOf

LEMMA OneOf ==
  ASSUME NEW i \in Item
  PROVE  <<i>> \in Seq(Item) /\ ItemsOf(<<i>>) = {i}
BY DEF ItemsOf

\* A finite set of items as a list.
LEMMA ListOf ==
  ASSUME NEW T \in SUBSET Item, IsFiniteSet(T), NEW s, s = SetToSeq(T)
  PROVE  s \in Seq(Item) /\ ItemsOf(s) \subseteq T
<1>1. PICK n \in Nat : n = Cardinality(T)
  BY FS_CardinalityType
<1>2. \E f \in [1 .. n -> T] : IsInjective(f)
  <2>1. ExistsBijection(1 .. n, T)
    BY <1>1, FS_CardinalityType
  <2> QED BY <2>1 DEF ExistsBijection, Bijection, Injection, IsInjective
<1>3. s \in [1 .. n -> T]
  BY <1>1, <1>2 DEF SetToSeq
<1>4. s \in Seq(Item) /\ DOMAIN s = 1 .. n
  BY <1>3
<1> QED BY <1>3, <1>4 DEF ItemsOf

-----------------------------------------------------------------------------
(* OperationFeedback: the feed.                                            *)

RequestIs(rq) ==
  /\ rq \in [cleared : 0 .. MaxTime, of : {rq.of}, answer : {rq.answer}]
  /\ rq.answer # Nothing => rq.answer \subseteq Record /\ IsFiniteSet(rq.answer)
FeedInv ==
  /\ now \in Time /\ cleared \in 0 .. MaxTime /\ events \in 0 .. MaxEvents
  /\ IsFeed(items)
  /\ records \subseteq Record /\ IsFiniteSet(records)
  /\ \A rq \in requests : RequestIs(rq)

LEMMA RecordItemIs ==
  ASSUME NEW r \in Record
  PROVE  RecordItem(r) \in Item /\ RecordItem(r).id = r.op /\ RecordItem(r).op = r.op
         /\ RecordItem(r).updated = r.updated
BY DEF Record, Item, RecordItem

News(answer, c) == {r \in answer : r.updated > c}

\* What an answer makes of the feed.
LEMMA MergedIs ==
  ASSUME NEW s, IsFeed(s), NEW answer \in SUBSET Record, IsFiniteSet(answer), NEW c,
         NEW t, t = Merged(s, answer, c)
  PROVE  /\ IsFeed(t)
         /\ \A i \in ItemsOf(t) \ ItemsOf(s) : \E r \in News(answer, c) : i = RecordItem(r)
         /\ t # s => \A r \in News(answer, c) : \A i \in ItemsOf(t) : i.op = r.op => i.id = r.op
<1>1. PICK N : N = News(answer, c)
  OBVIOUS
<1>2. CASE N = {}
  <2>1. t = s
    BY <1>1, <1>2 DEF Merged, News
  <2> QED BY <1>1, <1>2, <2>1
<1>3. CASE N # {}
  <2>1. PICK T : T = {RecordItem(r) : r \in N}
    OBVIOUS
  <2>2. PICK ops : ops = {r.op : r \in N}
    OBVIOUS
  <2>3. N \in SUBSET Record /\ IsFiniteSet(N)
    <3>1. N \in SUBSET answer
      BY <1>1 DEF News
    <3> QED BY <3>1, FS_Subset
  <2>4. T \in SUBSET Item
    BY <2>1, <2>3, RecordItemIs
  <2>5. IsFiniteSet(T)
    <3>1. PICK f : f = [r \in N |-> RecordItem(r)]
      OBVIOUS
    <3>2. f \in Surjection(N, T)
      BY <2>1, <3>1 DEF Surjection
    <3> QED BY <2>3, <3>2, FS_Surjection
  <2>6. PICK a : a = SetToSeq(T)
    OBVIOUS
  <2>7. a \in Seq(Item) /\ ItemsOf(a) \subseteq T
    BY <2>4, <2>5, <2>6, ListOf
  <2>8. PICK b : b = WithoutOps(s, ops)
    OBVIOUS
  <2>9. /\ b \in Seq(Item) /\ ItemsOf(b) \subseteq ItemsOf(s)
        /\ \A i \in ItemsOf(b) : i.op \notin ops
    <3>1. PICK S : S = {i \in ItemsOf(s) : i.op \notin ops}
      OBVIOUS
    <3>2. b = Kept(s, S) /\ s \in Seq(Item)
      BY <2>8, <3>1 DEF WithoutOps, IsFeed
    <3>3. b \in Seq(Item) /\ ItemsOf(b) \subseteq ItemsOf(s) \cap S
      BY <3>2, KeptIs
    <3> QED BY <3>1, <3>3
  <2>10. PICK u : u = a \o b
    OBVIOUS
  <2>11. u \in Seq(Item) /\ ItemsOf(u) \subseteq ItemsOf(a) \cup ItemsOf(b)
    BY <2>7, <2>9, <2>10, BothOf
  <2>12. t = Pruned(u)
    BY <1>1, <1>3, <2>1, <2>2, <2>6, <2>8, <2>10 DEF Merged, News
  <2>13. IsFeed(t) /\ ItemsOf(t) \subseteq ItemsOf(u)
    BY <2>11, <2>12, PrunedIs
  <2>14. ASSUME NEW i \in ItemsOf(t) PROVE i \in T \/ i \in ItemsOf(b)
    BY <2>7, <2>11, <2>13
  <2>15. ASSUME NEW r \in N, NEW i \in ItemsOf(t), i.op = r.op PROVE i.id = r.op
    <3>1. i \in T
      BY <2>2, <2>9, <2>14, <2>15
    <3>2. PICK q \in N : i = RecordItem(q)
      BY <2>1, <3>1
    <3> QED BY <2>3, <2>15, <3>2, RecordItemIs
  <2>16. ASSUME NEW i \in ItemsOf(t) \ ItemsOf(s) PROVE \E r \in N : i = RecordItem(r)
    BY <2>1, <2>9, <2>14
  <2> QED BY <1>1, <2>13, <2>15, <2>16
<1> QED BY <1>2, <1>3

\* What a user or a condition adds to the feed: nothing else comes with it.
Adds(s, t, ids) == IsFeed(t) /\ \A i \in ItemsOf(t) \ ItemsOf(s) : i.id \in ids

LEMMA AddedIs ==
  ASSUME NEW s \in Seq(Item), NEW S, NEW i \in Item, NEW t, t = Pruned(<<i>> \o Kept(s, S))
  PROVE  Adds(s, t, {i.id})
<1>1. PICK k : k = Kept(s, S)
  OBVIOUS
<1>2. k \in Seq(Item) /\ ItemsOf(k) \subseteq ItemsOf(s)
  BY <1>1, KeptIs
<1>3. PICK o : o = <<i>>
  OBVIOUS
<1>4. o \in Seq(Item) /\ ItemsOf(o) = {i}
  BY <1>3, OneOf
<1>5. PICK u : u = o \o k
  OBVIOUS
<1>6. u \in Seq(Item) /\ ItemsOf(u) \subseteq {i} \cup ItemsOf(s)
  BY <1>2, <1>4, <1>5, BothOf
<1>7. t = Pruned(u)
  BY <1>1, <1>3, <1>5
<1>8. IsFeed(t) /\ ItemsOf(t) \subseteq ItemsOf(u)
  BY <1>6, <1>7, PrunedIs
<1> QED BY <1>6, <1>8 DEF Adds

LEMMA StateAdds ==
  ASSUME IsFeed(items), now \in Time, NEW id \in StateIds, NEW what \in Ongoing,
         NEW t, t = WithState(items, id, what)
  PROVE  Adds(items, t, StateIds)
<1>1. PICK old : old = {i \in ItemsOf(items) : i.id = id}
  OBVIOUS
<1>2. items \in Seq(Item)
  BY DEF IsFeed
<1>3. CASE t = items
  BY <1>3 DEF Adds
<1>4. CASE t # items
  <2>1. PICK at : at = IF old = {} THEN now ELSE (CHOOSE i \in old : TRUE).created
    OBVIOUS
  <2>2. at \in Time
    <3>1. old \subseteq Item
      BY <1>1, <1>2 DEF ItemsOf
    <3> QED BY <2>1, <3>1 DEF Item
  <2>3. PICK i : i = [id |-> id, op |-> Nothing, what |-> what, updated |-> now, created |-> at]
    OBVIOUS
  <2>4. i \in Item /\ i.id = id
    BY <2>2, <2>3 DEF Item
  <2>5. PICK S : S = {j \in ItemsOf(items) : j.id \notin {id}}
    OBVIOUS
  <2>6. t = Pruned(<<i>> \o Kept(items, S))
    BY <1>1, <1>4, <2>1, <2>3, <2>5 DEF WithState, Without
  <2>7. Adds(items, t, {i.id})
    BY <1>2, <2>4, <2>6, AddedIs
  <2> QED BY <2>4, <2>7 DEF Adds
<1> QED BY <1>3, <1>4

LEMMA FeedKept ==
  ASSUME NEW s, IsFeed(s), NEW S, NEW t, t = Kept(s, S)
  PROVE  IsFeed(t) /\ ItemsOf(t) \subseteq ItemsOf(s)
<1>1. /\ t \in Seq(Item) /\ ItemsOf(t) \subseteq ItemsOf(s) \cap S /\ Len(t) <= Len(s)
      /\ InOrder(s) => InOrder(t)
  BY KeptIs DEF IsFeed
<1>2. Len(t) \in Nat /\ Len(s) \in Nat /\ MaxItems \in Nat
  BY <1>1, FeedAssumption DEF IsFeed
<1> QED BY <1>1, <1>2 DEF IsFeed

\* Users and conditions.
LEMMA NotifyAdds ==
  ASSUME FeedInv, Notify
  PROVE  Adds(items, items', OwnIds)
<1>1. PICK op \in {r.op : r \in records} \cup {Nothing}, what \in Happened :
        items' = WithNotice(items, [id |-> events + 1, op |-> op, what |-> what,
                                    created |-> now, updated |-> now])
  BY DEF Notify
<1>2. PICK i : i = [id |-> events + 1, op |-> op, what |-> what, created |-> now, updated |-> now]
  OBVIOUS
<1>3. events + 1 \in OwnIds
  BY FeedAssumption DEF FeedInv, Notify, OwnIds
<1>4. op \in Ops \cup {Nothing}
  BY DEF FeedInv, Record
<1>5. i \in Item /\ i.id = events + 1
  BY <1>2, <1>3, <1>4 DEF FeedInv, Item
<1>6. PICK S : S = {j \in ItemsOf(items) : ~(j.what = i.what /\ i.created - j.created <= 1)}
  OBVIOUS
<1>7. PICK t : t = items'
  OBVIOUS
<1>8. t = Pruned(<<i>> \o Kept(items, S))
  BY <1>1, <1>2, <1>6, <1>7 DEF WithNotice
<1>9. Adds(items, t, {i.id})
  BY <1>5, <1>8, AddedIs DEF FeedInv, IsFeed
<1> QED BY <1>3, <1>5, <1>7, <1>9 DEF Adds

LEMMA NotifyStateAdds ==
  ASSUME FeedInv, NotifyState
  PROVE  Adds(items, items', StateIds)
<1>1. PICK id \in StateIds, what \in Ongoing : items' = WithState(items, id, what)
  BY DEF NotifyState
<1>2. PICK t : t = items'
  OBVIOUS
<1> QED BY <1>1, <1>2, StateAdds DEF FeedInv

LEMMA DismissAdds ==
  ASSUME FeedInv, Dismiss
  PROVE  Adds(items, items', {})
<1>1. PICK i \in ItemsOf(items) : items' = Without(items, {i.id})
  BY DEF Dismiss
<1>2. PICK S : S = {j \in ItemsOf(items) : j.id \notin {i.id}}
  OBVIOUS
<1>3. PICK t : t = items'
  OBVIOUS
<1>4. t = Kept(items, S)
  BY <1>1, <1>2, <1>3 DEF Without
<1> QED BY <1>3, <1>4, FeedKept DEF Adds, FeedInv

LEMMA ReloadAdds ==
  ASSUME FeedInv, ReloadFeed
  PROVE  Adds(items, items', {})
<1>1. PICK s : s = Pruned(items)
  OBVIOUS
<1>2. PICK S : S = {i \in ItemsOf(items) : i.updated > cleared}
  OBVIOUS
<1>3. PICK t : t = items'
  OBVIOUS
<1>4. t = Kept(s, S)
  BY <1>1, <1>2, <1>3 DEF ReloadFeed
<1>5. IsFeed(s) /\ ItemsOf(s) \subseteq ItemsOf(items)
  BY <1>1, PrunedIs DEF FeedInv, IsFeed
<1> QED BY <1>3, <1>4, <1>5, FeedKept DEF Adds

\* The answer of a request comes into the feed.
LEMMA ArrivesIs ==
  ASSUME FeedInv, NEW rq \in requests, rq.answer # Nothing,
         items' = Merged(items, rq.answer, rq.cleared)
  PROVE  /\ IsFeed(items')
         /\ \A i \in ItemsOf(items') \ ItemsOf(items) :
              \E r \in News(rq.answer, rq.cleared) : i = RecordItem(r)
         /\ items' # items => \A r \in News(rq.answer, rq.cleared) :
              \A i \in ItemsOf(items') : i.op = r.op => i.id = r.op
<1>1. rq.answer \in SUBSET Record /\ IsFiniteSet(rq.answer) /\ IsFeed(items)
  BY DEF FeedInv, RequestIs
<1>2. PICK t, s, answer, c : t = items' /\ s = items /\ answer = rq.answer /\ c = rq.cleared
  OBVIOUS
<1> QED BY <1>1, <1>2, MergedIs

LEMMA SentIs ==
  ASSUME NEW c \in 0 .. MaxTime, NEW of
  PROVE  RequestIs(Sent(c, of))
BY DEF RequestIs, Sent

\* A step that adds requests that are sent and leaves the feed, or changes it alone.
Quiet == now' = now /\ cleared' = cleared /\ events' = events /\ records' = records
Counts == now' = now /\ events < MaxEvents /\ events' = events + 1 /\ records' = records

LEMMA QuietKeeps ==
  ASSUME FeedInv, Quiet, IsFeed(items'), \A rq \in requests' : RequestIs(rq)
  PROVE  FeedInv'
BY DEF FeedInv, Quiet

LEMMA CountedKeeps ==
  ASSUME FeedInv, Counts, cleared' \in 0 .. MaxTime, IsFeed(items'),
         \A rq \in requests' : RequestIs(rq)
  PROVE  FeedInv'
<1>1. events' \in 0 .. MaxEvents
  BY FeedAssumption DEF FeedInv, Counts
<1> QED BY <1>1 DEF FeedInv, Counts

LEMMA AsksKeeps ==
  ASSUME FeedInv, Quiet, UNCHANGED items, NEW of, requests' = requests \cup {Sent(cleared, of)}
  PROVE  FeedInv'
<1>1. RequestIs(Sent(cleared, of))
  BY SentIs DEF FeedInv
<1>2. IsFeed(items') /\ \A rq \in requests' : RequestIs(rq)
  BY <1>1 DEF FeedInv
<1> QED BY <1>2, QuietKeeps

LEMMA FeedStep == FeedInv /\ [FeedNext]_feedVars => FeedInv'
<1> SUFFICES ASSUME FeedInv, [FeedNext]_feedVars PROVE FeedInv'
  OBVIOUS
<1>0. /\ now \in Time /\ cleared \in 0 .. MaxTime /\ events \in 0 .. MaxEvents
      /\ IsFeed(items) /\ records \subseteq Record /\ IsFiniteSet(records)
      /\ \A rq \in requests : RequestIs(rq)
  BY DEF FeedInv
<1>1. CASE Notify
  <2>1. IsFeed(items')
    BY <1>1, NotifyAdds DEF Adds
  <2> QED BY <1>0, <1>1, <2>1, CountedKeeps DEF Notify, Counts, ServerUnchanged
<1>2. CASE NotifyState
  <2>1. IsFeed(items')
    BY <1>2, NotifyStateAdds DEF Adds
  <2> QED BY <1>0, <1>2, <2>1, CountedKeeps DEF NotifyState, Counts, ServerUnchanged
<1>3. CASE Dismiss
  <2>1. IsFeed(items')
    BY <1>3, DismissAdds DEF Adds
  <2> QED BY <1>0, <1>3, <2>1, CountedKeeps DEF Dismiss, Counts, ServerUnchanged
<1>4. CASE OpenDrawer \/ Pull
  BY <1>4, AsksKeeps DEF OpenDrawer, Pull, Quiet
<1>5. CASE LoadDetail
  <2>1. PICK i \in ItemsOf(items) : requests' = requests \cup {Sent(cleared, i.op)}
    BY <1>5 DEF LoadDetail
  <2> QED BY <1>5, <2>1, AsksKeeps DEF LoadDetail, Quiet
<1>6. CASE CloseDrawer
  BY <1>0, <1>6, QuietKeeps DEF CloseDrawer, ServerUnchanged, Quiet
<1>7. CASE Clear
  <2>1. cleared' \in 0 .. MaxTime
    BY <1>0, <1>7, FeedAssumption DEF Clear, Time
  <2>2. IsFeed(items')
    <3>1. PICK t : t = <<>>
      OBVIOUS
    <3>2. t \in Seq(Item) /\ DOMAIN t = {} /\ Len(t) = 0
      BY <3>1
    <3> QED BY <1>7, <3>1, <3>2, FeedAssumption DEF Clear, IsFeed, InOrder
  <2>3. RequestIs(Sent(now, Nothing))
    BY <1>7, <2>1, SentIs DEF Clear
  <2>4. \A rq \in requests' : RequestIs(rq)
    BY <1>0, <1>7, <2>3 DEF Clear
  <2> QED BY <1>7, <2>1, <2>2, <2>4, CountedKeeps DEF Clear, Counts
<1>8. CASE \E of \in Ops \cup {Nothing} : ServerAnswers(of)
  <2>1. PICK of \in Ops \cup {Nothing} : ServerAnswers(of)
    BY <1>8
  <2>2. PICK rq \in requests, A \in SUBSET records :
          requests' = (requests \ {rq}) \cup {[rq EXCEPT !.answer = A]}
    BY <2>1 DEF ServerAnswers
  <2>4. A \subseteq Record /\ IsFiniteSet(A)
    BY <1>0, <2>2, FS_Subset
  <2>5. RequestIs([rq EXCEPT !.answer = A])
    BY <1>0, <2>4 DEF RequestIs
  <2>6. \A q \in requests' : RequestIs(q)
    BY <1>0, <2>2, <2>5
  <2> QED BY <1>0, <2>1, <2>6, QuietKeeps DEF ServerAnswers, Quiet
<1>9. CASE AnswerArrives
  <2>1. PICK rq \in requests : /\ rq.answer # Nothing /\ requests' = requests \ {rq}
                               /\ items' = Merged(items, rq.answer, rq.cleared)
    BY <1>9 DEF AnswerArrives
  <2>2. IsFeed(items')
    BY <2>1, ArrivesIs
  <2> QED BY <1>0, <1>9, <2>1, <2>2, QuietKeeps DEF AnswerArrives, Quiet
<1>10. CASE RequestFails
  <2>1. IsFeed(items') /\ \A rq \in requests' : RequestIs(rq)
    BY <1>0, <1>10 DEF RequestFails
  <2> QED BY <1>0, <1>10, <2>1, CountedKeeps DEF RequestFails, Counts
<1>11. CASE ServerRecords
  <2>1. PICK new : new = CHOOSE o \in NewOps : TRUE
    OBVIOUS
  <2>2. PICK R, q : R \in SUBSET records /\ q \in Record /\ records' = R \cup {q}
    <3>1. CASE /\ NewOps # {}
               /\ records' = records \cup {[op |-> new, created |-> now, updated |-> now]}
      <4>1. new \in Ops
        BY <2>1, <3>1 DEF NewOps
      <4> QED BY <1>0, <3>1, <4>1 DEF Record
    <3>2. CASE \E r \in records : records' = (records \ {r}) \cup {[r EXCEPT !.updated = now]}
      <4>1. PICK r \in records : records' = (records \ {r}) \cup {[r EXCEPT !.updated = now]}
        BY <3>2
      <4>2. [r EXCEPT !.updated = now] \in Record
        BY <1>0, <4>1 DEF Record
      <4> QED BY <4>1, <4>2
    <3> QED BY <1>11, <2>1, <3>1, <3>2 DEF ServerRecords
  <2>3. records' \subseteq Record
    BY <1>0, <2>2
  <2>4. IsFiniteSet(records')
    <3>1. IsFiniteSet(R)
      BY <1>0, <2>2, FS_Subset
    <3> QED BY <2>2, <3>1, FS_AddElement
  <2> QED BY <1>0, <1>11, <2>3, <2>4 DEF ServerRecords, FeedInv
<1>12. CASE ReloadFeed
  <2>1. IsFeed(items')
    BY <1>12, ReloadAdds DEF Adds
  <2>2. \A rq \in requests' : RequestIs(rq)
    BY <1>0, <1>12, SentIs DEF ReloadFeed
  <2> QED BY <1>0, <1>12, <2>1, <2>2, CountedKeeps DEF ReloadFeed, Counts
<1>13. CASE Tick
  <2>1. now' \in Time
    BY <1>0, <1>13, FeedAssumption DEF Tick, Time
  <2> QED BY <1>0, <1>13, <2>1 DEF Tick, FeedInv
<1>14. CASE UNCHANGED feedVars
  BY <1>0, <1>14 DEF feedVars, FeedInv
<1> QED BY <1>1, <1>2, <1>3, <1>4, <1>5, <1>6, <1>7, <1>8, <1>9, <1>10, <1>11, <1>12, <1>13, <1>14
        DEF FeedNext

LEMMA FeedStarts == FeedInit => FeedInv
<1> SUFFICES ASSUME FeedInit PROVE FeedInv
  OBVIOUS
<1>1. now \in Time /\ cleared \in 0 .. MaxTime /\ events \in 0 .. MaxEvents
  BY FeedAssumption DEF FeedInit, Time
<1>2. IsFeed(items)
  <2>1. PICK t : t = <<>>
    OBVIOUS
  <2>2. t \in Seq(Item) /\ DOMAIN t = {} /\ Len(t) = 0
    BY <2>1
  <2> QED BY <2>1, <2>2, FeedAssumption DEF FeedInit, IsFeed, InOrder
<1>3. records \subseteq Record /\ IsFiniteSet(records)
  BY FS_EmptySet DEF FeedInit
<1>4. \A rq \in requests : RequestIs(rq)
  <2>1. 0 \in 0 .. MaxTime
    BY FeedAssumption
  <2>2. RequestIs(Sent(0, Nothing))
    BY <2>1, SentIs
  <2> QED BY <2>2 DEF FeedInit
<1> QED BY <1>1, <1>2, <1>3, <1>4 DEF FeedInv

\* The feed is newest first, holds each id once and is no longer than it may be, whatever notices,
\* pulls, details, clears and reloads put into it (pruneOperationFeedbackItems,
\* mergeOperationRecords).
THEOREM FeedInOrder == FeedSpec => []FeedIsInOrder
<1>1. FeedInv => FeedIsInOrder
  BY DEF FeedInv, IsFeed, InOrder, FeedIsInOrder
<1> QED BY <1>1, FeedStarts, FeedStep, PTL DEF FeedSpec

-----------------------------------------------------------------------------
(* OperationFeedback: what an answer may bring.                            *)

OnlyOwn(ids) == Adds(items, items', ids) /\ ids \cap Ops = {} /\ Counts

LEMMA OwnIsSound ==
  ASSUME FeedInv, NEW ids, OnlyOwn(ids)
  PROVE  ClearedStayAway /\ MergedOnce
<1>1. ClearedStayAway
  BY DEF OnlyOwn, Adds, ClearedStayAway
<1>2. events' # events
  BY DEF FeedInv, OnlyOwn, Counts
<1> QED BY <1>1, <1>2 DEF MergedOnce

LEMMA SameIsSound ==
  ASSUME items' = items
  PROVE  ClearedStayAway /\ MergedOnce
BY DEF ClearedStayAway, MergedOnce

\* At most one element.
LEMMA OneAtMost ==
  ASSUME NEW S, \A j, k \in S : j = k
  PROVE  Cardinality(S) <= 1
<1>1. CASE S = {}
  BY <1>1, FS_EmptySet
<1>2. CASE S # {}
  <2>1. PICK j \in S : S = {j}
    BY <1>2
  <2>2. Cardinality(S) = 1
    BY <2>1, FS_Singleton
  <2> QED BY <2>2
<1> QED BY <1>1, <1>2

LEMMA AnswerIsSound ==
  ASSUME FeedInv, AnswerArrives
  PROVE  ClearedStayAway /\ MergedOnce
<1>1. PICK rq \in requests : /\ rq.answer # Nothing /\ requests' = requests \ {rq}
                             /\ items' = Merged(items, rq.answer, rq.cleared)
  BY DEF AnswerArrives
<1>2. /\ IsFeed(items')
      /\ \A i \in ItemsOf(items') \ ItemsOf(items) :
           \E r \in News(rq.answer, rq.cleared) : i = RecordItem(r)
      /\ items' # items => \A r \in News(rq.answer, rq.cleared) :
           \A i \in ItemsOf(items') : i.op = r.op => i.id = r.op
  BY <1>1, ArrivesIs
<1>3. /\ requests \ requests' = {rq} /\ cleared' = cleared
      /\ rq.answer \subseteq Record /\ rq.cleared \in Nat /\ cleared \in Nat
  BY <1>1 DEF AnswerArrives, FeedInv, RequestIs
<1>4. ClearedStayAway
  <2>1. ASSUME NEW i \in ItemsOf(items') \ ItemsOf(items), i.updated <= cleared'
        PROVE  rq.cleared < cleared
    <3>1. PICK r \in News(rq.answer, rq.cleared) : i = RecordItem(r)
      BY <1>2, <2>1
    <3>2. r \in Record /\ r.updated > rq.cleared
      BY <1>3, <3>1 DEF News
    <3>3. i.updated = r.updated /\ r.updated \in Nat
      BY <3>1, <3>2, RecordItemIs, TimeIsNat DEF Record
    <3> QED BY <1>3, <2>1, <3>2, <3>3
  <2> QED BY <1>3, <2>1 DEF ClearedStayAway
<1>5. MergedOnce
  <2>1. ASSUME items' # items, NEW r \in rq.answer, r.updated > rq.cleared
        PROVE  Cardinality({k \in DOMAIN items' : items'[k].op = r.op}) <= 1
    <3>1. r \in News(rq.answer, rq.cleared)
      BY <2>1 DEF News
    <3>2. PICK t : t = items'
      OBVIOUS
    <3>3. PICK S : S = {k \in DOMAIN t : t[k].op = r.op}
      OBVIOUS
    <3>4. DOMAIN t \subseteq Nat /\ InOrder(t)
      BY <1>2, <3>2 DEF IsFeed
    <3>5. ASSUME NEW k \in S PROVE k \in DOMAIN t /\ t[k].id = r.op
      BY <1>2, <2>1, <3>1, <3>2, <3>3 DEF ItemsOf
    <3>6. ASSUME NEW j \in S, NEW k \in S PROVE j = k
      <4>1. ~(j < k) /\ ~(k < j)
        BY <3>4, <3>5 DEF InOrder
      <4>2. j \in Nat /\ k \in Nat
        BY <3>4, <3>5
      <4> QED BY <4>1, <4>2
    <3> QED BY <3>2, <3>3, <3>6, OneAtMost
  <2> QED BY <1>3, <2>1 DEF MergedOnce
<1> QED BY <1>4, <1>5

\* Whatever answers, clears, notices and reloads follow each other: a step brings an item of the
\* server that was cleared before only with an answer asked for before the clear, and an answer
\* leaves one item of each operation it brings (mergeOperationRecords, clearedAtMs).
THEOREM AnswersMergeSound == FeedSpec => AnswersMergeSoundly
<1>1. FeedInv /\ [FeedNext]_feedVars => [ClearedStayAway /\ MergedOnce]_feedVars
  <2> SUFFICES ASSUME FeedInv, FeedNext PROVE ClearedStayAway /\ MergedOnce
    OBVIOUS
  <2>1. CASE Notify
    <3>1. OnlyOwn(OwnIds)
      BY <2>1, NotifyAdds, FeedAssumption DEF OnlyOwn, Counts, Notify, ServerUnchanged
    <3> QED BY <3>1, OwnIsSound
  <2>2. CASE NotifyState
    <3>1. OnlyOwn(StateIds)
      BY <2>2, NotifyStateAdds, FeedAssumption DEF OnlyOwn, Counts, NotifyState, ServerUnchanged
    <3> QED BY <3>1, OwnIsSound
  <2>3. CASE Dismiss
    <3>1. OnlyOwn({})
      BY <2>3, DismissAdds DEF OnlyOwn, Counts, Dismiss, ServerUnchanged
    <3> QED BY <3>1, OwnIsSound
  <2>4. CASE Clear
    <3>1. Adds(items, items', {})
      BY <2>4, FeedStep DEF FeedNext, Clear, Adds, ItemsOf, FeedInv
    <3>2. OnlyOwn({})
      BY <2>4, <3>1 DEF OnlyOwn, Counts, Clear
    <3> QED BY <3>2, OwnIsSound
  <2>5. CASE ReloadFeed
    <3>1. OnlyOwn({})
      BY <2>5, ReloadAdds DEF OnlyOwn, Counts, ReloadFeed
    <3> QED BY <3>1, OwnIsSound
  <2>6. CASE AnswerArrives
    BY <2>6, AnswerIsSound
  <2>7. CASE \/ OpenDrawer \/ CloseDrawer \/ Pull \/ LoadDetail \/ RequestFails \/ ServerRecords \/ Tick
             \/ \E of \in Ops \cup {Nothing} : ServerAnswers(of)
    <3>1. items' = items
      BY <2>7 DEF OpenDrawer, CloseDrawer, Pull, LoadDetail, RequestFails, ServerRecords, Tick,
                  ServerAnswers
    <3> QED BY <3>1, SameIsSound
  <2> QED BY <2>1, <2>2, <2>3, <2>4, <2>5, <2>6, <2>7 DEF FeedNext
<1> QED BY <1>1, FeedStarts, FeedStep, PTL DEF FeedSpec, AnswersMergeSoundly
=============================================================================
