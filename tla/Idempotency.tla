------------------------------ MODULE Idempotency ------------------------------
(***************************************************************************)
(* Requests that start a job under one Idempotency-Key                     *)
(* (backend/app/core/idempotency.py, start_backtest_api of                 *)
(* backend/app/api/routes.py).  The answer of the first request is kept in *)
(* the state Redis, or in the memory of the process when Redis is not      *)
(* configured or fails; a lock key with a time-out guards the creation.    *)
(*                                                                         *)
(* Each call to Redis, each critical section of the memory store and each  *)
(* creation is one action.  The keys do not influence each other, so there *)
(* is one; its value outlives the requests (the TTL is a day).  Jobs are   *)
(* numbered in the order of their creation.                                *)
(***************************************************************************)
EXTENDS Integers, FiniteSets

CONSTANTS
  Starters,     \* requests with the same key, of the same subject
  None,         \* no value, no lock
  MaxPolls,     \* how often a request finds the lock taken before its deadline
  MaxFailures,  \* bound on the calls that raise, for TLC
  MaxVanish     \* bound on the jobs the registry loses, for TLC

ASSUME StartAssumption == None \notin Nat \cup Starters /\ MaxPolls \in Nat /\ MaxFailures \in Nat

VARIABLES
  backend,   \* "redis" or "memory": whether get_state_redis() has a client
  cached,    \* the value of the key in Redis
  lock,      \* the request whose token is in the lock key
  entry,     \* the value of the key in _ENTRIES
  created,   \* how many jobs were created
  gone,      \* the jobs the registry has lost
  place,     \* where each request is
  polls,     \* how often it found the lock taken
  answer,    \* the job it will be answered with
  raised,    \* how many calls have raised
  trouble    \* history: what has gone wrong

startVars == <<backend, cached, lock, entry, created, gone, place, polls, answer, raised, trouble>>
failing == <<backend, raised, trouble>>

StartTypeOK ==
  /\ backend \in {"redis", "memory"}
  /\ cached \in 1 .. created \cup {None}
  /\ lock \in Starters \cup {None}
  /\ entry \in 1 .. created \cup {None}
  /\ created \in Nat
  /\ gone \subseteq 1 .. created
  /\ place \in [Starters -> {"idle", "get", "lock", "recheck", "create", "store", "release",
                          "release reused", "fallback", "setnx", "reget", "memory",
                          "memory create", "memory store", "status", "forget lock",
                          "forget entry", "done", "error"}]
  /\ polls \in [Starters -> 0 .. MaxPolls]
  /\ answer \in [Starters -> 1 .. created \cup {None}]
  /\ raised \in 0 .. MaxFailures
  /\ trouble \subseteq {"slow",      \* a creation outlasted the wait or the lock's time-out
                        "redis",     \* a call to Redis raised
                        "create",    \* a creation raised
                        "vanish"}    \* the registry lost a job it had

StartInit ==
  /\ backend \in {"redis", "memory"} /\ raised = 0 /\ trouble = {}
  /\ cached = None /\ lock = None /\ entry = None
  /\ created = 0 /\ gone = {}
  /\ place = [r \in Starters |-> "idle"]
  /\ polls = [r \in Starters |-> 0]
  /\ answer = [r \in Starters |-> None]

Goto(r, step) == place' = [place EXCEPT ![r] = step]
Answer(r, job) == answer' = [answer EXCEPT ![r] = job]

\* A call to Redis, or a creation, raises.
Raises(kind) ==
  raised < MaxFailures /\ raised' = raised + 1 /\ trouble' = trouble \cup {kind}

Succeeds == UNCHANGED <<raised, trouble>>

\* create(): the next job is answer'[r].
Create(r) == created' = created + 1 /\ Answer(r, created + 1)

-----------------------------------------------------------------------------
(* _redis_get_or_create *)

\* A request enters, or starts over after it found that the job is gone.
FirstPlace(r) == IF backend = "redis" THEN "get" ELSE "memory"

Arrive(r) ==
  /\ place[r] = "idle"
  /\ Goto(r, FirstPlace(r))
  /\ UNCHANGED <<cached, lock, entry, created, gone, polls, answer, failing>>

\* A value another request has stored is reused.
Get(r) ==
  /\ place[r] = "get"
  /\ IF cached # None THEN Answer(r, cached) /\ Goto(r, "status")
                      ELSE Goto(r, "lock") /\ UNCHANGED answer
  /\ UNCHANGED <<cached, lock, entry, created, gone, polls, failing>>

Locked(r) == place[r] \in {"recheck", "create", "store", "release", "release reused"}

\* Only a slow creation keeps a request waiting for the lock, or the lock held, until
\* the time-out.
TimesOut ==
  /\ trouble' = IF Locked(lock) THEN trouble \cup {"slow"} ELSE trouble
  /\ UNCHANGED raised

\* SET lock NX EX, and the wait when it is taken.
TakeLock(r) ==
  /\ place[r] = "lock"
  /\ IF lock = None
     THEN lock' = r /\ Goto(r, "recheck") /\ Succeeds /\ UNCHANGED polls
     ELSE IF polls[r] < MaxPolls
          THEN /\ polls' = [polls EXCEPT ![r] = @ + 1]
               /\ Goto(r, "get")
               /\ Succeeds
               /\ UNCHANGED lock
          ELSE /\ TimesOut
               /\ Goto(r, "fallback")
               /\ UNCHANGED <<lock, polls>>
  /\ UNCHANGED <<backend, cached, entry, created, gone, answer>>

Recheck_Skipped(r) ==   \* mutated form: no second look under the lock
  /\ place[r] = "recheck"
  /\ Goto(r, "create")
  /\ UNCHANGED <<cached, lock, entry, created, gone, polls, answer, failing>>
Recheck(r) ==
  /\ place[r] = "recheck"
  /\ IF cached # None THEN Answer(r, cached) /\ Goto(r, "release reused")
                      ELSE Goto(r, "create") /\ UNCHANGED answer
  /\ UNCHANGED <<cached, lock, entry, created, gone, polls, failing>>

CreateLocked(r) ==
  /\ place[r] = "create"
  /\ Create(r)
  /\ Goto(r, "store")
  /\ UNCHANGED <<cached, lock, entry, gone, polls, failing>>

\* SET value EX, without NX.
Store(r) ==
  /\ place[r] = "store"
  /\ cached' = answer[r]
  /\ Goto(r, "release")
  /\ UNCHANGED <<lock, entry, created, gone, polls, answer, failing>>

\* _release_redis_lock deletes the lock if it holds this request's token; a call
\* that raises is ignored.
TokenCleared(r) == IF lock = r THEN None ELSE lock

ReleaseLock(r) ==
  /\ place[r] \in {"release", "release reused"}
  /\ \/ lock' = TokenCleared(r) /\ Succeeds
     \/ lock' = lock /\ Raises("redis")
  /\ Goto(r, IF place[r] = "release" THEN "done" ELSE "status")
  /\ UNCHANGED <<backend, cached, entry, created, gone, polls, answer>>

\* After the wait: create and SET NX, and otherwise take what is there.
CreateAfterWait(r) ==
  /\ place[r] = "fallback"
  /\ Create(r)
  /\ Goto(r, "setnx")
  /\ UNCHANGED <<cached, lock, entry, gone, polls, failing>>

SetIfAbsent(r) ==
  /\ place[r] = "setnx"
  /\ IF cached = None THEN cached' = answer[r] /\ Goto(r, "done")
                      ELSE Goto(r, "reget") /\ UNCHANGED cached
  /\ UNCHANGED <<lock, entry, created, gone, polls, answer, failing>>

GetAgain(r) ==
  /\ place[r] = "reget"
  /\ IF cached = None THEN Goto(r, "done") /\ UNCHANGED answer
                      ELSE Answer(r, cached) /\ Goto(r, "status")
  /\ UNCHANGED <<cached, lock, entry, created, gone, polls, failing>>

\* Whatever raises, the creation included, sends the request to the memory store;
\* a request that has the lock tries to release it on its way out, which may fail, too.
RedisPathRaises(r) ==
  /\ \/ place[r] \in {"get", "lock", "recheck", "store", "setnx", "reget"} /\ Raises("redis")
     \/ place[r] \in {"create", "fallback"} /\ Raises("create")
  /\ IF place[r] \in {"recheck", "create", "store"}
     THEN lock' \in {TokenCleared(r), lock}
     ELSE UNCHANGED lock
  /\ Goto(r, "memory")
  /\ UNCHANGED <<backend, cached, entry, created, gone, polls, answer>>

-----------------------------------------------------------------------------
(* The memory store. *)

MemoryGet(r) ==
  /\ place[r] = "memory"
  /\ IF entry # None THEN Answer(r, entry) /\ Goto(r, "status")
                     ELSE Goto(r, "memory create") /\ UNCHANGED answer
  /\ UNCHANGED <<cached, lock, entry, created, gone, polls, failing>>

\* Outside the lock; an exception goes to the client.
MemoryCreate(r) ==
  /\ place[r] = "memory create"
  /\ \/ Create(r) /\ Goto(r, "memory store") /\ Succeeds
     \/ Raises("create") /\ Goto(r, "error") /\ UNCHANGED <<created, answer>>
  /\ UNCHANGED <<backend, cached, lock, entry, gone, polls>>

MemoryStore(r) ==
  /\ place[r] = "memory store"
  /\ IF entry # None THEN Answer(r, entry) /\ Goto(r, "status") /\ UNCHANGED entry
                     ELSE entry' = answer[r] /\ Goto(r, "done") /\ UNCHANGED answer
  /\ UNCHANGED <<cached, lock, created, gone, polls, failing>>

-----------------------------------------------------------------------------
(* start_backtest_api on a reused job: one the registry does not know any more is  *)
(* forgotten (invalidate_idempotent_value), and the request starts over.           *)

CheckStatus(r) ==
  /\ place[r] = "status"
  /\ \/ answer[r] \notin gone /\ Goto(r, "done") /\ Succeeds /\ UNCHANGED cached
     \/ /\ answer[r] \in gone /\ backend = "redis"
        /\ \/ cached' = None /\ Succeeds /\ Goto(r, "forget lock")
           \/ Raises("redis") /\ Goto(r, "forget entry") /\ UNCHANGED cached
     \/ /\ answer[r] \in gone /\ backend = "memory"
        /\ Goto(r, "forget entry") /\ Succeeds /\ UNCHANGED cached
  /\ UNCHANGED <<backend, lock, entry, created, gone, polls, answer>>

ForgetLock(r) ==
  /\ place[r] = "forget lock"
  /\ \/ lock' = None /\ Succeeds
     \/ lock' = lock /\ Raises("redis")
  /\ Goto(r, "forget entry")
  /\ UNCHANGED <<backend, cached, entry, created, gone, polls, answer>>

ForgetEntry_Kept(r) ==   \* mutated form: only the value in Redis is forgotten
  /\ place[r] = "forget entry"
  /\ polls' = [polls EXCEPT ![r] = 0]
  /\ Goto(r, FirstPlace(r))
  /\ UNCHANGED <<cached, lock, entry, created, gone, answer, failing>>
ForgetEntry(r) ==
  /\ place[r] = "forget entry"
  /\ entry' = None
  /\ polls' = [polls EXCEPT ![r] = 0]
  /\ Goto(r, FirstPlace(r))
  /\ UNCHANGED <<cached, lock, created, gone, answer, failing>>

-----------------------------------------------------------------------------
(* What happens around the requests. *)

\* The lock key times out while its holder is at work, or after a failed release.
LockExpires ==
  /\ lock # None
  /\ TimesOut
  /\ lock' = None
  /\ UNCHANGED <<backend, cached, entry, created, gone, place, polls, answer>>

\* _cleanup_jobs_locked, or a restart of the process.
Vanish(job) ==
  /\ job \notin gone /\ Cardinality(gone) < MaxVanish
  /\ gone' = gone \cup {job}
  /\ trouble' = trouble \cup {"vanish"}
  /\ UNCHANGED <<backend, cached, lock, entry, created, place, polls, answer, raised>>

Step(r) ==
  \/ Get(r) \/ TakeLock(r) \/ Recheck(r) \/ CreateLocked(r) \/ Store(r) \/ ReleaseLock(r)
  \/ CreateAfterWait(r) \/ SetIfAbsent(r) \/ GetAgain(r) \/ RedisPathRaises(r)
  \/ MemoryGet(r) \/ MemoryCreate(r) \/ MemoryStore(r) \/ CheckStatus(r) \/ ForgetLock(r)
  \/ ForgetEntry(r)

StartNext ==
  \/ LockExpires
  \/ \E job \in 1 .. created : Vanish(job)
  \/ \E r \in Starters : Arrive(r) \/ Step(r)

\* The threads that serve the requests run, and Redis expires keys.
StartSpec ==
  /\ StartInit /\ [][StartNext]_startVars
  /\ WF_startVars(LockExpires) /\ \A r \in Starters : WF_startVars(Step(r))

-----------------------------------------------------------------------------
(* Properties. *)

Answered == {r \in Starters : place[r] = "done"}

\* However often, and however much at once, a request is sent with one key, one job is
\* started, with Redis, while nothing goes wrong.  In memory two may be: the store
\* creates outside its lock, the job of the second writer runs and nobody is told of it.
OneJobPerKey == backend = "redis" /\ trouble = {} => created <= 1

\* Any two answers name one job, as long as Redis does what it should; in memory, also
\* when a creation raises.  A slow creation breaks it (the holder of the lock overwrites
\* what a waiter has stored with SET NX), and so does a job that vanishes (the second
\* request that notices forgets the new job of the first).
AnswersAgree ==
  trouble \subseteq (IF backend = "redis" THEN {} ELSE {"create"}) =>
    \A r, s \in Answered : answer[r] = answer[s]

\* Every request is answered, well or not, whatever fails or vanishes: the wait has an end, and a
\* lost job is started over for only while jobs are lost.
RequestSettles == \A r \in Starters : place[r] # "idle" ~> place[r] \in {"done", "error"}

\* What a key keeps to.
KeyIsHonoured == OneJobPerKey /\ AnswersAgree
=============================================================================
