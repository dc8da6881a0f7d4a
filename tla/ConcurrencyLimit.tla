---------------------------- MODULE ConcurrencyLimit ----------------------------
(***************************************************************************)
(* The ceilings on how many guarded requests of a subject, of an address   *)
(* and of everybody run at once (backend/app/core/concurrency_limit.py and *)
(* the middleware of backend/app/main.py), for one scope.  The counters    *)
(* are keys of the state Redis with an expiry, one call to Redis an        *)
(* action; when a call raises, the request is counted in memory instead.   *)
(* The middleware makes the calls of one process one after the other, and  *)
(* the processes beside each other: any interleaving is allowed here.  The *)
(* counters in memory are those of one process.                            *)
(***************************************************************************)
EXTENDS Integers, FiniteSets, Sequences, Functions

CONSTANTS
  Guarded,       \* the requests
  Keys,          \* the counters of the scope
  KeysOf,        \* the counters of a request: in the code, of its subject, its address and all
  Limit,         \* the ceiling of each counter
  Missing,       \* a key that does not exist
  MaxCrashes     \* bound on the deaths of the process, for TLC

Counter == [value : Int, expires : BOOLEAN]

\* The ceilings are 1 at least, and the names of a request's counters start with what they are of.
ASSUME SlotAssumption ==
  /\ IsFiniteSet(Guarded) /\ Missing \notin Counter /\ MaxCrashes \in Nat
  /\ Limit \in [Keys -> Nat \ {0}]
  /\ KeysOf \in [Guarded -> Seq(Keys)]
  /\ \A r \in Guarded : KeysOf[r] # << >> /\ IsInjective(KeysOf[r])

VARIABLES
  redis,     \* the counters in Redis: value, and whether the key has an expiry
  memory,    \* _MEMORY_COUNTERS; a missing counter counts as 0
  crashes,   \* how often the process has died
  at,        \* where each request is
  turn,      \* the counter its next call is about
  touched,   \* how many counters it has incremented, as far as it knows
  over,      \* whether it saw a counter above its ceiling
  mishaps    \* history: what has gone wrong in Redis

slotVars == <<redis, memory, crashes, at, turn, touched, over, mishaps>>

SlotTypeOK ==
  /\ redis \in [Keys -> Counter \cup {Missing}]
  /\ memory \in [Keys -> Nat]
  /\ crashes \in 0 .. MaxCrashes
  /\ at \in [Guarded -> {"idle", "incr", "expire", "held", "release", "denied", "failed",
                          "memory", "held in memory", "done"}]
  /\ \A r \in Guarded : turn[r] \in 1 .. Len(KeysOf[r]) /\ touched[r] \in 0 .. Len(KeysOf[r])
  /\ over \in [Guarded -> BOOLEAN]
  /\ mishaps \subseteq {"count",      \* an INCR or EXPIRE raised, its effect done or not
                        "uncount",    \* or a DECR did
                        "expiry"}     \* a counter reached its TTL while requests were counted

SlotInit ==
  /\ redis = [k \in Keys |-> Missing]
  /\ memory = [k \in Keys |-> 0]
  /\ crashes = 0
  /\ at = [r \in Guarded |-> "idle"]
  /\ turn = [r \in Guarded |-> 1]
  /\ touched = [r \in Guarded |-> 0]
  /\ over = [r \in Guarded |-> FALSE]
  /\ mishaps = {}

Key(r) == KeysOf[r][turn[r]]
Counts(r) == Range(KeysOf[r])
UsesRedis(r) == at[r] \notin {"idle", "memory", "held in memory", "done"}

-----------------------------------------------------------------------------
(* Redis: INCR and DECR create a missing key without an expiry. *)

Value(k) == IF redis[k] = Missing THEN 0 ELSE redis[k].value

Add(k, d) ==
  [redis EXCEPT ![k] = [value |-> Value(k) + d, expires |-> redis[k] # Missing /\ redis[k].expires]]

\* A call that raises may have had its effect.
CallRaises(fault, effect) == redis' \in {redis, effect} /\ mishaps' = mishaps \cup {fault}

CallSucceeds(effect) == redis' = effect /\ UNCHANGED mishaps

\* A key with an expiry reaches it, with or without requests that count on it.
KeyExpires(k) ==
  /\ redis[k] # Missing /\ redis[k].expires
  /\ mishaps' = IF \E r \in Guarded : k \in Counts(r) /\ UsesRedis(r)
                THEN mishaps \cup {"expiry"} ELSE mishaps
  /\ redis' = [redis EXCEPT ![k] = Missing]
  /\ UNCHANGED <<memory, crashes, at, turn, touched, over>>

-----------------------------------------------------------------------------
(* acquire_concurrency_slot *)

Enter(r) ==
  /\ at[r] = "idle"
  /\ at' = [at EXCEPT ![r] = "incr"]
  /\ UNCHANGED <<redis, mishaps, memory, crashes, turn, touched, over>>

\* An attempt that fails, or is denied, takes back its increments from the first on.
GiveBack(r, why) ==
  /\ at' = [at EXCEPT ![r] = IF touched'[r] > 0 THEN why ELSE "memory"]
  /\ turn' = [turn EXCEPT ![r] = 1]

\* After the last counter the request is let in if it saw none above its ceiling.
AfterCounter(r) ==
  IF turn[r] < Len(KeysOf[r]) THEN at' = [at EXCEPT ![r] = "incr"] /\ turn' = [turn EXCEPT ![r] = @ + 1]
  ELSE IF over'[r] THEN GiveBack(r, "denied")
  ELSE at' = [at EXCEPT ![r] = "held"] /\ UNCHANGED turn

OverCeiling_Late(r) == Value(Key(r)) > Limit[Key(r)]   \* mutated form: compares the old value
OverCeiling(r) == Value(Key(r)) + 1 > Limit[Key(r)]

\* INCR of one counter; the first to count sets the expiry.
Increment(r) ==
  /\ at[r] = "incr"
  /\ \/ /\ CallSucceeds(Add(Key(r), 1))
        /\ over' = [over EXCEPT ![r] = @ \/ OverCeiling(r)]
        /\ touched' = [touched EXCEPT ![r] = @ + 1]
        /\ IF Value(Key(r)) + 1 = 1
           THEN at' = [at EXCEPT ![r] = "expire"] /\ UNCHANGED turn
           ELSE AfterCounter(r)
     \/ /\ CallRaises("count", Add(Key(r), 1))
        /\ UNCHANGED <<over, touched>>
        /\ GiveBack(r, "failed")
  /\ UNCHANGED <<memory, crashes>>

\* EXPIRE of a key that is gone does nothing.
Expire(r) ==
  /\ at[r] = "expire"
  /\ UNCHANGED <<over, touched>>
  /\ LET effect == IF redis[Key(r)] = Missing THEN redis
                   ELSE [redis EXCEPT ![Key(r)].expires = TRUE]
     IN  \/ CallSucceeds(effect) /\ AfterCounter(r)
         \/ CallRaises("count", effect) /\ GiveBack(r, "failed")
  /\ UNCHANGED <<memory, crashes>>

\* One DECR of a request that was denied, failed or has ended; errors are ignored.
LastTouched_AllButOne(r) == touched[r] - 1   \* mutated form: the last one stays
LastTouched(r) == touched[r]

Decrement(r) ==
  /\ at[r] \in {"denied", "failed", "release"}
  /\ CallSucceeds(Add(Key(r), -1)) \/ CallRaises("uncount", Add(Key(r), -1))
  /\ IF turn[r] < LastTouched(r)
     THEN turn' = [turn EXCEPT ![r] = @ + 1] /\ UNCHANGED at
     ELSE at' = [at EXCEPT ![r] = IF @ = "failed" THEN "memory" ELSE "done"] /\ UNCHANGED turn
  /\ UNCHANGED <<memory, crashes, touched, over>>

\* The response has been sent: release_concurrency_slot in the finally of the middleware.
Release(r) ==
  /\ at[r] = "held"
  /\ at' = [at EXCEPT ![r] = "release"]
  /\ turn' = [turn EXCEPT ![r] = 1]
  /\ UNCHANGED <<redis, mishaps, memory, crashes, touched, over>>

\* _memory_try_acquire is one critical section.
MemoryAcquire(r) ==
  /\ at[r] = "memory"
  /\ IF \A k \in Counts(r) : memory[k] < Limit[k]
     THEN /\ memory' = [k \in Keys |-> IF k \in Counts(r) THEN memory[k] + 1 ELSE memory[k]]
          /\ at' = [at EXCEPT ![r] = "held in memory"]
     ELSE at' = [at EXCEPT ![r] = "done"] /\ UNCHANGED memory
  /\ UNCHANGED <<redis, mishaps, crashes, turn, touched, over>>

MemoryRelease(r) ==
  /\ at[r] = "held in memory"
  /\ memory' = [k \in Keys |-> IF k \in Counts(r) /\ memory[k] > 0 THEN memory[k] - 1 ELSE memory[k]]
  /\ at' = [at EXCEPT ![r] = "done"]
  /\ UNCHANGED <<redis, mishaps, crashes, turn, touched, over>>

\* The process dies with the requests it serves.
Crash ==
  /\ crashes < MaxCrashes
  /\ crashes' = crashes + 1
  /\ memory' = [k \in Keys |-> 0]
  /\ at' = [r \in Guarded |-> IF at[r] = "idle" THEN "idle" ELSE "done"]
  /\ UNCHANGED <<redis, mishaps, turn, touched, over>>

-----------------------------------------------------------------------------
Serve(r) ==
  \/ Increment(r) \/ Expire(r) \/ Decrement(r) \/ Release(r)
  \/ MemoryAcquire(r) \/ MemoryRelease(r)

SlotNext ==
  \/ Crash
  \/ \E k \in Keys : KeyExpires(k)
  \/ \E r \in Guarded : Enter(r) \/ Serve(r)

\* Guarded are served to their end.
SlotSpec ==
  /\ SlotInit /\ [][SlotNext]_slotVars
  /\ \A r \in Guarded : WF_slotVars(Serve(r))

-----------------------------------------------------------------------------
(* Properties. *)

Holders(k) == {r \in Guarded : at[r] = "held" /\ k \in Counts(r)}
MemoryHolders(k) == {r \in Guarded : at[r] = "held in memory" /\ k \in Counts(r)}

\* A ceiling holds for the requests let in by Redis, whatever call fails and whatever
\* dies: every one of them is in the counter before it looks at it.  A counter that
\* reaches its TTL under load breaks this, for only the step from 0 to 1 sets the expiry.
CeilingHolds ==
  "expiry" \notin mishaps => \A k \in Keys : Cardinality(Holders(k)) <= Limit[k]

\* A counter never counts less than the requests it let in, whatever fails: a request
\* never gives back more than it took.
CounterCoversHolders ==
  "expiry" \notin mishaps => \A k \in Keys : Value(k) >= Cardinality(Holders(k))

\* The counters in memory agree with the requests they let in, also when Redis fails
\* in the middle of an attempt.
MemoryIsExact == \A k \in Keys : memory[k] = Cardinality(MemoryHolders(k))

\* A slot comes back by what the requests take back themselves, denied ones and released ones alike,
\* and not by the expiry that the counter has besides, as long as no call fails and nobody dies.
Users(k) == {r \in Guarded : k \in Counts(r) /\ UsesRedis(r)}
SlotsComeBack ==
  \A k \in Keys : [](Users(k) = {} /\ mishaps = {} /\ crashes = 0 => Value(k) = 0)

\* What the counters keep to, whatever fails.
SlotsAreCounted == CeilingHolds /\ CounterCoversHolders /\ MemoryIsExact
=============================================================================
