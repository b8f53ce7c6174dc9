---------------------------- MODULE HashLimiter ----------------------------
(***************************************************************************)
(* hashLimiter (backend/internal/app/auth.go): a few password hashes run   *)
(* at once, a few more requests wait for a slot, the rest are refused.     *)
(***************************************************************************)
EXTENDS Integers, FiniteSets

CONSTANTS
  Hashers,             \* concurrent requests
  maxConcurrentHashes,
  maxPendingHashes

ASSUME HashAssumption ==
  {maxConcurrentHashes, maxPendingHashes} \subseteq Nat \ {0} /\ IsFiniteSet(Hashers)

VARIABLES
  slots, pending,   \* hashLimiter
  stage             \* where do is, for each request

hashVars == <<slots, pending, stage>>

Inside(where) == {h \in Hashers : stage[h] \in where}

-----------------------------------------------------------------------------
\* The count is raised before it is compared ...
HashEnter(h) ==
  /\ stage[h] = "out"
  /\ pending' = pending + 1
  /\ stage' = [stage EXCEPT ![h] = IF pending + 1 > maxPendingHashes THEN "busy" ELSE "wait"]
  /\ UNCHANGED slots

\* A bug: a refused request stays counted.
HashBusyKept(h) ==
  /\ stage[h] = "busy"
  /\ stage' = [stage EXCEPT ![h] = "out"]
  /\ UNCHANGED <<pending, slots>>

\* ... and a request over the limit takes it back and fails with ErrBusy.
HashBusy(h) ==
  /\ stage[h] = "busy"
  /\ pending' = pending - 1
  /\ stage' = [stage EXCEPT ![h] = "out"]
  /\ UNCHANGED slots

HashSlot(h) ==
  /\ stage[h] = "wait" /\ slots < maxConcurrentHashes
  /\ slots' = slots + 1
  /\ stage' = [stage EXCEPT ![h] = "hashing"]
  /\ UNCHANGED pending

\* The wait for a slot ends with the timer or with the request.
HashTimeout(h) ==
  /\ stage[h] = "wait"
  /\ pending' = pending - 1
  /\ stage' = [stage EXCEPT ![h] = "out"]
  /\ UNCHANGED slots

\* The deferred calls give back the slot, then the place in the queue.
HashEnd(h) ==
  /\ stage[h] = "hashing"
  /\ slots' = slots - 1 /\ pending' = pending - 1
  /\ stage' = [stage EXCEPT ![h] = "out"]

-----------------------------------------------------------------------------
HashInit == slots = 0 /\ pending = 0 /\ stage = [h \in Hashers |-> "out"]

HashStep(h) == HashBusy(h) \/ HashSlot(h) \/ HashTimeout(h) \/ HashEnd(h)

HashNext == \E h \in Hashers : HashEnter(h) \/ HashStep(h)

HashSpec == HashInit /\ [][HashNext]_hashVars

-----------------------------------------------------------------------------
\* hashLimiter.do: whatever way requests leave, at most maxConcurrentHashes
\* hash at once, at most maxPendingHashes are let in, and both counters are
\* exactly the requests that hold them.
HashesBounded ==
  /\ Cardinality(Inside({"hashing"})) <= maxConcurrentHashes
  /\ Cardinality(Inside({"wait", "hashing"})) <= maxPendingHashes
  /\ slots = Cardinality(Inside({"hashing"}))
  /\ pending = Cardinality(Inside({"wait", "hashing", "busy"}))
=============================================================================
