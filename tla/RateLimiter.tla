----------------------------- MODULE RateLimiter -----------------------------
(***************************************************************************)
(* The fixed-window rate limiter in front of messages and uploads          *)
(* (apps/api/app/core/rate_limit.py).  It keeps a window for each key and a*)
(* heap of the windows' ends, forgets windows that ended, and at max_keys  *)
(* gives up the window that ends first to admit a new key.                 *)
(*                                                                         *)
(* allow() awaits nothing while it holds its lock, so a call is one step;  *)
(* the time it reads before it takes the lock is that of the step.  Seconds*)
(* are whole numbers.                                                      *)
(***************************************************************************)
EXTENDS Integers, FiniteSets

CONSTANTS
  Keys,           \* "user:conversation" or "user:booking", in their order
  Limit,          \* limit
  WindowSeconds,  \* window_seconds
  MaxKeys,        \* max_keys
  MaxTime,        \* bound of the model on the clock
  MaxCalls        \* bound of the model on admitted calls

ASSUME LimiterAssumption ==
  /\ Keys \subseteq Nat
  /\ Limit \in Nat \ {0} /\ WindowSeconds \in Nat \ {0} /\ MaxKeys \in Nat \ {0}
  /\ MaxTime \in Nat /\ MaxCalls \in Nat

VARIABLES
  now,       \* time.monotonic()
  entries,   \* _entries[k], or NoWindow
  expiries,  \* _expiries: the heap, as a set of [at, key]
  admitted,  \* history: the calls that were admitted
  evicted    \* history: the keys that lost a window before its end

limiterVars == <<now, entries, expiries, admitted, evicted>>
-----------------------------------------------------------------------------
NoWindow == [count |-> 0, resetAt |-> 0]

Windows == [count : 1..Limit, resetAt : Nat \ {0}] \cup {NoWindow}
Expiries == [at : Nat \ {0}, key : Keys]
Calls == [key : Keys, at : Nat, serial : Nat]

LimiterTypeOK ==
  /\ now \in 0..MaxTime
  /\ entries \in [Keys -> Windows]
  /\ expiries \subseteq Expiries
  /\ admitted \subseteq Calls
  /\ evicted \subseteq Keys

LimiterInit ==
  /\ now = 0
  /\ entries = [k \in Keys |-> NoWindow]
  /\ expiries = {}
  /\ admitted = {}
  /\ evicted = {}
-----------------------------------------------------------------------------
(* The order of heapq on pairs.                                            *)
Precedes(e, f) == e.at < f.at \/ (e.at = f.at /\ e.key < f.key)

(* The heap's pair of a window; a pair is stale if its window is not there.*)
ExpiryOf(k) == [at |-> entries[k].resetAt, key |-> k]

(* Variant: a window that ends now is not over.                            *)
Expired_Strictly == {e \in expiries : e.at < now}

(* What the first loop pops.                                               *)
Expired == {e \in expiries : e.at <= now}

Pending == expiries \ Expired
Running(k) == IF ExpiryOf(k) \in Expired THEN NoWindow ELSE entries[k]
Held == {k \in Keys : Running(k) # NoWindow}

(* What the second loop pops: up to the first pair whose window is there.  *)
First(e) == e.key \in Held /\ e = ExpiryOf(e.key) /\
            \A f \in Pending : Precedes(f, e) => f.key \notin Held \/ f # ExpiryOf(f.key)

(* Variant: the windows that are given up stay in the dictionary.          *)
Victims_None == {}

Victims == {e.key : e \in {f \in Pending : First(f)}}

Popped == {e \in Pending : \A k \in Victims : e = ExpiryOf(k) \/ Precedes(e, ExpiryOf(k))}

Fresh == [count |-> 1, resetAt |-> now + WindowSeconds]

(* The history's calls of a key from one time to another.                  *)
CallsIn(key, from, to) == {c \in admitted : c.key = key /\ from <= c.at /\ c.at < to}

Admit(key) ==
  /\ Cardinality(admitted) < MaxCalls
  /\ admitted' = admitted
       \cup {[key |-> key, at |-> now, serial |-> Cardinality(CallsIn(key, now, now + 1))]}

(* A window for a key that has none.                                       *)
Open(key, victims, popped) ==
  /\ key \notin Held
  /\ entries' = [k \in Keys |-> IF k = key THEN Fresh
                                ELSE IF k \in victims THEN NoWindow ELSE Running(k)]
  /\ expiries' = (Pending \ popped) \cup {[at |-> Fresh.resetAt, key |-> key]}
  /\ evicted' = evicted \cup victims
  /\ Admit(key)
  /\ UNCHANGED now

OpenWithRoom(key) == Cardinality(Held) < MaxKeys /\ Open(key, {}, {})

OpenAtCapacity(key) == Cardinality(Held) >= MaxKeys /\ Open(key, Victims, Popped)

(* Variant: the limit is looked at when a window opens only.               *)
Count_Unlimited(key) ==
  /\ key \in Held
  /\ entries' = [k \in Keys |->
       IF k = key THEN [count |-> Running(k).count, resetAt |-> Running(k).resetAt]
       ELSE Running(k)]
  /\ expiries' = Pending
  /\ Admit(key)
  /\ UNCHANGED <<now, evicted>>

Count(key) ==
  /\ key \in Held /\ Running(key).count < Limit
  /\ entries' = [k \in Keys |->
       IF k = key THEN [count |-> Running(k).count + 1, resetAt |-> Running(k).resetAt]
       ELSE Running(k)]
  /\ expiries' = Pending
  /\ Admit(key)
  /\ UNCHANGED <<now, evicted>>

Refused(key) == key \in Held /\ Running(key).count >= Limit

(* A refused call has forgotten the windows that ended, too.               *)
Refuse(key) ==
  /\ Refused(key)
  /\ entries' = [k \in Keys |-> Running(k)]
  /\ expiries' = Pending
  /\ UNCHANGED <<now, admitted, evicted>>

Tick ==
  /\ now < MaxTime
  /\ now' = now + 1
  /\ UNCHANGED <<entries, expiries, admitted, evicted>>

Allow(key) == OpenWithRoom(key) \/ OpenAtCapacity(key) \/ Count(key) \/ Refuse(key)

LimiterNext == Tick \/ \E key \in Keys : Allow(key)

LimiterSpec == LimiterInit /\ [][LimiterNext]_limiterVars
-----------------------------------------------------------------------------
(* The two loops trust the heap: its pairs are exactly the windows' ends,  *)
(* so no window is left that is never forgotten, and stale pairs do not    *)
(* pile up.                                                                *)
HeapMatches == expiries = {ExpiryOf(k) : k \in {l \in Keys : entries[l] # NoWindow}}

(* However many users and conversations there are, the limiter holds at    *)
(* most max_keys windows and as many pairs.                                *)
MemoryIsBounded ==
  /\ Cardinality({k \in Keys : entries[k] # NoWindow}) <= MaxKeys
  /\ Cardinality(expiries) <= MaxKeys

(* Nobody is refused for calls of somebody else or calls long ago: a key   *)
(* that is refused was admitted limit times within the last window_seconds.*)
RefusalIsEarned ==
  \A key \in Keys :
    Refused(key) => Cardinality(CallsIn(key, now - WindowSeconds + 1, now + 1)) >= Limit

(* The burst that fixed windows allow where two of them meet: fewer than   *)
(* twice the limit in any window_seconds, for a key that was not evicted.  *)
BurstsAreBounded ==
  \A key \in Keys \ evicted, t \in 0..MaxTime :
    Cardinality(CallsIn(key, t, t + WindowSeconds)) < 2 * Limit
=============================================================================
