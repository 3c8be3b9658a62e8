-------------------------- MODULE ApiProcessProofs ---------------------------
(***************************************************************************)
(* Theorems about what a process of the API keeps in its memory:           *)
(* RateLimiter, for every number of keys and every limit, window and       *)
(* capacity, and then ConnectionHub, for any sockets and any size of queue.*)
(***************************************************************************)
EXTENDS RateLimiter, ConnectionHub, FiniteSetTheorems, TLAPS

LiveKeys == {k \in Keys : entries[k] # NoWindow}

(* The types, the heap, and the number of windows.                         *)
MemoryInv ==
  /\ LimiterTypeOK /\ IsFiniteSet(admitted)
  /\ HeapMatches
  /\ IsFiniteSet(LiveKeys) /\ Cardinality(LiveKeys) <= MaxKeys

(* What a call finds after it has forgotten the windows that ended.        *)
LEMMA Forgetting ==
  ASSUME LimiterTypeOK, HeapMatches
  PROVE  /\ Held \subseteq LiveKeys
         /\ \A k \in Keys : Running(k) = IF k \in Held THEN entries[k] ELSE NoWindow
         /\ \A k \in Held : Running(k).resetAt > now
         /\ Pending = {ExpiryOf(k) : k \in Held}
<1>1. \A k \in Keys : k \in Held <=> entries[k] # NoWindow /\ ExpiryOf(k) \notin Expired
  BY DEF Held, Running
<1>2. \A k \in Keys : entries[k] # NoWindow => ExpiryOf(k) \in expiries /\ entries[k].resetAt \in Nat
  BY DEF HeapMatches, LimiterTypeOK, Windows, NoWindow
<1>3. \A k \in Keys : Running(k) = IF k \in Held THEN entries[k] ELSE NoWindow
  BY DEF Held, Running
<1>4. \A k \in Held : Running(k).resetAt > now
  <2>1. TAKE k \in Held
  <2>2. k \in Keys /\ ExpiryOf(k) \in expiries /\ ExpiryOf(k) \notin Expired
    BY <1>1, <1>2 DEF Held
  <2>3. ~(ExpiryOf(k).at <= now) /\ ExpiryOf(k).at = entries[k].resetAt
    BY <2>2 DEF Expired, ExpiryOf
  <2>4. QED
    BY <1>1, <1>2, <1>3, <2>2, <2>3 DEF LimiterTypeOK
<1>5. Pending \subseteq {ExpiryOf(k) : k \in Held}
  BY <1>1 DEF Pending, HeapMatches
<1>6. {ExpiryOf(k) : k \in Held} \subseteq Pending
  BY <1>1, <1>2 DEF Pending, Held
<1>7. QED
  BY <1>1, <1>3, <1>4, <1>5, <1>6 DEF LiveKeys, Held

(* Precedes is a strict total order of the heap's pairs.                   *)
LEMMA PairsAreOrdered ==
  /\ \A e \in Expiries : ~Precedes(e, e)
  /\ \A e, f, g \in Expiries : Precedes(e, f) /\ Precedes(f, g) => Precedes(e, g)
  /\ \A e, f \in Expiries : e = f \/ Precedes(e, f) \/ Precedes(f, e)
<1>1. \A e \in Expiries : e.at \in Nat /\ e.key \in Nat
  BY LimiterAssumption DEF Expiries
<1>2. \A e, f \in Expiries : e.at = f.at /\ e.key = f.key => e = f
  BY DEF Expiries
<1>3. QED
  BY <1>1, <1>2 DEF Precedes

(* A heap that is not empty has a first pair.                              *)
LEMMA FirstPair ==
  ASSUME NEW pairs, pairs \subseteq Expiries, IsFiniteSet(pairs), pairs # {}
  PROVE  \E e \in pairs : \A f \in pairs \ {e} : Precedes(e, f)
<1> DEFINE Below(e) == {f \in pairs : Precedes(f, e)}
           Belows == {Below(e) : e \in pairs}
<1>1. Belows \subseteq FiniteSubsetsOf(pairs) /\ Belows # {}
  <2>1. FiniteSubsetsOf(pairs) = SUBSET pairs
    BY FS_FiniteSubsetsOfFinite
  <2>2. \A e \in pairs : Below(e) \in SUBSET pairs
    OBVIOUS
  <2>3. Belows \subseteq SUBSET pairs
    BY <2>2
  <2>4. Belows # {}
    OBVIOUS
  <2>5. QED
    BY <2>1, <2>3, <2>4
<1>2. PICK below \in Belows :
        \A other \in Belows : <<other, below>> \notin StrictSubsetOrdering(pairs)
  <2> HIDE DEF Belows
  <2>1. QED
    BY <1>1, FS_StrictSubsetOrderingWellFounded, WFMin
<1>3. PICK e \in pairs : below = Below(e)
  BY <1>2
<1>4. \A f \in pairs : ~Precedes(f, e)
  <2>1. SUFFICES ASSUME NEW f \in pairs, Precedes(f, e) PROVE FALSE
    OBVIOUS
  <2>2. Below(f) \subseteq Below(e) /\ f \in Below(e) /\ f \notin Below(f)
    BY <2>1, PairsAreOrdered
  <2>3. Below(f) \subseteq pairs /\ Below(e) \subseteq pairs /\ Below(f) # Below(e)
    BY <2>2
  <2>4. <<Below(f), Below(e)>> \in StrictSubsetOrdering(pairs)
    <3> HIDE DEF Below
    <3>1. QED
      BY <2>2, <2>3 DEF StrictSubsetOrdering
  <2>5. Below(f) \in Belows
    OBVIOUS
  <2>6. QED
    BY <1>2, <1>3, <2>4, <2>5
<1>5. QED
  BY <1>4, PairsAreOrdered

(* At capacity the second loop gives up one window, the first to end.      *)
LEMMA OneVictim ==
  ASSUME LimiterTypeOK, HeapMatches, IsFiniteSet(LiveKeys), Held # {}
  PROVE  \E victim \in Held : Victims = {victim} /\ Popped = {ExpiryOf(victim)}
<1>1. Held \subseteq LiveKeys /\ Pending = {ExpiryOf(k) : k \in Held} /\ Held \subseteq Keys
  BY Forgetting DEF Held
<1>2. Pending \subseteq Expiries /\ Pending # {}
  BY <1>1 DEF LimiterTypeOK, Pending
<1>3. \A k \in Held : ExpiryOf(k).key = k
  BY DEF ExpiryOf
<1>4. IsFiniteSet(Pending)
  <2>1. IsFiniteSet(Held)
    BY <1>1, FS_Subset
  <2> DEFINE pair == [k \in Held |-> ExpiryOf(k)]
  <2>2. pair \in Surjection(Held, Pending)
    BY <1>1 DEF Surjection
  <2>3. QED
    BY <2>1, <2>2, FS_Surjection
<1>5. PICK e \in Pending : \A f \in Pending \ {e} : Precedes(e, f)
  BY <1>2, <1>4, FirstPair
<1>6. PICK victim \in Held : e = ExpiryOf(victim)
  BY <1>1
<1>7. \A f \in Pending : ~Precedes(f, e)
  BY <1>2, <1>5, PairsAreOrdered
<1>8. \A f \in Pending : f.key \in Held /\ f = ExpiryOf(f.key)
  BY <1>1, <1>3
<1>9. \A f \in Pending : First(f) <=> f = e
  BY <1>5, <1>7, <1>8 DEF First
<1>10. Victims = {victim}
  BY <1>3, <1>5, <1>6, <1>9 DEF Victims
<1>11. Popped = {ExpiryOf(victim)}
  BY <1>5, <1>6, <1>7, <1>10 DEF Popped
<1>12. QED
  BY <1>10, <1>11

LEMMA CallsAreFinite ==
  ASSUME IsFiniteSet(admitted), NEW key, NEW from, NEW to
  PROVE  IsFiniteSet(CallsIn(key, from, to)) /\ Cardinality(CallsIn(key, from, to)) \in Nat
<1>1. CallsIn(key, from, to) \in SUBSET admitted
  BY DEF CallsIn
<1>2. QED
  BY <1>1, FS_Subset, FS_CardinalityType

LEMMA AdmitType ==
  ASSUME LimiterTypeOK, IsFiniteSet(admitted), NEW key \in Keys, Admit(key)
  PROVE  admitted' \subseteq Calls /\ IsFiniteSet(admitted')
<1> DEFINE n == Cardinality(CallsIn(key, now, now + 1))
<1>1. n \in Nat
  BY CallsAreFinite
<1>2. admitted' = admitted \cup {[key |-> key, at |-> now, serial |-> n]}
  BY DEF Admit
<1>3. [key |-> key, at |-> now, serial |-> n] \in Calls
  <2> HIDE DEF n
  <2>1. now \in Nat
    BY LimiterAssumption DEF LimiterTypeOK
  <2>2. QED
    BY <1>1, <2>1 DEF Calls
<1>4. IsFiniteSet(admitted')
  <2> HIDE DEF n
  <2>1. QED
    BY <1>2, FS_AddElement
<1>5. QED
  BY <1>2, <1>3, <1>4 DEF LimiterTypeOK

LEMMA FreshType == LimiterTypeOK => Fresh \in Windows /\ Fresh # NoWindow /\ Fresh.resetAt \in Nat \ {0}
<1> SUFFICES ASSUME LimiterTypeOK PROVE Fresh \in Windows /\ Fresh # NoWindow /\ Fresh.resetAt \in Nat \ {0}
  OBVIOUS
<1>1. now \in Nat /\ now + WindowSeconds \in Nat \ {0} /\ 1 \in 1..Limit
  BY LimiterAssumption DEF LimiterTypeOK
<1>2. Fresh = [count |-> 1, resetAt |-> now + WindowSeconds]
  BY DEF Fresh
<1>3. Fresh \in Windows
  BY <1>1, <1>2 DEF Windows
<1>4. QED
  BY <1>1, <1>2, <1>3 DEF NoWindow

(* A new window, whatever was given up for it.                             *)
LEMMA OpenKeepsHeap ==
  ASSUME LimiterTypeOK, IsFiniteSet(admitted), HeapMatches,
         NEW key \in Keys, NEW victims, victims \subseteq Held,
         Open(key, victims, {ExpiryOf(k) : k \in victims})
  PROVE  /\ LimiterTypeOK' /\ IsFiniteSet(admitted') /\ HeapMatches'
         /\ LiveKeys' = (Held \ victims) \cup {key}
<1>1. /\ key \notin Held
      /\ entries' = [k \in Keys |-> IF k = key THEN Fresh
                                    ELSE IF k \in victims THEN NoWindow ELSE Running(k)]
      /\ expiries' = (Pending \ {ExpiryOf(k) : k \in victims})
                       \cup {[at |-> Fresh.resetAt, key |-> key]}
      /\ evicted' = evicted \cup victims /\ now' = now /\ Admit(key)
  BY DEF Open
<1>2. /\ Held \subseteq Keys
      /\ \A k \in Keys : Running(k) = IF k \in Held THEN entries[k] ELSE NoWindow
      /\ Pending = {ExpiryOf(k) : k \in Held}
  BY Forgetting DEF Held
<1>3. Fresh \in Windows /\ Fresh # NoWindow /\ Fresh.resetAt \in Nat \ {0}
  BY FreshType
<1>4. \A k \in Held : entries[k] # NoWindow
  BY <1>2 DEF Held
<1>5. LiveKeys' = (Held \ victims) \cup {key}
  BY <1>1, <1>2, <1>3, <1>4 DEF LiveKeys
<1>6. HeapMatches'
  <2>1. \A k \in Held \ victims : ExpiryOf(k)' = ExpiryOf(k)
    BY <1>1, <1>2 DEF ExpiryOf
  <2>2. ExpiryOf(key)' = [at |-> Fresh.resetAt, key |-> key]
    BY <1>1 DEF ExpiryOf
  <2>3. \A k, l \in Held : ExpiryOf(k) = ExpiryOf(l) => k = l
    BY DEF ExpiryOf
  <2>4. expiries' = {ExpiryOf(k) : k \in Held \ victims} \cup {ExpiryOf(key)'}
    BY <1>1, <1>2, <2>2, <2>3
  <2>5. HeapMatches' <=> expiries' = {ExpiryOf(k)' : k \in LiveKeys'}
    BY DEF HeapMatches, LiveKeys
  <2>6. {ExpiryOf(k)' : k \in LiveKeys'} = {ExpiryOf(k) : k \in Held \ victims} \cup {ExpiryOf(key)'}
    BY <1>5, <2>1
  <2>7. QED
    BY <2>4, <2>5, <2>6
<1>7. LimiterTypeOK' /\ IsFiniteSet(admitted')
  <2>1. entries' \in [Keys -> Windows]
    BY <1>1, <1>2, <1>3 DEF LimiterTypeOK, Windows
  <2>2. expiries' \subseteq Expiries
    <3>1. [at |-> Fresh.resetAt, key |-> key] \in Expiries
      BY <1>3 DEF Expiries
    <3>2. QED
      BY <1>1, <3>1 DEF LimiterTypeOK, Pending
  <2>3. QED
    BY <1>1, <1>2, <2>1, <2>2, AdmitType DEF LimiterTypeOK
<1>8. QED
  BY <1>5, <1>6, <1>7

(* A call that opens no window only forgets and perhaps counts.            *)
LEMMA KeptWindows ==
  ASSUME LimiterTypeOK, HeapMatches, expiries' = Pending, entries' \in [Keys -> Windows],
         \A k \in Held : entries'[k] # NoWindow /\ entries'[k].resetAt = entries[k].resetAt,
         \A k \in Keys \ Held : entries'[k] = NoWindow
  PROVE  HeapMatches' /\ LiveKeys' = Held
<1>1. Held \subseteq Keys /\ Pending = {ExpiryOf(k) : k \in Held}
  BY Forgetting DEF Held
<1>2. LiveKeys' = Held
  BY <1>1 DEF LiveKeys
<1>3. \A k \in Held : ExpiryOf(k)' = ExpiryOf(k)
  BY DEF ExpiryOf
<1>4. HeapMatches' <=> expiries' = {ExpiryOf(k)' : k \in LiveKeys'}
  BY DEF HeapMatches, LiveKeys
<1>5. QED
  BY <1>1, <1>2, <1>3, <1>4

LEMMA CountKeepsHeap ==
  ASSUME LimiterTypeOK, IsFiniteSet(admitted), HeapMatches, NEW key \in Keys, Count(key)
  PROVE  /\ LimiterTypeOK' /\ IsFiniteSet(admitted') /\ HeapMatches' /\ LiveKeys' = Held
         /\ entries'[key] = [count |-> entries[key].count + 1, resetAt |-> entries[key].resetAt]
         /\ \A k \in Keys \ {key} : entries'[k] = Running(k)
<1>1. /\ key \in Held /\ Running(key).count < Limit
      /\ entries' = [k \in Keys |->
           IF k = key THEN [count |-> Running(k).count + 1, resetAt |-> Running(k).resetAt]
           ELSE Running(k)]
      /\ expiries' = Pending /\ Admit(key) /\ UNCHANGED <<now, evicted>>
  BY DEF Count
<1>2. /\ \A k \in Keys : Running(k) = IF k \in Held THEN entries[k] ELSE NoWindow
      /\ \A k \in Held : k \in Keys /\ entries[k] # NoWindow
  BY Forgetting DEF Held
<1>3. /\ entries[key].count \in 1..Limit /\ entries[key].resetAt \in Nat \ {0}
      /\ entries[key].count + 1 \in 1..Limit
  BY <1>1, <1>2, LimiterAssumption DEF LimiterTypeOK, Windows
<1> DEFINE counted == [count |-> entries[key].count + 1, resetAt |-> entries[key].resetAt]
<1>4. counted \in Windows /\ counted # NoWindow /\ counted.resetAt = entries[key].resetAt
  BY <1>3 DEF Windows, NoWindow
<1>5. entries'[key] = counted
  BY <1>1, <1>2
<1>6. \A k \in Keys \ {key} : entries'[k] = Running(k)
  BY <1>1
<1>7. entries' \in [Keys -> Windows]
  <2>1. \A k \in Keys : entries'[k] \in Windows
    BY <1>2, <1>4, <1>5, <1>6 DEF LimiterTypeOK, Windows
  <2>2. QED
    BY <1>1, <2>1
<1>8. /\ \A k \in Held : entries'[k] # NoWindow /\ entries'[k].resetAt = entries[k].resetAt
      /\ \A k \in Keys \ Held : entries'[k] = NoWindow
  BY <1>1, <1>2, <1>4, <1>5, <1>6
<1>9. HeapMatches' /\ LiveKeys' = Held
  BY <1>1, <1>7, <1>8, KeptWindows
<1>10. LimiterTypeOK' /\ IsFiniteSet(admitted')
  BY <1>1, <1>7, AdmitType DEF LimiterTypeOK, Pending
<1>11. QED
  BY <1>5, <1>6, <1>9, <1>10

LEMMA NextMemory == MemoryInv /\ [LimiterNext]_limiterVars => MemoryInv'
<1> SUFFICES ASSUME MemoryInv, [LimiterNext]_limiterVars PROVE MemoryInv'
  OBVIOUS
<1>0. /\ LimiterTypeOK /\ IsFiniteSet(admitted) /\ HeapMatches
      /\ IsFiniteSet(LiveKeys) /\ Cardinality(LiveKeys) <= MaxKeys
  BY DEF MemoryInv
<1>1. /\ IsFiniteSet(Held) /\ Cardinality(Held) <= MaxKeys /\ Cardinality(Held) \in Nat
      /\ MaxKeys \in Nat \ {0}
  <2>1. Held \in SUBSET LiveKeys
    BY <1>0, Forgetting
  <2>2. /\ IsFiniteSet(Held) /\ Cardinality(Held) <= Cardinality(LiveKeys)
        /\ Cardinality(Held) \in Nat /\ Cardinality(LiveKeys) \in Nat
    BY <1>0, <2>1, FS_Subset, FS_CardinalityType
  <2>3. QED
    BY <1>0, <2>2, LimiterAssumption
<1>2. ASSUME NEW key \in Keys, OpenWithRoom(key) PROVE MemoryInv'
  <2>1. Open(key, {}, {ExpiryOf(k) : k \in {}}) /\ Cardinality(Held) < MaxKeys
    BY <1>2 DEF OpenWithRoom
  <2>2. /\ LimiterTypeOK' /\ IsFiniteSet(admitted') /\ HeapMatches'
        /\ LiveKeys' = (Held \ {}) \cup {key}
    BY <1>0, <2>1, OpenKeepsHeap
  <2>3. LiveKeys' = Held \cup {key} /\ key \notin Held
    BY <2>1, <2>2 DEF Open
  <2>4. IsFiniteSet(LiveKeys') /\ Cardinality(LiveKeys') = Cardinality(Held) + 1
    BY <1>1, <2>3, FS_AddElement
  <2>5. QED
    BY <1>1, <2>1, <2>2, <2>4 DEF MemoryInv
<1>3. ASSUME NEW key \in Keys, OpenAtCapacity(key) PROVE MemoryInv'
  <2>1. Open(key, Victims, Popped) /\ Cardinality(Held) >= MaxKeys
    BY <1>3 DEF OpenAtCapacity
  <2>2. Held # {}
    BY <1>1, <2>1, FS_EmptySet
  <2>3. PICK victim \in Held : Victims = {victim} /\ Popped = {ExpiryOf(victim)}
    BY <1>0, <2>2, OneVictim
  <2>4. Open(key, {victim}, {ExpiryOf(k) : k \in {victim}})
    <3>1. {ExpiryOf(k) : k \in {victim}} = {ExpiryOf(victim)}
      OBVIOUS
    <3>2. QED
      BY <2>1, <2>3, <3>1
  <2>5. /\ LimiterTypeOK' /\ IsFiniteSet(admitted') /\ HeapMatches'
        /\ LiveKeys' = (Held \ {victim}) \cup {key}
    BY <1>0, <2>4, OpenKeepsHeap
  <2>6. key \notin Held
    BY <2>4 DEF Open
  <2>7. /\ IsFiniteSet(Held \ {victim})
        /\ Cardinality(Held \ {victim}) = Cardinality(Held) - 1
    BY <1>1, <2>3, FS_RemoveElement
  <2>8. IsFiniteSet(LiveKeys') /\ Cardinality(LiveKeys') = Cardinality(Held) - 1 + 1
    BY <2>5, <2>6, <2>7, FS_AddElement
  <2>9. QED
    BY <1>1, <2>5, <2>8 DEF MemoryInv
<1>4. ASSUME NEW key \in Keys, Count(key) PROVE MemoryInv'
  BY <1>0, <1>1, <1>4, CountKeepsHeap DEF MemoryInv
<1>5. ASSUME NEW key \in Keys, Refuse(key) PROVE MemoryInv'
  <2>1. /\ entries' = [k \in Keys |-> Running(k)] /\ expiries' = Pending
        /\ UNCHANGED <<now, admitted, evicted>>
    BY <1>5 DEF Refuse
  <2>2. /\ \A k \in Keys : Running(k) = IF k \in Held THEN entries[k] ELSE NoWindow
        /\ \A k \in Held : k \in Keys /\ entries[k] # NoWindow
    BY <1>0, Forgetting DEF Held
  <2>3. entries' \in [Keys -> Windows]
    BY <1>0, <2>1, <2>2 DEF LimiterTypeOK, Windows
  <2>4. HeapMatches' /\ LiveKeys' = Held
    BY <1>0, <2>1, <2>2, <2>3, KeptWindows
  <2>5. QED
    BY <1>0, <1>1, <2>1, <2>3, <2>4 DEF MemoryInv, LimiterTypeOK, Pending
<1>6. CASE Tick \/ UNCHANGED limiterVars
  <2>1. UNCHANGED <<entries, expiries, admitted, evicted>>
    BY <1>6 DEF Tick, limiterVars
  <2>2. now' \in 0..MaxTime
    BY <1>0, <1>6, LimiterAssumption DEF Tick, limiterVars, LimiterTypeOK
  <2>3. LimiterTypeOK'
    BY <1>0, <2>1, <2>2 DEF LimiterTypeOK
  <2>4. HeapMatches' /\ LiveKeys' = LiveKeys
    BY <1>0, <2>1 DEF HeapMatches, LiveKeys, ExpiryOf
  <2>5. QED
    BY <1>0, <2>1, <2>3, <2>4 DEF MemoryInv
<1>7. QED
  BY <1>2, <1>3, <1>4, <1>5, <1>6 DEF LimiterNext, Allow

LEMMA InitMemory == LimiterInit => MemoryInv
<1> SUFFICES ASSUME LimiterInit PROVE MemoryInv
  OBVIOUS
<1>1. LiveKeys = {}
  BY DEF LimiterInit, LiveKeys
<1>2. LimiterTypeOK
  BY LimiterAssumption DEF LimiterInit, LimiterTypeOK, Windows
<1>3. HeapMatches
  BY <1>1 DEF LimiterInit, HeapMatches, LiveKeys
<1>4. IsFiniteSet(admitted) /\ IsFiniteSet(LiveKeys) /\ Cardinality(LiveKeys) <= MaxKeys
  BY <1>1, FS_EmptySet, LimiterAssumption DEF LimiterInit
<1>5. QED
  BY <1>2, <1>3, <1>4 DEF MemoryInv

LEMMA MemoryInvariant == LimiterSpec => []MemoryInv
  BY InitMemory, NextMemory, PTL DEF LimiterSpec

(* The clock, the windows and the heap keep their types.                   *)
THEOREM LimiterTypeCorrect == LimiterSpec => []LimiterTypeOK
<1>1. MemoryInv => LimiterTypeOK
  BY DEF MemoryInv
<1>2. QED
  BY <1>1, MemoryInvariant, PTL

(* The heap never loses a window and never keeps a stale pair.             *)
THEOREM HeapAlwaysMatches == LimiterSpec => []HeapMatches
<1>1. MemoryInv => HeapMatches
  BY DEF MemoryInv
<1>2. QED
  BY <1>1, MemoryInvariant, PTL

(* The limiter never holds more than max_keys windows or pairs.            *)
THEOREM MemoryAlwaysBounded == LimiterSpec => []MemoryIsBounded
<1>1. MemoryInv => MemoryIsBounded
  <2> SUFFICES ASSUME MemoryInv PROVE MemoryIsBounded
    OBVIOUS
  <2>1. expiries = {ExpiryOf(k) : k \in LiveKeys} /\ IsFiniteSet(LiveKeys)
        /\ Cardinality(LiveKeys) <= MaxKeys
    BY DEF MemoryInv, HeapMatches, LiveKeys
  <2> DEFINE pair == [k \in LiveKeys |-> ExpiryOf(k)]
  <2>2. pair \in Surjection(LiveKeys, expiries)
    BY <2>1 DEF Surjection
  <2>3. IsFiniteSet(expiries) /\ Cardinality(expiries) <= Cardinality(LiveKeys)
    BY <2>1, <2>2, FS_Surjection
  <2>4. Cardinality(expiries) \in Nat /\ Cardinality(LiveKeys) \in Nat /\ MaxKeys \in Nat
    BY <2>1, <2>3, FS_CardinalityType, LimiterAssumption
  <2>5. QED
    BY <2>1, <2>3, <2>4 DEF MemoryIsBounded, LiveKeys
<1>2. QED
  BY <1>1, MemoryInvariant, PTL
-----------------------------------------------------------------------------
Start(k) == entries[k].resetAt - WindowSeconds

CallsOf(k) == {c \in admitted : c.key = k}
Since(k, t) == {c \in admitted : c.key = k /\ t <= c.at}

(* Calls are in the past, and those of one moment are told apart.          *)
Dated ==
  \A c \in admitted :
    c.at <= now /\ c.serial < Cardinality(CallsIn(c.key, c.at, c.at + 1))

(* A window that is there has counted no more than the calls since it      *)
(* began, all of which came before its end.                                *)
Counted(k) ==
  /\ Start(k) <= now
  /\ \A c \in CallsOf(k) : c.at < entries[k].resetAt
  /\ entries[k].count <= Cardinality(Since(k, Start(k)))

(* A key that never lost a window: one that is there has counted all the   *)
(* calls, began with one, and followed fewer than limit recent ones.       *)
Works(k) ==
  /\ Cardinality(Since(k, Start(k))) <= entries[k].count
  /\ \E c \in CallsOf(k) : c.at = Start(k)
  /\ \A t \in Int : t > Start(k) - WindowSeconds => Cardinality(CallsIn(k, t, Start(k))) < Limit

Rests(k) ==
  /\ \A c \in CallsOf(k) : c.at < now
  /\ \A t \in Int : t > now - WindowSeconds => Cardinality(Since(k, t)) < Limit

Bursts(k) == \A t \in Int : Cardinality(CallsIn(k, t, t + WindowSeconds)) < 2 * Limit

KeyInv(k) ==
  /\ k \in LiveKeys => Counted(k)
  /\ k \notin evicted => Bursts(k) /\ IF k \in LiveKeys THEN Works(k) ELSE Rests(k)

CallsInv == MemoryInv /\ Dated /\ \A k \in Keys : KeyInv(k)

LEMMA SinceIsFinite ==
  ASSUME IsFiniteSet(admitted), NEW key, NEW t
  PROVE  IsFiniteSet(Since(key, t)) /\ Cardinality(Since(key, t)) \in Nat
<1>1. Since(key, t) \in SUBSET admitted
  BY DEF Since
<1>2. QED
  BY <1>1, FS_Subset, FS_CardinalityType

LEMMA Numbers ==
  ASSUME LimiterTypeOK
  PROVE  /\ now \in Nat /\ Limit \in Nat \ {0} /\ WindowSeconds \in Nat \ {0}
         /\ \A c \in admitted : c.at \in Nat /\ c.serial \in Nat /\ c.key \in Keys
         /\ \A k \in LiveKeys : entries[k].count \in 1..Limit /\ entries[k].resetAt \in Nat \ {0}
                                /\ Start(k) \in Int
  BY LimiterAssumption DEF LimiterTypeOK, Calls, Windows, LiveKeys, Start

(* The call that a step admits is new.                                     *)
LEMMA NewCall ==
  ASSUME LimiterTypeOK, IsFiniteSet(admitted), Dated, NEW key \in Keys, Admit(key), now' = now
  PROVE  /\ Dated'
         /\ \E c : /\ c \notin admitted /\ c.key = key /\ c.at = now
                   /\ admitted' = admitted \cup {c}
<1> DEFINE n == Cardinality(CallsIn(key, now, now + 1))
           c == [key |-> key, at |-> now, serial |-> n]
<1>1. admitted' = admitted \cup {c}
  BY DEF Admit
<1>2. n \in Nat /\ now \in Nat
  BY CallsAreFinite, Numbers
<1>3. c.key = key /\ c.at = now /\ c.serial = n
  OBVIOUS
<1>4. c \notin admitted
  BY <1>2, <1>3 DEF Dated
<1> HIDE DEF c
<1>5. \A k, f, t : CallsIn(k, f, t) \subseteq CallsIn(k, f, t)'
  BY <1>1 DEF CallsIn
<1>6. \A k, f, t : Cardinality(CallsIn(k, f, t)) <= Cardinality(CallsIn(k, f, t)')
  <2>1. TAKE k, f, t
  <2>2. IsFiniteSet(admitted')
    BY <1>1, FS_AddElement
  <2>3. CallsIn(k, f, t)' \in SUBSET admitted'
    BY DEF CallsIn
  <2>4. IsFiniteSet(CallsIn(k, f, t)')
    BY <2>2, <2>3, FS_Subset
  <2>5. QED
    BY <1>5, <2>4, FS_Subset
<1>7. Cardinality(CallsIn(key, now, now + 1)') = n + 1
  <2>1. CallsIn(key, now, now + 1)' = CallsIn(key, now, now + 1) \cup {c}
    BY <1>1, <1>2, <1>3 DEF CallsIn
  <2>2. c \notin CallsIn(key, now, now + 1)
    BY <1>4 DEF CallsIn
  <2>3. IsFiniteSet(CallsIn(key, now, now + 1))
    BY CallsAreFinite
  <2> HIDE DEF n
  <2>4. Cardinality(CallsIn(key, now, now + 1) \cup {c}) = Cardinality(CallsIn(key, now, now + 1)) + 1
    BY <2>2, <2>3, FS_AddElement
  <2>5. QED
    BY <2>1, <2>4 DEF n
<1>8. Dated'
  <2>1. SUFFICES ASSUME NEW d \in admitted'
                 PROVE  d.at <= now /\ d.serial < Cardinality(CallsIn(d.key, d.at, d.at + 1)')
    BY DEF Dated
  <2>2. CASE d = c
    BY <1>2, <1>3, <1>7, <2>2
  <2>3. CASE d \in admitted
    <3>1. /\ d.at <= now /\ d.serial < Cardinality(CallsIn(d.key, d.at, d.at + 1))
          /\ d.serial \in Nat
      BY <2>3, Numbers DEF Dated
    <3>2. /\ Cardinality(CallsIn(d.key, d.at, d.at + 1)) <= Cardinality(CallsIn(d.key, d.at, d.at + 1)')
          /\ Cardinality(CallsIn(d.key, d.at, d.at + 1)) \in Nat
      BY <1>6, CallsAreFinite
    <3>3. Cardinality(CallsIn(d.key, d.at, d.at + 1)') \in Nat
      <4>1. IsFiniteSet(admitted') /\ CallsIn(d.key, d.at, d.at + 1)' \in SUBSET admitted'
        BY <1>1, FS_AddElement DEF CallsIn
      <4>2. QED
        BY <4>1, FS_Subset, FS_CardinalityType
    <3>4. QED
      BY <3>1, <3>2, <3>3
  <2>4. QED
    BY <1>1, <2>1, <2>2, <2>3
<1>9. QED
  BY <1>1, <1>3, <1>4, <1>8

(* One more call of a key is counted where it belongs.                     *)
LEMMA OneMore ==
  ASSUME LimiterTypeOK, IsFiniteSet(admitted), NEW c, c \notin admitted, c.at = now,
         admitted' = admitted \cup {c}
  PROVE  /\ \A k : k # c.key => /\ CallsOf(k)' = CallsOf(k)
                                /\ \A t : Since(k, t)' = Since(k, t)
                                /\ \A f, t : CallsIn(k, f, t)' = CallsIn(k, f, t)
         /\ CallsOf(c.key)' = CallsOf(c.key) \cup {c}
         /\ \A t \in Int :
              Cardinality(Since(c.key, t)') =
                Cardinality(Since(c.key, t)) + (IF t <= now THEN 1 ELSE 0)
         /\ \A f, t \in Int :
              Cardinality(CallsIn(c.key, f, t)') =
                Cardinality(CallsIn(c.key, f, t)) + (IF f <= now /\ now < t THEN 1 ELSE 0)
<1>1. \A k : k # c.key => /\ CallsOf(k)' = CallsOf(k)
                          /\ \A t : Since(k, t)' = Since(k, t)
                          /\ \A f, t : CallsIn(k, f, t)' = CallsIn(k, f, t)
  BY DEF CallsOf, Since, CallsIn
<1>2. CallsOf(c.key)' = CallsOf(c.key) \cup {c}
  BY DEF CallsOf
<1>3. ASSUME NEW t \in Int
      PROVE  Cardinality(Since(c.key, t)') =
               Cardinality(Since(c.key, t)) + (IF t <= now THEN 1 ELSE 0)
  <2>1. /\ Cardinality(Since(c.key, t)) \in Nat /\ IsFiniteSet(Since(c.key, t))
        /\ c \notin Since(c.key, t)
    BY SinceIsFinite DEF Since
  <2>2. CASE t <= now
    <3>1. Since(c.key, t)' = Since(c.key, t) \cup {c}
      BY <2>2 DEF Since
    <3>2. Cardinality(Since(c.key, t) \cup {c}) = Cardinality(Since(c.key, t)) + 1
      BY <2>1, FS_AddElement
    <3>3. QED
      BY <2>2, <3>1, <3>2
  <2>3. CASE ~(t <= now)
    <3>1. Since(c.key, t)' = Since(c.key, t)
      BY <2>3 DEF Since
    <3>2. QED
      BY <2>1, <2>3, <3>1
  <2>4. QED
    BY <2>2, <2>3
<1>4. ASSUME NEW f \in Int, NEW t \in Int
      PROVE  Cardinality(CallsIn(c.key, f, t)') =
               Cardinality(CallsIn(c.key, f, t)) + (IF f <= now /\ now < t THEN 1 ELSE 0)
  <2>1. Cardinality(CallsIn(c.key, f, t)) \in Nat /\ IsFiniteSet(CallsIn(c.key, f, t))
    BY CallsAreFinite
  <2>2. c \notin CallsIn(c.key, f, t)
    BY DEF CallsIn
  <2>3. CASE f <= now /\ now < t
    <3>1. CallsIn(c.key, f, t)' = CallsIn(c.key, f, t) \cup {c}
      BY <2>3 DEF CallsIn
    <3>2. Cardinality(CallsIn(c.key, f, t) \cup {c}) = Cardinality(CallsIn(c.key, f, t)) + 1
      BY <2>1, <2>2, FS_AddElement
    <3>3. QED
      BY <2>3, <3>1, <3>2
  <2>4. CASE ~(f <= now /\ now < t)
    <3>1. CallsIn(c.key, f, t)' = CallsIn(c.key, f, t)
      BY <2>4 DEF CallsIn
    <3>2. QED
      BY <2>1, <2>4, <3>1
  <2>5. QED
    BY <2>3, <2>4
<1>5. QED
  BY <1>1, <1>2, <1>3, <1>4

(* Calls in an interval are calls since its beginning, and from an earlier *)
(* beginning there are as many or more.                                    *)
LEMMA FewerLater ==
  ASSUME IsFiniteSet(admitted), NEW k, NEW t
  PROVE  /\ \A u : Cardinality(CallsIn(k, t, u)) <= Cardinality(Since(k, t))
         /\ \A s : Since(k, t) \subseteq Since(k, s) =>
                     Cardinality(Since(k, t)) <= Cardinality(Since(k, s))
<1>1. ASSUME NEW u PROVE Cardinality(CallsIn(k, t, u)) <= Cardinality(Since(k, t))
  <2>1. CallsIn(k, t, u) \in SUBSET Since(k, t)
    BY DEF CallsIn, Since
  <2>2. QED
    BY <2>1, SinceIsFinite, FS_Subset
<1>2. ASSUME NEW s, Since(k, t) \subseteq Since(k, s)
      PROVE  Cardinality(Since(k, t)) <= Cardinality(Since(k, s))
  BY <1>2, SinceIsFinite, FS_Subset
<1>3. QED
  BY <1>1, <1>2

(* A key whose window ended rests: the call that began the window is too   *)
(* long ago.                                                               *)
LEMMA Rested ==
  ASSUME CallsInv, NEW k \in Keys, k \notin Held, k \notin evicted
  PROVE  Rests(k)
<1>1. /\ LimiterTypeOK /\ HeapMatches /\ IsFiniteSet(admitted)
      /\ k \in LiveKeys => Counted(k) /\ Works(k)
      /\ k \notin LiveKeys => Rests(k)
  BY DEF CallsInv, MemoryInv, KeyInv
<1>2. CASE k \in LiveKeys
  <2>1. /\ now \in Nat /\ Limit \in Nat /\ WindowSeconds \in Nat
        /\ entries[k].resetAt \in Nat /\ entries[k].count \in 1..Limit /\ Start(k) \in Int
        /\ \A c \in admitted : c.at \in Nat
    BY <1>1, <1>2, Numbers
  <2>2. entries[k].resetAt <= now
    <3>1. entries[k] # NoWindow
      BY <1>2 DEF LiveKeys
    <3>2. ExpiryOf(k) \in Expired
      BY <3>1 DEF Held, Running
    <3>3. QED
      BY <3>2 DEF Expired, ExpiryOf
  <2>3. \A c \in CallsOf(k) : c.at < now
    <3>1. \A c \in CallsOf(k) : c \in admitted /\ c.at < entries[k].resetAt
      BY <1>1, <1>2 DEF Counted, CallsOf
    <3>2. QED
      BY <2>1, <2>2, <3>1
  <2>4. ASSUME NEW t \in Int, t > now - WindowSeconds
        PROVE  Cardinality(Since(k, t)) < Limit
    <3>1. PICK first \in CallsOf(k) : first.at = Start(k)
      BY <1>1, <1>2 DEF Works
    <3>2. Start(k) < t
      BY <2>1, <2>2, <2>4 DEF Start
    <3>3. first \in Since(k, Start(k)) /\ first \notin Since(k, t)
      BY <2>1, <3>1, <3>2 DEF CallsOf, Since
    <3>4. Since(k, t) \in SUBSET Since(k, Start(k))
      BY <2>1, <3>2 DEF Since
    <3>5. Cardinality(Since(k, t)) < Cardinality(Since(k, Start(k)))
      BY <1>1, <3>3, <3>4, SinceIsFinite, FS_Subset
    <3>6. Cardinality(Since(k, Start(k))) <= entries[k].count
      BY <1>1, <1>2 DEF Works
    <3>7. QED
      BY <1>1, <2>1, <3>5, <3>6, SinceIsFinite
  <2>5. QED
    BY <2>3, <2>4 DEF Rests
<1>3. QED
  BY <1>1, <1>2

(* A call leaves the keys of other calls as they were.                     *)
LEMMA KeyKept ==
  ASSUME CallsInv, NEW k \in Keys, now' = now, evicted \subseteq evicted',
         CallsOf(k)' = CallsOf(k),
         \A t : Since(k, t)' = Since(k, t),
         \A f, t : CallsIn(k, f, t)' = CallsIn(k, f, t),
         \/ k \in Held /\ entries'[k] = entries[k]
         \/ k \notin LiveKeys' /\ (k \in Held => k \in evicted')
  PROVE  KeyInv(k)'
<1>1. /\ LimiterTypeOK /\ HeapMatches /\ IsFiniteSet(admitted) /\ KeyInv(k)
  BY DEF CallsInv, MemoryInv
<1>2. CASE k \in Held /\ entries'[k] = entries[k]
  <2>1. k \in LiveKeys /\ k \in LiveKeys' /\ Start(k)' = Start(k)
    <3>1. k \in LiveKeys
      BY <1>1, <1>2, Forgetting
    <3>2. QED
      BY <1>2, <3>1 DEF LiveKeys, Start
  <2>2. Counted(k)'
    BY <1>1, <1>2, <2>1 DEF KeyInv, Counted
  <2>3. ASSUME k \notin evicted' PROVE Bursts(k)' /\ Works(k)'
    <3>1. Bursts(k) /\ Works(k)
      BY <1>1, <2>1, <2>3 DEF KeyInv
    <3>2. Bursts(k)'
      BY <3>1 DEF Bursts
    <3>3. Works(k)'
      BY <1>2, <2>1, <3>1 DEF Works
    <3>4. QED
      BY <3>2, <3>3
  <2>4. QED
    BY <2>1, <2>2, <2>3 DEF KeyInv
<1>3. CASE k \notin LiveKeys' /\ (k \in Held => k \in evicted')
  <2>1. ASSUME k \notin evicted' PROVE Bursts(k)' /\ Rests(k)'
    <3>1. Rests(k) /\ Bursts(k)
      BY <1>1, <1>3, <2>1, Rested DEF KeyInv
    <3>2. Bursts(k)'
      BY <3>1 DEF Bursts
    <3>3. Rests(k)'
      BY <3>1 DEF Rests
    <3>4. QED
      BY <3>2, <3>3
  <2>2. QED
    BY <1>3, <2>1 DEF KeyInv
<1>4. QED
  BY <1>2, <1>3

(* A call that is counted by a window that is there.                       *)
LEMMA CountKeepsCalls ==
  ASSUME CallsInv, NEW key \in Keys, Count(key)
  PROVE  Dated' /\ \A k \in Keys : KeyInv(k)'
<1>1. /\ LimiterTypeOK /\ HeapMatches /\ IsFiniteSet(admitted) /\ Dated /\ KeyInv(key)
  BY DEF CallsInv, MemoryInv
<1>2. /\ key \in Held /\ Running(key).count < Limit /\ now' = now /\ evicted' = evicted
      /\ Admit(key)
  BY DEF Count
<1>3. /\ LiveKeys' = Held
      /\ entries'[key] = [count |-> entries[key].count + 1, resetAt |-> entries[key].resetAt]
      /\ \A k \in Keys \ {key} : entries'[k] = Running(k)
  BY <1>1, CountKeepsHeap
<1>4. /\ \A k \in Held : Running(k) = entries[k] /\ Running(k).resetAt > now
      /\ Held \subseteq LiveKeys /\ Held \subseteq Keys
  BY <1>1, Forgetting DEF Held
<1>5. PICK c : c \notin admitted /\ c.key = key /\ c.at = now /\ admitted' = admitted \cup {c}
  BY <1>1, <1>2, NewCall
<1>6. Dated'
  BY <1>1, <1>2, NewCall
<1>7. /\ \A k : k # key => /\ CallsOf(k)' = CallsOf(k)
                           /\ \A t : Since(k, t)' = Since(k, t)
                           /\ \A f, t : CallsIn(k, f, t)' = CallsIn(k, f, t)
      /\ CallsOf(key)' = CallsOf(key) \cup {c}
      /\ \A t \in Int :
           Cardinality(Since(key, t)') = Cardinality(Since(key, t)) + (IF t <= now THEN 1 ELSE 0)
      /\ \A f, t \in Int :
           Cardinality(CallsIn(key, f, t)') =
             Cardinality(CallsIn(key, f, t)) + (IF f <= now /\ now < t THEN 1 ELSE 0)
  BY <1>1, <1>5, OneMore
<1>8. ASSUME NEW k \in Keys, k # key PROVE KeyInv(k)'
  BY <1>2, <1>3, <1>4, <1>7, <1>8, KeyKept
<1>9. KeyInv(key)'
  <2>1. /\ now \in Nat /\ Limit \in Nat \ {0} /\ WindowSeconds \in Nat \ {0}
        /\ entries[key].count \in Nat /\ entries[key].resetAt \in Nat /\ Start(key) \in Int
        /\ entries[key].count < Limit /\ entries[key].resetAt > now
    BY <1>1, <1>2, <1>4, Numbers
  <2>2. PICK s \in Int : s = Start(key)
    BY <2>1
  <2>3. /\ Counted(key) /\ key \in LiveKeys' /\ key \in LiveKeys /\ s <= now
        /\ Start(key)' = s /\ Start(key) = s
        /\ entries'[key].resetAt = entries[key].resetAt
        /\ entries'[key].count = entries[key].count + 1
    BY <1>1, <1>2, <1>3, <1>4, <2>2 DEF KeyInv, Start, Counted
  <2>4. /\ Since(key, Start(key))' = Since(key, s)' /\ Since(key, Start(key)) = Since(key, s)
        /\ Cardinality(Since(key, s)') = Cardinality(Since(key, s)) + 1
        /\ Cardinality(Since(key, s)) \in Nat
    <3>1. Since(key, Start(key))' = Since(key, s)'
      BY <2>3 DEF Since, Start
    <3>2. QED
      BY <1>1, <1>7, <2>3, <3>1, SinceIsFinite
  <2>5. Counted(key)'
    <3>1. \A d \in CallsOf(key)' : d.at < entries'[key].resetAt
      BY <1>5, <1>7, <2>1, <2>3 DEF Counted
    <3>2. entries'[key].count <= Cardinality(Since(key, Start(key))')
      BY <2>1, <2>3, <2>4 DEF Counted
    <3>3. QED
      BY <1>2, <2>3, <3>1, <3>2 DEF Counted
  <2>6. ASSUME key \notin evicted PROVE Bursts(key)' /\ Works(key)'
    <3>1. Bursts(key) /\ Works(key)
      BY <1>1, <2>3, <2>6 DEF KeyInv
    <3>2. \A t, u : Cardinality(CallsIn(key, t, u)) \in Nat
      BY <1>1, CallsAreFinite
    <3>3. Works(key)'
      <4>1. Cardinality(Since(key, Start(key))') <= entries'[key].count
        BY <2>1, <2>3, <2>4, <3>1 DEF Works
      <4>2. \E d \in CallsOf(key)' : d.at = Start(key)'
        BY <1>7, <2>3, <3>1 DEF Works
      <4>3. ASSUME NEW t \in Int, t > s - WindowSeconds
            PROVE  Cardinality(CallsIn(key, t, Start(key))') < Limit
        <5>1. CallsIn(key, t, Start(key))' = CallsIn(key, t, s)' /\ CallsIn(key, t, Start(key)) = CallsIn(key, t, s)
          BY <2>3 DEF CallsIn, Start
        <5>2. Cardinality(CallsIn(key, t, s)') = Cardinality(CallsIn(key, t, s))
          <6>1. Cardinality(CallsIn(key, t, s)') =
                  Cardinality(CallsIn(key, t, s)) + (IF t <= now /\ now < s THEN 1 ELSE 0)
            BY <1>7
          <6>2. ~(now < s) /\ Cardinality(CallsIn(key, t, s)) \in Nat
            BY <2>1, <2>3, <3>2
          <6>3. QED
            BY <6>1, <6>2
        <5>3. QED
          BY <2>3, <3>1, <4>3, <5>1, <5>2 DEF Works
      <4>4. QED
        BY <2>3, <4>1, <4>2, <4>3 DEF Works
    <3>4. ASSUME NEW t \in Int
          PROVE  Cardinality(CallsIn(key, t, t + WindowSeconds)') < 2 * Limit
      <4>1. CASE ~(t <= now /\ now < t + WindowSeconds)
        <5> DEFINE end == t + WindowSeconds
        <5>1. end \in Int /\ ~(t <= now /\ now < end)
          BY <2>1, <4>1
        <5>2. Cardinality(CallsIn(key, t, end)) < 2 * Limit
          BY <3>1 DEF Bursts
        <5> HIDE DEF end
        <5>3. Cardinality(CallsIn(key, t, end)') =
                Cardinality(CallsIn(key, t, end)) + (IF t <= now /\ now < end THEN 1 ELSE 0)
          BY <1>7, <5>1
        <5>4. Cardinality(CallsIn(key, t, end)) \in Nat
          BY <3>2
        <5>5. Cardinality(CallsIn(key, t, end)') < 2 * Limit
          BY <5>1, <5>2, <5>3, <5>4
        <5>6. QED
          BY <5>5 DEF end
      <4>2. CASE t <= now /\ now < t + WindowSeconds
        <5>1. t > s - WindowSeconds /\ t + WindowSeconds \in Int
          BY <2>1, <2>3, <4>2
        <5>2. CallsIn(key, t, t + WindowSeconds) \in SUBSET (CallsIn(key, t, s) \cup Since(key, s))
          BY <1>1, <2>1, <2>3, Numbers DEF CallsIn, Since
        <5>3. /\ Cardinality(CallsIn(key, t, s)) < Limit
              /\ Cardinality(Since(key, s)) <= entries[key].count
          BY <2>3, <2>4, <3>1, <5>1 DEF Works
        <5>4. Cardinality(CallsIn(key, t, t + WindowSeconds))
                <= Cardinality(CallsIn(key, t, s)) + Cardinality(Since(key, s))
          <6>1. /\ IsFiniteSet(CallsIn(key, t, s)) /\ IsFiniteSet(Since(key, s))
                /\ IsFiniteSet(CallsIn(key, t, s) \cup Since(key, s))
            BY <1>1, CallsAreFinite, SinceIsFinite, FS_Union
          <6>2. Cardinality(CallsIn(key, t, s) \cup Since(key, s))
                  <= Cardinality(CallsIn(key, t, s)) + Cardinality(Since(key, s))
            <7>1. Cardinality(CallsIn(key, t, s) \cup Since(key, s))
                    = Cardinality(CallsIn(key, t, s)) + Cardinality(Since(key, s))
                      - Cardinality(CallsIn(key, t, s) \cap Since(key, s))
              BY <6>1, FS_Union
            <7>2. Cardinality(CallsIn(key, t, s) \cap Since(key, s)) \in Nat
              BY <6>1, FS_Intersection, FS_CardinalityType
            <7>3. QED
              BY <2>4, <3>2, <7>1, <7>2
          <6>3. /\ Cardinality(CallsIn(key, t, t + WindowSeconds))
                     <= Cardinality(CallsIn(key, t, s) \cup Since(key, s))
                /\ Cardinality(CallsIn(key, t, s) \cup Since(key, s)) \in Nat
            BY <5>2, <6>1, FS_Subset, FS_CardinalityType
          <6>4. QED
            BY <2>4, <3>2, <6>2, <6>3
        <5>5. Cardinality(CallsIn(key, t, t + WindowSeconds)')
                = Cardinality(CallsIn(key, t, t + WindowSeconds)) + 1
          BY <1>7, <4>2, <5>1
        <5>6. Cardinality(CallsIn(key, t, t + WindowSeconds)) \in Nat
          BY <3>2
        <5>7. QED
          BY <2>1, <2>4, <3>2, <5>3, <5>4, <5>5, <5>6
      <4>3. QED
        BY <4>1, <4>2
    <3>5. QED
      BY <3>3, <3>4 DEF Bursts
  <2>7. QED
    BY <1>2, <2>3, <2>5, <2>6 DEF KeyInv
<1>10. QED
  BY <1>6, <1>8, <1>9

(* A call that opens a window, whatever was given up for it.               *)
LEMMA OpenKeepsCalls ==
  ASSUME CallsInv, NEW key \in Keys, NEW victims, victims \subseteq Held,
         Open(key, victims, {ExpiryOf(k) : k \in victims})
  PROVE  Dated' /\ \A k \in Keys : KeyInv(k)'
<1>1. /\ LimiterTypeOK /\ HeapMatches /\ IsFiniteSet(admitted) /\ Dated /\ KeyInv(key)
  BY DEF CallsInv, MemoryInv
<1>2. /\ key \notin Held
      /\ entries' = [k \in Keys |-> IF k = key THEN Fresh
                                    ELSE IF k \in victims THEN NoWindow ELSE Running(k)]
      /\ evicted' = evicted \cup victims /\ now' = now /\ Admit(key)
  BY DEF Open
<1>3. LiveKeys' = (Held \ victims) \cup {key}
  BY <1>1, OpenKeepsHeap
<1>4. \A k \in Held : Running(k) = entries[k] /\ k \in Keys
  BY <1>1, Forgetting DEF Held
<1>5. PICK c : c \notin admitted /\ c.key = key /\ c.at = now /\ admitted' = admitted \cup {c}
  BY <1>1, <1>2, NewCall
<1>6. Dated'
  BY <1>1, <1>2, NewCall
<1>7. /\ \A k : k # key => /\ CallsOf(k)' = CallsOf(k)
                           /\ \A t : Since(k, t)' = Since(k, t)
                           /\ \A f, t : CallsIn(k, f, t)' = CallsIn(k, f, t)
      /\ CallsOf(key)' = CallsOf(key) \cup {c}
      /\ \A t \in Int :
           Cardinality(Since(key, t)') = Cardinality(Since(key, t)) + (IF t <= now THEN 1 ELSE 0)
      /\ \A f, t \in Int :
           Cardinality(CallsIn(key, f, t)') =
             Cardinality(CallsIn(key, f, t)) + (IF f <= now /\ now < t THEN 1 ELSE 0)
  BY <1>1, <1>5, OneMore
<1>8. ASSUME NEW k \in Keys, k # key PROVE KeyInv(k)'
  <2>1. \/ k \in Held /\ entries'[k] = entries[k]
        \/ k \notin LiveKeys' /\ (k \in Held => k \in evicted')
    BY <1>2, <1>3, <1>4, <1>8
  <2>2. QED
    BY <1>2, <1>7, <1>8, <2>1, KeyKept
<1>9. KeyInv(key)'
  <2>1. /\ now \in Nat /\ now \in Int /\ Limit \in Nat \ {0} /\ WindowSeconds \in Nat \ {0}
        /\ \A t, u : Cardinality(CallsIn(key, t, u)) \in Nat
        /\ \A t : Cardinality(Since(key, t)) \in Nat
    BY <1>1, Numbers, CallsAreFinite, SinceIsFinite
  <2>2. /\ entries'[key].count = 1 /\ entries'[key].resetAt = now + WindowSeconds
        /\ Start(key)' = now /\ key \in LiveKeys'
    <3>1. entries'[key] = Fresh
      BY <1>2
    <3>2. QED
      BY <1>3, <2>1, <3>1 DEF Fresh, Start
  <2>3. /\ Since(key, Start(key))' = Since(key, now)'
        /\ Cardinality(Since(key, now)') = Cardinality(Since(key, now)) + 1
    <3>1. Since(key, Start(key))' = Since(key, now)'
      BY <1>2, <2>2 DEF Since, Start
    <3>2. QED
      <4>1. PICK n \in Int : n = now
        BY <2>1
      <4>2. Cardinality(Since(key, n)') = Cardinality(Since(key, n)) + 1
        BY <1>7, <2>1, <4>1
      <4>3. Since(key, now)' = Since(key, n)'
        BY <1>2, <4>1 DEF Since
      <4>4. QED
        BY <3>1, <4>1, <4>2, <4>3
  <2>4. Counted(key)'
    <3>1. \A d \in CallsOf(key)' : d.at < entries'[key].resetAt
      <4>1. \A d \in admitted : d.at <= now /\ d.at \in Nat
        BY <1>1, Numbers DEF Dated
      <4>2. QED
        BY <1>5, <2>1, <2>2, <4>1 DEF CallsOf
    <3>2. entries'[key].count <= Cardinality(Since(key, Start(key))')
      BY <2>1, <2>2, <2>3
    <3>3. QED
      BY <1>2, <2>1, <2>2, <3>1, <3>2 DEF Counted
  <2>5. ASSUME key \notin evicted' PROVE Bursts(key)' /\ Works(key)'
    <3>1. Rests(key) /\ Bursts(key)
      BY <1>1, <1>2, <2>5, Rested DEF KeyInv
    <3>2. \A t \in Int : t > now - WindowSeconds => Cardinality(Since(key, t)) < Limit
      BY <3>1 DEF Rests
    <3>3. \A t, u : Cardinality(CallsIn(key, t, u)) <= Cardinality(Since(key, t))
      BY <1>1, FewerLater
    <3>4. Works(key)'
      <4>1. Cardinality(Since(key, Start(key))') <= entries'[key].count
        <5>1. Since(key, now) = {}
          BY <1>1, <2>1, <3>1, Numbers DEF Rests, CallsOf, Since
        <5>2. QED
          BY <2>2, <2>3, <5>1, FS_EmptySet
      <4>2. \E d \in CallsOf(key)' : d.at = Start(key)'
        BY <1>5, <1>7, <2>2
      <4>3. ASSUME NEW t \in Int, t > now - WindowSeconds
            PROVE  Cardinality(CallsIn(key, t, Start(key))') < Limit
        <5>1. PICK n \in Int : n = now
          BY <2>1
        <5>2. CallsIn(key, t, Start(key))' = CallsIn(key, t, n)'
          BY <1>2, <2>2, <5>1 DEF CallsIn, Start
        <5>3. Cardinality(CallsIn(key, t, n)') =
                Cardinality(CallsIn(key, t, n)) + (IF t <= now /\ now < n THEN 1 ELSE 0)
          BY <1>7
        <5>4. Cardinality(CallsIn(key, t, n)') = Cardinality(CallsIn(key, t, n))
          BY <2>1, <5>1, <5>3
        <5>5. QED
          BY <2>1, <3>2, <3>3, <4>3, <5>2, <5>4
      <4>4. QED
        BY <2>2, <4>1, <4>2, <4>3 DEF Works
    <3>5. ASSUME NEW t \in Int
          PROVE  Cardinality(CallsIn(key, t, t + WindowSeconds)') < 2 * Limit
      <4> DEFINE end == t + WindowSeconds
      <4>1. end \in Int /\ (now < end => t > now - WindowSeconds)
        BY <2>1
      <4>2. Cardinality(CallsIn(key, t, end)) < 2 * Limit
        BY <3>1 DEF Bursts
      <4> HIDE DEF end
      <4>3. Cardinality(CallsIn(key, t, end)') =
              Cardinality(CallsIn(key, t, end)) + (IF t <= now /\ now < end THEN 1 ELSE 0)
        BY <1>7, <4>1
      <4>4. Cardinality(CallsIn(key, t, end)) \in Nat /\ Cardinality(Since(key, t)) \in Nat
        BY <2>1
      <4>5. now < end => Cardinality(CallsIn(key, t, end)) < Limit
        BY <2>1, <3>2, <3>3, <4>1, <4>4
      <4>6. Cardinality(CallsIn(key, t, end)') < 2 * Limit
        BY <2>1, <4>2, <4>3, <4>4, <4>5
      <4>7. QED
        BY <4>6 DEF end
    <3>6. QED
      BY <3>4, <3>5 DEF Bursts
  <2>6. QED
    BY <2>2, <2>4, <2>5 DEF KeyInv
<1>10. QED
  BY <1>6, <1>8, <1>9

LEMMA NextCalls == CallsInv /\ [LimiterNext]_limiterVars => CallsInv'
<1> SUFFICES ASSUME CallsInv, [LimiterNext]_limiterVars PROVE CallsInv'
  OBVIOUS
<1>0. /\ LimiterTypeOK /\ HeapMatches /\ IsFiniteSet(admitted) /\ IsFiniteSet(LiveKeys) /\ Dated
      /\ MemoryInv /\ \A k \in Keys : KeyInv(k)
  BY DEF CallsInv, MemoryInv
<1>1. MemoryInv'
  BY <1>0, NextMemory
<1> DEFINE Keeps == Dated' /\ \A k \in Keys : KeyInv(k)'
<1>2. ASSUME NEW key \in Keys, OpenWithRoom(key) PROVE Keeps
  <2>1. Open(key, {}, {ExpiryOf(k) : k \in {}})
    BY <1>2 DEF OpenWithRoom
  <2>2. QED
    BY <2>1, OpenKeepsCalls
<1>3. ASSUME NEW key \in Keys, OpenAtCapacity(key) PROVE Keeps
  <2>1. Open(key, Victims, Popped) /\ Cardinality(Held) >= MaxKeys
    BY <1>3 DEF OpenAtCapacity
  <2>2. Held # {}
    BY <2>1, FS_EmptySet, LimiterAssumption
  <2>3. PICK victim \in Held : Victims = {victim} /\ Popped = {ExpiryOf(victim)}
    BY <1>0, <2>2, OneVictim
  <2>4. {ExpiryOf(k) : k \in {victim}} = {ExpiryOf(victim)}
    OBVIOUS
  <2>5. Open(key, {victim}, {ExpiryOf(k) : k \in {victim}})
    BY <2>1, <2>3, <2>4
  <2>6. QED
    BY <2>5, OpenKeepsCalls
<1>4. ASSUME NEW key \in Keys, Count(key) PROVE Keeps
  BY <1>4, CountKeepsCalls
<1>5. ASSUME NEW key \in Keys, Refuse(key) PROVE Keeps
  <2>1. /\ entries' = [k \in Keys |-> Running(k)]
        /\ UNCHANGED <<now, admitted, evicted>>
    BY <1>5 DEF Refuse
  <2>2. Dated'
    BY <1>0, <2>1 DEF Dated, CallsIn
  <2>3. ASSUME NEW k \in Keys PROVE KeyInv(k)'
    <3>1. /\ CallsOf(k)' = CallsOf(k)
          /\ \A t : Since(k, t)' = Since(k, t)
          /\ \A f, t : CallsIn(k, f, t)' = CallsIn(k, f, t)
      BY <2>1 DEF CallsOf, Since, CallsIn
    <3>2. \/ k \in Held /\ entries'[k] = entries[k]
          \/ k \notin LiveKeys' /\ (k \in Held => k \in evicted')
      BY <1>0, <2>1, Forgetting DEF LiveKeys
    <3>3. QED
      BY <2>1, <3>1, <3>2, KeyKept
  <2>4. QED
    BY <2>2, <2>3
<1>6. ASSUME Tick \/ UNCHANGED limiterVars PROVE Keeps
  <2>1. /\ UNCHANGED <<entries, expiries, admitted, evicted>>
        /\ now \in Nat /\ now' \in Nat /\ now <= now'
        /\ WindowSeconds \in Nat /\ \A c \in admitted : c.at \in Nat
    BY <1>0, <1>6, Numbers DEF Tick, limiterVars
  <2>2. Dated'
    BY <1>0, <2>1 DEF Dated, CallsIn
  <2>3. ASSUME NEW k \in Keys PROVE KeyInv(k)'
    <3>1. k \in LiveKeys => Start(k) \in Int
      BY <1>0, Numbers
    <3>2. ASSUME k \in LiveKeys PROVE Counted(k)'
      <4>1. Counted(k)
        BY <1>0, <3>2 DEF KeyInv
      <4>2. entries' = entries /\ admitted' = admitted
        BY <2>1
      <4>3. /\ Start(k)' = Start(k) /\ CallsOf(k)' = CallsOf(k)
            /\ Since(k, Start(k))' = Since(k, Start(k))
        BY <4>2 DEF Start, CallsOf, Since
      <4>4. Start(k)' <= now'
        BY <2>1, <3>1, <3>2, <4>1, <4>3 DEF Counted
      <4>5. QED
        BY <4>1, <4>2, <4>3, <4>4 DEF Counted
    <3>3. ASSUME k \notin evicted, k \in LiveKeys PROVE Works(k)'
      <4>1. Works(k)
        BY <1>0, <3>3 DEF KeyInv
      <4>2. /\ Start(k)' = Start(k) /\ CallsOf(k)' = CallsOf(k) /\ entries'[k] = entries[k]
            /\ Since(k, Start(k))' = Since(k, Start(k))
            /\ \A t : CallsIn(k, t, Start(k))' = CallsIn(k, t, Start(k))
        <5>1. entries' = entries /\ admitted' = admitted
          BY <2>1
        <5>2. Since(k, Start(k))' = Since(k, Start(k))
          BY <5>1 DEF Start, Since
        <5>3. \A t : CallsIn(k, t, Start(k))' = CallsIn(k, t, Start(k))
          BY <5>1 DEF Start, CallsIn
        <5>4. QED
          BY <5>1, <5>2, <5>3 DEF Start, CallsOf
      <4>3. QED
        BY <4>1, <4>2 DEF Works
    <3>4. ASSUME k \notin evicted, k \notin LiveKeys PROVE Rests(k)'
      <4>1. Rests(k)
        BY <1>0, <3>4 DEF KeyInv
      <4>2. \A c \in CallsOf(k)' : c.at < now'
        BY <2>1, <4>1 DEF Rests, CallsOf
      <4>3. PICK later \in Nat : later = now' /\ now <= later
        BY <2>1
      <4>4. ASSUME NEW t \in Int, t > later - WindowSeconds
            PROVE  Cardinality(Since(k, t)') < Limit
        <5>1. Since(k, t)' = Since(k, t)
          BY <2>1 DEF Since
        <5>2. t > now - WindowSeconds
          <6>1. t > later - WindowSeconds
            BY <4>4
          <6>2. now \in Nat /\ WindowSeconds \in Nat /\ now <= later
            BY <2>1, <4>3
          <6>3. QED
            BY <6>1, <6>2
        <5>3. QED
          BY <4>1, <5>1, <5>2 DEF Rests
      <4>5. QED
        BY <4>2, <4>3, <4>4 DEF Rests
    <3>5. k \notin evicted => Bursts(k)'
      BY <1>0, <2>1 DEF KeyInv, Bursts, CallsIn
    <3>6. QED
      BY <2>1, <3>2, <3>3, <3>4, <3>5 DEF KeyInv, LiveKeys
  <2>4. QED
    BY <2>2, <2>3
<1> HIDE DEF Keeps
<1>7. Keeps
  BY <1>2, <1>3, <1>4, <1>5, <1>6 DEF LimiterNext, Allow
<1>8. QED
  BY <1>1, <1>7 DEF Keeps, CallsInv

LEMMA InitCalls == LimiterInit => CallsInv
<1> SUFFICES ASSUME LimiterInit PROVE CallsInv
  OBVIOUS
<1>1. MemoryInv /\ LiveKeys = {} /\ admitted = {}
  BY InitMemory DEF LimiterInit, LiveKeys
<1>2. \A k, f, t : CallsOf(k) = {} /\ Since(k, t) = {} /\ CallsIn(k, f, t) = {}
  BY <1>1 DEF CallsOf, Since, CallsIn
<1>3. Cardinality({}) = 0 /\ Limit \in Nat \ {0}
  BY FS_EmptySet, LimiterAssumption
<1>4. \A k : Bursts(k) /\ Rests(k)
  BY <1>2, <1>3 DEF Bursts, Rests
<1>5. QED
  BY <1>1, <1>4 DEF CallsInv, Dated, KeyInv

LEMMA CallsInvariant == LimiterSpec => []CallsInv
  BY InitCalls, NextCalls, PTL DEF LimiterSpec

(* A key is refused only if it was admitted limit times within the last    *)
(* window_seconds.                                                         *)
THEOREM RefusalsAreEarned == LimiterSpec => []RefusalIsEarned
<1>1. CallsInv => RefusalIsEarned
  <2> SUFFICES ASSUME CallsInv, NEW key \in Keys, Refused(key)
               PROVE  Cardinality(CallsIn(key, now - WindowSeconds + 1, now + 1)) >= Limit
    BY DEF RefusalIsEarned
  <2>1. /\ LimiterTypeOK /\ HeapMatches /\ IsFiniteSet(admitted) /\ Dated /\ KeyInv(key)
        /\ key \in Held /\ Running(key).count >= Limit
    BY DEF CallsInv, MemoryInv, Refused
  <2>2. /\ key \in LiveKeys /\ Running(key) = entries[key] /\ entries[key].resetAt > now
    BY <2>1, Forgetting
  <2>3. /\ now \in Nat /\ Limit \in Nat /\ WindowSeconds \in Nat
        /\ entries[key].count \in Nat /\ entries[key].resetAt \in Nat /\ Start(key) \in Int
        /\ \A c \in admitted : c.at \in Nat /\ c.at <= now
    BY <2>1, <2>2, Numbers DEF Dated
  <2>4. Limit <= Cardinality(Since(key, Start(key))) /\ Cardinality(Since(key, Start(key))) \in Nat
    BY <2>1, <2>2, <2>3, SinceIsFinite DEF KeyInv, Counted
  <2>5. Start(key) >= now - WindowSeconds + 1
    BY <2>2, <2>3 DEF Start
  <2> DEFINE recent == CallsIn(key, now - WindowSeconds + 1, now + 1)
  <2>6. Since(key, Start(key)) \in SUBSET recent
    BY <2>3, <2>5 DEF Since, CallsIn
  <2>7. IsFiniteSet(recent) /\ Cardinality(recent) \in Nat
    BY <2>1, CallsAreFinite
  <2> HIDE DEF recent
  <2>8. Cardinality(Since(key, Start(key))) <= Cardinality(recent)
    BY <2>6, <2>7, FS_Subset
  <2>9. Cardinality(recent) >= Limit
    BY <2>3, <2>4, <2>7, <2>8
  <2>10. QED
    BY <2>9 DEF recent
<1>2. QED
  BY <1>1, CallsInvariant, PTL

(* A key that was not evicted makes fewer than twice limit calls in any    *)
(* window_seconds.                                                         *)
THEOREM BurstsAlwaysBounded == LimiterSpec => []BurstsAreBounded
<1>1. CallsInv => BurstsAreBounded
  BY LimiterAssumption DEF CallsInv, KeyInv, Bursts, BurstsAreBounded
<1>2. QED
  BY <1>1, CallsInvariant, PTL
-----------------------------------------------------------------------------
(* Where the tasks of one socket may be at the same time.                  *)
SocketInv(w) ==
  /\ w \in conns => /\ handler[w] = "receiving" /\ writer[w] \in {"waiting", "sending"}
                    /\ w \notin cancelled /\ ~closed[w] /\ term[w].phase = "none"
  /\ handler[w] \in {"new", "accepting", "refusing", "aborting"} => writer[w] = "none"
  /\ handler[w] \in {"new", "accepting"} => ~closed[w]
  /\ writer[w] = "none" => w \notin cancelled /\ term[w].phase = "none"
  /\ closed[w] => writer[w] \in {"none", "owned", "done"}
  /\ term[w].kind = "none" => term[w].phase = "none"
  /\ term[w].kind = "close" => writer[w] \in {"owned", "done"}

(* The events of a socket that were sent, are being sent or are queued.    *)
Kept(w) == sent[w] + queue[w] + (IF writer[w] = "sending" THEN 1 ELSE 0)

EventsInv(w) ==
  /\ offered[w] <= events
  /\ Kept(w) <= offered[w]
  /\ w \in conns => Kept(w) = offered[w]
  /\ handler[w] \in {"new", "accepting"} => offered[w] = 0

(* A closed hub registers nothing, and close() gathers all that is left.   *)
CloseInv ==
  /\ hubClosed => conns = {}
  /\ shutdown.phase # "none" => hubClosed
  /\ shutdown.phase \in {"gather", "done"} =>
       \A w \in Sockets : /\ Writing(w) => w \in shutdown.writers
                          /\ Ending(w) => w \in shutdown.cleanups
  /\ shutdown.phase = "done" => \A w \in Sockets : ~Writing(w) /\ ~Ending(w)

HubInv == HubTypeOK /\ CloseInv /\ \A w \in Sockets : SocketInv(w) /\ EventsInv(w)

TermTypes == [kind : {"none", "terminate", "close"},
              phase : {"none", "start", "quiescing", "closing", "done"}]

LEMMA CloseTypes ==
  ASSUME HubTypeOK, NEW w \in Sockets,
         Close(w) \/ (TermGoes(w, "quiescing") /\ UNCHANGED <<closed, present>>)
  PROVE  /\ term' \in [Sockets -> TermTypes] /\ closed' \in [Sockets -> BOOLEAN]
         /\ present' \subseteq Sockets
         /\ \A v \in Sockets \ {w} : term'[v] = term[v] /\ closed'[v] = closed[v]
         /\ term'[w].kind = term[w].kind /\ term'[w].phase \in {"quiescing", "closing", "done"}
         /\ (closed'[w] => closed[w] \/ Close(w))
<1>1. term \in [Sockets -> TermTypes] /\ closed \in [Sockets -> BOOLEAN] /\ present \subseteq Sockets
  BY DEF HubTypeOK, TermTypes
<1>2. \A step \in {"quiescing", "closing", "done"} :
        TermGoes(w, step) => /\ term' \in [Sockets -> TermTypes]
                             /\ \A v \in Sockets \ {w} : term'[v] = term[v]
                             /\ term'[w].kind = term[w].kind /\ term'[w].phase = step
  BY <1>1 DEF TermGoes, TermTypes
<1>3. \/ /\ TermGoes(w, "done") \/ TermGoes(w, "quiescing")
         /\ closed' = closed /\ present' = present
      \/ /\ TermGoes(w, "closing") /\ closed' = [closed EXCEPT ![w] = TRUE]
         /\ present' = present \ {w} /\ Close(w)
  BY DEF Close, BeginClose
<1>4. /\ term' \in [Sockets -> TermTypes]
      /\ \A v \in Sockets \ {w} : term'[v] = term[v]
      /\ term'[w].kind = term[w].kind /\ term'[w].phase \in {"quiescing", "closing", "done"}
  BY <1>2, <1>3
<1>5. QED
  BY <1>1, <1>3, <1>4

(* What an event does to the count of a socket.                            *)
EnqueuedAs(v, ws) ==
  /\ conns' \subseteq conns
  /\ \/ v \in ws /\ queue'[v] = queue[v] + 1 /\ offered'[v] = offered[v] + 1
     \/ v \in ws /\ v \notin conns' /\ queue'[v] = queue[v] /\ offered'[v] = offered[v] + 1
     \/ v \notin ws /\ queue'[v] = queue[v] /\ offered'[v] = offered[v]

LEMMA EnqueueTypes ==
  ASSUME HubTypeOK, NEW ws, ws \subseteq conns, Enqueue(ws), events < MaxEvents,
         \A w \in Sockets : EventsInv(w)
  PROVE  /\ queue' \in [Sockets -> 0..QueueSize] /\ offered' \in [Sockets -> 0..MaxEvents]
         /\ conns' \subseteq conns /\ term' \in [Sockets -> TermTypes]
         /\ \A v \in Sockets : EnqueuedAs(v, ws)
<1>1. /\ queue \in [Sockets -> 0..QueueSize] /\ offered \in [Sockets -> 0..MaxEvents]
      /\ term \in [Sockets -> TermTypes] /\ events \in 0..MaxEvents
      /\ QueueSize \in Nat /\ MaxEvents \in Nat
  BY HubAssumption DEF HubTypeOK, TermTypes
<1>2. /\ queue' = [w \in Sockets |-> IF w \in ws \ Full(ws) THEN queue[w] + 1 ELSE queue[w]]
      /\ offered' = [w \in Sockets |-> IF w \in ws THEN offered[w] + 1 ELSE offered[w]]
      /\ conns' = conns \ Full(ws) /\ Schedule(Full(ws), "terminate")
  BY DEF Enqueue
<1>3. \A v \in ws : v \in Full(ws) <=> queue[v] = QueueSize
  BY DEF Full
<1>4. \A v \in Sockets : queue'[v] \in 0..QueueSize /\ offered'[v] \in 0..MaxEvents
  BY <1>1, <1>2, <1>3 DEF EventsInv
<1>5. term' \in [Sockets -> TermTypes]
  BY <1>1, <1>2 DEF Schedule, TermTypes
<1>6. QED
  BY <1>1, <1>2, <1>3, <1>4, <1>5 DEF EnqueuedAs

LEMMA EventsCounted ==
  ASSUME HubInv, NEW v \in Sockets, NEW ws, ws \subseteq conns, EnqueuedAs(v, ws),
         sent' = sent, writer' = writer, events' = events + 1,
         handler'[v] \in {"new", "accepting"} => handler[v] \in {"new", "accepting"}
  PROVE  EventsInv(v)'
<1>1. /\ offered[v] \in Nat /\ queue[v] \in Nat /\ sent[v] \in Nat /\ events \in Nat
      /\ SocketInv(v) /\ EventsInv(v)
  BY HubAssumption DEF HubInv, HubTypeOK
<1>2. v \in ws => handler[v] = "receiving"
  BY <1>1 DEF SocketInv
<1>3. /\ writer'[v] = writer[v] /\ sent'[v] = sent[v] /\ conns' \subseteq conns
      /\ offered[v] <= events /\ Kept(v) <= offered[v] /\ Kept(v) \in Nat
      /\ v \in conns => Kept(v) = offered[v]
  BY <1>1 DEF EventsInv, Kept, EnqueuedAs
<1>4. CASE v \in ws /\ queue'[v] = queue[v] + 1 /\ offered'[v] = offered[v] + 1
  <2>1. Kept(v)' = Kept(v) + 1
    BY <1>1, <1>3, <1>4 DEF Kept
  <2>2. QED
    BY <1>1, <1>2, <1>3, <1>4, <2>1 DEF EventsInv
<1>5. CASE v \in ws /\ v \notin conns' /\ queue'[v] = queue[v] /\ offered'[v] = offered[v] + 1
  <2>1. Kept(v)' = Kept(v)
    BY <1>1, <1>3, <1>5 DEF Kept
  <2>2. QED
    BY <1>1, <1>2, <1>3, <1>5, <2>1 DEF EventsInv
<1>6. CASE v \notin ws /\ queue'[v] = queue[v] /\ offered'[v] = offered[v]
  <2>1. Kept(v)' = Kept(v)
    BY <1>1, <1>3, <1>6 DEF Kept
  <2>2. QED
    BY <1>1, <1>3, <1>6, <2>1 DEF EventsInv
<1>7. QED
  BY <1>4, <1>5, <1>6 DEF EnqueuedAs

(* The types.                                                              *)
LEMMA NextTypes ==
  ASSUME HubInv, [HubNext]_hubVars
  PROVE  HubTypeOK'
<1>1. ASSUME NEW w \in Sockets, Connect(w) PROVE HubTypeOK'
  BY <1>1 DEF HubInv, Connect, HandlerGoes, HubTypeOK, taskVars, countVars
<1>2. ASSUME NEW w \in Sockets, Accepted(w) PROVE HubTypeOK'
  <2>1. CASE hubClosed
    BY <1>2, <2>1 DEF HubInv, Accepted, HandlerGoes, BeginClose, HubTypeOK,
      countVars
  <2>2. CASE ~hubClosed
    <3>1. /\ handler' \in [Sockets -> {"new", "accepting", "refusing", "aborting", "receiving",
                                      "disconnecting", "awaiting", "done"}]
          /\ writer' \in [Sockets -> {"none", "waiting", "sending", "owned", "done"}]
      BY <1>2, <2>2 DEF HubInv, Accepted, HandlerGoes, WriterGoes, Register,
      HubTypeOK
    <3>2. conns' \subseteq Sockets
      BY <1>2, <2>2 DEF HubInv, Accepted, Register, HubTypeOK
    <3>3. QED
      BY <1>2, <2>2, <3>1, <3>2 DEF HubInv, Accepted, Register, HubTypeOK,
      countVars
  <2>3. QED
    BY <2>1, <2>2
<1>3. ASSUME NEW w \in Sockets, AcceptFails(w) PROVE HubTypeOK'
  BY <1>3 DEF HubInv, AcceptFails, HandlerGoes, HubTypeOK, taskVars, countVars
<1>4. ASSUME NEW w \in Sockets, RefusalEnds(w) PROVE HubTypeOK'
  BY <1>4 DEF HubInv, RefusalEnds, HandlerGoes, HubTypeOK, taskVars, countVars
<1>5. ASSUME NEW w \in Sockets, HandlerCancelled(w) PROVE HubTypeOK'
  BY <1>5 DEF HubInv, HandlerCancelled, HandlerGoes, HubTypeOK, taskVars,
      countVars
<1>6. ASSUME NEW w \in Sockets, Disconnect(w) PROVE HubTypeOK'
  BY <1>6 DEF HubInv, Disconnect, HandlerGoes, HubTypeOK, taskVars, countVars
<1>7. ASSUME NEW w \in Sockets, BadFrame(w) PROVE HubTypeOK'
  BY <1>7 DEF HubInv, BadFrame, HandlerGoes, Schedule, Ending, HubTypeOK,
      taskVars, countVars
<1>8. ASSUME NEW w \in Sockets, Ping(w) PROVE HubTypeOK'
  <2>1. /\ queue' \in [Sockets -> 0..QueueSize] /\ offered' \in [Sockets -> 0..MaxEvents]
        /\ conns' \subseteq conns /\ term' \in [Sockets -> TermTypes]
    BY <1>8, EnqueueTypes DEF HubInv, Ping
  <2>2. handler' = handler \/ HandlerGoes(w, "done")
    BY <1>8 DEF Ping
  <2>3. QED
    BY <1>8, <2>1, <2>2, HubAssumption DEF HubInv, Ping, HandlerGoes, HubTypeOK,
      TermTypes
<1>9. ASSUME NEW w \in Sockets, HandlerEnds(w) PROVE HubTypeOK'
  BY <1>9 DEF HubInv, HandlerEnds, HandlerGoes, Writing, Ending, HubTypeOK,
      taskVars, countVars
<1>10. ASSUME NEW w \in Sockets, ClientLeaves(w) PROVE HubTypeOK'
  BY <1>10 DEF HubInv, ClientLeaves, HubTypeOK, taskVars, countVars
<1>11. ASSUME NEW w \in Sockets, Send(w) PROVE HubTypeOK'
  BY <1>11, HubAssumption DEF HubInv, Send, WriterGoes, HubTypeOK, EventsInv,
      Kept, taskVars, countVars
<1>12. ASSUME NEW w \in Sockets, SendSucceeds(w) PROVE HubTypeOK'
  BY <1>12, HubAssumption DEF HubInv, SendSucceeds, WriterGoes, HubTypeOK,
      EventsInv, Kept, taskVars, countVars
<1>13. ASSUME NEW w \in Sockets, SendFails(w) PROVE HubTypeOK'
  BY <1>13, HubAssumption DEF HubInv, SendFails, WriterGoes, Schedule, Ending,
      HubTypeOK, EventsInv, Kept, taskVars, countVars
<1>14. ASSUME NEW w \in Sockets, WriterEnds(w) PROVE HubTypeOK'
  BY <1>14 DEF HubInv, WriterEnds, WriterGoes, Writing, Ending, HubTypeOK,
      taskVars, countVars
<1>15. ASSUME NEW w \in Sockets, TermStarts(w) PROVE HubTypeOK'
  <2>1. Close(w) \/ (TermGoes(w, "quiescing") /\ UNCHANGED <<closed, present>>)
    BY <1>15 DEF TermStarts
  <2>2. /\ term' \in [Sockets -> TermTypes] /\ closed' \in [Sockets -> BOOLEAN]
        /\ present' \subseteq Sockets
    BY <2>1, CloseTypes DEF HubInv
  <2>3. QED
    BY <1>15, <2>2 DEF HubInv, TermStarts, HubTypeOK, TermTypes, countVars
<1>16. ASSUME NEW w \in Sockets, TermCloses(w) PROVE HubTypeOK'
  <2>1. /\ term' \in [Sockets -> TermTypes] /\ closed' \in [Sockets -> BOOLEAN]
        /\ present' \subseteq Sockets
    BY <1>16, CloseTypes DEF HubInv, TermCloses
  <2>2. QED
    BY <1>16, <2>1 DEF HubInv, TermCloses, HubTypeOK, TermTypes, countVars
<1>17. ASSUME NEW w \in Sockets, TermEnds(w) PROVE HubTypeOK'
  BY <1>17 DEF HubInv, TermEnds, TermGoes, HubTypeOK, taskVars, countVars
<1>18. ASSUME Broadcast PROVE HubTypeOK'
  <2>1. /\ queue' \in [Sockets -> 0..QueueSize] /\ offered' \in [Sockets -> 0..MaxEvents]
        /\ conns' \subseteq conns /\ term' \in [Sockets -> TermTypes]
    BY <1>18, EnqueueTypes DEF HubInv, Broadcast
  <2>2. QED
    BY <1>18, <2>1, HubAssumption DEF HubInv, Broadcast, HubTypeOK, TermTypes
<1>19. ASSUME CloseHub PROVE HubTypeOK'
  BY <1>19 DEF HubInv, CloseHub, Schedule, Ending, HubTypeOK, taskVars, countVars
<1>20. ASSUME ShutdownStarts PROVE HubTypeOK'
  BY <1>20 DEF HubInv, ShutdownStarts, Writing, Ending, HubTypeOK, taskVars,
      countVars
<1>21. ASSUME ShutdownEnds PROVE HubTypeOK'
  BY <1>21 DEF HubInv, ShutdownEnds, Writing, Ending, HubTypeOK, taskVars,
      countVars
<1>22. ASSUME UNCHANGED hubVars PROVE HubTypeOK'
  BY <1>22 DEF HubInv, hubVars, taskVars, countVars, HubTypeOK
<1>23. QED
  BY <1>1, <1>2, <1>3, <1>4, <1>5, <1>6, <1>7, <1>8, <1>9, <1>10, <1>11, <1>12,
     <1>13, <1>14, <1>15, <1>16, <1>17, <1>18, <1>19, <1>20, <1>21, <1>22
  DEF HubNext, RouteStep, WriterStep, TermStep, ShutdownStep

(* The tasks of each socket.                                               *)
LEMMA NextSocket ==
  ASSUME HubInv, [HubNext]_hubVars, NEW v \in Sockets
  PROVE  SocketInv(v)'
<1>1. ASSUME NEW w \in Sockets, Connect(w) PROVE SocketInv(v)'
  BY <1>1 DEF HubInv, Connect, HandlerGoes, HubTypeOK, SocketInv, taskVars,
      countVars
<1>2. ASSUME NEW w \in Sockets, Accepted(w) PROVE SocketInv(v)'
  BY <1>2 DEF HubInv, Accepted, HandlerGoes, WriterGoes, Register, BeginClose,
      HubTypeOK, SocketInv, taskVars, countVars
<1>3. ASSUME NEW w \in Sockets, AcceptFails(w) PROVE SocketInv(v)'
  BY <1>3 DEF HubInv, AcceptFails, HandlerGoes, HubTypeOK, SocketInv, taskVars,
      countVars
<1>4. ASSUME NEW w \in Sockets, RefusalEnds(w) PROVE SocketInv(v)'
  BY <1>4 DEF HubInv, RefusalEnds, HandlerGoes, HubTypeOK, SocketInv, taskVars,
      countVars
<1>5. ASSUME NEW w \in Sockets, HandlerCancelled(w) PROVE SocketInv(v)'
  BY <1>5 DEF HubInv, HandlerCancelled, HandlerGoes, HubTypeOK, SocketInv,
      taskVars, countVars
<1>6. ASSUME NEW w \in Sockets, Disconnect(w) PROVE SocketInv(v)'
  BY <1>6 DEF HubInv, Disconnect, HandlerGoes, HubTypeOK, SocketInv, taskVars,
      countVars
<1>7. ASSUME NEW w \in Sockets, BadFrame(w) PROVE SocketInv(v)'
  BY <1>7 DEF HubInv, BadFrame, HandlerGoes, Schedule, Ending, HubTypeOK,
      SocketInv, taskVars, countVars
<1>8. ASSUME NEW w \in Sockets, Ping(w) PROVE SocketInv(v)'
  BY <1>8 DEF HubInv, Ping, HandlerGoes, Enqueue, Full, Schedule, Ending,
      HubTypeOK, SocketInv, taskVars, countVars
<1>9. ASSUME NEW w \in Sockets, HandlerEnds(w) PROVE SocketInv(v)'
  BY <1>9 DEF HubInv, HandlerEnds, HandlerGoes, Writing, Ending, HubTypeOK,
      SocketInv, taskVars, countVars
<1>10. ASSUME NEW w \in Sockets, ClientLeaves(w) PROVE SocketInv(v)'
  BY <1>10 DEF HubInv, ClientLeaves, HubTypeOK, SocketInv, taskVars, countVars
<1>11. ASSUME NEW w \in Sockets, Send(w) PROVE SocketInv(v)'
  BY <1>11 DEF HubInv, Send, WriterGoes, HubTypeOK, SocketInv, taskVars,
      countVars
<1>12. ASSUME NEW w \in Sockets, SendSucceeds(w) PROVE SocketInv(v)'
  BY <1>12 DEF HubInv, SendSucceeds, WriterGoes, HubTypeOK, SocketInv, taskVars,
      countVars
<1>13. ASSUME NEW w \in Sockets, SendFails(w) PROVE SocketInv(v)'
  BY <1>13 DEF HubInv, SendFails, WriterGoes, Schedule, Ending, HubTypeOK,
      SocketInv, taskVars, countVars
<1>14. ASSUME NEW w \in Sockets, WriterEnds(w) PROVE SocketInv(v)'
  BY <1>14 DEF HubInv, WriterEnds, WriterGoes, Writing, Ending, HubTypeOK,
      SocketInv, taskVars, countVars
<1>15. ASSUME NEW w \in Sockets, TermStarts(w) PROVE SocketInv(v)'
  <2>1. Close(w) \/ (TermGoes(w, "quiescing") /\ UNCHANGED <<closed, present>>)
    BY <1>15 DEF TermStarts
  <2>2. /\ \A u \in Sockets \ {w} : term'[u] = term[u] /\ closed'[u] = closed[u]
        /\ term'[w].kind = term[w].kind /\ term[w].phase = "start"
        /\ closed'[w] => closed[w] \/ Close(w)
    BY <1>15, <2>1, CloseTypes DEF HubInv, TermStarts
  <2>3. /\ UNCHANGED <<conns, handler, writer>>
        /\ \A u \in Sockets \ {w} : u \in cancelled' <=> u \in cancelled
    BY <1>15 DEF TermStarts
  <2>4. SocketInv(w) /\ SocketInv(v)
    BY DEF HubInv
  <2>5. ASSUME Close(w) PROVE writer[w] \in {"none", "owned", "done"}
    <3>1. writer \in [Sockets -> {"none", "waiting", "sending", "owned", "done"}]
          /\ term \in [Sockets -> TermTypes]
      BY DEF HubInv, HubTypeOK, TermTypes
    <3>2. ~(term[w].kind = "terminate" /\ Writing(w))
      <4>1. ~Close(w) \/ ~TermGoes(w, "quiescing")
        BY <3>1 DEF Close, TermGoes, TermTypes
      <4>2. QED
        BY <1>15, <2>5, <4>1 DEF TermStarts
    <3>3. QED
      BY <2>2, <2>4, <3>1, <3>2 DEF SocketInv, Writing, TermTypes
  <2>6. CASE v = w
    BY <2>2, <2>3, <2>4, <2>5, <2>6 DEF SocketInv
  <2>7. CASE v # w
    BY <2>2, <2>3, <2>4, <2>7 DEF SocketInv
  <2>8. QED
    BY <2>6, <2>7
<1>16. ASSUME NEW w \in Sockets, TermCloses(w) PROVE SocketInv(v)'
  BY <1>16 DEF HubInv, TermCloses, TermGoes, Close, BeginClose, Writing,
      HubTypeOK, SocketInv, taskVars, countVars
<1>17. ASSUME NEW w \in Sockets, TermEnds(w) PROVE SocketInv(v)'
  BY <1>17 DEF HubInv, TermEnds, TermGoes, HubTypeOK, SocketInv, taskVars,
      countVars
<1>18. ASSUME Broadcast PROVE SocketInv(v)'
  BY <1>18 DEF HubInv, Broadcast, Enqueue, Full, Schedule, Ending, HubTypeOK,
      SocketInv, taskVars, countVars
<1>19. ASSUME CloseHub PROVE SocketInv(v)'
  BY <1>19 DEF HubInv, CloseHub, Schedule, Ending, HubTypeOK, SocketInv,
      taskVars, countVars
<1>20. ASSUME ShutdownStarts PROVE SocketInv(v)'
  BY <1>20 DEF HubInv, ShutdownStarts, Writing, HubTypeOK, SocketInv, CloseInv, countVars
<1>21. ASSUME ShutdownEnds PROVE SocketInv(v)'
  BY <1>21 DEF HubInv, ShutdownEnds, Writing, Ending, HubTypeOK, SocketInv,
      taskVars, countVars
<1>22. ASSUME UNCHANGED hubVars PROVE SocketInv(v)'
  BY <1>22 DEF HubInv, hubVars, taskVars, countVars, HubTypeOK, SocketInv
<1>23. QED
  BY <1>1, <1>2, <1>3, <1>4, <1>5, <1>6, <1>7, <1>8, <1>9, <1>10, <1>11, <1>12,
     <1>13, <1>14, <1>15, <1>16, <1>17, <1>18, <1>19, <1>20, <1>21, <1>22
  DEF HubNext, RouteStep, WriterStep, TermStep, ShutdownStep

(* The events of each socket.                                              *)
LEMMA NextEvents ==
  ASSUME HubInv, [HubNext]_hubVars, NEW v \in Sockets
  PROVE  EventsInv(v)'
<1>1. ASSUME NEW w \in Sockets, Connect(w) PROVE EventsInv(v)'
  BY <1>1, HubAssumption DEF HubInv, Connect, HandlerGoes, HubTypeOK, SocketInv,
      EventsInv, Kept, taskVars, countVars
<1>2. ASSUME NEW w \in Sockets, Accepted(w) PROVE EventsInv(v)'
  BY <1>2, HubAssumption DEF HubInv, Accepted, HandlerGoes, WriterGoes,
      Register, BeginClose, HubTypeOK, SocketInv, EventsInv, Kept, taskVars,
      countVars
<1>3. ASSUME NEW w \in Sockets, AcceptFails(w) PROVE EventsInv(v)'
  BY <1>3, HubAssumption DEF HubInv, AcceptFails, HandlerGoes, HubTypeOK,
      SocketInv, EventsInv, Kept, taskVars, countVars
<1>4. ASSUME NEW w \in Sockets, RefusalEnds(w) PROVE EventsInv(v)'
  BY <1>4, HubAssumption DEF HubInv, RefusalEnds, HandlerGoes, HubTypeOK,
      SocketInv, EventsInv, Kept, taskVars, countVars
<1>5. ASSUME NEW w \in Sockets, HandlerCancelled(w) PROVE EventsInv(v)'
  BY <1>5, HubAssumption DEF HubInv, HandlerCancelled, HandlerGoes, HubTypeOK,
      SocketInv, EventsInv, Kept, taskVars, countVars
<1>6. ASSUME NEW w \in Sockets, Disconnect(w) PROVE EventsInv(v)'
  BY <1>6, HubAssumption DEF HubInv, Disconnect, HandlerGoes, HubTypeOK,
      SocketInv, EventsInv, Kept, taskVars, countVars
<1>7. ASSUME NEW w \in Sockets, BadFrame(w) PROVE EventsInv(v)'
  BY <1>7, HubAssumption DEF HubInv, BadFrame, HandlerGoes, Schedule, Ending,
      HubTypeOK, SocketInv, EventsInv, Kept, taskVars, countVars
<1>8. ASSUME NEW w \in Sockets, Ping(w) PROVE EventsInv(v)'
  <2>1. EnqueuedAs(v, {w} \cap conns)
    BY <1>8, EnqueueTypes DEF HubInv, Ping
  <2>2. sent' = sent /\ writer' = writer /\ events' = events + 1
        /\ (handler'[v] \in {"new", "accepting"} => handler[v] \in {"new", "accepting"} /\ v # w)
    BY <1>8 DEF HubInv, HubTypeOK, Ping, HandlerGoes
  <2>3. QED
    BY <2>1, <2>2, EventsCounted DEF HubInv
<1>9. ASSUME NEW w \in Sockets, HandlerEnds(w) PROVE EventsInv(v)'
  BY <1>9, HubAssumption DEF HubInv, HandlerEnds, HandlerGoes, Writing,
      Ending, HubTypeOK, SocketInv, EventsInv, Kept, taskVars, countVars
<1>10. ASSUME NEW w \in Sockets, ClientLeaves(w) PROVE EventsInv(v)'
  BY <1>10, HubAssumption DEF HubInv, ClientLeaves, HubTypeOK, SocketInv,
      EventsInv, Kept, taskVars, countVars
<1>11. ASSUME NEW w \in Sockets, Send(w) PROVE EventsInv(v)'
  BY <1>11, HubAssumption DEF HubInv, Send, WriterGoes, HubTypeOK, SocketInv,
      EventsInv, Kept, taskVars, countVars
<1>12. ASSUME NEW w \in Sockets, SendSucceeds(w) PROVE EventsInv(v)'
  BY <1>12, HubAssumption DEF HubInv, SendSucceeds, WriterGoes, HubTypeOK,
      SocketInv, EventsInv, Kept, taskVars, countVars
<1>13. ASSUME NEW w \in Sockets, SendFails(w) PROVE EventsInv(v)'
  BY <1>13, HubAssumption DEF HubInv, SendFails, WriterGoes, Schedule, Ending,
      HubTypeOK, SocketInv, EventsInv, Kept, taskVars, countVars
<1>14. ASSUME NEW w \in Sockets, WriterEnds(w) PROVE EventsInv(v)'
  BY <1>14, HubAssumption DEF HubInv, WriterEnds, WriterGoes, Writing, Ending,
      HubTypeOK, SocketInv, EventsInv, Kept, taskVars, countVars
<1>15. ASSUME NEW w \in Sockets, TermStarts(w) PROVE EventsInv(v)'
  BY <1>15, HubAssumption DEF HubInv, TermStarts, TermGoes, Close, BeginClose,
      Writing, HubTypeOK, SocketInv, EventsInv, Kept, taskVars, countVars
<1>16. ASSUME NEW w \in Sockets, TermCloses(w) PROVE EventsInv(v)'
  BY <1>16, HubAssumption DEF HubInv, TermCloses, TermGoes, Close, BeginClose,
      Writing, HubTypeOK, SocketInv, EventsInv, Kept, taskVars, countVars
<1>17. ASSUME NEW w \in Sockets, TermEnds(w) PROVE EventsInv(v)'
  BY <1>17, HubAssumption DEF HubInv, TermEnds, TermGoes, HubTypeOK, SocketInv,
      EventsInv, Kept, taskVars, countVars
<1>18. ASSUME Broadcast PROVE EventsInv(v)'
  <2>1. EnqueuedAs(v, conns)
    BY <1>18, EnqueueTypes DEF HubInv, Broadcast
  <2>2. sent' = sent /\ writer' = writer /\ events' = events + 1 /\ handler' = handler
    BY <1>18 DEF Broadcast
  <2>3. QED
    BY <2>1, <2>2, EventsCounted DEF HubInv
<1>19. ASSUME CloseHub PROVE EventsInv(v)'
  BY <1>19, HubAssumption DEF HubInv, CloseHub, Schedule, Ending, HubTypeOK,
      SocketInv, EventsInv, Kept, taskVars, countVars
<1>20. ASSUME ShutdownStarts PROVE EventsInv(v)'
  BY <1>20, HubAssumption DEF HubInv, ShutdownStarts, Writing, Ending, HubTypeOK,
      SocketInv, EventsInv, Kept, taskVars, countVars
<1>21. ASSUME ShutdownEnds PROVE EventsInv(v)'
  BY <1>21, HubAssumption DEF HubInv, ShutdownEnds, Writing, Ending, HubTypeOK,
      SocketInv, EventsInv, Kept, taskVars, countVars
<1>22. ASSUME UNCHANGED hubVars PROVE EventsInv(v)'
  BY <1>22 DEF HubInv, hubVars, taskVars, countVars, HubTypeOK, SocketInv,
      EventsInv, Kept
<1>23. QED
  BY <1>1, <1>2, <1>3, <1>4, <1>5, <1>6, <1>7, <1>8, <1>9, <1>10, <1>11, <1>12,
     <1>13, <1>14, <1>15, <1>16, <1>17, <1>18, <1>19, <1>20, <1>21, <1>22
  DEF HubNext, RouteStep, WriterStep, TermStep, ShutdownStep

(* The end of the hub.                                                     *)
LEMMA NextClose ==
  ASSUME HubInv, [HubNext]_hubVars
  PROVE  CloseInv'
<1>1. ASSUME NEW w \in Sockets, Connect(w) PROVE CloseInv'
  BY <1>1 DEF HubInv, Connect, HandlerGoes, HubTypeOK, SocketInv, CloseInv,
      Writing, Ending, taskVars, countVars
<1>2. ASSUME NEW w \in Sockets, Accepted(w) PROVE CloseInv'
  BY <1>2 DEF HubInv, Accepted, HandlerGoes, WriterGoes, Register, BeginClose,
      HubTypeOK, SocketInv, CloseInv, Writing, Ending, taskVars, countVars
<1>3. ASSUME NEW w \in Sockets, AcceptFails(w) PROVE CloseInv'
  BY <1>3 DEF HubInv, AcceptFails, HandlerGoes, HubTypeOK, SocketInv, CloseInv,
      Writing, Ending, taskVars, countVars
<1>4. ASSUME NEW w \in Sockets, RefusalEnds(w) PROVE CloseInv'
  BY <1>4 DEF HubInv, RefusalEnds, HandlerGoes, HubTypeOK, SocketInv, CloseInv,
      Writing, Ending, taskVars, countVars
<1>5. ASSUME NEW w \in Sockets, HandlerCancelled(w) PROVE CloseInv'
  BY <1>5 DEF HubInv, HandlerCancelled, HandlerGoes, HubTypeOK, SocketInv,
      CloseInv, Writing, Ending, taskVars, countVars
<1>6. ASSUME NEW w \in Sockets, Disconnect(w) PROVE CloseInv'
  BY <1>6 DEF HubInv, Disconnect, HandlerGoes, HubTypeOK, SocketInv, CloseInv,
      Writing, Ending, taskVars, countVars
<1>7. ASSUME NEW w \in Sockets, BadFrame(w) PROVE CloseInv'
  BY <1>7 DEF HubInv, BadFrame, HandlerGoes, Schedule, Ending, HubTypeOK,
      SocketInv, CloseInv, Writing, taskVars, countVars
<1>8. ASSUME NEW w \in Sockets, Ping(w) PROVE CloseInv'
  BY <1>8 DEF HubInv, Ping, HandlerGoes, Enqueue, Full, Schedule, Ending,
      HubTypeOK, SocketInv, CloseInv, Writing, taskVars, countVars
<1>9. ASSUME NEW w \in Sockets, HandlerEnds(w) PROVE CloseInv'
  BY <1>9 DEF HubInv, HandlerEnds, HandlerGoes, Writing, Ending, HubTypeOK,
      SocketInv, CloseInv, taskVars, countVars
<1>10. ASSUME NEW w \in Sockets, ClientLeaves(w) PROVE CloseInv'
  BY <1>10 DEF HubInv, ClientLeaves, HubTypeOK, SocketInv, CloseInv, Writing,
      Ending, taskVars, countVars
<1>11. ASSUME NEW w \in Sockets, Send(w) PROVE CloseInv'
  BY <1>11 DEF HubInv, Send, WriterGoes, HubTypeOK, SocketInv, CloseInv, Writing,
      Ending, taskVars, countVars
<1>12. ASSUME NEW w \in Sockets, SendSucceeds(w) PROVE CloseInv'
  BY <1>12 DEF HubInv, SendSucceeds, WriterGoes, HubTypeOK, SocketInv, CloseInv,
      Writing, Ending, taskVars, countVars
<1>13. ASSUME NEW w \in Sockets, SendFails(w) PROVE CloseInv'
  BY <1>13 DEF HubInv, SendFails, WriterGoes, Schedule, Ending, HubTypeOK,
      SocketInv, CloseInv, Writing, taskVars, countVars
<1>14. ASSUME NEW w \in Sockets, WriterEnds(w) PROVE CloseInv'
  BY <1>14 DEF HubInv, WriterEnds, WriterGoes, Writing, Ending, HubTypeOK,
      SocketInv, CloseInv, taskVars, countVars
<1>15. ASSUME NEW w \in Sockets, TermStarts(w) PROVE CloseInv'
  BY <1>15 DEF HubInv, TermStarts, TermGoes, Close, BeginClose, Writing,
      HubTypeOK, SocketInv, CloseInv, Ending, taskVars, countVars
<1>16. ASSUME NEW w \in Sockets, TermCloses(w) PROVE CloseInv'
  BY <1>16 DEF HubInv, TermCloses, TermGoes, Close, BeginClose, Writing,
      HubTypeOK, SocketInv, CloseInv, Ending, taskVars, countVars
<1>17. ASSUME NEW w \in Sockets, TermEnds(w) PROVE CloseInv'
  BY <1>17 DEF HubInv, TermEnds, TermGoes, HubTypeOK, SocketInv, CloseInv,
      Writing, Ending, taskVars, countVars
<1>18. ASSUME Broadcast PROVE CloseInv'
  BY <1>18 DEF HubInv, Broadcast, Enqueue, Full, Schedule, Ending, HubTypeOK,
      SocketInv, CloseInv, Writing, taskVars, countVars
<1>19. ASSUME CloseHub PROVE CloseInv'
  BY <1>19 DEF HubInv, CloseHub, Schedule, Ending, HubTypeOK, SocketInv,
      CloseInv, Writing, taskVars, countVars
<1>20. ASSUME ShutdownStarts PROVE CloseInv'
  BY <1>20 DEF HubInv, ShutdownStarts, Writing, Ending, HubTypeOK, SocketInv,
      CloseInv, taskVars, countVars
<1>21. ASSUME ShutdownEnds PROVE CloseInv'
  BY <1>21 DEF HubInv, ShutdownEnds, Writing, Ending, HubTypeOK, SocketInv,
      CloseInv, taskVars, countVars
<1>22. ASSUME UNCHANGED hubVars PROVE CloseInv'
  BY <1>22 DEF HubInv, hubVars, taskVars, countVars, HubTypeOK, SocketInv, CloseInv,
      Writing, Ending
<1>23. QED
  BY <1>1, <1>2, <1>3, <1>4, <1>5, <1>6, <1>7, <1>8, <1>9, <1>10, <1>11, <1>12,
     <1>13, <1>14, <1>15, <1>16, <1>17, <1>18, <1>19, <1>20, <1>21, <1>22
  DEF HubNext, RouteStep, WriterStep, TermStep, ShutdownStep

LEMMA HubInvariant == HubSpec => []HubInv
<1>1. HubInit => HubInv
  <2> SUFFICES ASSUME HubInit PROVE HubInv
    OBVIOUS
  <2>1. HubTypeOK
    <3>1. NoTask \in TermTypes /\ 0 \in 0..QueueSize /\ 0 \in 0..MaxEvents
      BY HubAssumption DEF NoTask, TermTypes
    <3>2. NotClosing \in [phase : {"none", "start", "gather", "done"},
                          writers : SUBSET Sockets, cleanups : SUBSET Sockets]
      BY DEF NotClosing
    <3>3. QED
      BY <3>1, <3>2 DEF HubInit, HubTypeOK, TermTypes
  <2>2. CloseInv
    BY DEF HubInit, CloseInv, NotClosing
  <2>3. \A w \in Sockets : SocketInv(w) /\ EventsInv(w)
    BY DEF HubInit, SocketInv, EventsInv, Kept, NoTask
  <2>4. QED
    BY <2>1, <2>2, <2>3 DEF HubInv
<1>2. HubInv /\ [HubNext]_hubVars => HubInv'
  BY NextTypes, NextSocket, NextEvents, NextClose DEF HubInv
<1>3. QED
  BY <1>1, <1>2, PTL DEF HubSpec

(* The tasks, flags and counters of the hub keep their types.              *)
THEOREM HubTypeCorrect == HubSpec => []HubTypeOK
  BY HubInvariant, PTL DEF HubInv

(* Every registered socket has a writer that nobody ends, and no event for *)
(* it is lost.                                                             *)
THEOREM RegisteredAlwaysServed == HubSpec => []RegisteredIsServed
<1>1. HubInv => RegisteredIsServed
  <2> SUFFICES ASSUME HubInv, NEW w \in conns
               PROVE  /\ writer[w] \in {"waiting", "sending"} /\ w \notin cancelled
                      /\ ~closed[w] /\ ~Ending(w)
                      /\ offered[w] = sent[w] + queue[w] + (IF writer[w] = "sending" THEN 1 ELSE 0)
    BY DEF RegisteredIsServed
  <2>1. SocketInv(w) /\ EventsInv(w)
    BY DEF HubInv, HubTypeOK
  <2>2. QED
    BY <2>1 DEF SocketInv, EventsInv, Kept, Ending
<1>2. QED
  BY <1>1, HubInvariant, PTL

(* A writer is cancelled by whoever begins to wait for it, and what is     *)
(* cancelled stays so; none begins after the hub was closed, or under a    *)
(* task that ends its socket.                                              *)
Awaited(w) == WriterIsAwaited(w) /\ Writing(w) => w \in cancelled

LEMMA NextAwaited ==
  ASSUME HubInv, [HubNext]_hubVars, NEW v \in Sockets, Awaited(v)
  PROVE  Awaited(v)'
<1> USE DEF Awaited, WriterIsAwaited
<1>1. ASSUME NEW w \in Sockets, Connect(w) PROVE Awaited(v)'
  BY <1>1 DEF Connect, HandlerGoes, HubInv, HubTypeOK, SocketInv, CloseInv, Writing,
     taskVars, countVars
<1>2. ASSUME NEW w \in Sockets, Accepted(w) PROVE Awaited(v)'
  BY <1>2 DEF Accepted, HandlerGoes, WriterGoes, Register, HubInv, HubTypeOK, SocketInv,
     CloseInv, Writing, taskVars, countVars
<1>3. ASSUME NEW w \in Sockets, AcceptFails(w) PROVE Awaited(v)'
  BY <1>3 DEF AcceptFails, HandlerGoes, HubInv, HubTypeOK, SocketInv, CloseInv, Writing,
     taskVars, countVars
<1>4. ASSUME NEW w \in Sockets, RefusalEnds(w) PROVE Awaited(v)'
  BY <1>4 DEF RefusalEnds, HandlerGoes, HubInv, HubTypeOK, SocketInv, CloseInv, Writing,
     taskVars, countVars
<1>5. ASSUME NEW w \in Sockets, HandlerCancelled(w) PROVE Awaited(v)'
  BY <1>5 DEF HandlerCancelled, HandlerGoes, HubInv, HubTypeOK, SocketInv, CloseInv,
     Writing, taskVars, countVars
<1>6. ASSUME NEW w \in Sockets, Disconnect(w) PROVE Awaited(v)'
  BY <1>6 DEF Disconnect, HandlerGoes, HubInv, HubTypeOK, SocketInv, CloseInv, Writing,
     taskVars, countVars
<1>7. ASSUME NEW w \in Sockets, BadFrame(w) PROVE Awaited(v)'
  BY <1>7 DEF BadFrame, HandlerGoes, Schedule, Ending, HubInv, HubTypeOK, SocketInv,
     CloseInv, Writing, taskVars, countVars
<1>8. ASSUME NEW w \in Sockets, Ping(w) PROVE Awaited(v)'
  BY <1>8 DEF Ping, HandlerGoes, Enqueue, Schedule, Ending, HubInv, HubTypeOK, SocketInv,
     CloseInv, Writing, taskVars, countVars
<1>9. ASSUME NEW w \in Sockets, HandlerEnds(w) PROVE Awaited(v)'
  BY <1>9 DEF HandlerEnds, HandlerGoes, HubInv, HubTypeOK, SocketInv, CloseInv, Writing,
     taskVars, countVars
<1>10. ASSUME NEW w \in Sockets, ClientLeaves(w) PROVE Awaited(v)'
  BY <1>10 DEF ClientLeaves, HubInv, HubTypeOK, SocketInv, CloseInv, Writing, taskVars,
     countVars
<1>11. ASSUME NEW w \in Sockets, Send(w) PROVE Awaited(v)'
  BY <1>11 DEF Send, WriterGoes, HubInv, HubTypeOK, SocketInv, CloseInv, Writing, taskVars,
     countVars
<1>12. ASSUME NEW w \in Sockets, SendSucceeds(w) PROVE Awaited(v)'
  BY <1>12 DEF SendSucceeds, WriterGoes, HubInv, HubTypeOK, SocketInv, CloseInv, Writing,
     taskVars, countVars
<1>13. ASSUME NEW w \in Sockets, SendFails(w) PROVE Awaited(v)'
  BY <1>13 DEF SendFails, WriterGoes, Schedule, Ending, HubInv, HubTypeOK, SocketInv,
     CloseInv, Writing, taskVars, countVars
<1>14. ASSUME NEW w \in Sockets, WriterEnds(w) PROVE Awaited(v)'
  BY <1>14 DEF WriterEnds, WriterGoes, HubInv, HubTypeOK, SocketInv, CloseInv, Writing,
     taskVars, countVars
<1>15. ASSUME NEW w \in Sockets, TermStarts(w) PROVE Awaited(v)'
  BY <1>15 DEF TermStarts, TermGoes, Close, HubInv, HubTypeOK, SocketInv, CloseInv, Writing,
     taskVars, countVars
<1>16. ASSUME NEW w \in Sockets, TermCloses(w) PROVE Awaited(v)'
  BY <1>16 DEF TermCloses, TermGoes, Close, HubInv, HubTypeOK, SocketInv, CloseInv, Writing,
     taskVars, countVars
<1>17. ASSUME NEW w \in Sockets, TermEnds(w) PROVE Awaited(v)'
  BY <1>17 DEF TermEnds, TermGoes, HubInv, HubTypeOK, SocketInv, CloseInv, Writing,
     taskVars, countVars
<1>18. ASSUME Broadcast PROVE Awaited(v)'
  BY <1>18 DEF Broadcast, Enqueue, Schedule, Ending, HubInv, HubTypeOK, SocketInv, CloseInv,
     Writing, taskVars, countVars
<1>19. ASSUME CloseHub PROVE Awaited(v)'
  BY <1>19 DEF CloseHub, Schedule, Ending, HubInv, HubTypeOK, SocketInv, CloseInv, Writing,
     taskVars, countVars
<1>20. ASSUME ShutdownStarts PROVE Awaited(v)'
  BY <1>20 DEF ShutdownStarts, HubInv, HubTypeOK, SocketInv, CloseInv, Writing, taskVars,
     countVars
<1>21. ASSUME ShutdownEnds PROVE Awaited(v)'
  BY <1>21 DEF ShutdownEnds, HubInv, HubTypeOK, SocketInv, CloseInv, Writing, taskVars,
     countVars
<1>22. ASSUME UNCHANGED hubVars PROVE Awaited(v)'
  BY <1>22 DEF hubVars, HubInv, HubTypeOK, SocketInv, CloseInv, Writing, taskVars, countVars
<1>23. QED
  BY <1>1, <1>2, <1>3, <1>4, <1>5, <1>6, <1>7, <1>8, <1>9, <1>10, <1>11, <1>12, <1>13,
     <1>14, <1>15, <1>16, <1>17, <1>18, <1>19, <1>20, <1>21, <1>22 DEF HubNext, RouteStep,
     WriterStep, TermStep, ShutdownStep

(* No socket is closed while its writer still uses it, and whoever waits   *)
(* for a writer has told it to end: the tasks of the hub do not wait for   *)
(* each other in a circle.                                                 *)
THEOREM WritersAlwaysEndFirst == HubSpec => []WritersEndFirst
<1>1. HubInit => \A w \in Sockets : Awaited(w)
  BY DEF HubInit, Awaited, Writing
<1>2. HubInv /\ (\A w \in Sockets : Awaited(w)) /\ [HubNext]_hubVars
        => (\A w \in Sockets : Awaited(w))'
  BY NextAwaited
<1>3. HubInv /\ (\A w \in Sockets : Awaited(w)) => WritersEndFirst
  BY DEF HubInv, SocketInv, QuietBeforeClose, Awaited, AwaitedWritersEnd, WritersEndFirst
<1>4. QED
  BY <1>1, <1>2, <1>3, HubInvariant, PTL DEF HubSpec

(* Nothing of the hub outlives its shutdown.                               *)
THEOREM ShutdownsLeaveNothing == HubSpec => []ShutdownLeavesNothing
<1>1. HubInv => ShutdownLeavesNothing
  BY DEF HubInv, CloseInv, ShutdownLeavesNothing
<1>2. QED
  BY <1>1, HubInvariant, PTL
=============================================================================
