--------------------------- MODULE MultiCacheProofs ---------------------------
(***************************************************************************)
(* For every number of clients, processes, levels, keys, Sets and seconds: *)
(* the types, LifetimeBound and WindowsPreserved of MultiCache.            *)
(* For a client that is Alone: Regular, DropsOnlyUseless, LevelsAgree and  *)
(* that its levels are a Register, again for any chain of levels.          *)
(*                                                                         *)
(* None of them is inductive: an entry comes to a level from a call or a   *)
(* late command, and to those from a level or from a Set.  IInv says of an *)
(* entry the same thing wherever it is (Sound), and of a call what the     *)
(* entry it is about to store will satisfy (CallInv).                      *)
(***************************************************************************)
EXTENDS CacheAsRegister, TLAPS

\* At time t, after the Sets in hist, entry e of key k may be in level s.
Sound(hist, t, e, k, s) ==
    /\ e.data \in DOMAIN hist
    /\ hist[e.data].key = k
    /\ e.createdAt <= t
    /\ e.staleAt - e.createdAt <= Seconds(hist[e.data].ttl.fresh)
    /\ e.expiresAt - e.staleAt = Seconds(hist[e.data].ttl.stale)
    /\ e.expiresAt <= LastSecond(hist[e.data], s)

HistoryInv ==
    /\ HistoryType
    /\ \A v \in DOMAIN writes : writes[v].at <= now

LevelsInv ==
    /\ LevelsType
    /\ \A s \in Caches, k \in Keys :
          store[s][k] \in Entry => Sound(writes, now, store[s][k], k, s)
    /\ \A m \in late :
          m.put \in Entry => Sound(writes, now, m.put, m.key, m.cache)

\* What call o of client c points to exists.
InRange(hist, c, o) ==
    /\ o.pc # "idle" => o.lvl \in DOMAIN Chain[c]
    /\ o.hit \in {0} \cup DOMAIN Chain[c]
    /\ o.pc \in {"write", "fill"} => o.val \in DOMAIN hist

\* The entry a propagation took from level hit, and the TTL it computed from it.
Propagating(hist, t, c, o) ==
    /\ EnablePropagation
    /\ o.ent \in Entry
    /\ o.hit \in DOMAIN Chain[c]
    /\ o.lvl < o.hit
    /\ Sound(hist, t, o.ent, o.key, Chain[c][o.hit])

Computed(hist, t, o) ==
    /\ o.val = o.ent.data
    /\ o.ent.createdAt <= o.since
    /\ o.since <= o.ent.expiresAt
    /\ o.since <= t
    /\ t <= o.since + FillDelay
    /\ Seconds(o.ttl.fresh) = NonNegative(o.ent.staleAt - o.since)
    /\ Seconds(o.ttl.stale) = Seconds(hist[o.val].ttl.stale)

CallInv(hist, t, c, o) ==
    /\ InRange(hist, c, o)
    /\ o.pc \in {"write", "erase"} => o.base \subseteq DOMAIN hist
    /\ o.pc = "write" => hist[o.val].key = o.key /\ hist[o.val].ttl = o.ttl
    /\ o.pc \in {"promote", "fill"} => Propagating(hist, t, c, o)
    /\ o.pc = "fill" => Computed(hist, t, o)

CallsInv ==
    /\ op \in [Clients -> Operation]
    /\ \A c \in Clients : CallInv(writes, now, c, op[c])

IInv == HistoryInv /\ LevelsInv /\ CallsInv

\* What a step does to the clock and to the Sets made so far.
HistoryGrows ==
    /\ now' >= now
    /\ DOMAIN writes \subseteq DOMAIN writes'
    /\ \A v \in DOMAIN writes :
          /\ writes'[v].key = writes[v].key
          /\ writes'[v].ttl = writes[v].ttl
          /\ writes'[v].at >= writes[v].at

-------------------------------------------------------------------------------
(* Arithmetic.                                                             *)

\* A whole number of seconds survives the conversion to a duration and back.
LEMMA SecondsOfWhole == ASSUME NEW n \in Nat PROVE Seconds(n * SubSec) = n
  BY SubSecAssumption DEF Seconds

\* The conversion of a duration never gives a negative number.
LEMMA SecondsNat == ASSUME NEW d \in Nat PROVE Seconds(d) \in Nat
  BY SubSecAssumption DEF Seconds

\* A level of higher rank has room for one more copy.
LEMMA OneMoreCopy ==
  ASSUME NEW r \in Nat, NEW q \in Nat, NEW d \in Nat, r > q
  PROVE  r * d >= q * d + d
  OBVIOUS

\* The types of what LastSecond is computed from.
LEMMA LastSecondNat ==
  ASSUME NEW w \in Write, NEW s \in Caches
  PROVE  /\ w.at \in Nat
         /\ Seconds(w.ttl.fresh) \in Nat
         /\ Seconds(w.ttl.stale) \in Nat
         /\ Rank[s] * (Seconds(w.ttl.stale) + FillDelay) \in Nat
         /\ LastSecond(w, s) \in Nat
<1>1. w.at \in Nat /\ w.ttl.fresh \in Nat /\ w.ttl.stale \in Nat
  BY DEF Write, TTL
<1>2. Seconds(w.ttl.fresh) \in Nat /\ Seconds(w.ttl.stale) \in Nat
  BY <1>1, SecondsNat
<1>3. Rank[s] \in Nat /\ FillDelay \in Nat
  BY RankAssumption, ValueAssumption
<1>4. \A a, b, d \in Nat : a * (b + d) \in Nat
  OBVIOUS
<1>5. Rank[s] * (Seconds(w.ttl.stale) + FillDelay) \in Nat
  BY <1>2, <1>3, <1>4
<1>6. LastSecond(w, s) \in Nat
  <2>1. CASE EnablePropagation
    BY <1>1, <1>2, <1>5, <2>1 DEF LastSecond
  <2>2. CASE ~ EnablePropagation
    BY <1>1, <1>2, <1>3, <2>2 DEF LastSecond
  <2> QED
    BY <2>1, <2>2
<1> QED
  BY <1>1, <1>2, <1>5, <1>6

\* A Set that stores its value once more gives it no shorter a life.
LEMMA LastSecondGrows ==
  ASSUME NEW v \in Write, NEW w \in Write, NEW s \in Caches,
         w.ttl = v.ttl, w.at >= v.at
  PROVE  LastSecond(v, s) <= LastSecond(w, s)
<1> DEFINE fresh == Seconds(v.ttl.fresh)
           stale == Seconds(v.ttl.stale)
           copies == Rank[s] * (stale + FillDelay)
<1>1. fresh \in Nat /\ stale \in Nat /\ copies \in Nat /\ v.at \in Nat /\ w.at \in Nat
  BY LastSecondNat
<1>2. CASE EnablePropagation
  <2>1. /\ LastSecond(v, s) = v.at + fresh + stale + copies
        /\ LastSecond(w, s) = w.at + fresh + stale + copies
    BY <1>2 DEF LastSecond
  <2> HIDE DEF fresh, stale, copies
  <2> QED
    BY <1>1, <2>1
<1>3. CASE ~ EnablePropagation
  <2>1. /\ LastSecond(v, s) = v.at + fresh + stale + 0 * (stale + FillDelay)
        /\ LastSecond(w, s) = w.at + fresh + stale + 0 * (stale + FillDelay)
    BY <1>3 DEF LastSecond
  <2> HIDE DEF fresh, stale, copies
  <2>2. 0 * (stale + FillDelay) = 0
    BY <1>1, ValueAssumption
  <2> QED
    BY <1>1, <2>1, <2>2
<1> QED
  BY <1>2, <1>3

\* An entry that may be in a level may stay there.
LEMMA SoundStays ==
  ASSUME HistoryType, HistoryType', HistoryGrows,
         NEW e \in Entry, NEW k \in Keys, NEW s \in Caches,
         Sound(writes, now, e, k, s)
  PROVE  Sound(writes', now', e, k, s)
<1> DEFINE v == writes[e.data]
           w == writes'[e.data]
<1>1. e.data \in DOMAIN writes /\ e.data \in DOMAIN writes'
  BY DEF Sound, HistoryGrows
<1>2. v \in Write /\ w \in Write
  BY <1>1 DEF HistoryType
<1>3. w.key = v.key /\ w.ttl = v.ttl /\ w.at >= v.at
  BY <1>1 DEF HistoryGrows
<1> HIDE DEF v, w
<1>4. /\ LastSecond(v, s) <= LastSecond(w, s)
      /\ LastSecond(v, s) \in Nat
      /\ LastSecond(w, s) \in Nat
  BY <1>2, <1>3, LastSecondGrows, LastSecondNat
<1>5. e.createdAt \in Nat /\ e.expiresAt \in Nat /\ now \in Nat /\ now' \in Nat
  BY DEF Entry, HistoryType
<1>6. e.createdAt <= now'
  BY <1>5 DEF Sound, HistoryGrows
<1>7. e.expiresAt <= LastSecond(w, s)
  BY <1>4, <1>5 DEF Sound, v
<1> QED
  BY <1>1, <1>3, <1>6, <1>7 DEF Sound, v, w

-------------------------------------------------------------------------------
(* One command on a level, and what a step leaves alone.                   *)

LEMMA NewEntryType ==
  ASSUME NEW val \in Nat, NEW ttl \in TTL, HistoryType
  PROVE  NewEntry(val, ttl, now) \in Entry
<1>1. Seconds(ttl.fresh) \in Nat /\ Seconds(ttl.stale) \in Nat
  BY SecondsNat DEF TTL
<1> QED
  BY <1>1 DEF NewEntry, Entry, HistoryType

\* Entries may stay where they are.
LEMMA LevelsStay ==
  ASSUME LevelsInv, HistoryType, HistoryType', HistoryGrows, UNCHANGED <<store, late>>
  PROVE  LevelsInv'
<1>1. \A t \in Caches, j \in Keys :
         store[t][j] \in Entry => Sound(writes', now', store[t][j], j, t)
  BY SoundStays DEF LevelsInv
<1>2. \A m \in late : m.key \in Keys /\ m.cache \in Caches
  BY DEF LevelsInv, LevelsType, Command, Caches
<1>3. \A m \in late : m.put \in Entry => Sound(writes', now', m.put, m.key, m.cache)
  BY <1>2, SoundStays DEF LevelsInv
<1> QED
  BY <1>1, <1>3 DEF LevelsInv, LevelsType

\* A command that brings an entry that may be there keeps the levels sound,
\* whether it is executed, lost or put off.
LEMMA CommandSafe ==
  ASSUME LevelsInv, HistoryType, HistoryType', HistoryGrows,
         NEW s \in Caches, NEW k \in Keys, NEW x \in Entry \cup {NoEntry},
         x \in Entry => Sound(writes', now', x, k, s),
         Execute(s, k, x) \/ Fail(s, k, x) \/ UNCHANGED <<store, late>>
  PROVE  LevelsInv'
<1>1. \A t \in Caches, j \in Keys :
         store[t][j] \in Entry => Sound(writes', now', store[t][j], j, t)
  BY SoundStays DEF LevelsInv
<1>2. \A m \in late : m.put \in Entry => Sound(writes', now', m.put, m.key, m.cache)
  <2>1. \A m \in late : m.key \in Keys /\ m.cache \in Caches
    BY DEF LevelsInv, LevelsType, Command, Caches
  <2> QED
    BY <2>1, SoundStays DEF LevelsInv
<1>3. CASE Execute(s, k, x)
  <2>1. LevelsType'
    BY <1>3 DEF Execute, LevelsInv, LevelsType
  <2>2. ASSUME NEW t \in Caches, NEW j \in Keys
        PROVE  store'[t][j] = IF t = s /\ j = k THEN x ELSE store[t][j]
    BY <1>3 DEF Execute, LevelsInv, LevelsType
  <2> QED
    BY <1>1, <1>2, <1>3, <2>1, <2>2 DEF Execute, LevelsInv
<1>4. CASE Fail(s, k, x)
  <2>1. late' \subseteq late \cup {[cache |-> s, key |-> k, put |-> x]}
    BY <1>4 DEF Fail
  <2>2. store' = store /\ s \in KeyDBs
    BY <1>4 DEF Fail
  <2>3. LevelsType'
    BY <2>1, <2>2 DEF LevelsInv, LevelsType, Command
  <2>4. ASSUME NEW m \in late', m.put \in Entry
        PROVE  Sound(writes', now', m.put, m.key, m.cache)
    <3>1. CASE m \in late
      BY <1>2, <2>4, <3>1
    <3>2. CASE m = [cache |-> s, key |-> k, put |-> x]
      BY <2>4, <3>2
    <3> QED
      BY <2>1, <3>1, <3>2
  <2> QED
    BY <1>1, <2>2, <2>3, <2>4 DEF LevelsInv
<1>5. CASE UNCHANGED <<store, late>>
  BY <1>5, LevelsStay
<1> QED
  BY <1>3, <1>4, <1>5

\* A call keeps its invariant while others act, a propagation as long as the
\* clock does not run away from it.
LEMMA CallStays ==
  ASSUME HistoryType, HistoryType', HistoryGrows,
         NEW c \in Clients, NEW o \in Operation, CallInv(writes, now, c, o),
         o.pc = "fill" => now' <= o.since + FillDelay
  PROVE  CallInv(writes', now', c, o)
<1>1. InRange(writes', c, o)
  BY DEF CallInv, InRange, HistoryGrows
<1>2. o.pc \in {"write", "erase"} => o.base \subseteq DOMAIN writes'
  BY DEF CallInv, HistoryGrows
<1>3. o.pc = "write" => writes'[o.val].key = o.key /\ writes'[o.val].ttl = o.ttl
  BY DEF CallInv, InRange, HistoryGrows
<1>4. o.pc \in {"promote", "fill"} => Propagating(writes', now', c, o)
  <2> SUFFICES ASSUME o.pc \in {"promote", "fill"}
               PROVE  Propagating(writes', now', c, o)
    OBVIOUS
  <2>1. Propagating(writes, now, c, o)
    BY DEF CallInv
  <2>2. Chain[c][o.hit] \in Caches /\ o.key \in Keys
    BY <2>1, ChainAssumption DEF Propagating, Operation
  <2>3. Sound(writes', now', o.ent, o.key, Chain[c][o.hit])
    BY <2>1, <2>2, SoundStays DEF Propagating
  <2> QED
    BY <2>1, <2>3 DEF Propagating
<1>5. o.pc = "fill" => Computed(writes', now', o)
  <2> SUFFICES ASSUME o.pc = "fill"
               PROVE  Computed(writes', now', o)
    OBVIOUS
  <2>1. Computed(writes, now, o) /\ o.val \in DOMAIN writes
    BY DEF CallInv, InRange
  <2>2. writes'[o.val].ttl = writes[o.val].ttl
    BY <2>1 DEF HistoryGrows
  <2>3. o.since \in Nat /\ now \in Nat /\ now' \in Nat /\ now' >= now
    BY DEF Operation, HistoryType, HistoryGrows
  <2> QED
    BY <2>1, <2>2, <2>3 DEF Computed
<1> QED
  BY <1>1, <1>2, <1>3, <1>4, <1>5 DEF CallInv

\* Client c goes on with the call o; the others do nothing.
LEMMA CallUpdate ==
  ASSUME CallsInv, HistoryType, HistoryType', HistoryGrows, now' = now,
         NEW c \in Clients, NEW o \in Operation, CallInv(writes', now', c, o),
         op' = [op EXCEPT ![c] = o]
  PROVE  CallsInv'
<1>1. op' \in [Clients -> Operation]
  BY DEF CallsInv
<1>2. ASSUME NEW d \in Clients
      PROVE  CallInv(writes', now', d, op'[d])
  <2>1. CASE d = c
    BY <2>1 DEF CallsInv
  <2>2. CASE d # c
    <3>1. op'[d] = op[d] /\ op[d] \in Operation /\ CallInv(writes, now, d, op[d])
      BY <2>2 DEF CallsInv
    <3>2. op[d].pc = "fill" => now' <= op[d].since + FillDelay
      BY <3>1 DEF CallInv, Computed
    <3>3. CallInv(writes', now', d, op[d])
      BY <3>1, <3>2, CallStays
    <3> QED
      BY <3>1, <3>3
  <2> QED
    BY <2>1, <2>2
<1> QED
  BY <1>1, <1>2 DEF CallsInv

\* No client does anything.
LEMMA CallsStay ==
  ASSUME CallsInv, HistoryType, HistoryType', HistoryGrows, UNCHANGED op,
         \A d \in Clients : op[d].pc = "fill" => now' <= op[d].since + FillDelay
  PROVE  CallsInv'
<1>1. ASSUME NEW d \in Clients
      PROVE  CallInv(writes', now', d, op[d])
  BY CallStays DEF CallsInv
<1> QED
  BY <1>1 DEF CallsInv

\* A step that neither moves the clock nor concerns a Set or a Delete.
LEMMA HistoryStays ==
  ASSUME HistoryInv, UNCHANGED <<now, writes, dead>>
  PROVE  HistoryInv' /\ HistoryType' /\ HistoryGrows
<1>1. \A v \in DOMAIN writes : writes[v].at \in Nat
  <2>1. ASSUME NEW v \in DOMAIN writes PROVE writes[v] \in Write
    BY DEF HistoryInv, HistoryType
  <2> QED
    BY <2>1 DEF Write
<1>2. now \in Nat
  BY DEF HistoryInv, HistoryType
<1> QED
  BY <1>1, <1>2 DEF HistoryInv, HistoryType, HistoryGrows

\* A call that only reads leaves the levels alone and goes on with o.
LEMMA ReadStep ==
  ASSUME IInv, NEW c \in Clients, NEW o \in Operation, CallInv(writes, now, c, o),
         op' = [op EXCEPT ![c] = o], UNCHANGED <<now, store, late, writes, dead>>
  PROVE  IInv'
<1>1. HistoryInv' /\ HistoryType /\ HistoryType' /\ HistoryGrows
  BY HistoryStays DEF IInv, HistoryInv
<1>2. LevelsInv'
  BY <1>1, LevelsStay DEF IInv
<1>3. CallsInv'
  BY <1>1, CallUpdate DEF IInv
<1> QED
  BY <1>1, <1>2, <1>3 DEF IInv

-------------------------------------------------------------------------------
(* The calls.                                                              *)

\* The levels of a client, and the one it works on.
LEMMA LevelType ==
  ASSUME CallsInv, NEW c \in Clients
  PROVE  /\ op[c] \in Operation
         /\ Len(Chain[c]) \in Nat
         /\ DOMAIN Chain[c] = 1..Len(Chain[c])
         /\ \A i \in DOMAIN Chain[c] : Chain[c][i] \in Caches
         /\ op[c].pc # "idle" => op[c].lvl \in DOMAIN Chain[c] /\ Level(c) \in Caches
<1>1. Chain[c] \in Seq(Caches)
  BY ChainAssumption
<1> QED
  BY <1>1 DEF CallsInv, CallInv, InRange, Level

\* A new call.
LEMMA CallType ==
  ASSUME NEW c \in Clients, NEW k \in Keys, NEW pc \in {"idle", "probe", "write", "erase"},
         NEW val \in Nat, NEW ttl \in TTL, NEW base \in SUBSET Nat, NEW hist, NEW t,
         pc \in {"write", "erase"} => base \subseteq DOMAIN hist,
         pc = "write" => val \in DOMAIN hist /\ hist[val].key = k /\ hist[val].ttl = ttl
  PROVE  /\ Call(c, k, pc, val, ttl, base) \in Operation
         /\ CallInv(hist, t, c, Call(c, k, pc, val, ttl, base))
<1>1. Chain[c] \in Seq(Caches)
  BY ChainAssumption
<1>2. Chain[c] # <<>> => 1 \in DOMAIN Chain[c]
  BY <1>1
<1>3. Call(c, k, pc, val, ttl, base) \in Operation
  BY DEF Call, Operation
<1> QED
  BY <1>2, <1>3 DEF Call, CallInv, InRange

LEMMA NoTTLType == NoTTL \in TTL
  BY DEF NoTTL, TTL

LEMMA CallGetStep ==
  ASSUME IInv, NEW c \in Clients, NEW k \in Keys, CallGet(c, k)
  PROVE  IInv'
<1>1. dead \in SUBSET Nat
  BY DEF IInv, HistoryInv, HistoryType
<1> DEFINE o == Call(c, k, "probe", 0, NoTTL, dead)
<1>2. o \in Operation /\ CallInv(writes, now, c, o)
  BY <1>1, CallType, NoTTLType
<1> QED
  BY <1>2, ReadStep DEF CallGet

\* What Miss makes of the call: it may be combined with a deletion.
LEMMA MissCall ==
  ASSUME CallsInv, NEW c \in Clients, op[c].pc # "idle", Miss(c)
  PROVE  \E o \in Operation :
            CallInv(writes, now, c, o) /\ op' = [op EXCEPT ![c] = o]
<1> DEFINE more == op[c].lvl < Len(Chain[c])
           o == [op[c] EXCEPT !.pc = IF more THEN "probe" ELSE "idle",
                              !.lvl = IF more THEN op[c].lvl + 1 ELSE 1]
<1>1. op[c].lvl \in 1..Len(Chain[c]) /\ Len(Chain[c]) \in Nat
  BY LevelType
<1>2. o \in Operation
  <2> DEFINE pc == IF more THEN "probe" ELSE "idle"
             lvl == IF more THEN op[c].lvl + 1 ELSE 1
  <2>1. op[c] \in Operation /\ pc \in {"probe", "idle"} /\ lvl \in Nat
    BY <1>1, LevelType
  <2> HIDE DEF pc, lvl
  <2>2. [op[c] EXCEPT !.pc = pc, !.lvl = lvl] \in Operation
    BY <2>1 DEF Operation
  <2> QED
    BY <2>2 DEF pc, lvl
<1>3. InRange(writes, c, o)
  BY <1>1, LevelType DEF Operation, InRange, CallsInv, CallInv
<1>4. CallInv(writes, now, c, o)
  BY <1>3, LevelType DEF CallInv, Operation
<1>5. op' = [op EXCEPT ![c] = o]
  BY DEF Miss
<1> QED
  BY <1>2, <1>4, <1>5

LEMMA HitCall ==
  ASSUME CallsInv, LevelsInv, NEW c \in Clients, op[c].pc = "probe",
         store[Level(c)][op[c].key] \in Entry, Hit(c, store[Level(c)][op[c].key])
  PROVE  \E o \in Operation :
            CallInv(writes, now, c, o) /\ op' = [op EXCEPT ![c] = o]
<1> DEFINE e == store[Level(c)][op[c].key]
           o == [op[c] EXCEPT
              !.pc = IF op[c].lvl > 1 /\ EnablePropagation THEN "promote" ELSE "idle",
              !.lvl = 1,
              !.hit = op[c].lvl,
              !.ent = e]
<1>1. op[c].lvl \in DOMAIN Chain[c] /\ op[c].key \in Keys /\ Level(c) \in Caches
  BY LevelType DEF Operation
<1>2. o \in Operation
  <2>1. op[c] \in Operation /\ e \in Entry /\ op[c].lvl \in Nat
    BY <1>1, LevelType DEF Operation
  <2> HIDE DEF e
  <2> QED
    BY <2>1 DEF Operation
<1>3. Sound(writes, now, e, op[c].key, Chain[c][op[c].lvl])
  BY <1>1 DEF LevelsInv, Level
<1>4. 1 \in DOMAIN Chain[c]
  BY <1>1, LevelType
<1>5. CallInv(writes, now, c, o)
  BY <1>1, <1>3, <1>4, LevelType DEF CallInv, InRange, Propagating, Operation
<1>6. op' = [op EXCEPT ![c] = o]
  BY DEF Hit
<1> QED
  BY <1>2, <1>5, <1>6

LEMMA AnswerCall ==
  ASSUME CallsInv, LevelsInv, NEW c \in Clients, op[c].pc = "probe",
         Answer(c, store[Level(c)][op[c].key])
  PROVE  \E o \in Operation :
            CallInv(writes, now, c, o) /\ op' = [op EXCEPT ![c] = o]
<1> DEFINE x == store[Level(c)][op[c].key]
           o == [op[c] EXCEPT !.pc = "drop"]
<1>1. CASE Miss(c)
  BY <1>1, MissCall
<1>2. CASE op' = [op EXCEPT ![c].pc = "drop"]
  <2>1. o \in Operation /\ CallInv(writes, now, c, o)
    BY LevelType DEF CallsInv, CallInv, InRange, Operation
  <2>2. op' = [op EXCEPT ![c] = o]
    BY <1>2
  <2> QED
    BY <2>1, <2>2
<1>3. CASE x \in Entry /\ Hit(c, x)
  BY <1>3, HitCall
<1> QED
  BY <1>1, <1>2, <1>3 DEF Answer

LEMMA GetStep ==
  ASSUME IInv, NEW c \in Clients, BigCacheGet(c) \/ KeyDBGet(c) \/ NoOpGet(c)
  PROVE  IInv'
<1>1. op[c].pc = "probe" /\ UNCHANGED <<now, store, late, writes, dead>>
  BY DEF BigCacheGet, KeyDBGet, NoOpGet
<1>2. Miss(c) \/ Answer(c, store[Level(c)][op[c].key])
  BY DEF BigCacheGet, KeyDBGet, NoOpGet
<1>3. \E o \in Operation : CallInv(writes, now, c, o) /\ op' = [op EXCEPT ![c] = o]
  BY <1>1, <1>2, MissCall, AnswerCall DEF IInv
<1> QED
  BY <1>1, <1>3, ReadStep

\* A deletion, executed or not, brings nothing to a level.
LEMMA DeleteSafe ==
  ASSUME LevelsInv, HistoryType, HistoryType', HistoryGrows,
         NEW s \in Caches, NEW k \in Keys, LevelDelete(s, k)
  PROVE  LevelsInv'
<1>1. NoEntry \notin Entry
  BY ValueAssumption
<1> QED
  BY <1>1, CommandSafe DEF LevelDelete

\* A Set of a level brings the new entry to it, or nothing.
LEMMA SetSafe ==
  ASSUME LevelsInv, HistoryType, HistoryType', HistoryGrows,
         NEW s \in Caches, NEW k \in Keys, NEW val \in Nat, NEW ttl \in TTL,
         Sound(writes', now', NewEntry(val, ttl, now), k, s), LevelSet(s, k, val, ttl)
  PROVE  LevelsInv'
<1> DEFINE e == NewEntry(val, ttl, now)
<1>1. e \in Entry
  BY NewEntryType
<1>2. Execute(s, k, e) \/ Fail(s, k, e) \/ UNCHANGED <<store, late>>
  BY DEF LevelSet, BigCacheSet, KeyDBSet
<1> HIDE DEF e
<1>3. Sound(writes', now', e, k, s)
  BY DEF e
<1> QED
  BY <1>1, <1>2, <1>3, CommandSafe

LEMMA DropStep ==
  ASSUME IInv, NEW c \in Clients, Drop(c)
  PROVE  IInv'
<1>1. HistoryInv' /\ HistoryType /\ HistoryType' /\ HistoryGrows
  BY HistoryStays DEF IInv, HistoryInv, Drop
<1>2. Level(c) \in Caches /\ op[c].key \in Keys /\ op[c].pc # "idle"
  BY LevelType DEF IInv, Drop, Operation
<1>3. LevelsInv'
  BY <1>1, <1>2, DeleteSafe DEF IInv, Drop
<1>4. PICK o \in Operation : CallInv(writes, now, c, o) /\ op' = [op EXCEPT ![c] = o]
  BY <1>2, MissCall DEF IInv, Drop
<1>5. CallsInv'
  BY <1>1, <1>4, CallUpdate DEF IInv, Drop
<1> QED
  BY <1>1, <1>3, <1>5 DEF IInv

LEMMA PromoteStep ==
  ASSUME IInv, NEW c \in Clients, Promote(c)
  PROVE  IInv'
<1> DEFINE e == op[c].ent
           rem == RemainingTTL(e, now)
           stop == [op[c] EXCEPT !.pc = "idle"]
           go == [op[c] EXCEPT !.pc = "fill", !.val = e.data, !.ttl = rem, !.since = now]
<1>1. op[c].pc = "promote" /\ op[c] \in Operation /\ CallInv(writes, now, c, op[c])
  BY DEF Promote, IInv, CallsInv
<1>2. UNCHANGED <<now, store, late, writes, dead>>
  BY DEF Promote
<1>3. /\ stop \in Operation
      /\ CallInv(writes, now, c, stop)
  BY <1>1 DEF CallInv, InRange, Operation
<1>4. CASE op' = [op EXCEPT ![c].pc = "idle"]
  <2>1. op' = [op EXCEPT ![c] = stop]
    BY <1>4
  <2> QED
    BY <1>2, <1>3, <2>1, ReadStep
<1>5. CASE op' = [op EXCEPT ![c] = go] /\ ~ IsExpired(e, now)
  <2>1. e \in Entry /\ Propagating(writes, now, c, op[c]) /\ now \in Nat
    BY <1>1 DEF CallInv, Propagating, IInv, HistoryInv, HistoryType
  <2>2. PICK fresh \in Nat, stale \in Nat :
           /\ rem = [fresh |-> fresh * SubSec, stale |-> stale * SubSec]
           /\ fresh = NonNegative(e.staleAt - now)
           /\ stale = NonNegative(e.expiresAt - e.staleAt)
    <3>1. NonNegative(e.staleAt - now) \in Nat /\ NonNegative(e.expiresAt - e.staleAt) \in Nat
      BY <2>1 DEF NonNegative, Entry
    <3> QED
      BY <3>1 DEF RemainingTTL
  <2>3. Seconds(rem.fresh) = fresh /\ Seconds(rem.stale) = stale
    BY <2>2, SecondsOfWhole
  <2>4. rem \in TTL
    BY <2>2, SubSecAssumption DEF TTL
  <2>5. go \in Operation
    BY <1>1, <2>1, <2>4 DEF Operation, Entry
  <2>6. e.data \in DOMAIN writes /\ Seconds(writes[e.data].ttl.stale) \in Nat
    <3>1. e.data \in DOMAIN writes
      BY <2>1 DEF Propagating, Sound
    <3>2. writes[e.data] \in Write
      BY <3>1 DEF IInv, HistoryInv, HistoryType
    <3> QED
      BY <3>1, <3>2, SecondsNat DEF Write, TTL
  <2>7. Seconds(rem.stale) = Seconds(writes[e.data].ttl.stale)
    BY <2>1, <2>2, <2>3, <2>6 DEF Propagating, Sound, NonNegative
  <2>8. now <= e.expiresAt /\ e.createdAt <= now
    BY <1>5, <2>1 DEF IsExpired, Entry, Propagating, Sound
  <2>9. now <= now + FillDelay
    BY <2>1, ValueAssumption
  <2>10. CallInv(writes, now, c, go)
    <3> HIDE DEF rem
    <3>1. /\ go.pc = "fill" /\ go.lvl = op[c].lvl /\ go.hit = op[c].hit /\ go.key = op[c].key
          /\ go.ent = e /\ go.val = e.data /\ go.ttl = rem /\ go.since = now
      BY <1>1 DEF Operation
    <3> HIDE DEF go
    <3>2. InRange(writes, c, go)
      BY <1>1, <2>6, <3>1 DEF CallInv, InRange
    <3>3. Propagating(writes, now, c, go)
      BY <2>1, <3>1 DEF Propagating
    <3>4. Computed(writes, now, go)
      BY <2>1, <2>2, <2>3, <2>7, <2>8, <2>9, <3>1 DEF Computed
    <3> QED
      BY <3>1, <3>2, <3>3, <3>4 DEF CallInv
  <2> QED
    BY <1>2, <1>5, <2>5, <2>10, ReadStep
<1> QED
  BY <1>4, <1>5 DEF Promote

\* The entry a propagation stores in an earlier level may be there.
LEMMA FillSound ==
  ASSUME IInv, NEW c \in Clients, op[c].pc = "fill"
  PROVE  Sound(writes, now, NewEntry(op[c].val, op[c].ttl, now), op[c].key, Level(c))
<1> DEFINE o == op[c]
           e == o.ent
           w == writes[o.val]
           fresh == Seconds(o.ttl.fresh)
           stale == Seconds(o.ttl.stale)
           there == Chain[c][o.hit]
           n == NewEntry(o.val, o.ttl, now)
<1>1. o \in Operation /\ CallInv(writes, now, c, o) /\ o.pc = "fill"
  BY DEF IInv, CallsInv
<1>2. Propagating(writes, now, c, o) /\ Computed(writes, now, o) /\ InRange(writes, c, o)
  BY <1>1 DEF CallInv
<1>3. /\ e \in Entry /\ o.val = e.data /\ o.val \in DOMAIN writes /\ w \in Write
      /\ Sound(writes, now, e, o.key, there)
  BY <1>1, <1>2 DEF Propagating, Computed, InRange, IInv, HistoryInv, HistoryType
<1>4. /\ n.data = o.val /\ n.createdAt = now /\ n.staleAt = now + fresh
      /\ n.expiresAt = now + fresh + stale
  BY DEF NewEntry
<1>5. /\ now \in Nat /\ o.since \in Nat /\ FillDelay \in Nat
      /\ e.createdAt \in Nat /\ e.staleAt \in Nat /\ e.expiresAt \in Nat
      /\ Seconds(w.ttl.fresh) \in Nat /\ Seconds(w.ttl.stale) \in Nat /\ w.at \in Nat
  <2>1. w.ttl.fresh \in Nat /\ w.ttl.stale \in Nat /\ w.at \in Nat
    BY <1>3 DEF Write, TTL
  <2> QED
    BY <1>1, <1>3, <2>1, SecondsNat, ValueAssumption
       DEF Operation, Entry, IInv, HistoryInv, HistoryType
<1>6. there \in Caches /\ Level(c) \in Caches /\ Rank[Level(c)] > Rank[there]
      /\ Rank[Level(c)] \in Nat /\ Rank[there] \in Nat
  <2>1. o.lvl \in 1..Len(Chain[c]) /\ o.hit \in 1..Len(Chain[c]) /\ o.lvl < o.hit
    BY <1>1, <1>2, LevelType DEF Propagating, InRange, IInv
  <2> QED
    BY <2>1, RankAssumption, LevelType DEF Level, IInv
<1>7. stale = Seconds(w.ttl.stale) /\ stale \in Nat
  BY <1>2, <1>5 DEF Computed
<1>8. fresh = NonNegative(e.staleAt - o.since) /\ fresh \in Nat
  BY <1>2, <1>5 DEF Computed, NonNegative
<1>9. /\ e.createdAt <= o.since /\ o.since <= e.expiresAt /\ now <= o.since + FillDelay
      /\ e.staleAt - e.createdAt <= Seconds(w.ttl.fresh)
      /\ e.expiresAt - e.staleAt = Seconds(w.ttl.stale)
      /\ e.expiresAt <= LastSecond(w, there)
      /\ w.key = o.key
  BY <1>2, <1>3 DEF Computed, Sound
<1>10. LastSecond(w, there) + stale + FillDelay <= LastSecond(w, Level(c))
  <2> DEFINE d == Seconds(w.ttl.stale) + FillDelay
             far == Rank[there] * d
             near == Rank[Level(c)] * d
  <2>1. d \in Nat
    BY <1>5
  <2>2. near >= far + d /\ near \in Nat /\ far \in Nat
    BY <1>6, <2>1, OneMoreCopy, LastSecondNat, <1>3
  <2>3. /\ LastSecond(w, there) = w.at + Seconds(w.ttl.fresh) + Seconds(w.ttl.stale) + far
        /\ LastSecond(w, Level(c)) = w.at + Seconds(w.ttl.fresh) + Seconds(w.ttl.stale) + near
    BY <1>2 DEF LastSecond, Propagating
  <2> HIDE DEF far, near, w, stale
  <2> QED
    BY <1>5, <1>7, <2>1, <2>2, <2>3
<1>11. fresh <= Seconds(w.ttl.fresh) /\ now + fresh <= e.expiresAt + FillDelay
  BY <1>5, <1>8, <1>9 DEF NonNegative
<1>12. LastSecond(w, there) \in Nat /\ LastSecond(w, Level(c)) \in Nat
  BY <1>3, <1>6, LastSecondNat
<1> HIDE DEF o, e, w, fresh, stale, there, n
<1>13. n.expiresAt <= LastSecond(w, Level(c))
  BY <1>4, <1>5, <1>7, <1>8, <1>9, <1>10, <1>11, <1>12
<1>14. Sound(writes, now, n, o.key, Level(c))
  BY <1>3, <1>4, <1>5, <1>7, <1>8, <1>9, <1>11, <1>13 DEF Sound, w
<1> QED
  BY <1>14 DEF n, o

LEMMA FillStep ==
  ASSUME IInv, NEW c \in Clients, Fill(c)
  PROVE  IInv'
<1> DEFINE more == [op[c] EXCEPT !.lvl = @ + 1]
           done == [op[c] EXCEPT !.pc = "idle", !.lvl = 1, !.val = 0, !.ttl = NoTTL, !.since = 0]
<1>1. HistoryInv' /\ HistoryType /\ HistoryType' /\ HistoryGrows /\ UNCHANGED <<now, writes>>
  BY HistoryStays DEF IInv, HistoryInv, Fill
<1>2. /\ op[c].pc = "fill" /\ op[c] \in Operation /\ CallInv(writes, now, c, op[c])
      /\ op[c].lvl \in DOMAIN Chain[c] /\ Level(c) \in Caches
  BY LevelType DEF IInv, Fill, CallsInv
<1>3. Sound(writes', now', NewEntry(op[c].val, op[c].ttl, now), op[c].key, Level(c))
  BY <1>1, <1>2, FillSound
<1>4. LevelsInv'
  BY <1>1, <1>2, <1>3, SetSafe DEF IInv, Fill, Operation
<1>5. CASE op[c].lvl + 1 < op[c].hit /\ op' = [op EXCEPT ![c].lvl = @ + 1]
  <2>1. op[c].lvl \in Nat /\ op[c].lvl + 1 \in DOMAIN Chain[c] /\ op[c].hit \in DOMAIN Chain[c]
    BY <1>2, <1>5, LevelType DEF CallInv, Propagating, IInv
  <2>2. more \in Operation
    BY <1>2, <2>1 DEF Operation
  <2>3. CallInv(writes, now, c, more)
    BY <1>2, <1>5, <2>1 DEF CallInv, InRange, Propagating, Computed, Operation
  <2>4. op' = [op EXCEPT ![c] = more]
    BY <1>5
  <2>5. CallsInv'
    BY <1>1, <2>2, <2>3, <2>4, CallUpdate DEF IInv
  <2> QED
    BY <1>1, <1>4, <2>5 DEF IInv
<1>6. CASE op' = [op EXCEPT ![c] = done]
  <2>1. done \in Operation
    BY <1>2, NoTTLType DEF Operation
  <2>2. CallInv(writes, now, c, done)
    BY <1>2 DEF CallInv, InRange, Operation
  <2>3. CallsInv'
    BY <1>1, <1>6, <2>1, <2>2, CallUpdate DEF IInv
  <2> QED
    BY <1>1, <1>4, <2>3 DEF IInv
<1> QED
  BY <1>5, <1>6 DEF Fill

LEMMA SettledType ==
  ASSUME NEW k \in Keys, HistoryType
  PROVE  Settled(k) \subseteq DOMAIN writes /\ Settled(k) \in SUBSET Nat
<1>1. DOMAIN writes \subseteq Nat
  BY DEF HistoryType
<1> QED
  BY <1>1 DEF Settled

LEMMA CallSetStep ==
  ASSUME IInv, NEW c \in Clients, NEW k \in Keys, NEW ttl \in TTLs, NEW big \in Sizes,
         CallSet(c, k, ttl, big)
  PROVE  IInv'
<1> DEFINE w == [key |-> k, at |-> now, ttl |-> ttl, big |-> big]
           n == Len(writes) + 1
           o == Call(c, k, "write", n, ttl, Settled(k))
<1>1. HistoryType /\ now \in Nat /\ writes \in Seq(Write) /\ ttl \in TTL /\ big \in BOOLEAN
  BY ValueAssumption DEF IInv, HistoryInv, HistoryType
<1>2. w \in Write /\ w.at = now
  BY <1>1 DEF Write
<1> HIDE DEF w
<1>3. /\ writes' = Append(writes, w)
      /\ UNCHANGED <<now, store, late, dead>>
      /\ op' = [op EXCEPT ![c] = o]
  BY DEF CallSet, w
<1>4. /\ writes' \in Seq(Write) /\ n \in Nat /\ n \in DOMAIN writes'
      /\ DOMAIN writes \subseteq DOMAIN writes' /\ writes'[n] = w
      /\ \A v \in DOMAIN writes : writes'[v] = writes[v]
      /\ \A v \in DOMAIN writes' : v \in DOMAIN writes \/ v = n
  BY <1>1, <1>2, <1>3
<1>5. HistoryType'
  BY <1>1, <1>3, <1>4 DEF HistoryType
<1>6. \A v \in DOMAIN writes : writes[v] \in Write /\ writes[v].at \in Nat
  <2>1. \A v \in DOMAIN writes : writes[v] \in Write
    BY <1>1
  <2> QED
    BY <2>1 DEF Write
<1>7. HistoryInv' /\ HistoryGrows
  BY <1>1, <1>2, <1>3, <1>4, <1>5, <1>6 DEF HistoryInv, HistoryGrows, IInv
<1>8. o \in Operation /\ CallInv(writes', now', c, o)
  <2>1. Settled(k) \subseteq DOMAIN writes' /\ Settled(k) \in SUBSET Nat
    BY <1>1, <1>4, SettledType
  <2>2. writes'[n].key = k /\ writes'[n].ttl = ttl
    BY <1>4 DEF w
  <2> QED
    BY <1>1, <1>4, <2>1, <2>2, CallType
<1>9. LevelsInv'
  BY <1>1, <1>3, <1>5, <1>7, LevelsStay DEF IInv
<1>10. CallsInv'
  BY <1>1, <1>3, <1>5, <1>7, <1>8, CallUpdate DEF IInv
<1> QED
  BY <1>7, <1>9, <1>10 DEF IInv

LEMMA CallDeleteStep ==
  ASSUME IInv, NEW c \in Clients, NEW k \in Keys, CallDelete(c, k)
  PROVE  IInv'
<1> DEFINE o == Call(c, k, "erase", 0, NoTTL, Settled(k))
<1>1. o \in Operation /\ CallInv(writes, now, c, o)
  BY CallType, NoTTLType, SettledType DEF IInv, HistoryInv
<1> QED
  BY <1>1, ReadStep DEF CallDelete

\* A Set or Delete goes on to the next level or returns; hist is the history
\* after the step.
LEMMA NextLevelCall ==
  ASSUME IInv, NEW c \in Clients, op[c].pc \in {"write", "erase"}, NextLevel(c),
         NEW hist, DOMAIN hist = DOMAIN writes,
         op[c].pc = "write" => /\ hist[op[c].val].key = op[c].key
                               /\ hist[op[c].val].ttl = op[c].ttl
  PROVE  /\ dead' \subseteq DOMAIN hist
         /\ \E o \in Operation :
               CallInv(hist, now, c, o) /\ op' = [op EXCEPT ![c] = o]
<1>1. /\ op[c] \in Operation /\ CallInv(writes, now, c, op[c])
      /\ op[c].lvl \in 1..Len(Chain[c]) /\ Len(Chain[c]) \in Nat
      /\ DOMAIN Chain[c] = 1..Len(Chain[c])
  BY LevelType DEF IInv, CallsInv
<1>2. dead \subseteq DOMAIN writes /\ op[c].base \subseteq DOMAIN writes
  BY <1>1 DEF IInv, HistoryInv, HistoryType, CallInv
<1>3. CASE op[c].lvl < Len(Chain[c])
  <2> DEFINE o == [op[c] EXCEPT !.lvl = @ + 1]
  <2>1. op[c].lvl + 1 \in DOMAIN Chain[c] /\ op[c].lvl + 1 \in Nat
    BY <1>1, <1>3
  <2>2. o \in Operation
    BY <1>1, <2>1 DEF Operation
  <2>3. CallInv(hist, now, c, o)
    BY <1>1, <2>1 DEF CallInv, InRange, Operation
  <2>4. op' = [op EXCEPT ![c] = o] /\ dead' = dead
    BY <1>3 DEF NextLevel
  <2> QED
    BY <1>2, <2>2, <2>3, <2>4
<1>4. CASE ~ (op[c].lvl < Len(Chain[c]))
  <2> DEFINE o == Call(c, op[c].key, "idle", 0, NoTTL, {})
  <2>1. op[c].key \in Keys
    BY <1>1 DEF Operation
  <2>2. o \in Operation /\ CallInv(hist, now, c, o)
    BY <2>1, CallType, NoTTLType
  <2>3. op' = [op EXCEPT ![c] = o] /\ dead' = dead \cup op[c].base
    BY <1>4 DEF NextLevel
  <2> QED
    BY <1>2, <2>2, <2>3
<1> QED
  BY <1>3, <1>4

\* The entry a Set stores in a level may be there.
LEMMA WriteSound ==
  ASSUME HistoryType, NEW w \in Write, w.at = now, NEW hist, NEW v \in Nat,
         v \in DOMAIN hist, hist[v] = w, NEW s \in Caches
  PROVE  Sound(hist, now, NewEntry(v, w.ttl, now), w.key, s)
<1> DEFINE fresh == Seconds(w.ttl.fresh)
           stale == Seconds(w.ttl.stale)
           copies == Rank[s] * (stale + FillDelay)
           n == NewEntry(v, w.ttl, now)
<1>1. fresh \in Nat /\ stale \in Nat /\ copies \in Nat /\ now \in Nat
  BY LastSecondNat DEF HistoryType
<1>2. /\ n.data = v /\ n.createdAt = now /\ n.staleAt = now + fresh
      /\ n.expiresAt = now + fresh + stale
  BY DEF NewEntry
<1>3. now + fresh + stale <= LastSecond(w, s)
  <2>1. CASE EnablePropagation
    <3>1. LastSecond(w, s) = now + fresh + stale + copies
      BY <2>1 DEF LastSecond
    <3> HIDE DEF fresh, stale, copies
    <3> QED
      BY <1>1, <3>1
  <2>2. CASE ~ EnablePropagation
    <3>1. LastSecond(w, s) = now + fresh + stale + 0 * (stale + FillDelay)
      BY <2>2 DEF LastSecond
    <3> HIDE DEF fresh, stale, copies
    <3>2. 0 * (stale + FillDelay) = 0
      BY <1>1, ValueAssumption
    <3> QED
      BY <1>1, <3>1, <3>2
  <2> QED
    BY <2>1, <2>2
<1>4. /\ n.data \in DOMAIN hist /\ hist[n.data].key = w.key /\ n.createdAt <= now
      /\ n.staleAt - n.createdAt <= fresh /\ n.expiresAt - n.staleAt = stale
      /\ n.expiresAt <= LastSecond(w, s)
  <2> HIDE DEF fresh, stale, n
  <2> QED
    BY <1>1, <1>2, <1>3
<1> QED
  BY <1>2, <1>4 DEF Sound

LEMMA WriteLevelStep ==
  ASSUME IInv, NEW c \in Clients, WriteLevel(c)
  PROVE  IInv'
<1> DEFINE v == op[c].val
           w == [writes[v] EXCEPT !.at = now]
<1>1. /\ op[c].pc = "write" /\ op[c] \in Operation /\ CallInv(writes, now, c, op[c])
      /\ v \in DOMAIN writes /\ v \in Nat /\ Level(c) \in Caches
      /\ writes[v].key = op[c].key /\ writes[v].ttl = op[c].ttl
      /\ op[c].ttl \in TTL /\ op[c].key \in Keys
  BY LevelType DEF WriteLevel, IInv, CallsInv, CallInv, InRange, Operation
<1>2. HistoryType /\ now \in Nat /\ writes \in Seq(Write) /\ writes[v] \in Write
  BY <1>1 DEF IInv, HistoryInv, HistoryType
<1>3. w \in Write /\ w.at = now /\ w.key = writes[v].key /\ w.ttl = writes[v].ttl
  BY <1>2 DEF Write
<1> HIDE DEF w
<1>4. writes' = [writes EXCEPT ![v] = w] /\ now' = now
  BY DEF WriteLevel, w
<1>5. /\ writes' \in Seq(Write) /\ DOMAIN writes' = DOMAIN writes /\ writes'[v] = w
      /\ \A u \in DOMAIN writes : u # v => writes'[u] = writes[u]
  BY <1>1, <1>2, <1>3, <1>4
<1>6. \A u \in DOMAIN writes : writes[u].at \in Nat /\ writes[u].at <= now
  <2>1. \A u \in DOMAIN writes : writes[u] \in Write
    BY <1>2
  <2> QED
    BY <2>1 DEF Write, IInv, HistoryInv
<1>7. /\ dead' \subseteq DOMAIN writes'
      /\ \E o \in Operation :
            CallInv(writes', now, c, o) /\ op' = [op EXCEPT ![c] = o]
  BY <1>1, <1>3, <1>5, NextLevelCall DEF WriteLevel
<1>8. HistoryType'
  BY <1>2, <1>4, <1>5, <1>7 DEF HistoryType
<1>9. HistoryInv' /\ HistoryGrows
  BY <1>1, <1>2, <1>3, <1>4, <1>5, <1>6, <1>8 DEF HistoryInv, HistoryGrows
<1>10. LevelsInv'
  <2>1. Sound(writes', now, NewEntry(v, w.ttl, now), w.key, Level(c))
    BY <1>1, <1>2, <1>3, <1>5, WriteSound
  <2>2. Sound(writes', now', NewEntry(v, op[c].ttl, now), op[c].key, Level(c))
    BY <1>1, <1>3, <1>4, <2>1
  <2> QED
    BY <1>1, <1>2, <1>8, <1>9, <2>2, SetSafe DEF WriteLevel, IInv
<1>11. CallsInv'
  BY <1>2, <1>4, <1>7, <1>8, <1>9, CallUpdate DEF IInv
<1> QED
  BY <1>9, <1>10, <1>11 DEF IInv

LEMMA EraseLevelStep ==
  ASSUME IInv, NEW c \in Clients, EraseLevel(c)
  PROVE  IInv'
<1>1. /\ op[c].pc = "erase" /\ op[c].key \in Keys /\ Level(c) \in Caches
      /\ UNCHANGED <<now, writes>>
  BY LevelType DEF EraseLevel, IInv, Operation
<1>2. /\ dead' \subseteq DOMAIN writes
      /\ \E o \in Operation :
            CallInv(writes, now, c, o) /\ op' = [op EXCEPT ![c] = o]
  BY <1>1, NextLevelCall DEF EraseLevel
<1>3. HistoryType /\ HistoryType'
  BY <1>1, <1>2 DEF IInv, HistoryInv, HistoryType
<1>4. \A v \in DOMAIN writes : writes[v].at \in Nat
  <2>1. \A v \in DOMAIN writes : writes[v] \in Write
    BY <1>3 DEF HistoryType
  <2> QED
    BY <2>1 DEF Write
<1>5. HistoryInv' /\ HistoryGrows
  BY <1>1, <1>3, <1>4 DEF IInv, HistoryInv, HistoryGrows, HistoryType
<1>6. LevelsInv'
  BY <1>1, <1>3, <1>5, DeleteSafe DEF EraseLevel, IInv
<1>7. CallsInv'
  BY <1>1, <1>2, <1>3, <1>5, CallUpdate DEF IInv
<1> QED
  BY <1>5, <1>6, <1>7 DEF IInv

-------------------------------------------------------------------------------
(* The environment.                                                        *)

\* The calls under way do not change.
LEMMA CallsAlone ==
  ASSUME IInv, UNCHANGED <<now, writes, dead, op>>
  PROVE  HistoryInv' /\ HistoryType /\ HistoryType' /\ HistoryGrows /\ CallsInv'
<1>1. HistoryInv' /\ HistoryType /\ HistoryType' /\ HistoryGrows
  BY HistoryStays DEF IInv, HistoryInv
<1>2. \A d \in Clients : op[d].pc = "fill" => now' <= op[d].since + FillDelay
  BY DEF IInv, CallsInv, CallInv, Computed
<1> QED
  BY <1>1, <1>2, CallsStay DEF IInv

\* A key that loses its entry, to nothing or to garbage.
LEMMA LossStep ==
  ASSUME IInv, NEW s \in Caches, NEW k \in Keys, Evict(s, k) \/ Corrupt(s, k)
  PROVE  IInv'
<1>1. PICK x \in {NoEntry, Garbage} : store' = [store EXCEPT ![s][k] = x]
  BY DEF Evict, Corrupt
<1>2. UNCHANGED <<now, late, writes, dead, op>>
  BY DEF Evict, Corrupt
<1>3. x \notin Entry
  BY ValueAssumption
<1>4. LevelsInv'
  BY <1>1, <1>2, <1>3 DEF IInv, LevelsInv, LevelsType
<1> QED
  BY <1>2, <1>4, CallsAlone DEF IInv

LEMMA ExecuteLateStep ==
  ASSUME IInv, NEW m \in late, ExecuteLate(m)
  PROVE  IInv'
<1>1. m.cache \in Caches /\ m.key \in Keys /\ m.put \in Entry \cup {NoEntry}
  BY DEF IInv, LevelsInv, LevelsType, Command, Caches
<1>2. m.put \in Entry => Sound(writes, now, m.put, m.key, m.cache)
  BY DEF IInv, LevelsInv
<1>3. UNCHANGED <<now, writes, dead, op>> /\ late' \subseteq late
      /\ store' = [store EXCEPT ![m.cache][m.key] = m.put]
  BY DEF ExecuteLate
<1>4. LevelsInv'
  BY <1>1, <1>2, <1>3 DEF IInv, LevelsInv, LevelsType
<1> QED
  BY <1>3, <1>4, CallsAlone DEF IInv

LEMMA RestartStep ==
  ASSUME IInv, NEW s \in Caches, Restart(s)
  PROVE  IInv'
<1>1. HistoryInv' /\ UNCHANGED <<now, late, writes, dead>>
  BY HistoryStays DEF IInv, Restart
<1>2. LevelsInv'
  <2>1. NoEntry \notin Entry
    BY ValueAssumption
  <2> QED
    BY <1>1, <2>1 DEF Restart, IInv, LevelsInv, LevelsType
<1>3. CallsInv'
  <2> DEFINE gone(c) == Call(c, op[c].key, "idle", 0, NoTTL, {})
  <2>1. ASSUME NEW c \in Clients
        PROVE  gone(c) \in Operation /\ CallInv(writes, now, c, gone(c))
    <3>1. op[c].key \in Keys
      BY DEF IInv, CallsInv, Operation
    <3> QED
      BY <3>1, CallType, NoTTLType
  <2>2. ASSUME NEW c \in Clients
        PROVE  op[c] \in Operation /\ CallInv(writes, now, c, op[c])
    BY DEF IInv, CallsInv
  <2> HIDE DEF gone
  <2>3. \A c \in Clients : op'[c] \in {gone(c), op[c]}
    BY DEF Restart, gone
  <2>4. \A c \in Clients : op'[c] \in Operation /\ CallInv(writes, now, c, op'[c])
    BY <2>1, <2>2, <2>3
  <2>5. op' = [c \in Clients |-> op'[c]]
    BY DEF Restart
  <2>6. op' \in [Clients -> Operation]
    BY <2>4, <2>5
  <2> QED
    BY <1>1, <2>4, <2>6 DEF CallsInv
<1> QED
  BY <1>1, <1>2, <1>3 DEF IInv

LEMMA TickStep ==
  ASSUME IInv, Tick
  PROVE  IInv'
<1>1. /\ now \in Nat /\ now' = now + 1 /\ HistoryType
      /\ UNCHANGED <<store, late, writes, dead, op>>
  BY DEF Tick, IInv, HistoryInv, HistoryType
<1>2. \A v \in DOMAIN writes : writes[v].at \in Nat
  <2>1. \A v \in DOMAIN writes : writes[v] \in Write
    BY <1>1 DEF HistoryType
  <2> QED
    BY <2>1 DEF Write
<1>3. HistoryInv' /\ HistoryType' /\ HistoryGrows
  BY <1>1, <1>2 DEF HistoryInv, HistoryType, HistoryGrows, IInv
<1>4. LevelsInv'
  BY <1>1, <1>3, LevelsStay DEF IInv
<1>5. \A d \in Clients : op[d].pc = "fill" => now' <= op[d].since + FillDelay
  <2>1. \A d \in Clients : op[d].since \in Nat
    BY DEF IInv, CallsInv, Operation
  <2> QED
    BY <1>1, <2>1, ValueAssumption DEF Tick
<1>6. CallsInv'
  BY <1>1, <1>3, <1>5, CallsStay DEF IInv
<1> QED
  BY <1>3, <1>4, <1>6 DEF IInv

-------------------------------------------------------------------------------
(* The theorems.                                                           *)

LEMMA InitInv == Init => IInv
<1> SUFFICES ASSUME Init
             PROVE  IInv
  OBVIOUS
<1>1. HistoryInv
  BY DEF Init, HistoryInv, HistoryType
<1>2. LevelsInv
  BY ValueAssumption DEF Init, LevelsInv, LevelsType
<1>3. \A c \in Clients, d \in Clients, k \in Keys :
         /\ Call(d, k, "idle", 0, NoTTL, {}) \in Operation
         /\ CallInv(writes, now, c, Call(d, k, "idle", 0, NoTTL, {}))
  BY NoTTLType DEF Call, Operation, CallInv, InRange
<1>4. \A c \in Clients : \E d \in Clients, k \in Keys :
         op[c] = Call(d, k, "idle", 0, NoTTL, {})
  BY DEF Init
<1>5. op = [c \in Clients |-> op[c]]
  BY DEF Init
<1>6. CallsInv
  BY <1>3, <1>4, <1>5 DEF CallsInv
<1> QED
  BY <1>1, <1>2, <1>6 DEF IInv

LEMMA NextInv == IInv /\ [Next]_vars => IInv'
<1> SUFFICES ASSUME IInv, [Next]_vars
             PROVE  IInv'
  OBVIOUS
<1>1. ASSUME NEW c \in Clients, NEW k \in Keys, CallGet(c, k)
      PROVE  IInv'
  BY <1>1, CallGetStep
<1>2. ASSUME NEW c \in Writers, NEW k \in Keys, NEW ttl \in TTLs, NEW big \in Sizes,
             CallSet(c, k, ttl, big)
      PROVE  IInv'
  BY <1>2, CallSetStep, ValueAssumption
<1>3. ASSUME NEW c \in Writers, NEW k \in Keys, CallDelete(c, k)
      PROVE  IInv'
  BY <1>3, CallDeleteStep, ValueAssumption
<1>4. ASSUME NEW c \in Clients, ClientStep(c)
      PROVE  IInv'
  BY <1>4, GetStep, DropStep, PromoteStep, FillStep, WriteLevelStep, EraseLevelStep
     DEF ClientStep
<1>5. ASSUME NEW s \in Caches, NEW k \in Keys, Evict(s, k) \/ Corrupt(s, k)
      PROVE  IInv'
  BY <1>5, LossStep
<1>6. ASSUME NEW m \in late, ExecuteLate(m)
      PROVE  IInv'
  BY <1>6, ExecuteLateStep
<1>7. ASSUME NEW s \in BigCaches, Restart(s)
      PROVE  IInv'
  BY <1>7, RestartStep DEF Caches
<1>8. CASE Tick
  BY <1>8, TickStep
<1>9. CASE UNCHANGED vars
  BY <1>9, CallsAlone, LevelsStay DEF vars, IInv
<1>10. KeyDBs \subseteq Caches
  BY DEF Caches
<1> QED
  BY <1>1, <1>2, <1>3, <1>4, <1>5, <1>6, <1>7, <1>8, <1>9, <1>10 DEF Next

LEMMA Invariance == Spec => []IInv
  BY InitInv, NextInv, PTL DEF Spec

\* Whatever the clients, the KeyDB and the clock do, data stay in their types, no
\* level beyond the last one is addressed, and every value in a level, in flight
\* or being propagated is the value of a Set that was made.
THEOREM TypeCorrect == Spec => []TypeOK
<1>1. IInv => TypeOK
  BY DEF IInv, HistoryInv, LevelsInv, CallsInv, CallInv, InRange, TypeOK
<1> QED
  BY <1>1, Invariance, PTL

\* Every entry in a level, or on its way there, satisfies Sound.
LEMMA EntriesSound ==
  ASSUME IInv, NEW s \in Caches, NEW k \in Keys, NEW e \in EntriesAt(s, k)
  PROVE  Sound(writes, now, e, k, s)
  BY DEF IInv, LevelsInv, EntriesAt

\* No level serves a value beyond the bound of LastSecond: for each level behind
\* the one it is found in, one stale period and one FillDelay more than its Set
\* asked, and with propagation disabled not a second more.
THEOREM LifetimeBounded == Spec => []LifetimeBound
<1>1. IInv => LifetimeBound
  BY EntriesSound DEF LifetimeBound, Sound
<1> QED
  BY <1>1, Invariance, PTL

\* No copy of a value is fresh for longer, or may be served stale for longer or
\* shorter, than the TTL given to Set asked, counted from when it was copied.
THEOREM WindowsArePreserved == Spec => []WindowsPreserved
<1>1. IInv => WindowsPreserved
  BY EntriesSound DEF WindowsPreserved, Sound
<1> QED
  BY <1>1, Invariance, PTL

-------------------------------------------------------------------------------
(* A client that is alone.                                                 *)

\* What level i of client c holds, in the levels st.
Held(st, c, i, k) == st[Chain[c][i]][k]

\* No command is put off and no Set is without effect, except on a level that is
\* switched off.
AllExecuted ==
    /\ late = {}
    /\ \A v \in DOMAIN writes : ~ writes[v].big
    /\ \A s \in NoOps, k \in Keys : store[s][k] = NoEntry

\* A Set or Delete o has changed the levels before lvl and will change the others.
Replacing(st, hist, over, c, o) ==
    /\ o.ent = NoEntry
    /\ \A v \in o.base : hist[v].key = o.key
    /\ o.pc = "write" => o.val \notin over \cup o.base
    /\ \A i \in DOMAIN Chain[c] :
          i < o.lvl /\ Held(st, c, i, o.key) \in Entry =>
              o.pc = "write" /\ Held(st, c, i, o.key).data = o.val

\* A Get o has found nothing to serve before lvl, nor in lvl if it drops that.
Missed(st, t, c, o) ==
    \A i \in DOMAIN Chain[c] :
        /\ i < o.lvl \/ (i = o.lvl /\ o.pc = "drop")
        /\ Held(st, c, i, o.key) \in Entry
        => IsExpired(Held(st, c, i, o.key), t)

\* The levels of client c and its call o have nothing that was replaced.
CallAlone(st, hist, over, t, c, o) ==
    /\ \A i \in DOMAIN Chain[c], k \in Keys :
          Held(st, c, i, k) \in Entry => Held(st, c, i, k).data \notin over
    /\ o.ent \in Entry => o.ent.data \notin over
    /\ o.pc \in {"probe", "drop", "promote", "fill"} \/ o.ent # NoEntry => o.base \subseteq over
    /\ o.pc \in {"write", "erase"} => Replacing(st, hist, over, c, o)
    /\ o.pc \in {"probe", "drop"} => Missed(st, t, c, o)

AloneInv ==
    /\ Alone
    /\ AllExecuted
    /\ \A c \in Clients : CallAlone(store, writes, dead, now, c, op[c])

\* The levels of client c hold one value of key k, except for the key its Set o is
\* replacing, and a propagation is of that value.
Agreeing(st, c, o) ==
    /\ \A k \in Keys : \A i, j \in DOMAIN Chain[c] :
          /\ Held(st, c, i, k) \in Entry
          /\ Held(st, c, j, k) \in Entry
          /\ ~ (o.pc = "write" /\ o.key = k)
          => Held(st, c, i, k).data = Held(st, c, j, k).data
    /\ o.pc \in {"promote", "fill"} =>
          \A i \in DOMAIN Chain[c] :
              Held(st, c, i, o.key) \in Entry => Held(st, c, i, o.key).data = o.ent.data

AgreeInv ==
    /\ OneSurvives
    /\ \A c \in Clients : Agreeing(store, c, op[c])

\* Levels lose entries and get none.
Shrinks ==
    \A s \in Caches, k \in Keys : store'[s][k] \in Entry => store'[s][k] = store[s][k]

\* The client goes on with the call o.
LEMMA AloneStep ==
  ASSUME AloneInv, CallsInv, AllExecuted', NEW c \in Clients, NEW o,
         op' = [op EXCEPT ![c] = o], CallAlone(store', writes', dead', now', c, o)
  PROVE  AloneInv'
<1>1. \A d \in Clients : d = c
  BY DEF AloneInv, Alone
<1>2. op'[c] = o
  BY DEF CallsInv
<1> QED
  BY <1>1, <1>2 DEF AloneInv, Alone

\* What level i of a client holds is in the types.
LEMMA HeldType ==
  ASSUME IInv, NEW c \in Clients, NEW i \in DOMAIN Chain[c], NEW k \in Keys
  PROVE  /\ Chain[c][i] \in Caches
         /\ Held(store, c, i, k) \in Entry \cup {NoEntry, Garbage}
         /\ Held(store, c, i, k) \in Entry =>
               /\ Held(store, c, i, k).data \in DOMAIN writes
               /\ writes[Held(store, c, i, k).data].key = k
<1>1. Chain[c][i] \in Caches
  BY LevelType DEF IInv
<1> QED
  BY <1>1 DEF Held, IInv, LevelsInv, LevelsType, Sound

\* A call that goes on as it was while levels lose entries and time passes.
LEMMA AloneStays ==
  ASSUME IInv, AloneInv, Shrinks, UNCHANGED dead, HistoryGrows, IInv',
         NEW c \in Clients, NEW o \in Operation,
         o.pc \in {"write", "erase"} => o.base \subseteq DOMAIN writes,
         CallAlone(store, writes, dead, now, c, o)
  PROVE  CallAlone(store', writes', dead', now', c, o)
<1>1. \A i \in DOMAIN Chain[c], k \in Keys :
         /\ Held(store', c, i, k) \in Entry => Held(store', c, i, k) = Held(store, c, i, k)
         /\ Chain[c][i] \in Caches
  BY HeldType DEF Shrinks, Held
<1>2. o.key \in Keys
  BY DEF Operation
<1>3. o.pc \in {"write", "erase"} /\ Replacing(store, writes, dead, c, o) =>
         Replacing(store', writes', dead', c, o)
  BY <1>1, <1>2 DEF Replacing, HistoryGrows
<1>4. Missed(store, now, c, o) => Missed(store', now', c, o)
  <2> SUFFICES ASSUME Missed(store, now, c, o), NEW i \in DOMAIN Chain[c],
                      i < o.lvl \/ (i = o.lvl /\ o.pc = "drop"),
                      Held(store', c, i, o.key) \in Entry
               PROVE  IsExpired(Held(store', c, i, o.key), now')
    BY DEF Missed
  <2> DEFINE e == Held(store, c, i, o.key)
  <2>1. Held(store', c, i, o.key) = e /\ e \in Entry
    BY <1>1, <1>2
  <2>2. IsExpired(e, now)
    BY <2>1 DEF Missed
  <2> HIDE DEF e
  <2>3. now \in Nat /\ now' \in Nat /\ now' >= now /\ e.expiresAt \in Nat
    BY <2>1 DEF Entry, IInv, HistoryInv, HistoryType, HistoryGrows
  <2>4. IsExpired(e, now')
    BY <2>2, <2>3 DEF IsExpired
  <2> QED
    BY <2>1, <2>4
<1> QED
  BY <1>1, <1>3, <1>4 DEF CallAlone

\* A command of a Set is executed, unless its level is switched off.
LEMMA SetExecuted ==
  ASSUME IInv, AloneInv, NEW s \in Caches, NEW k \in Keys, NEW val \in DOMAIN writes,
         NEW ttl \in TTL, LevelSet(s, k, val, ttl)
  PROVE  /\ late' = late
         /\ \A t \in Caches, j \in Keys :
               store'[t][j] = IF t = s /\ j = k /\ s \notin NoOps
                              THEN NewEntry(val, ttl, now) ELSE store[t][j]
<1> DEFINE e == NewEntry(val, ttl, now)
<1>1. ~ writes[e.data].big
  BY DEF NewEntry, AloneInv, AllExecuted
<1>2. ~ Fail(s, k, e)
  BY DEF Fail, AloneInv, Alone
<1>3. \/ s \in NoOps /\ UNCHANGED <<store, late>>
      \/ s \notin NoOps /\ Execute(s, k, e)
  <2> HIDE DEF e
  <2> QED
    BY <1>1, <1>2, ChainAssumption DEF LevelSet, BigCacheSet, KeyDBSet, e
<1>4. store \in [Caches -> [Keys -> Entry \cup {NoEntry, Garbage}]]
  BY DEF IInv, LevelsInv, LevelsType
<1> QED
  BY <1>3, <1>4 DEF Execute

\* A deletion is executed.
LEMMA DeleteExecuted ==
  ASSUME IInv, AloneInv, NEW s \in Caches, NEW k \in Keys, LevelDelete(s, k)
  PROVE  /\ late' = late
         /\ \A t \in Caches, j \in Keys :
               store'[t][j] = IF t = s /\ j = k THEN NoEntry ELSE store[t][j]
<1>1. ~ Fail(s, k, NoEntry)
  BY DEF Fail, AloneInv, Alone
<1>2. \/ s \in NoOps /\ UNCHANGED <<store, late>> /\ store[s][k] = NoEntry
      \/ Execute(s, k, NoEntry)
  BY <1>1 DEF LevelDelete, AloneInv, AllExecuted
<1>3. store \in [Caches -> [Keys -> Entry \cup {NoEntry, Garbage}]]
  BY DEF IInv, LevelsInv, LevelsType
<1> QED
  BY <1>2, <1>3 DEF Execute

\* A step that changes only the call leaves the commands as they were.
LEMMA ReadAlone ==
  ASSUME IInv, AloneInv, NEW c \in Clients, NEW o,
         op' = [op EXCEPT ![c] = o], UNCHANGED <<now, store, late, writes, dead>>,
         CallAlone(store, writes, dead, now, c, o)
  PROVE  AloneInv'
<1>1. AllExecuted'
  BY DEF AloneInv, AllExecuted
<1> QED
  BY <1>1, AloneStep DEF IInv

LEMMA CallGetAlone ==
  ASSUME IInv, AloneInv, NEW c \in Clients, NEW k \in Keys, CallGet(c, k)
  PROVE  AloneInv'
<1> DEFINE o == Call(c, k, "probe", 0, NoTTL, dead)
<1>1. /\ o.pc \in {"probe", "idle"} /\ o.pc # "drop" /\ o.lvl = 1 /\ o.ent = NoEntry
      /\ o.base = dead
  BY DEF Call
<1>2. op' = [op EXCEPT ![c] = o] /\ UNCHANGED <<now, store, late, writes, dead>>
  BY DEF CallGet
<1> HIDE DEF o
<1>3. Missed(store, now, c, o)
  BY <1>1, LevelType DEF Missed, IInv
<1>4. CallAlone(store, writes, dead, now, c, o)
  BY <1>1, <1>3, ValueAssumption DEF AloneInv, CallAlone
<1> QED
  BY <1>2, <1>4, ReadAlone

\* A Get that leaves a level that has nothing to serve any more.
LEMMA MissAlone ==
  ASSUME IInv, AloneInv, NEW c \in Clients, op[c].pc \in {"probe", "drop"}, Shrinks,
         Held(store', c, op[c].lvl, op[c].key) \in Entry =>
             IsExpired(Held(store', c, op[c].lvl, op[c].key), now),
         Miss(c)
  PROVE  \E o : /\ op' = [op EXCEPT ![c] = o]
                /\ CallAlone(store', writes, dead, now, c, o)
<1> DEFINE more == op[c].lvl < Len(Chain[c])
           pc == IF more THEN "probe" ELSE "idle"
           lvl == IF more THEN op[c].lvl + 1 ELSE 1
           o == [op[c] EXCEPT !.pc = pc, !.lvl = lvl]
<1>1. /\ op[c] \in Operation /\ op[c].lvl \in Nat /\ op[c].key \in Keys
      /\ op[c].lvl \in DOMAIN Chain[c]
      /\ DOMAIN Chain[c] = 1 .. Len(Chain[c]) /\ Len(Chain[c]) \in Nat
      /\ \A i \in DOMAIN Chain[c] : Chain[c][i] \in Caches
  BY LevelType DEF IInv, Operation
<1>2. op' = [op EXCEPT ![c] = o]
  BY DEF Miss
<1>3. /\ o.pc = pc /\ o.lvl = lvl /\ o.key = op[c].key /\ o.ent = op[c].ent
      /\ o.base = op[c].base
  BY <1>1 DEF Operation
<1>4. pc \in {"probe", "idle"} /\ (pc = "probe" => lvl = op[c].lvl + 1)
  OBVIOUS
<1>5. CallAlone(store, writes, dead, now, c, op[c]) /\ Missed(store, now, c, op[c])
  BY DEF AloneInv, CallAlone
<1> HIDE DEF o, pc, lvl
<1>6. \A i \in DOMAIN Chain[c], k \in Keys :
         Held(store', c, i, k) \in Entry => Held(store', c, i, k) = Held(store, c, i, k)
  BY <1>1 DEF Shrinks, Held
<1>7. o.pc = "probe" => Missed(store', now, c, o)
  <2> SUFFICES ASSUME o.pc = "probe", NEW i \in DOMAIN Chain[c], i < o.lvl,
                      Held(store', c, i, o.key) \in Entry
               PROVE  IsExpired(Held(store', c, i, o.key), now)
    BY DEF Missed
  <2>1. i < op[c].lvl \/ i = op[c].lvl
    BY <1>1, <1>3, <1>4
  <2>2. CASE i < op[c].lvl
    BY <1>1, <1>3, <1>5, <1>6, <2>2 DEF Missed
  <2>3. CASE i = op[c].lvl
    BY <1>3, <2>3
  <2> QED
    BY <2>1, <2>2, <2>3
<1>8. CallAlone(store', writes, dead, now, c, o)
  BY <1>3, <1>4, <1>5, <1>6, <1>7 DEF CallAlone
<1> QED
  BY <1>2, <1>8

\* A Get finds what was not replaced.
LEMMA HitAlone ==
  ASSUME IInv, AloneInv, NEW c \in Clients, op[c].pc = "probe",
         Level(c) \in Caches,
         store[Level(c)][op[c].key] \in Entry, Hit(c, store[Level(c)][op[c].key])
  PROVE  \E o : /\ op' = [op EXCEPT ![c] = o]
                /\ CallAlone(store, writes, dead, now, c, o)
<1> DEFINE e == store[Level(c)][op[c].key]
           pc == IF op[c].lvl > 1 /\ EnablePropagation THEN "promote" ELSE "idle"
           o == [op[c] EXCEPT !.pc = pc, !.lvl = 1, !.hit = op[c].lvl, !.ent = e]
<1>1. op' = [op EXCEPT ![c] = o]
  BY DEF Hit
<1>2. op[c] \in Operation /\ op[c].key \in Keys /\ op[c].lvl \in DOMAIN Chain[c]
  BY LevelType DEF IInv, Operation
<1>3. o.pc = pc /\ o.ent = e /\ o.base = op[c].base /\ pc \in {"promote", "idle"}
  BY <1>2 DEF Operation
<1>4. CallAlone(store, writes, dead, now, c, op[c])
  BY DEF AloneInv
<1>5. e.data \notin dead
  BY <1>2, <1>4 DEF CallAlone, Held, Level
<1> HIDE DEF o, pc, e
<1>6. CallAlone(store, writes, dead, now, c, o)
  BY <1>3, <1>4, <1>5 DEF CallAlone
<1> QED
  BY <1>1, <1>6

LEMMA GetAlone ==
  ASSUME IInv, AloneInv, NEW c \in Clients, BigCacheGet(c) \/ KeyDBGet(c) \/ NoOpGet(c)
  PROVE  AloneInv'
<1> DEFINE x == store[Level(c)][op[c].key]
           drop == [op[c] EXCEPT !.pc = "drop"]
<1>1. /\ op[c].pc = "probe" /\ UNCHANGED <<now, store, late, writes, dead>>
      /\ op[c] \in Operation /\ op[c].key \in Keys /\ Level(c) \in Caches
      /\ x = Held(store, c, op[c].lvl, op[c].key)
      /\ op[c].lvl \in DOMAIN Chain[c]
      /\ CallAlone(store, writes, dead, now, c, op[c])
  BY LevelType DEF BigCacheGet, KeyDBGet, NoOpGet, IInv, Operation, AloneInv, Held, Level
<1>2. Garbage \notin Entry /\ NoEntry \notin Entry /\ Shrinks
  BY <1>1, ValueAssumption DEF Shrinks
<1>3. \/ x = NoEntry /\ Miss(c)
      \/ op' = [op EXCEPT ![c] = drop] /\ (x = Garbage \/ (x \in Entry /\ IsExpired(x, now)))
      \/ x \in Entry /\ Hit(c, x)
  <2>1. CASE Level(c) \in NoOps
    <3>1. NoOpGet(c)
      BY <2>1, ChainAssumption DEF BigCacheGet, KeyDBGet
    <3> QED
      BY <1>1, <2>1, <3>1 DEF NoOpGet, AloneInv, AllExecuted
  <2>2. CASE Level(c) \notin NoOps
    <3>1. Answer(c, x)
      BY <2>2 DEF BigCacheGet, KeyDBGet, NoOpGet, AloneInv, Alone
    <3> QED
      BY <3>1 DEF Answer
  <2> QED
    BY <2>1, <2>2
<1>4. CASE x = NoEntry /\ Miss(c)
  <2>1. Held(store', c, op[c].lvl, op[c].key) \notin Entry
    BY <1>1, <1>2, <1>4 DEF Held
  <2>2. PICK o : /\ op' = [op EXCEPT ![c] = o]
                 /\ CallAlone(store', writes, dead, now, c, o)
    BY <1>1, <1>2, <1>4, <2>1, MissAlone
  <2> QED
    BY <1>1, <2>2, ReadAlone
<1>5. CASE op' = [op EXCEPT ![c] = drop] /\ (x = Garbage \/ (x \in Entry /\ IsExpired(x, now)))
  <2>1. /\ drop.pc = "drop" /\ drop.lvl = op[c].lvl /\ drop.key = op[c].key
        /\ drop.ent = op[c].ent /\ drop.base = op[c].base
    BY <1>1 DEF Operation
  <2>2. x \in Entry => IsExpired(x, now)
    BY <1>2, <1>5
  <2>3. Missed(store, now, c, op[c])
    BY <1>1 DEF CallAlone
  <2> HIDE DEF drop, x
  <2>4. Missed(store, now, c, drop)
    BY <1>1, <2>1, <2>2, <2>3 DEF Missed
  <2>5. CallAlone(store, writes, dead, now, c, drop)
    BY <1>1, <2>1, <2>4 DEF CallAlone
  <2> QED
    BY <1>1, <1>5, <2>5, ReadAlone
<1>6. CASE x \in Entry /\ Hit(c, x)
  BY <1>1, <1>6, HitAlone, ReadAlone
<1> QED
  BY <1>3, <1>4, <1>5, <1>6

LEMMA DropAlone ==
  ASSUME IInv, AloneInv, NEW c \in Clients, Drop(c)
  PROVE  AloneInv'
<1>1. /\ op[c].pc = "drop" /\ op[c].key \in Keys /\ Level(c) \in Caches
      /\ UNCHANGED <<now, writes, dead>>
  BY LevelType DEF Drop, IInv, Operation
<1>2. /\ late' = late
      /\ \A t \in Caches, j \in Keys :
            store'[t][j] = IF t = Level(c) /\ j = op[c].key THEN NoEntry ELSE store[t][j]
  BY <1>1, DeleteExecuted DEF Drop
<1>3. NoEntry \notin Entry
  BY ValueAssumption
<1>4. Shrinks /\ Held(store', c, op[c].lvl, op[c].key) \notin Entry
  BY <1>1, <1>2, <1>3 DEF Shrinks, Held, Level
<1>5. PICK o : /\ op' = [op EXCEPT ![c] = o]
               /\ CallAlone(store', writes, dead, now, c, o)
  BY <1>1, <1>4, MissAlone DEF Drop
<1>6. AllExecuted'
  BY <1>1, <1>2 DEF AloneInv, AllExecuted, Caches
<1> QED
  BY <1>1, <1>5, <1>6, AloneStep DEF IInv

LEMMA PromoteAlone ==
  ASSUME IInv, AloneInv, NEW c \in Clients, Promote(c)
  PROVE  AloneInv'
<1> DEFINE e == op[c].ent
           rem == RemainingTTL(e, now)
           stop == [op[c] EXCEPT !.pc = "idle"]
           go == [op[c] EXCEPT !.pc = "fill", !.val = e.data, !.ttl = rem, !.since = now]
<1>1. /\ op[c].pc = "promote" /\ op[c] \in Operation
      /\ UNCHANGED <<now, store, late, writes, dead>>
      /\ CallAlone(store, writes, dead, now, c, op[c])
  BY LevelType DEF Promote, IInv, AloneInv
<1>2. PICK o \in {stop, go} : op' = [op EXCEPT ![c] = o]
  BY DEF Promote
<1>3. o.pc \in {"idle", "fill"} /\ o.ent = op[c].ent /\ o.base = op[c].base
  BY <1>1, <1>2 DEF Operation
<1>4. CallAlone(store, writes, dead, now, c, o)
  BY <1>1, <1>3 DEF CallAlone
<1> QED
  BY <1>1, <1>2, <1>4, ReadAlone

\* A Set of one level leaves the switched-off ones empty.
LEMMA SetKeepsExecuted ==
  ASSUME AloneInv, late' = late, DOMAIN writes' = DOMAIN writes,
         \A v \in DOMAIN writes : writes'[v].big = writes[v].big,
         \A t \in NoOps, j \in Keys : store'[t][j] = store[t][j]
  PROVE  AllExecuted'
  BY DEF AloneInv, AllExecuted

LEMMA FillAlone ==
  ASSUME IInv, AloneInv, NEW c \in Clients, Fill(c)
  PROVE  AloneInv'
<1> DEFINE more == [op[c] EXCEPT !.lvl = @ + 1]
           done == [op[c] EXCEPT !.pc = "idle", !.lvl = 1, !.val = 0, !.ttl = NoTTL, !.since = 0]
           e == NewEntry(op[c].val, op[c].ttl, now)
<1>1. /\ op[c].pc = "fill" /\ op[c] \in Operation /\ op[c].key \in Keys /\ Level(c) \in Caches
      /\ op[c].ttl \in TTL /\ CallInv(writes, now, c, op[c])
      /\ UNCHANGED <<now, writes, dead>>
      /\ CallAlone(store, writes, dead, now, c, op[c])
  BY LevelType DEF Fill, IInv, CallsInv, AloneInv, Operation
<1>2. op[c].val \in DOMAIN writes /\ op[c].ent \in Entry /\ op[c].val = op[c].ent.data
  BY <1>1 DEF CallInv, InRange, Propagating, Computed
<1>3. /\ late' = late
      /\ \A t \in Caches, j \in Keys :
            store'[t][j] = IF t = Level(c) /\ j = op[c].key /\ Level(c) \notin NoOps
                           THEN e ELSE store[t][j]
  BY <1>1, <1>2, SetExecuted DEF Fill
<1>4. AllExecuted'
  <2>1. \A t \in NoOps, j \in Keys : store'[t][j] = store[t][j]
    BY <1>3 DEF Caches
  <2>2. DOMAIN writes' = DOMAIN writes /\ \A v \in DOMAIN writes : writes'[v].big = writes[v].big
    BY <1>1
  <2> QED
    BY <1>3, <2>1, <2>2, SetKeepsExecuted
<1>5. PICK o \in {more, done} : op' = [op EXCEPT ![c] = o]
  BY DEF Fill
<1>6. /\ o.pc \in {"idle", "fill"} /\ o.ent = op[c].ent /\ o.base = op[c].base
  BY <1>1, <1>5 DEF Operation
<1>7. e.data \notin dead
  BY <1>1, <1>2 DEF CallAlone, NewEntry
<1> HIDE DEF e, more, done
<1>8. \A i \in DOMAIN Chain[c], k \in Keys :
         Held(store', c, i, k) \in Entry => Held(store', c, i, k).data \notin dead
  <2> SUFFICES ASSUME NEW i \in DOMAIN Chain[c], NEW k \in Keys,
                      Held(store', c, i, k) \in Entry
               PROVE  Held(store', c, i, k).data \notin dead
    OBVIOUS
  <2>1. Chain[c][i] \in Caches
    BY LevelType DEF IInv
  <2>2. Held(store', c, i, k) = e \/ Held(store', c, i, k) = Held(store, c, i, k)
    BY <1>3, <2>1 DEF Held
  <2> QED
    BY <1>1, <1>7, <2>2 DEF CallAlone
<1>9. CallAlone(store', writes, dead, now, c, o)
  BY <1>1, <1>6, <1>8 DEF CallAlone
<1> QED
  BY <1>1, <1>4, <1>5, <1>9, AloneStep DEF IInv

\* A new Set or Delete puts an end to Sets of its own key, and has changed no level.
LEMMA ReplacingBegins ==
  ASSUME IInv, AloneInv, NEW c \in Clients, NEW k \in Keys, NEW pc \in {"write", "erase"},
         NEW val, NEW ttl, val \notin DOMAIN writes, NEW hist,
         \A v \in DOMAIN writes : hist[v] = writes[v]
  PROVE  CallAlone(store, hist, dead, now, c, Call(c, k, pc, val, ttl, Settled(k)))
<1> DEFINE o == Call(c, k, pc, val, ttl, Settled(k))
<1>1. /\ o.pc \in {"idle", "write", "erase"} /\ o.ent = NoEntry /\ o.key = k
      /\ o.val = val /\ o.base = Settled(k) /\ o.lvl = 1
  BY DEF Call
<1>2. /\ dead \subseteq DOMAIN writes /\ Settled(k) \subseteq DOMAIN writes
      /\ \A v \in Settled(k) : writes[v].key = k
  BY DEF IInv, HistoryInv, HistoryType, Settled
<1>3. \A i \in DOMAIN Chain[c] : ~ i < 1
  BY LevelType DEF IInv
<1> HIDE DEF o
<1>4. Replacing(store, hist, dead, c, o)
  BY <1>1, <1>2, <1>3 DEF Replacing
<1>5. NoEntry \notin Entry
  BY ValueAssumption
<1> QED
  BY <1>1, <1>4, <1>5 DEF CallAlone, AloneInv, o

LEMMA CallSetAlone ==
  ASSUME IInv, AloneInv, NEW c \in Clients, NEW k \in Keys, NEW ttl \in TTLs, NEW big \in Sizes,
         CallSet(c, k, ttl, big)
  PROVE  AloneInv'
<1> DEFINE w == [key |-> k, at |-> now, ttl |-> ttl, big |-> big]
           n == Len(writes) + 1
           o == Call(c, k, "write", n, ttl, Settled(k))
<1>1. writes \in Seq(Write) /\ w \in Write /\ ~ w.big /\ n \in Nat /\ n \notin DOMAIN writes
  <2>1. big \in BOOLEAN /\ big # TRUE /\ ttl \in TTL
    BY ValueAssumption DEF AloneInv, Alone
  <2>2. writes \in Seq(Write) /\ now \in Nat
    BY DEF IInv, HistoryInv, HistoryType
  <2>3. w \in Write
    BY <2>1, <2>2 DEF Write
  <2>4. ~ w.big
    BY <2>1
  <2>5. n \in Nat /\ n \notin DOMAIN writes
    BY <2>2
  <2> QED
    BY <2>2, <2>3, <2>4, <2>5
<1>2. /\ writes' = Append(writes, w) /\ op' = [op EXCEPT ![c] = o]
      /\ UNCHANGED <<now, store, late, dead>>
  BY DEF CallSet
<1> HIDE DEF w, n
<1>3. /\ \A v \in DOMAIN writes : writes'[v] = writes[v]
      /\ \A v \in DOMAIN writes' : v \in DOMAIN writes \/ writes'[v] = w
  BY <1>1, <1>2
<1>4. AllExecuted'
  BY <1>1, <1>2, <1>3 DEF AllExecuted, AloneInv
<1>5. CallAlone(store, writes', dead, now, c, o)
  BY <1>1, <1>3, ReplacingBegins
<1> QED
  BY <1>2, <1>4, <1>5, AloneStep DEF IInv

LEMMA CallDeleteAlone ==
  ASSUME IInv, AloneInv, NEW c \in Clients, NEW k \in Keys, CallDelete(c, k)
  PROVE  AloneInv'
<1>1. 0 \notin DOMAIN writes
  BY DEF IInv, HistoryInv, HistoryType
<1>2. CallAlone(store, writes, dead, now, c, Call(c, k, "erase", 0, NoTTL, Settled(k)))
  BY <1>1, ReplacingBegins
<1> QED
  BY <1>2, ReadAlone DEF CallDelete

\* The Set or Delete has changed its level, to x or to nothing, and goes on to the
\* next one or returns.
LEMMA ReplacingGoesOn ==
  ASSUME IInv, AloneInv, NEW c \in Clients, op[c].pc \in {"write", "erase"}, NextLevel(c),
         \A v \in DOMAIN writes : writes'[v].key = writes[v].key,
         NEW x, x \in Entry => op[c].pc = "write" /\ x.data = op[c].val,
         \A t \in Caches, j \in Keys :
            store'[t][j] \in Entry =>
               store'[t][j] = IF t = Level(c) /\ j = op[c].key THEN x ELSE store[t][j]
  PROVE  \E o : /\ op' = [op EXCEPT ![c] = o]
                /\ CallAlone(store', writes', dead', now, c, o)
<1>1. /\ op[c] \in Operation /\ CallInv(writes, now, c, op[c]) /\ op[c].key \in Keys
      /\ op[c].lvl \in 1..Len(Chain[c]) /\ Len(Chain[c]) \in Nat
      /\ DOMAIN Chain[c] = 1..Len(Chain[c])
      /\ \A i \in DOMAIN Chain[c] : Chain[c][i] \in Caches
  BY LevelType DEF IInv, CallsInv, Operation
<1>2. /\ CallAlone(store, writes, dead, now, c, op[c])
      /\ Replacing(store, writes, dead, c, op[c])
      /\ op[c].base \subseteq DOMAIN writes
  BY <1>1 DEF AloneInv, CallAlone, CallInv
<1>3. NoEntry \notin Entry
  BY ValueAssumption
\* What was changed so far holds the new value.
<1>4. \A i \in DOMAIN Chain[c] :
         i <= op[c].lvl /\ Held(store', c, i, op[c].key) \in Entry =>
             op[c].pc = "write" /\ Held(store', c, i, op[c].key).data = op[c].val
  <2> SUFFICES ASSUME NEW i \in DOMAIN Chain[c], i <= op[c].lvl,
                      Held(store', c, i, op[c].key) \in Entry
               PROVE  op[c].pc = "write" /\ Held(store', c, i, op[c].key).data = op[c].val
    OBVIOUS
  <2>1. CASE Chain[c][i] = Level(c)
    BY <1>1, <2>1 DEF Held
  <2>2. CASE Chain[c][i] # Level(c)
    <3>1. i < op[c].lvl
      BY <1>1, <2>2 DEF Level
    <3>2. Held(store', c, i, op[c].key) = Held(store, c, i, op[c].key)
      BY <1>1, <2>2 DEF Held
    <3> QED
      BY <1>2, <3>1, <3>2 DEF Replacing
  <2> QED
    BY <2>1, <2>2
\* The levels hold nothing that was replaced before.
<1>5. ASSUME NEW i \in DOMAIN Chain[c], NEW k \in Keys, Held(store', c, i, k) \in Entry
      PROVE  Held(store', c, i, k).data \notin dead
  <2>1. CASE Chain[c][i] = Level(c) /\ k = op[c].key
    BY <1>1, <1>2, <1>5, <2>1 DEF Held, Replacing
  <2>2. CASE ~ (Chain[c][i] = Level(c) /\ k = op[c].key)
    BY <1>1, <1>2, <1>5, <2>2 DEF Held, CallAlone
  <2> QED
    BY <2>1, <2>2
<1>6. CASE op[c].lvl < Len(Chain[c])
  <2> DEFINE o == [op[c] EXCEPT !.lvl = @ + 1]
  <2>1. op' = [op EXCEPT ![c] = o] /\ dead' = dead
    BY <1>6 DEF NextLevel
  <2>2. /\ o.pc = op[c].pc /\ o.ent = op[c].ent /\ o.base = op[c].base /\ o.val = op[c].val
        /\ o.key = op[c].key /\ o.lvl = op[c].lvl + 1
    BY <1>1 DEF Operation
  <2> HIDE DEF o
  <2>3. \A i \in DOMAIN Chain[c] : i < o.lvl => i <= op[c].lvl
    BY <1>1, <2>2
  <2>4. Replacing(store', writes', dead, c, o)
    BY <1>2, <1>4, <2>2, <2>3 DEF Replacing
  <2>5. CallAlone(store', writes', dead, now, c, o)
    BY <1>2, <1>3, <1>5, <2>2, <2>4 DEF CallAlone, Replacing
  <2> QED
    BY <2>1, <2>5
<1>7. CASE ~ (op[c].lvl < Len(Chain[c]))
  <2> DEFINE o == Call(c, op[c].key, "idle", 0, NoTTL, {})
  <2>1. op' = [op EXCEPT ![c] = o] /\ dead' = dead \cup op[c].base
    BY <1>7 DEF NextLevel
  <2>2. o.pc = "idle" /\ o.ent = NoEntry
    BY DEF Call
  <2> HIDE DEF o
  <2>3. \A i \in DOMAIN Chain[c] : i <= op[c].lvl
    BY <1>1, <1>7
  <2>4. ASSUME NEW i \in DOMAIN Chain[c], NEW k \in Keys, Held(store', c, i, k) \in Entry
        PROVE  Held(store', c, i, k).data \notin op[c].base
    <3>1. CASE k = op[c].key
      BY <1>2, <1>4, <2>3, <2>4, <3>1 DEF Replacing
    <3>2. CASE k # op[c].key
      <4>1. Held(store', c, i, k) = Held(store, c, i, k)
        BY <1>1, <2>4, <3>2 DEF Held
      <4>2. writes[Held(store, c, i, k).data].key = k
        BY <2>4, <4>1, HeldType
      <4> QED
        BY <1>2, <3>2, <4>1, <4>2 DEF Replacing
    <3> QED
      BY <3>1, <3>2
  <2>5. CallAlone(store', writes', dead \cup op[c].base, now, c, o)
    BY <1>3, <1>5, <2>2, <2>4 DEF CallAlone
  <2> QED
    BY <2>1, <2>5
<1> QED
  BY <1>6, <1>7

LEMMA WriteLevelAlone ==
  ASSUME IInv, AloneInv, NEW c \in Clients, WriteLevel(c)
  PROVE  AloneInv'
<1> DEFINE e == NewEntry(op[c].val, op[c].ttl, now)
<1>1. /\ op[c].pc = "write" /\ op[c] \in Operation /\ op[c].key \in Keys
      /\ Level(c) \in Caches /\ op[c].ttl \in TTL /\ op[c].val \in DOMAIN writes
      /\ writes \in Seq(Write)
  BY LevelType
     DEF WriteLevel, IInv, CallsInv, CallInv, InRange, Operation, HistoryInv, HistoryType
<1>2. now' = now /\ NextLevel(c) /\ writes' = [writes EXCEPT ![op[c].val].at = now]
  BY DEF WriteLevel
<1>3. /\ late' = late
      /\ \A t \in Caches, j \in Keys :
            store'[t][j] = IF t = Level(c) /\ j = op[c].key /\ Level(c) \notin NoOps
                           THEN e ELSE store[t][j]
  BY <1>1, SetExecuted DEF WriteLevel
<1>4. /\ DOMAIN writes' = DOMAIN writes
      /\ \A v \in DOMAIN writes : /\ writes'[v].key = writes[v].key
                                  /\ writes'[v].big = writes[v].big
  <2>1. \A v \in DOMAIN writes : writes[v] \in Write
    BY <1>1
  <2> QED
    BY <1>1, <1>2, <2>1 DEF Write
<1>5. \A t \in NoOps, j \in Keys : store'[t][j] = store[t][j] /\ store[t][j] = NoEntry
  BY <1>3 DEF Caches, AloneInv, AllExecuted
<1>6. AllExecuted'
  BY <1>3, <1>4, <1>5, SetKeepsExecuted
<1>7. e.data = op[c].val
  BY DEF NewEntry
<1> HIDE DEF e
<1>8. \A t \in Caches, j \in Keys :
         store'[t][j] \in Entry =>
            store'[t][j] = IF t = Level(c) /\ j = op[c].key THEN e ELSE store[t][j]
  BY <1>1, <1>3, <1>5, ValueAssumption
<1>9. PICK o : op' = [op EXCEPT ![c] = o] /\ CallAlone(store', writes', dead', now, c, o)
  <2>1. op[c].pc \in {"write", "erase"} /\ NextLevel(c)
    BY <1>1, <1>2
  <2>2. e \in Entry => op[c].pc = "write" /\ e.data = op[c].val
    BY <1>1, <1>7
  <2>3. \A v \in DOMAIN writes : writes'[v].key = writes[v].key
    BY <1>4
  <2> QED
    BY <1>8, <2>1, <2>2, <2>3, ReplacingGoesOn
<1>10. CallAlone(store', writes', dead', now', c, o)
  BY <1>2, <1>9
<1> QED
  BY <1>6, <1>9, <1>10, AloneStep DEF IInv

LEMMA EraseLevelAlone ==
  ASSUME IInv, AloneInv, NEW c \in Clients, EraseLevel(c)
  PROVE  AloneInv'
<1>1. /\ op[c].pc = "erase" /\ op[c].key \in Keys /\ Level(c) \in Caches
      /\ NextLevel(c) /\ UNCHANGED <<now, writes>>
  BY LevelType DEF EraseLevel, IInv, Operation
<1>2. /\ late' = late
      /\ \A t \in Caches, j \in Keys :
            store'[t][j] = IF t = Level(c) /\ j = op[c].key THEN NoEntry ELSE store[t][j]
  BY <1>1, DeleteExecuted DEF EraseLevel
<1>3. AllExecuted'
  BY <1>1, <1>2 DEF AloneInv, AllExecuted, Caches
<1>4. NoEntry \notin Entry
  BY ValueAssumption
<1>5. PICK o : op' = [op EXCEPT ![c] = o] /\ CallAlone(store', writes, dead', now, c, o)
  BY <1>1, <1>2, <1>4, ReplacingGoesOn
<1>6. CallAlone(store', writes', dead', now', c, o)
  BY <1>1, <1>5
<1> QED
  BY <1>3, <1>5, <1>6, AloneStep DEF IInv

\* The environment takes entries away, and time.
LEMMA LossAlone ==
  ASSUME IInv, AloneInv, IInv', HistoryGrows, Shrinks, UNCHANGED <<late, writes, dead>>,
         \A s \in NoOps, k \in Keys : store'[s][k] = NoEntry,
         \A c \in Clients :
            \/ op'[c] = op[c]
            \/ op'[c].pc = "idle" /\ op'[c].ent = NoEntry
  PROVE  AloneInv'
<1>1. AllExecuted'
  BY DEF AloneInv, AllExecuted
<1>2. ASSUME NEW c \in Clients
      PROVE  CallAlone(store', writes', dead', now', c, op'[c])
  <2>1. /\ op[c] \in Operation /\ CallAlone(store, writes, dead, now, c, op[c])
        /\ op[c].pc \in {"write", "erase"} => op[c].base \subseteq DOMAIN writes
    BY DEF IInv, CallsInv, CallInv, AloneInv
  <2>2. CASE op'[c] = op[c]
    <3>1. CallAlone(store', writes', dead', now', c, op[c])
      BY <2>1, AloneStays
    <3> QED
      BY <2>2, <3>1
  <2>3. CASE op'[c].pc = "idle" /\ op'[c].ent = NoEntry
    <3>1. \A i \in DOMAIN Chain[c], k \in Keys :
             Held(store', c, i, k) \in Entry => Held(store', c, i, k) = Held(store, c, i, k)
      BY HeldType DEF Shrinks, Held
    <3> QED
      BY <2>1, <2>3, <3>1, ValueAssumption DEF CallAlone
  <2> QED
    BY <2>2, <2>3
<1> QED
  BY <1>1, <1>2 DEF AloneInv, Alone

LEMMA EnvironmentAlone ==
  ASSUME IInv, IInv', AloneInv,
         \/ \E s \in Caches, k \in Keys : Evict(s, k)
         \/ \E s \in KeyDBs, k \in Keys : Corrupt(s, k)
         \/ \E s \in BigCaches : Restart(s)
         \/ Tick
  PROVE  AloneInv'
<1>1. /\ store \in [Caches -> [Keys -> Entry \cup {NoEntry, Garbage}]] /\ now \in Nat
      /\ NoEntry \notin Entry /\ Garbage \notin Entry
      /\ \A s \in NoOps, k \in Keys : store[s][k] = NoEntry
  BY ValueAssumption DEF IInv, LevelsInv, LevelsType, HistoryInv, HistoryType,
                         AloneInv, AllExecuted
<1>2. UNCHANGED <<late, writes, dead>> /\ now' >= now
  BY <1>1 DEF Evict, Corrupt, Restart, Tick
<1>3. HistoryGrows
  <2>1. \A v \in DOMAIN writes : writes[v].at \in Nat
    <3>1. \A v \in DOMAIN writes : writes[v] \in Write
      BY DEF IInv, HistoryInv, HistoryType
    <3> QED
      BY <3>1 DEF Write
  <2> QED
    BY <1>2, <2>1 DEF HistoryGrows
<1>4. CASE \E s \in Caches, k \in Keys : Evict(s, k)
  <2>1. Shrinks /\ \A s \in NoOps, k \in Keys : store'[s][k] = NoEntry
    BY <1>1, <1>4 DEF Evict, Shrinks, Caches
  <2> QED
    BY <1>2, <1>3, <1>4, <2>1, LossAlone DEF Evict
<1>5. CASE \E s \in KeyDBs, k \in Keys : Corrupt(s, k)
  <2>1. Shrinks /\ \A s \in NoOps, k \in Keys : store'[s][k] = NoEntry
    BY <1>1, <1>5, ChainAssumption DEF Corrupt, Shrinks, Caches
  <2> QED
    BY <1>2, <1>3, <1>5, <2>1, LossAlone DEF Corrupt
<1>6. CASE \E s \in BigCaches : Restart(s)
  <2>1. Shrinks /\ \A s \in NoOps, k \in Keys : store'[s][k] = NoEntry
    BY <1>1, <1>6, ChainAssumption DEF Restart, Shrinks, Caches
  <2>2. \A c \in Clients :
           \/ op'[c] = op[c]
           \/ op'[c].pc = "idle" /\ op'[c].ent = NoEntry
    BY <1>6 DEF Restart, Call
  <2> QED
    BY <1>2, <1>3, <2>1, <2>2, LossAlone
<1>7. CASE Tick
  <2>1. Shrinks /\ \A s \in NoOps, k \in Keys : store'[s][k] = NoEntry
    BY <1>1, <1>7 DEF Tick, Shrinks
  <2> QED
    BY <1>2, <1>3, <1>7, <2>1, LossAlone DEF Tick
<1> QED
  BY <1>4, <1>5, <1>6, <1>7

LEMMA InitAlone == Alone /\ Init => AloneInv
<1> SUFFICES ASSUME Alone, Init
             PROVE  AloneInv
  OBVIOUS
<1>1. \A s \in Caches, k \in Keys : store[s][k] = NoEntry
  BY DEF Init
<1>2. AllExecuted
  BY <1>1 DEF Init, AllExecuted, Caches
<1>3. ASSUME NEW c \in Clients
      PROVE  CallAlone(store, writes, dead, now, c, op[c])
  <2>1. op[c].pc = "idle" /\ op[c].ent = NoEntry
    BY DEF Init, Call
  <2>2. \A i \in DOMAIN Chain[c] : Chain[c][i] \in Caches
    BY ChainAssumption
  <2> QED
    BY <1>1, <2>1, <2>2, ValueAssumption DEF CallAlone, Held
<1> QED
  BY <1>2, <1>3 DEF AloneInv

LEMMA NextAlone == IInv /\ AloneInv /\ [Next]_vars => AloneInv'
<1> SUFFICES ASSUME IInv, AloneInv, [Next]_vars
             PROVE  AloneInv'
  OBVIOUS
<1>1. IInv'
  BY NextInv
<1>2. ASSUME NEW c \in Clients, NEW k \in Keys, CallGet(c, k)
      PROVE  AloneInv'
  BY <1>2, CallGetAlone
<1>3. ASSUME NEW c \in Writers, NEW k \in Keys, NEW ttl \in TTLs, NEW big \in Sizes,
             CallSet(c, k, ttl, big)
      PROVE  AloneInv'
  BY <1>3, CallSetAlone, ValueAssumption
<1>4. ASSUME NEW c \in Writers, NEW k \in Keys, CallDelete(c, k)
      PROVE  AloneInv'
  BY <1>4, CallDeleteAlone, ValueAssumption
<1>5. ASSUME NEW c \in Clients, ClientStep(c)
      PROVE  AloneInv'
  BY <1>5, GetAlone, DropAlone, PromoteAlone, FillAlone, WriteLevelAlone, EraseLevelAlone
     DEF ClientStep
<1>6. ASSUME NEW m \in late, ExecuteLate(m)
      PROVE  AloneInv'
  BY <1>6 DEF AloneInv, AllExecuted
<1>7. CASE \/ \E s \in Caches, k \in Keys : Evict(s, k)
           \/ \E s \in KeyDBs, k \in Keys : Corrupt(s, k)
           \/ \E s \in BigCaches : Restart(s)
           \/ Tick
  BY <1>1, <1>7, EnvironmentAlone
<1>8. CASE UNCHANGED vars
  BY <1>8 DEF vars, AloneInv, Alone, AllExecuted
<1> QED
  BY <1>2, <1>3, <1>4, <1>5, <1>6, <1>7, <1>8 DEF Next

\* A client that is alone gets no value that a Set or a Delete had replaced when its
\* Get began, however many levels its MultiCache has, whichever of them drop, corrupt
\* or expire their copies, and wherever the process ends in a Set or a propagation.
THEOREM RegularWhenAlone == Alone /\ Spec => []Regular
<1>1. IInv /\ AloneInv => Regular
  <2> SUFFICES ASSUME IInv, AloneInv, NEW c \in Clients, op[c].ent # NoEntry
               PROVE  op[c].ent.data \notin op[c].base
    BY DEF Regular
  <2>1. op[c].ent \in Entry /\ CallAlone(store, writes, dead, now, c, op[c])
    BY DEF IInv, CallsInv, Operation, AloneInv
  <2> QED
    BY <2>1 DEF CallAlone
<1> QED
  BY <1>1, InitAlone, NextAlone, Invariance, PTL DEF Spec

\* A Get that deletes a key a step after it has read it deletes nothing that could
\* still be served, when no other client stores a new value in between.
THEOREM DropsOnlyUselessWhenAlone == Alone /\ Spec => DropsOnlyUseless
<1>1. IInv /\ AloneInv =>
         [\A c \in Clients : Drop(c) =>
            LET x == store[Level(c)][op[c].key]
            IN x \in Entry => IsExpired(x, now)]_vars
  <2> SUFFICES ASSUME IInv, AloneInv, NEW c \in Clients, Drop(c),
                      store[Level(c)][op[c].key] \in Entry
               PROVE  IsExpired(store[Level(c)][op[c].key], now)
    OBVIOUS
  <2>1. op[c].pc = "drop" /\ op[c].lvl \in DOMAIN Chain[c]
    BY LevelType DEF Drop, IInv
  <2>2. Missed(store, now, c, op[c])
    BY <2>1 DEF AloneInv, CallAlone
  <2> QED
    BY <2>1, <2>2 DEF Missed, Held, Level
<1> QED
  BY <1>1, InitAlone, NextAlone, Invariance, PTL DEF Spec, DropsOnlyUseless

-------------------------------------------------------------------------------
(* The levels of a client that is alone agree.                             *)

LEMMA AgreeStep ==
  ASSUME AgreeInv, AloneInv, NEW c \in Clients, Agreeing(store', c, op'[c])
  PROVE  AgreeInv'
<1>1. \A d \in Clients : d = c
  BY DEF AloneInv, Alone
<1> QED
  BY <1>1 DEF AgreeInv, OneSurvives

\* Levels that only lose entries go on agreeing, unless a Set or a propagation is new.
LEMMA AgreeStays ==
  ASSUME IInv, AgreeInv, Shrinks, NEW c \in Clients, NEW o \in Operation,
         op[c].pc = "write" => o.pc = "write" /\ o.key = op[c].key,
         o.pc \in {"promote", "fill"} =>
            op[c].pc \in {"promote", "fill"} /\ o.key = op[c].key /\ o.ent = op[c].ent
  PROVE  Agreeing(store', c, o)
<1>1. \A i \in DOMAIN Chain[c], k \in Keys :
         Held(store', c, i, k) \in Entry => Held(store', c, i, k) = Held(store, c, i, k)
  BY HeldType DEF Shrinks, Held
<1>2. o.key \in Keys /\ Agreeing(store, c, op[c])
  BY DEF Operation, AgreeInv
<1>3. ASSUME NEW k \in Keys, NEW i \in DOMAIN Chain[c], NEW j \in DOMAIN Chain[c],
             Held(store', c, i, k) \in Entry, Held(store', c, j, k) \in Entry,
             ~ (o.pc = "write" /\ o.key = k)
      PROVE  Held(store', c, i, k).data = Held(store', c, j, k).data
  BY <1>1, <1>2, <1>3 DEF Agreeing
<1>4. ASSUME o.pc \in {"promote", "fill"}, NEW i \in DOMAIN Chain[c],
             Held(store', c, i, o.key) \in Entry
      PROVE  Held(store', c, i, o.key).data = o.ent.data
  BY <1>1, <1>2, <1>4 DEF Agreeing
<1> QED
  BY <1>3, <1>4 DEF Agreeing

\* A step of client c after which its call is o is such a step.
LEMMA LossAgree ==
  ASSUME IInv, AloneInv, AgreeInv, Shrinks, NEW c \in Clients, NEW o \in Operation,
         op' = [op EXCEPT ![c] = o],
         op[c].pc = "write" => o.pc = "write" /\ o.key = op[c].key,
         o.pc \in {"promote", "fill"} =>
            op[c].pc \in {"promote", "fill"} /\ o.key = op[c].key /\ o.ent = op[c].ent
  PROVE  AgreeInv'
<1>1. op'[c] = o
  BY DEF IInv, CallsInv
<1>2. Agreeing(store', c, o)
  BY AgreeStays
<1> QED
  BY <1>1, <1>2, AgreeStep

\* What a new call is.
LEMMA CallFields ==
  ASSUME NEW c, NEW k, NEW pc, NEW val, NEW ttl, NEW base
  PROVE  /\ Call(c, k, pc, val, ttl, base).pc \in {"idle", pc}
         /\ Call(c, k, pc, val, ttl, base).key = k
  BY DEF Call

LEMMA CallsAgree ==
  ASSUME IInv, IInv', AloneInv, AgreeInv, NEW c \in Clients, NEW k \in Keys,
         \/ CallGet(c, k) \/ CallDelete(c, k)
         \/ \E ttl \in TTLs, big \in Sizes : CallSet(c, k, ttl, big)
  PROVE  AgreeInv'
<1>1. op[c].pc = "idle" /\ UNCHANGED store /\ op'[c] \in Operation
  BY DEF CallGet, CallDelete, CallSet, IInv, CallsInv
<1>2. op'[c].pc \notin {"promote", "fill"}
  <2>1. \E pc \in {"probe", "write", "erase"} : \E val, ttl, base :
           op' = [op EXCEPT ![c] = Call(c, k, pc, val, ttl, base)]
    BY DEF CallGet, CallDelete, CallSet
  <2> QED
    BY <2>1, CallFields DEF IInv, CallsInv
<1>3. Shrinks
  BY <1>1 DEF Shrinks
<1> HIDE DEF IInv
<1>4. Agreeing(store', c, op'[c])
  <2>1. PICK o \in Operation : o = op'[c]
    BY <1>1
  <2>2. Agreeing(store', c, o)
    BY <1>1, <1>2, <1>3, <2>1, AgreeStays
  <2> QED
    BY <2>1, <2>2
<1> QED
  BY <1>4, AgreeStep

\* What Miss makes of the call.
LEMMA MissFields ==
  ASSUME IInv, NEW c \in Clients, op[c].pc # "idle", Miss(c)
  PROVE  \E o \in Operation : op' = [op EXCEPT ![c] = o] /\ o.pc \in {"probe", "idle"}
<1>1. PICK o \in Operation : op' = [op EXCEPT ![c] = o]
  BY MissCall DEF IInv
<1>2. op'[c].pc \in {"probe", "idle"} /\ op'[c] = o
  BY <1>1 DEF Miss, IInv, CallsInv, Operation
<1> QED
  BY <1>1, <1>2

LEMMA GetAgrees ==
  ASSUME IInv, AloneInv, AgreeInv, NEW c \in Clients,
         BigCacheGet(c) \/ KeyDBGet(c) \/ NoOpGet(c)
  PROVE  AgreeInv'
<1> DEFINE x == store[Level(c)][op[c].key]
           drop == [op[c] EXCEPT !.pc = "drop"]
           pc == IF op[c].lvl > 1 /\ EnablePropagation THEN "promote" ELSE "idle"
           hit == [op[c] EXCEPT !.pc = pc, !.lvl = 1, !.hit = op[c].lvl, !.ent = x]
<1>1. /\ op[c].pc = "probe" /\ UNCHANGED store
      /\ op[c] \in Operation /\ op[c].key \in Keys
      /\ x = Held(store, c, op[c].lvl, op[c].key)
      /\ op[c].lvl \in DOMAIN Chain[c]
      /\ Agreeing(store, c, op[c])
  BY LevelType DEF BigCacheGet, KeyDBGet, NoOpGet, IInv, Operation, AgreeInv, Held, Level
<1>2. Shrinks
  BY <1>1 DEF Shrinks
<1>3. \/ Miss(c)
      \/ op' = [op EXCEPT ![c] = drop]
      \/ x \in Entry /\ op' = [op EXCEPT ![c] = hit]
  BY DEF BigCacheGet, KeyDBGet, NoOpGet, Answer, Hit
<1>4. CASE Miss(c)
  <2>1. PICK o \in Operation : op' = [op EXCEPT ![c] = o] /\ o.pc \in {"probe", "idle"}
    BY <1>1, <1>4, MissFields
  <2> QED
    BY <1>1, <1>2, <2>1, LossAgree
<1>5. CASE op' = [op EXCEPT ![c] = drop]
  <2>1. drop \in Operation /\ drop.pc = "drop"
    BY <1>1 DEF Operation
  <2> HIDE DEF drop
  <2> QED
    BY <1>1, <1>2, <1>5, <2>1, LossAgree
<1>6. CASE x \in Entry /\ op' = [op EXCEPT ![c] = hit]
  <2>1. hit.pc = pc /\ pc # "write" /\ hit.key = op[c].key /\ hit.ent = x
    BY <1>1 DEF Operation
  <2>2. op'[c] = hit
    BY <1>6 DEF IInv, CallsInv
  <2> HIDE DEF hit, pc, x
  <2>3. Agreeing(store, c, hit)
    BY <1>1, <1>6, <2>1 DEF Agreeing
  <2>4. Agreeing(store', c, op'[c])
    BY <1>1, <2>2, <2>3
  <2> QED
    BY <2>4, AgreeStep
<1> QED
  BY <1>3, <1>4, <1>5, <1>6

LEMMA DropAgrees ==
  ASSUME IInv, AloneInv, AgreeInv, NEW c \in Clients, Drop(c)
  PROVE  AgreeInv'
<1>1. op[c].pc = "drop" /\ op[c].key \in Keys /\ Level(c) \in Caches
  BY LevelType DEF Drop, IInv, Operation
<1>2. \A t \in Caches, j \in Keys :
         store'[t][j] = IF t = Level(c) /\ j = op[c].key THEN NoEntry ELSE store[t][j]
  BY <1>1, DeleteExecuted DEF Drop
<1>3. Shrinks
  BY <1>2, ValueAssumption DEF Shrinks
<1>4. PICK o \in Operation : op' = [op EXCEPT ![c] = o] /\ o.pc \in {"probe", "idle"}
  BY <1>1, MissFields DEF Drop
<1> QED
  BY <1>1, <1>3, <1>4, LossAgree

LEMMA PromoteAgrees ==
  ASSUME IInv, IInv', AloneInv, AgreeInv, NEW c \in Clients, Promote(c)
  PROVE  AgreeInv'
<1> DEFINE e == op[c].ent
           rem == RemainingTTL(e, now)
           stop == [op[c] EXCEPT !.pc = "idle"]
           go == [op[c] EXCEPT !.pc = "fill", !.val = e.data, !.ttl = rem, !.since = now]
<1>1. op[c].pc = "promote" /\ op[c] \in Operation /\ UNCHANGED store
  BY DEF Promote, IInv, CallsInv
<1>2. PICK o \in {stop, go} : op' = [op EXCEPT ![c] = o]
  BY DEF Promote
<1>3. o.pc \in {"idle", "fill"} /\ o.key = op[c].key /\ o.ent = op[c].ent
  BY <1>1, <1>2 DEF Operation
<1>4. o \in Operation
  BY <1>2 DEF IInv, CallsInv
<1>5. Shrinks
  BY <1>1 DEF Shrinks
<1> QED
  BY <1>1, <1>2, <1>3, <1>4, <1>5, LossAgree

LEMMA FillAgrees ==
  ASSUME IInv, AloneInv, AgreeInv, NEW c \in Clients, Fill(c)
  PROVE  AgreeInv'
<1> DEFINE more == [op[c] EXCEPT !.lvl = @ + 1]
           done == [op[c] EXCEPT !.pc = "idle", !.lvl = 1, !.val = 0, !.ttl = NoTTL, !.since = 0]
           e == NewEntry(op[c].val, op[c].ttl, now)
<1>1. /\ op[c].pc = "fill" /\ op[c] \in Operation /\ op[c].key \in Keys /\ Level(c) \in Caches
      /\ op[c].ttl \in TTL /\ CallInv(writes, now, c, op[c])
      /\ Agreeing(store, c, op[c])
  BY LevelType DEF Fill, IInv, CallsInv, AgreeInv, Operation
<1>2. op[c].val \in DOMAIN writes /\ op[c].val = op[c].ent.data
  BY <1>1 DEF CallInv, InRange, Computed
<1>3. \A t \in Caches, j \in Keys :
         store'[t][j] = IF t = Level(c) /\ j = op[c].key /\ Level(c) \notin NoOps
                        THEN e ELSE store[t][j]
  BY <1>1, <1>2, SetExecuted DEF Fill
<1>4. PICK o \in {more, done} : op' = [op EXCEPT ![c] = o]
  BY DEF Fill
<1>5. /\ o.pc \in {"idle", "fill"} /\ o.ent = op[c].ent /\ o.key = op[c].key
      /\ op'[c] = o
  BY <1>1, <1>4 DEF Operation, IInv, CallsInv
<1>6. e.data = op[c].ent.data
  BY <1>2 DEF NewEntry
<1> HIDE DEF e, more, done
<1>7. \A i \in DOMAIN Chain[c] : Chain[c][i] \in Caches
  BY LevelType DEF IInv
<1>8. \A i \in DOMAIN Chain[c] :
         Held(store', c, i, op[c].key) \in Entry =>
            Held(store', c, i, op[c].key).data = op[c].ent.data
  BY <1>1, <1>3, <1>6, <1>7 DEF Held, Agreeing
<1>9. \A k \in Keys : k # op[c].key =>
         \A i \in DOMAIN Chain[c] : Held(store', c, i, k) = Held(store, c, i, k)
  BY <1>1, <1>3, <1>7 DEF Held
<1>10. Agreeing(store', c, o)
  <2>1. ASSUME NEW k \in Keys, NEW i \in DOMAIN Chain[c], NEW j \in DOMAIN Chain[c],
               Held(store', c, i, k) \in Entry, Held(store', c, j, k) \in Entry
        PROVE  Held(store', c, i, k).data = Held(store', c, j, k).data
    <3>1. CASE k = op[c].key
      BY <1>8, <2>1, <3>1
    <3>2. CASE k # op[c].key
      BY <1>1, <1>9, <2>1, <3>2 DEF Agreeing
    <3> QED
      BY <3>1, <3>2
  <2> QED
    BY <1>5, <1>8, <2>1 DEF Agreeing
<1> QED
  BY <1>5, <1>10, AgreeStep

\* A Set that leaves its last level has put its value into every level.
LEMMA WriteLevelAgrees ==
  ASSUME IInv, AloneInv, AgreeInv, NEW c \in Clients, WriteLevel(c)
  PROVE  AgreeInv'
<1> DEFINE e == NewEntry(op[c].val, op[c].ttl, now)
<1>1. /\ op[c].pc = "write" /\ op[c] \in Operation /\ op[c].key \in Keys
      /\ Level(c) \in Caches /\ op[c].ttl \in TTL /\ op[c].val \in DOMAIN writes
      /\ op[c].lvl \in 1 .. Len(Chain[c]) /\ Len(Chain[c]) \in Nat
      /\ DOMAIN Chain[c] = 1 .. Len(Chain[c])
      /\ \A i \in DOMAIN Chain[c] : Chain[c][i] \in Caches
      /\ Agreeing(store, c, op[c]) /\ Replacing(store, writes, dead, c, op[c])
  BY LevelType
     DEF WriteLevel, IInv, CallsInv, CallInv, InRange, Operation, AgreeInv, AloneInv, CallAlone
<1>2. \A t \in Caches, j \in Keys :
         store'[t][j] = IF t = Level(c) /\ j = op[c].key /\ Level(c) \notin NoOps
                        THEN e ELSE store[t][j]
  BY <1>1, SetExecuted DEF WriteLevel
<1>3. e.data = op[c].val
  BY DEF NewEntry
<1>4. \A j \in Keys : Level(c) \in NoOps => store[Level(c)][j] \notin Entry
  BY ValueAssumption DEF AloneInv, AllExecuted
<1> HIDE DEF e
<1>5. \A k \in Keys : k # op[c].key =>
         \A i \in DOMAIN Chain[c] : Held(store', c, i, k) = Held(store, c, i, k)
  BY <1>1, <1>2 DEF Held
<1>6. CASE op[c].lvl < Len(Chain[c])
  <2>1. op'[c].pc = "write" /\ op'[c].key = op[c].key
    BY <1>1, <1>6 DEF WriteLevel, NextLevel, IInv, CallsInv, Operation
  <2>2. Agreeing(store', c, op'[c])
    BY <1>1, <1>5, <2>1 DEF Agreeing
  <2> QED
    BY <2>2, AgreeStep
<1>7. CASE ~ (op[c].lvl < Len(Chain[c]))
  <2>1. op' = [op EXCEPT ![c] = Call(c, op[c].key, "idle", 0, NoTTL, {})]
    BY <1>7 DEF WriteLevel, NextLevel
  <2>2. op'[c].pc = "idle"
    BY <2>1, CallFields DEF IInv, CallsInv
  <2>3. ASSUME NEW i \in DOMAIN Chain[c], Held(store', c, i, op[c].key) \in Entry
        PROVE  Held(store', c, i, op[c].key).data = op[c].val
    <3>1. CASE Chain[c][i] = Level(c)
      BY <1>1, <1>2, <1>3, <1>4, <2>3, <3>1 DEF Held
    <3>2. CASE Chain[c][i] # Level(c)
      <4>1. i < op[c].lvl
        BY <1>1, <1>7, <3>2 DEF Level
      <4>2. Held(store', c, i, op[c].key) = Held(store, c, i, op[c].key)
        BY <1>1, <1>2, <3>2 DEF Held
      <4> QED
        BY <1>1, <2>3, <4>1, <4>2 DEF Replacing
    <3> QED
      BY <3>1, <3>2
  <2>4. ASSUME NEW k \in Keys, NEW i \in DOMAIN Chain[c], NEW j \in DOMAIN Chain[c],
               Held(store', c, i, k) \in Entry, Held(store', c, j, k) \in Entry
        PROVE  Held(store', c, i, k).data = Held(store', c, j, k).data
    <3>1. CASE k = op[c].key
      BY <2>3, <2>4, <3>1
    <3>2. CASE k # op[c].key
      BY <1>1, <1>5, <2>4, <3>2 DEF Agreeing
    <3> QED
      BY <3>1, <3>2
  <2>5. Agreeing(store', c, op'[c])
    BY <2>2, <2>4 DEF Agreeing
  <2> QED
    BY <2>5, AgreeStep
<1> QED
  BY <1>6, <1>7

LEMMA EraseLevelAgrees ==
  ASSUME IInv, IInv', AloneInv, AgreeInv, NEW c \in Clients, EraseLevel(c)
  PROVE  AgreeInv'
<1>1. /\ op[c].pc = "erase" /\ op[c] \in Operation /\ op[c].key \in Keys
      /\ Level(c) \in Caches /\ NextLevel(c)
  BY LevelType DEF EraseLevel, IInv, Operation
<1>2. \A t \in Caches, j \in Keys :
         store'[t][j] = IF t = Level(c) /\ j = op[c].key THEN NoEntry ELSE store[t][j]
  BY <1>1, DeleteExecuted DEF EraseLevel
<1>3. Shrinks
  BY <1>2, ValueAssumption DEF Shrinks
<1>4. op'[c] \in Operation /\ op'[c].pc \in {"erase", "idle"}
  BY <1>1, CallFields DEF NextLevel, IInv, CallsInv, Operation
<1>5. PICK o \in Operation : o = op'[c]
  BY <1>4
<1>6. Agreeing(store', c, o)
  BY <1>1, <1>3, <1>4, <1>5, AgreeStays
<1> QED
  BY <1>5, <1>6, AgreeStep

\* A Set that the end of the process cuts short leaves one level with data.
LEMMA RestartAgrees ==
  ASSUME IInv, IInv', AloneInv, AgreeInv, NEW s \in BigCaches, Restart(s), NEW c \in Clients
  PROVE  Agreeing(store', c, op'[c])
<1>1. /\ store \in [Caches -> [Keys -> Entry \cup {NoEntry, Garbage}]]
      /\ NoEntry \notin Entry /\ s \in Caches
      /\ \A t \in NoOps, k \in Keys : store[t][k] = NoEntry
      /\ op'[c] \in Operation /\ op[c] \in Operation
      /\ \A i \in DOMAIN Chain[c] : Chain[c][i] \in Caches
  BY ValueAssumption, LevelType
     DEF IInv, LevelsInv, LevelsType, AloneInv, AllExecuted, Caches, CallsInv
<1>2. \A t \in Caches, k \in Keys : store'[t][k] = IF t = s THEN NoEntry ELSE store[t][k]
  BY <1>1 DEF Restart
<1>3. Shrinks
  BY <1>1, <1>2 DEF Shrinks
<1>4. PICK o \in Operation : o = op'[c]
  BY <1>1
<1>5. CASE \E i \in DOMAIN Chain[c] : Chain[c][i] = s
  <2>1. PICK l \in DOMAIN Chain[c] : Chain[c][l] = s
    BY <1>5
  <2>2. o.pc = "idle"
    BY <1>4, <1>5, CallFields DEF Restart
  <2>3. ASSUME NEW k \in Keys, NEW i \in DOMAIN Chain[c], Held(store', c, i, k) \in Entry
        PROVE  Chain[c][i] \notin {Chain[c][l]} \cup NoOps
    BY <1>1, <1>2, <2>1, <2>3 DEF Held
  <2>4. \A i, j \in DOMAIN Chain[c] :
           {Chain[c][i], Chain[c][j]} \cap ({Chain[c][l]} \cup NoOps) = {} => i = j
    BY <2>1 DEF AgreeInv, OneSurvives
  <2>5. ASSUME NEW k \in Keys, NEW i \in DOMAIN Chain[c], NEW j \in DOMAIN Chain[c],
               Held(store', c, i, k) \in Entry, Held(store', c, j, k) \in Entry
        PROVE  i = j
    BY <2>3, <2>4, <2>5
  <2> QED
    BY <1>4, <2>2, <2>5 DEF Agreeing
<1>6. CASE ~ \E i \in DOMAIN Chain[c] : Chain[c][i] = s
  <2>1. o = op[c]
    BY <1>4, <1>6 DEF Restart
  <2>2. Agreeing(store', c, o)
    BY <1>3, <2>1, AgreeStays
  <2> QED
    BY <1>4, <2>2
<1> QED
  BY <1>5, <1>6

LEMMA LossAgrees ==
  ASSUME IInv, IInv', AloneInv, AgreeInv, Shrinks, UNCHANGED op
  PROVE  AgreeInv'
<1>1. ASSUME NEW c \in Clients
      PROVE  Agreeing(store', c, op'[c])
  <2>1. op[c] \in Operation /\ op'[c] = op[c]
    BY DEF IInv, CallsInv
  <2>2. Agreeing(store', c, op[c])
    BY <2>1, AgreeStays
  <2> QED
    BY <2>1, <2>2
<1> QED
  BY <1>1 DEF AgreeInv, OneSurvives

LEMMA EnvironmentAgrees ==
  ASSUME IInv, IInv', AloneInv, AgreeInv,
         \/ \E s \in Caches, k \in Keys : Evict(s, k)
         \/ \E s \in KeyDBs, k \in Keys : Corrupt(s, k)
         \/ \E s \in BigCaches : Restart(s)
         \/ Tick
         \/ UNCHANGED vars
  PROVE  AgreeInv'
<1>1. /\ store \in [Caches -> [Keys -> Entry \cup {NoEntry, Garbage}]]
      /\ NoEntry \notin Entry /\ Garbage \notin Entry
  BY ValueAssumption DEF IInv, LevelsInv, LevelsType
<1>2. CASE \E s \in BigCaches : Restart(s)
  BY <1>2, RestartAgrees DEF AgreeInv, OneSurvives
<1>3. CASE \E s \in Caches, k \in Keys : Evict(s, k)
  <2>1. Shrinks
    BY <1>1, <1>3 DEF Evict, Shrinks
  <2> QED
    BY <1>3, <2>1, LossAgrees DEF Evict
<1>4. CASE \E s \in KeyDBs, k \in Keys : Corrupt(s, k)
  <2>1. Shrinks
    BY <1>1, <1>4 DEF Corrupt, Shrinks, Caches
  <2> QED
    BY <1>4, <2>1, LossAgrees DEF Corrupt
<1>5. CASE Tick \/ UNCHANGED vars
  <2>1. Shrinks /\ UNCHANGED op
    BY <1>5 DEF Tick, vars, Shrinks
  <2> QED
    BY <2>1, LossAgrees
<1> QED
  BY <1>2, <1>3, <1>4, <1>5

LEMMA InitAgree == OneSurvives /\ Init => AgreeInv
<1> SUFFICES ASSUME OneSurvives, Init, NEW c \in Clients
             PROVE  Agreeing(store, c, op[c])
  BY DEF AgreeInv
<1>1. op[c].pc = "idle"
  BY DEF Init, Call
<1>2. \A i \in DOMAIN Chain[c], k \in Keys : Held(store, c, i, k) \notin Entry
  <2>1. \A i \in DOMAIN Chain[c] : Chain[c][i] \in Caches
    BY ChainAssumption
  <2> QED
    BY <2>1, ValueAssumption DEF Init, Held
<1> QED
  BY <1>1, <1>2 DEF Agreeing

LEMMA NextAgree == IInv /\ AloneInv /\ AgreeInv /\ [Next]_vars => AgreeInv'
<1> SUFFICES ASSUME IInv, AloneInv, AgreeInv, [Next]_vars
             PROVE  AgreeInv'
  OBVIOUS
<1>1. IInv' /\ Writers \subseteq Clients
  BY NextInv, ValueAssumption
<1>2. ASSUME NEW c \in Clients, NEW k \in Keys,
             \/ CallGet(c, k) \/ CallDelete(c, k)
             \/ \E ttl \in TTLs, big \in Sizes : CallSet(c, k, ttl, big)
      PROVE  AgreeInv'
  BY <1>1, <1>2, CallsAgree
<1>3. ASSUME NEW c \in Clients, ClientStep(c)
      PROVE  AgreeInv'
  BY <1>1, <1>3, GetAgrees, DropAgrees, PromoteAgrees, FillAgrees, WriteLevelAgrees,
     EraseLevelAgrees DEF ClientStep
<1>4. ASSUME NEW m \in late, ExecuteLate(m)
      PROVE  AgreeInv'
  BY <1>4 DEF AloneInv, AllExecuted
<1>5. CASE \/ \E s \in Caches, k \in Keys : Evict(s, k)
           \/ \E s \in KeyDBs, k \in Keys : Corrupt(s, k)
           \/ \E s \in BigCaches : Restart(s)
           \/ Tick
           \/ UNCHANGED vars
  BY <1>1, <1>5, EnvironmentAgrees
<1> QED
  BY <1>1, <1>2, <1>3, <1>4, <1>5 DEF Next

\* To a client that is alone it does not matter which level answers: between its
\* calls all levels that hold a key hold the same value, wherever a Set, a Delete or
\* a propagation before was cut short.
THEOREM LevelsAgreeWhenAlone == Alone /\ OneSurvives /\ Spec => []LevelsAgree
<1>1. IInv /\ AloneInv /\ AgreeInv => LevelsAgree
  <2> SUFFICES ASSUME IInv, AloneInv, AgreeInv, NEW c \in Clients, op[c].pc = "idle",
                      NEW k \in Keys, NEW i \in DOMAIN Chain[c], NEW j \in DOMAIN Chain[c],
                      NEW e \in EntriesAt(Chain[c][i], k), NEW f \in EntriesAt(Chain[c][j], k)
               PROVE  e.data = f.data
    BY DEF LevelsAgree
  <2>1. /\ e = Held(store, c, i, k) /\ e \in Entry
        /\ f = Held(store, c, j, k) /\ f \in Entry
    BY DEF EntriesAt, Held, AloneInv, AllExecuted
  <2> QED
    BY <2>1 DEF AgreeInv, Agreeing
<1> QED
  BY <1>1, InitAlone, NextAlone, InitAgree, NextAgree, Invariance, PTL DEF Spec

-------------------------------------------------------------------------------
(* The levels of a client that is alone, and uses one key, are a register. *)

\* Before its Set reaches them, the levels hold one value that is not its own.
OldAgree(st, o) ==
    \A i, j \in DOMAIN Chain[client] :
        LET e == Held(st, client, i, key)
            f == Held(st, client, j, key)
        IN /\ e \in Entry /\ e.data # o.val
           /\ f \in Entry /\ f.data # o.val
           => e.data = f.data

\* The call o of the client, when the levels hold st and there were n Sets.
RegCall(st, n, o) ==
    /\ o.pc \in {"probe", "drop"} => o.ent = NoEntry
    /\ o.pc = "write" => /\ o.val = n
                         /\ o.base = 1 .. n - 1
                         /\ OldAgree(st, o)
    /\ o.pc = "erase" => o.base = 1 .. n

RegInv == OneKey /\ RegCall(store, Len(writes), op[client])

\* The client may yet be answered v; what Answerable is without late commands.
Answers(st, t, o, v) ==
    \/ o.pc = "fill" /\ v = o.val
    \/ /\ o.pc = "write" => v # o.val
       /\ \E e \in Entry :
             /\ e.data = v
             /\ ~ IsExpired(e, t)
             /\ \/ o.pc = "promote" /\ e = o.ent
                \/ \E i \in DOMAIN Chain[client] : e = Held(st, client, i, key)

RInv == IInv /\ AloneInv /\ AgreeInv /\ RegInv

\* All that is known of the client, its key and its levels.
LEMMA TheClient ==
  ASSUME RInv
  PROVE  /\ client \in Clients /\ (\A c \in Clients : c = client)
         /\ key \in Keys /\ (\A k \in Keys : k = key)
         /\ op[client] \in Operation /\ op[client].key = key
         /\ op \in [Clients -> Operation]
         /\ CallInv(writes, now, client, op[client])
         /\ CallAlone(store, writes, dead, now, client, op[client])
         /\ Agreeing(store, client, op[client])
         /\ RegCall(store, Len(writes), op[client])
         /\ NoEntry \notin Entry /\ Garbage \notin Entry
<1>1. client \in Clients /\ key \in Keys
  BY RegisterAssumption
<1>2. (\A c \in Clients : c = client) /\ (\A k \in Keys : k = key)
  BY <1>1 DEF RInv, AloneInv, Alone, RegInv, OneKey
<1>3. op \in [Clients -> Operation] /\ op[client].key = key
  BY <1>1, <1>2 DEF RInv, IInv, CallsInv, Operation
<1> QED
  BY <1>1, <1>2, <1>3, ValueAssumption
     DEF RInv, IInv, CallsInv, AloneInv, AgreeInv, RegInv

LEMMA TheLevels ==
  ASSUME RInv
  PROVE  /\ Len(Chain[client]) \in Nat /\ DOMAIN Chain[client] = 1 .. Len(Chain[client])
         /\ 1 \in DOMAIN Chain[client] /\ Len(Chain[client]) \in DOMAIN Chain[client]
         /\ op[client].lvl \in Nat
         /\ op[client].pc # "idle" => op[client].lvl \in DOMAIN Chain[client]
                                      /\ Level(client) \in Caches
         /\ \A i \in DOMAIN Chain[client] :
               /\ Chain[client][i] \in Caches
               /\ Held(store, client, i, key) \in Entry =>
                     Held(store, client, i, key).data \in DOMAIN writes
<1>1. client \in Clients /\ key \in Keys /\ op[client] \in Operation
  BY TheClient
<1>2. Chain[client] \in Seq(Caches) /\ Chain[client] # <<>>
  BY <1>1, ChainAssumption DEF RInv, RegInv, OneKey
<1> QED
  BY <1>1, <1>2, LevelType, HeldType DEF RInv, IInv, Operation

LEMMA TheSets ==
  ASSUME RInv
  PROVE  /\ writes \in Seq(Write) /\ Len(writes) \in Nat
         /\ DOMAIN writes = 1 .. Len(writes)
         /\ dead \subseteq 1 .. Len(writes)
         /\ now \in Nat
  BY DEF RInv, IInv, HistoryInv, HistoryType

\* Levels that only lose entries keep what is known of a call that goes on.
LEMMA RegShrinks ==
  ASSUME RInv, Shrinks, NEW o,
         o.pc \in {"probe", "drop"} => o.ent = NoEntry,
         o.pc = "write" => op[client].pc = "write" /\ o.val = op[client].val
                           /\ o.base = op[client].base,
         o.pc = "erase" => op[client].pc = "erase" /\ o.base = op[client].base
  PROVE  RegCall(store', Len(writes), o)
<1>1. \A i \in DOMAIN Chain[client] :
         Held(store', client, i, key) \in Entry =>
            Held(store', client, i, key) = Held(store, client, i, key)
  BY TheClient, TheLevels DEF Shrinks, Held
<1>2. RegCall(store, Len(writes), op[client])
  BY TheClient
<1>3. o.pc = "write" => OldAgree(store', o)
  BY <1>1, <1>2 DEF RegCall, OldAgree
<1> QED
  BY <1>2, <1>3 DEF RegCall

\* A step of the client after which its call is o.
LEMMA RegStep ==
  ASSUME RInv, NEW o, op' = [op EXCEPT ![client] = o], RegCall(store', Len(writes'), o)
  PROVE  RegInv'
<1>1. op'[client] = o
  BY TheClient
<1> QED
  BY <1>1 DEF RInv, RegInv, OneKey

LEMMA RegCalls ==
  ASSUME RInv, NEW k \in Keys,
         \/ CallGet(client, k) \/ CallDelete(client, k)
         \/ \E ttl \in TTLs, big \in Sizes : CallSet(client, k, ttl, big)
  PROVE  RegInv'
<1>1. /\ op[client].pc = "idle" /\ store' = store /\ client \in Clients /\ k = key
      /\ Chain[client] # <<>>
  BY TheClient DEF CallGet, CallDelete, CallSet, RInv, RegInv, OneKey
<1>2. Settled(k) = 1 .. Len(writes)
  <2>1. \A v \in DOMAIN writes : writes[v].key = k
    <3>1. \A v \in DOMAIN writes : writes[v] \in Write
      BY TheSets
    <3> QED
      BY <3>1, TheClient, <1>1 DEF Write
  <2>2. \A d \in Clients : op[d].pc # "write"
    BY <1>1, TheClient
  <2> QED
    BY <2>1, <2>2, TheSets DEF Settled
<1>3. CASE CallGet(client, k)
  <2>1. op' = [op EXCEPT ![client] = Call(client, k, "probe", 0, NoTTL, dead)]
        /\ writes' = writes
    BY <1>3 DEF CallGet
  <2>2. RegCall(store', Len(writes'), Call(client, k, "probe", 0, NoTTL, dead))
    BY <1>1 DEF Call, RegCall
  <2> QED
    BY <2>1, <2>2, RegStep
<1>4. CASE CallDelete(client, k)
  <2>1. op' = [op EXCEPT ![client] = Call(client, k, "erase", 0, NoTTL, Settled(k))]
        /\ writes' = writes
    BY <1>4 DEF CallDelete
  <2>2. RegCall(store', Len(writes'), Call(client, k, "erase", 0, NoTTL, Settled(k)))
    BY <1>1, <1>2, <2>1 DEF Call, RegCall
  <2> QED
    BY <2>1, <2>2, RegStep
<1>5. ASSUME NEW ttl \in TTLs, NEW big \in Sizes, CallSet(client, k, ttl, big)
      PROVE  RegInv'
  <2> DEFINE n == Len(writes) + 1
             o == Call(client, k, "write", n, ttl, Settled(k))
  <2>1. op' = [op EXCEPT ![client] = o] /\ Len(writes') = n /\ n \in Nat
    BY <1>5, TheSets DEF CallSet
  <2>2. o.pc = "write" /\ o.val = n /\ o.base = 1 .. n - 1
    BY <1>1, <1>2, TheSets DEF Call
  <2> HIDE DEF n, o
  <2>3. \A i, j \in DOMAIN Chain[client] :
           Held(store, client, i, key) \in Entry /\ Held(store, client, j, key) \in Entry =>
              Held(store, client, i, key).data = Held(store, client, j, key).data
    BY <1>1, TheClient DEF Agreeing
  <2>4. OldAgree(store', o)
    BY <1>1, <2>3 DEF OldAgree
  <2>5. RegCall(store', n, o)
    BY <2>2, <2>4 DEF RegCall
  <2> QED
    BY <2>1, <2>5, RegStep
<1> QED
  BY <1>3, <1>4, <1>5

LEMMA RegGet ==
  ASSUME RInv, BigCacheGet(client) \/ KeyDBGet(client) \/ NoOpGet(client)
  PROVE  RegInv'
<1>1. op[client].pc = "probe" /\ UNCHANGED <<store, writes>> /\ op[client] \in Operation
      /\ op[client].ent = NoEntry /\ Shrinks
  BY TheClient DEF BigCacheGet, KeyDBGet, NoOpGet, RegCall, Shrinks
<1>2. \/ Miss(client)
      \/ op' = [op EXCEPT ![client].pc = "drop"]
      \/ Hit(client, store[Level(client)][op[client].key])
  BY DEF BigCacheGet, KeyDBGet, NoOpGet, Answer
<1>3. /\ op'[client].pc \in {"probe", "drop", "idle", "promote"}
      /\ op'[client].pc \in {"probe", "drop"} => op'[client].ent = NoEntry
  <2>1. op \in [Clients -> Operation] /\ client \in Clients
    BY TheClient
  <2>2. CASE Miss(client)
    BY <1>1, <2>1, <2>2 DEF Miss, Operation
  <2>3. CASE op' = [op EXCEPT ![client].pc = "drop"]
    BY <1>1, <2>1, <2>3 DEF Operation
  <2>4. CASE Hit(client, store[Level(client)][op[client].key])
    BY <1>1, <2>1, <2>4 DEF Hit, Operation
  <2> QED
    BY <1>2, <2>2, <2>3, <2>4
<1>4. RegCall(store', Len(writes), op'[client])
  BY <1>1, <1>3, RegShrinks
<1> QED
  BY <1>1, <1>4 DEF RInv, RegInv, OneKey

LEMMA RegDrop ==
  ASSUME RInv, Drop(client)
  PROVE  RegInv'
<1>1. /\ op[client].pc = "drop" /\ op[client] \in Operation /\ op[client].key \in Keys
      /\ Level(client) \in Caches /\ op[client].ent = NoEntry /\ writes' = writes
  BY TheClient, TheLevels DEF Drop, RegCall
<1>2. \A t \in Caches, j \in Keys :
         store'[t][j] = IF t = Level(client) /\ j = op[client].key THEN NoEntry ELSE store[t][j]
  BY <1>1, DeleteExecuted, TheClient DEF Drop, RInv
<1>3. Shrinks
  BY <1>2, ValueAssumption DEF Shrinks
<1>4. op'[client].pc \in {"probe", "idle"} /\ op'[client].ent = NoEntry
  BY <1>1, TheClient DEF Drop, Miss, Operation
<1>5. RegCall(store', Len(writes), op'[client])
  BY <1>3, <1>4, RegShrinks
<1> QED
  BY <1>1, <1>5 DEF RInv, RegInv, OneKey

LEMMA RegPropagation ==
  ASSUME RInv, Promote(client) \/ Fill(client)
  PROVE  RegInv'
<1>1. op[client] \in Operation /\ op \in [Clients -> Operation] /\ client \in Clients
      /\ op[client].pc \in {"promote", "fill"}
  BY TheClient DEF Promote, Fill
<1>2. CASE Promote(client)
  <2> DEFINE e == op[client].ent
             rem == RemainingTTL(e, now)
             stop == [op[client] EXCEPT !.pc = "idle"]
             go == [op[client] EXCEPT !.pc = "fill", !.val = e.data, !.ttl = rem, !.since = now]
  <2>1. PICK o \in {stop, go} : op' = [op EXCEPT ![client] = o]
    BY <1>2 DEF Promote
  <2>2. o.pc \in {"idle", "fill"}
    BY <1>1, <2>1 DEF Operation
  <2> QED
    BY <1>2, <2>1, <2>2, RegStep DEF RegCall
<1>3. CASE Fill(client)
  <2>1. op'[client].pc \in {"idle", "fill"}
    BY <1>1, <1>3 DEF Fill, Operation
  <2> QED
    BY <2>1 DEF RegCall, RInv, RegInv, OneKey
<1> QED
  BY <1>2, <1>3

LEMMA RegWriteLevel ==
  ASSUME RInv, WriteLevel(client)
  PROVE  RegInv'
<1> DEFINE e == NewEntry(op[client].val, op[client].ttl, now)
<1>1. /\ op[client].pc = "write" /\ op[client] \in Operation
      /\ client \in Clients /\ key \in Keys /\ op[client].key = key
      /\ Level(client) \in Caches /\ op[client].ttl \in TTL
      /\ op[client].val \in DOMAIN writes
      /\ RegCall(store, Len(writes), op[client])
  BY TheClient, TheLevels DEF WriteLevel, CallInv, InRange, Operation
<1>2. \A t \in Caches, j \in Keys :
         store'[t][j] = IF t = Level(client) /\ j = key /\ Level(client) \notin NoOps
                        THEN e ELSE store[t][j]
  BY <1>1, SetExecuted DEF WriteLevel, RInv
<1>3. e.data = op[client].val
  BY DEF NewEntry
<1>4. Len(writes') = Len(writes)
  BY TheSets, <1>1 DEF WriteLevel
<1> HIDE DEF e
<1>5. CASE op[client].lvl < Len(Chain[client])
  <2> DEFINE o == [op[client] EXCEPT !.lvl = @ + 1]
  <2>1. op' = [op EXCEPT ![client] = o]
    BY <1>5 DEF WriteLevel, NextLevel
  <2>2. o.pc = "write" /\ o.val = op[client].val /\ o.base = op[client].base
    BY <1>1 DEF Operation
  <2> HIDE DEF o
  <2>3. \A i \in DOMAIN Chain[client] :
           Held(store', client, i, key) \in {e, Held(store, client, i, key)}
    BY <1>1, <1>2, TheLevels DEF Held
  <2>4. OldAgree(store', o)
    BY <1>1, <1>3, <2>2, <2>3 DEF OldAgree, RegCall
  <2>5. RegCall(store', Len(writes'), o)
    BY <1>1, <1>4, <2>2, <2>4 DEF RegCall
  <2> QED
    BY <2>1, <2>5, RegStep
<1>6. CASE ~ (op[client].lvl < Len(Chain[client]))
  <2> DEFINE o == Call(client, op[client].key, "idle", 0, NoTTL, {})
  <2>1. op' = [op EXCEPT ![client] = o]
    BY <1>6 DEF WriteLevel, NextLevel
  <2>2. RegCall(store', Len(writes'), o)
    BY CallFields DEF RegCall
  <2> QED
    BY <2>1, <2>2, RegStep
<1> QED
  BY <1>5, <1>6

LEMMA RegEraseLevel ==
  ASSUME RInv, EraseLevel(client)
  PROVE  RegInv'
<1>1. /\ op[client].pc = "erase" /\ op[client] \in Operation /\ writes' = writes
      /\ client \in Clients /\ op \in [Clients -> Operation]
      /\ RegCall(store, Len(writes), op[client])
  BY TheClient DEF EraseLevel
<1>2. /\ op'[client].pc \in {"erase", "idle"}
      /\ op'[client].pc = "erase" => op'[client].base = op[client].base
  BY <1>1, CallFields DEF EraseLevel, NextLevel, Operation
<1>3. RegCall(store', Len(writes'), op'[client])
  BY <1>1, <1>2 DEF RegCall
<1> QED
  BY <1>3 DEF RInv, RegInv, OneKey

LEMMA RegEnvironment ==
  ASSUME RInv,
         \/ \E s \in Caches, k \in Keys : Evict(s, k)
         \/ \E s \in KeyDBs, k \in Keys : Corrupt(s, k)
         \/ \E s \in BigCaches : Restart(s)
         \/ Tick
         \/ UNCHANGED vars
  PROVE  RegInv'
<1>1. /\ store \in [Caches -> [Keys -> Entry \cup {NoEntry, Garbage}]]
      /\ NoEntry \notin Entry /\ Garbage \notin Entry
  BY ValueAssumption DEF RInv, IInv, LevelsInv, LevelsType
<1>2. writes' = writes /\ Shrinks
  BY <1>1 DEF Evict, Corrupt, Restart, Tick, vars, Shrinks, Caches
<1>3. op'[client] = op[client] \/ op'[client].pc = "idle"
  <2>1. CASE \E s \in BigCaches : Restart(s)
    BY <2>1, CallFields, TheClient DEF Restart
  <2>2. CASE ~ \E s \in BigCaches : Restart(s)
    BY <2>2 DEF Evict, Corrupt, Tick, vars
  <2> QED
    BY <2>1, <2>2
<1>4. RegCall(store, Len(writes), op[client])
  BY TheClient
<1>5. RegCall(store', Len(writes), op'[client])
  BY <1>2, <1>3, <1>4, RegShrinks DEF RegCall
<1> QED
  BY <1>2, <1>5 DEF RInv, RegInv, OneKey

LEMMA NextReg == RInv /\ [Next]_vars => RInv'
<1> SUFFICES ASSUME RInv, [Next]_vars
             PROVE  RegInv'
  BY NextInv, NextAlone, NextAgree DEF RInv
<1>1. Writers \subseteq Clients
  BY ValueAssumption
<1>2. ASSUME NEW c \in Clients, NEW k \in Keys,
             \/ CallGet(c, k) \/ CallDelete(c, k)
             \/ \E ttl \in TTLs, big \in Sizes : CallSet(c, k, ttl, big)
      PROVE  RegInv'
  <2>1. c = client
    BY TheClient
  <2> QED
    BY <1>2, <2>1, RegCalls
<1>3. ASSUME NEW c \in Clients, ClientStep(c)
      PROVE  RegInv'
  <2>1. c = client
    BY TheClient
  <2> QED
    BY <1>3, <2>1, RegGet, RegDrop, RegPropagation, RegWriteLevel, RegEraseLevel
       DEF ClientStep
<1>4. ASSUME NEW m \in late, ExecuteLate(m)
      PROVE  RegInv'
  BY <1>4 DEF RInv, AloneInv, AllExecuted
<1>5. CASE \/ \E s \in Caches, k \in Keys : Evict(s, k)
           \/ \E s \in KeyDBs, k \in Keys : Corrupt(s, k)
           \/ \E s \in BigCaches : Restart(s)
           \/ Tick
           \/ UNCHANGED vars
  BY <1>5, RegEnvironment
<1> QED
  BY <1>1, <1>2, <1>3, <1>4, <1>5 DEF Next

LEMMA InitReg == Alone /\ OneSurvives /\ OneKey /\ Init => RInv
<1> SUFFICES ASSUME Alone, OneSurvives, OneKey, Init
             PROVE  RInv
  OBVIOUS
<1>1. op[client].pc = "idle"
  BY RegisterAssumption DEF Init, Call
<1>2. RegCall(store, Len(writes), op[client])
  BY <1>1 DEF RegCall
<1> QED
  BY <1>2, InitInv, InitAlone, InitAgree DEF RInv, RegInv

-------------------------------------------------------------------------------
(* The refinement of Register, step by step.                               *)

\* What the client may yet be answered, now that no command is late.
LEMMA AnswerableIs ==
  RInv => \A v : v \in Answerable <=> Answers(store, now, op[client], v)
<1> SUFFICES ASSUME RInv, NEW v
             PROVE  v \in Answerable <=> Answers(store, now, op[client], v)
  OBVIOUS
<1> DEFINE call == op[client]
           stored == UNION {EntriesAt(Chain[client][i], key) : i \in DOMAIN Chain[client]}
           promoted == IF call.pc = "promote" THEN {call.ent} ELSE {}
           values == {e.data : e \in {f \in stored \cup promoted : ~ IsExpired(f, now)}}
           may(e) == /\ e.data = v
                     /\ ~ IsExpired(e, now)
                     /\ \/ call.pc = "promote" /\ e = call.ent
                        \/ \E i \in DOMAIN Chain[client] : e = Held(store, client, i, key)
<1>1. late = {}
  BY DEF RInv, AloneInv, AllExecuted
<1>2. call.pc = "promote" => call.ent \in Entry
  BY TheClient DEF CallInv, Propagating
<1>3. \A e : e \in stored <=>
         e \in Entry /\ \E i \in DOMAIN Chain[client] : e = Held(store, client, i, key)
  BY <1>1 DEF EntriesAt, Held
<1>4. v \in values <=> \E e \in Entry : may(e)
  BY <1>2, <1>3
<1>5. Answers(store, now, call, v) <=>
         \/ call.pc = "fill" /\ v = call.val
         \/ (call.pc = "write" => v # call.val) /\ \E e \in Entry : may(e)
  BY DEF Answers
<1>6. Answerable = CASE call.pc = "fill"  -> values \cup {call.val}
                     [] call.pc = "write" -> values \ {call.val}
                     [] OTHER             -> values
  BY DEF Answerable
<1>7. op[client] = call
  OBVIOUS
<1> HIDE DEF call, values, may
<1> QED
  BY <1>4, <1>5, <1>6, <1>7

\* There is at most one such value, and it is that of a Set.
LEMMA OneAnswer ==
  ASSUME RInv, NEW u, NEW v,
         Answers(store, now, op[client], u), Answers(store, now, op[client], v)
  PROVE  u = v /\ v \in 1 .. Len(writes)
<1> DEFINE o == op[client]
<1>1. /\ CallInv(writes, now, client, o) /\ Agreeing(store, client, o) /\ o.key = key
      /\ key \in Keys /\ RegCall(store, Len(writes), o)
      /\ DOMAIN writes = 1 .. Len(writes)
      /\ \A i \in DOMAIN Chain[client] :
            Held(store, client, i, key) \in Entry =>
               Held(store, client, i, key).data \in DOMAIN writes
  BY TheClient, TheLevels, TheSets
<1> HIDE DEF o
<1>2. CASE o.pc \in {"promote", "fill"}
  <2>1. /\ o.ent.data \in DOMAIN writes
        /\ o.pc = "fill" => o.val = o.ent.data
    BY <1>1, <1>2 DEF CallInv, Propagating, Computed, Sound
  <2>2. ASSUME NEW w, Answers(store, now, o, w) PROVE w = o.ent.data
    <3>1. CASE o.pc = "fill" /\ w = o.val
      BY <2>1, <3>1
    <3>2. ASSUME NEW e \in Entry, e.data = w,
                 \/ o.pc = "promote" /\ e = o.ent
                 \/ \E i \in DOMAIN Chain[client] : e = Held(store, client, i, key)
          PROVE  w = o.ent.data
      BY <1>1, <1>2, <3>2 DEF Agreeing
    <3> QED
      BY <2>2, <3>1, <3>2 DEF Answers
  <2>3. u = o.ent.data /\ v = o.ent.data
    BY <2>2 DEF o
  <2> QED
    BY <1>1, <2>1, <2>3
<1>3. CASE o.pc \notin {"promote", "fill"}
  <2>1. PICK e \in Entry, i \in DOMAIN Chain[client] :
           e = Held(store, client, i, key) /\ e.data = u /\ (o.pc = "write" => u # o.val)
    BY <1>3 DEF Answers, o
  <2>2. PICK f \in Entry, j \in DOMAIN Chain[client] :
           f = Held(store, client, j, key) /\ f.data = v /\ (o.pc = "write" => v # o.val)
    BY <1>3 DEF Answers, o
  <2>3. v \in DOMAIN writes
    BY <1>1, <2>2
  <2>4. CASE o.pc = "write"
    BY <1>1, <2>1, <2>2, <2>4 DEF RegCall, OldAgree
  <2>5. CASE o.pc # "write"
    BY <1>1, <2>1, <2>2, <2>5 DEF Agreeing
  <2> QED
    BY <1>1, <2>3, <2>4, <2>5
<1> QED
  BY <1>2, <1>3

\* It is what the register keeps.
LEMMA KeptIs ==
  RInv => /\ \A v : Answers(store, now, op[client], v) => Kept = v /\ v \in 1 .. Len(writes)
          /\ (\A v : ~ Answers(store, now, op[client], v)) => Kept = 0
<1> SUFFICES ASSUME RInv
             PROVE  /\ \A v : Answers(store, now, op[client], v) =>
                                 Kept = v /\ v \in 1 .. Len(writes)
                    /\ (\A v : ~ Answers(store, now, op[client], v)) => Kept = 0
  OBVIOUS
<1>1. ASSUME NEW v, Answers(store, now, op[client], v)
      PROVE  Kept = v /\ v \in 1 .. Len(writes)
  <2>1. v \in Answerable /\ \A u \in Answerable : u = v
    BY <1>1, AnswerableIs, OneAnswer
  <2>2. Answerable = {v}
    BY <2>1
  <2>3. TheOne({v}) = v
    BY DEF TheOne
  <2>4. v \in 1 .. Len(writes)
    BY <1>1, OneAnswer
  <2> QED
    BY <2>2, <2>3, <2>4 DEF Kept
<1>2. (\A v : ~ Answers(store, now, op[client], v)) => Answerable = {}
  BY AnswerableIs
<1> QED
  BY <1>1, <1>2 DEF Kept, TheOne

\* The same after a step.
LEMMA KeptIsNext ==
  ASSUME RInv'
  PROVE  /\ \A v : Answers(store', now', op'[client], v) => Kept' = v
         /\ (\A v : ~ Answers(store', now', op'[client], v)) => Kept' = 0
<1>1. (RInv => /\ \A v : Answers(store, now, op[client], v) => Kept = v /\ v \in 1 .. Len(writes)
               /\ (\A v : ~ Answers(store, now, op[client], v)) => Kept = 0)'
  BY KeptIs, PTL
<1> QED
  BY <1>1

\* A step that brings no answer keeps or forgets.
LEMMA KeptShrinks ==
  ASSUME RInv, RInv',
         \A v : Answers(store', now', op'[client], v) => Answers(store, now, op[client], v)
  PROVE  Kept' \in {Kept, 0}
<1>1. CASE \E v : Answers(store', now', op'[client], v)
  BY <1>1, KeptIs, KeptIsNext
<1>2. CASE ~ \E v : Answers(store', now', op'[client], v)
  BY <1>2, KeptIsNext
<1> QED
  BY <1>1, <1>2

LEMMA KeptSame ==
  ASSUME RInv, RInv',
         \A v : Answers(store', now', op'[client], v) <=> Answers(store, now, op[client], v)
  PROVE  Kept' = Kept
<1>1. CASE \E v : Answers(store, now, op[client], v)
  BY <1>1, KeptIs, KeptIsNext
<1>2. CASE ~ \E v : Answers(store, now, op[client], v)
  BY <1>2, KeptIs, KeptIsNext
<1> QED
  BY <1>1, <1>2

\* Levels that only lose entries bring no answer to a call that goes on.
LEMMA ShrinkingAnswers ==
  ASSUME RInv, Shrinks, now' >= now, now' \in Nat, NEW o, NEW v,
         Answers(store', now', o, v),
         o.pc \in {"fill", "promote"} => o = op[client],
         op[client].pc = "write" => o = op[client]
  PROVE  Answers(store, now, op[client], v)
<1>1. \A i \in DOMAIN Chain[client] :
         Held(store', client, i, key) \in Entry =>
            Held(store', client, i, key) = Held(store, client, i, key)
  BY TheClient, TheLevels DEF Shrinks, Held
<1>2. now \in Nat
  BY TheSets
<1>3. CASE o.pc = "fill" /\ v = o.val
  BY <1>3 DEF Answers
<1>4. ASSUME NEW e \in Entry, o.pc = "write" => v # o.val, e.data = v, ~ IsExpired(e, now'),
             \/ o.pc = "promote" /\ e = o.ent
             \/ \E i \in DOMAIN Chain[client] : e = Held(store', client, i, key)
      PROVE  Answers(store, now, op[client], v)
  <2>1. ~ IsExpired(e, now)
    <3>1. e.expiresAt \in Nat
      BY DEF Entry
    <3> QED
      BY <1>2, <1>4, <3>1 DEF IsExpired
  <2>2. \/ op[client].pc = "promote" /\ e = op[client].ent
        \/ \E i \in DOMAIN Chain[client] : e = Held(store, client, i, key)
    BY <1>1, <1>4
  <2>3. op[client].pc = "write" => v # op[client].val
    BY <1>4
  <2> QED
    BY <1>4, <2>1, <2>2, <2>3 DEF Answers
<1> QED
  BY <1>3, <1>4 DEF Answers

\* What the levels hold was not replaced, and after a step it was not by then.
LEMMA HeldNow ==
  RInv => \A i : i \in DOMAIN Chain[client] /\ Held(store, client, i, key) \in Entry =>
             /\ Held(store, client, i, key).data \in 1 .. Len(writes)
             /\ Held(store, client, i, key).data \notin dead
<1> SUFFICES ASSUME RInv, NEW i \in DOMAIN Chain[client], Held(store, client, i, key) \in Entry
             PROVE  /\ Held(store, client, i, key).data \in 1 .. Len(writes)
                    /\ Held(store, client, i, key).data \notin dead
  OBVIOUS
<1>1. CallAlone(store, writes, dead, now, client, op[client]) /\ key \in Keys
  BY TheClient
<1> QED
  BY <1>1, TheLevels, TheSets DEF CallAlone

LEMMA HeldNext ==
  ASSUME RInv', NEW j \in DOMAIN Chain[client], Held(store', client, j, key) \in Entry
  PROVE  /\ Held(store', client, j, key).data \in 1 .. Len(writes')
         /\ Held(store', client, j, key).data \notin dead'
<1>1. (RInv => \A i : i \in DOMAIN Chain[client] /\ Held(store, client, i, key) \in Entry =>
                 /\ Held(store, client, i, key).data \in 1 .. Len(writes)
                 /\ Held(store, client, i, key).data \notin dead)'
  BY HeldNow, PTL
<1> QED
  BY <1>1

\* The register does nothing or forgets.
LEMMA QuietStep ==
  ASSUME Kept' \in {Kept, 0}, Len(writes') = Len(writes), Pending' = Pending,
         Found' = Found, dead' = dead
  PROVE  RegisterOfClient!Next \/ UNCHANGED RegisterOfClient!vars
  BY DEF RegisterOfClient!Next, RegisterOfClient!Forget, RegisterOfClient!vars

LEMMA RegisterCall ==
  ASSUME RInv, RInv', NEW k \in Keys,
         \/ CallGet(client, k) \/ CallDelete(client, k)
         \/ \E ttl \in TTLs, big \in Sizes : CallSet(client, k, ttl, big)
  PROVE  RegisterOfClient!Next
<1>1. /\ op[client].pc = "idle" /\ store' = store /\ now' = now /\ dead' = dead
      /\ Chain[client] # <<>> /\ client \in Clients /\ op \in [Clients -> Operation]
  BY TheClient DEF CallGet, CallDelete, CallSet, RInv, RegInv, OneKey
<1>2. /\ op'[client].ent = NoEntry
      /\ \/ op'[client].pc = "probe" /\ writes' = writes
         \/ op'[client].pc = "erase" /\ writes' = writes
         \/ /\ op'[client].pc = "write" /\ op'[client].val = Len(writes) + 1
            /\ Len(writes') = Len(writes) + 1
  <2>1. \A j, q, val, ttl, base :
           LET o == Call(client, j, q, val, ttl, base)
           IN o.pc = q /\ o.ent = NoEntry /\ o.val = val
    BY <1>1 DEF Call
  <2>2. CASE CallGet(client, k)
    <3>1. op'[client] = Call(client, k, "probe", 0, NoTTL, dead) /\ writes' = writes
      BY <1>1, <2>2 DEF CallGet
    <3> QED
      BY <2>1, <3>1
  <2>3. CASE CallDelete(client, k)
    <3>1. op'[client] = Call(client, k, "erase", 0, NoTTL, Settled(k)) /\ writes' = writes
      BY <1>1, <2>3 DEF CallDelete
    <3> QED
      BY <2>1, <3>1
  <2>4. ASSUME NEW ttl \in TTLs, NEW big \in Sizes, CallSet(client, k, ttl, big)
        PROVE  /\ op'[client].pc = "write" /\ op'[client].ent = NoEntry
               /\ Len(writes') = Len(writes) + 1 /\ op'[client].val = Len(writes) + 1
    <3>1. Len(writes') = Len(writes) + 1
      BY <2>4, TheSets DEF CallSet
    <3>2. op'[client] = Call(client, k, "write", Len(writes) + 1, ttl, Settled(k))
      BY <1>1, <2>4 DEF CallSet
    <3> QED
      BY <2>1, <3>1, <3>2
  <2> QED
    BY <2>2, <2>3, <2>4
<1> DEFINE method == CASE op'[client].pc = "probe" -> "get"
                       [] op'[client].pc = "write" -> "set"
                       [] op'[client].pc = "erase" -> "delete"
<1>3. Pending = "none" /\ Pending' = method /\ Found' = 0
  BY <1>1, <1>2 DEF Pending, Found
<1>4. Kept' = Kept
  <2>1. ASSUME NEW v, Answers(store, now, op[client], v)
        PROVE  Answers(store', now', op'[client], v)
    <3>1. v \in 1 .. Len(writes) /\ Len(writes) \in Nat
      BY <2>1, OneAnswer, TheSets
    <3>2. op'[client].pc = "write" => v # op'[client].val
      BY <1>2, <3>1
    <3> QED
      BY <1>1, <2>1, <3>2, <1>2 DEF Answers
  <2>2. ASSUME NEW v, Answers(store', now', op'[client], v)
        PROVE  Answers(store, now, op[client], v)
    BY <1>1, <1>2, <2>2 DEF Answers
  <2> QED
    BY <2>1, <2>2, KeptSame
<1>5. method \in {"get", "set", "delete"}
      /\ Len(writes') = IF method = "set" THEN Len(writes) + 1 ELSE Len(writes)
  BY <1>2
<1> HIDE DEF method
<1>6. RegisterOfClient!Call(method)
  BY <1>1, <1>3, <1>4, <1>5 DEF RegisterOfClient!Call
<1> QED
  BY <1>5, <1>6 DEF RegisterOfClient!Next

\* A Get that leaves a level goes on to the next one, or answers that nothing is kept.
LEMMA RegisterMiss ==
  ASSUME RInv, RInv', op[client].pc \in {"probe", "drop"}, Miss(client), Shrinks,
         UNCHANGED <<now, writes, dead>>,
         \A v : Answers(store, now, op[client], v) => Answers(store', now, op[client], v),
         Held(store', client, op[client].lvl, key) \notin Entry
  PROVE  RegisterOfClient!Next \/ UNCHANGED RegisterOfClient!vars
<1> DEFINE more == op[client].lvl < Len(Chain[client])
<1>1. /\ op[client] \in Operation /\ op \in [Clients -> Operation] /\ client \in Clients
      /\ op[client].ent = NoEntry /\ now \in Nat
      /\ op[client].lvl \in 1 .. Len(Chain[client]) /\ Len(Chain[client]) \in Nat
      /\ DOMAIN Chain[client] = 1 .. Len(Chain[client])
  BY TheClient, TheLevels, TheSets DEF RegCall
<1>2. /\ op'[client].pc = IF more THEN "probe" ELSE "idle"
      /\ op'[client].ent = NoEntry
  BY <1>1 DEF Miss, Operation
<1>3. \A v : Answers(store', now', op'[client], v) <=> Answers(store', now, op[client], v)
  BY <1>2 DEF Answers
<1>4. \A v : Answers(store', now, op[client], v) => Answers(store, now, op[client], v)
  <2>1. now' \in Nat /\ now' >= now /\ now' = now
    BY <1>1
  <2> QED
    BY <2>1, ShrinkingAnswers
<1>5. Kept' = Kept
  BY <1>3, <1>4, KeptSame
<1>6. Found = 0 /\ Found' = 0
  BY <1>1, <1>2 DEF Found
<1>7. CASE more
  <2>1. Pending' = Pending
    BY <1>2, <1>7 DEF Pending
  <2> QED
    BY <1>5, <1>6, <2>1, QuietStep
<1>8. CASE ~ more
  <2>1. Pending = "get" /\ Pending' = "none"
    BY <1>2, <1>8 DEF Pending
  <2>2. ASSUME NEW v PROVE ~ Answers(store', now', op'[client], v)
    <3> SUFFICES ASSUME NEW i \in DOMAIN Chain[client],
                        Held(store', client, i, key) \in Entry
                 PROVE  IsExpired(Held(store', client, i, key), now)
      BY <1>2, <1>8 DEF Answers
    <3>1. Held(store', client, i, key) = Held(store, client, i, key)
      BY TheClient, TheLevels DEF Shrinks, Held
    <3>2. i < op[client].lvl
      BY <1>1, <1>8
    <3>3. Missed(store, now, client, op[client]) /\ op[client].key = key
      BY TheClient DEF CallAlone
    <3> QED
      BY <3>1, <3>2, <3>3 DEF Missed
  <2>3. Kept' = 0
    BY <2>2, KeptIsNext
  <2>4. RegisterOfClient!Get
    BY <1>5, <1>6, <2>1, <2>3 DEF RegisterOfClient!Get, RegisterOfClient!End
  <2> QED
    BY <2>4 DEF RegisterOfClient!Next
<1> QED
  BY <1>7, <1>8

\* A Get that finds a value answers what is kept.
LEMMA RegisterHit ==
  ASSUME RInv, RInv', op[client].pc = "probe",
         store[Level(client)][op[client].key] \in Entry,
         ~ IsExpired(store[Level(client)][op[client].key], now),
         Hit(client, store[Level(client)][op[client].key]),
         UNCHANGED <<now, store, writes, dead>>
  PROVE  RegisterOfClient!Next
<1> DEFINE e == store[Level(client)][op[client].key]
           pc == IF op[client].lvl > 1 /\ EnablePropagation THEN "promote" ELSE "idle"
           o == [op[client] EXCEPT !.pc = pc, !.lvl = 1, !.hit = op[client].lvl, !.ent = e]
<1>1. /\ op[client] \in Operation /\ op \in [Clients -> Operation] /\ client \in Clients
      /\ op[client].key = key /\ op[client].lvl \in DOMAIN Chain[client]
      /\ NoEntry \notin Entry
  BY TheClient, TheLevels
<1>2. op'[client] = o
  BY <1>1 DEF Hit
<1>3. o.pc = pc /\ o.ent = e
  BY <1>1 DEF Operation
<1>4. e = Held(store, client, op[client].lvl, key) /\ e \in Entry /\ ~ IsExpired(e, now)
  BY <1>1 DEF Held, Level
<1> HIDE DEF e, o
<1>5. Answers(store, now, op[client], e.data)
  BY <1>1, <1>4 DEF Answers
<1>6. pc \in {"promote", "idle"}
  OBVIOUS
<1> HIDE DEF pc
<1>7. \A v : Answers(store', now', op'[client], v) <=> Answers(store, now, op[client], v)
  <2>1. ASSUME NEW v, Answers(store', now', op'[client], v)
        PROVE  Answers(store, now, op[client], v)
    <3>1. PICK f \in Entry : /\ f.data = v /\ ~ IsExpired(f, now)
                             /\ \/ f = e
                                \/ \E i \in DOMAIN Chain[client] : f = Held(store, client, i, key)
      BY <1>2, <1>3, <1>6, <2>1 DEF Answers
    <3>2. CASE f = e
      BY <1>5, <3>1, <3>2
    <3>3. CASE \E i \in DOMAIN Chain[client] : f = Held(store, client, i, key)
      BY <3>1, <3>3 DEF Answers
    <3> QED
      BY <3>1, <3>2, <3>3
  <2>2. ASSUME NEW v, Answers(store, now, op[client], v)
        PROVE  Answers(store', now', op'[client], v)
    BY <1>2, <1>3, <1>6, <2>2 DEF Answers
  <2> QED
    BY <2>1, <2>2
<1>8. Kept' = Kept /\ Kept = e.data
  BY <1>5, <1>7, KeptSame, KeptIs
<1>9. Pending = "get" /\ Pending' = "none"
  BY <1>2, <1>3, <1>6 DEF Pending
<1>10. Found' = e.data
  BY <1>1, <1>2, <1>3, <1>4 DEF Found
<1>11. RegisterOfClient!Get
  BY <1>8, <1>9, <1>10 DEF RegisterOfClient!Get, RegisterOfClient!End
<1> QED
  BY <1>11 DEF RegisterOfClient!Next

LEMMA RegisterGet ==
  ASSUME RInv, RInv', BigCacheGet(client) \/ KeyDBGet(client) \/ NoOpGet(client)
  PROVE  RegisterOfClient!Next \/ UNCHANGED RegisterOfClient!vars
<1> DEFINE x == store[Level(client)][op[client].key]
<1>1. /\ op[client].pc = "probe" /\ UNCHANGED <<now, store, late, writes, dead>>
      /\ op[client] \in Operation /\ op \in [Clients -> Operation] /\ client \in Clients
      /\ op[client].key = key /\ key \in Keys /\ Level(client) \in Caches
      /\ x = Held(store, client, op[client].lvl, key)
      /\ NoEntry \notin Entry
  BY TheClient, TheLevels DEF BigCacheGet, KeyDBGet, NoOpGet, Held, Level
<1>2. \/ x = NoEntry /\ Miss(client)
      \/ op' = [op EXCEPT ![client].pc = "drop"]
      \/ x \in Entry /\ ~ IsExpired(x, now) /\ Hit(client, x)
  <2>1. CASE Level(client) \in NoOps
    <3>1. NoOpGet(client)
      BY <2>1, ChainAssumption DEF BigCacheGet, KeyDBGet
    <3> QED
      BY <1>1, <2>1, <3>1 DEF NoOpGet, RInv, AloneInv, AllExecuted
  <2>2. CASE Level(client) \notin NoOps
    <3>1. Answer(client, x)
      BY <2>2 DEF BigCacheGet, KeyDBGet, NoOpGet, RInv, AloneInv, Alone
    <3> QED
      BY <3>1 DEF Answer
  <2> QED
    BY <2>1, <2>2
<1>3. CASE x = NoEntry /\ Miss(client)
  <2>1. Shrinks /\ Held(store', client, op[client].lvl, key) \notin Entry
    BY <1>1, <1>3 DEF Shrinks
  <2> QED
    BY <1>1, <1>3, <2>1, RegisterMiss
<1>4. CASE op' = [op EXCEPT ![client].pc = "drop"]
  <2>1. op'[client].pc = "drop" /\ op'[client].ent = op[client].ent
    BY <1>1, <1>4 DEF Operation
  <2>2. \A v : Answers(store', now', op'[client], v) <=> Answers(store, now, op[client], v)
    BY <1>1, <2>1 DEF Answers
  <2>3. Pending' = Pending /\ Found' = Found /\ Kept' = Kept
    BY <1>1, <2>1, <2>2, KeptSame DEF Pending, Found
  <2> QED
    BY <1>1, <2>3, QuietStep
<1>5. CASE x \in Entry /\ ~ IsExpired(x, now) /\ Hit(client, x)
  BY <1>1, <1>5, RegisterHit
<1> QED
  BY <1>2, <1>3, <1>4, <1>5

\* What a Get deletes could not be answered any more.
LEMMA RegisterDrop ==
  ASSUME RInv, RInv', Drop(client)
  PROVE  RegisterOfClient!Next \/ UNCHANGED RegisterOfClient!vars
<1>1. /\ op[client].pc = "drop" /\ op[client].key = key /\ key \in Keys
      /\ Level(client) \in Caches /\ UNCHANGED <<now, writes, dead>> /\ Miss(client)
      /\ op[client].lvl \in DOMAIN Chain[client]
      /\ NoEntry \notin Entry
  BY TheClient, TheLevels DEF Drop
<1>2. \A t \in Caches, j \in Keys :
         store'[t][j] = IF t = Level(client) /\ j = key THEN NoEntry ELSE store[t][j]
  BY <1>1, DeleteExecuted, TheClient DEF Drop, RInv
<1>3. Shrinks
  BY <1>1, <1>2 DEF Shrinks
<1>4. Held(store', client, op[client].lvl, key) \notin Entry
  BY <1>1, <1>2 DEF Held, Level
<1>5. ASSUME NEW v, Answers(store, now, op[client], v)
      PROVE  Answers(store', now, op[client], v)
  <2>1. PICK e \in Entry, i \in DOMAIN Chain[client] :
           e.data = v /\ ~ IsExpired(e, now) /\ e = Held(store, client, i, key)
    BY <1>1, <1>5 DEF Answers
  <2>2. CASE Chain[client][i] = Level(client)
    <3>1. e = Held(store, client, op[client].lvl, key)
      BY <2>1, <2>2 DEF Held, Level
    <3>2. Missed(store, now, client, op[client])
      BY <1>1, TheClient DEF CallAlone
    <3>3. IsExpired(e, now)
      BY <1>1, <2>1, <3>1, <3>2 DEF Missed
    <3> QED
      BY <2>1, <3>3
  <2>3. CASE Chain[client][i] # Level(client)
    <3>1. e = Held(store', client, i, key)
      BY <1>1, <1>2, <2>1, <2>3, TheLevels DEF Held
    <3> QED
      BY <1>1, <2>1, <3>1 DEF Answers
  <2> QED
    BY <2>2, <2>3
<1> QED
  BY <1>1, <1>3, <1>4, <1>5, RegisterMiss

LEMMA RegisterPromote ==
  ASSUME RInv, RInv', Promote(client)
  PROVE  RegisterOfClient!Next \/ UNCHANGED RegisterOfClient!vars
<1> DEFINE e == op[client].ent
           rem == RemainingTTL(e, now)
           stop == [op[client] EXCEPT !.pc = "idle"]
           go == [op[client] EXCEPT !.pc = "fill", !.val = e.data, !.ttl = rem, !.since = now]
<1>1. /\ op[client] \in Operation /\ op \in [Clients -> Operation] /\ client \in Clients
      /\ op[client].pc = "promote" /\ e \in Entry
      /\ UNCHANGED <<now, store, writes, dead>>
      /\ now \in Nat
  BY TheClient, TheSets DEF Promote, CallInv, Propagating
<1>2. op' = [op EXCEPT ![client] = IF IsExpired(e, now) \/ (rem.fresh <= 0 /\ rem.stale <= 0)
                                   THEN stop ELSE go]
  BY DEF Promote
<1>3. /\ op'[client].ent = e
      /\ \/ op'[client].pc = "idle"
         \/ op'[client].pc = "fill" /\ op'[client].val = e.data /\ ~ IsExpired(e, now)
  BY <1>1, <1>2 DEF Operation
<1>4. Pending' = Pending /\ Found' = Found
  BY <1>1, <1>3 DEF Pending, Found
<1> HIDE DEF e
<1>5. ASSUME NEW v, Answers(store', now', op'[client], v)
      PROVE  Answers(store, now, op[client], v)
  <2>1. CASE op'[client].pc = "fill" /\ v = e.data
    <3>1. ~ IsExpired(e, now)
      BY <1>3, <2>1
    <3> QED
      BY <1>1, <2>1, <3>1 DEF Answers, e
  <2>2. CASE ~ (op'[client].pc = "fill" /\ v = e.data)
    BY <1>1, <1>3, <1>5, <2>2 DEF Answers
  <2> QED
    BY <2>1, <2>2
<1>6. Kept' \in {Kept, 0}
  BY <1>5, KeptShrinks
<1> QED
  BY <1>1, <1>4, <1>6, QuietStep

\* A propagation brings back what is kept, which the client has been answered.
LEMMA RegisterFill ==
  ASSUME RInv, RInv', Fill(client)
  PROVE  RegisterOfClient!Next \/ UNCHANGED RegisterOfClient!vars
<1> DEFINE o == op[client]
<1>1. /\ o \in Operation /\ op \in [Clients -> Operation] /\ client \in Clients
      /\ o.pc = "fill" /\ UNCHANGED <<now, writes, dead>> /\ o.val = o.ent.data
      /\ Agreeing(store, client, o) /\ o.key = key /\ key \in Keys
      /\ Level(client) \in Caches /\ o.val \in DOMAIN writes /\ o.ttl \in TTL
      /\ \A i \in DOMAIN Chain[client] : Chain[client][i] \in Caches
  BY TheClient, TheLevels DEF Fill, CallInv, Computed, InRange, Operation
<1>2. /\ op'[client].pc \in {"idle", "fill"} /\ op'[client].ent = o.ent
      /\ op'[client].pc = "fill" => op'[client].val = o.val
  <2> DEFINE more == [o EXCEPT !.lvl = @ + 1]
             done == [o EXCEPT !.pc = "idle", !.lvl = 1, !.val = 0, !.ttl = NoTTL, !.since = 0]
  <2>1. PICK q \in {more, done} : op' = [op EXCEPT ![client] = q]
    BY DEF Fill
  <2>2. q.pc \in {"idle", "fill"} /\ q.ent = o.ent /\ (q.pc = "fill" => q.val = o.val)
    BY <1>1, <2>1 DEF Operation
  <2> HIDE DEF more, done
  <2> QED
    BY <1>1, <2>1, <2>2
<1>3. \A i \in DOMAIN Chain[client] :
         Held(store', client, i, key) \in {NewEntry(o.val, o.ttl, now), Held(store, client, i, key)}
  BY <1>1, SetExecuted DEF Fill, Held, RInv
<1>4. NewEntry(o.val, o.ttl, now).data = o.val
  BY DEF NewEntry
<1> HIDE DEF o
<1>5. \A i \in DOMAIN Chain[client] :
         Held(store', client, i, key) \in Entry => Held(store', client, i, key).data = o.val
  BY <1>1, <1>3, <1>4 DEF Agreeing
<1>6. ASSUME NEW v, Answers(store', now', op'[client], v)
      PROVE  v = o.val
  BY <1>2, <1>5, <1>6 DEF Answers
<1>7. Answers(store, now, op[client], o.val)
  BY <1>1 DEF Answers, o
<1>8. Kept' \in {Kept, 0}
  BY <1>6, <1>7, KeptShrinks
<1>9. Pending' = Pending /\ Found' = Found
  BY <1>1, <1>2 DEF Pending, Found, o
<1> QED
  BY <1>1, <1>8, <1>9, QuietStep

\* A Set that leaves its last level is what the levels keep, or they keep nothing.
LEMMA RegisterWriteLevel ==
  ASSUME RInv, RInv', WriteLevel(client)
  PROVE  RegisterOfClient!Next \/ UNCHANGED RegisterOfClient!vars
<1> DEFINE o == op[client]
           e == NewEntry(o.val, o.ttl, now)
           n == Len(writes)
<1>1. /\ o \in Operation /\ op \in [Clients -> Operation] /\ client \in Clients
      /\ o.pc = "write" /\ now' = now /\ n \in Nat
      /\ o.val = n /\ o.base = 1 .. n - 1 /\ o.key = key /\ key \in Keys
      /\ o.ent = NoEntry /\ n \notin dead /\ dead \subseteq 1 .. n
      /\ Level(client) \in Caches /\ o.val \in DOMAIN writes /\ o.ttl \in TTL
      /\ NextLevel(client)
  BY TheClient, TheLevels, TheSets
     DEF WriteLevel, CallInv, InRange, Operation, RegCall, CallAlone, Replacing
<1>2. Len(writes') = n
  BY <1>1, TheSets DEF WriteLevel
<1> HIDE DEF n
<1>3. CASE o.lvl < Len(Chain[client])
  <2>1. /\ op'[client].pc = "write" /\ op'[client].ent = NoEntry
        /\ op'[client].val = o.val /\ dead' = dead
    <3>1. op' = [op EXCEPT ![client] = [o EXCEPT !.lvl = @ + 1]] /\ dead' = dead
      BY <1>1, <1>3 DEF NextLevel
    <3>2. op'[client] = [o EXCEPT !.lvl = @ + 1]
      BY <1>1, <3>1
    <3> QED
      BY <1>1, <3>1, <3>2 DEF Operation
  <2>2. \A i \in DOMAIN Chain[client] :
           Held(store', client, i, key) \in {e, Held(store, client, i, key)}
    BY <1>1, SetExecuted, TheLevels DEF WriteLevel, Held, RInv
  <2>3. e.data = o.val
    BY DEF NewEntry
  <2> HIDE DEF e
  <2>4. ASSUME NEW v, Answers(store', now', op'[client], v)
        PROVE  Answers(store, now, op[client], v)
    <3>1. v # o.val
      BY <2>1, <2>4 DEF Answers
    <3>2. PICK f \in Entry, i \in DOMAIN Chain[client] :
             f.data = v /\ ~ IsExpired(f, now) /\ f = Held(store', client, i, key)
      BY <1>1, <2>1, <2>4 DEF Answers
    <3>3. f = Held(store, client, i, key)
      BY <2>2, <2>3, <3>1, <3>2
    <3> QED
      BY <3>1, <3>2, <3>3 DEF Answers
  <2>5. Kept' \in {Kept, 0}
    BY <2>4, KeptShrinks
  <2>6. Pending' = Pending /\ Found' = Found
    BY <1>1, <2>1 DEF Pending, Found
  <2> QED
    BY <1>2, <2>1, <2>5, <2>6, QuietStep DEF n
<1>4. CASE ~ (o.lvl < Len(Chain[client]))
  <2>1. op'[client] = Call(client, op[client].key, "idle", 0, NoTTL, {})
        /\ dead' = dead \cup op[client].base
    BY <1>1, <1>4 DEF NextLevel
  <2>2. op'[client].pc = "idle" /\ op'[client].ent = NoEntry
    BY <2>1 DEF Call
  <2>3. dead' = 1 .. n - 1
    <3>1. dead \subseteq 1 .. n - 1
      BY <1>1
    <3>2. dead' = dead \cup (1 .. n - 1)
      BY <1>1, <2>1
    <3> QED
      BY <3>1, <3>2
  <2>4. ASSUME NEW i \in DOMAIN Chain[client], Held(store', client, i, key) \in Entry
        PROVE  Held(store', client, i, key).data = n
    <3>1. Held(store', client, i, key).data \in 1 .. n /\ Held(store', client, i, key).data \notin dead'
      BY <1>1, <1>2, <2>4, HeldNext
    <3> QED
      BY <1>1, <2>3, <3>1
  <2>5. \A v : Answers(store', now', op'[client], v) => v = n
    BY <2>2, <2>4 DEF Answers
  <2>6. Kept' \in {n, 0}
    BY <2>5, KeptIsNext
  <2>7. Pending = "set" /\ Pending' = "none" /\ Found' = Found
    BY <1>1, <2>2 DEF Pending, Found
  <2>8. RegisterOfClient!Set
    BY <1>2, <2>3, <2>6, <2>7 DEF RegisterOfClient!Set, RegisterOfClient!End, n
  <2> QED
    BY <2>8 DEF RegisterOfClient!Next
<1> QED
  BY <1>3, <1>4

\* A Delete that leaves its last level leaves nothing.
LEMMA RegisterEraseLevel ==
  ASSUME RInv, RInv', EraseLevel(client)
  PROVE  RegisterOfClient!Next \/ UNCHANGED RegisterOfClient!vars
<1> DEFINE n == Len(writes)
<1>1. /\ op[client] \in Operation /\ op \in [Clients -> Operation] /\ client \in Clients
      /\ op[client].pc = "erase" /\ UNCHANGED <<now, writes>> /\ n \in Nat /\ now \in Nat
      /\ op[client].base = 1 .. n /\ op[client].key = key /\ key \in Keys
      /\ op[client].ent = NoEntry /\ dead \subseteq 1 .. n
      /\ Level(client) \in Caches /\ NextLevel(client)
  BY TheClient, TheLevels, TheSets DEF EraseLevel, RegCall, CallAlone, Replacing
<1> HIDE DEF n
<1>2. CASE op[client].lvl < Len(Chain[client])
  <2>1. /\ op'[client].pc = "erase" /\ op'[client].ent = NoEntry /\ dead' = dead
    BY <1>1, <1>2 DEF NextLevel, Operation
  <2>2. \A t \in Caches, j \in Keys :
           store'[t][j] = IF t = Level(client) /\ j = op[client].key THEN NoEntry ELSE store[t][j]
    BY <1>1, DeleteExecuted DEF EraseLevel, RInv
  <2>3. Shrinks
    BY <2>2, TheClient DEF Shrinks
  <2>4. ASSUME NEW v, Answers(store', now', op'[client], v)
        PROVE  Answers(store, now, op[client], v)
    <3>1. now' \in Nat /\ now' >= now
      BY <1>1
    <3> QED
      BY <1>1, <2>1, <2>3, <2>4, <3>1, ShrinkingAnswers
  <2>5. Kept' \in {Kept, 0}
    BY <2>4, KeptShrinks
  <2>6. Pending' = Pending /\ Found' = Found
    BY <1>1, <2>1 DEF Pending, Found
  <2> QED
    BY <1>1, <2>1, <2>5, <2>6, QuietStep
<1>3. CASE ~ (op[client].lvl < Len(Chain[client]))
  <2>1. op'[client] = Call(client, op[client].key, "idle", 0, NoTTL, {})
        /\ dead' = dead \cup op[client].base
    BY <1>1, <1>3 DEF NextLevel
  <2>2. op'[client].pc = "idle" /\ op'[client].ent = NoEntry
    BY <2>1 DEF Call
  <2>3. dead' = 1 .. n
    BY <1>1, <2>1
  <2>4. \A i \in DOMAIN Chain[client] : Held(store', client, i, key) \notin Entry
    <3>1. Len(writes') = n
      BY <1>1 DEF n
    <3> QED
      BY <2>3, <3>1, HeldNext
  <2>5. \A v : ~ Answers(store', now', op'[client], v)
    BY <2>2, <2>4 DEF Answers
  <2>6. Kept' = 0
    BY <2>5, KeptIsNext
  <2>7. Pending = "delete" /\ Pending' = "none" /\ Found' = Found
    BY <1>1, <2>2 DEF Pending, Found
  <2>8. RegisterOfClient!Delete
    BY <1>1, <2>3, <2>6, <2>7 DEF RegisterOfClient!Delete, RegisterOfClient!End, n
  <2> QED
    BY <2>8 DEF RegisterOfClient!Next
<1> QED
  BY <1>2, <1>3

\* The end of the process ends the call, which has had its effect or has not.
LEMMA RegisterRestart ==
  ASSUME RInv, RInv', NEW s \in BigCaches, Restart(s)
  PROVE  RegisterOfClient!Next \/ UNCHANGED RegisterOfClient!vars
<1>1. /\ store \in [Caches -> [Keys -> Entry \cup {NoEntry, Garbage}]]
      /\ client \in Clients /\ s \in Caches /\ now \in Nat /\ NoEntry \notin Entry
      /\ UNCHANGED <<now, writes, dead>>
      /\ op[client].pc = "write" => op[client].val = Len(writes)
  BY TheClient, TheSets DEF RInv, IInv, LevelsInv, LevelsType, Caches, Restart, RegCall
<1>2. Shrinks
  BY <1>1 DEF Shrinks, Restart
<1>3. CASE \E i \in DOMAIN Chain[client] : Chain[client][i] = s
  <2>1. op'[client] = Call(client, op[client].key, "idle", 0, NoTTL, {})
    BY <1>1, <1>3 DEF Restart
  <2>2. op'[client].pc = "idle" /\ op'[client].ent = NoEntry
    BY <2>1 DEF Call
  <2>3. ASSUME NEW v, Answers(store', now', op'[client], v)
        PROVE  \/ Answers(store, now, op[client], v)
               \/ op[client].pc = "write" /\ v = Len(writes)
    <3>1. PICK e \in Entry, i \in DOMAIN Chain[client] :
             e.data = v /\ ~ IsExpired(e, now) /\ e = Held(store', client, i, key)
      BY <1>1, <2>2, <2>3 DEF Answers
    <3>2. e = Held(store, client, i, key)
      BY <1>2, <3>1, TheClient, TheLevels DEF Shrinks, Held
    <3> QED
      BY <1>1, <3>1, <3>2 DEF Answers
  <2>4. Kept' \in {Kept, 0} \/ (op[client].pc = "write" /\ Kept' = Len(writes))
    <3>1. CASE \E v : Answers(store', now', op'[client], v)
      BY <2>3, <3>1, KeptIs, KeptIsNext
    <3>2. CASE ~ \E v : Answers(store', now', op'[client], v)
      BY <3>2, KeptIsNext
    <3> QED
      BY <3>1, <3>2
  <2>5. Pending' = "none" /\ Found' = 0 /\ (op[client].pc = "write" => Pending = "set")
    BY <2>2 DEF Pending, Found
  <2>6. RegisterOfClient!Crash
    BY <1>1, <2>4, <2>5 DEF RegisterOfClient!Crash
  <2> QED
    BY <2>6 DEF RegisterOfClient!Next
<1>4. CASE ~ \E i \in DOMAIN Chain[client] : Chain[client][i] = s
  <2>1. op'[client] = op[client]
    BY <1>1, <1>4 DEF Restart
  <2>2. Pending' = Pending /\ Found' = Found
    BY <2>1 DEF Pending, Found
  <2>3. ASSUME NEW v, Answers(store', now', op'[client], v)
        PROVE  Answers(store, now, op[client], v)
    <3>1. now' \in Nat /\ now' >= now
      BY <1>1
    <3> QED
      BY <1>2, <2>1, <2>3, <3>1, ShrinkingAnswers
  <2>4. Kept' \in {Kept, 0}
    BY <2>3, KeptShrinks
  <2> QED
    BY <1>1, <2>2, <2>4, QuietStep
<1> QED
  BY <1>3, <1>4

\* Levels that lose, corrupt or expire their copies forget.
LEMMA RegisterLoss ==
  ASSUME RInv, RInv',
         \/ \E s \in Caches, k \in Keys : Evict(s, k)
         \/ \E s \in KeyDBs, k \in Keys : Corrupt(s, k)
         \/ Tick
  PROVE  RegisterOfClient!Next \/ UNCHANGED RegisterOfClient!vars
<1>1. /\ store \in [Caches -> [Keys -> Entry \cup {NoEntry, Garbage}]]
      /\ NoEntry \notin Entry /\ Garbage \notin Entry /\ now \in Nat
  BY ValueAssumption, TheSets DEF RInv, IInv, LevelsInv, LevelsType
<1>2. UNCHANGED <<writes, dead, op>> /\ Shrinks
  BY <1>1 DEF Evict, Corrupt, Tick, Shrinks, Caches
<1>3. now' \in Nat /\ now' >= now
  BY <1>1 DEF Evict, Corrupt, Tick
<1>4. \A v : Answers(store', now', op[client], v) => Answers(store, now, op[client], v)
  BY <1>2, <1>3, ShrinkingAnswers
<1>5. Kept' \in {Kept, 0}
  BY <1>2, <1>4, KeptShrinks
<1>6. Pending' = Pending /\ Found' = Found
  BY <1>2 DEF Pending, Found
<1> QED
  BY <1>2, <1>5, <1>6, QuietStep

LEMMA RegisterStep ==
  RInv /\ RInv' /\ [Next]_vars => [RegisterOfClient!Next]_(RegisterOfClient!vars)
<1> SUFFICES ASSUME RInv, RInv', [Next]_vars
             PROVE  RegisterOfClient!Next \/ UNCHANGED RegisterOfClient!vars
  OBVIOUS
<1>1. Writers \subseteq Clients
  BY ValueAssumption
<1>2. ASSUME NEW c \in Clients, NEW k \in Keys,
             \/ CallGet(c, k) \/ CallDelete(c, k)
             \/ \E ttl \in TTLs, big \in Sizes : CallSet(c, k, ttl, big)
      PROVE  RegisterOfClient!Next
  <2>1. c = client
    BY TheClient
  <2> QED
    BY <1>2, <2>1, RegisterCall
<1>3. ASSUME NEW c \in Clients, ClientStep(c)
      PROVE  RegisterOfClient!Next \/ UNCHANGED RegisterOfClient!vars
  <2>1. c = client
    BY TheClient
  <2> QED
    BY <1>3, <2>1, RegisterGet, RegisterDrop, RegisterPromote, RegisterFill,
       RegisterWriteLevel, RegisterEraseLevel DEF ClientStep
<1>4. ASSUME NEW m \in late, ExecuteLate(m)
      PROVE  FALSE
  BY <1>4 DEF RInv, AloneInv, AllExecuted
<1>5. CASE UNCHANGED vars
  BY <1>5 DEF vars, RegisterOfClient!vars, Kept, Answerable, Pending, Found, EntriesAt
<1> QED
  BY <1>1, <1>2, <1>3, <1>4, <1>5, RegisterRestart, RegisterLoss DEF Next

LEMMA RegisterInit == RInv /\ Init => RegisterOfClient!Init
<1> SUFFICES ASSUME RInv, Init
             PROVE  RegisterOfClient!Init
  OBVIOUS
<1>1. op[client].pc = "idle" /\ op[client].ent = NoEntry
  BY TheClient DEF Init, Call
<1>2. \A i \in DOMAIN Chain[client] : Held(store, client, i, key) \notin Entry
  BY TheClient, TheLevels DEF Init, Held
<1>3. \A v : ~ Answers(store, now, op[client], v)
  BY <1>1, <1>2 DEF Answers
<1>4. Kept = 0 /\ Len(writes) = 0
  BY <1>3, KeptIs DEF Init
<1>5. Pending = "none" /\ Found = 0 /\ dead = {}
  BY <1>1 DEF Pending, Found, Init
<1> QED
  BY <1>4, <1>5 DEF RegisterOfClient!Init

\* To a client that is alone with its levels and one key, MultiCache is a register
\* that forgets: through promotions, evictions, corruption, expirations and ends of
\* the process, a Get answers the value of the last Set or Delete that returned, or
\* that was cut short, or nothing; and what was replaced or forgotten does not come
\* back (MultiCache.Get, Set, Delete and propagateToEarlierCaches over the levels).
THEOREM CacheIsRegister == Alone /\ OneSurvives /\ OneKey /\ Spec => IsRegister
  BY InitReg, NextReg, RegisterInit, RegisterStep, PTL
     DEF Spec, IsRegister, RegisterOfClient!Spec

===============================================================================
