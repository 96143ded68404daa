-------------------------- MODULE RateLimiterManager --------------------------
(***************************************************************************)
(* The per-key rate limiters (ratelimit/manager.go).  A critical section   *)
(* under m.mu calls nothing, so it is one step; GetLimiter has two of      *)
(* them, one to look under the read lock and one to look again and create  *)
(* under the write lock.  The token bucket itself (x/time/rate) stays      *)
(* outside: a limiter is the limit and the burst it was made with.         *)
(***************************************************************************)
EXTENDS Integers, Sequences

CONSTANTS
    Threads,
    Keys,           \* API keys
    KeyTypes,       \* apikeys.KeyType, an int
    Configs,        \* configurations given to SetConfig
    MaxEpochs       \* bound: SetConfig calls

RateLimit == [rpm : Int, burst : Int]

\* A configuration maps some of the key types to their limits.
ASSUME ConfigsAssumption ==
    /\ KeyTypes \subseteq Int
    /\ \A config \in Configs :
          /\ DOMAIN config \subseteq KeyTypes
          /\ \A t \in DOMAIN config : config[t] \in RateLimit
    /\ MaxEpochs \in Nat

\* string(rune(keyType)): what is not a Unicode code point becomes U+FFFD.
CodePoint(t) ==
    IF t < 0 \/ t > 1114111 \/ (55296 <= t /\ t <= 57343) THEN 65533 ELSE t

\* No two key types share a code point (limiterMapKey would not tell them apart).
ASSUME KeyTypesAssumption ==
    \A s, t \in KeyTypes : CodePoint(s) = CodePoint(t) => s = t

VARIABLES
    config,         \* m.config
    keyToLimiter,   \* m.keyToLimiter: the number of a limiter, 0 if there is none
    limiters,       \* every limiter made so far
    missed,         \* GetLimiter calls that found no limiter under the read lock
    epoch,          \* history: SetConfig calls so far
    returned        \* history: what GetLimiter returned

vars == <<config, keyToLimiter, limiters, missed, epoch, returned>>

-------------------------------------------------------------------------------
(* Pure parts.  Limits are per minute, where the code has them per second. *)

\* Mutant: the type is left out.
limiterMapKeyNoType(key, type) == <<0, key>>

\* The separator after the one rune keeps the two parts apart.
limiterMapKey(key, type) == <<CodePoint(type), key>>

MapKeys == {limiterMapKey(k, t) : k \in Keys, t \in KeyTypes}

limitForType(type) ==
    IF type \in DOMAIN config /\ config[type].rpm > 0 THEN config[type].rpm ELSE 30

\* Mutant: the rate of a second is rounded down.
defaultBurstRoundedDown(limit) == IF limit <= 60 THEN 1 ELSE limit \div 60

defaultBurstForLimit(limit) == IF limit <= 60 THEN 1 ELSE (limit + 59) \div 60

burstForType(type, limit) ==
    IF type \in DOMAIN config /\ config[type].burst > 0
    THEN config[type].burst
    ELSE defaultBurstForLimit(limit)

-------------------------------------------------------------------------------
Init ==
    /\ config \in Configs
    /\ keyToLimiter = [mk \in MapKeys |-> 0]
    /\ limiters = <<>>
    /\ missed = {}
    /\ epoch = 0
    /\ returned = {}

Answer(key, type, lim) ==
    returned' = returned \cup {[key |-> key, type |-> type, lim |-> lim, epoch |-> epoch]}

\* GetLimiter under the read lock.
LookUp(t, key, type) ==
    /\ \A m \in missed : m.thread # t
    /\ LET lim == keyToLimiter[limiterMapKey(key, type)]
       IN IF lim # 0
          THEN /\ Answer(key, type, lim)
               /\ UNCHANGED missed
          ELSE /\ missed' = missed \cup {[thread |-> t, key |-> key, type |-> type]}
               /\ UNCHANGED returned
    /\ UNCHANGED <<config, keyToLimiter, limiters, epoch>>

\* Mutant: what was missed a moment ago is made without looking again.
CreateBlindly(m) ==
    LET limit == limitForType(m.type)
    IN /\ missed' = missed \ {m}
       /\ limiters' = Append(limiters,
                             [limit |-> limit, burst |-> burstForType(m.type, limit)])
       /\ keyToLimiter' = [keyToLimiter EXCEPT ![limiterMapKey(m.key, m.type)] =
                              Len(limiters')]
       /\ Answer(m.key, m.type, Len(limiters'))
       /\ UNCHANGED <<config, epoch>>

\* Mutant: the new limiter is returned and not put in the map.
CreateUnstored(m) ==
    LET limit == limitForType(m.type)
    IN /\ missed' = missed \ {m}
       /\ limiters' = Append(limiters,
                             [limit |-> limit, burst |-> burstForType(m.type, limit)])
       /\ Answer(m.key, m.type, Len(limiters'))
       /\ UNCHANGED <<config, keyToLimiter, epoch>>

\* GetLimiter under the write lock.
Create(m) ==
    LET lim == keyToLimiter[limiterMapKey(m.key, m.type)]
        limit == limitForType(m.type)
    IN /\ missed' = missed \ {m}
       /\ IF lim # 0
          THEN /\ Answer(m.key, m.type, lim)
               /\ UNCHANGED <<keyToLimiter, limiters>>
          ELSE /\ limiters' = Append(limiters,
                                     [limit |-> limit, burst |-> burstForType(m.type, limit)])
               /\ keyToLimiter' = [keyToLimiter EXCEPT ![limiterMapKey(m.key, m.type)] =
                                      Len(limiters')]
               /\ Answer(m.key, m.type, Len(limiters'))
       /\ UNCHANGED <<config, epoch>>

\* Mutant: the limiters made so far stay.
SetConfigKeep(newConfig) ==
    /\ epoch < MaxEpochs
    /\ config' = newConfig
    /\ epoch' = epoch + 1
    /\ UNCHANGED <<keyToLimiter, limiters, missed, returned>>

SetConfig(newConfig) ==
    /\ epoch < MaxEpochs
    /\ config' = newConfig
    /\ keyToLimiter' = [mk \in MapKeys |-> 0]
    /\ epoch' = epoch + 1
    /\ UNCHANGED <<limiters, missed, returned>>

Next ==
    \/ \E t \in Threads, k \in Keys, type \in KeyTypes : LookUp(t, k, type)
    \/ \E m \in missed : Create(m)
    \/ \E c \in Configs : SetConfig(c)

Spec == Init /\ [][Next]_vars

-------------------------------------------------------------------------------
(* Properties.                                                             *)

Types ==
    /\ config \in Configs
    /\ keyToLimiter \in [MapKeys -> 0..Len(limiters)]
    /\ limiters \in Seq([limit : Nat \ {0}, burst : Nat \ {0}])
    /\ missed \subseteq [thread : Threads, key : Keys, type : KeyTypes]
    /\ epoch \in 0..MaxEpochs
    /\ returned \subseteq [key : Keys, type : KeyTypes, lim : 1..Len(limiters),
                           epoch : 0..epoch]

\* Where no burst is configured: the least number of requests, and at least one,
\* that is not less than the rate of a second.
BurstForASecond ==
    \A k \in Keys, type \in KeyTypes :
        LET lim == keyToLimiter[limiterMapKey(k, type)]
        IN lim # 0 /\ ~ (type \in DOMAIN config /\ config[type].burst > 0) =>
              /\ limiters[lim].limit <= 60 * limiters[lim].burst
              /\ 60 * limiters[lim].burst < limiters[lim].limit + 60

\* A limiter is a number of one that was made; limiters can admit requests: limit
\* and burst are at least one, and without a configured burst the burst is the
\* rate of a second, rounded up.
TypeOK == Types /\ BurstForASecond

\* Whoever asks for the limiter of a key between two SetConfig calls gets the
\* same one: a key has one token bucket, not one per thread that asked first.
OneBucket ==
    \A r, q \in returned :
        r.key = q.key /\ r.type = q.type /\ r.epoch = q.epoch => r.lim = q.lim

\* Two keys, or one key under two types, never draw from one bucket.
BucketsApart ==
    \A r, q \in returned :
        r.lim = q.lim => r.key = q.key /\ r.type = q.type

\* The limiters in the map are those of the present configuration: a thread that
\* missed before SetConfig does not bring back an old limit after it.
LimitersCurrent ==
    \A k \in Keys, type \in KeyTypes :
        LET lim == keyToLimiter[limiterMapKey(k, type)]
        IN lim # 0 => /\ limiters[lim].limit = limitForType(type)
                      /\ limiters[lim].burst = burstForType(type, limitForType(type))

\* The table that a map of limiters stands for.
Table == INSTANCE LimiterTable WITH
    table <- [p \in Keys \X KeyTypes |-> keyToLimiter[limiterMapKey(p[1], p[2])]],
    made <- Len(limiters),
    answers <- returned

\* GetLimiter is atomic to whoever calls it, although it looks under one lock and
\* creates under another and SetConfig may come between: the manager implements
\* a table from which a bucket is taken in one step.
Atomic == Table!Spec

===============================================================================
