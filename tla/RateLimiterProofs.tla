--------------------------- MODULE RateLimiterProofs ---------------------------
(***************************************************************************)
(* The safety of RateLimiterManager for any number of threads, keys, key   *)
(* types and configurations.  What GetLimiter returned is compared with    *)
(* the map: within an epoch an entry of the map never changes (Returned),  *)
(* and a limiter never has two names (Owned).  With this every step is a   *)
(* step of LimiterTable or a stutter.                                      *)
(***************************************************************************)
EXTENDS RateLimiterManager, TLAPS

\* What was returned since the last SetConfig is in the map.
Returned ==
    \A r \in returned :
        r.epoch = epoch => keyToLimiter[limiterMapKey(r.key, r.type)] = r.lim

\* The map has no limiter under two names, nor under another than it was
\* returned under.
Owned ==
    /\ \A a, b \in MapKeys :
          keyToLimiter[a] = keyToLimiter[b] /\ keyToLimiter[a] # 0 => a = b
    /\ \A r \in returned : \A a \in MapKeys :
          keyToLimiter[a] = r.lim => a = limiterMapKey(r.key, r.type)

RInv == Types /\ LimitersCurrent /\ Returned /\ OneBucket /\ Owned /\ BucketsApart

-------------------------------------------------------------------------------
\* A name stands for one key of one type.
LEMMA MapKeyInjective ==
  ASSUME NEW k \in Keys, NEW s \in KeyTypes, NEW l \in Keys, NEW t \in KeyTypes,
         limiterMapKey(k, s) = limiterMapKey(l, t)
  PROVE  k = l /\ s = t
  BY KeyTypesAssumption DEF limiterMapKey

LEMMA MapKeyType ==
  ASSUME NEW k \in Keys, NEW s \in KeyTypes
  PROVE  limiterMapKey(k, s) \in MapKeys
  BY DEF MapKeys

\* A limiter admits requests whatever the configuration says.
LEMMA LimitsPositive ==
  ASSUME config \in Configs, NEW type \in KeyTypes
  PROVE  /\ limitForType(type) \in Nat \ {0}
         /\ burstForType(type, limitForType(type)) \in Nat \ {0}
<1>1. type \in DOMAIN config => config[type].rpm \in Int /\ config[type].burst \in Int
  BY ConfigsAssumption DEF RateLimit
<1>2. limitForType(type) \in Nat \ {0}
  BY <1>1 DEF limitForType
<1>3. defaultBurstForLimit(limitForType(type)) \in Nat \ {0}
  BY <1>2 DEF defaultBurstForLimit
<1> QED
  BY <1>1, <1>2, <1>3 DEF burstForType

LEMMA RInvInit == Init => RInv
<1> SUFFICES ASSUME Init
             PROVE  RInv
  OBVIOUS
<1>1. Types
  BY ConfigsAssumption DEF Init, Types
<1>2. LimitersCurrent
  BY MapKeyType DEF Init, LimitersCurrent
<1> QED
  BY <1>1, <1>2 DEF Init, RInv, Returned, OneBucket, Owned, BucketsApart

\* A limiter that is in the map is returned: by the lookup, or by the second look
\* of a thread that had missed it.
LEMMA RInvFound ==
  ASSUME RInv, NEW k \in Keys, NEW type \in KeyTypes,
         keyToLimiter[limiterMapKey(k, type)] # 0,
         Answer(k, type, keyToLimiter[limiterMapKey(k, type)]),
         UNCHANGED <<config, keyToLimiter, limiters, epoch>>,
         missed' \subseteq missed
  PROVE  RInv'
<1> DEFINE lim == keyToLimiter[limiterMapKey(k, type)]
           new == [key |-> k, type |-> type, lim |-> lim, epoch |-> epoch]
<1>1. returned' = returned \cup {new}
  BY DEF Answer
<1>2. lim \in 1..Len(limiters)
  BY MapKeyType DEF RInv, Types
<1>3. epoch \in Nat
  BY ConfigsAssumption DEF RInv, Types
<1>4. Types'
  BY <1>1, <1>2, <1>3 DEF RInv, Types
<1>5. LimitersCurrent'
  BY DEF RInv, LimitersCurrent, limitForType, burstForType
<1>6. Returned'
  BY <1>1 DEF RInv, Returned
<1>7. OneBucket'
  BY <1>1 DEF RInv, Returned, OneBucket
<1>8. Owned'
  BY <1>1, <1>2, MapKeyType DEF RInv, Owned
<1>9. BucketsApart'
  <2>1. ASSUME NEW r \in returned, r.lim = lim
        PROVE  r.key = k /\ r.type = type
    <3>1. limiterMapKey(k, type) = limiterMapKey(r.key, r.type)
      BY <2>1, MapKeyType DEF RInv, Owned
    <3> QED
      BY <3>1, MapKeyInjective DEF RInv, Types
  <2> QED
    BY <1>1, <2>1 DEF RInv, BucketsApart
<1> QED
  BY <1>4, <1>5, <1>6, <1>7, <1>8, <1>9 DEF RInv

\* A thread that has found nothing twice makes a limiter.
LEMMA RInvMade ==
  ASSUME RInv, NEW m \in missed, Create(m),
         keyToLimiter[limiterMapKey(m.key, m.type)] = 0
  PROVE  RInv'
<1> DEFINE mk == limiterMapKey(m.key, m.type)
           n == Len(limiters) + 1
           made == [limit |-> limitForType(m.type),
                    burst |-> burstForType(m.type, limitForType(m.type))]
           new == [key |-> m.key, type |-> m.type, lim |-> n, epoch |-> epoch]
<1>1. m.key \in Keys /\ m.type \in KeyTypes /\ mk \in MapKeys
  BY MapKeyType DEF RInv, Types
<1>2. made \in [limit : Nat \ {0}, burst : Nat \ {0}]
  BY <1>1, LimitsPositive DEF RInv, Types
<1>3. /\ limiters \in Seq([limit : Nat \ {0}, burst : Nat \ {0}])
      /\ Len(limiters) \in Nat
      /\ epoch \in Nat
  BY ConfigsAssumption DEF RInv, Types
<1>4. /\ limiters' = Append(limiters, made)
      /\ Len(limiters') = n
      /\ keyToLimiter' = [keyToLimiter EXCEPT ![mk] = n]
      /\ returned' = returned \cup {new}
      /\ missed' \subseteq missed
      /\ config' = config /\ epoch' = epoch
  BY <1>2, <1>3 DEF Create, Answer
<1>5. limiters'[n] = made /\ \A i \in 1..Len(limiters) : limiters'[i] = limiters[i]
  BY <1>2, <1>3, <1>4
<1>6. \A a \in MapKeys : /\ keyToLimiter[a] \in 0..Len(limiters)
                         /\ keyToLimiter'[a] = IF a = mk THEN n ELSE keyToLimiter[a]
  BY <1>1, <1>4 DEF RInv, Types
<1>7. \A r \in returned : r.key \in Keys /\ r.type \in KeyTypes /\ r.lim \in 1..Len(limiters)
  BY DEF RInv, Types
<1>8. Types'
  <2>1. keyToLimiter' \in [MapKeys -> 0..Len(limiters')]
    <3>1. keyToLimiter \in [MapKeys -> 0..n]
      BY <1>3 DEF RInv, Types
    <3>2. n \in 0..n
      BY <1>3
    <3>3. [keyToLimiter EXCEPT ![mk] = n] \in [MapKeys -> 0..n]
      BY ONLY <3>1, <3>2
    <3> QED
      BY <1>4, <3>3
  <2>2. limiters' \in Seq([limit : Nat \ {0}, burst : Nat \ {0}])
    BY <1>2, <1>3, <1>4
  <2>3. returned' \subseteq [key : Keys, type : KeyTypes, lim : 1..Len(limiters'),
                             epoch : 0..epoch']
    BY <1>1, <1>3, <1>4 DEF RInv, Types
  <2> QED
    BY <1>4, <2>1, <2>2, <2>3 DEF RInv, Types
<1>9. LimitersCurrent'
  <2> DEFINE name(k, type) == limiterMapKey(k, type)
  <2>1. \A type \in KeyTypes : /\ limitForType(type)' = limitForType(type)
                               /\ burstForType(type, limitForType(type))'
                                    = burstForType(type, limitForType(type))
    BY <1>4 DEF limitForType, burstForType
  <2>2. ASSUME NEW k \in Keys, NEW type \in KeyTypes, keyToLimiter'[name(k, type)] # 0
        PROVE  /\ limiters'[keyToLimiter'[name(k, type)]].limit = limitForType(type)
               /\ limiters'[keyToLimiter'[name(k, type)]].burst
                    = burstForType(type, limitForType(type))
    <3>1. CASE name(k, type) = mk
      <4>1. type = m.type /\ limiters'[keyToLimiter'[name(k, type)]] = made
        BY <3>1, <1>1, <1>5, <1>6, MapKeyInjective
      <4> QED
        BY <4>1
    <3>2. CASE name(k, type) # mk
      <4>1. /\ keyToLimiter'[name(k, type)] = keyToLimiter[name(k, type)]
            /\ keyToLimiter[name(k, type)] \in 1..Len(limiters)
        BY <2>2, <3>2, <1>3, <1>6, MapKeyType
      <4> QED
        BY <2>2, <4>1, <1>5 DEF RInv, LimitersCurrent
    <3> QED
      BY <3>1, <3>2
  <2> QED
    BY <2>1, <2>2 DEF LimitersCurrent
<1>10. Returned'
  <2>1. ASSUME NEW r \in returned, r.epoch = epoch
        PROVE  keyToLimiter'[limiterMapKey(r.key, r.type)] = r.lim
    <3>1. keyToLimiter[limiterMapKey(r.key, r.type)] = r.lim
      BY <2>1 DEF RInv, Returned
    <3> QED
      BY <3>1, <1>6, <1>7, MapKeyType
  <2> QED
    BY <2>1, <1>1, <1>4, <1>6 DEF Returned
<1>11. OneBucket'
  <2>1. ASSUME NEW r \in returned, r.key = m.key, r.type = m.type
        PROVE  r.epoch # epoch
    BY <2>1, <1>7 DEF RInv, Returned
  <2> QED
    BY <2>1, <1>4 DEF RInv, OneBucket
<1>12. Owned'
  BY <1>1, <1>3, <1>4, <1>6, <1>7 DEF RInv, Owned
<1>13. BucketsApart'
  BY <1>3, <1>4, <1>7 DEF RInv, BucketsApart
<1> QED
  BY <1>8, <1>9, <1>10, <1>11, <1>12, <1>13 DEF RInv

LEMMA RInvLookUp ==
  ASSUME RInv, NEW t \in Threads, NEW k \in Keys, NEW type \in KeyTypes, LookUp(t, k, type)
  PROVE  RInv'
<1>1. CASE keyToLimiter[limiterMapKey(k, type)] # 0
  BY <1>1, RInvFound DEF LookUp
<1>2. CASE keyToLimiter[limiterMapKey(k, type)] = 0
  <2>1. UNCHANGED <<config, keyToLimiter, limiters, epoch, returned>>
    BY <1>2 DEF LookUp
  <2>2. missed' \subseteq [thread : Threads, key : Keys, type : KeyTypes]
    BY <1>2 DEF LookUp, RInv, Types
  <2> QED
    BY <2>1, <2>2 DEF RInv, Types, LimitersCurrent, Returned, OneBucket, Owned,
                      BucketsApart, limitForType, burstForType
<1> QED
  BY <1>1, <1>2

LEMMA RInvCreate ==
  ASSUME RInv, NEW m \in missed, Create(m)
  PROVE  RInv'
<1>1. CASE keyToLimiter[limiterMapKey(m.key, m.type)] # 0
  <2>1. m.key \in Keys /\ m.type \in KeyTypes
    BY DEF RInv, Types
  <2> QED
    BY <1>1, <2>1, RInvFound DEF Create
<1> QED
  BY <1>1, RInvMade

\* The limiters go, and an epoch begins in which nothing has been returned.
LEMMA RInvSetConfig ==
  ASSUME RInv, NEW c \in Configs, SetConfig(c)
  PROVE  RInv'
<1>1. /\ config' = c /\ epoch' = epoch + 1 /\ epoch \in Nat /\ epoch < MaxEpochs
      /\ MaxEpochs \in Nat
      /\ keyToLimiter' = [mk \in MapKeys |-> 0]
      /\ UNCHANGED <<limiters, missed, returned>>
  BY ConfigsAssumption DEF SetConfig, RInv, Types
<1>2. \A r \in returned : r.epoch \in 0..epoch /\ r.lim \in 1..Len(limiters)
  BY DEF RInv, Types
<1>3. Types'
  <2>1. keyToLimiter' \in [MapKeys -> 0..Len(limiters')]
    BY <1>1 DEF RInv, Types
  <2>2. epoch' \in 0..MaxEpochs
    BY <1>1
  <2>3. \A r \in returned : r \in [key : Keys, type : KeyTypes, lim : 1..Len(limiters),
                                   epoch : 0 .. epoch + 1]
    BY <1>1 DEF RInv, Types
  <2> QED
    BY <1>1, <2>1, <2>2, <2>3 DEF RInv, Types
<1>4. LimitersCurrent'
  BY <1>1, MapKeyType DEF LimitersCurrent
<1>5. Returned'
  BY <1>1, <1>2 DEF Returned
<1>6. OneBucket' /\ BucketsApart'
  BY <1>1 DEF RInv, OneBucket, BucketsApart
<1>7. Owned'
  BY <1>1, <1>2 DEF Owned
<1> QED
  BY <1>3, <1>4, <1>5, <1>6, <1>7 DEF RInv

LEMMA RInvAlways == Spec => []RInv
<1>1. RInv /\ [Next]_vars => RInv'
  <2> SUFFICES ASSUME RInv, [Next]_vars
               PROVE  RInv'
    OBVIOUS
  <2>1. CASE UNCHANGED vars
    BY <2>1 DEF vars, RInv, Types, LimitersCurrent, Returned, OneBucket, Owned,
                BucketsApart, limitForType, burstForType
  <2> QED
    BY <2>1, RInvLookUp, RInvCreate, RInvSetConfig DEF Next
<1> QED
  BY <1>1, RInvInit, PTL DEF Spec

-------------------------------------------------------------------------------
\* A limiter made without a configured burst has that of a second, rounded up.
LEMMA BurstOfASecond ==
  ASSUME RInv
  PROVE  BurstForASecond
<1> SUFFICES ASSUME NEW k \in Keys, NEW type \in KeyTypes,
                    keyToLimiter[limiterMapKey(k, type)] # 0,
                    ~ (type \in DOMAIN config /\ config[type].burst > 0)
             PROVE  LET lim == keyToLimiter[limiterMapKey(k, type)]
                    IN /\ limiters[lim].limit <= 60 * limiters[lim].burst
                       /\ 60 * limiters[lim].burst < limiters[lim].limit + 60
  BY DEF BurstForASecond
<1> DEFINE lim == keyToLimiter[limiterMapKey(k, type)]
<1>1. /\ limiters[lim].limit = limitForType(type)
      /\ limiters[lim].burst = defaultBurstForLimit(limitForType(type))
  BY DEF RInv, LimitersCurrent, burstForType
<1>2. limitForType(type) \in Nat \ {0}
  BY LimitsPositive DEF RInv, Types
<1>3. \A n \in Nat \ {0} : /\ n <= 60 * defaultBurstForLimit(n)
                           /\ 60 * defaultBurstForLimit(n) < n + 60
  BY DEF defaultBurstForLimit
<1> QED
  BY <1>1, <1>2, <1>3

\* Every limiter admits requests, with the burst of a second unless another is
\* configured, and the map holds limiters that were made.
THEOREM LimiterTypes == Spec => []TypeOK
<1>1. RInv => TypeOK
  BY BurstOfASecond DEF RInv, TypeOK
<1> QED
  BY <1>1, RInvAlways, PTL

\* Between two calls of SetConfig a key of a type has one limiter, however many
\* threads ask for it for the first time at once.
THEOREM OneBucketPerKey == Spec => []OneBucket
  BY RInvAlways, PTL DEF RInv

\* No two keys are given the same limiter, over all configurations.
THEOREM KeysApart == Spec => []BucketsApart
  BY RInvAlways, PTL DEF RInv

\* The map holds no limiter of an earlier configuration.
THEOREM LimitersAreCurrent == Spec => []LimitersCurrent
  BY RInvAlways, PTL DEF RInv

-------------------------------------------------------------------------------
(* The manager implements LimiterTable.                                    *)

\* The table that the map stands for.
BucketOf == [p \in Keys \X KeyTypes |-> keyToLimiter[limiterMapKey(p[1], p[2])]]

\* A limiter found, under either lock, is the bucket of the table.
LEMMA FoundInTable ==
  ASSUME NEW k \in Keys, NEW type \in KeyTypes,
         keyToLimiter[limiterMapKey(k, type)] # 0,
         Answer(k, type, keyToLimiter[limiterMapKey(k, type)]),
         UNCHANGED <<keyToLimiter, limiters, epoch>>
  PROVE  Table!GetLimiter(<<k, type>>)
<1> DEFINE p == <<k, type>>
<1>1. p \in Keys \X KeyTypes /\ p[1] = k /\ p[2] = type
  OBVIOUS
<1>2. BucketOf[p] = keyToLimiter[limiterMapKey(k, type)] /\ BucketOf' = BucketOf
  BY <1>1 DEF BucketOf
<1> QED
  BY <1>1, <1>2 DEF Table!GetLimiter, Answer, BucketOf

\* A limiter made is put under the name of one pair only.
LEMMA MadeInTable ==
  ASSUME RInv, NEW m \in missed, Create(m),
         keyToLimiter[limiterMapKey(m.key, m.type)] = 0
  PROVE  Table!GetLimiter(<<m.key, m.type>>)
<1> DEFINE p == <<m.key, m.type>>
           n == Len(limiters) + 1
           mk == limiterMapKey(m.key, m.type)
<1>1. m.key \in Keys /\ m.type \in KeyTypes /\ mk \in MapKeys
  BY MapKeyType DEF RInv, Types
<1>2. p \in Keys \X KeyTypes /\ p[1] = m.key /\ p[2] = m.type
  BY <1>1
<1>3. /\ Len(limiters') = n
      /\ keyToLimiter' = [keyToLimiter EXCEPT ![mk] = n]
      /\ returned' = returned \cup {[key |-> m.key, type |-> m.type, lim |-> n, epoch |-> epoch]}
      /\ epoch' = epoch
  <2>1. limiters \in Seq([limit : Nat \ {0}, burst : Nat \ {0}])
    BY DEF RInv, Types
  <2>2. [limit |-> limitForType(m.type), burst |-> burstForType(m.type, limitForType(m.type))]
           \in [limit : Nat \ {0}, burst : Nat \ {0}]
    BY <1>1, LimitsPositive DEF RInv, Types
  <2> QED
    BY <2>1, <2>2 DEF Create, Answer
<1>4. BucketOf[p] = 0
  BY <1>2 DEF BucketOf
<1>5. BucketOf' = [BucketOf EXCEPT ![p] = n]
  <2>1. ASSUME NEW q \in Keys \X KeyTypes
        PROVE  BucketOf'[q] = IF q = p THEN n ELSE BucketOf[q]
    <3>1. limiterMapKey(q[1], q[2]) = mk => q[1] = m.key /\ q[2] = m.type
      BY <1>1, MapKeyInjective
    <3>2. limiterMapKey(q[1], q[2]) \in MapKeys /\ q = <<q[1], q[2]>>
      BY MapKeyType
    <3>3. DOMAIN keyToLimiter = MapKeys
      BY DEF RInv, Types
    <3> QED
      BY <1>2, <1>3, <3>1, <3>2, <3>3 DEF BucketOf
  <2>2. /\ BucketOf' = [q \in Keys \X KeyTypes |-> BucketOf'[q]]
        /\ DOMAIN BucketOf = Keys \X KeyTypes
    BY DEF BucketOf
  <2> QED
    BY <1>2, <2>1, <2>2
<1> QED
  BY <1>2, <1>3, <1>4, <1>5 DEF Table!GetLimiter, BucketOf

\* The map emptied is the table emptied, whatever names were in it.
LEMMA TableEmptied ==
  ASSUME NEW c \in Configs, SetConfig(c)
  PROVE  Table!SetConfig
<1>1. BucketOf' = [p \in Keys \X KeyTypes |-> 0]
  BY MapKeyType DEF SetConfig, BucketOf
<1> QED
  BY <1>1 DEF SetConfig, Table!SetConfig, Table!Pairs, BucketOf

\* A lookup that misses, though it ends GetLimiter's first critical section, is no
\* step of the table.
LEMMA TableStep == RInv /\ [Next]_vars => [Table!Next]_(Table!vars)
<1> SUFFICES ASSUME RInv, [Next]_vars
             PROVE  [Table!Next]_(Table!vars)
  OBVIOUS
<1> DEFINE get(k, type) == Table!GetLimiter(<<k, type>>)
<1>1. \A k \in Keys, type \in KeyTypes : get(k, type) => Table!Next
  BY DEF Table!Next, Table!Pairs
<1>2. ASSUME NEW t \in Threads, NEW k \in Keys, NEW type \in KeyTypes, LookUp(t, k, type)
      PROVE  [Table!Next]_(Table!vars)
  <2>1. CASE keyToLimiter[limiterMapKey(k, type)] # 0
    BY <1>1, <1>2, <2>1, FoundInTable DEF LookUp
  <2>2. CASE keyToLimiter[limiterMapKey(k, type)] = 0
    BY <1>2, <2>2 DEF LookUp, Table!vars
  <2> QED
    BY <2>1, <2>2
<1>3. ASSUME NEW m \in missed, Create(m)
      PROVE  [Table!Next]_(Table!vars)
  <2>1. m.key \in Keys /\ m.type \in KeyTypes
    BY DEF RInv, Types
  <2>2. CASE keyToLimiter[limiterMapKey(m.key, m.type)] # 0
    BY <1>1, <1>3, <2>1, <2>2, FoundInTable DEF Create
  <2>3. CASE keyToLimiter[limiterMapKey(m.key, m.type)] = 0
    BY <1>1, <1>3, <2>1, <2>3, MadeInTable
  <2> QED
    BY <2>2, <2>3
<1>4. ASSUME NEW c \in Configs, SetConfig(c)
      PROVE  [Table!Next]_(Table!vars)
  BY <1>4, TableEmptied DEF Table!Next
<1>5. CASE UNCHANGED vars
  BY <1>5 DEF vars, Table!vars
<1> QED
  BY <1>2, <1>3, <1>4, <1>5 DEF Next

\* Every behaviour of the manager is one of a table from which buckets are taken
\* in single steps: to callers, GetLimiter is atomic.
THEOREM GetLimiterAtomic == Spec => Atomic
<1>1. Init => Table!Init
  BY MapKeyType DEF Init, Table!Init, Table!Pairs
<1> QED
  BY <1>1, TableStep, RInvAlways, PTL DEF Spec, Atomic, Table!Spec

===============================================================================
