---------------------------- MODULE APIKeysProofs ----------------------------
(***************************************************************************)
(* Theorems about the selection of keys: the invariants of APIKeys for any *)
(* requests, keys, key types, lists of the provider and backoff time.      *)
(***************************************************************************)
EXTENDS APIKeys, TLAPS

-------------------------------------------------------------------------------
(* The inductive invariant.  What it says of a request depends on the      *)
(* request, on the failures recorded and on the clock only, and outlasts   *)
(* every later failure and moment.                                         *)

APIKeyRecord == [key : AllKeys, type : {keyTypes[n] : n \in DOMAIN keyTypes}, alone : BOOLEAN]

CallRecord ==
    [ pc : {"type", "key", "try", "mark", "served", "failed"},
      type : Nat \ {0}, i : Nat \ {0},
      keys : Seq(AllKeys), available : Seq(APIKeyRecord),
      begun : Int, failedThen : [AllKeys -> Moment],
      leftOut : SUBSET AllKeys, erred : SUBSET AllKeys ]

\* No failure is forgotten and none is dated back.
Later(failed1, failed2) ==
    \A k \in AllKeys : failed1[k] # Never => failed2[k] # Never /\ failed1[k] <= failed2[k]

\* A request knows no failure that is not recorded, and its decisions were made on
\* what had been recorded when they were made.
Justified(c, failed, time) ==
    /\ c.begun <= time
    /\ Later(c.failedThen, failed)
    /\ \A n \in DOMAIN c.available :
          LET a == c.available[n]
          IN ~ a.alone /\ a.key # EmptyKey /\ c.failedThen[a.key] # Never
                => c.failedThen[a.key] + backoffTime <= time
    /\ \A k \in c.leftOut : failed[k] # Never /\ failed[k] + backoffTime > c.begun
    /\ \A k \in c.erred \ {EmptyKey} : failed[k] # Never /\ failed[k] >= c.begun

Positions(c) ==
    /\ c.pc = "key" => c.i \in DOMAIN c.keys /\ c.type \in DOMAIN keyTypes
    /\ c.pc = "mark" => c.i \in DOMAIN c.available

AInv ==
    /\ now \in Nat
    /\ lastFailed \in [AllKeys -> Moment]
    /\ \A k \in AllKeys : lastFailed[k] # Never => lastFailed[k] <= now
    /\ provided \in KeyLists
    /\ call \in [Threads -> CallRecord]
    /\ \A t \in Threads : Positions(call[t]) /\ Justified(call[t], lastFailed, now)
-------------------------------------------------------------------------------
(* Lemmas about requests.                                                  *)

LEMMA Moments ==
    ASSUME NEW f \in [AllKeys -> Moment], NEW k \in AllKeys, f[k] # Never
    PROVE  f[k] \in Int
BY DEF Moment

LEMMA FieldTypes ==
    ASSUME NEW c \in CallRecord
    PROVE  /\ c.pc \in {"type", "key", "try", "mark", "served", "failed"}
           /\ c.type \in Nat \ {0} /\ c.i \in Nat \ {0}
           /\ c.keys \in Seq(AllKeys) /\ c.available \in Seq(APIKeyRecord)
           /\ c.begun \in Int /\ c.failedThen \in [AllKeys -> Moment]
           /\ c.leftOut \subseteq AllKeys /\ c.erred \subseteq AllKeys
BY DEF CallRecord

LEMMA OfferedKey ==
    ASSUME NEW c \in CallRecord, NEW n \in DOMAIN c.available
    PROVE  c.available[n] \in APIKeyRecord /\ c.available[n].key \in AllKeys
<1>1. c.available[n] \in APIKeyRecord
  BY FieldTypes
<1> QED
  BY <1>1 DEF APIKeyRecord

\* What is justified stays so, whatever fails and however long it takes.
LEMMA JustifiedLater ==
    ASSUME NEW c \in CallRecord,
           NEW failed1 \in [AllKeys -> Moment], NEW failed2 \in [AllKeys -> Moment],
           NEW time1 \in Int, NEW time2 \in Int, time1 <= time2,
           Later(failed1, failed2), Justified(c, failed1, time1)
    PROVE  Justified(c, failed2, time2)
<1> USE APIKeysAssumption
<1>1. \A k \in AllKeys : failed1[k] # Never =>
         /\ failed2[k] # Never /\ failed1[k] <= failed2[k]
         /\ failed1[k] \in Int /\ failed2[k] \in Int
  BY Moments DEF Later
<1>2. c.begun \in Int /\ c.failedThen \in [AllKeys -> Moment]
  BY FieldTypes
<1>3. c.begun <= time2
  BY <1>2 DEF Justified
<1>4. Later(c.failedThen, failed2)
  <2> SUFFICES ASSUME NEW k \in AllKeys, c.failedThen[k] # Never
               PROVE  failed2[k] # Never /\ c.failedThen[k] <= failed2[k]
    BY DEF Later
  <2>1. failed1[k] # Never /\ c.failedThen[k] <= failed1[k]
    BY DEF Justified, Later
  <2>2. c.failedThen[k] \in Int
    BY <1>2, Moments
  <2> QED
    BY <1>1, <2>1, <2>2
<1>5. ASSUME NEW n \in DOMAIN c.available,
             ~ c.available[n].alone, c.available[n].key # EmptyKey,
             c.failedThen[c.available[n].key] # Never
      PROVE  c.failedThen[c.available[n].key] + backoffTime <= time2
  <2> DEFINE then == c.failedThen[c.available[n].key]
  <2>1. then + backoffTime <= time1
    BY <1>5 DEF Justified
  <2>2. then \in Int
    BY <1>2, <1>5, OfferedKey, Moments
  <2> HIDE DEF then
  <2>3. then + backoffTime <= time2
    BY <2>1, <2>2
  <2> QED
    BY <2>3 DEF then
<1>6. ASSUME NEW k \in c.leftOut
      PROVE  failed2[k] # Never /\ failed2[k] + backoffTime > c.begun
  <2>1. k \in AllKeys
    BY FieldTypes
  <2>2. failed1[k] # Never /\ failed1[k] + backoffTime > c.begun
    BY DEF Justified
  <2> QED
    BY <1>1, <1>2, <2>1, <2>2
<1>7. ASSUME NEW k \in c.erred \ {EmptyKey}
      PROVE  failed2[k] # Never /\ failed2[k] >= c.begun
  <2>1. k \in AllKeys
    BY FieldTypes
  <2>2. failed1[k] # Never /\ failed1[k] >= c.begun
    BY DEF Justified
  <2> QED
    BY <1>1, <1>2, <2>1, <2>2
<1> QED
  BY <1>3, <1>4, <1>5, <1>6, <1>7 DEF Justified

\* A step of one request while failures and time may have advanced.
LEMMA CallStep ==
    ASSUME AInv, NEW t \in Threads, NEW d \in CallRecord,
           call' = [call EXCEPT ![t] = d], Positions(d),
           lastFailed' \in [AllKeys -> Moment], Later(lastFailed, lastFailed'),
           \A k \in AllKeys : lastFailed'[k] # Never => lastFailed'[k] <= now,
           Justified(d, lastFailed', now),
           UNCHANGED <<now, provided>>
    PROVE  AInv'
<1>1. now \in Nat /\ lastFailed \in [AllKeys -> Moment] /\ call \in [Threads -> CallRecord]
  BY DEF AInv
<1>2. call' \in [Threads -> CallRecord]
  BY <1>1
<1>3. ASSUME NEW u \in Threads PROVE Positions(call'[u]) /\ Justified(call'[u], lastFailed', now)
  <2>1. CASE u = t
    BY <1>1, <2>1
  <2>2. CASE u # t
    <3>1. call'[u] = call[u] /\ call[u] \in CallRecord
      BY <1>1, <2>2
    <3>2. Positions(call[u]) /\ Justified(call[u], lastFailed, now)
      BY DEF AInv
    <3>3. now \in Int /\ now <= now
      BY <1>1
    <3>4. Justified(call[u], lastFailed', now)
      BY <1>1, <3>1, <3>2, <3>3, JustifiedLater
    <3> QED
      BY <3>1, <3>2, <3>4
  <2> QED
    BY <2>1, <2>2
<1>4. \A u \in Threads : (Positions(call[u]) /\ Justified(call[u], lastFailed, now))'
  BY <1>3 DEF Positions, Justified, Later
<1> QED
  BY <1>2, <1>4 DEF AInv
LEMMA LaterReflexive ==
    ASSUME NEW f \in [AllKeys -> Moment]
    PROVE  Later(f, f)
<1> SUFFICES ASSUME NEW k \in AllKeys, f[k] # Never PROVE f[k] <= f[k]
  BY DEF Later
<1> QED
  BY Moments

\* A step of one request in which no failure is recorded.
LEMMA CallStepOnly ==
    ASSUME AInv, NEW t \in Threads, NEW d \in CallRecord,
           call' = [call EXCEPT ![t] = d], Positions(d),
           Justified(d, lastFailed, now),
           UNCHANGED <<now, lastFailed, provided>>
    PROVE  AInv'
<1>1. lastFailed \in [AllKeys -> Moment] /\ Later(lastFailed, lastFailed)
  BY LaterReflexive DEF AInv
<1>2. /\ lastFailed' \in [AllKeys -> Moment] /\ Later(lastFailed, lastFailed')
      /\ Justified(d, lastFailed', now)
  BY <1>1
<1>3. \A k \in AllKeys : lastFailed'[k] # Never => lastFailed'[k] <= now
  BY DEF AInv
<1>4. UNCHANGED <<now, provided>>
  OBVIOUS
<1> QED
  BY <1>2, <1>3, <1>4, CallStep

\* The fields on which Positions and Justified depend.
LEMMA SameChoices ==
    ASSUME NEW c, NEW d, NEW failed, NEW time, Justified(c, failed, time),
           d.begun = c.begun, d.failedThen = c.failedThen, d.available = c.available,
           d.leftOut = c.leftOut, d.erred = c.erred
    PROVE  Justified(d, failed, time)
BY DEF Justified

\* A request that begins, and one that is over.
LEMMA NewCalls ==
    ASSUME AInv
    PROVE  NewCall \in CallRecord /\ Positions(NewCall) /\ Justified(NewCall, lastFailed, now)
<1>1. now \in Nat /\ lastFailed \in [AllKeys -> Moment]
  BY DEF AInv
<1>2. NewCall \in CallRecord
  BY <1>1 DEF NewCall, CallRecord
<1>3. Later(lastFailed, lastFailed)
  BY <1>1, LaterReflexive
<1> QED
  BY <1>1, <1>2, <1>3 DEF NewCall, Positions, Justified

LEMMA CallsOver ==
    ASSUME AInv, NEW c \in CallRecord, Justified(c, lastFailed, now),
           NEW outcome \in {"served", "failed"}
    PROVE  /\ Over(c, outcome) \in CallRecord
           /\ Positions(Over(c, outcome))
           /\ Justified(Over(c, outcome), lastFailed, now)
<1> USE APIKeysAssumption
<1> DEFINE d == Over(c, outcome)
<1>1. /\ now \in Nat /\ c.begun \in Int /\ c.erred \subseteq AllKeys
      /\ NewCall \in CallRecord
  BY FieldTypes, NewCalls DEF AInv
<1>2. /\ d.pc = outcome /\ d.i = 1 /\ d.available = <<>> /\ d.leftOut = {}
      /\ d.begun = IF outcome = "failed" THEN c.begun ELSE 0
      /\ d.failedThen = [k \in AllKeys |-> Never]
      /\ d.erred = IF outcome = "failed" THEN c.erred ELSE {}
  BY DEF Over, NewCall
<1>3. [k \in AllKeys |-> Never] \in [AllKeys -> Moment]
  BY DEF Moment
<1>4. d \in CallRecord
  <2>1. ASSUME NEW r \in CallRecord, NEW b \in Int, NEW f \in [AllKeys -> Moment],
               NEW e \in SUBSET AllKeys
        PROVE  [r EXCEPT !.pc = outcome, !.begun = b, !.failedThen = f, !.erred = e]
                   \in CallRecord
    BY DEF CallRecord
  <2> DEFINE b == IF outcome = "failed" THEN c.begun ELSE 0
             f == [k \in AllKeys |-> Never]
             e == IF outcome = "failed" THEN c.erred ELSE {}
  <2>2. b \in Int /\ f \in [AllKeys -> Moment] /\ e \in SUBSET AllKeys
    BY <1>1, <1>3
  <2>3. d = [NewCall EXCEPT !.pc = outcome, !.begun = b, !.failedThen = f, !.erred = e]
    BY DEF Over
  <2> HIDE DEF b, f, e, d
  <2> QED
    BY <1>1, <2>1, <2>2, <2>3
<1> HIDE DEF d
<1>5. Positions(d)
  BY <1>2 DEF Positions
<1>6. d.begun <= now
  BY <1>1, <1>2 DEF Justified
<1>7. Later(d.failedThen, lastFailed)
  BY <1>2 DEF Later
<1>8. \A k \in d.erred \ {EmptyKey} : lastFailed[k] # Never /\ lastFailed[k] >= d.begun
  BY <1>2 DEF Justified
<1>9. DOMAIN d.available = {}
  BY <1>2
<1>10. Justified(d, lastFailed, now)
  BY <1>2, <1>6, <1>7, <1>8, <1>9 DEF Justified
<1> QED
  BY <1>4, <1>5, <1>10 DEF d

\* A key is added to those available: alone, or after its backoff.
LEMMA Offered ==
    ASSUME NEW c \in CallRecord, NEW d, NEW a \in APIKeyRecord,
           NEW failed \in [AllKeys -> Moment], NEW time \in Int, Justified(c, failed, time),
           d.available = Append(c.available, a),
           d.begun = c.begun, d.failedThen = c.failedThen,
           d.leftOut = c.leftOut, d.erred = c.erred,
           a.alone \/ a.key = EmptyKey \/ failed[a.key] = Never \/ time - failed[a.key] >= backoffTime
    PROVE  Justified(d, failed, time)
<1> USE APIKeysAssumption
<1>1. c.available \in Seq(APIKeyRecord) /\ c.failedThen \in [AllKeys -> Moment]
  BY FieldTypes
<1>2. /\ DOMAIN d.available = 1 .. Len(c.available) + 1
      /\ d.available[Len(c.available) + 1] = a
      /\ \A n \in DOMAIN c.available : d.available[n] = c.available[n]
      /\ DOMAIN c.available = 1 .. Len(c.available) /\ Len(c.available) \in Nat
  BY <1>1
<1>3. ASSUME ~ a.alone, a.key # EmptyKey, c.failedThen[a.key] # Never
      PROVE  c.failedThen[a.key] + backoffTime <= time
  <2>1. a.key \in AllKeys
    BY DEF APIKeyRecord
  <2>2. /\ failed[a.key] # Never /\ c.failedThen[a.key] <= failed[a.key]
        /\ failed[a.key] \in Int /\ c.failedThen[a.key] \in Int
    BY <1>1, <1>3, <2>1, Moments DEF Justified, Later
  <2>3. time - failed[a.key] >= backoffTime
    BY <1>3, <2>2
  <2> QED
    BY <2>2, <2>3
<1>4. ASSUME NEW n \in DOMAIN d.available,
             ~ d.available[n].alone, d.available[n].key # EmptyKey,
             d.failedThen[d.available[n].key] # Never
      PROVE  d.failedThen[d.available[n].key] + backoffTime <= time
  <2>1. CASE n \in DOMAIN c.available
    BY <1>2, <1>4, <2>1 DEF Justified
  <2>2. CASE n = Len(c.available) + 1
    BY <1>2, <1>3, <1>4, <2>2
  <2> QED
    BY <1>2, <2>1, <2>2
<1> QED
  BY <1>4 DEF Justified
-------------------------------------------------------------------------------
(* The actions.                                                            *)

\* What the invariant says of a request that takes a step.
LEMMA CallFacts ==
    ASSUME AInv, NEW t \in Threads
    PROVE  /\ call[t] \in CallRecord /\ call \in [Threads -> CallRecord]
           /\ Positions(call[t]) /\ Justified(call[t], lastFailed, now)
           /\ now \in Nat /\ lastFailed \in [AllKeys -> Moment]
           /\ provided \in KeyLists
BY DEF AInv

LEMMA AGetAvailableKeys ==
    ASSUME AInv, NEW t \in Threads, GetAvailableKeys(t)
    PROVE  AInv'
BY NewCalls, CallStepOnly DEF GetAvailableKeys

LEMMA KeysProvided ==
    ASSUME NEW lists \in KeyLists, NEW n \in Nat \ {0}, n <= Len(keyTypes)
    PROVE  /\ n \in DOMAIN keyTypes
           /\ lists[keyTypes[n]] \in Seq(AllKeys)
           /\ keyTypes[n] \in {keyTypes[m] : m \in DOMAIN keyTypes}
<1>1. n \in DOMAIN keyTypes
  BY APIKeysAssumption
<1> QED
  BY <1>1, APIKeysAssumption

LEMMA AScanType ==
    ASSUME AInv, NEW t \in Threads, ScanType(t)
    PROVE  AInv'
<1> DEFINE c == call[t]
           keys == provided[keyTypes[c.type]]
           none == [c EXCEPT !.type = @ + 1]
           a == APIKey(c, keys[1], TRUE)
           one == [c EXCEPT !.type = @ + 1, !.available = Append(@, a)]
           several == [c EXCEPT !.pc = "key", !.i = 1, !.keys = keys]
<1>1. /\ c \in CallRecord /\ Justified(c, lastFailed, now)
      /\ c.pc = "type" /\ c.type \in Nat \ {0} /\ c.type <= Len(keyTypes)
      /\ c.available \in Seq(APIKeyRecord)
      /\ UNCHANGED <<now, lastFailed, provided>>
      /\ provided \in KeyLists /\ call \in [Threads -> CallRecord]
      /\ lastFailed \in [AllKeys -> Moment] /\ now \in Int
  BY CallFacts, FieldTypes DEF ScanType
<1>2. /\ c.type \in DOMAIN keyTypes /\ keys \in Seq(AllKeys)
      /\ keyTypes[c.type] \in {keyTypes[m] : m \in DOMAIN keyTypes}
  BY <1>1, KeysProvided
<1>3. c.type + 1 \in Nat \ {0}
  BY <1>1
<1>4. CASE call' = [call EXCEPT ![t] = none]
  <2>1. none \in CallRecord
    <3>1. ASSUME NEW n \in Nat \ {0} PROVE [c EXCEPT !.type = n] \in CallRecord
      BY <1>1 DEF CallRecord
    <3> QED
      BY <1>3, <3>1
  <2>2. /\ none.pc = "type" /\ none.begun = c.begun /\ none.failedThen = c.failedThen
        /\ none.available = c.available /\ none.leftOut = c.leftOut /\ none.erred = c.erred
    BY <1>1 DEF CallRecord
  <2> HIDE DEF c, none
  <2>3. Positions(none) /\ Justified(none, lastFailed, now)
    BY <1>1, <2>2, SameChoices DEF Positions
  <2> QED
    BY <1>1, <1>4, <2>1, <2>3, CallStepOnly
<1>5. CASE Len(keys) = 1 /\ call' = [call EXCEPT ![t] = one]
  <2>1. a \in APIKeyRecord /\ a.alone
    <3>1. keys[1] \in AllKeys
      BY <1>2, <1>5
    <3> QED
      BY <1>2, <3>1 DEF APIKey, APIKeyRecord
  <2> HIDE DEF a
  <2>2. Append(c.available, a) \in Seq(APIKeyRecord)
    <3> HIDE DEF c
    <3> QED
      BY <1>1, <2>1
  <2>3. one \in CallRecord
    <3>1. ASSUME NEW n \in Nat \ {0}, NEW s \in Seq(APIKeyRecord)
          PROVE  [c EXCEPT !.type = n, !.available = s] \in CallRecord
      BY <1>1 DEF CallRecord
    <3>2. one = [c EXCEPT !.type = c.type + 1, !.available = Append(c.available, a)]
      OBVIOUS
    <3> HIDE DEF c, one
    <3> QED
      BY <1>3, <2>2, <3>1, <3>2
  <2>4. /\ one.pc = "type" /\ one.begun = c.begun /\ one.failedThen = c.failedThen
        /\ one.available = Append(c.available, a)
        /\ one.leftOut = c.leftOut /\ one.erred = c.erred
    BY <1>1 DEF CallRecord
  <2> HIDE DEF c, one
  <2>5. Justified(one, lastFailed, now)
    BY <1>1, <2>1, <2>4, Offered
  <2>6. Positions(one)
    BY <2>4 DEF Positions
  <2> QED
    BY <1>1, <1>5, <2>3, <2>5, <2>6, CallStepOnly
<1>6. CASE Len(keys) > 1 /\ call' = [call EXCEPT ![t] = several]
  <2>1. several \in CallRecord
    <3>1. ASSUME NEW p \in {"type", "key", "try", "mark", "served", "failed"},
                 NEW n \in Nat \ {0}, NEW s \in Seq(AllKeys)
          PROVE  [c EXCEPT !.pc = p, !.i = n, !.keys = s] \in CallRecord
      BY <1>1 DEF CallRecord
    <3>2. 1 \in Nat \ {0} /\ "key" \in {"type", "key", "try", "mark", "served", "failed"}
      OBVIOUS
    <3> HIDE DEF c, keys
    <3> QED
      BY <1>2, <3>1, <3>2
  <2>2. /\ several.pc = "key" /\ several.i = 1 /\ several.keys = keys
        /\ several.type = c.type
        /\ several.begun = c.begun /\ several.failedThen = c.failedThen
        /\ several.available = c.available
        /\ several.leftOut = c.leftOut /\ several.erred = c.erred
    BY <1>1 DEF CallRecord
  <2>3. 1 \in DOMAIN keys
    BY <1>2, <1>6
  <2> HIDE DEF c, several, keys
  <2>4. Positions(several)
    BY <1>2, <2>2, <2>3 DEF Positions
  <2>5. Justified(several, lastFailed, now)
    BY <1>1, <2>2, SameChoices
  <2> QED
    BY <1>1, <1>6, <2>1, <2>4, <2>5, CallStepOnly
<1>7. \/ Len(keys) = 0 /\ call' = [call EXCEPT ![t] = none]
      \/ Len(keys) = 1 /\ call' = [call EXCEPT ![t] = one]
      \/ Len(keys) > 1 /\ call' = [call EXCEPT ![t] = several]
  <2>1. Len(keys) \in Nat
    BY <1>2
  <2>2. CASE Len(keys) = 0
    BY <2>2 DEF ScanType
  <2>3. CASE Len(keys) = 1
    BY <2>3 DEF ScanType
  <2>4. CASE Len(keys) # 0 /\ Len(keys) # 1
    <3>1. \A n \in Nat : n # 0 /\ n # 1 => n > 1
      OBVIOUS
    <3>2. Len(keys) > 1
      BY <2>1, <2>4, <3>1
    <3> QED
      BY <2>4, <3>2 DEF ScanType
  <2> QED
    BY <2>2, <2>3, <2>4
<1> QED
  BY <1>4, <1>5, <1>6, <1>7
LEMMA NextKeys ==
    ASSUME NEW c \in CallRecord, c.pc = "key", Positions(c)
    PROVE  /\ NextKey(c) \in CallRecord /\ Positions(NextKey(c))
           /\ NextKey(c).pc # "mark"
           /\ NextKey(c).available = c.available /\ NextKey(c).begun = c.begun
           /\ NextKey(c).failedThen = c.failedThen
           /\ NextKey(c).leftOut = c.leftOut /\ NextKey(c).erred = c.erred
<1> DEFINE further == [c EXCEPT !.i = @ + 1]
           over == [c EXCEPT !.pc = "type", !.type = @ + 1, !.i = 1, !.keys = <<>>]
<1>1. /\ c.i \in Nat \ {0} /\ c.type \in Nat \ {0} /\ c.keys \in Seq(AllKeys)
      /\ c.type \in DOMAIN keyTypes
  BY FieldTypes DEF Positions
<1>2. c.i + 1 \in Nat \ {0} /\ c.type + 1 \in Nat \ {0} /\ 1 \in Nat \ {0}
  BY <1>1
<1>3. CASE c.i < Len(c.keys)
  <2>1. NextKey(c) = further
    BY <1>3 DEF NextKey
  <2>2. further \in CallRecord
    <3>1. ASSUME NEW n \in Nat \ {0} PROVE [c EXCEPT !.i = n] \in CallRecord
      BY DEF CallRecord
    <3> QED
      BY <1>2, <3>1
  <2>3. /\ further.pc = "key" /\ further.i = c.i + 1 /\ further.keys = c.keys
        /\ further.type = c.type /\ further.available = c.available
        /\ further.begun = c.begun /\ further.failedThen = c.failedThen
        /\ further.leftOut = c.leftOut /\ further.erred = c.erred
    BY DEF CallRecord
  <2>4. c.i + 1 \in DOMAIN c.keys
    BY <1>1, <1>3
  <2> HIDE DEF further
  <2>5. Positions(further)
    BY <1>1, <2>3, <2>4 DEF Positions
  <2> QED
    BY <2>1, <2>2, <2>3, <2>5
<1>4. CASE ~ (c.i < Len(c.keys))
  <2>1. NextKey(c) = over
    BY <1>4 DEF NextKey
  <2>2. over \in CallRecord
    <3>1. ASSUME NEW p \in {"type", "key", "try", "mark", "served", "failed"},
                 NEW m \in Nat \ {0}, NEW n \in Nat \ {0}, NEW s \in Seq(AllKeys)
          PROVE  [c EXCEPT !.pc = p, !.type = m, !.i = n, !.keys = s] \in CallRecord
      BY DEF CallRecord
    <3>2. <<>> \in Seq(AllKeys) /\ "type" \in {"type", "key", "try", "mark", "served", "failed"}
      OBVIOUS
    <3> QED
      BY <1>2, <3>1, <3>2
  <2>3. /\ over.pc = "type" /\ over.available = c.available
        /\ over.begun = c.begun /\ over.failedThen = c.failedThen
        /\ over.leftOut = c.leftOut /\ over.erred = c.erred
    BY DEF CallRecord
  <2> HIDE DEF over
  <2>4. Positions(over)
    BY <2>3 DEF Positions
  <2> QED
    BY <2>1, <2>2, <2>3, <2>4
<1> QED
  BY <1>3, <1>4

LEMMA AScanKey ==
    ASSUME AInv, NEW t \in Threads, ScanKey(t)
    PROVE  AInv'
<1> DEFINE c == call[t]
           k == c.keys[c.i]
           n == NextKey(c)
           a == APIKey(c, k, FALSE)
           skipped == [n EXCEPT !.leftOut = @ \cup {k}]
           offered == [n EXCEPT !.available = Append(@, a)]
<1>1. /\ c \in CallRecord /\ Justified(c, lastFailed, now) /\ Positions(c)
      /\ c.pc = "key"
      /\ UNCHANGED <<now, lastFailed, provided>>
      /\ lastFailed \in [AllKeys -> Moment] /\ now \in Int
  BY CallFacts DEF ScanKey
<1>2. /\ c.i \in DOMAIN c.keys /\ c.keys \in Seq(AllKeys)
      /\ c.type \in DOMAIN keyTypes
  BY <1>1, FieldTypes DEF Positions
<1>3. k \in AllKeys
  BY <1>2
<1>4. /\ n \in CallRecord /\ Positions(n) /\ n.pc # "mark"
      /\ n.available = c.available /\ n.begun = c.begun /\ n.failedThen = c.failedThen
      /\ n.leftOut = c.leftOut /\ n.erred = c.erred
  BY <1>1, NextKeys
<1> HIDE DEF n
<1>5. Justified(n, lastFailed, now)
  BY <1>1, <1>4, SameChoices
<1>6. CASE isKeyInBackoff(k)
  <2>1. call' = [call EXCEPT ![t] = skipped]
    BY <1>6 DEF ScanKey, n
  <2>2. skipped \in CallRecord
    <3>1. ASSUME NEW S \in SUBSET AllKeys PROVE [n EXCEPT !.leftOut = S] \in CallRecord
      BY <1>4 DEF CallRecord
    <3>2. n.leftOut \cup {k} \in SUBSET AllKeys
      BY <1>3, <1>4, FieldTypes
    <3> QED
      BY <3>1, <3>2
  <2>3. /\ skipped.pc = n.pc /\ skipped.i = n.i /\ skipped.keys = n.keys
        /\ skipped.type = n.type
        /\ skipped.begun = n.begun /\ skipped.failedThen = n.failedThen
        /\ skipped.available = n.available
        /\ skipped.leftOut = n.leftOut \cup {k} /\ skipped.erred = n.erred
    BY <1>4 DEF CallRecord
  <2>4. lastFailed[k] # Never /\ lastFailed[k] + backoffTime > n.begun
    <3>1. lastFailed[k] # Never /\ now - lastFailed[k] < backoffTime
      BY <1>6 DEF isKeyInBackoff
    <3>2. lastFailed[k] \in Int
      BY <1>1, <1>3, <3>1, Moments
    <3>3. n.begun <= now /\ n.begun \in Int
      BY <1>4, <1>5, FieldTypes DEF Justified
    <3> HIDE DEF k
    <3> QED
      BY <1>1, <3>1, <3>2, <3>3, APIKeysAssumption
  <2> HIDE DEF skipped, k
  <2>5. Justified(skipped, lastFailed, now)
    BY <1>5, <2>3, <2>4 DEF Justified
  <2>6. Positions(skipped)
    BY <1>4, <2>3 DEF Positions
  <2> QED
    BY <1>1, <2>1, <2>2, <2>5, <2>6, CallStepOnly
<1>7. CASE ~ isKeyInBackoff(k)
  <2>1. call' = [call EXCEPT ![t] = offered]
    BY <1>7 DEF ScanKey, n
  <2>2. a \in APIKeyRecord /\ a.key = k
    BY <1>2, <1>3 DEF APIKey, APIKeyRecord
  <2> HIDE DEF a
  <2>3. n.available \in Seq(APIKeyRecord)
    BY <1>4, FieldTypes
  <2>4. offered \in CallRecord
    <3>1. ASSUME NEW s \in Seq(APIKeyRecord) PROVE [n EXCEPT !.available = s] \in CallRecord
      BY <1>4 DEF CallRecord
    <3>2. Append(n.available, a) \in Seq(APIKeyRecord)
      BY <2>2, <2>3
    <3> QED
      BY <3>1, <3>2
  <2>5. /\ offered.pc = n.pc /\ offered.i = n.i /\ offered.keys = n.keys
        /\ offered.type = n.type
        /\ offered.begun = n.begun /\ offered.failedThen = n.failedThen
        /\ offered.available = Append(n.available, a)
        /\ offered.leftOut = n.leftOut /\ offered.erred = n.erred
    BY <1>4 DEF CallRecord
  <2>6. k = EmptyKey \/ lastFailed[k] = Never \/ now - lastFailed[k] >= backoffTime
    <3>1. k = EmptyKey \/ lastFailed[k] = Never \/ ~ (now - lastFailed[k] < backoffTime)
      BY <1>7 DEF isKeyInBackoff
    <3>2. lastFailed[k] # Never => lastFailed[k] \in Int
      BY <1>1, <1>3, Moments
    <3> HIDE DEF k
    <3> QED
      BY <1>1, <3>1, <3>2, APIKeysAssumption
  <2> HIDE DEF offered, k
  <2>7. Justified(offered, lastFailed, now)
    BY <1>1, <1>4, <1>5, <2>2, <2>5, <2>6, Offered
  <2>8. Positions(offered)
    BY <1>4, <2>5 DEF Positions
  <2> QED
    BY <1>1, <2>1, <2>4, <2>7, <2>8, CallStepOnly
<1> QED
  BY <1>6, <1>7
LEMMA AScanEnds ==
    ASSUME AInv, NEW t \in Threads, ScanEnds(t)
    PROVE  AInv'
<1> DEFINE c == call[t]
           d == [c EXCEPT !.pc = "try"]
<1>1. /\ c \in CallRecord /\ Justified(c, lastFailed, now)
      /\ call' = [call EXCEPT ![t] = d]
      /\ UNCHANGED <<now, lastFailed, provided>>
  BY CallFacts DEF ScanEnds
<1>2. d \in CallRecord
  BY <1>1 DEF CallRecord
<1>3. /\ d.pc = "try" /\ d.available = c.available
      /\ d.begun = c.begun /\ d.failedThen = c.failedThen
      /\ d.leftOut = c.leftOut /\ d.erred = c.erred
  BY <1>1 DEF CallRecord
<1> HIDE DEF c, d
<1>4. Positions(d) /\ Justified(d, lastFailed, now)
  BY <1>1, <1>3, SameChoices DEF Positions
<1> QED
  BY <1>1, <1>2, <1>4, CallStepOnly

LEMMA AExecutor ==
    ASSUME AInv, NEW t \in Threads, Executor(t)
    PROVE  AInv'
<1> DEFINE c == call[t]
           error == [c EXCEPT !.pc = "mark"]
           neither == [c EXCEPT !.i = @ + 1]
<1>1. /\ c \in CallRecord /\ Justified(c, lastFailed, now)
      /\ c.pc = "try" /\ c.i <= Len(c.available) /\ c.i \in Nat \ {0}
      /\ c.available \in Seq(APIKeyRecord)
      /\ UNCHANGED <<now, lastFailed, provided>>
  BY CallFacts, FieldTypes DEF Executor
<1>2. CASE call' = [call EXCEPT ![t] = Over(c, "served")]
  BY <1>1, <1>2, CallsOver, CallStepOnly
<1>3. CASE call' = [call EXCEPT ![t] = error]
  <2>1. c.i \in DOMAIN c.available
    BY <1>1
  <2>2. error \in CallRecord
    BY <1>1 DEF CallRecord
  <2>3. /\ error.pc = "mark" /\ error.i = c.i /\ error.available = c.available
        /\ error.begun = c.begun /\ error.failedThen = c.failedThen
        /\ error.leftOut = c.leftOut /\ error.erred = c.erred
    BY <1>1 DEF CallRecord
  <2> HIDE DEF c, error
  <2>4. Positions(error) /\ Justified(error, lastFailed, now)
    BY <1>1, <2>1, <2>3, SameChoices DEF Positions
  <2> QED
    BY <1>1, <1>3, <2>2, <2>4, CallStepOnly
<1>4. CASE call' = [call EXCEPT ![t] = neither]
  <2>1. neither \in CallRecord
    <3>1. ASSUME NEW n \in Nat \ {0} PROVE [c EXCEPT !.i = n] \in CallRecord
      BY <1>1 DEF CallRecord
    <3>2. c.i + 1 \in Nat \ {0}
      BY <1>1
    <3> QED
      BY <3>1, <3>2
  <2>2. /\ neither.pc = "try" /\ neither.available = c.available
        /\ neither.begun = c.begun /\ neither.failedThen = c.failedThen
        /\ neither.leftOut = c.leftOut /\ neither.erred = c.erred
    BY <1>1 DEF CallRecord
  <2> HIDE DEF c, neither
  <2>3. Positions(neither) /\ Justified(neither, lastFailed, now)
    BY <1>1, <2>2, SameChoices DEF Positions
  <2> QED
    BY <1>1, <1>4, <2>1, <2>3, CallStepOnly
<1> QED
  BY <1>2, <1>3, <1>4 DEF Executor

LEMMA AMarkKeyAsFailed ==
    ASSUME AInv, NEW t \in Threads, MarkKeyAsFailed(t)
    PROVE  AInv'
<1> USE APIKeysAssumption
<1> DEFINE c == call[t]
           k == c.available[c.i].key
           d == [c EXCEPT !.pc = "try", !.i = @ + 1, !.erred = @ \cup {k}]
           failed == IF k = EmptyKey THEN lastFailed ELSE [lastFailed EXCEPT ![k] = now]
<1>1. /\ c \in CallRecord /\ Justified(c, lastFailed, now) /\ Positions(c)
      /\ c.pc = "mark" /\ c.i \in Nat \ {0} /\ c.erred \subseteq AllKeys
      /\ c.begun \in Int
      /\ call' = [call EXCEPT ![t] = d]
      /\ UNCHANGED <<now, provided>>
      /\ lastFailed \in [AllKeys -> Moment] /\ now \in Int
  <2>1. /\ c.pc = "mark" /\ UNCHANGED <<now, provided>>
        /\ call' = [call EXCEPT ![t] = d]
    BY DEF MarkKeyAsFailed
  <2>2. c \in CallRecord /\ Justified(c, lastFailed, now) /\ Positions(c)
    BY CallFacts
  <2>3. /\ c.i \in Nat \ {0} /\ c.erred \subseteq AllKeys /\ c.begun \in Int
        /\ lastFailed \in [AllKeys -> Moment] /\ now \in Int
    BY <2>2, CallFacts, FieldTypes
  <2> QED
    BY <2>1, <2>2, <2>3
<1>2. lastFailed' = failed
  BY DEF MarkKeyAsFailed
<1>3. k \in AllKeys
  BY <1>1, OfferedKey DEF Positions
<1>4. d \in CallRecord
  <2>1. ASSUME NEW p \in {"type", "key", "try", "mark", "served", "failed"},
               NEW n \in Nat \ {0}, NEW S \in SUBSET AllKeys
        PROVE  [c EXCEPT !.pc = p, !.i = n, !.erred = S] \in CallRecord
    BY <1>1 DEF CallRecord
  <2>2. /\ c.i + 1 \in Nat \ {0} /\ c.erred \cup {k} \in SUBSET AllKeys
        /\ "try" \in {"type", "key", "try", "mark", "served", "failed"}
    BY <1>1, <1>3
  <2> QED
    BY <2>1, <2>2
<1>5. /\ d.pc = "try" /\ d.available = c.available
      /\ d.begun = c.begun /\ d.failedThen = c.failedThen
      /\ d.leftOut = c.leftOut /\ d.erred = c.erred \cup {k}
  BY <1>1 DEF CallRecord
<1> HIDE DEF c, k, d
<1>6. failed \in [AllKeys -> Moment]
  BY <1>1, <1>3 DEF Moment
<1>7. Later(lastFailed, failed)
  <2> SUFFICES ASSUME NEW j \in AllKeys, lastFailed[j] # Never
               PROVE  failed[j] # Never /\ lastFailed[j] <= failed[j]
    BY DEF Later
  <2>1. lastFailed[j] <= now /\ lastFailed[j] \in Int
    BY <1>1, Moments DEF AInv
  <2>2. failed[j] = lastFailed[j] \/ failed[j] = now
    BY <1>1
  <2> QED
    BY <1>1, <2>1, <2>2
<1>8. \A j \in AllKeys : failed[j] # Never => failed[j] <= now
  <2> SUFFICES ASSUME NEW j \in AllKeys, failed[j] # Never PROVE failed[j] <= now
    OBVIOUS
  <2>1. failed[j] = lastFailed[j] \/ failed[j] = now
    BY <1>1
  <2> QED
    BY <1>1, <2>1 DEF AInv
<1>9. k # EmptyKey => failed[k] = now
  BY <1>1, <1>3
<1> HIDE DEF failed
<1>10. Justified(c, failed, now)
  <2>1. now <= now
    BY <1>1
  <2> QED
    BY <1>1, <1>6, <1>7, <2>1, JustifiedLater
<1>11. Justified(d, failed, now)
  <2>1. \A j \in d.erred \ {EmptyKey} : failed[j] # Never /\ failed[j] >= d.begun
    <3> SUFFICES ASSUME NEW j \in d.erred \ {EmptyKey}
                 PROVE  failed[j] # Never /\ failed[j] >= d.begun
      OBVIOUS
    <3>1. CASE j = k
      <4>1. failed[j] = now /\ c.begun <= now
        BY <1>9, <1>10, <3>1 DEF Justified
      <4> QED
        BY <1>1, <1>5, <4>1
    <3>2. CASE j # k
      BY <1>5, <1>10, <3>2 DEF Justified
    <3> QED
      BY <3>1, <3>2
  <2> QED
    BY <1>5, <1>10, <2>1 DEF Justified
<1>12. Positions(d)
  BY <1>5 DEF Positions
<1> QED
  BY <1>1, <1>2, <1>4, <1>6, <1>7, <1>8, <1>11, <1>12, CallStep

LEMMA AAllKeysFailed ==
    ASSUME AInv, NEW t \in Threads, AllKeysFailed(t)
    PROVE  AInv'
<1>1. /\ call[t] \in CallRecord /\ Justified(call[t], lastFailed, now)
      /\ call' = [call EXCEPT ![t] = Over(call[t], "failed")]
      /\ UNCHANGED <<now, lastFailed, provided>>
  BY CallFacts DEF AllKeysFailed
<1> QED
  BY <1>1, CallsOver, CallStepOnly

LEMMA ATick ==
    ASSUME AInv, Tick
    PROVE  AInv'
<1> DEFINE time == now + 1
<1>1. /\ now \in Nat /\ time \in Nat /\ now <= time
      /\ now' = time
      /\ UNCHANGED <<lastFailed, provided, call>>
      /\ lastFailed \in [AllKeys -> Moment] /\ call \in [Threads -> CallRecord]
  BY DEF AInv, Tick
<1>2. \A k \in AllKeys : lastFailed[k] # Never => lastFailed[k] <= time
  <2> SUFFICES ASSUME NEW k \in AllKeys, lastFailed[k] # Never PROVE lastFailed[k] <= time
    OBVIOUS
  <2>1. lastFailed[k] <= now /\ lastFailed[k] \in Int
    BY <1>1, Moments DEF AInv
  <2> QED
    BY <1>1, <2>1
<1> HIDE DEF time
<1>3. ASSUME NEW t \in Threads PROVE Justified(call[t], lastFailed, time)
  <2>1. call[t] \in CallRecord /\ Justified(call[t], lastFailed, now)
    BY <1>1 DEF AInv
  <2>2. Later(lastFailed, lastFailed)
    BY <1>1, LaterReflexive
  <2>3. now \in Int /\ time \in Int
    BY <1>1
  <2> QED
    BY <1>1, <2>1, <2>2, <2>3, JustifiedLater
<1>4. \A t \in Threads : Justified(call[t], lastFailed, now)'
  BY <1>1, <1>3 DEF Justified, Later
<1>5. \A t \in Threads : Positions(call[t])'
  BY <1>1 DEF AInv, Positions
<1> QED
  BY <1>1, <1>2, <1>4, <1>5 DEF AInv

LEMMA AUnchanged ==
    ASSUME AInv, UNCHANGED <<now, lastFailed, call>>, provided' \in KeyLists
    PROVE  AInv'
<1>1. \A t \in Threads : (Positions(call[t]) /\ Justified(call[t], lastFailed, now))'
  BY DEF AInv, Positions, Justified, Later
<1> QED
  BY <1>1 DEF AInv

LEMMA AInit ==
    Init => AInv
<1> SUFFICES ASSUME Init PROVE AInv
  OBVIOUS
<1> USE APIKeysAssumption
<1> DEFINE none == [k \in AllKeys |-> Never]
           d == Over(NewCall, "served")
<1>1. now = 0 /\ lastFailed = none /\ provided \in KeyLists /\ call = [t \in Threads |-> d]
  BY DEF Init
<1>2. none \in [AllKeys -> Moment] /\ \A k \in AllKeys : none[k] = Never
  BY DEF Moment
<1>3. NewCall \in CallRecord
  BY <1>1, <1>2 DEF NewCall, CallRecord
<1>4. /\ d.pc = "served" /\ d.available = <<>> /\ d.leftOut = {} /\ d.erred = {}
      /\ d.begun = 0 /\ d.failedThen = none
  BY DEF Over, NewCall
<1>5. d \in CallRecord
  <2>1. ASSUME NEW r \in CallRecord, NEW p \in {"served", "failed"}, NEW b \in Int,
               NEW f \in [AllKeys -> Moment], NEW e \in SUBSET AllKeys
        PROVE  [r EXCEPT !.pc = p, !.begun = b, !.failedThen = f, !.erred = e] \in CallRecord
    BY DEF CallRecord
  <2>2. d = [NewCall EXCEPT !.pc = "served", !.begun = 0, !.failedThen = none, !.erred = {}]
    BY DEF Over
  <2>3. 0 \in Int /\ {} \in SUBSET AllKeys /\ "served" \in {"served", "failed"}
    OBVIOUS
  <2> HIDE DEF none, d
  <2> QED
    BY <1>2, <1>3, <2>1, <2>2, <2>3
<1> HIDE DEF d, none
<1>6. Later(none, none)
  BY <1>2, LaterReflexive
<1>7. DOMAIN d.available = {}
  BY <1>4
<1>8. Positions(d) /\ Justified(d, none, 0)
  BY <1>4, <1>6, <1>7 DEF Positions, Justified
<1> QED
  BY <1>1, <1>2, <1>5, <1>8 DEF AInv

LEMMA ANext ==
    AInv /\ [Next]_vars => AInv'
<1> SUFFICES ASSUME AInv, [Next]_vars PROVE AInv'
  OBVIOUS
<1>1. ASSUME NEW t \in Threads, GetAvailableKeys(t) \/ Step(t) PROVE AInv'
  BY <1>1, AGetAvailableKeys, AScanType, AScanKey, AScanEnds, AExecutor, AMarkKeyAsFailed,
     AAllKeysFailed DEF Step
<1>2. ASSUME NEW lists \in KeyLists, Reload(lists) PROVE AInv'
  BY <1>2, AUnchanged DEF Reload
<1>3. CASE UNCHANGED vars
  BY <1>3, AUnchanged DEF vars, AInv
<1> QED
  BY <1>1, <1>2, <1>3, ATick DEF Next

-------------------------------------------------------------------------------
(* Theorems.                                                               *)

LEMMA APIKeysInvariant == Spec => []AInv
BY AInit, ANext, PTL DEF Spec

\* Types, and no index of GetAvailableKeys and TryWithKeys is out of its slice,
\* although the provider changes its lists in the middle of a scan.
THEOREM APIKeysTypeOK == Spec => []TypeOK
<1>1. AInv => TypeOK
  <2> SUFFICES ASSUME AInv PROVE TypeOK
    OBVIOUS
  <2>1. ASSUME NEW t \in Threads
        PROVE  /\ Positions(call[t])
               /\ call[t].pc \in {"type", "key", "try", "mark", "served", "failed"}
               /\ call[t].failedThen \in [AllKeys -> Moment]
               /\ call[t].leftOut \cup call[t].erred \subseteq AllKeys
    BY CallFacts, FieldTypes
  <2> QED
    BY <2>1 DEF AInv, TypeOK, Positions
<1> QED
  BY <1>1, APIKeysInvariant, PTL

\* For any number of requests that mark keys meanwhile: no key is offered among
\* others before it has rested from the failures known when the request began
\* (GetAvailableKeys, apikeys/manager.go).
THEOREM KeysRestedWhenOffered == Spec => []RestedWhenOffered
<1>1. AInv => RestedWhenOffered
  BY DEF AInv, Justified, RestedWhenOffered
<1> QED
  BY <1>1, APIKeysInvariant, PTL

\* No key is passed over for a failure whose backoff was over (isKeyInBackoff,
\* apikeys/manager.go).
THEOREM KeysLeftOutForCause == Spec => []LeftOutForCause
<1>1. AInv => LeftOutForCause
  BY DEF AInv, Justified, LeftOutForCause
<1> QED
  BY <1>1, APIKeysInvariant, PTL

\* A request that has failed leaves every key it failed with marked since it began
\* (TryWithKeys and MarkKeyAsFailed).
THEOREM KeyFailuresRecorded == Spec => []FailuresRecorded
<1>1. AInv => FailuresRecorded
  BY DEF AInv, Justified, FailuresRecorded
<1> QED
  BY <1>1, APIKeysInvariant, PTL

===============================================================================
