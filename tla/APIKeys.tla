-------------------------------- MODULE APIKeys --------------------------------
(***************************************************************************)
(* Key selection with backoff: APIKeyManager (apikeys/manager.go) and      *)
(* TryWithKeys (apikeys/rotator.go), as a proxy calls them: it asks for    *)
(* the available keys and tries them in order, marking those that fail.    *)
(* The manager holds its lock for one key at a time, so other requests     *)
(* mark keys, and the provider changes its lists, in the middle of a scan. *)
(***************************************************************************)
EXTENDS Integers, Sequences

CONSTANTS
    Threads,        \* requests being served
    Keys,
    EmptyKey,       \* the key "", which is never in backoff
    keyTypes,       \* the key types of the manager, in the order of priority
    KeyLists,       \* what the provider may offer: a sequence of keys per type
    backoffTime,
    Never,          \* no failure is recorded
    MaxTime         \* bound

AllKeys == Keys \cup {EmptyKey}

ASSUME APIKeysAssumption ==
    /\ EmptyKey \notin Keys
    /\ keyTypes \in Seq({keyTypes[i] : i \in DOMAIN keyTypes})
    /\ \A lists \in KeyLists : \A i \in DOMAIN keyTypes :
          keyTypes[i] \in DOMAIN lists /\ lists[keyTypes[i]] \in Seq(AllKeys)
    /\ backoffTime \in Int
    /\ Never \notin Int
    /\ MaxTime \in Nat

VARIABLES
    now,
    lastFailed,     \* lastFailed[k]: when k was last marked as failed
    provided,       \* the lists of the provider
    call            \* call[t]: the request t

vars == <<now, lastFailed, provided, call>>

-------------------------------------------------------------------------------
\* type, i: the positions in keyTypes and in keys or available; keys: the slice
\* the provider returned; available: the result so far, alone marks a key that
\* is its type's only one. History: begun and failedThen are the clock and
\* lastFailed when the call began, leftOut the keys skipped, erred those that
\* failed in this call.
NewCall ==
    [ pc |-> "type", type |-> 1, i |-> 1, keys |-> <<>>, available |-> <<>>,
      begun |-> now, failedThen |-> lastFailed, leftOut |-> {}, erred |-> {} ]

\* The call is over; what it failed with is kept for the properties.
Over(c, outcome) ==
    [NewCall EXCEPT !.pc = outcome,
                    !.begun = IF outcome = "failed" THEN c.begun ELSE 0,
                    !.failedThen = [k \in AllKeys |-> Never],
                    !.erred = IF outcome = "failed" THEN c.erred ELSE {}]

Init ==
    /\ now = 0
    /\ lastFailed = [k \in AllKeys |-> Never]
    /\ provided \in KeyLists
    /\ call = [t \in Threads |-> Over(NewCall, "served")]

\* Mutants: a second short; without end.
isKeyInBackoffShort(k) ==
    k # EmptyKey /\ lastFailed[k] # Never /\ now - lastFailed[k] < backoffTime - 1

isKeyInBackoffForever(k) == k # EmptyKey /\ lastFailed[k] # Never

isKeyInBackoff(k) ==
    k # EmptyKey /\ lastFailed[k] # Never /\ now - lastFailed[k] < backoffTime

-------------------------------------------------------------------------------
(* GetAvailableKeys.                                                       *)

GetAvailableKeys(t) ==
    /\ call[t].pc \in {"served", "failed"}
    /\ call' = [call EXCEPT ![t] = NewCall]
    /\ UNCHANGED <<now, lastFailed, provided>>

APIKey(c, k, alone) == [key |-> k, type |-> keyTypes[c.type], alone |-> alone]

\* The next type: an only key is available in backoff too.
ScanType(t) ==
    LET c == call[t]
        keys == provided[keyTypes[c.type]]
    IN /\ c.pc = "type"
       /\ c.type <= Len(keyTypes)
       /\ call' = [call EXCEPT ![t] =
              CASE Len(keys) = 0 -> [c EXCEPT !.type = @ + 1]
                [] Len(keys) = 1 -> [c EXCEPT !.type = @ + 1,
                                              !.available = Append(@, APIKey(c, keys[1], TRUE))]
                [] OTHER         -> [c EXCEPT !.pc = "key", !.i = 1, !.keys = keys]]
       /\ UNCHANGED <<now, lastFailed, provided>>

\* Mutant: one key more than the slice has.
NextKeyPastEnd(c) ==
    IF c.i <= Len(c.keys)
    THEN [c EXCEPT !.i = @ + 1]
    ELSE [c EXCEPT !.pc = "type", !.type = @ + 1, !.i = 1, !.keys = <<>>]

NextKey(c) ==
    IF c.i < Len(c.keys)
    THEN [c EXCEPT !.i = @ + 1]
    ELSE [c EXCEPT !.pc = "type", !.type = @ + 1, !.i = 1, !.keys = <<>>]

\* One of several keys is looked up under the read lock.
ScanKey(t) ==
    LET c == call[t]
        k == c.keys[c.i]
    IN /\ c.pc = "key"
       /\ call' = [call EXCEPT ![t] =
              IF isKeyInBackoff(k)
              THEN [NextKey(c) EXCEPT !.leftOut = @ \cup {k}]
              ELSE [NextKey(c) EXCEPT !.available = Append(@, APIKey(c, k, FALSE))]]
       /\ UNCHANGED <<now, lastFailed, provided>>

ScanEnds(t) ==
    /\ call[t].pc = "type"
    /\ call[t].type > Len(keyTypes)
    /\ call' = [call EXCEPT ![t].pc = "try"]
    /\ UNCHANGED <<now, lastFailed, provided>>

-------------------------------------------------------------------------------
(* TryWithKeys, with a callback made by CreateFailCallback.                *)

\* The executor answers; without success and without an error the key is passed
\* over and not marked.
Executor(t) ==
    LET c == call[t]
    IN /\ c.pc = "try"
       /\ c.i <= Len(c.available)
       /\ \E answer \in {"success", "error", "neither"} :
             call' = [call EXCEPT ![t] =
                 CASE answer = "success" -> Over(c, "served")
                   [] answer = "error"   -> [c EXCEPT !.pc = "mark"]
                   [] answer = "neither" -> [c EXCEPT !.i = @ + 1]]
       /\ UNCHANGED <<now, lastFailed, provided>>

\* Mutant: a key that is marked already keeps its time.
MarkKeyAsFailedOnce(t) ==
    LET c == call[t]
        k == c.available[c.i].key
    IN /\ c.pc = "mark"
       /\ IF k = EmptyKey \/ lastFailed[k] # Never
          THEN UNCHANGED lastFailed
          ELSE lastFailed' = [lastFailed EXCEPT ![k] = now]
       /\ call' = [call EXCEPT ![t] =
              [c EXCEPT !.pc = "try", !.i = @ + 1, !.erred = @ \cup {k}]]
       /\ UNCHANGED <<now, provided>>

MarkKeyAsFailed(t) ==
    LET c == call[t]
        k == c.available[c.i].key
    IN /\ c.pc = "mark"
       /\ IF k = EmptyKey
          THEN UNCHANGED lastFailed
          ELSE lastFailed' = [lastFailed EXCEPT ![k] = now]
       /\ call' = [call EXCEPT ![t] =
              [c EXCEPT !.pc = "try", !.i = @ + 1, !.erred = @ \cup {k}]]
       /\ UNCHANGED <<now, provided>>

AllKeysFailed(t) ==
    /\ call[t].pc = "try"
    /\ call[t].i > Len(call[t].available)
    /\ call' = [call EXCEPT ![t] = Over(@, "failed")]
    /\ UNCHANGED <<now, lastFailed, provided>>

-------------------------------------------------------------------------------
(* The environment.                                                        *)

Reload(lists) ==
    /\ provided' = lists
    /\ UNCHANGED <<now, lastFailed, call>>

Tick ==
    /\ now < MaxTime
    /\ now' = now + 1
    /\ UNCHANGED <<lastFailed, provided, call>>

Step(t) ==
    \/ ScanType(t) \/ ScanKey(t) \/ ScanEnds(t)
    \/ Executor(t) \/ MarkKeyAsFailed(t) \/ AllKeysFailed(t)

Next ==
    \/ \E t \in Threads : GetAvailableKeys(t) \/ Step(t)
    \/ \E lists \in KeyLists : Reload(lists)
    \/ Tick

Spec == Init /\ [][Next]_vars

-------------------------------------------------------------------------------
(* Properties.                                                             *)

Moment == Int \cup {Never}

\* Types of the variables; a position points into the slice it is used on.
TypeOK ==
    /\ now \in Nat
    /\ lastFailed \in [AllKeys -> Moment]
    /\ provided \in KeyLists
    /\ \A t \in Threads : LET c == call[t] IN
          /\ c.pc \in {"type", "key", "try", "mark", "served", "failed"}
          /\ c.pc = "key" => c.i \in DOMAIN c.keys /\ c.type \in DOMAIN keyTypes
          /\ c.pc = "mark" => c.i \in DOMAIN c.available
          /\ c.failedThen \in [AllKeys -> Moment]
          /\ c.leftOut \cup c.erred \subseteq AllKeys

\* A key is offered together with others only after it has rested: whatever was
\* marked before the request began, by whichever request, is over by now.
RestedWhenOffered ==
    \A t \in Threads : \A i \in DOMAIN call[t].available :
        LET a == call[t].available[i]
            then == call[t].failedThen[a.key]
        IN ~ a.alone /\ a.key # EmptyKey /\ then # Never => then + backoffTime <= now

\* A key is passed over only for a failure whose backoff was not over when the
\* request began: no key stays out of use for longer than its backoff.
LeftOutForCause ==
    \A t \in Threads : \A k \in call[t].leftOut :
        lastFailed[k] # Never /\ lastFailed[k] + backoffTime > call[t].begun

\* When a request has tried all keys in vain, those that failed are in backoff
\* from a moment after it began, whatever other requests have marked meanwhile.
FailuresRecorded ==
    \A t \in Threads : call[t].pc = "failed" =>
        \A k \in call[t].erred \ {EmptyKey} :
            lastFailed[k] # Never /\ lastFailed[k] >= call[t].begun

===============================================================================
