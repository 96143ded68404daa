------------------------------ MODULE MultiCache ------------------------------
(***************************************************************************)
(* The multi-level cache: cache/multi over levels of two kinds, the        *)
(* in-process BigCache (cache/l1) and the shared KeyDB server (cache/l2).  *)
(*                                                                         *)
(* A client is a goroutine that calls one MultiCache.  Chain[c] is the     *)
(* slice mc.caches of the MultiCache it calls: clients of one process have *)
(* the same chain, clients of two proxies have their own BigCache and      *)
(* share the KeyDB.  MultiCache takes no lock, so each call it makes on a  *)
(* level is a step of its own and anything may happen in between.          *)
(*                                                                         *)
(* A cached value is the number of the Set call that wrote it, an index of *)
(* writes.  The history variables writes and dead, and the field base of   *)
(* an operation, exist for the properties only, and since to bound the delay.  *)
(***************************************************************************)
EXTENDS CacheEntry, Sequences, FiniteSets

CONSTANTS
    Clients,            \* goroutines
    Writers,            \* the clients that call Set and Delete
    Keys,
    BigCaches,          \* BigCache instances, one per process
    KeyDBs,             \* KeyDB servers
    NoOps,              \* levels that are switched off (cache/noop)
    Chain,              \* Chain[c]: the levels behind the MultiCache of c
    Rank,               \* Rank[s]: how many levels can stand behind s
    EnablePropagation,  \* MultiCache.enablePropagation
    TTLs,               \* TTLs given to Set
    Sizes,              \* is the encoded entry over maxEntrySize?
    KeyDBFaults,        \* may KeyDB commands fail?
    Corruption,         \* may undecodable data appear under a key of a KeyDB?
    FillDelay,          \* seconds a propagation may take
    MaxTime, MaxWrites, MaxLate,    \* bounds of the model
    NoEntry, Garbage    \* no data under a key; data that does not decode

Caches == BigCaches \cup KeyDBs \cup NoOps

ASSUME ChainAssumption ==
    /\ Chain \in [Clients -> Seq(Caches)]
    /\ BigCaches \cap KeyDBs = {} /\ NoOps \cap (BigCaches \cup KeyDBs) = {}

\* A level is a cheaper copy of the levels behind it, in every chain.
ASSUME RankAssumption ==
    /\ Rank \in [Caches -> Nat]
    /\ \A c \in Clients : \A i, j \in 1..Len(Chain[c]) :
           i < j => Rank[Chain[c][i]] > Rank[Chain[c][j]]

ASSUME ValueAssumption ==
    /\ Writers \subseteq Clients
    /\ TTLs \subseteq TTL
    /\ Sizes \subseteq BOOLEAN
    /\ EnablePropagation \in BOOLEAN
    /\ KeyDBFaults \in BOOLEAN
    /\ Corruption \in BOOLEAN
    /\ FillDelay \in Nat
    /\ MaxTime \in Nat /\ MaxWrites \in Nat /\ MaxLate \in Nat
    /\ NoEntry \notin Entry /\ Garbage \notin Entry /\ NoEntry # Garbage

VARIABLES
    now,        \* the Unix clock, in seconds
    store,      \* store[s][k]: what level s holds under key k
    late,       \* KeyDB commands whose caller timed out, not yet executed
    writes,     \* history: the Set calls, in the order they were made
    dead,       \* history: writes overwritten or deleted since
    op          \* op[c]: the operation client c is executing

vars == <<now, store, late, writes, dead, op>>

-------------------------------------------------------------------------------
NoTTL == [fresh |-> 0, stale |-> 0]

\* pc: what the next step of the client is; lvl: the level it works on;
\* hit, ent: where the value was found and what was found, kept as the result
\* after the call returns; val, ttl: what is being stored; base: for a Set or
\* Delete the writes it puts an end to, for a Get the writes dead at its start;
\* since: when its propagation read the clock.
Operation ==
    [ pc   : {"idle", "probe", "drop", "promote", "fill", "write", "erase"},
      key  : Keys,
      lvl  : Nat,
      hit  : Nat,
      ent  : Entry \cup {NoEntry},
      val  : Nat,
      ttl  : TTL,
      base : SUBSET Nat,
      since : Nat ]

\* An operation on key k whose first step is pc, at the first level; with no
\* levels at all MultiCache returns at once.
Call(c, k, pc, val, ttl, base) ==
    [ pc  |-> IF Chain[c] = <<>> THEN "idle" ELSE pc,
      key |-> k, lvl |-> 1, hit |-> 0, ent |-> NoEntry,
      val |-> val, ttl |-> ttl, base |-> base, since |-> 0 ]

\* The level the client works on.
Level(c) == Chain[c][op[c].lvl]

Write == [key : Keys, at : Nat, ttl : TTL, big : BOOLEAN]

\* Earlier writes to k that are not being made at this moment.
Settled(k) ==
    {v \in DOMAIN writes :
        /\ writes[v].key = k
        /\ \A d \in Clients : op[d].pc = "write" => op[d].val # v}

Init ==
    /\ now = 0
    /\ store = [s \in Caches |-> [k \in Keys |-> NoEntry]]
    /\ late = {}
    /\ writes = <<>>
    /\ dead = {}
    /\ op \in [Clients -> {Call(c, k, "idle", 0, NoTTL, {}) : c \in Clients, k \in Keys}]

-------------------------------------------------------------------------------
(* One command on a level.                                                 *)

Execute(s, k, x) ==
    /\ store' = [store EXCEPT ![s][k] = x]
    /\ UNCHANGED late

\* A KeyDB command that returns an error (an error after execution looks to
\* the caller like Execute, since every caller ignores the outcome): it is
\* lost, or the caller gave up waiting and the server executes it later.
Fail(s, k, x) ==
    /\ KeyDBFaults
    /\ s \in KeyDBs
    /\ UNCHANGED store
    /\ \/ UNCHANGED late
       \/ /\ Cardinality(late) < MaxLate
          /\ late' = late \cup {[cache |-> s, key |-> k, put |-> x]}

\* Mutant: only a key the cache does not have is stored.
BigCacheSetIfAbsent(s, k, e) ==
    /\ s \in BigCaches
    /\ IF writes[e.data].big \/ store[s][k] \in Entry
       THEN UNCHANGED <<store, late>>
       ELSE Execute(s, k, e)

\* bigcache.go Set: an entry larger than the limit is skipped.
BigCacheSet(s, k, e) ==
    /\ s \in BigCaches
    /\ IF writes[e.data].big
       THEN UNCHANGED <<store, late>>
       ELSE Execute(s, k, e)

\* keydb.go Set.
KeyDBSet(s, k, e) ==
    /\ s \in KeyDBs
    /\ Execute(s, k, e) \/ Fail(s, k, e)

\* noop.go: nothing is stored, nothing is there to delete.
LevelSet(s, k, val, ttl) ==
    \/ s \in NoOps /\ UNCHANGED <<store, late>>
    \/ BigCacheSet(s, k, NewEntry(val, ttl, now))
    \/ KeyDBSet(s, k, NewEntry(val, ttl, now))

LevelDelete(s, k) ==
    \/ s \in NoOps /\ UNCHANGED <<store, late>>
    \/ s \in Caches \ NoOps /\ Execute(s, k, NoEntry)
    \/ Fail(s, k, NoEntry)

-------------------------------------------------------------------------------
(* Get and GetStale: the two differ in logging and metrics only, in        *)
(* MultiCache and in both kinds of level.                                  *)

CallGet(c, k) ==
    /\ op[c].pc = "idle"
    /\ op' = [op EXCEPT ![c] = Call(c, k, "probe", 0, NoTTL, dead)]
    /\ UNCHANGED <<now, store, late, writes, dead>>

\* Mutant: the level that missed is asked again.
MissAgain(c) ==
    op' = [op EXCEPT ![c].pc = IF op[c].lvl < Len(Chain[c]) THEN "probe" ELSE "idle"]

\* The level has nothing to offer: on to the next one, or report a miss.
Miss(c) ==
    LET more == op[c].lvl < Len(Chain[c])
    IN op' = [op EXCEPT ![c] = [@ EXCEPT !.pc = IF more THEN "probe" ELSE "idle",
                                         !.lvl = IF more THEN op[c].lvl + 1 ELSE 1]]

\* The level answers: propagate the entry if it was not the first level.
Hit(c, e) ==
    op' = [op EXCEPT ![c] = [@ EXCEPT
              !.pc = IF op[c].lvl > 1 /\ EnablePropagation THEN "promote" ELSE "idle",
              !.lvl = 1,
              !.hit = op[c].lvl,
              !.ent = e]]

\* Mutant: an entry past its fresh period is dropped.
AnswerFreshOnly(c, x) ==
    \/ x = NoEntry /\ Miss(c)
    \/ x = Garbage /\ op' = [op EXCEPT ![c].pc = "drop"]
    \/ /\ x \in Entry
       /\ IF ~ IsFresh(x, now)
          THEN op' = [op EXCEPT ![c].pc = "drop"]
          ELSE Hit(c, x)

\* What a level does with the data it read.
Answer(c, x) ==
    \/ x = NoEntry /\ Miss(c)
    \/ x = Garbage /\ op' = [op EXCEPT ![c].pc = "drop"]
    \/ /\ x \in Entry
       /\ IF IsExpired(x, now)
          THEN op' = [op EXCEPT ![c].pc = "drop"]
          ELSE Hit(c, x)

BigCacheGet(c) ==
    /\ op[c].pc = "probe"
    /\ Level(c) \in BigCaches
    /\ Answer(c, store[Level(c)][op[c].key])
    /\ UNCHANGED <<now, store, late, writes, dead>>

\* Any error of the client is a miss.
KeyDBGet(c) ==
    /\ op[c].pc = "probe"
    /\ Level(c) \in KeyDBs
    /\ \/ Answer(c, store[Level(c)][op[c].key])
       \/ KeyDBFaults /\ Miss(c)
    /\ UNCHANGED <<now, store, late, writes, dead>>

NoOpGet(c) ==
    /\ op[c].pc = "probe"
    /\ Level(c) \in NoOps
    /\ Miss(c)
    /\ UNCHANGED <<now, store, late, writes, dead>>

\* The level deletes the key it read undecodable or expired data from,
\* whatever is stored under it by now.
Drop(c) ==
    /\ op[c].pc = "drop"
    /\ LevelDelete(Level(c), op[c].key)
    /\ Miss(c)
    /\ UNCHANGED <<now, writes, dead>>

\* Mutant: whether the entry has expired meanwhile is not looked at.
PromoteExpired(c) ==
    /\ op[c].pc = "promote"
    /\ LET rem == RemainingTTL(op[c].ent, now)
       IN IF rem.fresh <= 0 /\ rem.stale <= 0
          THEN op' = [op EXCEPT ![c].pc = "idle"]
          ELSE op' = [op EXCEPT ![c] = [@ EXCEPT !.pc = "fill", !.val = op[c].ent.data,
                                                 !.ttl = rem, !.since = now]]
    /\ UNCHANGED <<now, store, late, writes, dead>>

\* propagateToEarlierCaches, up to its loop.
Promote(c) ==
    /\ op[c].pc = "promote"
    /\ LET e   == op[c].ent
           rem == RemainingTTL(e, now)
       IN IF IsExpired(e, now) \/ (rem.fresh <= 0 /\ rem.stale <= 0)
          THEN op' = [op EXCEPT ![c].pc = "idle"]
          ELSE op' = [op EXCEPT ![c] =
                         [@ EXCEPT !.pc = "fill", !.val = e.data, !.ttl = rem, !.since = now]]
    /\ UNCHANGED <<now, store, late, writes, dead>>

\* One round of its loop.
Fill(c) ==
    /\ op[c].pc = "fill"
    /\ LevelSet(Level(c), op[c].key, op[c].val, op[c].ttl)
    /\ IF op[c].lvl + 1 < op[c].hit
       THEN op' = [op EXCEPT ![c].lvl = @ + 1]
       ELSE op' = [op EXCEPT ![c] =
                      [@ EXCEPT !.pc = "idle", !.lvl = 1, !.val = 0, !.ttl = NoTTL, !.since = 0]]
    /\ UNCHANGED <<now, writes, dead>>

-------------------------------------------------------------------------------
(* Set and Delete: each level in turn, first to last.                      *)

CallSet(c, k, ttl, big) ==
    /\ op[c].pc = "idle"
    /\ Len(writes) < MaxWrites
    /\ writes' = Append(writes, [key |-> k, at |-> now, ttl |-> ttl, big |-> big])
    /\ op' = [op EXCEPT ![c] = Call(c, k, "write", Len(writes) + 1, ttl, Settled(k))]
    /\ UNCHANGED <<now, store, late, dead>>

CallDelete(c, k) ==
    /\ op[c].pc = "idle"
    /\ op' = [op EXCEPT ![c] = Call(c, k, "erase", 0, NoTTL, Settled(k))]
    /\ UNCHANGED <<now, store, late, writes, dead>>

\* Mutant: the levels never end.
NextLevelPastEnd(c) ==
    IF op[c].lvl <= Len(Chain[c])
    THEN /\ op' = [op EXCEPT ![c].lvl = @ + 1]
         /\ UNCHANGED dead
    ELSE /\ op' = [op EXCEPT ![c] = Call(c, op[c].key, "idle", 0, NoTTL, {})]
         /\ dead' = dead \cup op[c].base

\* The level is done: on to the next one, or return to the caller.
NextLevel(c) ==
    IF op[c].lvl < Len(Chain[c])
    THEN /\ op' = [op EXCEPT ![c].lvl = @ + 1]
         /\ UNCHANGED dead
    ELSE /\ op' = [op EXCEPT ![c] = Call(c, op[c].key, "idle", 0, NoTTL, {})]
         /\ dead' = dead \cup op[c].base

\* The age of a value counts from the last time its Set stored it.
WriteLevel(c) ==
    /\ op[c].pc = "write"
    /\ LevelSet(Level(c), op[c].key, op[c].val, op[c].ttl)
    /\ writes' = [writes EXCEPT ![op[c].val].at = now]
    /\ NextLevel(c)
    /\ UNCHANGED now

\* Mutant: only the first level is deleted from.
EraseFirstLevel(c) ==
    /\ op[c].pc = "erase"
    /\ LevelDelete(Level(c), op[c].key)
    /\ op' = [op EXCEPT ![c] = Call(c, op[c].key, "idle", 0, NoTTL, {})]
    /\ dead' = dead \cup op[c].base
    /\ UNCHANGED <<now, writes>>

EraseLevel(c) ==
    /\ op[c].pc = "erase"
    /\ LevelDelete(Level(c), op[c].key)
    /\ NextLevel(c)
    /\ UNCHANGED <<now, writes>>

-------------------------------------------------------------------------------
(* The environment.                                                        *)

\* Either store drops a key when it needs the memory; BigCache also at the end
\* of its life window of ten minutes, KeyDB at the expiration given to Set.
Evict(s, k) ==
    /\ store[s][k] # NoEntry
    /\ store' = [store EXCEPT ![s][k] = NoEntry]
    /\ UNCHANGED <<now, late, writes, dead, op>>

\* Another program, or another version of this one, writes the key in KeyDB.
Corrupt(s, k) ==
    /\ Corruption
    /\ store' = [store EXCEPT ![s][k] = Garbage]
    /\ UNCHANGED <<now, late, writes, dead, op>>

\* The server executes a command whose caller has given up.
ExecuteLate(m) ==
    /\ store' = [store EXCEPT ![m.cache][m.key] = m.put]
    /\ late' = late \ {m}
    /\ UNCHANGED <<now, writes, dead, op>>

\* The process that owns BigCache s stops and starts again: its cache is empty
\* and its calls are gone.
Restart(s) ==
    /\ store' = [store EXCEPT ![s] = [k \in Keys |-> NoEntry]]
    /\ op' = [c \in Clients |->
                 IF \E i \in DOMAIN Chain[c] : Chain[c][i] = s
                 THEN Call(c, op[c].key, "idle", 0, NoTTL, {})
                 ELSE op[c]]
    /\ UNCHANGED <<now, late, writes, dead>>

\* A propagation is short: no loop in it waits, except for a KeyDB Set, which
\* SendTimeout ends.
Tick ==
    /\ now < MaxTime
    /\ \A c \in Clients : op[c].pc = "fill" => now < op[c].since + FillDelay
    /\ now' = now + 1
    /\ UNCHANGED <<store, late, writes, dead, op>>

-------------------------------------------------------------------------------
ClientStep(c) ==
    \/ BigCacheGet(c) \/ KeyDBGet(c) \/ NoOpGet(c) \/ Drop(c) \/ Promote(c)
    \/ Fill(c) \/ WriteLevel(c) \/ EraseLevel(c)

Next ==
    \/ \E c \in Clients, k \in Keys : CallGet(c, k)
    \/ \E c \in Writers, k \in Keys :
          \/ \E ttl \in TTLs, big \in Sizes : CallSet(c, k, ttl, big)
          \/ CallDelete(c, k)
    \/ \E c \in Clients : ClientStep(c)
    \/ \E s \in Caches, k \in Keys : Evict(s, k)
    \/ \E s \in KeyDBs, k \in Keys : Corrupt(s, k)
    \/ \E m \in late : ExecuteLate(m)
    \/ \E s \in BigCaches : Restart(s)
    \/ Tick

Spec == Init /\ [][Next]_vars

\* A goroutine is scheduled, and a KeyDB command answers or times out.
FairSpec == Spec /\ \A c \in Clients : WF_vars(ClientStep(c))

-------------------------------------------------------------------------------
(* Properties.                                                             *)

Command == [cache : KeyDBs, key : Keys, put : Entry \cup {NoEntry}]

HistoryType ==
    /\ now \in Nat
    /\ writes \in Seq(Write)
    /\ dead \subseteq DOMAIN writes

LevelsType ==
    /\ store \in [Caches -> [Keys -> Entry \cup {NoEntry, Garbage}]]
    /\ late \subseteq Command

\* Types of the variables; the Sets and the levels that data and calls refer to
\* exist (no index of mc.caches is out of range).
TypeOK ==
    /\ HistoryType
    /\ LevelsType
    /\ op \in [Clients -> Operation]
    /\ \A c \in Clients :
          /\ op[c].pc # "idle" => op[c].lvl \in DOMAIN Chain[c]
          /\ op[c].hit \in {0} \cup DOMAIN Chain[c]
          /\ op[c].pc \in {"write", "fill"} => op[c].val \in DOMAIN writes

\* Every entry of key k somewhere in level s: stored, or on its way to it.
EntriesAt(s, k) ==
    ({store[s][k]} \cup {m.put : m \in {l \in late : l.cache = s /\ l.key = k}}) \cap Entry

\* The latest second in which level s may still hold what Set w stored: each
\* copy to an earlier level restarts the stale period, as late as FillDelay
\* after the remaining TTL was computed.
LastSecond(w, s) ==
    LET fresh == Seconds(w.ttl.fresh)
        stale == Seconds(w.ttl.stale)
        copies == IF EnablePropagation THEN Rank[s] ELSE 0
    IN w.at + fresh + stale + copies * (stale + FillDelay)

\* However Sets, Gets, propagations, late commands and restarts interleave, no
\* level serves a value beyond its fresh period plus one stale period per level
\* it was copied to (KeyDBCache.Set, BigCache.Set, propagateToEarlierCaches).
LifetimeBound ==
    \A s \in Caches, k \in Keys : \A e \in EntriesAt(s, k) :
        e.expiresAt <= LastSecond(writes[e.data], s)

\* A copy is fresh for no longer than its Set asked, and may be served stale
\* for exactly as long as its Set asked (RemainingTTL undoes Set's arithmetic).
WindowsPreserved ==
    \A s \in Caches, k \in Keys : \A e \in EntriesAt(s, k) :
        LET ttl == writes[e.data].ttl
        IN /\ writes[e.data].key = k
           /\ e.staleAt - e.createdAt <= Seconds(ttl.fresh)
           /\ e.expiresAt - e.staleAt = Seconds(ttl.stale)

\* A finished Get did not return a value that a Set or a Delete had replaced
\* before the Get began: MultiCache is a regular register, as long as nothing
\* else changes the levels while a value is propagated.
Regular ==
    \A c \in Clients :
        op[c].pc = "idle" /\ op[c].ent # NoEntry => op[c].ent.data \notin op[c].base

\* When no call is under way, the levels behind one MultiCache that hold a key
\* hold the same value of it: a level that loses its copy can be bypassed.
LevelsAgree ==
    (\A c \in Clients : op[c].pc = "idle") =>
        \A c \in Clients, k \in Keys : \A i, j \in DOMAIN Chain[c] :
            \A e \in EntriesAt(Chain[c][i], k), f \in EntriesAt(Chain[c][j], k) :
                e.data = f.data

\* What TTL says of its second part: "how long stale data can be served", counted
\* from the end of the fresh period of what Set stored.
StaleAsAsked ==
    \A s \in Caches, k \in Keys : \A e \in EntriesAt(s, k) :
        LET ttl == writes[e.data].ttl
        IN e.expiresAt <= writes[e.data].at + Seconds(ttl.fresh) + Seconds(ttl.stale)

\* A Get deletes what it found undecodable or expired, and never an entry that
\* could still be served: the deletion comes a step after the read.
DropsOnlyUseless ==
    [][\A c \in Clients : Drop(c) =>
          LET x == store[Level(c)][op[c].key]
          IN x \in Entry => IsExpired(x, now)]_vars

\* Every call on the MultiCache returns, whatever the levels answer.
CallsReturn == \A c \in Clients : op[c].pc # "idle" ~> op[c].pc = "idle"

===============================================================================
