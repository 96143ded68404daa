------------------------------ MODULE CacheEntry ------------------------------
(***************************************************************************)
(* The TTL arithmetic of a cache entry (models/cache.go).  An entry        *)
(* carries whole Unix seconds; a TTL is a pair of Go durations, which are  *)
(* finer than a second.  A duration is counted here in units of 1/SubSec   *)
(* of a second.                                                            *)
(***************************************************************************)
EXTENDS Integers

CONSTANT SubSec          \* units of a time.Duration in one second

ASSUME SubSecAssumption == SubSec \in Nat \ {0}

TTL == [fresh : Nat, stale : Nat]

\* data identifies the write the bytes come from.
Entry == [data : Nat, createdAt : Nat, staleAt : Nat, expiresAt : Nat]

\* int64(d.Seconds()): the fraction of a second is dropped.
Seconds(d) == d \div SubSec

\* The entry both levels build in Set, each with its own reading of the clock.
NewEntry(data, ttl, now) ==
    [ data      |-> data,
      createdAt |-> now,
      staleAt   |-> now + Seconds(ttl.fresh),
      expiresAt |-> now + Seconds(ttl.fresh) + Seconds(ttl.stale) ]

IsExpired(e, now) == now > e.expiresAt

IsFresh(e, now) == now <= e.staleAt

NonNegative(n) == IF n < 0 THEN 0 ELSE n

\* Mutants: the whole life of the entry counts as stale; so does what is left of
\* it; the part of the fresh period that is gone is not subtracted.
RemainingTTLWholeLife(e, now) ==
    [ fresh |-> NonNegative(e.staleAt - now) * SubSec,
      stale |-> NonNegative(e.expiresAt - e.createdAt) * SubSec ]

RemainingTTLToExpiry(e, now) ==
    [ fresh |-> NonNegative(e.staleAt - now) * SubSec,
      stale |-> NonNegative(e.expiresAt - now) * SubSec ]

RemainingTTLNotElapsed(e, now) ==
    [ fresh |-> NonNegative(e.staleAt - e.createdAt) * SubSec,
      stale |-> NonNegative(e.expiresAt - e.staleAt) * SubSec ]

\* The stale part is the whole stale window, however much of it has elapsed.
RemainingTTL(e, now) ==
    [ fresh |-> NonNegative(e.staleAt - now) * SubSec,
      stale |-> NonNegative(e.expiresAt - e.staleAt) * SubSec ]

===============================================================================
