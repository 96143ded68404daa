----------------------------- MODULE MCMultiCache -----------------------------
(* Small instances of MultiCache.  One cfg per question chooses among them.  *)
EXTENDS CacheAsRegister

CONSTANTS c1, c2, l1a, l2, l3, off, k1

\* One process with a BigCache and a KeyDB.
TwoLevels == [c \in Clients |-> <<l1a, l2>>]

\* The same with a level between them that is switched off.
LevelOff == [c \in Clients |-> <<l1a, off, l2>>]

\* A process with a BigCache and two KeyDBs, and one without a BigCache.
SharedKeyDBs == [c \in Clients |-> IF c = c1 THEN <<l1a, l2, l3>> ELSE <<l2, l3>>]

\* Levels behind the BigCache, behind the near KeyDB, behind the far one.
RankOfTwo == [s \in Caches |-> IF s = l2 THEN 0 ELSE 1]
RankWithOff == [s \in Caches |-> IF s = l2 THEN 0 ELSE IF s = off THEN 1 ELSE 2]
RankOfThree == [s \in Caches |-> IF s = l3 THEN 0 ELSE IF s = l2 THEN 1 ELSE 2]

\* One second and a half, of which the half is lost; and one second.
OneTTL == {[fresh |-> 3, stale |-> 2]}

\* Also a value that is never served stale and one that is never fresh.
EveryTTL == {[fresh |-> 3, stale |-> 2], [fresh |-> 2, stale |-> 0], [fresh |-> 1, stale |-> 2]}

\* The instances with one client meet what the proofs assume of a client that is
\* alone, unless they are about a large value.
ASSUME AloneAssumption ==
    Clients = {c1} /\ ~ KeyDBFaults /\ TRUE \notin Sizes => Alone /\ OneSurvives /\ OneKey

===============================================================================
