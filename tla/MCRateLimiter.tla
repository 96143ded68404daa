---------------------------- MODULE MCRateLimiter ----------------------------
EXTENDS RateLimiterManager, TLC

CONSTANTS t1, t2, k1, k2

\* One type below and one above a request per second; no entry and an entry of
\* zeros, which both mean the default; a burst given and a burst computed.
Limit(rpm, burst) == [rpm |-> rpm, burst |-> burst]

FewConfigs ==
    { 1 :> Limit(45, 0) @@ 2 :> Limit(61, 0),
      1 :> Limit(120, 5),
      1 :> Limit(0, 0) @@ 2 :> Limit(60, 2) }

===============================================================================
