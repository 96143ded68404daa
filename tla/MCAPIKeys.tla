------------------------------- MODULE MCAPIKeys -------------------------------
EXTENDS APIKeys, TLC

CONSTANTS t1, t2, k1

TwoTypes == <<1, 2>>

\* A key together with the empty key; the same key alone, as another type.  A
\* request that meets both lists may be offered the key twice.
FewLists ==
    { 1 :> <<k1, EmptyKey>> @@ 2 :> <<>>,
      1 :> <<>> @@ 2 :> <<k1>> }

===============================================================================
