---------------------------- MODULE MCKeyedRequest ----------------------------
EXTENDS KeyedRequest

CONSTANTS k1, k2

\* No key at all; keys before a request without one; a key that two types have.
FewLists == {<<>>, <<k1>>, <<k1, k2, EmptyKey>>, <<k1, k1>>}

===============================================================================
