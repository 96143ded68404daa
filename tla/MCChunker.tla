------------------------------- MODULE MCChunker -------------------------------
EXTENDS Chunker

CONSTANTS MaxItems, MaxLength

\* Every list of so many items, empty strings included.
ShortLists == UNION {[1..n -> 0..MaxLength] : n \in 0..MaxItems}

===============================================================================
