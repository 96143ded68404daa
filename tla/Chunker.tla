------------------------------- MODULE Chunker -------------------------------
(***************************************************************************)
(* One call of ChunkArrayFetcher or ChunkMapFetcher (batch/chunker.go).    *)
(* Items are their positions and an item's string is its length.  A chunk  *)
(* is the interval of items it takes; what fetchFunc returns for it is an  *)
(* error or a result, and the results are merged in order at the end.      *)
(***************************************************************************)
EXTENDS Integers, Sequences

CONSTANTS
    ItemLists,          \* sequences of string lengths
    ItemLimits,         \* values of chunkItemsLimit
    LengthLimits,       \* values of chunkStringLengthLimit, 0 for none
    Delays              \* is there a delay between chunks?

ASSUME ChunkerAssumption ==
    /\ ItemLists \subseteq Seq(Nat)
    /\ ItemLimits \subseteq Int
    /\ LengthLimits \subseteq Int
    /\ Delays \subseteq BOOLEAN

VARIABLES
    pc,
    lengths,            \* the lengths of the items
    chunkItemsLimit, chunkStringLengthLimit, delay,
    cancelled,          \* the context
    start, end,         \* the items start + 1 to end are the chunk being built
    currentLength,
    isFirst,
    results,            \* the chunks fetched with success
    merged,             \* how many of them are in the caller's result
    answer              \* the items that result is merged from so far

args == <<lengths, chunkItemsLimit, chunkStringLengthLimit, delay>>
vars == <<pc, args, cancelled, start, end, currentLength, isFirst, results, merged, answer>>

-------------------------------------------------------------------------------
\* No items, or a limit that admits none, is an empty success.
Init ==
    /\ lengths \in ItemLists
    /\ chunkItemsLimit \in ItemLimits
    /\ chunkStringLengthLimit \in LengthLimits
    /\ delay \in Delays
    /\ pc = IF lengths = <<>> \/ chunkItemsLimit <= 0 THEN "ok" ELSE "build"
    /\ cancelled = FALSE
    /\ start = 0 /\ end = 0 /\ currentLength = 0
    /\ isFirst = TRUE
    /\ results = <<>> /\ merged = 0 /\ answer = <<>>

\* Mutant: the limits are compared after the item has been taken.
FitsAfterwards ==
    /\ end < Len(lengths)
    /\ end - start <= chunkItemsLimit
    /\ ~ (chunkStringLengthLimit > 0 /\ currentLength > chunkStringLengthLimit)

\* The next item is within both limits.
Fits ==
    /\ end < Len(lengths)
    /\ end - start < chunkItemsLimit
    /\ ~ (chunkStringLengthLimit > 0
             /\ currentLength + lengths[end + 1] > chunkStringLengthLimit)

TakeItem ==
    /\ pc = "build"
    /\ Fits
    /\ currentLength' = currentLength + lengths[end + 1]
    /\ end' = end + 1
    /\ UNCHANGED <<pc, args, cancelled, start, isFirst, results, merged, answer>>

\* A chunk has an item even if the item alone is over the limit.
CloseChunk ==
    /\ pc = "build"
    /\ ~ Fits
    /\ end' = IF end = start THEN start + 1 ELSE end
    /\ pc' = IF delay /\ ~ isFirst THEN "delay" ELSE "fetch"
    /\ UNCHANGED <<args, cancelled, start, currentLength, isFirst, results, merged, answer>>

\* Mutant: only the context ends the wait.
DelayWithoutTimer ==
    /\ pc = "delay"
    /\ cancelled /\ pc' = "failed"
    /\ UNCHANGED <<args, cancelled, start, end, currentLength, isFirst, results, merged, answer>>

\* Either case of the select, when both are ready.
Delay ==
    /\ pc = "delay"
    /\ \/ cancelled /\ pc' = "failed"
       \/ pc' = "fetch"
    /\ UNCHANGED <<args, cancelled, start, end, currentLength, isFirst, results, merged, answer>>

\* Mutant: an error ends the loop, and the chunks fetched before it are returned.
FetchPartial ==
    /\ pc = "fetch"
    /\ isFirst' = FALSE
    /\ start' = end
    /\ currentLength' = 0
    /\ \/ /\ pc' = "merge"
          /\ UNCHANGED results
       \/ /\ results' = Append(results, [i \in 1 .. end - start |-> start + i])
          /\ pc' = IF end < Len(lengths) THEN "build" ELSE "merge"
    /\ UNCHANGED <<args, cancelled, end, merged, answer>>

\* Mutant: the next chunk starts one item late.
FetchSkips ==
    /\ pc = "fetch"
    /\ isFirst' = FALSE
    /\ start' = end + 1
    /\ end' = end + 1
    /\ currentLength' = 0
    /\ \/ /\ pc' = "failed"
          /\ UNCHANGED results
       \/ /\ results' = Append(results, [i \in 1 .. end - start |-> start + i])
          /\ pc' = IF end' < Len(lengths) THEN "build" ELSE "merge"
    /\ UNCHANGED <<args, cancelled, merged, answer>>

\* fetchFunc: an error is the caller's, and what was fetched is forgotten.
Fetch ==
    /\ pc = "fetch"
    /\ isFirst' = FALSE
    /\ start' = end
    /\ currentLength' = 0
    /\ \/ /\ pc' = "failed"
          /\ UNCHANGED results
       \/ /\ results' = Append(results, [i \in 1 .. end - start |-> start + i])
          /\ pc' = IF end < Len(lengths) THEN "build" ELSE "merge"
    /\ UNCHANGED <<args, cancelled, end, merged, answer>>

\* One round of the loop over chunkResults, or the return behind it.
Merge ==
    /\ pc = "merge"
    /\ IF merged < Len(results)
       THEN /\ answer' = answer \o results[merged + 1]
            /\ merged' = merged + 1
            /\ UNCHANGED pc
       ELSE /\ pc' = "ok"
            /\ UNCHANGED <<merged, answer>>
    /\ UNCHANGED <<args, cancelled, start, end, currentLength, isFirst, results>>

Cancel ==
    /\ ~ cancelled
    /\ pc \in {"build", "delay", "fetch", "merge"}
    /\ cancelled' = TRUE
    /\ UNCHANGED <<pc, args, start, end, currentLength, isFirst, results, merged, answer>>

Next == TakeItem \/ CloseChunk \/ Delay \/ Fetch \/ Merge \/ Cancel

Spec == Init /\ [][Next]_vars

\* fetchFunc answers and the timer fires.
FairSpec == Spec /\ WF_vars(TakeItem \/ CloseChunk \/ Delay \/ Fetch \/ Merge)

-------------------------------------------------------------------------------
(* Properties.                                                             *)

TotalLength(chunk) ==
    LET sum[n \in 0 .. Len(chunk)] == IF n = 0 THEN 0 ELSE sum[n - 1] + lengths[chunk[n]]
    IN sum[Len(chunk)]

Within(chunk) ==
    /\ Len(chunk) <= chunkItemsLimit
    /\ chunkStringLengthLimit > 0 => TotalLength(chunk) <= chunkStringLengthLimit

\* Types of the variables; no item is looked for behind the last.
TypeOK ==
    /\ pc \in {"build", "delay", "fetch", "merge", "ok", "failed"}
    /\ cancelled \in BOOLEAN /\ isFirst \in BOOLEAN /\ delay \in BOOLEAN
    /\ end \in 0 .. Len(lengths) /\ start \in 0 .. end
    /\ currentLength \in Nat
    /\ results \in Seq(Seq(DOMAIN lengths)) /\ answer \in Seq(DOMAIN lengths)
    /\ merged \in 0 .. Len(results)

\* Every chunk fetched is within both limits, or is one item that no chunk could
\* hold, and would not be with one more item: requests are neither too long nor
\* more than needed.
ChunksFill ==
    \A n \in DOMAIN results :
        LET chunk == results[n]
        IN /\ Within(chunk) \/ Len(chunk) = 1
           /\ n < Len(results) => ~ Within(Append(chunk, chunk[Len(chunk)] + 1))

\* A successful call answers for every item once and in order, whichever item is too
\* long, and for none if no item may be in a chunk (chunkItemsLimit <= 0); a failed
\* one answers for none.
AllOrNothing ==
    /\ pc = "ok" =>
          answer = IF chunkItemsLimit > 0 THEN [i \in DOMAIN lengths |-> i] ELSE <<>>
    /\ pc = "failed" => answer = <<>>

\* A call ends, one item longer than the limit or not.
CallReturns == <>(pc \in {"ok", "failed"})

===============================================================================
