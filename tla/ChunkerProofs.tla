----------------------------- MODULE ChunkerProofs -----------------------------
(***************************************************************************)
(* For every list of items and all limits: the types, ChunksFill and       *)
(* AllOrNothing of Chunker.                                                *)
(*                                                                         *)
(* The invariant says where the chunks lie in the list: each begins behind *)
(* the one before it, is Filled, and what has been merged is the items up  *)
(* to the last of the chunks merged.  That the current length is the sum   *)
(* that TotalLength computes is an induction over the items of a chunk.    *)
(***************************************************************************)
EXTENDS Chunker, NaturalsLemmas, TLAPS

\* The chunk of the items behind from, up to to.
Chunk(from, to) == [i \in 1 .. to - from |-> from + i]

\* TotalLength, Within and what ChunksFill says of a chunk, for the items ls and the
\* limits most and longest.
LengthOf(ls, chunk) ==
    LET sum[n \in 0 .. Len(chunk)] == IF n = 0 THEN 0 ELSE sum[n - 1] + ls[chunk[n]]
    IN sum[Len(chunk)]

Admitted(ls, most, longest, chunk) ==
    /\ Len(chunk) <= most
    /\ longest > 0 => LengthOf(ls, chunk) <= longest

Filled(ls, most, longest, from, to) ==
    /\ Admitted(ls, most, longest, Chunk(from, to)) \/ to = from + 1
    /\ to < Len(ls) => ~ Admitted(ls, most, longest, Chunk(from, to + 1))

\* The last item of the first n chunks, 0 if there is none.
LastOf(rs, n) == IF n = 0 THEN 0 ELSE rs[n][Len(rs[n])]

\* The chunks rs follow each other.
Chunked(ls, most, longest, rs) ==
    \A n \in DOMAIN rs :
        LET from == LastOf(rs, n - 1)
            to == LastOf(rs, n)
        IN /\ from \in Nat /\ to \in Nat /\ from < to /\ to <= Len(ls)
           /\ rs[n] = Chunk(from, to)
           /\ Filled(ls, most, longest, from, to)

Arguments ==
    /\ lengths \in Seq(Nat)
    /\ chunkItemsLimit \in Int
    /\ chunkStringLengthLimit \in Int
    /\ pc = "ok" \/ (chunkItemsLimit > 0 /\ lengths # <<>>)

\* The chunk being built or fetched is the next one.
Building ==
    /\ pc \in {"build", "delay", "fetch"} =>
          start = LastOf(results, Len(results)) /\ start < Len(lengths)
    /\ pc = "build" =>
          /\ currentLength = LengthOf(lengths, Chunk(start, end))
          /\ Admitted(lengths, chunkItemsLimit, chunkStringLengthLimit, Chunk(start, end))
    /\ pc \in {"delay", "fetch"} =>
          /\ start < end
          /\ Filled(lengths, chunkItemsLimit, chunkStringLengthLimit, start, end)

\* What has been merged is the chunks up to one, and at the end all of them.
Merging ==
    /\ answer = Chunk(0, LastOf(results, merged))
    /\ pc \notin {"merge", "ok"} => merged = 0
    /\ pc = "merge" => LastOf(results, Len(results)) = Len(lengths)
    /\ pc = "ok" => IF chunkItemsLimit > 0 THEN LastOf(results, merged) = Len(lengths)
                                           ELSE merged = 0

CInv ==
    /\ TypeOK
    /\ Arguments
    /\ Chunked(lengths, chunkItemsLimit, chunkStringLengthLimit, results)
    /\ Building
    /\ Merging

-------------------------------------------------------------------------------
(* Chunks as sequences.                                                    *)

LEMMA ChunkIs ==
  ASSUME NEW from \in Nat, NEW to \in Nat, from <= to
  PROVE  /\ Chunk(from, to) \in Seq(Nat)
         /\ Len(Chunk(from, to)) = to - from
         /\ DOMAIN Chunk(from, to) = 1 .. to - from
         /\ \A i \in 1 .. to - from : Chunk(from, to)[i] = from + i
         /\ from < to => Chunk(from, to)[Len(Chunk(from, to))] = to
<1>1. to - from \in Nat
  OBVIOUS
<1>2. \A i \in 1 .. to - from : from + i \in Nat
  OBVIOUS
<1> QED
  BY <1>1, <1>2 DEF Chunk

LEMMA EmptyChunk == Chunk(0, 0) = <<>>
<1>1. 0 - 0 = 0 /\ 1 .. 0 = {}
  OBVIOUS
<1>2. Chunk(0, 0) = [i \in {} |-> 0 + i]
  BY <1>1 DEF Chunk
<1>3. DOMAIN <<>> = {}
  OBVIOUS
<1> QED
  BY <1>2, <1>3

\* A chunk takes one more item.
LEMMA ChunkGrows ==
  ASSUME NEW from \in Nat, NEW to \in Nat, from <= to
  PROVE  Append(Chunk(from, to), to + 1) = Chunk(from, to + 1)
<1> DEFINE c == Chunk(from, to)
           d == Chunk(from, to + 1)
<1>1. c \in Seq(Nat) /\ d \in Seq(Nat) /\ Append(c, to + 1) \in Seq(Nat)
      /\ Len(c) = to - from /\ Len(d) = to + 1 - from
      /\ (\A i \in 1 .. to - from : c[i] = from + i)
      /\ \A i \in 1 .. to + 1 - from : d[i] = from + i
  <2>1. to + 1 \in Nat /\ from <= to + 1
    OBVIOUS
  <2>2. /\ c \in Seq(Nat) /\ Len(c) = to - from
        /\ \A i \in 1 .. to - from : c[i] = from + i
    BY ChunkIs
  <2>3. /\ d \in Seq(Nat) /\ Len(d) = to + 1 - from
        /\ \A i \in 1 .. to + 1 - from : d[i] = from + i
    <3>1. PICK q \in Nat : q = to + 1 /\ from <= q
      BY <2>1
    <3>2. /\ Chunk(from, q) \in Seq(Nat) /\ Len(Chunk(from, q)) = q - from
          /\ \A i \in 1 .. q - from : Chunk(from, q)[i] = from + i
      BY <3>1, ChunkIs
    <3> QED
      BY <3>1, <3>2
  <2> HIDE DEF c, d
  <2>4. Append(c, to + 1) \in Seq(Nat)
    BY <2>1, <2>2
  <2> QED
    BY <2>2, <2>3, <2>4
<1> HIDE DEF c, d
<1>2. Len(Append(c, to + 1)) = Len(d)
  <2>1. Len(Append(c, to + 1)) = Len(c) + 1
    <3>1. c \in Seq(Nat) /\ to + 1 \in Nat
      BY <1>1
    <3> QED
      BY ONLY <3>1
  <2>2. to - from + 1 = to + 1 - from
    OBVIOUS
  <2> QED
    BY <1>1, <2>1, <2>2
<1>3. ASSUME NEW i \in 1 .. Len(d) PROVE Append(c, to + 1)[i] = d[i]
  <2>1. CASE i = to + 1 - from
    BY <1>1, <2>1
  <2>2. CASE i # to + 1 - from
    <3>1. i \in 1 .. Len(c)
      BY <1>1, <2>2
    <3> QED
      BY <1>1, <3>1
  <2> QED
    BY <2>1, <2>2
<1>4. Append(c, to + 1) = d
  BY <1>1, <1>2, <1>3
<1> QED
  BY <1>4 DEF c, d

\* Two chunks that follow each other are a chunk.
LEMMA ChunksJoin ==
  ASSUME NEW a \in Nat, NEW b \in Nat, a <= b
  PROVE  Chunk(0, a) \o Chunk(a, b) = Chunk(0, b)
<1> DEFINE c == Chunk(0, a)
           d == Chunk(a, b)
           e == Chunk(0, b)
<1>1. c \in Seq(Nat) /\ d \in Seq(Nat) /\ e \in Seq(Nat) /\ c \o d \in Seq(Nat)
      /\ Len(c) = a /\ Len(d) = b - a /\ Len(e) = b
      /\ (\A i \in 1 .. a : c[i] = i)
      /\ (\A i \in 1 .. b - a : d[i] = a + i)
      /\ \A i \in 1 .. b : e[i] = i
  <2>1. 0 \in Nat /\ 0 <= a /\ 0 <= b /\ a - 0 = a /\ b - 0 = b
    OBVIOUS
  <2>2. c \in Seq(Nat) /\ Len(c) = a /\ \A i \in 1 .. a : c[i] = 0 + i
    BY <2>1, ChunkIs
  <2>3. d \in Seq(Nat) /\ Len(d) = b - a /\ \A i \in 1 .. b - a : d[i] = a + i
    BY ChunkIs
  <2>4. e \in Seq(Nat) /\ Len(e) = b /\ \A i \in 1 .. b : e[i] = 0 + i
    BY <2>1, ChunkIs
  <2> HIDE DEF c, d, e
  <2>5. c \o d \in Seq(Nat)
    BY <2>2, <2>3
  <2> QED
    BY <2>2, <2>3, <2>4, <2>5
<1> HIDE DEF c, d, e
<1>2. Len(c \o d) = Len(e)
  BY <1>1
<1>3. ASSUME NEW i \in 1 .. Len(e) PROVE (c \o d)[i] = e[i]
  <2>1. CASE i <= a
    BY <1>1, <2>1
  <2>2. CASE ~ (i <= a)
    <3>1. i - a \in 1 .. b - a
      BY <1>1, <2>2
    <3>2. (c \o d)[i] = d[i - a]
      BY <1>1, <2>2
    <3> QED
      BY <1>1, <3>1, <3>2
  <2> QED
    BY <2>1, <2>2
<1>4. c \o d = e
  <2> DEFINE j == c \o d
  <2>1. j \in Seq(Nat) /\ e \in Seq(Nat) /\ Len(j) = Len(e) /\ \A i \in 1 .. Len(e) : j[i] = e[i]
    BY <1>1, <1>2, <1>3
  <2> HIDE DEF j
  <2>2. j = e
    BY <2>1
  <2> QED
    BY <2>2 DEF j
<1> QED
  BY <1>4 DEF c, d, e

-------------------------------------------------------------------------------
(* The length of a chunk.                                                  *)

\* f[n] is the length of the first n items of the chunk.
Sums(ls, chunk, f) ==
    f = [n \in 0 .. Len(chunk) |-> IF n = 0 THEN 0 ELSE f[n - 1] + ls[chunk[n]]]

LEMMA SumsExist ==
  ASSUME NEW ls \in Seq(Nat), NEW chunk \in Seq(DOMAIN ls)
  PROVE  \E f : Sums(ls, chunk, f)
<1> DEFINE item(n) == IF n + 1 \in 1 .. Len(chunk) THEN ls[chunk[n + 1]] ELSE 0
           h == [n \in Nat |-> [m \in Nat |-> m + item(n)]]
<1>1. \A n \in Nat : item(n) \in Nat
  <2> SUFFICES ASSUME NEW n \in Nat, n + 1 \in 1 .. Len(chunk)
               PROVE  ls[chunk[n + 1]] \in Nat
    OBVIOUS
  <2>1. chunk[n + 1] \in DOMAIN ls
    OBVIOUS
  <2> QED
    BY <2>1
<1>2. PICK g : IsRecursive(g, Nat, 0, h)
  <2>1. h \in [Nat -> [Nat -> Nat]] /\ 0 \in Nat
    <3> HIDE DEF item
    <3>1. ASSUME NEW n \in Nat, NEW m \in Nat PROVE m + item(n) \in Nat
      <4>1. item(n) \in Nat
        BY <1>1
      <4> QED
        BY <4>1
    <3> QED
      BY <3>1
  <2> HIDE DEF h
  <2> QED
    BY <2>1, Recursion
<1> DEFINE f == [n \in 0 .. Len(chunk) |-> g[n]]
<1>3. ASSUME NEW n \in 0 .. Len(chunk)
      PROVE  g[n] = IF n = 0 THEN 0 ELSE f[n - 1] + ls[chunk[n]]
  <2>1. CASE n = 0
    BY <1>2, <2>1 DEF IsRecursive
  <2>2. CASE n # 0
    <3>1. n - 1 \in Nat /\ (n - 1) + 1 = n /\ n - 1 \in 0 .. Len(chunk) /\ n \in 1 .. Len(chunk)
      BY <2>2
    <3>2. g[n - 1] \in Nat /\ g[n] = h[n - 1][g[n - 1]]
      BY <1>2, <3>1 DEF IsRecursive
    <3>3. item(n - 1) = ls[chunk[n]]
      BY <3>1
    <3>4. g[n] = g[n - 1] + ls[chunk[n]]
      <4> HIDE DEF item
      <4> QED
        BY <3>1, <3>2, <3>3
    <3> QED
      BY <2>2, <3>1, <3>4
  <2> QED
    BY <2>1, <2>2
<1>4. Sums(ls, chunk, f)
  <2> HIDE DEF h
  <2>1. f = [n \in 0 .. Len(chunk) |-> IF n = 0 THEN 0 ELSE f[n - 1] + ls[chunk[n]]]
    BY <1>3
  <2> HIDE DEF f
  <2> QED
    BY <2>1 DEF Sums
<1> QED
  BY <1>4

LEMMA SumsAre ==
  ASSUME NEW ls, NEW chunk, Len(chunk) \in Nat, NEW f, Sums(ls, chunk, f)
  PROVE  f[0] = 0 /\ \A n \in 1 .. Len(chunk) : f[n] = f[n - 1] + ls[chunk[n]]
<1> DEFINE F(n) == IF n = 0 THEN 0 ELSE f[n - 1] + ls[chunk[n]]
<1>1. f = [n \in 0 .. Len(chunk) |-> F(n)]
  BY DEF Sums
<1> HIDE DEF F
<1>2. \A n \in 0 .. Len(chunk) : f[n] = F(n)
  BY <1>1
<1>3. 0 \in 0 .. Len(chunk) /\ \A n \in 1 .. Len(chunk) : n \in 0 .. Len(chunk) /\ n # 0
  OBVIOUS
<1> QED
  BY <1>2, <1>3 DEF F

\* The sums of a chunk are those of a longer one.
LEMMA SumsAgree ==
  ASSUME NEW ls, NEW chunk, Len(chunk) \in Nat, NEW other, Len(other) \in Nat, Len(chunk) <= Len(other),
         \A i \in 1 .. Len(chunk) : other[i] = chunk[i],
         NEW f, Sums(ls, chunk, f), NEW g, Sums(ls, other, g)
  PROVE  \A n \in 0 .. Len(chunk) : f[n] = g[n]
<1> DEFINE S == {n \in Nat : n <= Len(chunk) => f[n] = g[n]}
<1>1. /\ f[0] = 0 /\ \A n \in 1 .. Len(chunk) : f[n] = f[n - 1] + ls[chunk[n]]
      /\ g[0] = 0 /\ \A n \in 1 .. Len(other) : g[n] = g[n - 1] + ls[other[n]]
  <2>1. f[0] = 0 /\ \A n \in 1 .. Len(chunk) : f[n] = f[n - 1] + ls[chunk[n]]
    <3>1. Len(chunk) \in Nat /\ Sums(ls, chunk, f)
      OBVIOUS
    <3> QED
      BY <3>1, SumsAre
  <2>2. g[0] = 0 /\ \A n \in 1 .. Len(other) : g[n] = g[n - 1] + ls[other[n]]
    <3>1. Len(other) \in Nat /\ Sums(ls, other, g)
      OBVIOUS
    <3> QED
      BY <3>1, SumsAre
  <2> QED
    BY <2>1, <2>2
<1>2. 0 \in S
  BY <1>1
<1>3. ASSUME NEW n \in Nat, n \in S PROVE n + 1 \in S
  <2> SUFFICES ASSUME n + 1 <= Len(chunk) PROVE f[n + 1] = g[n + 1]
    OBVIOUS
  <2>1. n <= Len(chunk) /\ n + 1 \in 1 .. Len(chunk) /\ n + 1 \in 1 .. Len(other) /\ (n + 1) - 1 = n
    OBVIOUS
  <2>2. f[n] = g[n]
    BY <1>3, <2>1
  <2>3. f[n + 1] = f[n] + ls[chunk[n + 1]] /\ g[n + 1] = g[n] + ls[other[n + 1]]
    BY <1>1, <2>1
  <2> QED
    BY <2>1, <2>2, <2>3
<1>4. Nat \subseteq S
  <2> HIDE DEF S
  <2> QED
    BY <1>2, <1>3, SetInduction
<1> QED
  BY <1>4

LEMMA LengthOfIs ==
  ASSUME NEW ls \in Seq(Nat), NEW chunk \in Seq(DOMAIN ls)
  PROVE  \E f : Sums(ls, chunk, f) /\ LengthOf(ls, chunk) = f[Len(chunk)]
<1> DEFINE f == CHOOSE g : Sums(ls, chunk, g)
<1>1. Sums(ls, chunk, f)
  BY SumsExist
<1>2. LengthOf(ls, chunk) = f[Len(chunk)]
  BY DEF LengthOf, Sums
<1> QED
  BY <1>1, <1>2

\* An empty chunk has no length, and an item more adds its own.
LEMMA LengthOfGrows ==
  ASSUME NEW ls \in Seq(Nat), NEW from \in Nat, NEW to \in Nat, from <= to
  PROVE  /\ from = to /\ to <= Len(ls) => LengthOf(ls, Chunk(from, to)) = 0
         /\ to + 1 <= Len(ls) =>
               LengthOf(ls, Chunk(from, to + 1)) = LengthOf(ls, Chunk(from, to)) + ls[to + 1]
<1>1. ASSUME NEW q \in Nat, from <= q, q <= Len(ls)
      PROVE  /\ Chunk(from, q) \in Seq(DOMAIN ls) /\ Len(Chunk(from, q)) = q - from
             /\ \A i \in 1 .. q - from : Chunk(from, q)[i] = from + i
  <2>1. \A i \in 1 .. q - from : from + i \in DOMAIN ls
    BY <1>1
  <2>2. q - from \in Nat
    BY <1>1
  <2>3. Chunk(from, q) \in Seq(DOMAIN ls)
    BY <2>1, <2>2 DEF Chunk
  <2> QED
    BY <1>1, <2>3, ChunkIs
<1>2. ASSUME from = to, to <= Len(ls) PROVE LengthOf(ls, Chunk(from, to)) = 0
  <2> DEFINE c == Chunk(from, to)
  <2>1. c \in Seq(DOMAIN ls) /\ Len(c) = 0
    BY <1>1, <1>2
  <2> HIDE DEF c
  <2>2. PICK f : Sums(ls, c, f) /\ LengthOf(ls, c) = f[Len(c)]
    BY <2>1, LengthOfIs
  <2>3. f[0] = 0
    <3>1. Len(c) \in Nat /\ Sums(ls, c, f)
      BY <2>1, <2>2
    <3> QED
      BY <3>1, SumsAre
  <2> QED
    BY <2>1, <2>2, <2>3 DEF c
<1>3. ASSUME to + 1 <= Len(ls)
      PROVE  LengthOf(ls, Chunk(from, to + 1)) = LengthOf(ls, Chunk(from, to)) + ls[to + 1]
  <2>1. PICK q \in Nat : q = to + 1 /\ from <= q /\ q <= Len(ls)
    BY <1>3
  <2> DEFINE c == Chunk(from, to)
             d == Chunk(from, q)
  <2>2. /\ c \in Seq(DOMAIN ls) /\ Len(c) = to - from
        /\ \A i \in 1 .. to - from : c[i] = from + i
    <3>1. to <= Len(ls)
      BY <1>3
    <3> QED
      BY <1>1, <3>1
  <2>3. /\ d \in Seq(DOMAIN ls) /\ Len(d) = q - from
        /\ \A i \in 1 .. q - from : d[i] = from + i
    BY <1>1, <2>1
  <2> HIDE DEF c, d
  <2>4. PICK f : Sums(ls, c, f) /\ LengthOf(ls, c) = f[Len(c)]
    BY <2>2, LengthOfIs
  <2>5. PICK g : Sums(ls, d, g) /\ LengthOf(ls, d) = g[Len(d)]
    BY <2>3, LengthOfIs
  <2>6. /\ Len(c) \in Nat /\ Len(d) \in Nat /\ Len(d) = Len(c) + 1
        /\ Len(c) \in 0 .. Len(c) /\ Len(d) \in 1 .. Len(d) /\ d[Len(d)] = q
        /\ \A i \in 1 .. Len(c) : d[i] = c[i]
    BY <2>1, <2>2, <2>3
  <2>7. f[Len(c)] = g[Len(c)]
    <3>1. Len(c) <= Len(d)
      BY <2>6
    <3>2. Sums(ls, c, f) /\ Sums(ls, d, g) /\ Len(c) \in Nat /\ Len(d) \in Nat
          /\ \A i \in 1 .. Len(c) : d[i] = c[i]
      BY <2>4, <2>5, <2>6
    <3>3. \A n \in 0 .. Len(c) : f[n] = g[n]
      BY <3>1, <3>2, SumsAgree
    <3> QED
      BY <2>6, <3>3
  <2>8. g[Len(d)] = g[Len(d) - 1] + ls[q]
    <3>1. \A n \in 1 .. Len(d) : g[n] = g[n - 1] + ls[d[n]]
      BY <2>5, <2>6, SumsAre
    <3> QED
      BY <2>6, <3>1
  <2>9. Len(d) - 1 = Len(c)
    BY <2>6
  <2>10. LengthOf(ls, d) = LengthOf(ls, c) + ls[q]
    BY <2>4, <2>5, <2>7, <2>8, <2>9
  <2> QED
    BY <2>1, <2>10 DEF c, d
<1> QED
  BY <1>2, <1>3

\* The length of a chunk is a number of bytes.
LEMMA LengthOfNat ==
  ASSUME NEW ls \in Seq(Nat), NEW from \in Nat, NEW to \in Nat, from <= to, to <= Len(ls)
  PROVE  LengthOf(ls, Chunk(from, to)) \in Nat
<1> DEFINE S == {n \in Nat : from + n <= Len(ls) => LengthOf(ls, Chunk(from, from + n)) \in Nat}
<1>1. 0 \in S
  <2>1. from + 0 = from /\ from <= Len(ls)
    OBVIOUS
  <2> QED
    BY <2>1, LengthOfGrows
<1>2. ASSUME NEW n \in Nat, n \in S PROVE n + 1 \in S
  <2> SUFFICES ASSUME from + (n + 1) <= Len(ls)
               PROVE  LengthOf(ls, Chunk(from, from + (n + 1))) \in Nat
    OBVIOUS
  <2>1. PICK q \in Nat : q = from + n
    OBVIOUS
  <2>2. from <= q /\ q <= Len(ls) /\ q + 1 <= Len(ls) /\ q + 1 = from + (n + 1)
        /\ q + 1 \in DOMAIN ls
    BY <2>1
  <2>3. LengthOf(ls, Chunk(from, q)) \in Nat
    BY <1>2, <2>1, <2>2
  <2>4. LengthOf(ls, Chunk(from, q + 1)) = LengthOf(ls, Chunk(from, q)) + ls[q + 1]
    BY <2>2, LengthOfGrows
  <2>5. ls[q + 1] \in Nat
    BY <2>2
  <2> QED
    BY <2>2, <2>3, <2>4, <2>5
<1>3. Nat \subseteq S
  <2> HIDE DEF S
  <2> QED
    BY <1>1, <1>2, SetInduction
<1>4. PICK n \in Nat : n = to - from /\ from + n = to
  OBVIOUS
<1> QED
  BY <1>3, <1>4

LEMMA AdmittedIs ==
  ASSUME NEW ls, NEW most, NEW longest, NEW from \in Nat, NEW to \in Nat, from <= to
  PROVE  Admitted(ls, most, longest, Chunk(from, to)) <=>
            /\ to - from <= most
            /\ longest > 0 => LengthOf(ls, Chunk(from, to)) <= longest
<1>1. Len(Chunk(from, to)) = to - from
  BY ChunkIs
<1> QED
  BY <1>1 DEF Admitted

\* A chunk that takes an item which fits is admitted; one that takes an item which
\* does not is not.
LEMMA OneMoreItem ==
  ASSUME NEW ls \in Seq(Nat), NEW most \in Int, NEW longest \in Int,
         NEW from \in Nat, NEW to \in Nat, from <= to, to + 1 <= Len(ls),
         Admitted(ls, most, longest, Chunk(from, to))
  PROVE  Admitted(ls, most, longest, Chunk(from, to + 1)) <=>
            /\ to - from < most
            /\ ~ (longest > 0 /\ LengthOf(ls, Chunk(from, to)) + ls[to + 1] > longest)
<1>1. PICK q \in Nat : q = to + 1 /\ from <= q
  OBVIOUS
<1>2. LengthOf(ls, Chunk(from, q)) = LengthOf(ls, Chunk(from, to)) + ls[to + 1]
  BY <1>1, LengthOfGrows
<1>3. LengthOf(ls, Chunk(from, to)) \in Nat
  BY LengthOfNat
<1>4. ls[to + 1] \in Nat
  <2>1. to + 1 \in DOMAIN ls
    OBVIOUS
  <2> QED
    BY <2>1
<1>5. Admitted(ls, most, longest, Chunk(from, q)) <=>
         /\ q - from <= most
         /\ longest > 0 => LengthOf(ls, Chunk(from, q)) <= longest
  BY <1>1, AdmittedIs
<1>6. q - from <= most <=> to - from < most
  BY <1>1
<1>7. LengthOf(ls, Chunk(from, q)) <= longest <=>
         ~ (LengthOf(ls, Chunk(from, to)) + ls[to + 1] > longest)
  BY <1>2, <1>3, <1>4
<1> QED
  BY <1>1, <1>5, <1>6, <1>7

\* A chunk of no items is admitted.
LEMMA NoItems ==
  ASSUME NEW ls \in Seq(Nat), NEW most \in Int, most > 0, NEW longest \in Int,
         NEW from \in Nat, from <= Len(ls)
  PROVE  /\ LengthOf(ls, Chunk(from, from)) = 0
         /\ Admitted(ls, most, longest, Chunk(from, from))
<1>1. LengthOf(ls, Chunk(from, from)) = 0
  BY LengthOfGrows
<1> QED
  BY <1>1, AdmittedIs

\* The chunk that takes no further item, or one if it has none, is filled.
LEMMA ClosedIsFilled ==
  ASSUME NEW ls \in Seq(Nat), NEW most \in Int, most > 0, NEW longest \in Int,
         NEW from \in Nat, NEW to \in Nat, from <= to, to <= Len(ls), from < Len(ls),
         Admitted(ls, most, longest, Chunk(from, to)),
         ~ /\ to < Len(ls)
           /\ to - from < most
           /\ ~ (longest > 0 /\ LengthOf(ls, Chunk(from, to)) + ls[to + 1] > longest),
         NEW q, q = IF to = from THEN from + 1 ELSE to
  PROVE  q \in Nat /\ from < q /\ q <= Len(ls) /\ Filled(ls, most, longest, from, q)
<1>1. q \in Nat /\ from < q /\ q <= Len(ls)
  OBVIOUS
<1>2. to + 1 <= Len(ls) => ~ Admitted(ls, most, longest, Chunk(from, to + 1))
  BY OneMoreItem
<1>3. CASE to # from
  BY <1>2, <1>3 DEF Filled
<1>4. CASE to = from
  <2>1. q + 1 <= Len(ls) => ~ Admitted(ls, most, longest, Chunk(from, q + 1))
    <3> SUFFICES ASSUME q + 1 <= Len(ls), Admitted(ls, most, longest, Chunk(from, q + 1))
                 PROVE  FALSE
      OBVIOUS
    <3>1. PICK r \in Nat : r = q + 1 /\ from <= r
      BY <1>1
    <3>2. longest > 0 /\ LengthOf(ls, Chunk(from, from)) + ls[q] > longest
      BY <1>4
    <3>3. LengthOf(ls, Chunk(from, q)) = LengthOf(ls, Chunk(from, from)) + ls[q]
      BY <1>4, LengthOfGrows
    <3>4. LengthOf(ls, Chunk(from, r)) = LengthOf(ls, Chunk(from, q)) + ls[r]
      BY <1>1, <3>1, LengthOfGrows
    <3>5. LengthOf(ls, Chunk(from, q)) \in Nat /\ ls[r] \in Nat
      <4>1. r \in DOMAIN ls
        BY <3>1
      <4>2. LengthOf(ls, Chunk(from, q)) \in Nat
        <5>1. q \in Nat /\ from <= q /\ q <= Len(ls)
          BY <1>1
        <5> QED
          BY <5>1, LengthOfNat
      <4>3. ls[r] \in Nat
        BY <4>1
      <4> QED
        BY <4>2, <4>3
    <3>6. LengthOf(ls, Chunk(from, r)) <= longest
      BY <3>1, <3>2, AdmittedIs
    <3> QED
      BY <3>2, <3>3, <3>4, <3>5, <3>6
  <2> QED
    BY <1>1, <1>4, <2>1 DEF Filled
<1> QED
  BY <1>1, <1>3, <1>4

-------------------------------------------------------------------------------
(* The invariant.                                                          *)

\* The chunks after one more has been fetched.
LEMMA ChunkedGrows ==
  ASSUME lengths \in Seq(Nat), NEW S, results \in Seq(Seq(S)),
         Chunked(lengths, chunkItemsLimit, chunkStringLengthLimit, results),
         start = LastOf(results, Len(results)),
         start \in Nat, end \in Nat, start < end, end <= Len(lengths),
         Filled(lengths, chunkItemsLimit, chunkStringLengthLimit, start, end),
         NEW more, more = Append(results, Chunk(start, end)), Chunk(start, end) \in Seq(S)
  PROVE  /\ Chunked(lengths, chunkItemsLimit, chunkStringLengthLimit, more)
         /\ Len(more) = Len(results) + 1
         /\ LastOf(more, Len(more)) = end
         /\ LastOf(more, 0) = 0
<1>1. /\ Len(results) \in Nat /\ more \in Seq(Seq(S)) /\ Len(more) = Len(results) + 1
      /\ DOMAIN more = 1 .. Len(results) + 1 /\ DOMAIN results = 1 .. Len(results)
      /\ more[Len(results) + 1] = Chunk(start, end)
      /\ \A n \in 1 .. Len(results) : more[n] = results[n]
  <2> DEFINE c == Chunk(start, end)
  <2>1. c \in Seq(S) /\ more = Append(results, c)
    OBVIOUS
  <2> HIDE DEF c
  <2>2. more[Len(results) + 1] = c /\ Len(more) = Len(results) + 1 /\ Len(results) \in Nat
    BY <2>1
  <2>3. more \in Seq(Seq(S)) /\ DOMAIN more = 1 .. Len(results) + 1 /\ DOMAIN results = 1 .. Len(results)
    BY <2>1, <2>2
  <2>4. \A n \in 1 .. Len(results) : more[n] = results[n]
    BY <2>1
  <2> QED
    BY <2>2, <2>3, <2>4 DEF c
<1>2. \A n \in 0 .. Len(results) : LastOf(more, n) = LastOf(results, n)
  BY <1>1 DEF LastOf
<1>3. LastOf(more, Len(results) + 1) = end
  <2>1. Chunk(start, end)[Len(Chunk(start, end))] = end
    <3>1. start \in Nat /\ end \in Nat /\ start <= end /\ start < end
      OBVIOUS
    <3> QED
      BY <3>1, ChunkIs
  <2>2. Len(results) + 1 # 0
    BY <1>1
  <2> QED
    BY <1>1, <2>1, <2>2 DEF LastOf
<1>4. ASSUME NEW n \in DOMAIN more
      PROVE  /\ LastOf(more, n - 1) \in Nat /\ LastOf(more, n) \in Nat
             /\ LastOf(more, n - 1) < LastOf(more, n) /\ LastOf(more, n) <= Len(lengths)
             /\ more[n] = Chunk(LastOf(more, n - 1), LastOf(more, n))
             /\ Filled(lengths, chunkItemsLimit, chunkStringLengthLimit,
                       LastOf(more, n - 1), LastOf(more, n))
  <2>1. CASE n = Len(results) + 1
    <3>1. n - 1 = Len(results) /\ Len(results) \in 0 .. Len(results)
      BY <1>1, <2>1
    <3>2. LastOf(more, n - 1) = start /\ LastOf(more, n) = end
      BY <1>2, <1>3, <2>1, <3>1
    <3> QED
      BY <1>1, <2>1, <3>2
  <2>2. CASE n # Len(results) + 1
    <3>1. n \in 1 .. Len(results) /\ n \in 0 .. Len(results) /\ n - 1 \in 0 .. Len(results)
      <4>1. Len(results) \in Nat /\ n \in 1 .. Len(results) + 1
        BY <1>1
      <4>2. \A m \in Nat : \A k \in 1 .. m + 1 :
               k # m + 1 => k \in 1 .. m /\ k \in 0 .. m /\ k - 1 \in 0 .. m
        OBVIOUS
      <4> QED
        BY <2>2, <4>1, <4>2
    <3>2. LastOf(more, n - 1) = LastOf(results, n - 1) /\ LastOf(more, n) = LastOf(results, n)
      BY <1>2, <3>1
    <3>3. more[n] = results[n] /\ n \in DOMAIN results
      BY <1>1, <3>1
    <3>4. /\ LastOf(results, n - 1) \in Nat /\ LastOf(results, n) \in Nat
          /\ LastOf(results, n - 1) < LastOf(results, n)
          /\ LastOf(results, n) <= Len(lengths)
          /\ results[n] = Chunk(LastOf(results, n - 1), LastOf(results, n))
          /\ Filled(lengths, chunkItemsLimit, chunkStringLengthLimit,
                    LastOf(results, n - 1), LastOf(results, n))
      BY <3>3 DEF Chunked
    <3> QED
      BY <3>2, <3>3, <3>4
  <2> QED
    BY <2>1, <2>2
<1>5. Chunked(lengths, chunkItemsLimit, chunkStringLengthLimit, more)
  BY <1>4 DEF Chunked
<1> QED
  BY <1>1, <1>3, <1>5 DEF LastOf

LEMMA InitChunks == Init => CInv
<1> SUFFICES ASSUME Init
             PROVE  CInv
  OBVIOUS
<1>1. /\ lengths \in Seq(Nat) /\ chunkItemsLimit \in Int /\ chunkStringLengthLimit \in Int
      /\ delay \in BOOLEAN /\ Len(lengths) \in Nat
      /\ lengths # <<>> => 0 < Len(lengths)
  BY ChunkerAssumption DEF Init
<1>2. results = <<>> /\ Len(results) = 0 /\ DOMAIN results = {} /\ LastOf(results, 0) = 0
  BY DEF Init, LastOf
<1>3. answer = Chunk(0, 0)
  <2>1. answer = <<>>
    BY DEF Init
  <2> QED
    BY <2>1, EmptyChunk
<1>4. TypeOK
  <2>1. results \in Seq(Seq(DOMAIN lengths)) /\ answer \in Seq(DOMAIN lengths)
    BY DEF Init
  <2>2. end \in 0 .. Len(lengths) /\ start \in 0 .. end /\ merged \in 0 .. Len(results)
    BY <1>1, <1>2 DEF Init
  <2>3. pc \in {"ok", "build"} /\ cancelled = FALSE /\ isFirst = TRUE /\ currentLength = 0
    BY DEF Init
  <2> QED
    BY <1>1, <2>1, <2>2, <2>3 DEF TypeOK
<1>5. Arguments
  BY <1>1 DEF Init, Arguments
<1>6. Chunked(lengths, chunkItemsLimit, chunkStringLengthLimit, results)
  BY <1>2 DEF Chunked
<1>7. Building
  <2> SUFFICES ASSUME pc = "build"
               PROVE  Building
    BY DEF Init, Building
  <2>1. chunkItemsLimit > 0 /\ 0 < Len(lengths) /\ start = 0 /\ end = 0 /\ currentLength = 0
    BY <1>1 DEF Init
  <2>2. /\ LengthOf(lengths, Chunk(0, 0)) = 0
        /\ Admitted(lengths, chunkItemsLimit, chunkStringLengthLimit, Chunk(0, 0))
    BY <1>1, <2>1, NoItems
  <2> QED
    BY <1>2, <2>1, <2>2 DEF Building
<1>8. Merging
  <2>1. pc = "ok" /\ chunkItemsLimit > 0 => Len(lengths) = 0
    BY <1>1 DEF Init
  <2> QED
    BY <1>2, <1>3, <2>1 DEF Init, Merging
<1> QED
  BY <1>4, <1>5, <1>6, <1>7, <1>8 DEF CInv

\* What is known of the call between two steps.
LEMMA TheCall ==
  ASSUME CInv
  PROVE  /\ lengths \in Seq(Nat) /\ Len(lengths) \in Nat /\ DOMAIN lengths = 1 .. Len(lengths)
         /\ chunkItemsLimit \in Int /\ chunkStringLengthLimit \in Int
         /\ pc # "ok" => chunkItemsLimit > 0
         /\ end \in Nat /\ end <= Len(lengths) /\ start \in Nat /\ start <= end
         /\ results \in Seq(Seq(DOMAIN lengths)) /\ Len(results) \in Nat
         /\ DOMAIN results = 1 .. Len(results)
         /\ merged \in Nat /\ merged <= Len(results) /\ answer \in Seq(DOMAIN lengths)
         /\ Chunked(lengths, chunkItemsLimit, chunkStringLengthLimit, results)
<1>1. lengths \in Seq(Nat) /\ Len(lengths) \in Nat /\ DOMAIN lengths = 1 .. Len(lengths)
  BY DEF CInv, Arguments
<1>2. end \in 0 .. Len(lengths) /\ start \in 0 .. end
  BY DEF CInv, TypeOK
<1>3. results \in Seq(Seq(DOMAIN lengths)) /\ answer \in Seq(DOMAIN lengths)
      /\ merged \in 0 .. Len(results)
  BY DEF CInv, TypeOK
<1>4. Len(results) \in Nat /\ DOMAIN results = 1 .. Len(results)
  BY <1>3
<1>5. chunkItemsLimit \in Int /\ chunkStringLengthLimit \in Int
      /\ (pc # "ok" => chunkItemsLimit > 0)
      /\ Chunked(lengths, chunkItemsLimit, chunkStringLengthLimit, results)
  BY DEF CInv, Arguments
<1>6. end \in Nat /\ end <= Len(lengths) /\ start \in Nat /\ start <= end
  BY <1>1, <1>2
<1>7. merged \in Nat /\ merged <= Len(results)
  BY <1>3, <1>4
<1> QED
  BY <1>1, <1>3, <1>4, <1>5, <1>6, <1>7

LEMMA TakeItemChunks == CInv /\ TakeItem => CInv'
<1> SUFFICES ASSUME CInv, TakeItem
             PROVE  CInv'
  OBVIOUS
<1>1. /\ pc = "build" /\ end < Len(lengths) /\ end' = end + 1
      /\ end - start < chunkItemsLimit
      /\ ~ (chunkStringLengthLimit > 0
              /\ currentLength + lengths[end + 1] > chunkStringLengthLimit)
      /\ currentLength' = currentLength + lengths[end + 1]
      /\ UNCHANGED <<pc, args, cancelled, start, isFirst, results, merged, answer>>
  BY DEF TakeItem, Fits
<1>2. /\ lengths \in Seq(Nat) /\ Len(lengths) \in Nat /\ start \in Nat /\ end \in Nat
      /\ start <= end /\ end + 1 <= Len(lengths) /\ end + 1 \in DOMAIN lengths
      /\ chunkItemsLimit \in Int /\ chunkStringLengthLimit \in Int
      /\ currentLength = LengthOf(lengths, Chunk(start, end))
      /\ Admitted(lengths, chunkItemsLimit, chunkStringLengthLimit, Chunk(start, end))
  BY <1>1, TheCall DEF CInv, Building
<1>3. TypeOK'
  <2>1. lengths[end + 1] \in Nat
    BY <1>2
  <2>2. currentLength' \in Nat
    BY <1>1, <1>2, <2>1 DEF CInv, TypeOK
  <2>3. end' \in 0 .. Len(lengths') /\ start' \in 0 .. end'
    BY <1>1, <1>2 DEF args
  <2> QED
    BY <1>1, <2>2, <2>3 DEF CInv, TypeOK, args
<1>4. Building'
  <2>1. Admitted(lengths, chunkItemsLimit, chunkStringLengthLimit, Chunk(start, end + 1))
    BY <1>1, <1>2, OneMoreItem
  <2>2. LengthOf(lengths, Chunk(start, end + 1)) = currentLength + lengths[end + 1]
    BY <1>2, LengthOfGrows
  <2> QED
    BY <1>1, <2>1, <2>2 DEF CInv, Building, args
<1> QED
  BY <1>1, <1>3, <1>4 DEF CInv, Arguments, Merging, args

LEMMA CloseChunkChunks == CInv /\ CloseChunk => CInv'
<1> SUFFICES ASSUME CInv, CloseChunk
             PROVE  CInv'
  OBVIOUS
<1>1. /\ pc = "build" /\ ~ Fits /\ pc' \in {"delay", "fetch"}
      /\ end' = IF end = start THEN start + 1 ELSE end
      /\ UNCHANGED <<args, cancelled, start, currentLength, isFirst, results, merged, answer>>
  BY DEF CloseChunk
<1>2. /\ lengths \in Seq(Nat) /\ Len(lengths) \in Nat /\ start \in Nat /\ end \in Nat
      /\ start <= end /\ end <= Len(lengths) /\ start < Len(lengths)
      /\ chunkItemsLimit \in Int /\ chunkItemsLimit > 0 /\ chunkStringLengthLimit \in Int
      /\ currentLength = LengthOf(lengths, Chunk(start, end))
      /\ Admitted(lengths, chunkItemsLimit, chunkStringLengthLimit, Chunk(start, end))
  BY <1>1, TheCall DEF CInv, Building
<1>3. PICK q : q = IF end = start THEN start + 1 ELSE end
  OBVIOUS
<1>4. /\ q \in Nat /\ start < q /\ q <= Len(lengths)
      /\ Filled(lengths, chunkItemsLimit, chunkStringLengthLimit, start, q)
  BY <1>1, <1>2, <1>3, ClosedIsFilled DEF Fits
<1>5. TypeOK'
  <2>1. end' \in 0 .. Len(lengths') /\ start' \in 0 .. end'
    BY <1>1, <1>2, <1>3, <1>4 DEF args
  <2> QED
    BY <1>1, <2>1 DEF CInv, TypeOK, args
<1>6. Building'
  BY <1>1, <1>2, <1>3, <1>4 DEF CInv, Building, args
<1> QED
  BY <1>1, <1>5, <1>6 DEF CInv, Arguments, Merging, args

LEMMA FetchChunks == CInv /\ Fetch => CInv'
<1> SUFFICES ASSUME CInv, Fetch
             PROVE  CInv'
  OBVIOUS
<1> DEFINE c == Chunk(start, end)
<1>1. /\ pc = "fetch" /\ start' = end /\ currentLength' = 0 /\ isFirst' = FALSE
      /\ \/ pc' = "failed" /\ UNCHANGED results
         \/ /\ results' = Append(results, c)
            /\ pc' = IF end < Len(lengths) THEN "build" ELSE "merge"
      /\ UNCHANGED <<args, cancelled, end, merged, answer>>
  BY DEF Fetch, Chunk
<1>2. /\ lengths \in Seq(Nat) /\ Len(lengths) \in Nat /\ start \in Nat /\ end \in Nat
      /\ start < end /\ end <= Len(lengths)
      /\ chunkItemsLimit \in Int /\ chunkItemsLimit > 0 /\ chunkStringLengthLimit \in Int
      /\ start = LastOf(results, Len(results))
      /\ Filled(lengths, chunkItemsLimit, chunkStringLengthLimit, start, end)
      /\ results \in Seq(Seq(DOMAIN lengths)) /\ Len(results) \in Nat
      /\ merged = 0
  BY <1>1, TheCall DEF CInv, Building, Merging
<1>3. c \in Seq(DOMAIN lengths)
  <2>1. \A i \in 1 .. end - start : start + i \in DOMAIN lengths
    BY <1>2
  <2>2. end - start \in Nat
    BY <1>2
  <2> QED
    BY <2>1, <2>2 DEF Chunk
<1>4. CASE pc' = "failed" /\ UNCHANGED results
  <2>1. TypeOK'
    <3>1. end' \in 0 .. Len(lengths') /\ start' \in 0 .. end' /\ currentLength' \in Nat
      BY <1>1, <1>2 DEF args
    <3>2. merged' \in 0 .. Len(results') /\ results' \in Seq(Seq(DOMAIN lengths'))
          /\ answer' \in Seq(DOMAIN lengths')
      BY <1>1, <1>4 DEF CInv, TypeOK, args
    <3> QED
      BY <1>1, <1>4, <3>1, <3>2 DEF CInv, TypeOK, args
  <2>2. Building'
    BY <1>4 DEF Building
  <2> QED
    BY <1>1, <1>2, <1>4, <2>1, <2>2 DEF CInv, Arguments, Merging, args
<1>5. CASE results' = Append(results, c) /\ pc' = IF end < Len(lengths) THEN "build" ELSE "merge"
  <2>1. PICK more : more = Append(results, c)
    OBVIOUS
  <2>2. Chunked(lengths, chunkItemsLimit, chunkStringLengthLimit, results)
    BY DEF CInv
  <2> HIDE DEF c
  <2>3. more \in Seq(Seq(DOMAIN lengths))
    BY <1>2, <1>3, <2>1
  <2>4. /\ Chunked(lengths, chunkItemsLimit, chunkStringLengthLimit, more)
        /\ Len(more) = Len(results) + 1
        /\ LastOf(more, Len(more)) = end
        /\ LastOf(more, 0) = 0
    <3> PICK S : S = DOMAIN lengths
      OBVIOUS
    <3>1. /\ start \in Nat /\ end \in Nat /\ start < end /\ end <= Len(lengths)
          /\ start = LastOf(results, Len(results))
          /\ Filled(lengths, chunkItemsLimit, chunkStringLengthLimit, start, end)
          /\ Chunk(start, end) \in Seq(S)
          /\ more = Append(results, Chunk(start, end))
      BY <1>2, <1>3, <2>1 DEF c
    <3>2. lengths \in Seq(Nat) /\ results \in Seq(Seq(S))
          /\ Chunked(lengths, chunkItemsLimit, chunkStringLengthLimit, results)
      BY <1>2, <2>2
    <3>3. /\ Chunked(lengths, chunkItemsLimit, chunkStringLengthLimit, more)
          /\ Len(more) = Len(results) + 1
          /\ LastOf(more, Len(more)) = end
      BY <3>1, <3>2, ChunkedGrows
    <3> QED
      BY <3>3 DEF LastOf
  <2>5. results' = more
    BY <1>5, <2>1
  <2>6. TypeOK'
    <3>1. merged' \in 0 .. Len(results') /\ results' \in Seq(Seq(DOMAIN lengths'))
      BY <1>1, <1>2, <2>3, <2>4, <2>5 DEF args
    <3>2. pc' \in {"build", "merge"}
      BY <1>5
    <3>3. end' \in 0 .. Len(lengths') /\ start' \in 0 .. end' /\ currentLength' \in Nat
      BY <1>1, <1>2 DEF args
    <3> QED
      BY <1>1, <3>1, <3>2, <3>3 DEF CInv, TypeOK, args
  <2>7. Building'
    <3>1. /\ LengthOf(lengths, Chunk(end, end)) = 0
          /\ Admitted(lengths, chunkItemsLimit, chunkStringLengthLimit, Chunk(end, end))
      BY <1>2, NoItems
    <3>2. pc' \in {"build", "merge"} /\ (pc' = "build" => end < Len(lengths))
      BY <1>5
    <3> QED
      BY <1>1, <2>4, <2>5, <3>1, <3>2 DEF Building, args
  <2>8. Merging'
    <3>1. answer = Chunk(0, 0)
      BY <1>2 DEF CInv, Merging, LastOf
    <3>2. pc' \in {"build", "merge"} /\ (pc' = "merge" => end = Len(lengths))
      BY <1>2, <1>5
    <3> QED
      BY <1>1, <1>2, <2>4, <2>5, <3>1, <3>2 DEF Merging, args
  <2>9. Arguments'
    BY <1>1, <1>2 DEF CInv, Arguments, args
  <2> QED
    BY <1>1, <2>4, <2>5, <2>6, <2>7, <2>8, <2>9 DEF CInv, args
<1> QED
  BY <1>1, <1>4, <1>5

LEMMA MergeChunks == CInv /\ Merge => CInv'
<1> SUFFICES ASSUME CInv, Merge
             PROVE  CInv'
  OBVIOUS
<1>1. pc = "merge" /\ UNCHANGED <<args, cancelled, start, end, currentLength, isFirst, results>>
  BY DEF Merge
<1>2. /\ lengths \in Seq(Nat) /\ Len(lengths) \in Nat
      /\ results \in Seq(Seq(DOMAIN lengths)) /\ Len(results) \in Nat
      /\ DOMAIN results = 1 .. Len(results)
      /\ merged \in Nat /\ merged <= Len(results) /\ answer \in Seq(DOMAIN lengths)
      /\ Chunked(lengths, chunkItemsLimit, chunkStringLengthLimit, results)
      /\ LastOf(results, Len(results)) = Len(lengths)
      /\ answer = Chunk(0, LastOf(results, merged))
      /\ chunkItemsLimit > 0
  BY <1>1, TheCall DEF CInv, Merging
<1>3. CASE merged < Len(results)
  <2>1. answer' = answer \o results[merged + 1] /\ merged' = merged + 1 /\ pc' = pc
    BY <1>3 DEF Merge
  <2>2. merged + 1 \in DOMAIN results /\ (merged + 1) - 1 = merged
    BY <1>2, <1>3
  <2> DEFINE from == LastOf(results, merged)
             to == LastOf(results, merged + 1)
  <2>3. /\ from \in Nat /\ to \in Nat /\ from < to
        /\ results[merged + 1] = Chunk(from, to) /\ results[merged + 1] \in Seq(DOMAIN lengths)
    <3>1. PICK q : q = merged + 1
      OBVIOUS
    <3>2. q \in DOMAIN results /\ q - 1 = merged
      BY <2>2, <3>1
    <3>3. /\ LastOf(results, q - 1) \in Nat /\ LastOf(results, q) \in Nat
          /\ LastOf(results, q - 1) < LastOf(results, q)
          /\ results[q] = Chunk(LastOf(results, q - 1), LastOf(results, q))
      BY <1>2, <3>2 DEF Chunked
    <3>4. results[q] \in Seq(DOMAIN lengths)
      BY <1>2, <3>2
    <3> QED
      BY <3>1, <3>2, <3>3, <3>4
  <2>4. answer = Chunk(0, from)
    BY <1>2
  <2> HIDE DEF from, to
  <2>5. answer' = Chunk(0, to)
    <3>1. from \in Nat /\ to \in Nat /\ 0 \in Nat /\ 0 <= from /\ from <= to
      BY <2>3
    <3>2. Chunk(0, from) \o Chunk(from, to) = Chunk(0, to)
      BY <3>1, ChunksJoin
    <3> QED
      BY <2>1, <2>3, <2>4, <3>2
  <2>6. TypeOK'
    <3>1. answer' \in Seq(DOMAIN lengths') /\ merged' \in 0 .. Len(results')
      BY <1>1, <1>2, <1>3, <2>1, <2>3 DEF args
    <3> QED
      BY <1>1, <2>1, <3>1 DEF CInv, TypeOK, args
  <2>7. Merging'
    BY <1>1, <1>2, <2>1, <2>5 DEF Merging, args, to
  <2> QED
    BY <1>1, <2>1, <2>6, <2>7 DEF CInv, Arguments, Building, args
<1>4. CASE ~ (merged < Len(results))
  <2>1. pc' = "ok" /\ UNCHANGED <<merged, answer>>
    BY <1>4 DEF Merge
  <2>2. merged = Len(results)
    <3>1. /\ merged \in Nat /\ Len(results) \in Nat
          /\ merged <= Len(results) /\ ~ (merged < Len(results))
      BY <1>2, <1>4
    <3>2. \A m, n \in Nat : m <= n /\ ~ (m < n) => m = n
      OBVIOUS
    <3> QED
      BY <3>1, <3>2
  <2>3. TypeOK'
    BY <1>1, <2>1 DEF CInv, TypeOK, args
  <2>4. Merging'
    BY <1>1, <1>2, <2>1, <2>2 DEF Merging, args
  <2> QED
    BY <1>1, <2>1, <2>3, <2>4 DEF CInv, Arguments, Building, args
<1> QED
  BY <1>3, <1>4

LEMMA NextChunks == CInv /\ [Next]_vars => CInv'
<1> SUFFICES ASSUME CInv, [Next]_vars
             PROVE  CInv'
  OBVIOUS
<1>1. CASE Delay
  BY <1>1 DEF Delay, CInv, TypeOK, Arguments, Building, Merging, args
<1>2. CASE Cancel
  BY <1>2 DEF Cancel, CInv, TypeOK, Arguments, Building, Merging, args
<1>3. CASE UNCHANGED vars
  BY <1>3 DEF vars, CInv, TypeOK, Arguments, Building, Merging, args
<1> QED
  BY <1>1, <1>2, <1>3, TakeItemChunks, CloseChunkChunks, FetchChunks, MergeChunks DEF Next

LEMMA ChunksAlways == Spec => []CInv
  BY InitChunks, NextChunks, PTL DEF Spec

\* The types; no item is looked for behind the last, and no chunk merged twice.
THEOREM ChunkerTypeOK == Spec => []TypeOK
<1>1. CInv => TypeOK
  BY DEF CInv
<1> QED
  BY <1>1, ChunksAlways, PTL

\* Every chunk that processInChunks fetches is within both limits, or is one item,
\* and takes all the items it can, whatever the lengths of the items and the limits.
THEOREM ChunksAreFilled == Spec => []ChunksFill
<1>1. CInv => ChunksFill
  <2> SUFFICES ASSUME CInv, NEW n \in DOMAIN results
               PROVE  LET chunk == results[n]
                      IN /\ Within(chunk) \/ Len(chunk) = 1
                         /\ n < Len(results) => ~ Within(Append(chunk, chunk[Len(chunk)] + 1))
    BY DEF ChunksFill
  <2> DEFINE from == LastOf(results, n - 1)
             to == LastOf(results, n)
  <2>1. /\ from \in Nat /\ to \in Nat /\ from < to /\ to <= Len(lengths)
        /\ results[n] = Chunk(from, to)
        /\ Filled(lengths, chunkItemsLimit, chunkStringLengthLimit, from, to)
        /\ Len(lengths) \in Nat /\ results \in Seq(Seq(DOMAIN lengths))
    BY TheCall DEF Chunked
  <2>2. n < Len(results) => to < Len(lengths)
    <3> SUFFICES ASSUME n < Len(results)
                 PROVE  to < Len(lengths)
      OBVIOUS
    <3>1. n + 1 \in DOMAIN results /\ (n + 1) - 1 = n
      BY <2>1
    <3>2. LastOf(results, n) < LastOf(results, n + 1) /\ LastOf(results, n + 1) <= Len(lengths)
          /\ LastOf(results, n + 1) \in Nat
      BY <3>1 DEF CInv, Chunked
    <3> QED
      BY <2>1, <3>2
  <2> HIDE DEF from, to
  <2>3. \A chunk : Within(chunk) <=>
           Admitted(lengths, chunkItemsLimit, chunkStringLengthLimit, chunk)
    BY DEF Within, Admitted, TotalLength, LengthOf
  <2>4. Len(Chunk(from, to)) = to - from /\ Chunk(from, to)[Len(Chunk(from, to))] = to
    BY <2>1, ChunkIs
  <2>5. Append(Chunk(from, to), to + 1) = Chunk(from, to + 1)
    <3>1. from \in Nat /\ to \in Nat /\ from <= to
      BY <2>1
    <3> QED
      BY <3>1, ChunkGrows
  <2>6. Within(results[n]) \/ Len(results[n]) = 1
    <3>1. Admitted(lengths, chunkItemsLimit, chunkStringLengthLimit, Chunk(from, to))
          \/ to = from + 1
      BY <2>1 DEF Filled
    <3>2. to = from + 1 => to - from = 1
      BY <2>1
    <3> QED
      BY <2>1, <2>3, <2>4, <3>1, <3>2
  <2>7. n < Len(results) => ~ Within(Append(results[n], results[n][Len(results[n])] + 1))
    <3>1. to < Len(lengths) => ~ Admitted(lengths, chunkItemsLimit, chunkStringLengthLimit,
                                          Chunk(from, to + 1))
      BY <2>1 DEF Filled
    <3>2. Append(results[n], results[n][Len(results[n])] + 1) = Chunk(from, to + 1)
      BY <2>1, <2>4, <2>5
    <3> QED
      BY <2>2, <2>3, <3>1, <3>2
  <2> QED
    BY <2>6, <2>7
<1> QED
  BY <1>1, ChunksAlways, PTL

\* A call of ChunkMapFetcher or ChunkArrayFetcher that succeeds answers for every
\* item once and in order, or for none if the limit of items admits none, and one
\* that fails for none.
THEOREM ChunksAllOrNothing == Spec => []AllOrNothing
<1>1. CInv => AllOrNothing
  <2> SUFFICES ASSUME CInv
               PROVE  AllOrNothing
    OBVIOUS
  <2>1. pc = "failed" => answer = <<>>
    BY EmptyChunk DEF CInv, Merging, LastOf
  <2>2. ASSUME pc = "ok", chunkItemsLimit > 0
        PROVE  answer = [i \in DOMAIN lengths |-> i]
    <3>1. answer = Chunk(0, Len(lengths)) /\ Len(lengths) \in Nat /\ lengths \in Seq(Nat)
      BY <2>2 DEF CInv, Merging, Arguments
    <3>2. Len(lengths) - 0 = Len(lengths) /\ DOMAIN lengths = 1 .. Len(lengths)
          /\ \A i \in DOMAIN lengths : 0 + i = i
      BY <3>1
    <3> QED
      BY <3>1, <3>2 DEF Chunk
  <2>3. ASSUME pc = "ok", ~ (chunkItemsLimit > 0)
        PROVE  answer = <<>>
    BY <2>3, EmptyChunk DEF CInv, Merging, LastOf
  <2> QED
    BY <2>1, <2>2, <2>3 DEF AllOrNothing
<1> QED
  BY <1>1, ChunksAlways, PTL

===============================================================================
