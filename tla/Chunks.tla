------------------------------- MODULE Chunks -------------------------------
(***************************************************************************)
(* The loop the services use to cut a list into jobs of bounded size:      *)
(*                                                                         *)
(*    chunksCount := int(math.Ceil(float64(len(list)) / float64(size)))    *)
(*    for i := 0; i < chunksCount; i++ {                                   *)
(*        start := size * i                                                *)
(*        end := start + size                                              *)
(*        if end > len(list) { end = len(list) }                           *)
(*        ... list[start:end]                                              *)
(*    }                                                                    *)
(*                                                                         *)
(* It is written out for transactions, validator links, rewards, slashes,  *)
(* addresses, balances and stakes.  Go slices count from 0, TLA+ sequences *)
(* from 1: list[start:end] is SubSeq(list, start + 1, end).                *)
(***************************************************************************)
EXTENDS Integers, Sequences

\* math.Ceil(float64(n) / float64(size)): the lengths are far below 2^53, so
\* the floating-point quotient rounds up as the exact one does.
ChunksCount(n, size) == (n + size - 1) \div size

ChunkStart(size, i) == size * i

\* Mutant of ChunkEnd: the bound of the last chunk is off by one.
ChunkEndShort(n, size, i) ==
  IF ChunkStart(size, i) + size >= n THEN n - 1 ELSE ChunkStart(size, i) + size

ChunkEnd(n, size, i) ==
  IF ChunkStart(size, i) + size > n THEN n ELSE ChunkStart(size, i) + size

\* The positions of the i-th chunk of a list of length n, and its elements.
ChunkPositions(n, size, i) == (ChunkStart(size, i) + 1) .. ChunkEnd(n, size, i)

Chunk(list, size, i) ==
  {list[p] : p \in ChunkPositions(Len(list), size, i)}

Elements(list) == {list[p] : p \in 1 .. Len(list)}
=============================================================================
