--------------------------- MODULE TokenDatabase ---------------------------
(***************************************************************************)
(* v1/token_database.py, ChunkedTokenDatabase: how a token sequence is cut *)
(* into chunks and how each chunk gets its cache key.                      *)
(*                                                                         *)
(* A chunk's key is a SHA-256 over the previous chunk's hash and the       *)
(* chunk's tokens, so it identifies the whole prefix that ends with the    *)
(* chunk.  The model takes the prefix itself as the key: two chunks have   *)
(* the same key exactly when they end the same token prefix.               *)
(***************************************************************************)
EXTENDS Integers, Sequences

CONSTANTS
    Requests,        \* the requests served in a run
    Tokens,          \* Tokens[r]: prompt of r followed by the tokens it will generate
    ChunkSize,       \* ChunkedTokenDatabase.chunk_size
    SaveUnfullChunk  \* ChunkedTokenDatabase.save_unfull_chunk

ASSUME TokensAssumption ==
    \A r \in Requests : Tokens[r] \in Seq(Nat)

ASSUME ChunkAssumption ==
    /\ ChunkSize \in Nat \ {0}
    /\ SaveUnfullChunk \in BOOLEAN

\* CacheEngineKey of the prefix of length n of request r (_hash, _prefix_hash,
\* _make_key_by_hash).
Key(r, n) == SubSeq(Tokens[r], 1, n)

Keys == UNION {{Key(r, n) : n \in 0 .. Len(Tokens[r])} : r \in Requests}

\* The smaller of two numbers.
Least(a, b) == IF a <= b THEN a ELSE b

\* _chunk_tokens: the number of chunks of an n-token sequence.
NumChunks(n) ==
    IF SaveUnfullChunk THEN (n + ChunkSize - 1) \div ChunkSize
                       ELSE n \div ChunkSize

\* process_tokens, end_idx: where the i-th chunk (from 1) of n tokens ends.
ChunkEnd(i, n) == Least(i * ChunkSize, n)

\* process_tokens with a mask of `falses` leading Falses: the ValueError of
\* lines 165-168, and the first chunk that is not skipped.
MaskRaises(falses) == falses % ChunkSize # 0

\* Mutant: the chunk after the mask is skipped too.
FirstChunkPlusOne(falses) == falses \div ChunkSize + 2

FirstChunk(falses) == falses \div ChunkSize + 1
=============================================================================
