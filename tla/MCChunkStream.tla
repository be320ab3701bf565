--------------------------- MODULE MCChunkStream ---------------------------
EXTENDS ChunkStream

CONSTANTS first, retry

(* Enough for a full batch and a tail, and for a retry that meets them. *)
MCMaxChunks == [p \in Processors |-> IF p = first THEN 3 ELSE 1]
=============================================================================
