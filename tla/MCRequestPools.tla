--------------------------- MODULE MCRequestPools ---------------------------
(* Small instances of RequestPools for TLC. *)
EXTENDS RequestPools, TLC

(* Objects of a kind are interchangeable, and so are the requests that come
   compressed and those that do not. *)
Interchangeable ==
    UNION {Permutations(s) : s \in
        {Compressed, Requests \ Compressed, Readers, Writers, Buffers, Forms}}
=============================================================================
