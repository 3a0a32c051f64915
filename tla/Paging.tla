------------------------------- MODULE Paging -------------------------------
(***************************************************************************)
(* The page cut by every paged query (game/rounds.rs, game/players.rs, and *)
(* clamp_limit in lib.rs).  Offset and limit arrive as u64 and are cut to  *)
(* the usize of the platform, which is 32 bits wide on wasm.               *)
(***************************************************************************)
EXTENDS Integers, Sequences

CONSTANTS
    MAX_PAGE_LIMIT, \* entries of a page at most (100)
    USIZE           \* number of values of a usize (2^32)

(* A page is shorter than the address space. *)
ASSUME PagingAssumption == MAX_PAGE_LIMIT \in Nat /\ USIZE \in Nat /\ MAX_PAGE_LIMIT < USIZE

clamp_limit(limit) == IF limit <= MAX_PAGE_LIMIT THEN limit ELSE MAX_PAGE_LIMIT

page(all, offset, limit) ==
    LET skip == offset % USIZE
        last == skip + clamp_limit(limit)
    IN SubSeq(all, skip + 1, IF last <= Len(all) THEN last ELSE Len(all))

=============================================================================
