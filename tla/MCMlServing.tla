---------------------------- MODULE MCMlServing ----------------------------
(* Two requests after an earlier one, two modalities, one thread and a     *)
(* list of one score: concurrent records, cut windows, held threads.        *)
EXTENDS MlServing

CONSTANTS r1, r2

MCRequests == {r1, r2}
MCEarlier == [scores |-> <<20>>, failures |-> <<0>>]
=============================================================================
