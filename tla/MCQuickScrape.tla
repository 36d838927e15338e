--------------------------- MODULE MCQuickScrape ---------------------------
(***************************************************************************)
(* QuickScrape for TLC, in three settings:                                 *)
(*   Owned   every action of the owner, crashes, cancellation and storage  *)
(*           pressure;                                                     *)
(*   Leased  two handlers, the first of which goes on after it lost its    *)
(*           lease;                                                        *)
(*   Filed   pages and files whose artifacts meet crashes, losses of power *)
(*           and I/O errors.                                               *)
(***************************************************************************)
EXTENDS QuickScrape, TLC

EveryAnswer == {"COMPLETED", "PARTIAL", "RETRYABLE", "PERMANENT", "CANCELLED"}
Owned ==
    [targets |-> {"PAGE"}, answers |-> EveryAnswer,
     actions |-> {"RETRY", "RETRY_FAILED_PARTS", "RESUME_CHECKPOINT", "RESTART_FROM_BEGINNING"},
     faults  |-> {"crash", "cancel", "pressure"}, tries |-> 3]
Leased ==
    [targets |-> {"PAGE"}, answers |-> {"COMPLETED", "PARTIAL", "RETRYABLE"},
     actions |-> {"RETRY", "RESTART_FROM_BEGINNING"},
     faults  |-> {"lease", "cancel"}, tries |-> 2]
Filed ==
    [targets |-> {"PAGE", "FILE"}, answers |-> EveryAnswer,
     actions |-> {"RETRY", "RESTART_FROM_BEGINNING"},
     faults  |-> {"crash", "power", "io"}, tries |-> 2]
ThreeSettings == {Owned, Leased, Filed}

ASSUME QuickAssumption

HandlerSymmetry == Permutations(Handler)
=============================================================================
