------------------------ MODULE MCCrawlTraversal ------------------------
(***************************************************************************)
(* CrawlTraversal for TLC, on small sites in three settings:               *)
(*   Crashing     a process that dies anywhere, and an owner who cancels,  *)
(*                retries and resumes;                                     *)
(*   Overtaken    two handler instances, the first of which goes on after  *)
(*                it lost its lease;                                       *)
(*   Redirected   seeds that may redirect to each other, with crashes, an  *)
(*                exhausted time budget, cancellation and storage pressure *)
(*                over a chain of three jobs.                              *)
(***************************************************************************)
EXTENDS CrawlTraversal, TLC

Obs(f, links) == [final |-> f, links |-> links, targetless |-> FALSE,
                  full |-> TRUE, bytes |-> 1]
To(u) == [to |-> u, sel |-> 1, pag |-> FALSE]
Page(u) == [to |-> u, sel |-> 1, pag |-> TRUE]

Types == {"list", "detail"}
SiteScope == [u \in Url |-> IF u = 5 THEN "EXTERNAL" ELSE "IN_SCOPE"]
SiteTypes == [u \in Url |-> IF u = 1 THEN "list" ELSE "detail"]
SiteTransitions ==
    << [source |-> "list", target |-> "detail", sel |-> 1, depth |-> 1, perPage |-> 1, total |-> 2],
       [source |-> "detail", target |-> "detail", sel |-> 1, depth |-> 1, perPage |-> 1, total |-> 1] >>
TwoOfEach == [p \in PageType |-> 2]
TwoSeeds == <<1, 2>>

\* A seed that lists details and an outside link; the other, a detail, leads to a
\* page that one of those details leads to as well and that may come incomplete.
ListAndDetails ==
    [u \in Url |->
        CASE u = 1 -> {Obs(1, {To(3), To(5)}), Obs(1, {To(3), Page(4)})}
          [] u = 2 -> {Obs(2, {To(4), To(1)}), [Obs(2, {}) EXCEPT !.targetless = TRUE]}
          [] u = 3 -> {Obs(3, {To(4)})}
          [] OTHER -> {Obs(u, {}), [Obs(u, {}) EXCEPT !.full = FALSE]}]

\* Two seeds, the first of which may redirect to the second.
Redirecting ==
    [u \in Url |->
        CASE u = 1 -> {Obs(1, {To(3)}), Obs(2, {To(3)})}
          [] u = 2 -> {Obs(2, {To(3)})}
          [] OTHER -> {Obs(u, {})}]

Crashing ==
    [content |-> ListAndDetails, mayFail |-> {2}, actions |-> {"RETRY", "RESUME_CHECKPOINT"},
     faults |-> {"crash", "cancel"}, jobs |-> 2]
Overtaken ==
    [content |-> [ListAndDetails EXCEPT ![2] = {Obs(2, {To(4), To(1)})},
                                    ![3] = {Obs(3, {})}],
     mayFail |-> {2}, actions |-> {"RETRY"}, faults |-> {"lease"}, jobs |-> 2]
Redirected ==
    [content |-> Redirecting, mayFail |-> {1, 3}, actions |-> {"RETRY", "RETRY_FAILED_PARTS"},
     faults |-> {"crash", "late", "cancel", "pressure"}, jobs |-> 3]
ThreeSettings == {Crashing, Overtaken, Redirected}

ASSUME CrawlAssumption

HandlerSymmetry == Permutations(Handler)
=============================================================================
