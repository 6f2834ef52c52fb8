--------------------------- MODULE MCAnnounceCrawl ---------------------------
(* Model-checking instances of AnnounceCrawl. *)
EXTENDS AnnounceCrawl, TLC

CONSTANTS a1, a2, a3

(* The properties say nothing of what follows an overlap; an announcement is *)
(* missed in the runs with one fault, and the runs with two end with it; the *)
(* settings do not change while the job crawls.                              *)
Apart ==
    /\ ~overlapped
    /\ missed = {} \/ faults < 2
    /\ scheduled \/ crawl["job"].pc = "idle"

=============================================================================
