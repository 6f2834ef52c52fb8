---------------------------- MODULE MCPipelineRun ----------------------------
(* Model-checking instances of PipelineRun: the values are in the cfg files.  *)
EXTENDS PipelineRun

Alone == CHOOSE p \in Page : TRUE

(* Bound.  Two pages work on one run while the server goes down twice, or once *)
(* and one write or connection fails.  Once a page begins a run while it still *)
(* awaits something, what comes of it is explored for one page with a second   *)
(* run, and a server that neither goes down nor fails.                         *)
Bounded ==
    IF overlap
    THEN /\ stops + faults = 0
         /\ \A p \in Page \ {Alone} : page[p] = NewPage /\ ~Busy(p)
    ELSE /\ stops + faults <= 2
         /\ \A r \in Run \ {1} : Unused(r)
=============================================================================
