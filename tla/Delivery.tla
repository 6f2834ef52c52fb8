------------------------------- MODULE Delivery -------------------------------
(***************************************************************************)
(* What the buffering of notifications promises to those who send them: a  *)
(* notification is accepted once, goes out once, together with others, and *)
(* its sending succeeds or fails; only the end of the process loses some.  *)
(* No timers, groups, windows or locks.  AggregateBuffer implements it.    *)
(***************************************************************************)
CONSTANT Msg

VARIABLES
    held,      \* accepted and not yet on their way
    underway,  \* handed to the channels
    sent,
    lost,      \* their sending failed
    dropped,   \* held when the process ended
    open       \* whether the process is there

vars == <<held, underway, sent, lost, dropped, open>>

Known == held \cup underway \cup sent \cup lost \cup dropped

Init ==
    /\ held = {} /\ underway = {} /\ sent = {} /\ lost = {} /\ dropped = {}
    /\ open = TRUE

Accept(m) ==
    /\ open
    /\ m \notin Known
    /\ held' = held \cup {m}
    /\ UNCHANGED <<underway, sent, lost, dropped, open>>

(* Held notifications go out together. *)
HandOver(ms) ==
    /\ open
    /\ ms \subseteq held
    /\ held' = held \ ms
    /\ underway' = underway \cup ms
    /\ UNCHANGED <<sent, lost, dropped, open>>

(* A new one goes out at once, and held ones with it. *)
AcceptAndHandOver(m, ms) ==
    /\ open
    /\ m \notin Known
    /\ ms \subseteq held
    /\ held' = held \ ms
    /\ underway' = underway \cup ms \cup {m}
    /\ UNCHANGED <<sent, lost, dropped, open>>

Succeed(ms) ==
    /\ ms \subseteq underway
    /\ underway' = underway \ ms
    /\ sent' = sent \cup ms
    /\ UNCHANGED <<held, lost, dropped, open>>

Fail(ms) ==
    /\ ms \subseteq underway
    /\ underway' = underway \ ms
    /\ lost' = lost \cup ms
    /\ UNCHANGED <<held, sent, dropped, open>>

(* The process ends. *)
Close ==
    /\ open
    /\ open' = FALSE
    /\ held' = {} /\ dropped' = held
    /\ underway' = {} /\ lost' = lost \cup underway
    /\ UNCHANGED sent

Next ==
    \/ \E m \in Msg : Accept(m) \/ \E ms \in SUBSET held : AcceptAndHandOver(m, ms)
    \/ \E ms \in SUBSET held : HandOver(ms)
    \/ \E ms \in SUBSET underway : Succeed(ms) \/ Fail(ms)
    \/ Close

Spec == Init /\ [][Next]_vars

-----------------------------------------------------------------------------
(* A notification is in one place: nothing is sent twice, nothing that was   *)
(* sent or lost is still held, nothing dropped was ever on its way.          *)
EachOnce ==
    /\ held \cap (underway \cup sent \cup lost \cup dropped) = {}
    /\ underway \cap (sent \cup lost \cup dropped) = {}
    /\ sent \cap (lost \cup dropped) = {}
    /\ lost \cap dropped = {}

Closed == ~open => held = {} /\ underway = {}

=============================================================================
