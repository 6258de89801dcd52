------------------------------- MODULE NoDrop -------------------------------
(***************************************************************************)
(* What the router promises about shutdown, free of threads and queues:    *)
(* a connection it has accepted is answered before the process exits, and  *)
(* nothing is accepted once the drain has begun.                           *)
(***************************************************************************)
CONSTANT Conns

VARIABLES
    phase,        \* "serving", "draining", "stopping", "exited"
    outstanding,  \* accepted and not yet finished with
    answered      \* finished: answered or closed, and accounted for

noDropVars == <<phase, outstanding, answered>>

NoDropInit ==
    /\ phase = "serving"
    /\ outstanding = {}
    /\ answered = {}

Accept(c) ==
    /\ phase = "serving"
    /\ c \notin outstanding \cup answered
    /\ outstanding' = outstanding \cup {c}
    /\ UNCHANGED <<phase, answered>>

Answer(c) ==
    /\ phase # "exited"
    /\ c \in outstanding
    /\ outstanding' = outstanding \ {c}
    /\ answered' = answered \cup {c}
    /\ UNCHANGED phase

BeginDrain ==
    /\ phase = "serving"
    /\ phase' = "draining"
    /\ UNCHANGED <<outstanding, answered>>

StopWorkers ==
    /\ phase = "draining"
    /\ phase' = "stopping"
    /\ UNCHANGED <<outstanding, answered>>

Exit ==
    /\ phase = "stopping"
    /\ outstanding = {}
    /\ phase' = "exited"
    /\ UNCHANGED <<outstanding, answered>>

NoDropNext ==
    \/ \E c \in Conns : Accept(c) \/ Answer(c)
    \/ BeginDrain
    \/ StopWorkers
    \/ Exit

NoDropSpec == NoDropInit /\ [][NoDropNext]_noDropVars
=============================================================================
