--------------------------- MODULE MCOutageAlerts ---------------------------
(* OutageAlerts on small instances, and the fairness of its goroutines.     *)
EXTENDS OutageAlerts

\* The retrier gets its turn again and again, and a channel it calls again and
\* again works some day.
Fairness ==
    /\ SF_outageVars(Retrier)
    /\ SF_outageVars(Send("retrier"))
    /\ SF_outageVars(LogSent("retrier"))

FairSpec == OutageSpec /\ Fairness
=============================================================================
