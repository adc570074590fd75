--------------------------- MODULE MCMonitorPool ---------------------------
(* MonitorPool on small instances, and the fairness of its goroutines.      *)
EXTENDS MonitorPool

\* Every goroutine keeps running.  Strong fairness where one takes the mutex:
\* Go's sync.RWMutex hands itself over to a writer that has waited.
Fairness ==
    /\ WF_vars(NotifyCallbacks)
    /\ WF_vars(Boot)
    /\ WF_vars(StopCancel \/ StopRange \/ StopOne \/ StopDone)
    /\ SF_vars(Handler)
    /\ WF_vars(RetryLoop)
    /\ SF_vars(StartBegin("retry") \/ RetryUndo)

FairSpec == Spec /\ Fairness
=============================================================================
