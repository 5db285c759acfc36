----------------------------- MODULE MCGitOutbox ----------------------------
(* Instances of GitOutbox for TLC: which faults happen, and how often.     *)
EXTENDS GitOutbox, TLC

Once(F) == [f \in Faults |-> IF f \in F THEN 1 ELSE 0]

CrashBudgets == {[Once({"crash", "diverge"}) EXCEPT !["push"] = 2]}
WireBudgets == {
    Once({"crash", "outage", "requeue", "revoke"}),
    Once({"crash", "outage", "diverge"}),
    Once({"outage", "push"})}

\* At most three operations are queued in one behaviour, two with a settings write.
FewOps == Len(queue) <= IF \E i \in DOMAIN queue : queue[i] \in Settings THEN 2 ELSE 3
=============================================================================
