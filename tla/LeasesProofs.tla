---------------------------- MODULE LeasesProofs ----------------------------
(***************************************************************************)
(* Proofs about Leases: type correctness, the inductive invariant behind   *)
(* the safety properties that hold whatever the isolates do, and the       *)
(* refinement of LeaseSlot.                                                *)
(***************************************************************************)
EXTENDS Leases, TLAPS

\* What a command or the sweep remembers stays meaningful: rows it names are
\* still rows of the table, a claim was admitted below the horizon and in the
\* past, and the sweep's cutoff is not in the future.
RequestInv ==
    /\ \A p \in Processes :
         LET r == req[p] IN
         /\ r.op = "claim" => r.at + MaxTotal <= Horizon /\ r.at <= now
         /\ r.op \in {"renew", "recover", "submit", "release"} => Issued(r.lease)
         /\ r.op = "revoke" => \A l \in LeaseIds :
              (l \in r.held \/ r.subs[l] # "none") => Issued(l)
    /\ sweep.at <= now
    /\ \A l \in sweep.todo : Issued(l)
    /\ \A l \in LeaseIds : sub[l] # "none" => Issued(l)

\* An outbox row belongs to a submission that needs no review, or has passed it.
JobsHaveSubmissions == \A l \in LeaseIds :
    job[l] # "none" => sub[l] \notin {"none", "received"}

\* An item whose submission was settled is never worked on again.
Over == {"completed", "conflict", "cancelled"}
SettledForGood == \A l \in LeaseIds :
    sub[l] \in {"applied", "conflicted"} => status[lease[l].item] \in Over

Inv ==
    /\ TypeOK
    /\ RequestInv
    /\ JobsHaveSubmissions
    /\ SettledForGood
    /\ OneActiveLease
    /\ EndReportedByWinner
    /\ PendingItemHasNoLease
    /\ SubmissionSpendsLease
    /\ CapRespected
-----------------------------------------------------------------------------
\* A row that is not the null row is a lease with all its columns.
LEMMA RowOf ==
    ASSUME TypeOK, NEW l \in LeaseIds, Issued(l)
    PROVE  /\ lease[l] \in LeaseRow
           /\ lease[l].item \in Items
           /\ lease[l].expires \in Nat /\ lease[l].max \in Nat /\ lease[l].tok \in Nat
BY DEF TypeOK, Issued, LeaseRow, NoRow

\* What a command in progress remembers, told by its op.
LEMMA RequestOf ==
    ASSUME TypeOK, NEW p \in Processes
    PROVE  /\ req[p].op = "claim" => req[p] \in ClaimReq
           /\ req[p].op \in {"renew", "recover"} => req[p] \in TokenReq
           /\ req[p].op = "submit" => req[p] \in SubmitReq
           /\ req[p].op = "release" => req[p] \in ReleaseReq
           /\ req[p].op = "cancel" => req[p] \in CancelReq
           /\ req[p].op = "revoke" => req[p] \in RevokeReq
BY DEF TypeOK, Requests, Idle, ClaimReq, TokenReq, SubmitReq, ReleaseReq,
       CancelReq, RevokeReq

\* Ending a command leaves a request table of the right type.
LEMMA FinishTyped ==
    ASSUME TypeOK, NEW p \in Processes, Finish(p)
    PROVE  req' \in [Processes -> Requests]
BY DEF TypeOK, Finish, Requests

\* Starting a well-formed command leaves a request table of the right type.
LEMMA BeginTyped ==
    ASSUME TypeOK, NEW p \in Processes, NEW r \in Requests, Begin(p, r)
    PROVE  req' \in [Processes -> Requests]
BY DEF TypeOK, Begin
-----------------------------------------------------------------------------
\* The empty tables a project starts with are well typed.
LEMMA TypeInit == Init => TypeOK
BY DEF Init, TypeOK, Statuses, SubStates, JobStates, Requests, Idle, NoRow

\* Every action keeps the variables in their types; one step per action.
LEMMA TypeStep == TypeOK /\ RequestInv /\ [Next]_vars => TypeOK'
<1> SUFFICES ASSUME TypeOK, RequestInv, [Next]_vars PROVE TypeOK'
  OBVIOUS
<1> USE LeaseConfig, Bounds, NullLease
<1>1. CASE UNCHANGED vars
  BY <1>1 DEF TypeOK, vars
<1>2. CASE Tick
  BY <1>2 DEF TypeOK, Tick
<1>3. ASSUME NEW p \in Isolates, NEW a \in Actors, NEW i \in Items, ClaimRead(p, a, i)
      PROVE TypeOK'
  <2>1. p \in Processes
    BY DEF Processes
  <2>2. PICK f \in {"ready", "leased"}, l \in LeaseIds \cup {NoLease} :
          Begin(p, [op |-> "claim", item |-> i, by |-> a, at |-> now,
                    from |-> f, prior |-> l])
    BY <1>3 DEF ClaimRead, ActiveOn
  <2>3. [op |-> "claim", item |-> i, by |-> a, at |-> now, from |-> f, prior |-> l]
          \in Requests
    BY DEF TypeOK, Requests, ClaimReq
  <2>4. req' \in [Processes -> Requests]
    BY <2>1, <2>2, <2>3, BeginTyped
  <2> QED
    BY <1>3, <2>4 DEF TypeOK, ClaimRead
<1>4. ASSUME NEW p \in Isolates, NEW i \in Items, CancelRead(p, i)
      PROVE TypeOK'
  BY <1>4 DEF TypeOK, CancelRead, Begin, Requests, CancelReq, Processes
<1>5. ASSUME NEW p \in Isolates, NEW l \in LeaseIds, NEW o \in {"renew", "recover"},
             TokenRead(p, l, o), Issued(l)
      PROVE TypeOK'
  <2>1. lease[l].tok \in Nat /\ lease[l].expires \in Nat
    BY <1>5, RowOf
  <2>2. [op |-> o, lease |-> l, at |-> now, tok |-> lease[l].tok,
         expires |-> lease[l].expires] \in Requests
    BY <2>1 DEF TypeOK, Requests, TokenReq
  <2>3. req' \in [Processes -> Requests]
    BY <1>5, <2>2, BeginTyped DEF TokenRead, Processes
  <2> QED
    BY <1>5, <2>3 DEF TypeOK, TokenRead
<1>6. ASSUME NEW p \in Isolates, NEW l \in LeaseIds,
             ReleaseRead(p, l) \/ SubmitRead(p, l)
      PROVE TypeOK'
  <2>1. Issued(l)
    BY <1>6 DEF ReleaseRead, SubmitRead, Live, Active, Issued
  <2>2. lease[l].tok \in Nat
    BY <2>1, RowOf
  <2>3. /\ [op |-> "release", lease |-> l] \in Requests
        /\ [op |-> "submit", lease |-> l, at |-> now, tok |-> lease[l].tok] \in Requests
    BY <2>2 DEF TypeOK, Requests, ReleaseReq, SubmitReq
  <2>4. req' \in [Processes -> Requests]
    BY <1>6, <2>3, BeginTyped DEF ReleaseRead, SubmitRead, Processes
  <2> QED
    BY <1>6, <2>4 DEF TypeOK, ReleaseRead, SubmitRead
<1>7. ASSUME NEW l \in LeaseIds, NEW at \in Nat, Issued(l), Expire(l, at)
      PROVE /\ lease' \in [LeaseIds -> LeaseRow \cup {NoRow}]
            /\ ended' \in [LeaseIds -> Nat]
            /\ status' \in [Items -> Statuses]
  <2>1. lease[l] \in LeaseRow
    BY <1>7, RowOf
  <2> QED
    BY <1>7, <2>1 DEF Expire, TypeOK, LeaseRow, EndStates, Statuses
<1>8. ASSUME NEW p \in Isolates, NEW l \in LeaseIds, LazilyExpire(p, l)
      PROVE TypeOK'
  BY <1>7, <1>8 DEF LazilyExpire, TypeOK
<1>9. ASSUME NEW p \in Isolates, NEW l \in LeaseIds, Approve(p, l) \/ RejectReview(p, l)
      PROVE TypeOK'
  BY <1>9 DEF Approve, RejectReview, TypeOK, Statuses, SubStates, JobStates
<1>10. ASSUME NEW p \in Processes, NEW a \in Actors, RevokeRead(p, a)
       PROVE TypeOK'
  <2> DEFINE r == [op |-> "revoke", by |-> a, at |-> now,
                   held |-> {l \in LeaseIds : Active(l) /\ lease[l].holder = a},
                   subs |-> [l \in LeaseIds |->
                               IF l \in InFlightOf(a) THEN sub[l] ELSE "none"]]
  <2>1. r.subs \in [LeaseIds -> SubStates] /\ r.held \in SUBSET LeaseIds
    BY DEF TypeOK, SubStates
  <2>2. r \in Requests
    BY <2>1 DEF TypeOK, Requests, RevokeReq
  <2> QED
    BY <1>10, <2>2, BeginTyped DEF RevokeRead, TypeOK
<1>11. ASSUME NEW p \in Processes, NEW l \in LeaseIds, ClaimBatch(p, l)
       PROVE TypeOK'
  <2> DEFINE r == req[p]
  <2>1. r \in ClaimReq
    BY <1>11, RequestOf DEF ClaimBatch
  <2>2. NewLease(r) \in LeaseRow
    BY <2>1 DEF NewLease, LeaseRow, ClaimReq
  <2>3. PriorEnds(r) => [lease[r.prior] EXCEPT !.st = "revoked"] \in LeaseRow
    BY <2>1 DEF PriorEnds, Active, TypeOK, LeaseRow, NoRow, ClaimReq, EndStates
  <2> HIDE DEF r
  <2>4. lease' \in [LeaseIds -> LeaseRow \cup {NoRow}]
    BY <1>11, <2>2, <2>3 DEF ClaimBatch, TypeOK, r
  <2>5. ended' \in [LeaseIds -> Nat]
    BY <1>11 DEF ClaimBatch, TypeOK, r
  <2>6. status' \in [Items -> Statuses]
    BY <1>11 DEF ClaimBatch, TypeOK, Statuses
  <2> QED
    BY <1>11, <2>4, <2>5, <2>6, FinishTyped DEF ClaimBatch, TypeOK
<1>12. ASSUME NEW p \in Processes, RenewBatch(p) \/ RecoverBatch(p)
       PROVE TypeOK'
  <2> DEFINE r == req[p]
  <2>1. r \in TokenReq /\ Issued(r.lease)
    BY <1>12, RequestOf
    DEF RenewBatch, RecoverBatch, RenewCommits, RecoverCommits, Live, Active, Issued
  <2>2. r.lease \in LeaseIds /\ r.expires \in Nat
    BY <2>1 DEF TokenReq
  <2>3. lease[r.lease] \in LeaseRow
    BY <2>1, <2>2, RowOf
  <2> HIDE DEF r
  <2>4. lease' \in [LeaseIds -> LeaseRow \cup {NoRow}]
    BY <1>12, <2>2, <2>3 DEF RenewBatch, RecoverBatch, TypeOK, LeaseRow, Lesser, r
  <2> QED
    BY <1>12, <2>4, FinishTyped DEF RenewBatch, RecoverBatch, TypeOK
<1>13. ASSUME NEW p \in Processes, ReleaseBatch(p)
       PROVE TypeOK'
  <2> DEFINE r == req[p]
  <2>1. r \in ReleaseReq /\ r.lease \in LeaseIds
    BY <1>13, RequestOf DEF ReleaseBatch, ReleaseReq
  <2>2. Active(r.lease) => lease[r.lease] \in LeaseRow
    BY <2>1, RowOf DEF Active, Issued
  <2> HIDE DEF r
  <2>3. lease' \in [LeaseIds -> LeaseRow \cup {NoRow}]
    BY <1>13, <2>1, <2>2 DEF ReleaseBatch, TypeOK, LeaseRow, EndStates, r
  <2>4. /\ status' = [status EXCEPT ![lease[r.lease].item] = "ready"]
        /\ Finish(p) /\ UNCHANGED <<now, sub, job, sweep, gone, ended>>
    BY <1>13, Zenon DEF ReleaseBatch, r
  <2>5. status' \in [Items -> Statuses]
    BY <2>4 DEF TypeOK, Statuses
  <2>6. req' \in [Processes -> Requests]
    BY <2>4, FinishTyped
  <2> QED
    BY <2>3, <2>4, <2>5, <2>6 DEF TypeOK
<1>14. ASSUME NEW p \in Processes, NEW reviewed \in BOOLEAN, SubmitBatch(p, reviewed)
       PROVE TypeOK'
  <2> DEFINE r == req[p]
  <2>1. r \in SubmitReq /\ r.lease \in LeaseIds /\ Issued(r.lease)
    BY <1>14, RequestOf DEF SubmitBatch, SubmitReq, SubmitCommits, Live, Active, Issued
  <2>2. lease[r.lease] \in LeaseRow
    BY <2>1, RowOf
  <2> HIDE DEF r
  <2>3. lease' \in [LeaseIds -> LeaseRow \cup {NoRow}]
    BY <1>14, <2>1, <2>2 DEF SubmitBatch, TypeOK, LeaseRow, EndStates, r
  <2> QED
    BY <1>14, <2>1, <2>3, FinishTyped DEF SubmitBatch, TypeOK, Statuses, SubStates, JobStates, r
<1>15. ASSUME NEW p \in Processes, CancelBatch(p)
       PROVE TypeOK'
  BY <1>15, FinishTyped DEF CancelBatch, TypeOK, Statuses
<1>16. ASSUME NEW p \in Processes, RevokeBatch(p)
       PROVE TypeOK'
  <2> DEFINE r == req[p]
  <2>1. r \in RevokeReq
    BY <1>16, RequestOf DEF RevokeBatch
  <2>2. \A l \in LeaseIds : Active(l) => [lease[l] EXCEPT !.st = "revoked"] \in LeaseRow
    BY DEF Active, TypeOK, LeaseRow, NoRow, EndStates
  <2> HIDE DEF r
  <2>3. lease' \in [LeaseIds -> LeaseRow \cup {NoRow}]
    BY <1>16, <2>2 DEF RevokeBatch, TypeOK, r
  <2>4. /\ ended' \in [LeaseIds -> Nat] /\ sub' \in [LeaseIds -> SubStates]
        /\ job' \in [LeaseIds -> JobStates]
    BY <1>16 DEF RevokeBatch, TypeOK, SubStates, JobStates, Stopped, r
  <2>5. status' \in [Items -> Statuses] /\ gone' \in SUBSET Actors
    BY <1>16, <2>1 DEF RevokeBatch, TypeOK, Statuses, RevokeReq, r
  <2> QED
    BY <1>16, <2>3, <2>4, <2>5, FinishTyped DEF RevokeBatch, TypeOK
<1>17. ASSUME NEW p \in Processes, Abort(p)
       PROVE TypeOK'
  BY <1>17, FinishTyped DEF Abort, TypeOK
<1>18. CASE SweepList
  BY <1>18 DEF SweepList, TypeOK
<1>19. ASSUME NEW l \in LeaseIds, SweepExpire(l)
       PROVE TypeOK'
  <2>1. sweep.at \in Nat /\ sweep' \in [todo : SUBSET LeaseIds, at : Nat]
    BY <1>19 DEF SweepExpire, TypeOK
  <2>2. Issued(l)
    BY <1>19 DEF SweepExpire, RequestInv
  <2> QED
    BY <1>7, <1>19, <2>1, <2>2 DEF SweepExpire, TypeOK
<1>20. ASSUME NEW l \in LeaseIds,
              \/ TakeJob(l) \/ FailJob(l) \/ DropJob(l) \/ RetryJob(l)
              \/ \E o \in {"applied", "conflicted"} : Settle(l, o)
       PROVE TypeOK'
  <2>1. CASE TakeJob(l) \/ DropJob(l) \/ RetryJob(l)
    BY <2>1 DEF TakeJob, DropJob, RetryJob, TypeOK, JobStates
  <2>2. ASSUME NEW o \in {"applied", "conflicted"}, Settle(l, o)
        PROVE TypeOK'
    BY <2>2 DEF Settle, TypeOK, Statuses, SubStates, JobStates
  <2>3. CASE FailJob(l)
    BY <2>3 DEF FailJob, TypeOK, Statuses, SubStates, JobStates
  <2> QED
    BY <1>20, <2>1, <2>2, <2>3
<1>21. CASE \E p \in Isolates : Command(p)
  <2>1. ASSUME NEW p \in Isolates, NEW l \in LeaseIds, RenewRead(p, l) \/ RecoverRead(p, l)
        PROVE TypeOK'
    BY <1>5, <2>1 DEF RenewRead, RecoverRead
  <2> QED
    BY <1>3, <1>4, <1>6, <1>8, <1>9, <1>21, <2>1 DEF Command
<1>22. CASE \E p \in Processes : Batch(p)
  BY <1>11, <1>12, <1>13, <1>14, <1>15, <1>16, <1>17, <1>22 DEF Batch
<1>23. CASE Sweep
  BY <1>18, <1>19, <1>23 DEF Sweep
<1>24. CASE Outcome
  BY <1>20, <1>24 DEF Outcome
<1> QED
  BY <1>1, <1>2, <1>10, <1>21, <1>22, <1>23, <1>24 DEF Next
-----------------------------------------------------------------------------
(* Next, seen from the tables: most steps leave them alone.                *)

Quiet == UNCHANGED <<status, lease, sub, ended>>

Expiry == \E l \in LeaseIds, at \in Nat :
    at <= now /\ Issued(l) /\ Expire(l, at) /\ UNCHANGED <<now, sub>>

\* Every step either leaves the four tables alone or is one of the steps below.
LEMMA StepCases ==
    ASSUME TypeOK, RequestInv, [Next]_vars
    PROVE  \/ Quiet
           \/ \E p \in Processes, l \in LeaseIds : ClaimBatch(p, l)
           \/ \E p \in Processes : RenewBatch(p) \/ RecoverBatch(p)
           \/ \E p \in Processes : ReleaseBatch(p)
           \/ \E p \in Processes, reviewed \in BOOLEAN : SubmitBatch(p, reviewed)
           \/ \E p \in Processes : CancelBatch(p)
           \/ \E p \in Processes : RevokeBatch(p)
           \/ Expiry
           \/ \E p \in Processes, l \in LeaseIds : Approve(p, l) \/ RejectReview(p, l)
           \/ \E l \in LeaseIds : FailJob(l) \/ Settle(l, "applied") \/ Settle(l, "conflicted")
<1>1. CASE UNCHANGED vars
  BY <1>1 DEF Quiet, vars
<1>2. CASE Tick
  BY <1>2 DEF Quiet, Tick
<1>3. CASE \E p \in Isolates : Command(p)
  <2>1. PICK p \in Isolates : Command(p)
    BY <1>3
  <2>2. ASSUME NEW a \in Actors, NEW i \in Items, ClaimRead(p, a, i)
        PROVE Quiet
    BY <2>2 DEF Quiet, ClaimRead
  <2>3. ASSUME NEW i \in Items, CancelRead(p, i)
        PROVE Quiet
    BY <2>3 DEF Quiet, CancelRead
  <2>4. ASSUME NEW l \in LeaseIds,
               \/ RenewRead(p, l) \/ RecoverRead(p, l)
               \/ ReleaseRead(p, l) \/ SubmitRead(p, l)
        PROVE Quiet
    BY <2>4 DEF Quiet, RenewRead, RecoverRead, TokenRead, ReleaseRead, SubmitRead
  <2>5. ASSUME NEW l \in LeaseIds, LazilyExpire(p, l)
        PROVE Expiry
    BY <2>5 DEF LazilyExpire, Expiry, TypeOK
  <2>6. p \in Processes
    BY DEF Processes
  <2> QED
    BY <2>1, <2>2, <2>3, <2>4, <2>5, <2>6 DEF Command
<1>4. ASSUME NEW p \in Processes, NEW a \in Actors, RevokeRead(p, a)
      PROVE Quiet
  BY <1>4 DEF Quiet, RevokeRead
<1>5. CASE \E p \in Processes : Batch(p)
  <2>1. ASSUME NEW p \in Processes, Abort(p)
        PROVE Quiet
    BY <2>1 DEF Quiet, Abort
  <2> QED
    BY <1>5, <2>1 DEF Batch
<1>6. CASE Sweep
  <2>1. CASE SweepList
    BY <2>1 DEF Quiet, SweepList
  <2>2. ASSUME NEW l \in LeaseIds, SweepExpire(l)
        PROVE Expiry
    <3>1. sweep.at \in Nat /\ sweep.at <= now /\ Issued(l)
      BY <2>2 DEF SweepExpire, TypeOK, RequestInv
    <3> QED
      BY <2>2, <3>1 DEF SweepExpire, Expiry
  <2> QED
    BY <1>6, <2>1, <2>2 DEF Sweep
<1>7. CASE Outcome
  <2>1. ASSUME NEW l \in LeaseIds, TakeJob(l) \/ DropJob(l) \/ RetryJob(l)
        PROVE Quiet
    BY <2>1 DEF Quiet, TakeJob, DropJob, RetryJob
  <2> QED
    BY <1>7, <2>1 DEF Outcome
<1> QED
  BY <1>1, <1>2, <1>3, <1>4, <1>5, <1>6, <1>7 DEF Next
-----------------------------------------------------------------------------
(* What a step may do to one row of the leases table and its end event.    *)

Same(l) == lease'[l] = lease[l] /\ ended'[l] = ended[l]

Ends(l, how) ==
    /\ Active(l)
    /\ lease'[l] = [lease[l] EXCEPT !.st = how]
    /\ ended'[l] = IF how = "revoked" THEN ended[l] + 1 ELSE ended[l]

Moves(l) ==
    /\ Active(l) /\ lease'[l].st = "active"
    /\ lease'[l].item = lease[l].item /\ lease'[l].max = lease[l].max
    /\ lease'[l].expires <= lease[l].max
    /\ ended'[l] = ended[l]

Issues(l) ==
    /\ ~Issued(l) /\ lease'[l].st = "active"
    /\ lease'[l].expires <= lease'[l].max /\ lease'[l].max <= Horizon
    /\ ended'[l] = ended[l]

RowStep(l) == Same(l) \/ Ends(l, "released") \/ Ends(l, "revoked") \/ Moves(l) \/ Issues(l)

\* The claim batch issues one row and ends at most the prior lease of the item.
LEMMA ClaimRows ==
    ASSUME Inv, NEW p \in Processes, NEW l \in LeaseIds, ClaimBatch(p, l)
    PROVE  /\ Issues(l) /\ lease'[l].item = req[p].item
           /\ \A m \in LeaseIds \ {l} :
                IF PriorEnds(req[p]) /\ m = req[p].prior THEN Ends(m, "revoked") ELSE Same(m)
<1> DEFINE r == req[p]
<1> USE LeaseConfig, Bounds, NullLease
<1>1. r \in ClaimReq /\ r.at + MaxTotal <= Horizon
  BY RequestOf DEF ClaimBatch, Inv, RequestInv
<1>2. PriorEnds(r) => r.prior \in LeaseIds /\ r.prior # l
  BY <1>1 DEF PriorEnds, Active, ClaimBatch, Issued, ClaimReq
<1>3. /\ lease'[l] = NewLease(r)
      /\ \A m \in LeaseIds \ {l} :
           lease'[m] = IF PriorEnds(r) /\ m = r.prior
                       THEN [lease[m] EXCEPT !.st = "revoked"] ELSE lease[m]
      /\ \A m \in LeaseIds :
           ended'[m] = IF PriorEnds(r) /\ m = r.prior THEN ended[m] + 1 ELSE ended[m]
  BY <1>2, Zenon DEF ClaimBatch
<1>4. Issues(l) /\ lease'[l].item = r.item
  BY <1>1, <1>2, <1>3 DEF Issues, NewLease, ClaimReq, ClaimBatch
<1>5. PriorEnds(r) => Active(r.prior)
  BY DEF PriorEnds
<1> HIDE DEF r
<1>6. \A m \in LeaseIds \ {l} :
        IF PriorEnds(r) /\ m = r.prior THEN Ends(m, "revoked") ELSE Same(m)
  BY <1>3, <1>5 DEF Ends, Same
<1> QED
  BY <1>4, <1>6 DEF r

\* Renewal and recovery move one active row, never past its cap.
LEMMA TokenRows ==
    ASSUME Inv, NEW p \in Processes, RenewBatch(p) \/ RecoverBatch(p)
    PROVE  /\ \A m \in LeaseIds : Same(m) \/ Moves(m)
           /\ UNCHANGED <<status, sub, ended>>
<1> DEFINE r == req[p]
<1>1. r \in TokenReq /\ Active(r.lease)
  BY RequestOf DEF RenewBatch, RecoverBatch, RenewCommits, RecoverCommits, Live, Inv
<1>2. r.lease \in LeaseIds /\ r.expires \in Nat
  BY <1>1 DEF TokenReq
<1>3. /\ lease[r.lease] \in LeaseRow /\ lease[r.lease].st = "active"
      /\ lease[r.lease].expires <= lease[r.lease].max
  BY <1>1, <1>2, RowOf DEF Inv, CapRespected, Active, Issued
<1> HIDE DEF r
<1>4. UNCHANGED <<status, sub, ended>>
  BY Zenon DEF RenewBatch, RecoverBatch
<1>5. \A m \in LeaseIds : m # r.lease => Same(m)
  BY <1>2, <1>3, <1>4 DEF Same, RenewBatch, RecoverBatch, Inv, TypeOK, r
<1>6. Moves(r.lease)
  <2>1. CASE RenewBatch(p)
    <3>1. lease' = [lease EXCEPT ![r.lease].expires =
                      Lesser(r.expires + Renewal, lease[r.lease].max)]
      BY <2>1, Zenon DEF RenewBatch, r
    <3>2. lease'[r.lease] = [lease[r.lease] EXCEPT !.expires =
                               Lesser(r.expires + Renewal, lease[r.lease].max)]
      BY <1>2, <1>3, <3>1 DEF Inv, TypeOK
    <3>3. Lesser(r.expires + Renewal, lease[r.lease].max) <= lease[r.lease].max
      BY <1>2, <1>3, LeaseConfig DEF Lesser, LeaseRow
    <3> QED
      BY <1>1, <1>3, <1>4, <3>2, <3>3 DEF Moves, LeaseRow
  <2>2. CASE RecoverBatch(p)
    <3>1. lease' = [lease EXCEPT ![r.lease].tok = @ + 1]
      BY <2>2, Zenon DEF RecoverBatch, r
    <3>2. lease'[r.lease] = [lease[r.lease] EXCEPT !.tok = @ + 1]
      BY <1>2, <1>3, <3>1 DEF Inv, TypeOK
    <3> QED
      BY <1>1, <1>3, <1>4, <3>2 DEF Moves, LeaseRow
  <2> QED
    BY <2>1, <2>2
<1> QED
  BY <1>4, <1>5, <1>6

\* Release ends at most the lease it names.
LEMMA ReleaseRows ==
    ASSUME Inv, NEW p \in Processes, ReleaseBatch(p)
    PROVE  /\ \A m \in LeaseIds : Same(m) \/ Ends(m, "released")
           /\ UNCHANGED <<sub, ended>>
<1> DEFINE r == req[p]
<1>1. r.lease \in LeaseIds
  BY RequestOf DEF ReleaseBatch, ReleaseReq, Inv
<1>2. /\ lease' = IF Active(r.lease)
                  THEN [lease EXCEPT ![r.lease].st = "released"] ELSE lease
      /\ UNCHANGED <<sub, ended>>
  BY Zenon DEF ReleaseBatch
<1>3. Active(r.lease) => lease[r.lease] \in LeaseRow
  BY <1>1, RowOf DEF Inv, Active, Issued
<1> HIDE DEF r
<1>4. CASE Active(r.lease)
  <2>1. /\ lease'[r.lease] = [lease[r.lease] EXCEPT !.st = "released"]
        /\ \A m \in LeaseIds : m # r.lease => lease'[m] = lease[m]
    BY <1>1, <1>2, <1>3, <1>4 DEF Inv, TypeOK
  <2> QED
    BY <1>2, <1>4, <2>1 DEF Same, Ends
<1>5. CASE ~Active(r.lease)
  BY <1>2, <1>5 DEF Same
<1> QED
  BY <1>2, <1>4, <1>5

\* Submission ends exactly the lease it names, which was live and held its item.
LEMMA SubmitRows ==
    ASSUME Inv, NEW p \in Processes, NEW reviewed \in BOOLEAN, SubmitBatch(p, reviewed)
    PROVE  LET l == req[p].lease IN
           /\ l \in LeaseIds /\ Active(l) /\ Ends(l, "released")
           /\ \A m \in LeaseIds \ {l} : Same(m)
           /\ sub'[l] # "none" /\ \A m \in LeaseIds \ {l} : sub'[m] = sub[m]
           /\ \A i \in Items : i # lease[l].item => status'[i] = status[i]
<1> DEFINE r == req[p]
<1>1. r.lease \in LeaseIds /\ Active(r.lease)
  BY RequestOf DEF SubmitBatch, SubmitReq, SubmitCommits, Live, Inv
<1>2. lease[r.lease] \in LeaseRow
  BY <1>1, RowOf DEF Inv, Active, Issued
<1>3. /\ lease' = [lease EXCEPT ![r.lease].st = "released"]
      /\ sub' = [sub EXCEPT ![r.lease] = IF reviewed THEN "received" ELSE "applying"]
      /\ status' = [status EXCEPT ![lease[r.lease].item] =
                      IF reviewed THEN "submitted" ELSE "applying"]
      /\ UNCHANGED ended
  BY Zenon DEF SubmitBatch
<1> HIDE DEF r
<1>4. Ends(r.lease, "released") /\ \A m \in LeaseIds \ {r.lease} : Same(m)
  BY <1>1, <1>2, <1>3 DEF Ends, Same, Inv, TypeOK
<1>5. sub'[r.lease] # "none" /\ \A m \in LeaseIds \ {r.lease} : sub'[m] = sub[m]
  BY <1>1, <1>3 DEF Inv, TypeOK
<1>6. \A i \in Items : i # lease[r.lease].item => status'[i] = status[i]
  BY <1>3 DEF Inv, TypeOK
<1> QED
  BY <1>1, <1>4, <1>5, <1>6 DEF r

\* Revocation of an actor only ends leases and only turns submissions rejected.
LEMMA RevokeRows ==
    ASSUME Inv, NEW p \in Processes, RevokeBatch(p)
    PROVE  /\ \A m \in LeaseIds : Same(m) \/ Ends(m, "revoked")
           /\ \A m \in LeaseIds : sub'[m] # "none" => sub[m] # "none"
           /\ \A i \in Items : status'[i] \in {status[i], "ready"}
<1> DEFINE r == req[p]
<1>1. /\ lease' = [l \in LeaseIds |->
                     IF l \in r.held /\ Active(l)
                     THEN [lease[l] EXCEPT !.st = "revoked"] ELSE lease[l]]
      /\ ended' = [l \in LeaseIds |->
                     IF l \in r.held /\ Active(l) THEN ended[l] + 1 ELSE ended[l]]
      /\ sub' = [l \in LeaseIds |->
                   IF r.subs[l] # "none" /\ sub[l] = r.subs[l] THEN "rejected" ELSE sub[l]]
      /\ status' = [i \in Items |-> IF RevokedItem(r, i) THEN "ready" ELSE status[i]]
  BY Zenon DEF RevokeBatch
<1> HIDE DEF r
<1>2. \A m \in LeaseIds : Same(m) \/ Ends(m, "revoked")
  BY <1>1 DEF Same, Ends
<1> QED
  BY <1>1, <1>2

\* Expiry ends at most the lease it names.
LEMMA ExpiryRows ==
    ASSUME Inv, Expiry
    PROVE  /\ \A m \in LeaseIds : Same(m) \/ Ends(m, "revoked")
           /\ UNCHANGED sub
           /\ \A i \in Items : status'[i] \in {status[i], "ready"}
<1>1. PICK l \in LeaseIds, at \in Nat : Issued(l) /\ Expire(l, at) /\ UNCHANGED sub
  BY DEF Expiry
<1>2. lease[l] \in LeaseRow
  BY <1>1, RowOf DEF Inv
<1>3. /\ lease' = IF Active(l) /\ lease[l].expires <= at
                  THEN [lease EXCEPT ![l].st = "revoked"] ELSE lease
      /\ ended' = IF Active(l) /\ lease[l].expires <= at
                  THEN [ended EXCEPT ![l] = @ + 1] ELSE ended
      /\ \/ status' = [status EXCEPT ![lease[l].item] = "ready"]
         \/ status' = status
  BY <1>1, Zenon DEF Expire
<1>4. \A m \in LeaseIds : Same(m) \/ Ends(m, "revoked")
  <2>1. CASE Active(l) /\ lease[l].expires <= at
    BY <1>2, <1>3, <2>1 DEF Same, Ends, Inv, TypeOK
  <2>2. CASE ~(Active(l) /\ lease[l].expires <= at)
    BY <1>3, <2>2 DEF Same
  <2> QED
    BY <2>1, <2>2
<1>5. \A i \in Items : status'[i] \in {status[i], "ready"}
  BY <1>3 DEF Inv, TypeOK
<1> QED
  BY <1>1, <1>4, <1>5

\* Every row of the leases table evolves by RowStep, whichever action runs.
LEMMA RowsStep ==
    ASSUME Inv, [Next]_vars
    PROVE  \A m \in LeaseIds : RowStep(m)
<1>1. CASE Quiet
  BY <1>1 DEF Quiet, RowStep, Same
<1>2. ASSUME NEW p \in Processes, NEW l \in LeaseIds, ClaimBatch(p, l)
      PROVE \A m \in LeaseIds : RowStep(m)
  BY <1>2, ClaimRows DEF RowStep
<1>3. ASSUME NEW p \in Processes, RenewBatch(p) \/ RecoverBatch(p)
      PROVE \A m \in LeaseIds : RowStep(m)
  BY <1>3, TokenRows DEF RowStep
<1>4. ASSUME NEW p \in Processes, ReleaseBatch(p)
      PROVE \A m \in LeaseIds : RowStep(m)
  BY <1>4, ReleaseRows DEF RowStep
<1>5. ASSUME NEW p \in Processes, NEW reviewed \in BOOLEAN, SubmitBatch(p, reviewed)
      PROVE \A m \in LeaseIds : RowStep(m)
  BY <1>5, SubmitRows DEF RowStep
<1>6. ASSUME NEW p \in Processes, RevokeBatch(p)
      PROVE \A m \in LeaseIds : RowStep(m)
  BY <1>6, RevokeRows DEF RowStep
<1>7. CASE Expiry
  BY <1>7, ExpiryRows DEF RowStep
<1>8. ASSUME UNCHANGED <<lease, ended>>
      PROVE \A m \in LeaseIds : RowStep(m)
  BY <1>8 DEF RowStep, Same
<1>9. ASSUME NEW p \in Processes, CancelBatch(p)
      PROVE \A m \in LeaseIds : RowStep(m)
  BY <1>8, <1>9 DEF CancelBatch
<1>10. ASSUME NEW p \in Processes, NEW l \in LeaseIds, Approve(p, l) \/ RejectReview(p, l)
       PROVE \A m \in LeaseIds : RowStep(m)
  BY <1>8, <1>10 DEF Approve, RejectReview
<1>11. ASSUME NEW l \in LeaseIds,
              FailJob(l) \/ Settle(l, "applied") \/ Settle(l, "conflicted")
       PROVE \A m \in LeaseIds : RowStep(m)
  BY <1>8, <1>11 DEF FailJob, Settle
<1> QED
  BY <1>1, <1>2, <1>3, <1>4, <1>5, <1>6, <1>7, <1>9, <1>10, <1>11, StepCases DEF Inv

\* An issued row stays issued, for the same item.
LEMMA RowsPersist ==
    ASSUME Inv, [Next]_vars, NEW l \in LeaseIds, Issued(l)
    PROVE  Issued(l)' /\ lease'[l].item = lease[l].item
<1>1. lease[l] \in LeaseRow
  BY RowOf DEF Inv
<1>2. RowStep(l)
  BY RowsStep
<1>3. CASE Same(l) \/ Moves(l)
  BY <1>3 DEF Same, Moves, Issued
<1>4. ASSUME NEW how \in EndStates, Ends(l, how)
      PROVE Issued(l)' /\ lease'[l].item = lease[l].item
  BY <1>1, <1>4 DEF Ends, EndStates, Issued, LeaseRow
<1> QED
  BY <1>2, <1>3, <1>4 DEF RowStep, Issues, EndStates

\* How a lease ended and what was announced about it change together.
LEMMA EndReportedStep == Inv /\ [Next]_vars => EndReportedByWinner'
<1> SUFFICES ASSUME Inv, [Next]_vars, NEW l \in LeaseIds
             PROVE  ended'[l] = IF lease'[l].st = "revoked" THEN 1 ELSE 0
  BY DEF EndReportedByWinner
<1>1. ended[l] = IF lease[l].st = "revoked" THEN 1 ELSE 0
  BY DEF Inv, EndReportedByWinner
<1>2. Active(l) => lease[l] \in LeaseRow
  BY RowOf DEF Inv, Active, Issued
<1>3. CASE Same(l) \/ Moves(l) \/ Issues(l)
  BY <1>1, <1>3 DEF Same, Moves, Issues, Active, Issued
<1>4. ASSUME NEW how \in EndStates, Ends(l, how)
      PROVE ended'[l] = IF lease'[l].st = "revoked" THEN 1 ELSE 0
  BY <1>1, <1>2, <1>4 DEF Ends, EndStates, Active, LeaseRow
<1> QED
  BY <1>3, <1>4, RowsStep DEF RowStep, EndStates

\* Claims are admitted below the horizon and renewals are clamped to the cap.
LEMMA CapStep == Inv /\ [Next]_vars => CapRespected'
<1> SUFFICES ASSUME Inv, [Next]_vars, NEW l \in LeaseIds, Issued(l)'
             PROVE  lease'[l].expires <= lease'[l].max /\ lease'[l].max <= Horizon
  BY DEF CapRespected
<1>1. Issued(l) => /\ lease[l] \in LeaseRow
                   /\ lease[l].expires <= lease[l].max /\ lease[l].max <= Horizon
  BY RowOf DEF Inv, CapRespected
<1>2. CASE Same(l) \/ Moves(l) \/ Issues(l)
  BY <1>1, <1>2 DEF Same, Moves, Issues, Active, Issued
<1>3. ASSUME NEW how \in EndStates, Ends(l, how)
      PROVE lease'[l].expires <= lease'[l].max /\ lease'[l].max <= Horizon
  BY <1>1, <1>3 DEF Ends, EndStates, Active, Issued, LeaseRow
<1> QED
  BY <1>2, <1>3, RowsStep DEF RowStep, EndStates

\* Only a claim makes a lease active; it claims an item whose slot is empty or
\* held by the prior lease, which the same batch ends.
LEMMA Activation ==
    ASSUME Inv, [Next]_vars
    PROVE  \/ \A m \in LeaseIds : Active(m)' => Active(m) /\ lease'[m].item = lease[m].item
           \/ \E p \in Processes, l \in LeaseIds : ClaimBatch(p, l)
<1> DEFINE Keeps == \A m \in LeaseIds :
                      Active(m)' => Active(m) /\ lease'[m].item = lease[m].item
<1>1. ASSUME \A m \in LeaseIds : ~Issues(m)
      PROVE Keeps
  <2> SUFFICES ASSUME NEW m \in LeaseIds, Active(m)'
               PROVE  Active(m) /\ lease'[m].item = lease[m].item
    OBVIOUS
  <2>1. CASE Same(m) \/ Moves(m)
    BY <2>1 DEF Same, Moves, Active
  <2>2. ASSUME NEW how \in EndStates, Ends(m, how)
        PROVE FALSE
    <3>1. lease[m] \in LeaseRow
      BY <2>2, RowOf DEF Ends, Active, Issued, Inv
    <3> QED
      BY <2>2, <3>1 DEF Ends, EndStates, Active, LeaseRow
  <2> QED
    BY <1>1, <2>1, <2>2, RowsStep DEF RowStep, EndStates
<1>2. ASSUME NEW m \in LeaseIds, Issues(m)
      PROVE ~Same(m) /\ ~Moves(m) /\ ~Ends(m, "released") /\ ~Ends(m, "revoked")
  BY <1>2 DEF Issues, Same, Moves, Ends, Issued, Active
<1>3. CASE Quiet
  BY <1>1, <1>2, <1>3 DEF Quiet, Same
<1>4. ASSUME NEW p \in Processes,
             RenewBatch(p) \/ RecoverBatch(p) \/ ReleaseBatch(p) \/ RevokeBatch(p)
      PROVE Keeps
  BY <1>1, <1>2, <1>4, TokenRows, ReleaseRows, RevokeRows
<1>5. ASSUME NEW p \in Processes, NEW reviewed \in BOOLEAN, SubmitBatch(p, reviewed)
      PROVE Keeps
  BY <1>1, <1>2, <1>5, SubmitRows
<1>6. CASE Expiry
  BY <1>1, <1>2, <1>6, ExpiryRows
<1>7. ASSUME UNCHANGED lease
      PROVE Keeps
  BY <1>7 DEF Active
<1>8. ASSUME NEW p \in Processes, CancelBatch(p)
      PROVE Keeps
  BY <1>7, <1>8 DEF CancelBatch
<1>9. ASSUME NEW p \in Processes, NEW l \in LeaseIds, Approve(p, l) \/ RejectReview(p, l)
      PROVE Keeps
  BY <1>7, <1>9 DEF Approve, RejectReview
<1>10. ASSUME NEW l \in LeaseIds,
              FailJob(l) \/ Settle(l, "applied") \/ Settle(l, "conflicted")
       PROVE Keeps
  BY <1>7, <1>10 DEF FailJob, Settle
<1> QED
  BY <1>3, <1>4, <1>5, <1>6, <1>8, <1>9, <1>10, StepCases DEF Inv

\* After a claim the new lease is the only active one of its item, and the
\* active leases of the other items are the ones they had.
LEMMA ClaimSlot ==
    ASSUME Inv, NEW p \in Processes, NEW l \in LeaseIds, ClaimBatch(p, l)
    PROVE  /\ req[p].item \in Items
           /\ Active(l)' /\ lease'[l].item = req[p].item
           /\ \A m \in LeaseIds \ {l} :
                Active(m)' => /\ Active(m) /\ lease'[m].item = lease[m].item
                              /\ lease[m].item # req[p].item
           /\ \A m \in LeaseIds \ {l} :
                Active(m) /\ lease[m].item # req[p].item => lease'[m] = lease[m]
<1> DEFINE r == req[p]
<1>1. r.item \in Items
  BY RequestOf DEF ClaimBatch, ClaimReq, Inv
<1>2. /\ Issues(l) /\ lease'[l].item = r.item
      /\ \A m \in LeaseIds \ {l} :
           IF PriorEnds(r) /\ m = r.prior THEN Ends(m, "revoked") ELSE Same(m)
  BY ClaimRows
<1>3. ActiveOn(r.item) \subseteq IF PriorEnds(r) THEN {r.prior} ELSE {}
  BY DEF ClaimBatch, ClaimCommits, SlotFree
<1>4. ASSUME NEW m \in LeaseIds, Ends(m, "revoked")
      PROVE ~Active(m)'
  <2>1. lease[m] \in LeaseRow
    BY <1>4, RowOf DEF Ends, Active, Issued, Inv
  <2> QED
    BY <1>4, <2>1 DEF Ends, Active, LeaseRow
<1>5. PriorEnds(r) => lease[r.prior].item = r.item
  BY DEF PriorEnds
<1> HIDE DEF r
<1>6. ASSUME NEW m \in LeaseIds \ {l}, Active(m)'
      PROVE Active(m) /\ lease'[m].item = lease[m].item /\ lease[m].item # r.item
  <2>1. Same(m) /\ ~(PriorEnds(r) /\ m = r.prior)
    BY <1>2, <1>4, <1>6
  <2>2. Active(m) /\ lease'[m].item = lease[m].item
    BY <1>6, <2>1 DEF Same, Active
  <2>3. m \notin ActiveOn(r.item)
    BY <1>3, <2>1
  <2> QED
    BY <2>2, <2>3 DEF ActiveOn
<1>7. ASSUME NEW m \in LeaseIds \ {l}, Active(m), lease[m].item # r.item
      PROVE lease'[m] = lease[m]
  BY <1>2, <1>5, <1>7 DEF Same
<1> QED
  BY <1>1, <1>2, <1>6, <1>7 DEF r, Issues, Active

\* The slot of an item never has two holders.
LEMMA OneActiveStep == Inv /\ [Next]_vars => OneActiveLease'
<1> SUFFICES ASSUME Inv, [Next]_vars, NEW i \in Items, NEW l \in LeaseIds, NEW m \in LeaseIds,
                    Active(l)', Active(m)', lease'[l].item = i, lease'[m].item = i
             PROVE  l = m
  BY DEF OneActiveLease, On
<1>1. ASSUME Active(l), Active(m), lease[l].item = i, lease[m].item = i
      PROVE l = m
  BY <1>1 DEF Inv, OneActiveLease, On, Active, Issued
<1>2. CASE \A n \in LeaseIds : Active(n)' => Active(n) /\ lease'[n].item = lease[n].item
  BY <1>1, <1>2
<1>3. ASSUME NEW p \in Processes, NEW n \in LeaseIds, ClaimBatch(p, n)
      PROVE l = m
  BY <1>1, <1>3, ClaimSlot
<1> QED
  BY <1>2, <1>3, Activation

\* The submission batch is the only step that creates a submission.
LEMMA SubmissionSource ==
    ASSUME Inv, [Next]_vars, NEW l \in LeaseIds, sub[l] = "none", sub'[l] # "none"
    PROVE  \E p \in Processes, reviewed \in BOOLEAN : SubmitBatch(p, reviewed)
<1>1. ASSUME sub' = sub \/ \E p \in Processes : RevokeBatch(p)
      PROVE FALSE
  BY <1>1, RevokeRows
<1>2. ASSUME NEW m \in LeaseIds, sub[m] # "none",
             NEW v, sub' = [sub EXCEPT ![m] = v]
      PROVE FALSE
  BY <1>2 DEF Inv, TypeOK
<1>3. ASSUME NEW p \in Processes, NEW m \in LeaseIds, Approve(p, m) \/ RejectReview(p, m)
      PROVE FALSE
  BY <1>2, <1>3 DEF Approve, RejectReview
<1>4. ASSUME NEW m \in LeaseIds,
             FailJob(m) \/ Settle(m, "applied") \/ Settle(m, "conflicted")
      PROVE FALSE
  <2>1. sub[m] # "none"
    BY <1>4 DEF FailJob, Settle, InHand, Inv, JobsHaveSubmissions
  <2>2. sub' = sub \/ \E v : sub' = [sub EXCEPT ![m] = v]
    BY <1>4 DEF FailJob, Settle
  <2> QED
    BY <1>1, <1>2, <2>1, <2>2
<1>5. ASSUME NEW p \in Processes, NEW m \in LeaseIds, ClaimBatch(p, m)
      PROVE FALSE
  BY <1>1, <1>5 DEF ClaimBatch
<1>6. ASSUME NEW p \in Processes,
             \/ RenewBatch(p) \/ RecoverBatch(p) \/ ReleaseBatch(p) \/ CancelBatch(p)
      PROVE FALSE
  BY <1>1, <1>6, TokenRows, ReleaseRows DEF CancelBatch
<1>7. CASE Quiet \/ Expiry
  BY <1>1, <1>7, ExpiryRows DEF Quiet
<1> QED
  BY <1>1, <1>3, <1>4, <1>5, <1>6, <1>7, StepCases DEF Inv

\* The lease a submission came from stays spent.
LEMMA SubmissionStep == Inv /\ [Next]_vars => SubmissionSpendsLease'
<1> SUFFICES ASSUME Inv, [Next]_vars, NEW l \in LeaseIds, sub'[l] # "none"
             PROVE  lease'[l].st = "released" /\ ended'[l] = 0
  BY DEF SubmissionSpendsLease
<1>1. CASE sub[l] # "none"
  <2>1. lease[l].st = "released" /\ ended[l] = 0
    BY <1>1 DEF Inv, SubmissionSpendsLease
  <2>2. Same(l)
    BY <2>1, RowsStep DEF RowStep, Ends, Moves, Issues, Active, Issued
  <2> QED
    BY <2>1, <2>2 DEF Same
<1>2. CASE sub[l] = "none"
  <2>1. PICK p \in Processes, reviewed \in BOOLEAN : SubmitBatch(p, reviewed)
    BY <1>2, SubmissionSource
  <2>2. l = req[p].lease /\ Active(l) /\ Ends(l, "released")
    BY <1>2, <2>1, SubmitRows
  <2>3. lease[l] \in LeaseRow /\ ended[l] = 0
    BY <2>2, RowOf DEF Active, Issued, Inv, EndReportedByWinner
  <2> QED
    BY <2>2, <2>3 DEF Ends, LeaseRow
<1> QED
  BY <1>1, <1>2

\* An item becomes pending only from a state in which its slot is, or has just
\* become, empty; and no claim fills the slot of a pending item.
LEMMA PendingStep == Inv /\ [Next]_vars => PendingItemHasNoLease'
<1> DEFINE Pending == {"submitted", "applying"}
<1> SUFFICES ASSUME Inv, [Next]_vars, NEW i \in Items, status'[i] \in Pending,
                    NEW l \in LeaseIds, Active(l)', lease'[l].item = i
             PROVE  FALSE
  BY DEF PendingItemHasNoLease, ActiveOn, Active
<1>1. ASSUME status[i] \in Pending, Active(l), lease[l].item = i
      PROVE FALSE
  BY <1>1 DEF Inv, PendingItemHasNoLease, ActiveOn
<1>2. ASSUME NEW p \in Processes, NEW m \in LeaseIds, ClaimBatch(p, m)
      PROVE FALSE
  <2>1. status' = [status EXCEPT ![req[p].item] = "leased"] /\ req[p].item \in Items
    BY <1>2, ClaimSlot DEF ClaimBatch
  <2>2. i # req[p].item /\ status'[i] = status[i]
    BY <2>1 DEF Inv, TypeOK
  <2> QED
    BY <1>1, <1>2, <2>2, ClaimSlot
<1>3. ASSUME NEW p \in Processes, NEW reviewed \in BOOLEAN, SubmitBatch(p, reviewed)
      PROVE FALSE
  <2> DEFINE s == req[p].lease
  <2>1. /\ s \in LeaseIds /\ Active(s) /\ Ends(s, "released")
        /\ \A m \in LeaseIds \ {s} : Same(m)
        /\ \A j \in Items : j # lease[s].item => status'[j] = status[j]
    BY <1>3, SubmitRows
  <2>2. lease[s] \in LeaseRow
    BY <2>1, RowOf DEF Active, Issued, Inv
  <2> HIDE DEF s
  <2>3. l # s /\ Active(l) /\ lease[l].item = i
    BY <2>1, <2>2 DEF Ends, Same, Active, LeaseRow
  <2>4. i # lease[s].item
    BY <2>1, <2>3 DEF Inv, OneActiveLease, On, Active, Issued
  <2> QED
    BY <1>1, <2>1, <2>3, <2>4
<1> DEFINE Keeps == \A m \in LeaseIds :
                      Active(m)' => Active(m) /\ lease'[m].item = lease[m].item
<1>4. CASE Keeps
  <2>1. ASSUME status'[i] \in {status[i], "ready"}
        PROVE FALSE
    BY <1>1, <1>4, <2>1
  <2>2. CASE Quiet
    BY <2>1, <2>2 DEF Quiet
  <2>3. ASSUME NEW p \in Processes, RenewBatch(p) \/ RecoverBatch(p) \/ RevokeBatch(p)
        PROVE FALSE
    BY <2>1, <2>3, TokenRows, RevokeRows
  <2>4. CASE Expiry
    BY <2>1, <2>4, ExpiryRows
  <2>5. ASSUME NEW j, NEW v \in Statuses \ Pending, status' = [status EXCEPT ![j] = v]
        PROVE FALSE
    BY <1>1, <1>4, <2>5 DEF Inv, TypeOK
  <2>6. ASSUME NEW p \in Processes, ReleaseBatch(p) \/ CancelBatch(p)
        PROVE FALSE
    <3>1. \E j : \/ status' = [status EXCEPT ![j] = "ready"]
                 \/ status' = [status EXCEPT ![j] = "cancelled"]
      BY <2>6, Zenon DEF ReleaseBatch, CancelBatch
    <3> QED
      BY <2>5, <3>1 DEF Statuses
  <2>7. ASSUME NEW p \in Processes, NEW m \in LeaseIds, Approve(p, m)
        PROVE FALSE
    <3>1. i = lease[m].item \/ status'[i] = status[i]
      BY <2>7 DEF Approve, Inv, TypeOK
    <3>2. status[i] \in Pending
      BY <2>7, <3>1 DEF Approve
    <3> QED
      BY <1>1, <1>4, <3>2
  <2>8. ASSUME NEW p \in Processes, NEW m \in LeaseIds, RejectReview(p, m)
        PROVE FALSE
    BY <2>5, <2>8 DEF RejectReview, Statuses
  <2>9. ASSUME NEW m \in LeaseIds,
               FailJob(m) \/ Settle(m, "applied") \/ Settle(m, "conflicted")
        PROVE FALSE
    <3>1. \/ status' = [status EXCEPT ![lease[m].item] = "completed"]
          \/ status' = [status EXCEPT ![lease[m].item] = "conflict"]
          \/ status' = status
      BY <2>9 DEF FailJob, Settle
    <3> QED
      BY <2>1, <2>5, <3>1 DEF Statuses
  <2> QED
    BY <1>2, <1>3, <2>2, <2>3, <2>4, <2>6, <2>7, <2>8, <2>9, StepCases DEF Inv
<1> QED
  BY <1>2, <1>4, Activation

\* What a command may remember, given the rows that exist now.
Fits(r) ==
    /\ r.op = "claim" => r.at \in Nat /\ r.at + MaxTotal <= Horizon /\ r.at <= now
    /\ r.op \in {"renew", "recover", "submit", "release"} =>
         r.lease \in LeaseIds /\ Issued(r.lease)
    /\ r.op = "revoke" => \A l \in LeaseIds :
         (l \in r.held \/ r.subs[l] # "none") => Issued(l)

\* A step starts or ends one command; what a new command remembers fits.
LEMMA RequestChange ==
    ASSUME Inv, [Next]_vars
    PROVE  \A q \in Processes : \/ req'[q] = req[q] \/ req'[q] = Idle \/ Fits(req'[q])
<1> DEFINE Goal == \A q \in Processes : req'[q] = req[q] \/ req'[q] = Idle \/ Fits(req'[q])
<1>1. ASSUME req' = req PROVE Goal
  BY <1>1
<1>2. ASSUME NEW p \in Processes, Finish(p) PROVE Goal
  BY <1>2 DEF Finish, Inv, TypeOK
<1>3. ASSUME NEW p \in Processes, NEW r, Begin(p, r), Fits(r) PROVE Goal
  BY <1>3 DEF Begin, Inv, TypeOK
<1>4. CASE UNCHANGED vars \/ Tick \/ Sweep \/ Outcome
  BY <1>1, <1>4 DEF vars, Tick, Sweep, SweepList, SweepExpire, Outcome, TakeJob, Settle,
     FailJob, DropJob, RetryJob
<1>5. ASSUME NEW p \in Processes, Batch(p) PROVE Goal
  <2>1. Finish(p)
    BY <1>5, Zenon DEF Batch, ClaimBatch, RenewBatch, RecoverBatch, ReleaseBatch,
       SubmitBatch, CancelBatch, RevokeBatch, Abort
  <2> QED
    BY <1>2, <2>1
<1>6. ASSUME NEW p \in Processes, NEW a \in Actors, RevokeRead(p, a) PROVE Goal
  <2> DEFINE r == [op |-> "revoke", by |-> a, at |-> now,
                   held |-> {l \in LeaseIds : Active(l) /\ lease[l].holder = a},
                   subs |-> [l \in LeaseIds |->
                               IF l \in InFlightOf(a) THEN sub[l] ELSE "none"]]
  <2>1. \A l \in LeaseIds : l \in r.held \/ r.subs[l] # "none" => Issued(l)
    BY DEF InFlightOf, InFlight, Active, Issued, Inv, RequestInv
  <2>2. Fits(r)
    BY <2>1 DEF Fits
  <2> QED
    BY <1>3, <1>6, <2>2 DEF RevokeRead
<1>7. ASSUME NEW p \in Isolates, Command(p) PROVE Goal
  <2> p \in Processes
    BY DEF Processes
  <2>1. ASSUME NEW a \in Actors, NEW i \in Items, ClaimRead(p, a, i) PROVE Goal
    <3>1. PICK f, l : Begin(p, [op |-> "claim", item |-> i, by |-> a, at |-> now,
                                from |-> f, prior |-> l])
      BY <2>1 DEF ClaimRead
    <3>2. Fits([op |-> "claim", item |-> i, by |-> a, at |-> now,
                from |-> f, prior |-> l])
      BY <2>1 DEF ClaimRead, Fits, Inv, TypeOK
    <3> QED
      BY <1>3, <3>1, <3>2
  <2>2. ASSUME NEW i \in Items, CancelRead(p, i) PROVE Goal
    <3>1. Fits([op |-> "cancel", item |-> i])
      BY DEF Fits
    <3> QED
      BY <1>3, <2>2, <3>1 DEF CancelRead
  <2>3. ASSUME NEW l \in LeaseIds, NEW o \in {"renew", "recover"}, TokenRead(p, l, o)
        PROVE Goal
    <3>1. Fits([op |-> o, lease |-> l, at |-> now,
                tok |-> lease[l].tok, expires |-> lease[l].expires])
      BY <2>3 DEF TokenRead, Live, Active, Issued, Fits
    <3> QED
      BY <1>3, <2>3, <3>1 DEF TokenRead
  <2>4. ASSUME NEW l \in LeaseIds, RenewRead(p, l) \/ RecoverRead(p, l) PROVE Goal
    BY <2>3, <2>4 DEF RenewRead, RecoverRead
  <2>5. ASSUME NEW l \in LeaseIds, ReleaseRead(p, l) PROVE Goal
    <3>1. Fits([op |-> "release", lease |-> l])
      BY <2>5 DEF ReleaseRead, Live, Active, Issued, Fits
    <3> QED
      BY <1>3, <2>5, <3>1 DEF ReleaseRead
  <2>6. ASSUME NEW l \in LeaseIds, SubmitRead(p, l) PROVE Goal
    <3>1. Fits([op |-> "submit", lease |-> l, at |-> now, tok |-> lease[l].tok])
      BY <2>6 DEF SubmitRead, Live, Active, Issued, Fits
    <3> QED
      BY <1>3, <2>6, <3>1 DEF SubmitRead
  <2>7. ASSUME NEW l \in LeaseIds, LazilyExpire(p, l) \/ Approve(p, l) \/ RejectReview(p, l)
        PROVE Goal
    BY <1>1, <2>7 DEF LazilyExpire, Approve, RejectReview
  <2> QED
    BY <1>7, <2>1, <2>2, <2>4, <2>5, <2>6, <2>7 DEF Command
<1> QED
  BY <1>4, <1>5, <1>6, <1>7 DEF Next

\* The clock never goes back, and only the sweep's own steps move it.
LEMMA Clocks ==
    ASSUME TypeOK, [Next]_vars
    PROVE  /\ now' \in Nat /\ now <= now' /\ (now' = now \/ Tick)
           /\ UNCHANGED sweep \/ SweepList \/ \E l \in LeaseIds : SweepExpire(l)
<1> DEFINE Still == now' = now /\ UNCHANGED sweep
<1>1. CASE UNCHANGED vars
  BY <1>1 DEF vars, TypeOK
<1>2. CASE Tick
  BY <1>2 DEF Tick, TypeOK
<1>3. ASSUME NEW p \in Isolates, Command(p) PROVE Still
  BY <1>3 DEF Command, ClaimRead, CancelRead, RenewRead, RecoverRead, TokenRead,
     ReleaseRead, SubmitRead, LazilyExpire, Approve, RejectReview
<1>4. ASSUME NEW p \in Processes, NEW a \in Actors, RevokeRead(p, a) PROVE Still
  BY <1>4 DEF RevokeRead
<1>5. ASSUME NEW p \in Processes, Batch(p) PROVE Still
  BY <1>5, Zenon DEF Batch, ClaimBatch, RenewBatch, RecoverBatch, ReleaseBatch,
     SubmitBatch, CancelBatch, RevokeBatch, Abort
<1>6. CASE Sweep
  BY <1>6 DEF Sweep, SweepList, SweepExpire, TypeOK
<1>7. CASE Outcome
  BY <1>7 DEF Outcome, TakeJob, Settle, FailJob, DropJob, RetryJob, TypeOK
<1> QED
  BY <1>1, <1>2, <1>3, <1>4, <1>5, <1>6, <1>7 DEF Next, TypeOK

\* A request in progress keeps pointing at issued rows, below the horizon.
LEMMA RequestStep == Inv /\ [Next]_vars => RequestInv'
<1> SUFFICES ASSUME Inv, [Next]_vars PROVE RequestInv'
  OBVIOUS
<1>1. \A l \in LeaseIds : Issued(l) => Issued(l)'
  BY RowsPersist
<1>2. \A l \in LeaseIds : sub'[l] # "none" => Issued(l)'
  BY SubmissionStep DEF SubmissionSpendsLease, Issued
<1>3. sweep'.at <= now' /\ \A l \in sweep'.todo : Issued(l)'
  <2>1. sweep.at \in Nat /\ sweep.at <= now /\ now \in Nat /\ now' \in Nat /\ now <= now'
    BY Clocks DEF Inv, TypeOK, RequestInv
  <2>2. CASE UNCHANGED sweep
    BY <1>1, <2>1, <2>2 DEF Inv, TypeOK, RequestInv
  <2>3. CASE SweepList
    BY <1>1, <2>1, <2>3 DEF SweepList, Active, Issued
  <2>4. ASSUME NEW l \in LeaseIds, SweepExpire(l)
        PROVE sweep'.at <= now' /\ \A m \in sweep'.todo : Issued(m)'
    BY <1>1, <2>1, <2>4 DEF SweepExpire, Inv, TypeOK, RequestInv
  <2> QED
    BY <2>2, <2>3, <2>4, Clocks DEF Inv
<1>4. ASSUME NEW p \in Processes
      PROVE (LET r == req[p] IN
             /\ r.op = "claim" => r.at + MaxTotal <= Horizon /\ r.at <= now
             /\ r.op \in {"renew", "recover", "submit", "release"} => Issued(r.lease)
             /\ r.op = "revoke" => \A l \in LeaseIds :
                  (l \in r.held \/ r.subs[l] # "none") => Issued(l))'
  <2>1. Fits(req[p])
    BY RequestOf DEF Fits, Inv, RequestInv, ClaimReq, TokenReq, SubmitReq, ReleaseReq
  <2>2. Fits(Idle)
    BY DEF Fits, Idle
  <2>3. req'[p] = req[p] \/ req'[p] = Idle \/ Fits(req'[p])
    BY RequestChange
  <2>4. Fits(req'[p])
    BY <2>1, <2>2, <2>3
  <2> DEFINE r == req'[p]
  <2>5. /\ r.op = "claim" => r.at \in Nat /\ r.at + MaxTotal <= Horizon /\ r.at <= now
        /\ r.op \in {"renew", "recover", "submit", "release"} =>
             r.lease \in LeaseIds /\ Issued(r.lease)
        /\ r.op = "revoke" => \A l \in LeaseIds :
             (l \in r.held \/ r.subs[l] # "none") => Issued(l)
    BY <2>4 DEF Fits
  <2>6. \A l \in LeaseIds : Issued(l) => lease'[l].st # "none"
    BY <1>1 DEF Issued
  <2>7. now \in Nat /\ now' \in Nat /\ now <= now'
    BY Clocks DEF Inv, TypeOK
  <2>8. r.op = "claim" => r.at <= now'
    BY <2>5, <2>7
  <2> QED
    BY <2>5, <2>6, <2>8 DEF Issued
<1> QED
  BY <1>2, <1>3, <1>4 DEF RequestInv
\* A row enters the outbox with its submission, or when a review approves it.
LEMMA JobStep == Inv /\ [Next]_vars => JobsHaveSubmissions'
<1> DEFINE Early == {"none", "received"}
<1> SUFFICES ASSUME Inv, [Next]_vars, NEW l \in LeaseIds, job'[l] # "none"
             PROVE  sub'[l] \notin Early
  BY DEF JobsHaveSubmissions
<1>1. job[l] # "none" => sub[l] \notin Early
  BY DEF Inv, JobsHaveSubmissions
<1>2. ASSUME UNCHANGED <<sub, job>>
      PROVE sub'[l] \notin Early
  BY <1>1, <1>2
<1>3. CASE UNCHANGED vars \/ Tick \/ Sweep
  BY <1>2, <1>3 DEF vars, Tick, Sweep, SweepList, SweepExpire
<1>4. ASSUME NEW p \in Processes, NEW a \in Actors, RevokeRead(p, a)
      PROVE sub'[l] \notin Early
  BY <1>2, <1>4 DEF RevokeRead
<1>5. CASE Outcome
  BY <1>1, <1>5 DEF Outcome, TakeJob, Settle, FailJob, DropJob, RetryJob, InHand, Inv, TypeOK
<1>6. ASSUME NEW p \in Isolates, Command(p)
      PROVE sub'[l] \notin Early
  <2>1. \/ UNCHANGED <<sub, job>>
        \/ \E m \in LeaseIds : Approve(p, m) \/ RejectReview(p, m)
    BY <1>6 DEF Command, ClaimRead, CancelRead, RenewRead, RecoverRead, TokenRead,
       ReleaseRead, SubmitRead, LazilyExpire
  <2> QED
    BY <1>1, <1>2, <2>1 DEF Approve, RejectReview, Inv, TypeOK
<1>7. ASSUME NEW p \in Processes, Batch(p)
      PROVE sub'[l] \notin Early
  <2>1. CASE RevokeBatch(p)
    BY <1>1, <2>1 DEF RevokeBatch, Stopped
  <2>2. ASSUME NEW reviewed \in BOOLEAN, SubmitBatch(p, reviewed)
        PROVE sub'[l] \notin Early
    BY <1>1, <2>2 DEF SubmitBatch, Inv, TypeOK
  <2>3. ASSUME NEW m \in LeaseIds, ClaimBatch(p, m)
        PROVE sub'[l] \notin Early
    BY <1>2, <2>3 DEF ClaimBatch
  <2>4. ASSUME \/ RenewBatch(p) \/ RecoverBatch(p) \/ ReleaseBatch(p) \/ CancelBatch(p)
               \/ Abort(p)
        PROVE sub'[l] \notin Early
    BY <1>2, <2>4 DEF RenewBatch, RecoverBatch, ReleaseBatch, CancelBatch, Abort
  <2> QED
    BY <1>7, <2>1, <2>2, <2>3, <2>4 DEF Batch
<1> QED
  BY <1>3, <1>4, <1>5, <1>6, <1>7 DEF Next

\* No step takes up an item that is completed, conflicted or cancelled.
LEMMA OverStays ==
    ASSUME Inv, [Next]_vars, NEW i \in Items, status[i] \in Over
    PROVE  status'[i] \in Over
<1>1. ASSUME NEW j, NEW v, status' = [status EXCEPT ![j] = v], j = i => v \in Over
      PROVE status'[i] \in Over
  BY <1>1 DEF Inv, TypeOK
<1>2. ASSUME status' = status
      PROVE status'[i] \in Over
  BY <1>2
<1>3. ASSUME NEW p \in Processes, NEW l \in LeaseIds, ClaimBatch(p, l)
      PROVE status'[i] \in Over
  <2>1. /\ status[req[p].item] = req[p].from /\ req[p].from \in {"ready", "leased"}
        /\ status' = [status EXCEPT ![req[p].item] = "leased"]
    BY <1>3, RequestOf DEF ClaimBatch, ClaimCommits, ClaimReq, Inv
  <2> QED
    BY <1>1, <2>1 DEF Over
<1>4. ASSUME NEW p \in Processes, RenewBatch(p) \/ RecoverBatch(p)
      PROVE status'[i] \in Over
  BY <1>2, <1>4, TokenRows
<1>5. ASSUME NEW p \in Processes, ReleaseBatch(p)
      PROVE status'[i] \in Over
  <2>1. /\ status[lease[req[p].lease].item] = "leased"
        /\ status' = [status EXCEPT ![lease[req[p].lease].item] = "ready"]
    BY <1>5, Zenon DEF ReleaseBatch, ReleaseCommits
  <2> QED
    BY <1>1, <2>1 DEF Over
<1>6. ASSUME NEW p \in Processes, NEW reviewed \in BOOLEAN, SubmitBatch(p, reviewed)
      PROVE status'[i] \in Over
  <2>1. /\ status[lease[req[p].lease].item] = "leased"
        /\ \E v : status' = [status EXCEPT ![lease[req[p].lease].item] = v]
    BY <1>6, Zenon DEF SubmitBatch, SubmitCommits
  <2> QED
    BY <1>1, <2>1 DEF Over
<1>7. ASSUME NEW p \in Processes, CancelBatch(p)
      PROVE status'[i] \in Over
  <2>1. status' = [status EXCEPT ![req[p].item] = "cancelled"]
    BY <1>7, Zenon DEF CancelBatch
  <2> QED
    BY <1>1, <2>1 DEF Over
<1>8. ASSUME NEW p \in Processes, RevokeBatch(p)
      PROVE status'[i] \in Over
  <2>1. status'[i] = IF RevokedItem(req[p], i) THEN "ready" ELSE status[i]
    BY <1>8, Zenon DEF RevokeBatch
  <2>2. ~RevokedItem(req[p], i)
    BY DEF RevokedItem, Over
  <2> QED
    BY <2>1, <2>2
<1>9. CASE Expiry
  <2>1. PICK m \in LeaseIds, at \in Nat : Expire(m, at)
    BY <1>9 DEF Expiry
  <2>2. \/ status' = status
        \/ /\ status[lease[m].item] = "leased"
           /\ status' = [status EXCEPT ![lease[m].item] = "ready"]
    BY <2>1, Zenon DEF Expire
  <2> QED
    BY <1>1, <1>2, <2>2 DEF Over
<1>10. ASSUME NEW p \in Processes, NEW m \in LeaseIds, Approve(p, m) \/ RejectReview(p, m)
       PROVE status'[i] \in Over
  <2>1. /\ status[lease[m].item] = "submitted"
        /\ \E v : status' = [status EXCEPT ![lease[m].item] = v]
    BY <1>10 DEF Approve, RejectReview
  <2> QED
    BY <1>1, <2>1 DEF Over
<1>11. ASSUME NEW m \in LeaseIds,
              FailJob(m) \/ Settle(m, "applied") \/ Settle(m, "conflicted")
       PROVE status'[i] \in Over
  <2>1. \/ status' = status
        \/ status' = [status EXCEPT ![lease[m].item] = "completed"]
        \/ status' = [status EXCEPT ![lease[m].item] = "conflict"]
    BY <1>11 DEF FailJob, Settle
  <2> QED
    BY <1>1, <1>2, <2>1 DEF Over
<1> QED
  BY <1>2, <1>3, <1>4, <1>5, <1>6, <1>7, <1>8, <1>9, <1>10, <1>11, StepCases DEF Inv, Quiet

\* A submission is settled together with its item.
LEMMA SettledStep == Inv /\ [Next]_vars => SettledForGood'
<1> DEFINE Settled == {"applied", "conflicted"}
<1> SUFFICES ASSUME Inv, [Next]_vars, NEW l \in LeaseIds, sub'[l] \in Settled
             PROVE  status'[lease'[l].item] \in Over
  BY DEF SettledForGood
<1>1. ASSUME sub[l] # "none"
      PROVE Issued(l) /\ lease[l].item \in Items /\ lease'[l].item = lease[l].item
  BY <1>1, RowOf, RowsPersist DEF Inv, RequestInv
<1>2. ASSUME sub[l] \in Settled
      PROVE status'[lease'[l].item] \in Over
  <2>1. status[lease[l].item] \in Over /\ lease[l].item \in Items /\ lease'[l].item = lease[l].item
    BY <1>1, <1>2 DEF Inv, SettledForGood
  <2> QED
    BY <2>1, OverStays
<1>3. ASSUME NEW m \in LeaseIds,
             FailJob(m) \/ Settle(m, "applied") \/ Settle(m, "conflicted"), sub[l] \notin Settled
      PROVE status'[lease'[l].item] \in Over
  <2>1. m = l /\ sub[l] # "none"
    BY <1>3 DEF FailJob, Settle, InHand, Inv, TypeOK, JobsHaveSubmissions
  <2>2. status'[lease[l].item] \in {"completed", "conflict"}
    BY <1>1, <1>3, <2>1 DEF FailJob, Settle, Inv, TypeOK
  <2> QED
    BY <1>1, <2>1, <2>2 DEF Over
<1>4. ASSUME sub' = sub
      PROVE status'[lease'[l].item] \in Over
  BY <1>2, <1>4
<1>5. ASSUME NEW p \in Processes, RevokeBatch(p)
      PROVE status'[lease'[l].item] \in Over
  <2>1. sub'[l] = IF req[p].subs[l] # "none" /\ sub[l] = req[p].subs[l]
                  THEN "rejected" ELSE sub[l]
    BY <1>5, Zenon DEF RevokeBatch
  <2> QED
    BY <1>2, <2>1
<1>6. ASSUME NEW p \in Processes, NEW m \in LeaseIds, Approve(p, m) \/ RejectReview(p, m)
      PROVE status'[lease'[l].item] \in Over
  <2>1. sub'[l] = sub[l] \/ sub'[l] \in {"applying", "rejected"}
    BY <1>6 DEF Approve, RejectReview, Inv, TypeOK
  <2> QED
    BY <1>2, <2>1
<1>7. ASSUME NEW p \in Processes, NEW reviewed \in BOOLEAN, SubmitBatch(p, reviewed)
      PROVE status'[lease'[l].item] \in Over
  <2>1. sub' = [sub EXCEPT ![req[p].lease] = IF reviewed THEN "received" ELSE "applying"]
    BY <1>7, Zenon DEF SubmitBatch
  <2>2. sub'[l] = sub[l] \/ sub'[l] \in {"applying", "received"}
    BY <2>1 DEF Inv, TypeOK
  <2> QED
    BY <1>2, <2>2
<1>8. ASSUME NEW p \in Processes,
             \/ RenewBatch(p) \/ RecoverBatch(p) \/ ReleaseBatch(p) \/ CancelBatch(p)
             \/ \E m \in LeaseIds : ClaimBatch(p, m)
      PROVE status'[lease'[l].item] \in Over
  BY <1>4, <1>8, TokenRows, ReleaseRows DEF CancelBatch, ClaimBatch
<1>9. CASE Quiet \/ Expiry
  BY <1>4, <1>9, ExpiryRows DEF Quiet
<1> QED
  BY <1>2, <1>3, <1>5, <1>6, <1>7, <1>8, <1>9, StepCases DEF Inv
-----------------------------------------------------------------------------
(* The theorems.                                                           *)

\* The empty tables satisfy the invariant.
LEMMA InvInit == Init => Inv
<1> SUFFICES ASSUME Init PROVE Inv
  OBVIOUS
<1>1. TypeOK
  BY TypeInit
<1>2. RequestInv
  BY DEF Init, RequestInv, Idle, TypeOK
<1>3. \A l \in LeaseIds : lease[l].st = "none" /\ ended[l] = 0 /\ sub[l] = "none"
  BY DEF Init, NoRow
<1> QED
  BY <1>1, <1>2, <1>3 DEF Init, Inv, OneActiveLease, EndReportedByWinner,
     PendingItemHasNoLease, SubmissionSpendsLease, CapRespected, JobsHaveSubmissions,
     SettledForGood, Active, Issued

\* Every step preserves the invariant: one lemma per conjunct.
LEMMA InvStep == Inv /\ [Next]_vars => Inv'
BY TypeStep, RequestStep, OneActiveStep, EndReportedStep, PendingStep, SubmissionStep,
   CapStep, JobStep, SettledStep DEF Inv

\* The inductive invariant holds in every reachable state.
THEOREM Invariance == Spec => []Inv
BY InvInit, InvStep, PTL DEF Spec

\* Type correctness of the lease tables and of the commands in progress.
THEOREM TypeCorrect == Spec => []TypeOK
BY Invariance, PTL DEF Inv

\* However many isolates race, one work item never has two active leases.
THEOREM OneActive == Spec => []OneActiveLease
BY Invariance, PTL DEF Inv

\* A lease is announced as expired or revoked exactly when it ended that way, once.
THEOREM EndReported == Spec => []EndReportedByWinner
BY Invariance, PTL DEF Inv

\* No lease is held on an item whose submission is under review or being applied.
THEOREM PendingFree == Spec => []PendingItemHasNoLease
BY Invariance, PTL DEF Inv

\* A lease yields at most one submission and is then spent, never expired as well.
THEOREM SubmissionSpends == Spec => []SubmissionSpendsLease
BY Invariance, PTL DEF Inv

\* Both halves at once: once a submission is accepted, its lease is spent and
\* nobody else works on the item until a reviewer or the outbox decides it.
THEOREM SubmissionEnds == Spec => []SubmissionEndsLease
<1>1. Inv => SubmissionEndsLease
  BY DEF Inv, SubmissionEndsLease
<1> QED
  BY <1>1, Invariance, PTL

\* Concurrent renewals never take a lease past its maximum total duration.
THEOREM Capped == Spec => []CapRespected
BY Invariance, PTL DEF Inv

-----------------------------------------------------------------------------
(* Refinement of LeaseSlot.                                                *)

SlotFacts == \A i \in Items :
    /\ \A l \in ActiveOn(i) : Slot(i) = l
    /\ ActiveOn(i) = {} => Slot(i) = NoLease

\* The slot of an item is whatever lease is active on it, and there is only one.
LEMMA SlotOf == OneActiveLease => SlotFacts
BY DEF OneActiveLease, SlotFacts, ActiveOn, On, Slot, Active, Issued

\* A renewal or a recovery touches one row, and a recovery no expiry.
LEMMA TokenTouches ==
    ASSUME Inv, NEW p \in Processes, RenewBatch(p) \/ RecoverBatch(p), NEW m \in LeaseIds
    PROVE  /\ Active(m)' => Active(m) /\ lease'[m].item = lease[m].item
           /\ \/ lease'[m].expires = lease[m].expires
              \/ RenewBatch(p) /\ m = req[p].lease /\ Active(m)
<1> DEFINE r == req[p]
<1>1. r \in TokenReq /\ Active(r.lease)
  BY RequestOf DEF RenewBatch, RecoverBatch, RenewCommits, RecoverCommits, Live, Inv
<1>2. r.lease \in LeaseIds
  BY <1>1 DEF TokenReq
<1>3. lease[r.lease] \in LeaseRow
  BY <1>1, <1>2, RowOf DEF Inv, Active, Issued
<1>4. Same(m) \/ Moves(m)
  BY TokenRows
<1>5. Active(m)' => Active(m) /\ lease'[m].item = lease[m].item
  BY <1>4 DEF Same, Moves, Active
<1> HIDE DEF r
<1>6. CASE RecoverBatch(p)
  <2>1. lease' = [lease EXCEPT ![r.lease].tok = @ + 1]
    BY <1>6, Zenon DEF RecoverBatch, r
  <2>2. lease'[m].expires = lease[m].expires
    <3>1. CASE m = r.lease
      <4>1. lease'[m] = [lease[m] EXCEPT !.tok = @ + 1]
        BY <1>2, <2>1, <3>1 DEF Inv, TypeOK
      <4> QED
        BY <1>3, <3>1, <4>1 DEF LeaseRow
    <3>2. CASE m # r.lease
      BY <2>1, <3>2 DEF Inv, TypeOK
    <3> QED
      BY <3>1, <3>2
  <2> QED
    BY <1>5, <2>2
<1>7. CASE RenewBatch(p)
  <2>1. lease' = [lease EXCEPT ![r.lease].expires =
                    Lesser(r.expires + Renewal, lease[r.lease].max)]
    BY <1>7, Zenon DEF RenewBatch, r
  <2>2. m # r.lease => lease'[m] = lease[m]
    BY <2>1 DEF Inv, TypeOK
  <2> QED
    BY <1>1, <1>5, <1>7, <2>2 DEF r
<1> QED
  BY <1>6, <1>7

\* Only the clock, a claim and a renewal change which leases have lapsed: a row
\* that ends keeps its expiry.
LEMMA LapsedKept ==
    ASSUME Inv, [Next]_vars, now' = now,
           \A p \in Processes : ~RenewBatch(p) /\ \A l \in LeaseIds : ~ClaimBatch(p, l)
    PROVE  UNCHANGED <<UsedIds, LapsedIds>>
<1>1. ASSUME NEW m \in LeaseIds, Same(m) \/ Ends(m, "released") \/ Ends(m, "revoked")
      PROVE (Issued(m)' <=> Issued(m)) /\ lease'[m].expires = lease[m].expires
  <2>1. Active(m) => lease[m] \in LeaseRow
    BY RowOf DEF Inv, Active, Issued
  <2> QED
    BY <1>1, <2>1 DEF Same, Ends, Active, Issued, LeaseRow
<1>2. ASSUME \A m \in LeaseIds : (Issued(m)' <=> Issued(m)) /\ lease'[m].expires = lease[m].expires
      PROVE UNCHANGED <<UsedIds, LapsedIds>>
  <2>1. \A m \in LeaseIds : Issued(m)' /\ lease'[m].expires <= now'
                          <=> Issued(m) /\ lease[m].expires <= now
    BY <1>2
  <2> QED
    BY <1>2, <2>1 DEF UsedIds, LapsedIds, Issued
<1>3. ASSUME NEW p \in Processes, RecoverBatch(p)
      PROVE UNCHANGED <<UsedIds, LapsedIds>>
  <2>1. \A m \in LeaseIds : lease'[m].expires = lease[m].expires
    BY <1>3, TokenTouches
  <2>2. \A m \in LeaseIds : Issued(m)' <=> Issued(m)
    BY <1>3, TokenRows DEF Same, Moves, Active, Issued
  <2> QED
    BY <1>2, <2>1, <2>2
<1>4. ASSUME UNCHANGED lease
      PROVE UNCHANGED <<UsedIds, LapsedIds>>
  BY <1>2, <1>4 DEF Issued
<1>5. ASSUME NEW p \in Processes, ReleaseBatch(p) \/ RevokeBatch(p)
      PROVE UNCHANGED <<UsedIds, LapsedIds>>
  BY <1>1, <1>2, <1>5, ReleaseRows, RevokeRows
<1>6. ASSUME NEW p \in Processes, NEW reviewed \in BOOLEAN, SubmitBatch(p, reviewed)
      PROVE UNCHANGED <<UsedIds, LapsedIds>>
  BY <1>1, <1>2, <1>6, SubmitRows
<1>7. CASE Expiry
  BY <1>1, <1>2, <1>7, ExpiryRows
<1>8. ASSUME NEW p \in Processes, NEW l \in LeaseIds,
             \/ CancelBatch(p) \/ Approve(p, l) \/ RejectReview(p, l)
             \/ FailJob(l) \/ Settle(l, "applied") \/ Settle(l, "conflicted")
      PROVE UNCHANGED lease
  BY <1>8 DEF CancelBatch, Approve, RejectReview, FailJob, Settle
<1>9. ASSUME NEW l \in LeaseIds,
             FailJob(l) \/ Settle(l, "applied") \/ Settle(l, "conflicted")
      PROVE UNCHANGED lease
  BY <1>9 DEF FailJob, Settle
<1>10. ASSUME NEW p \in Processes, CancelBatch(p)
       PROVE UNCHANGED lease
  BY <1>10 DEF CancelBatch
<1> QED
  BY <1>3, <1>4, <1>5, <1>6, <1>7, <1>8, <1>9, <1>10, StepCases DEF Inv, Quiet

\* A claim acquires the slot of its item: the slot is free, or its lease lapsed
\* before the claim was even admitted.
LEMMA AcquireStep ==
    ASSUME Inv, Inv', [Next]_vars, NEW p \in Processes, NEW l \in LeaseIds, ClaimBatch(p, l)
    PROVE  req[p].item \in Items /\ Abs!Acquire(req[p].item, l)
<1> DEFINE slot == [i \in Items |-> Slot(i)]
<1>1. SlotFacts /\ SlotFacts'
  BY SlotOf, PTL DEF Inv
<1>2. PICK c \in Items : c = req[p].item
  BY ClaimSlot
<1>3. /\ Active(l)' /\ lease'[l].item = c
      /\ \A m \in LeaseIds \ {l} :
           Active(m)' => Active(m) /\ lease'[m].item = lease[m].item /\ lease[m].item # c
      /\ \A m \in LeaseIds \ {l} : Active(m) /\ lease[m].item # c => lease'[m] = lease[m]
  BY <1>2, ClaimSlot
<1>4. ~Issued(l) /\ now' = now
  BY DEF ClaimBatch
<1>5. Slot(c)' = l
  BY <1>1, <1>3 DEF SlotFacts, ActiveOn
<1>6. ASSUME NEW i \in Items, i # c
      PROVE Slot(i)' = Slot(i)
  <2>1. ActiveOn(i)' = ActiveOn(i)
    BY <1>3, <1>4, <1>6 DEF ActiveOn, Active, Issued
  <2> QED
    BY <2>1 DEF Slot
<1>7. slot' = [slot EXCEPT ![c] = l]
  BY <1>3, <1>5, <1>6
<1>8. \A m \in LeaseIds : m # l =>
        (Issued(m)' <=> Issued(m)) /\ lease'[m].expires = lease[m].expires
  <2>1. \A m \in LeaseIds : m # l => Same(m) \/ Ends(m, "revoked")
    BY ClaimRows
  <2>2. \A m \in LeaseIds : Active(m) => lease[m] \in LeaseRow
    BY RowOf DEF Inv, Active, Issued
  <2> QED
    BY <2>1, <2>2 DEF Same, Ends, Active, Issued, LeaseRow
<1>9. UsedIds' = UsedIds \cup {l}
  BY <1>3, <1>8 DEF UsedIds, Active, Issued
<1>10. LapsedIds' = LapsedIds \/ LapsedIds' = LapsedIds \cup {l}
  BY <1>3, <1>4, <1>8 DEF LapsedIds, Active, Issued
<1>11. Slot(c) = NoLease \/ Slot(c) \in LapsedIds
  <2>1. CASE ActiveOn(c) = {}
    BY <1>1, <2>1 DEF SlotFacts
  <2>2. CASE ActiveOn(c) # {}
    <3>1. PICK m : m \in ActiveOn(c)
      BY <2>2
    <3>2. /\ ActiveOn(c) \subseteq {req[p].prior}
          /\ Active(req[p].prior) /\ lease[req[p].prior].expires <= req[p].at
      BY <1>2, <3>1 DEF ClaimBatch, ClaimCommits, SlotFree, PriorEnds
    <3>3. Slot(c) = m /\ m = req[p].prior /\ m \in LeaseIds
      BY <1>1, <3>1, <3>2 DEF SlotFacts, ActiveOn
    <3>4. req[p].at \in Nat /\ req[p].at <= now /\ now \in Nat
      BY RequestOf DEF ClaimBatch, ClaimReq, Inv, RequestInv, TypeOK
    <3>5. lease[m].expires \in Nat
      BY <3>2, <3>3, RowOf DEF Inv, Active, Issued
    <3>6. lease[m].expires <= now
      BY <3>2, <3>3, <3>4, <3>5
    <3> QED
      BY <3>2, <3>3, <3>6 DEF LapsedIds, Active, Issued
  <2> QED
    BY <2>1, <2>2
<1>12. l \notin UsedIds
  BY <1>4 DEF UsedIds
<1> QED
  BY <1>2, <1>7, <1>9, <1>10, <1>11, <1>12 DEF Abs!Acquire

\* A renewal brings back, or lets lapse, the lease that is in its slot.
LEMMA RenewStep ==
    ASSUME Inv, Inv', NEW p \in Processes, RenewBatch(p)
    PROVE  \E i \in Items : Abs!Renew(i)
<1> DEFINE n == req[p].lease
<1>1. n \in LeaseIds /\ Active(n) /\ now' = now
  BY RequestOf DEF RenewBatch, RenewCommits, TokenReq, Live, Inv
<1>2. Issued(n) /\ lease[n].item \in Items
  BY <1>1, RowOf DEF Inv, Active, Issued
<1>3. lease' = [lease EXCEPT ![n].expires =
                  Lesser(req[p].expires + Renewal, lease[n].max)]
  BY Zenon DEF RenewBatch
<1>4. \A m \in LeaseIds : Same(m) \/ Moves(m)
  BY TokenRows
<1> HIDE DEF n
<1>5. \A m \in LeaseIds : (Active(m)' <=> Active(m)) /\ (Issued(m)' <=> Issued(m))
                         /\ lease'[m].item = lease[m].item
  BY <1>4 DEF Same, Moves, Active, Issued
<1>6. \A m \in LeaseIds : m # n => lease'[m] = lease[m]
  BY <1>3 DEF Inv, TypeOK
<1>7. ASSUME NEW i \in Items
      PROVE Slot(i)' = Slot(i)
  <2>1. ActiveOn(i)' = ActiveOn(i)
    BY <1>5 DEF ActiveOn
  <2> QED
    BY <2>1 DEF Slot
<1>8. Slot(lease[n].item) = n
  <2>1. SlotFacts
    BY SlotOf DEF Inv
  <2> QED
    BY <1>1, <1>2, <2>1 DEF SlotFacts, ActiveOn
<1>9. UsedIds' = UsedIds /\ n \in UsedIds
  BY <1>1, <1>2, <1>5 DEF UsedIds
<1>10. LapsedIds' = LapsedIds \ {n} \/ LapsedIds' = LapsedIds \cup {n}
  <2>1. \A m \in LeaseIds : m # n => (m \in LapsedIds' <=> m \in LapsedIds)
    BY <1>1, <1>5, <1>6 DEF LapsedIds, Issued
  <2>2. LapsedIds \subseteq LeaseIds /\ LapsedIds' \subseteq LeaseIds
    BY DEF LapsedIds, Issued
  <2> QED
    BY <1>1, <2>1, <2>2
<1> QED
  BY <1>2, <1>7, <1>8, <1>9, <1>10 DEF Abs!Renew

\* Time passing only lets leases lapse.
LEMMA LapseStep ==
    ASSUME Inv, Tick
    PROVE  \E S \in SUBSET LeaseIds : Abs!Lapse(S)
<1>1. now \in Nat /\ now' = now + 1 /\ UNCHANGED lease
  BY DEF Tick, Inv, TypeOK
<1>2. UNCHANGED <<[i \in Items |-> Slot(i)], UsedIds>>
  BY <1>1 DEF Slot, ActiveOn, Active, UsedIds, Issued
<1>3. \A m \in LeaseIds : Issued(m) => lease[m].expires \in Nat
  BY RowOf DEF Inv
<1>4. LapsedIds \subseteq LapsedIds' /\ LapsedIds' \subseteq UsedIds
  BY <1>1, <1>3 DEF LapsedIds, UsedIds, Issued
<1>5. LapsedIds' \in SUBSET LeaseIds
  BY DEF LapsedIds, Issued
<1>6. ASSUME NEW S, S = LapsedIds'
      PROVE Abs!Lapse(S)
  BY <1>2, <1>4, <1>6 DEF Abs!Lapse
<1> QED
  BY <1>5, <1>6

\* A claim acquires a slot, the clock and renewals move lapses, and every other
\* step vacates some slots, perhaps none.
LEMMA SlotStep == Inv /\ Inv' /\ [Next]_vars => [Abs!Next]_<<[i \in Items |-> Slot(i)], UsedIds, LapsedIds>>
<1> SUFFICES ASSUME Inv, Inv', [Next]_vars
             PROVE  Abs!Next
  OBVIOUS
<1> DEFINE slot == [i \in Items |-> Slot(i)]
<1>1. SlotFacts /\ SlotFacts'
  BY SlotOf, PTL DEF Inv
<1>2. ASSUME NEW p \in Processes, NEW l \in LeaseIds, ClaimBatch(p, l)
      PROVE Abs!Next
  BY <1>2, AcquireStep DEF Abs!Next
<1>3. ASSUME NEW p \in Processes, RenewBatch(p)
      PROVE Abs!Next
  BY <1>3, RenewStep DEF Abs!Next
<1>4. CASE Tick
  BY <1>4, LapseStep DEF Abs!Next
<1>5. ASSUME now' = now,
             \A p \in Processes : ~RenewBatch(p) /\ \A l \in LeaseIds : ~ClaimBatch(p, l)
      PROVE \E S \in SUBSET Items : Abs!Vacate(S)
  <2> DEFINE S == {i \in Items : ActiveOn(i)' = {}}
  <2>0. \A m \in LeaseIds : Active(m)' => Active(m) /\ lease'[m].item = lease[m].item
    BY <1>5, Activation
  <2>1. ASSUME NEW i \in Items
        PROVE Slot(i)' = IF i \in S THEN NoLease ELSE Slot(i)
    <3>1. \A l \in ActiveOn(i)' : l \in ActiveOn(i)
      BY <2>0 DEF ActiveOn
    <3>2. CASE i \in S
      BY <1>1, <3>2 DEF SlotFacts
    <3>3. CASE i \notin S
      <4>1. PICK l : l \in ActiveOn(i)'
        BY <3>3
      <4>2. Slot(i) = l
        BY <1>1, <3>1, <4>1 DEF SlotFacts
      <4>3. Slot(i)' = l
        BY <1>1, <4>1 DEF SlotFacts
      <4> QED
        BY <3>3, <4>2, <4>3
    <3> QED
      BY <3>2, <3>3
  <2>2. UNCHANGED <<UsedIds, LapsedIds>>
    BY <1>5, LapsedKept
  <2> HIDE DEF S
  <2>3. slot' = [i \in Items |-> IF i \in S THEN NoLease ELSE slot[i]]
    BY <2>1
  <2>4. Abs!Vacate(S)
    BY <2>2, <2>3 DEF Abs!Vacate
  <2> QED
    BY <2>4 DEF S
<1>6. now' = now \/ Tick
  BY Clocks DEF Inv
<1> QED
  BY <1>2, <1>3, <1>4, <1>5, <1>6 DEF Abs!Next

\* Leases implement the abstract slot: whatever isolates, sweeps and crashes of
\* commands do, a slot is taken only while it is free or its lease has lapsed,
\* by a lease that never held one, and no lease comes back without its slot.
THEOREM Refinement == Spec => SlotSpec
<1>1. Init => Abs!Init
  BY DEF Init, NoRow, Abs!Init, Slot, ActiveOn, Active, UsedIds, LapsedIds, Issued
<1> QED
  BY <1>1, SlotStep, Invariance, PTL DEF Spec, SlotSpec, Abs!Spec
-----------------------------------------------------------------------------
(* One command at a time.                                                  *)

\* A single isolate, and no request outside its serializer.
OneAtATime == \A p, q \in Processes : p = q

\* What the command in progress found still holds when its batch runs, however
\* the sweep and the coordinator have moved on meanwhile: the lease it renews
\* has not had its item taken, nor will a listed expiry of an earlier lease take
\* it; the one it releases is the only one; the item it cancels has no
\* submission; those it rejects are the only ones of their items.
Undisturbed(r) ==
    /\ r.op = "renew" /\ Active(r.lease) =>
         /\ status[lease[r.lease].item] # "ready"
         /\ \A l \in sweep.todo :
              On(l, lease[r.lease].item) /\ l # r.lease => sweep.at < lease[r.lease].expires
    /\ r.op = "release" => ActiveOn(lease[r.lease].item) \subseteq {r.lease}
    /\ r.op = "cancel" => \A l \in LeaseIds : sub[l] \in InFlight => ~On(l, r.item)
    /\ r.op = "revoke" =>
         /\ r.at <= now
         /\ \A l \in LeaseIds : r.subs[l] # "none" =>
              /\ sub[l] = r.subs[l] \/ sub[l] \in {"applied", "conflicted"}
              /\ \A m \in LeaseIds : sub[m] \in InFlight /\ On(m, lease[l].item) => m = l

Serial ==
    /\ \A p \in Processes : Undisturbed(req[p])
    /\ ReadyIsFree
    /\ InFlightOwnsItem

\* An active lease whose row was kept or ended in a step was kept by it.
LEMMA StillActive ==
    ASSUME Inv, NEW m \in LeaseIds, Active(m)',
           Same(m) \/ Ends(m, "released") \/ Ends(m, "revoked")
    PROVE  Active(m) /\ lease'[m] = lease[m]
<1>1. Active(m) => lease[m] \in LeaseRow
  BY RowOf DEF Inv, Active, Issued
<1>2. ASSUME NEW how \in EndStates, Ends(m, how)
      PROVE FALSE
  BY <1>1, <1>2 DEF Ends, EndStates, Active, LeaseRow
<1> QED
  BY <1>2 DEF Same, Active, EndStates

\* With one command at a time the sweep, the coordinator and the clock are all
\* that moves while a command is between its reads and its batch.
LEMMA Serially ==
    ASSUME Inv, OneAtATime, [Next]_vars, NEW p \in Processes
    PROVE  \/ req'[p].op \notin {"renew", "release", "cancel", "revoke"}
           \/ req'[p] = req[p] /\ (UNCHANGED vars \/ Tick \/ Sweep \/ Outcome)
           \/ \E l \in LeaseIds : RenewRead(p, l) \/ ReleaseRead(p, l)
           \/ \E i \in Items : CancelRead(p, i)
           \/ \E a \in Actors : RevokeRead(p, a)
<1>1. CASE UNCHANGED vars \/ Tick \/ Sweep \/ Outcome
  BY <1>1 DEF vars, Tick, Sweep, SweepList, SweepExpire, Outcome, TakeJob, Settle,
     FailJob, DropJob, RetryJob
<1>2. ASSUME NEW q \in Processes, Batch(q)
      PROVE req'[p].op \notin {"renew", "release", "cancel", "revoke"}
  <2>1. Finish(q) /\ q = p
    BY <1>2, Zenon DEF Batch, ClaimBatch, RenewBatch, RecoverBatch, ReleaseBatch,
       SubmitBatch, CancelBatch, RevokeBatch, Abort, OneAtATime
  <2> QED
    BY <2>1 DEF Finish, Idle, Inv, TypeOK
<1>3. ASSUME NEW q \in Processes, NEW a \in Actors, RevokeRead(q, a)
      PROVE RevokeRead(p, a)
  BY <1>3 DEF OneAtATime
<1>4. ASSUME NEW q \in Isolates, Command(q)
      PROVE \/ req'[p].op \notin {"renew", "release", "cancel", "revoke"}
            \/ \E l \in LeaseIds : RenewRead(p, l) \/ ReleaseRead(p, l)
            \/ \E i \in Items : CancelRead(p, i)
  <2>1. q = p
    BY DEF Processes, OneAtATime
  <2> DEFINE Other == req'[p].op \notin {"renew", "release", "cancel", "revoke"}
  <2>2. ASSUME NEW r, Begin(p, r), r.op \in {"claim", "recover", "submit"}
        PROVE Other
    BY <2>2 DEF Begin, Inv, TypeOK
  <2>3. ASSUME NEW a \in Actors, NEW i \in Items, ClaimRead(p, a, i)
        PROVE Other
    <3>1. PICK f, l : Begin(p, [op |-> "claim", item |-> i, by |-> a, at |-> now,
                                from |-> f, prior |-> l])
      BY <2>3 DEF ClaimRead
    <3> QED
      BY <2>2, <3>1
  <2>4. ASSUME NEW l \in LeaseIds, RecoverRead(p, l) \/ SubmitRead(p, l)
        PROVE Other
    BY <2>2, <2>4 DEF RecoverRead, TokenRead, SubmitRead
  <2>5. ASSUME NEW l \in LeaseIds, LazilyExpire(p, l) \/ Approve(p, l) \/ RejectReview(p, l)
        PROVE Other
    BY <2>5 DEF LazilyExpire, Approve, RejectReview, Idle
  <2> HIDE DEF Other
  <2>6. Command(p)
    BY <1>4, <2>1
  <2>7. \/ Other \/ \E l \in LeaseIds : RenewRead(p, l) \/ ReleaseRead(p, l)
        \/ \E i \in Items : CancelRead(p, i)
    BY <2>3, <2>4, <2>5, <2>6 DEF Command
  <2> QED
    BY <2>7 DEF Other
<1> QED
  BY <1>1, <1>2, <1>3, <1>4 DEF Next

\* No step offers an item somebody still holds: a claim takes it off the queue, a
\* renewal works on an item that is not on it, and whatever puts an item back
\* finds its slot empty, or expired at an instant that has passed.
LEMMA ReadyStep ==
    ASSUME Inv, Serial, OneAtATime, [Next]_vars
    PROVE  ReadyIsFree'
<1> SUFFICES ASSUME NEW i \in Items, NEW l \in LeaseIds, status'[i] = "ready",
                    Active(l)', lease'[l].item = i, lease'[l].expires > now'
             PROVE  FALSE
  BY DEF ReadyIsFree, On, Live, Active, Issued
<1>1. /\ now \in Nat /\ now' \in Nat /\ now <= now'
      /\ lease'[l] \in LeaseRow /\ lease'[l].expires \in Nat
  <2>1. TypeOK'
    BY TypeStep DEF Inv
  <2> QED
    BY <2>1, Clocks DEF Inv, TypeOK, Active, LeaseRow, NoRow
<1>2. ASSUME status[i] = "ready", Active(l), lease[l].item = i,
             lease[l].expires = lease'[l].expires
      PROVE FALSE
  <2>1. lease[l].expires > now
    BY <1>1, <1>2
  <2> QED
    BY <1>2, <2>1 DEF Serial, ReadyIsFree, On, Live, Active, Issued
<1>3. ASSUME Active(l), lease'[l] = lease[l], status[i] = "ready"
      PROVE FALSE
  BY <1>2, <1>3
<1>4. CASE Quiet
  BY <1>3, <1>4 DEF Quiet, Active
<1>5. ASSUME NEW p \in Processes, NEW m \in LeaseIds, ClaimBatch(p, m)
      PROVE FALSE
  <2>1. status' = [status EXCEPT ![req[p].item] = "leased"] /\ req[p].item \in Items
    BY <1>5, ClaimSlot DEF ClaimBatch
  <2>2. i # req[p].item /\ status[i] = "ready"
    BY <2>1 DEF Inv, TypeOK
  <2>3. l # m /\ Active(l) /\ lease'[l] = lease[l]
    BY <1>5, <2>2, ClaimSlot
  <2> QED
    BY <1>3, <2>2, <2>3
<1>6. ASSUME NEW p \in Processes, RenewBatch(p) \/ RecoverBatch(p)
      PROVE FALSE
  <2>1. status[i] = "ready"
    BY <1>6, TokenRows
  <2>2. Active(l) /\ lease'[l].item = lease[l].item
    BY <1>6, TokenTouches
  <2>3. CASE RenewBatch(p) /\ l = req[p].lease
    <3>1. Undisturbed(req[p]) /\ req[p].op = "renew"
      BY <2>3 DEF Serial, RenewBatch
    <3> QED
      BY <2>1, <2>2, <2>3, <3>1 DEF Undisturbed
  <2> QED
    BY <1>2, <1>6, <2>1, <2>2, <2>3, TokenTouches
<1>7. ASSUME NEW p \in Processes, ReleaseBatch(p)
      PROVE FALSE
  <2> DEFINE r == req[p]
  <2>1. Active(l) /\ lease'[l] = lease[l]
    BY <1>7, ReleaseRows, StillActive
  <2>2. r.lease \in LeaseIds /\ Issued(r.lease)
    BY <1>7, RequestOf DEF ReleaseBatch, ReleaseReq, Inv, RequestInv
  <2>3. lease[r.lease] \in LeaseRow /\ lease[r.lease].item \in Items
    BY <2>2, RowOf DEF Inv
  <2>4. ActiveOn(lease[r.lease].item) \subseteq {r.lease}
    BY <1>7 DEF Serial, Undisturbed, ReleaseBatch
  <2>5. /\ status' = [status EXCEPT ![lease[r.lease].item] = "ready"]
        /\ lease' = IF Active(r.lease)
                    THEN [lease EXCEPT ![r.lease].st = "released"] ELSE lease
    BY <1>7, Zenon DEF ReleaseBatch
  <2> HIDE DEF r
  <2>6. i = lease[r.lease].item
    BY <1>3, <2>1, <2>3, <2>5 DEF Inv, TypeOK
  <2>7. l = r.lease
    BY <2>1, <2>4, <2>6 DEF ActiveOn
  <2>8. lease'[l] = [lease[l] EXCEPT !.st = "released"]
    BY <2>1, <2>5, <2>7 DEF Inv, TypeOK
  <2> QED
    BY <2>1, <2>3, <2>7, <2>8 DEF Active, LeaseRow
<1>8. ASSUME NEW p \in Processes, NEW reviewed \in BOOLEAN, SubmitBatch(p, reviewed)
      PROVE FALSE
  <2>1. /\ req[p].lease \in LeaseIds
        /\ Same(l) \/ Ends(l, "released")
    BY <1>8, SubmitRows
  <2>2. Active(l) /\ lease'[l] = lease[l]
    BY <2>1, StillActive
  <2>3. status' = [status EXCEPT ![lease[req[p].lease].item] =
                     IF reviewed THEN "submitted" ELSE "applying"]
    BY <1>8, Zenon DEF SubmitBatch
  <2>4. status[i] = "ready"
    BY <2>3 DEF Inv, TypeOK
  <2> QED
    BY <1>3, <2>2, <2>4
<1>9. ASSUME NEW p \in Processes, CancelBatch(p)
      PROVE FALSE
  <2>1. status[i] = "ready" /\ lease' = lease
    BY <1>9 DEF CancelBatch, Inv, TypeOK
  <2> QED
    BY <1>3, <2>1 DEF Active
<1>10. ASSUME NEW p \in Processes, RevokeBatch(p)
       PROVE FALSE
  <2> DEFINE r == req[p]
  <2>1. Active(l) /\ lease'[l] = lease[l]
    BY <1>10, RevokeRows, StillActive
  <2>2. lease'[l] = IF l \in r.held /\ Active(l)
                    THEN [lease[l] EXCEPT !.st = "revoked"] ELSE lease[l]
    BY <1>10, Zenon DEF RevokeBatch
  <2>3. status'[i] = IF RevokedItem(r, i) THEN "ready" ELSE status[i]
    BY <1>10, Zenon DEF RevokeBatch
  <2>4. r.at <= now /\ r \in RevokeReq
    BY <1>10, RequestOf DEF Serial, Undisturbed, RevokeBatch, Inv
  <2> HIDE DEF r
  <2>5. l \notin r.held
    <3>1. lease[l] \in LeaseRow
      BY <2>1, RowOf DEF Inv, Active, Issued
    <3> QED
      BY <2>1, <2>2, <3>1 DEF Active, LeaseRow
  <2>6. RevokedItem(r, i)
    BY <1>3, <2>1, <2>3
  <2>7. l \in ActiveOn(i)
    BY <2>1 DEF ActiveOn
  <2>8. ~Live(l, r.at)
    BY <2>5, <2>6, <2>7 DEF RevokedItem, Inv, PendingItemHasNoLease
  <2> QED
    BY <1>1, <2>1, <2>4, <2>8 DEF Live, RevokeReq
<1>11. CASE Expiry
  <2>1. PICK m \in LeaseIds, at \in Nat : at <= now /\ Issued(m) /\ Expire(m, at)
    BY <1>11 DEF Expiry
  <2>2. Active(l) /\ lease'[l] = lease[l]
    BY <1>11, ExpiryRows, StillActive
  <2>3. \/ status'[i] = status[i]
        \/ i = lease[m].item /\ \A n \in ActiveOn(i) : ~Live(n, at)
    BY <2>1 DEF Expire, Inv, TypeOK
  <2>4. ~Live(l, at)
    BY <1>3, <2>2, <2>3 DEF ActiveOn
  <2> QED
    BY <1>1, <2>1, <2>2, <2>4 DEF Live
<1>12. ASSUME NEW p \in Processes, NEW m \in LeaseIds, Approve(p, m) \/ RejectReview(p, m)
       PROVE FALSE
  <2>1. Active(l) /\ lease'[l] = lease[l]
    BY <1>12 DEF Approve, RejectReview, Active
  <2>2. status[i] \in {"ready", "submitted"}
    BY <1>12 DEF Approve, RejectReview, Inv, TypeOK
  <2>3. status[i] # "submitted"
    BY <2>1 DEF Inv, PendingItemHasNoLease, ActiveOn
  <2> QED
    BY <1>3, <2>1, <2>2, <2>3
<1>13. ASSUME NEW m \in LeaseIds,
              FailJob(m) \/ Settle(m, "applied") \/ Settle(m, "conflicted")
       PROVE FALSE
  <2>1. status[i] = "ready" /\ lease' = lease
    BY <1>13 DEF FailJob, Settle, Inv, TypeOK
  <2> QED
    BY <1>3, <2>1 DEF Active
<1> QED
  BY <1>4, <1>5, <1>6, <1>7, <1>8, <1>9, <1>10, <1>11, <1>12, <1>13, StepCases DEF Inv

\* A row the drain carried on with after its submission was rejected stays one
\* that was: the only revocation that could fail it again was the one that did.
LEMMA OverranStays ==
    ASSUME Inv, Serial, [Next]_vars, NEW l \in LeaseIds, Overran(l)
    PROVE  Overran(l)'
<1> DEFINE Kept == {"pending", "held", "failed", "done"}
<1> SUFFICES sub'[l] = "rejected" /\ job'[l] \in Kept
  BY DEF Overran
<1>1. sub[l] = "rejected" /\ job[l] \in Kept
  BY DEF Overran
<1>2. ASSUME UNCHANGED <<sub, job>>
      PROVE sub'[l] = "rejected" /\ job'[l] \in Kept
  BY <1>1, <1>2
<1>3. CASE UNCHANGED vars \/ Tick \/ Sweep
  BY <1>2, <1>3 DEF vars, Tick, Sweep, SweepList, SweepExpire
<1>4. ASSUME NEW p \in Processes, NEW a \in Actors, RevokeRead(p, a)
      PROVE sub'[l] = "rejected" /\ job'[l] \in Kept
  BY <1>2, <1>4 DEF RevokeRead
<1>5. CASE Outcome
  BY <1>1, <1>5 DEF Outcome, TakeJob, Settle, FailJob, DropJob, RetryJob, InHand, Inv, TypeOK
<1>6. ASSUME NEW p \in Isolates, Command(p)
      PROVE sub'[l] = "rejected" /\ job'[l] \in Kept
  <2>1. \/ UNCHANGED <<sub, job>>
        \/ \E m \in LeaseIds : Approve(p, m) \/ RejectReview(p, m)
    BY <1>6 DEF Command, ClaimRead, CancelRead, RenewRead, RecoverRead, TokenRead,
       ReleaseRead, SubmitRead, LazilyExpire
  <2> QED
    BY <1>1, <1>2, <2>1 DEF Approve, RejectReview, Inv, TypeOK
<1>7. ASSUME NEW p \in Processes, Batch(p)
      PROVE sub'[l] = "rejected" /\ job'[l] \in Kept
  <2>1. CASE RevokeBatch(p)
    <3>1. /\ sub'[l] = IF req[p].subs[l] # "none" /\ sub[l] = req[p].subs[l]
                      THEN "rejected" ELSE sub[l]
          /\ job'[l] = IF req[p].subs[l] = "applying" THEN Stopped(job[l]) ELSE job[l]
      BY <2>1, Zenon DEF RevokeBatch
    <3>2. req[p].subs[l] # "applying"
      BY <1>1, <2>1 DEF RevokeBatch, Serial, Undisturbed
    <3> QED
      BY <1>1, <3>1, <3>2
  <2>2. ASSUME NEW reviewed \in BOOLEAN, SubmitBatch(p, reviewed)
        PROVE sub'[l] = "rejected" /\ job'[l] \in Kept
    <3>1. /\ Active(req[p].lease)
          /\ \E v : sub' = [sub EXCEPT ![req[p].lease] = v]
          /\ \E v : job' = [job EXCEPT ![req[p].lease] = v]
      BY <2>2, Zenon DEF SubmitBatch, SubmitCommits, Live
    <3>2. l # req[p].lease
      BY <1>1, <3>1 DEF Inv, SubmissionSpendsLease, Active
    <3> QED
      BY <1>1, <3>1, <3>2 DEF Inv, TypeOK
  <2>3. ASSUME NEW m \in LeaseIds, ClaimBatch(p, m)
        PROVE sub'[l] = "rejected" /\ job'[l] \in Kept
    BY <1>2, <2>3 DEF ClaimBatch
  <2>4. ASSUME \/ RenewBatch(p) \/ RecoverBatch(p) \/ ReleaseBatch(p) \/ CancelBatch(p)
               \/ Abort(p)
        PROVE sub'[l] = "rejected" /\ job'[l] \in Kept
    BY <1>2, <2>4 DEF RenewBatch, RecoverBatch, ReleaseBatch, CancelBatch, Abort
  <2> QED
    BY <1>7, <2>1, <2>2, <2>3, <2>4 DEF Batch
<1> QED
  BY <1>3, <1>4, <1>5, <1>6, <1>7 DEF Next

\* After the step a row was carried on with for this item.
StaysOverrun(i) == \E n \in LeaseIds : Overran(n)' /\ Issued(n)' /\ lease'[n].item = i

\* A submission in flight keeps its item: no command moves an item that awaits
\* one but those that decide it, and the drain settles no other item than that of
\* the submission it holds, which is in flight itself or was overrun.
LEMMA OwnStep ==
    ASSUME Inv, Serial, OneAtATime, [Next]_vars
    PROVE  InFlightOwnsItem'
<1> DEFINE Kept(i, v) == \/ status[i] = Due(v)
                         \/ status[i] \in {"completed", "conflict"} /\ Overrun(i)
<1>1. \A l \in LeaseIds : sub[l] \in InFlight =>
        /\ Issued(l) /\ lease'[l].item = lease[l].item /\ lease[l].item \in Items
        /\ Kept(lease[l].item, sub[l])
  BY RowsPersist, RowOf DEF Inv, RequestInv, Serial, InFlightOwnsItem, InFlight
<1>2. \A l, m \in LeaseIds :
        sub[l] \in InFlight /\ sub[m] \in InFlight /\ lease[m].item = lease[l].item => l = m
  BY <1>1 DEF Serial, InFlightOwnsItem, On
<1>3. \A i : Overrun(i) => StaysOverrun(i)
  BY OverranStays, RowsPersist DEF Overrun, StaysOverrun, On
<1>4. \A l \in LeaseIds : sub[l] \in InFlight =>
        status[lease[l].item] \in {"submitted", "applying", "completed", "conflict"}
  BY <1>1 DEF Due
<1>5. ASSUME \A l \in LeaseIds : sub'[l] \in InFlight =>
               /\ \/ status'[lease'[l].item] = Due(sub'[l])
                  \/ status'[lease'[l].item] \in {"completed", "conflict"} /\ StaysOverrun(lease'[l].item)
               /\ \A m \in LeaseIds :
                    sub'[m] \in InFlight /\ Issued(m)' /\ lease'[m].item = lease'[l].item => l = m
      PROVE InFlightOwnsItem'
  BY <1>5 DEF InFlightOwnsItem, On, Overrun, StaysOverrun
<1> HIDE DEF Kept
<1>6. ASSUME \A l \in LeaseIds : sub'[l] \in InFlight =>
               sub[l] = sub'[l] /\ status'[lease[l].item] = status[lease[l].item]
      PROVE InFlightOwnsItem'
  BY <1>1, <1>2, <1>3, <1>5, <1>6 DEF Kept
<1>7. ASSUME NEW i, NEW v, sub' = sub, status' = [status EXCEPT ![i] = v],
             \A l \in LeaseIds : sub[l] \in InFlight => lease[l].item # i
      PROVE InFlightOwnsItem'
  BY <1>1, <1>6, <1>7 DEF Inv, TypeOK
<1>8. CASE Quiet
  BY <1>6, <1>8 DEF Quiet
<1>9. ASSUME NEW p \in Processes, NEW m \in LeaseIds, ClaimBatch(p, m)
      PROVE InFlightOwnsItem'
  <2>1. req[p].from \in {"ready", "leased"}
    BY <1>9, RequestOf DEF ClaimBatch, ClaimReq, Inv
  <2>2. /\ status[req[p].item] = req[p].from /\ sub' = sub
        /\ status' = [status EXCEPT ![req[p].item] = "leased"]
    BY <1>9 DEF ClaimBatch, ClaimCommits
  <2>3. \A l \in LeaseIds : sub[l] \in InFlight => lease[l].item # req[p].item
    BY <1>4, <2>1, <2>2
  <2> QED
    BY <1>7, <2>2, <2>3
<1>10. ASSUME NEW p \in Processes, RenewBatch(p) \/ RecoverBatch(p)
       PROVE InFlightOwnsItem'
  BY <1>6, <1>10, TokenRows
<1>11. ASSUME NEW p \in Processes, ReleaseBatch(p)
       PROVE InFlightOwnsItem'
  <2>1. /\ status[lease[req[p].lease].item] = "leased" /\ sub' = sub
        /\ status' = [status EXCEPT ![lease[req[p].lease].item] = "ready"]
    BY <1>11, Zenon DEF ReleaseBatch, ReleaseCommits
  <2>2. \A l \in LeaseIds : sub[l] \in InFlight => lease[l].item # lease[req[p].lease].item
    BY <1>4, <2>1
  <2> QED
    BY <1>7, <2>1, <2>2
<1>12. ASSUME NEW p \in Processes, NEW reviewed \in BOOLEAN, SubmitBatch(p, reviewed)
       PROVE InFlightOwnsItem'
  <2> DEFINE s == req[p].lease
             how == IF reviewed THEN "received" ELSE "applying"
  <2>1. s \in LeaseIds /\ Active(s) /\ \A m \in LeaseIds \ {s} : sub'[m] = sub[m]
    BY <1>12, SubmitRows
  <2>2. /\ sub' = [sub EXCEPT ![s] = how]
        /\ status' = [status EXCEPT ![lease[s].item] = Due(how)]
        /\ status[lease[s].item] = "leased"
    BY <1>12 DEF SubmitBatch, SubmitCommits, Due
  <2>3. Issued(s) /\ lease[s].item \in Items /\ lease'[s].item = lease[s].item
    BY <2>1, RowOf, RowsPersist DEF Active, Issued, Inv
  <2> HIDE DEF s, how
  <2>4. sub'[s] = how /\ status'[lease'[s].item] = Due(how)
    BY <2>1, <2>2, <2>3 DEF Inv, TypeOK
  <2>5. ASSUME NEW l \in LeaseIds, l # s, sub'[l] \in InFlight
        PROVE /\ sub[l] \in InFlight /\ sub'[l] = sub[l]
              /\ lease'[l].item = lease[l].item /\ lease[l].item # lease[s].item
              /\ status'[lease[l].item] = status[lease[l].item]
    <3>1. sub[l] \in InFlight /\ sub'[l] = sub[l]
      BY <2>1, <2>5
    <3>2. lease'[l].item = lease[l].item /\ lease[l].item # lease[s].item
      BY <1>1, <1>4, <2>2, <3>1
    <3>3. status'[lease[l].item] = status[lease[l].item]
      BY <1>1, <2>2, <3>1, <3>2 DEF Inv, TypeOK
    <3> QED
      BY <1>1, <3>1, <3>2, <3>3
  <2>6. ASSUME NEW l \in LeaseIds, l # s, sub'[l] \in InFlight
        PROVE \/ status'[lease'[l].item] = Due(sub'[l])
              \/ status'[lease'[l].item] \in {"completed", "conflict"} /\ StaysOverrun(lease'[l].item)
    BY <1>1, <1>3, <2>5, <2>6 DEF Kept
  <2> QED
    BY <1>2, <1>5, <2>3, <2>4, <2>5, <2>6
<1>13. ASSUME NEW p \in Processes, CancelBatch(p)
       PROVE InFlightOwnsItem'
  <2>1. /\ req[p].op = "cancel" /\ sub' = sub
        /\ status' = [status EXCEPT ![req[p].item] = "cancelled"]
    BY <1>13 DEF CancelBatch
  <2>2. \A l \in LeaseIds : sub[l] \in InFlight => lease[l].item # req[p].item
    BY <1>1, <2>1 DEF Serial, Undisturbed, On
  <2> QED
    BY <1>7, <2>1, <2>2
<1>14. ASSUME NEW p \in Processes, RevokeBatch(p)
       PROVE InFlightOwnsItem'
  <2> DEFINE r == req[p]
  <2>1. /\ sub' = [l \in LeaseIds |->
                     IF r.subs[l] # "none" /\ sub[l] = r.subs[l] THEN "rejected" ELSE sub[l]]
        /\ status' = [i \in Items |-> IF RevokedItem(r, i) THEN "ready" ELSE status[i]]
    BY <1>14, Zenon DEF RevokeBatch
  <2>2. \A l \in LeaseIds : r.subs[l] # "none" =>
          /\ sub[l] \in InFlight => sub[l] = r.subs[l]
          /\ \A m \in LeaseIds : sub[m] \in InFlight /\ On(m, lease[l].item) => m = l
    BY <1>14 DEF RevokeBatch, Serial, Undisturbed, InFlight
  <2> HIDE DEF r
  <2>3. ASSUME NEW l \in LeaseIds, sub'[l] \in InFlight
        PROVE sub[l] = sub'[l] /\ status'[lease[l].item] = status[lease[l].item]
    <3>1. sub[l] = sub'[l] /\ sub[l] \in InFlight /\ r.subs[l] = "none"
      BY <2>1, <2>2, <2>3 DEF InFlight
    <3>2. ~RevokedItem(r, lease[l].item)
      BY <1>1, <1>4, <2>2, <3>1 DEF RevokedItem, On
    <3> QED
      BY <1>1, <2>1, <3>1, <3>2
  <2> QED
    BY <1>6, <2>3
<1>15. CASE Expiry
  <2>1. PICK m \in LeaseIds, at \in Nat : Expire(m, at) /\ sub' = sub
    BY <1>15 DEF Expiry
  <2>2. \/ status' = status
        \/ /\ status[lease[m].item] = "leased"
           /\ status' = [status EXCEPT ![lease[m].item] = "ready"]
    BY <2>1, Zenon DEF Expire
  <2>3. \A l \in LeaseIds : sub[l] \in InFlight => status'[lease[l].item] = status[lease[l].item]
    BY <1>1, <1>4, <2>2 DEF Inv, TypeOK
  <2> QED
    BY <1>6, <2>1, <2>3
<1>16. ASSUME NEW m \in LeaseIds, NEW v, NEW w, sub[m] \in InFlight,
              sub' = [sub EXCEPT ![m] = v],
              status' = [status EXCEPT ![lease[m].item] = w],
              v \in InFlight => w = Due(v)
       PROVE InFlightOwnsItem'
  <2>1. sub'[m] = v /\ status'[lease[m].item] = w /\ lease'[m].item = lease[m].item
    BY <1>1, <1>16 DEF Inv, TypeOK
  <2>2. ASSUME NEW l \in LeaseIds, l # m, sub'[l] \in InFlight
        PROVE /\ sub[l] \in InFlight /\ sub'[l] = sub[l]
              /\ lease'[l].item = lease[l].item /\ lease[l].item # lease[m].item
              /\ status'[lease[l].item] = status[lease[l].item]
    <3>1. sub[l] \in InFlight /\ sub'[l] = sub[l]
      BY <1>16, <2>2 DEF Inv, TypeOK
    <3>2. lease'[l].item = lease[l].item /\ lease[l].item # lease[m].item
      BY <1>1, <1>2, <1>16, <2>2, <3>1
    <3>3. status'[lease[l].item] = status[lease[l].item]
      BY <1>1, <1>16, <3>1, <3>2 DEF Inv, TypeOK
    <3> QED
      BY <1>1, <3>1, <3>2, <3>3
  <2>3. ASSUME NEW l \in LeaseIds, l # m, sub'[l] \in InFlight
        PROVE \/ status'[lease'[l].item] = Due(sub'[l])
              \/ status'[lease'[l].item] \in {"completed", "conflict"} /\ StaysOverrun(lease'[l].item)
    BY <1>1, <1>3, <2>2, <2>3 DEF Kept
  <2> QED
    BY <1>2, <1>5, <1>16, <2>1, <2>2, <2>3
<1>17. ASSUME NEW p \in Processes, NEW m \in LeaseIds, Approve(p, m)
       PROVE InFlightOwnsItem'
  <2>1. /\ sub[m] \in InFlight /\ sub' = [sub EXCEPT ![m] = "applying"]
        /\ status' = [status EXCEPT ![lease[m].item] = "applying"]
    BY <1>17 DEF Approve, InFlight
  <2>2. Due("applying") = "applying"
    BY DEF Due
  <2> QED
    BY <1>16, <2>1, <2>2
<1>18. ASSUME NEW p \in Processes, NEW m \in LeaseIds, RejectReview(p, m)
       PROVE InFlightOwnsItem'
  <2>1. /\ sub[m] \in InFlight /\ sub' = [sub EXCEPT ![m] = "rejected"]
        /\ status' = [status EXCEPT ![lease[m].item] = "ready"]
    BY <1>18 DEF RejectReview, InFlight
  <2>2. "rejected" \notin InFlight
    BY DEF InFlight
  <2> QED
    BY <1>16, <2>1, <2>2
<1>19. ASSUME NEW n \in LeaseIds,
              FailJob(n) \/ Settle(n, "applied") \/ Settle(n, "conflicted")
       PROVE InFlightOwnsItem'
  <2> DEFINE Ended == {"completed", "conflict"}
  <2>1. /\ InHand(n) /\ job'[n] \in {"done", "failed"} /\ UNCHANGED lease
        /\ \A l \in LeaseIds : sub'[l] \in InFlight => sub[l] = sub'[l]
    BY <1>19 DEF FailJob, Settle, InFlight, Inv, TypeOK
  <2>2. sub[n] \in {"applying", "applied", "conflicted", "rejected"}
    BY <2>1 DEF InHand, Inv, JobsHaveSubmissions, TypeOK, SubStates
  <2>3. Issued(n) /\ lease[n].item \in Items
    BY <2>2, RowOf DEF Inv, RequestInv
  <2>4. \/ status' = status
        \/ \E w \in Ended : status' = [status EXCEPT ![lease[n].item] = w]
    BY <1>19 DEF FailJob, Settle
  <2>5. ASSUME NEW l \in LeaseIds, sub'[l] \in InFlight
        PROVE \/ status'[lease[l].item] = status[lease[l].item]
              \/ status'[lease[l].item] \in Ended /\ StaysOverrun(lease[l].item)
    <3>1. sub[l] \in InFlight /\ lease[l].item \in Items /\ Kept(lease[l].item, sub[l])
      BY <1>1, <2>1, <2>5
    <3>2. CASE lease[l].item # lease[n].item
      BY <2>4, <3>1, <3>2 DEF Inv, TypeOK
    <3>3. CASE lease[l].item = lease[n].item /\ status' # status
      <4>1. status'[lease[l].item] \in Ended
        BY <2>3, <2>4, <3>3 DEF Inv, TypeOK
      <4>2. CASE sub[n] = "applying"
        <5>1. l = n
          BY <1>2, <3>1, <3>3, <4>2 DEF InFlight
        <5>2. sub'[n] \in {"applied", "conflicted"}
          BY <1>19, <3>3, <4>2 DEF FailJob, Settle, Inv, TypeOK
        <5> QED
          BY <2>5, <5>1, <5>2 DEF InFlight
      <4>3. CASE sub[n] \in {"applied", "conflicted"}
        <5>1. status[lease[l].item] \in Over
          BY <3>3, <4>3 DEF Inv, SettledForGood
        <5>2. Overrun(lease[l].item)
          BY <3>1, <5>1 DEF Kept, Due, Over
        <5> QED
          BY <1>3, <4>1, <5>2
      <4>4. CASE sub[n] = "rejected"
        <5>1. sub'[n] = "rejected"
          BY <1>19, <4>4 DEF FailJob, Settle, Inv, TypeOK
        <5>2. Overran(n)' /\ Issued(n)' /\ lease'[n].item = lease[l].item
          BY <2>1, <2>3, <3>3, <5>1 DEF Overran, Issued
        <5>3. StaysOverrun(lease[l].item)
          BY <5>2 DEF StaysOverrun
        <5> QED
          BY <4>1, <5>3
      <4> QED
        BY <2>2, <4>2, <4>3, <4>4
    <3> QED
      BY <3>2, <3>3
  <2>6. ASSUME NEW l \in LeaseIds, sub'[l] \in InFlight
        PROVE \/ status'[lease'[l].item] = Due(sub'[l])
              \/ status'[lease'[l].item] \in {"completed", "conflict"} /\ StaysOverrun(lease'[l].item)
    <3>1. sub[l] = sub'[l] /\ lease'[l].item = lease[l].item /\ Kept(lease[l].item, sub[l])
      BY <1>1, <2>1, <2>6
    <3> QED
      BY <1>3, <2>5, <2>6, <3>1 DEF Kept
  <2> QED
    BY <1>2, <1>5, <2>1, <2>6
<1> QED
  BY <1>8, <1>9, <1>10, <1>11, <1>12, <1>13, <1>14, <1>15, <1>17, <1>18, <1>19, StepCases
  DEF Inv

\* Nothing that may happen while a command is between its reads and its batch
\* takes away what its reads found; and its reads find it.
LEMMA UndisturbedStep ==
    ASSUME Inv, Serial, OneAtATime, [Next]_vars, NEW p \in Processes
    PROVE  Undisturbed(req[p])'
<1> DEFINE r == req'[p]
<1>1. /\ now \in Nat /\ now' \in Nat /\ now <= now' /\ sweep.at \in Nat /\ sweep.at <= now
      /\ sweep.todo \subseteq LeaseIds /\ \A l \in sweep.todo : Issued(l)
  BY Clocks DEF Inv, TypeOK, RequestInv
<1>2. CASE r.op \notin {"renew", "release", "cancel", "revoke"}
  BY <1>2 DEF Undisturbed
<1>3. ASSUME UNCHANGED <<now, status, lease, sub, sweep>>, Undisturbed(req'[p])
      PROVE Undisturbed(req[p])'
  BY <1>3 DEF Undisturbed, Active, ActiveOn, On, Issued
<1>4. ASSUME NEW l \in LeaseIds, RenewRead(p, l)
      PROVE Undisturbed(req[p])'
  <2>1. req'[p] = [op |-> "renew", lease |-> l, at |-> now,
                   tok |-> lease[l].tok, expires |-> lease[l].expires]
    BY <1>4 DEF RenewRead, TokenRead, Begin, Inv, TypeOK
  <2>2. Live(l, now) /\ Issued(l) /\ lease[l].item \in Items /\ lease[l].expires \in Nat
    BY <1>4, RowOf DEF RenewRead, TokenRead, Inv
  <2>3. status[lease[l].item] # "ready"
    BY <2>2 DEF Serial, ReadyIsFree, On
  <2>4. sweep.at < lease[l].expires
    BY <1>1, <2>2 DEF Live
  <2>5. Undisturbed(req'[p])
    BY <2>1, <2>3, <2>4 DEF Undisturbed
  <2> QED
    BY <1>3, <1>4, <2>5 DEF RenewRead, TokenRead
<1>5. ASSUME NEW l \in LeaseIds, ReleaseRead(p, l)
      PROVE Undisturbed(req[p])'
  <2>1. req'[p] = [op |-> "release", lease |-> l] /\ Live(l, now)
    BY <1>5 DEF ReleaseRead, Begin, Inv, TypeOK
  <2>2. ActiveOn(lease[l].item) \subseteq {l}
    BY <2>1, RowOf DEF ActiveOn, Live, Active, Issued, On, Inv, OneActiveLease
  <2>3. Undisturbed(req'[p])
    BY <2>1, <2>2 DEF Undisturbed
  <2> QED
    BY <1>3, <1>5, <2>3 DEF ReleaseRead
<1>6. ASSUME NEW i \in Items, CancelRead(p, i)
      PROVE Undisturbed(req[p])'
  <2>1. req'[p] = [op |-> "cancel", item |-> i] /\ status[i] = "ready"
    BY <1>6 DEF CancelRead, Begin, Inv, TypeOK
  <2>2. \A l \in LeaseIds : sub[l] \in InFlight => ~On(l, i)
    BY <2>1 DEF Serial, InFlightOwnsItem, Due, On
  <2>3. Undisturbed(req'[p])
    BY <2>1, <2>2 DEF Undisturbed
  <2> QED
    BY <1>3, <1>6, <2>3 DEF CancelRead
<1>7. ASSUME NEW a \in Actors, RevokeRead(p, a)
      PROVE Undisturbed(req[p])'
  <2> DEFINE listed == [l \in LeaseIds |-> IF l \in InFlightOf(a) THEN sub[l] ELSE "none"]
  <2>1. req'[p] = [op |-> "revoke", by |-> a, at |-> now,
                   held |-> {l \in LeaseIds : Active(l) /\ lease[l].holder = a},
                   subs |-> listed]
    BY <1>7 DEF RevokeRead, Begin, Inv, TypeOK
  <2>2. \A l \in LeaseIds : listed[l] # "none" => listed[l] = sub[l] /\ sub[l] \in InFlight
    BY DEF InFlightOf
  <2> HIDE DEF listed
  <2>3. \A l \in LeaseIds : listed[l] # "none" =>
          /\ sub[l] = listed[l]
          /\ \A m \in LeaseIds : sub[m] \in InFlight /\ On(m, lease[l].item) => m = l
    BY <2>2 DEF Serial, InFlightOwnsItem
  <2>4. Undisturbed(req'[p])
    BY <1>1, <2>1, <2>3 DEF Undisturbed
  <2> QED
    BY <1>3, <1>7, <2>4 DEF RevokeRead
<1>8. CASE req'[p] = req[p] /\ (UNCHANGED vars \/ Tick \/ Sweep \/ Outcome)
  <2>1. Undisturbed(req[p])
    BY DEF Serial
  <2>2. CASE UNCHANGED vars \/ Tick
    <3>1. UNCHANGED <<status, lease, sub, sweep, req>>
      BY <2>2 DEF vars, Tick
    <3>2. req[p].op = "revoke" => req[p].at \in Nat
      BY RequestOf DEF Inv, RevokeReq
    <3> QED
      BY <1>1, <2>1, <3>1, <3>2 DEF Undisturbed, Active, ActiveOn, On, Issued
  <2>3. CASE SweepList
    <3>1. /\ UNCHANGED <<now, status, lease, sub, req>>
          /\ \A l \in sweep'.todo : l \in LeaseIds /\ Active(l)
      BY <2>3 DEF SweepList
    <3>2. req[p].op = "renew" => req[p].lease \in LeaseIds
      BY RequestOf DEF Inv, TokenReq
    <3>3. ASSUME req[p].op = "renew", Active(req[p].lease), NEW l \in sweep'.todo,
                 On(l, lease[req[p].lease].item)
          PROVE l = req[p].lease
      <4>1. lease[req[p].lease].item \in Items /\ Issued(req[p].lease)
        BY <3>2, <3>3, RowOf DEF Inv, Active, Issued
      <4> QED
        BY <3>1, <3>2, <3>3, <4>1 DEF Inv, OneActiveLease, On
    <3> QED
      BY <2>1, <3>1, <3>3 DEF Undisturbed, Active, ActiveOn, On, Issued
  <2>4. ASSUME NEW l \in LeaseIds, SweepExpire(l)
        PROVE Undisturbed(req[p])'
    <3>1. /\ UNCHANGED <<now, sub, req>> /\ Expire(l, sweep.at) /\ l \in sweep.todo
          /\ sweep'.at = sweep.at /\ sweep'.todo \subseteq sweep.todo /\ Issued(l)
      BY <1>1, <2>4 DEF SweepExpire, Inv, TypeOK
    <3>2. \A m \in LeaseIds : Active(m)' => Active(m) /\ lease'[m] = lease[m]
      <4>1. Expiry
        BY <1>1, <3>1 DEF Expiry
      <4> QED
        BY <4>1, ExpiryRows, StillActive
    <3>3. \A m \in LeaseIds : Issued(m) => lease'[m].item = lease[m].item
      BY RowsPersist
    <3>4. \A m \in LeaseIds : Issued(m)' => Issued(m)
      <4>1. \A m \in LeaseIds : Same(m) \/ Ends(m, "revoked")
        <5>1. Expiry
          BY <1>1, <3>1 DEF Expiry
        <5> QED
          BY <5>1, ExpiryRows
      <4> QED
        BY <4>1 DEF Same, Ends, Active, Issued
    <3>5. ASSUME req[p].op = "renew", Active(req[p].lease)'
          PROVE /\ status'[lease'[req[p].lease].item] # "ready"
                /\ \A m \in sweep'.todo :
                     /\ Issued(m)' /\ lease'[m].item = lease'[req[p].lease].item
                     /\ m # req[p].lease
                     => sweep'.at < lease'[req[p].lease].expires
      <4> DEFINE n == req[p].lease
      <4>1. n \in LeaseIds
        BY <3>5, RequestOf DEF Inv, TokenReq
      <4> HIDE DEF n
      <4>2. Active(n) /\ lease'[n] = lease[n]
        BY <3>1, <3>2, <3>5, <4>1 DEF n
      <4>3. /\ status[lease[n].item] # "ready"
            /\ \A m \in sweep.todo : On(m, lease[n].item) /\ m # n => sweep.at < lease[n].expires
        BY <2>1, <3>5, <4>2 DEF Undisturbed, n
      <4>4. lease[n] \in LeaseRow /\ lease[n].expires \in Nat /\ lease[n].item \in Items
        BY <4>1, <4>2, RowOf DEF Inv, Active, Issued
      <4>5. sweep.at < lease[n].expires \/ ~On(l, lease[n].item)
        <5>1. CASE l = n
          <6>1. lease' = IF lease[l].expires <= sweep.at
                         THEN [lease EXCEPT ![l].st = "revoked"] ELSE lease
            BY <3>1, <4>2, <5>1 DEF Expire
          <6>2. lease[l].expires <= sweep.at => lease'[l] = [lease[l] EXCEPT !.st = "revoked"]
            BY <6>1 DEF Inv, TypeOK
          <6>3. ~(lease[l].expires <= sweep.at)
            BY <4>2, <4>4, <5>1, <6>2 DEF Active, LeaseRow
          <6> QED
            BY <1>1, <4>4, <5>1, <6>3
        <5>2. CASE l # n
          BY <3>1, <4>3, <5>2
        <5> QED
          BY <5>1, <5>2
      <4>6. status'[lease[n].item] # "ready"
        <5>1. \/ status'[lease[n].item] = status[lease[n].item]
              \/ /\ lease[n].item = lease[l].item
                 /\ \A m \in ActiveOn(lease[l].item) : ~Live(m, sweep.at)
          BY <3>1, <4>4 DEF Expire, Inv, TypeOK
        <5>2. ASSUME lease[n].item = lease[l].item, ~Live(n, sweep.at)
              PROVE FALSE
          BY <1>1, <3>1, <4>2, <4>4, <4>5, <5>2 DEF On, Live
        <5> QED
          BY <4>1, <4>2, <4>3, <5>1, <5>2 DEF ActiveOn
      <4>7. ASSUME NEW m \in sweep'.todo, Issued(m)', lease'[m].item = lease'[n].item, m # n
            PROVE sweep'.at < lease'[n].expires
        <5>1. m \in sweep.todo /\ Issued(m) /\ On(m, lease[n].item)
          BY <1>1, <3>1, <3>3, <4>2, <4>7 DEF On
        <5> QED
          BY <3>1, <4>2, <4>3, <4>7, <5>1
      <4> QED
        BY <4>2, <4>6, <4>7 DEF n
    <3>6. ASSUME req[p].op = "release"
          PROVE ActiveOn(lease[req[p].lease].item)' \subseteq {req[p].lease}
      <4>1. req[p].lease \in LeaseIds /\ Issued(req[p].lease)
        BY <3>6, RequestOf DEF ReleaseReq, Inv, RequestInv
      <4>2. ActiveOn(lease[req[p].lease].item) \subseteq {req[p].lease}
        BY <2>1, <3>6 DEF Undisturbed
      <4>3. lease'[req[p].lease].item = lease[req[p].lease].item
        BY <3>3, <4>1
      <4> QED
        BY <3>1, <3>2, <4>2, <4>3 DEF ActiveOn
    <3>7. ASSUME req[p].op = "cancel", NEW m \in LeaseIds, sub'[m] \in InFlight
          PROVE ~On(m, req[p].item)'
      BY <2>1, <3>1, <3>3, <3>4, <3>7 DEF Undisturbed, On
    <3>8. ASSUME req[p].op = "revoke"
          PROVE /\ req[p].at <= now'
                /\ \A m \in LeaseIds : req[p].subs[m] # "none" =>
                     /\ sub'[m] = req[p].subs[m] \/ sub'[m] \in {"applied", "conflicted"}
                     /\ \A n \in LeaseIds : sub'[n] \in InFlight /\ On(n, lease[m].item)' => n = m
      <4>1. \A m \in LeaseIds : req[p].subs[m] # "none" => Issued(m)
        BY <3>8 DEF Inv, RequestInv
      <4> QED
        BY <2>1, <3>1, <3>3, <3>4, <3>8, <4>1 DEF Undisturbed, On
    <3> QED
      BY <3>1, <3>5, <3>6, <3>7, <3>8 DEF Undisturbed, On, Issued
  <2>5. CASE Outcome
    <3>1. /\ UNCHANGED <<now, lease, req, sweep>>
          /\ \A m \in LeaseIds : sub'[m] = sub[m] \/ sub'[m] \in {"applied", "conflicted"}
          /\ \A i \in Items : status'[i] = "ready" => status[i] = "ready"
      BY <2>5 DEF Outcome, TakeJob, Settle, FailJob, DropJob, RetryJob, Inv, TypeOK
    <3>2. req[p].op = "renew" /\ Active(req[p].lease) => lease[req[p].lease].item \in Items
      BY RequestOf, RowOf DEF Inv, TokenReq, Active, Issued
    <3>3. \A m \in LeaseIds : sub'[m] \in InFlight => sub[m] \in InFlight
      BY <3>1 DEF InFlight
    <3> QED
      BY <2>1, <3>1, <3>2, <3>3 DEF Undisturbed, Active, ActiveOn, On, Issued
  <2> QED
    BY <1>8, <2>2, <2>3, <2>4, <2>5 DEF Sweep
<1> QED
  BY <1>2, <1>4, <1>5, <1>6, <1>7, <1>8, Serially

\* With one command at a time the whole of it is inductive.
LEMMA SerialInvariance ==
    ASSUME OneAtATime
    PROVE  Spec => [](Inv /\ Serial)
<1>1. Init => Serial
  <2> SUFFICES ASSUME Init PROVE Serial
    OBVIOUS
  <2>1. /\ \A p \in Processes : req[p].op = "idle"
        /\ \A l \in LeaseIds : lease[l].st = "none" /\ sub[l] = "none"
    BY DEF Init, Idle, NoRow
  <2> QED
    BY <2>1 DEF Serial, Undisturbed, ReadyIsFree, InFlightOwnsItem, InFlight, On, Issued
<1>2. Inv /\ Serial /\ [Next]_vars => Serial'
  BY ReadyStep, OwnStep, UndisturbedStep DEF Serial
<1> QED
  BY <1>1, <1>2, InvInit, InvStep, PTL DEF Spec

\* Where commands run one at a time the queue does not lie: an item it offers is
\* held by nobody, whatever the sweep, the clock and the coordinator do between
\* a command's reads and its batch.
THEOREM QueueIsTrue ==
    ASSUME OneAtATime
    PROVE  Spec => []ReadyIsFree
BY SerialInvariance, PTL DEF Serial

\* Where commands run one at a time a submission being reviewed or applied has
\* its item to itself: no release, cancellation, expiry or revocation of
\* somebody else takes the item from under it, and the drain only one that held
\* an earlier submission whose author lost access meanwhile.
THEOREM SubmissionOwnsItem ==
    ASSUME OneAtATime
    PROVE  Spec => []InFlightOwnsItem
BY SerialInvariance, PTL DEF Serial
=============================================================================
