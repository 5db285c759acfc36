------------------------------- MODULE Leases -------------------------------
(***************************************************************************)
(* Work-item leases: claim, recover, renew, release, submit, cancel,       *)
(* revocation of an actor, and the two ways a lease expires (lazily inside *)
(* a command, eagerly in the coordinator's sweep).                         *)
(*                                                                         *)
(* An API command reads rows, decides, and then runs ONE database batch.   *)
(* Commands of one isolate are serialized per project; commands of two     *)
(* isolates are not.  So each command is two steps of an isolate: a ...Read*)
(* step that records what it saw in req[p], and a ...Batch step that       *)
(* re-checks only what the SQL of the batch re-checks.  A batch whose      *)
(* compare-and-swap or unique index fails changes nothing (Abort).         *)
(*                                                                         *)
(* An accepted submission leaves an outbox row for the coordinator's drain, *)
(* which holds one row at a time in memory and does not read it again: a   *)
(* revocation may fail the row under its hands.  GitOutbox models the drain *)
(* step by step; here it takes a row, settles or fails it, or dies.        *)
(***************************************************************************)
EXTENDS Integers, FiniteSets

CONSTANTS
    Items,      \* work items of one project
    LeaseIds,   \* fresh UUIDs a claim may take; each is used at most once
    Actors,     \* members and agents who may hold a lease
    Isolates,   \* API isolates; each runs one command of the project at a time
    Unserialized, \* requests outside the serializer: DELETE of one agent token
    Duration,   \* LEASE_DURATION, in clock ticks
    Renewal,    \* LEASE_RENEWAL_DURATION
    MaxTotal,   \* LEASE_MAX_TOTAL_DURATION
    NoLease,    \* the null lease id
    Horizon,    \* bound: no lease is issued whose cap lies beyond this tick
    MaxTok      \* bound: token rotations of one lease

ASSUME LeaseConfig ==
    /\ Duration \in Nat \ {0} /\ Renewal \in Nat \ {0} /\ MaxTotal \in Nat
    /\ Duration <= MaxTotal
ASSUME Bounds == Horizon \in Nat /\ MaxTok \in Nat
ASSUME NullLease == NoLease \notin LeaseIds

VARIABLES
    now,        \* the clock every isolate reads
    status,     \* work_items.status
    lease,      \* the leases table
    sub,        \* the submission a lease produced, if any
    job,        \* its outbox row, and whether the drain has it in memory
    req,        \* the command each isolate is executing
    sweep,      \* the leases the running sweep has still to expire, and its cutoff
    gone,       \* actors whose access was revoked
    ended       \* lease_expired / lease_revoked events emitted for a lease

vars == <<now, status, lease, sub, job, req, sweep, gone, ended>>
-----------------------------------------------------------------------------
(* State.                                                                  *)

Processes == Isolates \cup Unserialized

Statuses == {"ready", "leased", "submitted", "applying",
             "completed", "conflict", "cancelled"}
SubStates == {"none", "received", "applying", "applied", "conflicted", "rejected"}
InFlight == {"received", "applying"}
\* pending, or processing but dropped by a drain that died; held by the drain;
\* failed by a revocation while held (stopped) or not (withdrawn); failed by the
\* drain itself; done.
JobStates == {"none", "pending", "held", "stopped", "withdrawn", "failed", "done"}
EndStates == {"released", "revoked"}

LeaseRow == [item : Items, holder : Actors, expires : Nat, max : Nat,
             tok : Nat, st : {"active"} \cup EndStates]
NoRow == [st |-> "none"]

Idle == [op |-> "idle"]
ClaimReq == [op : {"claim"}, item : Items, by : Actors, at : Nat,
             from : {"ready", "leased"}, prior : LeaseIds \cup {NoLease}]
TokenReq == [op : {"renew", "recover"}, lease : LeaseIds, at : Nat,
             tok : Nat, expires : Nat]
SubmitReq == [op : {"submit"}, lease : LeaseIds, at : Nat, tok : Nat]
ReleaseReq == [op : {"release"}, lease : LeaseIds]
CancelReq == [op : {"cancel"}, item : Items]
RevokeReq == [op : {"revoke"}, by : Actors, at : Nat,
              held : SUBSET LeaseIds, subs : [LeaseIds -> SubStates]]
Requests == {Idle} \cup ClaimReq \cup TokenReq \cup SubmitReq \cup ReleaseReq
              \cup CancelReq \cup RevokeReq

TypeOK ==
    /\ now \in Nat
    /\ status \in [Items -> Statuses]
    /\ lease \in [LeaseIds -> LeaseRow \cup {NoRow}]
    /\ sub \in [LeaseIds -> SubStates]
    /\ job \in [LeaseIds -> JobStates]
    /\ req \in [Processes -> Requests]
    /\ sweep \in [todo : SUBSET LeaseIds, at : Nat]
    /\ gone \in SUBSET Actors
    /\ ended \in [LeaseIds -> Nat]

Issued(l) == lease[l].st # "none"
\* Vocabulary of migration 0004: ACTIVE occupies the slot, LIVE is also unexpired.
Active(l) == lease[l].st = "active"
Live(l, t) == Active(l) /\ lease[l].expires > t
On(l, i) == Issued(l) /\ lease[l].item = i

\* The index idx_leases_active_work_item admits at most one element here.
ActiveOn(i) == {l \in LeaseIds : Active(l) /\ lease[l].item = i}

Init ==
    /\ now = 0
    /\ status = [i \in Items |-> "ready"]
    /\ lease = [l \in LeaseIds |-> NoRow]
    /\ sub = [l \in LeaseIds |-> "none"]
    /\ job = [l \in LeaseIds |-> "none"]
    /\ req = [p \in Processes |-> Idle]
    /\ sweep = [todo |-> {}, at |-> 0]
    /\ gone = {}
    /\ ended = [l \in LeaseIds |-> 0]

Begin(p, r) == req[p] = Idle /\ req' = [req EXCEPT ![p] = r]
Finish(p) == req' = [req EXCEPT ![p] = Idle]

Tick ==
    /\ now < Horizon
    /\ now' = now + 1
    /\ UNCHANGED <<status, lease, sub, job, req, sweep, gone, ended>>
-----------------------------------------------------------------------------
(* Claim.                                                                  *)

\* checkWorkItemClaimable: ready, or leased with no live lease in the slot.
\* The lease found in the slot travels with the command only on the
\* expire-then-claim path.
ClaimRead(p, a, i) ==
    /\ a \notin gone
    /\ now + MaxTotal <= Horizon
    /\ \/ /\ status[i] = "ready"
          /\ Begin(p, [op |-> "claim", item |-> i, by |-> a, at |-> now,
                       from |-> "ready", prior |-> NoLease])
       \/ /\ status[i] = "leased"
          /\ \E l \in IF ActiveOn(i) = {} THEN {NoLease} ELSE ActiveOn(i) :
               /\ l # NoLease => ~Live(l, now)
               /\ Begin(p, [op |-> "claim", item |-> i, by |-> a, at |-> now,
                            from |-> "leased", prior |-> l])
    /\ UNCHANGED <<now, status, lease, sub, job, sweep, gone, ended>>

\* expireLeaseForWorkItemStatements: the prior lease ends in the same batch,
\* but only if it is still active and past its expiry at the command's instant.
PriorEnds(r) ==
    /\ r.prior # NoLease
    /\ Active(r.prior)
    /\ lease[r.prior].item = r.item
    /\ lease[r.prior].expires <= r.at

\* Seeded fault: migration 0004 without the unique index.
NoIndex(r) == TRUE

SlotFree(r) == ActiveOn(r.item) \subseteq (IF PriorEnds(r) THEN {r.prior} ELSE {})
ClaimCommits(r) == SlotFree(r) /\ status[r.item] = r.from

NewLease(r) ==
    [item |-> r.item, holder |-> r.by, expires |-> r.at + Duration,
     max |-> r.at + MaxTotal, tok |-> 0, st |-> "active"]

ClaimBatch(p, l) ==
    LET r == req[p] IN
    /\ r.op = "claim"
    /\ ~Issued(l)
    /\ ClaimCommits(r)
    /\ lease' = [m \in LeaseIds |->
                   IF m = l THEN NewLease(r)
                   ELSE IF PriorEnds(r) /\ m = r.prior
                        THEN [lease[m] EXCEPT !.st = "revoked"]
                        ELSE lease[m]]
    /\ ended' = [m \in LeaseIds |->
                   IF PriorEnds(r) /\ m = r.prior THEN ended[m] + 1 ELSE ended[m]]
    /\ status' = [status EXCEPT ![r.item] = "leased"]
    /\ Finish(p)
    /\ UNCHANGED <<now, sub, job, sweep, gone>>
-----------------------------------------------------------------------------
(* Renew and recover: the presented token is checked against the row read, *)
(* and the hash of that row is the compare-and-swap value.                 *)

TokenRead(p, l, o) ==
    /\ Live(l, now)
    /\ lease[l].holder \notin gone
    /\ Begin(p, [op |-> o, lease |-> l, at |-> now,
                 tok |-> lease[l].tok, expires |-> lease[l].expires])
    /\ UNCHANGED <<now, status, lease, sub, job, sweep, gone, ended>>

RenewRead(p, l) ==
    /\ Issued(l)
    /\ lease[l].expires < lease[l].max   \* else lease-max-total-exceeded
    /\ TokenRead(p, l, "renew")

\* renewCasStatement compares liveness, headroom and the token - not the
\* expiry the new value was computed from.
RenewCommits(r) ==
    /\ Live(r.lease, r.at)
    /\ lease[r.lease].expires < lease[r.lease].max
    /\ lease[r.lease].tok = r.tok

\* Seeded fault: the extended expiry is not clamped.
Unclamped(a, b) == a

Lesser(a, b) == IF a <= b THEN a ELSE b

RenewBatch(p) ==
    LET r == req[p] IN
    /\ r.op = "renew"
    /\ RenewCommits(r)
    /\ lease' = [lease EXCEPT ![r.lease].expires =
                   Lesser(r.expires + Renewal, lease[r.lease].max)]
    /\ Finish(p)
    /\ UNCHANGED <<now, status, sub, job, sweep, gone, ended>>

RecoverRead(p, l) ==
    /\ Issued(l)
    /\ lease[l].tok < MaxTok
    /\ status[lease[l].item] = "leased"
    /\ TokenRead(p, l, "recover")

\* rotateTokenCasStatement also compares the expiry (renewalCount moves with it).
RecoverCommits(r) ==
    /\ Live(r.lease, r.at)
    /\ lease[r.lease].tok = r.tok
    /\ lease[r.lease].expires = r.expires

RecoverBatch(p) ==
    LET r == req[p] IN
    /\ r.op = "recover"
    /\ RecoverCommits(r)
    /\ lease' = [lease EXCEPT ![r.lease].tok = @ + 1]
    /\ Finish(p)
    /\ UNCHANGED <<now, status, sub, job, sweep, gone, ended>>
-----------------------------------------------------------------------------
(* Release, by the holder or a maintainer.                                 *)

ReleaseRead(p, l) ==
    /\ Live(l, now)
    /\ Begin(p, [op |-> "release", lease |-> l])
    /\ UNCHANGED <<now, status, lease, sub, job, sweep, gone, ended>>

\* Only the work item's status is compared; a lease that ended meanwhile makes
\* the lease update a no-op, and the lease_released event is appended anyway.
ReleaseCommits(r) == status[lease[r.lease].item] = "leased"

ReleaseBatch(p) ==
    LET r == req[p] IN
    /\ r.op = "release"
    /\ ReleaseCommits(r)
    /\ lease' = IF Active(r.lease)
                THEN [lease EXCEPT ![r.lease].st = "released"] ELSE lease
    /\ status' = [status EXCEPT ![lease[r.lease].item] = "ready"]
    /\ Finish(p)
    /\ UNCHANGED <<now, sub, job, sweep, gone, ended>>
-----------------------------------------------------------------------------
(* Submit: the accepted submission consumes the lease.  A range or block   *)
(* replacement takes the item to applying, a chapter replacement to        *)
(* submitted, where it waits for review.                                   *)

SubmitRead(p, l) ==
    /\ Live(l, now)
    /\ lease[l].holder \notin gone
    /\ status[lease[l].item] = "leased"
    /\ Begin(p, [op |-> "submit", lease |-> l, at |-> now, tok |-> lease[l].tok])
    /\ UNCHANGED <<now, status, lease, sub, job, sweep, gone, ended>>

\* workItemCas plus consumeForSubmissionStatement.
SubmitCommits(r) ==
    /\ status[lease[r.lease].item] = "leased"
    /\ Live(r.lease, r.at)
    /\ lease[r.lease].tok = r.tok

\* Seeded fault: the batch does not consume the lease.
SubmitKeepsLease(p, reviewed) ==
    LET r == req[p] IN
    /\ r.op = "submit"
    /\ SubmitCommits(r)
    /\ status' = [status EXCEPT ![lease[r.lease].item] =
                    IF reviewed THEN "submitted" ELSE "applying"]
    /\ sub' = [sub EXCEPT ![r.lease] = IF reviewed THEN "received" ELSE "applying"]
    /\ job' = [job EXCEPT ![r.lease] = IF reviewed THEN "none" ELSE "pending"]
    /\ Finish(p)
    /\ UNCHANGED <<now, lease, sweep, gone, ended>>

SubmitBatch(p, reviewed) ==
    LET r == req[p] IN
    /\ r.op = "submit"
    /\ SubmitCommits(r)
    /\ status' = [status EXCEPT ![lease[r.lease].item] =
                    IF reviewed THEN "submitted" ELSE "applying"]
    /\ lease' = [lease EXCEPT ![r.lease].st = "released"]
    /\ sub' = [sub EXCEPT ![r.lease] = IF reviewed THEN "received" ELSE "applying"]
    /\ job' = [job EXCEPT ![r.lease] = IF reviewed THEN "none" ELSE "pending"]
    /\ Finish(p)
    /\ UNCHANGED <<now, sweep, gone, ended>>
-----------------------------------------------------------------------------
(* Cancel: authorized from ready only, then written unconditionally.       *)

CancelRead(p, i) ==
    /\ status[i] = "ready"
    /\ Begin(p, [op |-> "cancel", item |-> i])
    /\ UNCHANGED <<now, status, lease, sub, job, sweep, gone, ended>>

CancelBatch(p) ==
    LET r == req[p] IN
    /\ r.op = "cancel"
    /\ status' = [status EXCEPT ![r.item] = "cancelled"]
    /\ Finish(p)
    /\ UNCHANGED <<now, lease, sub, job, sweep, gone, ended>>
-----------------------------------------------------------------------------
(* A command whose batch hits a failed compare-and-swap or the unique index *)
(* answers with a typed problem and leaves the database as it was.         *)

Abort(p) ==
    LET r == req[p] IN
    /\ \/ r.op = "claim" /\ ~ClaimCommits(r)
       \/ r.op = "renew" /\ ~RenewCommits(r)
       \/ r.op = "recover" /\ ~RecoverCommits(r)
       \/ r.op = "release" /\ ~ReleaseCommits(r)
       \/ r.op = "submit" /\ ~SubmitCommits(r)
    /\ Finish(p)
    /\ UNCHANGED <<now, status, lease, sub, job, sweep, gone, ended>>
-----------------------------------------------------------------------------
(* Expiry.                                                                 *)

\* Seeded faults: the item is reset without looking at the slot; there is no reset.
ExpireUnguarded(l, at) ==
    LET ends == Active(l) /\ lease[l].expires <= at IN
    /\ lease' = IF ends THEN [lease EXCEPT ![l].st = "revoked"] ELSE lease
    /\ ended' = IF ends THEN [ended EXCEPT ![l] = @ + 1] ELSE ended
    /\ status' = [status EXCEPT ![lease[l].item] = IF @ = "leased" THEN "ready" ELSE @]

ExpireLeaseOnly(l, at) ==
    LET ends == Active(l) /\ lease[l].expires <= at IN
    /\ lease' = IF ends THEN [lease EXCEPT ![l].st = "revoked"] ELSE lease
    /\ ended' = IF ends THEN [ended EXCEPT ![l] = @ + 1] ELSE ended
    /\ UNCHANGED status

\* Seeded fault: the event of an expiry asks only whether the expiry has passed.
ExpireAnnounces(l, at) ==
    LET ends == Active(l) /\ lease[l].expires <= at
        i == lease[l].item IN
    /\ lease' = IF ends THEN [lease EXCEPT ![l].st = "revoked"] ELSE lease
    /\ ended' = IF lease[l].expires <= at THEN [ended EXCEPT ![l] = @ + 1] ELSE ended
    /\ status' = IF status[i] = "leased" /\ \A m \in ActiveOn(i) : ~Live(m, at)
                 THEN [status EXCEPT ![i] = "ready"] ELSE status

\* expireLeaseStatements: event, revocation and item reset in one batch, each
\* behind its own guard.  The reset also repairs an item left leased with an
\* empty slot.
Expire(l, at) ==
    LET ends == Active(l) /\ lease[l].expires <= at
        i == lease[l].item IN
    /\ lease' = IF ends THEN [lease EXCEPT ![l].st = "revoked"] ELSE lease
    /\ ended' = IF ends THEN [ended EXCEPT ![l] = @ + 1] ELSE ended
    /\ status' = IF status[i] = "leased" /\ \A m \in ActiveOn(i) : ~Live(m, at)
                 THEN [status EXCEPT ![i] = "ready"] ELSE status

\* lazilyExpire: a command that finds its lease past expiry expires it with a
\* fresh timestamp; the row it read may have been ended by someone else already.
LazilyExpire(p, l) ==
    /\ req[p] = Idle
    /\ Issued(l)
    /\ lease[l].expires <= now
    /\ Expire(l, now)
    /\ UNCHANGED <<now, sub, job, req, sweep, gone>>

\* sweepExpiredLeases: one listing and one timestamp, then a batch per lease.
SweepList ==
    /\ sweep.todo = {}
    /\ sweep' = [todo |-> {l \in LeaseIds : Active(l) /\ lease[l].expires <= now},
                 at |-> now]
    /\ sweep'.todo # {}
    /\ UNCHANGED <<now, status, lease, sub, job, req, gone, ended>>

SweepExpire(l) ==
    /\ l \in sweep.todo
    /\ Expire(l, sweep.at)
    /\ sweep' = [sweep EXCEPT !.todo = @ \ {l}]
    /\ UNCHANGED <<now, sub, job, req, gone>>
-----------------------------------------------------------------------------
(* Revocation of an actor's access: revocationCascadeStatements.           *)

\* Seeded fault: settled submissions are listed too.
SubmittedBy(a) == {l \in LeaseIds : sub[l] # "none" /\ lease[l].holder = a}

InFlightOf(a) == {l \in LeaseIds : sub[l] \in InFlight /\ lease[l].holder = a}

RevokeRead(p, a) ==
    /\ a \notin gone
    /\ Begin(p, [op |-> "revoke", by |-> a, at |-> now,
                 held |-> {l \in LeaseIds : Active(l) /\ lease[l].holder = a},
                 subs |-> [l \in LeaseIds |->
                             IF l \in InFlightOf(a) THEN sub[l] ELSE "none"]])
    /\ UNCHANGED <<now, status, lease, sub, job, sweep, gone, ended>>

\* An item comes back to ready if one of the listed leases ends in the batch
\* and no other live lease holds the slot, or if it was waiting on one of the
\* listed submissions - whoever submitted the work that it is waiting on now.
RevokedItem(r, i) ==
    \/ /\ status[i] = "leased"
       /\ \E l \in r.held : lease[l].item = i
       /\ \A m \in ActiveOn(i) : m \in r.held \/ ~Live(m, r.at)
    \/ /\ status[i] \in {"applying", "submitted"}
       /\ \E l \in LeaseIds : r.subs[l] # "none" /\ lease[l].item = i

\* The outbox row of a listed submission fails, pending or processing; the drain
\* that is processing it is not told.
Stopped(state) ==
    CASE state = "pending" -> "withdrawn"
      [] state = "held" -> "stopped"
      [] OTHER -> state

RevokeBatch(p) ==
    LET r == req[p] IN
    /\ r.op = "revoke"
    /\ lease' = [l \in LeaseIds |->
                   IF l \in r.held /\ Active(l)
                   THEN [lease[l] EXCEPT !.st = "revoked"] ELSE lease[l]]
    /\ ended' = [l \in LeaseIds |->
                   IF l \in r.held /\ Active(l) THEN ended[l] + 1 ELSE ended[l]]
    /\ sub' = [l \in LeaseIds |->
                 IF r.subs[l] # "none" /\ sub[l] = r.subs[l]
                 THEN "rejected" ELSE sub[l]]
    /\ job' = [l \in LeaseIds |-> IF r.subs[l] = "applying" THEN Stopped(job[l]) ELSE job[l]]
    /\ status' = [i \in Items |-> IF RevokedItem(r, i) THEN "ready" ELSE status[i]]
    /\ gone' = gone \cup {r.by}
    /\ Finish(p)
    /\ UNCHANGED <<now, sweep>>
-----------------------------------------------------------------------------
(* The outcomes of an accepted submission.  A reviewer approves or rejects *)
(* a chapter replacement; the batch compares everything the command read,  *)
(* so the command is one step.                                             *)

Approve(p, l) ==
    /\ req[p] = Idle
    /\ sub[l] = "received"
    /\ status[lease[l].item] = "submitted"
    /\ status' = [status EXCEPT ![lease[l].item] = "applying"]
    /\ sub' = [sub EXCEPT ![l] = "applying"]
    /\ job' = [job EXCEPT ![l] = "pending"]
    /\ UNCHANGED <<now, lease, req, sweep, gone, ended>>

RejectReview(p, l) ==
    /\ req[p] = Idle
    /\ sub[l] = "received"
    /\ status[lease[l].item] = "submitted"
    /\ status' = [status EXCEPT ![lease[l].item] = "ready"]
    /\ sub' = [sub EXCEPT ![l] = "rejected"]
    /\ UNCHANGED <<now, lease, job, req, sweep, gone, ended>>

(* The drain holds the row it took until it has settled it.  It completes  *)
(* the item or records a conflict, writing the item's status without       *)
(* comparing it; only the submission's state is compared.                  *)

InHand(l) == job[l] \in {"held", "stopped"}

TakeJob(l) ==
    /\ job[l] = "pending"
    /\ \A m \in LeaseIds : ~InHand(m)
    /\ job' = [job EXCEPT ![l] = "held"]
    /\ UNCHANGED <<now, status, lease, sub, req, sweep, gone, ended>>

Settle(l, outcome) ==
    /\ InHand(l)
    /\ status' = [status EXCEPT ![lease[l].item] =
                    IF outcome = "applied" THEN "completed" ELSE "conflict"]
    /\ sub' = [sub EXCEPT ![l] = IF @ = "applying" THEN outcome ELSE @]
    /\ job' = [job EXCEPT ![l] = "done"]
    /\ UNCHANGED <<now, lease, req, sweep, gone, ended>>

\* failOperation: what is released is compared, the item first - whoever's
\* submission it is applying by now.
FailJob(l) ==
    /\ InHand(l)
    /\ IF status[lease[l].item] = "applying"
       THEN /\ status' = [status EXCEPT ![lease[l].item] = "conflict"]
            /\ sub' = [sub EXCEPT ![l] = IF @ = "applying" THEN "conflicted" ELSE @]
       ELSE UNCHANGED <<status, sub>>
    /\ job' = [job EXCEPT ![l] = "failed"]
    /\ UNCHANGED <<now, lease, req, sweep, gone, ended>>

\* The coordinator dies.  The next drain resumes a row left processing; a row
\* that a revocation failed is nobody's.
DropJob(l) ==
    /\ InHand(l)
    /\ job' = [job EXCEPT ![l] = IF @ = "held" THEN "pending" ELSE "withdrawn"]
    /\ UNCHANGED <<now, status, lease, sub, req, sweep, gone, ended>>

\* A maintainer requeues an operation the drain failed.
RetryJob(l) ==
    /\ job[l] = "failed"
    /\ job' = [job EXCEPT ![l] = "pending"]
    /\ UNCHANGED <<now, status, lease, sub, req, sweep, gone, ended>>
-----------------------------------------------------------------------------
Command(p) ==
    \/ \E a \in Actors, i \in Items : ClaimRead(p, a, i)
    \/ \E i \in Items : CancelRead(p, i)
    \/ \E l \in LeaseIds : \/ RenewRead(p, l) \/ RecoverRead(p, l)
                           \/ ReleaseRead(p, l) \/ SubmitRead(p, l)
                           \/ LazilyExpire(p, l)
                           \/ Approve(p, l) \/ RejectReview(p, l)

Batch(p) ==
    \/ \E l \in LeaseIds : ClaimBatch(p, l)
    \/ RenewBatch(p)
    \/ RecoverBatch(p)
    \/ ReleaseBatch(p)
    \/ \E reviewed \in BOOLEAN : SubmitBatch(p, reviewed)
    \/ CancelBatch(p)
    \/ RevokeBatch(p)
    \/ Abort(p)

Sweep == SweepList \/ \E l \in LeaseIds : SweepExpire(l)

Outcome == \E l \in LeaseIds :
    \/ TakeJob(l) \/ FailJob(l) \/ DropJob(l) \/ RetryJob(l)
    \/ \E o \in {"applied", "conflicted"} : Settle(l, o)

Next ==
    \/ Tick
    \/ \E p \in Isolates : Command(p)
    \/ \E p \in Processes, a \in Actors : RevokeRead(p, a)
    \/ \E p \in Processes : Batch(p)
    \/ Sweep
    \/ Outcome

Spec == Init /\ [][Next]_vars

\* Time passes, a command that started ends, and the coordinator's alarm keeps
\* running the sweep.  No client is obliged to do anything.
Fairness ==
    /\ WF_vars(Tick)
    /\ \A p \in Processes : WF_vars(Batch(p))
    /\ WF_vars(Sweep)

FairSpec == Spec /\ Fairness
-----------------------------------------------------------------------------
(* Safety that the database alone guarantees, whatever isolates do.        *)

\* Two claims of one work item never both hold its slot (idx_leases_active_work_item).
OneActiveLease == \A i \in Items, l, m \in LeaseIds :
    Active(l) /\ Active(m) /\ On(l, i) /\ On(m, i) => l = m

\* A lease is reported ended by expiry or revocation exactly when that is how it
\* ended, and never twice - the sweep, a lazy expiry, a takeover and a
\* revocation may all be racing for it.
EndReportedByWinner == \A l \in LeaseIds :
    ended[l] = IF lease[l].st = "revoked" THEN 1 ELSE 0

\* While a submission is being reviewed or applied nobody holds a lease that
\* could produce a second one.
PendingItemHasNoLease == \A i \in Items :
    status[i] \in {"submitted", "applying"} => ActiveOn(i) = {}

\* A lease that expired, was revoked or was taken over never produces a
\* submission, and a lease that produced one was not reported expired.
SubmissionSpendsLease == \A l \in LeaseIds :
    sub[l] # "none" => lease[l].st = "released" /\ ended[l] = 0

\* A submission ends the tenure it came from: its lease is spent for good, and
\* the item has no other until the submission is decided.
SubmissionEndsLease == PendingItemHasNoLease /\ SubmissionSpendsLease

\* However often and however concurrently it is renewed, no lease outlives the
\* maximum total duration, and an issued lease never reaches past the horizon.
CapRespected == \A l \in LeaseIds :
    Issued(l) => lease[l].expires <= lease[l].max /\ lease[l].max <= Horizon
-----------------------------------------------------------------------------
(* Safety that also needs the serializer: one isolate.                     *)

\* The queue does not lie: an item advertised as ready has no live lease.
ReadyIsFree == \A i \in Items, l \in LeaseIds :
    status[i] = "ready" /\ On(l, i) => ~Live(l, now)

\* A submission whose access was revoked, and whose row the drain has carried to
\* an end nevertheless: it had it in its hands.
Overran(l) == sub[l] = "rejected" /\ job[l] \in {"pending", "held", "failed", "done"}
Overrun(i) == \E l \in LeaseIds : On(l, i) /\ Overran(l)

Due(state) == IF state = "received" THEN "submitted" ELSE "applying"

\* An accepted submission keeps its item to itself until it is settled or
\* rejected, whatever sweep, revocations of others, cancellations and retries do:
\* its item awaits it and no other.  The one thing that takes the item from it is
\* an apply whose author had lost access, still in the drain's hands.
InFlightOwnsItem == \A l, m \in LeaseIds :
    sub[l] \in InFlight =>
        /\ \/ status[lease[l].item] = Due(sub[l])
           \/ status[lease[l].item] \in {"completed", "conflict"} /\ Overrun(lease[l].item)
        /\ sub[m] \in InFlight /\ On(m, lease[l].item) => l = m

-----------------------------------------------------------------------------
(* Refinement: the slot of an item is its active lease.                    *)

Slot(i) == IF ActiveOn(i) = {} THEN NoLease ELSE CHOOSE l \in LeaseIds : l \in ActiveOn(i)
UsedIds == {l \in LeaseIds : Issued(l)}
LapsedIds == {l \in LeaseIds : Issued(l) /\ lease[l].expires <= now}

Abs == INSTANCE LeaseSlot WITH slot <- [i \in Items |-> Slot(i)], used <- UsedIds,
                               lapsed <- LapsedIds, Free <- NoLease

\* Slots are handed over whole, one lease at a time, and only from a lease whose
\* time is over; a lease that lost its slot has none again, renewed or not.
SlotSpec == Abs!Spec
-----------------------------------------------------------------------------
(* Liveness.                                                               *)

\* An item whose holder walked away is claimable again, or moved on.
LeasedMovesOn == \A i \in Items : status[i] = "leased" ~> status[i] # "leased"
=============================================================================
