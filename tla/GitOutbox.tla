----------------------------- MODULE GitOutbox ------------------------------
(***************************************************************************)
(* The outbox and the branch it writes to.  A command enqueues one outbox  *)
(* row and one git operation; the coordinator drains the rows one at a     *)
(* time, oldest first, driving each operation through its state machine    *)
(* and committing it to the branch over an unreliable connection.          *)
(*                                                                         *)
(* The drain keeps what it is doing in memory (drain) and writes every     *)
(* transition to the database first, so a crash may come between any two   *)
(* of its steps.  A commit is an object with a parent; the branch is the   *)
(* sequence of commits that were fast-forwarded onto it, so its length     *)
(* identifies its head.                                                    *)
(***************************************************************************)
EXTENDS Integers, Sequences, FiniteSets

CONSTANTS
    Ops,         \* git operations, one outbox row each
    Applies,     \* those whose row is a submission.apply
    Writes,      \* those whose row is a chapter.write
    Documents,   \* those whose row is a repository_document.write
    Settings,    \* those whose row is a book_config.update
    NoOp,        \* no operation; also the author of somebody else's commit
    MaxAttempts, \* MAX_GIT_ATTEMPTS
    WriterTries, \* fast-forward attempts inside one commitFiles call
    ScanDepth,   \* operationScanDepth of the writer
    MaxDeferral, \* maxDeferralMs, in clock ticks
    Late,        \* may the server execute a ref update nobody waits for?
    Horizon,     \* bound: the last clock tick
    Budgets      \* bound: how often each fault may happen, one way or another

Faults == {"crash", "outage", "push", "diverge", "requeue", "revoke"}

ASSUME Kinds ==
    /\ Applies \cup Writes \cup Documents \subseteq Ops
    /\ Applies \cap Writes = {} /\ Applies \cap Documents = {} /\ Writes \cap Documents = {}
    /\ Settings \subseteq Ops \ (Applies \cup Writes \cup Documents)
    /\ NoOp \notin Ops
ASSUME Limits ==
    /\ MaxAttempts \in Nat \ {0} /\ WriterTries \in Nat \ {0}
    /\ ScanDepth \in Nat /\ MaxDeferral \in Nat /\ Horizon \in Nat
    /\ Late \in BOOLEAN /\ Budgets \subseteq [Faults -> Nat]

VARIABLES
    now,        \* the clock
    queue,      \* the operations in the order they were enqueued
    born,       \* git_operations.created_at
    row,        \* outbox.status
    op,         \* git_operations: state, attempts, commit_sha
    plan,       \* the outcome persisted on the outbox payload
    record,     \* the fate of the submission, proposal or artifact behind the row
    commits,    \* every commit object ever created
    branch,     \* the commits on the branch
    wire,       \* ref updates still travelling although nobody waits for them
    diverged,   \* projects.status is diverged
    asked,      \* operator retries that passed their check and have yet to run
    faults,     \* how often each fault may still happen
    drain       \* the drain's memory

vars == <<now, queue, born, row, op, plan, record, commits, branch, wire,
          diverged, asked, faults, drain>>
-----------------------------------------------------------------------------
OpStates == {"none", "queued", "preparing", "committing", "committed", "conflict", "failed"}
RowStates == {"none", "pending", "processing", "done", "failed"}
Results == {"applied", "conflict"}
Fates == {"pending", "withdrawn"} \cup Results

Pinned == Applies \cup Writes \cup Documents
Persisted == Applies \cup Writes
Prose == Applies \cup Writes      \* PROSE_OUTBOX_KINDS

Unpinned == -1
Snapshot == [state : OpStates, attempts : Nat, sha : Nat]
NoPlan == [attempt |-> 0, head |-> 0, result |-> "applied"]
Plans == [attempt : Nat, head : Nat, result : Results]
CommitObjects == [op : Ops \cup {NoOp}, base : Nat, result : Results]

Pcs == {"idle", "pick", "claim", "step", "write", "patch", "landed", "defer", "deferred"}
Asleep == [pc |-> "idle", cur |-> NoOp,
           mem |-> [state |-> "none", attempts |-> 0, sha |-> 0],
           stuck |-> {}, resumed |-> FALSE, skipped |-> {}, paused |-> {},
           expected |-> Unpinned, result |-> "applied", tries |-> 0, made |-> 0]
Drains == [pc : Pcs, cur : Ops \cup {NoOp}, mem : Snapshot,
           stuck : SUBSET Ops, resumed : BOOLEAN, skipped : SUBSET Ops, paused : SUBSET Ops,
           expected : Nat \cup {Unpinned}, result : Results, tries : Nat, made : Nat]

TypeOK ==
    /\ now \in Nat
    /\ queue \in Seq(Ops)
    /\ born \in [Ops -> Nat]
    /\ row \in [Ops -> RowStates]
    /\ op \in [Ops -> Snapshot]
    /\ plan \in [Ops -> Plans]
    /\ record \in [Ops -> Fates]
    /\ commits \in Seq(CommitObjects)
    /\ branch \in Seq(1..Len(commits))
    /\ wire \subseteq 1..Len(commits)
    /\ diverged \in BOOLEAN
    /\ asked \in [Ops -> Nat]
    /\ faults \in [Faults -> Nat]
    /\ drain \in Drains

Init ==
    /\ now = 0
    /\ queue = <<>>
    /\ born = [o \in Ops |-> 0]
    /\ row = [o \in Ops |-> "none"]
    /\ op = [o \in Ops |-> [state |-> "none", attempts |-> 0, sha |-> 0]]
    /\ plan = [o \in Ops |-> NoPlan]
    /\ record = [o \in Ops |-> "pending"]
    /\ commits = <<>>
    /\ branch = <<>>
    /\ wire = {}
    /\ diverged = FALSE
    /\ asked = [o \in Ops |-> 0]
    /\ faults \in Budgets
    /\ drain = Asleep

cur == drain.cur
mem == drain.mem

OnBranch(c) == \E k \in 1..Len(branch) : branch[k] = c
LandedAs(o) == {k \in 1..Len(branch) : commits[branch[k]].op = o}
Landed(o) == LandedAs(o) # {}

At(pc) == drain.pc = pc
Goto(pc) == drain' = [drain EXCEPT !.pc = pc]
Fault(f) == faults[f] > 0 /\ faults' = [faults EXCEPT ![f] = @ - 1]

World == <<now, queue, born, diverged, asked>>
Git == <<commits, branch, wire>>
-----------------------------------------------------------------------------
(* Commands.                                                               *)

\* commandStatements: operation and row are inserted in one batch.
Enqueue(o) ==
    /\ row[o] = "none"
    /\ row' = [row EXCEPT ![o] = "pending"]
    /\ op' = [op EXCEPT ![o].state = "queued"]
    /\ born' = [born EXCEPT ![o] = now]
    /\ queue' = Append(queue, o)
    /\ UNCHANGED <<now, plan, record, commits, branch, wire, diverged, asked,
                   faults, drain>>

\* revocationCascadeStatements, for one submission in flight.
Revoke(o) ==
    /\ Fault("revoke")
    /\ o \in Applies /\ row[o] # "none" /\ record[o] = "pending"
    /\ record' = [record EXCEPT ![o] = "withdrawn"]
    /\ row' = [row EXCEPT ![o] = IF @ \in {"pending", "processing"} THEN "failed" ELSE @]
    /\ UNCHANGED <<now, queue, born, op, plan, commits, branch, wire, diverged,
                   asked, drain>>

\* The retry route checks the operation before it enters the serializer ...
RetryRead(o) ==
    /\ Fault("requeue")
    /\ op[o].state = "failed"
    /\ asked' = [asked EXCEPT ![o] = @ + 1]
    /\ UNCHANGED <<now, queue, born, row, op, plan, record, commits, branch, wire,
                   diverged, drain>>

\* ... and writes the operation without comparing it again; the row comes back
\* only if it is failed or being processed.
RetryBatch(o) ==
    /\ asked[o] > 0
    /\ asked' = [asked EXCEPT ![o] = @ - 1]
    /\ op' = [op EXCEPT ![o].state = "queued", ![o].attempts = 0]
    /\ row' = [row EXCEPT ![o] = IF @ \in {"failed", "processing"} THEN "pending" ELSE @]
    /\ UNCHANGED <<now, queue, born, plan, record, commits, branch, wire, diverged,
                   faults, drain>>
-----------------------------------------------------------------------------
(* The drain picks rows.                                                   *)

Waiting(o) == row[o] = "pending"
\* Seeded fault: rows a crashed drain left behind are not looked for.
NeverStuck(o) == FALSE
Stuck(o) == row[o] = "processing"

\* ORDER BY created_at: the first of these rows that was enqueued.
Before(p, o) == \E j, k \in DOMAIN queue : j < k /\ queue[j] = p /\ queue[k] = o
Oldest(rows) == {o \in rows : ~\E p \in rows : Before(p, o)}

\* pausedKinds is read once, before anything is claimed; rows left processing
\* are a crashed drain's, and are resumed first.
DrainStart ==
    /\ At("idle")
    /\ \E o \in Ops : Waiting(o) \/ Stuck(o)
    /\ drain' = [Asleep EXCEPT
                   !.pc = "pick",
                   !.paused = IF diverged THEN Prose ELSE {},
                   !.stuck = {o \in Ops : Stuck(o)}]
    /\ UNCHANGED <<World, row, op, plan, record, Git, faults>>

Begin(o, resumed) ==
    drain' = [drain EXCEPT !.pc = "step", !.cur = o, !.mem = op[o],
                           !.stuck = @ \ {o}, !.resumed = resumed]

PickStuck ==
    /\ At("pick")
    /\ \E o \in Oldest(drain.stuck) :
         IF o \in drain.paused THEN drain' = [drain EXCEPT !.stuck = @ \ {o}] ELSE Begin(o, TRUE)
    /\ UNCHANGED <<World, row, op, plan, record, Git, faults>>

\* nextPending: oldest pending row of a kind that is not paused, not skipped.
Eligible(o) == Waiting(o) /\ o \notin drain.paused /\ o \notin drain.skipped

PickPending ==
    /\ At("pick") /\ drain.stuck = {}
    /\ LET ready == {o \in Ops : Eligible(o)} IN
         \/ ready = {} /\ drain' = Asleep
         \/ \E o \in Oldest(ready) : drain' = [drain EXCEPT !.pc = "claim", !.cur = o]
    /\ UNCHANGED <<World, row, op, plan, record, Git, faults>>

\* markProcessing is a compare-and-swap; a row that moved on is skipped.
Claim ==
    /\ At("claim")
    /\ IF Waiting(cur)
       THEN row' = [row EXCEPT ![cur] = "processing"] /\ Begin(cur, FALSE)
       ELSE /\ drain' = [drain EXCEPT !.pc = "pick", !.skipped = @ \cup {cur}]
            /\ UNCHANGED row
    /\ UNCHANGED <<World, op, plan, record, Git, faults>>
-----------------------------------------------------------------------------
(* processRow: one transition of the operation per step.  The next state is *)
(* computed from the copy in memory and written to the row.                *)

Persist(state, attempts) ==
    /\ op' = [op EXCEPT ![cur].state = state, ![cur].attempts = attempts]
    /\ drain' = [drain EXCEPT !.pc = "step", !.mem.state = state, !.mem.attempts = attempts]

Prepare ==
    /\ At("step") /\ mem.state = "queued"
    /\ Persist("preparing", mem.attempts + 1)
    /\ UNCHANGED <<World, row, plan, record, Git, faults>>

StartCommit ==
    /\ At("step") /\ mem.state = "preparing"
    /\ Persist("committing", mem.attempts)
    /\ UNCHANGED <<World, row, plan, record, Git, faults>>

\* conflict -> queued is the bounded retry edge.
Retry ==
    /\ At("step") /\ mem.state = "conflict" /\ mem.attempts < MaxAttempts
    /\ Persist("queued", mem.attempts)
    /\ UNCHANGED <<World, row, plan, record, Git, faults>>

\* failOperation: one batch fails the operation and the row and releases what
\* the row held; an annotation or reply stays pending_git.
Fail(o) ==
    /\ op' = [op EXCEPT ![o].state = "failed"]
    /\ row' = [row EXCEPT ![o] = "failed"]
    /\ record' = [record EXCEPT ![o] = IF o \in Pinned /\ @ = "pending" THEN "conflict" ELSE @]
    /\ Goto("pick")
    /\ UNCHANGED <<World, plan, Git>>

Exhaust ==
    /\ At("step") /\ mem.state = "conflict" /\ mem.attempts >= MaxAttempts
    /\ Fail(cur)
    /\ UNCHANGED faults
-----------------------------------------------------------------------------
(* Building the commit.                                                    *)

\* Seeded fault: the persisted outcome is not read back.
NeverReusable(o) == FALSE
Reusable(o) == plan[o].attempt = mem.attempts
Head_ == Len(branch)

\* What resolving against the current head finds.  Once the operation's own
\* commit is on the branch, the text it was written against is gone: an apply
\* finds a conflict, a chapter write and a document write are refused.
Resolutions(o) == IF o \in Applies THEN IF Landed(o) THEN {"conflict"} ELSE Results
                  ELSE IF Landed(o) THEN {} ELSE {"applied"}

ToWrite(expected, result) ==
    drain' = [drain EXCEPT !.pc = "write", !.expected = expected, !.result = result, !.tries = 0]

BuildPlan ==
    /\ At("step") /\ mem.state = "committing"
    /\ \/ cur \in Settings /\ ToWrite(Head_, "applied") /\ UNCHANGED plan
       \/ cur \notin Pinned \cup Settings /\ ToWrite(Unpinned, "applied") /\ UNCHANGED plan
       \/ /\ cur \in Documents
          /\ \E r \in Resolutions(cur) : ToWrite(Head_, r)
          /\ UNCHANGED plan
       \/ /\ cur \in Persisted /\ Reusable(cur)
          /\ ToWrite(plan[cur].head, plan[cur].result)
          /\ UNCHANGED plan
       \/ /\ cur \in Persisted /\ ~Reusable(cur)
          /\ \E r \in Resolutions(cur) :
               /\ plan' = [plan EXCEPT ![cur] = [attempt |-> mem.attempts, head |-> Head_, result |-> r]]
               /\ ToWrite(Head_, r)
    /\ UNCHANGED <<World, row, op, record, Git, faults>>

\* buildCommitPlan throws: the row's content cannot be planned, a stale base is
\* refused, or a read it needs did not come back.
PlanFails ==
    /\ At("step") /\ mem.state = "committing"
    /\ \/ ~Landed(cur) /\ UNCHANGED faults
       \/ cur \in Writes \cup Documents /\ Landed(cur) /\ UNCHANGED faults
          /\ (cur \in Writes => ~Reusable(cur))
       \/ Landed(cur) /\ Fault("outage")
    /\ Fail(cur)
-----------------------------------------------------------------------------
(* commitFiles.                                                            *)

\* Seeded fault: the trailer is not looked for.
Unscanned == {}

\* A commit this operation recorded earlier, or one of the last ScanDepth
\* commits carrying its trailer.
Recorded == mem.sha # 0 /\ OnBranch(mem.sha)
Scanned == {k \in LandedAs(cur) : k > Len(branch) - ScanDepth}
Moved == drain.expected \notin {Unpinned, Head_}

\* non-fast-forward: the operation goes to conflict, the attempt is spent.
Contend ==
    /\ Persist("conflict", mem.attempts)

Write ==
    /\ At("write")
    /\ IF Recorded
       THEN /\ drain' = [drain EXCEPT !.pc = "landed", !.made = mem.sha]
            /\ UNCHANGED <<op, commits>>
       ELSE IF Scanned # {}
       THEN /\ \E k \in Scanned :
                 /\ \A j \in Scanned : j <= k
                 /\ drain' = [drain EXCEPT !.pc = "landed", !.made = branch[k]]
            /\ UNCHANGED <<op, commits>>
       ELSE IF Moved
       THEN Contend /\ UNCHANGED commits
       ELSE \* persistCommitAttempt writes the row before the ref update
            /\ commits' = Append(commits, [op |-> cur, base |-> Head_,
                                           result |-> drain.result])
            /\ op' = [op EXCEPT ![cur] = [state |-> "committing", attempts |-> mem.attempts,
                                          sha |-> Len(commits) + 1]]
            /\ drain' = [drain EXCEPT !.pc = "patch", !.made = Len(commits) + 1]
    /\ UNCHANGED <<World, row, plan, record, branch, wire, faults>>

FastForward == commits[drain.made].base = Head_

PatchLands ==
    /\ At("patch") /\ FastForward
    /\ branch' = Append(branch, drain.made)
    /\ Goto("landed")
    /\ UNCHANGED <<World, row, op, plan, record, commits, wire, faults>>

\* The update is executed, the answer is lost.
PatchUnheard ==
    /\ At("patch") /\ FastForward /\ Fault("outage")
    /\ branch' = Append(branch, drain.made)
    /\ Goto("defer")
    /\ UNCHANGED <<World, row, op, plan, record, commits, wire>>

\* The update does not arrive, or not yet.
PatchLost ==
    /\ At("patch") /\ Fault("outage")
    /\ wire' = IF Late THEN wire \cup {drain.made} ELSE wire
    /\ Goto("defer")
    /\ UNCHANGED <<World, row, op, plan, record, commits, branch>>

\* Seeded fault: the answer to the update is not looked at.
RefusedIsLanded ==
    /\ At("patch") /\ ~FastForward
    /\ Goto("landed")
    /\ UNCHANGED <<World, row, op, plan, record, Git, faults>>

\* 409 or 422: rebuilt on the new head unless the plan is pinned.
PatchRefused ==
    /\ At("patch") /\ ~FastForward
    /\ IF drain.expected = Unpinned /\ drain.tries + 1 < WriterTries
       THEN /\ drain' = [drain EXCEPT !.pc = "write", !.tries = @ + 1]
            /\ UNCHANGED op
       ELSE Contend
    /\ UNCHANGED <<World, row, plan, record, Git, faults>>

\* A read or an object creation meets an outage, or is refused for good.
Unavailable ==
    /\ At("write") /\ Fault("outage")
    /\ Goto("defer")
    /\ UNCHANGED <<World, row, op, plan, record, Git>>

Forbidden ==
    /\ At("write") /\ Fault("outage")
    /\ Fail(cur)

\* The final batch: operation, record and row together.  The record only moves
\* if it still waits for this operation.
Land ==
    /\ At("landed")
    /\ op' = [op EXCEPT ![cur].state = "committed", ![cur].sha = drain.made]
    /\ row' = [row EXCEPT ![cur] = "done"]
    /\ record' = [record EXCEPT ![cur] = IF @ = "pending" THEN drain.result ELSE @]
    /\ Goto("pick")
    /\ UNCHANGED <<World, plan, Git, faults>>
-----------------------------------------------------------------------------
(* Deferral: two statements, one after the other.                          *)

Defer ==
    /\ At("defer") /\ now - born[cur] < MaxDeferral
    /\ op' = [op EXCEPT ![cur].state = "queued"]
    /\ Goto("deferred")
    /\ UNCHANGED <<World, row, plan, record, Git, faults>>

GiveUp ==
    /\ At("defer") /\ now - born[cur] >= MaxDeferral
    /\ Fail(cur)
    /\ UNCHANGED faults

\* A row taken from the queue is not taken again by this drain; one that was
\* resumed is an ordinary pending row now, and may be.
HandBack ==
    /\ At("deferred")
    /\ row' = [row EXCEPT ![cur] = IF @ = "processing" THEN "pending" ELSE @]
    /\ drain' = [drain EXCEPT !.pc = "pick",
                              !.skipped = IF drain.resumed THEN @ ELSE @ \cup {cur}]
    /\ UNCHANGED <<World, op, plan, record, Git, faults>>
-----------------------------------------------------------------------------
(* The environment.                                                        *)

\* The coordinator dies; only its memory is lost, and perhaps not the ref
\* update it had sent.
Crash ==
    /\ ~At("idle") /\ Fault("crash")
    /\ drain' = Asleep
    /\ wire' = IF Late /\ At("patch") THEN wire \cup {drain.made} ELSE wire
    /\ UNCHANGED <<World, row, op, plan, record, commits, branch>>

LatePatch(c) ==
    /\ c \in wire
    /\ wire' = wire \ {c}
    /\ branch' = IF commits[c].base = Head_ THEN Append(branch, c) ELSE branch
    /\ UNCHANGED <<World, row, op, plan, record, commits, faults, drain>>

\* Somebody else pushes to the branch.
Push ==
    /\ Fault("push")
    /\ commits' = Append(commits, [op |-> NoOp, base |-> Head_, result |-> "applied"])
    /\ branch' = Append(branch, Len(commits) + 1)
    /\ UNCHANGED <<World, row, op, plan, record, wire, drain>>

Diverge ==
    /\ ~diverged /\ Fault("diverge")
    /\ diverged' = TRUE
    /\ UNCHANGED <<now, queue, born, row, op, plan, record, Git, asked, drain>>

Resolve ==
    /\ diverged
    /\ diverged' = FALSE
    /\ UNCHANGED <<now, queue, born, row, op, plan, record, Git, asked, faults, drain>>

Tick ==
    /\ now < Horizon
    /\ now' = now + 1
    /\ UNCHANGED <<queue, born, row, op, plan, record, Git, diverged, asked, faults,
                   drain>>
-----------------------------------------------------------------------------
Drain ==
    \/ DrainStart \/ PickStuck \/ PickPending \/ Claim
    \/ Prepare \/ StartCommit \/ Retry \/ Exhaust
    \/ BuildPlan \/ PlanFails
    \/ Write \/ PatchLands \/ PatchUnheard \/ PatchLost \/ PatchRefused
    \/ Unavailable \/ Forbidden \/ Land
    \/ Defer \/ GiveUp \/ HandBack

Environment ==
    \/ Crash \/ Push \/ Diverge \/ Resolve \/ Tick
    \/ \E c \in wire : LatePatch(c)

Commands == \E o \in Ops : Enqueue(o) \/ Revoke(o) \/ RetryRead(o) \/ RetryBatch(o)

Next == Drain \/ Environment \/ Commands

Spec == Init /\ [][Next]_vars

\* The alarm keeps the drain going and the clock advances; no fault is owed.
Fairness == WF_vars(Drain) /\ WF_vars(Tick)

FairSpec == Spec /\ Fairness
-----------------------------------------------------------------------------
(* Safety.                                                                 *)

\* An operation reaches the branch at most once, whatever was retried, replayed
\* after a crash, deferred or answered late (commitFiles' ancestry check and
\* trailer scan).
CommittedOnce == \A o \in Ops : Cardinality(LandedAs(o)) <= 1

\* What the database says became of a submission or document is what the commit
\* on the branch did: the persisted outcome is replayed, never recomputed over
\* the operation's own commit.
OutcomeMatchesCommit ==
    \A o \in Pinned : \A k \in LandedAs(o) :
        record[o] \in Results => record[o] = commits[branch[k]].result

(* Liveness, under FairSpec.                                               *)

Active(o) == row[o] \in {"pending", "processing"}
Settled(o) == row[o] \in {"done", "failed"}

\* Every row is done or failed in the end, through crashes, outages, contention
\* and divergence - prose, which a divergence pauses, if the project does not
\* stay diverged.
Settles ==
    /\ \A o \in Ops \ Prose : Active(o) ~> Settled(o)
    /\ <>[]~diverged => \A o \in Prose : Active(o) ~> Settled(o)

(* What the outbox promises, as a Ledger.                                  *)

Log == [k \in 1..Len(branch) |-> commits[branch[k]].op]
Verdict == [o \in Ops |->
    CASE op[o].state = "failed"    -> "refused"
      [] op[o].state = "committed" -> IF o \in Pinned /\ record[o] = "conflict"
                                      THEN "recorded" ELSE "accepted"
      [] OTHER                     -> "open"]

Promise == INSTANCE Ledger WITH Foreign <- NoOp, log <- Log, verdict <- Verdict
PromiseKept == Promise!Spec
=============================================================================
