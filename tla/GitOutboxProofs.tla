--------------------------- MODULE GitOutboxProofs ---------------------------
(***************************************************************************)
(* Proofs about GitOutbox: type correctness, that an operation reaches the *)
(* branch at most once, and, when nothing is unavailable, that what the    *)
(* database says of an operation is what its commit did and that the       *)
(* outbox keeps what Ledger promises - for any number of operations,       *)
(* attempts, pushes, crashes and revocations.                              *)
(***************************************************************************)
EXTENDS GitOutbox, FiniteSetTheorems, TLAPS

-----------------------------------------------------------------------------
(* What the invariant says.                                                *)

\* What the drain holds in its hands belongs to the operation it works on.
Hands ==
    /\ drain.pc \notin {"idle", "pick"} => cur \in Ops
    /\ drain.pc \in {"patch", "landed"} =>
         drain.made \in 1..Len(commits) /\ commits[drain.made].op = cur
    /\ At("patch") => op[cur].sha = drain.made
    /\ At("landed") => OnBranch(drain.made)

\* A commit an operation remembers, in its row or in memory, is its own.
OwnCommit(o, sha) == sha # 0 => sha \in 1..Len(commits) /\ commits[sha].op = o

Signed ==
    /\ \A o \in Ops : OwnCommit(o, op[o].sha)
    /\ drain.pc \in {"step", "write", "patch"} => OwnCommit(cur, mem.sha)

\* The branch only grew by fast-forwards.
Chained ==
    /\ \A k \in 1..Len(branch) : commits[branch[k]].base = k - 1
    /\ \A c \in 1..Len(commits) : commits[c].base <= Len(branch)

\* Where no update arrives late, the commit an operation has on the branch is
\* the last one it made, and the drain knows it before it writes another.
Last ==
    /\ wire = {}
    /\ \A o \in Ops : \A k \in LandedAs(o) : branch[k] = op[o].sha
    /\ drain.pc \in {"step", "write"} /\ Landed(cur) => mem.sha = op[cur].sha
    /\ At("patch") => ~Landed(cur)

\* No commit was made for an operation on top of that operation's own commit.
Fresh ==
    \A c \in 1..Len(commits) : commits[c].op \in Ops =>
        \A k \in LandedAs(commits[c].op) : k > commits[c].base

Structure ==
    /\ TypeOK /\ Hands /\ Signed /\ Chained
    /\ ~Late => Last

\* Before it writes, the drain finds what the operation has on the branch: the
\* scan goes back far enough.  It matters only where an update may arrive late.
InReach == Late /\ At("write") => LandedAs(cur) \subseteq Scanned

-----------------------------------------------------------------------------
(* Sequences and faults.                                                   *)

LEMMA Appended ==
    ASSUME NEW S, NEW s \in Seq(S), NEW e \in S
    PROVE  /\ Append(s, e) \in Seq(S)
           /\ Len(s) \in Nat /\ Len(Append(s, e)) = Len(s) + 1
           /\ \A k \in 1..Len(s) : Append(s, e)[k] = s[k] /\ s[k] \in S
           /\ Append(s, e)[Len(s) + 1] = e
OBVIOUS

LEMMA FaultTyped ==
    ASSUME TypeOK, NEW f \in Faults, Fault(f)
    PROVE  /\ faults' \in [Faults -> Nat]
           /\ \A g \in Faults : faults'[g] <= faults[g]
BY DEF TypeOK, Fault

\* More commits make room for more; what fitted still fits.
LEMMA RoomGrows ==
    ASSUME NEW n \in Nat, NEW s \in Seq(1..n)
    PROVE  s \in Seq(1..n + 1)
OBVIOUS

-----------------------------------------------------------------------------
(* Types.                                                                  *)


LEMMA AsleepTyped == Asleep \in Drains /\ Asleep.pc = "idle" /\ Asleep.stuck = {}
BY DEF Asleep, Drains, Snapshot, Pcs, OpStates, Results, Unpinned

\* The ways a step changes the drain's memory keep its type.
LEMMA DrainMoves ==
    ASSUME NEW d \in Drains
    PROVE  /\ \A rows \in SUBSET Ops : [d EXCEPT !.stuck = rows] \in Drains
           /\ \A pc \in Pcs, kinds, rows \in SUBSET Ops :
                [d EXCEPT !.pc = pc, !.paused = kinds, !.stuck = rows] \in Drains
           /\ \A pc \in Pcs, rows \in SUBSET Ops : [d EXCEPT !.pc = pc, !.skipped = rows] \in Drains
           /\ \A pc \in Pcs, n \in Nat : [d EXCEPT !.pc = pc, !.made = n] \in Drains
           /\ \A pc \in Pcs, n \in Nat : [d EXCEPT !.pc = pc, !.tries = n] \in Drains
<1>1. \A rows \in SUBSET Ops : [d EXCEPT !.stuck = rows] \in Drains
  BY DEF Drains
<1>2. \A pc \in Pcs, kinds, rows \in SUBSET Ops :
        [d EXCEPT !.pc = pc, !.paused = kinds, !.stuck = rows] \in Drains
  BY DEF Drains
<1>3. \A pc \in Pcs, rows \in SUBSET Ops : [d EXCEPT !.pc = pc, !.skipped = rows] \in Drains
  BY DEF Drains
<1>4. \A pc \in Pcs, n \in Nat : [d EXCEPT !.pc = pc, !.made = n] \in Drains
  BY DEF Drains
<1>5. \A pc \in Pcs, n \in Nat : [d EXCEPT !.pc = pc, !.tries = n] \in Drains
  BY DEF Drains
<1> QED
  BY <1>1, <1>2, <1>3, <1>4, <1>5

LEMMA NoFaultLeft == \A b \in Budgets : b \in [Faults -> Nat]
BY Limits

LEMMA InitTyped == Init => TypeOK
<1> SUFFICES ASSUME Init PROVE TypeOK
  OBVIOUS
<1>1. op \in [Ops -> Snapshot] /\ plan \in [Ops -> Plans] /\ record \in [Ops -> Fates]
  BY DEF Init, Snapshot, Plans, NoPlan, OpStates, Fates, Results
<1>2. row \in [Ops -> RowStates] /\ born \in [Ops -> Nat] /\ asked \in [Ops -> Nat]
  BY DEF Init, RowStates
<1>3. faults \in [Faults -> Nat] /\ drain \in Drains
  BY NoFaultLeft, AsleepTyped DEF Init
<1>4. queue \in Seq(Ops) /\ commits \in Seq(CommitObjects) /\ branch \in Seq(1..Len(commits)) /\ wire \subseteq 1..Len(commits)
  BY DEF Init
<1> QED
  BY <1>1, <1>2, <1>3, <1>4 DEF Init, TypeOK

LEMMA BeginTyped ==
    ASSUME TypeOK, NEW o \in Ops, NEW b \in BOOLEAN, Begin(o, b)
    PROVE  drain' \in Drains
BY DEF TypeOK, Drains, Snapshot, Pcs, Begin

LEMMA GotoTyped ==
    ASSUME TypeOK, NEW pc \in Pcs, Goto(pc)
    PROVE  drain' \in Drains
BY DEF TypeOK, Drains, Goto

LEMMA PersistTyped ==
    ASSUME TypeOK, NEW state \in OpStates, NEW attempts \in Nat, cur \in Ops, Persist(state, attempts)
    PROVE  drain' \in Drains /\ op' \in [Ops -> Snapshot]
<1>1. drain' \in Drains
  BY DEF TypeOK, Drains, Snapshot, Pcs, Persist
<1>2. op' \in [Ops -> Snapshot]
  BY DEF TypeOK, Snapshot, Persist
<1> QED
  BY <1>1, <1>2

LEMMA FailTyped ==
    ASSUME TypeOK, NEW o \in Ops, Fail(o)
    PROVE  /\ drain' \in Drains /\ op' \in [Ops -> Snapshot]
           /\ row' \in [Ops -> RowStates] /\ record' \in [Ops -> Fates]
<1>1. drain' \in Drains
  BY GotoTyped DEF Pcs, Fail
<1>2. op' \in [Ops -> Snapshot] /\ row' \in [Ops -> RowStates] /\ record' \in [Ops -> Fates]
  BY DEF TypeOK, Snapshot, OpStates, RowStates, Fates, Results, Fail
<1> QED
  BY <1>1, <1>2

LEMMA DrainTyped ==
    ASSUME TypeOK, Hands, Drain
    PROVE  TypeOK'
<1>1. CASE DrainStart
  <2>1. drain' \in Drains
    <3>1. {o \in Ops : Stuck(o)} \in SUBSET Ops /\ Prose \in SUBSET Ops /\ {} \in SUBSET Ops
      BY Kinds DEF Prose
    <3>2. "pick" \in Pcs
      BY DEF Pcs
    <3>3. drain' = [Asleep EXCEPT !.pc = "pick", !.paused = IF diverged THEN Prose ELSE {},
                                  !.stuck = {o \in Ops : Stuck(o)}]
      BY <1>1 DEF DrainStart
    <3> QED
      BY <3>1, <3>2, <3>3, AsleepTyped, DrainMoves
  <2> QED
    BY <1>1, <2>1 DEF DrainStart, TypeOK, World, Git
<1>2. CASE PickStuck
  <2>1. drain' \in Drains
    <3>1. PICK o \in Oldest(drain.stuck) :
            IF o \in drain.paused THEN drain' = [drain EXCEPT !.stuck = @ \ {o}] ELSE Begin(o, TRUE)
      BY <1>2 DEF PickStuck
    <3>2. o \in Ops
      BY <3>1 DEF Oldest, TypeOK, Drains
    <3>3. CASE o \in drain.paused
      <4>1. drain.stuck \ {o} \in SUBSET Ops /\ drain \in Drains
        BY DEF TypeOK, Drains
      <4>2. drain' = [drain EXCEPT !.stuck = drain.stuck \ {o}]
        BY <3>1, <3>3
      <4> QED
        BY <4>1, <4>2, DrainMoves
    <3>4. CASE o \notin drain.paused
      BY <3>1, <3>2, <3>4, BeginTyped
    <3> QED
      BY <3>3, <3>4
  <2> QED
    BY <1>2, <2>1 DEF PickStuck, TypeOK, World, Git
<1>3. CASE PickPending
  <2>1. drain' \in Drains
    BY <1>3, AsleepTyped DEF PickPending, Drains, Pcs, Oldest, TypeOK
  <2> QED
    BY <1>3, <2>1 DEF PickPending, TypeOK, World, Git
<1>4. CASE Claim
  <2>1. cur \in Ops
    BY <1>4 DEF Claim, Hands, At
  <2>2. drain' \in Drains
    <3>1. CASE Waiting(cur)
      BY <1>4, <2>1, <3>1, BeginTyped DEF Claim
    <3>2. CASE ~Waiting(cur)
      <4>1. drain.skipped \cup {cur} \in SUBSET Ops /\ drain \in Drains /\ "pick" \in Pcs
        BY <2>1 DEF TypeOK, Drains, Pcs
      <4>2. drain' = [drain EXCEPT !.pc = "pick", !.skipped = drain.skipped \cup {cur}]
        BY <1>4, <3>2 DEF Claim
      <4> QED
        BY <4>1, <4>2, DrainMoves
    <3> QED
      BY <3>1, <3>2
  <2> QED
    BY <1>4, <2>1, <2>2 DEF Claim, TypeOK, World, Git, RowStates
<1>5. CASE Prepare \/ StartCommit \/ Retry
  <2>1. cur \in Ops /\ mem.attempts \in Nat
    BY <1>5 DEF Prepare, StartCommit, Retry, Hands, At, TypeOK, Drains, Snapshot, mem
  <2>2. drain' \in Drains /\ op' \in [Ops -> Snapshot]
    BY <1>5, <2>1, PersistTyped DEF Prepare, StartCommit, Retry, OpStates
  <2> QED
    BY <1>5, <2>2 DEF Prepare, StartCommit, Retry, TypeOK, World, Git
<1>6. CASE Exhaust \/ PlanFails \/ Forbidden \/ GiveUp
  <2>1. cur \in Ops /\ Fail(cur)
    BY <1>6 DEF Exhaust, PlanFails, Forbidden, GiveUp, Hands, At
  <2>2. faults' \in [Faults -> Nat]
    BY <1>6, FaultTyped DEF Exhaust, PlanFails, Forbidden, GiveUp, Faults, TypeOK
  <2> QED
    BY <2>1, <2>2, FailTyped DEF Fail, TypeOK, World, Git
<1>7. CASE BuildPlan
  <2>1. cur \in Ops /\ mem.attempts \in Nat /\ Head_ \in Nat
    BY <1>7 DEF BuildPlan, Hands, At, TypeOK, Drains, Snapshot, mem, Head_
  <2>2. plan' \in [Ops -> Plans]
    <3>1. ASSUME NEW r \in Results
          PROVE  [attempt |-> mem.attempts, head |-> Head_, result |-> r] \in Plans
      BY <2>1 DEF Plans
    <3>2. Resolutions(cur) \subseteq Results
      BY DEF Resolutions, Results
    <3>3. plan' = plan \/ \E r \in Results : plan' = [plan EXCEPT ![cur] =
                 [attempt |-> mem.attempts, head |-> Head_, result |-> r]]
      BY <1>7, <3>2 DEF BuildPlan
    <3> QED
      BY <2>1, <3>1, <3>3 DEF TypeOK
  <2>3. ASSUME NEW e \in Nat \cup {Unpinned}, NEW r \in Results, ToWrite(e, r)
        PROVE  drain' \in Drains
    BY <2>3 DEF ToWrite, TypeOK, Drains, Pcs
  <2>4. drain' \in Drains
    BY <1>7, <2>1, <2>3 DEF BuildPlan, Resolutions, Results, TypeOK, Plans
  <2> QED
    BY <1>7, <2>2, <2>4 DEF BuildPlan, TypeOK, World, Git
<1>8. CASE Write
  <2>1. cur \in Ops /\ mem \in Snapshot /\ Head_ \in Nat /\ Len(commits) \in Nat /\ At("write")
    <3>1. drain \in Drains /\ branch \in Seq(1..Len(commits)) /\ commits \in Seq(CommitObjects)
      BY DEF TypeOK
    <3>2. At("write") /\ cur \in Ops /\ mem \in Snapshot
      BY <1>8, <3>1 DEF Write, Hands, At, Drains, mem
    <3> QED
      BY <3>1, <3>2 DEF Head_
  <2>2. CASE Recorded
    <3>0. /\ drain' = [drain EXCEPT !.pc = "landed", !.made = mem.sha]
          /\ UNCHANGED <<op, commits>>
          /\ UNCHANGED <<World, row, plan, record, branch, wire, faults>>
      BY <1>8, <2>2, Zenon DEF Write
    <3>1. drain' \in Drains
      BY <2>1, <3>0 DEF TypeOK, Drains, Pcs, Snapshot
    <3>2. UNCHANGED <<World, row, op, plan, record, Git, faults>>
      BY <3>0 DEF Git
    <3> QED
      BY <3>1, <3>2 DEF TypeOK, World, Git
  <2>3. CASE ~Recorded /\ Scanned # {}
    <3>1. PICK k \in Scanned : drain' = [drain EXCEPT !.pc = "landed", !.made = branch[k]]
      BY <1>8, <2>3 DEF Write
    <3>2. branch[k] \in Nat
      BY DEF Scanned, LandedAs, TypeOK
    <3>3. drain' \in Drains
      BY <3>1, <3>2 DEF TypeOK, Drains, Pcs
    <3> QED
      BY <1>8, <2>3, <3>3 DEF Write, TypeOK, World
  <2>4. CASE ~Recorded /\ Scanned = {} /\ Moved
    <3>1. drain' \in Drains /\ op' \in [Ops -> Snapshot]
      BY <1>8, <2>1, <2>4, PersistTyped DEF Write, Contend, OpStates, Snapshot
    <3> QED
      BY <1>8, <2>4, <3>1 DEF Write, TypeOK, World
  <2>5. CASE ~Recorded /\ Scanned = {} /\ ~Moved
    <3>0. /\ commits' = Append(commits, [op |-> cur, base |-> Head_, result |-> drain.result])
          /\ op' = [op EXCEPT ![cur] = [state |-> "committing", attempts |-> mem.attempts,
                                        sha |-> Len(commits) + 1]]
          /\ drain' = [drain EXCEPT !.pc = "patch", !.made = Len(commits) + 1]
          /\ UNCHANGED <<World, row, plan, record, branch, wire, faults>>
      BY <1>8, <2>5 DEF Write
    <3>1. drain' \in Drains
      <4>1. drain \in Drains /\ "patch" \in Pcs /\ Len(commits) + 1 \in Nat
        BY <2>1 DEF TypeOK, Pcs
      <4> QED
        BY <3>0, <4>1, DrainMoves
    <3>2. op' \in [Ops -> Snapshot]
      <4>1. [state |-> "committing", attempts |-> mem.attempts, sha |-> Len(commits) + 1] \in Snapshot
        BY <2>1 DEF Snapshot, OpStates
      <4> QED
        BY <2>1, <3>0, <4>1 DEF TypeOK
    <3>3. [op |-> cur, base |-> Head_, result |-> drain.result] \in CommitObjects
      BY <2>1 DEF CommitObjects, TypeOK, Drains
    <3>4. commits' \in Seq(CommitObjects) /\ Len(commits') = Len(commits) + 1
      BY <3>0, <3>3, Appended DEF TypeOK
    <3>5. branch' \in Seq(1..Len(commits')) /\ wire' \subseteq 1..Len(commits')
      BY <2>1, <3>0, <3>4, RoomGrows DEF TypeOK
    <3> QED
      BY <3>0, <3>1, <3>2, <3>4, <3>5 DEF TypeOK, World
  <2> QED
    BY <2>2, <2>3, <2>4, <2>5
<1>9. CASE PatchLands \/ PatchUnheard \/ PatchLost
  <2>1. drain.made \in 1..Len(commits)
    BY <1>9 DEF PatchLands, PatchUnheard, PatchLost, Hands, At
  <2>2. drain' \in Drains
    BY <1>9, GotoTyped DEF PatchLands, PatchUnheard, PatchLost, Pcs
  <2>3. branch' \in Seq(1..Len(commits)) /\ wire' \subseteq 1..Len(commits) /\ commits' = commits
    <3>1. branch \in Seq(1..Len(commits)) /\ wire \subseteq 1..Len(commits)
      BY DEF TypeOK
    <3>2. CASE PatchLands \/ PatchUnheard
      <4>1. branch' = Append(branch, drain.made) /\ wire' = wire /\ commits' = commits
        BY <3>2 DEF PatchLands, PatchUnheard
      <4> QED
        BY <2>1, <3>1, <4>1, Appended
    <3>3. CASE PatchLost
      BY <2>1, <3>1, <3>3 DEF PatchLost
    <3> QED
      BY <1>9, <3>2, <3>3
  <2>4. faults' \in [Faults -> Nat]
    BY <1>9, FaultTyped DEF PatchLands, PatchUnheard, PatchLost, Faults, TypeOK
  <2> QED
    BY <1>9, <2>2, <2>3, <2>4 DEF PatchLands, PatchUnheard, PatchLost, TypeOK, World
<1>10. CASE PatchRefused
  <2>1. cur \in Ops /\ mem \in Snapshot
    BY <1>10 DEF PatchRefused, Hands, At, TypeOK, Drains, mem
  <2>2. drain' \in Drains /\ op' \in [Ops -> Snapshot]
    <3>1. CASE drain.expected = Unpinned /\ drain.tries + 1 < WriterTries
      <4>1. drain.tries + 1 \in Nat /\ drain \in Drains /\ "write" \in Pcs
        BY DEF TypeOK, Drains, Pcs
      <4>2. drain' = [drain EXCEPT !.pc = "write", !.tries = drain.tries + 1] /\ op' = op
        BY <1>10, <3>1 DEF PatchRefused
      <4> QED
        BY <4>1, <4>2, DrainMoves DEF TypeOK
    <3>2. CASE ~(drain.expected = Unpinned /\ drain.tries + 1 < WriterTries)
      BY <1>10, <2>1, <3>2, PersistTyped DEF PatchRefused, Contend, OpStates, Snapshot
    <3> QED
      BY <3>1, <3>2
  <2> QED
    BY <1>10, <2>2 DEF PatchRefused, TypeOK, World, Git
<1>11. CASE Unavailable
  BY <1>11, GotoTyped, FaultTyped DEF Unavailable, TypeOK, World, Git, Pcs, Faults
<1>12. CASE Land
  <2>1. cur \in Ops /\ drain.made \in Nat
    BY <1>12 DEF Land, Hands, At, TypeOK, Drains
  <2>2. op' \in [Ops -> Snapshot]
    BY <1>12, <2>1 DEF Land, TypeOK, Snapshot, OpStates
  <2>3. record' \in [Ops -> Fates] /\ row' \in [Ops -> RowStates]
    BY <1>12, <2>1 DEF Land, TypeOK, Fates, RowStates, Drains
  <2> QED
    BY <1>12, <2>2, <2>3, GotoTyped DEF Land, TypeOK, World, Git, Pcs
<1>13. CASE Defer
  <2>1. op' \in [Ops -> Snapshot]
    BY <1>13 DEF Defer, TypeOK, Snapshot, OpStates
  <2> QED
    BY <1>13, <2>1, GotoTyped DEF Defer, TypeOK, World, Git, Pcs
<1>14. CASE HandBack
  <2>1. cur \in Ops
    BY <1>14 DEF HandBack, Hands, At
  <2>2. drain' \in Drains
    BY <1>14, <2>1 DEF HandBack, TypeOK, Drains, Pcs
  <2> QED
    BY <1>14, <2>2 DEF HandBack, TypeOK, World, Git, RowStates
<1> QED
  BY <1>1, <1>2, <1>3, <1>4, <1>5, <1>6, <1>7, <1>8, <1>9, <1>10, <1>11, <1>12, <1>13, <1>14
     DEF Drain

LEMMA EnvironmentTyped ==
    ASSUME TypeOK, Hands, Environment \/ Commands
    PROVE  TypeOK'
<1>1. CASE Crash
  <2>1. drain' \in Drains
    BY <1>1, AsleepTyped DEF Crash
  <2>2. wire' \subseteq 1..Len(commits)
    BY <1>1 DEF Crash, TypeOK, Hands, At
  <2>3. faults' \in [Faults -> Nat]
    BY <1>1, FaultTyped DEF Crash, Faults
  <2> QED
    BY <1>1, <2>1, <2>2, <2>3 DEF Crash, TypeOK, World
<1>2. CASE Push
  <2>1. [op |-> NoOp, base |-> Head_, result |-> "applied"] \in CommitObjects
    BY DEF CommitObjects, Head_, TypeOK, Results
  <2>2. commits' \in Seq(CommitObjects) /\ Len(commits') = Len(commits) + 1 /\ Len(commits) \in Nat
    BY <1>2, <2>1, Appended DEF Push, TypeOK
  <2>3. branch \in Seq(1..Len(commits')) /\ wire \subseteq 1..Len(commits')
    BY <2>2, RoomGrows DEF TypeOK
  <2>4. branch' \in Seq(1..Len(commits'))
    BY <1>2, <2>2, <2>3, Appended DEF Push
  <2>5. faults' \in [Faults -> Nat]
    BY <1>2, FaultTyped DEF Push, Faults
  <2> QED
    BY <1>2, <2>2, <2>3, <2>4, <2>5 DEF Push, TypeOK, World
<1>3. CASE Diverge \/ Resolve \/ Tick
  <2>1. faults' \in [Faults -> Nat] /\ diverged' \in BOOLEAN /\ now' \in Nat
    <3>1. CASE Diverge
      BY <3>1, FaultTyped DEF Diverge, Faults, TypeOK
    <3>2. CASE Resolve
      BY <3>2 DEF Resolve, TypeOK
    <3>3. CASE Tick
      <4>1. now' \in Nat
        BY <3>3 DEF Tick, TypeOK
      <4> QED
        BY <3>3, <4>1 DEF Tick, TypeOK
    <3> QED
      BY <1>3, <3>1, <3>2, <3>3
  <2> QED
    BY <1>3, <2>1 DEF Diverge, Resolve, Tick, TypeOK, Git
<1>4. ASSUME NEW c \in wire, LatePatch(c)
      PROVE  TypeOK'
  <2>1. branch' \in Seq(1..Len(commits)) /\ wire' \subseteq 1..Len(commits)
    BY <1>4, Appended DEF LatePatch, TypeOK
  <2> QED
    BY <1>4, <2>1 DEF LatePatch, TypeOK, World
<1>5. ASSUME NEW o \in Ops, Enqueue(o)
      PROVE  TypeOK'
  <2>1. op' \in [Ops -> Snapshot] /\ row' \in [Ops -> RowStates] /\ born' \in [Ops -> Nat]
    BY <1>5 DEF Enqueue, TypeOK, Snapshot, OpStates, RowStates
  <2>2. queue' \in Seq(Ops)
    BY <1>5, Appended DEF Enqueue, TypeOK
  <2> QED
    BY <1>5, <2>1, <2>2 DEF Enqueue, TypeOK
<1>6. ASSUME NEW o \in Ops, Revoke(o)
      PROVE  TypeOK'
  <2>1. record' \in [Ops -> Fates] /\ row' \in [Ops -> RowStates]
    BY <1>6 DEF Revoke, TypeOK, Fates, RowStates
  <2>2. faults' \in [Faults -> Nat]
    BY <1>6, FaultTyped DEF Revoke, Faults
  <2> QED
    BY <1>6, <2>1, <2>2 DEF Revoke, TypeOK
<1>7. ASSUME NEW o \in Ops, RetryRead(o) \/ RetryBatch(o)
      PROVE  TypeOK'
  <2>1. asked' \in [Ops -> Nat]
    <3>1. CASE RetryRead(o)
      BY <3>1 DEF RetryRead, TypeOK
    <3>2. CASE RetryBatch(o)
      BY <3>2 DEF RetryBatch, TypeOK
    <3> QED
      BY <1>7, <3>1, <3>2
  <2>2. op' \in [Ops -> Snapshot] /\ row' \in [Ops -> RowStates]
    <3>1. CASE RetryRead(o)
      BY <3>1 DEF RetryRead, TypeOK
    <3>2. CASE RetryBatch(o)
      <4>1. op' \in [Ops -> Snapshot]
        BY <3>2 DEF RetryBatch, TypeOK, Snapshot, OpStates
      <4>2. row' \in [Ops -> RowStates]
        BY <3>2 DEF RetryBatch, TypeOK, RowStates
      <4> QED
        BY <4>1, <4>2
    <3> QED
      BY <1>7, <3>1, <3>2
  <2>3. faults' \in [Faults -> Nat]
    BY <1>7, FaultTyped DEF RetryRead, RetryBatch, Faults, TypeOK
  <2> QED
    BY <1>7, <2>1, <2>2, <2>3 DEF RetryRead, RetryBatch, TypeOK
<1> QED
  BY <1>1, <1>2, <1>3, <1>4, <1>5, <1>6, <1>7 DEF Environment, Commands

LEMMA Typed == TypeOK /\ Hands /\ [Next]_vars => TypeOK'
<1>1. ASSUME TypeOK, UNCHANGED vars
      PROVE  TypeOK'
  BY <1>1 DEF TypeOK, vars
<1> QED
  BY <1>1, DrainTyped, EnvironmentTyped DEF Next

-----------------------------------------------------------------------------
(* How a step changes the repository.                                      *)

\* A commit object is created on top of the head, for the drain's operation.
Creates ==
    /\ At("write") /\ ~Recorded /\ Scanned = {}
    /\ commits' = Append(commits, [op |-> cur, base |-> Head_, result |-> drain.result])
    /\ op' = [op EXCEPT ![cur] = [state |-> "committing", attempts |-> mem.attempts,
                                  sha |-> Len(commits) + 1]]
    /\ drain' = [drain EXCEPT !.pc = "patch", !.made = Len(commits) + 1]
    /\ UNCHANGED <<World, row, plan, record, branch, wire, faults>>

\* The branch is fast-forwarded to a commit.
Advances(c) ==
    /\ c \in 1..Len(commits) /\ commits[c].base = Len(branch)
    /\ branch' = Append(branch, c) /\ commits' = commits

\* The four ways through commitFiles up to the ref update.
LEMMA WriteCases ==
    ASSUME Write
    PROVE  /\ At("write") /\ UNCHANGED <<World, row, plan, record, branch, wire, faults>>
           /\ \/ Creates
              \/ /\ Recorded /\ UNCHANGED <<op, commits>>
                 /\ drain' = [drain EXCEPT !.pc = "landed", !.made = mem.sha]
              \/ /\ ~Recorded /\ UNCHANGED <<op, commits>>
                 /\ \E k \in Scanned : drain' = [drain EXCEPT !.pc = "landed", !.made = branch[k]]
              \/ ~Recorded /\ Scanned = {} /\ Contend /\ UNCHANGED commits
BY DEF Write, Creates

\* A transition of the operation reaches its row and the copy alike.
LEMMA PersistWhat ==
    ASSUME TypeOK, cur \in Ops, NEW state, NEW attempts, Persist(state, attempts)
    PROVE  /\ op'[cur] = [state |-> state, attempts |-> attempts, sha |-> op[cur].sha]
           /\ \A o \in Ops : o # cur => op'[o] = op[o]
           /\ drain'.pc = "step" /\ cur' = cur /\ drain'.stuck = drain.stuck
           /\ mem'.state = state /\ mem'.attempts = attempts /\ mem'.sha = mem.sha
BY DEF TypeOK, Drains, Snapshot, Persist, cur, mem

LEMMA BeginWhat ==
    ASSUME TypeOK, NEW o, NEW b, Begin(o, b)
    PROVE  /\ drain'.pc = "step" /\ cur' = o /\ mem' = op[o] /\ drain'.stuck = drain.stuck \ {o}
BY DEF TypeOK, Drains, Begin, cur, mem

LEMMA GitStep ==
    ASSUME TypeOK, Hands, Next
    PROVE  \/ UNCHANGED <<commits, branch>>
           \/ Creates
           \/ (PatchLands \/ PatchUnheard) /\ Advances(drain.made)
           \/ \E c \in wire : LatePatch(c) /\ Advances(c)
           \/ Push
<1>1. ASSUME NEW c \in wire, LatePatch(c)
      PROVE  UNCHANGED <<commits, branch>> \/ (LatePatch(c) /\ Advances(c))
  BY <1>1 DEF LatePatch, Advances, Head_, TypeOK
<1>2. CASE Environment
  BY <1>1, <1>2 DEF Environment, Crash, Diverge, Resolve, Tick, Git
<1>3. CASE Commands
  BY <1>3 DEF Commands, Enqueue, Revoke, RetryRead, RetryBatch
<1>4. CASE PatchLands \/ PatchUnheard
  <2>1. drain.made \in 1..Len(commits) /\ FastForward
    BY <1>4 DEF PatchLands, PatchUnheard, Hands, At
  <2>2. branch' = Append(branch, drain.made) /\ commits' = commits
    BY <1>4 DEF PatchLands, PatchUnheard
  <2> QED
    BY <1>4, <2>1, <2>2 DEF Advances, FastForward, Head_
<1>5. CASE Write
  BY <1>5, WriteCases
<1>6. CASE DrainStart \/ PickStuck \/ PickPending \/ Claim \/ Prepare \/ StartCommit \/ Retry
  BY <1>6 DEF DrainStart, PickStuck, PickPending, Claim, Prepare, StartCommit, Retry, Git
<1>7. CASE Exhaust \/ PlanFails \/ Forbidden \/ GiveUp
  BY <1>7 DEF Exhaust, PlanFails, Forbidden, GiveUp, Fail, Git
<1>8. CASE BuildPlan \/ PatchLost \/ PatchRefused \/ Unavailable \/ Land \/ Defer \/ HandBack
  BY <1>8 DEF BuildPlan, PatchLost, PatchRefused, Unavailable, Land, Defer, HandBack, Git
<1> QED
  BY <1>2, <1>3, <1>4, <1>5, <1>6, <1>7, <1>8 DEF Next, Drain

\* What is appended to the branch or to the commits leaves what was there.
LEMMA CreatesWhat ==
    ASSUME TypeOK, Hands, Creates
    PROVE  /\ Len(commits) \in Nat /\ Len(commits') = Len(commits) + 1
           /\ \A c \in 1..Len(commits) : commits'[c] = commits[c]
           /\ commits'[Len(commits) + 1] = [op |-> cur, base |-> Len(branch), result |-> drain.result]
           /\ branch' = branch /\ Len(branch) \in Nat /\ cur \in Ops
<1>1. cur \in Ops /\ drain.result \in Results /\ Len(branch) \in Nat
  BY DEF Creates, Hands, At, TypeOK, Drains
<1>2. [op |-> cur, base |-> Head_, result |-> drain.result] \in CommitObjects
  BY <1>1 DEF CommitObjects, Head_
<1>3. commits \in Seq(CommitObjects)
  BY DEF TypeOK
<1> QED
  BY <1>1, <1>2, <1>3, Appended DEF Creates, Head_

LEMMA AdvancesWhat ==
    ASSUME TypeOK, NEW c, Advances(c)
    PROVE  /\ commits' = commits /\ Len(branch) \in Nat /\ Len(branch') = Len(branch) + 1
           /\ \A k \in 1..Len(branch) : branch'[k] = branch[k]
           /\ branch'[Len(branch) + 1] = c
BY Appended DEF Advances, TypeOK

LEMMA PushWhat ==
    ASSUME TypeOK, Push
    PROVE  /\ Len(commits) \in Nat /\ Len(commits') = Len(commits) + 1
           /\ \A c \in 1..Len(commits) : commits'[c] = commits[c]
           /\ commits'[Len(commits) + 1] = [op |-> NoOp, base |-> Len(branch), result |-> "applied"]
           /\ Len(branch) \in Nat /\ Len(branch') = Len(branch) + 1
           /\ \A k \in 1..Len(branch) : branch'[k] = branch[k]
           /\ branch'[Len(branch) + 1] = Len(commits) + 1
<1>1. [op |-> NoOp, base |-> Head_, result |-> "applied"] \in CommitObjects
  BY DEF CommitObjects, Head_, TypeOK, Results
<1>2. /\ Len(commits) \in Nat /\ Len(commits') = Len(commits) + 1
      /\ \A c \in 1..Len(commits) : commits'[c] = commits[c]
      /\ commits'[Len(commits) + 1] = [op |-> NoOp, base |-> Len(branch), result |-> "applied"]
  BY <1>1, Appended DEF Push, TypeOK, Head_
<1>3. branch \in Seq(1..Len(commits) + 1)
  BY <1>2, RoomGrows DEF TypeOK
<1>4. branch' = Append(branch, Len(commits) + 1) /\ Len(commits) + 1 \in 1..Len(commits) + 1
  BY <1>2 DEF Push
<1> QED
  BY <1>2, <1>3, <1>4, Appended

\* History only grows.
LEMMA HistoryGrows ==
    ASSUME TypeOK, Hands, Next
    PROVE  /\ Len(commits) \in Nat /\ Len(commits') \in Nat /\ Len(commits) <= Len(commits')
           /\ \A c \in 1..Len(commits) : commits'[c] = commits[c]
           /\ Len(branch) \in Nat /\ Len(branch') \in Nat /\ Len(branch) <= Len(branch')
           /\ \A k \in 1..Len(branch) : branch'[k] = branch[k]
<1>0. Len(commits) \in Nat /\ Len(branch) \in Nat
  BY DEF TypeOK
<1>1. CASE UNCHANGED <<commits, branch>>
  BY <1>0, <1>1
<1>2. CASE Creates
  BY <1>0, <1>2, CreatesWhat
<1>3. ASSUME NEW c, Advances(c)
      PROVE  /\ commits' = commits /\ Len(branch') = Len(branch) + 1
             /\ \A k \in 1..Len(branch) : branch'[k] = branch[k]
  BY <1>3, AdvancesWhat
<1>4. CASE Push
  BY <1>0, <1>4, PushWhat
<1> QED
  BY <1>0, <1>1, <1>2, <1>3, <1>4, GitStep

\* What an operation has on the branch stays there, and is added to only when
\* one of its commits is fast-forwarded to: by the drain, or late.
LEMMA LandedStays ==
    ASSUME TypeOK, Hands, Next, NEW o \in Ops, NEW k \in LandedAs(o)
    PROVE  k \in LandedAs(o)' /\ branch'[k] = branch[k] /\ commits'[branch[k]] = commits[branch[k]]
<1>1. k \in 1..Len(branch) /\ branch[k] \in 1..Len(commits) /\ commits[branch[k]].op = o
  BY DEF LandedAs, TypeOK
<1>2. k \in 1..Len(branch') /\ branch'[k] = branch[k] /\ commits'[branch[k]] = commits[branch[k]]
  BY <1>1, HistoryGrows
<1> QED
  BY <1>1, <1>2 DEF LandedAs

LEMMA LandedHow ==
    ASSUME TypeOK, Hands, Next, NEW o \in Ops, NEW k \in LandedAs(o)', k \notin LandedAs(o)
    PROVE  \E c \in 1..Len(commits) :
             /\ Advances(c) /\ commits[c].op = o /\ k = Len(branch) + 1 /\ branch'[k] = c
             /\ \/ (PatchLands \/ PatchUnheard) /\ c = drain.made /\ o = cur
                \/ c \in wire /\ LatePatch(c)
<1>1. k \in 1..Len(branch') /\ commits'[branch'[k]].op = o
  BY DEF LandedAs
<1>2. Len(commits) \in Nat /\ Len(branch) \in Nat /\ \A j \in 1..Len(branch) : branch[j] \in 1..Len(commits)
  BY DEF TypeOK
<1>3. k \notin 1..Len(branch)
  <2>1. SUFFICES ASSUME k \in 1..Len(branch) PROVE FALSE
    OBVIOUS
  <2>2. branch'[k] = branch[k] /\ commits'[branch[k]] = commits[branch[k]]
    BY <1>2, <2>1, HistoryGrows
  <2> QED
    BY <1>1, <2>1, <2>2 DEF LandedAs
<1>4. CASE UNCHANGED <<commits, branch>>
  BY <1>1, <1>3, <1>4
<1>5. CASE Creates
  BY <1>1, <1>3, <1>5, CreatesWhat
<1>6. CASE Push
  <2>1. k = Len(branch) + 1
    BY <1>1, <1>2, <1>3, <1>6, PushWhat
  <2> QED
    BY <1>1, <1>6, <2>1, PushWhat, Kinds
<1>7. ASSUME NEW c, Advances(c)
      PROVE  c \in 1..Len(commits) /\ k = Len(branch) + 1 /\ branch'[k] = c /\ commits[c].op = o
  <2>1. k = Len(branch) + 1
    BY <1>1, <1>2, <1>3, <1>7, AdvancesWhat
  <2> QED
    BY <1>1, <1>7, <2>1, AdvancesWhat DEF Advances
<1>8. CASE (PatchLands \/ PatchUnheard) /\ Advances(drain.made)
  <2>1. commits[drain.made].op = cur
    BY <1>8 DEF PatchLands, PatchUnheard, Hands, At
  <2> QED
    BY <1>7, <1>8, <2>1
<1>9. CASE \E c \in wire : LatePatch(c) /\ Advances(c)
  BY <1>7, <1>9
<1> QED
  BY <1>4, <1>5, <1>6, <1>8, <1>9, GitStep
-----------------------------------------------------------------------------
(* The structural invariant.                                               *)

\* Only a new commit and the final batch change what a row says was committed.
LEMMA ShaStep ==
    ASSUME TypeOK, Hands, Next, NEW o \in Ops
    PROVE  \/ op'[o].sha = op[o].sha
           \/ Creates /\ o = cur /\ op'[o].sha = Len(commits) + 1
           \/ Land /\ o = cur /\ op'[o].sha = drain.made
<1>0. op \in [Ops -> Snapshot]
  BY DEF TypeOK
<1>1. CASE Environment
  BY <1>1 DEF Environment, Crash, Push, Diverge, Resolve, Tick, LatePatch
<1>2. CASE Commands
  <2>1. PICK p \in Ops : Enqueue(p) \/ Revoke(p) \/ RetryRead(p) \/ RetryBatch(p)
    BY <1>2 DEF Commands
  <2>2. CASE Enqueue(p)
    BY <1>0, <2>2 DEF Enqueue, Snapshot
  <2>3. CASE Revoke(p) \/ RetryRead(p)
    BY <2>3 DEF Revoke, RetryRead
  <2>4. CASE RetryBatch(p)
    BY <1>0, <2>4 DEF RetryBatch, Snapshot
  <2> QED
    BY <2>1, <2>2, <2>3, <2>4
<1>3. CASE DrainStart \/ PickStuck \/ PickPending \/ Claim \/ BuildPlan \/ PatchLands \/ PatchUnheard
           \/ PatchLost \/ Unavailable \/ HandBack
  BY <1>3 DEF DrainStart, PickStuck, PickPending, Claim, BuildPlan, PatchLands, PatchUnheard,
     PatchLost, Unavailable, HandBack
<1>4. CASE Prepare \/ StartCommit \/ Retry \/ Defer
  BY <1>0, <1>4 DEF Prepare, StartCommit, Retry, Defer, Persist, Snapshot
<1>5. CASE Exhaust \/ PlanFails \/ Forbidden \/ GiveUp
  BY <1>0, <1>5 DEF Exhaust, PlanFails, Forbidden, GiveUp, Fail, Snapshot
<1>6. CASE PatchRefused
  BY <1>0, <1>6 DEF PatchRefused, Contend, Persist, Snapshot
<1>7. CASE Write
  <2>1. CASE Creates
    BY <1>0, <2>1 DEF Creates, Snapshot
  <2>2. CASE Contend
    BY <1>0, <2>2 DEF Contend, Persist, Snapshot
  <2> QED
    BY <1>7, <2>1, <2>2, WriteCases
<1>8. CASE Land
  BY <1>0, <1>8 DEF Land, Snapshot
<1> QED
  BY <1>1, <1>2, <1>3, <1>4, <1>5, <1>6, <1>7, <1>8 DEF Next, Drain

\* The copy in memory is taken from the row, and its commit never replaced.
LEMMA MemStep ==
    ASSUME TypeOK, Hands, Next, drain'.pc \in {"step", "write", "patch"}
    PROVE  \/ mem'.sha = op[cur'].sha /\ op' = op /\ cur' \in Ops /\ drain'.pc = "step"
           \/ /\ cur' = cur /\ mem'.sha = mem.sha /\ drain.pc \in {"step", "write", "patch"}
              /\ drain'.pc = "patch" => At("patch") \/ Creates
              /\ At("patch") => branch' = branch \/ drain' = drain
<1>0. drain \in Drains
  BY DEF TypeOK
<1>1. CASE drain' = drain
  BY <1>1 DEF cur, mem, At
<1>2. CASE Environment
  BY <1>1, <1>2 DEF Environment, Crash, Push, Diverge, Resolve, Tick, LatePatch, Asleep
<1>3. CASE Commands
  BY <1>1, <1>3 DEF Commands, Enqueue, Revoke, RetryRead, RetryBatch
<1>4. CASE DrainStart \/ PickPending
  <2>1. Asleep.pc = "idle"
    BY DEF Asleep
  <2>2. drain'.pc \in {"idle", "pick", "claim"}
    BY <1>0, <1>4, <2>1, AsleepTyped DEF DrainStart, PickPending, Drains
  <2> QED
    BY <2>2
<1>5. CASE PickStuck
  <2>1. \/ drain' = [drain EXCEPT !.stuck = drain'.stuck]
        \/ \E o \in Ops : Begin(o, TRUE)
    BY <1>0, <1>5 DEF PickStuck, Oldest, Drains
  <2> QED
    BY <1>0, <1>5, <2>1, BeginWhat DEF PickStuck, At, Drains
<1>6. CASE Claim
  <2>1. cur \in Ops
    BY <1>6 DEF Claim, Hands, At
  <2>2. CASE Begin(cur, FALSE)
    BY <1>6, <2>1, <2>2, BeginWhat DEF Claim
  <2>3. CASE ~Begin(cur, FALSE)
    BY <1>0, <1>6, <2>3 DEF Claim, Drains
  <2> QED
    BY <2>2, <2>3
<1>7. CASE Prepare \/ StartCommit \/ Retry
  <2>1. At("step") /\ cur \in Ops
    BY <1>7 DEF Prepare, StartCommit, Retry, Hands, At
  <2> QED
    <3>1. CASE Prepare
      BY <2>1, <3>1, PersistWhat DEF Prepare, At
    <3>2. CASE StartCommit
      BY <2>1, <3>2, PersistWhat DEF StartCommit, At
    <3>3. CASE Retry
      BY <2>1, <3>3, PersistWhat DEF Retry, At
    <3> QED
      BY <1>7, <3>1, <3>2, <3>3
<1>8. CASE BuildPlan
  BY <1>0, <1>8 DEF BuildPlan, ToWrite, At, Drains, cur, mem
<1>9. CASE Exhaust \/ PlanFails \/ Forbidden \/ GiveUp
  BY <1>0, <1>9 DEF Exhaust, PlanFails, Forbidden, GiveUp, Fail, Goto, Drains
<1>10. CASE PatchLands \/ PatchUnheard \/ PatchLost \/ Unavailable \/ Land \/ Defer \/ HandBack
  BY <1>0, <1>10 DEF PatchLands, PatchUnheard, PatchLost, Unavailable, Land, Defer, HandBack, Goto, Drains
<1>11. CASE PatchRefused
  <2>1. At("patch") /\ cur \in Ops /\ branch' = branch
    BY <1>11 DEF PatchRefused, Hands, At, Git
  <2>2. CASE Contend
    BY <2>1, <2>2, PersistWhat DEF Contend, At
  <2>3. CASE ~Contend
    BY <1>0, <1>11, <2>1, <2>3 DEF PatchRefused, At, Drains, cur, mem
  <2> QED
    BY <2>2, <2>3
<1>12. CASE Write
  <2>1. At("write") /\ cur \in Ops
    BY <1>12 DEF Write, Hands, At
  <2>2. CASE Creates
    BY <1>0, <2>1, <2>2 DEF Creates, At, Drains, cur, mem
  <2>3. CASE Contend
    BY <2>1, <2>3, PersistWhat DEF Contend, At
  <2>4. CASE ~Creates /\ ~Contend
    BY <1>0, <1>12, <2>4, WriteCases DEF Drains
  <2> QED
    BY <2>2, <2>3, <2>4
<1> QED
  BY <1>2, <1>3, <1>4, <1>5, <1>6, <1>7, <1>8, <1>9, <1>10, <1>11, <1>12 DEF Next, Drain

LEMMA OwnStays ==
    ASSUME TypeOK, Hands, Next, NEW o, NEW sha, OwnCommit(o, sha)
    PROVE  OwnCommit(o, sha)'
BY HistoryGrows DEF OwnCommit

\* Where the drain is after a step, for the states in which it holds a commit.
LEMMA Holding ==
    ASSUME TypeOK, Hands, Next, drain'.pc \in {"patch", "landed"}
    PROVE  \/ drain' = drain
           \/ Creates
           \/ /\ Write /\ Recorded /\ drain' = [drain EXCEPT !.pc = "landed", !.made = mem.sha]
              /\ UNCHANGED <<op, commits, branch>>
           \/ /\ Write /\ UNCHANGED <<op, commits, branch>>
              /\ \E k \in Scanned : drain' = [drain EXCEPT !.pc = "landed", !.made = branch[k]]
           \/ PatchLands /\ Advances(drain.made) /\ drain' = [drain EXCEPT !.pc = "landed"]
<1>0. drain \in Drains
  BY DEF TypeOK
<1>1. CASE Environment
  BY <1>1, AsleepTyped DEF Environment, Crash, Push, Diverge, Resolve, Tick, LatePatch
<1>2. CASE Commands
  BY <1>2 DEF Commands, Enqueue, Revoke, RetryRead, RetryBatch
<1>3. CASE DrainStart \/ PickPending
  <2>1. Asleep.pc = "idle"
    BY DEF Asleep
  <2>2. drain'.pc \in {"idle", "pick", "claim"}
    BY <1>0, <1>3, <2>1, AsleepTyped DEF DrainStart, PickPending, Drains
  <2> QED
    BY <2>2
<1>4. CASE PickStuck \/ Claim
  BY <1>0, <1>4 DEF PickStuck, Claim, Begin, At, Drains
<1>5. CASE Prepare \/ StartCommit \/ Retry
  BY <1>0, <1>5 DEF Prepare, StartCommit, Retry, Persist, Drains
<1>6. CASE BuildPlan
  BY <1>0, <1>6 DEF BuildPlan, ToWrite, Drains
<1>7. CASE Exhaust \/ PlanFails \/ Forbidden \/ GiveUp
  BY <1>0, <1>7 DEF Exhaust, PlanFails, Forbidden, GiveUp, Fail, Goto, Drains
<1>8. CASE PatchLands
  <2>1. drain' = [drain EXCEPT !.pc = "landed"]
    BY <1>8 DEF PatchLands, Goto
  <2>2. drain.made \in 1..Len(commits) /\ FastForward
    BY <1>8 DEF PatchLands, Hands, At
  <2> QED
    BY <1>8, <2>1, <2>2 DEF Advances, FastForward, Head_, PatchLands
<1>9. CASE PatchUnheard \/ PatchLost \/ Unavailable \/ Land \/ Defer \/ HandBack
  BY <1>0, <1>9 DEF PatchUnheard, PatchLost, Unavailable, Land, Defer, HandBack, Goto, Drains
<1>10. CASE PatchRefused
  BY <1>0, <1>10 DEF PatchRefused, Contend, Persist, Drains
<1>11. CASE Write
  <2>1. CASE Contend
    BY <1>0, <2>1 DEF Contend, Persist, Drains
  <2> QED
    BY <1>11, <2>1, WriteCases
<1> QED
  BY <1>1, <1>2, <1>3, <1>4, <1>5, <1>6, <1>7, <1>8, <1>9, <1>10, <1>11 DEF Next, Drain

\* The drain takes operations only from the database.
LEMMA CurStep ==
    ASSUME TypeOK, Hands, Next, drain'.pc \notin {"idle", "pick"}
    PROVE  cur' \in Ops
<1>0. drain \in Drains
  BY DEF TypeOK
<1>1. CASE Environment
  BY <1>1 DEF Environment, Crash, Push, Diverge, Resolve, Tick, LatePatch, Asleep, Hands, cur
<1>2. CASE Commands
  BY <1>2 DEF Commands, Enqueue, Revoke, RetryRead, RetryBatch, Hands, cur
<1>3. CASE DrainStart
  BY <1>3, AsleepTyped DEF DrainStart, Drains
<1>4. CASE PickPending
  <2>1. drain' # Asleep
    BY <1>4, AsleepTyped
  <2>2. PICK o \in Ops : drain' = [drain EXCEPT !.pc = "claim", !.cur = o]
    BY <1>4, <2>1 DEF PickPending, Oldest
  <2> QED
    BY <1>0, <2>2 DEF Drains, cur
<1>5. CASE drain'.pc \in {"step", "write", "patch"}
  BY <1>5, MemStep DEF Hands
<1>6. CASE drain'.pc = "landed"
  <2>1. cur' = cur /\ (drain' = drain \/ drain.pc \in {"write", "patch"})
    BY <1>0, <1>6, Holding DEF Creates, Write, PatchLands, At, Drains, cur
  <2> QED
    BY <1>6, <2>1 DEF Hands
<1>7. CASE Drain /\ drain'.pc \in {"claim", "defer", "deferred"} /\ ~PickPending
  <2>1. CASE Exhaust \/ PlanFails \/ Forbidden \/ GiveUp
    BY <1>0, <1>7, <2>1 DEF Exhaust, PlanFails, Forbidden, GiveUp, Fail, Goto, Drains
  <2>2. CASE DrainStart \/ PickStuck
    BY <1>0, <1>7, <2>2, AsleepTyped DEF DrainStart, PickStuck, Begin, At, Drains
  <2>3. CASE PatchUnheard \/ PatchLost \/ Unavailable \/ Defer
    <3>1. cur' = cur /\ drain.pc \in {"patch", "write", "defer"}
      BY <1>0, <2>3 DEF PatchUnheard, PatchLost, Unavailable, Defer, Goto, At, Drains, cur
    <3> QED
      BY <3>1 DEF Hands
  <2>4. CASE Claim \/ HandBack \/ Land \/ PatchLands
    BY <1>0, <1>7, <2>4 DEF Claim, HandBack, Land, PatchLands, Begin, Goto, Drains
  <2>5. CASE Prepare \/ StartCommit \/ Retry \/ PatchRefused
    BY <1>0, <1>7, <2>5 DEF Prepare, StartCommit, Retry, PatchRefused, Contend, Persist, Drains
  <2>6. CASE BuildPlan
    BY <1>0, <1>7, <2>6 DEF BuildPlan, ToWrite, Drains
  <2>7. CASE Write
    BY <1>0, <1>7, <2>7, WriteCases DEF Creates, Contend, Persist, Drains
  <2> QED
    BY <1>7, <2>1, <2>2, <2>3, <2>4, <2>5, <2>6, <2>7 DEF Drain
<1>8. drain'.pc \in Pcs
  BY Typed DEF TypeOK, Drains
<1> QED
  BY <1>1, <1>2, <1>3, <1>4, <1>5, <1>6, <1>7, <1>8 DEF Next, Pcs

LEMMA HandsStep ==
    ASSUME TypeOK, Hands, Signed, Next
    PROVE  Hands'
<1>0. drain \in Drains
  BY DEF TypeOK
<1>1. CASE drain' = drain
  <2>1. At("patch") => op'[cur].sha = op[cur].sha
    BY ShaStep DEF Hands, At, Creates, Land
  <2>2. At("landed") => OnBranch(drain.made)'
    BY <1>1, HistoryGrows DEF Hands, OnBranch
  <2> QED
    BY <1>1, <2>1, <2>2, HistoryGrows DEF Hands, At, cur
<1>2. CASE Creates
  <2>1. cur' = cur /\ drain'.made = Len(commits) + 1 /\ drain'.pc = "patch"
    BY <1>0, <1>2 DEF Creates, Drains, cur
  <2>2. op'[cur].sha = Len(commits) + 1
    BY <1>2, CreatesWhat DEF Creates, TypeOK
  <2> QED
    BY <1>2, <2>1, <2>2, CreatesWhat DEF Hands, At
<1>3. CASE /\ Write /\ Recorded /\ drain' = [drain EXCEPT !.pc = "landed", !.made = mem.sha]
           /\ UNCHANGED <<op, commits, branch>>
  <2>1. drain.pc = "write" /\ OwnCommit(cur, mem.sha) /\ cur \in Ops
    BY <1>3 DEF Write, At, Signed, Hands
  <2>2. cur' = cur /\ drain'.made = mem.sha /\ drain'.pc = "landed"
    BY <1>0, <1>3 DEF Drains, cur
  <2> QED
    BY <1>3, <2>1, <2>2 DEF Hands, At, OnBranch, Recorded, OwnCommit
<1>4. CASE /\ Write /\ UNCHANGED <<op, commits, branch>>
           /\ \E k \in Scanned : drain' = [drain EXCEPT !.pc = "landed", !.made = branch[k]]
  <2>1. cur \in Ops
    BY <1>4 DEF Write, At, Hands
  <2>2. PICK k \in Scanned : drain' = [drain EXCEPT !.pc = "landed", !.made = branch[k]]
    BY <1>4
  <2>3. cur' = cur /\ drain'.made = branch[k] /\ drain'.pc = "landed"
    BY <1>0, <2>2 DEF Drains, cur
  <2>4. k \in 1..Len(branch) /\ branch[k] \in 1..Len(commits) /\ commits[branch[k]].op = cur
    BY DEF Scanned, LandedAs, TypeOK
  <2> QED
    BY <1>4, <2>1, <2>3, <2>4 DEF Hands, At, OnBranch
<1>5. CASE PatchLands /\ Advances(drain.made) /\ drain' = [drain EXCEPT !.pc = "landed"]
  <2>1. drain.made \in 1..Len(commits) /\ commits[drain.made].op = cur /\ cur \in Ops
    BY <1>5 DEF PatchLands, At, Hands
  <2>2. cur' = cur /\ drain'.made = drain.made /\ drain'.pc = "landed"
    BY <1>0, <1>5 DEF Drains, cur
  <2> QED
    BY <1>5, <2>1, <2>2, AdvancesWhat DEF Hands, At, OnBranch
<1>6. CASE drain'.pc \notin {"patch", "landed"}
  BY <1>6, CurStep DEF Hands, At
<1> QED
  BY <1>1, <1>2, <1>3, <1>4, <1>5, <1>6, Holding

LEMMA SignedStep ==
    ASSUME TypeOK, Hands, Signed, Next
    PROVE  Signed'
<1>1. ASSUME NEW o \in Ops
      PROVE  OwnCommit(o, op[o].sha)'
  <2>1. CASE op'[o].sha = op[o].sha
    BY <2>1, HistoryGrows DEF Signed, OwnCommit
  <2>2. CASE Creates /\ o = cur /\ op'[o].sha = Len(commits) + 1
    BY <2>2, CreatesWhat DEF OwnCommit
  <2>3. CASE Land /\ o = cur /\ op'[o].sha = drain.made
    BY <2>3, HistoryGrows DEF Land, Hands, At, OwnCommit
  <2> QED
    BY <2>1, <2>2, <2>3, ShaStep
<1>2. ASSUME drain'.pc \in {"step", "write", "patch"}
      PROVE  OwnCommit(cur, mem.sha)'
  <2>1. CASE mem'.sha = op[cur'].sha /\ op' = op /\ cur' \in Ops
    BY <1>1, <2>1 DEF OwnCommit
  <2>2. CASE cur' = cur /\ mem'.sha = mem.sha /\ drain.pc \in {"step", "write", "patch"}
    BY <2>2, HistoryGrows DEF Signed, OwnCommit
  <2> QED
    BY <1>2, <2>1, <2>2, MemStep
<1> QED
  BY <1>1, <1>2 DEF Signed

LEMMA ChainedStep ==
    ASSUME TypeOK, Hands, Chained, Next
    PROVE  Chained'
<1>0. /\ Len(commits) \in Nat /\ Len(branch) \in Nat
      /\ \A k \in 1..Len(branch) : branch[k] \in 1..Len(commits)
  BY DEF TypeOK
<1>1. \A c \in 1..Len(commits) : commits[c].base \in Nat /\ commits[c].base <= Len(branch)
  <2>1. \A c \in 1..Len(commits) : commits[c] \in CommitObjects
    BY DEF TypeOK
  <2> QED
    BY <2>1 DEF CommitObjects, Chained
<1>2. \A k \in 1..Len(branch) : commits[branch[k]].base = k - 1
  BY DEF Chained
<1>3. \A k \in 1..Len(branch) : commits'[branch[k]].base = k - 1
  BY <1>0, <1>2, HistoryGrows
<1>4. CASE UNCHANGED <<commits, branch>>
  BY <1>4 DEF Chained
<1>5. CASE Creates
  <2>1. \A c \in 1..Len(commits') : commits'[c].base <= Len(branch)
    <3> SUFFICES ASSUME NEW c \in 1..Len(commits')
                 PROVE  commits'[c].base <= Len(branch)
      OBVIOUS
    <3>1. CASE c \in 1..Len(commits)
      BY <1>1, <1>5, <3>1, CreatesWhat
    <3>2. CASE c = Len(commits) + 1
      BY <1>0, <1>5, <3>2, CreatesWhat
    <3> QED
      BY <1>0, <1>5, <3>1, <3>2, CreatesWhat
  <2> QED
    BY <1>3, <1>5, <2>1, CreatesWhat DEF Chained
<1>6. ASSUME NEW c, Advances(c)
      PROVE  Chained'
  <2>1. c \in 1..Len(commits) /\ commits[c].base = Len(branch)
    BY <1>6 DEF Advances
  <2>2. \A k \in 1..Len(branch') : commits'[branch'[k]].base = k - 1
    <3> SUFFICES ASSUME NEW k \in 1..Len(branch')
                 PROVE  commits'[branch'[k]].base = k - 1
      OBVIOUS
    <3>1. CASE k \in 1..Len(branch)
      BY <1>2, <1>6, <3>1, AdvancesWhat
    <3>2. CASE k = Len(branch) + 1
      BY <1>0, <1>6, <2>1, <3>2, AdvancesWhat
    <3> QED
      BY <1>0, <1>6, <3>1, <3>2, AdvancesWhat
  <2>3. \A d \in 1..Len(commits') : commits'[d].base <= Len(branch')
    BY <1>0, <1>1, <1>6, AdvancesWhat
  <2> QED
    BY <2>2, <2>3 DEF Chained
<1>7. CASE Push
  <2>1. \A k \in 1..Len(branch') : commits'[branch'[k]].base = k - 1
    <3> SUFFICES ASSUME NEW k \in 1..Len(branch')
                 PROVE  commits'[branch'[k]].base = k - 1
      OBVIOUS
    <3>1. CASE k \in 1..Len(branch)
      BY <1>3, <1>7, <3>1, PushWhat
    <3>2. CASE k = Len(branch) + 1
      BY <1>0, <1>7, <3>2, PushWhat
    <3> QED
      BY <1>0, <1>7, <3>1, <3>2, PushWhat
  <2>2. \A c \in 1..Len(commits') : commits'[c].base <= Len(branch')
    <3> SUFFICES ASSUME NEW c \in 1..Len(commits')
                 PROVE  commits'[c].base <= Len(branch')
      OBVIOUS
    <3>1. CASE c \in 1..Len(commits)
      BY <1>0, <1>1, <1>7, <3>1, PushWhat
    <3>2. CASE c = Len(commits) + 1
      BY <1>0, <1>7, <3>2, PushWhat
    <3> QED
      BY <1>0, <1>7, <3>1, <3>2, PushWhat
  <2> QED
    BY <2>1, <2>2 DEF Chained
<1> QED
  BY <1>4, <1>5, <1>6, <1>7, GitStep

-----------------------------------------------------------------------------
(* At most one commit.                                                     *)

\* Nothing travels that nobody waits for, unless the server may be late.
LEMMA WireStays ==
    ASSUME ~Late, wire = {}, Next
    PROVE  wire' = {}
BY DEF Next, Drain, Environment, Commands, DrainStart, PickStuck, PickPending, Claim, Prepare,
   StartCommit, Retry, Exhaust, BuildPlan, PlanFails, Write, PatchLands, PatchUnheard, PatchLost,
   PatchRefused, Unavailable, Forbidden, Land, Defer, GiveUp, HandBack, Fail, Crash, Push, Diverge,
   Resolve, Tick, Enqueue, Revoke, RetryRead, RetryBatch, Git

LEMMA LastStep ==
    ASSUME TypeOK, Hands, Signed, Last, ~Late, Next
    PROVE  Last'
<1>1. wire' = {}
  BY WireStays DEF Last
<1>2. ASSUME NEW o \in Ops, NEW k \in LandedAs(o)', k \notin LandedAs(o)
      PROVE  /\ PatchLands \/ PatchUnheard
             /\ o = cur /\ branch'[k] = drain.made /\ drain.made = op[cur].sha
  BY <1>2, LandedHow DEF Last, PatchLands, PatchUnheard, Hands, At
<1>3. ASSUME NEW o \in Ops, NEW k \in LandedAs(o)'
      PROVE  branch'[k] = op'[o].sha
  <2>1. CASE k \in LandedAs(o)
    <3>1. branch[k] = op[o].sha /\ branch'[k] = branch[k] /\ branch[k] # 0
      <4>1. k \in 1..Len(branch) /\ branch[k] \in 1..Len(commits)
        BY <2>1 DEF LandedAs, TypeOK
      <4> QED
        BY <2>1, <4>1, LandedStays DEF Last
    <3>2. ~(Creates /\ o = cur)
      <4> SUFFICES ASSUME Creates, o = cur PROVE FALSE
        OBVIOUS
      <4>1. mem.sha = op[cur].sha /\ ~Recorded
        BY <2>1 DEF Last, Creates, At, Landed
      <4> QED
        BY <2>1, <3>1, <4>1 DEF Recorded, OnBranch, LandedAs
    <3>3. Land /\ o = cur => drain.made = op[o].sha
      <4> SUFFICES ASSUME Land, o = cur PROVE drain.made = op[o].sha
        OBVIOUS
      <4>1. OnBranch(drain.made) /\ commits[drain.made].op = cur
        BY DEF Land, Hands, At
      <4>2. PICK j \in 1..Len(branch) : branch[j] = drain.made
        BY <4>1 DEF OnBranch
      <4> QED
        BY <4>1, <4>2 DEF Last, LandedAs
    <3> QED
      BY <3>1, <3>2, <3>3, ShaStep
  <2>2. CASE k \notin LandedAs(o)
    <3>1. ~Creates /\ ~Land
      BY <1>2, <2>2 DEF PatchLands, PatchUnheard, Creates, Land, At
    <3> QED
      BY <1>2, <2>2, <3>1, ShaStep
  <2> QED
    BY <2>1, <2>2
<1>4. ASSUME drain'.pc \in {"step", "write"}, Landed(cur)'
      PROVE  mem'.sha = op'[cur'].sha
  <2>1. CASE mem'.sha = op[cur'].sha /\ op' = op
    BY <2>1
  <2>2. CASE cur' = cur /\ mem'.sha = mem.sha /\ drain.pc \in {"step", "write", "patch"}
             /\ (At("patch") => branch' = branch \/ drain' = drain)
    <3>0. PICK o \in Ops : o = cur /\ o = cur'
      BY <2>2 DEF Hands
    <3>1. cur \in Ops
      BY <3>0
    <3>2. PICK k \in LandedAs(o)' : TRUE
      BY <1>4, <3>0 DEF Landed
    <3>3. ~(PatchLands \/ PatchUnheard)
      <4> SUFFICES ASSUME PatchLands \/ PatchUnheard PROVE FALSE
        OBVIOUS
      <4>1. drain'.pc \in {"landed", "defer"}
        BY DEF PatchLands, PatchUnheard, Goto, TypeOK, Drains
      <4> QED
        BY <1>4, <4>1
    <3>4. k \in LandedAs(cur)
      BY <1>2, <3>0, <3>2, <3>3
    <3>5. drain.pc \in {"step", "write"}
      BY <2>2, <3>4 DEF Last, At, Landed
    <3>6. mem.sha = op[cur].sha
      BY <3>4, <3>5 DEF Last, Landed
    <3>7. branch'[k] = op'[cur].sha /\ branch[k] = op[cur].sha /\ branch'[k] = branch[k]
      BY <1>3, <3>0, <3>2, <3>4, LandedStays DEF Last
    <3> QED
      BY <2>2, <3>6, <3>7
  <2> QED
    BY <1>4, <2>1, <2>2, MemStep
<1>5. ASSUME drain'.pc = "patch"
      PROVE  ~Landed(cur)'
  <2>1. cur' = cur /\ cur \in Ops /\ (At("patch") \/ Creates)
    BY <1>5, MemStep, HandsStep DEF Hands, At, Creates
  <2>2. ~Landed(cur)
    <3>1. CASE At("patch")
      BY <3>1 DEF Last
    <3>2. CASE Creates
      <4> SUFFICES ASSUME NEW k \in LandedAs(cur) PROVE FALSE
        BY DEF Landed
      <4>1. mem.sha = op[cur].sha /\ ~Recorded
        BY <3>2 DEF Last, Creates, At, Landed
      <4>2. branch[k] = op[cur].sha /\ branch[k] # 0 /\ k \in 1..Len(branch)
        BY <2>1 DEF Last, LandedAs, TypeOK
      <4> QED
        BY <4>1, <4>2 DEF Recorded, OnBranch
    <3> QED
      BY <2>1, <3>1, <3>2
  <2>3. ~(PatchLands \/ PatchUnheard)
    <3> SUFFICES ASSUME PatchLands \/ PatchUnheard PROVE FALSE
      OBVIOUS
    <3>1. drain'.pc \in {"landed", "defer"}
      BY DEF PatchLands, PatchUnheard, Goto, TypeOK, Drains
    <3> QED
      BY <1>5, <3>1
  <2> QED
    BY <1>2, <2>1, <2>2, <2>3 DEF Landed
<1> QED
  BY <1>1, <1>3, <1>4, <1>5 DEF Last, At

LEMMA StructureStep == Structure /\ [Next]_vars => Structure'
<1>1. ASSUME Structure, Next
      PROVE  Structure'
  BY <1>1, Typed, HandsStep, SignedStep, ChainedStep, LastStep DEF Structure
<1>2. ASSUME Structure, UNCHANGED vars
      PROVE  Structure'
  BY <1>2 DEF vars, Structure, TypeOK, Hands, Signed, OwnCommit, Chained, Last, Landed, LandedAs,
     OnBranch, At, cur, mem
<1> QED
  BY <1>1, <1>2

LEMMA InitStructure == Init => Structure
<1> SUFFICES ASSUME Init PROVE Structure
  OBVIOUS
<1>1. drain.pc = "idle" /\ wire = {} /\ branch = <<>> /\ commits = <<>> /\ Len(branch) = 0 /\ Len(commits) = 0
  BY AsleepTyped DEF Init
<1>2. \A o \in Ops : op[o].sha = 0
  BY DEF Init
<1> QED
  BY <1>1, <1>2, InitTyped DEF Structure, Hands, Signed, OwnCommit, Chained, Last, LandedAs, Landed, At

LEMMA StructureHolds == Spec => []Structure
BY InitStructure, StructureStep, PTL DEF Spec

\* Every variable keeps its type: the drain's memory is coherent at every point
\* where a crash may find it, and every commit on the branch exists.
THEOREM TypeCorrect == Spec => []TypeOK
<1>1. Structure => TypeOK
  BY DEF Structure
<1> QED
  BY <1>1, StructureHolds, PTL

\* What is created has nothing of its operation beneath it: the drain would have
\* found it by the commit it remembers or by the trailer.
LEMMA CreatesFresh ==
    ASSUME Structure, InReach, Creates
    PROVE  LandedAs(cur) = {}
<1>1. CASE Late
  BY <1>1 DEF InReach, Creates
<1>2. CASE ~Late
  <2> SUFFICES ASSUME NEW k \in LandedAs(cur) PROVE FALSE
    OBVIOUS
  <2>1. cur \in Ops /\ drain.pc = "write" /\ Landed(cur) /\ ~Recorded
    BY DEF Structure, Hands, Creates, At, Landed
  <2>2. mem.sha = op[cur].sha /\ branch[k] = op[cur].sha
    BY <1>2, <2>1 DEF Structure, Last
  <2>3. k \in 1..Len(branch) /\ branch[k] \in 1..Len(commits)
    BY DEF LandedAs, Structure, TypeOK
  <2> QED
    BY <2>1, <2>2, <2>3 DEF Recorded, OnBranch
<1> QED
  BY <1>1, <1>2

LEMMA FreshStep ==
    ASSUME Structure, Fresh, InReach, Next
    PROVE  Fresh'
<1>0. TypeOK /\ Hands /\ Chained
  BY DEF Structure
<1> SUFFICES ASSUME NEW c \in 1..Len(commits'), NEW o \in Ops, commits'[c].op = o,
                    NEW k \in LandedAs(o)'
             PROVE  k > commits'[c].base
  BY DEF Fresh
<1>1. CASE c \in 1..Len(commits)
  <2>1. commits'[c] = commits[c]
    BY <1>0, <1>1, HistoryGrows
  <2>2. CASE k \in LandedAs(o)
    BY <1>1, <2>1, <2>2 DEF Fresh
  <2>3. CASE k \notin LandedAs(o)
    <3>1. k = Len(branch) + 1 /\ Len(branch) \in Nat
      BY <1>0, <2>3, LandedHow DEF TypeOK
    <3>2. commits[c].base <= Len(branch) /\ commits[c].base \in Nat
      <4>1. commits[c] \in CommitObjects
        BY <1>0, <1>1 DEF TypeOK
      <4> QED
        BY <1>0, <1>1, <4>1 DEF Chained, CommitObjects
    <3> QED
      BY <2>1, <3>1, <3>2
  <2> QED
    BY <2>2, <2>3
<1>2. CASE c \notin 1..Len(commits)
  <2>1. CASE Creates
    <3>1. c = Len(commits) + 1 /\ o = cur
      BY <1>0, <1>2, <2>1, CreatesWhat
    <3>2. branch' = branch /\ \A j \in 1..Len(branch) : commits'[branch[j]] = commits[branch[j]]
      <4>1. \A j \in 1..Len(branch) : branch[j] \in 1..Len(commits)
        BY <1>0 DEF TypeOK
      <4> QED
        BY <1>0, <2>1, <4>1, CreatesWhat
    <3>3. k \in LandedAs(o)
      BY <3>2 DEF LandedAs
    <3> QED
      BY <2>1, <3>1, <3>3, CreatesFresh
  <2>2. CASE Push
    BY <1>0, <1>2, <2>2, PushWhat, Kinds
  <2>3. CASE commits' = commits
    BY <1>2, <2>3
  <2> QED
    BY <1>0, <2>1, <2>2, <2>3, GitStep DEF Advances
<1> QED
  BY <1>1, <1>2

\* Two commits of one operation on the branch would be one on top of the other.
LEMMA FreshOnce == Structure /\ Fresh => CommittedOnce
<1> SUFFICES ASSUME Structure, Fresh, NEW o \in Ops
             PROVE  Cardinality(LandedAs(o)) <= 1
  BY DEF CommittedOnce
<1>1. ASSUME NEW j \in LandedAs(o), NEW k \in LandedAs(o), j < k
      PROVE  FALSE
  <2>1. k \in 1..Len(branch) /\ j \in 1..Len(branch) /\ branch[k] \in 1..Len(commits)
    BY DEF LandedAs, Structure, TypeOK
  <2>2. commits[branch[k]].op = o /\ commits[branch[k]].base = k - 1
    BY <2>1 DEF LandedAs, Structure, Chained
  <2>3. j > k - 1
    BY <2>1, <2>2 DEF Fresh
  <2> QED
    BY <1>1, <2>1, <2>3
<1>2. LandedAs(o) \subseteq Nat
  BY DEF LandedAs, Structure, TypeOK
<1>3. CASE LandedAs(o) = {}
  BY <1>3, FS_EmptySet
<1>4. CASE LandedAs(o) # {}
  <2>1. PICK j \in LandedAs(o) : TRUE
    BY <1>4
  <2>2. LandedAs(o) = {j}
    BY <1>1, <1>2, <2>1
  <2>3. Cardinality({j}) = 1
    BY FS_Singleton
  <2> QED
    BY <2>2, <2>3
<1> QED
  BY <1>3, <1>4

\* An operation reaches the branch at most once through any crashes, lost
\* answers, retries, pushes and late updates, as long as the trailer scan
\* reaches back to what the operation already has there.
THEOREM WrittenOnce == Spec /\ []InReach => []CommittedOnce
<1>1. Init => Fresh
  BY DEF Init, Fresh
<1>2. Structure /\ Fresh /\ InReach /\ [Next]_vars => Fresh'
  <2>1. ASSUME Fresh, UNCHANGED vars
        PROVE  Fresh'
    BY <2>1 DEF Fresh, LandedAs, vars
  <2> QED
    BY <2>1, FreshStep
<1> QED
  BY <1>1, <1>2, StructureHolds, FreshOnce, PTL DEF Spec

\* Where an update that failed never arrives, no scan is needed: the commit the
\* row remembers is enough.
THEOREM WrittenOnceInTime ==
    ASSUME ~Late
    PROVE  Spec => []CommittedOnce
<1>1. InReach
  BY DEF InReach
<1> QED
  BY <1>1, WrittenOnce, PTL
-----------------------------------------------------------------------------
(* The project as long as nothing is unavailable: crashes, pushes of       *)
(* others, divergences and revocations only.  An outage may cost a plan    *)
(* its attempt, a requeue reopens a failed operation, a late update lands  *)
(* under a plan that was replaced, and a repository document refuses to be *)
(* replayed over its own commit; each of the four breaks what follows.     *)

Calm ==
    /\ ~Late /\ Documents = {}
    /\ \A b \in Budgets : b["outage"] = 0 /\ b["requeue"] = 0

\* No operation is deferred or requeued.
Quiet ==
    /\ faults["outage"] = 0 /\ faults["requeue"] = 0
    /\ asked = [o \in Ops |-> 0]
    /\ drain.pc \notin {"defer", "deferred"}

Live == {"queued", "preparing", "committing", "conflict"}

\* A row that waits or is worked on belongs to an operation that is not over,
\* and the drain's copy of the operation it works on is current.
InHand ==
    /\ \A o \in Ops : row[o] \in {"pending", "processing"} => op[o].state \in Live
    /\ \A o \in Ops : row[o] = "none" => op[o].state = "none"
    /\ \A o \in drain.stuck : op[o].state \in Live
    /\ drain.pc \notin {"idle", "pick"} => cur \notin drain.stuck
    /\ drain.pc \in {"step", "write", "patch", "landed"} =>
         /\ mem.state = op[cur].state /\ mem.attempts = op[cur].attempts
         /\ mem.state \in Live
    /\ drain.pc \in {"write", "patch", "landed"} => mem.state = "committing"

\* An operation on the branch is committed or about to be, its outcome is still
\* the one persisted, and a drain that resumes it will reuse that outcome.
Landing ==
    \A o \in Ops : \A k \in LandedAs(o) :
      /\ op[o].state \in {"committing", "committed"}
      /\ o \in Persisted =>
           /\ op[o].state = "committing" => plan[o].attempt = op[o].attempts
           /\ commits[branch[k]].result = plan[o].result

\* What is being written is what was persisted.
AsPlanned ==
    /\ drain.pc \in {"write", "patch", "landed"} /\ cur \in Persisted =>
         plan[cur].attempt = mem.attempts /\ plan[cur].result = drain.result
    /\ At("patch") => commits[drain.made].result = drain.result

\* Nothing is told before the end, and then only what was persisted.
Told ==
    \A o \in Ops :
      /\ op[o].state \in Live \cup {"none"} => record[o] \in {"pending", "withdrawn"}
      /\ o \in Persisted => \A k \in LandedAs(o) :
             record[o] \in Results => record[o] = plan[o].result

Faithful == Structure /\ Quiet /\ InHand /\ Landing /\ AsPlanned /\ Told

\* Without outages, the drain neither defers nor gives up.
LEMMA QuietStep ==
    ASSUME Calm, TypeOK, Quiet, Next
    PROVE  /\ Quiet'
           /\ \A o \in Ops : ~RetryRead(o) /\ ~RetryBatch(o)
           /\ ~PatchUnheard /\ ~PatchLost /\ ~Unavailable /\ ~Forbidden
           /\ ~Defer /\ ~GiveUp /\ ~HandBack
           /\ ~Fault("outage")
<1>0. /\ faults \in [Faults -> Nat] /\ drain \in Drains
      /\ "outage" \in Faults /\ "requeue" \in Faults
  BY DEF TypeOK, Faults
<1>1. ~Fault("outage") /\ ~Fault("requeue")
  BY <1>0 DEF Fault, Quiet
<1>2. \A o \in Ops : ~RetryRead(o) /\ ~RetryBatch(o)
  BY <1>1 DEF RetryRead, RetryBatch, Quiet
<1>3. ~PatchUnheard /\ ~PatchLost /\ ~Unavailable /\ ~Forbidden /\ ~Defer /\ ~GiveUp /\ ~HandBack
  BY <1>1 DEF PatchUnheard, PatchLost, Unavailable, Forbidden, Defer, GiveUp, HandBack, Quiet, At
<1>4. faults' \in [Faults -> Nat] /\ \A f \in Faults : faults'[f] <= faults[f]
  <2>1. faults' = faults \/ \E f \in Faults : Fault(f)
    <3>1. CASE Commands
      BY <1>2, <3>1 DEF Commands, Enqueue, Revoke, Faults
    <3>2. CASE Environment
      BY <3>2 DEF Environment, Crash, Push, Diverge, Resolve, Tick, LatePatch, Faults
    <3>3. CASE Drain
      BY <1>1, <1>3, <3>3 DEF Drain, DrainStart, PickStuck, PickPending, Claim, Prepare, StartCommit,
         Retry, Exhaust, BuildPlan, PlanFails, Write, PatchLands, PatchRefused, Land
    <3> QED
      BY <3>1, <3>2, <3>3 DEF Next
  <2> QED
    BY <1>0, <2>1, FaultTyped
<1>5. faults'["outage"] = 0 /\ faults'["requeue"] = 0
  BY <1>0, <1>4 DEF Quiet
<1>6. asked' = asked
  <2>1. CASE Commands
    BY <1>2, <2>1 DEF Commands, Enqueue, Revoke
  <2>2. CASE Environment
    BY <2>2 DEF Environment, Crash, Push, Diverge, Resolve, Tick, LatePatch, World
  <2>3. CASE Drain
    BY <1>3, <2>3 DEF Drain, DrainStart, PickStuck, PickPending, Claim, Prepare, StartCommit,
       Retry, Exhaust, BuildPlan, PlanFails, Fail, Write, PatchLands, PatchRefused, Land, World
  <2> QED
    BY <2>1, <2>2, <2>3 DEF Next
<1>7. drain'.pc \notin {"defer", "deferred"}
  <2>1. CASE Commands
    BY <1>2, <2>1 DEF Commands, Enqueue, Revoke, Quiet
  <2>2. CASE Environment
    BY <2>2, AsleepTyped DEF Environment, Crash, Push, Diverge, Resolve, Tick, LatePatch, Quiet
  <2>3. CASE DrainStart \/ PickStuck \/ PickPending \/ Claim
    BY <1>0, <2>3, AsleepTyped DEF DrainStart, PickStuck, PickPending, Claim, Begin, At, Drains
  <2>4. CASE Prepare \/ StartCommit \/ Retry \/ PatchRefused
    BY <1>0, <2>4 DEF Prepare, StartCommit, Retry, PatchRefused, Contend, Persist, Drains
  <2>5. CASE Exhaust \/ PlanFails \/ PatchLands \/ Land
    BY <1>0, <2>5 DEF Exhaust, PlanFails, PatchLands, Land, Fail, Goto, Drains
  <2>6. CASE BuildPlan
    BY <1>0, <2>6 DEF BuildPlan, ToWrite, Drains
  <2>7. CASE Write
    BY <1>0, <2>7, WriteCases DEF Creates, Contend, Persist, Drains
  <2> QED
    BY <1>3, <2>1, <2>2, <2>3, <2>4, <2>5, <2>6, <2>7 DEF Next, Drain
<1> QED
  BY <1>1, <1>2, <1>3, <1>5, <1>6, <1>7 DEF Quiet

\* The operation in hand is in the state the copy says.
LEMMA InWork ==
    ASSUME Structure, InHand, drain.pc \in {"step", "write", "patch", "landed"}
    PROVE  /\ cur \in Ops /\ op[cur].state = mem.state /\ op[cur].attempts = mem.attempts
           /\ op[cur].state \in Live /\ op \in [Ops -> Snapshot] /\ drain \in Drains
           /\ row[cur] # "none" /\ cur \notin drain.stuck
BY DEF Structure, InHand, Hands, TypeOK, Live

\* Before it creates another commit, gives up or contends, nothing of the
\* operation is on the branch.
LEMMA NotThere ==
    ASSUME Structure, ~Late,
           (At("write") /\ ~Recorded) \/ At("patch")
    PROVE  ~Landed(cur)
<1>1. CASE At("patch")
  BY <1>1 DEF Structure, Last
<1>2. CASE At("write") /\ ~Recorded
  <2> SUFFICES ASSUME NEW k \in LandedAs(cur) PROVE FALSE
    BY DEF Landed
  <2>1. cur \in Ops /\ Landed(cur)
    BY <1>2 DEF Structure, Hands, At, Landed
  <2>2. mem.sha = op[cur].sha /\ branch[k] = op[cur].sha
    BY <1>2, <2>1 DEF Structure, Last, At
  <2>3. k \in 1..Len(branch) /\ branch[k] \in 1..Len(commits)
    BY DEF LandedAs, Structure, TypeOK
  <2> QED
    BY <1>2, <2>2, <2>3 DEF Recorded, OnBranch
<1> QED
  BY <1>1, <1>2

LEMMA InHandStep ==
    ASSUME Calm, Structure, Quiet, InHand, Next
    PROVE  InHand'
<1>0. TypeOK /\ Hands /\ drain \in Drains /\ op \in [Ops -> Snapshot] /\ row \in [Ops -> RowStates]
  BY DEF Structure, TypeOK
<1>1. ASSUME UNCHANGED <<row, op, drain>>
      PROVE  InHand'
  BY <1>1 DEF InHand, cur, mem
<1>2. CASE Diverge \/ Resolve \/ Tick \/ Push \/ \E c \in wire : LatePatch(c)
  BY <1>1, <1>2 DEF Diverge, Resolve, Tick, Push, LatePatch
<1>3. CASE Crash
  <2>1. drain'.pc = "idle" /\ drain'.stuck = {} /\ UNCHANGED <<row, op>>
    BY <1>3, AsleepTyped DEF Crash
  <2> QED
    BY <2>1 DEF InHand
<1>4. ASSUME NEW o \in Ops, Enqueue(o)
      PROVE  InHand'
  <2>1. row[o] = "none" /\ op[o].state = "none" /\ drain' = drain
    BY <1>4 DEF Enqueue, InHand
  <2>2. /\ row'[o] = "pending" /\ op'[o].state = "queued" /\ o \notin drain.stuck
        /\ \A p \in Ops : p # o => row'[p] = row[p] /\ op'[p] = op[p]
    BY <1>0, <1>4, <2>1 DEF Enqueue, Snapshot, InHand, Live
  <2>3. drain.pc \in {"step", "write", "patch", "landed"} => cur # o /\ cur \in Ops
    BY <2>1, InWork
  <2>4. drain.stuck \subseteq Ops
    BY <1>0 DEF Drains
  <2> QED
    BY <2>1, <2>2, <2>3, <2>4 DEF InHand, Live, cur, mem
<1>5. ASSUME NEW o \in Ops, Revoke(o)
      PROVE  InHand'
  <2>1. /\ \A p \in Ops : row'[p] = row[p] \/ (row[p] # "none" /\ row'[p] = "failed")
        /\ UNCHANGED <<op, drain>>
    BY <1>0, <1>5 DEF Revoke
  <2> QED
    BY <2>1 DEF InHand, cur, mem
<1>6. CASE DrainStart
  <2>1. drain'.pc = "pick" /\ drain'.stuck = {o \in Ops : Stuck(o)} /\ UNCHANGED <<row, op>>
    BY <1>6, AsleepTyped DEF DrainStart, Drains
  <2> QED
    BY <2>1 DEF InHand, Stuck
<1>7. CASE PickStuck
  <2>1. PICK o \in drain.stuck :
          IF o \in drain.paused THEN drain' = [drain EXCEPT !.stuck = @ \ {o}] ELSE Begin(o, TRUE)
    BY <1>7 DEF PickStuck, Oldest
  <2>2. o \in Ops /\ op[o].state \in Live /\ UNCHANGED <<row, op>> /\ drain.pc = "pick"
    BY <1>0, <1>7, <2>1 DEF PickStuck, At, InHand, Drains
  <2>3. CASE o \in drain.paused
    <3>1. drain'.pc = "pick" /\ drain'.stuck \subseteq drain.stuck
      BY <1>0, <2>1, <2>2, <2>3 DEF Drains
    <3> QED
      BY <2>2, <3>1 DEF InHand
  <2>4. CASE o \notin drain.paused
    <3>1. drain'.pc = "step" /\ cur' = o /\ mem' = op[o] /\ drain'.stuck = drain.stuck \ {o}
      BY <1>0, <2>1, <2>4, BeginWhat
    <3> QED
      BY <2>2, <3>1 DEF InHand
  <2> QED
    BY <2>3, <2>4
<1>8. CASE PickPending
  <2>1. drain.stuck = {} /\ UNCHANGED <<row, op>>
    BY <1>8 DEF PickPending
  <2>2. drain'.pc \in {"idle", "claim"} /\ drain'.stuck = {}
    BY <1>0, <1>8, <2>1, AsleepTyped DEF PickPending, Drains
  <2> QED
    BY <2>1, <2>2 DEF InHand
<1>9. CASE Claim
  <2>1. cur \in Ops /\ drain.pc = "claim" /\ op' = op /\ cur \notin drain.stuck
    BY <1>9 DEF Claim, Structure, Hands, At, InHand
  <2>2. CASE Waiting(cur)
    <3>1. op[cur].state \in Live /\ row' = [row EXCEPT ![cur] = "processing"] /\ Begin(cur, FALSE)
      BY <1>9, <2>1, <2>2 DEF Claim, Waiting, InHand
    <3>2. drain'.pc = "step" /\ cur' = cur /\ mem' = op[cur] /\ drain'.stuck = drain.stuck \ {cur}
      BY <1>0, <3>1, BeginWhat
    <3> QED
      BY <1>0, <2>1, <3>1, <3>2 DEF InHand
  <2>3. CASE ~Waiting(cur)
    <3>1. drain'.pc = "pick" /\ drain'.stuck = drain.stuck /\ row' = row
      BY <1>0, <1>9, <2>3 DEF Claim, Drains
    <3> QED
      BY <2>1, <3>1 DEF InHand
  <2> QED
    BY <2>2, <2>3
<1>10. ASSUME NEW state \in Live, NEW attempts, Persist(state, attempts), row' = row,
              drain.pc \in {"step", "write", "patch", "landed"}
       PROVE  InHand'
  <2>1. cur \in Ops /\ cur \notin drain.stuck /\ row[cur] # "none"
    BY <1>10, InWork
  <2>2. /\ op'[cur].state = state /\ op'[cur].attempts = attempts
        /\ \A o \in Ops : o # cur => op'[o] = op[o]
        /\ drain'.pc = "step" /\ cur' = cur /\ drain'.stuck = drain.stuck
        /\ mem'.state = state /\ mem'.attempts = attempts
    <3>1. TypeOK /\ cur \in Ops /\ Persist(state, attempts)
      BY <1>0, <1>10, <2>1
    <3>2. /\ op'[cur] = [state |-> state, attempts |-> attempts, sha |-> op[cur].sha]
          /\ \A o \in Ops : o # cur => op'[o] = op[o]
          /\ drain'.pc = "step" /\ cur' = cur /\ drain'.stuck = drain.stuck
          /\ mem'.state = state /\ mem'.attempts = attempts
      BY <3>1, PersistWhat
    <3> QED
      BY <3>2
  <2>3. drain.stuck \subseteq Ops
    BY <1>0 DEF Drains
  <2>4. /\ \A o \in Ops : row'[o] \in {"pending", "processing"} => op'[o].state \in Live
        /\ \A o \in Ops : row'[o] = "none" => op'[o].state = "none"
        /\ \A o \in drain.stuck : op'[o].state \in Live
    BY <1>10, <2>1, <2>2, <2>3 DEF InHand
  <2> QED
    BY <2>1, <2>2, <2>4 DEF InHand
<1>11. CASE Prepare \/ StartCommit \/ Retry
  BY <1>10, <1>11 DEF Prepare, StartCommit, Retry, Live, At
<1>12. ASSUME Fail(cur), drain.pc = "step"
       PROVE  InHand'
  <2>1. cur \in Ops /\ cur \notin drain.stuck /\ drain.stuck \subseteq Ops
    BY <1>0, <1>12, InWork DEF Drains
  <2>2. /\ row'[cur] = "failed" /\ \A o \in Ops : o # cur => row'[o] = row[o] /\ op'[o] = op[o]
        /\ drain'.pc = "pick" /\ drain'.stuck = drain.stuck
    BY <1>0, <1>12, <2>1 DEF Fail, Goto, Drains
  <2> QED
    BY <2>1, <2>2 DEF InHand
<1>13. CASE Exhaust \/ PlanFails
  BY <1>12, <1>13 DEF Exhaust, PlanFails, At
<1>14. ASSUME op' = op, row' = row, drain'.pc \in {"write", "landed"}, mem.state = "committing",
              cur' = cur, mem' = mem, drain'.stuck = drain.stuck,
              drain.pc \in {"step", "write", "patch", "landed"}
       PROVE  InHand'
  BY <1>14 DEF InHand
<1>15. CASE BuildPlan
  <2>1. /\ drain'.pc = "write" /\ cur' = cur /\ mem' = mem /\ drain'.stuck = drain.stuck
        /\ drain.pc = "step" /\ mem.state = "committing" /\ UNCHANGED <<row, op>>
    BY <1>0, <1>15 DEF BuildPlan, ToWrite, At, Drains, cur, mem
  <2> QED
    BY <1>14, <2>1
<1>16. CASE PatchLands
  <2>1. /\ drain'.pc = "landed" /\ cur' = cur /\ mem' = mem /\ drain'.stuck = drain.stuck
        /\ drain.pc = "patch" /\ UNCHANGED <<row, op>>
    BY <1>0, <1>16 DEF PatchLands, Goto, At, Drains, cur, mem
  <2> QED
    BY <1>14, <2>1 DEF InHand
<1>17. CASE PatchRefused
  <2>1. drain.pc = "patch" /\ row' = row
    BY <1>17 DEF PatchRefused, At
  <2>2. CASE Contend
    BY <1>10, <2>1, <2>2 DEF Contend, Live
  <2>3. CASE ~Contend
    <3>1. /\ drain'.pc = "write" /\ cur' = cur /\ mem' = mem /\ drain'.stuck = drain.stuck /\ op' = op
      BY <1>0, <1>17, <2>3 DEF PatchRefused, Drains, cur, mem
    <3> QED
      BY <1>14, <2>1, <3>1 DEF InHand
  <2> QED
    BY <2>2, <2>3
<1>18. CASE Write
  <2>1. drain.pc = "write" /\ row' = row
    BY <1>18, WriteCases DEF At
  <2>2. CASE Contend
    BY <1>10, <2>1, <2>2 DEF Contend, Live
  <2>3. CASE Creates
    <3>1. cur \in Ops /\ cur \notin drain.stuck /\ drain.stuck \subseteq Ops /\ row[cur] # "none"
      BY <1>0, <2>1, InWork DEF Drains
    <3>2. /\ drain'.pc = "patch" /\ cur' = cur /\ mem' = mem /\ drain'.stuck = drain.stuck
          /\ op'[cur].state = "committing" /\ op'[cur].attempts = mem.attempts
          /\ \A o \in Ops : o # cur => op'[o] = op[o]
      BY <1>0, <2>3, <3>1 DEF Creates, Drains, cur, mem
    <3> QED
      BY <2>1, <3>1, <3>2 DEF InHand, Live
  <2>4. CASE ~Contend /\ ~Creates
    <3>1. /\ drain'.pc = "landed" /\ cur' = cur /\ mem' = mem /\ drain'.stuck = drain.stuck /\ op' = op
      BY <1>0, <1>18, <2>4, WriteCases DEF Drains, cur, mem
    <3> QED
      BY <1>14, <2>1, <3>1 DEF InHand
  <2> QED
    BY <2>2, <2>3, <2>4
<1>19. CASE Land
  <2>1. cur \in Ops /\ cur \notin drain.stuck /\ drain.stuck \subseteq Ops
    BY <1>0, <1>19, InWork DEF Drains, Land, At
  <2>2. /\ row'[cur] = "done" /\ \A o \in Ops : o # cur => row'[o] = row[o] /\ op'[o] = op[o]
        /\ drain'.pc = "pick" /\ drain'.stuck = drain.stuck
    BY <1>0, <1>19, <2>1 DEF Land, Goto, Drains
  <2> QED
    BY <2>1, <2>2 DEF InHand
<1> QED
  BY <1>0, <1>2, <1>3, <1>4, <1>5, <1>6, <1>7, <1>8, <1>9, <1>11, <1>13, <1>15, <1>16, <1>17, <1>18, <1>19,
     QuietStep DEF Next, Drain, Environment, Commands

\* The operation in hand moves from one live state to another; if it is already
\* on the branch, nothing of it changes but which commit it remembers.
Moves ==
    /\ cur \in Ops /\ UNCHANGED <<plan, record>>
    /\ \A o \in Ops : o # cur => op'[o] = op[o]
    /\ op[cur].state \in Live /\ op'[cur].state \in Live
    /\ Landed(cur) => op'[cur].state = op[cur].state /\ op'[cur].attempts = op[cur].attempts

\* What a step does to the operations, their persisted outcomes and what is told.
LEMMA Effects ==
    ASSUME Calm, Faithful, Next
    PROVE  \/ UNCHANGED <<op, plan, record>>
           \/ \E o \in Ops : Enqueue(o) \/ Revoke(o)
           \/ Moves
           \/ /\ BuildPlan /\ cur \in Persisted /\ ~Landed(cur) /\ UNCHANGED <<op, record>>
              /\ \A o \in Ops : o # cur => plan'[o] = plan[o]
           \/ Fail(cur) /\ cur \in Ops /\ ~Landed(cur) /\ op[cur].state \in Live
           \/ Land
<1>0. /\ TypeOK /\ Hands /\ drain \in Drains /\ op \in [Ops -> Snapshot]
      /\ plan \in [Ops -> Plans] /\ ~Late /\ Structure /\ InHand
  BY DEF Faithful, Structure, TypeOK, Calm
<1>1. CASE Environment
  BY <1>1 DEF Environment, Crash, Push, Diverge, Resolve, Tick, LatePatch
<1>2. CASE Commands
  BY <1>0, <1>2, QuietStep DEF Commands, Faithful
<1>3. CASE DrainStart \/ PickStuck \/ PickPending \/ Claim \/ PatchLands
  BY <1>3 DEF DrainStart, PickStuck, PickPending, Claim, PatchLands
<1>4. ASSUME drain.pc \in {"step", "write", "patch", "landed"}
      PROVE  /\ cur \in Ops /\ op[cur].state = mem.state /\ op[cur].attempts = mem.attempts
             /\ op[cur].state \in Live
  BY <1>0, <1>4, InWork
<1>5. ASSUME NEW state \in Live, NEW attempts, Persist(state, attempts), UNCHANGED <<plan, record>>,
             drain.pc \in {"step", "write", "patch"}, ~Landed(cur)
      PROVE  Moves
  <2>1. TypeOK /\ cur \in Ops /\ Persist(state, attempts) /\ op[cur].state \in Live
    BY <1>0, <1>4, <1>5
  <2>2. op'[cur] = [state |-> state, attempts |-> attempts, sha |-> op[cur].sha]
        /\ \A o \in Ops : o # cur => op'[o] = op[o]
    BY <2>1, PersistWhat
  <2> QED
    BY <1>5, <2>1, <2>2 DEF Moves
<1>6. CASE Prepare \/ StartCommit \/ Retry
  <2>1. drain.pc = "step" /\ mem.state # "committing" /\ mem.state # "committed" /\ UNCHANGED <<plan, record>>
    BY <1>6 DEF Prepare, StartCommit, Retry, At
  <2>2. ~Landed(cur)
    BY <1>4, <2>1 DEF Faithful, Landing, Landed
  <2> QED
    BY <1>5, <1>6, <2>1, <2>2 DEF Prepare, StartCommit, Retry, Live
<1>7. CASE Exhaust
  <2>1. drain.pc = "step" /\ mem.state = "conflict" /\ Fail(cur)
    BY <1>7 DEF Exhaust, At
  <2>2. ~Landed(cur)
    BY <1>4, <2>1 DEF Faithful, Landing, Landed
  <2> QED
    BY <1>4, <2>1, <2>2
<1>8. CASE PlanFails
  <2>1. drain.pc = "step" /\ mem.state = "committing" /\ Fail(cur)
    BY <1>8 DEF PlanFails, At
  <2>2. ~Landed(cur)
    <3> SUFFICES ASSUME Landed(cur) PROVE FALSE
      OBVIOUS
    <3>1. cur \in Writes /\ ~Reusable(cur)
      BY <1>0, <1>8, QuietStep DEF PlanFails, Calm, Faithful
    <3>2. plan[cur].attempt = op[cur].attempts
      BY <1>4, <2>1, <3>1 DEF Faithful, Landing, Landed, Persisted
    <3> QED
      BY <1>4, <2>1, <3>1, <3>2 DEF Reusable
  <2> QED
    BY <1>4, <2>1, <2>2
<1>9. CASE BuildPlan
  <2>1. drain.pc = "step" /\ mem.state = "committing" /\ UNCHANGED <<op, record>>
    BY <1>9 DEF BuildPlan, At
  <2>2. CASE plan' = plan
    BY <2>1, <2>2
  <2>3. CASE plan' # plan
    <3>1. cur \in Persisted /\ ~Reusable(cur)
      BY <1>9, <2>3 DEF BuildPlan
    <3>2. \A o \in Ops : o # cur => plan'[o] = plan[o]
      BY <1>0, <1>9, <2>3 DEF BuildPlan
    <3>3. ~Landed(cur)
      BY <1>4, <2>1, <3>1 DEF Faithful, Landing, Landed, Reusable
    <3> QED
      BY <1>9, <2>1, <3>1, <3>2, <3>3
  <2> QED
    BY <2>2, <2>3
<1>10. CASE Write
  <2>1. drain.pc = "write" /\ UNCHANGED <<plan, record>>
    BY <1>10, WriteCases DEF At
  <2>2. CASE Contend /\ ~Recorded
    <3>1. ~Landed(cur)
      BY <1>0, <2>1, <2>2, NotThere DEF At
    <3> QED
      BY <1>5, <2>1, <2>2, <3>1 DEF Contend, Live
  <2>3. CASE Creates
    <3>1. /\ op'[cur].state = "committing" /\ op'[cur].attempts = mem.attempts
          /\ \A o \in Ops : o # cur => op'[o] = op[o]
      BY <1>0, <1>4, <2>1, <2>3 DEF Creates
    <3>2. mem.state = "committing"
      BY <1>0, <2>1 DEF InHand
    <3> QED
      BY <1>4, <2>1, <3>1, <3>2 DEF Moves, Live
  <2> QED
    BY <1>10, <2>1, <2>2, <2>3, WriteCases
<1>11. CASE PatchRefused
  <2>1. drain.pc = "patch" /\ UNCHANGED <<plan, record>>
    BY <1>11 DEF PatchRefused, At
  <2>2. ~Landed(cur)
    BY <1>0, <2>1, NotThere DEF At
  <2> QED
    BY <1>5, <1>11, <2>1, <2>2 DEF PatchRefused, Contend, Live
<1> QED
  BY <1>0, <1>1, <1>2, <1>3, <1>6, <1>7, <1>8, <1>9, <1>10, <1>11, QuietStep DEF Next, Drain, Faithful

\* A commit reaches the branch from the drain's hands, and its outcome with it.
LEMMA NewlyThere ==
    ASSUME Calm, Faithful, Next, NEW o \in Ops, NEW k \in LandedAs(o)', k \notin LandedAs(o)
    PROVE  /\ PatchLands /\ o = cur /\ UNCHANGED <<op, plan, record>>
           /\ op[o].state = "committing"
           /\ o \in Persisted => /\ plan[o].attempt = op[o].attempts
                                 /\ commits'[branch'[k]].result = plan[o].result
<1>0. TypeOK /\ Hands /\ Structure /\ InHand /\ wire = {}
  BY DEF Faithful, Structure, Last, Calm
<1>1. PICK c \in 1..Len(commits) :
        /\ Advances(c) /\ branch'[k] = c
        /\ \/ (PatchLands \/ PatchUnheard) /\ c = drain.made /\ o = cur
           \/ c \in wire /\ LatePatch(c)
  BY <1>0, LandedHow
<1>2. PatchLands /\ c = drain.made /\ o = cur
  BY <1>0, <1>1, QuietStep DEF Faithful
<1>3. drain.pc = "patch" /\ UNCHANGED <<op, plan, record>> /\ commits' = commits
  BY <1>2 DEF PatchLands, At
<1>4. op[o].state = "committing" /\ op[o].attempts = mem.attempts
  BY <1>0, <1>2, <1>3, InWork DEF InHand
<1> QED
  BY <1>1, <1>2, <1>3, <1>4 DEF Faithful, AsPlanned, At

LEMMA LandingStep ==
    ASSUME Calm, Faithful, Next
    PROVE  Landing'
<1>0. TypeOK /\ Hands /\ Landing /\ InHand
  BY DEF Faithful, Structure
<1> SUFFICES ASSUME NEW o \in Ops, NEW k \in LandedAs(o)'
             PROVE  /\ op'[o].state \in {"committing", "committed"}
                    /\ o \in Persisted =>
                         /\ op'[o].state = "committing" => plan'[o].attempt = op'[o].attempts
                         /\ commits'[branch'[k]].result = plan'[o].result
  BY DEF Landing
<1>1. CASE k \notin LandedAs(o)
  BY <1>1, NewlyThere
<1>2. CASE k \in LandedAs(o)
  <2>1. commits'[branch'[k]] = commits[branch[k]] /\ Landed(o)
    BY <1>0, <1>2, LandedStays DEF Landed
  <2>2. /\ op[o].state \in {"committing", "committed"}
        /\ o \in Persisted =>
             /\ op[o].state = "committing" => plan[o].attempt = op[o].attempts
             /\ commits[branch[k]].result = plan[o].result
    BY <1>0, <1>2 DEF Landing
  <2>3. CASE UNCHANGED <<op, plan, record>>
    BY <2>1, <2>2, <2>3
  <2>4. ASSUME NEW p \in Ops, Enqueue(p) \/ Revoke(p)
        PROVE  op'[o] = op[o] /\ plan' = plan
    <3>1. CASE Enqueue(p)
      <4>1. op[p].state = "none"
        BY <1>0, <3>1 DEF Enqueue, InHand
      <4> QED
        BY <1>0, <2>2, <3>1, <4>1 DEF Enqueue, TypeOK
    <3>2. CASE Revoke(p)
      BY <3>2 DEF Revoke
    <3> QED
      BY <2>4, <3>1, <3>2
  <2>5. CASE Moves
    <3>1. plan' = plan /\ op'[o].state = op[o].state /\ op'[o].attempts = op[o].attempts
      BY <2>1, <2>5 DEF Moves
    <3> QED
      BY <2>1, <2>2, <3>1
  <2>6. CASE /\ BuildPlan /\ cur \in Persisted /\ ~Landed(cur) /\ UNCHANGED <<op, record>>
             /\ \A p \in Ops : p # cur => plan'[p] = plan[p]
    BY <2>1, <2>2, <2>6
  <2>7. CASE Fail(cur) /\ cur \in Ops /\ ~Landed(cur)
    <3>1. plan' = plan /\ op'[o] = op[o]
      BY <1>0, <2>1, <2>7 DEF Fail, TypeOK
    <3> QED
      BY <2>1, <2>2, <3>1
  <2>8. CASE Land
    <3>1. cur \in Ops /\ plan' = plan
      BY <1>0, <2>8 DEF Land, Hands, At
    <3>2. op'[o] = op[o] \/ op'[o].state = "committed"
      BY <1>0, <2>8, <3>1 DEF Land, TypeOK, Snapshot
    <3> QED
      BY <2>1, <2>2, <3>1, <3>2
  <2> QED
    BY <2>1, <2>2, <2>3, <2>4, <2>5, <2>6, <2>7, <2>8, Effects
<1> QED
  BY <1>1, <1>2

LEMMA ToldStep ==
    ASSUME Calm, Faithful, Next
    PROVE  Told'
<1>0. /\ TypeOK /\ Hands /\ InHand /\ Told /\ Structure
      /\ op \in [Ops -> Snapshot] /\ record \in [Ops -> Fates]
  BY DEF Faithful, Structure, TypeOK
<1> SUFFICES ASSUME NEW o \in Ops
             PROVE  /\ op'[o].state \in Live \cup {"none"} => record'[o] \in {"pending", "withdrawn"}
                    /\ o \in Persisted => \A k \in LandedAs(o)' :
                         record'[o] \in Results => record'[o] = plan'[o].result
  BY DEF Told
<1>1. /\ op[o].state \in Live \cup {"none"} => record[o] \in {"pending", "withdrawn"}
      /\ o \in Persisted => \A k \in LandedAs(o) :
           record[o] \in Results => record[o] = plan[o].result
  BY <1>0 DEF Told
<1>2. ASSUME o \in Persisted, NEW k \in LandedAs(o)', k \notin LandedAs(o)
      PROVE  record'[o] \notin Results
  <2>1. op[o].state = "committing" /\ record' = record
    BY <1>2, NewlyThere
  <2> QED
    BY <1>1, <2>1 DEF Live, Results
<1>3. ASSUME record'[o] = record[o],
             op'[o].state \in Live \cup {"none"} => op[o].state \in Live \cup {"none"},
             Landed(o) => plan'[o] = plan[o] \/ o \notin Persisted
      PROVE  /\ op'[o].state \in Live \cup {"none"} => record'[o] \in {"pending", "withdrawn"}
             /\ o \in Persisted => \A k \in LandedAs(o)' :
                  record'[o] \in Results => record'[o] = plan'[o].result
  BY <1>1, <1>2, <1>3 DEF Landed
<1>4. CASE UNCHANGED <<op, plan, record>>
  BY <1>3, <1>4
<1>5. ASSUME NEW p \in Ops, Enqueue(p)
      PROVE  record'[o] = record[o] /\ plan' = plan
             /\ (op'[o].state \in Live \cup {"none"} => op[o].state \in Live \cup {"none"})
  <2>1. op[p].state = "none"
    BY <1>0, <1>5 DEF Enqueue, InHand
  <2> QED
    BY <1>0, <1>5, <2>1 DEF Enqueue
<1>6. ASSUME NEW p \in Ops, Revoke(p)
      PROVE  /\ op'[o].state \in Live \cup {"none"} => record'[o] \in {"pending", "withdrawn"}
             /\ o \in Persisted => \A k \in LandedAs(o)' :
                  record'[o] \in Results => record'[o] = plan'[o].result
  <2>1. op' = op /\ plan' = plan
    BY <1>6 DEF Revoke
  <2>2. CASE p # o
    <3>1. record'[o] = record[o]
      BY <1>0, <1>6, <2>2 DEF Revoke
    <3> QED
      BY <1>3, <2>1, <3>1
  <2>3. CASE p = o
    <3>1. record'[o] = "withdrawn"
      BY <1>0, <1>6, <2>3 DEF Revoke
    <3> QED
      BY <3>1 DEF Results
  <2> QED
    BY <2>2, <2>3
<1>7. CASE Moves
  <2>1. record'[o] = record[o] /\ plan'[o] = plan[o]
    BY <1>7 DEF Moves
  <2>2. op'[o].state \in Live \cup {"none"} => op[o].state \in Live \cup {"none"}
    BY <1>7 DEF Moves
  <2> QED
    BY <1>3, <2>1, <2>2
<1>8. CASE /\ BuildPlan /\ cur \in Persisted /\ ~Landed(cur) /\ UNCHANGED <<op, record>>
           /\ \A p \in Ops : p # cur => plan'[p] = plan[p]
  BY <1>3, <1>8
<1>9. CASE Fail(cur) /\ cur \in Ops /\ ~Landed(cur) /\ op[cur].state \in Live
  <2>1. plan' = plan
    BY <1>9 DEF Fail
  <2>2. CASE o # cur
    <3>1. record'[o] = record[o] /\ op'[o] = op[o]
      BY <1>0, <1>9, <2>2 DEF Fail
    <3> QED
      BY <1>3, <2>1, <3>1
  <2>3. CASE o = cur
    <3>1. op'[o].state = "failed"
      BY <1>0, <1>9, <2>3 DEF Fail, Snapshot
    <3>2. \A k \in LandedAs(o)' : k \in LandedAs(o)
      <4>1. \A k \in LandedAs(o)' : k \notin LandedAs(o) => UNCHANGED op
        BY NewlyThere
      <4>2. op' # op
        BY <1>9, <2>3, <3>1 DEF Live
      <4> QED
        BY <4>1, <4>2
    <3> QED
      BY <1>9, <2>3, <3>1, <3>2 DEF Landed, Live
  <2> QED
    BY <2>2, <2>3
<1>10. CASE Land
  <2>1. cur \in Ops /\ plan' = plan /\ drain.pc = "landed"
    BY <1>0, <1>10 DEF Land, Hands, At
  <2>2. CASE o # cur
    <3>1. record'[o] = record[o] /\ op'[o] = op[o]
      BY <1>0, <1>10, <2>2 DEF Land
    <3> QED
      BY <1>3, <2>1, <3>1
  <2>3. CASE o = cur
    <3>1. op'[o].state = "committed"
      BY <1>0, <1>10, <2>3 DEF Land, Snapshot
    <3>2. record'[o] = IF record[o] = "pending" THEN drain.result ELSE record[o]
      BY <1>0, <1>10, <2>3 DEF Land
    <3>3. o \in Persisted => drain.result = plan[o].result
      BY <2>1, <2>3 DEF Faithful, AsPlanned
    <3>4. \A k \in LandedAs(o)' : k \notin LandedAs(o) => PatchLands
      BY NewlyThere
    <3>5. ~PatchLands
      BY <2>1 DEF PatchLands, At
    <3> QED
      BY <1>1, <2>1, <3>1, <3>2, <3>3, <3>4, <3>5 DEF Live
  <2> QED
    BY <2>2, <2>3
<1> QED
  BY <1>3, <1>4, <1>5, <1>6, <1>7, <1>8, <1>9, <1>10, Effects

\* The drain comes to write from a plan, or from a refused update that is tried
\* again.
LEMMA ComesToWrite ==
    ASSUME TypeOK, Next, drain'.pc = "write"
    PROVE  \/ drain' = drain
           \/ BuildPlan
           \/ PatchRefused /\ drain' = [drain EXCEPT !.pc = "write", !.tries = @ + 1]
<1>0. drain \in Drains
  BY DEF TypeOK
<1>1. CASE Environment
  BY <1>1, AsleepTyped DEF Environment, Crash, Push, Diverge, Resolve, Tick, LatePatch
<1>2. CASE Commands
  BY <1>2 DEF Commands, Enqueue, Revoke, RetryRead, RetryBatch
<1>3. CASE DrainStart \/ PickStuck \/ PickPending \/ Claim
  BY <1>0, <1>3, AsleepTyped DEF DrainStart, PickStuck, PickPending, Claim, Begin, At, Drains
<1>4. CASE Prepare \/ StartCommit \/ Retry
  BY <1>0, <1>4 DEF Prepare, StartCommit, Retry, Persist, Drains
<1>5. CASE Exhaust \/ PlanFails \/ Forbidden \/ GiveUp
  BY <1>0, <1>5 DEF Exhaust, PlanFails, Forbidden, GiveUp, Fail, Goto, Drains
<1>6. CASE PatchLands \/ PatchUnheard \/ PatchLost \/ Unavailable \/ Land \/ Defer \/ HandBack
  BY <1>0, <1>6 DEF PatchLands, PatchUnheard, PatchLost, Unavailable, Land, Defer, HandBack, Goto, Drains
<1>7. CASE PatchRefused
  <2>1. CASE Contend
    BY <1>0, <2>1 DEF Contend, Persist, Drains
  <2> QED
    BY <1>7, <2>1 DEF PatchRefused
<1>8. CASE Write
  BY <1>0, <1>8, WriteCases DEF Creates, Contend, Persist, Drains
<1> QED
  BY <1>1, <1>2, <1>3, <1>4, <1>5, <1>6, <1>7, <1>8 DEF Next, Drain

LEMMA AsPlannedStep ==
    ASSUME Calm, Faithful, Next
    PROVE  AsPlanned'
<1>0. TypeOK /\ Hands /\ AsPlanned /\ drain \in Drains /\ plan \in [Ops -> Plans]
  BY DEF Faithful, Structure, TypeOK
<1>1. ~BuildPlan => plan' = plan
  BY QuietStep, <1>0 DEF Faithful, Next, Drain, Environment, Commands, DrainStart, PickStuck, PickPending,
     Claim, Prepare, StartCommit, Retry, Exhaust, PlanFails, Write, PatchLands, PatchRefused, Land,
     Fail, Crash, Push, Diverge, Resolve, Tick, LatePatch, Enqueue, Revoke
<1>2. CASE BuildPlan
  <2>1. drain'.pc = "write" /\ cur' = cur /\ mem' = mem
    BY <1>0, <1>2 DEF BuildPlan, ToWrite, Drains, cur, mem
  <2>2. ASSUME cur \in Persisted
        PROVE  plan'[cur].attempt = mem.attempts /\ plan'[cur].result = drain'.result
    <3>1. cur \in Ops
      BY <1>0, <1>2 DEF BuildPlan, Hands, At
    <3>2. CASE Reusable(cur)
      <4>1. plan' = plan /\ drain'.result = plan[cur].result
        BY <1>0, <1>2, <2>2, <3>2, Kinds DEF BuildPlan, ToWrite, Drains, Persisted, Pinned
      <4> QED
        BY <3>2, <4>1 DEF Reusable
    <3>3. CASE ~Reusable(cur)
      <4>1. PICK r \in Resolutions(cur) :
              /\ plan' = [plan EXCEPT ![cur] = [attempt |-> mem.attempts, head |-> Head_, result |-> r]]
              /\ ToWrite(Head_, r)
        BY <1>2, <2>2, <3>3, Kinds DEF BuildPlan, Persisted, Pinned
      <4>2. drain'.result = r
        BY <1>0, <4>1 DEF ToWrite, Drains
      <4> QED
        BY <1>0, <3>1, <4>1, <4>2
    <3> QED
      BY <3>2, <3>3
  <2> QED
    BY <2>1, <2>2 DEF AsPlanned, At
<1>3. ASSUME plan' = plan, cur' = cur, mem' = mem, drain'.result = drain.result,
             drain.pc \in {"write", "patch", "landed"},
             drain'.pc = "patch" => commits'[drain'.made].result = drain.result
      PROVE  AsPlanned'
  BY <1>0, <1>3 DEF AsPlanned, At
<1>4. CASE drain' = drain /\ ~BuildPlan
  <2>1. drain.pc = "patch" => commits'[drain.made].result = drain.result
    <3> SUFFICES ASSUME drain.pc = "patch" PROVE commits'[drain.made].result = drain.result
      OBVIOUS
    <3>1. drain.made \in 1..Len(commits)
      BY <1>0 DEF Hands
    <3>2. commits'[drain.made] = commits[drain.made]
      BY <1>0, <3>1, HistoryGrows
    <3> QED
      BY <1>0, <3>2 DEF AsPlanned, At
  <2>2. plan' = plan
    BY <1>1, <1>4
  <2> QED
    BY <1>0, <1>4, <2>1, <2>2 DEF AsPlanned, At, cur, mem
<1>5. CASE drain'.pc = "write" /\ ~BuildPlan /\ drain' # drain
  <2>1. PatchRefused /\ drain' = [drain EXCEPT !.pc = "write", !.tries = @ + 1]
    BY <1>0, <1>5, ComesToWrite
  <2>2. cur' = cur /\ mem' = mem /\ drain'.result = drain.result /\ drain.pc = "patch"
    BY <1>0, <2>1 DEF PatchRefused, At, Drains, cur, mem
  <2> QED
    BY <1>1, <1>3, <1>5, <2>2
<1>6. CASE drain'.pc \in {"patch", "landed"} /\ ~BuildPlan /\ drain' # drain
  <2>1. CASE Creates
    <3>1. /\ cur' = cur /\ mem' = mem /\ drain'.result = drain.result /\ drain.pc = "write"
          /\ drain'.made = Len(commits) + 1
      BY <1>0, <2>1 DEF Creates, At, Drains, cur, mem
    <3>2. commits'[drain'.made].result = drain.result
      BY <1>0, <2>1, <3>1, CreatesWhat
    <3> QED
      BY <1>1, <1>3, <1>6, <3>1, <3>2
  <2>2. CASE ~Creates
    <3>1. /\ cur' = cur /\ mem' = mem /\ drain'.result = drain.result
          /\ drain.pc \in {"write", "patch"} /\ drain'.pc = "landed"
      BY <1>0, <1>6, <2>2, Holding DEF Write, PatchLands, At, Drains, cur, mem
    <3> QED
      BY <1>1, <1>3, <1>6, <3>1
  <2> QED
    BY <2>1, <2>2
<1>7. CASE drain'.pc \notin {"write", "patch", "landed"}
  BY <1>7 DEF AsPlanned, At
<1> QED
  BY <1>2, <1>4, <1>5, <1>6, <1>7

LEMMA FaithfulStep ==
    ASSUME Calm
    PROVE  Faithful /\ [Next]_vars => Faithful'
<1>1. ASSUME Faithful, Next
      PROVE  Faithful'
  <2>1. TypeOK /\ Structure /\ Quiet /\ InHand
    BY <1>1 DEF Faithful, Structure
  <2>2. Structure'
    BY <1>1, <2>1, StructureStep
  <2>3. Quiet' /\ InHand'
    BY <1>1, <2>1, QuietStep, InHandStep
  <2> QED
    BY <1>1, <2>2, <2>3, LandingStep, AsPlannedStep, ToldStep DEF Faithful
<1>2. ASSUME Faithful, UNCHANGED vars
      PROVE  Faithful'
  <2>1. Structure'
    BY <1>2, StructureStep DEF Faithful
  <2> QED
    BY <1>2, <2>1 DEF vars, Faithful, Quiet, InHand, Landing, AsPlanned, Told, LandedAs, At, cur, mem
<1> QED
  BY <1>1, <1>2

LEMMA InitFaithful ==
    ASSUME Calm
    PROVE  Init => Faithful
<1> SUFFICES ASSUME Init PROVE Faithful
  OBVIOUS
<1>1. Structure
  BY InitStructure
<1>2. /\ drain.pc = "idle" /\ drain.stuck = {} /\ Len(branch) = 0
      /\ faults["outage"] = 0 /\ faults["requeue"] = 0
  BY AsleepTyped DEF Init, Calm
<1>3. \A o \in Ops : LandedAs(o) = {}
  BY <1>2 DEF LandedAs
<1>4. \A o \in Ops : row[o] = "none" /\ op[o].state = "none" /\ record[o] = "pending"
  BY DEF Init
<1> QED
  BY <1>1, <1>2, <1>3, <1>4 DEF Init, Faithful, Quiet, InHand, Landing, AsPlanned, Told, Live, At

LEMMA FaithfulHolds ==
    ASSUME Calm
    PROVE  Spec => []Faithful
BY InitFaithful, FaithfulStep, PTL DEF Spec

\* What the database says became of a submission or proposal is what its commit
\* did: through crashes, contention and revocations the outcome that was
\* persisted is the one that is written and the one that is told.
THEOREM OutcomeTold ==
    ASSUME Calm
    PROVE  Spec => []OutcomeMatchesCommit
<1>1. Faithful => OutcomeMatchesCommit
  <2>1. Pinned = Persisted /\ Persisted \subseteq Ops
    BY Kinds DEF Pinned, Persisted, Calm
  <2> QED
    BY <2>1 DEF Faithful, Told, Landing, OutcomeMatchesCommit
<1> QED
  BY <1>1, FaithfulHolds, PTL
-----------------------------------------------------------------------------
(* Refinement of Ledger.                                                   *)

\* The operations whose commits a branch consists of.
LEMMA OperationsOf ==
    ASSUME NEW cs \in Seq(CommitObjects), NEW b \in Seq(1..Len(cs)),
           NEW l, l = [k \in 1..Len(b) |-> cs[b[k]].op]
    PROVE  /\ l \in Seq(Ops \cup {NoOp}) /\ Len(l) = Len(b) /\ Len(b) \in Nat
           /\ DOMAIN l = 1..Len(b)
           /\ \A k \in 1..Len(b) : l[k] = cs[b[k]].op
<1>1. \A k \in 1..Len(b) : cs[b[k]].op \in Ops \cup {NoOp}
  <2>1. \A k \in 1..Len(b) : cs[b[k]] \in CommitObjects
    OBVIOUS
  <2> QED
    BY <2>1 DEF CommitObjects
<1> QED
  BY <1>1

\* Two logs of the same length with the same entries are the same log.
LEMMA SameLog ==
    ASSUME NEW S, NEW s \in Seq(S), NEW t \in Seq(S), Len(t) = Len(s),
           \A k \in 1..Len(s) : t[k] = s[k]
    PROVE  t = s
OBVIOUS

LEMMA LongerLog ==
    ASSUME NEW S, NEW s \in Seq(S), NEW t \in Seq(S), NEW e \in S, Len(t) = Len(s) + 1,
           \A k \in 1..Len(s) : t[k] = s[k], t[Len(s) + 1] = e
    PROVE  t = Append(s, e)
OBVIOUS

LEMMA WrittenIsLanded ==
    ASSUME TypeOK, NEW o \in Ops
    PROVE  Promise!Written(o) <=> Landed(o)
<1>1. DOMAIN Log = 1..Len(branch) /\ \A k \in 1..Len(branch) : Log[k] = commits[branch[k]].op
  BY DEF Log
<1> QED
  BY <1>1 DEF Promise!Written, Landed, LandedAs

LEMMA LogStep ==
    ASSUME TypeOK, TypeOK', Hands, wire = {}, Next
    PROVE  \/ Log' = Log
           \/ (PatchLands \/ PatchUnheard) /\ cur \in Ops /\ Log' = Append(Log, cur)
           \/ Push /\ Log' = Append(Log, NoOp)
<1> DEFINE S == Ops \cup {NoOp}
<1>1. /\ Log \in Seq(S) /\ Len(Log) = Len(branch) /\ Len(branch) \in Nat
      /\ \A k \in 1..Len(branch) : Log[k] = commits[branch[k]].op
  <2>1. commits \in Seq(CommitObjects) /\ branch \in Seq(1..Len(commits))
    BY DEF TypeOK
  <2> QED
    BY <2>1, OperationsOf DEF Log
<1>2. /\ Log' \in Seq(S) /\ Len(Log') = Len(branch')
      /\ \A k \in 1..Len(branch') : Log'[k] = commits'[branch'[k]].op
  <2>1. commits' \in Seq(CommitObjects) /\ branch' \in Seq(1..Len(commits'))
    BY DEF TypeOK
  <2> QED
    BY <2>1, OperationsOf DEF Log
<1> HIDE DEF S
<1>3. \A k \in 1..Len(branch) : Log'[k] = Log[k]
  <2>1. \A k \in 1..Len(branch) : branch[k] \in 1..Len(commits)
    BY DEF TypeOK
  <2> QED
    BY <1>1, <1>2, <2>1, HistoryGrows
<1>4. CASE branch' = branch
  BY <1>1, <1>2, <1>3, <1>4, SameLog
<1>5. CASE (PatchLands \/ PatchUnheard) /\ Advances(drain.made)
  <2>1. cur \in Ops /\ commits[drain.made].op = cur
    BY <1>5 DEF PatchLands, PatchUnheard, Hands, At
  <2>2. Len(branch') = Len(branch) + 1 /\ branch'[Len(branch) + 1] = drain.made /\ commits' = commits
    BY <1>5, AdvancesWhat
  <2>3. Log'[Len(Log) + 1] = cur /\ Len(Log') = Len(Log) + 1 /\ cur \in S
    BY <1>1, <1>2, <2>1, <2>2 DEF S
  <2>4. Log' = Append(Log, cur)
    BY <1>1, <1>2, <1>3, <2>3, LongerLog
  <2> QED
    BY <1>5, <2>1, <2>4
<1>6. CASE Push
  <2>1. /\ Len(branch') = Len(branch) + 1 /\ branch'[Len(branch) + 1] = Len(commits) + 1
        /\ commits'[Len(commits) + 1].op = NoOp
    BY <1>6, PushWhat
  <2>2. Log'[Len(Log) + 1] = NoOp /\ Len(Log') = Len(Log) + 1 /\ NoOp \in S
    BY <1>1, <1>2, <2>1 DEF S
  <2>3. Log' = Append(Log, NoOp)
    BY <1>1, <1>2, <1>3, <2>2, LongerLog
  <2> QED
    BY <1>6, <2>3
<1> QED
  BY <1>4, <1>5, <1>6, GitStep DEF Creates

\* What an operation is told depends on its state and on its record alone.
LEMMA VerdictOf ==
    ASSUME NEW o \in Ops
    PROVE  /\ op[o].state \in Live \cup {"none"} => Verdict[o] = "open"
           /\ op[o].state = "failed" => Verdict[o] = "refused"
           /\ op[o].state = "committed" => Verdict[o] \in {"accepted", "recorded"}
BY DEF Verdict, Live

LEMMA VerdictKept ==
    ASSUME NEW o \in Ops,
           \/ op'[o].state = op[o].state
           \/ op[o].state \in Live \cup {"none"} /\ op'[o].state \in Live \cup {"none"},
           op[o].state = "committed" => (record'[o] = "conflict" <=> record[o] = "conflict")
    PROVE  Verdict'[o] = Verdict[o]
<1>1. CASE op[o].state \in Live \cup {"none"} /\ op'[o].state \in Live \cup {"none"}
  BY <1>1 DEF Verdict, Live
<1>2. CASE op'[o].state = op[o].state /\ op[o].state # "committed"
  BY <1>2 DEF Verdict
<1>3. CASE op'[o].state = op[o].state /\ op[o].state = "committed"
  BY <1>3 DEF Verdict
<1> QED
  BY <1>1, <1>2, <1>3

LEMMA VerdictAnswered ==
    ASSUME NEW p \in Ops, \A o \in Ops : o # p => Verdict'[o] = Verdict[o]
    PROVE  Verdict' = [Verdict EXCEPT ![p] = Verdict'[p]]
<1>1. Verdict = [o \in Ops |-> Verdict[o]] /\ Verdict' = [o \in Ops |-> Verdict'[o]]
  BY DEF Verdict
<1> QED
  BY <1>1

LEMMA VerdictSame ==
    ASSUME \A o \in Ops : Verdict'[o] = Verdict[o]
    PROVE  Verdict' = Verdict
BY DEF Verdict

LEMMA PromiseStep ==
    ASSUME Calm, Faithful, Next
    PROVE  [Promise!Next]_<<Log, Verdict>>
<1>0. /\ TypeOK /\ Hands /\ InHand /\ Structure /\ wire = {} /\ TypeOK'
      /\ op \in [Ops -> Snapshot] /\ record \in [Ops -> Fates]
  BY Typed DEF Faithful, Structure, TypeOK, Last, Calm
<1>1. CASE (PatchLands \/ PatchUnheard) /\ cur \in Ops /\ Log' = Append(Log, cur)
  <2>1. PatchLands /\ drain.pc = "patch" /\ UNCHANGED <<op, record>>
    BY <1>0, <1>1, QuietStep DEF Faithful, PatchLands, At
  <2>2. op[cur].state \in Live /\ ~Landed(cur)
    BY <1>0, <2>1, InWork, NotThere DEF At, Calm
  <2>3. Verdict' = Verdict
    BY <2>1, VerdictKept, VerdictSame
  <2>4. Verdict[cur] = "open"
    BY <1>1, <2>2, VerdictOf
  <2>5. ~Promise!Written(cur)
    BY <1>0, <1>1, <2>2, WrittenIsLanded
  <2> QED
    BY <1>1, <2>3, <2>4, <2>5 DEF Promise!Next, Promise!WriteDown
<1>2. CASE Push /\ Log' = Append(Log, NoOp)
  <2>1. Verdict' = Verdict
    BY <1>2, VerdictKept, VerdictSame DEF Push
  <2> QED
    BY <1>2, <2>1 DEF Promise!Next, Promise!Interject
<1>3. CASE Log' = Log
  <2>1. CASE UNCHANGED <<op, plan, record>>
    <3>1. Verdict' = Verdict
      BY <2>1, VerdictKept, VerdictSame
    <3> QED
      BY <1>3, <3>1
  <2>2. ASSUME NEW p \in Ops, Enqueue(p)
        PROVE  Verdict' = Verdict
    <3>1. op[p].state = "none" /\ op'[p].state = "queued" /\ record' = record
      BY <1>0, <2>2 DEF Enqueue, InHand, Snapshot
    <3>2. \A o \in Ops : o # p => op'[o] = op[o]
      BY <1>0, <2>2 DEF Enqueue
    <3>3. \A o \in Ops : Verdict'[o] = Verdict[o]
      BY <3>1, <3>2, VerdictKept DEF Live
    <3> QED
      BY <3>3, VerdictSame
  <2>3. ASSUME NEW p \in Ops, Revoke(p)
        PROVE  Verdict' = Verdict
    <3>1. /\ op' = op /\ record[p] = "pending" /\ record'[p] = "withdrawn"
          /\ \A o \in Ops : o # p => record'[o] = record[o]
      BY <1>0, <2>3 DEF Revoke
    <3>2. \A o \in Ops : Verdict'[o] = Verdict[o]
      BY <3>1, VerdictKept
    <3> QED
      BY <3>2, VerdictSame
  <2>4. CASE Moves
    <3>1. \A o \in Ops : Verdict'[o] = Verdict[o]
      BY <2>4, VerdictKept DEF Moves
    <3> QED
      BY <1>3, <3>1, VerdictSame
  <2>5. CASE UNCHANGED <<op, record>>
    <3>1. Verdict' = Verdict
      BY <2>5, VerdictKept, VerdictSame
    <3> QED
      BY <1>3, <3>1
  <2>6. CASE Fail(cur) /\ cur \in Ops /\ ~Landed(cur) /\ op[cur].state \in Live
    <3>1. PICK p \in Ops : p = cur
      BY <2>6
    <3>2. /\ op'[p].state = "failed"
          /\ \A o \in Ops : o # p => op'[o] = op[o] /\ record'[o] = record[o]
      BY <1>0, <2>6, <3>1 DEF Fail, Snapshot
    <3>3. \A o \in Ops : o # p => Verdict'[o] = Verdict[o]
      BY <3>2, VerdictKept
    <3>4. Verdict[p] = "open"
      BY <2>6, <3>1, VerdictOf
    <3>5. Verdict'[p] = "refused"
      BY <3>2 DEF Verdict
    <3>6. Verdict' = [Verdict EXCEPT ![p] = "refused"]
      BY <3>3, <3>5, VerdictAnswered
    <3>7. ~Promise!Written(p)
      BY <1>0, <2>6, <3>1, WrittenIsLanded
    <3> QED
      BY <1>3, <3>4, <3>6, <3>7 DEF Promise!Next, Promise!Refuse, Promise!Answer
  <2>7. CASE Land
    <3>1. drain.pc = "landed" /\ cur \in Ops
      BY <1>0, <2>7 DEF Land, Hands, At
    <3>2. PICK p \in Ops : p = cur
      BY <3>1
    <3>3. /\ op'[p].state = "committed"
          /\ \A o \in Ops : o # p => op'[o] = op[o] /\ record'[o] = record[o]
      BY <1>0, <2>7, <3>2 DEF Land, Snapshot
    <3>4. \A o \in Ops : o # p => Verdict'[o] = Verdict[o]
      BY <3>3, VerdictKept
    <3>5. Verdict[p] = "open"
      BY <1>0, <3>1, <3>2, InWork, VerdictOf
    <3>6. Verdict'[p] \in {"accepted", "recorded"}
      BY <3>3 DEF Verdict
    <3>7. Verdict' = [Verdict EXCEPT ![p] = Verdict'[p]]
      BY <3>4, VerdictAnswered
    <3>8. Promise!Written(p)
      <4>1. OnBranch(drain.made) /\ commits[drain.made].op = p
        BY <1>0, <3>1, <3>2 DEF Hands, At
      <4>2. Landed(p)
        BY <4>1 DEF OnBranch, Landed, LandedAs
      <4> QED
        BY <1>0, <4>2, WrittenIsLanded
    <3> QED
      BY <1>3, <3>5, <3>6, <3>7, <3>8 DEF Promise!Next, Promise!Accept, Promise!Answer
  <2> QED
    BY <1>3, <2>1, <2>2, <2>3, <2>4, <2>5, <2>6, <2>7, Effects
<1> QED
  BY <1>0, <1>1, <1>2, <1>3, LogStep

\* The outbox keeps its promise: through crashes, contention, pushes and
\* revocations each operation is written at most once, answered once, and
\* answered with success exactly when it is on the branch.
THEOREM PromiseIsKept ==
    ASSUME Calm
    PROVE  Spec => PromiseKept
<1>1. Init => Promise!Init
  <2> SUFFICES ASSUME Init PROVE Promise!Init
    OBVIOUS
  <2>1. Log = <<>>
    BY DEF Init, Log
  <2>2. Verdict = [o \in Ops |-> "open"]
    BY DEF Init, Verdict
  <2> QED
    BY <2>1, <2>2 DEF Promise!Init
<1>2. Faithful /\ [Next]_vars => [Promise!Next]_<<Log, Verdict>>
  <2>1. ASSUME UNCHANGED vars
        PROVE  UNCHANGED <<Log, Verdict>>
    BY <2>1 DEF vars, Log, Verdict
  <2> QED
    BY <2>1, PromiseStep
<1> QED
  BY <1>1, <1>2, FaithfulHolds, PTL DEF Spec, PromiseKept, Promise!Spec
=============================================================================
