----------------------------- MODULE ReviewProofs -----------------------------
(***************************************************************************)
(* Proofs about Review: type correctness, that no landed write discards    *)
(* words it was not written against, that published prose is not revised   *)
(* directly, that a proposal's verdict agrees with the branch, and that    *)
(* item, submission and proposal agree - for any number of writes, pushes, *)
(* reviewers, attempts, failures, requeues and crashes.                    *)
(***************************************************************************)
EXTENDS Review, TLAPS

-----------------------------------------------------------------------------
(* The kinds of write.                                                     *)

LEMMA Kinds ==
    /\ Edits \cap Works = {} /\ Edits \cap Ranges = {} /\ Edits \cap Revisions = {}
    /\ Edits \cap Toggles = {} /\ Works \cap Ranges = {} /\ Works \cap Revisions = {}
    /\ Works \cap Toggles = {} /\ Ranges \cap Revisions = {} /\ Ranges \cap Toggles = {}
    /\ Revisions \cap Toggles = {}
<1> DEFINE kinds == <<Edits, Works, Ranges, Revisions, Toggles, Pushes>>
<1>1. \A j, k \in 1..6 : j # k => kinds[j] \cap kinds[k] = {}
  BY Distinct
<1>2. /\ kinds[1] = Edits /\ kinds[2] = Works /\ kinds[3] = Ranges /\ kinds[4] = Revisions
      /\ kinds[5] = Toggles
  OBVIOUS
<1> HIDE DEF kinds
<1>3. 1 \in 1..6 /\ 2 \in 1..6 /\ 3 \in 1..6 /\ 4 \in 1..6 /\ 5 \in 1..6
  OBVIOUS
<1> QED
  BY <1>1, <1>2, <1>3

LEMMA KindsAre ==
    /\ Edits \subseteq Proposals /\ Works \subseteq Proposals /\ Proposals \subseteq Writes
    /\ Works \subseteq Items /\ Ranges \subseteq Items /\ Items \subseteq Writes
    /\ Revisions \subseteq Writes /\ Toggles \subseteq Writes
    /\ \A w \in Writes : w \in Edits \cup Works \cup Ranges \cup Revisions \cup Toggles
    /\ Proposals \cap Items = Works
    /\ Items \cap (Edits \cup Revisions \cup Toggles) = {}
    /\ Proposals \cap (Ranges \cup Revisions \cup Toggles) = {}
BY Kinds DEF Proposals, Items, Writes

-----------------------------------------------------------------------------
(* The steps of the drain beside which it only changes hands.              *)

\* A head noted again by the drain that resumes an attempt.
Note(w) == Resume(w) /\ op[w].state = "pinned"

-----------------------------------------------------------------------------
(* The inductive invariant.                                                *)

\* The file f may once have been the chapter: it is older by its number, or what
\* the chapter gained since came in pushes that kept the number, and such a push
\* is behind any difference.
Past(f) ==
    /\ f.rev <= file.rev
    /\ f.rev = file.rev =>
         /\ f.text \subseteq file.text /\ file.text \ f.text \subseteq unnumbered
         /\ f.text = file.text => f = file

Written(w) == op[w].state \in {"landed", "committed"}

Remembered ==
    /\ Past(row.hash)
    /\ \A w \in Writes \ Toggles : Past(base[w])
    /\ \A w \in Writes : Written(w) /\ op[w].plan.applied => Past(op[w].plan.out)

\* A plan pinned to the head as it still is says what composing the chapter as
\* it still is gives.
FreshPlans == \A w \in Writes :
    /\ op[w].head <= head
    /\ op[w].state \in {"planned", "landed", "committed"} => op[w].plan # Nothing
    /\ op[w].plan # Nothing =>
         /\ op[w].plan.head <= head
         /\ ~Written(w) /\ op[w].plan.head = head /\ op[w].plan.applied =>
              Composable(w) /\ op[w].plan.out = Composed(w)

\* What a landed write replaced.
Replaced == \A w \in Writes :
    /\ Landed(w) <=> Written(w) /\ op[w].plan.applied
    /\ Landed(w) => Lost(w) \subseteq unnumbered
    /\ Landed(w) /\ w \in Works => over[w] = base[w]
    /\ Landed(w) /\ w \in Revisions /\ over[w].public =>
         base[w].public \/ (over[w].text \ base[w].text) \cap unnumbered # {}

Numbered == \A w \in Writes :
    /\ op[w].state = "none" => op[w] = NoOp
    /\ w \in retried => op[w].state # "none"

\* Where a proposal stands and where its operation stands.
InStep == \A p \in Proposals :
    /\ prop[p] \in {"none", "pending_review", "rejected"} => op[p] = NoOp
    /\ prop[p] = "applying" => UnderWay(p)
    /\ prop[p] = "approved" => Landed(p) /\ op[p].state = "committed"
    /\ prop[p] = "conflicted" =>
         ~Landed(p) /\ op[p].state \in {"queued", "pinned", "failed", "committed"}

\* Where a work item's artifact stands.
Artifacts == \A i \in Items :
    task[i] = IF ~Written(i) THEN "ready"
              ELSE IF op[i].plan.applied THEN "completed" ELSE "conflict"

\* A work item no rebuild and no revocation took back.
Stories == \A i \in Items \ (reset \cup revoked) :
    /\ sub[i] = "none" => item[i] = "leased" /\ op[i] = NoOp
    /\ sub[i] = "received" => i \in Works /\ item[i] = "submitted" /\ op[i] = NoOp
    /\ sub[i] = "applying" =>
         /\ UnderWay(i) /\ i \notin retried
         /\ item[i] = "applying" \/ (op[i].state = "landed" /\ item[i] = task[i])
    /\ sub[i] = "applied" => item[i] = "completed" /\ op[i].state = "committed" /\ op[i].plan.applied
    /\ sub[i] = "rejected" => i \in Works /\ item[i] = "ready" /\ op[i] = NoOp
    /\ sub[i] = "conflicted" /\ i \notin Ranges \cap retried =>
         /\ op[i].state \in {"queued", "pinned", "failed", "committed"} /\ ~Landed(i)
         /\ item[i] \in {"ready", "conflict"}
    /\ sub[i] = "conflicted" /\ i \in Ranges \ retried => op[i].state \in {"failed", "committed"}
    /\ i \in Works => prop[i] = ProposalOf[sub[i]]
    /\ i \in Ranges /\ op[i] # NoOp => sub[i] \in {"applying", "applied", "conflicted"}

\* What was not yet applied has no operation, what is rejected has none that
\* is coming, and a row is stopped only for a submission that is rejected or was
\* settled first.
Halts == \A i \in Items :
    /\ sub[i] \in {"none", "received"} => op[i] = NoOp
    /\ sub[i] = "rejected" /\ UnderWay(i) => i \in stopped \cup retried
    /\ i \in stopped => op[i] # NoOp /\ (i \in revoked \/ sub[i] # "applying")

\* A work item a rebuild or a revocation took back is free, or as its artifact
\* says; only a revocation leaves a proposal applying without its submission.
Freed ==
    /\ \A i \in reset \cup revoked : item[i] \in {"ready", task[i]}
    /\ \A p \in Works : prop[p] = "applying" => sub[p] = "applying" \/ p \in revoked

Inv == /\ TypeOK /\ Remembered /\ FreshPlans /\ Replaced /\ Numbered
       /\ InStep /\ Artifacts /\ Stories /\ Halts /\ Freed

-----------------------------------------------------------------------------
(* Types.                                                                  *)

LEMMA InitTyped == Init => TypeOK
BY Bounds DEF Init, TypeOK, Draft, Files, NoOp, Operations

LEMMA AppendTyped ==
    ASSUME TypeOK, NEW w \in Writes
    PROVE  Append(queue, w) \in Seq(Writes)
BY DEF TypeOK

LEMMA EnqueueTyped ==
    ASSUME TypeOK, NEW w \in Writes, Enqueue(w)
    PROVE  queue' \in Seq(Writes) /\ op' \in [Writes -> Operations]
BY AppendTyped DEF TypeOK, Enqueue, Operations

LEMMA ComposedTyped ==
    ASSUME TypeOK, NEW w \in Writes
    PROVE  Composed(w) \in Files
<1>1. /\ file \in Files /\ base[w] \in Files
      /\ file.rev + 1 \in Nat /\ file.text \in SUBSET (Writes \cup Pushes) /\ file.public \in BOOLEAN
      /\ base[w].text \in SUBSET (Writes \cup Pushes)
  BY DEF TypeOK, Files
<1> DEFINE text == IF w \in Toggles THEN file.text
                   ELSE IF w \in Ranges THEN file.text \cup {w} ELSE base[w].text \cup {w}
           public == IF w \in Toggles THEN ~file.public ELSE file.public
<1>2. text \in SUBSET (Writes \cup Pushes)
  BY <1>1
<1>3. public \in BOOLEAN
  BY <1>1
<1>4. Composed(w) = [rev |-> file.rev + 1, text |-> text, public |-> public]
  BY DEF Composed
<1> HIDE DEF text, public
<1> QED
  BY <1>1, <1>2, <1>3, <1>4 DEF Files

LEMMA GiveUpTyped ==
    ASSUME TypeOK, NEW w \in Writes, GiveUp(w)
    PROVE  /\ op' \in [Writes -> Operations]
           /\ prop' \in [Proposals -> {"none", "pending_review", "applying", "approved",
                                       "rejected", "conflicted"}]
           /\ item' \in [Items -> {"leased", "submitted", "applying", "ready", "completed", "conflict"}]
           /\ sub' \in [Items -> {"none", "received", "applying", "applied", "conflicted", "rejected"}]
<1>1. op' \in [Writes -> Operations]
  BY DEF GiveUp, TypeOK, Operations
<1>2. prop' \in [Proposals -> {"none", "pending_review", "applying", "approved",
                               "rejected", "conflicted"}]
  BY DEF GiveUp, Release, TypeOK
<1>3. /\ item' \in [Items -> {"leased", "submitted", "applying", "ready", "completed", "conflict"}]
      /\ sub' \in [Items -> {"none", "received", "applying", "applied", "conflicted", "rejected"}]
  BY DEF GiveUp, Release, TypeOK
<1> QED
  BY <1>1, <1>2, <1>3

LEMMA RequestsTyped ==
    ASSUME TypeOK,
           \/ \E p \in Edits : Propose(p)
           \/ \E i \in Items : Submit(i)
           \/ \E w \in Revisions : Revise(w)
           \/ \E w \in Toggles : Toggle(w)
           \/ \E r \in Reviewers, p \in Proposals, say \in {"approve", "reject"} : Consider(r, p, say)
           \/ \E r \in Reviewers : Decide(r)
    PROVE  TypeOK'
<1>1. ASSUME NEW p \in Edits, Propose(p)
      PROVE  TypeOK'
  <2>1. p \in Writes /\ p \in Proposals
    BY KindsAre
  <2>2. base' \in [Writes -> Files] /\ prop' \in [Proposals -> {"none", "pending_review", "applying",
             "approved", "rejected", "conflicted"}]
    BY <1>1, <2>1 DEF Propose, TypeOK
  <2>3. queue' \in Seq(Writes) /\ op' \in [Writes -> Operations]
    BY <1>1, <2>1, EnqueueTyped DEF Propose, TypeOK
  <2> QED
    BY <1>1, <2>2, <2>3 DEF Propose, TypeOK, git, withdrawal, history
<1>2. ASSUME NEW i \in Items, Submit(i)
      PROVE  TypeOK'
  <2>1. i \in Writes /\ (i \in Works => i \in Proposals)
    BY KindsAre
  <2>2. /\ prop' \in [Proposals -> {"none", "pending_review", "applying", "approved",
                                    "rejected", "conflicted"}]
        /\ item' \in [Items -> {"leased", "submitted", "applying", "ready", "completed", "conflict"}]
        /\ sub' \in [Items -> {"none", "received", "applying", "applied", "conflicted", "rejected"}]
    BY <1>2, <2>1 DEF Submit, TypeOK
  <2>3. queue' \in Seq(Writes) /\ op' \in [Writes -> Operations]
    BY <1>2, <2>1, EnqueueTyped DEF Submit, TypeOK
  <2> QED
    BY <1>2, <2>2, <2>3 DEF Submit, TypeOK, git, withdrawal, history
<1>3. ASSUME NEW w \in Revisions, Revise(w)
      PROVE  TypeOK'
  <2>1. w \in Writes
    BY KindsAre
  <2>2. queue' \in Seq(Writes) /\ op' \in [Writes -> Operations] /\ base' \in [Writes -> Files]
    BY <1>3, <2>1, EnqueueTyped DEF Revise, TypeOK
  <2> QED
    BY <1>3, <2>2 DEF Revise, TypeOK, git, withdrawal, history
<1>4. ASSUME NEW w \in Toggles, Toggle(w)
      PROVE  TypeOK'
  <2>1. w \in Writes
    BY KindsAre
  <2>2. [row.hash EXCEPT !.public = row.public] \in Files
    BY DEF TypeOK, Files
  <2>3. queue' \in Seq(Writes) /\ op' \in [Writes -> Operations] /\ base' \in [Writes -> Files]
    BY <1>4, <2>1, <2>2, EnqueueTyped DEF Toggle, TypeOK
  <2> QED
    BY <1>4, <2>3 DEF Toggle, TypeOK, git, withdrawal, history
<1>5. ASSUME NEW r \in Reviewers, NEW p \in Proposals, NEW say \in {"approve", "reject"}, Consider(r, p, say)
      PROVE  TypeOK'
  <2>1. verdict' \in [Reviewers -> [on : Proposals, say : {"approve", "reject"}] \cup {Nothing}]
    BY <1>5 DEF Consider, TypeOK
  <2> QED
    BY <1>5, <2>1 DEF Consider, TypeOK, git, withdrawal, rows, history
<1>6. ASSUME NEW r \in Reviewers, Decide(r)
      PROVE  TypeOK'
  <2>1. verdict[r].on \in Proposals /\ verdict[r].on \in Writes
        /\ (verdict[r].on \in Works => verdict[r].on \in Items)
    BY <1>6, KindsAre DEF Decide, TypeOK
  <2>2. verdict' \in [Reviewers -> [on : Proposals, say : {"approve", "reject"}] \cup {Nothing}]
    BY <1>6 DEF Decide, TypeOK
  <2>3. prop' \in [Proposals -> {"none", "pending_review", "applying", "approved",
                                 "rejected", "conflicted"}]
    BY <1>6, <2>1 DEF Decide, TypeOK
  <2> DEFINE p == verdict[r].on
  <2>4. /\ \/ item' = item
           \/ p \in Works /\ \E s \in {"applying", "ready"} : item' = [item EXCEPT ![p] = s]
        /\ \/ sub' = sub
           \/ p \in Works /\ \E s \in {"applying", "rejected"} : sub' = [sub EXCEPT ![p] = s]
    BY <1>6 DEF Decide
  <2>5. /\ item' \in [Items -> {"leased", "submitted", "applying", "ready", "completed", "conflict"}]
        /\ sub' \in [Items -> {"none", "received", "applying", "applied", "conflicted", "rejected"}]
    <3>1. p \in Works => p \in Items
      BY <2>1
    <3>2. /\ item \in [Items -> {"leased", "submitted", "applying", "ready", "completed", "conflict"}]
          /\ sub \in [Items -> {"none", "received", "applying", "applied", "conflicted", "rejected"}]
      BY DEF TypeOK
    <3> HIDE DEF p
    <3> QED
      BY <2>4, <3>1, <3>2
  <2>6. queue' \in Seq(Writes) /\ op' \in [Writes -> Operations]
    BY <1>6, <2>1, EnqueueTyped DEF Decide, TypeOK
  <2> QED
    BY <1>6, <2>2, <2>3, <2>4, <2>5, <2>6 DEF Decide, TypeOK, git, withdrawal, history
<1> QED
  BY <1>1, <1>2, <1>3, <1>4, <1>5, <1>6

LEMMA OperationsOf ==
    ASSUME NEW d \in Operations, NEW h \in Nat
    PROVE  /\ \A s \in {"queued", "pinned", "planned", "landed", "committed", "failed"} :
                [d EXCEPT !.state = s] \in Operations
           /\ [d EXCEPT !.state = "queued", !.attempts = 0] \in Operations
           /\ [d EXCEPT !.state = "pinned", !.head = h, !.attempts = @ + 1] \in Operations
           /\ \A plan \in Plans : [d EXCEPT !.state = "planned", !.plan = plan] \in Operations
           /\ [d EXCEPT !.head = h] \in Operations
<1>1. /\ \A s \in {"queued", "pinned", "planned", "landed", "committed", "failed"} :
                [d EXCEPT !.state = s] \in Operations
      /\ [d EXCEPT !.head = h] \in Operations
  BY DEF Operations
<1>2. [d EXCEPT !.state = "queued", !.attempts = 0] \in Operations
  BY DEF Operations
<1>3. [d EXCEPT !.state = "pinned", !.head = h, !.attempts = @ + 1] \in Operations
  <2>1. d.attempts + 1 \in Nat /\ d.plan \in Plans \cup {Nothing}
    BY DEF Operations
  <2> DEFINE n == d.attempts + 1
  <2>2. [d EXCEPT !.state = "pinned", !.head = h, !.attempts = @ + 1]
          = [d EXCEPT !.state = "pinned", !.head = h, !.attempts = n]
    OBVIOUS
  <2>3. n \in Nat
    BY <2>1
  <2> HIDE DEF n
  <2>4. [d EXCEPT !.state = "pinned", !.head = h, !.attempts = n] \in Operations
    BY <2>3 DEF Operations
  <2> QED
    BY <2>2, <2>4
<1>4. \A plan \in Plans : [d EXCEPT !.state = "planned", !.plan = plan] \in Operations
  BY DEF Operations
<1> QED
  BY <1>1, <1>2, <1>3, <1>4

\* An operation is one entry of op.
LEMMA OneOperation ==
    ASSUME TypeOK, NEW w \in Writes, NEW plan
    PROVE  /\ [op EXCEPT ![w].state = "queued", ![w].attempts = 0]
                = [op EXCEPT ![w] = [op[w] EXCEPT !.state = "queued", !.attempts = 0]]
           /\ [op EXCEPT ![w].state = "pinned", ![w].head = head, ![w].attempts = @ + 1]
                = [op EXCEPT ![w] = [op[w] EXCEPT !.state = "pinned", !.head = head, !.attempts = @ + 1]]
           /\ [op EXCEPT ![w].state = "planned", ![w].plan = plan]
                = [op EXCEPT ![w] = [op[w] EXCEPT !.state = "planned", !.plan = plan]]
           /\ [op EXCEPT ![w].head = head] = [op EXCEPT ![w] = [op[w] EXCEPT !.head = head]]
<1>1. [op EXCEPT ![w].state = "queued", ![w].attempts = 0]
                = [op EXCEPT ![w] = [op[w] EXCEPT !.state = "queued", !.attempts = 0]]
  BY DEF TypeOK, Operations
<1>2. [op EXCEPT ![w].state = "pinned", ![w].head = head, ![w].attempts = @ + 1]
                = [op EXCEPT ![w] = [op[w] EXCEPT !.state = "pinned", !.head = head, !.attempts = @ + 1]]
  BY DEF TypeOK, Operations
<1>3. [op EXCEPT ![w].state = "planned", ![w].plan = plan]
                = [op EXCEPT ![w] = [op[w] EXCEPT !.state = "planned", !.plan = plan]]
  BY DEF TypeOK, Operations
<1>4. [op EXCEPT ![w].head = head] = [op EXCEPT ![w] = [op[w] EXCEPT !.head = head]]
  BY DEF TypeOK, Operations
<1> QED
  BY <1>1, <1>2, <1>3, <1>4

LEMMA OpTyped ==
    ASSUME TypeOK, NEW w \in Writes
    PROVE  /\ \A d \in Operations : [op EXCEPT ![w] = d] \in [Writes -> Operations]
           /\ op[w] \in Operations /\ head \in Nat
BY DEF TypeOK

LEMMA UsedTyped ==
    ASSUME TypeOK
    PROVE  /\ used.failures < MaxFailures => [used EXCEPT !.failures = @ + 1] \in
                [failures : 0..MaxFailures, retries : 0..MaxRetries, crashes : 0..MaxCrashes]
           /\ used.retries < MaxRetries => [used EXCEPT !.retries = @ + 1] \in
                [failures : 0..MaxFailures, retries : 0..MaxRetries, crashes : 0..MaxCrashes]
           /\ used.crashes < MaxCrashes => [used EXCEPT !.crashes = @ + 1] \in
                [failures : 0..MaxFailures, retries : 0..MaxRetries, crashes : 0..MaxCrashes]
<1>1. MaxFailures \in Nat /\ MaxRetries \in Nat /\ MaxCrashes \in Nat
  BY Bounds
<1>2. used \in [failures : 0..MaxFailures, retries : 0..MaxRetries, crashes : 0..MaxCrashes]
  BY DEF TypeOK
<1> QED
  BY <1>1, <1>2

LEMMA PlanTyped ==
    ASSUME TypeOK, FreshPlans, NEW w \in Writes, op[w].state \in {"planned", "landed", "committed"}
    PROVE  op[w].plan \in Plans /\ op[w].plan.out \in Files /\ op[w].plan.applied \in BOOLEAN
BY DEF TypeOK, Operations, FreshPlans, Plans

LEMMA DrainTyped ==
    ASSUME TypeOK, FreshPlans, NEW w \in Writes,
           Retry(w) \/ Fail(w) \/ Note(w) \/ Pin(w) \/ Plan(w) \/ Land(w) \/ Contend(w) \/ Refuse(w)
             \/ Finalize(w)
    PROVE  TypeOK'
<1>1. CASE Retry(w)
  <2>1. op' \in [Writes -> Operations]
    <3>1. op' = [op EXCEPT ![w] = [op[w] EXCEPT !.state = "queued", !.attempts = 0]]
      BY <1>1, OneOperation DEF Retry
    <3> QED
      BY <3>1, OpTyped, OperationsOf
  <2>2. retried' \subseteq Writes
    BY <1>1 DEF Retry, TypeOK
  <2> QED
    BY <1>1, <2>1, <2>2, UsedTyped DEF Retry, TypeOK, git, withdrawal, rows
<1>2. CASE Fail(w)
  BY <1>2, GiveUpTyped, UsedTyped DEF Fail, GiveUp, TypeOK, git, withdrawal, history
<1>3. CASE Note(w)
  <2>1. op' \in [Writes -> Operations]
    BY <1>3 DEF Note, Resume, TypeOK, Operations
  <2> QED
    BY <1>3, <2>1, UsedTyped DEF Note, Resume, TypeOK, git, withdrawal, rows, history
<1>4. CASE Pin(w)
  <2>1. op' \in [Writes -> Operations]
    <3>1. op' = [op EXCEPT ![w] = [op[w] EXCEPT !.state = "pinned", !.head = head, !.attempts = @ + 1]]
      BY <1>4, OneOperation DEF Pin
    <3> QED
      BY <3>1, OpTyped, OperationsOf
  <2> QED
    BY <1>4, <2>1 DEF Pin, TypeOK, git, withdrawal, rows, history
<1>5. CASE Plan(w)
  <2>1. ASSUME NEW applied \in BOOLEAN
        PROVE  [attempt |-> op[w].attempts, head |-> op[w].head, applied |-> applied,
                out |-> IF applied THEN Composed(w) ELSE file] \in Plans
    <3>1. (IF applied THEN Composed(w) ELSE file) \in Files
      BY ComposedTyped DEF TypeOK
    <3>2. op[w].attempts \in Nat /\ op[w].head \in Nat
      BY DEF TypeOK, Operations
    <3> QED
      BY <3>1, <3>2 DEF Plans
  <2>2. op' \in [Writes -> Operations]
    <3>1. CASE op' = [op EXCEPT ![w].state = "planned"]
      BY <3>1 DEF TypeOK, Operations
    <3>2. ASSUME NEW applied \in BOOLEAN,
                 op' = [op EXCEPT ![w].state = "planned",
                                  ![w].plan = [attempt |-> op[w].attempts, head |-> op[w].head,
                                               applied |-> applied,
                                               out |-> IF applied THEN Composed(w) ELSE file]]
          PROVE  op' \in [Writes -> Operations]
      <4> DEFINE plan == [attempt |-> op[w].attempts, head |-> op[w].head, applied |-> applied,
                          out |-> IF applied THEN Composed(w) ELSE file]
      <4>1. plan \in Plans /\ op' = [op EXCEPT ![w].state = "planned", ![w].plan = plan]
        BY <2>1, <3>2
      <4> HIDE DEF plan
      <4> QED
        BY <4>1, OneOperation, OpTyped, OperationsOf
    <3> QED
      BY <1>5, <3>1, <3>2 DEF Plan
  <2> QED
    BY <1>5, <2>2 DEF Plan, TypeOK, git, withdrawal, rows, history
<1>6. CASE Land(w)
  <2>1. op' \in [Writes -> Operations]
    BY <1>6 DEF Land, TypeOK, Operations
  <2>2. head' \in Nat
    BY <1>6 DEF Land, TypeOK
  <2>3. op[w].plan.out \in Files
    BY <1>6, PlanTyped DEF Land
  <2>4. file' \in Files /\ over' \in [Writes -> Files \cup {Nothing}]
    <3>1. CASE op[w].plan.applied
      <4>1. file \in Files /\ over \in [Writes -> Files \cup {Nothing}]
        BY DEF TypeOK
      <4>2. file' = op[w].plan.out /\ over' = [over EXCEPT ![w] = file]
        BY <1>6, <3>1 DEF Land
      <4> QED
        BY <2>3, <4>1, <4>2
    <3>2. CASE ~op[w].plan.applied
      BY <1>6, <3>2 DEF Land, TypeOK
    <3> QED
      BY <3>1, <3>2
  <2>5. task' \in [Items -> {"ready", "completed", "conflict"}]
    BY <1>6 DEF Land, TypeOK
  <2> QED
    BY <1>6, <2>1, <2>2, <2>4, <2>5 DEF Land, TypeOK, rows, withdrawal
<1>7. CASE Contend(w)
  <2>1. CASE GiveUp(w)
    BY <1>7, <2>1, GiveUpTyped DEF Contend, GiveUp, TypeOK, git, withdrawal, history
  <2>2. CASE ~GiveUp(w)
    <3>1. op' = [op EXCEPT ![w].state = "queued"]
      BY <1>7, <2>2 DEF Contend
    <3>2. op' \in [Writes -> Operations]
      BY <3>1 DEF TypeOK, Operations
    <3> QED
      BY <1>7, <2>2, <3>2 DEF Contend, TypeOK, git, withdrawal, rows, history
  <2> QED
    BY <2>1, <2>2
<1>8. CASE Refuse(w)
  <2>1. GiveUp(w) /\ used' = used
    BY <1>8 DEF Refuse
  <2> QED
    BY <2>1, GiveUpTyped DEF GiveUp, TypeOK, git, history
<1>9. CASE Finalize(w)
  <2>1. op' \in [Writes -> Operations]
    <3>1. op' = [op EXCEPT ![w].state = "committed"] /\ op \in [Writes -> Operations]
      BY <1>9 DEF Finalize, TypeOK
    <3> QED
      BY <3>1 DEF Operations
  <2>2. op[w].plan.out \in Files
    BY <1>9, PlanTyped DEF Finalize
  <2>3. RowAfter(w) \in [hash : Files, public : BOOLEAN]
    <3>1. row.public \in BOOLEAN /\ op[w].plan.out.public \in BOOLEAN
      BY <2>2 DEF TypeOK, Files
    <3> QED
      BY <2>2, <3>1 DEF RowAfter
  <2>4. row' \in [hash : Files, public : BOOLEAN]
    BY <1>9, <2>3 DEF Finalize, TypeOK
  <2>5. prop' \in [Proposals -> {"none", "pending_review", "applying", "approved",
                                 "rejected", "conflicted"}]
    BY <1>9 DEF Finalize, TypeOK
  <2>6. /\ item' \in [Items -> {"leased", "submitted", "applying", "ready", "completed", "conflict"}]
        /\ sub' \in [Items -> {"none", "received", "applying", "applied", "conflicted", "rejected"}]
    <3>1. /\ item \in [Items -> {"leased", "submitted", "applying", "ready", "completed", "conflict"}]
          /\ sub \in [Items -> {"none", "received", "applying", "applied", "conflicted", "rejected"}]
      BY DEF TypeOK
    <3>2. \/ UNCHANGED <<item, sub>>
          \/ /\ item' = [item EXCEPT ![w] = IF op[w].plan.applied THEN "completed" ELSE "conflict"]
             /\ sub' = [sub EXCEPT ![w] = IF @ # "applying" THEN @
                                           ELSE IF op[w].plan.applied THEN "applied" ELSE "conflicted"]
      BY <1>9 DEF Finalize
    <3> QED
      BY <3>1, <3>2
  <2> QED
    BY <1>9, <2>1, <2>4, <2>5, <2>6 DEF Finalize, TypeOK, git, withdrawal, history
<1> QED
  BY <1>1, <1>2, <1>3, <1>4, <1>5, <1>6, <1>7, <1>8, <1>9


LEMMA BranchTyped ==
    ASSUME TypeOK, Refresh \/ \E e \in Pushes : Push(e)
    PROVE  TypeOK'
<1>1. ASSUME NEW e \in Pushes, Push(e)
      PROVE  TypeOK'
  <2>1. file' \in Files /\ unnumbered' \subseteq Pushes /\ head' \in Nat
    BY <1>1 DEF Push, TypeOK, Files
  <2> QED
    BY <1>1, <2>1 DEF Push, TypeOK, rows, withdrawal
<1>2. CASE Refresh
  <2>1. row' \in [hash : Files, public : BOOLEAN]
    BY <1>2 DEF Refresh, TypeOK, Files
  <2>2. item' \in [Items -> {"leased", "submitted", "applying", "ready", "completed", "conflict"}]
    BY <1>2 DEF Refresh, TypeOK
  <2>3. reset' \subseteq Items
    BY <1>2 DEF Refresh, TypeOK
  <2> QED
    BY <1>2, <2>1, <2>2, <2>3 DEF Refresh, TypeOK, git, withdrawal
<1> QED
  BY <1>1, <1>2
-----------------------------------------------------------------------------
(* What the steps do to the operations, the branch and the bases.          *)

\* A request queues a write that had no operation, or leaves a base for one.
Asks ==
    /\ UNCHANGED <<head, file, task, row, over, unnumbered, reset, retried>>
    /\ \A v \in Writes : op'[v] = op[v] \/ (op[v] = NoOp /\ op'[v] = [NoOp EXCEPT !.state = "queued"])
    /\ \A v \in Writes : base'[v] = base[v] \/ (op[v] = NoOp /\ (v \in Toggles \/ base'[v] = row.hash))

\* A step that leaves branch, rows of the chapter, proposals and operations be.
Aside == UNCHANGED <<git, row, prop, base, queue, op, verdict, over, unnumbered, reset, retried>>

Idle == Aside /\ UNCHANGED <<item, sub, stopped, revoked>>

\* A step of the drain that neither plans nor lands.
Turns(w) ==
    /\ UNCHANGED <<head, file, task, base, over, unnumbered, reset>>
    /\ \A v \in Writes \ {w} : op'[v] = op[v]
    /\ op'[w].plan = op[w].plan /\ op'[w].head \in {op[w].head, head}
    /\ \/ op[w].state = "landed" /\ op'[w].state = "committed"
       \/ op[w].state \in {"queued", "pinned", "planned", "failed"}
          /\ op'[w].state \in {"queued", "pinned", "failed"}
    /\ \/ row' = row
       \/ op[w].state = "landed" /\ op[w].plan.applied /\ row'.hash = op[w].plan.out
    /\ retried' = retried \/ (retried' = retried \cup {w} /\ op'[w].state = "queued")

LEMMA QueuedOp ==
    ASSUME TypeOK, NEW w \in Writes, op[w] = NoOp, Enqueue(w)
    PROVE  /\ \A v \in Writes \ {w} : op'[v] = op[v]
           /\ op'[w] = [NoOp EXCEPT !.state = "queued"]
BY DEF Enqueue, TypeOK

LEMMA BeginsBare ==
    ASSUME NEW w \in Writes, CanBegin(w)
    PROVE  /\ op[w] = NoOp
           /\ w \in Proposals => prop[w] = "none"
           /\ w \in Items => sub[w] = "none"
BY DEF CanBegin, Begun

LEMMA RequestsAsk ==
    ASSUME TypeOK, InStep,
           \/ \E p \in Edits : Propose(p)
           \/ \E i \in Items : Submit(i)
           \/ \E w \in Revisions : Revise(w)
           \/ \E w \in Toggles : Toggle(w)
           \/ \E r \in Reviewers, p \in Proposals, say \in {"approve", "reject"} : Consider(r, p, say)
           \/ \E r \in Reviewers : Decide(r)
    PROVE  Asks
<1>1. ASSUME NEW p \in Edits, Propose(p)
      PROVE  Asks
  <2>1. p \in Writes /\ op[p] = NoOp
    BY <1>1, KindsAre, BeginsBare DEF Propose
  <2>2. \A v \in Writes : base'[v] = base[v] \/ (op[v] = NoOp /\ base'[v] = row.hash)
    BY <1>1, <2>1 DEF Propose, TypeOK
  <2>3. \A v \in Writes : op'[v] = op[v] \/ (op[v] = NoOp /\ op'[v] = [NoOp EXCEPT !.state = "queued"])
    BY <1>1, <2>1, QueuedOp DEF Propose
  <2> QED
    BY <1>1, <2>2, <2>3 DEF Propose, Asks, git, history
<1>2. ASSUME NEW i \in Items, Submit(i)
      PROVE  Asks
  <2>1. i \in Writes /\ op[i] = NoOp
    BY <1>2, KindsAre, BeginsBare DEF Submit
  <2>2. \A v \in Writes : op'[v] = op[v] \/ (op[v] = NoOp /\ op'[v] = [NoOp EXCEPT !.state = "queued"])
    BY <1>2, <2>1, QueuedOp DEF Submit
  <2> QED
    BY <1>2, <2>2 DEF Submit, Asks, git, history
<1>3. ASSUME NEW w \in Revisions, Revise(w)
      PROVE  Asks
  <2>1. w \in Writes /\ op[w] = NoOp
    BY <1>3, KindsAre, BeginsBare DEF Revise
  <2>2. \A v \in Writes : base'[v] = base[v] \/ (op[v] = NoOp /\ base'[v] = row.hash)
    BY <1>3, <2>1 DEF Revise, TypeOK
  <2>3. \A v \in Writes : op'[v] = op[v] \/ (op[v] = NoOp /\ op'[v] = [NoOp EXCEPT !.state = "queued"])
    BY <1>3, <2>1, QueuedOp DEF Revise
  <2> QED
    BY <1>3, <2>2, <2>3 DEF Revise, Asks, git, history
<1>4. ASSUME NEW w \in Toggles, Toggle(w)
      PROVE  Asks
  <2>1. w \in Writes /\ op[w] = NoOp
    BY <1>4, KindsAre, BeginsBare DEF Toggle
  <2>2. \A v \in Writes : base'[v] = base[v] \/ (op[v] = NoOp /\ v \in Toggles)
    BY <1>4, <2>1 DEF Toggle, TypeOK
  <2>3. \A v \in Writes : op'[v] = op[v] \/ (op[v] = NoOp /\ op'[v] = [NoOp EXCEPT !.state = "queued"])
    BY <1>4, <2>1, QueuedOp DEF Toggle
  <2> QED
    BY <1>4, <2>2, <2>3 DEF Toggle, Asks, git, history
<1>5. ASSUME NEW r \in Reviewers, NEW p \in Proposals, NEW say \in {"approve", "reject"}, Consider(r, p, say)
      PROVE  Asks
  BY <1>5 DEF Consider, Asks, git, rows, history
<1>6. ASSUME NEW r \in Reviewers, Decide(r)
      PROVE  Asks
  <2>1. verdict[r].on \in Proposals /\ verdict[r].on \in Writes
    BY <1>6, KindsAre DEF Decide, TypeOK
  <2>2. Stands(verdict[r].on) => op[verdict[r].on] = NoOp
    BY <2>1 DEF Stands, InStep
  <2>3. \A v \in Writes : op'[v] = op[v] \/ (op[v] = NoOp /\ op'[v] = [NoOp EXCEPT !.state = "queued"])
    BY <1>6, <2>1, <2>2, QueuedOp DEF Decide
  <2> QED
    BY <1>6, <2>3 DEF Decide, Asks, git, history
<1> QED
  BY <1>1, <1>2, <1>3, <1>4, <1>5, <1>6

LEMMA IdleSteps ==
    ASSUME TypeOK,
           \/ Crash
           \/ \E w \in Writes : Resume(w) /\ op[w].state # "pinned"
           \/ \E i \in Items : RevokeReads(i)
    PROVE  Idle /\ TypeOK'
<1>1. CASE Crash
  <2>1. Aside /\ UNCHANGED <<item, sub, cascade, stopped, revoked>> /\ held' = Nothing
        /\ used' = [used EXCEPT !.crashes = @ + 1] /\ used.crashes < MaxCrashes
    BY <1>1 DEF Crash, Aside, rows, history
  <2>2. used' \in [failures : 0..MaxFailures, retries : 0..MaxRetries, crashes : 0..MaxCrashes]
    BY <2>1, UsedTyped
  <2> QED
    BY <2>1, <2>2 DEF Idle, Aside, TypeOK, git
<1>2. ASSUME NEW w \in Writes, Resume(w), op[w].state # "pinned"
      PROVE  Idle /\ TypeOK'
  <2>1. Aside /\ UNCHANGED <<item, sub, cascade, stopped, revoked, used>> /\ held' = w
    BY <1>2 DEF Resume, Aside, rows, history
  <2> QED
    BY <2>1 DEF Idle, Aside, TypeOK, git
<1>3. ASSUME NEW i \in Items, RevokeReads(i)
      PROVE  Idle /\ TypeOK'
  <2>1. Aside /\ UNCHANGED <<item, sub, held, stopped, revoked, used>>
        /\ cascade' = [cascade EXCEPT ![i] = sub[i]] /\ sub[i] \in Seen
    BY <1>3 DEF RevokeReads, Aside, rows, history, Seen
  <2> QED
    BY <2>1 DEF Idle, Aside, TypeOK, git
<1> QED
  BY <1>1, <1>2, <1>3

\* The batch of a revocation settles one item.
LEMMA RevokeSays ==
    ASSUME TypeOK, NEW i \in Items, RevokeCommits(i)
    PROVE  /\ Aside /\ TypeOK'
           /\ \A j \in Items \ {i} : /\ item'[j] = item[j] /\ sub'[j] = sub[j]
                                     /\ (j \in stopped' <=> j \in stopped)
                                     /\ (j \in revoked' <=> j \in revoked)
           /\ item'[i] = item[i] \/ item'[i] = "ready"
           /\ item[i] \in {"submitted", "applying"} /\ sub'[i] # sub[i] => item'[i] = "ready"
           /\ sub'[i] = sub[i] \/ (sub[i] \in {"received", "applying"} /\ sub'[i] = "rejected")
           /\ item'[i] # item[i] \/ sub'[i] # sub[i] => i \in revoked'
           /\ i \in revoked => i \in revoked'
           /\ i \in revoked' /\ i \notin revoked => item'[i] # item[i] \/ sub'[i] # sub[i]
           /\ i \in stopped => i \in stopped'
           /\ i \in stopped' /\ i \notin stopped =>
                UnderWay(i) /\ (sub'[i] # sub[i] \/ sub[i] # "applying")
           /\ sub'[i] # sub[i] /\ UnderWay(i) /\ sub[i] = "applying" => i \in stopped'
<1>1. Aside /\ UNCHANGED <<held, used>> /\ cascade' = [cascade EXCEPT ![i] = Nothing]
  BY DEF RevokeCommits, Aside, git
<1>2. /\ sub' = IF cascade[i] \in {"received", "applying"} /\ sub[i] = cascade[i]
                THEN [sub EXCEPT ![i] = "rejected"] ELSE sub
      /\ item' = IF item[i] \in (IF cascade[i] = "none" THEN {"leased"} ELSE {"submitted", "applying"})
                 THEN [item EXCEPT ![i] = "ready"] ELSE item
      /\ stopped' = IF cascade[i] = "applying" /\ UnderWay(i) THEN stopped \cup {i} ELSE stopped
      /\ revoked' = IF <<sub, item>>' = <<sub, item>> THEN revoked ELSE revoked \cup {i}
  BY DEF RevokeCommits, StopRow
<1>3. /\ sub \in [Items -> {"none", "received", "applying", "applied", "conflicted", "rejected"}]
      /\ item \in [Items -> {"leased", "submitted", "applying", "ready", "completed", "conflict"}]
      /\ stopped \subseteq Items /\ revoked \subseteq Items
  BY DEF TypeOK
<1>4. item'[i] # item[i] <=> item' # item
  BY <1>2, <1>3
<1>5. sub'[i] # sub[i] <=> sub' # sub
  BY <1>2, <1>3
<1>6. TypeOK'
  <2>1. item' = item \/ item' = [item EXCEPT ![i] = "ready"]
    BY <1>2
  <2>2. sub' = sub \/ sub' = [sub EXCEPT ![i] = "rejected"]
    BY <1>2
  <2>3. stopped' \in {stopped, stopped \cup {i}} /\ revoked' \in {revoked, revoked \cup {i}}
    BY <1>2
  <2>4. cascade' \in [Items -> Seen \cup {Nothing}]
    BY <1>1 DEF TypeOK
  <2>5. item' \in [Items -> {"leased", "submitted", "applying", "ready", "completed", "conflict"}]
    BY <1>3, <2>1
  <2>6. sub' \in [Items -> {"none", "received", "applying", "applied", "conflicted", "rejected"}]
    BY <1>3, <2>2
  <2> QED
    BY <1>1, <2>3, <2>4, <2>5, <2>6 DEF Aside, TypeOK, git
<1>7. \A j \in Items \ {i} : /\ item'[j] = item[j] /\ sub'[j] = sub[j]
                             /\ (j \in stopped' <=> j \in stopped)
                             /\ (j \in revoked' <=> j \in revoked)
  BY <1>2, <1>3
<1>8. /\ item'[i] # item[i] \/ sub'[i] # sub[i] => i \in revoked'
      /\ i \in revoked => i \in revoked'
      /\ i \in revoked' /\ i \notin revoked => item'[i] # item[i] \/ sub'[i] # sub[i]
  BY <1>2, <1>4, <1>5
<1>9. /\ item'[i] = item[i] \/ item'[i] = "ready"
      /\ sub'[i] = sub[i] \/ (sub[i] \in {"received", "applying"} /\ sub'[i] = "rejected")
      /\ item[i] \in {"submitted", "applying"} /\ sub'[i] # sub[i] => item'[i] = "ready"
  BY <1>2, <1>3
<1>10. /\ i \in stopped => i \in stopped'
       /\ i \in stopped' /\ i \notin stopped =>
            UnderWay(i) /\ (sub'[i] # sub[i] \/ sub[i] # "applying")
       /\ sub'[i] # sub[i] /\ UnderWay(i) /\ sub[i] = "applying" => i \in stopped'
  BY <1>2, <1>3
<1> QED
  BY <1>1, <1>6, <1>7, <1>8, <1>9, <1>10

LEMMA AsideAsks == TypeOK /\ Aside => Asks
BY DEF Aside, Asks, git

LEMMA TypedKept ==
    ASSUME TypeOK, FreshPlans, [Next]_vars
    PROVE  TypeOK'
<1>1. CASE UNCHANGED vars
  BY <1>1 DEF vars, withdrawal, git, rows, history, TypeOK
<1> QED
  BY <1>1, BranchTyped, RequestsTyped, DrainTyped, IdleSteps, RevokeSays DEF Next, Drain, Note

\* The steps of Next, by what they leave alone.
LEMMA StepKinds ==
    ASSUME TypeOK, [Next]_vars
    PROVE  \/ UNCHANGED vars
           \/ Refresh \/ \E e \in Pushes : Push(e)
           \/ \E p \in Edits : Propose(p)
           \/ \E i \in Items : Submit(i)
           \/ \E w \in Revisions : Revise(w)
           \/ \E w \in Toggles : Toggle(w)
           \/ \E r \in Reviewers, p \in Proposals, say \in {"approve", "reject"} : Consider(r, p, say)
           \/ \E r \in Reviewers : Decide(r)
           \/ \E w \in Writes : \/ Retry(w) \/ Fail(w) \/ Note(w) \/ Pin(w) \/ Plan(w) \/ Land(w)
                                \/ Contend(w) \/ Refuse(w) \/ Finalize(w)
           \/ Idle
           \/ \E i \in Items : RevokeCommits(i)
BY IdleSteps DEF Next, Drain, Note

LEMMA DrainTurns ==
    ASSUME TypeOK, NEW w \in Writes,
           Retry(w) \/ Fail(w) \/ Note(w) \/ Pin(w) \/ Contend(w) \/ Refuse(w) \/ Finalize(w)
    PROVE  Turns(w)
<1>0. /\ op \in [Writes -> Operations] /\ op[w] \in Operations
      /\ UNCHANGED <<head, file, task, base, over, unnumbered, reset>>
  BY DEF TypeOK, Retry, Fail, Note, Resume, Pin, Contend, Refuse, Finalize, GiveUp, git, rows, history
<1>1. CASE Retry(w)
  <2>1. op' = [op EXCEPT ![w] = [op[w] EXCEPT !.state = "queued", !.attempts = 0]]
    BY <1>1, OneOperation DEF Retry
  <2>2. row' = row /\ retried' = retried \cup {w} /\ op[w].state = "failed"
    BY <1>1 DEF Retry, rows
  <2> QED
    BY <1>0, <2>1, <2>2 DEF Turns, Operations
<1>2. CASE Fail(w) \/ Contend(w) \/ Refuse(w)
  <2>1. /\ \/ op' = [op EXCEPT ![w].state = "failed"]
           \/ op' = [op EXCEPT ![w].state = "queued"]
        /\ op[w].state \in {"pinned", "planned"}
        /\ row' = row /\ retried' = retried
    BY <1>2 DEF Fail, Contend, Refuse, GiveUp, rows, history
  <2> QED
    BY <1>0, <2>1 DEF Turns, Operations
<1>3. CASE Note(w)
  <2>1. op' = [op EXCEPT ![w] = [op[w] EXCEPT !.head = head]]
    BY <1>3, OneOperation DEF Note, Resume
  <2>2. row' = row /\ retried' = retried /\ op[w].state = "pinned"
    BY <1>3 DEF Note, Resume, rows, history
  <2> QED
    BY <1>0, <2>1, <2>2 DEF Turns, Operations
<1>4. CASE Pin(w)
  <2>1. op' = [op EXCEPT ![w] = [op[w] EXCEPT !.state = "pinned", !.head = head, !.attempts = @ + 1]]
    BY <1>4, OneOperation DEF Pin
  <2>2. row' = row /\ retried' = retried /\ op[w].state = "queued"
    BY <1>4 DEF Pin, rows, history
  <2> QED
    BY <1>0, <2>1, <2>2 DEF Turns, Operations
<1>5. CASE Finalize(w)
  <2>1. /\ op' = [op EXCEPT ![w].state = "committed"] /\ op[w].state = "landed"
        /\ row' = IF op[w].plan.applied THEN RowAfter(w) ELSE row
        /\ retried' = retried
    BY <1>5 DEF Finalize, history
  <2>2. row' = row \/ (op[w].plan.applied /\ row'.hash = op[w].plan.out)
    BY <2>1 DEF RowAfter
  <2> QED
    BY <1>0, <2>1, <2>2 DEF Turns, Operations
<1> QED
  BY <1>1, <1>2, <1>3, <1>4, <1>5

\* A plan is for the attempt and the head it was made in, and a kept one stays.
LEMMA PlanSays ==
    ASSUME TypeOK, NEW w \in Writes, Plan(w)
    PROVE  /\ UNCHANGED <<head, file, task, row, base, over, unnumbered, reset, retried>>
           /\ \A v \in Writes \ {w} : op'[v] = op[v]
           /\ op[w].state = "pinned" /\ op'[w].state = "planned" /\ op'[w].head = op[w].head
           /\ \/ op'[w].plan = op[w].plan /\ op[w].plan # Nothing
              \/ /\ op'[w].plan \in Plans /\ op'[w].plan.head = op[w].head
                 /\ op'[w].plan.applied => Composable(w) /\ op'[w].plan.out = Composed(w)
<1>1. op[w].state = "pinned" /\ UNCHANGED <<head, file, task, row, base, over, unnumbered, reset, retried>>
  BY DEF Plan, git, rows, history
<1>2. CASE Kept(w) /\ op' = [op EXCEPT ![w].state = "planned"]
  BY <1>1, <1>2 DEF TypeOK, Operations, Kept
<1>3. ASSUME NEW applied \in BOOLEAN, applied => Composable(w),
             op' = [op EXCEPT ![w].state = "planned",
                              ![w].plan = [attempt |-> op[w].attempts, head |-> op[w].head,
                                           applied |-> applied,
                                           out |-> IF applied THEN Composed(w) ELSE file]]
      PROVE  /\ \A v \in Writes \ {w} : op'[v] = op[v]
             /\ op'[w].state = "planned" /\ op'[w].head = op[w].head
             /\ op'[w].plan \in Plans /\ op'[w].plan.head = op[w].head
             /\ op'[w].plan.applied => Composable(w) /\ op'[w].plan.out = Composed(w)
  <2> DEFINE out == IF applied THEN Composed(w) ELSE file
             plan == [attempt |-> op[w].attempts, head |-> op[w].head, applied |-> applied, out |-> out]
  <2>1. out \in Files /\ (applied => out = Composed(w))
    BY ComposedTyped DEF TypeOK
  <2>2. op[w].attempts \in Nat /\ op[w].head \in Nat
    BY DEF TypeOK, Operations
  <2>3. op' = [op EXCEPT ![w].state = "planned", ![w].plan = plan]
    BY <1>3
  <2> HIDE DEF out
  <2>4. plan \in Plans /\ plan.head = op[w].head /\ plan.applied = applied /\ plan.out = out
    BY <2>1, <2>2 DEF Plans
  <2> HIDE DEF plan
  <2>5. op' = [op EXCEPT ![w] = [op[w] EXCEPT !.state = "planned", !.plan = plan]]
    BY <2>3, OneOperation
  <2>6. /\ \A v \in Writes \ {w} : op'[v] = op[v]
        /\ op'[w].state = "planned" /\ op'[w].head = op[w].head /\ op'[w].plan = plan
    BY <2>5 DEF TypeOK, Operations
  <2> QED
    BY <1>3, <2>1, <2>4, <2>6
<1> QED
  BY <1>1, <1>2, <1>3 DEF Plan

LEMMA LandSays ==
    ASSUME TypeOK, FreshPlans, NEW w \in Writes, Land(w)
    PROVE  /\ UNCHANGED <<row, prop, base, item, sub, unnumbered, reset, retried>>
           /\ \A v \in Writes \ {w} : op'[v] = op[v] /\ over'[v] = over[v]
           /\ op[w].state = "planned" /\ op'[w].state = "landed" /\ op'[w].head = op[w].head
           /\ op'[w].plan = op[w].plan /\ op[w].plan # Nothing
           /\ head' = head + 1
           /\ op[w].plan.applied =>
                /\ Composable(w) /\ op[w].plan.out = Composed(w)
                /\ file' = Composed(w) /\ over'[w] = file
           /\ ~op[w].plan.applied => file' = file /\ over' = over
<1>1. /\ UNCHANGED <<row, prop, base, item, sub, unnumbered, reset, retried>>
      /\ op[w].state = "planned" /\ op' = [op EXCEPT ![w].state = "landed"] /\ head' = head + 1
      /\ head = op[w].plan.head
  BY DEF Land, rows, AtItsHead
<1>2. /\ \A v \in Writes \ {w} : op'[v] = op[v]
      /\ op'[w].state = "landed" /\ op'[w].head = op[w].head /\ op'[w].plan = op[w].plan
  BY <1>1 DEF TypeOK, Operations
<1>3. ~Written(w) /\ op[w].plan # Nothing
  BY <1>1 DEF Written, FreshPlans
<1>4. CASE op[w].plan.applied
  <2>1. Composable(w) /\ op[w].plan.out = Composed(w)
    BY <1>1, <1>3, <1>4 DEF FreshPlans
  <2>2. file' = op[w].plan.out /\ over' = [over EXCEPT ![w] = file]
    BY <1>4 DEF Land
  <2>3. over'[w] = file /\ \A v \in Writes \ {w} : over'[v] = over[v]
    BY <2>2 DEF TypeOK
  <2> QED
    BY <1>1, <1>2, <1>3, <1>4, <2>1, <2>2, <2>3
<1>5. CASE ~op[w].plan.applied
  BY <1>1, <1>2, <1>3, <1>5 DEF Land
<1> QED
  BY <1>4, <1>5

-----------------------------------------------------------------------------
(* The files the drain, the row and the bases remember.                    *)

\* A commit makes the chapter newer in one of these ways.
Ages ==
    \/ file' = file /\ unnumbered' = unnumbered
    \/ file'.rev = file.rev + 1
    \/ \E e \in Pushes : /\ e \notin file.text /\ file'.rev = file.rev
                         /\ file'.text = file.text \cup {e} /\ unnumbered' = unnumbered \cup {e}

LEMMA PastKept ==
    ASSUME TypeOK, Ages
    PROVE  \A f \in Files : Past(f) =>
             /\ f.rev <= file'.rev
             /\ f.rev = file'.rev =>
                  /\ f.text \subseteq file'.text /\ file'.text \ f.text \subseteq unnumbered'
                  /\ f.text = file'.text => f = file'
<1> SUFFICES ASSUME NEW f \in Files, Past(f)
             PROVE  /\ f.rev <= file'.rev
                    /\ f.rev = file'.rev =>
                         /\ f.text \subseteq file'.text /\ file'.text \ f.text \subseteq unnumbered'
                         /\ f.text = file'.text => f = file'
  OBVIOUS
<1>0. f.rev \in Nat /\ file.rev \in Nat
  BY DEF TypeOK, Files
<1>1. CASE file' = file /\ unnumbered' = unnumbered
  BY <1>1 DEF Past
<1>2. CASE file'.rev = file.rev + 1
  BY <1>0, <1>2 DEF Past
<1>3. ASSUME NEW e \in Pushes, e \notin file.text, file'.rev = file.rev,
             file'.text = file.text \cup {e}, unnumbered' = unnumbered \cup {e}
      PROVE  /\ f.rev <= file'.rev
             /\ f.rev = file'.rev =>
                  /\ f.text \subseteq file'.text /\ file'.text \ f.text \subseteq unnumbered'
                  /\ f.text = file'.text => f = file'
  BY <1>3 DEF Past
<1> QED
  BY <1>1, <1>2, <1>3 DEF Ages

LEMMA PushAges ==
    ASSUME TypeOK, NEW e \in Pushes, Push(e)
    PROVE  Ages /\ UNCHANGED <<task, row, prop, base, item, sub, op, over, reset, retried>>
           /\ head' = head + 1 /\ unnumbered \subseteq unnumbered'
<1>1. PICK numbered \in BOOLEAN, public \in BOOLEAN :
         /\ file' = [rev |-> file.rev + IF numbered THEN 1 ELSE 0,
                     text |-> file.text \cup {e}, public |-> public]
         /\ unnumbered' = IF numbered THEN unnumbered ELSE unnumbered \cup {e}
  BY DEF Push
<1>2. e \notin file.text /\ file.rev \in Nat
  BY DEF Push, TypeOK, Files
<1>3. Ages
  BY <1>1, <1>2 DEF Ages
<1> QED
  BY <1>1, <1>3 DEF Push, rows

LEMMA ComposedNewer ==
    ASSUME NEW w \in Writes
    PROVE  /\ Composed(w).rev = file.rev + 1
           /\ w \in Toggles => Composed(w).text = file.text
           /\ w \in Ranges => Composed(w).text = file.text \cup {w}
           /\ w \in Edits \cup Works \cup Revisions => Composed(w).text = base[w].text \cup {w}
BY Kinds DEF Composed

LEMMA PastItself == TypeOK => Past(file)
BY DEF Past, TypeOK, Files

\* Where the bases, the row and the written files stand among the chapter's.
LEMMA RememberedTyped ==
    ASSUME TypeOK, FreshPlans
    PROVE  /\ row.hash \in Files
           /\ \A w \in Writes : base[w] \in Files
           /\ \A w \in Writes : Written(w) => op[w].plan.out \in Files
BY PlanTyped DEF TypeOK, Written

LEMMA RememberedKept ==
    ASSUME TypeOK, TypeOK', FreshPlans, Remembered,
           \/ Refresh
           \/ \E e \in Pushes : Push(e)
           \/ Asks
           \/ \E w \in Writes : Turns(w) \/ Plan(w) \/ Land(w)
    PROVE  Remembered'
<1>1. CASE Refresh
  <2>1. row'.hash = file /\ UNCHANGED <<file, base, op, unnumbered>>
    BY <1>1 DEF Refresh, git
  <2> QED
    BY <2>1, PastItself DEF Remembered, Past, Written
<1>2. ASSUME NEW e \in Pushes, Push(e)
      PROVE  Remembered'
  <2>1. Ages /\ UNCHANGED <<row, base, op>>
    BY <1>2, PushAges
  <2>2. Past(row.hash)'
    BY <2>1, PastKept, RememberedTyped DEF Remembered, Past
  <2>3. \A w \in Writes \ Toggles : Past(base[w])'
    BY <2>1, PastKept, RememberedTyped DEF Remembered, Past
  <2>4. \A w \in Writes : Written(w) => Past(op[w].plan.out)' \/ ~op[w].plan.applied
    BY <2>1, PastKept, RememberedTyped DEF Remembered, Past
  <2> QED
    BY <2>1, <2>2, <2>3, <2>4 DEF Remembered, Past, Written
<1>3. CASE Asks
  <2>1. UNCHANGED <<file, row, unnumbered>>
    BY <1>3 DEF Asks
  <2>2. \A w \in Writes \ Toggles : base'[w] = base[w] \/ base'[w] = row.hash
    BY <1>3 DEF Asks
  <2>3. \A w \in Writes : op'[w].state \in {"landed", "committed"} => op'[w] = op[w]
    BY <1>3 DEF Asks, NoOp
  <2> QED
    BY <2>1, <2>2, <2>3 DEF Remembered, Past, Written
<1>4. ASSUME NEW w \in Writes, Turns(w)
      PROVE  Remembered'
  <2>1. UNCHANGED <<file, base, unnumbered>>
    BY <1>4 DEF Turns
  <2>2. \A v \in Writes : op'[v].state \in {"landed", "committed"} =>
           op[v].state \in {"landed", "committed"} /\ op'[v].plan = op[v].plan
    BY <1>4 DEF Turns
  <2>3. row' = row \/ (Written(w) /\ op[w].plan.applied /\ row'.hash = op[w].plan.out)
    BY <1>4 DEF Turns, Written
  <2> QED
    BY <2>1, <2>2, <2>3 DEF Remembered, Past, Written
<1>5. ASSUME NEW w \in Writes, Plan(w)
      PROVE  Remembered'
  <2>1. UNCHANGED <<file, base, row, unnumbered>>
        /\ \A v \in Writes : op'[v].state \in {"landed", "committed"} => op'[v] = op[v]
    BY <1>5, PlanSays
  <2> QED
    BY <2>1 DEF Remembered, Past, Written
<1>6. ASSUME NEW w \in Writes, Land(w)
      PROVE  Remembered'
  <2>1. UNCHANGED <<row, base, unnumbered>>
        /\ \A v \in Writes : op'[v].plan = op[v].plan /\ (v # w => op'[v] = op[v])
        /\ (op[w].plan.applied => file' = Composed(w) /\ op[w].plan.out = Composed(w))
        /\ (~op[w].plan.applied => file' = file)
    BY <1>6, LandSays
  <2>2. Ages
    BY <2>1, ComposedNewer DEF Ages
  <2>3. Past(row.hash)'
    BY <2>1, <2>2, PastKept, RememberedTyped DEF Remembered, Past
  <2>4. \A v \in Writes \ Toggles : Past(base[v])'
    BY <2>1, <2>2, PastKept, RememberedTyped DEF Remembered, Past
  <2>5. \A v \in Writes : Written(v) => Past(op[v].plan.out)' \/ ~op[v].plan.applied
    <3>1. ASSUME NEW v \in Writes, Written(v), op[v].plan.applied
          PROVE  /\ op[v].plan.out.rev <= file'.rev
                 /\ op[v].plan.out.rev = file'.rev =>
                      /\ op[v].plan.out.text \subseteq file'.text
                      /\ file'.text \ op[v].plan.out.text \subseteq unnumbered'
                      /\ op[v].plan.out.text = file'.text => op[v].plan.out = file'
      BY <3>1, <2>2, PastKept, RememberedTyped DEF Remembered
    <3>2. \A v \in Writes : op'[v].plan.out = op[v].plan.out
      BY <2>1
    <3> QED
      BY <3>1, <3>2 DEF Past
  <2>6. op[w].plan.applied => Past(op[w].plan.out)'
    <3>1. file'.rev \in Nat
      BY DEF TypeOK, Files
    <3>2. op[w].plan.applied => op'[w].plan.out = file'
      BY <2>1
    <3> QED
      BY <3>1, <3>2 DEF Past
  <2> QED
    BY <2>1, <2>3, <2>4, <2>5, <2>6 DEF Remembered, Written, Past
<1> QED
  BY <1>1, <1>2, <1>3, <1>4, <1>5, <1>6

-----------------------------------------------------------------------------
(* Plans.                                                                  *)

LEMMA SameMeaning ==
    ASSUME NEW w \in Writes, file' = file, base'[w] = base[w]
    PROVE  Composable(w)' = Composable(w) /\ Composed(w)' = Composed(w)
BY DEF Composable, Composed

LEMMA PlansKept ==
    ASSUME TypeOK, TypeOK', FreshPlans,
           \/ Refresh
           \/ \E e \in Pushes : Push(e)
           \/ Asks
           \/ \E w \in Writes : Turns(w) \/ Plan(w) \/ Land(w)
    PROVE  FreshPlans'
<1>0. /\ head \in Nat /\ \A w \in Writes : op[w].head \in Nat
      /\ \A w \in Writes : op[w].plan # Nothing => op[w].plan.head \in Nat
  BY DEF TypeOK, Operations, Plans
<1>1. CASE Refresh
  <2>1. UNCHANGED <<head, file, base, op>>
    BY <1>1 DEF Refresh, git
  <2> QED
    BY <2>1 DEF FreshPlans, Written, Composable, Composed
<1>2. ASSUME NEW e \in Pushes, Push(e)
      PROVE  FreshPlans'
  <2>1. head' = head + 1 /\ UNCHANGED op
    BY <1>2, PushAges
  <2> QED
    BY <1>0, <2>1 DEF FreshPlans, Written
<1>3. CASE Asks
  <2>1. UNCHANGED <<file, head>>
    BY <1>3 DEF Asks
  <2>2. \A w \in Writes : \/ op'[w] = op[w] /\ (base'[w] = base[w] \/ op[w].plan = Nothing)
                          \/ op'[w].plan = Nothing /\ op'[w].head = 0 /\ op'[w].state = "queued"
    BY <1>3 DEF Asks, NoOp
  <2> SUFFICES ASSUME NEW w \in Writes
               PROVE  /\ op'[w].head <= head'
                      /\ op'[w].state \in {"planned", "landed", "committed"} => op'[w].plan # Nothing
                      /\ op'[w].plan # Nothing =>
                           /\ op'[w].plan.head <= head'
                           /\ Written(w)' \/ op'[w].plan.head # head' \/ ~op'[w].plan.applied
                                \/ (Composable(w)' /\ op'[w].plan.out = Composed(w)')
    BY DEF FreshPlans
  <2>3. CASE op'[w].plan = Nothing /\ op'[w].head = 0 /\ op'[w].state = "queued"
    BY <1>0, <2>1, <2>3
  <2>4. CASE op'[w] = op[w] /\ op[w].plan = Nothing
    BY <2>1, <2>4 DEF FreshPlans
  <2>5. CASE op'[w] = op[w] /\ base'[w] = base[w]
    BY <2>1, <2>5, SameMeaning DEF FreshPlans, Written
  <2> QED
    BY <2>2, <2>3, <2>4, <2>5
<1>4. ASSUME NEW w \in Writes, Turns(w)
      PROVE  FreshPlans'
  <2>1. UNCHANGED <<file, head, base>>
        /\ \A v \in Writes : /\ op'[v].plan = op[v].plan
                             /\ op'[v].head = op[v].head \/ op'[v].head = head
                             /\ op'[v].state \in {"planned", "landed", "committed"} =>
                                  op[v].state \in {"planned", "landed", "committed"}
                             /\ op'[v].state \notin {"landed", "committed"} =>
                                  op[v].state \notin {"landed", "committed"}
    BY <1>4 DEF Turns
  <2>2. \A v \in Writes : Composable(v)' = Composable(v) /\ Composed(v)' = Composed(v)
    BY <2>1, SameMeaning
  <2> QED
    BY <1>0, <2>1, <2>2 DEF FreshPlans, Written
<1>5. ASSUME NEW w \in Writes, Plan(w)
      PROVE  FreshPlans'
  <2>1. UNCHANGED <<file, head, base>>
    BY <1>5, PlanSays
  <2>2. \A v \in Writes : Composable(v)' = Composable(v) /\ Composed(v)' = Composed(v)
    BY <2>1, SameMeaning
  <2>3. \A v \in Writes \ {w} : op'[v] = op[v]
    BY <1>5, PlanSays
  <2>4. /\ op[w].state = "pinned" /\ op'[w].state = "planned" /\ op'[w].head = op[w].head
        /\ \/ op'[w].plan = op[w].plan /\ op[w].plan # Nothing
           \/ /\ op'[w].plan # Nothing /\ op'[w].plan.head = op[w].head
              /\ op'[w].plan.applied => Composable(w) /\ op'[w].plan.out = Composed(w)
    BY <1>5, PlanSays, NoFile
  <2>5. CASE op'[w].plan = op[w].plan /\ op[w].plan # Nothing
    BY <2>1, <2>2, <2>3, <2>4, <2>5 DEF FreshPlans, Written
  <2>6. CASE op'[w].plan # Nothing /\ op'[w].plan.head = op[w].head
             /\ (op'[w].plan.applied => Composable(w) /\ op'[w].plan.out = Composed(w))
    BY <2>1, <2>2, <2>3, <2>4, <2>6 DEF FreshPlans, Written
  <2> QED
    BY <2>4, <2>5, <2>6
<1>6. ASSUME NEW w \in Writes, Land(w)
      PROVE  FreshPlans'
  <2>1. head' = head + 1
        /\ \A v \in Writes : op'[v].plan = op[v].plan /\ op'[v].head = op[v].head
                             /\ (v # w => op'[v] = op[v])
        /\ op[w].plan # Nothing
    BY <1>6, LandSays
  <2> QED
    BY <1>0, <2>1 DEF FreshPlans
<1> QED
  BY <1>1, <1>2, <1>3, <1>4, <1>5, <1>6
-----------------------------------------------------------------------------
(* What a landed write replaced.                                           *)

\* The four things Replaced says of a write, of its landing alone.
LEMMA LandingReplaces ==
    ASSUME TypeOK, Remembered, FreshPlans, NEW w \in Writes, Land(w), op[w].plan.applied
    PROVE  /\ over'[w] = file /\ file # Nothing
           /\ over'[w].text \ op'[w].plan.out.text \subseteq unnumbered
           /\ w \in Works => over'[w] = base[w]
           /\ w \in Revisions /\ over'[w].public =>
                base[w].public \/ (over'[w].text \ base[w].text) \cap unnumbered # {}
<1>1. /\ over'[w] = file /\ op'[w].plan = op[w].plan
      /\ Composable(w) /\ op[w].plan.out = Composed(w)
  BY LandSays
<1>2. file \in Files /\ file # Nothing /\ base[w] \in Files
  BY NoFile DEF TypeOK
<1>3. w \notin Toggles => Past(base[w])
  BY DEF Remembered
<1>4. file.text \ Composed(w).text \subseteq unnumbered
  <2>1. CASE w \in Toggles \cup Ranges
    BY <2>1, ComposedNewer
  <2>2. CASE w \in Edits \cup Revisions
    <3>1. file.rev = base[w].rev /\ Past(base[w])
      BY <1>1, <1>3, <2>2, Kinds DEF Composable
    <3> QED
      BY <2>2, <3>1, ComposedNewer DEF Past
  <2>3. CASE w \in Works
    <3>1. file = base[w]
      BY <1>1, <2>3, Kinds DEF Composable
    <3> QED
      BY <2>3, <3>1, ComposedNewer
  <2> QED
    BY <2>1, <2>2, <2>3, KindsAre
<1>5. w \in Works => file = base[w]
  BY <1>1, Kinds DEF Composable
<1>6. w \in Revisions /\ file.public => base[w].public \/ (file.text \ base[w].text) \cap unnumbered # {}
  <2>1. ASSUME w \in Revisions
        PROVE  file.rev = base[w].rev /\ Past(base[w])
    BY <1>1, <1>3, <2>1, Kinds DEF Composable
  <2> QED
    BY <2>1 DEF Past
<1> QED
  BY <1>1, <1>2, <1>4, <1>5, <1>6

LEMMA ReplacedKept ==
    ASSUME TypeOK, Remembered, FreshPlans, Replaced,
           \/ Refresh
           \/ \E e \in Pushes : Push(e)
           \/ Asks
           \/ \E w \in Writes : Turns(w) \/ Plan(w) \/ Land(w)
    PROVE  Replaced'
<1>1. CASE Refresh
  <2>1. UNCHANGED <<base, op, over, unnumbered>>
    BY <1>1 DEF Refresh
  <2> QED
    BY <2>1 DEF Replaced, Written, Landed, Lost
<1>2. ASSUME NEW e \in Pushes, Push(e)
      PROVE  Replaced'
  <2>1. UNCHANGED <<base, op, over>> /\ unnumbered \subseteq unnumbered'
    BY <1>2, PushAges
  <2> QED
    BY <2>1 DEF Replaced, Written, Landed, Lost
<1>3. CASE Asks
  <2>1. UNCHANGED <<over, unnumbered>>
    BY <1>3 DEF Asks
  <2>2. \A w \in Writes : \/ op'[w] = op[w] /\ base'[w] = base[w]
                          \/ op[w].state = "none" /\ op'[w].state \in {"none", "queued"}
    BY <1>3 DEF Asks, NoOp
  <2> QED
    BY <2>1, <2>2 DEF Replaced, Written, Landed, Lost
<1>4. ASSUME NEW w \in Writes, Turns(w) \/ Plan(w)
      PROVE  Replaced'
  <2>1. UNCHANGED <<base, over, unnumbered>>
    BY <1>4, PlanSays DEF Turns
  <2>2. \A v \in Writes : \/ op'[v].plan = op[v].plan /\ (Written(v)' <=> Written(v))
                          \/ ~Written(v) /\ ~Written(v)'
    BY <1>4, PlanSays DEF Turns, Written
  <2> QED
    BY <2>1, <2>2 DEF Replaced, Landed, Lost
<1>5. ASSUME NEW w \in Writes, Land(w)
      PROVE  Replaced'
  <2>1. /\ UNCHANGED <<base, unnumbered>>
        /\ \A v \in Writes \ {w} : op'[v] = op[v] /\ over'[v] = over[v]
        /\ op[w].state = "planned" /\ op'[w].state = "landed" /\ op'[w].plan = op[w].plan
        /\ ~op[w].plan.applied => over' = over
    BY <1>5, LandSays
  <2>2. ~Written(w) /\ over[w] = Nothing
    BY <2>1 DEF Replaced, Written, Landed
  <2>3. CASE op[w].plan.applied
    BY <1>5, <2>1, <2>3, LandingReplaces DEF Replaced, Written, Landed, Lost
  <2>4. CASE ~op[w].plan.applied
    BY <2>1, <2>2, <2>4 DEF Replaced, Written, Landed, Lost
  <2> QED
    BY <2>3, <2>4
<1> QED
  BY <1>1, <1>2, <1>3, <1>4, <1>5

-----------------------------------------------------------------------------
(* Operations and artifacts.                                               *)

LEMMA NumberedKept ==
    ASSUME TypeOK, Numbered, FreshPlans,
           \/ Refresh
           \/ \E e \in Pushes : Push(e)
           \/ Asks
           \/ \E w \in Writes : Turns(w) \/ Plan(w) \/ Land(w)
    PROVE  Numbered'
<1>1. CASE Refresh \/ \E e \in Pushes : Push(e)
  <2>1. UNCHANGED <<op, retried>>
    BY <1>1, PushAges DEF Refresh
  <2> QED
    BY <2>1 DEF Numbered
<1>2. CASE Asks
  <2>1. /\ retried' = retried
        /\ \A v \in Writes : op'[v] = op[v] \/ op'[v].state = "queued"
    BY <1>2 DEF Asks, NoOp
  <2> QED
    BY <2>1 DEF Numbered
<1>3. ASSUME NEW w \in Writes, Turns(w) \/ Plan(w) \/ Land(w)
      PROVE  Numbered'
  <2>1. /\ \A v \in Writes \ {w} : op'[v] = op[v]
        /\ op'[w].state # "none" /\ retried' \subseteq retried \cup {w}
    BY <1>3, PlanSays, LandSays DEF Turns
  <2> QED
    BY <2>1 DEF Numbered
<1> QED
  BY <1>1, <1>2, <1>3

LEMMA ArtifactsKept ==
    ASSUME TypeOK, FreshPlans, Artifacts,
           \/ Refresh
           \/ \E e \in Pushes : Push(e)
           \/ Asks
           \/ \E w \in Writes : Turns(w) \/ Plan(w) \/ Land(w)
    PROVE  Artifacts'
<1>0. \A i \in Items : i \in Writes
  BY KindsAre
<1>1. CASE Refresh \/ \E e \in Pushes : Push(e)
  <2>1. UNCHANGED <<op, task>>
    BY <1>1, PushAges DEF Refresh, git
  <2> QED
    BY <2>1 DEF Artifacts, Written
<1>2. ASSUME Asks \/ \E w \in Writes : Turns(w) \/ Plan(w)
      PROVE  Artifacts'
  <2>1. /\ task' = task
        /\ \A v \in Writes : \/ op'[v].plan = op[v].plan /\ (Written(v)' <=> Written(v))
                             \/ ~Written(v) /\ ~Written(v)'
    BY <1>2, PlanSays DEF Asks, Turns, Written, NoOp
  <2> QED
    BY <1>0, <2>1 DEF Artifacts
<1>3. ASSUME NEW w \in Writes, Land(w)
      PROVE  Artifacts'
  <2>1. /\ \A v \in Writes \ {w} : op'[v] = op[v]
        /\ op'[w].state = "landed" /\ op'[w].plan = op[w].plan
    BY <1>3, LandSays
  <2>2. \A i \in Items : task'[i] = IF i = w THEN IF op[w].plan.applied THEN "completed" ELSE "conflict"
                                    ELSE task[i]
    BY <1>3 DEF Land, TypeOK
  <2> QED
    BY <1>0, <2>1, <2>2 DEF Artifacts, Written
<1> QED
  BY <1>1, <1>2, <1>3
-----------------------------------------------------------------------------
(* Proposals.                                                              *)

\* A request leaves a proposal and its operation as they were, or the proposal
\* without an operation, or applying with one queued.
Proposes ==
    \A p \in Proposals :
        \/ prop'[p] = prop[p] /\ op'[p] = op[p]
        \/ prop'[p] \in {"pending_review", "rejected"} /\ op'[p] = NoOp
        \/ prop'[p] = "applying" /\ op'[p].state = "queued"

LEMMA RequestsPropose ==
    ASSUME TypeOK, InStep,
           \/ \E p \in Edits : Propose(p)
           \/ \E i \in Items : Submit(i)
           \/ \E w \in Revisions : Revise(w)
           \/ \E w \in Toggles : Toggle(w)
           \/ \E r \in Reviewers, p \in Proposals, say \in {"approve", "reject"} : Consider(r, p, say)
           \/ \E r \in Reviewers : Decide(r)
    PROVE  Proposes
<1>0. \A p \in Proposals : p \in Writes
  BY KindsAre
<1>1. ASSUME NEW p \in Edits, Propose(p)
      PROVE  Proposes
  <2>1. p \in Proposals /\ p \in Writes /\ op[p] = NoOp
    BY <1>1, KindsAre, BeginsBare DEF Propose
  <2>2. \/ prop' = [prop EXCEPT ![p] = "pending_review"] /\ op' = op
        \/ prop' = [prop EXCEPT ![p] = "applying"] /\ op' = [op EXCEPT ![p].state = "queued"]
    BY <1>1 DEF Propose, Enqueue
  <2> QED
    BY <1>0, <2>1, <2>2 DEF Proposes, TypeOK, NoOp
<1>2. ASSUME NEW i \in Items, Submit(i)
      PROVE  Proposes
  <2>1. i \in Writes /\ op[i] = NoOp /\ (i \in Works <=> i \in Proposals)
    BY <1>2, KindsAre, BeginsBare DEF Submit
  <2>2. CASE i \in Works
    BY <1>0, <1>2, <2>1, <2>2 DEF Proposes, TypeOK, Submit
  <2>3. CASE i \notin Works
    BY <1>0, <1>2, <2>1, <2>3 DEF Proposes, TypeOK, Submit, Enqueue
  <2> QED
    BY <2>2, <2>3
<1>3. ASSUME NEW w \in Revisions \cup Toggles, Revise(w) \/ Toggle(w)
      PROVE  Proposes
  <2>1. w \in Writes /\ w \notin Proposals
    BY KindsAre
  <2>2. prop' = prop /\ op' = [op EXCEPT ![w].state = "queued"]
    BY <1>3 DEF Revise, Toggle, Enqueue
  <2> QED
    BY <1>0, <2>1, <2>2 DEF Proposes, TypeOK
<1>4. ASSUME NEW r \in Reviewers, NEW p \in Proposals, NEW say \in {"approve", "reject"}, Consider(r, p, say)
      PROVE  Proposes
  BY <1>4 DEF Consider, Proposes, rows
<1>5. ASSUME NEW r \in Reviewers, Decide(r)
      PROVE  Proposes
  <2> DEFINE p == verdict[r].on
  <2>1. p \in Proposals /\ p \in Writes
    BY <1>5, KindsAre DEF Decide, TypeOK
  <2>2. Stands(p) => op[p] = NoOp
    BY <2>1 DEF Stands, InStep
  <2>3. \/ prop' = prop /\ op' = op
        \/ Stands(p) /\ prop' = [prop EXCEPT ![p] = "applying"] /\ op' = [op EXCEPT ![p].state = "queued"]
        \/ Stands(p) /\ prop' = [prop EXCEPT ![p] = "rejected"] /\ op' = op
    BY <1>5 DEF Decide, Enqueue
  <2> HIDE DEF p
  <2> QED
    BY <1>0, <2>1, <2>2, <2>3 DEF Proposes, TypeOK, NoOp
<1> QED
  BY <1>1, <1>2, <1>3, <1>4, <1>5

\* How a step of the drain leaves the proposal and the operation of its write.
LEMMA DrainProposes ==
    ASSUME TypeOK, InStep, Replaced, FreshPlans, NEW w \in Writes,
           Retry(w) \/ Fail(w) \/ Note(w) \/ Pin(w) \/ Plan(w) \/ Land(w) \/ Contend(w) \/ Refuse(w)
             \/ Finalize(w)
    PROVE  /\ \A p \in Proposals \ {w} : prop'[p] = prop[p]
           /\ w \in Proposals =>
                \/ prop'[w] = prop[w] /\ prop[w] = "applying" /\ UnderWay(w)'
                \/ /\ prop'[w] = prop[w] /\ prop[w] = "conflicted" /\ over'[w] = over[w]
                   /\ op'[w].state \in {"queued", "pinned", "failed"}
                \/ prop'[w] = "conflicted" /\ op'[w].state = "failed" /\ ~Written(w) /\ over'[w] = over[w]
                \/ /\ op[w].state = "landed" /\ op'[w].state = "committed" /\ over'[w] = over[w]
                   /\ prop'[w] = IF op[w].plan.applied THEN "approved" ELSE "conflicted"
<1>0. \A p \in Proposals : prop[p] \in {"none", "pending_review", "applying", "approved",
                                        "rejected", "conflicted"}
  BY DEF TypeOK
<1>1. CASE Retry(w) \/ Note(w) \/ Pin(w)
  <2>1. /\ prop' = prop /\ over' = over
        /\ op[w].state \in {"queued", "pinned", "failed"}
        /\ op'[w].state \in {"queued", "pinned"}
        /\ Retry(w) \/ op[w].state # "failed"
    <3>1. Turns(w)
      BY <1>1, DrainTurns
    <3>2. op[w].state \in {"queued", "pinned", "failed"} /\ (Retry(w) \/ op[w].state # "failed")
      BY <1>1 DEF Retry, Note, Resume, Pin
    <3>3. op'[w].state \in {"queued", "pinned"}
      BY <1>1 DEF Retry, Note, Resume, Pin, TypeOK, Operations
    <3> QED
      BY <1>1, <3>2, <3>3 DEF Retry, Note, Resume, Pin, rows, history
  <2>2. w \in Proposals => prop[w] = "applying" \/ prop[w] = "conflicted"
    BY <1>0, <2>1 DEF InStep, NoOp
  <2> QED
    BY <2>1, <2>2 DEF UnderWay
<1>2. CASE Plan(w) \/ Land(w)
  <2>1. prop' = prop /\ op[w].state \in {"pinned", "planned"} /\ op'[w].state \in {"planned", "landed"}
        /\ (op[w].state = "pinned" => Linked(w))
    BY <1>2, PlanSays, LandSays DEF Plan, rows
  <2>2. w \in Proposals => prop[w] = "applying"
    BY <1>0, <2>1 DEF InStep, NoOp, Linked
  <2> QED
    BY <2>1, <2>2 DEF UnderWay
<1>3. CASE Fail(w) \/ Contend(w) \/ Refuse(w)
  <2>1. op[w].state \in {"pinned", "planned"} /\ over' = over
    BY <1>3 DEF Fail, Contend, Refuse, GiveUp, history
  <2>2. w \in Proposals => prop[w] = "applying" \/ prop[w] = "conflicted"
    BY <1>0, <2>1 DEF InStep, NoOp
  <2>3. CASE GiveUp(w)
    <3>1. op'[w].state = "failed"
      BY <2>3 DEF GiveUp, TypeOK, Operations
    <3>2. /\ \A p \in Proposals \ {w} : prop'[p] = prop[p]
          /\ w \in Proposals => prop'[w] = "conflicted"
      BY <2>2, <2>3 DEF GiveUp, Release, TypeOK
    <3> QED
      BY <2>1, <3>1, <3>2 DEF Written
  <2>4. CASE ~GiveUp(w)
    <3>1. op[w].state = "planned" /\ op' = [op EXCEPT ![w].state = "queued"] /\ prop' = prop
      BY <1>3, <2>4 DEF Fail, Contend, Refuse, rows
    <3>2. op'[w].state = "queued"
      BY <3>1 DEF TypeOK, Operations
    <3>3. w \in Proposals => prop[w] = "applying"
      BY <2>2, <3>1 DEF InStep
    <3> QED
      BY <3>1, <3>2, <3>3 DEF UnderWay
  <2> QED
    BY <2>3, <2>4
<1>4. CASE Finalize(w)
  <2>1. op[w].state = "landed" /\ Linked(w) /\ over' = over
    BY <1>4 DEF Finalize, history
  <2>2. op'[w].state = "committed"
    BY <1>4 DEF Finalize, TypeOK, Operations
  <2>3. /\ \A p \in Proposals \ {w} : prop'[p] = prop[p]
        /\ w \in Proposals => prop'[w] = IF op[w].plan.applied THEN "approved" ELSE "conflicted"
    BY <1>4, <2>1 DEF Finalize, Linked, TypeOK
  <2> QED
    BY <2>1, <2>2, <2>3
<1> QED
  BY <1>1, <1>2, <1>3, <1>4

LEMMA InStepKept ==
    ASSUME TypeOK, FreshPlans, Replaced, InStep, [Next]_vars
    PROVE  InStep'
<1>0. \A p \in Proposals : p \in Writes
  BY KindsAre
<1>1. CASE UNCHANGED vars
  BY <1>1 DEF vars, withdrawal, rows, history, InStep, Landed, UnderWay
<1>2. CASE Refresh \/ \E e \in Pushes : Push(e)
  <2>1. UNCHANGED <<prop, op, over>>
    BY <1>2, PushAges DEF Refresh
  <2> QED
    BY <2>1 DEF InStep, Landed, UnderWay
<1>3. ASSUME \/ \E p \in Edits : Propose(p)
             \/ \E i \in Items : Submit(i)
             \/ \E w \in Revisions : Revise(w)
             \/ \E w \in Toggles : Toggle(w)
             \/ \E r \in Reviewers, p \in Proposals, say \in {"approve", "reject"} : Consider(r, p, say)
             \/ \E r \in Reviewers : Decide(r)
      PROVE  InStep'
  <2>1. Proposes /\ over' = over
    BY <1>3, RequestsPropose, RequestsAsk DEF Asks
  <2> QED
    BY <2>1 DEF Proposes, InStep, Landed, UnderWay
<1>4. ASSUME NEW w \in Writes,
             Retry(w) \/ Fail(w) \/ Note(w) \/ Pin(w) \/ Plan(w) \/ Land(w) \/ Contend(w) \/ Refuse(w)
               \/ Finalize(w)
      PROVE  InStep'
  <2>1. \A v \in Writes \ {w} : op'[v] = op[v] /\ over'[v] = over[v]
    BY <1>4, DrainTurns, PlanSays, LandSays DEF Turns
  <2>2. /\ \A p \in Proposals \ {w} : prop'[p] = prop[p]
        /\ w \in Proposals =>
             \/ prop'[w] = prop[w] /\ prop[w] = "applying" /\ UnderWay(w)'
             \/ /\ prop'[w] = prop[w] /\ prop[w] = "conflicted" /\ over'[w] = over[w]
                /\ op'[w].state \in {"queued", "pinned", "failed"}
             \/ prop'[w] = "conflicted" /\ op'[w].state = "failed" /\ ~Written(w) /\ over'[w] = over[w]
             \/ /\ op[w].state = "landed" /\ op'[w].state = "committed" /\ over'[w] = over[w]
                /\ prop'[w] = IF op[w].plan.applied THEN "approved" ELSE "conflicted"
    BY <1>4, DrainProposes
  <2>3. Landed(w) <=> Written(w) /\ op[w].plan.applied
    BY DEF Replaced
  <2> QED
    BY <1>0, <2>1, <2>2, <2>3 DEF InStep, Landed, Written, UnderWay
<1>5. CASE Aside
  BY <1>5 DEF Aside, InStep, Landed, UnderWay
<1> QED
  BY <1>1, <1>2, <1>3, <1>4, <1>5, StepKinds, RevokeSays DEF Idle
-----------------------------------------------------------------------------
(* Work items and their submissions.                                       *)

\* What Stories says of one item.
Tale(i) ==
    /\ sub[i] = "none" => item[i] = "leased" /\ op[i] = NoOp
    /\ sub[i] = "received" => i \in Works /\ item[i] = "submitted" /\ op[i] = NoOp
    /\ sub[i] = "applying" =>
         /\ UnderWay(i) /\ i \notin retried
         /\ item[i] = "applying" \/ (op[i].state = "landed" /\ item[i] = task[i])
    /\ sub[i] = "applied" => item[i] = "completed" /\ op[i].state = "committed" /\ op[i].plan.applied
    /\ sub[i] = "rejected" => i \in Works /\ item[i] = "ready" /\ op[i] = NoOp
    /\ sub[i] = "conflicted" /\ i \notin Ranges \cap retried =>
         /\ op[i].state \in {"queued", "pinned", "failed", "committed"} /\ ~Landed(i)
         /\ item[i] \in {"ready", "conflict"}
    /\ sub[i] = "conflicted" /\ i \in Ranges \ retried => op[i].state \in {"failed", "committed"}
    /\ i \in Works => prop[i] = ProposalOf[sub[i]]
    /\ i \in Ranges /\ op[i] # NoOp => sub[i] \in {"applying", "applied", "conflicted"}

LEMMA StoriesAreTales == Stories <=> \A i \in Items \ (reset \cup revoked) : Tale(i)
BY DEF Stories, Tale

\* A request leaves an item as it was, or starts or settles its submission.
Submits ==
    \A i \in Items :
        \/ item'[i] = item[i] /\ sub'[i] = sub[i] /\ op'[i] = op[i]
           /\ (i \in Works => prop'[i] = prop[i])
        \/ /\ i \in Works /\ op[i] = NoOp /\ op'[i] = NoOp /\ prop'[i] = ProposalOf[sub'[i]]
           /\ item[i] \in {"leased", "submitted"}
           /\ \/ sub'[i] = "received" /\ item'[i] = "submitted"
              \/ sub'[i] = "rejected" /\ item'[i] = "ready"
        \/ /\ op[i] = NoOp /\ op'[i] = [NoOp EXCEPT !.state = "queued"]
           /\ item[i] \in {"leased", "submitted"}
           /\ sub'[i] = "applying" /\ item'[i] = "applying"
           /\ i \in Works => prop'[i] = ProposalOf[sub'[i]]

LEMMA RequestsSubmit ==
    ASSUME TypeOK, InStep,
           \/ \E p \in Edits : Propose(p)
           \/ \E i \in Items : Submit(i)
           \/ \E w \in Revisions : Revise(w)
           \/ \E w \in Toggles : Toggle(w)
           \/ \E r \in Reviewers, p \in Proposals, say \in {"approve", "reject"} : Consider(r, p, say)
           \/ \E r \in Reviewers : Decide(r)
    PROVE  Submits
<1>0. /\ \A i \in Items : i \in Writes /\ (i \in Works <=> i \in Proposals) /\ (i \in Works \/ i \in Ranges)
      /\ \A i \in Items : i \notin Edits \cup Revisions \cup Toggles
      /\ Edits \subseteq Writes /\ Revisions \subseteq Writes /\ Toggles \subseteq Writes
      /\ Edits \subseteq Proposals /\ Works \subseteq Proposals /\ Works \subseteq Items
  BY KindsAre, Kinds DEF Items
<1>1. ASSUME NEW p \in Edits, Propose(p)
      PROVE  Submits
  <2>1. /\ item' = item /\ sub' = sub
        /\ \/ prop' = [prop EXCEPT ![p] = "pending_review"] /\ op' = op
           \/ prop' = [prop EXCEPT ![p] = "applying"] /\ op' = [op EXCEPT ![p].state = "queued"]
    BY <1>1 DEF Propose, Enqueue
  <2>2. \A i \in Items : i # p
    BY <1>0
  <2> QED
    BY <1>0, <2>1, <2>2 DEF Submits, TypeOK
<1>2. ASSUME NEW i \in Items, Submit(i)
      PROVE  Submits
  <2>1. i \in Writes /\ op[i] = NoOp /\ item[i] = "leased"
    BY <1>2, <1>0, BeginsBare DEF Submit
  <2>2. CASE i \in Works
    <3>1. /\ item' = [item EXCEPT ![i] = "submitted"] /\ sub' = [sub EXCEPT ![i] = "received"]
          /\ prop' = [prop EXCEPT ![i] = "pending_review"] /\ op' = op
      BY <1>2, <2>2 DEF Submit
    <3> QED
      BY <1>0, <2>1, <2>2, <3>1 DEF Submits, TypeOK, ProposalOf
  <2>3. CASE i \notin Works
    <3>1. /\ item' = [item EXCEPT ![i] = "applying"] /\ sub' = [sub EXCEPT ![i] = "applying"]
          /\ prop' = prop
          /\ \A v \in Writes \ {i} : op'[v] = op[v]
          /\ op'[i] = [NoOp EXCEPT !.state = "queued"]
      BY <1>2, <2>1, <2>3, QueuedOp DEF Submit
    <3> QED
      BY <1>0, <2>1, <2>3, <3>1 DEF Submits, TypeOK
  <2> QED
    BY <2>2, <2>3
<1>3. ASSUME NEW w \in Revisions \cup Toggles, Revise(w) \/ Toggle(w)
      PROVE  Submits
  <2>1. w \in Writes /\ w \notin Items
    BY <1>0
  <2>2. prop' = prop /\ item' = item /\ sub' = sub /\ op' = [op EXCEPT ![w].state = "queued"]
    BY <1>3 DEF Revise, Toggle, Enqueue
  <2> QED
    BY <1>0, <2>1, <2>2 DEF Submits, TypeOK
<1>4. ASSUME NEW r \in Reviewers, NEW p \in Proposals, NEW say \in {"approve", "reject"}, Consider(r, p, say)
      PROVE  Submits
  BY <1>4 DEF Consider, Submits, rows
<1>5. ASSUME NEW r \in Reviewers, Decide(r)
      PROVE  Submits
  <2> DEFINE p == verdict[r].on
  <2>1. p \in Proposals /\ p \in Writes
    BY <1>5, KindsAre DEF Decide, TypeOK
  <2>2. Stands(p) => op[p] = NoOp
    BY <2>1 DEF Stands, InStep
  <2>3. CASE ~Stands(p)
    BY <1>5, <2>3 DEF Decide, Submits
  <2>4. CASE Stands(p) /\ p \notin Works
    <3>1. /\ item' = item /\ sub' = sub
          /\ \/ prop' = [prop EXCEPT ![p] = "applying"] /\ op' = [op EXCEPT ![p].state = "queued"]
             \/ prop' = [prop EXCEPT ![p] = "rejected"] /\ op' = op
      BY <1>5, <2>4 DEF Decide, Enqueue
    <3> HIDE DEF p
    <3>2. \A i \in Items : i # p
      BY <1>0, <2>1, <2>4
    <3> QED
      BY <1>0, <2>1, <3>1, <3>2 DEF Submits, TypeOK
  <2>5. CASE Stands(p) /\ p \in Works
    <3>1. \/ /\ prop' = [prop EXCEPT ![p] = "applying"] /\ Enqueue(p)
             /\ item' = [item EXCEPT ![p] = "applying"] /\ sub' = [sub EXCEPT ![p] = "applying"]
          \/ /\ prop' = [prop EXCEPT ![p] = "rejected"] /\ op' = op
             /\ item' = [item EXCEPT ![p] = "ready"] /\ sub' = [sub EXCEPT ![p] = "rejected"]
      BY <1>5, <2>5 DEF Decide
    <3> HIDE DEF p
    <3>2. op[p] = NoOp /\ p \in Items /\ item[p] = "submitted"
      BY <1>0, <2>2, <2>5 DEF Stands, Awaiting
    <3>3. CASE /\ prop' = [prop EXCEPT ![p] = "applying"] /\ Enqueue(p)
               /\ item' = [item EXCEPT ![p] = "applying"] /\ sub' = [sub EXCEPT ![p] = "applying"]
      <4>1. /\ \A v \in Writes \ {p} : op'[v] = op[v]
            /\ op'[p] = [NoOp EXCEPT !.state = "queued"]
        BY <2>1, <3>2, <3>3, QueuedOp
      <4>2. /\ \A i \in Items \ {p} : item'[i] = item[i] /\ sub'[i] = sub[i]
            /\ \A i \in Proposals \ {p} : prop'[i] = prop[i]
            /\ item'[p] = "applying" /\ sub'[p] = "applying" /\ prop'[p] = "applying"
        BY <2>1, <3>2, <3>3 DEF TypeOK
      <4> QED
        BY <1>0, <2>1, <3>2, <4>1, <4>2 DEF Submits, ProposalOf
    <3>4. CASE /\ prop' = [prop EXCEPT ![p] = "rejected"] /\ op' = op
               /\ item' = [item EXCEPT ![p] = "ready"] /\ sub' = [sub EXCEPT ![p] = "rejected"]
      <4>2. /\ \A i \in Items \ {p} : item'[i] = item[i] /\ sub'[i] = sub[i]
            /\ \A i \in Proposals \ {p} : prop'[i] = prop[i]
            /\ item'[p] = "ready" /\ sub'[p] = "rejected" /\ prop'[p] = "rejected"
        BY <2>1, <3>2, <3>4 DEF TypeOK
      <4> QED
        BY <1>0, <2>1, <2>5, <3>2, <3>4, <4>2 DEF Submits, ProposalOf
    <3> QED
      BY <3>1, <3>3, <3>4
  <2> QED
    BY <2>3, <2>4, <2>5
<1> QED
  BY <1>1, <1>2, <1>3, <1>4, <1>5

LEMMA RequestsSpare ==
    ASSUME \/ \E p \in Edits : Propose(p)
           \/ \E i \in Items : Submit(i)
           \/ \E w \in Revisions : Revise(w)
           \/ \E w \in Toggles : Toggle(w)
           \/ \E r \in Reviewers, p \in Proposals, say \in {"approve", "reject"} : Consider(r, p, say)
           \/ \E r \in Reviewers : Decide(r)
    PROVE  UNCHANGED <<withdrawal, task, reset, retried, revoked>>
BY DEF Propose, Submit, Revise, Toggle, Consider, Decide, git, history

\* The drain, and a requeue, touch one write.
LEMMA DrainSpares ==
    ASSUME TypeOK, NEW w \in Writes,
           Retry(w) \/ Fail(w) \/ Note(w) \/ Pin(w) \/ Plan(w) \/ Land(w) \/ Contend(w) \/ Refuse(w)
             \/ Finalize(w)
    PROVE  /\ \A j \in Items \ {w} : item'[j] = item[j] /\ sub'[j] = sub[j] /\ task'[j] = task[j]
           /\ UNCHANGED <<reset, revoked>>
           /\ stopped' = stopped \/ (Retry(w) /\ stopped' = stopped \ {w} /\ retried' = retried \cup {w})
           /\ retried \subseteq retried'
<1>1. CASE Retry(w) \/ Note(w) \/ Pin(w) \/ Plan(w) \/ Land(w)
  BY <1>1 DEF Retry, Note, Resume, Pin, Plan, Land, rows, git, history, withdrawal, TypeOK
<1>2. CASE Fail(w) \/ Contend(w) \/ Refuse(w) \/ Finalize(w)
  BY <1>2 DEF Fail, Contend, Refuse, GiveUp, Release, Finalize, rows, git, history, withdrawal, TypeOK
<1> QED
  BY <1>1, <1>2

LEMMA ItemsTyped ==
    ASSUME TypeOK, NEW i \in Items
    PROVE  /\ i \in Writes /\ (i \in Works <=> i \in Proposals) /\ (i \in Ranges <=> i \notin Works)
           /\ op[i] \in Operations
           /\ sub[i] \in {"none", "received", "applying", "applied", "conflicted", "rejected"}
           /\ item[i] \in {"leased", "submitted", "applying", "ready", "completed", "conflict"}
           /\ task[i] \in {"ready", "completed", "conflict"}
BY KindsAre, Kinds DEF TypeOK, Items

\* A rebuild: what was in flight and not yet in Git is taken back.
LEMMA RefreshTale ==
    ASSUME TypeOK, Replaced, Artifacts, Refresh, NEW i \in Items \ reset', Tale(i)
    PROVE  i \notin reset /\ Tale(i)'
<1>1. /\ UNCHANGED <<prop, sub, op, over, task, retried>>
      /\ item'[i] = IF item[i] = "leased" THEN "leased" ELSE task[i]
      /\ ~(item[i] \in {"submitted", "applying"} /\ task[i] = "ready")
      /\ i \notin reset
  BY DEF Refresh, git
<1>2. task[i] = IF ~Written(i) THEN "ready" ELSE IF op[i].plan.applied THEN "completed" ELSE "conflict"
  BY DEF Artifacts
<1>3. Landed(i) <=> Written(i) /\ op[i].plan.applied
  BY ItemsTyped DEF Replaced
<1> QED
  BY <1>1, <1>2, <1>3, ItemsTyped DEF Tale, Landed, Written, UnderWay, NoOp

\* Where the operation of an item is, its submission is.
LEMMA WhereItIs ==
    ASSUME TypeOK, NEW i \in Items, Tale(i)
    PROVE  /\ op[i].state \notin {"none", "committed"} => sub[i] \in {"applying", "conflicted"}
           /\ op[i].state \in {"planned", "landed"} /\ i \in Works /\ InStep => sub[i] = "applying"
           /\ op[i].state = "failed" => sub[i] = "conflicted"
           /\ sub[i] = "applying" /\ op[i].state # "landed" => item[i] = "applying"
           /\ op[i].state \notin {"none", "failed", "committed"} /\ sub[i] = "conflicted" /\ i \in Ranges =>
                i \in retried
BY ItemsTyped DEF Tale, UnderWay, NoOp, Numbered

\* What the drain does to the item of the write in turn.
LEMMA DrainTale ==
    ASSUME TypeOK, FreshPlans, Replaced, InStep, NEW w \in Items, Tale(w),
           Retry(w) \/ Fail(w) \/ Note(w) \/ Pin(w) \/ Plan(w) \/ Land(w) \/ Contend(w) \/ Refuse(w)
             \/ Finalize(w)
    PROVE  Tale(w)'
<1>0. /\ w \in Writes /\ (w \in Works <=> w \in Proposals) /\ (w \in Ranges <=> w \notin Works)
      /\ op[w] \in Operations
      /\ sub[w] \in {"none", "received", "applying", "applied", "conflicted", "rejected"}
  BY ItemsTyped
<1>1. /\ op[w].state \notin {"none", "committed"} => sub[w] \in {"applying", "conflicted"}
      /\ op[w].state \in {"planned", "landed"} /\ w \in Works => sub[w] = "applying"
      /\ op[w].state = "failed" => sub[w] = "conflicted"
      /\ sub[w] = "applying" /\ op[w].state # "landed" => item[w] = "applying"
      /\ op[w].state \notin {"none", "failed", "committed"} /\ sub[w] = "conflicted" /\ w \in Ranges =>
           w \in retried
  BY WhereItIs
<1>2. Landed(w) <=> Written(w) /\ op[w].plan.applied
  BY <1>0 DEF Replaced
<1>3. CASE Retry(w)
  <2>1. /\ op[w].state = "failed" /\ op'[w].state = "queued"
        /\ UNCHANGED <<prop, item, sub, over>> /\ retried' = retried \cup {w}
    <3>1. op' = [op EXCEPT ![w] = [op[w] EXCEPT !.state = "queued", !.attempts = 0]]
      BY <1>0, <1>3, OneOperation DEF Retry
    <3> QED
      BY <1>0, <1>3, <3>1 DEF Retry, rows, TypeOK, Operations
  <2> QED
    BY <1>0, <1>1, <1>2, <2>1 DEF Tale, Landed, Written, UnderWay, NoOp
<1>4. CASE Note(w) \/ Pin(w)
  <2>1. /\ op[w].state \in {"queued", "pinned"} /\ op'[w].state = "pinned"
        /\ UNCHANGED <<prop, item, sub, over, retried>>
    BY <1>0, <1>4 DEF Note, Resume, Pin, rows, history, TypeOK, Operations
  <2> QED
    BY <1>0, <1>1, <1>2, <2>1 DEF Tale, Landed, Written, UnderWay, NoOp
<1>5. CASE Plan(w)
  <2>1. /\ op[w].state = "pinned" /\ op'[w].state = "planned" /\ Linked(w)
        /\ UNCHANGED <<prop, item, sub, over, retried>>
    BY <1>0, <1>5, PlanSays DEF Plan, rows
  <2>2. w \in Works => sub[w] = "applying"
    BY <1>0, <1>1, <2>1 DEF Tale, Linked, ProposalOf
  <2> QED
    BY <1>0, <1>1, <1>2, <2>1, <2>2 DEF Tale, Landed, Written, UnderWay, NoOp
<1>6. CASE Land(w)
  <2>1. /\ op[w].state = "planned" /\ op'[w].state = "landed"
        /\ UNCHANGED <<prop, item, sub, retried>>
    BY <1>0, <1>6, LandSays
  <2> QED
    BY <1>0, <1>1, <2>1 DEF Tale, Landed, UnderWay, NoOp
<1>7. CASE Fail(w) \/ Contend(w) \/ Refuse(w)
  <2>1. op[w].state \in {"pinned", "planned"} /\ over' = over /\ retried' = retried
    BY <1>7 DEF Fail, Contend, Refuse, GiveUp, history
  <2>2. CASE GiveUp(w)
    <3>1. op'[w].state = "failed"
      BY <1>0, <2>2 DEF GiveUp, TypeOK, Operations
    <3>2. /\ w \in Works => prop'[w] = IF prop[w] = "applying" THEN "conflicted" ELSE prop[w]
          /\ item'[w] = IF item[w] = "applying" THEN "conflict" ELSE item[w]
          /\ sub'[w] = IF item[w] = "applying" /\ sub[w] = "applying" THEN "conflicted" ELSE sub[w]
      BY <1>0, <2>2 DEF GiveUp, Release, TypeOK
    <3> QED
      BY <1>0, <1>1, <1>2, <2>1, <3>1, <3>2 DEF Tale, Landed, Written, UnderWay, NoOp, ProposalOf
  <2>3. CASE ~GiveUp(w)
    <3>1. op[w].state = "planned" /\ op' = [op EXCEPT ![w].state = "queued"] /\ UNCHANGED <<prop, item, sub>>
      BY <1>7, <2>3 DEF Fail, Contend, Refuse, rows
    <3>2. op'[w].state = "queued"
      BY <1>0, <3>1 DEF TypeOK, Operations
    <3> QED
      BY <1>0, <1>1, <1>2, <2>1, <3>1, <3>2 DEF Tale, Landed, Written, UnderWay, NoOp
  <2> QED
    BY <2>2, <2>3
<1>8. CASE Finalize(w)
  <2>1. op[w].state = "landed" /\ Linked(w) /\ over' = over /\ retried' = retried
    BY <1>8 DEF Finalize, history
  <2>2. op'[w].state = "committed" /\ op'[w].plan = op[w].plan
    BY <1>0, <1>8 DEF Finalize, TypeOK, Operations
  <2>3. /\ w \in Works => prop'[w] = IF op[w].plan.applied THEN "approved" ELSE "conflicted"
        /\ item'[w] = IF op[w].plan.applied THEN "completed" ELSE "conflict"
        /\ sub'[w] = IF sub[w] # "applying" THEN sub[w]
                     ELSE IF op[w].plan.applied THEN "applied" ELSE "conflicted"
    BY <1>0, <1>8, <2>1 DEF Finalize, Linked, TypeOK
  <2> QED
    BY <1>0, <1>1, <1>2, <2>1, <2>2, <2>3 DEF Tale, Landed, Written, UnderWay, NoOp, ProposalOf
<1> QED
  BY <1>3, <1>4, <1>5, <1>6, <1>7, <1>8

LEMMA StoriesKept ==
    ASSUME TypeOK, FreshPlans, Replaced, Numbered, InStep, Artifacts, Stories, [Next]_vars
    PROVE  Stories'
<1> SUFFICES ASSUME NEW i \in Items, i \notin reset' \cup revoked'
             PROVE  Tale(i)'
  BY DEF Stories, Tale
<1>0. i \in Writes /\ (i \in Works <=> i \in Proposals) /\ (i \notin reset \cup revoked => Tale(i))
  BY ItemsTyped, StoriesAreTales
<1>1. CASE UNCHANGED vars
  BY <1>0, <1>1 DEF vars, withdrawal, git, rows, history, Tale, Landed, UnderWay
<1>2. CASE Refresh
  <2>1. i \notin reset \cup revoked
    BY <1>2 DEF Refresh
  <2> QED
    BY <1>0, <1>2, <2>1, RefreshTale
<1>3. ASSUME NEW e \in Pushes, Push(e)
      PROVE  Tale(i)'
  <2>1. UNCHANGED <<task, prop, item, sub, op, over, reset, retried, revoked>>
    BY <1>3, PushAges DEF Push
  <2> QED
    BY <1>0, <2>1 DEF Tale, Landed, UnderWay
<1>4. ASSUME \/ \E p \in Edits : Propose(p)
             \/ \E j \in Items : Submit(j)
             \/ \E w \in Revisions : Revise(w)
             \/ \E w \in Toggles : Toggle(w)
             \/ \E r \in Reviewers, p \in Proposals, say \in {"approve", "reject"} : Consider(r, p, say)
             \/ \E r \in Reviewers : Decide(r)
      PROVE  Tale(i)'
  <2>1. Submits /\ UNCHANGED <<task, over, reset, retried, revoked>>
    BY <1>4, RequestsSubmit, RequestsAsk, RequestsSpare DEF Asks
  <2>2. Tale(i) /\ (op[i] = NoOp => i \notin retried)
    BY <1>0, <2>1 DEF Numbered, NoOp
  <2> QED
    BY <2>1, <2>2, ItemsTyped DEF Submits, Tale, Landed, UnderWay, NoOp
<1>5. ASSUME NEW w \in Writes,
             Retry(w) \/ Fail(w) \/ Note(w) \/ Pin(w) \/ Plan(w) \/ Land(w) \/ Contend(w) \/ Refuse(w)
               \/ Finalize(w)
      PROVE  Tale(i)'
  <2>1. /\ \A v \in Writes \ {w} : op'[v] = op[v] /\ over'[v] = over[v]
        /\ reset' = reset /\ retried' \subseteq retried \cup {w} /\ retried \subseteq retried'
        /\ revoked' = revoked
    BY <1>5, DrainTurns, DrainSpares, PlanSays, LandSays DEF Turns
  <2>2. CASE i = w
    BY <1>0, <1>5, <2>1, <2>2, DrainTale
  <2>3. CASE i # w
    <3>1. /\ \A j \in Items \ {w} : item'[j] = item[j] /\ sub'[j] = sub[j] /\ task'[j] = task[j]
          /\ \A p \in Proposals \ {w} : prop'[p] = prop[p]
      BY <1>5, DrainProposes, DrainSpares
    <3>2. /\ op'[i] = op[i] /\ over'[i] = over[i] /\ item'[i] = item[i] /\ sub'[i] = sub[i]
          /\ task'[i] = task[i] /\ (i \in Works => prop'[i] = prop[i])
          /\ (i \in retried' <=> i \in retried) /\ Tale(i)
      BY <1>0, <2>1, <2>3, <3>1
    <3> QED
      BY <3>2 DEF Tale, Landed, UnderWay
  <2> QED
    BY <2>2, <2>3
<1>6. CASE Idle
  BY <1>0, <1>6 DEF Idle, Aside, git, Tale, Landed, UnderWay
<1>7. ASSUME NEW j \in Items, RevokeCommits(j)
      PROVE  Tale(i)'
  <2>1. Aside /\ item'[i] = item[i] /\ sub'[i] = sub[i] /\ i \notin revoked
    BY <1>7, RevokeSays
  <2> QED
    BY <1>0, <2>1 DEF Aside, git, Tale, Landed, UnderWay
<1> QED
  BY <1>1, <1>2, <1>3, <1>4, <1>5, <1>6, <1>7, StepKinds

-----------------------------------------------------------------------------
(* What a rebuild or a revocation takes back.                              *)

\* What the drain, or a requeue, does to its own item.
LEMMA DrainKeeps ==
    ASSUME TypeOK, FreshPlans, Replaced, InStep, Artifacts, NEW w \in Items,
           Retry(w) \/ Fail(w) \/ Note(w) \/ Pin(w) \/ Plan(w) \/ Land(w) \/ Contend(w) \/ Refuse(w)
             \/ Finalize(w)
    PROVE  /\ op[w] # NoOp /\ op'[w] # NoOp
           /\ UnderWay(w)' => UnderWay(w) \/ w \in retried'
           /\ sub'[w] = sub[w] \/ (sub[w] = "applying" /\ sub'[w] \in {"applied", "conflicted"})
           /\ item[w] \in {"ready", task[w]} => item'[w] \in {"ready", task'[w]}
           /\ w \in Works /\ prop'[w] = "applying" => prop[w] = "applying" /\ sub'[w] = sub[w]
<1>0. /\ w \in Writes /\ (w \in Works <=> w \in Proposals) /\ op[w] \in Operations
      /\ task[w] \in {"ready", "completed", "conflict"}
  BY ItemsTyped
<1>1. task[w] = IF ~Written(w) THEN "ready" ELSE IF op[w].plan.applied THEN "completed" ELSE "conflict"
  BY DEF Artifacts
<1>2. w \in Works =>
        \/ prop'[w] = prop[w] /\ prop[w] \in {"applying", "conflicted"}
        \/ prop'[w] \in {"approved", "conflicted"}
  BY <1>0, DrainProposes
<1>3. CASE Retry(w) \/ Note(w) \/ Pin(w) \/ Plan(w)
  <2>1. UNCHANGED <<task, prop, item, sub>>
    BY <1>3 DEF Retry, Note, Resume, Pin, Plan, rows, git
  <2>2. op[w].state \in {"failed", "pinned", "queued"} /\ (op[w].state = "failed" => Retry(w))
    BY <1>3 DEF Retry, Note, Pin, Plan
  <2>3. op'[w].state \in {"queued", "pinned", "planned"}
    BY <1>0, <1>3, PlanSays DEF Retry, Note, Resume, Pin, TypeOK, Operations
  <2>4. Retry(w) => w \in retried'
    BY DEF Retry
  <2> QED
    BY <1>2, <2>1, <2>2, <2>3, <2>4 DEF NoOp, UnderWay
<1>4. CASE Land(w)
  <2>1. /\ op[w].state = "planned" /\ op'[w].state = "landed"
        /\ UNCHANGED <<prop, item, sub>>
    BY <1>0, <1>4, LandSays
  <2>2. task[w] = "ready"
    BY <1>1, <2>1 DEF Written
  <2> QED
    BY <1>2, <2>1, <2>2 DEF NoOp, UnderWay
<1>5. CASE Fail(w) \/ Contend(w) \/ Refuse(w)
  <2>1. op[w].state \in {"pinned", "planned"} /\ task' = task
    BY <1>5 DEF Fail, Contend, Refuse, GiveUp, git
  <2>2. CASE GiveUp(w)
    <3>1. op'[w].state = "failed"
      BY <1>0, <2>2 DEF GiveUp, TypeOK, Operations
    <3>2. /\ item'[w] = IF item[w] = "applying" THEN "conflict" ELSE item[w]
          /\ sub'[w] = IF item[w] = "applying" /\ sub[w] = "applying" THEN "conflicted" ELSE sub[w]
          /\ w \in Works => prop'[w] # "applying"
      BY <1>0, <2>2 DEF GiveUp, Release, TypeOK
    <3> QED
      BY <1>0, <2>1, <3>1, <3>2 DEF NoOp, UnderWay
  <2>3. CASE ~GiveUp(w)
    <3>1. op[w].state = "planned" /\ op' = [op EXCEPT ![w].state = "queued"] /\ UNCHANGED <<prop, item, sub>>
      BY <1>5, <2>3 DEF Fail, Contend, Refuse, rows
    <3>2. op'[w].state = "queued"
      BY <1>0, <3>1 DEF TypeOK, Operations
    <3> QED
      BY <1>2, <2>1, <3>1, <3>2 DEF NoOp, UnderWay
  <2> QED
    BY <2>2, <2>3
<1>6. CASE Finalize(w)
  <2>1. op[w].state = "landed" /\ task' = task
    BY <1>6 DEF Finalize, git
  <2>2. op'[w].state = "committed"
    BY <1>0, <1>6 DEF Finalize, TypeOK, Operations
  <2>3. /\ item'[w] = IF op[w].plan.applied THEN "completed" ELSE "conflict"
        /\ sub'[w] = IF sub[w] # "applying" THEN sub[w]
                     ELSE IF op[w].plan.applied THEN "applied" ELSE "conflicted"
        /\ w \in Works => prop'[w] # "applying"
    BY <1>0, <1>6 DEF Finalize, TypeOK
  <2>4. item'[w] = task[w]
    BY <1>1, <2>1, <2>3 DEF Written
  <2> QED
    BY <2>1, <2>2, <2>3, <2>4 DEF NoOp, UnderWay
<1> QED
  BY <1>3, <1>4, <1>5, <1>6

LEMMA HaltsKept ==
    ASSUME TypeOK, FreshPlans, Replaced, Numbered, InStep, Artifacts, Halts, [Next]_vars
    PROVE  Halts'
<1> SUFFICES ASSUME NEW i \in Items
             PROVE  /\ sub'[i] \in {"none", "received"} => op'[i] = NoOp
                    /\ sub'[i] = "rejected" /\ UnderWay(i)' => i \in stopped' \cup retried'
                    /\ i \in stopped' => op'[i] # NoOp /\ (i \in revoked' \/ sub'[i] # "applying")
  BY DEF Halts
<1> DEFINE Goal ==
      /\ sub'[i] \in {"none", "received"} => op'[i] = NoOp
      /\ sub'[i] = "rejected" /\ UnderWay(i)' => i \in stopped' \cup retried'
      /\ i \in stopped' => op'[i] # NoOp /\ (i \in revoked' \/ sub'[i] # "applying")
<1>0. /\ sub[i] \in {"none", "received"} => op[i] = NoOp
      /\ sub[i] = "rejected" /\ UnderWay(i) => i \in stopped \cup retried
      /\ i \in stopped => op[i] # NoOp /\ (i \in revoked \/ sub[i] # "applying")
      /\ i \in Writes
  BY ItemsTyped DEF Halts
<1>1. CASE UNCHANGED vars
  BY <1>0, <1>1 DEF vars, rows, withdrawal, history, UnderWay
<1>2. CASE Refresh \/ \E e \in Pushes : Push(e)
  BY <1>0, <1>2 DEF Refresh, Push, rows, withdrawal, UnderWay
<1>3. CASE \/ \E p \in Edits : Propose(p)
           \/ \E j \in Items : Submit(j)
           \/ \E w \in Revisions : Revise(w)
           \/ \E w \in Toggles : Toggle(w)
           \/ \E r \in Reviewers, p \in Proposals, say \in {"approve", "reject"} : Consider(r, p, say)
           \/ \E r \in Reviewers : Decide(r)
  <2>1. Submits /\ UNCHANGED <<withdrawal, retried, revoked>>
    BY <1>3, RequestsSubmit, RequestsSpare
  <2> QED
    BY <1>0, <2>1 DEF Submits, withdrawal, UnderWay, NoOp
<1>4. ASSUME NEW w \in Writes,
             Retry(w) \/ Fail(w) \/ Note(w) \/ Pin(w) \/ Plan(w) \/ Land(w) \/ Contend(w) \/ Refuse(w)
               \/ Finalize(w)
      PROVE  Goal
  <2>1. /\ \A j \in Items \ {w} : sub'[j] = sub[j]
        /\ revoked' = revoked /\ retried \subseteq retried'
        /\ stopped' = stopped \/ (stopped' = stopped \ {w} /\ retried' = retried \cup {w})
    BY <1>4, DrainSpares
  <2>2. \A v \in Writes \ {w} : op'[v] = op[v]
    BY <1>4, DrainTurns, PlanSays, LandSays DEF Turns
  <2>3. CASE i # w
    BY <1>0, <2>1, <2>2, <2>3 DEF UnderWay
  <2>4. CASE i = w
    <3>1. /\ op[i] # NoOp /\ op'[i] # NoOp
          /\ UnderWay(i)' => UnderWay(i) \/ i \in retried'
          /\ sub'[i] = sub[i] \/ (sub[i] = "applying" /\ sub'[i] \in {"applied", "conflicted"})
      BY <1>4, <2>4, DrainKeeps
    <3> QED
      BY <1>0, <2>1, <2>4, <3>1
  <2> QED
    BY <2>3, <2>4
<1>5. CASE Idle
  BY <1>0, <1>5 DEF Idle, Aside, UnderWay
<1>6. ASSUME NEW j \in Items, RevokeCommits(j)
      PROVE  Goal
  <2>1. op' = op /\ retried' = retried
    BY <1>6, RevokeSays DEF Aside
  <2>2. CASE i # j
    BY <1>0, <1>6, <2>1, <2>2, RevokeSays DEF UnderWay
  <2>3. CASE i = j
    <3>1. /\ sub'[i] = sub[i] \/ (sub[i] \in {"received", "applying"} /\ sub'[i] = "rejected")
          /\ sub'[i] # sub[i] => i \in revoked'
          /\ i \in revoked => i \in revoked'
          /\ i \in stopped => i \in stopped'
          /\ i \in stopped' /\ i \notin stopped =>
               UnderWay(i) /\ (sub'[i] # sub[i] \/ sub[i] # "applying")
          /\ sub'[i] # sub[i] /\ UnderWay(i) /\ sub[i] = "applying" => i \in stopped'
      BY <1>6, <2>3, RevokeSays
    <3>2. op[i] = NoOp => ~UnderWay(i)
      BY DEF NoOp, UnderWay
    <3>3. UnderWay(i)' <=> UnderWay(i)
      BY <2>1 DEF UnderWay
    <3> QED
      BY <1>0, <2>1, <3>1, <3>2, <3>3
  <2> QED
    BY <2>2, <2>3
<1> QED
  BY <1>1, <1>2, <1>3, <1>4, <1>5, <1>6, StepKinds

LEMMA FreedKept ==
    ASSUME TypeOK, FreshPlans, Replaced, InStep, Artifacts, Stories, Freed, [Next]_vars
    PROVE  Freed'
<1> SUFFICES ASSUME NEW i \in Items
             PROVE  /\ i \in reset' \cup revoked' => item'[i] \in {"ready", task'[i]}
                    /\ i \in Works /\ prop'[i] = "applying" => sub'[i] = "applying" \/ i \in revoked'
  <2>1. TypeOK'
    BY TypedKept
  <2> QED
    BY <2>1, KindsAre DEF Freed, TypeOK
<1> DEFINE Goal ==
      /\ i \in reset' \cup revoked' => item'[i] \in {"ready", task'[i]}
      /\ i \in Works /\ prop'[i] = "applying" => sub'[i] = "applying" \/ i \in revoked'
<1>0. /\ i \in reset \cup revoked => item[i] \in {"ready", task[i]}
      /\ i \in Works /\ prop[i] = "applying" => sub[i] = "applying" \/ i \in revoked
      /\ task[i] \in {"ready", "completed", "conflict"}
  BY ItemsTyped DEF Freed
<1>1. CASE UNCHANGED vars
  BY <1>0, <1>1 DEF vars, git, rows, history
<1>2. CASE Refresh
  <2>1. /\ item'[i] = IF item[i] = "leased" THEN "leased" ELSE task[i]
        /\ i \in reset' => i \in reset \/ item[i] # "leased"
        /\ UNCHANGED <<task, prop, sub, revoked>>
    BY <1>2 DEF Refresh, git
  <2> QED
    BY <1>0, <2>1
<1>3. ASSUME NEW e \in Pushes, Push(e)
      PROVE  Goal
  BY <1>0, <1>3 DEF Push, rows
<1>4. CASE \/ \E p \in Edits : Propose(p)
           \/ \E j \in Items : Submit(j)
           \/ \E w \in Revisions : Revise(w)
           \/ \E w \in Toggles : Toggle(w)
           \/ \E r \in Reviewers, p \in Proposals, say \in {"approve", "reject"} : Consider(r, p, say)
           \/ \E r \in Reviewers : Decide(r)
  <2>1. Submits /\ UNCHANGED <<task, reset, revoked>>
    BY <1>4, RequestsSubmit, RequestsSpare
  <2> QED
    BY <1>0, <2>1 DEF Submits, ProposalOf
<1>5. ASSUME NEW w \in Writes,
             Retry(w) \/ Fail(w) \/ Note(w) \/ Pin(w) \/ Plan(w) \/ Land(w) \/ Contend(w) \/ Refuse(w)
               \/ Finalize(w)
      PROVE  Goal
  <2>1. /\ \A j \in Items \ {w} : item'[j] = item[j] /\ sub'[j] = sub[j] /\ task'[j] = task[j]
        /\ reset' = reset /\ revoked' = revoked
        /\ \A p \in Proposals \ {w} : prop'[p] = prop[p]
    BY <1>5, DrainSpares, DrainProposes
  <2>2. CASE i # w
    BY <1>0, <2>1, <2>2, KindsAre
  <2>3. CASE i = w
    <3>1. /\ item[i] \in {"ready", task[i]} => item'[i] \in {"ready", task'[i]}
          /\ i \in Works /\ prop'[i] = "applying" => prop[i] = "applying" /\ sub'[i] = sub[i]
      BY <1>5, <2>3, DrainKeeps
    <3> QED
      BY <1>0, <2>1, <3>1
  <2> QED
    BY <2>2, <2>3
<1>6. CASE Idle
  BY <1>0, <1>6 DEF Idle, Aside, git
<1>7. ASSUME NEW j \in Items, RevokeCommits(j)
      PROVE  Goal
  <2>1. UNCHANGED <<task, prop, reset>>
    BY <1>7, RevokeSays DEF Aside, git
  <2>2. CASE i # j
    BY <1>0, <1>7, <2>1, <2>2, RevokeSays
  <2>3. CASE i = j
    <3>1. /\ item'[i] = item[i] \/ item'[i] = "ready"
          /\ item[i] \in {"submitted", "applying"} /\ sub'[i] # sub[i] => item'[i] = "ready"
          /\ sub'[i] = sub[i] \/ (sub[i] \in {"received", "applying"} /\ sub'[i] = "rejected")
          /\ item'[i] # item[i] \/ sub'[i] # sub[i] => i \in revoked'
          /\ i \in revoked => i \in revoked'
          /\ i \in revoked' /\ i \notin revoked => item'[i] # item[i] \/ sub'[i] # sub[i]
      BY <1>7, <2>3, RevokeSays
    <3>2. i \in Works /\ prop'[i] = "applying" => sub'[i] = "applying" \/ i \in revoked'
      BY <1>0, <2>1, <3>1
    <3>3. ASSUME i \in reset' \cup revoked'
          PROVE  item'[i] \in {"ready", task'[i]}
      <4>1. CASE i \in reset \cup revoked
        BY <1>0, <2>1, <3>1, <4>1
      <4>2. CASE i \notin reset \cup revoked /\ item'[i] # "ready"
        <5>1. sub'[i] # sub[i] /\ item'[i] = item[i] /\ sub[i] \in {"received", "applying"}
          BY <2>1, <3>1, <3>3, <4>2
        <5>2. Tale(i)
          BY <4>2, StoriesAreTales
        <5>3. item[i] = task[i]
          BY <3>1, <4>2, <5>1, <5>2 DEF Tale
        <5> QED
          BY <2>1, <5>1, <5>3
      <4> QED
        BY <4>1, <4>2
    <3> QED
      BY <3>2, <3>3
  <2> QED
    BY <2>2, <2>3
<1> QED
  BY <1>1, <1>2, <1>3, <1>4, <1>5, <1>6, <1>7, StepKinds

-----------------------------------------------------------------------------
(* The theorems.                                                           *)

LEMMA Begin == Init => Inv
<1> SUFFICES ASSUME Init
             PROVE  Inv
  OBVIOUS
<1>1. TypeOK
  BY InitTyped
<1>2. Remembered
  BY <1>1, PastItself DEF Init, Remembered, Written, NoOp
<1>3. FreshPlans /\ Numbered
  BY DEF Init, FreshPlans, Numbered, NoOp
<1>4. Replaced
  BY DEF Init, Replaced, Landed, Written, NoOp
<1>5. InStep
  BY KindsAre DEF Init, InStep
<1>6. Artifacts
  BY KindsAre DEF Init, Artifacts, Written, NoOp
<1>7. Stories
  BY KindsAre DEF Init, Stories, ProposalOf
<1>8. Halts /\ Freed
  BY KindsAre DEF Init, Halts, Freed
<1> QED
  BY <1>1, <1>2, <1>3, <1>4, <1>5, <1>6, <1>7, <1>8 DEF Inv

LEMMA Step == Inv /\ [Next]_vars => Inv'
<1> SUFFICES ASSUME Inv, [Next]_vars
             PROVE  Inv'
  OBVIOUS
<1>0. TypeOK /\ Remembered /\ FreshPlans /\ Replaced /\ Numbered /\ InStep /\ Artifacts /\ Stories
      /\ Halts /\ Freed
  BY DEF Inv
<1>1. TypeOK' /\ InStep' /\ Stories' /\ Halts' /\ Freed'
  BY <1>0, TypedKept, InStepKept, StoriesKept, HaltsKept, FreedKept
<1>2. CASE UNCHANGED vars
  <2>1. Remembered' /\ FreshPlans'
    BY <1>0, <1>2 DEF vars, git, rows, history, Remembered, FreshPlans, Past, Written, Composable, Composed
  <2>2. Replaced' /\ Numbered' /\ Artifacts'
    BY <1>0, <1>2 DEF vars, git, rows, history, Replaced, Numbered, Artifacts, Landed, Lost, Written
  <2> QED
    BY <1>1, <2>1, <2>2 DEF Inv
<1>3. CASE ~UNCHANGED vars
  <2>1. \/ Refresh
        \/ \E e \in Pushes : Push(e)
        \/ Asks
        \/ \E w \in Writes : Turns(w) \/ Plan(w) \/ Land(w)
    BY <1>0, <1>3, StepKinds, RequestsAsk, DrainTurns, AsideAsks, RevokeSays DEF Idle
  <2> QED
    BY <1>0, <1>1, <2>1, RememberedKept, PlansKept, ReplacedKept, NumberedKept, ArtifactsKept DEF Inv
<1> QED
  BY <1>2, <1>3

\* The inductive invariant holds throughout.
THEOREM Invariance == Spec => []Inv
BY Begin, Step, PTL DEF Spec

\* Every variable keeps its type.
THEOREM TypeCorrect == Spec => []TypeOK
<1>1. Inv => TypeOK
  BY DEF Inv
<1> QED
  BY <1>1, Invariance, PTL

\* A landed write discards no words it was not written against but those of an
\* author's commit that kept its revision number, and whole-chapter work lands
\* on the very file it was reviewed against.
THEOREM WordsSurvive == Spec => []NothingOverwritten
<1>1. Inv => NothingOverwritten
  BY DEF Inv, Replaced, NothingOverwritten
<1> QED
  BY <1>1, Invariance, PTL

\* A direct revision lands on published prose only where an author published it
\* without a number, or the row it was asked of was behind.
THEOREM ReviewGuardsPublished == Spec => []PublishedProseReviewed
<1>1. Inv => PublishedProseReviewed
  BY KindsAre DEF Inv, Replaced, PublishedProseReviewed
<1> QED
  BY <1>1, Invariance, PTL

\* However reviewers, drain, failures and requeues interleave, the verdict on a
\* proposal and the branch agree.
THEOREM VerdictHolds == Spec => []VerdictMatchesBranch
<1>1. Inv => VerdictMatchesBranch
  BY DEF Inv, InStep, VerdictMatchesBranch
<1> QED
  BY <1>1, Invariance, PTL

\* Item, submission and proposal tell one story, what is being applied has an
\* operation that is coming, and work taken from its holder is free or as its
\* artifact says and, once rejected, is not taken up again.
THEOREM OneStory == Spec => []WorkAgrees
<1>1. ASSUME Inv
      PROVE  WorkAgrees
  <2>1. ASSUME NEW i \in Items \ (reset \cup revoked)
        PROVE  /\ i \in Ranges \cap retried \/ Story(i)
               /\ i \in Works => prop[i] = ProposalOf[sub[i]]
               /\ sub[i] = "applying" => Coming(i)
    <3>1. Tale(i) /\ TypeOK /\ InStep /\ i \in Items
      BY <1>1, StoriesAreTales DEF Inv
    <3>2. Landed(i) <=> Written(i) /\ op[i].plan.applied
      BY <1>1, <3>1, ItemsTyped DEF Inv, Replaced
    <3>3. task[i] # "submitted"
      BY <3>1, ItemsTyped
    <3>4. sub[i] = "applying" => Coming(i)
      BY <1>1, <3>1 DEF Inv, Halts, Tale, Coming
    <3>5. CASE op[i].state = "landed" /\ i \notin Ranges \cap retried
      <4>1. sub[i] = "applying"
        BY <3>1, <3>5, ItemsTyped, WhereItIs
      <4> QED
        BY <3>1, <3>3, <3>4, <3>5, <4>1 DEF Tale, Story
    <3>6. CASE op[i].state # "landed" /\ i \notin Ranges \cap retried
      BY <3>1, <3>2, <3>4, <3>6, ItemsTyped DEF Tale, Story, Written
    <3> QED
      BY <3>1, <3>4, <3>5, <3>6 DEF Tale
  <2>2. \A i \in reset \cup revoked : item[i] \in {"ready", task[i]}
    BY <1>1 DEF Inv, Freed
  <2>3. \A i \in Items : sub[i] = "rejected" /\ held # i => ~Coming(i) \/ i \in retried
    BY <1>1 DEF Inv, Halts, Coming
  <2>4. ASSUME NEW p \in Proposals, prop[p] = "applying"
        PROVE  UnderWay(p) /\ (Coming(p) \/ p \in revoked)
    <3>1. UnderWay(p)
      BY <1>1, <2>4 DEF Inv, InStep
    <3>2. p \in stopped => p \in Works
      BY <1>1, KindsAre DEF Inv, TypeOK
    <3>3. p \in stopped => p \in revoked
      BY <1>1, <2>4, <3>2, KindsAre DEF Inv, Freed, Halts
    <3> QED
      BY <3>1, <3>3 DEF Coming
  <2> QED
    BY <2>1, <2>2, <2>3, <2>4 DEF WorkAgrees
<1> QED
  BY <1>1, Invariance, PTL
=============================================================================
