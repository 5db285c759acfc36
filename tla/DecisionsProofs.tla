--------------------------- MODULE DecisionsProofs ---------------------------
(***************************************************************************)
(* Proofs about Decisions: type correctness, one work item per source, the *)
(* stickiness of a decision, the repository following the rows, and, as    *)
(* long as one isolate serves, the votes deciding, for any number of       *)
(* suggestions, replies, voters and isolates.                              *)
(***************************************************************************)
EXTENDS Decisions, FiniteSetTheorems, TLAPS

\* OneWorkItem and DecidedStays need no strengthening but the types: the index
\* and the two compare-and-swaps alone keep them, whatever commands remember.
Inv == TypeOK /\ OneWorkItem /\ DecidedStays

\* What a command in progress remembers, told by its op.
LEMMA RequestOf ==
    ASSUME TypeOK, NEW p \in Processes
    PROVE  /\ req[p].op = "vote" => req[p] \in VoteReq
           /\ req[p].op = "override" => req[p] \in OverrideReq
           /\ req[p].op = "cancel" => req[p] \in CancelReq
           /\ req[p].op \in {"force", "withdraw"} => req[p].source \in Sources
BY DEF TypeOK, Requests, Idle, VoteReq, OverrideReq, CancelReq

\* Starting a well-formed command keeps the types.
LEMMA BeginTyped ==
    ASSUME TypeOK, NEW p \in Processes, NEW r \in Requests, Begin(p, r)
    PROVE  TypeOK'
BY DEF TypeOK, Begin, db, repo

\* Ending a command leaves a request table of the right type.
LEMMA FinishTyped ==
    ASSUME TypeOK, NEW p \in Processes, Finish(p)
    PROVE  req' \in [Processes -> Requests]
BY DEF TypeOK, Finish, Requests

\* A row is appended only below the bound.
LEMMA EnqueueTyped ==
    ASSUME TypeOK, NEW j \in Jobs, Enqueue(j)
    PROVE  outbox' \in Seq(Jobs) /\ Len(outbox') <= MaxQueue
<1>1. outbox \in Seq(Jobs) /\ Len(outbox) < MaxQueue
  BY DEF TypeOK, Enqueue
<1>2. outbox' = Append(outbox, j) /\ Len(outbox') = Len(outbox) + 1
  BY <1>1 DEF Enqueue
<1> QED
  BY <1>1, <1>2, QueueBound

\* The job at the head is a job, and what remains is a queue.
LEMMA DrainTyped ==
    ASSUME TypeOK, NEW k, Drains(k)
    PROVE  /\ Head(outbox) \in Jobs
           /\ Head(outbox).source \in Sources
           /\ outbox' \in Seq(Jobs) /\ Len(outbox') <= MaxQueue
<1>1. outbox \in Seq(Jobs) /\ outbox # <<>> /\ outbox' = Tail(outbox)
  BY DEF TypeOK, Drains
<1>2. Len(outbox') <= Len(outbox) /\ outbox' \in Seq(Jobs) /\ Head(outbox) \in Jobs
  BY <1>1
<1>3. Len(outbox) <= MaxQueue /\ Len(outbox) \in Nat /\ Len(outbox') \in Nat
  BY <1>1, <1>2 DEF TypeOK
<1> QED
  BY <1>2, <1>3, QueueBound DEF Jobs, Sources

\* A promotion keeps the types of everything it writes.
LEMMA PromoteTyped ==
    ASSUME TypeOK, NEW s \in Sources, NEW how \in {"rule", "forced"}, Promote(s, how)
    PROVE  /\ creation' \in [Sources -> SUBSET {"rule", "forced"}]
           /\ items' \in [Sources -> Nat]
           /\ item' \in [Sources -> ItemStatuses]
           /\ status' \in [Sources -> Statuses]
           /\ outbox' \in Seq(Jobs) /\ Len(outbox') <= MaxQueue
<1>1. [kind |-> "promote", source |-> s] \in Jobs
  BY DEF Jobs
<1>2. outbox' \in Seq(Jobs) /\ Len(outbox') <= MaxQueue
  BY <1>1, EnqueueTyped DEF Promote
<1> QED
  BY <1>2 DEF Promote, TypeOK, ItemStatuses, Statuses
-----------------------------------------------------------------------------
\* The tables of a project that starts are well typed.
LEMMA TypeInit == Init => TypeOK
<1> SUFFICES ASSUME Init PROVE TypeOK
  OBVIOUS
<1>1. outbox \in Seq(Jobs) /\ Len(outbox) <= MaxQueue
  BY QueueBound DEF Init
<1> QED
  BY <1>1 DEF Init, TypeOK, Statuses, Votes, ItemStatuses, Requests, Sources

\* A command's read keeps the types.
LEMMA CommandTyped ==
    ASSUME TypeOK, NEW p \in Processes, Command(p) \/ \E s \in Sources : WithdrawRead(p, s)
    PROVE  TypeOK'
<1>1. ASSUME NEW a \in Annotations, NEW v \in Voters, NEW x \in Casts[v] \cup {"none"},
             VoteRead(p, a, v, x)
      PROVE TypeOK'
  <2> DEFINE sat == Satisfied([vote[a] EXCEPT ![v] = x])
             r == [op |-> "vote", source |-> a, voter |-> v, value |-> x,
                   crosses |-> sat /\ status[a] = "open" /\ creation[a] = {},
                   mark |-> MarkChange(a, sat)]
  <2>1. x \in Votes
    BY Ballots DEF Votes
  <2>2. MarkChange(a, sat) \in {"keep", "set", "clear"}
    BY DEF MarkChange
  <2>3. (sat /\ status[a] = "open" /\ creation[a] = {}) \in BOOLEAN
    OBVIOUS
  <2> HIDE DEF sat
  <2>4. r \in Requests
    BY <2>1, <2>2, <2>3 DEF Requests, VoteReq
  <2>5. Begin(p, r)
    BY <1>1 DEF VoteRead, sat
  <2> QED
    BY <2>4, <2>5, BeginTyped
<1>2. ASSUME NEW a \in Annotations, NEW f \in {"open", "rejected"},
             NEW t \in {"open", "rejected"}, OverrideRead(p, a, f, t)
      PROVE TypeOK'
  <2>1. [op |-> "override", source |-> a, from |-> f, to |-> t] \in Requests
    BY DEF Requests, OverrideReq
  <2> QED
    BY <1>2, <2>1, BeginTyped DEF OverrideRead
<1>3. ASSUME NEW s \in Sources, ForceRead(p, s) \/ WithdrawRead(p, s) PROVE TypeOK'
  <2>1. /\ [op |-> "force", source |-> s] \in Requests
        /\ [op |-> "withdraw", source |-> s] \in Requests
    BY DEF Requests
  <2> QED
    BY <1>3, <2>1, BeginTyped DEF ForceRead, WithdrawRead
<1>4. ASSUME NEW s \in Sources, CancelRead(p, s) PROVE TypeOK'
  <2>1. cancelRow[AnnotationOf(s)] \in Sources \cup {None}
    BY Threads DEF TypeOK, AnnotationOf, Sources
  <2>2. [op |-> "cancel", source |-> s, row |-> cancelRow[AnnotationOf(s)]] \in Requests
    BY <2>1 DEF Requests, CancelReq
  <2> QED
    BY <1>4, <2>2, BeginTyped DEF CancelRead
<1> QED
  BY <1>1, <1>2, <1>3, <1>4 DEF Command

\* A command's batch keeps the types.
LEMMA BatchTyped ==
    ASSUME TypeOK, NEW p \in Processes, Batch(p)
    PROVE  TypeOK'
<1> DEFINE r == req[p]
<1>0. Finish(p) => req' \in [Processes -> Requests]
  BY FinishTyped
<1>1. CASE VoteBatch(p)
  <2>1. r \in VoteReq
    BY <1>1, RequestOf DEF VoteBatch
  <2>2. r.source \in Annotations /\ r.source \in Sources /\ r.voter \in Voters /\ r.value \in Votes
    BY <2>1 DEF VoteReq, Sources
  <2>3. vote' \in [Annotations -> [Voters -> Votes]]
    BY <1>1, <2>2 DEF VoteBatch, TypeOK
  <2>4. marked' \in [Annotations -> BOOLEAN]
    BY <1>1, <2>2 DEF VoteBatch, TypeOK
  <2>5. /\ creation' \in [Sources -> SUBSET {"rule", "forced"}]
        /\ items' \in [Sources -> Nat]
        /\ item' \in [Sources -> ItemStatuses]
        /\ status' \in [Sources -> Statuses]
        /\ outbox' \in Seq(Jobs) /\ Len(outbox') <= MaxQueue
    <3>1. CASE r.crosses
      BY <1>1, <2>2, <3>1, PromoteTyped DEF VoteBatch
    <3>2. CASE ~r.crosses
      BY <1>1, <3>2 DEF VoteBatch, TypeOK
    <3> QED
      BY <3>1, <3>2
  <2> QED
    BY <1>0, <1>1, <2>3, <2>4, <2>5 DEF VoteBatch, TypeOK, repo
<1>2. CASE ForceBatch(p)
  <2>1. r.source \in Sources
    BY <1>2, RequestOf DEF ForceBatch
  <2>2. /\ creation' \in [Sources -> SUBSET {"rule", "forced"}]
        /\ items' \in [Sources -> Nat]
        /\ item' \in [Sources -> ItemStatuses]
        /\ status' \in [Sources -> Statuses]
        /\ outbox' \in Seq(Jobs) /\ Len(outbox') <= MaxQueue
    BY <1>2, <2>1, PromoteTyped DEF ForceBatch
  <2> QED
    BY <1>0, <1>2, <2>2 DEF ForceBatch, TypeOK, repo
<1>3. CASE OverrideBatch(p)
  <2>1. r \in OverrideReq
    BY <1>3, RequestOf DEF OverrideBatch
  <2>2. r.source \in Annotations /\ r.to \in Statuses
    BY <2>1 DEF OverrideReq, Statuses
  <2>3. [kind |-> "override", source |-> r.source, shows |-> r.to] \in Jobs
    BY <2>2 DEF Jobs
  <2>4. outbox' \in Seq(Jobs) /\ Len(outbox') <= MaxQueue
    BY <1>3, <2>3, EnqueueTyped DEF OverrideBatch
  <2>5. status' \in [Sources -> Statuses]
    BY <1>3, <2>2 DEF OverrideBatch, TypeOK
  <2> QED
    BY <1>0, <1>3, <2>4, <2>5 DEF OverrideBatch, TypeOK, repo
<1>4. CASE CancelBatch(p)
  <2>1. r \in CancelReq
    BY <1>4, RequestOf DEF CancelBatch
  <2>2. r.source \in Sources /\ AnnotationOf(r.source) \in Annotations
    BY <2>1, Threads DEF CancelReq, AnnotationOf, Sources
  <2>3. [kind |-> "cancel", source |-> AnnotationOf(r.source)] \in Jobs
    BY <2>2 DEF Jobs, Sources
  <2>4. outbox' \in Seq(Jobs) /\ Len(outbox') <= MaxQueue
    BY <1>4, <2>3, EnqueueTyped DEF CancelBatch
  <2>5. /\ item' \in [Sources -> ItemStatuses]
        /\ cancelRow' \in [Annotations -> Sources \cup {None}]
    BY <1>4, <2>2 DEF CancelBatch, TypeOK, ItemStatuses
  <2> QED
    BY <1>0, <1>4, <2>4, <2>5 DEF CancelBatch, TypeOK, repo
<1>5. CASE WithdrawBatch(p)
  <2>1. r.source \in Sources
    BY <1>5, RequestOf DEF WithdrawBatch
  <2>2. [kind |-> "withdraw", source |-> r.source] \in Jobs
    BY <2>1 DEF Jobs
  <2>3. outbox' \in Seq(Jobs) /\ Len(outbox') <= MaxQueue
    BY <1>5, <2>2, EnqueueTyped DEF WithdrawBatch
  <2> QED
    BY <1>0, <1>5, <2>3 DEF WithdrawBatch, TypeOK, repo
<1>6. CASE Abort(p)
  BY <1>0, <1>6 DEF Abort, TypeOK, db, repo
<1> QED
  BY <1>1, <1>2, <1>3, <1>4, <1>5, <1>6 DEF Batch

\* Draining a job keeps the types.
LEMMA DrainKeepsTypes == TypeOK /\ Drain => TypeOK'
<1> SUFFICES ASSUME TypeOK, Drain PROVE TypeOK'
  OBVIOUS
<1> DEFINE s == Head(outbox).source
<1>1. ASSUME NEW k, Drains(k)
      PROVE /\ s \in Sources /\ Head(outbox) \in Jobs
            /\ outbox' \in Seq(Jobs) /\ Len(outbox') <= MaxQueue
            /\ serving' \in SUBSET Isolates \ {{}}
            /\ vote' \in [Annotations -> [Voters -> Votes]]
            /\ creation' \in [Sources -> SUBSET {"rule", "forced"}]
            /\ marked' \in [Annotations -> BOOLEAN]
            /\ items' \in [Sources -> Nat]
            /\ cancelRow' \in [Annotations -> Sources \cup {None}]
            /\ req' \in [Processes -> Requests]
  BY <1>1, DrainTyped DEF Drains, TypeOK
<1>2. CASE DrainPromote
  <2>1. Drains("promote") /\ s \in Sources
    BY <1>1, <1>2 DEF DrainPromote
  <2>2. /\ status' \in [Sources -> Statuses] /\ item' \in [Sources -> ItemStatuses]
        /\ file' \in [Sources -> Statuses] /\ itemFile' \in [Sources -> ItemStatuses]
    BY <1>2, <2>1 DEF DrainPromote, TypeOK, Statuses
  <2> QED
    BY <1>1, <2>1, <2>2 DEF TypeOK
<1>3. CASE DrainOverride
  <2>1. Drains("override") /\ s \in Sources /\ Head(outbox) \in Jobs
    BY <1>1, <1>3 DEF DrainOverride
  <2>2. Head(outbox).shows \in Statuses
    BY <2>1 DEF Drains, Jobs
  <2>3. /\ status' \in [Sources -> Statuses] /\ item' \in [Sources -> ItemStatuses]
        /\ file' \in [Sources -> Statuses] /\ itemFile' \in [Sources -> ItemStatuses]
    BY <1>3, <2>1, <2>2 DEF DrainOverride, TypeOK
  <2> QED
    BY <1>1, <2>1, <2>3 DEF TypeOK
<1>4. CASE DrainCancel
  <2>1. Drains("cancel") /\ s \in Sources
    BY <1>1, <1>4 DEF DrainCancel
  <2>2. /\ status' \in [Sources -> Statuses] /\ item' \in [Sources -> ItemStatuses]
        /\ file' \in [Sources -> Statuses]
    BY <1>4, <2>1 DEF DrainCancel, TypeOK
  <2>3. itemFile' \in [Sources -> ItemStatuses]
    <3>1. itemFile' = [itemFile EXCEPT ![cancelRow[s]] = item[cancelRow[s]]]
      BY <1>4 DEF DrainCancel
    <3> QED
      BY <3>1 DEF TypeOK
  <2> QED
    BY <1>1, <2>1, <2>2, <2>3 DEF TypeOK
<1>5. CASE DrainWithdraw
  <2>1. Drains("withdraw") /\ s \in Sources
    BY <1>1, <1>5 DEF DrainWithdraw
  <2>2. /\ status' \in [Sources -> Statuses] /\ item' \in [Sources -> ItemStatuses]
        /\ file' \in [Sources -> Statuses] /\ itemFile' \in [Sources -> ItemStatuses]
    BY <1>5, <2>1 DEF DrainWithdraw, TypeOK, Statuses
  <2> QED
    BY <1>1, <2>1, <2>2 DEF TypeOK
<1>6. ASSUME NEW applied \in BOOLEAN, DrainApply(applied) PROVE TypeOK'
  <2>1. Drains("apply") /\ s \in Sources
    BY <1>1, <1>6 DEF DrainApply
  <2>2. (IF applied THEN "completed" ELSE "conflict") \in ItemStatuses
    BY DEF ItemStatuses
  <2>3. /\ status' \in [Sources -> Statuses] /\ item' \in [Sources -> ItemStatuses]
        /\ file' \in [Sources -> Statuses] /\ itemFile' \in [Sources -> ItemStatuses]
    BY <1>6, <2>1, <2>2 DEF DrainApply, TypeOK, Statuses
  <2> QED
    BY <1>1, <2>1, <2>3 DEF TypeOK
<1> QED
  BY <1>2, <1>3, <1>4, <1>5, <1>6 DEF Drain

\* Every step keeps the types.
LEMMA TypeStep == TypeOK /\ [Next]_vars => TypeOK'
<1> SUFFICES ASSUME TypeOK, [Next]_vars PROVE TypeOK'
  OBVIOUS
<1>1. CASE UNCHANGED vars
  BY <1>1 DEF TypeOK, vars
<1>2. ASSUME NEW s \in Sources, Submit(s) PROVE TypeOK'
  <2>1. [kind |-> "apply", source |-> s] \in Jobs
    BY DEF Jobs
  <2>2. outbox' \in Seq(Jobs) /\ Len(outbox') <= MaxQueue
    BY <1>2, <2>1, EnqueueTyped DEF Submit
  <2> QED
    BY <1>2, <2>2 DEF Submit, TypeOK, ItemStatuses, repo
<1>3. serving \subseteq Processes
  BY DEF TypeOK, Processes
<1> QED
  BY <1>1, <1>2, <1>3, CommandTyped, BatchTyped, DrainKeepsTypes DEF Next, Processes
-----------------------------------------------------------------------------
\* Nothing is decided at first.
LEMMA PromotionInit == Init => OneWorkItem /\ DecidedStays
<1>1. Cardinality({}) = 0
  BY FS_EmptySet
<1> QED
  BY <1>1 DEF Init, OneWorkItem, DecidedStays, Sources

\* A promotion admitted by the index and the compare-and-swap is the first of its
\* source.
LEMMA PromoteKeeps ==
    ASSUME Inv, NEW s \in Sources, NEW how \in {"rule", "forced"},
           Promotes(s), Promote(s, how)
    PROVE  OneWorkItem' /\ DecidedStays'
<1>1. creation[s] = {} /\ items[s] = 0
  <2>1. creation[s] = {}
    BY DEF Promotes, IndexFree
  <2> QED
    BY <2>1, FS_EmptySet DEF Inv, OneWorkItem
<1>2. creation' = [creation EXCEPT ![s] = {how}] /\ items' = [items EXCEPT ![s] = 1]
  BY <1>1 DEF Promote, Inv, TypeOK
<1>3. Cardinality({how}) = 1
  BY FS_Singleton
<1>4. OneWorkItem'
  <2> SUFFICES ASSUME NEW t \in Sources
               PROVE items'[t] = Cardinality(creation'[t]) /\ items'[t] <= 1
    BY DEF OneWorkItem
  <2>1. CASE t = s
    BY <1>2, <1>3, <2>1 DEF Inv, TypeOK
  <2>2. CASE t # s
    BY <1>2, <2>2 DEF Inv, TypeOK, OneWorkItem
  <2> QED
    BY <2>1, <2>2
<1>5. DecidedStays'
  <2> SUFFICES ASSUME NEW a \in Annotations, creation'[a] # {}
               PROVE status'[a] \notin {"open", "rejected"}
    BY DEF DecidedStays
  <2>1. CASE a = s
    BY <2>1 DEF Promote, Inv, TypeOK
  <2>2. CASE a # s
    <3>1. creation'[a] = creation[a] /\ status'[a] = status[a]
      BY <2>2 DEF Promote, Inv, TypeOK, Sources
    <3> QED
      BY <3>1 DEF Inv, DecidedStays
  <2> QED
    BY <2>1, <2>2
<1> QED
  BY <1>4, <1>5

\* A step that writes no decision, and moves a suggestion at most between undecided
\* states or to one that only decided or withdrawn suggestions have.
LEMMA StatusKeeps ==
    ASSUME Inv, UNCHANGED <<creation, items>>,
           \A a \in Annotations :
             creation[a] # {} /\ status'[a] \in {"open", "rejected"} => status'[a] = status[a]
    PROVE  OneWorkItem' /\ DecidedStays'
BY DEF Inv, OneWorkItem, DecidedStays

\* Every batch keeps the two invariants.
LEMMA BatchKeeps ==
    ASSUME Inv, NEW p \in Processes, Batch(p)
    PROVE  OneWorkItem' /\ DecidedStays'
<1> DEFINE r == req[p]
<1>0. TypeOK
  BY DEF Inv
<1>1. CASE VoteBatch(p)
  <2>1. r.source \in Sources
    BY <1>0, <1>1, RequestOf DEF VoteBatch, VoteReq, Sources
  <2>2. CASE r.crosses
    BY <1>1, <2>1, <2>2, PromoteKeeps DEF VoteBatch, VoteCommits
  <2>3. CASE ~r.crosses
    BY <1>1, <2>3, StatusKeeps DEF VoteBatch
  <2> QED
    BY <2>2, <2>3
<1>2. CASE ForceBatch(p)
  BY <1>0, <1>2, RequestOf, PromoteKeeps DEF ForceBatch
<1>3. CASE OverrideBatch(p)
  <2>1. r \in OverrideReq
    BY <1>0, <1>3, RequestOf DEF OverrideBatch
  <2>2. creation[r.source] = {}
    BY <1>3, <2>1 DEF OverrideBatch, OverrideCommits, OverrideReq, Inv, DecidedStays
  <2>3. \A a \in Annotations : creation[a] # {} => status'[a] = status[a]
    BY <1>0, <1>3, <2>2 DEF OverrideBatch, TypeOK, Sources
  <2> QED
    BY <1>3, <2>3, StatusKeeps DEF OverrideBatch
<1>4. CASE CancelBatch(p) \/ WithdrawBatch(p) \/ Abort(p)
  BY <1>4, StatusKeeps DEF CancelBatch, WithdrawBatch, Abort, db
<1> QED
  BY <1>1, <1>2, <1>3, <1>4 DEF Batch

\* Draining decides nothing; it withdraws and accepts.
LEMMA DrainKeeps ==
    ASSUME Inv, Drain
    PROVE  OneWorkItem' /\ DecidedStays'
<1>1. status \in [Sources -> Statuses] /\ Annotations \subseteq Sources
  BY DEF Inv, TypeOK, Sources
<1>2. /\ UNCHANGED <<creation, items>>
      /\ \A a \in Annotations :
           status'[a] \in {"open", "rejected"} => status'[a] = status[a]
  BY <1>1 DEF Drain, Drains, DrainPromote, DrainOverride, DrainCancel, DrainWithdraw, DrainApply
<1> QED
  BY <1>2, StatusKeeps

\* Inv is inductive.
LEMMA InvStep == Inv /\ [Next]_vars => Inv'
<1> SUFFICES ASSUME Inv, [Next]_vars PROVE Inv'
  OBVIOUS
<1>1. TypeOK'
  BY TypeStep DEF Inv
<1>2. serving \subseteq Processes /\ Isolates \subseteq Processes
  BY DEF Inv, TypeOK, Processes
<1>3. ASSUME NEW p \in Processes, Command(p) \/ \E s \in Sources : WithdrawRead(p, s)
      PROVE UNCHANGED <<status, creation, items>>
  BY <1>3 DEF Command, VoteRead, OverrideRead, ForceRead, CancelRead, WithdrawRead, Begin, db
<1>4. ASSUME NEW s \in Sources, Submit(s) PROVE UNCHANGED <<status, creation, items>>
  BY <1>4 DEF Submit
<1>5. UNCHANGED vars => UNCHANGED <<status, creation, items>>
  BY DEF vars
<1>6. UNCHANGED <<status, creation, items>> => OneWorkItem' /\ DecidedStays'
  BY StatusKeeps
<1>7. OneWorkItem' /\ DecidedStays'
  BY <1>2, <1>3, <1>4, <1>5, <1>6, BatchKeeps, DrainKeeps DEF Next, Processes
<1> QED
  BY <1>1, <1>7 DEF Inv

\* The inductive invariant holds in every behaviour.
THEOREM Invariance == Spec => []Inv
<1>1. Init => Inv
  BY TypeInit, PromotionInit DEF Inv
<1>2. Inv /\ [Next]_vars => Inv'
  BY InvStep
<1> QED
  BY <1>1, <1>2, PTL DEF Spec

\* The tables keep their types, for any number of suggestions, voters and isolates.
THEOREM TypeCorrect == Spec => []TypeOK
<1>1. Inv => TypeOK
  BY DEF Inv
<1> QED
  BY <1>1, Invariance, PTL

\* Whatever mix of votes and forced creations races, a suggestion, and each reply,
\* gives at most one decision and one work item.
THEOREM AtMostOneWorkItem == Spec => []OneWorkItem
<1>1. Inv => OneWorkItem
  BY DEF Inv
<1> QED
  BY <1>1, Invariance, PTL

\* No override undoes a decision that made work of a suggestion.
THEOREM DecisionsAreSticky == Spec => []DecidedStays
<1>1. Inv => DecidedStays
  BY DEF Inv
<1> QED
  BY <1>1, Invariance, PTL
-----------------------------------------------------------------------------
(* The repository follows the rows: the queue makes up for what it lags.   *)

\* A job that writes a suggestion's artifact for certain, and one that writes, or
\* leaves behind, what the row says now.
Writes(job, a) == job.kind \in {"promote", "override", "cancel", "withdraw"} /\ job.source = a
Agrees(job, a) == \/ job.kind \in {"cancel", "withdraw"}
                  \/ job.kind = "promote" /\ status[a] = "work_item_created"
                  \/ job.kind = "override" /\ job.shows = status[a]

Excused(a) == \/ status[a] = "withdrawn"
              \/ \E r \in Replies : Parent[r] = a /\ item[r] = "completed"

\* Where the artifact lags a job will write it, and no job leaves it wrong: one that
\* would is followed by another.
FileFollows(a) ==
    \/ Excused(a)
    \/ /\ file[a] = status[a] \/ \E n \in DOMAIN outbox : Writes(outbox[n], a)
       /\ \A n \in DOMAIN outbox : Writes(outbox[n], a) =>
            \/ Agrees(outbox[n], a)
            \/ \E m \in DOMAIN outbox : m > n /\ Writes(outbox[m], a)

\* The same of a work item, whose jobs all write what its row says when they run; a
\* cancellation's only while the decision row names the item.
ItemFollows(s) ==
    \/ itemFile[s] = item[s]
    \/ \E n \in DOMAIN outbox : outbox[n].kind \in {"promote", "apply"} /\ outbox[n].source = s
    \/ /\ item[s] = "cancelled"
       /\ \/ cancelRow[AnnotationOf(s)] # s
          \/ \E n \in DOMAIN outbox : Writes(outbox[n], AnnotationOf(s))
                                      /\ outbox[n].kind = "cancel"

\* Work items come of decisions, and one is applied once, after everything that was
\* decided of its source.
AppliesLast ==
    /\ \A s \in Sources : item[s] # "none" => creation[s] # {}
    /\ \A p \in Processes : req[p].op = "cancel" => creation[req[p].source] # {}
    /\ \A n \in DOMAIN outbox : outbox[n].kind = "apply" =>
         /\ creation[outbox[n].source] # {}
         /\ item[outbox[n].source] \in {"applying", "cancelled"}
         /\ \A m \in DOMAIN outbox : m > n /\ outbox[m].source = outbox[n].source
              => outbox[m].kind \notin {"promote", "override", "apply"}

QueueInv == /\ AppliesLast
            /\ \A a \in Annotations : FileFollows(a)
            /\ \A s \in Sources : ItemFollows(s)

\* What a row appended does to the positions of the queue.
LEMMA Appended ==
    ASSUME TypeOK, NEW j, Enqueue(j)
    PROVE  \E e \in Nat : /\ DOMAIN outbox' = DOMAIN outbox \cup {e} /\ outbox'[e] = j
                          /\ \A n \in DOMAIN outbox : n \in Nat /\ n < e /\ outbox'[n] = outbox[n]
<1>1. outbox \in Seq(Jobs) /\ outbox' = Append(outbox, j)
  BY DEF TypeOK, Enqueue
<1>2. /\ Len(outbox) \in Nat /\ DOMAIN outbox = 1..Len(outbox)
      /\ DOMAIN outbox' = 1..(Len(outbox) + 1) /\ outbox'[Len(outbox) + 1] = j
      /\ \A n \in DOMAIN outbox : outbox'[n] = outbox[n]
  BY <1>1
<1>3. WITNESS Len(outbox) + 1 \in Nat
<1> QED
  BY <1>2

\* And what the head's leaving does.
LEMMA Drained ==
    ASSUME TypeOK, NEW k, Drains(k)
    PROVE  /\ 1 \in DOMAIN outbox /\ outbox[1] = Head(outbox)
           /\ \A n \in DOMAIN outbox' : /\ n \in Nat \ {0} /\ n + 1 \in DOMAIN outbox
                                        /\ outbox'[n] = outbox[n + 1]
           /\ \A n \in DOMAIN outbox : n > 1 => /\ n \in Nat /\ n - 1 \in DOMAIN outbox'
                                                /\ outbox'[n - 1] = outbox[n]
<1>1. outbox \in Seq(Jobs) /\ outbox # <<>> /\ outbox' = Tail(outbox)
  BY DEF TypeOK, Drains
<1>2. /\ Len(outbox) \in Nat /\ Len(outbox) > 0 /\ DOMAIN outbox = 1..Len(outbox)
      /\ DOMAIN outbox' = 1..(Len(outbox) - 1)
      /\ \A n \in 1..(Len(outbox) - 1) : outbox'[n] = outbox[n + 1]
      /\ outbox[1] = Head(outbox)
  BY <1>1
<1> QED
  BY <1>2

LEMMA QueueInit == Init => QueueInv
BY DEF Init, QueueInv, AppliesLast, FileFollows, ItemFollows, Idle, Sources

\* A job that will leave a suggestion's artifact right makes up for everything.
LEMMA FileWritten ==
    ASSUME TypeOK, NEW a \in Annotations, NEW j, Enqueue(j), Writes(j, a),
           \/ j.kind \in {"cancel", "withdraw"}
           \/ j.kind = "promote" /\ status'[a] = "work_item_created"
           \/ j.kind = "override" /\ j.shows = status'[a]
    PROVE  FileFollows(a)'
<1>1. PICK e \in Nat : /\ DOMAIN outbox' = DOMAIN outbox \cup {e} /\ outbox'[e] = j
                       /\ \A n \in DOMAIN outbox : n \in Nat /\ n < e /\ outbox'[n] = outbox[n]
  BY Appended
<1>2. Writes(outbox'[e], a) /\ Agrees(outbox[e], a)'
  BY <1>1 DEF Writes, Agrees
<1> QED
  BY <1>1, <1>2 DEF FileFollows, Writes

\* A job of something else changes nothing for it.
LEMMA FileKept ==
    ASSUME TypeOK, NEW a \in Annotations, NEW j, Enqueue(j), ~Writes(j, a), FileFollows(a),
           status'[a] = status[a], file'[a] = file[a],
           \A r \in Replies : Parent[r] = a /\ item[r] = "completed" => item'[r] = "completed"
    PROVE  FileFollows(a)'
<1>1. PICK e \in Nat : /\ DOMAIN outbox' = DOMAIN outbox \cup {e} /\ outbox'[e] = j
                       /\ \A n \in DOMAIN outbox : n \in Nat /\ n < e /\ outbox'[n] = outbox[n]
  BY Appended
<1>2. \A n \in DOMAIN outbox' : Writes(outbox'[n], a) => n \in DOMAIN outbox
  BY <1>1
<1>3. \A n \in DOMAIN outbox : /\ Writes(outbox'[n], a) <=> Writes(outbox[n], a)
                               /\ Agrees(outbox[n], a)' <=> Agrees(outbox[n], a)
  BY <1>1 DEF Writes, Agrees
<1>4. CASE Excused(a)
  BY <1>4 DEF FileFollows, Excused
<1>5. CASE ~Excused(a)
  BY <1>1, <1>2, <1>3, <1>5 DEF FileFollows, Writes
<1> QED
  BY <1>4, <1>5

\* The head's leaving keeps a suggestion's artifact right if it wrote what the row
\* says, did not touch it, or is followed by a job that will.
LEMMA FileDrained ==
    ASSUME TypeOK, NEW a \in Annotations, NEW k, Drains(k), FileFollows(a), ~Excused(a),
           status'[a] = status[a],
           \/ file'[a] = status[a]
           \/ file'[a] = file[a] /\ ~Writes(Head(outbox), a)
           \/ Writes(Head(outbox), a) /\ ~Agrees(Head(outbox), a)
    PROVE  FileFollows(a)'
<1>1. /\ 1 \in DOMAIN outbox /\ outbox[1] = Head(outbox)
      /\ \A n \in DOMAIN outbox' : /\ n \in Nat /\ n + 1 \in DOMAIN outbox
                                   /\ outbox'[n] = outbox[n + 1]
      /\ \A n \in DOMAIN outbox : n > 1 => /\ n \in Nat /\ n - 1 \in DOMAIN outbox'
                                           /\ outbox'[n - 1] = outbox[n]
  BY Drained
<1>2. /\ file[a] = status[a] \/ \E n \in DOMAIN outbox : Writes(outbox[n], a)
      /\ \A n \in DOMAIN outbox : Writes(outbox[n], a) =>
            \/ Agrees(outbox[n], a)
            \/ \E m \in DOMAIN outbox : m > n /\ Writes(outbox[m], a)
  BY DEF FileFollows
<1>3. \A n \in DOMAIN outbox : n = 1 \/ n > 1
  BY DEF TypeOK
<1>4. \A n \in DOMAIN outbox : n > 1 /\ Writes(outbox[n], a)
                               => n - 1 \in DOMAIN outbox' /\ Writes(outbox'[n - 1], a)
  BY <1>1
<1>5. file'[a] = status'[a] \/ \E n \in DOMAIN outbox' : Writes(outbox'[n], a)
  BY <1>1, <1>2, <1>3, <1>4
<1>6. ASSUME NEW n \in DOMAIN outbox', Writes(outbox'[n], a)
      PROVE  \/ Agrees(outbox[n], a)'
             \/ \E m \in DOMAIN outbox' : m > n /\ Writes(outbox'[m], a)
  <2>1. n \in Nat /\ n + 1 \in DOMAIN outbox /\ Writes(outbox[n + 1], a)
    BY <1>1, <1>6
  <2>2. CASE Agrees(outbox[n + 1], a)
    BY <1>1, <2>2 DEF Agrees
  <2>3. ASSUME NEW m \in DOMAIN outbox, m > n + 1, Writes(outbox[m], a)
        PROVE  \E i \in DOMAIN outbox' : i > n /\ Writes(outbox'[i], a)
    <3>1. m \in Nat /\ m > 1 /\ m - 1 > n
      BY <1>1, <2>1, <2>3 DEF TypeOK
    <3> QED
      BY <1>4, <2>3, <3>1
  <2> QED
    BY <1>2, <2>1, <2>2, <2>3
<1> QED
  BY <1>5, <1>6 DEF FileFollows, Writes
\* A work item's job makes up for everything, too.
LEMMA ItemWritten ==
    ASSUME TypeOK, NEW s \in Sources, NEW j, Enqueue(j),
           \/ j.kind \in {"promote", "apply"} /\ j.source = s
           \/ j.kind = "cancel" /\ j.source = AnnotationOf(s) /\ item'[s] = "cancelled"
    PROVE  ItemFollows(s)'
<1>1. PICK e \in Nat : /\ DOMAIN outbox' = DOMAIN outbox \cup {e} /\ outbox'[e] = j
                       /\ \A n \in DOMAIN outbox : n \in Nat /\ n < e /\ outbox'[n] = outbox[n]
  BY Appended
<1> QED
  BY <1>1 DEF ItemFollows, Writes

\* Another's job changes nothing for it, and taking over the decision row excuses it.
LEMMA ItemKept ==
    ASSUME TypeOK, NEW s \in Sources, NEW j, Enqueue(j), ItemFollows(s),
           item'[s] = item[s], itemFile'[s] = itemFile[s],
           \/ cancelRow'[AnnotationOf(s)] = cancelRow[AnnotationOf(s)]
           \/ cancelRow'[AnnotationOf(s)] # s
    PROVE  ItemFollows(s)'
<1>1. PICK e \in Nat : /\ DOMAIN outbox' = DOMAIN outbox \cup {e} /\ outbox'[e] = j
                       /\ \A n \in DOMAIN outbox : n \in Nat /\ n < e /\ outbox'[n] = outbox[n]
  BY Appended
<1> QED
  BY <1>1 DEF ItemFollows, Writes

LEMMA ItemDrained ==
    ASSUME TypeOK, NEW s \in Sources, NEW k, Drains(k), ItemFollows(s),
           \/ itemFile'[s] = item'[s]
           \/ /\ item'[s] = item[s] /\ itemFile'[s] = itemFile[s]
              /\ Head(outbox).kind \in {"promote", "apply"} => Head(outbox).source # s
              /\ \/ ~(Head(outbox).kind = "cancel" /\ Head(outbox).source = AnnotationOf(s))
                 \/ cancelRow[AnnotationOf(s)] # s
    PROVE  ItemFollows(s)'
<1>1. /\ 1 \in DOMAIN outbox /\ outbox[1] = Head(outbox) /\ cancelRow' = cancelRow
      /\ \A n \in DOMAIN outbox : n > 1 => /\ n \in Nat /\ n - 1 \in DOMAIN outbox'
                                           /\ outbox'[n - 1] = outbox[n]
  BY Drained DEF Drains
<1>2. \A n \in DOMAIN outbox : n = 1 \/ n > 1
  BY DEF TypeOK
<1>3. CASE itemFile'[s] = item'[s]
  BY <1>3 DEF ItemFollows
<1>4. CASE itemFile'[s] # item'[s]
  <2>1. ASSUME NEW n \in DOMAIN outbox, outbox[n].kind \in {"promote", "apply"},
               outbox[n].source = s
        PROVE  ItemFollows(s)'
    <3>1. n > 1
      BY <1>1, <1>2, <1>4, <2>1
    <3>2. n - 1 \in DOMAIN outbox' /\ outbox'[n - 1] = outbox[n]
      BY <1>1, <3>1
    <3> QED
      BY <2>1, <3>2 DEF ItemFollows
  <2>2. ASSUME item[s] = "cancelled", cancelRow[AnnotationOf(s)] = s, NEW n \in DOMAIN outbox,
               Writes(outbox[n], AnnotationOf(s)), outbox[n].kind = "cancel"
        PROVE  ItemFollows(s)'
    <3>1. n > 1
      BY <1>1, <1>2, <1>4, <2>2 DEF Writes
    <3>2. n - 1 \in DOMAIN outbox' /\ outbox'[n - 1] = outbox[n]
      BY <1>1, <3>1
    <3> QED
      BY <1>4, <2>2, <3>2 DEF ItemFollows, Writes
  <2>3. CASE item[s] = "cancelled" /\ cancelRow[AnnotationOf(s)] # s
    BY <1>1, <1>4, <2>3 DEF ItemFollows
  <2> QED
    BY <1>4, <2>1, <2>2, <2>3 DEF ItemFollows
<1> QED
  BY <1>3, <1>4

\* A row that is no application of a source already in the queue, nor follows one.
LEMMA AppliesAppended ==
    ASSUME TypeOK, AppliesLast, NEW j, Enqueue(j),
           \A p \in Processes : req'[p].op = "cancel" => req'[p] = req[p],
           \A s \in Sources : creation[s] # {} => creation'[s] # {},
           \A s \in Sources : item'[s] # "none" => item[s] # "none" \/ creation'[s] # {},
           \A n \in DOMAIN outbox : outbox[n].kind = "apply" =>
             /\ item'[outbox[n].source] \in {"applying", "cancelled"}
             /\ j.kind \in {"promote", "override", "apply"} => j.source # outbox[n].source,
           j.kind = "apply" => creation'[j.source] # {} /\ item'[j.source] = "applying"
    PROVE  AppliesLast'
<1>1. PICK e \in Nat : /\ DOMAIN outbox' = DOMAIN outbox \cup {e} /\ outbox'[e] = j
                       /\ \A n \in DOMAIN outbox : n \in Nat /\ n < e /\ outbox'[n] = outbox[n]
  BY Appended
<1>2. \A p \in Processes : req[p].op = "cancel" => req[p].source \in Sources
  BY RequestOf DEF CancelReq
<1>3. \A n \in DOMAIN outbox : outbox[n].source \in Sources
  BY DEF TypeOK, Jobs, Sources
<1>4. \A s \in Sources : item'[s] # "none" => creation'[s] # {}
  BY DEF AppliesLast
<1>5. \A p \in Processes : req'[p].op = "cancel" => creation'[req'[p].source] # {}
  BY <1>2 DEF AppliesLast
<1>6. ASSUME NEW n \in DOMAIN outbox', outbox'[n].kind = "apply"
      PROVE  /\ creation'[outbox'[n].source] # {}
             /\ item'[outbox'[n].source] \in {"applying", "cancelled"}
             /\ \A m \in DOMAIN outbox' : m > n /\ outbox'[m].source = outbox'[n].source
                  => outbox'[m].kind \notin {"promote", "override", "apply"}
  <2>1. CASE n = e
    BY <1>1, <1>6, <2>1
  <2>2. CASE n \in DOMAIN outbox
    BY <1>1, <1>3, <1>6, <2>2 DEF AppliesLast
  <2> QED
    BY <1>1, <2>1, <2>2
<1> QED
  BY <1>4, <1>5, <1>6 DEF AppliesLast

LEMMA AppliesDrained ==
    ASSUME TypeOK, AppliesLast, NEW k, Drains(k),
           \A s \in Sources : \/ item'[s] = item[s]
                              \/ Head(outbox).kind = "apply" /\ Head(outbox).source = s
    PROVE  AppliesLast'
<1>1. /\ 1 \in DOMAIN outbox /\ outbox[1] = Head(outbox)
      /\ \A n \in DOMAIN outbox' : /\ n \in Nat \ {0} /\ n + 1 \in DOMAIN outbox
                                   /\ outbox'[n] = outbox[n + 1]
  BY Drained
<1>2. creation' = creation /\ req' = req
  BY DEF Drains
<1>3. \A n \in DOMAIN outbox : outbox[n].source \in Sources
  BY DEF TypeOK, Jobs, Sources
<1>4. \A s \in Sources : item'[s] # "none" => creation[s] # {}
  BY <1>1 DEF AppliesLast
<1>5. ASSUME NEW n \in DOMAIN outbox', outbox'[n].kind = "apply"
      PROVE  /\ creation[outbox'[n].source] # {}
             /\ item'[outbox'[n].source] \in {"applying", "cancelled"}
             /\ \A m \in DOMAIN outbox' : m > n /\ outbox'[m].source = outbox'[n].source
                  => outbox'[m].kind \notin {"promote", "override", "apply"}
  <2>1. n + 1 \in DOMAIN outbox /\ outbox'[n] = outbox[n + 1] /\ n + 1 > 1
    BY <1>1
  <2>2. ~(Head(outbox).kind = "apply" /\ Head(outbox).source = outbox'[n].source)
    BY <1>1, <1>5, <2>1 DEF AppliesLast
  <2>3. item'[outbox'[n].source] = item[outbox'[n].source]
    BY <1>3, <2>1, <2>2
  <2>4. ASSUME NEW m \in DOMAIN outbox', m > n
        PROVE  m + 1 \in DOMAIN outbox /\ outbox'[m] = outbox[m + 1] /\ m + 1 > n + 1
    <3>1. m \in Nat /\ n \in Nat
      BY <1>1
    <3> QED
      BY <1>1, <2>4, <3>1
  <2> QED
    BY <1>5, <2>1, <2>3, <2>4 DEF AppliesLast
<1> QED
  BY <1>2, <1>4, <1>5 DEF AppliesLast
\* Nothing the invariant speaks of changes.
LEMMA QueueKept ==
    ASSUME QueueInv, UNCHANGED <<status, creation, item, cancelRow, outbox, repo>>,
           \A p \in Processes : req'[p].op = "cancel" =>
             req'[p] = req[p] \/ creation[req'[p].source] # {}
    PROVE  QueueInv'
<1>1. AppliesLast'
  BY DEF QueueInv, AppliesLast
<1>2. \A a \in Annotations : FileFollows(a)'
  BY DEF QueueInv, FileFollows, Excused, Writes, Agrees, repo
<1>3. \A s \in Sources : ItemFollows(s)'
  BY DEF QueueInv, ItemFollows, Writes, repo
<1> QED
  BY <1>1, <1>2, <1>3 DEF QueueInv

\* A command that ends is no longer remembered.
LEMMA Forgotten ==
    ASSUME TypeOK, NEW p \in Processes, Finish(p)
    PROVE  \A q \in Processes : req'[q].op = "cancel" => req'[q] = req[q]
BY DEF TypeOK, Finish, Idle

LEMMA PromoteFollows ==
    ASSUME TypeOK, QueueInv, NEW s \in Sources, NEW how \in {"rule", "forced"},
           Promotes(s), Promote(s, how), UNCHANGED <<cancelRow, repo>>,
           \A p \in Processes : req'[p].op = "cancel" => req'[p] = req[p]
    PROVE  QueueInv'
<1> DEFINE j == [kind |-> "promote", source |-> s]
<1>1. /\ AppliesLast /\ \A a \in Annotations : FileFollows(a)
      /\ \A t \in Sources : ItemFollows(t)
  BY DEF QueueInv
<1>2. Enqueue(j) /\ creation[s] = {} /\ item[s] = "none"
  BY <1>1 DEF Promote, Promotes, IndexFree, AppliesLast
<1>3. /\ item' = [item EXCEPT ![s] = "ready"]
      /\ creation' = [creation EXCEPT ![s] = {how}]
      /\ status' = IF s \in Annotations THEN [status EXCEPT ![s] = "work_item_created"] ELSE status
  BY <1>2 DEF Promote
<1>4. /\ \A t \in Sources \ {s} : item'[t] = item[t] /\ creation'[t] = creation[t]
      /\ creation'[s] = {how} /\ \A a \in Annotations \ {s} : status'[a] = status[a]
      /\ s \in Annotations => status'[s] = "work_item_created"
  BY <1>3 DEF TypeOK, Sources
<1>5. AppliesLast'
  <2>1. \A n \in DOMAIN outbox : outbox[n].source \in Sources
    BY DEF TypeOK, Jobs, Sources
  <2>2. \A n \in DOMAIN outbox : outbox[n].kind = "apply" =>
          /\ item'[outbox[n].source] \in {"applying", "cancelled"}
          /\ j.source # outbox[n].source
    BY <1>1, <1>2, <1>4, <2>1 DEF AppliesLast
  <2>3. \A t \in Sources : /\ creation[t] # {} => creation'[t] # {}
                           /\ item'[t] # "none" => item[t] # "none" \/ creation'[t] # {}
    BY <1>4
  <2>4. j.kind # "apply"
    OBVIOUS
  <2> HIDE DEF j
  <2> QED
    BY <1>1, <1>2, <2>2, <2>3, <2>4, AppliesAppended
<1>6. ASSUME NEW a \in Annotations PROVE FileFollows(a)'
  <2>1. CASE a = s
    <3>1. Writes(j, a) /\ j.kind = "promote" /\ status'[a] = "work_item_created"
      BY <1>4, <2>1 DEF Writes
    <3> HIDE DEF j
    <3> QED
      BY <1>2, <3>1, FileWritten
  <2>2. CASE a # s
    <3>1. ~Writes(j, a)
      BY <2>2 DEF Writes
    <3>2. /\ status'[a] = status[a] /\ file'[a] = file[a]
          /\ \A r \in Replies : Parent[r] = a /\ item[r] = "completed" => item'[r] = "completed"
      BY <1>2, <1>4, <2>2 DEF repo, Sources
    <3> HIDE DEF j
    <3> QED
      BY <1>1, <1>2, <3>1, <3>2, FileKept
  <2> QED
    BY <2>1, <2>2
<1>7. ASSUME NEW t \in Sources PROVE ItemFollows(t)'
  <2>1. CASE t = s
    <3>1. j.kind = "promote" /\ j.source = t
      BY <2>1
    <3> HIDE DEF j
    <3> QED
      BY <1>2, <3>1, ItemWritten
  <2>2. CASE t # s
    <3>1. item'[t] = item[t] /\ itemFile'[t] = itemFile[t] /\ cancelRow' = cancelRow
      BY <1>4, <2>2 DEF repo
    <3> HIDE DEF j
    <3> QED
      BY <1>1, <1>2, <3>1, ItemKept
  <2> QED
    BY <2>1, <2>2
<1> QED
  BY <1>5, <1>6, <1>7 DEF QueueInv

LEMMA OverrideFollows ==
    ASSUME Inv, QueueInv, NEW p \in Processes, OverrideBatch(p)
    PROVE  QueueInv'
<1> DEFINE s == req[p].source
           j == [kind |-> "override", source |-> s, shows |-> req[p].to]
<1>1. /\ TypeOK /\ AppliesLast /\ \A a \in Annotations : FileFollows(a)
      /\ \A t \in Sources : ItemFollows(t)
  BY DEF Inv, QueueInv
<1>2. s \in Annotations /\ req[p].from \in {"open", "rejected"}
  BY <1>1, RequestOf DEF OverrideBatch, OverrideReq
<1>3. Enqueue(j) /\ status' = [status EXCEPT ![s] = req[p].to] /\ creation[s] = {}
  BY <1>2 DEF OverrideBatch, OverrideCommits, Inv, DecidedStays
<1>4. UNCHANGED <<creation, item, cancelRow, repo>>
  BY DEF OverrideBatch
<1>5. AppliesLast'
  <2>1. \A q \in Processes : req'[q].op = "cancel" => req'[q] = req[q]
    BY <1>1, Forgotten DEF OverrideBatch
  <2>2. \A n \in DOMAIN outbox : outbox[n].kind = "apply" =>
          /\ item'[outbox[n].source] \in {"applying", "cancelled"}
          /\ j.source # outbox[n].source
    BY <1>1, <1>3, <1>4 DEF AppliesLast
  <2>3. j.kind # "apply"
    OBVIOUS
  <2> HIDE DEF j
  <2> QED
    BY <1>1, <1>3, <1>4, <2>1, <2>2, <2>3, AppliesAppended
<1>6. ASSUME NEW a \in Annotations PROVE FileFollows(a)'
  <2>1. CASE a = s
    <3>1. Writes(j, a) /\ j.kind = "override" /\ j.shows = status'[a]
      BY <1>1, <1>2, <1>3, <2>1 DEF Writes, TypeOK, Sources
    <3> HIDE DEF j
    <3> QED
      BY <1>1, <1>3, <3>1, FileWritten
  <2>2. CASE a # s
    <3>1. ~Writes(j, a)
      BY <2>2 DEF Writes
    <3>2. status'[a] = status[a] /\ file'[a] = file[a] /\ item' = item
      BY <1>1, <1>3, <1>4, <2>2 DEF repo, TypeOK, Sources
    <3> HIDE DEF j
    <3> QED
      BY <1>1, <1>3, <3>1, <3>2, FileKept
  <2> QED
    BY <2>1, <2>2
<1>7. ASSUME NEW t \in Sources PROVE ItemFollows(t)'
  <2> HIDE DEF j
  <2> QED
    BY <1>1, <1>3, <1>4, ItemKept DEF repo
<1> QED
  BY <1>5, <1>6, <1>7 DEF QueueInv

LEMMA CancelFollows ==
    ASSUME TypeOK, QueueInv, NEW p \in Processes, CancelBatch(p)
    PROVE  QueueInv'
<1> DEFINE s == req[p].source
           a == AnnotationOf(s)
           j == [kind |-> "cancel", source |-> a]
<1>1. /\ AppliesLast /\ \A b \in Annotations : FileFollows(b)
      /\ \A t \in Sources : ItemFollows(t)
  BY DEF QueueInv
<1>2. s \in Sources /\ a \in Annotations /\ creation[s] # {}
  BY <1>1, RequestOf, Threads DEF CancelBatch, CancelReq, AppliesLast, AnnotationOf, Sources
<1>3. /\ Enqueue(j) /\ item' = [item EXCEPT ![s] = "cancelled"]
      /\ cancelRow' = [cancelRow EXCEPT ![a] = s]
      /\ UNCHANGED <<creation, status, repo>>
  BY DEF CancelBatch
<1>4. /\ item'[s] = "cancelled" /\ \A t \in Sources \ {s} : item'[t] = item[t]
      /\ \A b \in Annotations : cancelRow'[b] = IF b = a THEN s ELSE cancelRow[b]
  BY <1>2, <1>3 DEF TypeOK
<1>5. AppliesLast'
  <2>1. \A q \in Processes : req'[q].op = "cancel" => req'[q] = req[q]
    BY Forgotten DEF CancelBatch
  <2>2. \A n \in DOMAIN outbox : outbox[n].source \in Sources
    BY DEF TypeOK, Jobs, Sources
  <2>3. \A n \in DOMAIN outbox : outbox[n].kind = "apply" =>
          item'[outbox[n].source] \in {"applying", "cancelled"}
    BY <1>1, <1>4, <2>2 DEF AppliesLast
  <2>4. \A t \in Sources : item'[t] # "none" => item[t] # "none" \/ creation'[t] # {}
    BY <1>2, <1>3, <1>4
  <2>5. j.kind \notin {"promote", "override", "apply"}
    OBVIOUS
  <2> HIDE DEF j
  <2> QED
    BY <1>1, <1>3, <2>1, <2>3, <2>4, <2>5, AppliesAppended
<1>6. ASSUME NEW b \in Annotations PROVE FileFollows(b)'
  <2>1. CASE b = a
    <3>1. Writes(j, b) /\ j.kind = "cancel"
      BY <2>1 DEF Writes
    <3> HIDE DEF j
    <3> QED
      BY <1>3, <3>1, FileWritten
  <2>2. CASE b # a
    <3>1. ~Writes(j, b)
      BY <2>2 DEF Writes
    <3>2. \A r \in Replies : Parent[r] = b => r # s
      BY <2>2 DEF AnnotationOf
    <3>3. /\ status'[b] = status[b] /\ file'[b] = file[b]
          /\ \A r \in Replies : Parent[r] = b /\ item[r] = "completed" => item'[r] = "completed"
      BY <1>3, <1>4, <3>2 DEF repo, Sources
    <3> HIDE DEF j
    <3> QED
      BY <1>1, <1>3, <3>1, <3>3, FileKept
  <2> QED
    BY <2>1, <2>2
<1>7. ASSUME NEW t \in Sources PROVE ItemFollows(t)'
  <2>1. CASE t = s
    <3>1. j.kind = "cancel" /\ j.source = AnnotationOf(t) /\ item'[t] = "cancelled"
      BY <1>4, <2>1
    <3> HIDE DEF j
    <3> QED
      BY <1>3, <3>1, ItemWritten
  <2>2. CASE t # s
    <3>1. AnnotationOf(t) \in Annotations
      BY Threads DEF AnnotationOf, Sources
    <3>2. /\ item'[t] = item[t] /\ itemFile'[t] = itemFile[t]
          /\ \/ cancelRow'[AnnotationOf(t)] = cancelRow[AnnotationOf(t)]
             \/ cancelRow'[AnnotationOf(t)] # t
      BY <1>3, <1>4, <2>2, <3>1 DEF repo
    <3> HIDE DEF j
    <3> QED
      BY <1>1, <1>3, <3>2, ItemKept
  <2> QED
    BY <2>1, <2>2
<1> QED
  BY <1>5, <1>6, <1>7 DEF QueueInv
LEMMA WithdrawFollows ==
    ASSUME TypeOK, QueueInv, NEW p \in Processes, WithdrawBatch(p)
    PROVE  QueueInv'
<1> DEFINE j == [kind |-> "withdraw", source |-> req[p].source]
<1>1. /\ AppliesLast /\ \A a \in Annotations : FileFollows(a)
      /\ \A t \in Sources : ItemFollows(t)
  BY DEF QueueInv
<1>2. Enqueue(j) /\ UNCHANGED <<creation, status, item, cancelRow, file, itemFile>>
  BY DEF WithdrawBatch, repo
<1>3. AppliesLast'
  <2>1. \A q \in Processes : req'[q].op = "cancel" => req'[q] = req[q]
    BY Forgotten DEF WithdrawBatch
  <2>2. j.kind \notin {"promote", "override", "apply"}
    OBVIOUS
  <2>3. \A n \in DOMAIN outbox : outbox[n].kind = "apply" =>
          item[outbox[n].source] \in {"applying", "cancelled"}
    BY <1>1 DEF AppliesLast
  <2> HIDE DEF j
  <2> QED
    BY <1>1, <1>2, <2>1, <2>2, <2>3, AppliesAppended
<1>4. ASSUME NEW a \in Annotations PROVE FileFollows(a)'
  <2>1. j.kind = "withdraw"
    OBVIOUS
  <2> HIDE DEF j
  <2> QED
    BY <1>1, <1>2, <2>1, FileWritten, FileKept
<1>5. ASSUME NEW t \in Sources PROVE ItemFollows(t)'
  <2> HIDE DEF j
  <2> QED
    BY <1>1, <1>2, ItemKept
<1> QED
  BY <1>3, <1>4, <1>5 DEF QueueInv

LEMMA SubmitFollows ==
    ASSUME TypeOK, QueueInv, NEW s \in Sources, Submit(s)
    PROVE  QueueInv'
<1> DEFINE j == [kind |-> "apply", source |-> s]
<1>1. /\ AppliesLast /\ \A a \in Annotations : FileFollows(a)
      /\ \A t \in Sources : ItemFollows(t)
  BY DEF QueueInv
<1>2. /\ Enqueue(j) /\ UNCHANGED <<creation, status, cancelRow, req, file, itemFile>>
      /\ item[s] = "ready" /\ item' = [item EXCEPT ![s] = "applying"]
  BY DEF Submit, repo
<1>3. item'[s] = "applying" /\ \A t \in Sources \ {s} : item'[t] = item[t]
  BY <1>2 DEF TypeOK
<1>4. creation[s] # {}
  BY <1>1, <1>2 DEF AppliesLast
<1>5. AppliesLast'
  <2>1. \A n \in DOMAIN outbox : outbox[n].source \in Sources
    BY DEF TypeOK, Jobs, Sources
  <2>2. \A n \in DOMAIN outbox : outbox[n].kind = "apply" =>
          /\ item'[outbox[n].source] \in {"applying", "cancelled"}
          /\ j.source # outbox[n].source
    BY <1>1, <1>2, <1>3, <2>1 DEF AppliesLast
  <2>3. \A t \in Sources : item'[t] # "none" => item[t] # "none" \/ creation'[t] # {}
    BY <1>2, <1>3
  <2>4. j.source = s
    OBVIOUS
  <2> HIDE DEF j
  <2> QED
    BY <1>1, <1>2, <1>3, <1>4, <2>2, <2>3, <2>4, AppliesAppended
<1>6. ASSUME NEW a \in Annotations PROVE FileFollows(a)'
  <2>1. ~Writes(j, a)
    BY DEF Writes
  <2>2. \A r \in Replies : Parent[r] = a /\ item[r] = "completed" => item'[r] = "completed"
    BY <1>2, <1>3 DEF Sources
  <2> HIDE DEF j
  <2> QED
    BY <1>1, <1>2, <2>1, <2>2, FileKept
<1>7. ASSUME NEW t \in Sources PROVE ItemFollows(t)'
  <2>1. j.kind = "apply" /\ j.source = s
    OBVIOUS
  <2> HIDE DEF j
  <2> QED
    BY <1>1, <1>2, <1>3, <2>1, ItemWritten, ItemKept
<1> QED
  BY <1>5, <1>6, <1>7 DEF QueueInv

\* Each job leaves the artifacts it writes as the rows say, or another job after it.
LEMMA DrainFollows ==
    ASSUME TypeOK, QueueInv, Drain
    PROVE  QueueInv'
<1> DEFINE h == Head(outbox)
           s == Head(outbox).source
<1>1. /\ AppliesLast /\ \A a \in Annotations : FileFollows(a)
      /\ \A t \in Sources : ItemFollows(t)
  BY DEF QueueInv
<1>2. PICK k : Drains(k)
  BY DEF Drain, DrainPromote, DrainOverride, DrainCancel, DrainWithdraw, DrainApply
<1>3. /\ h.kind = k /\ h \in Jobs /\ s \in Sources
      /\ UNCHANGED <<creation, cancelRow, req>>
  BY <1>2, DrainTyped DEF Drains
<1>4. CASE DrainPromote
  <2>1. /\ k = "promote" /\ status' = status /\ item' = item
        /\ \A a \in Annotations : file'[a] = IF a = s THEN "work_item_created" ELSE file[a]
        /\ \A t \in Sources : itemFile'[t] = IF t = s THEN item[t] ELSE itemFile[t]
    BY <1>3, <1>4 DEF DrainPromote, Drains, TypeOK, Sources
  <2>2. AppliesLast'
    BY <1>1, <1>2, <2>1, AppliesDrained
  <2>3. \A a \in Annotations : FileFollows(a)'
    BY <1>1, <1>2, <1>3, <2>1, FileDrained DEF Writes, Agrees, FileFollows, Excused
  <2>4. \A t \in Sources : ItemFollows(t)'
    BY <1>1, <1>2, <1>3, <2>1, ItemDrained
  <2> QED
    BY <2>2, <2>3, <2>4 DEF QueueInv
<1>5. CASE DrainOverride
  <2>1. /\ k = "override" /\ status' = status /\ item' = item /\ itemFile' = itemFile
        /\ \A a \in Annotations : file'[a] = IF a = s THEN h.shows ELSE file[a]
    BY <1>3, <1>5 DEF DrainOverride, Drains, TypeOK, Sources
  <2>2. AppliesLast'
    BY <1>1, <1>2, <2>1, AppliesDrained
  <2>3. \A a \in Annotations : FileFollows(a)'
    BY <1>1, <1>2, <1>3, <2>1, FileDrained DEF Writes, Agrees, FileFollows, Excused
  <2>4. \A t \in Sources : ItemFollows(t)'
    BY <1>1, <1>2, <1>3, <2>1, ItemDrained
  <2> QED
    BY <2>2, <2>3, <2>4 DEF QueueInv
<1>6. CASE DrainCancel
  <2>1. /\ k = "cancel" /\ status' = status /\ item' = item
        /\ file' = [file EXCEPT ![s] = status[s]]
        /\ itemFile' = [itemFile EXCEPT ![cancelRow[s]] = item[cancelRow[s]]]
    BY <1>3, <1>6 DEF DrainCancel, Drains
  <2>2. /\ \A a \in Annotations : file'[a] = IF a = s THEN status[a] ELSE file[a]
        /\ \A t \in Sources : itemFile'[t] = IF t = cancelRow[s] THEN item[t] ELSE itemFile[t]
    BY <1>3, <2>1 DEF TypeOK, Sources
  <2>3. AppliesLast'
    BY <1>1, <1>2, <2>1, AppliesDrained
  <2>4. \A a \in Annotations : FileFollows(a)'
    BY <1>1, <1>2, <1>3, <2>1, <2>2, FileDrained DEF Writes, FileFollows, Excused
  <2>5. \A t \in Sources : ItemFollows(t)'
    BY <1>1, <1>2, <1>3, <2>1, <2>2, ItemDrained
  <2> QED
    BY <2>3, <2>4, <2>5 DEF QueueInv
<1>7. CASE DrainWithdraw
  <2>1. /\ k = "withdraw" /\ item' = item /\ itemFile' = itemFile
        /\ \A a \in Annotations : /\ file'[a] = IF a = s THEN "withdrawn" ELSE file[a]
                                  /\ status'[a] = IF a = s THEN "withdrawn" ELSE status[a]
    BY <1>3, <1>7 DEF DrainWithdraw, Drains, TypeOK, Sources
  <2>2. AppliesLast'
    BY <1>1, <1>2, <2>1, AppliesDrained
  <2>3. \A a \in Annotations : FileFollows(a)'
    BY <1>1, <1>2, <1>3, <2>1, FileDrained DEF Writes, FileFollows, Excused
  <2>4. \A t \in Sources : ItemFollows(t)'
    BY <1>1, <1>2, <1>3, <2>1, ItemDrained
  <2> QED
    BY <2>2, <2>3, <2>4 DEF QueueInv
<1>8. ASSUME NEW applied \in BOOLEAN, DrainApply(applied)
      PROVE  QueueInv'
  <2> DEFINE result == IF applied THEN "completed" ELSE "conflict"
  <2>1. /\ k = "apply"
        /\ item' = [item EXCEPT ![s] = result] /\ itemFile' = [itemFile EXCEPT ![s] = result]
        /\ file' = IF applied THEN [file EXCEPT ![AnnotationOf(s)] = "accepted"] ELSE file
        /\ status' = IF applied /\ s \in Annotations
                     THEN [status EXCEPT ![s] = "accepted"] ELSE status
    BY <1>3, <1>8 DEF DrainApply, Drains
  <2>2. /\ \A t \in Sources \ {s} : item'[t] = item[t] /\ itemFile'[t] = itemFile[t]
        /\ item'[s] = result /\ itemFile'[s] = result
    BY <1>3, <2>1 DEF TypeOK
  <2>3. AppliesLast'
    BY <1>1, <1>2, <1>3, <2>1, <2>2, AppliesDrained
  <2>4. \A t \in Sources : ItemFollows(t)'
    BY <1>1, <1>2, <1>3, <2>1, <2>2, ItemDrained
  <2>5. ASSUME NEW a \in Annotations PROVE FileFollows(a)'
    <3>1. CASE applied /\ a = s
      \* Nothing decided earlier of this suggestion is left in the queue.
      <4>1. /\ 1 \in DOMAIN outbox /\ outbox[1] = h
            /\ \A n \in DOMAIN outbox' : /\ n \in Nat \ {0} /\ n + 1 \in DOMAIN outbox
                                         /\ outbox'[n] = outbox[n + 1]
        BY <1>2, Drained
      <4>2. ASSUME NEW n \in DOMAIN outbox', Writes(outbox'[n], a)
            PROVE  outbox'[n].kind \in {"cancel", "withdraw"}
        <5>1. n + 1 \in DOMAIN outbox /\ n + 1 > 1 /\ outbox'[n] = outbox[n + 1]
          BY <4>1
        <5> QED
          BY <1>1, <1>3, <2>1, <3>1, <4>1, <4>2, <5>1 DEF AppliesLast, Writes
      <4>3. file'[a] = "accepted" /\ status'[a] = "accepted"
        BY <2>1, <3>1, Threads DEF TypeOK, AnnotationOf, Sources
      <4> QED
        BY <4>2, <4>3 DEF FileFollows, Agrees, Writes
    <3>2. CASE applied /\ a # s /\ a = AnnotationOf(s)
      <4>1. s \in Replies /\ Parent[s] = a /\ item'[s] = "completed"
        BY <2>2, <3>2 DEF AnnotationOf
      <4> QED
        BY <4>1 DEF FileFollows, Excused
    <3>3. CASE ~applied \/ (a # s /\ a # AnnotationOf(s))
      <4>1. status'[a] = status[a] /\ file'[a] = file[a] /\ ~Writes(h, a)
        BY <1>3, <2>1, <3>3 DEF Writes, TypeOK, Sources
      <4>2. item[s] # "completed"
        BY <1>1, <1>2, <1>3, <2>1, Drained DEF AppliesLast
      <4>3. Excused(a) => Excused(a)'
        BY <2>2, <4>1, <4>2 DEF Excused, Sources
      <4> QED
        BY <1>1, <1>2, <4>1, <4>3, FileDrained DEF FileFollows
    <3> QED
      BY <3>1, <3>2, <3>3
  <2> QED
    BY <2>3, <2>4, <2>5 DEF QueueInv
<1> QED
  BY <1>4, <1>5, <1>6, <1>7, <1>8 DEF Drain
LEMMA QueueStep == Inv /\ QueueInv /\ [Next]_vars => QueueInv'
<1> SUFFICES ASSUME Inv, QueueInv, [Next]_vars PROVE QueueInv'
  OBVIOUS
<1>1. TypeOK /\ AppliesLast /\ serving \subseteq Processes /\ Isolates \subseteq Processes
  BY DEF Inv, QueueInv, TypeOK, Processes
<1>2. ASSUME NEW p \in Processes, Command(p) \/ \E s \in Sources : WithdrawRead(p, s)
      PROVE  QueueInv'
  <2>1. UNCHANGED <<status, creation, item, cancelRow, outbox, repo>>
    BY <1>2 DEF Command, VoteRead, OverrideRead, ForceRead, CancelRead, WithdrawRead, Begin, db
  <2>2. \A q \in Processes : req'[q].op = "cancel" =>
          req'[q] = req[q] \/ creation[req'[q].source] # {}
    <3>1. CASE \E s \in Sources : CancelRead(p, s)
      <4>1. PICK s \in Sources : CancelRead(p, s)
        BY <3>1
      <4>2. creation[s] # {}
        BY <1>1, <4>1 DEF CancelRead, AppliesLast
      <4>3. req'[p].source = s /\ \A q \in Processes \ {p} : req'[q] = req[q]
        BY <1>1, <4>1 DEF CancelRead, Begin, TypeOK
      <4> QED
        BY <4>2, <4>3
    <3>2. CASE ~\E s \in Sources : CancelRead(p, s)
      <4>1. PICK r : r.op # "cancel" /\ Begin(p, r)
        BY <1>2, <3>2 DEF Command, VoteRead, OverrideRead, ForceRead, WithdrawRead
      <4> QED
        BY <1>1, <4>1 DEF Begin, TypeOK
    <3> QED
      BY <3>1, <3>2
  <2> QED
    BY <2>1, <2>2, QueueKept
<1>3. ASSUME NEW p \in Processes, Batch(p) PROVE QueueInv'
  <2>1. Finish(p)
    BY <1>3 DEF Batch, VoteBatch, ForceBatch, OverrideBatch, CancelBatch, WithdrawBatch, Abort
  <2>2. \A q \in Processes : req'[q].op = "cancel" => req'[q] = req[q]
    BY <1>1, <2>1, Forgotten
  <2>3. CASE VoteBatch(p) \/ ForceBatch(p)
    <3>1. req[p].source \in Sources
      BY <1>1, <2>3, RequestOf DEF VoteBatch, ForceBatch, VoteReq, Sources
    <3>2. CASE ForceBatch(p) \/ req[p].crosses
      <4>1. /\ Promotes(req[p].source)
            /\ Promote(req[p].source, "rule") \/ Promote(req[p].source, "forced")
            /\ UNCHANGED <<cancelRow, repo>>
        BY <2>3, <3>2 DEF VoteBatch, ForceBatch, VoteCommits
      <4> QED
        BY <1>1, <2>2, <3>1, <4>1, PromoteFollows
    <3>3. CASE VoteBatch(p) /\ ~req[p].crosses
      BY <2>2, <3>3, QueueKept DEF VoteBatch
    <3> QED
      BY <2>3, <3>2, <3>3
  <2>4. CASE Abort(p)
    BY <2>2, <2>4, QueueKept DEF Abort, db
  <2> QED
    BY <1>1, <1>3, <2>3, <2>4, OverrideFollows, CancelFollows, WithdrawFollows DEF Batch
<1>4. CASE UNCHANGED vars
  BY <1>4, QueueKept DEF vars, repo
<1> QED
  BY <1>1, <1>2, <1>3, <1>4, SubmitFollows, DrainFollows DEF Next, Processes

LEMMA QueueInvariance == Spec => []QueueInv
<1>1. Init => QueueInv
  BY QueueInit
<1>2. Inv /\ QueueInv /\ [Next]_vars => QueueInv'
  BY QueueStep
<1> QED
  BY <1>1, <1>2, Invariance, PTL DEF Spec

\* Whenever the queue has drained, the repository says of every suggestion and of
\* every work item what its row says, but for the cases GitFollowsRow names.
THEOREM RepositoryFollows == Spec => []GitFollowsRow
<1>1. QueueInv => GitFollowsRow
  <2> SUFFICES ASSUME QueueInv, outbox = <<>> PROVE GitFollowsRow
    BY DEF GitFollowsRow, Quiet
  <2>1. DOMAIN outbox = {}
    OBVIOUS
  <2>2. \A a \in Annotations : file[a] = status[a] \/ Excused(a)
    BY <2>1 DEF QueueInv, FileFollows
  <2>3. \A s \in Sources : \/ itemFile[s] = item[s]
                           \/ item[s] = "cancelled" /\ cancelRow[AnnotationOf(s)] # s
    BY <2>1 DEF QueueInv, ItemFollows
  <2> QED
    BY <2>2, <2>3 DEF GitFollowsRow, Excused
<1> QED
  BY <1>1, QueueInvariance, PTL
-----------------------------------------------------------------------------
(* While one isolate serves: the votes decide.                             *)

\* Only an isolate that serves is deciding something.
Deciders == \A p \in Processes : req[p].op \in {"vote", "force", "override", "cancel"}
                                 => p \in serving

\* The mark belongs to the rule's decisions.
MarksOfRule == \A a \in Annotations : "rule" \notin creation[a] => ~marked[a]

\* An undecided suggestion, a rejected one too, does not satisfy the rule: nobody
\* votes on a rejected one, and it is reopened as it was.
UndecidedUnmet == \A a \in Annotations :
    /\ status[a] \in {"open", "rejected"} => ~Satisfied(vote[a])
    /\ "rule" \in creation[a] => marked[a] = ~Satisfied(vote[a])

\* What a vote in progress has worked out still holds.
Tallied(r) == Satisfied([vote[r.source] EXCEPT ![r.voter] = r.value])
VoteInHand == \A p \in Processes : req[p].op = "vote" =>
    /\ req[p].crosses => Tallied(req[p])
    /\ ~req[p].crosses /\ Tallied(req[p]) => status[req[p].source] \notin {"open", "rejected"}
    /\ req[p].mark = MarkChange(req[p].source, Tallied(req[p]))

VoteInv == Deciders /\ (Lone => MarksOfRule /\ UndecidedUnmet /\ VoteInHand)

\* A rule that silence does not satisfy.
Selective == ~Satisfied([v \in Voters |-> "none"])

LEMMA VoteInit == Selective /\ Init => VoteInv
BY DEF Init, VoteInv, Deciders, MarksOfRule, UndecidedUnmet, VoteInHand, Selective, Idle, Sources
LEMMA SatisfiedOrNot == \A votes : Satisfied(votes) \in BOOLEAN
BY DEF Satisfied

\* With one isolate there is one decider at a time.
LEMMA OneDecider ==
    ASSUME Deciders, Lone, NEW p \in Processes, NEW q \in Processes,
           req[p].op \in {"vote", "force", "override", "cancel"},
           req[q].op \in {"vote", "force", "override", "cancel"}
    PROVE  p = q
BY DEF Deciders, Lone

\* A step that tallies nothing and leaves the undecided as they are.
LEMMA VoteKept ==
    ASSUME TypeOK, VoteInv, UNCHANGED <<serving, vote, creation, marked>>,
           \A a \in Annotations : status'[a] \in {"open", "rejected"} => status'[a] = status[a],
           \A q \in Processes : \/ req'[q] = req[q]
                                \/ /\ req'[q].op # "vote"
                                   /\ req'[q].op \in {"idle", "withdraw"} \/ q \in serving
    PROVE  VoteInv'
<1>1. Deciders'
  BY DEF VoteInv, Deciders
<1>2. ASSUME Lone' PROVE MarksOfRule' /\ UndecidedUnmet' /\ VoteInHand'
  <2>1. MarksOfRule /\ UndecidedUnmet /\ VoteInHand
    BY <1>2 DEF Lone, VoteInv
  <2>2. MarksOfRule' /\ UndecidedUnmet'
    BY <2>1 DEF MarksOfRule, UndecidedUnmet
  <2>3. VoteInHand'
    <3> SUFFICES ASSUME NEW q \in Processes, req'[q].op = "vote"
                 PROVE  /\ req'[q].crosses => Tallied(req[q])'
                        /\ ~req'[q].crosses /\ Tallied(req[q])'
                             => status'[req'[q].source] \notin {"open", "rejected"}
                        /\ req'[q].mark = MarkChange(req[q].source, Tallied(req[q]))'
      BY DEF VoteInHand
    <3>1. req'[q] = req[q] /\ req[q].source \in Annotations
      BY RequestOf DEF VoteReq
    <3>2. Tallied(req[q])' = Tallied(req[q])
      BY <3>1 DEF Tallied
    <3>3. MarkChange(req[q].source, Tallied(req[q]))' = MarkChange(req[q].source, Tallied(req[q]))
      BY <3>1, <3>2 DEF MarkChange
    <3> QED
      BY <2>1, <3>1, <3>2, <3>3 DEF VoteInHand
  <2> QED
    BY <2>2, <2>3
<1> QED
  BY <1>1, <1>2 DEF VoteInv

\* A vote's read works out what the batch will do.
LEMMA VoteReadTallies ==
    ASSUME Inv, VoteInv, NEW p \in serving, NEW a \in Annotations, NEW v \in Voters,
           NEW x \in Casts[v] \cup {"none"}, VoteRead(p, a, v, x)
    PROVE  VoteInv'
<1> DEFINE sat == Satisfied([vote[a] EXCEPT ![v] = x])
<1>1. /\ p \in Processes /\ TypeOK
      /\ UNCHANGED <<serving, status, vote, creation, marked>>
  BY DEF VoteRead, Begin, db, Inv, TypeOK, Processes
<1>2. /\ req'[p].op = "vote" /\ req'[p].source = a /\ req'[p].voter = v /\ req'[p].value = x
      /\ req'[p].crosses = (sat /\ status[a] = "open" /\ creation[a] = {})
      /\ req'[p].mark = MarkChange(a, sat)
      /\ \A q \in Processes \ {p} : req'[q] = req[q]
  BY <1>1 DEF VoteRead, Begin, TypeOK
<1>3. status[a] \in {"open", "work_item_created"} /\ (creation[a] # {} => status[a] # "open")
  BY DEF VoteRead, Votable, Inv, DecidedStays
<1>4. Deciders'
  BY <1>1, <1>2 DEF VoteInv, Deciders
<1>5. ASSUME Lone' PROVE MarksOfRule' /\ UndecidedUnmet' /\ VoteInHand'
  <2>1. MarksOfRule /\ UndecidedUnmet /\ VoteInHand
    BY <1>1, <1>5 DEF Lone, VoteInv
  <2>2. MarksOfRule' /\ UndecidedUnmet'
    BY <1>1, <2>1 DEF MarksOfRule, UndecidedUnmet
  <2>3. Tallied(req[p])' = sat
    BY <1>1, <1>2 DEF Tallied
  <2>4. MarkChange(req[p].source, Tallied(req[p]))' = MarkChange(a, sat)
    BY <1>1, <1>2, <2>3 DEF MarkChange
  <2>5. ASSUME NEW q \in Processes, req'[q].op = "vote"
        PROVE  /\ req'[q].crosses => Tallied(req[q])'
               /\ ~req'[q].crosses /\ Tallied(req[q])'
                    => status'[req'[q].source] \notin {"open", "rejected"}
               /\ req'[q].mark = MarkChange(req[q].source, Tallied(req[q]))'
    <3>1. CASE q = p
      BY <1>1, <1>2, <1>3, <2>3, <2>4, <3>1
    <3>2. CASE q # p
      <4>1. req'[q] = req[q] /\ q \in serving /\ req[q].op = "vote"
        BY <1>2, <2>5, <3>2 DEF VoteInv, Deciders
      <4>2. p = q
        BY <1>1, <1>5, <4>1 DEF Lone
      <4> QED
        BY <3>2, <4>2
    <3> QED
      BY <3>1, <3>2
  <2> QED
    BY <2>2, <2>5 DEF VoteInHand
<1> QED
  BY <1>4, <1>5 DEF VoteInv
\* A batch of a decider, when it is the only one: nothing stays in hand.
LEMMA NoneInHand ==
    ASSUME TypeOK, VoteInv, Lone, NEW p \in Processes, Finish(p),
           req[p].op \in {"vote", "force", "override"}
    PROVE  VoteInHand'
<1>1. req'[p] = Idle /\ \A q \in Processes \ {p} : req'[q] = req[q]
  BY DEF Finish, TypeOK
<1>2. \A q \in Processes : req'[q].op # "vote"
  BY <1>1, OneDecider DEF VoteInv, Idle
<1> QED
  BY <1>2 DEF VoteInHand

LEMMA VoteBatchDecides ==
    ASSUME Inv, VoteInv, NEW p \in Processes, VoteBatch(p)
    PROVE  VoteInv'
<1> DEFINE r == req[p]
           a == req[p].source
<1>1. TypeOK /\ Finish(p) /\ r.op = "vote" /\ serving' = serving
  BY DEF Inv, VoteBatch
<1>2. r \in VoteReq /\ a \in Annotations /\ a \in Sources
  BY <1>1, RequestOf DEF VoteReq, Sources
<1>3. /\ \A b \in Annotations : vote'[b] = IF b = a THEN [vote[a] EXCEPT ![r.voter] = r.value]
                                           ELSE vote[b]
      /\ \A b \in Annotations : marked'[b] = IF b = a /\ r.mark # "keep" THEN r.mark = "set"
                                             ELSE marked[b]
  BY <1>1, <1>2 DEF VoteBatch, TypeOK
<1>4. Satisfied(vote'[a]) = Tallied(r)
  BY <1>2, <1>3 DEF Tallied
<1>5. CASE r.crosses
  <2>1. Promotes(a) /\ Promote(a, "rule") /\ creation[a] = {}
    BY <1>1, <1>5 DEF VoteBatch, VoteCommits, Promotes, IndexFree
  <2>2. \A b \in Annotations : /\ b # a => status'[b] = status[b] /\ creation'[b] = creation[b]
                               /\ b = a => status'[b] = "work_item_created" /\ creation'[b] = {"rule"}
    BY <1>1, <1>2, <2>1 DEF Promote, TypeOK, Sources
  <2>3. ASSUME Lone PROVE MarksOfRule' /\ UndecidedUnmet'
    <3>1. Tallied(r) /\ r.mark = MarkChange(a, Tallied(r)) /\ MarksOfRule /\ UndecidedUnmet
      BY <1>1, <1>5, <2>3 DEF VoteInv, VoteInHand
    <3>2. marked'[a] = marked[a]
      BY <1>2, <1>3, <2>1, <3>1 DEF MarkChange
    <3>3. marked'[a] = FALSE /\ Satisfied(vote'[a]) = TRUE
      BY <1>1, <1>2, <1>4, <2>1, <3>1, <3>2, SatisfiedOrNot DEF TypeOK, MarksOfRule
    <3> QED
      BY <1>3, <2>2, <3>1, <3>3 DEF UndecidedUnmet, MarksOfRule
  <2> QED
    BY <1>1, <2>3, NoneInHand DEF VoteInv, Deciders, Lone, Finish, TypeOK, Idle
<1>6. CASE ~r.crosses
  <2>1. UNCHANGED <<status, creation>>
    BY <1>6 DEF VoteBatch
  <2>2. ASSUME Lone PROVE MarksOfRule' /\ UndecidedUnmet'
    <3>1. /\ r.mark = MarkChange(a, Tallied(r)) /\ MarksOfRule /\ UndecidedUnmet
          /\ Tallied(r) => status[a] \notin {"open", "rejected"}
      BY <1>1, <1>6, <2>2 DEF VoteInv, VoteInHand
    <3>2. marked[a] \in BOOLEAN /\ Tallied(r) \in BOOLEAN
      BY <1>1, <1>2, SatisfiedOrNot DEF TypeOK, Tallied
    <3>3. CASE "rule" \in creation[a]
      <4>1. marked'[a] = ~Tallied(r)
        <5>1. CASE Tallied(r) = TRUE
          BY <1>2, <1>3, <3>1, <3>2, <3>3, <5>1 DEF MarkChange
        <5>2. CASE Tallied(r) = FALSE
          BY <1>2, <1>3, <3>1, <3>2, <3>3, <5>2 DEF MarkChange
        <5> QED
          BY <3>2, <5>1, <5>2
      <4> QED
        BY <1>3, <1>4, <2>1, <3>1, <3>3, <4>1 DEF UndecidedUnmet, MarksOfRule
    <3>4. CASE "rule" \notin creation[a]
      <4>1. marked'[a] = marked[a]
        BY <1>2, <1>3, <3>1, <3>4 DEF MarkChange
      <4> QED
        BY <1>3, <1>4, <2>1, <3>1, <3>4, <4>1 DEF UndecidedUnmet, MarksOfRule
    <3> QED
      BY <3>3, <3>4
  <2> QED
    BY <1>1, <2>2, NoneInHand DEF VoteInv, Deciders, Lone, Finish, TypeOK, Idle
<1> QED
  BY <1>5, <1>6
\* A forced creation is not the rule's, and what it decided is no longer undecided.
LEMMA ForceDecides ==
    ASSUME Inv, VoteInv, NEW p \in Processes, ForceBatch(p)
    PROVE  VoteInv'
<1> DEFINE a == req[p].source
<1>1. /\ TypeOK /\ Finish(p) /\ req[p].op = "force" /\ a \in Sources
      /\ UNCHANGED <<serving, vote, marked>>
  BY RequestOf DEF Inv, ForceBatch
<1>2. Promotes(a) /\ Promote(a, "forced") /\ creation[a] = {}
  BY DEF ForceBatch, Promotes, IndexFree
<1>3. \A b \in Annotations : /\ b # a => status'[b] = status[b] /\ creation'[b] = creation[b]
                             /\ b = a => status'[b] = "work_item_created" /\ creation'[b] = {"forced"}
  BY <1>1, <1>2 DEF Promote, TypeOK, Sources
<1>4. Lone => MarksOfRule' /\ UndecidedUnmet'
  BY <1>1, <1>2, <1>3 DEF VoteInv, MarksOfRule, UndecidedUnmet
<1> QED
  BY <1>1, <1>4, NoneInHand DEF VoteInv, Deciders, Lone, Finish, TypeOK, Idle

\* A rejected suggestion is reopened with the votes it was rejected with.
LEMMA OverrideDecides ==
    ASSUME Inv, VoteInv, NEW p \in Processes, OverrideBatch(p)
    PROVE  VoteInv'
<1>1. /\ TypeOK /\ Finish(p) /\ req[p].op = "override"
      /\ UNCHANGED <<serving, vote, creation, marked>>
      /\ status' = [status EXCEPT ![req[p].source] = req[p].to]
  BY DEF Inv, OverrideBatch
<1>2. req[p] \in OverrideReq /\ status[req[p].source] \in {"open", "rejected"}
  BY <1>1, RequestOf DEF OverrideBatch, OverrideCommits, OverrideReq
<1>3. \A a \in Annotations : status'[a] = status[a] \/ status[a] \in {"open", "rejected"}
  BY <1>1, <1>2 DEF TypeOK, Sources
<1>4. Lone => MarksOfRule' /\ UndecidedUnmet'
  BY <1>1, <1>3 DEF VoteInv, MarksOfRule, UndecidedUnmet
<1> QED
  BY <1>1, <1>4, NoneInHand DEF VoteInv, Deciders, Lone, Finish, TypeOK, Idle

LEMMA VoteStep == Inv /\ VoteInv /\ [Next]_vars => VoteInv'
<1> SUFFICES ASSUME Inv, VoteInv, [Next]_vars PROVE VoteInv'
  OBVIOUS
<1>1. TypeOK /\ serving \subseteq Processes /\ Isolates \subseteq Processes
  BY DEF Inv, TypeOK, Processes
<1>2. ASSUME NEW p \in Processes, p \in serving,
             \/ \E a \in Annotations : \/ OverrideRead(p, a, "open", "rejected")
                                       \/ OverrideRead(p, a, "rejected", "open")
             \/ \E s \in Sources : ForceRead(p, s) \/ CancelRead(p, s)
      PROVE  VoteInv'
  <2>1. PICK r : r.op # "vote" /\ Begin(p, r)
    BY <1>2 DEF OverrideRead, ForceRead, CancelRead
  <2> QED
    BY <1>1, <1>2, <2>1, VoteKept DEF Begin, db, TypeOK
<1>3. ASSUME NEW p \in Processes, NEW s \in Sources, WithdrawRead(p, s)
      PROVE  VoteInv'
  <2>1. Begin(p, [op |-> "withdraw", source |-> s])
    BY <1>3 DEF WithdrawRead
  <2>2. /\ UNCHANGED <<serving, vote, creation, marked, status>>
        /\ \A q \in Processes : req'[q] = req[q] \/ req'[q].op = "withdraw"
    BY <1>1, <2>1 DEF Begin, db, TypeOK
  <2> QED
    BY <1>1, <2>2, VoteKept
<1>4. ASSUME NEW p \in Processes, CancelBatch(p) \/ WithdrawBatch(p) \/ Abort(p)
      PROVE  VoteInv'
  <2>1. UNCHANGED <<serving, vote, creation, marked, status>> /\ Finish(p)
    BY <1>4 DEF CancelBatch, WithdrawBatch, Abort, db
  <2>2. \A q \in Processes : req'[q] = req[q] \/ req'[q].op = "idle"
    BY <1>1, <2>1 DEF Finish, TypeOK, Idle
  <2> QED
    BY <1>1, <2>1, <2>2, VoteKept
<1>5. CASE Drain
  <2>1. UNCHANGED <<serving, vote, creation, marked, req>>
    BY <1>5 DEF Drain, Drains, DrainPromote, DrainOverride, DrainCancel, DrainWithdraw, DrainApply
  <2>2. \A a \in Annotations : status'[a] \in {"open", "rejected"} => status'[a] = status[a]
    BY <1>1, <1>5 DEF Drain, DrainPromote, DrainOverride, DrainCancel, DrainWithdraw,
                      DrainApply, TypeOK, Sources
  <2> QED
    BY <1>1, <2>1, <2>2, VoteKept
<1>6. ASSUME NEW s \in Sources, Submit(s) PROVE VoteInv'
  BY <1>1, <1>6, VoteKept DEF Submit
<1>7. CASE UNCHANGED vars
  BY <1>1, <1>7, VoteKept DEF vars
<1>8. ASSUME NEW p \in Processes, Batch(p) PROVE VoteInv'
  BY <1>4, <1>8, VoteBatchDecides, ForceDecides, OverrideDecides DEF Batch
<1>9. ASSUME NEW p \in serving, Command(p) PROVE VoteInv'
  BY <1>1, <1>2, <1>9, VoteReadTallies DEF Command
<1> QED
  BY <1>1, <1>3, <1>5, <1>6, <1>7, <1>8, <1>9 DEF Next, Processes

\* While one isolate serves, and for a rule that silence does not satisfy, the vote
\* that makes the rule hold decides the suggestion there and then, and a decision of
\* the rule's is marked exactly while its support is gone.
THEOREM TheVotesDecide == ASSUME Selective PROVE Spec => []VotesDecide
<1>1. Init => VoteInv
  BY VoteInit
<1>2. Inv /\ VoteInv /\ [Next]_vars => VoteInv'
  BY VoteStep
<1>3. VoteInv => VotesDecide
  BY DEF VoteInv, UndecidedUnmet, VotesDecide
<1> QED
  BY <1>1, <1>2, <1>3, Invariance, PTL DEF Spec
=============================================================================
