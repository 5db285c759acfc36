------------------------------ MODULE Decisions ------------------------------
(***************************************************************************)
(* Governance of suggestions: votes and the rule that turns a suggestion   *)
(* into a work item, maintainers' overrides (force-create from a           *)
(* suggestion or from one reply, reject, reopen, cancel), withdrawal, and  *)
(* the outbox jobs that mirror all of it into the Git repository.          *)
(*                                                                         *)
(* As in Leases, a command is a ...Read step that records what it saw in   *)
(* req[p] and a ...Batch step that re-checks what the batch re-checks.  A  *)
(* batch whose compare-and-swap or unique index fails changes nothing      *)
(* (Abort); the handler's retries are new commands.                        *)
(*                                                                         *)
(* The rule is one threshold rule of one version.  The outbox is drained   *)
(* in order and every job succeeds: how it fails is GitOutbox's subject.   *)
(***************************************************************************)
EXTENDS Integers, Sequences, FiniteSets

CONSTANTS
    Annotations,  \* suggestions of one project, committed and open at first
    Replies,      \* replies to them, committed and open at first
    Parent,       \* the annotation a reply belongs to
    Voters, Humans, Maintainers,
    Casts,        \* the values a voter may cast
    MinApprovals, MinNet, MinHuman, MinMaintainer,  \* the rule's thresholds
    Isolates,     \* API isolates that may be serving the project
    Unserialized, \* withdrawal requests: they do not enter the serializer
    None,         \* no work item
    MaxQueue      \* bound: outbox rows waiting at once

Sources == Annotations \cup Replies

ASSUME Threads == Parent \in [Replies -> Annotations] /\ Annotations \cap Replies = {}
ASSUME Electorate == Humans \subseteq Voters /\ Maintainers \subseteq Voters
ASSUME Ballots == Casts \in [Voters -> SUBSET {"approve", "reject", "abstain"}]
ASSUME Thresholds == {MinApprovals, MinNet, MinHuman, MinMaintainer} \subseteq Int
ASSUME NullItem == None \notin Sources
ASSUME QueueBound == MaxQueue \in Nat

VARIABLES
    serving,   \* the isolates that serve the project in this behaviour
    status,    \* annotations.status and replies.status
    vote,      \* current votes
    creation,  \* create_work_item decisions of a source: by the rule, forced
    marked,    \* support_changed of the rule's decision
    items,     \* how many work items a source has produced
    item,      \* work_items.status; a work item is named by its source
    cancelRow, \* the work item named by the annotation's one cancel decision
    outbox,    \* the jobs waiting, oldest first
    file,      \* status in the annotation's or reply's Git artifact
    itemFile,  \* status in the work item's Git artifact
    req        \* the command each process is executing

vars == <<serving, status, vote, creation, marked, items, item, cancelRow,
          outbox, file, itemFile, req>>
db == <<status, vote, creation, marked, items, item, cancelRow, outbox>>
repo == <<file, itemFile>>
-----------------------------------------------------------------------------
Processes == Isolates \cup Unserialized
AnnotationOf(s) == IF s \in Replies THEN Parent[s] ELSE s

Statuses == {"open", "work_item_created", "rejected", "withdrawn", "accepted"}
Votable == {"open", "work_item_created"}
ItemStatuses == {"none", "ready", "applying", "completed", "conflict", "cancelled"}
Votes == {"none", "approve", "reject", "abstain"}

Jobs == [kind : {"promote", "cancel", "withdraw", "apply"}, source : Sources]
          \cup [kind : {"override"}, source : Annotations, shows : Statuses]

Idle == [op |-> "idle"]
VoteReq == [op : {"vote"}, source : Annotations, voter : Voters, value : Votes,
            crosses : BOOLEAN, mark : {"keep", "set", "clear"}]
OverrideReq == [op : {"override"}, source : Annotations,
                from : {"open", "rejected"}, to : {"open", "rejected"}]
CancelReq == [op : {"cancel"}, source : Sources, row : Sources \cup {None}]
Requests == {Idle} \cup VoteReq \cup OverrideReq \cup CancelReq
              \cup [op : {"force", "withdraw"}, source : Sources]

TypeOK ==
    /\ serving \in SUBSET Isolates \ {{}}
    /\ status \in [Sources -> Statuses]
    /\ vote \in [Annotations -> [Voters -> Votes]]
    /\ creation \in [Sources -> SUBSET {"rule", "forced"}]
    /\ marked \in [Annotations -> BOOLEAN]
    /\ items \in [Sources -> Nat]
    /\ item \in [Sources -> ItemStatuses]
    /\ cancelRow \in [Annotations -> Sources \cup {None}]
    /\ outbox \in Seq(Jobs) /\ Len(outbox) <= MaxQueue
    /\ file \in [Sources -> Statuses]
    /\ itemFile \in [Sources -> ItemStatuses]
    /\ req \in [Processes -> Requests]

Init ==
    /\ serving \in SUBSET Isolates \ {{}}
    /\ status = [s \in Sources |-> "open"]
    /\ vote = [a \in Annotations |-> [v \in Voters |-> "none"]]
    /\ creation = [s \in Sources |-> {}]
    /\ marked = [a \in Annotations |-> FALSE]
    /\ items = [s \in Sources |-> 0]
    /\ item = [s \in Sources |-> "none"]
    /\ cancelRow = [a \in Annotations |-> None]
    /\ outbox = <<>>
    /\ file = [s \in Sources |-> "open"]
    /\ itemFile = [s \in Sources |-> "none"]
    /\ req = [p \in Processes |-> Idle]

\* One command at a time per isolate: the serializer's chain.
Begin(p, r) ==
    /\ req[p] = Idle
    /\ req' = [req EXCEPT ![p] = r]
    /\ UNCHANGED <<serving, db, repo>>

Finish(p) == req' = [req EXCEPT ![p] = Idle]

Enqueue(job) == Len(outbox) < MaxQueue /\ outbox' = Append(outbox, job)
-----------------------------------------------------------------------------
(* The rule.                                                               *)

Count(votes, value, S) == Cardinality({v \in S : votes[v] = value})

Satisfied(votes) ==
    LET approvals == Count(votes, "approve", Voters) IN
    /\ approvals >= MinApprovals
    /\ approvals - Count(votes, "reject", Voters) >= MinNet
    /\ Count(votes, "approve", Humans) >= MinHuman
    /\ Count(votes, "approve", Humans \cap Maintainers) >= MinMaintainer
-----------------------------------------------------------------------------
(* Promotion: what a threshold crossing and a force-create have in common. *)

\* Seeded fault: the batch without the uniqueness index on decisions.
NoIndex(s) == TRUE

\* The unique indexes on create_work_item decisions: one per annotation and,
\* independently, one per reply.
IndexFree(s) == creation[s] = {}

\* The batch also compares an annotation's status; a reply's is not compared.
Promotes(s) == IndexFree(s) /\ (s \in Annotations => status[s] = "open")

\* buildCreationStatements.
Promote(s, how) ==
    /\ creation' = [creation EXCEPT ![s] = @ \cup {how}]
    /\ items' = [items EXCEPT ![s] = @ + 1]
    /\ item' = [item EXCEPT ![s] = "ready"]
    /\ status' = IF s \in Annotations
                 THEN [status EXCEPT ![s] = "work_item_created"] ELSE status
    /\ Enqueue([kind |-> "promote", source |-> s])
-----------------------------------------------------------------------------
(* Votes: cast, change, clear (to "none").                                 *)

\* resolveSupportChange: the mark says that the rule no longer holds.
MarkChange(a, satisfied) ==
    IF "rule" \notin creation[a] \/ marked[a] # satisfied THEN "keep"
    ELSE IF satisfied THEN "clear" ELSE "set"

\* Seeded fault: the committed tally decides, not the tally this vote makes.
VoteReadStale(p, a, v, x) ==
    LET satisfied == Satisfied(vote[a]) IN
    /\ status[a] \in Votable
    /\ vote[a][v] # x
    /\ Begin(p, [op |-> "vote", source |-> a, voter |-> v, value |-> x,
                 crosses |-> satisfied /\ status[a] = "open" /\ creation[a] = {},
                 mark |-> MarkChange(a, satisfied)])

\* The tally of the committed votes is adjusted by this vote and the rule is
\* evaluated on the result.  A vote that changes nothing records nothing.
VoteRead(p, a, v, x) ==
    LET satisfied == Satisfied([vote[a] EXCEPT ![v] = x]) IN
    /\ status[a] \in Votable
    /\ vote[a][v] # x
    /\ Begin(p, [op |-> "vote", source |-> a, voter |-> v, value |-> x,
                 crosses |-> satisfied /\ status[a] = "open" /\ creation[a] = {},
                 mark |-> MarkChange(a, satisfied)])

\* A vote that does not cross is written whatever became of the annotation.
VoteCommits(r) == r.crosses => Promotes(r.source)

VoteBatch(p) ==
    LET r == req[p] IN
    /\ r.op = "vote"
    /\ VoteCommits(r)
    /\ vote' = [vote EXCEPT ![r.source][r.voter] = r.value]
    /\ marked' = IF r.mark = "keep" THEN marked
                 ELSE [marked EXCEPT ![r.source] = (r.mark = "set")]
    /\ IF r.crosses THEN Promote(r.source, "rule")
       ELSE UNCHANGED <<status, creation, items, item, outbox>>
    /\ Finish(p)
    /\ UNCHANGED <<serving, cancelRow, repo>>
-----------------------------------------------------------------------------
(* Overrides by a maintainer.                                              *)

ForceRead(p, s) ==
    /\ status[s] = "open"
    /\ creation[s] = {}
    /\ Begin(p, [op |-> "force", source |-> s])

ForceBatch(p) ==
    LET r == req[p] IN
    /\ r.op = "force"
    /\ Promotes(r.source)
    /\ Promote(r.source, "forced")
    /\ Finish(p)
    /\ UNCHANGED <<serving, vote, marked, cancelRow, repo>>

\* Reject an open suggestion, reopen a rejected one.
OverrideRead(p, a, from, to) ==
    /\ status[a] = from
    /\ Begin(p, [op |-> "override", source |-> a, from |-> from, to |-> to])

\* Seeded fault: the override's status write compares nothing.
OverridesAnyway(r) == TRUE

OverrideCommits(r) == status[r.source] = r.from

OverrideBatch(p) ==
    LET r == req[p] IN
    /\ r.op = "override"
    /\ OverrideCommits(r)
    /\ status' = [status EXCEPT ![r.source] = r.to]
    /\ Enqueue([kind |-> "override", source |-> r.source, shows |-> r.to])
    /\ Finish(p)
    /\ UNCHANGED <<serving, vote, creation, marked, items, item, cancelRow, repo>>

\* The cancel decision is keyed by the annotation alone, so a second
\* cancellation under the same annotation takes over the row of the first.
CancelRead(p, s) ==
    /\ item[s] = "ready"
    /\ Begin(p, [op |-> "cancel", source |-> s, row |-> cancelRow[AnnotationOf(s)]])

\* The insert of a row that appeared meanwhile violates the idempotency index.
CancelCommits(r) == r.row = None => cancelRow[AnnotationOf(r.source)] = None

CancelBatch(p) ==
    LET r == req[p]
        a == AnnotationOf(r.source) IN
    /\ r.op = "cancel"
    /\ CancelCommits(r)
    /\ cancelRow' = [cancelRow EXCEPT ![a] = r.source]
    /\ item' = [item EXCEPT ![r.source] = "cancelled"]
    /\ Enqueue([kind |-> "cancel", source |-> a])
    /\ Finish(p)
    /\ UNCHANGED <<serving, status, vote, creation, marked, items, repo>>
-----------------------------------------------------------------------------
(* Withdrawal: queued now, effective when its commit lands.                *)

WithdrawQueued(s) == \E n \in DOMAIN outbox :
    outbox[n].kind = "withdraw" /\ outbox[n].source = s

WithdrawRead(p, s) ==
    /\ status[s] = "open"
    /\ ~WithdrawQueued(s)
    /\ Begin(p, [op |-> "withdraw", source |-> s])

\* A reply's batch compares its status and its operation; an annotation's
\* compares nothing.
WithdrawCommits(r) ==
    r.source \in Replies => status[r.source] = "open" /\ ~WithdrawQueued(r.source)

WithdrawBatch(p) ==
    LET r == req[p] IN
    /\ r.op = "withdraw"
    /\ WithdrawCommits(r)
    /\ Enqueue([kind |-> "withdraw", source |-> r.source])
    /\ Finish(p)
    /\ UNCHANGED <<serving, status, vote, creation, marked, items, item, cancelRow, repo>>
-----------------------------------------------------------------------------
Abort(p) ==
    LET r == req[p] IN
    /\ \/ r.op = "vote" /\ ~VoteCommits(r)
       \/ r.op = "force" /\ ~Promotes(r.source)
       \/ r.op = "override" /\ ~OverrideCommits(r)
       \/ r.op = "cancel" /\ ~CancelCommits(r)
       \/ r.op = "withdraw" /\ ~WithdrawCommits(r)
    /\ Finish(p)
    /\ UNCHANGED <<serving, db, repo>>

\* A holder's submission for the item is accepted (see Leases).
Submit(s) ==
    /\ item[s] = "ready"
    /\ item' = [item EXCEPT ![s] = "applying"]
    /\ Enqueue([kind |-> "apply", source |-> s])
    /\ UNCHANGED <<serving, status, vote, creation, marked, items, cancelRow, repo, req>>
-----------------------------------------------------------------------------
(* The outbox: each job commits its files, then writes the rows it syncs.  *)

Drains(kind) ==
    /\ outbox # <<>>
    /\ Head(outbox).kind = kind
    /\ outbox' = Tail(outbox)
    /\ UNCHANGED <<serving, vote, creation, marked, items, cancelRow, req>>

\* Seeded fault: the creation's commit renders the work item only.
DrainPromoteItemOnly ==
    LET s == Head(outbox).source IN
    /\ Drains("promote")
    /\ itemFile' = [itemFile EXCEPT ![s] = item[s]]
    /\ UNCHANGED <<status, item, file>>

\* decision.create of a creation: the annotation as work_item_created, unless
\* the decision belongs to a reply, and the work item as it is now.
DrainPromote ==
    LET s == Head(outbox).source IN
    /\ Drains("promote")
    /\ file' = IF s \in Annotations
               THEN [file EXCEPT ![s] = "work_item_created"] ELSE file
    /\ itemFile' = [itemFile EXCEPT ![s] = item[s]]
    /\ UNCHANGED <<status, item>>

\* decision.create of a rejection or a reopening: the status it decided.
DrainOverride ==
    /\ Drains("override")
    /\ file' = [file EXCEPT ![Head(outbox).source] = Head(outbox).shows]
    /\ UNCHANGED <<status, item, itemFile>>

\* decision.create of a cancellation: the annotation as it is now, and the work
\* item the decision row names now.
DrainCancel ==
    LET a == Head(outbox).source
        s == cancelRow[a] IN
    /\ Drains("cancel")
    /\ file' = [file EXCEPT ![a] = status[a]]
    /\ itemFile' = [itemFile EXCEPT ![s] = item[s]]
    /\ UNCHANGED <<status, item>>

DrainWithdraw ==
    LET s == Head(outbox).source IN
    /\ Drains("withdraw")
    /\ file' = [file EXCEPT ![s] = "withdrawn"]
    /\ status' = [status EXCEPT ![s] = "withdrawn"]
    /\ UNCHANGED <<item, itemFile>>

\* submission.apply: the commit always renders the annotation as accepted, the
\* rows follow only if the work item is the annotation's own.  A conflict leaves
\* the annotation alone.
DrainApply(applied) ==
    LET s == Head(outbox).source
        result == IF applied THEN "completed" ELSE "conflict" IN
    /\ Drains("apply")
    /\ item' = [item EXCEPT ![s] = result]
    /\ itemFile' = [itemFile EXCEPT ![s] = result]
    /\ file' = IF applied THEN [file EXCEPT ![AnnotationOf(s)] = "accepted"] ELSE file
    /\ status' = IF applied /\ s \in Annotations
                 THEN [status EXCEPT ![s] = "accepted"] ELSE status
-----------------------------------------------------------------------------
Command(p) ==
    \/ \E a \in Annotations, v \in Voters :
         \E x \in Casts[v] \cup {"none"} : VoteRead(p, a, v, x)
    \/ \E a \in Annotations : \/ OverrideRead(p, a, "open", "rejected")
                              \/ OverrideRead(p, a, "rejected", "open")
    \/ \E s \in Sources : ForceRead(p, s) \/ CancelRead(p, s)

Batch(p) ==
    \/ VoteBatch(p)
    \/ ForceBatch(p)
    \/ OverrideBatch(p)
    \/ CancelBatch(p)
    \/ WithdrawBatch(p)
    \/ Abort(p)

Drain ==
    \/ DrainPromote
    \/ DrainOverride
    \/ DrainCancel
    \/ DrainWithdraw
    \/ \E applied \in BOOLEAN : DrainApply(applied)

Next ==
    \/ \E p \in serving : Command(p)
    \/ \E p \in Unserialized, s \in Sources : WithdrawRead(p, s)
    \/ \E p \in Processes : Batch(p)
    \/ \E s \in Sources : Submit(s)
    \/ Drain

Spec == Init /\ [][Next]_vars
-----------------------------------------------------------------------------
(* Safety that the database alone guarantees.                              *)

\* "Concurrent qualifying votes create one and only one work item": votes that
\* cross, forced creations and any mix of them, in any number of isolates, give
\* a suggestion, and independently each reply, at most one decision and item.
OneWorkItem == \A s \in Sources :
    items[s] = Cardinality(creation[s]) /\ items[s] <= 1

\* A decision is sticky: a suggestion that became work is never open to votes
\* as an undecided one or rejected, whoever was rejecting or reopening it.
DecidedStays == \A a \in Annotations :
    creation[a] # {} => status[a] \notin {"open", "rejected"}

Quiet == outbox = <<>>

\* When the outbox is empty the repository says of suggestions and work items
\* what their rows say, so that a rebuild restores the settled state.  Excused
\* are a suggestion whose withdrawal overtook or was overtaken by a decision or
\* one whose reply's work item was completed, and a cancelled item whose
\* decision row names another by now.
GitFollowsRow == Quiet =>
    /\ \A a \in Annotations :
         \/ file[a] = status[a]
         \/ status[a] = "withdrawn"
         \/ \E r \in Replies : Parent[r] = a /\ item[r] = "completed"
    /\ \A s \in Sources :
         \/ itemFile[s] = item[s]
         \/ item[s] = "cancelled" /\ cancelRow[AnnotationOf(s)] # s
-----------------------------------------------------------------------------
(* Safety that also needs the serializer: one isolate serves.              *)

Lone == \E p \in Isolates : serving = {p}

\* The rows follow the votes.  The vote that makes the rule hold decides the
\* suggestion there and then - no later event would: an open suggestion,
\* reopened ones included, never satisfies the rule.  And support_changed marks
\* exactly the rule's decisions whose support is gone.
VotesDecide == Lone => \A a \in Annotations :
    /\ ~(status[a] = "open" /\ Satisfied(vote[a]))
    /\ "rule" \in creation[a] => marked[a] = ~Satisfied(vote[a])
=============================================================================
