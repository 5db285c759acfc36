------------------------------- MODULE Review -------------------------------
(***************************************************************************)
(* What reaches a chapter through Authorbot, from the request to the row   *)
(* the drain leaves behind: reviewed edits (revision proposals), reviewed  *)
(* work (proposals carrying a work item's submission), range submissions   *)
(* that need no review, direct revisions of a draft, and publishing.       *)
(*                                                                         *)
(* The author may push to the branch at any moment, a refresh may rewrite  *)
(* the projection, two reviewers may decide in two isolates, the holder of *)
(* a work item may lose access, and the drain may stop between any two of  *)
(* its steps.  GitOutbox models the drain and the writer in detail; here   *)
(* one writer commits or is told of contention.                            *)
(*                                                                         *)
(* A chapter file is its frontmatter revision, whether it is published,    *)
(* and the set of contributions its text holds: whoever rewrites a chapter *)
(* keeps the contributions of the text they started from, and no others.   *)
(***************************************************************************)
EXTENDS Naturals, FiniteSets, Sequences

CONSTANTS
    Edits,        \* proposals made directly (edits, applied at once or not)
    Works,        \* proposals made by submitting a whole-chapter work item
    Ranges,       \* submissions of a passage, applied without review
    Revisions,    \* direct revisions of a draft
    Toggles,      \* publish and unpublish commands
    Pushes,       \* the author's own commits
    Reviewers,    \* each served by an isolate of its own
    MaxAttempts,  \* MAX_GIT_ATTEMPTS
    MaxWrites,    \* bound: how many of the writes are ever begun
    MaxFailures,  \* bound: writes that fail for good
    MaxRetries,   \* bound: failed operations a maintainer requeues
    MaxCrashes,   \* bound: drains cut short
    MaxRevoked,   \* bound: items whose holder loses access
    Nothing

Proposals == Edits \cup Works
Items == Works \cup Ranges
Writes == Proposals \cup Ranges \cup Revisions \cup Toggles

ASSUME Distinct ==
    LET kinds == <<Edits, Works, Ranges, Revisions, Toggles, Pushes>> IN
    \A j, k \in 1..6 : j # k => kinds[j] \cap kinds[k] = {}
ASSUME Bounds == MaxAttempts \in Nat \ {0} /\ {MaxWrites, MaxFailures, MaxRetries, MaxCrashes, MaxRevoked} \subseteq Nat

VARIABLES
    head,     \* number of commits on the branch
    file,     \* the chapter file at the head
    row,      \* the chapter's projection row: content hash (so revision) and status
    task,     \* the status in each work item's artifact at the head
    prop,     \* revision_proposals.status
    base,     \* the file a write was prepared against
    item,     \* work_items.status
    sub,      \* submissions.state
    queue,    \* the outbox rows, oldest first
    op,       \* git_operations: state, attempts, the plan kept on the payload
    verdict,  \* per reviewer, the decision between its reads and its batch
    cascade,  \* per item, the submission's state its holder's revocation has read
    held,     \* the write whose row the drain has in hand
    stopped,  \* writes whose row a revocation failed
    used,     \* failures, retries and crashes so far
    over,     \* history: the file a landed write replaced
    unnumbered, \* history: pushes that kept the revision number
    reset,    \* history: items a rebuild took back while they were in flight
    retried,  \* history: operations requeued after they failed
    revoked   \* history: items a revocation took from their holder

git == <<head, file, task>>
rows == <<row, prop, base, item, sub>>
withdrawal == <<cascade, held, stopped>>
history == <<over, unnumbered, reset, retried, revoked>>
vars == <<git, rows, queue, op, verdict, withdrawal, used, history>>
-----------------------------------------------------------------------------
Draft == [rev |-> 1, text |-> {}, public |-> FALSE]
Files == [rev : Nat, text : SUBSET (Writes \cup Pushes), public : BOOLEAN]
Plans == [attempt : Nat, head : Nat, applied : BOOLEAN, out : Files]
Operations == [state : {"none", "queued", "pinned", "planned", "landed", "committed", "failed"},
               attempts : Nat, head : Nat, plan : Plans \cup {Nothing}]

Seen == {"none", "received", "applying"}

ASSUME NoFile == Nothing \notin Files \cup Plans \cup Writes \cup Seen

NoOp == [state |-> "none", attempts |-> 0, head |-> 0, plan |-> Nothing]

TypeOK ==
    /\ head \in Nat /\ file \in Files
    /\ row \in [hash : Files, public : BOOLEAN]
    /\ task \in [Items -> {"ready", "completed", "conflict"}]
    /\ prop \in [Proposals -> {"none", "pending_review", "applying", "approved",
                               "rejected", "conflicted"}]
    /\ base \in [Writes -> Files]
    /\ item \in [Items -> {"leased", "submitted", "applying", "ready", "completed", "conflict"}]
    /\ sub \in [Items -> {"none", "received", "applying", "applied", "conflicted", "rejected"}]
    /\ queue \in Seq(Writes)
    /\ op \in [Writes -> Operations]
    /\ verdict \in [Reviewers -> [on : Proposals, say : {"approve", "reject"}] \cup {Nothing}]
    /\ cascade \in [Items -> Seen \cup {Nothing}]
    /\ held \in Writes \cup {Nothing} /\ stopped \subseteq Items
    /\ used \in [failures : 0..MaxFailures, retries : 0..MaxRetries, crashes : 0..MaxCrashes]
    /\ over \in [Writes -> Files \cup {Nothing}]
    /\ unnumbered \subseteq Pushes
    /\ reset \subseteq Items /\ retried \subseteq Writes /\ revoked \subseteq Items

\* A draft nobody has touched, and work leased on it.
Init ==
    /\ head = 0 /\ file = Draft /\ row = [hash |-> Draft, public |-> FALSE]
    /\ task = [i \in Items |-> "ready"]
    /\ prop = [p \in Proposals |-> "none"]
    /\ base = [w \in Writes |-> Draft]
    /\ item = [i \in Items |-> "leased"]
    /\ sub = [i \in Items |-> "none"]
    /\ queue = <<>> /\ op = [w \in Writes |-> NoOp]
    /\ verdict = [r \in Reviewers |-> Nothing]
    /\ cascade = [i \in Items |-> Nothing]
    /\ held = Nothing /\ stopped = {}
    /\ used = [failures |-> 0, retries |-> 0, crashes |-> 0]
    /\ over = [w \in Writes |-> Nothing]
    /\ unnumbered = {} /\ reset = {} /\ retried = {} /\ revoked = {}
-----------------------------------------------------------------------------
(* The branch moves without Authorbot, and the projection catches up.      *)

\* The author commits; a careful author numbers the revision.
Push(e) ==
    /\ e \notin file.text
    /\ \E numbered \in BOOLEAN, public \in BOOLEAN :
         /\ file' = [rev |-> file.rev + IF numbered THEN 1 ELSE 0,
                     text |-> file.text \cup {e}, public |-> public]
         /\ unnumbered' = IF numbered THEN unnumbered ELSE unnumbered \cup {e}
    /\ head' = head + 1
    /\ UNCHANGED <<task, rows, queue, op, verdict, withdrawal, used, over, reset, retried,
                   revoked>>

\* A rebuild projects the head: the chapter, and each item's status as its
\* artifact has it.  A lease is kept; a submission in flight is not in Git.
Refresh ==
    /\ row' = [hash |-> file, public |-> file.public]
    /\ item' = [i \in Items |-> IF item[i] = "leased" THEN "leased" ELSE task[i]]
    /\ reset' = reset \cup {i \in Items : item[i] \in {"submitted", "applying"}
                                          /\ task[i] = "ready"}
    /\ UNCHANGED <<git, prop, base, sub, queue, op, verdict, withdrawal, used, over,
                   unnumbered, retried, revoked>>
-----------------------------------------------------------------------------
(* Requests.                                                               *)

Begun(w) ==
    \/ op[w] # NoOp
    \/ w \in Proposals /\ prop[w] # "none"
    \/ w \in Items /\ sub[w] # "none"

CanBegin(w) == ~Begun(w) /\ Cardinality({v \in Writes : Begun(v)}) < MaxWrites

Enqueue(w) ==
    /\ queue' = Append(queue, w)
    /\ op' = [op EXCEPT ![w].state = "queued"]

\* A client sent the base it read; the row and the branch must still agree.
Current(f) == row.hash = f /\ file = f

\* An edit is proposed, or by a maintainer proposed and applied at once.
Propose(p) ==
    /\ CanBegin(p) /\ Current(row.hash)
    /\ base' = [base EXCEPT ![p] = row.hash]
    /\ \/ /\ prop' = [prop EXCEPT ![p] = "pending_review"]
          /\ UNCHANGED <<queue, op>>
       \/ /\ prop' = [prop EXCEPT ![p] = "applying"]
          /\ Enqueue(p)
    /\ UNCHANGED <<git, row, item, sub, verdict, withdrawal, used, history>>

\* A lease's holder submits against the base the claim snapshotted: a whole
\* chapter waits for review, a passage is queued at once.
Submit(i) ==
    /\ CanBegin(i) /\ item[i] = "leased"
    /\ IF i \in Works
       THEN /\ item' = [item EXCEPT ![i] = "submitted"]
            /\ sub' = [sub EXCEPT ![i] = "received"]
            /\ prop' = [prop EXCEPT ![i] = "pending_review"]
            /\ UNCHANGED <<queue, op>>
       ELSE /\ item' = [item EXCEPT ![i] = "applying"]
            /\ sub' = [sub EXCEPT ![i] = "applying"]
            /\ Enqueue(i)
            /\ UNCHANGED prop
    /\ UNCHANGED <<git, row, base, verdict, withdrawal, used, history>>

\* The direct route takes drafts only.
Revise(w) ==
    /\ CanBegin(w)
    /\ ~row.public
    /\ base' = [base EXCEPT ![w] = row.hash]
    /\ Enqueue(w)
    /\ UNCHANGED <<git, row, prop, item, sub, verdict, withdrawal, used, history>>

\* Publish, or unpublish, what the row does not show as such already.
Toggle(w) ==
    /\ CanBegin(w)
    /\ base' = [base EXCEPT ![w] = [row.hash EXCEPT !.public = row.public]]
    /\ Enqueue(w)
    /\ UNCHANGED <<git, row, prop, item, sub, verdict, withdrawal, used, history>>

\* The reviewer's reads.  Only an approval looks at the base.
Awaiting(p) == p \in Works => item[p] = "submitted" /\ sub[p] = "received"

Consider(r, p, say) ==
    /\ verdict[r] = Nothing
    /\ prop[p] = "pending_review" /\ Awaiting(p)
    /\ say = "approve" => Current(base[p])
    /\ verdict' = [verdict EXCEPT ![r] = [on |-> p, say |-> say]]
    /\ UNCHANGED <<git, rows, queue, op, withdrawal, used, history>>

\* Seeded fault: the proposal's status is not compared again.
StandsByItem(p) == Awaiting(p)

\* The statements that abort the batch when what they expect is gone.
Stands(p) == prop[p] = "pending_review" /\ Awaiting(p)

\* Approve and reject share their batch's shape.
Decide(r) ==
    /\ verdict[r] # Nothing
    /\ LET p == verdict[r].on IN
       IF ~Stands(p) THEN UNCHANGED <<prop, item, sub, queue, op>>
       ELSE IF verdict[r].say = "approve"
       THEN /\ prop' = [prop EXCEPT ![p] = "applying"]
            /\ item' = IF p \in Works THEN [item EXCEPT ![p] = "applying"] ELSE item
            /\ sub' = IF p \in Works THEN [sub EXCEPT ![p] = "applying"] ELSE sub
            /\ Enqueue(p)
       ELSE /\ prop' = [prop EXCEPT ![p] = "rejected"]
            /\ item' = IF p \in Works THEN [item EXCEPT ![p] = "ready"] ELSE item
            /\ sub' = IF p \in Works THEN [sub EXCEPT ![p] = "rejected"] ELSE sub
            /\ UNCHANGED <<queue, op>>
    /\ verdict' = [verdict EXCEPT ![r] = Nothing]
    /\ UNCHANGED <<git, row, base, withdrawal, used, history>>

\* The holder of a work item loses access.  The cascade lists their lease, or
\* their submission in flight, before its batch.
RevokeReads(i) ==
    /\ cascade[i] = Nothing /\ i \notin revoked
    /\ Cardinality({j \in Items : cascade[j] # Nothing} \cup revoked) < MaxRevoked
    /\ sub[i] \in {"received", "applying"} \/ (sub[i] = "none" /\ item[i] = "leased")
    /\ cascade' = [cascade EXCEPT ![i] = sub[i]]
    /\ UNCHANGED <<git, rows, queue, op, verdict, held, stopped, used, history>>

UnderWay(w) == op[w].state \notin {"none", "failed", "committed"}

\* Seeded fault: the outbox row of a rejected submission is left to be applied.
RowLeft(i) == UNCHANGED stopped

\* Only a submission that was being applied when it was listed had an operation
\* to name, and so a row to fail.
StopRow(i) ==
    stopped' = IF cascade[i] = "applying" /\ UnderWay(i) THEN stopped \cup {i} ELSE stopped

\* The batch: the submission is rejected if it still stands as it was listed,
\* its row is failed, the item is free again.  Its proposal, and the drain that
\* has the row in hand, are not told.
RevokeCommits(i) ==
    /\ cascade[i] # Nothing
    /\ sub' = IF cascade[i] \in {"received", "applying"} /\ sub[i] = cascade[i]
              THEN [sub EXCEPT ![i] = "rejected"] ELSE sub
    /\ item' = IF item[i] \in (IF cascade[i] = "none" THEN {"leased"} ELSE {"submitted", "applying"})
               THEN [item EXCEPT ![i] = "ready"] ELSE item
    /\ StopRow(i)
    /\ revoked' = IF <<sub, item>>' = <<sub, item>> THEN revoked ELSE revoked \cup {i}
    /\ cascade' = [cascade EXCEPT ![i] = Nothing]
    /\ UNCHANGED <<git, row, prop, base, queue, op, verdict, held, used, over, unnumbered,
                   reset, retried>>

\* A maintainer requeues a failed operation, and its row, whoever failed it;
\* what it left settled stays so.
Retry(w) ==
    /\ op[w].state = "failed" /\ used.retries < MaxRetries
    /\ op' = [op EXCEPT ![w].state = "queued", ![w].attempts = 0]
    /\ used' = [used EXCEPT !.retries = @ + 1]
    /\ retried' = retried \cup {w}
    /\ stopped' = stopped \ {w}
    /\ UNCHANGED <<git, rows, queue, verdict, cascade, held, over, unnumbered, reset, revoked>>
-----------------------------------------------------------------------------
(* The drain, one outbox row at a time, rows left part way first, then the *)
(* oldest pending.                                                         *)

Waiting == {w \in Writes \ stopped : UnderWay(w)}
Stuck == {w \in Waiting : op[w].state # "queued" \/ op[w].attempts > 0}
Turn(w) ==
    LET next == IF Stuck # {} THEN Stuck ELSE Waiting IN
    \E k \in DOMAIN queue :
        queue[k] = w /\ w \in next /\ \A j \in 1..(k - 1) : queue[j] \notin next

\* linkedChapterRevisionProposal and its like.
Linked(w) == w \in Proposals => prop[w] = "applying"

\* An attempt begins by noting the head its plan will be pinned to: the row is
\* taken up, or the one in hand tried again.
Pin(w) ==
    /\ held = w \/ (held = Nothing /\ Turn(w))
    /\ op[w].state = "queued"
    /\ held' = w
    /\ op' = [op EXCEPT ![w].state = "pinned", ![w].head = head,
                        ![w].attempts = @ + 1]
    /\ UNCHANGED <<git, rows, queue, verdict, cascade, stopped, used, history>>

\* A row an earlier drain was cut short on is taken up where it stood; a head
\* that was only noted is noted again, within the same attempt.
Resume(w) ==
    /\ held = Nothing /\ Turn(w) /\ op[w].state # "queued"
    /\ held' = w
    /\ op' = IF op[w].state = "pinned" THEN [op EXCEPT ![w].head = head] ELSE op
    /\ UNCHANGED <<git, rows, queue, verdict, cascade, stopped, used, history>>

\* Seeded fault: a write is refused by no revision.
AnyBase(w) == w \in Toggles => file.public = base[w].public

\* Seeded fault: a submission's base is compared by its number alone.
ByNumber(w) ==
    CASE w \in Edits \cup Works \cup Revisions -> file.rev = base[w].rev
      [] w \in Ranges -> TRUE
      [] OTHER -> file.public = base[w].public

\* What the composer and the applier demand of the file they read.  The
\* composer of edits and revisions compares revision numbers; the applier of
\* submissions compares content where the number has not moved.
Composable(w) ==
    CASE w \in Edits \cup Revisions -> file.rev = base[w].rev
      [] w \in Works -> file = base[w]
      [] w \in Ranges -> file.rev = base[w].rev => file = base[w]
      [] OTHER -> file.public = base[w].public

Composed(w) ==
    [rev |-> file.rev + 1,
     text |-> IF w \in Toggles THEN file.text
              ELSE IF w \in Ranges THEN file.text \cup {w}
              ELSE base[w].text \cup {w},
     public |-> IF w \in Toggles THEN ~file.public ELSE file.public]

Kept(w) == op[w].plan # Nothing /\ op[w].plan.attempt = op[w].attempts

\* The plan for this attempt is computed from the branch and kept; a plan
\* already kept for the attempt is used again.  A submission that cannot be
\* applied - its passage gone, its chapter rewritten, its result invalid -
\* becomes a conflict record, which leaves the chapter alone.
Plan(w) ==
    /\ held = w /\ op[w].state = "pinned" /\ Linked(w)
    /\ \/ /\ Kept(w)
          /\ op' = [op EXCEPT ![w].state = "planned"]
       \/ /\ ~Kept(w)
          /\ \E applied \in BOOLEAN :
               /\ IF applied THEN Composable(w) ELSE w \in Items
               /\ op' = [op EXCEPT
                    ![w].state = "planned",
                    ![w].plan = [attempt |-> op[w].attempts, head |-> op[w].head,
                                 applied |-> applied,
                                 out |-> IF applied THEN Composed(w) ELSE file]]
    /\ UNCHANGED <<git, rows, queue, verdict, withdrawal, used, history>>

\* Seeded fault: the commit is not pinned to the head of its plan.
Unpinned(w) == TRUE

AtItsHead(w) == head = op[w].plan.head

\* The commit lands, with the chapter or with the conflict record.
Land(w) ==
    /\ held = w /\ op[w].state = "planned" /\ AtItsHead(w)
    /\ head' = head + 1
    /\ IF op[w].plan.applied
       THEN /\ file' = op[w].plan.out
            /\ over' = [over EXCEPT ![w] = file]
       ELSE UNCHANGED <<file, over>>
    /\ task' = IF w \in Items
               THEN [task EXCEPT ![w] = IF op[w].plan.applied THEN "completed" ELSE "conflict"]
               ELSE task
    /\ op' = [op EXCEPT ![w].state = "landed"]
    /\ UNCHANGED <<rows, queue, verdict, withdrawal, used, unnumbered, reset, retried, revoked>>

\* Seeded fault: only the proposal of a work submission is released.
ProposalOnly(w) ==
    /\ prop' = IF w \in Proposals /\ prop[w] = "applying"
               THEN [prop EXCEPT ![w] = "conflicted"] ELSE prop
    /\ UNCHANGED <<item, sub>>

\* What a failed operation was holding is settled as a conflict, each part
\* only if it is still applying.
Release(w) ==
    /\ prop' = IF w \in Proposals /\ prop[w] = "applying"
               THEN [prop EXCEPT ![w] = "conflicted"] ELSE prop
    /\ IF w \in Items /\ item[w] = "applying"
       THEN /\ item' = [item EXCEPT ![w] = "conflict"]
            /\ sub' = [sub EXCEPT ![w] = IF @ = "applying" THEN "conflicted" ELSE @]
       ELSE UNCHANGED <<item, sub>>

GiveUp(w) ==
    /\ op' = [op EXCEPT ![w].state = "failed"]
    /\ Release(w)
    /\ held' = Nothing
    /\ UNCHANGED <<git, row, base, queue, verdict, cascade, stopped, history>>

\* The branch has moved: another attempt, or none left.
Contend(w) ==
    /\ held = w /\ op[w].state = "planned" /\ ~AtItsHead(w)
    /\ IF op[w].attempts < MaxAttempts
       THEN /\ op' = [op EXCEPT ![w].state = "queued"]
            /\ UNCHANGED <<git, rows, queue, verdict, withdrawal, history>>
       ELSE GiveUp(w)
    /\ UNCHANGED used

\* The plan cannot be built: the proposal is not applying, or the composer
\* refuses the file it read.
Refuse(w) ==
    /\ held = w /\ op[w].state = "pinned"
    /\ ~Linked(w) \/ (w \notin Items /\ ~Kept(w) /\ ~Composable(w))
    /\ GiveUp(w)
    /\ UNCHANGED used

\* The write fails for a reason of its own: no identity to write as, an
\* outage past the deadline.
Fail(w) ==
    /\ held = w /\ op[w].state \in {"pinned", "planned"}
    /\ used.failures < MaxFailures
    /\ used' = [used EXCEPT !.failures = @ + 1]
    /\ GiveUp(w)

\* The row an applied write leaves: all of it from a chapter write, all but
\* the status column from a submission.
RowAfter(w) ==
    [hash |-> op[w].plan.out,
     public |-> IF w \in Items THEN row.public ELSE op[w].plan.out.public]

\* The finalize batch, once the commit is known to be on the branch.
Finalize(w) ==
    /\ held = w /\ op[w].state = "landed" /\ Linked(w)
    /\ LET applied == op[w].plan.applied IN
       /\ op' = [op EXCEPT ![w].state = "committed"]
       /\ row' = IF applied THEN RowAfter(w) ELSE row
       /\ prop' = IF w \in Proposals /\ prop[w] = "applying"
                  THEN [prop EXCEPT ![w] = IF applied THEN "approved" ELSE "conflicted"]
                  ELSE prop
       /\ IF w \in Items
          THEN /\ item' = [item EXCEPT ![w] = IF applied THEN "completed" ELSE "conflict"]
               /\ sub' = [sub EXCEPT ![w] = IF @ # "applying" THEN @
                                            ELSE IF applied THEN "applied" ELSE "conflicted"]
          ELSE UNCHANGED <<item, sub>>
    /\ held' = Nothing
    /\ UNCHANGED <<git, base, queue, verdict, cascade, stopped, used, history>>

\* The drain dies, and what it had in hand is only what the rows say.
Crash ==
    /\ held # Nothing /\ used.crashes < MaxCrashes
    /\ held' = Nothing
    /\ used' = [used EXCEPT !.crashes = @ + 1]
    /\ UNCHANGED <<git, rows, queue, op, verdict, cascade, stopped, history>>

Drain == \E w \in Writes : Pin(w) \/ Resume(w) \/ Plan(w) \/ Land(w) \/ Contend(w)
                          \/ Refuse(w) \/ Finalize(w)

Next ==
    \/ \E e \in Pushes : Push(e)
    \/ Refresh
    \/ \E p \in Edits : Propose(p)
    \/ \E i \in Items : Submit(i)
    \/ \E w \in Revisions : Revise(w)
    \/ \E w \in Toggles : Toggle(w)
    \/ \E r \in Reviewers, p \in Proposals, say \in {"approve", "reject"} :
         Consider(r, p, say)
    \/ \E r \in Reviewers : Decide(r)
    \/ \E i \in Items : RevokeReads(i) \/ RevokeCommits(i)
    \/ \E w \in Writes : Retry(w) \/ Fail(w)
    \/ Crash
    \/ Drain

Spec == Init /\ [][Next]_vars
-----------------------------------------------------------------------------
(* What each of these writes owes the others.                              *)

Landed(w) == over[w] # Nothing
Lost(w) == over[w].text \ op[w].plan.out.text

\* A write composed at one moment and committed at another never discards
\* somebody's words, unless it was an author's commit that kept the revision
\* number of the text it changed: a chapter write compares numbers only
\* (chapter-composer.ts), and is pinned to the head it was composed against.
\* Whole-chapter work has no such exception: it is applied to the very file it
\* was leased on and reviewed against (submission-applier.ts).
NothingOverwritten == \A w \in Writes : Landed(w) =>
    /\ Lost(w) \subseteq unnumbered
    /\ w \in Works => over[w] = base[w]

\* A direct revision never lands on a published chapter, unless the author
\* published it without a number, or a submission's finalize had left the
\* row's status behind its content (chapter-submissions.ts).
PublishedProseReviewed ==
    \A w \in Revisions : Landed(w) /\ over[w].public =>
        base[w].public \/ (over[w].text \ base[w].text) \cap unnumbered # {}

\* However two reviewers, the drain and a requeue interleave, an approved
\* proposal is on the branch and one rejected, conflicted or never approved
\* is not, nor on its way.
VerdictMatchesBranch ==
    \A p \in Proposals :
        /\ prop[p] = "approved" => Landed(p)
        /\ prop[p] \in {"none", "pending_review", "rejected"} => op[p] = NoOp
        /\ prop[p] = "conflicted" => ~Landed(p)

Story(i) ==
    IF op[i].state = "landed" THEN sub[i] = "applying" /\ item[i] # "submitted"
    ELSE CASE sub[i] = "none" -> item[i] = "leased"
           [] sub[i] = "received" -> item[i] = "submitted"
           [] sub[i] = "applying" -> item[i] = "applying"
           [] sub[i] = "applied" -> item[i] = "completed" /\ Landed(i)
           [] sub[i] = "rejected" -> item[i] = "ready"
           [] OTHER -> item[i] \in {"conflict", "ready"} /\ ~Landed(i)

ProposalOf == [received |-> "pending_review", applying |-> "applying", none |-> "none",
               applied |-> "approved", conflicted |-> "conflicted", rejected |-> "rejected"]

\* An operation the drain has in hand, or will take up again.
Coming(w) == UnderWay(w) /\ (held = w \/ w \notin stopped)

\* A work item, its submission and its proposal tell one story, and nothing
\* waits for an operation that will not come back to it: what is being applied
\* has one that is coming.  Excused are an item a rebuild took back in flight,
\* and the item of a range submission whose operation was requeued after its
\* failure had settled the submission.  Of an item taken from its holder less is
\* true, since the cascade (phase7.ts) rejects the submission and fails the row
\* but tells neither the proposal nor a drain that has the row in hand: the item
\* is free, or as the artifact says that this drain still wrote.  Rejected work
\* is not taken up again, unless a maintainer requeues it.
WorkAgrees ==
    /\ \A i \in Items \ (reset \cup revoked) :
         /\ i \in Ranges \cap retried \/ Story(i)
         /\ i \in Works => prop[i] = ProposalOf[sub[i]]
         /\ sub[i] = "applying" => Coming(i)
    /\ \A i \in reset \cup revoked : item[i] \in {"ready", task[i]}
    /\ \A i \in Items : sub[i] = "rejected" /\ held # i => ~Coming(i) \/ i \in retried
    /\ \A p \in Proposals : prop[p] = "applying" =>
         UnderWay(p) /\ (Coming(p) \/ p \in revoked)
=============================================================================
