---------------------------- MODULE Projection ----------------------------
(***************************************************************************)
(* The projection of a book's branch into the database: the author's       *)
(* pushes and the webhooks that announce them, the coordinator's single    *)
(* chain of drains and refreshes, the reconcile pass (snapshot, analysis,  *)
(* divergence or rebuild, re-anchoring, settings, completion), and the API *)
(* commands that run beside it - they do not go through the chain.         *)
(*                                                                         *)
(* One chapter, annotations on its one annotated block, one work item and  *)
(* the settings row.  A commit is the tree it left behind.                 *)
(***************************************************************************)
EXTENDS Integers, Sequences, FiniteSets

CONSTANTS
    Notes,        \* annotations created through the API
    Edits,        \* settings changes, each a queued operation of its own
    Fields,       \* the fields of book.yml
    Changes,      \* what the author pushes: "prose", "regress", "cut", "config"
    MaxCommits,   \* bound: commits on the branch
    MaxCrashes,   \* bound: passes, drains and webhook handlers cut short
    None

Ops == Notes \cup Edits \cup {"apply"}
ProseOps == {"apply"}

ASSUME Names == /\ Notes \cap Edits = {} /\ {None, "apply"} \cap (Notes \cup Edits) = {}
                /\ Changes \subseteq {"prose", "regress", "cut", "config"}
ASSUME Bounds == MaxCommits \in Nat /\ MaxCrashes \in Nat

VARIABLES
    branch,   \* the commits: a sequence of trees
    project,  \* projects: projection_stale, and whether the status is diverged
    chapter,  \* the chapter's row: revision, content, block ids
    note,     \* annotations: status, chapter_revision, the block they anchor to
    item,     \* the work item's status and whether a lease on it is active
    book,     \* book_configs: the config and the operation it waits for
    form,     \* a settings request between its read and its batch
    edit,     \* the payloads of settings operations
    queue,    \* git operations not yet finalized
    landed,   \* operations whose commit is on the branch, with its place
    pass,     \* the refresh the coordinator is running
    drain,    \* the drain it is running: its stage and operation
    hook,     \* per commit, how far its push delivery has got
    crashes,
    wrote,    \* history: who last wrote each field of book.yml
    blind     \* history: how a projection may have come to lag unnoticed

git == <<branch, hook>>
rows == <<chapter, note, item, book>>
ops == <<edit, queue, landed>>
chain == <<pass, drain>>
hist == <<wrote, blind>>
vars == <<git, project, rows, form, ops, chain, crashes, hist>>
-----------------------------------------------------------------------------
Authors == {"base", "author", "maintainer"}
Configs == [Fields -> Authors]
Blocks == {"old", "new", "gone"}
Trees == [rev : Int, text : Nat, block : Blocks, config : Configs,
          files : SUBSET Notes, task : {"ready", "completed", "conflict"}, by : {"author", "us"},
          change : {"prose", "regress", "cut", "config", "first", "op"}]
Tip == branch[Len(branch)]

Idle == [pc |-> "idle", at |-> 0, touched |-> FALSE, listed |-> {}, leased |-> FALSE,
         edited |-> FALSE, settings |-> FALSE]
Resting == [pc |-> "idle", op |-> None]
TypeOK ==
    /\ branch \in Seq(Trees) /\ Len(branch) \in 1..(MaxCommits + 1)
    /\ project \in [stale : BOOLEAN, diverged : BOOLEAN]
    /\ chapter \in [rev : Int, text : Nat, block : Blocks]
    /\ note \in [Notes -> [status : {"absent", "pending", "open", "needs_reanchor"},
                           rev : Int, born : Int, target : Blocks]]
    /\ item \in [status : {"ready", "leased", "submitted", "completed", "conflict"},
                 lease : BOOLEAN]
    /\ book \in [value : Configs, op : Edits \cup {None}]
    /\ form \in Configs \cup {None}
    /\ edit \in [Edits -> [field : Fields \cup {None}, before : Configs \cup {None}]]
    /\ queue \subseteq Ops
    /\ landed \in [Ops -> Nat]
    /\ pass \in [pc : {"idle", "snapshot", "judge", "confirm", "rebuild", "anchor", "finish"},
                 at : Nat, touched : BOOLEAN, listed : SUBSET Notes,
                 leased : BOOLEAN, edited : BOOLEAN, settings : BOOLEAN]
    /\ drain \in [pc : {"idle", "landed", "hook"}, op : Ops \cup {None}]
    /\ hook \in [1..(MaxCommits + 1) -> {"none", "sent", "asked", "done"}]
    /\ crashes \in 0..MaxCrashes
    /\ wrote \in Configs
    /\ blind \subseteq {"second", "handler", "redo", "released", "reset", "unhooked",
                    "inflight", "claim"}

FirstTree == [rev |-> 1, text |-> 1, block |-> "old", config |-> [f \in Fields |-> "base"],
              files |-> {}, task |-> "ready", by |-> "us", change |-> "first"]

\* A book already imported and projected, with one ready work item.
Init ==
    /\ branch = <<FirstTree>>
    /\ project = [stale |-> FALSE, diverged |-> FALSE]
    /\ chapter = [rev |-> 1, text |-> 1, block |-> "old"]
    /\ note = [n \in Notes |-> [status |-> "absent", rev |-> 0, born |-> 0, target |-> "gone"]]
    /\ item = [status |-> "ready", lease |-> FALSE]
    /\ book = [value |-> FirstTree.config, op |-> None]
    /\ form = None
    /\ edit = [e \in Edits |-> [field |-> None, before |-> None]]
    /\ queue = {} /\ landed = [o \in Ops |-> 0]
    /\ pass = Idle /\ drain = Resting
    /\ hook = [k \in 1..(MaxCommits + 1) |-> "none"]
    /\ crashes = 0 /\ wrote = FirstTree.config /\ blind = {}
-----------------------------------------------------------------------------
(* The branch and its webhook.                                             *)

Extend(tree) ==
    /\ Len(branch) <= MaxCommits
    /\ branch' = Append(branch, tree)
    /\ hook' = [hook EXCEPT ![Len(branch) + 1] = "sent"]

Changed(c, f) ==
    LET next == [Tip EXCEPT !.by = "author", !.change = c] IN
    CASE c = "prose" -> [next EXCEPT !.rev = @ + 1, !.text = Len(branch) + 1]
      [] c = "regress" -> [next EXCEPT !.rev = @ - 1, !.text = Len(branch) + 1]
      [] c = "cut" -> [next EXCEPT !.block = "gone", !.text = Len(branch) + 1]
      [] c = "config" -> [next EXCEPT !.config[f] = "author"]

\* The author works in Git: bumps the chapter, takes its revision back,
\* deletes the annotated block, or edits a field of book.yml.
Push(c, f) ==
    /\ c = "config" => Tip.config[f] # "author"
    /\ c = "cut" => Tip.block # "gone"
    /\ c = "regress" => Tip.rev > 0
    /\ Extend(Changed(c, f))
    /\ wrote' = IF c = "config" THEN [wrote EXCEPT ![f] = "author"] ELSE wrote
    /\ UNCHANGED <<project, rows, form, ops, chain, crashes, blind>>

\* updated_at has one second's resolution: an update within the second a pass
\* observed leaves it as the pass saw it.  (seen: it shows.)
Touch(seen) == pass' = IF pass = Idle THEN Idle ELSE [pass EXCEPT !.touched = @ \/ seen]

\* The delivery is recorded, then the stale flag is set, then a refresh is
\* asked for.  The call may fail, and its failure is swallowed.
MarkStale(k, seen) ==
    /\ hook[k] = "sent"
    /\ \E call \in {"asked", "done"} : hook' = [hook EXCEPT ![k] = call]
    /\ project' = [project EXCEPT !.stale = TRUE]
    /\ Touch(seen)
    /\ blind' = IF pass'.pc # "idle" /\ ~pass'.touched THEN blind \cup {"second"} ELSE blind
    /\ UNCHANGED <<branch, rows, form, ops, drain, crashes, wrote>>

\* The handler dies after recording the delivery and before the flag: GitHub's
\* redelivery is answered as a duplicate.
LoseHandler(k) ==
    /\ hook[k] = "sent" /\ crashes < MaxCrashes
    /\ crashes' = crashes + 1
    /\ hook' = [hook EXCEPT ![k] = "done"]
    /\ blind' = blind \cup {"handler"}
    /\ UNCHANGED <<branch, project, rows, form, ops, chain, wrote>>
-----------------------------------------------------------------------------
(* API commands.                                                           *)

Annotate(n) ==
    /\ note[n].status = "absent" /\ landed[n] = 0 /\ n \notin queue
    /\ chapter.block # "gone"
    /\ note' = [note EXCEPT ![n] = [status |-> "pending", rev |-> chapter.rev,
                                    born |-> chapter.rev, target |-> chapter.block]]
    /\ queue' = queue \cup {n}
    /\ UNCHANGED <<git, project, chapter, item, book,
                   form, edit, landed, chain, crashes, hist>>

\* A claim granted between a pass's list of leases and its batch is not known
\* to that batch.
Claim ==
    /\ item.status = "ready" /\ ~item.lease
    /\ item' = [status |-> "leased", lease |-> TRUE]
    /\ blind' = IF pass.pc = "rebuild" THEN blind \cup {"claim"} ELSE blind
    /\ UNCHANGED <<git, project, chapter, note,
                   book, form, ops, chain, crashes, wrote>>

\* A release, or the sweep of an expired lease.
EndLease ==
    /\ item.lease
    /\ item' = [status |-> IF item.status = "leased" THEN "ready" ELSE item.status,
                lease |-> FALSE]
    /\ UNCHANGED <<git, project, chapter, note,
                   book, form, ops, chain, crashes, hist>>

\* Refused while the project is diverged.
Submit ==
    /\ item.lease /\ item.status = "leased" /\ ~project.diverged
    /\ "apply" \notin queue /\ landed["apply"] = 0
    /\ item' = [status |-> "submitted", lease |-> FALSE]
    /\ queue' = queue \cup {"apply"}
    /\ UNCHANGED <<git, project, chapter, note, book,
                   form, edit, landed, chain, crashes, hist>>

\* A settings change, serialized with other API writes but not with the
\* coordinator: read, then batch.
ReadSettings ==
    /\ form = None /\ ~project.diverged /\ book.op = None
    /\ form' = book.value
    /\ UNCHANGED <<git, project, rows, ops, chain, crashes, hist>>

\* The row takes the whole config that was read, with the changed field; the
\* payload keeps the changed field and the config to go back to.
SaveSettings(e, f) ==
    /\ form # None /\ edit[e].field = None /\ form[f] # "maintainer"
    /\ book' = [value |-> [form EXCEPT ![f] = "maintainer"], op |-> e]
    /\ edit' = [edit EXCEPT ![e] = [field |-> f, before |-> form]]
    /\ queue' = queue \cup {e}
    /\ form' = None
    /\ UNCHANGED <<git, project, chapter, note,
                   item, landed, chain, crashes, hist>>

\* A maintainer clears a divergence; the Worker has no reader to resync with.
Clear(seen) ==
    /\ project.diverged
    /\ project' = [project EXCEPT !.diverged = FALSE]
    /\ Touch(seen)
    /\ UNCHANGED <<git, rows, form, ops, drain, crashes, hist>>
-----------------------------------------------------------------------------
(* The coordinator's chain: one drain or one refresh at a time.            *)

Free == pass = Idle /\ drain = Resting
\* Seeded fault: drains are chained, but not with refreshes.
OwnChain(work) == IF work = "drain" THEN drain = Resting ELSE pass = Idle
Turn(work) == Free

Observe == [Idle EXCEPT !.pc = "snapshot"]

\* The webhook's refresh.
Requested(k) ==
    /\ Turn("refresh") /\ hook[k] = "asked"
    /\ hook' = [hook EXCEPT ![k] = "done"]
    /\ pass' = Observe
    /\ UNCHANGED <<branch, project, rows, form, ops, drain, crashes, hist>>

\* The alarm's refresh, only if the flag is set.
Alarm ==
    /\ Turn("refresh") /\ project.stale
    /\ pass' = Observe
    /\ UNCHANGED <<git, project, rows, form, ops, drain, crashes, hist>>

Snapshot ==
    /\ pass.pc = "snapshot"
    /\ pass' = [pass EXCEPT !.pc = "judge", !.at = Len(branch)]
    /\ UNCHANGED <<git, project, rows, form, ops, drain, crashes, hist>>

Tree == branch[pass.at]

\* Live annotations whose block the tree no longer has.
Stranded(tree) == {n \in Notes : note[n].status = "open" /\ note[n].target # tree.block}
Regressed(tree) == tree.rev < chapter.rev
Broken(tree) ==
    \/ Regressed(tree)
    \/ tree.text # chapter.text /\ Stranded(tree) # {}

\* Compare the snapshot with the projection, and read what the rebuild goes
\* by: the rows it may delete, and whether the item is leased.
Judge ==
    /\ pass.pc = "judge"
    /\ pass' = IF Broken(Tree) THEN [pass EXCEPT !.pc = "confirm"]
               ELSE [pass EXCEPT !.pc = "rebuild", !.edited = Tree.text # chapter.text,
                       !.leased = item.lease,
                       !.listed = {n \in Notes : note[n].status \notin {"absent", "pending"}}]
    /\ UNCHANGED <<git, project, rows, form, ops, drain, crashes, hist>>

\* A finding is put off if the head is seen to have moved since the snapshot; it
\* stands if it has not, or could not be read.
Confirm ==
    /\ pass.pc = "confirm"
    /\ \/ /\ pass.at # Len(branch)
          /\ project' = [project EXCEPT !.stale = TRUE]
       \/ project' = [project EXCEPT !.diverged = TRUE]
    /\ pass' = Idle
    /\ UNCHANGED <<git, rows, form, ops, drain, crashes, hist>>

\* Seeded fault: annotations come back at the file's chapter revision.
RestoredAtTree(n, tree) == [note[n] EXCEPT !.status = "open", !.rev = tree.rev]
\* A row from its file: open, at the revision it was written against.
Restored(n, tree) == [note[n] EXCEPT !.status = "open", !.rev = note[n].born]

\* Seeded fault: the artifact's status, with no regard for leases.
FromArtifact(tree) == tree.task
RestoredStatus(tree) == IF tree.task = "ready" /\ pass.leased THEN "leased" ELSE tree.task

\* The batch: deletions, the chapter, annotations, the work item.
Rebuild ==
    /\ pass.pc = "rebuild"
    /\ chapter' = [rev |-> Tree.rev, text |-> Tree.text, block |-> Tree.block]
    /\ note' = [n \in Notes |->
                  IF n \in Tree.files THEN Restored(n, Tree)
                  ELSE IF n \in pass.listed THEN [note[n] EXCEPT !.status = "absent"]
                  ELSE note[n]]
    /\ item' = [item EXCEPT !.status = RestoredStatus(Tree)]
    /\ blind' = blind
         \cup {b \in {"reset"} : \E n \in Tree.files : note[n].status = "needs_reanchor"}
         \cup {b \in {"inflight"} : item.status = "submitted"}
    /\ pass' = [pass EXCEPT !.pc = "anchor", !.listed = {}, !.leased = FALSE]
    /\ UNCHANGED <<git, project, book, form, ops, drain, crashes, wrote>>

Reanchored(n, block, rev) ==
    IF note[n].target = block THEN [note[n] EXCEPT !.rev = rev]
    ELSE [note[n] EXCEPT !.status = "needs_reanchor"]

\* Every live annotation of an edited chapter is decided again; then the
\* settings row is read, and left alone if an operation owns it.
Reanchor ==
    /\ pass.pc = "anchor"
    /\ note' = [n \in Notes |->
                  IF pass.edited /\ note[n].status = "open"
                  THEN Reanchored(n, Tree.block, Tree.rev) ELSE note[n]]
    /\ pass' = [pass EXCEPT !.pc = "finish", !.edited = FALSE, !.settings = book.op = None]
    /\ UNCHANGED <<git, project, chapter, item,
                   book, form, ops, drain, crashes, hist>>

\* Seeded fault: the flag is cleared without looking for a newer push.
ClearAlways == FALSE
StillStale == project.stale /\ pass.touched

\* The settings of the tree, and the completion of the refresh.
Finish ==
    /\ pass.pc = "finish"
    /\ book' = IF pass.settings THEN [value |-> Tree.config, op |-> None] ELSE book
    /\ project' = [project EXCEPT !.stale = StillStale]
    /\ pass' = Idle
    /\ UNCHANGED <<git, chapter, note, item, form, ops, drain, crashes, hist>>
-----------------------------------------------------------------------------
(* A drain: commit, finalize, then the re-anchoring it owes.               *)

\* Seeded fault: the whole payload is rendered, not the changed field.
WholeConfig(e) == [edit[e].before EXCEPT ![edit[e].field] = "maintainer"]
\* The changed field, merged onto the file at the head.
Merged(e) == [Tip.config EXCEPT ![edit[e].field] = "maintainer"]

Ours == [Tip EXCEPT !.by = "us", !.change = "op"]

\* The trees an operation may commit.  A submission is applied, keeping the
\* annotated block or replacing it, if its target is still there.
Outcomes(o) ==
    IF o \in Notes THEN {[Ours EXCEPT !.files = @ \cup {o}]}
    ELSE IF o \in Edits THEN {[Ours EXCEPT !.config = Merged(o)]}
    ELSE IF Tip.block = "gone" THEN {[Ours EXCEPT !.task = "conflict"]}
    ELSE {[Ours EXCEPT !.rev = @ + 1, !.text = Len(branch) + 1, !.block = b,
                       !.task = "completed"] : b \in {Tip.block, "new"}}

\* Operations a divergence pauses: a drain passes over their rows.
Paused(o) == project.diverged /\ o \in ProseOps

\* A drain takes up what a crash left before anything new.
Commit(o) ==
    /\ Turn("drain") /\ o \in queue /\ ~Paused(o)
    /\ \A p \in queue : landed[p] = 0 \/ Paused(p)
    /\ \E tree \in Outcomes(o) : Extend(tree)
    /\ landed' = [landed EXCEPT ![o] = Len(branch) + 1]
    /\ wrote' = IF o \in Edits THEN [wrote EXCEPT ![edit[o].field] = "maintainer"] ELSE wrote
    /\ drain' = [pc |-> "landed", op |-> o]
    /\ UNCHANGED <<project, rows, form, edit, queue, pass, crashes, blind>>

\* After a crash the commit is found by its trailer and not made again.
Recover(o) ==
    /\ Turn("drain") /\ o \in queue /\ landed[o] # 0
    /\ ~Paused(o)
    /\ drain' = [pc |-> "landed", op |-> o]
    /\ blind' = IF o \notin Notes THEN blind \cup {"redo"} ELSE blind
    /\ UNCHANGED <<git, project, rows, form, ops, pass, crashes, wrote>>

\* The finalize batch: the record leaves its pending state and the row its
\* queue.  The chapter takes the outcome that was committed.
Finalize ==
    /\ drain.pc = "landed"
    /\ LET o == drain.op  tree == branch[landed[o]] IN
         /\ note' = IF o \in Notes THEN [note EXCEPT ![o].status = "open"] ELSE note
         /\ book' = IF book.op = o THEN [book EXCEPT !.op = None] ELSE book
         /\ item' = IF o = "apply" THEN [item EXCEPT !.status = tree.task] ELSE item
         /\ chapter' = IF o = "apply" /\ tree.task = "completed"
                       THEN [rev |-> tree.rev, text |-> tree.text, block |-> tree.block]
                       ELSE chapter
         /\ queue' = queue \ {o}
    /\ drain' = [drain EXCEPT !.pc = "hook"]
    /\ UNCHANGED <<git, project, form, edit, landed, pass, crashes, hist>>

\* Annotations whose revision lags the chapter's, whoever left them behind.
Owed == {n \in Notes : note[n].status = "open" /\ note[n].rev < chapter.rev}
AfterDrain ==
    /\ drain.pc = "hook"
    /\ note' = [n \in Notes |-> IF n \in Owed THEN Reanchored(n, chapter.block, chapter.rev)
                                ELSE note[n]]
    /\ drain' = Resting
    /\ UNCHANGED <<git, project, chapter, item,
                   book, form, ops, pass, crashes, hist>>

\* Seeded fault: a failed settings write keeps its row.
KeptBook(e) == book
\* The last config that reached Git, if the row still belongs to the operation.
Released(e) == IF book.op = e THEN [value |-> edit[e].before, op |-> None] ELSE book

\* An operation runs out of attempts and is failed with its releases.
Fail(o) ==
    /\ Turn("drain") /\ o \in queue \ Notes /\ landed[o] = 0
    /\ ~Paused(o)
    /\ queue' = queue \ {o}
    /\ book' = IF o \in Edits THEN Released(o) ELSE book
    /\ item' = IF o = "apply" /\ item.status = "submitted"
               THEN [item EXCEPT !.status = "conflict"] ELSE item
    /\ blind' = IF book'.value \notin {book.value, Tip.config}
                THEN blind \cup {"released"} ELSE blind
    /\ UNCHANGED <<git, project, chapter, note,
                   form, edit, landed, chain, crashes, wrote>>

\* The isolate is evicted, or a request to GitHub fails the pass.
Crash ==
    /\ ~Free /\ crashes < MaxCrashes
    /\ crashes' = crashes + 1
    /\ pass' = Idle /\ drain' = Resting
    /\ blind' = IF drain # Resting THEN blind \cup {"unhooked"} ELSE blind
    /\ UNCHANGED <<git, project, rows, form, ops, wrote>>

-----------------------------------------------------------------------------
Author == \E c \in Changes, f \in Fields : Push(c, f)
Webhook == \E k \in 1..Len(branch) :
              (\E seen \in BOOLEAN : MarkStale(k, seen)) \/ LoseHandler(k)
Api == \/ \E n \in Notes : Annotate(n)
       \/ Claim \/ EndLease \/ Submit
       \/ ReadSettings \/ (\E e \in Edits, f \in Fields : SaveSettings(e, f))
       \/ \E seen \in BOOLEAN : Clear(seen)
Refresh == \/ \E k \in 1..Len(branch) : Requested(k)
           \/ Alarm \/ Snapshot \/ Judge \/ Confirm \/ Rebuild \/ Reanchor \/ Finish
Drain == (\E o \in Ops : Commit(o) \/ Recover(o) \/ Fail(o)) \/ Finalize \/ AfterDrain

Next == Author \/ Webhook \/ Api \/ Refresh \/ Drain \/ Crash
Spec == Init /\ [][Next]_vars

\* Bound for TLC: behaviours with more than one of these are not followed.
OneBlind == Cardinality(blind) <= 1
-----------------------------------------------------------------------------
(* Properties.                                                             *)

\* Nothing is running, queued, announced or flagged: no refresh is owed.
Quiet ==
    /\ Free /\ queue = {} /\ form = None
    /\ ~project.stale /\ ~project.diverged
    /\ \A k \in 1..Len(branch) : hook[k] \in {"none", "done"}
Told == blind \cap {"second", "handler", "redo"} = {}

\* A push is never forgotten: when no refresh is owed the chapter's row and the
\* settings row are those at the head of the branch, however the webhooks,
\* their lost calls, the alarm, crashed passes and the book's own commits fell
\* out.  Not so when a push is marked within the second a pass observed, when
\* a webhook handler died between recording its delivery and the flag, when a
\* drain recovered a commit the branch had already moved past, or, for the
\* settings, when a failed write put back a config the branch had left.
ProjectionCurrent ==
    Quiet /\ Told =>
      /\ chapter = [rev |-> Tip.rev, text |-> Tip.text, block |-> Tip.block]
      /\ "released" \in blind \/ book.value = Tip.config

\* A settings row never waits for an operation that is no longer there.
SettingsNotStranded == book.op # None => book.op \in queue

\* Neither a settings write nor an edit in Git takes back the other's change:
\* each field of book.yml is what the last one to touch it wrote.
NoFieldReverted == Tip.config = wrote

\* An accepted annotation is never dropped by a rebuild, before its commit or
\* after it.
AcceptedNotesKept ==
    \A n \in Notes : n \in queue \/ n \in Tip.files => note[n].status # "absent"

\* A live annotation whose block is gone from the chapter is one the next
\* drain will find by its revision - however many drains died before their
\* re-anchoring - unless the author cut the block or took a revision back.
AuthorBroke == \E k \in 1..Len(branch) : branch[k].change \in {"regress", "cut"}
LostAnchorsAreOwed ==
    Free /\ ~AuthorBroke =>
      \A n \in Notes : note[n].status = "open" /\ note[n].target # chapter.block => n \in Owed

\* A project diverges only after its author broke it: never because of its own
\* commits.  (A flag a rebuild cleared, or a re-anchoring that crashed, leaves
\* an annotation that looks stranded until the next drain.)
DivergedForCause ==
    project.diverged /\ blind \cap {"reset", "unhooked"} = {} => AuthorBroke

\* A leased item is shown leased after a rebuild, unless it was claimed while
\* the batch was being built, or a rebuild took it back while its last
\* submission was in flight.
LeasedIsShown ==
    item.lease /\ blind \cap {"claim", "inflight"} = {} => item.status = "leased"

\* What a rebuild must not lose, however it races with drains, claims and
\* crashes: accepted annotations, the anchors still owed, and the lease an
\* item is held by.
RebuildLosesNothing == AcceptedNotesKept /\ LostAnchorsAreOwed /\ LeasedIsShown
=============================================================================
