# Authorbot in TLA+

Authorbot is a collaborative book platform whose source of truth is a Git
repository. People and agents annotate chapters, vote, claim work items, submit
edits and moderate through an HTTP API backed by a SQL database; a coordinator
turns accepted work into commits on GitHub and projects the repository back into
the database; the pages of the published book follow along through an event log.
This directory models the parts of it whose correctness depends on who does what
first.

    tlc -config leases_races.cfg MCLeases.tla     # one run (PROJECT.json lists all)
    tlapm LeasesProofs.tla                        # the proofs: also Decisions-, Requests-, Wizard-,
                                                  # GitOutbox-, Review-, Projection-, PageProofs

## Inventory

| Component (source) | State | Operations | Hard part | Correct when |
|---|---|---|---|---|
| Leasing (`apps/api/src/phase4.ts`, `leases.ts`, `database/.../leasing.ts`, `domain/src/lease.ts`) | `leases`, `work_items.status`, token hashes | claim, renew, recover, release, expire (lazy, takeover, sweep) | commands of two isolates interleave between read and batch; the sweep and commands find the same lapsed lease | one holder per item, one report per end, no lease past its cap, a leased item always moves on |
| Submission intake (`phase4.ts`) | `submissions`, the lease consumed by one | submit, review, apply, revoke | lease lapses, is revoked or is rotated after it was checked | a submission spends its lease and owns its item until settled |
| Serializer (`serializer.ts`) | one promise chain per project and isolate | run a command | holds inside one isolate only, and some routes bypass it | see `leases_serial`, `requests_serving` |
| Request pipeline (`auth.ts`, `idempotency.ts`, `rate-limit.ts`, `access-control.ts`, `phase7.ts`, `app.ts`) | memberships, sessions, agent tokens, gates, the moderation queue, keys with stored answers, counters | authenticate, look up a key, admit, count, then the command | everything read before the batch is old by then; retries under one key; several tokens of one person | one effect per key, a maintainer remains, no agent outlives its person, one allowance per person |
| Git outbox (`repo-coordinator/src/processor.ts`, `database/.../operations.ts`, `domain/src/git-operation-state.ts`) | `outbox`, `git_operations`, the persisted outcome | enqueue, drain, claim, prepare, commit, defer, fail, finalize, requeue | crash between any two steps; operator and revocation beside the drain | each operation is committed at most once, answered once, and the answer is what the branch says |
| GitHub writer (`git-github/src/writer.ts`) | the branch, commit objects | commit with trailer, ancestry and pinned head | the answer to a ref update is lost, the update is late | no double commit, no pinned commit on another head |
| Coordinator (`coordinator.ts`, `coordinator-do.ts`, `drain.ts`) | alarm, the chain of drains and refreshes | sweep, drain, refresh | eviction, alarms as the only retry | everything queued settles, a drain and a refresh never overlap |
| Votes, decisions, overrides (`phase3.ts`, `tally.ts`, `rule-engine`) | `votes`, `vote_events`, `decisions` | cast, clear, force-create, reject, cancel | tally is read before the vote is written | one work item per annotation; a decision is sticky |
| Annotations, replies (`app.ts`, `phase7.ts`, `domain/src/annotation-*.ts`) | annotation status, the queue of those to moderate | create, approve, reject, withdraw | racing decisions and moderators | status agrees with the decision; what was rejected is not published |
| Revision proposals (`revision-proposals.ts`) | proposal, submission, operation | submit, approve, reject | base revision moves under the review | an approval publishes what was reviewed |
| Chapter writing (`chapter-composer.ts`, `chapter-submissions.ts`, `submission-applier.ts`) | the plan of a write | revise, publish, compose, apply | stale base; failure and requeue | no lost update, item, submission and proposal agree |
| Projection (`reconcile.ts`, `projection/`, `reanchor.ts`) | projected commit, staleness, divergence, anchors | refresh, rebuild, reconcile, re-anchor | branch moves while it is read; rebuild meets live leases; crash between drain and re-anchoring | the rows come to say what the branch says, live state is kept |
| Settings (`settings.ts`, `book-config.ts`) | the settings row and its pending operation | save, merge, release | the author edits the same file; a failed operation holds the slot | no field is reverted, the slot is freed |
| Event log and stream (`phase3.ts`, `sse.ts`) | the log, the cursor | append, page, stream | all rows of a page filtered out | no visible event skipped |
| Page store and feed (`islands/project-store.ts`, `events.ts`, `work-queue.ts`, `work-claim.ts`) | what was read, the credential, the feed, keys, claims with their tokens | load, recover, purge, follow, claim, recover, release, submit | answers and rows arrive in any order; the credential changes; a reload | what is shown is current and was read under the present credential; a tab knows its own commands |
| Create wizard (`apps/create/src/wizard.ts`, `stages/`, `journal.ts`, `actions.ts`) | the journal, book.yml, wrangler.jsonc; the Worker, its secrets, the database, the GitHub Apps | book, publish, collaborate, unpublish | stops at any step and is run again; the stages rewrite each other's files | a Worker has one App's credentials, what exists is listed, the author's edits are kept |
| Publications (`publications.ts`) | deployments | callback, list | duplicates, reordering | not modelled |
| Publisher, CLI, schemas, Markdown parser, local Git writer, views | files | build, validate, upgrade, render | mostly sequential; upgrade resumes after interruption | not modelled |

Components interact through the database (every command ends in one atomic
`db.batch`), through outbox rows (a command enqueues, the drain executes),
through the branch (the writer moves it, the projection reads it, third parties
push to it), through alarms (the coordinator's only retry) and through the event
log (every command appends to it in its batch, pages read it). `PROJECT.json`
lists every component with its status, and every hazard at its line with the
properties that watch over it.

## Modules

| Module | Models |
|---|---|
| `Leases` | leases, the status of work items, and submissions up to their settlement |
| `LeaseSlot` | what leasing promises: a slot per item, filled with a fresh lease while it is free or its lease has lapsed, emptied, never refilled with an old one |
| `LeasesProofs` | proofs about `Leases`: what the SQL enforces, what the serializer adds, the refinement of `LeaseSlot` |
| `GitOutbox` | outbox, git operations, the drain, the writer and the branch |
| `Ledger` | what the outbox promises: an operation is written at most once, answered once, truthfully |
| `GitOutboxProofs` | proofs about `GitOutbox`: written once, answered truthfully, the refinement of `Ledger` |
| `Decisions` | votes, the rule, overrides, withdrawal, and the jobs that mirror them into Git |
| `DecisionsProofs` | proofs about `Decisions`: one work item, Git follows the rows, the rows follow the votes |
| `Requests` | a mutating request from authentication to its batch, and the control plane's commands |
| `RequestsProofs` | proofs about `Requests`: keys, tokens, allowances, the last maintainer, moderation |
| `Projection` | webhooks, the refresh pass, rebuild, re-anchoring, settings, and the API and drain beside them |
| `ProjectionProofs` | proofs about `Projection`: nothing missed, stranded, reverted, lost or blamed without cause |
| `Review` | proposals, work, direct revisions and publishing on their way to one chapter |
| `ReviewProofs` | proofs about `Review`: what a write may replace, and one story in every table |
| `Feed` | the event log, the stream or the polling, and the store of a page that follows it |
| `PageClaims` | one tab's claim: commands, answers, rows, storage and reload |
| `PageProofs` | proofs about `PageClaims` (tokens that work, submissions known, claims given up for cause) and `Feed` (no row missed, old credentials forgotten) |
| `Wizard` | the setup wizard's stages, stopped anywhere and run again, and what they make |
| `WizardProofs` | proofs about `Wizard`: credentials, the list of what was made, the author's edits |
| `MC...` | symmetry, fault budgets, electorates and command menus for TLC |

Each specification also holds operators marked "Seeded fault": the form a
plausible bug would give to one definition (a dropped comparison, a missing
index, a row left out of a batch). Nothing refers to them; substituted for the
definition beside them they break the property `PROJECT.json` pairs them with,
which shows that the property depends on that line of the code. Every component's
module has a type invariant `TypeOK` (`FeedTypeOK` in `Feed`), and each is proved.

How the modules meet. `Leases` stands on one side of a submission and `Review`
on the other: `Leases` has a drain of five actions for what `Review` does step by
step, and `Review` begins with an item leased. The revocation of access runs
through three modules: what it does to leases and to work other people hold is in
`Leases`, to the outbox row and the branch in `GitOutbox`, to the proposal and the
artifact in `Review`. `GitOutbox` has the drain, the
writer and their faults in full and does not care what is written; `Review` and
`Projection` care what is written, and have a drain that lands, contends, fails
or dies. `PageClaims` sees the leasing API from a browser: its server is the
answers and rows `Leases` produces, not the races behind them. `Feed` knows
nothing of the content of rows, `PageClaims` nothing of how they arrive. `Wizard` runs before all of
them and shares nothing with them but the configuration it deploys.

### Leases

A command handler reads rows, decides, and runs one batch. So a command is two
actions of an isolate `p`: `ClaimRead`, `RenewRead`, `RecoverRead`,
`ReleaseRead`, `SubmitRead`, `CancelRead`, `RevokeRead` record in `req[p]` what
the handler saw and will write; `...Batch` re-checks exactly what the SQL
re-checks (`ClaimCommits`, `RenewCommits`, ... are the WHERE clauses, NULL-abort
guards and the partial unique index `SlotFree`) and writes. When the guard fails
the batch rolls back (`Abort`) or, for statements that are plain no-ops, writes
only its unconditional part: the batch of a release still announces
`lease_released`, and the batch of a cancel writes whatever the status is now.

* `Isolates` are the processes of the serializer: each has one command between
  its read and its batch. `Unserialized` are requests that bypass the serializer
  (`DELETE agent-tokens/:id`).
* A token is a generation number: recovery rotates it, a command carries the
  generation it verified.
* `Expire` is `expireLeaseStatements` followed by the event and the reset of the
  item, used by `LazilyExpire` (a command meets a lapsed lease), `ClaimBatch`
  (takeover) and `SweepExpire`. The sweep lists first and expires later, one
  batch per lease.
* `ended` counts the announcements of an end; `gone` is who lost access.
* `Approve`, `RejectReview` compare everything they rely on inside their batch,
  so each is one step.
* `job[l]` is the outbox row of a submission. The drain takes it (`TakeJob`), holds
  it in memory and never reads it again: `Settle` writes the item's status without
  comparing it and only the submission's is compared, `FailJob` is `failOperation`,
  which compares both, `DropJob` is the coordinator's death and `RetryJob` the
  operator's requeue. A revocation fails the row at any of these moments; one in the
  drain's hands becomes `stopped` and is carried to its end all the same.
  `Overrun` names the items to which that happened, and `InFlightOwnsItem` excepts
  exactly the status of such an item.
* In `LeaseSlot` a slot is taken only while it is free or from a lapsed lease, and
  only by a lease never used before.
* The single retry of a claim after a constraint error is `Abort` followed by
  another `ClaimRead`. `recover` reads before the serializer as well, but its
  batch compares all of it. `listExpired`'s limit of 100 is not modelled.

### GitOutbox

`drain` is the memory of the running drain; everything else is in the database
or on GitHub. `drain.pc` says where it is: `pick` (choose a row), `claim`,
`step` (one turn of `processRow`'s loop), `write` (`commitFiles` up to the
commit object), `patch` (the ref update is in flight), `landed`, `defer`,
`deferred`. Every database write is an action, so `Crash` may come between any
two. A commit records its author operation, the head it was built on (`base`)
and whether it records the change or its conflict (`result`); the length of
`branch` identifies its head.

* Kinds: `Applies` (`submission.apply`: outcome persisted, re-resolved on a new
  attempt), `Writes` (`chapter.write`), `Documents`
  (`repository_document.write`: never persisted), `Settings`
  (`book_config.update`: pinned to the head its file was read from, not persisted),
  and the rest, which render a row and can be rebuilt on any head.
* `Write` settles "did I land?" first by ancestry (`Recorded`), then by the
  trailer (`Scanned`, bounded), then compares the pinned head, then creates the
  commit and persists its SHA. Its reads of the head are one step: the
  compare-and-set in `PatchLands` decides what they were worth.
* `PatchUnheard` is an update whose answer is lost, `PatchLost` one that never
  arrives, or with `Late` arrives any time later (`LatePatch`).
* `RetryRead` and `RetryBatch` are the operator's requeue; the check precedes the
  serializer, so they are two steps. `Revoke` is the cascade's effect on a row.
* `HandBack` ends a deferral. A row the drain took from the queue is not taken again
  by the same drain; one it resumed may be.
* `Oldest` and `Before` are the `ORDER BY created_at` of the drain. In `Ledger`,
  `Interject` is what somebody else (`Foreign`) pushes.
* `born`, `now`, `MaxDeferral` carry the deferral deadline. Rows with equal
  `created_at` keep the order of insertion.
* `processRow` on an operation already `committed` or `failed` is left out: both
  are written in the batch that also finishes the row, so the drain never meets
  them, except after a double requeue, where the row is done. `MAX_STATE_STEPS`
  (32) exceeds what `MaxAttempts` allows.

### Decisions

A source of work is a suggestion or one reply to it; a work item is named by its
source. As in `Leases` a command is a read and a batch.

* `VoteRead` takes the committed tally (`vote`), adjusts it by the vote being
  cast and evaluates the rule on the result; `VoteBatch` writes the vote and, when
  it crosses, the decision. `Promotes` is what the SQL re-checks: the unique
  indexes on `create_work_item` decisions (`IndexFree`, one per annotation and one
  per reply) and the compare-and-swap of the annotation's status. A reply's status
  is not compared. A vote that does not cross re-checks nothing.
* `Promote` is `buildCreationStatements`, shared by a crossing and by
  force-create. `marked` is `support_changed` of the rule's decision.
* `OverrideRead` and `OverrideBatch` are reject and reopen. Their own decision
  rows are not modelled: their index can only abort a batch that then succeeds
  when the handler retries it.
* `cancelRow` is the annotation's one `cancel_work_item` decision. Its job names
  the decision row, not the work item, and the row is read when the job runs.
* `Unserialized` are withdrawals, which do not enter the serializer. They queue a
  job; the row changes when the job lands.
* `file` and `itemFile` are the statuses in the Git artifacts. A job renders rows
  as they are when it is drained (`DrainPromote`, `DrainCancel`), or what it was
  queued with (`DrainOverride`), and `DrainApply` is `submissionApplySyncStatements`
  beside what the applier renders. The drain works in order and does not fail:
  failure is the subject of `GitOutbox`.
* `Submit` stands for all of `Leases`: an item that is ready is claimed and
  submitted. `leased` is not told from `ready`, since Git does not mirror it.
* `serving`, chosen at the start, is the set of isolates in use, so one run checks
  what holds for any number and, under `Lone`, what needs the serializer.

Votes on comments (which can never cross), rules of several versions, and the
votes' idempotency keys are left out.

### Requests

A request is `Arrive` (authentication and the idempotency lookup), `Gate` (the
project guard: membership, scope, freeze and pause, then the limiter), `Read`
(the handler, inside its isolate's serializer when `Serialized`) and `Commit` or
`Fail` (the batch that carries the command and the claim of its key). Each is
an await in the code, so what a step read is old in the next.

* `claims` is `idempotency_keys`; `KeyFree` is its unique index. A loser's batch aborts and it replays the winner's
  answer (`AnswerFrom`) or reports that the key was used for something else.
* `count` is `rate_limit_counters` of the current window, one counter per actor
  and class; `Owner` is why an agent's request also counts against the person
  who minted it. `NextWindow` empties them.
* `Serialized` says which routes enter the serializer: minting, revoking one
  token and annotating do not.
* `Remove` is the removal batch with the tokens it had listed (`Minted`); what
  it does to leases and submissions is `RevokeBatch` in `Leases`.
* `Targets(op)` are what a route's path can name: a moderation names a note, a
  revocation a token.
* Signing out, the development login and bulk moderation are left out.

### Projection

`pass` is the refresh the coordinator runs, `drain` the drain; they exclude each
other (`Free`), and nothing excludes the API, whose actions write the same rows
at any point of either. A pass is `Observe`, `Snapshot`, `Judge`, `Confirm`,
`Rebuild`, `Reanchor` and `Finish`, cut where the code awaits; the reads of the
book and the re-anchoring are one step, and so are the write of the settings
row and the completion of the refresh, because nothing the other actions do
tells the halves apart.

* `Confirm` re-reads the head before it declares divergence: where it has moved the
  pass only marks the projection stale, where it has not, or cannot be read, it
  declares. While a project is diverged its prose is `Paused`: a drain passes over
  such rows, also over one that has landed and is still to be recorded, and goes on to
  those behind.
* `hook[k]` is the delivery for commit `k`: recorded, then the flag set, then
  the coordinator called (`MarkStale`, `LoseHandler`, `Requested`, `Alarm`).
* `updated_at` has a resolution of one second and is what `StillStale` compares;
  whether a push falls in the second the pass observed is a choice in `Touch`.
* `blind` records, for each way a projection is known to lag behind, that it
  happened: a push marked within the observed second, a handler that died
  between the delivery and the flag, a drain that recovered a commit the branch
  had moved past, a failed settings write that put back an old config, a rebuild
  that reset a flagged annotation, a drain that died before re-anchoring, a
  claim during the batch, an item in flight. The properties say which of them
  they except. The run's constraint `OneBlind` follows behaviours with at most
  one of these at a time.
* A note, a settings change and an application are one operation each; deletion
  of chapters, several chapters and the reader's pagination are left out.

### Review

`Propose`, `Submit`, `Revise` and `Toggle` are the four ways a write begins,
`Consider` and `Decide` a reviewer's reads and batch, `Turn`, `Pin`, `Plan`,
`Land`, `Finalize` the life of its operation, and `GiveUp`, `Contend`, `Refuse`,
`Fail`, `Retry` what may go wrong with it. A file's text is the set of
contributions it holds, which is all that "overwritten" needs.

* `Composable` is what the composer or the applier compares before it rewrites a
  file: a chapter write compares revision numbers, whole-chapter work the whole
  file it was leased on.
* `Linked` finds the proposal an operation belongs to, `Stands` what the batch
  of a verdict compares, `Release` what a failed operation lets go.
* `Refresh` is a rebuild as far as items and the chapter's row go, `Push` the
  author's commit, with or without a new revision number.
* `RevokeReads` and `RevokeCommits` are the cascade that takes an item from a holder
  who loses access. It reads the submission's state, and its batch rejects the
  submission, fails its outbox row (`stopped`) and frees the item where the states
  still match; it writes neither the proposal nor anything the drain holds in memory
  (`held`). A proposal whose submission was rejected this way stays `pending_review`
  or `applying` for ever.
* New chapters, proposals of a summary alone, repository documents and the
  pause of a diverged project are left to the other modules or out; so is what
  becomes of an item that was given back (the next claim is another submission, which
  `Leases` has).

### Feed

`page` is the store of one page: the credential it last learned of, the one
resource it shows, the read of it under way and whether another is queued, the
session read, a recovery, a start, a retry timer and the feed. `log` is the event
log, `cookie` the credential the browser would send now. A read is answered from
the state at the moment it is sent, the stalest answer it can get; the first
page of the log and a poll answer in one step.

* `Start`, `Prime`, `Recover`, `RecoveryDone`, `Follow` are `startEvents`; `Purge`,
  `LearnSession`, `LoseSession`, `Reloaded` are `loadSession`; `Load`, `Deliver`
  the coalesced reads; `OpenStream`, `Pump`, `ReceiveFrame`, `StreamLost`,
  `StreamRefused` the stream; `FallBack`, `PollOnce`, `PollFails` the polling. A 404
  or 405 of the log is permanent: the page says `idle`, follows nothing and retries
  nothing.
* `gen` is `authorizationGeneration`: what was asked under an older one is
  dropped when it is answered.
* `Identity` is what `/v1/me` makes of a credential; a public reader is refused a
  stream and polls a filtered log.
* `noticed` is history: the credential in force when the page last found its reader
  changed.
* `Nil`, `FeedInit`, `FeedNext`, `feedVars` have names of their own so that one proof
  module can extend `Feed` beside `PageClaims`.

### PageClaims

`tab` is the memory of the tab, `saved` its session storage, `call` its command
in flight, `answers` what the server keeps under its keys (tokens redacted) and
`rows` the log about this item. Answers and rows reach the tab independently.

* `AfterRow` is `refreshForEvent`: which rows make the tab drop its claim, and
  which it knows as its own (`OwnRecovery`, `OwnSubmission`).
* `LoseCall` loses a request or its answer; the command is sent once more, a
  recovery under a new key and anything else under the old one. A submission sent
  again under the claim of a later lease is the one sent last (`last`), whose
  acceptance the tab owes its reader.
* `reviewed`, chosen once, tells what becomes of a submission. Where it waits for a review its row
  carries no operation, so `Received` only notes it in the tab: the claim stays, and
  nothing is shown as accepted.
* The tab has a claim before it has saved it: `TakeClaim` is the answer, `SaveClaim`
  what follows the reads that the answer causes. A reload between the two loses the
  claim, a row between the two may end it. The reads themselves succeed.
* `Refresh` is a reload: the feed begins at the end of the first page of the log,
  which is the end of a short log and the beginning of a long one.
* Another tab, another client and the sweep are `Other...`, `Lapse`, `Sweep`.
  Renewal is left out, and the tab has one command under way at a time. Left out too
  are a submission that is given back (rejected, revoked or failed), after which the
  item could be claimed again, the button that discards a saved draft, and a text
  sent again under its first key after another text was sent.

### Wizard

`run` is the one process: where it is in its stage and what it holds in memory.
`Start(s)` begins any stage whose preconditions (`Ready`) hold, since each has a
command of its own and a bare run is one stage after another. Every write to a
file, to the journal or to a service is an action, so `Stop`, which stands for a
kill, a failed command, a failed check or a refusal, may come between any two.

* `Write` and `Remember` are `actions.writeFile` and the digest the journal keeps
  of what the wizard wrote: a file whose bytes are not `Ours` is replaced only
  after the author was asked (`run.asked`). `Record` sets a field of the journal,
  `List` adds to what the closing report names.
* `Scaffold`, `CreateRepo` and what follows are `book`; `PublishConfig` to
  `SiteAnswers` `publish`; `ReuseDb` to `Redeploy` `collaborate`; `Delete`,
  `Forget`, `LeaveBehind` `unpublish`.
* The API's client id is in wrangler.jsonc only (`ClientOnDisk`), its secrets in
  the Worker only; the journal has the App's id and that its key was stored.
* `Edit` and `DeleteJournal` are the author's, between runs; an edit made while a run
  waits at its overwrite prompt is left out. A journal that cannot be read is a
  deleted one. An absent wrangler.jsonc is as good as the static one.
* `Verify` needs an API that answers with the ids of an App and a migrated database.
  Whether the secrets are there it can tell only from a health report, and passes
  over one it cannot read. `Migrate` needs the database the run knows to exist.
* A deletion that fails is taken for done if its output says "not found" of anything
  (`Misread`): the resource leaves the list and stays.
* `cut` and `carried` are history, for the exceptions the properties state.

The teardown of the repository, the stages that make nothing (doctor, agent,
upgrade), dry runs and prompts are left out.

## Runs

| Run | Instance | States | Shows |
|---|---|---|---|
| `leases_serial` | 1 item, 2 leases, 2 actors, 1 isolate | 2,161,048 | what needs the serializer: `ReadyIsFree`, `InFlightOwnsItem`; and liveness: `LeasedMovesOn` |
| `leases_races` | 1 item, 2 leases, 1 actor, 2 isolates | 3,976,246 | what the SQL alone enforces: `OneActiveLease`, `EndReportedByWinner`, `SubmissionEndsLease`, `CapRespected`, and that the table implements `LeaseSlot` (`SlotSpec`) |
| `outbox_crash` | a submission, a chapter and a note, or a settings write and one of them; 1 crash, 2 foreign pushes, 1 divergence | 1,779,702 | `PromiseKept` (the outbox implements `Ledger`), `OutcomeMatchesCommit` |
| `outbox_wire` | a submission and a document; late updates, a deadline, 3 budgets of faults: crash, outage, requeue and revocation; crash, outage and divergence; outage and push | 1,998,852 | `CommittedOnce`; and liveness: `Settles` |
| `decisions_core` | 1 suggestion, 1 reply, 2 voters, 1 or 2 isolates, 1 withdrawal | 2,368,190 | `OneWorkItem`, `DecidedStays`, `GitFollowsRow`; with one isolate `VotesDecide` |
| `requests_serving` | 2 people, 2 tokens, 1 queued note, 2 requests with any command, 2 keys, 2 isolates | 918,814 | `KeyMeansOneCommand`, `NoOrphanedAgents`, `AllowancePerPerson`; with one isolate `HumanMaintainerRemains`, `RejectedNotPublished` |
| `projection_refresh` | 1 note, 1 settings change, 1 work item, 2 fields, 2 more commits, 1 crash | 4,436,155 | `ProjectionCurrent`, `SettingsNotStranded`, `NoFieldReverted`, `RebuildLosesNothing`, `DivergedForCause` |
| `review_apply` | one write of each kind, at most 2 of them begun; 1 push, 2 reviewers, 2 attempts, 1 failure, 1 requeue, 1 crash, 1 revocation | 4,556,281 | `NothingOverwritten`, `PublishedProseReviewed`, `VerdictMatchesBranch`, `WorkAgrees` |
| `feed_page` | 3 rows, pages of 2, a member who signs out, 1 fault, 1 leave | 904,826 | `CursorCovered`, `OldCredentialForgotten`; and liveness: `CatchesUp` |
| `claims_page` | 2 leases, 3 tokens, 4 commands, 2 losses, 1 reload; submissions that apply at once or wait for a review | 3,454,175 | `HeldTokenWorks`, `ToldForCause`, `OwnSubmissionKnown` |
| `wizard_setup` | 2 Apps, 1 database, 2 edits, 1 deleted journal | 14,178,228 | `CredentialsMatch`, `DoneIsListed`, `EditsKept` |
| `claims_refresh` | 1 lease, 3 tokens, 2 reloads, nothing lost | | fails: `ClaimSurvives` |

`claims_refresh` is expected to fail. It checks a promise the code states about
itself, "A claim survives a refresh" (work-queue.ts:155). A tab claims an item and is
reloaded; its recovery replaces the token and appends `lease_recovered`. It is
reloaded again, has the token replaced again, and starts its feed at the end of the
first hundred rows of the log. The row of its first recovery arrives, names a
correlation only the first page load knew, and makes the tab drop a token that works.

Three properties are conjunctions of named parts. `SubmissionEndsLease` is
`PendingItemHasNoLease` (an item with a submission pending is held by nobody) and
`SubmissionSpendsLease` (the lease it was made under
is released and was not reported expired).
`RebuildLosesNothing` is `AcceptedNotesKept`, `LostAnchorsAreOwed` and
`LeasedIsShown`: what was accepted survives a rebuild, an annotation whose block
went is re-anchored or owed, an item on lease is not shown as free.
`OwnSubmissionKnown` says that what a tab shows as accepted the server has taken
from it, and that a tab that has caught up with the log shows it, or, where submissions
wait for a review, remembers that it was received. `WorkAgrees` says more of an item
that was left to its holder than of one a rebuild or a revocation took back: of the
latter that it is free or as its artifact says, and that rejected work is not taken
up again unless a maintainer requeues it.

### What the models show

What follows was found while modelling, by TLC or by reading the code for a
guard; each is why a property is stated as narrowly as it is.

Leasing. The batch of a release whose lease was taken over meanwhile by another
isolate puts the new holder's item back to `ready`; two isolates can shorten a
lease by renewing it (`renewCasStatement` does not compare the expiry it
extends) and overwrite a submission by a cancel (its status write is
unconditional). The deletion of an agent token can list a submission in flight,
be overtaken by its settlement and another actor's submission, and reset that
actor's item; so `InFlightOwnsItem` is checked without requests outside the
serializer. A revocation that meets a submission in the drain's hands frees the item
while the drain goes on: it writes the item's status without comparing it
(processor.ts:1783, 1848), whoever has claimed or submitted it by then. That one way
of losing an item is what `InFlightOwnsItem` excepts (`Overrun`).

Outbox. When a ref update lands, its answer is lost and the operation is
deferred, the next attempt has another number, the persisted outcome is
discarded and the applier runs over its own commit: an applied edit is recorded
as a conflict (processor.ts:1231 against the comment at 1753-1756). So
`OutcomeMatchesCommit` is checked without outages. A repository document that landed
before a crash is found changed, by itself, on replay and fails
(processor.ts:1429). A deferred row is overtaken by later ones and its attempt stays counted. A
drain does not re-read the row it holds, so a submission that a revocation
withdraws at that moment is still applied, though the cascade says "The queued apply
must not land after the author lost access" (phase7.ts:194). Two requeues that both passed the
check before the serializer can reopen an operation that has landed in between.
`CommittedOnce` needs `ScanDepth` to cover the commits pushed since an
overwritten attempt.

Decisions. Two qualifying votes in two isolates can each miss the other, and
nothing evaluates the rule again (phase3.ts:716). Applying a reply's work item
renders its suggestion as accepted in Git while the row stays open
(processor.ts:1301). The second cancellation under one annotation takes over the
decision row of the first (phase3.ts:1420). A withdrawal queued before a decision
and drained after it leaves the row withdrawn under a work item; `GitFollowsRow`
excuses withdrawn rows for that reason.

Requests. Two isolates can each remove the other's last maintainer, and publish
a note that was rejected: the resolution that loses matches no row, but the
insertion in the same batch is not undone and the batch does not look at the
count (phase7.ts:1284; access-control.ts:228-236 expects the caller to). Both are
claimed under `Lone`. A token minted while its owner is being removed survives
(`raced`).

Projection. Besides the cases of `blind` above: an application that crashed
between commit and finalization and is followed by a refresh makes the project
diverge and thereby pauses the recovery that would explain it, until a
maintainer clears the flag. A rebuild that meets a flagged annotation sets it
back to `open` at its old revision, or a drain dies before re-anchoring; an
ordinary push then looks as if it had removed anchored blocks. That is why
`DivergedForCause` excepts `reset` and `unhooked`. An item whose submission is in
flight is put back on offer by a rebuild (`inflight`).

Review. A chapter write compares the revision number of its base only
(chapter-composer.ts:125), so an author's push that keeps the number is
replaced without a conflict; `unnumbered` excepts exactly those words. A failed operation
whose proposal was settled as `conflicted` can be requeued but will always fail
again; one of a range submission lands while its submission stays
`conflicted` (`retried`). An item a rebuild took back while its submission was
under review can no longer be decided upon, and if its operation fails the
submission stays `applying` (`reset`). `submissionApplySync` keeps the status
column of the row, so a direct revision can be admitted for a chapter already
published. A work item in `conflict` has no route back to `ready`. A revocation tells no
proposal: one whose submission it rejected stays `pending_review`, which no reviewer
can resolve, or `applying` with no operation coming.

Feed. A stream that had been open and whose reconnection is refused is closed by
the browser for good, while the page says it is retrying (events.ts:252-266). Only
identities are compared (project-store.ts:1127-1170), and every reader without a
membership has the same one: if a signed-out reader signs in and out again while the
page is not looking, the page keeps what it read in between, the member's data
included. `OldCredentialForgotten` therefore counts from when the page last found its
reader changed (`noticed`); TLC refuted an earlier form, which counted from the
credential last learned of, when it was repeated with such a reader for the proof. A
page left and entered again within one recovery takes that recovery's older
answers for its own (`joined`); a read that a row caused is not repeated when it
fails. Anything but a success of `/v1/me` counts as signed out and drops the
claims' tokens with everything else.

Claims. A row that ends a lease names it, but the tab does not compare: the
batch of a claim appends the expiry of the lease before it, and that row makes
the tab drop the claim it has just been given (`overtaken`). A row read before
the answer that makes the tab a holder finds nothing to drop (`late`). A claim
whose answers were lost and whose lease ended keeps its key, and every retry
replays the dead claim until a reload. A submission lost twice and then edited
has a new key, and its acceptance reads as "ended in another session". Where
submissions wait for a review, one lost twice is not recognised at all: its row names
no operation (phase4.ts:1149), so the tab takes nothing for accepted and goes on
holding the lease the submission consumed, against the comment at
project-store.ts:3720 ("Do not revive an already-consumed lease merely because both
HTTP responses were lost"). `HeldTokenWorks` and `OwnSubmissionKnown` say for that
case only what is left of them.

Wizard. `publish` (or `book`) run again after `collaborate` replaces
wrangler.jsonc, which is the wizard's own, by one without the API: the deployed
site keeps controls that lead nowhere, and the next `collaborate`, which finds no
client id in the file, creates a second App. When that run stops between storing
the new App's secrets and deploying, the Worker that was deployed earlier has the
first App's client id and the second's secrets; `CredentialsMatch` therefore
speaks of a Worker that runs the configuration on disk. An App whose installation
was recorded but whose configuration was not written is not used again. A
repository made by a run that stopped before listing it is never listed, and
`book` then meets "already exists". After `unpublish` the journal keeps the id of
the deleted database, so `collaborate` fails at the migration until the journal is
deleted; after one that deleted only the Worker it finds the App and the names of its secrets
in the journal, stores none and deploys a Worker without any, against "A stage marked
done re-reads the world before skipping work" (journal.ts:13); this is why
`CredentialsMatch` claims all secrets or none. The
check of the deployed Worker then refuses, but repeating the run does not help. A
resource whose failed deletion said "not found" of something else leaves the list
though it exists. A book.yml that `collaborate` wrote with the author's edits in it counts
as the wizard's own, and `book` replaces it unasked (`carried`).

### Bounds

`Horizon` caps the clock. In `leases_serial` a lease of 1 tick is renewed by 2 up
to a total of 3, so that a renewal counted from the old expiry differs from one
counted from now, and 4 ticks let it lapse and be taken over; in `leases_races` a
renewal asks for more than the total of 2 leaves, so that the cap matters.
`MaxTok` caps recoveries: one rotation is enough to make a verified token stale,
and `leases_serial` needs none. Two leases of one item are a holder and its
successor, also where a drain still holds the submission of the first; a third would
repeat the second. Two isolates are the pair every race needs; the proofs drop all these bounds. In the outbox, each member of `Budgets` is
a scenario that caps every fault (the run chooses one at the start; a crash, an
outage, a requeue, a revocation and a divergence at once, 6,193,711 states, were run
for `CommittedOnce` besides), `MaxAttempts` and `WriterTries` are 2 (one failure and
one retry), `ScanDepth` covers the whole branch, and two or three operations give an
order to disturb: in `outbox_crash` any three, or a settings write and one other (`FewOps`). That a note or a
settings write lands once under late ref updates is left to the theorem
(`WrittenOnce`); `outbox_wire` has a submission and a document. In
`Decisions` one suggestion and one reply are two sources of work under one
annotation; one voter approves and one rejects, so the rule can come to hold and
cease to; `MaxQueue` is 2, a withdrawal overlapping a decision or two
cancellations.

In `requests_serving` two requests are a pair that can race, retry or reuse a
key, and ceilings of 1 are reached by the second. `projection_refresh` has two
commits besides the first, of the author or the book: one that a pass reads and
one that it misses; one crash, and `OneBlind`. `review_apply` lets two writes of
the five begin, in every combination and order; `MaxAttempts` 2 is one contention
and one more. One revocation (`MaxRevoked`) strikes the holder of either item, and only while
no write but the items' own has begun and at most two of the three mishaps happen
(`OnlyWork`): it touches nothing that another
kind of write reads, each item tells its own story, and the second is there to be
drained in between. In `feed_page` three rows are a page and a half, so the first page
of the log is not its end; one fault, one leave and one change of credential meet
every interleaving of reads; the run was repeated with two faults (3.7 million states), and its two
invariants with a reader who signs in and out again (2.6 million) and with two members
before two public readers (12.4 million). In `claims_page` two leases are the tab's and
one before or after it, three tokens a claim and two recoveries; it was repeated
with four tokens and two reloads (15.5 million states). In
`wizard_setup` two Apps are one and its successor, two edits fall in one file
twice or in both, and one deletion of the journal meets every state it can be
deleted in; it was repeated, with one edit, for three Apps and for two databases (12.0 and 9.1 million states).

### Fairness

`FairSpec` of `Leases` assumes that the clock advances, that a command that has
read reaches its batch or fails, and that the coordinator's alarm runs the
sweep (`coordinator.ts` reschedules the alarm on every path). It assumes nothing
of clients: no claim, renewal, release or submission has to happen. `FairSpec`
of `GitOutbox` assumes the alarm runs the drain and the clock advances; faults
are bounded by their budgets but not otherwise constrained. `Settles` excepts
prose while the project stays diverged, since the pause is meant to hold until
someone resolves it. `FairSpec` of `Feed` assumes that something the page or its
server owes is eventually done as long as anything is owed: timers fire, reads
are answered, the browser reopens a stream, the server's interval pumps. Rows,
sign-ins, elements that come and go, and faults are not assumed.

## Proofs

Eight modules prove, for every value of the constants, every invariant and every
action property the passing runs check and both refinements; five theorems have a
hypothesis, named below. All
have one shape. `Inv`, the inductive
invariant, is the conjunction of named parts that the module states first; one
lemma per action (or per kind of step, where actions agree) says that a part
survives it; the theorems follow from `Invariance`, which is `Spec => []Inv`. TLC
checked every `Inv` on an instance before it was proved, and most changed: the
part that was missing each time is what the sections below explain. Parts of
`Inv` that speak of a single isolate (`Serial`, `Lone`) are inductive only beside
the rest and are proved on top of it.

### LeasesProofs

For any number of items, leases, actors and isolates, any durations and any
horizon:

* `Inv` = `TypeOK`, three strengthenings and the safety invariants of `leases_races`.
  `JobsHaveSubmissions`: an outbox row belongs to a submission that passed its
  review or needs none; `SettledForGood`: an item a submission was settled on is not
  worked on again, so a drain that overran can disturb only work still in flight.
  `RequestInv` is the strengthening: what a command in progress
  remembers of its lease is still what the row says in the columns that never
  change (item, holder, cap), the lease exists, and what a sweep or a command calls
  expired was so at a moment no later than now. Without it a batch could write a
  row of another item.
* One lemma per kind of step says how it changes lease rows (`ClaimRows`,
  `TokenRows`, `ReleaseRows`, `SubmitRows`, `RevokeRows`, `ExpiryRows`), `RowsStep`
  joins them, and each invariant is preserved from those summaries instead of
  from the forty actions. `Activation` and `ClaimSlot` carry `OneActiveLease`:
  only a claim activates a lease, and it does so only in a free slot.
* `SlotSpec` follows from `Inv` step by step (`SlotFacts`). The refinement maps an item
  to its active lease, which `OneActiveLease` makes unique, and what has lapsed to the
  leases past their expiry; a claim is shown to find its slot free, or to take it from
  a lapsed lease. `SubmissionEndsLease` is proved in its two parts (`PendingFree`,
  `SubmissionSpends`), which `SubmissionEnds` joins.
* `QueueIsTrue` and `SubmissionOwnsItem` are `ReadyIsFree` and `InFlightOwnsItem`
  where commands run one at a time (`OneAtATime`; for two isolates both are false,
  see above). One at a time does not mean alone: the sweep, the clock and the
  coordinator move between a command's reads and its batch. `Undisturbed` says what
  nevertheless still holds of what the command found: the lease it renews has not
  had its item taken, and an expiry the sweep listed of an earlier lease will not
  take it; `Serial` is that and the two properties. In a settlement `InFlightOwnsItem` is kept
  by two arguments: a drain whose submission still stands moves its own item, and one
  whose submission was rejected leaves an `Overrun` item (`StaysOverrun`).

The runs give `leases_races` no request outside the serializer; the theorems
cover them as well (`Processes` includes `Unserialized`).

### DecisionsProofs

For any suggestions, replies, electorate, thresholds and isolates:

* `Inv` is `OneWorkItem`, `DecidedStays` and `TypeOK`: what a command remembers
  needs no strengthening, because the unique indexes and the status comparison of
  the batch alone carry both, which is what a reader of the code should conclude.
  `PromoteTyped`, `EnqueueTyped`, `DrainTyped` say once what the shared parts of the
  actions write, and `PromoteKeeps` is the argument: a free index makes the new
  decision and the new item the first of their source.
* `RepositoryFollows` is `GitFollowsRow`. `QueueInv` says of every suggestion and
  every item that its file agrees with its row, or a job that will make it agree is
  in the queue with nothing behind it that would undo that. `AppliesLast` is what
  makes this inductive: an application is queued after everything that was decided
  of its source, so that no earlier job renders the item a second time.
* `TheVotesDecide` is `VotesDecide`, of behaviours in which a single isolate serves
  (`Lone`). `VoteInHand` says that what a vote in progress has worked out still
  holds at its batch, `UndecidedUnmet` that neither an open nor a rejected
  suggestion satisfies the rule, so that reopening it cannot make the votes decide
  late. It assumes `Selective`, a rule that an empty ballot does not meet: nothing
  evaluates the rule before the first vote, so a rule of no thresholds at all would
  leave a new suggestion open that satisfies it.

### RequestsProofs

For any number of people, tokens, requests, keys and isolates:
`KeyMeansOneCommand`, `NoOrphanedAgents`, `AllowancePerPerson`, and under `Lone`
`HumanMaintainerRemains` and `RejectedNotPublished`. The parts of `Inv`: one claim
per key and a claim behind every success (`KeysBound`); tokens are minted by people
only, so the chain of owners has length one (`Minters`); a removal in progress has
listed, or raced with, every agent of its target (`RemovalsCover`); who was let
through was counted (`AdmittedCounted`); the command between its reads and its
batch holds its isolate (`Serial`). `Protected` is what a single serializer adds:
the second maintainer, and the queued note, that a command found are still there.

### WizardProofs

For any number of Apps, databases, edits and deleted journals: `CredentialsMatch`,
`DoneIsListed`, `EditsKept`. `Inv` is `Shape`, `TypeOK` and four stories.
`Credentials`: the App in the file is the one whose secrets are set, unless none are
(`FileKnown`), whatever was deployed with tables has them still (`TablesMade`),
and, at every step of a stage, what the process has done so far (`Progress`); a
stage that publishes replaces the file before it records the site, which is what
keeps a fresh journal from being believed. `Begun`: whoever publishes has a book.
`Listed`: what was made is on the list or its run is at a step that will put it
there. `Edits`: a digest in the journal is of what the wizard wrote, but for the one
edit `collaborate` carries into book.yml.

### GitOutboxProofs

For any operations, depth of scan, attempts and faults:

* `Structure` is `TypeOK`, what the drain holds belongs to the operation it works on
  (`Hands`), a commit an operation remembers is its own (`Signed`), the branch grew
  by fast-forwards (`Chained`), and where no update arrives late the operation's
  commit on the branch is the last it made (`Last`).
* `WrittenOnceInTime` is `CommittedOnce` where no ref update is late, with no other
  hypothesis: crashes, outages, requeues, pushes, divergences and revocations
  included. `WrittenOnce` is the same with late updates under `[]InReach`: at a
  write the scan goes back to whatever the operation has on the branch. The
  hypothesis is about the run and not about the code, but it is exactly what the
  writer's bounded scan relies on, and `ScanDepth` too small for it lets TLC violate
  `CommittedOnce`. `Fresh`, no commit of an operation on top of its own, is what the
  two share.
* `OutcomeTold` and `PromiseIsKept` are `OutcomeMatchesCommit` and the refinement of
  `Ledger`, under `Calm`: no late updates, no repository documents, no outages and no
  requeues; crashes, pushes, divergences and revocations remain. None of the four
  can be dropped: without any one of them TLC violates both
  properties (`CommittedOnce` still holds). `Faithful` follows the outcome from the
  plan through the commit to the answer: the drain's copy is current (`InHand`), an
  operation on the branch keeps the plan it landed with until it is answered
  (`Landing`), what is written is what was persisted (`AsPlanned`), and nothing is
  told before (`Told`). `Moves` are the kinds of step, each of which is a step of
  `Ledger` or none.

### ReviewProofs

For any number of proposals, items, submissions, revisions and pushes:
`NothingOverwritten`, `PublishedProseReviewed`, `VerdictMatchesBranch`, `WorkAgrees`.
The heart is `Past`: a file some command remembers was once the chapter, and what
the chapter gained since without a new number is in `unnumbered`. `Remembered`
says it of the row, of every base and of every landed write; `FreshPlans` that a
plan pinned to the head as it is says what composing now would say; `Replaced`
draws the consequence for what landed. `InStep`, `Artifacts` and `Stories` relate
proposal, submission, item and artifact to the state of the operation, from which
the other properties follow. `Halts` and `Freed` are what a revocation leaves of that:
rejected work has no operation that is coming unless it was requeued, a row is
stopped only for a submission that was rejected or had been settled before, and an
item that was taken back is free or as its artifact says. The proof found two cases of `Story` to overlap, where TLA+
leaves open which is meant; it now distinguishes first whether the operation has
landed.

### ProjectionProofs

For any notes, settings, fields, commits and crashes: `ProjectionCurrent`,
`SettingsNotStranded`, `NoFieldReverted`, `RebuildLosesNothing` and
`DivergedForCause`; the run's constraint `OneBlind` is not assumed. The parts of
`Inv`, and what each is for:

* `Chained`: a pass and a drain exclude each other and nothing the outbox holds
  lands under a pass; `Recorded`: the trees hold what has landed; `Accepted`: so a
  rebuild, which deletes what the tree lacks, never meets an accepted note.
* `Settled`: the settings row waits for an operation that is queued and shows what
  that operation will write.
* `Notified`: every commit no pass has seen has a delivery under way or the stale
  flag up, while reading, after a drain's own commit, and when prose or settings
  lag.
* `Anchored`: as long as the author broke nothing, the annotated block is a function
  of the chapter's revision (`BlockAt`), because the application's revision exceeds
  all earlier ones; so an old revision number never comes with a new block.
* `Healed`: while no flagged note was reset and no drain cut short, open notes stand
  in the projected chapter and no pass finds cause to diverge. `Held`: item, lease
  and submission agree. What these except (`AuthorBroke`, `blind`) only grows.

### PageProofs

The module has two parts, one for each half of the page, which share nothing.

The claim. For any number of leases, tokens, commands, losses and reloads: `HeldTokenWorks`,
`OwnSubmissionKnown`, `ToldForCause`. `Inv` follows one fact from the server to the
tab. `Books`: the server's numbers only grow, its kept answers have no tokens.
`Log`: each row is true of its lease and cause, and no command causes two rows about
tokens. `Memory` and `InFlight`: what the tab remembers, or has sent, the server
knows; a lease that was saved and is not held leaves no submission behind. `Known`:
the unread rows this page load has caused are among those it recognises.
`Foretold`: a token the tab holds is good or an unread row says otherwise, unless
the row was read before the answer (`late`) or the server has a submission of the tab
whose row names no operation (`Unheard`). `Settled`: a tab that shows a submission as
accepted holds no claim and is sent none. `Told`: a submission taken is shown, or
its row is unread and its key remembered, or, where submissions wait for a review, it
is noted as received; unless the claim was given up
for a row older than its token (`overtaken`). Every action of the server is one kind of `ServerStep` and most
actions of the tab only forget (`Narrows`), so each part is argued a few times
instead of once per action. `LostForCause` is `ToldForCause`: a row makes the tab
drop a usable lease only if the row is older than it. `claims_refresh` shows that
the exception is needed: the row that ends the claim there is the tab's own.

The feed. For any log, any sequence of member and public credentials, any page
size, faults and leaves: `NoRowMissed` (`CursorCovered`) and `OldReadsForgotten`
(`OldCredentialForgotten`). `FeedInv` speaks of a page `p`, because an action calls
several operations of the store in a row: each operation is shown once to keep the
parts (`LoadBase`, `RecoverEffect`, `PurgeKeeps`, `FollowKeeps`, ...), and an action
chains them.

* `Covered` is what makes `CursorCovered` inductive. While reads are in flight the
  data may be older than the feed; then the read under way, or the one queued behind
  it, must answer for the row. A row that some credential since the read could not
  see is excused, which is what moves a polled cursor over filtered rows
  (`HiddenCovered`).
* `Caught` says it of the rows handed over, and of those up to the position a start
  has read, from the moment its recovery begins: that the position is read before
  the data is what closes the gap between the two.
* `Followed` is the part that was missing: a recovery under way belongs to the
  page's feed or to its start. A start that met somebody else's would take answers
  older than its position for its own, which is what `joined` excepts.
  `Following` says how start, recovery, feed and retry timer exclude each other.
* `Read` says that everything shown, or still in flight and going to be shown, was
  read since `noticed`, which is when a member the page knows signed in; a page that
  failed to learn its reader shows nothing and asks for nothing. `Dropped` is the same of generations: behind an outdated read
  the page is empty. `Placed` bounds the numbers.

### Assumptions

Every assumption on the constants is named, and TLC evaluates it on the runs.

| Module | Assumptions |
|---|---|
| `Leases` | `LeaseConfig`, `Bounds`, `NullLease`: durations are positive and below the total, the null id is no lease |
| `Decisions` | `Threads`, `Electorate`, `Ballots`, `Thresholds`, `NullItem`, `QueueBound`: replies are not annotations and belong to one, the null id is no source |
| `Requests` | `Kinds`, `Commands`, `Ceilings`, `Policies`: people are not tokens, a command names a target its route can name, an agent's ceiling is at most its person's |
| `GitOutbox` | `Kinds`, `Limits`: an operation is of one kind, a settings write of none of the others, at least one attempt |
| `Review` | `Distinct`, `Bounds`, `NoFile`: a write is of one kind, the absent file is no file |
| `Projection` | `Names`, `Bounds`: operations have names of their own |
| `PageClaims` | `BoundAssumption`, `NoneAssumption`: the null is no number, answer, call or record |
| `Feed` | `AudienceAssumption`, `FeedBounds`, `NilAssumption`: there is a first credential, a page holds at least one row, the null is no read, feed or timer |
| `Wizard` | `Bounds` |

Hypotheses of single theorems, stated with them: `OneAtATime` (`QueueIsTrue`,
`SubmissionOwnsItem`), `Selective` (`TheVotesDecide`), `[]InReach` (`WrittenOnce`), `Calm`
(`OutcomeTold`, `PromiseIsKept`).

### Model-checked only

The violation of `ClaimSurvives`
and all liveness (`LeasedMovesOn`, `Settles`, `CatchesUp`): fairness and `ENABLED` are
out of the prover's reach, as would be induction over data and whatever rests on RECURSIVE operators; the modules use none.

## Plan

1. Proofs: `PromiseKept` and `OutcomeMatchesCommit` for the other operations while
   repository documents are being written. Of the documents themselves they are not
   true (`processor.ts:1429`), so today's theorems leave every document out.
2. More of the page: optimistic annotations and votes, the revision editor.
3. The CLI's resumable upgrade, deployment callbacks, the teardown of a
   repository by the wizard.
4. Pure algorithms against a reference definition: anchor resolution, patching,
   the history of a chapter.

## Not modelled

| Part | Why |
|---|---|
| Publications | each callback is one conditional upsert; planned |
| GitHub reader, App authentication | input and output behind a cache; nothing else depends on their state |
| Local Git writer | for development; the production writer is modelled |
| Artifact rendering, page views | formatting; no property is about the text |
| Markdown package | algorithms over unbounded strings, beyond TLC |
| Schemas, OpenAPI | declarative, partly generated |
| Publisher | a sequential function from files to files |
| Command line tool | one user and one process; the upgrade is planned |

A component that is modelled in part is listed with what it lacks in
`PROJECT.json`.
