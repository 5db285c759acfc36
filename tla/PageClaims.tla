----------------------------- MODULE PageClaims -----------------------------
(***************************************************************************)
(* One browser tab that claims, recovers, releases and submits one work    *)
(* item (islands/project-store.ts, islands/work-queue.ts), while the       *)
(* server's answers and the rows of the event log reach it in two separate *)
(* streams.  The lease's token lives in the tab's memory only; what names  *)
(* the lease is saved, so that a refreshed tab can have the token replaced *)
(* and go on.                                                              *)
(*                                                                         *)
(* The server is phase4.ts as the tab sees it: a lease, its token, the     *)
(* answers kept under idempotency keys (with tokens redacted), and the     *)
(* rows each command appends.  Leases.tla has its inside.  A key and the   *)
(* correlation sent with it are one number: the tab uses its key for both. *)
(***************************************************************************)
EXTENDS Naturals, Sequences, FiniteSets

CONSTANTS MaxLeases,    \* bound on the leases taken on the item
          MaxTokens,    \* bound on the tokens minted
          MaxKeys,      \* bound on the commands the tab sends
          MaxLosses,    \* bound on requests or answers lost
          MaxRefreshes, \* bound on the times the tab is reloaded
          None

ASSUME BoundAssumption ==
  {MaxLeases, MaxTokens, MaxKeys, MaxLosses, MaxRefreshes} \subseteq Nat

VARIABLES
  reviewed,  \* whether a submission to this item waits for a review
  item,      \* "ready", "leased", "submitted", "done"
  lease,     \* the last lease: its number, holder, token, and whether time has passed it
  minted,    \* tokens minted so far
  answers,   \* what the server keeps under each of the tab's keys
  rows,      \* the event log, as far as it is about this item
  taken,     \* the submission the item carries: a key of the tab, or Foreign
  tab,       \* the tab's memory
  saved,     \* the lease named in the tab's session storage
  call,      \* the tab's command in flight
  keys, losses, refreshes,
  late,      \* history: a row was read while the answer that concerns it was under way
  overtaken, \* history: the claim was given up for a row older than its token
  last       \* history: the submission the tab sent last under its claim

server == <<reviewed, item, lease, minted, answers, rows, taken>>
bounds == <<keys, losses, refreshes>>
past == <<late, overtaken, last>>
vars == <<server, tab, saved, call, bounds, past>>

Foreign == 0            \* the correlation of anybody else's command
Keys == 1..MaxKeys
RowTypes == {"leased", "released", "expired", "recovered", "received", "completed"}
Enders == {"released", "expired"}

\* A lease; `since` is how much of the log there was when its token was made.
NoLease == [id |-> 0, holder |-> "nobody", token |-> 0, since |-> 0, lapsed |-> FALSE]
Blank == [held |-> None, own |-> {}, sub |-> None, accepted |-> None, told |-> FALSE,
          claimKey |-> None, releaseKey |-> None, pos |-> 0, first |-> 0]

Ids == Nat \union {None}
KeyOrNone == Keys \union {None}
Leases == [id : Nat, holder : {"nobody", "tab", "other"}, token : Nat, since : Nat,
           lapsed : BOOLEAN]
Answers == [ok : BOOLEAN, lease : Nat, token : Ids]
Calls == [op : {"claim", "recover", "release", "submit"}, key : Keys, lease : Ids,
          token : Ids, state : {"sent", "answered", "taken"}, tries : {1, 2},
          answer : Answers \union {None}, claim : KeyOrNone]
\* A submission of this tab: whether the log has named it, and has shown its end.
Subs == [key : Keys, received : BOOLEAN, ended : BOOLEAN]
Tabs == [held : [lease : Nat, token : Nat] \union {None}, own : SUBSET Keys,
         sub : Subs \union {None}, accepted : KeyOrNone,
         told : BOOLEAN, claimKey : KeyOrNone, releaseKey : KeyOrNone,
         pos : Nat, first : 0..MaxKeys]

\* The null of the code is none of the values it stands for the absence of.
ASSUME NoneAssumption ==
  /\ None \notin Nat /\ None \notin Answers /\ None \notin Calls
  /\ None \notin [lease : Nat, token : Nat] /\ None \notin Subs

TypeOK ==
  /\ reviewed \in BOOLEAN
  /\ item \in {"ready", "leased", "submitted", "done"}
  /\ lease \in Leases /\ minted \in Nat
  /\ answers \in [Keys -> Answers \union {None}]
  /\ rows \in Seq([type : RowTypes, lease : Nat, cause : 0..MaxKeys])
  /\ taken \in {None, Foreign} \union Keys
  /\ tab \in Tabs /\ saved \in Ids /\ call \in Calls \union {None}
  /\ keys \in 0..MaxKeys /\ losses \in 0..MaxLosses /\ refreshes \in 0..MaxRefreshes
  /\ late \in BOOLEAN /\ overtaken \in BOOLEAN /\ last \in KeyOrNone

Init ==
  /\ reviewed \in BOOLEAN
  /\ item = "ready" /\ lease = NoLease /\ minted = 0 /\ rows = <<>> /\ taken = None
  /\ answers = [k \in Keys |-> None]
  /\ tab = Blank /\ saved = None /\ call = None
  /\ keys = 0 /\ losses = 0 /\ refreshes = 0
  /\ late = FALSE /\ overtaken = FALSE /\ last = None

Row(type, id, cause) == [type |-> type, lease |-> id, cause |-> cause]
Active == item = "leased" /\ lease.holder # "nobody"
Freed == [lease EXCEPT !.holder = "nobody", !.lapsed = FALSE]

-----------------------------------------------------------------------------
(* The server, by itself and for others.                                   *)
Lapse ==
  /\ Active /\ ~lease.lapsed
  /\ lease' = [lease EXCEPT !.lapsed = TRUE]
  /\ UNCHANGED <<reviewed, item, minted, answers, rows, taken, tab, saved, call, bounds, past>>

\* The sweep, or a command that finds the lease past its time.
Expire ==
  /\ lease' = Freed /\ item' = "ready"
  /\ rows' = Append(rows, Row("expired", lease.id, Foreign))

Sweep ==
  /\ Active /\ lease.lapsed
  /\ Expire
  /\ UNCHANGED <<reviewed, minted, answers, taken, tab, saved, call, bounds, past>>

\* A claim: a lease past its time is ended in the same batch.
Grant(holder) ==
  /\ lease.id < MaxLeases /\ minted < MaxTokens
  /\ item = "ready" \/ (Active /\ lease.lapsed)
  /\ item' = "leased" /\ minted' = minted + 1
  /\ rows' = rows \o (IF Active THEN <<Row("expired", lease.id, Foreign)>> ELSE <<>>)
                  \o <<Row("leased", lease.id + 1, Foreign)>>
  /\ lease' = [id |-> lease.id + 1, holder |-> holder, token |-> minted + 1,
                since |-> Len(rows'), lapsed |-> FALSE]

OtherClaims ==
  /\ Grant("other")
  /\ UNCHANGED <<reviewed, answers, taken, tab, saved, call, bounds, past>>

\* The holder elsewhere, or a maintainer, releases the lease.
OtherReleases ==
  /\ Active /\ ~lease.lapsed
  /\ lease' = Freed /\ item' = "ready"
  /\ rows' = Append(rows, Row("released", lease.id, Foreign))
  /\ UNCHANGED <<reviewed, minted, answers, taken, tab, saved, call, bounds, past>>

\* The token is replaced; the one before it is worth nothing from now on.
Replace(cause) ==
  /\ minted' = minted + 1
  /\ lease' = [lease EXCEPT !.token = minted + 1, !.since = Len(rows) + 1]
  /\ rows' = Append(rows, Row("recovered", lease.id, cause))

\* Another tab of the same browser has the token of this tab's lease replaced.
OtherRecovers ==
  /\ Active /\ ~lease.lapsed /\ lease.holder = "tab" /\ minted < MaxTokens
  /\ Replace(Foreign)
  /\ UNCHANGED <<reviewed, item, answers, taken, tab, saved, call, bounds, past>>

\* The holder of the present token elsewhere submits.
OtherSubmits ==
  /\ Active /\ ~lease.lapsed
  /\ item' = "submitted" /\ lease' = Freed /\ taken' = Foreign
  /\ rows' = Append(rows, Row("received", lease.id, Foreign))
  /\ UNCHANGED <<reviewed, minted, answers, tab, saved, call, bounds, past>>

\* The drain applies the submission.
Complete ==
  /\ item = "submitted" /\ item' = "done"
  /\ rows' = Append(rows, Row("completed", lease.id, taken))
  /\ UNCHANGED <<reviewed, lease, minted, answers, taken, tab, saved, call, bounds, past>>

-----------------------------------------------------------------------------
(* The tab's commands: sent, carried out at most once, answered, or lost.  *)
NewCall(op, key, id, token) ==
  [op |-> op, key |-> key, lease |-> id, token |-> token, state |-> "sent",
   tries |-> 1, answer |-> None, claim |-> None]

Send(op, id, token) ==
  /\ call = None /\ keys < MaxKeys
  /\ keys' = keys + 1
  /\ call' = NewCall(op, keys + 1, id, token)

\* The history flags speak of the claim the tab seeks or holds now.
Afresh == late' = FALSE /\ overtaken' = FALSE /\ last' = None

\* A claim is sent under the key its last attempt left unsettled, if any.
SendClaim ==
  /\ tab.held = None /\ saved = None
  /\ IF tab.claimKey = None
     THEN Send("claim", None, None) /\ tab' = [tab EXCEPT !.claimKey = keys + 1]
     ELSE call = None /\ call' = NewCall("claim", tab.claimKey, None, None) /\ UNCHANGED <<keys, tab>>
  /\ Afresh
  /\ UNCHANGED <<server, saved, losses, refreshes>>

\* A refreshed tab has the token of its saved lease replaced; the command's
\* key is remembered, to know the row it will cause.  A panel opened on a claim
\* already given up offers no recovery before the next reload.
SendRecover ==
  /\ tab.held = None /\ saved # None /\ ~tab.told
  /\ Send("recover", saved, None)
  /\ tab' = [tab EXCEPT !.own = @ \union {keys + 1}]
  /\ Afresh
  /\ UNCHANGED <<server, saved, losses, refreshes>>

\* A release, too, keeps the key its last attempt left unsettled.
SendRelease ==
  /\ tab.held # None
  /\ IF tab.releaseKey = None
     THEN Send("release", tab.held.lease, None) /\ tab' = [tab EXCEPT !.releaseKey = keys + 1]
     ELSE /\ call = None /\ call' = NewCall("release", tab.releaseKey, tab.held.lease, None)
          /\ UNCHANGED <<keys, tab>>
  /\ UNCHANGED <<server, saved, losses, refreshes, past>>

\* The first attempt at a submission, or the same text again under its key.
SendSubmit ==
  /\ tab.held # None
  /\ Send("submit", tab.held.lease, tab.held.token)
  /\ tab' = [tab EXCEPT !.sub = [key |-> keys + 1, received |-> FALSE, ended |-> FALSE]]
  /\ last' = keys + 1
  /\ UNCHANGED <<server, saved, losses, refreshes, late, overtaken>>

ResendSubmit ==
  /\ tab.held # None /\ tab.sub # None /\ call = None
  /\ call' = NewCall("submit", tab.sub.key, tab.held.lease, tab.held.token)
  /\ last' = tab.sub.key
  /\ UNCHANGED <<server, tab, saved, bounds, late, overtaken>>

Answer(ok, id, token) == [ok |-> ok, lease |-> id, token |-> token]
Answered(a) == call' = [call EXCEPT !.state = "answered", !.answer = a]
\* What is kept under the key: never a token.
Kept(a) == answers' = [answers EXCEPT ![call.key] = [a EXCEPT !.token = None]]

\* The command under this key has been carried out: its answer is repeated.
Repeat ==
  /\ call # None /\ call.state = "sent" /\ answers[call.key] # None
  /\ Answered(answers[call.key])
  /\ UNCHANGED <<server, tab, saved, bounds, past>>

Arrives(op) == call # None /\ call.state = "sent" /\ call.op = op /\ answers[call.key] = None

ServeClaim ==
  /\ Arrives("claim")
  /\ \/ /\ Grant("tab")
        /\ LET a == Answer(TRUE, lease.id + 1, minted + 1) IN Answered(a) /\ Kept(a)
        /\ UNCHANGED <<reviewed, taken>>
     \/ /\ item # "ready" /\ ~(Active /\ lease.lapsed)
        /\ Answered(Answer(FALSE, 0, None)) /\ UNCHANGED server
  /\ UNCHANGED <<tab, saved, bounds, past>>

Current(id) == Active /\ lease.id = id /\ lease.holder = "tab"

\* A lease past its time is ended by the command that finds it, and refused.
ServeRecover ==
  /\ Arrives("recover")
  /\ \/ /\ Current(call.lease) /\ ~lease.lapsed /\ minted < MaxTokens
        /\ Replace(call.key)
        /\ LET a == Answer(TRUE, lease.id, minted + 1) IN Answered(a) /\ Kept(a)
        /\ UNCHANGED <<reviewed, item, taken>>
     \/ /\ Current(call.lease) /\ lease.lapsed
        /\ Expire /\ Answered(Answer(FALSE, 0, None))
        /\ UNCHANGED <<reviewed, minted, answers, taken>>
     \/ /\ ~Current(call.lease)
        /\ Answered(Answer(FALSE, 0, None)) /\ UNCHANGED server
  /\ UNCHANGED <<tab, saved, bounds, past>>

ServeRelease ==
  /\ Arrives("release")
  /\ \/ /\ Current(call.lease)
        /\ item' = "ready" /\ lease' = Freed
        /\ rows' = Append(rows, Row(IF lease.lapsed THEN "expired" ELSE "released", lease.id, Foreign))
        /\ LET a == Answer(TRUE, lease.id, None) IN Answered(a) /\ Kept(a)
        /\ UNCHANGED <<reviewed, minted, taken>>
     \/ /\ ~Current(call.lease)
        /\ Answered(Answer(FALSE, 0, None)) /\ UNCHANGED server
  /\ UNCHANGED <<tab, saved, bounds, past>>

ServeSubmit ==
  /\ Arrives("submit")
  /\ \/ /\ Current(call.lease) /\ ~lease.lapsed /\ lease.token = call.token
        /\ item' = "submitted" /\ lease' = Freed /\ taken' = call.key
        /\ rows' = Append(rows, Row("received", lease.id, call.key))
        /\ LET a == Answer(TRUE, lease.id, None) IN Answered(a) /\ Kept(a)
        /\ UNCHANGED <<reviewed, minted>>
     \/ /\ Current(call.lease) /\ lease.lapsed
        /\ Expire /\ Answered(Answer(FALSE, 0, None))
        /\ UNCHANGED <<reviewed, minted, answers, taken>>
     \/ /\ ~Current(call.lease) \/ lease.token # call.token
        /\ Answered(Answer(FALSE, 0, None)) /\ UNCHANGED server
  /\ UNCHANGED <<tab, saved, bounds, past>>

-----------------------------------------------------------------------------
(* What the tab makes of an answer.                                        *)

\* The lease and its token enter the tab.
Hold(t, id, token) ==
  [t EXCEPT !.held = [lease |-> id, token |-> token], !.told = FALSE, !.releaseKey = None]

\* A claim is held at once, and saved when the reads that follow it are in: a
\* reload, or a row that ends the lease, may come between.
TakeClaim ==
  /\ call # None /\ call.state = "answered" /\ call.op = "claim" /\ call.answer.token # None
  /\ tab' = Hold([tab EXCEPT !.claimKey = None], call.answer.lease, call.answer.token)
  /\ call' = [call EXCEPT !.state = "taken"]
  /\ UNCHANGED <<server, saved, bounds, past>>

SaveClaim ==
  /\ call # None /\ call.state = "taken"
  /\ saved' = call.answer.lease /\ call' = None
  /\ UNCHANGED <<server, tab, bounds, past>>

\* The claim's first answer was lost and the repeated one has no token: have
\* it replaced, under a key of its own.
RecoverClaimed ==
  /\ call # None /\ call.state = "answered" /\ call.op = "claim"
  /\ call.answer.ok /\ call.answer.token = None
  /\ keys < MaxKeys /\ keys' = keys + 1
  /\ call' = [NewCall("recover", keys + 1, call.answer.lease, None) EXCEPT !.claim = call.key]
  /\ tab' = [tab EXCEPT !.own = @ \union {keys + 1}]
  /\ UNCHANGED <<server, saved, losses, refreshes, past>>

TakeRecovery ==
  /\ call # None /\ call.state = "answered" /\ call.op = "recover" /\ call.answer.token # None
  /\ tab' = Hold([tab EXCEPT !.claimKey = IF call.claim = None THEN @ ELSE None],
                 call.answer.lease, call.answer.token)
  /\ saved' = call.answer.lease /\ call' = None
  /\ UNCHANGED <<server, bounds, past>>

TakeRelease ==
  /\ call # None /\ call.state = "answered" /\ call.op = "release" /\ call.answer.ok
  /\ tab' = [tab EXCEPT !.held = None, !.own = {}, !.releaseKey = None]
  /\ saved' = None /\ call' = None
  /\ UNCHANGED <<server, bounds, past>>

\* What is remembered of a submission once its answer is in: nothing more, if
\* the log has shown its end before.
Heeded(sub) == IF sub = None \/ sub.ended THEN None ELSE [sub EXCEPT !.received = TRUE]

TakeAcceptance ==
  /\ call # None /\ call.state = "answered" /\ call.op = "submit" /\ call.answer.ok
  /\ tab' = [tab EXCEPT !.held = None, !.own = {}, !.accepted = call.key, !.sub = Heeded(@)]
  /\ saved' = None /\ call' = None
  /\ UNCHANGED <<server, bounds, past>>

\* The server refused.  A refused claim gives up its key, unless it was the
\* recovery of a claim that had been granted.
TakeRefusal ==
  /\ call # None /\ call.state = "answered" /\ ~call.answer.ok
  /\ tab' = CASE call.op = "claim" -> [tab EXCEPT !.claimKey = None]
              [] call.op = "release" -> [tab EXCEPT !.releaseKey = None]
              [] call.op = "recover" -> [tab EXCEPT !.own = @ \ {call.key}]
              [] call.op = "submit" -> [tab EXCEPT !.sub = None]
  /\ call' = None
  /\ UNCHANGED <<server, saved, bounds, past>>

\* The request, or its answer, is lost.  The tab sends it once more: a
\* recovery under a new key, anything else under the same one.  After that it
\* keeps the key and does not know, unless the log has shown a submission to
\* be accepted meanwhile.
LoseCall ==
  /\ call # None /\ call.state # "taken"
  /\ losses < MaxLosses /\ losses' = losses + 1
  /\ IF call.tries = 2
     THEN /\ tab' = IF call.op = "submit" /\ tab.accepted = call.key
                    THEN [tab EXCEPT !.sub = None] ELSE tab
          /\ call' = None /\ UNCHANGED keys
     ELSE IF call.op = "recover"
     THEN /\ keys < MaxKeys /\ keys' = keys + 1
          /\ call' = [NewCall("recover", keys + 1, call.lease, None)
                        EXCEPT !.tries = 2, !.claim = call.claim]
          /\ tab' = [tab EXCEPT !.own = @ \union {keys + 1}]
     ELSE /\ call' = [call EXCEPT !.state = "sent", !.tries = 2, !.answer = None]
          /\ UNCHANGED <<tab, keys>>
  /\ UNCHANGED <<server, saved, refreshes, past>>

-----------------------------------------------------------------------------
(* What the tab makes of a row (refreshForEvent).                          *)

Forgotten(t) == [t EXCEPT !.held = None, !.own = {}, !.sub = None]

\* Only a tab that still holds the lease's token has something to lose.
Invalidated(t) == IF t.held = None THEN t ELSE [Forgotten(t) EXCEPT !.told = TRUE]

\* Seeded faults: any submission is taken for this tab's, none is, and any
\* replaced token is taken for this tab's.
AnySubmission(t, row) == t.sub # None
NoSubmission(t, row) == FALSE
AnyRecovery(t, row) == TRUE
NoRecovery(t, row) == FALSE

\* The two commands of a tab that it knows its own rows by.
OwnRecovery(t, row) == row.cause \in t.own
OwnSubmission(t, row) == t.sub # None /\ t.sub.key = row.cause

\* The row of a submission accepts it and consumes the claim, unless it names no
\* operation: that of a submission that waits for a review names none, and only
\* the submission is noted.
Received(t) ==
  IF reviewed THEN [t EXCEPT !.sub.received = TRUE]
  ELSE [t EXCEPT !.held = None, !.own = {}, !.accepted = t.sub.key, !.sub.received = TRUE]

\* The end of a submission whose answer is still to come is noted for it.
Finished(t) ==
  IF t.accepted = t.sub.key THEN [t EXCEPT !.sub = None] ELSE [t EXCEPT !.sub.ended = TRUE]

AfterRow(t, row) ==
  CASE row.type \in Enders -> Invalidated(t)
    [] row.type = "recovered" ->
         IF OwnRecovery(t, row) THEN [t EXCEPT !.own = @ \ {row.cause}] ELSE Invalidated(t)
    [] row.type = "received" ->
         IF OwnSubmission(t, row) THEN Received(t) ELSE Invalidated(t)
    [] row.type = "completed" ->
         IF OwnSubmission(t, row) /\ t.sub.received THEN Finished(t) ELSE Invalidated(t)
    [] OTHER -> t

\* A row that was there before the lease's present token, and that this page
\* load did not cause by a command on this very lease.
Outdated(row) ==
  /\ tab.pos < lease.since
  /\ row.cause <= tab.first \/ row.lease # lease.id

\* A row about the lease that the tab's claim or recovery is to make it hold.
Expected(row) ==
  /\ call # None /\ call.state # "taken" /\ row.type # "leased" /\ ~OwnRecovery(tab, row)
  /\ \/ call.op = "recover" /\ call.lease = row.lease
     \/ /\ call.op = "claim" /\ answers[call.key] # None
        /\ answers[call.key].lease = row.lease

ReadRow ==
  /\ tab.pos < Len(rows)
  /\ LET row == rows[tab.pos + 1]
         after == AfterRow([tab EXCEPT !.pos = @ + 1], row)
     IN  /\ tab' = after
         /\ saved' = IF tab.held # None /\ after.held = None THEN None ELSE saved
         /\ late' = (late \/ (tab.held = None /\ Expected(row)))
         /\ overtaken' = (overtaken \/ (after.told /\ ~tab.told /\ Outdated(row)))
  /\ UNCHANGED <<server, call, bounds, last>>

\* The page's own clock ends the lease, unless a submission is under way or the
\* claim is still to be saved, its panel not open.  It runs too in a panel that
\* was opened on a claim already given up.
CountdownEnds ==
  /\ saved # None /\ (tab.held # None \/ tab.told)
  /\ Current(saved) => lease.lapsed
  /\ call # None => call.op = "release"
  /\ tab' = Forgotten(tab) /\ saved' = None /\ last' = None
  /\ UNCHANGED <<server, call, bounds, late, overtaken>>

\* The page is reloaded: memory is gone, storage is not, unless the lease it
\* names is past its time.  Its feed begins at the end of the first page of
\* the log: in a short log that is all of it, in a long one it is before the
\* first row about this item.
Refresh ==
  /\ refreshes < MaxRefreshes /\ refreshes' = refreshes + 1
  /\ \E from \in {0, Len(rows)} : tab' = [Blank EXCEPT !.pos = from, !.first = keys]
  /\ saved' \in IF ~Current(saved) THEN {saved, None}
               ELSE IF lease.lapsed THEN {None} ELSE {saved}
  /\ call' = None /\ last' = None
  /\ UNCHANGED <<server, keys, losses, late, overtaken>>

-----------------------------------------------------------------------------
Others ==
  Lapse \/ Sweep \/ OtherClaims \/ OtherReleases \/ OtherRecovers \/ OtherSubmits \/ Complete
Commands == SendClaim \/ SendRecover \/ SendRelease \/ SendSubmit \/ ResendSubmit
Serve == Repeat \/ ServeClaim \/ ServeRecover \/ ServeRelease \/ ServeSubmit
Take ==
  TakeClaim \/ SaveClaim \/ RecoverClaimed \/ TakeRecovery \/ TakeRelease \/ TakeAcceptance \/ TakeRefusal

Next == Others \/ Commands \/ Serve \/ Take \/ LoseCall \/ ReadRow
        \/ CountdownEnds \/ Refresh

Spec == Init /\ [][Next]_vars

-----------------------------------------------------------------------------
CaughtUp == tab.pos = Len(rows) /\ call = None
Usable(t) == t.held # None /\ Current(t.held.lease) /\ lease.token = t.held.token
ToldNow == tab'.told /\ ~tab.told

\* The server has a submission of this tab whose answers it has not had, and whose
\* row names no operation.
Unheard == reviewed /\ taken \in Keys /\ tab.accepted # taken

\* A tab that has read every row and awaits no answer holds only a token that
\* the server would accept: replacing, ending and expiring the lease elsewhere
\* has reached it.  Excepted is a tab that read such a row before the answer
\* that made it the holder (project-store.ts invalidateClaim has nothing to
\* invalidate then), and one that lost the answers to a submission that waits
\* for a review: its row leaves the claim as it is.
HeldTokenWorks == CaughtUp /\ tab.held # None /\ ~late /\ ~Unheard => Usable(tab)

\* A tab gives its claim up for news of the log only if its token is worth
\* nothing any more, in whatever order answers and rows reach it.  Excepted
\* are rows older than the token (refreshForEvent does not compare leases).
ToldForCause == [][ToldNow /\ ~overtaken' => ~Usable(tab)]_vars

\* What the tab shows as accepted is what the server took from this tab, and a
\* tab that has caught up shows it, however many answers were lost: the row
\* that names the submission's correlation stands in for them.  Of a submission
\* that waits for a review it only remembers that it was received.
OwnSubmissionKnown ==
  /\ tab.accepted # None => taken = tab.accepted
  /\ CaughtUp /\ ~overtaken /\ last # None /\ taken = last =>
       \/ tab.accepted = last
       \/ reviewed /\ tab.sub # None /\ tab.sub.key = last /\ tab.sub.received

\* "A claim survives a refresh" (work-queue.ts): a tab with a token that the
\* server would accept is not made to give it up by one of its own commands.
ClaimSurvives == [][ToldNow /\ rows[tab'.pos].cause # Foreign => ~Usable(tab)]_vars
=============================================================================
