-------------------------------- MODULE Feed --------------------------------
(***************************************************************************)
(* One reader's page following a project: the append-only event log, the   *)
(* stream or the polling that brings its rows to the browser               *)
(* (apps/api/src/phase3.ts, sse.ts; islands/events.ts), and the page's     *)
(* store, which treats a row only as a reason to read the server again     *)
(* (islands/project-store.ts).                                             *)
(*                                                                         *)
(* Every command appends its rows in the batch that changes the data, so   *)
(* the data a read returns is identified with the length of the log at     *)
(* that moment.  One resource stands for those a page has loaded: the Work *)
(* queue, which its element asks for again whenever the store has dropped  *)
(* it.  A read is answered from the state at the moment it is sent, the    *)
(* stalest answer it can get, and delivered at any later time.             *)
(*                                                                         *)
(* A credential is a number; the browser's cookie moves from one to the    *)
(* next.  Audience says which of them are members of the project.          *)
(***************************************************************************)
EXTENDS Naturals, Sequences, FiniteSets, FiniteSetsExt

CONSTANTS Audience,     \* for each credential, "member" or "public"
          MaxRows,      \* bound on the rows appended to the log
          PageSize,     \* rows a poll or a pump reads at a time
          MaxFaults,    \* bound on failed reads, lost or refused streams
          MaxLeaves,    \* times the last interested element goes away
          Nil

ASSUME AudienceAssumption == Audience \in Seq({"member", "public"}) /\ Audience # <<>>
ASSUME FeedBounds ==
  {MaxRows, MaxFaults, MaxLeaves} \subseteq Nat /\ PageSize \in Nat \ {0}

VARIABLES log,      \* rows in insertion order: "shared", or "private" to members
          cookie,   \* the credential the browser sends
          page,     \* the page's store and its feed
          faults, leaves

feedVars == <<log, cookie, page, faults, leaves>>

Credentials == DOMAIN Audience
SignedOut == 0
\* What /v1/me tells the page of a credential: a reader without a membership
\* is signed out.
Identity(c) == IF Audience[c] = "member" THEN c ELSE SignedOut

Visible(c, i) == Audience[c] = "member" \/ log[i] = "shared"
\* The last row up to n that a credential is allowed to learn of.
LastVisible(c, n) == Max({0} \union {i \in 1..n : Visible(c, i)})

NoData == [status |-> "idle", at |-> 0, cred |-> 0]

Reads == [gen : Nat, at : Nat, cred : Credentials]
Contents == [status : {"idle", "loading", "ready", "error"}, at : Nat, cred : Nat]
SessionReads == [cred : Credentials, forced : BOOLEAN, reloading : BOOLEAN, restart : BOOLEAN]
Recoveries == [gen : Nat, session : {"running", "queued", "done"}, needed : BOOLEAN,
               data : {"running", "queued", "done"}]
Starts == [gen : Nat, cursor : Nat, primed : BOOLEAN]
Feeds == [mode : {"sse", "poll"}, net : {"opening", "open", "down", "closed"},
          opened : BOOLEAN, failing : BOOLEAN, cursor : Nat, sent : Nat]
Pages == [gen : Nat, known : Credentials \union {SignedOut}, seen : Credentials,
          session : {"loading", "ready", "error"}, data : Contents,
          load : Reads \union {Nil}, queued : BOOLEAN, me : SessionReads \union {Nil},
          rec : Recoveries \union {Nil}, users : {0, 1}, start : Starts \union {Nil},
          again : BOOLEAN, timer : {Nil, "start", "recover"}, ready : BOOLEAN, up : BOOLEAN,
          status : {"idle", "connecting", "recovering", "live", "offline"},
          feed : Feeds \union {Nil}, joined : BOOLEAN,
          noticed : Credentials]    \* history: when it last found its reader changed

ASSUME NilAssumption ==
  Nil \notin Reads \union SessionReads \union Recoveries \union Starts \union Feeds
               \union {"start", "recover"}

FeedTypeOK ==
  /\ log \in Seq({"shared", "private"})
  /\ cookie \in Credentials
  /\ page \in Pages
  /\ faults \in 0..MaxFaults /\ leaves \in 0..MaxLeaves

-----------------------------------------------------------------------------
(* The calls of the store, as operators on the page they change.           *)

\* Seeded fault: whoever asks during a read is satisfied with its answer.
LoadJoins(p) ==
  IF p.load = Nil
  THEN [p EXCEPT !.load = [gen |-> p.gen, at |-> Len(log), cred |-> cookie],
                 !.data.status = "loading"]
  ELSE p

\* Ask for the resource: one read at a time, and one more after it for all
\* who ask meanwhile.
Load(p) ==
  IF p.load = Nil
  THEN [p EXCEPT !.load = [gen |-> p.gen, at |-> Len(log), cred |-> cookie],
                 !.data.status = "loading"]
  ELSE [p EXCEPT !.queued = TRUE]

ReadSession(p, forced) ==
  [p EXCEPT !.me = [cred |-> cookie, forced |-> forced,
                    reloading |-> FALSE, restart |-> FALSE],
            !.session = "loading"]

Schedule(p, retry) ==
  IF p.users = 0 \/ p.timer # Nil THEN p ELSE [p EXCEPT !.timer = retry]

\* Begin to follow the feed: its position is read first, then the data.
Start(p) ==
  IF p.feed # Nil \/ p.start # Nil \/ p.timer # Nil THEN p
  ELSE [p EXCEPT !.start = [gen |-> p.gen, cursor |-> 0, primed |-> FALSE],
                 !.status = "connecting"]

\* Read the session and the data again; a call during a recovery joins it.
Recover(p) ==
  IF p.rec # Nil THEN p
  ELSE LET asked == [p EXCEPT !.ready = FALSE, !.status = "recovering",
             !.rec = [gen |-> p.gen,
                      session |-> IF p.me = Nil THEN "running" ELSE "queued",
                      needed |-> p.data.status # "idle",
                      data |-> CASE p.data.status = "idle" -> "done"
                                 [] p.load = Nil -> "running"
                                 [] OTHER -> "queued"]]
           withSession == IF p.me = Nil THEN ReadSession(asked, FALSE) ELSE asked
       IN  IF p.data.status = "idle" THEN withSession ELSE Load(withSession)

\* The credential changed: everything read under the old one is dropped, the
\* feed is closed, and what is still in flight will find itself outdated.
Purge(p) ==
  [p EXCEPT !.gen = @ + 1, !.queued = FALSE, !.timer = Nil, !.ready = FALSE,
            !.up = FALSE, !.feed = Nil, !.data = NoData,
            !.status = IF p.users = 0 THEN "idle" ELSE "connecting"]

\* startEvents called while an older call is under way waits for its end.
Restart(p) ==
  IF p.users = 0 THEN p
  ELSE IF p.start = Nil THEN Start(p) ELSE [p EXCEPT !.again = TRUE]

\* The end of one startEvents, whatever came of it.
Ended(p) ==
  LET q == [p EXCEPT !.start = Nil, !.again = FALSE]
  IN  IF p.again /\ p.users > 0 THEN Start(q) ELSE q

Connected(p) ==
  [p EXCEPT !.up = TRUE, !.status = IF p.ready THEN "live" ELSE "recovering"]
Interrupted(p) ==
  [p EXCEPT !.up = FALSE, !.ready = FALSE, !.status = "offline"]

\* refreshForEvent: a row makes the page read what it has loaded again.
Consume(p) == IF p.data.status = "idle" THEN p ELSE Load(p)

FallBack(p) ==
  [p EXCEPT !.status = "connecting", !.up = FALSE,
            !.feed.mode = "poll", !.feed.net = "down"]

-----------------------------------------------------------------------------
FeedInit ==
  /\ log = <<>> /\ cookie = 1 /\ faults = 0 /\ leaves = 0
  /\ page = [gen |-> 0, known |-> Identity(1), seen |-> 1, session |-> "ready",
             data |-> [NoData EXCEPT !.status = "loading"],
             load |-> [gen |-> 0, at |-> 0, cred |-> 1], queued |-> FALSE,
             me |-> Nil, rec |-> Nil, users |-> 0, start |-> Nil,
             again |-> FALSE, timer |-> Nil, ready |-> FALSE, up |-> FALSE,
             status |-> "idle", feed |-> Nil, joined |-> FALSE, noticed |-> 1]

Spend == faults < MaxFaults /\ faults' = faults + 1
World == <<log, cookie>>

\* A command commits: its rows and the data they announce.
LogRow(kind) ==
  /\ Len(log) < MaxRows
  /\ log' = Append(log, kind)
  /\ UNCHANGED <<cookie, page, faults, leaves>>

\* Signing in or out, in this page or in another tab of the browser.
SwitchCredential ==
  /\ cookie + 1 \in Credentials
  /\ cookie' = cookie + 1
  /\ UNCHANGED <<log, page, faults, leaves>>

\* The page that signed in or out asks who it is now.
RefreshSession(forced) ==
  /\ page.me = Nil
  /\ forced => page.seen # cookie
  /\ page.seen # cookie \/ page.session = "error"
  /\ page' = ReadSession(page, forced)
  /\ UNCHANGED <<World, faults, leaves>>

\* An element starts to follow the feed.  A page that comes back while a
\* recovery or an outdated start of its last visit is under way is given that
\* one (`joined`).
Retain ==
  /\ page.users = 0
  /\ page' = Start([page EXCEPT !.users = 1, !.joined = @ \/ page.rec # Nil
                       \/ (page.start # Nil /\ page.start.gen # page.gen)])
  /\ UNCHANGED <<World, faults, leaves>>

\* The last interested element disconnects: the feed is closed; a recovery
\* or a start under way runs on.
Leave ==
  /\ page.users = 1
  /\ leaves < MaxLeaves /\ leaves' = leaves + 1
  /\ page' = [page EXCEPT !.users = 0, !.timer = Nil, !.ready = FALSE, !.up = FALSE,
                          !.feed = Nil, !.status = "idle"]
  /\ UNCHANGED <<World, faults>>

\* An element that finds the resource dropped asks for it.
Ensure ==
  /\ page.data.status = "idle" /\ page.load = Nil /\ page.session = "ready"
  /\ page' = Load(page)
  /\ UNCHANGED <<World, faults, leaves>>

\* Seeded fault: an answer is shown whoever asked for it.
DeliveredToAnyone(ok) ==
  LET read == page.load
      data == IF ok THEN [status |-> "ready", at |-> read.at, cred |-> read.cred]
              ELSE [page.data EXCEPT !.status = "error"]
      asked == IF page.rec.data = "queued" /\ page.queued /\ page.rec.gen = page.gen
               THEN "running" ELSE "done"
      freed == [page EXCEPT !.data = data, !.load = Nil, !.queued = FALSE,
                  !.rec = IF page.rec = Nil THEN Nil ELSE [page.rec EXCEPT !.data = asked]]
  IN  IF page.queued THEN Load(freed) ELSE freed

\* The answer to a read: dropped when the credential has changed since.
Delivered(ok) ==
  LET read == page.load
      data == IF read.gen # page.gen THEN page.data
              ELSE IF ok THEN [status |-> "ready", at |-> read.at, cred |-> read.cred]
              ELSE [page.data EXCEPT !.status = "error"]
      asked == IF page.rec.data = "queued" /\ page.queued /\ page.rec.gen = page.gen
               THEN "running" ELSE "done"
      freed == [page EXCEPT !.data = data, !.load = Nil, !.queued = FALSE,
                  !.rec = IF page.rec = Nil THEN Nil ELSE [page.rec EXCEPT !.data = asked]]
  IN  IF page.queued THEN Load(freed) ELSE freed

Deliver(ok) ==
  /\ page.load # Nil
  /\ IF ok THEN UNCHANGED faults ELSE Spend
  /\ page' = Delivered(ok)
  /\ UNCHANGED <<World, leaves>>

\* A session read is over: a recovery that waits for it goes on, and one that
\* asked during it starts a read of its own.
SessionOver(p) ==
  LET q == [p EXCEPT !.me = Nil]
  IN  IF p.rec = Nil THEN q
      ELSE IF p.rec.session = "queued"
           THEN ReadSession([q EXCEPT !.rec.session = "running"], FALSE)
           ELSE [q EXCEPT !.rec.session = "done"]

\* The answer of /v1/me.  A changed credential drops what was read and asks
\* for it again; a failed read of a signed-in session drops it and stops.
LearnSession ==
  /\ page.me # Nil /\ ~page.me.reloading
  /\ LET changed == page.me.forced \/ page.known # Identity(page.me.cred)
         known == [page EXCEPT !.known = Identity(page.me.cred), !.session = "ready",
                               !.seen = page.me.cred]
         purged == Purge([known EXCEPT !.noticed = page.me.cred, !.me.reloading = TRUE,
                                       !.me.restart = known.users > 0])
     IN  page' = IF ~changed THEN SessionOver(known)
                 ELSE IF page.data.status = "idle" THEN purged ELSE Load(purged)
  /\ UNCHANGED <<World, faults, leaves>>

LoseSession ==
  /\ page.me # Nil /\ ~page.me.reloading
  /\ Spend
  /\ LET failed == SessionOver([page EXCEPT !.known = SignedOut, !.session = "error"])
         after == IF page.known = SignedOut THEN failed
                  ELSE Restart(Purge([failed EXCEPT !.noticed = page.me.cred]))
     IN  page' = after
  /\ UNCHANGED <<World, leaves>>

\* The reads that followed a changed credential are done: follow the feed.
Reloaded ==
  /\ page.me # Nil /\ page.me.reloading /\ page.load = Nil
  /\ page' = SessionOver(IF page.me.restart THEN Restart(page) ELSE page)
  /\ UNCHANGED <<World, faults, leaves>>

-----------------------------------------------------------------------------
(* Starting and recovering.                                                *)

\* The first poll answers with the end of the first page of the log; the
\* data is read only then, so that the feed begins no later than the data.
Prime ==
  /\ page.start # Nil /\ ~page.start.primed
  /\ LET primed == [page EXCEPT !.start.primed = TRUE,
                                !.start.cursor = Min({PageSize, Len(log)})]
     IN  page' = IF page.start.gen # page.gen THEN Ended(page)
                 ELSE IF page.users = 0 THEN Ended([page EXCEPT !.status = "idle", !.ready = FALSE])
                 ELSE Recover(primed)
  /\ UNCHANGED <<World, faults, leaves>>

\* The first poll fails and is tried again - not if the server has no such
\* feed for this reader (404, 405).
PrimeFails ==
  /\ page.start # Nil /\ ~page.start.primed
  /\ Spend
  /\ \E absent \in BOOLEAN :
       LET status == IF page.users = 0 \/ absent THEN "idle" ELSE "offline"
           failed == [page EXCEPT !.ready = FALSE, !.status = status]
       IN  page' = Ended(IF page.start.gen # page.gen THEN page
                         ELSE IF absent THEN failed ELSE Schedule(failed, "start"))
  /\ UNCHANGED <<World, leaves>>

\* What a start does once the recovery it waited for has ended.
Follow(p, ok, cursor) ==
  IF p.start = Nil \/ ~p.start.primed THEN p
  ELSE IF p.start.gen # p.gen \/ p.users = 0 THEN Ended(p)
  ELSE IF ~ok THEN Ended(Schedule(p, "start"))
  ELSE Ended([p EXCEPT !.status = "connecting",
                       !.feed = [mode |-> "sse", net |-> "opening", opened |-> FALSE,
                                 failing |-> FALSE, cursor |-> cursor, sent |-> cursor]])

\* Every read of the recovery has been answered.
RecoveryDone ==
  /\ page.rec # Nil /\ page.rec.session = "done" /\ page.rec.data = "done"
  /\ LET p == [page EXCEPT !.rec = Nil]
         whole == p.session = "ready" /\ (page.rec.needed => p.data.status = "ready")
         cursor == IF p.start = Nil THEN 0 ELSE p.start.cursor
     IN  page' =
          IF page.rec.gen # p.gen THEN Follow(p, FALSE, 0)
          ELSE IF p.users = 0 THEN Follow([p EXCEPT !.status = "idle"], FALSE, 0)
          ELSE IF ~whole
          THEN LET off == [p EXCEPT !.status = "offline"]
               IN  Follow(IF p.feed = Nil THEN off ELSE Schedule(off, "recover"), FALSE, 0)
          ELSE Follow([p EXCEPT !.ready = TRUE, !.timer = Nil,
                         !.status = IF p.feed # Nil /\ p.up THEN "live" ELSE "connecting"],
                      TRUE, cursor)
  /\ UNCHANGED <<World, faults, leaves>>

\* A retry the store scheduled after a failure falls due.
RetryDue ==
  /\ page.timer # Nil
  /\ LET p == [page EXCEPT !.timer = Nil]
     IN  page' = IF page.timer = "start" THEN Start(p) ELSE Recover(p)
  /\ UNCHANGED <<World, faults, leaves>>

-----------------------------------------------------------------------------
(* The stream.                                                             *)
Streaming == page.feed # Nil /\ page.feed.mode = "sse"

\* The server accepts the stream of a member and resumes after the last row
\* the browser received.  A reopened stream makes the page recover.
OpenStream ==
  /\ Streaming /\ page.feed.net \in {"opening", "down"}
  /\ Audience[cookie] = "member"
  /\ LET up == Connected([page EXCEPT !.feed.net = "open", !.feed.opened = TRUE,
                                      !.feed.sent = page.feed.cursor])
     IN  page' = IF page.feed.opened THEN Recover(up) ELSE up
  /\ UNCHANGED <<World, faults, leaves>>

\* The server refuses a reader without a membership (403) or one stream too
\* many (429), or the stream does not open in time.  A page whose stream was
\* never open polls instead; one that had been open is closed for good.
StreamRefused ==
  /\ Streaming /\ page.feed.net \in {"opening", "down"}
  /\ IF Audience[cookie] = "public" THEN UNCHANGED faults ELSE Spend
  /\ page' = IF page.feed.opened THEN Interrupted([page EXCEPT !.feed.net = "closed"])
             ELSE FallBack(page)
  /\ UNCHANGED <<World, leaves>>

\* The pump writes the next page of rows.
Pump ==
  /\ Streaming /\ page.feed.net = "open" /\ page.feed.sent < Len(log)
  /\ page' = [page EXCEPT !.feed.sent = Min({@ + PageSize, Len(log)})]
  /\ UNCHANGED <<World, faults, leaves>>

ReceiveFrame ==
  /\ Streaming /\ page.feed.net = "open" /\ page.feed.cursor < page.feed.sent
  /\ page' = Consume([page EXCEPT !.feed.cursor = @ + 1])
  /\ UNCHANGED <<World, faults, leaves>>

\* The connection is lost, replaced, or closed by its lifetime cap, with the
\* frames in flight.
StreamLost ==
  /\ Streaming /\ page.feed.net = "open"
  /\ Spend
  /\ page' = Interrupted([page EXCEPT !.feed.net = "down"])
  /\ UNCHANGED <<World, leaves>>

-----------------------------------------------------------------------------
(* Polling.                                                                *)
Polling == page.feed # Nil /\ page.feed.mode = "poll" /\ page.feed.net # "closed"

PageEnd == Min({page.feed.cursor + PageSize, Len(log)})
\* Seeded fault: the position after a page is that of the last row shown.
LatestShown ==
  Max({page.feed.cursor} \union
      {i \in (page.feed.cursor + 1)..PageEnd : Visible(cookie, i)})

\* The position after a page: the last row of it, shown or not.
LatestId == PageEnd

PollOnce ==
  /\ Polling
  /\ LET shown == {i \in (page.feed.cursor + 1)..PageEnd : Visible(cookie, i)}
         moved == [page EXCEPT !.feed.cursor = LatestId, !.feed.failing = FALSE]
         told == CASE shown = {} -> moved
                   [] Cardinality(shown) = 1 -> Consume(moved)
                   [] OTHER -> Consume(Consume(moved))
         up == Connected(told)
     IN  page' = IF page.feed.failing THEN Recover(up) ELSE up
  /\ UNCHANGED <<World, faults, leaves>>

\* A failed poll is tried again, a refused one (404, 405) is the last.
PollFails ==
  /\ Polling
  /\ Spend
  /\ page' \in {Interrupted([page EXCEPT !.feed.failing = TRUE]),
               [page EXCEPT !.up = FALSE, !.status = "idle", !.feed.net = "closed"]}
  /\ UNCHANGED <<World, leaves>>

-----------------------------------------------------------------------------
Internal ==
  \/ Ensure \/ Deliver(TRUE) \/ LearnSession \/ Reloaded \/ Prime \/ RecoveryDone \/ RetryDue
  \/ OpenStream \/ (Audience[cookie] = "public" /\ StreamRefused)
  \/ Pump \/ ReceiveFrame \/ PollOnce

Faulty ==
  \/ Deliver(FALSE) \/ LoseSession \/ PrimeFails \/ StreamLost \/ PollFails
  \/ (Audience[cookie] = "member" /\ StreamRefused)

FeedNext ==
  \/ \E kind \in {"shared", "private"} : LogRow(kind)
  \/ SwitchCredential \/ \E forced \in BOOLEAN : RefreshSession(forced)
  \/ Retain \/ Leave
  \/ Internal
  \/ Faulty

FeedSpec == FeedInit /\ [][FeedNext]_feedVars

\* Timers fire, reads are answered, the browser reconnects and the server
\* pumps: some step the page or its server owes is eventually taken.
FairSpec == FeedSpec /\ WF_feedVars(Internal)

-----------------------------------------------------------------------------
\* A row the page was allowed to learn of under every credential its browser has
\* had since it read the data.
Disclosed(i) == \A c \in page.data.cred..cookie : Visible(c, i)

\* A page with nothing in flight shows data no older than any row its feed has
\* handed it: no row falls between the read and the feed, and none that arrives
\* during a read is taken for answered by it.  Excepted is the page that
\* started over and joined a recovery begun before (Recover).
CursorCovered ==
  page.feed # Nil /\ page.load = Nil /\ page.data.status = "ready" /\ ~page.joined
    => \A i \in 1..page.feed.cursor : Disclosed(i) => i <= page.data.at

\* Whatever is shown was read under the credential the browser had when the
\* page last found its reader changed, or a later one; and if the reader is a
\* member, under that member's credential or a later one.  An answer that was
\* in flight when the session changed is never shown.
OldCredentialForgotten ==
  page.data.cred # 0 =>
    /\ page.data.cred >= page.noticed
    /\ page.known # SignedOut => page.data.cred >= page.known

\* Once rows, faults and sign-ins have stopped, the page comes to show the
\* present state and to say it is live, unless it says that a read failed or
\* that it follows no feed, has not been told of its new credential, or lost a
\* stream for good.
Excused ==
  \/ page.users = 0 \/ page.joined \/ page.status = "idle"
  \/ page.data.status = "error" \/ page.session = "error"
  \/ page.known # Identity(cookie)
  \/ page.feed # Nil /\ page.feed.net = "closed"
CatchesUp ==
  <>[]( \/ Excused
        \/ /\ page.data.status = "ready" /\ page.status = "live"
           /\ LastVisible(cookie, page.data.at) = LastVisible(cookie, Len(log)))

=============================================================================
