------------------------------- MODULE Wizard -------------------------------
(***************************************************************************)
(* create-authorbot: the stages that create a book, publish it, turn on    *)
(* collaboration and take the hosting down again, the setup journal they   *)
(* resume from, and what they make outside the author's machine.           *)
(*                                                                         *)
(* A run is one process that works through a stage step by step. It may    *)
(* stop at every step, because it is killed, a command fails, a check does *)
(* not pass or the author says no. The stage is then marked "started" or   *)
(* "failed", which is alike not done, and Stop stands for all of it. What  *)
(* was made and what was journalled before stays. A bare run is one stage  *)
(* after the other, from the first that is not done.                       *)
(*                                                                         *)
(* Left out: stages that make nothing here (doctor, agent, upgrade), the   *)
(* teardown of the repository, dry runs, the other files of the scaffold,  *)
(* local commits and CI secrets (no later step reads them), validation of  *)
(* names and of what the journal holds.                                    *)
(***************************************************************************)
EXTENDS Naturals, FiniteSets

CONSTANTS
    MaxApps,   \* bound: the GitHub Apps that are ever created
    MaxDbs,    \* bound: the databases that are ever created
    MaxEdits,  \* bound: how often the author edits a file
    MaxForgets \* bound: how often the journal is deleted

ASSUME Bounds == {MaxApps, MaxDbs, MaxEdits, MaxForgets} \subseteq Nat

Nothing == 0
AppOrNone == 0..MaxApps
DbOrNone == 0..MaxDbs

Stages == {"book", "publish", "collaborate"}
Secrets == {"client", "key"}   \* GITHUB_CLIENT_SECRET and GITHUB_APP_PRIVATE_KEY
Hosting == {"worker", "d1"}
Kinds == {"repo", "app"} \cup Hosting   \* of the resources the journal lists

\* wrangler.jsonc: the client id, the app id with its installation, the database.
Config == [client : AppOrNone, app : AppOrNone, db : DbOrNone]
Static == [client |-> Nothing, app |-> Nothing, db |-> Nothing]

\* book.yml is absent, without publication.api_url ("plain") or with it ("on").
\* A wrangler.jsonc that is absent is as good as the static one: nothing reads either.
Files == {"book.yml", "wrangler.jsonc"}
Texts(f) == IF f = "book.yml" THEN {"absent", "plain", "on"} ELSE Config
\* A file is the text the wizard knows and the last edit of the author's it holds.
Contents(f) == [text : Texts(f), edit : 0..MaxEdits]
Written(text) == [text |-> text, edit |-> 0]

EmptyJournal ==
    [done |-> {}, repo |-> FALSE, site |-> FALSE, d1 |-> Nothing, app |-> Nothing,
     key |-> FALSE, listed |-> {}, digest |-> [f \in Files |-> {}]]

VARIABLES
    disk,     \* book.yml and wrangler.jsonc
    built,    \* _site: built with or without the collaboration controls
    repo,     \* the GitHub repository exists and is the directory's origin
    worker,   \* the Cloudflare Worker: the site and the configuration it has
    secrets,  \* whose secrets the Worker holds
    db,       \* the D1 database with the book's name
    migrated, \* its tables exist
    apps,     \* how many GitHub Apps were ever created
    dbs,      \* how many databases were ever created
    journal,  \* .authorbot-setup.json
    run,      \* the process
    cut,      \* history: unlisted because a run stopped, or taken down, or taken for gone
    carried,  \* history: the edit collaborate wrote along into book.yml
    edits, forgot \* how often each happened

world == <<repo, worker, secrets, db, migrated, apps, dbs>>
past == <<cut, carried, edits, forgot>>
vars == <<disk, built, world, journal, run, past>>

Steps == {"idle", "done",
          "book.scaffold", "book.remember", "book.config", "book.rememberConfig",
          "book.remote", "book.record", "book.list",
          "publish.config", "publish.remember", "publish.build", "publish.deploy",
          "publish.list", "publish.verify",
          "collab.database", "collab.listDb", "collab.recordDb", "collab.app",
          "collab.listApp", "collab.secret", "collab.recordSecret", "collab.install",
          "collab.config", "collab.remember", "collab.migrate", "collab.deploy",
          "collab.verify", "collab.switch", "collab.rememberSwitch", "collab.build",
          "collab.redeploy", "unpublish.delete", "unpublish.forget"}

Idle == [at |-> "idle", stage |-> "book", app |-> Nothing, client |-> Nothing,
         db |-> Nothing, todo |-> {}, asked |-> FALSE]

\* Every variable keeps its type, the journal the fields its parser accepts.
TypeOK ==
    /\ \A f \in Files : disk[f] \in Contents(f) /\ journal.digest[f] \subseteq Contents(f)
    /\ built \in {"none", "plain", "on"} /\ repo \in BOOLEAN
    /\ worker \in [site : {"none", "plain", "on"}, config : Config]
    /\ secrets \in [Secrets -> AppOrNone]
    /\ db \in DbOrNone /\ migrated \in BOOLEAN
    /\ apps \in AppOrNone /\ dbs \in DbOrNone
    /\ journal.done \subseteq Stages /\ journal.listed \subseteq Kinds
    /\ {journal.repo, journal.site, journal.key} \subseteq BOOLEAN
    /\ journal.d1 \in DbOrNone /\ journal.app \in AppOrNone
    /\ run.at \in Steps /\ run.stage \in Stages /\ run.asked \in BOOLEAN
    /\ {run.app, run.client} \subseteq AppOrNone /\ run.db \in DbOrNone
    /\ run.todo \subseteq Secrets \cup Hosting
    /\ cut \subseteq Kinds /\ carried \in 0..MaxEdits
    /\ edits \in 0..MaxEdits /\ forgot \in 0..MaxForgets

Init ==
    /\ disk = [f \in Files |-> Written(IF f = "book.yml" THEN "absent" ELSE Static)]
    /\ built = "none"
    /\ repo = FALSE
    /\ worker = [site |-> "none", config |-> Static]
    /\ secrets = [s \in Secrets |-> Nothing]
    /\ db = Nothing /\ migrated = FALSE
    /\ apps = 0 /\ dbs = 0
    /\ journal = EmptyJournal
    /\ run = Idle
    /\ cut = {} /\ carried = 0
    /\ edits = 0 /\ forgot = 0

At(step) == run.at = step
Goto(step) == run' = [run EXCEPT !.at = step]
Only(step, next) == At(step) /\ Goto(next) /\ UNCHANGED <<disk, built, world, past>>

------------------------------------------------------------------------------
(* The process and its journal. *)

HasBook == disk["book.yml"].text # "absent"

\* What a stage asks for before its first step.
Ready == [book |-> TRUE, publish |-> HasBook,
          collaborate |-> HasBook /\ journal.site /\ repo]
First == [book |-> "book.scaffold", publish |-> "publish.config",
          collaborate |-> "collab.database"]

Start(s) ==
    /\ At("idle") /\ Ready[s]
    /\ journal' = [journal EXCEPT !.done = @ \ {s}]
    /\ run' = [Idle EXCEPT !.at = First[s], !.stage = s]
    /\ UNCHANGED <<disk, built, world, past>>

StartUnpublish ==
    /\ At("idle")
    /\ journal.listed \cap Hosting # {}
    /\ run' = [Idle EXCEPT !.at = "unpublish.delete", !.todo = journal.listed \cap Hosting]
    /\ UNCHANGED <<disk, built, world, journal, past>>

MarkDone ==
    /\ Only("done", "idle")
    /\ journal' = [journal EXCEPT !.done = @ \cup {run.stage}]

Stop ==
    /\ ~At("idle")
    /\ run' = Idle
    /\ cut' = cut \cup (IF run.at \in {"book.record", "book.list"} THEN {"repo"} ELSE {})
    /\ UNCHANGED <<disk, built, world, journal, carried, edits, forgot>>

Record(step, next, recorded) == Only(step, next) /\ journal' = recorded

\* actions.resource: what now exists, for the closing report.
List(step, next, r) ==
    /\ At(step) /\ Goto(next)
    /\ journal' = [journal EXCEPT !.listed = @ \cup {r}]
    /\ cut' = cut \ {r}
    /\ UNCHANGED <<disk, built, world, carried, edits, forgot>>

Exists(f) == f = "book.yml" => HasBook

\* Seeded fault: any file the wizard once wrote is its own.
EverOurs(f) == journal.digest[f] # {}

\* The bytes on disk are those the wizard last wrote there.
Ours(f) == disk[f] \in journal.digest[f]

\* actions.writeFile: what differs and is not ours is replaced when the author says so.
Write(step, next, f, content) ==
    /\ At(step)
    /\ disk' = [disk EXCEPT ![f] = content]
    /\ run' = [run EXCEPT !.at = next,
                          !.asked = disk[f] # content /\ Exists(f) /\ ~Ours(f)]
    /\ UNCHANGED <<built, world, journal>>

Remember(step, next, f) ==
    Record(step, next, [journal EXCEPT !.digest[f] = {disk[f]}])

Build(step, next) ==
    /\ At(step) /\ Goto(next)
    /\ built' = disk["book.yml"].text
    /\ UNCHANGED <<disk, world, journal, past>>

\* wrangler deploy: the site that was built and the configuration on disk.
Deploy(step, next) ==
    /\ At(step) /\ Goto(next)
    /\ worker' = [site |-> built, config |-> disk["wrangler.jsonc"].text]
    /\ UNCHANGED <<disk, built, repo, secrets, db, migrated, apps, dbs, journal, past>>

------------------------------------------------------------------------------
(* book: the scaffold and the repository. Run again, it writes the same    *)
(* scaffold over whatever the later stages made of it.                     *)

Scaffold ==
    /\ \/ Write("book.scaffold", "book.remember", "book.yml", Written("plain"))
       \/ Write("book.config", "book.rememberConfig", "wrangler.jsonc", Written(Static))
    /\ UNCHANGED past

RememberScaffold ==
    \/ Remember("book.remember", "book.config", "book.yml")
    \/ Remember("book.rememberConfig", "book.remote", "wrangler.jsonc")

\* The repository is recorded and there; or the author keeps the book local.
NoNewRepo == Only("book.remote", "done") /\ UNCHANGED journal

CreateRepo ==
    /\ At("book.remote") /\ ~repo
    /\ repo' = TRUE
    /\ Goto("book.record")
    /\ UNCHANGED <<disk, built, worker, secrets, db, migrated, apps, dbs, journal, past>>

RecordRepo == Record("book.record", "book.list", [journal EXCEPT !.repo = TRUE])
ListRepo == List("book.list", "done", "repo")

------------------------------------------------------------------------------
(* publish: the Worker with the site alone.                                *)

PublishConfig ==
    /\ Write("publish.config", "publish.remember", "wrangler.jsonc", Written(Static))
    /\ UNCHANGED past

RememberPublish == Remember("publish.remember", "publish.build", "wrangler.jsonc")
BuildSite == Build("publish.build", "publish.deploy")
DeploySite == Deploy("publish.deploy", "publish.list")
ListWorker == List("publish.list", "publish.verify", "worker")

\* The deploy printed an address and the site answers there, or it printed none.
SiteAnswers == Record("publish.verify", "done", [journal EXCEPT !.site = TRUE])
SiteUnknown == Only("publish.verify", "done") /\ UNCHANGED journal

------------------------------------------------------------------------------
(* collaborate: the database, the App, the configuration, the switch.      *)

ReuseDb ==
    /\ At("collab.database") /\ journal.d1 # Nothing
    /\ run' = [run EXCEPT !.at = "collab.app", !.db = journal.d1]
    /\ UNCHANGED <<disk, built, world, journal, past>>

CreateDb ==
    /\ At("collab.database") /\ journal.d1 = Nothing
    /\ db = Nothing /\ dbs < MaxDbs
    /\ dbs' = dbs + 1 /\ db' = dbs' /\ migrated' = FALSE
    /\ run' = [run EXCEPT !.at = "collab.listDb", !.db = dbs']
    /\ UNCHANGED <<disk, built, repo, worker, secrets, apps, journal, past>>

\* One with that name exists already.
AdoptDb ==
    /\ At("collab.database") /\ journal.d1 = Nothing
    /\ db # Nothing
    /\ run' = [run EXCEPT !.at = "collab.listDb", !.db = db]
    /\ UNCHANGED <<disk, built, world, journal, past>>

ListDb == List("collab.listDb", "collab.recordDb", "d1")
RecordDb == Record("collab.recordDb", "collab.app", [journal EXCEPT !.d1 = run.db])

\* readClientIdFromWrangler: the client id is only in the file.
ClientOnDisk == disk["wrangler.jsonc"].text.client
AppIsWhole == journal.app # Nothing /\ journal.key /\ ClientOnDisk # Nothing

ReuseApp ==
    /\ At("collab.app") /\ AppIsWhole
    /\ run' = [run EXCEPT !.at = "collab.config", !.app = journal.app,
                          !.client = ClientOnDisk]
    /\ UNCHANGED <<disk, built, world, journal, past>>

\* Seeded fault: secrets the journal has recorded are taken to be set.
SecretsUnset == IF journal.key THEN {"client"} ELSE Secrets

\* The secrets a new App's credentials are put into.
SecretsToPut == Secrets

CreateApp ==
    /\ At("collab.app") /\ ~AppIsWhole
    /\ apps < MaxApps
    /\ apps' = apps + 1
    /\ run' = [run EXCEPT !.at = "collab.listApp", !.app = apps', !.client = apps',
                          !.todo = SecretsToPut]
    /\ UNCHANGED <<disk, built, repo, worker, secrets, db, migrated, dbs, journal, past>>

ListApp == List("collab.listApp", "collab.secret", "app")

NextSecret == IF "client" \in run.todo THEN "client" ELSE "key"

PutSecret ==
    /\ At("collab.secret")
    /\ worker.site # "none"
    /\ secrets' = [secrets EXCEPT ![NextSecret] = run.app]
    /\ Goto("collab.recordSecret")
    /\ UNCHANGED <<disk, built, repo, worker, db, migrated, apps, dbs, journal, past>>

RecordSecret ==
    /\ At("collab.recordSecret")
    /\ LET left == run.todo \ {NextSecret} IN
       run' = [run EXCEPT !.todo = left,
                          !.at = IF left = {} THEN "collab.install" ELSE "collab.secret"]
    /\ journal' = [journal EXCEPT !.key = @ \/ NextSecret = "key"]
    /\ UNCHANGED <<disk, built, world, past>>

\* The author installed the App on the repository.
RecordApp == Record("collab.install", "collab.config", [journal EXCEPT !.app = run.app])

CollabConfig ==
    /\ Write("collab.config", "collab.remember", "wrangler.jsonc",
             Written([client |-> run.client, app |-> run.app, db |-> run.db]))
    /\ UNCHANGED past

RememberConfig == Remember("collab.remember", "collab.migrate", "wrangler.jsonc")

Migrate ==
    /\ At("collab.migrate") /\ run.db = db
    /\ migrated' = TRUE
    /\ Goto("collab.deploy")
    /\ UNCHANGED <<disk, built, repo, worker, secrets, db, apps, dbs, journal, past>>

DeployApi == Deploy("collab.deploy", "collab.verify")

\* The API refuses strangers, starts a sign-in, and the database knows the
\* author as the book's maintainer. It is asked for an App's credentials too, but
\* an answer that is not a 200 with a status in it is passed over.
Verify ==
    /\ worker.config.client # Nothing
    /\ migrated /\ worker.config.db = db
    /\ Only("collab.verify", "collab.switch")
    /\ UNCHANGED journal

\* setApiUrl keeps whatever else book.yml holds.
SwitchOn ==
    /\ HasBook
    /\ Write("collab.switch", "collab.rememberSwitch", "book.yml",
             [disk["book.yml"] EXCEPT !.text = "on"])
    /\ carried' = disk["book.yml"].edit
    /\ UNCHANGED <<cut, edits, forgot>>

RememberSwitch == Remember("collab.rememberSwitch", "collab.build", "book.yml")
RebuildSite == Build("collab.build", "collab.redeploy")
Redeploy == Deploy("collab.redeploy", "done")

------------------------------------------------------------------------------
(* unpublish: every listed resource of the hosting, in either order.       *)

Gone(r) ==
    /\ worker' = IF r = "worker" THEN [site |-> "none", config |-> Static] ELSE worker
    /\ secrets' = IF r = "worker" THEN [s \in Secrets |-> Nothing] ELSE secrets
    /\ db' = IF r = "d1" THEN Nothing ELSE db
    /\ migrated' = IF r = "d1" THEN FALSE ELSE migrated

\* A deletion that finds nothing to delete is a success.
Delete(r) ==
    /\ At("unpublish.delete") /\ r \in run.todo
    /\ Gone(r)
    /\ Goto("unpublish.forget")
    /\ UNCHANGED <<disk, built, repo, apps, dbs, journal, past>>

Left(r) ==
    LET left == run.todo \ {r} IN
    run' = [run EXCEPT !.todo = left, !.at = IF left = {} THEN "idle" ELSE "unpublish.delete"]

There(r) == IF r = "worker" THEN worker.site # "none" ELSE db # Nothing

Forget(r) ==
    /\ At("unpublish.forget") /\ r \in run.todo /\ ~There(r)
    /\ journal' = [journal EXCEPT !.listed = @ \ {r}]
    /\ Left(r)
    /\ cut' = cut \cup ({r} \cap {"worker"})
    /\ UNCHANGED <<disk, built, world, carried, edits, forgot>>

\* A deletion that failed, with an output that says "not found" of something else.
Misread(r) ==
    /\ At("unpublish.delete") /\ r \in run.todo /\ There(r)
    /\ journal' = [journal EXCEPT !.listed = @ \ {r}]
    /\ Left(r)
    /\ cut' = cut \cup {r}
    /\ UNCHANGED <<disk, built, world, carried, edits, forgot>>

\* Seeded fault: what could not be deleted is dropped from the list as well.
DropsBehind(r) ==
    /\ At("unpublish.delete") /\ r \in run.todo /\ There(r)
    /\ journal' = [journal EXCEPT !.listed = @ \ {r}]
    /\ Left(r)
    /\ UNCHANGED <<disk, built, world, past>>

LeaveBehind(r) ==
    /\ At("unpublish.delete") /\ r \in run.todo /\ There(r)
    /\ Left(r)
    /\ UNCHANGED <<disk, built, world, journal, past>>

------------------------------------------------------------------------------
(* The author, between runs; an edit while a run goes on, or waits for the *)
(* author's word on a file, is left out.                                   *)

Edit(f) ==
    /\ At("idle") /\ Exists(f) /\ edits < MaxEdits
    /\ edits' = edits + 1
    /\ disk' = [disk EXCEPT ![f].edit = edits']
    /\ UNCHANGED <<built, world, journal, run, cut, carried, forgot>>

DeleteJournal ==
    /\ At("idle") /\ forgot < MaxForgets
    /\ forgot' = forgot + 1
    /\ journal' = EmptyJournal
    /\ cut' = cut \cup (IF repo THEN {"repo"} ELSE {})
    /\ UNCHANGED <<disk, built, world, run, carried, edits>>

Book == Scaffold \/ RememberScaffold \/ NoNewRepo \/ CreateRepo \/ RecordRepo \/ ListRepo
Publish ==
    \/ PublishConfig \/ RememberPublish \/ BuildSite \/ DeploySite \/ ListWorker
    \/ SiteAnswers \/ SiteUnknown
Collaborate ==
    \/ ReuseDb \/ CreateDb \/ AdoptDb \/ ListDb \/ RecordDb
    \/ ReuseApp \/ CreateApp \/ ListApp \/ PutSecret \/ RecordSecret \/ RecordApp
    \/ CollabConfig \/ RememberConfig \/ Migrate \/ DeployApi \/ Verify
    \/ SwitchOn \/ RememberSwitch \/ RebuildSite \/ Redeploy
Unpublish == \E r \in Hosting : Delete(r) \/ Forget(r) \/ Misread(r) \/ LeaveBehind(r)

Next ==
    \/ \E s \in Stages : Start(s)
    \/ StartUnpublish \/ MarkDone \/ Stop
    \/ Book \/ Publish \/ Collaborate \/ Unpublish
    \/ \E f \in Files : Edit(f)
    \/ DeleteJournal

Spec == Init /\ [][Next]_vars

------------------------------------------------------------------------------
(* A Worker that runs the configuration on disk with an App in it has that *)
(* App's client id and every secret of the same App, or none at all after  *)
(* an unpublish, and tables in the database it is bound to, wherever       *)
(* earlier runs stopped and however many Apps they left (collaborate.ts:   *)
(* secrets, then the journal, then the file), also when the journal was    *)
(* deleted in between (journal.ts: "a deleted journal costs time, not      *)
(* safety").                                                               *)
CredentialsMatch ==
    LET has == worker.config IN
    /\ has = disk["wrangler.jsonc"].text /\ has.client # Nothing
    => /\ has.client = has.app
       /\ (\A s \in Secrets : secrets[s] = has.app) \/ (\A s \in Secrets : secrets[s] = Nothing)
       /\ has.db = db => migrated

(* What a finished stage made and still exists is listed for the author to *)
(* remove (actions.ts: "Every externally-created resource is reported at   *)
(* the end"). Excepted are a repository whose run stopped before it was    *)
(* listed, or whose journal was deleted, a Worker that collaborate deploys *)
(* again after unpublish took it down, and what unpublish failed to delete *)
(* and took for gone.                                                      *)
DoneIsListed ==
    /\ "book" \in journal.done /\ repo => "repo" \in journal.listed \cup cut
    /\ "publish" \in journal.done /\ There("worker") => "worker" \in journal.listed \cup cut
    /\ "collaborate" \in journal.done /\ There("d1") => "d1" \in journal.listed \cup cut
    /\ journal.app # Nothing => "app" \in journal.listed

(* A run replaces a file that holds an edit of the author's only after the *)
(* author said so, except a book.yml that collaborate itself wrote with    *)
(* that edit in it, which counts as the wizard's own (actions.ts:          *)
(* "Existing files are never overwritten silently").                       *)
EditsKept ==
    [][\A f \in Files :
         /\ ~At("idle") /\ disk[f].edit # 0 /\ disk'[f].edit # disk[f].edit
         => run'.asked \/ (f = "book.yml" /\ disk[f].edit = carried)]_vars
=============================================================================
