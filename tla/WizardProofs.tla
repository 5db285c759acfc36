---------------------------- MODULE WizardProofs ----------------------------
(***************************************************************************)
(* Proofs about Wizard: type correctness, the credentials of the Worker,   *)
(* the list of what was made, and the author's edits, wherever runs stop   *)
(* and in whatever order, for any number of Apps, databases, edits and     *)
(* deleted journals.                                                       *)
(***************************************************************************)
EXTENDS Wizard, TLAPS

\* The shape of the variables that are functions and records, beside the types of
\* what they hold.
AnyContents == Contents("book.yml") \cup Contents("wrangler.jsonc")
Journal == [done : SUBSET Stages, repo : BOOLEAN, site : BOOLEAN, d1 : DbOrNone,
            app : AppOrNone, key : BOOLEAN, listed : SUBSET Kinds,
            digest : [Files -> SUBSET AnyContents]]
Process == [at : Steps, stage : Stages, app : AppOrNone, client : AppOrNone,
            db : DbOrNone, todo : SUBSET (Secrets \cup Hosting), asked : BOOLEAN]
Shape == disk \in [Files -> AnyContents] /\ journal \in Journal /\ run \in Process

Wrangler == disk["wrangler.jsonc"].text

\* The steps by what has happened before them.
PublishConfigured == {"publish.remember", "publish.build", "publish.deploy",
                      "publish.list", "publish.verify"}
NewApp == {"collab.listApp", "collab.secret", "collab.recordSecret", "collab.install"}
DbKnown == NewApp \cup {"collab.app", "collab.config"}
Configured == {"collab.remember", "collab.migrate"}
Migrating == {"collab.deploy", "collab.verify", "collab.switch", "collab.rememberSwitch",
              "collab.build", "collab.redeploy"}
DbRecorded == DbKnown \cup Configured \cup Migrating
CollabSteps == {"collab.database", "collab.listDb", "collab.recordDb"} \cup DbRecorded
BookSteps == {"book.scaffold", "book.remember", "book.config", "book.rememberConfig",
              "book.remote", "book.record", "book.list"}
PublishSteps == {"publish.config"} \cup PublishConfigured

\* A stage that publishes or collaborates has a book.
Begun == run.at \in PublishSteps \cup CollabSteps => HasBook

\* Secrets are of one App or there are none.
SecretsOf(app) == \/ \A s \in Secrets : secrets[s] = app
                  \/ \A s \in Secrets : secrets[s] = Nothing

\* A configuration has one App's ids, and with an App a database; databases are
\* numbered as they are created.
Numbered ==
    /\ db <= dbs /\ journal.d1 <= dbs /\ run.db <= dbs
    /\ \A c \in {Wrangler, worker.config} :
         c.client = c.app /\ c.db <= dbs /\ (c.client # Nothing => c.db # Nothing)

\* The App in the file is the one whose secrets are set, and, unless the journal was
\* deleted since, the one the journal records: a journal without it has no site
\* either, and publishing writes the file before it records the site.
FileKnown ==
    Wrangler.client # Nothing =>
      /\ SecretsOf(Wrangler.client)
      /\ journal.site => journal.app = Wrangler.client /\ journal.key

TablesMade == worker.config.client # Nothing /\ worker.config.db = db => migrated

\* What the process has done when it is at a step.
Progress ==
    /\ run.at \in PublishSteps => run.stage = "publish"
    /\ run.at \in PublishConfigured => Wrangler = Static
    /\ run.at \in CollabSteps => journal.site /\ run.stage = "collaborate"
    /\ run.at \in CollabSteps \ {"collab.database"} => run.db # Nothing
    /\ run.at \in NewApp =>
         Wrangler.client = Nothing /\ run.app # Nothing /\ run.client = run.app
    /\ run.at \in NewApp \ {"collab.install"} => run.todo \in {Secrets, {"key"}}
    /\ At("collab.listApp") => run.todo = Secrets
    /\ At("collab.secret") => \A s \in Secrets \ run.todo : secrets[s] = run.app
    /\ At("collab.recordSecret") =>
         \A s \in Secrets : s \notin run.todo \/ s = NextSecret => secrets[s] = run.app
    /\ At("collab.install") => journal.key /\ \A s \in Secrets : secrets[s] = run.app
    /\ At("collab.config") =>
         /\ run.client = run.app /\ run.app # Nothing
         /\ journal.app = run.app /\ journal.key /\ SecretsOf(run.app)
    /\ run.at \in Configured => Wrangler.db = run.db
    /\ run.at \in Migrating => Wrangler.db = db /\ migrated

Credentials == Numbered /\ FileKnown /\ TablesMade /\ Progress

\* A stage is done, or its process has come to one of these steps.
Has(stage, steps) == \/ stage \in journal.done \/ run.at \in steps
                     \/ (At("done") /\ run.stage = stage)

\* What is made is listed, or a step of the run that made it is still to list it.
Listed ==
    /\ repo => "repo" \in journal.listed \cup cut \/ run.at \in {"book.record", "book.list"}
    /\ run.at \in BookSteps => run.stage = "book" /\ "book" \notin journal.done
    /\ Has("publish", {"publish.verify"}) => "worker" \in journal.listed \cup cut
    /\ Has("collaborate", DbRecorded) => journal.d1 # Nothing
    /\ journal.d1 # Nothing /\ db # Nothing => "d1" \in journal.listed \cup cut
    /\ At("collab.recordDb") => "d1" \in journal.listed
    /\ journal.app # Nothing => "app" \in journal.listed
    /\ run.at \in NewApp \ {"collab.listApp"} => "app" \in journal.listed

\* A digest is of what the wizard wrote: without an edit of the author's, except in the
\* book.yml collaborate carried one into.
Edits ==
    /\ disk["book.yml"].edit # 0 => HasBook
    /\ \A f \in Files : /\ disk[f].edit <= edits
                        /\ \A c \in journal.digest[f] : c.edit <= edits
    /\ \A c \in journal.digest["wrangler.jsonc"] : c.edit = 0
    /\ Ours("book.yml") /\ disk["book.yml"].edit # 0 => disk["book.yml"].edit = carried
    /\ run.at \in {"book.rememberConfig", "publish.remember", "collab.remember"}
         => disk["wrangler.jsonc"].edit = 0
    /\ At("book.remember") => disk["book.yml"].edit = 0
    /\ At("collab.rememberSwitch") => disk["book.yml"].edit = carried

Inv == Shape /\ TypeOK /\ Begun /\ Credentials /\ Listed /\ Edits
-----------------------------------------------------------------------------
(* Types.                                                                  *)

Typed == Shape /\ TypeOK

LEMMA TypeInit == Init => Typed
<1> SUFFICES ASSUME Init PROVE Typed
  OBVIOUS
<1>1. 0 \in 0..MaxApps /\ 0 \in 0..MaxDbs /\ 0 \in 0..MaxEdits /\ 0 \in 0..MaxForgets
  BY Bounds
<1>2. journal \in Journal /\ run \in Process
  BY <1>1 DEF Init, EmptyJournal, Idle, Journal, Process, Steps, Stages, DbOrNone, AppOrNone, Nothing
<1>3. Static \in Config
  BY <1>1 DEF Static, Config, AppOrNone, DbOrNone, Nothing
<1>4. /\ disk["book.yml"] \in Contents("book.yml")
      /\ disk["wrangler.jsonc"] \in Contents("wrangler.jsonc")
      /\ disk \in [Files -> AnyContents]
  BY <1>1, <1>3 DEF Init, Contents, Texts, Written, Files, AnyContents
<1> QED
  BY <1>1, <1>2, <1>3, <1>4 DEF Init, Typed, Shape, TypeOK, EmptyJournal, Idle, Steps, Stages,
     Files, AppOrNone, DbOrNone, Nothing, Secrets

\* A file written by the wizard.
LEMMA WriteTyped ==
    ASSUME Typed, NEW f \in Files, NEW c \in Contents(f), NEW step, NEW next \in Steps,
           Write(step, next, f, c),
           UNCHANGED <<cut, edits, forgot>>, carried' \in 0..MaxEdits
    PROVE  Typed'
<1>1. disk' \in [Files -> AnyContents] /\ \A g \in Files : disk'[g] \in Contents(g)
  BY DEF Write, Typed, Shape, TypeOK, AnyContents, Files
<1>2. run' \in Process
  BY DEF Write, Typed, Shape, Process
<1> QED
  BY <1>1, <1>2 DEF Write, Typed, Shape, TypeOK, Process, world

\* A process that goes on, and perhaps records something.
LEMMA RunTyped ==
    ASSUME Typed, NEW j \in Journal, NEW r \in Process, journal' = j, run' = r,
           \A f \in Files : j.digest[f] \subseteq Contents(f),
           UNCHANGED <<disk, built, world>>,
           cut' \subseteq Kinds, UNCHANGED <<carried, edits, forgot>>
    PROVE  Typed'
BY DEF Typed, Shape, TypeOK, Journal, Process, world

LEMMA OnlyTyped ==
    ASSUME Typed, NEW step, NEW next \in Steps, Only(step, next), NEW j \in Journal, journal' = j,
           \A f \in Files : j.digest[f] \subseteq Contents(f)
    PROVE  Typed'
<1>1. [run EXCEPT !.at = next] \in Process
  BY DEF Typed, Shape, Process
<1> QED
  BY <1>1, RunTyped DEF Only, Goto, past, Typed, TypeOK

\* The process goes on and changes the world.
LEMMA WorldTyped ==
    ASSUME Typed, run' \in Process, UNCHANGED <<disk, journal, past>>,
           built' \in {"none", "plain", "on"}, repo' \in BOOLEAN,
           worker' \in [site : {"none", "plain", "on"}, config : Config],
           secrets' \in [Secrets -> AppOrNone],
           db' \in DbOrNone, migrated' \in BOOLEAN, apps' \in AppOrNone, dbs' \in DbOrNone
    PROVE  Typed'
BY DEF Typed, Shape, TypeOK, Process, past

LEMMA GotoTyped ==
    ASSUME Typed, NEW next \in Steps, Goto(next)
    PROVE  run' \in Process
BY DEF Typed, Shape, Goto, Process

LEMMA StaticTyped == Static \in Config /\ 0 \in AppOrNone /\ 0 \in DbOrNone /\ 0 \in 0..MaxEdits
BY Bounds DEF Static, Config, AppOrNone, DbOrNone, Nothing

LEMMA RememberTyped ==
    ASSUME Typed, NEW step, NEW next \in Steps, NEW f \in Files, Remember(step, next, f)
    PROVE  Typed'
<1>1. [journal EXCEPT !.digest[f] = {disk[f]}] \in Journal
  BY DEF Typed, Shape, Journal
<1>2. \A g \in Files : [journal EXCEPT !.digest[f] = {disk[f]}].digest[g] \subseteq Contents(g)
  BY DEF Typed, Shape, TypeOK, Journal
<1> QED
  BY <1>1, <1>2, OnlyTyped DEF Remember, Record

LEMMA ListTyped ==
    ASSUME Typed, NEW step, NEW next \in Steps, NEW r \in Kinds, List(step, next, r)
    PROVE  Typed'
<1>1. [journal EXCEPT !.listed = @ \cup {r}] \in Journal
  BY DEF Typed, Shape, Journal
<1> QED
  BY <1>1, GotoTyped, RunTyped DEF List, Typed, Shape, TypeOK, Journal

\* What the stages record.
LEMMA RecordTyped ==
    ASSUME Typed, NEW step, NEW next \in Steps,
           \/ Record(step, next, [journal EXCEPT !.repo = TRUE])
           \/ Record(step, next, [journal EXCEPT !.site = TRUE])
           \/ Record(step, next, [journal EXCEPT !.d1 = run.db])
           \/ Record(step, next, [journal EXCEPT !.app = run.app])
    PROVE  Typed'
<1>1. \A j \in {[journal EXCEPT !.repo = TRUE], [journal EXCEPT !.site = TRUE],
                [journal EXCEPT !.d1 = run.db], [journal EXCEPT !.app = run.app]} :
        j \in Journal /\ j.digest = journal.digest
  BY DEF Typed, Shape, Journal, Process
<1> QED
  BY <1>1, OnlyTyped DEF Record, Typed, TypeOK

LEMMA StayTyped ==
    ASSUME Typed, NEW step, NEW next \in Steps, Only(step, next), UNCHANGED journal
    PROVE  Typed'
BY OnlyTyped DEF Typed, Shape, TypeOK

LEMMA DeployTyped ==
    ASSUME Typed, NEW step, NEW next \in Steps, Deploy(step, next)
    PROVE  Typed'
<1>1. worker' \in [site : {"none", "plain", "on"}, config : Config]
  BY DEF Deploy, Typed, TypeOK, Contents, Texts, Files
<1> QED
  BY <1>1, GotoTyped, WorldTyped DEF Deploy, Typed, TypeOK

LEMMA BuildTyped ==
    ASSUME Typed, NEW step, NEW next \in Steps, Build(step, next), HasBook
    PROVE  Typed'
<1>1. built' \in {"none", "plain", "on"}
  BY DEF Build, Typed, TypeOK, Contents, Texts, Files, HasBook
<1> QED
  BY <1>1, GotoTyped, WorldTyped DEF Build, Typed, TypeOK, world

LEMMA BookTyped == ASSUME Typed, Book PROVE Typed'
<1>1. CASE Scaffold
  <2>1. /\ Written("plain") \in Contents("book.yml")
        /\ Written(Static) \in Contents("wrangler.jsonc")
        /\ {"book.remember", "book.rememberConfig"} \subseteq Steps
        /\ {"book.yml", "wrangler.jsonc"} \subseteq Files
    BY StaticTyped DEF Written, Contents, Texts, Steps, Files
  <2> QED
    BY <1>1, <2>1, WriteTyped DEF Scaffold, past, Typed, TypeOK
<1>2. CASE RememberScaffold
  BY <1>2, RememberTyped DEF RememberScaffold, Steps, Files
<1>3. CASE CreateRepo
  BY <1>3, GotoTyped, WorldTyped DEF CreateRepo, Steps, Typed, TypeOK
<1>4. CASE NoNewRepo \/ RecordRepo \/ ListRepo
  BY <1>4, StayTyped, RecordTyped, ListTyped DEF NoNewRepo, RecordRepo, ListRepo, Steps, Kinds
<1> QED
  BY <1>1, <1>2, <1>3, <1>4 DEF Book

LEMMA PublishTyped == ASSUME Typed, Begun, Publish PROVE Typed'
<1>1. CASE PublishConfig
  <2>1. /\ Written(Static) \in Contents("wrangler.jsonc")
        /\ "publish.remember" \in Steps /\ "wrangler.jsonc" \in Files
    BY StaticTyped DEF Written, Contents, Texts, Steps, Files
  <2> QED
    BY <1>1, <2>1, WriteTyped DEF PublishConfig, past, Typed, TypeOK
<1>2. CASE BuildSite
  <2>1. HasBook
    BY <1>2 DEF BuildSite, Build, At, Begun, PublishSteps, PublishConfigured
  <2> QED
    BY <1>2, <2>1, BuildTyped DEF BuildSite, Steps
<1>3. CASE RememberPublish \/ DeploySite \/ ListWorker \/ SiteAnswers \/ SiteUnknown
  BY <1>3, RememberTyped, DeployTyped, ListTyped, RecordTyped, StayTyped DEF RememberPublish,
     DeploySite, ListWorker, SiteAnswers, SiteUnknown, Steps, Files, Kinds, Hosting
<1> QED
  BY <1>1, <1>2, <1>3 DEF Publish

\* The database, and the App.
LEMMA DatabaseTyped ==
    ASSUME Typed, ReuseDb \/ CreateDb \/ AdoptDb \/ ListDb \/ RecordDb
    PROVE  Typed'
<1>1. CASE ReuseDb \/ AdoptDb
  <2>1. /\ [run EXCEPT !.at = "collab.app", !.db = journal.d1] \in Process
        /\ [run EXCEPT !.at = "collab.listDb", !.db = db] \in Process
    BY DEF Typed, Shape, TypeOK, Process, Journal, Steps
  <2> QED
    BY <1>1, <2>1, RunTyped DEF ReuseDb, AdoptDb, past, Typed, Shape, TypeOK
<1>2. CASE CreateDb
  <2>1. dbs + 1 \in DbOrNone
    BY <1>2, Bounds DEF CreateDb, Typed, TypeOK, DbOrNone
  <2>2. dbs' = dbs + 1 /\ db' = dbs + 1
    BY <1>2 DEF CreateDb
  <2>3. run' \in Process
    BY <1>2, <2>1, <2>2 DEF CreateDb, Typed, Shape, Process, Steps
  <2> QED
    BY <1>2, <2>1, <2>2, <2>3, WorldTyped DEF CreateDb, Typed, TypeOK
<1>3. CASE ListDb \/ RecordDb
  BY <1>3, ListTyped, RecordTyped DEF ListDb, RecordDb, Steps, Kinds, Hosting
<1> QED
  BY <1>1, <1>2, <1>3

LEMMA AppTyped ==
    ASSUME Typed, ReuseApp \/ CreateApp \/ ListApp \/ PutSecret \/ RecordSecret \/ RecordApp
    PROVE  Typed'
<1>1. CASE ReuseApp
  <2>1. ClientOnDisk \in AppOrNone
    BY DEF ClientOnDisk, Typed, TypeOK, Files, Contents, Texts, Config
  <2>2. [run EXCEPT !.at = "collab.config", !.app = journal.app, !.client = ClientOnDisk] \in Process
    BY <2>1 DEF Typed, Shape, TypeOK, Process, Journal, Steps
  <2> QED
    BY <1>1, <2>2, RunTyped DEF ReuseApp, past, Typed, Shape, TypeOK
<1>2. CASE CreateApp
  <2>1. apps + 1 \in AppOrNone /\ apps' = apps + 1
    BY <1>2, Bounds DEF CreateApp, Typed, TypeOK, AppOrNone
  <2>2. run' \in Process
    BY <1>2, <2>1 DEF CreateApp, Typed, Shape, Process, Steps, SecretsToPut
  <2> QED
    BY <1>2, <2>1, <2>2, WorldTyped DEF CreateApp, Typed, TypeOK
<1>3. CASE PutSecret
  <2>1. secrets' \in [Secrets -> AppOrNone]
    BY <1>3 DEF PutSecret, Typed, Shape, TypeOK, Process
  <2> QED
    BY <1>3, <2>1, GotoTyped, WorldTyped DEF PutSecret, Typed, TypeOK, Steps
<1>4. CASE RecordSecret
  <2>1. run' \in Process
    BY <1>4 DEF RecordSecret, Typed, Shape, Process, Steps
  <2>2. [journal EXCEPT !.key = @ \/ NextSecret = "key"] \in Journal
    BY DEF Typed, Shape, Journal
  <2>3. [journal EXCEPT !.key = @ \/ NextSecret = "key"].digest = journal.digest
    BY DEF Typed, Shape, Journal
  <2> QED
    BY <1>4, <2>1, <2>2, <2>3, RunTyped DEF RecordSecret, past, Typed, TypeOK
<1>5. CASE ListApp \/ RecordApp
  BY <1>5, ListTyped, RecordTyped DEF ListApp, RecordApp, Steps, Kinds
<1> QED
  BY <1>1, <1>2, <1>3, <1>4, <1>5

\* The configuration, the tables, the switch.
LEMMA SwitchTyped ==
    ASSUME Typed, Begun,
           \/ CollabConfig \/ RememberConfig \/ Migrate \/ DeployApi \/ Verify
           \/ SwitchOn \/ RememberSwitch \/ RebuildSite \/ Redeploy
    PROVE  Typed'
<1>1. CASE CollabConfig
  <2>1. Written([client |-> run.client, app |-> run.app, db |-> run.db]) \in Contents("wrangler.jsonc")
    BY StaticTyped DEF Typed, TypeOK, Written, Contents, Texts, Config
  <2> QED
    BY <1>1, <2>1, WriteTyped DEF CollabConfig, past, Typed, TypeOK, Steps, Files
<1>2. CASE SwitchOn
  <2>1. [disk["book.yml"] EXCEPT !.text = "on"] \in Contents("book.yml") /\ carried' \in 0..MaxEdits
    BY <1>2 DEF SwitchOn, Typed, TypeOK, Contents, Texts, Files
  <2> QED
    BY <1>2, <2>1, WriteTyped DEF SwitchOn, Steps, Files
<1>3. CASE Migrate
  BY <1>3, GotoTyped, WorldTyped DEF Migrate, Typed, TypeOK, Steps
<1>4. CASE RebuildSite
  <2>1. HasBook
    BY <1>4 DEF RebuildSite, Build, At, Begun, CollabSteps, DbRecorded, Migrating
  <2> QED
    BY <1>4, <2>1, BuildTyped DEF RebuildSite, Steps
<1>5. CASE RememberConfig \/ DeployApi \/ Verify \/ RememberSwitch \/ Redeploy
  BY <1>5, RememberTyped, DeployTyped, StayTyped DEF RememberConfig, DeployApi, Verify,
     RememberSwitch, Redeploy, Steps, Files
<1> QED
  BY <1>1, <1>2, <1>3, <1>4, <1>5

LEMMA UnpublishTyped == ASSUME Typed, Unpublish PROVE Typed'
<1>1. PICK r \in Hosting : Delete(r) \/ Forget(r) \/ Misread(r) \/ LeaveBehind(r)
  BY DEF Unpublish
<1>2. CASE Delete(r)
  BY <1>2, StaticTyped, GotoTyped, WorldTyped DEF Delete, Gone, Typed, TypeOK, Steps, Nothing
<1>3. Left(r) => run' \in Process
  BY DEF Left, Typed, Shape, Process, Steps
<1>4. CASE Forget(r) \/ Misread(r) \/ LeaveBehind(r)
  <2>1. [journal EXCEPT !.listed = @ \ {r}] \in Journal /\ journal \in Journal
    BY DEF Typed, Shape, Journal
  <2>2. [journal EXCEPT !.listed = @ \ {r}].digest = journal.digest
    BY DEF Typed, Shape, Journal
  <2>3. cut' \subseteq Kinds /\ Left(r) /\ UNCHANGED <<disk, built, world, carried, edits, forgot>>
    BY <1>4 DEF Forget, Misread, LeaveBehind, Typed, TypeOK, Kinds, Hosting, past
  <2> QED
    BY <1>3, <1>4, <2>1, <2>2, <2>3, RunTyped DEF Forget, Misread, LeaveBehind, Typed, TypeOK
<1> QED
  BY <1>1, <1>2, <1>4

\* The process starts and ends; the author edits and deletes.
LEMMA OthersTyped ==
    ASSUME Typed,
           \/ \E s \in Stages : Start(s)
           \/ StartUnpublish \/ MarkDone \/ Stop
           \/ \E f \in Files : Edit(f)
           \/ DeleteJournal
    PROVE  Typed'
<1>1. Idle \in Process
  BY StaticTyped DEF Idle, Process, Steps, Stages, Nothing
<1>2. ASSUME NEW s \in Stages, Start(s) PROVE Typed'
  <2>1. [Idle EXCEPT !.at = First[s], !.stage = s] \in Process
    <3>1. First["book"] \in Steps /\ First["publish"] \in Steps /\ First["collaborate"] \in Steps
      BY DEF First, Steps
    <3> QED
      BY <1>1, <3>1 DEF Process, Stages
  <2>2. [journal EXCEPT !.done = @ \ {s}] \in Journal
    BY DEF Typed, Shape, Journal
  <2>3. [journal EXCEPT !.done = @ \ {s}].digest = journal.digest
    BY DEF Typed, Shape, Journal
  <2> QED
    BY <1>2, <2>1, <2>2, <2>3, RunTyped DEF Start, past, Typed, TypeOK
<1>3. CASE StartUnpublish
  <2>1. run' \in Process
    BY <1>1, <1>3 DEF StartUnpublish, Process, Steps
  <2> QED
    BY <1>3, <2>1, RunTyped DEF StartUnpublish, past, Typed, Shape, TypeOK
<1>4. CASE MarkDone
  <2>1. [journal EXCEPT !.done = @ \cup {run.stage}] \in Journal
    BY DEF Typed, Shape, Journal, Process
  <2>2. [journal EXCEPT !.done = @ \cup {run.stage}].digest = journal.digest
    BY DEF Typed, Shape, Journal
  <2> QED
    BY <1>4, <2>1, <2>2, OnlyTyped DEF MarkDone, Steps, Typed, TypeOK
<1>5. CASE Stop
  BY <1>1, <1>5, RunTyped DEF Stop, Typed, Shape, TypeOK, Kinds
<1>6. ASSUME NEW f \in Files, Edit(f) PROVE Typed'
  <2>1. edits + 1 \in 0..MaxEdits /\ edits' = edits + 1
    BY <1>6, Bounds DEF Edit, Typed, TypeOK
  <2>2. disk' \in [Files -> AnyContents] /\ \A g \in Files : disk'[g] \in Contents(g)
    BY <1>6, <2>1 DEF Edit, Typed, Shape, TypeOK, AnyContents, Contents, Files
  <2> QED
    BY <1>6, <2>1, <2>2 DEF Edit, Typed, Shape, TypeOK, world
<1>7. CASE DeleteJournal
  <2>1. EmptyJournal \in Journal /\ \A f \in Files : EmptyJournal.digest[f] \subseteq Contents(f)
    BY StaticTyped DEF EmptyJournal, Journal, Nothing
  <2>2. forgot' \in 0..MaxForgets
    BY <1>7, Bounds DEF DeleteJournal, Typed, TypeOK
  <2> QED
    BY <1>7, <2>1, <2>2 DEF DeleteJournal, Typed, Shape, TypeOK, Journal, world, Kinds
<1> QED
  BY <1>2, <1>3, <1>4, <1>5, <1>6, <1>7

\* Nothing takes a book away.
LEMMA BookStays == ASSUME Typed, [Next]_vars, HasBook PROVE HasBook'
<1>1. ASSUME NEW step, NEW next, NEW f, NEW c, Write(step, next, f, c),
             f = "book.yml" => c.text # "absent"
      PROVE  HasBook'
  BY <1>1 DEF Write, HasBook, Typed, Shape, Files
<1>2. CASE Scaffold \/ PublishConfig \/ CollabConfig \/ SwitchOn
  <2>1. [disk["book.yml"] EXCEPT !.text = "on"].text = "on"
    BY DEF Typed, Shape, TypeOK, Contents, Files
  <2> QED
    BY <1>1, <1>2, <2>1 DEF Scaffold, PublishConfig, CollabConfig, SwitchOn, Written
<1>3. ASSUME NEW f \in Files, Edit(f) PROVE HasBook'
  BY <1>3 DEF Edit, HasBook, Typed, Shape, TypeOK, Contents, Files
<1>4. disk' = disk => HasBook'
  BY DEF HasBook
<1>5. CASE Unpublish \/ (\E s \in Stages : Start(s)) \/ StartUnpublish \/ MarkDone \/ Stop
           \/ DeleteJournal \/ UNCHANGED vars
  BY <1>4, <1>5 DEF Unpublish, Delete, Forget, Misread, LeaveBehind, Start, StartUnpublish, MarkDone,
     Only, Stop, DeleteJournal, vars
<1>6. CASE Book \/ Publish
  BY <1>2, <1>4, <1>6 DEF Book, Publish, RememberScaffold, Remember, Record, Only, NoNewRepo,
     CreateRepo, RecordRepo, ListRepo, List, RememberPublish, BuildSite, Build, DeploySite,
     Deploy, ListWorker, SiteAnswers, SiteUnknown
<1>7. CASE Collaborate
  BY <1>2, <1>4, <1>7 DEF Collaborate, ReuseDb, CreateDb, AdoptDb, ListDb, List, RecordDb,
     Record, Only, ReuseApp, CreateApp, ListApp, PutSecret, RecordSecret, RecordApp,
     RememberConfig, Remember, Migrate, DeployApi, Deploy, Verify, RememberSwitch, RebuildSite,
     Build, Redeploy
<1> QED
  BY <1>3, <1>5, <1>6, <1>7 DEF Next

\* The stages' actions keep to the stages' steps.
LEMMA StageSteps ==
    ASSUME Typed
    PROVE  /\ Book => run.at \in BookSteps /\ run'.at \in BookSteps \cup {"done"}
           /\ Publish => run.at \in PublishSteps
           /\ Collaborate => run.at \in CollabSteps
           /\ Unpublish => run'.at \in {"idle", "unpublish.delete", "unpublish.forget"}
<1>1. Publish => run.at \in PublishSteps
  BY DEF Publish, PublishSteps, PublishConfigured, PublishConfig, Write, RememberPublish, Remember,
     Record, Only, BuildSite, Build, DeploySite, Deploy, ListWorker, List, SiteAnswers,
     SiteUnknown, At
<1>2. Collaborate => run.at \in CollabSteps
  BY DEF Collaborate, CollabSteps, DbRecorded, DbKnown, NewApp, Configured, Migrating, At, Only,
     ReuseDb, CreateDb, AdoptDb, ListDb, List, RecordDb, Record, ReuseApp, CreateApp, ListApp,
     PutSecret, RecordSecret, RecordApp, CollabConfig, Write, RememberConfig, Remember, Migrate,
     DeployApi, Deploy, Verify, SwitchOn, RememberSwitch, RebuildSite, Build, Redeploy
<1>3. Book => run.at \in BookSteps /\ run'.at \in BookSteps \cup {"done"}
  BY DEF Typed, Shape, Process, Book, BookSteps, At, Goto, Only, Scaffold, Write,
     RememberScaffold, Remember, Record, NoNewRepo, CreateRepo, RecordRepo, ListRepo, List
<1>4. Unpublish => run'.at \in {"idle", "unpublish.delete", "unpublish.forget"}
  BY DEF Typed, Shape, Process, Unpublish, Delete, Forget, Misread, LeaveBehind, Left, Goto
<1> QED
  BY <1>1, <1>2, <1>3, <1>4

\* Where a process that is started or stopped anew begins.
LEMMA ResetsTo ==
    /\ StartUnpublish => run'.at = "unpublish.delete" /\ run'.db = Nothing
    /\ Stop => run'.at = "idle" /\ run'.db = Nothing
    /\ \A s \in Stages : Start(s) => run'.at = First[s] /\ run'.stage = s /\ run'.db = Nothing
<1>1. Idle.at = "idle" /\ Idle.db = Nothing
  BY DEF Idle
<1>2. [Idle EXCEPT !.at = "unpublish.delete", !.todo = journal.listed \cap Hosting].at
        = "unpublish.delete"
  BY DEF Idle
<1>3. [Idle EXCEPT !.at = "unpublish.delete", !.todo = journal.listed \cap Hosting].db = Nothing
  BY DEF Idle
<1>4. ASSUME NEW s \in Stages, Start(s)
      PROVE  run'.at = First[s] /\ run'.stage = s /\ run'.db = Nothing
  BY <1>4 DEF Start, Idle
<1> QED
  BY <1>1, <1>2, <1>3, <1>4 DEF StartUnpublish, Stop

LEMMA BegunStep == ASSUME Typed, Begun, [Next]_vars PROVE Begun'
<1> SUFFICES ASSUME ~HasBook, run'.at \in PublishSteps \cup CollabSteps PROVE HasBook'
  BY BookStays DEF Begun
<1>1. run.at \notin PublishSteps \cup CollabSteps
  BY DEF Begun
<1>2. ASSUME NEW s \in Stages, Start(s) PROVE run'.at = "book.scaffold"
  <2>1. s = "book"
    <3>1. ~Ready["publish"] /\ ~Ready["collaborate"]
      BY DEF Ready
    <3> QED
      BY <1>2, <3>1 DEF Start, Stages
  <2>2. First["book"] = "book.scaffold"
    BY DEF First
  <2>3. run' = [Idle EXCEPT !.at = First["book"], !.stage = "book"]
    BY <1>2, <2>1 DEF Start
  <2> QED
    BY <2>2, <2>3 DEF Idle
<1>3. \A at \in {"idle", "done", "book.scaffold", "unpublish.delete", "unpublish.forget"} \cup BookSteps :
        at \notin PublishSteps \cup CollabSteps
  BY DEF PublishSteps, PublishConfigured, CollabSteps, DbRecorded, DbKnown, NewApp, Configured,
     Migrating, BookSteps
<1>4. run'.at \notin BookSteps \cup {"idle", "done", "unpublish.delete", "unpublish.forget"}
  BY <1>3
<1>5. "book.scaffold" \in BookSteps
  BY DEF BookSteps
<1>6. (StartUnpublish => run'.at = "unpublish.delete") /\ (Stop => run'.at = "idle")
  BY ResetsTo
<1>7. MarkDone => run'.at = "idle"
  BY DEF MarkDone, Only, Goto, Typed, Shape, Process
<1>8. (\E f \in Files : Edit(f)) \/ DeleteJournal \/ UNCHANGED vars => run' = run
  BY DEF Edit, DeleteJournal, vars
<1> QED
  BY <1>1, <1>2, <1>4, <1>5, <1>6, <1>7, <1>8, StageSteps DEF Next

LEMMA TypeStep == Typed /\ Begun /\ [Next]_vars => Typed' /\ Begun'
<1> SUFFICES ASSUME Typed, Begun, [Next]_vars PROVE Typed'
  BY BegunStep
<1>1. CASE UNCHANGED vars
  BY <1>1 DEF vars, Typed, Shape, TypeOK, world, past
<1>2. Collaborate => Typed'
  BY DatabaseTyped, AppTyped, SwitchTyped DEF Collaborate
<1> QED
  BY <1>1, <1>2, OthersTyped, BookTyped, PublishTyped, UnpublishTyped DEF Next
-----------------------------------------------------------------------------
(* The author's edits.                                                     *)

Remembering == {"book.remember", "book.rememberConfig", "publish.remember",
                "collab.remember", "collab.rememberSwitch"}

\* Steps that leave the files and what is remembered of them alone.
Leaves == /\ UNCHANGED <<disk, carried, edits>> /\ journal'.digest = journal.digest
          /\ run'.at \notin Remembering

LEMMA LeavesEdits == ASSUME Edits, Leaves PROVE Edits'
BY DEF Edits, Leaves, Remembering, At, Ours, HasBook

\* Wherever a step goes.
LEMMA GoesTo ==
    ASSUME Typed, NEW next, Goto(next)
    PROVE  run'.at = next /\ run'.stage = run.stage /\ run'.app = run.app
           /\ run'.client = run.client /\ run'.db = run.db /\ run'.todo = run.todo
BY DEF Goto, Typed, Shape, Process

LEMMA BookLeaves ==
    ASSUME Typed, NoNewRepo \/ CreateRepo \/ RecordRepo \/ ListRepo
    PROVE  Leaves
<1>1. run'.at \in {"done", "book.record", "book.list"}
  BY GoesTo DEF NoNewRepo, Only, CreateRepo, RecordRepo, Record, ListRepo, List
<1>2. journal'.digest = journal.digest
  BY DEF NoNewRepo, Only, CreateRepo, RecordRepo, Record, ListRepo, List, Typed, Shape, Journal
<1>3. UNCHANGED <<disk, carried, edits>>
  BY DEF NoNewRepo, Only, CreateRepo, RecordRepo, Record, ListRepo, List, past
<1> QED
  BY <1>1, <1>2, <1>3 DEF Leaves, Remembering

LEMMA PublishLeaves ==
    ASSUME Typed, BuildSite \/ DeploySite \/ ListWorker \/ SiteAnswers \/ SiteUnknown
    PROVE  Leaves
<1>1. run'.at \in {"publish.deploy", "publish.list", "publish.verify", "done"}
  BY GoesTo DEF BuildSite, Build, DeploySite, Deploy, ListWorker, List, SiteAnswers, SiteUnknown,
     Record, Only
<1>2. journal'.digest = journal.digest
  BY DEF BuildSite, Build, DeploySite, Deploy, ListWorker, List, SiteAnswers, SiteUnknown,
     Record, Only, Typed, Shape, Journal
<1>3. UNCHANGED <<disk, carried, edits>>
  BY DEF BuildSite, Build, DeploySite, Deploy, ListWorker, List, SiteAnswers, SiteUnknown,
     Record, Only, past
<1> QED
  BY <1>1, <1>2, <1>3 DEF Leaves, Remembering

LEMMA CollabLeaves ==
    ASSUME Typed,
           \/ ReuseDb \/ CreateDb \/ AdoptDb \/ ListDb \/ RecordDb
           \/ ReuseApp \/ CreateApp \/ ListApp \/ PutSecret \/ RecordSecret \/ RecordApp
           \/ Migrate \/ DeployApi \/ Verify \/ RebuildSite \/ Redeploy
    PROVE  Leaves
<1>1. run'.at \notin Remembering
  <2>1. ReuseDb \/ CreateDb \/ AdoptDb \/ ReuseApp \/ CreateApp =>
          run'.at \in {"collab.app", "collab.listDb", "collab.config", "collab.listApp"}
    BY DEF ReuseDb, CreateDb, AdoptDb, ReuseApp, CreateApp, Typed, Shape, Process
  <2>2. RecordSecret => run'.at \in {"collab.install", "collab.secret"}
    BY DEF RecordSecret, Typed, Shape, Process
  <2>3. ListDb \/ RecordDb \/ ListApp \/ PutSecret \/ RecordApp =>
          run'.at \in {"collab.recordDb", "collab.app", "collab.secret", "collab.recordSecret",
                       "collab.config"}
    BY GoesTo DEF ListDb, List, RecordDb, Record, Only, ListApp, PutSecret, RecordApp
  <2>4. Migrate \/ DeployApi \/ Verify \/ RebuildSite \/ Redeploy =>
          run'.at \in {"collab.deploy", "collab.verify", "collab.switch", "collab.redeploy", "done"}
    BY GoesTo DEF Migrate, DeployApi, Deploy, Verify, Only, RebuildSite, Build, Redeploy
  <2> QED
    BY <2>1, <2>2, <2>3, <2>4 DEF Remembering
<1>2. journal'.digest = journal.digest
  BY DEF ReuseDb, CreateDb, AdoptDb, ReuseApp, CreateApp, RecordSecret, ListDb, List, RecordDb,
     Record, Only, ListApp, PutSecret, RecordApp, Migrate, DeployApi, Deploy, Verify, RebuildSite,
     Build, Redeploy, Typed, Shape, Journal
<1>3. UNCHANGED <<disk, carried, edits>>
  BY DEF ReuseDb, CreateDb, AdoptDb, ReuseApp, CreateApp, RecordSecret, ListDb, List, RecordDb,
     Record, Only, ListApp, PutSecret, RecordApp, Migrate, DeployApi, Deploy, Verify, RebuildSite,
     Build, Redeploy, past
<1> QED
  BY <1>1, <1>2, <1>3 DEF Leaves

LEMMA OthersLeave ==
    ASSUME Typed,
           \/ \E s \in Stages : Start(s)
           \/ StartUnpublish \/ MarkDone \/ Stop \/ Unpublish
    PROVE  Leaves
<1>1. ASSUME NEW s \in Stages, Start(s) PROVE Leaves
  <2>1. First[s] \notin Remembering
    <3>1. First["book"] \notin Remembering /\ First["publish"] \notin Remembering
          /\ First["collaborate"] \notin Remembering
      BY DEF First, Remembering
    <3> QED
      BY <3>1 DEF Stages
  <2>2. run'.at = First[s]
    BY <1>1 DEF Start, Idle
  <2> QED
    BY <1>1, <2>1, <2>2 DEF Start, Leaves, past, Typed, Shape, Journal
<1>2. CASE StartUnpublish \/ Stop
  BY <1>2, ResetsTo DEF StartUnpublish, Stop, Leaves, Remembering, past
<1>3. CASE MarkDone
  BY <1>3, GoesTo DEF MarkDone, Only, Leaves, Remembering, past, Typed, Shape, Journal
<1>4. CASE Unpublish
  <2>1. run'.at \notin Remembering
    BY <1>4, StageSteps DEF Remembering
  <2> QED
    BY <1>4, <2>1 DEF Unpublish, Delete, Forget, Misread, LeaveBehind, Leaves, past, Typed, Shape, Journal
<1> QED
  BY <1>1, <1>2, <1>3, <1>4

\* What the wizard writes itself holds no edit, or the one it carries along.
LEMMA WriteEdits ==
    ASSUME Typed, Edits,
           NEW step, NEW next, NEW f \in Files, NEW c, Write(step, next, f, c),
           UNCHANGED edits,
           \/ c.edit = 0 /\ next # "collab.rememberSwitch" /\ UNCHANGED carried
           \/ /\ f = "book.yml" /\ c.edit = disk[f].edit /\ c.text = "on"
              /\ carried' = c.edit /\ next = "collab.rememberSwitch",
           next \in {"book.rememberConfig", "publish.remember", "collab.remember"}
             => f = "wrangler.jsonc",
           next = "book.remember" => f = "book.yml"
    PROVE  Edits'
<1>1. disk'[f] = c /\ \A g \in Files \ {f} : disk'[g] = disk[g]
  BY DEF Write, Typed, Shape
<1>2. run'.at = next /\ journal' = journal
  BY DEF Write, Typed, Shape, Process
<1>3. \A g \in Files : disk[g].edit \in Nat
  BY Bounds DEF Typed, TypeOK, Contents
<1>4. edits \in Nat
  BY Bounds DEF Typed, TypeOK
<1>5. (disk'["book.yml"].edit # 0 => HasBook')
  BY <1>1 DEF Edits, HasBook, Files
<1>6. \A g \in Files : disk'[g].edit <= edits
  BY <1>1, <1>4 DEF Edits
<1>7. Ours("book.yml")' /\ disk'["book.yml"].edit # 0 => disk'["book.yml"].edit = carried'
  BY <1>1, <1>2 DEF Edits, Ours, Files
<1>8. /\ run'.at \in {"book.rememberConfig", "publish.remember", "collab.remember"}
           => disk'["wrangler.jsonc"].edit = 0
      /\ run'.at = "book.remember" => disk'["book.yml"].edit = 0
      /\ run'.at = "collab.rememberSwitch" => disk'["book.yml"].edit = carried'
  BY <1>1, <1>2 DEF Files
<1> QED
  BY <1>2, <1>5, <1>6, <1>7, <1>8 DEF Edits, At

LEMMA RememberEdits ==
    ASSUME Typed, Edits, NEW step, NEW next, NEW f \in Files, Remember(step, next, f),
           next \notin Remembering,
           f = "wrangler.jsonc" => disk[f].edit = 0,
           f = "book.yml" => disk[f].edit \in {0, carried}
    PROVE  Edits'
<1>1. run'.at = next /\ UNCHANGED <<disk, carried, edits>>
  BY GoesTo DEF Remember, Record, Only, past
<1>2. journal'.digest[f] = {disk[f]} /\ \A g \in Files \ {f} : journal'.digest[g] = journal.digest[g]
  BY DEF Remember, Record, Typed, Shape, Journal
<1>3. Ours("book.yml")' /\ disk["book.yml"].edit # 0 => disk["book.yml"].edit = carried
  BY <1>1, <1>2 DEF Ours, Edits, Files
<1> QED
  BY <1>1, <1>2, <1>3 DEF Edits, HasBook, At, Remembering, Files

LEMMA EditStep == ASSUME Typed, Edits, [Next]_vars PROVE Edits'
<1>1. CASE Scaffold \/ PublishConfig \/ CollabConfig
  BY <1>1, WriteEdits DEF Scaffold, PublishConfig, CollabConfig, Written, past, Files
<1>2. CASE SwitchOn
  <2>1. LET c == [disk["book.yml"] EXCEPT !.text = "on"] IN
          c.text = "on" /\ c.edit = disk["book.yml"].edit
    BY DEF Typed, TypeOK, Contents, Files
  <2> QED
    <3> DEFINE c == [disk["book.yml"] EXCEPT !.text = "on"]
    <3>1. /\ Write("collab.switch", "collab.rememberSwitch", "book.yml", c)
          /\ carried' = disk["book.yml"].edit /\ UNCHANGED edits
      BY <1>2 DEF SwitchOn
    <3>2. c.text = "on" /\ c.edit = disk["book.yml"].edit /\ "book.yml" \in Files
      BY <2>1 DEF Files
    <3> HIDE DEF c
    <3> QED
      BY <3>1, <3>2, WriteEdits
<1>3. CASE RememberScaffold \/ RememberPublish \/ RememberConfig \/ RememberSwitch
  BY <1>3, RememberEdits DEF RememberScaffold, RememberPublish, RememberConfig, RememberSwitch,
     Edits, Remember, Record, Only, At, Remembering, Files
<1>4. ASSUME NEW f \in Files, Edit(f) PROVE Edits'
  <2>1. /\ disk'[f].edit = edits + 1 /\ edits' = edits + 1 /\ disk'[f].text = disk[f].text
        /\ \A g \in Files \ {f} : disk'[g] = disk[g]
    BY <1>4 DEF Edit, Typed, Shape, TypeOK, Contents
  <2>2. edits \in Nat /\ \A g \in Files : disk[g].edit \in Nat
    BY Bounds DEF Typed, TypeOK, Contents
  <2>3. journal' = journal /\ run' = run /\ carried' = carried /\ run.at = "idle"
    BY <1>4 DEF Edit, At
  <2>4. \A g \in Files : \A c \in journal.digest[g] : c.edit \in Nat /\ c.edit <= edits
    BY Bounds DEF Typed, TypeOK, Contents, Edits
  <2>5. disk'["book.yml"].edit # 0 => HasBook'
    BY <1>4, <2>1 DEF Edit, Exists, HasBook, Edits, Files
  <2>6. Ours("book.yml")' /\ disk'["book.yml"].edit # 0 => disk'["book.yml"].edit = carried
    <3>1. f = "book.yml" => ~Ours("book.yml")'
      BY <2>1, <2>2, <2>3, <2>4 DEF Ours
    <3> QED
      BY <2>1, <2>3, <3>1 DEF Ours, Edits, Files
  <2> QED
    BY <2>1, <2>2, <2>3, <2>4, <2>5, <2>6 DEF Edits, At, Files
<1>5. CASE DeleteJournal
  <2>1. /\ journal'.digest = [f \in Files |-> {}] /\ run' = run /\ run.at = "idle"
        /\ UNCHANGED <<disk, carried, edits>>
    BY <1>5 DEF DeleteJournal, EmptyJournal, At
  <2> QED
    BY <2>1 DEF Edits, Ours, HasBook, At, Files
<1>6. CASE UNCHANGED vars
  BY <1>6 DEF vars, past, Edits, Ours, HasBook, At
<1> QED
  BY <1>1, <1>2, <1>3, <1>4, <1>5, <1>6, LeavesEdits, BookLeaves, PublishLeaves, CollabLeaves,
     OthersLeave DEF Next, Book, Publish, Collaborate

LEMMA EditInit == Init => Edits
<1> SUFFICES ASSUME Init PROVE Edits
  OBVIOUS
<1>1. \A f \in Files : disk[f].edit = 0 /\ journal.digest[f] = {} /\ edits = 0
  BY DEF Init, Written, EmptyJournal
<1> QED
  BY <1>1 DEF Edits, Init, Idle, At, Ours, Files

\* A run asks before it replaces a file with an edit in it, unless it carried that edit.
LEMMA EditKept ==
    ASSUME Typed, Edits, [Next]_vars, NEW f \in Files,
           ~At("idle"), disk[f].edit # 0, disk'[f].edit # disk[f].edit
    PROVE  run'.asked \/ (f = "book.yml" /\ disk[f].edit = carried)
<1>1. ASSUME NEW step, NEW next, NEW g \in Files, NEW c, Write(step, next, g, c)
      PROVE  run'.asked \/ (f = "book.yml" /\ disk[f].edit = carried)
  <2>1. g = f /\ disk[f] # c
    BY <1>1 DEF Write, Typed, Shape
  <2>2. Exists(f)
    BY DEF Exists, Edits
  <2>3. run'.asked = (disk[g] # c /\ Exists(g) /\ ~Ours(g))
    BY <1>1 DEF Write, Typed, Shape, Process
  <2>4. Ours(f) => f = "book.yml" /\ disk[f].edit = carried
    BY DEF Edits, Ours, Files
  <2> QED
    BY <2>1, <2>2, <2>3, <2>4
<1>2. Scaffold \/ PublishConfig \/ CollabConfig \/ SwitchOn
  <2>1. ~Leaves
    BY DEF Leaves
  <2>2. disk' # disk
    OBVIOUS
  <2>3. ~(RememberScaffold \/ RememberPublish \/ RememberConfig \/ RememberSwitch)
        /\ ~DeleteJournal /\ ~UNCHANGED vars
    BY <2>2 DEF RememberScaffold, RememberPublish, RememberConfig, RememberSwitch, Remember,
       Record, Only, DeleteJournal, vars
  <2>4. \A g \in Files : ~Edit(g)
    BY DEF Edit
  <2> QED
    BY <2>1, <2>3, <2>4, BookLeaves, PublishLeaves, CollabLeaves, OthersLeave
       DEF Next, Book, Publish, Collaborate
<1> QED
  BY <1>1, <1>2 DEF Scaffold, PublishConfig, CollabConfig, SwitchOn, Files
-----------------------------------------------------------------------------
(* What was made is listed.                                                *)

\* A process that moves on without listing, recording or finishing anything. A database
\* may come before the journal knows one, or go.
LEMMA ListedMove ==
    ASSUME Listed, UNCHANGED <<repo, cut>>,
           journal'.listed = journal.listed, journal'.done = journal.done,
           journal'.d1 = journal.d1, journal'.app = journal.app,
           db' = db \/ db' = Nothing \/ journal.d1 = Nothing,
           run.at \notin {"book.record", "book.list"},
           run'.at \in BookSteps => run.at \in BookSteps /\ run'.stage = run.stage,
           run'.at = "publish.verify" \/ (run'.at = "done" /\ run'.stage = "publish")
             => run.at = "publish.verify",
           run'.at \in DbRecorded \/ (run'.at = "done" /\ run'.stage = "collaborate")
             => journal.d1 # Nothing,
           run'.at # "collab.recordDb",
           run'.at \in NewApp \ {"collab.listApp"} => "app" \in journal.listed
    PROVE  Listed'
BY DEF Listed, Has, At

LEMMA BookListed == ASSUME Typed, Listed, Book PROVE Listed'
<1>1. run.stage = "book" /\ "book" \notin journal.done
  BY StageSteps DEF Listed
<1>2. \A at \in BookSteps : at \notin DbRecorded \cup NewApp \cup {"publish.verify", "collab.recordDb", "done"}
  BY DEF BookSteps, DbRecorded, DbKnown, NewApp, Configured, Migrating
<1>3. run'.at \in BookSteps \cup {"done"} /\ run.at \in BookSteps
  BY StageSteps
<1>4. "done" \notin DbRecorded \cup NewApp \cup BookSteps
  BY DEF BookSteps, DbRecorded, DbKnown, NewApp, Configured, Migrating
<1>5. run'.stage = run.stage
  BY DEF Book, Scaffold, Write, RememberScaffold, Remember, Record, Only, NoNewRepo, CreateRepo,
     RecordRepo, ListRepo, List, Goto, Typed, Shape, Process
<1>6. CASE Scaffold \/ RememberScaffold \/ NoNewRepo
  <2>1. /\ UNCHANGED <<repo, cut, db>> /\ journal'.listed = journal.listed
        /\ journal'.done = journal.done /\ journal'.d1 = journal.d1 /\ journal'.app = journal.app
        /\ run.at \notin {"book.record", "book.list"}
    BY <1>6 DEF Scaffold, Write, RememberScaffold, Remember, Record, Only, NoNewRepo, At, world,
       past, Typed, Shape, Journal
  <2> QED
    BY <1>1, <1>2, <1>3, <1>4, <1>5, <2>1, ListedMove
<1>7. CASE CreateRepo \/ RecordRepo
  <2>1. /\ UNCHANGED <<cut, db>> /\ journal'.listed = journal.listed
        /\ journal'.done = journal.done /\ journal'.d1 = journal.d1 /\ journal'.app = journal.app
        /\ run'.at \in {"book.record", "book.list"}
    BY <1>7, GoesTo DEF CreateRepo, RecordRepo, Record, Only, world, past, Typed, Shape, Journal
  <2> QED
    BY <1>1, <1>2, <1>3, <1>5, <2>1 DEF Listed, Has, At
<1>8. CASE ListRepo
  <2>1. /\ UNCHANGED <<repo, db>> /\ journal'.listed = journal.listed \cup {"repo"}
        /\ cut' = cut \ {"repo"}
        /\ journal'.done = journal.done /\ journal'.d1 = journal.d1 /\ journal'.app = journal.app
        /\ run'.at = "done"
    BY <1>8, GoesTo DEF ListRepo, List, world, Typed, Shape, Journal
  <2> QED
    BY <1>1, <1>4, <1>5, <2>1 DEF Listed, Has, At
<1> QED
  BY <1>6, <1>7, <1>8 DEF Book

LEMMA PublishListed == ASSUME Typed, Progress, Listed, Publish PROVE Listed'
<1>1. run.stage = "publish" /\ run.at \in PublishSteps
  BY StageSteps DEF Progress
<1>2. run'.stage = run.stage
  BY DEF Publish, PublishConfig, Write, RememberPublish, Remember, Record, Only, BuildSite, Build,
     DeploySite, Deploy, ListWorker, List, SiteAnswers, SiteUnknown, Goto, Typed, Shape, Process
<1>3. run'.at \in PublishConfigured \cup {"done"}
  BY GoesTo DEF Publish, PublishConfig, Write, RememberPublish, Remember, Record, Only, BuildSite,
     Build, DeploySite, Deploy, ListWorker, List, SiteAnswers, SiteUnknown, Typed, Shape, Process,
     PublishConfigured
<1>4. \A at \in PublishSteps \cup {"done"} :
        at \notin BookSteps \cup DbRecorded \cup NewApp \cup {"collab.recordDb"}
  BY DEF PublishSteps, PublishConfigured, BookSteps, DbRecorded, DbKnown, NewApp, Configured,
     Migrating
<1>5. run.at \notin {"book.record", "book.list"}
  BY <1>1, <1>4 DEF BookSteps
<1>6. /\ UNCHANGED <<repo, db>> /\ journal'.done = journal.done /\ journal'.d1 = journal.d1
      /\ journal'.app = journal.app
  BY DEF Publish, PublishConfig, Write, RememberPublish, Remember, Record, Only, BuildSite, Build,
     DeploySite, Deploy, ListWorker, List, SiteAnswers, SiteUnknown, world, Typed, Shape, Journal
<1>7. CASE ListWorker
  <2>1. /\ journal'.listed = journal.listed \cup {"worker"} /\ cut' = cut \ {"worker"}
        /\ run'.at = "publish.verify"
    BY <1>7, GoesTo DEF ListWorker, List, Typed, Shape, Journal
  <2> QED
    BY <1>1, <1>2, <1>4, <1>5, <1>6, <2>1 DEF Listed, Has, At, PublishSteps, PublishConfigured
<1>8. CASE ~ListWorker
  <2>1. journal'.listed = journal.listed /\ cut' = cut
    BY <1>8 DEF Publish, PublishConfig, Write, RememberPublish, Remember, Record, Only, BuildSite,
       Build, DeploySite, Deploy, SiteAnswers, SiteUnknown, past, Typed, Shape, Journal
  <2>2. run'.at \in {"publish.verify", "done"} => run.at = "publish.verify"
    <3>1. PublishConfig => run'.at = "publish.remember"
      BY DEF PublishConfig, Write, Typed, Shape, Process
    <3>2. RememberPublish \/ BuildSite \/ DeploySite =>
            run'.at \in {"publish.build", "publish.deploy", "publish.list"}
      BY GoesTo DEF RememberPublish, Remember, Record, Only, BuildSite, Build, DeploySite, Deploy
    <3>3. SiteAnswers \/ SiteUnknown => run.at = "publish.verify"
      BY DEF SiteAnswers, SiteUnknown, Record, Only, At
    <3> QED
      BY <1>8, <3>1, <3>2, <3>3 DEF Publish
  <2>3. run'.at \in PublishSteps \cup {"done"}
    BY <1>3 DEF PublishSteps
  <2> QED
    BY <1>1, <1>2, <1>4, <1>5, <1>6, <2>1, <2>2, <2>3, ListedMove
<1> QED
  BY <1>7, <1>8

LEMMA CollabListed == ASSUME Typed, Progress, Listed, Collaborate PROVE Listed'
<1>1. run.stage = "collaborate" /\ run.at \in CollabSteps
  BY StageSteps DEF Progress
<1>2. \A at \in CollabSteps \cup {"done"} : at \notin BookSteps \cup {"publish.verify"}
  BY DEF BookSteps, CollabSteps, DbRecorded, DbKnown, NewApp, Configured, Migrating
<1>3. run.at \notin {"book.record", "book.list"} /\ run.at # "publish.verify"
  BY <1>1, <1>2 DEF BookSteps
<1>4. repo' = repo /\ journal'.done = journal.done /\ run'.stage = run.stage
  BY DEF Collaborate, ReuseDb, CreateDb, AdoptDb, ReuseApp, CreateApp, RecordSecret, ListDb, List,
     RecordDb, Record, Only, ListApp, PutSecret, RecordApp, CollabConfig, RememberConfig, Write,
     Remember, Migrate, DeployApi, Deploy, Verify, SwitchOn, RememberSwitch, RebuildSite,
     Build, Redeploy, Goto, world, Typed, Shape, Journal, Process
<1>5. CASE ReuseDb \/ CreateDb \/ AdoptDb
  <2>1. /\ cut' = cut /\ journal' = journal /\ (db' = db \/ journal.d1 = Nothing)
        /\ \/ run'.at = "collab.app" /\ journal.d1 # Nothing
           \/ run'.at = "collab.listDb"
    BY <1>5 DEF ReuseDb, CreateDb, AdoptDb, world, past, Typed, Shape, Process
  <2>2. /\ "collab.listDb" \notin DbRecorded \cup NewApp \cup BookSteps
        /\ "collab.app" \notin NewApp \cup BookSteps
    BY DEF BookSteps, DbRecorded, DbKnown, NewApp, Configured, Migrating
  <2> QED
    BY <1>3, <1>4, <2>1, <2>2, ListedMove
<1>6. CASE ListDb \/ RecordDb
  <2>1. repo' = repo /\ db' = db /\ journal'.app = journal.app
    BY <1>6 DEF ListDb, List, RecordDb, Record, Only, world, Typed, Shape, Journal
  <2>2. CASE ListDb
    <3>1. /\ journal'.listed = journal.listed \cup {"d1"} /\ cut' = cut \ {"d1"}
          /\ journal'.d1 = journal.d1 /\ run'.at = "collab.recordDb"
      BY <2>2, GoesTo DEF ListDb, List, Typed, Shape, Journal
    <3>2. "collab.recordDb" \notin DbRecorded \cup NewApp \cup BookSteps
      BY DEF BookSteps, DbRecorded, DbKnown, NewApp, Configured, Migrating
    <3> QED
      BY <1>3, <1>4, <2>1, <3>1, <3>2 DEF Listed, Has, At
  <2>3. CASE RecordDb
    <3>1. /\ journal'.listed = journal.listed /\ cut' = cut /\ run.at = "collab.recordDb"
          /\ journal'.d1 = run.db /\ run'.at = "collab.app"
      BY <2>3, GoesTo DEF RecordDb, Record, Only, past, At, Typed, Shape, Journal
    <3>2. run.db # Nothing
      BY <1>1, <3>1 DEF Progress
    <3>3. "collab.app" \notin NewApp \cup BookSteps
      BY DEF BookSteps, NewApp
    <3> QED
      BY <1>3, <1>4, <2>1, <3>1, <3>2, <3>3 DEF Listed, Has, At
  <2> QED
    BY <1>6, <2>2, <2>3
<1>7. CASE ~(ReuseDb \/ CreateDb \/ AdoptDb \/ ListDb \/ RecordDb)
  <2>1. run.at \in DbRecorded
    BY <1>7 DEF Collaborate, ReuseApp, CreateApp, ListApp, List, PutSecret, RecordSecret, RecordApp,
       CollabConfig, RememberConfig, Write, Remember, Record, Only, Migrate, DeployApi, Deploy,
       Verify, SwitchOn, RememberSwitch, RebuildSite, Build, Redeploy, At,
       DbRecorded, DbKnown, NewApp, Configured, Migrating
  <2>2. journal.d1 # Nothing
    BY <2>1 DEF Listed, Has
  <2>3. db' = db /\ journal'.d1 = journal.d1
    BY <1>7 DEF Collaborate, ReuseApp, CreateApp, ListApp, List, PutSecret, RecordSecret, RecordApp,
       CollabConfig, RememberConfig, Write, Remember, Record, Only, Migrate, DeployApi, Deploy,
       Verify, SwitchOn, RememberSwitch, RebuildSite, Build, Redeploy, world, Typed, Shape, Journal
  <2>4. run'.at \in DbRecorded \cup {"done"}
    <3>1. CASE ReuseApp \/ CreateApp \/ RecordSecret
      BY <3>1 DEF ReuseApp, CreateApp, RecordSecret, DbRecorded, DbKnown, NewApp, Typed, Shape,
         Process
    <3>2. CASE ListApp \/ PutSecret \/ RecordApp \/ CollabConfig \/ RememberConfig \/ Migrate
      BY <3>2, GoesTo DEF ListApp, List, PutSecret, RecordApp, Record, Only, CollabConfig, Write,
         RememberConfig, Remember, Migrate, DbRecorded, DbKnown, NewApp, Configured, Migrating,
         Typed, Shape, Process
    <3>3. CASE DeployApi \/ Verify \/ SwitchOn \/ RememberSwitch \/ RebuildSite \/ Redeploy
      BY <3>3, GoesTo DEF DeployApi, Deploy, Verify, Only, SwitchOn, Write, RememberSwitch,
         Remember, Record, RebuildSite, Build, Redeploy, DbRecorded, Migrating, Typed, Shape,
         Process
    <3> QED
      BY <1>7, <3>1, <3>2, <3>3 DEF Collaborate
  <2>5. run'.at \notin BookSteps \cup {"publish.verify", "collab.recordDb"}
    <3>1. DbRecorded \subseteq CollabSteps /\ "collab.recordDb" \notin DbRecorded \cup {"done"}
      BY DEF CollabSteps, DbRecorded, DbKnown, NewApp, Configured, Migrating
    <3> QED
      BY <1>2, <2>4, <3>1
  <2>6. CASE ListApp
    <3>1. /\ journal'.listed = journal.listed \cup {"app"} /\ cut' = cut \ {"app"}
          /\ journal'.app = journal.app /\ run'.at = "collab.secret"
      BY <2>6, GoesTo DEF ListApp, List, Typed, Shape, Journal
    <3> QED
      BY <1>3, <1>4, <2>2, <2>3, <2>5, <3>1 DEF Listed, Has, At
  <2>7. CASE RecordApp
    <3>1. /\ journal'.listed = journal.listed /\ cut' = cut /\ run.at = "collab.install"
          /\ run'.at = "collab.config"
      BY <2>7, GoesTo DEF RecordApp, Record, Only, past, At, Typed, Shape, Journal
    <3>2. "app" \in journal.listed /\ "collab.config" \notin NewApp
      BY <3>1 DEF Listed, NewApp
    <3> QED
      BY <1>3, <1>4, <2>2, <2>3, <2>5, <3>1, <3>2 DEF Listed, Has, At
  <2>8. CASE ~ListApp /\ ~RecordApp
    <3>1. cut' = cut /\ journal'.listed = journal.listed /\ journal'.app = journal.app
      BY <1>7, <2>8 DEF Collaborate, ReuseApp, CreateApp, PutSecret, RecordSecret, CollabConfig,
         RememberConfig, Write, Remember, Record, Only, Migrate, DeployApi, Deploy, Verify,
         SwitchOn, RememberSwitch, RebuildSite, Build, Redeploy, past, Typed, Shape, Journal
    <3>2. run'.at \in NewApp \ {"collab.listApp"} => run.at \in NewApp \ {"collab.listApp"}
      <4>1. CASE PutSecret \/ RecordSecret
        BY <4>1 DEF PutSecret, RecordSecret, At, NewApp
      <4>2. CASE ReuseApp \/ CreateApp \/ CollabConfig \/ RememberConfig \/ Migrate
        <5>1. ReuseApp \/ CreateApp \/ CollabConfig =>
                run'.at \in {"collab.config", "collab.listApp", "collab.remember"}
          BY DEF ReuseApp, CreateApp, CollabConfig, Write, Typed, Shape, Process
        <5>2. RememberConfig \/ Migrate => run'.at \in {"collab.migrate", "collab.deploy"}
          BY GoesTo DEF RememberConfig, Remember, Record, Only, Migrate
        <5> QED
          BY <4>2, <5>1, <5>2 DEF NewApp
      <4>3. CASE DeployApi \/ Verify \/ SwitchOn \/ RememberSwitch \/ RebuildSite \/ Redeploy
        <5>1. SwitchOn => run'.at = "collab.rememberSwitch"
          BY DEF SwitchOn, Write, Typed, Shape, Process
        <5>2. DeployApi \/ Verify \/ RememberSwitch \/ RebuildSite \/ Redeploy =>
                run'.at \in {"collab.verify", "collab.switch", "collab.build", "collab.redeploy",
                             "done"}
          BY GoesTo DEF DeployApi, Deploy, Verify, Only, RememberSwitch, Remember, Record,
             RebuildSite, Build, Redeploy
        <5> QED
          BY <4>3, <5>1, <5>2 DEF NewApp
      <4> QED
        BY <1>7, <2>8, <4>1, <4>2, <4>3 DEF Collaborate
    <3>3. run'.at \in NewApp \ {"collab.listApp"} => "app" \in journal.listed
      BY <3>2 DEF Listed
    <3> QED
      BY <1>1, <1>3, <1>4, <2>2, <2>3, <2>5, <3>1, <3>3, ListedMove
  <2> QED
    BY <2>6, <2>7, <2>8
<1> QED
  BY <1>5, <1>6, <1>7

LEMMA OthersListed ==
    ASSUME Typed, Listed,
           \/ \E s \in Stages : Start(s)
           \/ StartUnpublish \/ MarkDone \/ Stop \/ Unpublish
           \/ \E f \in Files : Edit(f)
           \/ DeleteJournal \/ UNCHANGED vars
    PROVE  Listed'
<1>1. \A at \in {"idle", "unpublish.delete", "unpublish.forget", "publish.config",
                 "collab.database"} :
        at \notin BookSteps \cup DbRecorded \cup NewApp \cup {"collab.recordDb", "done",
                                                             "publish.verify"}
  BY DEF BookSteps, DbRecorded, DbKnown, NewApp, Configured, Migrating
<1>2. ASSUME NEW s \in Stages, Start(s) PROVE Listed'
  <2>1. /\ UNCHANGED <<repo, cut, db>> /\ journal'.listed = journal.listed
        /\ journal'.done = journal.done \ {s} /\ journal'.d1 = journal.d1
        /\ journal'.app = journal.app /\ run.at = "idle" /\ run'.stage = s /\ run'.at = First[s]
    BY <1>2 DEF Start, Idle, At, world, past, Typed, Shape, Journal
  <2>2. /\ First["book"] = "book.scaffold" /\ First["publish"] = "publish.config"
        /\ First["collaborate"] = "collab.database"
    BY DEF First
  <2>3. CASE s = "book"
    <3>1. "book.scaffold" \notin DbRecorded \cup NewApp \cup {"collab.recordDb", "done",
                                                              "publish.verify"}
      BY DEF DbRecorded, DbKnown, NewApp, Configured, Migrating
    <3> QED
      BY <1>1, <2>1, <2>2, <2>3, <3>1 DEF Listed, Has, At
  <2>4. CASE s # "book"
    <3>1. run'.at \in {"publish.config", "collab.database"}
      BY <2>1, <2>2, <2>4 DEF Stages
    <3> QED
      BY <1>1, <2>1, <3>1 DEF Listed, Has, At
  <2> QED
    BY <2>3, <2>4
<1>3. CASE StartUnpublish \/ Stop \/ (\E f \in Files : Edit(f)) \/ DeleteJournal
  <2>1. run'.at \in {"idle", "unpublish.delete"}
    BY <1>3, ResetsTo DEF Edit, DeleteJournal, At
  <2>2. repo' => "repo" \in journal'.listed \cup cut'
    BY <1>3 DEF StartUnpublish, Stop, Edit, DeleteJournal, Idle, At, EmptyJournal, world, past,
       Listed
  <2>3. /\ "publish" \in journal'.done => "worker" \in journal'.listed \cup cut'
        /\ "collaborate" \in journal'.done => journal'.d1 # Nothing
        /\ journal'.d1 # Nothing /\ db' # Nothing => "d1" \in journal'.listed \cup cut'
        /\ journal'.app # Nothing => "app" \in journal'.listed
    BY <1>3 DEF StartUnpublish, Stop, Edit, DeleteJournal, EmptyJournal, world, past, Listed, Has
  <2> QED
    BY <1>1, <2>1, <2>2, <2>3 DEF Listed, Has, At
<1>4. CASE MarkDone
  <2>1. /\ UNCHANGED <<repo, cut, db>> /\ journal'.listed = journal.listed
        /\ journal'.done = journal.done \cup {run.stage} /\ journal'.d1 = journal.d1
        /\ journal'.app = journal.app /\ run.at = "done" /\ run'.at = "idle"
    BY <1>4, GoesTo DEF MarkDone, Only, At, world, past, Typed, Shape, Journal
  <2> QED
    BY <1>1, <2>1 DEF Listed, Has, At
<1>5. CASE Unpublish
  <2>1. run'.at \in {"idle", "unpublish.delete", "unpublish.forget"}
    BY <1>5, StageSteps
  <2>2. PICK r \in Hosting : Delete(r) \/ Forget(r) \/ Misread(r) \/ LeaveBehind(r)
    BY <1>5 DEF Unpublish
  <2>3. /\ repo' = repo /\ journal'.done = journal.done /\ journal'.d1 = journal.d1
        /\ journal'.app = journal.app /\ run.at \notin {"book.record", "book.list"}
        /\ (db' = db \/ db' = Nothing)
    BY <2>2 DEF Delete, Gone, Forget, Misread, LeaveBehind, At, world, Typed, Shape, Journal
  <2>4. /\ journal.listed \cup cut \subseteq journal'.listed \cup cut' \/ r = "d1"
        /\ journal.listed \ {r} \subseteq journal'.listed /\ cut \subseteq cut'
    <3>1. CASE Delete(r) \/ LeaveBehind(r)
      BY <3>1 DEF Delete, LeaveBehind, past
    <3>2. CASE Forget(r) \/ Misread(r)
      BY <3>2 DEF Forget, Misread, Hosting, Typed, Shape, Journal
    <3> QED
      BY <2>2, <3>1, <3>2
  <2>5. "d1" \in journal.listed \cup cut => "d1" \in journal'.listed \cup cut' \/ db' = Nothing
    <3>1. CASE Delete(r) \/ LeaveBehind(r)
      BY <3>1 DEF Delete, LeaveBehind, past
    <3>2. CASE Misread(r)
      BY <3>2 DEF Misread, Typed, Shape, Journal
    <3>3. CASE Forget(r)
      BY <3>3 DEF Forget, There, world, Hosting, Typed, Shape, Journal
    <3> QED
      BY <2>2, <3>1, <3>2, <3>3
  <2>6. r \in {"worker", "d1"}
    BY DEF Hosting
  <2> QED
    BY <1>1, <2>1, <2>3, <2>4, <2>5, <2>6 DEF Listed, Has, At
<1>6. CASE UNCHANGED vars
  BY <1>6 DEF vars, world, past, Listed, Has, At
<1> QED
  BY <1>2, <1>3, <1>4, <1>5, <1>6

LEMMA ListedInit == Init => Listed
BY DEF Init, EmptyJournal, Idle, Listed, Has, At, Nothing, BookSteps, DbRecorded, DbKnown, NewApp,
   Configured, Migrating

LEMMA ListedStep == ASSUME Typed, Progress, Listed, [Next]_vars PROVE Listed'
BY BookListed, PublishListed, CollabListed, OthersListed DEF Next
-----------------------------------------------------------------------------
(* The credentials.                                                        *)

Known == Numbered /\ FileKnown /\ TablesMade

\* Steps that make no App, no database and no configuration with one.
LEMMA KnownQuiet ==
    ASSUME Typed, Known,
           \/ Wrangler' = Static
           \/ /\ Wrangler' = Wrangler
              /\ journal'.site => journal.site /\ journal'.app = journal.app
                                  /\ journal'.key = journal.key,
           worker'.config \in {worker.config, Static},
           \/ secrets' = secrets
           \/ \A s \in Secrets : secrets'[s] = Nothing,
           dbs' = dbs,
           (db' = db /\ migrated' = migrated) \/ db' = Nothing,
           journal'.d1 \in {journal.d1, Nothing},
           run'.db \in {run.db, Nothing}
    PROVE  Known'
<1>1. dbs \in Nat /\ 0 <= dbs
  BY Bounds DEF Typed, TypeOK, DbOrNone
<1>2. Static.client = 0 /\ Static.app = 0 /\ Static.db = 0
  BY DEF Static, Nothing
<1>3. Numbered'
  BY <1>1, <1>2 DEF Known, Numbered, Nothing
<1>4. FileKnown'
  BY <1>2 DEF Known, FileKnown, SecretsOf, Nothing
<1>5. TablesMade'
  BY <1>2 DEF Known, TablesMade, Numbered, Nothing
<1> QED
  BY <1>3, <1>4, <1>5 DEF Known

\* At a step of no other stage there is nothing to say of the process.
Elsewhere == run.at \notin PublishSteps \cup CollabSteps

LEMMA ElsewhereProgress == ASSUME Elsewhere PROVE Progress
BY DEF Elsewhere, Progress, PublishSteps, PublishConfigured, CollabSteps, DbRecorded, DbKnown,
   NewApp, Configured, Migrating, At

LEMMA BookKnown == ASSUME Typed, Credentials, Book PROVE Credentials'
<1>1. run'.at \in BookSteps \cup {"done"}
  BY StageSteps
<1>2. Elsewhere'
  BY <1>1 DEF Elsewhere, BookSteps, PublishSteps, PublishConfigured, CollabSteps, DbRecorded,
     DbKnown, NewApp, Configured, Migrating
<1>3. Wrangler' \in {Wrangler, Static}
  <2>1. CASE Scaffold
    BY <2>1 DEF Scaffold, Write, Written, Wrangler, Typed, Shape, Files
  <2>2. CASE ~Scaffold
    BY <2>2 DEF Book, RememberScaffold, Remember, Record, Only, NoNewRepo, CreateRepo,
       RecordRepo, ListRepo, List, Wrangler
  <2> QED
    BY <2>1, <2>2
<1>4. /\ UNCHANGED <<worker, secrets, db, migrated, dbs>>
      /\ journal'.site = journal.site /\ journal'.app = journal.app /\ journal'.key = journal.key
      /\ journal'.d1 = journal.d1 /\ run'.db = run.db
  BY DEF Book, Scaffold, Write, RememberScaffold, Remember, Record, Only, NoNewRepo, CreateRepo,
     RecordRepo, ListRepo, List, Goto, world, Typed, Shape, Journal, Process
<1>5. Known'
  BY <1>3, <1>4, KnownQuiet DEF Credentials, Known
<1>6. Progress'
  BY <1>2, ElsewhereProgress, PTL
<1> QED
  BY <1>5, <1>6 DEF Credentials, Known

LEMMA PublishKnown == ASSUME Typed, Credentials, Publish PROVE Credentials'
<1>1. run.stage = "publish" /\ run.at \in PublishSteps
  BY StageSteps DEF Credentials, Progress
<1>2. run'.at \in PublishConfigured \cup {"done"} /\ run'.stage = run.stage /\ run'.db = run.db
  BY GoesTo DEF Publish, PublishConfig, Write, RememberPublish, Remember, Record, Only, BuildSite,
     Build, DeploySite, Deploy, ListWorker, List, SiteAnswers, SiteUnknown, Typed, Shape, Process,
     PublishConfigured
<1>3. Wrangler' = Static
  <2>1. CASE PublishConfig
    BY <2>1 DEF PublishConfig, Write, Written, Wrangler, Typed, Shape, Files
  <2>2. CASE ~PublishConfig
    <3>1. disk' = disk /\ run.at \in PublishConfigured
      BY <2>2 DEF Publish, RememberPublish, Remember, Record, Only, BuildSite, Build, DeploySite,
         Deploy, ListWorker, List, SiteAnswers, SiteUnknown, At, PublishConfigured
    <3> QED
      BY <3>1 DEF Credentials, Progress, Wrangler
  <2> QED
    BY <2>1, <2>2
<1>4. worker'.config \in {worker.config, Static}
  <2>1. CASE DeploySite
    <3>1. Wrangler = Static /\ worker'.config = Wrangler
      BY <2>1 DEF DeploySite, Deploy, At, Credentials, Progress, PublishConfigured, Wrangler
    <3> QED
      BY <3>1
  <2>2. CASE ~DeploySite
    BY <2>2 DEF Publish, PublishConfig, Write, RememberPublish, Remember, Record, Only, BuildSite,
       Build, ListWorker, List, SiteAnswers, SiteUnknown, world
  <2> QED
    BY <2>1, <2>2
<1>5. UNCHANGED <<secrets, db, migrated, dbs>> /\ journal'.d1 = journal.d1
  BY DEF Publish, PublishConfig, Write, RememberPublish, Remember, Record, Only, BuildSite,
     Build, DeploySite, Deploy, ListWorker, List, SiteAnswers, SiteUnknown, world, Typed, Shape,
     Journal
<1>6. Known'
  BY <1>2, <1>3, <1>4, <1>5, KnownQuiet DEF Credentials, Known
<1>7. Progress'
  <2>1. run'.at \notin CollabSteps
    BY <1>2 DEF PublishConfigured, CollabSteps, DbRecorded, DbKnown, NewApp, Configured, Migrating
  <2> QED
    BY <1>1, <1>2, <1>3, <2>1 DEF Progress, CollabSteps, DbRecorded, DbKnown, NewApp, Configured,
       Migrating, At
<1> QED
  BY <1>6, <1>7 DEF Credentials, Known

LEMMA OthersKnown ==
    ASSUME Typed, Credentials,
           \/ \E s \in Stages : Start(s)
           \/ StartUnpublish \/ MarkDone \/ Stop \/ Unpublish
           \/ \E f \in Files : Edit(f)
           \/ DeleteJournal
    PROVE  Credentials'
<1>1. Wrangler' = Wrangler
  <2>1. ASSUME NEW f \in Files, Edit(f) PROVE Wrangler' = Wrangler
    BY <2>1 DEF Edit, Wrangler, Typed, Shape, TypeOK, Contents
  <2> QED
    BY <2>1 DEF Start, StartUnpublish, MarkDone, Only, Stop, Unpublish, Delete, Forget,
       Misread, LeaveBehind, DeleteJournal, Wrangler
<1>2. /\ worker'.config \in {worker.config, Static} /\ dbs' = dbs
      /\ secrets' = secrets \/ \A s \in Secrets : secrets'[s] = Nothing
      /\ (db' = db /\ migrated' = migrated) \/ db' = Nothing
  <2>1. CASE Unpublish
    <3>1. ASSUME NEW r \in Hosting, Delete(r)
          PROVE  /\ worker'.config \in {worker.config, Static} /\ dbs' = dbs
                 /\ secrets' = secrets \/ \A s \in Secrets : secrets'[s] = Nothing
                 /\ (db' = db /\ migrated' = migrated) \/ db' = Nothing
      <4>1. CASE r = "worker"
        BY <3>1, <4>1 DEF Delete, Gone
      <4>2. CASE r # "worker"
        BY <3>1, <4>2 DEF Delete, Gone, Hosting
      <4> QED
        BY <4>1, <4>2
    <3>2. (\E r \in Hosting : Forget(r) \/ Misread(r) \/ LeaveBehind(r)) => UNCHANGED world
      BY DEF Forget, Misread, LeaveBehind
    <3> QED
      BY <2>1, <3>1, <3>2 DEF Unpublish, world
  <2>2. CASE ~Unpublish
    <3>1. UNCHANGED world
      BY <2>2 DEF Start, StartUnpublish, MarkDone, Only, Stop, DeleteJournal, Edit
    <3> QED
      BY <3>1 DEF world
  <2> QED
    BY <2>1, <2>2
<1>3. /\ journal'.d1 \in {journal.d1, Nothing}
      /\ journal'.site => journal.site /\ journal'.app = journal.app /\ journal'.key = journal.key
  <2>1. ASSUME NEW s \in Stages, Start(s)
        PROVE  journal'.d1 = journal.d1 /\ journal'.site = journal.site
               /\ journal'.app = journal.app /\ journal'.key = journal.key
    BY <2>1 DEF Start, Typed, Shape, Journal
  <2>2. MarkDone \/ Unpublish => journal'.d1 = journal.d1 /\ journal'.site = journal.site
                                /\ journal'.app = journal.app /\ journal'.key = journal.key
    BY DEF MarkDone, Unpublish, Delete, Forget, Misread, LeaveBehind, Typed, Shape, Journal
  <2>3. DeleteJournal => journal'.d1 = Nothing /\ ~journal'.site
    BY DEF DeleteJournal, EmptyJournal
  <2>4. StartUnpublish \/ Stop \/ (\E f \in Files : Edit(f)) => journal' = journal
    BY DEF StartUnpublish, Stop, Edit
  <2> QED
    BY <2>1, <2>2, <2>3, <2>4
<1>4. run'.db \in {run.db, Nothing}
  <2>1. MarkDone => run'.db = run.db
    BY GoesTo DEF MarkDone, Only
  <2>2. Unpublish => run'.db = run.db
    BY DEF Unpublish, Delete, Goto, Forget, Misread, LeaveBehind, Left, Typed, Shape, Process
  <2>3. DeleteJournal \/ (\E f \in Files : Edit(f)) => run' = run
    BY DEF DeleteJournal, Edit
  <2> QED
    BY <2>1, <2>2, <2>3, ResetsTo
<1>5. Known'
  BY <1>1, <1>2, <1>3, <1>4, KnownQuiet DEF Credentials, Known
<1>6. ASSUME NEW s \in Stages, Start(s) PROVE Progress'
  <2>1. /\ First["book"] = "book.scaffold" /\ First["publish"] = "publish.config"
        /\ First["collaborate"] = "collab.database"
        /\ Ready["collaborate"] => journal.site
    BY DEF First, Ready
  <2>2. run'.at = First[s] /\ run'.stage = s /\ (journal.site => journal'.site) /\ Ready[s]
    BY <1>6, ResetsTo DEF Start, Typed, Shape, Journal
  <2>3. CASE s = "collaborate"
    <3>1. /\ "collab.database" \in CollabSteps
          /\ "collab.database" \notin DbRecorded \cup PublishSteps
      BY DEF CollabSteps, PublishSteps, PublishConfigured, DbRecorded, DbKnown, NewApp, Configured,
         Migrating
    <3> QED
      BY <2>1, <2>2, <2>3, <3>1 DEF Progress, PublishSteps, DbRecorded, DbKnown, NewApp, At
  <2>4. CASE s = "publish"
    <3>1. "publish.config" \notin CollabSteps \cup PublishConfigured
      BY DEF CollabSteps, PublishConfigured, DbRecorded, DbKnown, NewApp, Configured, Migrating
    <3> QED
      BY <2>1, <2>2, <2>4, <3>1 DEF Progress, CollabSteps, DbRecorded, DbKnown, NewApp, Configured,
         Migrating, At
  <2>5. CASE s = "book"
    <3>1. Elsewhere'
      BY <2>1, <2>2, <2>5 DEF Elsewhere, PublishSteps, PublishConfigured, CollabSteps, DbRecorded,
         DbKnown, NewApp, Configured, Migrating
    <3> QED
      BY <3>1, ElsewhereProgress, PTL
  <2> QED
    BY <2>3, <2>4, <2>5 DEF Stages
<1>7. CASE ~\E s \in Stages : Start(s)
  <2>1. run'.at \in {"idle", "unpublish.delete", "unpublish.forget"}
    BY <1>7, GoesTo, ResetsTo, StageSteps DEF MarkDone, Only, DeleteJournal, Edit, At
  <2>2. Elsewhere'
    BY <2>1 DEF Elsewhere, PublishSteps, PublishConfigured, CollabSteps, DbRecorded,
       DbKnown, NewApp, Configured, Migrating
  <2> QED
    BY <1>5, <2>2, ElsewhereProgress, PTL DEF Credentials, Known
<1> QED
  BY <1>5, <1>6, <1>7 DEF Credentials, Known

\* Collaboration, step by step: the database.
LEMMA DatabaseKnown ==
    ASSUME Typed, Credentials, ReuseDb \/ CreateDb \/ AdoptDb \/ ListDb \/ RecordDb
    PROVE  Credentials'
<1>1. run.stage = "collaborate" /\ journal.site
  BY DEF ReuseDb, CreateDb, AdoptDb, ListDb, List, RecordDb, Record, Only, At, CollabSteps,
     DbRecorded, DbKnown, Credentials, Progress
<1>2. /\ run'.at \in {"collab.listDb", "collab.recordDb", "collab.app"}
      /\ run'.stage = run.stage
  BY GoesTo DEF ReuseDb, CreateDb, AdoptDb, ListDb, List, RecordDb, Record, Only,
     Typed, Shape, Process
<1>3. /\ UNCHANGED <<disk, worker, secrets>> /\ journal'.site = journal.site
      /\ journal'.app = journal.app /\ journal'.key = journal.key
  BY DEF ReuseDb, CreateDb, AdoptDb, ListDb, List, RecordDb, Record, Only, world,
     Typed, Shape, Journal
<1>4. dbs \in Nat /\ db \in Nat /\ run.db \in Nat /\ journal.d1 \in Nat
  BY Bounds DEF Typed, TypeOK, DbOrNone
<1>5. run'.db # Nothing
  <2>1. CASE ReuseDb
    BY <2>1 DEF ReuseDb, Typed, Shape, Process
  <2>2. CASE CreateDb
    BY <1>4, <2>2 DEF CreateDb, Typed, Shape, Process, Nothing
  <2>3. CASE AdoptDb
    BY <2>3 DEF AdoptDb, Typed, Shape, Process
  <2>4. CASE ListDb \/ RecordDb
    <3>1. run.at \in {"collab.listDb", "collab.recordDb"} /\ run'.db = run.db
      BY <2>4, GoesTo DEF ListDb, List, RecordDb, Record, Only, At
    <3> QED
      BY <3>1 DEF Credentials, Progress, CollabSteps
  <2> QED
    BY <2>1, <2>2, <2>3, <2>4
<1>6. /\ run'.at \notin PublishSteps \cup NewApp \cup Configured \cup Migrating
      /\ run'.at # "collab.config" /\ run'.at \in CollabSteps
  BY <1>2 DEF PublishSteps, PublishConfigured, NewApp, Configured, Migrating, CollabSteps,
     DbRecorded, DbKnown
<1>7. Progress'
  BY <1>1, <1>2, <1>3, <1>5, <1>6 DEF Progress, PublishSteps, NewApp, At
<1>8. Numbered'
  <2>1. CASE CreateDb
    <3>1. dbs' = dbs + 1 /\ db' = dbs + 1 /\ run'.db = dbs + 1 /\ journal' = journal
      BY <2>1 DEF CreateDb, Typed, Shape, Process
    <3>2. Wrangler' = Wrangler /\ \A c \in {Wrangler, worker.config} : c.db \in Nat
      BY <1>3, Bounds DEF Wrangler, Typed, TypeOK, Config, DbOrNone, Contents, Texts, Files
    <3> QED
      BY <1>3, <1>4, <3>1, <3>2 DEF Credentials, Numbered
  <2>2. CASE ~CreateDb
    <3>1. UNCHANGED <<db, dbs>> /\ journal'.d1 \in {journal.d1, run.db}
          /\ run'.db \in {run.db, journal.d1, db}
      BY <2>2 DEF ReuseDb, AdoptDb, ListDb, List, RecordDb, Record, Only, Goto, world,
         Typed, Shape, Process, Journal
    <3> QED
      BY <1>3, <3>1 DEF Credentials, Numbered, Wrangler
  <2> QED
    BY <2>1, <2>2
<1>9. FileKnown'
  BY <1>3 DEF Credentials, FileKnown, SecretsOf, Wrangler
<1>10. TablesMade'
  <2>1. CASE CreateDb
    <3>1. db' = dbs + 1 /\ worker.config.db <= dbs /\ worker.config.db \in Nat
      BY <2>1, Bounds DEF CreateDb, Typed, TypeOK, Config, DbOrNone, Credentials, Numbered
    <3> QED
      BY <1>3, <1>4, <3>1 DEF TablesMade
  <2>2. CASE ~CreateDb
    BY <1>3, <2>2 DEF ReuseDb, AdoptDb, ListDb, List, RecordDb, Record, Only, world, Credentials,
       TablesMade
  <2> QED
    BY <2>1, <2>2
<1> QED
  BY <1>7, <1>8, <1>9, <1>10 DEF Credentials

\* The App.
LEMMA AppKnown ==
    ASSUME Typed, Credentials,
           ReuseApp \/ CreateApp \/ ListApp \/ PutSecret \/ RecordSecret \/ RecordApp
    PROVE  Credentials'
<1>1. run.stage = "collaborate" /\ journal.site /\ run.db # Nothing
  BY DEF ReuseApp, CreateApp, ListApp, List, PutSecret, RecordSecret, RecordApp, Record, Only, At,
     CollabSteps, DbRecorded, DbKnown, NewApp, Credentials, Progress
<1>2. /\ run'.at \in NewApp \cup {"collab.config"} /\ run'.stage = run.stage /\ run'.db = run.db
  BY GoesTo DEF ReuseApp, CreateApp, ListApp, List, PutSecret, RecordSecret, RecordApp, Record,
     Only, NewApp, Typed, Shape, Process
<1>3. /\ UNCHANGED <<disk, worker, db, dbs, migrated>> /\ journal'.site = journal.site
      /\ journal'.d1 = journal.d1 /\ Wrangler' = Wrangler
  BY DEF ReuseApp, CreateApp, ListApp, List, PutSecret, RecordSecret, RecordApp, Record, Only,
     world, Typed, Shape, Journal, Wrangler
<1>4. /\ run'.at \notin PublishSteps \cup Configured \cup Migrating /\ run'.at \in CollabSteps
      /\ "collab.config" \notin NewApp
  BY <1>2 DEF PublishSteps, PublishConfigured, NewApp, Configured, Migrating, CollabSteps,
     DbRecorded, DbKnown
<1>5. Numbered' /\ TablesMade'
  BY <1>2, <1>3 DEF Credentials, Numbered, TablesMade
<1>6. /\ run'.at \in PublishSteps => run'.stage = "publish"
      /\ run'.at \in PublishConfigured => Wrangler' = Static
      /\ run'.at \in CollabSteps => journal'.site /\ run'.stage = "collaborate"
      /\ run'.at \in CollabSteps \ {"collab.database"} => run'.db # Nothing
      /\ run'.at \in Configured => Wrangler'.db = run'.db
      /\ run'.at \in Migrating => Wrangler'.db = db' /\ migrated'
  BY <1>1, <1>2, <1>3, <1>4 DEF PublishSteps
<1>7. CASE ReuseApp
  <2>1. /\ run'.at = "collab.config" /\ run'.app = journal.app /\ run'.client = Wrangler.client
        /\ UNCHANGED <<journal, secrets>> /\ AppIsWhole
    BY <1>7 DEF ReuseApp, ClientOnDisk, Wrangler, world, Typed, Shape, Process
  <2>2. /\ Wrangler.client # Nothing /\ journal.app = Wrangler.client /\ journal.key
        /\ SecretsOf(Wrangler.client)
    BY <1>1, <2>1 DEF AppIsWhole, ClientOnDisk, Wrangler, Credentials, FileKnown
  <2>3. FileKnown'
    BY <1>3, <2>1, <2>2 DEF FileKnown, SecretsOf
  <2>4. SecretsOf(Wrangler.client)'
    BY <1>3, <2>1, <2>2 DEF SecretsOf
  <2>5. (SecretsOf(run.app))'
    BY <1>3, <2>1, <2>2 DEF SecretsOf
  <2> QED
    BY <1>4, <1>5, <1>6, <2>1, <2>2, <2>3, <2>5 DEF Credentials, Progress, At, NewApp
<1>8. CASE CreateApp
  <2>1. /\ run'.at = "collab.listApp" /\ run'.app = apps + 1 /\ run'.client = apps + 1
        /\ run'.todo = Secrets /\ UNCHANGED <<journal, secrets>> /\ ~AppIsWhole
    BY <1>8 DEF CreateApp, SecretsToPut, Typed, Shape, Process
  <2>2. apps + 1 # Nothing
    BY Bounds DEF Typed, TypeOK, AppOrNone, Nothing
  <2>3. Wrangler.client = Nothing
    BY <1>1, <2>1 DEF AppIsWhole, ClientOnDisk, Wrangler, Credentials, FileKnown
  <2>4. FileKnown'
    BY <1>3, <2>3 DEF FileKnown
  <2> QED
    BY <1>3, <1>5, <1>6, <2>1, <2>2, <2>3, <2>4 DEF Credentials, Progress, At, NewApp
<1>9. CASE ListApp \/ PutSecret \/ RecordSecret \/ RecordApp
  <2>1. /\ run.at \in NewApp /\ run'.app = run.app /\ run'.client = run.client
    BY <1>9, GoesTo DEF ListApp, List, PutSecret, RecordSecret, RecordApp, Record, Only, At,
       NewApp, Typed, Shape, Process
  <2>2. Wrangler.client = Nothing /\ run.app # Nothing /\ run.client = run.app
    BY <2>1 DEF Credentials, Progress
  <2>3. FileKnown'
    BY <1>3, <2>2 DEF FileKnown
  <2>4. CASE ListApp
    <3>1. /\ run.at = "collab.listApp" /\ run'.at = "collab.secret" /\ run'.todo = run.todo
          /\ secrets' = secrets
      BY <2>4, GoesTo DEF ListApp, List, At, world
    <3>2. run.todo = Secrets
      BY <3>1 DEF Credentials, Progress, At
    <3> QED
      BY <1>3, <1>5, <1>6, <2>1, <2>2, <2>3, <3>1, <3>2 DEF Credentials, Progress, At
  <2>5. CASE PutSecret
    <3>1. /\ run.at = "collab.secret" /\ run'.at = "collab.recordSecret" /\ run'.todo = run.todo
          /\ secrets' = [secrets EXCEPT ![NextSecret] = run.app]
      BY <2>5, GoesTo DEF PutSecret, At
    <3>2. run.todo \in {Secrets, {"key"}} /\ \A s \in Secrets \ run.todo : secrets[s] = run.app
      BY <3>1 DEF Credentials, Progress, At, NewApp
    <3>3. NextSecret' = NextSecret /\ NextSecret \in Secrets
      BY <3>1 DEF NextSecret, Secrets
    <3>4. \A s \in Secrets : s \notin run.todo \/ s = NextSecret => secrets'[s] = run.app
      BY <3>1, <3>2, <3>3 DEF Typed, TypeOK
    <3> QED
      BY <1>3, <1>5, <1>6, <2>1, <2>2, <2>3, <3>1, <3>2, <3>3, <3>4 DEF Credentials, Progress, At
  <2>6. CASE RecordSecret
    <3>1. /\ run.at = "collab.recordSecret" /\ secrets' = secrets
          /\ run'.todo = run.todo \ {NextSecret}
          /\ run'.at = IF run'.todo = {} THEN "collab.install" ELSE "collab.secret"
          /\ journal'.key = (journal.key \/ NextSecret = "key")
      BY <2>6 DEF RecordSecret, At, world, Typed, Shape, Process, Journal
    <3>2. /\ run.todo \in {Secrets, {"key"}}
          /\ \A s \in Secrets : s \notin run.todo \/ s = NextSecret => secrets[s] = run.app
      BY <3>1 DEF Credentials, Progress, At, NewApp
    <3>3. CASE run.todo = Secrets
      <4>1. NextSecret = "client" /\ run'.todo = {"key"} /\ run'.at = "collab.secret"
        BY <3>1, <3>3 DEF NextSecret, Secrets
      <4>2. \A s \in Secrets \ run'.todo : secrets[s] = run.app
        BY <3>2, <4>1 DEF Secrets
      <4> QED
        BY <1>3, <1>5, <1>6, <2>1, <2>2, <2>3, <3>1, <4>1, <4>2 DEF Credentials, Progress, At
    <3>4. CASE run.todo = {"key"}
      <4>1. NextSecret = "key" /\ run'.at = "collab.install" /\ journal'.key
        BY <3>1, <3>4 DEF NextSecret
      <4>2. \A s \in Secrets : secrets[s] = run.app
        BY <3>2, <3>4, <4>1
      <4> QED
        BY <1>3, <1>5, <1>6, <2>1, <2>2, <2>3, <3>1, <4>1, <4>2 DEF Credentials, Progress, At
    <3> QED
      BY <3>2, <3>3, <3>4
  <2>7. CASE RecordApp
    <3>1. /\ run.at = "collab.install" /\ run'.at = "collab.config" /\ secrets' = secrets
          /\ journal'.app = run.app /\ journal'.key = journal.key
      BY <2>7, GoesTo DEF RecordApp, Record, Only, At, world, Typed, Shape, Journal
    <3>2. journal.key /\ \A s \in Secrets : secrets[s] = run.app
      BY <3>1 DEF Credentials, Progress, At
    <3>3. (SecretsOf(run.app))'
      BY <2>1, <3>1, <3>2 DEF SecretsOf
    <3> QED
      BY <1>3, <1>4, <1>5, <1>6, <2>1, <2>2, <2>3, <3>1, <3>2, <3>3 DEF Credentials, Progress, At,
         NewApp
  <2> QED
    BY <1>9, <2>4, <2>5, <2>6, <2>7
<1> QED
  BY <1>7, <1>8, <1>9

\* The configuration, the tables and the switch.
LEMMA SwitchKnown ==
    ASSUME Typed, Credentials,
           \/ CollabConfig \/ RememberConfig \/ Migrate \/ DeployApi \/ Verify
           \/ SwitchOn \/ RememberSwitch \/ RebuildSite \/ Redeploy
    PROVE  Credentials'
<1>1. run.at \in {"collab.config"} \cup Configured \cup Migrating
  BY DEF CollabConfig, RememberConfig, Migrate, DeployApi, Verify, SwitchOn, RememberSwitch,
     RebuildSite, Redeploy, Write, Remember, Record, Only, Deploy, Build, At, Configured, Migrating
<1>2. run.stage = "collaborate" /\ journal.site /\ run.db # Nothing
  BY <1>1 DEF CollabSteps, DbRecorded, DbKnown, Configured, Migrating, Credentials, Progress
<1>3. /\ run'.at \in Configured \cup Migrating \cup {"done"}
      /\ run'.stage = run.stage /\ run'.db = run.db
  BY GoesTo DEF CollabConfig, RememberConfig, Migrate, DeployApi, Verify, SwitchOn, RememberSwitch,
     RebuildSite, Redeploy, Write, Remember, Record, Only, Deploy, Build, Configured, Migrating,
     Typed, Shape, Process
<1>4. /\ UNCHANGED <<secrets, db, dbs>> /\ journal'.site = journal.site
      /\ journal'.d1 = journal.d1 /\ journal'.app = journal.app /\ journal'.key = journal.key
  BY DEF CollabConfig, RememberConfig, Migrate, DeployApi, Verify, SwitchOn, RememberSwitch,
     RebuildSite, Redeploy, Write, Remember, Record, Only, Deploy, Build, world, Typed, Shape,
     Journal
<1>5. run'.at \notin PublishSteps \cup NewApp /\ run'.at # "collab.config"
  BY <1>3 DEF PublishSteps, PublishConfigured, NewApp, Configured, Migrating
<1>6. ASSUME run'.at \in Configured => Wrangler'.db = run'.db,
             run'.at \in Migrating => Wrangler'.db = db' /\ migrated'
      PROVE  Progress'
  BY <1>2, <1>3, <1>4, <1>5, <1>6 DEF Progress, PublishSteps, NewApp, At
<1>7. CASE CollabConfig
  <2>1. /\ Wrangler' = [client |-> run.client, app |-> run.app, db |-> run.db]
        /\ run'.at = "collab.remember" /\ run.at = "collab.config"
        /\ UNCHANGED <<worker, migrated>>
    BY <1>7 DEF CollabConfig, Write, Written, Wrangler, At, world, Typed, Shape, Process, Files
  <2>2. /\ run.client = run.app /\ run.app # Nothing
        /\ journal.app = run.app /\ journal.key /\ SecretsOf(run.app)
    BY <2>1 DEF Credentials, Progress, At
  <2>3. Numbered'
    BY <1>2, <1>3, <1>4, <2>1, <2>2 DEF Credentials, Numbered
  <2>4. FileKnown'
    BY <1>4, <2>1, <2>2 DEF FileKnown, SecretsOf
  <2>5. TablesMade'
    BY <1>4, <2>1 DEF Credentials, TablesMade
  <2>6. "collab.remember" \notin Migrating
    BY DEF Migrating
  <2> QED
    BY <1>3, <1>6, <2>1, <2>3, <2>4, <2>5, <2>6 DEF Credentials
<1>8. CASE ~CollabConfig
  <2>1. Wrangler' = Wrangler
    <3>1. CASE SwitchOn
      BY <3>1 DEF SwitchOn, Write, Wrangler, Typed, Shape, Files
    <3>2. CASE ~SwitchOn
      BY <1>8, <3>2 DEF RememberConfig, Migrate, DeployApi, Verify, RememberSwitch,
         RebuildSite, Redeploy, Remember, Record, Only, Deploy, Build, Wrangler
    <3> QED
      BY <3>1, <3>2
  <2>2. FileKnown'
    BY <1>4, <2>1 DEF Credentials, FileKnown, SecretsOf
  <2>3. CASE RememberConfig
    <3>1. /\ run.at = "collab.remember" /\ run'.at = "collab.migrate"
          /\ UNCHANGED <<worker, migrated>>
      BY <2>3, GoesTo DEF RememberConfig, Remember, Record, Only, At, world
    <3>2. Wrangler.db = run.db /\ "collab.migrate" \notin Migrating
      BY <3>1 DEF Credentials, Progress, Configured, Migrating
    <3> QED
      BY <1>3, <1>4, <1>6, <2>1, <2>2, <3>1, <3>2 DEF Credentials, Numbered, TablesMade
  <2>4. CASE Migrate
    <3>1. /\ run.at = "collab.migrate" /\ run'.at = "collab.deploy" /\ run.db = db
          /\ worker' = worker /\ migrated'
      BY <2>4, GoesTo DEF Migrate, At
    <3>2. Wrangler.db = run.db /\ "collab.deploy" \notin Configured
      BY <3>1 DEF Credentials, Progress, Configured
    <3> QED
      BY <1>3, <1>4, <1>6, <2>1, <2>2, <3>1, <3>2 DEF Credentials, Numbered, TablesMade
  <2>5. CASE DeployApi \/ Redeploy \/ Verify \/ SwitchOn \/ RememberSwitch \/ RebuildSite
    <3>1. /\ run.at \in Migrating /\ run'.at \in Migrating \cup {"done"} /\ migrated' = migrated
          /\ worker'.config \in {worker.config, Wrangler}
      <4>1. CASE SwitchOn
        BY <4>1 DEF SwitchOn, Write, At, world, Migrating, Typed, Shape, Process
      <4>2. CASE DeployApi \/ Redeploy
        BY <4>2, GoesTo DEF DeployApi, Redeploy, Deploy, At, Migrating, Wrangler
      <4>3. CASE Verify \/ RememberSwitch \/ RebuildSite
        BY <4>3, GoesTo DEF Verify, RememberSwitch, RebuildSite, Remember, Record, Only, Build, At,
           world, Migrating
      <4> QED
        BY <2>5, <4>1, <4>2, <4>3
    <3>2. Wrangler.db = db /\ migrated
      BY <3>1 DEF Credentials, Progress
    <3>3. run'.at \notin Configured
      BY <3>1 DEF Configured, Migrating
    <3> QED
      BY <1>3, <1>4, <1>6, <2>1, <2>2, <3>1, <3>2, <3>3 DEF Credentials, Numbered, TablesMade
  <2> QED
    BY <1>8, <2>3, <2>4, <2>5
<1> QED
  BY <1>7, <1>8

LEMMA CredentialsInit == Init => Credentials
<1> SUFFICES ASSUME Init PROVE Credentials
  OBVIOUS
<1>1. Wrangler = Static /\ worker.config = Static
  BY DEF Init, Wrangler, Written, Files
<1>2. /\ journal.d1 = 0 /\ run.db = 0 /\ run.at = "idle" /\ db = 0 /\ dbs = 0
  BY DEF Init, EmptyJournal, Idle, Nothing
<1>3. Progress
  BY <1>2, ElsewhereProgress DEF Elsewhere, PublishSteps, PublishConfigured, CollabSteps,
     DbRecorded, DbKnown, NewApp, Configured, Migrating
<1> QED
  BY <1>1, <1>2, <1>3 DEF Credentials, Numbered, FileKnown, TablesMade, Static, Nothing

LEMMA CredentialsStep == ASSUME Typed, Credentials, [Next]_vars PROVE Credentials'
<1>1. CASE UNCHANGED vars
  BY <1>1 DEF vars, world, Credentials, Numbered, FileKnown, SecretsOf, TablesMade, Progress,
     Wrangler, At, NextSecret
<1>2. CASE Collaborate
  BY <1>2, DatabaseKnown, AppKnown, SwitchKnown DEF Collaborate
<1> QED
  BY <1>1, <1>2, BookKnown, PublishKnown, OthersKnown DEF Next
-----------------------------------------------------------------------------
\* The inductive invariant.
THEOREM Invariance == Spec => []Inv
<1>1. Init => Inv
  <2>1. Init => Begun
    BY DEF Init, Idle, Begun, PublishSteps, PublishConfigured, CollabSteps, DbRecorded, DbKnown,
       NewApp, Configured, Migrating
  <2> QED
    BY <2>1, TypeInit, CredentialsInit, ListedInit, EditInit DEF Inv, Typed
<1>2. Inv /\ [Next]_vars => Inv'
  <2> SUFFICES ASSUME Inv, [Next]_vars PROVE Inv'
    OBVIOUS
  <2>1. Typed /\ Begun /\ Credentials /\ Listed /\ Edits /\ Progress
    BY DEF Inv, Typed, Credentials
  <2>2. Typed' /\ Begun'
    BY <2>1, TypeStep
  <2>3. Credentials'
    BY <2>1, CredentialsStep
  <2>4. Listed'
    BY <2>1, ListedStep
  <2>5. Edits'
    BY <2>1, EditStep
  <2> QED
    BY <2>2, <2>3, <2>4, <2>5 DEF Inv, Typed
<1> QED
  BY <1>1, <1>2, PTL DEF Spec

(* Every variable keeps its type: the files, the journal, the process and   *)
(* what the stages made (create-authorbot's journal.ts and actions.ts).     *)
THEOREM TypeCorrect == Spec => []TypeOK
BY Invariance, PTL DEF Inv

(* A Worker that runs the configuration on disk with an App in it has that  *)
(* App's client id, its secrets or none, and tables in its database: the    *)
(* order of collaborate.ts (secrets, journal, file) survives every stop,    *)
(* every repeated stage, every unpublish and every deleted journal.         *)
THEOREM OneAppsCredentials == Spec => []CredentialsMatch
<1>1. Inv => CredentialsMatch
  <2> SUFFICES ASSUME Inv, worker.config = Wrangler, worker.config.client # Nothing
               PROVE  /\ worker.config.client = worker.config.app
                      /\ \/ \A s \in Secrets : secrets[s] = worker.config.app
                         \/ \A s \in Secrets : secrets[s] = Nothing
                      /\ worker.config.db = db => migrated
    BY DEF CredentialsMatch, Wrangler
  <2>1. Numbered /\ FileKnown /\ TablesMade
    BY DEF Inv, Credentials
  <2>2. worker.config.client = worker.config.app
    BY <2>1 DEF Numbered
  <2>3. SecretsOf(worker.config.client)
    BY <2>1 DEF FileKnown
  <2> QED
    BY <2>1, <2>2, <2>3 DEF TablesMade, SecretsOf
<1> QED
  BY <1>1, Invariance, PTL

(* What a finished stage made and still exists is listed for the author to  *)
(* remove (actions.ts: resource), wherever earlier runs stopped.            *)
THEOREM MadeIsListed == Spec => []DoneIsListed
<1>1. Inv => DoneIsListed
  <2> SUFFICES ASSUME Inv PROVE DoneIsListed
    OBVIOUS
  <2>1. Listed
    BY DEF Inv
  <2>2. "book" \in journal.done => run.at \notin {"book.record", "book.list"}
    BY <2>1 DEF Listed, BookSteps
  <2>3. There("d1") => db # Nothing
    BY DEF There
  <2> QED
    BY <2>1, <2>2, <2>3 DEF DoneIsListed, Listed, Has
<1> QED
  BY <1>1, Invariance, PTL

(* No run replaces a file that holds an edit of the author's without his    *)
(* word, except a book.yml that collaborate wrote with that edit in it      *)
(* (actions.ts: writeFile).                                                 *)
THEOREM EditsSurvive == Spec => EditsKept
<1> DEFINE Asks == \A f \in Files :
                     /\ ~At("idle") /\ disk[f].edit # 0 /\ disk'[f].edit # disk[f].edit
                     => run'.asked \/ (f = "book.yml" /\ disk[f].edit = carried)
<1>1. Inv /\ [Next]_vars => [Asks]_vars
  BY EditKept DEF Inv, Typed
<1> QED
  BY <1>1, Invariance, PTL DEF Spec, EditsKept
=============================================================================
