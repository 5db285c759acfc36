-------------------------- MODULE ProjectionProofs --------------------------
(***************************************************************************)
(* Proofs about Projection: type correctness, that every push is projected *)
(* once nothing is owed, that neither the settings form nor the author     *)
(* reverts the other's fields, that a rebuild loses nothing and that a     *)
(* project diverges only after its author broke it - for any number of     *)
(* notes, settings changes, fields, commits and crashes, and however many  *)
(* of the excepted events happen together.                                 *)
(***************************************************************************)
EXTENDS Projection, TLAPS

-----------------------------------------------------------------------------
(* The inductive invariant.                                                *)

\* What a tree says of the chapter.
Prose(tree) == [rev |-> tree.rev, text |-> tree.text, block |-> tree.block]
Commits == 1..Len(branch)
\* A pass that has its snapshot, and a drain between a commit and its batch.
Reading == pass.pc \notin {"idle", "snapshot"}
Landing(o) == drain.pc = "landed" /\ drain.op = o

\* One pass or one drain, about commits and operations that exist; nothing
\* lands under a pass.
Chained ==
    /\ pass.pc = "idle" => pass = Idle
    /\ drain.pc = "idle" => drain = Resting
    /\ pass = Idle \/ drain = Resting
    /\ Reading => pass.at \in Commits /\ \A o \in Ops : landed[o] <= pass.at
    /\ drain.pc = "landed" => drain.op \in queue /\ landed[drain.op] # 0

\* The trees hold what has landed.
Recorded ==
    /\ \A o \in Ops : landed[o] <= Len(branch)
    /\ \A n \in Notes, k \in Commits : n \in branch[k].files <=> landed[n] \in 1..k
    /\ \A k \in Commits : branch[k].task = "ready" <=> landed["apply"] \notin 1..k

\* Where a note stands and where its operation stands.
Accepted == \A n \in Notes :
    /\ n \in queue \/ landed[n] # 0 => note[n].status # "absent"
    /\ note[n].status = "pending" => n \in queue
    /\ note[n].status \in {"open", "needs_reanchor"} \/ n \in pass.listed => landed[n] # 0

\* Whom the settings row waits for, and what it shows meanwhile.
Settled ==
    /\ book.op # None =>
         /\ book.op \in queue /\ book.op \in Edits
         /\ edit[book.op].field \in Fields /\ edit[book.op].before \in Configs
         /\ edit[book.op].before[edit[book.op].field] # "maintainer"
         /\ book.value = [edit[book.op].before EXCEPT ![edit[book.op].field] = "maintainer"]
    /\ pass.pc = "finish" /\ ~pass.settings => book.op # None
    /\ Tip.config = wrote

\* A push not yet projected is announced, or the flag stands for it.
Announced == project.stale \/ \E k \in Commits : hook[k] = "sent"
\* After the batch, the chapter is the tree's.
Projected == pass.pc \in {"anchor", "finish"} => chapter = Prose(Tree)
\* Commits a pass has not seen, and those since a drain's own, are to be heard of.
Later == Reading /\ ~(project.stale /\ pass.touched) =>
            \A k \in Commits : k > pass.at => hook[k] = "sent"
Since == drain.pc = "landed" /\ drain.op \notin Notes /\ ~project.stale =>
            \A k \in Commits : k >= landed[drain.op] => hook[k] = "sent"
ProseBehind == chapter # Prose(Tip) => Announced
ConfigBehind == "released" \notin blind /\ book.op = None /\ book.value # Tip.config => Announced
Notified == Projected /\ (Told => Later /\ Since /\ ProseBehind /\ ConfigBehind)

\* The annotated block changes once, with the submission and its revision.
Turned(r) == landed["apply"] # 0 /\ r >= branch[landed["apply"]].rev
BlockAt(r) == IF Turned(r) THEN branch[landed["apply"]].block ELSE "old"
Straight ==
    /\ landed["apply"] # 0 => branch[landed["apply"]].task = "completed"
    /\ \A k \in Commits : /\ branch[k].rev <= Tip.rev /\ branch[k].block # "gone"
                          /\ branch[k].block = BlockAt(branch[k].rev)
Placed == chapter.rev <= Tip.rev /\ chapter.block = BlockAt(chapter.rev)
Rooted(n) == note[n].status # "absent" =>
    /\ note[n].rev <= Tip.rev /\ note[n].born <= Tip.rev
    /\ note[n].target = BlockAt(note[n].rev) /\ note[n].target = BlockAt(note[n].born)
    /\ Turned(note[n].rev) \/ Turned(note[n].born) => Turned(chapter.rev)
Forward == Reading => chapter.rev <= Tree.rev
Applied == landed["apply"] # 0 /\ "apply" \notin queue => Turned(chapter.rev)
Unbroken == Straight /\ Placed /\ (\A n \in Notes : Rooted(n)) /\ Forward /\ Applied
Anchored == ~AuthorBroke => Unbroken

\* Only a drain cut short leaves a commit behind whose batch is still to come.
Finished == \A o \in queue \ Edits : landed[o] # 0 => "unhooked" \in blind \/ Landing(o)
\* While none was and no flag was cleared, no open note has lost its block once
\* a drain has done what it owes, and no pass finds anything broken.
Whole == ~AuthorBroke /\ blind \cap {"reset", "unhooked"} = {}
Attached == drain.pc # "hook" => \A n \in Notes : note[n].status = "open" => note[n].target = chapter.block
Converged == pass.pc # "confirm" /\ ~project.diverged
Healed == Finished /\ (Whole => Attached /\ Converged)

\* The item, its lease and its submission.
Kept ==
    /\ "apply" \in queue => item.status = "submitted"
    /\ item.status \in {"ready", "leased"} => "apply" \notin queue /\ landed["apply"] = 0
    /\ item.status = "submitted" => ~item.lease
    /\ item.lease /\ "claim" \notin blind => item.status = "leased"
    /\ item.lease /\ "claim" \notin blind /\ pass.pc = "rebuild" => pass.leased
Held == "inflight" \notin blind => Kept

Inv == /\ TypeOK /\ Chained /\ Recorded /\ Accepted /\ Settled
       /\ Notified /\ Anchored /\ Healed /\ Held

-----------------------------------------------------------------------------
(* Operations, trees and commits.                                          *)

LEMMA OpsAre ==
    /\ Notes \subseteq Ops /\ Edits \subseteq Ops /\ "apply" \in Ops
    /\ "apply" \notin Notes /\ "apply" \notin Edits /\ Notes \cap Edits = {}
    /\ None \notin Notes /\ None \notin Edits
    /\ \A o \in Ops : o \in Notes \/ o \in Edits \/ o = "apply"
    /\ \A o : o \in ProseOps <=> o = "apply"
BY Names DEF Ops, ProseOps

LEMMA CommitsTyped ==
    ASSUME TypeOK
    PROVE  /\ branch \in Seq(Trees) /\ Len(branch) \in Nat /\ Len(branch) >= 1
           /\ Len(branch) \in Commits /\ Tip \in Trees
           /\ \A k \in Commits : k \in Nat /\ k >= 1 /\ branch[k] \in Trees
<1>1. branch \in Seq(Trees) /\ Len(branch) \in Nat /\ Len(branch) >= 1
  BY Bounds DEF TypeOK
<1> QED
  BY <1>1 DEF Commits, Tip

\* A commit at the end of the branch.
Grows(tree) ==
    /\ Len(branch') = Len(branch) + 1 /\ tree = Tip'
    /\ \A k \in Commits : branch'[k] = branch[k] /\ hook'[k] = hook[k]
    /\ branch'[Len(branch) + 1] = tree
    /\ hook'[Len(branch) + 1] = "sent"
    /\ Commits' = Commits \cup {Len(branch) + 1}

LEMMA ExtendSays ==
    ASSUME TypeOK, NEW tree \in Trees, Extend(tree)
    PROVE  /\ Grows(tree)
           /\ branch' \in Seq(Trees) /\ Len(branch') \in 1..(MaxCommits + 1)
           /\ hook' \in [1..(MaxCommits + 1) -> {"none", "sent", "asked", "done"}]
<1>1. /\ branch \in Seq(Trees) /\ Len(branch) \in Nat /\ Len(branch) >= 1 /\ MaxCommits \in Nat
      /\ branch' = Append(branch, tree) /\ hook' = [hook EXCEPT ![Len(branch) + 1] = "sent"]
      /\ Len(branch) <= MaxCommits
  BY CommitsTyped, Bounds DEF Extend
<1>2. /\ branch' \in Seq(Trees) /\ Len(branch') = Len(branch) + 1
      /\ \A k \in 1..Len(branch) : branch'[k] = branch[k]
      /\ branch'[Len(branch) + 1] = tree
  BY <1>1
<1>3. hook \in [1..(MaxCommits + 1) -> {"none", "sent", "asked", "done"}]
  BY DEF TypeOK
<1>4. /\ hook' \in [1..(MaxCommits + 1) -> {"none", "sent", "asked", "done"}]
      /\ \A k \in 1..Len(branch) : hook'[k] = hook[k]
      /\ hook'[Len(branch) + 1] = "sent"
  BY <1>1, <1>3
<1>5. 1..(Len(branch) + 1) = 1..Len(branch) \cup {Len(branch) + 1}
  BY <1>1
<1> QED
  BY <1>1, <1>2, <1>4, <1>5 DEF Grows, Commits, Tip

LEMMA ChangedTyped ==
    ASSUME TypeOK, NEW c \in Changes, NEW f \in Fields
    PROVE  /\ Changed(c, f) \in Trees
           /\ Changed(c, f).files = Tip.files /\ Changed(c, f).task = Tip.task
           /\ Changed(c, f).change = c
           /\ c # "config" => Changed(c, f).config = Tip.config
           /\ c = "config" => Changed(c, f).config = [Tip.config EXCEPT ![f] = "author"]
                              /\ Prose(Changed(c, f)) = Prose(Tip)
           /\ c = "prose" => Changed(c, f).rev = Tip.rev + 1 /\ Changed(c, f).block = Tip.block
<1>0. Tip \in Trees /\ Len(branch) + 1 \in Nat /\ c \in {"prose", "regress", "cut", "config"}
  BY CommitsTyped, Names
<1>1. Tip.rev \in Int /\ Tip.rev + 1 \in Int /\ Tip.rev - 1 \in Int
  BY <1>0 DEF Trees
<1> DEFINE next == [Tip EXCEPT !.by = "author", !.change = c]
<1>2. /\ next \in Trees /\ next.rev = Tip.rev /\ next.config = Tip.config /\ next.block = Tip.block
      /\ next.files = Tip.files /\ next.task = Tip.task /\ next.change = c /\ next.text = Tip.text
  BY <1>0 DEF Trees
<1>3. CASE c = "prose"
  <2>1. Changed(c, f) = [next EXCEPT !.rev = Tip.rev + 1, !.text = Len(branch) + 1]
    BY <1>2, <1>3 DEF Changed
  <2> HIDE DEF next
  <2> QED
    BY <1>0, <1>1, <1>2, <1>3, <2>1 DEF Trees
<1>4. CASE c = "regress"
  <2>1. Changed(c, f) = [next EXCEPT !.rev = Tip.rev - 1, !.text = Len(branch) + 1]
    BY <1>2, <1>4 DEF Changed
  <2> HIDE DEF next
  <2> QED
    BY <1>0, <1>1, <1>2, <1>4, <2>1 DEF Trees
<1>5. CASE c = "cut"
  <2>1. Changed(c, f) = [next EXCEPT !.block = "gone", !.text = Len(branch) + 1]
    BY <1>5 DEF Changed
  <2> HIDE DEF next
  <2> QED
    BY <1>0, <1>1, <1>2, <1>5, <2>1 DEF Trees, Blocks
<1>6. CASE c = "config"
  <2>1. Changed(c, f) = [next EXCEPT !.config[f] = "author"]
    BY <1>6 DEF Changed
  <2> HIDE DEF next
  <2>2. next.config \in Configs
    BY <1>2 DEF Trees
  <2> DEFINE config == [next.config EXCEPT ![f] = "author"]
  <2>3. config \in Configs
    BY <2>2 DEF Configs, Authors
  <2>4. Changed(c, f) = [next EXCEPT !.config = config]
    BY <2>1
  <2>5. config = [Tip.config EXCEPT ![f] = "author"]
    BY <1>2
  <2> HIDE DEF config
  <2> QED
    BY <1>2, <1>6, <2>3, <2>4, <2>5 DEF Trees, Prose
<1> QED
  BY <1>0, <1>3, <1>4, <1>5, <1>6

\* What an operation commits.
LEMMA OutcomesTyped ==
    ASSUME TypeOK, NEW o \in Ops, NEW tree \in Outcomes(o)
    PROVE  /\ tree \in Trees /\ tree.change = "op"
           /\ tree.files = IF o \in Notes THEN Tip.files \cup {o} ELSE Tip.files
           /\ tree.config = IF o \in Edits THEN Merged(o) ELSE Tip.config
           /\ o # "apply" => Prose(tree) = Prose(Tip) /\ tree.task = Tip.task
           /\ o = "apply" /\ Tip.block = "gone" => Prose(tree) = Prose(Tip) /\ tree.task = "conflict"
           /\ o = "apply" /\ Tip.block # "gone" =>
                tree.rev = Tip.rev + 1 /\ tree.task = "completed" /\ tree.block \in {Tip.block, "new"}
<1>1. Tip \in Trees /\ Len(branch) + 1 \in Nat /\ Tip.rev + 1 \in Int /\ Tip.files \in SUBSET Notes
  BY CommitsTyped DEF Trees
<1>2. /\ Ours \in Trees /\ Ours.change = "op" /\ Ours.rev = Tip.rev /\ Ours.text = Tip.text
      /\ Ours.block = Tip.block /\ Ours.config = Tip.config /\ Ours.files = Tip.files /\ Ours.task = Tip.task
  BY <1>1 DEF Ours, Trees
<1>3. CASE o \in Notes
  <2>1. tree = [Ours EXCEPT !.files = Tip.files \cup {o}]
    BY <1>2, <1>3 DEF Outcomes
  <2>2. Tip.files \cup {o} \in SUBSET Notes
    BY <1>1, <1>3
  <2> QED
    BY <1>2, <1>3, <2>1, <2>2, OpsAre DEF Trees, Prose
<1>4. CASE o \in Edits
  <2>1. tree = [Ours EXCEPT !.config = Merged(o)] /\ o \notin Notes /\ o # "apply"
    BY <1>4, OpsAre DEF Outcomes
  <2>2. Merged(o) \in Configs
    BY <1>1 DEF Merged, Configs, Authors, Trees
  <2> QED
    BY <1>2, <1>4, <2>1, <2>2 DEF Trees, Prose
<1>5. CASE o = "apply" /\ Tip.block = "gone"
  <2>1. tree = [Ours EXCEPT !.task = "conflict"] /\ o \notin Notes /\ o \notin Edits
    BY <1>5, OpsAre DEF Outcomes
  <2> QED
    BY <1>2, <1>5, <2>1 DEF Trees, Prose
<1>6. CASE o = "apply" /\ Tip.block # "gone"
  <2>1. o \notin Notes /\ o \notin Edits
    BY <1>6, OpsAre
  <2>2. PICK b \in {Tip.block, "new"} :
          tree = [Ours EXCEPT !.rev = Tip.rev + 1, !.text = Len(branch) + 1, !.block = b,
                              !.task = "completed"]
    BY <1>2, <1>6, <2>1 DEF Outcomes
  <2>3. b \in Blocks
    BY <1>1 DEF Trees, Blocks
  <2> QED
    BY <1>1, <1>2, <1>6, <2>1, <2>2, <2>3 DEF Trees
<1> QED
  BY <1>3, <1>4, <1>5, <1>6, OpsAre
-----------------------------------------------------------------------------
(* Types.                                                                  *)

Passes == [pc : {"idle", "snapshot", "judge", "confirm", "rebuild", "anchor", "finish"},
           at : Nat, touched : BOOLEAN, listed : SUBSET Notes,
           leased : BOOLEAN, edited : BOOLEAN, settings : BOOLEAN]
NoteRows == [status : {"absent", "pending", "open", "needs_reanchor"},
             rev : Int, born : Int, target : Blocks]
Reasons == {"second", "handler", "redo", "released", "reset", "unhooked", "inflight", "claim"}

LEMMA Types ==
    ASSUME TypeOK
    PROVE  /\ pass \in Passes /\ note \in [Notes -> NoteRows] /\ blind \subseteq Reasons
           /\ project \in [stale : BOOLEAN, diverged : BOOLEAN]
           /\ chapter \in [rev : Int, text : Nat, block : Blocks]
           /\ item \in [status : {"ready", "leased", "submitted", "completed", "conflict"}, lease : BOOLEAN]
           /\ queue \subseteq Ops /\ landed \in [Ops -> Nat]
           /\ book \in [value : Configs, op : Edits \cup {None}]
BY DEF TypeOK, Passes, NoteRows, Reasons

LEMMA InitTyped == Init => TypeOK
<1> SUFFICES ASSUME Init
             PROVE  TypeOK
  OBVIOUS
<1>1. FirstTree \in Trees /\ FirstTree.config \in Configs
  BY DEF FirstTree, Trees, Configs, Authors, Blocks
<1>2. branch \in Seq(Trees) /\ Len(branch) \in 1..(MaxCommits + 1)
  BY <1>1, Bounds DEF Init
<1>3. Idle \in Passes /\ Resting \in [pc : {"idle", "landed", "hook"}, op : Ops \cup {None}]
  BY DEF Idle, Passes, Resting
<1>4. /\ project \in [stale : BOOLEAN, diverged : BOOLEAN]
      /\ chapter \in [rev : Int, text : Nat, block : Blocks]
      /\ item \in [status : {"ready", "leased", "submitted", "completed", "conflict"}, lease : BOOLEAN]
      /\ book \in [value : Configs, op : Edits \cup {None}]
      /\ note \in [Notes -> NoteRows]
      /\ edit \in [Edits -> [field : Fields \cup {None}, before : Configs \cup {None}]]
  BY <1>1 DEF Init, Blocks, NoteRows
<1>5. /\ form \in Configs \cup {None} /\ queue \subseteq Ops /\ landed \in [Ops -> Nat]
      /\ hook \in [1..(MaxCommits + 1) -> {"none", "sent", "asked", "done"}]
      /\ crashes \in 0..MaxCrashes /\ wrote \in Configs /\ blind \subseteq Reasons
  BY <1>1, Bounds DEF Init
<1> QED
  BY <1>2, <1>3, <1>4, <1>5 DEF Init, TypeOK, Passes, NoteRows, Reasons

LEMMA TouchSays ==
    ASSUME TypeOK, NEW seen \in BOOLEAN, Touch(seen)
    PROVE  /\ pass' \in Passes
           /\ pass'.pc = pass.pc /\ pass'.at = pass.at /\ pass'.listed = pass.listed
           /\ pass'.leased = pass.leased /\ pass'.edited = pass.edited /\ pass'.settings = pass.settings
           /\ pass.touched => pass'.touched
           /\ pass = Idle => pass' = Idle
<1>1. pass \in Passes
  BY Types
<1>2. CASE pass = Idle
  BY <1>1, <1>2 DEF Touch
<1>3. CASE pass # Idle
  <2>1. pass' = [pass EXCEPT !.touched = pass.touched \/ seen] /\ (pass.touched \/ seen) \in BOOLEAN
    BY <1>1, <1>3 DEF Touch, Passes
  <2> DEFINE b == pass.touched \/ seen
  <2>2. b \in BOOLEAN /\ pass' = [pass EXCEPT !.touched = b] /\ (pass.touched => b)
    BY <2>1
  <2> HIDE DEF b
  <2> QED
    BY <1>1, <1>3, <2>2 DEF Passes
<1> QED
  BY <1>2, <1>3

LEMMA PushTyped ==
    ASSUME TypeOK, NEW c \in Changes, NEW f \in Fields, Push(c, f)
    PROVE  TypeOK'
<1>1. /\ branch' \in Seq(Trees) /\ Len(branch') \in 1..(MaxCommits + 1)
      /\ hook' \in [1..(MaxCommits + 1) -> {"none", "sent", "asked", "done"}]
  BY ChangedTyped, ExtendSays DEF Push
<1>2. wrote' \in Configs
  BY DEF Push, TypeOK, Configs, Authors
<1> QED
  BY <1>1, <1>2 DEF Push, TypeOK, rows, ops, chain

LEMMA HookTyped ==
    ASSUME TypeOK, NEW k \in Commits,
           (\E seen \in BOOLEAN : MarkStale(k, seen)) \/ LoseHandler(k)
    PROVE  TypeOK'
<1>0. k \in 1..(MaxCommits + 1)
  BY Bounds DEF Commits, TypeOK
<1>1. ASSUME NEW seen \in BOOLEAN, MarkStale(k, seen)
      PROVE  TypeOK'
  <2>1. pass' \in Passes
    BY <1>1, TouchSays DEF MarkStale
  <2>2. hook' \in [1..(MaxCommits + 1) -> {"none", "sent", "asked", "done"}]
    BY <1>0, <1>1 DEF MarkStale, TypeOK
  <2>3. project' \in [stale : BOOLEAN, diverged : BOOLEAN]
    BY <1>1 DEF MarkStale, TypeOK
  <2>4. blind' \subseteq Reasons
    BY <1>1, Types DEF MarkStale, Reasons
  <2> QED
    BY <1>1, <2>1, <2>2, <2>3, <2>4 DEF MarkStale, TypeOK, rows, ops, Passes, Reasons
<1>2. CASE LoseHandler(k)
  <2>1. hook' \in [1..(MaxCommits + 1) -> {"none", "sent", "asked", "done"}]
    BY <1>0, <1>2 DEF LoseHandler, TypeOK
  <2>2. crashes' \in 0..MaxCrashes /\ blind' \subseteq Reasons
    BY <1>2, Types, Bounds DEF LoseHandler, TypeOK, Reasons
  <2> QED
    BY <1>2, <2>1, <2>2 DEF LoseHandler, TypeOK, rows, ops, chain, Reasons
<1> QED
  BY <1>1, <1>2

LEMMA ApiTyped ==
    ASSUME TypeOK, Api
    PROVE  TypeOK'
<1>1. ASSUME NEW n \in Notes, Annotate(n)
      PROVE  TypeOK'
  <2>1. note' \in [Notes -> NoteRows]
    BY <1>1, Types DEF Annotate, NoteRows
  <2>2. queue' \subseteq Ops
    BY <1>1, Types, OpsAre DEF Annotate
  <2> QED
    BY <1>1, <2>1, <2>2 DEF Annotate, TypeOK, git, chain, hist, NoteRows
<1>2. CASE Claim
  <2>1. blind' \subseteq Reasons
    BY <1>2, Types DEF Claim, Reasons
  <2> QED
    BY <1>2, <2>1 DEF Claim, TypeOK, git, ops, chain, Reasons
<1>3. CASE EndLease
  BY <1>3 DEF EndLease, TypeOK, git, ops, chain, hist
<1>4. CASE Submit
  <2>1. queue' \subseteq Ops
    BY <1>4, Types, OpsAre DEF Submit
  <2> QED
    BY <1>4, <2>1 DEF Submit, TypeOK, git, chain, hist
<1>5. CASE ReadSettings
  BY <1>5 DEF ReadSettings, TypeOK, git, rows, ops, chain, hist
<1>6. ASSUME NEW e \in Edits, NEW f \in Fields, SaveSettings(e, f)
      PROVE  TypeOK'
  <2>1. form \in Configs
    BY <1>6 DEF SaveSettings, TypeOK
  <2>2. [form EXCEPT ![f] = "maintainer"] \in Configs
    BY <2>1 DEF Configs, Authors
  <2>3. book' \in [value : Configs, op : Edits \cup {None}]
    BY <1>6, <2>2 DEF SaveSettings
  <2>4. edit' \in [Edits -> [field : Fields \cup {None}, before : Configs \cup {None}]]
    BY <1>6, <2>1 DEF SaveSettings, TypeOK
  <2>5. queue' \subseteq Ops
    BY <1>6, Types, OpsAre DEF SaveSettings
  <2> QED
    BY <1>6, <2>3, <2>4, <2>5 DEF SaveSettings, TypeOK, git, chain, hist
<1>7. ASSUME NEW seen \in BOOLEAN, Clear(seen)
      PROVE  TypeOK'
  <2>1. pass' \in Passes
    BY <1>7, TouchSays DEF Clear
  <2>2. project' \in [stale : BOOLEAN, diverged : BOOLEAN]
    BY <1>7 DEF Clear, TypeOK
  <2> QED
    BY <1>7, <2>1, <2>2 DEF Clear, TypeOK, git, rows, ops, hist, Passes
<1> QED
  BY <1>1, <1>2, <1>3, <1>4, <1>5, <1>6, <1>7 DEF Api

LEMMA IdleTyped == Idle \in Passes /\ Observe \in Passes /\ Observe.pc = "snapshot"
                   /\ Resting \in [pc : {"idle", "landed", "hook"}, op : Ops \cup {None}]
BY DEF Idle, Observe, Passes, Resting

LEMMA ReadTree ==
    ASSUME TypeOK, Chained, Reading
    PROVE  Tree \in Trees /\ pass.at \in Commits
BY CommitsTyped DEF Chained, Tree

\* Re-anchoring keeps a note's row a row.
LEMMA ReanchoredTyped ==
    ASSUME TypeOK, NEW n \in Notes, NEW block \in Blocks, NEW rev \in Int
    PROVE  Reanchored(n, block, rev) \in NoteRows
BY Types DEF Reanchored, NoteRows

LEMMA PassTyped ==
    ASSUME TypeOK, Chained, Refresh
    PROVE  TypeOK'
<1>1. ASSUME NEW k \in Commits, Requested(k)
      PROVE  TypeOK'
  <2>1. hook' \in [1..(MaxCommits + 1) -> {"none", "sent", "asked", "done"}]
    BY <1>1 DEF Requested, TypeOK
  <2> QED
    BY <1>1, <2>1, IdleTyped DEF Requested, TypeOK, rows, ops, hist, Passes
<1>2. CASE Alarm
  BY <1>2, IdleTyped DEF Alarm, TypeOK, git, rows, ops, hist, Passes
<1>3. CASE Snapshot
  <2>1. pass' \in Passes
    BY <1>3, Types, CommitsTyped DEF Snapshot, Passes
  <2> QED
    BY <1>3, <2>1 DEF Snapshot, TypeOK, git, rows, ops, hist, Passes
<1>4. CASE Judge
  <2>1. pass' \in Passes
    <3> DEFINE edited == Tree.text # chapter.text
               leased == item.lease
               listed == {n \in Notes : note[n].status \notin {"absent", "pending"}}
    <3>1. edited \in BOOLEAN /\ leased \in BOOLEAN /\ listed \in SUBSET Notes
      BY Types
    <3>2. \/ pass' = [pass EXCEPT !.pc = "confirm"]
          \/ pass' = [pass EXCEPT !.pc = "rebuild", !.edited = edited, !.leased = leased, !.listed = listed]
      BY <1>4 DEF Judge
    <3> HIDE DEF edited, leased, listed
    <3> QED
      BY <3>1, <3>2, Types DEF Passes
  <2> QED
    BY <1>4, <2>1 DEF Judge, TypeOK, git, rows, ops, hist, Passes
<1>5. CASE Confirm
  <2>1. project' \in [stale : BOOLEAN, diverged : BOOLEAN]
    BY <1>5 DEF Confirm, TypeOK
  <2> QED
    BY <1>5, <2>1, IdleTyped DEF Confirm, TypeOK, git, rows, ops, hist, Passes
<1>6. CASE Rebuild
  <2>1. Tree \in Trees
    BY <1>6, ReadTree DEF Rebuild, Reading
  <2>2. chapter' \in [rev : Int, text : Nat, block : Blocks]
    BY <1>6, <2>1 DEF Rebuild, Trees
  <2>3. note' \in [Notes -> NoteRows]
    <3>1. \A n \in Notes : Restored(n, Tree) \in NoteRows /\ [note[n] EXCEPT !.status = "absent"] \in NoteRows
                           /\ note[n] \in NoteRows
      BY Types DEF Restored, NoteRows
    <3> QED
      BY <1>6, <3>1 DEF Rebuild
  <2>4. item' \in [status : {"ready", "leased", "submitted", "completed", "conflict"}, lease : BOOLEAN]
    <3>1. RestoredStatus(Tree) \in {"ready", "leased", "submitted", "completed", "conflict"}
      BY <2>1 DEF RestoredStatus, Trees
    <3> QED
      BY <1>6, <3>1, Types DEF Rebuild
  <2>5. blind' \subseteq Reasons
    BY <1>6, Types DEF Rebuild, Reasons
  <2>6. pass' \in Passes
    BY <1>6, Types DEF Rebuild, Passes
  <2> QED
    BY <1>6, <2>2, <2>3, <2>4, <2>5, <2>6 DEF Rebuild, TypeOK, git, ops, Passes, NoteRows, Reasons
<1>7. CASE Reanchor
  <2>1. Tree \in Trees
    BY <1>7, ReadTree DEF Reanchor, Reading
  <2>2. note' \in [Notes -> NoteRows]
    <3>1. Tree.block \in Blocks /\ Tree.rev \in Int
      BY <2>1 DEF Trees
    <3>2. \A n \in Notes : Reanchored(n, Tree.block, Tree.rev) \in NoteRows /\ note[n] \in NoteRows
      BY <3>1, ReanchoredTyped, Types
    <3> QED
      BY <1>7, <3>2 DEF Reanchor
  <2>3. pass' \in Passes
    <3> DEFINE settings == book.op = None
    <3>1. settings \in BOOLEAN /\ pass' = [pass EXCEPT !.pc = "finish", !.edited = FALSE, !.settings = settings]
      BY <1>7 DEF Reanchor
    <3> HIDE DEF settings
    <3> QED
      BY <3>1, Types DEF Passes
  <2> QED
    BY <1>7, <2>2, <2>3 DEF Reanchor, TypeOK, git, ops, hist, Passes, NoteRows
<1>8. CASE Finish
  <2>1. Tree.config \in Configs
    BY <1>8, ReadTree DEF Finish, Reading, Trees
  <2>2. book' \in [value : Configs, op : Edits \cup {None}]
    BY <1>8, <2>1, Types DEF Finish
  <2>3. project' \in [stale : BOOLEAN, diverged : BOOLEAN]
    <3>1. StillStale \in BOOLEAN
      BY Types DEF StillStale, Passes
    <3> QED
      BY <1>8, <3>1, Types DEF Finish
  <2> QED
    BY <1>8, <2>2, <2>3, IdleTyped DEF Finish, TypeOK, git, ops, hist, Passes
<1> QED
  BY <1>1, <1>2, <1>3, <1>4, <1>5, <1>6, <1>7, <1>8 DEF Refresh, Commits

\* What a drain has in hand.
LEMMA InHand ==
    ASSUME TypeOK, Chained, Recorded, drain.pc = "landed"
    PROVE  /\ drain.op \in Ops /\ drain.op \in queue /\ landed[drain.op] \in Commits
           /\ branch[landed[drain.op]] \in Trees
<1>1. drain.op \in queue /\ landed[drain.op] # 0 /\ drain.op \in Ops
  BY Types DEF Chained
<1>2. landed[drain.op] \in Commits
  BY <1>1, Types, CommitsTyped DEF Recorded, Commits
<1> QED
  BY <1>1, <1>2, CommitsTyped

LEMMA DrainTyped ==
    ASSUME TypeOK, Chained, Recorded, Settled, Drain
    PROVE  TypeOK'
<1>1. ASSUME NEW o \in Ops, Commit(o)
      PROVE  TypeOK'
  <2>1. PICK tree \in Outcomes(o) : Extend(tree)
    BY <1>1 DEF Commit
  <2>2. /\ branch' \in Seq(Trees) /\ Len(branch') \in 1..(MaxCommits + 1)
        /\ hook' \in [1..(MaxCommits + 1) -> {"none", "sent", "asked", "done"}]
    BY <2>1, OutcomesTyped, ExtendSays
  <2>3. landed' \in [Ops -> Nat]
    BY <1>1, Types, CommitsTyped DEF Commit
  <2>4. wrote' \in Configs
    <3>1. wrote \in Configs
      BY DEF TypeOK
    <3> QED
      BY <1>1, <3>1 DEF Commit, Configs, Authors
  <2>5. drain' \in [pc : {"idle", "landed", "hook"}, op : Ops \cup {None}]
    BY <1>1 DEF Commit
  <2> QED
    BY <1>1, <2>2, <2>3, <2>4, <2>5 DEF Commit, TypeOK, rows
<1>2. ASSUME NEW o \in Ops, Recover(o)
      PROVE  TypeOK'
  <2>1. blind' \subseteq Reasons
    BY <1>2, Types DEF Recover, Reasons
  <2> QED
    BY <1>2, <2>1 DEF Recover, TypeOK, git, rows, ops, Reasons
<1>3. ASSUME NEW o \in Ops, Fail(o)
      PROVE  TypeOK'
  <2>1. book' \in [value : Configs, op : Edits \cup {None}]
    <3>1. o \in Edits /\ book.op = o => edit[o].before \in Configs
      BY OpsAre DEF Settled
    <3> QED
      BY <1>3, <3>1, Types DEF Fail, Released
  <2>2. item' \in [status : {"ready", "leased", "submitted", "completed", "conflict"}, lease : BOOLEAN]
    BY <1>3, Types DEF Fail
  <2>3. blind' \subseteq Reasons /\ queue' \subseteq Ops
    BY <1>3, Types DEF Fail, Reasons
  <2> QED
    BY <1>3, <2>1, <2>2, <2>3 DEF Fail, TypeOK, git, chain, Reasons
<1>4. CASE Finalize
  <2>1. /\ drain.op \in Ops /\ branch[landed[drain.op]] \in Trees
    BY <1>4, InHand DEF Finalize
  <2>2. note' \in [Notes -> NoteRows]
    BY <1>4, Types DEF Finalize, NoteRows
  <2>3. book' \in [value : Configs, op : Edits \cup {None}]
    BY <1>4, Types DEF Finalize
  <2>4. item' \in [status : {"ready", "leased", "submitted", "completed", "conflict"}, lease : BOOLEAN]
    BY <1>4, <2>1, Types DEF Finalize, Trees
  <2>5. chapter' \in [rev : Int, text : Nat, block : Blocks]
    BY <1>4, <2>1, Types DEF Finalize, Trees
  <2>6. queue' \subseteq Ops /\ drain' \in [pc : {"idle", "landed", "hook"}, op : Ops \cup {None}]
    BY <1>4, Types DEF Finalize, TypeOK
  <2> QED
    BY <1>4, <2>2, <2>3, <2>4, <2>5, <2>6 DEF Finalize, TypeOK, git, hist, NoteRows
<1>5. CASE AfterDrain
  <2>1. note' \in [Notes -> NoteRows]
    <3>1. chapter.block \in Blocks /\ chapter.rev \in Int
      BY Types
    <3>2. \A n \in Notes : Reanchored(n, chapter.block, chapter.rev) \in NoteRows /\ note[n] \in NoteRows
      BY <3>1, ReanchoredTyped, Types
    <3> QED
      BY <1>5, <3>2 DEF AfterDrain
  <2> QED
    BY <1>5, <2>1, IdleTyped DEF AfterDrain, TypeOK, git, ops, hist, NoteRows
<1> QED
  BY <1>1, <1>2, <1>3, <1>4, <1>5 DEF Drain

LEMMA CrashTyped ==
    ASSUME TypeOK, Crash
    PROVE  TypeOK'
<1>1. crashes' \in 0..MaxCrashes /\ blind' \subseteq Reasons
  BY Types, Bounds DEF Crash, TypeOK, Reasons
<1> QED
  BY <1>1, IdleTyped DEF Crash, TypeOK, git, rows, ops, Passes, Reasons
-----------------------------------------------------------------------------
(* What the kinds of step leave alone.                                     *)

Beside == Webhook \/ Api

\* A pass as it was, but for its touched bit.
SamePass ==
    /\ pass'.pc = pass.pc /\ pass'.at = pass.at /\ pass'.listed = pass.listed
    /\ pass'.leased = pass.leased /\ pass'.edited = pass.edited /\ pass'.settings = pass.settings
    /\ pass.touched => pass'.touched
    /\ pass = Idle => pass' = Idle

\* Deliveries and API commands run beside the chain and commit nothing.
LEMMA BesideSays ==
    ASSUME TypeOK, Beside
    PROVE  /\ SamePass
           /\ UNCHANGED <<branch, chapter, landed, drain, wrote>>
           /\ queue \subseteq queue'
<1>1. ASSUME NEW k, NEW seen \in BOOLEAN, MarkStale(k, seen)
      PROVE  SamePass /\ UNCHANGED <<branch, chapter, landed, drain, wrote, queue>>
  BY <1>1, TouchSays DEF MarkStale, SamePass, rows, ops
<1>2. ASSUME NEW k, LoseHandler(k)
      PROVE  SamePass /\ UNCHANGED <<branch, chapter, landed, drain, wrote, queue>>
  BY <1>2 DEF LoseHandler, SamePass, rows, ops, chain
<1>3. ASSUME NEW seen \in BOOLEAN, Clear(seen)
      PROVE  SamePass /\ UNCHANGED <<branch, chapter, landed, drain, wrote, queue>>
  BY <1>3, TouchSays DEF Clear, SamePass, git, rows, ops, hist
<1>4. ASSUME \/ \E n \in Notes : Annotate(n)
             \/ Claim \/ EndLease \/ Submit \/ ReadSettings
             \/ \E e \in Edits, f \in Fields : SaveSettings(e, f)
      PROVE  UNCHANGED <<pass, branch, chapter, landed, drain, wrote>> /\ queue \subseteq queue'
  BY <1>4 DEF Annotate, Claim, EndLease, Submit, ReadSettings, SaveSettings, git, rows, ops, chain, hist
<1> QED
  BY <1>1, <1>2, <1>3, <1>4 DEF Beside, Webhook, Api, SamePass

\* A pass commits nothing, and runs while no drain does.
LEMMA RefreshSays ==
    ASSUME TypeOK, Chained, Refresh
    PROVE  /\ UNCHANGED <<branch, landed, drain, wrote, queue, edit, form>>
           /\ drain = Resting /\ drain.pc = "idle"
<1>1. UNCHANGED <<branch, landed, drain, wrote, queue, edit, form>>
  BY DEF Refresh, Requested, Alarm, Snapshot, Judge, Confirm, Rebuild, Reanchor, Finish,
         git, rows, ops, hist
<1>2. drain = Resting
  BY DEF Refresh, Requested, Alarm, Snapshot, Judge, Confirm, Rebuild, Reanchor, Finish,
         Turn, Free, Chained, Idle
<1> QED
  BY <1>1, <1>2 DEF Resting

\* A drain runs while no pass does.
LEMMA DrainSays ==
    ASSUME TypeOK, Chained, Drain
    PROVE  /\ pass = Idle /\ pass' = Idle /\ ~Reading /\ ~Reading'
           /\ UNCHANGED <<project, form, edit>>
<1>1. pass = Idle
  BY DEF Drain, Commit, Recover, Fail, Finalize, AfterDrain, Turn, Free, Chained, Resting
<1>2. UNCHANGED <<pass, project, form, edit>>
  BY DEF Drain, Commit, Recover, Fail, Finalize, AfterDrain, git, rows, ops, chain
<1> QED
  BY <1>1, <1>2 DEF Idle, Reading

\* A crash ends whatever ran, and loses no row.
LEMMA CrashSays ==
    ASSUME Crash
    PROVE  /\ pass' = Idle /\ drain' = Resting /\ ~Reading' /\ drain'.pc = "idle"
           /\ UNCHANGED <<branch, hook, project, chapter, note, item, book, form, edit, queue, landed, wrote>>
           /\ blind' = IF drain # Resting THEN blind \cup {"unhooked"} ELSE blind
BY DEF Crash, git, rows, ops, Idle, Resting, Reading

\* A push changes the branch and who wrote what.
LEMMA PushSays ==
    ASSUME TypeOK, NEW c \in Changes, NEW f \in Fields, Push(c, f)
    PROVE  /\ Grows(Changed(c, f)) /\ Commits \subseteq Commits'
           /\ UNCHANGED <<project, chapter, note, item, book, form, edit, queue, landed, pass, drain,
                          crashes, blind>>
<1>1. Grows(Changed(c, f))
  BY ChangedTyped, ExtendSays DEF Push
<1> QED
  BY <1>1 DEF Push, Grows, rows, ops, chain

\* A drain's commit.
LEMMA CommitSays ==
    ASSUME TypeOK, NEW o \in Ops, Commit(o)
    PROVE  \E tree \in Outcomes(o) :
             /\ tree \in Trees /\ Grows(tree) /\ Commits \subseteq Commits'
             /\ landed[o] = 0 /\ landed'[o] = Len(branch) + 1
             /\ \A p \in Ops : p # o => landed'[p] = landed[p]
<1>1. PICK tree \in Outcomes(o) : Extend(tree)
  BY DEF Commit
<1>2. tree \in Trees /\ Grows(tree)
  BY <1>1, OutcomesTyped, ExtendSays
<1>3. landed \in [Ops -> Nat] /\ landed' = [landed EXCEPT ![o] = Len(branch) + 1] /\ landed[o] = 0
  BY Types DEF Commit
<1> QED
  BY <1>2, <1>3 DEF Grows

-----------------------------------------------------------------------------
(* One pass or one drain.                                                  *)

LEMMA ChainedStays ==
    ASSUME TypeOK, Chained, Recorded, Next
    PROVE  Chained'
<1>0. landed \in [Ops -> Nat] /\ pass \in Passes /\ Len(branch) \in Commits /\ Len(branch) \in Nat
  BY Types, CommitsTyped
<1>1. ASSUME NEW c \in Changes, NEW f \in Fields, Push(c, f)
      PROVE  Chained'
  BY <1>1, PushSays DEF Chained, Reading
<1>2. CASE Beside
  <2>1. /\ SamePass /\ UNCHANGED <<branch, landed, drain>> /\ queue \subseteq queue'
    BY <1>2, BesideSays
  <2> QED
    BY <2>1 DEF Chained, SamePass, Reading, Commits, Idle
<1>3. CASE Refresh
  <2>1. UNCHANGED <<branch, landed, drain, queue>> /\ drain = Resting /\ drain.pc = "idle"
    BY <1>3, RefreshSays
  <2>2. CASE \/ \E k \in Commits : Requested(k)
             \/ Alarm
    <3>1. pass' = Observe
      BY <2>2 DEF Requested, Alarm
    <3> QED
      BY <2>1, <3>1, IdleTyped DEF Chained, Reading
  <2>3. CASE Snapshot
    <3>1. pass' = [pass EXCEPT !.pc = "judge", !.at = Len(branch)]
      BY <2>3 DEF Snapshot
    <3>2. pass'.pc = "judge" /\ pass'.at = Len(branch)
      BY <3>1, <1>0 DEF Passes
    <3>3. Commits' = Commits /\ \A o \in Ops : landed'[o] <= Len(branch)
      BY <2>1 DEF Recorded, Commits
    <3> QED
      BY <2>1, <3>2, <3>3, <1>0 DEF Chained, Reading
  <2>4. CASE Judge \/ Rebuild \/ Reanchor
    <3>1. Reading /\ pass'.at = pass.at /\ pass'.pc # "idle"
      BY <2>4, <1>0 DEF Judge, Rebuild, Reanchor, Passes, Reading
    <3>2. pass.at \in Commits /\ \A o \in Ops : landed[o] <= pass.at
      BY <3>1 DEF Chained
    <3>3. pass'.at \in Commits' /\ \A o \in Ops : landed'[o] <= pass'.at
      BY <3>1, <3>2, <2>1 DEF Commits
    <3> QED
      BY <2>1, <3>1, <3>3 DEF Chained
  <2>5. CASE Confirm \/ Finish
    <3>1. pass' = Idle
      BY <2>5 DEF Confirm, Finish
    <3> QED
      BY <2>1, <3>1 DEF Chained, Reading, Idle
  <2> QED
    BY <1>3, <2>2, <2>3, <2>4, <2>5 DEF Refresh, Commits
<1>4. CASE Drain
  <2>1. pass' = Idle /\ ~Reading'
    BY <1>4, DrainSays
  <2>2. ASSUME NEW o \in Ops, Commit(o) \/ Recover(o) \/ Fail(o)
        PROVE  Chained'
    <3>1. CASE Commit(o)
      <4>1. landed'[o] # 0 /\ drain' = [pc |-> "landed", op |-> o] /\ o \in queue /\ queue' = queue
        BY <3>1, <1>0, CommitSays DEF Commit
      <4> QED
        BY <2>1, <4>1 DEF Chained
    <3>2. CASE Recover(o)
      BY <2>1, <3>2 DEF Recover, Chained, ops
    <3>3. CASE Fail(o)
      <4>1. drain' = Resting
        BY <3>3 DEF Fail, chain, Turn, Free
      <4> QED
        BY <2>1, <4>1 DEF Chained, Resting
    <3> QED
      BY <2>2, <3>1, <3>2, <3>3
  <2>3. CASE Finalize
    <3>1. drain'.pc = "hook"
      BY <2>3 DEF Finalize, TypeOK
    <3> QED
      BY <2>1, <3>1 DEF Chained
  <2>4. CASE AfterDrain
    BY <2>1, <2>4 DEF AfterDrain, Chained, Resting
  <2> QED
    BY <1>4, <2>2, <2>3, <2>4 DEF Drain
<1>5. CASE Crash
  BY <1>5, CrashSays DEF Chained
<1> QED
  BY <1>1, <1>2, <1>3, <1>4, <1>5 DEF Next, Author, Beside

-----------------------------------------------------------------------------
(* The trees hold what has landed.                                         *)

LEMMA RecordedStays ==
    ASSUME TypeOK, Chained, Recorded, Next
    PROVE  Recorded'
<1>0. /\ landed \in [Ops -> Nat] /\ Len(branch) \in Commits /\ Len(branch) \in Nat
      /\ Tip = branch[Len(branch)]
  BY Types, CommitsTyped DEF Tip
<1>1. ASSUME NEW c \in Changes, NEW f \in Fields, Push(c, f)
      PROVE  Recorded'
  <2>1. /\ Grows(Changed(c, f)) /\ landed' = landed
        /\ Changed(c, f).files = Tip.files /\ Changed(c, f).task = Tip.task
    BY <1>1, PushSays, ChangedTyped
  <2> DEFINE tree == Changed(c, f)  len == Len(branch)
  <2>2. /\ Len(branch') = len + 1 /\ branch'[len + 1] = tree /\ Commits' = Commits \cup {len + 1}
        /\ \A k \in Commits : branch'[k] = branch[k]
        /\ tree.files = branch[len].files /\ tree.task = branch[len].task
    BY <2>1, <1>0 DEF Grows
  <2> HIDE DEF tree
  <2>3. \A o \in Ops : landed'[o] \in Nat /\ landed'[o] <= len
    BY <2>1, <1>0 DEF Recorded
  <2>4. \A o \in Ops : landed'[o] <= Len(branch')
    BY <2>2, <2>3, <1>0
  <2>5. \A o \in Ops : landed'[o] \in 1..(len + 1) <=> landed[o] \in 1..len
    BY <2>1, <2>3, <1>0
  <2>6. \A n \in Notes, k \in Commits' : n \in branch'[k].files <=> landed'[n] \in 1..k
    BY <2>1, <2>2, <2>5, <1>0, OpsAre DEF Recorded
  <2>7. \A k \in Commits' : branch'[k].task = "ready" <=> landed'["apply"] \notin 1..k
    BY <2>1, <2>2, <2>5, <1>0, OpsAre DEF Recorded
  <2> QED
    BY <2>4, <2>6, <2>7 DEF Recorded
<1>2. CASE \/ Beside \/ Refresh \/ Crash \/ Finalize \/ AfterDrain
           \/ \E o \in Ops : Recover(o) \/ Fail(o)
  <2>1. UNCHANGED <<branch, landed>>
    BY <1>2, BesideSays, RefreshSays, CrashSays DEF Finalize, AfterDrain, Recover, Fail, git, ops
  <2> QED
    BY <2>1 DEF Recorded, Commits
<1>3. ASSUME NEW o \in Ops, Commit(o)
      PROVE  Recorded'
  <2>1. PICK tree \in Outcomes(o) :
          /\ tree \in Trees /\ Grows(tree)
          /\ landed[o] = 0 /\ landed'[o] = Len(branch) + 1
          /\ \A p \in Ops : p # o => landed'[p] = landed[p]
    BY <1>3, CommitSays
  <2> DEFINE len == Len(branch)
  <2>2. /\ Len(branch') = len + 1 /\ branch'[len + 1] = tree /\ Commits' = Commits \cup {len + 1}
        /\ \A k \in Commits : branch'[k] = branch[k] /\ k \in Nat /\ k <= len
    BY <2>1, <1>0 DEF Grows, Commits
  <2>3. /\ tree.files = IF o \in Notes THEN branch[len].files \cup {o} ELSE branch[len].files
        /\ tree.task = "ready" <=> o # "apply" /\ branch[len].task = "ready"
    <3>1. tree.files = IF o \in Notes THEN Tip.files \cup {o} ELSE Tip.files
      BY <2>1, OutcomesTyped
    <3>2. o # "apply" => tree.task = Tip.task
      BY <2>1, OutcomesTyped
    <3>3. o = "apply" => tree.task # "ready"
      BY <2>1, OutcomesTyped
    <3> QED
      BY <1>0, <3>1, <3>2, <3>3
  <2>4. \A p \in Ops : landed'[p] \in Nat /\ landed'[p] <= len + 1 /\ landed[p] \in Nat /\ landed[p] <= len
    BY <2>1, <1>0 DEF Recorded
  <2>5. \A p \in Ops, k \in Commits : landed'[p] \in 1..k <=> landed[p] \in 1..k
    BY <2>1, <2>2, <2>4, <1>0
  <2>6. \A p \in Ops : landed'[p] \in 1..(len + 1) <=> p = o \/ landed[p] \in 1..len
    BY <2>1, <2>4, <1>0
  <2>7. \A n \in Notes, k \in Commits' : n \in branch'[k].files <=> landed'[n] \in 1..k
    BY <2>2, <2>3, <2>5, <2>6, <1>0, OpsAre DEF Recorded
  <2>8. \A k \in Commits' : branch'[k].task = "ready" <=> landed'["apply"] \notin 1..k
    BY <2>2, <2>3, <2>5, <2>6, <1>0, OpsAre DEF Recorded
  <2> QED
    BY <2>2, <2>4, <2>7, <2>8 DEF Recorded
<1> QED
  BY <1>1, <1>2, <1>3 DEF Next, Author, Beside, Drain
-----------------------------------------------------------------------------
(* Notes and their operations.                                             *)

\* One note, wherever its row, its operation and the pass have got to.
Traced(n) ==
    /\ n \in queue \/ landed[n] # 0 => note[n].status # "absent"
    /\ note[n].status = "pending" => n \in queue
    /\ note[n].status \in {"open", "needs_reanchor"} \/ n \in pass.listed => landed[n] # 0

\* A note whose row and operation a step leaves alone.
LEMMA TracedStays ==
    ASSUME NEW n \in Notes, Traced(n),
           note'[n].status = note[n].status, landed'[n] = landed[n], n \in queue' <=> n \in queue,
           pass'.listed \subseteq pass.listed
    PROVE  Traced(n)'
BY DEF Traced

LEMMA AcceptedStays ==
    ASSUME TypeOK, Chained, Recorded, Accepted, Next
    PROVE  Accepted'
<1>1. \A n \in Notes : Traced(n) /\ n \in Ops /\ n # "apply" /\ n \notin Edits
  BY OpsAre DEF Accepted, Traced
<1>2. Idle.listed = {} /\ Observe.listed = {}
  BY DEF Idle, Observe
<1> SUFFICES ASSUME NEW n \in Notes
             PROVE  Traced(n)'
  BY DEF Accepted, Traced
<1>3. Traced(n) /\ n \in Ops /\ n # "apply" /\ n \notin Edits
  BY <1>1
<1>4. note \in [Notes -> NoteRows] /\ landed \in [Ops -> Nat] /\ pass \in Passes
  BY Types
<1>5. ASSUME NEW c \in Changes, NEW f \in Fields, Push(c, f)
      PROVE  Traced(n)'
  BY <1>3, <1>5, PushSays, TracedStays
<1>6. CASE Beside
  <2>1. SamePass /\ landed' = landed
    BY <1>6, BesideSays
  <2>2. ASSUME NEW m \in Notes, Annotate(m)
        PROVE  Traced(n)'
    <3>1. CASE n = m
      <4>1. note'[n].status = "pending" /\ n \in queue' /\ landed[n] = 0 /\ note[n].status = "absent"
        BY <2>2, <3>1, <1>4 DEF Annotate
      <4> QED
        BY <2>1, <4>1, <1>3 DEF Traced, SamePass
    <3>2. CASE n # m
      <4>1. note'[n] = note[n] /\ (n \in queue' <=> n \in queue)
        BY <2>2, <3>2, <1>4 DEF Annotate
      <4> QED
        BY <2>1, <4>1, <1>3, TracedStays DEF SamePass
    <3> QED
      BY <3>1, <3>2
  <2>3. ASSUME ~ \E m \in Notes : Annotate(m)
        PROVE  Traced(n)'
    <3>1. note' = note /\ (n \in queue' <=> n \in queue)
      BY <1>3, <1>6, <2>3 DEF Beside, Webhook, Api, MarkStale, LoseHandler, Claim, EndLease, Submit,
            ReadSettings, SaveSettings, Clear, rows, ops
    <3> QED
      BY <1>3, <2>1, <3>1, TracedStays DEF SamePass
  <2> QED
    BY <2>2, <2>3
<1>7. CASE Refresh
  <2>1. queue' = queue /\ landed' = landed
    BY <1>7, RefreshSays
  <2>2. CASE \/ \E k \in Commits : Requested(k)
             \/ Alarm \/ Confirm \/ Finish
    <3>1. note' = note /\ (pass' = Observe \/ pass' = Idle)
      BY <2>2 DEF Requested, Alarm, Confirm, Finish, rows
    <3> QED
      BY <1>2, <1>3, <2>1, <3>1, TracedStays
  <2>3. CASE Snapshot
    <3>1. note' = note /\ pass'.listed = pass.listed
      BY <1>4, <2>3 DEF Snapshot, rows, Passes
    <3> QED
      BY <1>3, <2>1, <3>1, TracedStays
  <2>4. CASE Judge
    <3>1. note' = note
      BY <2>4 DEF Judge, rows
    <3>2. \/ pass'.listed = pass.listed
          \/ pass'.listed = {m \in Notes : note[m].status \notin {"absent", "pending"}}
      BY <1>4, <2>4 DEF Judge, Passes
    <3>3. CASE pass'.listed = pass.listed
      BY <1>3, <2>1, <3>1, <3>3, TracedStays
    <3>4. CASE pass'.listed = {m \in Notes : note[m].status \notin {"absent", "pending"}}
      <4>1. n \in pass'.listed => note[n].status \in {"open", "needs_reanchor"}
        BY <3>4, <1>4 DEF NoteRows
      <4> QED
        BY <1>3, <2>1, <3>1, <4>1 DEF Traced
    <3> QED
      BY <3>2, <3>3, <3>4
  <2>5. CASE Rebuild
    <3>1. pass.at \in Commits /\ landed[n] <= pass.at /\ landed[n] \in Nat /\ pass.at \in Nat
      BY <1>3, <1>4, <2>5, CommitsTyped DEF Rebuild, Chained, Reading
    <3>2. n \in Tree.files <=> landed[n] # 0
      BY <3>1 DEF Recorded, Tree
    <3>3. pass'.listed = {}
      BY <1>4, <2>5 DEF Rebuild, Passes
    <3>4. CASE n \in Tree.files
      <4>1. note'[n].status = "open"
        BY <1>4, <2>5, <3>4 DEF Rebuild, Restored, NoteRows
      <4> QED
        BY <2>1, <3>2, <3>3, <3>4, <4>1 DEF Traced
    <3>5. CASE n \notin Tree.files
      <4>1. n \notin pass.listed
        BY <1>3, <3>2, <3>5 DEF Traced
      <4>2. note'[n] = note[n]
        BY <2>5, <3>5, <4>1 DEF Rebuild
      <4> QED
        BY <1>3, <2>1, <3>3, <4>2, TracedStays
    <3> QED
      BY <3>4, <3>5
  <2>6. CASE Reanchor
    <3>1. pass'.listed = pass.listed
      BY <1>4, <2>6 DEF Reanchor, Passes
    <3>2. \/ note'[n].status = note[n].status
          \/ note[n].status = "open" /\ note'[n].status = "needs_reanchor"
      BY <1>4, <2>6 DEF Reanchor, Reanchored, NoteRows
    <3> QED
      BY <1>3, <2>1, <3>1, <3>2 DEF Traced
  <2> QED
    BY <1>7, <2>2, <2>3, <2>4, <2>5, <2>6 DEF Refresh, Commits
<1>8. CASE Drain
  <2>1. pass' = pass
    BY <1>8, DrainSays
  <2>2. ASSUME NEW o \in Ops, Commit(o)
        PROVE  Traced(n)'
    <3>1. note' = note /\ queue' = queue /\ o \in queue
      BY <2>2 DEF Commit, rows
    <3>2. /\ landed'[o] = Len(branch) + 1 /\ Len(branch) \in Nat
          /\ n # o => landed'[n] = landed[n]
      BY <1>3, <2>2, CommitSays, CommitsTyped
    <3> QED
      BY <1>3, <2>1, <3>1, <3>2 DEF Traced
  <2>3. ASSUME NEW o \in Ops, Recover(o) \/ Fail(o)
        PROVE  Traced(n)'
    <3>1. note' = note /\ landed' = landed /\ (n \in queue' <=> n \in queue)
      BY <2>3 DEF Recover, Fail, rows, ops
    <3> QED
      BY <1>3, <2>1, <3>1, TracedStays
  <2>4. CASE Finalize
    <3>1. /\ queue' = queue \ {drain.op} /\ landed' = landed
          /\ note' = IF drain.op \in Notes THEN [note EXCEPT ![drain.op].status = "open"] ELSE note
          /\ landed[drain.op] # 0
      BY <2>4 DEF Finalize, Chained
    <3>2. CASE n = drain.op
      <4>1. note'[n].status = "open"
        BY <1>4, <3>1, <3>2 DEF NoteRows
      <4> QED
        BY <1>3, <2>1, <3>1, <3>2, <4>1 DEF Traced
    <3>3. CASE n # drain.op
      <4>1. note'[n] = note[n] /\ (n \in queue' <=> n \in queue)
        BY <1>4, <3>1, <3>3
      <4> QED
        BY <1>3, <2>1, <3>1, <4>1, TracedStays
    <3> QED
      BY <3>2, <3>3
  <2>5. CASE AfterDrain
    <3>1. queue' = queue /\ landed' = landed
      BY <2>5 DEF AfterDrain, ops
    <3>2. \/ note'[n].status = note[n].status
          \/ note[n].status = "open" /\ note'[n].status = "needs_reanchor"
      BY <1>4, <2>5 DEF AfterDrain, Owed, Reanchored, NoteRows
    <3> QED
      BY <1>3, <2>1, <3>1, <3>2 DEF Traced
  <2> QED
    BY <1>8, <2>2, <2>3, <2>4, <2>5 DEF Drain
<1>9. CASE Crash
  BY <1>2, <1>3, <1>9, CrashSays, TracedStays
<1> QED
  BY <1>5, <1>6, <1>7, <1>8, <1>9 DEF Next, Author, Beside

-----------------------------------------------------------------------------
(* The settings row.                                                       *)

\* The operation the row waits for is queued, and the row shows its change.
Owned ==
    book.op # None =>
         /\ book.op \in queue /\ book.op \in Edits
         /\ edit[book.op].field \in Fields /\ edit[book.op].before \in Configs
         /\ edit[book.op].before[edit[book.op].field] # "maintainer"
         /\ book.value = [edit[book.op].before EXCEPT ![edit[book.op].field] = "maintainer"]

LEMMA OwnedStays ==
    ASSUME TypeOK, Chained, Owned, Next
    PROVE  Owned'
<1>0. book \in [value : Configs, op : Edits \cup {None}] /\ None \notin Edits
  BY Types, OpsAre
<1>1. ASSUME NEW c \in Changes, NEW f \in Fields, Push(c, f)
      PROVE  Owned'
  BY <1>1, PushSays DEF Owned
<1>2. CASE Beside
  <2>1. ASSUME NEW e \in Edits, NEW f \in Fields, SaveSettings(e, f)
        PROVE  Owned'
    <3>1. /\ form \in Configs /\ form[f] # "maintainer"
          /\ book' = [value |-> [form EXCEPT ![f] = "maintainer"], op |-> e]
          /\ e \in queue'
      BY <2>1 DEF SaveSettings, TypeOK
    <3>2. edit'[e] = [field |-> f, before |-> form]
      BY <2>1 DEF SaveSettings, TypeOK
    <3>3. edit'[e].field = f /\ edit'[e].before = form
      BY <3>2
    <3>4. book'.op = e /\ book'.value = [form EXCEPT ![f] = "maintainer"]
      BY <3>1
    <3> QED
      BY <3>1, <3>3, <3>4 DEF Owned
  <2>2. ASSUME ~ \E e \in Edits, f \in Fields : SaveSettings(e, f)
        PROVE  Owned'
    <3>1. UNCHANGED <<book, edit>>
      BY <1>2, <2>2 DEF Beside, Webhook, Api, MarkStale, LoseHandler, Annotate, Claim, EndLease,
            Submit, ReadSettings, Clear, rows, ops
    <3>2. queue \subseteq queue'
      BY <1>2, BesideSays
    <3> QED
      BY <3>1, <3>2 DEF Owned
  <2> QED
    BY <2>1, <2>2
<1>3. CASE Refresh
  <2>1. UNCHANGED <<queue, edit>> /\ (book' = book \/ book'.op = None)
    BY <1>3, RefreshSays DEF Refresh, Requested, Alarm, Snapshot, Judge, Confirm, Rebuild, Reanchor,
          Finish, rows
  <2> QED
    BY <2>1 DEF Owned
<1>4. CASE Drain
  <2>1. edit' = edit
    BY <1>4, DrainSays
  <2>2. ASSUME NEW o \in Ops, Commit(o) \/ Recover(o)
        PROVE  Owned'
    <3>1. UNCHANGED <<book, queue>>
      BY <2>2 DEF Commit, Recover, rows, ops
    <3> QED
      BY <2>1, <3>1 DEF Owned
  <2>3. ASSUME NEW o \in Ops, Fail(o)
        PROVE  Owned'
    <3>1. /\ queue' = queue \ {o}
          /\ book' = IF o \in Edits THEN Released(o) ELSE book
      BY <2>3 DEF Fail
    <3>2. book'.op = None \/ (book' = book /\ book.op # o)
      BY <1>0, <3>1 DEF Released, Owned
    <3> QED
      BY <2>1, <3>1, <3>2 DEF Owned
  <2>4. CASE Finalize
    <3>1. /\ queue' = queue \ {drain.op}
          /\ book' = IF book.op = drain.op THEN [book EXCEPT !.op = None] ELSE book
      BY <2>4 DEF Finalize
    <3>2. book'.op = None \/ (book' = book /\ book.op # drain.op)
      BY <1>0, <3>1
    <3> QED
      BY <2>1, <3>1, <3>2 DEF Owned
  <2>5. CASE AfterDrain
    BY <2>1, <2>5 DEF AfterDrain, Owned, ops
  <2> QED
    BY <1>4, <2>2, <2>3, <2>4, <2>5 DEF Drain
<1>5. CASE Crash
  BY <1>5, CrashSays DEF Owned
<1> QED
  BY <1>1, <1>2, <1>3, <1>4, <1>5 DEF Next, Author, Beside

\* A pass that found the row taken will find it taken: drains wait for it.
LEMMA PassWaits ==
    ASSUME TypeOK, Chained, Settled, Next
    PROVE  (pass.pc = "finish" /\ ~pass.settings => book.op # None)'
<1>0. pass \in Passes /\ None \notin Edits /\ Idle.pc = "idle" /\ Observe.pc = "snapshot"
  BY Types, OpsAre DEF Idle, Observe
<1>1. CASE Beside
  <2>1. book' = book \/ book'.op \in Edits
    BY <1>1 DEF Beside, Webhook, Api, MarkStale, LoseHandler, Annotate, Claim, EndLease,
            Submit, ReadSettings, SaveSettings, Clear, rows
  <2>2. SamePass
    BY <1>1, BesideSays
  <2> QED
    BY <1>0, <2>1, <2>2 DEF Settled, SamePass
<1>2. CASE Refresh
  <2>1. ASSUME Reanchor
        PROVE  pass'.settings = (book.op = None) /\ book' = book
    <3> DEFINE settings == book.op = None
    <3>1. settings \in BOOLEAN /\ pass' = [pass EXCEPT !.pc = "finish", !.edited = FALSE, !.settings = settings]
      BY <2>1 DEF Reanchor
    <3>2. book' = book
      BY <2>1 DEF Reanchor
    <3> HIDE DEF settings
    <3>3. pass'.settings = settings
      BY <3>1, <1>0 DEF Passes
    <3> QED
      BY <3>2, <3>3 DEF settings
  <2>2. ASSUME ~Reanchor
        PROVE  pass'.pc # "finish"
    BY <1>0, <1>2, <2>2 DEF Refresh, Requested, Alarm, Snapshot, Judge, Confirm, Rebuild, Finish, Passes
  <2> QED
    BY <2>1, <2>2
<1>3. CASE Drain
  BY <1>0, <1>3, DrainSays
<1>4. CASE Crash
  BY <1>0, <1>4, CrashSays
<1>5. ASSUME NEW c \in Changes, NEW f \in Fields, Push(c, f)
      PROVE  (pass.pc = "finish" /\ ~pass.settings => book.op # None)'
  BY <1>5, PushSays DEF Settled
<1> QED
  BY <1>1, <1>2, <1>3, <1>4, <1>5 DEF Next, Author, Beside

\* The head holds, field by field, what was last written to it.
LEMMA FieldsStay ==
    ASSUME TypeOK, Chained, Tip.config = wrote, Next
    PROVE  (Tip.config = wrote)'
<1>1. ASSUME NEW c \in Changes, NEW f \in Fields, Push(c, f)
      PROVE  (Tip.config = wrote)'
  <2>1. Tip' = Changed(c, f)
    BY <1>1, PushSays DEF Grows
  <2>2. wrote' = IF c = "config" THEN [wrote EXCEPT ![f] = "author"] ELSE wrote
    BY <1>1 DEF Push
  <2> QED
    BY <2>1, <2>2, ChangedTyped
<1>2. ASSUME NEW o \in Ops, Commit(o)
      PROVE  (Tip.config = wrote)'
  <2>1. PICK tree \in Outcomes(o) : Grows(tree)
    BY <1>2, CommitSays
  <2>2. Tip' = tree
    BY <2>1 DEF Grows
  <2>3. wrote' = IF o \in Edits THEN [wrote EXCEPT ![edit[o].field] = "maintainer"] ELSE wrote
    BY <1>2 DEF Commit
  <2> QED
    BY <2>2, <2>3, OutcomesTyped DEF Merged
<1>3. CASE \/ Beside \/ Refresh \/ Crash \/ Finalize \/ AfterDrain
           \/ \E o \in Ops : Recover(o) \/ Fail(o)
  <2>1. UNCHANGED <<branch, wrote>>
    BY <1>3, BesideSays, RefreshSays, CrashSays DEF Finalize, AfterDrain, Recover, Fail, git, hist
  <2> QED
    BY <2>1 DEF Tip
<1> QED
  BY <1>1, <1>2, <1>3 DEF Next, Author, Beside, Drain

LEMMA SettledStays ==
    ASSUME TypeOK, Chained, Settled, Next
    PROVE  Settled'
<1>1. Owned /\ Tip.config = wrote
  BY DEF Settled, Owned
<1>2. Owned' /\ (Tip.config = wrote)'
  BY <1>1, OwnedStays, FieldsStay
<1> QED
  BY <1>2, PassWaits DEF Settled, Owned
-----------------------------------------------------------------------------
(* Every push is announced until it is projected.                          *)

\* What is known of how a projection may lag is never forgotten.
LEMMA BlindGrows ==
    ASSUME Next
    PROVE  blind \subseteq blind' /\ (Told' => Told)
<1>1. CASE Author \/ Webhook \/ Api
  BY <1>1 DEF Author, Push, Webhook, MarkStale, LoseHandler, Api, Annotate, Claim, EndLease, Submit,
       ReadSettings, SaveSettings, Clear, hist, Told
<1>2. CASE Refresh
  BY <1>2 DEF Refresh, Requested, Alarm, Snapshot, Judge, Confirm, Rebuild, Reanchor, Finish, hist, Told
<1>3. CASE Drain \/ Crash
  BY <1>3 DEF Drain, Commit, Recover, Finalize, AfterDrain, Fail, Crash, hist, Told
<1> QED
  BY <1>1, <1>2, <1>3 DEF Next

\* A commit is announced as it is made.
LEMMA CommitAnnounced ==
    ASSUME NEW tree, Grows(tree)
    PROVE  Announced'
BY DEF Grows, Announced

\* Only the end of a pass takes back an announcement.
LEMMA AnnouncedStays ==
    ASSUME TypeOK, Announced, Next, ~Finish, Told'
    PROVE  Announced'
<1>1. CASE Author
  BY <1>1, PushSays, CommitAnnounced DEF Author
<1>2. CASE \E k \in Commits, seen \in BOOLEAN : MarkStale(k, seen)
  <2>1. project'.stale = TRUE
    BY <1>2, Types DEF MarkStale
  <2> QED
    BY <2>1 DEF Announced
<1>3. CASE \E k \in Commits : LoseHandler(k)
  BY <1>3 DEF LoseHandler, Told
<1>4. CASE Api
  <2>1. hook' = hook /\ branch' = branch /\ project'.stale = project.stale
    BY <1>4, Types DEF Api, Annotate, Claim, EndLease, Submit, ReadSettings, SaveSettings, Clear, git
  <2> QED
    BY <2>1 DEF Announced, Commits
<1>5. CASE \E k \in Commits : Requested(k)
  <2>1. PICK k \in Commits : Requested(k)
    BY <1>5
  <2>2. /\ hook[k] = "asked" /\ hook' = [hook EXCEPT ![k] = "done"] /\ branch' = branch
        /\ project' = project
    BY <2>1 DEF Requested
  <2>3. k \in 1..(MaxCommits + 1) /\ Commits \subseteq 1..(MaxCommits + 1)
        /\ hook \in [1..(MaxCommits + 1) -> {"none", "sent", "asked", "done"}]
    BY Bounds DEF Commits, TypeOK
  <2>4. \A j \in Commits : hook[j] = "sent" => hook'[j] = "sent"
    BY <2>2, <2>3
  <2> QED
    BY <2>2, <2>4 DEF Announced, Commits
<1>6. CASE Alarm \/ Snapshot \/ Judge \/ Confirm \/ Rebuild \/ Reanchor
  <2>1. hook' = hook /\ branch' = branch /\ (project.stale => project'.stale)
    BY <1>6, Types DEF Alarm, Snapshot, Judge, Confirm, Rebuild, Reanchor, git
  <2> QED
    BY <2>1 DEF Announced, Commits
<1>7. ASSUME NEW o \in Ops, Commit(o)
      PROVE  Announced'
  BY <1>7, CommitSays, CommitAnnounced
<1>8. CASE Finalize \/ AfterDrain \/ Crash \/ \E o \in Ops : Recover(o) \/ Fail(o)
  <2>1. hook' = hook /\ branch' = branch /\ project' = project
    BY <1>8 DEF Finalize, AfterDrain, Crash, Recover, Fail, git
  <2> QED
    BY <2>1 DEF Announced, Commits
<1> QED
  BY <1>1, <1>2, <1>3, <1>4, <1>5, <1>6, <1>7, <1>8 DEF Next, Webhook, Refresh, Drain, Commits

LEMMA ProjectedStays ==
    ASSUME TypeOK, Chained, Projected, Next
    PROVE  Projected'
<1>0. pass \in Passes /\ Idle.pc = "idle" /\ Observe.pc = "snapshot"
  BY Types DEF Idle, Observe
<1>1. ASSUME NEW c \in Changes, NEW f \in Fields, Push(c, f)
      PROVE  Projected'
  <2>1. Grows(Changed(c, f)) /\ pass' = pass /\ chapter' = chapter
    BY <1>1, PushSays
  <2>2. Reading => Tree' = Tree
    BY <2>1 DEF Grows, Tree, Chained
  <2> QED
    BY <2>1, <2>2 DEF Projected, Reading
<1>2. CASE Beside
  BY <1>2, BesideSays DEF Projected, SamePass, Tree
<1>3. CASE Refresh
  <2>1. branch' = branch
    BY <1>3, RefreshSays
  <2>2. CASE Rebuild
    <3>1. Tree' = Tree
      BY <1>0, <2>1, <2>2 DEF Rebuild, Tree, Passes
    <3>2. chapter' = Prose(Tree)
      BY <2>2 DEF Rebuild, Prose
    <3> QED
      BY <3>1, <3>2 DEF Projected, Prose
  <2>3. CASE Reanchor
    <3>1. Tree' = Tree /\ pass.pc = "anchor" /\ chapter' = chapter
      BY <1>0, <2>1, <2>3 DEF Reanchor, Tree, Passes
    <3> QED
      BY <3>1 DEF Projected, Prose
  <2>4. CASE ~Rebuild /\ ~Reanchor
    <3>1. pass'.pc \notin {"anchor", "finish"}
      BY <1>0, <1>3, <2>4 DEF Refresh, Requested, Alarm, Snapshot, Judge, Confirm, Finish, Passes
    <3> QED
      BY <3>1 DEF Projected
  <2> QED
    BY <2>2, <2>3, <2>4
<1>4. CASE Drain \/ Crash
  <2>1. pass' = Idle
    BY <1>4, DrainSays, CrashSays
  <2> QED
    BY <1>0, <2>1 DEF Projected
<1> QED
  BY <1>1, <1>2, <1>3, <1>4 DEF Next, Author, Beside

\* Growing the branch adds a commit still to be heard of.
LEMMA GrowingHeard ==
    ASSUME NEW tree, Grows(tree), NEW at, \A k \in Commits : k > at => hook[k] = "sent"
    PROVE  \A k \in Commits' : k > at => hook'[k] = "sent"
BY DEF Grows

LEMMA LaterStays ==
    ASSUME TypeOK, Chained, Later, Next, Told'
    PROVE  Later'
<1>0. pass \in Passes /\ Idle.pc = "idle" /\ Observe.pc = "snapshot"
      /\ project \in [stale : BOOLEAN, diverged : BOOLEAN]
  BY Types DEF Idle, Observe
<1>1. ASSUME NEW c \in Changes, NEW f \in Fields, Push(c, f)
      PROVE  Later'
  <2>1. Grows(Changed(c, f)) /\ pass' = pass /\ project' = project
    BY <1>1, PushSays
  <2> QED
    BY <2>1, GrowingHeard DEF Later, Reading
<1>2. ASSUME NEW k \in Commits, NEW seen \in BOOLEAN, MarkStale(k, seen)
      PROVE  Later'
  <2>1. project'.stale /\ pass'.pc = pass.pc
    BY <1>0, <1>2, TouchSays DEF MarkStale
  <2>2. pass'.pc = "idle" \/ pass'.touched
    BY <1>2 DEF MarkStale, Told
  <2> QED
    BY <2>1, <2>2 DEF Later, Reading
<1>3. ASSUME NEW k \in Commits, LoseHandler(k)
      PROVE  Later'
  BY <1>3 DEF LoseHandler, Told
<1>4. CASE Api
  <2>1. hook' = hook /\ branch' = branch /\ project'.stale = project.stale
    BY <1>0, <1>4 DEF Api, Annotate, Claim, EndLease, Submit, ReadSettings, SaveSettings, Clear, git
  <2>2. SamePass
    BY <1>4, BesideSays DEF Beside
  <2> QED
    BY <2>1, <2>2 DEF Later, Reading, Commits, SamePass
<1>5. CASE Refresh
  <2>1. CASE \/ \E k \in Commits : Requested(k)
             \/ Alarm \/ Confirm \/ Finish
    <3>1. pass'.pc \in {"idle", "snapshot"}
      BY <1>0, <2>1 DEF Requested, Alarm, Confirm, Finish
    <3> QED
      BY <3>1 DEF Later, Reading
  <2>2. CASE Snapshot
    <3>1. pass'.at = Len(branch) /\ branch' = branch /\ Len(branch) \in Nat
      BY <1>0, <2>2, CommitsTyped DEF Snapshot, Passes, git
    <3>2. \A k \in Commits' : ~(k > pass'.at)
      BY <3>1 DEF Commits
    <3> QED
      BY <3>2 DEF Later
  <2>3. CASE Judge \/ Rebuild \/ Reanchor
    <3>1. /\ Reading /\ pass'.at = pass.at /\ pass'.touched = pass.touched
          /\ UNCHANGED <<branch, hook, project>>
      BY <1>0, <2>3 DEF Judge, Rebuild, Reanchor, Passes, Reading, git
    <3> QED
      BY <3>1 DEF Later, Commits
  <2> QED
    BY <1>5, <2>1, <2>2, <2>3 DEF Refresh, Commits
<1>6. CASE Drain \/ Crash
  BY <1>6, DrainSays, CrashSays DEF Later
<1> QED
  BY <1>1, <1>2, <1>3, <1>4, <1>5, <1>6 DEF Next, Author, Webhook, Commits

LEMMA SinceStays ==
    ASSUME TypeOK, Chained, Recorded, Since, Next, Told'
    PROVE  Since'
<1>0. project \in [stale : BOOLEAN, diverged : BOOLEAN] /\ Resting.pc = "idle"
  BY Types DEF Resting
<1>1. ASSUME NEW c \in Changes, NEW f \in Fields, Push(c, f)
      PROVE  Since'
  <2>1. Grows(Changed(c, f)) /\ UNCHANGED <<drain, landed, project>>
    BY <1>1, PushSays
  <2> QED
    BY <2>1 DEF Since, Grows
<1>2. ASSUME NEW k \in Commits, NEW seen \in BOOLEAN, MarkStale(k, seen)
      PROVE  Since'
  <2>1. project'.stale
    BY <1>0, <1>2 DEF MarkStale
  <2> QED
    BY <2>1 DEF Since
<1>3. ASSUME NEW k \in Commits, LoseHandler(k)
      PROVE  Since'
  BY <1>3 DEF LoseHandler, Told
<1>4. CASE Api
  <2>1. hook' = hook /\ project'.stale = project.stale
    BY <1>0, <1>4 DEF Api, Annotate, Claim, EndLease, Submit, ReadSettings, SaveSettings, Clear, git
  <2>2. UNCHANGED <<branch, drain, landed>>
    BY <1>4, BesideSays DEF Beside
  <2> QED
    BY <2>1, <2>2 DEF Since, Commits
<1>5. CASE Refresh
  BY <1>5, RefreshSays DEF Since
<1>6. CASE Drain
  <2>1. ASSUME NEW o \in Ops, Commit(o)
        PROVE  Since'
    <3>1. PICK tree \in Outcomes(o) : Grows(tree) /\ landed'[o] = Len(branch) + 1
      BY <2>1, CommitSays
    <3>2. drain'.op = o
      BY <2>1 DEF Commit
    <3>3. \A k \in Commits' : k >= Len(branch) + 1 => hook'[k] = "sent"
      BY <3>1, CommitsTyped DEF Grows, Commits
    <3> QED
      BY <3>1, <3>2, <3>3 DEF Since
  <2>2. ASSUME NEW o \in Ops, Recover(o)
        PROVE  Since'
    BY <2>2 DEF Recover, Since, Told
  <2>3. ASSUME NEW o \in Ops, Fail(o)
        PROVE  Since'
    BY <1>0, <2>3 DEF Fail, Since, chain, Turn, Free
  <2>4. CASE Finalize
    <3>1. drain'.pc = "hook"
      BY <2>4 DEF Finalize, TypeOK
    <3> QED
      BY <3>1 DEF Since
  <2>5. CASE AfterDrain
    BY <1>0, <2>5 DEF AfterDrain, Since
  <2> QED
    BY <1>6, <2>1, <2>2, <2>3, <2>4, <2>5 DEF Drain
<1>7. CASE Crash
  BY <1>0, <1>7, CrashSays DEF Since
<1> QED
  BY <1>1, <1>2, <1>3, <1>4, <1>5, <1>6, <1>7 DEF Next, Author, Webhook, Commits

\* A pass whose tree is not the head's knows, or will be told.
LEMMA PassAnnounced ==
    ASSUME TypeOK, Chained, Later, Reading, pass.at # Len(branch)
    PROVE  (project.stale /\ pass.touched) \/ hook[Len(branch)] = "sent"
<1>1. pass.at \in Commits /\ Len(branch) \in Commits /\ Len(branch) \in Nat
  BY CommitsTyped DEF Chained
<1>2. Len(branch) > pass.at
  BY <1>1 DEF Commits
<1> QED
  BY <1>1, <1>2 DEF Later

\* So it is for the end of a pass: the flag stays if it ever saw it set.
LEMMA FinishAnnounced ==
    ASSUME TypeOK, Chained, Later, Finish, pass.at # Len(branch)
    PROVE  Announced'
<1>1. (project.stale /\ pass.touched) \/ hook[Len(branch)] = "sent"
  BY PassAnnounced DEF Finish, Reading
<1>2. Len(branch) \in Commits /\ branch' = branch /\ hook' = hook
  BY CommitsTyped DEF Finish, git
<1>3. project.stale /\ pass.touched => project'.stale
  BY Types DEF Finish, StillStale
<1> QED
  BY <1>1, <1>2, <1>3 DEF Announced, Commits

\* And for a batch whose commit is no longer the head.
LEMMA FinalizeAnnounced ==
    ASSUME TypeOK, Chained, Recorded, Since, Finalize, drain.op \notin Notes
    PROVE  Announced'
<1>1. landed[drain.op] \in Commits /\ Len(branch) \in Commits /\ Len(branch) \in Nat
  BY InHand, CommitsTyped DEF Finalize
<1>2. Len(branch) >= landed[drain.op]
  BY <1>1 DEF Commits
<1>3. project.stale \/ hook[Len(branch)] = "sent"
  BY <1>1, <1>2 DEF Since, Finalize
<1>4. UNCHANGED <<branch, hook, project>>
  BY DEF Finalize, git
<1> QED
  BY <1>1, <1>3, <1>4 DEF Announced, Commits

LEMMA ProseBehindStays ==
    ASSUME TypeOK, Chained, Recorded, Projected, Later, Since, ProseBehind, Next, Told'
    PROVE  ProseBehind'
<1>1. CASE Author \/ \E o \in Ops : Commit(o)
  BY <1>1, PushSays, CommitSays, CommitAnnounced DEF Author, ProseBehind
<1>2. CASE Rebuild
  <2>1. chapter' = Prose(Tree) /\ branch' = branch /\ Reading
    BY <1>2 DEF Rebuild, Prose, git, Reading
  <2>2. pass.at # Len(branch) => Announced
    BY <2>1, PassAnnounced, CommitsTyped DEF Announced
  <2>3. pass.at # Len(branch) => Announced'
    BY <1>2, <2>2, AnnouncedStays DEF Rebuild, Finish
  <2>4. pass.at = Len(branch) => chapter' = Prose(Tip)
    BY <2>1 DEF Tree, Tip
  <2> QED
    BY <2>1, <2>3, <2>4 DEF ProseBehind, Tip, Prose
<1>3. CASE Finish
  <2>1. chapter' = Prose(Tree) /\ branch' = branch
    BY <1>3 DEF Finish, Projected, git
  <2>2. pass.at = Len(branch) => chapter' = Prose(Tip)
    BY <2>1 DEF Tree, Tip
  <2> QED
    BY <1>3, <2>1, <2>2, FinishAnnounced DEF ProseBehind, Tip, Prose
<1>4. CASE Finalize
  <2>1. CASE drain.op = "apply"
    BY <1>4, <2>1, FinalizeAnnounced, OpsAre DEF ProseBehind
  <2>2. CASE drain.op # "apply"
    <3>1. UNCHANGED <<chapter, branch>> /\ ~Finish
      BY <1>4, <2>2, DrainSays DEF Drain, Finalize, git, Finish, Idle
    <3> QED
      BY <3>1, AnnouncedStays DEF ProseBehind, Tip, Prose
  <2> QED
    BY <2>1, <2>2
<1>5. CASE ~Author /\ ~Rebuild /\ ~Finish /\ ~Finalize /\ ~ \E o \in Ops : Commit(o)
  <2>1. UNCHANGED <<chapter, branch>>
    BY <1>5, BesideSays, CrashSays DEF Next, Beside, Refresh, Drain, Requested, Alarm, Snapshot, Judge,
       Confirm, Reanchor, Recover, Fail, AfterDrain, rows, git
  <2> QED
    BY <1>5, <2>1, AnnouncedStays DEF ProseBehind, Tip, Prose
<1> QED
  BY <1>1, <1>2, <1>3, <1>4, <1>5

LEMMA ConfigBehindStays ==
    ASSUME TypeOK, Chained, Recorded, Settled, Later, Since, ConfigBehind, Next, Told'
    PROVE  ConfigBehind'
<1>0. blind \subseteq blind' /\ None \notin Edits /\ book \in [value : Configs, op : Edits \cup {None}]
  BY BlindGrows, OpsAre, Types
<1>1. CASE Author \/ \E o \in Ops : Commit(o)
  BY <1>1, PushSays, CommitSays, CommitAnnounced DEF Author, ConfigBehind
<1>2. CASE \E e \in Edits, f \in Fields : SaveSettings(e, f)
  <2>1. book'.op # None
    BY <1>0, <1>2 DEF SaveSettings
  <2> QED
    BY <2>1 DEF ConfigBehind
<1>3. CASE Finish
  <2>1. CASE pass.settings
    <3>1. book'.value = Tree.config /\ branch' = branch
      BY <1>3, <2>1 DEF Finish, git
    <3>2. pass.at = Len(branch) => book'.value = Tip.config
      BY <3>1 DEF Tree, Tip
    <3> QED
      BY <1>3, <3>1, <3>2, FinishAnnounced DEF ConfigBehind, Tip
  <2>2. CASE ~pass.settings
    <3>1. book' = book /\ book.op # None
      BY <1>3, <2>2 DEF Finish, Settled
    <3> QED
      BY <3>1 DEF ConfigBehind
  <2> QED
    BY <2>1, <2>2
<1>4. CASE Finalize
  <2>1. CASE book.op = drain.op /\ drain.op # None
    <3>1. drain.op \notin Notes
      BY <1>0, <2>1, OpsAre
    <3> QED
      BY <1>4, <3>1, FinalizeAnnounced DEF ConfigBehind
  <2>2. CASE book.op # drain.op \/ drain.op = None
    <3>1. book' = book /\ branch' = branch /\ ~Finish
      <4>1. book.op = None => [book EXCEPT !.op = None] = book
        BY <1>0
      <4>2. book' = book
        BY <1>4, <2>2, <4>1 DEF Finalize
      <4> QED
        BY <1>4, <4>2, DrainSays DEF Drain, Finalize, git, Finish, Idle
    <3> QED
      BY <1>0, <3>1, AnnouncedStays DEF ConfigBehind, Tip
  <2> QED
    BY <2>1, <2>2
<1>5. ASSUME NEW o \in Ops, Fail(o)
      PROVE  ConfigBehind'
  <2>1. branch' = branch /\ ~Finish /\ book' = IF o \in Edits THEN Released(o) ELSE book
    BY <1>5 DEF Fail, git, Finish, Turn, Free, Idle
  <2>2. CASE book' = book
    BY <1>0, <2>1, <2>2, AnnouncedStays DEF ConfigBehind, Tip
  <2>3. CASE book' # book
    <3>1. o \in Edits /\ book.op = o /\ book'.value = edit[o].before
      BY <2>1, <2>3 DEF Released
    <3>2. book'.value # book.value
      <4> DEFINE f == edit[o].field
      <4>1. /\ f \in Fields /\ edit[o].before \in Configs /\ edit[o].before[f] # "maintainer"
            /\ book.value = [edit[o].before EXCEPT ![f] = "maintainer"]
        BY <1>0, <3>1 DEF Settled
      <4>2. book.value[f] = "maintainer"
        BY <4>1 DEF Configs
      <4> QED
        BY <3>1, <4>1, <4>2
    <3>3. blind' = IF book'.value \notin {book.value, Tip.config} THEN blind \cup {"released"} ELSE blind
      BY <1>5 DEF Fail
    <3>4. "released" \in blind' \/ book'.value = Tip.config
      BY <3>2, <3>3
    <3> QED
      BY <2>1, <3>4 DEF ConfigBehind, Tip
  <2> QED
    BY <2>2, <2>3
<1>6. CASE /\ ~Author /\ ~Finish /\ ~Finalize
           /\ ~ \E o \in Ops : Commit(o) \/ Fail(o)
           /\ ~ \E e \in Edits, f \in Fields : SaveSettings(e, f)
  <2>1. UNCHANGED <<book, branch>>
    BY <1>6 DEF Next, Author, Webhook, Api, Refresh, Drain, MarkStale, LoseHandler, Annotate, Claim,
       EndLease, Submit, ReadSettings, Clear, Requested, Alarm, Snapshot, Judge, Confirm, Rebuild,
       Reanchor, Recover, AfterDrain, Crash, rows, git
  <2> QED
    BY <1>0, <1>6, <2>1, AnnouncedStays DEF ConfigBehind, Tip
<1> QED
  BY <1>1, <1>2, <1>3, <1>4, <1>5, <1>6

LEMMA NotifiedStays ==
    ASSUME TypeOK, Chained, Recorded, Settled, Notified, Next
    PROVE  Notified'
<1>1. Projected'
  BY ProjectedStays DEF Notified
<1>2. ASSUME Told'
      PROVE  Later' /\ Since' /\ ProseBehind' /\ ConfigBehind'
  <2>1. Projected /\ Later /\ Since /\ ProseBehind /\ ConfigBehind
    BY <1>2, BlindGrows DEF Notified
  <2> QED
    BY <1>2, <2>1, LaterStays, SinceStays, ProseBehindStays, ConfigBehindStays
<1> QED
  BY <1>1, <1>2 DEF Notified
-----------------------------------------------------------------------------
(* Anchors, while the author has broken none.                              *)

\* What the branch shows it goes on showing.
LEMMA BrokenStays ==
    ASSUME TypeOK, Chained, Next
    PROVE  AuthorBroke => AuthorBroke'
<1>1. CASE Author \/ \E o \in Ops : Commit(o)
  <2>1. PICK tree : Grows(tree)
    BY <1>1, PushSays, CommitSays DEF Author
  <2> QED
    BY <2>1 DEF Grows, AuthorBroke, Commits
<1>2. CASE ~Author /\ ~ \E o \in Ops : Commit(o)
  <2>1. branch' = branch
    BY <1>2, BesideSays, RefreshSays, CrashSays DEF Next, Beside, Drain, Recover, Fail, Finalize, AfterDrain, git
  <2> QED
    BY <2>1 DEF AuthorBroke
<1> QED
  BY <1>1, <1>2

LEMMA Revisions ==
    ASSUME TypeOK
    PROVE  /\ Tip.rev \in Int /\ chapter.rev \in Int /\ landed["apply"] \in Nat
           /\ \A k \in Commits : branch[k].rev \in Int
           /\ \A n \in Notes : note[n].rev \in Int /\ note[n].born \in Int
BY CommitsTyped, Types, OpsAre DEF Trees, NoteRows

LEMMA ApplyIsThere ==
    ASSUME TypeOK, Recorded, landed["apply"] # 0
    PROVE  landed["apply"] \in Commits
BY Types, OpsAre, CommitsTyped DEF Recorded, Commits

\* A later revision has turned if an earlier one has; the head has, once the
\* submission has landed.
LEMMA TurnedOn ==
    ASSUME TypeOK, Recorded
    PROVE  /\ \A r, s \in Int : Turned(r) /\ r <= s => Turned(s)
           /\ \A r \in Int : landed["apply"] = 0 => ~Turned(r) /\ BlockAt(r) = "old"
           /\ Straight => \A r \in Int : landed["apply"] # 0 /\ Tip.rev <= r => Turned(r)
<1>1. \A k \in Commits : branch[k].rev \in Int
  BY Revisions
<1>2. Tip.rev \in Int /\ (landed["apply"] # 0 => landed["apply"] \in Commits)
  BY Revisions, ApplyIsThere
<1> QED
  BY <1>1, <1>2 DEF Turned, BlockAt, Straight

\* Unless it lands now, the submission stays where it is.
LEMMA SameTurn ==
    ASSUME TypeOK, Chained, Recorded, Next, ~Commit("apply")
    PROVE  /\ landed'["apply"] = landed["apply"]
           /\ landed["apply"] # 0 => branch'[landed["apply"]] = branch[landed["apply"]]
           /\ \A r : (Turned(r))' <=> Turned(r)
           /\ \A r : (BlockAt(r))' = BlockAt(r)
<1> DEFINE Same == /\ landed'["apply"] = landed["apply"]
                   /\ landed["apply"] # 0 => branch'[landed["apply"]] = branch[landed["apply"]]
<1>1. Same
  <2>1. ASSUME NEW c \in Changes, NEW f \in Fields, Push(c, f)
        PROVE  Same
    BY <2>1, PushSays, ApplyIsThere DEF Grows
  <2>2. ASSUME NEW o \in Ops, Commit(o)
        PROVE  Same
    <3>1. o # "apply"
      BY <2>2
    <3>2. PICK tree \in Outcomes(o) : Grows(tree) /\ \A p \in Ops : p # o => landed'[p] = landed[p]
      BY <2>2, CommitSays
    <3> QED
      BY <3>1, <3>2, ApplyIsThere, OpsAre DEF Grows
  <2>3. CASE ~Author /\ ~ \E o \in Ops : Commit(o)
    <3>1. UNCHANGED <<branch, landed>>
      BY <2>3, BesideSays, RefreshSays, CrashSays DEF Next, Beside, Drain, Recover, Fail, Finalize,
         AfterDrain, git, ops
    <3> QED
      BY <3>1
  <2> HIDE DEF Same
  <2> QED
    BY <2>1, <2>2, <2>3 DEF Author
<1> QED
  BY <1>1 DEF Turned, BlockAt

\* The submission lands: the revision it takes is beyond every other.
LEMMA ApplyLands ==
    ASSUME TypeOK, Chained, Recorded, Accepted, Unbroken, Commit("apply")
    PROVE  Unbroken'
<1>0. /\ "apply" \in Ops /\ Len(branch) \in Commits /\ Tip = branch[Len(branch)] /\ Len(branch) \in Nat
      /\ Tip.rev \in Int
  BY OpsAre, CommitsTyped, Revisions DEF Tip
<1>1. PICK tree \in Outcomes("apply") :
        /\ tree \in Trees /\ Grows(tree)
        /\ landed["apply"] = 0 /\ landed'["apply"] = Len(branch) + 1
  BY <1>0, CommitSays
<1>2. Tip.block # "gone"
  BY <1>0 DEF Unbroken, Straight
<1>3. /\ tree.rev = Tip.rev + 1 /\ tree.task = "completed" /\ tree.block \in {Tip.block, "new"}
      /\ tree.block # "gone"
  BY <1>0, <1>1, <1>2, OutcomesTyped
<1>4. /\ Tip' = tree /\ branch'[Len(branch) + 1] = tree /\ Commits' = Commits \cup {Len(branch) + 1}
      /\ \A k \in Commits : branch'[k] = branch[k]
  BY <1>1 DEF Grows
<1>5. \A r \in Int : r <= Tip.rev => ~(Turned(r))' /\ (BlockAt(r))' = "old" /\ BlockAt(r) = "old"
  <2>1. \A r \in Int : r <= Tip.rev => ~(r >= tree.rev)
    BY <1>0, <1>3
  <2> QED
    BY <1>1, <1>4, <2>1 DEF Turned, BlockAt
<1>6. (BlockAt(tree.rev))' = tree.block
  BY <1>0, <1>1, <1>3, <1>4 DEF Turned, BlockAt
<1>7. UNCHANGED <<chapter, note, queue, pass>> /\ "apply" \in queue /\ ~Reading'
  BY DrainSays, <1>0 DEF Commit, rows, Drain
<1>8. Straight'
  <2>1. \A k \in Commits' : branch'[k].rev <= Tip'.rev
    BY <1>0, <1>3, <1>4, Revisions DEF Unbroken, Straight
  <2>2. \A k \in Commits' : branch'[k].block # "gone"
    BY <1>3, <1>4 DEF Unbroken, Straight
  <2>3. \A k \in Commits' : branch'[k].block = (BlockAt(branch[k].rev))'
    BY <1>4, <1>5, <1>6, Revisions DEF Unbroken, Straight
  <2> QED
    BY <1>1, <1>3, <1>4, <2>1, <2>2, <2>3 DEF Straight
<1>9. Placed'
  BY <1>0, <1>3, <1>4, <1>5, <1>7, Revisions DEF Unbroken, Placed
<1>10. \A n \in Notes : Rooted(n)'
  BY <1>0, <1>3, <1>4, <1>5, <1>7, Revisions DEF Unbroken, Rooted
<1> QED
  BY <1>7, <1>8, <1>9, <1>10 DEF Unbroken, Forward, Applied

\* Any other step leaves the revisions and their blocks in order.
LEMMA StraightStays ==
    ASSUME TypeOK, Chained, Recorded, Straight, ~AuthorBroke', Next, ~Commit("apply")
    PROVE  Straight' /\ Tip.rev <= Tip'.rev /\ Tip'.rev \in Int
<1>0. /\ Len(branch) \in Commits /\ Tip = branch[Len(branch)] /\ Tip.rev \in Int
      /\ \A k \in Commits : branch[k].rev \in Int
  BY CommitsTyped, Revisions DEF Tip
<1>1. /\ landed'["apply"] = landed["apply"]
      /\ landed["apply"] # 0 => branch'[landed["apply"]] = branch[landed["apply"]]
      /\ \A r : (BlockAt(r))' = BlockAt(r)
  BY SameTurn
<1>2. ASSUME NEW tree, Grows(tree), tree.rev \in Int, Tip.rev <= tree.rev, tree.block = Tip.block
      PROVE  Straight' /\ Tip.rev <= Tip'.rev /\ Tip'.rev \in Int
  <2>1. /\ Tip' = tree /\ branch'[Len(branch) + 1] = tree /\ Commits' = Commits \cup {Len(branch) + 1}
        /\ \A k \in Commits : branch'[k] = branch[k]
    BY <1>2 DEF Grows
  <2>2. BlockAt(tree.rev) = BlockAt(Tip.rev)
    <3>1. CASE landed["apply"] = 0
      BY <1>0, <1>2, <3>1, TurnedOn
    <3>2. CASE landed["apply"] # 0
      <4>1. Turned(tree.rev) /\ Turned(Tip.rev)
        BY <1>0, <1>2, <3>2, TurnedOn
      <4> QED
        BY <4>1 DEF BlockAt
    <3> QED
      BY <3>1, <3>2
  <2>3. tree.block # "gone" /\ tree.block = BlockAt(tree.rev)
    BY <1>0, <1>2, <2>2 DEF Straight
  <2>4. \A k \in Commits' : branch'[k].rev <= Tip'.rev
    BY <1>0, <1>2, <2>1 DEF Straight
  <2>5. \A k \in Commits' : branch'[k].block # "gone" /\ branch'[k].block = BlockAt(branch'[k].rev)
    BY <2>1, <2>3 DEF Straight
  <2>6. \A k \in Commits' : branch'[k].block = (BlockAt(branch[k].rev))'
    BY <1>1, <2>5
  <2>7. landed'["apply"] # 0 => branch'[landed'["apply"]].task = "completed"
    BY <1>1 DEF Straight
  <2> QED
    BY <1>2, <2>1, <2>4, <2>5, <2>6, <2>7 DEF Straight
<1>3. ASSUME NEW c \in Changes, NEW f \in Fields, Push(c, f)
      PROVE  Straight' /\ Tip.rev <= Tip'.rev /\ Tip'.rev \in Int
  <2>1. Grows(Changed(c, f)) /\ Changed(c, f).change = c
    BY <1>3, PushSays, ChangedTyped
  <2>2. c \notin {"regress", "cut"}
    <3>1. Len(branch) + 1 \in Commits' /\ branch'[Len(branch) + 1] = Changed(c, f)
      BY <2>1 DEF Grows
    <3> QED
      BY <2>1, <3>1 DEF AuthorBroke, Commits
  <2>3. c = "prose" \/ c = "config"
    BY <2>2, Names
  <2>4. /\ Changed(c, f).rev = Tip.rev \/ Changed(c, f).rev = Tip.rev + 1
        /\ Changed(c, f).block = Tip.block
    BY <2>3, ChangedTyped DEF Prose
  <2>5. Changed(c, f).rev \in Int /\ Tip.rev <= Changed(c, f).rev
    BY <1>0, <2>4
  <2> QED
    BY <1>2, <2>1, <2>4, <2>5
<1>4. ASSUME NEW o \in Ops, Commit(o)
      PROVE  Straight' /\ Tip.rev <= Tip'.rev /\ Tip'.rev \in Int
  <2>1. PICK tree \in Outcomes(o) : Grows(tree)
    BY <1>4, CommitSays
  <2>2. o # "apply"
    BY <1>4
  <2>3. Prose(tree) = Prose(Tip)
    BY <2>1, <2>2, OutcomesTyped
  <2>4. tree.rev = Tip.rev /\ tree.block = Tip.block
    BY <2>3 DEF Prose
  <2> QED
    BY <1>0, <1>2, <2>1, <2>4
<1>5. CASE ~Author /\ ~ \E o \in Ops : Commit(o)
  <2>1. branch' = branch
    BY <1>5, BesideSays, RefreshSays, CrashSays DEF Next, Beside, Drain, Recover, Fail, Finalize,
       AfterDrain, git
  <2> QED
    BY <1>0, <1>1, <2>1 DEF Straight, Commits, Tip
<1> QED
  BY <1>3, <1>4, <1>5 DEF Author

\* The chapter goes forward, or back to the submission at the furthest.
LEMMA PlacedStays ==
    ASSUME TypeOK, Chained, Recorded, Unbroken, ~AuthorBroke', Next, ~Commit("apply")
    PROVE  Placed' /\ (Turned(chapter.rev) => (Turned(chapter.rev))')
<1>0. /\ Tip.rev \in Int /\ chapter.rev \in Int /\ (\A k \in Commits : branch[k].rev \in Int)
      /\ Tip.rev <= Tip'.rev /\ Tip'.rev \in Int
      /\ \A r : ((Turned(r))' <=> Turned(r)) /\ (BlockAt(r))' = BlockAt(r)
  BY Revisions, StraightStays, SameTurn DEF Unbroken
<1>1. CASE Rebuild
  <2>1. pass.at \in Commits /\ Reading
    BY <1>1 DEF Rebuild, Chained, Reading
  <2>2. chapter'.rev = Tree.rev /\ chapter'.block = Tree.block
    BY <1>1 DEF Rebuild
  <2>3. /\ Tree.rev \in Int /\ Tree.rev <= Tip.rev /\ Tree.block = BlockAt(Tree.rev)
        /\ chapter.rev <= Tree.rev
    BY <1>0, <2>1 DEF Unbroken, Straight, Forward, Tree
  <2>4. Turned(chapter.rev) => Turned(chapter'.rev)
    BY <1>0, <2>2, <2>3, TurnedOn
  <2> QED
    BY <1>0, <2>2, <2>3, <2>4 DEF Placed
<1>2. CASE Finalize /\ chapter' # chapter
  <2>1. /\ drain.op = "apply" /\ landed["apply"] \in Commits /\ landed["apply"] # 0
        /\ chapter' = Prose(branch[landed["apply"]])
    BY <1>2, InHand DEF Finalize, Prose, Chained
  <2> DEFINE ours == branch[landed["apply"]]
  <2>2. ours.rev \in Int /\ ours.rev <= Tip.rev /\ ours.block = BlockAt(ours.rev)
    BY <1>0, <2>1 DEF Unbroken, Straight
  <2>3. Turned(ours.rev)
    BY <2>1, <2>2 DEF Turned
  <2>4. chapter'.rev = ours.rev /\ chapter'.block = ours.block
    BY <2>1 DEF Prose
  <2> QED
    BY <1>0, <2>2, <2>3, <2>4 DEF Placed
<1>3. CASE ~Rebuild /\ ~(Finalize /\ chapter' # chapter)
  <2>1. chapter' = chapter
    BY <1>3, BesideSays, PushSays, CrashSays DEF Next, Author, Beside, Refresh, Drain, Requested, Alarm,
       Snapshot, Judge, Confirm, Reanchor, Finish, Commit, Recover, Fail, AfterDrain, rows
  <2> QED
    BY <1>0, <2>1 DEF Unbroken, Placed
<1> QED
  BY <1>1, <1>2, <1>3

\* A row whose anchor a step leaves alone.
LEMMA RootKept ==
    ASSUME NEW n \in Notes, Rooted(n),
           note'[n].rev = note[n].rev, note'[n].born = note[n].born, note'[n].target = note[n].target,
           note'[n].status # "absent" => note[n].status # "absent",
           note[n].rev \in Int, note[n].born \in Int, Tip.rev \in Int, Tip'.rev \in Int, Tip.rev <= Tip'.rev,
           \A r : ((Turned(r))' <=> Turned(r)) /\ (BlockAt(r))' = BlockAt(r),
           Turned(chapter.rev) => (Turned(chapter.rev))'
    PROVE  Rooted(n)'
<1> SUFFICES ASSUME note'[n].status # "absent"
             PROVE  Rooted(n)'
  BY DEF Rooted
<1>1. /\ note[n].rev <= Tip.rev /\ note[n].born <= Tip.rev
      /\ note[n].target = BlockAt(note[n].rev) /\ note[n].target = BlockAt(note[n].born)
      /\ Turned(note[n].rev) \/ Turned(note[n].born) => Turned(chapter.rev)
  BY DEF Rooted
<1>2. note'[n].rev <= Tip'.rev /\ note'[n].born <= Tip'.rev
  BY <1>1
<1>3. note'[n].target = (BlockAt(note[n].rev))' /\ note'[n].target = (BlockAt(note[n].born))'
  BY <1>1
<1>4. (Turned(note[n].rev))' \/ (Turned(note[n].born))' => (Turned(chapter.rev))'
  BY <1>1
<1> QED
  BY <1>2, <1>3, <1>4 DEF Rooted

\* A row that takes the revision and the block of a tree, or was written so.
LEMMA RootTaken ==
    ASSUME NEW n \in Notes, note'[n].target = BlockAt(note'[n].rev), note'[n].target = BlockAt(note'[n].born),
           note'[n].rev <= Tip.rev, note'[n].born <= Tip.rev,
           note'[n].rev \in Int, note'[n].born \in Int, Tip.rev \in Int, Tip'.rev \in Int, Tip.rev <= Tip'.rev,
           \A r : ((Turned(r))' <=> Turned(r)) /\ (BlockAt(r))' = BlockAt(r),
           Turned(chapter.rev) => (Turned(chapter.rev))',
           Turned(note'[n].rev) \/ Turned(note'[n].born) => Turned(chapter.rev)
    PROVE  Rooted(n)'
<1>1. note'[n].rev <= Tip'.rev /\ note'[n].born <= Tip'.rev
  OBVIOUS
<1>2. note'[n].target = (BlockAt(note[n].rev))' /\ note'[n].target = (BlockAt(note[n].born))'
  OBVIOUS
<1>3. (Turned(note[n].rev))' \/ (Turned(note[n].born))' => (Turned(chapter.rev))'
  OBVIOUS
<1> QED
  BY <1>1, <1>2, <1>3 DEF Rooted

LEMMA RootedStays ==
    ASSUME TypeOK, Chained, Recorded, Accepted, Projected, Unbroken, ~AuthorBroke', Next,
           ~Commit("apply"), NEW n \in Notes
    PROVE  Rooted(n)'
<1>0. /\ note[n].rev \in Int /\ note[n].born \in Int /\ Tip.rev \in Int /\ Tip'.rev \in Int
      /\ Tip.rev <= Tip'.rev /\ chapter.rev \in Int
      /\ \A r : ((Turned(r))' <=> Turned(r)) /\ (BlockAt(r))' = BlockAt(r)
      /\ Turned(chapter.rev) => (Turned(chapter.rev))'
  BY Revisions, StraightStays, SameTurn, PlacedStays DEF Unbroken
<1>1. Rooted(n) /\ Placed /\ note \in [Notes -> NoteRows]
  BY Types DEF Unbroken
<1>2. CASE Annotate(n)
  <2>1. /\ note'[n].rev = chapter.rev /\ note'[n].born = chapter.rev /\ note'[n].target = chapter.block
    BY <1>1, <1>2 DEF Annotate
  <2> QED
    BY <1>0, <1>1, <2>1, RootTaken DEF Placed
<1>3. CASE Rebuild
  <2>1. pass.at \in Commits /\ Reading
    BY <1>3 DEF Rebuild, Chained, Reading
  <2>2. CASE n \in Tree.files
    <3>1. landed[n] # 0
      BY <2>1, <2>2 DEF Recorded, Tree
    <3>2. note[n].status # "absent"
      BY <3>1 DEF Accepted
    <3>3. note'[n].rev = note[n].born /\ note'[n].born = note[n].born /\ note'[n].target = note[n].target
      BY <1>1, <1>3, <2>2 DEF Rebuild, Restored, NoteRows
    <3> QED
      BY <1>0, <1>1, <3>2, <3>3, RootTaken DEF Rooted
  <2>3. CASE n \notin Tree.files
    <3>1. /\ note'[n].rev = note[n].rev /\ note'[n].born = note[n].born /\ note'[n].target = note[n].target
          /\ note'[n].status # "absent" => note[n].status # "absent"
      BY <1>1, <1>3, <2>3 DEF Rebuild, NoteRows
    <3> QED
      BY <1>0, <1>1, <3>1, RootKept
  <2> QED
    BY <2>2, <2>3
<1>4. ASSUME NEW block, NEW rev, note'[n] = Reanchored(n, block, rev),
             rev \in Int, block = BlockAt(rev), rev <= Tip.rev, Turned(rev) => Turned(chapter.rev),
             note[n].status = "open"
      PROVE  Rooted(n)'
  <2>1. CASE note[n].target = block
    <3>1. note'[n].rev = rev /\ note'[n].born = note[n].born /\ note'[n].target = note[n].target
      BY <1>1, <1>4, <2>1 DEF Reanchored, NoteRows
    <3> QED
      BY <1>0, <1>1, <1>4, <2>1, <3>1, RootTaken DEF Rooted
  <2>2. CASE note[n].target # block
    <3>1. note'[n].rev = note[n].rev /\ note'[n].born = note[n].born /\ note'[n].target = note[n].target
      BY <1>1, <1>4, <2>2 DEF Reanchored, NoteRows
    <3> QED
      BY <1>0, <1>1, <1>4, <3>1, RootKept
  <2> QED
    BY <2>1, <2>2
<1>5. CASE Reanchor
  <2>1. chapter.rev = Tree.rev /\ chapter.block = Tree.block
    BY <1>5 DEF Reanchor, Projected, Prose
  <2>2. \/ note'[n] = note[n]
        \/ note[n].status = "open" /\ note'[n] = Reanchored(n, Tree.block, Tree.rev)
    BY <1>5 DEF Reanchor
  <2> QED
    BY <1>0, <1>1, <1>4, <2>1, <2>2, RootKept DEF Placed
<1>6. CASE AfterDrain
  <2>1. \/ note'[n] = note[n]
        \/ note[n].status = "open" /\ note'[n] = Reanchored(n, chapter.block, chapter.rev)
    BY <1>6 DEF AfterDrain, Owed
  <2> QED
    BY <1>0, <1>1, <1>4, <2>1, RootKept DEF Placed
<1>7. CASE Finalize
  <2>1. note'[n] = note[n] \/ (n = drain.op /\ note'[n] = [note[n] EXCEPT !.status = "open"])
    BY <1>1, <1>7 DEF Finalize
  <2>2. n = drain.op => note[n].status # "absent"
    BY <1>7 DEF Finalize, Chained, Accepted
  <2>3. /\ note'[n].rev = note[n].rev /\ note'[n].born = note[n].born /\ note'[n].target = note[n].target
        /\ note'[n].status # "absent" => note[n].status # "absent"
    BY <1>1, <2>1, <2>2 DEF NoteRows
  <2> QED
    BY <1>0, <1>1, <2>3, RootKept
<1>8. CASE ~Annotate(n) /\ ~Rebuild /\ ~Reanchor /\ ~AfterDrain /\ ~Finalize
  <2>1. note'[n] = note[n]
    <3>1. CASE \E m \in Notes : Annotate(m)
      BY <1>1, <1>8, <3>1 DEF Annotate
    <3>2. CASE ~ \E m \in Notes : Annotate(m)
      <4>1. note' = note
        BY <1>8, <3>2 DEF Next, Author, Push, Webhook, Api, MarkStale, LoseHandler, Claim, EndLease,
           Submit, ReadSettings, SaveSettings, Clear, Refresh, Requested, Alarm, Snapshot, Judge, Confirm,
           Finish, Drain, Commit, Recover, Fail, Crash, rows
      <4> QED
        BY <4>1
    <3> QED
      BY <3>1, <3>2
  <2> QED
    BY <1>0, <1>1, <2>1, RootKept
<1> QED
  BY <1>2, <1>3, <1>5, <1>6, <1>7, <1>8

LEMMA ForwardStays ==
    ASSUME TypeOK, Chained, Recorded, Unbroken, Next, ~Commit("apply")
    PROVE  Forward'
<1>0. pass \in Passes /\ Idle.pc = "idle" /\ Observe.pc = "snapshot" /\ chapter.rev <= Tip.rev /\ Forward
      /\ Tip.rev \in Int
  BY Types, Revisions DEF Idle, Observe, Unbroken, Placed
<1>1. ASSUME NEW c \in Changes, NEW f \in Fields, Push(c, f)
      PROVE  Forward'
  BY <1>0, <1>1, PushSays DEF Grows, Forward, Tree, Reading, Chained
<1>2. CASE Beside
  BY <1>0, <1>2, BesideSays DEF SamePass, Forward, Tree, Reading
<1>3. CASE Snapshot
  <2>1. Tree' = Tip /\ chapter' = chapter
    BY <1>0, <1>3 DEF Snapshot, Passes, Tree, Tip, git, rows
  <2> QED
    BY <1>0, <2>1 DEF Forward
<1>4. CASE Rebuild
  <2>1. Reading /\ pass'.at = pass.at /\ branch' = branch /\ chapter'.rev = Tree.rev
    BY <1>0, <1>4 DEF Rebuild, Passes, Reading, git
  <2>2. Tree' = Tree /\ Tree.rev \in Int
    BY <2>1, ReadTree DEF Tree, Trees
  <2> QED
    BY <2>1, <2>2 DEF Forward
<1>5. CASE Judge \/ Reanchor
  <2>1. Reading /\ pass'.at = pass.at /\ branch' = branch /\ chapter' = chapter
    BY <1>0, <1>5 DEF Judge, Reanchor, Passes, Reading, git, rows
  <2> QED
    BY <1>0, <2>1 DEF Forward, Tree
<1>6. CASE Alarm \/ Confirm \/ Finish \/ \E k \in Commits : Requested(k)
  <2>1. pass'.pc \in {"idle", "snapshot"}
    BY <1>0, <1>6 DEF Alarm, Confirm, Finish, Requested
  <2> QED
    BY <2>1 DEF Forward, Reading
<1>7. CASE Drain \/ Crash
  BY <1>7, DrainSays, CrashSays DEF Forward
<1> QED
  BY <1>1, <1>2, <1>3, <1>4, <1>5, <1>6, <1>7 DEF Next, Author, Beside, Refresh, Commits

LEMMA AppliedStays ==
    ASSUME TypeOK, Chained, Recorded, Unbroken, ~AuthorBroke', Next, ~Commit("apply")
    PROVE  Applied'
<1>0. /\ landed'["apply"] = landed["apply"]
      /\ \A r : (Turned(r))' <=> Turned(r)
      /\ Turned(chapter.rev) => (Turned(chapter.rev))'
  BY SameTurn, PlacedStays
<1> SUFFICES ASSUME landed["apply"] # 0, "apply" \notin queue'
             PROVE  (Turned(chapter.rev))'
  BY <1>0 DEF Applied
<1>1. CASE "apply" \notin queue
  BY <1>0, <1>1 DEF Unbroken, Applied
<1>2. CASE "apply" \in queue
  <2>1. Finalize /\ drain.op = "apply"
    <3>1. \/ queue \subseteq queue'
          \/ Finalize /\ queue' = queue \ {drain.op}
          \/ \E o \in Ops : Fail(o) /\ queue' = queue \ {o} /\ landed[o] = 0
      BY BesideSays, RefreshSays, CrashSays, PushSays DEF Next, Author, Beside, Drain, Commit, Recover,
         Fail, Finalize, AfterDrain, ops
    <3> QED
      BY <1>2, <3>1
  <2>2. landed["apply"] \in Commits /\ branch[landed["apply"]].task = "completed"
    BY <2>1, ApplyIsThere DEF Unbroken, Straight
  <2>3. chapter'.rev = branch[landed["apply"]].rev
    BY <2>1, <2>2 DEF Finalize
  <2>4. Turned(chapter'.rev)
    BY <2>2, <2>3, Revisions DEF Turned
  <2> QED
    BY <1>0, <2>4
<1> QED
  BY <1>1, <1>2

LEMMA AnchoredStays ==
    ASSUME TypeOK, Chained, Recorded, Accepted, Notified, Anchored, Next
    PROVE  Anchored'
<1> SUFFICES ASSUME ~AuthorBroke'
             PROVE  Unbroken'
  BY DEF Anchored
<1>1. Unbroken /\ Projected
  BY BrokenStays DEF Anchored, Notified
<1>2. CASE Commit("apply")
  BY <1>1, <1>2, ApplyLands
<1>3. CASE ~Commit("apply")
  <2>1. Straight' /\ Placed' /\ Forward' /\ Applied' /\ \A n \in Notes : Rooted(n)'
    BY <1>1, <1>3, StraightStays, PlacedStays, RootedStays, ForwardStays, AppliedStays DEF Unbroken
  <2> QED
    BY <2>1 DEF Unbroken
<1> QED
  BY <1>2, <1>3
-----------------------------------------------------------------------------
(* What a drain owes, and why no project diverges of itself.               *)

LEMMA FinishedStays ==
    ASSUME TypeOK, Chained, Accepted, Finished, Next
    PROVE  Finished'
<1>0. blind \subseteq blind' /\ landed \in [Ops -> Nat] /\ queue \subseteq Ops
  BY BlindGrows, Types
<1>1. ASSUME NEW c \in Changes, NEW f \in Fields, Push(c, f)
      PROVE  Finished'
  BY <1>1, PushSays DEF Finished, Landing
<1>2. CASE Beside
  <2>1. UNCHANGED <<landed, drain>>
    BY <1>2, BesideSays
  <2>2. \A o \in queue' \ Edits : o \in queue \/ landed[o] = 0
    BY <1>2 DEF Beside, Webhook, Api, MarkStale, LoseHandler, Annotate, Claim, EndLease, Submit,
       ReadSettings, SaveSettings, Clear, ops
  <2> QED
    BY <1>0, <2>1, <2>2 DEF Finished, Landing
<1>3. CASE Refresh
  BY <1>0, <1>3, RefreshSays DEF Finished, Landing
<1>4. ASSUME NEW o \in Ops, Commit(o)
      PROVE  Finished'
  <2>1. /\ queue' = queue /\ blind' = blind /\ drain.pc = "idle"
        /\ drain' = [pc |-> "landed", op |-> o]
    BY <1>4 DEF Commit, Turn, Free, Resting
  <2>2. \A p \in Ops : p # o => landed'[p] = landed[p]
    BY <1>4, CommitSays
  <2> QED
    BY <1>0, <2>1, <2>2 DEF Finished, Landing
<1>5. ASSUME NEW o \in Ops, Recover(o) \/ Fail(o)
      PROVE  Finished'
  <2>1. drain.pc = "idle" /\ landed' = landed /\ queue' \subseteq queue
    BY <1>5 DEF Recover, Fail, Turn, Free, Resting, ops
  <2>2. \A p \in queue \ Edits : landed[p] # 0 => "unhooked" \in blind
    BY <2>1 DEF Finished, Landing
  <2> QED
    BY <1>0, <2>1, <2>2 DEF Finished
<1>6. CASE Finalize
  <2>1. landed' = landed /\ queue' = queue \ {drain.op}
    BY <1>6 DEF Finalize
  <2>2. \A p \in queue' \ Edits : landed[p] # 0 => "unhooked" \in blind
    BY <2>1 DEF Finished, Landing
  <2> QED
    BY <1>0, <2>1, <2>2 DEF Finished
<1>7. CASE AfterDrain
  <2>1. landed' = landed /\ queue' = queue /\ drain.pc = "hook"
    BY <1>7 DEF AfterDrain, ops
  <2>2. \A p \in queue \ Edits : landed[p] # 0 => "unhooked" \in blind
    BY <2>1 DEF Finished, Landing
  <2> QED
    BY <1>0, <2>1, <2>2 DEF Finished
<1>8. CASE Crash
  <2>1. landed' = landed /\ queue' = queue
        /\ blind' = IF drain # Resting THEN blind \cup {"unhooked"} ELSE blind
    BY <1>8, CrashSays
  <2>2. CASE drain = Resting
    BY <1>0, <2>1, <2>2 DEF Finished, Landing, Resting
  <2>3. CASE drain # Resting
    BY <2>1, <2>3 DEF Finished
  <2> QED
    BY <2>2, <2>3
<1> QED
  BY <1>1, <1>2, <1>3, <1>4, <1>5, <1>6, <1>7, <1>8 DEF Next, Author, Beside, Drain

\* Then a pass never finds the submission's block where the chapter has the old one.
LEMMA SameBlock ==
    ASSUME TypeOK, Chained, Recorded, Unbroken, Finished, "unhooked" \notin blind, Reading, drain = Resting
    PROVE  Tree.block = chapter.block /\ ~Regressed(Tree)
<1>1. /\ pass.at \in Commits /\ Tree.block = BlockAt(Tree.rev) /\ chapter.block = BlockAt(chapter.rev)
      /\ chapter.rev <= Tree.rev
  BY DEF Chained, Tree, Unbroken, Straight, Placed, Forward
<1>2. Tree.rev \in Int /\ chapter.rev \in Int
  BY <1>1, Revisions DEF Tree
<1>3. landed["apply"] # 0 => Turned(chapter.rev)
  BY OpsAre DEF Finished, Landing, Resting, Unbroken, Applied
<1>4. landed["apply"] # 0 => Turned(Tree.rev)
  BY <1>1, <1>2, <1>3, TurnedOn
<1>5. landed["apply"] = 0 => Tree.block = "old" /\ chapter.block = "old"
  BY <1>1, <1>2, TurnedOn
<1>6. Tree.block = chapter.block
  BY <1>1, <1>3, <1>4, <1>5 DEF BlockAt
<1> QED
  BY <1>1, <1>2, <1>6 DEF Regressed

LEMMA AttachedStays ==
    ASSUME TypeOK, Chained, Recorded, Accepted, Projected, Unbroken, Finished, Attached, Whole, Whole', Next
    PROVE  Attached'
<1>0. note \in [Notes -> NoteRows] /\ Resting.pc = "idle"
  BY Types DEF Resting
<1>1. CASE Author
  BY <1>1, PushSays DEF Author, Attached
<1>2. CASE Beside
  <2>1. UNCHANGED <<chapter, drain>>
    BY <1>2, BesideSays
  <2>2. \A n \in Notes : note'[n].status = "open" => note'[n] = note[n]
    <3>1. CASE \E m \in Notes : Annotate(m)
      BY <1>0, <3>1 DEF Annotate
    <3>2. CASE ~ \E m \in Notes : Annotate(m)
      <4>1. note' = note
        BY <1>2, <3>2 DEF Beside, Webhook, Api, MarkStale, LoseHandler, Claim, EndLease, Submit,
           ReadSettings, SaveSettings, Clear, rows
      <4> QED
        BY <4>1
    <3> QED
      BY <3>1, <3>2
  <2> QED
    BY <2>1, <2>2 DEF Attached
<1>3. CASE Rebuild
  <2>1. Reading /\ drain = Resting /\ drain' = drain
    BY <1>3, RefreshSays DEF Rebuild, Reading, Refresh
  <2>2. chapter'.block = chapter.block
    BY <1>3, <2>1, SameBlock DEF Rebuild, Whole
  <2>3. ASSUME NEW n \in Notes, note'[n].status = "open"
        PROVE  note'[n].target = chapter.block
    <3>1. CASE n \in Tree.files
      <4>1. note'[n].target = note[n].target
        BY <1>0, <1>3, <3>1 DEF Rebuild, Restored, NoteRows
      <4>2. note[n].status # "needs_reanchor"
        BY <1>3, <3>1 DEF Rebuild, Whole
      <4>3. landed[n] # 0
        BY <2>1, <3>1 DEF Recorded, Tree, Chained
      <4>4. note[n].status # "absent"
        BY <4>3 DEF Accepted
      <4>5. note[n].status # "pending"
        <5>1. note[n].status = "pending" => n \in queue \ Edits
          BY OpsAre DEF Accepted
        <5> QED
          BY <2>1, <4>3, <5>1 DEF Finished, Whole, Landing, Resting
      <4>6. note[n].status = "open"
        BY <1>0, <4>2, <4>4, <4>5 DEF NoteRows
      <4> QED
        BY <1>0, <2>1, <4>1, <4>6 DEF Attached
    <3>2. CASE n \notin Tree.files
      <4>1. note'[n] = note[n]
        BY <1>0, <1>3, <2>3, <3>2 DEF Rebuild, NoteRows
      <4> QED
        BY <1>0, <2>1, <2>3, <4>1 DEF Attached
    <3> QED
      BY <3>1, <3>2
  <2> QED
    BY <2>2, <2>3 DEF Attached
<1>4. CASE Reanchor
  <2>1. Reading /\ drain = Resting /\ drain' = drain /\ chapter' = chapter /\ chapter = Prose(Tree)
    BY <1>4, RefreshSays DEF Reanchor, Reading, Refresh, Projected
  <2>2. chapter.block = Tree.block
    BY <1>4 DEF Reanchor, Projected, Prose
  <2>3. ASSUME NEW n \in Notes, note'[n].status = "open"
        PROVE  note'[n].target = chapter.block
    <3>1. CASE pass.edited /\ note[n].status = "open"
      BY <1>0, <1>4, <2>2, <2>3, <3>1 DEF Reanchor, Reanchored, NoteRows
    <3>2. CASE ~(pass.edited /\ note[n].status = "open")
      <4>1. note'[n] = note[n]
        BY <1>4, <3>2 DEF Reanchor
      <4> QED
        BY <1>0, <2>1, <2>3, <4>1 DEF Attached
    <3> QED
      BY <3>1, <3>2
  <2> QED
    BY <2>1, <2>3 DEF Attached
<1>5. CASE Finalize
  <2>1. drain'.pc = "hook"
    BY <1>5 DEF Finalize, TypeOK
  <2> QED
    BY <2>1 DEF Attached
<1>6. CASE AfterDrain
  <2>1. ASSUME NEW n \in Notes, note'[n].status = "open"
        PROVE  note'[n].target = chapter.block
    <3>1. CASE n \in Owed
      <4>1. note'[n] = Reanchored(n, chapter.block, chapter.rev)
        BY <1>6, <3>1 DEF AfterDrain
      <4> QED
        BY <1>0, <2>1, <4>1 DEF Reanchored, NoteRows
    <3>2. CASE n \notin Owed
      <4>1. note'[n] = note[n]
        BY <1>6, <3>2 DEF AfterDrain
      <4>2. note[n].status = "open" /\ note[n].rev >= chapter.rev /\ note[n].rev \in Int /\ chapter.rev \in Int
        BY <2>1, <3>2, <4>1, Revisions DEF Owed
      <4>3. /\ note[n].target = BlockAt(note[n].rev) /\ chapter.block = BlockAt(chapter.rev)
            /\ Turned(note[n].rev) => Turned(chapter.rev)
        BY <4>2 DEF Unbroken, Rooted, Placed
      <4>4. Turned(chapter.rev) => Turned(note[n].rev)
        BY <4>2, TurnedOn
      <4> QED
        BY <4>1, <4>3, <4>4 DEF BlockAt
    <3> QED
      BY <3>1, <3>2
  <2>2. chapter' = chapter
    BY <1>6 DEF AfterDrain
  <2> QED
    BY <2>1, <2>2 DEF Attached
<1>7. CASE \/ Crash
           \/ \E k \in Commits : Requested(k)
           \/ Alarm \/ Snapshot \/ Judge \/ Confirm \/ Finish
           \/ \E o \in Ops : Commit(o) \/ Recover(o) \/ Fail(o)
  <2>1. UNCHANGED <<note, chapter>>
    BY <1>7 DEF Crash, Requested, Alarm, Snapshot, Judge, Confirm, Finish, Commit, Recover, Fail, rows
  <2>2. drain.pc # "hook"
    <3>1. CASE Crash
      BY <1>0, <3>1, CrashSays DEF Whole
    <3>2. CASE ~Crash
      BY <1>0, <1>7, <3>2, RefreshSays DEF Refresh, Commits, Commit, Recover, Fail, Turn, Free
    <3> QED
      BY <3>1, <3>2
  <2> QED
    BY <2>1, <2>2 DEF Attached
<1> QED
  BY <1>1, <1>2, <1>3, <1>4, <1>5, <1>6, <1>7 DEF Next, Beside, Refresh, Drain, Commits

\* So a pass finds nothing broken, and no project diverges.
LEMMA ConvergedStays ==
    ASSUME TypeOK, Chained, Recorded, Unbroken, Finished, Attached, Converged, Whole, Next
    PROVE  Converged'
<1>0. pass \in Passes /\ project \in [stale : BOOLEAN, diverged : BOOLEAN]
      /\ Idle.pc = "idle" /\ Observe.pc = "snapshot"
  BY Types DEF Idle, Observe
<1>1. CASE Author
  BY <1>1, PushSays DEF Author, Converged
<1>2. CASE Beside
  <2>1. project'.diverged => project.diverged
    BY <1>0, <1>2 DEF Beside, Webhook, Api, MarkStale, LoseHandler, Annotate, Claim, EndLease, Submit,
       ReadSettings, SaveSettings, Clear
  <2> QED
    BY <1>2, <2>1, BesideSays DEF Converged, SamePass
<1>3. CASE Judge
  <2>1. Reading /\ drain = Resting /\ project' = project
    BY <1>3, RefreshSays DEF Judge, Reading, Refresh
  <2>2. Tree.block = chapter.block /\ ~Regressed(Tree)
    BY <2>1, SameBlock DEF Whole
  <2>3. Stranded(Tree) = {}
    BY <2>1, <2>2 DEF Stranded, Attached, Resting
  <2>4. pass'.pc = "rebuild"
    <3>1. ~Broken(Tree)
      BY <2>2, <2>3 DEF Broken
    <3> QED
      BY <1>0, <1>3, <3>1 DEF Judge, Passes
  <2> QED
    BY <2>1, <2>4 DEF Converged
<1>4. CASE Confirm
  BY <1>4 DEF Confirm, Converged
<1>5. CASE Finish
  BY <1>0, <1>5 DEF Finish, Converged
<1>6. CASE Alarm \/ Snapshot \/ Rebuild \/ Reanchor \/ \E k \in Commits : Requested(k)
  BY <1>0, <1>6 DEF Alarm, Snapshot, Rebuild, Reanchor, Requested, Converged, Passes
<1>7. CASE Drain
  BY <1>0, <1>7, DrainSays DEF Converged
<1>8. CASE Crash
  BY <1>0, <1>8, CrashSays DEF Converged
<1> QED
  BY <1>1, <1>2, <1>3, <1>4, <1>5, <1>6, <1>7, <1>8 DEF Next, Beside, Refresh, Commits

LEMMA HealedStays ==
    ASSUME TypeOK, Chained, Recorded, Accepted, Notified, Anchored, Healed, Next
    PROVE  Healed'
<1>1. Finished
  BY DEF Healed
<1>2. Finished'
  BY <1>1, FinishedStays
<1>3. ASSUME Whole'
      PROVE  Attached' /\ Converged'
  <2>1. Whole
    BY <1>3, BlindGrows, BrokenStays DEF Whole
  <2>2. Attached /\ Converged /\ Unbroken /\ Projected
    BY <2>1 DEF Whole, Healed, Anchored, Notified
  <2> QED
    BY <1>1, <1>3, <2>1, <2>2, AttachedStays, ConvergedStays
<1> QED
  BY <1>2, <1>3 DEF Healed

-----------------------------------------------------------------------------
(* The item and its lease.                                                 *)

LEMMA HeldStays ==
    ASSUME TypeOK, Chained, Recorded, Held, Next
    PROVE  Held'
<1>0. /\ item \in [status : {"ready", "leased", "submitted", "completed", "conflict"}, lease : BOOLEAN]
      /\ blind \subseteq blind' /\ pass \in Passes /\ landed \in [Ops -> Nat] /\ "apply" \in Ops
      /\ "apply" \notin Notes /\ "apply" \notin Edits
      /\ Idle.pc = "idle" /\ Observe.pc = "snapshot"
  BY Types, BlindGrows, OpsAre DEF Idle, Observe
<1> SUFFICES ASSUME "inflight" \notin blind'
             PROVE  Kept'
  BY DEF Held
<1>1. Kept
  BY <1>0 DEF Held
\* Where the item, its operation and the pass are left alone.
<1>2. ASSUME item' = item, "apply" \in queue' => "apply" \in queue, landed'["apply"] = landed["apply"],
             pass'.pc = "rebuild" => pass.pc = "rebuild" /\ pass'.leased = pass.leased
      PROVE  Kept'
  BY <1>0, <1>1, <1>2 DEF Kept
<1>3. CASE Author
  BY <1>2, <1>3, PushSays DEF Author
<1>4. CASE Beside
  <2>1. SamePass /\ landed' = landed
    BY <1>4, BesideSays
  <2>2. CASE Claim
    <3>1. /\ item.status = "ready" /\ item'.status = "leased" /\ item'.lease /\ queue' = queue
          /\ blind' = IF pass.pc = "rebuild" THEN blind \cup {"claim"} ELSE blind
      BY <2>2 DEF Claim, ops
    <3> QED
      BY <1>1, <2>1, <3>1 DEF Kept, SamePass
  <2>3. CASE EndLease
    <3>1. /\ item'.status = IF item.status = "leased" THEN "ready" ELSE item.status
          /\ item'.lease = FALSE /\ queue' = queue
      BY <2>3 DEF EndLease, ops
    <3> QED
      BY <1>1, <2>1, <3>1 DEF Kept
  <2>4. CASE Submit
    <3>1. item'.status = "submitted" /\ item'.lease = FALSE
      BY <2>4 DEF Submit
    <3> QED
      BY <1>1, <2>1, <3>1 DEF Kept
  <2>5. CASE ~Claim /\ ~EndLease /\ ~Submit
    <3>1. item' = item /\ ("apply" \in queue' => "apply" \in queue)
      BY <1>0, <1>4, <2>5 DEF Beside, Webhook, Api, MarkStale, LoseHandler, Annotate,
         ReadSettings, SaveSettings, Clear, rows, ops
    <3> QED
      BY <1>2, <2>1, <3>1 DEF SamePass
  <2> QED
    BY <2>2, <2>3, <2>4, <2>5
<1>5. CASE Refresh
  <2>1. landed' = landed /\ queue' = queue
    BY <1>5, RefreshSays
  <2>2. CASE Judge
    <3>1. item' = item /\ blind' = blind
      BY <2>2 DEF Judge, rows, hist
    <3>2. pass'.pc = "rebuild" => pass'.leased = item.lease
      <4> DEFINE edited == Tree.text # chapter.text
                 leased == item.lease
                 listed == {n \in Notes : note[n].status \notin {"absent", "pending"}}
      <4>1. leased \in BOOLEAN /\ leased = item.lease
        BY <1>0
      <4>2. \/ pass' = [pass EXCEPT !.pc = "confirm"]
            \/ pass' = [pass EXCEPT !.pc = "rebuild", !.edited = edited, !.leased = leased, !.listed = listed]
        BY <2>2 DEF Judge
      <4> HIDE DEF edited, leased, listed
      <4> QED
        BY <1>0, <4>1, <4>2 DEF Passes
    <3> QED
      BY <1>1, <2>1, <3>1, <3>2 DEF Kept
  <2>3. CASE Rebuild
    <3>1. /\ pass.at \in Commits /\ landed["apply"] <= pass.at /\ landed["apply"] \in Nat
      BY <1>0, <2>3 DEF Rebuild, Chained, Reading
    <3>2. Tree.task = "ready" <=> landed["apply"] = 0
      BY <3>1 DEF Recorded, Tree, Commits
    <3>3. Tree.task \in {"ready", "completed", "conflict"}
      BY <2>3, ReadTree DEF Rebuild, Reading, Trees
    <3>4. item.status # "submitted"
      BY <2>3 DEF Rebuild
    <3>5. "apply" \notin queue
      BY <1>1, <3>4 DEF Kept
    <3>6. /\ item'.status = IF Tree.task = "ready" /\ pass.leased THEN "leased" ELSE Tree.task
          /\ item'.lease = item.lease
      BY <1>0, <2>3 DEF Rebuild, RestoredStatus
    <3>7. pass'.pc = "anchor" /\ pass.pc = "rebuild"
      BY <1>0, <2>3 DEF Rebuild, Passes
    <3>8. item'.lease /\ "claim" \notin blind' => item'.status = "leased"
      BY <1>0, <1>1, <3>2, <3>6, <3>7 DEF Kept
    <3> QED
      BY <2>1, <3>2, <3>3, <3>5, <3>6, <3>7, <3>8 DEF Kept
  <2>4. CASE ~Judge /\ ~Rebuild
    <3>1. item' = item /\ pass'.pc # "rebuild"
      BY <1>0, <1>5, <2>4 DEF Refresh, Requested, Alarm, Snapshot, Confirm, Reanchor, Finish, Passes, rows
    <3> QED
      BY <1>2, <2>1, <3>1
  <2> QED
    BY <2>2, <2>3, <2>4
<1>6. CASE Drain
  <2>1. pass'.pc = "idle"
    BY <1>0, <1>6, DrainSays
  <2>2. ASSUME NEW o \in Ops, Commit(o)
        PROVE  Kept'
    <3>1. item' = item /\ queue' = queue /\ o \in queue /\ blind' = blind
      BY <2>2 DEF Commit, rows
    <3>2. o # "apply" => landed'["apply"] = landed["apply"]
      BY <1>0, <2>2, CommitSays
    <3> QED
      BY <1>1, <2>1, <3>1, <3>2 DEF Kept
  <2>3. ASSUME NEW o \in Ops, Recover(o)
        PROVE  Kept'
    BY <1>2, <2>1, <2>3 DEF Recover, rows, ops
  <2>4. ASSUME NEW o \in Ops, Fail(o)
        PROVE  Kept'
    <3>1. /\ landed' = landed /\ queue' = queue \ {o} /\ o \in queue
          /\ item' = IF o = "apply" /\ item.status = "submitted"
                     THEN [item EXCEPT !.status = "conflict"] ELSE item
      BY <2>4 DEF Fail
    <3>2. CASE o = "apply"
      <4>1. item.status = "submitted" /\ ~item.lease /\ item'.status = "conflict" /\ ~item'.lease
        BY <1>0, <1>1, <3>1, <3>2 DEF Kept
      <4> QED
        BY <3>1, <3>2, <4>1 DEF Kept
    <3>3. CASE o # "apply"
      BY <1>2, <2>1, <3>1, <3>3
    <3> QED
      BY <3>2, <3>3
  <2>5. CASE Finalize
    <3>1. /\ landed' = landed /\ queue' = queue \ {drain.op} /\ drain.op \in queue
          /\ drain.op = "apply" => item' = [item EXCEPT !.status = branch[landed["apply"]].task]
          /\ drain.op # "apply" => item' = item
      BY <2>5 DEF Finalize, Chained
    <3>2. CASE drain.op = "apply"
      <4>1. landed["apply"] \in Commits /\ branch[landed["apply"]] \in Trees
        BY <2>5, <3>2, InHand DEF Finalize
      <4>2. branch[landed["apply"]].task \in {"completed", "conflict"}
        BY <4>1 DEF Recorded, Commits, Trees
      <4>3. item.status = "submitted" /\ ~item.lease
        BY <1>1, <3>1, <3>2 DEF Kept
      <4>4. item'.status \in {"completed", "conflict"} /\ ~item'.lease
        BY <1>0, <3>1, <3>2, <4>2, <4>3
      <4> QED
        BY <3>1, <3>2, <4>4 DEF Kept
    <3>3. CASE drain.op # "apply"
      BY <1>2, <2>1, <3>1, <3>3
    <3> QED
      BY <3>2, <3>3
  <2>6. CASE AfterDrain
    BY <1>2, <2>1, <2>6 DEF AfterDrain, ops
  <2> QED
    BY <1>6, <2>2, <2>3, <2>4, <2>5, <2>6 DEF Drain
<1>7. CASE Crash
  BY <1>0, <1>2, <1>7, CrashSays
<1> QED
  BY <1>3, <1>4, <1>5, <1>6, <1>7 DEF Next, Beside
-----------------------------------------------------------------------------
(* The invariant.                                                          *)

LEMMA Begin == Init => Inv
<1> SUFFICES ASSUME Init
             PROVE  Inv
  OBVIOUS
<1>1. TypeOK
  BY InitTyped
<1>2. /\ Len(branch) = 1 /\ branch[1] = FirstTree /\ Tip = FirstTree /\ Commits = {1}
      /\ \A o \in Ops : landed[o] = 0
      /\ queue = {} /\ blind = {}
  BY DEF Init, Tip, Commits
<1>3. /\ FirstTree.rev = 1 /\ FirstTree.block = "old" /\ FirstTree.files = {} /\ FirstTree.task = "ready"
      /\ FirstTree.change = "first" /\ FirstTree.text = 1
  BY DEF FirstTree
<1>4. /\ pass = Idle /\ drain = Resting /\ Idle.pc = "idle" /\ Resting.pc = "idle" /\ Idle.listed = {}
      /\ chapter = [rev |-> 1, text |-> 1, block |-> "old"]
      /\ \A n \in Notes : note[n].status = "absent"
      /\ project.diverged = FALSE
      /\ item = [status |-> "ready", lease |-> FALSE]
      /\ book.op = None /\ book.value = FirstTree.config /\ wrote = FirstTree.config
  BY DEF Init, Idle, Resting
<1>5. Chained
  BY <1>4 DEF Chained, Reading
<1>6. Recorded
  BY <1>2, <1>3, OpsAre DEF Recorded
<1>7. Accepted
  BY <1>2, <1>4, OpsAre DEF Accepted
<1>8. Settled
  BY <1>2, <1>4 DEF Settled
<1>9. Notified
  BY <1>2, <1>3, <1>4 DEF Notified, Projected, Later, Since, ProseBehind, ConfigBehind, Reading, Prose
<1>10. Anchored
  <2>1. \A r : ~Turned(r) /\ BlockAt(r) = "old"
    BY <1>2, OpsAre DEF Turned, BlockAt
  <2>2. Straight
    BY <1>2, <1>3, <2>1, OpsAre DEF Straight
  <2>3. Placed
    BY <1>2, <1>3, <1>4, <2>1 DEF Placed
  <2> QED
    BY <1>2, <1>4, <2>2, <2>3, OpsAre DEF Anchored, Unbroken, Rooted, Forward, Reading, Applied
<1>11. Healed
  BY <1>2, <1>4 DEF Healed, Finished, Attached, Converged
<1>12. Held
  BY <1>2, <1>4, OpsAre DEF Held, Kept
<1> QED
  BY <1>1, <1>5, <1>6, <1>7, <1>8, <1>9, <1>10, <1>11, <1>12 DEF Inv

LEMMA TypeStays ==
    ASSUME TypeOK, Chained, Recorded, Settled, Next
    PROVE  TypeOK'
BY PushTyped, HookTyped, ApiTyped, PassTyped, DrainTyped, CrashTyped DEF Next, Author, Webhook, Commits

LEMMA Step == Inv /\ [Next]_vars => Inv'
<1> SUFFICES ASSUME Inv, [Next]_vars
             PROVE  Inv'
  OBVIOUS
<1>1. TypeOK /\ Chained /\ Recorded /\ Accepted /\ Settled /\ Notified /\ Anchored /\ Healed /\ Held
  BY DEF Inv
<1>2. CASE Next
  <2>1. TypeOK' /\ Chained' /\ Recorded' /\ Accepted'
    BY <1>1, <1>2, TypeStays, ChainedStays, RecordedStays, AcceptedStays
  <2>2. Settled' /\ Notified' /\ Anchored' /\ Healed' /\ Held'
    BY <1>1, <1>2, SettledStays, NotifiedStays, AnchoredStays, HealedStays, HeldStays
  <2> QED
    BY <2>1, <2>2 DEF Inv
<1>3. CASE UNCHANGED vars
  <2>1. UNCHANGED <<branch, hook, project, chapter, note, item, book, form, edit, queue, landed, pass,
                    drain, crashes, wrote, blind>>
    BY <1>3 DEF vars, git, rows, ops, chain, hist
  <2>2. TypeOK'
    BY <1>1, <2>1 DEF TypeOK
  <2>3. Chained' /\ Recorded' /\ Accepted' /\ Settled'
    BY <1>1, <2>1 DEF Chained, Recorded, Accepted, Settled, Reading, Commits, Tip
  <2>4. Notified'
    <3>1. Tip' = Tip /\ (Told' <=> Told) /\ (Reading' <=> Reading) /\ Commits' = Commits /\ Tree' = Tree
          /\ (Announced' <=> Announced)
      BY <2>1 DEF Tip, Told, Reading, Commits, Tree, Announced
    <3> QED
      BY <1>1, <2>1, <3>1 DEF Notified, Projected, Later, Since, ProseBehind, ConfigBehind, Prose
  <2>5. Anchored'
    <3>1. (AuthorBroke' <=> AuthorBroke) /\ Tip' = Tip /\ Commits' = Commits /\ Tree' = Tree
          /\ (Reading' <=> Reading) /\ \A r : ((Turned(r))' <=> Turned(r)) /\ (BlockAt(r))' = BlockAt(r)
      BY <2>1 DEF AuthorBroke, Tip, Commits, Tree, Reading, Turned, BlockAt
    <3> QED
      BY <1>1, <2>1, <3>1 DEF Anchored, Unbroken, Straight, Placed, Rooted, Forward, Applied
  <2>6. Healed' /\ Held'
    BY <1>1, <2>1 DEF Healed, Finished, Whole, Attached, Converged, Held, Kept, Landing, AuthorBroke
  <2> QED
    BY <2>2, <2>3, <2>4, <2>5, <2>6 DEF Inv
<1> QED
  BY <1>2, <1>3

\* Inv is an invariant.
THEOREM Invariance == Spec => []Inv
<1> QED
  BY Begin, Step, PTL DEF Spec

\* Every variable has its type: a tree is a tree, a pass's snapshot is a number.
THEOREM TypeCorrect == Spec => []TypeOK
<1>1. Inv => TypeOK
  BY DEF Inv
<1> QED
  BY <1>1, Invariance, PTL

-----------------------------------------------------------------------------
(* What follows.                                                           *)

\* When no refresh is owed the chapter's row and the settings row are those at
\* the head of the branch, however the webhooks, their lost calls, the alarm,
\* crashed passes and the book's own commits fell out, but for the reasons named.
THEOREM EveryPushProjected == Spec => []ProjectionCurrent
<1>1. ASSUME Inv, Quiet, Told
      PROVE  /\ chapter = [rev |-> Tip.rev, text |-> Tip.text, block |-> Tip.block]
             /\ "released" \in blind \/ book.value = Tip.config
  <2>1. Notified /\ Settled
    BY <1>1 DEF Inv
  <2>2. ~Announced
    BY <1>1 DEF Quiet, Announced, Commits
  <2>3. book.op = None
    BY <1>1, <2>1 DEF Quiet, Settled
  <2> QED
    BY <1>1, <2>1, <2>2, <2>3 DEF Notified, ProseBehind, ConfigBehind, Prose
<1>2. Inv => ProjectionCurrent
  BY <1>1 DEF ProjectionCurrent
<1> QED
  BY <1>2, Invariance, PTL

\* A settings row never waits for an operation that is no longer queued.
THEOREM SettingsMoveOn == Spec => []SettingsNotStranded
<1>1. Inv => SettingsNotStranded
  BY DEF Inv, Settled, SettingsNotStranded
<1> QED
  BY <1>1, Invariance, PTL

\* Neither the settings form nor an edit in Git takes back the other's field.
THEOREM FieldsSurvive == Spec => []NoFieldReverted
<1>1. Inv => NoFieldReverted
  BY DEF Inv, Settled, NoFieldReverted
<1> QED
  BY <1>1, Invariance, PTL

\* A rebuild drops no accepted annotation, no anchor that is owed and no lease,
\* however it races with drains, claims and crashes.
THEOREM NothingLost == Spec => []RebuildLosesNothing
<1>1. Inv => AcceptedNotesKept
  <2> SUFFICES ASSUME Inv, NEW n \in Notes, n \in queue \/ n \in Tip.files
               PROVE  note[n].status # "absent"
    BY DEF AcceptedNotesKept
  <2>1. TypeOK /\ Recorded /\ Accepted
    BY DEF Inv
  <2>2. n \in Tip.files => landed[n] # 0
    BY <2>1, CommitsTyped DEF Recorded, Tip
  <2> QED
    BY <2>1, <2>2 DEF Accepted
<1>2. Inv => LostAnchorsAreOwed
  <2> SUFFICES ASSUME Inv, ~AuthorBroke, NEW n \in Notes, note[n].status = "open", note[n].target # chapter.block
               PROVE  note[n].rev < chapter.rev
    BY DEF LostAnchorsAreOwed, Owed
  <2>1. TypeOK /\ Recorded /\ Placed /\ Rooted(n)
    BY DEF Inv, Anchored, Unbroken
  <2>2. note[n].rev \in Int /\ chapter.rev \in Int
    BY <2>1, Revisions
  <2>3. BlockAt(note[n].rev) # BlockAt(chapter.rev) /\ (Turned(note[n].rev) => Turned(chapter.rev))
    BY <2>1 DEF Placed, Rooted
  <2>4. Turned(chapter.rev) /\ ~Turned(note[n].rev)
    BY <2>3 DEF BlockAt
  <2> QED
    BY <2>1, <2>2, <2>4, TurnedOn
<1>3. Inv => LeasedIsShown
  BY DEF Inv, Held, Kept, LeasedIsShown
<1>4. Inv => RebuildLosesNothing
  BY <1>1, <1>2, <1>3 DEF RebuildLosesNothing
<1> QED
  BY <1>4, Invariance, PTL

\* A project diverges only after its author broke it, never because of the
\* system's own commits, unless a flag was cleared or a drain was cut short.
THEOREM DivergenceHasCause == Spec => []DivergedForCause
<1>1. Inv => DivergedForCause
  BY DEF Inv, Healed, Whole, Converged, DivergedForCause
<1> QED
  BY <1>1, Invariance, PTL
=============================================================================
