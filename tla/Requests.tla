------------------------------ MODULE Requests ------------------------------
(***************************************************************************)
(* A mutating request on its way through the API: authentication, the      *)
(* idempotency lookup, the project guard with its write gate and rate      *)
(* limiter, the per-project serializer, the handler's reads, and the batch *)
(* that carries both the command and the claim of its idempotency key.     *)
(*                                                                         *)
(* The handlers are the control plane (roles, removals, tokens, freeze,    *)
(* pause, moderation) and the creation of an annotation.  Each await is a  *)
(* point where other requests run: what Arrive and Gate read is old by the *)
(* time the handler reads, and what the handler reads by the batch.        *)
(*                                                                         *)
(* A person is one actor with one session; an agent token is one actor of  *)
(* its own, owned by the person who minted it.                             *)
(***************************************************************************)
EXTENDS Integers, FiniteSets

CONSTANTS
    Humans, Tokens,
    Notes,        \* annotations queued for moderation at first
    Requests,     \* requests ever made; an annotation has its request's name
    Keys,         \* idempotency keys clients use
    Menu,         \* the commands clients send, as [op, target] records
    Isolates,     \* API isolates, each with a serializer of its own
    Policy,       \* the book's annotation policy
    PerActor, PerToken, PerSession,  \* the rate limiter's ceilings
    MaxWindow,    \* bound: rate-limit windows
    Nobody

Actors == Humans \cup Tokens
AllNotes == Notes \cup Requests

Control == {"promote", "demote", "remove", "mint", "revoke", "revokeAll",
            "reject", "freeze", "thaw", "pause", "resume"}
Collaboration == {"annotate", "approve"}
Classes == {"annotation", "control", "mutation"}

\* What the route of a command says its target is; what names nothing is not found.
Targets(op) ==
    CASE op \in {"promote", "demote", "remove"} -> Actors
      [] op \in {"mint", "revoke"} -> Tokens
      [] op \in {"approve", "reject"} -> AllNotes
      [] OTHER -> {Nobody}

ASSUME Kinds == /\ Humans \cap Tokens = {} /\ Nobody \notin Actors \cup Requests
                /\ Notes \cap Requests = {}
ASSUME Commands == /\ Menu \subseteq [op : Control \cup Collaboration,
                                      target : Actors \cup AllNotes \cup {Nobody}]
                   /\ \A cmd \in Menu : cmd.target \in Targets(cmd.op)
ASSUME Ceilings == /\ {PerActor, PerToken, PerSession, MaxWindow} \subseteq Nat
                   /\ PerToken <= PerActor /\ PerActor <= PerSession
ASSUME Policies == Policy \in {"open", "approval-gated", "collaborators-only", "locked"}

VARIABLES
    member,    \* project_memberships: role, or "none" once revoked
    session,   \* whether a person's session is live
    token,     \* agent_tokens: state and owner
    frozen, paused,
    note,      \* pending_annotations.status
    published, \* notes with a row in annotations, on their way to Git
    claims,    \* idempotency_keys, with the request whose batch claimed
    window,    \* the current rate-limit window
    count,     \* rate_limit_counters of this window, by actor and class
    busy,      \* per isolate, the request inside the serializer
    req,       \* the state of each request
    admitted,  \* history: requests the limiter let through, by owner and class
    raced      \* history: tokens minted after a removal had listed the owner's

access == <<member, session, token, frozen, paused, note, published>>
limiter == <<window, count, admitted>>
vars == <<access, claims, limiter, busy, req, raced>>
-----------------------------------------------------------------------------
Owner(a) == IF a \in Tokens THEN token[a].owner ELSE a
\* Seeded fault: approval, too, stays outside the serializer.
ApprovalOutside(cmd) == cmd.op \notin {"mint", "revoke", "annotate", "approve"}

\* Minting, revoking one token and annotating enter no serializer.
Serialized(cmd) == cmd.op \notin {"mint", "revoke", "annotate"}

Waiting == [pc |-> "unsent"]
Sent == [pc : {"gate", "read", "batch", "refused", "done", "replayed", "mismatch"},
         who : Actors, cmd : Menu, key : Keys, iso : Isolates,
         role : {"none", "maintainer", "editor"}, list : SUBSET Tokens,
         moot : BOOLEAN]

TypeOK ==
    /\ member \in [Actors -> {"none", "maintainer", "editor"}]
    /\ session \in [Humans -> BOOLEAN]
    /\ token \in [Tokens -> [state : {"unminted", "active", "revoked"},
                             owner : Humans \cup {Nobody}]]
    /\ frozen \in BOOLEAN /\ paused \in BOOLEAN
    /\ note \in [AllNotes -> {"absent", "pending", "approved", "rejected"}]
    /\ published \subseteq AllNotes
    /\ claims \subseteq [who : Actors, key : Keys, cmd : Menu, by : Requests]
    /\ window \in 0..MaxWindow
    /\ count \in [Actors \X Classes -> Nat]
    /\ busy \in [Isolates -> Requests \cup {Nobody}]
    /\ req \in [Requests -> {Waiting} \cup Sent]
    /\ admitted \in [Humans \X Classes -> [agents : Nat, all : Nat]]
    /\ raced \subseteq Tokens

Uncounted == [c \in Actors \X Classes |-> 0]
Unused == [c \in Humans \X Classes |-> [agents |-> 0, all |-> 0]]

\* The people are maintainers; any tokens already minted belong to one of
\* them and may have been given the maintainer role.
Init ==
    /\ \E minted \in SUBSET Tokens, h \in Humans, r \in {"editor", "maintainer"} :
         /\ token = [t \in Tokens |->
                       IF t \in minted THEN [state |-> "active", owner |-> h]
                       ELSE [state |-> "unminted", owner |-> Nobody]]
         /\ member = [a \in Actors |-> IF a \in Humans THEN "maintainer"
                                       ELSE IF a \in minted THEN r ELSE "none"]
    /\ session = [h \in Humans |-> TRUE]
    /\ frozen = FALSE /\ paused = FALSE
    /\ note = [n \in AllNotes |-> IF n \in Notes THEN "pending" ELSE "absent"]
    /\ published = {} /\ claims = {} /\ raced = {}
    /\ window = 0 /\ count = Uncounted /\ admitted = Unused
    /\ busy = [i \in Isolates |-> Nobody]
    /\ req = [r \in Requests |-> Waiting]
-----------------------------------------------------------------------------
(* The middleware.                                                         *)

Authenticates(a) ==
    IF a \in Humans THEN session[a] ELSE token[a].state = "active"

\* What a stored key answers a request: its response, or a mismatch when the
\* key was used for another request.
Stored(a, key) == {c \in claims : c.who = a /\ c.key = key}
AnswerFrom(stored, cmd) ==
    IF \E c \in stored : c.cmd = cmd THEN "replayed" ELSE "mismatch"

\* Authentication and the idempotency lookup.  The role is read here and
\* used for the rest of the request.  A replay is served before any guard.
Arrive(r, a, cmd, key, iso) ==
    /\ req[r] = Waiting /\ Authenticates(a)
    /\ LET stored == Stored(a, key) IN
         req' = [req EXCEPT ![r] =
                   [pc |-> IF stored = {} THEN "gate" ELSE AnswerFrom(stored, cmd),
                    who |-> a, cmd |-> cmd, key |-> key, iso |-> iso,
                    role |-> member[a], list |-> {}, moot |-> FALSE]]
    /\ UNCHANGED <<access, claims, limiter, busy, raced>>

To(r, pc) == req' = [req EXCEPT ![r].pc = pc]

\* A non-member is let in to annotate only, only by a session, and only when
\* the policy is a permissive one.
PolicyAdmits(q) ==
    /\ q.who \in Humans /\ q.cmd.op = "annotate"
    /\ Policy \in {"open", "approval-gated"}

\* Membership, authority, the write gate and the annotation policy.
Guarded(q) ==
    /\ q.role # "none" \/ PolicyAdmits(q)
    /\ q.cmd.op # "annotate" => q.role = "maintainer"
    /\ q.cmd.op \in Control \ {"reject"} => q.who \in Humans
    /\ frozen => q.cmd.op \in Control
    /\ paused => q.who \in Humans
    /\ q.cmd.op = "annotate" /\ Policy = "locked" => q.role = "maintainer"

\* The class of limit a command falls into.
RateLimitClass(cmd) ==
    CASE cmd.op = "annotate" -> "annotation"
      [] cmd.op = "approve" -> "mutation"
      [] OTHER -> "control"

\* Seeded fault: a token spends its own allowance and not its owner's.
OwnTokenOnly(q) == {q.who}

\* The counters a request spends: its actor's, and its owner's too when it is
\* an agent's.  An agent has one token, so its own counter is its token's.
Spends(q) == {q.who, Owner(q.who)}

WithinCeilings(q, c, class) ==
    IF q.who \in Humans THEN c[<<q.who, class>>] <= PerSession
    ELSE c[<<q.who, class>>] <= PerToken /\ c[<<Owner(q.who), class>>] <= PerActor

\* The project guard.  Every counter is incremented before any is judged.
Gate(r) ==
    LET q == req[r]
        class == RateLimitClass(q.cmd)
        counted == [c \in Actors \X Classes |->
                      count[c] + IF c \in Spends(q) \X {class} THEN 1 ELSE 0]
    IN
    /\ q.pc = "gate"
    /\ \/ /\ ~Guarded(q)
          /\ To(r, "refused") /\ UNCHANGED limiter
       \/ /\ Guarded(q)
          /\ count' = counted /\ UNCHANGED window
          /\ IF WithinCeilings(q, counted, class)
             THEN /\ To(r, "read")
                  /\ admitted' = [admitted EXCEPT
                       ![<<Owner(q.who), class>>].all = @ + 1,
                       ![<<Owner(q.who), class>>].agents =
                           @ + IF q.who \in Tokens THEN 1 ELSE 0]
             ELSE To(r, "refused") /\ UNCHANGED admitted
    /\ UNCHANGED <<access, claims, busy, raced>>

\* A fixed window closes and counting starts afresh.
NextWindow ==
    /\ window < MaxWindow /\ window' = window + 1
    /\ count' = Uncounted /\ admitted' = Unused
    /\ UNCHANGED <<access, claims, busy, req, raced>>
-----------------------------------------------------------------------------
(* The handlers' reads.                                                    *)

\* Seeded fault: any other maintainer will do, an agent's included.
AnyMaintainerLeft(t) == \E a \in Actors \ {t} : member[a] = "maintainer"

\* The guard rails of demotion and removal: another maintainer, and another
\* person among them when the target is a person.
OthersRemain(t) ==
    /\ \E a \in Actors \ {t} : member[a] = "maintainer"
    /\ t \in Humans => \E h \in Humans \ {t} : member[h] = "maintainer"

\* A handler that finds nothing to do there answers with a problem.
Sensible(cmd) ==
    CASE cmd.op \in {"promote", "demote", "remove"} ->
           /\ member[cmd.target] # "none"
           /\ cmd.op # "promote" /\ member[cmd.target] = "maintainer"
                => OthersRemain(cmd.target)
      [] cmd.op \in {"approve", "reject"} -> note[cmd.target] = "pending"
      [] cmd.op = "revoke" -> token[cmd.target].state # "unminted"
      [] cmd.op = "mint" -> token[cmd.target].state = "unminted"
      [] OTHER -> TRUE

\* A change to what already holds stores its answer and changes nothing.
Moot(cmd) ==
    CASE cmd.op = "promote" -> member[cmd.target] = "maintainer"
      [] cmd.op = "demote" -> member[cmd.target] = "editor"
      [] cmd.op \in {"freeze", "thaw"} -> frozen = (cmd.op = "freeze")
      [] cmd.op \in {"pause", "resume"} -> paused = (cmd.op = "pause")
      [] OTHER -> FALSE

\* The active tokens a removal will revoke: those the person minted.
Minted(h) == {t \in Tokens : token[t].state = "active" /\ token[t].owner = h}

Read(r) ==
    LET q == req[r] IN
    /\ q.pc = "read"
    /\ Serialized(q.cmd) => busy[q.iso] = Nobody
    /\ \/ /\ ~Sensible(q.cmd)
          /\ To(r, "refused") /\ UNCHANGED busy
       \/ /\ Sensible(q.cmd)
          /\ req' = [req EXCEPT ![r].pc = "batch",
                                ![r].list = IF q.cmd.op = "remove"
                                            THEN Minted(q.cmd.target) ELSE {},
                                ![r].moot = Moot(q.cmd)]
          /\ busy' = IF Serialized(q.cmd) THEN [busy EXCEPT ![q.iso] = r] ELSE busy
    /\ UNCHANGED <<access, claims, limiter, raced>>
-----------------------------------------------------------------------------
(* The batches.                                                            *)

\* An update of the membership row: a revoked one stays revoked.
SetRole(t, role) ==
    /\ member' = [member EXCEPT ![t] = IF @ = "none" THEN @ ELSE role]
    /\ UNCHANGED <<session, token, frozen, paused, note, published, raced>>

\* Seeded fault: the removal leaves the tokens the person minted.
RemoveOnly(q) ==
    LET t == q.cmd.target IN
    /\ member' = [member EXCEPT ![t] = "none"]
    /\ session' = [h \in Humans |-> h # t /\ session[h]]
    /\ UNCHANGED <<token, frozen, paused, note, published, raced>>

\* Membership, sessions and the tokens listed beforehand go in one batch.
Remove(q) ==
    LET t == q.cmd.target IN
    /\ member' = [member EXCEPT ![t] = "none"]
    /\ session' = [h \in Humans |-> h # t /\ session[h]]
    /\ token' = [k \in Tokens |-> IF k \in q.list
                                  THEN [token[k] EXCEPT !.state = "revoked"] ELSE token[k]]
    /\ UNCHANGED <<frozen, paused, note, published, raced>>

\* A new agent actor, its membership and its token.  The minter's standing
\* was judged by the guard and is not compared.
Mint(q) ==
    LET k == q.cmd.target
        removing == \E s \in Requests : /\ req[s].pc = "batch"
                                        /\ req[s].cmd.op = "remove"
                                        /\ req[s].cmd.target = q.who
    IN
    /\ token[k].state = "unminted"
    /\ token' = [token EXCEPT ![k] = [state |-> "active", owner |-> q.who]]
    /\ member' = [member EXCEPT ![k] = "editor"]
    /\ raced' = IF removing \/ member[q.who] = "none" THEN raced \cup {k} ELSE raced
    /\ UNCHANGED <<session, frozen, paused, note, published>>

Revoke(S) ==
    /\ token' = [k \in Tokens |-> IF k \in S /\ token[k].state = "active"
                                  THEN [token[k] EXCEPT !.state = "revoked"] ELSE token[k]]
    /\ UNCHANGED <<member, session, frozen, paused, note, published, raced>>

\* Resolving a queued note is a compare-and-swap on its pending state.
Resolved(n, to) == [note EXCEPT ![n] = IF @ = "pending" THEN to ELSE @]

\* The annotation's row takes the queued note's id, so a second insertion
\* fails; the resolution matching no row does not.
Approve(n) ==
    /\ published' = published \cup {n}
    /\ note' = Resolved(n, "approved")
    /\ UNCHANGED <<member, session, token, frozen, paused, raced>>

Reject(n) ==
    /\ note' = Resolved(n, "rejected")
    /\ UNCHANGED <<member, session, token, frozen, paused, published, raced>>

SetGates(f, p) ==
    /\ frozen' = f /\ paused' = p
    /\ UNCHANGED <<member, session, token, note, published, raced>>

\* Under approval-gated only a maintainer's annotation skips the queue.
Annotate(r, q) ==
    /\ IF Policy = "approval-gated" /\ q.role # "maintainer"
       THEN note' = [note EXCEPT ![r] = "pending"] /\ UNCHANGED published
       ELSE published' = published \cup {r} /\ UNCHANGED note
    /\ UNCHANGED <<member, session, token, frozen, paused, raced>>

Execute(r, q) ==
    IF q.moot THEN UNCHANGED <<access, raced>> ELSE
    CASE q.cmd.op = "promote" -> SetRole(q.cmd.target, "maintainer")
      [] q.cmd.op = "demote" -> SetRole(q.cmd.target, "editor")
      [] q.cmd.op = "remove" -> Remove(q)
      [] q.cmd.op = "mint" -> Mint(q)
      [] q.cmd.op = "revoke" -> Revoke({q.cmd.target})
      [] q.cmd.op = "revokeAll" -> Revoke(Tokens)
      [] q.cmd.op = "approve" -> Approve(q.cmd.target)
      [] q.cmd.op = "reject" -> Reject(q.cmd.target)
      [] q.cmd.op = "freeze" -> SetGates(TRUE, paused)
      [] q.cmd.op = "thaw" -> SetGates(FALSE, paused)
      [] q.cmd.op = "pause" -> SetGates(frozen, TRUE)
      [] q.cmd.op = "resume" -> SetGates(frozen, FALSE)
      [] q.cmd.op = "annotate" -> Annotate(r, q)

\* The batch fails on a row that exists: the annotation's.
Clashes(q) == q.cmd.op = "approve" /\ q.cmd.target \in published

\* Seeded fault: a key claimed meanwhile does not fail the batch.
KeyIgnored(q) == TRUE

\* The unique index on (actor, key): the claim is part of the batch.
KeyFree(q) == Stored(q.who, q.key) = {}

Leave(q) == busy' = IF Serialized(q.cmd) THEN [busy EXCEPT ![q.iso] = Nobody] ELSE busy

Commit(r) ==
    LET q == req[r] IN
    /\ q.pc = "batch" /\ KeyFree(q) /\ ~Clashes(q)
    /\ Execute(r, q)
    /\ claims' = claims \cup {[who |-> q.who, key |-> q.key, cmd |-> q.cmd, by |-> r]}
    /\ To(r, "done") /\ Leave(q) /\ UNCHANGED limiter

\* A batch that fails changes nothing.  If the key was claimed meanwhile the
\* middleware answers as the lookup would have.
Fail(r) ==
    LET q == req[r] IN
    /\ q.pc = "batch" /\ (~KeyFree(q) \/ Clashes(q))
    /\ To(r, IF KeyFree(q) THEN "refused" ELSE AnswerFrom(Stored(q.who, q.key), q.cmd))
    /\ Leave(q) /\ UNCHANGED <<access, claims, limiter, raced>>

\* Signing in with GitHub gives a session whatever the membership.
SignIn(h) ==
    /\ ~session[h] /\ session' = [session EXCEPT ![h] = TRUE]
    /\ UNCHANGED <<member, token, frozen, paused, note, published>>
    /\ UNCHANGED <<claims, limiter, busy, req, raced>>

Next ==
    \/ \E r \in Requests, a \in Actors, cmd \in Menu, key \in Keys, iso \in Isolates :
         Arrive(r, a, cmd, key, iso)
    \/ \E r \in Requests : Gate(r) \/ Read(r) \/ Commit(r) \/ Fail(r)
    \/ NextWindow
    \/ \E h \in Humans : SignIn(h)

Spec == Init /\ [][Next]_vars
-----------------------------------------------------------------------------
(* Properties.                                                             *)

\* One isolate has served every request so far: what the serializer promises.
Lone == \A r, s \in Requests :
          req[r].pc # "unsent" /\ req[s].pc # "unsent" => req[r].iso = req[s].iso

\* The book keeps a person who can administer it: demotions and removals,
\* by anyone, of anyone, in any order, leave a human maintainer.  Two
\* isolates can each remove the other's last one.
HumanMaintainerRemains == Lone => \E h \in Humans : member[h] = "maintainer"

\* What a moderator rejected is not published.  Two isolates can approve and
\* reject one note: the resolution that loses matches no row, its insertion
\* is not undone.
RejectedNotPublished == Lone => \A n \in published : note[n] # "rejected"

\* A key means one command: of the requests an actor made under one key at
\* most one took effect, and all that were answered as successes, replays
\* included, asked for that same command.
KeyMeansOneCommand ==
    /\ \A e, f \in claims : e.who = f.who /\ e.key = f.key => e.by = f.by
    /\ \A r, s \in Requests :
         /\ {req[r].pc, req[s].pc} \subseteq {"done", "replayed"}
         /\ req[r].who = req[s].who /\ req[r].key = req[s].key
         => req[r].cmd = req[s].cmd

\* Removing a person ends the agents they minted.  A mint that overtakes a
\* removal between its listing and its batch, or was admitted before it, is
\* not ended: it enters no serializer.
NoOrphanedAgents ==
    \A k \in Tokens : token[k].state = "active" /\ member[token[k].owner] = "none"
                      => k \in raced

\* However many tokens a person mints, one window lets their agents together
\* through no more often, in each class of commands, than the person's own
\* ceiling, and the person with all of them no more often than a session's.
AllowancePerPerson ==
    \A c \in Humans \X Classes :
      admitted[c].agents <= PerActor /\ admitted[c].all <= PerSession
=============================================================================
