---------------------------- MODULE RequestsProofs ----------------------------
(***************************************************************************)
(* Proofs about Requests: type correctness, what an idempotency key means, *)
(* what removing a person ends, the allowance of a person's agents, and,   *)
(* as long as one isolate serves, what the serializer protects, for any    *)
(* number of people, tokens, requests, keys and isolates.                  *)
(***************************************************************************)
EXTENDS Requests, TLAPS

Settled == {"done", "replayed"}   \* requests answered with a success

\* Only a person mints, so only a person owns; tokens in use or listed are minted.
Minters ==
    /\ \A r \in Requests : req[r].pc \in {"read", "batch"} /\ req[r].cmd.op = "mint"
                           => req[r].who \in Humans
    /\ \A k \in Tokens : token[k].state # "unminted" => token[k].owner \in Humans
    /\ \A r \in Requests : req[r].pc # "unsent" /\ req[r].who \in Tokens
                           => token[req[r].who].state # "unminted"
    /\ \A r \in Requests : req[r].pc = "batch" =>
         \A k \in req[r].list : token[k].state # "unminted"

\* One claim per key, and a success behind each of which there is its claim.
KeysBound ==
    /\ \A e, f \in claims : e.who = f.who /\ e.key = f.key => e = f
    /\ \A r \in Requests : req[r].pc \in Settled =>
         \E c \in claims : c.who = req[r].who /\ c.key = req[r].key /\ c.cmd = req[r].cmd

\* What a removal in progress has listed, and what raced with it, are all the
\* agents of its target.
RemovalsCover ==
    \A r \in Requests : req[r].pc = "batch" /\ req[r].cmd.op = "remove" =>
      \A k \in Tokens : token[k].state = "active" /\ token[k].owner = req[r].cmd.target
                        => k \in req[r].list \cup raced

\* Who was let through was counted.
AdmittedCounted ==
    \A h \in Humans, c \in Classes :
      admitted[<<h, c>>].agents <= count[<<h, c>>] /\ admitted[<<h, c>>].all <= count[<<h, c>>]

\* The serializer: the request between its reads and its batch holds its isolate.
Serial ==
    \A r \in Requests : req[r].pc = "batch" /\ Serialized(req[r].cmd) => busy[req[r].iso] = r

\* What a demotion or removal in progress has found still holds in its isolate.
OthersStillThere ==
    \A r \in Requests :
      /\ req[r].pc = "batch" /\ req[r].cmd.op \in {"demote", "remove"}
      /\ req[r].cmd.target \in Humans /\ member[req[r].cmd.target] = "maintainer"
      => \E h \in Humans \ {req[r].cmd.target} : member[h] = "maintainer"

\* What a moderator in progress has found still holds, and a note is published
\* only by its author's request or by its approval.
QueueStillThere ==
    /\ \A r \in Requests : req[r].pc = "batch" /\ req[r].cmd.op \in {"approve", "reject"}
                           => note[req[r].cmd.target] = "pending"
    /\ \A n \in published : note[n] \in {"approved", "absent"}
    /\ \A r \in Requests : req[r].pc # "done" => note[r] = "absent" /\ r \notin published

\* What holds while a single isolate serves.
Protected == /\ \E h \in Humans : member[h] = "maintainer"
             /\ OthersStillThere
             /\ QueueStillThere
LoneInv == Lone => Protected

Inv == /\ TypeOK /\ Minters /\ KeysBound /\ RemovalsCover /\ AdmittedCounted
       /\ NoOrphanedAgents /\ AllowancePerPerson
       /\ Serial /\ LoneInv
-----------------------------------------------------------------------------
(* What the steps write.                                                   *)

\* A request that was sent has its fields.
LEMMA SentTyped ==
    ASSUME TypeOK, NEW r \in Requests, req[r].pc # "unsent"
    PROVE  /\ req[r] \in Sent
           /\ req[r].cmd \in Menu
           /\ req[r].cmd.op \in Control \cup Collaboration
           /\ req[r].cmd.target \in Targets(req[r].cmd.op)
<1>1. req[r] \in Sent
  BY DEF TypeOK, Waiting
<1> QED
  BY <1>1, Commands DEF Sent

\* The batch of a request, told by its command.
LEMMA Commits ==
    ASSUME TypeOK, NEW r \in Requests, Commit(r)
    PROVE  \/ UNCHANGED <<access, raced>>
           \/ req[r].cmd.op = "promote" /\ SetRole(req[r].cmd.target, "maintainer")
           \/ req[r].cmd.op = "demote" /\ SetRole(req[r].cmd.target, "editor")
           \/ req[r].cmd.op = "remove" /\ Remove(req[r])
           \/ req[r].cmd.op = "mint" /\ Mint(req[r])
           \/ req[r].cmd.op \in {"revoke", "revokeAll"} /\ \E S : Revoke(S)
           \/ req[r].cmd.op = "approve" /\ Approve(req[r].cmd.target)
           \/ req[r].cmd.op = "reject" /\ Reject(req[r].cmd.target)
           \/ \E f, p \in BOOLEAN : SetGates(f, p)
           \/ req[r].cmd.op = "annotate" /\ Annotate(r, req[r])
<1>1. Execute(r, req[r]) /\ req[r].pc = "batch"
  BY DEF Commit
<1>2. req[r] \in Sent /\ req[r].cmd.op \in Control \cup Collaboration
  BY <1>1, SentTyped
<1>3. frozen \in BOOLEAN /\ paused \in BOOLEAN /\ req[r].moot \in BOOLEAN
  BY <1>2 DEF TypeOK, Sent
<1>4. CASE req[r].moot
  BY <1>1, <1>4 DEF Execute
<1>5. CASE ~req[r].moot
  <2>1. CASE req[r].cmd.op \in {"freeze", "thaw", "pause", "resume"}
    <3>1. \/ SetGates(TRUE, paused) \/ SetGates(FALSE, paused)
          \/ SetGates(frozen, TRUE) \/ SetGates(frozen, FALSE)
      BY <1>1, <1>5, <2>1 DEF Execute
    <3> QED
      BY <1>3, <3>1
  <2>2. CASE req[r].cmd.op \in {"promote", "demote"}
    BY <1>1, <1>5, <2>2 DEF Execute
  <2>3. CASE req[r].cmd.op \in {"revoke", "revokeAll"}
    BY <1>1, <1>5, <2>3 DEF Execute
  <2>4. CASE req[r].cmd.op \in {"remove", "mint", "approve", "reject", "annotate"}
    BY <1>1, <1>5, <2>4 DEF Execute
  <2> QED
    BY <1>2, <2>1, <2>2, <2>3, <2>4 DEF Control, Collaboration
<1> QED
  BY <1>4, <1>5
-----------------------------------------------------------------------------
(* Types.                                                                  *)

LEMMA TypeInit == Init => TypeOK /\ Minters
<1> SUFFICES ASSUME Init PROVE TypeOK /\ Minters
  OBVIOUS
<1>1. /\ count \in [Actors \X Classes -> Nat]
      /\ admitted \in [Humans \X Classes -> [agents : Nat, all : Nat]]
  BY DEF Init, Uncounted, Unused
<1>2. \A r \in Requests : req[r] = Waiting
  BY DEF Init
<1>3. /\ token \in [Tokens -> [state : {"unminted", "active", "revoked"},
                               owner : Humans \cup {Nobody}]]
      /\ \A k \in Tokens : token[k].state # "unminted" => token[k].owner \in Humans
      /\ member \in [Actors -> {"none", "maintainer", "editor"}]
  BY DEF Init
<1>4. window \in 0..MaxWindow /\ note \in [AllNotes -> {"absent", "pending", "approved", "rejected"}]
  BY Ceilings DEF Init
<1>5. req \in [Requests -> {Waiting} \cup Sent] /\ busy \in [Isolates -> Requests \cup {Nobody}]
  BY DEF Init
<1>6. TypeOK
  BY <1>1, <1>3, <1>4, <1>5 DEF Init, TypeOK
<1> QED
  BY <1>2, <1>3, <1>6 DEF Minters, Waiting

\* A request that arrives.
LEMMA ArriveTyped ==
    ASSUME TypeOK, Minters, NEW r \in Requests, NEW a \in Actors, NEW cmd \in Menu,
           NEW key \in Keys, NEW iso \in Isolates, Arrive(r, a, cmd, key, iso)
    PROVE  TypeOK' /\ Minters'
<1> DEFINE q == [pc |-> IF Stored(a, key) = {} THEN "gate" ELSE AnswerFrom(Stored(a, key), cmd),
                 who |-> a, cmd |-> cmd, key |-> key, iso |-> iso,
                 role |-> member[a], list |-> {}, moot |-> FALSE]
<1>1. req' = [req EXCEPT ![r] = q] /\ UNCHANGED <<access, claims, limiter, busy, raced>>
  BY DEF Arrive
<1>2. q \in Sent /\ q.pc \in {"gate", "replayed", "mismatch"}
  BY DEF Sent, AnswerFrom, TypeOK
<1>3. TypeOK'
  BY <1>1, <1>2 DEF TypeOK, access, limiter
<1>4. a \in Tokens => token[a].state # "unminted"
  BY Kinds DEF Arrive, Authenticates
<1>5. q.who = a
  OBVIOUS
<1> HIDE DEF q
<1>6. Minters'
  BY <1>1, <1>2, <1>4, <1>5 DEF Minters, TypeOK, access
<1> QED
  BY <1>3, <1>6

\* A tally that is raised stays a tally.
LEMMA TallyTyped ==
    ASSUME NEW D, NEW f \in [D -> [agents : Nat, all : Nat]], NEW h, NEW n \in Nat
    PROVE  [f EXCEPT ![h].all = @ + 1, ![h].agents = @ + n] \in [D -> [agents : Nat, all : Nat]]
<1> DEFINE g == [f EXCEPT ![h].all = @ + 1]
<1>1. g \in [D -> [agents : Nat, all : Nat]]
  <2>1. \A x \in D : [f[x] EXCEPT !.all = @ + 1] \in [agents : Nat, all : Nat]
    BY SMT
  <2> QED
    BY <2>1
<1>2. [f EXCEPT ![h].all = @ + 1, ![h].agents = @ + n] = [g EXCEPT ![h].agents = @ + n]
  OBVIOUS
<1> HIDE DEF g
<1>3. \A x \in D : [g[x] EXCEPT !.agents = @ + n] \in [agents : Nat, all : Nat]
  BY <1>1
<1> QED
  BY <1>1, <1>2, <1>3

LEMMA TallyRaised ==
    ASSUME NEW D, NEW f \in [D -> [agents : Nat, all : Nat]], NEW h \in D, NEW n \in Nat
    PROVE  LET g == [f EXCEPT ![h].all = @ + 1, ![h].agents = @ + n]
           IN  g[h].all = f[h].all + 1 /\ g[h].agents = f[h].agents + n
OBVIOUS

\* The project guard.
LEMMA GateTyped ==
    ASSUME TypeOK, Minters, NEW r \in Requests, Gate(r)
    PROVE  TypeOK' /\ Minters'
<1>1. req[r].pc = "gate" /\ req[r] \in Sent /\ req[r].cmd.op \in Control \cup Collaboration
  BY SentTyped DEF Gate
<1>2. \E pc \in {"refused", "read"} : /\ req' = [req EXCEPT ![r].pc = pc]
                                      /\ pc = "read" => Guarded(req[r])
  BY DEF Gate, To
<1>3. UNCHANGED <<access, claims, busy, raced>>
  BY DEF Gate
<1>4. PICK pc \in {"refused", "read"} : /\ req' = [req EXCEPT ![r].pc = pc]
                                        /\ pc = "read" => Guarded(req[r])
  BY <1>2
<1>5. req' \in [Requests -> {Waiting} \cup Sent]
  BY <1>1, <1>4 DEF TypeOK, Sent
<1>6. count' \in [Actors \X Classes -> Nat] /\ window' \in 0..MaxWindow
  BY DEF Gate, TypeOK, limiter
<1>7. admitted' \in [Humans \X Classes -> [agents : Nat, all : Nat]]
  <2> DEFINE h == <<Owner(req[r].who), RateLimitClass(req[r].cmd)>>
             n == IF req[r].who \in Tokens THEN 1 ELSE 0
  <2>1. CASE UNCHANGED admitted
    BY <2>1 DEF TypeOK
  <2>2. CASE admitted' = [admitted EXCEPT ![h].all = @ + 1, ![h].agents = @ + n]
    <3>1. n \in Nat
      OBVIOUS
    <3> HIDE DEF h, n
    <3> QED
      BY <2>2, <3>1, TallyTyped DEF TypeOK
  <2> QED
    BY <2>1, <2>2 DEF Gate, limiter
<1>8. TypeOK'
  BY <1>3, <1>5, <1>6, <1>7 DEF TypeOK, access
<1>9. pc = "read" /\ req[r].cmd.op = "mint" => req[r].who \in Humans
  BY <1>4 DEF Guarded, Control
<1>10. Minters'
  BY <1>1, <1>3, <1>4, <1>9 DEF Minters, TypeOK, access
<1> QED
  BY <1>8, <1>10

\* A handler's reads.
LEMMA ReadTyped ==
    ASSUME TypeOK, Minters, NEW r \in Requests, Read(r)
    PROVE  TypeOK' /\ Minters'
<1>1. req[r].pc = "read" /\ req[r] \in Sent
  BY SentTyped DEF Read
<1>2. UNCHANGED <<access, claims, limiter, raced>>
  BY DEF Read
<1>3. busy' \in [Isolates -> Requests \cup {Nobody}]
  BY DEF Read, TypeOK
<1>4. PICK pc \in {"refused", "batch"}, L \in SUBSET Tokens, m \in BOOLEAN :
        /\ req' = [req EXCEPT ![r] = [req[r] EXCEPT !.pc = pc, !.list = L, !.moot = m]]
        /\ pc = "batch" => \A k \in L : token[k].state = "active"
  <2>1. CASE ~Sensible(req[r].cmd)
    <3>1. req' = [req EXCEPT ![r] = [req[r] EXCEPT !.pc = "refused", !.list = req[r].list,
                                                  !.moot = req[r].moot]]
      BY <1>1, <2>1 DEF Read, To, TypeOK, Sent
    <3> QED
      BY <1>1, <3>1 DEF Sent
  <2>2. CASE Sensible(req[r].cmd)
    <3> DEFINE L == IF req[r].cmd.op = "remove" THEN Minted(req[r].cmd.target) ELSE {}
    <3>1. req' = [req EXCEPT ![r] = [req[r] EXCEPT !.pc = "batch", !.list = L,
                                                  !.moot = Moot(req[r].cmd)]]
      BY <1>1, <2>2 DEF Read, TypeOK
    <3>2. L \in SUBSET Tokens /\ \A k \in L : token[k].state = "active"
      BY DEF Minted
    <3>3. Moot(req[r].cmd) \in BOOLEAN
      BY DEF Moot, TypeOK
    <3> QED
      BY <3>1, <3>2, <3>3
  <2> QED
    BY <2>1, <2>2
<1>5. req' \in [Requests -> {Waiting} \cup Sent]
  BY <1>1, <1>4 DEF TypeOK, Sent
<1>6. TypeOK'
  BY <1>2, <1>3, <1>5 DEF TypeOK, access, limiter
<1>7. Minters'
  <2>1. \A s \in Requests \ {r} : req'[s] = req[s]
    BY <1>4 DEF TypeOK
  <2>2. /\ req'[r].pc = pc /\ req'[r].list = L
        /\ req'[r].who = req[r].who /\ req'[r].cmd = req[r].cmd
    BY <1>1, <1>4 DEF TypeOK, Sent
  <2> QED
    BY <1>1, <1>2, <1>4, <2>1, <2>2 DEF Minters, access
<1> QED
  BY <1>6, <1>7

\* What every batch that commits does besides its command.
LEMMA CommitFrame ==
    ASSUME TypeOK, NEW r \in Requests, Commit(r)
    PROVE  /\ req[r].pc = "batch" /\ req[r] \in Sent
           /\ req' = [req EXCEPT ![r].pc = "done"]
           /\ req' \in [Requests -> {Waiting} \cup Sent]
           /\ \A s \in Requests : req'[s] = IF s = r THEN [req[r] EXCEPT !.pc = "done"] ELSE req[s]
           /\ \A s \in Requests \ {r} : req'[s] = req[s]
           /\ req'[r].pc = "done" /\ req'[r].who = req[r].who /\ req'[r].iso = req[r].iso
           /\ req'[r].key = req[r].key /\ req'[r].cmd = req[r].cmd
           /\ busy' \in [Isolates -> Requests \cup {Nobody}]
           /\ claims' = claims \cup {[who |-> req[r].who, key |-> req[r].key,
                                      cmd |-> req[r].cmd, by |-> r]}
           /\ claims' \subseteq [who : Actors, key : Keys, cmd : Menu, by : Requests]
           /\ UNCHANGED limiter
<1>1. req[r].pc = "batch" /\ req[r] \in Sent
  BY SentTyped DEF Commit
<1>2. req' = [req EXCEPT ![r].pc = "done"]
  BY DEF Commit, To
<1>3. /\ req' \in [Requests -> {Waiting} \cup Sent]
      /\ \A s \in Requests : req'[s] = IF s = r THEN [req[r] EXCEPT !.pc = "done"] ELSE req[s]
  BY <1>1, <1>2 DEF TypeOK, Sent
<1>4. /\ \A s \in Requests \ {r} : req'[s] = req[s]
      /\ req'[r].pc = "done" /\ req'[r].who = req[r].who /\ req'[r].iso = req[r].iso
      /\ req'[r].key = req[r].key /\ req'[r].cmd = req[r].cmd
  BY <1>1, <1>2 DEF TypeOK, Sent
<1>5. busy' \in [Isolates -> Requests \cup {Nobody}]
  BY DEF Commit, Leave, TypeOK
<1>6. claims' = claims \cup {[who |-> req[r].who, key |-> req[r].key, cmd |-> req[r].cmd, by |-> r]}
  BY DEF Commit
<1>7. claims' \subseteq [who : Actors, key : Keys, cmd : Menu, by : Requests]
  BY <1>1, <1>6 DEF TypeOK, Sent
<1> QED
  BY <1>1, <1>2, <1>3, <1>4, <1>5, <1>6, <1>7 DEF Commit

\* Tokens change in few ways: one is minted by a person, others are revoked.
LEMMA CommitTokens ==
    ASSUME TypeOK, Minters, NEW r \in Requests, Commit(r)
    PROVE  \/ token' = token
           \/ /\ req[r].cmd.op = "mint" /\ Mint(req[r])
              /\ req[r].cmd.target \in Tokens /\ req[r].who \in Humans
           \/ /\ req[r].cmd.op \in {"remove", "revoke", "revokeAll"}
              /\ \A k \in Tokens : \/ token'[k] = token[k]
                                   \/ /\ token[k].state # "unminted"
                                      /\ token'[k] = [token[k] EXCEPT !.state = "revoked"]
              /\ token' = [k \in Tokens |-> token'[k]]
<1>1. req[r].pc = "batch" /\ req[r] \in Sent /\ req[r].cmd.target \in Targets(req[r].cmd.op)
  BY CommitFrame, SentTyped
<1>2. req[r].cmd.op = "mint" => req[r].cmd.target \in Tokens /\ req[r].who \in Humans
  BY <1>1 DEF Targets, Minters
<1>3. CASE req[r].cmd.op = "remove" /\ Remove(req[r])
  BY <1>1, <1>3 DEF Remove, Minters
<1>4. CASE req[r].cmd.op \in {"revoke", "revokeAll"} /\ \E S : Revoke(S)
  BY <1>4 DEF Revoke
<1>5. CASE \/ UNCHANGED <<access, raced>>
           \/ \E role \in {"maintainer", "editor"} : SetRole(req[r].cmd.target, role)
           \/ Approve(req[r].cmd.target) \/ Reject(req[r].cmd.target)
           \/ \E f, p \in BOOLEAN : SetGates(f, p)
           \/ Annotate(r, req[r])
  BY <1>5 DEF access, SetRole, Approve, Reject, SetGates, Annotate
<1> QED
  BY <1>2, <1>3, <1>4, <1>5, Commits

LEMMA CommitTyped ==
    ASSUME TypeOK, Minters, NEW r \in Requests, Commit(r)
    PROVE  TypeOK' /\ Minters'
<1>1. /\ req[r].pc = "batch" /\ req[r] \in Sent
      /\ req[r].cmd.target \in Targets(req[r].cmd.op)
  BY CommitFrame, SentTyped
<1>2. /\ token' \in [Tokens -> [state : {"unminted", "active", "revoked"},
                                owner : Humans \cup {Nobody}]]
      /\ \A k \in Tokens : token'[k].state # "unminted" => token'[k].owner \in Humans
      /\ \A k \in Tokens : token[k].state # "unminted" => token'[k].state # "unminted"
  <2>1. CASE req[r].cmd.op = "mint" /\ Mint(req[r]) /\ req[r].cmd.target \in Tokens
             /\ req[r].who \in Humans
    BY <2>1 DEF Mint, TypeOK, Minters
  <2>2. CASE /\ \A k \in Tokens : \/ token'[k] = token[k]
                                  \/ /\ token[k].state # "unminted"
                                     /\ token'[k] = [token[k] EXCEPT !.state = "revoked"]
             /\ token' = [k \in Tokens |-> token'[k]]
    <3>1. \A k \in Tokens : token'[k] \in [state : {"unminted", "active", "revoked"},
                                           owner : Humans \cup {Nobody}]
      BY <2>2 DEF TypeOK
    <3>2. \A k \in Tokens : token'[k].owner = token[k].owner
                            /\ (token'[k].state # "unminted" <=> token[k].state # "unminted")
      <4> SUFFICES ASSUME NEW k \in Tokens
                   PROVE  token'[k].owner = token[k].owner
                          /\ (token'[k].state # "unminted" <=> token[k].state # "unminted")
        OBVIOUS
      <4> QED
        BY <2>2 DEF TypeOK
    <3> QED
      BY <2>2, <3>1, <3>2 DEF Minters
  <2> QED
    BY <2>1, <2>2, CommitTokens DEF TypeOK, Minters
<1>3. /\ member' \in [Actors -> {"none", "maintainer", "editor"}]
      /\ session' \in [Humans -> BOOLEAN]
      /\ frozen' \in BOOLEAN /\ paused' \in BOOLEAN
      /\ note' \in [AllNotes -> {"absent", "pending", "approved", "rejected"}]
      /\ published' \subseteq AllNotes
      /\ raced' \subseteq Tokens
  <2>1. CASE UNCHANGED <<access, raced>>
    BY <2>1 DEF access, TypeOK
  <2>2. CASE \E role \in {"maintainer", "editor"} : SetRole(req[r].cmd.target, role)
    BY <2>2 DEF SetRole, TypeOK
  <2>3. CASE Remove(req[r])
    BY <2>3 DEF Remove, TypeOK
  <2>4. CASE req[r].cmd.op = "mint" /\ Mint(req[r])
    BY <1>1, <2>4 DEF Mint, TypeOK, Targets
  <2>5. CASE \E S : Revoke(S)
    BY <2>5 DEF Revoke, TypeOK
  <2>6. CASE req[r].cmd.op = "approve" /\ Approve(req[r].cmd.target)
    BY <1>1, <2>6 DEF Approve, Resolved, TypeOK, Targets
  <2>7. CASE Reject(req[r].cmd.target)
    BY <2>7 DEF Reject, Resolved, TypeOK
  <2>8. CASE \E f, p \in BOOLEAN : SetGates(f, p)
    BY <2>8 DEF SetGates, TypeOK
  <2>9. CASE Annotate(r, req[r])
    BY <2>9 DEF Annotate, TypeOK, AllNotes
  <2> QED
    BY Commits, <2>1, <2>2, <2>3, <2>4, <2>5, <2>6, <2>7, <2>8, <2>9
<1>4. TypeOK'
  BY <1>2, <1>3, CommitFrame DEF TypeOK, limiter
<1>5. \A s \in Requests : /\ req'[s].pc \in {"read", "batch"} => req'[s] = req[s]
                          /\ req'[s].pc # "unsent" => req[s].pc # "unsent" /\ req'[s].who = req[s].who
                          /\ req'[s] \in Sent \cup {Waiting}
  <2> SUFFICES ASSUME NEW s \in Requests
               PROVE  /\ req'[s].pc \in {"read", "batch"} => req'[s] = req[s]
                      /\ req'[s].pc # "unsent" => req[s].pc # "unsent" /\ req'[s].who = req[s].who
                      /\ req'[s] \in Sent \cup {Waiting}
    OBVIOUS
  <2>1. CASE s = r
    BY <1>1, <2>1, CommitFrame DEF Sent
  <2>2. CASE s # r
    BY <2>2, CommitFrame DEF TypeOK
  <2> QED
    BY <2>1, <2>2
<1>6. \A s \in Requests : req'[s].pc # "unsent" /\ req'[s].who \in Tokens
                         => token'[req'[s].who].state # "unminted"
  BY <1>2, <1>5 DEF Minters
<1>7. \A s \in Requests : req'[s].pc = "batch" =>
        \A k \in req'[s].list : token'[k].state # "unminted"
  BY <1>2, <1>5 DEF Minters, Sent, TypeOK, Waiting
<1>8. Minters'
  BY <1>2, <1>5, <1>6, <1>7 DEF Minters
<1> QED
  BY <1>4, <1>8

\* A batch that fails, a window that closes, a sign-in.
LEMMA OtherTyped ==
    ASSUME TypeOK, Minters,
           \/ \E r \in Requests : Fail(r)
           \/ NextWindow
           \/ \E h \in Humans : SignIn(h)
           \/ UNCHANGED vars
    PROVE  TypeOK' /\ Minters'
<1>1. ASSUME NEW r \in Requests, Fail(r) PROVE TypeOK' /\ Minters'
  <2>1. req[r].pc = "batch" /\ req[r] \in Sent
    BY <1>1, SentTyped DEF Fail
  <2>2. PICK pc \in {"refused", "replayed", "mismatch"} : req' = [req EXCEPT ![r].pc = pc]
    BY <1>1 DEF Fail, To, AnswerFrom
  <2>3. req' \in [Requests -> {Waiting} \cup Sent]
    BY <2>1, <2>2 DEF TypeOK, Sent
  <2>4. busy' \in [Isolates -> Requests \cup {Nobody}] /\ UNCHANGED <<access, claims, limiter, raced>>
    BY <1>1 DEF Fail, Leave, TypeOK
  <2> QED
    BY <2>1, <2>2, <2>3, <2>4 DEF TypeOK, Minters, access, limiter, Sent
<1>2. CASE NextWindow
  <2>1. /\ count' \in [Actors \X Classes -> Nat]
        /\ admitted' \in [Humans \X Classes -> [agents : Nat, all : Nat]]
        /\ window' \in 0..MaxWindow
    BY <1>2, Ceilings DEF NextWindow, Uncounted, Unused, TypeOK
  <2> QED
    BY <1>2, <2>1 DEF NextWindow, TypeOK, Minters, access
<1>3. ASSUME NEW h \in Humans, SignIn(h) PROVE TypeOK' /\ Minters'
  BY <1>3 DEF SignIn, TypeOK, Minters, limiter
<1>4. CASE UNCHANGED vars
  BY <1>4 DEF vars, access, limiter, TypeOK, Minters
<1> QED
  BY <1>1, <1>2, <1>3, <1>4

LEMMA TypeStep == TypeOK /\ Minters /\ [Next]_vars => TypeOK' /\ Minters'
BY ArriveTyped, GateTyped, ReadTyped, CommitTyped, OtherTyped DEF Next
-----------------------------------------------------------------------------
(* Keys.                                                                   *)

\* The answer that a stored key gives is a success only if the key has a claim
\* for the same command.
LEMMA AnswerBacked ==
    ASSUME NEW a, NEW key, NEW cmd, AnswerFrom(Stored(a, key), cmd) \in Settled
    PROVE  \E c \in claims : c.who = a /\ c.key = key /\ c.cmd = cmd
BY DEF AnswerFrom, Stored, Settled

\* A step that keeps the claims and settles no request without its claim.
LEMMA KeysKept ==
    ASSUME KeysBound, claims' = claims,
           \A r \in Requests : req'[r].pc \in Settled =>
             \/ req'[r] = req[r]
             \/ \E c \in claims : /\ c.who = req'[r].who /\ c.key = req'[r].key
                                  /\ c.cmd = req'[r].cmd
    PROVE  KeysBound'
BY DEF KeysBound

LEMMA KeysStep ==
    ASSUME TypeOK, KeysBound, [Next]_vars
    PROVE  KeysBound'
<1>1. ASSUME NEW r \in Requests, NEW a \in Actors, NEW cmd \in Menu, NEW key \in Keys,
             NEW iso \in Isolates, Arrive(r, a, cmd, key, iso)
      PROVE  KeysBound'
  <2>1. claims' = claims /\ \A s \in Requests \ {r} : req'[s] = req[s]
    BY <1>1 DEF Arrive, TypeOK
  <2>2. /\ req'[r].who = a /\ req'[r].key = key /\ req'[r].cmd = cmd
        /\ req'[r].pc \in {"gate", AnswerFrom(Stored(a, key), cmd)}
    BY <1>1 DEF Arrive, TypeOK
  <2>3. req'[r].pc \in Settled => AnswerFrom(Stored(a, key), cmd) \in Settled
    BY <2>2 DEF Settled
  <2> QED
    BY <2>1, <2>2, <2>3, AnswerBacked, KeysKept
<1>2. ASSUME NEW r \in Requests, Gate(r) \/ Read(r) PROVE KeysBound'
  <2>1. claims' = claims /\ \A s \in Requests \ {r} : req'[s] = req[s]
    BY <1>2 DEF Gate, Read, To, TypeOK
  <2>2. req[r] \in Sent
    BY <1>2, SentTyped DEF Gate, Read
  <2>3. req'[r].pc \notin Settled
    BY <1>2, <2>2 DEF Gate, Read, To, TypeOK, Settled, Sent
  <2> QED
    BY <2>1, <2>3, KeysKept
<1>3. ASSUME NEW r \in Requests, Commit(r) PROVE KeysBound'
  <2> DEFINE c == [who |-> req[r].who, key |-> req[r].key, cmd |-> req[r].cmd, by |-> r]
  <2>1. claims' = claims \cup {c}
    BY <1>3, CommitFrame
  <2>2. \A e \in claims : ~(e.who = c.who /\ e.key = c.key)
    BY <1>3 DEF Commit, KeyFree, Stored
  <2>3. \A e, f \in claims' : e.who = f.who /\ e.key = f.key => e = f
    BY <2>1, <2>2 DEF KeysBound
  <2>4. /\ \A s \in Requests \ {r} : req'[s] = req[s]
        /\ req'[r].who = c.who /\ req'[r].key = c.key /\ req'[r].cmd = c.cmd
    BY <1>3, CommitFrame
  <2>5. \A s \in Requests : req'[s].pc \in Settled =>
          \E e \in claims' : e.who = req'[s].who /\ e.key = req'[s].key /\ e.cmd = req'[s].cmd
    <3> HIDE DEF c
    <3> QED
      BY <2>1, <2>4 DEF KeysBound
  <2> QED
    BY <2>3, <2>5 DEF KeysBound
<1>4. ASSUME NEW r \in Requests, Fail(r) PROVE KeysBound'
  <2>1. claims' = claims /\ \A s \in Requests \ {r} : req'[s] = req[s]
    BY <1>4 DEF Fail, To, TypeOK
  <2>2. req[r] \in Sent
    BY <1>4, SentTyped DEF Fail
  <2>3. /\ req'[r].who = req[r].who /\ req'[r].key = req[r].key /\ req'[r].cmd = req[r].cmd
        /\ req'[r].pc \in {"refused", AnswerFrom(Stored(req[r].who, req[r].key), req[r].cmd)}
    BY <1>4, <2>2 DEF Fail, To, TypeOK, Sent
  <2>4. req'[r].pc \in Settled
          => AnswerFrom(Stored(req[r].who, req[r].key), req[r].cmd) \in Settled
    BY <2>3 DEF Settled
  <2> QED
    BY <2>1, <2>3, <2>4, AnswerBacked, KeysKept
<1>5. CASE NextWindow \/ (\E h \in Humans : SignIn(h)) \/ UNCHANGED vars
  BY <1>5 DEF NextWindow, SignIn, vars, KeysBound
<1> QED
  BY <1>1, <1>2, <1>3, <1>4, <1>5 DEF Next
-----------------------------------------------------------------------------
(* Removals and the agents they end.                                       *)

LEMMA OrphansStep ==
    ASSUME TypeOK, Minters, RemovalsCover, NoOrphanedAgents, [Next]_vars
    PROVE  RemovalsCover' /\ NoOrphanedAgents'
<1> DEFINE Same == UNCHANGED <<member, token, raced>>
<1>1. ASSUME Same,
             \A r \in Requests : req'[r].pc = "batch" /\ req'[r].cmd.op = "remove" =>
               \/ req'[r] = req[r]
               \/ \A k \in Tokens :
                    token[k].state = "active" /\ token[k].owner = req'[r].cmd.target
                    => k \in req'[r].list
      PROVE  RemovalsCover' /\ NoOrphanedAgents'
  BY <1>1 DEF RemovalsCover, NoOrphanedAgents
<1>2. ASSUME NEW r \in Requests, NEW a \in Actors, NEW cmd \in Menu, NEW key \in Keys,
             NEW iso \in Isolates, Arrive(r, a, cmd, key, iso)
      PROVE  RemovalsCover' /\ NoOrphanedAgents'
  <2>1. Same /\ \A s \in Requests \ {r} : req'[s] = req[s]
    BY <1>2 DEF Arrive, TypeOK, access
  <2>2. req'[r].pc # "batch"
    BY <1>2 DEF Arrive, TypeOK, AnswerFrom
  <2> QED
    BY <1>1, <2>1, <2>2
<1>3. ASSUME NEW r \in Requests, Gate(r) \/ Fail(r) PROVE RemovalsCover' /\ NoOrphanedAgents'
  <2>1. Same /\ \A s \in Requests \ {r} : req'[s] = req[s]
    BY <1>3 DEF Gate, Fail, To, TypeOK, access
  <2>2. req[r] \in Sent
    BY <1>3, SentTyped DEF Gate, Fail
  <2>3. req'[r].pc # "batch"
    BY <1>3, <2>2 DEF Gate, Fail, To, TypeOK, AnswerFrom, Sent
  <2> QED
    BY <1>1, <2>1, <2>3
<1>4. ASSUME NEW r \in Requests, Read(r) PROVE RemovalsCover' /\ NoOrphanedAgents'
  <2>1. Same /\ \A s \in Requests \ {r} : req'[s] = req[s]
    BY <1>4 DEF Read, To, TypeOK, access
  <2>2. req[r] \in Sent
    BY <1>4, SentTyped DEF Read
  <2>3. req'[r].pc = "batch" /\ req'[r].cmd.op = "remove" =>
          req'[r].list = Minted(req'[r].cmd.target)
    BY <1>4, <2>2 DEF Read, To, TypeOK, Sent
  <2> QED
    BY <1>1, <2>1, <2>3 DEF Minted
<1>5. ASSUME NEW r \in Requests, Commit(r) PROVE RemovalsCover' /\ NoOrphanedAgents'
  <2>1. /\ req[r].pc = "batch" /\ req[r] \in Sent /\ req'[r].pc = "done"
        /\ \A s \in Requests \ {r} : req'[s] = req[s]
    BY <1>5, CommitFrame
  <2>2. req[r].cmd.target \in Targets(req[r].cmd.op)
    BY <2>1, SentTyped
  \* A command that neither mints nor removes lets no token become active and
  \* ends no one's membership.
  <2>3. CASE /\ raced' = raced
             /\ \A a \in Actors : member'[a] = "none" => member[a] = "none"
             /\ \A k \in Tokens : token'[k].state = "active" => token'[k] = token[k]
    <3>1. RemovalsCover'
      BY <2>1, <2>3 DEF RemovalsCover
    <3>2. \A k \in Tokens : token'[k].state = "active" => token'[k].owner \in Actors
      BY <2>3 DEF Minters, Actors
    <3> QED
      BY <2>3, <3>1, <3>2 DEF NoOrphanedAgents
  <2>4. CASE req[r].cmd.op = "remove" /\ Remove(req[r])
    <3> DEFINE t == req[r].cmd.target
    <3>1. /\ raced' = raced
          /\ \A a \in Actors : member'[a] = "none" => member[a] = "none" \/ a = t
          /\ \A k \in Tokens : token'[k].state = "active" => token'[k] = token[k] /\ k \notin req[r].list
      BY <2>4 DEF Remove, TypeOK
    <3>2. RemovalsCover'
      BY <2>1, <3>1 DEF RemovalsCover
    <3>3. \A k \in Tokens : token'[k].state = "active" => token'[k].owner \in Actors
      BY <3>1 DEF Minters, Actors
    <3>4. \A k \in Tokens : token'[k].state = "active" /\ token'[k].owner = t => k \in raced
      BY <2>1, <2>4, <3>1 DEF RemovalsCover
    <3> QED
      BY <3>1, <3>2, <3>3, <3>4 DEF NoOrphanedAgents
  <2>5. CASE req[r].cmd.op = "mint" /\ Mint(req[r])
    <3> DEFINE k == req[r].cmd.target
               w == req[r].who
    <3>1. k \in Tokens /\ w \in Humans /\ k \in Actors /\ w # k
      BY <2>1, <2>2, <2>5, Kinds DEF Targets, Minters, Actors
    <3>2. /\ token'[k] = [state |-> "active", owner |-> w]
          /\ \A j \in Tokens \ {k} : token'[j] = token[j]
          /\ \A a \in Actors : member'[a] = "none" => member[a] = "none"
          /\ raced \subseteq raced'
      BY <2>5, <3>1 DEF Mint, TypeOK
    <3>3. (\/ member[w] = "none"
           \/ \E s \in Requests : /\ req[s].pc = "batch" /\ req[s].cmd.op = "remove"
                                  /\ req[s].cmd.target = w)
          => k \in raced'
      BY <2>5 DEF Mint
    <3> HIDE DEF k, w
    <3>4. RemovalsCover'
      BY <2>1, <3>1, <3>2, <3>3 DEF RemovalsCover
    <3>5. member'[w] = "none" => member[w] = "none"
      BY <3>1, <3>2 DEF Actors
    <3>6. \A j \in Tokens : token[j].state = "active" => token[j].owner \in Actors
      BY DEF Minters, Actors
    <3> QED
      BY <3>2, <3>3, <3>4, <3>5, <3>6 DEF NoOrphanedAgents
  <2>6. CASE UNCHANGED <<access, raced>>
    BY <2>3, <2>6 DEF access
  <2>7. CASE \E role \in {"maintainer", "editor"} : SetRole(req[r].cmd.target, role)
    BY <2>3, <2>7 DEF SetRole, TypeOK
  <2>8. CASE \E S : Revoke(S)
    BY <2>3, <2>8 DEF Revoke, TypeOK
  <2>9. CASE \/ Approve(req[r].cmd.target) \/ Reject(req[r].cmd.target)
             \/ (\E f, p \in BOOLEAN : SetGates(f, p)) \/ Annotate(r, req[r])
    BY <2>3, <2>9 DEF Approve, Reject, SetGates, Annotate
  <2> QED
    BY <1>5, Commits, <2>4, <2>5, <2>6, <2>7, <2>8, <2>9
<1>6. CASE NextWindow \/ (\E h \in Humans : SignIn(h)) \/ UNCHANGED vars
  BY <1>6 DEF NextWindow, SignIn, vars, access, RemovalsCover, NoOrphanedAgents
<1> QED
  BY <1>2, <1>3, <1>4, <1>5, <1>6 DEF Next
-----------------------------------------------------------------------------
(* Allowances.                                                             *)

\* The owner of a request that was sent is a person, and stays that person.
LEMMA OwnerOf ==
    ASSUME TypeOK, Minters, NEW r \in Requests, req[r].pc # "unsent"
    PROVE  /\ Owner(req[r].who) \in Humans
           /\ req[r].who \in Humans => Owner(req[r].who) = req[r].who
           /\ req[r].who \in Actors /\ (req[r].who \in Tokens <=> req[r].who \notin Humans)
<1>1. req[r].who \in Actors
  BY SentTyped DEF Sent
<1>2. CASE req[r].who \in Tokens
  BY <1>2, Kinds DEF Owner, Minters, Actors
<1>3. CASE req[r].who \in Humans
  BY <1>3, Kinds DEF Owner, Actors
<1> QED
  BY <1>1, <1>2, <1>3 DEF Actors

\* Every request the guard lets through is counted against its owner, and let
\* through only if the count is within the ceiling of who asks.
LEMMA GateCounts ==
    ASSUME TypeOK, Minters, AdmittedCounted, AllowancePerPerson, NEW r \in Requests, Gate(r)
    PROVE  AdmittedCounted' /\ AllowancePerPerson'
<1> DEFINE o == Owner(req[r].who)
           k == RateLimitClass(req[r].cmd)
           n == IF req[r].who \in Tokens THEN 1 ELSE 0
           counted == [c \in Actors \X Classes |->
                         count[c] + IF c \in Spends(req[r]) \X {k} THEN 1 ELSE 0]
<1>1. /\ o \in Humans /\ o \in Spends(req[r]) /\ n \in {0, 1}
      /\ req[r].who \in Humans => o = req[r].who /\ n = 0
      /\ k \in Classes /\ Humans \subseteq Actors
  BY OwnerOf, Kinds DEF Gate, Spends, RateLimitClass, Classes, Actors
<1>2. \A c \in Actors \X Classes : counted[c] \in Nat /\ count[c] <= counted[c]
  BY DEF TypeOK
<1>3. counted[<<o, k>>] = count[<<o, k>>] + 1
  BY <1>1
<1>4. \A h \in Humans, c \in Classes :
        admitted[<<h, c>>].agents \in Nat /\ admitted[<<h, c>>].all \in Nat /\ count[<<h, c>>] \in Nat
  BY DEF TypeOK, Actors
<1>5. CASE admitted' = admitted /\ count' \in {count, counted}
  <2>1. AllowancePerPerson'
    BY <1>5 DEF AllowancePerPerson
  <2>2. SUFFICES ASSUME NEW h \in Humans, NEW c \in Classes
                 PROVE  /\ admitted'[<<h, c>>].agents <= count'[<<h, c>>]
                        /\ admitted'[<<h, c>>].all <= count'[<<h, c>>]
    BY <2>1 DEF AdmittedCounted
  <2> DEFINE x == <<h, c>>
  <2>3. x \in Actors \X Classes
    BY <1>1
  <2>4. counted[x] \in Nat /\ count[x] <= counted[x]
    BY <1>2, <2>3
  <2>5. /\ admitted[x].agents \in Nat /\ admitted[x].all \in Nat /\ count[x] \in Nat
        /\ admitted[x].agents <= count[x] /\ admitted[x].all <= count[x]
    BY <1>4 DEF AdmittedCounted
  <2> HIDE DEF counted, x
  <2>6. count'[x] \in {count[x], counted[x]} /\ admitted'[x] = admitted[x]
    BY <1>5
  <2>7. admitted'[x].agents <= count'[x] /\ admitted'[x].all <= count'[x]
    BY <2>4, <2>5, <2>6
  <2> QED
    BY <2>7 DEF x
<1>6. CASE /\ count' = counted /\ WithinCeilings(req[r], counted, k)
           /\ admitted' = [admitted EXCEPT ![<<o, k>>].all = @ + 1, ![<<o, k>>].agents = @ + n]
  <2>1. /\ admitted'[<<o, k>>].all = admitted[<<o, k>>].all + 1
        /\ admitted'[<<o, k>>].agents = admitted[<<o, k>>].agents + n
    <3> HIDE DEF o, k, n, counted
    <3>1. <<o, k>> \in Humans \X Classes
      BY <1>1
    <3> QED
      BY <1>6, <3>1, TallyRaised DEF TypeOK
  <2>2. \A h \in Humans, c \in Classes : <<h, c>> # <<o, k>> => admitted'[<<h, c>>] = admitted[<<h, c>>]
    <3> HIDE DEF o, k, n, counted
    <3> QED
      BY <1>6 DEF TypeOK
  <2>3. count'[<<o, k>>] <= PerSession /\ (n = 1 => count'[<<o, k>>] <= PerActor)
    <3>1. count'[<<o, k>>] \in Nat /\ PerActor <= PerSession /\ PerActor \in Nat /\ PerSession \in Nat
      BY <1>1, <1>2, <1>6, Ceilings
    <3>2. CASE req[r].who \in Humans
      BY <1>1, <1>6, <3>2 DEF WithinCeilings
    <3>3. CASE req[r].who \notin Humans
      BY <1>6, <3>1, <3>3 DEF WithinCeilings
    <3> QED
      BY <3>2, <3>3
  <2>4. \A h \in Humans, c \in Classes : count[<<h, c>>] <= count'[<<h, c>>] /\ count'[<<h, c>>] \in Nat
    BY <1>1, <1>2, <1>6
  <2> HIDE DEF o, k, n, counted
  <2>5. count'[<<o, k>>] = count[<<o, k>>] + 1
    BY <1>3, <1>6
  <2>6. AdmittedCounted'
    <3> SUFFICES ASSUME NEW h \in Humans, NEW c \in Classes
                 PROVE  admitted'[<<h, c>>].agents <= count'[<<h, c>>] /\ admitted'[<<h, c>>].all <= count'[<<h, c>>]
      BY DEF AdmittedCounted
    <3>1. CASE h = o /\ c = k
      BY <1>1, <1>4, <2>1, <2>5, <3>1 DEF AdmittedCounted
    <3>2. CASE ~(h = o /\ c = k)
      BY <1>4, <2>2, <2>4, <3>2 DEF AdmittedCounted
    <3> QED
      BY <3>1, <3>2
  <2>7. AllowancePerPerson'
    <3> SUFFICES ASSUME NEW h \in Humans, NEW c \in Classes
                 PROVE  admitted'[<<h, c>>].agents <= PerActor /\ admitted'[<<h, c>>].all <= PerSession
      BY DEF AllowancePerPerson
    <3>1. CASE h = o /\ c = k
      <4>1. admitted[<<o, k>>].agents <= count[<<o, k>>] /\ admitted[<<o, k>>].all <= count[<<o, k>>]
            /\ admitted[<<o, k>>].agents <= PerActor
        BY <1>1 DEF AdmittedCounted, AllowancePerPerson
      <4> QED
        BY <1>1, <1>4, <2>1, <2>3, <2>5, <3>1, <4>1, Ceilings
    <3>2. CASE ~(h = o /\ c = k)
      BY <2>2, <3>2 DEF AllowancePerPerson
    <3> QED
      BY <3>1, <3>2
  <2> QED
    BY <2>6, <2>7
<1> QED
  BY <1>5, <1>6 DEF Gate, limiter

LEMMA AllowanceStep ==
    ASSUME TypeOK, Minters, AdmittedCounted, AllowancePerPerson, [Next]_vars
    PROVE  AdmittedCounted' /\ AllowancePerPerson'
<1>1. CASE UNCHANGED <<count, admitted>>
  BY <1>1 DEF AdmittedCounted, AllowancePerPerson
<1>2. CASE NextWindow
  <2>1. \A c \in Humans \X Classes : admitted'[c].agents = 0 /\ admitted'[c].all = 0
    BY <1>2 DEF NextWindow, Unused
  <2>2. \A c \in Humans \X Classes : count'[c] = 0
    BY <1>2 DEF NextWindow, Uncounted, Actors
  <2>3. \A h \in Humans, c \in Classes : <<h, c>> \in Humans \X Classes
    OBVIOUS
  <2> QED
    BY <2>1, <2>2, <2>3, Ceilings DEF AdmittedCounted, AllowancePerPerson
<1>3. ASSUME NEW r \in Requests, Commit(r) \/ Read(r) \/ Fail(r)
      PROVE UNCHANGED <<count, admitted>>
  BY <1>3 DEF Commit, Read, Fail, limiter
<1>4. ASSUME NEW r \in Requests, NEW a \in Actors, NEW cmd \in Menu, NEW key \in Keys,
             NEW iso \in Isolates, Arrive(r, a, cmd, key, iso)
      PROVE UNCHANGED <<count, admitted>>
  BY <1>4 DEF Arrive, limiter
<1>5. ASSUME (\E h \in Humans : SignIn(h)) \/ UNCHANGED vars PROVE UNCHANGED <<count, admitted>>
  BY <1>5 DEF SignIn, vars, limiter
<1> QED
  BY <1>1, <1>2, <1>3, <1>4, <1>5, GateCounts DEF Next
-----------------------------------------------------------------------------
(* The serializer.                                                         *)

\* How a step changes a request: it stays sent, in its isolate; it reaches its
\* batch by a read only; it is never un-done.
LEMMA RequestSteps ==
    ASSUME TypeOK, [Next]_vars
    PROVE  \A r \in Requests :
             /\ req[r].pc # "unsent" => req'[r].pc # "unsent" /\ req'[r].iso = req[r].iso
             /\ req'[r].pc = "batch" => req'[r] = req[r] \/ Read(r)
             /\ req[r].pc = "done" => req'[r].pc = "done"
<1> DEFINE Goal(r) ==
      /\ req[r].pc # "unsent" => req'[r].pc # "unsent" /\ req'[r].iso = req[r].iso
      /\ req'[r].pc = "batch" => req'[r] = req[r] \/ Read(r)
      /\ req[r].pc = "done" => req'[r].pc = "done"
<1> SUFFICES ASSUME NEW r \in Requests PROVE Goal(r)
  OBVIOUS
<1>0. CASE req'[r] = req[r]
  BY <1>0
<1>1. ASSUME NEW s \in Requests, NEW a \in Actors, NEW cmd \in Menu, NEW key \in Keys,
             NEW iso \in Isolates, Arrive(s, a, cmd, key, iso)
      PROVE Goal(r)
  <2>1. s # r => req'[r] = req[r]
    BY <1>1 DEF Arrive, TypeOK
  <2>2. s = r => req[r].pc = "unsent" /\ req'[r].pc # "batch"
    BY <1>1 DEF Arrive, TypeOK, AnswerFrom, Waiting
  <2> QED
    BY <1>0, <2>1, <2>2
<1>2. ASSUME NEW s \in Requests, Gate(s) \/ Fail(s) PROVE Goal(r)
  <2>1. s # r => req'[r] = req[r]
    BY <1>2 DEF Gate, Fail, To, TypeOK
  <2>2. req[s] \in Sent /\ req[s].pc \in {"gate", "batch"}
    BY <1>2, SentTyped DEF Gate, Fail
  <2>3. req'[s].iso = req[s].iso /\ req'[s].pc \in {"read", "refused", "replayed", "mismatch"}
    BY <1>2, <2>2 DEF Gate, Fail, To, TypeOK, AnswerFrom, Sent
  <2> QED
    BY <1>0, <2>1, <2>2, <2>3
<1>3. ASSUME NEW s \in Requests, Read(s) PROVE Goal(r)
  <2>1. s # r => req'[r] = req[r]
    BY <1>3 DEF Read, To, TypeOK
  <2>2. req[s] \in Sent /\ req[s].pc = "read"
    BY <1>3, SentTyped DEF Read
  <2>3. req'[s].iso = req[s].iso /\ req'[s].pc \in {"batch", "refused"}
    BY <1>3, <2>2 DEF Read, To, TypeOK, Sent
  <2> QED
    BY <1>0, <1>3, <2>1, <2>2, <2>3
<1>4. ASSUME NEW s \in Requests, Commit(s) PROVE Goal(r)
  BY <1>0, <1>4, CommitFrame
<1>5. ASSUME NextWindow \/ (\E h \in Humans : SignIn(h)) \/ UNCHANGED vars PROVE Goal(r)
  BY <1>0, <1>5 DEF NextWindow, SignIn, vars
<1> QED
  BY <1>1, <1>2, <1>3, <1>4, <1>5 DEF Next

\* What a second isolate has spoiled stays spoiled.
LEMMA LoneBefore == ASSUME TypeOK, [Next]_vars, Lone' PROVE Lone
BY RequestSteps DEF Lone

\* In one isolate only one serialized command is between its reads and its batch.
LEMMA OnlyOne ==
    ASSUME TypeOK, Serial, Lone, NEW r \in Requests, NEW s \in Requests,
           req[r].pc = "batch", Serialized(req[r].cmd),
           req[s].pc = "batch", Serialized(req[s].cmd)
    PROVE  r = s
BY DEF Serial, Lone

LEMMA SerialStep == ASSUME TypeOK, Serial, [Next]_vars PROVE Serial'
<1>1. CASE /\ busy' = busy
           /\ \A r \in Requests : req'[r].pc = "batch" /\ Serialized(req'[r].cmd) => req'[r] = req[r]
  BY <1>1 DEF Serial
<1>2. ASSUME NEW r \in Requests, Read(r) PROVE Serial'
  <2>1. req[r] \in Sent /\ \A s \in Requests \ {r} : req'[s] = req[s]
    BY <1>2, SentTyped DEF Read, To, TypeOK
  <2>2. CASE req'[r].pc = "batch" /\ Serialized(req[r].cmd)
    <3>1. /\ busy[req[r].iso] = Nobody /\ busy' = [busy EXCEPT ![req[r].iso] = r]
          /\ req'[r].iso = req[r].iso /\ req[r].iso \in Isolates
      BY <1>2, <2>1, <2>2 DEF Read, To, TypeOK, Sent
    <3>2. \A s \in Requests \ {r} : req[s].pc = "batch" /\ Serialized(req[s].cmd)
                                    => req[s].iso # req[r].iso
      BY <3>1, Kinds DEF Serial
    <3>3. busy'[req[r].iso] = r /\ \A i \in Isolates \ {req[r].iso} : busy'[i] = busy[i]
      BY <3>1 DEF TypeOK
    <3>4. \A s \in Requests : req[s].pc = "batch" => req[s].iso \in Isolates
      BY SentTyped DEF Sent
    <3> QED
      BY <2>1, <3>1, <3>2, <3>3, <3>4 DEF Serial
  <2>3. CASE ~(req'[r].pc = "batch" /\ Serialized(req[r].cmd))
    <3>1. req'[r].cmd = req[r].cmd /\ busy' = busy
      BY <1>2, <2>1, <2>3 DEF Read, To, TypeOK, Sent
    <3> QED
      BY <1>1, <2>1, <2>3, <3>1
  <2> QED
    BY <2>2, <2>3
<1>3. ASSUME NEW r \in Requests, Commit(r) \/ Fail(r) PROVE Serial'
  <2>1. req[r] \in Sent /\ req[r].pc = "batch" /\ Leave(req[r])
    BY <1>3, SentTyped DEF Commit, Fail
  <2>2. req'[r].pc # "batch" /\ \A s \in Requests \ {r} : req'[s] = req[s]
    BY <1>3, <2>1 DEF Commit, Fail, To, TypeOK, AnswerFrom, Sent
  <2>3. CASE Serialized(req[r].cmd)
    <3>1. busy[req[r].iso] = r /\ busy' = [busy EXCEPT ![req[r].iso] = Nobody]
      BY <2>1, <2>3 DEF Serial, Leave
    <3>2. \A i \in Isolates \ {req[r].iso} : busy'[i] = busy[i]
      BY <3>1 DEF TypeOK
    <3>3. \A s \in Requests : req[s].pc = "batch" => req[s].iso \in Isolates
      BY SentTyped DEF Sent
    <3> QED
      BY <2>2, <3>1, <3>2, <3>3 DEF Serial
  <2>4. CASE ~Serialized(req[r].cmd)
    BY <1>1, <2>1, <2>2, <2>4 DEF Leave
  <2> QED
    BY <2>3, <2>4
<1>4. ASSUME NEW r \in Requests, Gate(r) PROVE Serial'
  <2>1. req[r] \in Sent /\ busy' = busy /\ \A s \in Requests \ {r} : req'[s] = req[s]
    BY <1>4, SentTyped DEF Gate, To, TypeOK
  <2>2. req'[r].pc # "batch"
    BY <1>4, <2>1 DEF Gate, To, TypeOK, Sent
  <2> QED
    BY <1>1, <2>1, <2>2
<1>5. ASSUME NEW r \in Requests, NEW a \in Actors, NEW cmd \in Menu, NEW key \in Keys,
             NEW iso \in Isolates, Arrive(r, a, cmd, key, iso)
      PROVE Serial'
  <2>1. /\ busy' = busy /\ \A s \in Requests \ {r} : req'[s] = req[s]
        /\ req'[r].pc # "batch"
    BY <1>5 DEF Arrive, TypeOK, AnswerFrom
  <2> QED
    BY <1>1, <2>1
<1>6. CASE NextWindow \/ (\E h \in Humans : SignIn(h)) \/ UNCHANGED vars
  BY <1>1, <1>6 DEF NextWindow, SignIn, vars
<1> QED
  BY <1>2, <1>3, <1>4, <1>5, <1>6 DEF Next

\* A step that leaves people's roles and the notes alone, and lets a request
\* reach its batch only if what it found there makes sense.
LEMMA StillProtected ==
    ASSUME TypeOK, Protected, \A h \in Humans : member'[h] = member[h],
           UNCHANGED <<note, published>>,
           \A r \in Requests : req[r].pc = "done" => req'[r].pc = "done",
           \A r \in Requests : req'[r].pc = "batch" =>
             req'[r] = req[r] \/ (req'[r].cmd \in Menu /\ Sensible(req'[r].cmd))
    PROVE  Protected'
<1>1. QueueStillThere'
  <2>1. \A r \in Requests : req'[r].pc = "batch" /\ req'[r].cmd.op \in {"approve", "reject"}
                            => note[req'[r].cmd.target] = "pending"
    BY DEF Protected, QueueStillThere, Sensible
  <2> QED
    BY <2>1 DEF Protected, QueueStillThere
<1>2. OthersStillThere'
  <2> SUFFICES ASSUME NEW r \in Requests, req'[r].pc = "batch",
                      req'[r].cmd.op \in {"demote", "remove"},
                      req'[r].cmd.target \in Humans, member'[req'[r].cmd.target] = "maintainer"
               PROVE  \E h \in Humans \ {req'[r].cmd.target} : member'[h] = "maintainer"
    BY DEF OthersStillThere
  <2>1. CASE req'[r] = req[r]
    BY <2>1 DEF Protected, OthersStillThere
  <2>2. CASE Sensible(req'[r].cmd)
    BY <2>2 DEF Sensible, OthersRemain
  <2> QED
    BY <2>1, <2>2
<1> QED
  BY <1>1, <1>2 DEF Protected

LEMMA CommitProtects ==
    ASSUME TypeOK, Minters, Serial, Lone, Protected, NEW r \in Requests, Commit(r)
    PROVE  Protected'
<1> DEFINE q == req[r]
           t == req[r].cmd.target
<1>1. /\ q.pc = "batch" /\ q \in Sent /\ req'[r].pc = "done"
      /\ \A s \in Requests \ {r} : req'[s] = req[s]
      /\ t \in Targets(q.cmd.op)
  BY CommitFrame, SentTyped
<1>2. \A s \in Requests : req'[s].pc = "batch" => req'[s] = req[s] /\ s # r
  BY <1>1
\* After a serialized command no other is between its reads and its batch.
<1>3. ASSUME Serialized(q.cmd) 
      PROVE  \A s \in Requests : req'[s].pc = "batch" => ~Serialized(req'[s].cmd)
  BY <1>1, <1>2, <1>3, OnlyOne
<1>4. \A c : c.op \in {"demote", "remove", "promote", "approve", "reject"} => Serialized(c)
  BY DEF Serialized
<1>5. ASSUME (\A h \in Humans : member'[h] = member[h]) /\ UNCHANGED <<note, published>>
      PROVE  Protected'
  <2>1. \A s \in Requests : req[s].pc = "done" => req'[s].pc = "done"
    BY <1>1
  <2>2. \A s \in Requests : req'[s].pc = "batch" =>
          req'[s] = req[s] \/ (req'[s].cmd \in Menu /\ Sensible(req'[s].cmd))
    BY <1>2
  <2> QED
    BY <1>5, <2>1, <2>2, StillProtected
<1>6. CASE q.cmd.op = "promote" /\ SetRole(t, "maintainer")
  <2>1. \A h \in Humans : member[h] = "maintainer" => member'[h] = "maintainer"
    BY <1>6 DEF SetRole, TypeOK, Actors
  <2>2. \A s \in Requests : req'[s].pc = "batch" => ~Serialized(req'[s].cmd)
    BY <1>3, <1>4, <1>6
  <2>3. QueueStillThere'
    BY <1>1, <1>4, <1>6, <2>2 DEF SetRole, Protected, QueueStillThere
  <2>4. OthersStillThere'
    BY <1>4, <2>2 DEF OthersStillThere
  <2> QED
    BY <2>1, <2>3, <2>4 DEF Protected
\* A demotion or a removal leaves the other it has found.
<1>7. CASE /\ q.cmd.op \in {"demote", "remove"}
           /\ \A a \in Actors \ {t} : member'[a] = member[a]
           /\ UNCHANGED <<note, published>>
  <2>1. \E h \in Humans \ {t} : member[h] = "maintainer"
    BY <1>1, <1>7 DEF Protected, OthersStillThere
  <2>2. \E h \in Humans : member'[h] = "maintainer"
    BY <1>7, <2>1 DEF Actors
  <2>3. \A s \in Requests : req'[s].pc = "batch" => ~Serialized(req'[s].cmd)
    BY <1>3, <1>4, <1>7
  <2>4. QueueStillThere'
    BY <1>1, <1>4, <1>7, <2>3 DEF Protected, QueueStillThere
  <2>5. OthersStillThere'
    BY <1>4, <2>3 DEF OthersStillThere
  <2> QED
    BY <2>2, <2>4, <2>5 DEF Protected
<1>8. CASE q.cmd.op = "mint" /\ Mint(q)
  <2>1. t \in Tokens
    BY <1>1, <1>8 DEF Targets
  <2>2. \A h \in Humans : member'[h] = member[h]
    BY <1>8, <2>1, Kinds DEF Mint, TypeOK, Actors
  <2> QED
    BY <1>5, <1>8, <2>2 DEF Mint
<1>9. CASE \/ q.cmd.op = "approve" /\ Approve(t)
           \/ q.cmd.op = "reject" /\ Reject(t)
  <2>1. t \in AllNotes /\ note[t] = "pending" /\ t \notin published
    BY <1>1, <1>9 DEF Targets, Protected, QueueStillThere
  <2>2. \A s \in Requests : req'[s].pc = "batch" => ~Serialized(req'[s].cmd)
    BY <1>3, <1>4, <1>9
  <2>3. member' = member /\ \A n \in AllNotes \ {t} : note'[n] = note[n]
    BY <1>9 DEF Approve, Reject, Resolved, TypeOK
  <2>4. \A n \in published' : note'[n] \in {"approved", "absent"}
    <3>1. CASE Approve(t)
      BY <2>1, <2>3, <3>1 DEF Approve, Resolved, TypeOK, Protected, QueueStillThere
    <3>2. CASE Reject(t)
      BY <2>1, <2>3, <3>2 DEF Reject, Resolved, TypeOK, Protected, QueueStillThere
    <3> QED
      BY <1>9, <3>1, <3>2
  <2>5. \A s \in Requests : req'[s].pc # "done" => note'[s] = "absent" /\ s \notin published'
    <3> SUFFICES ASSUME NEW s \in Requests, req'[s].pc # "done"
                 PROVE  note'[s] = "absent" /\ s \notin published'
      OBVIOUS
    <3>1. req[s].pc # "done" /\ s \in AllNotes
      BY <1>1 DEF AllNotes
    <3>2. note[s] = "absent" /\ s \notin published /\ s # t
      BY <2>1, <3>1 DEF Protected, QueueStillThere
    <3> QED
      BY <1>9, <2>3, <3>1, <3>2 DEF Approve, Reject
  <2>6. QueueStillThere' /\ OthersStillThere'
    BY <1>4, <2>2, <2>4, <2>5 DEF QueueStillThere, OthersStillThere
  <2> QED
    BY <2>3, <2>6 DEF Protected
<1>10. CASE q.cmd.op = "annotate" /\ Annotate(r, q)
  <2>1. note[r] = "absent" /\ r \notin published /\ r \in AllNotes
    BY <1>1 DEF Protected, QueueStillThere, AllNotes
  <2>2. member' = member /\ \A n \in AllNotes \ {r} : note'[n] = note[n]
    BY <1>10 DEF Annotate, TypeOK
  <2>3. \A n \in published' : note'[n] \in {"approved", "absent"}
    BY <1>10, <2>1 DEF Annotate, TypeOK, Protected, QueueStillThere
  <2>4. \A s \in Requests : req'[s].pc # "done" => note'[s] = "absent" /\ s \notin published'
    BY <1>1, <1>10, <2>1, <2>2 DEF Annotate, Protected, QueueStillThere, AllNotes
  <2>5. \A s \in Requests : req'[s].pc = "batch" /\ req'[s].cmd.op \in {"approve", "reject"}
                            => note'[req'[s].cmd.target] = "pending"
    <3> SUFFICES ASSUME NEW s \in Requests, req'[s].pc = "batch",
                        req'[s].cmd.op \in {"approve", "reject"}
                 PROVE  note'[req'[s].cmd.target] = "pending"
      OBVIOUS
    <3>1. req[s].pc = "batch" /\ req'[s] = req[s] /\ req[s].cmd.target \in AllNotes
      BY <1>2, SentTyped DEF Targets
    <3>2. note[req[s].cmd.target] = "pending"
      BY <3>1 DEF Protected, QueueStillThere
    <3> QED
      BY <2>1, <2>2, <3>1, <3>2
  <2>6. OthersStillThere'
    BY <1>2, <2>2 DEF Protected, OthersStillThere
  <2> QED
    BY <2>2, <2>3, <2>4, <2>5, <2>6 DEF Protected, QueueStillThere
<1>11. CASE UNCHANGED <<access, raced>> \/ (\E S : Revoke(S)) \/ \E f, p \in BOOLEAN : SetGates(f, p)
  BY <1>5, <1>11 DEF access, Revoke, SetGates
<1>12. CASE q.cmd.op = "demote" /\ SetRole(t, "editor")
  BY <1>7, <1>12 DEF SetRole, TypeOK
<1>13. CASE q.cmd.op = "remove" /\ Remove(q)
  BY <1>7, <1>13 DEF Remove, TypeOK
<1> QED
  BY Commits, <1>6, <1>8, <1>9, <1>10, <1>11, <1>12, <1>13

LEMMA LoneStep ==
    ASSUME TypeOK, Minters, Serial, LoneInv, [Next]_vars
    PROVE  LoneInv'
<1> SUFFICES ASSUME Lone' PROVE Protected'
  BY DEF LoneInv
<1>1. Lone /\ Protected
  BY LoneBefore DEF LoneInv
<1>2. CASE UNCHANGED <<member, note, published>>
  <2>1. \A r \in Requests : Read(r) /\ req'[r].pc = "batch" =>
          req'[r].cmd \in Menu /\ Sensible(req'[r].cmd)
    <3> SUFFICES ASSUME NEW r \in Requests, Read(r), req'[r].pc = "batch"
                 PROVE  req'[r].cmd \in Menu /\ Sensible(req'[r].cmd)
      OBVIOUS
    <3>1. req[r] \in Sent /\ req[r].cmd \in Menu
      BY SentTyped DEF Read
    <3> QED
      BY <3>1 DEF Read, To, TypeOK, Sent
  <2> QED
    <3>1. \A s \in Requests : req[s].pc = "done" => req'[s].pc = "done"
      BY RequestSteps
    <3>2. \A s \in Requests : req'[s].pc = "batch" =>
            req'[s] = req[s] \/ (req'[s].cmd \in Menu /\ Sensible(req'[s].cmd))
      BY <2>1, RequestSteps
    <3>3. \A h \in Humans : member'[h] = member[h]
      BY <1>2
    <3> QED
      BY <1>1, <1>2, <3>1, <3>2, <3>3, StillProtected
<1>3. ASSUME NEW r \in Requests, Gate(r) \/ Read(r) \/ Fail(r)
      PROVE UNCHANGED <<member, note, published>>
  BY <1>3 DEF Gate, Read, Fail, access
<1>4. ASSUME NEW r \in Requests, NEW a \in Actors, NEW cmd \in Menu, NEW key \in Keys,
             NEW iso \in Isolates, Arrive(r, a, cmd, key, iso)
      PROVE UNCHANGED <<member, note, published>>
  BY <1>4 DEF Arrive, access
<1>5. ASSUME NextWindow \/ (\E h \in Humans : SignIn(h)) \/ UNCHANGED vars
      PROVE UNCHANGED <<member, note, published>>
  BY <1>5 DEF NextWindow, SignIn, vars, access
<1> QED
  BY <1>1, <1>2, <1>3, <1>4, <1>5, CommitProtects DEF Next
-----------------------------------------------------------------------------
(* The inductive invariant and what it gives.                              *)

LEMMA InvInit == Init => Inv
<1> SUFFICES ASSUME Init PROVE Inv
  OBVIOUS
<1>1. TypeOK /\ Minters
  BY TypeInit
<1>2. \A r \in Requests : req[r].pc = "unsent"
  BY DEF Init, Waiting
<1>3. KeysBound /\ RemovalsCover /\ Serial
  BY <1>2 DEF KeysBound, RemovalsCover, Serial, Settled, Init
<1>4. AdmittedCounted /\ AllowancePerPerson
  <2>1. \A h \in Humans, c \in Classes :
          /\ admitted[<<h, c>>] = [agents |-> 0, all |-> 0] /\ count[<<h, c>>] = 0
    BY DEF Init, Unused, Uncounted, Actors
  <2>2. \A c \in Humans \X Classes : admitted[c] = [agents |-> 0, all |-> 0]
    BY DEF Init, Unused
  <2>3. PerActor \in Nat /\ PerSession \in Nat
    BY Ceilings
  <2> QED
    BY <2>1, <2>2, <2>3 DEF AdmittedCounted, AllowancePerPerson
<1>5. PICK h \in Humans : /\ member[h] = "maintainer"
                          /\ \A k \in Tokens : token[k].owner \in {h, Nobody}
                          /\ \A k \in Tokens : token[k].state = "active" => token[k].owner = h
  BY DEF Init, Actors
<1>6. NoOrphanedAgents
  BY <1>5 DEF NoOrphanedAgents
<1>7. OthersStillThere
  BY <1>2 DEF OthersStillThere
<1>8. QueueStillThere
  BY <1>2, Kinds DEF QueueStillThere, Init, AllNotes
<1> QED
  BY <1>1, <1>3, <1>4, <1>5, <1>6, <1>7, <1>8 DEF Inv, LoneInv, Protected

LEMMA InvStep == Inv /\ [Next]_vars => Inv'
<1> SUFFICES ASSUME Inv, [Next]_vars PROVE Inv'
  OBVIOUS
<1>1. /\ TypeOK /\ Minters /\ KeysBound /\ RemovalsCover /\ AdmittedCounted
      /\ NoOrphanedAgents /\ AllowancePerPerson /\ Serial /\ LoneInv
  BY DEF Inv
<1>2. TypeOK' /\ Minters'
  BY <1>1, TypeStep
<1>3. KeysBound'
  BY <1>1, KeysStep
<1>4. RemovalsCover' /\ NoOrphanedAgents'
  BY <1>1, OrphansStep
<1>5. AdmittedCounted' /\ AllowancePerPerson'
  BY <1>1, AllowanceStep
<1>6. Serial'
  BY <1>1, SerialStep
<1>7. LoneInv'
  BY <1>1, LoneStep
<1> QED
  BY <1>2, <1>3, <1>4, <1>5, <1>6, <1>7 DEF Inv

\* The inductive invariant holds in every behaviour.
THEOREM Invariance == Spec => []Inv
<1>1. Init => Inv
  BY InvInit
<1>2. Inv /\ [Next]_vars => Inv'
  BY InvStep
<1> QED
  BY <1>1, <1>2, PTL DEF Spec

\* The tables, the serializers and the requests keep their types.
THEOREM TypeCorrect == Spec => []TypeOK
<1>1. Inv => TypeOK
  BY DEF Inv
<1> QED
  BY <1>1, Invariance, PTL

\* However often a client repeats a key, from however many isolates it is
\* answered, at most one of its requests takes effect and all the successes it
\* is told of are of one command.
THEOREM OneCommandPerKey == Spec => []KeyMeansOneCommand
<1>1. Inv => KeyMeansOneCommand
  BY DEF Inv, KeysBound, KeyMeansOneCommand, Settled
<1> QED
  BY <1>1, Invariance, PTL

\* An agent that outlives the removal of the person who minted it was minted
\* while the removal was under way or after it.
THEOREM RemovalEndsAgents == Spec => []NoOrphanedAgents
<1>1. Inv => NoOrphanedAgents
  BY DEF Inv
<1> QED
  BY <1>1, Invariance, PTL

\* A person with any number of agents passes the limiter no more often in a
\* window than the person's ceilings allow.
THEOREM OneAllowance == Spec => []AllowancePerPerson
<1>1. Inv => AllowancePerPerson
  BY DEF Inv
<1> QED
  BY <1>1, Invariance, PTL

\* While one isolate serves, no order of promotions, demotions and removals
\* leaves the book without a person who can administer it.
THEOREM MaintainerRemains == Spec => []HumanMaintainerRemains
<1>1. Inv => HumanMaintainerRemains
  BY DEF Inv, LoneInv, Protected, HumanMaintainerRemains
<1> QED
  BY <1>1, Invariance, PTL

\* While one isolate serves, approving and rejecting a queued note in any order
\* never publishes what was rejected.
THEOREM RejectedStaysOut == Spec => []RejectedNotPublished
<1>1. Inv => RejectedNotPublished
  BY DEF Inv, LoneInv, Protected, QueueStillThere, RejectedNotPublished
<1> QED
  BY <1>1, Invariance, PTL
===============================================================================
