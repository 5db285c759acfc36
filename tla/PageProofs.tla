------------------------------ MODULE PageProofs ------------------------------
(***************************************************************************)
(* Proofs about one reader's page: first its claim and its submission      *)
(* (PageClaims), then the event feed and the data read for it (Feed).  The *)
(* two modules share no variable and no proof.                             *)
(***************************************************************************)
EXTENDS PageClaims, Feed, TLAPS

-----------------------------------------------------------------------------
(* The page's claim: type correctness and the inductive invariant behind   *)
(* what a tab may believe of its claim and of its submission.              *)


\* The server's own books: one lease at a time, ids and tokens that only grow,
\* answers kept without their tokens.
Books ==
  /\ item = "leased" <=> lease.holder # "nobody"
  /\ taken = None <=> item \in {"ready", "leased"}
  /\ lease.token <= minted
  /\ lease.since <= Len(rows) /\ (Active => lease.since = Len(rows))
  /\ taken \in Keys => taken <= keys /\ answers[taken] # None
  /\ \A k \in Keys : answers[k] # None =>
       /\ answers[k].ok /\ answers[k].token = None
       /\ answers[k].lease <= lease.id /\ k <= keys

\* The log: what each row says of the lease and the command it names.
Written(i) ==
  /\ rows[i].lease <= lease.id /\ rows[i].cause <= keys
  /\ rows[i].type \in Enders \union {"leased"} => rows[i].cause = Foreign
  /\ rows[i].type \in {"received", "completed"} =>
       rows[i].cause = taken /\ taken # None /\ i > lease.since
  /\ taken # None /\ i > lease.since => rows[i].type \in {"received", "completed"}
  /\ rows[i].type = "received" => i = lease.since + 1
  /\ item # "ready" /\ i <= lease.since /\ rows[i].lease = lease.id =>
       rows[i].type \in {"leased", "recovered"}
  /\ rows[i].type = "recovered" /\ rows[i].cause # Foreign => answers[rows[i].cause] # None
Once(i, j) ==
  rows[i].type = "recovered" /\ rows[j].type = "recovered"
    /\ rows[i].cause = rows[j].cause /\ rows[i].cause # Foreign => i = j
Log == \A i \in DOMAIN rows : Written(i) /\ \A j \in DOMAIN rows : Once(i, j)

\* The leases the tab holds or is about to: it has named them in its storage,
\* has a recovery of them in flight, or has an answered claim to settle.  A lease
\* it was told to give up before it had saved it is not sought.
Sought ==
  (IF saved = None \/ tab.told THEN {} ELSE {saved})
  \union (IF tab.held = None THEN {} ELSE {tab.held.lease})
  \union (IF call # None /\ call.op = "recover" THEN {call.lease} ELSE {})
  \union (IF tab.claimKey # None /\ answers[tab.claimKey] # None
          THEN {answers[tab.claimKey].lease} ELSE {})

\* The submissions the tab may still hear of.
Submitted ==
  (IF last = None THEN {} ELSE {last}) \union (IF tab.sub = None THEN {} ELSE {tab.sub.key})

\* A claim that is held and not saved yet.
Taken(c) == c # None /\ c.state = "taken"

\* A submission that waits for a review, and whose row the tab has read.
Remembered(k) == reviewed /\ taken = k /\ tab.pos > lease.since

\* What the tab remembers of its claim and its commands.
Memory ==
  /\ tab.pos <= Len(rows) /\ tab.first <= keys
  /\ tab.held # None => /\ (saved = tab.held.lease \/ Taken(call)) /\ ~tab.told
                        /\ tab.held.lease <= lease.id /\ tab.held.token <= minted
  /\ saved # None => /\ tab.claimKey = None /\ saved <= lease.id
                     /\ tab.held = None => last = None /\ tab.sub = None
  /\ \A k \in tab.own : k <= keys
  /\ taken \notin tab.own /\ tab.claimKey \notin tab.own
  /\ tab.claimKey # None => tab.claimKey <= keys
  /\ tab.releaseKey # None => tab.releaseKey <= keys
  /\ last # None => tab.claimKey = None
  /\ \A k \in Submitted :
       /\ k <= keys /\ k \notin tab.own /\ k # tab.claimKey /\ k # tab.releaseKey
       /\ answers[k] # None => taken = k
       /\ tab.sub # None /\ k = taken /\ last = None => Sought = {}
  /\ tab.sub # None => /\ last # None => tab.sub.key = last
                       /\ tab.sub.received => tab.accepted = tab.sub.key \/ Remembered(tab.sub.key)
  /\ tab.accepted # None => taken = tab.accepted

\* A lease and token the server would take from the tab.
Good(id, token) == Current(id) /\ lease.token = token

\* The command in flight, told by its kind.
Sent(c) ==
  /\ c.key <= keys
  /\ c.op # "claim" => c.lease # None /\ c.lease <= lease.id
  /\ c.op \in {"claim", "recover"} => last = None /\ (tab.held # None => Taken(c))
  /\ c.op \in {"release", "submit"} =>
       tab.claimKey = None /\ (tab.held # None => tab.held.lease = c.lease)
  /\ c.op = "claim" /\ ~Taken(c) => c.key = tab.claimKey
  /\ Taken(c) =>
       /\ c.op = "claim" /\ c.answer # None /\ c.answer.ok /\ tab.claimKey = None /\ saved = None
       /\ IF tab.held = None THEN tab.told /\ tab.sub = None ELSE tab.held.lease = c.answer.lease
  /\ c.op = "recover" =>
       /\ IF answers[c.key] = None THEN c.key \in tab.own
          ELSE answers[c.key].lease = c.lease
       /\ IF c.claim = None THEN saved = c.lease /\ ~tab.told
          ELSE /\ c.claim = tab.claimKey /\ answers[c.claim] # None
               /\ answers[c.claim].lease = c.lease
  /\ c.op = "release" => c.key = tab.releaseKey
  /\ c.op = "submit" =>
       /\ c.key = last /\ c.token # None /\ c.token <= minted
       /\ tab.held # None => tab.held.token = c.token
       /\ tab.sub = None /\ ~overtaken => ~Good(c.lease, c.token) \/ tab.accepted = last
Heard(c) ==
  IF c.state = "sent" THEN c.answer = None
  ELSE /\ c.answer # None
       /\ c.answer.token # None => c.answer.ok /\ c.answer.token <= minted
       /\ IF c.answer.ok
          THEN answers[c.key] # None /\ answers[c.key].lease = c.answer.lease
          ELSE answers[c.key] = None
InFlight == call # None => Sent(call) /\ Heard(call)

\* Of the rows still unread about a lease the tab seeks, those a recovery of
\* this page load caused are known to be its own.
Unread == (tab.pos + 1)..Len(rows)
Known == \A i \in Unread :
  rows[i].type = "recovered" /\ rows[i].lease \in Sought /\ rows[i].cause > tab.first
    => rows[i].cause \in tab.own

\* A token that is worth nothing any more is so for a row the tab has yet to read.
Parts(row) ==
  \/ row.type \in Enders \union {"received"}
  \/ row.type = "recovered" /\ row.cause = Foreign
Warned(id) == \E i \in Unread : rows[i].lease = id /\ Parts(rows[i])
Holders ==
  (IF tab.held = None THEN {} ELSE {tab.held})
  \union (IF call # None /\ call.state = "answered" /\ call.op \in {"claim", "recover"}
             /\ call.answer.token # None
          THEN {[lease |-> call.answer.lease, token |-> call.answer.token]} ELSE {})
Foretold == ~late => \A h \in Holders : Good(h.lease, h.token) \/ Warned(h.lease) \/ Unheard

\* A tab that shows its submission as accepted has no claim and will get none.
Settled == tab.accepted # None => Holders = {}

\* A submission that was taken is shown, or its row is still to come and the
\* tab remembers the key it names.
Told ==
  last # None /\ taken = last =>
    /\ tab.held # None => tab.held.lease = lease.id
    /\ ~overtaken /\ tab.accepted # last =>
         /\ tab.sub # None
         /\ \/ reviewed /\ tab.sub.received
            \/ \E i \in Unread : rows[i].type = "received" /\ rows[i].cause = last

Inv == TypeOK /\ Books /\ Log /\ Memory /\ InFlight /\ Known /\ Foretold /\ Settled /\ Told
-----------------------------------------------------------------------------
(* What is in the tab and in flight, field by field.                       *)

\* A tab that has something has all its fields.
LEMMA TabFields ==
  ASSUME TypeOK
  PROVE  /\ tab.held # None => tab.held.lease \in Nat /\ tab.held.token \in Nat
                               /\ tab.held = [lease |-> tab.held.lease, token |-> tab.held.token]
         /\ tab.own \subseteq Keys
         /\ tab.sub # None => tab.sub \in Subs /\ tab.sub.key \in Keys
                               /\ tab.sub.received \in BOOLEAN /\ tab.sub.ended \in BOOLEAN
         /\ tab.accepted \in KeyOrNone /\ tab.told \in BOOLEAN
         /\ tab.claimKey \in KeyOrNone /\ tab.releaseKey \in KeyOrNone
         /\ tab.pos \in Nat /\ tab.first \in Nat
BY BoundAssumption DEF TypeOK, Tabs, Subs

\* So has a command in flight, and its answer if it is there.
LEMMA CallFields ==
  ASSUME TypeOK, call # None
  PROVE  /\ call \in Calls /\ call.key \in Keys /\ call.lease \in Ids /\ call.token \in Ids
         /\ call.op \in {"claim", "recover", "release", "submit"}
         /\ call.state \in {"sent", "answered", "taken"} /\ call.claim \in KeyOrNone
         /\ call.answer # None =>
              /\ call.answer \in Answers /\ call.answer.ok \in BOOLEAN
              /\ call.answer.lease \in Nat /\ call.answer.token \in Ids
BY DEF TypeOK, Calls, Answers

LEMMA LeaseFields ==
  ASSUME TypeOK
  PROVE  /\ lease.id \in Nat /\ lease.token \in Nat /\ lease.since \in Nat
         /\ lease.holder \in {"nobody", "tab", "other"}
         /\ keys \in Nat /\ keys <= MaxKeys /\ MaxKeys \in Nat
BY BoundAssumption DEF TypeOK, Leases

LEMMA RowFields ==
  ASSUME TypeOK, NEW i \in DOMAIN rows
  PROVE  /\ rows[i].type \in RowTypes /\ rows[i].lease \in Nat
         /\ rows[i].cause \in Nat /\ rows[i].cause <= MaxKeys
         /\ rows[i].cause # Foreign => rows[i].cause \in Keys
         /\ i \in Nat /\ 1 <= i /\ i <= Len(rows) /\ Len(rows) \in Nat
<1> DEFINE R == [type : RowTypes, lease : Nat, cause : 0..MaxKeys]
<1>1. rows \in Seq(R) /\ MaxKeys \in Nat
  BY BoundAssumption DEF TypeOK
<1> HIDE DEF R
<1>2. rows[i] \in R /\ i \in 1..Len(rows) /\ Len(rows) \in Nat
  BY <1>1
<1> QED
  BY <1>1, <1>2 DEF Keys, Foreign, R

LEMMA AnswerFields ==
  ASSUME TypeOK, NEW k \in Keys, answers[k] # None
  PROVE  /\ answers[k] \in Answers /\ answers[k].lease \in Nat
         /\ answers[k].ok \in BOOLEAN /\ answers[k].token \in Ids
BY DEF TypeOK, Answers
-----------------------------------------------------------------------------
(* The server's side of a step.                                            *)

\* What a step may do to the lease, the item and the log.
Lapses == UNCHANGED <<item, minted, rows, taken>> /\ lease' \in {lease, [lease EXCEPT !.lapsed = TRUE]}
Frees(type, cause) ==
  /\ Active /\ lease' = Freed /\ minted' = minted
  /\ rows' = Append(rows, Row(type, lease.id, cause))
  /\ item' = IF type = "received" THEN "submitted" ELSE "ready"
  /\ taken' = IF type = "received" THEN cause ELSE taken
Grants == taken' = taken /\ \E holder \in {"tab", "other"} : Grant(holder)
Replaces(cause) == Active /\ Replace(cause) /\ UNCHANGED <<item, taken>>
Completes ==
  /\ item = "submitted" /\ item' = "done"
  /\ rows' = Append(rows, Row("completed", lease.id, taken))
  /\ UNCHANGED <<lease, minted, taken>>

\* What it may do to the command in flight: nothing, a refusal, the answer kept
\* under its key, or the answer of its being carried out now.
Untouched == UNCHANGED <<call, answers>>
Answering(a) ==
  /\ call # None /\ call.state = "sent"
  /\ call' = [call EXCEPT !.state = "answered", !.answer = a]
Refuses == Answering(Answer(FALSE, 0, None)) /\ answers[call.key] = None /\ UNCHANGED answers
Repeats == Answering(answers[call.key]) /\ answers[call.key] # None /\ UNCHANGED answers
Performs(a) ==
  /\ Answering(a) /\ answers[call.key] = None
  /\ answers' = [answers EXCEPT ![call.key] = [a EXCEPT !.token = None]]

\* A command carried out: the answer, and what else the server did.
Claimed == Performs(Answer(TRUE, lease.id + 1, minted + 1)) /\ call.op = "claim" /\ taken' = taken /\ Grant("tab")
Recovered ==
  /\ Performs(Answer(TRUE, lease.id, minted + 1)) /\ call.op = "recover"
  /\ Current(call.lease) /\ Replaces(call.key)
Released ==
  /\ Performs(Answer(TRUE, lease.id, None)) /\ call.op = "release" /\ Current(call.lease)
  /\ \E type \in Enders : Frees(type, Foreign)
Accepted ==
  /\ Performs(Answer(TRUE, lease.id, None)) /\ call.op = "submit"
  /\ Good(call.lease, call.token) /\ Frees("received", call.key)

\* Every step of the server is one of these.
ServerStep ==
  /\ UNCHANGED <<reviewed, tab, saved, bounds, past>>
  /\ \/ Untouched /\ \/ Lapses \/ Grants \/ Completes \/ Replaces(Foreign) \/ Frees("received", Foreign)
                     \/ \E type \in Enders : Frees(type, Foreign)
     \/ Refuses /\ (Lapses \/ Frees("expired", Foreign))
     \/ Repeats /\ Lapses
     \/ Claimed \/ Recovered \/ Released \/ Accepted

LEMMA ServerSteps ==
  ASSUME TypeOK, Others \/ Serve
  PROVE  ServerStep
<1>1. CASE Lapse
  BY <1>1 DEF Lapse, ServerStep, Untouched, Lapses, bounds, past
<1>2. CASE Sweep
  BY <1>2 DEF Sweep, Expire, ServerStep, Untouched, Frees, Enders
<1>3. CASE OtherClaims
  BY <1>3 DEF OtherClaims, ServerStep, Untouched, Grants
<1>4. CASE OtherReleases
  BY <1>4 DEF OtherReleases, ServerStep, Untouched, Frees, Enders
<1>5. CASE OtherRecovers
  BY <1>5 DEF OtherRecovers, ServerStep, Untouched, Replaces
<1>6. CASE OtherSubmits
  BY <1>6 DEF OtherSubmits, ServerStep, Untouched, Frees
<1>7. CASE Complete
  BY <1>7 DEF Complete, ServerStep, Untouched, Completes
<1>8. CASE Repeat
  BY <1>8 DEF Repeat, ServerStep, Repeats, Answering, Answered, Lapses, server
<1>9. CASE ServeClaim
  BY <1>9 DEF ServeClaim, Arrives, ServerStep, Claimed, Performs, Refuses, Answering, Answered,
     Kept, Lapses, server
<1>10. CASE ServeRecover
  BY <1>10 DEF ServeRecover, Arrives, ServerStep, Recovered, Performs, Refuses, Answering, Answered,
     Kept, Lapses, server, Expire, Frees, Replaces, Current
<1>11. CASE ServeRelease
  BY <1>11 DEF ServeRelease, Arrives, ServerStep, Released, Performs, Refuses, Answering, Answered,
     Kept, Lapses, server, Frees, Current, Enders
<1>12. CASE ServeSubmit
  BY <1>12 DEF ServeSubmit, Arrives, ServerStep, Accepted, Performs, Refuses, Answering, Answered,
     Kept, Lapses, server, Expire, Frees, Current, Good
<1> QED
  BY <1>1, <1>2, <1>3, <1>4, <1>5, <1>6, <1>7, <1>8, <1>9, <1>10, <1>11, <1>12 DEF Others, Serve
-----------------------------------------------------------------------------
(* What the server's steps keep.                                           *)

\* Rows are only added, ids and tokens only grow, a taken submission stays.
Grows ==
  /\ lease.id <= lease'.id /\ minted <= minted' /\ Len(rows) <= Len(rows')
  /\ \A i \in DOMAIN rows : i \in DOMAIN rows' /\ rows'[i] = rows[i]
  /\ lease.id \in Nat /\ lease'.id \in Nat /\ minted \in Nat /\ minted' \in Nat
  /\ Len(rows) \in Nat /\ Len(rows') \in Nat

LEMMA Appended ==
  ASSUME TypeOK, NEW r, rows' = Append(rows, r)
  PROVE  /\ Len(rows') = Len(rows) + 1 /\ Len(rows) \in Nat
         /\ \A i \in DOMAIN rows : i \in DOMAIN rows' /\ rows'[i] = rows[i]
         /\ rows'[Len(rows) + 1] = r
         /\ DOMAIN rows' = DOMAIN rows \union {Len(rows) + 1}
         /\ DOMAIN rows = 1..Len(rows)
<1>1. rows \in Seq([type : RowTypes, lease : Nat, cause : 0..MaxKeys])
  BY DEF TypeOK
<1> QED
  BY <1>1

\* A grant ends the lease that has lapsed, if there is one, and adds its own row.
LEMMA Granted ==
  ASSUME TypeOK, NEW holder, Grant(holder)
  PROVE  \E n \in Nat :
           /\ n = IF Active THEN 2 ELSE 1
           /\ Len(rows') = Len(rows) + n /\ Len(rows) \in Nat
           /\ DOMAIN rows = 1..Len(rows) /\ DOMAIN rows' = 1..(Len(rows) + n)
           /\ \A i \in DOMAIN rows : rows'[i] = rows[i]
           /\ rows'[Len(rows) + n] = Row("leased", lease.id + 1, Foreign)
           /\ Active => rows'[Len(rows) + 1] = Row("expired", lease.id, Foreign)
           /\ lease'.since = Len(rows) + n
<1>1. rows \in Seq([type : RowTypes, lease : Nat, cause : 0..MaxKeys]) /\ lease.id \in Nat
  BY LeaseFields DEF TypeOK
<1> DEFINE first == Row("expired", lease.id, Foreign)
           second == Row("leased", lease.id + 1, Foreign)
<1>2. CASE Active
  <2>1. rows' = (rows \o <<first>>) \o <<second>> /\ lease'.since = Len(rows')
    BY <1>2 DEF Grant
  <2> HIDE DEF first, second
  <2>2. /\ Len(rows') = Len(rows) + 2 /\ rows'[Len(rows) + 1] = first /\ rows'[Len(rows) + 2] = second
        /\ \A i \in DOMAIN rows : rows'[i] = rows[i]
        /\ DOMAIN rows = 1..Len(rows) /\ DOMAIN rows' = 1..(Len(rows) + 2) /\ Len(rows) \in Nat
    BY <1>1, <2>1
  <2> QED
    BY <1>2, <2>1, <2>2 DEF first, second
<1>3. CASE ~Active
  <2>1. rows' = (rows \o << >>) \o <<second>> /\ lease'.since = Len(rows')
    BY <1>3 DEF Grant
  <2> HIDE DEF first, second
  <2>2. /\ Len(rows') = Len(rows) + 1 /\ rows'[Len(rows) + 1] = second
        /\ \A i \in DOMAIN rows : rows'[i] = rows[i]
        /\ DOMAIN rows = 1..Len(rows) /\ DOMAIN rows' = 1..(Len(rows) + 1) /\ Len(rows) \in Nat
    BY <1>1, <2>1
  <2> QED
    BY <1>3, <2>1, <2>2 DEF first, second
<1> QED
  BY <1>2, <1>3

\* The server's part of the types.
ServerTyped ==
  /\ item' \in {"ready", "leased", "submitted", "done"} /\ lease' \in Leases /\ minted' \in Nat
  /\ rows' \in Seq([type : RowTypes, lease : Nat, cause : 0..MaxKeys])
  /\ taken' \in {None, Foreign} \union Keys

LEMMA FreesTyped ==
  ASSUME TypeOK, Books, NEW type \in Enders \union {"received"}, NEW c \in Keys \union {Foreign},
         Frees(type, c)
  PROVE  ServerTyped
<1>1. Row(type, lease.id, c) \in [type : RowTypes, lease : Nat, cause : 0..MaxKeys]
  BY LeaseFields DEF Row, RowTypes, Enders, Keys, Foreign
<1>2. rows' \in Seq([type : RowTypes, lease : Nat, cause : 0..MaxKeys])
  BY <1>1 DEF Frees, TypeOK
<1> QED
  BY <1>2 DEF Frees, Freed, ServerTyped, TypeOK, Leases

LEMMA GrantsTyped ==
  ASSUME TypeOK, Books, NEW holder \in {"tab", "other"}, Grant(holder), taken' = taken
  PROVE  ServerTyped
<1>1. /\ Row("expired", lease.id, Foreign) \in [type : RowTypes, lease : Nat, cause : 0..MaxKeys]
      /\ Row("leased", lease.id + 1, Foreign) \in [type : RowTypes, lease : Nat, cause : 0..MaxKeys]
  BY LeaseFields DEF Row, RowTypes, Keys, Foreign
<1>2. rows' \in Seq([type : RowTypes, lease : Nat, cause : 0..MaxKeys])
  <2> DEFINE R == [type : RowTypes, lease : Nat, cause : 0..MaxKeys]
  <2>1. ASSUME NEW a \in R, NEW b \in R, rows \in Seq(R)
        PROVE /\ (rows \o <<a>>) \o <<b>> \in Seq(R)
              /\ (rows \o << >>) \o <<b>> \in Seq(R)
    <3> HIDE DEF R
    <3> QED
      BY <2>1
  <2> QED
    BY <1>1, <2>1 DEF Grant, TypeOK
<1>3. Len(rows') \in Nat
  BY <1>2
<1>4. lease' \in Leases
  <2>1. lease' = [id |-> lease.id + 1, holder |-> holder, token |-> minted + 1,
                  since |-> Len(rows'), lapsed |-> FALSE]
    BY DEF Grant
  <2>2. lease.id + 1 \in Nat /\ minted + 1 \in Nat
    BY LeaseFields DEF TypeOK
  <2> QED
    BY <1>3, <2>1, <2>2 DEF Leases
<1>5. item' = "leased" /\ minted' \in Nat
  BY DEF Grant, TypeOK
<1> QED
  BY <1>2, <1>4, <1>5 DEF ServerTyped, TypeOK

LEMMA ReplacesTyped ==
  ASSUME TypeOK, Books, NEW c \in Keys \union {Foreign}, Replaces(c)
  PROVE  ServerTyped
<1>1. Row("recovered", lease.id, c) \in [type : RowTypes, lease : Nat, cause : 0..MaxKeys]
  BY LeaseFields DEF Row, RowTypes, Keys, Foreign
<1>2. rows' \in Seq([type : RowTypes, lease : Nat, cause : 0..MaxKeys]) /\ Len(rows) \in Nat
  BY <1>1 DEF Replaces, Replace, TypeOK
<1>3. lease' = [lease EXCEPT !.token = minted + 1, !.since = Len(rows) + 1]
  BY DEF Replaces, Replace
<1>4. lease' \in Leases
  <2>1. \A t, n \in Nat : [lease EXCEPT !.token = t, !.since = n] \in Leases
    BY DEF TypeOK, Leases
  <2>2. minted + 1 \in Nat /\ Len(rows) + 1 \in Nat
    BY <1>2 DEF TypeOK
  <2> QED
    BY <1>3, <2>1, <2>2
<1>5. minted' \in Nat /\ item' = item /\ taken' = taken
  BY DEF Replaces, Replace, TypeOK
<1> QED
  BY <1>2, <1>4, <1>5 DEF ServerTyped, TypeOK

LEMMA CompletesTyped ==
  ASSUME TypeOK, Books, Completes
  PROVE  ServerTyped
<1>1. taken \in Keys \union {Foreign}
  BY DEF Completes, Books, TypeOK
<1>2. Row("completed", lease.id, taken) \in [type : RowTypes, lease : Nat, cause : 0..MaxKeys]
  BY <1>1, LeaseFields DEF Row, RowTypes, Keys, Foreign
<1>3. rows' \in Seq([type : RowTypes, lease : Nat, cause : 0..MaxKeys])
  BY <1>2 DEF Completes, TypeOK
<1> QED
  BY <1>3 DEF Completes, ServerTyped, TypeOK

\* The command in flight is left alone, or answered.
LEMMA CallAnswered ==
  ASSUME TypeOK, ServerStep
  PROVE  \/ Untouched
         \/ \E a \in Answers : Answering(a) /\ (UNCHANGED answers \/ Performs(a))
<1>1. /\ Answer(FALSE, 0, None) \in Answers
      /\ \A id, token \in Nat : /\ Answer(TRUE, id, token) \in Answers
                                /\ Answer(TRUE, id, None) \in Answers
  BY DEF Answer, Answers, Ids
<1>2. lease.id \in Nat /\ lease.id + 1 \in Nat /\ minted + 1 \in Nat
  BY LeaseFields DEF TypeOK
<1>3. CASE Refuses
  BY <1>1, <1>3 DEF Refuses
<1>4. CASE Repeats
  <2>1. answers[call.key] \in Answers
    BY <1>4, CallFields, AnswerFields DEF Repeats, Answering
  <2> QED
    BY <1>4, <2>1 DEF Repeats
<1>5. ASSUME NEW a \in Answers, Performs(a)
      PROVE  \E b \in Answers : Answering(b) /\ (UNCHANGED answers \/ Performs(b))
  BY <1>5 DEF Performs
<1>6. CASE Claimed
  BY <1>1, <1>2, <1>5, <1>6 DEF Claimed
<1>7. CASE Recovered
  BY <1>1, <1>2, <1>5, <1>7 DEF Recovered
<1>8. CASE Released
  BY <1>1, <1>2, <1>5, <1>8 DEF Released
<1>9. CASE Accepted
  BY <1>1, <1>2, <1>5, <1>9 DEF Accepted
<1> QED
  BY <1>3, <1>4, <1>6, <1>7, <1>8, <1>9 DEF ServerStep

\* Any step of the server keeps the types.
LEMMA ServerType ==
  ASSUME TypeOK, Books, InFlight, ServerStep
  PROVE  TypeOK'
<1>1. ServerTyped
  <2>1. ASSUME NEW type \in Enders \union {"received"}, Frees(type, Foreign)
        PROVE ServerTyped
    BY <2>1, FreesTyped
  <2>2. CASE Lapses
    BY <2>2 DEF Lapses, ServerTyped, TypeOK, Leases
  <2>3. CASE Grants
    BY <2>3, GrantsTyped DEF Grants
  <2>4. CASE Completes
    BY <2>4, CompletesTyped
  <2>5. CASE Replaces(Foreign)
    BY <2>5, ReplacesTyped
  <2>6. CASE Claimed
    BY <2>6, GrantsTyped DEF Claimed
  <2>7. CASE Recovered
    BY <2>7, ReplacesTyped, CallFields DEF Recovered, Performs, Answering
  <2>8. CASE Released
    BY <2>1, <2>8 DEF Released
  <2>9. CASE Accepted
    BY <2>9, FreesTyped, CallFields DEF Accepted, Performs, Answering
  <2> QED
    BY <2>1, <2>2, <2>3, <2>4, <2>5, <2>6, <2>7, <2>8, <2>9 DEF ServerStep, Enders
<1>2. answers' \in [Keys -> Answers \union {None}] /\ call' \in Calls \union {None}
  <2>1. CASE Untouched
    BY <2>1 DEF Untouched, TypeOK
  <2>2. ASSUME NEW a \in Answers, Answering(a)
        PROVE  call' \in Calls
    BY <2>2, CallFields DEF Answering, Calls
  <2>3. ASSUME NEW a \in Answers, Performs(a)
        PROVE  answers' \in [Keys -> Answers \union {None}]
    <3>1. [a EXCEPT !.token = None] \in Answers
      BY DEF Answers, Ids
    <3> QED
      BY <2>3, <3>1 DEF Performs, TypeOK
  <2> QED
    BY <2>1, <2>2, <2>3, CallAnswered DEF TypeOK
<1> QED
  BY <1>1, <1>2 DEF ServerTyped, TypeOK, ServerStep, bounds, past
-----------------------------------------------------------------------------
(* The server's books and its log.                                         *)

\* The fields of the lease after each kind of step.
LEMMA LeaseAfter ==
  ASSUME TypeOK
  PROVE  /\ Lapses => /\ lease'.id = lease.id /\ lease'.holder = lease.holder
                      /\ lease'.token = lease.token /\ lease'.since = lease.since
         /\ \A type, c : Frees(type, c) =>
              /\ lease'.id = lease.id /\ lease'.holder = "nobody"
              /\ lease'.token = lease.token /\ lease'.since = lease.since
         /\ \A c : Replaces(c) =>
              /\ lease'.id = lease.id /\ lease'.holder = lease.holder
              /\ lease'.token = minted + 1 /\ lease'.since = Len(rows) + 1 /\ minted' = minted + 1
         /\ \A holder : Grant(holder) =>
              /\ lease'.id = lease.id + 1 /\ lease'.holder = holder
              /\ lease'.token = minted + 1 /\ minted' = minted + 1
<1>1. Lapses => /\ lease'.id = lease.id /\ lease'.holder = lease.holder
                /\ lease'.token = lease.token /\ lease'.since = lease.since
  BY DEF Lapses, TypeOK, Leases
<1>2. ASSUME NEW type, NEW c, Frees(type, c)
      PROVE /\ lease'.id = lease.id /\ lease'.holder = "nobody"
            /\ lease'.token = lease.token /\ lease'.since = lease.since
  <2>1. lease' = [lease EXCEPT !.holder = "nobody", !.lapsed = FALSE]
    BY <1>2 DEF Frees, Freed
  <2> QED
    BY <2>1 DEF TypeOK, Leases
<1>3. ASSUME NEW c, Replaces(c)
      PROVE /\ lease'.id = lease.id /\ lease'.holder = lease.holder
            /\ lease'.token = minted + 1 /\ lease'.since = Len(rows) + 1 /\ minted' = minted + 1
  <2>1. lease' = [lease EXCEPT !.token = minted + 1, !.since = Len(rows) + 1] /\ minted' = minted + 1
    BY <1>3 DEF Replaces, Replace
  <2> QED
    BY <2>1 DEF TypeOK, Leases
<1>4. ASSUME NEW holder, Grant(holder)
      PROVE /\ lease'.id = lease.id + 1 /\ lease'.holder = holder
            /\ lease'.token = minted + 1 /\ minted' = minted + 1
  BY <1>4 DEF Grant
<1> QED
  BY <1>1, <1>2, <1>3, <1>4

\* The answers kept are kept for good; a new one is that of the command in
\* flight, about the lease there is after it.
LEMMA AnswersAfter ==
  ASSUME TypeOK, ServerStep, NEW k \in Keys
  PROVE  /\ answers[k] # None => answers'[k] = answers[k]
         /\ answers[k] = None /\ answers'[k] # None =>
              /\ call # None /\ k = call.key /\ call.state = "sent"
              /\ Claimed \/ Recovered \/ Released \/ Accepted
              /\ answers'[k].ok /\ answers'[k].token = None /\ answers'[k].lease = lease'.id
<1>1. CASE UNCHANGED answers
  BY <1>1
<1>2. ASSUME NEW a, Performs(a)
      PROVE /\ call # None /\ call.state = "sent" /\ answers[call.key] = None
            /\ answers'[call.key] = [a EXCEPT !.token = None]
            /\ k # call.key => answers'[k] = answers[k]
  BY <1>2, CallFields DEF Performs, Answering, TypeOK
<1>4. CASE Claimed \/ Recovered \/ Released \/ Accepted
  <2>1. PICK id, token : Performs(Answer(TRUE, id, token)) /\ id = lease'.id
    BY <1>4, LeaseAfter DEF Claimed, Recovered, Released, Accepted
  <2>2. /\ call # None /\ call.state = "sent" /\ answers[call.key] = None
        /\ answers'[call.key] = [Answer(TRUE, id, token) EXCEPT !.token = None]
        /\ k # call.key => answers'[k] = answers[k]
    BY <1>2, <2>1
  <2> DEFINE A == [Answer(TRUE, id, token) EXCEPT !.token = None]
  <2>3. A.ok /\ A.token = None /\ A.lease = lease'.id
    BY <2>1 DEF Answer
  <2>4. answers'[call.key] = A
    BY <2>2
  <2> HIDE DEF A
  <2>5. answers[k] = None /\ answers'[k] # None => k = call.key
    BY <2>2
  <2> QED
    BY <1>4, <2>2, <2>3, <2>4, <2>5
<1> QED
  BY <1>1, <1>4 DEF ServerStep, Untouched, Refuses, Repeats

\* Every step of the server is of one kind, as far as its tables go; the
\* command a new row names is nobody's or the one carried out now.
Names(op, c) ==
  \/ c = Foreign
  \/ /\ c \in Keys /\ call # None /\ call.op = op /\ c = call.key
     /\ answers[c] = None /\ answers'[c] # None
LEMMA ServerKinds ==
  ASSUME TypeOK, ServerStep
  PROVE  \/ Lapses
         \/ \E type \in Enders : Frees(type, Foreign)
         \/ \E c : Frees("received", c) /\ Names("submit", c)
         \/ Grants
         \/ \E c : Replaces(c) /\ Names("recover", c)
         \/ Completes
<1>1. ASSUME NEW a \in Answers, Performs(a)
      PROVE Names(call.op, call.key)
  <2>1. [a EXCEPT !.token = None] \in Answers
    BY DEF Answers, Ids
  <2>2. [a EXCEPT !.token = None] # None
    BY <2>1, NoneAssumption DEF Answers, Ids
  <2> QED
    BY <1>1, <2>2, CallFields DEF Performs, Answering, Names, TypeOK
<1>2. lease.id \in Nat /\ minted + 1 \in Nat
  BY LeaseFields DEF TypeOK
<1>3. CASE Recovered
  <2>1. Answer(TRUE, lease.id, minted + 1) \in Answers
    BY <1>2 DEF Answer, Answers, Ids
  <2> QED
    BY <1>1, <1>3, <2>1 DEF Recovered
<1>4. CASE Accepted
  <2>1. Answer(TRUE, lease.id, None) \in Answers
    BY <1>2 DEF Answer, Answers, Ids
  <2> QED
    BY <1>1, <1>4, <2>1 DEF Accepted
<1>5. Names("submit", Foreign) /\ Names("recover", Foreign)
  BY DEF Names
<1> QED
  BY <1>3, <1>4, <1>5 DEF ServerStep, Claimed, Released, Grants, Enders

\* What a step of the server leaves behind.
LEMMA ServerGrows ==
  ASSUME TypeOK, Books, ServerStep
  PROVE  /\ Grows /\ UNCHANGED <<reviewed, tab, saved, bounds, past>>
         /\ taken # None => taken' = taken /\ lease'.id = lease.id /\ lease'.since = lease.since
<1>1. lease.id \in Nat /\ minted \in Nat
  BY LeaseFields DEF TypeOK
<1>2. Len(rows) \in Nat
  BY DEF TypeOK
<1> USE <1>1
<1>3. ASSUME Lapses
      PROVE  Grows
  <2>1. rows' = rows /\ minted' = minted
    BY <1>3 DEF Lapses
  <2>3. Len(rows') = Len(rows) /\ lease'.id = lease.id
    BY <1>3, <2>1, LeaseAfter
  <2>2. \A i \in DOMAIN rows : i \in DOMAIN rows' /\ rows'[i] = rows[i]
    BY <2>1
  <2> QED
    BY <1>2, <2>1, <2>2, <2>3 DEF Grows
<1>4. ASSUME NEW type, NEW c, Frees(type, c)
      PROVE Grows /\ taken = None
  <2>1. rows' = Append(rows, Row(type, lease.id, c)) /\ minted' = minted /\ lease'.id = lease.id
    BY <1>4, LeaseAfter DEF Frees
  <2>2. taken = None
    BY <1>4 DEF Frees, Active, Books
  <2> QED
    BY <1>2, <2>1, <2>2, Appended DEF Grows
<1>5. ASSUME NEW c, Replaces(c)
      PROVE Grows /\ taken = None
  <2>1. /\ rows' = Append(rows, Row("recovered", lease.id, c))
        /\ minted' = minted + 1 /\ lease'.id = lease.id
    BY <1>5, LeaseAfter DEF Replaces, Replace
  <2>2. taken = None
    BY <1>5 DEF Replaces, Active, Books
  <2> QED
    BY <1>2, <2>1, <2>2, Appended DEF Grows
<1>6. ASSUME NEW holder, Grant(holder)
      PROVE Grows /\ taken = None
  <2>1. taken = None
    BY <1>6 DEF Grant, Active, Books
  <2>2. lease'.id = lease.id + 1 /\ minted' = minted + 1
    BY <1>6, LeaseAfter
  <2>3. PICK n \in Nat : /\ Len(rows') = Len(rows) + n
                         /\ DOMAIN rows = 1..Len(rows) /\ DOMAIN rows' = 1..(Len(rows) + n)
                         /\ \A i \in DOMAIN rows : rows'[i] = rows[i]
    BY <1>6, Granted
  <2> QED
    BY <1>2, <2>1, <2>2, <2>3 DEF Grows
<1>7. ASSUME Completes
      PROVE  Grows
  <2>1. /\ rows' = Append(rows, Row("completed", lease.id, taken))
        /\ minted' = minted /\ lease'.id = lease.id
    BY <1>7 DEF Completes
  <2>2. /\ Len(rows') = Len(rows) + 1
        /\ \A i \in DOMAIN rows : i \in DOMAIN rows' /\ rows'[i] = rows[i]
    BY <2>1, Appended
  <2> QED
    BY <1>2, <2>1, <2>2 DEF Grows
<1> QED
  BY <1>3, <1>4, <1>5, <1>6, <1>7, ServerKinds, LeaseAfter DEF Lapses, Grants, Completes, ServerStep

LEMMA BooksStep ==
  ASSUME TypeOK, Books, InFlight, ServerStep
  PROVE  Books'
<1>1. /\ lease.id \in Nat /\ minted \in Nat /\ lease.token \in Nat /\ lease.since \in Nat
      /\ Len(rows) \in Nat /\ keys' = keys
  BY LeaseFields, ServerGrows DEF TypeOK, Grows, bounds
<1>2. \A k \in Keys : answers'[k] # None =>
        /\ answers'[k].ok /\ answers'[k].token = None
        /\ answers'[k].lease <= lease'.id /\ k <= keys'
  <2> SUFFICES ASSUME NEW k \in Keys, answers'[k] # None
               PROVE  /\ answers'[k].ok /\ answers'[k].token = None
                      /\ answers'[k].lease <= lease'.id /\ k <= keys'
    OBVIOUS
  <2>1. CASE answers[k] # None
    <3>1. answers'[k] = answers[k]
      BY <2>1, AnswersAfter
    <3>2. answers[k].ok /\ answers[k].token = None /\ answers[k].lease <= lease.id /\ k <= keys
      BY <2>1 DEF Books
    <3>3. answers[k].lease \in Nat /\ lease'.id \in Nat /\ lease.id <= lease'.id
      BY <2>1, AnswerFields, ServerGrows DEF Grows
    <3> QED
      BY <1>1, <3>1, <3>2, <3>3
  <2>2. CASE answers[k] = None
    <3>1. /\ call # None /\ k = call.key
          /\ answers'[k].ok /\ answers'[k].token = None /\ answers'[k].lease = lease'.id
      BY <2>2, AnswersAfter
    <3> QED
      BY <1>1, <3>1, ServerGrows DEF InFlight, Sent, Grows
  <2> QED
    BY <2>1, <2>2
<1>3. taken' \in Keys => taken' <= keys' /\ answers'[taken'] # None
  <2>1. CASE taken' = taken
    BY <1>1, <2>1, AnswersAfter DEF Books
  <2>2. ASSUME NEW c, Frees("received", c), Names("submit", c)
        PROVE c \in Keys => c <= keys /\ answers'[c] # None
    BY <2>2 DEF Names, InFlight, Sent, Foreign, Keys
  <2> QED
    BY <1>1, <2>1, <2>2, ServerKinds DEF Lapses, Frees, Enders, Grants, Replaces, Completes
<1>4. /\ item' = "leased" <=> lease'.holder # "nobody"
      /\ taken' = None <=> item' \in {"ready", "leased"}
      /\ lease'.token <= minted'
      /\ lease'.since <= Len(rows') /\ (Active' => lease'.since = Len(rows'))
  <2>1. CASE Lapses
    BY <1>1, <2>1, LeaseAfter DEF Lapses, Books, Active
  <2>2. ASSUME NEW type, NEW c, Frees(type, c), type \in Enders \/ (type = "received" /\ Names("submit", c))
        PROVE /\ item' = "leased" <=> lease'.holder # "nobody"
              /\ taken' = None <=> item' \in {"ready", "leased"}
              /\ lease'.token <= minted'
              /\ lease'.since <= Len(rows') /\ (Active' => lease'.since = Len(rows'))
    <3>1. type = "received" => c # None
      BY <2>2, NoneAssumption DEF Names, Foreign, Keys, Enders
    <3> QED
      BY <1>1, <2>2, <3>1, LeaseAfter, Appended DEF Frees, Books, Active, Enders
  <2>3. CASE Grants
    <3>1. PICK holder \in {"tab", "other"} : Grant(holder)
      BY <2>3 DEF Grants
    <3>2. lease'.since = Len(rows') /\ item' = "leased" /\ taken = None /\ Len(rows') \in Nat
      BY <2>3, <3>1, ServerGrows DEF Grant, Books, Active, Grows
    <3> QED
      BY <1>1, <2>3, <3>1, <3>2, LeaseAfter DEF Grants, Books
  <2>4. ASSUME NEW c, Replaces(c)
        PROVE /\ item' = "leased" <=> lease'.holder # "nobody"
              /\ taken' = None <=> item' \in {"ready", "leased"}
              /\ lease'.token <= minted'
              /\ lease'.since <= Len(rows') /\ (Active' => lease'.since = Len(rows'))
    BY <1>1, <2>4, LeaseAfter, Appended DEF Replaces, Replace, Books, Active
  <2>5. CASE Completes
    BY <1>1, <2>5, Appended DEF Completes, Books, Active
  <2>6. CASE \E type \in Enders : Frees(type, Foreign)
    <3>1. PICK type \in Enders : Frees(type, Foreign)
      BY <2>6
    <3> QED
      BY <2>2, <3>1
  <2>7. CASE \E c : Frees("received", c) /\ Names("submit", c)
    <3>1. PICK c : Frees("received", c) /\ Names("submit", c)
      BY <2>7
    <3> QED
      BY <2>2, <3>1
  <2>8. CASE \E c : Replaces(c) /\ Names("recover", c)
    <3>1. PICK c : Replaces(c)
      BY <2>8
    <3> QED
      BY <2>4, <3>1
  <2> QED
    BY <2>1, <2>3, <2>5, <2>6, <2>7, <2>8, ServerKinds
<1> QED
  BY <1>2, <1>3, <1>4 DEF Books
\* What a row just added says.
EndRow(i) ==
  /\ rows'[i].type \in Enders /\ rows'[i].cause = Foreign /\ rows'[i].lease = lease.id
  /\ Active /\ (item' = "ready" \/ lease'.id = lease.id + 1) /\ taken' = None
LeaseRow(i) ==
  /\ rows'[i].type = "leased" /\ rows'[i].cause = Foreign /\ rows'[i].lease = lease'.id
  /\ taken' = None
TokenRow(i) ==
  /\ rows'[i].type = "recovered" /\ Names("recover", rows'[i].cause) /\ rows'[i].lease = lease.id
  /\ Active /\ lease'.id = lease.id /\ taken' = None
TakenRow(i) ==
  /\ rows'[i].type = "received" /\ Names("submit", rows'[i].cause) /\ rows'[i].lease = lease.id
  /\ Active /\ i = lease.since + 1 /\ lease'.id = lease.id /\ lease'.since = lease.since
  /\ taken' = rows'[i].cause
DoneRow(i) ==
  /\ rows'[i].type = "completed" /\ rows'[i].cause = taken /\ rows'[i].lease = lease.id
  /\ taken # None /\ i > lease.since /\ lease'.id = lease.id /\ lease'.since = lease.since
Alone(i) == i = Len(rows) + 1 /\ Len(rows') = i

LEMMA NewRow ==
  ASSUME TypeOK, Books, ServerStep, NEW i \in DOMAIN rows', i \notin DOMAIN rows
  PROVE  /\ i \in Nat /\ i > Len(rows) /\ i <= Len(rows')
         /\ EndRow(i) \/ LeaseRow(i) \/ TokenRow(i) \/ TakenRow(i) \/ DoneRow(i)
         /\ TokenRow(i) => Alone(i)
<1> DEFINE Said == /\ i \in Nat /\ i > Len(rows) /\ i <= Len(rows')
                   /\ EndRow(i) \/ LeaseRow(i) \/ TokenRow(i) \/ TakenRow(i) \/ DoneRow(i)
                   /\ TokenRow(i) => Alone(i)
<1>1. Len(rows) \in Nat /\ lease.id \in Nat /\ lease.since \in Nat
  BY LeaseFields DEF TypeOK
<1>2. ~Lapses
  BY DEF Lapses
<1>3. ASSUME NEW r, rows' = Append(rows, r)
      PROVE  /\ i = Len(rows) + 1 /\ Len(rows') = i /\ rows'[i] = r
             /\ i \in Nat /\ i > Len(rows) /\ i <= Len(rows')
  BY <1>1, <1>3, Appended
<1>4. ASSUME NEW type, NEW c, Frees(type, c), type \in Enders /\ c = Foreign
      PROVE  Said
  <2>1. /\ rows' = Append(rows, Row(type, lease.id, c)) /\ Active /\ item' = "ready"
        /\ taken' = None
    BY <1>4 DEF Frees, Enders, Active, Books
  <2>2. rows'[i].type = type /\ rows'[i].lease = lease.id /\ rows'[i].cause = c
    BY <1>3, <2>1 DEF Row
  <2> QED
    BY <1>3, <1>4, <2>1, <2>2 DEF EndRow, TokenRow, Enders
<1>5. ASSUME NEW c, Frees("received", c), Names("submit", c)
      PROVE  Said
  <2>1. rows' = Append(rows, Row("received", lease.id, c)) /\ Active /\ taken' = c
    BY <1>5 DEF Frees
  <2>2. rows'[i].type = "received" /\ rows'[i].lease = lease.id /\ rows'[i].cause = c
    BY <1>3, <2>1 DEF Row
  <2>3. lease'.id = lease.id /\ lease'.since = lease.since /\ lease.since = Len(rows)
    BY <1>5, <2>1, LeaseAfter DEF Books
  <2> QED
    BY <1>3, <1>5, <2>1, <2>2, <2>3 DEF TakenRow, TokenRow
<1>6. ASSUME NEW holder, Grant(holder), taken' = taken
      PROVE  Said
  <2>1. PICK n \in Nat :
           /\ n = IF Active THEN 2 ELSE 1
           /\ Len(rows') = Len(rows) + n
           /\ DOMAIN rows = 1..Len(rows) /\ DOMAIN rows' = 1..(Len(rows) + n)
           /\ rows'[Len(rows) + n] = Row("leased", lease.id + 1, Foreign)
           /\ Active => rows'[Len(rows) + 1] = Row("expired", lease.id, Foreign)
    BY <1>6, Granted
  <2>2. lease'.id = lease.id + 1 /\ taken' = None
    BY <1>6, LeaseAfter DEF Grant, Active, Books
  <2>3. i \in Nat /\ i > Len(rows) /\ i <= Len(rows')
    BY <1>1, <2>1
  <2>4. CASE i = Len(rows) + n
    <3>1. rows'[i].type = "leased" /\ rows'[i].lease = lease.id + 1 /\ rows'[i].cause = Foreign
      BY <2>1, <2>4 DEF Row
    <3> QED
      BY <2>2, <2>3, <3>1 DEF LeaseRow, TokenRow
  <2>5. CASE i # Len(rows) + n
    <3>1. Active /\ i = Len(rows) + 1
      BY <1>1, <2>1, <2>3, <2>5
    <3>2. rows'[i].type = "expired" /\ rows'[i].lease = lease.id /\ rows'[i].cause = Foreign
      BY <2>1, <3>1 DEF Row
    <3> QED
      BY <2>2, <2>3, <3>1, <3>2 DEF EndRow, TokenRow, Enders
  <2> QED
    BY <2>4, <2>5
<1>7. ASSUME NEW c, Replaces(c), Names("recover", c)
      PROVE  Said
  <2>1. /\ rows' = Append(rows, Row("recovered", lease.id, c)) /\ Active /\ lease'.id = lease.id
        /\ taken' = None
    BY <1>7, LeaseAfter DEF Replaces, Replace, Active, Books
  <2>2. rows'[i].type = "recovered" /\ rows'[i].lease = lease.id /\ rows'[i].cause = c
    BY <1>3, <2>1 DEF Row
  <2> QED
    BY <1>3, <1>7, <2>1, <2>2 DEF TokenRow, Alone
<1>8. ASSUME Completes
      PROVE  Said
  <2>1. rows' = Append(rows, Row("completed", lease.id, taken)) /\ taken # None
    BY <1>8 DEF Completes, Books
  <2>2. rows'[i].type = "completed" /\ rows'[i].lease = lease.id /\ rows'[i].cause = taken
    BY <1>3, <2>1 DEF Row
  <2>3. i > lease.since /\ lease'.id = lease.id /\ lease'.since = lease.since
    BY <1>1, <1>3, <1>8, <2>1 DEF Books, Completes
  <2> QED
    BY <1>3, <2>1, <2>2, <2>3 DEF DoneRow, TokenRow
<1> HIDE DEF Said
<1>9. Said
  BY <1>2, <1>4, <1>5, <1>6, <1>7, <1>8, ServerKinds DEF Grants
<1> QED
  BY <1>9 DEF Said

\* A step that neither ends nor replaces the lease leaves it as it was.
LEMMA LeaseKept ==
  ASSUME TypeOK, Books, ServerStep, item' # "ready", lease'.id = lease.id
  PROVE  /\ item # "ready"
         /\ lease'.since = lease.since \/ (Active /\ lease'.since = Len(rows) + 1)
<1>1. ~(\E type \in Enders : Frees(type, Foreign))
  BY DEF Frees, Enders
<1>2. ASSUME NEW holder, Grant(holder)
      PROVE  FALSE
  BY <1>2, LeaseAfter, LeaseFields
<1> QED
  BY <1>1, <1>2, ServerKinds, LeaseAfter
     DEF Lapses, Frees, Grants, Replaces, Completes, Active

LEMMA LogStep ==
  ASSUME TypeOK, Books, Log, InFlight, ServerStep
  PROVE  Log'
<1>1. /\ lease.id \in Nat /\ lease'.id \in Nat /\ lease.id <= lease'.id /\ lease.since \in Nat
      /\ Len(rows) \in Nat /\ keys' = keys /\ keys \in Nat
      /\ taken # None => taken' = taken /\ lease'.id = lease.id /\ lease'.since = lease.since
      /\ \A i \in DOMAIN rows : i \in DOMAIN rows' /\ rows'[i] = rows[i]
  BY LeaseFields, ServerGrows DEF Grows, bounds
<1>2. ASSUME NEW op, NEW c, Names(op, c)
      PROVE  c <= keys' /\ c # None /\ (c # Foreign => c \in Keys /\ answers[c] = None /\ answers'[c] # None)
  BY <1>1, <1>2, NoneAssumption DEF Names, InFlight, Sent, Foreign, Keys
<1>3. ASSUME NEW i \in DOMAIN rows
      PROVE  Written(i)'
  <2>1. Written(i) /\ rows'[i] = rows[i]
    BY <1>1 DEF Log
  <2>2. /\ rows[i].lease \in Nat /\ i \in Nat /\ i <= Len(rows)
        /\ rows[i].cause # Foreign => rows[i].cause \in Keys
    BY RowFields
  <2>3. rows'[i].lease <= lease'.id /\ rows'[i].cause <= keys'
    BY <1>1, <2>1, <2>2 DEF Written
  <2>4. rows'[i].type \in Enders \union {"leased"} => rows'[i].cause = Foreign
    BY <2>1 DEF Written
  <2>5. /\ rows'[i].type \in {"received", "completed"} =>
             rows'[i].cause = taken' /\ taken' # None /\ i > lease'.since
        /\ rows'[i].type = "received" => i = lease'.since + 1
    BY <1>1, <2>1 DEF Written
  <2>6. ASSUME item' # "ready", i <= lease'.since, rows'[i].lease = lease'.id
        PROVE  rows'[i].type \in {"leased", "recovered"}
    <3>1. rows[i].lease = lease.id /\ lease'.id = lease.id
      BY <1>1, <2>1, <2>2, <2>6 DEF Written
    <3>2. item # "ready" /\ (lease'.since = lease.since \/ Active)
      BY <2>6, <3>1, LeaseKept
    <3>3. i <= lease.since
      BY <2>2, <2>6, <3>2 DEF Books
    <3> QED
      BY <2>1, <3>1, <3>2, <3>3 DEF Written
  <2>7. rows'[i].type = "recovered" /\ rows'[i].cause # Foreign => answers'[rows'[i].cause] # None
    BY <2>1, <2>2, AnswersAfter DEF Written
  <2>8. ASSUME taken' # None, i > lease'.since
        PROVE  rows'[i].type \in {"received", "completed"}
    <3>1. CASE taken # None
      BY <1>1, <2>1, <2>8, <3>1 DEF Written
    <3>2. CASE taken = None
      <4>1. PICK c : Frees("received", c)
        BY <2>8, <3>2, ServerKinds DEF Lapses, Frees, Enders, Grants, Replaces, Completes
      <4>2. lease'.since = Len(rows)
        BY <4>1, LeaseAfter DEF Frees, Books
      <4> QED
        BY <1>1, <2>2, <2>8, <4>2
    <3> QED
      BY <3>1, <3>2
  <2> QED
    BY <2>3, <2>4, <2>5, <2>6, <2>7, <2>8 DEF Written
<1>4. ASSUME NEW i \in DOMAIN rows', i \notin DOMAIN rows
      PROVE  Written(i)'
  <2>1. /\ i \in Nat /\ i > Len(rows)
        /\ EndRow(i) \/ LeaseRow(i) \/ TokenRow(i) \/ TakenRow(i) \/ DoneRow(i)
    BY <1>4, NewRow
  <2>2. CASE EndRow(i)
    BY <1>1, <2>2 DEF EndRow, Written, Enders, Foreign
  <2>3. CASE LeaseRow(i)
    BY <1>1, <2>3 DEF LeaseRow, Written, Enders, Foreign
  <2>4. CASE TokenRow(i)
    BY <1>1, <1>2, <2>4 DEF TokenRow, Written, Enders
  <2>5. CASE TakenRow(i)
    BY <1>1, <1>2, <2>5 DEF TakenRow, Written, Enders
  <2>6. CASE DoneRow(i)
    <3>1. taken \in Keys \/ taken = Foreign
      BY <2>6 DEF DoneRow, TypeOK
    <3>2. taken <= keys
      BY <1>1, <3>1 DEF Books, Foreign
    <3> QED
      BY <1>1, <2>1, <2>6, <3>2 DEF DoneRow, Written, Enders
  <2> QED
    BY <2>1, <2>2, <2>3, <2>4, <2>5, <2>6
<1>5. ASSUME NEW i \in DOMAIN rows', NEW j \in DOMAIN rows',
             rows'[i].type = "recovered", rows'[j].type = "recovered",
             rows'[i].cause = rows'[j].cause, rows'[i].cause # Foreign
      PROVE  i = j
  <2>1. ASSUME NEW k \in DOMAIN rows', k \notin DOMAIN rows, rows'[k].type = "recovered"
        PROVE  Alone(k) /\ Names("recover", rows'[k].cause)
    BY <2>1, NewRow DEF EndRow, LeaseRow, TokenRow, TakenRow, DoneRow, Enders
  <2>2. ASSUME NEW k \in DOMAIN rows, rows'[k].type = "recovered", rows'[k].cause # Foreign
        PROVE  answers[rows'[k].cause] # None
    BY <1>1, <2>2 DEF Log, Written
  <2>3. CASE i \in DOMAIN rows /\ j \in DOMAIN rows
    BY <1>1, <1>5, <2>3 DEF Log, Once
  <2>4. CASE i \notin DOMAIN rows /\ j \notin DOMAIN rows
    BY <1>5, <2>1, <2>4 DEF Alone
  <2>5. CASE i \in DOMAIN rows /\ j \notin DOMAIN rows
    BY <1>2, <1>5, <2>1, <2>2, <2>5
  <2>6. CASE i \notin DOMAIN rows /\ j \in DOMAIN rows
    BY <1>2, <1>5, <2>1, <2>2, <2>6
  <2> QED
    BY <2>3, <2>4, <2>5, <2>6
<1> QED
  BY <1>3, <1>4, <1>5 DEF Log, Once
-----------------------------------------------------------------------------
(* What the tab believes, while the server moves.                          *)

\* A token that is good stays so, or a row added now tells that it is not; one
\* that is worth nothing never becomes good again.
LEMMA GoodAfter ==
  ASSUME TypeOK, Books, ServerStep, NEW id, NEW token, Good(id, token)
  PROVE  \/ Good(id, token)' \/ Recovered
         \/ \E i \in DOMAIN rows' : i > Len(rows) /\ rows'[i].lease = id /\ Parts(rows'[i])
<1> DEFINE Parted == \E i \in DOMAIN rows' : i > Len(rows) /\ rows'[i].lease = id /\ Parts(rows'[i])
<1>1. Active /\ lease.id = id /\ lease.holder = "tab" /\ lease.token = token /\ taken = None
  BY DEF Good, Current, Active, Books
<1>2. Len(rows) \in Nat
  BY DEF TypeOK
<1>3. ASSUME Lapses
      PROVE  Good(id, token)'
  BY <1>1, <1>3, LeaseAfter DEF Lapses, Good, Current, Active
<1>4. ASSUME NEW type \in Enders \union {"received"}, NEW c, Frees(type, c)
      PROVE  Parted
  <2>1. rows' = Append(rows, Row(type, lease.id, c))
    BY <1>4 DEF Frees
  <2>2. /\ Len(rows) + 1 \in DOMAIN rows'
        /\ rows'[Len(rows) + 1].type = type /\ rows'[Len(rows) + 1].lease = lease.id
    BY <2>1, Appended DEF Row
  <2> QED
    BY <1>1, <1>2, <2>2 DEF Parts
<1>5. ASSUME NEW holder, Grant(holder)
      PROVE  Parted
  <2>1. PICK n \in Nat :
           /\ n = IF Active THEN 2 ELSE 1
           /\ DOMAIN rows' = 1..(Len(rows) + n)
           /\ Active => rows'[Len(rows) + 1] = Row("expired", lease.id, Foreign)
    BY <1>5, Granted
  <2>2. /\ Len(rows) + 1 \in DOMAIN rows'
        /\ rows'[Len(rows) + 1].type = "expired" /\ rows'[Len(rows) + 1].lease = lease.id
    BY <1>1, <1>2, <2>1 DEF Row
  <2> QED
    BY <1>1, <1>2, <2>2 DEF Parts, Enders
<1>6. ASSUME Replaces(Foreign)
      PROVE  Parted
  <2>1. rows' = Append(rows, Row("recovered", lease.id, Foreign))
    BY <1>6 DEF Replaces, Replace
  <2>2. /\ Len(rows) + 1 \in DOMAIN rows'
        /\ rows'[Len(rows) + 1].type = "recovered" /\ rows'[Len(rows) + 1].lease = lease.id
        /\ rows'[Len(rows) + 1].cause = Foreign
    BY <2>1, Appended DEF Row
  <2> QED
    BY <1>1, <1>2, <2>2 DEF Parts
<1>7. ~Completes
  BY <1>1 DEF Completes, Active
<1> HIDE DEF Parted
<1>8. Good(id, token)' \/ Recovered \/ Parted
  BY <1>3, <1>4, <1>5, <1>6, <1>7 DEF ServerStep, Grants, Claimed, Released, Accepted, Enders
<1> QED
  BY <1>8 DEF Parted

LEMMA GoodNever ==
  ASSUME TypeOK, Books, ServerStep, NEW id \in Nat, NEW token \in Nat,
         token <= minted, ~Good(id, token)
  PROVE  ~Good(id, token)'
<1>1. minted \in Nat
  BY DEF TypeOK
<1>2. CASE Lapses
  BY <1>2, LeaseAfter DEF Lapses, Good, Current, Active
<1>3. ASSUME NEW type, NEW c, Frees(type, c)
      PROVE  ~Good(id, token)'
  BY <1>3 DEF Frees, Good, Current, Active
<1>4. ASSUME NEW holder, Grant(holder)
      PROVE  ~Good(id, token)'
  BY <1>1, <1>4, LeaseAfter DEF Good
<1>5. ASSUME NEW c, Replaces(c)
      PROVE  ~Good(id, token)'
  BY <1>1, <1>5, LeaseAfter DEF Good
<1>6. CASE Completes
  BY <1>6 DEF Completes, Good, Current, Active
<1> QED
  BY <1>2, <1>3, <1>4, <1>5, <1>6, ServerKinds DEF Grants, Enders

\* Who makes the item's submission the server's.
LEMMA TakenAfter ==
  ASSUME TypeOK, Books, ServerStep
  PROVE  \/ taken' = taken
         \/ taken = None /\ taken' = Foreign
         \/ taken = None /\ Accepted /\ taken' = call.key /\ lease'.id = lease.id
<1>1. ASSUME NEW type, NEW c, Frees(type, c)
      PROVE  taken = None /\ lease'.id = lease.id
  BY <1>1, LeaseAfter DEF Frees, Active, Books
<1> QED
  BY <1>1 DEF ServerStep, Lapses, Frees, Grants, Completes, Replaces, Enders, Claimed, Recovered,
     Released, Accepted

\* The command in flight is the same one; only its state and its answer move.
LEMMA CallAfter ==
  ASSUME TypeOK, ServerStep, call # None
  PROVE  /\ call' # None /\ call'.op = call.op /\ call'.key = call.key /\ call'.lease = call.lease
         /\ call'.token = call.token /\ call'.claim = call.claim
<1>1. ASSUME NEW a \in Answers, Answering(a)
      PROVE  /\ call' # None /\ call'.op = call.op /\ call'.key = call.key /\ call'.lease = call.lease
             /\ call'.token = call.token /\ call'.claim = call.claim
  <2>1. call' = [call EXCEPT !.state = "answered", !.answer = a] /\ call \in Calls
    BY <1>1, CallFields DEF Answering
  <2>2. call' \in Calls
    BY <1>1, <2>1 DEF Calls
  <2> QED
    BY <2>1, <2>2, NoneAssumption DEF Calls
<1> QED
  BY <1>1, CallAnswered DEF Untouched

\* A claim whose answer the tab has taken is left alone, and none becomes such.
LEMMA TakenStays ==
  ASSUME TypeOK, ServerStep
  PROVE  /\ Taken(call) => call' = call
         /\ Taken(call)' => call' = call
<1>1. ASSUME NEW a, Answering(a)
      PROVE  ~Taken(call) /\ ~Taken(call)'
  <2>1. call' = [call EXCEPT !.state = "answered", !.answer = a] /\ call \in Calls
    BY <1>1, CallFields DEF Answering
  <2>2. call'.state = "answered"
    BY <2>1 DEF Calls
  <2> QED
    BY <1>1, <2>2 DEF Taken, Answering
<1> QED
  BY <1>1, CallAnswered DEF Untouched

\* The server's steps give the tab no new lease to seek once its submission is
\* taken: only a claim carried out does.
LEMMA SoughtAfter ==
  ASSUME TypeOK, Books, Memory, InFlight, ServerStep, taken # None
  PROVE  Sought' \subseteq Sought
<1>1. tab' = tab /\ saved' = saved
  BY ServerGrows
<1>2. call' # None => call # None /\ call'.op = call.op /\ call'.lease = call.lease
  BY CallAfter DEF ServerStep, Untouched, Refuses, Repeats, Performs, Answering, Claimed,
     Recovered, Released, Accepted
<1>3. ASSUME tab.claimKey # None, answers'[tab.claimKey] # None
      PROVE  answers[tab.claimKey] # None /\ answers'[tab.claimKey] = answers[tab.claimKey]
  <2>1. tab.claimKey \in Keys
    BY <1>3, TabFields DEF KeyOrNone
  <2>2. ASSUME answers[tab.claimKey] = None
        PROVE  FALSE
    <3>1. call # None /\ tab.claimKey = call.key /\ (Claimed \/ Recovered \/ Released \/ Accepted)
      BY <1>3, <2>1, <2>2, AnswersAfter
    <3>2. ~Claimed /\ ~Released /\ ~Accepted
      BY DEF Claimed, Released, Accepted, Grant, Frees, Good, Current, Active, Books
    <3>3. ~Recovered
      BY DEF Recovered, Current, Active, Books
    <3> QED
      BY <3>1, <3>2, <3>3
  <2> QED
    BY <2>1, <2>2, AnswersAfter
<1> QED
  BY <1>1, <1>2, <1>3 DEF Sought

\* An answer that settles a submission is that of its being accepted.
LEMMA SubmittedAfter ==
  ASSUME TypeOK, Books, Memory, InFlight, ServerStep, NEW k \in Submitted, answers'[k] # None
  PROVE  taken' = k
<1>1. k \in Keys
  BY TabFields DEF Submitted, TypeOK, KeyOrNone
<1>2. CASE answers[k] # None
  <2>1. taken = k
    BY <1>2 DEF Memory
  <2> QED
    BY <1>1, <2>1, NoneAssumption, ServerGrows DEF Keys
<1>3. CASE answers[k] = None
  <2>1. /\ call # None /\ k = call.key /\ call.state = "sent"
        /\ Claimed \/ Recovered \/ Released \/ Accepted
    BY <1>1, <1>3, AnswersAfter
  <2>2. ~Claimed
    BY <2>1 DEF Claimed, Performs, Answering, InFlight, Sent, Taken, Memory
  <2>3. ~Recovered
    BY <1>3, <2>1 DEF Recovered, InFlight, Sent, Memory
  <2>4. ~Released
    BY <2>1 DEF Released, InFlight, Sent, Memory
  <2> QED
    BY <2>1, <2>2, <2>3, <2>4 DEF Accepted, Frees
<1> QED
  BY <1>2, <1>3

LEMMA MemoryStep ==
  ASSUME TypeOK, Books, Memory, InFlight, ServerStep
  PROVE  Memory'
<1>1. /\ Grows /\ UNCHANGED <<reviewed, tab, saved, bounds, past>>
      /\ taken # None => taken' = taken /\ lease'.since = lease.since
  BY ServerGrows
<1>2. /\ \A n \in Nat : (n <= lease.id => n <= lease'.id) /\ (n <= minted => n <= minted')
      /\ \A n \in Nat : n <= Len(rows) => n <= Len(rows')
  BY <1>1 DEF Grows
<1>3. /\ tab.pos <= Len(rows)' /\ tab.first <= keys
      /\ tab.held # None => /\ (saved = tab.held.lease \/ Taken(call)) /\ ~tab.told
                            /\ tab.held.lease <= lease'.id /\ tab.held.token <= minted'
      /\ saved # None => /\ tab.claimKey = None /\ saved <= lease'.id
                         /\ tab.held = None => last = None /\ tab.sub = None
  BY <1>2, TabFields DEF Memory, TypeOK, Ids
<1>4. taken' \notin tab.own
  <2>1. Foreign \notin tab.own
    BY TabFields DEF Foreign, Keys
  <2>2. ASSUME Accepted
        PROVE  call.key \notin tab.own
    <3>1. call.key = last /\ last # None
      BY <2>2, CallFields, NoneAssumption DEF Accepted, Performs, Answering, InFlight, Sent, Keys
    <3> QED
      BY <3>1 DEF Memory, Submitted
  <2> QED
    BY <2>1, <2>2, TakenAfter DEF Memory
<1>5. ASSUME NEW k \in Submitted
      PROVE  /\ k <= keys /\ k \notin tab.own /\ k # tab.claimKey /\ k # tab.releaseKey
             /\ answers'[k] # None => taken' = k
             /\ tab.sub # None /\ k = taken' /\ last = None => Sought' = {}
  <2>1. ASSUME tab.sub # None, k = taken', last = None
        PROVE  Sought' = {}
    <3>1. k \in Keys
      BY TabFields DEF Submitted, TypeOK, KeyOrNone
    <3>2. taken' # Foreign /\ ~Accepted
      BY <2>1, <3>1, CallFields, NoneAssumption
         DEF Foreign, Keys, Accepted, Performs, Answering, InFlight, Sent
    <3>3. taken = k /\ taken # None
      BY <2>1, <3>1, <3>2, TakenAfter, NoneAssumption DEF Keys
    <3> QED
      BY <2>1, <3>3, SoughtAfter DEF Memory
  <2> QED
    BY <2>1, SubmittedAfter DEF Memory
<1>6. tab.accepted # None => taken' = tab.accepted
  BY <1>1 DEF Memory
<1>7. /\ \A k \in tab.own : k <= keys
      /\ tab.claimKey \notin tab.own
      /\ tab.claimKey # None => tab.claimKey <= keys
      /\ tab.releaseKey # None => tab.releaseKey <= keys
      /\ last # None => tab.claimKey = None
      /\ tab.sub # None => /\ last # None => tab.sub.key = last
                           /\ tab.sub.received => tab.accepted = tab.sub.key \/ Remembered(tab.sub.key)'
  <2>1. tab.sub # None /\ Remembered(tab.sub.key) => Remembered(tab.sub.key)'
    BY <1>1, TabFields, NoneAssumption DEF Remembered, Keys
  <2> QED
    BY <2>1 DEF Memory
<1>8. tab' = tab /\ saved' = saved /\ keys' = keys /\ last' = last /\ Submitted' = Submitted
  BY <1>1 DEF bounds, past, Submitted
<1>9. Taken(call) => Taken(call')
  BY TakenStays
<1> QED
  BY <1>3, <1>4, <1>5, <1>6, <1>7, <1>8, <1>9 DEF Memory, Taken, Remembered

LEMMA SentStep ==
  ASSUME TypeOK, Books, Memory, InFlight, ServerStep, call # None
  PROVE  Sent(call)'
<1>1. /\ call' # None /\ call'.op = call.op /\ call'.key = call.key /\ call'.lease = call.lease
      /\ call'.token = call.token /\ call'.claim = call.claim
  BY CallAfter
<1>2. /\ Grows /\ tab' = tab /\ saved' = saved /\ keys' = keys /\ last' = last
      /\ overtaken' = overtaken
  BY ServerGrows DEF bounds, past
<1>3. Sent(call) /\ call.key \in Keys
  BY CallFields DEF InFlight
<1>4. call.op # "claim" => call.lease # None /\ call.lease <= lease'.id
  BY <1>2, <1>3, CallFields DEF Sent, Grows, Ids
<1>5. ASSUME call.op = "recover"
      PROVE  /\ IF answers'[call.key] = None THEN call.key \in tab.own
                ELSE answers'[call.key].lease = call.lease
             /\ IF call.claim = None THEN saved = call.lease /\ ~tab.told
                ELSE /\ call.claim = tab.claimKey /\ answers'[call.claim] # None
                     /\ answers'[call.claim].lease = call.lease
  <2>1. call.claim # None => /\ call.claim = tab.claimKey /\ answers'[call.claim] # None
                             /\ answers'[call.claim].lease = call.lease
    BY <1>3, <1>5, CallFields, AnswersAfter DEF Sent, KeyOrNone
  <2>2. CASE answers[call.key] # None
    BY <1>3, <1>5, <2>1, <2>2, AnswersAfter DEF Sent
  <2>3. CASE answers[call.key] = None /\ answers'[call.key] # None
    <3>1. answers'[call.key].lease = lease'.id /\ (Claimed \/ Recovered \/ Released \/ Accepted)
      BY <1>3, <2>3, AnswersAfter
    <3>2. Recovered
      BY <1>5, <3>1 DEF Claimed, Released, Accepted
    <3>3. lease'.id = lease.id /\ lease.id = call.lease
      BY <3>2, LeaseAfter DEF Recovered, Current
    <3> QED
      BY <1>3, <1>5, <2>1, <2>3, <3>1, <3>3 DEF Sent
  <2>4. CASE answers[call.key] = None /\ answers'[call.key] = None
    BY <1>3, <1>5, <2>1, <2>4 DEF Sent
  <2> QED
    BY <2>2, <2>3, <2>4
<1>6. ASSUME call.op = "submit"
      PROVE  /\ call.key = last /\ call.token # None /\ call.token <= minted'
             /\ tab.held # None => tab.held.token = call.token
             /\ tab.sub = None /\ ~overtaken =>
                  ~Good(call.lease, call.token)' \/ tab.accepted = last
  <2>1. /\ call.lease \in Nat /\ call.token \in Nat /\ call.token <= minted
        /\ call.key = last /\ tab.held # None => tab.held.token = call.token
    BY <1>3, <1>6, CallFields DEF Sent, Ids
  <2>2. ~Good(call.lease, call.token) => ~Good(call.lease, call.token)'
    BY <1>1, <2>1, GoodNever DEF Good, Current, Active
  <2> QED
    BY <1>2, <1>3, <1>6, <2>1, <2>2, NoneAssumption DEF Sent, Grows
<1>7. call'.key <= keys'
  BY <1>1, <1>2, <1>3 DEF Sent
<1>8. /\ call.op \in {"claim", "recover"} => last = None /\ (tab.held # None => Taken(call))
      /\ call.op \in {"release", "submit"} =>
           tab.claimKey = None /\ (tab.held # None => tab.held.lease = call.lease)
      /\ call.op = "claim" /\ ~Taken(call) => call.key = tab.claimKey
      /\ call.op = "release" => call.key = tab.releaseKey
  BY <1>3 DEF Sent
<1>9. /\ Taken(call) <=> Taken(call')
      /\ Taken(call') =>
           /\ call'.op = "claim" /\ call'.answer # None /\ call'.answer.ok
           /\ tab.claimKey = None /\ saved = None
           /\ IF tab.held = None THEN tab.told /\ tab.sub = None
              ELSE tab.held.lease = call'.answer.lease
  <2>1. (Taken(call) => call' = call) /\ (Taken(call') => call' = call)
    BY TakenStays DEF Taken
  <2>2. Taken(call) <=> Taken(call')
    BY <2>1 DEF Taken
  <2> QED
    BY <1>3, <2>1, <2>2 DEF Sent
<1> QED
  BY <1>1, <1>2, <1>4, <1>5, <1>6, <1>7, <1>8, <1>9 DEF Sent, Taken, Good, Current, Active

LEMMA HeardStep ==
  ASSUME TypeOK, Books, InFlight, ServerStep, call # None
  PROVE  Heard(call)'
<1>1. call' # None /\ call'.key = call.key
  BY CallAfter
<1>2. Heard(call) /\ call.key \in Keys /\ call \in Calls
  BY CallFields DEF InFlight
<1>3. minted \in Nat /\ lease.id \in Nat
  BY LeaseFields DEF TypeOK
<1>4. ASSUME NEW a, Answering(a)
      PROVE  call'.state = "answered" /\ call'.answer = a
  BY <1>2, <1>4 DEF Answering, Calls
<1>5. ASSUME Untouched
      PROVE  Heard(call)'
  <2>1. call' = call /\ answers' = answers
    BY <1>5 DEF Untouched
  <2>2. call.answer # None /\ call.answer.token # None => call.answer.token \in Nat
    BY CallFields DEF Ids
  <2>3. call.answer.token \in Nat /\ call.answer.token <= minted => call.answer.token <= minted'
    BY <1>3, ServerGrows DEF Grows
  <2> QED
    BY <1>2, <2>1, <2>2, <2>3 DEF Heard
<1>6. ASSUME Refuses
      PROVE  Heard(call)'
  <2>1. /\ call'.state = "answered" /\ call'.answer = Answer(FALSE, 0, None)
        /\ answers'[call'.key] = None
    BY <1>1, <1>4, <1>6 DEF Refuses
  <2> DEFINE A == Answer(FALSE, 0, None)
  <2>2. A \in Answers
    BY DEF Answer, Answers, Ids
  <2>3. ~A.ok /\ A.token = None
    BY DEF Answer
  <2>4. A # None
    BY <2>2, NoneAssumption
  <2> HIDE DEF A
  <2> QED
    BY <2>1, <2>3, <2>4 DEF Heard, A
<1>7. ASSUME Repeats
      PROVE  Heard(call)'
  <2>1. /\ call'.state = "answered" /\ call'.answer = answers[call.key]
        /\ answers'[call'.key] = answers[call.key] /\ answers[call.key] # None
    BY <1>1, <1>4, <1>7 DEF Repeats
  <2>2. answers[call.key].ok /\ answers[call.key].token = None
    BY <1>2, <2>1 DEF Books
  <2> QED
    BY <2>1, <2>2 DEF Heard
<1>8. ASSUME NEW id \in Nat, NEW token \in Ids, Performs(Answer(TRUE, id, token)),
             token # None => token <= minted'
      PROVE  Heard(call)'
  <2> DEFINE A == Answer(TRUE, id, token)
             K == [A EXCEPT !.token = None]
  <2>1. A \in Answers
    BY <1>8 DEF Answer, Answers, Ids
  <2>2. K \in Answers
    BY <2>1 DEF Answers, Ids
  <2>3. A.ok /\ A.token = token /\ A.lease = id /\ K.lease = id
    BY DEF Answer
  <2>4. A # None /\ K # None
    BY <2>1, <2>2, NoneAssumption
  <2>5. Performs(A) /\ answers \in [Keys -> Answers \union {None}]
    BY <1>8 DEF TypeOK
  <2>6. answers' = [answers EXCEPT ![call.key] = K] /\ Answering(A)
    BY <2>5 DEF Performs
  <2> HIDE DEF A, K
  <2>7. call'.state = "answered" /\ call'.answer = A /\ answers'[call'.key] = K
    BY <1>1, <1>2, <1>4, <2>5, <2>6
  <2> QED
    BY <1>8, <2>3, <2>4, <2>7 DEF Heard
<1>9. /\ Claimed => minted' = minted + 1
      /\ Recovered => minted' = minted + 1
  BY DEF Claimed, Grant, Recovered, Replaces, Replace
<1>10. /\ lease.id + 1 \in Nat /\ minted + 1 \in Ids /\ None \in Ids
       /\ minted' = minted + 1 => minted + 1 <= minted'
  BY <1>3 DEF Ids
<1>11. ASSUME Claimed
       PROVE  Heard(call)'
  BY <1>8, <1>9, <1>10, <1>11 DEF Claimed
<1>12. ASSUME Recovered
       PROVE  Heard(call)'
  BY <1>3, <1>8, <1>9, <1>10, <1>12 DEF Recovered
<1>13. ASSUME Released \/ Accepted
       PROVE  Heard(call)'
  BY <1>3, <1>8, <1>10, <1>13 DEF Released, Accepted
<1> QED
  BY <1>5, <1>6, <1>7, <1>11, <1>12, <1>13 DEF ServerStep

LEMMA InFlightStep ==
  ASSUME TypeOK, Books, Memory, InFlight, ServerStep
  PROVE  InFlight'
<1>1. call = None => call' = None
  BY DEF ServerStep, Untouched, Refuses, Repeats, Performs, Answering, Claimed, Recovered,
     Released, Accepted
<1> QED
  BY <1>1, SentStep, HeardStep DEF InFlight

\* What is unread stays so; the rows added are unread.
LEMMA UnreadAfter ==
  ASSUME TypeOK, TypeOK', Memory, tab' = tab, Grows
  PROVE  /\ Unread \subseteq Unread' /\ Unread \subseteq DOMAIN rows
         /\ \A i \in Unread : rows'[i] = rows[i]
         /\ \A i \in Unread' : i \in DOMAIN rows' /\ (i \in DOMAIN rows => i \in Unread)
         /\ \A i \in DOMAIN rows' : i > Len(rows) => i \in Unread'
<1>1. /\ tab.pos \in Nat /\ tab.pos <= Len(rows) /\ Len(rows) \in Nat /\ Len(rows') \in Nat
      /\ Len(rows) <= Len(rows')
  BY TabFields DEF Memory, Grows
<1>2. DOMAIN rows = 1..Len(rows)
  BY DEF TypeOK
<1>3. DOMAIN rows' = 1..Len(rows')
  BY DEF TypeOK
<1>4. Unread = (tab.pos + 1)..Len(rows) /\ Unread' = (tab.pos + 1)..Len(rows')
  BY DEF Unread
<1>5. \A i \in DOMAIN rows : rows'[i] = rows[i]
  BY DEF Grows
<1> QED
  BY <1>1, <1>2, <1>3, <1>4, <1>5

LEMMA KnownStep ==
  ASSUME TypeOK, TypeOK', Books, Log, Memory, InFlight, Known, ServerStep
  PROVE  Known'
<1>1. /\ Grows /\ tab' = tab /\ saved' = saved
  BY ServerGrows
<1>2. SUFFICES ASSUME NEW i \in Unread', rows'[i].type = "recovered",
                      rows'[i].lease \in Sought', rows'[i].cause > tab.first
               PROVE  rows'[i].cause \in tab.own
  BY <1>1 DEF Known
<1>3. i \in DOMAIN rows' /\ (i \in DOMAIN rows => i \in Unread /\ rows'[i] = rows[i])
  BY <1>1, UnreadAfter DEF Grows
<1>4. CASE i \in DOMAIN rows
  <2>1. rows[i].lease <= lease.id /\ rows[i].lease \in Nat /\ lease.id \in Nat
    BY <1>4, RowFields, LeaseFields DEF Log, Written
  <2>2. ASSUME call # None, call.op = "recover", call'.lease = call.lease
        PROVE  call.lease \in Sought
    BY <2>2 DEF Sought
  <2>3. ASSUME tab.claimKey # None, answers'[tab.claimKey] # None,
               answers'[tab.claimKey].lease = rows[i].lease
        PROVE  answers'[tab.claimKey].lease \in Sought
    <3>1. tab.claimKey \in Keys
      BY <2>3, TabFields DEF KeyOrNone
    <3>2. CASE answers[tab.claimKey] # None
      <4>1. answers'[tab.claimKey] = answers[tab.claimKey]
        BY <3>1, <3>2, AnswersAfter
      <4> QED
        BY <2>3, <3>2, <4>1 DEF Sought
    <3>3. CASE answers[tab.claimKey] = None
      <4>1. /\ call # None /\ tab.claimKey = call.key /\ answers'[tab.claimKey].lease = lease'.id
            /\ (Claimed \/ Recovered \/ Released \/ Accepted)
        BY <2>3, <3>1, <3>3, AnswersAfter
      <4>2. ~Claimed
        <5>1. Claimed => lease'.id = lease.id + 1
          BY LeaseAfter DEF Claimed
        <5> QED
          BY <2>1, <2>3, <4>1, <5>1
      <4>3. ~Recovered
        BY <3>3, <4>1 DEF Recovered, InFlight, Sent, Memory
      <4>4. ~Released /\ ~Accepted
        BY <2>3, <4>1 DEF Released, Accepted, InFlight, Sent
      <4> QED
        BY <4>1, <4>2, <4>3, <4>4
    <3> QED
      BY <3>2, <3>3
  <2>4. call' # None => call # None /\ call'.op = call.op /\ call'.lease = call.lease
    BY CallAfter DEF ServerStep, Untouched, Refuses, Repeats, Performs, Answering, Claimed,
       Recovered, Released, Accepted
  <2>5. rows[i].lease \in Sought
    <3>1. CASE \/ saved # None /\ ~tab.told /\ rows'[i].lease = saved
               \/ tab.held # None /\ rows'[i].lease = tab.held.lease
      BY <1>3, <1>4, <3>1 DEF Sought
    <3>2. CASE call' # None /\ call'.op = "recover" /\ rows'[i].lease = call'.lease
      BY <1>3, <1>4, <2>2, <2>4, <3>2
    <3>3. CASE tab.claimKey # None /\ answers'[tab.claimKey] # None
               /\ rows'[i].lease = answers'[tab.claimKey].lease
      BY <1>3, <1>4, <2>3, <3>3
    <3> QED
      BY <1>1, <1>2, <3>1, <3>2, <3>3 DEF Sought
  <2> QED
    BY <1>2, <1>3, <1>4, <2>5 DEF Known
<1>5. CASE i \notin DOMAIN rows
  <2>1. TokenRow(i)
    BY <1>2, <1>3, <1>5, NewRow DEF EndRow, LeaseRow, TakenRow, DoneRow, Enders
  <2>2. rows'[i].cause # Foreign
    BY <1>2, TabFields DEF Foreign
  <2> QED
    BY <2>1, <2>2 DEF TokenRow, Names, InFlight, Sent
<1> QED
  BY <1>4, <1>5

LEMMA ForetoldStep ==
  ASSUME TypeOK, TypeOK', Books, Memory, InFlight, Foretold, ServerStep
  PROVE  Foretold'
<1>1. Grows /\ tab' = tab /\ late' = late /\ reviewed' = reviewed /\ (taken # None => taken' = taken)
  BY ServerGrows DEF past
<1>2. SUFFICES ASSUME ~late, NEW h \in Holders'
               PROVE  Good(h.lease, h.token)' \/ Warned(h.lease)' \/ Unheard'
  BY <1>1 DEF Foretold
<1>3. ASSUME h \in Holders
      PROVE  Good(h.lease, h.token)' \/ Warned(h.lease)' \/ Unheard'
  <2>1. CASE Good(h.lease, h.token)
    <3>1. ~Recovered
      BY <1>3, NoneAssumption DEF Holders, Recovered, Performs, Answering, InFlight, Sent, Taken
    <3>2. ASSUME NEW i \in DOMAIN rows', i > Len(rows), rows'[i].lease = h.lease, Parts(rows'[i])
          PROVE  Warned(h.lease)'
      BY <1>1, <3>2, UnreadAfter DEF Warned, Parts
    <3> QED
      BY <2>1, <3>1, <3>2, GoodAfter
  <2>2. CASE Warned(h.lease)
    BY <1>1, <2>2, UnreadAfter DEF Warned, Parts
  <2>3. CASE Unheard
    BY <1>1, <2>3, NoneAssumption DEF Unheard, Keys
  <2> QED
    BY <1>2, <1>3, <2>1, <2>2, <2>3 DEF Foretold
<1>4. ASSUME h \notin Holders
      PROVE  Good(h.lease, h.token)' \/ Warned(h.lease)'
  <2>1. /\ call' # None /\ call'.state = "answered" /\ call'.answer.token # None
        /\ h = [lease |-> call'.answer.lease, token |-> call'.answer.token]
    BY <1>1, <1>4 DEF Holders
  <2>2. ~Untouched
    BY <1>1, <1>4 DEF Untouched, Holders
  <2>3. ASSUME NEW a, Answering(a)
        PROVE  call'.answer = a
    BY <2>3, CallFields DEF Answering, Calls
  <2>4. ~Refuses
    BY <2>1, <2>3 DEF Refuses, Answer
  <2>5. ~Repeats
    BY <2>1, <2>3, CallFields DEF Repeats, Answering, Books
  <2>6. ~Released /\ ~Accepted
    BY <2>1, <2>3 DEF Released, Accepted, Performs, Answer
  <2>7. CASE Claimed
    <3>1. h.lease = lease.id + 1 /\ h.token = minted + 1
      BY <2>1, <2>3, <2>7 DEF Claimed, Performs, Answer
    <3>2. /\ lease'.id = lease.id + 1 /\ lease'.holder = "tab" /\ lease'.token = minted + 1
          /\ item' = "leased"
      BY <2>7, LeaseAfter DEF Claimed, Grant
    <3> QED
      BY <3>1, <3>2 DEF Good, Current, Active
  <2>8. CASE Recovered
    <3>1. h.lease = lease.id /\ h.token = minted + 1
      BY <2>1, <2>3, <2>8 DEF Recovered, Performs, Answer
    <3>2. /\ lease'.id = lease.id /\ lease'.holder = lease.holder /\ lease'.token = minted + 1
          /\ item' = item /\ item = "leased" /\ lease.holder = "tab"
      BY <2>8, LeaseAfter DEF Recovered, Replaces, Current, Active
    <3> QED
      BY <3>1, <3>2 DEF Good, Current, Active
  <2> QED
    BY <2>2, <2>4, <2>5, <2>6, <2>7, <2>8 DEF ServerStep
<1> QED
  BY <1>3, <1>4

\* The tab whose submission was taken is granted nothing more.
LEMMA SettledStep ==
  ASSUME TypeOK, TypeOK', Books, Memory, Settled, ServerStep
  PROVE  Settled'
<1>1. tab' = tab
  BY ServerGrows
<1>2. SUFFICES ASSUME tab.accepted # None, NEW h \in Holders'
               PROVE  FALSE
  BY <1>1 DEF Settled
<1>3. taken # None /\ h \notin Holders
  BY <1>2 DEF Memory, Settled
<1>4. /\ call' # None /\ call'.state = "answered" /\ call'.answer.token # None
  BY <1>1, <1>2, <1>3 DEF Holders
<1>5. ~Untouched
  BY <1>1, <1>2, <1>3 DEF Untouched, Holders
<1>6. ASSUME NEW a, Answering(a)
      PROVE  call'.answer = a
  BY <1>6, CallFields DEF Answering, Calls
<1>7. ~Refuses /\ ~Released /\ ~Accepted
  BY <1>4, <1>6 DEF Refuses, Released, Accepted, Performs, Answer
<1>8. ~Repeats
  BY <1>4, <1>6, CallFields DEF Repeats, Answering, Books
<1>9. ~Claimed /\ ~Recovered
  BY <1>3 DEF Claimed, Grant, Recovered, Current, Active, Books
<1> QED
  BY <1>5, <1>7, <1>8, <1>9 DEF ServerStep

LEMMA ToldStep ==
  ASSUME TypeOK, TypeOK', Books, Memory, InFlight, Told, ServerStep
  PROVE  Told'
<1>1. /\ Grows /\ tab' = tab /\ last' = last /\ overtaken' = overtaken /\ reviewed' = reviewed
      /\ taken # None => lease'.id = lease.id
  BY ServerGrows DEF past
<1>2. SUFFICES ASSUME last # None, taken' = last
               PROVE  /\ tab.held # None => tab.held.lease = lease'.id
                      /\ ~overtaken /\ tab.accepted # last =>
                           /\ tab.sub # None
                           /\ \/ reviewed /\ tab.sub.received
                              \/ \E i \in Unread' : rows'[i].type = "received" /\ rows'[i].cause = last
  BY <1>1 DEF Told
<1>3. last \in Keys
  BY <1>2 DEF TypeOK, KeyOrNone
<1>4. CASE taken = last
  BY <1>1, <1>2, <1>4, UnreadAfter DEF Told
<1>5. CASE taken # last
  <2>1. Accepted /\ call.key = last /\ lease'.id = lease.id
    BY <1>2, <1>3, <1>5, TakenAfter DEF Foreign, Keys
  <2>2. /\ Sent(call) /\ call.op = "submit" /\ Good(call.lease, call.token) /\ lease.id = call.lease
        /\ rows' = Append(rows, Row("received", lease.id, call.key))
    BY <2>1 DEF Accepted, Performs, Answering, InFlight, Good, Current, Frees
  <2>3. /\ Len(rows) + 1 \in DOMAIN rows' /\ Len(rows) \in Nat
        /\ rows'[Len(rows) + 1].type = "received" /\ rows'[Len(rows) + 1].cause = last
    BY <2>1, <2>2, Appended DEF Row
  <2>4. Len(rows) + 1 \in Unread'
    BY <1>1, <2>3, UnreadAfter
  <2> QED
    BY <2>1, <2>2, <2>3, <2>4 DEF Sent
<1> QED
  BY <1>4, <1>5
-----------------------------------------------------------------------------
(* The tab's side of a step leaves the server alone.                       *)

\* A key not yet used has no answer and is nobody's.
LEMMA FreshKey ==
  ASSUME TypeOK, Books, Memory
  PROVE  /\ keys + 1 \in Nat /\ ~(keys + 1 <= keys)
         /\ keys < MaxKeys => keys + 1 \in Keys /\ keys + 1 # None /\ answers[keys + 1] = None
                              /\ keys + 1 \in 0..MaxKeys
         /\ keys + 1 # taken /\ keys + 1 \notin tab.own /\ keys + 1 \notin Submitted
         /\ keys + 1 # tab.claimKey /\ keys + 1 # tab.releaseKey
<1>1. keys \in Nat /\ keys <= MaxKeys /\ MaxKeys \in Nat
  BY LeaseFields
<1>2. keys + 1 \in Nat /\ ~(keys + 1 <= keys) /\ keys + 1 # 0 /\ keys + 1 # None
  BY <1>1, NoneAssumption
<1>3. keys < MaxKeys => keys + 1 \in Keys /\ keys + 1 # None /\ keys + 1 \in 0..MaxKeys
  BY <1>1, <1>2 DEF Keys
<1>4. keys < MaxKeys => answers[keys + 1] = None
  BY <1>2, <1>3 DEF Books
<1>5. keys + 1 # taken
  BY <1>2 DEF TypeOK, Foreign, Books
<1>6. keys + 1 \notin tab.own /\ keys + 1 \notin Submitted
      /\ keys + 1 # tab.claimKey /\ keys + 1 # tab.releaseKey
  BY <1>2 DEF Memory
<1> QED
  BY <1>2, <1>3, <1>4, <1>5, <1>6

LEMMA BooksKept ==
  ASSUME TypeOK, Books, Log, UNCHANGED server, keys' \in {keys, keys + 1}
  PROVE  Books' /\ Log'
<1>1. keys \in Nat /\ \A n \in Nat : n <= keys => n <= keys'
  BY LeaseFields
<1>2. UNCHANGED <<reviewed, item, lease, minted, answers, rows, taken>>
  BY DEF server
<1>3. Books'
  <2>1. taken \in Keys => taken <= keys' /\ answers[taken] # None
    BY <1>1 DEF Books, Keys
  <2>2. \A k \in Keys : answers[k] # None =>
          /\ answers[k].ok /\ answers[k].token = None
          /\ answers[k].lease <= lease.id /\ k <= keys'
    BY <1>1 DEF Books, Keys
  <2> QED
    BY <1>2, <2>1, <2>2 DEF Books, Active
<1>4. ASSUME NEW i \in DOMAIN rows
      PROVE  Written(i)'
  <2>1. rows[i].cause <= keys'
    BY <1>1, RowFields DEF Log, Written
  <2> QED
    BY <1>2, <2>1 DEF Log, Written
<1>5. \A i, j \in DOMAIN rows : Once(i, j)'
  BY <1>2 DEF Log, Once
<1> QED
  BY <1>2, <1>3, <1>4, <1>5 DEF Log

\* What the tab forgets or learns of its own commands leaves the rest true.
LEMMA KnownKept ==
  ASSUME Known, UNCHANGED server, tab'.pos = tab.pos, tab'.first = tab.first,
         Sought' \subseteq Sought, tab.own \subseteq tab'.own \/ Sought' = {}
  PROVE  Known'
BY DEF Known, Unread, server

LEMMA ForetoldKept ==
  ASSUME Foretold, UNCHANGED server, tab'.pos = tab.pos, late' = late, Holders' \subseteq Holders,
         tab'.accepted = tab.accepted
  PROVE  Foretold'
<1>1. UNCHANGED <<item, lease, rows>> /\ Unread' = Unread /\ (Unheard' <=> Unheard)
  BY DEF server, Unread, Unheard
<1>2. ASSUME NEW h
      PROVE  /\ Good(h.lease, h.token)' <=> Good(h.lease, h.token)
             /\ Warned(h.lease)' <=> Warned(h.lease)
  BY <1>1 DEF Good, Current, Active, Warned, Parts
<1> QED
  BY <1>1, <1>2 DEF Foretold

LEMMA ToldKept ==
  ASSUME Told, UNCHANGED server, tab'.pos = tab.pos, tab'.held \in {tab.held, None},
         tab'.accepted = tab.accepted, tab'.sub = tab.sub, UNCHANGED <<last, overtaken>>
  PROVE  Told'
BY DEF Told, Unread, server

\* A step of the tab that gives it no claim and no submission it did not have.
Narrows ==
  /\ UNCHANGED server /\ keys' \in {keys, keys + 1}
  /\ tab'.pos = tab.pos /\ tab'.first = tab.first /\ tab'.accepted = tab.accepted
  /\ \/ /\ tab'.held = tab.held /\ tab'.told = tab.told /\ saved' = saved
        /\ Taken(call) => call' = call
     \/ tab'.held = None /\ saved' = None
  /\ tab'.sub \in {tab.sub, None} /\ last' \in {last, None}
  /\ \A k \in tab'.own : k \in tab.own \/ (k = keys' /\ k = keys + 1)
  /\ \/ tab'.claimKey \in {tab.claimKey, None}
     \/ tab'.claimKey = keys' /\ keys' = keys + 1 /\ saved' = None /\ last' = None /\ tab'.own = tab.own
  /\ tab'.releaseKey \in {tab.releaseKey, None} \/ (tab'.releaseKey = keys' /\ keys' = keys + 1)
  /\ Sought' \subseteq Sought
  /\ last' = last \/ Sought' = {} \/ tab'.sub = None

LEMMA MemoryKept ==
  ASSUME TypeOK, Books, Memory, Narrows
  PROVE  Memory'
<1>1. /\ \A n \in Nat : n <= keys => n <= keys'
      /\ keys + 1 \in Nat /\ keys' \in Nat /\ keys' <= keys' /\ keys + 1 # None
      /\ UNCHANGED <<reviewed, item, lease, minted, answers, rows, taken>>
  BY LeaseFields, NoneAssumption DEF Narrows, server
<1>2. /\ tab'.pos <= Len(rows) /\ tab'.first <= keys'
      /\ tab'.held # None => /\ (saved' = tab'.held.lease \/ Taken(call')) /\ ~tab'.told
                             /\ tab'.held.lease <= lease.id /\ tab'.held.token <= minted
  BY <1>1, TabFields DEF Narrows, Memory
<1>3. saved' # None => /\ tab'.claimKey = None /\ saved' <= lease.id
                       /\ tab'.held = None => last' = None /\ tab'.sub = None
  BY DEF Narrows, Memory
<1>4. \A k \in tab'.own : k <= keys'
  BY <1>1, TabFields DEF Narrows, Memory, Keys
<1>5. taken \notin tab'.own /\ tab'.claimKey \notin tab'.own
  <2>1. None \notin tab'.own
    BY <1>1, TabFields, NoneAssumption DEF Narrows, Keys
  <2>2. taken \notin tab'.own
    BY FreshKey DEF Narrows, Memory
  <2>3. tab.claimKey \notin tab'.own
    BY FreshKey DEF Narrows, Memory
  <2>4. ASSUME tab'.claimKey = keys + 1, tab'.own = tab.own
        PROVE  tab'.claimKey \notin tab'.own
    BY <2>4, FreshKey
  <2> QED
    BY <2>1, <2>2, <2>3, <2>4 DEF Narrows
<1>6. /\ tab'.claimKey # None => tab'.claimKey <= keys'
      /\ tab'.releaseKey # None => tab'.releaseKey <= keys'
  BY <1>1, TabFields DEF Narrows, Memory, KeyOrNone, Keys
<1>7. last' # None => tab'.claimKey = None
  BY DEF Narrows, Memory
<1>8. ASSUME NEW k \in Submitted'
      PROVE  /\ k <= keys' /\ k \notin tab'.own /\ k # tab'.claimKey /\ k # tab'.releaseKey
             /\ answers[k] # None => taken = k
             /\ tab'.sub # None /\ k = taken /\ last' = None => Sought' = {}
  <2>1. k \in Submitted
    BY <1>8 DEF Submitted, Narrows
  <2>2. k \in Nat /\ k # None
    BY <2>1, TabFields, NoneAssumption DEF Submitted, TypeOK, KeyOrNone, Keys
  <2>3. k # keys + 1
    BY <2>1, FreshKey
  <2>4. k <= keys /\ k \notin tab.own /\ k # tab.claimKey /\ k # tab.releaseKey
    BY <2>1 DEF Memory
  <2>5. k <= keys'
    BY <1>1, <2>2, <2>4
  <2>6. k \notin tab'.own /\ k # tab'.claimKey /\ k # tab'.releaseKey
    BY <2>2, <2>3, <2>4 DEF Narrows
  <2>7. answers[k] # None => taken = k
    BY <2>1 DEF Memory
  <2>8. tab'.sub # None /\ k = taken /\ last' = None => Sought' = {}
    BY <2>1 DEF Memory, Narrows
  <2> QED
    BY <2>5, <2>6, <2>7, <2>8
<1>9. tab'.sub # None => /\ last' # None => tab'.sub.key = last'
                         /\ tab'.sub.received => tab'.accepted = tab'.sub.key \/ Remembered(tab.sub.key)'
  BY <1>1 DEF Narrows, Memory, Remembered
<1>10. tab'.accepted # None => taken = tab'.accepted
  BY DEF Narrows, Memory
<1> QED
  BY <1>1, <1>2, <1>3, <1>4, <1>5, <1>6, <1>7, <1>8, <1>9, <1>10 DEF Memory, Taken, Remembered

\* What such a step keeps, but for the command in flight and what is foretold.
LEMMA Narrowed ==
  ASSUME Inv, TypeOK', InFlight', Foretold', Told', Narrows, Holders' \subseteq Holders,
         tab.own \subseteq tab'.own \/ Sought' = {}
  PROVE  Inv'
<1>1. Settled'
  BY DEF Inv, Settled, Narrows
<1> QED
  BY <1>1, BooksKept, MemoryKept, KnownKept DEF Inv, Narrows

LEMMA SendClaimStep ==
  ASSUME Inv, SendClaim
  PROVE  Inv'
<1> USE DEF Inv
<1>1. /\ UNCHANGED <<reviewed, item, lease, minted, answers, rows, taken>> /\ UNCHANGED server
      /\ UNCHANGED <<saved, losses, refreshes>>
      /\ late' = FALSE /\ overtaken' = FALSE /\ last' = None
      /\ tab.held = None /\ saved = None /\ call = None
  BY DEF SendClaim, Send, Afresh, server
<1>2. /\ tab'.held = tab.held /\ tab'.own = tab.own /\ tab'.sub = tab.sub
      /\ tab'.accepted = tab.accepted /\ tab'.told = tab.told
      /\ tab'.releaseKey = tab.releaseKey /\ tab'.pos = tab.pos /\ tab'.first = tab.first
      /\ tab'.claimKey \in Keys /\ tab'.claimKey <= keys' /\ keys' \in {keys, keys + 1}
      /\ keys' \in 0..MaxKeys /\ tab'.claimKey # None
      /\ tab'.claimKey = tab.claimKey \/ (tab'.claimKey = keys' /\ keys' = keys + 1)
      /\ tab' \in Tabs
      /\ call' = NewCall("claim", tab'.claimKey, None, None)
  <2>1. tab \in Tabs /\ keys \in 0..MaxKeys /\ keys \in Nat
    BY LeaseFields DEF TypeOK
  <2>2. CASE tab.claimKey = None
    <3>1. tab' = [tab EXCEPT !.claimKey = keys + 1] /\ keys' = keys + 1 /\ keys < MaxKeys
          /\ call' = NewCall("claim", keys + 1, None, None)
      BY <2>2 DEF SendClaim, Send
    <3>2. keys + 1 \in Keys /\ keys + 1 # None /\ keys + 1 \in 0..MaxKeys /\ keys + 1 <= keys + 1
      BY <2>1, <3>1, FreshKey
    <3> QED
      BY <2>1, <3>1, <3>2 DEF Tabs, KeyOrNone
  <2>3. CASE tab.claimKey # None
    <3>1. tab' = tab /\ keys' = keys /\ call' = NewCall("claim", tab.claimKey, None, None)
      BY <2>3 DEF SendClaim
    <3> QED
      BY <2>1, <2>3, <3>1, TabFields DEF Memory, KeyOrNone
  <2> QED
    BY <2>2, <2>3
<1>3. /\ call'.op = "claim" /\ call'.key = tab'.claimKey /\ call'.state = "sent"
      /\ call'.answer = None /\ call'.claim = None /\ call' \in Calls
  BY <1>2 DEF NewCall, Calls, Ids, KeyOrNone
<1>4. TypeOK'
  BY <1>1, <1>2, <1>3 DEF TypeOK, KeyOrNone
<1>5. Sought' \subseteq Sought
  <2>1. tab'.claimKey = keys + 1 => answers[tab'.claimKey] = None
    BY <1>2, FreshKey, LeaseFields DEF Keys
  <2>2. Sought' = IF answers[tab'.claimKey] = None THEN {} ELSE {answers[tab'.claimKey].lease}
    BY <1>1, <1>2, <1>3 DEF Sought
  <2> QED
    BY <1>2, <2>1, <2>2 DEF Sought
<1>6. last # None => Sought' = {}
  BY <1>1, <1>5 DEF Sought, Memory
<1>7. Narrows
  BY <1>1, <1>2, <1>5, <1>6 DEF Narrows, Taken
<1>8. InFlight'
  BY <1>1, <1>2, <1>3 DEF InFlight, Sent, Heard, Taken
<1>9. Holders' = {}
  BY <1>1, <1>2, <1>3 DEF Holders
<1>10. Foretold' /\ Told'
  BY <1>1, <1>9 DEF Foretold, Told
<1> QED
  BY <1>2, <1>4, <1>7, <1>8, <1>9, <1>10, Narrowed

LEMMA SendRecoverStep ==
  ASSUME Inv, SendRecover
  PROVE  Inv'
<1> USE DEF Inv
<1>1. /\ UNCHANGED <<reviewed, item, lease, minted, answers, rows, taken>> /\ UNCHANGED server
      /\ UNCHANGED <<saved, losses, refreshes>>
      /\ late' = FALSE /\ overtaken' = FALSE /\ last' = None
      /\ tab.held = None /\ saved # None /\ ~tab.told /\ call = None
      /\ tab' = [tab EXCEPT !.own = tab.own \union {keys + 1}] /\ keys' = keys + 1 /\ keys < MaxKeys
      /\ call' = NewCall("recover", keys + 1, saved, None)
  BY DEF SendRecover, Send, Afresh, server
<1>2. /\ keys + 1 \in Keys /\ keys + 1 \in 0..MaxKeys /\ answers[keys + 1] = None
      /\ saved \in Nat /\ saved <= lease.id /\ last = None /\ tab.claimKey = None
      /\ keys + 1 <= keys + 1
  BY <1>1, FreshKey, LeaseFields DEF Memory, TypeOK, Ids
<1>3. /\ tab'.held = tab.held /\ tab'.own = tab.own \union {keys + 1} /\ tab'.sub = tab.sub
      /\ tab'.accepted = tab.accepted /\ tab'.told = tab.told /\ tab'.claimKey = tab.claimKey
      /\ tab'.releaseKey = tab.releaseKey /\ tab'.pos = tab.pos /\ tab'.first = tab.first
      /\ tab' \in Tabs
  BY <1>1, <1>2 DEF TypeOK, Tabs
<1>4. /\ call'.op = "recover" /\ call'.key = keys + 1 /\ call'.state = "sent"
      /\ call'.answer = None /\ call'.claim = None /\ call'.lease = saved /\ call' \in Calls
  BY <1>1, <1>2 DEF NewCall, Calls, Ids, KeyOrNone
<1>5. TypeOK'
  BY <1>1, <1>2, <1>3, <1>4 DEF TypeOK, KeyOrNone
<1>6. Sought' \subseteq Sought
  BY <1>1, <1>2, <1>3, <1>4 DEF Sought
<1>7. Narrows
  BY <1>1, <1>2, <1>3, <1>6 DEF Narrows, Taken
<1>8. InFlight'
  BY <1>1, <1>2, <1>3, <1>4 DEF InFlight, Sent, Heard, Taken
<1>9. Holders' = {}
  BY <1>1, <1>3, <1>4 DEF Holders
<1>10. Foretold' /\ Told'
  BY <1>1, <1>9 DEF Foretold, Told
<1> QED
  BY <1>3, <1>5, <1>7, <1>8, <1>9, <1>10, Narrowed

LEMMA SendReleaseStep ==
  ASSUME Inv, SendRelease
  PROVE  Inv'
<1> USE DEF Inv
<1>1. /\ UNCHANGED <<reviewed, item, lease, minted, answers, rows, taken>> /\ UNCHANGED server
      /\ UNCHANGED <<saved, losses, refreshes, late, overtaken, last>>
      /\ tab.held # None /\ call = None
      /\ saved = tab.held.lease /\ tab.held.lease \in Nat /\ tab.held.lease <= lease.id
      /\ tab.held.lease # None
  BY TabFields, NoneAssumption DEF SendRelease, Send, server, past, Memory, Taken
<1>2. /\ tab'.held = tab.held /\ tab'.own = tab.own /\ tab'.sub = tab.sub
      /\ tab'.accepted = tab.accepted /\ tab'.told = tab.told /\ tab'.claimKey = tab.claimKey
      /\ tab'.pos = tab.pos /\ tab'.first = tab.first
      /\ tab'.releaseKey \in Keys /\ tab'.releaseKey <= keys' /\ keys' \in {keys, keys + 1}
      /\ keys' \in 0..MaxKeys
      /\ tab'.releaseKey = tab.releaseKey \/ (tab'.releaseKey = keys' /\ keys' = keys + 1)
      /\ tab' \in Tabs
      /\ call' = NewCall("release", tab'.releaseKey, tab.held.lease, None)
  <2>1. tab \in Tabs /\ keys \in 0..MaxKeys /\ keys \in Nat
    BY LeaseFields DEF TypeOK
  <2>2. CASE tab.releaseKey = None
    <3>1. tab' = [tab EXCEPT !.releaseKey = keys + 1] /\ keys' = keys + 1 /\ keys < MaxKeys
          /\ call' = NewCall("release", keys + 1, tab.held.lease, None)
      BY <2>2 DEF SendRelease, Send
    <3>2. keys + 1 \in Keys /\ keys + 1 # None /\ keys + 1 \in 0..MaxKeys /\ keys + 1 <= keys + 1
      BY <2>1, <3>1, FreshKey
    <3> QED
      BY <2>1, <3>1, <3>2 DEF Tabs, KeyOrNone
  <2>3. CASE tab.releaseKey # None
    <3>1. tab' = tab /\ keys' = keys
          /\ call' = NewCall("release", tab.releaseKey, tab.held.lease, None)
      BY <2>3 DEF SendRelease
    <3> QED
      BY <2>1, <2>3, <3>1, TabFields DEF Memory, KeyOrNone
  <2> QED
    BY <2>2, <2>3
<1>3. /\ call'.op = "release" /\ call'.key = tab'.releaseKey /\ call'.state = "sent"
      /\ call'.answer = None /\ call'.claim = None /\ call'.lease = tab.held.lease /\ call' \in Calls
  BY <1>1, <1>2 DEF NewCall, Calls, Ids, KeyOrNone
<1>4. TypeOK'
  BY <1>1, <1>2, <1>3 DEF TypeOK, KeyOrNone
<1>5. Sought' \subseteq Sought
  BY <1>1, <1>2, <1>3 DEF Sought
<1>6. Narrows
  BY <1>1, <1>2, <1>5 DEF Narrows, Taken
<1>7. InFlight'
  BY <1>1, <1>2, <1>3 DEF InFlight, Sent, Heard, Memory, Taken
<1>8. Holders' \subseteq Holders
  BY <1>1, <1>2, <1>3 DEF Holders
<1>9. Foretold' /\ Told'
  BY <1>1, <1>2, <1>8, ForetoldKept, ToldKept
<1> QED
  BY <1>2, <1>4, <1>6, <1>7, <1>8, <1>9, Narrowed

LEMMA RecoverClaimedStep ==
  ASSUME Inv, RecoverClaimed
  PROVE  Inv'
<1> USE DEF Inv
<1>1. /\ UNCHANGED <<reviewed, item, lease, minted, answers, rows, taken>> /\ UNCHANGED server
      /\ UNCHANGED <<saved, losses, refreshes, late, overtaken, last>>
      /\ tab' = [tab EXCEPT !.own = tab.own \union {keys + 1}] /\ keys' = keys + 1 /\ keys < MaxKeys
      /\ call' = [NewCall("recover", keys + 1, call.answer.lease, None) EXCEPT !.claim = call.key]
      /\ call # None /\ call.state = "answered" /\ call.op = "claim" /\ call.answer.ok
  BY DEF RecoverClaimed, server, past
<1>2. /\ keys + 1 \in Keys /\ keys + 1 \in 0..MaxKeys /\ answers[keys + 1] = None
      /\ keys + 1 <= keys + 1
  BY <1>1, FreshKey, LeaseFields
<1>3. /\ Sent(call) /\ Heard(call) /\ call.key \in Keys /\ call.key # None
      /\ tab.held = None /\ last = None /\ call.key = tab.claimKey
      /\ answers[call.key] # None /\ answers[call.key].lease = call.answer.lease
      /\ call.answer.lease \in Nat /\ call.answer.lease # None /\ call.answer.lease <= lease.id
  <2>1. Sent(call) /\ Heard(call) /\ call.key \in Keys /\ call.key # None
    BY <1>1, CallFields, NoneAssumption DEF InFlight, Keys
  <2>2. call.answer # None /\ answers[call.key] # None /\ answers[call.key].lease = call.answer.lease
    BY <1>1, <2>1 DEF Heard
  <2>3. call.answer.lease \in Nat /\ call.answer.lease # None /\ call.answer.lease <= lease.id
    BY <1>1, <2>1, <2>2, CallFields, NoneAssumption DEF Books
  <2> QED
    BY <1>1, <2>1, <2>2, <2>3 DEF Sent, Taken
<1>4. /\ tab'.held = tab.held /\ tab'.own = tab.own \union {keys + 1} /\ tab'.sub = tab.sub
      /\ tab'.accepted = tab.accepted /\ tab'.told = tab.told /\ tab'.claimKey = tab.claimKey
      /\ tab'.releaseKey = tab.releaseKey /\ tab'.pos = tab.pos /\ tab'.first = tab.first
      /\ tab' \in Tabs
  BY <1>1, <1>2 DEF TypeOK, Tabs
<1>5. /\ call'.op = "recover" /\ call'.key = keys + 1 /\ call'.state = "sent"
      /\ call'.answer = None /\ call'.claim = call.key /\ call'.lease = call.answer.lease
      /\ call' \in Calls
  BY <1>1, <1>2, <1>3 DEF NewCall, Calls, Ids, KeyOrNone
<1>6. TypeOK'
  BY <1>1, <1>2, <1>4, <1>5 DEF TypeOK, KeyOrNone
<1>7. Sought' \subseteq Sought
  BY <1>1, <1>3, <1>4, <1>5 DEF Sought
<1>8. Narrows
  BY <1>1, <1>2, <1>4, <1>7 DEF Narrows, Taken
<1>9. InFlight'
  BY <1>1, <1>2, <1>3, <1>4, <1>5 DEF InFlight, Sent, Heard, Taken
<1>10. Holders' \subseteq Holders
  BY <1>1, <1>4, <1>5 DEF Holders
<1>11. Foretold' /\ Told'
  BY <1>1, <1>4, <1>10, ForetoldKept, ToldKept
<1> QED
  BY <1>4, <1>6, <1>8, <1>9, <1>10, <1>11, Narrowed

LEMMA LoseCallStep ==
  ASSUME Inv, LoseCall
  PROVE  Inv'
<1> USE DEF Inv
<1>1. /\ UNCHANGED <<reviewed, item, lease, minted, answers, rows, taken>> /\ UNCHANGED server
      /\ UNCHANGED <<saved, refreshes, late, overtaken, last>>
      /\ losses' \in 0..MaxLosses /\ call # None /\ ~Taken(call) /\ Sent(call) /\ call \in Calls
  <2>1. losses < MaxLosses /\ losses' = losses + 1 /\ losses \in 0..MaxLosses /\ MaxLosses \in Nat
    BY BoundAssumption DEF LoseCall, TypeOK
  <2> QED
    BY <2>1, CallFields DEF LoseCall, server, past, InFlight, Taken
<1>2. CASE call.tries = 2
  <2>1. /\ call' = None /\ keys' = keys
        /\ \/ tab' = tab
           \/ call.op = "submit" /\ tab.accepted = call.key /\ tab' = [tab EXCEPT !.sub = None]
    BY <1>2 DEF LoseCall
  <2>2. /\ tab'.held = tab.held /\ tab'.own = tab.own /\ tab'.accepted = tab.accepted
        /\ tab'.told = tab.told /\ tab'.claimKey = tab.claimKey
        /\ tab'.releaseKey = tab.releaseKey /\ tab'.pos = tab.pos /\ tab'.first = tab.first
        /\ tab'.sub = tab.sub \/ (tab'.sub = None /\ call.op = "submit" /\ tab.accepted = call.key)
        /\ tab' \in Tabs
    BY <2>1 DEF TypeOK, Tabs
  <2>3. TypeOK'
    BY <1>1, <2>1, <2>2 DEF TypeOK
  <2>4. Sought' \subseteq Sought /\ Holders' \subseteq Holders
    BY <1>1, <2>1, <2>2 DEF Sought, Holders
  <2>5. Narrows
    BY <1>1, <2>1, <2>2, <2>4 DEF Narrows
  <2>6. Foretold'
    BY <1>1, <2>2, <2>4, ForetoldKept
  <2>7. Told'
    <3>1. CASE tab'.sub = tab.sub
      BY <1>1, <2>2, <3>1, ToldKept
    <3>2. CASE call.op = "submit" /\ tab.accepted = call.key
      BY <1>1, <2>2, <3>2 DEF Sent, Told
    <3> QED
      BY <2>2, <3>1, <3>2
  <2> QED
    BY <2>1, <2>2, <2>3, <2>4, <2>5, <2>6, <2>7, Narrowed DEF InFlight
<1>3. CASE call.tries # 2 /\ call.op # "recover"
  <2>1. /\ tab' = tab /\ keys' = keys
        /\ call' = [call EXCEPT !.state = "sent", !.tries = 2, !.answer = None]
    BY <1>3 DEF LoseCall
  <2>2. call' \in Calls
    BY <1>1, <2>1 DEF Calls
  <2>3. /\ call'.op = call.op /\ call'.key = call.key /\ call'.lease = call.lease
        /\ call'.token = call.token /\ call'.claim = call.claim
        /\ call'.state = "sent" /\ call'.answer = None
    BY <1>1, <2>1 DEF Calls
  <2>4. TypeOK'
    BY <1>1, <2>1, <2>2 DEF TypeOK
  <2>5. Sought' \subseteq Sought /\ Holders' \subseteq Holders
    BY <1>1, <1>3, <2>1, <2>3 DEF Sought, Holders
  <2>6. Narrows
    BY <1>1, <2>1, <2>5 DEF Narrows
  <2>7. InFlight'
    BY <1>1, <1>3, <2>1, <2>3 DEF InFlight, Sent, Heard, Taken, Good, Current, Active
  <2> QED
    BY <1>1, <2>1, <2>4, <2>5, <2>6, <2>7, Narrowed, ForetoldKept, ToldKept
<1>4. CASE call.tries # 2 /\ call.op = "recover"
  <2>1. /\ keys < MaxKeys /\ keys' = keys + 1
        /\ call' = [NewCall("recover", keys + 1, call.lease, None)
                       EXCEPT !.tries = 2, !.claim = call.claim]
        /\ tab' = [tab EXCEPT !.own = tab.own \union {keys + 1}]
    BY <1>4 DEF LoseCall
  <2>2. /\ keys + 1 \in Keys /\ keys + 1 \in 0..MaxKeys /\ answers[keys + 1] = None
        /\ keys + 1 <= keys + 1
    BY <2>1, FreshKey, LeaseFields
  <2>3. /\ tab'.held = tab.held /\ tab'.own = tab.own \union {keys + 1} /\ tab'.sub = tab.sub
        /\ tab'.accepted = tab.accepted /\ tab'.told = tab.told /\ tab'.claimKey = tab.claimKey
        /\ tab'.releaseKey = tab.releaseKey /\ tab'.pos = tab.pos /\ tab'.first = tab.first
        /\ tab' \in Tabs
    BY <2>1, <2>2 DEF TypeOK, Tabs
  <2>4. /\ call'.op = "recover" /\ call'.key = keys + 1 /\ call'.state = "sent"
        /\ call'.answer = None /\ call'.claim = call.claim /\ call'.lease = call.lease
        /\ call' \in Calls
    BY <2>1, <2>2, CallFields, <1>1 DEF NewCall, Calls, Ids
  <2>5. TypeOK'
    BY <1>1, <2>1, <2>2, <2>3, <2>4 DEF TypeOK, KeyOrNone
  <2>6. Sought' \subseteq Sought /\ Holders' \subseteq Holders
    BY <1>1, <1>4, <2>3, <2>4 DEF Sought, Holders
  <2>7. Narrows
    BY <1>1, <2>1, <2>3, <2>6 DEF Narrows
  <2>8. InFlight'
    BY <1>1, <1>4, <2>1, <2>2, <2>3, <2>4 DEF InFlight, Sent, Heard, Taken
  <2> QED
    BY <1>1, <2>3, <2>5, <2>6, <2>7, <2>8, Narrowed, ForetoldKept, ToldKept
<1> QED
  BY <1>2, <1>3, <1>4

LEMMA TakeReleaseStep ==
  ASSUME Inv, TakeRelease
  PROVE  Inv'
<1> USE DEF Inv
<1>1. /\ UNCHANGED <<reviewed, item, lease, minted, answers, rows, taken>> /\ UNCHANGED server
      /\ UNCHANGED <<keys, losses, refreshes, late, overtaken, last>>
      /\ call # None /\ call.op = "release" /\ call' = None /\ saved' = None
      /\ tab' = [tab EXCEPT !.held = None, !.own = {}, !.releaseKey = None]
  BY DEF TakeRelease, server, bounds, past
<1>2. /\ tab'.held = None /\ tab'.own = {} /\ tab'.sub = tab.sub
      /\ tab'.accepted = tab.accepted /\ tab'.told = tab.told /\ tab'.claimKey = tab.claimKey
      /\ tab'.releaseKey = None /\ tab'.pos = tab.pos /\ tab'.first = tab.first
      /\ tab' \in Tabs
  BY <1>1 DEF TypeOK, Tabs, KeyOrNone
<1>3. tab.claimKey = None
  BY <1>1 DEF InFlight, Sent
<1>4. Sought' = {} /\ Holders' = {}
  BY <1>1, <1>2, <1>3 DEF Sought, Holders
<1>5. TypeOK'
  BY <1>1, <1>2 DEF TypeOK, Ids
<1>6. Narrows
  BY <1>1, <1>2, <1>3, <1>4 DEF Narrows
<1>7. InFlight' /\ Foretold'
  BY <1>1, <1>4 DEF InFlight, Foretold
<1>8. Told'
  BY <1>1, <1>2, ToldKept
<1> QED
  BY <1>4, <1>5, <1>6, <1>7, <1>8, Narrowed

LEMMA CountdownEndsStep ==
  ASSUME Inv, CountdownEnds
  PROVE  Inv'
<1> USE DEF Inv
<1>1. /\ UNCHANGED <<reviewed, item, lease, minted, answers, rows, taken>> /\ UNCHANGED server
      /\ UNCHANGED <<call, keys, losses, refreshes, late, overtaken>>
      /\ saved # None /\ saved' = None /\ last' = None
      /\ tab' = [tab EXCEPT !.held = None, !.own = {}, !.sub = None]
      /\ call # None => call.op = "release"
  BY DEF CountdownEnds, Forgotten, server, bounds
<1>2. /\ tab'.held = None /\ tab'.own = {} /\ tab'.sub = None
      /\ tab'.accepted = tab.accepted /\ tab'.told = tab.told /\ tab'.claimKey = tab.claimKey
      /\ tab'.releaseKey = tab.releaseKey /\ tab'.pos = tab.pos /\ tab'.first = tab.first
      /\ tab' \in Tabs
  BY <1>1 DEF TypeOK, Tabs
<1>3. tab.claimKey = None
  BY <1>1 DEF Memory
<1>4. call # None => call.op = "release" /\ Sent(call) /\ Heard(call)
  BY <1>1, CallFields DEF InFlight, Sent
<1>5. Sought' = {} /\ Holders' = {}
  BY <1>1, <1>2, <1>3, <1>4 DEF Sought, Holders
<1>6. TypeOK'
  BY <1>1, <1>2 DEF TypeOK, Ids, KeyOrNone
<1>7. Narrows
  BY <1>1, <1>2, <1>3, <1>5 DEF Narrows
<1>8. InFlight'
  BY <1>1, <1>2, <1>3, <1>4 DEF InFlight, Sent, Heard, Taken
<1>9. Foretold' /\ Told'
  BY <1>1, <1>5 DEF Foretold, Told
<1> QED
  BY <1>5, <1>6, <1>7, <1>8, <1>9, Narrowed

LEMMA TakeRefusalStep ==
  ASSUME Inv, TakeRefusal
  PROVE  Inv'
<1> USE DEF Inv
<1>1. /\ UNCHANGED <<reviewed, item, lease, minted, answers, rows, taken>> /\ UNCHANGED server
      /\ UNCHANGED <<saved, keys, losses, refreshes, late, overtaken, last>>
      /\ call # None /\ call' = None
      /\ ~Taken(call) /\ Sent(call) /\ call.key \in Keys /\ answers[call.key] = None
  <2>1. call # None /\ Sent(call) /\ Heard(call) /\ call.key \in Keys
        /\ call.state = "answered" /\ ~call.answer.ok
    BY CallFields DEF TakeRefusal, InFlight
  <2>2. answers[call.key] = None
    BY <2>1 DEF Heard
  <2> QED
    BY <2>1, <2>2 DEF TakeRefusal, Taken, server, bounds, past
<1>2. \/ call.op = "claim" /\ tab' = [tab EXCEPT !.claimKey = None]
      \/ call.op = "release" /\ tab' = [tab EXCEPT !.releaseKey = None]
      \/ call.op = "recover" /\ tab' = [tab EXCEPT !.own = tab.own \ {call.key}]
      \/ call.op = "submit" /\ tab' = [tab EXCEPT !.sub = None]
  BY <1>1, CallFields DEF TakeRefusal
<1>3. /\ tab'.held = tab.held /\ tab'.accepted = tab.accepted /\ tab'.told = tab.told
      /\ tab'.pos = tab.pos /\ tab'.first = tab.first /\ tab' \in Tabs
      /\ tab'.claimKey \in {tab.claimKey, None} /\ tab'.releaseKey \in {tab.releaseKey, None}
      /\ tab'.own = tab.own \/ (call.op = "recover" /\ tab'.own = tab.own \ {call.key})
      /\ tab'.sub = tab.sub \/ (call.op = "submit" /\ tab'.sub = None)
  BY <1>2 DEF TypeOK, Tabs, KeyOrNone
<1>4. Sought' \subseteq Sought /\ Holders' \subseteq Holders
  BY <1>1, <1>3 DEF Sought, Holders
<1>5. TypeOK'
  BY <1>1, <1>3 DEF TypeOK
<1>6. Narrows
  BY <1>1, <1>3, <1>4 DEF Narrows
<1>7. Books' /\ Log' /\ Memory' /\ InFlight' /\ Foretold' /\ Settled'
  BY <1>1, <1>3, <1>4, <1>6, BooksKept, MemoryKept, ForetoldKept DEF InFlight, Settled
<1>8. Known'
  <2>1. SUFFICES ASSUME NEW i \in Unread, rows[i].type = "recovered", rows[i].lease \in Sought,
                        rows[i].cause > tab.first
                 PROVE  rows[i].cause \in tab'.own
    BY <1>1, <1>3, <1>4 DEF Known, Unread
  <2>2. rows[i].cause \in tab.own
    BY <2>1 DEF Known
  <2>3. i \in DOMAIN rows
    <3>1. DOMAIN rows = 1..Len(rows) /\ tab.pos \in Nat /\ Len(rows) \in Nat
      BY TabFields DEF TypeOK
    <3> QED
      BY <3>1 DEF Unread
  <2>4. answers[rows[i].cause] # None
    BY <2>1, <2>2, <2>3, TabFields DEF Log, Written, Foreign, Keys
  <2> QED
    BY <1>1, <1>3, <2>2, <2>4
<1>9. Told'
  <2>1. CASE tab'.sub = tab.sub
    BY <1>1, <1>3, <2>1, ToldKept
  <2>2. CASE call.op = "submit"
    <3>1. call.key = last /\ taken # last
      BY <1>1, <2>2, NoneAssumption DEF Sent, Books, Keys
    <3> QED
      BY <1>1, <3>1 DEF Told
  <2> QED
    BY <1>3, <2>1, <2>2
<1> QED
  BY <1>5, <1>7, <1>8, <1>9

\* An answer that brings a token makes the tab the holder of what it sought,
\* with every history flag as the claim's beginning left it.  The lease is saved
\* at once, or the answer is kept until it is.
Holding(id, token) ==
  /\ UNCHANGED server /\ keys' = keys /\ UNCHANGED <<late, overtaken, last>>
  /\ \/ call' = None /\ saved' = id
     \/ Taken(call') /\ Sent(call)' /\ Heard(call)' /\ saved' = None
  /\ tab'.held = [lease |-> id, token |-> token] /\ ~tab'.told
  /\ tab'.own = tab.own /\ tab'.sub = tab.sub /\ tab'.accepted = tab.accepted
  /\ tab'.claimKey = None /\ tab'.releaseKey = None /\ tab'.pos = tab.pos /\ tab'.first = tab.first
  /\ id \in Nat /\ token \in Nat /\ id <= lease.id /\ token <= minted /\ last = None
  /\ id \in Sought /\ [lease |-> id, token |-> token] \in Holders

LEMMA Held ==
  ASSUME Inv, TypeOK', NEW id, NEW token, Holding(id, token)
  PROVE  Inv'
<1> USE DEF Inv
<1>1. UNCHANGED <<reviewed, item, lease, minted, answers, rows, taken>> /\ id # None /\ tab'.held # None
      /\ tab'.held.lease = id /\ tab'.held.token = token
  BY NoneAssumption DEF Holding, server
<1>2. Sought' = {id} /\ Holders' = {[lease |-> id, token |-> token]} /\ Submitted' = Submitted
  BY <1>1, NoneAssumption DEF Holding, Sought, Holders, Submitted, Taken, Sent
<1>3. Books' /\ Log'
  BY BooksKept DEF Holding
<1>4. None \notin tab.own
  BY TabFields, NoneAssumption DEF Keys
<1>5. ASSUME NEW k \in Submitted
      PROVE  k # None /\ ~(tab.sub # None /\ k = taken)
  <2>1. k # None
    BY <1>5, TabFields, NoneAssumption DEF Submitted, Keys
  <2>2. Sought # {} /\ last = None
    BY DEF Holding
  <2> QED
    BY <1>5, <2>1, <2>2 DEF Memory
<1>6. Memory'
  <2>1. \A k \in Submitted' :
          /\ k <= keys' /\ k \notin tab'.own /\ k # tab'.claimKey /\ k # tab'.releaseKey
          /\ answers'[k] # None => taken' = k
          /\ tab'.sub # None /\ k = taken' /\ last' = None => Sought' = {}
    BY <1>1, <1>2, <1>5 DEF Memory, Holding
  <2> QED
    BY <1>1, <1>4, <2>1 DEF Memory, Holding, Taken, Remembered
<1>7. InFlight'
  BY DEF InFlight, Holding
<1>8. Known'
  BY <1>2, KnownKept DEF Holding
<1>9. Foretold'
  BY <1>2, ForetoldKept DEF Holding
<1>10. Told' /\ Settled'
  BY DEF Told, Settled, Holding
<1> QED
  BY <1>3, <1>6, <1>7, <1>8, <1>9, <1>10

LEMMA TakeClaimStep ==
  ASSUME Inv, TakeClaim
  PROVE  Inv'
<1> USE DEF Inv
<1> DEFINE id == call.answer.lease
           token == call.answer.token
<1>1. /\ UNCHANGED server /\ UNCHANGED <<keys, losses, refreshes, late, overtaken, last>>
      /\ UNCHANGED <<reviewed, item, lease, minted, answers, rows, taken>>
      /\ call # None /\ call.state = "answered" /\ call.op = "claim" /\ call.answer.token # None
      /\ call' = [call EXCEPT !.state = "taken"] /\ saved' = saved
      /\ tab' = Hold([tab EXCEPT !.claimKey = None], id, token)
  BY DEF TakeClaim, server, bounds, past
<1>2. Sent(call) /\ Heard(call) /\ call.key \in Keys /\ call.key # None /\ call \in Calls
  BY <1>1, CallFields, NoneAssumption DEF InFlight, Keys
<1>3. /\ call.answer # None /\ call.answer.ok /\ token <= minted
      /\ answers[call.key] # None /\ answers[call.key].lease = id
      /\ call.key = tab.claimKey /\ last = None /\ saved = None
  BY <1>1, <1>2 DEF Heard, Sent, Taken, Memory
<1>4. id \in Nat /\ token \in Nat /\ id <= lease.id
  BY <1>1, <1>2, <1>3, CallFields DEF Books, Ids
<1>5. id \in Sought /\ [lease |-> id, token |-> token] \in Holders
  BY <1>1, <1>2, <1>3, NoneAssumption DEF Sought, Holders, Keys
<1> HIDE DEF id, token
<1>6. /\ tab'.held = [lease |-> id, token |-> token] /\ tab'.told = FALSE
      /\ tab'.own = tab.own /\ tab'.sub = tab.sub /\ tab'.accepted = tab.accepted
      /\ tab'.claimKey = None /\ tab'.releaseKey = None
      /\ tab'.pos = tab.pos /\ tab'.first = tab.first /\ tab' \in Tabs
  BY <1>1, <1>4 DEF Hold, TypeOK, Tabs, KeyOrNone
<1>7. /\ call' \in Calls /\ call' # None /\ call'.op = call.op /\ call'.key = call.key
      /\ call'.lease = call.lease /\ call'.token = call.token /\ call'.claim = call.claim
      /\ call'.state = "taken" /\ call'.answer = call.answer
  BY <1>1, <1>2, NoneAssumption DEF Calls
<1>8. TypeOK'
  BY <1>1, <1>4, <1>6, <1>7 DEF TypeOK, Ids
<1>9. Taken(call') /\ Sent(call)' /\ Heard(call)'
  BY <1>1, <1>2, <1>3, <1>4, <1>6, <1>7, NoneAssumption DEF Sent, Heard, Taken, id, token
<1>10. Holding(id, token)
  BY <1>1, <1>3, <1>4, <1>5, <1>6, <1>9 DEF Holding
<1> QED
  BY <1>8, <1>10, Held

\* A claim is saved when the tab holds it, or has been told to give it up since.
LEMMA SaveClaimStep ==
  ASSUME Inv, SaveClaim
  PROVE  Inv'
<1> USE DEF Inv
<1> DEFINE id == call.answer.lease
<1>1. /\ UNCHANGED server /\ UNCHANGED <<tab, keys, losses, refreshes, late, overtaken, last>>
      /\ UNCHANGED <<reviewed, item, lease, minted, answers, rows, taken>>
      /\ Taken(call) /\ call' = None /\ saved' = id
  BY DEF SaveClaim, Taken, server, bounds, past
<1>2. Sent(call) /\ Heard(call) /\ call.key \in Keys
  BY <1>1, CallFields DEF InFlight, Taken
<1>3. /\ call.op = "claim" /\ call.answer # None /\ call.answer.ok
      /\ tab.claimKey = None /\ saved = None /\ last = None
      /\ IF tab.held = None THEN tab.told /\ tab.sub = None ELSE tab.held.lease = id
  BY <1>1, <1>2 DEF Sent
<1>4. answers[call.key] # None /\ answers[call.key].lease = id
  BY <1>1, <1>2, <1>3 DEF Heard, Taken
<1>5. id \in Nat /\ id <= lease.id /\ id # None
  BY <1>2, <1>4, AnswerFields, NoneAssumption DEF Books
<1> HIDE DEF id
<1>6. TypeOK'
  BY <1>1, <1>5 DEF TypeOK, Ids
<1>7. Sought' \subseteq Sought /\ Holders' \subseteq Holders /\ Submitted' = Submitted
  BY <1>1, <1>3, <1>5 DEF Sought, Holders, Submitted
<1>8. Books' /\ Log' /\ Known' /\ Foretold' /\ Told'
  BY <1>1, <1>7, BooksKept, KnownKept, ForetoldKept, ToldKept
<1>9. Memory'
  BY <1>1, <1>3, <1>5, <1>7 DEF Memory, Remembered
<1>10. InFlight' /\ Settled'
  BY <1>1, <1>7 DEF InFlight, Settled
<1> QED
  BY <1>6, <1>8, <1>9, <1>10

LEMMA TakeRecoveryStep ==
  ASSUME Inv, TakeRecovery
  PROVE  Inv'
<1> USE DEF Inv
<1> DEFINE id == call.answer.lease
           token == call.answer.token
           t == [tab EXCEPT !.claimKey = IF call.claim = None THEN tab.claimKey ELSE None]
<1>1. /\ UNCHANGED server /\ UNCHANGED <<keys, losses, refreshes, late, overtaken, last>>
      /\ UNCHANGED <<reviewed, item, lease, minted, answers, rows, taken>>
      /\ call # None /\ call.state = "answered" /\ call.op = "recover" /\ call.answer.token # None
      /\ call' = None /\ saved' = id
      /\ tab' = Hold(t, id, token)
  BY DEF TakeRecovery, server, bounds, past
<1>2. Sent(call) /\ Heard(call) /\ call.key \in Keys /\ call.lease # None
  BY <1>1, CallFields DEF InFlight, Sent
<1>3. /\ call.answer # None /\ call.answer.ok /\ token <= minted
      /\ answers[call.key] # None /\ answers[call.key].lease = id
      /\ call.lease = id /\ last = None /\ id <= lease.id
      /\ call.claim = None => saved = id /\ ~tab.told
  BY <1>1, <1>2 DEF Heard, Sent
<1>4. id \in Nat /\ token \in Nat
  BY <1>1, <1>3, CallFields DEF Ids
<1>5. id \in Sought /\ [lease |-> id, token |-> token] \in Holders
  BY <1>1, <1>3 DEF Sought, Holders
<1>6. t \in Tabs /\ t.claimKey = None
      /\ t.own = tab.own /\ t.sub = tab.sub /\ t.accepted = tab.accepted
      /\ t.pos = tab.pos /\ t.first = tab.first
  <2>1. call.claim = None => tab.claimKey = None
    BY <1>3, <1>4, NoneAssumption DEF Memory
  <2> QED
    BY <2>1 DEF TypeOK, Tabs, KeyOrNone
<1> HIDE DEF id, token, t
<1>7. /\ tab'.held = [lease |-> id, token |-> token] /\ tab'.told = FALSE
      /\ tab'.own = tab.own /\ tab'.sub = tab.sub /\ tab'.accepted = tab.accepted
      /\ tab'.claimKey = None /\ tab'.releaseKey = None
      /\ tab'.pos = tab.pos /\ tab'.first = tab.first /\ tab' \in Tabs
  BY <1>1, <1>4, <1>6 DEF Hold, Tabs, KeyOrNone
<1>8. TypeOK'
  BY <1>1, <1>4, <1>7 DEF TypeOK, Ids
<1>9. Holding(id, token)
  BY <1>1, <1>3, <1>4, <1>5, <1>7 DEF Holding
<1> QED
  BY <1>8, <1>9, Held

LEMMA TakeAcceptanceStep ==
  ASSUME Inv, TakeAcceptance
  PROVE  Inv'
<1> USE DEF Inv
<1>1. /\ UNCHANGED <<reviewed, item, lease, minted, answers, rows, taken>> /\ UNCHANGED server
      /\ UNCHANGED <<keys, losses, refreshes, late, overtaken, last>>
      /\ call # None /\ call' = None /\ saved' = None
      /\ Sent(call) /\ call.op = "submit" /\ call.key \in Keys /\ answers[call.key] # None
      /\ tab' = [tab EXCEPT !.held = None, !.own = {}, !.accepted = call.key,
                            !.sub = Heeded(tab.sub)]
  <2>1. /\ call # None /\ call.state = "answered" /\ call.answer.ok /\ Sent(call) /\ Heard(call)
        /\ call.key \in Keys
    BY CallFields DEF TakeAcceptance, InFlight
  <2>2. answers[call.key] # None
    BY <2>1 DEF Heard
  <2> QED
    BY <2>1, <2>2 DEF TakeAcceptance, server, bounds, past
<1>2. last = call.key /\ last # None /\ tab.claimKey = None /\ taken = last
  <2>1. last = call.key /\ last # None
    BY <1>1, NoneAssumption DEF Sent, Keys
  <2> QED
    BY <1>1, <2>1 DEF Memory, Submitted
<1> DEFINE s == Heeded(tab.sub)
<1>3. /\ s \in Subs \union {None}
      /\ s # None => tab.sub # None /\ s.key = tab.sub.key
  BY DEF Heeded, Subs, TypeOK, Tabs
<1>4. tab' = [tab EXCEPT !.held = None, !.own = {}, !.accepted = call.key, !.sub = s]
  BY <1>1
<1> HIDE DEF s
<1>5. /\ tab'.held = None /\ tab'.own = {} /\ tab'.sub = s /\ tab'.accepted = last
      /\ tab'.told = tab.told /\ tab'.claimKey = None /\ tab'.releaseKey = tab.releaseKey
      /\ tab'.pos = tab.pos /\ tab'.first = tab.first /\ tab' \in Tabs
  BY <1>1, <1>2, <1>3, <1>4 DEF TypeOK, Tabs, KeyOrNone
<1>6. TypeOK'
  BY <1>1, <1>5 DEF TypeOK, Ids
<1>7. Sought' = {} /\ Holders' = {} /\ Submitted' \subseteq Submitted
  BY <1>1, <1>3, <1>5 DEF Sought, Holders, Submitted
<1>8. Books' /\ Log' /\ Known' /\ Foretold' /\ Settled'
  BY <1>1, <1>5, <1>7, BooksKept, KnownKept DEF Foretold, Settled
<1>9. Memory'
  <2>1. /\ tab'.pos <= Len(rows) /\ tab'.first <= keys
        /\ tab'.releaseKey # None => tab'.releaseKey <= keys
    BY <1>5 DEF Memory
  <2>2. ASSUME NEW k \in Submitted'
        PROVE  /\ k <= keys /\ k \notin tab'.own /\ k # tab'.claimKey /\ k # tab'.releaseKey
               /\ answers[k] # None => taken = k
    BY <1>2, <1>5, <1>7, <2>2 DEF Memory
  <2>3. tab'.sub # None => tab'.sub.key = last
    BY <1>2, <1>3, <1>5 DEF Memory
  <2>4. taken # None => taken \notin tab'.own /\ tab'.claimKey \notin tab'.own
    BY <1>5
  <2> QED
    BY <1>1, <1>2, <1>5, <2>1, <2>2, <2>3, <2>4 DEF Memory
<1>10. InFlight'
  BY <1>1 DEF InFlight
<1>11. Told'
  BY <1>1, <1>5 DEF Told
<1> QED
  BY <1>6, <1>8, <1>9, <1>10, <1>11

LEMMA RefreshStep ==
  ASSUME Inv, Refresh
  PROVE  Inv'
<1> USE DEF Inv
<1>1. /\ UNCHANGED <<reviewed, item, lease, minted, answers, rows, taken>> /\ UNCHANGED server
      /\ UNCHANGED <<keys, losses, late, overtaken>>
      /\ call' = None /\ last' = None /\ saved' \in {saved, None}
  BY DEF Refresh, server
<1>2. Len(rows) \in Nat /\ keys \in 0..MaxKeys /\ keys \in Nat
  BY LeaseFields DEF TypeOK
<1>3. PICK from \in {0, Len(rows)} : tab' = [Blank EXCEPT !.pos = from, !.first = keys]
  BY DEF Refresh
<1>4. /\ tab'.held = None /\ tab'.own = {} /\ tab'.sub = None /\ tab'.accepted = None
      /\ tab'.claimKey = None /\ tab'.releaseKey = None /\ tab'.first = keys
      /\ tab'.pos = from /\ from \in Nat /\ from <= Len(rows) /\ tab' \in Tabs
  <2>1. from \in Nat /\ from <= Len(rows)
    BY <1>2
  <2>2. tab' = [held |-> None, own |-> {}, sub |-> None, accepted |-> None, told |-> FALSE,
                claimKey |-> None, releaseKey |-> None, pos |-> from, first |-> keys]
    BY <1>3 DEF Blank
  <2> QED
    BY <1>2, <2>1, <2>2 DEF Tabs, KeyOrNone
<1>5. TypeOK'
  <2>1. refreshes' \in 0..MaxRefreshes
    BY BoundAssumption DEF Refresh, TypeOK
  <2> QED
    BY <1>1, <1>4, <2>1 DEF TypeOK, Ids, KeyOrNone
<1>6. Books' /\ Log'
  BY <1>1, BooksKept
<1>7. Submitted' = {} /\ Holders' = {}
  BY <1>1, <1>4 DEF Submitted, Holders
<1>8. Memory'
  <2>1. saved' # None => saved' <= lease.id
    BY <1>1 DEF Memory
  <2> QED
    BY <1>1, <1>2, <1>4, <1>7, <2>1 DEF Memory
<1>9. InFlight' /\ Foretold' /\ Settled' /\ Told'
  BY <1>1, <1>7 DEF InFlight, Foretold, Settled, Told
<1>10. Known'
  <2>1. ASSUME NEW i \in Unread'
        PROVE  ~(rows'[i].cause > tab'.first)
    <3>1. i \in DOMAIN rows
      BY <1>1, <1>2, <1>4 DEF Unread, TypeOK
    <3>2. rows[i].cause <= keys
      BY <3>1 DEF Log, Written
    <3> QED
      BY <1>1, <1>2, <1>4, <3>1, <3>2, RowFields
  <2> QED
    BY <2>1 DEF Known
<1> QED
  BY <1>5, <1>6, <1>8, <1>9, <1>10

\* A submission sent, for the first time or again.
Submits(k) ==
  /\ UNCHANGED server /\ UNCHANGED <<saved, losses, refreshes, late, overtaken>>
  /\ keys' \in {keys, keys + 1} /\ tab.held # None /\ call = None
  /\ call' = NewCall("submit", k, tab.held.lease, tab.held.token) /\ last' = k
  /\ tab'.held = tab.held /\ tab'.own = tab.own /\ tab'.accepted = tab.accepted
  /\ tab'.told = tab.told /\ tab'.claimKey = tab.claimKey /\ tab'.releaseKey = tab.releaseKey
  /\ tab'.pos = tab.pos /\ tab'.first = tab.first
  /\ tab'.sub # None /\ tab'.sub.key = k
  /\ tab'.sub.received => tab.accepted = k \/ Remembered(k)
  /\ k \in Keys /\ k <= keys' /\ k \notin tab.own /\ k # tab.releaseKey
  /\ answers[k] # None => taken = k
  /\ taken = k => last = k /\ tab'.sub = tab.sub

LEMMA Submitting ==
  ASSUME Inv, NEW k, Submits(k), tab' \in Tabs, keys' \in 0..MaxKeys
  PROVE  Inv'
<1> USE DEF Inv
<1>1. /\ UNCHANGED <<reviewed, item, lease, minted, answers, rows, taken>> /\ k # None
      /\ tab.held.lease \in Nat /\ tab.held.lease # None /\ tab.held.lease <= lease.id
      /\ tab.held.token \in Nat /\ tab.held.token # None /\ tab.held.token <= minted
      /\ saved = tab.held.lease /\ tab.claimKey = None
  BY TabFields, NoneAssumption DEF Submits, Memory, Taken, server, Keys
<1>2. /\ call' # None /\ call'.op = "submit" /\ call'.key = k /\ call'.lease = tab.held.lease
      /\ call'.token = tab.held.token /\ call'.state = "sent" /\ call'.answer = None
      /\ call' \in Calls
  <2>1. /\ call'.op = "submit" /\ call'.key = k /\ call'.lease = tab.held.lease
        /\ call'.token = tab.held.token /\ call'.state = "sent" /\ call'.answer = None
        /\ call' \in Calls
    BY <1>1 DEF Submits, NewCall, Calls, Ids, KeyOrNone
  <2> QED
    BY <2>1, NoneAssumption
<1>3. TypeOK'
  BY <1>1, <1>2 DEF Submits, TypeOK, KeyOrNone
<1>4. Books' /\ Log'
  BY BooksKept DEF Submits
<1>5. \A n \in Nat : n <= keys => n <= keys'
  BY LeaseFields DEF Submits
<1>6. Sought' \subseteq Sought /\ Holders' \subseteq Holders /\ Submitted' = {k}
  BY <1>1, <1>2 DEF Submits, Sought, Holders, Submitted
<1>7. Memory'
  <2>1. /\ \A j \in tab.own : j <= keys'
        /\ tab.first <= keys'
        /\ tab.releaseKey # None => tab.releaseKey <= keys'
    BY <1>5, TabFields DEF Memory, Keys, KeyOrNone
  <2> QED
    BY <1>1, <1>6, <2>1 DEF Memory, Submits, Remembered
<1>8. InFlight'
  BY <1>1, <1>2 DEF InFlight, Sent, Heard, Taken, Submits
<1>9. Known' /\ Foretold'
  BY <1>6, KnownKept, ForetoldKept DEF Submits
<1>10. Told' /\ Settled'
  BY <1>1, <1>6 DEF Told, Settled, Unread, Submits, Memory
<1> QED
  BY <1>3, <1>4, <1>7, <1>8, <1>9, <1>10

LEMMA SendSubmitStep ==
  ASSUME Inv, SendSubmit
  PROVE  Inv'
<1> USE DEF Inv
<1>1. /\ UNCHANGED server /\ UNCHANGED <<saved, losses, refreshes, late, overtaken>>
      /\ keys < MaxKeys /\ keys' = keys + 1 /\ tab.held # None /\ call = None
      /\ call' = NewCall("submit", keys + 1, tab.held.lease, tab.held.token) /\ last' = keys + 1
      /\ tab' = [tab EXCEPT !.sub = [key |-> keys + 1, received |-> FALSE, ended |-> FALSE]]
  BY DEF SendSubmit, Send
<1>2. /\ keys + 1 \in Keys /\ keys + 1 \in 0..MaxKeys /\ answers[keys + 1] = None
      /\ keys + 1 <= keys + 1
  BY <1>1, FreshKey, LeaseFields
<1> DEFINE s == [key |-> keys + 1, received |-> FALSE, ended |-> FALSE]
<1>3. s \in Subs /\ s.key = keys + 1 /\ ~s.received
  BY <1>2 DEF Subs
<1>4. s # None
  BY <1>3, NoneAssumption
<1> HIDE DEF s
<1>5. /\ tab'.held = tab.held /\ tab'.own = tab.own /\ tab'.accepted = tab.accepted
      /\ tab'.told = tab.told /\ tab'.claimKey = tab.claimKey /\ tab'.releaseKey = tab.releaseKey
      /\ tab'.pos = tab.pos /\ tab'.first = tab.first /\ tab'.sub = s /\ tab' \in Tabs
  <2>1. tab' = [tab EXCEPT !.sub = s]
    BY <1>1 DEF s
  <2> QED
    BY <1>3, <2>1 DEF TypeOK, Tabs
<1>6. Submits(keys + 1)
  BY <1>1, <1>2, <1>3, <1>4, <1>5, FreshKey DEF Submits
<1> QED
  BY <1>1, <1>2, <1>5, <1>6, Submitting

LEMMA ResendSubmitStep ==
  ASSUME Inv, ResendSubmit
  PROVE  Inv'
<1> USE DEF Inv
<1>1. /\ UNCHANGED server /\ UNCHANGED <<tab, saved, keys, losses, refreshes, late, overtaken>>
      /\ tab.held # None /\ tab.sub # None /\ call = None
      /\ call' = NewCall("submit", tab.sub.key, tab.held.lease, tab.held.token)
      /\ last' = tab.sub.key
  BY DEF ResendSubmit, bounds
<1>2. tab.sub.key \in Submitted /\ tab.sub.key \in Keys
  BY <1>1, TabFields DEF Submitted
<1>3. taken = tab.sub.key => last = tab.sub.key
  <2>1. Sought # {}
    BY <1>1, TabFields, NoneAssumption DEF Sought, Memory
  <2>2. last # None => last = tab.sub.key
    BY <1>1 DEF Memory
  <2> QED
    BY <1>1, <1>2, <2>1, <2>2 DEF Memory
<1>4. /\ tab.sub.key <= keys /\ tab.sub.key \notin tab.own /\ tab.sub.key # tab.releaseKey
      /\ answers[tab.sub.key] # None => taken = tab.sub.key
      /\ tab.sub.received => tab.accepted = tab.sub.key \/ Remembered(tab.sub.key)
  BY <1>1, <1>2 DEF Memory
<1>5. Submits(tab.sub.key)
  BY <1>1, <1>2, <1>3, <1>4 DEF Submits
<1> QED
  BY <1>1, <1>5, Submitting DEF TypeOK
-----------------------------------------------------------------------------
(* Reading a row.                                                          *)

\* The six things a row may do to the tab.
Ignored(row) ==
  /\ tab'.held = tab.held /\ tab'.own = tab.own /\ tab'.sub = tab.sub
  /\ tab'.accepted = tab.accepted /\ tab'.told = tab.told /\ saved' = saved
  /\ tab.held # None => row.type = "leased"
  /\ row.type = "received" => ~OwnSubmission(tab, row)
Owned(row) ==
  /\ row.type = "recovered" /\ row.cause \in tab.own
  /\ tab'.held = tab.held /\ tab'.own = tab.own \ {row.cause} /\ tab'.sub = tab.sub
  /\ tab'.accepted = tab.accepted /\ tab'.told = tab.told /\ saved' = saved
Lost(row) ==
  /\ tab.held # None
  /\ row.type # "leased" /\ (row.type = "recovered" => row.cause \notin tab.own)
  /\ row.type = "received" => ~OwnSubmission(tab, row)
  /\ row.type = "completed" => ~(OwnSubmission(tab, row) /\ tab.sub.received)
  /\ tab'.held = None /\ tab'.own = {} /\ tab'.sub = None
  /\ tab'.accepted = tab.accepted /\ tab'.told = TRUE /\ saved' = None
Shown(row) ==
  /\ ~reviewed /\ row.type = "received" /\ OwnSubmission(tab, row)
  /\ tab'.held = None /\ tab'.own = {} /\ tab'.sub # None /\ tab'.sub.key = tab.sub.key
  /\ tab'.accepted = tab.sub.key /\ tab'.told = tab.told
  /\ saved' = IF tab.held # None THEN None ELSE saved
Marked(row) ==
  /\ OwnSubmission(tab, row)
  /\ \/ reviewed /\ row.type = "received"
     \/ row.type = "completed" /\ tab.sub.received /\ tab.accepted # tab.sub.key
  /\ tab'.held = tab.held /\ tab'.own = tab.own /\ tab'.accepted = tab.accepted
  /\ tab'.told = tab.told /\ saved' = saved
  /\ tab'.sub # None /\ tab'.sub.key = tab.sub.key /\ tab'.sub.received
Closed(row) ==
  /\ row.type = "completed" /\ OwnSubmission(tab, row) /\ tab.accepted = tab.sub.key
  /\ tab'.held = tab.held /\ tab'.own = tab.own /\ tab'.sub = None
  /\ tab'.accepted = tab.accepted /\ tab'.told = tab.told /\ saved' = saved

LEMMA RowKinds ==
  ASSUME TypeOK, Memory, ReadRow
  PROVE  LET row == rows[tab.pos + 1] IN
         /\ tab.pos + 1 \in DOMAIN rows
         /\ Ignored(row) \/ Owned(row) \/ Lost(row) \/ Shown(row) \/ Marked(row) \/ Closed(row)
         /\ tab'.pos = tab.pos + 1 /\ tab'.first = tab.first /\ tab' \in Tabs
         /\ tab'.claimKey = tab.claimKey /\ tab'.releaseKey = tab.releaseKey
         /\ late' = (late \/ (tab.held = None /\ Expected(row)))
         /\ overtaken' = (overtaken \/ (tab'.told /\ ~tab.told /\ Outdated(row)))
<1> DEFINE row == rows[tab.pos + 1]
           t == [tab EXCEPT !.pos = tab.pos + 1]
<1>1. /\ tab.pos + 1 \in DOMAIN rows /\ tab.pos + 1 \in Nat
      /\ row.type \in RowTypes
  <2>1. DOMAIN rows = 1..Len(rows) /\ tab.pos \in Nat /\ Len(rows) \in Nat /\ tab.pos < Len(rows)
    BY TabFields DEF TypeOK, ReadRow
  <2>2. tab.pos + 1 \in DOMAIN rows /\ tab.pos + 1 \in Nat
    BY <2>1
  <2> QED
    BY <2>2, RowFields
<1>2. /\ tab' = AfterRow(t, row)
      /\ saved' = IF tab.held # None /\ tab'.held = None THEN None ELSE saved
      /\ late' = (late \/ (tab.held = None /\ Expected(row)))
      /\ overtaken' = (overtaken \/ (tab'.told /\ ~tab.told /\ Outdated(row)))
  BY DEF ReadRow
<1>3. /\ t \in Tabs /\ t.held = tab.held /\ t.own = tab.own /\ t.sub = tab.sub
      /\ t.accepted = tab.accepted /\ t.told = tab.told /\ t.claimKey = tab.claimKey
      /\ t.releaseKey = tab.releaseKey /\ t.pos = tab.pos + 1 /\ t.first = tab.first
  BY <1>1 DEF TypeOK, Tabs
<1> HIDE DEF row, t
<1> DEFINE Fields == /\ tab'.pos = tab.pos + 1 /\ tab'.first = tab.first /\ tab' \in Tabs
                     /\ tab'.claimKey = tab.claimKey /\ tab'.releaseKey = tab.releaseKey
<1>4. OwnSubmission(t, row) <=> OwnSubmission(tab, row)
  BY <1>3 DEF OwnSubmission
<1>5. ASSUME tab' = t
      PROVE  /\ Fields /\ saved' = saved
             /\ tab'.held = tab.held /\ tab'.own = tab.own /\ tab'.sub = tab.sub
             /\ tab'.accepted = tab.accepted /\ tab'.told = tab.told
  BY <1>2, <1>3, <1>5
<1>6. ASSUME tab' = Invalidated(t), row.type # "leased",
             row.type = "recovered" => row.cause \notin tab.own,
             row.type = "received" => ~OwnSubmission(tab, row),
             row.type = "completed" => ~(OwnSubmission(tab, row) /\ tab.sub.received)
      PROVE  Fields /\ (Ignored(row) \/ Lost(row))
  <2>1. CASE tab.held = None
    <3>1. tab' = t
      BY <1>3, <1>6, <2>1 DEF Invalidated
    <3> QED
      BY <1>5, <1>6, <2>1, <3>1 DEF Ignored
  <2>2. CASE tab.held # None
    <3>1. tab' = [[t EXCEPT !.held = None, !.own = {}, !.sub = None] EXCEPT !.told = TRUE]
      BY <1>3, <1>6, <2>2 DEF Invalidated, Forgotten
    <3>2. /\ Fields /\ tab'.held = None /\ tab'.own = {} /\ tab'.sub = None
          /\ tab'.accepted = tab.accepted /\ tab'.told = TRUE
      BY <1>3, <3>1 DEF Tabs
    <3> QED
      BY <1>2, <1>6, <2>2, <3>2 DEF Lost
  <2> QED
    BY <2>1, <2>2
<1>7. CASE row.type \in Enders
  <2>1. tab' = Invalidated(t)
    BY <1>2, <1>7 DEF AfterRow, Enders
  <2> QED
    BY <1>1, <1>2, <1>6, <1>7, <2>1 DEF Enders, row
<1>8. CASE row.type = "recovered"
  <2>1. tab' = IF row.cause \in tab.own THEN [t EXCEPT !.own = t.own \ {row.cause}]
               ELSE Invalidated(t)
    BY <1>2, <1>3, <1>8 DEF AfterRow, Enders, OwnRecovery
  <2>2. CASE row.cause \in tab.own
    <3>1. /\ Fields /\ tab'.held = tab.held /\ tab'.own = tab.own \ {row.cause}
          /\ tab'.sub = tab.sub /\ tab'.accepted = tab.accepted /\ tab'.told = tab.told
      BY <1>3, <2>1, <2>2 DEF Tabs
    <3> QED
      BY <1>1, <1>2, <1>8, <2>2, <3>1 DEF Owned, row
  <2>3. CASE row.cause \notin tab.own
    BY <1>1, <1>2, <1>6, <1>8, <2>1, <2>3 DEF row
  <2> QED
    BY <2>2, <2>3
<1>9. CASE row.type = "received"
  <2>3. CASE OwnSubmission(tab, row) /\ reviewed
    <3>1. tab' = [t EXCEPT !.sub.received = TRUE]
      BY <1>2, <1>4, <1>9, <2>3 DEF AfterRow, Received, Enders
    <3>2. /\ tab.sub # None /\ tab.sub \in Subs
      BY <2>3 DEF OwnSubmission, TypeOK, Tabs
    <3> DEFINE s == [t.sub EXCEPT !.received = TRUE]
    <3>3. s \in Subs /\ s.key = tab.sub.key /\ s.received
      BY <1>3, <3>2 DEF Subs
    <3>4. tab' = [t EXCEPT !.sub = s] /\ s # None
      BY <1>3, <3>1, <3>3, NoneAssumption
    <3> HIDE DEF s
    <3>5. /\ Fields /\ tab'.held = tab.held /\ tab'.own = tab.own
          /\ tab'.sub # None /\ tab'.sub.key = tab.sub.key /\ tab'.sub.received
          /\ tab'.accepted = tab.accepted /\ tab'.told = tab.told
      BY <1>3, <3>2, <3>3, <3>4 DEF Tabs
    <3> QED
      BY <1>1, <1>2, <1>9, <2>3, <3>5 DEF Marked, row
  <2>1. CASE OwnSubmission(tab, row) /\ ~reviewed
    <3>1. tab' = [t EXCEPT !.held = None, !.own = {}, !.accepted = t.sub.key, !.sub.received = TRUE]
      BY <1>2, <1>4, <1>9, <2>1 DEF AfterRow, Received, Enders
    <3>2. /\ tab.sub # None /\ tab.sub \in Subs /\ tab.sub.key \in Keys
      BY <2>1, TabFields DEF OwnSubmission
    <3> DEFINE s == [t.sub EXCEPT !.received = TRUE]
    <3>3. s \in Subs /\ s.key = tab.sub.key
      BY <1>3, <3>2 DEF Subs
    <3>4. tab' = [t EXCEPT !.held = None, !.own = {}, !.accepted = tab.sub.key, !.sub = s]
          /\ s # None
      BY <1>3, <3>1, <3>3, NoneAssumption
    <3> HIDE DEF s
    <3>5. /\ Fields /\ tab'.held = None /\ tab'.own = {}
          /\ tab'.sub # None /\ tab'.sub.key = tab.sub.key
          /\ tab'.accepted = tab.sub.key /\ tab'.told = tab.told
      BY <1>3, <3>2, <3>3, <3>4 DEF Tabs, KeyOrNone
    <3> QED
      BY <1>1, <1>2, <1>9, <2>1, <3>5 DEF Shown, row
  <2>2. CASE ~OwnSubmission(tab, row)
    <3>1. tab' = Invalidated(t)
      BY <1>2, <1>4, <1>9, <2>2 DEF AfterRow, Enders
    <3> QED
      BY <1>1, <1>2, <1>6, <1>9, <2>2, <3>1 DEF row
  <2> QED
    BY <2>1, <2>2, <2>3
<1>10. CASE row.type = "completed"
  <2>3. CASE OwnSubmission(tab, row) /\ tab.sub.received /\ tab.accepted # tab.sub.key
    <3>1. tab' = [t EXCEPT !.sub.ended = TRUE]
      <4>1. tab' = Finished(t)
        BY <1>2, <1>3, <1>4, <1>10, <2>3 DEF AfterRow, Enders
      <4>2. t.accepted # t.sub.key
        BY <1>3, <2>3
      <4> QED
        BY <4>1, <4>2 DEF Finished
    <3>2. /\ tab.sub # None /\ tab.sub \in Subs
      BY <2>3 DEF OwnSubmission, TypeOK, Tabs
    <3> DEFINE s == [t.sub EXCEPT !.ended = TRUE]
    <3>3. s \in Subs /\ s.key = tab.sub.key /\ s.received
      BY <1>3, <2>3, <3>2 DEF Subs
    <3>4. tab' = [t EXCEPT !.sub = s] /\ s # None
      BY <1>3, <3>1, <3>3, NoneAssumption
    <3> HIDE DEF s
    <3>5. /\ Fields /\ tab'.held = tab.held /\ tab'.own = tab.own
          /\ tab'.sub # None /\ tab'.sub.key = tab.sub.key /\ tab'.sub.received
          /\ tab'.accepted = tab.accepted /\ tab'.told = tab.told
      BY <1>3, <3>2, <3>3, <3>4 DEF Tabs
    <3> QED
      BY <1>1, <1>2, <1>10, <2>3, <3>5 DEF Marked, row
  <2>1. CASE OwnSubmission(tab, row) /\ tab.sub.received /\ tab.accepted = tab.sub.key
    <3>1. tab' = [t EXCEPT !.sub = None]
      <4>1. tab' = Finished(t)
        BY <1>2, <1>3, <1>4, <1>10, <2>1 DEF AfterRow, Enders
      <4>2. t.accepted = t.sub.key
        BY <1>3, <2>1
      <4> QED
        BY <4>1, <4>2 DEF Finished
    <3>2. /\ Fields /\ tab'.held = tab.held /\ tab'.own = tab.own /\ tab'.sub = None
          /\ tab'.accepted = tab.accepted /\ tab'.told = tab.told
      BY <1>3, <3>1 DEF Tabs
    <3> QED
      BY <1>1, <1>2, <1>10, <2>1, <3>2 DEF Closed, row
  <2>2. CASE ~(OwnSubmission(tab, row) /\ tab.sub.received)
    <3>1. tab' = Invalidated(t)
      BY <1>2, <1>3, <1>4, <1>10, <2>2 DEF AfterRow, Enders
    <3> QED
      BY <1>1, <1>2, <1>6, <1>10, <2>2, <3>1 DEF row
  <2> QED
    BY <2>1, <2>2, <2>3
<1>11. CASE row.type = "leased"
  <2>1. tab' = t
    BY <1>2, <1>11 DEF AfterRow, Enders
  <2> QED
    BY <1>1, <1>2, <1>5, <1>11, <2>1 DEF Ignored, row
<1> QED
  BY <1>1, <1>7, <1>8, <1>9, <1>10, <1>11 DEF RowTypes, Enders

\* A row makes the tab give up a lease that the server has not ended, and whose
\* present token is younger than the row, only if it is older than the page or
\* about another lease: one that the page caused is known to be its own.
LEMMA LostForCause ==
  ASSUME Inv, tab.pos + 1 \in DOMAIN rows, Lost(rows[tab.pos + 1]), item # "ready",
         tab.held.lease = lease.id, tab.pos < lease.since
  PROVE  Outdated(rows[tab.pos + 1])
<1> DEFINE i == tab.pos + 1
<1> SUFFICES ASSUME ~Outdated(rows[i])
             PROVE  FALSE
  OBVIOUS
<1>1. /\ tab.pos \in Nat /\ tab.first \in Nat /\ lease.since \in Nat /\ Len(rows) \in Nat
      /\ DOMAIN rows = 1..Len(rows) /\ tab.held # None
  BY TabFields, LeaseFields DEF Inv, TypeOK, Lost
<1>2. rows[i].cause \in Nat
  BY RowFields DEF Inv
<1>3. rows[i].cause > tab.first /\ rows[i].lease = lease.id
  BY <1>1, <1>2 DEF Outdated
<1>4. i <= lease.since /\ i \in Unread
  BY <1>1 DEF Unread
<1>5. rows[i].type = "recovered" /\ rows[i].cause \notin tab.own
  BY <1>3, <1>4 DEF Inv, Log, Written, Lost
<1>6. lease.id \in Sought
  BY <1>1 DEF Sought
<1> QED
  BY <1>3, <1>4, <1>5, <1>6 DEF Inv, Known

LEMMA LostUsable ==
  ASSUME Inv, tab.pos + 1 \in DOMAIN rows, Lost(rows[tab.pos + 1]),
         Good(tab.held.lease, tab.held.token)
  PROVE  Outdated(rows[tab.pos + 1])
<1>1. /\ item = "leased" /\ tab.held.lease = lease.id /\ lease.since = Len(rows)
  BY DEF Good, Current, Active, Inv, Books
<1>2. tab.pos < lease.since
  <2>1. DOMAIN rows = 1..Len(rows) /\ tab.pos \in Nat /\ Len(rows) \in Nat
    BY TabFields DEF Inv, TypeOK
  <2> QED
    BY <1>1, <2>1
<1> QED
  BY <1>1, <1>2, LostForCause

\* What there is to know while a row is read.
Reading(i, row) ==
  /\ UNCHANGED <<reviewed, item, lease, minted, answers, rows, taken>> /\ UNCHANGED server
  /\ UNCHANGED <<call, keys, losses, refreshes, last>>
  /\ i = tab.pos + 1 /\ i \in DOMAIN rows /\ row = rows[i]
  /\ Ignored(row) \/ Owned(row) \/ Lost(row) \/ Shown(row) \/ Marked(row) \/ Closed(row)
  /\ tab'.pos = i /\ tab'.first = tab.first /\ tab' \in Tabs
  /\ tab'.claimKey = tab.claimKey /\ tab'.releaseKey = tab.releaseKey
  /\ late' = (late \/ (tab.held = None /\ Expected(row)))
  /\ overtaken' = (overtaken \/ (tab'.told /\ ~tab.told /\ Outdated(row)))
  /\ i \in Nat /\ i <= Len(rows) /\ Written(i)
  /\ row.cause \in Nat /\ row.lease \in Nat

LEMMA ReadingRow ==
  ASSUME Inv, ReadRow
  PROVE  Reading(tab.pos + 1, rows[tab.pos + 1])
<1>1. tab.pos + 1 \in DOMAIN rows
  BY RowKinds DEF Inv
<1>2. /\ UNCHANGED <<reviewed, item, lease, minted, answers, rows, taken>> /\ UNCHANGED server
      /\ UNCHANGED <<call, keys, losses, refreshes, last>>
  BY DEF ReadRow, server, bounds
<1>3. /\ tab.pos + 1 \in Nat /\ tab.pos + 1 <= Len(rows)
      /\ rows[tab.pos + 1].cause \in Nat /\ rows[tab.pos + 1].lease \in Nat
  BY <1>1, RowFields DEF Inv
<1>4. Written(tab.pos + 1)
  BY <1>1 DEF Inv, Log
<1> QED
  BY <1>1, <1>2, <1>3, <1>4, RowKinds DEF Inv, Reading

\* The tab seeks no more than before, and nothing once a row has emptied its
\* memory of its own commands.
LEMMA ReadSought ==
  ASSUME Inv, NEW i, NEW row, Reading(i, row)
  PROVE  /\ Sought' \subseteq Sought /\ Holders' \subseteq Holders /\ Submitted' \subseteq Submitted
         /\ Lost(row) \/ Shown(row) => Sought' = {}
<1> USE DEF Inv
<1>1. /\ UNCHANGED <<answers, call>> /\ saved' \in {saved, None} /\ tab'.claimKey = tab.claimKey
      /\ tab'.held \in {tab.held, None} /\ last' = last /\ (tab.told => tab'.told)
      /\ tab'.sub # None => tab.sub # None /\ tab'.sub.key = tab.sub.key
  BY DEF Reading, Ignored, Owned, Lost, Shown, Marked, Closed, OwnSubmission
<1>2. Sought' \subseteq Sought /\ Holders' \subseteq Holders /\ Submitted' \subseteq Submitted
  BY <1>1 DEF Sought, Holders, Submitted
<1>3. ASSUME tab.held # None, tab'.held = None, saved' = None
      PROVE  Sought' = {}
  <2>1. tab.claimKey = None
    BY <1>3, TabFields, NoneAssumption DEF Memory, InFlight, Sent, Taken
  <2>2. call # None => call.op # "recover"
    BY <1>3 DEF InFlight, Sent
  <2> QED
    BY <1>1, <1>3, <2>1, <2>2 DEF Sought
<1>4. ASSUME tab.held = None, Shown(row)
      PROVE  Sought' = {}
  <2>1. /\ tab.sub # None /\ tab.sub.key = row.cause /\ row.type = "received"
        /\ taken = tab.sub.key /\ tab.sub.key \in Submitted
    BY <1>4 DEF Shown, OwnSubmission, Reading, Written, Submitted
  <2>2. saved = None
    BY <1>4, <2>1 DEF Memory
  <2>3. CASE last = None
    BY <1>2, <2>1, <2>3 DEF Memory
  <2>4. CASE last # None
    <3>1. tab.claimKey = None /\ (call # None => call.op # "recover")
      BY <2>4 DEF Memory, InFlight, Sent
    <3> QED
      BY <1>1, <1>4, <2>2, <3>1 DEF Sought
  <2> QED
    BY <2>3, <2>4
<1> QED
  BY <1>2, <1>3, <1>4 DEF Lost, Shown

LEMMA ReadMemory ==
  ASSUME Inv, NEW i, NEW row, Reading(i, row)
  PROVE  Memory'
<1> USE DEF Inv
<1>1. /\ UNCHANGED <<reviewed, item, lease, minted, answers, rows, taken, keys, last, call>>
      /\ tab'.own \subseteq tab.own /\ tab'.claimKey = tab.claimKey
      /\ tab'.releaseKey = tab.releaseKey
      /\ tab'.pos <= Len(rows) /\ tab'.first = tab.first
  BY DEF Reading, Ignored, Owned, Lost, Shown, Marked, Closed
<1>2. /\ tab'.held # None => tab'.held = tab.held /\ saved' = saved /\ tab'.told = tab.told
      /\ saved' # None => saved' = saved /\ (tab'.held = None => tab.held = None)
  BY DEF Reading, Ignored, Owned, Lost, Shown, Marked, Closed
<1>3. tab'.sub # None => tab.sub # None /\ tab'.sub.key = tab.sub.key
  BY DEF Reading, Ignored, Owned, Lost, Shown, Marked, Closed, OwnSubmission
<1>4. /\ tab'.sub # None /\ tab'.sub.received =>
           tab'.accepted = tab'.sub.key \/ Remembered(tab.sub.key)'
      /\ tab'.accepted # None => taken = tab'.accepted
  <2>1. CASE Shown(row)
    BY <2>1 DEF Shown, OwnSubmission, Reading, Written
  <2>2. Remembered(tab.sub.key) /\ tab'.sub # None => Remembered(tab.sub.key)'
    <3>1. tab.pos \in Nat /\ lease.since \in Nat
      BY TabFields, LeaseFields
    <3> QED
      BY <1>3, <3>1 DEF Remembered, Reading
  <2>3. CASE Marked(row)
    <3>1. lease.since \in Nat
      BY LeaseFields
    <3>2. CASE reviewed /\ row.type = "received"
      <4>1. taken = tab.sub.key /\ tab'.pos > lease.since
        BY <2>3, <3>1, <3>2 DEF Marked, OwnSubmission, Reading, Written
      <4> QED
        BY <1>1, <2>3, <3>2, <4>1 DEF Remembered, Marked, Memory
    <3>3. CASE tab.sub.received /\ tab.accepted # tab.sub.key
      BY <2>2, <2>3, <3>3 DEF Marked, OwnSubmission, Memory
    <3> QED
      BY <2>3, <3>2, <3>3 DEF Marked
  <2>4. CASE Ignored(row) \/ Owned(row) \/ Lost(row) \/ Closed(row)
    BY <2>2, <2>4 DEF Ignored, Owned, Lost, Closed, Memory
  <2> QED
    BY <2>1, <2>3, <2>4 DEF Reading
<1>5. ASSUME NEW k \in Submitted'
      PROVE  /\ k <= keys /\ k \notin tab'.own /\ k # tab'.claimKey /\ k # tab'.releaseKey
             /\ answers[k] # None => taken = k
             /\ tab'.sub # None /\ k = taken /\ last = None => Sought' = {}
  BY <1>1, <1>3, <1>5, ReadSought DEF Memory
<1>6. /\ tab'.held # None => /\ (saved' = tab'.held.lease \/ Taken(call)) /\ ~tab'.told
                             /\ tab'.held.lease <= lease.id /\ tab'.held.token <= minted
  BY <1>2 DEF Memory
<1>7. saved' # None => /\ tab'.claimKey = None /\ saved' <= lease.id
                       /\ tab'.held = None => last = None /\ tab'.sub = None
  BY <1>1, <1>2, <1>3 DEF Memory
<1>8. /\ \A k \in tab'.own : k <= keys
      /\ taken \notin tab'.own /\ tab'.claimKey \notin tab'.own
      /\ tab'.claimKey # None => tab'.claimKey <= keys
      /\ tab'.releaseKey # None => tab'.releaseKey <= keys
      /\ last # None => tab'.claimKey = None
      /\ tab'.first <= keys
  BY <1>1 DEF Memory
<1>9. tab'.sub # None => (last # None => tab'.sub.key = last)
  BY <1>3 DEF Memory
<1> QED
  BY <1>1, <1>3, <1>4, <1>5, <1>6, <1>7, <1>8, <1>9 DEF Memory, Taken, Remembered

LEMMA ReadInFlight ==
  ASSUME Inv, NEW i, NEW row, Reading(i, row)
  PROVE  InFlight'
<1> USE DEF Inv
<1> SUFFICES ASSUME call # None
             PROVE  Sent(call)' /\ Heard(call)'
  BY DEF InFlight, Reading
<1>1. /\ UNCHANGED <<reviewed, item, lease, minted, answers, rows, taken, keys, last, call>>
      /\ tab'.claimKey = tab.claimKey /\ tab'.releaseKey = tab.releaseKey
      /\ Sent(call) /\ Heard(call) /\ call.key \in Keys
  BY CallFields DEF Reading, InFlight
<1>2. /\ tab'.held # None => tab'.held = tab.held
      /\ tab.held = None => tab'.held = None /\ saved' = saved /\ tab'.told = tab.told
      /\ saved' \in {saved, None}
      /\ tab'.sub # None => tab.sub # None
  BY DEF Reading, Ignored, Owned, Lost, Shown, Marked, Closed, OwnSubmission
<1>3. ASSUME call.op = "recover", answers[call.key] = None
      PROVE  call.key \in tab'.own
  <2>1. call.key \in tab.own /\ tab.held = None
    BY <1>1, <1>3 DEF Sent, Taken
  <2>2. ~Lost(row) /\ ~Shown(row)
    BY <1>3, <2>1, ReadSought DEF Lost, Sought, Reading
  <2>3. ASSUME Owned(row)
        PROVE  row.cause # call.key
    BY <1>1, <1>3, <2>3 DEF Owned, Reading, Written, Foreign, Keys
  <2> QED
    BY <2>1, <2>2, <2>3 DEF Reading, Ignored, Owned, Marked, Closed
<1>4. ASSUME call.op = "submit"
      PROVE  tab'.sub = None /\ ~overtaken' => ~Good(call.lease, call.token) \/ tab'.accepted = last
  <2>1. /\ last # None /\ call.key = last
        /\ tab.held # None => tab.held.lease = call.lease /\ tab.held.token = call.token
        /\ tab.sub # None => tab.sub.key = last
    BY <1>1, <1>4, NoneAssumption DEF Sent, Keys, Memory
  <2> SUFFICES ASSUME tab'.sub = None, ~overtaken'
               PROVE  ~Good(call.lease, call.token) \/ tab'.accepted = last
    OBVIOUS
  <2>2. ~overtaken
    BY DEF Reading
  <2>3. CASE tab.sub = None /\ ~Lost(row)
    <3>1. ~Good(call.lease, call.token) \/ tab.accepted = last
      BY <1>1, <1>4, <2>2, <2>3 DEF Sent
    <3> QED
      BY <2>3, <3>1 DEF Reading, Ignored, Owned, Shown, Marked, Closed, OwnSubmission
  <2>4. CASE Lost(row)
    <3>1. ~Outdated(row)
      BY <2>4 DEF Reading, Lost, Memory
    <3> QED
      BY <2>1, <2>4, <3>1, LostUsable DEF Lost, Reading
  <2>5. CASE tab.sub # None /\ ~Lost(row)
    <3>1. Closed(row)
      BY <2>5 DEF Reading, Ignored, Owned, Shown, Marked
    <3> QED
      BY <2>1, <2>5, <3>1 DEF Closed, Memory
  <2> QED
    BY <2>3, <2>4, <2>5
<1>5. /\ call.op = "recover" /\ call.claim = None => saved' = call.lease /\ ~tab'.told
  BY <1>1, <1>2 DEF Sent, Taken
<1>8. ASSUME Taken(call)
      PROVE  /\ saved' = None
             /\ IF tab'.held = None THEN tab'.told /\ tab'.sub = None
                ELSE tab'.held.lease = call.answer.lease
  <2>1. saved' = None
    BY <1>1, <1>2, <1>8 DEF Sent
  <2>2. CASE tab.held = None \/ tab'.held # None
    BY <1>1, <1>2, <1>8, <2>2 DEF Sent
  <2>3. CASE Lost(row)
    BY <2>1, <2>3 DEF Lost
  <2>4. ASSUME Shown(row), tab.held # None
        PROVE  FALSE
    <3>1. /\ tab.sub # None /\ tab.sub.key = taken /\ tab.sub.key \in Submitted
      BY <2>4 DEF Shown, OwnSubmission, Reading, Written, Submitted
    <3>2. last = None
      BY <1>1, <1>8 DEF Sent
    <3> QED
      BY <2>4, <3>1, <3>2 DEF Memory, Sought
  <2> QED
    BY <2>1, <2>2, <2>3, <2>4 DEF Reading, Ignored, Owned, Marked, Closed
<1>6. Sent(call)'
  BY <1>1, <1>2, <1>3, <1>4, <1>5, <1>8 DEF Sent, Taken, Good, Current, Active
<1>7. Heard(call)'
  BY <1>1 DEF Heard
<1> QED
  BY <1>6, <1>7

LEMMA ReadKnown ==
  ASSUME Inv, NEW i, NEW row, Reading(i, row)
  PROVE  Known'
<1> USE DEF Inv
<1>1. /\ rows' = rows /\ tab'.first = tab.first /\ i = tab.pos + 1 /\ i \in DOMAIN rows
      /\ row = rows[i]
  BY DEF Reading
<1>2. Unread' \subseteq Unread /\ i \notin Unread' /\ Unread \subseteq DOMAIN rows
  <2>1. DOMAIN rows = 1..Len(rows) /\ tab.pos \in Nat /\ Len(rows) \in Nat
    BY TabFields DEF TypeOK
  <2>2. Unread = (tab.pos + 1)..Len(rows) /\ Unread' = (i + 1)..Len(rows)
    BY <1>1 DEF Unread, Reading
  <2> QED
    BY <1>1, <2>1, <2>2
<1>3. SUFFICES ASSUME NEW j \in Unread', rows[j].type = "recovered",
                      rows[j].lease \in Sought', rows[j].cause > tab.first
               PROVE  rows[j].cause \in tab'.own
  BY <1>1 DEF Known
<1>4. rows[j].cause \in tab.own
  BY <1>2, <1>3, ReadSought DEF Known
<1>5. ~Lost(row) /\ ~Shown(row)
  BY <1>3, ReadSought
<1>6. ASSUME Owned(row)
      PROVE  rows[j].cause # row.cause
  <2>1. row.type = "recovered" /\ row.cause # Foreign
    BY <1>6, TabFields DEF Owned, Foreign, Keys
  <2> QED
    BY <1>1, <1>2, <1>3, <2>1 DEF Log, Once
<1> QED
  BY <1>4, <1>5, <1>6 DEF Reading, Ignored, Owned, Marked, Closed

LEMMA ReadForetold ==
  ASSUME Inv, NEW i, NEW row, Reading(i, row)
  PROVE  Foretold'
<1> USE DEF Inv
<1>1. /\ UNCHANGED <<reviewed, item, lease, minted, answers, rows, taken, call>>
      /\ i = tab.pos + 1 /\ row = rows[i] /\ Written(i)
  BY DEF Reading
<1>2. SUFFICES ASSUME ~late', NEW h \in Holders'
               PROVE  Good(h.lease, h.token)' \/ Warned(h.lease)' \/ Unheard'
  BY DEF Foretold
<1>3. h \in Holders /\ ~late /\ ~(tab.held = None /\ Expected(row))
  BY <1>2, ReadSought DEF Reading
<1>4. CASE Good(h.lease, h.token)
  BY <1>1, <1>4 DEF Good, Current, Active
<1>5. CASE Warned(h.lease)
  <2>1. PICK j \in Unread : rows[j].lease = h.lease /\ Parts(rows[j])
    BY <1>5 DEF Warned
  <2>2. CASE j # i
    <3>1. j \in Unread'
      <4>1. tab.pos \in Nat /\ Len(rows) \in Nat
        BY TabFields DEF TypeOK
      <4>2. Unread = (tab.pos + 1)..Len(rows) /\ Unread' = (i + 1)..Len(rows)
        BY <1>1 DEF Unread, Reading
      <4> QED
        BY <1>1, <2>1, <2>2, <4>1, <4>2
    <3> QED
      BY <1>1, <2>1, <3>1 DEF Warned, Parts
  <2>3. CASE j = i
    <3>1. Parts(row) /\ row.lease = h.lease
      BY <1>1, <2>1, <2>3
    <3>2. Foreign \notin tab.own /\ taken \notin tab.own
      BY TabFields DEF Foreign, Keys, Memory
    <3>3. row.type # "leased" /\ row.cause \notin tab.own
      BY <1>1, <3>1, <3>2 DEF Parts, Written, Enders
    <3>8. CASE Marked(row)
      <4>1. row.type = "received" /\ reviewed /\ taken = tab.sub.key /\ tab.sub # None
        BY <1>1, <3>1, <3>8 DEF Marked, OwnSubmission, Parts, Enders, Written
      <4>2. taken \in Keys /\ taken # None
        BY <4>1, TabFields, NoneAssumption DEF Keys
      <4>3. tab'.accepted = None
        BY <1>3, <3>8 DEF Marked, Settled
      <4> QED
        BY <1>1, <4>1, <4>2, <4>3 DEF Unheard
    <3>9. SUFFICES ASSUME ~Marked(row)
                   PROVE  FALSE
      BY <3>8
    <3>4. tab'.held = None
      BY <3>1, <3>3, <3>9 DEF Reading, Ignored, Owned, Lost, Shown, Closed, Parts, Enders
    <3>5. /\ call # None /\ call.state = "answered" /\ call.op \in {"claim", "recover"}
          /\ call.answer.token # None /\ h.lease = call.answer.lease
      BY <1>1, <1>2, <3>4 DEF Holders
    <3>6. /\ Sent(call) /\ tab.held = None /\ answers[call.key] # None
          /\ answers[call.key].lease = h.lease
      BY <3>5 DEF InFlight, Sent, Heard, Taken
    <3>7. Expected(row)
      BY <3>1, <3>3, <3>5, <3>6 DEF Expected, OwnRecovery, Sent, Taken
    <3> QED
      BY <1>3, <3>6, <3>7
  <2> QED
    BY <2>2, <2>3
<1>6. CASE Unheard
  <2>1. tab'.accepted = tab.accepted
    BY <1>6 DEF Unheard, Reading, Ignored, Owned, Lost, Shown, Marked, Closed
  <2> QED
    BY <1>1, <1>6, <2>1 DEF Unheard
<1> QED
  BY <1>2, <1>3, <1>4, <1>5, <1>6 DEF Foretold

LEMMA ReadSettled ==
  ASSUME Inv, NEW i, NEW row, Reading(i, row)
  PROVE  Settled'
<1> USE DEF Inv
<1>1. CASE tab'.accepted = tab.accepted
  BY <1>1, ReadSought DEF Settled
<1>2. CASE Shown(row)
  <2>1. Sought' = {} /\ tab'.held = None /\ UNCHANGED <<answers, call>>
        /\ tab'.claimKey = tab.claimKey
    BY <1>2, ReadSought DEF Shown, Reading
  <2>2. ASSUME call # None, call.state = "answered", call.op \in {"claim", "recover"},
               call.answer.token # None
        PROVE  FALSE
    <3>1. Sent(call) /\ Heard(call) /\ call.key \in Keys /\ call.key # None
      BY <2>2, CallFields, NoneAssumption DEF InFlight, Keys
    <3>2. answers[call.key] # None
      BY <2>2, <3>1 DEF Heard
    <3>3. call.op = "claim" => call.key = tab.claimKey
      BY <2>2, <3>1 DEF Sent, Taken
    <3> QED
      BY <2>1, <2>2, <3>1, <3>2, <3>3 DEF Sought
  <2> QED
    BY <2>1, <2>2 DEF Settled, Holders
<1> QED
  BY <1>1, <1>2 DEF Reading, Ignored, Owned, Lost, Marked, Closed

LEMMA ReadTold ==
  ASSUME Inv, NEW i, NEW row, Reading(i, row)
  PROVE  Told'
<1> USE DEF Inv
<1>1. /\ UNCHANGED <<reviewed, item, lease, minted, answers, rows, taken, call, last>>
      /\ i = tab.pos + 1 /\ row = rows[i] /\ Written(i) /\ i \in DOMAIN rows
  BY DEF Reading
<1>2. SUFFICES ASSUME last # None, taken = last
               PROVE  /\ tab'.held # None => tab'.held.lease = lease.id
                      /\ ~overtaken' /\ tab'.accepted # last =>
                           /\ tab'.sub # None
                           /\ \/ reviewed /\ tab'.sub.received
                              \/ \E j \in Unread' : rows[j].type = "received" /\ rows[j].cause = last
  BY <1>1 DEF Told
<1>3. tab'.held # None => tab'.held.lease = lease.id
  BY <1>2 DEF Told, Reading, Ignored, Owned, Lost, Shown, Marked, Closed
<1>4. SUFFICES ASSUME ~overtaken', tab'.accepted # last
               PROVE  /\ tab'.sub # None
                      /\ \/ reviewed /\ tab'.sub.received
                         \/ \E j \in Unread' : rows[j].type = "received" /\ rows[j].cause = last
  BY <1>3
<1>5. ~overtaken /\ tab.accepted # last
  <2>1. tab.accepted = last => tab.sub = None \/ tab.sub.key = last
    BY <1>2 DEF Memory
  <2> QED
    BY <1>4, <2>1 DEF Reading, Ignored, Owned, Lost, Shown, Marked, Closed, OwnSubmission
<1>6. /\ tab.sub # None /\ tab.sub.key = last
      /\ \/ reviewed /\ tab.sub.received
         \/ \E j \in Unread : rows[j].type = "received" /\ rows[j].cause = last
  BY <1>2, <1>5 DEF Told, Memory
<1>8. ~Shown(row) /\ ~Closed(row)
  BY <1>2, <1>4, <1>5, <1>6 DEF Shown, Closed, Memory
<1>10. /\ tab.pos \in Nat /\ Len(rows) \in Nat /\ lease.since \in Nat
       /\ DOMAIN rows = 1..Len(rows)
  BY TabFields, LeaseFields DEF TypeOK
\* One that has been noted has its row behind it: what is left to read is its end.
<1>14. CASE reviewed /\ tab.sub.received
  <2>1. tab.pos > lease.since
    BY <1>5, <1>6, <1>14 DEF Memory, Remembered
  <2>2. i > lease.since + 1
    BY <1>1, <1>10, <2>1
  <2>3. row.type = "completed" /\ row.cause = last
    BY <1>1, <1>2, <1>10, <2>2 DEF Written
  <2>4. ~Lost(row)
    BY <1>6, <1>14, <2>3 DEF Lost, OwnSubmission
  <2> QED
    BY <1>6, <1>8, <1>14, <2>4 DEF Reading, Ignored, Owned, Marked
<1>15. CASE Marked(row)
  <2>1. reviewed
    BY <1>5, <1>6, <1>15 DEF Marked, Memory, Remembered
  <2> QED
    BY <1>15, <2>1 DEF Marked
<1>16. SUFFICES ASSUME ~Marked(row), ~(reviewed /\ tab.sub.received)
                PROVE  /\ tab'.sub # None
                       /\ \E j \in Unread' : rows[j].type = "received" /\ rows[j].cause = last
  BY <1>14, <1>15
<1>7. PICK j \in Unread : rows[j].type = "received" /\ rows[j].cause = last
  BY <1>6, <1>16
<1>9. j # i
  BY <1>1, <1>6, <1>7, <1>8, <1>16 DEF Reading, Ignored, Owned, Lost, OwnSubmission
<1>11. j \in Unread' /\ tab.pos + 1 < j /\ j \in DOMAIN rows
  <2>1. Unread = (tab.pos + 1)..Len(rows) /\ Unread' = (i + 1)..Len(rows)
    BY <1>1 DEF Unread, Reading
  <2> QED
    BY <1>1, <1>7, <1>9, <1>10, <2>1
<1>12. j = lease.since + 1
  BY <1>7, <1>11 DEF Log, Written
<1>13. ~Lost(row)
  <2>1. SUFFICES ASSUME Lost(row)
                 PROVE  FALSE
    OBVIOUS
  <2>2. tab.pos < lease.since /\ item # "ready" /\ tab.held.lease = lease.id
    BY <1>2, <1>10, <1>11, <1>12, <2>1, NoneAssumption DEF Lost, Told, Books
  <2>3. Outdated(row)
    BY <1>1, <2>1, <2>2, LostForCause
  <2> QED
    BY <1>4, <2>1, <2>3 DEF Lost, Reading, Memory
<1> QED
  BY <1>6, <1>7, <1>8, <1>11, <1>13, <1>16 DEF Reading, Ignored, Owned

LEMMA ReadRowStep ==
  ASSUME Inv, ReadRow
  PROVE  Inv'
<1> DEFINE i == tab.pos + 1
           row == rows[i]
<1>1. Reading(i, row)
  BY ReadingRow
<1> HIDE DEF i, row
<1>2. TypeOK'
  <2>1. saved' \in Ids /\ late' \in BOOLEAN /\ overtaken' \in BOOLEAN
    BY DEF ReadRow, Inv, TypeOK, Ids
  <2> QED
    BY <1>1, <2>1 DEF Reading, Inv, TypeOK
<1>3. Books' /\ Log'
  BY <1>1, BooksKept DEF Reading, Inv
<1> QED
  BY <1>1, <1>2, <1>3, ReadMemory, ReadInFlight, ReadKnown, ReadForetold, ReadSettled, ReadTold
     DEF Inv
-----------------------------------------------------------------------------
(* The invariant, and what it says of the tab.                             *)

LEMMA Initially ==
  ASSUME Init
  PROVE  Inv
<1> USE DEF Init
<1>1. MaxKeys \in Nat /\ MaxLosses \in Nat /\ MaxRefreshes \in Nat
  BY BoundAssumption
<1>2. tab \in Tabs /\ lease \in Leases
  BY <1>1 DEF Blank, Tabs, KeyOrNone, NoLease, Leases
<1>3. TypeOK
  <2>1. rows \in Seq([type : RowTypes, lease : Nat, cause : 0..MaxKeys])
    OBVIOUS
  <2>2. answers \in [Keys -> Answers \union {None}]
    OBVIOUS
  <2>3. /\ item \in {"ready", "leased", "submitted", "done"} /\ minted \in Nat
        /\ taken \in {None, Foreign} \union Keys /\ saved \in Ids /\ call \in Calls \union {None}
        /\ last \in KeyOrNone
    BY DEF Ids, KeyOrNone
  <2>4. /\ keys \in 0..MaxKeys /\ losses \in 0..MaxLosses /\ refreshes \in 0..MaxRefreshes
    BY <1>1
  <2>5. late \in BOOLEAN /\ overtaken \in BOOLEAN /\ reviewed \in BOOLEAN
    OBVIOUS
  <2> HIDE DEF Init
  <2> QED
    BY <1>2, <2>1, <2>2, <2>3, <2>4, <2>5 DEF TypeOK
<1>4. Books
  BY NoneAssumption DEF Books, NoLease, Active, Keys
<1>5. Log /\ Known
  BY DEF Log, Known, Unread, Blank
<1>6. Sought = {} /\ Submitted = {} /\ Holders = {}
  BY DEF Sought, Submitted, Holders, Blank
<1>7. Memory
  BY <1>1, <1>6 DEF Memory, Blank
<1>8. InFlight /\ Foretold /\ Settled /\ Told
  BY <1>6 DEF InFlight, Foretold, Settled, Told
<1> QED
  BY <1>3, <1>4, <1>5, <1>7, <1>8 DEF Inv

LEMMA ServerInv ==
  ASSUME Inv, Others \/ Serve
  PROVE  Inv'
<1>1. ServerStep /\ TypeOK'
  BY ServerSteps, ServerType DEF Inv
<1> QED
  BY <1>1, BooksStep, LogStep, MemoryStep, InFlightStep, KnownStep, ForetoldStep, SettledStep,
     ToldStep DEF Inv

LEMMA Stuttering ==
  ASSUME Inv, UNCHANGED vars
  PROVE  Inv'
<1>1. UNCHANGED <<reviewed, item, lease, minted, answers, rows, taken, tab, saved, call, keys, losses,
                  refreshes, late, overtaken, last>> /\ UNCHANGED server
  BY DEF vars, server, bounds, past
<1>2. TypeOK'
  BY <1>1 DEF Inv, TypeOK
<1>3. Sought' \subseteq Sought /\ Holders' \subseteq Holders
  BY <1>1 DEF Sought, Holders
<1>4. Narrows
  BY <1>1, <1>3 DEF Narrows
<1>5. InFlight'
  BY <1>1 DEF Inv, InFlight, Sent, Heard, Good, Current, Active
<1> QED
  BY <1>1, <1>2, <1>3, <1>4, <1>5, Narrowed, ForetoldKept, ToldKept DEF Inv

LEMMA Steps ==
  ASSUME Inv, [Next]_vars
  PROVE  Inv'
<1>1. CASE Others \/ Serve
  BY <1>1, ServerInv
<1>2. CASE Commands
  BY <1>2, SendClaimStep, SendRecoverStep, SendReleaseStep, SendSubmitStep, ResendSubmitStep
     DEF Commands
<1>3. CASE Take
  BY <1>3, TakeClaimStep, SaveClaimStep, RecoverClaimedStep, TakeRecoveryStep, TakeReleaseStep,
     TakeAcceptanceStep, TakeRefusalStep DEF Take
<1>4. CASE LoseCall \/ ReadRow \/ CountdownEnds \/ Refresh
  BY <1>4, LoseCallStep, ReadRowStep, CountdownEndsStep, RefreshStep
<1>5. CASE UNCHANGED vars
  BY <1>5, Stuttering
<1> QED
  BY <1>1, <1>2, <1>3, <1>4, <1>5 DEF Next

THEOREM Invariance == Spec => []Inv
BY Initially, Steps, PTL DEF Spec

\* Every reachable state has its type.
THEOREM TypeCorrect == Spec => []TypeOK
<1>1. Inv => TypeOK
  BY DEF Inv
<1> QED
  BY <1>1, Invariance, PTL

\* A tab that has read every row and awaits no answer holds only a token that
\* the server would take, unless it read the news before the answer or lost the
\* answers to a submission that waits for a review (refreshForEvent,
\* invalidateClaim of project-store.ts).
THEOREM TokenWorks == Spec => []HeldTokenWorks
<1>1. ASSUME Inv
      PROVE  HeldTokenWorks
  <2> SUFFICES ASSUME CaughtUp, tab.held # None, ~late, ~Unheard
               PROVE  Usable(tab)
    BY DEF HeldTokenWorks
  <2>1. Unread = {}
    BY <1>1, TabFields DEF CaughtUp, Unread, Inv
  <2>2. Good(tab.held.lease, tab.held.token)
    BY <1>1, <2>1 DEF Inv, Foretold, Holders, Warned
  <2> QED
    BY <2>2 DEF Usable, Good
<1> QED
  BY <1>1, Invariance, PTL

\* What the tab shows as accepted is what the server took from it, and a tab
\* that has caught up shows it, however many answers were lost, or remembers
\* that it was received, if it waits for a review.
THEOREM SubmissionKnown == Spec => []OwnSubmissionKnown
<1>1. ASSUME Inv
      PROVE  OwnSubmissionKnown
  <2>1. CaughtUp => Unread = {}
    BY <1>1, TabFields DEF CaughtUp, Unread, Inv
  <2>2. tab.accepted # None => taken = tab.accepted
    BY <1>1 DEF Inv, Memory
  <2>3. CaughtUp /\ ~overtaken /\ last # None /\ taken = last =>
          \/ tab.accepted = last
          \/ reviewed /\ tab.sub # None /\ tab.sub.key = last /\ tab.sub.received
    BY <1>1, <2>1 DEF Inv, Told, Memory
  <2> QED
    BY <2>2, <2>3 DEF OwnSubmissionKnown
<1> QED
  BY <1>1, Invariance, PTL

\* Nothing but a row makes the tab say that its claim was lost.
LEMMA OnlyRowsTell ==
  ASSUME TypeOK, [Next]_vars, ToldNow
  PROVE  ReadRow
<1>1. ~UNCHANGED tab
  BY DEF ToldNow
<1>2. ~Others /\ ~Serve
  BY <1>1, ServerSteps DEF ServerStep
<1>3. tab \in Tabs
  BY DEF TypeOK
<1>4. ~SendClaim /\ ~SendRecover /\ ~SendRelease /\ ~SendSubmit /\ ~ResendSubmit
  BY <1>1, <1>3 DEF SendClaim, SendRecover, SendRelease, SendSubmit, ResendSubmit, ToldNow, Tabs
<1>5. ASSUME NEW t \in Tabs, NEW id, NEW token
      PROVE  ~Hold(t, id, token).told
  BY DEF Hold, Tabs
<1>6. ~TakeClaim
  <2>1. [tab EXCEPT !.claimKey = None] \in Tabs
    BY <1>3 DEF Tabs, KeyOrNone
  <2> QED
    BY <1>5, <2>1 DEF TakeClaim, ToldNow
<1>7. ~TakeRecovery
  <2>1. [tab EXCEPT !.claimKey = IF call.claim = None THEN tab.claimKey ELSE None] \in Tabs
    BY <1>3 DEF Tabs, KeyOrNone
  <2> QED
    BY <1>5, <2>1 DEF TakeRecovery, ToldNow
<1>8. ~RecoverClaimed /\ ~TakeRelease /\ ~SaveClaim
  BY <1>1, <1>3 DEF RecoverClaimed, TakeRelease, SaveClaim, ToldNow, Tabs
<1>12. ~LoseCall
  <2>1. ASSUME LoseCall
        PROVE  tab'.told = tab.told
    BY <1>3, <2>1 DEF LoseCall, Tabs
  <2> QED
    BY <2>1 DEF ToldNow
<1>9. ~TakeAcceptance
  BY <1>3 DEF TakeAcceptance, ToldNow, Tabs
<1>10. ~TakeRefusal
  <2>1. ASSUME TakeRefusal
        PROVE  /\ tab'.told = tab.told
    BY <1>3, <2>1, CallFields DEF TakeRefusal, Tabs
  <2> QED
    BY <2>1 DEF ToldNow
<1>11. ~CountdownEnds /\ ~Refresh
  BY <1>3 DEF CountdownEnds, Refresh, Forgotten, Blank, ToldNow, Tabs
<1> QED
  BY <1>1, <1>2, <1>4, <1>6, <1>7, <1>8, <1>9, <1>10, <1>11, <1>12 DEF Next, Commands, Take, vars

\* The tab gives its claim up for news of the log only if its token is worth
\* nothing any more, unless the news is older than the token.
THEOREM TellsForCause == Spec => ToldForCause
<1>1. ASSUME Inv, [Next]_vars
      PROVE  [ToldNow /\ ~overtaken' => ~Usable(tab)]_vars
  <2> SUFFICES ASSUME ToldNow, ~overtaken', Usable(tab)
               PROVE  FALSE
    OBVIOUS
  <2>1. ReadRow
    BY <1>1, OnlyRowsTell DEF Inv
  <2>2. LET row == rows[tab.pos + 1] IN
        /\ tab.pos + 1 \in DOMAIN rows
        /\ Ignored(row) \/ Owned(row) \/ Lost(row) \/ Shown(row) \/ Marked(row) \/ Closed(row)
        /\ overtaken' = (overtaken \/ (tab'.told /\ ~tab.told /\ Outdated(row)))
    BY <1>1, <2>1, RowKinds DEF Inv
  <2>3. tab'.told /\ ~tab.told
    BY DEF ToldNow
  <2>4. Lost(rows[tab.pos + 1])
    BY <2>2, <2>3 DEF Ignored, Owned, Shown, Marked, Closed
  <2>5. Outdated(rows[tab.pos + 1])
    BY <1>1, <2>2, <2>4, LostUsable DEF Usable, Good
  <2> QED
    BY <2>2, <2>3, <2>5
<1> QED
  BY <1>1, Invariance, PTL DEF Spec, ToldForCause

-----------------------------------------------------------------------------
(* The page's feed: type correctness and the inductive invariant behind    *)
(* what a page shows, under whose credential it was read, and how far its  *)
(* feed may run ahead of it.                                               *)

\* A read whose answer will be shown: the credential has not changed since.
Asking(p) == p.load # Nil /\ p.load.gen = p.gen
\* The same of a recovery, and of a start that has read its position.
Recovering(p) == p.rec # Nil /\ p.rec.gen = p.gen
Primed(p) == p.start # Nil /\ p.start.primed /\ p.start.gen = p.gen

\* No generation, credential or position is ahead of the one it was taken from.
Placed(p) ==
  /\ p.seen <= cookie /\ p.noticed <= cookie /\ p.data.cred <= cookie /\ p.data.at <= Len(log)
  /\ p.load # Nil => p.load.gen <= p.gen /\ p.load.cred <= cookie /\ p.load.at <= Len(log)
  /\ p.me # Nil => p.seen <= p.me.cred /\ p.noticed <= p.me.cred /\ p.me.cred <= cookie
  /\ p.rec # Nil => p.rec.gen <= p.gen
  /\ p.start # Nil => p.start.gen <= p.gen /\ p.start.cursor <= Len(log)
  /\ p.feed # Nil => p.feed.cursor <= Len(log) /\ p.feed.sent <= Len(log)

\* What was dropped is gone whole, and a page that says it is loading awaits an
\* answer it will show; behind an outdated read it shows nothing.
Dropped(p) ==
  /\ p.queued => p.load # Nil
  /\ p.data.status = "idle" => p.data = NoData
  /\ p.data.status = "ready" => p.data.cred # 0
  /\ Asking(p) => p.data.status # "idle"
  /\ p.load # Nil /\ ~Asking(p) => p.data = NoData
  /\ p.data.status = "loading" => Asking(p)

\* A page starts only while it has no feed, waits for a recovery once its
\* position is known, recovers again only if it has a feed, and nothing runs
\* for a page nobody uses but what was already under way.
Following(p) ==
  /\ p.start # Nil => p.feed = Nil
  /\ p.start # Nil /\ p.start.primed => p.rec # Nil
  /\ p.timer = "recover" => p.feed # Nil
  /\ p.users = 0 => p.feed = Nil /\ p.timer = Nil
\* A recovery under the present credential is its feed's or its start's own:
\* a start never finds one it did not ask for, unless the page joined it.
Followed(p) == Recovering(p) /\ ~p.joined => p.feed # Nil \/ Primed(p) \/ p.users = 0

\* What r read shows row i, or some credential since has hidden the row.
Hidden(i, r) == \E c \in r.cred..cookie : ~Visible(c, i)
Meets(r, i) == i <= r.at \/ Hidden(i, r)
\* The page shows row i, is about to, or shows nothing.
Covered(p, i) ==
  \/ p.queued
  \/ Asking(p) /\ Meets(p.load, i)
  \/ ~Asking(p) /\ (p.data.status = "ready" => Meets(p.data, i))
\* Every row handed over is covered; so is every row up to the position of a
\* start, from the moment its recovery begins.
Caught(p) == ~p.joined =>
  /\ p.feed # Nil => \A i \in 1..p.feed.cursor : Covered(p, i)
  /\ Primed(p) /\ Recovering(p) => \A i \in 1..p.start.cursor : Covered(p, i)

\* The session of a member could not be read: the page does not know its reader.
Unknown(p) == p.known # Identity(p.seen)
\* Whatever is shown, or will be, was read since the page last found its reader
\* changed, which is when a member it knows signed in; a page that does not know
\* its reader shows nothing and asks for nothing.
Read(p) ==
  /\ p.data.cred # 0 => p.data.cred >= p.noticed
  /\ Asking(p) => p.load.cred >= p.noticed
  /\ p.known # SignedOut => p.known = p.noticed
  /\ Unknown(p) => /\ p.known = SignedOut /\ p.data = NoData /\ ~Asking(p) /\ ~p.queued
                   /\ p.session # "ready"

Base(p) == p \in Pages /\ Placed(p) /\ Dropped(p)
Trailing(p) == Following(p) /\ Followed(p) /\ Caught(p)
Around == log \in Seq({"shared", "private"}) /\ cookie \in Credentials
Fit(p) == Base(p) /\ Read(p) /\ Trailing(p)
\* The invariant.  Its parts are about a page p rather than the variable, so
\* that each call of the store can be shown to keep them.
FeedInv == FeedTypeOK /\ Fit(page)

\* The fields of a page by what changes them: what it has read, what runs for
\* it, and who it thinks its reader is.
Store(p) == <<p.data, p.load, p.queued>>
Ties(p) == <<p.rec, p.users, p.start, p.timer, p.feed, p.joined>>
Reader(p) == <<p.known, p.seen, p.session, p.me, p.noticed>>

-----------------------------------------------------------------------------
(* The calls of the store.                                                 *)

\* Credentials are numbers from 1.
LEMMA CredentialsAre == /\ Credentials = 1..Len(Audience) /\ Len(Audience) \in Nat \ {0}
                        /\ \A c \in Credentials : c \in Nat /\ Audience[c] \in {"member", "public"}
BY AudienceAssumption DEF Credentials

\* What asking for the data changes: a read begins, or is asked for after this one.
LEMMA LoadEffect ==
  ASSUME NEW p \in Pages, Around
  PROVE  /\ Load(p) \in Pages
         /\ Load(p).gen = p.gen /\ Ties(Load(p)) = Ties(p) /\ Reader(Load(p)) = Reader(p)
         /\ p.load = Nil =>
              /\ Load(p).load # Nil /\ Load(p).load.gen = p.gen
              /\ Load(p).load.at = Len(log) /\ Load(p).load.cred = cookie
              /\ Load(p).data.status = "loading" /\ Load(p).data.at = p.data.at
              /\ Load(p).data.cred = p.data.cred /\ Load(p).queued = p.queued
         /\ p.load # Nil =>
              Load(p).load = p.load /\ Load(p).data = p.data /\ Load(p).queued
<1> DEFINE r == [gen |-> p.gen, at |-> Len(log), cred |-> cookie]
<1> DEFINE d == [p.data EXCEPT !.status = "loading"]
<1>1. r \in Reads
  BY CredentialsAre DEF Pages, Reads, Around
<1>2. p.data \in Contents
  BY DEF Pages
<1>3. d \in Contents
  BY <1>2 DEF Contents
<1>4. CASE p.load = Nil
  <2>1. Load(p) = [p EXCEPT !.load = r, !.data = d]
    BY <1>4 DEF Load, Pages
  <2> HIDE DEF r, d
  <2>2. Load(p) \in Pages
    BY <2>1, <1>1, <1>3 DEF Pages
  <2>3. /\ Load(p).gen = p.gen /\ Ties(Load(p)) = Ties(p) /\ Reader(Load(p)) = Reader(p)
        /\ Load(p).load = r /\ Load(p).data = d /\ Load(p).queued = p.queued
    BY <2>1 DEF Pages, Ties, Reader
  <2>4. r # Nil /\ r.gen = p.gen /\ r.at = Len(log) /\ r.cred = cookie
    BY <1>1, NilAssumption DEF r
  <2>5. d.status = "loading" /\ d.at = p.data.at /\ d.cred = p.data.cred
    BY <1>2 DEF d, Contents
  <2> QED BY <2>2, <2>3, <2>4, <2>5, <1>4
<1>5. CASE p.load # Nil
  <2>1. Load(p) = [p EXCEPT !.queued = TRUE]
    BY <1>5 DEF Load, Pages
  <2> QED BY <2>1, <1>5 DEF Pages, Ties, Reader
<1> QED BY <1>4, <1>5

LEMMA LoadBase == ASSUME NEW p, Base(p), Around PROVE Base(Load(p))
<1> DEFINE q == Load(p)
<1>0. p \in Pages /\ Len(log) \in Nat
  BY DEF Base, Around
<1>1. p \in Pages /\ q \in Pages /\ p.data \in Contents /\ Len(log) \in Nat
  <2>1. p.data \in Contents
    BY <1>0 DEF Pages
  <2> QED BY <1>0, <2>1, LoadEffect
<1>2. CASE p.load = Nil
  <2>1. /\ q.gen = p.gen /\ Ties(q) = Ties(p) /\ Reader(q) = Reader(p)
        /\ q.queued = p.queued /\ q.load # Nil /\ q.load.gen = p.gen
        /\ q.load.at = Len(log) /\ q.load.cred = cookie
        /\ q.data.status = "loading" /\ q.data.at = p.data.at /\ q.data.cred = p.data.cred
    BY <1>1, <1>2, LoadEffect
  <2> HIDE DEF q
  <2>4. Placed(q)
    BY <1>1, <2>1, CredentialsAre DEF Base, Placed, Ties, Reader, Pages, Around
  <2>5. Dropped(q)
    BY <1>1, <2>1 DEF Base, Dropped, Asking
  <2> QED BY <1>1, <2>4, <2>5 DEF Base, q
<1>3. CASE p.load # Nil
  <2>1. /\ q.gen = p.gen /\ Ties(q) = Ties(p) /\ Reader(q) = Reader(p)
        /\ q.load = p.load /\ q.data = p.data /\ q.queued
    BY <1>1, <1>3, LoadEffect
  <2> HIDE DEF q
  <2> QED BY <1>1, <1>3, <2>1 DEF Base, Placed, Dropped, Asking, Ties, Reader, q
<1> QED BY <1>2, <1>3

\* Whoever asks is answered from the log as it is now.
LEMMA LoadCovers ==
  ASSUME NEW p, Base(p), Around, NEW i \in 1..Len(log)
  PROVE  Covered(Load(p), i)
<1> DEFINE q == Load(p)
<1>1. CASE p.load = Nil
  <2>1. q.gen = p.gen /\ q.load # Nil /\ q.load.gen = p.gen /\ q.load.at = Len(log)
    BY <1>1, LoadEffect DEF Base
  <2> QED BY <2>1 DEF Covered, Asking, Meets, Around
<1>2. CASE p.load # Nil
  BY <1>2, LoadEffect DEF Base, Covered
<1> QED BY <1>1, <1>2

\* So a feed, wherever it stands, is covered again.
LEMMA LoadTail ==
  ASSUME NEW p, Base(p), Following(p), Followed(p), Around PROVE Trailing(Load(p))
<1> DEFINE q == Load(p)
<1>1. q.gen = p.gen /\ Ties(q) = Ties(p)
  BY LoadEffect DEF Base
<1>2. \A i \in 1..Len(log) : Covered(q, i)
  BY LoadCovers
<1>3. Base(q) /\ q \in Pages
  BY LoadBase DEF Base
<1> HIDE DEF q
<1>4. Following(q) /\ Followed(q)
  BY <1>1 DEF Following, Followed, Recovering, Primed, Ties
<1>5. Caught(q)
  <2>1. q.feed # Nil => q.feed.cursor \in Nat /\ q.feed.cursor <= Len(log)
    BY <1>3 DEF Base, Placed, Pages, Feeds
  <2>2. q.start # Nil => q.start.cursor \in Nat /\ q.start.cursor <= Len(log)
    BY <1>3 DEF Base, Placed, Pages, Starts
  <2> QED BY <1>2, <2>1, <2>2 DEF Caught, Primed, Around
<1> QED BY <1>4, <1>5 DEF Trailing, q

\* A page that knows its reader reads under a present credential.
LEMMA LoadRead ==
  ASSUME NEW p, Base(p), Read(p), ~Unknown(p), Around PROVE Read(Load(p))
<1> DEFINE q == Load(p)
<1>1. q.gen = p.gen /\ Reader(q) = Reader(p)
  BY LoadEffect DEF Base
<1>2. ~Unknown(q)
  BY <1>1 DEF Unknown, Reader
<1>3. CASE p.load = Nil
  <2>1. q.load.cred = cookie /\ q.data.cred = p.data.cred
    BY <1>3, LoadEffect DEF Base
  <2> HIDE DEF q
  <2> QED BY <1>1, <1>2, <2>1 DEF Read, Reader, Base, Placed, q
<1>4. CASE p.load # Nil
  <2>1. q.load = p.load /\ q.data = p.data
    BY <1>4, LoadEffect DEF Base
  <2> HIDE DEF q
  <2> QED BY <1>1, <1>2, <2>1 DEF Read, Reader, Asking, q
<1> QED BY <1>3, <1>4

\* What asking who the reader is changes.
LEMMA ReadSessionEffect ==
  ASSUME NEW p \in Pages, NEW b \in BOOLEAN, Around
  PROVE  /\ ReadSession(p, b) \in Pages
         /\ ReadSession(p, b).gen = p.gen /\ Ties(ReadSession(p, b)) = Ties(p)
         /\ Store(ReadSession(p, b)) = Store(p)
         /\ ReadSession(p, b).known = p.known /\ ReadSession(p, b).seen = p.seen
         /\ ReadSession(p, b).noticed = p.noticed
         /\ ReadSession(p, b).session = "loading"
         /\ ReadSession(p, b).me # Nil /\ ReadSession(p, b).me.cred = cookie
<1> DEFINE m == [cred |-> cookie, forced |-> b, reloading |-> FALSE, restart |-> FALSE]
<1>1. m \in SessionReads
  BY DEF SessionReads, Around
<1>2. m # Nil /\ m.cred = cookie
  BY <1>1, NilAssumption
<1>3. ReadSession(p, b) = [p EXCEPT !.me = m, !.session = "loading"]
  BY DEF ReadSession
<1> HIDE DEF m
<1> QED BY <1>1, <1>2, <1>3 DEF Pages, Ties, Store

LEMMA ReadSessionKeeps ==
  ASSUME NEW p, NEW b \in BOOLEAN, Base(p), Around
  PROVE  /\ Base(ReadSession(p, b))
         /\ Read(p) => Read(ReadSession(p, b))
         /\ Trailing(p) => Trailing(ReadSession(p, b))
<1> DEFINE q == ReadSession(p, b)
<1>1. /\ p \in Pages /\ q \in Pages /\ q.gen = p.gen /\ Ties(q) = Ties(p) /\ Store(q) = Store(p)
      /\ q.known = p.known /\ q.seen = p.seen /\ q.noticed = p.noticed /\ q.session = "loading"
      /\ q.me # Nil /\ q.me.cred = cookie
  BY ReadSessionEffect DEF Base
<1> HIDE DEF q
<1>2. Base(q)
  BY <1>1, CredentialsAre DEF Base, Placed, Dropped, Asking, Ties, Store, Around
<1>3. Read(p) => Read(q)
  BY <1>1 DEF Read, Unknown, Asking, Store
<1>4. Trailing(p) => Trailing(q)
  BY <1>1 DEF Trailing, Following, Followed, Caught, Covered, Recovering, Primed, Asking, Ties, Store
<1> QED BY <1>2, <1>3, <1>4 DEF q

\* A recovery under way is joined.
LEMMA RecoverIdle ==
  ASSUME NEW p, p.rec # Nil
  PROVE  Recover(p) = p
BY DEF Recover

\* What Recover notes before it asks.
Noted(p) ==
  [p EXCEPT !.ready = FALSE, !.status = "recovering",
            !.rec = [gen |-> p.gen,
                     session |-> IF p.me = Nil THEN "running" ELSE "queued",
                     needed |-> p.data.status # "idle",
                     data |-> CASE p.data.status = "idle" -> "done"
                                [] p.load = Nil -> "running"
                                [] OTHER -> "queued"]]

LEMMA NotedEffect ==
  ASSUME NEW p \in Pages
  PROVE  /\ Noted(p) \in Pages /\ Noted(p).gen = p.gen
         /\ Store(Noted(p)) = Store(p) /\ Reader(Noted(p)) = Reader(p)
         /\ Noted(p).users = p.users /\ Noted(p).start = p.start /\ Noted(p).timer = p.timer
         /\ Noted(p).feed = p.feed /\ Noted(p).joined = p.joined
         /\ Noted(p).rec # Nil /\ Noted(p).rec.gen = p.gen
<1> DEFINE r == Noted(p).rec
<1>1. r \in Recoveries /\ r.gen = p.gen
  BY DEF Noted, Recoveries, Pages
<1>2. r # Nil
  BY <1>1, NilAssumption
<1>3. Noted(p) = [p EXCEPT !.ready = FALSE, !.status = "recovering", !.rec = r]
  BY DEF Noted, Pages
<1> HIDE DEF r
<1>4. Noted(p) \in Pages
  BY <1>1, <1>3 DEF Pages
<1> QED BY <1>1, <1>2, <1>3, <1>4 DEF r, Pages, Store, Reader

LEMMA NotedKeeps ==
  ASSUME NEW p, Base(p)
  PROVE  Base(Noted(p)) /\ (Read(p) => Read(Noted(p))) /\ (Unknown(Noted(p)) <=> Unknown(p))
<1> DEFINE q == Noted(p)
<1>1. /\ p \in Pages /\ q \in Pages /\ q.gen = p.gen /\ Store(q) = Store(p) /\ Reader(q) = Reader(p)
      /\ q.start = p.start /\ q.feed = p.feed /\ q.rec # Nil /\ q.rec.gen = p.gen
  BY NotedEffect DEF Base
<1>2. p.gen \in Nat
  BY <1>1 DEF Pages
<1> HIDE DEF q
<1>3. Base(q)
  BY <1>1, <1>2 DEF Base, Placed, Dropped, Asking, Store, Reader
<1>4. (Read(p) => Read(q)) /\ (Unknown(q) <=> Unknown(p))
  BY <1>1 DEF Read, Unknown, Asking, Store, Reader
<1> QED BY <1>3, <1>4 DEF q

\* The two ways of Recover, once it has noted what it does.
LEMMA RecoverIs ==
  ASSUME NEW p, p.rec = Nil
  PROVE  LET n == Noted(p)
             s == IF p.me = Nil THEN ReadSession(n, FALSE) ELSE n
         IN  Recover(p) = IF p.data.status = "idle" THEN s ELSE Load(s)
BY DEF Recover, Noted

\* A new recovery reads everything again: every row is covered.
LEMMA RecoverEffect ==
  ASSUME NEW p, Base(p), Around, p.rec = Nil
  PROVE  /\ Base(Recover(p))
         /\ Read(p) => Read(Recover(p))
         /\ Recover(p).gen = p.gen /\ Recover(p).users = p.users
         /\ Recover(p).start = p.start /\ Recover(p).timer = p.timer
         /\ Recover(p).feed = p.feed /\ Recover(p).joined = p.joined
         /\ Recover(p).rec # Nil /\ Recover(p).rec.gen = p.gen
         /\ \A i \in 1..Len(log) : Covered(Recover(p), i)
<1> DEFINE n == Noted(p)
           s == IF p.me = Nil THEN ReadSession(n, FALSE) ELSE n
<1>1. /\ p \in Pages /\ n \in Pages /\ Base(n) /\ (Read(p) => Read(n))
      /\ n.gen = p.gen /\ Store(n) = Store(p) /\ Reader(n) = Reader(p)
      /\ n.users = p.users /\ n.start = p.start /\ n.timer = p.timer /\ n.feed = p.feed
      /\ n.joined = p.joined /\ n.rec # Nil /\ n.rec.gen = p.gen
  BY NotedEffect, NotedKeeps DEF Base
<1> HIDE DEF n
<1>2. /\ s \in Pages /\ Base(s) /\ (Read(n) => Read(s)) /\ s.gen = n.gen /\ Ties(s) = Ties(n)
      /\ Store(s) = Store(n) /\ s.known = n.known /\ s.seen = n.seen
  BY <1>1, ReadSessionEffect, ReadSessionKeeps DEF Base, Reader
<1>3. Recover(p) = IF p.data.status = "idle" THEN s ELSE Load(s)
  BY RecoverIs DEF n
<1> HIDE DEF s
<1>4. /\ s.gen = p.gen /\ s.users = p.users /\ s.start = p.start /\ s.timer = p.timer
      /\ s.feed = p.feed /\ s.joined = p.joined /\ s.rec # Nil /\ s.rec.gen = p.gen
      /\ s.data = p.data /\ s.load = p.load /\ s.queued = p.queued
  BY <1>1, <1>2 DEF Ties, Store
<1>5. CASE p.data.status = "idle"
  <2>1. \A i \in 1..Len(log) : Covered(s, i)
    BY <1>1, <1>2, <1>4, <1>5 DEF Covered, Base, Dropped, Asking
  <2> QED BY <1>1, <1>2, <1>3, <1>4, <1>5, <2>1
<1>6. CASE p.data.status # "idle"
  <2>1. Read(p) => ~Unknown(s)
    <3>1. Read(p) => ~Unknown(p)
      BY <1>6 DEF Read, NoData
    <3> QED BY <3>1, <1>1, <1>2 DEF Unknown, Reader
  <2>2. Base(Load(s)) /\ (Read(p) => Read(Load(s))) /\ \A i \in 1..Len(log) : Covered(Load(s), i)
    BY <1>1, <1>2, <2>1, LoadBase, LoadRead, LoadCovers
  <2>3. Load(s).gen = s.gen /\ Ties(Load(s)) = Ties(s)
    BY <1>2, LoadEffect
  <2> QED BY <1>3, <1>4, <1>6, <2>2, <2>3 DEF Ties
<1> QED BY <1>5, <1>6

LEMMA RecoverBase == ASSUME NEW p, Base(p), Around PROVE Base(Recover(p))
BY RecoverIdle, RecoverEffect

LEMMA RecoverRead == ASSUME NEW p, Base(p), Read(p), Around PROVE Read(Recover(p))
BY RecoverIdle, RecoverEffect

\* A page that follows the feed may recover.
LEMMA RecoverTail ==
  ASSUME NEW p, Base(p), Trailing(p), Around, p.feed # Nil
  PROVE  Trailing(Recover(p))
<1>1. CASE p.rec # Nil
  BY <1>1, RecoverIdle
<1>2. CASE p.rec = Nil
  <2> DEFINE q == Recover(p)
  <2>1. /\ Base(q) /\ q.gen = p.gen /\ q.users = p.users /\ q.start = p.start /\ q.timer = p.timer
        /\ q.feed = p.feed /\ q.joined = p.joined /\ q.rec # Nil
        /\ \A i \in 1..Len(log) : Covered(q, i)
    BY <1>2, RecoverEffect
  <2> HIDE DEF q
  <2>2. q.feed.cursor \in Nat /\ q.feed.cursor <= Len(log) /\ q.start = Nil
    BY <2>1 DEF Trailing, Following, Base, Placed, Pages, Feeds
  <2> QED BY <2>1, <2>2 DEF Trailing, Following, Followed, Caught, Primed, Around, q
<1> QED BY <1>1, <1>2

\* What else a page shows or plans does not matter.
LEMMA SameKeeps ==
  ASSUME NEW p, NEW q \in Pages, q.gen = p.gen, Store(q) = Store(p), Ties(q) = Ties(p),
         Reader(q) = Reader(p)
  PROVE  (Base(p) => Base(q)) /\ (Read(p) => Read(q)) /\ (Trailing(p) => Trailing(q))
<1>1. Base(p) => Base(q)
  BY DEF Base, Placed, Dropped, Asking, Store, Ties, Reader
<1>2. Read(p) => Read(q)
  BY DEF Read, Unknown, Asking, Store, Ties, Reader
<1>3. Trailing(p) => Trailing(q)
  BY DEF Trailing, Following, Followed, Caught, Covered, Recovering, Primed, Asking, Store, Ties
<1> QED BY <1>1, <1>2, <1>3

\* What a start changes; it begins only where nothing is followed.
LEMMA StartEffect ==
  ASSUME NEW p \in Pages
  PROVE  /\ Start(p) \in Pages /\ Start(p).gen = p.gen
         /\ Store(Start(p)) = Store(p) /\ Reader(Start(p)) = Reader(p)
         /\ Start(p).rec = p.rec /\ Start(p).users = p.users /\ Start(p).timer = p.timer
         /\ Start(p).feed = p.feed /\ Start(p).joined = p.joined
         /\ \/ Start(p) = p
            \/ /\ p.feed = Nil /\ p.start = Nil /\ p.timer = Nil
               /\ Start(p).start # Nil /\ Start(p).start.gen = p.gen
               /\ Start(p).start.cursor = 0 /\ ~Start(p).start.primed
<1> DEFINE r == [gen |-> p.gen, cursor |-> 0, primed |-> FALSE]
<1>1. r \in Starts /\ r.gen = p.gen /\ r.cursor = 0 /\ ~r.primed
  BY DEF Starts, Pages
<1>2. r # Nil
  BY <1>1, NilAssumption
<1>3. \/ Start(p) = p
      \/ /\ p.feed = Nil /\ p.start = Nil /\ p.timer = Nil
         /\ Start(p) = [p EXCEPT !.start = r, !.status = "connecting"]
  BY DEF Start
<1> HIDE DEF r
<1>4. CASE Start(p) = [p EXCEPT !.start = r, !.status = "connecting"] /\ p.feed = Nil
           /\ p.start = Nil /\ p.timer = Nil
  <2>1. Start(p) \in Pages
    BY <1>1, <1>4 DEF Pages
  <2>2. Start(p).start = r
    BY <1>4 DEF Pages
  <2> QED BY <1>1, <1>2, <1>4, <2>1, <2>2 DEF Pages, Store, Reader
<1> QED BY <1>3, <1>4

LEMMA StartKeeps ==
  ASSUME NEW p, Base(p)
  PROVE  Base(Start(p)) /\ (Read(p) => Read(Start(p))) /\ (Trailing(p) => Trailing(Start(p)))
<1> DEFINE q == Start(p)
<1>1. /\ p \in Pages /\ q \in Pages /\ q.gen = p.gen /\ Store(q) = Store(p)
      /\ Reader(q) = Reader(p) /\ q.rec = p.rec /\ q.users = p.users /\ q.timer = p.timer
      /\ q.feed = p.feed /\ q.joined = p.joined
      /\ \/ q = p
         \/ /\ p.feed = Nil /\ p.start = Nil /\ p.timer = Nil
            /\ q.start # Nil /\ q.start.gen = p.gen /\ q.start.cursor = 0 /\ ~q.start.primed
  BY StartEffect DEF Base
<1>2. p.gen \in Nat
  BY <1>1 DEF Pages
<1> HIDE DEF q
<1>3. CASE q = p
  BY <1>3 DEF q
<1>4. CASE /\ p.feed = Nil /\ p.start = Nil /\ p.timer = Nil
           /\ q.start # Nil /\ q.start.gen = p.gen /\ q.start.cursor = 0 /\ ~q.start.primed
  <2>1. Base(q)
    <3>1. 0 <= Len(log)
      BY <1>1, <1>4 DEF Base, Placed, Pages, Contents
    <3> QED BY <1>1, <1>2, <1>4, <3>1 DEF Base, Placed, Dropped, Asking, Store, Reader
  <2>2. Read(p) => Read(q)
    BY <1>1 DEF Read, Unknown, Asking, Store, Reader
  <2>3. Trailing(p) => Trailing(q)
    BY <1>1, <1>4 DEF Trailing, Following, Followed, Caught, Recovering, Primed, Store
  <2> QED BY <2>1, <2>2, <2>3 DEF q
<1> QED BY <1>1, <1>3, <1>4

\* A retry is planned, unless one is or nobody uses the page.
LEMMA ScheduleKeeps ==
  ASSUME NEW p, NEW retry \in {"start", "recover"}, Base(p)
  PROVE  /\ Base(Schedule(p, retry))
         /\ Read(p) => Read(Schedule(p, retry))
         /\ Trailing(p) /\ (retry = "recover" => p.feed # Nil) => Trailing(Schedule(p, retry))
         /\ Schedule(p, retry).gen = p.gen /\ Store(Schedule(p, retry)) = Store(p)
         /\ Schedule(p, retry).rec = p.rec /\ Schedule(p, retry).users = p.users
         /\ Schedule(p, retry).start = p.start /\ Schedule(p, retry).feed = p.feed
         /\ Schedule(p, retry).joined = p.joined
         /\ Schedule(p, retry).timer \in {p.timer, retry}
         /\ p.users = 0 => Schedule(p, retry).timer = p.timer
<1> DEFINE q == Schedule(p, retry)
<1>1. p \in Pages
  BY DEF Base
<1>2. CASE q = p
  BY <1>2
<1>3. CASE p.users # 0 /\ p.timer = Nil /\ q = [p EXCEPT !.timer = retry]
  <2>1. q \in Pages /\ q.timer = retry
    BY <1>1, <1>3 DEF Pages
  <2>2. /\ q.gen = p.gen /\ Store(q) = Store(p) /\ Reader(q) = Reader(p) /\ q.rec = p.rec
        /\ q.users = p.users /\ q.start = p.start /\ q.feed = p.feed /\ q.joined = p.joined
    BY <1>1, <1>3 DEF Pages, Store, Reader
  <2> HIDE DEF q
  <2>3. Base(q)
    BY <2>1, <2>2 DEF Base, Placed, Dropped, Asking, Store, Reader
  <2>4. Read(p) => Read(q)
    BY <2>2 DEF Read, Unknown, Asking, Store, Reader
  <2>5. Trailing(p) /\ (retry = "recover" => p.feed # Nil) => Trailing(q)
    BY <1>3, <2>1, <2>2
    DEF Trailing, Following, Followed, Caught, Covered, Asking, Recovering, Primed, Store
  <2> QED BY <1>3, <2>1, <2>2, <2>3, <2>4, <2>5 DEF q
<1> QED BY <1>2, <1>3 DEF Schedule

\* What a changed credential drops.
LEMMA PurgeEffect ==
  ASSUME NEW p \in Pages
  PROVE  /\ Purge(p) \in Pages /\ Purge(p).gen = p.gen + 1
         /\ Purge(p).data = NoData /\ Purge(p).load = p.load /\ ~Purge(p).queued
         /\ Reader(Purge(p)) = Reader(p) /\ Purge(p).rec = p.rec /\ Purge(p).users = p.users
         /\ Purge(p).start = p.start /\ Purge(p).timer = Nil /\ Purge(p).feed = Nil
         /\ Purge(p).joined = p.joined
<1>1. NoData \in Contents /\ p.gen + 1 \in Nat
  BY DEF NoData, Contents, Pages
<1> DEFINE shown == IF p.users = 0 THEN "idle" ELSE "connecting"
           half == [p EXCEPT !.gen = p.gen + 1, !.queued = FALSE, !.timer = Nil, !.ready = FALSE]
<1>2. Purge(p) = [half EXCEPT !.up = FALSE, !.feed = Nil, !.data = NoData, !.status = shown]
  BY DEF Purge, Pages
<1>3. half \in Pages
  BY <1>1 DEF Pages
<1>4. shown \in {"idle", "connecting"}
  OBVIOUS
<1> HIDE DEF half, shown
<1>5. Purge(p) \in Pages
  BY <1>1, <1>2, <1>3, <1>4 DEF Pages
<1> QED BY <1>1, <1>5 DEF Purge, Pages, Reader

\* Whatever was read or is being read under the old credential is dropped.
LEMMA PurgeKeeps ==
  ASSUME NEW p, Base(p), Around
  PROVE  /\ Base(Purge(p))
         /\ (Unknown(p) => p.known = SignedOut /\ p.session # "ready")
              /\ (p.known # SignedOut => p.known = p.noticed) => Read(Purge(p))
         /\ (p.start # Nil /\ p.start.primed => p.rec # Nil) => Trailing(Purge(p))
         /\ Unknown(Purge(p)) <=> Unknown(p)
<1> DEFINE q == Purge(p)
<1>1. /\ p \in Pages /\ q \in Pages /\ q.gen = p.gen + 1 /\ q.data = NoData /\ q.load = p.load
      /\ ~q.queued /\ Reader(q) = Reader(p) /\ q.rec = p.rec /\ q.users = p.users
      /\ q.start = p.start /\ q.timer = Nil /\ q.feed = Nil /\ q.joined = p.joined
  BY PurgeEffect DEF Base
<1>2. /\ p.gen \in Nat
      /\ p.load # Nil => p.load.gen \in Nat /\ p.load.gen <= p.gen
      /\ p.rec # Nil => p.rec.gen \in Nat /\ p.rec.gen <= p.gen
      /\ p.start # Nil => p.start.gen \in Nat /\ p.start.gen <= p.gen
  BY <1>1 DEF Pages, Reads, Recoveries, Starts, Base, Placed
<1>3. cookie \in Nat /\ 0 <= cookie /\ 0 <= Len(log) /\ NoData.at = 0 /\ NoData.cred = 0
      /\ NoData.status = "idle"
  BY CredentialsAre DEF NoData, Around
<1> HIDE DEF q
<1>4. ~Asking(q) /\ ~Recovering(q) /\ ~Primed(q)
  BY <1>1, <1>2 DEF Asking, Recovering, Primed
<1>5. Base(q)
  <2>1. Placed(q)
    BY <1>1, <1>2, <1>3 DEF Base, Placed, Reader
  <2>2. Dropped(q)
    BY <1>1, <1>3, <1>4 DEF Dropped
  <2> QED BY <1>1, <2>1, <2>2 DEF Base
<1>6. Unknown(q) <=> Unknown(p)
  BY <1>1 DEF Unknown, Reader
<1>7. (Unknown(p) => p.known = SignedOut /\ p.session # "ready")
        /\ (p.known # SignedOut => p.known = p.noticed) => Read(q)
  BY <1>1, <1>3, <1>4, <1>6 DEF Read, Reader
<1>8. (p.start # Nil /\ p.start.primed => p.rec # Nil) => Trailing(q)
  BY <1>1, <1>4, NilAssumption DEF Trailing, Following, Followed, Caught
<1> QED BY <1>5, <1>6, <1>7, <1>8 DEF q

\* What has to hold when a start ends for what it was about.
Ending(p) ==
    /\ p.timer = "recover" => p.feed # Nil
    /\ p.users = 0 => p.feed = Nil /\ p.timer = Nil
    /\ Recovering(p) /\ ~p.joined => p.feed # Nil \/ p.users = 0
    /\ ~p.joined /\ p.feed # Nil => \A i \in 1..p.feed.cursor : Covered(p, i)

LEMMA EndedKeeps ==
  ASSUME NEW p, Base(p)
  PROVE  /\ Base(Ended(p))
         /\ Read(p) => Read(Ended(p))
         /\ Ending(p) => Trailing(Ended(p))
<1> DEFINE q == [p EXCEPT !.start = Nil, !.again = FALSE]
<1>1. /\ p \in Pages /\ q \in Pages /\ q.gen = p.gen /\ Store(q) = Store(p)
      /\ Reader(q) = Reader(p) /\ q.rec = p.rec /\ q.users = p.users /\ q.timer = p.timer
      /\ q.feed = p.feed /\ q.joined = p.joined /\ q.start = Nil
  BY DEF Base, Pages, Store, Reader
<1>2. Ended(p) = IF p.again /\ p.users > 0 THEN Start(q) ELSE q
  BY DEF Ended
<1> HIDE DEF q
<1>3. Base(q)
  BY <1>1 DEF Base, Placed, Dropped, Asking, Store, Reader
<1>4. Read(p) => Read(q)
  BY <1>1 DEF Read, Unknown, Asking, Store, Reader
<1>5. Ending(p) => Trailing(q)
  BY <1>1 DEF Ending, Trailing, Following, Followed, Caught, Covered, Asking, Recovering, Primed, Store
<1> QED BY <1>2, <1>3, <1>4, <1>5, StartKeeps

\* A start asked for during another waits for its end.
LEMMA RestartKeeps ==
  ASSUME NEW p, Base(p)
  PROVE  /\ Base(Restart(p))
         /\ Read(p) => Read(Restart(p))
         /\ Trailing(p) => Trailing(Restart(p))
<1>1. CASE p.users # 0 /\ p.start # Nil
  <2> DEFINE q == [p EXCEPT !.again = TRUE]
  <2>1. /\ q \in Pages /\ q.gen = p.gen /\ Store(q) = Store(p) /\ Ties(q) = Ties(p)
        /\ Reader(q) = Reader(p)
    BY DEF Base, Pages, Store, Ties, Reader
  <2>2. Restart(p) = q
    BY <1>1 DEF Restart
  <2> HIDE DEF q
  <2> QED BY <2>1, <2>2, SameKeeps
<1> QED BY <1>1, StartKeeps DEF Restart

\* What the end of a session read changes.
LEMMA SessionOverEffect ==
  ASSUME NEW p \in Pages, Around
  PROVE  /\ SessionOver(p) \in Pages /\ SessionOver(p).gen = p.gen
         /\ Store(SessionOver(p)) = Store(p)
         /\ SessionOver(p).known = p.known /\ SessionOver(p).seen = p.seen
         /\ SessionOver(p).noticed = p.noticed
         /\ SessionOver(p).session \in {p.session, "loading"}
         /\ SessionOver(p).me # Nil => SessionOver(p).me.cred = cookie
         /\ SessionOver(p).users = p.users /\ SessionOver(p).start = p.start
         /\ SessionOver(p).timer = p.timer /\ SessionOver(p).feed = p.feed
         /\ SessionOver(p).joined = p.joined
         /\ SessionOver(p).rec = Nil <=> p.rec = Nil
         /\ p.rec # Nil => SessionOver(p).rec.gen = p.rec.gen
<1> DEFINE q == [p EXCEPT !.me = Nil]
<1>1. /\ q \in Pages /\ q.me = Nil /\ q.gen = p.gen /\ Store(q) = Store(p) /\ q.known = p.known
      /\ q.seen = p.seen /\ q.noticed = p.noticed /\ q.session = p.session /\ Ties(q) = Ties(p)
  BY DEF Pages, Store, Ties
<1>2. CASE p.rec = Nil
  BY <1>1, <1>2 DEF SessionOver, Ties
<1>3. CASE p.rec # Nil
  <2>1. p.rec \in Recoveries
    BY <1>3 DEF Pages
  <2> DEFINE r(s) == [p.rec EXCEPT !.session = s]
             n(s) == [q EXCEPT !.rec = r(s)]
  <2>2. ASSUME NEW s \in {"running", "done"}
        PROVE  /\ n(s) \in Pages /\ n(s).me = Nil /\ n(s).gen = p.gen /\ Store(n(s)) = Store(p)
               /\ n(s).known = p.known /\ n(s).seen = p.seen /\ n(s).session = p.session
               /\ n(s).noticed = p.noticed
               /\ n(s).users = p.users /\ n(s).start = p.start /\ n(s).timer = p.timer
               /\ n(s).feed = p.feed /\ n(s).joined = p.joined
               /\ n(s).rec # Nil /\ n(s).rec.gen = p.rec.gen
    <3>1. r(s) \in Recoveries /\ r(s).gen = p.rec.gen
      BY <2>1 DEF Recoveries
    <3>2. r(s) # Nil
      BY <3>1, NilAssumption
    <3> HIDE DEF r, q
    <3> QED BY <1>1, <3>1, <3>2 DEF Pages, Store, Ties
  <2>3. SessionOver(p) = IF p.rec.session = "queued" THEN ReadSession(n("running"), FALSE) ELSE n("done")
    BY <1>3, <2>1, <1>1 DEF SessionOver, Ties, Pages, Recoveries
  <2> HIDE DEF n
  <2>4. CASE p.rec.session = "queued"
    <3> DEFINE m == n("running")
    <3>1. /\ m \in Pages /\ m.gen = p.gen /\ Store(m) = Store(p)
          /\ m.known = p.known /\ m.seen = p.seen /\ m.noticed = p.noticed
          /\ m.users = p.users /\ m.start = p.start /\ m.timer = p.timer
          /\ m.feed = p.feed /\ m.joined = p.joined
          /\ m.rec # Nil /\ m.rec.gen = p.rec.gen
      BY <2>2
    <3>2. SessionOver(p) = ReadSession(m, FALSE)
      BY <2>3, <2>4
    <3> HIDE DEF m
    <3> DEFINE w == ReadSession(m, FALSE)
    <3>3. /\ w \in Pages /\ w.gen = m.gen /\ Ties(w) = Ties(m) /\ Store(w) = Store(m)
          /\ w.known = m.known /\ w.seen = m.seen /\ w.noticed = m.noticed /\ w.session = "loading"
          /\ w.me # Nil /\ w.me.cred = cookie
      BY <3>1, ReadSessionEffect
    <3> HIDE DEF w
    <3>4. /\ w.users = m.users /\ w.start = m.start /\ w.timer = m.timer
          /\ w.feed = m.feed /\ w.joined = m.joined /\ w.rec = m.rec
      BY <3>3 DEF Ties
    <3>5. SessionOver(p) = w
      BY <3>2 DEF w
    <3> QED BY <3>1, <3>3, <3>4, <3>5, <1>3
  <2>5. CASE p.rec.session # "queued"
    BY <1>3, <2>2, <2>3, <2>5
  <2> QED BY <2>4, <2>5
<1> QED BY <1>2, <1>3

LEMMA SessionOverKeeps ==
  ASSUME NEW p, Base(p), Around
  PROVE  /\ Base(SessionOver(p))
         /\ Read(p) => Read(SessionOver(p))
         /\ Trailing(p) => Trailing(SessionOver(p))
<1> DEFINE q == SessionOver(p)
<1>1. /\ p \in Pages /\ q \in Pages /\ q.gen = p.gen /\ Store(q) = Store(p)
      /\ q.known = p.known /\ q.seen = p.seen /\ q.noticed = p.noticed
      /\ q.session \in {p.session, "loading"}
      /\ q.me # Nil => q.me.cred = cookie
      /\ q.users = p.users /\ q.start = p.start /\ q.timer = p.timer /\ q.feed = p.feed
      /\ q.joined = p.joined /\ (q.rec = Nil <=> p.rec = Nil)
      /\ p.rec # Nil => q.rec.gen = p.rec.gen
  BY SessionOverEffect DEF Base
<1>2. cookie \in Nat
  BY CredentialsAre DEF Around
<1> HIDE DEF q
<1>3. Base(q)
  BY <1>1, <1>2 DEF Base, Placed, Dropped, Asking, Store
<1>4. Read(p) => Read(q)
  BY <1>1 DEF Read, Unknown, Asking, Store
<1>5. Trailing(p) => Trailing(q)
  BY <1>1 DEF Trailing, Following, Followed, Caught, Covered, Asking, Recovering, Primed, Store
<1> QED BY <1>3, <1>4, <1>5 DEF q

\* A row makes the page read again what it has read.
LEMMA ConsumeKeeps ==
  ASSUME NEW p, Base(p), Read(p), Following(p), Followed(p), Around
  PROVE  Base(Consume(p)) /\ Read(Consume(p)) /\ Trailing(Consume(p))
         /\ Reader(Consume(p)) = Reader(p) /\ Ties(Consume(p)) = Ties(p)
<1>1. CASE p.data.status = "idle"
  <2>1. \A i : Covered(p, i)
    BY <1>1 DEF Covered, Base, Dropped
  <2> QED BY <1>1, <2>1 DEF Consume, Trailing, Caught
<1>2. CASE p.data.status # "idle"
  <2>1. ~Unknown(p)
    BY <1>2 DEF Read, NoData
  <2>2. Consume(p) = Load(p)
    BY <1>2 DEF Consume
  <2>3. Base(Load(p)) /\ Read(Load(p)) /\ Trailing(Load(p))
    BY <2>1, LoadBase, LoadRead, LoadTail
  <2>4. Reader(Load(p)) = Reader(p) /\ Ties(Load(p)) = Ties(p)
    BY LoadEffect DEF Base
  <2> QED BY <2>2, <2>3, <2>4
<1> QED BY <1>1, <1>2

\* The answer to a read: what was asked for meanwhile is asked for now.
LEMMA DeliveredKeeps ==
  ASSUME Fit(page), Around, page.load # Nil, NEW ok \in BOOLEAN
  PROVE  Fit(Delivered(ok))
<1> DEFINE read == page.load
           data == IF read.gen # page.gen THEN page.data
                   ELSE IF ok THEN [status |-> "ready", at |-> read.at, cred |-> read.cred]
                   ELSE [page.data EXCEPT !.status = "error"]
           asked == IF page.rec.data = "queued" /\ page.queued /\ page.rec.gen = page.gen
                    THEN "running" ELSE "done"
           rec == IF page.rec = Nil THEN Nil ELSE [page.rec EXCEPT !.data = asked]
           freed == [page EXCEPT !.data = data, !.load = Nil, !.queued = FALSE, !.rec = rec]
<1>1. page \in Pages /\ read \in Reads /\ page.data \in Contents /\ Base(page)
  BY DEF Fit, Base, Pages
<1>2. Delivered(ok) = IF page.queued THEN Load(freed) ELSE freed
  BY DEF Delivered
<1>3. /\ data \in Contents
      /\ ~Asking(page) => data = NoData
      /\ Asking(page) /\ ok => data.status = "ready" /\ data.at = read.at /\ data.cred = read.cred
      /\ Asking(page) /\ ~ok => data.status = "error" /\ data.at = page.data.at
                                /\ data.cred = page.data.cred
  BY <1>1, CredentialsAre DEF Reads, Contents, Base, Dropped, Asking
<1>4. /\ rec \in Recoveries \union {Nil} /\ (rec = Nil <=> page.rec = Nil)
      /\ page.rec # Nil => rec.gen = page.rec.gen
  <2>1. CASE page.rec = Nil
    BY <2>1
  <2>2. CASE page.rec # Nil
    <3>1. page.rec \in Recoveries
      BY <1>1, <2>2 DEF Pages
    <3>2. rec \in Recoveries /\ rec.gen = page.rec.gen
      BY <3>1, <2>2 DEF Recoveries
    <3> QED BY <2>2, <3>2, NilAssumption
  <2> QED BY <2>1, <2>2
<1> HIDE DEF data, rec
<1>5. freed \in Pages /\ freed.data = data /\ freed.rec = rec
  BY <1>1, <1>3, <1>4 DEF Pages
<1>6. /\ freed.load = Nil /\ ~freed.queued /\ freed.gen = page.gen /\ Reader(freed) = Reader(page)
      /\ freed.users = page.users /\ freed.start = page.start /\ freed.timer = page.timer
      /\ freed.feed = page.feed /\ freed.joined = page.joined
  BY <1>1 DEF Pages, Reader
<1> HIDE DEF freed
<1>7. NoData.status = "idle" /\ NoData.cred = 0 /\ NoData.at = 0 /\ cookie \in Nat /\ Len(log) \in Nat
  BY CredentialsAre DEF NoData, Around
<1>8. ~Asking(freed) /\ (Unknown(freed) <=> Unknown(page))
  BY <1>6 DEF Asking, Unknown, Reader
<1>9. Base(freed)
  <2>1. Placed(freed)
    <3>1. data.cred <= cookie /\ data.at <= Len(log)
      BY <1>1, <1>3, <1>7 DEF Base, Placed, Asking
    <3> QED BY <1>1, <1>4, <1>5, <1>6, <3>1 DEF Base, Placed, Reader
  <2>2. Dropped(freed)
    <3>1. data.status \in {"idle", "ready", "error"} /\ (data.status = "idle" => data = NoData)
      BY <1>3, <1>7, <1>1 DEF Base, Dropped
    <3>2. data.status = "ready" => data.cred # 0
      BY <1>1, <1>3, <1>7, CredentialsAre DEF Reads
    <3> QED BY <1>5, <1>6, <1>8, <3>1, <3>2 DEF Dropped
  <2> QED BY <1>5, <2>1, <2>2 DEF Base
<1>10. Read(freed)
  <2>1. data.cred # 0 => data.cred >= page.noticed
    BY <1>3, <1>7 DEF Fit, Read
  <2>2. Unknown(page) => data = NoData
    BY <1>3 DEF Fit, Read
  <2> QED BY <1>5, <1>6, <1>8, <2>1, <2>2 DEF Fit, Read, Reader
<1>11. Following(freed) /\ Followed(freed)
  BY <1>4, <1>5, <1>6 DEF Fit, Trailing, Following, Followed, Recovering, Primed
<1>12. CASE page.queued
  <2>1. ~Unknown(freed)
    BY <1>8, <1>12 DEF Fit, Read
  <2> QED BY <1>2, <1>9, <1>10, <1>11, <1>12, <2>1, LoadBase, LoadRead, LoadTail DEF Fit
<1>13. CASE ~page.queued
  <2>1. ASSUME NEW i, Covered(page, i) PROVE Covered(freed, i)
    <3>1. CASE ~Asking(page)
      BY <1>3, <1>5, <1>7, <1>8, <3>1 DEF Covered
    <3>2. CASE Asking(page) /\ ok
      <4>1. Meets(read, i)
        BY <1>13, <2>1, <3>2 DEF Covered
      <4> QED BY <1>3, <1>5, <1>8, <3>2, <4>1 DEF Covered, Meets, Hidden
    <3>3. CASE Asking(page) /\ ~ok
      BY <1>3, <1>5, <1>8, <3>3 DEF Covered
    <3> QED BY <3>1, <3>2, <3>3
  <2>2. Caught(freed)
    BY <1>4, <1>5, <1>6, <2>1 DEF Fit, Trailing, Caught, Recovering, Primed
  <2> QED BY <1>2, <1>9, <1>10, <1>11, <1>13, <2>2 DEF Fit, Trailing
<1> QED BY <1>12, <1>13

LEMMA ConnectedKeeps ==
  ASSUME NEW p \in Pages
  PROVE  /\ Connected(p) \in Pages /\ (Fit(p) => Fit(Connected(p)))
         /\ Connected(p).feed = p.feed
<1> DEFINE q == Connected(p)
           shown == IF p.ready THEN "live" ELSE "recovering"
<1>0. q = [p EXCEPT !.up = TRUE, !.status = shown] /\ shown \in {"live", "recovering"}
  BY DEF Connected
<1> HIDE DEF q, shown
<1>1. /\ q \in Pages /\ q.gen = p.gen /\ Store(q) = Store(p) /\ Ties(q) = Ties(p)
      /\ Reader(q) = Reader(p) /\ q.feed = p.feed
  BY <1>0 DEF Pages, Store, Ties, Reader
<1> QED BY <1>1, SameKeeps DEF Fit, q

LEMMA InterruptedKeeps ==
  ASSUME NEW p \in Pages
  PROVE  Interrupted(p) \in Pages /\ (Fit(p) => Fit(Interrupted(p)))
<1> DEFINE q == Interrupted(p)
<1>1. /\ q \in Pages /\ q.gen = p.gen /\ Store(q) = Store(p) /\ Ties(q) = Ties(p)
      /\ Reader(q) = Reader(p)
  BY DEF Interrupted, Pages, Store, Ties, Reader
<1> HIDE DEF q
<1> QED BY <1>1, SameKeeps DEF Fit, q

\* A page whose feed is another.
With(p, f) == [p EXCEPT !.feed = f]

LEMMA WithIs ==
  ASSUME NEW p \in Pages, NEW f \in Feeds
  PROVE  /\ With(p, f) \in Pages /\ With(p, f).feed = f /\ f # Nil
         /\ With(p, f).gen = p.gen /\ Store(With(p, f)) = Store(p)
         /\ Reader(With(p, f)) = Reader(p)
         /\ With(p, f).rec = p.rec /\ With(p, f).users = p.users /\ With(p, f).start = p.start
         /\ With(p, f).timer = p.timer /\ With(p, f).joined = p.joined
<1>1. f # Nil
  BY NilAssumption
<1> QED BY <1>1 DEF With, Pages, Store, Reader

\* A feed may move on over rows that are covered.
LEMMA WithKeeps ==
  ASSUME NEW p, Fit(p), p.feed # Nil, NEW f \in Feeds,
         f.cursor <= Len(log), f.sent <= Len(log)
  PROVE  /\ Base(With(p, f)) /\ Read(With(p, f)) /\ Following(With(p, f)) /\ Followed(With(p, f))
         /\ (\A i \in (p.feed.cursor + 1)..f.cursor : Covered(p, i)) => Fit(With(p, f))
<1> DEFINE q == With(p, f)
<1>1. /\ p \in Pages /\ q \in Pages /\ q.feed = f /\ f # Nil /\ q.gen = p.gen
      /\ Store(q) = Store(p) /\ Reader(q) = Reader(p) /\ q.rec = p.rec /\ q.users = p.users
      /\ q.start = p.start /\ q.timer = p.timer /\ q.joined = p.joined
  BY WithIs DEF Fit, Base
<1>2. p.feed.cursor \in Nat /\ f.cursor \in Nat
  BY <1>1 DEF Pages, Feeds
<1> HIDE DEF q
<1>3. Base(q)
  BY <1>1 DEF Fit, Base, Placed, Dropped, Asking, Store, Reader
<1>4. Read(q)
  BY <1>1 DEF Fit, Read, Unknown, Asking, Store, Reader
<1>5. Following(q) /\ Followed(q)
  BY <1>1 DEF Fit, Trailing, Following, Followed, Recovering, Primed
<1>6. ASSUME \A i \in (p.feed.cursor + 1)..f.cursor : Covered(p, i) PROVE Fit(q)
  <2>1. \A i : Covered(q, i) <=> Covered(p, i)
    BY <1>1 DEF Covered, Asking, Store
  <2>2. Caught(q)
    <3>1. ~p.joined => \A i \in 1..f.cursor : Covered(p, i)
      BY <1>2, <1>6 DEF Fit, Trailing, Caught
    <3>2. ~Primed(q)
      BY <1>1 DEF Fit, Trailing, Following, Primed
    <3> QED BY <1>1, <2>1, <3>1, <3>2 DEF Caught
  <2> QED BY <1>3, <1>4, <1>5, <2>2 DEF Fit, Trailing
<1> QED BY <1>3, <1>4, <1>5, <1>6 DEF q

\* The lesser of two numbers.
LEMMA MinOfTwo ==
  ASSUME NEW a \in Nat, NEW b \in Nat
  PROVE  Min({a, b}) = IF a <= b THEN a ELSE b
<1> DEFINE m == IF a <= b THEN a ELSE b
<1>1. m \in {a, b} /\ \A y \in {a, b} : m <= y
  OBVIOUS
<1>2. ASSUME NEW x \in {a, b}, \A y \in {a, b} : x <= y PROVE x = m
  BY <1>2
<1> HIDE DEF m
<1> QED BY <1>1, <1>2 DEF Min, m

\* A start that has not read its position yet ends as it began.
LEMMA UnprimedEnds ==
  ASSUME NEW p, Fit(p), ~Primed(p)
  PROVE  Fit(Ended(p))
<1>1. Ending(p)
  BY DEF Fit, Trailing, Following, Followed, Caught, Ending
<1> QED BY <1>1, EndedKeeps DEF Fit

\* A page without a recovery, whatever its start was told.
Resting(p) ==
    /\ Base(p) /\ Read(p) /\ p.rec = Nil
    /\ p.start # Nil => p.feed = Nil
    /\ p.timer = "recover" => p.feed # Nil
    /\ p.users = 0 => p.feed = Nil /\ p.timer = Nil
    /\ ~p.joined /\ p.feed # Nil => \A i \in 1..p.feed.cursor : Covered(p, i)

\* The start that waited for the recovery may end.
LEMMA RestingEnds == ASSUME NEW p, Resting(p) PROVE Fit(Ended(p))
<1>1. Ending(p)
  BY DEF Resting, Ending, Recovering
<1> QED BY <1>1, EndedKeeps DEF Fit, Resting

LEMMA RestingSchedules ==
  ASSUME NEW p, Resting(p), NEW retry \in {"start", "recover"}, retry = "recover" => p.feed # Nil
  PROVE  Resting(Schedule(p, retry))
<1> DEFINE q == Schedule(p, retry)
<1>1. /\ Base(q) /\ Read(q) /\ q.gen = p.gen /\ Store(q) = Store(p) /\ q.rec = p.rec
      /\ q.users = p.users /\ q.start = p.start /\ q.feed = p.feed /\ q.joined = p.joined
      /\ q.timer \in {p.timer, retry} /\ (p.users = 0 => q.timer = p.timer)
  BY ScheduleKeeps DEF Resting
<1> HIDE DEF q
<1> QED BY <1>1 DEF Resting, Covered, Asking, Store, q

\* What a start makes of the end of the recovery it waited for.
LEMMA FollowKeeps ==
  ASSUME NEW p, Resting(p), NEW ok \in BOOLEAN, NEW cursor \in Nat, cursor <= Len(log),
         ok /\ ~p.joined /\ Primed(p) => \A i \in 1..cursor : Covered(p, i)
  PROVE  Fit(Follow(p, ok, cursor))
<1>1. CASE p.start = Nil \/ ~p.start.primed
  BY <1>1 DEF Follow, Resting, Fit, Trailing, Following, Followed, Caught, Recovering, Primed
<1>2. CASE p.start # Nil /\ p.start.primed /\ (p.start.gen # p.gen \/ p.users = 0)
  BY <1>2, RestingEnds DEF Follow
<1>3. CASE p.start # Nil /\ p.start.primed /\ ~(p.start.gen # p.gen \/ p.users = 0) /\ ~ok
  BY <1>3, RestingSchedules, RestingEnds DEF Follow
<1>4. CASE p.start # Nil /\ p.start.primed /\ ~(p.start.gen # p.gen \/ p.users = 0) /\ ok
  <2> DEFINE f == [mode |-> "sse", net |-> "opening", opened |-> FALSE,
                   failing |-> FALSE, cursor |-> cursor, sent |-> cursor]
             q == [p EXCEPT !.status = "connecting", !.feed = f]
  <2>1. Follow(p, ok, cursor) = Ended(q)
    BY <1>4 DEF Follow
  <2>2. f \in Feeds /\ f.cursor = cursor /\ f.sent = cursor
    BY DEF Feeds
  <2>3. f # Nil
    BY <2>2, NilAssumption
  <2> HIDE DEF f
  <2>4. /\ q \in Pages /\ q.feed = f /\ q.gen = p.gen /\ Store(q) = Store(p)
        /\ Reader(q) = Reader(p) /\ q.rec = p.rec /\ q.users = p.users /\ q.start = p.start
        /\ q.timer = p.timer /\ q.joined = p.joined
    BY <2>2 DEF Resting, Base, Pages, Store, Reader
  <2> HIDE DEF q
  <2>5. Base(q)
    BY <2>2, <2>4 DEF Resting, Base, Placed, Dropped, Asking, Store, Reader
  <2>6. Read(q)
    BY <2>4 DEF Resting, Read, Unknown, Asking, Store, Reader
  <2>7. ~p.joined => \A i \in 1..cursor : Covered(q, i)
    BY <1>4, <2>4 DEF Primed, Covered, Asking, Store
  <2>8. Ending(q)
    BY <1>4, <2>2, <2>3, <2>4, <2>7 DEF Ending, Resting, Recovering
  <2> QED BY <2>1, <2>5, <2>6, <2>8, EndedKeeps DEF Fit
<1> QED BY <1>1, <1>2, <1>3, <1>4

-----------------------------------------------------------------------------
(* The steps.                                                              *)

\* What every step may use of the invariant.
LEMMA FeedBasics ==
  ASSUME FeedInv
  PROVE  /\ page \in Pages /\ Base(page) /\ Read(page) /\ Trailing(page) /\ Around
         /\ Len(log) \in Nat /\ cookie \in Nat /\ cookie \in Credentials
         /\ faults \in 0..MaxFaults /\ leaves \in 0..MaxLeaves
         /\ MaxRows \in Nat /\ MaxFaults \in Nat /\ MaxLeaves \in Nat /\ PageSize \in Nat \ {0}
BY FeedBounds, CredentialsAre DEF FeedInv, Fit, FeedTypeOK, Around

\* A step of the page alone.
LEMMA PageSteps ==
  ASSUME FeedInv, UNCHANGED World, Fit(page'), faults' \in 0..MaxFaults, leaves' \in 0..MaxLeaves
  PROVE  FeedInv'
<1>1. log' = log /\ cookie' = cookie
  BY DEF World
<1>2. page' \in Pages
  BY DEF Fit, Base
<1>3. FeedTypeOK'
  BY <1>1, <1>2 DEF FeedInv, FeedTypeOK, Credentials
<1>4. Fit(page)'
  <2>1. Base(page)' /\ Read(page)'
    BY <1>1 DEF Fit, Base, Placed, Dropped, Asking, Read, Unknown, Identity, Pages,
                Contents, Reads, SessionReads, Recoveries, Starts, Feeds, Credentials, NoData, SignedOut
  <2>2. (Following(page) /\ Followed(page))'
    BY DEF Fit, Trailing, Following, Followed, Recovering, Primed
  <2>3. ASSUME NEW i, Covered(page', i) PROVE Covered(page, i)'
    BY <1>1, <2>3 DEF Covered, Asking, Meets, Hidden, Visible
  <2>4. Caught(page)'
    BY <2>3 DEF Fit, Trailing, Caught, Recovering, Primed
  <2> QED BY <2>1, <2>2, <2>4 DEF Fit, Trailing
<1> QED BY <1>3, <1>4 DEF FeedInv

\* The log grows, or the browser has a later credential.
LEMMA WorldGrows ==
  ASSUME FeedInv, UNCHANGED <<page, faults, leaves>>,
         log' \in Seq({"shared", "private"}), Len(log) <= Len(log'),
         \A i \in 1..Len(log) : log'[i] = log[i],
         cookie' \in Credentials, cookie <= cookie'
  PROVE  FeedInv'
<1>0. page \in Pages /\ Base(page) /\ Read(page) /\ Trailing(page) /\ Len(log) \in Nat /\ cookie \in Nat
  BY FeedBasics
<1>1. Len(log') \in Nat /\ cookie' \in Nat
  BY CredentialsAre
<1>2. FeedTypeOK'
  BY DEF FeedInv, FeedTypeOK, Credentials, Pages, Contents, Reads, SessionReads, Recoveries, Starts, Feeds
<1>3. /\ page.data \in Contents
      /\ page.load # Nil => page.load \in Reads /\ page.load.cred \in Nat
      /\ page.me # Nil => page.me \in SessionReads /\ page.me.cred \in Nat
      /\ page.start # Nil => page.start \in Starts
      /\ page.feed # Nil => page.feed \in Feeds
      /\ page.seen \in Nat /\ page.noticed \in Nat
  BY <1>0, CredentialsAre DEF Pages, Reads, SessionReads
<1>4. Placed(page)'
  BY <1>0, <1>1, <1>3 DEF Base, Placed, Contents, Reads, Starts, Feeds
<1>5. Dropped(page)' /\ Read(page)' /\ (Following(page) /\ Followed(page))'
  BY <1>0 DEF Base, Dropped, Asking, Read, Unknown, Identity, NoData, SignedOut,
              Trailing, Following, Followed, Recovering, Primed
<1>6. ASSUME NEW i \in 1..Len(log), NEW c PROVE Visible(c, i)' <=> Visible(c, i)
  BY DEF Visible
<1>7. ASSUME NEW i \in 1..Len(log), NEW r, r.cred \in Nat, Meets(r, i) PROVE Meets(r, i)'
  BY <1>0, <1>1, <1>6, <1>7 DEF Meets, Hidden
<1>8. ASSUME NEW i \in 1..Len(log), Covered(page, i) PROVE Covered(page, i)'
  BY <1>3, <1>7, <1>8 DEF Covered, Asking, Contents
<1>9. Caught(page)'
  <2>1. page.feed # Nil => page.feed.cursor \in Nat /\ page.feed.cursor <= Len(log)
    BY <1>0, <1>3 DEF Base, Placed, Feeds
  <2>2. page.start # Nil => page.start.cursor \in Nat /\ page.start.cursor <= Len(log)
    BY <1>0, <1>3 DEF Base, Placed, Starts
  <2> QED BY <1>0, <1>8, <2>1, <2>2 DEF Trailing, Caught, Recovering, Primed
<1>10. (page \in Pages)'
  BY <1>2 DEF FeedTypeOK
<1> QED BY <1>2, <1>4, <1>5, <1>9, <1>10 DEF FeedInv, Fit, Base, Trailing

LEMMA LogRowKeeps == ASSUME FeedInv, NEW kind \in {"shared", "private"}, LogRow(kind) PROVE FeedInv'
<1>1. log \in Seq({"shared", "private"}) /\ cookie \in Nat /\ cookie \in Credentials
  BY FeedBasics DEF Around
<1>2. log' = Append(log, kind) /\ UNCHANGED <<cookie, page, faults, leaves>>
  BY DEF LogRow
<1> QED BY <1>1, <1>2, WorldGrows

LEMMA SwitchCredentialKeeps == ASSUME FeedInv, SwitchCredential PROVE FeedInv'
<1>1. log \in Seq({"shared", "private"}) /\ cookie \in Nat /\ Len(log) \in Nat
  BY FeedBasics DEF Around
<1> QED BY <1>1, WorldGrows DEF SwitchCredential

LEMMA RefreshSessionKeeps == ASSUME FeedInv, NEW b \in BOOLEAN, RefreshSession(b) PROVE FeedInv'
<1>1. page' = ReadSession(page, b) /\ UNCHANGED <<World, faults, leaves>>
  BY DEF RefreshSession
<1>2. Fit(page')
  BY <1>1, FeedBasics, ReadSessionKeeps DEF Fit
<1> QED BY <1>1, <1>2, FeedBasics, PageSteps

LEMMA RetainKeeps == ASSUME FeedInv, Retain PROVE FeedInv'
<1> DEFINE joins == page.joined \/ page.rec # Nil \/ (page.start # Nil /\ page.start.gen # page.gen)
           q == [page EXCEPT !.users = 1, !.joined = joins]
<1>1. page.users = 0 /\ page' = Start(q) /\ UNCHANGED <<World, faults, leaves>>
  BY DEF Retain
<1>2. page \in Pages /\ Base(page) /\ Read(page) /\ Trailing(page) /\ joins \in BOOLEAN
  BY FeedBasics DEF Pages
<1>3. (~joins => ~page.joined /\ page.rec = Nil)
  OBVIOUS
<1> HIDE DEF joins
<1>4. /\ q \in Pages /\ q.users = 1 /\ q.joined = joins /\ q.gen = page.gen /\ Store(q) = Store(page)
      /\ Reader(q) = Reader(page) /\ q.rec = page.rec /\ q.start = page.start /\ q.timer = page.timer
      /\ q.feed = page.feed
  BY <1>2 DEF Pages, Store, Reader
<1> HIDE DEF q
<1>5. Base(q)
  BY <1>2, <1>4 DEF Base, Placed, Dropped, Asking, Store, Reader
<1>6. Read(q)
  BY <1>2, <1>4 DEF Read, Unknown, Asking, Store, Reader
<1>7. Trailing(q)
  BY <1>1, <1>2, <1>3, <1>4, NilAssumption DEF Trailing, Following, Followed, Caught, Recovering, Primed
<1>8. Fit(page')
  BY <1>1, <1>5, <1>6, <1>7, StartKeeps DEF Fit
<1> QED BY <1>1, <1>8, FeedBasics, PageSteps

\* A page nobody uses has no feed to cover.
LEMMA LeaveKeeps == ASSUME FeedInv, Leave PROVE FeedInv'
<1> DEFINE q == [page EXCEPT !.users = 0, !.timer = Nil, !.ready = FALSE, !.up = FALSE,
                          !.feed = Nil, !.status = "idle"]
<1>1. page' = q /\ leaves < MaxLeaves /\ leaves' = leaves + 1 /\ UNCHANGED <<World, faults>>
  BY DEF Leave
<1>2. page \in Pages /\ Base(page) /\ Read(page) /\ Trailing(page)
  BY FeedBasics
<1>4. /\ q \in Pages /\ q.users = 0 /\ q.timer = Nil /\ q.feed = Nil
      /\ q.joined = page.joined /\ q.gen = page.gen /\ Store(q) = Store(page)
      /\ Reader(q) = Reader(page) /\ q.rec = page.rec /\ q.start = page.start
  BY <1>2 DEF Pages, Store, Reader
<1> HIDE DEF q
<1>5. Base(q)
  BY <1>2, <1>4 DEF Base, Placed, Dropped, Asking, Store, Reader
<1>6. Read(q)
  BY <1>2, <1>4 DEF Read, Unknown, Asking, Store, Reader
<1>7. Trailing(q)
  BY <1>2, <1>4, NilAssumption
  DEF Trailing, Following, Followed, Caught, Covered, Asking, Recovering, Primed, Store
<1>8. leaves' \in 0..MaxLeaves
  BY <1>1, FeedBasics
<1> QED BY <1>1, <1>5, <1>6, <1>7, <1>8, FeedBasics, PageSteps DEF Fit

\* Only a page that knows its reader asks of itself.
LEMMA EnsureKeeps == ASSUME FeedInv, Ensure PROVE FeedInv'
<1>1. page' = Load(page) /\ page.session = "ready" /\ UNCHANGED <<World, faults, leaves>>
  BY DEF Ensure
<1>2. ~Unknown(page) /\ Base(page) /\ Read(page) /\ Following(page) /\ Followed(page) /\ Around
  BY <1>1, FeedBasics DEF Read, Trailing
<1>3. Fit(page')
  BY <1>1, <1>2, LoadBase, LoadRead, LoadTail DEF Fit
<1> QED BY <1>1, <1>3, FeedBasics, PageSteps

LEMMA SpendKeeps == ASSUME FeedInv, Spend PROVE faults' \in 0..MaxFaults
BY FeedBasics DEF Spend

LEMMA DeliverKeeps == ASSUME FeedInv, NEW ok \in BOOLEAN, Deliver(ok) PROVE FeedInv'
<1>1. page.load # Nil /\ page' = Delivered(ok) /\ UNCHANGED <<World, leaves>>
  BY DEF Deliver
<1>2. Fit(page')
  BY <1>1, FeedBasics, DeliveredKeeps DEF Fit
<1>3. faults' \in 0..MaxFaults
  BY FeedBasics, SpendKeeps DEF Deliver
<1> QED BY <1>1, <1>2, <1>3, FeedBasics, PageSteps

\* A page that learns who its reader is, and is told the same, keeps what it
\* has read; a reader unknown to it shows nothing.
LEMMA LearnSessionKeeps == ASSUME FeedInv, LearnSession PROVE FeedInv'
<1> DEFINE told == page.me.cred
           who == Identity(told)
           changed == page.me.forced \/ page.known # who
           known == [page EXCEPT !.known = who, !.session = "ready", !.seen = told]
           later == known.users > 0
           m == [page.me EXCEPT !.reloading = TRUE, !.restart = later]
           sure == [known EXCEPT !.noticed = told, !.me = m]
           purged == Purge(sure)
<1>1. /\ page.me # Nil /\ UNCHANGED <<World, faults, leaves>>
      /\ page' = IF ~changed THEN SessionOver(known)
                 ELSE IF page.data.status = "idle"
                 THEN Purge([known EXCEPT !.noticed = page.me.cred, !.me.reloading = TRUE,
                                          !.me.restart = known.users > 0])
                 ELSE Load(Purge([known EXCEPT !.noticed = page.me.cred, !.me.reloading = TRUE,
                                               !.me.restart = known.users > 0]))
  BY DEF LearnSession
<1>2. page \in Pages /\ Base(page) /\ Read(page) /\ Trailing(page) /\ Around
  BY FeedBasics
<1>3. /\ page.me \in SessionReads /\ told \in Credentials /\ told \in Nat
      /\ page.seen <= told /\ page.noticed <= told /\ told <= cookie /\ cookie \in Nat
      /\ page.seen \in Credentials /\ page.seen \in Nat
  BY <1>1, <1>2, FeedBasics, CredentialsAre DEF Pages, SessionReads, Base, Placed
<1>4. who \in Credentials \union {SignedOut}
  BY <1>3 DEF Identity
<1> HIDE DEF who
<1>5. /\ known \in Pages /\ known.known = who /\ known.session = "ready" /\ known.seen = told
      /\ known.gen = page.gen /\ Store(known) = Store(page) /\ Ties(known) = Ties(page)
      /\ known.me = page.me /\ known.noticed = page.noticed
  BY <1>2, <1>3, <1>4 DEF Pages, Store, Ties
<1>6. page' = IF ~changed THEN SessionOver(known)
              ELSE IF page.data.status = "idle" THEN purged ELSE Load(purged)
  <2>1. [known EXCEPT !.noticed = page.me.cred, !.me.reloading = TRUE,
                      !.me.restart = known.users > 0] = sure
    BY <1>5, <1>3 DEF Pages, SessionReads
  <2> QED BY <1>1, <2>1
<1>7. m \in SessionReads /\ m # Nil /\ m.cred = told
  <2>1. later \in BOOLEAN
    OBVIOUS
  <2> HIDE DEF later
  <2>2. m \in SessionReads /\ m.cred = told
    BY <1>3, <2>1 DEF SessionReads
  <2> QED BY <2>2, NilAssumption
<1> HIDE DEF known, m
<1>8. ~Unknown(known)
  BY <1>5 DEF Unknown, who
<1>9. Base(known)
  BY <1>1, <1>2, <1>3, <1>5 DEF Base, Placed, Dropped, Asking, Store, Ties
<1>10. Trailing(known)
  BY <1>2, <1>5
  DEF Trailing, Following, Followed, Caught, Covered, Asking, Recovering, Primed, Store, Ties
<1>11. CASE ~changed
  <2>1. who = page.known /\ known.known = page.known
    BY <1>5, <1>11
  <2>2. known.data = page.data /\ known.load = page.load /\ (Asking(known) <=> Asking(page))
    BY <1>5 DEF Store, Asking
  <2>3. Read(known)
    BY <1>2, <1>5, <1>8, <2>1, <2>2 DEF Read
  <2>4. Fit(page')
    BY <1>2, <1>6, <1>9, <1>10, <1>11, <2>3, SessionOverKeeps DEF Fit
  <2> QED BY <1>1, <2>4, FeedBasics, PageSteps
<1>12. CASE changed
  <2>1. /\ sure \in Pages /\ sure.me = m /\ sure.gen = known.gen /\ Store(sure) = Store(known)
        /\ Ties(sure) = Ties(known) /\ sure.known = known.known /\ sure.seen = known.seen
        /\ sure.session = known.session /\ sure.noticed = told
    BY <1>3, <1>5, <1>7 DEF Pages, Store, Ties
  <2> HIDE DEF sure
  <2>2. Base(sure)
    BY <1>3, <1>5, <1>7, <1>9, <2>1 DEF Base, Placed, Dropped, Asking, Store, Ties
  <2>3. ~Unknown(sure)
    BY <1>8, <2>1 DEF Unknown
  <2>4. sure.start # Nil /\ sure.start.primed => sure.rec # Nil
    BY <1>10, <2>1 DEF Trailing, Following, Ties
  <2>5. Base(purged) /\ Read(purged) /\ Trailing(purged) /\ ~Unknown(purged)
    <3>1. sure.known # SignedOut => sure.known = sure.noticed
      BY <1>5, <2>1 DEF who, Identity
    <3> QED BY <1>2, <2>2, <2>3, <2>4, <3>1, PurgeKeeps
  <2> HIDE DEF purged
  <2>6. Base(Load(purged)) /\ Read(Load(purged)) /\ Trailing(Load(purged))
    BY <1>2, <2>5, LoadBase, LoadRead, LoadTail DEF Trailing
  <2>7. Fit(page')
    BY <1>6, <1>12, <2>5, <2>6 DEF Fit
  <2> QED BY <1>1, <2>7, FeedBasics, PageSteps
<1> QED BY <1>11, <1>12

\* A member whose session cannot be read is shown nothing.
LEMMA LoseSessionKeeps == ASSUME FeedInv, LoseSession PROVE FeedInv'
<1> DEFINE lost == [page EXCEPT !.known = SignedOut, !.session = "error"]
           failed == SessionOver(lost)
           gone == [failed EXCEPT !.noticed = page.me.cred]
<1>1. /\ UNCHANGED <<World, leaves>> /\ Spend /\ page.me # Nil
      /\ page' = IF page.known = SignedOut THEN failed ELSE Restart(Purge(gone))
  BY DEF LoseSession
<1>2. page \in Pages /\ Base(page) /\ Read(page) /\ Trailing(page) /\ Around
  BY FeedBasics
<1>3. /\ lost \in Pages /\ lost.known = SignedOut /\ lost.session = "error" /\ lost.seen = page.seen
      /\ lost.gen = page.gen /\ Store(lost) = Store(page) /\ Ties(lost) = Ties(page)
      /\ lost.me = page.me /\ lost.noticed = page.noticed
  BY <1>2 DEF Pages, Store, Ties
<1> HIDE DEF lost
<1>4. Base(lost)
  BY <1>2, <1>3 DEF Base, Placed, Dropped, Asking, Store, Ties
<1>5. Trailing(lost)
  BY <1>2, <1>3
  DEF Trailing, Following, Followed, Caught, Covered, Asking, Recovering, Primed, Store, Ties
<1>6. CASE page.known = SignedOut
  <2>1. Read(lost)
    BY <1>2, <1>3, <1>6 DEF Read, Unknown, Asking, Store
  <2>2. Fit(page')
    BY <1>1, <1>2, <1>4, <1>5, <1>6, <2>1, SessionOverKeeps DEF Fit
  <2> QED BY <1>1, <2>2, FeedBasics, SpendKeeps, PageSteps
<1>7. CASE page.known # SignedOut
  <2>1. /\ Base(failed) /\ Trailing(failed) /\ failed.known = SignedOut
        /\ failed.session \in {"error", "loading"}
        /\ failed.me # Nil => failed.me.cred = cookie
    BY <1>2, <1>3, <1>4, <1>5, SessionOverEffect, SessionOverKeeps
  <2>2. page.me.cred \in Credentials /\ page.me.cred <= cookie
    BY <1>1, <1>2 DEF Pages, SessionReads, Base, Placed
  <2> HIDE DEF failed
  <2>3. /\ gone \in Pages /\ gone.noticed = page.me.cred /\ gone.known = SignedOut
        /\ gone.session \in {"error", "loading"} /\ gone.seen = failed.seen /\ gone.me = failed.me
        /\ gone.gen = failed.gen /\ Store(gone) = Store(failed) /\ Ties(gone) = Ties(failed)
    BY <2>1, <2>2 DEF Base, Pages, Store, Ties
  <2> HIDE DEF gone
  <2>4. Base(gone)
    BY <2>1, <2>2, <2>3 DEF Base, Placed, Dropped, Asking, Store, Ties
  <2>5. gone.start # Nil /\ gone.start.primed => gone.rec # Nil
    BY <2>1, <2>3 DEF Trailing, Following, Ties
  <2>6. Base(Purge(gone)) /\ Read(Purge(gone)) /\ Trailing(Purge(gone))
    BY <1>2, <2>3, <2>4, <2>5, PurgeKeeps
  <2>7. Fit(page')
    BY <1>1, <1>7, <2>6, RestartKeeps DEF Fit
  <2> QED BY <1>1, <2>7, FeedBasics, SpendKeeps, PageSteps
<1> QED BY <1>6, <1>7

LEMMA ReloadedKeeps == ASSUME FeedInv, Reloaded PROVE FeedInv'
<1> DEFINE q == IF page.me.restart THEN Restart(page) ELSE page
<1>1. page' = SessionOver(q) /\ UNCHANGED <<World, faults, leaves>>
  BY DEF Reloaded
<1>2. Base(q) /\ Read(q) /\ Trailing(q)
  BY FeedBasics, RestartKeeps
<1> HIDE DEF q
<1>3. Fit(page')
  BY <1>1, <1>2, FeedBasics, SessionOverKeeps DEF Fit
<1> QED BY <1>1, <1>3, FeedBasics, PageSteps

\* A start reads its position, then the data.
LEMMA PrimeKeeps == ASSUME FeedInv, Prime PROVE FeedInv'
<1> DEFINE end == Min({PageSize, Len(log)})
           st == [page.start EXCEPT !.primed = TRUE, !.cursor = end]
           idle == [page EXCEPT !.status = "idle", !.ready = FALSE]
           primed == [page EXCEPT !.start = st]
<1>1. /\ page.start # Nil /\ ~page.start.primed /\ UNCHANGED <<World, faults, leaves>>
      /\ page' = IF page.start.gen # page.gen THEN Ended(page)
                 ELSE IF page.users = 0 THEN Ended(idle)
                 ELSE Recover([page EXCEPT !.start.primed = TRUE, !.start.cursor = end])
  BY DEF Prime
<1>2. page \in Pages /\ Base(page) /\ Read(page) /\ Trailing(page) /\ Around /\ Fit(page)
      /\ Len(log) \in Nat /\ PageSize \in Nat
  BY FeedBasics DEF Fit
<1>3. ~Primed(page) /\ page.feed = Nil
  BY <1>1, <1>2 DEF Primed, Trailing, Following
<1>4. CASE page.start.gen # page.gen
  <2>1. Fit(page')
    BY <1>1, <1>2, <1>3, <1>4, UnprimedEnds
  <2> QED BY <1>1, <2>1, FeedBasics, PageSteps
<1>5. CASE page.start.gen = page.gen /\ page.users = 0
  <2>1. /\ idle \in Pages /\ idle.gen = page.gen /\ Store(idle) = Store(page)
        /\ Ties(idle) = Ties(page) /\ Reader(idle) = Reader(page)
    BY <1>2 DEF Pages, Store, Ties, Reader
  <2>2. page' = Ended(idle)
    BY <1>1, <1>5
  <2> HIDE DEF idle
  <2>3. Fit(idle) /\ ~Primed(idle)
    BY <1>2, <1>3, <2>1, SameKeeps DEF Fit, Primed, Ties
  <2>4. Fit(page')
    BY <2>2, <2>3, UnprimedEnds
  <2> QED BY <1>1, <2>4, FeedBasics, PageSteps
<1>6. CASE page.start.gen = page.gen /\ page.users # 0
  <2>1. page.start \in Starts
    BY <1>1, <1>2 DEF Pages
  <2>2. page' = Recover(primed)
    <3>1. [page EXCEPT !.start.primed = TRUE, !.start.cursor = end] = primed
      BY <1>2, <2>1 DEF Pages, Starts
    <3> QED BY <1>1, <1>6, <3>1
  <2>3. end \in Nat /\ end <= Len(log)
    BY <1>2, MinOfTwo
  <2> HIDE DEF end
  <2>4. /\ st \in Starts /\ st.gen = page.gen /\ st.primed /\ st.cursor = end
    BY <1>6, <2>1, <2>3 DEF Starts
  <2>5. st # Nil
    BY <2>4, NilAssumption
  <2> HIDE DEF st
  <2>6. /\ primed \in Pages /\ primed.start = st /\ primed.gen = page.gen
        /\ Store(primed) = Store(page) /\ Reader(primed) = Reader(page) /\ primed.rec = page.rec
        /\ primed.users = page.users /\ primed.timer = page.timer /\ primed.feed = Nil
        /\ primed.joined = page.joined
    BY <1>2, <1>3, <2>4 DEF Pages, Store, Reader
  <2> HIDE DEF primed
  <2>7. page.gen \in Nat
    BY <1>2 DEF Pages
  <2>8. Base(primed)
    BY <1>2, <2>3, <2>4, <2>6, <2>7 DEF Base, Placed, Dropped, Asking, Store, Reader
  <2>9. Read(primed)
    BY <1>2, <2>6 DEF Read, Unknown, Asking, Store, Reader
  <2>10. CASE page.rec # Nil
    <3>1. page' = primed
      BY <2>2, <2>6, <2>10, RecoverIdle
    <3>2. page.joined \/ ~Recovering(page)
      BY <1>2, <1>3, <1>6 DEF Trailing, Followed
    <3>3. Trailing(primed)
      BY <1>2, <1>3, <1>6, <2>4, <2>6, <2>10, <3>2
      DEF Trailing, Following, Followed, Caught, Recovering, Primed
    <3> QED BY <1>1, <2>8, <2>9, <3>1, <3>3, FeedBasics, PageSteps DEF Fit
  <2>11. CASE page.rec = Nil
    <3> DEFINE q == Recover(primed)
    <3>1. /\ Base(q) /\ Read(q) /\ q.gen = page.gen /\ q.users = page.users /\ q.start = st
          /\ q.timer = page.timer /\ q.feed = Nil /\ q.joined = page.joined
          /\ q.rec # Nil /\ q.rec.gen = page.gen /\ \A i \in 1..Len(log) : Covered(q, i)
      BY <1>2, <2>6, <2>8, <2>9, <2>11, RecoverEffect
    <3>2. page' = q
      BY <2>2
    <3> HIDE DEF q
    <3>3. Trailing(q)
      BY <1>2, <1>3, <1>6, <2>3, <2>4, <2>5, <3>1
      DEF Trailing, Following, Followed, Caught, Recovering, Primed
    <3> QED BY <1>1, <3>1, <3>2, <3>3, FeedBasics, PageSteps DEF Fit
  <2> QED BY <2>10, <2>11
<1> QED BY <1>4, <1>5, <1>6

\* A start whose position cannot be read ends, and may be retried.
LEMMA PrimeFailsKeeps == ASSUME FeedInv, PrimeFails PROVE FeedInv'
<1>1. PICK absent \in BOOLEAN :
        LET shown == IF page.users = 0 \/ absent THEN "idle" ELSE "offline"
            off == [page EXCEPT !.ready = FALSE, !.status = shown]
        IN  page' = Ended(IF page.start.gen # page.gen THEN page
                          ELSE IF absent THEN off ELSE Schedule(off, "start"))
  BY DEF PrimeFails
<1> DEFINE shown == IF page.users = 0 \/ absent THEN "idle" ELSE "offline"
           off == [page EXCEPT !.ready = FALSE, !.status = shown]
<1>2. /\ page.start # Nil /\ ~page.start.primed /\ UNCHANGED <<World, leaves>> /\ Spend
      /\ page' = Ended(IF page.start.gen # page.gen THEN page
                       ELSE IF absent THEN off ELSE Schedule(off, "start"))
  BY <1>1 DEF PrimeFails
<1>3. page \in Pages /\ Fit(page) /\ ~Primed(page)
  BY <1>2, FeedBasics DEF Fit, Primed
<1>4. shown \in {"idle", "offline"}
  OBVIOUS
<1>5. off = [page EXCEPT !.ready = FALSE, !.status = shown]
  OBVIOUS
<1> HIDE DEF shown, off
<1>6. /\ off \in Pages /\ off.gen = page.gen /\ Store(off) = Store(page)
      /\ Ties(off) = Ties(page) /\ Reader(off) = Reader(page)
  BY <1>3, <1>4, <1>5 DEF Pages, Store, Ties, Reader
<1>7. Base(off) /\ Read(off) /\ Trailing(off) /\ ~Primed(off)
  BY <1>3, <1>6, SameKeeps DEF Fit, Primed, Ties
<1> DEFINE q == Schedule(off, "start")
<1>8. Fit(q) /\ q.start = off.start /\ q.gen = off.gen
  BY <1>7, ScheduleKeeps DEF Fit
<1>9. page' = Ended(page) \/ page' = Ended(off) \/ page' = Ended(q)
  BY <1>2
<1> HIDE DEF q
<1>10. Fit(Ended(page)) /\ Fit(Ended(off)) /\ Fit(Ended(q))
  BY <1>3, <1>7, <1>8, UnprimedEnds DEF Primed, Fit
<1> QED BY <1>2, <1>9, <1>10, FeedBasics, SpendKeeps, PageSteps

\* The end of a recovery: what the start behind it was told of is covered.
LEMMA RecoveryDoneKeeps == ASSUME FeedInv, RecoveryDone PROVE FeedInv'
<1> DEFINE p == [page EXCEPT !.rec = Nil]
           whole == p.session = "ready" /\ (page.rec.needed => p.data.status = "ready")
           cursor == IF p.start = Nil THEN 0 ELSE p.start.cursor
           shown == IF p.feed # Nil /\ p.up THEN "live" ELSE "connecting"
           idle == [p EXCEPT !.status = "idle"]
           off == [p EXCEPT !.status = "offline"]
           live == [p EXCEPT !.ready = TRUE, !.timer = Nil, !.status = shown]
<1>1. /\ page.rec # Nil /\ UNCHANGED <<World, faults, leaves>>
      /\ page' = IF page.rec.gen # p.gen THEN Follow(p, FALSE, 0)
                 ELSE IF p.users = 0 THEN Follow(idle, FALSE, 0)
                 ELSE IF ~whole
                 THEN Follow(IF p.feed = Nil THEN off ELSE Schedule(off, "recover"), FALSE, 0)
                 ELSE Follow(live, TRUE, cursor)
  BY DEF RecoveryDone
<1>2. page \in Pages /\ Base(page) /\ Read(page) /\ Trailing(page) /\ Len(log) \in Nat /\ 0 <= Len(log)
  BY FeedBasics
<1>3. /\ p \in Pages /\ p.rec = Nil /\ p.gen = page.gen /\ Store(p) = Store(page)
      /\ Reader(p) = Reader(page) /\ p.users = page.users /\ p.start = page.start
      /\ p.timer = page.timer /\ p.feed = page.feed /\ p.joined = page.joined
  BY <1>2 DEF Pages, Store, Reader
<1>4. shown \in {"live", "connecting"}
  OBVIOUS
<1> HIDE DEF p, whole, shown
<1>5. Resting(p)
  <2>1. Base(p)
    BY <1>2, <1>3 DEF Base, Placed, Dropped, Asking, Store, Reader
  <2>2. Read(p)
    BY <1>2, <1>3 DEF Read, Unknown, Asking, Store, Reader
  <2> QED BY <1>2, <1>3, <2>1, <2>2 DEF Resting, Trailing, Following, Caught, Covered, Asking, Store
<1>6. ASSUME NEW s \in {"idle", "offline"} PROVE Resting([p EXCEPT !.status = s])
  <2> DEFINE q == [p EXCEPT !.status = s]
  <2>1. /\ q \in Pages /\ q.gen = p.gen /\ Store(q) = Store(p) /\ Ties(q) = Ties(p)
        /\ Reader(q) = Reader(p)
    BY <1>3 DEF Pages, Store, Ties, Reader
  <2> HIDE DEF q
  <2>2. Resting(q)
    BY <1>5, <2>1, SameKeeps DEF Resting, Covered, Asking, Store, Ties
  <2> QED BY <2>2 DEF q
<1>7. live = [p EXCEPT !.ready = TRUE, !.timer = Nil, !.status = shown]
  OBVIOUS
<1>8. /\ idle = [p EXCEPT !.status = "idle"] /\ off = [p EXCEPT !.status = "offline"]
      /\ off.feed = p.feed
  BY <1>3 DEF Pages
<1> HIDE DEF live, idle, off
<1>9. /\ live \in Pages /\ live.rec = Nil /\ live.timer = Nil /\ live.gen = p.gen
      /\ Store(live) = Store(p) /\ Reader(live) = Reader(p) /\ live.users = p.users
      /\ live.start = p.start /\ live.feed = p.feed /\ live.joined = p.joined
  <2> DEFINE half == [p EXCEPT !.ready = TRUE, !.timer = Nil]
  <2>1. /\ half \in Pages /\ half.rec = Nil /\ half.timer = Nil /\ half.gen = p.gen
        /\ Store(half) = Store(p) /\ Reader(half) = Reader(p) /\ half.users = p.users
        /\ half.start = p.start /\ half.feed = p.feed /\ half.joined = p.joined
    <3> DEFINE due == [p EXCEPT !.timer = Nil]
    <3>1. /\ due \in Pages /\ due.rec = Nil /\ due.timer = Nil /\ due.gen = p.gen
          /\ Store(due) = Store(p) /\ Reader(due) = Reader(p) /\ due.users = p.users
          /\ due.start = p.start /\ due.feed = p.feed /\ due.joined = p.joined
      BY <1>3 DEF Pages, Store, Reader
    <3>2. half = [due EXCEPT !.ready = TRUE]
      BY <1>3 DEF Pages
    <3> HIDE DEF due, half
    <3> QED BY <3>1, <3>2 DEF Pages, Store, Reader
  <2>2. live = [half EXCEPT !.status = shown]
    BY <1>3, <1>7 DEF Pages
  <2> HIDE DEF half
  <2> QED BY <1>4, <2>1, <2>2 DEF Pages, Store, Reader
<1>10. ASSUME NEW q, Resting(q), page' = Follow(q, FALSE, 0) PROVE FeedInv'
  <2>1. Fit(Follow(q, FALSE, 0))
    BY <1>2, <1>10, FollowKeeps
  <2> QED BY <1>1, <1>10, <2>1, FeedBasics, PageSteps
<1>11. CASE page.rec.gen # p.gen
  BY <1>1, <1>5, <1>10, <1>11
<1>12. CASE page.rec.gen = p.gen /\ p.users = 0
  <2>1. Resting(idle)
    BY <1>6, <1>8
  <2> QED BY <1>1, <1>10, <1>12, <2>1
<1>13. CASE page.rec.gen = p.gen /\ p.users # 0 /\ ~whole
  <2> DEFINE q == IF p.feed = Nil THEN off ELSE Schedule(off, "recover")
  <2>1. Resting(off)
    BY <1>6, <1>8
  <2>2. Resting(q)
    BY <1>8, <2>1, RestingSchedules
  <2>3. page' = Follow(q, FALSE, 0)
    BY <1>1, <1>13
  <2> HIDE DEF q
  <2> QED BY <1>10, <2>2, <2>3
<1>14. CASE page.rec.gen = p.gen /\ p.users # 0 /\ whole
  <2>1. Resting(live)
    <3>1. Base(live)
      BY <1>5, <1>9, NilAssumption DEF Resting, Base, Placed, Dropped, Asking, Store, Reader
    <3>2. Read(live)
      BY <1>5, <1>9 DEF Resting, Read, Unknown, Asking, Store, Reader
    <3> QED BY <1>5, <1>9, <3>1, <3>2, NilAssumption DEF Resting, Covered, Asking, Store
  <2>2. cursor \in Nat /\ cursor <= Len(log)
    BY <1>2, <1>3 DEF Base, Placed, Pages, Starts
  <2>3. ~live.joined /\ Primed(live) => \A i \in 1..cursor : Covered(live, i)
    <3>1. ~page.joined /\ Primed(live) => \A i \in 1..cursor : Covered(page, i)
      BY <1>1, <1>2, <1>3, <1>9, <1>14 DEF Trailing, Caught, Primed, Recovering
    <3>2. \A i : Covered(page, i) <=> Covered(live, i)
      BY <1>3, <1>9 DEF Covered, Asking, Store
    <3> QED BY <1>3, <1>9, <3>1, <3>2
  <2> HIDE DEF cursor
  <2>4. Fit(Follow(live, TRUE, cursor))
    BY <2>1, <2>2, <2>3, FollowKeeps
  <2> QED BY <1>1, <1>14, <2>4, FeedBasics, PageSteps
<1> QED BY <1>11, <1>12, <1>13, <1>14

\* A planned recovery has a feed to recover.
LEMMA RetryDueKeeps == ASSUME FeedInv, RetryDue PROVE FeedInv'
<1> DEFINE p == [page EXCEPT !.timer = Nil]
<1>1. /\ page.timer # Nil /\ UNCHANGED <<World, faults, leaves>>
      /\ page' = IF page.timer = "start" THEN Start(p) ELSE Recover(p)
  BY DEF RetryDue
<1>2. page \in Pages /\ Base(page) /\ Read(page) /\ Trailing(page) /\ Around
  BY FeedBasics
<1>3. /\ p \in Pages /\ p.timer = Nil /\ p.gen = page.gen /\ Store(p) = Store(page)
      /\ Reader(p) = Reader(page) /\ p.users = page.users /\ p.start = page.start
      /\ p.rec = page.rec /\ p.feed = page.feed /\ p.joined = page.joined
  BY <1>2 DEF Pages, Store, Reader
<1> HIDE DEF p
<1>4. Base(p)
  BY <1>2, <1>3 DEF Base, Placed, Dropped, Asking, Store, Reader
<1>5. Read(p)
  BY <1>2, <1>3 DEF Read, Unknown, Asking, Store, Reader
<1>6. Trailing(p)
  BY <1>2, <1>3, NilAssumption
  DEF Trailing, Following, Followed, Caught, Covered, Asking, Recovering, Primed, Store
<1>7. page.timer # "start" => p.feed # Nil
  BY <1>1, <1>2, <1>3 DEF Pages, Trailing, Following
<1>8. Fit(page')
  BY <1>1, <1>2, <1>4, <1>5, <1>6, <1>7, StartKeeps, RecoverBase, RecoverRead, RecoverTail DEF Fit
<1> QED BY <1>1, <1>8, FeedBasics, PageSteps

\* A feed that moves on stays within the log.
LEMMA FeedPlaced ==
  ASSUME FeedInv, page.feed # Nil
  PROVE  /\ page.feed \in Feeds /\ page.feed.cursor \in Nat /\ page.feed.sent \in Nat
         /\ page.feed.cursor <= Len(log) /\ page.feed.sent <= Len(log)
BY FeedBasics DEF Base, Placed, Pages, Feeds

\* One that does not move keeps what it was told covered.
LEMMA FeedRests ==
  ASSUME FeedInv, page.feed # Nil, NEW f \in Feeds, f.cursor = page.feed.cursor,
         f.sent <= Len(log)
  PROVE  Fit(With(page, f)) /\ With(page, f) \in Pages /\ With(page, f).feed = f /\ f # Nil
<1>1. page.feed.cursor \in Nat /\ page.feed.cursor <= Len(log) /\ page \in Pages /\ Fit(page)
  BY FeedPlaced, FeedBasics DEF Fit
<1>2. \A i \in (page.feed.cursor + 1)..f.cursor : Covered(page, i)
  BY <1>1
<1> QED BY <1>1, <1>2, WithIs, WithKeeps

\* A reopened stream resumes from the rows it received.
LEMMA OpenStreamKeeps == ASSUME FeedInv, OpenStream PROVE FeedInv'
<1> DEFINE f == [page.feed EXCEPT !.net = "open", !.opened = TRUE, !.sent = page.feed.cursor]
           up == Connected(With(page, f))
<1>1. page.feed # Nil /\ UNCHANGED <<World, faults, leaves>>
  BY DEF OpenStream, Streaming
<1>2. page \in Pages /\ page.feed \in Feeds /\ page.feed.cursor <= Len(log) /\ Around
  BY <1>1, FeedPlaced, FeedBasics
<1>3. f \in Feeds /\ f.cursor = page.feed.cursor /\ f.sent = page.feed.cursor
  BY <1>2 DEF Feeds
<1>4. page' = IF page.feed.opened THEN Recover(up) ELSE up
  <2>1. [page EXCEPT !.feed.net = "open", !.feed.opened = TRUE, !.feed.sent = page.feed.cursor]
          = With(page, f)
    BY <1>2 DEF With, Pages, Feeds
  <2> QED BY <2>1 DEF OpenStream
<1> HIDE DEF f
<1>5. Fit(up) /\ up.feed # Nil
  BY <1>1, <1>2, <1>3, FeedRests, ConnectedKeeps
<1> HIDE DEF up
<1>6. Fit(page')
  BY <1>2, <1>4, <1>5, RecoverBase, RecoverRead, RecoverTail DEF Fit
<1> QED BY <1>1, <1>6, FeedBasics, PageSteps

LEMMA StreamRefusedKeeps == ASSUME FeedInv, StreamRefused PROVE FeedInv'
<1>1. page.feed # Nil /\ UNCHANGED <<World, leaves>>
      /\ page' = IF page.feed.opened THEN Interrupted([page EXCEPT !.feed.net = "closed"])
                 ELSE FallBack(page)
  BY DEF StreamRefused, Streaming
<1>2. page \in Pages /\ page.feed \in Feeds /\ page.feed.sent <= Len(log)
  BY <1>1, FeedPlaced, FeedBasics
<1>3. faults' \in 0..MaxFaults
  BY FeedBasics, SpendKeeps DEF StreamRefused
<1>4. CASE page.feed.opened
  <2> DEFINE f == [page.feed EXCEPT !.net = "closed"]
  <2>1. f \in Feeds /\ f.cursor = page.feed.cursor /\ f.sent = page.feed.sent
    BY <1>2 DEF Feeds
  <2>2. page' = Interrupted(With(page, f))
    BY <1>1, <1>4 DEF With
  <2> HIDE DEF f
  <2>3. Fit(page')
    BY <1>1, <1>2, <2>1, <2>2, FeedRests, InterruptedKeeps
  <2> QED BY <1>1, <1>3, <2>3, FeedBasics, PageSteps
<1>5. CASE ~page.feed.opened
  <2> DEFINE f == [page.feed EXCEPT !.mode = "poll", !.net = "down"]
             p == With(page, f)
             q == [p EXCEPT !.status = "connecting", !.up = FALSE]
  <2>1. f \in Feeds /\ f.cursor = page.feed.cursor /\ f.sent = page.feed.sent
    BY <1>2 DEF Feeds
  <2>2. page' = q
    BY <1>1, <1>2, <1>5 DEF With, FallBack, Pages, Feeds
  <2> HIDE DEF f
  <2>3. Fit(p) /\ p \in Pages
    BY <1>1, <1>2, <2>1, FeedRests
  <2> HIDE DEF p
  <2>4. /\ q \in Pages /\ q.gen = p.gen /\ Store(q) = Store(p) /\ Ties(q) = Ties(p)
        /\ Reader(q) = Reader(p)
    BY <2>3 DEF Pages, Store, Ties, Reader
  <2> HIDE DEF q
  <2>5. Fit(page')
    BY <2>2, <2>3, <2>4, SameKeeps DEF Fit
  <2> QED BY <1>1, <1>3, <2>5, FeedBasics, PageSteps
<1> QED BY <1>4, <1>5

LEMMA PumpKeeps == ASSUME FeedInv, Pump PROVE FeedInv'
<1> DEFINE end == Min({page.feed.sent + PageSize, Len(log)})
           f == [page.feed EXCEPT !.sent = end]
<1>1. page.feed # Nil /\ UNCHANGED <<World, faults, leaves>>
  BY DEF Pump, Streaming
<1>2. page \in Pages /\ page.feed \in Feeds /\ page.feed.sent \in Nat
      /\ Len(log) \in Nat /\ PageSize \in Nat
  BY <1>1, FeedPlaced, FeedBasics
<1>3. end \in Nat /\ end <= Len(log)
  BY <1>2, MinOfTwo
<1>4. page' = [page EXCEPT !.feed.sent = end]
  BY DEF Pump
<1> HIDE DEF end
<1>5. f \in Feeds /\ f.cursor = page.feed.cursor /\ f.sent = end
  BY <1>2, <1>3 DEF Feeds
<1>6. page' = With(page, f)
  BY <1>4 DEF With
<1> HIDE DEF f
<1>7. Fit(page')
  BY <1>1, <1>3, <1>5, <1>6, FeedRests
<1> QED BY <1>1, <1>7, FeedBasics, PageSteps

\* A frame moves the feed on by a row and makes the page read again.
LEMMA ReceiveFrameKeeps == ASSUME FeedInv, ReceiveFrame PROVE FeedInv'
<1> DEFINE f == [page.feed EXCEPT !.cursor = page.feed.cursor + 1]
           moved == With(page, f)
<1>1. /\ page.feed # Nil /\ page.feed.cursor < page.feed.sent /\ UNCHANGED <<World, faults, leaves>>
      /\ page' = Consume(moved)
  BY DEF ReceiveFrame, Streaming, With
<1>2. page.feed \in Feeds /\ page.feed.cursor \in Nat /\ page.feed.sent \in Nat
      /\ page.feed.sent <= Len(log) /\ Fit(page) /\ Around /\ Len(log) \in Nat
  BY <1>1, FeedPlaced, FeedBasics DEF Fit
<1>3. f \in Feeds /\ f.cursor <= Len(log) /\ f.sent <= Len(log)
  BY <1>1, <1>2 DEF Feeds
<1> HIDE DEF f
<1>4. Base(moved) /\ Read(moved) /\ Following(moved) /\ Followed(moved)
  BY <1>1, <1>2, <1>3, WithKeeps
<1> HIDE DEF moved
<1>5. Fit(page')
  BY <1>1, <1>2, <1>4, ConsumeKeeps DEF Fit
<1> QED BY <1>1, <1>5, FeedBasics, PageSteps

LEMMA StreamLostKeeps == ASSUME FeedInv, StreamLost PROVE FeedInv'
<1> DEFINE f == [page.feed EXCEPT !.net = "down"]
<1>1. /\ page.feed # Nil /\ UNCHANGED <<World, leaves>> /\ Spend
      /\ page' = Interrupted(With(page, f))
  BY DEF StreamLost, Streaming, With
<1>2. page.feed \in Feeds /\ page.feed.sent <= Len(log)
  BY <1>1, FeedPlaced
<1>3. f \in Feeds /\ f.cursor = page.feed.cursor /\ f.sent = page.feed.sent
  BY <1>2 DEF Feeds
<1> HIDE DEF f
<1>4. Fit(page')
  BY <1>1, <1>2, <1>3, FeedRests, InterruptedKeeps
<1> QED BY <1>1, <1>4, FeedBasics, SpendKeeps, PageSteps

LEMMA PollFailsKeeps == ASSUME FeedInv, PollFails PROVE FeedInv'
<1> DEFINE failing == [page.feed EXCEPT !.failing = TRUE]
           closed == [page.feed EXCEPT !.net = "closed"]
           off == [With(page, closed) EXCEPT !.up = FALSE, !.status = "idle"]
<1>1. page.feed # Nil /\ UNCHANGED <<World, leaves>> /\ Spend /\ page \in Pages
  BY FeedBasics DEF PollFails, Polling
<1>2. page' = Interrupted(With(page, failing)) \/ page' = off
  BY <1>1 DEF PollFails, With, Pages
<1>3. page.feed \in Feeds /\ page.feed.sent <= Len(log)
  BY <1>1, FeedPlaced
<1>4. /\ failing \in Feeds /\ failing.cursor = page.feed.cursor /\ failing.sent = page.feed.sent
      /\ closed \in Feeds /\ closed.cursor = page.feed.cursor /\ closed.sent = page.feed.sent
  BY <1>3 DEF Feeds
<1> HIDE DEF failing, closed
<1>5. Fit(Interrupted(With(page, failing)))
  BY <1>1, <1>3, <1>4, FeedRests, InterruptedKeeps
<1>6. Fit(off)
  <2> DEFINE q == With(page, closed)
  <2>1. Fit(q) /\ q \in Pages
    BY <1>1, <1>3, <1>4, FeedRests
  <2> HIDE DEF q
  <2> DEFINE o == [q EXCEPT !.up = FALSE, !.status = "idle"]
  <2>2. /\ o \in Pages /\ o.gen = q.gen /\ Store(o) = Store(q) /\ Ties(o) = Ties(q)
        /\ Reader(o) = Reader(q)
    BY <2>1 DEF Pages, Store, Ties, Reader
  <2> HIDE DEF o
  <2>3. Fit(o)
    BY <2>1, <2>2, SameKeeps DEF Fit
  <2> QED BY <2>3 DEF o, q
<1> HIDE DEF off
<1> QED BY <1>1, <1>2, <1>5, <1>6, FeedBasics, SpendKeeps, PageSteps

\* A row a page does not show is hidden from the credential that asked, which
\* the browser has now.
LEMMA HiddenCovered ==
  ASSUME FeedInv, NEW i, ~Visible(cookie, i)
  PROVE  Covered(page, i)
<1>1. /\ page.data.cred \in Nat /\ page.data.cred <= cookie /\ cookie \in Nat
      /\ page.load # Nil => page.load.cred \in Nat /\ page.load.cred <= cookie
  BY FeedBasics, CredentialsAre DEF Base, Placed, Pages, Contents, Reads
<1>2. Hidden(i, page.data) /\ (page.load # Nil => Hidden(i, page.load))
  BY <1>1 DEF Hidden
<1> QED BY <1>2 DEF Covered, Meets, Asking

\* A page of rows moves the feed over those hidden from its reader too.
LEMMA PollOnceKeeps == ASSUME FeedInv, PollOnce PROVE FeedInv'
<1> DEFINE shown == {i \in (page.feed.cursor + 1)..PageEnd : Visible(cookie, i)}
           f == [page.feed EXCEPT !.cursor = PageEnd, !.failing = FALSE]
           moved == With(page, f)
           told == CASE shown = {} -> moved
                     [] Cardinality(shown) = 1 -> Consume(moved)
                     [] OTHER -> Consume(Consume(moved))
           up == Connected(told)
<1>1. page.feed # Nil /\ UNCHANGED <<World, faults, leaves>>
  BY DEF PollOnce, Polling
<1>2. /\ page \in Pages /\ page.feed \in Feeds /\ page.feed.cursor \in Nat
      /\ page.feed.sent <= Len(log)
      /\ Fit(page) /\ Around /\ Len(log) \in Nat /\ PageSize \in Nat
  BY <1>1, FeedPlaced, FeedBasics DEF Fit
<1>3. PageEnd \in Nat /\ PageEnd <= Len(log)
  BY <1>2, MinOfTwo DEF PageEnd
<1>4. f \in Feeds /\ f.cursor = PageEnd /\ f.sent = page.feed.sent
  BY <1>2, <1>3 DEF Feeds
<1>5. page' = IF page.feed.failing THEN Recover(up) ELSE up
  <2>1. [page EXCEPT !.feed.cursor = LatestId, !.feed.failing = FALSE] = moved
    BY <1>2 DEF With, LatestId, Pages, Feeds
  <2> QED BY <2>1 DEF PollOnce
<1> HIDE DEF f
<1>6. /\ Base(moved) /\ Read(moved) /\ Following(moved) /\ Followed(moved)
      /\ moved.feed = f /\ f # Nil
      /\ (\A i \in (page.feed.cursor + 1)..PageEnd : Covered(page, i)) => Fit(moved)
  BY <1>1, <1>2, <1>3, <1>4, WithKeeps, WithIs
<1>7. shown = {} => Fit(moved)
  BY <1>6, HiddenCovered
<1> HIDE DEF shown, moved
<1>8. Fit(told) /\ told.feed # Nil /\ told \in Pages
  <2> DEFINE once == Consume(moved)
  <2>1. Fit(once) /\ Ties(once) = Ties(moved)
    BY <1>2, <1>6, ConsumeKeeps DEF Fit
  <2>2. Fit(Consume(once)) /\ Ties(Consume(once)) = Ties(once)
    BY <1>2, <2>1, ConsumeKeeps DEF Fit, Trailing
  <2>3. told \in {moved, once, Consume(once)} /\ (told = moved => Fit(told))
    BY <1>7, <2>1, <2>2
  <2> HIDE DEF once, told
  <2>4. Fit(told) /\ Ties(told) = Ties(moved)
    BY <2>1, <2>2, <2>3
  <2> QED BY <1>6, <2>4 DEF Ties, Fit, Base
<1> HIDE DEF told
<1>9. Fit(up) /\ up.feed # Nil
  BY <1>8, ConnectedKeeps
<1> HIDE DEF up
<1>10. Fit(page')
  BY <1>2, <1>5, <1>9, RecoverBase, RecoverRead, RecoverTail DEF Fit
<1> QED BY <1>1, <1>10, FeedBasics, PageSteps

-----------------------------------------------------------------------------
\* The page opens with its first read under way and no feed.
LEMMA FeedInitially == FeedInit => FeedInv
<1> SUFFICES ASSUME FeedInit PROVE FeedInv
  OBVIOUS
<1> DEFINE r == [gen |-> 0, at |-> 0, cred |-> 1]
           d == [NoData EXCEPT !.status = "loading"]
<1>1. 1 \in Credentials /\ cookie = 1 /\ log = <<>> /\ Len(log) = 0
  BY CredentialsAre DEF FeedInit
<1>2. Identity(1) \in Credentials \union {SignedOut}
  BY <1>1 DEF Identity
<1>3. r \in Reads /\ d \in Contents /\ d.status = "loading" /\ d.cred = 0 /\ d.at = 0
  BY <1>1 DEF Reads, Contents, NoData
<1>4. r # Nil
  BY <1>3, NilAssumption
<1>5. page = [gen |-> 0, known |-> Identity(1), seen |-> 1, session |-> "ready",
              data |-> d, load |-> r, queued |-> FALSE,
              me |-> Nil, rec |-> Nil, users |-> 0, start |-> Nil,
              again |-> FALSE, timer |-> Nil, ready |-> FALSE, up |-> FALSE,
              status |-> "idle", feed |-> Nil, joined |-> FALSE, noticed |-> 1]
  BY DEF FeedInit
<1> HIDE DEF d
<1>6. page \in Pages
  BY <1>1, <1>2, <1>3, <1>5 DEF Pages, SignedOut
<1>7. /\ page.gen = 0 /\ page.known = Identity(1) /\ page.seen = 1 /\ page.data = d /\ page.load = r
      /\ ~page.queued /\ page.me = Nil /\ page.rec = Nil /\ page.users = 0 /\ page.start = Nil
      /\ page.timer = Nil /\ page.feed = Nil /\ page.noticed = 1
  BY <1>5
<1>8. Base(page)
  BY <1>1, <1>3, <1>4, <1>6, <1>7 DEF Base, Placed, Dropped, Asking
<1>9. Read(page)
  BY <1>3, <1>7 DEF Read, Unknown, Identity, Asking
<1>10. Trailing(page)
  BY <1>7, NilAssumption DEF Trailing, Following, Followed, Caught, Recovering, Primed
<1>11. FeedTypeOK
  <2>1. 0 \in 0..MaxFaults /\ 0 \in 0..MaxLeaves
    BY FeedBounds
  <2>2. <<>> \in Seq({"shared", "private"})
    OBVIOUS
  <2> QED BY <1>1, <1>6, <2>1, <2>2 DEF FeedTypeOK, FeedInit
<1> QED BY <1>8, <1>9, <1>10, <1>11 DEF FeedInv, Fit

LEMMA FeedStutters == FeedInv /\ UNCHANGED feedVars => FeedInv'
<1> SUFFICES ASSUME FeedInv, UNCHANGED feedVars PROVE FeedInv'
  OBVIOUS
<1>1. Fit(page') /\ UNCHANGED World
  BY DEF FeedInv, feedVars, World
<1>2. faults' \in 0..MaxFaults /\ leaves' \in 0..MaxLeaves
  BY FeedBasics DEF feedVars
<1> QED BY <1>1, <1>2, PageSteps

LEMMA FeedSteps == FeedInv /\ FeedNext => FeedInv'
<1> SUFFICES ASSUME FeedInv, FeedNext PROVE FeedInv'
  OBVIOUS
<1>1. CASE \E kind \in {"shared", "private"} : LogRow(kind)
  BY <1>1, LogRowKeeps
<1>2. CASE SwitchCredential
  BY <1>2, SwitchCredentialKeeps
<1>3. CASE \E forced \in BOOLEAN : RefreshSession(forced)
  BY <1>3, RefreshSessionKeeps
<1>4. CASE Retain \/ Leave
  BY <1>4, RetainKeeps, LeaveKeeps
<1>5. CASE Internal
  BY <1>5, EnsureKeeps, DeliverKeeps, LearnSessionKeeps, ReloadedKeeps, PrimeKeeps,
     RecoveryDoneKeeps, RetryDueKeeps, OpenStreamKeeps, StreamRefusedKeeps, PumpKeeps,
     ReceiveFrameKeeps, PollOnceKeeps
  DEF Internal
<1>6. CASE Faulty
  BY <1>6, DeliverKeeps, LoseSessionKeeps, PrimeFailsKeeps, StreamLostKeeps, PollFailsKeeps,
     StreamRefusedKeeps
  DEF Faulty
<1> QED BY <1>1, <1>2, <1>3, <1>4, <1>5, <1>6 DEF FeedNext

\* Everything below follows from the invariant of the page and its feed.
THEOREM FeedInvariance == FeedSpec => []FeedInv
<1>1. FeedInv /\ [FeedNext]_feedVars => FeedInv'
  BY FeedSteps, FeedStutters
<1> QED BY FeedInitially, <1>1, PTL DEF FeedSpec

\* The page's store and its feed keep their shape.
THEOREM FeedTypeCorrect == FeedSpec => []FeedTypeOK
<1>1. FeedInv => FeedTypeOK
  BY DEF FeedInv
<1> QED BY FeedInvariance, <1>1, PTL

\* A page with nothing in flight shows data no older than any row its feed has
\* handed it and that it was allowed to learn of.
THEOREM NoRowMissed == FeedSpec => []CursorCovered
<1>1. FeedInv => CursorCovered
  <2> SUFFICES ASSUME FeedInv, page.feed # Nil, page.load = Nil, page.data.status = "ready",
                      ~page.joined, NEW i \in 1..page.feed.cursor, Disclosed(i)
               PROVE  i <= page.data.at
    BY DEF CursorCovered
  <2>1. Covered(page, i) /\ ~page.queued /\ ~Asking(page)
    BY FeedBasics DEF Trailing, Caught, Base, Dropped, Asking
  <2> QED BY <2>1 DEF Covered, Meets, Hidden, Disclosed
<1> QED BY FeedInvariance, <1>1, PTL

\* Whatever is shown was read since the page last found its reader changed, and
\* under a member's own credential or a later one.
THEOREM OldReadsForgotten == FeedSpec => []OldCredentialForgotten
<1>1. FeedInv => OldCredentialForgotten
  BY FeedBasics DEF Read, OldCredentialForgotten
<1> QED BY FeedInvariance, <1>1, PTL

=============================================================================
