------------------------------- MODULE Ledger -------------------------------
(***************************************************************************)
(* What the outbox promises of the branch: each operation is written at    *)
(* most once, is answered once, and the answer agrees with the branch.     *)
(***************************************************************************)
EXTENDS Sequences

CONSTANTS
    Ops,
    Foreign  \* stands in the log for what somebody else wrote

VARIABLES
    log,     \* what is on the branch, oldest first
    verdict  \* what the project was told about each

Written(o) == \E k \in DOMAIN log : log[k] = o

Init ==
    /\ log = <<>>
    /\ verdict = [o \in Ops |-> "open"]

\* Only an operation still open and not yet there is written.
WriteDown(o) ==
    /\ verdict[o] = "open" /\ ~Written(o)
    /\ log' = Append(log, o)
    /\ UNCHANGED verdict

Answer(o, answers) ==
    /\ verdict[o] = "open"
    /\ \E v \in answers : verdict' = [verdict EXCEPT ![o] = v]
    /\ UNCHANGED log

\* Success (the change, or the record of its conflict) needs the commit ...
Accept(o) == Written(o) /\ Answer(o, {"accepted", "recorded"})

\* ... and failure needs its absence.
Refuse(o) == ~Written(o) /\ Answer(o, {"refused"})

\* Others write to the branch as they like.
Interject ==
    /\ log' = Append(log, Foreign)
    /\ UNCHANGED verdict

Next == Interject \/ \E o \in Ops : WriteDown(o) \/ Accept(o) \/ Refuse(o)

Spec == Init /\ [][Next]_<<log, verdict>>
=============================================================================
