------------------------------ MODULE EventLog ------------------------------
(***************************************************************************)
(* What SqliteEventBus promises its users: a log that only grows, and      *)
(* subscribers that are handed recorded events only, each at most once.    *)
(* How events get into the log (one by one, in batches, in which order,    *)
(* through which lock and transaction) is left open.                       *)
(***************************************************************************)
EXTENDS Naturals, Sequences

CONSTANTS Events, Subs

VARIABLES
    log,     \* events recorded so far
    active,  \* live subscriptions
    inbox,   \* what each subscription was handed, in order
    fanned   \* events announced so far

logVars == <<log, active, inbox, fanned>>

Elems(q) == {q[i] : i \in DOMAIN q}
Injective(q) == \A i, j \in DOMAIN q : q[i] = q[j] => i = j

Init ==
    /\ log = {} /\ active = {} /\ fanned = {}
    /\ inbox = [s \in Subs |-> <<>>]

Record ==
    /\ log' \in SUBSET Events /\ log \subseteq log'
    /\ UNCHANGED <<active, inbox, fanned>>

\* What a step adds to the inbox of s.
New(s) == SubSeq(inbox'[s], Len(inbox[s]) + 1, Len(inbox'[s]))

\* Recorded events that were not announced before are handed, in one order and
\* each once, to everyone subscribed and to nobody else.
Announce ==
    /\ fanned \subseteq fanned' /\ fanned' \subseteq log
    /\ \A s \in Subs :
         /\ inbox'[s] = inbox[s] \o New(s)
         /\ Injective(New(s))
         /\ Elems(New(s)) = IF s \in active THEN fanned' \ fanned ELSE {}
    /\ \A r, s \in active : New(r) = New(s)
    /\ UNCHANGED <<log, active>>

Subscriptions ==
    /\ active' \in SUBSET Subs
    /\ UNCHANGED <<log, inbox, fanned>>

Next == Record \/ Announce \/ Subscriptions

Spec == Init /\ [][Next]_logVars
=============================================================================
