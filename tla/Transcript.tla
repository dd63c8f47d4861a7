----------------------------- MODULE Transcript -----------------------------
(***************************************************************************)
(* The message lists an agent turn works on, stores and repairs.  A        *)
(* message is reduced to a tuple: its kind, whose it is and, for a tool    *)
(* call and its result, the hop that made the call.  System messages and   *)
(* the scaffolding that the store never sees are left out.                 *)
(***************************************************************************)
EXTENDS Naturals, Sequences, SequencesExt

User(m)      == <<"user", m>>        \* a message that started a turn
Steer(m)     == <<"steer", m>>       \* a message injected into a turn
Call(t, h)   == <<"call", t, h>>     \* the assistant calls a tool at hop h
Result(t, h) == <<"result", t, h>>
Void(t, h)   == <<"void", t, h>>     \* "[interrupted]": no result was produced
Draft(t, h)  == <<"draft", t, h>>    \* an answer the loop asks to redo
Reply(t)     == <<"reply", t>>       \* the terminal answer
Sorry(t)     == <<"sorry", t>>       \* the placeholder of a failed turn

IsCall(e) == e[1] = "call"
AnswersCall(r, e) == r[1] \in {"result", "void"} /\ r[2] = e[2] /\ r[3] = e[3]
Answered(e, q) == \E r \in ToSet(q) : AnswersCall(r, e)

\* Every call without a result gets a stub right behind it.
Stubbed(e, q) ==
    IF IsCall(e) /\ ~Answered(e, q) THEN <<e, Void(e[2], e[3])>> ELSE <<e>>
Mended(q) == FlattenSeq([i \in DOMAIN q |-> Stubbed(q[i], q)])

\* Mutant: unanswered calls are kept as they are.
Recovered_Unmended(q, t) == Append(q, Sorry(t))

\* What the finally block of a failed turn t makes of its working messages.
Recovered(q, t) == Append(Mended(q), Sorry(t))

\* The same when the turn had no working messages yet.
Apology(q, m, t) ==
    IF q # <<>> /\ Last(q) = User(m)
    THEN Append(q, Sorry(t))
    ELSE q \o <<User(m), Sorry(t)>>

\* What the providers demand of a request: each call is directly followed by
\* its result, and a result follows nothing else.
Paired(q) ==
    \A i \in DOMAIN q :
        /\ IsCall(q[i]) => i < Len(q) /\ AnswersCall(q[i + 1], q[i])
        /\ q[i][1] \in {"result", "void"} =>
              i > 1 /\ IsCall(q[i - 1]) /\ AnswersCall(q[i], q[i - 1])
=============================================================================
