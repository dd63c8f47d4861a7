---------------------------- MODULE SessionTurns ----------------------------
(***************************************************************************)
(* One chat session of the daemon: the WebSocket connections of its tabs,  *)
(* each with a reader and a serial loop, the turns the loops start as      *)
(* tasks, and the agent state they share, which is keyed by the session    *)
(* and not by the turn: one cancel event, one stash of working messages,   *)
(* one steering queue, one history and one stored row.                     *)
(*                                                                         *)
(* An action is the code from one await to the next.  The agent is the one *)
(* the daemon builds: a session store, no context engine.  Compression is  *)
(* assumed not to trigger, and a hop makes one tool call.                  *)
(***************************************************************************)
EXTENDS Transcript, FiniteSets

CONSTANTS
    Conns,     \* connections (tabs)
    Msgs,      \* what the user types, each once
    MaxTurns,  \* turns that can be started: a bound of the model
    MaxHops,   \* max_hops of the agent
    Bye,       \* the disconnect sentinel
    None,
    Limit,     \* how often each event may happen: a bound of the model
    MaxMix     \* how many kinds of them may meet: a bound of the model

Turns == 1 .. MaxTurns
Events ==
    {"stop", "tie", "fail", "crash", "rewind", "clear", "close", "overlap", "outage"}

\* The messages a list may hold.
Steps == Turns \X (0 .. MaxHops)
Entries ==
    {User(m) : m \in Msgs} \cup {Steer(m) : m \in Msgs} \cup
    {Reply(t) : t \in Turns} \cup {Sorry(t) : t \in Turns} \cup
    {Call(s[1], s[2]) : s \in Steps} \cup {Result(s[1], s[2]) : s \in Steps} \cup
    {Void(s[1], s[2]) : s \in Steps} \cup {Draft(s[1], s[2]) : s \in Steps}

ASSUME ConstantsAssumption ==
    /\ MaxTurns \in Nat \ {0} /\ MaxHops \in Nat \ {0}
    /\ None \notin Conns \cup Msgs \cup Turns /\ Bye \notin Msgs \cup {None}
    /\ None \notin Seq(Entries) \cup [turn : Turns, len : Nat]
    /\ Limit \in [Events -> Nat] /\ MaxMix \in Nat

VARIABLES
    conn,      \* each connection: new, open, closed, hungup (read), gone
    rd,        \* a steering message the reader is still announcing
    queue,     \* _frame_q
    wd,        \* the message an armed steering watchdog would requeue
    owner,     \* active_ws_for_session
    active,    \* active_turn_tasks
    flagged,   \* active_turn_cancelled
    pc,        \* where each turn's task stands
    by,        \* the connection whose loop awaits the turn
    user,      \* the message that started the turn
    msgs,      \* its working messages
    hops,      \* hops completed
    kills,     \* delayed hard cancels under way
    save,      \* the history its finally block is saving
    evOwner,   \* the turn whose cancel event is registered
    cancelSet, \* turns whose cancel event is set
    stash,     \* _inflight_messages: a turn's list, or a copy of its beginning
    steerq,    \* _steer_queue
    todo,      \* what a turn splicing the queue has yet to splice
    shared,    \* the splicing turns whose list is still the session's queue
    spliced,   \* history: which turn spliced which message
    hist,      \* _histories, None while the session is not loaded
    cps,       \* _checkpoints
    disk,      \* the row of the session store, <<>> for none
    down,      \* the store refuses what it is asked
    stale,     \* history: the last save was refused
    writes,    \* saves whose coroutine was cancelled while the thread ran
    log,       \* the session's messages as the event log records them
    sent, asked, told, steered, requeued, answered, removed, spoiled, used
               \* history: messages typed; turns a cancel was requested for;
               \* turn_cancelled events per turn; messages accepted as
               \* steering; messages the watchdog requeued; turns that
               \* returned an answer; turns the user took back; what went
               \* wrong so far; how often each event happened

connVars  == <<conn, rd, queue, wd, owner>>
gateVars  == <<active, flagged>>
taskVars  == <<by, user, msgs, hops>>
runVars   == <<pc, kills, save>>
spliceVars == <<todo, shared, spliced>>
agentVars == <<evOwner, cancelSet, stash, steerq, spliceVars, hist, cps>>
storeVars == <<disk, down, stale, writes, log>>
userVars  == <<sent, asked, told, steered, requeued, answered, removed>>
vars == <<conn, rd, queue, wd, owner, active, flagged, by, user, msgs, hops, pc,
          kills, save, evOwner, cancelSet, stash, steerq, todo, shared, spliced,
          hist, cps, disk, down, stale, writes, log, sent, asked, told, steered,
          requeued, answered, removed, spoiled, used>>

Early   == {"early", "prep"}
Working == {"hop", "splice", "llm", "ask", "tool", "midsave", "answer", "post"}
Ending  == {"recover", "save"}
Alive   == {"created"} \cup Early \cup Working \cup Ending

Running == {t \in Turns : pc[t] \in Alive}
Idle == \A t \in Turns : pc[t] \notin Alive \cup {"done"}
Busy(c) == \E t \in Turns : by[t] = c /\ pc[t] \in Alive \cup {"done"}
ActiveTurn == active # None /\ pc[active] # "done"
Hist == IF hist = None THEN <<>> ELSE hist

\* The stash holds the list itself until a save of the turn replaces it by a
\* copy; lists only grow, so a copy is known by its length.
Live == 0
Stashed ==
    IF stash.len = Live THEN msgs[stash.turn]
    ELSE SubSeq(msgs[stash.turn], 1, stash.len)

Init ==
    /\ conn = [c \in Conns |-> "new"] /\ rd = [c \in Conns |-> None]
    /\ queue = [c \in Conns |-> <<>>] /\ wd = [c \in Conns |-> None]
    /\ owner = None /\ active = None /\ flagged = FALSE
    /\ pc = [t \in Turns |-> "unused"]
    /\ by = [t \in Turns |-> None] /\ user = [t \in Turns |-> None]
    /\ msgs = [t \in Turns |-> <<>>] /\ hops = [t \in Turns |-> 0]
    /\ kills = [t \in Turns |-> 0] /\ save = [t \in Turns |-> <<>>]
    /\ evOwner = None /\ cancelSet = {} /\ stash = None /\ steerq = <<>>
    /\ todo = [t \in Turns |-> <<>>] /\ shared = {} /\ spliced = {}
    /\ hist = None /\ cps = <<>>
    /\ disk = <<>> /\ down = FALSE /\ stale = FALSE /\ writes = {} /\ log = <<>>
    /\ sent = {} /\ asked = {} /\ told = [t \in Turns |-> 0]
    /\ steered = {} /\ requeued = {} /\ answered = {} /\ removed = {}
    /\ spoiled = {} /\ used = [e \in Events |-> 0]

Spend(e) ==
    /\ used[e] < Limit[e]
    /\ Cardinality({g \in Events : used[g] > 0} \cup {e}) <= MaxMix
    /\ used' = [used EXCEPT ![e] = @ + 1]

\* A save.  One that the store refuses goes unnoticed: the next, which has the
\* whole history, makes up for it.
Saves(q) ==
    /\ disk' = IF down THEN disk ELSE q
    /\ stale' = down
    /\ UNCHANGED down

-----------------------------------------------------------------------------
(* The gateway: connections, readers and loops *)

\* A new tab takes the session over; the older socket is closed, its loop and
\* the turn it awaits go on.
Connect(c) ==
    /\ conn[c] = "new"
    /\ conn' = [d \in Conns |-> IF d = c THEN "open"
                                ELSE IF d = owner /\ conn[d] = "open" THEN "closed"
                                ELSE conn[d]]
    /\ owner' = c
    /\ UNCHANGED <<rd, queue, wd, gateVars, taskVars, runVars, agentVars,
                   storeVars, userVars, spoiled, used>>

Disconnect(c) ==
    /\ conn[c] = "open" /\ Spend("close")
    /\ conn' = [conn EXCEPT ![c] = "closed"]
    /\ UNCHANGED <<rd, queue, wd, owner, gateVars, taskVars, runVars, agentVars,
                   storeVars, userVars, spoiled>>

\* The reader sees the closed socket, behind the frames it has read.
HangUp(c) ==
    /\ conn[c] = "closed" /\ rd[c] = None
    /\ conn' = [conn EXCEPT ![c] = "hungup"]
    /\ queue' = [queue EXCEPT ![c] = Append(@, Bye)]
    /\ UNCHANGED <<rd, wd, owner, gateVars, taskVars, runVars, agentVars,
                   storeVars, userVars, spoiled, used>>

\* The message joins the queue, and what is left of it for a turn that is
\* splicing it.
Steering(m) ==
    /\ steerq' = Append(steerq, m)
    /\ todo' = [t \in Turns |-> IF t \in shared THEN Append(todo[t], m) ELSE todo[t]]

\* A user frame: steering when a turn is running and has working messages
\* (enqueue_steering), else a turn to be.
SendUser(c, m) ==
    /\ conn[c] = "open" /\ rd[c] = None /\ m \notin sent
    /\ sent' = sent \cup {m}
    /\ \/ /\ ActiveTurn /\ stash # None
          /\ Steering(m)
          /\ rd' = [rd EXCEPT ![c] = m]
          /\ steered' = steered \cup {m}
          /\ UNCHANGED queue
       \/ /\ ~(ActiveTurn /\ stash # None)
          /\ Cardinality(sent \ steered) < MaxTurns
          /\ queue' = [queue EXCEPT ![c] = Append(@, m)]
          /\ UNCHANGED <<steerq, todo, rd, steered>>
    /\ UNCHANGED <<conn, wd, owner, gateVars, taskVars, runVars, evOwner,
                   cancelSet, stash, shared, spliced, hist, cps, storeVars, asked,
                   told, requeued, answered, removed, spoiled, used>>

\* The steering message has been announced; a watchdog is armed in the place of
\* the previous one.  The announcement itself counts as progress, so the
\* watchdog can only act if the clock did not advance meanwhile; one that
\* cannot act is left out.
Announced(c) ==
    /\ rd[c] # None
    /\ \/ wd' = [wd EXCEPT ![c] = None] /\ UNCHANGED used
       \/ wd' = [wd EXCEPT ![c] = rd[c]] /\ Spend("tie")
    /\ rd' = [rd EXCEPT ![c] = None]
    /\ UNCHANGED <<conn, queue, owner, gateVars, taskVars, runVars, agentVars,
                   storeVars, userVars, spoiled>>

\* Any event of the session counts as progress.
Progress == wd' = [c \in Conns |-> None]

\* Mutant: the cancelled turn is not remembered.
HardCancel_Unflagged ==
    /\ cancelSet' = cancelSet \cup ({evOwner} \ {None})
    /\ kills' = IF ActiveTurn THEN [kills EXCEPT ![active] = @ + 1] ELSE kills
    /\ asked' = IF ActiveTurn THEN asked \cup {active} ELSE asked
    /\ UNCHANGED flagged

\* Mutant: the cooperative stage only.
HardCancel_NoKill ==
    /\ cancelSet' = cancelSet \cup ({evOwner} \ {None})
    /\ flagged' = (flagged \/ ActiveTurn)
    /\ asked' = IF ActiveTurn THEN asked \cup {active} ELSE asked
    /\ UNCHANGED kills

\* _hard_cancel_turn: the cooperative event now, the task's cancellation after
\* a grace period.
HardCancel ==
    /\ cancelSet' = cancelSet \cup ({evOwner} \ {None})
    /\ flagged' = (flagged \/ ActiveTurn)
    /\ kills' = IF ActiveTurn THEN [kills EXCEPT ![active] = @ + 1] ELSE kills
    /\ asked' = IF ActiveTurn THEN asked \cup {active} ELSE asked

\* The cancel frame.  A pending question is cancelled instead of the turn.
Stop(c) ==
    /\ conn[c] = "open" /\ rd[c] = None /\ Running # {}
    /\ Spend("stop")
    /\ \/ /\ \E t \in Turns : pc[t] = "ask"
          /\ pc' = [t \in Turns |-> IF pc[t] = "ask" THEN "tool" ELSE pc[t]]
          /\ UNCHANGED <<cancelSet, flagged, kills, asked>>
       \/ /\ \A t \in Turns : pc[t] # "ask"
          /\ HardCancel
          /\ UNCHANGED pc
    /\ Progress
    /\ UNCHANGED <<conn, rd, queue, owner, active, taskVars, save, evOwner,
                   stash, steerq, spliceVars, hist, cps, storeVars, sent, told,
                   steered, requeued, answered, removed, spoiled>>

WatchdogFires(c) ==
    /\ wd[c] # None /\ ActiveTurn
    /\ HardCancel
    /\ queue' = [queue EXCEPT ![c] = Append(@, wd[c])]
    /\ requeued' = requeued \cup {wd[c]}
    /\ wd' = [wd EXCEPT ![c] = None]
    /\ UNCHANGED <<conn, rd, owner, active, taskVars, pc, save, evOwner, stash,
                   steerq, spliceVars, hist, cps, storeVars, sent, told, steered,
                   answered, removed, spoiled, used>>

\* The loop takes a user frame and awaits its turn; nothing asks whether the
\* loop of another tab awaits one.
TurnStarts(c, t) ==
    /\ ~Busy(c) /\ queue[c] # <<>> /\ Head(queue[c]) # Bye
    /\ pc[t] = "unused" /\ \A u \in Turns : u < t => pc[u] # "unused"
    /\ pc' = [pc EXCEPT ![t] = "created"]
    /\ by' = [by EXCEPT ![t] = c]
    /\ user' = [user EXCEPT ![t] = Head(queue[c])]
    /\ queue' = [queue EXCEPT ![c] = Tail(@)]
    /\ active' = t /\ flagged' = FALSE
    /\ \/ Idle /\ UNCHANGED used
       \/ ~Idle /\ Spend("overlap")
    /\ UNCHANGED <<conn, rd, wd, owner, msgs, hops, kills, save, agentVars,
                   storeVars, userVars, spoiled>>

\* The loop is back from its turn, however it ended: one turn_cancelled if a
\* cancel was requested.
TurnOver(t) ==
    /\ pc[t] = "done"
    /\ pc' = [pc EXCEPT ![t] = "over"]
    /\ active' = IF active = t THEN None ELSE active
    /\ told' = IF flagged THEN [told EXCEPT ![t] = @ + 1] ELSE told
    /\ flagged' = FALSE
    /\ wd' = IF flagged THEN [c \in Conns |-> None]
             ELSE [wd EXCEPT ![by[t]] = None]
    /\ UNCHANGED <<conn, rd, queue, owner, taskVars, kills, save, agentVars,
                   storeVars, sent, asked, steered, requeued, answered,
                   removed, spoiled, used>>

LoopEnds(c) ==
    /\ ~Busy(c) /\ queue[c] # <<>> /\ Head(queue[c]) = Bye
    /\ conn' = [conn EXCEPT ![c] = "gone"]
    /\ queue' = [queue EXCEPT ![c] = <<>>]
    /\ owner' = IF owner = c THEN None ELSE owner
    /\ UNCHANGED <<rd, wd, gateVars, taskVars, runVars, agentVars, storeVars,
                   userVars, spoiled, used>>

-----------------------------------------------------------------------------
(* run_turn: its start, its end and what comes between *)

\* The steering queue of the session is dropped; a turn that is splicing it has
\* its own list from here on.
Unqueue == steerq' = <<>> /\ shared' = {}

\* Mutant: the cancel event of the turn stays registered.
Leave_KeepsEvent(t, ok) ==
    /\ UNCHANGED evOwner
    /\ Unqueue /\ todo' = [todo EXCEPT ![t] = <<>>]
    /\ \/ ok /\ pc' = [pc EXCEPT ![t] = "save"]
             /\ save' = [save EXCEPT ![t] = Hist]
             /\ answered' = answered \cup {t}
             /\ UNCHANGED hist
       \/ ~ok /\ hist' = (IF stash # None THEN Recovered(Stashed, t)
                          ELSE Apology(Hist, user[t], t))
              /\ pc' = [pc EXCEPT ![t] = IF stash # None THEN "recover" ELSE "save"]
              /\ save' = [save EXCEPT ![t] = hist']
              /\ UNCHANGED answered

\* Mutant: the steering queue outlives the turn.
Leave_KeepsQueue(t, ok) ==
    /\ evOwner' = None
    /\ UNCHANGED steerq /\ shared' = {} /\ todo' = [todo EXCEPT ![t] = <<>>]
    /\ \/ ok /\ pc' = [pc EXCEPT ![t] = "save"]
             /\ save' = [save EXCEPT ![t] = Hist]
             /\ answered' = answered \cup {t}
             /\ UNCHANGED hist
       \/ ~ok /\ hist' = (IF stash # None THEN Recovered(Stashed, t)
                          ELSE Apology(Hist, user[t], t))
              /\ pc' = [pc EXCEPT ![t] = IF stash # None THEN "recover" ELSE "save"]
              /\ save' = [save EXCEPT ![t] = hist']
              /\ UNCHANGED answered

\* Mutant: a failed turn saves the history as it is.
Leave_NoRecovery(t, ok) ==
    /\ evOwner' = None /\ Unqueue /\ todo' = [todo EXCEPT ![t] = <<>>]
    /\ pc' = [pc EXCEPT ![t] = "save"]
    /\ save' = [save EXCEPT ![t] = Hist]
    /\ answered' = IF ok THEN answered \cup {t} ELSE answered
    /\ UNCHANGED hist

\* The finally block of run_turn up to its first await: the cancel event and
\* the steering queue of the session are dropped; the history of a failed turn
\* is made from the stash or, without one, from what is loaded.
Leave(t, ok) ==
    /\ evOwner' = None /\ Unqueue /\ todo' = [todo EXCEPT ![t] = <<>>]
    /\ \/ ok /\ pc' = [pc EXCEPT ![t] = "save"]
             /\ save' = [save EXCEPT ![t] = Hist]
             /\ answered' = answered \cup {t}
             /\ UNCHANGED hist
       \/ ~ok /\ hist' = (IF stash # None THEN Recovered(Stashed, t)
                          ELSE Apology(Hist, user[t], t))
              /\ pc' = [pc EXCEPT ![t] = IF stash # None THEN "recover" ELSE "save"]
              /\ save' = [save EXCEPT ![t] = hist']
              /\ UNCHANGED answered

\* A turn that fails before the stored history is loaded knows nothing of it.
Blind == hist = None /\ stash = None /\ disk # <<>>

\* run_turn registers its cancel event and takes a checkpoint.
Begin(t) ==
    /\ pc[t] = "created"
    /\ pc' = [pc EXCEPT ![t] = "early"]
    /\ evOwner' = t
    /\ cps' = Append(cps, [turn |-> t, len |-> Len(Hist),
                           blind |-> hist = None /\ disk # <<>>])
    /\ UNCHANGED <<connVars, gateVars, taskVars, kills, save, cancelSet, stash,
                   steerq, spliceVars, hist, storeVars, userVars, spoiled, used>>

\* Mutant: a session that is not loaded starts empty.
Load_Never(t) ==
    /\ pc[t] = "early"
    /\ pc' = [pc EXCEPT ![t] = "prep"]
    /\ log' = Append(log, User(user[t]))
    /\ Progress
    /\ UNCHANGED <<conn, rd, queue, owner, gateVars, taskVars, kills, save,
                   agentVars, disk, down, stale, writes, userVars, spoiled, used>>

\* The user message is published, then the history is loaded: from the store
\* or, when the store has nothing or refuses, rebuilt from the event log; when
\* that fails as well, the turn goes on without it.
Load(t) ==
    /\ pc[t] = "early"
    /\ pc' = [pc EXCEPT ![t] = "prep"]
    /\ log' = Append(log, User(user[t]))
    /\ hist' \in IF hist # None THEN {hist}
                ELSE IF down THEN {Mended(log'), None}
                ELSE IF disk # <<>> THEN {disk}
                ELSE {Mended(log')}
    /\ spoiled' = IF hist' = None /\ disk # <<>> THEN spoiled \cup {"blind"}
                  ELSE spoiled
    /\ Progress
    /\ UNCHANGED <<conn, rd, queue, owner, gateVars, taskVars, kills, save,
                   evOwner, cancelSet, stash, steerq, spliceVars, cps, disk, down,
                   stale, writes, userVars, used>>

\* The working messages are built and stashed, by reference.
Prepare(t) ==
    /\ pc[t] = "prep"
    /\ msgs' = [msgs EXCEPT ![t] = Append(Hist, User(user[t]))]
    /\ stash' = [turn |-> t, len |-> Live]
    /\ pc' = [pc EXCEPT ![t] = "hop"]
    /\ Progress
    /\ UNCHANGED <<conn, rd, queue, owner, gateVars, by, user, hops, kills, save,
                   evOwner, cancelSet, steerq, spliceVars, hist, cps, storeVars, userVars,
                   spoiled, used>>

Splice(t, m) ==
    /\ msgs' = [msgs EXCEPT ![t] = Append(@, Steer(m))]
    /\ spliced' = spliced \cup {<<t, m>>}

\* Mutant: one hop too many.
HopStarts_OneMore(t) ==
    /\ pc[t] = "hop" /\ t \notin cancelSet /\ hops[t] <= MaxHops
    /\ \/ /\ steerq = <<>>
          /\ pc' = [pc EXCEPT ![t] = "llm"]
          /\ UNCHANGED <<msgs, spliceVars>>
       \/ /\ steerq # <<>>
          /\ Splice(t, Head(steerq))
          /\ todo' = [todo EXCEPT ![t] = Tail(steerq)] /\ shared' = shared \cup {t}
          /\ pc' = [pc EXCEPT ![t] = "splice"]
    /\ Progress
    /\ UNCHANGED <<conn, rd, queue, owner, gateVars, by, user, hops, kills, save,
                   evOwner, cancelSet, stash, steerq, hist, cps, storeVars,
                   userVars, spoiled, used>>

\* The top of a hop: the cancel fence passed, the model is asked; or there is
\* steering, and its first message is spliced in and announced.
HopStarts(t) ==
    /\ pc[t] = "hop" /\ t \notin cancelSet /\ hops[t] < MaxHops
    /\ \/ /\ steerq = <<>>
          /\ pc' = [pc EXCEPT ![t] = "llm"]
          /\ UNCHANGED <<msgs, spliceVars>>
       \/ /\ steerq # <<>>
          /\ Splice(t, Head(steerq))
          /\ todo' = [todo EXCEPT ![t] = Tail(steerq)] /\ shared' = shared \cup {t}
          /\ pc' = [pc EXCEPT ![t] = "splice"]
    /\ Progress
    /\ UNCHANGED <<conn, rd, queue, owner, gateVars, by, user, hops, kills, save,
                   evOwner, cancelSet, stash, steerq, hist, cps, storeVars,
                   userVars, spoiled, used>>

\* The next message of the list, which stays the session's queue until the last
\* is announced: what is accepted meanwhile is spliced too.
SpliceNext(t) ==
    /\ pc[t] = "splice" /\ todo[t] # <<>>
    /\ Splice(t, Head(todo[t]))
    /\ todo' = [todo EXCEPT ![t] = Tail(@)]
    /\ Progress
    /\ UNCHANGED <<conn, rd, queue, owner, gateVars, by, user, hops, runVars,
                   evOwner, cancelSet, stash, steerq, shared, hist, cps, storeVars,
                   userVars, spoiled, used>>

\* The queue is emptied, whatever it is by now, and the model is asked.
SpliceEnds(t) ==
    /\ pc[t] = "splice" /\ todo[t] = <<>>
    /\ Unqueue
    /\ pc' = [pc EXCEPT ![t] = "llm"]
    /\ Progress
    /\ UNCHANGED <<conn, rd, queue, owner, gateVars, taskVars, kills, save, evOwner,
                   cancelSet, stash, todo, spliced, hist, cps, storeVars, userVars,
                   spoiled, used>>

\* The fence, or the end of the hops.
HopRefused(t) ==
    /\ pc[t] = "hop" /\ (t \in cancelSet \/ hops[t] = MaxHops)
    /\ Leave(t, FALSE)
    /\ Progress
    /\ UNCHANGED <<conn, rd, queue, owner, gateVars, taskVars, kills, cancelSet,
                   stash, spliced, cps, storeVars, sent, asked, told, steered,
                   requeued, removed, spoiled, used>>

\* The model asks for a tool, or for ask_user_question.
LlmCalls(t, tool) ==
    /\ pc[t] = "llm"
    /\ msgs' = [msgs EXCEPT ![t] = Append(@, Call(t, hops[t]))]
    /\ log' = Append(log, Call(t, hops[t]))
    /\ pc' = [pc EXCEPT ![t] = tool]
    /\ Progress
    /\ UNCHANGED <<conn, rd, queue, owner, gateVars, by, user, hops, kills, save,
                   agentVars, disk, down, stale, writes, userVars, spoiled, used>>

\* The tool phase ends: cancelled, or the result is appended and the messages
\* so far are being saved.
ToolCancelled(t) ==
    /\ pc[t] \in {"tool", "ask"} /\ t \in cancelSet
    /\ Leave(t, FALSE)
    /\ Progress
    /\ UNCHANGED <<conn, rd, queue, owner, gateVars, taskVars, kills, cancelSet,
                   stash, spliced, cps, storeVars, sent, asked, told, steered,
                   requeued, removed, spoiled, used>>

ToolReturns(t) ==
    /\ pc[t] \in {"tool", "ask"} /\ t \notin cancelSet
    /\ msgs' = [msgs EXCEPT ![t] = Append(@, Result(t, hops[t]))]
    /\ log' = Append(log, Result(t, hops[t]))
    /\ hist' = msgs'[t]
    /\ hops' = [hops EXCEPT ![t] = @ + 1]
    /\ pc' = [pc EXCEPT ![t] = "midsave"]
    /\ Progress
    /\ UNCHANGED <<conn, rd, queue, owner, gateVars, by, user, kills, save,
                   evOwner, cancelSet, stash, steerq, spliceVars, cps, disk, down,
                   stale, writes, userVars, spoiled, used>>

\* The terminal answer, being saved in the same way; or one the honesty and
\* empty-answer guards send back for another hop.
LlmAnswers(t) ==
    /\ pc[t] = "llm"
    /\ msgs' = [msgs EXCEPT ![t] = Append(@, Reply(t))]
    /\ log' = Append(log, Reply(t))
    /\ hist' = msgs'[t]
    /\ pc' = [pc EXCEPT ![t] = "answer"]
    /\ Progress
    /\ UNCHANGED <<conn, rd, queue, owner, gateVars, by, user, hops, kills, save,
                   evOwner, cancelSet, stash, steerq, spliceVars, cps, disk, down,
                   stale, writes, userVars, spoiled, used>>

LlmDrafts(t) ==
    /\ pc[t] = "llm"
    /\ msgs' = [msgs EXCEPT ![t] = Append(@, Draft(t, hops[t]))]
    /\ log' = Append(log, Draft(t, hops[t]))
    /\ hops' = [hops EXCEPT ![t] = @ + 1]
    /\ pc' = [pc EXCEPT ![t] = "hop"]
    /\ Progress
    /\ UNCHANGED <<conn, rd, queue, owner, gateVars, by, user, kills, save,
                   agentVars, disk, down, stale, writes, userVars, spoiled, used>>

\* A save with mid_hop set ends and the stash becomes a copy; behind an answer
\* another save is begun, of the same list.
Saved(t) ==
    /\ pc[t] \in {"midsave", "answer"}
    /\ Saves(msgs[t])
    /\ stash' = [turn |-> t, len |-> Len(msgs[t])]
    /\ \/ pc[t] = "midsave" /\ pc' = [pc EXCEPT ![t] = "hop"] /\ UNCHANGED hist
       \/ pc[t] = "answer" /\ pc' = [pc EXCEPT ![t] = "post"] /\ hist' = msgs[t]
    /\ Progress
    /\ UNCHANGED <<conn, rd, queue, owner, gateVars, taskVars, kills, save,
                   evOwner, cancelSet, steerq, spliceVars, cps, writes, log,
                   userVars, spoiled, used>>

\* That one ends, and the hooks behind it: the turn returns.
Returns(t) ==
    /\ pc[t] = "post"
    /\ Saves(msgs[t])
    /\ Leave(t, TRUE)
    /\ Progress
    /\ UNCHANGED <<conn, rd, queue, owner, gateVars, taskVars, kills, cancelSet,
                   stash, spliced, cps, writes, log, sent, asked, told, steered,
                   requeued, removed, spoiled, used>>

\* A prompt hook denies the turn, a step raises, the model or the stuck-loop
\* guards give up.
Fails(t) ==
    /\ pc[t] \in Early \cup {"hop", "splice", "llm", "tool", "ask"}
    /\ Spend("fail")
    /\ Leave(t, FALSE)
    /\ spoiled' = IF Blind THEN spoiled \cup {"blind"} ELSE spoiled
    /\ Progress
    /\ UNCHANGED <<conn, rd, queue, owner, gateVars, taskVars, kills, cancelSet,
                   stash, spliced, cps, storeVars, sent, asked, told, steered,
                   requeued, removed>>

\* The task is done; a delayed cancel still under way will find it so.
Done(t) ==
    /\ pc' = [pc EXCEPT ![t] = "done"]
    /\ save' = [save EXCEPT ![t] = <<>>]
    /\ kills' = [kills EXCEPT ![t] = 0]
    /\ cancelSet' = cancelSet \ {t}

\* The hard cancel strikes: in the turn, whose finally block starts, or in the
\* finally block, which is left with the stash in place.  A save that was under
\* way goes on in its thread.
Killed(t) ==
    /\ kills[t] > 0
    /\ \/ /\ pc[t] \in Early \cup Working
          /\ Leave(t, FALSE)
          /\ kills' = [kills EXCEPT ![t] = @ - 1]
          /\ UNCHANGED cancelSet
       \/ /\ pc[t] \in Ending
          /\ Done(t)
          /\ UNCHANGED <<evOwner, steerq, todo, shared, hist, answered>>
    /\ writes' = writes \cup
         (CASE pc[t] \in {"midsave", "answer", "post"} -> {msgs[t]}
            [] pc[t] \in Ending -> {save[t]}
            [] OTHER -> {})
    /\ spoiled' = spoiled \cup (IF pc[t] \in Early /\ Blind THEN {"blind"} ELSE {})
                          \cup (IF pc[t] \in {"midsave", "answer", "post"} \cup Ending
                                THEN {"cut"} ELSE {})
    /\ Progress
    /\ UNCHANGED <<conn, rd, queue, owner, gateVars, taskVars, stash, spliced, cps,
                   disk, down, stale, log, sent, asked, told, steered, requeued,
                   removed, used>>

\* The recovered history is saved once by the recovery and once by the block.
RecoverySaved(t) ==
    /\ pc[t] = "recover"
    /\ Saves(save[t])
    /\ save' = [save EXCEPT ![t] = Hist]
    /\ pc' = [pc EXCEPT ![t] = "save"]
    /\ UNCHANGED <<connVars, gateVars, taskVars, kills, agentVars, writes, log,
                   userVars, spoiled, used>>

\* Mutant: the block does not save.
Ends_Unsaved(t) ==
    /\ pc[t] = "save"
    /\ stash' = None
    /\ Done(t)
    /\ UNCHANGED <<connVars, gateVars, taskVars, evOwner, steerq, spliceVars,
                   hist, cps, storeVars, userVars, spoiled, used>>

\* The finally block saves once more and drops the stash.
Ends(t) ==
    /\ pc[t] = "save"
    /\ Saves(save[t])
    /\ stash' = None
    /\ Done(t)
    /\ UNCHANGED <<connVars, gateVars, taskVars, evOwner, steerq, spliceVars,
                   hist, cps, writes, log, userVars, spoiled, used>>

-----------------------------------------------------------------------------
(* Orphaned saves, rewind, deletion, crash *)

WriteLands(q) ==
    /\ q \in writes
    /\ Saves(q) /\ writes' = writes \ {q}
    /\ UNCHANGED <<connVars, gateVars, taskVars, runVars, agentVars, log,
                   userVars, spoiled, used>>

\* The requests are not held back by a turn that runs.
Meddled == IF Running = {} THEN {} ELSE {"meddled"}

\* The user goes back to before a turn: the history is cut to the length noted
\* then, the later checkpoints dropped, the result saved.
Rewind(i) ==
    /\ i \in DOMAIN cps /\ Spend("rewind")
    /\ hist' = SubSeq(Hist, 1, IF cps[i].len < Len(Hist) THEN cps[i].len ELSE Len(Hist))
    /\ cps' = SubSeq(cps, 1, i)
    /\ Saves(hist')
    /\ removed' = removed \cup {t \in Turns : t >= cps[i].turn /\ pc[t] # "unused"}
    /\ spoiled' = spoiled \cup Meddled
                          \cup (IF cps[i].blind THEN {"blind"} ELSE {})
    /\ UNCHANGED <<connVars, gateVars, taskVars, runVars, evOwner, cancelSet,
                   stash, steerq, spliceVars, writes, log, sent, asked, told,
                   steered, requeued, answered>>

\* The session is deleted: its row, its events and the agent's state.
ClearSession ==
    /\ Spend("clear")
    /\ hist' = None /\ evOwner' = None /\ cps' = <<>> /\ Unqueue
    /\ Saves(<<>>) /\ log' = <<>>
    /\ removed' = {t \in Turns : pc[t] # "unused"}
    /\ spoiled' = spoiled \cup Meddled
    /\ UNCHANGED <<connVars, gateVars, taskVars, runVars, cancelSet, stash, todo,
                   spliced, writes, sent, asked, told, steered, requeued, answered>>

\* The daemon dies and is started again.
Crash ==
    /\ Spend("crash")
    /\ conn' = [c \in Conns |-> "new"] /\ rd' = [c \in Conns |-> None]
    /\ queue' = [c \in Conns |-> <<>>] /\ wd' = [c \in Conns |-> None]
    /\ owner' = None /\ active' = None /\ flagged' = FALSE
    /\ pc' = [t \in Turns |-> IF pc[t] \in Alive \cup {"done"} THEN "lost" ELSE pc[t]]
    /\ kills' = [t \in Turns |-> 0]
    /\ evOwner' = None /\ cancelSet' = {} /\ stash' = None /\ Unqueue
    /\ todo' = [t \in Turns |-> <<>>]
    /\ hist' = None /\ cps' = <<>> /\ writes' = {}
    /\ spoiled' = IF stale THEN spoiled \cup {"lost"} ELSE spoiled
    /\ stale' = FALSE
    /\ UNCHANGED <<taskVars, save, spliced, disk, down, log, userVars>>

\* The store begins to refuse (a locked or broken database) and serves again.
StoreFails ==
    /\ ~down /\ Spend("outage")
    /\ down' = TRUE
    /\ UNCHANGED <<connVars, gateVars, taskVars, runVars, agentVars, disk, stale,
                   writes, log, userVars, spoiled>>

StoreServes ==
    /\ down
    /\ down' = FALSE
    /\ UNCHANGED <<connVars, gateVars, taskVars, runVars, agentVars, disk, stale,
                   writes, log, userVars, spoiled, used>>

-----------------------------------------------------------------------------
TurnStep(t) ==
    \/ Begin(t) \/ Load(t) \/ Prepare(t) \/ HopStarts(t) \/ HopRefused(t)
    \/ SpliceNext(t) \/ SpliceEnds(t) \/ ToolCancelled(t) \/ Saved(t) \/ Returns(t) \/ RecoverySaved(t) \/ Ends(t)

Outcome(t) ==
    \/ \E tool \in {"tool", "ask"} : LlmCalls(t, tool)
    \/ ToolReturns(t) \/ LlmAnswers(t) \/ LlmDrafts(t) \/ Fails(t)

Next ==
    \/ \E c \in Conns :
         \/ Connect(c) \/ Disconnect(c) \/ HangUp(c) \/ Announced(c) \/ Stop(c)
         \/ WatchdogFires(c) \/ LoopEnds(c)
         \/ \E m \in Msgs : SendUser(c, m)
         \/ \E t \in Turns : TurnStarts(c, t)
    \/ \E t \in Turns : TurnStep(t) \/ Outcome(t) \/ Killed(t) \/ TurnOver(t)
    \/ \E q \in writes : WriteLands(q)
    \/ \E i \in DOMAIN cps : Rewind(i)
    \/ ClearSession \/ Crash \/ StoreFails \/ StoreServes

Spec == Init /\ [][Next]_vars

\* The event loop runs what can run, a delayed cancel strikes and the pool
\* finishes its saves.  Nothing obliges the model, a tool or the user to answer.
Fairness ==
    /\ \A t \in Turns : WF_vars(TurnStep(t)) /\ WF_vars(Killed(t)) /\ WF_vars(TurnOver(t))
    /\ WF_vars(\E q \in writes : WriteLands(q))

FairSpec == Spec /\ Fairness

-----------------------------------------------------------------------------
(* Properties *)

TypeOK ==
    /\ conn \in [Conns -> {"new", "open", "closed", "hungup", "gone"}]
    /\ rd \in [Conns -> Msgs \cup {None}] /\ wd \in [Conns -> Msgs \cup {None}]
    /\ \A c \in Conns : ToSet(queue[c]) \subseteq Msgs \cup {Bye}
    /\ owner \in Conns \cup {None} /\ active \in Turns \cup {None}
    /\ flagged \in BOOLEAN
    /\ pc \in [Turns -> Alive \cup {"unused", "done", "over", "lost"}]
    /\ by \in [Turns -> Conns \cup {None}] /\ user \in [Turns -> Msgs \cup {None}]
    /\ \A t \in Turns : ToSet(msgs[t]) \cup ToSet(save[t]) \subseteq Entries
    /\ hops \in [Turns -> 0 .. MaxHops] /\ kills \in [Turns -> Nat]
    /\ evOwner \in Turns \cup {None} /\ cancelSet \subseteq Turns
    /\ stash # None =>
          stash.turn \in Turns /\ stash.len \in 0 .. Len(msgs[stash.turn])
    /\ ToSet(steerq) \subseteq Msgs /\ ToSet(Hist) \subseteq Entries
    /\ \A t \in Turns : ToSet(todo[t]) \subseteq Msgs
    /\ shared \subseteq Turns /\ spliced \subseteq Turns \X Msgs
    /\ \A i \in DOMAIN cps : cps[i].turn \in Turns /\ cps[i].len \in Nat
    /\ ToSet(disk) \cup ToSet(log) \subseteq Entries
    /\ down \in BOOLEAN /\ stale \in BOOLEAN
    /\ sent \subseteq Msgs /\ asked \subseteq Turns /\ told \in [Turns -> Nat]
    /\ steered \subseteq Msgs /\ requeued \subseteq Msgs
    /\ answered \subseteq Turns /\ removed \subseteq Turns

\* No two turns ran at once and none of the mishaps in S happened.
Orderly(S) == used["overlap"] = 0 /\ spoiled \cap S = {}

\* Whatever stops a turn, and whenever: the history the next request is built
\* from and the stored one have every tool call answered at once, as the
\* strict providers demand (agent_loop.py:1494-1498).
HistoryPaired == Orderly({"meddled"}) => Paired(Hist) /\ Paired(disk)

\* One turn_cancelled for each turn a cancel was requested for, none for the
\* others (app.py:2932-2939), as long as the tabs do not run turns at once.
StopReported ==
    Orderly({}) =>
        \A t \in Turns : pc[t] = "over" => told[t] = IF t \in asked THEN 1 ELSE 0

\* What the user typed is in the history once its turn is over, also when the
\* turn failed or was killed, unless a second kill cut the recovery short.  The
\* memory is the source of truth (history_compression.py:885-886): a store that
\* refuses does not matter.
MessageKept ==
    \A t \in Turns :
        pc[t] = "over" /\ t \notin removed /\ used["crash"] = 0
        /\ Orderly({"cut", "meddled", "blind"})
        => User(user[t]) \in ToSet(Hist)

\* Between turns nothing of the last one is left: no cancel event that the next
\* stop would set, no stash that the next failure would recover.
IdleIsClean ==
    Idle => /\ evOwner = None /\ active = None
            /\ (Orderly({"cut", "meddled"}) => stash = None /\ ~flagged)

\* Between turns the stored history is the one in memory, unless the last save
\* was refused: that goes unnoticed (history_compression.py:883-887,
\* agent_loop.py:1592-1596).
IdleIsStored ==
    Idle /\ hist # None /\ ~stale /\ Orderly({"cut", "meddled"}) => disk = hist

\* A finished exchange stays stored through failures, kills and crashes of
\* later turns, until the user takes it back.  What a refused save leaves out the
\* next one adds, unless the daemon dies in between; but see FinishedKept.
FinishedStored ==
    ~stale /\ Orderly({"cut", "meddled", "blind", "lost"}) =>
        \A t \in answered \ removed : Reply(t) \in ToSet(disk)

\* The same without the known ways to lose it: "persist session history after
\* every turn so that ... fresh AgentLoop instances see the full conversation"
\* (agent_loop.py:1463-1465).
FinishedKept ==
    ~stale /\ Orderly({"cut", "meddled", "lost"}) =>
        \A t \in answered \ removed : Reply(t) \in ToSet(disk)

\* A message is taken up once, as steering or as a turn, unless the watchdog
\* requeued it.  No turn splices it twice, whatever the tabs do; that no two turns
\* do needs turns that run one at a time, see SplicedOnce.
TakenOnce ==
    /\ \A t \in Turns : user[t] \in steered => user[t] \in requeued
    /\ \A t, u \in Turns : t < u /\ user[t] # None /\ user[t] = user[u] => FALSE
    /\ \A t \in Turns : \A m \in steered :
          Cardinality({i \in DOMAIN msgs[t] : msgs[t][i] = Steer(m)}) <= 1
    /\ Orderly({}) => \A x, y \in spliced : x[2] = y[2] => x = y

\* A turn the user stopped ends, whether or not the model, the tool or the
\* user it waits for ever answers.
StoppedEnds ==
    \A t \in Turns : t \in asked ~> pc[t] \in {"over", "lost"}

\* A turn that fails keeps all its messages: "Appends are seen through the
\* shared reference" (agent_loop.py:3902), "the finally block must not regress
\* to an older (shorter) message list" (history_compression.py:889-892).
RecoveryKeepsProgress ==
    \A t \in Turns : pc[t] = "recover" => IsPrefix(msgs[t], Hist)

\* "everything else is queued for the serial loop below, preserving the old
\* one-turn-at-a-time ordering" (app.py:2352-2353).
OneTurnAtATime == Cardinality(Running) <= 1

\* A message is spliced into one turn, also when two tabs run turns at once: the
\* list is the session's queue until its last message is announced
\* (hop_loop.py:555-567).
SplicedOnce == \A x, y \in spliced : x[2] = y[2] => x = y

\* "the first turn starts empty" (agent_loop.py:2500): the model is given the
\* message that started the turn once.
MessageGivenOnce ==
    \A t \in Turns : Cardinality({i \in DOMAIN msgs[t] : msgs[t][i] = User(user[t])}) <= 1
=============================================================================
