----------------------------- MODULE KernelPool -----------------------------
(***************************************************************************)
(* The pool of Python kernels behind the code_python tool: one subprocess  *)
(* per session, started by the first call that needs it, used through a    *)
(* blocking client in a worker thread, and killed by a reset, by eviction, *)
(* by the idle reaper, after a hang or at shutdown.                        *)
(*                                                                         *)
(* A kernel is named after the call that starts it.  The global lock is    *)
(* held across an await only while a kernel starts (pc "spawning"), the    *)
(* lock of an entry while its kernel boots or runs code.  A worker thread  *)
(* cannot be cancelled: what awaited it may be gone when it ends.  Which   *)
(* of several waiters gets a lock is left open.                            *)
(***************************************************************************)
EXTENDS Integers, FiniteSets

CONSTANTS
    Calls,          \* calls of the tool, each made once
    Sessions,
    Asks,           \* the sessions each call may be made in
    MaxKernels,     \* max_kernels
    None,
    Limit,          \* how often each event may happen: a bound of the model
    MaxMix          \* how many kinds of them may meet: a bound of the model

Events == {"reset", "cancel", "hang", "error", "die", "unready", "life"}

ASSUME ConstantsAssumption ==
    /\ IsFiniteSet(Sessions) /\ Asks \in [Calls -> SUBSET Sessions]
    /\ MaxKernels \in Nat \ {0} /\ None \notin Calls \cup Sessions
    /\ Limit \in [Events -> Nat] /\ MaxMix \in Nat

VARIABLES
    pool,       \* _entries: the kernel of each session, or None
    older,      \* <<s, t>>: the entry of s was used before that of t
    dead,       \* kernels whose entry has the sticky flag
    booted,     \* kernels whose entry has been bootstrapped
    proc,       \* the process of each kernel
    killing,    \* kernels with a _kill_entry under way
    pc,         \* where each call stands
    session,    \* its session
    kof,        \* the kernel each call got, or None
    result,     \* what each call returned
    threads,    \* worker threads that use a client: <<call, "boot" or "user">>
    reaping,    \* entries reap_idle has popped and not come to yet
    daemon,     \* the lifespan: "up", "stopping", "sweeping", "off"
    strays,     \* history: kernels the code lost track of
    used        \* history: how often each event happened

poolVars == <<pool, older, dead, booted>>
procVars == <<proc, killing, strays>>
callVars == <<pc, session, kof, result, threads>>
lifeVars == <<reaping, daemon>>
vars == <<pool, older, dead, booted, proc, killing, strays, pc, session, kof,
          result, threads, reaping, daemon, used>>

Awaited == {"boot", "user"}
Steps == {"new", "asked", "queued", "resetting", "spawning", "waiting", "ended"}
             \cup Awaited

\* returncode 0 or 1; 124; 137; an exception, on which the tool falls back to
\* a subprocess; the turn's Stop.
Results == {"none", "ok", "timeout", "killed", "raised", "cancelled"}
Live == {k \in Calls : proc[k] \in {"starting", "up"}}
Pooled == {s \in Sessions : pool[s] # None}

Init ==
    /\ pool = [s \in Sessions |-> None]
    /\ older = {} /\ dead = {} /\ booted = {}
    /\ proc = [k \in Calls |-> "none"]
    /\ killing = {} /\ strays = {}
    /\ pc = [c \in Calls |-> "new"]
    /\ session \in {f \in [Calls -> Sessions] : \A c \in Calls : f[c] \in Asks[c]}
    /\ kof = [c \in Calls |-> None]
    /\ result = [c \in Calls |-> "none"]
    /\ threads = {} /\ reaping = {}
    /\ daemon = "up"
    /\ used = [e \in Events |-> 0]

Spend(e) ==
    /\ used[e] < Limit[e]
    /\ Cardinality({g \in Events : used[g] > 0} \cup {e}) <= MaxMix
    /\ used' = [used EXCEPT ![e] = @ + 1]

Goto(c, step) == pc' = [pc EXCEPT ![c] = step]

Ends(c, r) ==
    /\ Goto(c, "ended")
    /\ result' = [result EXCEPT ![c] = r]

\* entry.last_used = time.monotonic()
Touched(s) ==
    {p \in older : p[1] # s /\ p[1] \in Pooled} \cup {<<t, s>> : t \in Pooled \ {s}}

GlobalFree_Never == TRUE
GlobalFree == \A c \in Calls : pc[c] # "spawning"
EntryFree_Kept(k) ==
    \A c \in Calls : pc[c] \in Awaited \/ result[c] = "cancelled" => kof[c] # k

EntryFree(k) == \A c \in Calls : pc[c] \in Awaited => kof[c] # k

-----------------------------------------------------------------------------
(* A call of the tool *)

\* The call is at the global lock: the tool has found the default pool wired.
AtPool(c) == pc[c] = "queued" \/ (pc[c] = "new" /\ daemon # "off")

\* It has to wait there while a kernel starts, with reset=True or without.
Queue(c) ==
    /\ pc[c] = "new" /\ daemon # "off" /\ ~GlobalFree
    /\ \/ /\ Spend("reset")
          /\ Goto(c, "asked")
       \/ /\ Goto(c, "queued")
          /\ UNCHANGED used
    /\ UNCHANGED <<poolVars, procVars, session, kof, result, threads,
                   lifeVars>>

AsksReset(c) ==
    \/ /\ pc[c] = "new" /\ daemon # "off"
       /\ Spend("reset")
    \/ /\ pc[c] = "asked"
       /\ UNCHANGED used

ResetSession_Unkilled(c) ==
    /\ AsksReset(c) /\ GlobalFree
    /\ pool' = [pool EXCEPT ![session[c]] = None]
    /\ Goto(c, "queued")
    /\ UNCHANGED <<older, dead, booted, procVars, session, kof, result,
                   threads, lifeVars>>

ResetSession_Unbound(c) ==
    LET s == session[c] IN
    /\ AsksReset(c) /\ GlobalFree
    /\ pool' = [pool EXCEPT ![s] = None]
    /\ killing' = killing \cup {pool[s]}
    /\ kof' = [kof EXCEPT ![c] = pool[s]]
    /\ Goto(c, "resetting")
    /\ UNCHANGED <<older, dead, booted, proc, strays, session, result,
                   threads, lifeVars>>

ResetSession(c) ==
    LET s == session[c] IN
    /\ AsksReset(c) /\ GlobalFree
    /\ pool' = [pool EXCEPT ![s] = None]
    /\ \/ /\ pool[s] = None
          /\ Goto(c, "queued")
          /\ UNCHANGED <<killing, kof>>
       \/ /\ pool[s] # None
          /\ killing' = killing \cup {pool[s]}
          /\ kof' = [kof EXCEPT ![c] = pool[s]]
          /\ Goto(c, "resetting")
    /\ UNCHANGED <<older, dead, booted, proc, strays, session, result,
                   threads, lifeVars>>

ResetDone(c) ==
    /\ pc[c] = "resetting" /\ kof[c] \notin killing
    /\ Goto(c, "queued")
    /\ UNCHANGED <<poolVars, procVars, session, kof, result, threads,
                   lifeVars, used>>

\* The entry's lock is held: the bootstrap runs first, once per entry.
Enter(c, k) ==
    LET ph == IF k \in booted THEN "user" ELSE "boot" IN
    /\ Goto(c, ph)
    /\ threads' = threads \cup {<<c, ph>>}
    /\ booted' = booted \cup {k}

HasEntry(s) == pool[s] # None /\ pool[s] \notin dead

\* _get_or_create finds an entry; execute waits for its lock or goes on.
GetEntry(c) ==
    LET k == pool[session[c]] IN
    /\ AtPool(c) /\ GlobalFree /\ HasEntry(session[c])
    /\ kof' = [kof EXCEPT ![c] = k]
    /\ older' = Touched(session[c])
    /\ \/ /\ EntryFree(k)
          /\ Enter(c, k)
       \/ /\ ~EntryFree(k)
          /\ Goto(c, "waiting")
          /\ UNCHANGED <<threads, booted>>
    /\ UNCHANGED <<pool, dead, procVars, session, result, lifeVars, used>>

Victims_OneMore ==
    IF Cardinality(Pooled) <= MaxKernels THEN {None}
    ELSE {v \in Pooled : \A t \in Pooled : <<t, v>> \notin older}

Victims ==
    IF Cardinality(Pooled) < MaxKernels THEN {None}
    ELSE {v \in Pooled : \A t \in Pooled : <<t, v>> \notin older}

\* _get_or_create starts one, after evicting the least recently used entry
\* when the pool is full, whether that one is in use or not.
Spawn(c) ==
    /\ AtPool(c) /\ GlobalFree /\ ~HasEntry(session[c])
    /\ \E v \in Victims :
        \/ /\ v = None
           /\ UNCHANGED <<pool, killing>>
        \/ /\ v # None
           /\ pool' = [pool EXCEPT ![v] = None]
           /\ killing' = killing \cup {pool[v]}
    /\ kof' = [kof EXCEPT ![c] = c]
    /\ proc' = [proc EXCEPT ![c] = "starting"]
    /\ Goto(c, "spawning")
    /\ UNCHANGED <<older, dead, booted, strays, session, result, threads,
                   lifeVars, used>>

\* shutdown_all has cleared the entries.
Swept == daemon \in {"sweeping", "off"}

\* The start thread reports a kernel: the entry takes the place of what the
\* session had, a dead entry whose process nobody kills from now on.  An entry
\* made after shutdown_all has cleared the pool is not met by it any more.
SpawnReady(c) ==
    LET s == session[c] IN
    /\ pc[c] = "spawning"
    /\ proc' = [proc EXCEPT ![c] = "up"]
    /\ pool' = [pool EXCEPT ![s] = c]
    /\ older' = Touched(s)
    /\ Enter(c, c)
    /\ strays' = IF Swept THEN strays \cup {c} ELSE strays
    /\ UNCHANGED <<dead, killing, session, kof, result, lifeVars, used>>

\* start_kernel raises, or the process starts and does not answer in 30 s: its
\* manager is dropped with the thread's frame.
SpawnFails(c) ==
    /\ pc[c] = "spawning"
    /\ Spend("unready")
    /\ \/ /\ proc' = [proc EXCEPT ![c] = "gone"]
          /\ UNCHANGED strays
       \/ /\ proc' = [proc EXCEPT ![c] = "up"]
          /\ strays' = strays \cup {c}
    /\ Ends(c, "raised")
    /\ UNCHANGED <<poolVars, killing, session, kof, threads, lifeVars>>

\* The same thread when the call that awaited it was cancelled.
StrayStart(k) ==
    /\ proc[k] = "starting" /\ pc[k] = "ended"
    /\ \E p \in {"up", "gone"} : proc' = [proc EXCEPT ![k] = p]
    /\ UNCHANGED <<poolVars, killing, strays, callVars, lifeVars, used>>

-----------------------------------------------------------------------------
(* Execution *)

\* A waiter gets the lock.  Neither that the entry is dead nor that it has
\* left the pool is looked at again.
Acquire(c) ==
    /\ pc[c] = "waiting" /\ EntryFree(kof[c])
    /\ Enter(c, kof[c])
    /\ UNCHANGED <<pool, older, dead, procVars, session, kof, result,
                   lifeVars, used>>

\* What a thread can come back with.  The death of the process is not seen:
\* the thread waits for messages until its own deadline.  Closed channels make
\* receiving return 137 and sending raise.
Outcomes(k) ==
    (IF proc[k] = "up" THEN {"ok", "timeout"} ELSE {})
        \cup (IF proc[k] = "exited" THEN {"timeout"} ELSE {})
        \cup (IF k \in killing \/ proc[k] = "gone" THEN {"killed", "raised"} ELSE {})

\* The rest of execute after _execute_locked: whatever the bootstrap did, the
\* user's code follows; after the user's code the call ends.
Resume(c, ph, r, rest) ==
    IF ph = "boot"
    THEN /\ Goto(c, "user")
         /\ threads' = rest \cup {<<c, "user">>}
         /\ UNCHANGED result
    ELSE /\ Ends(c, r)
         /\ threads' = rest

\* A thread ends while its call awaits it; only a raise marks the entry dead.
\* A raise may also come from the client, of a kernel that is well.
ThreadEnds(c) ==
    LET k == kof[c]
        ph == pc[c]
    IN  /\ ph \in Awaited /\ <<c, ph>> \in threads
        /\ \E r \in Outcomes(k) \cup {"raised"} :
            /\ \/ /\ r \in Outcomes(k)
                  /\ UNCHANGED <<strays, used>>
               \/ /\ r \notin Outcomes(k)
                  /\ Spend("error")
                  /\ strays' = strays \cup {k}
            /\ Resume(c, ph, r, threads \ {<<c, ph>>})
            /\ dead' = IF r = "raised" THEN dead \cup {k} ELSE dead
            /\ older' = IF r # "raised" /\ pool[session[c]] = k
                        THEN Touched(session[c]) ELSE older
        /\ UNCHANGED <<pool, booted, proc, killing, session, kof, lifeVars>>

\* It ends after the call stopped waiting for it.
LateThreadEnds(c, ph) ==
    /\ <<c, ph>> \in threads /\ pc[c] # ph
    /\ threads' = threads \ {<<c, ph>>}
    /\ UNCHANGED <<poolVars, procVars, pc, session, kof, result, lifeVars,
                   used>>

HardTimeout_NotDead(c) ==
    /\ pc[c] \in Awaited /\ <<c, pc[c]>> \in threads
    /\ Spend("hang")
    /\ killing' = killing \cup {kof[c]}
    /\ Resume(c, pc[c], "killed", threads)
    /\ UNCHANGED <<poolVars, proc, strays, session, kof, lifeVars>>

\* The event loop's own deadline: the kernel is killed, the thread is left.
HardTimeout(c) ==
    LET k == kof[c] IN
    /\ pc[c] \in Awaited /\ <<c, pc[c]>> \in threads
    /\ Spend("hang")
    /\ dead' = dead \cup {k}
    /\ killing' = killing \cup {k}
    /\ Resume(c, pc[c], "killed", threads)
    /\ UNCHANGED <<pool, older, booted, proc, strays, session, kof, lifeVars>>

\* The user's Stop cancels the call wherever it awaits; the locks are released
\* and the threads it started go on.
Cancel(c) ==
    /\ pc[c] \notin {"new", "ended"}
    /\ Spend("cancel")
    /\ Ends(c, "cancelled")
    /\ strays' = IF pc[c] = "spawning" THEN strays \cup {c} ELSE strays
    /\ UNCHANGED <<poolVars, proc, killing, session, kof, threads, lifeVars>>

-----------------------------------------------------------------------------
(* Processes, the reaper, shutdown *)

ProcessDies(k) ==
    /\ proc[k] = "up"
    /\ Spend("die")
    /\ proc' = [proc EXCEPT ![k] = "exited"]
    /\ UNCHANGED <<poolVars, killing, strays, callVars, lifeVars>>

KillDone(k) ==
    /\ k \in killing
    /\ proc' = [proc EXCEPT ![k] = "gone"]
    /\ killing' = killing \ {k}
    /\ UNCHANGED <<poolVars, strays, callVars, lifeVars, used>>

\* No call waits for the kernel or uses it: a call takes minutes at most, the
\* idle timeout is half an hour.
InUse(k) ==
    \/ \E c \in Calls : kof[c] = k /\ pc[c] \in Awaited \cup {"waiting"}
    \/ \E t \in threads : kof[t[1]] = k

\* reap_idle pops the entries that have been idle for too long: some of the
\* sessions, with every one that was used before them.  It kills them one
\* after the other.
ReapIdle(S) ==
    /\ daemon = "up" /\ GlobalFree /\ reaping = {}
    /\ S # {} /\ S \subseteq Pooled
    /\ \A s \in S : ~InUse(pool[s])
    /\ \A s \in S, t \in Pooled : <<t, s>> \in older => t \in S
    /\ Spend("life")
    /\ pool' = [s \in Sessions |-> IF s \in S THEN None ELSE pool[s]]
    /\ \E v \in S :
        /\ killing' = killing \cup {pool[v]}
        /\ reaping' = {pool[s] : s \in S \ {v}}
    /\ UNCHANGED <<older, dead, booted, proc, strays, callVars, daemon>>

ReapNext(k) ==
    /\ k \in reaping
    /\ reaping' = reaping \ {k}
    /\ killing' = killing \cup {k}
    /\ UNCHANGED <<poolVars, proc, strays, callVars, daemon, used>>

\* The lifespan cancels the reaper first, between two kills if it is at work.
Stop ==
    /\ daemon = "up"
    /\ Spend("life")
    /\ daemon' = "stopping"
    /\ strays' = strays \cup reaping
    /\ reaping' = {}
    /\ UNCHANGED <<poolVars, proc, killing, callVars>>

\* shutdown_all, and then set_default_pool(None).
ShutdownAll ==
    /\ daemon = "stopping" /\ GlobalFree
    /\ daemon' = "sweeping"
    /\ pool' = [s \in Sessions |-> None]
    /\ killing' = killing \cup {pool[s] : s \in Pooled}
    /\ UNCHANGED <<older, dead, booted, proc, strays, callVars, reaping, used>>

Unwire ==
    /\ daemon = "sweeping" /\ killing = {}
    /\ daemon' = "off"
    /\ UNCHANGED <<poolVars, procVars, callVars, reaping, used>>

Next ==
    \/ \E c \in Calls :
        \/ Queue(c)
        \/ ResetSession(c)
        \/ ResetDone(c)
        \/ GetEntry(c)
        \/ Spawn(c)
        \/ SpawnReady(c)
        \/ SpawnFails(c)
        \/ StrayStart(c)
        \/ Acquire(c)
        \/ ThreadEnds(c)
        \/ \E ph \in Awaited : LateThreadEnds(c, ph)
        \/ HardTimeout(c)
        \/ Cancel(c)
        \/ ProcessDies(c)
        \/ KillDone(c)
        \/ ReapNext(c)
    \/ \E S \in SUBSET Sessions : ReapIdle(S)
    \/ Stop
    \/ ShutdownAll
    \/ Unwire

Spec == Init /\ [][Next]_vars

\* What the event loop, the worker threads and the operating system do without
\* anybody asking for it.
Progress ==
    \/ \E c \in Calls :
        \/ pc[c] # "new" /\ (ResetSession(c) \/ GetEntry(c) \/ Spawn(c))
        \/ ResetDone(c)
        \/ SpawnReady(c) \/ StrayStart(c) \/ Acquire(c) \/ ThreadEnds(c)
        \/ \E ph \in Awaited : LateThreadEnds(c, ph)
        \/ KillDone(c) \/ ReapNext(c)
    \/ ShutdownAll
    \/ Unwire

\* The event loop serves every waiter; a start gives up after 30 s, a thread at
\* its deadline or when its channels are closed, and killing a process is quick.
FairSpec == Spec /\ WF_vars(Progress)

-----------------------------------------------------------------------------
(* Properties *)

TypeOK ==
    /\ pool \in [Sessions -> Calls \cup {None}]
    /\ older \subseteq Sessions \X Sessions
    /\ dead \subseteq Calls /\ booted \subseteq Calls
    /\ proc \in [Calls -> {"none", "starting", "up", "exited", "gone"}]
    /\ killing \subseteq Calls /\ strays \subseteq Calls
    /\ pc \in [Calls -> Steps]
    /\ session \in [Calls -> Sessions]
    /\ kof \in [Calls -> Calls \cup {None}]
    /\ result \in [Calls -> Results]
    /\ threads \subseteq Calls \X Awaited
    /\ reaping \subseteq Calls
    /\ daemon \in {"up", "stopping", "sweeping", "off"}
    /\ used \in [Events -> Nat]

\* A live process is in a pool that shutdown_all will come to, on its way into
\* it, or about to be killed, unless the code lost it in one of five ways: its
\* start failed late, the call that started it was cancelled, its entry was
\* marked dead by an exception of the client, the reaper was cancelled halfway,
\* or the start ended after shutdown_all had cleared the entries.
KernelAccounted ==
    \A k \in Live \ strays :
        \/ ~Swept /\ \E s \in Sessions : pool[s] = k
        \/ pc[k] = "spawning"
        \/ k \in killing \cup reaping

\* No session has two kernels its code could run in from now on: variables
\* do not vanish by a call landing elsewhere.
OneNamespace ==
    \A j, k \in Live \ (dead \cup strays \cup killing \cup reaping) :
        session[j] = session[k] => j = k

\* The cap holds across the seconds a start takes.
CapHolds == Cardinality(Pooled) <= MaxKernels

\* One call at a time is in a kernel, and a thread that uses its client with
\* nobody waiting for it was left by a cancelled call or by a hard timeout.
StrayThreadHasCause ==
    /\ \A c, d \in Calls :
        (pc[c] \in Awaited /\ pc[d] \in Awaited /\ kof[c] = kof[d]) => c = d
    /\ \A t \in threads :
        \/ pc[t[1]] = t[2]
        \/ result[t[1]] = "cancelled"
        \/ kof[t[1]] \in dead

\* Two threads never use one client ("concurrent calls into the SAME session
\* serialise (ipykernel's blocking client isn't reentrant)").
OneClientUser ==
    \A t, u \in threads : kof[t[1]] = kof[u[1]] => t = u

\* "shutdown_all() kills every kernel - called by app_lifespan on daemon shutdown
\* so we don't leak python.exe children" (kernel_pool.py:154), whatever became
\* of the kernels lost before.
ShutdownKillsAll ==
    daemon = "off" => \A k \in Live : \A s \in Sessions : pool[s] # k

\* A call ends, with a result or an exception, whatever happens to its kernel.
CallEnds ==
    \A c \in Calls : pc[c] \notin {"new", "ended"} ~> pc[c] = "ended"
=============================================================================
