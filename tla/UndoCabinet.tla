---------------------------- MODULE UndoCabinet ----------------------------
(***************************************************************************)
(* The undo cabinet: before a file tool changes a file, a copy of it and a *)
(* row are stored; undoing a row puts the copy back.  Rows are undone by   *)
(* id, newest first over a span of time, or by rewinding a session to a    *)
(* checkpoint, and expire after a window.                                  *)
(*                                                                         *)
(* No operation awaits: each is one action.  It may fail at a row, or the  *)
(* process may die there, which leaves a file half written, a row that is  *)
(* still active though its file is back, or a copy no row refers to.  Rows *)
(* are numbered in the order of their time.                                *)
(***************************************************************************)
EXTENDS Integers, FiniteSets

CONSTANTS
    Edits,                      \* calls of file_write, apply_patch, file_delete
    Deletes,                    \* those of file_delete
    Paths, PathOf,              \* the file of each call
    Sessions, SessionOf,        \* the session of each call
    Existing,                   \* the files there are at first
    Start, Absent, Torn, Outside,   \* contents besides what the calls write
    MaxRows                     \* rows in all: a bound of the model

Rows == 1 .. MaxRows

\* A copy that is not there.
NoCopy == "no copy"
Contents == Edits \cup {Start, Absent, Torn, Outside}

ASSUME UndoAssumption ==
    /\ Deletes \subseteq Edits /\ Existing \subseteq Paths
    /\ PathOf \in [Edits -> Paths] /\ SessionOf \in [Edits -> Sessions]
    /\ MaxRows \in Nat
    /\ NoCopy \notin Contents

VARIABLES
    file,       \* what is in each file
    rows,       \* number of rows
    call,       \* the call of each row
    state,      \* "none", "active", "undone", "expired"
    existed,    \* rows with pre_existed
    copy,       \* the backup each row refers to, or NoCopy
    left,       \* what is in the backups no row refers to
    aged,       \* rows past the window
    back,       \* history: rows whose file has been put back
    cps         \* checkpoints: the session, the rows there were (its time), and
                \* as history the files then and those whose way back is whole

undoVars == <<file, rows, call, state, existed, copy, left, aged, back, cps>>

UndoInit ==
    /\ file = [p \in Paths |-> IF p \in Existing THEN Start ELSE Absent]
    /\ rows = 0
    /\ call = [r \in Rows |-> NoCopy]
    /\ state = [r \in Rows |-> "none"]
    /\ existed = {}
    /\ copy = [r \in Rows |-> NoCopy]
    /\ left = {} /\ back = {}
    /\ aged = {}
    /\ cps = {}

Active == {r \in Rows : state[r] = "active"}
Path(r) == PathOf[call[r]]
Expiring == Active \cap aged

\* A row whose copy is missing cannot be undone.
Undoable(r) == r \in existed => copy[r] # NoCopy

\* The rows of `gone' expire and those of S are undone.
Marked(gone, S) ==
    /\ state' = [r \in Rows |-> IF r \in gone THEN "expired"
                                ELSE IF r \in S /\ Undoable(r) THEN "undone" ELSE state[r]]
    /\ UNCHANGED <<rows, call, existed, aged>>

\* The copies of these rows are unlinked, or stay on the disk as `kept'.
Freed(gone, kept) ==
    /\ copy' = [r \in Rows |-> IF r \in gone THEN NoCopy ELSE copy[r]]
    /\ left' = left \cup kept

\* What stays when a copy of these rows cannot be unlinked, which nobody hears of.
Kept(gone, fault) ==
    IF fault = "stuck" THEN SUBSET ({copy[r] : r \in gone} \ {NoCopy}) \ {{}} ELSE {{}}

-----------------------------------------------------------------------------
(* Recording and changing *)

\* What the call writes.
Written(c) == IF c \in Deletes THEN Absent ELSE c

\* A row for c, after _gc has expired the rows past the window; a file that cannot
\* be copied counts as not existing.
Record(c, readable, kept) ==
    LET r == rows + 1
        there == file[PathOf[c]] # Absent /\ readable
    IN
    /\ rows' = r
    /\ call' = [call EXCEPT ![r] = c]
    /\ state' = [q \in Rows |-> IF q = r THEN "active"
                                ELSE IF q \in Expiring THEN "expired" ELSE state[q]]
    /\ existed' = IF there THEN existed \cup {r} ELSE existed
    /\ copy' = [q \in Rows |-> IF q = r /\ there THEN file[PathOf[c]]
                               ELSE IF q \in Expiring THEN NoCopy ELSE copy[q]]
    /\ left' = left \cup kept

\* The store fails: _gc has unlinked copies and is rolled back, or it went well
\* and the new copy is on the disk, but not its row.
NoRow(c, freed) ==
    \E gone \in {{}, Expiring}, kept \in {{}, {file[PathOf[c]]} \ {Absent}} :
        /\ gone \subseteq freed /\ (kept # {} => gone = Expiring)
        /\ Marked(gone, {})
        /\ Freed(freed, kept)

\* A checkpoint of which these rows and these files are no part any more.
Without(k, gone, paths) ==
    [k EXCEPT !.whole = @ \ ({Path(r) : r \in {q \in gone : q > k.rows}} \cup paths)]

\* A file tool: the row, then the change.  fault: the file cannot be copied, an
\* old copy cannot be unlinked, the row cannot be stored (the tool goes on without),
\* the change fails.
Edit(c, fault) ==
    LET p == PathOf[c] IN
    /\ c \in Deletes => file[p] # Absent
    /\ rows < MaxRows
    /\ \/ /\ fault # "norow"
          /\ \E kept \in Kept(Expiring, fault)
                         \cup (IF fault = "unread" /\ file[p] # Absent THEN {{Torn}} ELSE {}) :
                Record(c, fault # "unread", kept)
          /\ cps' = {Without(k, Expiring, IF fault = "unread" THEN {p} ELSE {}) : k \in cps}
       \/ /\ fault = "norow"
          /\ \E freed \in SUBSET Expiring :
                /\ NoRow(c, freed)
                /\ cps' = {Without(k, freed, {p}) : k \in cps}
    /\ file' = IF fault = "fail" THEN file ELSE [file EXCEPT ![p] = Written(c)]
    /\ UNCHANGED <<aged, back>>

\* The process dies in a file tool, before the change.
EditDies(c) ==
    /\ c \in Deletes => file[PathOf[c]] # Absent
    /\ rows < MaxRows
    /\ \/ Record(c, TRUE, {})
       \/ \E freed \in SUBSET Expiring : NoRow(c, freed)
    /\ cps' = {}
    /\ UNCHANGED <<file, aged, back>>

\* Something else writes or deletes the file.
OutsideEdit(p, x) ==
    /\ file' = [file EXCEPT ![p] = x]
    /\ cps' = {[k EXCEPT !.whole = @ \ {p}] : k \in cps}
    /\ UNCHANGED <<rows, call, state, existed, copy, left, aged, back>>

RowAges(r) ==
    /\ r <= rows /\ r \notin aged /\ \A q \in 1 .. r - 1 : q \in aged
    /\ aged' = aged \cup {r}
    /\ UNCHANGED <<file, rows, call, state, existed, copy, left, back, cps>>

-----------------------------------------------------------------------------
(* Undoing *)

\* What a row's file had before.
Before_Copy(r) == copy[r]

Before(r) == IF r \in existed THEN copy[r] ELSE Absent

\* The files once the rows of S are undone, newest first.
Undone_OldestFirst(S) ==
    LET f[r \in 0 .. MaxRows] ==
            IF r = 0 THEN file
            ELSE IF r \in S /\ Undoable(r) THEN [f[r - 1] EXCEPT ![Path(r)] = Before(r)]
            ELSE f[r - 1]
    IN f[MaxRows]

Undone(S) ==
    LET f[n \in 0 .. MaxRows] ==
            IF n = 0 THEN file
            ELSE LET r == MaxRows + 1 - n
                     newer == f[n - 1]
                 IN IF r \in S /\ Undoable(r) THEN [newer EXCEPT ![Path(r)] = Before(r)]
                    ELSE newer
    IN f[MaxRows]

\* Whose way back to checkpoint k is lost when the rows of S are undone and those
\* of `gone' expire: undoing a row from before k, or one below an active row of
\* the same file.
LostBy(k, gone, S) ==
    {Path(r) : r \in {q \in gone : q > k.rows}}
    \cup {Path(r) : r \in {q \in S : q <= k.rows}}
    \cup {Path(r) : r \in {q \in S : \E newer \in Active \ (S \cup gone) :
                                newer > q /\ Path(newer) = Path(q)}}

\* The files of the rows of S are put back.
PutBack(S) ==
    /\ file' = Undone(S)
    /\ back' = back \cup {r \in S : Undoable(r)}

\* All of S is undone.
AllUndone(K, gone, S, kept) ==
    /\ PutBack(S)
    /\ Marked(gone, S)
    /\ Freed(gone \cup {r \in S : Undoable(r)}, kept)
    /\ cps' = {[k EXCEPT !.whole = @ \ LostBy(k, gone, S)] : k \in K}

\* The store cannot be reached, or fails in _gc, which has unlinked copies and is
\* rolled back: nothing is undone.
NoneUndone(K, gone) ==
    \E freed \in SUBSET gone :
        /\ UNCHANGED <<file, back>>
        /\ Marked({}, {})
        /\ Freed(freed, {})
        /\ cps' = {Without(k, freed, {}) : k \in K}

\* Mutant: the copy of the row that failed is dropped too.
OneFails_Frees(K, gone, S) ==
    \E r \in S : \E torn \in {{}, {r}} :
        /\ Undoable(r) /\ (torn # {} => r \in existed)
        /\ LET rest == S \ {r}
               older == {q \in rest : q < r}
               half == [Undone(rest \ older) EXCEPT ![Path(r)] = IF torn # {} THEN Torn ELSE @]
           IN /\ file' = [p \in Paths |->
                            IF \E q \in older : Path(q) = p /\ Undoable(q)
                            THEN Undone(rest)[p] ELSE half[p]]
              /\ back' = back \cup {q \in rest : Undoable(q)}
              /\ Marked(gone, rest)
              /\ Freed(gone \cup {q \in S : Undoable(q)}, {})
              /\ cps' = {[k EXCEPT !.whole = @ \
                              (LostBy(k, gone, rest)
                               \cup {Path(q) : q \in {t \in torn : t <= k.rows}})] : k \in K}

\* The write of row r fails, before or after it emptied the file; the others are
\* undone and r stays active.
OneFails(K, gone, S) ==
    \E r \in S : \E torn \in {{}, {r}} :
        /\ Undoable(r) /\ (torn # {} => r \in existed)
        /\ LET rest == S \ {r}
               older == {q \in rest : q < r}
               half == [Undone(rest \ older) EXCEPT ![Path(r)] = IF torn # {} THEN Torn ELSE @]
           IN /\ file' = [p \in Paths |->
                            IF \E q \in older : Path(q) = p /\ Undoable(q)
                            THEN Undone(rest)[p] ELSE half[p]]
              /\ back' = back \cup {q \in rest : Undoable(q)}
              /\ Marked(gone, rest)
              /\ Freed(gone \cup {q \in rest : Undoable(q)}, {})
              /\ cps' = {[k EXCEPT !.whole = @ \
                              (LostBy(k, gone, rest)
                               \cup {Path(q) : q \in {t \in torn : t <= k.rows}})] : k \in K}

\* The process dies at row r: its file half written, or back while the row is
\* still active, with or without its copy.  The checkpoints were in memory.
DiesAt(gone, S) ==
    \E r \in S : \E how \in {"torn", "back", "freed"} :
        LET newer == {q \in S : q > r} IN
        /\ Undoable(r) /\ (how = "torn" => r \in existed)
        /\ IF how = "torn"
           THEN /\ file' = [Undone(newer) EXCEPT ![Path(r)] = Torn]
                /\ back' = back \cup {q \in newer : Undoable(q)}
           ELSE PutBack(newer \cup {r})
        /\ Marked(gone, newer)
        /\ Freed(gone \cup {q \in newer : Undoable(q)}
                      \cup (IF how = "freed" THEN {r} ELSE {}), {})
        /\ cps' = {}

\* Row r cannot be marked: its file is back and its copy freed, and the older
\* rows of S are not reached.
Stops(K, gone, S) ==
    \E r \in S :
        LET newer == {q \in S : q > r} IN
        /\ Undoable(r)
        /\ PutBack(newer \cup {r})
        /\ Marked(gone, newer)
        /\ Freed(gone \cup {q \in newer : Undoable(q)} \cup {r}, {})
        /\ cps' = {[k EXCEPT !.whole = @ \ LostBy(k, gone, newer \cup {r})] : k \in K}

\* The rows undone, and whether something goes wrong.
UndoRows(K, gone, S, fault) ==
    \/ fault \in {"none", "stuck"}
       /\ \E kept \in Kept(gone \cup {r \in S : Undoable(r)}, fault) : AllUndone(K, gone, S, kept)
    \/ fault = "norow" /\ (NoneUndone(K, gone) \/ Stops(K, gone, S))
    \/ fault = "undofail" /\ OneFails(K, gone, S)
    \/ fault = "crash" /\ (NoneUndone({}, gone) \/ DiesAt(gone, S))

\* undo by id: no sweep, and only an active row.
Undo(r, fault) ==
    /\ r \in Active
    /\ UndoRows(cps, {}, {r}, fault)

\* What undo_recent may be asked for: the active rows since some time, of one
\* kind of action or of all.
Recents ==
    {{r \in Active \ aged : r >= n /\ call[r] \in kinds} :
        n \in Rows, kinds \in {Edits, Deletes, Edits \ Deletes}}

UndoRecent(S, fault) == UndoRows(cps, Expiring, S, fault)

\* The active rows of k's session since k.
Since(k) == {r \in Active \ aged : r > k.rows /\ SessionOf[call[r]] = k.session}

\* create_checkpoint, at the start of a turn.
Checkpoint(s) ==
    /\ cps' = cps \cup {[session |-> s, rows |-> rows, files |-> file, whole |-> Paths]}
    /\ UNCHANGED <<file, rows, call, state, existed, copy, left, aged, back>>

\* rewind_to_checkpoint: later checkpoints of the session are dropped.
Rewind(k, fault) ==
    /\ k \in cps
    /\ UndoRows({l \in cps : l.session = k.session => l.rows <= k.rows},
                Expiring, Since(k), fault)

-----------------------------------------------------------------------------
(* Properties *)

CheckpointsTyped ==
    cps \subseteq [session : Sessions, rows : 0 .. MaxRows,
                  files : [Paths -> Contents], whole : SUBSET Paths]

UndoTypeOK ==
    /\ file \in [Paths -> Contents]
    /\ rows \in 0 .. MaxRows
    /\ call \in [Rows -> Edits \cup {NoCopy}]
    /\ \A r \in Rows : IF r <= rows THEN call[r] \in Edits /\ state[r] # "none"
                       ELSE call[r] = NoCopy /\ state[r] = "none"
    /\ state \in [Rows -> {"none", "active", "undone", "expired"}]
    /\ existed \subseteq 1 .. rows /\ aged \subseteq 1 .. rows
    /\ copy \in [Rows -> Contents \cup {NoCopy}]
    /\ left \subseteq Contents /\ back \subseteq Rows
    /\ CheckpointsTyped

\* A rewind brings every file back to what it was at the checkpoint, if the way
\* back is whole, no other session has changed the file since, and no change
\* since is past the window.
RewindRestores ==
    \A k \in cps : \A p \in k.whole :
        (\A r \in (k.rows + 1) .. rows : Path(r) = p =>
            SessionOf[call[r]] = k.session /\ r \notin Expiring)
        => Undone(Since(k))[p] = k.files[p]

\* The same however long ago the changes were: "roll back every file mutation
\* made after it".
RewindReverts == \A k \in cps : \A p \in k.whole : Undone(Since(k))[p] = k.files[p]

\* What a file had before a recorded change is not lost while it can be undone:
\* the copy is there until it has been put back, whatever fails or dies (the file,
\* then the copy, then the row: undo_cabinet.py:265-301).
CopyUntilBack == \A r \in (Active \cap existed) \ aged : copy[r] # NoCopy \/ r \in back

\* "Expired backups get garbage-collected", "backup file is freed" (lines 30, 35).
NothingLeft == left = {}
=============================================================================
