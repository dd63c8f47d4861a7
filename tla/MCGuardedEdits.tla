--------------------------- MODULE MCGuardedEdits ---------------------------
(* A small instance of GuardedEdits: a risky deletion, and edits of a file by *)
(* two sessions.                                                              *)
EXTENDS GuardedEdits

CONSTANTS
    w1, w2, d1,         \* two writes and a deletion of doc
    doc, s1, s2,
    Faults, Ages, Expiries, Undos, Outsides, Checkpoints

MCPathOf == [c \in Edits |-> doc]
MCSessionOf == [c \in Edits |-> IF c = w2 THEN s2 ELSE s1]

MCLimit ==
    [e \in Events |-> CASE e \in {"unread", "stuck", "norow", "fail", "undofail", "crash"} -> Faults
                        [] e = "outside" -> Outsides
                        [] e = "age" -> Ages
                        [] e = "expire" -> Expiries
                        [] e = "undo" -> Undos
                        [] e = "checkpoint" -> Checkpoints]
=============================================================================
