--------------------------- MODULE DirectoryLock ---------------------------
(***************************************************************************)
(* What the SCM layer promises of a directory that agents work in and that *)
(* somebody may remove or rewrite: a worktree with its removers, and the   *)
(* shared checkout of a source with its syncs. Any number of users, or one *)
(* writer and no user. A crash may end several uses, and the write, at     *)
(* once.                                                                   *)
(***************************************************************************)
CONSTANTS Users, Writers

VARIABLES using, writing

Init == using = {} /\ writing = {}

Enter(u) ==
    /\ u \in Users \ using
    /\ writing = {}
    /\ using' = using \cup {u}
    /\ UNCHANGED writing

Write(w) ==
    /\ w \in Writers
    /\ using = {} /\ writing = {}
    /\ writing' = {w}
    /\ UNCHANGED using

Leave ==
    /\ using' \subseteq using
    /\ writing' \subseteq writing

Next == (\E u \in Users : Enter(u)) \/ (\E w \in Writers : Write(w)) \/ Leave

Spec == Init /\ [][Next]_<<using, writing>>
=============================================================================
