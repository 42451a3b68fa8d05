---------------------------- MODULE SessionHold ----------------------------
(***************************************************************************)
(* What the liveness lock of one session promises: opening the session is  *)
(* one step that finds its rows, deleting it is one step that finds nobody *)
(* with the session open.  SessionStore deletes sessions this way.         *)
(***************************************************************************)
CONSTANT Proc

VARIABLES
    saved,      \* the session has its rows
    live        \* the processes that have it open

hvars == <<saved, live>>

HInit == saved = TRUE /\ live = {}

Open(p) == saved /\ p \notin live /\ live' = live \cup {p} /\ UNCHANGED saved

Leave(p) == p \in live /\ live' = live \ {p} /\ UNCHANGED saved

Delete == saved /\ live = {} /\ saved' = FALSE /\ UNCHANGED live

Restore == ~saved /\ saved' = TRUE /\ UNCHANGED live

HNext == Delete \/ Restore \/ \E p \in Proc : Open(p) \/ Leave(p)

HSpec == HInit /\ [][HNext]_hvars
=============================================================================
