--------------------------- MODULE Conversations ---------------------------
(***************************************************************************)
(* What the session store promises each process.  A saved session has one  *)
(* active branch.  A process works on the session it opened as if it were  *)
(* alone: its write replaces the branch exactly when the branch is the one *)
(* the process holds, and otherwise moves the process to a new session     *)
(* that holds its own line, leaving the other line as it is.  A process    *)
(* whose write fails writes nothing more.                                  *)
(***************************************************************************)
CONSTANTS Proc, Session, Msg, None

ConversationsAssumption == None \notin Session

VARIABLES
    exists,     \* the saved sessions
    branch,     \* the messages of the active branch of each
    at,         \* the session the writes of a process land in
    view        \* the branch the process holds

cvars == <<exists, branch, at, view>>

CTypeOK ==
    /\ exists \subseteq Session
    /\ branch \in [Session -> SUBSET Msg]
    /\ at \in [Proc -> Session \cup {None}]
    /\ view \in [Proc -> SUBSET Msg]

CInit ==
    /\ exists = {}
    /\ branch = [s \in Session |-> {}]
    /\ at = [p \in Proc |-> None]
    /\ view = [p \in Proc |-> {}]

\* Session s takes the branch the process moves to.
Land(p, s) ==
    /\ exists' = exists \cup {s}
    /\ branch' = [branch EXCEPT ![s] = view'[p]]
    /\ at' = [at EXCEPT ![p] = s]
    /\ view' = [view EXCEPT ![p] = view'[p]]

Create(p, s) == at[p] = None /\ s \notin exists /\ Land(p, s)

Write(p) == at[p] # None /\ branch[at[p]] = view[p] /\ Land(p, at[p])

Fork(p, s) ==
    at[p] # None /\ branch[at[p]] # view[p] /\ s \notin exists /\ Land(p, s)

\* Opening a saved session, in place of the one the process had.
Open(p, s) ==
    /\ s \in exists
    /\ at' = [at EXCEPT ![p] = s]
    /\ view' = [view EXCEPT ![p] = branch[s]]
    /\ UNCHANGED <<exists, branch>>

\* Closing, crashing, or going on without persistence.
Leave(p) ==
    /\ at' = [at EXCEPT ![p] = None]
    /\ view' = [view EXCEPT ![p] = {}]
    /\ UNCHANGED <<exists, branch>>

Delete(s) ==
    /\ s \in exists
    /\ \A p \in Proc : at[p] # s
    /\ exists' = exists \ {s}
    /\ branch' = [branch EXCEPT ![s] = {}]
    /\ UNCHANGED <<at, view>>

CNext ==
    \/ \E p \in Proc : Write(p) \/ Leave(p)
    \/ \E p \in Proc, s \in Session : Create(p, s) \/ Fork(p, s) \/ Open(p, s)
    \/ \E s \in Session : Delete(s)

CSpec == CInit /\ [][CNext]_cvars
=============================================================================
