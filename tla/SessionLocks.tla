---------------------------- MODULE SessionLocks ----------------------------
(***************************************************************************)
(* The liveness lock of one session, locks/{session-id}.lock.  A lock is   *)
(* held on an open file, so on an inode and not on a path: a delete that   *)
(* unlinks the file leaves later openers with another inode.  Each system  *)
(* call and each transaction is a step.                                    *)
(***************************************************************************)
EXTENDS Naturals, FiniteSets

CONSTANTS
    Proc,       \* ox processes
    Inode,      \* lock files, the unlinked ones included
    NoFile,     \* no inode
    Reimports   \* when an export of the deleted session may be imported

ASSUME LocksAssumption ==
    /\ NoFile \notin Inode
    /\ Reimports \in {"alone", "anytime"}

VARIABLES
    rows,       \* the session has its row and messages
    artifacts,  \* it has an artifact directory
    path,       \* the inode the lock path names
    pc,         \* what each process does with the session
    fd,         \* the lock file each process has open
    shared,     \* the processes with a shared lock, by inode
    exclusive   \* the processes with an exclusive one

lvars == <<rows, artifacts, path, pc, fd, shared, exclusive>>

(***************************************************************************)
(* opening, loading, live : resume.  checking, removing, clearing,         *)
(* unlinking : delete.                                                     *)
(***************************************************************************)
Steps == {"idle", "opening", "loading", "live",
          "checking", "removing", "clearing", "unlinking"}

\* Every variable has its type, a lock is on a file its process has open, and
\* no step ends with the lock file left open.
LTypeOK ==
    /\ rows \in BOOLEAN
    /\ artifacts \in BOOLEAN
    /\ path \in Inode \cup {NoFile}
    /\ pc \in [Proc -> Steps]
    /\ fd \in [Proc -> Inode \cup {NoFile}]
    /\ shared \in [Inode -> SUBSET Proc]
    /\ exclusive \in [Inode -> SUBSET Proc]
    /\ \A i \in Inode : \A p \in shared[i] \cup exclusive[i] : fd[p] = i
    /\ \A p \in Proc : fd[p] = NoFile <=> pc[p] \in {"idle", "unlinking"}

LInit ==
    /\ rows = TRUE
    /\ artifacts = FALSE
    /\ path = NoFile
    /\ pc = [p \in Proc |-> "idle"]
    /\ fd = [p \in Proc |-> NoFile]
    /\ shared = [i \in Inode |-> {}]
    /\ exclusive = [i \in Inode |-> {}]

-----------------------------------------------------------------------------
Goto(p, step) == pc' = [pc EXCEPT ![p] = step]

\* open_lock_file: opens the file the path names, or creates it.
OpenLockFile(p) ==
    \E i \in Inode :
        /\ IF path = NoFile THEN \A q \in Proc : fd[q] # i ELSE i = path
        /\ path' = i
        /\ fd' = [fd EXCEPT ![p] = i]

\* The lock drops and its file closes.
Release(p) ==
    /\ shared' = [i \in Inode |-> shared[i] \ {p}]
    /\ exclusive' = [i \in Inode |-> exclusive[i] \ {p}]
    /\ fd' = [fd EXCEPT ![p] = NoFile]

-----------------------------------------------------------------------------
(***************************************************************************)
(* Resume                                                                  *)
(***************************************************************************)
ResumeOpen(p) ==
    /\ pc[p] = "idle" /\ rows
    /\ OpenLockFile(p)
    /\ Goto(p, "opening")
    /\ UNCHANGED <<rows, artifacts, shared, exclusive>>

\* lock_shared waits for the process that deletes.
ResumeLock(p) ==
    /\ pc[p] = "opening"
    /\ exclusive[fd[p]] = {}
    /\ shared' = [shared EXCEPT ![fd[p]] = @ \cup {p}]
    /\ Goto(p, "loading")
    /\ UNCHANGED <<rows, artifacts, path, fd, exclusive>>

\* Mutant: the rows read before the lock are taken as they were.
ResumeLoadUnchecked(p) ==
    /\ pc[p] = "loading"
    /\ Goto(p, "live")
    /\ UNCHANGED <<rows, artifacts, path, fd, shared, exclusive>>

ResumeLoad(p) ==
    /\ pc[p] = "loading" /\ rows
    /\ Goto(p, "live")
    /\ UNCHANGED <<rows, artifacts, path, fd, shared, exclusive>>

\* A delete came first, or the load failed.
ResumeFails(p) ==
    /\ pc[p] = "loading"
    /\ Release(p)
    /\ Goto(p, "idle")
    /\ UNCHANGED <<rows, artifacts, path>>

\* A live process spills tool output.
Spill(p) ==
    /\ pc[p] = "live"
    /\ artifacts' = TRUE
    /\ UNCHANGED <<rows, path, pc, fd, shared, exclusive>>

\* The last handle drops: a roll, an exit, or a fork to another session.
Close(p) ==
    /\ pc[p] = "live"
    /\ Release(p)
    /\ Goto(p, "idle")
    /\ UNCHANGED <<rows, artifacts, path>>

-----------------------------------------------------------------------------
(***************************************************************************)
(* Delete                                                                  *)
(***************************************************************************)
\* Mutant: the artifacts go before the lock is tried.
DeleteOpenClearing(p) ==
    /\ pc[p] = "idle" /\ rows
    /\ OpenLockFile(p)
    /\ artifacts' = FALSE
    /\ Goto(p, "checking")
    /\ UNCHANGED <<rows, shared, exclusive>>

DeleteOpen(p) ==
    /\ pc[p] = "idle" /\ rows
    /\ OpenLockFile(p)
    /\ Goto(p, "checking")
    /\ UNCHANGED <<rows, artifacts, shared, exclusive>>

Free(i) == shared[i] = {} /\ exclusive[i] = {}

\* try_exclusive
DeleteLocks(p) ==
    /\ pc[p] = "checking" /\ Free(fd[p])
    /\ exclusive' = [exclusive EXCEPT ![fd[p]] = {p}]
    /\ Goto(p, "removing")
    /\ UNCHANGED <<rows, artifacts, path, fd, shared>>

\* It is open in another ox process.
DeleteRefused(p) ==
    /\ pc[p] = "checking" /\ ~Free(fd[p])
    /\ Release(p)
    /\ Goto(p, "idle")
    /\ UNCHANGED <<rows, artifacts, path>>

DeleteRows(p) ==
    /\ pc[p] = "removing"
    /\ rows' = FALSE
    /\ Goto(p, "clearing")
    /\ UNCHANGED <<artifacts, path, fd, shared, exclusive>>

\* The artifacts go and then the lock drops.
DeleteArtifacts(p) ==
    /\ pc[p] = "clearing"
    /\ artifacts' = FALSE
    /\ Release(p)
    /\ Goto(p, "unlinking")
    /\ UNCHANGED <<rows, path>>

\* The DELETE or the removal of the artifacts fails and drops the lock.
DeleteFails(p) ==
    /\ pc[p] \in {"removing", "clearing"}
    /\ Release(p)
    /\ Goto(p, "idle")
    /\ UNCHANGED <<rows, artifacts, path>>

\* remove_file takes the path, whatever inode it names by then.
DeleteUnlinks(p) ==
    /\ pc[p] = "unlinking"
    /\ path' = NoFile
    /\ Goto(p, "idle")
    /\ UNCHANGED <<rows, artifacts, fd, shared, exclusive>>

-----------------------------------------------------------------------------
\* The kernel closes the files of a process that dies.
Crash(p) ==
    /\ pc[p] # "idle"
    /\ Release(p)
    /\ Goto(p, "idle")
    /\ UNCHANGED <<rows, artifacts, path>>

\* ox -r <file>: the import inserts the session it no longer finds.  It takes
\* no liveness lock.  "alone" keeps it apart from resumes and deletes.
Reimport(p) ==
    /\ Reimports = "alone" => \A q \in Proc : pc[q] = "idle"
    /\ pc[p] = "idle" /\ ~rows
    /\ rows' = TRUE
    /\ UNCHANGED <<artifacts, path, pc, fd, shared, exclusive>>

LNext ==
    \E p \in Proc :
        \/ ResumeOpen(p) \/ ResumeLock(p) \/ ResumeLoad(p) \/ ResumeFails(p)
        \/ Spill(p) \/ Close(p)
        \/ DeleteOpen(p) \/ DeleteLocks(p) \/ DeleteRefused(p)
        \/ DeleteRows(p) \/ DeleteArtifacts(p) \/ DeleteFails(p)
        \/ DeleteUnlinks(p)
        \/ Crash(p)
        \/ Reimport(p)

LSpec == LInit /\ [][LNext]_lvars
-----------------------------------------------------------------------------
(***************************************************************************)
(* Correctness                                                             *)
(***************************************************************************)
Live == {p \in Proc : pc[p] = "live"}

\* SessionStore::delete refuses a session another process holds, so it never
\* pulls the rows from under a live writer.
LiveHasRows == Live # {} => rows

\* The artifacts a live process wrote stay while it has the session open: a
\* lock keeps its file open, and only a delete that has the lock clears them.
LiveKeepsArtifacts == []LTypeOK /\ [][artifacts /\ ~artifacts' => Live = {}]_lvars

\* The steps of a resume and of a delete act as one step each.
ImplementsHold ==
    INSTANCE SessionHold WITH saved <- rows, live <- Live

HoldSpec == ImplementsHold!HSpec
=============================================================================
