---------------------------- MODULE Credentials ----------------------------
(***************************************************************************)
(* A stored login shared by several processes (crates/ox-core/src/auth/    *)
(* oauth.rs and oauth/): the directory lock around credential writes, with *)
(* its stale locks, takeovers and heartbeat, and the reload of an access   *)
(* token, whose refresh rotates the refresh token at the server.  A        *)
(* process may be suspended, die, fail to write the store, or lose the     *)
(* server's answer; a request may be dropped while its reload goes on.     *)
(* Token n is the n-th pair of access and refresh token issued.  A         *)
(* process's token mutex lets one reload run at a time.                    *)
(***************************************************************************)
EXTENDS Naturals, FiniteSets

CONSTANTS
    Proc,       \* processes
    MaxTokens,  \* bound: token pairs issued
    MaxTries,   \* bound: attempts at the lock within LOCK_WAIT
    MaxFaults   \* bound: faults of any kind

Token == 1 .. MaxTokens
Held  == 0 .. MaxTokens            \* 0 is none

ASSUME CredentialsAssumption ==
    /\ IsFiniteSet(Proc)
    /\ MaxTokens \in Nat \ {0} /\ MaxTries \in Nat \ {0} /\ MaxFaults \in Nat

VARIABLES
    store,   \* the pair the credentials file holds
    lock,    \* the lock directory: its mtime, 0 for none, and whether it is stale
    proc,    \* each process
    life,    \* each access token: 2 fresh, 1 near its expiry, 0 expired
    valid,   \* the refresh tokens the server accepts
    issued,  \* number of pairs issued
    faults,  \* number of faults so far
    excused  \* history: what may break a promise

cvars == <<store, lock, proc, life, valid, issued, faults, excused>>

(***************************************************************************)
(* `token` is the session's pair, which the store lacks if `unsaved`: it   *)
(* then holds `replaced`.  `creds` and `kept` are what the last load       *)
(* returned.  `reply` is a pair on its way to the store, `rejected` the    *)
(* token the API answered with a 401.  `mtime` is what the lock guard      *)
(* holds, 0 for none, `hb` the heartbeat between its check and its touch.  *)
(* History: `again` says that a reload answered with the rejected token.   *)
(***************************************************************************)
Steps == {"idle", "load", "mkdir", "remove", "fallback", "reload", "sent", "save", "release"}
Works == {"reload", "refresh", "login"}

Fresh(p) == [step |-> "idle", work |-> "reload", up |-> TRUE, awake |-> TRUE, tries |-> 0,
             token |-> store, unsaved |-> FALSE, replaced |-> 0, creds |-> 0, kept |-> FALSE,
             reply |-> 0, rejected |-> 0, mtime |-> 0, hb |-> FALSE, again |-> FALSE]

NoLock == [mtime |-> 0, stale |-> FALSE]

NewMtime == CHOOSE n \in 1 .. Cardinality(Proc) + 2 :
               n # lock.mtime /\ \A p \in Proc : proc[p].mtime # n

\* The mtime a guard holds once it saw that the lock is no longer its own.
Lost == Cardinality(Proc) + 3

Runs(p, step) == proc[p].up /\ proc[p].awake /\ proc[p].step = step

Fault == faults < MaxFaults /\ faults' = faults + 1

\* The process moves to q; the rest stays but for what the action says.
To(p, q) == proc' = [proc EXCEPT ![p] = q]

-----------------------------------------------------------------------------
(***************************************************************************)
(* Loading the credentials                                                 *)
(***************************************************************************)

\* The unsaved pair stands in while the store holds the one it replaced.
Prefers(p) == proc[p].unsaved /\ store = proc[p].replaced

Creds(p) == IF Prefers(p) THEN proc[p].token ELSE store

\* A rejected token counts as expired.
Left(p, n) == IF n = proc[p].rejected THEN 0 ELSE life[n]

\* The reload ends with pair n, or with none for an error.
Returned(p, n, kept) ==
    LET q == [proc[p] EXCEPT !.step  = IF proc[p].mtime = 0 THEN "idle" ELSE "release",
                             !.work  = "reload", !.tries = 0, !.creds = 0, !.kept = FALSE,
                             !.rejected = 0, !.again = @ \/ (n # 0 /\ n = proc[p].rejected)]
    IN  IF n = 0 THEN q
        ELSE [q EXCEPT !.token = n, !.unsaved = kept, !.replaced = IF kept THEN @ ELSE 0]

\* A request needs a token: the held one nears its expiry, or was rejected.
Begin(p) ==
    /\ Runs(p, "idle")
    /\ \E r \in {0, proc[p].token} :
          /\ r = 0 => life[proc[p].token] < 2
          /\ To(p, [proc[p] EXCEPT !.step = "load", !.rejected = r])
    /\ UNCHANGED <<store, lock, life, valid, issued, faults, excused>>

\* The first load may already find another's refresh.
Load(p) ==
    /\ Runs(p, "load")
    /\ To(p, IF Left(p, Creds(p)) = 2
               THEN Returned(p, Creds(p), Prefers(p))
               ELSE [proc[p] EXCEPT !.step = "mkdir"])
    /\ UNCHANGED <<store, lock, life, valid, issued, faults, excused>>

-----------------------------------------------------------------------------
(***************************************************************************)
(* The lock                                                                *)
(***************************************************************************)

\* create_dir made the lock, and the guard holds its mtime.
Mkdir(p) ==
    /\ Runs(p, "mkdir") /\ lock = NoLock
    /\ lock' = [mtime |-> NewMtime, stale |-> FALSE]
    /\ To(p, [proc[p] EXCEPT !.mtime = NewMtime,
                             !.step  = IF proc[p].work = "login" THEN "save" ELSE "reload"])
    /\ UNCHANGED <<store, life, valid, issued, faults, excused>>

\* Mutant: without the lock, a reload refreshes all the same.
RefreshesUnlocked(p) ==
    IF proc[p].work = "login" THEN [Returned(p, 0, FALSE) EXCEPT !.reply = 0]
                              ELSE [proc[p] EXCEPT !.step = "reload"]

\* Without the lock, a login fails and a reload reads the store again.
Unlocked(p) ==
    IF proc[p].work = "login" THEN [Returned(p, 0, FALSE) EXCEPT !.reply = 0]
                              ELSE [proc[p] EXCEPT !.step = "fallback"]

\* After LOCK_RETRY_INTERVAL the process tries again, up to the deadline.
Retried(p) == IF proc[p].tries = MaxTries
                THEN Unlocked(p)
                ELSE [proc[p] EXCEPT !.tries = @ + 1, !.step = "mkdir"]

\* The lock exists: a stale one is removed first.
Wait(p) ==
    /\ Runs(p, "mkdir") /\ lock # NoLock
    /\ To(p, IF lock.stale THEN [proc[p] EXCEPT !.step = "remove"] ELSE Retried(p))
    /\ UNCHANGED <<store, lock, life, valid, issued, faults, excused>>

\* The directory cannot be made.
MkdirFails(p) ==
    /\ Runs(p, "mkdir") /\ lock = NoLock /\ Fault
    /\ To(p, Unlocked(p))
    /\ UNCHANGED <<store, lock, life, valid, issued, excused>>

\* remove_dir_all removes whatever directory is there by now.
Remove(p) ==
    /\ Runs(p, "remove")
    /\ lock' = NoLock
    /\ excused' = IF \E q \in Proc : lock # NoLock /\ proc[q].mtime = lock.mtime
                    THEN excused \cup {"broken"} ELSE excused
    /\ To(p, Retried(p))
    /\ UNCHANGED <<store, life, valid, issued, faults>>

Fallback(p) ==
    /\ Runs(p, "fallback")
    /\ To(p, IF Left(p, Creds(p)) > 0 THEN Returned(p, Creds(p), Prefers(p))
                                      ELSE Returned(p, 0, FALSE))
    /\ UNCHANGED <<store, lock, life, valid, issued, faults, excused>>

\* The guard drops: it removes the lock only with the mtime it gave it.
Release(p) ==
    /\ Runs(p, "release")
    /\ lock' = IF lock.mtime = proc[p].mtime THEN NoLock ELSE lock
    /\ To(p, [proc[p] EXCEPT !.step = "idle", !.mtime = 0, !.hb = FALSE])
    /\ UNCHANGED <<store, life, valid, issued, faults, excused>>

\* A heartbeat of a process that was suspended: the check, then the touch.
\* The others change nothing another process tells apart.
Heartbeat(p) ==
    /\ proc[p].up /\ proc[p].awake /\ proc[p].mtime # 0 /\ ~proc[p].hb
    /\ \/ lock.mtime = proc[p].mtime /\ lock.stale /\ To(p, [proc[p] EXCEPT !.hb = TRUE])
       \/ lock.mtime # proc[p].mtime /\ proc[p].mtime # Lost
             /\ To(p, [proc[p] EXCEPT !.mtime = Lost])
    /\ UNCHANGED <<store, lock, life, valid, issued, faults, excused>>

Touch(p) ==
    /\ proc[p].up /\ proc[p].awake /\ proc[p].hb
    /\ LET m == NewMtime IN
       IF lock = NoLock
         THEN UNCHANGED lock /\ To(p, [proc[p] EXCEPT !.hb = FALSE])
         ELSE /\ lock' = [mtime |-> m, stale |-> FALSE]
              /\ To(p, [proc[p] EXCEPT !.hb = FALSE, !.mtime = m])
    /\ UNCHANGED <<store, life, valid, issued, faults, excused>>

\* No heartbeat keeps the lock fresh: its holder died or is suspended.
GoStale ==
    /\ lock # NoLock /\ ~lock.stale
    /\ \A p \in Proc : proc[p].mtime = lock.mtime => ~proc[p].up \/ ~proc[p].awake
    /\ lock' = [lock EXCEPT !.stale = TRUE]
    /\ UNCHANGED <<store, proc, life, valid, issued, faults, excused>>

-----------------------------------------------------------------------------
(***************************************************************************)
(* The refresh                                                             *)
(***************************************************************************)

\* Mutant: the store is not read again under the lock.
ReloadStale(p) ==
    /\ Runs(p, "reload")
    /\ To(p, [proc[p] EXCEPT !.step = "sent", !.work = "refresh",
                             !.creds = proc[p].token, !.kept = Prefers(p)])
    /\ UNCHANGED <<store, lock, life, valid, issued, faults, excused>>

\* Under the lock the store is read again: another process may have refreshed.
Reload(p) ==
    /\ Runs(p, "reload")
    /\ To(p, IF Left(p, Creds(p)) = 2
               THEN Returned(p, Creds(p), Prefers(p))
               ELSE [proc[p] EXCEPT !.step = "sent", !.work = "refresh",
                                    !.creds = Creds(p), !.kept = Prefers(p)])
    /\ UNCHANGED <<store, lock, life, valid, issued, faults, excused>>

Issue(p, spent, step) ==
    /\ issued < MaxTokens
    /\ issued' = issued + 1
    /\ valid'  = (valid \ spent) \cup {issued'}
    /\ life'   = [life EXCEPT ![issued'] = 2]
    /\ To(p, [proc[p] EXCEPT !.reply = issued', !.step = step])

\* The server rotates the refresh token it accepts.
Rotate(p) ==
    /\ Runs(p, "sent") /\ proc[p].creds \in valid
    /\ Issue(p, {proc[p].creds}, "save")
    /\ UNCHANGED <<store, lock, faults, excused>>

\* No pair came back: the token still stands until it expires.
Refused(p) == IF Left(p, proc[p].creds) > 0
                THEN Returned(p, proc[p].creds, proc[p].kept)
                ELSE Returned(p, 0, FALSE)

\* A spent token is rejected; a server that issues no more pairs rejects any.
Reject(p) ==
    /\ Runs(p, "sent") /\ (proc[p].creds \notin valid \/ issued = MaxTokens)
    /\ To(p, Refused(p))
    /\ UNCHANGED <<store, lock, life, valid, issued, faults, excused>>

\* The request fails, or its answer is lost after the rotation.
Lose(p) ==
    /\ Runs(p, "sent") /\ Fault
    /\ To(p, Refused(p))
    /\ \/ UNCHANGED <<valid, excused>>
       \/ /\ proc[p].creds \in valid
          /\ valid'   = valid \ {proc[p].creds}
          /\ excused' = excused \cup {"lost"}
    /\ UNCHANGED <<store, lock, life, issued>>

\* Mutant: a pair the store did not save is forgotten.
SaveForgets(p) ==
    /\ Runs(p, "save")
    /\ \/ /\ store' = proc[p].reply
          /\ To(p, [Returned(p, proc[p].reply, FALSE) EXCEPT !.reply = 0])
          /\ UNCHANGED <<faults, excused>>
       \/ /\ Fault /\ proc[p].work = "refresh"
          /\ To(p, [Returned(p, proc[p].reply, FALSE) EXCEPT !.reply = 0])
          /\ excused' = excused \cup {"unsaved"}
          /\ UNCHANGED store
    /\ UNCHANGED <<lock, life, valid, issued>>

\* The pair goes to the store; a reload keeps one that could not be saved.
Save(p) ==
    /\ Runs(p, "save")
    /\ \/ /\ store' = proc[p].reply
          /\ To(p, [Returned(p, proc[p].reply, FALSE) EXCEPT !.reply = 0])
          /\ UNCHANGED <<faults, excused>>
       \/ /\ Fault /\ proc[p].work = "refresh"
          /\ To(p, [Returned(p, proc[p].reply, TRUE) EXCEPT
                      !.reply    = 0,
                      !.replaced = IF proc[p].kept THEN @ ELSE proc[p].creds])
          /\ excused' = excused \cup {"unsaved"}
          /\ UNCHANGED store
       \/ /\ Fault /\ proc[p].work = "login"
          /\ To(p, [Returned(p, 0, FALSE) EXCEPT !.reply = 0])
          /\ UNCHANGED <<store, excused>>
    /\ UNCHANGED <<lock, life, valid, issued>>

\* `/login`: the browser's code buys a pair of its own.
Login(p) ==
    /\ Runs(p, "idle") /\ issued < MaxTokens
    /\ issued' = issued + 1
    /\ valid'  = valid \cup {issued'}
    /\ life'   = [life EXCEPT ![issued'] = 2]
    /\ To(p, [proc[p] EXCEPT !.reply = issued', !.step = "mkdir", !.work = "login"])
    /\ UNCHANGED <<store, lock, faults, excused>>

-----------------------------------------------------------------------------
(***************************************************************************)
(* Time and faults                                                         *)
(***************************************************************************)
Age == /\ \E n \in 1 .. issued : life[n] > 0 /\ life' = [life EXCEPT ![n] = @ - 1]
       /\ UNCHANGED <<store, lock, proc, valid, issued, faults, excused>>

Suspend(p) ==
    /\ proc[p].up /\ proc[p].awake /\ proc[p].mtime # 0 /\ Fault
    /\ To(p, [proc[p] EXCEPT !.awake = FALSE])
    /\ UNCHANGED <<store, lock, life, valid, issued, excused>>

Wake(p) ==
    /\ ~proc[p].awake
    /\ To(p, [proc[p] EXCEPT !.awake = TRUE])
    /\ UNCHANGED <<store, lock, life, valid, issued, faults, excused>>

\* What only the process knew is gone: a pair not in the store.
Ends(p) ==
    /\ To(p, [Fresh(p) EXCEPT !.up = FALSE])
    /\ excused' = IF proc[p].unsaved \/ (proc[p].work = "refresh" /\ proc[p].reply # 0)
                    THEN excused \cup {"lost"} ELSE excused

Die(p) ==
    /\ proc[p].up /\ Fault
    /\ Ends(p)
    /\ UNCHANGED <<store, lock, life, valid, issued>>

\* An exit waits for the reload in flight.
Leave(p) ==
    /\ Runs(p, "idle")
    /\ Ends(p)
    /\ UNCHANGED <<store, lock, life, valid, issued, faults>>

Launch(p) ==
    /\ ~proc[p].up
    /\ To(p, Fresh(p))
    /\ UNCHANGED <<store, lock, life, valid, issued, faults, excused>>

-----------------------------------------------------------------------------
CInit ==
    /\ store = 1 /\ lock = NoLock
    /\ life = [n \in Token |-> IF n = 1 THEN 2 ELSE 0]
    /\ valid = {1} /\ issued = 1 /\ faults = 0 /\ excused = {}
    /\ proc = [p \in Proc |-> Fresh(p)]

CNext ==
    \/ \E p \in Proc :
          \/ Begin(p) \/ Load(p) \/ Mkdir(p) \/ MkdirFails(p) \/ Wait(p) \/ Remove(p) \/ Fallback(p)
          \/ Reload(p) \/ Rotate(p) \/ Reject(p) \/ Lose(p) \/ Save(p) \/ Login(p)
          \/ Release(p) \/ Heartbeat(p) \/ Touch(p)
          \/ Suspend(p) \/ Wake(p) \/ Die(p) \/ Leave(p) \/ Launch(p)
    \/ GoStale \/ Age

CSpec == CInit /\ [][CNext]_cvars

-----------------------------------------------------------------------------
(***************************************************************************)
(* Properties                                                              *)
(***************************************************************************)
CredentialsTypeOK ==
    /\ store \in Token /\ lock.stale \in BOOLEAN /\ valid \subseteq Token
    /\ life \in [Token -> 0 .. 2] /\ issued \in Token /\ faults \in 0 .. MaxFaults
    /\ excused \subseteq {"lost", "unsaved", "broken"}
    /\ \A p \in Proc :
          /\ proc[p].step \in Steps /\ proc[p].work \in Works
          /\ proc[p].tries \in 0 .. MaxTries
          /\ {proc[p].token, proc[p].creds, proc[p].reply} \subseteq Held

\* One process at a time uses the stored refresh token or writes the store,
\* unless a live holder's lock was removed: that of a suspended process, or a
\* fresh one by a waiter that saw the stale one before it.
OneWriter ==
    "broken" \notin excused =>
        Cardinality({p \in Proc : proc[p].step \in {"reload", "sent", "save"}}) <= 1

\* The credential lock does what it is for, through waits, deadlines, takeovers
\* and heartbeats.
LockGuards == CredentialsTypeOK /\ OneWriter

\* A refresh token the server accepts is never lost: it is in the store, or a
\* session holds it in place of the stored one, or it is on its way to the
\* store -- unless the server's answer was lost or a process died with it.
LoginKept ==
    "lost" \notin excused =>
        \/ store \in valid
        \/ \E p \in Proc : proc[p].up /\
              \/ Prefers(p) /\ proc[p].token \in valid
              \/ proc[p].work = "refresh" /\ proc[p].reply \in valid

\* Nobody sends a refresh token that was spent, for which the server would
\* refuse the login, unless the lock was broken or a rotation did not reach the
\* store.
SpentNeverSent ==
    excused = {} => \A p \in Proc : proc[p].step = "sent" => proc[p].creds \in valid

\* A reload never answers with the token the API rejected.
RejectedReplaced == \A p \in Proc : ~proc[p].again

\* A reload neither spends a token twice nor hands back a rejected one.
ReloadSound == SpentNeverSent /\ RejectedReplaced

\* The login is there for whoever needs it next, and nothing spends it twice.
LoginSafe == LoginKept /\ ReloadSound
=============================================================================
