--------------------------- MODULE SessionPicker ---------------------------
(***************************************************************************)
(* The /resume picker over the session listing.  Pages of the listing are  *)
(* read by worker threads, one at a time, while the user filters, switches *)
(* the scope, archives, deletes and resumes, and while other processes     *)
(* write to the same store.  Pages and engine events reach the picker over *)
(* two channels, in either order.                                          *)
(***************************************************************************)
EXTENDS Naturals, Sequences, FiniteSets, SequencesExt

CONSTANTS
    Saved,       \* saved sessions: naturals, whose order is that of the IDs
    Recent,      \* those last active at the later of two times as the program starts
    Here,        \* those of the project the store was opened for
    Matching,    \* those whose row the query matches
    NoSession,   \* no session, or no operation
    PageSize,    \* PAGE_SIZE
    LoadAhead,   \* LOAD_AHEAD
    MaxAt,       \* bound on the last-active times
    MaxOthers,   \* writes of other processes
    MaxReloads,  \* scope and view switches and openings by the user
    MaxOps       \* archives and deletes the user sends

ASSUME PickerAssumption ==
    /\ IsFiniteSet(Saved) /\ Saved \subseteq Nat
    /\ Recent \subseteq Saved /\ Here \subseteq Saved /\ Matching \subseteq Saved
    /\ NoSession \notin Saved
    /\ PageSize \in Nat /\ LoadAhead \in 1..PageSize
    /\ MaxAt \in Nat \ {0}

VARIABLES
    stored,      \* the sessions with a row
    at,          \* updated_at of each session
    archived,    \* the archived ones
    live,        \* the session the engine runs
    open,        \* the picker is on the modal stack
    scope,       \* ListScope
    list,        \* SearchableList: the rows, the query, the cursor, the load state
    pages,       \* Pages
    archive,     \* PendingArchive
    confirm,     \* the delete modal above the picker
    flight,      \* the archive or delete in flight
    workers,     \* page workers that have not read their page
    arrived,     \* pages in the App's channel
    left,        \* history: requests of pickers that were closed
    budget,      \* what the bounds leave of reloads, writes of others and operations
    moved,       \* history: sessions changed, or dropped from the list, since it began
    settled      \* history: what the picker was told it did to a session

store == <<stored, at, archived>>
asked == <<live, archive, confirm, flight, settled>>
outbox == <<arrived, left>>
pvars == <<store, open, scope, list, pages, workers, outbox, budget, moved, asked>>

Scopes == [projects : {"Current", "Every"}, view : {"Active", "Archived"}]
Flip(view) == IF view = "Active" THEN "Archived" ELSE "Active"

-----------------------------------------------------------------------------
(***************************************************************************)
(* The listing                                                             *)
(***************************************************************************)
InScope(s, sc) ==
    /\ s \in stored
    /\ s \in archived <=> sc.view = "Archived"
    /\ sc.projects = "Current" => s \in Here

\* The elements of a finite set S in a strict total order of them, a set of pairs.
Ordered(S, order) ==
    [n \in 1..Cardinality(S) |->
        CHOOSE s \in S : Cardinality({t \in S : <<t, s>> \in order}) = n - 1]

\* The entries of the sequence s that are in S, as they stand in s.
Keeping(s, S) ==
    LET kept == {i \in DOMAIN s : s[i] \in S}
        place == Ordered(kept, {p \in kept \X kept : p[1] < p[2]})
    IN  [n \in DOMAIN place |-> s[place[n]]]

\* ORDER BY updated_at DESC, id DESC.
Precedes(a, b) == a[1] > b[1] \/ (a[1] = b[1] /\ a[2] > b[2])
Place(s) == <<at[s], s>>
Listed(S) == Ordered(S, {p \in S \X S : Precedes(Place(p[1]), Place(p[2]))})

\* SessionWalk: `after` is the place of the last session returned.
Walk(sc) == [scope |-> sc, after |-> <<>>, exhausted |-> FALSE]

\* Mutant: the next page starts after the time of the last session, not its place.
FollowingByTime(walk) ==
    LET rest == {s \in Saved : InScope(s, walk.scope)
                     /\ (walk.after # <<>> => walk.after[1] > at[s])}
    IN  Listed(rest)

\* page: a keyset query.
Following(walk) ==
    LET rest == {s \in Saved : InScope(s, walk.scope)
                     /\ (walk.after # <<>> => Precedes(walk.after, Place(s)))}
    IN  Listed(rest)

\* next_page reads one row more than it returns, to know whether more follow.
NextPage(walk) ==
    LET found == Following(walk)
        page == SubSeq(found, 1, IF Len(found) < PageSize THEN Len(found) ELSE PageSize)
    IN  [rows |-> page,
         walk |-> [walk EXCEPT
             !.exhausted = Len(found) <= PageSize,
             !.after = IF page = <<>> THEN @ ELSE Place(Last(page))]]

-----------------------------------------------------------------------------
(***************************************************************************)
(* Pages: at most one worker reads for the picker                          *)
(***************************************************************************)
Rest(walk) ==
    [state |-> IF walk.exhausted THEN "Done" ELSE "Idle", request |-> 0, walk |-> walk]

\* Mutant: a reload drops the wait for the page that is loading.
ReplaceForgetting(ps, walk) == Rest(walk)

Replace(ps, walk) ==
    IF ps.state \in {"Loading", "Reloading"}
    THEN [ps EXCEPT !.state = "Reloading", !.walk = walk]
    ELSE Rest(walk)

Outstanding == workers \cup Range(arrived)

\* NEXT_REQUEST: an ID no outstanding page carries.
FreshRequest ==
    CHOOSE r \in 1..Cardinality(Outstanding) + 1 :
        \A w \in Outstanding : w.request # r

Filtered(l) == IF l.query THEN Keeping(l.rows, Matching) ELSE l.rows
Below(l) == IF Len(Filtered(l)) > l.cursor + 1 THEN Len(Filtered(l)) - (l.cursor + 1) ELSE 0
Selected(l) == IF l.cursor < Len(Filtered(l)) THEN Filtered(l)[l.cursor + 1] ELSE NoSession

\* load_ahead, and Pages::request: a worker starts when too few rows are below.
Asks(l, ps) == Below(l) < LoadAhead /\ ps.state = "Idle"
Loading(l, ps) ==
    IF Asks(l, ps) THEN [ps EXCEPT !.state = "Loading", !.request = FreshRequest] ELSE ps
ShowAhead(l, ps) ==
    /\ list' = l
    /\ pages' = Loading(l, ps)
    /\ workers' = IF Asks(l, ps)
                  THEN workers \cup {[request |-> FreshRequest, walk |-> ps.walk]}
                  ELSE workers

\* reload: the rows go, the query stays, and the listing begins again.
Relisted == [list EXCEPT !.rows = <<>>, !.cursor = 0, !.load = "Loading"]
ReloadAs(sc) ==
    /\ scope' = sc
    /\ ShowAhead(Relisted, Replace(pages, Walk(sc)))
    /\ moved' = {}

-----------------------------------------------------------------------------
NoArchive == [session |-> NoSession, relisted |-> FALSE]
NoConfirm == [session |-> NoSession, pending |-> FALSE]
NoFlight == [op |-> "none", session |-> NoSession, view |-> "Active", step |-> "ended",
             clean |-> FALSE]

EmptyList == [rows |-> <<>>, query |-> FALSE, cursor |-> 0, load |-> "Complete"]
NoPages == [state |-> "Done", request |-> 0, walk |-> [Walk([projects |-> "Current",
                view |-> "Active"]) EXCEPT !.exhausted = TRUE]]

PInit ==
    /\ stored = Saved
    /\ at = [s \in Saved |-> IF s \in Recent THEN 1 ELSE 0]
    /\ archived = {}
    /\ live = NoSession
    /\ open = FALSE
    /\ scope = [projects |-> "Current", view |-> "Active"]
    /\ list = EmptyList /\ pages = NoPages
    /\ archive = NoArchive /\ confirm = NoConfirm /\ flight = NoFlight
    /\ workers = {} /\ arrived = <<>> /\ left = {}
    /\ budget = [reloads |-> MaxReloads, others |-> MaxOthers, ops |-> MaxOps]
    /\ moved = {} /\ settled = [s \in Saved |-> "no"]

Keys == open /\ confirm.session = NoSession

-----------------------------------------------------------------------------
(***************************************************************************)
(* Keys.  ResumePicker::handle_key ends every key with load_ahead.         *)
(***************************************************************************)
\* /resume runs only while no operation is in flight.
OpenPicker ==
    /\ ~open /\ flight = NoFlight
    /\ budget.reloads > 0
    /\ budget' = [budget EXCEPT !.reloads = @ - 1]
    /\ open' = TRUE
    /\ scope' = [projects |-> "Current", view |-> "Active"]
    /\ ShowAhead([EmptyList EXCEPT !.load = "Loading"], Rest(Walk(scope')))
    /\ moved' = {} /\ settled' = [s \in Saved |-> "no"]
    /\ archive' = NoArchive /\ confirm' = NoConfirm
    /\ UNCHANGED <<store, live, flight, outbox>>

\* Esc, or a modal cleared: a worker of the picker may go on.
LeavePicker ==
    /\ open' = FALSE
    /\ list' = EmptyList /\ pages' = NoPages
    /\ archive' = NoArchive /\ confirm' = NoConfirm
    /\ left' = {w.request : w \in Outstanding}
    /\ UNCHANGED <<at, stored, scope, flight, workers, arrived, budget, moved, settled>>

Dismiss == Keys /\ LeavePicker /\ UNCHANGED <<archived, live>>

\* Enter: the session resumes, which unarchives it, or the live session stays:
\* the resume failed, or the App dropped it while another operation runs.
ResumeSelected ==
    /\ Keys /\ archive = NoArchive
    /\ Selected(list) # NoSession
    /\ LeavePicker
    /\ \/ /\ Selected(list) \in stored /\ flight = NoFlight
          /\ live' = Selected(list)
          /\ archived' = archived \ {Selected(list)}
       \/ UNCHANGED <<archived, live>>

SwitchScope ==
    /\ Keys /\ budget.reloads > 0
    /\ budget' = [budget EXCEPT !.reloads = @ - 1]
    /\ \/ ReloadAs([scope EXCEPT !.projects = IF @ = "Current" THEN "Every" ELSE "Current"])
       \/ ReloadAs([scope EXCEPT !.view = Flip(@)])
    /\ archive' = [archive EXCEPT !.relisted = archive.session # NoSession]
    /\ UNCHANGED <<store, open, live, confirm, flight, outbox, settled>>

\* Typing, pasting or clearing the query puts the cursor at the top; an arrow
\* or a page key moves it, around the ends once the listing is complete.
EditOrMove ==
    /\ Keys
    /\ \E l \in {[list EXCEPT !.query = ~@, !.cursor = 0]} \cup
               {[list EXCEPT !.cursor = c] : c \in 0..Len(Filtered(list)) - 1} :
           ShowAhead(l, pages)
    /\ UNCHANGED <<store, open, scope, outbox, budget, moved, asked>>

\* Ctrl+X.  The App tells the picker once it admitted the operation; it drops
\* it while another one runs.
ArchiveKey ==
    /\ Keys /\ archive = NoArchive /\ Selected(list) # NoSession
    /\ ShowAhead(list, pages)
    /\ flight = NoFlight /\ budget.ops > 0
    /\ budget' = [budget EXCEPT !.ops = @ - 1]
    /\ flight' = [NoFlight EXCEPT !.op = "archive", !.session = Selected(list),
                                  !.view = Flip(scope.view), !.step = "sent"]
    /\ archive' = [session |-> Selected(list), relisted |-> FALSE]
    /\ UNCHANGED <<store, open, scope, outbox, moved, live, confirm, settled>>

\* Ctrl+D opens the confirm modal above the picker.
DeleteKey ==
    /\ Keys /\ archive = NoArchive /\ Selected(list) # NoSession
    /\ ShowAhead(list, pages)
    /\ confirm' = [session |-> Selected(list), pending |-> FALSE]
    /\ UNCHANGED <<store, open, scope, outbox, budget, moved, live, archive, flight, settled>>

\* Y sends the delete, and the modal stays for its result.
Yes ==
    /\ confirm.session # NoSession /\ ~confirm.pending
    /\ flight = NoFlight /\ budget.ops > 0
    /\ budget' = [budget EXCEPT !.ops = @ - 1]
    /\ confirm' = [confirm EXCEPT !.pending = TRUE]
    /\ flight' = [NoFlight EXCEPT !.op = "delete", !.session = confirm.session, !.step = "sent"]
    /\ UNCHANGED <<store, open, scope, list, pages, workers, outbox, moved,
                   live, archive, settled>>

\* N or Esc, with the delete in flight or not.
No ==
    /\ confirm.session # NoSession
    /\ confirm' = NoConfirm
    /\ UNCHANGED <<store, open, scope, list, pages, workers, outbox, budget, moved,
                   live, archive, flight, settled>>

-----------------------------------------------------------------------------
(***************************************************************************)
(* The engine, and its events                                              *)
(***************************************************************************)
\* set_archived and delete refuse the live session and one that is gone, and
\* either write may fail.  A delete may fail after it removed the rows.
EngineRuns ==
    /\ flight.step = "sent"
    /\ LET s == flight.session IN
       \/ /\ s \in stored \ {live}
          /\ flight' = [flight EXCEPT !.step = "done", !.clean = s \notin moved]
          /\ IF flight.op = "delete"
             THEN stored' = stored \ {s} /\ UNCHANGED archived
             ELSE /\ archived' = IF flight.view = "Archived" THEN archived \cup {s}
                                                             ELSE archived \ {s}
                  /\ UNCHANGED stored
       \/ /\ flight' = [flight EXCEPT !.step = "failed"]
          /\ UNCHANGED archived
          /\ stored' \in IF flight.op = "delete" /\ s # live
                         THEN {stored, stored \ {s}} ELSE {stored}
    /\ moved' = moved \cup {flight.session}
    /\ settled' = [settled EXCEPT ![flight.session] = "no"]
    /\ UNCHANGED <<at, open, scope, list, pages, workers, outbox, budget, live, archive,
                   confirm>>

\* retain_items drops the row and keeps the cursor's index, or the last row.
Without(s) ==
    LET l == [list EXCEPT !.rows = Keeping(@, Saved \ {s})]
        last == IF Filtered(l) = <<>> THEN 0 ELSE Len(Filtered(l)) - 1
    IN  [l EXCEPT !.cursor = IF @ > last THEN last ELSE @]

\* Mutant: the row goes, whatever was listed since the key.
ArchiveUpdatedRetaining ==
    /\ archive' = NoArchive
    /\ IF archive.session = flight.session /\ flight.step = "done"
       THEN list' = Without(flight.session) ELSE UNCHANGED list
    /\ UNCHANGED <<scope, pages, workers, moved>>

\* archive_updated: the row goes, or the listing began again since and is read anew.
ArchiveUpdated ==
    /\ archive' = NoArchive
    /\ IF archive.session # flight.session \/ flight.step = "failed"
       THEN UNCHANGED <<scope, list, pages, workers, moved>>
       ELSE IF archive.relisted THEN ReloadAs(scope)
       ELSE /\ list' = Without(flight.session)
            /\ moved' = moved \cup {flight.session}
            /\ UNCHANGED <<scope, pages, workers>>

\* saved_deleted, and the confirm modal, which closes on success.
SavedDeleted ==
    /\ IF flight.step = "done" /\ open
       THEN ShowAhead(Without(flight.session), pages)
       ELSE UNCHANGED <<list, pages, workers>>
    /\ confirm' = IF confirm.session # flight.session THEN confirm
                  ELSE IF flight.step = "done" THEN NoConfirm
                  ELSE [confirm EXCEPT !.pending = FALSE]
    /\ moved' = moved \cup {flight.session}
    /\ UNCHANGED <<scope, archive>>

\* The modals take the event, and the operation ends.
TakeEvent ==
    /\ flight.step \in {"done", "failed"}
    /\ flight' = NoFlight
    /\ \/ flight.op = "archive" /\ ArchiveUpdated /\ UNCHANGED confirm
       \/ flight.op = "delete" /\ SavedDeleted
    /\ settled' = IF open /\ flight.step = "done" /\ flight.clean
                  THEN [settled EXCEPT ![flight.session] = flight.op] ELSE settled
    /\ UNCHANGED <<store, open, outbox, budget, live>>

-----------------------------------------------------------------------------
(***************************************************************************)
(* Page workers, and their pages                                           *)
(***************************************************************************)
\* A worker reads its page, or the store fails, or the worker panics.
Reads(w) ==
    /\ workers' = workers \ {w}
    /\ \E end \in {"page", "failed"} :
           LET next == IF end = "page" THEN NextPage(w.walk)
                       ELSE [rows |-> <<>>, walk |-> w.walk]
           IN  arrived' = Append(arrived, [request |-> w.request, walk |-> next.walk,
                                           end |-> end, rows |-> next.rows])
    /\ UNCHANGED <<store, open, scope, list, pages, left, budget, moved, asked>>

ReadPage == \E w \in workers : Reads(w)

\* append_page leaves out the live session.
Appended(page) ==
    [list EXCEPT !.rows = @ \o Keeping(page.rows, Saved \ {live}),
                 !.load = IF page.walk.exhausted THEN "Complete" ELSE "Loading"]

\* A page of a listing that was replaced, or of another picker, only asks again.
PageOther(ps) == ShowAhead(list, ps)

IsAwaited(page) == pages.state = "Loading" /\ pages.request = page.request

\* on_page, Pages::take.
TakePage ==
    /\ arrived # <<>>
    /\ arrived' = Tail(arrived)
    /\ left' = left \ {Head(arrived).request}
    /\ LET page == Head(arrived) IN
       IF ~open THEN UNCHANGED <<list, pages, workers>>
       ELSE IF IsAwaited(page)
       THEN IF page.end = "page" THEN ShowAhead(Appended(page), Rest(page.walk))
            ELSE /\ list' = [list EXCEPT !.load = "Failed"]
                 /\ pages' = NoPages
                 /\ UNCHANGED workers
       ELSE PageOther(IF pages.state = "Reloading" /\ pages.request = page.request
                      THEN Rest(pages.walk) ELSE pages)
    /\ UNCHANGED <<store, open, scope, budget, moved, asked>>

-----------------------------------------------------------------------------
(***************************************************************************)
(* Other processes: a head moves, which a clock or an import may move      *)
(* backwards, or a session is archived, unarchived, imported or deleted.   *)
(***************************************************************************)
OthersWrite ==
    /\ budget.others > 0
    /\ budget' = [budget EXCEPT !.others = @ - 1]
    /\ \E s \in Saved \ {live} :
         /\ \/ stored' = stored \cup {s} /\ UNCHANGED archived
               /\ \E t \in 0..MaxAt : at' = [at EXCEPT ![s] = t]
            \/ s \in stored /\ archived' = (archived \ {s}) \cup ({s} \ archived)
               /\ UNCHANGED <<stored, at>>
            \/ s \in stored /\ stored' = stored \ {s} /\ UNCHANGED <<archived, at>>
         /\ moved' = moved \cup {s}
         /\ settled' = [settled EXCEPT ![s] = "no"]
         /\ flight' = [flight EXCEPT !.clean = @ /\ s # flight.session]
    /\ UNCHANGED <<open, scope, list, pages, workers, outbox, live, archive, confirm>>

PNext ==
    \/ OpenPicker \/ Dismiss \/ ResumeSelected \/ SwitchScope \/ EditOrMove
    \/ ArchiveKey \/ DeleteKey \/ Yes \/ No
    \/ EngineRuns \/ TakeEvent \/ ReadPage \/ TakePage \/ OthersWrite

PSpec == PInit /\ [][PNext]_pvars

-----------------------------------------------------------------------------
(***************************************************************************)
(* Properties                                                              *)
(***************************************************************************)
\* Every variable has its type, and the cursor is on a row the query leaves.
PickerTypeOK ==
    /\ stored \subseteq Saved /\ archived \subseteq Saved /\ moved \subseteq Saved
    /\ at \in [Saved -> 0..MaxAt] /\ settled \in [Saved -> {"no", "archive", "delete"}]
    /\ live \in Saved \cup {NoSession} /\ scope \in Scopes
    /\ open => Range(list.rows) \subseteq Saved
    /\ list.cursor = 0 \/ list.cursor < Len(Filtered(list))

\* A listing read page by page is the scope as a whole: a session that nobody
\* changed since the listing began is shown once at most, in the order of the
\* listing and only in its scope, and once the list says it is complete, every
\* such session is shown.
ListingExact ==
    open =>
        LET still == Saved \ moved
            rows == list.rows
        IN  /\ \A i, j \in DOMAIN rows :
                   i < j /\ {rows[i], rows[j]} \subseteq still =>
                       Precedes(Place(rows[i]), Place(rows[j]))
            /\ \A s \in Range(rows) \cap still : InScope(s, scope) /\ s # live
            /\ list.load = "Complete" =>
                   \A s \in still \ {live} : InScope(s, scope) => s \in Range(rows)

\* Rapid switches never make two workers for one picker: it waits for the one
\* page of its own that is on its way, or has none.  It shows "loading" as long
\* as more may follow, and while nothing has changed it is idle only with enough
\* rows below the cursor, so that a search goes on to the end of the listing.
PagesAgree ==
    /\ PickerTypeOK
    /\ Cardinality(Outstanding) = Cardinality(workers) + Len(arrived)
    /\ \A v, w \in Outstanding : v.request = w.request => v = w
    /\ open =>
        /\ {w.request : w \in Outstanding} \ left =
               IF pages.state \in {"Loading", "Reloading"} THEN {pages.request} ELSE {}
        /\ list.load = "Loading" <=> pages.state # "Done"
        /\ pages.state = "Idle" /\ moved = {} => Below(list) >= LoadAhead

\* A session the picker archived or unarchived, and said so, is not offered in
\* the view it left, whatever was listed meanwhile.
ArchivedGone ==
    open => \A s \in Range(list.rows) : settled[s] = "archive" => InScope(s, scope)

\* What the picker shows is the listing, but for what the user settled in it.
ListingTrue == ListingExact /\ ArchivedGone

\* The same of a session it deleted.
DeletedGone ==
    open => \A s \in Range(list.rows) : settled[s] # "delete"
=============================================================================
