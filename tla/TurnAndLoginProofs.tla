------------------------ MODULE TurnAndLoginProofs --------------------------
(***************************************************************************)
(* Proofs about AgentTurn and Credentials, which share no state.  For any  *)
(* number of modes, rounds, failures, messages, prompts, switches and task *)
(* lists: the model was told the mode its calls run under, every usage is  *)
(* billed once and a turn stays within its bounds.  For any finite set of  *)
(* processes and any number of token pairs, attempts and faults: the lock  *)
(* admits one writer, a valid refresh token is never lost, and none is spent *)
(* twice.                                                                  *)
(***************************************************************************)
EXTENDS AgentTurn, Credentials, TLAPS, FiniteSetTheorems, WellFoundedInduction

-----------------------------------------------------------------------------
(***************************************************************************)
(* The turns: AInv adds to the properties what the engine relies on between *)
(* two steps: what a rollback would restore, what the turn still owes, and *)
(* how far it has come.                                                    *)
(***************************************************************************)
-----------------------------------------------------------------------------
Talk == [messages : Seq(Message), base : Mode, seen : Mode, unrecorded : BOOLEAN,
         tasks : 0 .. MaxTasks]
Mark == [length : Nat, seen : Mode, unrecorded : BOOLEAN]
Turn == [rounds : Nat, requests : Nat, unbilled : Nat, sent : Nat, tasks : 0 .. MaxTasks]
Box  == [mode : Mode \cup {None}, queued : BOOLEAN]
Purse == [owed : Int, title : {"none", "asked", "sent"}]
Failures == [failures : Nat, row : Nat]
Made == [prompts : Int, switches : Int, tasks : 0 .. MaxTasks]

\* The model knows the mode `t` says it knows, and the store has that prompt
\* unless nothing was sent yet.
Agreed(t) ==
    /\ Told(t) = t.seen
    /\ \/ t.unrecorded /\ t.messages = <<>>
       \/ Recorded(t) = [base |-> t.base, seen |-> t.seen]

\* What a rollback to `k` leaves of `t`.
Back(t, k) == [t EXCEPT !.messages = SubSeq(@, 1, k.length), !.seen = k.seen,
                        !.unrecorded = k.unrecorded]

\* The whole state's types, one conjunct per variable.
Typed ==
    /\ phase \in Phases /\ talk \in Talk /\ mark \in Mark \cup {None}
    /\ turn \in Turn /\ policy \in Mode /\ mailbox \in Box /\ money \in Purse
    /\ auto \in Failures /\ made \in Made

InTurn == phase \in {"request", "round", "midturn"}

\* A refusal can still take the turn back, to a conversation in which nothing
\* is half told.
CanRefuse ==
    phase \in {"request", "round"} =>
        /\ mark \in Mark /\ mark.length <= Len(talk.messages)
        /\ Agreed(Back(talk, mark))
        /\ Latest(Back(talk, mark)) = talk.tasks

\* How far the turn has come.
Counted ==
    /\ phase \in {"request", "round"} =>
          turn.requests = turn.rounds + 1 /\ turn.rounds < MaxRounds
    /\ phase = "midturn" =>
          /\ turn.requests = turn.rounds /\ turn.rounds < MaxRounds
          /\ turn.unbilled = 0 /\ turn.sent = 0 /\ turn.tasks = 0
    /\ ~InTurn => turn = NewTurn
    /\ auto.row = auto.failures
    /\ phase \in {"before", "midturn"} => auto.failures < MaxFailures

\* A title request belongs to a conversation that has begun.
TitleBegun == money.title # "none" => talk.messages # <<>>

AInv ==
    /\ Typed
    /\ Agreed(talk) /\ RequestsInForce /\ TasksKept
    /\ InTurn => talk.messages # <<>>
    /\ CanRefuse /\ Counted /\ TitleBegun /\ UsageBilledOnce

-----------------------------------------------------------------------------
(***************************************************************************)
(* Conversations                                                           *)
(***************************************************************************)

\* A set of naturals has a least one.
LEMMA LeastNat ==
    ASSUME NEW T \in SUBSET Nat, T # {}
    PROVE  \E x \in T : \A y \in T : x <= y
<1> DEFINE R == {ss \in Nat \X Nat : ss[1] < ss[2]}
<1>1. IsWellFoundedOn(R, Nat)
  BY NatLessThanWellFounded DEF OpToRel
<1> HIDE DEF R
<1>2. PICK x \in T : \A y \in T : ~ (<<y, x>> \in R)
  BY <1>1, WFMin
<1>3. \A y \in T : ~ (y < x)
  BY <1>2 DEF R
<1>4. QED
  BY <1>3

\* A set of numbers up to n has a greatest one, and Max finds it.
LEMMA MaxIn ==
    ASSUME NEW n \in Nat, NEW S \in SUBSET (1 .. n), S # {}
    PROVE  Max(S) \in S /\ \A k \in S : Max(S) >= k
<1> DEFINE T == {n - i : i \in S}
<1>1. \A i \in S : i \in Nat /\ n - i \in Nat
  OBVIOUS
<1>2. T \in SUBSET Nat
  BY <1>1
<1>3. T # {}
  OBVIOUS
<1>4. PICK x \in T : \A y \in T : x <= y
  BY <1>2, <1>3, LeastNat
<1>5. PICK i \in S : x = n - i
  OBVIOUS
<1>6. ASSUME NEW k \in S
      PROVE  i >= k
  <2>1. n - k \in T
    OBVIOUS
  <2>2. n - i <= n - k
    BY <1>4, <1>5, <2>1
  <2>3. QED
    BY <1>1, <2>2
<1>7. QED
  BY <1>5, <1>6 DEF Max

\* If the bound is among them, it is the greatest.
LEMMA MaxTop ==
    ASSUME NEW n \in Nat, NEW S \in SUBSET (1 .. n), n \in S
    PROVE  Max(S) = n
<1>1. Max(S) \in S /\ \A k \in S : Max(S) >= k
  BY MaxIn
<1>2. Max(S) \in 1 .. n /\ Max(S) >= n
  BY <1>1
<1>3. QED
  BY <1>2

\* Appending a message changes what the messages say to what it says, if it
\* says anything.
LEMMA SaidSays ==
    ASSUME NEW t \in Talk, NEW m \in Message
    PROVE  /\ Said(t, m) \in Talk
           /\ Said(t, m) = [t EXCEPT !.messages = Append(t.messages, m)]
           /\ Len(Said(t, m).messages) = Len(t.messages) + 1
           /\ Said(t, m).messages # <<>>
           /\ Told(Said(t, m)) = IF m.told = None THEN Told(t) ELSE m.told
           /\ Recorded(Said(t, m)) = IF m.context = None THEN Recorded(t) ELSE m.context
           /\ Latest(Said(t, m)) = IF m.tasks = 0 THEN Latest(t) ELSE m.tasks
<1> DEFINE u == Said(t, m)
           n == Len(t.messages) + 1
<1>1. /\ u = [t EXCEPT !.messages = Append(t.messages, m)] /\ u \in Talk
      /\ u.messages = Append(t.messages, m) /\ u.base = t.base
      /\ t.messages \in Seq(Message)
  BY DEF Said, Talk
<1>2. /\ Len(u.messages) = n /\ n \in Nat \ {0} /\ u.messages # <<>>
      /\ DOMAIN u.messages = 1 .. n /\ DOMAIN t.messages = 1 .. n - 1
      /\ u.messages[n] = m
  BY <1>1
<1>3. \A i \in 1 .. n - 1 : u.messages[i] = t.messages[i]
  BY <1>1
<1>4. Told(u) = IF m.told = None THEN Told(t) ELSE m.told
  <2> DEFINE S == {i \in DOMAIN t.messages : t.messages[i].told # None}
             V == {i \in DOMAIN u.messages : u.messages[i].told # None}
  <2>1. CASE m.told = None
    <3>1. V = S /\ S \in SUBSET (1 .. n - 1) /\ n - 1 \in Nat
      BY <1>2, <1>3, <2>1
    <3>2. S # {} => u.messages[Max(S)] = t.messages[Max(S)]
      BY <3>1, <1>3, MaxIn
    <3>3. QED
      BY <3>1, <3>2, <1>1, <2>1 DEF Told
  <2>2. CASE m.told # None
    <3>1. n \in V /\ V \in SUBSET (1 .. n)
      BY <1>2, <2>2
    <3>2. Max(V) = n
      BY <3>1, <1>2, MaxTop
    <3>3. QED
      BY <3>1, <3>2, <1>2, <2>2 DEF Told
  <2>3. QED
    BY <2>1, <2>2
<1>5. Recorded(u) = IF m.context = None THEN Recorded(t) ELSE m.context
  <2> DEFINE S == {i \in DOMAIN t.messages : t.messages[i].context # None}
             V == {i \in DOMAIN u.messages : u.messages[i].context # None}
  <2>1. CASE m.context = None
    <3>1. V = S /\ S \in SUBSET (1 .. n - 1) /\ n - 1 \in Nat
      BY <1>2, <1>3, <2>1
    <3>2. S # {} => u.messages[Max(S)] = t.messages[Max(S)]
      BY <3>1, <1>3, MaxIn
    <3>3. QED
      BY <3>1, <3>2, <1>1, <2>1 DEF Recorded
  <2>2. CASE m.context # None
    <3>1. n \in V /\ V \in SUBSET (1 .. n)
      BY <1>2, <2>2
    <3>2. Max(V) = n
      BY <3>1, <1>2, MaxTop
    <3>3. QED
      BY <3>1, <3>2, <1>2, <2>2 DEF Recorded
  <2>3. QED
    BY <2>1, <2>2
<1>6. Latest(u) = IF m.tasks = 0 THEN Latest(t) ELSE m.tasks
  <2> DEFINE S == {i \in DOMAIN t.messages : t.messages[i].tasks # 0}
             V == {i \in DOMAIN u.messages : u.messages[i].tasks # 0}
  <2>1. CASE m.tasks = 0
    <3>1. V = S /\ S \in SUBSET (1 .. n - 1) /\ n - 1 \in Nat
      BY <1>2, <1>3, <2>1
    <3>2. S # {} => u.messages[Max(S)] = t.messages[Max(S)]
      BY <3>1, <1>3, MaxIn
    <3>3. QED
      BY <3>1, <3>2, <1>1, <2>1 DEF Latest
  <2>2. CASE m.tasks # 0
    <3>1. n \in V /\ V \in SUBSET (1 .. n)
      BY <1>2, <2>2
    <3>2. Max(V) = n
      BY <3>1, <1>2, MaxTop
    <3>3. QED
      BY <3>1, <3>2, <1>2, <2>2 DEF Latest
  <2>3. QED
    BY <2>1, <2>2
<1>7. QED
  BY <1>1, <1>2, <1>4, <1>5, <1>6

\* The prompt's context that a message records is a record, never no record.
LEMMA Contexts == \A c \in Context : c # None
BY TurnAssumption DEF Context

LEMMA PlainSays == Plain \in Message /\ Plain.told = None /\ Plain.context = None /\ Plain.tasks = 0
BY TurnAssumption DEF Plain, Message

\* `t` with its prompt moved to `mode` and recorded.
Moved(t, mode) == [t EXCEPT !.seen = mode, !.unrecorded = FALSE]

\* A message that records the prompt leaves the model knowing `mode`, whatever
\* it knew before, and the store too.
LEMMA RecordsAgree ==
    ASSUME NEW t \in Talk, Agreed(t), NEW m \in Message, NEW mode \in Mode
    PROVE  /\ Records(t, m, mode) \in Talk /\ Agreed(Records(t, m, mode))
           /\ Records(t, m, mode).seen = mode /\ Records(t, m, mode).tasks = t.tasks
           /\ Records(t, m, mode).messages # <<>>
           /\ Len(Records(t, m, mode).messages) = Len(t.messages) + 1
           /\ Latest(Records(t, m, mode)) = IF m.tasks = 0 THEN Latest(t) ELSE m.tasks
           /\ \E w \in Message : Records(t, m, mode) = Moved(Said(t, w), mode)
<1> DEFINE unrecorded == t.unrecorded \/ mode # t.seen
           w == [m EXCEPT !.told    = IF mode # t.seen THEN mode ELSE None,
                          !.context = IF unrecorded THEN [base |-> t.base, seen |-> mode]
                                                    ELSE None]
           s == Said(t, w)
           u == [s EXCEPT !.seen = mode, !.unrecorded = FALSE]
<1>1. Records(t, m, mode) = u /\ u = Moved(s, mode)
  BY DEF Records, Moved
<1>2. /\ w \in Message /\ w.tasks = m.tasks
      /\ w.told = (IF mode # t.seen THEN mode ELSE None)
      /\ w.context = (IF unrecorded THEN [base |-> t.base, seen |-> mode] ELSE None)
      /\ [base |-> t.base, seen |-> mode] \in Context
  BY DEF Message, Talk, Context
<1> HIDE DEF w
<1>3. /\ s \in Talk /\ s = [t EXCEPT !.messages = Append(t.messages, w)]
      /\ Len(s.messages) = Len(t.messages) + 1 /\ s.messages # <<>>
      /\ Told(s) = (IF w.told = None THEN Told(t) ELSE w.told)
      /\ Recorded(s) = (IF w.context = None THEN Recorded(t) ELSE w.context)
      /\ Latest(s) = (IF m.tasks = 0 THEN Latest(t) ELSE m.tasks)
  BY <1>2, SaidSays
<1>4. /\ u \in Talk /\ u.messages = s.messages /\ u.base = t.base /\ u.seen = mode
      /\ u.tasks = t.tasks /\ s.base = t.base
  BY <1>3 DEF Talk
<1>5. Told(u) = Told(s) /\ Recorded(u) = Recorded(s) /\ Latest(u) = Latest(s)
  BY <1>4 DEF Told, Recorded, Latest
<1>6. Told(u) = mode
  BY <1>2, <1>3, <1>5, TurnAssumption DEF Agreed
<1>7. Recorded(u) = [base |-> t.base, seen |-> mode]
  <2>1. CASE unrecorded
    BY <2>1, <1>2, <1>3, <1>5, Contexts
  <2>2. CASE ~unrecorded
    BY <2>2, <1>2, <1>3, <1>5 DEF Agreed
  <2>3. QED
    BY <2>1, <2>2
<1>8. QED
  BY <1>1, <1>2, <1>3, <1>4, <1>5, <1>6, <1>7 DEF Agreed

\* A message that tells nothing, once something was said, changes nothing told.
LEMMA PlainKeeps ==
    ASSUME NEW t \in Talk, Agreed(t), t.messages # <<>>
    PROVE  /\ Said(t, Plain) \in Talk /\ Agreed(Said(t, Plain))
           /\ Said(t, Plain).seen = t.seen /\ Said(t, Plain).tasks = t.tasks
           /\ Latest(Said(t, Plain)) = Latest(t) /\ Said(t, Plain).messages # <<>>
           /\ Len(Said(t, Plain).messages) = Len(t.messages) + 1
<1>1. /\ Said(t, Plain).seen = t.seen /\ Said(t, Plain).base = t.base
      /\ Said(t, Plain).tasks = t.tasks
  BY DEF Said, Talk
<1>2. QED
  BY <1>1, SaidSays, PlainSays DEF Agreed

LEMMA DrainedKeeps ==
    ASSUME NEW t \in Talk, Agreed(t), t.messages # <<>>, mailbox \in Box
    PROVE  /\ Drained(t) \in Talk /\ Agreed(Drained(t))
           /\ Drained(t).seen = t.seen /\ Drained(t).tasks = t.tasks
           /\ Latest(Drained(t)) = Latest(t) /\ Drained(t).messages # <<>>
           /\ Len(Drained(t).messages) \in Nat
           /\ Len(Drained(t).messages) >= Len(t.messages)
<1>1. Len(t.messages) \in Nat
  BY DEF Talk
<1>2. QED
  BY <1>1, PlainKeeps DEF Drained

\* The conversation takes the turn's task list, and nothing it tells changes.
LEMMA KeptKeeps ==
    ASSUME NEW t \in Talk, Agreed(t), NEW n \in Turn
    PROVE  /\ Kept(t, n) \in Talk /\ Agreed(Kept(t, n))
           /\ Kept(t, n).messages = t.messages /\ Kept(t, n).seen = t.seen
           /\ Latest(Kept(t, n)) = Latest(t)
           /\ Kept(t, n).tasks = IF n.tasks = 0 THEN t.tasks ELSE n.tasks
<1>1. /\ Kept(t, n) \in Talk /\ Kept(t, n).messages = t.messages
      /\ Kept(t, n).seen = t.seen /\ Kept(t, n).base = t.base
      /\ Kept(t, n).unrecorded = t.unrecorded
      /\ Kept(t, n).tasks = IF n.tasks = 0 THEN t.tasks ELSE n.tasks
  BY DEF Kept, Talk, Turn
<1>2. /\ Told(Kept(t, n)) = Told(t) /\ Recorded(Kept(t, n)) = Recorded(t)
      /\ Latest(Kept(t, n)) = Latest(t)
  BY <1>1 DEF Told, Recorded, Latest
<1>3. QED
  BY <1>1, <1>2 DEF Agreed

\* A summary tells the mode in force and keeps the tasks.
LEMMA SummaryAgrees ==
    ASSUME NEW t \in Talk, NEW mode \in Mode
    PROVE  /\ Summary(t, mode) \in Talk /\ Agreed(Summary(t, mode))
           /\ Summary(t, mode).seen = mode /\ Summary(t, mode).tasks = t.tasks
           /\ Latest(Summary(t, mode)) = t.tasks /\ Summary(t, mode).messages # <<>>
<1> DEFINE u == Summary(t, mode)
           e == [messages |-> <<>>, base |-> mode, seen |-> mode, unrecorded |-> FALSE,
                 tasks |-> t.tasks]
           m == [told |-> None, context |-> [base |-> mode, seen |-> mode], tasks |-> t.tasks]
<1>1. /\ e \in Talk /\ m \in Message /\ [base |-> mode, seen |-> mode] \in Context
  BY DEF Talk, Message, Context
<1>2. u = Said(e, m)
  <2>1. Append(<<>>, m) = <<m>>
    OBVIOUS
  <2>2. Said(e, m) = [e EXCEPT !.messages = Append(<<>>, m)]
    BY DEF Said
  <2>3. QED
    BY <2>1, <2>2 DEF Summary
<1>3. Told(e) = mode /\ Latest(e) = 0
  BY DEF Told, Latest
<1>4. /\ u \in Talk /\ u.messages # <<>> /\ Told(u) = mode
      /\ Recorded(u) = [base |-> mode, seen |-> mode] /\ Latest(u) = t.tasks
  <2>1. m.told = None /\ m.context = [base |-> mode, seen |-> mode] /\ m.tasks = t.tasks
    OBVIOUS
  <2> HIDE DEF m, e, u
  <2>2. QED
    BY <1>1, <1>2, <1>3, <2>1, SaidSays, Contexts
<1>5. u.seen = mode /\ u.base = mode /\ u.tasks = t.tasks
  BY DEF Summary
<1>6. QED
  BY <1>4, <1>5 DEF Agreed

-----------------------------------------------------------------------------
(***************************************************************************)
(* Rollbacks                                                               *)
(***************************************************************************)

\* What is said after the mark does not change what a rollback restores.
LEMMA BackSaid ==
    ASSUME NEW t \in Talk, NEW m \in Message, NEW k \in Mark, k.length <= Len(t.messages)
    PROVE  Back(Said(t, m), k) = Back(t, k)
<1>1. SubSeq(Append(t.messages, m), 1, k.length) = SubSeq(t.messages, 1, k.length)
  BY DEF Talk, Mark
<1>2. Said(t, m) = [t EXCEPT !.messages = Append(t.messages, m)]
  BY SaidSays
<1>3. QED
  BY <1>1, <1>2 DEF Back, Talk

LEMMA BackRecords ==
    ASSUME NEW t \in Talk, Agreed(t), NEW m \in Message, NEW mode \in Mode,
           NEW k \in Mark, k.length <= Len(t.messages)
    PROVE  Back(Records(t, m, mode), k) = Back(t, k)
<1>1. PICK w \in Message : Records(t, m, mode) = Moved(Said(t, w), mode)
  BY RecordsAgree
<1>2. Said(t, w) \in Talk
  BY SaidSays
<1>3. Back(Moved(Said(t, w), mode), k) = Back(Said(t, w), k)
  BY <1>2 DEF Back, Moved, Talk
<1>4. QED
  BY <1>1, <1>3, BackSaid

LEMMA BackDrained ==
    ASSUME NEW t \in Talk, NEW k \in Mark, k.length <= Len(t.messages)
    PROVE  Back(Drained(t), k) = Back(t, k)
BY BackSaid, PlainSays DEF Drained

\* A turn starts at a mark that leads back to where it started.
LEMMA BackStart ==
    ASSUME NEW t \in Talk
    PROVE  /\ StartOfTurn(t) \in Mark /\ StartOfTurn(t).length = Len(t.messages)
           /\ Back(t, StartOfTurn(t)) = t
<1>1. SubSeq(t.messages, 1, Len(t.messages)) = t.messages
  BY DEF Talk
<1>2. /\ StartOfTurn(t) = [length |-> Len(t.messages), seen |-> t.seen,
                             unrecorded |-> t.unrecorded]
      /\ Len(t.messages) \in Nat /\ t.seen \in Mode /\ t.unrecorded \in BOOLEAN
  BY DEF StartOfTurn, Talk
<1>3. [t EXCEPT !.messages = t.messages, !.seen = t.seen, !.unrecorded = t.unrecorded] = t
  BY DEF Talk
<1>4. Back(t, StartOfTurn(t)) = t
  <2>1. ASSUME NEW k, k.length = Len(t.messages), k.seen = t.seen,
               k.unrecorded = t.unrecorded
        PROVE  Back(t, k) = t
    BY <2>1, <1>1, <1>3 DEF Back
  <2>2. QED
    BY <1>2, <2>1
<1>5. QED
  BY <1>2, <1>4 DEF Mark

-----------------------------------------------------------------------------
(***************************************************************************)
(* The ledger                                                              *)
(***************************************************************************)

\* `m` owes `n` and the usage of a title that landed.
OwesFor(m, n) == m \in Purse /\ m.owed = n + (IF m.title = "sent" THEN 1 ELSE 0)

LEMMA Ledger ==
    ASSUME NEW m, NEW n \in Int, NEW k \in Int, OwesFor(m, n)
    PROVE  /\ OwesFor(Owes(m, k), n + k) /\ Owes(m, k).title = m.title
           /\ OwesFor(Billed(m, k), n - k) /\ Billed(m, k).title = m.title
           /\ OwesFor(Absorbed(m), n) /\ Absorbed(m).title \in {"none", m.title}
<1>1. /\ OwesFor(Owes(m, k), n + k) /\ Owes(m, k).title = m.title
      /\ OwesFor(Billed(m, k), n - k) /\ Billed(m, k).title = m.title
  BY DEF OwesFor, Owes, Billed, Purse
<1>2. OwesFor(Absorbed(m), n) /\ Absorbed(m).title \in {"none", m.title}
  <2>1. CASE m.title = "sent"
    <3>1. Absorbed(m) = [m EXCEPT !.owed = m.owed - 1, !.title = "none"]
      BY <2>1 DEF OwesFor, Absorbed, Billed, Purse
    <3>2. m.owed = n + 1 /\ m \in Purse
      BY <2>1 DEF OwesFor
    <3>3. m.owed - 1 = n
      BY <3>2
    <3>4. Absorbed(m) = [m EXCEPT !.owed = n, !.title = "none"]
      BY <3>1, <3>3
    <3>5. /\ Absorbed(m).owed = n /\ Absorbed(m).title = "none"
          /\ Absorbed(m) \in Purse
      BY <3>2, <3>4 DEF Purse
    <3>6. QED
      BY <3>5 DEF OwesFor
  <2>2. CASE m.title # "sent"
    BY <2>2 DEF OwesFor, Absorbed
  <2>3. QED
    BY <2>1, <2>2
<1>3. QED
  BY <1>1, <1>2

\* What a part of the turn reported is billed as it ends.
LEMMA AccountedBills ==
    ASSUME turn \in Turn, OwesFor(money, turn.unbilled)
    PROVE  OwesFor(Accounted(money), 0) /\ Accounted(money).title \in {"none", money.title}
<1>1. turn.unbilled \in Int /\ 0 \in Int /\ turn.unbilled - turn.unbilled = 0
  BY DEF Turn
<1>2. CASE turn.unbilled = 0
  BY <1>2 DEF Accounted
<1>3. CASE turn.unbilled # 0
  <2>1. OwesFor(Billed(money, turn.unbilled), 0) /\ Billed(money, turn.unbilled).title = money.title
    BY <1>1, Ledger
  <2>2. QED
    BY <2>1, <1>1, <1>3, Ledger DEF Accounted
<1>4. QED
  BY <1>2, <1>3

-----------------------------------------------------------------------------
(***************************************************************************)
(* Steps of one kind                                                       *)
(***************************************************************************)
LEMMA InForceMode ==
    ASSUME Typed
    PROVE  InForce \in Mode /\ Empty \in Box /\ NewTurn \in Turn
<1>1. InForce \in Mode
  BY DEF Typed, InForce, Box
<1>2. Empty \in Box
  BY DEF Box, Empty
<1>3. NewTurn \in Turn
  BY TurnAssumption DEF NewTurn, Turn
<1>4. QED
  BY <1>1, <1>2, <1>3

\* An operation that ends leaves nothing half done.
LEMMA EndsInv ==
    ASSUME AInv, OpEnds,
           talk' \in Talk, Agreed(talk'), Latest(talk') = talk'.tasks,
           OwesFor(money', 0), money'.title # "none" => talk'.messages # <<>>,
           auto' \in Failures, auto'.row = auto'.failures, made' \in Made
    PROVE  AInv'
<1>1. /\ phase' = "idle" /\ mark' = None /\ turn' = NewTurn
      /\ policy' = InForce /\ mailbox' = Empty
  BY DEF OpEnds
<1>2. Typed'
  BY <1>1, InForceMode DEF AInv, Typed, OwesFor, Phases
<1>3. UsageBilledOnce'
  BY <1>1 DEF UsageBilledOnce, OwesFor, NewTurn, Talk
<1>4. TasksKept'
  BY <1>1 DEF TasksKept, NewTurn
<1>5. Counted' /\ CanRefuse' /\ RequestsInForce' /\ TitleBegun' /\ InTurn' = FALSE
  BY <1>1 DEF Counted, CanRefuse, RequestsInForce, TitleBegun, InTurn
<1>6. QED
  BY <1>2, <1>3, <1>4, <1>5 DEF AInv

\* A request goes out in a conversation that tells its mode, from a mark that
\* leads back to one that agrees, and within the turn's rounds.
LEMMA RequestInv ==
    ASSUME AInv, NEW n \in Turn, Requests(n),
           talk' \in Talk, Agreed(talk'), talk'.messages # <<>>,
           talk'.seen = policy', policy' \in Mode, mailbox' \in Box,
           mark' \in Mark, mark'.length <= Len(talk'.messages),
           Agreed(Back(talk', mark')), Latest(Back(talk', mark')) = talk'.tasks,
           n.requests = n.rounds, n.rounds < MaxRounds, n.sent <= Len(talk'.messages),
           (IF n.tasks = 0 THEN talk'.tasks ELSE n.tasks) = Latest(talk'),
           OwesFor(money', n.unbilled),
           auto' \in Failures, auto'.row = auto'.failures, made' \in Made
    PROVE  AInv'
<1>1. phase' = "request" /\ turn' = [n EXCEPT !.requests = @ + 1]
  BY DEF Requests
<1>2. /\ turn' \in Turn /\ turn'.requests = n.requests + 1 /\ turn'.rounds = n.rounds
      /\ turn'.unbilled = n.unbilled /\ turn'.sent = n.sent /\ turn'.tasks = n.tasks
  BY <1>1 DEF Turn
<1>3. Typed'
  BY <1>1, <1>2 DEF AInv, Typed, OwesFor, Phases
<1>4. UsageBilledOnce' /\ TasksKept'
  BY <1>2 DEF UsageBilledOnce, OwesFor, TasksKept
<1>5. Counted' /\ RequestsInForce' /\ TitleBegun' /\ CanRefuse'
  BY <1>1, <1>2 DEF Counted, RequestsInForce, TitleBegun, InTurn, CanRefuse
<1>6. QED
  BY <1>3, <1>4, <1>5 DEF AInv

\* A prompt that begins its turn.
LEMMA BeginsInv ==
    ASSUME AInv, NEW t \in Talk, Agreed(t), Latest(t) = t.tasks, Begins(t),
           OwesFor(money', 0), auto' \in Failures, auto'.row = auto'.failures, made' \in Made
    PROVE  AInv'
<1> DEFINE r == Records(t, Plain, InForce)
           k == StartOfTurn(t)
<1>1. /\ talk' = Drained(r) /\ mark' = k /\ policy' = InForce /\ mailbox' = Empty
      /\ Requests(NewTurn)
  BY DEF Begins
<1>2. /\ r \in Talk /\ Agreed(r) /\ r.seen = InForce /\ r.tasks = t.tasks
      /\ r.messages # <<>> /\ Len(r.messages) = Len(t.messages) + 1 /\ Latest(r) = Latest(t)
      /\ InForce \in Mode /\ Empty \in Box /\ NewTurn \in Turn
  BY RecordsAgree, PlainSays, InForceMode DEF AInv
<1>3. /\ talk' \in Talk /\ Agreed(talk') /\ talk'.seen = InForce /\ talk'.tasks = t.tasks
      /\ talk'.messages # <<>> /\ Latest(talk') = t.tasks
      /\ Len(talk'.messages) \in Nat /\ Len(talk'.messages) >= Len(r.messages)
  BY <1>1, <1>2, DrainedKeeps DEF AInv, Typed
<1>4. k \in Mark /\ k.length = Len(t.messages) /\ Back(t, k) = t /\ Len(t.messages) \in Nat
  BY BackStart DEF Talk
<1>5. Back(talk', k) = t
  <2>1. Back(r, k) = t
    BY <1>2, <1>4, BackRecords, PlainSays
  <2>2. k.length <= Len(r.messages)
    BY <1>2, <1>4
  <2>3. QED
    BY <1>1, <1>2, <1>4, <2>1, <2>2, BackDrained
<1>6. /\ NewTurn.requests = NewTurn.rounds /\ NewTurn.rounds < MaxRounds
      /\ NewTurn.sent <= Len(talk'.messages) /\ NewTurn.tasks = 0 /\ NewTurn.unbilled = 0
  BY <1>3, TurnAssumption DEF NewTurn
<1>7. k.length <= Len(talk'.messages)
  BY <1>2, <1>3, <1>4
<1> HIDE DEF r, k
<1>8. QED
  BY <1>1, <1>2, <1>3, <1>4, <1>5, <1>6, <1>7, RequestInv

-----------------------------------------------------------------------------
(***************************************************************************)
(* The steps                                                               *)
(***************************************************************************)

\* What the steps below use of the invariant.
LEMMA Facts ==
    ASSUME AInv
    PROVE  /\ talk \in Talk /\ turn \in Turn /\ policy \in Mode /\ mailbox \in Box
           /\ money \in Purse /\ auto \in Failures /\ made \in Made /\ phase \in Phases
           /\ Agreed(talk) /\ InForce \in Mode /\ Len(talk.messages) \in Nat
           /\ OwesFor(money, turn.unbilled) /\ auto.row = auto.failures
           /\ (~InTurn => turn = NewTurn /\ turn.unbilled = 0 /\ turn.tasks = 0 /\ turn.sent = 0)
           /\ (IF turn.tasks = 0 THEN talk.tasks ELSE turn.tasks) = Latest(talk)
           /\ turn.sent <= Len(talk.messages)
<1>1. Typed /\ Len(talk.messages) \in Nat
  BY DEF AInv, Typed, Talk
<1>2. InForce \in Mode
  BY <1>1, InForceMode
<1>3. ~InTurn => turn = NewTurn /\ turn.unbilled = 0 /\ turn.tasks = 0 /\ turn.sent = 0
  BY DEF AInv, Counted, NewTurn
<1>4. QED
  BY <1>1, <1>2, <1>3 DEF AInv, Typed, OwesFor, UsageBilledOnce, TasksKept, Counted

LEMMA SubmitInv ==
    ASSUME AInv, Submit
    PROVE  AInv'
<1>1. /\ phase = "idle" /\ auto' = auto
      /\ made' = [made EXCEPT !.prompts = @ + 1]
      /\ ~InTurn
  BY DEF Submit, InTurn
<1>2. made' \in Made /\ turn.unbilled = 0 /\ Latest(talk) = talk.tasks
  BY <1>1, Facts DEF Made
<1>3. CASE Begins(talk) /\ money' = Titled(money)
  <2>1. OwesFor(money', 0)
    BY <1>2, <1>3, Facts DEF OwesFor, Titled, AInv, TitleBegun, Purse
  <2>2. QED
    BY <1>1, <1>2, <1>3, <2>1, Facts, BeginsInv
<1>4. CASE /\ Due(Paused) /\ phase' = "before"
           /\ UNCHANGED <<talk, mark, turn, policy, mailbox, money>>
  <2>1. auto.failures < MaxFailures
    BY <1>4, Facts, TurnAssumption DEF Due, Paused, Failures
  <2>2. Typed'
    BY <1>1, <1>2, <1>4 DEF AInv, Typed, Phases
  <2>3. Counted' /\ CanRefuse' /\ RequestsInForce' /\ InTurn' = FALSE
    BY <1>1, <1>4, <2>1 DEF AInv, Counted, CanRefuse, RequestsInForce, InTurn
  <2>4. TasksKept' /\ UsageBilledOnce' /\ TitleBegun' /\ Agreed(talk')
    BY <1>4 DEF AInv, TasksKept, UsageBilledOnce, TitleBegun
  <2>5. QED
    BY <2>2, <2>3, <2>4 DEF AInv
<1>5. QED
  BY <1>3, <1>4 DEF Submit

\* A step that leaves the conversation, the turn and the money alone and moves
\* between phases outside a turn, or in none.
LEMMA AsideInv ==
    ASSUME AInv, UNCHANGED <<talk, mark, turn, money>>,
           phase' = phase \/ (~InTurn /\ phase' \in {"idle", "manual"}),
           policy' \in Mode, mailbox' \in Box, made' \in Made,
           auto' = auto \/ (phase = "idle" /\ auto' = [failures |-> 0, row |-> 0]),
           phase = "request" => policy' = policy
    PROVE  AInv'
<1>1. Typed'
  BY DEF AInv, Typed, Phases, Failures
<1>2. Counted' /\ CanRefuse' /\ RequestsInForce'
  BY DEF AInv, Counted, CanRefuse, RequestsInForce, InTurn
<1>3. TasksKept' /\ UsageBilledOnce' /\ TitleBegun' /\ Agreed(talk')
  BY DEF AInv, TasksKept, UsageBilledOnce, TitleBegun
<1>4. InTurn' => talk'.messages # <<>>
  BY DEF AInv, InTurn
<1>5. QED
  BY <1>1, <1>2, <1>3, <1>4 DEF AInv

LEMMA WaitInv ==
    ASSUME AInv, NEW m \in Mode, Compact \/ Queue \/ Gate \/ Switch(m) \/ SetMode(m)
    PROVE  AInv'
<1>1. CASE Compact
  BY <1>1, AsideInv DEF Compact, AInv, Typed, InTurn
<1>2. CASE Queue
  <2>1. mailbox' \in Box
    BY <1>2, Facts DEF Queue, Box
  <2>2. made' \in Made
    BY <1>2, Facts DEF Queue, Made
  <2>3. QED
    BY <1>2, <2>1, <2>2, Facts, AsideInv DEF Queue
<1>3. CASE Gate
  <2>1. mailbox' \in Box /\ policy' \in Mode
    BY <1>3, Facts DEF Gate, Box
  <2>2. QED
    BY <1>3, <2>1, Facts, AsideInv DEF Gate
<1>4. CASE Switch(m)
  <2>1. mailbox' \in Box
    BY <1>4, Facts DEF Switch, Box
  <2>2. made' \in Made
    BY <1>4, Facts DEF Switch, Made
  <2>3. QED
    BY <1>4, <2>1, <2>2, Facts, AsideInv DEF Switch
<1>5. CASE SetMode(m)
  <2>1. made' \in Made
    BY <1>5, Facts DEF SetMode, Made
  <2>2. QED
    BY <1>5, <2>1, Facts, AsideInv DEF SetMode
<1>6. QED
  BY <1>1, <1>2, <1>3, <1>4, <1>5

LEMMA StreamedTurn ==
    ASSUME AInv, NEW reports \in BOOLEAN, InTurn
    PROVE  /\ Streamed(reports) \in Turn /\ Streamed(reports).rounds = turn.rounds
           /\ Streamed(reports).requests = turn.requests
           /\ Streamed(reports).tasks = turn.tasks
           /\ Streamed(reports).sent <= Len(talk.messages)
           /\ OwesFor(Reported(reports), Streamed(reports).unbilled)
           /\ Reported(reports).title = money.title
<1>1. /\ turn \in Turn /\ Len(talk.messages) \in Nat /\ turn.sent <= Len(talk.messages)
      /\ OwesFor(money, turn.unbilled) /\ turn.unbilled \in Int
  BY Facts DEF Turn
<1>2. CASE reports
  <2>1. Streamed(reports) = [turn EXCEPT !.unbilled = turn.unbilled + 1,
                                         !.sent = Len(talk.messages)]
    BY <1>2 DEF Streamed
  <2>2. Streamed(reports).unbilled = turn.unbilled + 1
    BY <2>1, <1>1 DEF Turn
  <2>3. OwesFor(Reported(reports), turn.unbilled + 1) /\ Reported(reports).title = money.title
    BY <1>1, <1>2, Ledger DEF Reported
  <2>4. /\ Streamed(reports) \in Turn /\ Streamed(reports).rounds = turn.rounds
        /\ Streamed(reports).requests = turn.requests
        /\ Streamed(reports).tasks = turn.tasks
        /\ Streamed(reports).sent = Len(talk.messages)
    <3>1. turn.unbilled + 1 \in Nat
      BY <1>1 DEF Turn
    <3>2. Streamed(reports) \in Turn
      BY <2>1, <3>1, <1>1 DEF Turn
    <3>3. QED
      BY <2>1, <3>2, <1>1 DEF Turn
  <2>5. QED
    BY <2>2, <2>3, <2>4, <1>1
<1>3. CASE ~reports
  <2>1. Streamed(reports) = turn
    BY <1>1, <1>3 DEF Streamed, Turn
  <2>2. QED
    BY <2>1, <1>1, <1>3 DEF Reported
<1>4. QED
  BY <1>2, <1>3

LEMMA TurnEndsInv ==
    ASSUME AInv, NEW reports \in BOOLEAN, NEW t \in Talk, Agreed(t), t.messages # <<>>,
           t.tasks = talk.tasks, Latest(t) = Latest(talk),
           phase = "request", TurnEnds(t, reports)
    PROVE  AInv'
<1>1. /\ talk' = Kept(t, turn) /\ OpEnds /\ auto' = auto /\ made' = made /\ InTurn
      /\ turn \in Turn
  BY Facts DEF TurnEnds, InTurn
<1>2. /\ talk' \in Talk /\ Agreed(talk') /\ talk'.messages # <<>>
      /\ Latest(talk') = talk'.tasks
  BY <1>1, KeptKeeps, Facts
<1>3. OwesFor(money', 0)
  <2> DEFINE n == Streamed(reports).unbilled
  <2>1. n \in Int /\ OwesFor(Reported(reports), n) /\ n - n = 0
    BY <1>1, StreamedTurn DEF Turn
  <2>2. money' = IF n = 0 THEN Reported(reports) ELSE Absorbed(Billed(Reported(reports), n))
    BY DEF TurnEnds
  <2> HIDE DEF n
  <2>3. OwesFor(Billed(Reported(reports), n), 0)
    BY <2>1, Ledger
  <2>4. OwesFor(Absorbed(Billed(Reported(reports), n)), 0)
    BY <2>3, Ledger
  <2>5. QED
    BY <2>1, <2>2, <2>4
<1>4. QED
  BY <1>1, <1>2, <1>3, Facts, EndsInv

LEMMA ReplyEndsInv ==
    ASSUME AInv, NEW reports \in BOOLEAN, ReplyEnds(reports)
    PROVE  AInv'
<1>1. phase = "request" /\ talk.messages # <<>>
  BY DEF ReplyEnds, AInv, InTurn
<1>2. CASE TurnEnds(talk, reports)
  BY <1>1, <1>2, Facts, TurnEndsInv
<1>3. CASE TurnEnds(Said(talk, Plain), reports)
  BY <1>1, <1>3, Facts, PlainKeeps, TurnEndsInv
<1>4. QED
  BY <1>2, <1>3 DEF ReplyEnds

LEMMA PauseInv ==
    ASSUME AInv, NEW reports \in BOOLEAN, Pause(reports)
    PROVE  AInv'
<1> DEFINE t == Said(talk, Plain)
           n == [Streamed(reports) EXCEPT !.rounds = @ + 1]
<1>1. /\ phase = "request" /\ InTurn /\ talk.messages # <<>> /\ talk.seen = policy
      /\ mark \in Mark /\ mark.length <= Len(talk.messages)
      /\ Agreed(Back(talk, mark)) /\ Latest(Back(talk, mark)) = talk.tasks
      /\ turn.requests = turn.rounds + 1
  BY DEF Pause, AInv, InTurn, RequestsInForce, CanRefuse, Counted
<1>2. /\ t \in Talk /\ Agreed(t) /\ t.messages # <<>> /\ t.seen = talk.seen
      /\ t.tasks = talk.tasks /\ Latest(t) = Latest(talk)
      /\ Len(t.messages) = Len(talk.messages) + 1 /\ Len(talk.messages) \in Nat
      /\ Back(t, mark) = Back(talk, mark)
  BY <1>1, Facts, PlainKeeps, PlainSays, BackSaid
<1>3. /\ n \in Turn /\ n.rounds = turn.rounds + 1 /\ n.requests = turn.requests
      /\ n.tasks = turn.tasks /\ n.sent <= Len(talk.messages) /\ n.sent \in Nat
      /\ n.unbilled = Streamed(reports).unbilled
      /\ OwesFor(Reported(reports), n.unbilled)
  BY <1>1, StreamedTurn DEF Turn
<1>4. CASE n.rounds < MaxRounds
  <2>1. /\ talk' = t /\ money' = Reported(reports) /\ Requests(n)
        /\ UNCHANGED <<mark, policy, mailbox, auto, made>>
    BY <1>4 DEF Pause
  <2>2. mark.length \in Nat /\ mark.length <= Len(t.messages) /\ n.sent <= Len(t.messages)
    BY <1>1, <1>2, <1>3 DEF Mark
  <2> HIDE DEF t, n
  <2>3. QED
    BY <1>1, <1>2, <1>3, <1>4, <2>1, <2>2, Facts, RequestInv
<1>5. CASE ~(n.rounds < MaxRounds)
  <2>1. TurnEnds(t, reports)
    BY <1>5 DEF Pause
  <2>2. QED
    BY <1>1, <1>2, <2>1, TurnEndsInv
<1>6. QED
  BY <1>4, <1>5

LEMMA CallToolsInv ==
    ASSUME AInv, NEW reports \in BOOLEAN, CallTools(reports)
    PROVE  AInv'
<1>1. /\ phase = "request" /\ phase' = "round" /\ InTurn /\ InTurn'
      /\ turn' = Streamed(reports) /\ money' = Reported(reports)
      /\ UNCHANGED <<talk, mark, policy, mailbox, auto, made>>
  BY DEF CallTools, InTurn
<1>2. /\ turn' \in Turn /\ turn'.rounds = turn.rounds /\ turn'.requests = turn.requests
      /\ turn'.tasks = turn.tasks /\ turn'.sent <= Len(talk.messages)
      /\ OwesFor(money', turn'.unbilled) /\ money'.title = money.title
  BY <1>1, StreamedTurn
<1>3. Typed'
  BY <1>1, <1>2 DEF AInv, Typed, Phases, OwesFor
<1>4. Counted' /\ CanRefuse' /\ RequestsInForce'
  BY <1>1, <1>2 DEF AInv, Counted, CanRefuse, RequestsInForce
<1>5. TasksKept' /\ UsageBilledOnce' /\ TitleBegun' /\ Agreed(talk')
  BY <1>1, <1>2 DEF AInv, TasksKept, UsageBilledOnce, TitleBegun, OwesFor
<1>6. talk'.messages # <<>>
  BY <1>1 DEF AInv
<1>7. QED
  BY <1>3, <1>4, <1>5, <1>6 DEF AInv

\* A refused turn goes back to its mark; what it cost is billed all the same.
LEMMA RefuseInv ==
    ASSUME AInv, NEW reports \in BOOLEAN, Refuse(reports)
    PROVE  AInv'
<1> DEFINE u == Back(talk, mark)
           m == RefusedCost(reports)
           c == IF mark.length = 0 /\ m.title = "asked" THEN [m EXCEPT !.title = "none"] ELSE m
<1>1. /\ phase = "request" /\ InTurn /\ mark \in Mark /\ mark.length <= Len(talk.messages)
      /\ Agreed(u) /\ Latest(u) = talk.tasks /\ talk.messages # <<>>
      /\ OpEnds /\ auto' = auto /\ made' = made /\ money' = Absorbed(c)
  BY DEF Refuse, AInv, InTurn, CanRefuse
<1>2. talk' = u
  BY DEF Refuse, RolledBack, Back
<1>3. /\ SubSeq(talk.messages, 1, mark.length) \in Seq(Message)
      /\ Len(SubSeq(talk.messages, 1, mark.length)) = mark.length
  BY <1>1, Facts DEF Talk, Mark
<1>4. /\ u \in Talk /\ u.tasks = talk.tasks /\ Len(u.messages) = mark.length
  BY <1>1, <1>3, Facts DEF Back, Talk, Mark
<1>5. OwesFor(m, 0)
  <2>1. /\ OwesFor(Reported(reports), Streamed(reports).unbilled)
        /\ Streamed(reports).unbilled \in Int
        /\ Streamed(reports).unbilled - Streamed(reports).unbilled = 0
    BY <1>1, StreamedTurn DEF Turn
  <2>2. QED
    BY <2>1, Ledger DEF RefusedCost
<1>6. OwesFor(c, 0) /\ (mark.length = 0 => c.title \in {"none", "sent"})
  BY <1>5 DEF OwesFor, Purse
<1> HIDE DEF m, c, u
<1>7. OwesFor(money', 0) /\ money'.title \in {"none", c.title} /\ money'.title # "sent"
  <2>1. OwesFor(Absorbed(c), 0) /\ Absorbed(c).title \in {"none", c.title}
    BY <1>6, Ledger
  <2>2. Absorbed(c).title # "sent"
    BY <1>6 DEF Absorbed, Billed, OwesFor, Purse
  <2>3. QED
    BY <1>1, <2>1, <2>2
<1>8. money'.title # "none" => talk'.messages # <<>>
  BY <1>2, <1>4, <1>6, <1>7
<1>9. QED
  BY <1>1, <1>2, <1>4, <1>7, <1>8, Facts, EndsInv

\* A round as its result is committed.
LEMMA RoundFacts ==
    ASSUME AInv, phase = "round", NEW tasks \in 0 .. MaxTasks, WritesTasks(tasks)
    PROVE  /\ Committed(tasks) \in Talk /\ Agreed(Committed(tasks))
           /\ Committed(tasks).seen = InForce /\ Committed(tasks).tasks = talk.tasks
           /\ Committed(tasks).messages # <<>>
           /\ Len(Committed(tasks).messages) >= Len(talk.messages)
           /\ Len(Committed(tasks).messages) \in Nat
           /\ (IF RoundTurn(tasks).tasks = 0 THEN talk.tasks ELSE RoundTurn(tasks).tasks)
                 = Latest(Committed(tasks))
           /\ RoundTurn(tasks) \in Turn
           /\ RoundTurn(tasks).rounds = turn.rounds + 1
           /\ RoundTurn(tasks).requests = RoundTurn(tasks).rounds
           /\ RoundTurn(tasks).unbilled = turn.unbilled
           /\ RoundTurn(tasks).sent = turn.sent
           /\ Back(Committed(tasks), mark) = Back(talk, mark)
           /\ made' \in Made
<1> DEFINE s == Said(talk, Plain)
           m == [Plain EXCEPT !.tasks = tasks]
<1>1. /\ talk \in Talk /\ talk.messages # <<>> /\ Agreed(talk) /\ InForce \in Mode
      /\ mark \in Mark /\ mark.length <= Len(talk.messages) /\ Len(talk.messages) \in Nat
      /\ turn \in Turn /\ turn.requests = turn.rounds + 1 /\ made \in Made
  BY Facts DEF AInv, InTurn, CanRefuse, Counted
<1>2. /\ s \in Talk /\ Agreed(s) /\ s.seen = talk.seen /\ s.tasks = talk.tasks
      /\ Latest(s) = Latest(talk) /\ Len(s.messages) = Len(talk.messages) + 1
      /\ Back(s, mark) = Back(talk, mark)
  BY <1>1, PlainKeeps, PlainSays, BackSaid
<1>3. m \in Message /\ m.tasks = tasks
  BY PlainSays DEF Message
<1>4. mark.length <= Len(s.messages)
  BY <1>1, <1>2 DEF Mark
<1>5. Committed(tasks) = Records(s, m, InForce)
  BY DEF Committed
<1> HIDE DEF s, m
<1>6. /\ Committed(tasks) \in Talk /\ Agreed(Committed(tasks))
      /\ Committed(tasks).seen = InForce /\ Committed(tasks).tasks = talk.tasks
      /\ Committed(tasks).messages # <<>>
      /\ Len(Committed(tasks).messages) = Len(talk.messages) + 2
      /\ Latest(Committed(tasks)) = IF tasks = 0 THEN Latest(talk) ELSE tasks
      /\ Back(Committed(tasks), mark) = Back(talk, mark)
  <2>1. Len(Records(s, m, InForce).messages) = Len(s.messages) + 1
    BY <1>1, <1>2, <1>3, RecordsAgree
  <2>2. Len(Committed(tasks).messages) = Len(talk.messages) + 2
    BY <1>1, <1>2, <1>5, <2>1
  <2>3. Back(Committed(tasks), mark) = Back(talk, mark)
    BY <1>1, <1>2, <1>3, <1>4, <1>5, BackRecords
  <2>4. /\ Records(s, m, InForce) \in Talk /\ Agreed(Records(s, m, InForce))
        /\ Records(s, m, InForce).seen = InForce
        /\ Records(s, m, InForce).tasks = s.tasks
        /\ Records(s, m, InForce).messages # <<>>
        /\ Latest(Records(s, m, InForce)) = IF m.tasks = 0 THEN Latest(s) ELSE m.tasks
    <3> DEFINE mode == InForce
    <3>1. mode \in Mode /\ s \in Talk /\ Agreed(s) /\ m \in Message
      BY <1>1, <1>2, <1>3
    <3> HIDE DEF mode
    <3>2. /\ Records(s, m, mode) \in Talk /\ Agreed(Records(s, m, mode))
          /\ Records(s, m, mode).seen = mode
          /\ Records(s, m, mode).tasks = s.tasks
          /\ Records(s, m, mode).messages # <<>>
          /\ Latest(Records(s, m, mode)) = IF m.tasks = 0 THEN Latest(s) ELSE m.tasks
      BY <3>1, RecordsAgree
    <3>3. QED
      BY <3>2 DEF mode
  <2>5. QED
    BY <1>2, <1>3, <1>5, <2>2, <2>3, <2>4
<1>7. /\ RoundTurn(tasks) \in Turn
      /\ RoundTurn(tasks).rounds = turn.rounds + 1
      /\ RoundTurn(tasks).requests = turn.requests
      /\ RoundTurn(tasks).unbilled = turn.unbilled /\ RoundTurn(tasks).sent = turn.sent
      /\ RoundTurn(tasks).tasks = IF tasks = 0 THEN turn.tasks ELSE tasks
  BY <1>1 DEF RoundTurn, Turn
<1>8. (IF RoundTurn(tasks).tasks = 0 THEN talk.tasks ELSE RoundTurn(tasks).tasks)
         = Latest(Committed(tasks))
  BY <1>6, <1>7, Facts
<1>9. made' \in Made
  BY <1>1 DEF WritesTasks, Made
<1>10. QED
  BY <1>1, <1>6, <1>7, <1>8, <1>9

LEMMA EndRoundInv ==
    ASSUME AInv, NEW tasks \in 0 .. MaxTasks, EndRound(tasks)
    PROVE  AInv'
<1> DEFINE r == Committed(tasks)
           t == Drained(r)
           n == RoundTurn(tasks)
<1>1. /\ phase = "round" /\ InTurn /\ WritesTasks(tasks) /\ auto' = auto
      /\ mark \in Mark /\ mark.length <= Len(talk.messages)
      /\ Agreed(Back(talk, mark)) /\ Latest(Back(talk, mark)) = talk.tasks
      /\ turn.sent <= Len(talk.messages) /\ Len(talk.messages) \in Nat
      /\ OwesFor(money, turn.unbilled) /\ turn \in Turn
  BY Facts DEF EndRound, AInv, InTurn, CanRefuse
<1>2. /\ r \in Talk /\ Agreed(r) /\ r.seen = InForce /\ r.tasks = talk.tasks
      /\ r.messages # <<>> /\ Len(r.messages) >= Len(talk.messages) /\ Len(r.messages) \in Nat
      /\ (IF n.tasks = 0 THEN talk.tasks ELSE n.tasks) = Latest(r)
      /\ n \in Turn /\ n.requests = n.rounds /\ n.unbilled = turn.unbilled
      /\ n.sent = turn.sent /\ Back(r, mark) = Back(talk, mark) /\ made' \in Made
  BY <1>1, RoundFacts
<1>3. /\ t \in Talk /\ Agreed(t) /\ t.seen = InForce /\ t.tasks = talk.tasks
      /\ t.messages # <<>> /\ Latest(t) = Latest(r)
      /\ Len(t.messages) >= Len(r.messages) /\ Len(t.messages) \in Nat
  BY <1>2, Facts, DrainedKeeps
<1>4. mark.length <= Len(r.messages) /\ mark.length \in Nat
  BY <1>1, <1>2 DEF Mark
<1>5. Back(t, mark) = Back(talk, mark)
  BY <1>1, <1>2, <1>4, BackDrained
<1>6. mark.length <= Len(t.messages) /\ n.sent <= Len(t.messages)
  <2>1. Len(t.messages) >= Len(talk.messages) /\ Len(t.messages) \in Nat
    BY <1>1, <1>2, <1>3
  <2>2. turn.sent \in Nat /\ n.sent = turn.sent
    BY <1>1, <1>2 DEF Turn
  <2>3. QED
    BY <1>1, <1>4, <2>1, <2>2
<1>7. CASE n.rounds < MaxRounds
  <2>1. /\ talk' = t /\ policy' = InForce /\ mailbox' = Empty /\ Requests(n)
        /\ mark' = mark /\ money' = money
    BY <1>7 DEF EndRound
  <2>2. InForce \in Mode /\ Empty \in Box
    BY InForceMode DEF AInv
  <2> HIDE DEF t, n, r
  <2>3. QED
    BY <1>1, <1>2, <1>3, <1>5, <1>6, <1>7, <2>1, <2>2, Facts, RequestInv
<1>8. CASE ~(n.rounds < MaxRounds)
  <2>1. talk' = Kept(t, n) /\ money' = Accounted(money) /\ OpEnds
    BY <1>8 DEF EndRound
  <2> HIDE DEF t, n, r
  <2>2. /\ talk' \in Talk /\ Agreed(talk') /\ Latest(talk') = talk'.tasks
        /\ talk'.messages # <<>>
    BY <1>2, <1>3, <2>1, KeptKeeps
  <2>3. OwesFor(money', 0)
    BY <1>1, <2>1, AccountedBills
  <2>4. QED
    BY <1>1, <1>2, <2>1, <2>2, <2>3, Facts, EndsInv
<1>9. QED
  BY <1>7, <1>8

LEMMA CompactNextInv ==
    ASSUME AInv, NEW tasks \in 0 .. MaxTasks, CompactNext(tasks)
    PROVE  AInv'
<1> DEFINE r == Committed(tasks)
           t == Drained(r)
           n == RoundTurn(tasks)
<1>1. /\ phase = "round" /\ phase' = "midturn" /\ InTurn /\ InTurn' /\ WritesTasks(tasks)
      /\ auto' = auto /\ mark' = mark /\ policy' = InForce /\ mailbox' = Empty
      /\ n.rounds < MaxRounds /\ Due(Paused)
      /\ talk' = Kept(t, n) /\ money' = Accounted(money)
      /\ turn' = [n EXCEPT !.unbilled = 0, !.sent = 0, !.tasks = 0]
  BY DEF CompactNext, InTurn
<1>2. /\ r \in Talk /\ Agreed(r) /\ r.tasks = talk.tasks /\ r.messages # <<>>
      /\ (IF n.tasks = 0 THEN talk.tasks ELSE n.tasks) = Latest(r)
      /\ n \in Turn /\ n.requests = n.rounds /\ made' \in Made
  BY <1>1, RoundFacts
<1>3. /\ t \in Talk /\ Agreed(t) /\ t.tasks = talk.tasks
      /\ t.messages # <<>> /\ Latest(t) = Latest(r)
  BY <1>2, Facts, DrainedKeeps
<1>4. /\ talk' \in Talk /\ Agreed(talk') /\ Latest(talk') = talk'.tasks
      /\ talk'.messages # <<>>
  BY <1>1, <1>2, <1>3, KeptKeeps
<1>5. OwesFor(money', 0)
  BY <1>1, Facts, AccountedBills
<1> HIDE DEF n, t, r
<1>6. /\ turn' \in Turn /\ turn'.requests = turn'.rounds /\ turn'.rounds < MaxRounds
      /\ turn'.unbilled = 0 /\ turn'.sent = 0 /\ turn'.tasks = 0
  <2>1. 0 \in Nat /\ 0 \in 0 .. MaxTasks
    BY TurnAssumption
  <2>2. turn' \in Turn
    BY <1>1, <1>2, <2>1 DEF Turn
  <2>3. /\ turn'.requests = n.requests /\ turn'.rounds = n.rounds
        /\ turn'.unbilled = 0 /\ turn'.sent = 0 /\ turn'.tasks = 0
    BY <1>1, <1>2 DEF Turn
  <2>4. QED
    BY <1>1, <1>2, <2>2, <2>3
<1>7. auto.failures < MaxFailures
  BY <1>1, Facts, TurnAssumption DEF Due, Paused, Failures
<1>8. Typed'
  BY <1>1, <1>2, <1>4, <1>5, <1>6, InForceMode DEF AInv, Typed, Phases, OwesFor
<1>9. Counted' /\ CanRefuse' /\ RequestsInForce' /\ TasksKept' /\ TitleBegun'
  BY <1>1, <1>4, <1>6, <1>7, Facts DEF Counted, CanRefuse, RequestsInForce, TasksKept, TitleBegun
<1>10. UsageBilledOnce'
  BY <1>4, <1>5, <1>6 DEF UsageBilledOnce, OwesFor, Talk
<1>11. QED
  BY <1>4, <1>8, <1>9, <1>10 DEF AInv

LEMMA CutRoundInv ==
    ASSUME AInv, NEW tasks \in 0 .. MaxTasks, CutRound(tasks)
    PROVE  AInv'
<1> DEFINE r == Committed(tasks)
           t == Said(r, Plain)
           n == RoundTurn(tasks)
<1>1. /\ phase = "round" /\ WritesTasks(tasks) /\ auto' = auto
      /\ talk' = Kept(t, n) /\ money' = Accounted(money) /\ OpEnds
  BY DEF CutRound
<1>2. /\ r \in Talk /\ Agreed(r) /\ r.tasks = talk.tasks /\ r.messages # <<>>
      /\ (IF n.tasks = 0 THEN talk.tasks ELSE n.tasks) = Latest(r)
      /\ n \in Turn /\ made' \in Made
  BY <1>1, RoundFacts
<1>3. /\ t \in Talk /\ Agreed(t) /\ t.tasks = talk.tasks
      /\ t.messages # <<>> /\ Latest(t) = Latest(r)
  BY <1>2, PlainKeeps
<1>4. /\ talk' \in Talk /\ Agreed(talk') /\ Latest(talk') = talk'.tasks
      /\ talk'.messages # <<>>
  BY <1>1, <1>2, <1>3, KeptKeeps
<1>5. OwesFor(money', 0)
  BY <1>1, Facts, AccountedBills
<1>6. QED
  BY <1>1, <1>2, <1>4, <1>5, Facts, EndsInv

-----------------------------------------------------------------------------
(***************************************************************************)
(* Compactions                                                             *)
(***************************************************************************)

\* While a summary is made nothing of a turn is owed.
LEMMA CompactingFacts ==
    ASSUME AInv, Compacting, NEW spent \in 0 .. 1
    PROVE  /\ turn.unbilled = 0 /\ turn.tasks = 0 /\ turn.sent = 0
           /\ Latest(talk) = talk.tasks
           /\ OwesFor(Spent(spent), 0) /\ Spent(spent).title = money.title
           /\ OwesFor(Absorbed(Spent(spent)), 0)
           /\ Absorbed(Spent(spent)).title \in {"none", money.title}
           /\ OwesFor(money, 0)
<1>1. turn.unbilled = 0 /\ turn.tasks = 0 /\ turn.sent = 0
  BY Facts DEF AInv, Counted, Compacting, InTurn
<1>2. OwesFor(money, 0) /\ 0 \in Int /\ spent \in Int /\ (0 + spent) - spent = 0
      /\ 0 + spent \in Int
  BY <1>1, Facts
<1>3. OwesFor(Owes(money, spent), 0 + spent) /\ Owes(money, spent).title = money.title
  BY <1>2, Ledger
<1>4. OwesFor(Spent(spent), (0 + spent) - spent) /\ Spent(spent).title = money.title
  BY <1>2, <1>3, Ledger DEF Spent
<1>5. OwesFor(Spent(spent), 0)
  BY <1>2, <1>4
<1>6. OwesFor(Absorbed(Spent(spent)), 0)
      /\ Absorbed(Spent(spent)).title \in {"none", Spent(spent).title}
  BY <1>2, <1>5, Ledger
<1>7. QED
  BY <1>1, <1>2, <1>4, <1>5, <1>6, Facts

\* A turn that is compacted inside goes on from the summary, which is its new
\* mark, with the rounds it has left.
LEMMA SummarizeInv ==
    ASSUME AInv, NEW spent \in 0 .. 1, Summarize(spent)
    PROVE  AInv'
<1> DEFINE t == Summary(talk, InForce)
<1>1. /\ Compacting /\ money' = Absorbed(Spent(spent)) /\ made' = made
      /\ auto' \in Failures /\ auto'.row = auto'.failures
      /\ OwesFor(money', 0) /\ made' \in Made
  BY CompactingFacts, Facts DEF Summarize, Failures
<1>2. /\ t \in Talk /\ Agreed(t) /\ t.seen = InForce /\ t.messages # <<>>
      /\ Latest(t) = t.tasks
  BY Facts, SummaryAgrees
<1>3. CASE phase = "manual"
  <2>1. talk' = t /\ OpEnds
    BY <1>3 DEF Summarize
  <2> HIDE DEF t
  <2>2. QED
    BY <1>1, <1>2, <2>1, EndsInv
<1>4. CASE phase = "before"
  <2>1. Begins(t)
    BY <1>4 DEF Summarize
  <2> HIDE DEF t
  <2>2. QED
    BY <1>1, <1>2, <2>1, BeginsInv
<1>5. CASE phase = "midturn"
  <2>1. /\ talk' = Drained(t) /\ mark' = StartOfTurn(t) /\ policy' = InForce
        /\ mailbox' = Empty /\ Requests(turn)
    BY <1>5 DEF Summarize, Resumed
  <2> HIDE DEF t
  <2>2. /\ talk' \in Talk /\ Agreed(talk') /\ talk'.seen = InForce /\ talk'.tasks = t.tasks
        /\ talk'.messages # <<>> /\ Latest(talk') = t.tasks
        /\ Len(talk'.messages) \in Nat /\ Len(talk'.messages) >= Len(t.messages)
    BY <1>2, <2>1, Facts, DrainedKeeps
  <2>3. /\ StartOfTurn(t) \in Mark /\ StartOfTurn(t).length = Len(t.messages)
        /\ Back(t, StartOfTurn(t)) = t /\ Len(t.messages) \in Nat
    BY <1>2, BackStart DEF Talk
  <2>4. Back(talk', mark') = t /\ mark'.length <= Len(talk'.messages) /\ mark' \in Mark
    BY <1>2, <2>1, <2>2, <2>3, BackDrained
  <2>5. /\ turn \in Turn /\ turn.requests = turn.rounds /\ turn.rounds < MaxRounds
        /\ turn.unbilled = 0 /\ turn.tasks = 0 /\ turn.sent <= Len(talk'.messages)
    BY <1>5, <2>2, Facts DEF AInv, Counted
  <2>6. InForce \in Mode /\ Empty \in Box
    BY InForceMode DEF AInv
  <2>7. QED
    BY <1>1, <1>2, <2>1, <2>2, <2>4, <2>5, <2>6, RequestInv
<1>6. QED
  BY <1>1, <1>3, <1>4, <1>5 DEF Compacting

\* The count of failed automatic compactions is that of the failures in a row.
LEMMA FailSummaryInv ==
    ASSUME AInv, NEW spent \in 0 .. 1, FailSummary(spent)
    PROVE  AInv'
<1>1. Compacting /\ OpEnds /\ talk' = talk /\ made' = made
  BY DEF FailSummary
<1>2. OwesFor(money', 0) /\ money'.title \in {"none", money.title}
  BY <1>1, CompactingFacts DEF FailSummary
<1>3. auto' \in Failures /\ auto'.row = auto'.failures
  <2>1. auto' = [failures |-> IF Counts THEN auto.failures + 1 ELSE auto.failures,
                 row      |-> IF phase = "manual" THEN auto.row ELSE auto.row + 1]
    BY DEF FailSummary
  <2>2. Counts <=> phase # "manual"
    BY <1>1 DEF Counts, Compacting
  <2>3. QED
    BY <2>1, <2>2, Facts DEF Failures
<1>4. money'.title # "none" => talk'.messages # <<>>
  BY <1>1, <1>2 DEF AInv, TitleBegun
<1>5. QED
  BY <1>1, <1>2, <1>3, <1>4, Facts, CompactingFacts, EndsInv

LEMMA CutSummaryInv ==
    ASSUME AInv, NEW spent \in 0 .. 1, CutSummary(spent)
    PROVE  AInv'
<1>1. /\ Compacting /\ OpEnds /\ auto' = auto /\ made' = made
      /\ talk' = IF phase = "midturn" THEN Said(talk, Plain) ELSE talk
  BY DEF CutSummary
<1>2. OwesFor(money', 0) /\ money'.title \in {"none", money.title}
  BY <1>1, CompactingFacts DEF CutSummary
<1>3. phase = "midturn" => talk.messages # <<>>
  BY DEF AInv, InTurn
<1>4. Latest(talk) = talk.tasks
  BY <1>1, CompactingFacts
<1>5. /\ talk' \in Talk /\ Agreed(talk') /\ Latest(talk') = talk'.tasks
      /\ (talk.messages # <<>> => talk'.messages # <<>>)
  BY <1>1, <1>3, <1>4, Facts, PlainKeeps
<1>6. money'.title # "none" => talk'.messages # <<>>
  BY <1>2, <1>5 DEF AInv, TitleBegun
<1>7. QED
  BY <1>1, <1>2, <1>5, <1>6, Facts, EndsInv

-----------------------------------------------------------------------------
(***************************************************************************)
(* Other ops, and the title request                                        *)
(***************************************************************************)

\* A step that changes the money alone, and may start the count of failures
\* anew between operations.
LEMMA MoneyInv ==
    ASSUME AInv, UNCHANGED <<phase, talk, mark, turn, policy, mailbox, made>>,
           OwesFor(money', turn.unbilled), money'.title # "none" => talk.messages # <<>>,
           auto' = auto \/ (phase = "idle" /\ auto' = [failures |-> 0, row |-> 0])
    PROVE  AInv'
<1>1. Typed'
  BY DEF AInv, Typed, Failures, OwesFor
<1>2. Counted' /\ CanRefuse' /\ RequestsInForce' /\ TasksKept'
  BY DEF AInv, Counted, CanRefuse, RequestsInForce, TasksKept, InTurn
<1>3. UsageBilledOnce' /\ TitleBegun' /\ Agreed(talk')
  BY DEF AInv, UsageBilledOnce, TitleBegun, OwesFor
<1>4. InTurn' => talk'.messages # <<>>
  BY DEF AInv, InTurn
<1>5. QED
  BY <1>1, <1>2, <1>3, <1>4 DEF AInv

LEMMA TitleInv ==
    ASSUME AInv, SetModel \/ Rename \/ TitleAnswers \/ TitleLands
    PROVE  AInv'
<1>1. /\ OwesFor(money, turn.unbilled) /\ turn.unbilled \in Int
      /\ (money.title # "none" => talk.messages # <<>>)
      /\ OwesFor(Absorbed(money), turn.unbilled)
      /\ Absorbed(money).title \in {"none", money.title}
  <2>1. /\ OwesFor(money, turn.unbilled) /\ turn.unbilled \in Int
        /\ (money.title # "none" => talk.messages # <<>>)
    BY Facts DEF AInv, TitleBegun, Turn
  <2>2. QED
    BY <2>1, Ledger
<1>2. CASE SetModel
  BY <1>1, <1>2, MoneyInv DEF SetModel
<1>3. CASE TitleLands
  BY <1>1, <1>3, MoneyInv DEF TitleLands
<1>4. CASE Rename
  <2>1. OwesFor(money', turn.unbilled) /\ money'.title = "none"
    BY <1>1, <1>4 DEF Rename, OwesFor, Purse
  <2>2. QED
    BY <2>1, <1>4, MoneyInv DEF Rename
<1>5. CASE TitleAnswers
  <2>1. money.title = "asked" /\ money.owed = turn.unbilled /\ money \in Purse
    BY <1>1, <1>5 DEF TitleAnswers, OwesFor
  <2>2. OwesFor([Owes(money, 1) EXCEPT !.title = "sent"], turn.unbilled)
    <3>1. [Owes(money, 1) EXCEPT !.title = "sent"] =
             [money EXCEPT !.owed = turn.unbilled + 1, !.title = "sent"]
      BY <2>1 DEF Owes, Purse
    <3>2. [money EXCEPT !.owed = turn.unbilled + 1, !.title = "sent"] \in Purse
      <4>1. ASSUME NEW n \in Int
            PROVE  [money EXCEPT !.owed = n, !.title = "sent"] \in Purse
        BY <2>1 DEF Purse
      <4>2. turn.unbilled + 1 \in Int
        BY <1>1
      <4>3. QED
        BY <4>1, <4>2, Zenon
    <3>3. /\ [money EXCEPT !.owed = turn.unbilled + 1, !.title = "sent"].owed = turn.unbilled + 1
          /\ [money EXCEPT !.owed = turn.unbilled + 1, !.title = "sent"].title = "sent"
      BY <2>1 DEF Purse
    <3>4. QED
      BY <3>1, <3>2, <3>3 DEF OwesFor
  <2>3. OwesFor([money EXCEPT !.title = "none"], turn.unbilled)
    BY <1>1, <2>1 DEF OwesFor, Purse
  <2>4. OwesFor(money', turn.unbilled) /\ talk.messages # <<>>
    BY <1>1, <1>5, <2>1, <2>2, <2>3 DEF TitleAnswers
  <2>5. QED
    BY <1>5, <2>4, MoneyInv DEF TitleAnswers
<1>6. QED
  BY <1>2, <1>3, <1>4, <1>5

LEMMA FreshAgrees ==
    ASSUME NEW mode \in Mode
    PROVE  /\ FreshTalk(mode) \in Talk /\ Agreed(FreshTalk(mode))
           /\ Latest(FreshTalk(mode)) = FreshTalk(mode).tasks
           /\ FreshTalk(mode).messages = <<>>
<1>1. /\ FreshTalk(mode) \in Talk /\ FreshTalk(mode).messages = <<>>
      /\ FreshTalk(mode).base = mode /\ FreshTalk(mode).seen = mode
      /\ FreshTalk(mode).unrecorded /\ FreshTalk(mode).tasks = 0
  BY TurnAssumption DEF FreshTalk, Talk
<1>2. Told(FreshTalk(mode)) = mode /\ Latest(FreshTalk(mode)) = 0
  BY <1>1 DEF Told, Latest
<1>3. QED
  BY <1>1, <1>2 DEF Agreed

\* A conversation that is resumed tells what it told before.
LEMMA RestoredAgrees ==
    ASSUME AInv, phase = "idle"
    PROVE  /\ Restored(talk) \in Talk /\ Agreed(Restored(talk))
           /\ Latest(Restored(talk)) = Restored(talk).tasks
<1>1. /\ talk \in Talk /\ Agreed(talk) /\ Latest(talk) = talk.tasks /\ policy \in Mode
  BY Facts DEF InTurn
<1>2. CASE Recorded(talk) = None
  <2>1. [base |-> talk.base, seen |-> talk.seen] # None
    BY <1>1, Contexts DEF Talk, Context
  <2>2. talk.messages = <<>>
    BY <1>1, <1>2, <2>1 DEF Agreed
  <2>3. Restored(talk) = FreshTalk(policy)
    BY <1>2, <2>2 DEF Restored, FreshTalk
  <2>4. QED
    BY <1>1, <2>3, FreshAgrees
<1>3. CASE Recorded(talk) # None
  <2> DEFINE u == Restored(talk)
  <2>1. Recorded(talk) = [base |-> talk.base, seen |-> talk.seen]
    <3>1. talk.messages = <<>> => Recorded(talk) = None
      BY DEF Recorded
    <3>2. QED
      BY <1>1, <1>3, <3>1 DEF Agreed
  <2>2. u = [messages |-> talk.messages, base |-> talk.base, seen |-> talk.seen,
             unrecorded |-> FALSE, tasks |-> talk.tasks]
    BY <1>1, <1>3, <2>1 DEF Restored
  <2>3. u \in Talk
    BY <1>1, <2>2 DEF Talk
  <2>4. Told(u) = Told(talk) /\ Recorded(u) = Recorded(talk) /\ Latest(u) = Latest(talk)
    BY <2>2 DEF Told, Recorded, Latest
  <2>5. QED
    BY <1>1, <2>1, <2>2, <2>3, <2>4 DEF Agreed
<1>4. QED
  BY <1>2, <1>3

LEMMA AdoptInv ==
    ASSUME AInv, Adopt
    PROVE  AInv'
<1>1. /\ phase = "idle" /\ ~InTurn /\ ~InTurn' /\ turn.unbilled = 0 /\ turn.tasks = 0
      /\ turn.sent = 0 /\ money' = [owed |-> 0, title |-> "none"]
      /\ auto' = [failures |-> 0, row |-> 0]
      /\ UNCHANGED <<phase, mark, turn, policy, mailbox, made>>
  BY Facts DEF Adopt, InTurn
<1>2. /\ talk' \in Talk /\ Agreed(talk') /\ Latest(talk') = talk'.tasks
  BY <1>1, Facts, FreshAgrees, RestoredAgrees DEF Adopt
<1>3. Typed'
  BY <1>1, <1>2 DEF AInv, Typed, Purse, Failures
<1>4. Counted' /\ CanRefuse' /\ RequestsInForce' /\ TasksKept' /\ TitleBegun'
  BY <1>1, <1>2 DEF AInv, Counted, CanRefuse, RequestsInForce, TasksKept, TitleBegun, InTurn
<1>5. UsageBilledOnce'
  BY <1>1, <1>2 DEF UsageBilledOnce, Talk
<1>6. QED
  BY <1>1, <1>2, <1>3, <1>4, <1>5 DEF AInv

-----------------------------------------------------------------------------
(***************************************************************************)
(* The theorems                                                            *)
(***************************************************************************)
LEMMA InitInv ==
    ASSUME AInit
    PROVE  AInv
<1>1. /\ talk = FreshTalk(policy) /\ policy \in Mode /\ phase = "idle" /\ ~InTurn
  BY DEF AInit, InTurn
<1>2. /\ talk \in Talk /\ Agreed(talk) /\ Latest(talk) = talk.tasks /\ talk.messages = <<>>
  BY <1>1, FreshAgrees
<1>3. /\ turn = NewTurn /\ NewTurn \in Turn /\ Empty \in Box
  BY TurnAssumption DEF AInit, NewTurn, Turn, Empty, Box
<1>4. Typed
  BY <1>1, <1>2, <1>3, TurnAssumption
     DEF AInit, Typed, Phases, Purse, Failures, Made
<1>5. Counted /\ CanRefuse /\ RequestsInForce /\ TasksKept /\ TitleBegun /\ UsageBilledOnce
  BY <1>1, <1>2, <1>3, TurnAssumption
     DEF AInit, Counted, CanRefuse, RequestsInForce, TasksKept, TitleBegun, UsageBilledOnce,
         NewTurn
<1>6. QED
  BY <1>1, <1>2, <1>4, <1>5 DEF AInv

LEMMA NextInv ==
    ASSUME AInv, [ANext]_tvars
    PROVE  AInv'
<1>1. CASE Submit
  BY <1>1, SubmitInv
<1>2. CASE Compact \/ Queue \/ Gate
  <2>1. PICK m \in Mode : TRUE
    BY Facts
  <2>2. QED
    BY <1>2, <2>1, WaitInv
<1>3. ASSUME NEW m \in Mode, Switch(m) \/ SetMode(m)
      PROVE  AInv'
  BY <1>3, WaitInv
<1>4. ASSUME NEW reports \in BOOLEAN,
             ReplyEnds(reports) \/ Pause(reports) \/ CallTools(reports) \/ Refuse(reports)
      PROVE  AInv'
  BY <1>4, ReplyEndsInv, PauseInv, CallToolsInv, RefuseInv
<1>5. ASSUME NEW tasks \in 0 .. MaxTasks,
             EndRound(tasks) \/ CompactNext(tasks) \/ CutRound(tasks)
      PROVE  AInv'
  BY <1>5, EndRoundInv, CompactNextInv, CutRoundInv
<1>6. ASSUME NEW spent \in 0 .. 1,
             Summarize(spent) \/ FailSummary(spent) \/ CutSummary(spent)
      PROVE  AInv'
  BY <1>6, SummarizeInv, FailSummaryInv, CutSummaryInv
<1>7. CASE SetModel \/ Rename \/ TitleAnswers \/ TitleLands
  BY <1>7, TitleInv
<1>8. CASE Adopt
  BY <1>8, AdoptInv
<1>9. CASE UNCHANGED tvars
  BY <1>9 DEF tvars, AInv, Typed, RequestsInForce, TasksKept, InTurn, CanRefuse, Counted,
              TitleBegun, UsageBilledOnce, NewTurn
<1>10. QED
  BY <1>1, <1>2, <1>3, <1>4, <1>5, <1>6, <1>7, <1>8, <1>9 DEF ANext

\* The invariant holds in every state the engine reaches.
THEOREM TurnInductive == ASpec => []AInv
<1>1. AInit => AInv
  BY InitInv
<1>2. AInv /\ [ANext]_tvars => AInv'
  BY NextInv
<1>3. QED
  BY <1>1, <1>2, PTL DEF ASpec

\* The model has been told the mode its calls run in, and a resume finds what
\* it was told, after any interrupts, refusals, switches, compactions and
\* resumes (LiveTranscript and the prompt it records).
THEOREM ModeAlwaysTold == ASpec => []ModeTold
<1>1. ASSUME AInv
      PROVE  ModeTold
  <2>1. TurnTypeOK
    BY <1>1 DEF AInv, Typed, TurnTypeOK, Talk, Box, Purse
  <2>2. SeenAgrees /\ RequestsInForce
    BY <1>1 DEF AInv, Agreed, SeenAgrees
  <2>3. talk.messages = <<>> => Recorded(talk) = None
    BY DEF Recorded
  <2>4. ResumeAgrees
    BY <1>1, <2>3 DEF AInv, Agreed, ResumeAgrees
  <2>5. QED
    BY <2>1, <2>2, <2>4 DEF ModeTold
<1>2. QED
  BY <1>1, TurnInductive, PTL

\* The task list the engine keeps is the one its conversation leaves.
THEOREM TasksAlwaysKept == ASpec => []TasksKept
<1>1. AInv => TasksKept
  BY DEF AInv
<1>2. QED
  BY <1>1, TurnInductive, PTL

\* The engine and the conversation tell the model one story: the mode it is in and
\* the tasks it has (engine/transcript.rs).
THEOREM TalkAlwaysAgrees == ASpec => []TalkAgrees
<1>1. ModeTold /\ TasksKept => TalkAgrees
  BY DEF TalkAgrees
<1>2. QED
  BY <1>1, ModeAlwaysTold, TasksAlwaysKept, PTL

\* Every usage the API reported is billed once, however its turn ended.
THEOREM UsageAlwaysBilledOnce == ASpec => []UsageBilledOnce
<1>1. AInv => UsageBilledOnce
  BY DEF AInv
<1>2. QED
  BY <1>1, TurnInductive, PTL

\* A turn keeps its bound of requests over pauses and compactions, and automatic
\* compaction stays off after its failures in a row.
THEOREM TurnAlwaysBounded == ASpec => []TurnBounded
<1>1. ASSUME AInv
      PROVE  TurnBounded
  <2>1. turn.requests \in Nat /\ turn.rounds \in Nat /\ MaxRounds \in Nat
    BY <1>1, Facts, TurnAssumption DEF Turn
  <2>2. turn.requests <= MaxRounds
    <3>1. CASE phase \in {"request", "round"}
      BY <1>1, <2>1, <3>1 DEF AInv, Counted
    <3>2. CASE phase = "midturn"
      BY <1>1, <2>1, <3>2 DEF AInv, Counted
    <3>3. CASE ~InTurn
      BY <1>1, <3>3, TurnAssumption DEF AInv, Counted, NewTurn
    <3>4. QED
      BY <3>1, <3>2, <3>3 DEF InTurn
  <2>3. QED
    BY <1>1, <2>2 DEF AInv, Counted, TurnBounded
<1>2. QED
  BY <1>1, TurnInductive, PTL

-----------------------------------------------------------------------------
(***************************************************************************)
(* The login: CInv has a part for each property: who may hold the lock     *)
(* (Alone), which pairs only one process knows (Private), and where the pair *)
(* that replaces a spent one is (StoreKept).                               *)
(***************************************************************************)
-----------------------------------------------------------------------------
Process ==
    [step : Steps, work : Works, up : BOOLEAN, awake : BOOLEAN, tries : 0 .. MaxTries,
     token : Token, unsaved : BOOLEAN, replaced : Held, creds : Held, kept : BOOLEAN,
     reply : Held, rejected : Held, mtime : Nat, hb : BOOLEAN, again : BOOLEAN]

CTyped ==
    /\ store \in Token /\ lock \in [mtime : Nat, stale : BOOLEAN] /\ valid \subseteq Token
    /\ life \in [Token -> 0 .. 2] /\ issued \in Token /\ faults \in 0 .. MaxFaults
    /\ excused \subseteq {"lost", "unsaved", "broken"}
    /\ proc \in [Proc -> Process]

\* What the step of a process says of the rest of it.
Shape(q) ==
    /\ ~q.up => q.step = "idle" /\ q.mtime = 0 /\ ~q.unsaved
    /\ q.step \in {"reload", "sent", "save"} => q.mtime # 0
    /\ q.hb => q.mtime # 0
    /\ q.reply # 0 <=> q.step = "save" \/ (q.work = "login" /\ q.step \in {"mkdir", "remove"})
    /\ q.work = "login" => q.step \in {"mkdir", "remove", "save"}
    /\ q.work = "refresh" => q.step \in {"sent", "save"}
    /\ q.step = "sent" => q.work = "refresh" /\ q.creds # 0
    /\ q.step = "save" => q.work # "reload"
    /\ q.work = "refresh" /\ q.kept => q.unsaved /\ q.creds = q.token
    /\ q.reply # 0 => q.reply # q.rejected
    /\ ~q.again

\* Unless a live holder's lock was removed, a guard holds the lock there is.
Alone ==
    "broken" \notin excused =>
        /\ \A p \in Proc : proc[p].mtime # 0 => proc[p].mtime = lock.mtime
        /\ \A p, q \in Proc : proc[p].mtime # 0 /\ proc[q].mtime # 0 => p = q

\* Every pair in use was issued.
Bounded ==
    /\ store <= issued
    /\ \A n \in valid : n <= issued
    /\ \A p \in Proc : /\ proc[p].token <= issued /\ proc[p].creds <= issued
                       /\ proc[p].replaced <= issued /\ proc[p].reply <= issued
                       /\ proc[p].rejected <= issued

\* A pair on its way to the store is known to its process alone, and so is one
\* that could not be saved; what a pair replaced comes back to no store.
Private ==
    /\ \A p \in Proc : proc[p].reply # 0 =>
          /\ proc[p].reply \in valid /\ proc[p].reply # store
          /\ \A q \in Proc : /\ proc[p].reply \notin {proc[q].token, proc[q].creds, proc[q].replaced}
                             /\ proc[q].reply = proc[p].reply => q = p
    /\ \A p \in Proc : proc[p].unsaved =>
          /\ proc[p].token # store
          /\ \A q \in Proc \ {p} : proc[p].token \notin {proc[q].token, proc[q].creds}
    /\ \A p \in Proc : proc[p].work = "refresh" /\ ~proc[p].kept /\ proc[p].unsaved =>
          store # proc[p].replaced

\* A process that has the valid pair in place of the stored one, or brings it.
Holds(p) == proc[p].unsaved /\ store = proc[p].replaced /\ proc[p].token \in valid
Brings(p) ==
    /\ proc[p].step = "save" /\ proc[p].work = "refresh" /\ proc[p].reply \in valid
    /\ store = IF proc[p].kept THEN proc[p].replaced ELSE proc[p].creds

StoreKept == "lost" \notin excused => store \in valid \/ \E p \in Proc : Holds(p) \/ Brings(p)

\* A token is sent while it is the stored one, and valid.
SentStored ==
    excused = {} => \A p \in Proc :
        ~proc[p].unsaved /\ (proc[p].step = "sent" => proc[p].creds = store /\ store \in valid)

CInv ==
    /\ CTyped /\ Alone /\ Bounded /\ Private /\ StoreKept /\ SentStored
    /\ \A p \in Proc : Shape(proc[p])

-----------------------------------------------------------------------------
(***************************************************************************)
(* Times of the lock                                                       *)
(***************************************************************************)
\* There is a time that neither the lock nor a guard has.
LEMMA FreeTime ==
    ASSUME CTyped
    PROVE  /\ NewMtime \in Nat \ {0} /\ NewMtime # lock.mtime
           /\ \A p \in Proc : proc[p].mtime # NewMtime
           /\ Lost \in Nat \ {0}
<1> DEFINE n == Cardinality(Proc)
           S == (1 .. n + 2) \ {lock.mtime}
<1>1. n \in Nat
  BY CredentialsAssumption, FS_CardinalityType
<1>2. IsFiniteSet(1 .. n + 2) /\ Cardinality(1 .. n + 2) = n + 2
  BY <1>1, FS_Interval
<1>3. IsFiniteSet(S) /\ Cardinality(S) > n
  <2> DEFINE T == 1 .. n + 2
             x == lock.mtime
  <2>1. IsFiniteSet(T) /\ Cardinality(T) = n + 2 /\ S = T \ {x}
    BY <1>2
  <2> HIDE DEF T, S, x
  <2>2. IsFiniteSet(T \ {x}) /\ Cardinality(T \ {x}) = IF x \in T THEN Cardinality(T) - 1
                                                                  ELSE Cardinality(T)
    BY <2>1, FS_RemoveElement
  <2>3. QED
    BY <1>1, <2>1, <2>2
<1>4. \E k \in S : \A p \in Proc : proc[p].mtime # k
  <2>1. SUFFICES ASSUME \A k \in S : \E p \in Proc : proc[p].mtime = k
                 PROVE  FALSE
    OBVIOUS
  <2> DEFINE f == [k \in S |-> CHOOSE p \in Proc : proc[p].mtime = k]
  <2>2. \A k \in S : f[k] \in Proc /\ proc[f[k]].mtime = k
    BY <2>1
  <2>3. f \in [S -> Proc]
    BY <2>2
  <2> HIDE DEF f, S
  <2>4. \E j, k \in S : j # k /\ f[j] = f[k]
    BY <1>3, <2>3, CredentialsAssumption, FS_PigeonHole
  <2>5. QED
    BY <2>2, <2>4
<1>5. /\ NewMtime \in 1 .. n + 2 /\ NewMtime # lock.mtime
      /\ \A p \in Proc : proc[p].mtime # NewMtime
  BY <1>4 DEF NewMtime
<1>6. QED
  BY <1>1, <1>5 DEF Lost

\* A step that sets no guard's time and leaves the lock keeps it with its guard.
LEMMA AloneKept ==
    ASSUME CInv, NEW p \in Proc, NEW q, To(p, q), UNCHANGED lock, excused \subseteq excused',
           q.mtime \in {0, proc[p].mtime}
    PROVE  Alone'
<1>1. \A r \in Proc : proc'[r] = IF r = p THEN q ELSE proc[r]
  BY DEF CInv, CTyped, To
<1>2. \A r \in Proc : proc'[r].mtime \in {0, proc[r].mtime}
  BY <1>1
<1>3. QED
  BY <1>2 DEF CInv, Alone

-----------------------------------------------------------------------------
(***************************************************************************)
(* Steps of one process                                                    *)
(***************************************************************************)
\* A step that neither issues nor stores a pair.
LEMMA MoveInv ==
    ASSUME CInv, NEW p \in Proc, NEW q \in Process, To(p, q),
           UNCHANGED <<store, issued>>,
           UNCHANGED valid \/ (valid' = valid \ {proc[p].creds} /\ "lost" \in excused'),
           lock' \in [mtime : Nat, stale : BOOLEAN], life' \in [Token -> 0 .. 2],
           faults' \in 0 .. MaxFaults, excused' \subseteq {"lost", "unsaved", "broken"},
           excused \subseteq excused', Shape(q), Alone',
           q.token \in {store, proc[p].token, proc[p].creds},
           q.creds \in {0, store, proc[p].token, proc[p].creds},
           q.replaced \in {0, proc[p].replaced}, q.reply \in {0, proc[p].reply},
           q.rejected \in {0, proc[p].rejected, proc[p].token},
           q.unsaved => proc[p].unsaved /\ q.token = proc[p].token /\ q.replaced = proc[p].replaced,
           q.work = "refresh" /\ ~q.kept /\ q.unsaved => store # q.replaced,
           "lost" \notin excused' /\ Holds(p) => q.unsaved,
           "lost" \notin excused' /\ Brings(p) =>
              /\ q.step = "save" /\ q.work = "refresh" /\ q.reply = proc[p].reply
              /\ q.kept = proc[p].kept /\ q.replaced = proc[p].replaced /\ q.creds = proc[p].creds,
           excused' = {} /\ q.step = "sent" => q.creds = store /\ store \in valid
    PROVE  CInv'
<1>1. \A r \in Proc : proc'[r] = IF r = p THEN q ELSE proc[r]
  BY DEF CInv, CTyped, To
<1>2. CTyped'
  BY DEF CInv, CTyped, To
<1>3. Bounded'
  <2>1. /\ store <= issued /\ proc[p].token <= issued /\ proc[p].creds <= issued
        /\ proc[p].replaced <= issued /\ proc[p].reply <= issued /\ proc[p].rejected <= issued
        /\ issued \in Nat /\ 0 <= issued
    BY DEF CInv, CTyped, Bounded, Token
  <2>2. /\ q.token <= issued /\ q.creds <= issued /\ q.replaced <= issued
        /\ q.reply <= issued /\ q.rejected <= issued
    BY <2>1
  <2>3. QED
    BY <1>1, <2>2 DEF CInv, Bounded
<1>4. Private'
  <2>1. /\ \A r \in Proc : /\ proc'[r].reply \in {0, proc[r].reply}
                           /\ proc'[r].token \in {store, proc[r].token, proc[r].creds}
                           /\ proc'[r].creds \in {0, store, proc[r].token, proc[r].creds}
                           /\ proc'[r].replaced \in {0, proc[r].replaced}
                           /\ proc'[r].unsaved => proc[r].unsaved /\ proc'[r].token = proc[r].token
    BY <1>1
  <2>2. ASSUME NEW r \in Proc, proc'[r].reply # 0
        PROVE  /\ proc'[r].reply \in valid' /\ proc'[r].reply # store'
               /\ \A t \in Proc :
                     /\ proc'[r].reply \notin {proc'[t].token, proc'[t].creds, proc'[t].replaced}
                     /\ proc'[t].reply = proc'[r].reply => t = r
    BY <2>1, <2>2 DEF CInv, Private
  <2>3. ASSUME NEW r \in Proc, proc'[r].unsaved
        PROVE  /\ proc'[r].token # store'
               /\ \A t \in Proc \ {r} : proc'[r].token \notin {proc'[t].token, proc'[t].creds}
    <3>1. proc[r] \in Process /\ 0 \notin Token
      BY DEF CInv, CTyped, Token
    <3>2. proc[r].unsaved /\ proc'[r].token = proc[r].token /\ proc[r].token # 0
      BY <2>1, <2>3, <3>1 DEF Process
    <3>3. QED
      BY <2>1, <3>2 DEF CInv, Private
  <2>4. ASSUME NEW r \in Proc, proc'[r].work = "refresh", ~proc'[r].kept, proc'[r].unsaved
        PROVE  store' # proc'[r].replaced
    BY <1>1, <2>4 DEF CInv, Private
  <2>5. QED
    BY <2>2, <2>3, <2>4 DEF Private
<1>5. StoreKept'
  <2>1. CASE "lost" \notin excused' /\ store \notin valid /\ UNCHANGED valid
    <3>1. PICK r \in Proc : Holds(r) \/ Brings(r)
      BY <2>1 DEF CInv, StoreKept
    <3>2. CASE r # p
      BY <1>1, <2>1, <3>1, <3>2 DEF Holds, Brings, StoreKept
    <3>3. CASE r = p /\ Holds(p)
      BY <1>1, <2>1, <3>3 DEF Holds, StoreKept
    <3>4. CASE r = p /\ Brings(p)
      BY <1>1, <2>1, <3>4 DEF Brings, StoreKept
    <3>5. QED
      BY <3>1, <3>2, <3>3, <3>4
  <2>2. CASE ~("lost" \notin excused' /\ store \notin valid /\ UNCHANGED valid)
    BY <2>2, Zenon DEF StoreKept
  <2>3. QED
    BY <2>1, <2>2
<1>6. SentStored'
  BY <1>1 DEF CInv, SentStored
<1>7. \A r \in Proc : Shape(proc[r])'
  BY <1>1 DEF CInv, Shape
<1>8. QED
  BY <1>2, <1>3, <1>4, <1>5, <1>6, <1>7 DEF CInv

\* What a reload, a refresh or a login leaves of its process.
Outcome(q, p, n, kept) ==
    /\ q \in Process
    /\ q.step \in {"idle", "release"} /\ q.work = "reload" /\ q.creds = 0 /\ ~q.kept
    /\ q.rejected = 0 /\ q.reply = proc[p].reply /\ q.again = proc[p].again
    /\ q.mtime = proc[p].mtime /\ q.hb = proc[p].hb /\ q.up = proc[p].up
    /\ q.token = IF n = 0 THEN proc[p].token ELSE n
    /\ q.unsaved = IF n = 0 THEN proc[p].unsaved ELSE kept
    /\ q.replaced = IF n = 0 \/ kept THEN proc[p].replaced ELSE 0

\* The outcome is the one Returned computes.
LEMMA ReturnedIs ==
    ASSUME CInv, NEW p \in Proc, NEW n \in Held, NEW kept \in BOOLEAN,
           n # 0 => n # proc[p].rejected
    PROVE  Outcome(Returned(p, n, kept), p, n, kept)
<1> DEFINE q == proc[p]
           b == [q EXCEPT !.step  = IF q.mtime = 0 THEN "idle" ELSE "release",
                          !.work  = "reload", !.tries = 0, !.creds = 0, !.kept = FALSE,
                          !.rejected = 0, !.again = @ \/ (n # 0 /\ n = q.rejected)]
           r == Returned(p, n, kept)
<1>1. q \in Process /\ 0 \in 0 .. MaxTries /\ 0 \in Held
  BY CredentialsAssumption DEF CInv, CTyped, Held
<1>2. r = IF n = 0 THEN b
          ELSE [b EXCEPT !.token = n, !.unsaved = kept, !.replaced = IF kept THEN @ ELSE 0]
  BY DEF Returned
<1> HIDE DEF r, q
<1>3. /\ b \in Process /\ b.step \in {"idle", "release"} /\ b.work = "reload"
      /\ b.creds = 0 /\ b.kept = FALSE /\ b.rejected = 0 /\ b.reply = q.reply
      /\ b.again = (q.again \/ (n # 0 /\ n = q.rejected))
      /\ b.mtime = q.mtime /\ b.hb = q.hb /\ b.up = q.up
      /\ b.token = q.token /\ b.unsaved = q.unsaved /\ b.replaced = q.replaced
  <2>1. "idle" \in Steps /\ "release" \in Steps /\ "reload" \in Works
    BY DEF Steps, Works
  <2>2. b \in Process
    BY <1>1, <2>1 DEF Process
  <2>3. QED
    BY <1>1, <2>2 DEF Process
<1>4. b.again = q.again
  BY <1>1, <1>3 DEF q, Process
<1> HIDE DEF b
<1>5. n # 0 => n \in Token
  BY CredentialsAssumption DEF Held, Token
<1>6. CASE n = 0
  BY <1>2, <1>3, <1>4, <1>6 DEF r, q, Outcome
<1>7. CASE n # 0
  <2>1. r = [b EXCEPT !.token = n, !.unsaved = kept, !.replaced = IF kept THEN @ ELSE 0]
    BY <1>2, <1>7
  <2>2. /\ r \in Process /\ r.token = n /\ r.unsaved = kept
        /\ r.replaced = (IF kept THEN q.replaced ELSE 0)
        /\ r.step = b.step /\ r.work = b.work /\ r.creds = b.creds /\ r.kept = b.kept
        /\ r.rejected = b.rejected /\ r.reply = b.reply /\ r.again = b.again
        /\ r.mtime = b.mtime /\ r.hb = b.hb /\ r.up = b.up
    BY <1>1, <1>3, <1>5, <1>7, <2>1 DEF Process
  <2>3. QED
    BY <1>3, <1>4, <1>7, <2>2 DEF r, q, Outcome
<1>8. QED
  BY <1>6, <1>7

\* A reload that ends with no pair, with one it loaded, or with the one it sent,
\* and a login that ends with none.
LEMMA ReturnInv ==
    ASSUME CInv, NEW p \in Proc, NEW n \in Held, NEW kept \in BOOLEAN, proc[p].up,
           To(p, [Returned(p, n, kept) EXCEPT !.reply = 0]),
           UNCHANGED <<store, issued, life, lock>>,
           UNCHANGED valid \/ (valid' = valid \ {proc[p].creds} /\ "lost" \in excused'),
           faults' \in 0 .. MaxFaults, excused' \subseteq {"lost", "unsaved", "broken"},
           excused \subseteq excused', n # 0 => n # proc[p].rejected,
           \/ n = 0
           \/ n = Creds(p) /\ kept = Prefers(p)
           \/ n = proc[p].creds /\ kept = proc[p].kept /\ proc[p].work = "refresh",
           ~(proc[p].step = "save" /\ proc[p].work = "refresh")
    PROVE  CInv'
<1>0. Outcome(Returned(p, n, kept), p, n, kept)
  BY ReturnedIs
<1> DEFINE o == proc[p]
           b == Returned(p, n, kept)
           q == [b EXCEPT !.reply = 0]
<1>1. /\ b \in Process
      /\ b.step \in {"idle", "release"} /\ b.work = "reload" /\ b.creds = 0 /\ ~b.kept
      /\ b.rejected = 0 /\ b.reply = o.reply /\ b.again = o.again
      /\ b.mtime = o.mtime /\ b.hb = o.hb /\ b.up = o.up
      /\ b.token = (IF n = 0 THEN o.token ELSE n)
      /\ b.unsaved = (IF n = 0 THEN o.unsaved ELSE kept)
      /\ b.replaced = (IF n = 0 \/ kept THEN o.replaced ELSE 0)
  BY <1>0 DEF Outcome
<1> HIDE DEF b
<1>2. /\ o \in Process /\ Shape(o) /\ To(p, q) /\ 0 \in Held
      /\ lock' \in [mtime : Nat, stale : BOOLEAN] /\ life' \in [Token -> 0 .. 2]
  BY CredentialsAssumption DEF CInv, CTyped, Held, b
<1> HIDE DEF q
<1>3. /\ q \in Process
      /\ q.step \in {"idle", "release"} /\ q.work = "reload" /\ q.creds = 0 /\ ~q.kept
      /\ q.rejected = 0 /\ q.reply = 0 /\ q.again = o.again
      /\ q.mtime = o.mtime /\ q.hb = o.hb /\ q.up = o.up
      /\ q.token = (IF n = 0 THEN o.token ELSE n)
      /\ q.unsaved = (IF n = 0 THEN o.unsaved ELSE kept)
      /\ q.replaced = (IF n = 0 \/ kept THEN o.replaced ELSE 0)
  BY <1>1, <1>2 DEF q, Process
<1>4. Shape(q)
  BY <1>2, <1>3 DEF Shape
<1>5. Alone'
  BY <1>2, <1>3, AloneKept
<1>6. /\ n = Creds(p) /\ kept = Prefers(p) =>
            /\ n \in {store, o.token}
            /\ kept => o.unsaved /\ n = o.token
            /\ o.unsaved /\ store = o.replaced => kept
      /\ n = o.creds /\ kept = o.kept /\ o.work = "refresh" =>
            /\ kept => o.unsaved /\ n = o.token
            /\ o.unsaved /\ store = o.replaced => kept
  BY <1>2 DEF CInv, Private, Shape, Creds, Prefers
<1>7. /\ q.token \in {store, o.token, o.creds}
      /\ q.unsaved => o.unsaved /\ q.token = o.token /\ q.replaced = o.replaced
      /\ Holds(p) => q.unsaved
  BY <1>3, <1>6 DEF Holds
<1>8. ~Brings(p)
  BY DEF Brings
<1> HIDE DEF o
<1>9. /\ q.creds = 0 /\ q.replaced \in {0, o.replaced} /\ q.reply = 0 /\ q.rejected = 0
      /\ q.work # "refresh" /\ q.step # "sent"
  BY <1>3
<1>10. QED
  BY <1>2, <1>3, <1>4, <1>5, <1>7, <1>8, <1>9, MoveInv DEF o

\* A reload, whose process brings no pair, may end in the same ways.
LEMMA EndInv ==
    ASSUME CInv, NEW p \in Proc, NEW n \in Held, NEW kept \in BOOLEAN, proc[p].up,
           proc[p].step \in {"load", "reload", "fallback", "sent"},
           To(p, Returned(p, n, kept)), UNCHANGED <<store, issued, life, lock>>,
           UNCHANGED valid \/ (valid' = valid \ {proc[p].creds} /\ "lost" \in excused'),
           faults' \in 0 .. MaxFaults, excused' \subseteq {"lost", "unsaved", "broken"},
           excused \subseteq excused', n # 0 => n # proc[p].rejected,
           \/ n = 0
           \/ n = Creds(p) /\ kept = Prefers(p)
           \/ n = proc[p].creds /\ kept = proc[p].kept /\ proc[p].work = "refresh"
    PROVE  CInv'
<1>1. Outcome(Returned(p, n, kept), p, n, kept)
  BY ReturnedIs
<1>2. proc[p].reply = 0 /\ proc[p].step # "save"
  BY DEF CInv, Shape
<1> DEFINE q == Returned(p, n, kept)
<1> HIDE DEF q
<1>3. q \in Process /\ q.reply = 0
  BY <1>1, <1>2 DEF q, Outcome
<1>4. [q EXCEPT !.reply = 0] = q
  BY <1>3 DEF Process
<1>5. To(p, [Returned(p, n, kept) EXCEPT !.reply = 0])
  BY <1>4 DEF q
<1>6. QED
  BY <1>2, <1>5, ReturnInv

\* A step that changes what its process does and no pair it has.
LEMMA StayInv ==
    ASSUME CInv, NEW p \in Proc, NEW q \in Process, To(p, q),
           UNCHANGED <<store, valid, issued, life>>,
           lock' \in [mtime : Nat, stale : BOOLEAN], faults' \in 0 .. MaxFaults,
           excused' \subseteq {"lost", "unsaved", "broken"}, excused \subseteq excused',
           Shape(q), Alone',
           q.token = proc[p].token, q.creds = proc[p].creds, q.reply = proc[p].reply,
           q.unsaved = proc[p].unsaved, q.replaced = proc[p].replaced,
           q.work = proc[p].work, q.kept = proc[p].kept,
           q.rejected \in {0, proc[p].rejected, proc[p].token},
           proc[p].step \in {"save", "sent"} => q.step = proc[p].step,
           q.step = "sent" => proc[p].step = "sent"
    PROVE  CInv'
<1>1. life' \in [Token -> 0 .. 2]
  BY DEF CInv, CTyped
<1>2. q.work = "refresh" /\ ~q.kept /\ q.unsaved => store # q.replaced
  BY DEF CInv, Private
<1>3. excused' = {} /\ q.step = "sent" => q.creds = store /\ store \in valid
  BY DEF CInv, SentStored
<1>4. Brings(p) => q.step = "save" /\ q.work = "refresh"
  BY DEF Brings
<1>5. Holds(p) => q.unsaved
  BY DEF Holds
<1>6. QED
  BY <1>1, <1>2, <1>3, <1>4, <1>5, MoveInv

\* A fault is one of a bounded number.
LEMMA FaultBounded ==
    ASSUME CInv, Fault \/ UNCHANGED faults
    PROVE  faults' \in 0 .. MaxFaults
BY CredentialsAssumption DEF CInv, CTyped, Fault

\* What is loaded is a token, and one that counts as unexpired is not rejected.
LEMMA Loaded ==
    ASSUME CInv, NEW p \in Proc
    PROVE  /\ Creds(p) \in Held /\ Creds(p) # 0 /\ Prefers(p) \in BOOLEAN
           /\ \A n \in Held : Left(p, n) # 0 => n # proc[p].rejected
BY DEF CInv, CTyped, Process, Creds, Prefers, Left, Held, Token

\* A process and what is around it.
LEMMA AroundProcess ==
    ASSUME CInv, NEW p \in Proc
    PROVE  /\ proc[p] \in Process /\ Shape(proc[p])
           /\ lock \in [mtime : Nat, stale : BOOLEAN] /\ life \in [Token -> 0 .. 2]
           /\ excused \subseteq {"lost", "unsaved", "broken"} /\ faults \in 0 .. MaxFaults
           /\ 0 \in Held /\ Token \subseteq Held
BY CredentialsAssumption DEF CInv, CTyped, Held, Token

\* A process that only moved to another step, or whose hold of the lock changed.
Like(q, o) ==
    /\ q.work = o.work /\ q.up = o.up /\ q.token = o.token /\ q.unsaved = o.unsaved
    /\ q.replaced = o.replaced /\ q.creds = o.creds /\ q.kept = o.kept /\ q.reply = o.reply
    /\ q.rejected = o.rejected /\ q.again = o.again

LEMMA LikeInv ==
    ASSUME CInv, NEW p \in Proc, NEW q \in Process, To(p, q), Like(q, proc[p]),
           UNCHANGED <<store, valid, issued, life>>, Fault \/ UNCHANGED faults,
           lock' \in [mtime : Nat, stale : BOOLEAN],
           excused' \subseteq {"lost", "unsaved", "broken"}, excused \subseteq excused',
           Shape(q), Alone',
           \/ q.step = proc[p].step
           \/ proc[p].step \notin {"save", "sent"} /\ q.step # "sent"
    PROVE  CInv'
BY FaultBounded, StayInv DEF Like

-----------------------------------------------------------------------------
(***************************************************************************)
(* The actions                                                             *)
(***************************************************************************)
LEMMA BeginInv == ASSUME CInv, NEW p \in Proc, Begin(p) PROVE CInv'
<1> DEFINE o == proc[p]
<1>1. PICK r \in {0, o.token} : To(p, [o EXCEPT !.step = "load", !.rejected = r])
  BY DEF Begin
<1>2. /\ o \in Process /\ Shape(o) /\ o.up /\ o.step = "idle" /\ r \in Held
      /\ UNCHANGED <<store, lock, life, valid, issued, faults, excused>>
  BY AroundProcess DEF Begin, Runs, Process
<1> DEFINE q == [o EXCEPT !.step = "load", !.rejected = r]
<1>3. /\ q \in Process /\ q.step = "load" /\ q.rejected = r /\ q.token = o.token
      /\ q.creds = o.creds /\ q.reply = o.reply /\ q.unsaved = o.unsaved
      /\ q.replaced = o.replaced /\ q.work = o.work /\ q.kept = o.kept /\ q.mtime = o.mtime
      /\ q.up = o.up /\ q.hb = o.hb /\ q.again = o.again
  BY <1>2 DEF Process, Steps
<1>4. To(p, q)
  BY <1>1
<1> HIDE DEF q
<1>5. Shape(q)
  BY <1>2, <1>3 DEF Shape
<1>6. Alone'
  BY <1>2, <1>3, <1>4, AloneKept
<1>7. QED
  BY <1>2, <1>3, <1>4, <1>5, <1>6, AroundProcess, FaultBounded, StayInv

LEMMA LoadInv == ASSUME CInv, NEW p \in Proc, Load(p) PROVE CInv'
<1> DEFINE o == proc[p]
<1>1. /\ o \in Process /\ Shape(o) /\ o.up /\ o.step = "load"
      /\ UNCHANGED <<store, lock, life, valid, issued, faults, excused>>
  BY AroundProcess DEF Load, Runs
<1>2. CASE Left(p, Creds(p)) = 2
  <2>1. To(p, Returned(p, Creds(p), Prefers(p)))
    BY <1>2 DEF Load
  <2>2. Creds(p) # proc[p].rejected
    BY <1>2, Loaded
  <2>3. QED
    BY <1>1, <2>1, <2>2, AroundProcess, Loaded, EndInv
<1>3. CASE Left(p, Creds(p)) # 2
  <2> DEFINE q == [o EXCEPT !.step = "mkdir"]
  <2>1. To(p, q)
    BY <1>3 DEF Load
  <2>2. q \in Process /\ Like(q, o) /\ q.step = "mkdir" /\ q.mtime = o.mtime /\ q.hb = o.hb
    BY <1>1 DEF Process, Steps, Like
  <2> HIDE DEF q
  <2>3. Shape(q)
    BY <1>1, <2>2 DEF Shape, Like
  <2>4. Alone'
    BY <1>1, <2>1, <2>2, AloneKept
  <2>5. QED
    BY <1>1, <2>1, <2>2, <2>3, <2>4, AroundProcess, LikeInv
<1>4. QED
  BY <1>2, <1>3

LEMMA MkdirInv == ASSUME CInv, NEW p \in Proc, Mkdir(p) PROVE CInv'
<1> DEFINE o == proc[p]
           m == NewMtime
           q == [o EXCEPT !.mtime = m, !.step = IF o.work = "login" THEN "save" ELSE "reload"]
<1>1. /\ o \in Process /\ Shape(o) /\ o.up /\ o.step = "mkdir" /\ lock = NoLock
      /\ UNCHANGED <<store, life, valid, issued, faults, excused>>
      /\ lock' = [mtime |-> m, stale |-> FALSE]
  BY AroundProcess DEF Mkdir, Runs
<1>2. To(p, q)
  BY DEF Mkdir
<1>3. m \in Nat \ {0}
  BY FreeTime DEF CInv
<1> HIDE DEF m
<1>4. /\ q \in Process /\ Like(q, o) /\ q.mtime = m /\ q.hb = o.hb
      /\ q.step = IF o.work = "login" THEN "save" ELSE "reload"
  BY <1>1, <1>3 DEF Process, Steps, Like
<1> HIDE DEF q
<1>5. Shape(q)
  BY <1>1, <1>3, <1>4 DEF Shape, Like, Process, Works
<1>6. Alone'
  <2>1. \A r \in Proc : proc'[r] = IF r = p THEN q ELSE proc[r]
    BY <1>2 DEF To, CInv, CTyped
  <2>2. "broken" \notin excused => \A r \in Proc : proc[r].mtime = 0
    BY <1>1 DEF CInv, Alone, NoLock
  <2>3. lock'.mtime = m
    BY <1>1
  <2>4. QED
    BY <1>1, <1>4, <2>1, <2>2, <2>3 DEF Alone
<1>7. lock' \in [mtime : Nat, stale : BOOLEAN] /\ excused' \subseteq {"lost", "unsaved", "broken"}
  BY <1>1, <1>3, AroundProcess
<1>8. q.step # "sent"
  BY <1>4
<1>9. QED
  BY <1>1, <1>2, <1>4, <1>5, <1>6, <1>7, <1>8, LikeInv

\* A process without the lock: after a fault or at its deadline.
LEMMA UnlockedInv ==
    ASSUME CInv, NEW p \in Proc, proc[p].up, proc[p].step \in {"mkdir", "remove"},
           To(p, Unlocked(p)), UNCHANGED <<store, life, valid, issued>>,
           Fault \/ UNCHANGED faults, lock' \in [mtime : Nat, stale : BOOLEAN],
           excused' \subseteq {"lost", "unsaved", "broken"}, excused \subseteq excused',
           \A q : To(p, q) /\ q.mtime = proc[p].mtime => Alone'
    PROVE  CInv'
<1> DEFINE o == proc[p]
<1>1. o \in Process /\ Shape(o) /\ 0 \in Held /\ life' \in [Token -> 0 .. 2]
  BY AroundProcess
<1>2. faults' \in 0 .. MaxFaults
  BY FaultBounded
<1>3. CASE o.work = "login"
  <2> DEFINE b == Returned(p, 0, FALSE)
             q == [b EXCEPT !.reply = 0]
  <2>1. To(p, q)
    BY <1>3 DEF Unlocked
  <2>2. Outcome(b, p, 0, FALSE)
    BY <1>1, ReturnedIs
  <2> HIDE DEF b
  <2>3. /\ q \in Process /\ q.step \in {"idle", "release"} /\ q.work = "reload"
        /\ q.creds = 0 /\ ~q.kept /\ q.rejected = 0 /\ q.reply = 0 /\ q.again = o.again
        /\ q.mtime = o.mtime /\ q.hb = o.hb /\ q.up = o.up /\ q.token = o.token
        /\ q.unsaved = o.unsaved /\ q.replaced = o.replaced
    BY <1>1, <2>2 DEF Outcome, Process
  <2> HIDE DEF q
  <2>4. Shape(q)
    BY <1>1, <2>3 DEF Shape
  <2>5. Alone' /\ ~Brings(p)
    BY <1>3, <2>1, <2>3 DEF Brings
  <2>6. Holds(p) => q.unsaved
    BY <2>3 DEF Holds
  <2>7. q.work # "refresh" /\ q.step # "sent"
    BY <2>3
  <2>8. QED
    BY <1>1, <1>2, <2>1, <2>3, <2>4, <2>5, <2>6, <2>7, MoveInv
<1>4. CASE o.work # "login"
  <2> DEFINE q == [o EXCEPT !.step = "fallback"]
  <2>1. To(p, q)
    BY <1>4 DEF Unlocked
  <2>2. q \in Process /\ Like(q, o) /\ q.step = "fallback" /\ q.mtime = o.mtime /\ q.hb = o.hb
    BY <1>1 DEF Process, Steps, Like
  <2> HIDE DEF q
  <2>3. Shape(q)
    BY <1>1, <1>4, <2>2 DEF Shape, Like
  <2>4. Alone'
    BY <2>1, <2>2
  <2>5. QED
    BY <2>1, <2>2, <2>3, <2>4, LikeInv
<1>5. QED
  BY <1>3, <1>4

\* A process that tries again, unless its deadline came.
LEMMA RetriedInv ==
    ASSUME CInv, NEW p \in Proc, proc[p].up, proc[p].step \in {"mkdir", "remove"},
           To(p, Retried(p)), UNCHANGED <<store, life, valid, issued, faults>>,
           lock' \in [mtime : Nat, stale : BOOLEAN],
           excused' \subseteq {"lost", "unsaved", "broken"}, excused \subseteq excused',
           \A q : To(p, q) /\ q.mtime = proc[p].mtime => Alone'
    PROVE  CInv'
<1> DEFINE o == proc[p]
<1>1. o \in Process /\ Shape(o)
  BY AroundProcess
<1>2. CASE o.tries = MaxTries
  BY <1>2, UnlockedInv DEF Retried
<1>3. CASE o.tries # MaxTries
  <2> DEFINE q == [o EXCEPT !.tries = @ + 1, !.step = "mkdir"]
  <2>1. To(p, q)
    BY <1>3 DEF Retried
  <2>2. o.tries + 1 \in 0 .. MaxTries
    BY <1>1, <1>3, CredentialsAssumption DEF Process
  <2>3. q \in Process /\ Like(q, o) /\ q.step = "mkdir" /\ q.mtime = o.mtime /\ q.hb = o.hb
    BY <1>1, <2>2 DEF Process, Steps, Like
  <2> HIDE DEF q
  <2>4. Shape(q)
    BY <1>1, <2>3 DEF Shape, Like
  <2>5. Alone'
    BY <2>1, <2>3
  <2>6. QED
    BY <2>1, <2>3, <2>4, <2>5, LikeInv
<1>4. QED
  BY <1>2, <1>3

\* A lock that stays keeps its guard through such a step.
LEMMA AloneStays ==
    ASSUME CInv, NEW p \in Proc, UNCHANGED lock, excused \subseteq excused'
    PROVE  \A q : To(p, q) /\ q.mtime = proc[p].mtime => Alone'
BY AloneKept

LEMMA WaitLockInv == ASSUME CInv, NEW p \in Proc, Wait(p) PROVE CInv'
<1> DEFINE o == proc[p]
<1>1. /\ o \in Process /\ Shape(o) /\ o.up /\ o.step = "mkdir"
      /\ UNCHANGED <<store, lock, life, valid, issued, faults, excused>>
  BY AroundProcess DEF Wait, Runs
<1>2. CASE lock.stale
  <2> DEFINE q == [o EXCEPT !.step = "remove"]
  <2>1. To(p, q)
    BY <1>2 DEF Wait
  <2>2. q \in Process /\ Like(q, o) /\ q.step = "remove" /\ q.mtime = o.mtime /\ q.hb = o.hb
    BY <1>1 DEF Process, Steps, Like
  <2> HIDE DEF q
  <2>3. Shape(q)
    BY <1>1, <2>2 DEF Shape, Like
  <2>4. Alone'
    BY <1>1, <2>1, <2>2, AloneKept
  <2>5. QED
    BY <1>1, <2>1, <2>2, <2>3, <2>4, AroundProcess, LikeInv
<1>3. CASE ~lock.stale
  <2>1. To(p, Retried(p))
    BY <1>3 DEF Wait
  <2>2. QED
    BY <1>1, <2>1, AroundProcess, AloneStays, RetriedInv
<1>4. QED
  BY <1>2, <1>3

LEMMA MkdirFailsInv == ASSUME CInv, NEW p \in Proc, MkdirFails(p) PROVE CInv'
<1>1. /\ proc[p].up /\ proc[p].step = "mkdir" /\ Fault /\ To(p, Unlocked(p))
      /\ UNCHANGED <<store, lock, life, valid, issued, excused>>
  BY DEF MkdirFails, Runs
<1>2. QED
  BY <1>1, AroundProcess, AloneStays, UnlockedInv

LEMMA RemoveInv == ASSUME CInv, NEW p \in Proc, Remove(p) PROVE CInv'
<1>1. /\ proc[p].up /\ proc[p].step = "remove" /\ To(p, Retried(p)) /\ lock' = NoLock
      /\ excused' = IF \E q \in Proc : lock # NoLock /\ proc[q].mtime = lock.mtime
                      THEN excused \cup {"broken"} ELSE excused
      /\ UNCHANGED <<store, life, valid, issued, faults>>
  BY DEF Remove, Runs
<1>2. ASSUME NEW q, To(p, q), q.mtime = proc[p].mtime
      PROVE  Alone'
  <2>1. \A r \in Proc : proc'[r].mtime = proc[r].mtime
    BY <1>2 DEF To, CInv, CTyped
  <2>2. "broken" \notin excused' => \A r \in Proc : proc[r].mtime = 0
    BY <1>1 DEF CInv, Alone, NoLock
  <2>3. QED
    BY <2>1, <2>2 DEF Alone
<1>3. /\ lock' \in [mtime : Nat, stale : BOOLEAN]
      /\ excused' \subseteq {"lost", "unsaved", "broken"} /\ excused \subseteq excused'
  BY <1>1, AroundProcess DEF NoLock
<1>4. QED
  BY <1>1, <1>2, <1>3, RetriedInv

LEMMA FallbackInv == ASSUME CInv, NEW p \in Proc, Fallback(p) PROVE CInv'
<1>1. /\ proc[p].up /\ proc[p].step = "fallback"
      /\ UNCHANGED <<store, lock, life, valid, issued, faults, excused>>
  BY DEF Fallback, Runs
<1>2. CASE Left(p, Creds(p)) > 0
  <2>1. To(p, Returned(p, Creds(p), Prefers(p)))
    BY <1>2 DEF Fallback
  <2>2. Creds(p) # proc[p].rejected
    BY <1>2, Loaded
  <2>3. QED
    BY <1>1, <2>1, <2>2, AroundProcess, Loaded, EndInv
<1>3. CASE ~(Left(p, Creds(p)) > 0)
  <2>1. To(p, Returned(p, 0, FALSE))
    BY <1>3 DEF Fallback
  <2>2. QED
    BY <1>1, <2>1, AroundProcess, EndInv
<1>4. QED
  BY <1>2, <1>3

LEMMA ReleaseInv == ASSUME CInv, NEW p \in Proc, Release(p) PROVE CInv'
<1> DEFINE o == proc[p]
           q == [o EXCEPT !.step = "idle", !.mtime = 0, !.hb = FALSE]
<1>1. /\ o \in Process /\ Shape(o) /\ o.up /\ o.step = "release"
      /\ lock' = (IF lock.mtime = o.mtime THEN NoLock ELSE lock)
      /\ UNCHANGED <<store, life, valid, issued, faults, excused>>
  BY AroundProcess DEF Release, Runs
<1>2. To(p, q)
  BY DEF Release
<1>3. q \in Process /\ Like(q, o) /\ q.step = "idle" /\ q.mtime = 0 /\ ~q.hb
  BY <1>1 DEF Process, Steps, Like
<1> HIDE DEF q
<1>4. Shape(q)
  BY <1>1, <1>3 DEF Shape, Like
<1>5. Alone'
  <2>1. \A r \in Proc : proc'[r] = IF r = p THEN q ELSE proc[r]
    BY <1>2 DEF To, CInv, CTyped
  <2>2. CASE lock.mtime = o.mtime /\ o.mtime # 0
    BY <1>1, <1>3, <2>1, <2>2 DEF CInv, Alone
  <2>3. CASE lock.mtime = o.mtime /\ o.mtime = 0
    BY <1>1, <1>3, <2>1, <2>3 DEF CInv, Alone
  <2>4. CASE lock.mtime # o.mtime
    BY <1>1, <1>3, <2>1, <2>4 DEF CInv, Alone
  <2>5. QED
    BY <2>2, <2>3, <2>4
<1>6. lock' \in [mtime : Nat, stale : BOOLEAN] /\ excused' \subseteq {"lost", "unsaved", "broken"}
  BY <1>1, AroundProcess DEF NoLock
<1>7. QED
  BY <1>1, <1>2, <1>3, <1>4, <1>5, <1>6, LikeInv

LEMMA HeartbeatInv == ASSUME CInv, NEW p \in Proc, Heartbeat(p) PROVE CInv'
<1> DEFINE o == proc[p]
<1>1. /\ o \in Process /\ Shape(o) /\ o.up /\ o.mtime # 0
      /\ UNCHANGED <<store, lock, life, valid, issued, faults, excused>>
  BY AroundProcess DEF Heartbeat
<1>2. CASE To(p, [o EXCEPT !.hb = TRUE])
  <2> DEFINE q == [o EXCEPT !.hb = TRUE]
  <2>1. To(p, q)
    BY <1>2
  <2>2. q \in Process /\ Like(q, o) /\ q.step = o.step /\ q.mtime = o.mtime
    BY <1>1 DEF Process, Like
  <2> HIDE DEF q
  <2>3. Shape(q)
    BY <1>1, <2>2 DEF Shape, Like
  <2>4. Alone'
    BY <1>1, <2>1, <2>2, AloneKept
  <2>5. QED
    BY <1>1, <2>1, <2>2, <2>3, <2>4, AroundProcess, LikeInv
<1>3. CASE lock.mtime # o.mtime /\ To(p, [o EXCEPT !.mtime = Lost])
  <2> DEFINE q == [o EXCEPT !.mtime = Lost]
  <2>1. To(p, q)
    BY <1>3
  <2>2. Lost \in Nat \ {0}
    BY FreeTime DEF CInv
  <2>3. q \in Process /\ Like(q, o) /\ q.step = o.step /\ q.mtime # 0 /\ q.hb = o.hb
    BY <1>1, <2>2 DEF Process, Like
  <2> HIDE DEF q
  <2>4. Shape(q)
    BY <1>1, <2>3 DEF Shape, Like
  <2>5. "broken" \in excused
    BY <1>1, <1>3 DEF CInv, Alone
  <2>6. Alone'
    BY <1>1, <2>5 DEF Alone
  <2>7. QED
    BY <1>1, <2>1, <2>3, <2>4, <2>6, AroundProcess, LikeInv
<1>4. QED
  BY <1>2, <1>3 DEF Heartbeat

LEMMA TouchInv == ASSUME CInv, NEW p \in Proc, Touch(p) PROVE CInv'
<1> DEFINE o == proc[p]
           m == NewMtime
<1>1. /\ o \in Process /\ Shape(o) /\ o.up /\ o.mtime # 0
      /\ UNCHANGED <<store, life, valid, issued, faults, excused>>
  BY AroundProcess DEF Touch, Shape
<1>2. m \in Nat \ {0}
  BY FreeTime DEF CInv
<1>3. CASE lock = NoLock
  <2> DEFINE q == [o EXCEPT !.hb = FALSE]
  <2>1. To(p, q) /\ UNCHANGED lock
    BY <1>3 DEF Touch
  <2>2. q \in Process /\ Like(q, o) /\ q.step = o.step /\ q.mtime = o.mtime /\ ~q.hb
    BY <1>1 DEF Process, Like
  <2> HIDE DEF q
  <2>3. Shape(q)
    BY <1>1, <2>2 DEF Shape, Like
  <2>4. Alone'
    BY <1>1, <2>1, <2>2, AloneKept
  <2>5. QED
    BY <1>1, <2>1, <2>2, <2>3, <2>4, AroundProcess, LikeInv
<1>4. CASE lock # NoLock
  <2> DEFINE q == [o EXCEPT !.hb = FALSE, !.mtime = m]
  <2>1. To(p, q) /\ lock' = [mtime |-> m, stale |-> FALSE]
    BY <1>4 DEF Touch
  <2> HIDE DEF m
  <2>2. q \in Process /\ Like(q, o) /\ q.step = o.step /\ q.mtime = m /\ ~q.hb
    BY <1>1, <1>2 DEF Process, Like
  <2> HIDE DEF q
  <2>3. Shape(q)
    BY <1>1, <1>2, <2>2 DEF Shape, Like
  <2>4. Alone'
    <3>1. \A r \in Proc : proc'[r] = IF r = p THEN q ELSE proc[r]
      BY <2>1 DEF To, CInv, CTyped
    <3>2. "broken" \notin excused => \A r \in Proc : r # p => proc[r].mtime = 0
      BY <1>1 DEF CInv, Alone
    <3>3. lock'.mtime = m
      BY <2>1
    <3>4. QED
      BY <1>1, <2>2, <3>1, <3>2, <3>3 DEF Alone
  <2>5. lock' \in [mtime : Nat, stale : BOOLEAN]
    BY <1>2, <2>1
  <2>6. QED
    BY <1>1, <2>1, <2>2, <2>3, <2>4, <2>5, AroundProcess, LikeInv
<1>5. QED
  BY <1>3, <1>4

\* A suspension and its end.
LEMMA SleepInv ==
    ASSUME CInv, NEW p \in Proc, Suspend(p) \/ Wake(p)
    PROVE  CInv'
<1> DEFINE o == proc[p]
<1>1. /\ o \in Process /\ Shape(o) /\ (Fault \/ UNCHANGED faults)
      /\ UNCHANGED <<store, lock, life, valid, issued, excused>>
  BY AroundProcess DEF Suspend, Wake
<1>2. PICK b \in BOOLEAN : To(p, [o EXCEPT !.awake = b])
  BY DEF Suspend, Wake
<1> DEFINE q == [o EXCEPT !.awake = b]
<1>3. To(p, q)
  BY <1>2
<1>4. q \in Process /\ Like(q, o) /\ q.step = o.step /\ q.mtime = o.mtime /\ q.hb = o.hb
  BY <1>1 DEF Process, Like
<1> HIDE DEF q
<1>5. Shape(q)
  BY <1>1, <1>4 DEF Shape, Like
<1>6. Alone'
  BY <1>1, <1>3, <1>4, AloneKept
<1>7. QED
  BY <1>1, <1>3, <1>4, <1>5, <1>6, AroundProcess, LikeInv

\* A process as it starts.
LEMMA FreshIs ==
    ASSUME store \in Token, NEW p \in Proc
    PROVE  LET q == Fresh(p) IN
           /\ q \in Process /\ q.step = "idle" /\ q.work = "reload" /\ q.token = store
           /\ q.up = TRUE /\ q.unsaved = FALSE /\ q.replaced = 0 /\ q.creds = 0
           /\ q.kept = FALSE /\ q.reply = 0 /\ q.rejected = 0 /\ q.mtime = 0
           /\ q.hb = FALSE /\ q.again = FALSE
<1> DEFINE q == Fresh(p)
<1>1. 0 \in 0 .. MaxTries /\ 0 \in Held /\ 0 \in Nat
  BY CredentialsAssumption DEF Held
<1>2. "idle" \in Steps /\ "reload" \in Works
  BY DEF Steps, Works
<1>3. q \in Process
  BY <1>1, <1>2 DEF Fresh, Process
<1>4. QED
  BY <1>3 DEF Fresh

\* A process begins anew: what only it had is gone.
LEMMA FreshInv ==
    ASSUME CInv, NEW p \in Proc, NEW b \in BOOLEAN, To(p, [Fresh(p) EXCEPT !.up = b]),
           UNCHANGED <<store, lock, life, valid, issued>>, Fault \/ UNCHANGED faults,
           excused \subseteq excused', excused' \subseteq {"lost", "unsaved", "broken"},
           \/ "lost" \in excused'
           \/ ~proc[p].unsaved /\ ~(proc[p].work = "refresh" /\ proc[p].reply # 0)
    PROVE  CInv'
<1> DEFINE o == proc[p]
           q == [Fresh(p) EXCEPT !.up = b]
<1>1. To(p, q) /\ o \in Process /\ Shape(o) /\ 0 \in Held /\ store \in Token
  BY AroundProcess DEF CInv, CTyped
<1> DEFINE f == Fresh(p)
<1> HIDE DEF f
<1>0. /\ f \in Process /\ f.step = "idle" /\ f.work = "reload" /\ f.token = store
      /\ f.unsaved = FALSE /\ f.replaced = 0 /\ f.creds = 0 /\ f.kept = FALSE /\ f.reply = 0
      /\ f.rejected = 0 /\ f.mtime = 0 /\ f.hb = FALSE /\ f.again = FALSE
      /\ q = [f EXCEPT !.up = b]
  BY <1>1, FreshIs DEF f
<1>2. /\ q \in Process /\ q.step = "idle" /\ q.work = "reload" /\ q.token = store
      /\ q.unsaved = FALSE /\ q.replaced = 0 /\ q.creds = 0 /\ q.kept = FALSE /\ q.reply = 0
      /\ q.rejected = 0 /\ q.mtime = 0 /\ q.hb = FALSE /\ q.again = FALSE
  BY <1>0 DEF Process
<1> HIDE DEF q
<1>3. Shape(q)
  BY <1>2 DEF Shape
<1>4. Alone'
  BY <1>1, <1>2, AloneKept
<1>5. /\ "lost" \notin excused' => ~Holds(p) /\ ~Brings(p)
      /\ lock' \in [mtime : Nat, stale : BOOLEAN] /\ life' \in [Token -> 0 .. 2]
      /\ faults' \in 0 .. MaxFaults
  BY <1>1, AroundProcess, FaultBounded DEF Holds, Brings, Shape
<1>6. q.step # "sent" /\ q.work # "refresh" /\ ~q.unsaved
  BY <1>2
<1>7. QED
  BY <1>1, <1>2, <1>3, <1>4, <1>5, <1>6, MoveInv

LEMMA DieLeaveInv == ASSUME CInv, NEW p \in Proc, Die(p) \/ Leave(p) PROVE CInv'
<1>1. Ends(p) /\ UNCHANGED <<store, lock, life, valid, issued>> /\ (Fault \/ UNCHANGED faults)
  BY DEF Die, Leave
<1>2. To(p, [Fresh(p) EXCEPT !.up = FALSE])
  BY <1>1 DEF Ends
<1>3. /\ excused \subseteq excused' /\ excused' \subseteq {"lost", "unsaved", "broken"}
      /\ \/ "lost" \in excused'
         \/ ~proc[p].unsaved /\ ~(proc[p].work = "refresh" /\ proc[p].reply # 0)
  BY <1>1, AroundProcess DEF Ends
<1>4. QED
  BY <1>1, <1>2, <1>3, FreshInv

LEMMA LaunchInv == ASSUME CInv, NEW p \in Proc, Launch(p) PROVE CInv'
<1> DEFINE f == Fresh(p)
<1>0. f \in Process /\ f.up = TRUE
  BY FreshIs DEF CInv, CTyped
<1> HIDE DEF f
<1>1. [f EXCEPT !.up = TRUE] = f
  BY <1>0 DEF Process
<1>2. To(p, [Fresh(p) EXCEPT !.up = TRUE])
  BY <1>1 DEF Launch, f
<1>3. ~proc[p].unsaved /\ proc[p].reply = 0
  BY AroundProcess DEF Launch, Shape
<1>4. QED
  BY <1>2, <1>3, AroundProcess, FreshInv DEF Launch

\* With no fault behind it, a process under the lock finds a valid pair in the
\* store, and no other process sends or saves one.
LEMMA StoreUnderLock ==
    ASSUME CInv, excused = {}, NEW p \in Proc, proc[p].step \in {"reload", "sent", "save"}
    PROVE  /\ \A r \in Proc : proc[r].step \in {"reload", "sent", "save"} => r = p
           /\ proc[p].step # "save" => store \in valid
<1>1. \A r \in Proc : proc[r].step \in {"reload", "sent", "save"} => proc[r].mtime # 0
  BY DEF CInv, Shape
<1>2. \A r \in Proc : proc[r].step \in {"reload", "sent", "save"} => r = p
  BY <1>1 DEF CInv, Alone
<1>3. ASSUME proc[p].step # "save"
      PROVE  store \in valid
  <2>1. \A r \in Proc : proc[r].step # "save" /\ ~proc[r].unsaved
    BY <1>2, <1>3 DEF CInv, SentStored
  <2>2. QED
    BY <2>1 DEF CInv, StoreKept, Holds, Brings
<1>4. QED
  BY <1>2, <1>3

LEMMA ReloadInv == ASSUME CInv, NEW p \in Proc, Reload(p) PROVE CInv'
<1> DEFINE o == proc[p]
<1>1. /\ o \in Process /\ Shape(o) /\ o.up /\ o.step = "reload"
      /\ UNCHANGED <<store, lock, life, valid, issued, faults, excused>>
  BY AroundProcess DEF Reload, Runs
<1>2. CASE Left(p, Creds(p)) = 2
  <2>1. To(p, Returned(p, Creds(p), Prefers(p)))
    BY <1>2 DEF Reload
  <2>2. Creds(p) # proc[p].rejected
    BY <1>2, Loaded
  <2>3. QED
    BY <1>1, <2>1, <2>2, AroundProcess, Loaded, EndInv
<1>3. CASE Left(p, Creds(p)) # 2
  <2> DEFINE c == Creds(p)
             k == Prefers(p)
             q == [o EXCEPT !.step = "sent", !.work = "refresh", !.creds = c, !.kept = k]
  <2>1. To(p, q)
    BY <1>3 DEF Reload
  <2>2. /\ c \in Held /\ c # 0 /\ k \in BOOLEAN /\ c \in {store, o.token}
        /\ k => o.unsaved /\ c = o.token
        /\ k <=> o.unsaved /\ store = o.replaced
        /\ ~o.unsaved => c = store
    BY Loaded DEF Creds, Prefers
  <2> HIDE DEF c, k
  <2>3. /\ q \in Process /\ q.step = "sent" /\ q.work = "refresh" /\ q.creds = c /\ q.kept = k
        /\ q.up = o.up /\ q.token = o.token /\ q.unsaved = o.unsaved
        /\ q.replaced = o.replaced /\ q.reply = o.reply /\ q.rejected = o.rejected
        /\ q.again = o.again /\ q.mtime = o.mtime /\ q.hb = o.hb
    BY <1>1, <2>2 DEF Process, Steps, Works
  <2> HIDE DEF q
  <2>4. Shape(q)
    BY <1>1, <2>2, <2>3 DEF Shape
  <2>5. Alone'
    BY <1>1, <2>1, <2>3, AloneKept
  <2>6. q.unsaved /\ ~q.kept => store # q.replaced
    BY <2>2, <2>3
  <2>7. excused' = {} => q.creds = store /\ store \in valid
    BY <1>1, <2>2, <2>3, StoreUnderLock DEF CInv, SentStored
  <2>8. ~Brings(p) /\ (Holds(p) => q.unsaved)
    BY <1>1, <2>3 DEF Brings, Holds
  <2>9. QED
    BY <1>1, <2>1, <2>2, <2>3, <2>4, <2>5, <2>6, <2>7, <2>8, AroundProcess, MoveInv
<1>4. QED
  BY <1>2, <1>3

\* A refresh that brings no pair falls back on the token it sent.
LEMMA RefusedInv ==
    ASSUME CInv, NEW p \in Proc, Runs(p, "sent"), To(p, Refused(p)),
           UNCHANGED <<store, issued, life, lock>>, Fault \/ UNCHANGED faults,
           UNCHANGED valid \/ (valid' = valid \ {proc[p].creds} /\ "lost" \in excused'),
           excused' \subseteq {"lost", "unsaved", "broken"}, excused \subseteq excused'
    PROVE  CInv'
<1>1. /\ proc[p] \in Process /\ proc[p].up /\ proc[p].step = "sent" /\ proc[p].work = "refresh"
      /\ faults' \in 0 .. MaxFaults
  BY AroundProcess, FaultBounded DEF Runs, Shape
<1>2. CASE Left(p, proc[p].creds) > 0
  <2>1. To(p, Returned(p, proc[p].creds, proc[p].kept))
    BY <1>2 DEF Refused
  <2>2. proc[p].creds \in Held /\ proc[p].kept \in BOOLEAN
    BY <1>1 DEF Process
  <2>3. proc[p].creds # proc[p].rejected
    BY <1>2, <2>2, Loaded
  <2>4. QED
    BY <1>1, <2>1, <2>2, <2>3, EndInv
<1>3. CASE ~(Left(p, proc[p].creds) > 0)
  <2>1. To(p, Returned(p, 0, FALSE))
    BY <1>3 DEF Refused
  <2>2. QED
    BY <1>1, <2>1, AroundProcess, EndInv
<1>4. QED
  BY <1>2, <1>3

LEMMA RejectInv == ASSUME CInv, NEW p \in Proc, Reject(p) PROVE CInv'
BY AroundProcess, RefusedInv DEF Reject

LEMMA LoseInv == ASSUME CInv, NEW p \in Proc, Lose(p) PROVE CInv'
<1>1. /\ Runs(p, "sent") /\ Fault /\ To(p, Refused(p)) /\ UNCHANGED <<store, lock, life, issued>>
      /\ UNCHANGED valid \/ (valid' = valid \ {proc[p].creds} /\ "lost" \in excused')
      /\ excused' = excused \/ excused' = excused \cup {"lost"}
  BY DEF Lose
<1>2. excused' \subseteq {"lost", "unsaved", "broken"} /\ excused \subseteq excused'
  BY <1>1, AroundProcess
<1>3. QED
  BY <1>1, <1>2, RefusedInv

LEMMA GoStaleInv == ASSUME CInv, GoStale PROVE CInv'
<1>1. /\ lock' \in [mtime : Nat, stale : BOOLEAN] /\ lock'.mtime = lock.mtime
      /\ UNCHANGED <<store, proc, life, valid, issued, faults, excused>>
  BY DEF GoStale, CInv, CTyped
<1>2. CTyped' /\ Alone'
  BY <1>1 DEF CInv, CTyped, Alone
<1>3. Bounded' /\ Private' /\ StoreKept' /\ SentStored' /\ \A p \in Proc : Shape(proc[p])'
  BY <1>1 DEF CInv, Bounded, Private, StoreKept, SentStored, Holds, Brings
<1>4. QED
  BY <1>2, <1>3 DEF CInv

LEMMA AgeInv == ASSUME CInv, Age PROVE CInv'
<1>1. UNCHANGED <<store, lock, proc, valid, issued, faults, excused>>
  BY DEF Age
<1>2. life' \in [Token -> 0 .. 2]
  <2>1. PICK n \in 1 .. issued : life[n] > 0 /\ life' = [life EXCEPT ![n] = life[n] - 1]
    BY DEF Age
  <2>2. n \in Token /\ life \in [Token -> 0 .. 2]
    BY CredentialsAssumption DEF CInv, CTyped, Token
  <2>3. life[n] - 1 \in 0 .. 2
    BY <2>1, <2>2
  <2>4. QED
    BY <2>1, <2>2, <2>3
<1>3. CTyped' /\ Alone'
  BY <1>1, <1>2 DEF CInv, CTyped, Alone
<1>4. Bounded' /\ Private' /\ StoreKept' /\ SentStored' /\ \A p \in Proc : Shape(proc[p])'
  BY <1>1 DEF CInv, Bounded, Private, StoreKept, SentStored, Holds, Brings
<1>5. QED
  BY <1>3, <1>4 DEF CInv

\* A pair is issued: for a refresh, which spends the one it sent, or for a login.
LEMMA IssuedInv ==
    ASSUME CInv, NEW p \in Proc, NEW q \in Process, To(p, q), issued < MaxTokens,
           issued' = issued + 1, life' = [life EXCEPT ![issued'] = 2],
           UNCHANGED <<store, lock, faults, excused>>, Shape(q), q.mtime = proc[p].mtime,
           q.token = proc[p].token, q.unsaved = proc[p].unsaved, q.replaced = proc[p].replaced,
           q.creds = proc[p].creds, q.kept = proc[p].kept, q.rejected = proc[p].rejected,
           q.reply = issued', proc[p].reply = 0, q.step # "sent",
           \/ /\ proc[p].step = "sent" /\ q.step = "save" /\ q.work = "refresh"
              /\ proc[p].work = "refresh" /\ valid' = (valid \ {proc[p].creds}) \cup {issued'}
           \/ proc[p].step = "idle" /\ q.work = "login" /\ valid' = valid \cup {issued'}
    PROVE  CInv'
<1> DEFINE o == proc[p]
           n == issued + 1
<1>1. \A r \in Proc : proc'[r] = IF r = p THEN q ELSE proc[r]
  BY DEF CInv, CTyped, To
<1>2. /\ o \in Process /\ Shape(o) /\ life \in [Token -> 0 .. 2] /\ issued \in Nat \ {0}
      /\ n \in Token /\ store \in Token /\ valid \subseteq Token
  BY AroundProcess, CredentialsAssumption DEF CInv, CTyped, Token
<1>3. /\ store <= issued /\ \A v \in valid : v <= issued
      /\ \A r \in Proc : /\ proc[r].token <= issued /\ proc[r].creds <= issued
                         /\ proc[r].replaced <= issued /\ proc[r].reply <= issued
                         /\ proc[r].rejected <= issued
      /\ \A r \in Proc : /\ proc[r].token \in Nat /\ proc[r].creds \in Nat
                         /\ proc[r].replaced \in Nat /\ proc[r].reply \in Nat
                         /\ proc[r].rejected \in Nat
  <2>1. \A r \in Proc : proc[r] \in Process
    BY DEF CInv, CTyped
  <2>2. Token \subseteq Nat /\ Held \subseteq Nat
    BY CredentialsAssumption DEF Held, Token
  <2>3. ASSUME NEW r \in Proc
        PROVE  /\ proc[r].token \in Nat /\ proc[r].creds \in Nat
               /\ proc[r].replaced \in Nat /\ proc[r].reply \in Nat
               /\ proc[r].rejected \in Nat
    BY <2>1, <2>2 DEF Process
  <2>4. QED
    BY <2>3 DEF CInv, Bounded
<1>4. CTyped'
  <2>1. life' \in [Token -> 0 .. 2]
    BY <1>2
  <2>2. valid' \subseteq Token
    BY <1>2
  <2>3. proc' \in [Proc -> Process]
    BY DEF CInv, CTyped, To
  <2>4. QED
    BY <1>2, <2>1, <2>2, <2>3 DEF CInv, CTyped
<1>5. Alone'
  BY AloneKept
<1>6. Bounded'
  <2>1. n <= n /\ \A x \in Nat : x <= issued => x <= n
    BY <1>2
  <2>2. issued' = n /\ q.reply = n
    OBVIOUS
  <2> HIDE DEF n
  <2>3. store <= n /\ \A v \in valid : v <= n
    BY <1>2, <1>3, <2>1 DEF Token
  <2>4. \A r \in Proc : /\ proc[r].token <= n /\ proc[r].creds <= n /\ proc[r].replaced <= n
                       /\ proc[r].reply <= n /\ proc[r].rejected <= n
    BY <1>3, <2>1
  <2>5. QED
    BY <1>1, <2>1, <2>2, <2>3, <2>4 DEF Bounded
<1>7. /\ n # store /\ n \notin valid
      /\ \A r \in Proc : n \notin {proc[r].token, proc[r].creds, proc[r].replaced, proc[r].reply}
  BY <1>2, <1>3
<1>8. /\ \A r \in Proc : proc[r].reply # 0 => proc[r].reply \in valid'
      /\ n \in valid' /\ (store \in valid /\ store # o.creds => store \in valid')
      /\ \A r \in Proc : Holds(r) /\ r # p => proc[r].token \in valid'
      /\ valid \ {o.creds} \subseteq valid' /\ valid' \subseteq valid \cup {n}
  BY DEF CInv, Private, Holds
<1> HIDE DEF n
<1>9. q.reply = n
  BY DEF n
<1>10. Private'
  <2>1. ASSUME NEW r \in Proc, proc'[r].reply # 0
        PROVE  /\ proc'[r].reply \in valid' /\ proc'[r].reply # store'
               /\ \A t \in Proc :
                     /\ proc'[r].reply \notin {proc'[t].token, proc'[t].creds, proc'[t].replaced}
                     /\ proc'[t].reply = proc'[r].reply => t = r
    <3>1. CASE r = p
      BY <1>1, <1>7, <1>8, <1>9, <3>1
    <3>2. CASE r # p
      BY <1>1, <1>7, <1>8, <1>9, <2>1, <3>2 DEF CInv, Private
    <3>3. QED
      BY <3>1, <3>2
  <2>2. ASSUME NEW r \in Proc, proc'[r].unsaved
        PROVE  /\ proc'[r].token # store'
               /\ \A t \in Proc \ {r} : proc'[r].token \notin {proc'[t].token, proc'[t].creds}
    BY <1>1, <2>2 DEF CInv, Private
  <2>3. ASSUME NEW r \in Proc, proc'[r].work = "refresh", ~proc'[r].kept, proc'[r].unsaved
        PROVE  store' # proc'[r].replaced
    BY <1>1, <2>3 DEF CInv, Private
  <2>4. QED
    BY <2>1, <2>2, <2>3 DEF Private
<1>11. StoreKept'
  <2>1. CASE "lost" \in excused
    BY <2>1 DEF StoreKept
  <2>2. CASE "lost" \notin excused /\ store \in valid /\ store \in valid'
    BY <2>2 DEF StoreKept
  <2>3. CASE store \in valid /\ store \notin valid'
    \* The pair sent was the stored one: its successor is on its way.
    <3>1. store = o.creds /\ o.step = "sent" /\ q.step = "save" /\ q.work = "refresh"
      BY <1>8, <2>3
    <3>2. ~o.kept
      BY <1>2, <3>1 DEF CInv, Private, Shape
    <3>3. Brings(p)'
      BY <1>1, <1>8, <1>9, <3>1, <3>2 DEF Brings
    <3>4. QED
      BY <3>3 DEF StoreKept
  <2>4. CASE "lost" \notin excused /\ store \notin valid
    <3>1. PICK r \in Proc : Holds(r) \/ Brings(r)
      BY <2>4 DEF CInv, StoreKept
    <3>2. CASE r # p /\ Holds(r)
      <4>1. Holds(r)'
        BY <1>1, <1>8, <3>2 DEF Holds
      <4>2. QED
        BY <4>1 DEF StoreKept
    <3>3. CASE r # p /\ Brings(r)
      <4>1. proc[r].reply \in valid'
        BY <1>8, <3>3 DEF CInv, Shape, Brings
      <4>2. Brings(r)'
        BY <1>1, <3>3, <4>1 DEF Brings
      <4>3. QED
        BY <4>2 DEF StoreKept
    <3>4. CASE r = p /\ Holds(p) /\ q.step = "save" /\ q.work = "refresh"
      <4>1. o.kept
        BY <3>4 DEF CInv, Private, Holds
      <4>2. Brings(p)'
        BY <1>1, <1>8, <1>9, <3>4, <4>1 DEF Brings, Holds
      <4>3. QED
        BY <4>2 DEF StoreKept
    <3>5. CASE r = p /\ Holds(p) /\ q.work = "login"
      <4>1. Holds(p)'
        BY <1>1, <3>5 DEF Holds
      <4>2. QED
        BY <4>1 DEF StoreKept
    <3>6. ~Brings(p)
      BY DEF Brings
    <3>7. QED
      BY <3>1, <3>2, <3>3, <3>4, <3>5, <3>6
  <2>5. QED
    BY <2>1, <2>2, <2>3, <2>4
<1>12. SentStored'
  <2>1. SUFFICES ASSUME excused = {}, NEW r \in Proc
                 PROVE  /\ ~proc'[r].unsaved
                        /\ proc'[r].step = "sent" => proc'[r].creds = store /\ store \in valid'
    BY DEF SentStored
  <2>2. ~proc'[r].unsaved
    BY <1>1, <2>1 DEF CInv, SentStored
  <2>3. ASSUME proc'[r].step = "sent"
        PROVE  proc'[r].creds = store /\ store \in valid'
    <3>1. r # p /\ proc[r].creds = store /\ store \in valid
      BY <1>1, <2>1, <2>3 DEF CInv, SentStored
    <3>2. o.step # "sent"
      BY <1>1, <2>1, <2>3, <3>1, StoreUnderLock
    <3>3. QED
      BY <1>1, <3>1, <3>2
  <2>4. QED
    BY <2>2, <2>3
<1>13. \A r \in Proc : Shape(proc[r])'
  BY <1>1 DEF CInv, Shape
<1>14. QED
  BY <1>4, <1>5, <1>6, <1>10, <1>11, <1>12, <1>13 DEF CInv

LEMMA RotateInv == ASSUME CInv, NEW p \in Proc, Rotate(p) PROVE CInv'
<1> DEFINE o == proc[p]
           n == issued'
           q == [o EXCEPT !.reply = n, !.step = "save"]
<1>1. /\ o \in Process /\ Shape(o) /\ o.up /\ o.step = "sent" /\ issued < MaxTokens
      /\ UNCHANGED <<store, lock, faults, excused>>
      /\ issued' = issued + 1 /\ valid' = (valid \ {o.creds}) \cup {issued'}
      /\ life' = [life EXCEPT ![issued'] = 2]
  BY AroundProcess DEF Rotate, Issue, Runs
<1>2. To(p, q)
  BY DEF Rotate, Issue
<1>3. n \in Token /\ n \in Held /\ n # 0 /\ o.rejected # n
  BY <1>1, CredentialsAssumption DEF CInv, CTyped, Bounded, Process, Token, Held
<1> HIDE DEF n
<1>4. /\ q \in Process /\ q.step = "save" /\ q.reply = n /\ q.work = o.work /\ q.up = o.up
      /\ q.token = o.token /\ q.unsaved = o.unsaved /\ q.replaced = o.replaced
      /\ q.creds = o.creds /\ q.kept = o.kept /\ q.rejected = o.rejected
      /\ q.again = o.again /\ q.mtime = o.mtime /\ q.hb = o.hb
  BY <1>1, <1>3 DEF Process, Steps
<1> HIDE DEF q
<1>5. Shape(q) /\ q.work = "refresh" /\ o.work = "refresh" /\ o.reply = 0 /\ q.reply = issued'
  BY <1>1, <1>3, <1>4 DEF Shape, n
<1> HIDE DEF o
<1>6. QED
  BY <1>1, <1>2, <1>4, <1>5, IssuedInv DEF o

LEMMA LoginInv == ASSUME CInv, NEW p \in Proc, Login(p) PROVE CInv'
<1> DEFINE o == proc[p]
           n == issued'
           q == [o EXCEPT !.reply = n, !.step = "mkdir", !.work = "login"]
<1>1. /\ o \in Process /\ Shape(o) /\ o.up /\ o.step = "idle" /\ issued < MaxTokens
      /\ UNCHANGED <<store, lock, faults, excused>>
      /\ issued' = issued + 1 /\ valid' = valid \cup {issued'}
      /\ life' = [life EXCEPT ![issued'] = 2]
  BY AroundProcess DEF Login, Runs
<1>2. To(p, q)
  BY DEF Login
<1>3. n \in Token /\ n \in Held /\ n # 0 /\ o.rejected # n
  BY <1>1, CredentialsAssumption DEF CInv, CTyped, Bounded, Process, Token, Held
<1> HIDE DEF n
<1>4. /\ q \in Process /\ q.step = "mkdir" /\ q.reply = n /\ q.work = "login" /\ q.up = o.up
      /\ q.token = o.token /\ q.unsaved = o.unsaved /\ q.replaced = o.replaced
      /\ q.creds = o.creds /\ q.kept = o.kept /\ q.rejected = o.rejected
      /\ q.again = o.again /\ q.mtime = o.mtime /\ q.hb = o.hb
  BY <1>1, <1>3 DEF Process, Steps, Works
<1> HIDE DEF q
<1>5. Shape(q) /\ o.reply = 0 /\ q.reply = issued'
  BY <1>1, <1>3, <1>4 DEF Shape, n
<1> HIDE DEF o
<1>6. QED
  BY <1>1, <1>2, <1>4, <1>5, IssuedInv DEF o

\* The pair reached the store.
LEMMA StoredInv ==
    ASSUME CInv, NEW p \in Proc, Runs(p, "save"), store' = proc[p].reply,
           To(p, [Returned(p, proc[p].reply, FALSE) EXCEPT !.reply = 0]),
           UNCHANGED <<lock, life, valid, issued, faults, excused>>
    PROVE  CInv'
<1> DEFINE o == proc[p]
           n == o.reply
           b == Returned(p, n, FALSE)
           q == [b EXCEPT !.reply = 0]
<1>1. o \in Process /\ Shape(o) /\ o.up /\ o.step = "save" /\ n \in Held /\ n # 0 /\ 0 \in Held
  BY AroundProcess DEF Runs, Shape, Process
<1>2. /\ n # o.rejected /\ n \in valid /\ n # store /\ n \in Token /\ n <= issued /\ 0 <= issued
      /\ \A r \in Proc : /\ n \notin {proc[r].token, proc[r].creds, proc[r].replaced}
                         /\ proc[r].reply = n => r = p
  BY <1>1 DEF Shape, CInv, CTyped, Private, Bounded, Token
<1>3. Outcome(b, p, n, FALSE)
  BY <1>1, <1>2, ReturnedIs
<1>4. To(p, q)
  OBVIOUS
<1> HIDE DEF b
<1>5. /\ q \in Process /\ q.step \in {"idle", "release"} /\ q.work = "reload"
      /\ q.creds = 0 /\ ~q.kept /\ q.rejected = 0 /\ q.reply = 0 /\ q.again = o.again
      /\ q.mtime = o.mtime /\ q.hb = o.hb /\ q.up = o.up /\ q.token = n
      /\ ~q.unsaved /\ q.replaced = 0
  BY <1>1, <1>3 DEF Outcome, Process
<1> HIDE DEF q
<1>6. \A r \in Proc : proc'[r] = IF r = p THEN q ELSE proc[r]
  BY <1>4 DEF CInv, CTyped, To
<1>7. CTyped'
  BY <1>2, <1>4, <1>5 DEF CInv, CTyped, To
<1>8. Alone'
  BY <1>4, <1>5, AloneKept
<1>9. Bounded'
  <2> HIDE DEF n
  <2>1. store' = n
    BY DEF n
  <2>2. QED
    BY <1>2, <1>5, <1>6, <2>1 DEF CInv, Bounded
<1>10. Private'
  <2> HIDE DEF n
  <2>0. store' = n
    BY DEF n
  <2>1. ASSUME NEW r \in Proc, proc'[r].reply # 0
        PROVE  /\ proc'[r].reply \in valid' /\ proc'[r].reply # store'
               /\ \A t \in Proc :
                     /\ proc'[r].reply \notin {proc'[t].token, proc'[t].creds, proc'[t].replaced}
                     /\ proc'[t].reply = proc'[r].reply => t = r
    BY <1>2, <1>5, <1>6, <2>0, <2>1 DEF CInv, Private
  <2>2. ASSUME NEW r \in Proc, proc'[r].unsaved
        PROVE  /\ proc'[r].token # store'
               /\ \A t \in Proc \ {r} : proc'[r].token \notin {proc'[t].token, proc'[t].creds}
    <3>1. r # p /\ proc[r].unsaved /\ proc'[r].token = proc[r].token /\ proc[r].token # 0
      BY <1>5, <1>6, <2>2 DEF CInv, CTyped, Process, Token
    <3>2. QED
      BY <1>2, <1>5, <1>6, <2>0, <3>1 DEF CInv, Private
  <2>3. ASSUME NEW r \in Proc, proc'[r].work = "refresh", ~proc'[r].kept, proc'[r].unsaved
        PROVE  store' # proc'[r].replaced
    BY <1>2, <1>5, <1>6, <2>0, <2>3
  <2>4. QED
    BY <2>1, <2>2, <2>3 DEF Private
<1>11. StoreKept'
  BY <1>2 DEF StoreKept
<1>12. SentStored'
  <2>1. SUFFICES ASSUME excused = {}, NEW r \in Proc
                 PROVE  ~proc'[r].unsaved /\ proc'[r].step # "sent"
    BY DEF SentStored
  <2>2. proc[r].step = "sent" => r = p
    BY <1>1, <2>1, StoreUnderLock
  <2>3. ~proc[r].unsaved
    BY <2>1 DEF CInv, SentStored
  <2>4. QED
    BY <1>5, <1>6, <2>2, <2>3
<1>13. \A r \in Proc : Shape(proc[r])'
  <2>1. Shape(q)
    BY <1>1, <1>5 DEF Shape
  <2>2. QED
    BY <1>6, <2>1 DEF CInv, Shape
<1>14. QED
  BY <1>7, <1>8, <1>9, <1>10, <1>11, <1>12, <1>13 DEF CInv

\* The pair did not reach the store: the session holds it in place of the pair
\* there.
LEMMA UnsavedInv ==
    ASSUME CInv, NEW p \in Proc, Runs(p, "save"), proc[p].work = "refresh",
           To(p, [Returned(p, proc[p].reply, TRUE) EXCEPT
                    !.reply    = 0,
                    !.replaced = IF proc[p].kept THEN @ ELSE proc[p].creds]),
           UNCHANGED <<store, lock, life, valid, issued>>, Fault,
           excused' = excused \cup {"unsaved"}
    PROVE  CInv'
<1> DEFINE o == proc[p]
           n == o.reply
           b == Returned(p, n, TRUE)
           q == [b EXCEPT !.reply = 0, !.replaced = IF o.kept THEN @ ELSE o.creds]
<1>1. o \in Process /\ Shape(o) /\ o.up /\ o.step = "save" /\ n \in Held /\ n # 0 /\ 0 \in Held
  BY AroundProcess DEF Runs, Shape, Process
<1>2. /\ n # o.rejected /\ n \in valid /\ n # store /\ n \in Token /\ n <= issued /\ 0 <= issued
      /\ \A r \in Proc : /\ n \notin {proc[r].token, proc[r].creds, proc[r].replaced}
                         /\ proc[r].reply = n => r = p
  BY <1>1 DEF Shape, CInv, CTyped, Private, Bounded, Token
<1>3. Outcome(b, p, n, TRUE)
  BY <1>1, <1>2, ReturnedIs
<1>4. To(p, q)
  OBVIOUS
<1> HIDE DEF b
<1>5. /\ q \in Process /\ q.step \in {"idle", "release"} /\ q.work = "reload"
      /\ q.creds = 0 /\ ~q.kept /\ q.rejected = 0 /\ q.reply = 0 /\ q.again = o.again
      /\ q.mtime = o.mtime /\ q.hb = o.hb /\ q.up = o.up /\ q.token = n
      /\ q.unsaved = TRUE /\ q.replaced = IF o.kept THEN o.replaced ELSE o.creds
  BY <1>1, <1>3 DEF Outcome, Process
<1> HIDE DEF q
<1>6. \A r \in Proc : proc'[r] = IF r = p THEN q ELSE proc[r]
  BY <1>4 DEF CInv, CTyped, To
<1>7. CTyped'
  <2>1. /\ faults' \in 0 .. MaxFaults /\ excused' \subseteq {"lost", "unsaved", "broken"}
    BY AroundProcess, FaultBounded
  <2>2. QED
    BY <1>4, <1>5, <2>1 DEF CInv, CTyped, To
<1>8. Alone'
  BY <1>4, <1>5, AloneKept
<1>9. Bounded'
  BY <1>2, <1>5, <1>6 DEF CInv, Bounded
<1> HIDE DEF n
<1>10. Private'
  <2>1. ASSUME NEW r \in Proc, proc'[r].reply # 0
        PROVE  /\ proc'[r].reply \in valid' /\ proc'[r].reply # store'
               /\ \A t \in Proc :
                     /\ proc'[r].reply \notin {proc'[t].token, proc'[t].creds, proc'[t].replaced}
                     /\ proc'[t].reply = proc'[r].reply => t = r
    <3>1. r # p /\ proc'[r] = proc[r] /\ proc[r].reply # n
      BY <1>2, <1>5, <1>6, <2>1
    <3>2. QED
      BY <1>5, <1>6, <2>1, <3>1 DEF CInv, Private
  <2>2. ASSUME NEW r \in Proc, proc'[r].unsaved
        PROVE  /\ proc'[r].token # store'
               /\ \A t \in Proc \ {r} : proc'[r].token \notin {proc'[t].token, proc'[t].creds}
    <3>1. CASE r = p
      BY <1>2, <1>5, <1>6, <3>1
    <3>2. CASE r # p
      <4>1. proc[r].unsaved /\ proc'[r].token = proc[r].token /\ proc[r].token # 0
        BY <1>6, <2>2, <3>2 DEF CInv, CTyped, Process, Token
      <4>2. QED
        BY <1>2, <1>5, <1>6, <3>2, <4>1 DEF CInv, Private
    <3>3. QED
      BY <3>1, <3>2
  <2>3. ASSUME NEW r \in Proc, proc'[r].work = "refresh", ~proc'[r].kept, proc'[r].unsaved
        PROVE  store' # proc'[r].replaced
    BY <1>5, <1>6, <2>3 DEF CInv, Private
  <2>4. QED
    BY <2>1, <2>2, <2>3 DEF Private
<1>11. StoreKept'
  <2>1. CASE "lost" \in excused
    BY <2>1 DEF StoreKept
  <2>2. CASE store \in valid
    BY <2>2 DEF StoreKept
  <2>3. CASE "lost" \notin excused /\ store \notin valid
    <3>1. PICK r \in Proc : Holds(r) \/ Brings(r)
      BY <2>3 DEF CInv, StoreKept
    <3>2. CASE r # p
      <4>1. Holds(r)' \/ Brings(r)'
        BY <1>6, <3>1, <3>2 DEF Holds, Brings
      <4>2. QED
        BY <4>1 DEF StoreKept
    <3>3. CASE r = p
      <4>1. store = q.replaced
        BY <1>5, <3>1, <3>3 DEF CInv, Private, Holds, Brings
      <4>2. Holds(p)'
        BY <1>2, <1>5, <1>6, <4>1 DEF Holds
      <4>3. QED
        BY <4>2 DEF StoreKept
    <3>4. QED
      BY <3>2, <3>3
  <2>4. QED
    BY <2>1, <2>2, <2>3
<1>12. SentStored'
  BY DEF SentStored
<1>13. \A r \in Proc : Shape(proc[r])'
  <2>1. Shape(q)
    BY <1>1, <1>5 DEF Shape
  <2>2. QED
    BY <1>6, <2>1 DEF CInv, Shape
<1>14. QED
  BY <1>7, <1>8, <1>9, <1>10, <1>11, <1>12, <1>13 DEF CInv

LEMMA SaveInv == ASSUME CInv, NEW p \in Proc, Save(p) PROVE CInv'
<1>1. Runs(p, "save") /\ UNCHANGED <<lock, life, valid, issued>>
  BY DEF Save
<1>2. CASE /\ store' = proc[p].reply /\ UNCHANGED <<faults, excused>>
           /\ To(p, [Returned(p, proc[p].reply, FALSE) EXCEPT !.reply = 0])
  BY <1>1, <1>2, StoredInv
<1>3. CASE /\ Fault /\ proc[p].work = "refresh" /\ UNCHANGED store
           /\ excused' = excused \cup {"unsaved"}
           /\ To(p, [Returned(p, proc[p].reply, TRUE) EXCEPT
                       !.reply    = 0,
                       !.replaced = IF proc[p].kept THEN @ ELSE proc[p].creds])
  BY <1>1, <1>3, UnsavedInv
<1>4. CASE /\ Fault /\ proc[p].work = "login" /\ UNCHANGED <<store, excused>>
           /\ To(p, [Returned(p, 0, FALSE) EXCEPT !.reply = 0])
  <2>1. proc[p].up /\ faults' \in 0 .. MaxFaults /\ proc[p].work # "refresh"
    BY <1>1, <1>4, FaultBounded DEF Runs
  <2>2. QED
    BY <1>1, <1>4, <2>1, AroundProcess, ReturnInv
<1>5. QED
  BY <1>2, <1>3, <1>4 DEF Save

-----------------------------------------------------------------------------
(***************************************************************************)
(* The invariant and what follows from it                                  *)
(***************************************************************************)
LEMMA LoginInitInv == CInit => CInv
<1> SUFFICES ASSUME CInit PROVE CInv
  OBVIOUS
<1>1. 1 \in Token /\ 1 \in Nat /\ 0 \in Nat
  BY CredentialsAssumption DEF Token
<1>2. \A p \in Proc :
         LET q == Fresh(p) IN
         /\ q \in Process /\ q.step = "idle" /\ q.work = "reload" /\ q.token = store
         /\ q.up = TRUE /\ q.unsaved = FALSE /\ q.replaced = 0 /\ q.creds = 0
         /\ q.kept = FALSE /\ q.reply = 0 /\ q.rejected = 0 /\ q.mtime = 0
         /\ q.hb = FALSE /\ q.again = FALSE
  BY <1>1, FreshIs DEF CInit
<1>3. \A p \in Proc : proc[p] = Fresh(p)
  BY DEF CInit
<1>4. \A p \in Proc :
         /\ proc[p] \in Process /\ proc[p].step = "idle" /\ proc[p].work = "reload"
         /\ proc[p].token = 1 /\ proc[p].up = TRUE /\ proc[p].unsaved = FALSE
         /\ proc[p].replaced = 0 /\ proc[p].creds = 0 /\ proc[p].kept = FALSE
         /\ proc[p].reply = 0 /\ proc[p].rejected = 0 /\ proc[p].mtime = 0
         /\ proc[p].hb = FALSE /\ proc[p].again = FALSE
  BY <1>2, <1>3 DEF CInit
<1>5. CTyped
  <2>1. proc \in [Proc -> Process]
    BY <1>4 DEF CInit
  <2>2. life \in [Token -> 0 .. 2]
    BY DEF CInit
  <2>3. QED
    BY <1>1, <2>1, <2>2, CredentialsAssumption DEF CInit, CTyped, NoLock
<1>6. Alone /\ Private /\ StoreKept /\ SentStored
  BY <1>4 DEF CInit, Alone, Private, StoreKept, SentStored
<1>7. Bounded
  BY <1>4 DEF CInit, Bounded
<1>8. \A p \in Proc : Shape(proc[p])
  BY <1>4 DEF Shape
<1>9. QED
  BY <1>5, <1>6, <1>7, <1>8 DEF CInv

LEMMA LoginNextInv == CInv /\ [CNext]_cvars => CInv'
<1> SUFFICES ASSUME CInv, [CNext]_cvars PROVE CInv'
  OBVIOUS
<1>1. CASE UNCHANGED cvars
  BY <1>1 DEF cvars, CInv, CTyped, Alone, Bounded, Private, StoreKept, Holds, Brings, SentStored,
              Shape
<1>2. ASSUME NEW p \in Proc, Begin(p) \/ Load(p) \/ Fallback(p) \/ Reload(p)
      PROVE  CInv'
  BY <1>2, BeginInv, LoadInv, FallbackInv, ReloadInv
<1>3. ASSUME NEW p \in Proc,
             \/ Mkdir(p) \/ MkdirFails(p) \/ Wait(p) \/ Remove(p) \/ Release(p)
             \/ Heartbeat(p) \/ Touch(p)
      PROVE  CInv'
  BY <1>3, MkdirInv, MkdirFailsInv, WaitLockInv, RemoveInv, ReleaseInv, HeartbeatInv, TouchInv
<1>4. ASSUME NEW p \in Proc, Rotate(p) \/ Reject(p) \/ Lose(p) \/ Save(p) \/ Login(p)
      PROVE  CInv'
  BY <1>4, RotateInv, RejectInv, LoseInv, SaveInv, LoginInv
<1>5. ASSUME NEW p \in Proc, Suspend(p) \/ Wake(p) \/ Die(p) \/ Leave(p) \/ Launch(p)
      PROVE  CInv'
  BY <1>5, SleepInv, DieLeaveInv, LaunchInv
<1>6. CASE GoStale \/ Age
  BY <1>6, GoStaleInv, AgeInv
<1>7. QED
  BY <1>1, <1>2, <1>3, <1>4, <1>5, <1>6 DEF CNext

\* Every state of the stored login satisfies the invariant: its lock, the pairs
\* its processes hold and what the server accepts fit together.
THEOREM LoginInductive == CSpec => []CInv
<1>1. CInit => CInv
  BY LoginInitInv
<1>2. CInv /\ [CNext]_cvars => CInv'
  BY LoginNextInv
<1>3. QED
  BY <1>1, <1>2, PTL DEF CSpec

\* The credential lock admits one process to the stored token at a time, through
\* waits, deadlines, stale locks and takeovers, while no live holder's lock is
\* removed (oauth/lock.rs).
THEOREM LockAlwaysGuards == CSpec => []LockGuards
<1>1. CInv => LockGuards
  <2> SUFFICES ASSUME CInv PROVE LockGuards
    OBVIOUS
  <2>1. CredentialsTypeOK
    <3>1. \A p \in Proc : proc[p] \in Process
      BY DEF CInv, CTyped
    <3>2. Token \subseteq Held
      BY CredentialsAssumption DEF Held, Token
    <3>3. QED
      BY <3>1, <3>2 DEF CInv, CTyped, CredentialsTypeOK, Process
  <2>2. OneWriter
    <3> DEFINE W == {p \in Proc : proc[p].step \in {"reload", "sent", "save"}}
    <3>1. SUFFICES ASSUME "broken" \notin excused
                   PROVE  Cardinality(W) <= 1
      BY DEF OneWriter
    <3>2. \A p, q \in W : p = q
      BY <3>1 DEF CInv, Alone, Shape
    <3> HIDE DEF W
    <3>3. CASE W = {}
      BY <3>3, FS_EmptySet
    <3>4. CASE W # {}
      <4>1. PICK p \in W : W = {p}
        BY <3>2, <3>4
      <4>2. Cardinality({p}) = 1
        BY FS_Singleton
      <4>3. QED
        BY <4>1, <4>2
    <3>5. QED
      BY <3>3, <3>4
  <2>3. QED
    BY <2>1, <2>2 DEF LockGuards
<1>2. QED
  BY <1>1, LoginInductive, PTL

\* No refresh token the server accepts is lost but by an answer that never came
\* or a process that died with it (auth/oauth.rs).
THEOREM LoginAlwaysKept == CSpec => []LoginKept
<1>1. CInv => LoginKept
  <2> SUFFICES ASSUME CInv, "lost" \notin excused, store \notin valid
               PROVE  \E p \in Proc : proc[p].up /\
                         \/ Prefers(p) /\ proc[p].token \in valid
                         \/ proc[p].work = "refresh" /\ proc[p].reply \in valid
    BY DEF LoginKept
  <2>1. PICK p \in Proc : Holds(p) \/ Brings(p)
    BY DEF CInv, StoreKept
  <2>2. Shape(proc[p])
    BY DEF CInv
  <2>3. proc[p].up
    BY <2>1, <2>2 DEF Shape, Holds, Brings
  <2>4. QED
    BY <2>1, <2>3 DEF Holds, Brings, Prefers
<1>2. QED
  BY <1>1, LoginInductive, PTL

\* With no fault behind it a reload sends only a token the server accepts, and it
\* never answers with the token the API rejected (auth/oauth.rs).
THEOREM ReloadAlwaysSound == CSpec => []ReloadSound
<1>1. CInv => ReloadSound
  BY DEF CInv, SentStored, Shape, ReloadSound, SpentNeverSent, RejectedReplaced
<1>2. QED
  BY <1>1, LoginInductive, PTL

\* The stored login is neither lost nor spent twice by refreshes, logins and reloads
\* of several processes (auth/oauth.rs).
THEOREM LoginAlwaysSafe == CSpec => []LoginSafe
<1>1. LoginKept /\ ReloadSound => LoginSafe
  BY DEF LoginSafe
<1>2. QED
  BY <1>1, LoginAlwaysKept, ReloadAlwaysSound, PTL
=============================================================================
