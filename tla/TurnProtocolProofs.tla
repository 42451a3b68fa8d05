------------------------- MODULE TurnProtocolProofs -------------------------
(***************************************************************************)
(* Proofs about TurnProtocol for any prompts, modes, channel size and      *)
(* number of rounds and ops.  The UI and the engine agree on the operation *)
(* in flight, and the permission mode enforced is the one asked for: FInv  *)
(* places the operation in flight, with what is said of it and the         *)
(* interrupts pressed for it, in the two channels and the engine, and      *)
(* chains the modes from the one shown, over the events, the engine and    *)
(* the ops, to the one requested.  The queue agrees with what is still to  *)
(* be said of it: AInv chains the forwarded prompts, over the events, the  *)
(* engine's mailbox and the op channel, in queue order.                    *)
(***************************************************************************)
EXTENDS TurnProtocol, TLAPS, SequenceTheorems, WellFoundedInduction

UIs ==
  [queue : Queues, op : IdleOnly \cup {"none"}, id : Nat,
   activity : {"none", "running", "compacting", "cancelling"}, input : Prompt \cup {NoPrompt},
   epoch : Nat, modal : Modals, awaits : BOOLEAN, requested : Mode, shown : Mode,
   nextId : Nat \ {0}]

Engines ==
  [phase : Phases, id : Nat, op : IdleOnly \cup {"none"}, prompt : Prompt \cup {NoPrompt},
   mailbox : Seq(Prompt), mode : Mode \cup {NoMode}, policy : Mode, round : Nat, mark : Nat,
   session : Nat]

Submissions ==
  {s \in [op : OpKinds, id : Nat \ {0}, prompt : Prompt \cup {NoPrompt}, mode : Mode \cup {NoMode}] :
     /\ s.op = "Queue" => s.prompt \in Prompt
     /\ s.op = "SetMode" => s.mode \in Mode}

EventKinds ==
  {"Token", "PromptDrained", "TurnRolledBack", "PromptUnsent", "AutoCompactionStarted",
   "SessionCompacted", "SessionCompactedMidTurn", "SessionRolled", "SessionResumed", "SavedFound",
   "ModeChanged", "OpEnded"}

EventRecs ==
  {e \in [ev : EventKinds, id : Nat, end : Ends \cup {"none"}, prompt : Prompt \cup {NoPrompt},
          mode : Mode \cup {NoMode}] :
     e.ev = "ModeChanged" => e.mode \in Mode}

Entries == [prompt : Prompt \cup {NoPrompt}, session : Nat]

\* An operation says these of itself, before its end.
Own(e) == e.ev \notin {"OpEnded", "ModeChanged"}

Typed ==
  /\ tui \in UIs /\ engine \in Engines
  /\ ops \in Seq(Submissions) /\ Len(ops) <= OpCap /\ events \in Seq(EventRecs)
  /\ said \in Seq(Entries) /\ engine.mark <= Len(said)

\* The positions of the idle-only ops in the channel, and of the end of the UI's operation.
Asks(os)    == {i \in DOMAIN os : os[i].op \in IdleOnly}
EndsAt(t, es) == {i \in DOMAIN es : es[i].ev = "OpEnded" /\ es[i].id = t.id}

\* Every submission has an id of its own, below the next one.
Numbered(t, os, es) ==
  /\ t.op = "none" <=> t.id = 0
  /\ t.id < t.nextId
  /\ \A i \in DOMAIN os : os[i].id < t.nextId
  /\ \A i \in DOMAIN os : os[i].op \notin IdleOnly => os[i].id # t.id
  /\ \A i \in DOMAIN es : es[i].ev = "OpEnded" => es[i].id \in 1 .. t.nextId - 1

\* The operation in flight is in the op channel, with the engine, or over, and nowhere twice.
Stages(t, e, os, es) ==
  /\ \A i \in Asks(os) : os[i].id = t.id /\ os[i].op = t.op
  /\ \A i, j \in Asks(os) : i = j
  /\ e.phase # "idle" => e.id = t.id /\ e.op = t.op /\ Busy(t) /\ Asks(os) = {}
  /\ EndsAt(t, es) # {} => e.phase = "idle" /\ Asks(os) = {}
  /\ Busy(t) => Asks(os) # {} \/ e.phase # "idle" \/ EndsAt(t, es) # {}

\* What an operation says of itself is read before its end.
Tells(t, e, es) ==
  /\ \A i \in EndsAt(t, es) : \A j \in DOMAIN es : j > i => ~Own(es[j]) /\ j \notin EndsAt(t, es)
  /\ \A i \in DOMAIN es :
       Own(es[i]) => /\ Busy(t) /\ (e.phase # "idle" \/ EndsAt(t, es) # {})
                     /\ es[i].ev = "SavedFound" => t.op = "FindSaved"

\* An interrupt reaches no operation but the one it was pressed for.
Interrupts(t, e, os) ==
  \A j \in DOMAIN os :
    os[j].op = "Interrupt" /\ (e.phase # "idle" \/ \E i \in Asks(os) : i < j) =>
      t.activity = "cancelling"

Flight(t, e, os, es) ==
  Numbered(t, os, es) /\ Stages(t, e, os, es) /\ Tells(t, e, es) /\ Interrupts(t, e, os)

Resting == engine.phase \in {"idle", "local"} => engine.mode = NoMode

\* The mode the last of `s` brings, or `m`.
Brings(s, at, m, last) ==
  \/ at = {} /\ last = m
  \/ \E i \in at : last = s[i].mode /\ \A j \in at : j <= i

ModesOf(os)  == {i \in DOMAIN os : os[i].op = "SetMode"}
ShownBy(es)  == {i \in DOMAIN es : es[i].ev = "ModeChanged"}
Effective(e) == IF e.mode = NoMode THEN e.policy ELSE e.mode

\* From the mode shown, over the events, the engine and the ops, to the mode asked for.
Followed ==
  /\ Brings(events, ShownBy(events), tui.shown, Effective(engine))
  /\ Brings(ops, ModesOf(ops), Effective(engine), tui.requested)

FInv == Typed /\ Flight(tui, engine, ops, events) /\ Resting /\ Followed /\ ModalHasEngine

----------------------------------------------------------------------------
(* Sequences *)

\* `d` is `s` without its head.
Behead(s, d) ==
  /\ 1 \in DOMAIN s
  /\ \A i \in DOMAIN d : i \in Nat /\ i >= 1 /\ i + 1 \in DOMAIN s /\ d[i] = s[i + 1]
  /\ \A i \in DOMAIN s : i \in Nat /\ (i = 1 \/ (i > 1 /\ i - 1 \in DOMAIN d /\ s[i] = d[i - 1]))

LEMMA TailFacts ==
  ASSUME NEW S, NEW s \in Seq(S), s # <<>>
  PROVE  Tail(s) \in Seq(S) /\ Head(s) \in S /\ Head(s) = s[1] /\ Behead(s, Tail(s))
         /\ Len(Tail(s)) = Len(s) - 1
<1> DEFINE d == Tail(s)
           n == Len(s)
<1>1. /\ d \in Seq(S) /\ n \in Nat /\ n >= 1 /\ Len(d) = n - 1
      /\ \A i \in 1..n - 1 : d[i] = s[i + 1]
      /\ Head(s) = s[1] /\ s[1] \in S
      /\ DOMAIN s = 1..n
  OBVIOUS
<1>2. DOMAIN d = 1..n - 1
  BY <1>1
<1> HIDE DEF d, n
<1>3. \A i \in 1..n : i \in Nat /\ (i = 1 \/ (i > 1 /\ i - 1 \in 1..n - 1 /\ i = (i - 1) + 1))
  BY <1>1
<1>4. \A i \in 1..n : i \in Nat /\ (i = 1 \/ (i > 1 /\ i - 1 \in 1..n - 1 /\ s[i] = d[i - 1]))
  BY <1>1, <1>3
<1>5. \A i \in 1..n - 1 : i \in Nat /\ i >= 1 /\ i + 1 \in 1..n
  BY <1>1
<1>6. 1 \in 1..n
  BY <1>1
<1>7. Behead(s, d)
  BY <1>1, <1>2, <1>4, <1>5, <1>6 DEF Behead
<1>8. QED
  BY <1>1, <1>7 DEF d, n

\* `d` is `s` and then `q`, and `n` the length of `s`.
Joined(s, q, d, n) ==
  /\ n \in Nat
  /\ \A i \in DOMAIN s : i \in 1..n /\ i \in DOMAIN d /\ d[i] = s[i]
  /\ \A i \in DOMAIN q : i \in Nat /\ i >= 1 /\ n + i \in DOMAIN d /\ d[n + i] = q[i]
  /\ \A i \in DOMAIN d : i \in Nat /\ (\/ i \in DOMAIN s /\ i <= n
                                       \/ i > n /\ i - n \in DOMAIN q /\ d[i] = q[i - n])

LEMMA ConcatFacts ==
  ASSUME NEW S, NEW s \in Seq(S), NEW q \in Seq(S)
  PROVE  s \o q \in Seq(S) /\ Joined(s, q, s \o q, Len(s)) /\ Len(s \o q) = Len(s) + Len(q)
<1> DEFINE d == s \o q
           n == Len(s)
           m == Len(q)
<1>1. /\ d \in Seq(S) /\ n \in Nat /\ m \in Nat /\ Len(d) = n + m
      /\ \A i \in 1..n + m : d[i] = IF i <= n THEN s[i] ELSE q[i - n]
      /\ DOMAIN s = 1..n /\ DOMAIN q = 1..m /\ DOMAIN d = 1..n + m
  BY ConcatProperties, LenProperties
<1> HIDE DEF d, n, m
<1>2. \A i \in 1..n : i \in 1..n + m /\ d[i] = s[i]
  BY <1>1
<1>3. \A i \in 1..m : i \in Nat /\ i >= 1 /\ n + i \in 1..n + m /\ ~(n + i <= n) /\ (n + i) - n = i
  BY <1>1
<1>4. \A i \in 1..m : d[n + i] = q[i]
  BY <1>1, <1>3
<1>5. \A i \in 1..n + m : i \in Nat /\ ((i \in 1..n /\ i <= n) \/ (i > n /\ i - n \in 1..m))
  <2>1. n \in Nat /\ m \in Nat
    BY <1>1
  <2>2. TAKE i \in 1..n + m
  <2>3. CASE i <= n
    BY <2>1, <2>3
  <2>4. CASE i > n
    BY <2>1, <2>4
  <2>5. QED
    BY <2>1, <2>3, <2>4
<1>6. \A i \in 1..n + m : i > n => d[i] = q[i - n]
  BY <1>1
<1>7. Joined(s, q, d, n)
  BY <1>1, <1>2, <1>3, <1>4, <1>5, <1>6 DEF Joined
<1>8. QED
  BY <1>1, <1>7 DEF d, n, m

LEMMA OneFacts ==
  ASSUME NEW S, NEW s \in Seq(S), NEW x \in S
  PROVE  s \o <<x>> \in Seq(S) /\ Joined(s, <<x>>, s \o <<x>>, Len(s))
         /\ Len(s \o <<x>>) = Len(s) + 1 /\ DOMAIN <<x>> = {1} /\ <<x>>[1] = x
<1>1. <<x>> \in Seq(S) /\ Len(<<x>>) = 1 /\ DOMAIN <<x>> = {1} /\ <<x>>[1] = x
  OBVIOUS
<1>2. QED
  BY <1>1, ConcatFacts

----------------------------------------------------------------------------
(* The operation in flight, as the UI's passes move it *)

\* The UI goes on with its operation, and sends what no operation starts with.
Keeps(t, u, q) ==
  /\ u.op = t.op /\ u.id = t.id /\ u.nextId >= t.nextId
  /\ \A k \in DOMAIN q :
       /\ q[k].op \notin IdleOnly /\ q[k].id \in t.nextId..u.nextId - 1
       /\ q[k].op = "Interrupt" => u.activity = "cancelling"
  /\ Busy(t) /\ t.activity = "cancelling" => u.activity = "cancelling"

LEMMA FlightKept ==
  ASSUME NEW t \in UIs, NEW u \in UIs, NEW e \in Engines, NEW os \in Seq(Submissions),
         NEW es \in Seq(EventRecs), NEW q \in Seq(Submissions),
         Flight(t, e, os, es), Keeps(t, u, q)
  PROVE  Flight(u, e, os \o q, es)
<1> DEFINE d == os \o q
           n == Len(os)
<1>1. d \in Seq(Submissions) /\ Joined(os, q, d, n)
  BY ConcatFacts
<1>2. /\ t.op \in IdleOnly \cup {"none"} /\ t.id \in Nat /\ t.nextId \in Nat /\ u.nextId \in Nat
      /\ t.nextId >= 1
  BY DEF UIs
<1>3. u.op = t.op /\ u.id = t.id /\ u.nextId >= t.nextId
  BY DEF Keeps
<1>4. Numbered(t, os, es) /\ Stages(t, e, os, es) /\ Tells(t, e, es) /\ Interrupts(t, e, os)
  BY DEF Flight
<1> HIDE DEF d, n
<1>5. EndsAt(u, es) = EndsAt(t, es)
  BY <1>3 DEF EndsAt
<1>6. Asks(d) = Asks(os)
  BY <1>1 DEF Joined, Asks, Keeps
<1>7. Numbered(u, d, es)
  <2>1. \A i \in DOMAIN os : os[i].id \in Nat
    BY ElementOfSeq, LenProperties DEF Submissions
  <2>2. \A i \in DOMAIN d : d[i].id < u.nextId /\ (d[i].op \notin IdleOnly => d[i].id # u.id)
    <3>1. TAKE i \in DOMAIN d
    <3>2. CASE i \in DOMAIN os
      BY <1>1, <1>2, <1>3, <1>4, <2>1, <3>2 DEF Joined, Numbered
    <3>3. CASE i > n /\ i - n \in DOMAIN q /\ d[i] = q[i - n]
      <4>1. d[i].id \in t.nextId..u.nextId - 1
        BY <3>3 DEF Keeps
      <4>2. t.id < t.nextId
        BY <1>4 DEF Numbered
      <4>3. QED
        BY <1>2, <1>3, <4>1, <4>2
    <3>4. QED
      BY <1>1, <3>2, <3>3 DEF Joined
  <2>3. \A i \in DOMAIN es : es[i].ev = "OpEnded" => es[i].id \in 1..u.nextId - 1
    BY <1>2, <1>3, <1>4 DEF Numbered
  <2>4. (u.op = "none" <=> u.id = 0) /\ u.id < u.nextId
    BY <1>2, <1>3, <1>4 DEF Numbered
  <2>5. QED
    BY <2>2, <2>3, <2>4 DEF Numbered
<1>8. Stages(u, e, d, es)
  <2>1. \A i \in Asks(os) : d[i] = os[i]
    BY <1>1 DEF Asks, Joined
  <2>2. QED
    BY <1>3, <1>4, <1>5, <1>6, <2>1 DEF Stages, Busy
<1>9. Tells(u, e, es)
  BY <1>3, <1>4, <1>5 DEF Tells, Busy
<1>10. Interrupts(u, e, d)
  <2>1. SUFFICES ASSUME NEW j \in DOMAIN d, d[j].op = "Interrupt",
                        e.phase # "idle" \/ \E i \in Asks(d) : i < j
                 PROVE  u.activity = "cancelling"
    BY DEF Interrupts
  <2>2. Busy(t)
    <3>1. \A i \in Asks(os) : t.op \in IdleOnly
      BY <1>4 DEF Stages, Asks
    <3>2. QED
      BY <1>4, <1>6, <2>1, <3>1 DEF Stages, Busy, IdleOnly, LocalOps, Switches
  <2>3. CASE j \in DOMAIN os
    BY <1>1, <1>4, <1>6, <2>1, <2>2, <2>3 DEF Interrupts, Joined, Keeps
  <2>4. CASE j - n \in DOMAIN q /\ d[j] = q[j - n]
    BY <2>1, <2>4 DEF Keeps
  <2>5. QED
    BY <1>1, <2>3, <2>4 DEF Joined
<1>11. QED
  BY <1>7, <1>8, <1>9, <1>10 DEF Flight, d

\* An idle UI starts an operation.
Begins(t, u, s) ==
  /\ t.op = "none" /\ s.op \in IdleOnly
  /\ u.op = s.op /\ u.id = s.id /\ s.id = t.nextId /\ u.nextId = t.nextId + 1

LEMMA FlightBegins ==
  ASSUME NEW t \in UIs, NEW u \in UIs, NEW e \in Engines, NEW os \in Seq(Submissions),
         NEW es \in Seq(EventRecs), NEW s \in Submissions,
         Flight(t, e, os, es), Begins(t, u, s)
  PROVE  Flight(u, e, os \o <<s>>, es)
<1> DEFINE d == os \o <<s>>
           n == Len(os)
           q == <<s>>
<1>1. /\ d \in Seq(Submissions) /\ Joined(os, q, d, n) /\ DOMAIN q = {1} /\ q[1] = s
  BY OneFacts
<1>2. /\ t.id \in Nat /\ t.nextId \in Nat /\ t.nextId >= 1 /\ u.nextId \in Nat /\ n \in Nat
  BY DEF UIs
<1>3. /\ t.op = "none" /\ s.op \in IdleOnly
      /\ u.op = s.op /\ u.id = s.id /\ s.id = t.nextId /\ u.nextId = t.nextId + 1
  BY DEF Begins
<1>4. Numbered(t, os, es) /\ Stages(t, e, os, es) /\ Tells(t, e, es) /\ Interrupts(t, e, os)
  BY DEF Flight
<1> HIDE DEF d, n, q
<1>5. Asks(os) = {} /\ e.phase = "idle"
  <2>1. "none" \notin IdleOnly
    BY DEF IdleOnly, LocalOps, Switches
  <2>2. QED
    BY <1>3, <1>4, <2>1 DEF Stages, Busy, Asks
<1>6. /\ n + 1 \in DOMAIN d /\ d[n + 1] = s
      /\ \A i \in DOMAIN d : i = n + 1 \/ (i \in DOMAIN os /\ i <= n /\ d[i] = os[i])
  <2>1. \A i \in DOMAIN d : i > n /\ i - n = 1 /\ i \in Nat => i = n + 1
    BY <1>2
  <2>2. QED
    BY <1>1, <1>2, <2>1 DEF Joined
<1>7. Asks(d) = {n + 1}
  BY <1>3, <1>5, <1>6 DEF Asks
<1>8. \A i \in DOMAIN es : es[i].ev = "OpEnded" => es[i].id \in Nat /\ es[i].id < t.nextId
  BY <1>2, <1>4 DEF Numbered
<1>9. EndsAt(u, es) = {}
  BY <1>2, <1>3, <1>8 DEF EndsAt
<1>10. \A i \in DOMAIN es : ~Own(es[i])
  BY <1>3, <1>4 DEF Tells, Busy
<1>11. Numbered(u, d, es)
  <2>1. \A i \in DOMAIN os : os[i].id \in Nat /\ os[i].id < t.nextId
    BY <1>4, ElementOfSeq, LenProperties DEF Submissions, Numbered
  <2>2. \A i \in DOMAIN d : d[i].id < u.nextId /\ (d[i].op \notin IdleOnly => d[i].id # u.id)
    <3>1. TAKE i \in DOMAIN d
    <3>2. CASE i = n + 1
      BY <1>2, <1>3, <1>6, <3>2
    <3>3. CASE i \in DOMAIN os /\ d[i] = os[i]
      BY <1>2, <1>3, <2>1, <3>3
    <3>4. QED
      BY <1>6, <3>2, <3>3
  <2>3. \A i \in DOMAIN es : es[i].ev = "OpEnded" => es[i].id \in 1..u.nextId - 1
    BY <1>2, <1>3, <1>4 DEF Numbered
  <2>4. (u.op = "none" <=> u.id = 0) /\ u.id < u.nextId
    BY <1>2, <1>3 DEF IdleOnly, LocalOps, Switches
  <2>5. QED
    BY <2>2, <2>3, <2>4 DEF Numbered
<1>12. Stages(u, e, d, es)
  BY <1>3, <1>5, <1>6, <1>7, <1>9 DEF Stages, Busy
<1>13. Tells(u, e, es)
  BY <1>9, <1>10 DEF Tells
<1>14. Interrupts(u, e, d)
  <2>1. ASSUME NEW j \in DOMAIN d, d[j].op = "Interrupt" PROVE j <= n /\ j \in Nat
    <3>1. d[j].op \notin IdleOnly
      BY <2>1 DEF IdleOnly, LocalOps, Switches
    <3>2. QED
      BY <1>1, <1>3, <1>6, <2>1, <3>1 DEF Joined
  <2>2. \A j \in DOMAIN d : d[j].op = "Interrupt" => ~(\E i \in Asks(d) : i < j)
    BY <1>2, <1>7, <2>1
  <2>3. QED
    BY <1>5, <2>2 DEF Interrupts
<1>15. QED
  BY <1>11, <1>12, <1>13, <1>14 DEF Flight, d, q

----------------------------------------------------------------------------
(* The operation in flight, as the events are read *)

\* The UI reads what does not end its operation.
LEMMA FlightReads ==
  ASSUME NEW t \in UIs, NEW e \in Engines, NEW os \in Seq(Submissions),
         NEW es \in Seq(EventRecs), es # <<>>, 1 \notin EndsAt(t, es), Flight(t, e, os, es)
  PROVE  Flight(t, e, os, Tail(es))
<1> DEFINE d == Tail(es)
<1>1. d \in Seq(EventRecs) /\ Behead(es, d)
  BY TailFacts
<1>2. Numbered(t, os, es) /\ Stages(t, e, os, es) /\ Tells(t, e, es) /\ Interrupts(t, e, os)
  BY DEF Flight
<1> HIDE DEF d
<1>3. \A i \in DOMAIN d : i \in EndsAt(t, d) <=> i + 1 \in EndsAt(t, es)
  BY <1>1 DEF EndsAt, Behead
<1>4. EndsAt(t, es) # {} <=> EndsAt(t, d) # {}
  <2>1. \A i \in EndsAt(t, es) : i - 1 \in DOMAIN d /\ (i - 1) + 1 = i
    BY <1>1 DEF EndsAt, Behead
  <2>2. \A i \in EndsAt(t, d) : i \in DOMAIN d
    BY DEF EndsAt
  <2>3. QED
    BY <1>3, <2>1, <2>2
<1>5. Numbered(t, os, d)
  BY <1>1, <1>2 DEF Numbered, Behead
<1>6. Stages(t, e, os, d)
  BY <1>2, <1>4 DEF Stages
<1>7. Tells(t, e, d)
  <2>1. \A i \in EndsAt(t, d) : \A j \in DOMAIN d : j > i => ~Own(d[j]) /\ j \notin EndsAt(t, d)
    <3>1. TAKE i \in EndsAt(t, d)
    <3>2. TAKE j \in DOMAIN d
    <3>3. HAVE j > i
    <3>0. i \in DOMAIN d
      BY DEF EndsAt
    <3>4. i + 1 \in EndsAt(t, es) /\ j + 1 \in DOMAIN es /\ j + 1 > i + 1 /\ d[j] = es[j + 1]
      <4>1. i + 1 \in EndsAt(t, es)
        BY <1>3, <3>0
      <4>2. i \in Nat /\ j \in Nat /\ j + 1 \in DOMAIN es /\ d[j] = es[j + 1]
        BY <1>1, <3>0 DEF Behead
      <4>3. QED
        BY <3>3, <4>1, <4>2
    <3>5. ~Own(es[j + 1]) /\ j + 1 \notin EndsAt(t, es)
      BY <1>2, <3>4 DEF Tells
    <3>6. QED
      BY <1>3, <3>4, <3>5
  <2>2. \A i \in DOMAIN d :
          Own(d[i]) => /\ Busy(t) /\ (e.phase # "idle" \/ EndsAt(t, d) # {})
                       /\ d[i].ev = "SavedFound" => t.op = "FindSaved"
    BY <1>1, <1>2, <1>4 DEF Tells, Behead
  <2>3. QED
    BY <2>1, <2>2 DEF Tells
<1>8. QED
  BY <1>2, <1>5, <1>6, <1>7 DEF Flight, d

\* The UI reads the end of its operation.
LEMMA FlightOver ==
  ASSUME NEW t \in UIs, NEW u \in UIs, NEW e \in Engines, NEW os \in Seq(Submissions),
         NEW es \in Seq(EventRecs), es # <<>>, 1 \in EndsAt(t, es), Busy(t),
         Flight(t, e, os, es), u.op = "none", u.id = 0, u.nextId = t.nextId
  PROVE  Flight(u, e, os, Tail(es))
<1> DEFINE d == Tail(es)
<1>1. d \in Seq(EventRecs) /\ Behead(es, d)
  BY TailFacts
<1>2. Numbered(t, os, es) /\ Stages(t, e, os, es) /\ Tells(t, e, es) /\ Interrupts(t, e, os)
  BY DEF Flight
<1>3. t.nextId \in Nat /\ t.nextId >= 1 /\ \A i \in DOMAIN os : os[i].id # 0 /\ os[i].id \in Nat
  BY ElementOfSeq, LenProperties DEF UIs, Submissions
<1> HIDE DEF d
<1>4. e.phase = "idle" /\ Asks(os) = {}
  BY <1>2 DEF Stages
<1>5. \A i \in DOMAIN d : ~Own(d[i]) /\ (d[i].ev = "OpEnded" => d[i].id \in 1..t.nextId - 1)
  <2>1. \A i \in DOMAIN d : i + 1 \in DOMAIN es /\ i + 1 > 1 /\ d[i] = es[i + 1]
    BY <1>1 DEF Behead
  <2>2. QED
    BY <1>2, <2>1 DEF Tells, Numbered
<1>6. EndsAt(u, d) = {}
  BY <1>3, <1>5 DEF EndsAt
<1>7. Numbered(u, os, d)
  BY <1>2, <1>3, <1>5 DEF Numbered
<1>8. Stages(u, e, os, d)
  BY <1>4, <1>6 DEF Stages, Busy
<1>9. Tells(u, e, d) /\ Interrupts(u, e, os)
  BY <1>4, <1>5, <1>6 DEF Tells, Interrupts
<1>10. QED
  BY <1>7, <1>8, <1>9 DEF Flight, d

----------------------------------------------------------------------------
(* The operation in flight, as the engine moves it *)

\* The engine takes an op that starts no operation.
LEMMA FlightTakes ==
  ASSUME NEW t \in UIs, NEW e \in Engines, NEW os \in Seq(Submissions),
         NEW es \in Seq(EventRecs), os # <<>>, Head(os).op \notin IdleOnly, Flight(t, e, os, es)
  PROVE  Flight(t, e, Tail(os), es)
<1> DEFINE d == Tail(os)
<1>1. d \in Seq(Submissions) /\ Behead(os, d) /\ os[1].op \notin IdleOnly
  BY TailFacts
<1>2. Numbered(t, os, es) /\ Stages(t, e, os, es) /\ Tells(t, e, es) /\ Interrupts(t, e, os)
  BY DEF Flight
<1> HIDE DEF d
<1>3. \A i \in DOMAIN d : i \in Asks(d) <=> i + 1 \in Asks(os)
  BY <1>1 DEF Asks, Behead
<1>4. \A i \in Asks(os) : i - 1 \in Asks(d) /\ (i - 1) + 1 = i
  BY <1>1 DEF Asks, Behead
<1>5. \A i \in Asks(d) : i \in Nat /\ i + 1 \in Asks(os) /\ d[i] = os[i + 1]
  BY <1>1, <1>3 DEF Asks, Behead
<1>6. Asks(d) = {} <=> Asks(os) = {}
  BY <1>4, <1>5
<1>7. Numbered(t, d, es)
  BY <1>1, <1>2 DEF Numbered, Behead
<1>8. Stages(t, e, d, es)
  <2>1. \A i \in Asks(d) : d[i].id = t.id /\ d[i].op = t.op
    BY <1>2, <1>5 DEF Stages
  <2>2. \A i, j \in Asks(d) : i = j
    <3>1. \A i, j \in Asks(d) : i + 1 = j + 1
      BY <1>2, <1>5 DEF Stages
    <3>2. QED
      BY <1>5, <3>1
  <2>3. QED
    BY <1>2, <1>6, <2>1, <2>2 DEF Stages
<1>9. Interrupts(t, e, d)
  <2>1. SUFFICES ASSUME NEW j \in DOMAIN d, d[j].op = "Interrupt",
                        e.phase # "idle" \/ \E i \in Asks(d) : i < j
                 PROVE  t.activity = "cancelling"
    BY DEF Interrupts
  <2>2. j \in Nat /\ j + 1 \in DOMAIN os /\ os[j + 1].op = "Interrupt"
    BY <1>1, <2>1 DEF Behead
  <2>3. (\E i \in Asks(d) : i < j) => \E i \in Asks(os) : i < j + 1
    BY <1>5, <2>2
  <2>4. QED
    BY <1>2, <2>1, <2>2, <2>3 DEF Interrupts
<1>10. QED
  BY <1>2, <1>7, <1>8, <1>9 DEF Flight, d

\* An idle engine takes the op that starts the operation.
LEMMA FlightServed ==
  ASSUME NEW t \in UIs, NEW e \in Engines, NEW f \in Engines, NEW os \in Seq(Submissions),
         NEW es \in Seq(EventRecs), os # <<>>, Head(os).op \in IdleOnly, Flight(t, e, os, es),
         f.phase # "idle", f.id = Head(os).id, f.op = Head(os).op
  PROVE  Flight(t, f, Tail(os), es) /\ EndsAt(t, es) = {}
<1> DEFINE d == Tail(os)
<1>1. d \in Seq(Submissions) /\ Behead(os, d) /\ os[1].op \in IdleOnly /\ os[1] = Head(os)
  BY TailFacts
<1>2. Numbered(t, os, es) /\ Stages(t, e, os, es) /\ Tells(t, e, es) /\ Interrupts(t, e, os)
  BY DEF Flight
<1> HIDE DEF d
<1>3. 1 \in Asks(os)
  BY <1>1 DEF Asks, Behead
<1>4. /\ EndsAt(t, es) = {} /\ f.id = t.id /\ f.op = t.op /\ Busy(t)
  BY <1>1, <1>2, <1>3 DEF Stages, Busy, IdleOnly, LocalOps, Switches
<1>5. Asks(d) = {}
  <2>1. \A i \in Asks(d) : i \in Nat /\ i >= 1 /\ i + 1 \in Asks(os)
    BY <1>1 DEF Asks, Behead
  <2>2. \A i \in Asks(d) : i + 1 = 1
    BY <1>2, <1>3, <2>1 DEF Stages
  <2>3. QED
    BY <2>1, <2>2
<1>6. Numbered(t, d, es)
  BY <1>1, <1>2 DEF Numbered, Behead
<1>7. Stages(t, f, d, es)
  BY <1>4, <1>5 DEF Stages
<1>8. Tells(t, f, es)
  BY <1>2, <1>4 DEF Tells
<1>9. Interrupts(t, f, d)
  <2>1. \A j \in DOMAIN d : j + 1 \in DOMAIN os /\ 1 < j + 1 /\ d[j] = os[j + 1]
    BY <1>1 DEF Behead
  <2>2. QED
    BY <1>2, <1>3, <2>1 DEF Interrupts
<1>10. QED
  BY <1>4, <1>6, <1>7, <1>8, <1>9 DEF Flight, d

\* What a running operation says, short of its end; `SavedFound` only comes with the end.
Says(evs) ==
  \A k \in DOMAIN evs : evs[k].ev # "OpEnded" /\ evs[k].ev # "SavedFound"

LEMMA FlightSays ==
  ASSUME NEW t \in UIs, NEW e \in Engines, NEW f \in Engines, NEW os \in Seq(Submissions),
         NEW es \in Seq(EventRecs), NEW evs \in Seq(EventRecs), Flight(t, e, os, es),
         e.phase # "idle", f.phase # "idle", f.id = e.id, f.op = e.op, Says(evs)
  PROVE  Flight(t, f, os, es \o evs)
<1> DEFINE d == es \o evs
           n == Len(es)
<1>1. d \in Seq(EventRecs) /\ Joined(es, evs, d, n)
  BY ConcatFacts
<1>2. Numbered(t, os, es) /\ Stages(t, e, os, es) /\ Tells(t, e, es) /\ Interrupts(t, e, os)
  BY DEF Flight
<1> HIDE DEF d, n
<1>3. EndsAt(t, es) = {} /\ Busy(t)
  BY <1>2 DEF Stages
<1>4. EndsAt(t, d) = {}
  <2>1. SUFFICES ASSUME NEW i \in DOMAIN d, d[i].ev = "OpEnded", d[i].id = t.id PROVE FALSE
    BY DEF EndsAt
  <2>2. CASE i \in DOMAIN es
    BY <1>1, <1>3, <2>1, <2>2 DEF EndsAt, Joined
  <2>3. CASE i - n \in DOMAIN evs /\ d[i] = evs[i - n]
    BY <2>1, <2>3 DEF Says
  <2>4. QED
    BY <1>1, <2>2, <2>3 DEF Joined
<1>5. Numbered(t, os, d)
  BY <1>1, <1>2 DEF Numbered, Joined, Says
<1>6. Stages(t, f, os, d)
  BY <1>2, <1>4 DEF Stages
<1>7. Tells(t, f, d)
  BY <1>1, <1>2, <1>3, <1>4 DEF Tells, Joined, Says
<1>8. Interrupts(t, f, os)
  BY <1>2 DEF Interrupts
<1>9. QED
  BY <1>5, <1>6, <1>7, <1>8 DEF Flight, d

\* A running operation ends: its last words, and then its end.
LEMMA FlightEnds ==
  ASSUME NEW t \in UIs, NEW e \in Engines, NEW f \in Engines, NEW os \in Seq(Submissions),
         NEW es \in Seq(EventRecs), NEW evs \in Seq(EventRecs), NEW x \in EventRecs,
         Flight(t, e, os, es), e.phase # "idle", f.phase = "idle",
         \A k \in DOMAIN evs : evs[k].ev # "OpEnded" /\ (evs[k].ev = "SavedFound" => e.op = "FindSaved"),
         x.ev = "OpEnded", x.id = e.id
  PROVE  Flight(t, f, os, es \o (evs \o <<x>>))
<1> DEFINE m == es \o evs
           d == m \o <<x>>
           n == Len(m)
<1>1. m \in Seq(EventRecs) /\ Joined(es, evs, m, Len(es)) /\ <<x>> \in Seq(EventRecs)
  BY ConcatFacts, OneFacts
<1> HIDE DEF m
<1>2. /\ d \in Seq(EventRecs) /\ Joined(m, <<x>>, d, n)
      /\ DOMAIN <<x>> = {1} /\ <<x>>[1] = x /\ n \in Nat
  BY <1>1, OneFacts DEF Joined
<1>3. es \o (evs \o <<x>>) = d
  BY <1>1, ConcatAssociative DEF m
<1>4. Numbered(t, os, es) /\ Stages(t, e, os, es) /\ Tells(t, e, es) /\ Interrupts(t, e, os)
  BY DEF Flight
<1> HIDE DEF d, n
<1>5. EndsAt(t, es) = {} /\ Busy(t) /\ Asks(os) = {} /\ e.id = t.id /\ e.op = t.op
  BY <1>4 DEF Stages
<1>6. \A i \in DOMAIN m :
        /\ i \notin EndsAt(t, m)
        /\ m[i].ev = "OpEnded" => m[i].id \in 1..t.nextId - 1
        /\ m[i].ev = "SavedFound" => t.op = "FindSaved"
  <2>1. TAKE i \in DOMAIN m
  <2>2. CASE i \in DOMAIN es
    <3>1. m[i] = es[i]
      BY <1>1, <2>2 DEF Joined
    <3>2. es[i].ev = "SavedFound" => Own(es[i])
      BY DEF Own
    <3>3. QED
      BY <1>4, <1>5, <2>2, <3>1, <3>2 DEF Tells, Numbered, EndsAt
  <2>3. CASE i - Len(es) \in DOMAIN evs /\ m[i] = evs[i - Len(es)]
    BY <1>5, <2>3 DEF EndsAt
  <2>4. QED
    BY <1>1, <2>2, <2>3 DEF Joined
<1>7. /\ n + 1 \in DOMAIN d /\ d[n + 1] = x
      /\ \A i \in DOMAIN d : i = n + 1 \/ (i \in DOMAIN m /\ i <= n /\ d[i] = m[i])
  <2>1. \A i \in DOMAIN d : i > n /\ i - n = 1 /\ i \in Nat => i = n + 1
    BY <1>2
  <2>2. QED
    BY <1>2, <2>1 DEF Joined
<1>8. EndsAt(t, d) = {n + 1}
  <2>1. \A i \in DOMAIN m : ~(m[i].ev = "OpEnded" /\ m[i].id = t.id)
    BY <1>6 DEF EndsAt
  <2>2. \A i \in EndsAt(t, d) : i = n + 1
    BY <1>7, <2>1 DEF EndsAt
  <2>3. n + 1 \in EndsAt(t, d)
    BY <1>5, <1>7 DEF EndsAt
  <2>4. QED
    BY <2>2, <2>3
<1>9. \A i \in DOMAIN d : ~(i > n + 1)
  <2>1. n \in Nat /\ \A i \in DOMAIN d : i \in Nat
    BY <1>2 DEF Joined
  <2>2. \A i \in DOMAIN d : i = n + 1 \/ i <= n
    BY <1>7
  <2>3. QED
    BY <2>1, <2>2
<1>10. Numbered(t, os, d)
  <2>1. x.id \in 1..t.nextId - 1
    <3>1. t.id \in Nat /\ t.id # 0 /\ t.nextId \in Nat /\ t.id < t.nextId
      BY <1>4, <1>5 DEF Numbered, UIs, Busy
    <3>2. QED
      BY <1>5, <3>1
  <2>2. \A i \in DOMAIN d : d[i].ev = "OpEnded" => d[i].id \in 1..t.nextId - 1
    BY <1>6, <1>7, <2>1
  <2>3. QED
    BY <1>4, <2>2 DEF Numbered
<1>11. Stages(t, f, os, d)
  BY <1>4, <1>5, <1>8 DEF Stages
<1>12. Tells(t, f, d)
  <2>1. \A i \in DOMAIN d : d[i].ev = "SavedFound" => t.op = "FindSaved"
    BY <1>6, <1>7
  <2>2. QED
    BY <1>5, <1>8, <1>9, <2>1 DEF Tells
<1>13. Interrupts(t, f, os)
  BY <1>5 DEF Interrupts
<1>14. QED
  BY <1>3, <1>10, <1>11, <1>12, <1>13 DEF Flight

\* An idle engine answers an op that started nothing.
LEMMA FlightAnswers ==
  ASSUME NEW t \in UIs, NEW e \in Engines, NEW f \in Engines, NEW os \in Seq(Submissions),
         NEW es \in Seq(EventRecs), NEW evs \in Seq(EventRecs),
         Flight(t, e, os, es), e.phase = "idle", f.phase = "idle",
         \A k \in DOMAIN evs : ~Own(evs[k]) /\ (evs[k].ev = "OpEnded" => evs[k].id \in (1..t.nextId - 1) \ {t.id})
  PROVE  Flight(t, f, os, es \o evs)
<1> DEFINE d == es \o evs
           n == Len(es)
<1>1. d \in Seq(EventRecs) /\ Joined(es, evs, d, n)
  BY ConcatFacts
<1>2. Numbered(t, os, es) /\ Stages(t, e, os, es) /\ Tells(t, e, es) /\ Interrupts(t, e, os)
  BY DEF Flight
<1> HIDE DEF d, n
<1>3. EndsAt(t, d) = EndsAt(t, es)
  BY <1>1 DEF EndsAt, Joined
<1>4. Numbered(t, os, d)
  BY <1>1, <1>2 DEF Numbered, Joined
<1>5. Stages(t, f, os, d)
  BY <1>2, <1>3 DEF Stages
<1>6. Tells(t, f, d)
  <2>1. \A i \in DOMAIN d : (i \in DOMAIN es /\ d[i] = es[i]) \/ ~Own(d[i])
    BY <1>1 DEF Joined
  <2>2. \A i \in EndsAt(t, d) : \A j \in DOMAIN d : j > i => ~Own(d[j]) /\ j \notin EndsAt(t, d)
    <3>1. \A j \in EndsAt(t, es) : j \in DOMAIN es
      BY DEF EndsAt
    <3>2. QED
      BY <1>2, <1>3, <2>1, <3>1 DEF Tells
  <2>3. QED
    BY <1>2, <1>3, <2>1, <2>2 DEF Tells, Own
<1>7. Interrupts(t, f, os)
  BY <1>2 DEF Interrupts
<1>8. QED
  BY <1>4, <1>5, <1>6, <1>7 DEF Flight, d

----------------------------------------------------------------------------
(* The modes a channel brings *)

LEMMA BringsJoined ==
  ASSUME NEW S, NEW s \in Seq(S), NEW q \in Seq(S), NEW A, NEW B, NEW D, NEW m, NEW x, NEW last,
         A \subseteq DOMAIN s, B \subseteq DOMAIN q, D \subseteq DOMAIN (s \o q),
         \A i \in DOMAIN s : i \in A <=> i \in D,
         \A k \in DOMAIN q : k \in B <=> Len(s) + k \in D,
         Brings(s, A, m, x), Brings(q, B, x, last)
  PROVE  Brings(s \o q, D, m, last)
<1> DEFINE d == s \o q
           n == Len(s)
<1>1. Joined(s, q, d, n)
  BY ConcatFacts
<1>2. D \subseteq DOMAIN d /\ (\A i \in DOMAIN s : i \in A <=> i \in D)
      /\ \A k \in DOMAIN q : k \in B <=> n + k \in D
  OBVIOUS
<1> HIDE DEF d, n
<1>3. \A i \in D : i \in A \/ (i > n /\ i - n \in B /\ n + (i - n) = i)
  <2>1. TAKE i \in D
  <2>2. i \in DOMAIN d
    BY <1>2
  <2>3. CASE i \in DOMAIN s
    BY <1>2, <2>3
  <2>4. CASE i > n /\ i - n \in DOMAIN q
    <3>1. n + (i - n) = i
      BY <1>1, <2>2 DEF Joined
    <3>2. QED
      BY <1>2, <2>4, <3>1
  <2>5. QED
    BY <1>1, <2>2, <2>3, <2>4 DEF Joined
<1>4. CASE B = {} /\ last = x
  <2>1. \A i \in D : i \in A
    BY <1>3, <1>4
  <2>2. \A i \in A : i \in D /\ d[i] = s[i]
    BY <1>1, <1>2 DEF Joined
  <2>3. D = A
    BY <2>1, <2>2
  <2>4. QED
    BY <1>4, <2>2, <2>3 DEF Brings, d
<1>5. CASE \E k \in B : last = q[k].mode /\ \A j \in B : j <= k
  <2>1. PICK k \in B : last = q[k].mode /\ \A j \in B : j <= k
    BY <1>5
  <2>2. k \in Nat /\ k >= 1 /\ n \in Nat /\ n + k \in D /\ d[n + k] = q[k]
    BY <1>1, <1>2 DEF Joined
  <2>3. \A j \in B : j \in Nat
    BY <1>1 DEF Joined
  <2>4. \A i \in A : i \in Nat /\ i <= n
    BY <1>1 DEF Joined
  <2>5. \A i \in D : i \in Nat
    BY <1>1, <1>2 DEF Joined
  <2>6. \A i \in D : i <= n + k
    <3>1. TAKE i \in D
    <3>2. CASE i \in A
      BY <2>2, <2>4, <3>2
    <3>3. CASE i - n \in B
      <4>1. i - n <= k
        BY <2>1, <3>3
      <4>2. QED
        BY <2>2, <2>5, <4>1
    <3>4. QED
      BY <1>3, <3>2, <3>3
  <2>7. QED
    BY <2>1, <2>2, <2>6 DEF Brings, d
<1>6. QED
  BY <1>4, <1>5 DEF Brings

LEMMA BringsTail ==
  ASSUME NEW S, NEW s \in Seq(S), s # <<>>, NEW A, NEW D, NEW m, NEW last,
         A \subseteq DOMAIN s, D \subseteq DOMAIN Tail(s),
         \A i \in DOMAIN Tail(s) : i \in D <=> i + 1 \in A,
         Brings(s, A, m, last)
  PROVE  Brings(Tail(s), D, IF 1 \in A THEN s[1].mode ELSE m, last)
<1> DEFINE d == Tail(s)
           n == IF 1 \in A THEN s[1].mode ELSE m
<1>1. Behead(s, d)
  BY TailFacts
<1>2. A \subseteq DOMAIN s /\ D \subseteq DOMAIN d /\ \A i \in DOMAIN d : i \in D <=> i + 1 \in A
  OBVIOUS
<1> HIDE DEF d
<1>3. \A i \in A : i \in Nat /\ (i = 1 \/ (i > 1 /\ i - 1 \in D /\ s[i] = d[i - 1]))
  <2>1. TAKE i \in A
  <2>2. i \in Nat /\ (i = 1 \/ (i > 1 /\ i - 1 \in DOMAIN d /\ s[i] = d[i - 1]))
    BY <1>1, <1>2 DEF Behead
  <2>3. (i - 1) + 1 = i
    BY <2>2
  <2>4. QED
    BY <1>2, <2>2, <2>3
<1>4. \A i \in D : i \in Nat /\ i >= 1 /\ i + 1 \in A
  BY <1>1, <1>2 DEF Behead
<1>5. CASE A = {} /\ last = m
  BY <1>4, <1>5 DEF Brings, d
<1>6. CASE \E i \in A : last = s[i].mode /\ \A j \in A : j <= i
  <2>1. PICK i \in A : last = s[i].mode /\ \A j \in A : j <= i
    BY <1>6
  <2>2. CASE i = 1
    <3>1. \A j \in D : j + 1 <= 1 /\ j \in Nat /\ j >= 1
      BY <1>4, <2>1, <2>2
    <3>2. D = {}
      BY <3>1
    <3>3. QED
      BY <2>1, <2>2, <3>2 DEF Brings, d
  <2>3. CASE i > 1 /\ i - 1 \in D /\ s[i] = d[i - 1]
    <3>1. \A j \in D : j + 1 <= i /\ j \in Nat /\ i \in Nat
      BY <1>3, <1>4, <2>1
    <3>2. \A j \in D : j <= i - 1
      BY <3>1
    <3>3. QED
      BY <2>1, <2>3, <3>2 DEF Brings, d
  <2>4. QED
    BY <1>3, <2>2, <2>3
<1>7. QED
  BY <1>5, <1>6 DEF Brings

----------------------------------------------------------------------------
(* The queue *)

LEMMA SubSeqType ==
  ASSUME NEW S, NEW s \in Seq(S), NEW m \in Nat \ {0}
  PROVE  SubSeq(s, m, Len(s)) \in Seq(S)
<1>1. \A i \in m..Len(s) : s[i] \in S
  OBVIOUS
<1>2. QED
  BY <1>1, SubSeqProperties

LEMMA QueueFields ==
  ASSUME NEW q \in Queues
  PROVE  /\ q.active \in Prompt \cup {NoPrompt} /\ q.handBack \in HandBacks
         /\ q.pending \in Seq(Prompt) /\ q.held \in BOOLEAN /\ q.forwarded \in Nat
         /\ q.drained \in Seq(Prompt)
         /\ q.switch.to \in Targets /\ q.switch.before \in Nat
         /\ LeftBehind(q) \in Nat
BY DEF Queues, LeftBehind

LEMMA QueueConstants ==
  <<>> \in Seq(Prompt) /\ NoSwitch \in [to : Targets, before : Nat] /\ "nothing" \in HandBacks
  /\ "heldQueue" \in HandBacks /\ "fresh" \in Targets /\ "saved" \in Targets
BY EmptySeq DEF NoSwitch, Targets, HandBacks

LEMMA PushTypes ==
  ASSUME NEW q \in Queues, NEW p \in Prompt
  PROVE  Push(q, p) \in Queues
<1>1. Append(q.pending, p) \in Seq(Prompt)
  BY QueueFields
<1>2. QED
  BY <1>1, QueueConstants DEF Push, Queues

LEMMA PushFrontTypes ==
  ASSUME NEW q \in Queues, NEW ps \in Seq(Prompt)
  PROVE  PushFront(q, ps) \in Queues
<1>1. ps \o q.pending \in Seq(Prompt) /\ Len(ps) \in Nat
  BY QueueFields, ConcatProperties
<1> DEFINE sw == [q.switch EXCEPT !.before = IF SwitchAsked(q) THEN @ + Len(ps) ELSE @]
<1>2. sw \in [to : Targets, before : Nat]
  BY <1>1 DEF Queues
<1>3. PushFront(q, ps) = [q EXCEPT !.pending = ps \o q.pending, !.switch = sw]
  BY DEF PushFront, Queues
<1> HIDE DEF sw
<1>4. QED
  BY <1>1, <1>2, <1>3 DEF Queues

LEMMA PopTypes ==
  ASSUME NEW q \in Queues, q.pending # <<>>
  PROVE  /\ PopNext(q) \in Queues /\ PopLast(q) \in Queues
         /\ Head(q.pending) \in Prompt /\ q.pending[Len(q.pending)] \in Prompt
<1>1. /\ Tail(q.pending) \in Seq(Prompt) /\ Head(q.pending) \in Prompt
      /\ Len(q.pending) \in Nat /\ Len(q.pending) >= 1
      /\ q.pending[Len(q.pending)] \in Prompt
      /\ \A i \in 1..Len(q.pending) - 1 : q.pending[i] \in Prompt
  BY QueueFields
<1>2. PopNext(q) \in Queues
  BY <1>1 DEF PopNext, Queues
<1>3. SubSeq(q.pending, 1, Len(q.pending) - 1) \in Seq(Prompt) /\ Len(q.pending) - 1 \in Nat
  BY <1>1, SubSeqProperties
<1>4. PopLast(q) \in Queues
  BY <1>3 DEF PopLast, Queues
<1>5. QED
  BY <1>1, <1>2, <1>4

LEMMA TurnTypes ==
  ASSUME NEW q \in Queues, NEW p \in Prompt \cup {NoPrompt}, NEW kind
  PROVE  /\ LeaveToUser(q) \in Queues /\ EndTurn(q) \in Queues
         /\ ConfirmDrained(q, p) \in Queues /\ DiscardLeftBehind(q) \in Queues
         /\ [q EXCEPT !.held = TRUE] \in Queues /\ [q EXCEPT !.active = p] \in Queues
         /\ Marked(q, kind) \in Queues
<1>1. LeaveToUser(q) \in Queues /\ EndTurn(q) \in Queues
  BY QueueConstants DEF LeaveToUser, EndTurn, Queues
<1>2. ConfirmDrained(q, p) \in Queues
  <2>1. CASE q.forwarded > 0 /\ q.pending # <<>> /\ Head(q.pending) = p
    <3>1. Tail(q.pending) \in Seq(Prompt) /\ p \in Prompt
      BY <2>1, QueueFields, HeadTailProperties
    <3>2. Append(q.drained, p) \in Seq(Prompt) /\ q.forwarded - 1 \in Nat
      BY <2>1, <3>1, QueueFields
    <3>3. QED
      BY <2>1, <3>1, <3>2 DEF ConfirmDrained, Queues
  <2>2. CASE ~(q.forwarded > 0 /\ q.pending # <<>> /\ Head(q.pending) = p)
    BY <2>2 DEF ConfirmDrained
  <2>3. QED
    BY <2>1, <2>2
<1>3. DiscardLeftBehind(q) \in Queues
  <2>1. SubSeq(q.pending, LeftBehind(q) + 1, Len(q.pending)) \in Seq(Prompt)
    BY SubSeqType, QueueFields
  <2>2. QED
    BY <2>1, QueueConstants DEF DiscardLeftBehind, Queues
<1>4. [q EXCEPT !.held = TRUE] \in Queues /\ [q EXCEPT !.active = p] \in Queues
  BY DEF Queues
<1>5. Marked(q, kind) \in Queues
  <2>1. MarkSwitch(q, "fresh") \in Queues /\ MarkSwitch(q, "saved") \in Queues
    <3>1. Len(q.pending) \in Nat
      BY QueueFields
    <3>2. QED
      BY <3>1 DEF MarkSwitch, Queues, Targets, HandBacks
  <2>2. [q EXCEPT !.handBack = "heldQueue"] \in Queues
    BY DEF Queues, HandBacks
  <2>3. QED
    BY <2>1, <2>2 DEF Marked
<1>6. QED
  BY <1>1, <1>2, <1>3, <1>4, <1>5

LEMMA FailTypes ==
  ASSUME NEW q \in Queues, NEW b
  PROVE  /\ FailTurn(q, b).queue \in Queues
         /\ FailTurn(q, b).input \in Prompt \cup {NoPrompt}
<1>1. ASSUME NEW r \in Queues, NEW c
      PROVE  Restored(r, c).queue \in Queues /\ Restored(r, c).input \in Prompt \cup {NoPrompt}
  <2> DEFINE cleared == [r EXCEPT !.active = NoPrompt]
  <2>1. cleared \in Queues /\ r.active \in Prompt \cup {NoPrompt}
    BY TurnTypes, QueueFields
  <2>2. CASE r.active = NoPrompt
    BY <1>1, <2>2 DEF Restored
  <2>3. CASE r.active # NoPrompt
    <3>1. <<r.active>> \in Seq(Prompt)
      BY <2>1, <2>3
    <3>2. PushFront(cleared, <<r.active>>) \in Queues
      BY <2>1, <3>1, PushFrontTypes
    <3>3. QED
      BY <2>1, <2>3, <3>2 DEF Restored
  <2>4. QED
    BY <2>2, <2>3
<1> DEFINE undrained == PushFront([q EXCEPT !.drained = <<>>], q.drained)
<1>2. undrained \in Queues
  <2>1. [q EXCEPT !.drained = <<>>] \in Queues
    BY QueueConstants DEF Queues
  <2>2. QED
    BY <2>1, QueueFields, PushFrontTypes
<1>3. q.handBack \in HandBacks
  BY QueueFields
<1>4. CASE q.handBack = "nothing"
  BY <1>4 DEF FailTurn
<1>5. CASE q.handBack = "heldQueue"
  BY <1>5 DEF FailTurn
<1>6. CASE q.handBack = "unsentPrompt"
  BY <1>1, <1>6 DEF FailTurn
<1>7. CASE q.handBack = "rolledBackTurn"
  BY <1>1, <1>2, <1>7 DEF FailTurn
<1>8. QED
  BY <1>3, <1>4, <1>5, <1>6, <1>7 DEF HandBacks

----------------------------------------------------------------------------
(* What a pass of the UI sends *)

\* A pass from `t` sends what fits, changes no mode and no modal, and leaves the flight sound.
Sent(t, r, es) ==
  /\ r.tui \in UIs /\ r.sent \in Seq(Submissions) /\ Len(ops) + Len(r.sent) <= OpCap
  /\ Flight(r.tui, engine, ops \o r.sent, es)
  /\ r.tui.shown = t.shown /\ r.tui.requested = t.requested /\ ModesOf(r.sent) = {}
  /\ r.tui.modal = t.modal /\ r.tui.awaits = t.awaits

LEMMA SeqOfFunction ==
  ASSUME NEW S, NEW n \in Nat, NEW f \in [1..n -> S]
  PROVE  f \in Seq(S) /\ Len(f) = n
<1>1. f \in Seq(S)
  BY SeqDef
<1>2. 1..Len(f) = 1..n /\ Len(f) \in Nat
  BY <1>1, LenProperties
<1>3. /\ \A i \in 1..n : i <= Len(f)
      /\ \A i \in 1..Len(f) : i <= n
  BY <1>2
<1>4. n >= 1 => n \in 1..n
  OBVIOUS
<1>5. Len(f) >= 1 => Len(f) \in 1..Len(f)
  BY <1>2
<1>6. QED
  BY <1>1, <1>2, <1>3, <1>4, <1>5

LEMMA OpsAssociative ==
  \A a, b, c \in Seq(Submissions) : (a \o b) \o c = a \o (b \o c)
BY ConcatAssociative

LEMMA Fitting ==
  ASSUME NEW a \in Nat, NEW b \in Nat, NEW c \in Nat, NEW k \in Nat, a + b <= k
  PROVE  LET n == IF c > k - a - b THEN k - a - b ELSE c
         IN  n \in Nat /\ n <= c /\ a + b + n <= k
OBVIOUS

LEMMA BeginFacts ==
  ASSUME NEW t \in UIs, NEW kind \in IdleOnly
  PROVE  LET u == Begin(t, kind)
         IN  /\ u \in UIs /\ u.op = kind /\ u.id = t.nextId /\ u.nextId = t.nextId + 1
             /\ u.shown = t.shown /\ u.requested = t.requested
             /\ u.modal = t.modal /\ u.awaits = t.awaits
<1> DEFINE a == IF kind = "Compact" THEN "compacting" ELSE "running"
           u == [t EXCEPT !.op = kind, !.id = t.nextId, !.nextId = t.nextId + 1, !.activity = a]
<1>1. a \in {"none", "running", "compacting", "cancelling"}
  OBVIOUS
<1>2. Begin(t, kind) = u
  BY DEF Begin, UIs
<1> HIDE DEF a
<1>3. t.nextId \in Nat \ {0} /\ t.nextId \in Nat /\ t.nextId + 1 \in Nat \ {0}
  BY DEF UIs
<1>4. u \in UIs
  BY <1>1, <1>3 DEF UIs
<1>5. /\ u.op = kind /\ u.id = t.nextId /\ u.nextId = t.nextId + 1
      /\ u.shown = t.shown /\ u.requested = t.requested
      /\ u.modal = t.modal /\ u.awaits = t.awaits
  BY DEF UIs
<1>6. QED
  BY <1>2, <1>4, <1>5

LEMMA ForwardSends ==
  ASSUME ops \in Seq(Submissions), engine \in Engines, NEW es \in Seq(EventRecs),
         NEW t \in UIs, NEW o, Sent(t, o, es)
  PROVE  Sent(t, ForwardQueued(o), es) /\ ForwardQueued(o).tui.op = o.tui.op
<1> DEFINE u     == o.tui
           ready == IF TakesQueuedPrompts(u) THEN ToForward(u.queue) ELSE <<>>
           n     == IF Len(ready) > Room(o.sent) THEN Room(o.sent) ELSE Len(ready)
           q     == [i \in 1..n |-> Submission("Queue", u.nextId + i - 1, ready[i], NoMode)]
           v     == [u EXCEPT !.queue.forwarded = @ + n, !.nextId = @ + n]
<1>1. /\ u \in UIs /\ o.sent \in Seq(Submissions) /\ Len(ops) + Len(o.sent) <= OpCap
      /\ Flight(u, engine, ops \o o.sent, es)
      /\ u.shown = t.shown /\ u.requested = t.requested /\ ModesOf(o.sent) = {}
      /\ u.modal = t.modal /\ u.awaits = t.awaits
  BY DEF Sent
<1>2. u.queue \in Queues /\ u.nextId \in Nat /\ u.nextId >= 1
  BY <1>1 DEF UIs
<1>3. ready \in Seq(Prompt)
  <2>1. SubSeq(u.queue.pending, u.queue.forwarded + 1, Len(u.queue.pending)) \in Seq(Prompt)
    BY <1>2, QueueFields, SubSeqType
  <2>2. QED
    BY <2>1, QueueConstants DEF ToForward
<1>4. ForwardQueued(o) = [tui |-> v, sent |-> o.sent \o q]
  BY DEF ForwardQueued
<1> HIDE DEF u, ready
<1>5. n \in Nat /\ n <= Len(ready) /\ Len(ops) + Len(o.sent) + n <= OpCap
  <2>1. Len(ready) \in Nat /\ Len(ops) \in Nat /\ Len(o.sent) \in Nat /\ OpCap \in Nat
    BY <1>1, <1>3, Bounds
  <2>2. QED
    BY <1>1, <2>1, Fitting DEF Room
<1> HIDE DEF n
<1>6. /\ q \in [1..n -> Submissions]
      /\ \A i \in 1..n : q[i].op = "Queue" /\ q[i].id = u.nextId + i - 1
  <2>1. ASSUME NEW i \in 1..n
        PROVE  /\ Submission("Queue", u.nextId + i - 1, ready[i], NoMode) \in Submissions
               /\ q[i].op = "Queue" /\ q[i].id = u.nextId + i - 1
    <3>1. ready[i] \in Prompt /\ u.nextId + i - 1 \in Nat \ {0}
      BY <1>2, <1>3, <1>5
    <3>2. QED
      BY <3>1 DEF Submission, Submissions, OpKinds
  <2>2. QED
    BY <2>1
<1>7. q \in Seq(Submissions) /\ Len(q) = n /\ DOMAIN q = 1..n
  BY <1>5, <1>6, SeqOfFunction
<1> HIDE DEF q
<1>8. /\ v \in UIs /\ v.op = u.op /\ v.id = u.id /\ v.nextId = u.nextId + n
      /\ v.shown = u.shown /\ v.requested = u.requested /\ v.modal = u.modal
      /\ v.awaits = u.awaits /\ v.activity = u.activity
  <2> DEFINE y == [u.queue EXCEPT !.forwarded = @ + n]
  <2>1. y \in Queues
    <3>1. u.queue.forwarded + n \in Nat
      BY <1>2, <1>5, QueueFields
    <3>2. QED
      BY <1>2, <3>1 DEF Queues
  <2>2. v = [u EXCEPT !.queue = y, !.nextId = u.nextId + n]
    BY <1>1 DEF UIs
  <2> HIDE DEF y, v
  <2>3. u.nextId + n \in Nat \ {0}
    BY <1>2, <1>5
  <2>4. v \in UIs
    BY <1>1, <2>1, <2>2, <2>3 DEF UIs
  <2>5. QED
    BY <1>1, <2>2, <2>4 DEF UIs
<1> HIDE DEF v
<1>9. Keeps(u, v, q)
  <2>1. "Queue" \notin IdleOnly
    BY DEF IdleOnly, LocalOps, Switches
  <2>2. \A k \in 1..n : u.nextId + k - 1 \in u.nextId..(u.nextId + n) - 1
    BY <1>2, <1>5
  <2>3. \A k \in DOMAIN q :
          /\ q[k].op \notin IdleOnly /\ q[k].id \in u.nextId..v.nextId - 1
          /\ q[k].op = "Interrupt" => v.activity = "cancelling"
    BY <1>6, <1>7, <1>8, <2>1, <2>2
  <2>4. QED
    BY <1>2, <1>5, <1>8, <2>3 DEF Keeps
<1>10. Flight(v, engine, (ops \o o.sent) \o q, es)
  <2>1. ops \o o.sent \in Seq(Submissions)
    BY <1>1, ConcatProperties
  <2>2. QED
    BY <1>1, <1>7, <1>8, <1>9, <2>1, FlightKept
<1>11. /\ o.sent \o q \in Seq(Submissions) /\ Len(o.sent \o q) = Len(o.sent) + n
       /\ Joined(o.sent, q, o.sent \o q, Len(o.sent))
       /\ (ops \o o.sent) \o q = ops \o (o.sent \o q)
  <2>1. o.sent \in Seq(Submissions)
    BY <1>1
  <2>2. (ops \o o.sent) \o q = ops \o (o.sent \o q)
    BY <1>7, <2>1, OpsAssociative
  <2>3. /\ o.sent \o q \in Seq(Submissions) /\ Len(o.sent \o q) = Len(o.sent) + Len(q)
        /\ Joined(o.sent, q, o.sent \o q, Len(o.sent))
    BY <1>7, <2>1, ConcatFacts
  <2>4. QED
    BY <1>7, <2>2, <2>3
<1>12. ModesOf(o.sent \o q) = {}
  BY <1>1, <1>6, <1>7, <1>11 DEF ModesOf, Joined
<1>13. Len(ops) + Len(o.sent \o q) <= OpCap
  <2>1. Len(ops) \in Nat /\ Len(o.sent) \in Nat
    BY <1>1
  <2>2. QED
    BY <1>5, <1>11, <2>1
<1> DEFINE r == [tui |-> v, sent |-> o.sent \o q]
<1>14. r.tui = v /\ r.sent = o.sent \o q
  OBVIOUS
<1> HIDE DEF r
<1>15. Sent(t, r, es)
  BY <1>1, <1>8, <1>10, <1>11, <1>12, <1>13, <1>14 DEF Sent
<1>16. QED
  BY <1>4, <1>8, <1>14, <1>15 DEF r, u

\* A pass that only changes the UI.
LEMMA QuietSends ==
  ASSUME ops \in Seq(Submissions), Len(ops) <= OpCap, engine \in Engines, NEW es \in Seq(EventRecs),
         NEW t \in UIs, NEW u \in UIs, Flight(t, engine, ops, es), Keeps(t, u, <<>>)
  PROVE  Sent(u, [tui |-> u, sent |-> <<>>], es)
<1>1. <<>> \in Seq(Submissions) /\ Len(<<>>) = 0 /\ DOMAIN <<>> = {}
  BY EmptySeq
<1>2. Flight(u, engine, ops \o <<>>, es)
  BY <1>1, FlightKept
<1>3. ModesOf(<<>>) = {}
  BY <1>1 DEF ModesOf
<1>4. Len(ops) + 0 <= OpCap
  <2>1. Len(ops) \in Nat
    OBVIOUS
  <2>2. QED
    BY <2>1
<1> DEFINE r == [tui |-> u, sent |-> <<>>]
<1>5. r.tui = u /\ r.sent = <<>>
  OBVIOUS
<1> HIDE DEF r
<1>6. Sent(u, r, es)
  BY <1>1, <1>2, <1>3, <1>4, <1>5 DEF Sent
<1>7. QED
  BY <1>6 DEF r

LEMMA StartTurnSends ==
  ASSUME ops \in Seq(Submissions), Len(ops) <= OpCap, engine \in Engines, NEW es \in Seq(EventRecs),
         NEW t \in UIs, NEW p \in Prompt, Flight(t, engine, ops, es), ~Busy(t)
  PROVE  /\ Sent(t, StartTurn(t, p), es)
         /\ ~Busy(StartTurn(t, p).tui) => StartTurn(t, p).sent = <<>>
<1>1. t.queue \in Queues /\ t.nextId \in Nat \ {0} /\ t.op = "none" /\ Len(ops) \in Nat
  BY DEF UIs, Busy
<1>2. CASE Room(<<>>) = 0
  <2> DEFINE u == [t EXCEPT !.queue = PushFront(t.queue, <<p>>)]
  <2>1. PushFront(t.queue, <<p>>) \in Queues
    <3>1. <<p>> \in Seq(Prompt)
      OBVIOUS
    <3>2. QED
      BY <1>1, <3>1, PushFrontTypes
  <2>2. /\ u \in UIs /\ u.op = t.op /\ u.id = t.id /\ u.nextId = t.nextId
        /\ u.shown = t.shown /\ u.requested = t.requested /\ u.modal = t.modal
        /\ u.awaits = t.awaits /\ u.activity = t.activity
    BY <2>1 DEF UIs
  <2>3. StartTurn(t, p) = [tui |-> u, sent |-> <<>>]
    BY <1>2 DEF StartTurn
  <2> HIDE DEF u
  <2>4. Keeps(t, u, <<>>)
    <3>1. DOMAIN <<>> = {}
      OBVIOUS
    <3>2. QED
      BY <1>1, <2>2, <3>1 DEF Keeps
  <2>5. Sent(u, [tui |-> u, sent |-> <<>>], es)
    BY <2>2, <2>4, QuietSends
  <2>6. Sent(t, [tui |-> u, sent |-> <<>>], es)
    BY <2>2, <2>5 DEF Sent
  <2>7. QED
    BY <2>3, <2>6
<1>3. CASE Room(<<>>) # 0
  <2> DEFINE a == [t EXCEPT !.queue.active = p]
             u == Begin(a, "Prompt")
             s == Submission("Prompt", t.nextId, p, NoMode)
             o == [tui |-> u, sent |-> <<s>>]
  <2>1. StartTurn(t, p) = ForwardQueued(o)
    BY <1>3 DEF StartTurn
  <2>2. /\ a \in UIs /\ a.nextId = t.nextId /\ a.shown = t.shown /\ a.requested = t.requested
        /\ a.modal = t.modal /\ a.awaits = t.awaits
    <3>1. [t.queue EXCEPT !.active = p] \in Queues
      BY <1>1, TurnTypes
    <3>2. a = [t EXCEPT !.queue = [t.queue EXCEPT !.active = p]]
      BY DEF UIs
    <3>3. QED
      BY <3>1, <3>2 DEF UIs
  <2> HIDE DEF a
  <2>3. /\ u \in UIs /\ u.op = "Prompt" /\ u.id = t.nextId /\ u.nextId = t.nextId + 1
        /\ u.shown = t.shown /\ u.requested = t.requested
        /\ u.modal = t.modal /\ u.awaits = t.awaits
    BY <2>2, BeginFacts DEF IdleOnly
  <2>4. s \in Submissions /\ s.op = "Prompt" /\ s.id = t.nextId
    BY <1>1 DEF Submission, Submissions, OpKinds, IdleOnly
  <2>5. o.tui = u /\ o.sent = <<s>>
    OBVIOUS
  <2> HIDE DEF u, s, o
  <2>6. Begins(t, u, s)
    BY <1>1, <2>3, <2>4 DEF Begins, IdleOnly
  <2>7. Flight(u, engine, ops \o <<s>>, es)
    BY <2>3, <2>4, <2>6, FlightBegins
  <2>8. <<s>> \in Seq(Submissions) /\ Len(<<s>>) = 1 /\ DOMAIN <<s>> = {1} /\ <<s>>[1] = s
    BY <2>4
  <2>9. ModesOf(<<s>>) = {}
    BY <2>4, <2>8 DEF ModesOf
  <2>10. Len(ops) + 1 <= OpCap
    <3>1. Room(<<>>) = OpCap - Len(ops)
      BY <1>1, Bounds DEF Room
    <3>2. QED
      BY <1>1, <1>3, <3>1, Bounds
  <2>11. Sent(t, o, es)
    BY <2>3, <2>5, <2>7, <2>8, <2>9, <2>10 DEF Sent
  <2>12. Sent(t, ForwardQueued(o), es) /\ ForwardQueued(o).tui.op = u.op
    BY <2>5, <2>11, ForwardSends
  <2>13. QED
    BY <2>1, <2>3, <2>12 DEF Busy
<1>4. QED
  BY <1>2, <1>3

LEMMA DrainPendingSends ==
  ASSUME ops \in Seq(Submissions), Len(ops) <= OpCap, engine \in Engines, NEW es \in Seq(EventRecs),
         NEW t \in UIs, Flight(t, engine, ops, es), ~Busy(t)
  PROVE  Sent(t, DrainPending(t), es)
<1>1. t.queue \in Queues /\ t.nextId \in Nat \ {0}
  BY DEF UIs
<1>0. ASSUME NEW u \in UIs, u.op = t.op, u.id = t.id, u.nextId = t.nextId, u.activity = t.activity
      PROVE  Keeps(t, u, <<>>)
  <2>1. DOMAIN <<>> = {}
    OBVIOUS
  <2>2. QED
    BY <1>0, <1>1, <2>1 DEF Keeps
<1>2. CASE t.queue.held \/ t.queue.pending = <<>>
  <2>1. Sent(t, [tui |-> t, sent |-> <<>>], es)
    BY <1>0, QuietSends
  <2>2. QED
    BY <1>2, <2>1 DEF DrainPending
<1>3. CASE ~(t.queue.held \/ t.queue.pending = <<>>)
  <2> DEFINE u == [t EXCEPT !.queue = PopNext(t.queue)]
             p == Head(t.queue.pending)
  <2>1. PopNext(t.queue) \in Queues /\ p \in Prompt
    BY <1>1, <1>3, PopTypes
  <2>2. /\ u \in UIs /\ u.op = t.op /\ u.id = t.id /\ u.nextId = t.nextId
        /\ u.shown = t.shown /\ u.requested = t.requested /\ u.modal = t.modal
        /\ u.awaits = t.awaits /\ u.activity = t.activity
    BY <2>1 DEF UIs
  <2>3. DrainPending(t) = StartTurn(u, p)
    BY <1>3 DEF DrainPending
  <2> HIDE DEF u, p
  <2>4. Sent(u, [tui |-> u, sent |-> <<>>], es)
    BY <1>0, <2>2, QuietSends
  <2>5. Flight(u, engine, ops, es) /\ ~Busy(u)
    <3>1. ops \o <<>> = ops
      BY ConcatEmptySeq
    <3>2. QED
      BY <2>2, <2>4, <3>1 DEF Sent, Busy
  <2>6. Sent(u, StartTurn(u, p), es)
    BY <2>1, <2>2, <2>5, StartTurnSends
  <2>7. QED
    BY <2>2, <2>3, <2>6 DEF Sent
<1>4. QED
  BY <1>2, <1>3

\* An operation that ends leaves the UI idle, and may start the next turn.
LEMMA EndOperationSends ==
  ASSUME ops \in Seq(Submissions), Len(ops) <= OpCap, engine \in Engines,
         NEW es \in Seq(EventRecs), es # <<>>, NEW t \in UIs, NEW end,
         Flight(t, engine, ops, es), Busy(t), 1 \in EndsAt(t, es)
  PROVE  LET r == EndOperation(t, end)
         IN  Sent([t EXCEPT !.awaits = Open(t)], r, Tail(es)) /\ (Open(t) => ~Busy(r.tui))
<1> DEFINE settles == end = "Failed" \/ (end = "Cancelled" /\ t.queue.handBack = "unsentPrompt")
           s == IF settles THEN FailTurn(t.queue, t.input = NoPrompt)
                ELSE [queue |-> t.queue, input |-> NoPrompt, goesOn |-> TRUE]
           goesOn == s.goesOn /\ end # "Cancelled"
           over == EndTurn(s.queue)
           queue == IF t.activity = "cancelling" THEN LeaveToUser(over)
                    ELSE IF goesOn THEN over ELSE [over EXCEPT !.held = TRUE]
           idle == [t EXCEPT !.queue = queue, !.op = "none", !.id = 0, !.activity = "none",
                        !.input = IF s.input = NoPrompt THEN @ ELSE s.input,
                        !.awaits = Open(t)]
           r == EndOperation(t, end)
           d == Tail(es)
<1>1. r = IF idle.awaits THEN [tui |-> idle, sent |-> <<>>] ELSE DrainPending(idle)
  BY DEF EndOperation
<1>2. t.queue \in Queues /\ t.input \in Prompt \cup {NoPrompt}
  BY DEF UIs
<1>3. s.queue \in Queues /\ s.input \in Prompt \cup {NoPrompt}
  <2>1. CASE settles
    BY <1>2, <2>1, FailTypes
  <2>2. CASE ~settles
    BY <1>2, <2>2
  <2>3. QED
    BY <2>1, <2>2
<1> HIDE DEF s
<1>4. queue \in Queues
  BY <1>3, TurnTypes
<1> HIDE DEF queue
<1>5. /\ idle \in UIs /\ idle.op = "none" /\ idle.id = 0 /\ idle.nextId = t.nextId
      /\ idle.shown = t.shown /\ idle.requested = t.requested /\ idle.modal = t.modal
      /\ idle.awaits = Open(t)
  <2>1. Open(t) \in BOOLEAN
    BY DEF Open
  <2>2. (IF s.input = NoPrompt THEN t.input ELSE s.input) \in Prompt \cup {NoPrompt}
    BY <1>2, <1>3
  <2>3. QED
    BY <1>4, <2>1, <2>2 DEF UIs
<1> HIDE DEF idle, r
<1>6. Flight(idle, engine, ops, d) /\ ~Busy(idle)
  BY <1>5, FlightOver DEF Busy
<1>7. d \in Seq(EventRecs)
  BY HeadTailProperties
<1> HIDE DEF d
<1>8. Sent(idle, r, d) /\ (Open(t) => ~Busy(r.tui))
  <2>1. CASE idle.awaits
    <3>1. Keeps(idle, idle, <<>>)
      <4>1. DOMAIN <<>> = {} /\ idle.nextId \in Nat
        BY <1>5 DEF UIs
      <4>2. QED
        BY <1>6, <4>1 DEF Keeps
    <3>2. Sent(idle, [tui |-> idle, sent |-> <<>>], d)
      BY <1>5, <1>6, <1>7, <3>1, QuietSends
    <3>3. QED
      BY <1>1, <1>6, <2>1, <3>2
  <2>2. CASE ~idle.awaits
    BY <1>1, <1>5, <1>6, <1>7, <2>2, DrainPendingSends
  <2>3. QED
    BY <2>1, <2>2
<1> DEFINE w == [t EXCEPT !.awaits = Open(t)]
<1>9. w.shown = t.shown /\ w.requested = t.requested /\ w.modal = t.modal /\ w.awaits = Open(t)
  BY DEF UIs
<1> HIDE DEF w
<1>10. Sent(w, r, d)
  BY <1>5, <1>8, <1>9 DEF Sent
<1>11. QED
  BY <1>8, <1>10 DEF w, d, r

----------------------------------------------------------------------------
(* The modes in the channels *)

LEMMA OpsSilent ==
  ASSUME NEW os \in Seq(Submissions), NEW q \in Seq(Submissions), NEW m, NEW last,
         ModesOf(q) = {}, Brings(os, ModesOf(os), m, last)
  PROVE  Brings(os \o q, ModesOf(os \o q), m, last)
<1>1. Joined(os, q, os \o q, Len(os))
  BY ConcatFacts
<1> DEFINE A == ModesOf(os)
           B == ModesOf(q)
           D == ModesOf(os \o q)
<1>2. A \subseteq DOMAIN os /\ B \subseteq DOMAIN q /\ D \subseteq DOMAIN (os \o q)
  BY DEF ModesOf
<1>3. /\ \A i \in DOMAIN os : i \in A <=> i \in D
      /\ \A k \in DOMAIN q : k \in B <=> Len(os) + k \in D
  BY <1>1 DEF ModesOf, Joined
<1>4. Brings(os, A, m, last) /\ Brings(q, B, last, last)
  BY DEF Brings
<1> HIDE DEF A, B, D
<1>5. Brings(os \o q, D, m, last)
  BY <1>2, <1>3, <1>4, BringsJoined
<1>6. QED
  BY <1>5 DEF D

LEMMA OpsMode ==
  ASSUME NEW os \in Seq(Submissions), NEW s \in Submissions, NEW m, NEW x, s.op = "SetMode",
         Brings(os, ModesOf(os), m, x)
  PROVE  Brings(os \o <<s>>, ModesOf(os \o <<s>>), m, s.mode)
<1> DEFINE q == <<s>>
           A == ModesOf(os)
           B == {1}
           D == ModesOf(os \o q)
<1>1. /\ q \in Seq(Submissions) /\ Joined(os, q, os \o q, Len(os)) /\ DOMAIN q = {1} /\ q[1] = s
  BY OneFacts
<1> HIDE DEF q
<1>2. A \subseteq DOMAIN os /\ B \subseteq DOMAIN q /\ D \subseteq DOMAIN (os \o q)
  BY <1>1 DEF ModesOf
<1>3. /\ \A i \in DOMAIN os : i \in A <=> i \in D
      /\ \A k \in DOMAIN q : k \in B <=> Len(os) + k \in D
  BY <1>1 DEF ModesOf, Joined
<1>4. Brings(os, A, m, x) /\ Brings(q, B, x, s.mode)
  BY <1>1 DEF Brings
<1> HIDE DEF A, B, D
<1>5. Brings(os \o q, D, m, s.mode)
  BY <1>1, <1>2, <1>3, <1>4, BringsJoined
<1>6. QED
  BY <1>5 DEF D, q

LEMMA OpsTaken ==
  ASSUME NEW os \in Seq(Submissions), NEW m, NEW last, os # <<>>, Brings(os, ModesOf(os), m, last)
  PROVE  Brings(Tail(os), ModesOf(Tail(os)),
                IF Head(os).op = "SetMode" THEN Head(os).mode ELSE m, last)
<1> DEFINE A == ModesOf(os)
           D == ModesOf(Tail(os))
<1>1. Behead(os, Tail(os)) /\ Head(os) = os[1]
  BY TailFacts
<1>2. /\ A \subseteq DOMAIN os /\ D \subseteq DOMAIN Tail(os)
      /\ \A i \in DOMAIN Tail(os) : i \in D <=> i + 1 \in A
      /\ 1 \in A <=> Head(os).op = "SetMode"
  BY <1>1 DEF ModesOf, Behead
<1>3. Brings(os, A, m, last)
  OBVIOUS
<1> HIDE DEF A, D
<1>4. Brings(Tail(os), D, IF 1 \in A THEN os[1].mode ELSE m, last)
  BY <1>2, <1>3, BringsTail
<1>5. QED
  BY <1>1, <1>2, <1>4 DEF D

LEMMA EventsBring ==
  ASSUME NEW es \in Seq(EventRecs), NEW q \in Seq(EventRecs), NEW m, NEW x, NEW last,
         Brings(es, ShownBy(es), m, x), Brings(q, ShownBy(q), x, last)
  PROVE  Brings(es \o q, ShownBy(es \o q), m, last)
<1>1. Joined(es, q, es \o q, Len(es))
  BY ConcatFacts
<1> DEFINE A == ShownBy(es)
           B == ShownBy(q)
           D == ShownBy(es \o q)
<1>2. A \subseteq DOMAIN es /\ B \subseteq DOMAIN q /\ D \subseteq DOMAIN (es \o q)
  BY DEF ShownBy
<1>3. /\ \A i \in DOMAIN es : i \in A <=> i \in D
      /\ \A k \in DOMAIN q : k \in B <=> Len(es) + k \in D
  BY <1>1 DEF ShownBy, Joined
<1> HIDE DEF A, B, D
<1>4. Brings(es \o q, D, m, last)
  BY <1>2, <1>3, BringsJoined DEF A, B
<1>5. QED
  BY <1>4 DEF D

LEMMA EventsRead ==
  ASSUME NEW es \in Seq(EventRecs), NEW m, NEW last, es # <<>>, Brings(es, ShownBy(es), m, last)
  PROVE  Brings(Tail(es), ShownBy(Tail(es)),
                IF Head(es).ev = "ModeChanged" THEN Head(es).mode ELSE m, last)
<1> DEFINE A == ShownBy(es)
           D == ShownBy(Tail(es))
<1>1. Behead(es, Tail(es)) /\ Head(es) = es[1]
  BY TailFacts
<1>2. /\ A \subseteq DOMAIN es /\ D \subseteq DOMAIN Tail(es)
      /\ \A i \in DOMAIN Tail(es) : i \in D <=> i + 1 \in A
      /\ 1 \in A <=> Head(es).ev = "ModeChanged"
  BY <1>1 DEF ShownBy, Behead
<1>3. Brings(es, A, m, last)
  OBVIOUS
<1> HIDE DEF A, D
<1>4. Brings(Tail(es), D, IF 1 \in A THEN es[1].mode ELSE m, last)
  BY <1>2, <1>3, BringsTail
<1>5. QED
  BY <1>1, <1>2, <1>4 DEF D

----------------------------------------------------------------------------
(* The passes of the UI *)

FInvButModal == Typed /\ Flight(tui, engine, ops, events) /\ Resting /\ Followed

LEMMA PassKeeps ==
  ASSUME FInv, NEW w \in UIs, NEW r, Pass(r), engine' = engine, said' = said,
         events' \in Seq(EventRecs), Sent(w, r, events'), w.requested = tui.requested,
         Brings(events', ShownBy(events'), w.shown, Effective(engine))
  PROVE  FInvButModal' /\ tui' = r.tui
<1>1. Typed /\ Resting /\ Followed
  BY DEF FInv
<1>2. tui' = r.tui /\ ops' = ops \o r.sent
  BY DEF Pass
<1>3. /\ r.tui \in UIs /\ r.sent \in Seq(Submissions) /\ Len(ops) + Len(r.sent) <= OpCap
      /\ Flight(r.tui, engine, ops \o r.sent, events')
      /\ r.tui.shown = w.shown /\ r.tui.requested = w.requested /\ ModesOf(r.sent) = {}
  BY DEF Sent
<1>4. Typed'
  <2>1. ops \o r.sent \in Seq(Submissions) /\ Len(ops \o r.sent) = Len(ops) + Len(r.sent)
    BY <1>1, <1>3, ConcatFacts DEF Typed
  <2>2. QED
    BY <1>1, <1>2, <1>3, <2>1 DEF Typed
<1>5. Flight(tui', engine', ops', events')
  BY <1>2, <1>3
<1>6. Resting'
  BY <1>1 DEF Resting
<1>7. Followed'
  <2>1. Brings(ops, ModesOf(ops), Effective(engine), tui.requested) /\ ops \in Seq(Submissions)
    BY <1>1 DEF Followed, Typed
  <2>2. Brings(ops', ModesOf(ops'), Effective(engine), tui.requested)
    BY <1>2, <1>3, <2>1, OpsSilent
  <2>3. QED
    BY <1>2, <1>3, <2>2 DEF Followed
<1>8. QED
  BY <1>2, <1>4, <1>5, <1>6, <1>7 DEF FInvButModal

\* A pass of the user that reads no event.
LEMMA UserPass ==
  ASSUME FInv, NEW w \in UIs, NEW r, Pass(r), UNCHANGED <<engine, events, said>>,
         Sent(w, r, events), w.requested = tui.requested, w.shown = tui.shown
  PROVE  FInvButModal' /\ tui' = r.tui
<1>1. events \in Seq(EventRecs) /\ Brings(events, ShownBy(events), tui.shown, Effective(engine))
  BY DEF FInv, Typed, Followed
<1>2. events' = events /\ engine' = engine /\ said' = said
  OBVIOUS
<1>3. QED
  BY <1>1, <1>2, PassKeeps

LEMMA Quiet ==
  ASSUME FInv, NEW u \in UIs, u.op = tui.op, u.id = tui.id, u.nextId = tui.nextId,
         u.activity = tui.activity
  PROVE  Sent(u, [tui |-> u, sent |-> <<>>], events)
<1>1. /\ tui \in UIs /\ engine \in Engines /\ ops \in Seq(Submissions) /\ Len(ops) <= OpCap
      /\ events \in Seq(EventRecs) /\ Flight(tui, engine, ops, events)
  BY DEF FInv, Typed
<1>2. Keeps(tui, u, <<>>)
  <2>1. DOMAIN <<>> = {} /\ tui.nextId \in Nat
    BY <1>1 DEF UIs
  <2>2. QED
    BY <2>1 DEF Keeps
<1>3. QED
  BY <1>1, <1>2, QuietSends

LEMMA QuietPass ==
  ASSUME FInv, NEW u \in UIs, u.op = tui.op, u.id = tui.id, u.nextId = tui.nextId,
         u.activity = tui.activity, u.shown = tui.shown, u.requested = tui.requested,
         Quietly(u), UNCHANGED <<engine, events, said>>
  PROVE  FInvButModal' /\ tui' = u
<1> DEFINE r == [tui |-> u, sent |-> <<>>]
<1>1. Sent(u, r, events)
  BY Quiet
<1>2. Pass(r) /\ r.tui = u
  BY DEF Quietly
<1> HIDE DEF r
<1>3. QED
  BY <1>1, <1>2, UserPass

\* A pass that sends one op that starts no operation.
LEMMA OneSends ==
  ASSUME FInv, NEW u \in UIs, NEW s \in Submissions, Room(<<>>) > 0,
         s.op \notin IdleOnly, s.id = tui.nextId, s.op = "Interrupt" => u.activity = "cancelling",
         u.op = tui.op, u.id = tui.id, u.nextId = tui.nextId + 1,
         Busy(tui) /\ tui.activity = "cancelling" => u.activity = "cancelling"
  PROVE  /\ ops \o <<s>> \in Seq(Submissions) /\ Len(ops \o <<s>>) <= OpCap
         /\ Flight(u, engine, ops \o <<s>>, events)
<1>1. /\ tui \in UIs /\ engine \in Engines /\ ops \in Seq(Submissions) /\ Len(ops) <= OpCap
      /\ events \in Seq(EventRecs) /\ Flight(tui, engine, ops, events)
  BY DEF FInv, Typed
<1>2. <<s>> \in Seq(Submissions) /\ DOMAIN <<s>> = {1} /\ <<s>>[1] = s
  OBVIOUS
<1>3. Keeps(tui, u, <<s>>)
  <2>1. tui.nextId \in Nat /\ tui.nextId \in tui.nextId..(tui.nextId + 1) - 1
    BY <1>1 DEF UIs
  <2>2. QED
    BY <1>2, <2>1 DEF Keeps
<1>4. Flight(u, engine, ops \o <<s>>, events)
  BY <1>1, <1>2, <1>3, FlightKept
<1>5. ops \o <<s>> \in Seq(Submissions) /\ Len(ops \o <<s>>) = Len(ops) + 1
  BY <1>1, OneFacts
<1>6. Len(ops) + 1 <= OpCap
  <2>1. Len(ops) \in Nat /\ Room(<<>>) = OpCap - Len(ops)
    BY <1>1, Bounds DEF Room
  <2>2. QED
    BY <2>1, Bounds
<1>7. QED
  BY <1>4, <1>5, <1>6

LEMMA Closed ==
  ASSUME FInv
  PROVE  /\ tui \in UIs /\ tui.queue \in Queues /\ tui.input \in Prompt \cup {NoPrompt}
         /\ engine \in Engines /\ ops \in Seq(Submissions) /\ Len(ops) <= OpCap
         /\ events \in Seq(EventRecs) /\ Flight(tui, engine, ops, events)
         /\ Open(tui) => tui.op # "Prompt"
         /\ tui.modal = "init" => ~Busy(tui)
         /\ tui.awaits /\ ~Busy(tui) => Open(tui)
BY DEF FInv, Typed, UIs, ModalHasEngine

LEMMA TypeKeeps == ASSUME FInv, Type PROVE FInv'
<1>1. PICK p \in Prompt : Quietly([tui EXCEPT !.input = p])
  BY DEF Type
<1> DEFINE u == [tui EXCEPT !.input = p]
<1>2. /\ u \in UIs /\ u.op = tui.op /\ u.id = tui.id /\ u.nextId = tui.nextId
      /\ u.activity = tui.activity /\ u.shown = tui.shown /\ u.requested = tui.requested
      /\ u.modal = tui.modal /\ u.awaits = tui.awaits
  BY Closed DEF UIs
<1>3. Quietly(u)
  BY <1>1
<1>4. UNCHANGED <<engine, events, said>>
  BY DEF Type
<1> HIDE DEF u
<1>5. FInvButModal' /\ tui' = u
  BY <1>2, <1>3, <1>4, QuietPass
<1>6. ModalHasEngine'
  BY <1>2, <1>5, Closed DEF ModalHasEngine, Open, Busy
<1>7. QED
  BY <1>5, <1>6 DEF FInv, FInvButModal

LEMMA SubmitKeeps == ASSUME FInv, Submit PROVE FInv'
<1> DEFINE p == tui.input
           u == [tui EXCEPT !.input = NoPrompt, !.queue = Push(tui.queue, p)]
           r == IF Busy(tui) THEN ForwardQueued([tui |-> u, sent |-> <<>>]) ELSE DrainPending(u)
<1>1. /\ Pass(r) /\ UNCHANGED <<engine, events, said>> /\ ~Open(tui) /\ p \in Prompt
  BY Closed DEF Submit
<1>2. /\ u \in UIs /\ u.op = tui.op /\ u.id = tui.id /\ u.nextId = tui.nextId
      /\ u.activity = tui.activity /\ u.shown = tui.shown /\ u.requested = tui.requested
      /\ u.modal = tui.modal /\ u.awaits = tui.awaits
  <2>1. Push(tui.queue, p) \in Queues
    BY <1>1, Closed, PushTypes
  <2>2. QED
    BY <2>1, Closed DEF UIs
<1> HIDE DEF u, p
<1>3. Sent(u, [tui |-> u, sent |-> <<>>], events)
  BY <1>2, Quiet
<1>4. Sent(u, r, events) /\ (Busy(tui) => Busy(r.tui))
  <2>1. CASE Busy(tui)
    <3> DEFINE o == [tui |-> u, sent |-> <<>>]
    <3>1. Sent(u, o, events) /\ o.tui = u /\ r = ForwardQueued(o)
      BY <1>3, <2>1
    <3> HIDE DEF o, r
    <3>2. Sent(u, ForwardQueued(o), events) /\ ForwardQueued(o).tui.op = o.tui.op
      BY <1>2, <3>1, Closed, ForwardSends
    <3>3. QED
      BY <1>2, <2>1, <3>1, <3>2 DEF Busy
  <2>2. CASE ~Busy(tui)
    <3>1. Flight(u, engine, ops, events)
      <4>1. ops \o <<>> = ops
        BY Closed, ConcatEmptySeq
      <4>2. QED
        BY <1>3, <4>1 DEF Sent
    <3>2. ~Busy(u)
      BY <1>2, <2>2 DEF Busy
    <3>3. Sent(u, DrainPending(u), events)
      BY <1>2, <3>1, <3>2, Closed, DrainPendingSends
    <3>4. QED
      BY <2>2, <3>3
  <2>3. QED
    BY <2>1, <2>2
<1> HIDE DEF r
<1>5. FInvButModal' /\ tui' = r.tui
  BY <1>1, <1>2, <1>4, UserPass
<1>6. ModalHasEngine'
  <2>1. r.tui.modal = "none" /\ r.tui.awaits = tui.awaits
    BY <1>1, <1>2, <1>4 DEF Sent, Open
  <2>2. QED
    BY <1>1, <1>4, <1>5, <2>1, Closed DEF ModalHasEngine, Open
<1>7. QED
  BY <1>5, <1>6 DEF FInv, FInvButModal

\* What is left to show of a pass that sends one op.
LEMMA OneKeeps ==
  ASSUME FInv, NEW u \in UIs, NEW s \in Submissions, Pass([tui |-> u, sent |-> <<s>>]),
         UNCHANGED <<engine, events, said>>,
         ops \o <<s>> \in Seq(Submissions), Len(ops \o <<s>>) <= OpCap,
         Flight(u, engine, ops \o <<s>>, events), u.shown = tui.shown,
         u.requested = IF s.op = "SetMode" THEN s.mode ELSE tui.requested
  PROVE  FInvButModal' /\ tui' = u
<1>1. tui' = u /\ ops' = ops \o <<s>>
  BY DEF Pass
<1>2. Typed /\ Resting /\ Followed
  BY DEF FInv
<1>3. Typed'
  BY <1>1, <1>2 DEF Typed
<1>4. Followed'
  <2>1. Brings(ops, ModesOf(ops), Effective(engine), tui.requested) /\ ops \in Seq(Submissions)
    BY <1>2 DEF Followed, Typed
  <2>2. Brings(ops', ModesOf(ops'), Effective(engine), u.requested)
    <3>1. CASE s.op = "SetMode"
      BY <1>1, <2>1, <3>1, OpsMode
    <3>2. CASE s.op # "SetMode"
      <4>1. <<s>> \in Seq(Submissions) /\ DOMAIN <<s>> = {1} /\ <<s>>[1] = s
        OBVIOUS
      <4>2. ModesOf(<<s>>) = {}
        BY <3>2, <4>1 DEF ModesOf
      <4>3. QED
        BY <1>1, <2>1, <3>2, <4>1, <4>2, OpsSilent
    <3>3. QED
      BY <3>1, <3>2
  <2>3. QED
    BY <1>1, <1>2, <2>2 DEF Followed
<1>5. QED
  BY <1>1, <1>2, <1>3, <1>4 DEF FInvButModal, Resting

LEMMA SubmitCodeKeeps == ASSUME FInv, SubmitCode PROVE FInv'
<1> DEFINE u == [tui EXCEPT !.nextId = tui.nextId + 1]
           s == Submission("LoginCode", tui.nextId, NoPrompt, NoMode)
<1>1. /\ Pass([tui |-> u, sent |-> <<s>>]) /\ UNCHANGED <<engine, events, said>>
      /\ Room(<<>>) > 0
  BY Closed DEF SubmitCode, UIs
<1>2. /\ u \in UIs /\ u.op = tui.op /\ u.id = tui.id /\ u.nextId = tui.nextId + 1
      /\ u.activity = tui.activity /\ u.shown = tui.shown /\ u.requested = tui.requested
      /\ u.modal = tui.modal /\ u.awaits = tui.awaits /\ tui.nextId \in Nat \ {0}
  BY Closed DEF UIs
<1>3. s \in Submissions /\ s.op = "LoginCode" /\ s.id = tui.nextId
  BY <1>2 DEF Submission, Submissions, OpKinds
<1> HIDE DEF u, s
<1>4. s.op \notin IdleOnly
  BY <1>3 DEF IdleOnly, LocalOps, Switches
<1>5. /\ ops \o <<s>> \in Seq(Submissions) /\ Len(ops \o <<s>>) <= OpCap
      /\ Flight(u, engine, ops \o <<s>>, events)
  BY <1>1, <1>2, <1>3, <1>4, OneSends
<1>6. FInvButModal' /\ tui' = u
  BY <1>1, <1>2, <1>3, <1>5, OneKeeps
<1>7. ModalHasEngine'
  BY <1>2, <1>6, Closed DEF ModalHasEngine, Open, Busy
<1>8. QED
  BY <1>6, <1>7 DEF FInv, FInvButModal

LEMMA InterruptKeeps == ASSUME FInv, Interrupt PROVE FInv'
<1> DEFINE u == [tui EXCEPT !.activity = "cancelling", !.nextId = tui.nextId + 1]
           s == Submission("Interrupt", tui.nextId, NoPrompt, NoMode)
<1>1. /\ Pass([tui |-> u, sent |-> <<s>>]) /\ UNCHANGED <<engine, events, said>>
      /\ Room(<<>>) > 0
  BY Closed DEF Interrupt, UIs
<1>2. /\ u \in UIs /\ u.op = tui.op /\ u.id = tui.id /\ u.nextId = tui.nextId + 1
      /\ u.activity = "cancelling" /\ u.shown = tui.shown /\ u.requested = tui.requested
      /\ u.modal = tui.modal /\ u.awaits = tui.awaits /\ tui.nextId \in Nat \ {0}
  <2>1. tui \in UIs /\ tui.nextId \in Nat \ {0} /\ tui.nextId + 1 \in Nat \ {0}
    BY Closed DEF UIs
  <2>2. u \in UIs
    BY <2>1 DEF UIs
  <2>3. /\ u.op = tui.op /\ u.id = tui.id /\ u.nextId = tui.nextId + 1
        /\ u.activity = "cancelling" /\ u.shown = tui.shown /\ u.requested = tui.requested
        /\ u.modal = tui.modal /\ u.awaits = tui.awaits
    BY <2>1 DEF UIs
  <2>4. QED
    BY <2>1, <2>2, <2>3
<1>3. s \in Submissions /\ s.op = "Interrupt" /\ s.id = tui.nextId
  BY <1>2 DEF Submission, Submissions, OpKinds
<1> HIDE DEF u, s
<1>4. s.op \notin IdleOnly
  BY <1>3 DEF IdleOnly, LocalOps, Switches
<1>5. /\ ops \o <<s>> \in Seq(Submissions) /\ Len(ops \o <<s>>) <= OpCap
      /\ Flight(u, engine, ops \o <<s>>, events)
  BY <1>1, <1>2, <1>3, <1>4, OneSends
<1>6. FInvButModal' /\ tui' = u
  BY <1>1, <1>2, <1>3, <1>5, OneKeeps
<1>7. ModalHasEngine'
  BY <1>2, <1>6, Closed DEF ModalHasEngine, Open, Busy
<1>8. QED
  BY <1>6, <1>7 DEF FInv, FInvButModal

LEMMA SetModeKeeps == ASSUME FInv, SetMode PROVE FInv'
<1>0. PICK m \in Mode : Pass([tui  |-> [tui EXCEPT !.requested = m, !.nextId = @ + 1],
                            sent |-> <<Submission("SetMode", tui.nextId, NoPrompt, m)>>])
  BY DEF SetMode
<1> DEFINE u == [tui EXCEPT !.requested = m, !.nextId = tui.nextId + 1]
           s == Submission("SetMode", tui.nextId, NoPrompt, m)
<1>1. /\ Pass([tui |-> u, sent |-> <<s>>]) /\ UNCHANGED <<engine, events, said>>
      /\ Room(<<>>) > 0
  BY <1>0, Closed DEF SetMode, UIs
<1>2. /\ u \in UIs /\ u.op = tui.op /\ u.id = tui.id /\ u.nextId = tui.nextId + 1
      /\ u.activity = tui.activity /\ u.shown = tui.shown /\ u.requested = m
      /\ u.modal = tui.modal /\ u.awaits = tui.awaits /\ tui.nextId \in Nat \ {0}
  <2>1. tui \in UIs /\ tui.nextId \in Nat \ {0} /\ tui.nextId + 1 \in Nat \ {0}
    BY Closed DEF UIs
  <2>2. u \in UIs
    BY <2>1 DEF UIs
  <2>3. /\ u.op = tui.op /\ u.id = tui.id /\ u.nextId = tui.nextId + 1
        /\ u.activity = tui.activity /\ u.shown = tui.shown /\ u.requested = m
        /\ u.modal = tui.modal /\ u.awaits = tui.awaits
    BY <2>1 DEF UIs
  <2>4. QED
    BY <2>1, <2>2, <2>3
<1>3. s \in Submissions /\ s.op = "SetMode" /\ s.id = tui.nextId /\ s.mode = m
  BY <1>2 DEF Submission, Submissions, OpKinds
<1> HIDE DEF u, s
<1>4. s.op \notin IdleOnly
  BY <1>3 DEF IdleOnly, LocalOps, Switches
<1>5. /\ ops \o <<s>> \in Seq(Submissions) /\ Len(ops \o <<s>>) <= OpCap
      /\ Flight(u, engine, ops \o <<s>>, events)
  BY <1>1, <1>2, <1>3, <1>4, OneSends
<1>6. FInvButModal' /\ tui' = u
  BY <1>1, <1>2, <1>3, <1>5, OneKeeps
<1>7. ModalHasEngine'
  BY <1>2, <1>6, Closed DEF ModalHasEngine, Open, Busy
<1>8. QED
  BY <1>6, <1>7 DEF FInv, FInvButModal

LEMMA TakeBackKeeps == ASSUME FInv, TakeBack PROVE FInv'
<1> DEFINE n == Len(tui.queue.pending)
           u == [tui EXCEPT !.queue = PopLast(tui.queue), !.input = tui.queue.pending[n]]
<1>1. /\ Quietly(u) /\ UNCHANGED <<engine, events, said>> /\ tui.queue.pending # <<>>
  BY Closed DEF TakeBack, UIs
<1>2. /\ u \in UIs /\ u.op = tui.op /\ u.id = tui.id /\ u.nextId = tui.nextId
      /\ u.activity = tui.activity /\ u.shown = tui.shown /\ u.requested = tui.requested
      /\ u.modal = tui.modal /\ u.awaits = tui.awaits
  <2>1. PopLast(tui.queue) \in Queues /\ tui.queue.pending[n] \in Prompt
    BY <1>1, Closed, PopTypes
  <2>2. QED
    BY <2>1, Closed DEF UIs
<1> HIDE DEF u
<1>3. FInvButModal' /\ tui' = u
  BY <1>1, <1>2, QuietPass
<1>4. ModalHasEngine'
  BY <1>2, <1>3, Closed DEF ModalHasEngine, Open, Busy
<1>5. QED
  BY <1>3, <1>4 DEF FInv, FInvButModal

LEMMA OpenModalKeeps == ASSUME FInv, OpenModal PROVE FInv'
<1>1. PICK modal \in Modals : Quietly([tui EXCEPT !.modal = modal])
  BY DEF OpenModal
<1> DEFINE u == [tui EXCEPT !.modal = modal]
<1>2. /\ Quietly(u) /\ UNCHANGED <<engine, events, said>> /\ ~Busy(tui) /\ ~Open(tui)
  BY <1>1 DEF OpenModal
<1>3. /\ u \in UIs /\ u.op = tui.op /\ u.id = tui.id /\ u.nextId = tui.nextId
      /\ u.activity = tui.activity /\ u.shown = tui.shown /\ u.requested = tui.requested
      /\ u.awaits = tui.awaits
  BY Closed DEF UIs
<1> HIDE DEF u
<1>4. FInvButModal' /\ tui' = u
  BY <1>2, <1>3, QuietPass
<1>5. ModalHasEngine'
  BY <1>2, <1>3, <1>4, Closed DEF ModalHasEngine, Busy
<1>6. QED
  BY <1>4, <1>5 DEF FInv, FInvButModal

LEMMA DispatchKeeps == ASSUME FInv, Dispatch PROVE FInv'
<1>0. PICK kind \in Sendable(tui) :
        Pass([tui  |-> Begin([tui EXCEPT !.queue = Marked(@, kind), !.modal = "none"], kind),
              sent |-> <<Submission(kind, tui.nextId, NoPrompt, NoMode)>>])
  BY DEF Dispatch
<1> DEFINE a == [tui EXCEPT !.queue = Marked(tui.queue, kind), !.modal = "none"]
           u == Begin(a, kind)
           s == Submission(kind, tui.nextId, NoPrompt, NoMode)
<1>1. /\ Pass([tui |-> u, sent |-> <<s>>]) /\ UNCHANGED <<engine, events, said>>
      /\ Room(<<>>) > 0 /\ ~Busy(tui)
  BY <1>0, Closed DEF Dispatch, UIs
<1>2. kind \in IdleOnly
  BY Closed DEF Sendable, UIs, Modals, IdleOnly, LocalOps, Switches
<1>3. /\ a \in UIs /\ a.nextId = tui.nextId /\ a.shown = tui.shown
      /\ a.requested = tui.requested /\ a.modal = "none" /\ tui.nextId \in Nat \ {0}
  <2>1. Marked(tui.queue, kind) \in Queues
    BY Closed, TurnTypes
  <2>2. QED
    BY <2>1, Closed DEF UIs, Modals
<1> HIDE DEF a
<1>4. /\ u \in UIs /\ u.op = kind /\ u.id = tui.nextId /\ u.nextId = tui.nextId + 1
      /\ u.shown = tui.shown /\ u.requested = tui.requested /\ u.modal = "none"
  BY <1>2, <1>3, BeginFacts
<1>5. s \in Submissions /\ s.op = kind /\ s.id = tui.nextId
  BY <1>2, <1>3 DEF Submission, Submissions, OpKinds, IdleOnly, LocalOps, Switches
<1> HIDE DEF u, s
<1>6. /\ Flight(u, engine, ops \o <<s>>, events)
      /\ ops \o <<s>> \in Seq(Submissions) /\ Len(ops \o <<s>>) <= OpCap
  <2>1. Begins(tui, u, s)
    BY <1>1, <1>2, <1>4, <1>5 DEF Begins, Busy
  <2>2. Flight(u, engine, ops \o <<s>>, events)
    BY <1>4, <1>5, <2>1, Closed, FlightBegins
  <2>3. ops \o <<s>> \in Seq(Submissions) /\ Len(ops \o <<s>>) = Len(ops) + 1
    BY <1>5, Closed, OneFacts
  <2>4. Len(ops) + 1 <= OpCap
    <3>1. Len(ops) \in Nat /\ Room(<<>>) = OpCap - Len(ops)
      BY Closed, Bounds DEF Room
    <3>2. QED
      BY <1>1, <3>1, Bounds
  <2>5. QED
    BY <2>2, <2>3, <2>4
<1>7. s.op # "SetMode"
  BY <1>2, <1>5 DEF IdleOnly, LocalOps, Switches
<1>8. FInvButModal' /\ tui' = u
  BY <1>1, <1>4, <1>5, <1>6, <1>7, OneKeeps
<1>9. ModalHasEngine'
  <2>1. kind # "none"
    BY <1>2 DEF IdleOnly, LocalOps, Switches
  <2>2. QED
    BY <1>4, <1>8, <2>1 DEF ModalHasEngine, Open, Busy
<1>10. QED
  BY <1>8, <1>9 DEF FInv, FInvButModal

\* A modal closes, and the queue goes on if its head waited for it.
LEMMA ClosingSends ==
  ASSUME FInv, NEW a \in UIs, Flight(a, engine, ops, events), ~Busy(a)
  PROVE  Sent([a EXCEPT !.awaits = FALSE], DrainPending([a EXCEPT !.awaits = FALSE]), events)
         /\ [a EXCEPT !.awaits = FALSE] \in UIs
<1> DEFINE u == [a EXCEPT !.awaits = FALSE]
<1>1. /\ u \in UIs /\ u.op = a.op /\ u.id = a.id /\ u.nextId = a.nextId
      /\ u.activity = a.activity
  BY DEF UIs
<1> HIDE DEF u
<1>2. Keeps(a, u, <<>>)
  <2>1. DOMAIN <<>> = {} /\ a.nextId \in Nat
    BY DEF UIs
  <2>2. QED
    BY <1>1, <2>1 DEF Keeps
<1>3. Sent(u, [tui |-> u, sent |-> <<>>], events)
  BY <1>1, <1>2, Closed, QuietSends
<1>4. Flight(u, engine, ops, events)
  <2>1. ops \o <<>> = ops
    BY Closed, ConcatEmptySeq
  <2>2. QED
    BY <1>3, <2>1 DEF Sent
<1>5. Sent(u, DrainPending(u), events)
  BY <1>1, <1>4, Closed, DrainPendingSends DEF Busy
<1>6. QED
  BY <1>1, <1>5 DEF u

LEMMA CloseModalKeeps == ASSUME FInv, CloseModal PROVE FInv'
<1> DEFINE a == [tui EXCEPT !.modal = "none"]
           u == [a EXCEPT !.awaits = FALSE]
<1>1. /\ UNCHANGED <<engine, events, said>>
      /\ IF tui.awaits /\ ~Busy(tui) THEN Pass(DrainPending(u)) ELSE Quietly(a)
  BY DEF CloseModal
<1>2. /\ a \in UIs /\ a.op = tui.op /\ a.id = tui.id /\ a.nextId = tui.nextId
      /\ a.activity = tui.activity /\ a.shown = tui.shown /\ a.requested = tui.requested
      /\ a.modal = "none" /\ a.awaits = tui.awaits
  BY Closed DEF UIs, Modals
<1> HIDE DEF a
<1>3. CASE tui.awaits /\ ~Busy(tui)
  <2>1. Flight(a, engine, ops, events)
    <3>1. ops \o <<>> = ops
      BY Closed, ConcatEmptySeq
    <3>2. QED
      BY <1>2, <3>1, Quiet DEF Sent
  <2>2. u \in UIs /\ Sent(u, DrainPending(u), events)
    BY <1>2, <1>3, <2>1, ClosingSends DEF Busy
  <2>3. /\ u.shown = tui.shown /\ u.requested = tui.requested /\ u.modal = "none"
        /\ u.awaits = FALSE
    BY <1>2 DEF UIs
  <2> HIDE DEF u
  <2> DEFINE r == DrainPending(u)
  <2>4. Pass(r)
    BY <1>1, <1>3
  <2> HIDE DEF r
  <2>5. FInvButModal' /\ tui' = r.tui
    BY <1>1, <2>2, <2>3, <2>4, UserPass DEF r
  <2>6. r.tui.modal = "none" /\ r.tui.awaits = FALSE
    BY <2>2, <2>3 DEF Sent, r
  <2>7. ModalHasEngine'
    BY <2>5, <2>6 DEF ModalHasEngine, Open
  <2>8. QED
    BY <2>5, <2>7 DEF FInv, FInvButModal
<1>4. CASE ~(tui.awaits /\ ~Busy(tui))
  <2>1. FInvButModal' /\ tui' = a
    BY <1>1, <1>2, <1>4, QuietPass
  <2>2. ModalHasEngine'
    BY <1>2, <1>4, <2>1 DEF ModalHasEngine, Open, Busy
  <2>3. QED
    BY <2>1, <2>2 DEF FInv, FInvButModal
<1>5. QED
  BY <1>3, <1>4

LEMMA SlashPromptKeeps == ASSUME FInv, SlashPrompt PROVE FInv'
<1> DEFINE a == [tui EXCEPT !.input = NoPrompt, !.modal = "none"]
           p == tui.input
           o == StartTurn(a, p)
           b == [o.tui EXCEPT !.awaits = FALSE]
<1>1. /\ UNCHANGED <<engine, events, said>> /\ ~Busy(tui) /\ p \in Prompt
      /\ Pass(IF o.tui.awaits /\ ~Busy(o.tui) THEN DrainPending(b) ELSE o)
  BY Closed DEF SlashPrompt
<1>2. /\ a \in UIs /\ a.op = tui.op /\ a.id = tui.id /\ a.nextId = tui.nextId
      /\ a.activity = tui.activity /\ a.shown = tui.shown /\ a.requested = tui.requested
      /\ a.modal = "none" /\ a.awaits = tui.awaits
  BY Closed DEF UIs, Modals
<1> HIDE DEF a, p
<1>3. Flight(a, engine, ops, events)
  <2>1. ops \o <<>> = ops
    BY Closed, ConcatEmptySeq
  <2>2. QED
    BY <1>2, <2>1, Quiet DEF Sent
<1>4. Sent(a, o, events) /\ (~Busy(o.tui) => o.sent = <<>>)
  BY <1>1, <1>2, <1>3, Closed, StartTurnSends DEF Busy
<1> HIDE DEF o
<1>5. CASE o.tui.awaits /\ ~Busy(o.tui)
  <2>1. Flight(o.tui, engine, ops, events) /\ o.tui \in UIs
    <3>1. ops \o <<>> = ops
      BY Closed, ConcatEmptySeq
    <3>2. QED
      BY <1>4, <1>5, <3>1 DEF Sent
  <2>2. b \in UIs /\ Sent(b, DrainPending(b), events)
    BY <1>5, <2>1, ClosingSends
  <2>3. /\ b.shown = tui.shown /\ b.requested = tui.requested /\ b.modal = "none"
        /\ b.awaits = FALSE
    <3>1. /\ o.tui.shown = tui.shown /\ o.tui.requested = tui.requested
          /\ o.tui.modal = "none"
      BY <1>2, <1>4 DEF Sent
    <3>2. QED
      BY <2>1, <3>1 DEF UIs
  <2> HIDE DEF b
  <2> DEFINE r == DrainPending(b)
  <2>4. Pass(r)
    BY <1>1, <1>5
  <2> HIDE DEF r
  <2>5. FInvButModal' /\ tui' = r.tui
    BY <1>1, <2>2, <2>3, <2>4, UserPass DEF r
  <2>6. r.tui.modal = "none" /\ r.tui.awaits = FALSE
    BY <2>2, <2>3 DEF Sent, r
  <2>7. ModalHasEngine'
    BY <2>5, <2>6 DEF ModalHasEngine, Open
  <2>8. QED
    BY <2>5, <2>7 DEF FInv, FInvButModal
<1>6. CASE ~(o.tui.awaits /\ ~Busy(o.tui))
  <2>1. Pass(o)
    BY <1>1, <1>6
  <2>2. FInvButModal' /\ tui' = o.tui
    BY <1>1, <1>2, <1>4, <2>1, UserPass
  <2>3. o.tui.modal = "none"
    BY <1>2, <1>4 DEF Sent
  <2>4. ModalHasEngine'
    BY <1>6, <2>2, <2>3 DEF ModalHasEngine, Open
  <2>5. QED
    BY <2>2, <2>4 DEF FInv, FInvButModal
<1>7. QED
  BY <1>5, <1>6

----------------------------------------------------------------------------
(* The events the UI handles *)

LEMMA EventRead ==
  ASSUME FInv, NEW ev, Next1(ev)
  PROVE  /\ events # <<>> /\ events' = Tail(events) /\ events' \in Seq(EventRecs)
         /\ Head(events) \in EventRecs /\ Head(events) = events[1] /\ Head(events).ev = ev
         /\ 1 \in DOMAIN events
         /\ Brings(events', ShownBy(events'),
                   IF ev = "ModeChanged" THEN Head(events).mode ELSE tui.shown, Effective(engine))
         /\ 1 \notin EndsAt(tui, events) => Flight(tui, engine, ops, events')
<1>1. events # <<>> /\ Head(events).ev = ev /\ events' = Tail(events)
  BY DEF Next1
<1>2. /\ events' \in Seq(EventRecs) /\ Head(events) \in EventRecs /\ Head(events) = events[1]
      /\ Behead(events, events')
  BY <1>1, Closed, TailFacts
<1>3. Brings(events', ShownBy(events'),
             IF ev = "ModeChanged" THEN Head(events).mode ELSE tui.shown, Effective(engine))
  <2>1. Brings(events, ShownBy(events), tui.shown, Effective(engine))
    BY DEF FInv, Followed
  <2>2. QED
    BY <1>1, <2>1, Closed, EventsRead
<1>4. 1 \notin EndsAt(tui, events) => Flight(tui, engine, ops, events')
  BY <1>1, Closed, FlightReads
<1>5. QED
  BY <1>1, <1>2, <1>3, <1>4 DEF Behead

\* The UI reads an event that is not an op's end, and only changes itself.
LEMMA ShowsKeeps ==
  ASSUME FInv, NEW ev, Next1(ev), ev # "OpEnded", NEW u \in UIs, Quietly(u),
         UNCHANGED <<engine, said>>,
         u.op = tui.op, u.id = tui.id, u.nextId = tui.nextId, u.requested = tui.requested,
         Busy(tui) /\ tui.activity = "cancelling" => u.activity = "cancelling",
         u.shown = IF ev = "ModeChanged" THEN Head(events).mode ELSE tui.shown
  PROVE  FInvButModal' /\ tui' = u
<1> DEFINE r == [tui |-> u, sent |-> <<>>]
<1>1. 1 \notin EndsAt(tui, events)
  BY EventRead DEF EndsAt
<1>2. /\ events' \in Seq(EventRecs) /\ Flight(tui, engine, ops, events')
      /\ Brings(events', ShownBy(events'), u.shown, Effective(engine))
  BY <1>1, EventRead
<1>3. Keeps(tui, u, <<>>)
  <2>1. DOMAIN <<>> = {} /\ tui.nextId \in Nat
    BY Closed DEF UIs
  <2>2. QED
    BY <2>1 DEF Keeps
<1>4. Sent(u, r, events')
  BY <1>2, <1>3, Closed, QuietSends
<1>5. Pass(r) /\ r.tui = u /\ engine' = engine /\ said' = said
  BY DEF Quietly
<1> HIDE DEF r
<1>6. QED
  BY <1>2, <1>4, <1>5, PassKeeps

\* An operation that says something of itself is in flight.
LEMMA OwnBusy ==
  ASSUME FInv, NEW ev, Next1(ev), ev \notin {"OpEnded", "ModeChanged"}
  PROVE  Busy(tui) /\ (ev = "SavedFound" => tui.op = "FindSaved")
<1>1. Own(events[1]) /\ 1 \in DOMAIN events /\ events[1].ev = ev
  BY EventRead DEF Own
<1>2. Tells(tui, engine, events)
  BY Closed DEF Flight
<1>3. QED
  BY <1>1, <1>2 DEF Tells

LEMMA SetActivityKeeps == ASSUME FInv, SetActivity PROVE FInv'
<1> DEFINE act == IF Busy(tui) /\ tui.activity # "cancelling" THEN "running" ELSE tui.activity
           u == [tui EXCEPT !.activity = act]
           o == [tui |-> u, sent |-> <<>>]
           r == IF tui.activity = "compacting" THEN ForwardQueued(o) ELSE o
<1>1. /\ Next1("Token") /\ UNCHANGED <<engine, said>>
      /\ Pass(r)
  BY Closed DEF SetActivity, UIs
<1>2. /\ u \in UIs /\ u.op = tui.op /\ u.id = tui.id /\ u.nextId = tui.nextId
      /\ u.shown = tui.shown /\ u.requested = tui.requested
      /\ u.modal = tui.modal /\ u.awaits = tui.awaits
      /\ Busy(tui) /\ tui.activity = "cancelling" => u.activity = "cancelling"
  <2>1. act \in {"none", "running", "compacting", "cancelling"}
    BY Closed DEF UIs
  <2>2. Busy(tui) /\ tui.activity = "cancelling" => act = "cancelling"
    OBVIOUS
  <2> HIDE DEF act
  <2>3. QED
    BY <2>1, <2>2, Closed DEF UIs
<1> HIDE DEF u
<1>3. 1 \notin EndsAt(tui, events)
  BY <1>1, EventRead DEF EndsAt
<1>4. /\ events' \in Seq(EventRecs) /\ Flight(tui, engine, ops, events')
      /\ Brings(events', ShownBy(events'), u.shown, Effective(engine))
  BY <1>1, <1>2, <1>3, EventRead
<1>5. Keeps(tui, u, <<>>)
  <2>1. DOMAIN <<>> = {} /\ tui.nextId \in Nat
    BY Closed DEF UIs
  <2>2. QED
    BY <1>2, <2>1 DEF Keeps
<1>6. Sent(u, o, events') /\ o.tui = u
  BY <1>2, <1>4, <1>5, Closed, QuietSends
<1> HIDE DEF o
<1>7. Sent(u, r, events') /\ r.tui.op = tui.op
  BY <1>2, <1>4, <1>6, Closed, ForwardSends
<1> HIDE DEF r
<1>8. FInvButModal' /\ tui' = r.tui
  BY <1>1, <1>2, <1>4, <1>7, PassKeeps
<1>9. ModalHasEngine'
  <2>1. r.tui.modal = tui.modal /\ r.tui.awaits = tui.awaits
    BY <1>2, <1>7 DEF Sent
  <2>2. QED
    BY <1>7, <1>8, <2>1, Closed DEF ModalHasEngine, Open, Busy
<1>10. QED
  BY <1>8, <1>9 DEF FInv, FInvButModal

LEMMA PromptDrainedKeeps == ASSUME FInv, PromptDrained PROVE FInv'
<1> DEFINE u == [tui EXCEPT !.queue = ConfirmDrained(tui.queue, Head(events).prompt)]
<1>1. Next1("PromptDrained") /\ Quietly(u) /\ UNCHANGED <<engine, said>>
  BY Closed DEF PromptDrained, Shows, UIs
<1>2. /\ u \in UIs /\ u.op = tui.op /\ u.id = tui.id /\ u.nextId = tui.nextId
      /\ u.shown = tui.shown /\ u.requested = tui.requested /\ u.activity = tui.activity
      /\ u.modal = tui.modal /\ u.awaits = tui.awaits
  <2>1. Head(events).prompt \in Prompt \cup {NoPrompt}
    BY <1>1, EventRead DEF EventRecs
  <2>2. ConfirmDrained(tui.queue, Head(events).prompt) \in Queues
    BY <2>1, Closed, TurnTypes
  <2>3. QED
    BY <2>2, Closed DEF UIs
<1> HIDE DEF u
<1>3. FInvButModal' /\ tui' = u
  BY <1>1, <1>2, ShowsKeeps
<1>4. ModalHasEngine'
  BY <1>2, <1>3, Closed DEF ModalHasEngine, Open, Busy
<1>5. QED
  BY <1>3, <1>4 DEF FInv, FInvButModal

LEMMA HandedBackKeeps ==
  ASSUME FInv, TurnRolledBack \/ PromptUnsent \/ AutoCompactionStarted
  PROVE  FInv'
<1>1. ASSUME NEW ev \in {"TurnRolledBack", "PromptUnsent", "AutoCompactionStarted"}, Next1(ev),
             NEW h \in HandBacks,
             NEW act \in {"none", "running", "compacting", "cancelling"},
             tui.activity = "cancelling" => act = "cancelling",
             Quietly([tui EXCEPT !.queue.handBack = h, !.activity = act]),
             UNCHANGED <<engine, said>>
      PROVE  FInv'
  <2> DEFINE q == [tui.queue EXCEPT !.handBack = h]
             u == [tui EXCEPT !.queue = q, !.activity = act]
  <2>1. Quietly(u)
    BY <1>1, Closed DEF UIs
  <2>2. q \in Queues
    BY Closed DEF Queues
  <2> HIDE DEF q
  <2>3. /\ u \in UIs /\ u.op = tui.op /\ u.id = tui.id /\ u.nextId = tui.nextId
        /\ u.shown = tui.shown /\ u.requested = tui.requested /\ u.activity = act
        /\ u.modal = tui.modal /\ u.awaits = tui.awaits
    BY <2>2, Closed DEF UIs
  <2> HIDE DEF u
  <2>4. FInvButModal' /\ tui' = u
    BY <1>1, <2>1, <2>3, ShowsKeeps
  <2>5. ModalHasEngine'
    BY <2>3, <2>4, Closed DEF ModalHasEngine, Open, Busy
  <2>6. QED
    BY <2>4, <2>5 DEF FInv, FInvButModal
<1>2. tui.activity \in {"none", "running", "compacting", "cancelling"} /\ tui \in UIs
  BY Closed DEF UIs
<1>3. CASE TurnRolledBack
  <2>1. [tui EXCEPT !.queue.handBack = "rolledBackTurn"]
          = [tui EXCEPT !.queue.handBack = "rolledBackTurn", !.activity = tui.activity]
    BY <1>2 DEF UIs
  <2>2. Next1("TurnRolledBack") /\ UNCHANGED <<engine, said>>
        /\ Quietly([tui EXCEPT !.queue.handBack = "rolledBackTurn", !.activity = tui.activity])
    BY <1>3, <2>1 DEF TurnRolledBack, Shows
  <2>3. "rolledBackTurn" \in HandBacks
    BY DEF HandBacks
  <2>4. QED
    BY <1>1, <1>2, <2>2, <2>3
<1>4. CASE PromptUnsent
  <2>1. [tui EXCEPT !.queue.handBack = "unsentPrompt"]
          = [tui EXCEPT !.queue.handBack = "unsentPrompt", !.activity = tui.activity]
    BY <1>2 DEF UIs
  <2>2. Next1("PromptUnsent") /\ UNCHANGED <<engine, said>>
        /\ Quietly([tui EXCEPT !.queue.handBack = "unsentPrompt", !.activity = tui.activity])
    BY <1>4, <2>1 DEF PromptUnsent, Shows
  <2>3. "unsentPrompt" \in HandBacks
    BY DEF HandBacks
  <2>4. QED
    BY <1>1, <1>2, <2>2, <2>3
<1>5. CASE AutoCompactionStarted
  <2> DEFINE act == IF tui.activity = "cancelling" THEN tui.activity ELSE "compacting"
  <2>1. Next1("AutoCompactionStarted") /\ UNCHANGED <<engine, said>>
        /\ Quietly([tui EXCEPT !.queue.handBack = "heldQueue", !.activity = act])
    BY <1>2, <1>5 DEF AutoCompactionStarted, Shows, UIs
  <2>2. act \in {"none", "running", "compacting", "cancelling"}
        /\ (tui.activity = "cancelling" => act = "cancelling")
    BY <1>2
  <2> HIDE DEF act
  <2>3. "heldQueue" \in HandBacks
    BY DEF HandBacks
  <2>4. QED
    BY <1>1, <2>1, <2>2, <2>3
<1>6. QED
  BY <1>3, <1>4, <1>5

LEMMA SessionCompactedKeeps == ASSUME FInv, SessionCompacted PROVE FInv'
<1>1. CASE /\ Next1("SessionCompacted")
           /\ Shows([tui EXCEPT !.queue.handBack = "nothing", !.modal = "none"])
  <2> DEFINE q == [tui.queue EXCEPT !.handBack = "nothing"]
             u == [tui EXCEPT !.queue = q, !.modal = "none"]
  <2>1. Quietly(u) /\ UNCHANGED <<engine, said>> /\ Next1("SessionCompacted")
    BY <1>1, Closed DEF Shows, UIs
  <2>2. q \in Queues
    BY Closed, QueueConstants DEF Queues
  <2> HIDE DEF q
  <2>3. /\ u \in UIs /\ u.op = tui.op /\ u.id = tui.id /\ u.nextId = tui.nextId
        /\ u.shown = tui.shown /\ u.requested = tui.requested /\ u.activity = tui.activity
        /\ u.modal = "none"
    BY <2>2, Closed DEF UIs, Modals
  <2> HIDE DEF u
  <2>4. FInvButModal' /\ tui' = u
    BY <2>1, <2>3, ShowsKeeps
  <2>5. Busy(tui)
    BY <2>1, OwnBusy
  <2>6. ModalHasEngine'
    BY <2>3, <2>4, <2>5 DEF ModalHasEngine, Open, Busy
  <2>7. QED
    BY <2>4, <2>6 DEF FInv, FInvButModal
<1>2. CASE /\ Next1("SessionCompactedMidTurn")
           /\ Shows([tui EXCEPT !.queue.handBack = "nothing",
                                !.queue.active = NoPrompt, !.queue.drained = <<>>])
  <2> DEFINE q == [tui.queue EXCEPT !.handBack = "nothing", !.active = NoPrompt, !.drained = <<>>]
             u == [tui EXCEPT !.queue = q]
  <2>1. Quietly(u) /\ UNCHANGED <<engine, said>> /\ Next1("SessionCompactedMidTurn")
    BY <1>2, Closed DEF Shows, UIs
  <2>2. q \in Queues
    BY Closed, QueueConstants DEF Queues
  <2> HIDE DEF q
  <2>3. /\ u \in UIs /\ u.op = tui.op /\ u.id = tui.id /\ u.nextId = tui.nextId
        /\ u.shown = tui.shown /\ u.requested = tui.requested /\ u.activity = tui.activity
        /\ u.modal = tui.modal /\ u.awaits = tui.awaits
    BY <2>2, Closed DEF UIs
  <2> HIDE DEF u
  <2>4. FInvButModal' /\ tui' = u
    BY <2>1, <2>3, ShowsKeeps
  <2>5. ModalHasEngine'
    BY <2>3, <2>4, Closed DEF ModalHasEngine, Open, Busy
  <2>6. QED
    BY <2>4, <2>5 DEF FInv, FInvButModal
<1>3. QED
  BY <1>1, <1>2 DEF SessionCompacted

LEMMA SessionSwitchedKeeps == ASSUME FInv, SessionSwitched PROVE FInv'
<1> DEFINE q == DiscardLeftBehind([tui.queue EXCEPT !.active = NoPrompt])
<1>1. /\ UNCHANGED <<engine, ops, said>>
      /\ \E ev \in {"SessionRolled", "SessionResumed"} : \E m \in {tui.modal, "none"} :
           /\ Next1(ev) /\ tui' = [tui EXCEPT !.epoch = @ + 1, !.modal = m, !.queue = q]
  <2>1. CASE Next1("SessionRolled")
             /\ tui' = [tui EXCEPT !.epoch = @ + 1,
                           !.queue = DiscardLeftBehind([@ EXCEPT !.active = NoPrompt])]
    <3>1. tui' = [tui EXCEPT !.epoch = @ + 1, !.modal = tui.modal, !.queue = q]
      BY <2>1, Closed DEF UIs
    <3>2. QED
      BY <2>1, <3>1 DEF SessionSwitched
  <2>2. CASE Next1("SessionResumed")
             /\ tui' = [tui EXCEPT !.epoch = @ + 1, !.modal = "none",
                           !.queue = DiscardLeftBehind([@ EXCEPT !.active = NoPrompt])]
    <3>1. tui' = [tui EXCEPT !.epoch = @ + 1, !.modal = "none", !.queue = q]
      BY <2>2, Closed DEF UIs
    <3>2. QED
      BY <2>2, <3>1 DEF SessionSwitched
  <2>3. QED
    BY <2>1, <2>2 DEF SessionSwitched
<1>2. PICK ev \in {"SessionRolled", "SessionResumed"}, m \in {tui.modal, "none"} :
        Next1(ev) /\ tui' = [tui EXCEPT !.epoch = @ + 1, !.modal = m, !.queue = q]
  BY <1>1
<1>3. q \in Queues
  <2>1. [tui.queue EXCEPT !.active = NoPrompt] \in Queues
    BY Closed DEF Queues
  <2>2. QED
    BY <2>1, TurnTypes
<1> HIDE DEF q
<1> DEFINE u == [tui EXCEPT !.epoch = tui.epoch + 1, !.modal = m, !.queue = q]
<1>4. /\ u.op = tui.op /\ u.id = tui.id /\ u.nextId = tui.nextId
      /\ u.shown = tui.shown /\ u.requested = tui.requested /\ u.activity = tui.activity
      /\ u.modal = m /\ u.awaits = tui.awaits /\ tui' = u
  BY <1>2, Closed DEF UIs
<1>5. u \in UIs
  <2>1. tui.epoch + 1 \in Nat /\ m \in Modals
    BY Closed DEF UIs, Modals
  <2>2. QED
    BY <1>3, <2>1, Closed DEF UIs
<1> HIDE DEF u
<1>6. Quietly(u)
  <2>1. ops \o <<>> = ops
    BY Closed, ConcatEmptySeq
  <2>2. QED
    BY <1>1, <1>4, <2>1 DEF Quietly, Pass
<1>7. FInvButModal'
  <2>1. UNCHANGED <<engine, said>> /\ ev # "OpEnded" /\ ev # "ModeChanged"
    BY <1>1
  <2>2. QED
    BY <1>2, <1>4, <1>5, <1>6, <2>1, ShowsKeeps
<1>8. Busy(tui)
  BY <1>2, OwnBusy
<1>9. ModalHasEngine'
  BY <1>4, <1>8, Closed DEF ModalHasEngine, Open, Busy
<1>10. QED
  BY <1>7, <1>9 DEF FInv, FInvButModal

LEMMA SavedFoundKeeps == ASSUME FInv, SavedFound PROVE FInv'
<1> DEFINE u == [tui EXCEPT !.modal = "op"]
<1>1. Next1("SavedFound") /\ Quietly(u) /\ UNCHANGED <<engine, said>>
  BY DEF SavedFound, Shows
<1>2. /\ u \in UIs /\ u.op = tui.op /\ u.id = tui.id /\ u.nextId = tui.nextId
      /\ u.shown = tui.shown /\ u.requested = tui.requested /\ u.activity = tui.activity
      /\ u.modal = "op" /\ u.awaits = tui.awaits
  BY Closed DEF UIs, Modals
<1> HIDE DEF u
<1>3. FInvButModal' /\ tui' = u
  BY <1>1, <1>2, ShowsKeeps
<1>4. tui.op = "FindSaved"
  BY <1>1, OwnBusy
<1>5. ModalHasEngine'
  BY <1>2, <1>3, <1>4 DEF ModalHasEngine, Open
<1>6. QED
  BY <1>3, <1>5 DEF FInv, FInvButModal

LEMMA ModeShownKeeps == ASSUME FInv, ModeShown PROVE FInv'
<1> DEFINE u == [tui EXCEPT !.shown = Head(events).mode]
<1>1. Next1("ModeChanged") /\ Quietly(u) /\ UNCHANGED <<engine, said>>
  BY DEF ModeShown, Shows
<1>2. /\ u \in UIs /\ u.op = tui.op /\ u.id = tui.id /\ u.nextId = tui.nextId
      /\ u.shown = Head(events).mode /\ u.requested = tui.requested
      /\ u.activity = tui.activity /\ u.modal = tui.modal /\ u.awaits = tui.awaits
  <2>1. Head(events).mode \in Mode
    BY <1>1, EventRead DEF EventRecs
  <2>2. QED
    BY <2>1, Closed DEF UIs
<1> HIDE DEF u
<1>3. FInvButModal' /\ tui' = u
  BY <1>1, <1>2, ShowsKeeps
<1>4. ModalHasEngine'
  BY <1>2, <1>3, Closed DEF ModalHasEngine, Open, Busy
<1>5. QED
  BY <1>3, <1>4 DEF FInv, FInvButModal

LEMMA EndedKeeps == ASSUME FInv, Ended PROVE FInv'
<1>1. Next1("OpEnded") /\ UNCHANGED <<engine, said>>
  BY DEF Ended
<1>2. CASE Busy(tui) /\ Head(events).id = tui.id
  <2> DEFINE r == EndOperation(tui, Head(events).end)
             w == [tui EXCEPT !.awaits = Open(tui)]
  <2>1. Pass(r)
    BY <1>2 DEF Ended
  <2>2. 1 \in EndsAt(tui, events)
    BY <1>1, <1>2, EventRead DEF EndsAt
  <2>3. Sent(w, r, Tail(events)) /\ (Open(tui) => ~Busy(r.tui))
    <3>1. events # <<>>
      BY <1>1, EventRead
    <3>2. QED
      BY <1>2, <2>2, <3>1, Closed, EndOperationSends
  <2>4. /\ w \in UIs /\ w.shown = tui.shown /\ w.requested = tui.requested
        /\ w.modal = tui.modal /\ w.awaits = Open(tui)
    <3>1. Open(tui) \in BOOLEAN
      BY DEF Open
    <3>2. QED
      BY <3>1, Closed DEF UIs
  <2> HIDE DEF r, w
  <2>5. FInvButModal' /\ tui' = r.tui
    <3>1. /\ events' = Tail(events) /\ events' \in Seq(EventRecs)
          /\ Brings(events', ShownBy(events'), w.shown, Effective(engine))
      BY <1>1, <2>4, EventRead
    <3>2. Sent(w, r, events')
      BY <2>3, <3>1
    <3>3. engine' = engine /\ said' = said /\ w \in UIs /\ w.requested = tui.requested
      BY <1>1, <2>4
    <3>4. QED
      BY <2>1, <3>1, <3>2, <3>3, PassKeeps
  <2>6. r.tui.modal = tui.modal /\ r.tui.awaits = Open(tui)
    BY <2>3, <2>4 DEF Sent
  <2>7. ModalHasEngine'
    <3>1. CASE Open(tui)
      <4>1. r.tui.op = "none" /\ r.tui.modal # "none"
        BY <2>3, <2>6, <3>1 DEF Busy, Open
      <4>2. QED
        BY <2>5, <4>1 DEF ModalHasEngine, Open, Busy
    <3>2. CASE ~Open(tui)
      <4>1. r.tui.modal = "none" /\ ~r.tui.awaits
        BY <2>6, <3>2 DEF Open
      <4>2. QED
        BY <2>5, <4>1 DEF ModalHasEngine, Open
    <3>3. QED
      BY <3>1, <3>2
  <2>8. QED
    BY <2>5, <2>7 DEF FInv, FInvButModal
<1>3. CASE ~(Busy(tui) /\ Head(events).id = tui.id)
  <2>1. 1 \notin EndsAt(tui, events)
    <3>1. SUFFICES ASSUME ~Busy(tui), Head(events).id = tui.id PROVE FALSE
      BY <1>1, <1>3, EventRead DEF EndsAt
    <3>2. tui.id = 0 /\ events[1].id # 0
      BY <1>1, <3>1, EventRead, Closed DEF Flight, Numbered, Busy
    <3>3. QED
      BY <1>1, <3>1, <3>2, EventRead
  <2> DEFINE r == [tui |-> tui, sent |-> <<>>]
  <2>2. Pass(r)
    BY <1>3 DEF Ended
  <2>3. /\ events' \in Seq(EventRecs) /\ Flight(tui, engine, ops, events')
        /\ Brings(events', ShownBy(events'), tui.shown, Effective(engine))
    BY <1>1, <2>1, EventRead
  <2>4. Keeps(tui, tui, <<>>)
    <3>1. DOMAIN <<>> = {} /\ tui.nextId \in Nat
      BY Closed DEF UIs
    <3>2. QED
      BY <3>1 DEF Keeps
  <2>5. Sent(tui, r, events') /\ r.tui = tui
    BY <2>3, <2>4, Closed, QuietSends
  <2> HIDE DEF r
  <2>6. FInvButModal' /\ tui' = tui
    BY <1>1, <2>2, <2>3, <2>5, Closed, PassKeeps
  <2>7. ModalHasEngine'
    BY <2>6, Closed DEF ModalHasEngine, Open, Busy
  <2>8. QED
    BY <2>6, <2>7 DEF FInv, FInvButModal
<1>4. QED
  BY <1>2, <1>3

----------------------------------------------------------------------------
(* What the engine says and keeps *)

\* Nothing of a mode, of a lookup or of an end.
Plain(evs) ==
  \A k \in DOMAIN evs : evs[k].ev \notin {"OpEnded", "SavedFound", "ModeChanged"}

PlainKinds == EventKinds \ {"OpEnded", "SavedFound", "ModeChanged"}

LEMMA EventTypes ==
  /\ \A ev \in EventKinds \ {"ModeChanged"} : Event(ev) \in EventRecs /\ Event(ev).ev = ev
  /\ \A id \in Nat, e \in Ends :
       OpEnded(id, e) \in EventRecs /\ OpEnded(id, e).ev = "OpEnded" /\ OpEnded(id, e).id = id
  /\ \A m \in Mode :
       ModeChanged(m) \in EventRecs /\ ModeChanged(m).ev = "ModeChanged" /\ ModeChanged(m).mode = m
<1>1. \A ev \in EventKinds \ {"ModeChanged"} : Event(ev) \in EventRecs /\ Event(ev).ev = ev
  BY DEF Event, EventRecs
<1>2. ASSUME NEW id \in Nat, NEW e \in Ends
      PROVE  OpEnded(id, e) \in EventRecs /\ OpEnded(id, e).ev = "OpEnded" /\ OpEnded(id, e).id = id
  BY DEF OpEnded, Event, EventRecs, EventKinds
<1>3. ASSUME NEW m \in Mode
      PROVE  /\ ModeChanged(m) \in EventRecs /\ ModeChanged(m).ev = "ModeChanged"
             /\ ModeChanged(m).mode = m
  BY DEF ModeChanged, Event, EventRecs, EventKinds
<1>4. QED
  BY <1>1, <1>2, <1>3

LEMMA PlainEmpty == <<>> \in Seq(EventRecs) /\ Plain(<<>>)
<1>1. DOMAIN <<>> = {}
  OBVIOUS
<1>2. QED
  BY <1>1, EmptySeq DEF Plain

LEMMA PlainOne ==
  ASSUME NEW ev \in PlainKinds
  PROVE  <<Event(ev)>> \in Seq(EventRecs) /\ Plain(<<Event(ev)>>)
<1>1. Event(ev) \in EventRecs /\ Event(ev).ev = ev
  BY EventTypes DEF PlainKinds
<1> DEFINE x == Event(ev)
<1> HIDE DEF x
<1>2. <<x>> \in Seq(EventRecs) /\ DOMAIN <<x>> = {1} /\ <<x>>[1] = x
  BY <1>1 DEF x
<1>3. QED
  BY <1>1, <1>2 DEF Plain, PlainKinds, x

LEMMA PlainJoined ==
  ASSUME NEW a \in Seq(EventRecs), NEW b \in Seq(EventRecs), Plain(a), Plain(b)
  PROVE  a \o b \in Seq(EventRecs) /\ Plain(a \o b)
<1>1. a \o b \in Seq(EventRecs) /\ Joined(a, b, a \o b, Len(a))
  BY ConcatFacts
<1>2. QED
  BY <1>1 DEF Plain, Joined

LEMMA PlainDrained ==
  ASSUME NEW ps \in Seq(Prompt)
  PROVE  Drained(ps) \in Seq(EventRecs) /\ Plain(Drained(ps))
<1> DEFINE n == Len(ps)
           f == [i \in 1..n |-> [Event("PromptDrained") EXCEPT !.prompt = ps[i]]]
<1>1. n \in Nat /\ \A i \in 1..n : ps[i] \in Prompt
  OBVIOUS
<1>2. ASSUME NEW x \in Prompt
      PROVE  /\ [Event("PromptDrained") EXCEPT !.prompt = x] \in EventRecs
             /\ [Event("PromptDrained") EXCEPT !.prompt = x].ev = "PromptDrained"
  BY DEF Event, EventRecs, EventKinds
<1> HIDE DEF n
<1>3. f \in [1..n -> EventRecs] /\ \A i \in 1..n : f[i].ev = "PromptDrained"
  BY <1>1, <1>2
<1>4. Drained(ps) = f
  BY DEF Drained, n
<1> HIDE DEF f
<1>5. f \in Seq(EventRecs) /\ DOMAIN f = 1..n
  BY <1>1, <1>3, SeqOfFunction
<1>6. QED
  BY <1>3, <1>4, <1>5 DEF Plain

LEMMA PlainSays ==
  ASSUME NEW evs, Plain(evs), NEW m
  PROVE  Says(evs) /\ ShownBy(evs) = {} /\ Brings(evs, ShownBy(evs), m, m)
BY DEF Plain, Says, ShownBy, Brings

LEMMA RecordTypes ==
  ASSUME engine \in Engines, NEW ps \in Seq(Prompt \cup {NoPrompt})
  PROVE  Records(ps) \in Seq(Entries)
<1> DEFINE n == Len(ps)
           f == [i \in 1..n |-> [prompt |-> ps[i], session |-> engine.session]]
<1>1. n \in Nat /\ engine.session \in Nat /\ \A i \in 1..n : ps[i] \in Prompt \cup {NoPrompt}
  BY DEF Engines
<1> HIDE DEF n
<1>2. f \in [1..n -> Entries]
  BY <1>1 DEF Entries
<1>3. f \in Seq(Entries)
  BY <1>1, <1>2, SeqOfFunction
<1>4. QED
  BY <1>3 DEF Records, n

LEMMA EngineFields ==
  ASSUME NEW e \in Engines
  PROVE  /\ e.phase \in Phases /\ e.id \in Nat /\ e.op \in IdleOnly \cup {"none"}
         /\ e.prompt \in Prompt \cup {NoPrompt} /\ e.mailbox \in Seq(Prompt)
         /\ e.mode \in Mode \cup {NoMode} /\ e.policy \in Mode /\ e.round \in Nat
         /\ e.mark \in Nat /\ e.session \in Nat
BY DEF Engines

LEMMA AppliedTypes ==
  ASSUME NEW e \in Engines
  PROVE  LET f == ModeApplied(e)
         IN  /\ f \in Engines /\ f.mode = NoMode /\ Effective(f) = Effective(e)
             /\ f.phase = e.phase /\ f.id = e.id /\ f.op = e.op /\ f.mailbox = e.mailbox
             /\ f.prompt = e.prompt /\ f.round = e.round /\ f.mark = e.mark
             /\ f.session = e.session
<1> DEFINE m == IF e.mode = NoMode THEN e.policy ELSE e.mode
           f == [e EXCEPT !.policy = m, !.mode = NoMode]
<1>1. m \in Mode /\ m = Effective(e)
  BY EngineFields DEF Effective
<1>2. ModeApplied(e) = f
  BY DEF ModeApplied, Engines
<1> HIDE DEF m
<1>3. f \in Engines
  BY <1>1 DEF Engines
<1>4. /\ f.mode = NoMode /\ f.policy = m
      /\ f.phase = e.phase /\ f.id = e.id /\ f.op = e.op /\ f.mailbox = e.mailbox
      /\ f.prompt = e.prompt /\ f.round = e.round /\ f.mark = e.mark
      /\ f.session = e.session
  BY DEF Engines
<1> HIDE DEF f
<1>5. Effective(f) = m
  BY <1>4 DEF Effective
<1>6. QED
  BY <1>1, <1>2, <1>3, <1>4, <1>5

----------------------------------------------------------------------------
(* The steps of the engine *)

\* An operation runs, as `e` says, and the ops behind it are `os`.
Ready(e, os) ==
  /\ e \in Engines /\ e.phase # "idle" /\ e.mark <= Len(said)
  /\ e.phase = "local" => e.mode = NoMode
  /\ os \in Seq(Submissions) /\ Len(os) <= OpCap
  /\ Flight(tui, e, os, events)
  /\ Brings(events, ShownBy(events), tui.shown, Effective(e))
  /\ Brings(os, ModesOf(os), Effective(e), tui.requested)

LEMMA EngineFacts ==
  ASSUME FInv
  PROVE  /\ engine \in Engines /\ said \in Seq(Entries) /\ engine.mark <= Len(said)
         /\ Brings(events, ShownBy(events), tui.shown, Effective(engine))
         /\ Brings(ops, ModesOf(ops), Effective(engine), tui.requested)
         /\ engine.phase \in {"idle", "local"} => engine.mode = NoMode
         /\ engine.phase # "idle" => Asks(ops) = {}
BY DEF FInv, Typed, Followed, Resting, Flight, Stages

LEMMA ReadyRuns == ASSUME FInv, engine.phase # "idle" PROVE Ready(engine, ops)
BY Closed, EngineFacts DEF Ready

LEMMA Taken ==
  ASSUME FInv, NEW kinds, Received(kinds)
  PROVE  /\ ops # <<>> /\ ops' = Tail(ops) /\ tui' = tui /\ Head(ops).op \in kinds
         /\ Head(ops) \in Submissions /\ Head(ops) = ops[1] /\ 1 \in DOMAIN ops
         /\ ops' \in Seq(Submissions) /\ Len(ops') <= OpCap
         /\ Brings(ops', ModesOf(ops'),
                   IF Head(ops).op = "SetMode" THEN Head(ops).mode ELSE Effective(engine),
                   tui.requested)
         /\ engine.phase # "idle" => Head(ops).op \notin IdleOnly
<1>1. ops # <<>> /\ ops' = Tail(ops) /\ tui' = tui /\ Head(ops).op \in kinds
  BY DEF Received
<1>2. /\ Tail(ops) \in Seq(Submissions) /\ Head(ops) \in Submissions /\ Head(ops) = ops[1]
      /\ Behead(ops, Tail(ops)) /\ Len(Tail(ops)) = Len(ops) - 1
  BY <1>1, Closed, TailFacts
<1>3. Len(Tail(ops)) <= OpCap
  <2>1. Len(ops) \in Nat /\ OpCap \in Nat /\ Len(ops) <= OpCap
    BY Closed, Bounds
  <2>2. QED
    BY <1>2, <2>1
<1>4. 1 \in DOMAIN ops
  BY <1>2 DEF Behead
<1>5. engine.phase # "idle" => Head(ops).op \notin IdleOnly
  BY <1>2, <1>4, EngineFacts DEF Asks
<1>6. Brings(Tail(ops), ModesOf(Tail(ops)),
             IF Head(ops).op = "SetMode" THEN Head(ops).mode ELSE Effective(engine),
             tui.requested)
  BY <1>1, Closed, EngineFacts, OpsTaken
<1>7. QED
  BY <1>1, <1>2, <1>3, <1>4, <1>5, <1>6

LEMMA ReadyAbsorbs ==
  ASSUME FInv, NEW kinds, Received(kinds), engine.phase # "idle", "SetMode" \notin kinds
  PROVE  Ready(engine, ops')
<1>1. Flight(tui, engine, ops', events)
  BY Taken, Closed, FlightTakes
<1>2. Head(ops).op # "SetMode"
  BY Taken
<1>3. Brings(ops', ModesOf(ops'), Effective(engine), tui.requested)
  BY <1>2, Taken
<1>4. QED
  BY <1>1, <1>3, Taken, EngineFacts DEF Ready

LEMMA ReadyServed ==
  ASSUME FInv, NEW kinds, Received(kinds), kinds \subseteq IdleOnly, Idle,
         NEW phase \in Phases \ {"idle"}
  PROVE  Ready(Serving(phase), ops')
<1> DEFINE f == [engine EXCEPT !.phase = phase, !.id = Head(ops).id, !.op = Head(ops).op,
                               !.prompt = Head(ops).prompt]
<1>1. Serving(phase) = f
  BY DEF Serving
<1>2. Head(ops).op \in IdleOnly /\ Head(ops).id \in Nat /\ Head(ops).prompt \in Prompt \cup {NoPrompt}
  BY Taken DEF Submissions
<1>3. f \in Engines
  BY <1>2, Closed DEF Engines
<1>4. /\ f.phase = phase /\ f.id = Head(ops).id /\ f.op = Head(ops).op /\ f.mode = engine.mode
      /\ f.policy = engine.policy /\ f.mark = engine.mark
  BY Closed DEF Engines
<1> HIDE DEF f
<1>5. Flight(tui, f, ops', events)
  BY <1>2, <1>3, <1>4, Taken, Closed, FlightServed
<1>6. Effective(f) = Effective(engine) /\ f.mode = NoMode
  BY <1>4, EngineFacts DEF Effective, Idle
<1>7. Head(ops).op # "SetMode"
  BY <1>2 DEF IdleOnly, LocalOps, Switches
<1>8. /\ Brings(ops', ModesOf(ops'), Effective(f), tui.requested)
      /\ Brings(events, ShownBy(events), tui.shown, Effective(f))
  BY <1>6, <1>7, Taken, EngineFacts
<1>9. QED
  BY <1>1, <1>3, <1>4, <1>5, <1>6, <1>8, Taken, EngineFacts DEF Ready

LEMMA EngineStep ==
  ASSUME FInv, tui' = tui, engine' \in Engines, said' \in Seq(Entries), engine'.mark <= Len(said'),
         ops' \in Seq(Submissions), Len(ops') <= OpCap, events' \in Seq(EventRecs),
         Flight(tui, engine', ops', events'), engine'.phase \in {"idle", "local"} => engine'.mode = NoMode,
         Brings(events', ShownBy(events'), tui.shown, Effective(engine')),
         Brings(ops', ModesOf(ops'), Effective(engine'), tui.requested)
  PROVE  FInv'
<1>1. Typed'
  BY Closed DEF Typed
<1>2. Flight(tui', engine', ops', events') /\ Resting' /\ Followed'
  BY DEF Resting, Followed
<1>3. ModalHasEngine'
  BY Closed DEF ModalHasEngine, Open, Busy
<1>4. QED
  BY <1>1, <1>2, <1>3 DEF FInv

\* The operation goes on, and says so.
LEMMA SayKeeps ==
  ASSUME FInv, tui' = tui, NEW e, Ready(e, ops'), NEW evs \in Seq(EventRecs), Plain(evs),
         Emit(evs), engine' \in Engines, engine'.phase # "idle",
         engine'.phase = "local" => engine'.mode = NoMode,
         engine'.id = e.id, engine'.op = e.op, Effective(engine') = Effective(e),
         said' \in Seq(Entries), engine'.mark <= Len(said')
  PROVE  FInv'
<1>1. events' = events \o evs
  BY DEF Emit
<1>2. /\ e \in Engines /\ e.phase # "idle" /\ ops' \in Seq(Submissions) /\ Len(ops') <= OpCap
      /\ Flight(tui, e, ops', events)
      /\ Brings(events, ShownBy(events), tui.shown, Effective(e))
      /\ Brings(ops', ModesOf(ops'), Effective(e), tui.requested)
  BY DEF Ready
<1>3. Says(evs) /\ Brings(evs, ShownBy(evs), Effective(e), Effective(e))
  BY PlainSays
<1>4. events' \in Seq(EventRecs)
  BY <1>1, Closed, ConcatProperties
<1>5. Flight(tui, engine', ops', events')
  BY <1>1, <1>2, <1>3, Closed, FlightSays
<1>6. Brings(events', ShownBy(events'), tui.shown, Effective(engine'))
  BY <1>1, <1>2, <1>3, Closed, EventsBring
<1>7. QED
  BY <1>2, <1>4, <1>5, <1>6, EngineStep

\* The operation says nothing.
LEMMA SilentKeeps ==
  ASSUME FInv, tui' = tui, NEW e, Ready(e, ops'), events' = events, engine' \in Engines,
         engine'.phase # "idle", engine'.phase = "local" => engine'.mode = NoMode,
         engine'.id = e.id, engine'.op = e.op, Effective(engine') = Effective(e),
         said' \in Seq(Entries), engine'.mark <= Len(said')
  PROVE  FInv'
<1>1. Emit(<<>>)
  BY Closed, ConcatEmptySeq DEF Emit
<1>2. QED
  BY <1>1, PlainEmpty, SayKeeps

\* The operation ends.
LEMMA EndKeeps ==
  ASSUME FInv, tui' = tui, Ready(engine, ops'), NEW end \in Ends, NEW evs \in Seq(EventRecs),
         Plain(evs), End(end, evs), said' \in Seq(Entries)
  PROVE  FInv'
<1> DEFINE x == OpEnded(engine.id, end)
           a == ModeApplied(engine)
           f == [a EXCEPT !.phase = "idle", !.id = 0, !.op = "none",
                          !.prompt = NoPrompt, !.mailbox = <<>>, !.round = 0, !.mark = 0]
<1>1. engine' = f /\ events' = events \o (evs \o <<x>>)
  BY DEF End, Emit
<1>2. /\ engine.phase # "idle" /\ ops' \in Seq(Submissions) /\ Len(ops') <= OpCap
      /\ Flight(tui, engine, ops', events)
      /\ Brings(events, ShownBy(events), tui.shown, Effective(engine))
      /\ Brings(ops', ModesOf(ops'), Effective(engine), tui.requested)
  BY DEF Ready
<1>3. a \in Engines /\ a.mode = NoMode /\ Effective(a) = Effective(engine)
  BY Closed, AppliedTypes
<1> HIDE DEF a
<1>4. /\ f \in Engines /\ f.phase = "idle" /\ f.mode = NoMode /\ f.mark = 0 /\ f.policy = a.policy
  <2>1. <<>> \in Seq(Prompt) /\ "idle" \in Phases
    BY QueueConstants DEF Phases
  <2>2. f \in Engines
    BY <1>3, <2>1 DEF Engines
  <2>3. QED
    BY <1>3, <2>2 DEF Engines
<1> HIDE DEF f
<1>5. Effective(f) = Effective(engine)
  BY <1>3, <1>4 DEF Effective
<1>6. x \in EventRecs /\ x.ev = "OpEnded" /\ x.id = engine.id
  BY Closed, EngineFields, EventTypes
<1> HIDE DEF x
<1>7. <<x>> \in Seq(EventRecs) /\ DOMAIN <<x>> = {1} /\ <<x>>[1] = x
  BY <1>6
<1>8. /\ evs \o <<x>> \in Seq(EventRecs)
      /\ ShownBy(evs \o <<x>>) = {}
  <2>1. evs \o <<x>> \in Seq(EventRecs) /\ Joined(evs, <<x>>, evs \o <<x>>, Len(evs))
    BY <1>7, ConcatFacts
  <2>2. QED
    BY <1>6, <1>7, <2>1 DEF ShownBy, Joined, Plain
<1>9. events' \in Seq(EventRecs)
  BY <1>1, <1>8, Closed, ConcatProperties
<1>10. Flight(tui, engine', ops', events')
  <2>1. \A k \in DOMAIN evs : evs[k].ev # "OpEnded" /\ (evs[k].ev = "SavedFound" => engine.op = "FindSaved")
    BY DEF Plain
  <2>2. QED
    BY <1>1, <1>2, <1>4, <1>6, <2>1, Closed, FlightEnds
<1>11. Brings(events', ShownBy(events'), tui.shown, Effective(engine'))
  <2>1. Brings(evs \o <<x>>, ShownBy(evs \o <<x>>), Effective(engine), Effective(engine))
    BY <1>8 DEF Brings
  <2>2. QED
    BY <1>1, <1>2, <1>5, <1>8, <2>1, Closed, EventsBring
<1>12. engine'.mark <= Len(said')
  BY <1>1, <1>4
<1>13. QED
  BY <1>1, <1>2, <1>4, <1>5, <1>9, <1>10, <1>11, <1>12, EngineStep

\* The operation goes on in another state.
LEMMA ReadySame ==
  ASSUME FInv, NEW e, NEW os, Ready(e, os), NEW f \in Engines, f.phase # "idle",
         f.phase = "local" => f.mode = NoMode, f.mark <= Len(said),
         f.id = e.id, f.op = e.op, Effective(f) = Effective(e)
  PROVE  Ready(f, os)
<1>1. /\ e \in Engines /\ e.phase # "idle" /\ os \in Seq(Submissions) /\ Len(os) <= OpCap
      /\ Flight(tui, e, os, events)
      /\ Brings(events, ShownBy(events), tui.shown, Effective(e))
      /\ Brings(os, ModesOf(os), Effective(e), tui.requested)
  BY DEF Ready
<1>2. Says(<<>>)
  BY PlainEmpty, PlainSays
<1>3. Flight(tui, f, os, events \o <<>>)
  BY <1>1, <1>2, PlainEmpty, Closed, FlightSays
<1>4. events \o <<>> = events
  BY Closed, ConcatEmptySeq
<1>5. QED
  BY <1>1, <1>3, <1>4 DEF Ready

LEMMA SaidTypes ==
  ASSUME FInv, NEW ps \in Seq(Prompt \cup {NoPrompt})
  PROVE  /\ said \o Records(ps) \in Seq(Entries)
         /\ Len(said) <= Len(said \o Records(ps)) /\ Len(said) \in Nat
<1>1. Records(ps) \in Seq(Entries) /\ said \in Seq(Entries)
  BY Closed, EngineFacts, RecordTypes
<1>2. /\ said \o Records(ps) \in Seq(Entries)
      /\ Len(said \o Records(ps)) = Len(said) + Len(Records(ps))
  BY <1>1, ConcatFacts
<1>3. Len(said) \in Nat /\ Len(Records(ps)) \in Nat
  BY <1>1, LenProperties
<1>4. QED
  BY <1>2, <1>3

\* Prompts the operation recorded.
LEMMA MailboxTypes ==
  ASSUME NEW e \in Engines
  PROVE  /\ e.mailbox \in Seq(Prompt \cup {NoPrompt})
         /\ <<e.prompt>> \o e.mailbox \in Seq(Prompt \cup {NoPrompt})
         /\ Drained(e.mailbox) \in Seq(EventRecs) /\ Plain(Drained(e.mailbox))
<1>1. e.mailbox \in Seq(Prompt) /\ e.prompt \in Prompt \cup {NoPrompt}
  BY EngineFields
<1>2. e.mailbox \in Seq(Prompt \cup {NoPrompt})
  BY <1>1
<1>3. <<e.prompt>> \in Seq(Prompt \cup {NoPrompt})
  BY <1>1
<1>4. QED
  BY <1>1, <1>2, <1>3, ConcatProperties, PlainDrained

LEMMA DrainKeeps ==
  ASSUME FInv, tui' = tui, NEW e, Ready(e, ops'), e.phase # "local", NEW evs \in Seq(EventRecs),
         Plain(evs), Drain(e, evs)
  PROVE  FInv'
<1>1. e \in Engines /\ e.phase # "idle" /\ e.mark <= Len(said)
  BY DEF Ready
<1> DEFINE f == [e EXCEPT !.mailbox = <<>>]
<1>2. /\ said' = said \o Records(e.mailbox) /\ Emit(evs \o Drained(e.mailbox)) /\ engine' = f
  BY DEF Drain
<1>3. f \in Engines
  BY <1>1, QueueConstants DEF Engines
<1>4. /\ f.phase = e.phase /\ f.id = e.id /\ f.op = e.op /\ f.mode = e.mode
      /\ f.policy = e.policy /\ f.mark = e.mark
  BY <1>1 DEF Engines
<1> HIDE DEF f
<1>5. Effective(f) = Effective(e)
  BY <1>4 DEF Effective
<1>6. said' \in Seq(Entries) /\ engine'.mark <= Len(said')
  <2>1. /\ said' \in Seq(Entries) /\ Len(said) <= Len(said') /\ Len(said) \in Nat
    BY <1>1, <1>2, MailboxTypes, SaidTypes
  <2>2. Len(said') \in Nat /\ e.mark \in Nat
    BY <1>1, <2>1, LenProperties, EngineFields
  <2>3. QED
    BY <1>1, <1>2, <1>4, <2>1, <2>2
<1>7. evs \o Drained(e.mailbox) \in Seq(EventRecs) /\ Plain(evs \o Drained(e.mailbox))
  BY <1>1, MailboxTypes, PlainJoined
<1>8. QED
  BY <1>1, <1>2, <1>3, <1>4, <1>5, <1>6, <1>7, SayKeeps

LEMMA BeginTurnKeeps ==
  ASSUME FInv, tui' = tui, NEW e, Ready(e, ops'), NEW evs \in Seq(EventRecs),
         Plain(evs), BeginTurn(e, evs)
  PROVE  FInv'
<1>1. e \in Engines /\ e.phase # "idle" /\ e.mark <= Len(said)
  BY DEF Ready
<1> DEFINE a == ModeApplied(e)
           f == [a EXCEPT !.phase = "request", !.mailbox = <<>>, !.mark = Len(said)]
<1>2. /\ said' = said \o Records(<<e.prompt>> \o e.mailbox) /\ Emit(evs \o Drained(e.mailbox))
      /\ engine' = f
  BY DEF BeginTurn
<1>3. /\ a \in Engines /\ a.mode = NoMode /\ Effective(a) = Effective(e) /\ a.id = e.id
      /\ a.op = e.op
  BY <1>1, AppliedTypes
<1> HIDE DEF a
<1>4. /\ said' \in Seq(Entries) /\ Len(said) <= Len(said') /\ Len(said) \in Nat
  BY <1>1, <1>2, MailboxTypes, SaidTypes
<1>5. f \in Engines
  <2>1. "request" \in Phases /\ <<>> \in Seq(Prompt)
    BY QueueConstants DEF Phases, Racing
  <2>2. QED
    BY <1>3, <1>4, <2>1 DEF Engines
<1>6. /\ f.phase = "request" /\ f.id = a.id /\ f.op = a.op /\ f.mode = a.mode
      /\ f.policy = a.policy /\ f.mark = Len(said)
  BY <1>3 DEF Engines
<1> HIDE DEF f
<1>7. Effective(f) = Effective(e)
  BY <1>3, <1>6 DEF Effective
<1>8. engine'.mark <= Len(said')
  BY <1>2, <1>4, <1>6
<1>9. evs \o Drained(e.mailbox) \in Seq(EventRecs) /\ Plain(evs \o Drained(e.mailbox))
  BY <1>1, MailboxTypes, PlainJoined
<1>10. QED
  BY <1>1, <1>2, <1>3, <1>4, <1>5, <1>6, <1>7, <1>8, <1>9, SayKeeps

\* A change of phase.
LEMMA PhaseTypes ==
  ASSUME NEW e \in Engines, NEW phase \in Phases
  PROVE  LET f == [e EXCEPT !.phase = phase]
         IN  /\ f \in Engines /\ f.phase = phase /\ f.id = e.id /\ f.op = e.op
             /\ f.mode = e.mode /\ f.policy = e.policy /\ f.mark = e.mark
             /\ Effective(f) = Effective(e)
<1> DEFINE f == [e EXCEPT !.phase = phase]
<1>1. f \in Engines
  BY DEF Engines
<1>2. /\ f.phase = phase /\ f.id = e.id /\ f.op = e.op
      /\ f.mode = e.mode /\ f.policy = e.policy /\ f.mark = e.mark
  BY DEF Engines
<1> HIDE DEF f
<1>3. Effective(f) = Effective(e)
  BY <1>2 DEF Effective
<1>4. QED
  BY <1>1, <1>2, <1>3 DEF f

\* The operation goes on to another phase, and says so.
LEMMA PhaseKeeps ==
  ASSUME FInv, tui' = tui, NEW e, Ready(e, ops'), NEW phase \in Racing,
         engine' = [e EXCEPT !.phase = phase], NEW evs \in Seq(EventRecs), Plain(evs), Emit(evs),
         said' = said
  PROVE  FInv'
<1>1. e \in Engines /\ e.mark <= Len(said)
  BY DEF Ready
<1>2. phase \in Phases /\ phase \notin {"idle", "local"}
  BY DEF Phases, Racing
<1>3. /\ engine' \in Engines /\ engine'.phase = phase /\ engine'.id = e.id /\ engine'.op = e.op
      /\ engine'.mark = e.mark /\ Effective(engine') = Effective(e)
  BY <1>1, <1>2, PhaseTypes
<1>4. said' \in Seq(Entries)
  BY EngineFacts
<1>5. QED
  BY <1>1, <1>2, <1>3, <1>4, SayKeeps

LEMMA SignedInKeeps ==
  ASSUME FInv, tui' = tui, NEW e, Ready(e, ops'), SignedIn(e)
  PROVE  FInv'
<1>1. CASE BeginTurn(e, <<>>)
  BY <1>1, PlainEmpty, BeginTurnKeeps
<1>2. CASE /\ engine' = [e EXCEPT !.phase = "autoCompact"]
           /\ Emit(<<Event("AutoCompactionStarted")>>)
           /\ UNCHANGED said
  <2>1. "AutoCompactionStarted" \in PlainKinds /\ "autoCompact" \in Racing
    BY DEF PlainKinds, EventKinds, Racing
  <2>2. QED
    BY <1>2, <2>1, PlainOne, PhaseKeeps
<1>3. QED
  BY <1>1, <1>2 DEF SignedIn

----------------------------------------------------------------------------
(* The actions of the engine *)

\* The id of an op that starts nothing is not the operation's.
LEMMA TakenNumber ==
  ASSUME FInv, NEW kinds, Received(kinds), kinds \cap IdleOnly = {}
  PROVE  /\ Head(ops).op \notin IdleOnly /\ Head(ops).id \in (1..tui.nextId - 1) \ {tui.id}
         /\ Flight(tui, engine, ops', events)
<1>1. /\ ops # <<>> /\ Head(ops) = ops[1] /\ 1 \in DOMAIN ops /\ Head(ops).op \in kinds
      /\ Head(ops) \in Submissions /\ ops' = Tail(ops)
  BY Taken
<1>2. Head(ops).op \notin IdleOnly
  BY <1>1
<1>3. Numbered(tui, ops, events)
  BY Closed DEF Flight
<1>4. Head(ops).id < tui.nextId /\ Head(ops).id # tui.id
  BY <1>1, <1>2, <1>3 DEF Numbered
<1>5. Head(ops).id \in Nat \ {0} /\ tui.nextId \in Nat
  BY <1>1, Closed DEF Submissions, UIs
<1>6. Flight(tui, engine, ops', events)
  BY <1>1, <1>2, Closed, FlightTakes
<1>7. QED
  BY <1>2, <1>4, <1>5, <1>6

LEMMA ServeStaleKeeps == ASSUME FInv, ServeStale PROVE FInv'
<1> DEFINE kinds == {"Queue", "Interrupt", "LoginCode"}
           x == OpEnded(Head(ops).id, "Completed")
<1>1. /\ Idle /\ Received(kinds) /\ events' = events \o <<x>> /\ engine' = engine /\ said' = said
  BY DEF ServeStale, Emit
<1>2. kinds \cap IdleOnly = {} /\ "SetMode" \notin kinds
  BY DEF IdleOnly, LocalOps, Switches
<1> HIDE DEF kinds
<1>3. /\ Head(ops).op # "SetMode" /\ tui' = tui /\ ops' \in Seq(Submissions) /\ Len(ops') <= OpCap
      /\ Brings(ops', ModesOf(ops'), Effective(engine), tui.requested)
  BY <1>1, <1>2, Taken
<1>4. /\ Head(ops).id \in (1..tui.nextId - 1) \ {tui.id} /\ Head(ops).id \in Nat
      /\ Flight(tui, engine, ops', events)
  BY <1>1, <1>2, TakenNumber
<1>5. x \in EventRecs /\ x.ev = "OpEnded" /\ x.id = Head(ops).id
  BY <1>4, EventTypes DEF Ends
<1> HIDE DEF x
<1>6. <<x>> \in Seq(EventRecs) /\ DOMAIN <<x>> = {1} /\ <<x>>[1] = x
  BY <1>5
<1>7. Flight(tui, engine, ops', events \o <<x>>)
  BY <1>1, <1>3, <1>4, <1>5, <1>6, Closed, FlightAnswers DEF Own, Idle
<1>8. Brings(<<x>>, ShownBy(<<x>>), Effective(engine), Effective(engine))
  BY <1>5, <1>6 DEF Brings, ShownBy
<1>9. Brings(events', ShownBy(events'), tui.shown, Effective(engine))
  BY <1>1, <1>6, <1>8, Closed, EngineFacts, EventsBring
<1>10. events' \in Seq(EventRecs)
  BY <1>1, <1>6, Closed, ConcatProperties
<1>11. QED
  BY <1>1, <1>3, <1>7, <1>9, <1>10, EngineFacts, EngineStep

LEMMA ServeModeKeeps == ASSUME FInv, ServeMode PROVE FInv'
<1> DEFINE m == Head(ops).mode
           x == ModeChanged(m)
           y == OpEnded(Head(ops).id, "Completed")
           f == [engine EXCEPT !.policy = m]
<1>1. /\ Idle /\ Received({"SetMode"}) /\ events' = events \o <<x, y>> /\ engine' = f /\ said' = said
  BY DEF ServeMode, Emit
<1>2. {"SetMode"} \cap IdleOnly = {}
  BY DEF IdleOnly, LocalOps, Switches
<1>3. /\ Head(ops).op = "SetMode" /\ Head(ops) \in Submissions /\ tui' = tui
      /\ ops' \in Seq(Submissions) /\ Len(ops') <= OpCap
      /\ Brings(ops', ModesOf(ops'), m, tui.requested)
  BY <1>1, Taken
<1>4. /\ Head(ops).id \in (1..tui.nextId - 1) \ {tui.id} /\ Head(ops).id \in Nat
      /\ Flight(tui, engine, ops', events)
  BY <1>1, <1>2, TakenNumber
<1>5. m \in Mode
  BY <1>3 DEF Submissions
<1>6. /\ x \in EventRecs /\ x.ev = "ModeChanged" /\ x.mode = m
      /\ y \in EventRecs /\ y.ev = "OpEnded" /\ y.id = Head(ops).id
  BY <1>4, <1>5, EventTypes DEF Ends
<1>7. engine.phase = "idle" /\ engine.mode = NoMode
  BY <1>1, EngineFacts DEF Idle
<1>8. /\ f \in Engines /\ f.phase = "idle" /\ f.mode = NoMode /\ f.policy = m
      /\ f.mark = engine.mark
  BY <1>5, <1>7, Closed DEF Engines
<1> HIDE DEF x, y, f, m
<1>9. Effective(f) = m
  BY <1>8 DEF Effective
<1>10. /\ <<x, y>> \in Seq(EventRecs) /\ DOMAIN <<x, y>> = {1, 2} /\ <<x, y>>[1] = x
       /\ <<x, y>>[2] = y
  BY <1>6
<1>11. Flight(tui, f, ops', events \o <<x, y>>)
  BY <1>1, <1>3, <1>4, <1>6, <1>7, <1>8, <1>10, Closed, FlightAnswers DEF Own
<1>12. Brings(<<x, y>>, ShownBy(<<x, y>>), Effective(engine), m)
  <2>1. ShownBy(<<x, y>>) = {1}
    BY <1>6, <1>10 DEF ShownBy
  <2>2. QED
    BY <1>6, <1>10, <2>1 DEF Brings
<1>13. Brings(events', ShownBy(events'), tui.shown, m)
  BY <1>1, <1>10, <1>12, Closed, EngineFacts, EventsBring
<1>14. events' \in Seq(EventRecs)
  BY <1>1, <1>10, Closed, ConcatProperties
<1>15. QED
  BY <1>1, <1>3, <1>8, <1>9, <1>11, <1>13, <1>14, EngineFacts, EngineStep

LEMMA ServeLocalKeeps == ASSUME FInv, ServeLocal PROVE FInv'
<1>1. Idle /\ Received(LocalOps) /\ engine' = Serving("local") /\ events' = events /\ said' = said
  BY DEF ServeLocal
<1>2. LocalOps \subseteq IdleOnly /\ "local" \in Phases \ {"idle"}
  BY DEF IdleOnly, LocalOps, Phases
<1>3. Ready(Serving("local"), ops') /\ tui' = tui
  BY <1>1, <1>2, ReadyServed, Taken
<1>4. engine' \in Engines /\ engine'.phase # "idle" /\ engine'.mark <= Len(said')
      /\ (engine'.phase = "local" => engine'.mode = NoMode)
  BY <1>1, <1>3 DEF Ready
<1>5. QED
  BY <1>1, <1>3, <1>4, EngineFacts, SilentKeeps

\* What an idle engine starts, and says nothing of.
LEMMA ServedKeeps ==
  ASSUME FInv, NEW kinds, Received(kinds), kinds \subseteq IdleOnly, Idle,
         NEW phase \in Racing, engine' = Serving(phase), events' = events, said' = said
  PROVE  FInv'
<1>1. phase \in Phases \ {"idle"}
  BY DEF Phases, Racing
<1>2. Ready(Serving(phase), ops') /\ tui' = tui
  BY <1>1, ReadyServed, Taken
<1>3. engine' \in Engines /\ engine'.phase # "idle" /\ engine'.mark <= Len(said')
      /\ (engine'.phase = "local" => engine'.mode = NoMode)
  BY <1>2 DEF Ready
<1>4. QED
  BY <1>2, <1>3, EngineFacts, SilentKeeps

LEMMA ServeRacingKeeps == ASSUME FInv, ServeRacing PROVE FInv'
<1> DEFINE phase == IF Head(ops).op = "Login" THEN "login" ELSE "compact"
<1>1. /\ Idle /\ Received({"Compact", "Login"}) /\ engine' = Serving(phase)
      /\ events' = events /\ said' = said
  BY DEF ServeRacing
<1>2. {"Compact", "Login"} \subseteq IdleOnly /\ phase \in Racing
  BY DEF IdleOnly, Racing
<1> HIDE DEF phase
<1>3. QED
  BY <1>1, <1>2, ServedKeeps

LEMMA ServePromptKeeps == ASSUME FInv, ServePrompt PROVE FInv'
<1>1. Idle /\ Received({"Prompt"}) /\ {"Prompt"} \subseteq IdleOnly /\ "signIn" \in Racing
      /\ "signIn" \in Phases \ {"idle"}
  BY DEF ServePrompt, IdleOnly, Racing, Phases
<1>2. CASE SignedIn(Serving("signIn"))
  BY <1>1, <1>2, ReadyServed, Taken, SignedInKeeps
<1>3. CASE engine' = Serving("signIn") /\ UNCHANGED <<events, said>>
  BY <1>1, <1>3, ServedKeeps
<1>4. QED
  BY <1>2, <1>3 DEF ServePrompt

LEMMA ServeKeeps == ASSUME FInv, Serve PROVE FInv'
BY ServeStaleKeeps, ServeModeKeeps, ServeLocalKeeps, ServeRacingKeeps, ServePromptKeeps DEF Serve

LEMMA AbsorbQueueKeeps == ASSUME FInv, AbsorbQueue PROVE FInv'
<1> DEFINE f == [engine EXCEPT !.mailbox = Append(@, Head(ops).prompt)]
<1>1. /\ engine.phase \in Racing /\ Received({"Queue"}) /\ engine' = f
      /\ events' = events /\ said' = said
  BY DEF AbsorbQueue
<1>2. Ready(engine, ops') /\ tui' = tui
  BY <1>1, ReadyAbsorbs, Taken DEF Racing
<1>3. Head(ops).op = "Queue" /\ Head(ops) \in Submissions
  BY <1>1, Taken
<1>4. Head(ops).prompt \in Prompt
  BY <1>3 DEF Submissions
<1>5. Append(engine.mailbox, Head(ops).prompt) \in Seq(Prompt)
  BY <1>4, Closed, EngineFields, AppendProperties
<1>6. f \in Engines
  BY <1>5, Closed DEF Engines
<1>7. /\ f.phase = engine.phase /\ f.id = engine.id /\ f.op = engine.op /\ f.mode = engine.mode
      /\ f.policy = engine.policy /\ f.mark = engine.mark
  BY Closed DEF Engines
<1> HIDE DEF f
<1>8. Effective(f) = Effective(engine)
  BY <1>7 DEF Effective
<1>9. f.phase \notin {"idle", "local"}
  BY <1>1, <1>7 DEF Racing
<1>10. QED
  BY <1>1, <1>2, <1>6, <1>7, <1>8, <1>9, EngineFacts, SilentKeeps

LEMMA AbsorbModeKeeps == ASSUME FInv, AbsorbMode PROVE FInv'
<1> DEFINE m == Head(ops).mode
           x == ModeChanged(m)
           f == [engine EXCEPT !.mode = m]
<1>1. /\ engine.phase \in Racing /\ Received({"SetMode"}) /\ engine' = f
      /\ events' = events \o <<x>> /\ said' = said
  BY DEF AbsorbMode, Emit
<1>2. {"SetMode"} \cap IdleOnly = {}
  BY DEF IdleOnly, LocalOps, Switches
<1>3. /\ Head(ops).op = "SetMode" /\ Head(ops) \in Submissions /\ tui' = tui
      /\ ops' \in Seq(Submissions) /\ Len(ops') <= OpCap
      /\ Brings(ops', ModesOf(ops'), m, tui.requested)
  BY <1>1, Taken
<1>4. Flight(tui, engine, ops', events)
  BY <1>1, <1>2, TakenNumber
<1>5. m \in Mode
  BY <1>3 DEF Submissions
<1>6. x \in EventRecs /\ x.ev = "ModeChanged" /\ x.mode = m
  BY <1>5, EventTypes
<1>7. engine.phase \notin {"idle", "local"}
  BY <1>1 DEF Racing
<1>8. /\ f \in Engines /\ f.phase = engine.phase /\ f.mode = m /\ f.id = engine.id
      /\ f.op = engine.op /\ f.mark = engine.mark
  BY <1>5, Closed DEF Engines
<1> HIDE DEF x, f, m
<1>9. Effective(f) = m
  BY <1>5, <1>8, Modes DEF Effective
<1>10. <<x>> \in Seq(EventRecs) /\ DOMAIN <<x>> = {1} /\ <<x>>[1] = x
  BY <1>6
<1>11. Says(<<x>>)
  BY <1>6, <1>10 DEF Says
<1>12. Flight(tui, f, ops', events \o <<x>>)
  BY <1>3, <1>4, <1>7, <1>8, <1>10, <1>11, Closed, FlightSays
<1>13. Brings(<<x>>, ShownBy(<<x>>), Effective(engine), m)
  <2>1. ShownBy(<<x>>) = {1}
    BY <1>6, <1>10 DEF ShownBy
  <2>2. QED
    BY <1>6, <1>10, <2>1 DEF Brings
<1>14. Brings(events', ShownBy(events'), tui.shown, m)
  BY <1>1, <1>10, <1>13, Closed, EngineFacts, EventsBring
<1>15. events' \in Seq(EventRecs)
  BY <1>1, <1>10, Closed, ConcatProperties
<1>16. QED
  BY <1>1, <1>3, <1>7, <1>8, <1>9, <1>12, <1>14, <1>15, EngineFacts, EngineStep

\* The operation ends with nothing more recorded.
LEMMA OverKeeps ==
  ASSUME FInv, tui' = tui, Ready(engine, ops'), NEW end \in Ends, NEW evs \in Seq(EventRecs),
         Plain(evs), End(end, evs), said' = said
  PROVE  FInv'
BY EngineFacts, EndKeeps

LEMMA UnsentKeeps ==
  ASSUME FInv, tui' = tui, Ready(engine, ops'), NEW end \in Ends, Unsent(end)
  PROVE  FInv'
<1>1. "PromptUnsent" \in PlainKinds
  BY DEF PlainKinds, EventKinds
<1>2. QED
  BY <1>1, PlainOne, OverKeeps DEF Unsent

LEMMA AbsorbInterruptKeeps == ASSUME FInv, AbsorbInterrupt PROVE FInv'
<1>1. engine.phase \in Racing /\ Received({"Interrupt"}) /\ "Cancelled" \in Ends
  BY DEF AbsorbInterrupt, Ends
<1>2. Ready(engine, ops') /\ tui' = tui
  BY <1>1, ReadyAbsorbs, Taken DEF Racing
<1>3. CASE Unsent("Cancelled")
  BY <1>1, <1>2, <1>3, UnsentKeeps
<1>4. CASE End("Cancelled", <<>>) /\ UNCHANGED said
  BY <1>1, <1>2, <1>4, PlainEmpty, OverKeeps
<1>5. QED
  BY <1>3, <1>4 DEF AbsorbInterrupt

LEMMA AbsorbCodeKeeps == ASSUME FInv, AbsorbCode PROVE FInv'
<1>1. /\ engine.phase = "login" /\ Received({"LoginCode"})
      /\ Emit(<<>>) /\ events' = events /\ said' = said
  BY Closed, ConcatEmptySeq DEF AbsorbCode, Emit
<1>2. Ready(engine, ops') /\ tui' = tui
  BY <1>1, ReadyAbsorbs, Taken
<1>3. CASE engine' = [engine EXCEPT !.phase = "finishLogin"]
  <2>1. "finishLogin" \in Racing
    BY DEF Racing
  <2>2. QED
    BY <1>1, <1>2, <1>3, <2>1, PlainEmpty, PhaseKeeps
<1>4. CASE UNCHANGED engine
  BY <1>1, <1>2, <1>4, Closed, EngineFacts, SilentKeeps
<1>5. QED
  BY <1>3, <1>4 DEF AbsorbCode

LEMMA AbsorbOtherKeeps == ASSUME FInv, AbsorbOther PROVE FInv'
<1> DEFINE kinds == IF engine.phase = "login" THEN IdleOnly ELSE IdleOnly \cup {"LoginCode"}
<1>1. engine.phase \in Racing /\ Received(kinds) /\ engine' = engine /\ events' = events /\ said' = said
  BY DEF AbsorbOther
<1>2. "SetMode" \notin kinds /\ engine.phase \notin {"idle", "local"}
  BY <1>1 DEF Racing, IdleOnly, LocalOps, Switches
<1> HIDE DEF kinds
<1>3. Ready(engine, ops') /\ tui' = tui
  BY <1>1, <1>2, ReadyAbsorbs, Taken
<1>4. QED
  BY <1>1, <1>2, <1>3, Closed, EngineFacts, SilentKeeps

LEMMA AbsorbKeeps == ASSUME FInv, Absorb PROVE FInv'
BY AbsorbQueueKeeps, AbsorbModeKeeps, AbsorbInterruptKeeps, AbsorbCodeKeeps, AbsorbOtherKeeps
   DEF Absorb

\* An operation whose own future wins the race.
LEMMA RacedReady ==
  ASSUME FInv, NEW phases \in SUBSET Racing, Raced(phases)
  PROVE  /\ Ready(engine, ops') /\ tui' = tui /\ engine.phase \in phases
         /\ engine.phase \notin {"idle", "local"}
<1>1. engine.phase \in phases /\ ops' = ops /\ tui' = tui
  BY DEF Raced
<1>2. engine.phase \notin {"idle", "local"}
  BY <1>1 DEF Racing
<1>3. QED
  BY <1>1, <1>2, ReadyRuns

LEMMA RacingPhases ==
  /\ {"signIn"} \subseteq Racing /\ {"autoCompact"} \subseteq Racing /\ {"compact"} \subseteq Racing
  /\ {"login"} \subseteq Racing /\ {"finishLogin"} \subseteq Racing
  /\ {"login", "finishLogin"} \subseteq Racing /\ {"request"} \subseteq Racing
  /\ {"request", "reply"} \subseteq Racing /\ {"tools"} \subseteq Racing
  /\ {"midTurnCompact"} \subseteq Racing /\ Racing \subseteq Phases
BY DEF Racing, Phases

LEMMA PlainWords ==
  {"Token", "SessionCompacted", "SessionCompactedMidTurn", "TurnRolledBack",
   "AutoCompactionStarted"} \subseteq PlainKinds
BY DEF PlainKinds, EventKinds

LEMMA SignInKeeps == ASSUME FInv, SignIn PROVE FInv'
<1>1. Ready(engine, ops') /\ tui' = tui
  BY RacingPhases, RacedReady DEF SignIn
<1>2. QED
  BY <1>1, SignedInKeeps, UnsentKeeps DEF SignIn, Ends

LEMMA AutoCompactKeeps == ASSUME FInv, AutoCompact PROVE FInv'
<1>1. Ready(engine, ops') /\ tui' = tui
  BY RacingPhases, RacedReady DEF AutoCompact
<1>2. CASE BeginTurn(engine, <<Event("SessionCompacted")>>)
  BY <1>1, <1>2, PlainWords, PlainOne, BeginTurnKeeps
<1>3. CASE Unsent("Failed")
  BY <1>1, <1>3, UnsentKeeps DEF Ends
<1>4. QED
  BY <1>2, <1>3 DEF AutoCompact

LEMMA CompactKeeps == ASSUME FInv, Compact PROVE FInv'
<1>1. Ready(engine, ops') /\ tui' = tui /\ said' = said /\ {"Completed", "Failed"} \subseteq Ends
  BY RacingPhases, RacedReady DEF Compact, Ends
<1>2. CASE End("Completed", <<Event("SessionCompacted")>>)
  BY <1>1, <1>2, PlainWords, PlainOne, OverKeeps
<1>3. CASE End("Failed", <<>>)
  BY <1>1, <1>3, PlainEmpty, OverKeeps
<1>4. QED
  BY <1>2, <1>3 DEF Compact

LEMMA LoginKeeps == ASSUME FInv, Login PROVE FInv'
<1>1. said' = said /\ {"Completed", "Failed"} \subseteq Ends
  BY DEF Login, Ends
<1>2. CASE Raced({"login"}) /\ engine' = [engine EXCEPT !.phase = "finishLogin"] /\ UNCHANGED events
  <2>1. Ready(engine, ops') /\ tui' = tui /\ "finishLogin" \in Racing
    BY <1>2, RacingPhases, RacedReady
  <2>2. Emit(<<>>)
    BY <1>2, Closed, ConcatEmptySeq DEF Emit
  <2>3. QED
    BY <1>1, <1>2, <2>1, <2>2, PlainEmpty, PhaseKeeps
<1>3. CASE Raced({"login", "finishLogin"}) /\ End("Failed", <<>>)
  <2>1. Ready(engine, ops') /\ tui' = tui
    BY <1>3, RacingPhases, RacedReady
  <2>2. QED
    BY <1>1, <1>3, <2>1, PlainEmpty, OverKeeps
<1>4. CASE Raced({"finishLogin"}) /\ End("Completed", <<>>)
  <2>1. Ready(engine, ops') /\ tui' = tui
    BY <1>4, RacingPhases, RacedReady
  <2>2. QED
    BY <1>1, <1>4, <2>1, PlainEmpty, OverKeeps
<1>5. QED
  BY <1>2, <1>3, <1>4 DEF Login

LEMMA StreamKeeps == ASSUME FInv, Stream PROVE FInv'
<1>1. /\ Ready(engine, ops') /\ tui' = tui /\ said' = said /\ "reply" \in Racing
      /\ engine' = [engine EXCEPT !.phase = "reply"] /\ Emit(<<Event("Token")>>)
  BY RacingPhases, RacedReady DEF Stream
<1>2. QED
  BY <1>1, PlainWords, PlainOne, PhaseKeeps

LEMMA CallToolsKeeps == ASSUME FInv, CallTools PROVE FInv'
<1>1. /\ Ready(engine, ops') /\ tui' = tui /\ said' = said /\ "tools" \in Racing
      /\ engine' = [engine EXCEPT !.phase = "tools"] /\ Emit(<<Event("Token")>>)
  BY RacingPhases, RacedReady DEF CallTools
<1>2. QED
  BY <1>1, PlainWords, PlainOne, PhaseKeeps

LEMMA PauseKeeps == ASSUME FInv, Pause PROVE FInv'
<1>1. Ready(engine, ops') /\ tui' = tui /\ said' = said /\ "Failed" \in Ends
  BY RacingPhases, RacedReady DEF Pause, Ends
<1>2. CASE End("Failed", <<>>)
  BY <1>1, <1>2, PlainEmpty, OverKeeps
<1>3. CASE engine' = [engine EXCEPT !.phase = "request", !.round = @ + 1] /\ UNCHANGED events
  <2> DEFINE f == [engine EXCEPT !.phase = "request", !.round = @ + 1]
  <2>1. "request" \in Phases /\ engine.round + 1 \in Nat
    BY Closed, EngineFields DEF Phases, Racing
  <2>2. f \in Engines
    BY <2>1, Closed DEF Engines
  <2>3. /\ f.phase = "request" /\ f.id = engine.id /\ f.op = engine.op /\ f.mode = engine.mode
        /\ f.policy = engine.policy /\ f.mark = engine.mark
    BY Closed DEF Engines
  <2>4. engine' = f /\ events' = events
    BY <1>3
  <2> HIDE DEF f
  <2>5. Effective(f) = Effective(engine)
    BY <2>3 DEF Effective
  <2>6. QED
    BY <1>1, <2>2, <2>3, <2>4, <2>5, Closed, EngineFacts, SilentKeeps
<1>4. QED
  BY <1>2, <1>3 DEF Pause

LEMMA ReplyKeeps == ASSUME FInv, Reply PROVE FInv'
<1>1. Ready(engine, ops') /\ tui' = tui /\ said' = said /\ {"Completed", "Failed"} \subseteq Ends
  BY RacingPhases, RacedReady DEF Reply, Ends
<1>2. QED
  BY <1>1, PlainEmpty, OverKeeps DEF Reply

LEMMA RefuseKeeps == ASSUME FInv, Refuse PROVE FInv'
<1>1. /\ Ready(engine, ops') /\ tui' = tui /\ said' = SubSeq(said, 1, engine.mark)
      /\ End("Failed", <<Event("TurnRolledBack")>>) /\ "Failed" \in Ends
  BY RacingPhases, RacedReady DEF Refuse, Ends
<1>2. said' \in Seq(Entries)
  <2>1. said \in Seq(Entries) /\ engine.mark \in Nat /\ engine.mark <= Len(said)
    BY Closed, EngineFacts, EngineFields
  <2>2. \A i \in 1..engine.mark : said[i] \in Entries
    BY <2>1
  <2>3. QED
    BY <1>1, <2>1, <2>2, SubSeqProperties
<1>3. QED
  BY <1>1, <1>2, PlainWords, PlainOne, EndKeeps

LEMMA GateKeeps == ASSUME FInv, Gate PROVE FInv'
<1>1. /\ Ready(engine, ops') /\ tui' = tui /\ engine.phase \notin {"idle", "local"}
      /\ engine' = ModeApplied(engine) /\ events' = events /\ said' = said
  BY RacingPhases, RacedReady DEF Gate
<1>2. QED
  BY <1>1, Closed, EngineFacts, AppliedTypes, SilentKeeps

LEMMA AbortApprovalKeeps == ASSUME FInv, AbortApproval PROVE FInv'
<1>1. /\ Ready(engine, ops') /\ tui' = tui /\ said' = said /\ "Cancelled" \in Ends
      /\ End("Cancelled", <<>>)
  BY RacingPhases, RacedReady DEF AbortApproval, Ends
<1>2. QED
  BY <1>1, PlainEmpty, OverKeeps

LEMMA MidTurnCompactKeeps == ASSUME FInv, MidTurnCompact PROVE FInv'
<1>1. /\ Ready(engine, ops') /\ tui' = tui /\ "Failed" \in Ends
  BY RacingPhases, RacedReady DEF MidTurnCompact, Ends
<1>2. CASE Drain([ModeApplied(engine) EXCEPT !.phase = "request", !.mark = Len(said)],
                 <<Event("SessionCompactedMidTurn")>>)
  <2> DEFINE a == ModeApplied(engine)
             f == [a EXCEPT !.phase = "request", !.mark = Len(said)]
  <2>1. /\ a \in Engines /\ a.mode = NoMode /\ Effective(a) = Effective(engine)
        /\ a.id = engine.id /\ a.op = engine.op
    BY Closed, AppliedTypes
  <2> HIDE DEF a
  <2>2. "request" \in Phases /\ Len(said) \in Nat
    BY EngineFacts, LenProperties DEF Phases, Racing
  <2>3. f \in Engines
    BY <2>1, <2>2 DEF Engines
  <2>4. /\ f.phase = "request" /\ f.id = engine.id /\ f.op = engine.op /\ f.mode = NoMode
        /\ f.policy = a.policy /\ f.mark = Len(said)
    BY <2>1 DEF Engines
  <2>5. Drain(f, <<Event("SessionCompactedMidTurn")>>)
    BY <1>2 DEF a
  <2> HIDE DEF f
  <2>6. Effective(f) = Effective(engine)
    BY <2>1, <2>4 DEF Effective
  <2>7. f.mark <= Len(said)
    BY <2>2, <2>4
  <2>8. Ready(f, ops')
    BY <1>1, <2>3, <2>4, <2>6, <2>7, ReadySame
  <2>9. QED
    BY <1>1, <2>4, <2>5, <2>8, PlainWords, PlainOne, DrainKeeps
<1>3. CASE End("Failed", <<>>) /\ UNCHANGED said
  BY <1>1, <1>3, PlainEmpty, OverKeeps
<1>4. QED
  BY <1>2, <1>3 DEF MidTurnCompact

LEMMA RoundDoneKeeps == ASSUME FInv, RoundDone PROVE FInv'
<1> DEFINE a == ModeApplied(engine)
           e == [a EXCEPT !.round = @ + 1]
<1>1. /\ Ready(engine, ops') /\ tui' = tui /\ "Failed" \in Ends
  BY RacingPhases, RacedReady DEF RoundDone, Ends
<1>2. /\ a \in Engines /\ a.mode = NoMode /\ Effective(a) = Effective(engine)
      /\ a.id = engine.id /\ a.op = engine.op /\ a.mark = engine.mark
      /\ a.mailbox = engine.mailbox
  BY Closed, AppliedTypes
<1>3. \/ /\ said' = said \o Records(e.mailbox)
         /\ End("Failed", Drained(e.mailbox))
      \/ Drain([e EXCEPT !.phase = "request"], <<>>)
      \/ /\ said' = said \o Records(e.mailbox)
         /\ Emit(Append(Drained(e.mailbox), Event("AutoCompactionStarted")))
         /\ engine' = [e EXCEPT !.phase = "midTurnCompact", !.mailbox = <<>>]
  BY DEF RoundDone
<1> HIDE DEF a
<1>4. e \in Engines
  <2>1. a.round + 1 \in Nat
    BY <1>2, EngineFields
  <2>2. QED
    BY <1>2, <2>1 DEF Engines
<1>5. /\ e.id = engine.id /\ e.op = engine.op /\ e.mode = NoMode /\ e.policy = a.policy
      /\ e.mark = engine.mark /\ e.mailbox = engine.mailbox
  BY <1>2 DEF Engines
<1> HIDE DEF e
<1>6. Effective(e) = Effective(engine) /\ e.mark <= Len(said)
  BY <1>2, <1>5, EngineFacts DEF Effective
<1>7. /\ said \o Records(e.mailbox) \in Seq(Entries)
      /\ Len(said) <= Len(said \o Records(e.mailbox)) /\ Len(said) \in Nat
  BY <1>4, MailboxTypes, SaidTypes
<1>8. CASE said' = said \o Records(e.mailbox) /\ End("Failed", Drained(e.mailbox))
  BY <1>1, <1>4, <1>7, <1>8, MailboxTypes, EndKeeps
<1>9. CASE Drain([e EXCEPT !.phase = "request"], <<>>)
  <2> DEFINE f == [e EXCEPT !.phase = "request"]
  <2>1. "request" \in Phases
    BY DEF Phases, Racing
  <2>2. /\ f \in Engines /\ f.phase = "request" /\ f.id = e.id /\ f.op = e.op /\ f.mode = e.mode
        /\ f.mark = e.mark /\ Effective(f) = Effective(e)
    BY <1>4, <2>1, PhaseTypes
  <2> HIDE DEF f
  <2>3. Ready(f, ops')
    BY <1>1, <1>5, <1>6, <2>2, ReadySame
  <2>4. Drain(f, <<>>)
    BY <1>9 DEF f
  <2>5. QED
    BY <1>1, <2>2, <2>3, <2>4, PlainEmpty, DrainKeeps
<1>10. CASE /\ said' = said \o Records(e.mailbox)
            /\ Emit(Append(Drained(e.mailbox), Event("AutoCompactionStarted")))
            /\ engine' = [e EXCEPT !.phase = "midTurnCompact", !.mailbox = <<>>]
  <2> DEFINE f == [e EXCEPT !.phase = "midTurnCompact", !.mailbox = <<>>]
             d == Drained(e.mailbox)
             x == Event("AutoCompactionStarted")
  <2>1. "midTurnCompact" \in Phases /\ <<>> \in Seq(Prompt)
    BY QueueConstants DEF Phases, Racing
  <2>2. f \in Engines
    BY <1>4, <2>1 DEF Engines
  <2>3. /\ f.phase = "midTurnCompact" /\ f.id = e.id /\ f.op = e.op /\ f.mode = e.mode
        /\ f.policy = e.policy /\ f.mark = e.mark
    BY <1>4 DEF Engines
  <2>4. engine' = f /\ Emit(Append(d, x)) /\ said' = said \o Records(e.mailbox)
    BY <1>10
  <2>5. d \in Seq(EventRecs) /\ Plain(d)
    BY <1>4, MailboxTypes
  <2>6. <<x>> \in Seq(EventRecs) /\ Plain(<<x>>)
    BY PlainWords, PlainOne
  <2>7. x \in EventRecs
    BY EventTypes DEF EventKinds
  <2> HIDE DEF f, d, x
  <2>8. Append(d, x) = d \o <<x>>
    BY <2>5, <2>7, AppendIsConcat
  <2>9. d \o <<x>> \in Seq(EventRecs) /\ Plain(d \o <<x>>)
    BY <2>5, <2>6, PlainJoined
  <2>10. Effective(f) = Effective(engine)
    BY <1>6, <2>3 DEF Effective
  <2>11. engine'.mark <= Len(said')
    <3>1. e.mark \in Nat /\ Len(said') \in Nat
      BY <1>4, <1>7, <2>4, EngineFields, LenProperties
    <3>2. QED
      BY <1>6, <1>7, <2>3, <2>4, <3>1
  <2>12. QED
    BY <1>1, <1>5, <1>7, <2>2, <2>3, <2>4, <2>8, <2>9, <2>10, <2>11, SayKeeps
<1>11. QED
  BY <1>3, <1>8, <1>9, <1>10

LEMMA ProgressKeeps == ASSUME FInv, Progress PROVE FInv'
BY SignInKeeps, AutoCompactKeeps, CompactKeeps, LoginKeeps, StreamKeeps, PauseKeeps, ReplyKeeps,
   RefuseKeeps, CallToolsKeeps, GateKeeps, RoundDoneKeeps, AbortApprovalKeeps, MidTurnCompactKeeps
   DEF Progress

\* A switch, a lookup or a rename ends with its last words.
LEMMA LocalEnds ==
  ASSUME FInv, tui' = tui, ops' = ops, said' = said, engine.phase = "local",
         engine' \in Engines, engine'.phase = "idle", engine'.mode = engine.mode,
         engine'.policy = engine.policy, engine'.mark = engine.mark,
         NEW end \in Ends, NEW evs \in Seq(EventRecs),
         \A k \in DOMAIN evs : /\ evs[k].ev \notin {"OpEnded", "ModeChanged"}
                               /\ evs[k].ev = "SavedFound" => engine.op = "FindSaved",
         Emit(evs \o <<OpEnded(engine.id, end)>>)
  PROVE  FInv'
<1> DEFINE x == OpEnded(engine.id, end)
<1>1. events' = events \o (evs \o <<x>>)
  BY DEF Emit
<1>2. x \in EventRecs /\ x.ev = "OpEnded" /\ x.id = engine.id
  BY Closed, EngineFields, EventTypes
<1> HIDE DEF x
<1>3. <<x>> \in Seq(EventRecs) /\ DOMAIN <<x>> = {1} /\ <<x>>[1] = x
  BY <1>2
<1>4. evs \o <<x>> \in Seq(EventRecs) /\ ShownBy(evs \o <<x>>) = {}
  <2>1. evs \o <<x>> \in Seq(EventRecs) /\ Joined(evs, <<x>>, evs \o <<x>>, Len(evs))
    BY <1>3, ConcatFacts
  <2>2. QED
    BY <1>2, <1>3, <2>1 DEF ShownBy, Joined
<1>5. events' \in Seq(EventRecs)
  BY <1>1, <1>4, Closed, ConcatProperties
<1>6. Effective(engine') = Effective(engine)
  BY DEF Effective
<1>7. Flight(tui, engine', ops', events')
  BY <1>1, <1>2, Closed, FlightEnds
<1>8. Brings(evs \o <<x>>, ShownBy(evs \o <<x>>), Effective(engine), Effective(engine))
  BY <1>4 DEF Brings
<1>9. Brings(events', ShownBy(events'), tui.shown, Effective(engine'))
  BY <1>1, <1>4, <1>6, <1>8, Closed, EngineFacts, EventsBring
<1>10. QED
  BY <1>5, <1>6, <1>7, <1>9, Closed, EngineFacts, EngineStep

LEMMA RunLocalKeeps == ASSUME FInv, RunLocal PROVE FInv'
<1> DEFINE over == [engine EXCEPT !.phase = "idle", !.id = 0, !.op = "none"]
<1>1. /\ engine.phase = "local" /\ tui' = tui /\ ops' = ops /\ said' = said
      /\ {"Completed", "Failed"} \subseteq Ends
  BY DEF RunLocal, Ends
<1>2. /\ over \in Engines /\ over.phase = "idle" /\ over.mode = engine.mode
      /\ over.policy = engine.policy /\ over.mark = engine.mark /\ over.session \in Nat
  BY Closed DEF Engines, Phases
<1>3. \/ /\ engine.op \in Switches
         /\ engine' = [over EXCEPT !.session = @ + 1]
         /\ Emit(<<Event(IF engine.op = "Resume" THEN "SessionResumed" ELSE "SessionRolled")>>
                 \o <<OpEnded(engine.id, "Completed")>>)
      \/ /\ engine' = over
         /\ Emit((IF engine.op = "FindSaved" THEN <<Event("SavedFound")>> ELSE <<>>)
                 \o <<OpEnded(engine.id, "Completed")>>)
      \/ /\ engine' = over
         /\ Emit(<<OpEnded(engine.id, "Failed")>>)
  BY DEF RunLocal
<1> HIDE DEF over
<1>4. CASE /\ engine.op \in Switches
           /\ engine' = [over EXCEPT !.session = @ + 1]
           /\ Emit(<<Event(IF engine.op = "Resume" THEN "SessionResumed" ELSE "SessionRolled")>>
                   \o <<OpEnded(engine.id, "Completed")>>)
  <2> DEFINE ev == IF engine.op = "Resume" THEN "SessionResumed" ELSE "SessionRolled"
             f == [over EXCEPT !.session = @ + 1]
  <2>1. ev \in PlainKinds
    BY DEF PlainKinds, EventKinds
  <2>2. over.session + 1 \in Nat
    BY <1>2
  <2>3. f \in Engines
    BY <1>2, <2>2 DEF Engines
  <2>4. f.phase = "idle" /\ f.mode = engine.mode /\ f.policy = engine.policy /\ f.mark = engine.mark
    BY <1>2 DEF Engines
  <2>5. engine' = f /\ Emit(<<Event(ev)>> \o <<OpEnded(engine.id, "Completed")>>)
    BY <1>4
  <2> HIDE DEF ev, f
  <2>6. <<Event(ev)>> \in Seq(EventRecs) /\ Plain(<<Event(ev)>>)
    BY <2>1, PlainOne
  <2>7. QED
    BY <1>1, <2>3, <2>4, <2>5, <2>6, LocalEnds DEF Plain
<1>5. CASE /\ engine' = over
           /\ Emit((IF engine.op = "FindSaved" THEN <<Event("SavedFound")>> ELSE <<>>)
                   \o <<OpEnded(engine.id, "Completed")>>)
  <2> DEFINE evs == IF engine.op = "FindSaved" THEN <<Event("SavedFound")>> ELSE <<>>
             x == Event("SavedFound")
  <2>1. x \in EventRecs /\ x.ev = "SavedFound"
    BY EventTypes DEF EventKinds
  <2>2. evs = IF engine.op = "FindSaved" THEN <<x>> ELSE <<>>
    OBVIOUS
  <2>3. Emit(evs \o <<OpEnded(engine.id, "Completed")>>) /\ engine' = over
    BY <1>5
  <2> HIDE DEF evs, x
  <2>4. <<x>> \in Seq(EventRecs) /\ DOMAIN <<x>> = {1} /\ <<x>>[1] = x /\ DOMAIN <<>> = {}
    BY <2>1
  <2>5. evs \in Seq(EventRecs)
    BY <2>2, <2>4, PlainEmpty
  <2>6. \A k \in DOMAIN evs : /\ evs[k].ev \notin {"OpEnded", "ModeChanged"}
                              /\ evs[k].ev = "SavedFound" => engine.op = "FindSaved"
    BY <2>1, <2>2, <2>4
  <2>7. QED
    BY <1>1, <1>2, <2>3, <2>5, <2>6, LocalEnds
<1>6. CASE engine' = over /\ Emit(<<OpEnded(engine.id, "Failed")>>)
  <2> DEFINE x == OpEnded(engine.id, "Failed")
  <2>1. x \in EventRecs
    BY <1>1, Closed, EngineFields, EventTypes
  <2>2. <<>> \o <<x>> = <<x>>
    BY <2>1, ConcatEmptySeq
  <2>3. Emit(<<>> \o <<x>>)
    BY <1>6, <2>2
  <2> HIDE DEF x
  <2>4. DOMAIN <<>> = {}
    OBVIOUS
  <2>5. QED
    BY <1>1, <1>2, <1>6, <2>3, <2>4, PlainEmpty, LocalEnds DEF x
<1>7. QED
  BY <1>3, <1>4, <1>5, <1>6

----------------------------------------------------------------------------
(* The invariant *)

LEMMA InitHolds == ASSUME Init PROVE FInv
<1>1. PICK m \in Mode :
        /\ tui = [queue |-> EmptyQueue, op |-> "none", id |-> 0, activity |-> "none",
                  input |-> NoPrompt, epoch |-> 1, modal |-> "none", awaits |-> FALSE,
                  requested |-> m, shown |-> m, nextId |-> 1]
        /\ engine = [phase |-> "idle", id |-> 0, op |-> "none", prompt |-> NoPrompt,
                     mailbox |-> <<>>, mode |-> NoMode, policy |-> m, round |-> 0,
                     mark |-> 0, session |-> 1]
  BY DEF Init
<1>2. ops = <<>> /\ events = <<>> /\ said = <<>> /\ DOMAIN <<>> = {} /\ Len(<<>>) = 0
  BY DEF Init
<1>3. EmptyQueue \in Queues
  BY QueueConstants DEF EmptyQueue, Queues
<1>4. tui \in UIs
  BY <1>1, <1>3 DEF UIs, Modals
<1>5. engine \in Engines
  BY <1>1, QueueConstants DEF Engines, Phases
<1>6. <<>> \in Seq(Submissions) /\ <<>> \in Seq(EventRecs) /\ <<>> \in Seq(Entries)
  OBVIOUS
<1>7. Typed
  BY <1>1, <1>2, <1>4, <1>5, <1>6, Bounds DEF Typed
<1>8. Asks(ops) = {} /\ EndsAt(tui, events) = {} /\ ModesOf(ops) = {} /\ ShownBy(events) = {}
  BY <1>2 DEF Asks, EndsAt, ModesOf, ShownBy
<1>9. /\ tui.op = "none" /\ tui.id = 0 /\ tui.nextId = 1 /\ tui.requested = m /\ tui.shown = m
      /\ tui.modal = "none" /\ tui.awaits = FALSE
      /\ engine.phase = "idle" /\ engine.mode = NoMode /\ engine.policy = m
  BY <1>1
<1>10. Numbered(tui, ops, events)
  BY <1>2, <1>9 DEF Numbered
<1>11. Stages(tui, engine, ops, events)
  BY <1>8, <1>9 DEF Stages, Busy
<1>12. Tells(tui, engine, events) /\ Interrupts(tui, engine, ops)
  BY <1>2, <1>8 DEF Tells, Interrupts
<1>13. Resting /\ Followed
  BY <1>8, <1>9 DEF Resting, Followed, Brings, Effective
<1>14. ModalHasEngine
  BY <1>9 DEF ModalHasEngine, Open, Busy
<1>15. QED
  BY <1>7, <1>10, <1>11, <1>12, <1>13, <1>14 DEF FInv, Flight

\* A stutter, at rest or elsewhere.
LEMMA StutterHolds == ASSUME FInv, UNCHANGED vars PROVE FInv'
<1>1. /\ tui' = tui /\ engine' = engine /\ ops' = ops /\ events' = events /\ said' = said
  BY DEF vars
<1>2. Flight(tui, engine', ops', events')
  BY <1>1, Closed
<1>3. engine'.phase \in {"idle", "local"} => engine'.mode = NoMode
  BY <1>1, EngineFacts
<1>4. Brings(events', ShownBy(events'), tui.shown, Effective(engine'))
  BY <1>1, EngineFacts
<1>5. Brings(ops', ModesOf(ops'), Effective(engine'), tui.requested)
  BY <1>1, EngineFacts
<1>6. engine' \in Engines /\ said' \in Seq(Entries) /\ engine'.mark <= Len(said')
  BY <1>1, EngineFacts
<1>7. ops' \in Seq(Submissions) /\ Len(ops') <= OpCap /\ events' \in Seq(EventRecs)
  BY <1>1, Closed
<1>8. QED
  BY <1>1, <1>2, <1>3, <1>4, <1>5, <1>6, <1>7, EngineStep

LEMMA UserKeeps == ASSUME FInv, UserActs PROVE FInv'
BY TypeKeeps, SubmitKeeps, SubmitCodeKeeps, SlashPromptKeeps, InterruptKeeps, TakeBackKeeps,
   SetModeKeeps, DispatchKeeps, OpenModalKeeps, CloseModalKeeps DEF UserActs

LEMMA EventKeeps == ASSUME FInv, HandleEvent PROVE FInv'
BY SetActivityKeeps, PromptDrainedKeeps, HandedBackKeeps, SessionCompactedKeeps,
   SessionSwitchedKeeps, SavedFoundKeeps, ModeShownKeeps, EndedKeeps DEF HandleEvent

LEMMA StepHolds == ASSUME FInv, [Next]_vars PROVE FInv'
<1>1. CASE UNCHANGED vars
  BY <1>1, StutterHolds
<1>2. CASE Rest
  BY <1>2, StutterHolds DEF Rest
<1>3. QED
  BY <1>1, <1>2, UserKeeps, EventKeeps, ServeKeeps, AbsorbKeeps, ProgressKeeps, RunLocalKeeps
     DEF Next

\* The invariant: every variable has its type, the operation in flight is in the op channel, with
\* the engine, or over, and the modes under way lead from the one shown to the one asked for.
THEOREM FlightInvariant == Spec => []FInv
<1>1. Init => FInv
  BY InitHolds
<1>2. FInv /\ [Next]_vars => FInv'
  BY StepHolds
<1>3. QED
  BY <1>1, <1>2, PTL DEF Spec

LEMMA Agreeing == ASSUME FInv PROVE FlightAgreed
<1>1. /\ Numbered(tui, ops, events) /\ Stages(tui, engine, ops, events)
      /\ Tells(tui, engine, events) /\ Interrupts(tui, engine, ops)
  BY Closed DEF Flight
<1>2. DOMAIN ops = 1..Len(ops) /\ DOMAIN events = 1..Len(events)
  BY Closed, LenProperties
<1>3. NeverDropped
  BY <1>1, <1>2 DEF NeverDropped, Idle, Stages, Asks
<1>4. InFlightAnswered
  <2>1. SUFFICES ASSUME Busy(tui)
                 PROVE  \/ \E i \in 1..Len(ops) : ops[i].id = tui.id /\ ops[i].op = tui.op
                        \/ ~Idle /\ engine.id = tui.id /\ engine.op = tui.op
                        \/ \E i \in 1..Len(events) : events[i].ev = "OpEnded" /\ events[i].id = tui.id
    BY DEF InFlightAnswered
  <2>2. CASE Asks(ops) # {}
    BY <1>1, <1>2, <2>2 DEF Stages, Asks
  <2>3. CASE engine.phase # "idle"
    BY <1>1, <2>3 DEF Stages, Idle
  <2>4. CASE EndsAt(tui, events) # {}
    BY <1>2, <2>4 DEF EndsAt
  <2>5. QED
    BY <1>1, <2>1, <2>2, <2>3, <2>4 DEF Stages
<1>5. CancelHitsItsOp
  <2>1. SUFFICES ASSUME engine.phase \in Racing, NEW i \in 1..Len(ops), ops[i].op = "Interrupt"
                 PROVE  tui.id = engine.id /\ tui.activity = "cancelling"
    BY DEF CancelHitsItsOp
  <2>2. engine.phase # "idle"
    BY <2>1 DEF Racing
  <2>3. QED
    BY <1>1, <1>2, <2>1, <2>2 DEF Stages, Interrupts
<1>6. QED
  BY <1>3, <1>4, <1>5 DEF FlightAgreed, FInv

\* The UI and the engine always agree on the operation in flight (engine.rs, app/dispatch.rs): no
\* idle-only op reaches a busy engine, an op the UI waits for is on its way, running or over, an
\* interrupt stops none but the op it was pressed for, and no modal opens over a turn.
THEOREM FlightAlwaysAgreed == Spec => []FlightAgreed
<1>1. FInv => FlightAgreed
  BY Agreeing
<1>2. QED
  BY <1>1, FlightInvariant, PTL

\* Whenever everything sent is delivered and the engine idles, the mode it enforces is the one the
\* UI shows and the one the user asked for last, however the switches fell among turns.
THEOREM ModeAlwaysAgrees == Spec => []ModeAgrees
<1>1. FInv => ModeAgrees
  <2>1. ASSUME FInv, Idle, ops = <<>>, events = <<>>
        PROVE  engine.policy = tui.shown /\ tui.shown = tui.requested
    <3>1. ModesOf(ops) = {} /\ ShownBy(events) = {}
      <4>1. DOMAIN <<>> = {}
        OBVIOUS
      <4>2. QED
        BY <2>1, <4>1 DEF ModesOf, ShownBy
    <3>2. Effective(engine) = engine.policy
      BY <2>1, EngineFacts DEF Effective, Idle
    <3>3. QED
      BY <2>1, <3>1, <3>2, EngineFacts DEF Brings
  <2>2. QED
    BY <2>1 DEF ModeAgrees
<1>2. QED
  BY <1>1, FlightInvariant, PTL

----------------------------------------------------------------------------
(* Induction *)

\* What holds of 0 and passes from each number to the next holds of all.
LEMMA Climb ==
    ASSUME NEW T, 0 \in T, \A n \in Nat : n \in T => n + 1 \in T
    PROVE  \A n \in Nat : n \in T
<1> DEFINE R == {ss \in Nat \X Nat : ss[1] < ss[2]}
           Bad == Nat \ T
<1>1. IsWellFoundedOn(R, Nat)
  BY NatLessThanWellFounded DEF OpToRel
<1> HIDE DEF R
<1>2. SUFFICES ASSUME Bad # {}
               PROVE  FALSE
  OBVIOUS
<1>3. PICK x \in Bad : \A y \in Bad : ~ (<<y, x>> \in R)
  BY <1>1, <1>2, WFMin
<1>4. x - 1 \in Nat /\ x - 1 < x
  OBVIOUS
<1>5. x - 1 \notin Bad
  BY <1>3, <1>4 DEF R
<1>6. QED
  BY <1>4, <1>5

\* What holds of the empty sequence and survives every Append holds of all.
LEMMA Grows ==
    ASSUME NEW S, NEW T, <<>> \in T,
           \A s \in Seq(S) : s \in T => \A m \in S : Append(s, m) \in T
    PROVE  \A s \in Seq(S) : s \in T
<1> DEFINE N == {n \in Nat : \A s \in Seq(S) : Len(s) = n => s \in T}
<1>1. 0 \in N
  <2>1. \A s \in Seq(S) : Len(s) = 0 => s = <<>>
    OBVIOUS
  <2>2. QED
    BY <2>1
<1>2. ASSUME NEW n \in Nat, n \in N
      PROVE  n + 1 \in N
  <2>1. SUFFICES ASSUME NEW s \in Seq(S), Len(s) = n + 1
                 PROVE  s \in T
    OBVIOUS
  <2>2. s # <<>>
    BY <2>1
  <2>3. PICK r \in Seq(S), m \in S : s = Append(r, m)
    BY <2>2, SequenceEmptyOrAppend
  <2>4. Len(r) = n
    BY <2>1, <2>3
  <2>5. QED
    BY <1>2, <2>3, <2>4
<1> HIDE DEF N
<1>3. \A n \in Nat : n \in N
  BY <1>1, <1>2, Climb
<1>4. QED
  BY <1>3 DEF N


----------------------------------------------------------------------------
(* The prompts at some places of a sequence *)

Carried == Prompt \cup {NoPrompt}

\* `f` is what PromptsAt computes of the first `n` entries.
Collects(s, at, n, f) ==
  f = [i \in 0..n |->
         IF i = 0 THEN <<>> ELSE IF i \in at THEN Append(f[i - 1], s[i].prompt) ELSE f[i - 1]]

\* Its values, step by step.
Collected(s, at, n, f) ==
  /\ f[0] = <<>>
  /\ \A i \in 1..n : f[i] = IF i \in at THEN Append(f[i - 1], s[i].prompt) ELSE f[i - 1]

LEMMA CollectExists ==
  ASSUME NEW s, NEW at
  PROVE  \A n \in Nat : \E f : Collects(s, at, n, f)
<1> DEFINE T == {n \in Nat : \E f : Collects(s, at, n, f)}
<1>1. 0 \in T
  <2>1. Collects(s, at, 0, [i \in 0..0 |-> <<>>])
    BY DEF Collects
  <2>2. QED
    BY <2>1
<1>2. ASSUME NEW n \in Nat, n \in T
      PROVE  n + 1 \in T
  <2>1. PICK f : Collects(s, at, n, f)
    BY <1>2
  <2> DEFINE g == [i \in 0..n + 1 |->
                     IF i <= n THEN f[i]
                     ELSE IF i \in at THEN Append(f[n], s[i].prompt) ELSE f[n]]
             h == [i \in 0..n + 1 |->
                     IF i = 0 THEN <<>>
                     ELSE IF i \in at THEN Append(g[i - 1], s[i].prompt) ELSE g[i - 1]]
  <2>2. ASSUME NEW i \in 0..n
        PROVE  f[i] = IF i = 0 THEN <<>>
                      ELSE IF i \in at THEN Append(f[i - 1], s[i].prompt) ELSE f[i - 1]
    BY <2>1, Zenon DEF Collects
  <2>3. ASSUME NEW i \in 0..n + 1
        PROVE  g[i] = IF i = 0 THEN <<>>
                      ELSE IF i \in at THEN Append(g[i - 1], s[i].prompt) ELSE g[i - 1]
    <3>1. CASE i <= n
      <4>1. i \in 0..n
        BY <3>1
      <4>2. g[i] = f[i]
        BY <3>1
      <4>3. i # 0 => i - 1 \in 0..n + 1 /\ i - 1 <= n
        BY <3>1
      <4>4. i # 0 => g[i - 1] = f[i - 1]
        BY <4>3
      <4> HIDE DEF g
      <4>5. QED
        BY <2>2, <4>1, <4>2, <4>4
    <3>2. CASE i = n + 1
      <4>1. i # 0 /\ i - 1 = n /\ n \in 0..n + 1
        BY <3>2
      <4>2. g[n] = f[n]
        BY <4>1
      <4>3. ~(i <= n)
        BY <3>2
      <4>4. g[i] = IF i \in at THEN Append(f[n], s[i].prompt) ELSE f[n]
        BY <4>3
      <4> HIDE DEF g
      <4>5. QED
        BY <4>1, <4>2, <4>4
    <3>3. QED
      BY <3>1, <3>2
  <2>4. g = h
    <3>1. \A i \in 0..n + 1 : g[i] = h[i]
      BY <2>3
    <3>2. QED
      BY <3>1
  <2>5. Collects(s, at, n + 1, g)
    BY <2>4 DEF Collects
  <2>6. QED
    BY <2>5
<1> HIDE DEF T
<1>3. \A n \in Nat : n \in T
  BY <1>1, <1>2, Climb
<1>4. QED
  BY <1>3 DEF T

LEMMA CollectSteps ==
  ASSUME NEW s, NEW at, NEW n \in Nat, NEW f, Collects(s, at, n, f)
  PROVE  Collected(s, at, n, f)
<1>1. ASSUME NEW i \in 0..n
      PROVE  f[i] = IF i = 0 THEN <<>>
                    ELSE IF i \in at THEN Append(f[i - 1], s[i].prompt) ELSE f[i - 1]
  BY Zenon DEF Collects
<1>2. 0 \in 0..n /\ \A i \in 1..n : i \in 0..n /\ i # 0
  OBVIOUS
<1>3. QED
  BY <1>1, <1>2 DEF Collected

LEMMA PromptsSteps ==
  ASSUME NEW S, NEW s \in Seq(S), NEW at
  PROVE  \E f : Collected(s, at, Len(s), f) /\ PromptsAt(s, at) = f[Len(s)]
<1> DEFINE c == CHOOSE f : Collects(s, at, Len(s), f)
<1>1. Len(s) \in Nat
  OBVIOUS
<1>2. \E f : Collects(s, at, Len(s), f)
  BY <1>1, CollectExists
<1>3. Collects(s, at, Len(s), c)
  BY <1>2
<1>4. PromptsAt(s, at) = c[Len(s)]
  BY DEF PromptsAt, Collects
<1> HIDE DEF c
<1>5. Collected(s, at, Len(s), c)
  BY <1>1, <1>3, CollectSteps
<1>6. QED
  BY <1>4, <1>5

\* Two collections agree as far as what they collect does.
Alike(s, t, at, bt, n) == \A i \in 1..n : (i \in at <=> i \in bt) /\ s[i].prompt = t[i].prompt

LEMMA CollectAgree ==
  ASSUME NEW s, NEW t, NEW at, NEW bt, NEW n \in Nat, NEW f, NEW g,
         Collected(s, at, n, f), Collected(t, bt, n, g),
         Alike(s, t, at, bt, n)
  PROVE  \A i \in 0..n : f[i] = g[i]
<1> DEFINE T == {i \in Nat : i <= n => f[i] = g[i]}
<1>1. 0 \in T
  BY DEF Collected
<1>2. ASSUME NEW i \in Nat, i \in T
      PROVE  i + 1 \in T
  <2>1. SUFFICES ASSUME i + 1 <= n
                 PROVE  f[i + 1] = g[i + 1]
    OBVIOUS
  <2>2. i + 1 \in 1..n /\ i <= n /\ (i + 1) - 1 = i
    BY <2>1
  <2>3. f[i] = g[i] /\ s[i + 1].prompt = t[i + 1].prompt /\ (i + 1 \in at <=> i + 1 \in bt)
    BY <1>2, <2>2 DEF Alike
  <2>4. f[i + 1] = IF i + 1 \in at THEN Append(f[(i + 1) - 1], s[i + 1].prompt) ELSE f[(i + 1) - 1]
    BY <2>2 DEF Collected
  <2>5. g[i + 1] = IF i + 1 \in bt THEN Append(g[(i + 1) - 1], t[i + 1].prompt) ELSE g[(i + 1) - 1]
    BY <2>2 DEF Collected
  <2>6. QED
    BY <2>2, <2>3, <2>4, <2>5
<1> HIDE DEF T
<1>3. \A i \in Nat : i \in T
  BY <1>1, <1>2, Climb
<1>4. QED
  BY <1>3 DEF T

LEMMA PromptsSame ==
  ASSUME NEW S, NEW s \in Seq(S), NEW at, NEW bt, \A i \in 1..Len(s) : i \in at <=> i \in bt
  PROVE  PromptsAt(s, at) = PromptsAt(s, bt)
<1>1. PICK f : Collected(s, at, Len(s), f) /\ PromptsAt(s, at) = f[Len(s)]
  BY PromptsSteps
<1>2. PICK g : Collected(s, bt, Len(s), g) /\ PromptsAt(s, bt) = g[Len(s)]
  BY PromptsSteps
<1>3. Len(s) \in Nat /\ Len(s) \in 0..Len(s)
  OBVIOUS
<1> DEFINE n == Len(s)
<1>4. Alike(s, s, at, bt, n)
  BY DEF Alike
<1>6. n \in Nat /\ Collected(s, at, n, f) /\ Collected(s, bt, n, g)
  BY <1>1, <1>2, <1>3
<1> HIDE DEF n
<1>7. \A i \in 0..n : f[i] = g[i]
  BY <1>4, <1>6, CollectAgree
<1>8. QED
  BY <1>1, <1>2, <1>3, <1>7 DEF n

LEMMA PromptsEmpty == \A at : PromptsAt(<<>>, at) = <<>>
<1>1. SUFFICES ASSUME NEW at
               PROVE  PromptsAt(<<>>, at) = <<>>
  OBVIOUS
<1>2. <<>> \in Seq(EventRecs) /\ Len(<<>>) = 0
  OBVIOUS
<1>3. PICK f : Collected(<<>>, at, 0, f) /\ PromptsAt(<<>>, at) = f[0]
  BY <1>2, PromptsSteps
<1>4. QED
  BY <1>3 DEF Collected

LEMMA PromptsAppend ==
  ASSUME NEW S, NEW s \in Seq(S), NEW m \in S, NEW at
  PROVE  PromptsAt(Append(s, m), at) =
           IF Len(s) + 1 \in at THEN Append(PromptsAt(s, at), m.prompt) ELSE PromptsAt(s, at)
<1> DEFINE t == Append(s, m)
           n == Len(s)
<1>1. t \in Seq(S) /\ Len(t) = n + 1 /\ n \in Nat /\ t[n + 1] = m
  OBVIOUS
<1>2. \A i \in 1..n : s[i] = t[i]
  OBVIOUS
<1> HIDE DEF t
<1>3. PICK f : Collected(s, at, n, f) /\ PromptsAt(s, at) = f[n]
  BY PromptsSteps
<1>4. PICK g : Collected(t, at, n + 1, g) /\ PromptsAt(t, at) = g[n + 1]
  BY <1>1, PromptsSteps
<1> HIDE DEF n
<1>5. f[n] = g[n]
  <2>1. n \in 0..n /\ n \in Nat /\ \A i \in 1..n : i \in 1..n + 1
    BY <1>1
  <2>2. Collected(t, at, n, g)
    BY <1>4, <2>1 DEF Collected
  <2>3. Alike(s, t, at, at, n)
    BY <1>2 DEF Alike
  <2>4. \A i \in 0..n : f[i] = g[i]
    BY <1>3, <2>1, <2>2, <2>3, CollectAgree
  <2>5. QED
    BY <2>1, <2>4
<1>6. g[n + 1] = IF n + 1 \in at THEN Append(g[(n + 1) - 1], t[n + 1].prompt) ELSE g[(n + 1) - 1]
  <2>1. n + 1 \in Nat /\ n + 1 \in 1..n + 1
    BY <1>1
  <2>2. QED
    BY <1>4, <2>1 DEF Collected
<1>7. (n + 1) - 1 = n
  BY <1>1
<1>8. PromptsAt(t, at) = IF n + 1 \in at THEN Append(PromptsAt(s, at), m.prompt) ELSE PromptsAt(s, at)
  BY <1>1, <1>3, <1>4, <1>5, <1>6, <1>7
<1>9. QED
  BY <1>8 DEF t, n

\* What carries a prompt, or none.
Carriers(S) == \A m \in S : m.prompt \in Carried

LEMMA PromptsType ==
  ASSUME NEW S, Carriers(S), NEW at
  PROVE  \A s \in Seq(S) : PromptsAt(s, at) \in Seq(Carried)
<1> DEFINE T == {s \in Seq(S) : PromptsAt(s, at) \in Seq(Carried)}
<1>1. <<>> \in T
  <2>1. <<>> \in Seq(S) /\ <<>> \in Seq(Carried)
    OBVIOUS
  <2>2. QED
    BY <2>1, PromptsEmpty
<1>2. ASSUME NEW s \in Seq(S), s \in T, NEW m \in S
      PROVE  Append(s, m) \in T
  <2>1. Append(s, m) \in Seq(S) /\ m.prompt \in Carried
    BY DEF Carriers
  <2>2. PromptsAt(Append(s, m), at) =
          IF Len(s) + 1 \in at THEN Append(PromptsAt(s, at), m.prompt) ELSE PromptsAt(s, at)
    BY PromptsAppend
  <2>3. PromptsAt(s, at) \in Seq(Carried)
    BY <1>2
  <2>4. QED
    BY <2>1, <2>2, <2>3
<1> HIDE DEF T
<1>3. \A s \in Seq(S) : s \in T
  BY <1>1, <1>2, Grows
<1>4. QED
  BY <1>3 DEF T

LEMMA AppendConcat ==
  ASSUME NEW S, NEW x \in Seq(S), NEW y \in Seq(S), NEW m \in S
  PROVE  x \o Append(y, m) = Append(x \o y, m)
<1>1. x \o y \in Seq(S) /\ <<m>> \in Seq(S)
  BY ConcatProperties
<1>2. Append(x \o y, m) = (x \o y) \o <<m>> /\ Append(y, m) = y \o <<m>>
  BY <1>1, AppendIsConcat
<1>3. (x \o y) \o <<m>> = x \o (y \o <<m>>)
  BY <1>1, ConcatAssociative
<1>4. QED
  BY <1>2, <1>3

\* The places `at` has past the first `n`.
Past(at, n) == {i \in Nat : n + i \in at}

LEMMA PromptsConcat ==
  ASSUME NEW S, Carriers(S), NEW at, NEW a \in Seq(S)
  PROVE  \A b \in Seq(S) :
           PromptsAt(a \o b, at) = PromptsAt(a, at) \o PromptsAt(b, Past(at, Len(a)))
<1> DEFINE bt == Past(at, Len(a))
           T == {b \in Seq(S) : PromptsAt(a \o b, at) = PromptsAt(a, at) \o PromptsAt(b, bt)}
<1>0. PromptsAt(a, at) \in Seq(Carried)
  BY PromptsType
<1>1. <<>> \in T
  <2>1. a \o <<>> = a /\ PromptsAt(a, at) \o <<>> = PromptsAt(a, at)
    BY <1>0, ConcatEmptySeq
  <2>2. PromptsAt(<<>>, bt) = <<>> /\ <<>> \in Seq(S)
    BY PromptsEmpty
  <2>3. QED
    BY <2>1, <2>2, Zenon
<1>2. ASSUME NEW b \in Seq(S), b \in T, NEW m \in S
      PROVE  Append(b, m) \in T
  <2> DEFINE c == a \o b
             k == m.prompt
             x == PromptsAt(a, at)
             y == PromptsAt(b, bt)
             z == PromptsAt(c, at)
  <2>1. Append(b, m) \in Seq(S) /\ c \in Seq(S) /\ k \in Carried
    BY ConcatProperties DEF Carriers
  <2>2. y \in Seq(Carried) /\ x \in Seq(Carried)
    BY PromptsType
  <2>3. a \o Append(b, m) = Append(c, m)
    BY AppendConcat
  <2>4. Len(a) \in Nat /\ Len(b) \in Nat /\ Len(c) = Len(a) + Len(b)
    BY ConcatProperties
  <2>5. Len(c) + 1 \in at <=> Len(b) + 1 \in bt
    <3>1. Len(c) + 1 = Len(a) + (Len(b) + 1) /\ Len(b) + 1 \in Nat
      BY <2>4
    <3>2. QED
      BY <3>1 DEF Past
  <2>8. z = x \o y
    BY <1>2, Zenon
  <2> HIDE DEF c
  <2>6. PromptsAt(Append(c, m), at) = IF Len(c) + 1 \in at THEN Append(z, k) ELSE z
    BY <2>1, PromptsAppend
  <2>7. PromptsAt(Append(b, m), bt) = IF Len(b) + 1 \in bt THEN Append(y, k) ELSE y
    BY PromptsAppend
  <2> HIDE DEF x, y, z, bt, k
  <2>9. x \o Append(y, k) = Append(x \o y, k)
    BY <2>1, <2>2, AppendConcat
  <2>10. PromptsAt(Append(c, m), at) = x \o PromptsAt(Append(b, m), bt)
    <3>1. CASE Len(b) + 1 \in bt
      BY <2>5, <2>6, <2>7, <2>8, <2>9, <3>1
    <3>2. CASE Len(b) + 1 \notin bt
      BY <2>5, <2>6, <2>7, <2>8, <3>2
    <3>3. QED
      BY <3>1, <3>2
  <2>11. QED
    BY <2>1, <2>3, <2>10 DEF x
<1> HIDE DEF T
<1>3. \A b \in Seq(S) : b \in T
  BY <1>1, <1>2, Grows
<1>4. QED
  BY <1>3 DEF T

LEMMA PromptsNone ==
  ASSUME NEW S, NEW s \in Seq(S), NEW at, \A i \in 1..Len(s) : i \notin at
  PROVE  PromptsAt(s, at) = <<>>
<1>1. PICK f : Collected(s, at, Len(s), f) /\ PromptsAt(s, at) = f[Len(s)]
  BY PromptsSteps
<1> DEFINE n == Len(s)
           T == {i \in Nat : i <= n => f[i] = <<>>}
<1>0. n \in Nat
  OBVIOUS
<1> HIDE DEF n
<1>2. 0 \in T
  BY <1>1 DEF Collected
<1>3. ASSUME NEW i \in Nat, i \in T
      PROVE  i + 1 \in T
  <2>1. SUFFICES ASSUME i + 1 <= n
                 PROVE  f[i + 1] = <<>>
    OBVIOUS
  <2>2. i + 1 \in 1..n /\ i <= n /\ (i + 1) - 1 = i
    BY <1>0, <2>1
  <2>3. f[i + 1] = IF i + 1 \in at THEN Append(f[(i + 1) - 1], s[i + 1].prompt) ELSE f[(i + 1) - 1]
    BY <1>1, <2>2 DEF Collected, n
  <2>4. QED
    BY <1>3, <2>2, <2>3 DEF n
<1> HIDE DEF T
<1>4. \A i \in Nat : i \in T
  BY <1>2, <1>3, Climb
<1>5. QED
  BY <1>0, <1>1, <1>4 DEF T, n

\* All of them, in order.
LEMMA PromptsAll ==
  ASSUME NEW S, Carriers(S), NEW at
  PROVE  \A s \in Seq(S) : (\A i \in 1..Len(s) : i \in at) =>
           /\ Len(PromptsAt(s, at)) = Len(s)
           /\ \A i \in 1..Len(s) : PromptsAt(s, at)[i] = s[i].prompt
<1> DEFINE All(s) == (\A i \in 1..Len(s) : i \in at) =>
             /\ Len(PromptsAt(s, at)) = Len(s)
             /\ \A i \in 1..Len(s) : PromptsAt(s, at)[i] = s[i].prompt
           T == {s \in Seq(S) : All(s)}
<1>1. <<>> \in T
  <2>1. <<>> \in Seq(S) /\ Len(<<>>) = 0 /\ 1..0 = {}
    OBVIOUS
  <2>2. PromptsAt(<<>>, at) = <<>>
    BY PromptsEmpty
  <2>3. QED
    BY <2>1, <2>2
<1>2. ASSUME NEW s \in Seq(S), s \in T, NEW m \in S
      PROVE  Append(s, m) \in T
  <2> DEFINE r == Append(s, m)
             x == PromptsAt(s, at)
  <2>1. r \in Seq(S) /\ Len(r) = Len(s) + 1 /\ Len(s) \in Nat /\ r[Len(s) + 1] = m
        /\ \A i \in 1..Len(s) : r[i] = s[i]
    OBVIOUS
  <2>2. x \in Seq(Carried) /\ m.prompt \in Carried
    BY PromptsType DEF Carriers
  <2>3. PromptsAt(r, at) = IF Len(s) + 1 \in at THEN Append(x, m.prompt) ELSE x
    BY PromptsAppend
  <2>4. All(s)
    BY <1>2
  <2> HIDE DEF r
  <2>5. ASSUME \A i \in 1..Len(r) : i \in at
        PROVE  /\ Len(PromptsAt(r, at)) = Len(r)
               /\ \A i \in 1..Len(r) : PromptsAt(r, at)[i] = r[i].prompt
    <3>1. Len(s) + 1 \in at /\ \A i \in 1..Len(s) : i \in at
      BY <2>1, <2>5
    <3>2. Len(x) = Len(s) /\ \A i \in 1..Len(s) : x[i] = s[i].prompt
      BY <2>4, <3>1
    <3> HIDE DEF x
    <3>3. PromptsAt(r, at) = Append(x, m.prompt)
      BY <2>3, <3>1
    <3>4. /\ Len(Append(x, m.prompt)) = Len(x) + 1 /\ Append(x, m.prompt)[Len(x) + 1] = m.prompt
          /\ \A i \in 1..Len(x) : Append(x, m.prompt)[i] = x[i]
      BY <2>2
    <3>5. ASSUME NEW i \in 1..Len(s) + 1
          PROVE  Append(x, m.prompt)[i] = r[i].prompt
      <4>1. i \in 1..Len(s) \/ i = Len(s) + 1
        BY <2>1
      <4>2. QED
        BY <2>1, <3>2, <3>4, <4>1
    <3>6. QED
      BY <2>1, <3>2, <3>3, <3>4, <3>5
  <2>6. QED
    BY <2>1, <2>5 DEF r
<1> HIDE DEF T
<1>3. \A s \in Seq(S) : s \in T
  BY <1>1, <1>2, Grows
<1>4. QED
  BY <1>3 DEF T

----------------------------------------------------------------------------
(* What the channels still bring the queue *)

Confirms(es) == {i \in DOMAIN es : es[i].ev = "PromptDrained"}

\* The queued prompts sent for the operation in flight, and not for one before it.
Live(os)    == {i \in DOMAIN os : os[i].op = "Queue" /\ \A a \in Asks(os) : a < i}
Sending(os) == PromptsAt(os, Live(os))

LEMMA AllCarry == Carriers(EventRecs) /\ Carriers(Submissions)
BY DEF Carriers, EventRecs, Submissions, Carried

LEMMA SequenceTypes ==
  ASSUME NEW es \in Seq(EventRecs), NEW os \in Seq(Submissions)
  PROVE  Confirmed(es) \in Seq(Carried) /\ Sending(os) \in Seq(Carried)
BY AllCarry, PromptsType DEF Confirmed, Sending

\* A sequence is its head and then its tail.
LEMMA HeadAndTail ==
  ASSUME NEW S, NEW s \in Seq(S), s # <<>>
  PROVE  s = <<Head(s)>> \o Tail(s) /\ <<Head(s)>> \in Seq(S) /\ Tail(s) \in Seq(S)
         /\ Head(s) \in S /\ Head(s) = s[1] /\ DOMAIN s = 1..Len(s) /\ Len(s) \in Nat
         /\ DOMAIN Tail(s) = 1..Len(s) - 1 /\ Len(Tail(s)) = Len(s) - 1
         /\ \A i \in 1..Len(s) - 1 : Tail(s)[i] = s[i + 1] /\ i + 1 \in 1..Len(s)
<1> DEFINE h == Head(s)
           t == Tail(s)
           n == Len(s)
           d == <<h>> \o t
<1>1. /\ t \in Seq(S) /\ n \in Nat /\ n >= 1 /\ Len(t) = n - 1
      /\ \A i \in 1..n - 1 : t[i] = s[i + 1]
      /\ h = s[1] /\ s[1] \in S /\ DOMAIN s = 1..n
  OBVIOUS
<1>2. <<h>> \in Seq(S) /\ Len(<<h>>) = 1 /\ <<h>>[1] = h
  BY <1>1
<1>3. DOMAIN t = 1..n - 1
  BY <1>1
<1> HIDE DEF t, n, h
<1>4. /\ d \in Seq(S) /\ Len(d) = 1 + (n - 1)
      /\ \A i \in 1..1 + (n - 1) : d[i] = IF i <= 1 THEN <<h>>[i] ELSE t[i - 1]
  BY <1>1, <1>2, ConcatProperties
<1> HIDE DEF d
<1>5. Len(d) = n
  BY <1>1, <1>4
<1>6. ASSUME NEW i \in 1..n
      PROVE  d[i] = s[i]
  <2>1. CASE i = 1
    BY <1>1, <1>2, <1>4, <2>1
  <2>2. CASE i # 1
    <3>1. i - 1 \in 1..n - 1 /\ ~(i <= 1) /\ (i - 1) + 1 = i /\ i \in 1..1 + (n - 1)
      BY <1>1, <2>2
    <3>2. QED
      BY <1>1, <1>4, <3>1
  <2>3. QED
    BY <2>1, <2>2
<1>7. s = d
  BY <1>1, <1>4, <1>5, <1>6, SeqEqual DEF n
<1>8. \A i \in 1..n - 1 : i + 1 \in 1..n
  BY <1>1
<1>9. QED
  BY <1>1, <1>2, <1>3, <1>7, <1>8 DEF t, n, h, d

LEMMA PromptsOne ==
  ASSUME NEW S, NEW m \in S, NEW at, Carriers(S)
  PROVE  PromptsAt(<<m>>, at) = IF 1 \in at THEN <<m.prompt>> ELSE <<>>
<1>1. <<>> \in Seq(S) /\ Len(<<>>) = 0 /\ Append(<<>>, m) = <<m>> /\ 0 + 1 = 1
      /\ Append(<<>>, m.prompt) = <<m.prompt>>
  OBVIOUS
<1>2. PromptsAt(<<>>, at) = <<>>
  BY PromptsEmpty
<1> DEFINE e == <<>>
<1>3. e \in Seq(S)
  BY <1>1
<1> HIDE DEF e
<1>4. PromptsAt(Append(e, m), at) =
        IF Len(e) + 1 \in at THEN Append(PromptsAt(e, at), m.prompt) ELSE PromptsAt(e, at)
  BY <1>3, PromptsAppend
<1>5. QED
  BY <1>1, <1>2, <1>4 DEF e

\* Splits what a sequence carries, given the places of either part.
Splits(a, b, at, bt, ct) ==
  /\ \A i \in 1..Len(a) : i \in ct <=> i \in at
  /\ \A i \in 1..Len(b) : Len(a) + i \in ct <=> i \in bt

LEMMA PromptsSplit ==
  ASSUME NEW S, Carriers(S), NEW a \in Seq(S), NEW b \in Seq(S), NEW at, NEW bt, NEW ct,
         Splits(a, b, at, bt, ct)
  PROVE  PromptsAt(a \o b, ct) = PromptsAt(a, at) \o PromptsAt(b, bt)
<1>1. PromptsAt(a \o b, ct) = PromptsAt(a, ct) \o PromptsAt(b, Past(ct, Len(a)))
  BY PromptsConcat
<1>2. PromptsAt(a, ct) = PromptsAt(a, at)
  BY PromptsSame DEF Splits
<1>3. \A i \in 1..Len(b) : i \in Past(ct, Len(a)) <=> i \in bt
  BY DEF Past, Splits
<1>4. PromptsAt(b, Past(ct, Len(a))) = PromptsAt(b, bt)
  BY <1>3, PromptsSame
<1>5. QED
  BY <1>1, <1>2, <1>4

LEMMA ConfirmedConcat ==
  ASSUME NEW a \in Seq(EventRecs), NEW b \in Seq(EventRecs)
  PROVE  Confirmed(a \o b) = Confirmed(a) \o Confirmed(b)
<1> DEFINE d == a \o b
<1>1. /\ Len(a) \in Nat /\ Len(b) \in Nat /\ Len(d) = Len(a) + Len(b)
      /\ DOMAIN a = 1..Len(a) /\ DOMAIN b = 1..Len(b) /\ DOMAIN d = 1..Len(a) + Len(b)
      /\ \A i \in 1..Len(a) + Len(b) : d[i] = IF i <= Len(a) THEN a[i] ELSE b[i - Len(a)]
  BY ConcatProperties, LenProperties
<1> DEFINE m == Len(a)
           n == Len(b)
           at == {i \in DOMAIN a : a[i].ev = "PromptDrained"}
           bt == {i \in DOMAIN b : b[i].ev = "PromptDrained"}
           ct == {i \in DOMAIN d : d[i].ev = "PromptDrained"}
<1> HIDE DEF d
<1>2. \A i \in 1..m : i \in ct <=> i \in at
  BY <1>1
<1>3. ASSUME NEW i \in 1..n
      PROVE  m + i \in ct <=> i \in bt
  <2>1. m + i \in 1..m + n /\ ~(m + i <= m) /\ (m + i) - m = i
    BY <1>1
  <2>2. QED
    BY <1>1, <2>1
<1> HIDE DEF at, bt, ct
<1>4. PromptsAt(a \o b, ct) = PromptsAt(a, at) \o PromptsAt(b, bt)
  <2>1. Splits(a, b, at, bt, ct)
    BY <1>2, <1>3 DEF Splits
  <2>2. QED
    BY <2>1, AllCarry, PromptsSplit
<1>5. QED
  BY <1>4 DEF Confirmed, at, bt, ct, d

LEMMA ConfirmedNone ==
  ASSUME NEW es \in Seq(EventRecs), Confirms(es) = {}
  PROVE  Confirmed(es) = <<>>
<1>1. \A i \in 1..Len(es) : i \notin {}
  OBVIOUS
<1>2. PromptsAt(es, {}) = <<>>
  BY PromptsNone
<1>3. QED
  BY <1>2 DEF Confirmed, Confirms

LEMMA ConfirmedOne ==
  ASSUME NEW ev \in EventRecs
  PROVE  Confirmed(<<ev>>) = IF ev.ev = "PromptDrained" THEN <<ev.prompt>> ELSE <<>>
<1> DEFINE at == {i \in DOMAIN <<ev>> : <<ev>>[i].ev = "PromptDrained"}
<1>1. 1 \in at <=> ev.ev = "PromptDrained"
  OBVIOUS
<1> HIDE DEF at
<1>2. PromptsAt(<<ev>>, at) = IF 1 \in at THEN <<ev.prompt>> ELSE <<>>
  BY AllCarry, PromptsOne
<1>3. QED
  BY <1>1, <1>2 DEF Confirmed, at

LEMMA ConfirmedTail ==
  ASSUME NEW es \in Seq(EventRecs), es # <<>>
  PROVE  Confirmed(es) = (IF Head(es).ev = "PromptDrained" THEN <<Head(es).prompt>> ELSE <<>>)
                            \o Confirmed(Tail(es))
<1>1. es = <<Head(es)>> \o Tail(es) /\ <<Head(es)>> \in Seq(EventRecs)
      /\ Tail(es) \in Seq(EventRecs) /\ Head(es) \in EventRecs
  BY HeadAndTail
<1> DEFINE h == Head(es)
           t == Tail(es)
<1> HIDE DEF h, t
<1>2. Confirmed(<<h>> \o t) = Confirmed(<<h>>) \o Confirmed(t)
  BY <1>1, ConfirmedConcat DEF h, t
<1>3. Confirmed(<<h>>) = IF h.ev = "PromptDrained" THEN <<h.prompt>> ELSE <<>>
  BY <1>1, ConfirmedOne DEF h
<1>4. QED
  BY <1>1, <1>2, <1>3 DEF h, t

\* The confirmations of some prompts are theirs.
LEMMA ConfirmedDrained ==
  ASSUME NEW ps \in Seq(Prompt)
  PROVE  Drained(ps) \in Seq(EventRecs) /\ Confirmed(Drained(ps)) = ps
<1> DEFINE d == Drained(ps)
           n == Len(ps)
           at == {i \in DOMAIN d : d[i].ev = "PromptDrained"}
<1>1. d = [i \in 1..n |-> [Event("PromptDrained") EXCEPT !.prompt = ps[i]]]
  BY DEF Drained
<1>2. n \in Nat /\ \A i \in 1..n : ps[i] \in Prompt
  OBVIOUS
<1>3. ASSUME NEW i \in 1..n
      PROVE  /\ [Event("PromptDrained") EXCEPT !.prompt = ps[i]] \in EventRecs
             /\ d[i].ev = "PromptDrained" /\ d[i].prompt = ps[i]
  BY <1>1, <1>2 DEF Event, EventRecs, EventKinds
<1>4. d \in [1..n -> EventRecs]
  BY <1>1, <1>3
<1>5. d \in Seq(EventRecs) /\ Len(d) = n
  BY <1>2, <1>4, SeqOfFunction
<1>6. DOMAIN d = 1..n
  BY <1>4
<1>7. \A i \in 1..Len(d) : i \in at
  BY <1>3, <1>5, <1>6
<1> HIDE DEF d, at
<1>8. Len(PromptsAt(d, at)) = n /\ \A i \in 1..n : PromptsAt(d, at)[i] = ps[i]
  <2>1. \A s \in Seq(EventRecs) : (\A i \in 1..Len(s) : i \in at) =>
           /\ Len(PromptsAt(s, at)) = Len(s)
           /\ \A i \in 1..Len(s) : PromptsAt(s, at)[i] = s[i].prompt
    BY AllCarry, PromptsAll
  <2>2. QED
    BY <1>3, <1>5, <1>7, <2>1
<1> DEFINE x == PromptsAt(d, at)
<1>9. x \in Seq(Carried) /\ ps \in Seq(Carried)
  BY <1>5, AllCarry, PromptsType DEF Carried
<1> HIDE DEF x
<1>10. x = ps
  BY <1>8, <1>9, SeqEqual DEF x
<1>11. QED
  BY <1>5, <1>10 DEF x, d, at, Confirmed

LEMMA SendingConcat ==
  ASSUME NEW a \in Seq(Submissions), NEW b \in Seq(Submissions), Asks(b) = {}
  PROVE  Sending(a \o b) = Sending(a) \o Sending(b)
<1> DEFINE d == a \o b
           m == Len(a)
           n == Len(b)
<1>1. /\ m \in Nat /\ n \in Nat
      /\ DOMAIN a = 1..m /\ DOMAIN b = 1..n /\ DOMAIN d = 1..m + n
      /\ \A i \in 1..m + n : d[i] = IF i <= m THEN a[i] ELSE b[i - m]
  BY ConcatProperties, LenProperties
<1> HIDE DEF d, m, n
<1>2. \A i \in 1..m : d[i] = a[i] /\ i \in 1..m + n
  BY <1>1
<1>3. \A i \in 1..n : d[m + i] = b[i] /\ m + i \in 1..m + n
  <2>1. \A i \in 1..n : m + i \in 1..m + n /\ ~(m + i <= m) /\ (m + i) - m = i
    BY <1>1
  <2>2. QED
    BY <1>1, <2>1
<1>4. \A i \in 1..n : b[i].op \notin IdleOnly
  BY <1>1 DEF Asks
<1>5. ASSUME NEW i \in Asks(d)
      PROVE  i \in 1..m
  <2>1. i \in 1..m + n /\ d[i].op \in IdleOnly
    BY <1>1 DEF Asks
  <2>2. SUFFICES ASSUME ~(i <= m)
                 PROVE  FALSE
    BY <1>1, <2>1
  <2>3. i - m \in 1..n /\ d[i] = b[i - m]
    BY <1>1, <2>1, <2>2
  <2>4. QED
    BY <1>4, <2>1, <2>3
<1>6. Asks(d) = Asks(a)
  <2>1. \A i \in Asks(d) : i \in Asks(a)
    BY <1>1, <1>2, <1>5 DEF Asks
  <2>2. \A i \in Asks(a) : i \in Asks(d)
    BY <1>1, <1>2 DEF Asks
  <2>3. QED
    BY <2>1, <2>2
<1>7. \A i \in 1..m : i \in Live(d) <=> i \in Live(a)
  BY <1>1, <1>2, <1>6 DEF Live
<1>8. ASSUME NEW i \in 1..n
      PROVE  m + i \in Live(d) <=> i \in Live(b)
  <2>1. \A k \in Asks(d) : k < m + i
    BY <1>1, <1>5
  <2>2. QED
    BY <1>1, <1>3, <2>1 DEF Live
<1>9. PromptsAt(a \o b, Live(d)) = PromptsAt(a, Live(a)) \o PromptsAt(b, Live(b))
  <2>1. Splits(a, b, Live(a), Live(b), Live(d))
    BY <1>7, <1>8 DEF Splits, m, n
  <2>2. QED
    BY <2>1, AllCarry, PromptsSplit
<1>10. QED
  BY <1>9 DEF Sending, d

LEMMA SendingNone ==
  ASSUME NEW os \in Seq(Submissions), Live(os) = {}
  PROVE  Sending(os) = <<>>
<1>1. \A i \in 1..Len(os) : i \notin {}
  OBVIOUS
<1>2. PromptsAt(os, {}) = <<>>
  BY PromptsNone
<1>3. QED
  BY <1>2 DEF Sending

\* Behind its ask nothing has been sent for an operation yet.
LEMMA SendingAsked ==
  ASSUME NEW os \in Seq(Submissions), NEW s \in Submissions, s.op \in IdleOnly
  PROVE  Sending(os \o <<s>>) = <<>>
<1> DEFINE d == os \o <<s>>
           n == Len(os)
<1>1. d \in Seq(Submissions) /\ Len(d) = n + 1 /\ n \in Nat /\ d[n + 1] = s /\ DOMAIN d = 1..n + 1
  OBVIOUS
<1> HIDE DEF d, n
<1>2. n + 1 \in Asks(d)
  BY <1>1 DEF Asks
<1>3. ASSUME NEW i \in Live(d)
      PROVE  FALSE
  <2>1. i \in 1..n + 1 /\ n + 1 < i
    BY <1>1, <1>2 DEF Live
  <2>2. QED
    BY <1>1, <2>1
<1>4. Live(d) = {}
  BY <1>3
<1>5. QED
  BY <1>1, <1>4, SendingNone DEF d

LEMMA SendingTail ==
  ASSUME NEW os \in Seq(Submissions), os # <<>>, \A i, j \in Asks(os) : i = j
  PROVE  Sending(os) =
           (IF Head(os).op = "Queue" /\ Asks(os) = {} THEN <<Head(os).prompt>> ELSE <<>>)
             \o Sending(Tail(os))
<1> DEFINE h == Head(os)
           b == Tail(os)
           n == Len(os)
<1>1. /\ os = <<h>> \o b /\ <<h>> \in Seq(Submissions) /\ b \in Seq(Submissions)
      /\ h \in Submissions /\ h = os[1] /\ DOMAIN os = 1..n /\ n \in Nat
      /\ DOMAIN b = 1..n - 1 /\ Len(b) = n - 1
      /\ \A i \in 1..n - 1 : b[i] = os[i + 1] /\ i + 1 \in 1..n
  BY HeadAndTail
<1>2. n >= 1 /\ Len(<<h>>) = 1
  BY <1>1
<1> HIDE DEF h, b, n
<1>3. ASSUME NEW i \in 1..n - 1
      PROVE  1 + i \in Live(os) <=> i \in Live(b)
  <2>0. i \in Nat /\ i >= 1 /\ 1 + i = i + 1
    BY <1>1
  <2>1. ASSUME i \in Live(b), NEW k \in Asks(os)
        PROVE  k < i + 1
    <3>1. k \in 1..n /\ os[k].op \in IdleOnly
      BY <1>1 DEF Asks
    <3>2. CASE k = 1
      BY <2>0, <3>2
    <3>3. CASE k # 1
      <4>1. k - 1 \in 1..n - 1 /\ (k - 1) + 1 = k
        BY <1>1, <3>1, <3>3
      <4>2. k - 1 \in Asks(b)
        BY <1>1, <3>1, <4>1 DEF Asks
      <4>3. k - 1 < i
        BY <2>1, <4>2 DEF Live
      <4>4. QED
        BY <2>0, <3>1, <4>3
    <3>4. QED
      BY <3>2, <3>3
  <2>2. ASSUME i + 1 \in Live(os), NEW k \in Asks(b)
        PROVE  k < i
    <3>1. k \in 1..n - 1 /\ b[k].op \in IdleOnly
      BY <1>1 DEF Asks
    <3>2. k + 1 \in Asks(os)
      BY <1>1, <3>1 DEF Asks
    <3>3. k + 1 < i + 1
      BY <2>2, <3>2 DEF Live
    <3>4. QED
      BY <2>0, <3>1, <3>3
  <2>3. b[i].op = os[i + 1].op /\ i + 1 \in DOMAIN os /\ i \in DOMAIN b
    BY <1>1
  <2>4. i + 1 \in Live(os) => i \in Live(b)
    BY <2>2, <2>3 DEF Live
  <2>5. i \in Live(b) => i + 1 \in Live(os)
    BY <2>1, <2>3 DEF Live
  <2>6. QED
    BY <2>0, <2>4, <2>5
<1>4. 1 \in Live(os) <=> h.op = "Queue" /\ Asks(os) = {}
  <2>1. 1 \in DOMAIN os
    BY <1>1, <1>2
  <2>2. ASSUME NEW k \in Asks(os)
        PROVE  ~(k < 1)
    BY <1>1 DEF Asks
  <2>3. QED
    BY <1>1, <2>1, <2>2 DEF Live
<1>5. Splits(<<h>>, b, Live(os), Live(b), Live(os))
  BY <1>1, <1>2, <1>3 DEF Splits
<1>7. PromptsAt(<<h>> \o b, Live(os)) = PromptsAt(<<h>>, Live(os)) \o PromptsAt(b, Live(b))
  <2> DEFINE a == <<h>>
  <2>1. a \in Seq(Submissions)
    BY <1>1
  <2>2. Splits(a, b, Live(os), Live(b), Live(os))
    BY <1>5
  <2> HIDE DEF a
  <2>3. PromptsAt(a \o b, Live(os)) = PromptsAt(a, Live(os)) \o PromptsAt(b, Live(b))
    <3> DEFINE ll == Live(os)
               bb == Live(b)
    <3>1. Splits(a, b, ll, bb, ll)
      BY <2>2
    <3>2. b \in Seq(Submissions)
      BY <1>1
    <3> HIDE DEF ll, bb
    <3>3. PromptsAt(a \o b, ll) = PromptsAt(a, ll) \o PromptsAt(b, bb)
      BY <2>1, <3>1, <3>2, AllCarry, PromptsSplit
    <3>4. QED
      BY <3>3 DEF ll, bb
  <2>4. QED
    BY <2>3 DEF a
<1>8. PromptsAt(<<h>>, Live(os)) = IF 1 \in Live(os) THEN <<h.prompt>> ELSE <<>>
  BY <1>1, AllCarry, PromptsOne
<1>9. QED
  BY <1>1, <1>4, <1>7, <1>8 DEF Sending, h, b

\* What is sent of the queue is what its submissions carry.
LEMMA SendingAll ==
  ASSUME NEW q \in Seq(Submissions), NEW ps \in Seq(Prompt), Len(ps) = Len(q),
         \A i \in 1..Len(q) : q[i].op = "Queue" /\ q[i].prompt = ps[i]
  PROVE  Sending(q) = ps /\ Asks(q) = {}
<1>1. "Queue" \notin IdleOnly
  BY DEF IdleOnly, LocalOps, Switches
<1>2. DOMAIN q = 1..Len(q)
  OBVIOUS
<1>3. Asks(q) = {}
  BY <1>1, <1>2 DEF Asks
<1>4. \A i \in 1..Len(q) : i \in Live(q)
  BY <1>2, <1>3 DEF Live
<1> DEFINE x == Sending(q)
<1>5. Len(x) = Len(q) /\ \A i \in 1..Len(q) : x[i] = ps[i]
  <2> DEFINE at == Live(q)
  <2> HIDE DEF at
  <2>1. \A s \in Seq(Submissions) : (\A i \in 1..Len(s) : i \in at) =>
           /\ Len(PromptsAt(s, at)) = Len(s)
           /\ \A i \in 1..Len(s) : PromptsAt(s, at)[i] = s[i].prompt
    BY AllCarry, PromptsAll
  <2>2. (\A i \in 1..Len(q) : i \in at) =>
           /\ Len(PromptsAt(q, at)) = Len(q)
           /\ \A i \in 1..Len(q) : PromptsAt(q, at)[i] = q[i].prompt
    BY <2>1
  <2>3. \A i \in 1..Len(q) : i \in at
    BY <1>4 DEF at
  <2>4. x = PromptsAt(q, at)
    BY DEF Sending, at
  <2>5. QED
    BY <2>2, <2>3, <2>4
<1>6. x \in Seq(Carried) /\ ps \in Seq(Carried)
  <2>1. x \in Seq(Carried)
    BY AllCarry, PromptsType DEF Sending
  <2>2. ps \in Seq(Carried)
    BY DEF Carried
  <2>3. QED
    BY <2>1, <2>2
<1> HIDE DEF x
<1>7. x = ps
  BY <1>5, <1>6, SeqEqual
<1>8. QED
  BY <1>3, <1>7 DEF x

----------------------------------------------------------------------------
(* The queue, the operation in flight and what the channels bring agree *)

TurnPhases == {"signIn", "autoCompact", "request", "reply", "tools", "midTurnCompact"}

\* A running engine is at a phase of its operation, and one that races no operation
\* has an empty mailbox.
Phased(e) ==
  /\ e.phase \in TurnPhases => e.op = "Prompt"
  /\ e.phase = "compact" => e.op = "Compact"
  /\ e.phase \in {"login", "finishLogin"} => e.op = "Login"
  /\ e.phase = "local" => e.op \in LocalOps
  /\ e.phase \in {"idle", "local"} => e.mailbox = <<>>

\* What only a turn, and only a switch, says of itself.
TurnWords == {"Token", "PromptDrained", "TurnRolledBack", "PromptUnsent", "AutoCompactionStarted",
              "SessionCompactedMidTurn"}
Hops      == {"SessionRolled", "SessionResumed"}

Speaks(op, es) ==
  \A i \in DOMAIN es :
    /\ es[i].ev \in TurnWords => op = "Prompt"
    /\ es[i].ev \in Hops => op \in Switches
    /\ es[i].ev = "SessionCompacted" => op \in {"Prompt", "Compact"}

\* Prompts are forwarded to a turn alone and never from a held queue; a switch's mark is that of
\* the switch in flight or of a held queue.
Shaped(q, op) ==
  /\ q.forwarded <= Len(q.pending)
  /\ q.forwarded > 0 => op = "Prompt" /\ ~q.held
  /\ SwitchAsked(q) => q.switch.before <= Len(q.pending) /\ (q.held \/ op \in Switches)
  /\ op \in Switches => ~q.held /\ q.handBack = "heldQueue"

\* The forwarded prompts.
Lead(q) == SubSeq(q.pending, 1, q.forwarded)

\* They are the confirmed ones and then, while the operation is not over, those in its mailbox
\* and those on their way to it.
Under(t, es) == Busy(t) /\ EndsAt(t, es) = {}
Chained(t, e, os, es) ==
  \E rest \in Seq(Carried) :
    /\ Confirmed(es) \o rest = Lead(t.queue)
    /\ Under(t, es) => rest = e.mailbox \o Sending(os)

\* A switch that succeeded is told before its end.
Told(t, es) ==
  t.op \in Switches /\ SwitchAsked(t.queue) =>
    \A i \in EndsAt(t, es) :
      es[i].end \in {"Failed", "Cancelled"} \/ \E j \in DOMAIN es : es[j].ev \in Hops

Agrees(t, e, os, es) ==
  Phased(e) /\ Speaks(t.op, es) /\ Shaped(t.queue, t.op) /\ Chained(t, e, os, es) /\ Told(t, es)

LEMMA LeadFacts ==
  ASSUME NEW q \in Queues, q.forwarded <= Len(q.pending)
  PROVE  /\ Lead(q) \in Seq(Prompt) /\ Lead(q) \in Seq(Carried) /\ Len(Lead(q)) = q.forwarded
         /\ \A i \in 1..q.forwarded : Lead(q)[i] = q.pending[i]
         /\ q.forwarded = 0 => Lead(q) = <<>>
<1>1. q.pending \in Seq(Prompt) /\ q.forwarded \in Nat
  BY QueueFields
<1> DEFINE f == q.forwarded
           s == q.pending
<1>2. f \in Nat /\ f \in Int /\ 1 \in Int /\ \A i \in 1..f : s[i] \in Prompt
  BY <1>1
<1> HIDE DEF f, s
<1>3. /\ SubSeq(s, 1, f) \in Seq(Prompt)
      /\ Len(SubSeq(s, 1, f)) = IF 1 <= f THEN f - 1 + 1 ELSE 0
      /\ \A i \in 1..f - 1 + 1 : SubSeq(s, 1, f)[i] = s[1 + i - 1]
  BY <1>2, SubSeqProperties
<1> DEFINE x == SubSeq(s, 1, f)
<1> HIDE DEF x
<1>4. x \in Seq(Prompt) /\ Len(x) = f /\ \A i \in 1..f : x[i] = s[i]
  BY <1>2, <1>3 DEF x
<1>5. x \in Seq(Carried)
  BY <1>4 DEF Carried
<1>6. f = 0 => x = <<>>
  BY <1>4
<1>7. QED
  BY <1>4, <1>5, <1>6 DEF Lead, x, f, s

\* Two leads of the same prompts.
LEMMA LeadSame ==
  ASSUME NEW q \in Queues, NEW r \in Queues, q.forwarded = r.forwarded,
         q.forwarded <= Len(q.pending), r.forwarded <= Len(r.pending),
         \A i \in 1..q.forwarded : q.pending[i] = r.pending[i]
  PROVE  Lead(q) = Lead(r)
<1>1. /\ Lead(q) \in Seq(Prompt) /\ Len(Lead(q)) = q.forwarded
      /\ \A i \in 1..q.forwarded : Lead(q)[i] = q.pending[i]
  BY LeadFacts
<1>2. /\ Lead(r) \in Seq(Prompt) /\ Len(Lead(r)) = q.forwarded
      /\ \A i \in 1..q.forwarded : Lead(r)[i] = r.pending[i]
  BY LeadFacts
<1>3. QED
  BY <1>1, <1>2, SeqEqual

LEMMA CarriedAssociative ==
  \A a, b, c \in Seq(Carried) : (a \o b) \o c = a \o (b \o c)
BY ConcatAssociative

\* The UI's operation goes on, and more of its queue is sent.
LEMMA AgreesMoves ==
  ASSUME NEW t \in UIs, NEW u \in UIs, NEW e \in Engines, NEW os \in Seq(Submissions),
         NEW q \in Seq(Submissions), NEW es \in Seq(EventRecs), Agrees(t, e, os, es),
         u.op = t.op, u.id = t.id, Asks(q) = {}, Lead(u.queue) = Lead(t.queue) \o Sending(q),
         Shaped(u.queue, u.op),
         u.op \in Switches /\ SwitchAsked(u.queue) => SwitchAsked(t.queue)
  PROVE  Agrees(u, e, os \o q, es)
<1>1. PICK rest \in Seq(Carried) :
        /\ Confirmed(es) \o rest = Lead(t.queue)
        /\ Under(t, es) => rest = e.mailbox \o Sending(os)
  BY DEF Agrees, Chained
<1> DEFINE c == Confirmed(es)
           w == Sending(q)
           v == Sending(os)
           m == e.mailbox
<1>2. c \in Seq(Carried) /\ w \in Seq(Carried) /\ v \in Seq(Carried)
  BY SequenceTypes
<1>3. m \in Seq(Carried)
  BY DEF Engines, Carried
<1>4. Sending(os \o q) = v \o w
  BY SendingConcat
<1> HIDE DEF c, w, v, m
<1>5. rest \o w \in Seq(Carried) /\ c \o (rest \o w) = (c \o rest) \o w
  <2>1. rest \o w \in Seq(Carried)
    BY <1>2, ConcatProperties
  <2>2. QED
    BY <1>2, <2>1, CarriedAssociative
<1>6. (m \o v) \o w = m \o (v \o w)
  BY <1>2, <1>3, CarriedAssociative
<1>7. EndsAt(u, es) = EndsAt(t, es) /\ (Busy(u) <=> Busy(t))
  BY DEF EndsAt, Busy
<1>8. Under(u, es) => rest \o w = m \o Sending(os \o q)
  BY <1>1, <1>4, <1>6, <1>7 DEF Under, m, v
<1>9. c \o (rest \o w) = Lead(u.queue)
  BY <1>1, <1>5 DEF c, w
<1>10. Chained(u, e, os \o q, es)
  BY <1>5, <1>8, <1>9 DEF Chained, c, m
<1>11. Told(u, es) /\ Speaks(u.op, es) /\ Phased(e)
  BY <1>7 DEF Agrees, Told
<1>12. QED
  BY <1>10, <1>11 DEF Agrees

\* Nothing of the forwarded prompts changes.
LEMMA AgreesStays ==
  ASSUME NEW t \in UIs, NEW u \in UIs, NEW e \in Engines, NEW os \in Seq(Submissions),
         NEW es \in Seq(EventRecs), Agrees(t, e, os, es),
         u.op = t.op, u.id = t.id, Lead(u.queue) = Lead(t.queue), Shaped(u.queue, u.op),
         u.op \in Switches /\ SwitchAsked(u.queue) => SwitchAsked(t.queue)
  PROVE  Agrees(u, e, os, es) /\ Agrees(u, e, os \o <<>>, es)
<1> DEFINE q == <<>>
<1>1. q \in Seq(Submissions) /\ DOMAIN q = {}
  OBVIOUS
<1>2. Asks(q) = {} /\ Live(q) = {}
  BY <1>1 DEF Asks, Live
<1>3. Sending(q) = <<>>
  BY <1>1, <1>2, SendingNone
<1>4. Lead(t.queue) \in Seq(Carried)
  BY LeadFacts DEF Agrees, Shaped, UIs
<1>5. Lead(u.queue) = Lead(t.queue) \o Sending(q)
  BY <1>3, <1>4, ConcatEmptySeq
<1>6. os \o q = os
  BY ConcatEmptySeq
<1> HIDE DEF q
<1>7. Agrees(u, e, os \o q, es)
  BY <1>1, <1>2, <1>5, AgreesMoves
<1>8. QED
  BY <1>6, <1>7 DEF q

\* With no operation in flight nothing is forwarded and nothing is left to confirm.
LEMMA AgreesIdle ==
  ASSUME NEW t \in UIs, NEW e \in Engines, NEW os \in Seq(Submissions),
         NEW es \in Seq(EventRecs), Flight(t, e, os, es), ~Busy(t), Phased(e),
         Shaped(t.queue, "none")
  PROVE  Agrees(t, e, os, es)
<1>1. \A i \in DOMAIN es : ~Own(es[i])
  BY DEF Flight, Tells
<1>2. Confirms(es) = {}
  BY <1>1 DEF Confirms, Own
<1>3. Confirmed(es) = <<>>
  BY <1>2, ConfirmedNone
<1>4. t.op = "none" /\ t.queue \in Queues
  BY DEF Busy, UIs
<1>5. t.queue.forwarded = 0
  BY <1>4, QueueFields DEF Shaped
<1>6. Lead(t.queue) = <<>>
  BY <1>4, <1>5, LeadFacts DEF Shaped
<1>7. Chained(t, e, os, es)
  <2>1. <<>> \in Seq(Carried) /\ <<>> \o <<>> = <<>>
    OBVIOUS
  <2>2. QED
    BY <1>3, <1>6, <2>1 DEF Chained, Under
<1>8. Speaks(t.op, es)
  BY <1>1 DEF Speaks, Own, TurnWords, Hops
<1>9. Told(t, es)
  BY <1>4 DEF Told, Switches
<1>10. QED
  BY <1>4, <1>7, <1>8, <1>9 DEF Agrees

\* An operation begins with nothing forwarded.
LEMMA AgreesBegins ==
  ASSUME NEW t \in UIs, NEW u \in UIs, NEW e \in Engines, NEW os \in Seq(Submissions),
         NEW es \in Seq(EventRecs), NEW s \in Submissions,
         Flight(t, e, os, es), Begins(t, u, s), Phased(e), Shaped(u.queue, u.op),
         u.queue.forwarded = 0
  PROVE  Agrees(u, e, os \o <<s>>, es)
<1>1. t.op = "none" /\ ~Busy(t) /\ s.op \in IdleOnly /\ u.op = s.op /\ u.id = t.nextId
  BY DEF Begins, Busy
<1>2. /\ \A i \in DOMAIN es : ~Own(es[i])
      /\ \A i \in DOMAIN es : es[i].ev = "OpEnded" => es[i].id \in 1..t.nextId - 1
      /\ e.phase = "idle"
  BY <1>1 DEF Flight, Tells, Numbered, Stages
<1>3. Confirms(es) = {}
  BY <1>2 DEF Confirms, Own
<1>4. Confirmed(es) = <<>>
  BY <1>3, ConfirmedNone
<1>5. Lead(u.queue) = <<>>
  BY LeadFacts DEF Shaped, UIs
<1>6. Sending(os \o <<s>>) = <<>> /\ e.mailbox = <<>>
  BY <1>1, <1>2, SendingAsked DEF Phased
<1>7. Chained(u, e, os \o <<s>>, es)
  <2>1. <<>> \in Seq(Carried) /\ <<>> \o <<>> = <<>>
    OBVIOUS
  <2>2. QED
    BY <1>4, <1>5, <1>6, <2>1 DEF Chained
<1>8. EndsAt(u, es) = {}
  <2>1. t.nextId \in Nat /\ t.nextId \notin 1..t.nextId - 1
    BY DEF UIs
  <2>2. QED
    BY <1>1, <1>2, <2>1 DEF EndsAt
<1>9. Speaks(u.op, es) /\ Told(u, es)
  BY <1>2, <1>8 DEF Speaks, Own, TurnWords, Hops, Told
<1>10. QED
  BY <1>7, <1>9 DEF Agrees

----------------------------------------------------------------------------
(* The queue, as its methods leave it *)

LEMMA PushShapes ==
  ASSUME NEW q \in Queues, NEW p \in Prompt, NEW op, Shaped(q, op)
  PROVE  /\ Shaped(Push(q, p), op) /\ Lead(Push(q, p)) = Lead(q)
         /\ SwitchAsked(Push(q, p)) => SwitchAsked(q)
<1> DEFINE r == Push(q, p)
<1>1. q.pending \in Seq(Prompt) /\ q.forwarded \in Nat /\ q.switch.before \in Nat
  BY QueueFields
<1>2. /\ r \in Queues /\ r.pending = Append(q.pending, p) /\ r.forwarded = q.forwarded
      /\ r.handBack = q.handBack /\ r.held = FALSE
      /\ r.switch = IF q.held THEN NoSwitch ELSE q.switch
  BY PushTypes DEF Push, Queues
<1>3. /\ Len(r.pending) = Len(q.pending) + 1 /\ Len(q.pending) \in Nat
      /\ \A i \in 1..Len(q.pending) : q.pending[i] = r.pending[i]
  BY <1>1, <1>2
<1> HIDE DEF r
<1>4. SwitchAsked(r) => SwitchAsked(q) /\ ~q.held /\ r.switch = q.switch
  BY <1>2 DEF SwitchAsked, NoSwitch
<1>5. Shaped(r, op)
  BY <1>1, <1>2, <1>3, <1>4 DEF Shaped
<1>6. Lead(q) = Lead(r)
  <2>1. \A i \in 1..q.forwarded : q.pending[i] = r.pending[i]
    BY <1>1, <1>3 DEF Shaped
  <2>2. q.forwarded <= Len(q.pending) /\ r.forwarded <= Len(r.pending)
    BY <1>5 DEF Shaped
  <2>3. QED
    BY <1>2, <2>1, <2>2, LeadSame
<1>7. QED
  BY <1>4, <1>5, <1>6 DEF r

LEMMA PushFrontShapes ==
  ASSUME NEW q \in Queues, NEW ps \in Seq(Prompt), Shaped(q, "none")
  PROVE  Shaped(PushFront(q, ps), "none")
<1> DEFINE r == PushFront(q, ps)
<1>1. q.pending \in Seq(Prompt) /\ q.forwarded \in Nat /\ q.switch.before \in Nat
  BY QueueFields
<1>2. /\ r.pending = ps \o q.pending /\ r.forwarded = q.forwarded
      /\ r.handBack = q.handBack /\ r.held = q.held
      /\ r.switch.to = q.switch.to
      /\ r.switch.before = IF SwitchAsked(q) THEN q.switch.before + Len(ps) ELSE q.switch.before
  BY DEF PushFront, Queues
<1>3. Len(r.pending) = Len(ps) + Len(q.pending) /\ Len(q.pending) \in Nat /\ Len(ps) \in Nat
  BY <1>1, <1>2, ConcatProperties
<1> HIDE DEF r
<1>4. SwitchAsked(r) <=> SwitchAsked(q)
  BY <1>2 DEF SwitchAsked
<1>5. Shaped(r, "none")
  BY <1>1, <1>2, <1>3, <1>4 DEF Shaped
<1>6. QED
  BY <1>5 DEF r

\* Nothing is taken off a queue that holds a switch's mark.
LEMMA PopNextShapes ==
  ASSUME NEW q \in Queues, q.pending # <<>>, Shaped(q, "none"), ~q.held
  PROVE  Shaped(PopNext(q), "none")
<1>1. "none" \notin Switches
  BY DEF Switches
<1>2. q.pending \in Seq(Prompt) /\ q.forwarded \in Nat
  BY QueueFields
<1>3. ~SwitchAsked(q) /\ q.forwarded = 0
  BY <1>1, <1>2 DEF Shaped
<1>4. /\ PopNext(q).switch = q.switch /\ PopNext(q).forwarded = q.forwarded
      /\ PopNext(q).pending = Tail(q.pending) /\ PopNext(q).held = q.held
  BY DEF PopNext, Queues
<1>5. Len(Tail(q.pending)) \in Nat
  BY <1>2
<1>6. QED
  BY <1>1, <1>3, <1>4, <1>5 DEF Shaped, SwitchAsked

LEMMA PopLastShapes ==
  ASSUME NEW q \in Queues, q.pending # <<>>, Shaped(q, "none")
  PROVE  Shaped(PopLast(q), "none")
<1> DEFINE n == Len(q.pending) - 1
           r == PopLast(q)
<1>1. "none" \notin Switches
  BY DEF Switches
<1>2. q.pending \in Seq(Prompt) /\ q.forwarded \in Nat /\ q.switch.before \in Nat
  BY QueueFields
<1>3. q.forwarded = 0 /\ n \in Nat /\ Len(q.pending) = n + 1
  BY <1>1, <1>2 DEF Shaped
<1>4. /\ r.pending = SubSeq(q.pending, 1, n) /\ r.forwarded = q.forwarded /\ r.held = q.held
      /\ r.switch.to = q.switch.to
      /\ r.switch.before = IF q.switch.before > n THEN n ELSE q.switch.before
  BY DEF PopLast, Queues
<1>5. Len(r.pending) = n
  <2>1. \A i \in 1..n : q.pending[i] \in Prompt
    BY <1>2, <1>3
  <2>2. Len(SubSeq(q.pending, 1, n)) = IF 1 <= n THEN n - 1 + 1 ELSE 0
    BY <1>3, <2>1, SubSeqProperties
  <2>3. QED
    BY <1>3, <1>4, <2>2
<1> HIDE DEF n, r
<1>6. Shaped(r, "none")
  BY <1>1, <1>2, <1>3, <1>4, <1>5 DEF Shaped, SwitchAsked
<1>7. QED
  BY <1>6 DEF r

\* The mark counts no more than is queued.
Fits(q) == SwitchAsked(q) => q.switch.before <= Len(q.pending)

LEMMA ForwardShapes ==
  ASSUME NEW q \in Queues, NEW op, Shaped(q, op), NEW n \in Nat, NEW ps \in Seq(Prompt),
         Len(ps) = n, q.forwarded + n <= Len(q.pending),
         \A i \in 1..n : ps[i] = q.pending[q.forwarded + i],
         n > 0 => op = "Prompt" /\ ~q.held
  PROVE  LET r == [q EXCEPT !.forwarded = @ + n]
         IN  /\ r \in Queues /\ Shaped(r, op) /\ Lead(r) = Lead(q) \o ps
             /\ SwitchAsked(r) => SwitchAsked(q)
<1> DEFINE r == [q EXCEPT !.forwarded = q.forwarded + n]
           f == q.forwarded
<1>1. q.pending \in Seq(Prompt) /\ f \in Nat /\ Len(q.pending) \in Nat
  BY QueueFields
<1>2. /\ r \in Queues /\ r.pending = q.pending /\ r.forwarded = f + n /\ r.switch = q.switch
      /\ r.held = q.held /\ r.handBack = q.handBack
  <2>1. f + n \in Nat
    BY <1>1
  <2>2. QED
    BY <2>1 DEF Queues
<1> HIDE DEF r, f
<1>3. Shaped(r, op)
  <2>1. f + n > 0 => op = "Prompt" /\ ~q.held
    BY <1>1 DEF Shaped, f
  <2>2. QED
    BY <1>2, <2>1 DEF Shaped, SwitchAsked, f
<1>4. /\ Lead(q) \in Seq(Prompt) /\ Len(Lead(q)) = f
      /\ \A i \in 1..f : Lead(q)[i] = q.pending[i]
  BY LeadFacts DEF Shaped, f
<1>5. /\ Lead(r) \in Seq(Prompt) /\ Len(Lead(r)) = f + n
      /\ \A i \in 1..f + n : Lead(r)[i] = q.pending[i]
  BY <1>2, <1>3, LeadFacts DEF Shaped
<1> DEFINE a == Lead(q)
           d == a \o ps
<1>0. a \in Seq(Prompt) /\ Len(a) = f
  BY <1>4
<1> HIDE DEF a
<1>6. /\ d \in Seq(Prompt) /\ Len(d) = f + n
      /\ \A i \in 1..f + n : d[i] = IF i <= f THEN a[i] ELSE ps[i - f]
  BY <1>0, ConcatProperties
<1> HIDE DEF d
<1>7. ASSUME NEW i \in 1..f + n
      PROVE  d[i] = q.pending[i]
  <2>1. CASE i <= f
    <3>1. i \in 1..f
      BY <1>1, <2>1
    <3>2. QED
      BY <1>4, <1>6, <2>1, <3>1 DEF a
  <2>2. CASE ~(i <= f)
    <3>1. i - f \in 1..n /\ f + (i - f) = i
      BY <1>1, <2>2
    <3>2. QED
      BY <1>6, <2>2, <3>1 DEF f
  <2>3. QED
    BY <2>1, <2>2
<1>8. Lead(r) = d
  BY <1>5, <1>6, <1>7, SeqEqual
<1>9. QED
  BY <1>2, <1>3, <1>8 DEF SwitchAsked, r, d, a, f

\* A confirmation moves the head of the queue.
LEMMA ConfirmShapes ==
  ASSUME NEW q \in Queues, NEW op, NEW p \in Carried, NEW x \in Seq(Carried), Shaped(q, op),
         <<p>> \o x = Lead(q)
  PROVE  LET r == ConfirmDrained(q, p)
         IN  Shaped(r, op) /\ Lead(r) = x /\ (SwitchAsked(r) => SwitchAsked(q))
<1> DEFINE a == Lead(q)
           f == q.forwarded
           s == q.pending
           r == [q EXCEPT !.pending = Tail(s), !.drained = Append(@, p), !.forwarded = f - 1]
<1>1. s \in Seq(Prompt) /\ f \in Nat /\ Len(s) \in Nat
  BY QueueFields
<1>2. /\ a \in Seq(Prompt) /\ Len(a) = f /\ \A i \in 1..f : a[i] = s[i]
      /\ f <= Len(s)
  BY LeadFacts DEF Shaped
<1>3. <<p>> \in Seq(Carried) /\ Len(<<p>>) = 1 /\ <<p>>[1] = p /\ Len(x) \in Nat
  OBVIOUS
<1> DEFINE o == <<p>>
           y == o \o x
<1> HIDE DEF o
<1>4. /\ y \in Seq(Carried) /\ Len(y) = 1 + Len(x)
      /\ \A i \in 1..1 + Len(x) : y[i] = IF i <= 1 THEN o[i] ELSE x[i - 1]
  BY <1>3, ConcatProperties DEF o
<1>5. y = a
  BY DEF o
<1> HIDE DEF y, a, f
<1>6. f = 1 + Len(x) /\ f > 0 /\ s # <<>> /\ Len(s) >= 1
  BY <1>1, <1>2, <1>3, <1>4, <1>5
<1>7. s[1] = p
  <2>1. 1 \in 1..f /\ 1 \in 1..1 + Len(x) /\ 1 <= 1
    BY <1>1, <1>6
  <2>2. y[1] = p
    BY <1>3, <1>4, <2>1 DEF o
  <2>3. QED
    BY <1>2, <1>5, <2>1, <2>2
<1>8. \A i \in 1..Len(x) : x[i] = s[i + 1]
  <2>1. SUFFICES ASSUME NEW i \in 1..Len(x)
                 PROVE  x[i] = s[i + 1]
    OBVIOUS
  <2>2. i + 1 \in 1..f /\ i + 1 \in 1..1 + Len(x) /\ ~(i + 1 <= 1) /\ (i + 1) - 1 = i
    BY <1>3, <1>6
  <2>3. y[i + 1] = x[i]
    BY <1>4, <2>2
  <2>4. QED
    BY <1>2, <1>5, <2>2, <2>3
<1>9. /\ Tail(s) \in Seq(Prompt) /\ Len(Tail(s)) = Len(s) - 1 /\ Head(s) = s[1]
      /\ \A i \in 1..Len(s) - 1 : Tail(s)[i] = s[i + 1]
  BY <1>1, <1>6
<1>10. ConfirmDrained(q, p) = r
  BY <1>6, <1>7, <1>9 DEF ConfirmDrained, f, s
<1>11. f - 1 \in Nat /\ f - 1 = Len(x) /\ f - 1 <= Len(s) - 1
  BY <1>1, <1>2, <1>3, <1>6
<1>12. r \in Queues
  <2>1. p \in Prompt /\ q.drained \in Seq(Prompt)
    BY <1>1, <1>6, <1>7, QueueFields
  <2>2. Append(q.drained, p) \in Seq(Prompt)
    BY <2>1
  <2>3. QED
    BY <1>9, <1>11, <2>2 DEF Queues
<1> DEFINE t == Tail(s)
<1>13. /\ r.pending = t /\ r.forwarded = f - 1 /\ r.switch = q.switch /\ r.held = q.held
       /\ r.handBack = q.handBack
  BY <1>12 DEF Queues
<1> HIDE DEF r, t
<1>14. Shaped(r, op)
  <2>1. op = "Prompt" /\ ~q.held /\ op \notin Switches
    BY <1>6 DEF Shaped, f, Switches
  <2>2. ~SwitchAsked(q)
    BY <2>1 DEF Shaped
  <2>3. QED
    BY <1>9, <1>11, <1>13, <2>1, <2>2 DEF Shaped, SwitchAsked, t
<1>15. /\ Lead(r) \in Seq(Carried) /\ Len(Lead(r)) = Len(x)
       /\ \A i \in 1..Len(x) : Lead(r)[i] = t[i]
  BY <1>11, <1>12, <1>13, <1>14, LeadFacts DEF Shaped
<1>16. \A i \in 1..Len(x) : t[i] = x[i]
  <2>1. \A i \in 1..Len(x) : i \in 1..Len(s) - 1
    BY <1>1, <1>2, <1>11
  <2>2. QED
    BY <1>8, <1>9, <2>1 DEF t
<1> DEFINE l == Lead(r)
<1> HIDE DEF l
<1>17. l = x
  BY <1>15, <1>16, SeqEqual DEF l
<1>18. QED
  BY <1>10, <1>13, <1>14, <1>17 DEF SwitchAsked, r, l

\* What the end of an operation leaves.
LEMMA EndShapes ==
  ASSUME NEW q \in Queues, Fits(q)
  PROVE  /\ Shaped(LeaveToUser(EndTurn(q)), "none")
         /\ Shaped([EndTurn(q) EXCEPT !.held = TRUE], "none")
         /\ (SwitchAsked(q) => q.held) => Shaped(EndTurn(q), "none")
<1> DEFINE a == EndTurn(q)
           b == LeaveToUser(a)
           c == [a EXCEPT !.held = TRUE]
<1>1. /\ a \in Queues /\ a.pending = q.pending /\ a.forwarded = 0 /\ a.switch = q.switch
      /\ a.held = q.held
  BY TurnTypes DEF EndTurn, Queues
<1> HIDE DEF a
<1>2. b.pending = q.pending /\ b.forwarded = 0 /\ b.switch = NoSwitch /\ b.held = TRUE
  BY <1>1 DEF LeaveToUser, Queues
<1>3. c.pending = q.pending /\ c.forwarded = 0 /\ c.switch = q.switch /\ c.held = TRUE
  BY <1>1 DEF Queues
<1>4. Len(q.pending) \in Nat /\ "none" \notin Switches
  BY QueueFields DEF Switches
<1> HIDE DEF b, c
<1>5. Shaped(b, "none") /\ Shaped(c, "none") /\ ((SwitchAsked(q) => q.held) => Shaped(a, "none"))
  BY <1>1, <1>2, <1>3, <1>4 DEF Shaped, SwitchAsked, Fits, NoSwitch
<1>6. QED
  BY <1>5 DEF a, b, c

LEMMA PushFrontFits ==
  ASSUME NEW q \in Queues, NEW ps \in Seq(Prompt), Fits(q)
  PROVE  /\ Fits(PushFront(q, ps)) /\ PushFront(q, ps).held = q.held
         /\ SwitchAsked(PushFront(q, ps)) <=> SwitchAsked(q)
<1> DEFINE r == PushFront(q, ps)
<1>1. q.pending \in Seq(Prompt) /\ q.switch.before \in Nat
  BY QueueFields
<1>2. /\ r.pending = ps \o q.pending /\ r.held = q.held /\ r.switch.to = q.switch.to
      /\ r.switch.before = IF SwitchAsked(q) THEN q.switch.before + Len(ps) ELSE q.switch.before
  BY DEF PushFront, Queues
<1>3. Len(r.pending) = Len(ps) + Len(q.pending) /\ Len(q.pending) \in Nat /\ Len(ps) \in Nat
  BY <1>1, <1>2, ConcatProperties
<1> HIDE DEF r
<1>4. Fits(r) /\ r.held = q.held /\ (SwitchAsked(r) <=> SwitchAsked(q))
  BY <1>1, <1>2, <1>3 DEF Fits, SwitchAsked
<1>5. QED
  BY <1>4 DEF r

\* A settled failure hands back at the head, and holds the queue unless nothing was asked for.
LEMMA FailShapes ==
  ASSUME NEW q \in Queues, NEW b, Fits(q)
  PROVE  /\ Fits(FailTurn(q, b).queue) /\ FailTurn(q, b).queue.held = q.held
         /\ SwitchAsked(FailTurn(q, b).queue) <=> SwitchAsked(q)
         /\ q.handBack = "heldQueue" => ~FailTurn(q, b).goesOn
<1>1. ASSUME NEW r \in Queues, NEW c, Fits(r)
      PROVE  /\ Fits(Restored(r, c).queue) /\ Restored(r, c).queue.held = r.held
             /\ SwitchAsked(Restored(r, c).queue) <=> SwitchAsked(r)
  <2> DEFINE cleared == [r EXCEPT !.active = NoPrompt]
  <2>1. /\ cleared \in Queues /\ r.active \in Prompt \cup {NoPrompt} /\ cleared.held = r.held
        /\ cleared.switch = r.switch /\ cleared.pending = r.pending
    BY TurnTypes, QueueFields DEF Queues
  <2> HIDE DEF cleared
  <2>2. Fits(cleared) /\ (SwitchAsked(cleared) <=> SwitchAsked(r))
    BY <1>1, <2>1 DEF Fits, SwitchAsked
  <2>3. CASE r.active = NoPrompt
    BY <1>1, <2>3 DEF Restored
  <2>4. CASE r.active # NoPrompt
    <3>1. <<r.active>> \in Seq(Prompt)
      BY <2>1, <2>4
    <3> DEFINE d == PushFront(cleared, <<r.active>>)
    <3>2. Fits(d) /\ d.held = r.held /\ (SwitchAsked(d) <=> SwitchAsked(r))
      BY <2>1, <2>2, <3>1, PushFrontFits
    <3> HIDE DEF d
    <3>3. Restored(r, c).queue = IF c THEN cleared ELSE d
      BY <2>4 DEF Restored, cleared, d
    <3>4. QED
      BY <2>1, <2>2, <3>2, <3>3
  <2>5. QED
    BY <2>3, <2>4
<1> DEFINE e == [q EXCEPT !.drained = <<>>]
           undrained == PushFront(e, q.drained)
<1>2. undrained \in Queues /\ Fits(undrained) /\ undrained.held = q.held
      /\ (SwitchAsked(undrained) <=> SwitchAsked(q))
  <2>1. /\ e \in Queues /\ e.held = q.held /\ e.switch = q.switch /\ e.pending = q.pending
        /\ q.drained \in Seq(Prompt)
    BY QueueConstants, QueueFields DEF Queues
  <2> HIDE DEF e
  <2>2. Fits(e) /\ (SwitchAsked(e) <=> SwitchAsked(q))
    BY <2>1 DEF Fits, SwitchAsked
  <2>3. QED
    BY <2>1, <2>2, PushFrontTypes, PushFrontFits
<1>3. q.handBack \in HandBacks
  BY QueueFields
<1> HIDE DEF undrained
<1>4. CASE q.handBack = "nothing"
  BY <1>4 DEF FailTurn
<1>5. CASE q.handBack = "heldQueue"
  BY <1>5 DEF FailTurn
<1>6. CASE q.handBack = "unsentPrompt"
  <2> DEFINE c == b /\ q.pending = <<>>
  <2>1. FailTurn(q, b).queue = Restored(q, c).queue
    BY <1>6 DEF FailTurn
  <2> HIDE DEF c
  <2>2. QED
    BY <1>1, <1>6, <2>1
<1>7. CASE q.handBack = "rolledBackTurn"
  <2>1. FailTurn(q, b).queue = Restored(undrained, b).queue
    BY <1>7 DEF FailTurn, undrained
  <2>2. QED
    BY <1>1, <1>2, <1>7, <2>1
<1>8. QED
  BY <1>3, <1>4, <1>5, <1>6, <1>7 DEF HandBacks

\* A switch marks the queue it leaves.
LEMMA MarkedShapes ==
  ASSUME NEW q \in Queues, NEW kind \in IdleOnly, Shaped(q, "none")
  PROVE  Shaped(Marked(q, kind), kind) /\ Marked(q, kind).forwarded = 0
<1>1. "none" \notin Switches /\ Len(q.pending) \in Nat /\ q.forwarded = 0
  BY QueueFields DEF Switches, Shaped
<1>2. ASSUME NEW to \in {"fresh", "saved"}, kind \in Switches
      PROVE  Shaped(MarkSwitch(q, to), kind) /\ MarkSwitch(q, to).forwarded = 0
  <2> DEFINE r == MarkSwitch(q, to)
  <2>1. /\ r.pending = q.pending /\ r.forwarded = 0 /\ r.held = FALSE /\ r.handBack = "heldQueue"
        /\ r.switch = IF q.switch.to = to THEN q.switch ELSE [to |-> to, before |-> Len(q.pending)]
    BY <1>1 DEF MarkSwitch, Queues
  <2> HIDE DEF r
  <2>2. r.switch.before <= Len(q.pending)
    <3>1. CASE q.switch.to = to
      BY <1>1, <2>1, <3>1 DEF Shaped, SwitchAsked
    <3>2. CASE q.switch.to # to
      BY <1>1, <2>1, <3>2
    <3>3. QED
      BY <3>1, <3>2
  <2>3. Shaped(r, kind)
    BY <1>1, <1>2, <2>1, <2>2 DEF Shaped
  <2>4. QED
    BY <2>1, <2>3 DEF r
<1>3. CASE kind \in Switches
  BY <1>2, <1>3 DEF Marked, Switches
<1>4. CASE kind = "Compact"
  <2> DEFINE r == [q EXCEPT !.handBack = "heldQueue"]
  <2>1. r.pending = q.pending /\ r.forwarded = 0 /\ r.held = q.held /\ r.switch = q.switch
    BY <1>1 DEF Queues
  <2>2. Marked(q, kind) = r /\ kind \notin Switches
    BY <1>4 DEF Marked, Switches
  <2> HIDE DEF r
  <2>3. QED
    BY <1>1, <2>1, <2>2 DEF Shaped, SwitchAsked
<1>5. CASE kind \notin Switches /\ kind # "Compact"
  <2>1. Marked(q, kind) = q
    BY <1>5 DEF Marked, Switches
  <2>2. QED
    BY <1>1, <1>5, <2>1 DEF Shaped
<1>6. QED
  BY <1>3, <1>4, <1>5

\* A switch leaves nothing of its mark.
LEMMA DiscardShapes ==
  ASSUME NEW q \in Queues, NEW op \in Switches, Shaped(q, op)
  PROVE  LET r == DiscardLeftBehind([q EXCEPT !.active = NoPrompt])
         IN  /\ r \in Queues /\ Shaped(r, op) /\ Lead(r) = Lead(q) /\ ~SwitchAsked(r)
<1> DEFINE a == [q EXCEPT !.active = NoPrompt]
           r == DiscardLeftBehind(a)
<1>1. /\ a \in Queues /\ a.forwarded = q.forwarded /\ a.held = q.held /\ a.handBack = q.handBack
  BY DEF Queues
<1> HIDE DEF a
<1>2. /\ r \in Queues /\ r.forwarded = q.forwarded /\ r.held = q.held /\ r.handBack = q.handBack
      /\ r.switch = NoSwitch
  BY <1>1, TurnTypes DEF DiscardLeftBehind, Queues
<1> HIDE DEF r
<1>3. q.forwarded = 0 /\ ~SwitchAsked(r)
  BY <1>2, QueueFields DEF Shaped, Switches, SwitchAsked, NoSwitch
<1>4. Shaped(r, op)
  <2>1. Len(r.pending) \in Nat
    BY <1>2, QueueFields
  <2>2. QED
    BY <1>2, <1>3, <2>1 DEF Shaped
<1>5. Lead(r) = <<>> /\ Lead(q) = <<>>
  BY <1>2, <1>3, <1>4, LeadFacts DEF Shaped
<1>6. QED
  BY <1>2, <1>3, <1>4, <1>5 DEF r, a

----------------------------------------------------------------------------
(* The passes of the UI leave them in agreement *)

Fit(r, es) == Agrees(r.tui, engine, ops \o r.sent, es)

LEMMA ForwardFits ==
  ASSUME ops \in Seq(Submissions), engine \in Engines, NEW es \in Seq(EventRecs),
         NEW t \in UIs, NEW o, Sent(t, o, es), Fit(o, es)
  PROVE  Fit(ForwardQueued(o), es)
<1> DEFINE u     == o.tui
           s     == o.sent
           ready == IF TakesQueuedPrompts(u) THEN ToForward(u.queue) ELSE <<>>
           n     == IF Len(ready) > Room(o.sent) THEN Room(o.sent) ELSE Len(ready)
           q     == [i \in 1..n |-> Submission("Queue", u.nextId + i - 1, ready[i], NoMode)]
           y     == [u.queue EXCEPT !.forwarded = @ + n]
           v     == [u EXCEPT !.queue.forwarded = @ + n, !.nextId = @ + n]
           p     == u.queue.pending
           f     == u.queue.forwarded
<1>1. /\ u \in UIs /\ s \in Seq(Submissions) /\ Len(ops) + Len(s) <= OpCap
      /\ Agrees(u, engine, ops \o s, es)
  BY DEF Sent, Fit
<1>2. u.queue \in Queues /\ u.nextId \in Nat /\ u.nextId >= 1
  BY <1>1 DEF UIs
<1>3. p \in Seq(Prompt) /\ f \in Nat /\ f <= Len(p) /\ Len(p) \in Nat /\ Shaped(u.queue, u.op)
  BY <1>1, <1>2, QueueFields DEF Agrees, Shaped
<1>4. /\ ready \in Seq(Prompt) /\ Len(ready) <= Len(p) - f
      /\ \A i \in 1..Len(ready) : ready[i] = p[f + i]
      /\ Len(ready) > 0 => u.op = "Prompt" /\ ~u.queue.held
  <2>1. CASE TakesQueuedPrompts(u) /\ ~u.queue.held
    <3>1. ready = SubSeq(p, f + 1, Len(p))
      BY <2>1 DEF ToForward
    <3>2. /\ SubSeq(p, f + 1, Len(p)) \in Seq(Prompt)
          /\ Len(SubSeq(p, f + 1, Len(p))) = IF f + 1 <= Len(p) THEN Len(p) - (f + 1) + 1 ELSE 0
          /\ \A i \in 1..Len(p) - (f + 1) + 1 : SubSeq(p, f + 1, Len(p))[i] = p[f + 1 + i - 1]
      <4>1. f + 1 \in Nat /\ \A i \in f + 1..Len(p) : p[i] \in Prompt
        BY <1>3
      <4> HIDE DEF p, f
      <4>2. QED
        BY <1>3, <4>1, SubSeqProperties
    <3> HIDE DEF ready, p, f
    <3>3. Len(ready) = Len(p) - f
      BY <1>3, <3>1, <3>2
    <3>4. \A i \in 1..Len(ready) : ready[i] = p[f + i]
      <4>1. \A i \in 1..Len(ready) : i \in 1..Len(p) - (f + 1) + 1 /\ f + 1 + i - 1 = f + i
        BY <1>3, <3>3
      <4>2. QED
        BY <3>1, <3>2, <4>1
    <3>5. QED
      BY <1>3, <2>1, <3>1, <3>2, <3>3, <3>4 DEF TakesQueuedPrompts
  <2>2. CASE ~(TakesQueuedPrompts(u) /\ ~u.queue.held)
    <3>1. ready = <<>>
      BY <2>2 DEF ToForward
    <3> HIDE DEF ready
    <3>2. QED
      BY <1>3, <3>1, QueueConstants
  <2>3. QED
    BY <2>1, <2>2
<1>5. ForwardQueued(o) = [tui |-> v, sent |-> s \o q]
  BY DEF ForwardQueued
<1>6. v = [u EXCEPT !.queue = y, !.nextId = u.nextId + n]
  BY <1>1 DEF UIs
<1> HIDE DEF ready
<1>7. n \in Nat /\ n <= Len(ready)
  <2>1. Len(ready) \in Nat /\ Len(ops) \in Nat /\ Len(s) \in Nat /\ OpCap \in Nat
    BY <1>1, <1>4, Bounds
  <2>2. QED
    BY <1>1, <2>1, Fitting DEF Room
<1> DEFINE ps == SubSeq(ready, 1, n)
<1> HIDE DEF n
<1>8. ps \in Seq(Prompt) /\ Len(ps) = n /\ \A i \in 1..n : ps[i] = ready[i]
  <2>1. 1 \in Nat /\ \A i \in 1..n : ready[i] \in Prompt
    BY <1>4, <1>7
  <2>2. /\ ps \in Seq(Prompt)
        /\ Len(ps) = IF 1 <= n THEN n - 1 + 1 ELSE 0
        /\ \A i \in 1..n - 1 + 1 : ps[i] = ready[1 + i - 1]
    BY <1>4, <1>7, <2>1, SubSeqProperties
  <2> HIDE DEF ps
  <2>3. Len(ps) = n
    BY <1>7, <2>2
  <2>4. QED
    BY <1>7, <2>2, <2>3
<1> HIDE DEF ps
<1>9. /\ q \in Seq(Submissions) /\ Len(q) = n
      /\ \A i \in 1..n : q[i].op = "Queue" /\ q[i].prompt = ready[i]
  <2>1. ASSUME NEW i \in 1..n
        PROVE  /\ Submission("Queue", u.nextId + i - 1, ready[i], NoMode) \in Submissions
               /\ q[i].op = "Queue" /\ q[i].prompt = ready[i]
    <3>1. ready[i] \in Prompt /\ u.nextId + i - 1 \in Nat \ {0}
      BY <1>2, <1>4, <1>7
    <3>2. QED
      BY <3>1 DEF Submission, Submissions, OpKinds
  <2>2. q \in [1..n -> Submissions]
    BY <2>1
  <2>3. q \in Seq(Submissions) /\ Len(q) = n
    BY <1>7, <2>2, SeqOfFunction
  <2>4. QED
    BY <2>1, <2>3
<1> HIDE DEF q
<1>10. Sending(q) = ps /\ Asks(q) = {}
  BY <1>8, <1>9, SendingAll
<1>11. /\ y \in Queues /\ Shaped(y, u.op) /\ Lead(y) = Lead(u.queue) \o ps
       /\ SwitchAsked(y) => SwitchAsked(u.queue)
  <2>1. f + n <= Len(p) /\ \A i \in 1..n : ps[i] = p[f + i]
    <3>1. Len(ready) \in Nat
      BY <1>4
    <3>2. \A i \in 1..n : i \in 1..Len(ready)
      BY <1>7, <3>1
    <3> HIDE DEF p, f
    <3>3. QED
      BY <1>3, <1>4, <1>7, <1>8, <3>1, <3>2
  <2>2. n > 0 => u.op = "Prompt" /\ ~u.queue.held
    <3>1. Len(ready) \in Nat
      BY <1>4
    <3>2. QED
      BY <1>4, <1>7, <3>1
  <2> DEFINE k == u.queue
             w == u.op
  <2>3. /\ k \in Queues /\ Shaped(k, w) /\ k.forwarded + n <= Len(k.pending)
        /\ \A i \in 1..n : ps[i] = k.pending[k.forwarded + i]
        /\ n > 0 => w = "Prompt" /\ ~k.held
    BY <1>2, <1>3, <2>1, <2>2
  <2> HIDE DEF k, w
  <2>4. LET r == [k EXCEPT !.forwarded = @ + n]
        IN  /\ r \in Queues /\ Shaped(r, w) /\ Lead(r) = Lead(k) \o ps
            /\ SwitchAsked(r) => SwitchAsked(k)
    BY <1>7, <1>8, <2>3, ForwardShapes
  <2>5. QED
    BY <2>4 DEF k, w
<1> HIDE DEF y, v
<1>12. v \in UIs /\ v.op = u.op /\ v.id = u.id /\ v.queue = y
  <2>1. u.nextId + n \in Nat \ {0}
    BY <1>2, <1>7
  <2>2. QED
    BY <1>1, <1>6, <1>11, <2>1 DEF UIs
<1>13. Agrees(v, engine, (ops \o s) \o q, es)
  <2>1. ops \o s \in Seq(Submissions)
    BY <1>1, ConcatProperties
  <2> DEFINE os == ops \o s
  <2>2. os \in Seq(Submissions) /\ Agrees(u, engine, os, es)
    BY <1>1, <2>1
  <2> HIDE DEF os, u, s
  <2>3. Agrees(v, engine, os \o q, es)
    BY <1>1, <1>9, <1>10, <1>11, <1>12, <2>2, AgreesMoves
  <2>4. QED
    BY <2>3 DEF os
<1>14. (ops \o s) \o q = ops \o (s \o q)
  BY <1>1, <1>9, OpsAssociative
<1> DEFINE r == [tui |-> v, sent |-> s \o q]
<1>15. r.tui = v /\ r.sent = s \o q
  OBVIOUS
<1> HIDE DEF r
<1>16. Fit(r, es)
  BY <1>13, <1>14, <1>15 DEF Fit
<1>17. QED
  BY <1>5, <1>16 DEF r

\* An idle UI is in agreement when its queue is.
LEMMA IdleFits ==
  ASSUME ops \in Seq(Submissions), engine \in Engines, NEW es \in Seq(EventRecs),
         NEW u \in UIs, Flight(u, engine, ops, es), ~Busy(u), Shaped(u.queue, "none"),
         Phased(engine)
  PROVE  Fit([tui |-> u, sent |-> <<>>], es)
<1> DEFINE r == [tui |-> u, sent |-> <<>>]
<1>1. r.tui = u /\ r.sent = <<>> /\ ops \o <<>> = ops
  BY ConcatEmptySeq
<1> HIDE DEF r
<1>2. Agrees(u, engine, ops, es)
  BY AgreesIdle
<1>3. Fit(r, es)
  BY <1>1, <1>2 DEF Fit
<1>4. QED
  BY <1>3 DEF r

LEMMA StartTurnFits ==
  ASSUME ops \in Seq(Submissions), Len(ops) <= OpCap, engine \in Engines, NEW es \in Seq(EventRecs),
         NEW t \in UIs, NEW p \in Prompt, Flight(t, engine, ops, es), ~Busy(t),
         Shaped(t.queue, "none"), Phased(engine)
  PROVE  /\ Fit(StartTurn(t, p), es)
         /\ ~Busy(StartTurn(t, p).tui) => Shaped(StartTurn(t, p).tui.queue, "none")
<1>1. t.queue \in Queues /\ t.nextId \in Nat \ {0} /\ t.op = "none" /\ Len(ops) \in Nat
  BY DEF UIs, Busy
<1>2. CASE Room(<<>>) = 0
  <2> DEFINE y == PushFront(t.queue, <<p>>)
             u == [t EXCEPT !.queue = y]
  <2>1. <<p>> \in Seq(Prompt)
    OBVIOUS
  <2>2. y \in Queues /\ Shaped(y, "none")
    BY <1>1, <2>1, PushFrontTypes, PushFrontShapes
  <2> HIDE DEF y
  <2>3. /\ u \in UIs /\ u.op = t.op /\ u.id = t.id /\ u.nextId = t.nextId /\ u.queue = y
        /\ u.activity = t.activity
    BY <2>2 DEF UIs
  <2>4. StartTurn(t, p) = [tui |-> u, sent |-> <<>>]
    BY <1>2 DEF StartTurn, y
  <2> HIDE DEF u
  <2>5. Flight(u, engine, ops, es) /\ ~Busy(u)
    <3>1. Keeps(t, u, <<>>) /\ <<>> \in Seq(Submissions) /\ ops \o <<>> = ops
      <4>1. DOMAIN <<>> = {}
        OBVIOUS
      <4>2. QED
        BY <1>1, <2>3, <4>1, EmptySeq, ConcatEmptySeq DEF Keeps
    <3>2. Flight(u, engine, ops \o <<>>, es)
      BY <2>3, <3>1, FlightKept
    <3>3. QED
      BY <2>3, <3>1, <3>2 DEF Busy
  <2>6. Fit([tui |-> u, sent |-> <<>>], es)
    BY <2>2, <2>3, <2>5, IdleFits
  <2>7. QED
    BY <2>2, <2>3, <2>4, <2>6
<1>3. CASE Room(<<>>) # 0
  <2> DEFINE y == [t.queue EXCEPT !.active = p]
             a == [t EXCEPT !.queue = y]
             u == Begin(a, "Prompt")
             s == Submission("Prompt", t.nextId, p, NoMode)
             o == [tui |-> u, sent |-> <<s>>]
  <2>1. StartTurn(t, p) = ForwardQueued(o)
    <3>1. [t EXCEPT !.queue.active = p] = a
      BY DEF UIs
    <3>2. QED
      BY <1>3, <3>1 DEF StartTurn
  <2>2. /\ y \in Queues /\ y.pending = t.queue.pending /\ y.forwarded = t.queue.forwarded
        /\ y.held = t.queue.held /\ y.switch = t.queue.switch
    BY <1>1 DEF Queues
  <2>3. y.forwarded = 0 /\ Shaped(y, "Prompt")
    <3>1. "none" \notin Switches /\ "Prompt" \notin Switches
      BY DEF Switches
    <3>2. y.forwarded = 0
      BY <1>1, <2>2, QueueFields DEF Shaped
    <3>3. QED
      BY <2>2, <3>1, <3>2 DEF Shaped, SwitchAsked
  <2> HIDE DEF y
  <2>4. /\ a \in UIs /\ a.nextId = t.nextId /\ a.queue = y /\ a.shown = t.shown
        /\ a.requested = t.requested /\ a.modal = t.modal /\ a.awaits = t.awaits
    BY <2>2 DEF UIs
  <2> HIDE DEF a
  <2>5. /\ u \in UIs /\ u.op = "Prompt" /\ u.id = t.nextId /\ u.nextId = t.nextId + 1
        /\ u.shown = t.shown /\ u.requested = t.requested
        /\ u.modal = t.modal /\ u.awaits = t.awaits
    BY <2>4, BeginFacts DEF IdleOnly
  <2>6. u.queue = y
    BY <2>4 DEF Begin, UIs
  <2>7. s \in Submissions /\ s.op = "Prompt" /\ s.id = t.nextId
    BY <1>1 DEF Submission, Submissions, OpKinds, IdleOnly
  <2>8. o.tui = u /\ o.sent = <<s>>
    OBVIOUS
  <2> HIDE DEF u, s, o
  <2>9. Begins(t, u, s)
    BY <1>1, <2>5, <2>7 DEF Begins, IdleOnly
  <2>10. Flight(u, engine, ops \o <<s>>, es)
    BY <2>5, <2>7, <2>9, FlightBegins
  <2>11. <<s>> \in Seq(Submissions) /\ Len(<<s>>) = 1 /\ DOMAIN <<s>> = {1} /\ <<s>>[1] = s
    BY <2>7
  <2>12. ModesOf(<<s>>) = {}
    BY <2>7, <2>11 DEF ModesOf
  <2>13. Len(ops) + 1 <= OpCap
    <3>1. Room(<<>>) = OpCap - Len(ops)
      BY <1>1, Bounds DEF Room
    <3>2. QED
      BY <1>1, <1>3, <3>1, Bounds
  <2>14. Sent(t, o, es)
    BY <2>5, <2>8, <2>10, <2>11, <2>12, <2>13 DEF Sent
  <2>15. Agrees(u, engine, ops \o <<s>>, es)
    <3>1. Shaped(u.queue, u.op) /\ u.queue.forwarded = 0
      BY <2>3, <2>5, <2>6
    <3>2. QED
      BY <2>5, <2>7, <2>9, <3>1, AgreesBegins
  <2>16. Fit(o, es)
    BY <2>8, <2>15 DEF Fit
  <2>17. Fit(ForwardQueued(o), es) /\ ForwardQueued(o).tui.op = u.op
    BY <2>8, <2>14, <2>16, ForwardFits, ForwardSends
  <2>18. QED
    BY <2>1, <2>5, <2>17 DEF Busy
<1>4. QED
  BY <1>2, <1>3

LEMMA DrainPendingFits ==
  ASSUME ops \in Seq(Submissions), Len(ops) <= OpCap, engine \in Engines, NEW es \in Seq(EventRecs),
         NEW t \in UIs, Flight(t, engine, ops, es), ~Busy(t), Shaped(t.queue, "none"),
         Phased(engine)
  PROVE  Fit(DrainPending(t), es)
<1>1. t.queue \in Queues /\ t.nextId \in Nat \ {0}
  BY DEF UIs
<1>2. CASE t.queue.held \/ t.queue.pending = <<>>
  BY <1>2, IdleFits DEF DrainPending
<1>3. CASE ~(t.queue.held \/ t.queue.pending = <<>>)
  <2> DEFINE y == PopNext(t.queue)
             u == [t EXCEPT !.queue = y]
             p == Head(t.queue.pending)
  <2>1. y \in Queues /\ p \in Prompt /\ Shaped(y, "none")
    BY <1>1, <1>3, PopTypes, PopNextShapes
  <2>2. DrainPending(t) = StartTurn(u, p)
    BY <1>3 DEF DrainPending
  <2> HIDE DEF y, p
  <2>3. /\ u \in UIs /\ u.op = t.op /\ u.id = t.id /\ u.nextId = t.nextId /\ u.queue = y
        /\ u.activity = t.activity
    BY <2>1 DEF UIs
  <2> HIDE DEF u
  <2>4. Flight(u, engine, ops, es) /\ ~Busy(u)
    <3>1. Keeps(t, u, <<>>) /\ <<>> \in Seq(Submissions) /\ ops \o <<>> = ops
      <4>1. DOMAIN <<>> = {}
        OBVIOUS
      <4>2. QED
        BY <1>1, <2>3, <4>1, EmptySeq, ConcatEmptySeq DEF Keeps
    <3>2. Flight(u, engine, ops \o <<>>, es)
      BY <2>3, <3>1, FlightKept
    <3>3. QED
      BY <2>3, <3>1, <3>2 DEF Busy
  <2>5. QED
    BY <2>1, <2>2, <2>3, <2>4, StartTurnFits
<1>4. QED
  BY <1>2, <1>3

\* The queue goes on after an end as `k`.
Settled(q, end, b, k) ==
  /\ end # "Cancelled"
  /\ end = "Failed" => k = FailTurn(q, b).queue /\ FailTurn(q, b).goesOn
  /\ end # "Failed" => k = q

\* A switch's mark outlives the operation only on a held queue.
LEMMA OverShapes ==
  ASSUME NEW e \in Engines, NEW os \in Seq(Submissions), NEW es \in Seq(EventRecs), es # <<>>,
         NEW t \in UIs, Flight(t, e, os, es), 1 \in EndsAt(t, es), Agrees(t, e, os, es),
         NEW b, NEW k \in Queues, Settled(t.queue, Head(es).end, b, k)
  PROVE  Fits(k) /\ (SwitchAsked(k) => k.held)
<1> DEFINE q == t.queue
           r == FailTurn(q, b)
           end == Head(es).end
<1>0. Settled(q, end, b, k)
  OBVIOUS
<1>1. q \in Queues /\ Shaped(q, t.op) /\ Told(t, es)
  BY DEF Agrees, UIs
<1>2. Fits(q)
  BY <1>1 DEF Shaped, Fits
<1>3. /\ Fits(r.queue) /\ r.queue.held = q.held /\ (SwitchAsked(r.queue) <=> SwitchAsked(q))
      /\ q.handBack = "heldQueue" => ~r.goesOn
  BY <1>1, <1>2, FailShapes
<1> HIDE DEF r
<1>4. Fits(k) /\ k.held = q.held /\ (SwitchAsked(k) <=> SwitchAsked(q))
  BY <1>0, <1>2, <1>3 DEF r, Settled
<1>5. end # "Cancelled" /\ (q.handBack = "heldQueue" => end # "Failed")
  BY <1>0, <1>3 DEF r, Settled
<1>6. SwitchAsked(q) => q.held
  <2> SUFFICES ASSUME SwitchAsked(q), ~q.held PROVE FALSE
    OBVIOUS
  <2>1. t.op \in Switches /\ q.handBack = "heldQueue"
    BY <1>1 DEF Shaped
  <2>2. Head(es) = es[1] /\ es[1].ev = "OpEnded"
    BY DEF EndsAt
  <2>3. PICK j \in DOMAIN es : es[j].ev \in Hops
    BY <1>1, <1>5, <2>1, <2>2 DEF Told
  <2>4. j \in Nat /\ j >= 1
    OBVIOUS
  <2>5. j # 1
    BY <2>2, <2>3 DEF Hops
  <2>6. ~Own(es[j])
    BY <2>4, <2>5 DEF Flight, Tells
  <2>7. QED
    BY <2>3, <2>6 DEF Own, Hops
<1>7. QED
  BY <1>4, <1>6

LEMMA EndOperationFits ==
  ASSUME ops \in Seq(Submissions), Len(ops) <= OpCap, engine \in Engines,
         NEW es \in Seq(EventRecs), es # <<>>, NEW t \in UIs,
         Flight(t, engine, ops, es), Busy(t), 1 \in EndsAt(t, es), Agrees(t, engine, ops, es)
  PROVE  Fit(EndOperation(t, Head(es).end), Tail(es))
<1> DEFINE end == Head(es).end
           settles == end = "Failed" \/ (end = "Cancelled" /\ t.queue.handBack = "unsentPrompt")
           s == IF settles THEN FailTurn(t.queue, t.input = NoPrompt)
                ELSE [queue |-> t.queue, input |-> NoPrompt, goesOn |-> TRUE]
           goesOn == s.goesOn /\ end # "Cancelled"
           over == EndTurn(s.queue)
           queue == IF t.activity = "cancelling" THEN LeaveToUser(over)
                    ELSE IF goesOn THEN over ELSE [over EXCEPT !.held = TRUE]
           idle == [t EXCEPT !.queue = queue, !.op = "none", !.id = 0, !.activity = "none",
                        !.input = IF s.input = NoPrompt THEN @ ELSE s.input,
                        !.awaits = Open(t)]
           r == EndOperation(t, end)
           d == Tail(es)
<1>1. r = IF idle.awaits THEN [tui |-> idle, sent |-> <<>>] ELSE DrainPending(idle)
  BY DEF EndOperation
<1>2. t.queue \in Queues /\ t.input \in Prompt \cup {NoPrompt} /\ Shaped(t.queue, t.op)
  BY DEF UIs, Agrees
<1>3. Fits(t.queue)
  BY <1>2 DEF Shaped, Fits
<1> DEFINE k == s.queue
<1>4. /\ k \in Queues /\ s.input \in Prompt \cup {NoPrompt} /\ s.goesOn \in BOOLEAN /\ Fits(k)
      /\ IF settles
         THEN /\ k = FailTurn(t.queue, t.input = NoPrompt).queue
              /\ s.goesOn = FailTurn(t.queue, t.input = NoPrompt).goesOn
         ELSE k = t.queue /\ s.goesOn = TRUE
  <2>1. CASE settles
    <3>1. FailTurn(t.queue, t.input = NoPrompt).goesOn \in BOOLEAN
      BY <1>2, QueueFields DEF FailTurn, HandBacks
    <3>2. QED
      BY <1>2, <1>3, <2>1, <3>1, FailTypes, FailShapes
  <2>2. CASE ~settles
    BY <1>2, <1>3, <2>2
  <2>3. QED
    BY <2>1, <2>2
<1> HIDE DEF end
<1>5. end = Head(es).end
  BY DEF end
<1> HIDE DEF s
<1>6. s.goesOn /\ end # "Cancelled" => (SwitchAsked(k) => k.held)
  <2> DEFINE b == t.input = NoPrompt
             q == t.queue
  <2> SUFFICES ASSUME s.goesOn, end # "Cancelled" PROVE SwitchAsked(k) => k.held
    OBVIOUS
  <2>1. k \in Queues /\ Settled(q, end, b, k)
    BY <1>4 DEF Settled
  <2> HIDE DEF k, b
  <2>2. Settled(t.queue, Head(es).end, b, k)
    BY <1>5, <2>1
  <2>3. QED
    BY <2>1, <2>2, OverShapes
<1>7. queue \in Queues /\ Shaped(queue, "none")
  <2> HIDE DEF k
  <2>1. over = EndTurn(k) /\ k \in Queues /\ Fits(k)
    BY <1>4 DEF k
  <2>2. /\ Shaped(LeaveToUser(over), "none") /\ Shaped([over EXCEPT !.held = TRUE], "none")
        /\ (SwitchAsked(k) => k.held) => Shaped(over, "none")
    BY <2>1, EndShapes
  <2>3. queue \in Queues
    BY <2>1, TurnTypes
  <2>4. CASE t.activity = "cancelling"
    BY <2>2, <2>3, <2>4
  <2>5. CASE t.activity # "cancelling" /\ goesOn
    BY <1>6, <2>2, <2>3, <2>5
  <2>6. CASE t.activity # "cancelling" /\ ~goesOn
    BY <2>2, <2>3, <2>6
  <2>7. QED
    BY <2>4, <2>5, <2>6
<1> HIDE DEF queue
<1>8. /\ idle \in UIs /\ idle.op = "none" /\ idle.id = 0 /\ idle.nextId = t.nextId
      /\ idle.queue = queue /\ idle.awaits = Open(t)
  <2>1. Open(t) \in BOOLEAN
    BY DEF Open
  <2>2. (IF s.input = NoPrompt THEN t.input ELSE s.input) \in Prompt \cup {NoPrompt}
    BY <1>2, <1>4
  <2>3. QED
    BY <1>7, <2>1, <2>2 DEF UIs
<1> HIDE DEF idle, r
<1>9. Flight(idle, engine, ops, d) /\ ~Busy(idle)
  BY <1>8, FlightOver DEF Busy
<1>10. d \in Seq(EventRecs) /\ Phased(engine)
  BY HeadTailProperties DEF Agrees
<1> HIDE DEF d
<1>11. Shaped(idle.queue, "none")
  BY <1>7, <1>8
<1>12. Fit(r, d)
  <2>1. CASE idle.awaits
    BY <1>1, <1>8, <1>9, <1>10, <1>11, <2>1, IdleFits
  <2>2. CASE ~idle.awaits
    BY <1>1, <1>8, <1>9, <1>10, <1>11, <2>2, DrainPendingFits
  <2>3. QED
    BY <2>1, <2>2
<1>13. QED
  BY <1>12 DEF d, r, end

----------------------------------------------------------------------------
(* What the user does keeps the agreement *)

AInv == Agrees(tui, engine, ops, events)

LEMMA PassAgrees ==
  ASSUME NEW r, Pass(r), engine' = engine, Fit(r, events')
  PROVE  AInv'
BY DEF Pass, Fit, AInv

LEMMA QuietAgrees ==
  ASSUME NEW u, Quietly(u), FInv, engine' = engine, Agrees(u, engine, ops, events')
  PROVE  AInv'
<1>1. ops \o <<>> = ops
  BY Closed, ConcatEmptySeq
<1>2. tui' = u /\ ops' = ops
  BY <1>1 DEF Quietly, Pass
<1>3. QED
  BY <1>2 DEF AInv

LEMMA FlightSame ==
  ASSUME NEW t \in UIs, NEW u \in UIs, NEW e \in Engines, NEW os \in Seq(Submissions),
         NEW es \in Seq(EventRecs), Flight(t, e, os, es), u.op = t.op, u.id = t.id,
         u.nextId = t.nextId, u.activity = t.activity
  PROVE  Flight(u, e, os, es)
<1>1. Keeps(t, u, <<>>) /\ <<>> \in Seq(Submissions) /\ os \o <<>> = os
  <2>1. DOMAIN <<>> = {} /\ t.nextId \in Nat
    BY DEF UIs
  <2>2. QED
    BY <2>1, EmptySeq, ConcatEmptySeq DEF Keeps
<1>2. Flight(u, e, os \o <<>>, es)
  BY <1>1, FlightKept
<1>3. QED
  BY <1>1, <1>2

LEMMA QueueSame ==
  ASSUME FInv, AInv, NEW u \in UIs, u.op = tui.op, u.id = tui.id, u.queue = tui.queue
  PROVE  Agrees(u, engine, ops, events)
<1>1. tui \in UIs /\ engine \in Engines /\ ops \in Seq(Submissions) /\ events \in Seq(EventRecs)
  BY Closed
<1>2. Agrees(tui, engine, ops, events)
  BY DEF AInv
<1>3. Lead(u.queue) = Lead(tui.queue) /\ Shaped(u.queue, u.op)
      /\ (u.op \in Switches /\ SwitchAsked(u.queue) => SwitchAsked(tui.queue))
  BY <1>2 DEF Agrees
<1>4. QED
  BY <1>1, <1>2, <1>3, AgreesStays

LEMMA TypeAgrees == ASSUME FInv, AInv, Type PROVE AInv'
<1>1. PICK p \in Prompt : Quietly([tui EXCEPT !.input = p])
  BY DEF Type
<1> DEFINE u == [tui EXCEPT !.input = p]
<1>2. u \in UIs /\ u.op = tui.op /\ u.id = tui.id /\ u.queue = tui.queue
  BY Closed DEF UIs
<1>3. Quietly(u) /\ engine' = engine /\ events' = events
  BY <1>1 DEF Type
<1> HIDE DEF u
<1>4. Agrees(u, engine, ops, events')
  BY <1>2, <1>3, QueueSame
<1>5. QED
  BY <1>3, <1>4, QuietAgrees

LEMMA OpenModalAgrees == ASSUME FInv, AInv, OpenModal PROVE AInv'
<1>1. PICK modal \in Modals : Quietly([tui EXCEPT !.modal = modal])
  BY DEF OpenModal
<1> DEFINE u == [tui EXCEPT !.modal = modal]
<1>2. u \in UIs /\ u.op = tui.op /\ u.id = tui.id /\ u.queue = tui.queue
  BY Closed DEF UIs
<1>3. Quietly(u) /\ engine' = engine /\ events' = events
  BY <1>1 DEF OpenModal
<1> HIDE DEF u
<1>4. Agrees(u, engine, ops, events')
  BY <1>2, <1>3, QueueSame
<1>5. QED
  BY <1>3, <1>4, QuietAgrees

LEMMA CloseModalAgrees == ASSUME FInv, AInv, CloseModal PROVE AInv'
<1> DEFINE a == [tui EXCEPT !.modal = "none"]
           u == [a EXCEPT !.awaits = FALSE]
<1>1. /\ engine' = engine /\ events' = events
      /\ IF tui.awaits /\ ~Busy(tui) THEN Pass(DrainPending(u)) ELSE Quietly(a)
  BY DEF CloseModal
<1>2. /\ a \in UIs /\ a.op = tui.op /\ a.id = tui.id /\ a.queue = tui.queue
      /\ u \in UIs /\ u.op = tui.op /\ u.id = tui.id /\ u.queue = tui.queue
      /\ u.nextId = tui.nextId /\ u.activity = tui.activity
  BY Closed DEF UIs, Modals
<1> HIDE DEF a, u
<1>3. CASE tui.awaits /\ ~Busy(tui)
  <2>1. /\ tui \in UIs /\ engine \in Engines /\ ops \in Seq(Submissions) /\ Len(ops) <= OpCap
        /\ events \in Seq(EventRecs) /\ Flight(tui, engine, ops, events)
    BY Closed
  <2>2. Flight(u, engine, ops, events) /\ ~Busy(u)
    BY <1>2, <1>3, <2>1, FlightSame DEF Busy
  <2>3. Shaped(u.queue, "none") /\ Phased(engine)
    BY <1>2, <1>3 DEF AInv, Agrees, Busy
  <2>4. Fit(DrainPending(u), events)
    BY <1>2, <2>1, <2>2, <2>3, DrainPendingFits
  <2>5. QED
    BY <1>1, <1>3, <2>4, PassAgrees
<1>4. CASE ~(tui.awaits /\ ~Busy(tui))
  <2>1. Agrees(a, engine, ops, events')
    BY <1>1, <1>2, QueueSame
  <2>2. QED
    BY <1>1, <1>4, <2>1, QuietAgrees
<1>5. QED
  BY <1>3, <1>4

\* A pass that sends one op that carries no prompt.
LEMMA OneAgrees ==
  ASSUME FInv, AInv, NEW u \in UIs, NEW s \in Submissions, Pass([tui |-> u, sent |-> <<s>>]),
         engine' = engine, events' = events, s.op \notin IdleOnly \cup {"Queue"},
         u.op = tui.op, u.id = tui.id, u.queue = tui.queue
  PROVE  AInv'
<1> DEFINE q == <<s>>
<1>1. q \in Seq(Submissions) /\ DOMAIN q = {1} /\ q[1] = s
  OBVIOUS
<1>2. tui' = u /\ ops' = ops \o q
  BY DEF Pass
<1> HIDE DEF q
<1>3. Asks(q) = {} /\ Live(q) = {}
  BY <1>1 DEF Asks, Live
<1>4. Sending(q) = <<>>
  BY <1>1, <1>3, SendingNone
<1>5. /\ tui \in UIs /\ engine \in Engines /\ ops \in Seq(Submissions)
      /\ events \in Seq(EventRecs) /\ Agrees(tui, engine, ops, events)
  BY Closed DEF AInv
<1>6. Lead(tui.queue) \in Seq(Carried)
  BY <1>5, LeadFacts DEF Agrees, Shaped, UIs
<1>7. Lead(u.queue) = Lead(tui.queue) \o Sending(q)
  BY <1>4, <1>6, ConcatEmptySeq
<1>8. Shaped(u.queue, u.op) /\ (u.op \in Switches /\ SwitchAsked(u.queue) => SwitchAsked(tui.queue))
  BY <1>5 DEF Agrees
<1>9. Agrees(u, engine, ops \o q, events)
  BY <1>1, <1>3, <1>5, <1>7, <1>8, AgreesMoves
<1>10. QED
  BY <1>2, <1>9 DEF AInv

LEMMA SubmitCodeAgrees == ASSUME FInv, AInv, SubmitCode PROVE AInv'
<1> DEFINE u == [tui EXCEPT !.nextId = tui.nextId + 1]
           s == Submission("LoginCode", tui.nextId, NoPrompt, NoMode)
<1>1. Pass([tui |-> u, sent |-> <<s>>]) /\ engine' = engine /\ events' = events
  BY Closed DEF SubmitCode, UIs
<1>2. /\ u \in UIs /\ u.op = tui.op /\ u.id = tui.id /\ u.queue = tui.queue
      /\ tui.nextId \in Nat \ {0}
  BY Closed DEF UIs
<1>3. s \in Submissions /\ s.op = "LoginCode"
  BY <1>2 DEF Submission, Submissions, OpKinds
<1> HIDE DEF u, s
<1>4. s.op \notin IdleOnly \cup {"Queue"}
  BY <1>3 DEF IdleOnly, LocalOps, Switches
<1>5. QED
  BY <1>1, <1>2, <1>3, <1>4, OneAgrees

LEMMA InterruptAgrees == ASSUME FInv, AInv, Interrupt PROVE AInv'
<1> DEFINE u == [tui EXCEPT !.activity = "cancelling", !.nextId = tui.nextId + 1]
           s == Submission("Interrupt", tui.nextId, NoPrompt, NoMode)
<1>1. Pass([tui |-> u, sent |-> <<s>>]) /\ engine' = engine /\ events' = events
  BY Closed DEF Interrupt, UIs
<1>2. /\ u \in UIs /\ u.op = tui.op /\ u.id = tui.id /\ u.queue = tui.queue
      /\ tui.nextId \in Nat \ {0}
  <2>1. tui \in UIs /\ tui.nextId \in Nat \ {0} /\ tui.nextId + 1 \in Nat \ {0}
    BY Closed DEF UIs
  <2>2. u \in UIs
    BY <2>1 DEF UIs
  <2>3. QED
    BY <2>1, <2>2 DEF UIs
<1>3. s \in Submissions /\ s.op = "Interrupt"
  BY <1>2 DEF Submission, Submissions, OpKinds
<1> HIDE DEF u, s
<1>4. s.op \notin IdleOnly \cup {"Queue"}
  BY <1>3 DEF IdleOnly, LocalOps, Switches
<1>5. QED
  BY <1>1, <1>2, <1>3, <1>4, OneAgrees

LEMMA SetModeAgrees == ASSUME FInv, AInv, SetMode PROVE AInv'
<1>0. PICK m \in Mode : Pass([tui  |-> [tui EXCEPT !.requested = m, !.nextId = @ + 1],
                            sent |-> <<Submission("SetMode", tui.nextId, NoPrompt, m)>>])
  BY DEF SetMode
<1> DEFINE u == [tui EXCEPT !.requested = m, !.nextId = tui.nextId + 1]
           s == Submission("SetMode", tui.nextId, NoPrompt, m)
<1>1. Pass([tui |-> u, sent |-> <<s>>]) /\ engine' = engine /\ events' = events
  BY <1>0, Closed DEF SetMode, UIs
<1>2. /\ u \in UIs /\ u.op = tui.op /\ u.id = tui.id /\ u.queue = tui.queue
      /\ tui.nextId \in Nat \ {0}
  <2>1. tui \in UIs /\ tui.nextId \in Nat \ {0} /\ tui.nextId + 1 \in Nat \ {0}
    BY Closed DEF UIs
  <2>2. u \in UIs
    BY <2>1 DEF UIs
  <2>3. QED
    BY <2>1, <2>2 DEF UIs
<1>3. s \in Submissions /\ s.op = "SetMode"
  BY <1>2 DEF Submission, Submissions, OpKinds
<1> HIDE DEF u, s
<1>4. s.op \notin IdleOnly \cup {"Queue"}
  BY <1>3 DEF IdleOnly, LocalOps, Switches
<1>5. QED
  BY <1>1, <1>2, <1>3, <1>4, OneAgrees

LEMMA TakeBackAgrees == ASSUME FInv, AInv, TakeBack PROVE AInv'
<1> DEFINE n == Len(tui.queue.pending)
           y == PopLast(tui.queue)
           u == [tui EXCEPT !.queue = y, !.input = tui.queue.pending[n]]
<1>1. /\ Quietly(u) /\ engine' = engine /\ events' = events /\ tui.queue.pending # <<>>
      /\ ~Busy(tui)
  BY Closed DEF TakeBack, UIs
<1>2. /\ tui \in UIs /\ engine \in Engines /\ ops \in Seq(Submissions) /\ tui.queue \in Queues
      /\ events \in Seq(EventRecs) /\ Flight(tui, engine, ops, events)
      /\ Shaped(tui.queue, "none") /\ Phased(engine)
  BY <1>1, Closed DEF AInv, Agrees, Busy
<1>3. y \in Queues /\ tui.queue.pending[n] \in Prompt /\ Shaped(y, "none")
  BY <1>1, <1>2, PopTypes, PopLastShapes
<1> HIDE DEF y
<1>4. /\ u \in UIs /\ u.op = tui.op /\ u.id = tui.id /\ u.nextId = tui.nextId
      /\ u.activity = tui.activity /\ u.queue = y
  BY <1>2, <1>3 DEF UIs
<1> HIDE DEF u
<1>5. Flight(u, engine, ops, events) /\ ~Busy(u)
  BY <1>1, <1>2, <1>4, FlightSame DEF Busy
<1>6. Agrees(u, engine, ops, events)
  BY <1>2, <1>3, <1>4, <1>5, AgreesIdle
<1>7. QED
  BY <1>1, <1>6, QuietAgrees

LEMMA DispatchAgrees == ASSUME FInv, AInv, Dispatch PROVE AInv'
<1>0. PICK kind \in Sendable(tui) :
        Pass([tui  |-> Begin([tui EXCEPT !.queue = Marked(@, kind), !.modal = "none"], kind),
              sent |-> <<Submission(kind, tui.nextId, NoPrompt, NoMode)>>])
  BY DEF Dispatch
<1> DEFINE y == Marked(tui.queue, kind)
           a == [tui EXCEPT !.queue = y, !.modal = "none"]
           u == Begin(a, kind)
           s == Submission(kind, tui.nextId, NoPrompt, NoMode)
<1>1. /\ Pass([tui |-> u, sent |-> <<s>>]) /\ engine' = engine /\ events' = events
      /\ ~Busy(tui)
  BY <1>0, Closed DEF Dispatch, UIs
<1>2. kind \in IdleOnly
  BY Closed DEF Sendable, UIs, Modals, IdleOnly, LocalOps, Switches
<1>3. /\ tui \in UIs /\ engine \in Engines /\ ops \in Seq(Submissions) /\ tui.queue \in Queues
      /\ events \in Seq(EventRecs) /\ Flight(tui, engine, ops, events)
      /\ Shaped(tui.queue, "none") /\ Phased(engine)
  BY <1>1, Closed DEF AInv, Agrees, Busy
<1>4. y \in Queues /\ Shaped(y, kind) /\ y.forwarded = 0
  BY <1>2, <1>3, TurnTypes, MarkedShapes
<1> HIDE DEF y
<1>5. a \in UIs /\ a.nextId = tui.nextId /\ a.queue = y /\ tui.nextId \in Nat \ {0}
  BY <1>3, <1>4 DEF UIs, Modals
<1> HIDE DEF a
<1>6. /\ u \in UIs /\ u.op = kind /\ u.id = tui.nextId /\ u.nextId = tui.nextId + 1
  BY <1>2, <1>5, BeginFacts
<1>7. u.queue = y
  BY <1>5 DEF Begin, UIs
<1>8. s \in Submissions /\ s.op = kind /\ s.id = tui.nextId
  BY <1>2, <1>5 DEF Submission, Submissions, OpKinds, IdleOnly, LocalOps, Switches
<1> HIDE DEF u, s
<1>9. Begins(tui, u, s)
  BY <1>1, <1>2, <1>6, <1>8 DEF Begins, Busy
<1>10. Shaped(u.queue, u.op) /\ u.queue.forwarded = 0
  BY <1>4, <1>6, <1>7
<1>11. Agrees(u, engine, ops \o <<s>>, events)
  BY <1>3, <1>6, <1>8, <1>9, <1>10, AgreesBegins
<1>12. tui' = u /\ ops' = ops \o <<s>>
  BY <1>1 DEF Pass
<1>13. QED
  BY <1>1, <1>11, <1>12 DEF AInv

LEMMA SubmitAgrees == ASSUME FInv, AInv, Submit PROVE AInv'
<1> DEFINE p == tui.input
           y == Push(tui.queue, p)
           u == [tui EXCEPT !.input = NoPrompt, !.queue = y]
           o == [tui |-> u, sent |-> <<>>]
           r == IF Busy(tui) THEN ForwardQueued(o) ELSE DrainPending(u)
<1>1. /\ Pass(r) /\ engine' = engine /\ events' = events /\ p \in Prompt
  BY Closed DEF Submit
<1>2. /\ tui \in UIs /\ engine \in Engines /\ ops \in Seq(Submissions) /\ Len(ops) <= OpCap
      /\ events \in Seq(EventRecs) /\ Flight(tui, engine, ops, events) /\ tui.queue \in Queues
      /\ Agrees(tui, engine, ops, events) /\ Shaped(tui.queue, tui.op) /\ Phased(engine)
  BY Closed DEF AInv, Agrees
<1> HIDE DEF p
<1>3. y \in Queues /\ Shaped(y, tui.op) /\ Lead(y) = Lead(tui.queue)
      /\ (SwitchAsked(y) => SwitchAsked(tui.queue))
  BY <1>1, <1>2, PushTypes, PushShapes
<1> HIDE DEF y
<1>4. /\ u \in UIs /\ u.op = tui.op /\ u.id = tui.id /\ u.nextId = tui.nextId
      /\ u.activity = tui.activity /\ u.shown = tui.shown /\ u.requested = tui.requested
      /\ u.modal = tui.modal /\ u.awaits = tui.awaits /\ u.queue = y
  BY <1>2, <1>3 DEF UIs
<1> HIDE DEF u
<1>5. Fit(r, events)
  <2>1. CASE Busy(tui)
    <3>1. Sent(u, o, events) /\ o.tui = u /\ o.sent = <<>> /\ r = ForwardQueued(o)
      BY <1>4, <2>1, Quiet
    <3> HIDE DEF o, r
    <3>2. Agrees(u, engine, ops \o <<>>, events)
      <4>1. Lead(u.queue) = Lead(tui.queue) /\ Shaped(u.queue, u.op)
            /\ (u.op \in Switches /\ SwitchAsked(u.queue) => SwitchAsked(tui.queue))
        BY <1>3, <1>4
      <4>2. QED
        BY <1>2, <1>4, <4>1, AgreesStays
    <3>3. Fit(o, events)
      BY <3>1, <3>2 DEF Fit
    <3>4. Fit(ForwardQueued(o), events)
      BY <1>2, <1>4, <3>1, <3>3, ForwardFits
    <3>5. QED
      BY <3>1, <3>4
  <2>2. CASE ~Busy(tui)
    <3>1. Flight(u, engine, ops, events) /\ ~Busy(u) /\ Shaped(u.queue, "none")
      BY <1>2, <1>3, <1>4, <2>2, FlightSame DEF Busy
    <3>2. Fit(DrainPending(u), events)
      BY <1>2, <1>4, <3>1, DrainPendingFits
    <3>3. QED
      BY <2>2, <3>2
  <2>3. QED
    BY <2>1, <2>2
<1> HIDE DEF r
<1>6. QED
  BY <1>1, <1>5, PassAgrees

LEMMA SlashPromptAgrees == ASSUME FInv, AInv, SlashPrompt PROVE AInv'
<1> DEFINE a == [tui EXCEPT !.input = NoPrompt, !.modal = "none"]
           p == tui.input
           o == StartTurn(a, p)
           b == [o.tui EXCEPT !.awaits = FALSE]
<1>1. /\ engine' = engine /\ events' = events /\ ~Busy(tui) /\ p \in Prompt
      /\ Pass(IF o.tui.awaits /\ ~Busy(o.tui) THEN DrainPending(b) ELSE o)
  BY Closed DEF SlashPrompt
<1>2. /\ tui \in UIs /\ engine \in Engines /\ ops \in Seq(Submissions) /\ Len(ops) <= OpCap
      /\ events \in Seq(EventRecs) /\ Flight(tui, engine, ops, events)
      /\ Shaped(tui.queue, "none") /\ Phased(engine)
  BY <1>1, Closed DEF AInv, Agrees, Busy
<1>3. /\ a \in UIs /\ a.op = tui.op /\ a.id = tui.id /\ a.nextId = tui.nextId
      /\ a.activity = tui.activity /\ a.queue = tui.queue
  BY Closed DEF UIs, Modals
<1> HIDE DEF a, p
<1>4. Flight(a, engine, ops, events) /\ ~Busy(a) /\ Shaped(a.queue, "none")
  BY <1>1, <1>2, <1>3, FlightSame DEF Busy
<1>5. /\ Sent(a, o, events) /\ (~Busy(o.tui) => o.sent = <<>>)
      /\ Fit(o, events) /\ (~Busy(o.tui) => Shaped(o.tui.queue, "none"))
  BY <1>1, <1>2, <1>3, <1>4, StartTurnSends, StartTurnFits
<1> HIDE DEF o
<1>6. CASE o.tui.awaits /\ ~Busy(o.tui)
  <2>1. Flight(o.tui, engine, ops, events) /\ o.tui \in UIs
    <3>1. ops \o <<>> = ops
      BY <1>2, ConcatEmptySeq
    <3>2. QED
      BY <1>5, <1>6, <3>1 DEF Sent
  <2>2. /\ b \in UIs /\ b.op = o.tui.op /\ b.id = o.tui.id /\ b.nextId = o.tui.nextId
        /\ b.activity = o.tui.activity /\ b.queue = o.tui.queue
    BY <2>1 DEF UIs
  <2> HIDE DEF b
  <2>3. Flight(b, engine, ops, events) /\ ~Busy(b) /\ Shaped(b.queue, "none")
    BY <1>2, <1>5, <1>6, <2>1, <2>2, FlightSame DEF Busy
  <2>4. Fit(DrainPending(b), events)
    BY <1>2, <2>2, <2>3, DrainPendingFits
  <2>5. QED
    BY <1>1, <1>6, <2>4, PassAgrees
<1>7. CASE ~(o.tui.awaits /\ ~Busy(o.tui))
  BY <1>1, <1>5, <1>7, PassAgrees
<1>8. QED
  BY <1>6, <1>7

LEMMA UserAgrees == ASSUME FInv, AInv, UserActs PROVE AInv'
BY TypeAgrees, SubmitAgrees, SubmitCodeAgrees, SlashPromptAgrees, InterruptAgrees, TakeBackAgrees,
   SetModeAgrees, DispatchAgrees, OpenModalAgrees, CloseModalAgrees DEF UserActs

----------------------------------------------------------------------------
(* What the UI reads keeps the agreement *)

\* What the head of the events confirms, and what is confirmed and to come after it.
Brought(es) == IF Head(es).ev = "PromptDrained" THEN <<Head(es).prompt>> ELSE <<>>

Left(t, e, os, es, x) ==
  \E rest \in Seq(Carried) :
    /\ x = Confirmed(Tail(es)) \o rest
    /\ Under(t, es) => rest = e.mailbox \o Sending(os)

LEMMA ReadLeaves ==
  ASSUME NEW t \in UIs, NEW e \in Engines, NEW os \in Seq(Submissions),
         NEW es \in Seq(EventRecs), es # <<>>, Agrees(t, e, os, es)
  PROVE  \E x \in Seq(Carried) : Lead(t.queue) = Brought(es) \o x /\ Left(t, e, os, es, x)
<1>1. PICK rest \in Seq(Carried) :
        /\ Confirmed(es) \o rest = Lead(t.queue)
        /\ Under(t, es) => rest = e.mailbox \o Sending(os)
  BY DEF Agrees, Chained
<1> DEFINE c == Confirmed(Tail(es))
           b == Brought(es)
<1>2. Confirmed(es) = b \o c
  BY ConfirmedTail DEF Brought
<1>3. Tail(es) \in Seq(EventRecs) /\ Head(es) \in EventRecs
  BY TailFacts
<1>4. c \in Seq(Carried)
  BY <1>3, SequenceTypes, EmptySeq
<1>5. b \in Seq(Carried)
  <2>1. Head(es).prompt \in Carried
    BY <1>3 DEF EventRecs, Carried
  <2>2. <<Head(es).prompt>> \in Seq(Carried) /\ <<>> \in Seq(Carried)
    BY <2>1
  <2>3. QED
    BY <2>2 DEF Brought
<1> HIDE DEF c, b
<1>6. (b \o c) \o rest = b \o (c \o rest) /\ c \o rest \in Seq(Carried)
  BY <1>4, <1>5, CarriedAssociative, ConcatProperties
<1> DEFINE x == c \o rest
<1>7. Lead(t.queue) = b \o x /\ x \in Seq(Carried)
  BY <1>1, <1>2, <1>6
<1>8. Left(t, e, os, es, x)
  BY <1>1 DEF Left, c
<1> HIDE DEF x
<1>9. QED
  BY <1>7, <1>8 DEF b

LEMMA AgreesReads ==
  ASSUME NEW t \in UIs, NEW u \in UIs, NEW e \in Engines, NEW os \in Seq(Submissions),
         NEW es \in Seq(EventRecs), es # <<>>, Agrees(t, e, os, es), 1 \notin EndsAt(t, es),
         u.op = t.op, u.id = t.id, Shaped(u.queue, u.op), Left(t, e, os, es, Lead(u.queue)),
         u.op \in Switches /\ SwitchAsked(u.queue) =>
           SwitchAsked(t.queue) /\ Head(es).ev \notin Hops
  PROVE  Agrees(u, e, os, Tail(es))
<1> DEFINE d == Tail(es)
<1>1. d \in Seq(EventRecs) /\ Behead(es, d) /\ Head(es) = es[1]
  BY TailFacts
<1>2. PICK rest \in Seq(Carried) :
        /\ Lead(u.queue) = Confirmed(d) \o rest
        /\ Under(t, es) => rest = e.mailbox \o Sending(os)
  BY DEF Left
<1> HIDE DEF d
<1>3. \A i \in EndsAt(u, d) : i + 1 \in EndsAt(t, es) /\ d[i] = es[i + 1]
  BY <1>1 DEF EndsAt, Behead
<1>4. Under(u, d) => Under(t, es)
  <2> SUFFICES ASSUME NEW i \in EndsAt(t, es) PROVE EndsAt(u, d) # {}
    BY DEF Under, Busy
  <2>1. i \in DOMAIN es /\ i # 1
    BY DEF EndsAt
  <2>2. i - 1 \in DOMAIN d /\ es[i] = d[i - 1]
    BY <1>1, <2>1 DEF Behead
  <2>3. QED
    BY <2>2 DEF EndsAt
<1>5. Chained(u, e, os, d)
  BY <1>2, <1>4 DEF Chained
<1>6. Speaks(u.op, d)
  <2>1. Speaks(t.op, es) /\ \A i \in DOMAIN d : i + 1 \in DOMAIN es /\ d[i] = es[i + 1]
    BY <1>1 DEF Agrees, Behead
  <2>2. QED
    BY <2>1 DEF Speaks
<1>7. Told(u, d)
  <2> SUFFICES ASSUME u.op \in Switches, SwitchAsked(u.queue), NEW i \in EndsAt(u, d),
                      d[i].end \notin {"Failed", "Cancelled"}
               PROVE  \E j \in DOMAIN d : d[j].ev \in Hops
    BY DEF Told
  <2>1. i + 1 \in EndsAt(t, es) /\ es[i + 1].end \notin {"Failed", "Cancelled"}
    BY <1>3
  <2>2. Told(t, es) /\ t.op \in Switches /\ SwitchAsked(t.queue) /\ es[1].ev \notin Hops
    BY <1>1 DEF Agrees
  <2>3. PICK j \in DOMAIN es : es[j].ev \in Hops
    BY <2>1, <2>2 DEF Told
  <2>4. j - 1 \in DOMAIN d /\ es[j] = d[j - 1]
    BY <1>1, <2>2, <2>3 DEF Behead
  <2>5. QED
    BY <2>3, <2>4
<1>8. QED
  BY <1>5, <1>6, <1>7 DEF Agrees, d

\* Reading an event that confirms nothing, the forwarded prompts stay.
LEMMA AgreesHears ==
  ASSUME FInv, AInv, NEW ev, Next1(ev), ev \notin {"OpEnded", "PromptDrained"}, NEW u \in UIs,
         u.op = tui.op, u.id = tui.id, Shaped(u.queue, u.op), Lead(u.queue) = Lead(tui.queue),
         u.op \in Switches /\ SwitchAsked(u.queue) => SwitchAsked(tui.queue) /\ ev \notin Hops
  PROVE  Agrees(u, engine, ops, events')
<1>1. /\ events # <<>> /\ events' = Tail(events) /\ Head(events) = events[1]
      /\ Head(events).ev = ev
  BY EventRead
<1>2. /\ tui \in UIs /\ engine \in Engines /\ ops \in Seq(Submissions)
      /\ events \in Seq(EventRecs) /\ Agrees(tui, engine, ops, events)
  BY Closed DEF AInv
<1>3. PICK x \in Seq(Carried) :
        Lead(tui.queue) = Brought(events) \o x /\ Left(tui, engine, ops, events, x)
  BY <1>1, <1>2, ReadLeaves
<1>4. Brought(events) = <<>>
  BY <1>1 DEF Brought
<1>5. Lead(tui.queue) = x
  BY <1>3, <1>4, ConcatEmptySeq
<1>6. 1 \notin EndsAt(tui, events)
  BY <1>1 DEF EndsAt
<1>7. Left(tui, engine, ops, events, Lead(u.queue))
  BY <1>3, <1>5
<1>8. QED
  BY <1>1, <1>2, <1>6, <1>7, AgreesReads

LEMMA HearsQuietly ==
  ASSUME FInv, AInv, NEW ev, Next1(ev), ev \notin {"OpEnded", "PromptDrained"} \cup Hops,
         NEW u \in UIs, Quietly(u), engine' = engine,
         u.op = tui.op, u.id = tui.id, u.queue.pending = tui.queue.pending,
         u.queue.forwarded = tui.queue.forwarded, u.queue.held = tui.queue.held,
         u.queue.switch = tui.queue.switch,
         u.op \in Switches => u.queue.handBack = tui.queue.handBack
  PROVE  AInv'
<1>1. Shaped(u.queue, u.op) /\ Lead(u.queue) = Lead(tui.queue)
  BY DEF AInv, Agrees, Shaped, Lead, SwitchAsked
<1>2. SwitchAsked(u.queue) => SwitchAsked(tui.queue)
  BY DEF SwitchAsked
<1>3. Agrees(u, engine, ops, events')
  BY <1>1, <1>2, AgreesHears
<1>4. QED
  BY <1>3, QuietAgrees

LEMMA SpokenBy ==
  ASSUME FInv, AInv, NEW ev, Next1(ev)
  PROVE  /\ ev \in TurnWords => tui.op = "Prompt"
         /\ ev \in Hops => tui.op \in Switches
         /\ ev = "SessionCompacted" => tui.op \in {"Prompt", "Compact"}
<1>1. 1 \in DOMAIN events /\ events[1].ev = ev
  BY EventRead
<1>2. QED
  BY <1>1 DEF AInv, Agrees, Speaks

LEMMA SetActivityAgrees == ASSUME FInv, AInv, SetActivity PROVE AInv'
<1> DEFINE act == IF Busy(tui) /\ tui.activity # "cancelling" THEN "running" ELSE tui.activity
           u == [tui EXCEPT !.activity = act]
           o == [tui |-> u, sent |-> <<>>]
           r == IF tui.activity = "compacting" THEN ForwardQueued(o) ELSE o
<1>1. Next1("Token") /\ engine' = engine /\ Pass(r)
  BY Closed DEF SetActivity, UIs
<1>2. /\ u \in UIs /\ u.op = tui.op /\ u.id = tui.id /\ u.nextId = tui.nextId
      /\ u.queue = tui.queue
      /\ Busy(tui) /\ tui.activity = "cancelling" => u.activity = "cancelling"
  <2>1. act \in {"none", "running", "compacting", "cancelling"}
    BY Closed DEF UIs
  <2>2. Busy(tui) /\ tui.activity = "cancelling" => act = "cancelling"
    OBVIOUS
  <2> HIDE DEF act
  <2>3. QED
    BY <2>1, <2>2, Closed DEF UIs
<1> HIDE DEF u
<1>3. 1 \notin EndsAt(tui, events)
  BY <1>1, EventRead DEF EndsAt
<1>4. events' \in Seq(EventRecs) /\ Flight(tui, engine, ops, events')
  BY <1>1, <1>3, EventRead
<1>5. Keeps(tui, u, <<>>)
  <2>1. DOMAIN <<>> = {} /\ tui.nextId \in Nat
    BY Closed DEF UIs
  <2>2. QED
    BY <1>2, <2>1 DEF Keeps
<1>6. Sent(u, o, events') /\ o.tui = u /\ o.sent = <<>>
  BY <1>2, <1>4, <1>5, Closed, QuietSends
<1> HIDE DEF o
<1>7. Agrees(u, engine, ops, events')
  <2>1. "Token" \notin {"OpEnded", "PromptDrained"} /\ "Token" \notin Hops
    BY DEF Hops
  <2>2. Shaped(u.queue, u.op) /\ Lead(u.queue) = Lead(tui.queue)
    BY <1>2 DEF AInv, Agrees
  <2>3. QED
    BY <1>1, <1>2, <2>1, <2>2, AgreesHears
<1>8. Fit(o, events')
  <2>1. ops \o <<>> = ops
    BY Closed, ConcatEmptySeq
  <2>2. QED
    BY <1>6, <1>7, <2>1 DEF Fit
<1>9. Fit(ForwardQueued(o), events')
  BY <1>2, <1>4, <1>6, <1>8, Closed, ForwardFits
<1>10. Fit(r, events')
  BY <1>8, <1>9
<1> HIDE DEF r
<1>11. QED
  BY <1>1, <1>10, PassAgrees

LEMMA PromptDrainedAgrees == ASSUME FInv, AInv, PromptDrained PROVE AInv'
<1> DEFINE p == Head(events).prompt
           y == ConfirmDrained(tui.queue, p)
           u == [tui EXCEPT !.queue = y]
<1>1. Next1("PromptDrained") /\ Quietly(u) /\ engine' = engine
  BY Closed DEF PromptDrained, Shows, UIs
<1>2. /\ events # <<>> /\ events' = Tail(events) /\ Head(events) = events[1]
      /\ Head(events).ev = "PromptDrained" /\ p \in Prompt \cup {NoPrompt}
  BY <1>1, EventRead DEF EventRecs
<1>3. /\ tui \in UIs /\ engine \in Engines /\ ops \in Seq(Submissions) /\ tui.queue \in Queues
      /\ events \in Seq(EventRecs) /\ Agrees(tui, engine, ops, events)
      /\ Shaped(tui.queue, tui.op)
  BY Closed DEF AInv, Agrees
<1>4. PICK x \in Seq(Carried) :
        Lead(tui.queue) = Brought(events) \o x /\ Left(tui, engine, ops, events, x)
  BY <1>2, <1>3, ReadLeaves
<1>5. Brought(events) = <<p>>
  BY <1>2 DEF Brought
<1> HIDE DEF p
<1>6. /\ y \in Queues /\ Shaped(y, tui.op) /\ Lead(y) = x
      /\ (SwitchAsked(y) => SwitchAsked(tui.queue))
  <2>1. p \in Carried /\ <<p>> \o x = Lead(tui.queue)
    BY <1>2, <1>4, <1>5 DEF Carried
  <2>2. y \in Queues
    BY <1>2, <1>3, TurnTypes
  <2> DEFINE q == tui.queue
             op == tui.op
  <2>3. q \in Queues /\ Shaped(q, op) /\ <<p>> \o x = Lead(q)
    BY <1>3, <2>1
  <2> HIDE DEF q, op
  <2>4. LET r == ConfirmDrained(q, p)
        IN  Shaped(r, op) /\ Lead(r) = x /\ (SwitchAsked(r) => SwitchAsked(q))
    BY <2>1, <2>3, ConfirmShapes
  <2>5. QED
    BY <2>2, <2>4 DEF q, op
<1> HIDE DEF y
<1>7. u \in UIs /\ u.op = tui.op /\ u.id = tui.id /\ u.queue = y
  BY <1>3, <1>6 DEF UIs
<1> HIDE DEF u
<1>8. 1 \notin EndsAt(tui, events) /\ Head(events).ev \notin Hops
  BY <1>2 DEF EndsAt, Hops
<1>9. Shaped(u.queue, u.op) /\ Left(tui, engine, ops, events, Lead(u.queue))
      /\ (SwitchAsked(u.queue) => SwitchAsked(tui.queue))
  BY <1>4, <1>6, <1>7
<1>10. Agrees(u, engine, ops, events')
  BY <1>2, <1>3, <1>7, <1>8, <1>9, AgreesReads
<1>11. QED
  BY <1>1, <1>10, QuietAgrees

LEMMA HandedBackAgrees ==
  ASSUME FInv, AInv, TurnRolledBack \/ PromptUnsent \/ AutoCompactionStarted
  PROVE  AInv'
<1>1. ASSUME NEW ev \in {"TurnRolledBack", "PromptUnsent", "AutoCompactionStarted"}, Next1(ev),
             NEW h \in HandBacks,
             NEW act \in {"none", "running", "compacting", "cancelling"},
             Quietly([tui EXCEPT !.queue.handBack = h, !.activity = act]),
             engine' = engine
      PROVE  AInv'
  <2> DEFINE q == [tui.queue EXCEPT !.handBack = h]
             u == [tui EXCEPT !.queue = q, !.activity = act]
  <2>1. Quietly(u)
    BY <1>1, Closed DEF UIs
  <2>2. /\ q \in Queues /\ q.pending = tui.queue.pending /\ q.forwarded = tui.queue.forwarded
        /\ q.held = tui.queue.held /\ q.switch = tui.queue.switch
    BY Closed DEF Queues
  <2> HIDE DEF q
  <2>3. u \in UIs /\ u.op = tui.op /\ u.id = tui.id /\ u.queue = q
    BY <2>2, Closed DEF UIs
  <2> HIDE DEF u
  <2>4. ev \in TurnWords /\ ev \notin {"OpEnded", "PromptDrained"} \cup Hops
    BY DEF TurnWords, Hops
  <2>5. u.op \notin Switches
    BY <1>1, <2>3, <2>4, SpokenBy DEF Switches
  <2>6. QED
    BY <1>1, <2>1, <2>2, <2>3, <2>4, <2>5, HearsQuietly
<1>2. tui.activity \in {"none", "running", "compacting", "cancelling"} /\ tui \in UIs
  BY Closed DEF UIs
<1>3. CASE TurnRolledBack
  <2>1. [tui EXCEPT !.queue.handBack = "rolledBackTurn"]
          = [tui EXCEPT !.queue.handBack = "rolledBackTurn", !.activity = tui.activity]
    BY <1>2 DEF UIs
  <2>2. Next1("TurnRolledBack") /\ engine' = engine
        /\ Quietly([tui EXCEPT !.queue.handBack = "rolledBackTurn", !.activity = tui.activity])
    BY <1>3, <2>1 DEF TurnRolledBack, Shows
  <2>3. "rolledBackTurn" \in HandBacks
    BY DEF HandBacks
  <2>4. QED
    BY <1>1, <1>2, <2>2, <2>3
<1>4. CASE PromptUnsent
  <2>1. [tui EXCEPT !.queue.handBack = "unsentPrompt"]
          = [tui EXCEPT !.queue.handBack = "unsentPrompt", !.activity = tui.activity]
    BY <1>2 DEF UIs
  <2>2. Next1("PromptUnsent") /\ engine' = engine
        /\ Quietly([tui EXCEPT !.queue.handBack = "unsentPrompt", !.activity = tui.activity])
    BY <1>4, <2>1 DEF PromptUnsent, Shows
  <2>3. "unsentPrompt" \in HandBacks
    BY DEF HandBacks
  <2>4. QED
    BY <1>1, <1>2, <2>2, <2>3
<1>5. CASE AutoCompactionStarted
  <2> DEFINE act == IF tui.activity = "cancelling" THEN tui.activity ELSE "compacting"
  <2>1. Next1("AutoCompactionStarted") /\ engine' = engine
        /\ Quietly([tui EXCEPT !.queue.handBack = "heldQueue", !.activity = act])
    BY <1>2, <1>5 DEF AutoCompactionStarted, Shows, UIs
  <2>2. act \in {"none", "running", "compacting", "cancelling"}
    BY <1>2
  <2> HIDE DEF act
  <2>3. "heldQueue" \in HandBacks
    BY DEF HandBacks
  <2>4. QED
    BY <1>1, <2>1, <2>2, <2>3
<1>6. QED
  BY <1>3, <1>4, <1>5

LEMMA SessionCompactedAgrees == ASSUME FInv, AInv, SessionCompacted PROVE AInv'
<1>1. CASE /\ Next1("SessionCompacted")
           /\ Shows([tui EXCEPT !.queue.handBack = "nothing", !.modal = "none"])
  <2> DEFINE q == [tui.queue EXCEPT !.handBack = "nothing"]
             u == [tui EXCEPT !.queue = q, !.modal = "none"]
  <2>1. Quietly(u) /\ engine' = engine /\ Next1("SessionCompacted")
    BY <1>1, Closed DEF Shows, UIs
  <2>2. /\ q \in Queues /\ q.pending = tui.queue.pending /\ q.forwarded = tui.queue.forwarded
        /\ q.held = tui.queue.held /\ q.switch = tui.queue.switch
    BY Closed, QueueConstants DEF Queues
  <2> HIDE DEF q
  <2>3. u \in UIs /\ u.op = tui.op /\ u.id = tui.id /\ u.queue = q
    BY <2>2, Closed DEF UIs, Modals
  <2> HIDE DEF u
  <2>4. "SessionCompacted" \notin {"OpEnded", "PromptDrained"} \cup Hops
    BY DEF Hops
  <2>5. u.op \notin Switches
    BY <2>1, <2>3, SpokenBy DEF Switches
  <2>6. QED
    BY <2>1, <2>2, <2>3, <2>4, <2>5, HearsQuietly
<1>2. CASE /\ Next1("SessionCompactedMidTurn")
           /\ Shows([tui EXCEPT !.queue.handBack = "nothing",
                                !.queue.active = NoPrompt, !.queue.drained = <<>>])
  <2> DEFINE q == [tui.queue EXCEPT !.handBack = "nothing", !.active = NoPrompt, !.drained = <<>>]
             u == [tui EXCEPT !.queue = q]
  <2>1. Quietly(u) /\ engine' = engine /\ Next1("SessionCompactedMidTurn")
    BY <1>2, Closed DEF Shows, UIs
  <2>2. /\ q \in Queues /\ q.pending = tui.queue.pending /\ q.forwarded = tui.queue.forwarded
        /\ q.held = tui.queue.held /\ q.switch = tui.queue.switch
    BY Closed, QueueConstants DEF Queues
  <2> HIDE DEF q
  <2>3. u \in UIs /\ u.op = tui.op /\ u.id = tui.id /\ u.queue = q
    BY <2>2, Closed DEF UIs
  <2> HIDE DEF u
  <2>4. /\ "SessionCompactedMidTurn" \in TurnWords
        /\ "SessionCompactedMidTurn" \notin {"OpEnded", "PromptDrained"} \cup Hops
    BY DEF Hops, TurnWords
  <2>5. u.op \notin Switches
    BY <2>1, <2>3, <2>4, SpokenBy DEF Switches
  <2>6. QED
    BY <2>1, <2>2, <2>3, <2>4, <2>5, HearsQuietly
<1>3. QED
  BY <1>1, <1>2 DEF SessionCompacted

LEMMA SessionSwitchedAgrees == ASSUME FInv, AInv, SessionSwitched PROVE AInv'
<1> DEFINE q == DiscardLeftBehind([tui.queue EXCEPT !.active = NoPrompt])
<1>1. /\ engine' = engine /\ ops' = ops
      /\ \E ev \in Hops : \E m \in Modals :
           /\ Next1(ev) /\ tui' = [tui EXCEPT !.epoch = tui.epoch + 1, !.modal = m, !.queue = q]
  <2>1. CASE Next1("SessionRolled")
             /\ tui' = [tui EXCEPT !.epoch = @ + 1,
                           !.queue = DiscardLeftBehind([@ EXCEPT !.active = NoPrompt])]
    <3>1. /\ tui' = [tui EXCEPT !.epoch = tui.epoch + 1, !.modal = tui.modal, !.queue = q]
          /\ tui.modal \in Modals /\ "SessionRolled" \in Hops
      BY <2>1, Closed DEF UIs, Hops
    <3>2. QED
      BY <2>1, <3>1 DEF SessionSwitched
  <2>2. CASE Next1("SessionResumed")
             /\ tui' = [tui EXCEPT !.epoch = @ + 1, !.modal = "none",
                           !.queue = DiscardLeftBehind([@ EXCEPT !.active = NoPrompt])]
    <3>1. /\ tui' = [tui EXCEPT !.epoch = tui.epoch + 1, !.modal = "none", !.queue = q]
          /\ "none" \in Modals /\ "SessionResumed" \in Hops
      BY <2>2, Closed DEF UIs, Modals, Hops
    <3>2. QED
      BY <2>2, <3>1 DEF SessionSwitched
  <2>3. QED
    BY <2>1, <2>2 DEF SessionSwitched
<1>2. PICK ev \in Hops, m \in Modals :
        Next1(ev) /\ tui' = [tui EXCEPT !.epoch = tui.epoch + 1, !.modal = m, !.queue = q]
  BY <1>1
<1>3. /\ tui \in UIs /\ tui.queue \in Queues /\ tui.op \in Switches /\ Shaped(tui.queue, tui.op)
  BY <1>2, Closed, SpokenBy DEF AInv, Agrees
<1>4. q \in Queues /\ Shaped(q, tui.op) /\ Lead(q) = Lead(tui.queue) /\ ~SwitchAsked(q)
  BY <1>3, DiscardShapes
<1> HIDE DEF q
<1> DEFINE u == [tui EXCEPT !.epoch = tui.epoch + 1, !.modal = m, !.queue = q]
<1>5. u.op = tui.op /\ u.id = tui.id /\ u.queue = q /\ tui' = u
  BY <1>2, <1>3 DEF UIs
<1>6. u \in UIs
  <2>1. tui.epoch + 1 \in Nat
    BY <1>3 DEF UIs
  <2>2. QED
    BY <1>3, <1>4, <2>1 DEF UIs
<1> HIDE DEF u
<1>7. ev \notin {"OpEnded", "PromptDrained"}
  BY DEF Hops
<1>8. Shaped(u.queue, u.op) /\ Lead(u.queue) = Lead(tui.queue) /\ ~SwitchAsked(u.queue)
  BY <1>4, <1>5
<1>9. Agrees(u, engine, ops, events')
  BY <1>2, <1>5, <1>6, <1>7, <1>8, AgreesHears
<1>10. QED
  BY <1>1, <1>5, <1>9 DEF AInv

LEMMA SavedFoundAgrees == ASSUME FInv, AInv, SavedFound PROVE AInv'
<1> DEFINE u == [tui EXCEPT !.modal = "op"]
<1>1. Next1("SavedFound") /\ Quietly(u) /\ engine' = engine
  BY DEF SavedFound, Shows
<1>2. u \in UIs /\ u.op = tui.op /\ u.id = tui.id /\ u.queue = tui.queue
  BY Closed DEF UIs, Modals
<1> HIDE DEF u
<1>3. "SavedFound" \notin {"OpEnded", "PromptDrained"} \cup Hops
  BY DEF Hops
<1>4. QED
  BY <1>1, <1>2, <1>3, HearsQuietly

LEMMA ModeShownAgrees == ASSUME FInv, AInv, ModeShown PROVE AInv'
<1> DEFINE u == [tui EXCEPT !.shown = Head(events).mode]
<1>1. Next1("ModeChanged") /\ Quietly(u) /\ engine' = engine
  BY DEF ModeShown, Shows
<1>2. u \in UIs /\ u.op = tui.op /\ u.id = tui.id /\ u.queue = tui.queue
  <2>1. Head(events).mode \in Mode
    BY <1>1, EventRead DEF EventRecs
  <2>2. QED
    BY <2>1, Closed DEF UIs
<1> HIDE DEF u
<1>3. "ModeChanged" \notin {"OpEnded", "PromptDrained"} \cup Hops
  BY DEF Hops
<1>4. QED
  BY <1>1, <1>2, <1>3, HearsQuietly

LEMMA EndedAgrees == ASSUME FInv, AInv, Ended PROVE AInv'
<1>1. Next1("OpEnded") /\ engine' = engine
  BY DEF Ended
<1>2. /\ tui \in UIs /\ engine \in Engines /\ ops \in Seq(Submissions) /\ Len(ops) <= OpCap
      /\ events \in Seq(EventRecs) /\ Flight(tui, engine, ops, events)
      /\ Agrees(tui, engine, ops, events)
  BY Closed DEF AInv
<1>3. /\ events # <<>> /\ events' = Tail(events) /\ Head(events) = events[1]
      /\ Head(events).ev = "OpEnded" /\ 1 \in DOMAIN events
  BY <1>1, EventRead
<1>4. CASE Busy(tui) /\ Head(events).id = tui.id
  <2> DEFINE r == EndOperation(tui, Head(events).end)
  <2>1. Pass(r)
    BY <1>4 DEF Ended
  <2>2. 1 \in EndsAt(tui, events)
    BY <1>3, <1>4 DEF EndsAt
  <2>3. Fit(r, events')
    BY <1>2, <1>3, <1>4, <2>2, EndOperationFits
  <2> HIDE DEF r
  <2>4. QED
    BY <1>1, <2>1, <2>3, PassAgrees
<1>5. CASE ~(Busy(tui) /\ Head(events).id = tui.id)
  <2>1. 1 \notin EndsAt(tui, events)
    <3>1. SUFFICES ASSUME ~Busy(tui), Head(events).id = tui.id PROVE FALSE
      BY <1>3, <1>5 DEF EndsAt
    <3>2. tui.id = 0 /\ events[1].id # 0
      BY <1>2, <1>3, <3>1 DEF Flight, Numbered, Busy
    <3>3. QED
      BY <1>3, <3>1, <3>2
  <2>2. Quietly(tui)
    BY <1>5 DEF Ended, Quietly
  <2>3. PICK x \in Seq(Carried) :
          Lead(tui.queue) = Brought(events) \o x /\ Left(tui, engine, ops, events, x)
    BY <1>2, <1>3, ReadLeaves
  <2>4. Brought(events) = <<>>
    BY <1>3 DEF Brought
  <2>5. Lead(tui.queue) = x
    BY <2>3, <2>4, ConcatEmptySeq
  <2>6. /\ Left(tui, engine, ops, events, Lead(tui.queue)) /\ Shaped(tui.queue, tui.op)
        /\ Head(events).ev \notin Hops
    BY <1>2, <1>3, <2>3, <2>5 DEF Agrees, Hops
  <2>7. Agrees(tui, engine, ops, events')
    BY <1>2, <1>3, <2>1, <2>6, AgreesReads
  <2>8. QED
    BY <1>1, <2>2, <2>7, QuietAgrees
<1>6. QED
  BY <1>4, <1>5

LEMMA EventAgrees == ASSUME FInv, AInv, HandleEvent PROVE AInv'
BY SetActivityAgrees, PromptDrainedAgrees, HandedBackAgrees, SessionCompactedAgrees,
   SessionSwitchedAgrees, SavedFoundAgrees, ModeShownAgrees, EndedAgrees DEF HandleEvent

----------------------------------------------------------------------------
(* What the engine takes, says and ends keeps the agreement *)

\* What the events confirm leaves the mailbox or the channel, and what is read from the channel
\* enters the mailbox.
Passes(t, e, f, os, ns, es, evs) ==
  /\ Under(t, es) => \E rest \in Seq(Carried) :
       /\ Confirmed(evs) \o rest = e.mailbox \o Sending(os)
       /\ Under(t, es \o evs) => rest = f.mailbox \o Sending(ns)
  /\ ~Under(t, es) => Confirmed(evs) = <<>>

LEMMA AgreesOn ==
  ASSUME NEW t \in UIs, NEW e \in Engines, NEW f \in Engines, NEW os \in Seq(Submissions),
         NEW ns \in Seq(Submissions), NEW es \in Seq(EventRecs), NEW evs \in Seq(EventRecs),
         Agrees(t, e, os, es), Phased(f), Speaks(t.op, evs), Told(t, es \o evs),
         Passes(t, e, f, os, ns, es, evs)
  PROVE  Agrees(t, f, ns, es \o evs)
<1> DEFINE d == es \o evs
<1>1. d \in Seq(EventRecs) /\ Joined(es, evs, d, Len(es))
  BY ConcatFacts
<1>2. Confirmed(d) = Confirmed(es) \o Confirmed(evs)
  BY ConfirmedConcat
<1>3. Confirmed(es) \in Seq(Carried) /\ Confirmed(evs) \in Seq(Carried)
  BY SequenceTypes, EmptySeq
<1>4. PICK rest \in Seq(Carried) :
        /\ Confirmed(es) \o rest = Lead(t.queue)
        /\ Under(t, es) => rest = e.mailbox \o Sending(os)
  BY DEF Agrees, Chained
<1>5. Speaks(t.op, es) /\ Shaped(t.queue, t.op)
  BY DEF Agrees
<1>6. Passes(t, e, f, os, ns, es, evs) /\ Told(t, d)
  OBVIOUS
<1>7. Under(t, d) => Under(t, es)
  <2> SUFFICES ASSUME NEW i \in EndsAt(t, es) PROVE EndsAt(t, d) # {}
    BY DEF Under
  <2>1. i \in DOMAIN d /\ d[i] = es[i]
    BY <1>1 DEF EndsAt, Joined
  <2>2. QED
    BY <2>1 DEF EndsAt
<1>8. Chained(t, f, ns, d)
  <2>1. CASE Under(t, es)
    <3>1. PICK more \in Seq(Carried) :
            /\ Confirmed(evs) \o more = e.mailbox \o Sending(os)
            /\ Under(t, d) => more = f.mailbox \o Sending(ns)
      BY <1>6, <2>1 DEF Passes
    <3> DEFINE a == Confirmed(es)
               b == Confirmed(evs)
    <3>2. a \o (b \o more) = Lead(t.queue) /\ Confirmed(d) = a \o b
      BY <1>2, <1>4, <2>1, <3>1
    <3>3. a \in Seq(Carried) /\ b \in Seq(Carried)
      BY <1>3
    <3> HIDE DEF a, b, d
    <3>4. (a \o b) \o more = a \o (b \o more)
      BY <3>3, CarriedAssociative
    <3>5. Confirmed(d) \o more = Lead(t.queue)
      BY <3>2, <3>4
    <3>6. QED
      BY <3>1, <3>5 DEF Chained
  <2>2. CASE ~Under(t, es)
    <3>1. Confirmed(d) = Confirmed(es)
      BY <1>2, <1>3, <1>6, <2>2, ConcatEmptySeq DEF Passes
    <3> HIDE DEF d
    <3>2. QED
      BY <1>4, <1>7, <2>2, <3>1 DEF Chained
  <2>3. QED
    BY <2>1, <2>2
<1> HIDE DEF d
<1>9. Speaks(t.op, d)
  <2> SUFFICES ASSUME NEW i \in DOMAIN d
               PROVE  /\ d[i].ev \in TurnWords => t.op = "Prompt"
                      /\ d[i].ev \in Hops => t.op \in Switches
                      /\ d[i].ev = "SessionCompacted" => t.op \in {"Prompt", "Compact"}
    BY DEF Speaks
  <2>1. CASE i \in DOMAIN es
    <3>1. d[i] = es[i]
      BY <1>1, <2>1 DEF Joined
    <3>2. QED
      BY <1>5, <2>1, <3>1 DEF Speaks
  <2>2. CASE i \notin DOMAIN es
    <3>1. i - Len(es) \in DOMAIN evs /\ d[i] = evs[i - Len(es)]
      BY <1>1, <2>2 DEF Joined
    <3>2. QED
      BY <3>1 DEF Speaks
  <2>3. QED
    BY <2>1, <2>2
<1>10. Agrees(t, f, ns, d)
  BY <1>5, <1>6, <1>8, <1>9 DEF Agrees
<1>11. QED
  BY <1>10 DEF d

\* Nothing that is said beside the operation's end unsays a switch.
LEMMA ToldOn ==
  ASSUME NEW t \in UIs, NEW es \in Seq(EventRecs), NEW evs \in Seq(EventRecs), Told(t, es),
         EndsAt(t, evs) = {}
  PROVE  Told(t, es \o evs) /\ EndsAt(t, es \o evs) \subseteq EndsAt(t, es)
<1> DEFINE d == es \o evs
           n == Len(es)
<1>1. Joined(es, evs, d, n)
  BY ConcatFacts
<1> HIDE DEF d, n
<1>2. EndsAt(t, d) \subseteq EndsAt(t, es)
  <2> SUFFICES ASSUME NEW i \in EndsAt(t, d) PROVE i \in EndsAt(t, es)
    OBVIOUS
  <2>1. i \in DOMAIN d /\ d[i].ev = "OpEnded" /\ d[i].id = t.id
    BY DEF EndsAt
  <2>2. i \in DOMAIN es
    <3> SUFFICES ASSUME i \notin DOMAIN es PROVE FALSE
      OBVIOUS
    <3>1. i - n \in DOMAIN evs /\ d[i] = evs[i - n]
      BY <1>1, <2>1 DEF Joined
    <3>2. QED
      BY <2>1, <3>1 DEF EndsAt
  <2>3. d[i] = es[i]
    BY <1>1, <2>2 DEF Joined
  <2>4. QED
    BY <2>1, <2>2, <2>3 DEF EndsAt
<1>3. \A i \in DOMAIN es : i \in DOMAIN d /\ d[i] = es[i]
  BY <1>1 DEF Joined
<1>4. \A i \in EndsAt(t, es) : i \in DOMAIN es
  BY DEF EndsAt
<1>5. Told(t, d)
  BY <1>2, <1>3, <1>4 DEF Told
<1>6. QED
  BY <1>2, <1>5 DEF d

\* A running operation goes on.
Hands(e, f, evs) ==
  \/ Confirmed(evs) = <<>> /\ f.mailbox = e.mailbox
  \/ Confirmed(evs) = e.mailbox /\ f.mailbox = <<>>

LEMMA MailCarried ==
  ASSUME NEW e \in Engines, NEW os \in Seq(Submissions)
  PROVE  e.mailbox \in Seq(Carried) /\ Sending(os) \in Seq(Carried)
         /\ e.mailbox \o Sending(os) \in Seq(Carried)
<1>1. e.mailbox \in Seq(Prompt) /\ Sending(os) \in Seq(Carried)
  BY SequenceTypes, EmptySeq DEF Engines
<1>2. e.mailbox \in Seq(Carried)
  BY <1>1 DEF Carried
<1>3. QED
  BY <1>1, <1>2, ConcatProperties

LEMMA AgreesSays ==
  ASSUME NEW t \in UIs, NEW e \in Engines, NEW f \in Engines, NEW os \in Seq(Submissions),
         NEW es \in Seq(EventRecs), NEW evs \in Seq(EventRecs), Flight(t, e, os, es),
         Agrees(t, e, os, es), e.phase # "idle", Phased(f), EndsAt(t, evs) = {},
         Speaks(t.op, evs), Hands(e, f, evs)
  PROVE  Agrees(t, f, os, es \o evs)
<1>1. Under(t, es)
  BY DEF Flight, Stages, Under
<1>2. Told(t, es \o evs)
  BY ToldOn DEF Agrees
<1> DEFINE m == e.mailbox
           s == Sending(os)
<1>3. m \in Seq(Carried) /\ s \in Seq(Carried) /\ m \o s \in Seq(Carried)
  BY MailCarried
<1> HIDE DEF m, s
<1>4. \E rest \in Seq(Carried) : Confirmed(evs) \o rest = m \o s /\ rest = f.mailbox \o s
  <2>1. CASE Confirmed(evs) = <<>> /\ f.mailbox = m
    <3>1. <<>> \o (m \o s) = m \o s
      BY <1>3, ConcatEmptySeq
    <3>2. QED
      BY <1>3, <2>1, <3>1
  <2>2. CASE Confirmed(evs) = m /\ f.mailbox = <<>>
    <3>1. <<>> \o s = s
      BY <1>3, ConcatEmptySeq
    <3>2. QED
      BY <1>3, <2>2, <3>1
  <2>3. QED
    BY <2>1, <2>2 DEF Hands, m
<1>5. Passes(t, e, f, os, os, es, evs)
  BY <1>1, <1>4 DEF Passes, m, s
<1>6. QED
  BY <1>2, <1>5, AgreesOn

\* A running operation ends.
LEMMA AgreesEnds ==
  ASSUME NEW t \in UIs, NEW e \in Engines, NEW f \in Engines, NEW os \in Seq(Submissions),
         NEW es \in Seq(EventRecs), NEW evs \in Seq(EventRecs), NEW x \in EventRecs,
         Flight(t, e, os, es), Agrees(t, e, os, es), e.phase # "idle", Phased(f),
         EndsAt(t, evs) = {}, Speaks(t.op, evs), Confirmed(evs) \in {<<>>, e.mailbox},
         x.ev = "OpEnded", x.id = e.id,
         t.op \in Switches =>
           x.end \in {"Failed", "Cancelled"} \/ \E k \in DOMAIN evs : evs[k].ev \in Hops
  PROVE  Agrees(t, f, os, es \o (evs \o <<x>>))
<1> DEFINE o == <<x>>
           ws == evs \o o
           d == es \o ws
<1>1. o \in Seq(EventRecs) /\ DOMAIN o = {1} /\ o[1] = x
  OBVIOUS
<1>2. Confirmed(o) = <<>>
  BY ConfirmedOne
<1> HIDE DEF o
<1>3. ws \in Seq(EventRecs) /\ Joined(evs, o, ws, Len(evs))
  BY <1>1, ConcatFacts
<1>4. Confirmed(ws) = Confirmed(evs)
  <2>1. Confirmed(ws) = Confirmed(evs) \o Confirmed(o) /\ Confirmed(evs) \in Seq(Carried)
    BY <1>1, ConfirmedConcat, SequenceTypes, EmptySeq
  <2>2. QED
    BY <1>2, <2>1, ConcatEmptySeq
<1> HIDE DEF ws
<1>5. d \in Seq(EventRecs) /\ Joined(es, ws, d, Len(es))
  BY <1>3, ConcatFacts
<1> HIDE DEF d
<1>6. Under(t, es) /\ EndsAt(t, es) = {} /\ x.id = t.id
  BY DEF Flight, Stages, Under
<1>7. \A i \in DOMAIN ws : ws[i].ev = "OpEnded" /\ ws[i].id = t.id => ws[i] = x
  <2> SUFFICES ASSUME NEW i \in DOMAIN ws, ws[i].ev = "OpEnded", ws[i].id = t.id
               PROVE  ws[i] = x
    OBVIOUS
  <2>1. i \notin DOMAIN evs
    <3> SUFFICES ASSUME i \in DOMAIN evs PROVE FALSE
      OBVIOUS
    <3>1. ws[i] = evs[i]
      BY <1>3 DEF Joined
    <3>2. QED
      BY <3>1 DEF EndsAt
  <2>2. i - Len(evs) \in DOMAIN o /\ ws[i] = o[i - Len(evs)]
    BY <1>3, <2>1 DEF Joined
  <2>3. QED
    BY <1>1, <2>2
<1>8. \E i \in DOMAIN ws : ws[i] = x
  <2>1. Len(evs) + 1 \in DOMAIN ws /\ ws[Len(evs) + 1] = o[1]
    BY <1>1, <1>3 DEF Joined
  <2>2. QED
    BY <1>1, <2>1
<1>9. \A i \in EndsAt(t, d) : d[i] = x
  <2> SUFFICES ASSUME NEW i \in EndsAt(t, d) PROVE d[i] = x
    OBVIOUS
  <2>1. i \in DOMAIN d /\ d[i].ev = "OpEnded" /\ d[i].id = t.id
    BY DEF EndsAt
  <2>2. i \notin DOMAIN es
    <3> SUFFICES ASSUME i \in DOMAIN es PROVE FALSE
      OBVIOUS
    <3>1. d[i] = es[i]
      BY <1>5 DEF Joined
    <3>2. QED
      BY <1>6, <2>1, <3>1 DEF EndsAt
  <2>3. i - Len(es) \in DOMAIN ws /\ d[i] = ws[i - Len(es)]
    BY <1>5, <2>1, <2>2 DEF Joined
  <2>4. QED
    BY <1>7, <2>1, <2>3
<1>10. ~Under(t, d)
  <2>1. PICK i \in DOMAIN ws : ws[i] = x
    BY <1>8
  <2>2. Len(es) + i \in DOMAIN d /\ d[Len(es) + i] = x
    BY <1>5, <2>1 DEF Joined
  <2>3. Len(es) + i \in EndsAt(t, d)
    BY <1>6, <2>2 DEF EndsAt
  <2>4. QED
    BY <2>3 DEF Under
<1>11. Told(t, d)
  <2> SUFFICES ASSUME t.op \in Switches, x.end \notin {"Failed", "Cancelled"}
               PROVE  \E j \in DOMAIN d : d[j].ev \in Hops
    BY <1>9 DEF Told
  <2>1. PICK k \in DOMAIN evs : evs[k].ev \in Hops
    OBVIOUS
  <2>2. k \in DOMAIN ws /\ ws[k] = evs[k]
    BY <1>3, <2>1 DEF Joined
  <2>3. Len(es) + k \in DOMAIN d /\ d[Len(es) + k] = ws[k]
    BY <1>5, <2>2 DEF Joined
  <2>4. QED
    BY <2>1, <2>2, <2>3
<1>12. Speaks(t.op, ws)
  <2> SUFFICES ASSUME NEW i \in DOMAIN ws
               PROVE  /\ ws[i].ev \in TurnWords => t.op = "Prompt"
                      /\ ws[i].ev \in Hops => t.op \in Switches
                      /\ ws[i].ev = "SessionCompacted" => t.op \in {"Prompt", "Compact"}
    BY DEF Speaks
  <2>1. CASE i \in DOMAIN evs
    <3>1. ws[i] = evs[i]
      BY <1>3, <2>1 DEF Joined
    <3>2. QED
      BY <2>1, <3>1 DEF Speaks
  <2>2. CASE i \notin DOMAIN evs
    <3>1. i - Len(evs) \in DOMAIN o /\ ws[i] = o[i - Len(evs)]
      BY <1>3, <2>2 DEF Joined
    <3>2. ws[i].ev = "OpEnded"
      BY <1>1, <3>1
    <3>3. QED
      BY <3>2 DEF TurnWords, Hops
  <2>3. QED
    BY <2>1, <2>2
<1>13. Passes(t, e, f, os, os, es, ws)
  <2> DEFINE m == e.mailbox
             s == Sending(os)
  <2>1. m \in Seq(Carried) /\ s \in Seq(Carried) /\ m \o s \in Seq(Carried)
    BY MailCarried
  <2> HIDE DEF m, s
  <2>2. \E rest \in Seq(Carried) : Confirmed(ws) \o rest = m \o s
    <3>1. CASE Confirmed(ws) = <<>>
      <4>1. <<>> \o (m \o s) = m \o s
        BY <2>1, ConcatEmptySeq
      <4>2. QED
        BY <2>1, <3>1, <4>1
    <3>2. CASE Confirmed(ws) = m
      BY <2>1, <3>2
    <3>3. QED
      BY <1>4, <3>1, <3>2 DEF m
  <2>3. QED
    BY <1>6, <1>10, <2>2 DEF Passes, m, s, d
<1>14. Agrees(t, f, os, es \o ws)
  BY <1>3, <1>11, <1>12, <1>13, AgreesOn DEF d
<1>15. QED
  BY <1>14 DEF ws, o

\* The operation takes what the channel holds.
LEMMA AgreesTakes ==
  ASSUME NEW t \in UIs, NEW e \in Engines, NEW f \in Engines, NEW os \in Seq(Submissions),
         NEW es \in Seq(EventRecs), NEW evs \in Seq(EventRecs), os # <<>>,
         Flight(t, e, os, es), Agrees(t, e, os, es), Phased(f),
         \A i \in DOMAIN evs : ~Own(evs[i]), EndsAt(t, evs) = {},
         f.mailbox = IF e.phase # "idle" /\ Head(os).op = "Queue"
                     THEN Append(e.mailbox, Head(os).prompt) ELSE e.mailbox
  PROVE  Agrees(t, f, Tail(os), es \o evs)
<1>1. Tail(os) \in Seq(Submissions) /\ Head(os) \in Submissions /\ Head(os) = os[1]
  BY TailFacts
<1>2. Confirms(evs) = {}
  BY DEF Confirms, Own
<1>3. Confirmed(evs) = <<>>
  BY <1>2, ConfirmedNone
<1>4. Speaks(t.op, evs)
  BY DEF Speaks, Own, TurnWords, Hops
<1>5. Told(t, es \o evs) /\ EndsAt(t, es \o evs) \subseteq EndsAt(t, es)
  BY ToldOn DEF Agrees
<1> DEFINE m == e.mailbox
           s == Sending(os)
           p == Head(os).prompt
           r == Sending(Tail(os))
           b == IF Head(os).op = "Queue" /\ Asks(os) = {} THEN <<p>> ELSE <<>>
<1>6. s = b \o r
  <2>1. \A i, j \in Asks(os) : i = j
    BY DEF Flight, Stages
  <2>2. QED
    BY <2>1, SendingTail
<1>7. /\ m \in Seq(Carried) /\ s \in Seq(Carried) /\ m \o s \in Seq(Carried)
      /\ r \in Seq(Carried) /\ p \in Carried
  <2>1. p \in Carried
    BY <1>1 DEF Submissions, Carried
  <2>2. QED
    BY <1>1, <2>1, MailCarried
<1>8. Under(t, es) => f.mailbox \o r = m \o s
  <2> SUFFICES ASSUME Under(t, es) PROVE f.mailbox \o r = m \o s
    OBVIOUS
  <2>1. e.phase # "idle" \/ Asks(os) # {}
    BY DEF Under, Flight, Stages
  <2>2. e.phase # "idle" => Asks(os) = {}
    BY DEF Flight, Stages
  <2>3. CASE e.phase # "idle" /\ Head(os).op = "Queue"
    <3>1. f.mailbox = Append(m, p) /\ b = <<p>>
      BY <2>2, <2>3
    <3> HIDE DEF m, s, r, p, b
    <3>2. Append(m, p) = m \o <<p>> /\ <<p>> \in Seq(Carried)
      BY <1>7
    <3>3. (m \o <<p>>) \o r = m \o (<<p>> \o r)
      BY <1>7, <3>2, CarriedAssociative
    <3>4. QED
      BY <1>6, <3>1, <3>2, <3>3
  <2>4. CASE ~(e.phase # "idle" /\ Head(os).op = "Queue")
    <3>1. f.mailbox = m /\ b = <<>>
      BY <2>1, <2>4
    <3> HIDE DEF m, s, r, p, b
    <3>2. <<>> \o r = r
      BY <1>7, ConcatEmptySeq
    <3>3. QED
      BY <1>6, <3>1, <3>2
  <2>5. QED
    BY <2>3, <2>4
<1>9. Passes(t, e, f, os, Tail(os), es, evs)
  <2>1. <<>> \o (m \o s) = m \o s
    BY <1>7, ConcatEmptySeq
  <2>2. ASSUME Under(t, es)
        PROVE  \E rest \in Seq(Carried) : Confirmed(evs) \o rest = m \o s /\ rest = f.mailbox \o r
    <3>1. f.mailbox \o r = m \o s /\ Confirmed(evs) \o (m \o s) = m \o s
      BY <1>3, <1>8, <2>1, <2>2
    <3>2. QED
      BY <1>7, <3>1
  <2>3. QED
    BY <1>3, <2>2 DEF Passes
<1>10. QED
  BY <1>1, <1>4, <1>5, <1>9, AgreesOn

----------------------------------------------------------------------------
(* The engine keeps the agreement: what it says *)

LEMMA EndsNone ==
  ASSUME NEW t, NEW evs, \A k \in DOMAIN evs : evs[k].ev # "OpEnded"
  PROVE  EndsAt(t, evs) = {}
BY DEF EndsAt

LEMMA SaysNothing ==
  /\ <<>> \in Seq(EventRecs) /\ Confirmed(<<>>) = <<>> /\ Plain(<<>>)
  /\ \A op : Speaks(op, <<>>)
<1>1. DOMAIN <<>> = {}
  OBVIOUS
<1>2. \A op : Speaks(op, <<>>)
  BY <1>1 DEF Speaks
<1>3. QED
  BY <1>2, PlainEmpty, PromptsEmpty DEF Confirmed

\* One word of a turn, or of a compaction.
LEMMA SaysWord ==
  ASSUME NEW ev \in PlainKinds \ (Hops \cup {"PromptDrained"})
  PROVE  /\ <<Event(ev)>> \in Seq(EventRecs) /\ Confirmed(<<Event(ev)>>) = <<>>
         /\ Plain(<<Event(ev)>>) /\ Speaks("Prompt", <<Event(ev)>>)
         /\ ev = "SessionCompacted" => Speaks("Compact", <<Event(ev)>>)
<1> DEFINE x == Event(ev)
<1>1. x \in EventRecs /\ x.ev = ev
  BY EventTypes DEF PlainKinds
<1>2. <<x>> \in Seq(EventRecs) /\ Plain(<<x>>)
  BY PlainOne
<1>3. Confirmed(<<x>>) = <<>>
  BY <1>1, ConfirmedOne
<1> HIDE DEF x
<1>4. DOMAIN <<x>> = {1} /\ <<x>>[1] = x
  OBVIOUS
<1>5. Speaks("Prompt", <<x>>)
  BY <1>1, <1>4 DEF Speaks
<1>6. ev = "SessionCompacted" => Speaks("Compact", <<x>>)
  BY <1>1, <1>4 DEF Speaks, TurnWords, Hops
<1>7. QED
  BY <1>2, <1>3, <1>5, <1>6 DEF x

LEMMA SpeaksJoined ==
  ASSUME NEW a \in Seq(EventRecs), NEW b \in Seq(EventRecs), NEW op, Speaks(op, a), Speaks(op, b)
  PROVE  Speaks(op, a \o b)
<1> DEFINE d == a \o b
<1>1. Joined(a, b, d, Len(a))
  BY ConcatFacts
<1> HIDE DEF d
<1>2. SUFFICES ASSUME NEW i \in DOMAIN d
               PROVE  /\ d[i].ev \in TurnWords => op = "Prompt"
                      /\ d[i].ev \in Hops => op \in Switches
                      /\ d[i].ev = "SessionCompacted" => op \in {"Prompt", "Compact"}
  BY DEF Speaks, d
<1>3. CASE i \in DOMAIN a
  <2>1. d[i] = a[i]
    BY <1>1, <1>3 DEF Joined
  <2>2. QED
    BY <1>3, <2>1 DEF Speaks
<1>4. CASE i \notin DOMAIN a
  <2>1. i - Len(a) \in DOMAIN b /\ d[i] = b[i - Len(a)]
    BY <1>1, <1>2, <1>4 DEF Joined
  <2>2. QED
    BY <2>1 DEF Speaks
<1>5. QED
  BY <1>3, <1>4

\* The mailbox's confirmations, after what else is said.
LEMMA SaysDrained ==
  ASSUME NEW e \in Engines, NEW evs \in Seq(EventRecs), Plain(evs), Speaks("Prompt", evs),
         Confirmed(evs) = <<>>
  PROVE  /\ evs \o Drained(e.mailbox) \in Seq(EventRecs) /\ Plain(evs \o Drained(e.mailbox))
         /\ Speaks("Prompt", evs \o Drained(e.mailbox))
         /\ Confirmed(evs \o Drained(e.mailbox)) = e.mailbox
<1> DEFINE m == e.mailbox
           d == Drained(m)
<1>1. m \in Seq(Prompt) /\ d \in Seq(EventRecs) /\ Plain(d) /\ Confirmed(d) = m
  BY EngineFields, PlainDrained, ConfirmedDrained
<1>2. \A i \in DOMAIN d : d[i].ev = "PromptDrained"
  <2> DEFINE n == Len(m)
             f == [i \in 1..n |-> [Event("PromptDrained") EXCEPT !.prompt = m[i]]]
  <2>1. \A x : [Event("PromptDrained") EXCEPT !.prompt = x].ev = "PromptDrained"
    BY DEF Event
  <2>2. d = f
    BY DEF Drained
  <2> HIDE DEF d, n, m
  <2>3. QED
    BY <2>1, <2>2
<1> HIDE DEF d
<1>3. Speaks("Prompt", d)
  BY <1>2 DEF Speaks, Hops
<1>4. Confirmed(evs \o d) = <<>> \o m
  BY <1>1, ConfirmedConcat
<1>5. <<>> \o m = m
  BY <1>1, ConcatEmptySeq
<1>6. evs \o d \in Seq(EventRecs) /\ Plain(evs \o d) /\ Speaks("Prompt", evs \o d)
  BY <1>1, <1>3, PlainJoined, SpeaksJoined
<1>7. QED
  BY <1>4, <1>5, <1>6 DEF d, m

----------------------------------------------------------------------------
(* The engine keeps the agreement: its steps *)

\* The operation that runs is the UI's, and is known by its phase.
LEMMA RunsOwn ==
  ASSUME NEW e, NEW os, Ready(e, os), Phased(e)
  PROVE  /\ tui.op = e.op /\ e.op # "none"
         /\ e.phase \in TurnPhases => tui.op = "Prompt"
         /\ e.phase = "compact" => tui.op = "Compact"
         /\ e.phase \in Racing => tui.op \notin Switches
<1>1. tui.op = e.op /\ e.op # "none"
  BY DEF Ready, Flight, Stages, Busy
<1>2. e.phase \in Racing =>
        e.phase \in TurnPhases \/ e.phase = "compact" \/ e.phase \in {"login", "finishLogin"}
  BY DEF Racing, TurnPhases
<1>3. QED
  BY <1>1, <1>2 DEF Phased, Switches

\* What takes the place of the engine at the same operation is at a phase of it.
LEMMA PhasedOn ==
  ASSUME NEW e, NEW f, Phased(e), f.op = e.op,
         \/ f.phase = e.phase
         \/ e.phase \in TurnPhases /\ f.phase \in TurnPhases
         \/ e.phase = "login" /\ f.phase = "finishLogin",
         f.phase \notin {"idle", "local"}
  PROVE  Phased(f)
BY DEF Phased, TurnPhases

LEMMA SayAgrees ==
  ASSUME FInv, tui' = tui, NEW e, Ready(e, ops'), Agrees(tui, e, ops', events),
         NEW evs \in Seq(EventRecs), Plain(evs), Speaks(tui.op, evs), Emit(evs),
         engine' \in Engines, Phased(engine'), Hands(e, engine', evs)
  PROVE  AInv'
<1>1. events' = events \o evs
  BY DEF Emit
<1>2. e \in Engines /\ e.phase # "idle" /\ ops' \in Seq(Submissions) /\ Flight(tui, e, ops', events)
  BY DEF Ready
<1>3. EndsAt(tui, evs) = {}
  BY EndsNone DEF Plain
<1>4. Agrees(tui, engine', ops', events \o evs)
  BY <1>2, <1>3, Closed, AgreesSays
<1>5. QED
  BY <1>1, <1>4 DEF AInv

LEMMA SilentAgrees ==
  ASSUME FInv, tui' = tui, NEW e, Ready(e, ops'), Agrees(tui, e, ops', events), events' = events,
         engine' \in Engines, Phased(engine'), engine'.mailbox = e.mailbox
  PROVE  AInv'
<1>1. Emit(<<>>)
  BY Closed, ConcatEmptySeq DEF Emit
<1>2. Hands(e, engine', <<>>)
  BY SaysNothing DEF Hands
<1>3. QED
  BY <1>1, <1>2, SaysNothing, SayAgrees

LEMMA EndAgrees ==
  ASSUME FInv, tui' = tui, Ready(engine, ops'), Agrees(tui, engine, ops', events),
         engine.phase \in Racing, NEW end \in Ends, NEW evs \in Seq(EventRecs), Plain(evs),
         Speaks(tui.op, evs), Confirmed(evs) \in {<<>>, engine.mailbox}, End(end, evs)
  PROVE  AInv'
<1> DEFINE x == OpEnded(engine.id, end)
           a == ModeApplied(engine)
           f == [a EXCEPT !.phase = "idle", !.id = 0, !.op = "none",
                          !.prompt = NoPrompt, !.mailbox = <<>>, !.round = 0, !.mark = 0]
<1>1. engine' = f /\ events' = events \o (evs \o <<x>>)
  BY DEF End, Emit
<1>2. /\ engine \in Engines /\ engine.phase # "idle" /\ ops' \in Seq(Submissions)
      /\ Flight(tui, engine, ops', events)
  BY DEF Ready
<1>3. a \in Engines
  BY <1>2, AppliedTypes
<1> HIDE DEF a
<1>4. f \in Engines /\ f.phase = "idle" /\ f.mailbox = <<>>
  <2>1. <<>> \in Seq(Prompt) /\ "idle" \in Phases
    BY QueueConstants DEF Phases
  <2>2. f \in Engines
    BY <1>3, <2>1 DEF Engines
  <2>3. QED
    BY <1>3, <2>2 DEF Engines
<1> HIDE DEF f
<1>5. Phased(f)
  BY <1>4 DEF Phased, TurnPhases
<1>6. x \in EventRecs /\ x.ev = "OpEnded" /\ x.id = engine.id
  BY <1>2, EngineFields, EventTypes
<1> HIDE DEF x
<1>7. EndsAt(tui, evs) = {}
  BY EndsNone DEF Plain
<1>8. tui.op \notin Switches
  BY RunsOwn DEF Agrees
<1>9. Agrees(tui, f, ops', events \o (evs \o <<x>>))
  BY <1>2, <1>4, <1>5, <1>6, <1>7, <1>8, Closed, AgreesEnds
<1>10. QED
  BY <1>1, <1>9 DEF AInv

\* The channel's head is taken.
LEMMA TakenAgrees ==
  ASSUME FInv, AInv, NEW kinds, Received(kinds), NEW f \in Engines, Phased(f),
         NEW evs \in Seq(EventRecs), \A i \in DOMAIN evs : ~Own(evs[i]), EndsAt(tui, evs) = {},
         f.mailbox = IF engine.phase # "idle" /\ Head(ops).op = "Queue"
                     THEN Append(engine.mailbox, Head(ops).prompt) ELSE engine.mailbox
  PROVE  Agrees(tui, f, ops', events \o evs)
<1>1. ops # <<>> /\ ops' = Tail(ops)
  BY Taken
<1>2. Agrees(tui, engine, ops, events)
  BY DEF AInv
<1>3. QED
  BY <1>1, <1>2, Closed, AgreesTakes

LEMMA TakenSilently ==
  ASSUME FInv, AInv, NEW kinds, Received(kinds), NEW f \in Engines, Phased(f),
         f.mailbox = IF engine.phase # "idle" /\ Head(ops).op = "Queue"
                     THEN Append(engine.mailbox, Head(ops).prompt) ELSE engine.mailbox
  PROVE  Agrees(tui, f, ops', events)
<1>1. \A i \in DOMAIN <<>> : ~Own(<<>>[i])
  OBVIOUS
<1>2. \A k \in DOMAIN <<>> : <<>>[k].ev # "OpEnded"
  OBVIOUS
<1>3. EndsAt(tui, <<>>) = {}
  BY <1>2, EndsNone
<1>4. Agrees(tui, f, ops', events \o <<>>)
  BY <1>1, <1>3, SaysNothing, TakenAgrees
<1>5. QED
  BY <1>4, Closed, ConcatEmptySeq

LEMMA RacedAgrees ==
  ASSUME FInv, AInv, NEW phases \in SUBSET Racing, Raced(phases)
  PROVE  /\ Ready(engine, ops') /\ tui' = tui /\ engine.phase \in phases
         /\ engine.phase \in Racing /\ engine \in Engines
         /\ Agrees(tui, engine, ops', events) /\ Phased(engine)
<1>1. Ready(engine, ops') /\ tui' = tui /\ engine.phase \in phases
  BY RacedReady
<1>2. ops' = ops
  BY DEF Raced
<1>3. Agrees(tui, engine, ops, events)
  BY DEF AInv
<1>4. QED
  BY <1>1, <1>2, <1>3, Closed DEF Agrees

----------------------------------------------------------------------------
(* The engine keeps the agreement: its actions *)

LEMMA DrainAgrees ==
  ASSUME FInv, tui' = tui, NEW e, Ready(e, ops'), Agrees(tui, e, ops', events),
         e.phase \in TurnPhases, NEW evs \in Seq(EventRecs), Plain(evs),
         Speaks("Prompt", evs), Confirmed(evs) = <<>>, Drain(e, evs)
  PROVE  AInv'
<1>1. e \in Engines /\ Phased(e) /\ e.phase # "idle"
  BY DEF Ready, Agrees
<1> DEFINE f == [e EXCEPT !.mailbox = <<>>]
           d == evs \o Drained(e.mailbox)
<1>2. Emit(d) /\ engine' = f
  BY DEF Drain
<1>3. f \in Engines
  BY <1>1, QueueConstants DEF Engines
<1>4. f.phase = e.phase /\ f.op = e.op /\ f.mailbox = <<>>
  BY <1>1 DEF Engines
<1>5. d \in Seq(EventRecs) /\ Plain(d) /\ Speaks("Prompt", d) /\ Confirmed(d) = e.mailbox
  BY <1>1, SaysDrained
<1> HIDE DEF f, d
<1>6. Phased(f) /\ tui.op = "Prompt"
  <2>1. f.phase \notin {"idle", "local"}
    BY <1>4 DEF TurnPhases
  <2>2. QED
    BY <1>1, <1>4, <2>1, PhasedOn, RunsOwn
<1>7. Hands(e, f, d)
  BY <1>4, <1>5 DEF Hands
<1>8. QED
  BY <1>2, <1>3, <1>5, <1>6, <1>7, SayAgrees

LEMMA BeginTurnAgrees ==
  ASSUME FInv, tui' = tui, NEW e, Ready(e, ops'), Agrees(tui, e, ops', events),
         e.phase \in TurnPhases, NEW evs \in Seq(EventRecs), Plain(evs),
         Speaks("Prompt", evs), Confirmed(evs) = <<>>, BeginTurn(e, evs)
  PROVE  AInv'
<1>1. e \in Engines /\ Phased(e)
  BY DEF Ready, Agrees
<1> DEFINE a == ModeApplied(e)
           f == [a EXCEPT !.phase = "request", !.mailbox = <<>>, !.mark = Len(said)]
           d == evs \o Drained(e.mailbox)
<1>2. Emit(d) /\ engine' = f
  BY DEF BeginTurn
<1>3. a \in Engines /\ a.op = e.op
  BY <1>1, AppliedTypes
<1> HIDE DEF a
<1>4. f \in Engines
  <2>1. "request" \in Phases /\ <<>> \in Seq(Prompt) /\ Len(said) \in Nat
    BY QueueConstants, EngineFacts, LenProperties DEF Phases, Racing
  <2>2. QED
    BY <1>3, <2>1 DEF Engines
<1>5. f.phase = "request" /\ f.op = e.op /\ f.mailbox = <<>>
  BY <1>3 DEF Engines
<1>6. d \in Seq(EventRecs) /\ Plain(d) /\ Speaks("Prompt", d) /\ Confirmed(d) = e.mailbox
  BY <1>1, SaysDrained
<1> HIDE DEF f, d
<1>7. Phased(f)
  <2>1. "request" \in TurnPhases
    BY DEF TurnPhases
  <2>2. QED
    BY <1>1, <1>5, <2>1, PhasedOn
<1>8. Hands(e, f, d)
  BY <1>5, <1>6 DEF Hands
<1>9. tui.op = "Prompt"
  BY <1>1, RunsOwn
<1>10. QED
  BY <1>2, <1>4, <1>6, <1>7, <1>8, <1>9, SayAgrees

\* The operation goes on to another phase.
LEMMA PhaseAgrees ==
  ASSUME FInv, tui' = tui, NEW e, Ready(e, ops'), Agrees(tui, e, ops', events),
         NEW phase \in Racing,
         \/ e.phase \in TurnPhases /\ phase \in TurnPhases
         \/ e.phase = "login" /\ phase = "finishLogin",
         engine' = [e EXCEPT !.phase = phase], NEW evs \in Seq(EventRecs), Plain(evs),
         Speaks(tui.op, evs), Confirmed(evs) = <<>>, Emit(evs)
  PROVE  AInv'
<1>1. e \in Engines /\ Phased(e)
  BY DEF Ready, Agrees
<1> DEFINE f == [e EXCEPT !.phase = phase]
<1>2. phase \in Phases /\ phase \notin {"idle", "local"}
  BY DEF Phases, Racing
<1>3. f \in Engines
  BY <1>1, <1>2 DEF Engines
<1>4. f.phase = phase /\ f.op = e.op /\ f.mailbox = e.mailbox
  BY <1>1 DEF Engines
<1>5. engine' = f
  OBVIOUS
<1> HIDE DEF f
<1>6. Phased(f)
  BY <1>1, <1>2, <1>4, PhasedOn
<1>7. Hands(e, f, evs)
  BY <1>4 DEF Hands
<1>8. QED
  BY <1>3, <1>5, <1>6, <1>7, SayAgrees

LEMMA SignedInAgrees ==
  ASSUME FInv, tui' = tui, NEW e, Ready(e, ops'), Agrees(tui, e, ops', events),
         e.phase \in TurnPhases, SignedIn(e)
  PROVE  AInv'
<1>1. CASE BeginTurn(e, <<>>)
  BY <1>1, SaysNothing, BeginTurnAgrees
<1>2. CASE /\ engine' = [e EXCEPT !.phase = "autoCompact"]
           /\ Emit(<<Event("AutoCompactionStarted")>>)
  <2> DEFINE evs == <<Event("AutoCompactionStarted")>>
  <2>1. "AutoCompactionStarted" \in PlainKinds \ (Hops \cup {"PromptDrained"})
        /\ "autoCompact" \in Racing /\ "autoCompact" \in TurnPhases
    BY DEF PlainKinds, EventKinds, Hops, Racing, TurnPhases
  <2>2. evs \in Seq(EventRecs) /\ Confirmed(evs) = <<>> /\ Plain(evs) /\ Speaks("Prompt", evs)
    BY <2>1, SaysWord
  <2>3. tui.op = "Prompt"
    BY RunsOwn DEF Agrees
  <2>4. engine' = [e EXCEPT !.phase = "autoCompact"] /\ Emit(evs)
    BY <1>2
  <2> HIDE DEF evs
  <2>5. QED
    BY <2>1, <2>2, <2>3, <2>4, PhaseAgrees
<1>3. QED
  BY <1>1, <1>2 DEF SignedIn

\* An op that starts nothing is answered.
LEMMA ServeStaleAgrees == ASSUME FInv, AInv, ServeStale PROVE AInv'
<1> DEFINE kinds == {"Queue", "Interrupt", "LoginCode"}
           x == OpEnded(Head(ops).id, "Completed")
<1>1. Idle /\ Received(kinds) /\ events' = events \o <<x>> /\ engine' = engine
  BY DEF ServeStale, Emit
<1>2. kinds \cap IdleOnly = {}
  BY DEF IdleOnly, LocalOps, Switches
<1> HIDE DEF kinds
<1>3. tui' = tui /\ engine.phase = "idle"
  BY <1>1, Taken DEF Idle
<1>4. Head(ops).id # tui.id /\ Head(ops).id \in Nat
  BY <1>1, <1>2, TakenNumber
<1>5. x \in EventRecs /\ x.ev = "OpEnded" /\ x.id = Head(ops).id
  BY <1>4, EventTypes DEF Ends
<1> HIDE DEF x
<1>6. <<x>> \in Seq(EventRecs) /\ DOMAIN <<x>> = {1} /\ <<x>>[1] = x
  BY <1>5
<1>7. EndsAt(tui, <<x>>) = {}
  BY <1>4, <1>5, <1>6 DEF EndsAt
<1>8. \A i \in DOMAIN <<x>> : ~Own(<<x>>[i])
  BY <1>5, <1>6 DEF Own
<1>9. engine \in Engines /\ Phased(engine)
  BY Closed DEF AInv, Agrees
<1>10. Agrees(tui, engine, ops', events \o <<x>>)
  BY <1>1, <1>3, <1>6, <1>7, <1>8, <1>9, TakenAgrees
<1>11. QED
  BY <1>1, <1>3, <1>10 DEF AInv

LEMMA ServeModeAgrees == ASSUME FInv, AInv, ServeMode PROVE AInv'
<1> DEFINE m == Head(ops).mode
           x == ModeChanged(m)
           y == OpEnded(Head(ops).id, "Completed")
           f == [engine EXCEPT !.policy = m]
<1>1. Idle /\ Received({"SetMode"}) /\ events' = events \o <<x, y>> /\ engine' = f
  BY DEF ServeMode, Emit
<1>2. {"SetMode"} \cap IdleOnly = {}
  BY DEF IdleOnly, LocalOps, Switches
<1>3. tui' = tui /\ Head(ops) \in Submissions /\ Head(ops).op = "SetMode" /\ engine.phase = "idle"
  BY <1>1, Taken DEF Idle
<1>4. Head(ops).id # tui.id /\ Head(ops).id \in Nat
  BY <1>1, <1>2, TakenNumber
<1>5. m \in Mode
  BY <1>3 DEF Submissions
<1>6. /\ x \in EventRecs /\ x.ev = "ModeChanged"
      /\ y \in EventRecs /\ y.ev = "OpEnded" /\ y.id = Head(ops).id
  BY <1>4, <1>5, EventTypes DEF Ends
<1>7. f \in Engines
  BY <1>5, Closed DEF Engines
<1>8. f.phase = engine.phase /\ f.op = engine.op /\ f.mailbox = engine.mailbox
  BY Closed DEF Engines
<1> HIDE DEF x, y, f, m
<1>9. /\ <<x, y>> \in Seq(EventRecs) /\ DOMAIN <<x, y>> = {1, 2} /\ <<x, y>>[1] = x
      /\ <<x, y>>[2] = y
  BY <1>6
<1>10. EndsAt(tui, <<x, y>>) = {}
  BY <1>4, <1>6, <1>9 DEF EndsAt
<1>11. \A i \in DOMAIN <<x, y>> : ~Own(<<x, y>>[i])
  BY <1>6, <1>9 DEF Own
<1>12. Phased(f)
  BY <1>8 DEF AInv, Agrees, Phased
<1>13. Agrees(tui, f, ops', events \o <<x, y>>)
  BY <1>1, <1>3, <1>7, <1>8, <1>9, <1>10, <1>11, <1>12, TakenAgrees
<1>14. QED
  BY <1>1, <1>3, <1>13 DEF AInv

\* An idle engine starts an operation.
LEMMA ServingAgrees ==
  ASSUME FInv, AInv, NEW kinds, Received(kinds), kinds \subseteq IdleOnly, Idle,
         NEW phase \in Phases \ {"idle"},
         phase \in TurnPhases => Head(ops).op = "Prompt",
         phase = "compact" => Head(ops).op = "Compact",
         phase \in {"login", "finishLogin"} => Head(ops).op = "Login",
         phase = "local" => Head(ops).op \in LocalOps
  PROVE  Agrees(tui, Serving(phase), ops', events)
<1> DEFINE f == [engine EXCEPT !.phase = phase, !.id = Head(ops).id, !.op = Head(ops).op,
                               !.prompt = Head(ops).prompt]
<1>1. Serving(phase) = f
  BY DEF Serving
<1>2. Head(ops).op \in IdleOnly /\ Head(ops).id \in Nat /\ Head(ops).prompt \in Prompt \cup {NoPrompt}
  BY Taken DEF Submissions
<1>3. f \in Engines
  BY <1>2, Closed DEF Engines
<1>4. f.phase = phase /\ f.op = Head(ops).op /\ f.mailbox = engine.mailbox
  BY Closed DEF Engines
<1> HIDE DEF f
<1>5. engine.phase = "idle"
  BY DEF Idle
<1>6. Phased(f)
  <2>1. engine.mailbox = <<>>
    BY <1>5 DEF AInv, Agrees, Phased
  <2>2. QED
    BY <1>4, <2>1 DEF Phased
<1>7. Agrees(tui, f, ops', events)
  BY <1>3, <1>4, <1>5, <1>6, TakenSilently
<1>8. QED
  BY <1>1, <1>7

LEMMA ServeLocalAgrees == ASSUME FInv, AInv, ServeLocal PROVE AInv'
<1>1. Idle /\ Received(LocalOps) /\ engine' = Serving("local") /\ events' = events
  BY DEF ServeLocal
<1>2. LocalOps \subseteq IdleOnly /\ "local" \in Phases \ {"idle"} /\ "local" \notin TurnPhases
  BY DEF IdleOnly, Phases, TurnPhases
<1>3. Head(ops).op \in LocalOps /\ tui' = tui
  BY <1>1, Taken
<1>4. Agrees(tui, Serving("local"), ops', events)
  BY <1>1, <1>2, <1>3, ServingAgrees
<1>5. QED
  BY <1>1, <1>3, <1>4 DEF AInv

LEMMA ServeRacingAgrees == ASSUME FInv, AInv, ServeRacing PROVE AInv'
<1> DEFINE phase == IF Head(ops).op = "Login" THEN "login" ELSE "compact"
<1>1. Idle /\ Received({"Compact", "Login"}) /\ engine' = Serving(phase) /\ events' = events
  BY DEF ServeRacing
<1>2. Head(ops).op \in {"Compact", "Login"} /\ tui' = tui
  BY <1>1, Taken
<1>3. {"Compact", "Login"} \subseteq IdleOnly /\ phase \in Phases \ {"idle"}
      /\ phase \notin TurnPhases /\ phase # "local"
  BY DEF IdleOnly, Phases, Racing, TurnPhases
<1>4. /\ phase = "compact" => Head(ops).op = "Compact"
      /\ phase \in {"login", "finishLogin"} => Head(ops).op = "Login"
  BY <1>2
<1> HIDE DEF phase
<1>5. Agrees(tui, Serving(phase), ops', events)
  BY <1>1, <1>3, <1>4, ServingAgrees
<1>6. QED
  BY <1>1, <1>2, <1>5 DEF AInv

LEMMA ServePromptAgrees == ASSUME FInv, AInv, ServePrompt PROVE AInv'
<1>1. Idle /\ Received({"Prompt"}) /\ {"Prompt"} \subseteq IdleOnly
      /\ "signIn" \in Phases \ {"idle"} /\ "signIn" \in TurnPhases
  BY DEF ServePrompt, IdleOnly, Racing, Phases, TurnPhases
<1>2. Head(ops).op = "Prompt" /\ tui' = tui
  BY <1>1, Taken
<1>3. Agrees(tui, Serving("signIn"), ops', events)
  <2>1. "signIn" \notin {"compact", "login", "finishLogin", "local"}
    OBVIOUS
  <2>2. QED
    BY <1>1, <1>2, <2>1, ServingAgrees
<1>4. Ready(Serving("signIn"), ops')
  BY <1>1, ReadyServed
<1>5. Serving("signIn").phase = "signIn"
  BY Closed DEF Serving, Engines
<1>6. CASE SignedIn(Serving("signIn"))
  BY <1>1, <1>2, <1>3, <1>4, <1>5, <1>6, SignedInAgrees
<1>7. CASE engine' = Serving("signIn") /\ UNCHANGED <<events, said>>
  BY <1>2, <1>3, <1>7 DEF AInv
<1>8. QED
  BY <1>6, <1>7 DEF ServePrompt

LEMMA ServeAgrees == ASSUME FInv, AInv, Serve PROVE AInv'
BY ServeStaleAgrees, ServeModeAgrees, ServeLocalAgrees, ServeRacingAgrees, ServePromptAgrees
   DEF Serve

LEMMA AbsorbQueueAgrees == ASSUME FInv, AInv, AbsorbQueue PROVE AInv'
<1> DEFINE b == Append(engine.mailbox, Head(ops).prompt)
           f == [engine EXCEPT !.mailbox = b]
<1>1. engine.phase \in Racing /\ Received({"Queue"}) /\ engine' = f /\ events' = events
  BY DEF AbsorbQueue
<1>2. Head(ops).op = "Queue" /\ Head(ops) \in Submissions /\ tui' = tui
  BY <1>1, Taken
<1>3. Head(ops).prompt \in Prompt
  BY <1>2 DEF Submissions
<1>4. b \in Seq(Prompt)
  BY <1>3, Closed, EngineFields, AppendProperties
<1>5. f \in Engines
  BY <1>4, Closed DEF Engines
<1>6. f.phase = engine.phase /\ f.op = engine.op /\ f.mailbox = b
  BY Closed DEF Engines
<1>7. engine.phase \notin {"idle", "local"}
  BY <1>1 DEF Racing
<1> HIDE DEF f
<1>8. Phased(f)
  BY <1>6, <1>7, PhasedOn DEF AInv, Agrees
<1>9. Agrees(tui, f, ops', events)
  BY <1>1, <1>2, <1>5, <1>6, <1>7, <1>8, TakenSilently
<1>10. QED
  BY <1>1, <1>2, <1>9 DEF AInv

LEMMA AbsorbModeAgrees == ASSUME FInv, AInv, AbsorbMode PROVE AInv'
<1> DEFINE m == Head(ops).mode
           x == ModeChanged(m)
           f == [engine EXCEPT !.mode = m]
<1>1. /\ engine.phase \in Racing /\ Received({"SetMode"}) /\ engine' = f
      /\ events' = events \o <<x>>
  BY DEF AbsorbMode, Emit
<1>2. Head(ops).op = "SetMode" /\ Head(ops) \in Submissions /\ tui' = tui
  BY <1>1, Taken
<1>3. m \in Mode
  BY <1>2 DEF Submissions
<1>4. x \in EventRecs /\ x.ev = "ModeChanged"
  BY <1>3, EventTypes
<1>5. f \in Engines
  BY <1>3, Closed DEF Engines
<1>6. f.phase = engine.phase /\ f.op = engine.op /\ f.mailbox = engine.mailbox
  BY Closed DEF Engines
<1>7. engine.phase \notin {"idle", "local"}
  BY <1>1 DEF Racing
<1> HIDE DEF x, f, m
<1>8. <<x>> \in Seq(EventRecs) /\ DOMAIN <<x>> = {1} /\ <<x>>[1] = x
  BY <1>4
<1>9. EndsAt(tui, <<x>>) = {} /\ \A i \in DOMAIN <<x>> : ~Own(<<x>>[i])
  BY <1>4, <1>8 DEF EndsAt, Own
<1>10. Phased(f)
  BY <1>6, <1>7, PhasedOn DEF AInv, Agrees
<1>11. Agrees(tui, f, ops', events \o <<x>>)
  BY <1>1, <1>2, <1>5, <1>6, <1>8, <1>9, <1>10, TakenAgrees
<1>12. QED
  BY <1>1, <1>2, <1>11 DEF AInv

\* What takes the head of the channel and leaves the engine as it was.
LEMMA AbsorbedAgrees ==
  ASSUME FInv, AInv, NEW kinds, Received(kinds), kinds \cap {"Queue", "SetMode"} = {},
         engine.phase \in Racing
  PROVE  /\ Ready(engine, ops') /\ tui' = tui /\ Agrees(tui, engine, ops', events)
         /\ engine \in Engines /\ Phased(engine)
<1>1. engine.phase # "idle" /\ Head(ops).op # "Queue" /\ "SetMode" \notin kinds
  BY Taken DEF Racing
<1>2. engine \in Engines /\ Phased(engine)
  BY Closed DEF AInv, Agrees
<1>3. Agrees(tui, engine, ops', events)
  BY <1>1, <1>2, TakenSilently
<1>4. QED
  BY <1>1, <1>2, <1>3, ReadyAbsorbs, Taken

LEMMA UnsentAgrees ==
  ASSUME FInv, tui' = tui, Ready(engine, ops'), Agrees(tui, engine, ops', events),
         engine.phase \in {"signIn", "autoCompact"}, NEW end \in Ends, Unsent(end)
  PROVE  AInv'
<1>1. "PromptUnsent" \in PlainKinds \ (Hops \cup {"PromptDrained"})
  BY DEF PlainKinds, EventKinds, Hops
<1>2. engine.phase \in Racing /\ engine.phase \in TurnPhases
  BY DEF Racing, TurnPhases
<1>3. tui.op = "Prompt"
  BY <1>2, RunsOwn DEF Agrees
<1>4. End(end, <<Event("PromptUnsent")>>)
  BY DEF Unsent
<1>5. QED
  BY <1>1, <1>2, <1>3, <1>4, SaysWord, EndAgrees

LEMMA AbsorbInterruptAgrees == ASSUME FInv, AInv, AbsorbInterrupt PROVE AInv'
<1>1. engine.phase \in Racing /\ Received({"Interrupt"}) /\ "Cancelled" \in Ends
  BY DEF AbsorbInterrupt, Ends
<1>2. Ready(engine, ops') /\ tui' = tui /\ Agrees(tui, engine, ops', events)
  BY <1>1, AbsorbedAgrees
<1>3. CASE engine.phase \in {"signIn", "autoCompact"}
  <2>1. Unsent("Cancelled")
    BY <1>3 DEF AbsorbInterrupt
  <2>2. QED
    BY <1>1, <1>2, <1>3, <2>1, UnsentAgrees
<1>4. CASE engine.phase \notin {"signIn", "autoCompact"}
  <2>1. End("Cancelled", <<>>)
    BY <1>4 DEF AbsorbInterrupt
  <2>2. QED
    BY <1>1, <1>2, <2>1, SaysNothing, EndAgrees
<1>5. QED
  BY <1>3, <1>4

LEMMA AbsorbCodeAgrees == ASSUME FInv, AInv, AbsorbCode PROVE AInv'
<1>1. /\ engine.phase = "login" /\ Received({"LoginCode"}) /\ Emit(<<>>) /\ events' = events
      /\ engine.phase \in Racing /\ "finishLogin" \in Racing
  BY Closed, ConcatEmptySeq DEF AbsorbCode, Emit, Racing
<1>2. /\ Ready(engine, ops') /\ tui' = tui /\ Agrees(tui, engine, ops', events)
      /\ engine \in Engines /\ Phased(engine)
  BY <1>1, AbsorbedAgrees
<1>3. CASE engine' = [engine EXCEPT !.phase = "finishLogin"]
  BY <1>1, <1>2, <1>3, SaysNothing, PhaseAgrees
<1>4. CASE UNCHANGED engine
  BY <1>1, <1>2, <1>4, SilentAgrees
<1>5. QED
  BY <1>3, <1>4 DEF AbsorbCode

LEMMA AbsorbOtherAgrees == ASSUME FInv, AInv, AbsorbOther PROVE AInv'
<1> DEFINE kinds == IF engine.phase = "login" THEN IdleOnly ELSE IdleOnly \cup {"LoginCode"}
<1>1. engine.phase \in Racing /\ Received(kinds) /\ engine' = engine /\ events' = events
  BY DEF AbsorbOther
<1>2. kinds \cap {"Queue", "SetMode"} = {}
  BY DEF IdleOnly, LocalOps, Switches
<1> HIDE DEF kinds
<1>3. /\ Ready(engine, ops') /\ tui' = tui /\ Agrees(tui, engine, ops', events)
      /\ engine \in Engines /\ Phased(engine)
  BY <1>1, <1>2, AbsorbedAgrees
<1>4. QED
  BY <1>1, <1>3, SilentAgrees

LEMMA AbsorbAgrees == ASSUME FInv, AInv, Absorb PROVE AInv'
BY AbsorbQueueAgrees, AbsorbModeAgrees, AbsorbInterruptAgrees, AbsorbCodeAgrees,
   AbsorbOtherAgrees DEF Absorb

\* The operation ends with nothing more said of the queue.
LEMMA OverAgrees ==
  ASSUME FInv, AInv, NEW phases \in SUBSET Racing, Raced(phases), NEW end \in Ends, End(end, <<>>)
  PROVE  AInv'
BY RacedAgrees, SaysNothing, EndAgrees

LEMMA SignInAgrees == ASSUME FInv, AInv, SignIn PROVE AInv'
<1>1. Raced({"signIn"}) /\ {"signIn"} \subseteq Racing /\ "signIn" \in TurnPhases /\ "Failed" \in Ends
  BY RacingPhases DEF SignIn, TurnPhases, Ends
<1>2. /\ Ready(engine, ops') /\ tui' = tui /\ engine.phase = "signIn"
      /\ Agrees(tui, engine, ops', events)
  BY <1>1, RacedAgrees
<1>3. CASE SignedIn(engine)
  BY <1>1, <1>2, <1>3, SignedInAgrees
<1>4. CASE Unsent("Failed")
  BY <1>1, <1>2, <1>4, UnsentAgrees
<1>5. QED
  BY <1>3, <1>4 DEF SignIn

LEMMA AutoCompactAgrees == ASSUME FInv, AInv, AutoCompact PROVE AInv'
<1>1. /\ Raced({"autoCompact"}) /\ {"autoCompact"} \subseteq Racing /\ "autoCompact" \in TurnPhases
      /\ "Failed" \in Ends
  BY RacingPhases DEF AutoCompact, TurnPhases, Ends
<1>2. /\ Ready(engine, ops') /\ tui' = tui /\ engine.phase = "autoCompact"
      /\ Agrees(tui, engine, ops', events)
  BY <1>1, RacedAgrees
<1>3. CASE BeginTurn(engine, <<Event("SessionCompacted")>>)
  <2> DEFINE evs == <<Event("SessionCompacted")>>
  <2>1. "SessionCompacted" \in PlainKinds \ (Hops \cup {"PromptDrained"})
    BY DEF PlainKinds, EventKinds, Hops
  <2>2. evs \in Seq(EventRecs) /\ Confirmed(evs) = <<>> /\ Plain(evs) /\ Speaks("Prompt", evs)
    BY <2>1, SaysWord
  <2>3. BeginTurn(engine, evs)
    BY <1>3
  <2> HIDE DEF evs
  <2>4. QED
    BY <1>1, <1>2, <2>2, <2>3, BeginTurnAgrees
<1>4. CASE Unsent("Failed")
  BY <1>1, <1>2, <1>4, UnsentAgrees
<1>5. QED
  BY <1>3, <1>4 DEF AutoCompact

LEMMA CompactAgrees == ASSUME FInv, AInv, Compact PROVE AInv'
<1>1. Raced({"compact"}) /\ {"compact"} \subseteq Racing /\ {"Completed", "Failed"} \subseteq Ends
  BY RacingPhases DEF Compact, Ends
<1>2. CASE End("Completed", <<Event("SessionCompacted")>>)
  <2> DEFINE evs == <<Event("SessionCompacted")>>
  <2>1. "SessionCompacted" \in PlainKinds \ (Hops \cup {"PromptDrained"})
    BY DEF PlainKinds, EventKinds, Hops
  <2>2. evs \in Seq(EventRecs) /\ Confirmed(evs) = <<>> /\ Plain(evs) /\ Speaks("Compact", evs)
    BY <2>1, SaysWord
  <2>3. /\ Ready(engine, ops') /\ tui' = tui /\ engine.phase = "compact"
        /\ Agrees(tui, engine, ops', events) /\ engine.phase \in Racing
    BY <1>1, RacedAgrees
  <2>4. tui.op = "Compact"
    BY <2>3, RunsOwn DEF Agrees
  <2>5. End("Completed", evs)
    BY <1>2
  <2> HIDE DEF evs
  <2>6. QED
    BY <1>1, <2>2, <2>3, <2>4, <2>5, EndAgrees
<1>3. CASE End("Failed", <<>>)
  BY <1>1, <1>3, OverAgrees
<1>4. QED
  BY <1>2, <1>3 DEF Compact

LEMMA LoginAgrees == ASSUME FInv, AInv, Login PROVE AInv'
<1>1. {"Completed", "Failed"} \subseteq Ends
  BY DEF Ends
<1>2. CASE Raced({"login"}) /\ engine' = [engine EXCEPT !.phase = "finishLogin"] /\ UNCHANGED events
  <2>1. /\ Ready(engine, ops') /\ tui' = tui /\ engine.phase = "login"
        /\ Agrees(tui, engine, ops', events) /\ "finishLogin" \in Racing
    BY <1>2, RacingPhases, RacedAgrees
  <2>2. Emit(<<>>)
    BY <1>2, Closed, ConcatEmptySeq DEF Emit
  <2>3. QED
    BY <1>2, <2>1, <2>2, SaysNothing, PhaseAgrees
<1>3. CASE Raced({"login", "finishLogin"}) /\ End("Failed", <<>>)
  BY <1>1, <1>3, RacingPhases, OverAgrees
<1>4. CASE Raced({"finishLogin"}) /\ End("Completed", <<>>)
  BY <1>1, <1>4, RacingPhases, OverAgrees
<1>5. QED
  BY <1>2, <1>3, <1>4 DEF Login

\* A reply streams in, and may call tools.
LEMMA TokenAgrees ==
  ASSUME FInv, AInv, NEW phases \in SUBSET Racing, Raced(phases), phases \subseteq TurnPhases,
         NEW phase \in Racing \cap TurnPhases, engine' = [engine EXCEPT !.phase = phase],
         Emit(<<Event("Token")>>)
  PROVE  AInv'
<1>1. /\ Ready(engine, ops') /\ tui' = tui /\ engine.phase \in TurnPhases
      /\ Agrees(tui, engine, ops', events)
  BY RacedAgrees
<1>2. tui.op = "Prompt"
  BY <1>1, RunsOwn DEF Agrees
<1> DEFINE evs == <<Event("Token")>>
<1>3. "Token" \in PlainKinds \ (Hops \cup {"PromptDrained"})
  BY DEF PlainKinds, EventKinds, Hops
<1>4. evs \in Seq(EventRecs) /\ Confirmed(evs) = <<>> /\ Plain(evs) /\ Speaks("Prompt", evs)
  BY <1>3, SaysWord
<1>5. Emit(evs)
  OBVIOUS
<1> HIDE DEF evs
<1>6. QED
  BY <1>1, <1>2, <1>4, <1>5, PhaseAgrees

LEMMA StreamAgrees == ASSUME FInv, AInv, Stream PROVE AInv'
<1>1. /\ Raced({"request"}) /\ {"request"} \subseteq Racing /\ {"request"} \subseteq TurnPhases
      /\ "reply" \in Racing \cap TurnPhases
  BY RacingPhases DEF Stream, TurnPhases, Racing
<1>2. QED
  BY <1>1, TokenAgrees DEF Stream

LEMMA CallToolsAgrees == ASSUME FInv, AInv, CallTools PROVE AInv'
<1>1. /\ Raced({"request", "reply"}) /\ {"request", "reply"} \subseteq Racing
      /\ {"request", "reply"} \subseteq TurnPhases /\ "tools" \in Racing \cap TurnPhases
  BY RacingPhases DEF CallTools, TurnPhases, Racing
<1>2. QED
  BY <1>1, TokenAgrees DEF CallTools

LEMMA PauseAgrees == ASSUME FInv, AInv, Pause PROVE AInv'
<1>1. Raced({"request", "reply"}) /\ {"request", "reply"} \subseteq Racing /\ "Failed" \in Ends
  BY RacingPhases DEF Pause, Ends
<1>2. CASE End("Failed", <<>>)
  BY <1>1, <1>2, OverAgrees
<1>3. CASE engine' = [engine EXCEPT !.phase = "request", !.round = @ + 1] /\ UNCHANGED events
  <2> DEFINE f == [engine EXCEPT !.phase = "request", !.round = @ + 1]
  <2>1. /\ Ready(engine, ops') /\ tui' = tui /\ engine.phase \in {"request", "reply"}
        /\ Agrees(tui, engine, ops', events) /\ Phased(engine) /\ engine \in Engines
    BY <1>1, RacedAgrees
  <2>2. "request" \in Phases /\ engine.round + 1 \in Nat
    BY <2>1, EngineFields DEF Phases, Racing
  <2>3. f \in Engines
    BY <2>1, <2>2 DEF Engines
  <2>4. f.phase = "request" /\ f.op = engine.op /\ f.mailbox = engine.mailbox
    BY <2>1 DEF Engines
  <2>5. engine' = f /\ events' = events
    BY <1>3
  <2> HIDE DEF f
  <2>6. Phased(f)
    <3>1. engine.phase \in TurnPhases /\ "request" \in TurnPhases
      BY <2>1 DEF TurnPhases
    <3>2. QED
      BY <2>1, <2>4, <3>1, PhasedOn
  <2>7. QED
    BY <2>1, <2>3, <2>4, <2>5, <2>6, SilentAgrees
<1>4. QED
  BY <1>2, <1>3 DEF Pause

LEMMA ReplyAgrees == ASSUME FInv, AInv, Reply PROVE AInv'
<1>1. Raced({"request", "reply"}) /\ {"request", "reply"} \subseteq Racing
      /\ {"Completed", "Failed"} \subseteq Ends
  BY RacingPhases DEF Reply, Ends
<1>2. QED
  BY <1>1, OverAgrees DEF Reply

LEMMA RefuseAgrees == ASSUME FInv, AInv, Refuse PROVE AInv'
<1> DEFINE evs == <<Event("TurnRolledBack")>>
<1>1. Raced({"request", "reply"}) /\ {"request", "reply"} \subseteq Racing /\ "Failed" \in Ends
      /\ End("Failed", evs)
  BY RacingPhases DEF Refuse, Ends
<1>2. /\ Ready(engine, ops') /\ tui' = tui /\ engine.phase \in {"request", "reply"}
      /\ engine.phase \in Racing /\ Agrees(tui, engine, ops', events) /\ Phased(engine)
  BY <1>1, RacedAgrees
<1>3. tui.op = "Prompt"
  BY <1>2, RunsOwn DEF TurnPhases
<1>4. "TurnRolledBack" \in PlainKinds \ (Hops \cup {"PromptDrained"})
  BY DEF PlainKinds, EventKinds, Hops
<1>5. evs \in Seq(EventRecs) /\ Confirmed(evs) = <<>> /\ Plain(evs) /\ Speaks("Prompt", evs)
  BY <1>4, SaysWord
<1> HIDE DEF evs
<1>6. QED
  BY <1>1, <1>2, <1>3, <1>5, EndAgrees

LEMMA GateAgrees == ASSUME FInv, AInv, Gate PROVE AInv'
<1>1. Raced({"tools"}) /\ {"tools"} \subseteq Racing /\ events' = events
      /\ engine' = ModeApplied(engine)
  BY RacingPhases DEF Gate
<1>2. /\ Ready(engine, ops') /\ tui' = tui /\ engine.phase = "tools" /\ engine \in Engines
      /\ Agrees(tui, engine, ops', events) /\ Phased(engine)
  BY <1>1, RacedAgrees
<1>3. /\ engine' \in Engines /\ engine'.phase = engine.phase /\ engine'.op = engine.op
      /\ engine'.mailbox = engine.mailbox
  BY <1>1, <1>2, AppliedTypes
<1>4. Phased(engine')
  BY <1>2, <1>3, PhasedOn
<1>5. QED
  BY <1>1, <1>2, <1>3, <1>4, SilentAgrees

LEMMA AbortApprovalAgrees == ASSUME FInv, AInv, AbortApproval PROVE AInv'
BY RacingPhases, OverAgrees DEF AbortApproval, Ends

LEMMA MidTurnCompactAgrees == ASSUME FInv, AInv, MidTurnCompact PROVE AInv'
<1>1. Raced({"midTurnCompact"}) /\ {"midTurnCompact"} \subseteq Racing /\ "Failed" \in Ends
  BY RacingPhases DEF MidTurnCompact, Ends
<1>2. /\ Ready(engine, ops') /\ tui' = tui /\ engine.phase = "midTurnCompact"
      /\ engine \in Engines /\ Agrees(tui, engine, ops', events) /\ Phased(engine)
  BY <1>1, RacedAgrees
<1>3. CASE Drain([ModeApplied(engine) EXCEPT !.phase = "request", !.mark = Len(said)],
                 <<Event("SessionCompactedMidTurn")>>)
  <2> DEFINE a == ModeApplied(engine)
             f == [a EXCEPT !.phase = "request", !.mark = Len(said), !.mailbox = <<>>]
             evs == <<Event("SessionCompactedMidTurn")>>
             d == evs \o Drained(engine.mailbox)
  <2>1. a \in Engines /\ a.op = engine.op /\ a.mailbox = engine.mailbox
    BY <1>2, AppliedTypes
  <2> HIDE DEF a
  <2>2. "request" \in Phases /\ Len(said) \in Nat /\ "request" \in TurnPhases
        /\ engine.phase \in TurnPhases
    BY <1>2, EngineFacts, LenProperties DEF Phases, Racing, TurnPhases
  <2>3. f \in Engines
    BY <2>1, <2>2, QueueConstants DEF Engines
  <2>4. f.phase = "request" /\ f.op = engine.op /\ f.mailbox = <<>>
    BY <2>1 DEF Engines
  <2>5. engine' = f /\ Emit(d)
    <3>1. [a EXCEPT !.phase = "request", !.mark = Len(said)].mailbox = engine.mailbox
      BY <2>1 DEF Engines
    <3>2. Drain([a EXCEPT !.phase = "request", !.mark = Len(said)], evs)
      BY <1>3 DEF a
    <3> HIDE DEF evs
    <3>3. QED
      BY <3>1, <3>2 DEF Drain
  <2>6. "SessionCompactedMidTurn" \in PlainKinds \ (Hops \cup {"PromptDrained"})
    BY DEF PlainKinds, EventKinds, Hops
  <2>7. evs \in Seq(EventRecs) /\ Confirmed(evs) = <<>> /\ Plain(evs) /\ Speaks("Prompt", evs)
    BY <2>6, SaysWord
  <2> HIDE DEF f, evs
  <2>8. /\ d \in Seq(EventRecs) /\ Plain(d) /\ Speaks("Prompt", d)
        /\ Confirmed(d) = engine.mailbox
    BY <1>2, <2>7, SaysDrained
  <2> HIDE DEF d
  <2>9. Phased(f) /\ tui.op = "Prompt"
    <3>1. f.phase \notin {"idle", "local"}
      BY <2>4
    <3>2. QED
      BY <1>2, <2>2, <2>4, <3>1, PhasedOn, RunsOwn
  <2>10. Hands(engine, f, d)
    BY <2>4, <2>8 DEF Hands
  <2>11. QED
    BY <1>2, <2>3, <2>5, <2>8, <2>9, <2>10, SayAgrees
<1>4. CASE End("Failed", <<>>)
  BY <1>1, <1>4, OverAgrees
<1>5. QED
  BY <1>3, <1>4 DEF MidTurnCompact

LEMMA RoundDoneAgrees == ASSUME FInv, AInv, RoundDone PROVE AInv'
<1> DEFINE a == ModeApplied(engine)
           e == [a EXCEPT !.round = @ + 1]
<1>1. Raced({"tools"}) /\ {"tools"} \subseteq Racing /\ "Failed" \in Ends
  BY RacingPhases DEF RoundDone, Ends
<1>2. /\ Ready(engine, ops') /\ tui' = tui /\ engine.phase = "tools" /\ engine \in Engines
      /\ Agrees(tui, engine, ops', events) /\ Phased(engine) /\ engine.phase \in Racing
  BY <1>1, RacedAgrees
<1>3. a \in Engines /\ a.op = engine.op /\ a.mailbox = engine.mailbox
  BY <1>2, AppliedTypes
<1>4. \/ End("Failed", Drained(e.mailbox))
      \/ Drain([e EXCEPT !.phase = "request"], <<>>)
      \/ /\ Emit(Append(Drained(e.mailbox), Event("AutoCompactionStarted")))
         /\ engine' = [e EXCEPT !.phase = "midTurnCompact", !.mailbox = <<>>]
  BY DEF RoundDone
<1> HIDE DEF a
<1>5. e \in Engines
  <2>1. a.round + 1 \in Nat
    BY <1>3, EngineFields
  <2>2. QED
    BY <1>3, <2>1 DEF Engines
<1>6. e.op = engine.op /\ e.mailbox = engine.mailbox
  BY <1>3 DEF Engines
<1> HIDE DEF e
<1> DEFINE d == Drained(engine.mailbox)
<1>7. d \in Seq(EventRecs) /\ Plain(d) /\ Speaks("Prompt", d) /\ Confirmed(d) = engine.mailbox
  <2>1. d \in Seq(EventRecs)
    BY <1>2, EngineFields, PlainDrained
  <2>2. <<>> \o d = d
    BY <2>1, ConcatEmptySeq
  <2>3. QED
    BY <1>2, <2>2, SaysNothing, SaysDrained
<1> HIDE DEF d
<1>8. /\ engine.phase \in TurnPhases /\ {"request", "midTurnCompact"} \subseteq TurnPhases
      /\ {"request", "midTurnCompact"} \subseteq Phases
  BY <1>2 DEF TurnPhases, Phases, Racing
<1>9. tui.op = "Prompt"
  BY <1>2, <1>8, RunsOwn
<1>10. CASE End("Failed", Drained(e.mailbox))
  <2>1. End("Failed", d)
    BY <1>6, <1>10 DEF d
  <2>2. QED
    BY <1>1, <1>2, <1>7, <1>9, <2>1, EndAgrees
<1>11. CASE Drain([e EXCEPT !.phase = "request"], <<>>)
  <2> DEFINE f == [e EXCEPT !.phase = "request", !.mailbox = <<>>]
  <2>1. f \in Engines
    BY <1>5, <1>8, QueueConstants DEF Engines
  <2>2. f.phase = "request" /\ f.op = engine.op /\ f.mailbox = <<>>
    BY <1>5, <1>6 DEF Engines
  <2>3. engine' = f /\ Emit(d)
    <3>1. [e EXCEPT !.phase = "request"].mailbox = engine.mailbox
      BY <1>5, <1>6 DEF Engines
    <3>2. Emit(<<>> \o d) /\ engine' = f
      BY <1>11, <3>1 DEF Drain, d
    <3>3. QED
      BY <1>7, <3>2, ConcatEmptySeq
  <2> HIDE DEF f
  <2>4. Phased(f)
    BY <1>2, <1>8, <2>2, PhasedOn
  <2>5. Hands(engine, f, d)
    BY <1>7, <2>2 DEF Hands
  <2>6. QED
    BY <1>2, <1>7, <1>9, <2>1, <2>3, <2>4, <2>5, SayAgrees
<1>12. CASE /\ Emit(Append(Drained(e.mailbox), Event("AutoCompactionStarted")))
            /\ engine' = [e EXCEPT !.phase = "midTurnCompact", !.mailbox = <<>>]
  <2> DEFINE f == [e EXCEPT !.phase = "midTurnCompact", !.mailbox = <<>>]
             x == Event("AutoCompactionStarted")
             o == <<x>>
             ws == d \o o
  <2>1. f \in Engines
    BY <1>5, <1>8, QueueConstants DEF Engines
  <2>2. f.phase = "midTurnCompact" /\ f.op = engine.op /\ f.mailbox = <<>>
    BY <1>5, <1>6 DEF Engines
  <2>3. "AutoCompactionStarted" \in PlainKinds \ (Hops \cup {"PromptDrained"})
    BY DEF PlainKinds, EventKinds, Hops
  <2>4. o \in Seq(EventRecs) /\ Confirmed(o) = <<>> /\ Plain(o) /\ Speaks("Prompt", o)
    BY <2>3, SaysWord
  <2>5. x \in EventRecs
    BY EventTypes DEF EventKinds
  <2>6. engine' = f /\ Emit(Append(d, x))
    BY <1>6, <1>12 DEF d
  <2> HIDE DEF f, x
  <2>7. Append(d, x) = ws
    BY <1>7, <2>5, AppendIsConcat
  <2>8. ws \in Seq(EventRecs) /\ Plain(ws) /\ Speaks("Prompt", ws)
    BY <1>7, <2>4, PlainJoined, SpeaksJoined
  <2>9. Confirmed(ws) = engine.mailbox
    <3>1. Confirmed(ws) = engine.mailbox \o <<>>
      BY <1>7, <2>4, ConfirmedConcat
    <3>2. engine.mailbox \in Seq(Prompt)
      BY <1>2, EngineFields
    <3>3. QED
      BY <3>1, <3>2, ConcatEmptySeq
  <2> HIDE DEF ws
  <2>10. Phased(f)
    BY <1>2, <1>8, <2>2, PhasedOn
  <2>11. Hands(engine, f, ws)
    BY <2>2, <2>9 DEF Hands
  <2>12. QED
    BY <1>2, <1>9, <2>1, <2>6, <2>7, <2>8, <2>10, <2>11, SayAgrees
<1>13. QED
  BY <1>4, <1>10, <1>11, <1>12

LEMMA ProgressAgrees == ASSUME FInv, AInv, Progress PROVE AInv'
BY SignInAgrees, AutoCompactAgrees, CompactAgrees, LoginAgrees, StreamAgrees, PauseAgrees,
   ReplyAgrees, RefuseAgrees, CallToolsAgrees, GateAgrees, RoundDoneAgrees, AbortApprovalAgrees,
   MidTurnCompactAgrees DEF Progress

\* A switch, a lookup or a rename ends, and one that switched says so first.
LEMMA LocalAgrees ==
  ASSUME FInv, AInv, tui' = tui, ops' = ops, engine.phase = "local", engine' \in Engines,
         engine'.phase = "idle", engine'.mailbox = engine.mailbox,
         NEW x \in EventRecs, x.ev = "OpEnded", x.id = engine.id,
         NEW evs \in Seq(EventRecs), Confirmed(evs) = <<>>, Speaks(engine.op, evs),
         \A k \in DOMAIN evs : evs[k].ev # "OpEnded",
         engine.op \in Switches =>
           x.end \in {"Failed", "Cancelled"} \/ \E k \in DOMAIN evs : evs[k].ev \in Hops,
         Emit(evs \o <<x>>)
  PROVE  AInv'
<1>1. events' = events \o (evs \o <<x>>)
  BY DEF Emit
<1>2. Ready(engine, ops) /\ Agrees(tui, engine, ops, events) /\ Phased(engine)
  BY ReadyRuns DEF AInv, Agrees
<1>3. tui.op = engine.op
  BY <1>2, RunsOwn
<1>4. Phased(engine')
  <2>1. engine.mailbox = <<>>
    BY <1>2 DEF Phased
  <2>2. QED
    BY <2>1 DEF Phased, TurnPhases
<1>5. EndsAt(tui, evs) = {}
  BY EndsNone
<1>6. Agrees(tui, engine', ops, events \o (evs \o <<x>>))
  BY <1>2, <1>3, <1>4, <1>5, Closed, AgreesEnds
<1>7. QED
  BY <1>1, <1>6 DEF AInv

LEMMA RunLocalAgrees == ASSUME FInv, AInv, RunLocal PROVE AInv'
<1> DEFINE over == [engine EXCEPT !.phase = "idle", !.id = 0, !.op = "none"]
           x == OpEnded(engine.id, "Completed")
           y == OpEnded(engine.id, "Failed")
<1>1. engine.phase = "local" /\ tui' = tui /\ ops' = ops
  BY DEF RunLocal
<1>2. /\ over \in Engines /\ over.phase = "idle" /\ over.mailbox = engine.mailbox
      /\ over.session \in Nat
  BY Closed DEF Engines, Phases
<1>3. \/ /\ engine.op \in Switches
         /\ engine' = [over EXCEPT !.session = @ + 1]
         /\ Emit(<<Event(IF engine.op = "Resume" THEN "SessionResumed" ELSE "SessionRolled")>>
                 \o <<x>>)
      \/ /\ engine.op \notin Switches
         /\ engine' = over
         /\ Emit((IF engine.op = "FindSaved" THEN <<Event("SavedFound")>> ELSE <<>>) \o <<x>>)
      \/ engine' = over /\ Emit(<<y>>)
  BY DEF RunLocal
<1>4. /\ x \in EventRecs /\ x.ev = "OpEnded" /\ x.id = engine.id
      /\ y \in EventRecs /\ y.ev = "OpEnded" /\ y.id = engine.id
  BY Closed, EngineFields, EventTypes DEF Ends
<1>5. y.end = "Failed"
  BY DEF OpEnded, Event
<1> HIDE DEF over, x, y
<1>6. CASE /\ engine.op \in Switches
           /\ engine' = [over EXCEPT !.session = @ + 1]
           /\ Emit(<<Event(IF engine.op = "Resume" THEN "SessionResumed" ELSE "SessionRolled")>>
                   \o <<x>>)
  <2> DEFINE ev == IF engine.op = "Resume" THEN "SessionResumed" ELSE "SessionRolled"
             z == Event(ev)
             f == [over EXCEPT !.session = @ + 1]
  <2>1. z \in EventRecs /\ z.ev \in Hops
    <3>1. ev \in EventKinds \ {"ModeChanged"} /\ ev \in Hops
      BY DEF EventKinds, Hops
    <3> HIDE DEF ev
    <3>2. QED
      BY <3>1, EventTypes
  <2>2. over.session + 1 \in Nat
    BY <1>2
  <2>3. f \in Engines
    BY <1>2, <2>2 DEF Engines
  <2>4. f.phase = "idle" /\ f.mailbox = engine.mailbox
    BY <1>2 DEF Engines
  <2>5. engine' = f /\ Emit(<<z>> \o <<x>>)
    BY <1>6
  <2> HIDE DEF f, z
  <2>6. <<z>> \in Seq(EventRecs) /\ DOMAIN <<z>> = {1} /\ <<z>>[1] = z
    BY <2>1
  <2>7. Confirmed(<<z>>) = <<>>
    BY <2>1, ConfirmedOne DEF Hops
  <2>8. Speaks(engine.op, <<z>>)
    BY <1>6, <2>1, <2>6 DEF Speaks, Hops, TurnWords
  <2>9. (\A k \in DOMAIN <<z>> : <<z>>[k].ev # "OpEnded") /\ \E k \in DOMAIN <<z>> : <<z>>[k].ev \in Hops
    BY <2>1, <2>6 DEF Hops
  <2>10. QED
    BY <1>1, <1>4, <2>3, <2>4, <2>5, <2>6, <2>7, <2>8, <2>9, LocalAgrees
<1>7. CASE /\ engine.op \notin Switches
           /\ engine' = over
           /\ Emit((IF engine.op = "FindSaved" THEN <<Event("SavedFound")>> ELSE <<>>) \o <<x>>)
  <2> DEFINE z == Event("SavedFound")
             evs == IF engine.op = "FindSaved" THEN <<z>> ELSE <<>>
  <2>1. z \in EventRecs /\ z.ev = "SavedFound"
    BY EventTypes DEF EventKinds
  <2>2. engine' = over /\ Emit(evs \o <<x>>)
    BY <1>7
  <2> HIDE DEF z
  <2>3. <<z>> \in Seq(EventRecs) /\ DOMAIN <<z>> = {1} /\ <<z>>[1] = z
    BY <2>1
  <2>4. Confirmed(<<z>>) = <<>>
    BY <2>1, ConfirmedOne
  <2>5. Speaks(engine.op, <<z>>)
    BY <2>1, <2>3 DEF Speaks, Hops, TurnWords
  <2>6. \A k \in DOMAIN <<z>> : <<z>>[k].ev # "OpEnded"
    BY <2>1, <2>3
  <2>7. \A k \in DOMAIN <<>> : <<>>[k].ev # "OpEnded"
    OBVIOUS
  <2>8. /\ evs \in Seq(EventRecs) /\ Confirmed(evs) = <<>> /\ Speaks(engine.op, evs)
        /\ \A k \in DOMAIN evs : evs[k].ev # "OpEnded"
    BY <2>3, <2>4, <2>5, <2>6, <2>7, SaysNothing
  <2> HIDE DEF evs
  <2>9. QED
    BY <1>1, <1>2, <1>4, <1>7, <2>2, <2>8, LocalAgrees
<1>8. CASE engine' = over /\ Emit(<<y>>)
  <2>1. <<>> \o <<y>> = <<y>>
    BY <1>4, ConcatEmptySeq
  <2>2. Emit(<<>> \o <<y>>)
    BY <1>8, <2>1
  <2>3. \A k \in DOMAIN <<>> : <<>>[k].ev # "OpEnded"
    OBVIOUS
  <2>4. y.end \in {"Failed", "Cancelled"}
    BY <1>5
  <2>5. QED
    BY <1>1, <1>2, <1>4, <1>8, <2>2, <2>3, <2>4, SaysNothing, LocalAgrees
<1>9. QED
  BY <1>3, <1>6, <1>7, <1>8

----------------------------------------------------------------------------
(* The agreement *)

LEMMA InitAgrees == ASSUME Init PROVE AInv
<1>1. /\ tui.op = "none" /\ tui.queue = EmptyQueue /\ engine.phase = "idle"
      /\ engine.mailbox = <<>>
  BY DEF Init
<1>2. tui \in UIs /\ tui.queue \in Queues /\ engine \in Engines /\ ops \in Seq(Submissions)
      /\ events \in Seq(EventRecs) /\ Flight(tui, engine, ops, events)
  BY InitHolds, Closed
<1>3. Phased(engine)
  BY <1>1 DEF Phased, TurnPhases
<1>4. Shaped(tui.queue, "none")
  <2> DEFINE q == EmptyQueue
  <2>1. q.forwarded = 0 /\ q.pending = <<>> /\ q.switch = NoSwitch /\ Len(<<>>) = 0
    BY DEF EmptyQueue
  <2>2. ~SwitchAsked(q)
    BY <2>1 DEF SwitchAsked, NoSwitch
  <2>3. "none" \notin Switches
    BY DEF Switches
  <2> HIDE DEF q
  <2>4. Shaped(q, "none")
    BY <2>1, <2>2, <2>3 DEF Shaped
  <2>5. QED
    BY <1>1, <2>4 DEF q
<1>5. QED
  BY <1>1, <1>2, <1>3, <1>4, AgreesIdle DEF AInv, Busy

LEMMA StepAgrees == ASSUME FInv, AInv, [Next]_vars PROVE AInv'
<1>1. CASE UNCHANGED vars
  BY <1>1 DEF vars, AInv
<1>2. CASE Rest
  BY <1>2 DEF Rest, vars, AInv
<1>3. QED
  BY <1>1, <1>2, UserAgrees, EventAgrees, ServeAgrees, AbsorbAgrees, ProgressAgrees,
     RunLocalAgrees DEF Next

LEMMA LeadDrains == ASSUME FInv, AInv PROVE QueuesAgree
<1>1. tui.queue \in Queues /\ events \in Seq(EventRecs)
  BY Closed
<1>2. Shaped(tui.queue, tui.op) /\ Chained(tui, engine, ops, events)
  BY DEF AInv, Agrees
<1>3. MarkFits
  BY <1>2 DEF Shaped, MarkFits
<1> DEFINE q == tui.queue
           c == Confirmed(events)
<1>4. /\ Lead(q) \in Seq(Carried) /\ Len(Lead(q)) = q.forwarded
      /\ \A i \in 1..q.forwarded : Lead(q)[i] = q.pending[i]
  BY <1>1, <1>2, LeadFacts DEF Shaped
<1>5. c \in Seq(Carried)
  BY <1>1, SequenceTypes, EmptySeq
<1>6. PICK rest \in Seq(Carried) : c \o rest = Lead(q)
  BY <1>2 DEF Chained
<1>7. DrainsLead
  <2>1. Len(c) <= q.forwarded /\ \A i \in 1..Len(c) : c[i] = q.pending[i]
    <3> DEFINE l == Lead(q)
               n == q.forwarded
               s == q.pending
    <3>1. /\ l \in Seq(Carried) /\ c \in Seq(Carried) /\ rest \in Seq(Carried) /\ c \o rest = l
          /\ Len(l) = n /\ \A i \in 1..n : l[i] = s[i]
      BY <1>4, <1>5, <1>6
    <3> HIDE DEF c, l, n, s
    <3>2. Len(l) = Len(c) + Len(rest) /\ Len(c) \in Nat /\ Len(rest) \in Nat
          /\ \A i \in 1..Len(c) : l[i] = c[i]
      BY <3>1, ConcatProperties
    <3>3. Len(c) <= n /\ \A i \in 1..Len(c) : i \in 1..n
      BY <3>1, <3>2
    <3>4. QED
      BY <3>1, <3>2, <3>3 DEF n, s
  <2>2. QED
    BY <2>1 DEF DrainsLead
<1>8. QED
  BY <1>3, <1>7 DEF QueuesAgree

\* What the engine and the switches still have to say of the queue always fits it (queue.rs,
\* app/events.rs, engine/turn.rs): the confirmations under way name the forwarded prompts in queue
\* order, whatever was taken back, rolled back, cancelled or compacted meanwhile, and a switch's
\* mark never counts more prompts than are queued.
THEOREM QueuesAlwaysAgree == Spec => []QueuesAgree
<1>1. Init => FInv /\ AInv
  BY InitHolds, InitAgrees
<1>2. FInv /\ AInv /\ [Next]_vars => FInv' /\ AInv'
  BY StepHolds, StepAgrees
<1>3. FInv /\ AInv => QueuesAgree
  BY LeadDrains
<1>4. QED
  BY <1>1, <1>2, <1>3, PTL DEF Spec
====
